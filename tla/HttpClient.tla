------------------------------ MODULE HttpClient ------------------------------
(* The HTTP client (as_http_client.c): one ASHttpClient, its connection, and the
   owner that is called back while the client is in the middle of a function.

   From a callback the owner may cancel the request, make a new one or free the
   client, and some of these calls raise callbacks again; frames are the
   callbacks under way, the last one on top.  Between two steps of a callback
   nothing else runs.  What a peer sends is counted in blocks: a reply names a
   length, and the peer may send less or more than that. *)
EXTENDS Naturals, Sequences, SequencesExt

CONSTANTS
    MaxLength,      \* bound: the lengths a reply may name
    MaxHeaderReads  \* bound: reads before the buffer is full of header data

ASSUME ClientAssumption == MaxLength \in Nat /\ MaxHeaderReads \in Nat \ {0}

VARIABLES
    client,     \* the ASHttpClient
    frames,     \* the callbacks under way
    waits,      \* the owner waits for a request to end
    misused,    \* the owner freed or cancelled in HTCL_CB_REQUESTING (history)
    broken      \* "no", or what went wrong

clientVars == <<client, frames, waits, misused, broken>>

NoClient == [alive |-> FALSE, state |-> "DISCONNECTED", tcp |-> FALSE,
             request |-> FALSE, persistent |-> FALSE, input |-> "none", reads |-> 0,
             len |-> 0, got |-> 0, data |-> 0, cb |-> "NONE"]

(* client_alloc, for as_http_client_create and as_http_client_create_tcpc *)
Allocated(tcp) == [NoClient EXCEPT !.alive = TRUE, !.tcp = tcp]

(* tcp_close_null takes the inputs of the descriptor with it. *)
TcpClosed(r) == [r EXCEPT !.tcp = FALSE, !.input = "none"]

(* client_reset *)
ClientReset(r, close) ==
    [(IF close THEN [TcpClosed(r) EXCEPT !.state = "DISCONNECTED"]
               ELSE [r EXCEPT !.state = "CONNECTED"])
     EXCEPT !.request = FALSE, !.len = 0, !.got = 0, !.data = 0, !.reads = 0,
            !.cb = IF @ = "ACTIVE" THEN "RESET" ELSE @]

InCallback == frames # <<>>
Top == frames[Len(frames)]
Quiet == ~InCallback /\ client.alive /\ broken = "no"

(* The client calls back: with r as the client it is called for, from where
   under are the callbacks under way. *)
Raise(r, under, code) ==
    /\ client' = r
    /\ frames' = Append(under, code)

(* The callbacks that end a request *)
RaiseEnd(r, under, code) ==
    /\ Raise(r, under, code)
    /\ waits' = FALSE
    /\ broken' = IF waits THEN broken ELSE "ended twice"

-----------------------------------------------------------------------------
(* Calls of the owner, from callbacks and from elsewhere *)

CanCall == client.alive /\ client.cb # "FREED" /\ broken = "no"

Create(tcp) ==
    /\ ~client.alive /\ ~InCallback /\ broken = "no"
    /\ client' = Allocated(tcp)
    /\ UNCHANGED <<frames, waits, misused, broken>>

(* client_connected for an established connection *)
Requesting(r, under) == Raise([r EXCEPT !.state = "REQUESTING"], under, "REQUESTING")

(* as_http_client_request up to the connection, which is used again if it is
   there.  There may be no memory for the buffer. *)
RequestMade(persistent) ==
    LET r == [ClientReset(client, FALSE) EXCEPT !.request = TRUE,
                                                !.persistent = persistent]
    IN  \/ /\ client' = ClientReset(r, FALSE)
           /\ UNCHANGED <<frames, waits, broken>>
        \/ /\ r.tcp
           /\ \/ Requesting(r, frames) /\ waits' = TRUE /\ UNCHANGED broken
              \/ /\ Raise(ClientReset(r, TRUE), frames, "FAILED")
                 /\ waits' = FALSE /\ UNCHANGED broken
        \/ /\ ~r.tcp
           /\ \/ client' = ClientReset(r, TRUE) /\ UNCHANGED waits
              \/ /\ client' = [r EXCEPT !.tcp = TRUE, !.state = "CONNECTING",
                                        !.input = "connected"]
                 /\ waits' = TRUE
           /\ UNCHANGED <<frames, broken>>

(* as_http_client_request asserts that no request is under way. *)
MakeRequest(persistent) ==
    /\ CanCall /\ client.state \in {"DISCONNECTED", "CONNECTED"}
    /\ RequestMade(persistent)
    /\ UNCHANGED misused

Misuse == InCallback /\ Top = "REQUESTING"

(* as_http_client_cancel *)
CancelRequest ==
    /\ CanCall
    /\ client' = ClientReset(client, TRUE)
    /\ waits' = FALSE
    /\ misused' = (misused \/ Misuse)
    /\ UNCHANGED <<frames, broken>>

(* Mutant of FreeClient: the client is freed while it calls back. *)
FreeClientAtOnce ==
    /\ CanCall
    /\ client' = NoClient
    /\ waits' = FALSE
    /\ misused' = (misused \/ Misuse)
    /\ UNCHANGED <<frames, broken>>

(* as_http_client_free: in a callback that is looked after it is put off. *)
FreeClient ==
    /\ CanCall
    /\ client' = IF client.cb \in {"ACTIVE", "RESET"} THEN [client EXCEPT !.cb = "FREED"]
                 ELSE NoClient
    /\ waits' = FALSE
    /\ misused' = (misused \/ Misuse)
    /\ UNCHANGED <<frames, broken>>

-----------------------------------------------------------------------------
(* Events *)

(* client_connected for a new connection; the callback for one that failed *)
ClientConnected ==
    /\ Quiet /\ client.input = "connected"
    /\ LET r == [client EXCEPT !.input = "none"] IN
       \/ Requesting(r, frames) /\ UNCHANGED <<waits, broken>>
       \/ RaiseEnd(ClientReset(r, TRUE), frames, "FAILED")
    /\ UNCHANGED misused

(* client_read_header: the request failed, timed out, or its header is too
   long; more of the header has to come; or it is complete. *)
HeaderFails ==
    /\ Quiet /\ client.input = "header"
    /\ RaiseEnd(ClientReset(client, TRUE), frames, "FAILED")
    /\ UNCHANGED misused

HeaderPart ==
    /\ Quiet /\ client.input = "header" /\ client.reads + 1 < MaxHeaderReads
    /\ client' = [client EXCEPT !.reads = @ + 1]
    /\ UNCHANGED <<frames, waits, misused, broken>>

HeaderComplete(len, n) ==
    /\ Quiet /\ client.input = "header"
    /\ Raise([client EXCEPT !.input = "none", !.state = "RECEIVING", !.cb = "ACTIVE",
                            !.len = len, !.data = n],
             frames, "REPLIED")
    /\ UNCHANGED <<waits, misused, broken>>

(* client_write_data: all data is there, and the connection is kept or closed
   before the owner is told; or it is told of some more.  More data than was
   named counts as one block more. *)
WriteData(r, under) ==
    LET w == [r EXCEPT !.got = IF @ + r.data > r.len THEN r.len + 1 ELSE @ + r.data]
    IN  IF w.got = r.len
        THEN RaiseEnd(IF r.persistent THEN [w EXCEPT !.state = "CONNECTED"]
                      ELSE [TcpClosed(w) EXCEPT !.state = "DISCONNECTED"],
                      under, "LAST")
        ELSE /\ Raise([w EXCEPT !.cb = "ACTIVE"], under, "DATA")
             /\ UNCHANGED <<waits, broken>>

(* client_read_body *)
BodyEnds ==
    /\ Quiet /\ client.input = "body"
    /\ RaiseEnd(ClientReset(client, TRUE), frames, "LAST")
    /\ UNCHANGED misused

BodyData(n) ==
    /\ Quiet /\ client.input = "body"
    /\ WriteData([client EXCEPT !.data = n], frames)
    /\ UNCHANGED misused

-----------------------------------------------------------------------------
(* A callback returns *)

Below == Front(frames)

(* input_remove of client_read_body, or its input never came to be *)
BodyRemoved(r) == [r EXCEPT !.input = IF @ = "body" THEN "none" ELSE @]

(* HTCL_CB_REQUESTING: the request is sent, unless the owner does not want it. *)
ReturnRequesting(ok) ==
    /\ InCallback /\ Top = "REQUESTING" /\ broken = "no"
    /\ IF ~client.alive \/ (ok /\ ~client.request)
       THEN broken' = "freed" /\ UNCHANGED <<client, frames, waits>>
       ELSE \/ /\ ~ok
               /\ client' = ClientReset(client, TRUE) /\ frames' = Below
               /\ waits' = FALSE
               /\ UNCHANGED broken
            \/ ok /\ RaiseEnd(ClientReset(client, TRUE), Below, "FAILED")
            \/ /\ ok
               /\ client' = [client EXCEPT !.input = "header", !.len = 0]
               /\ frames' = Below
               /\ UNCHANGED <<waits, broken>>
    /\ UNCHANGED misused

(* The request is over: the client is not looked at any more. *)
ReturnEnd ==
    /\ InCallback /\ Top \in {"FAILED", "LAST"} /\ broken = "no"
    /\ client' = IF Top = "LAST" THEN BodyRemoved(client) ELSE client
    /\ frames' = Below
    /\ UNCHANGED <<waits, misused, broken>>

(* After HTCL_CB_REPLIED and HTCL_CB_DATA the client looks at what happened. *)
ReturnLooked(ok) ==
    /\ InCallback /\ Top \in {"REPLIED", "DATA"} /\ broken = "no"
    /\ LET r == [client EXCEPT !.cb = "NONE"] IN
       CASE ~client.alive ->
              broken' = "freed" /\ UNCHANGED <<client, frames, waits>>
         [] client.cb = "FREED" ->
              client' = NoClient /\ frames' = Below /\ UNCHANGED <<waits, broken>>
         [] client.cb = "RESET" ->
              client' = BodyRemoved(r) /\ frames' = Below /\ UNCHANGED <<waits, broken>>
         [] client.cb = "ACTIVE" /\ ~ok ->
              /\ client' = ClientReset(r, TRUE) /\ frames' = Below
              /\ waits' = FALSE /\ UNCHANGED broken
         [] client.cb = "ACTIVE" /\ ok /\ Top = "REPLIED" /\ (r.data > 0 \/ r.len = 0) ->
              WriteData(r, Below)
         [] OTHER ->
              /\ client' = [r EXCEPT !.input = "body"] /\ frames' = Below
              /\ UNCHANGED <<waits, broken>>
    /\ UNCHANGED misused

-----------------------------------------------------------------------------
ClientInit ==
    /\ client = NoClient
    /\ frames = <<>>
    /\ waits = FALSE /\ misused = FALSE /\ broken = "no"

ClientEvent ==
    \/ ClientConnected \/ HeaderFails \/ HeaderPart \/ BodyEnds
    \/ \E len \in 0 .. MaxLength, n \in 0 .. MaxLength + 1 : HeaderComplete(len, n)
    \/ \E n \in 1 .. MaxLength + 1 : BodyData(n)

ClientReturn ==
    \/ ReturnEnd
    \/ \E ok \in BOOLEAN : ReturnRequesting(ok) \/ ReturnLooked(ok)

OwnerCall ==
    \/ \E tcp \in BOOLEAN : Create(tcp)
    \/ \E persistent \in BOOLEAN : MakeRequest(persistent)
    \/ CancelRequest \/ FreeClient

ClientNext == ClientEvent \/ ClientReturn \/ OwnerCall

ClientSpec == ClientInit /\ [][ClientNext]_clientVars

-----------------------------------------------------------------------------
(* Properties *)

ClientType ==
    /\ client \in [alive : BOOLEAN,
                   state : {"DISCONNECTED", "CONNECTING", "CONNECTED", "REQUESTING",
                            "RECEIVING"},
                   tcp : BOOLEAN, request : BOOLEAN, persistent : BOOLEAN,
                   input : {"none", "connected", "header", "body"},
                   reads : 0 .. MaxHeaderReads, len : 0 .. MaxLength,
                   got : 0 .. MaxLength + 1, data : 0 .. MaxLength + 1,
                   cb : {"NONE", "ACTIVE", "RESET", "FREED"}]
    /\ frames \in Seq({"REQUESTING", "FAILED", "REPLIED", "DATA", "LAST"})
    /\ waits \in BOOLEAN /\ misused \in BOOLEAN
    /\ broken \in {"no", "freed", "ended twice"}

(* Whatever the owner does from a callback other than HTCL_CB_REQUESTING, the
   client uses no memory it freed and a request that was made ends at most
   once, and not after it was cancelled.  Between events a request the owner
   waits for is really under way: its connection is there and the one input it
   has, which times out, is that of its state; and nothing else waits. *)
ClientSafe ==
    /\ ClientType
    /\ ~misused => broken = "no"
    /\ ~misused /\ Quiet =>
          /\ waits <=> client.state \in {"CONNECTING", "REQUESTING", "RECEIVING"}
          /\ client.input = CASE client.state = "CONNECTING" -> "connected"
                              [] client.state = "REQUESTING" -> "header"
                              [] client.state = "RECEIVING" -> "body"
                              [] OTHER -> "none"
          /\ client.input # "none" => client.tcp
          /\ client.cb = "NONE"
=============================================================================
