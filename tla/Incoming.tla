------------------------------- MODULE Incoming -------------------------------
(* The connections other hosts have with us, and the port we listen on:

     as_http_server.c     accepts connections, finds out what they are and
                          hands them to an upload or to a waiting push;
     as_push_reply.c      connects to a host that asked us to push a file and
                          hands the connection to the server;
     as_incoming.c        the server's callbacks;
     as_ares.c            starts and frees the library and moves the server
                          when the configured port changes (as_config.c).

   One thread runs all of it, so every handler is one step.  What a peer sends
   is a request of one kind that arrives in a number of reads; recv returns at
   most 1024 bytes, so a request also reaches HTSV_MAX_REQUEST_LEN after a
   number of reads, MaxReads.  Uploads and downloads are seen from outside:
   they hold a connection and give it up. *)
EXTENDS Integers, FiniteSets

CONSTANTS
    Conns,          \* connections (TCPC)
    PORT_SPACE,     \* in_port_t counts modulo this
    DefaultPort,    \* default_conf's value of AS_LISTEN_PORT
    PortValues,     \* the values a user sets AS_LISTEN_PORT to
    MaxReads        \* reads after which a request is too long

ASSUME IncomingAssumption ==
    /\ PORT_SPACE \in Nat \ {0}
    /\ PortValues \subseteq Nat
    /\ DefaultPort \in 1 .. PORT_SPACE - 1
    /\ MaxReads \in Nat \ {0}

VARIABLES
    up,             \* the library is initialised: AS is set
    conf,           \* the configured AS_LISTEN_PORT
    server,         \* the port of AS->server, 0 if there is none
    port,           \* AS->netinfo->port
    unbound,        \* as_init could not bind and the port was not changed since
    conn,           \* Conns -> who holds the connection, and what the peer sends
    hurt            \* "no", or what went wrong with the memory

vars == <<up, conf, server, port, unbound, conn, hurt>>

(* "GET" parses as an HTTP request and "BAD" only starts like one. *)
Kinds == {"GET", "BAD", "PUSH", "CHAT", "BIN"}

Closed == [at |-> "closed", handler |-> "none", input |-> FALSE,
           kind |-> "GET", reads |-> 1, got |-> 0]

(* servcon_new and the input_add after it, for a peer that will send a request
   of this kind in so many reads *)
Waiting(kind, reads) ==
    [at |-> "server", handler |-> "peek", input |-> TRUE,
     kind |-> kind, reads |-> reads, got |-> 0]

NewRequests == {Waiting(k, n) : k \in Kinds, n \in 1 .. MaxReads + 2}

Held(where) == {c \in Conns : conn[c].at = where}

Ready == up /\ hurt = "no"

-----------------------------------------------------------------------------
(* Waiting for a request *)

(* server_accept *)
Accept(c) ==
    /\ Ready /\ server # 0 /\ conn[c].at = "closed"
    /\ \E w \in NewRequests : conn' = [conn EXCEPT ![c] = w]
    /\ UNCHANGED <<up, conf, server, port, unbound, hurt>>

(* The handler runs: it removes its input first. *)
Fires(c, handler) ==
    Ready /\ conn[c].at = "server" /\ conn[c].input /\ conn[c].handler = handler

Becomes(c, rec) ==
    /\ conn' = [conn EXCEPT ![c] = rec]
    /\ UNCHANGED <<up, conf, server, port, unbound, hurt>>

(* Each handler's error paths: the timeout, a socket error, a closed
   connection, fewer than 4 bytes to peek at.  servcon_free closes it. *)
Dropped(c) ==
    /\ \E h \in {"peek", "request", "push", "binary"} : Fires(c, h)
    /\ Becomes(c, Closed)

HandlerOf(kind) ==
    CASE kind \in {"GET", "BAD"} -> "request"
      [] kind = "PUSH" -> "push"
      [] kind = "BIN" -> "binary"

(* server_peek looks at the first 4 bytes and leaves them where they are. *)
Peek(c) ==
    /\ Fires(c, "peek")
    /\ Becomes(c, IF conn[c].kind = "CHAT" THEN Closed
                  ELSE [conn[c] EXCEPT !.handler = HandlerOf(conn[c].kind)])

(* One more read is in the connection's buffer. *)
Read(rec) == [rec EXCEPT !.got = @ + 1]
Whole(rec) == rec.got >= rec.reads
TooLong(rec) == rec.got > MaxReads

(* Mutant of AwaitMore: no input is added. *)
AwaitMoreForgotten(rec) ==
    IF TooLong(rec) THEN Closed
    ELSE [rec EXCEPT !.handler = "request", !.input = FALSE]

(* What all three handlers do with an incomplete request: wait for more with
   server_request, whichever of them is running. *)
AwaitMore(rec) ==
    IF TooLong(rec) THEN Closed ELSE [rec EXCEPT !.handler = "request"]

HandedTo(rec, where) == [Closed EXCEPT !.at = where, !.kind = rec.kind,
                                       !.reads = rec.reads, !.got = rec.got]

(* as_http_header_parse takes the requests GET, HEAD and GIVE. *)
Parses(rec) == rec.kind = "GET"

(* server_request.  The end of a header is an empty line, which neither a push
   line nor an encrypted request ends with; one may be in them by chance. *)
ReadRequest(c) ==
    /\ Fires(c, "request")
    /\ LET rec == Read(conn[c])
           ended == IF rec.kind \in {"GET", "BAD"} THEN {Whole(rec)} ELSE BOOLEAN
       IN  \E end \in ended :
             Becomes(c, CASE ~end -> AwaitMore(rec)
                          [] end /\ ~Parses(rec) -> Closed
                          [] end /\ Parses(rec) -> HandedTo(rec, "upload"))

(* Mutant of ReadPush: the connection is given to the wrong callback. *)
ReadPushUpload(c) ==
    /\ Fires(c, "push")
    /\ LET rec == Read(conn[c]) IN
       IF Whole(rec) THEN Becomes(c, HandedTo(rec, "upload"))
                     ELSE Becomes(c, AwaitMore(rec))

(* server_push and as_incoming_push: a push that is malformed or that no
   download waits for is closed. *)
ReadPush(c) ==
    /\ Fires(c, "push")
    /\ LET rec == Read(conn[c]) IN
       IF Whole(rec)
       THEN \E wanted \in BOOLEAN :
               Becomes(c, IF wanted THEN HandedTo(rec, "download") ELSE Closed)
       ELSE Becomes(c, AwaitMore(rec))

(* server_binary.  Of the requests that decrypt only type 0x01 is handled. *)
ReadBinary(c) ==
    /\ Fires(c, "binary")
    /\ LET rec == Read(conn[c]) IN
       IF Whole(rec)
       THEN \E get \in BOOLEAN :
               Becomes(c, IF get THEN HandedTo(rec, "upload") ELSE Closed)
       ELSE Becomes(c, AwaitMore(rec))

-----------------------------------------------------------------------------
(* Pushes we are asked for *)

(* as_pushreplyman_handle, for a request it does not refuse: it is long
   enough, names a port from 1024 on, a hash we share and an id, and the
   connection can be opened. *)
PushRequest(c) ==
    /\ Ready /\ server # 0 /\ conn[c].at = "closed"
    /\ Becomes(c, [Closed EXCEPT !.at = "reply", !.input = TRUE])

(* Mutant of PushConnected: the server is not looked at. *)
PushConnectedBlindly(c) ==
    /\ Ready /\ conn[c].at = "reply"
    /\ \E w \in NewRequests : Becomes(c, w)

(* pushreply_connected *)
PushConnected(c) ==
    /\ Ready /\ conn[c].at = "reply"
    /\ IF server # 0 THEN \E w \in NewRequests : Becomes(c, w)
                     ELSE Becomes(c, Closed)

(* The connection timed out, failed, or the push line could not be sent. *)
PushFails(c) ==
    /\ Ready /\ conn[c].at = "reply"
    /\ Becomes(c, Closed)

-----------------------------------------------------------------------------
(* Uploads and downloads *)

(* send_file at the end of an upload: AS_UPLOAD_KEEP_ALIVE is defined and the
   connection goes to AS->server whether there is one or not. *)
UploadDone(c) ==
    /\ Ready /\ conn[c].at = "upload"
    /\ IF server # 0
       THEN \E w \in NewRequests : Becomes(c, w)
       ELSE /\ hurt' = "null server"
            /\ UNCHANGED <<up, conf, server, port, unbound, conn>>

UploadFails(c) == Ready /\ conn[c].at = "upload" /\ Becomes(c, Closed)

DownloadDone(c) == Ready /\ conn[c].at = "download" /\ Becomes(c, Closed)

-----------------------------------------------------------------------------
(* The library *)

CloseAll(S) == [c \in Conns |-> IF c \in S THEN Closed ELSE conn[c]]

(* as_http_server_free.  servcon_free takes its connection's link out of
   server->list and frees it; list_foreach_remove, which called it, then does
   so again. *)
FreeServer == hurt' = IF Held("server") # {} THEN "link freed twice" ELSE hurt

(* tcp_bind refuses port 0, and a port that is taken. *)
CanBind(p) == IF p = 0 THEN {FALSE} ELSE BOOLEAN

(* port_change_cb: the new server is there before the old one is freed, and
   the change is refused if it cannot be made. *)
PortChange(value) ==
    LET new == value % PORT_SPACE IN
    \/ /\ value = 0
       /\ FreeServer /\ conn' = CloseAll(Held("server"))
       /\ server' = 0 /\ port' = 0 /\ conf' = 0 /\ unbound' = FALSE
    \/ /\ value # 0 /\ TRUE \in CanBind(new)
       /\ FreeServer /\ conn' = CloseAll(Held("server"))
       /\ server' = new /\ port' = new /\ conf' = value /\ unbound' = FALSE
    \/ /\ value # 0 /\ FALSE \in CanBind(new)
       /\ UNCHANGED <<conf, server, port, unbound, conn, hurt>>

(* as_config_set_int: nothing happens if the value is the one that is set. *)
SetPort(value) ==
    /\ Ready /\ value # conf
    /\ PortChange(value)
    /\ UNCHANGED up

(* as_init: the library also starts when the port cannot be bound. *)
StartLibrary ==
    /\ ~up /\ hurt = "no"
    /\ up' = TRUE
    /\ conf' = DefaultPort
    /\ \E ok \in CanBind(DefaultPort) :
          /\ server' = IF ok THEN DefaultPort ELSE 0
          /\ unbound' = ~ok
    /\ port' = server'
    /\ UNCHANGED <<conn, hurt>>

(* as_cleanup frees the managers, and the server last. *)
Cleanup ==
    /\ Ready
    /\ FreeServer
    /\ conn' = [c \in Conns |-> Closed]
    /\ up' = FALSE /\ server' = 0 /\ port' = 0 /\ conf' = 0 /\ unbound' = FALSE

Init ==
    /\ up = FALSE /\ conf = 0 /\ server = 0 /\ port = 0 /\ unbound = FALSE
    /\ conn = [c \in Conns |-> Closed]
    /\ hurt = "no"

Serve(c) == Peek(c) \/ ReadRequest(c) \/ ReadPush(c) \/ ReadBinary(c) \/ Dropped(c)

Next ==
    \/ \E c \in Conns : \/ Accept(c) \/ Serve(c)
                        \/ PushRequest(c) \/ PushConnected(c) \/ PushFails(c)
                        \/ UploadDone(c) \/ UploadFails(c) \/ DownloadDone(c)
    \/ \E v \in PortValues : SetPort(v)
    \/ StartLibrary
    \/ Cleanup

Spec == Init /\ [][Next]_vars

(* The event loop calls an input's handler when there is data or when the
   input's timeout, 20 seconds, has passed. *)
Fairness == \A c \in Conns : WF_vars(Serve(c))

FairSpec == Spec /\ Fairness

-----------------------------------------------------------------------------
(* Properties *)

TypeOK ==
    /\ up \in BOOLEAN /\ unbound \in BOOLEAN
    /\ conf \in PortValues \cup {0, DefaultPort}
    /\ server \in 0 .. PORT_SPACE - 1 /\ port \in 0 .. PORT_SPACE - 1
    /\ conn \in [Conns -> [at : {"closed", "server", "reply", "upload", "download"},
                           handler : {"none", "peek", "request", "push", "binary"},
                           input : BOOLEAN, kind : Kinds,
                           reads : 1 .. MaxReads + 2, got : 0 .. MaxReads + 1]]
    /\ hurt \in {"no", "null server", "link freed twice"}

(* The port we tell other hosts about is the one we listen on, a failed change
   leaves the old server in place, and the configured port differs from it
   only where in_port_t cuts it off or after a start that could not bind; and
   while there is no server no connection waits for one to read it, whatever
   push was on its way when the server went. *)
ListeningConsistent ==
    /\ TypeOK
    /\ port = server
    /\ server # 0 => up /\ server = conf % PORT_SPACE
    /\ up /\ server = 0 /\ conf # 0 => unbound
    /\ Held("server") # {} => server # 0
    /\ ~up => Held("closed") = Conns

(* A connection ends up with an upload only if it brought a complete request
   for a file, and with a download only if it brought a complete push line;
   this also holds for one that was read by a handler that is not its own. *)
HandedByKind ==
    \A c \in Conns :
        /\ conn[c].at = "upload" => conn[c].kind \in {"GET", "BIN"} /\ Whole(conn[c])
        /\ conn[c].at = "download" => conn[c].kind = "PUSH" /\ Whole(conn[c])

(* A connection does not stay with the server for ever, however slowly and in
   however many pieces its peer sends. *)
WaitEnds ==
    \A c \in Conns : conn[c].at = "server"
                       ~> conn[c].at # "server" \/ hurt # "no"
=============================================================================
