------------------------------- MODULE DownConn -------------------------------
(***************************************************************************)
(* Download connections (as_download_conn.c) together with the push        *)
(* requests they fall back to (as_push.c, as_push_man.c).                  *)
(*                                                                         *)
(* The library runs in one event loop, so every handler below is one       *)
(* atomic step.  Its owner (as_download.c, or giFT through asp_download.c) *)
(* appears as the calls it makes (Create, Start, Cancel, Free) and as the  *)
(* answers its callbacks give.  FAILED, COMPLETE and QUEUED are raised by  *)
(* the last statement of their handlers, so what the owner does in those   *)
(* callbacks is a separate step; the answers to TRANSFERRING and to data   *)
(* decide how the handler goes on and are part of it.                      *)
(***************************************************************************)
EXTENDS Naturals

CONSTANTS
    Conns,          \* the ASDownConn objects, one per source
    Hashes,         \* hashes of files that can be requested
    NoHash,         \* conn->hash == NULL
    FileSize,       \* bound on chunk_start + chunk_size
    SourceMaxFail,  \* AS_DOWNLOAD_SOURCE_MAX_FAIL
    MaxPushId       \* bound on the push ids handed out

ASSUME DownConnAssumption ==
    /\ FileSize \in Nat \ {0}
    /\ SourceMaxFail \in Nat \ {0}
    /\ MaxPushId \in Nat
    /\ NoHash \notin Hashes

VARIABLES
    alive,          \* allocated connections
    conn,           \* Conns -> ASDownConn
    pushes,         \* ASPushMan.pushes: ids of pending pushes -> ASPush
    next_push_id,   \* ASPushMan.next_push_id
    aborted         \* the assert () that ended the program, or "no"

vars == <<alive, conn, pushes, next_push_id, aborted>>

INVALID_PUSH_ID == 0
PushIds == 1 .. MaxPushId

Offsets == 0 .. FileSize            \* byte offsets and counts
FailCounts == 0 .. SourceMaxFail
PushRefs == PushIds \cup {INVALID_PUSH_ID}

Busy == {"CONNECTING", "TRANSFERRING"}
Idle == {"UNUSED", "FAILED", "COMPLETE", "QUEUED"}

(* input: the handler registered for the socket of tcpcon.                *)
(* timer: what tcpcon_timer will call.                                    *)
DownConnRec ==
    [state       : Busy \cup Idle,
     hash        : Hashes \cup {NoHash},
     chunk_start : Offsets,
     chunk_size  : Offsets,
     tcpcon      : BOOLEAN,
     input       : {"none", "connected", "read_header", "read_body"},
     timer       : {"none", "request", "data"},
     recv_buf    : BOOLEAN,
     keep_alive  : BOOLEAN,
     push        : PushRefs,
     curr        : Offsets,
     fail        : FailCounts]

(* sconn: the connection to the supernode is open (push_connected waits   *)
(* for it).  timer: push_timeout is scheduled.                            *)
PushRec ==
    [owner : Conns,
     hash  : Hashes,
     state : {"PUSH_CONNECTING", "PUSH_SENT"},
     sconn : BOOLEAN,
     timer : BOOLEAN]

(* downconn_new *)
NewConn ==
    [state |-> "UNUSED", hash |-> NoHash, chunk_start |-> 0, chunk_size |-> 0,
     tcpcon |-> FALSE, input |-> "none", timer |-> "none", recv_buf |-> FALSE,
     keep_alive |-> FALSE, push |-> INVALID_PUSH_ID, curr |-> 0, fail |-> 0]

-----------------------------------------------------------------------------
(* Parts of handlers, as functions of the connection.                      *)

(* tcp_close_null: the socket goes and every input on it with it. *)
Close(r) == [r EXCEPT !.tcpcon = FALSE, !.input = "none"]

(* Mutant of Reset: the timer of the finished request stays armed. *)
ResetKeepsTimer(r) ==
    [r EXCEPT !.chunk_start = 0, !.chunk_size = 0, !.recv_buf = FALSE,
              !.keep_alive = FALSE, !.push = INVALID_PUSH_ID, !.hash = NoHash]

(* downconn_reset.  The push also leaves the manager's table: see Settle. *)
Reset(r) ==
    [r EXCEPT !.chunk_start = 0, !.chunk_size = 0, !.timer = "none",
              !.recv_buf = FALSE, !.keep_alive = FALSE,
              !.push = INVALID_PUSH_ID, !.hash = NoHash]

SetState(r, st) == [r EXCEPT !.state = st]

CountFailure(r) == [r EXCEPT !.fail = @ + 1]

(* downconn_request_failed, and the same four statements where they are   *)
(* written out.                                                           *)
RequestFailed(r) == SetState(Close(Reset(CountFailure(r))), "FAILED")

(* A transfer that breaks off: not counted in fail_count. *)
TransferFailed(r) == SetState(Close(Reset(r)), "FAILED")

(* as_downconn_cancel; downconn_update_stats clears curr_downloaded. *)
Cancelled(r) == SetState(Reset([Close(r) EXCEPT !.curr = 0]), "UNUSED")

(* downconn_send_request after as_packet_send succeeded. *)
RequestSent(r) == [r EXCEPT !.input = "read_header", !.timer = "request"]

(* downconn_request that succeeds: reuse the socket or open one. *)
Requested(r) ==
    IF r.tcpcon
    THEN RequestSent([r EXCEPT !.recv_buf = TRUE])
    ELSE [r EXCEPT !.recv_buf = TRUE, !.tcpcon = TRUE, !.input = "connected"]

(* downconn_request that fails, with what its callers do then. *)
RequestRefused(r, st) ==
    SetState(Reset(CountFailure(Close(r))), st)

(* The first assert () of downconn_request that does not hold. *)
RequestAssert(r) ==
    IF r.recv_buf THEN "recv_buf"
    ELSE IF r.timer # "none" THEN "timer" ELSE "no"

-----------------------------------------------------------------------------
Running == aborted = "no"

(* assert (): where it fails the program ends here, or, in a build with   *)
(* NDEBUG, goes on with A as where it holds.                              *)
Asserted(failure, A) ==
    \/ A
    \/ /\ failure # "no" /\ aborted' = failure
       /\ UNCHANGED <<alive, conn, pushes, next_push_id>>

(* The push table with push id added, and with it removed. *)
Insert(ps, id, p) == [i \in DOMAIN ps \cup {id} |-> IF i = id THEN p ELSE ps[i]]
Remove(ps, id) == [i \in DOMAIN ps \ {id} |-> ps[i]]

(* Store r as the connection's new value, no push changed. *)
Keep(c, r) ==
    /\ conn' = [conn EXCEPT ![c] = r]
    /\ UNCHANGED <<alive, pushes, next_push_id, aborted>>

(* Store r and as_pushman_remove the push the connection had, if any. *)
Settle(c, r) ==
    /\ conn' = [conn EXCEPT ![c] = r]
    /\ pushes' = Remove(pushes, conn[c].push)
    /\ UNCHANGED <<alive, next_push_id, aborted>>

-----------------------------------------------------------------------------
(* Calls of the owner.                                                     *)

(* as_downconn_create *)
Create(c) ==
    /\ Running /\ c \notin alive
    /\ alive' = alive \cup {c}
    /\ conn' = [conn EXCEPT ![c] = NewConn]
    /\ UNCHANGED <<pushes, next_push_id, aborted>>

(* as_downconn_free; it cancels first. *)
Free(c) ==
    /\ Running /\ c \in alive
    /\ alive' = alive \ {c}
    /\ conn' = [conn EXCEPT ![c] = NewConn]
    /\ pushes' = Remove(pushes, conn[c].push)
    /\ UNCHANGED <<next_push_id, aborted>>

(* Mutant of Cancel: the push is forgotten, not removed from the table. *)
CancelLeaksPush(c) ==
    /\ Running /\ c \in alive
    /\ Keep(c, Cancelled(conn[c]))

(* as_downconn_cancel *)
Cancel(c) ==
    /\ Running /\ c \in alive
    /\ Settle(c, Cancelled(conn[c]))

(* The fields as_downconn_start assigns before the request. *)
Assigned(r, h, s, n) ==
    [r EXCEPT !.chunk_start = s, !.chunk_size = n, !.hash = h, !.curr = 0]

StartAssert(r) == IF r.hash # NoHash THEN "hash" ELSE RequestAssert(r)

(* as_downconn_start.  Owners start idle connections only and drop a      *)
(* source once it has failed SourceMaxFail times (disassociate_conn).     *)
Start(c, h, s, n) ==
    /\ Running /\ c \in alive
    /\ conn[c].state \in Idle /\ conn[c].fail < SourceMaxFail
    /\ Asserted(StartAssert(conn[c]),
           \/ Keep(c, SetState(Requested(Assigned(conn[c], h, s, n)),
                               "CONNECTING"))
           \/ Settle(c, RequestRefused(Assigned(conn[c], h, s, n), "UNUSED")))

-----------------------------------------------------------------------------
(* Handlers of the event loop.                                             *)

(* as_push_create and as_push_send: the push connects to the supernode. *)
NewPush(c) ==
    [owner |-> c, hash |-> conn[c].hash, state |-> "PUSH_CONNECTING",
     sconn |-> TRUE, timer |-> FALSE]

(* as_pushman_send: the id is only used up when the push was sent. *)
PushSend(c) ==
    /\ next_push_id \in PushIds
    /\ conn' = [conn EXCEPT ![c] = [Close(@) EXCEPT !.push = next_push_id]]
    /\ pushes' = Insert(pushes, next_push_id, NewPush(c))
    /\ next_push_id' = next_push_id + 1
    /\ UNCHANGED <<alive, aborted>>

ConnectedAssert(r) == IF r.push # INVALID_PUSH_ID THEN "push" ELSE "no"

(* downconn_connected: the socket is connected, failed, or 30 s passed. *)
Connected(c) ==
    /\ Running /\ c \in alive /\ conn[c].input = "connected"
    /\ \/ Keep(c, RequestSent(conn[c]))           \* connected, request sent
       \/ Settle(c, RequestFailed(conn[c]))       \* connected, send failed
       \/ Asserted(ConnectedAssert(conn[c]),      \* connect failed
              \/ PushSend(c)
              \/ Settle(c, RequestFailed(conn[c])))  \* push not possible

(* downconn_request_timeout *)
RequestTimeout(c) ==
    /\ Running /\ c \in alive /\ conn[c].timer = "request"
    /\ Settle(c, RequestFailed(conn[c]))

(* Mutant of Transferring: downconn_data_timeout is not scheduled. *)
TransferringNoTimer(r, ka) ==
    [r EXCEPT !.state = "TRANSFERRING", !.keep_alive = ka, !.fail = 0,
              !.input = "read_body", !.timer = "none"]

(* An accepted reply: the request timer is gone, the body is awaited. *)
Transferring(r, ka) ==
    [r EXCEPT !.state = "TRANSFERRING", !.keep_alive = ka, !.fail = 0,
              !.input = "read_body", !.timer = "data"]

(* A 200 or 206 whose range starts where we asked, with n body bytes      *)
(* behind the header.  The owner cancels the connection when it has no    *)
(* slot for it, when the bytes overrun its chunk or cannot be written;    *)
(* as_download.c takes the others and recv_buf is freed; giFT's data      *)
(* callback always returns FALSE, which leaves recv_buf in place.         *)
HandleAccepted(c, ka, n) ==
    LET t == Transferring(conn[c], ka)
    IN  \/ Settle(c, Cancelled([conn[c] EXCEPT !.fail = 0]))
        \/ n <= conn[c].chunk_size /\ Keep(c, [t EXCEPT !.curr = n,
                                                      !.recv_buf = FALSE])
        \/ n \in 1 .. conn[c].chunk_size - 1 /\ Keep(c, [t EXCEPT !.curr = n])

(* A 503: the source queued us.  keep_alive is tested after the reset     *)
(* cleared it, so the socket is always closed.                            *)
HandleQueued(c, ka) ==
    LET q == Reset([conn[c] EXCEPT !.fail = 0, !.keep_alive = ka,
                                   !.input = "none"])
    IN  Settle(c, SetState(IF q.keep_alive THEN q ELSE Close(q), "QUEUED"))

(* downconn_read_header and downconn_handle_reply. *)
ReadHeader(c) ==
    /\ Running /\ c \in alive /\ conn[c].input = "read_header"
    /\ \/ Settle(c, RequestFailed(conn[c]))   \* error, header too long,
                                              \* 404, unknown code, bad range
       \/ Keep(c, conn[c])                    \* header still incomplete
       \/ \E ka \in BOOLEAN, n \in 0 .. FileSize : HandleAccepted(c, ka, n)
       \/ \E ka \in BOOLEAN : HandleQueued(c, ka)

(* downconn_data_timeout *)
DataTimeout(c) ==
    /\ Running /\ c \in alive /\ conn[c].timer = "data"
    /\ Settle(c, TransferFailed(conn[c]))

(* The end of downconn_read_body for the last bytes of the chunk; as in   *)
(* HandleQueued the reset comes before the test of keep_alive.            *)
Completed(r) ==
    LET q == Reset([r EXCEPT !.input = "none", !.curr = 0])
    IN  SetState(IF q.keep_alive THEN q ELSE Close(q), "COMPLETE")

(* Mutant of ReadBody: COMPLETE is raised one byte early. *)
ReadBodyEarly(c) ==
    /\ Running /\ c \in alive /\ conn[c].input = "read_body"
    /\ \/ Settle(c, TransferFailed(conn[c]))
       \/ Settle(c, Cancelled(conn[c]))
       \/ \E n \in 1 .. FileSize :
             /\ conn[c].curr + n < conn[c].chunk_size
             /\ Keep(c, [conn[c] EXCEPT !.curr = @ + n])
       \/ \E n \in 1 .. FileSize :
             /\ conn[c].curr + n + 1 >= conn[c].chunk_size
             /\ Settle(c, Completed(conn[c]))

(* downconn_read_body: the source closed the connection, or the owner     *)
(* cancelled it from the data callback (bytes past the end of its chunk,  *)
(* a chunk that was shrunk, a write error), or n bytes were taken.        *)
ReadBody(c) ==
    /\ Running /\ c \in alive /\ conn[c].input = "read_body"
    /\ \/ Settle(c, TransferFailed(conn[c]))
       \/ Settle(c, Cancelled(conn[c]))
       \/ \E n \in 1 .. FileSize :
             /\ conn[c].curr + n < conn[c].chunk_size
             /\ Keep(c, [conn[c] EXCEPT !.curr = @ + n])
       \/ \E n \in 1 .. FileSize :
             /\ conn[c].curr + n = conn[c].chunk_size
             /\ Settle(c, Completed(conn[c]))

-----------------------------------------------------------------------------
(* Pushes.                                                                 *)

(* downconn_push_callback without a connection: the download failed. *)
PushFailed(c) == Settle(c, SetState(Reset(CountFailure(conn[c])), "FAILED"))

(* Mutant of PushConnected: no timer while waiting for the source. *)
PushConnectedNoTimer(id) ==
    /\ Running /\ id \in DOMAIN pushes /\ pushes[id].sconn
    /\ \/ PushFailed(pushes[id].owner)
       \/ /\ pushes' = [pushes EXCEPT ![id] =
                 [@ EXCEPT !.state = "PUSH_SENT", !.sconn = FALSE]]
          /\ UNCHANGED <<alive, conn, next_push_id, aborted>>

(* push_connected: the supernode got our request, or could not be reached. *)
PushConnected(id) ==
    /\ Running /\ id \in DOMAIN pushes /\ pushes[id].sconn
    /\ \/ PushFailed(pushes[id].owner)
       \/ /\ pushes' = [pushes EXCEPT ![id] =
                 [@ EXCEPT !.state = "PUSH_SENT", !.sconn = FALSE,
                           !.timer = TRUE]]
          /\ UNCHANGED <<alive, conn, next_push_id, aborted>>

(* push_timeout *)
PushTimeout(id) ==
    /\ Running /\ id \in DOMAIN pushes /\ pushes[id].timer
    /\ PushFailed(pushes[id].owner)

(* The assert ()s of downconn_push_callback, then downconn_request's. *)
PushAssert(r, id) ==
    IF r.push # id THEN "push"
    ELSE IF r.tcpcon THEN "tcpcon" ELSE RequestAssert(r)

(* as_push_accept: a wrong hash or host fails the push. *)
Matches(p, h, host) == h = p.hash /\ host = p.owner

(* as_incoming_push, as_pushman_accept: the source host connects to us     *)
(* with a push id and a hash.  An unknown id is turned away without any    *)
(* effect.                                                                 *)
IncomingPush(id, h, host) ==
    LET c == pushes[id].owner
        r == [conn[c] EXCEPT !.tcpcon = TRUE]
    IN  /\ Running /\ id \in DOMAIN pushes
        /\ IF ~Matches(pushes[id], h, host)
           THEN PushFailed(c)
           ELSE Asserted(PushAssert(conn[c], id),
                   \/ Settle(c, [Requested(r) EXCEPT !.push = INVALID_PUSH_ID])
                   \/ Settle(c, RequestRefused(r, "FAILED")))

-----------------------------------------------------------------------------
Init ==
    /\ alive = {}
    /\ conn = [c \in Conns |-> NewConn]
    /\ pushes = [id \in {} |-> NewConn]
    /\ next_push_id = INVALID_PUSH_ID + 1
    /\ aborted = "no"

OwnerStep(c) ==
    \/ Create(c) \/ Free(c) \/ Cancel(c)
    \/ \E h \in Hashes, s \in 0 .. FileSize - 1, n \in 1 .. FileSize :
           s + n <= FileSize /\ Start(c, h, s, n)

ConnStep(c) ==
    \/ Connected(c) \/ RequestTimeout(c) \/ ReadHeader(c)
    \/ DataTimeout(c) \/ ReadBody(c)

PushStep(id) ==
    \/ PushConnected(id) \/ PushTimeout(id)
    \/ \E h \in Hashes, host \in Conns : IncomingPush(id, h, host)

Next ==
    \/ \E c \in Conns : OwnerStep(c) \/ ConnStep(c)
    \/ \E id \in PushIds : PushStep(id)

Spec == Init /\ [][Next]_vars

(***************************************************************************)
(* Fairness: a pending connect ends (its input has a 30 s timeout in the   *)
(* event loop), and timers expire.  Nothing is assumed of the peer.        *)
(***************************************************************************)
Fairness ==
    /\ \A c \in Conns :
          WF_vars(Connected(c)) /\ WF_vars(RequestTimeout(c))
          /\ WF_vars(DataTimeout(c))
    /\ \A id \in PushIds : WF_vars(PushConnected(id)) /\ WF_vars(PushTimeout(id))

FairSpec == Spec /\ Fairness

-----------------------------------------------------------------------------
(***************************************************************************)
(* Properties.                                                             *)
(***************************************************************************)

(* Every field has the values its C type and the bounds allow. *)
TypeOK ==
    /\ alive \subseteq Conns
    /\ conn \in [Conns -> DownConnRec]
    /\ DOMAIN pushes \subseteq PushIds
    /\ pushes \in [DOMAIN pushes -> PushRec]
    /\ next_push_id \in 1 .. MaxPushId + 1
    /\ aborted \in {"no", "hash", "recv_buf", "timer", "push", "tcpcon"}

(* A connection that is not in use holds nothing of its last request: no  *)
(* hash, buffer, timer, push or socket input is left behind by any of the *)
(* ways a request can end.                                                *)
IdleHoldsNothing ==
    \A c \in Conns : conn[c].state \in Idle =>
        /\ conn[c].hash = NoHash /\ ~conn[c].recv_buf
        /\ conn[c].timer = "none" /\ conn[c].input = "none"
        /\ conn[c].push = INVALID_PUSH_ID

(* A connection in use always has something that will call it again: the  *)
(* connect input with its timeout, a request or data timer next to its    *)
(* read input, or a pending push that itself waits with a timeout.        *)
Awaited(c) ==
    \/ conn[c].state = "CONNECTING" /\ conn[c].tcpcon
       /\ conn[c].input = "connected"
    \/ conn[c].state = "CONNECTING" /\ conn[c].tcpcon
       /\ conn[c].input = "read_header" /\ conn[c].timer = "request"
    \/ conn[c].state = "CONNECTING" /\ ~conn[c].tcpcon
       /\ conn[c].push \in DOMAIN pushes
       /\ (pushes[conn[c].push].sconn \/ pushes[conn[c].push].timer)
    \/ conn[c].state = "TRANSFERRING" /\ conn[c].tcpcon
       /\ conn[c].input = "read_body" /\ conn[c].timer = "data"

BusyIsAwaited == \A c \in Conns : conn[c].state \in Busy => Awaited(c)

(* The push manager's table and the connections agree: every entry        *)
(* belongs to the one connection that waits for it, for the file that     *)
(* connection wants now, and ids are never reused while pending.          *)
PushTableConsistent ==
    /\ \A id \in DOMAIN pushes :
          LET c == pushes[id].owner
          IN  /\ c \in alive /\ conn[c].push = id
              /\ conn[c].state = "CONNECTING"
              /\ conn[c].hash = pushes[id].hash
              /\ id < next_push_id
    /\ \A c \in Conns : conn[c].push # INVALID_PUSH_ID =>
          conn[c].push \in DOMAIN pushes /\ pushes[conn[c].push].owner = c

(* Of all the assert ()s on these paths only downconn_request's           *)
(* recv_buf == NULL can fail, and only when a push succeeded.             *)
OnlyRecvBufAsserts == aborted \in {"no", "recv_buf"}

(* as_download_conn.c:312 asserts that a request starts without a receive *)
(* buffer; no assert () of these files ever fails.                        *)
NoAssertFails == aborted = "no"

(* Whatever the peer does, a request ends: no source can hold a           *)
(* connection busy for ever (unless the program was aborted).             *)
BusyEnds ==
    \A c \in Conns : conn[c].state \in Busy ~>
                        (conn[c].state \in Idle \/ ~Running)

-----------------------------------------------------------------------------
(* The detailed connections implement the interface as_download.c uses.   *)
Hide(r) == [state |-> r.state, chunk_start |-> r.chunk_start,
            chunk_size |-> r.chunk_size, curr |-> r.curr, fail |-> r.fail]

Iface == INSTANCE DownConnIface WITH view <- [c \in Conns |-> Hide(conn[c])]

(* Every step of a connection is a step of its interface or invisible. *)
ImplementsIface == Iface!IfaceSpec
=============================================================================
