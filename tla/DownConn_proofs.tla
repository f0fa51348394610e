--------------------------- MODULE DownConn_proofs ---------------------------
(***************************************************************************)
(* Proofs about DownConn for any set of connections, hashes, chunk sizes   *)
(* and push ids.  The safety invariants are not inductive by themselves:   *)
(* whether a handler may count a failure, reset a timer or drop a push     *)
(* depends on which of the four waiting situations the connection is in.   *)
(* RecOK lists those situations, IndInv ties the records to the push      *)
(* table.  The last part proves that the connections implement            *)
(* DownConnIface, the specification Download is built on.                  *)
(***************************************************************************)
EXTENDS DownConn, TLAPS

(* The situations a single connection can be in. *)
RecOK(r) ==
    /\ r \in DownConnRec
    /\ r.state \in Idle =>
         /\ r.hash = NoHash /\ r.recv_buf = FALSE /\ r.timer = "none"
         /\ r.input = "none" /\ r.push = INVALID_PUSH_ID
    /\ r.state = "CONNECTING" =>
         /\ r.hash \in Hashes /\ r.fail < SourceMaxFail
         /\ \/ /\ r.tcpcon = TRUE /\ r.input = "connected"
               /\ r.timer = "none" /\ r.push = INVALID_PUSH_ID
            \/ /\ r.tcpcon = TRUE /\ r.input = "read_header"
               /\ r.timer = "request" /\ r.push = INVALID_PUSH_ID
            \/ /\ r.tcpcon = FALSE /\ r.input = "none"
               /\ r.timer = "none" /\ r.push # INVALID_PUSH_ID
    /\ r.state = "TRANSFERRING" =>
         /\ r.tcpcon = TRUE /\ r.input = "read_body"
         /\ r.timer = "data" /\ r.push = INVALID_PUSH_ID

(* Every push is a live one of exactly the connection that waits for it. *)
PushesOK ==
    /\ DOMAIN pushes \subseteq PushIds
    /\ pushes \in [DOMAIN pushes -> PushRec]
    /\ next_push_id \in 1 .. MaxPushId + 1
    /\ \A id \in DOMAIN pushes :
         /\ pushes[id].owner \in alive
         /\ conn[pushes[id].owner].push = id
         /\ conn[pushes[id].owner].hash = pushes[id].hash
         /\ pushes[id].sconn \/ pushes[id].timer
         /\ id < next_push_id
    /\ \A c \in Conns : conn[c].push # INVALID_PUSH_ID =>
         conn[c].push \in DOMAIN pushes /\ pushes[conn[c].push].owner = c

ConnsOK ==
    /\ alive \subseteq Conns
    /\ conn \in [Conns -> DownConnRec]
    /\ \A c \in Conns : RecOK(conn[c])
    /\ \A c \in Conns \ alive : conn[c] = NewConn

IndInv == ConnsOK /\ PushesOK /\ OnlyRecvBufAsserts

-----------------------------------------------------------------------------
(* Handlers' parts keep a connection in a legal situation.  The numeric   *)
(* sets are used through these few facts only.                            *)

(* What the proofs need to know of the numeric sets. *)
LEMMA SetFacts ==
  /\ 0 \in Offsets /\ 0 \in FailCounts /\ INVALID_PUSH_ID \in PushRefs
  /\ INVALID_PUSH_ID \notin PushIds
  /\ \A id \in PushIds : id \in PushRefs
  /\ \A f \in FailCounts : f < SourceMaxFail => f + 1 \in FailCounts
  /\ 0 < SourceMaxFail
  BY DownConnAssumption DEF Offsets, FailCounts, PushRefs, PushIds, INVALID_PUSH_ID

(* downconn_new: a new connection holds nothing. *)
LEMMA NewConnOK == RecOK(NewConn)
  BY SetFacts DEF RecOK, NewConn, DownConnRec, Idle, Busy

(* A request can fail from every CONNECTING situation and leaves nothing. *)
LEMMA RequestFailedOK ==
  ASSUME NEW r, RecOK(r), r.state = "CONNECTING"
  PROVE  RecOK(RequestFailed(r)) /\ RequestFailed(r).push = INVALID_PUSH_ID
  BY SetFacts DEF RecOK, DownConnRec, RequestFailed, SetState, Close, Reset,
     CountFailure, Idle, Busy

(* A transfer can break off in any situation and leaves nothing. *)
LEMMA TransferFailedOK ==
  ASSUME NEW r, RecOK(r)
  PROVE  RecOK(TransferFailed(r)) /\ TransferFailed(r).push = INVALID_PUSH_ID
  BY SetFacts DEF RecOK, DownConnRec, TransferFailed, SetState, Close, Reset,
     Idle, Busy

(* as_downconn_cancel leaves nothing, whatever it interrupts. *)
LEMMA CancelledOK ==
  ASSUME NEW r, RecOK(r)
  PROVE  RecOK(Cancelled(r)) /\ Cancelled(r).push = INVALID_PUSH_ID
  BY SetFacts DEF RecOK, DownConnRec, Cancelled, SetState, Close, Reset,
     Idle, Busy

(* A push that fails ends a request that has no socket. *)
LEMMA PushFailedOK ==
  ASSUME NEW r, RecOK(r), r.push # INVALID_PUSH_ID
  PROVE  /\ RecOK(SetState(Reset(CountFailure(r)), "FAILED"))
         /\ SetState(Reset(CountFailure(r)), "FAILED").push = INVALID_PUSH_ID
  BY SetFacts DEF RecOK, DownConnRec, SetState, Reset, CountFailure,
     Idle, Busy

(* as_downconn_start on an idle connection: its asserts hold, and the      *)
(* request is either on its way or everything is given back.               *)
LEMMA StartOK ==
  ASSUME NEW r, RecOK(r), r.state \in Idle, r.fail < SourceMaxFail,
         NEW h \in Hashes, NEW s \in Offsets, NEW n \in Offsets
  PROVE  /\ RecOK(SetState(Requested(Assigned(r, h, s, n)), "CONNECTING"))
         /\ SetState(Requested(Assigned(r, h, s, n)), "CONNECTING").push = r.push
         /\ RecOK(RequestRefused(Assigned(r, h, s, n), "UNUSED"))
         /\ RequestRefused(Assigned(r, h, s, n), "UNUSED").push = INVALID_PUSH_ID
         /\ StartAssert(r) = "no"
  BY SetFacts DEF RecOK, DownConnRec, SetState, Requested, RequestSent,
     Assigned, RequestRefused, Reset, CountFailure, Close, StartAssert,
     RequestAssert, Idle, Busy

(* A request that was sent is awaited by the request timer. *)
LEMMA RequestSentOK ==
  ASSUME NEW r, RecOK(r), r.input = "connected"
  PROVE  RecOK(RequestSent(r)) /\ RequestSent(r).push = r.push
  BY SetFacts DEF RecOK, DownConnRec, RequestSent, Idle, Busy

(* An accepted reply: the ways HandleAccepted leaves the record. *)
LEMMA AcceptedOK ==
  ASSUME NEW r, RecOK(r), r.input = "read_header",
         NEW ka \in BOOLEAN, NEW n \in Offsets
  PROVE  /\ RecOK([Transferring(r, ka) EXCEPT !.curr = n, !.recv_buf = FALSE])
         /\ [Transferring(r, ka) EXCEPT !.curr = n, !.recv_buf = FALSE].push = r.push
  BY SetFacts DEF RecOK, DownConnRec, Transferring, Idle, Busy

(* The same when the owner's callback leaves recv_buf in place. *)
LEMMA AcceptedKeepsBufferOK ==
  ASSUME NEW r, RecOK(r), r.input = "read_header",
         NEW ka \in BOOLEAN, NEW n \in Offsets
  PROVE  /\ RecOK([Transferring(r, ka) EXCEPT !.curr = n])
         /\ [Transferring(r, ka) EXCEPT !.curr = n].push = r.push
  BY SetFacts DEF RecOK, DownConnRec, Transferring, Idle, Busy

(* The same when the owner cancels from its callback. *)
LEMMA AcceptedCancelledOK ==
  ASSUME NEW r, RecOK(r)
  PROVE  /\ RecOK(Cancelled([r EXCEPT !.fail = 0]))
         /\ Cancelled([r EXCEPT !.fail = 0]).push = INVALID_PUSH_ID
  BY SetFacts DEF RecOK, DownConnRec, Cancelled, SetState, Close, Reset, Idle, Busy

(* A 503 gives everything back. *)
LEMMA QueuedOK ==
  ASSUME NEW r, RecOK(r), NEW ka \in BOOLEAN,
         NEW q, q = Reset([r EXCEPT !.fail = 0, !.keep_alive = ka,
                                    !.input = "none"])
  PROVE  /\ RecOK(SetState(IF q.keep_alive THEN q ELSE Close(q), "QUEUED"))
         /\ SetState(IF q.keep_alive THEN q ELSE Close(q), "QUEUED").push
                = INVALID_PUSH_ID
  BY SetFacts DEF RecOK, DownConnRec, SetState, Close, Reset, Idle, Busy

(* The end of downconn_read_body gives everything back. *)
LEMMA CompletedOK ==
  ASSUME NEW r, RecOK(r)
  PROVE  RecOK(Completed(r)) /\ Completed(r).push = INVALID_PUSH_ID
  BY SetFacts DEF RecOK, DownConnRec, Completed, SetState, Close, Reset, Idle, Busy

(* More body bytes leave a transfer in its situation. *)
LEMMA MoreDataOK ==
  ASSUME NEW r, RecOK(r), r.state = "TRANSFERRING", NEW m \in Offsets
  PROVE  /\ RecOK([r EXCEPT !.curr = m])
         /\ [r EXCEPT !.curr = m].push = r.push
  BY SetFacts DEF RecOK, DownConnRec, Idle, Busy

(* A pushed connection is taken over and the request sent on it, or not. *)
LEMMA PushedOK ==
  ASSUME NEW r, RecOK(r), r.push # INVALID_PUSH_ID,
         NEW q, q = [r EXCEPT !.tcpcon = TRUE]
  PROVE  /\ RecOK([Requested(q) EXCEPT !.push = INVALID_PUSH_ID])
         /\ RecOK(RequestRefused(q, "FAILED"))
         /\ RequestRefused(q, "FAILED").push = INVALID_PUSH_ID
         /\ [Requested(q) EXCEPT !.push = INVALID_PUSH_ID].push = INVALID_PUSH_ID
         /\ PushAssert(r, r.push) \in {"no", "recv_buf"}
  BY SetFacts DEF RecOK, DownConnRec, Requested, RequestSent, RequestRefused,
     SetState, Reset, CountFailure, Close, PushAssert, RequestAssert, Idle, Busy

-----------------------------------------------------------------------------
(* The two ways a handler stores its result keep the invariant.            *)

(* Storing a record that keeps the connection's push, and its hash with    *)
(* it, leaves the push table in agreement.                                 *)
LEMMA KeepOK ==
  ASSUME IndInv, NEW c \in alive, NEW r, RecOK(r), r.push = conn[c].push,
         r.push # INVALID_PUSH_ID => r.hash = conn[c].hash,
         Keep(c, r)
  PROVE  IndInv'
<1>1. ConnsOK'
  BY DEF IndInv, ConnsOK, Keep, RecOK
<1>2. PushesOK'
  <2>1. conn' = [conn EXCEPT ![c] = r] /\ UNCHANGED <<alive, pushes, next_push_id>>
        /\ c \in Conns /\ conn \in [Conns -> DownConnRec]
    BY DEF Keep, IndInv, ConnsOK
  <2>2. ASSUME NEW id \in DOMAIN pushes
        PROVE  /\ conn'[pushes[id].owner].push = id
               /\ conn'[pushes[id].owner].hash = pushes[id].hash
    BY <2>1, SetFacts DEF IndInv, ConnsOK, PushesOK
  <2>3. ASSUME NEW d \in Conns, conn'[d].push # INVALID_PUSH_ID
        PROVE  conn'[d].push \in DOMAIN pushes /\ pushes[conn'[d].push].owner = d
    BY <2>1, <2>3 DEF IndInv, PushesOK
  <2> QED BY <2>1, <2>2, <2>3 DEF IndInv, PushesOK
<1> QED BY <1>1, <1>2 DEF IndInv, Keep, OnlyRecvBufAsserts

(* Storing a record without a push and removing the push from the table    *)
(* leaves the two in agreement.                                            *)
LEMMA SettleOK ==
  ASSUME IndInv, NEW c \in alive, NEW r, RecOK(r), r.push = INVALID_PUSH_ID,
         Settle(c, r)
  PROVE  IndInv'
<1>1. ConnsOK'
  BY DEF IndInv, ConnsOK, Settle, RecOK
<1>2. PushesOK'
  <2>1. conn' = [conn EXCEPT ![c] = r] /\ UNCHANGED <<alive, next_push_id>>
        /\ c \in Conns /\ conn \in [Conns -> DownConnRec]
        /\ pushes' = [i \in DOMAIN pushes \ {conn[c].push} |-> pushes[i]]
    BY DEF Settle, IndInv, ConnsOK, Remove
  <2>2. /\ DOMAIN pushes' = DOMAIN pushes \ {conn[c].push}
        /\ \A id \in DOMAIN pushes' : pushes'[id] = pushes[id]
        /\ pushes' \in [DOMAIN pushes' -> PushRec]
    BY <2>1 DEF IndInv, PushesOK
  <2>3. ASSUME NEW id \in DOMAIN pushes'
        PROVE  /\ pushes'[id].owner \in alive'
               /\ conn'[pushes'[id].owner].push = id
               /\ conn'[pushes'[id].owner].hash = pushes'[id].hash
               /\ pushes'[id].sconn \/ pushes'[id].timer
               /\ id < next_push_id'
    BY <2>1, <2>2 DEF IndInv, ConnsOK, PushesOK
  <2>4. ASSUME NEW d \in Conns, conn'[d].push # INVALID_PUSH_ID
        PROVE  conn'[d].push \in DOMAIN pushes' /\ pushes'[conn'[d].push].owner = d
    BY <2>1, <2>2, <2>4 DEF IndInv, PushesOK
  <2>5. DOMAIN pushes' \subseteq PushIds /\ next_push_id' \in 1 .. MaxPushId + 1
    BY <2>1, <2>2 DEF IndInv, PushesOK
  <2> QED BY <2>2, <2>3, <2>4, <2>5 DEF PushesOK
<1> QED BY <1>1, <1>2 DEF IndInv, Settle, OnlyRecvBufAsserts

-----------------------------------------------------------------------------
(* Every step keeps the invariant.                                         *)

(* as_downconn_free: no push of the freed connection stays behind. *)
LEMMA FreeOK ==
  ASSUME IndInv, NEW c \in Conns, Free(c)
  PROVE  IndInv'
<1>1. /\ c \in alive /\ alive' = alive \ {c}
      /\ conn' = [conn EXCEPT ![c] = NewConn] /\ UNCHANGED <<next_push_id, aborted>>
      /\ pushes' = [i \in DOMAIN pushes \ {conn[c].push} |-> pushes[i]]
  BY DEF Free, Remove
<1>2. ConnsOK'
  BY <1>1, NewConnOK DEF IndInv, ConnsOK, RecOK
<1>3. PushesOK'
  <2>1. /\ DOMAIN pushes' = DOMAIN pushes \ {conn[c].push}
        /\ \A id \in DOMAIN pushes' : pushes'[id] = pushes[id]
        /\ pushes' \in [DOMAIN pushes' -> PushRec]
    BY <1>1 DEF IndInv, PushesOK
  <2>2. NewConn.push = INVALID_PUSH_ID
    BY DEF NewConn
  <2>3. ASSUME NEW id \in DOMAIN pushes'
        PROVE  /\ pushes'[id].owner \in alive'
               /\ conn'[pushes'[id].owner].push = id
               /\ conn'[pushes'[id].owner].hash = pushes'[id].hash
               /\ pushes'[id].sconn \/ pushes'[id].timer
               /\ id < next_push_id'
    BY <1>1, <2>1 DEF IndInv, ConnsOK, PushesOK
  <2>4. ASSUME NEW d \in Conns, conn'[d].push # INVALID_PUSH_ID
        PROVE  conn'[d].push \in DOMAIN pushes' /\ pushes'[conn'[d].push].owner = d
    BY <1>1, <2>1, <2>2, <2>4 DEF IndInv, ConnsOK, PushesOK
  <2> QED BY <1>1, <2>1, <2>3, <2>4 DEF IndInv, PushesOK
<1> QED BY <1>1, <1>2, <1>3 DEF IndInv, OnlyRecvBufAsserts

(* as_downconn_create touches no other connection and no push. *)
LEMMA CreateOK ==
  ASSUME IndInv, NEW c \in Conns, Create(c)
  PROVE  IndInv'
<1>1. conn' = conn /\ alive' = alive \cup {c}
      /\ UNCHANGED <<pushes, next_push_id, aborted>>
  BY DEF Create, IndInv, ConnsOK
<1> QED BY <1>1 DEF IndInv, ConnsOK, PushesOK, OnlyRecvBufAsserts

(* Dropping out of downconn_connected into a push. *)
LEMMA PushSendOK ==
  ASSUME IndInv, NEW c \in alive, conn[c].input = "connected", PushSend(c)
  PROVE  IndInv'
<1> DEFINE id0 == next_push_id
           p0 == [owner |-> c, hash |-> conn[c].hash, state |-> "PUSH_CONNECTING",
                  sconn |-> TRUE, timer |-> FALSE]
           r0 == [Close(conn[c]) EXCEPT !.push = id0]
<1>1. /\ c \in Conns /\ RecOK(conn[c]) /\ conn \in [Conns -> DownConnRec]
      /\ id0 \in PushIds /\ conn' = [conn EXCEPT ![c] = r0]
      /\ pushes' = Insert(pushes, id0, p0) /\ next_push_id' = id0 + 1
      /\ UNCHANGED <<alive, aborted>>
  BY DEF IndInv, ConnsOK, PushSend, NewPush
<1>2. conn[c].state = "CONNECTING" /\ conn[c].hash \in Hashes
      /\ conn[c].push = INVALID_PUSH_ID
  BY <1>1 DEF RecOK, DownConnRec, Idle, Busy
<1>3. RecOK(r0) /\ r0.push = id0 /\ r0.hash = conn[c].hash
  BY <1>1, <1>2, SetFacts DEF RecOK, DownConnRec, Close, Idle, Busy
<1>4. p0 \in PushRec /\ p0.owner = c /\ p0.hash = conn[c].hash /\ p0.sconn
  BY <1>1, <1>2 DEF PushRec
<1> HIDE DEF r0, p0
<1>5. id0 \notin DOMAIN pushes
  BY <1>1, DownConnAssumption DEF IndInv, PushesOK, PushIds
<1>6. /\ DOMAIN pushes' = DOMAIN pushes \cup {id0}
      /\ pushes'[id0] = p0
      /\ \A id \in DOMAIN pushes : pushes'[id] = pushes[id]
  BY <1>1, <1>5 DEF Insert
<1>7. pushes' \in [DOMAIN pushes' -> PushRec]
  BY <1>1, <1>4, <1>5 DEF Insert, IndInv, PushesOK
<1>8. ConnsOK'
  BY <1>1, <1>3 DEF IndInv, ConnsOK, RecOK
<1>9. PushesOK'
  <2>1. DOMAIN pushes' \subseteq PushIds /\ next_push_id' \in 1 .. MaxPushId + 1
    BY <1>1, <1>6, DownConnAssumption DEF IndInv, PushesOK, PushIds
  <2>2. \A id \in DOMAIN pushes' : id < next_push_id'
    BY <1>1, <1>6, <2>1, DownConnAssumption DEF IndInv, PushesOK, PushIds
  <2>3. ASSUME NEW id \in DOMAIN pushes'
        PROVE  /\ pushes'[id].owner \in alive'
               /\ conn'[pushes'[id].owner].push = id
               /\ conn'[pushes'[id].owner].hash = pushes'[id].hash
               /\ pushes'[id].sconn \/ pushes'[id].timer
    <3>1. CASE id = id0
      BY <1>1, <1>3, <1>4, <1>6, <3>1
    <3>2. CASE id \in DOMAIN pushes
      <4>1. pushes[id].owner # c
        BY <1>2, <3>2, SetFacts DEF IndInv, PushesOK
      <4> QED BY <1>1, <1>6, <3>2, <4>1 DEF IndInv, ConnsOK, PushesOK
    <3> QED BY <1>6, <3>1, <3>2
  <2>4. ASSUME NEW d \in Conns, conn'[d].push # INVALID_PUSH_ID
        PROVE  conn'[d].push \in DOMAIN pushes' /\ pushes'[conn'[d].push].owner = d
    BY <1>1, <1>3, <1>4, <1>6, <2>4 DEF IndInv, PushesOK
  <2> QED BY <1>7, <2>1, <2>2, <2>3, <2>4 DEF PushesOK
<1> QED BY <1>1, <1>8, <1>9 DEF IndInv, OnlyRecvBufAsserts

(* An assert () that fails changes nothing but aborted. *)
LEMMA AbortOK ==
  ASSUME IndInv, aborted' \in {"no", "recv_buf"},
         UNCHANGED <<alive, conn, pushes, next_push_id>>
  PROVE  IndInv'
  BY DEF IndInv, ConnsOK, PushesOK, OnlyRecvBufAsserts

(* The calls of the owner. *)
LEMMA OwnerStepOK ==
  ASSUME IndInv, NEW c \in Conns, OwnerStep(c)
  PROVE  IndInv'
<1>1. CASE Create(c)
  BY <1>1, CreateOK
<1>2. CASE Free(c)
  BY <1>2, FreeOK
<1>3. CASE Cancel(c)
  <2>1. RecOK(conn[c])
    BY DEF IndInv, ConnsOK
  <2> QED BY <1>3, <2>1, CancelledOK, SettleOK DEF Cancel
<1>4. ASSUME NEW h \in Hashes, NEW s \in 0 .. FileSize - 1,
             NEW n \in 1 .. FileSize, Start(c, h, s, n)
      PROVE  IndInv'
  <2>1. /\ c \in alive /\ RecOK(conn[c])
        /\ conn[c].state \in Idle /\ conn[c].fail < SourceMaxFail
    BY <1>4 DEF IndInv, ConnsOK, Start
  <2>2. s \in Offsets /\ n \in Offsets
    BY DownConnAssumption DEF Offsets
  <2> DEFINE q == SetState(Requested(Assigned(conn[c], h, s, n)), "CONNECTING")
             f == RequestRefused(Assigned(conn[c], h, s, n), "UNUSED")
  <2>3. /\ RecOK(q) /\ q.push = conn[c].push /\ RecOK(f)
        /\ f.push = INVALID_PUSH_ID /\ StartAssert(conn[c]) = "no"
    BY <2>1, <2>2, StartOK
  <2>4. conn[c].push = INVALID_PUSH_ID
    BY <2>1 DEF RecOK
  <2>5. Keep(c, q) \/ Settle(c, f)
    BY <1>4, <2>3 DEF Start, Asserted
  <2> HIDE DEF q, f
  <2> QED BY <2>1, <2>3, <2>4, <2>5, KeepOK, SettleOK
<1> QED BY <1>1, <1>2, <1>3, <1>4 DEF OwnerStep

(* The socket and timer handlers of a connection. *)
LEMMA ConnStepOK ==
  ASSUME IndInv, NEW c \in Conns, ConnStep(c)
  PROVE  IndInv'
<1>0. RecOK(conn[c]) /\ c \in alive
  BY DEF IndInv, ConnsOK, ConnStep, Connected, RequestTimeout, ReadHeader,
         DataTimeout, ReadBody
<1>1. CASE Connected(c)
  <2>1. /\ conn[c].state = "CONNECTING" /\ conn[c].input = "connected"
        /\ ConnectedAssert(conn[c]) = "no"
    BY <1>0, <1>1 DEF Connected, RecOK, DownConnRec, Idle, Busy, ConnectedAssert
  <2>2. \/ Keep(c, RequestSent(conn[c])) \/ Settle(c, RequestFailed(conn[c]))
        \/ PushSend(c)
    BY <1>1, <2>1 DEF Connected, Asserted
  <2>3. conn[c].push = INVALID_PUSH_ID
    BY <2>1 DEF ConnectedAssert
  <2> QED BY <1>0, <2>1, <2>2, <2>3, RequestSentOK, RequestFailedOK, PushSendOK,
             KeepOK, SettleOK
<1>2. CASE RequestTimeout(c)
  <2>1. conn[c].state = "CONNECTING"
    BY <1>0, <1>2 DEF RequestTimeout, RecOK, DownConnRec, Idle, Busy
  <2> QED BY <1>0, <1>2, <2>1, RequestFailedOK, SettleOK DEF RequestTimeout
<1>3. CASE ReadHeader(c)
  <2>1. /\ conn[c].state = "CONNECTING" /\ conn[c].input = "read_header"
        /\ conn[c].push = INVALID_PUSH_ID
    BY <1>0, <1>3 DEF ReadHeader, RecOK, DownConnRec, Idle, Busy
  <2>2. CASE Settle(c, RequestFailed(conn[c]))
    BY <1>0, <2>1, <2>2, RequestFailedOK, SettleOK
  <2>3. CASE Keep(c, conn[c])
    BY <1>0, <2>1, <2>3, KeepOK
  <2>4. ASSUME NEW ka \in BOOLEAN, NEW n \in 0 .. FileSize,
               HandleAccepted(c, ka, n)
        PROVE  IndInv'
    <3>1. n \in Offsets
      BY DEF Offsets
    <3>2. CASE Settle(c, Cancelled([conn[c] EXCEPT !.fail = 0]))
      BY <1>0, <3>2, AcceptedCancelledOK, SettleOK
    <3>3. CASE Keep(c, [Transferring(conn[c], ka) EXCEPT !.curr = n,
                                                        !.recv_buf = FALSE])
      BY <1>0, <2>1, <3>1, <3>3, AcceptedOK, KeepOK
    <3>4. CASE Keep(c, [Transferring(conn[c], ka) EXCEPT !.curr = n])
      BY <1>0, <2>1, <3>1, <3>4, AcceptedKeepsBufferOK, KeepOK
    <3> QED BY <2>4, <3>2, <3>3, <3>4 DEF HandleAccepted
  <2>5. ASSUME NEW ka \in BOOLEAN, HandleQueued(c, ka)
        PROVE  IndInv'
    BY <1>0, <2>5, QueuedOK, SettleOK DEF HandleQueued
  <2> QED BY <1>3, <2>2, <2>3, <2>4, <2>5 DEF ReadHeader
<1>4. CASE DataTimeout(c)
  BY <1>0, <1>4, TransferFailedOK, SettleOK DEF DataTimeout
<1>5. CASE ReadBody(c)
  <2>1. /\ conn[c].state = "TRANSFERRING" /\ conn[c].push = INVALID_PUSH_ID
        /\ conn[c].curr \in Offsets /\ conn[c].chunk_size \in Offsets
    BY <1>0, <1>5 DEF ReadBody, RecOK, DownConnRec, Idle, Busy
  <2>2. CASE Settle(c, TransferFailed(conn[c]))
    BY <1>0, <2>2, TransferFailedOK, SettleOK
  <2>3. CASE Settle(c, Cancelled(conn[c]))
    BY <1>0, <2>3, CancelledOK, SettleOK
  <2>4. ASSUME NEW n \in 1 .. FileSize, conn[c].curr + n < conn[c].chunk_size,
               Keep(c, [conn[c] EXCEPT !.curr = @ + n])
        PROVE  IndInv'
    <3>1. conn[c].curr + n \in Offsets
      BY <2>1, <2>4, DownConnAssumption DEF Offsets
    <3> QED BY <1>0, <2>1, <2>4, <3>1, MoreDataOK, KeepOK
  <2>5. CASE Settle(c, Completed(conn[c]))
    BY <1>0, <2>5, CompletedOK, SettleOK
  <2> QED BY <1>5, <2>2, <2>3, <2>4, <2>5 DEF ReadBody
<1> QED BY <1>1, <1>2, <1>3, <1>4, <1>5 DEF ConnStep

(* The handlers of a push, and the connection that a source opens for it. *)
LEMMA PushStepOK ==
  ASSUME IndInv, NEW id \in PushIds, PushStep(id)
  PROVE  IndInv'
<1> DEFINE c == pushes[id].owner
<1>0. /\ id \in DOMAIN pushes /\ c \in alive /\ c \in Conns /\ RecOK(conn[c])
      /\ conn[c].push = id /\ conn[c].push # INVALID_PUSH_ID
  <2>1. id \in DOMAIN pushes
    BY DEF PushStep, PushConnected, PushTimeout, IncomingPush
  <2> QED BY <2>1, SetFacts DEF IndInv, ConnsOK, PushesOK
<1> HIDE DEF c
<1>1. ASSUME PushFailed(c) PROVE IndInv'
  BY <1>0, <1>1, PushFailedOK, SettleOK DEF PushFailed
<1>2. CASE PushConnected(id)
  <2>1. ASSUME pushes' = [pushes EXCEPT ![id] = [@ EXCEPT !.state = "PUSH_SENT",
                                             !.sconn = FALSE, !.timer = TRUE]],
               UNCHANGED <<alive, conn, next_push_id, aborted>>
        PROVE  IndInv'
    <3> DEFINE p == [pushes[id] EXCEPT !.state = "PUSH_SENT",
                                       !.sconn = FALSE, !.timer = TRUE]
    <3>1. pushes[id] \in PushRec
      BY <1>0 DEF IndInv, PushesOK
    <3>2. p \in PushRec /\ p.owner = pushes[id].owner /\ p.hash = pushes[id].hash
          /\ p.timer
      BY <3>1 DEF PushRec
    <3>3. pushes' = [pushes EXCEPT ![id] = p]
      BY <2>1
    <3> HIDE DEF p
    <3> QED BY <1>0, <2>1, <3>2, <3>3 DEF IndInv, ConnsOK, PushesOK, OnlyRecvBufAsserts
  <2> QED BY <1>1, <1>2, <2>1 DEF PushConnected, c
<1>3. CASE PushTimeout(id)
  BY <1>1, <1>3 DEF PushTimeout, c
<1>4. ASSUME NEW h \in Hashes, NEW host \in Conns, IncomingPush(id, h, host)
      PROVE  IndInv'
  <2> DEFINE q == [conn[c] EXCEPT !.tcpcon = TRUE]
             a == [Requested(q) EXCEPT !.push = INVALID_PUSH_ID]
             f == RequestRefused(q, "FAILED")
  <2>1. /\ RecOK(a) /\ a.push = INVALID_PUSH_ID
        /\ RecOK(f) /\ f.push = INVALID_PUSH_ID
        /\ PushAssert(conn[c], id) \in {"no", "recv_buf"}
    BY <1>0, PushedOK
  <2>2. \/ PushFailed(c) \/ Settle(c, a) \/ Settle(c, f)
        \/ /\ aborted' = PushAssert(conn[c], id)
           /\ UNCHANGED <<alive, conn, pushes, next_push_id>>
    BY <1>4 DEF IncomingPush, Asserted, c
  <2> HIDE DEF a, f
  <2> QED BY <1>0, <1>1, <2>1, <2>2, SettleOK, AbortOK
<1> QED BY <1>2, <1>3, <1>4 DEF PushStep

-----------------------------------------------------------------------------
(* IndInv is an inductive invariant of the specification. *)
THEOREM Invariance == Spec => []IndInv
<1>1. Init => IndInv
  <2> SUFFICES ASSUME Init PROVE IndInv
    OBVIOUS
  <2>1. ConnsOK
    BY NewConnOK DEF Init, ConnsOK, RecOK
  <2>2. DOMAIN pushes = {} /\ NewConn.push = INVALID_PUSH_ID
    BY DEF Init, NewConn
  <2>3. PushesOK
    BY <2>2, DownConnAssumption DEF Init, PushesOK, INVALID_PUSH_ID
  <2> QED BY <2>1, <2>3 DEF Init, IndInv, OnlyRecvBufAsserts
<1>2. IndInv /\ [Next]_vars => IndInv'
  <2> SUFFICES ASSUME IndInv, [Next]_vars PROVE IndInv'
    OBVIOUS
  <2>1. CASE UNCHANGED vars
    BY <2>1 DEF vars, IndInv, ConnsOK, PushesOK, OnlyRecvBufAsserts
  <2>2. CASE Next
    BY <2>2, OwnerStepOK, ConnStepOK, PushStepOK DEF Next
  <2> QED BY <2>1, <2>2
<1> QED BY <1>1, <1>2, PTL DEF Spec

(* The type invariant holds for every instance. *)
THEOREM TypeCorrect == Spec => []TypeOK
<1>1. IndInv => TypeOK
  BY DEF IndInv, ConnsOK, PushesOK, OnlyRecvBufAsserts, TypeOK
<1> QED BY <1>1, Invariance, PTL

(* downconn_reset leaves nothing of the last request on an idle connection. *)
THEOREM IdleSafe == Spec => []IdleHoldsNothing
<1>1. IndInv => IdleHoldsNothing
  BY DEF IndInv, ConnsOK, RecOK, IdleHoldsNothing
<1> QED BY <1>1, Invariance, PTL

(* A busy connection always has an event or timer that will call it again. *)
THEOREM BusySafe == Spec => []BusyIsAwaited
<1>1. IndInv => BusyIsAwaited
  <2> SUFFICES ASSUME IndInv, NEW c \in Conns, conn[c].state \in Busy
               PROVE  Awaited(c)
    BY DEF BusyIsAwaited
  <2>1. RecOK(conn[c])
    BY DEF IndInv, ConnsOK
  <2>2. conn[c].push # INVALID_PUSH_ID =>
          conn[c].push \in DOMAIN pushes
          /\ (pushes[conn[c].push].sconn \/ pushes[conn[c].push].timer)
    BY DEF IndInv, PushesOK
  <2> QED BY <2>1, <2>2 DEF RecOK, Awaited, Busy
<1> QED BY <1>1, Invariance, PTL

(* The push table and the connections waiting for a push agree. *)
THEOREM PushTable == Spec => []PushTableConsistent
<1>1. IndInv => PushTableConsistent
  <2> SUFFICES ASSUME IndInv PROVE PushTableConsistent
    OBVIOUS
  <2>1. ASSUME NEW id \in DOMAIN pushes
        PROVE  conn[pushes[id].owner].state = "CONNECTING"
    <3> DEFINE c == pushes[id].owner
    <3>1. RecOK(conn[c]) /\ conn[c].push # INVALID_PUSH_ID
      BY SetFacts DEF IndInv, ConnsOK, PushesOK
    <3> QED BY <3>1 DEF RecOK, DownConnRec, Idle, Busy
  <2> QED BY <2>1 DEF IndInv, PushesOK, PushTableConsistent
<1> QED BY <1>1, Invariance, PTL

(* No assert () but the one on recv_buf in downconn_request can fail. *)
THEOREM AssertsSafe == Spec => []OnlyRecvBufAsserts
<1>1. IndInv => OnlyRecvBufAsserts
  BY DEF IndInv
<1> QED BY <1>1, Invariance, PTL
-----------------------------------------------------------------------------
(* DownConn implements DownConnIface.  What an owner sees of a connection  *)
(* is View; each handler's result is seen as one of the interface's.       *)
View == [c \in Conns |-> Hide(conn[c])]

(* Storing one record changes what is seen of that connection only. *)
LEMMA ViewUpdate ==
  ASSUME NEW c \in Conns, NEW r, conn' = [conn EXCEPT ![c] = r],
         conn \in [Conns -> DownConnRec]
  PROVE  View' = [View EXCEPT ![c] = Hide(r)]
  BY DEF View

(* A step of the interface on c, from what it shows to v. *)
LEMMA IfaceStep ==
  ASSUME NEW c \in Conns,
         \/ Iface!Create(c) \/ Iface!Free(c) \/ Iface!Cancel(c)
         \/ Iface!CancelAccepted(c) \/ Iface!StartFails(c)
         \/ Iface!Queued(c) \/ Iface!Fail(c)
  PROVE  Iface!IfaceNext
  BY DEF Iface!IfaceNext

(* The fields the owner sees, as a record of their own. *)
ViewOf(st, s, n, k, f) ==
    [state |-> st, chunk_start |-> s, chunk_size |-> n, curr |-> k, fail |-> f]

(* A record with exactly these fields is that ViewOf. *)
LEMMA ViewByFields ==
  ASSUME NEW v, v = [x \in {"state", "chunk_start", "chunk_size", "curr", "fail"}
                        |-> v[x]]
  PROVE  v = ViewOf(v.state, v.chunk_start, v.chunk_size, v.curr, v.fail)
  BY DEF ViewOf

(* The interface's own endings, field by field. *)
LEMMA IfaceEnds ==
  ASSUME NEW r
  PROVE  /\ Iface!Cancelled(Hide(r)) = ViewOf("UNUSED", 0, 0, 0, r.fail)
         /\ \A st : Iface!Settle(Hide(r), st) = ViewOf(st, 0, 0, r.curr, r.fail)
         /\ \A s, n : Iface!Started(Hide(r), s, n)
                          = ViewOf("CONNECTING", s, n, 0, r.fail)
<1>1. ASSUME NEW st
      PROVE  Iface!Settle(Hide(r), st) = ViewOf(st, 0, 0, r.curr, r.fail)
  <2> DEFINE v == Iface!Settle(Hide(r), st)
  <2>1. /\ v.state = st /\ v.chunk_start = 0 /\ v.chunk_size = 0
        /\ v.curr = r.curr /\ v.fail = r.fail
        /\ v = [x \in {"state", "chunk_start", "chunk_size", "curr", "fail"} |-> v[x]]
    BY DEF Hide, Iface!Settle
  <2> HIDE DEF v
  <2>2. v = ViewOf(st, 0, 0, r.curr, r.fail)
    BY <2>1, ViewByFields
  <2> QED BY <2>2 DEF v
<1>2. ASSUME NEW s, NEW n
      PROVE  Iface!Started(Hide(r), s, n) = ViewOf("CONNECTING", s, n, 0, r.fail)
  <2> DEFINE v == Iface!Started(Hide(r), s, n)
  <2>1. /\ v.state = "CONNECTING" /\ v.chunk_start = s /\ v.chunk_size = n
        /\ v.curr = 0 /\ v.fail = r.fail
        /\ v = [x \in {"state", "chunk_start", "chunk_size", "curr", "fail"} |-> v[x]]
    BY DEF Hide, Iface!Started
  <2> HIDE DEF v
  <2>2. v = ViewOf("CONNECTING", s, n, 0, r.fail)
    BY <2>1, ViewByFields
  <2> QED BY <2>2 DEF v
<1>3. Iface!Cancelled(Hide(r)) = ViewOf("UNUSED", 0, 0, 0, r.fail)
  <2> DEFINE v == Iface!Cancelled(Hide(r))
  <2>1. /\ v.state = "UNUSED" /\ v.chunk_start = 0 /\ v.chunk_size = 0
        /\ v.curr = 0 /\ v.fail = r.fail
        /\ v = [x \in {"state", "chunk_start", "chunk_size", "curr", "fail"} |-> v[x]]
    BY <1>1 DEF ViewOf, Iface!Cancelled
  <2> HIDE DEF v
  <2>2. v = ViewOf("UNUSED", 0, 0, 0, r.fail)
    BY <2>1, ViewByFields
  <2> QED BY <2>2 DEF v
<1> QED BY <1>1, <1>2, <1>3

(* The same for the endings that also change fail_count or curr_downloaded. *)
LEMMA IfaceEndings ==
  ASSUME NEW r
  PROVE  /\ Iface!NotStarted(Hide(r)) = ViewOf("UNUSED", 0, 0, 0, r.fail + 1)
         /\ [Iface!Cancelled(Hide(r)) EXCEPT !.fail = 0]
                = ViewOf("UNUSED", 0, 0, 0, 0)
         /\ [Iface!Settle(Hide(r), "QUEUED") EXCEPT !.fail = 0]
                = ViewOf("QUEUED", 0, 0, r.curr, 0)
         /\ [Iface!Settle(Hide(r), "COMPLETE") EXCEPT !.curr = 0]
                = ViewOf("COMPLETE", 0, 0, 0, r.fail)
<1>0. Hide(r).fail = r.fail /\ Hide(r).state = r.state
  BY DEF Hide
<1>1. Iface!NotStarted(Hide(r))
        = ViewOf("UNUSED", 0, 0, 0, r.fail + 1)
  <2> DEFINE v == Iface!NotStarted(Hide(r))
  <2>1. /\ v.state = "UNUSED" /\ v.chunk_start = 0 /\ v.chunk_size = 0
        /\ v.curr = 0 /\ v.fail = r.fail + 1
        /\ v = [x \in {"state", "chunk_start", "chunk_size", "curr", "fail"} |-> v[x]]
    BY <1>0, IfaceEnds DEF ViewOf, Iface!NotStarted
  <2> HIDE DEF v
  <2>2. v = ViewOf("UNUSED", 0, 0, 0, r.fail + 1)
    BY <2>1, ViewByFields
  <2> QED BY <2>2 DEF v
<1>2. [Iface!Cancelled(Hide(r)) EXCEPT !.fail = 0]
        = ViewOf("UNUSED", 0, 0, 0, 0)
  <2> DEFINE v == [Iface!Cancelled(Hide(r)) EXCEPT !.fail = 0]
  <2>1. /\ v.state = "UNUSED" /\ v.chunk_start = 0 /\ v.chunk_size = 0
        /\ v.curr = 0 /\ v.fail = 0
        /\ v = [x \in {"state", "chunk_start", "chunk_size", "curr", "fail"} |-> v[x]]
    BY IfaceEnds DEF ViewOf
  <2> HIDE DEF v
  <2>2. v = ViewOf("UNUSED", 0, 0, 0, 0)
    BY <2>1, ViewByFields
  <2> QED BY <2>2 DEF v
<1>3. [Iface!Settle(Hide(r), "QUEUED") EXCEPT !.fail = 0]
        = ViewOf("QUEUED", 0, 0, r.curr, 0)
  <2> DEFINE v == [Iface!Settle(Hide(r), "QUEUED") EXCEPT !.fail = 0]
  <2>1. /\ v.state = "QUEUED" /\ v.chunk_start = 0 /\ v.chunk_size = 0
        /\ v.curr = r.curr /\ v.fail = 0
        /\ v = [x \in {"state", "chunk_start", "chunk_size", "curr", "fail"} |-> v[x]]
    BY IfaceEnds DEF ViewOf
  <2> HIDE DEF v
  <2>2. v = ViewOf("QUEUED", 0, 0, r.curr, 0)
    BY <2>1, ViewByFields
  <2> QED BY <2>2 DEF v
<1>4. [Iface!Settle(Hide(r), "COMPLETE") EXCEPT !.curr = 0]
        = ViewOf("COMPLETE", 0, 0, 0, r.fail)
  <2> DEFINE v == [Iface!Settle(Hide(r), "COMPLETE") EXCEPT !.curr = 0]
  <2>1. /\ v.state = "COMPLETE" /\ v.chunk_start = 0 /\ v.chunk_size = 0
        /\ v.curr = 0 /\ v.fail = r.fail
        /\ v = [x \in {"state", "chunk_start", "chunk_size", "curr", "fail"} |-> v[x]]
    BY IfaceEnds DEF ViewOf
  <2> HIDE DEF v
  <2>2. v = ViewOf("COMPLETE", 0, 0, 0, r.fail)
    BY <2>1, ViewByFields
  <2> QED BY <2>2 DEF v
<1> QED BY <1>1, <1>2, <1>3, <1>4

(* The same for an accepted reply and for more data. *)
LEMMA IfaceAccepts ==
  ASSUME NEW r, NEW n
  PROVE  /\ [Hide(r) EXCEPT !.state = "TRANSFERRING", !.curr = n, !.fail = 0]
                = ViewOf("TRANSFERRING", r.chunk_start, r.chunk_size, n, 0)
         /\ [Hide(r) EXCEPT !.curr = n]
                = ViewOf(r.state, r.chunk_start, r.chunk_size, n, r.fail)
<1> DEFINE v == [Hide(r) EXCEPT !.state = "TRANSFERRING", !.curr = n, !.fail = 0]
           w == [Hide(r) EXCEPT !.curr = n]
<1>1. /\ v.state = "TRANSFERRING" /\ v.chunk_start = r.chunk_start
      /\ v.chunk_size = r.chunk_size /\ v.curr = n /\ v.fail = 0
      /\ v = [x \in {"state", "chunk_start", "chunk_size", "curr", "fail"} |-> v[x]]
  BY DEF Hide
<1>2. /\ w.state = r.state /\ w.chunk_start = r.chunk_start
      /\ w.chunk_size = r.chunk_size /\ w.curr = n /\ w.fail = r.fail
      /\ w = [x \in {"state", "chunk_start", "chunk_size", "curr", "fail"} |-> w[x]]
  BY DEF Hide
<1> HIDE DEF v, w
<1>3. /\ v = ViewOf("TRANSFERRING", r.chunk_start, r.chunk_size, n, 0)
      /\ w = ViewOf(r.state, r.chunk_start, r.chunk_size, n, r.fail)
  BY <1>1, <1>2, ViewByFields
<1> QED BY <1>3 DEF v, w

(* A failure is counted for a request and not for a transfer. *)
LEMMA IfaceFailed ==
  ASSUME NEW r
  PROVE  /\ r.state = "CONNECTING" =>
                Iface!Failed(Hide(r)) = ViewOf("FAILED", 0, 0, r.curr, r.fail + 1)
         /\ r.state # "CONNECTING" =>
                Iface!Failed(Hide(r)) = ViewOf("FAILED", 0, 0, r.curr, r.fail)
<1> DEFINE v == Iface!Failed(Hide(r))
<1>0. Hide(r).fail = r.fail /\ Hide(r).state = r.state
  BY DEF Hide
<1> DEFINE w == Iface!Settle(Hide(r), "FAILED")
           k == IF r.state = "CONNECTING" THEN r.fail + 1 ELSE r.fail
<1>1. w = ViewOf("FAILED", 0, 0, r.curr, r.fail)
  BY IfaceEnds
<1>2. v = [w EXCEPT !.fail = k]
  BY <1>0 DEF Iface!Failed
<1> HIDE DEF v, w, k
<1>3. v = [ViewOf("FAILED", 0, 0, r.curr, r.fail) EXCEPT !.fail = k]
  BY <1>1, <1>2
<1>4. /\ v.state = "FAILED" /\ v.chunk_start = 0 /\ v.chunk_size = 0
      /\ v.curr = r.curr /\ v.fail = k
  BY <1>3 DEF ViewOf
<1>5. v = [x \in {"state", "chunk_start", "chunk_size", "curr", "fail"} |-> v[x]]
  BY <1>3 DEF ViewOf
<1>6. /\ v.state = "FAILED" /\ v.chunk_start = 0 /\ v.chunk_size = 0
      /\ v.curr = r.curr /\ v.fail = k
      /\ v = [x \in {"state", "chunk_start", "chunk_size", "curr", "fail"} |-> v[x]]
  BY <1>4, <1>5
<1>7. v = ViewOf("FAILED", 0, 0, r.curr, v.fail)
  BY <1>6, ViewByFields
<1> QED BY <1>6, <1>7 DEF v, k

(* The ways a request or transfer ends, as the owner sees them. *)
LEMMA HideCancelled ==
  ASSUME NEW r \in DownConnRec
  PROVE  /\ Hide(Cancelled(r)) = ViewOf("UNUSED", 0, 0, 0, r.fail)
         /\ Hide(Cancelled([r EXCEPT !.fail = 0])) = ViewOf("UNUSED", 0, 0, 0, 0)
  BY DEF DownConnRec, Hide, ViewOf, Cancelled, SetState, Reset, Close

LEMMA HideFailed ==
  ASSUME NEW r \in DownConnRec
  PROVE  /\ Hide(RequestFailed(r)) = ViewOf("FAILED", 0, 0, r.curr, r.fail + 1)
         /\ Hide(SetState(Reset(CountFailure(r)), "FAILED"))
                = ViewOf("FAILED", 0, 0, r.curr, r.fail + 1)
         /\ Hide(TransferFailed(r)) = ViewOf("FAILED", 0, 0, r.curr, r.fail)
  BY DEF DownConnRec, Hide, ViewOf, RequestFailed, TransferFailed, SetState,
         Reset, Close, CountFailure

LEMMA HideRefused ==
  ASSUME NEW r \in DownConnRec, NEW st
  PROVE  Hide(RequestRefused(r, st)) = ViewOf(st, 0, 0, r.curr, r.fail + 1)
  BY DEF DownConnRec, Hide, ViewOf, RequestRefused, SetState, Reset, Close,
         CountFailure

LEMMA HideDone ==
  ASSUME NEW r \in DownConnRec
  PROVE  Hide(Completed(r)) = ViewOf("COMPLETE", 0, 0, 0, r.fail)
  BY DEF DownConnRec, Hide, ViewOf, Completed, SetState, Reset, Close

(* What as_downconn_start leaves is what the interface says of it. *)
LEMMA HideStart ==
  ASSUME NEW r \in DownConnRec, NEW h, NEW s, NEW n
  PROVE  /\ Hide(SetState(Requested(Assigned(r, h, s, n)), "CONNECTING"))
                = ViewOf("CONNECTING", s, n, 0, r.fail)
         /\ Hide(RequestRefused(Assigned(r, h, s, n), "UNUSED"))
                = ViewOf("UNUSED", 0, 0, 0, r.fail + 1)
<1> DEFINE q == Assigned(r, h, s, n)
<1>1. /\ q.chunk_start = s /\ q.chunk_size = n /\ q.curr = 0 /\ q.fail = r.fail
      /\ q = [f \in DOMAIN r |-> q[f]] /\ DOMAIN q = DOMAIN r
      /\ DOMAIN r = {"state", "hash", "chunk_start", "chunk_size", "tcpcon",
                     "input", "timer", "recv_buf", "keep_alive", "push",
                     "curr", "fail"}
  BY DEF DownConnRec, Assigned
<1> HIDE DEF q
<1>2. Hide(SetState(RequestSent([q EXCEPT !.recv_buf = TRUE]), "CONNECTING"))
        = ViewOf("CONNECTING", s, n, 0, r.fail)
  BY <1>1 DEF Hide, ViewOf, RequestSent, SetState
<1>3. Hide(SetState([q EXCEPT !.recv_buf = TRUE, !.tcpcon = TRUE,
                              !.input = "connected"], "CONNECTING"))
        = ViewOf("CONNECTING", s, n, 0, r.fail)
  BY <1>1 DEF Hide, ViewOf, SetState
<1>4. Hide(SetState(Requested(q), "CONNECTING"))
        = ViewOf("CONNECTING", s, n, 0, r.fail)
  BY <1>2, <1>3 DEF Requested
<1>5. Hide(RequestRefused(q, "UNUSED")) = ViewOf("UNUSED", 0, 0, 0, r.fail + 1)
  BY <1>1 DEF Hide, ViewOf, RequestRefused, SetState, Reset, Close, CountFailure
<1> QED BY <1>4, <1>5 DEF q

(* Handlers whose work the owner does not see. *)
LEMMA HideInner ==
  ASSUME NEW r \in DownConnRec
  PROVE  /\ Hide(RequestSent(r)) = Hide(r)
         /\ \A id : Hide([Close(r) EXCEPT !.push = id]) = Hide(r)
         /\ \A id : Hide([Requested([r EXCEPT !.tcpcon = TRUE]) EXCEPT
                              !.push = id]) = Hide(r)
  BY DEF DownConnRec, Hide, RequestSent, Requested, Close
(* What is seen of a connection is a record the interface understands. *)
LEMMA Seen ==
  ASSUME IndInv, NEW c \in alive
  PROVE  /\ c \in Conns /\ conn \in [Conns -> DownConnRec]
         /\ RecOK(conn[c]) /\ conn[c] \in DownConnRec
         /\ View[c] = Hide(conn[c])
         /\ View[c].state = conn[c].state /\ View[c].fail = conn[c].fail
         /\ View[c].curr = conn[c].curr
         /\ View[c].chunk_size = conn[c].chunk_size
  BY DEF IndInv, ConnsOK, View, Hide

(* Keep and Settle, as what they change of the view. *)
LEMMA StoreView ==
  ASSUME IndInv, NEW c \in alive, NEW r, Keep(c, r) \/ Settle(c, r)
  PROVE  /\ conn' = [conn EXCEPT ![c] = r] /\ alive' = alive
         /\ View' = [View EXCEPT ![c] = Hide(r)]
<1>1. conn' = [conn EXCEPT ![c] = r] /\ alive' = alive
  BY DEF Keep, Settle
<1> QED BY <1>1, Seen, ViewUpdate

(* A failure that counts is the interface's Fail of a request. *)
LEMMA FailSim ==
  ASSUME IndInv, NEW c \in alive, conn[c].state = "CONNECTING",
         NEW r, Keep(c, r) \/ Settle(c, r),
         Hide(r) = ViewOf("FAILED", 0, 0, conn[c].curr, conn[c].fail + 1)
  PROVE  Iface!Fail(c)
<1>1. Iface!Failed(View[c]) = Hide(r)
  BY Seen, IfaceFailed
<1>2. View' = [View EXCEPT ![c] = Iface!Failed(View[c])] /\ alive' = alive
  BY <1>1, StoreView
<1> QED BY <1>2, Seen DEF View, Iface!Fail, Iface!BusyStates

(* A transfer that breaks off is the interface's Fail of a transfer. *)
LEMMA BreakSim ==
  ASSUME IndInv, NEW c \in alive, conn[c].state = "TRANSFERRING",
         NEW r, Keep(c, r) \/ Settle(c, r),
         Hide(r) = ViewOf("FAILED", 0, 0, conn[c].curr, conn[c].fail)
  PROVE  Iface!Fail(c)
<1>1. Iface!Failed(View[c]) = Hide(r)
  BY Seen, IfaceFailed
<1>2. View' = [View EXCEPT ![c] = Iface!Failed(View[c])] /\ alive' = alive
  BY <1>1, StoreView
<1> QED BY <1>2, Seen DEF View, Iface!Fail, Iface!BusyStates

(* as_downconn_cancel is the interface's Cancel. *)
LEMMA CancelSim ==
  ASSUME IndInv, NEW c \in alive, Settle(c, Cancelled(conn[c]))
  PROVE  Iface!Cancel(c)
<1>1. Hide(Cancelled(conn[c])) = Iface!Cancelled(View[c])
  BY Seen, HideCancelled, IfaceEnds
<1>2. View' = [View EXCEPT ![c] = Iface!Cancelled(View[c])] /\ alive' = alive
  BY <1>1, StoreView
<1> QED BY <1>2 DEF View, Iface!Cancel

(* The owner's calls are the interface's. *)
LEMMA OwnerSim ==
  ASSUME IndInv, NEW c \in Conns, OwnerStep(c)
  PROVE  Iface!IfaceNext \/ UNCHANGED Iface!ifaceVars
<1>0. Hide(NewConn) = Iface!NewView
  BY DEF Hide, NewConn, Iface!NewView
<1>1. CASE Create(c)
  <2>1. View' = [View EXCEPT ![c] = Iface!NewView]
    BY <1>0, <1>1, ViewUpdate DEF Create, IndInv, ConnsOK
  <2>2. Iface!Create(c)
    BY <1>1, <2>1 DEF Create, View, Iface!Create
  <2> QED BY <2>2, IfaceStep
<1>2. CASE Free(c)
  <2>1. View' = [View EXCEPT ![c] = Iface!NewView]
    BY <1>0, <1>2, ViewUpdate DEF Free, IndInv, ConnsOK
  <2>2. Iface!Free(c)
    BY <1>2, <2>1 DEF Free, View, Iface!Free
  <2> QED BY <2>2, IfaceStep
<1>3. CASE Cancel(c)
  BY <1>3, CancelSim, IfaceStep DEF Cancel
<1>4. ASSUME NEW h \in Hashes, NEW s \in 0 .. FileSize - 1,
             NEW n \in 1 .. FileSize, s + n <= FileSize, Start(c, h, s, n)
      PROVE  Iface!IfaceNext \/ UNCHANGED Iface!ifaceVars
  <2> DEFINE q == SetState(Requested(Assigned(conn[c], h, s, n)), "CONNECTING")
             f == RequestRefused(Assigned(conn[c], h, s, n), "UNUSED")
  <2>1. /\ c \in alive /\ conn[c].state \in Idle /\ conn[c].fail < SourceMaxFail
    BY <1>4 DEF Start
  <2>2. StartAssert(conn[c]) = "no"
    <3>1. s \in Offsets /\ n \in Offsets
      BY DownConnAssumption DEF Offsets
    <3> QED BY <2>1, <3>1, Seen, StartOK
  <2>3. Keep(c, q) \/ Settle(c, f)
    BY <1>4, <2>2 DEF Start, Asserted
  <2>4. CASE Keep(c, q)
    <3>1. Hide(q) = Iface!Started(View[c], s, n)
      BY <2>1, Seen, HideStart, IfaceEnds
    <3>2. View' = [View EXCEPT ![c] = Iface!Started(View[c], s, n)]
          /\ alive' = alive
      BY <2>1, <2>4, <3>1, StoreView
    <3>3. Iface!Start(c, s, n)
      BY <2>1, <3>2, Seen DEF View, Iface!Start, Iface!IdleStates, Idle
    <3> QED BY <1>4, <3>3 DEF Iface!IfaceNext
  <2>5. CASE Settle(c, f)
    <3>1. Hide(f) = ViewOf("UNUSED", 0, 0, 0, conn[c].fail + 1)
      BY <2>1, Seen, HideStart
    <3>2. Iface!NotStarted(View[c]) = Hide(f)
      BY <2>1, <3>1, Seen, IfaceEndings
    <3>3. View' = [View EXCEPT ![c] = Iface!NotStarted(View[c])]
          /\ alive' = alive
      BY <2>1, <2>5, <3>2, StoreView
    <3>4. Iface!StartFails(c)
      BY <2>1, <3>3, Seen DEF View, Iface!StartFails, Iface!IdleStates, Idle
    <3> QED BY <3>4, IfaceStep
  <2> QED BY <2>3, <2>4, <2>5
<1> QED BY <1>1, <1>2, <1>3, <1>4 DEF OwnerStep
(* Handlers that keep what the owner sees. *)
LEMMA HiddenSim ==
  ASSUME IndInv, NEW c \in alive, NEW r, Hide(r) = Hide(conn[c]),
         alive' = alive, conn' = [conn EXCEPT ![c] = r]
  PROVE  UNCHANGED Iface!ifaceVars
<1>1. View' = [View EXCEPT ![c] = Hide(r)]
  BY Seen, ViewUpdate
<1>2. View' = View
  BY <1>1, Seen DEF View
<1> QED BY <1>2 DEF View, Iface!ifaceVars

(* An accepted reply with n bytes of body is the interface's Transfer. *)
LEMMA AcceptedSim ==
  ASSUME IndInv, NEW c \in alive, conn[c].state = "CONNECTING",
         NEW n \in 0 .. FileSize, n <= conn[c].chunk_size,
         NEW r, Keep(c, r),
         Hide(r) = ViewOf("TRANSFERRING", conn[c].chunk_start,
                          conn[c].chunk_size, n, 0)
  PROVE  Iface!Transfer(c, n)
<1> DEFINE v == [View[c] EXCEPT !.state = "TRANSFERRING", !.curr = n, !.fail = 0]
<1>1. View[c] = Hide(conn[c])
  BY Seen
<1>2. v = Hide(r)
  BY <1>1, IfaceAccepts
<1> HIDE DEF v
<1>3. View' = [View EXCEPT ![c] = v] /\ alive' = alive
  BY <1>2, StoreView
<1> QED BY <1>3, Seen DEF v, View, Iface!Transfer

(* What the owner sees of an accepted reply. *)
LEMMA HideAccepted ==
  ASSUME NEW r \in DownConnRec, NEW ka, NEW n
  PROVE  /\ Hide([Transferring(r, ka) EXCEPT !.curr = n, !.recv_buf = FALSE])
                = ViewOf("TRANSFERRING", r.chunk_start, r.chunk_size, n, 0)
         /\ Hide([Transferring(r, ka) EXCEPT !.curr = n])
                = ViewOf("TRANSFERRING", r.chunk_start, r.chunk_size, n, 0)
  BY DEF DownConnRec, Hide, ViewOf, Transferring

(* What the owner sees of a 503. *)
LEMMA HideQueued ==
  ASSUME NEW r \in DownConnRec, NEW ka,
         NEW q, q = Reset([r EXCEPT !.fail = 0, !.keep_alive = ka,
                                    !.input = "none"])
  PROVE  Hide(SetState(IF q.keep_alive THEN q ELSE Close(q), "QUEUED"))
             = ViewOf("QUEUED", 0, 0, r.curr, 0)
  BY DEF DownConnRec, Hide, ViewOf, Reset, SetState, Close

(* The socket and timer handlers are steps of the interface or unseen. *)
LEMMA ConnSim ==
  ASSUME IndInv, NEW c \in Conns, ConnStep(c)
  PROVE  Iface!IfaceNext \/ UNCHANGED Iface!ifaceVars
<1>0. /\ c \in alive /\ conn[c] \in DownConnRec /\ RecOK(conn[c])
      /\ View[c] = Hide(conn[c]) /\ View[c].state = conn[c].state
      /\ View[c].curr = conn[c].curr /\ View[c].chunk_size = conn[c].chunk_size
  <2>1. c \in alive
    BY DEF ConnStep, Connected, RequestTimeout, ReadHeader, DataTimeout, ReadBody
  <2> QED BY <2>1, Seen
<1>1. ASSUME conn[c].state = "CONNECTING", Settle(c, RequestFailed(conn[c]))
      PROVE  Iface!IfaceNext
  BY <1>0, <1>1, HideFailed, FailSim, IfaceStep
<1>2. ASSUME conn[c].state = "TRANSFERRING", Settle(c, TransferFailed(conn[c]))
      PROVE  Iface!IfaceNext
  BY <1>0, <1>2, HideFailed, BreakSim, IfaceStep
<1>3. CASE Connected(c)
  <2>1. /\ conn[c].state = "CONNECTING" /\ ConnectedAssert(conn[c]) = "no"
    BY <1>0, <1>3 DEF Connected, RecOK, DownConnRec, Idle, Busy, ConnectedAssert
  <2>2. CASE Keep(c, RequestSent(conn[c]))
    BY <1>0, <2>2, HideInner, HiddenSim DEF Keep
  <2>3. CASE PushSend(c)
    <3>1. /\ alive' = alive
          /\ conn' = [conn EXCEPT ![c] = [Close(conn[c]) EXCEPT
                                             !.push = next_push_id]]
      BY <2>3 DEF PushSend
    <3>2. Hide([Close(conn[c]) EXCEPT !.push = next_push_id]) = Hide(conn[c])
      BY <1>0, HideInner
    <3> QED BY <1>0, <3>1, <3>2, HiddenSim
  <2> QED BY <1>1, <1>3, <2>1, <2>2, <2>3 DEF Connected, Asserted
<1>4. CASE RequestTimeout(c)
  <2>1. conn[c].state = "CONNECTING"
    BY <1>0, <1>4 DEF RequestTimeout, RecOK, DownConnRec, Idle, Busy
  <2> QED BY <1>1, <1>4, <2>1 DEF RequestTimeout
<1>5. CASE ReadHeader(c)
  <2>1. conn[c].state = "CONNECTING"
    BY <1>0, <1>5 DEF ReadHeader, RecOK, DownConnRec, Idle, Busy
  <2>2. CASE Keep(c, conn[c])
    BY <1>0, <2>2, HiddenSim DEF Keep
  <2>3. ASSUME NEW ka \in BOOLEAN, NEW n \in 0 .. FileSize,
               HandleAccepted(c, ka, n)
        PROVE  Iface!IfaceNext
    <3>1. CASE Settle(c, Cancelled([conn[c] EXCEPT !.fail = 0]))
      <4>1. [Iface!Cancelled(View[c]) EXCEPT !.fail = 0]
              = Hide(Cancelled([conn[c] EXCEPT !.fail = 0]))
        BY <1>0, HideCancelled, IfaceEndings
      <4>2. View' = [View EXCEPT ![c] = [Iface!Cancelled(View[c]) EXCEPT !.fail = 0]]
            /\ alive' = alive
        BY <1>0, <3>1, <4>1, StoreView
      <4>3. Iface!CancelAccepted(c)
        BY <1>0, <2>1, <4>2, Seen DEF View, Iface!CancelAccepted
      <4> QED BY <4>3, IfaceStep
    <3>2. ASSUME n <= conn[c].chunk_size,
                 \/ Keep(c, [Transferring(conn[c], ka) EXCEPT !.curr = n,
                                                       !.recv_buf = FALSE])
                 \/ Keep(c, [Transferring(conn[c], ka) EXCEPT !.curr = n])
          PROVE  Iface!IfaceNext
      <4> DEFINE r == [Transferring(conn[c], ka) EXCEPT !.curr = n,
                                                    !.recv_buf = FALSE]
                 q == [Transferring(conn[c], ka) EXCEPT !.curr = n]
                 v == ViewOf("TRANSFERRING", conn[c].chunk_start,
                             conn[c].chunk_size, n, 0)
      <4>1. Hide(r) = v /\ Hide(q) = v
        BY <1>0, HideAccepted
      <4> HIDE DEF r, q
      <4>2. Iface!Transfer(c, n)
        BY <1>0, <2>1, <3>2, <4>1, AcceptedSim DEF r, q
      <4> QED BY <4>2 DEF Iface!IfaceNext
    <3>3. conn[c].chunk_size \in Nat
      BY <1>0, DownConnAssumption DEF DownConnRec, Offsets
    <3>4. n \in 1 .. conn[c].chunk_size - 1 => n <= conn[c].chunk_size
      BY <3>3, DownConnAssumption
    <3> QED BY <2>3, <3>1, <3>2, <3>4 DEF HandleAccepted
  <2>4. ASSUME NEW ka \in BOOLEAN, HandleQueued(c, ka)
        PROVE  Iface!IfaceNext
    <3> DEFINE q == Reset([conn[c] EXCEPT !.fail = 0, !.keep_alive = ka,
                                          !.input = "none"])
               r == SetState(IF q.keep_alive THEN q ELSE Close(q), "QUEUED")
    <3>1. Hide(r) = ViewOf("QUEUED", 0, 0, conn[c].curr, 0)
      BY <1>0, HideQueued
    <3>2. [Iface!Settle(View[c], "QUEUED") EXCEPT !.fail = 0] = Hide(r)
      BY <1>0, <3>1, IfaceEndings
    <3>3. Settle(c, r)
      BY <2>4 DEF HandleQueued
    <3> HIDE DEF r
    <3>4. View' = [View EXCEPT ![c] = [Iface!Settle(View[c], "QUEUED") EXCEPT !.fail = 0]]
          /\ alive' = alive
      BY <1>0, <3>2, <3>3, StoreView
    <3>5. Iface!Queued(c)
      BY <1>0, <2>1, <3>4, Seen DEF View, Iface!Queued
    <3> QED BY <3>5, IfaceStep
  <2> QED BY <1>1, <1>5, <2>1, <2>2, <2>3, <2>4 DEF ReadHeader
<1>6. CASE DataTimeout(c)
  <2>1. conn[c].state = "TRANSFERRING"
    BY <1>0, <1>6 DEF DataTimeout, RecOK, DownConnRec, Idle, Busy
  <2> QED BY <1>2, <1>6, <2>1 DEF DataTimeout
<1>7. CASE ReadBody(c)
  <2>1. conn[c].state = "TRANSFERRING"
    BY <1>0, <1>7 DEF ReadBody, RecOK, DownConnRec, Idle, Busy
  <2>2. CASE Settle(c, Cancelled(conn[c]))
    BY <1>0, <2>2, CancelSim, IfaceStep
  <2>3. ASSUME NEW n \in 1 .. FileSize, conn[c].curr + n < conn[c].chunk_size,
               Keep(c, [conn[c] EXCEPT !.curr = @ + n])
        PROVE  Iface!IfaceNext
    <3> DEFINE m == conn[c].curr + n
               r == [conn[c] EXCEPT !.curr = m]
               v == [View[c] EXCEPT !.curr = m]
    <3>1. Hide(r) = ViewOf(conn[c].state, conn[c].chunk_start,
                           conn[c].chunk_size, m, conn[c].fail)
      BY <1>0 DEF Hide, ViewOf, DownConnRec
    <3>2. v = Hide(r)
      BY <1>0, <3>1, IfaceAccepts
    <3>3. Keep(c, r)
      BY <2>3
    <3> HIDE DEF r, v
    <3>4. View' = [View EXCEPT ![c] = v] /\ alive' = alive
      BY <1>0, <3>2, <3>3, StoreView
    <3>5. View' = [View EXCEPT ![c].curr = @ + n]
      BY <3>4, <1>0 DEF v
    <3>6. n > 0 /\ View[c].curr + n < View[c].chunk_size
      BY <1>0, <2>3, DownConnAssumption
    <3>7. Iface!Data(c, n)
      BY <1>0, <2>1, <3>4, <3>5, <3>6 DEF View, Iface!Data
    <3>8. n \in 0 .. FileSize
      BY DownConnAssumption
    <3> QED BY <3>7, <3>8 DEF Iface!IfaceNext
  <2>4. ASSUME NEW n \in 1 .. FileSize, conn[c].curr + n = conn[c].chunk_size,
               Settle(c, Completed(conn[c]))
        PROVE  Iface!IfaceNext
    <3>1. [Iface!Settle(View[c], "COMPLETE") EXCEPT !.curr = 0]
            = Hide(Completed(conn[c]))
      BY <1>0, HideDone, IfaceEndings
    <3>2. View' = [View EXCEPT ![c] = [Iface!Settle(View[c], "COMPLETE") EXCEPT !.curr = 0]]
          /\ alive' = alive
      BY <1>0, <2>4, <3>1, StoreView
    <3>3. n > 0 /\ View[c].curr + n = View[c].chunk_size
      BY <1>0, <2>4, DownConnAssumption
    <3>5. Iface!Complete(c, n)
      BY <1>0, <2>1, <3>2, <3>3 DEF View, Iface!Complete
    <3>4. n \in 0 .. FileSize
      BY DownConnAssumption
    <3> QED BY <3>4, <3>5 DEF Iface!IfaceNext
  <2> QED BY <1>2, <1>7, <2>1, <2>2, <2>3, <2>4 DEF ReadBody
<1> QED BY <1>3, <1>4, <1>5, <1>6, <1>7 DEF ConnStep

(* The steps of a push are unseen, or the failure of its connection. *)
LEMMA PushSim ==
  ASSUME IndInv, NEW id \in PushIds, PushStep(id),
         NEW c, c = pushes[id].owner
  PROVE  Iface!IfaceNext \/ UNCHANGED Iface!ifaceVars
<1>0. /\ id \in DOMAIN pushes /\ c \in alive /\ c \in Conns /\ RecOK(conn[c])
      /\ conn[c].push = id /\ conn[c].state = "CONNECTING"
      /\ conn[c] \in DownConnRec
  <2>1. id \in DOMAIN pushes
    BY DEF PushStep, PushConnected, PushTimeout, IncomingPush
  <2>2. c \in alive /\ c \in Conns /\ RecOK(conn[c]) /\ conn[c].push = id
    BY <2>1 DEF IndInv, ConnsOK, PushesOK
  <2> QED BY <2>1, <2>2, SetFacts DEF RecOK, DownConnRec, Idle, Busy
<1>1. ASSUME PushFailed(c) PROVE Iface!IfaceNext
  BY <1>0, <1>1, HideFailed, FailSim, IfaceStep DEF PushFailed
<1>2. ASSUME UNCHANGED <<alive, conn>> PROVE UNCHANGED Iface!ifaceVars
  BY <1>2 DEF Iface!ifaceVars
<1>3. CASE PushConnected(id)
  BY <1>1, <1>2, <1>3 DEF PushConnected
<1>4. CASE PushTimeout(id)
  BY <1>1, <1>4 DEF PushTimeout
<1>5. ASSUME NEW h \in Hashes, NEW host \in Conns, IncomingPush(id, h, host)
      PROVE  Iface!IfaceNext \/ UNCHANGED Iface!ifaceVars
  <2> DEFINE q == [conn[c] EXCEPT !.tcpcon = TRUE]
             a == [Requested(q) EXCEPT !.push = INVALID_PUSH_ID]
             f == RequestRefused(q, "FAILED")
  <2>1. \/ PushFailed(c) \/ Settle(c, a) \/ Settle(c, f)
        \/ UNCHANGED <<alive, conn>>
    BY <1>5 DEF IncomingPush, Asserted
  <2>2. Hide(a) = Hide(conn[c])
    BY <1>0, HideInner
  <2>3. Hide(f) = ViewOf("FAILED", 0, 0, conn[c].curr, conn[c].fail + 1)
    <3>1. q \in DownConnRec /\ q.curr = conn[c].curr /\ q.fail = conn[c].fail
      BY <1>0 DEF DownConnRec
    <3> HIDE DEF q
    <3> QED BY <3>1, HideRefused
  <2> HIDE DEF a, f
  <2>4. CASE Settle(c, a)
    BY <1>0, <2>2, <2>4, HiddenSim DEF Settle
  <2>5. CASE Settle(c, f)
    BY <1>0, <2>3, <2>5, FailSim, IfaceStep
  <2> QED BY <1>1, <1>2, <2>1, <2>4, <2>5
<1> QED BY <1>3, <1>4, <1>5 DEF PushStep

(* Every step of the connections is a step of the interface Download is   *)
(* built on, or one its owner cannot see, for any number of connections,  *)
(* chunk sizes and push ids: replies, timeouts, pushes and cancels in any *)
(* order show an owner nothing that DownConnIface does not promise.       *)
THEOREM Refinement == Spec => ImplementsIface
<1>1. Init => Iface!IfaceInit
  BY DEF Init, Iface!IfaceInit, Hide, NewConn, Iface!NewView
<1>2. IndInv /\ [Next]_vars => [Iface!IfaceNext]_(Iface!ifaceVars)
  <2> SUFFICES ASSUME IndInv, [Next]_vars
               PROVE  Iface!IfaceNext \/ UNCHANGED Iface!ifaceVars
    OBVIOUS
  <2>1. CASE UNCHANGED vars
    BY <2>1 DEF vars, Iface!ifaceVars
  <2>2. CASE Next
    BY <2>2, OwnerSim, ConnSim, PushSim DEF Next
  <2> QED BY <2>1, <2>2
<1> QED BY <1>1, <1>2, Invariance, PTL DEF Spec, ImplementsIface, Iface!IfaceSpec
=============================================================================
