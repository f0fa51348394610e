------------------------------- MODULE UploadMan -------------------------------
(***************************************************************************)
(* The upload manager (as_upload_man.c) and the uploads it keeps           *)
(* (as_upload.c): admission of requests, the internal queue of hosts, the  *)
(* count of active uploads and the progress timer.                         *)
(*                                                                         *)
(* The manager runs with its internal queue (no auth callback), as it does *)
(* under aresdll, which is also the owner that cancels and removes uploads *)
(* and sets the progress callback.  Every handler runs to completion in    *)
(* the event loop and is one step.                                         *)
(***************************************************************************)
EXTENDS Integers, Sequences, FiniteSets

CONSTANTS
    Peers,          \* hosts that request files
    NoHost,         \* INADDR_NONE
    Polite,         \* the hosts that poll again within the queue timeout
    Uploads,        \* ASUpload objects
    MaxActive,      \* AS_UPLOAD_MAX_ACTIVE
    QueueTimeout,   \* AS_UPLOAD_QUEUE_TIMEOUT, in units of Tick
    MaxSized        \* bound on the file size requests answered

ASSUME UploadManAssumption ==
    /\ NoHost \notin Peers
    /\ Polite \subseteq Peers
    /\ IsFiniteSet(Uploads)
    /\ MaxActive \in Nat
    /\ QueueTimeout \in Nat
    /\ MaxSized \in Nat

VARIABLES
    up,             \* Uploads -> ASUpload; "free" is not in man->uploads
    nuploads,       \* man->nuploads
    queue,          \* man->queue, with the age of each entry for its time
    nqueued,        \* man->nqueued
    progress_cb,    \* a progress callback is set
    progress_timer, \* the progress timer runs
    waiting,        \* hosts whose last answer was 503
    sized,          \* file size requests answered so far (history)
    aborted         \* what ended the program, or "no"

man == <<up, nuploads, queue, nqueued>>
timer == <<progress_cb, progress_timer>>
vars == <<up, nuploads, queue, nqueued, progress_cb, progress_timer, waiting,
          sized, aborted>>

UploadRec == [host : Peers \cup {NoHost},
              state : {"free", "ACTIVE", "COMPLETE", "CANCELLED"}]
FreeUpload == [host |-> NoHost, state |-> "free"]
QueueRec == [host : Peers, age : Nat]

Active == {u \in Uploads : up[u].state = "ACTIVE"}
Uploading(h) == \E u \in Active : up[u].host = h
Queued(h) == \E i \in DOMAIN queue : queue[i].host = h
Running == aborted = "no"

-----------------------------------------------------------------------------
(* Admission.                                                              *)

(* The entries of q that are not stale, and the j-th smallest of K. *)
Fresh(q) == {i \in DOMAIN q : q[i].age <= QueueTimeout}
Nth(K, j) == CHOOSE k \in K : Cardinality({m \in K : m <= k}) = j

(* tidy_queue with last = NULL *)
Tidy(q) == [j \in 1 .. Cardinality(Fresh(q)) |-> q[Nth(Fresh(q), j)]]

RemoveLink(q, i) == SubSeq(q, 1, i - 1) \o SubSeq(q, i + 1, Len(q))

(* The answers of upman_auth: the position, the queue and its count after *)
(* the call, and what went wrong, if anything.                            *)
Answer(pos, q, n) == [pos |-> pos, queue |-> q, nqueued |-> n, abort |-> "no"]
Abort(what) == [pos |-> -1, queue |-> queue, nqueued |-> nqueued, abort |-> what]

(* upman_auth for the host at position i of q: pop it, or refresh it. *)
Decide(q, n, i) ==
    IF i + nuploads < MaxActive
    THEN Answer(0, RemoveLink(q, i), n - 1)
    ELSE Answer(i, [q EXCEPT ![i].age = 0], n)

(* upman_auth after the tidying for a host that is not in the queue.  The *)
(* link that is removed when it may start at once is a null pointer.      *)
Enqueue(q, n, h) ==
    IF n + 1 + nuploads < MaxActive
    THEN Abort("null_link")
    ELSE Answer(n + 1, Append(q, [host |-> h, age |-> 0]), n + 1)

(* Mutant of Auth: a host may have several active uploads. *)
AuthManyPerHost(h) ==
    LET q == Tidy(queue)
        n == nqueued - (Len(queue) - Len(q))
        at == {i \in DOMAIN q : q[i].host = h}
    IN  IF nuploads + nqueued < MaxActive THEN Answer(0, queue, nqueued)
        ELSE IF n # Len(q) THEN Abort("nqueued")
        ELSE IF at = {} THEN Enqueue(q, n, h)
        ELSE Decide(q, n, CHOOSE i \in at : \A j \in at : i <= j)

(* Mutant of Auth: a host is appended without looking for it. *)
AuthNoSearch(h) ==
    LET q == Tidy(queue)
        n == nqueued - (Len(queue) - Len(q))
    IN  IF Uploading(h) THEN Answer(-1, queue, nqueued)
        ELSE IF nuploads + nqueued < MaxActive THEN Answer(0, queue, nqueued)
        ELSE IF n # Len(q) THEN Abort("nqueued")
        ELSE Enqueue(q, n, h)

(* upman_auth: one active upload per host; spare slots; the queue. *)
Auth(h) ==
    LET q == Tidy(queue)
        n == nqueued - (Len(queue) - Len(q))
        at == {i \in DOMAIN q : q[i].host = h}
    IN  IF Uploading(h) THEN Answer(-1, queue, nqueued)
        ELSE IF nuploads + nqueued < MaxActive THEN Answer(0, queue, nqueued)
        ELSE IF n # Len(q) THEN Abort("nqueued")
        ELSE IF at = {} THEN Enqueue(q, n, h)
        ELSE Decide(q, n, CHOOSE i \in at : \A j \in at : i <= j)

-----------------------------------------------------------------------------
(* Parts of handlers.                                                      *)

(* progress_timer_update, for the new callback and count. *)
TimerUpdate(cb, n) == progress_timer' = (cb /\ n > 0)

SetCount(n) ==
    /\ nuploads' = n
    /\ TimerUpdate(progress_cb, n)

(* upload_set_state: u was active and ends. *)
End(u, st) ==
    /\ up' = [up EXCEPT ![u].state = st]
    /\ SetCount(nuploads - 1)
    /\ aborted' = IF nuploads - 1 < 0 THEN "nuploads" ELSE "no"
    /\ UNCHANGED <<queue, nqueued, progress_cb, waiting, sized>>

-----------------------------------------------------------------------------
(* as_upman_start, as_upman_start_binary and as_upload_start.              *)

(* The request reaches the auth callback and is answered with 503. *)
Refuse(h) ==
    LET a == Auth(h)
    IN  /\ Running /\ a.abort = "no" /\ a.pos # 0
        /\ queue' = a.queue /\ nqueued' = a.nqueued
        /\ waiting' = waiting \cup {h}
        /\ UNCHANGED <<up, nuploads, timer, sized, aborted>>

(* The request is authorised.  The upload starts, or the file or the      *)
(* reply fails and the upload is dropped again.                           *)
Admit(h, u) ==
    LET a == Auth(h)
    IN  /\ Running /\ up[u].state = "free" /\ a.abort = "no" /\ a.pos = 0
        /\ queue' = a.queue /\ nqueued' = a.nqueued
        /\ waiting' = waiting \ {h}
        /\ \/ /\ up' = [up EXCEPT ![u] = [host |-> h, state |-> "ACTIVE"]]
              /\ SetCount(nuploads + 1)
           \/ UNCHANGED <<up, nuploads, progress_timer>>
        /\ UNCHANGED <<progress_cb, sized, aborted>>

(* The request ends the program inside upman_auth. *)
Crash(h) ==
    /\ Running /\ Auth(h).abort # "no"
    /\ aborted' = Auth(h).abort
    /\ UNCHANGED <<man, timer, waiting, sized>>

(* A binary or HTTP request that is malformed: it is answered with 400 and  *)
(* never gets to the auth callback.                                        *)
BadRequest(h) ==
    /\ Running /\ h \in waiting
    /\ waiting' = waiting \ {h}
    /\ UNCHANGED <<man, timer, sized, aborted>>

(* A Range header of an HTTP request that names no end: the end is read    *)
(* from the share, which is only looked up later.                          *)
OpenRange(h) ==
    /\ Running
    /\ aborted' = "null_share"
    /\ UNCHANGED <<man, timer, waiting, sized>>

(* A request for an unknown file, 404, or for a range that is not in it    *)
NotShared(h) ==
    /\ Running /\ h \in waiting
    /\ waiting' = waiting \ {h}
    /\ UNCHANGED <<man, timer, sized, aborted>>

(* A file size request: send_reply_metadata raises COMPLETE for an upload *)
(* that never was ACTIVE; as_upman_start then drops it.                   *)
Metadata(h) ==
    /\ Running /\ sized < MaxSized
    /\ sized' = sized + 1
    /\ SetCount(nuploads - 1)
    /\ aborted' = IF nuploads - 1 < 0 THEN "nuploads" ELSE "no"
    /\ UNCHANGED <<up, queue, nqueued, progress_cb, waiting>>

-----------------------------------------------------------------------------
(* A running upload and its owner.                                         *)

(* send_file: the last block was sent, or an error; a block in between    *)
(* changes nothing here.                                                  *)
SendFile(u) ==
    /\ Running /\ up[u].state = "ACTIVE"
    /\ End(u, "COMPLETE") \/ End(u, "CANCELLED")

(* as_upman_cancel *)
Cancel(u) ==
    /\ Running /\ up[u].state = "ACTIVE"
    /\ End(u, "CANCELLED")

(* Mutant of RemoveUpload: the count drops for every upload that is removed. *)
RemoveAlwaysCounts(u) ==
    /\ Running /\ up[u].state # "free"
    /\ up' = [up EXCEPT ![u] = FreeUpload]
    /\ SetCount(nuploads - 1)
    /\ UNCHANGED <<queue, nqueued, progress_cb, waiting, sized, aborted>>

(* as_upman_remove *)
RemoveUpload(u) ==
    /\ Running /\ up[u].state # "free"
    /\ up' = [up EXCEPT ![u] = FreeUpload]
    /\ IF up[u].state = "ACTIVE" THEN SetCount(nuploads - 1)
       ELSE UNCHANGED <<nuploads, progress_timer>>
    /\ UNCHANGED <<queue, nqueued, progress_cb, waiting, sized, aborted>>

(* Mutant of SetProgressCb: the timer is left as it is. *)
SetProgressCbOnly(cb) ==
    /\ Running /\ cb # progress_cb
    /\ progress_cb' = cb
    /\ UNCHANGED <<man, progress_timer, waiting, sized, aborted>>

(* as_upman_set_progress_cb *)
SetProgressCb(cb) ==
    /\ Running /\ cb # progress_cb
    /\ progress_cb' = cb
    /\ TimerUpdate(cb, nuploads)
    /\ UNCHANGED <<man, waiting, sized, aborted>>

(* progress_timer_func and the callback it raises, upman_progress_callback *)
(* of aresdll: the assert ()s of both.                                     *)
ProgressTimer ==
    /\ Running /\ progress_timer
    /\ aborted' = IF ~progress_cb \/ nuploads <= 0 THEN "timer"
                  ELSE IF Cardinality(Active) # nuploads THEN "progress"
                  ELSE "no"
    /\ UNCHANGED <<man, timer, waiting, sized>>

(* Time passes.  A polite host that was told to wait has asked again      *)
(* before its entry can become stale.                                     *)
Tick ==
    /\ Running
    /\ \A i \in DOMAIN queue :
          queue[i].host \in Polite \cap waiting /\ ~Uploading(queue[i].host)
             => queue[i].age < QueueTimeout
    /\ \E i \in DOMAIN queue : queue[i].age <= QueueTimeout
    /\ queue' = [i \in DOMAIN queue |->
                    IF queue[i].age <= QueueTimeout
                    THEN [queue[i] EXCEPT !.age = @ + 1] ELSE queue[i]]
    /\ UNCHANGED <<up, nuploads, nqueued, timer, waiting, sized, aborted>>

-----------------------------------------------------------------------------
(* as_upman_create *)
Init ==
    /\ up = [u \in Uploads |-> FreeUpload]
    /\ nuploads = 0
    /\ queue = <<>>
    /\ nqueued = 0
    /\ progress_cb = FALSE /\ progress_timer = FALSE
    /\ waiting = {} /\ sized = 0
    /\ aborted = "no"

Request(h) ==
    Refuse(h) \/ (\E u \in Uploads : Admit(h, u)) \/ Crash(h)

Next ==
    \/ \E h \in Peers : \/ Request(h) \/ BadRequest(h) \/ OpenRange(h)
                       \/ NotShared(h) \/ Metadata(h)
    \/ \E u \in Uploads : SendFile(u) \/ Cancel(u) \/ RemoveUpload(u)
    \/ \E cb \in BOOLEAN : SetProgressCb(cb)
    \/ ProgressTimer
    \/ Tick

Spec == Init /\ [][Next]_vars

(***************************************************************************)
(* Fairness: transfers end, the owner removes what ended, time passes, and *)
(* a polite host that has to wait asks again.  The last is strong because  *)
(* Admit waits for a free element of Uploads, which malloc does not.       *)
(***************************************************************************)
Fairness ==
    /\ \A u \in Uploads :
          /\ WF_vars(SendFile(u))
          /\ WF_vars(up[u].state # "ACTIVE" /\ RemoveUpload(u))
    /\ WF_vars(Tick)
    /\ \A h \in Polite : SF_vars(h \in waiting /\ Request(h))

FairSpec == Spec /\ Fairness
-----------------------------------------------------------------------------
(***************************************************************************)
(* Properties.                                                             *)
(***************************************************************************)

(* Every variable has the values its C type and the bounds allow. *)
TypeOK ==
    /\ up \in [Uploads -> UploadRec]
    /\ nuploads \in Int
    /\ queue \in Seq(QueueRec)
    /\ nqueued \in Int
    /\ progress_cb \in BOOLEAN /\ progress_timer \in BOOLEAN
    /\ waiting \subseteq Peers
    /\ sized \in 0 .. MaxSized
    /\ aborted \in {"no", "null_link", "null_share", "nqueued", "nuploads", "timer",
                   "progress"}

(* However requests, ends, cancellations and removals interleave, the     *)
(* manager's count is the number of uploads that are active, and there    *)
(* are never more of them than AS_UPLOAD_MAX_ACTIVE; but each file size   *)
(* request that was answered takes one off the count for ever and so lets *)
(* one upload too many in.                                                *)
SlotsCounted ==
    /\ nuploads + sized = Cardinality(Active)
    /\ Cardinality(Active) <= MaxActive + sized

(* upman_auth: only one active upload per host. *)
OnePerHost ==
    \A u, v \in Active : up[u].host = up[v].host => u = v

(* What upman_auth is for: the slots and the hosts are limited as above,  *)
(* whatever mixture of requests, ends and removals led here.              *)
UploadsLimited == SlotsCounted /\ OnePerHost

(* The queue holds each host once and its counter is its length, across   *)
(* tidying, popping and appending.                                        *)
QueueConsistent ==
    /\ nqueued = Len(queue)
    /\ \A i, j \in DOMAIN queue : queue[i].host = queue[j].host => i = j

(* No assert () on these paths fails as long as nobody sends a file size  *)
(* request; the null link of upman_auth and the share that an open range   *)
(* needs too early are the only ways to crash.                             *)
OnlyNullLink == sized = 0 => aborted \in {"no", "null_link", "null_share"}

(* A polite host that was told to wait is eventually answered otherwise.  *)
Served ==
    \A h \in Polite : h \in waiting ~> (h \notin waiting \/ ~Running)

(* as_upload_man.c:405: upman_auth returns zero, -1 or a queue position;  *)
(* it does not crash.                                                     *)
AuthReturns == aborted # "null_link"
=============================================================================
