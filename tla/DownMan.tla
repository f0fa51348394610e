-------------------------------- MODULE DownMan --------------------------------
(***************************************************************************)
(* The download manager (as_download_man.c).                               *)
(*                                                                         *)
(* Every change of a download's state calls download_state_cb, which tells *)
(* the owner and may resume or queue further downloads, which changes      *)
(* their state and so calls it again.  What matters here is the nesting:   *)
(* a call goes on with what it read before a callback that changed it.  So *)
(* the C stack is part of the state, and a step is what a function does    *)
(* between two calls.  No event is handled while the stack is not empty.   *)
(*                                                                         *)
(* Of as_download.c only the state of a download is kept, and whether all  *)
(* of its data is there.  The owner follows as_download_man.h, as test/    *)
(* cmd.c does: told of the end of a download its callback may remove that  *)
(* download and returns FALSE if it did.                                   *)
(***************************************************************************)
EXTENDS Naturals, Sequences, FiniteSets, SequencesExt

CONSTANTS
    Downloads,      \* ASDownload objects
    Hashes,         \* hashes of files
    Null,           \* no link, no hash
    MaxActive       \* AS_DOWNLOAD_MAX_ACTIVE

ASSUME DownManAssumption ==
    /\ Null \notin Downloads \cup Hashes
    /\ MaxActive \in Nat

VARIABLES
    dl,             \* Downloads -> the fields the manager looks at
    downloads,      \* man->downloads
    index,          \* man->hash_index: Hashes -> a link of downloads
    stopped,        \* man->stopped
    progress_cb,    \* a progress callback is set
    progress_timer, \* the progress timer runs
    stack,          \* the functions that are running, innermost first
    ret,            \* what the last one that returned returned
    odd,            \* kinds of unusual files restarted so far (history)
    aborted         \* what ended the program, or "no"

man == <<downloads, index, stopped>>
progress == <<progress_cb, progress_timer>>
vars == <<dl, downloads, index, stopped, progress_cb, progress_timer, stack,
          ret, odd, aborted>>

EndStates == {"COMPLETE", "FAILED", "CANCELLED"}
States == {"free", "NEW", "ACTIVE", "QUEUED", "PAUSED", "VERIFYING"} \cup EndStates
Freed == [state |-> "free", hash |-> Null, whole |-> FALSE]

Listed(d) == d \in ToSet(downloads)
ActiveSet == {d \in ToSet(downloads) : dl[d].state = "ACTIVE"}
active_downloads == Cardinality(ActiveSet)

(* The first link of the list, and the one behind d's. *)
FirstLink == IF downloads = <<>> THEN Null ELSE Head(downloads)
NextLink(d) ==
    LET i == CHOOSE k \in DOMAIN downloads : downloads[k] = d
    IN  IF i = Len(downloads) THEN Null ELSE downloads[i + 1]

-----------------------------------------------------------------------------
(* The stack.  A frame is a function, the download it works on, where it   *)
(* is, and its local variables.                                            *)

Frame(fn, d) == [fn |-> fn, d |-> d, pc |-> "enter", active |-> 0,
                 at |-> Null, ret |-> TRUE]
Changed(d) == Frame("state_cb", d)

Quiet == stack = <<>> /\ aborted = "no"
In(fn, pc) ==
    aborted = "no" /\ stack # <<>> /\ Head(stack).fn = fn /\ Head(stack).pc = pc
F == Head(stack)

Goto(f) == stack' = <<f>> \o Tail(stack) /\ UNCHANGED ret
Call(f, callee) == stack' = <<callee, f>> \o Tail(stack) /\ UNCHANGED ret
TailCall(callee) == stack' = <<callee>> \o Tail(stack) /\ UNCHANGED ret
Return(v) == stack' = Tail(stack) /\ ret' = v
Begin(f) == stack' = <<f>> /\ UNCHANGED ret
Then(pc) == [F EXCEPT !.pc = pc]

SetState(d, st) == dl' = [dl EXCEPT ![d].state = st]
Crash(what) == aborted' = what /\ UNCHANGED <<dl, man, progress, stack, ret, odd>>

(* Free a download and take it off the list. *)
Drop(d) ==
    /\ dl' = [dl EXCEPT ![d] = Freed]
    /\ downloads' = RemoveFirst(downloads, d)
Unindex(h) == index' = [index EXCEPT ![h] = Null]

-----------------------------------------------------------------------------
(* download_state_cb.                                                      *)

(* Mutant of OverLimit: the download itself is not counted. *)
OverLimitByOne(n) == n > MaxActive + 1 \/ stopped

(* The test that does not let a download become active; n counts it too. *)
OverLimit(n) == n > MaxActive \/ stopped

(* Count the active downloads, and queue this one if there are too many. *)
CbEnter ==
    /\ In("state_cb", "enter")
    /\ IF dl[F.d].state = "ACTIVE" /\ OverLimit(active_downloads)
       THEN TailCall(Frame("queue", F.d))
       ELSE Goto([F EXCEPT !.pc = "notify", !.active = active_downloads])
    /\ UNCHANGED <<dl, man, progress, odd, aborted>>

Scan(v) ==
    [F EXCEPT !.pc = IF stopped THEN "timer" ELSE "scan", !.ret = v]

(* The owner is told, and does nothing. *)
CbNotify ==
    /\ In("state_cb", "notify")
    /\ Goto([Scan(TRUE) EXCEPT !.at = FirstLink])
    /\ UNCHANGED <<dl, man, progress, odd, aborted>>

(* The owner is told that the download ended and removes it: the whole of *)
(* as_downman_remove inside the callback.                                 *)
CbNotifyRemoves ==
    /\ In("state_cb", "notify") /\ dl[F.d].state \in EndStates
    /\ IF index[dl[F.d].hash] # F.d THEN Crash("index")
       ELSE /\ Drop(F.d) /\ Unindex(dl[F.d].hash)
            /\ Goto([Scan(FALSE) EXCEPT !.at =
                  IF downloads' = <<>> THEN Null ELSE Head(downloads')])
            /\ UNCHANGED <<stopped, progress, odd, aborted>>

(* Mutant of CbScan: the loop ends at a download that is not queued. *)
CbScanHead ==
    /\ In("state_cb", "scan")
    /\ IF F.active < MaxActive /\ F.at # Null /\ dl[F.at].state = "QUEUED"
       THEN Call(Then("resumed"), Frame("resume", F.at))
       ELSE Goto(Then("timer"))
    /\ UNCHANGED <<dl, man, progress, odd, aborted>>

(* "If there now is a free slot activate another download". *)
CbScan ==
    /\ In("state_cb", "scan")
    /\ IF F.active < MaxActive /\ F.at # Null
       THEN IF dl[F.at].state = "QUEUED"
            THEN Call(Then("resumed"), Frame("resume", F.at))
            ELSE Goto([F EXCEPT !.at = NextLink(F.at)])
       ELSE Goto(Then("timer"))
    /\ UNCHANGED <<dl, man, progress, odd, aborted>>

(* Behind as_download_resume: the link may have been freed meanwhile. *)
CbResumed ==
    /\ In("state_cb", "resumed")
    /\ IF ~Listed(F.at) THEN Crash("freed")
       ELSE /\ Goto([F EXCEPT !.pc = "scan", !.at = NextLink(F.at),
                              !.active = IF ret THEN @ + 1 ELSE @])
            /\ UNCHANGED <<dl, man, progress, odd, aborted>>

(* Mutant of CbTimer: the timer is only ever started here. *)
CbTimerStays ==
    /\ In("state_cb", "timer")
    /\ progress_timer' = (progress_timer \/ (F.active > 0 /\ progress_cb))
    /\ Return(F.ret)
    /\ UNCHANGED <<dl, man, progress_cb, odd, aborted>>

(* Start or stop the progress timer, by the count taken at the beginning. *)
CbTimer ==
    /\ In("state_cb", "timer")
    /\ progress_timer' = (F.active > 0 /\ (progress_timer \/ progress_cb))
    /\ Return(F.ret)
    /\ UNCHANGED <<dl, man, progress_cb, odd, aborted>>

StateCb ==
    \/ CbEnter \/ CbNotify \/ CbNotifyRemoves \/ CbScan \/ CbResumed \/ CbTimer

-----------------------------------------------------------------------------
(* What the manager calls in as_download.c.                                *)

(* as_download_pause *)
Pause ==
    /\ In("pause", "enter")
    /\ IF dl[F.d].state \in {"ACTIVE", "QUEUED"}
       THEN SetState(F.d, "PAUSED") /\ TailCall(Changed(F.d))
       ELSE Return(dl[F.d].state = "PAUSED") /\ UNCHANGED dl
    /\ UNCHANGED <<man, progress, odd, aborted>>

(* as_download_queue.  If the state data cannot be saved the download is  *)
(* paused instead and FALSE returned.                                     *)
Queue ==
    /\ In("queue", "enter")
    /\ IF dl[F.d].state \notin {"ACTIVE", "PAUSED"}
       THEN Return(dl[F.d].state = "QUEUED") /\ UNCHANGED dl
       ELSE \/ SetState(F.d, "QUEUED") /\ TailCall(Changed(F.d))
            \/ Call(Then("failed"), Frame("pause", F.d)) /\ UNCHANGED dl
    /\ UNCHANGED <<man, progress, odd, aborted>>

QueueFailed ==
    /\ In("queue", "failed")
    /\ Return(FALSE)
    /\ UNCHANGED <<dl, man, progress, odd, aborted>>

(* as_download_resume *)
Resume ==
    /\ In("resume", "enter")
    /\ IF dl[F.d].state \in {"PAUSED", "QUEUED"}
       THEN SetState(F.d, "ACTIVE") /\ Call(Then("resumed"), Changed(F.d))
       ELSE Return(dl[F.d].state = "ACTIVE") /\ UNCHANGED dl
    /\ UNCHANGED <<man, progress, odd, aborted>>

(* Its end: download_maintain finishes a download that has all its data. *)
Resumed ==
    /\ In("resume", "resumed")
    /\ IF ret /\ dl[F.d].state = "ACTIVE" /\ dl[F.d].whole
       THEN Call(Then("done"), Frame("finish", F.d))
       ELSE Return(ret)
    /\ UNCHANGED <<dl, man, progress, odd, aborted>>

ResumeDone ==
    /\ In("resume", "done")
    /\ Return(TRUE)
    /\ UNCHANGED <<dl, man, progress, odd, aborted>>

(* download_finished *)
Finish ==
    /\ In("finish", "enter")
    /\ SetState(F.d, "VERIFYING") /\ Call(Then("verify"), Changed(F.d))
    /\ UNCHANGED <<man, progress, odd, aborted>>

Verify ==
    /\ In("finish", "verify")
    /\ IF ret THEN \/ SetState(F.d, "COMPLETE") /\ TailCall(Changed(F.d))
                   \/ SetState(F.d, "FAILED") /\ TailCall(Changed(F.d))
              ELSE Return(FALSE) /\ UNCHANGED dl
    /\ UNCHANGED <<man, progress, odd, aborted>>

Download ==
    \/ Pause \/ Queue \/ QueueFailed \/ Resume \/ Resumed \/ ResumeDone
    \/ Finish \/ Verify

-----------------------------------------------------------------------------
(* as_downman_start_result, and as_download_start within.                  *)

(* Mutant of StartResult: the link is not entered in the hash index. *)
StartResultUnindexed(h, d) ==
    /\ Quiet /\ index[h] = Null /\ dl[d].state = "free"
    /\ dl' = [dl EXCEPT ![d] = [state |-> "NEW", hash |-> h, whole |-> FALSE]]
    /\ downloads' = <<d>> \o downloads
    /\ Begin(Frame("start", d))
    /\ UNCHANGED <<index, stopped, progress, odd, aborted>>

(* A hash that is being downloaded already is found and nothing is done. *)
StartResult(h, d) ==
    /\ Quiet /\ index[h] = Null /\ dl[d].state = "free"
    /\ dl' = [dl EXCEPT ![d] = [state |-> "NEW", hash |-> h, whole |-> FALSE]]
    /\ downloads' = <<d>> \o downloads
    /\ index' = [index EXCEPT ![h] = d]
    /\ Begin(Frame("start", d))
    /\ UNCHANGED <<stopped, progress, odd, aborted>>

(* The incomplete file cannot be opened, or the callback is raised. *)
Start ==
    /\ In("start", "enter")
    /\ \/ SetState(F.d, "ACTIVE") /\ Call(Then("started"), Changed(F.d))
       \/ stack' = <<Then("started")>> \o Tail(stack) /\ ret' = FALSE
          /\ UNCHANGED dl
    /\ UNCHANGED <<man, progress, odd, aborted>>

(* as_download_start saves, and pauses the download if it cannot.  When   *)
(* it returned FALSE the manager frees what the callback did not.         *)
Started ==
    /\ In("start", "started")
    /\ \/ /\ ret
          /\ Return(TRUE) \/ TailCall(Frame("pause", F.d))
          /\ UNCHANGED <<dl, man>>
       \/ /\ ~ret /\ Return(FALSE) /\ UNCHANGED stopped
          /\ IF Listed(F.d) THEN Drop(F.d) /\ Unindex(dl[F.d].hash)
             ELSE UNCHANGED <<dl, downloads, index>>
    /\ UNCHANGED <<progress, odd, aborted>>

-----------------------------------------------------------------------------
(* as_downman_restart_file, and as_download_restart within.                *)

RestartFile(h, d, whole) ==
    /\ Quiet /\ dl[d].state = "free"
    /\ dl' = [dl EXCEPT ![d] = [state |-> "NEW", hash |-> h, whole |-> whole]]
    /\ downloads' = <<d>> \o downloads
    /\ odd' = odd \cup {k \in {"whole", "twin"} :
                          IF k = "whole" THEN whole ELSE index[h] # Null}
    /\ Begin(Frame("restart", d))
    /\ UNCHANGED <<index, stopped, progress, aborted>>

(* The state data cannot be loaded, or it says whether the download was   *)
(* paused, and the callback is raised.                                    *)
Restart ==
    /\ In("restart", "enter")
    /\ \/ /\ \E st \in {"ACTIVE", "PAUSED"} : SetState(F.d, st)
          /\ Call(Then("restarted"), Changed(F.d))
       \/ stack' = <<Then("restarted")>> \o Tail(stack) /\ ret' = FALSE
          /\ UNCHANGED dl
    /\ UNCHANGED <<man, progress, odd, aborted>>

(* When as_download_restart returned FALSE and the callback freed the     *)
(* download the function goes on as if it were still there.               *)
Restarted ==
    /\ In("restart", "restarted")
    /\ IF ret
       THEN /\ IF dl[F.d].state = "ACTIVE" /\ dl[F.d].whole
               THEN Call(Then("index"), Frame("finish", F.d))
               ELSE Goto(Then("index"))
            /\ UNCHANGED <<dl, man, progress, odd, aborted>>
       ELSE IF Listed(F.d)
       THEN /\ Drop(F.d) /\ Return(FALSE)
            /\ UNCHANGED <<index, stopped, progress, odd, aborted>>
       ELSE Crash("freed")

(* "Now that we have a hash check if we are already downloading it." *)
RestartIndex ==
    /\ In("restart", "index")
    /\ IF ~Listed(F.d) THEN Crash("freed")
       ELSE /\ IF index[dl[F.d].hash] # Null
               THEN Drop(F.d) /\ Return(FALSE) /\ UNCHANGED index
               ELSE /\ index' = [index EXCEPT ![dl[F.d].hash] = Head(downloads)]
                    /\ Return(TRUE) /\ UNCHANGED <<dl, downloads>>
            /\ UNCHANGED <<stopped, progress, odd, aborted>>

-----------------------------------------------------------------------------
(* as_downman_stop_all.                                                    *)

StopAll ==
    /\ Quiet /\ stopped' = TRUE
    /\ Begin([Frame("stop_all", Null) EXCEPT !.at = FirstLink])
    /\ UNCHANGED <<dl, downloads, index, progress, odd, aborted>>

StopNext ==
    /\ In("stop_all", "enter")
    /\ IF F.at = Null THEN Return(TRUE)
       ELSE Call(Then("called"), Frame("queue", F.at))
    /\ UNCHANGED <<dl, man, progress, odd, aborted>>

StopCalled ==
    /\ In("stop_all", "called")
    /\ IF ~Listed(F.at) THEN Crash("freed")
       ELSE /\ Goto([F EXCEPT !.pc = "enter", !.at = NextLink(F.at)])
            /\ UNCHANGED <<dl, man, progress, odd, aborted>>

GoOn ==
    /\ Quiet /\ stopped /\ stopped' = FALSE
    /\ Begin([Frame("go_on", Null) EXCEPT !.at = FirstLink])
    /\ UNCHANGED <<dl, downloads, index, progress, odd, aborted>>

GoOnNext ==
    /\ In("go_on", "enter")
    /\ IF F.active < MaxActive /\ F.at # Null
       THEN IF dl[F.at].state = "QUEUED"
            THEN Call(Then("called"), Frame("resume", F.at))
            ELSE Goto([F EXCEPT !.at = NextLink(F.at)])
       ELSE Return(TRUE)
    /\ UNCHANGED <<dl, man, progress, odd, aborted>>

GoOnCalled ==
    /\ In("go_on", "called")
    /\ IF ~Listed(F.at) THEN Crash("freed")
       ELSE /\ Goto([F EXCEPT !.pc = "enter", !.at = NextLink(F.at),
                              !.active = IF ret THEN @ + 1 ELSE @])
            /\ UNCHANGED <<dl, man, progress, odd, aborted>>

-----------------------------------------------------------------------------
(* Other calls of the owner, and events of the downloads.                  *)

(* as_downman_pause *)
PauseRequest(d) ==
    /\ Quiet /\ Listed(d) /\ Begin(Frame("pause", d))
    /\ UNCHANGED <<dl, man, progress, odd, aborted>>

ResumeRequest(d) ==
    /\ Quiet /\ Listed(d) /\ dl[d].state # "QUEUED"
    /\ Begin(Frame("resume", d))
    /\ UNCHANGED <<dl, man, progress, odd, aborted>>

(* as_downman_cancel *)
CancelRequest(d) ==
    /\ Quiet /\ Listed(d) /\ dl[d].state \in {"ACTIVE", "QUEUED", "PAUSED"}
    /\ SetState(d, "CANCELLED") /\ Begin(Changed(d))
    /\ UNCHANGED <<man, progress, odd, aborted>>

(* as_downman_remove *)
RemoveRequest(d) ==
    /\ Quiet /\ Listed(d) /\ dl[d].state \in EndStates \cup {"NEW"}
    /\ IF index[dl[d].hash] # d THEN Crash("index")
       ELSE /\ Drop(d) /\ Unindex(dl[d].hash)
            /\ UNCHANGED <<stopped, progress, stack, ret, odd, aborted>>

(* as_downman_set_progress_cb *)
SetProgressCb(cb) ==
    /\ Quiet /\ progress_cb' = cb
    /\ progress_timer' = (cb /\ (progress_timer \/ ActiveSet # {}))
    /\ UNCHANGED <<dl, man, stack, ret, odd, aborted>>

(* progress_timer_func and its assert ()s *)
ProgressTimer ==
    /\ Quiet /\ progress_timer
    /\ aborted' = IF progress_cb /\ ActiveSet # {} THEN "no" ELSE "progress"
    /\ UNCHANGED <<dl, man, progress, stack, ret, odd>>

(* The last data of a download arrives. *)
Whole(d) ==
    /\ Quiet /\ d \in ActiveSet /\ Begin(Frame("finish", d))
    /\ UNCHANGED <<dl, man, progress, odd, aborted>>

(* Data or state data cannot be written. *)
WriteFails(d) ==
    /\ Quiet /\ d \in ActiveSet /\ Begin(Frame("pause", d))
    /\ UNCHANGED <<dl, man, progress, odd, aborted>>

-----------------------------------------------------------------------------
(* as_downman_create *)
Init ==
    /\ dl = [d \in Downloads |-> Freed]
    /\ downloads = <<>> /\ index = [h \in Hashes |-> Null]
    /\ stopped = FALSE
    /\ progress_cb = FALSE /\ progress_timer = FALSE
    /\ stack = <<>> /\ ret = TRUE
    /\ odd = {} /\ aborted = "no"

Running ==
    \/ StateCb \/ Download
    \/ Start \/ Started \/ Restart \/ Restarted \/ RestartIndex
    \/ StopNext \/ StopCalled \/ GoOnNext \/ GoOnCalled

Event ==
    \/ \E h \in Hashes, d \in Downloads :
          \/ StartResult(h, d)
          \/ \E whole \in BOOLEAN : RestartFile(h, d, whole)
    \/ \E d \in Downloads :
          \/ PauseRequest(d) \/ ResumeRequest(d) \/ CancelRequest(d)
          \/ RemoveRequest(d) \/ Whole(d) \/ WriteFails(d)
    \/ StopAll \/ GoOn \/ ProgressTimer
    \/ \E cb \in BOOLEAN : SetProgressCb(cb)

Next == Running \/ Event

Spec == Init /\ [][Next]_vars

-----------------------------------------------------------------------------
(* Properties.                                                             *)

FrameType ==
    [fn : {"state_cb", "pause", "queue", "resume", "finish", "start", "restart",
           "stop_all", "go_on"},
     d : Downloads \cup {Null},
     pc : {"enter", "notify", "scan", "resumed", "timer", "failed", "done",
           "verify", "started", "restarted", "index", "called"},
     active : 0 .. MaxActive, at : Downloads \cup {Null},
     ret : BOOLEAN]

(* Every variable has its type; no function counts more active downloads  *)
(* than the limit, with those it has resumed itself.                      *)
TypeOK ==
    /\ dl \in [Downloads -> [state : States, hash : Hashes \cup {Null},
                             whole : BOOLEAN]]
    /\ downloads \in Seq(Downloads) /\ index \in [Hashes -> Downloads \cup {Null}]
    /\ stopped \in BOOLEAN /\ progress_cb \in BOOLEAN /\ progress_timer \in BOOLEAN
    /\ stack \in Seq(FrameType) /\ ret \in BOOLEAN
    /\ odd \subseteq {"whole", "twin"}
    /\ aborted \in {"no", "index", "freed", "progress"}

(* Between events no more than AS_DOWNLOAD_MAX_ACTIVE downloads are       *)
(* active, and none while the manager is stopped, however the callbacks   *)
(* of starting, ending and queueing downloads nest.                       *)
LimitHeld ==
    Quiet => active_downloads <= IF stopped THEN 0 ELSE MaxActive

(* Between events a download waits in the queue only while all slots are  *)
(* taken: every way in which a download stops being active activates      *)
(* another one.  (Only a second file of a hash already known is freed     *)
(* without a state change.)                                               *)
SlotsUsed ==
    Quiet /\ ~stopped /\ "twin" \notin odd
        /\ (\E d \in ToSet(downloads) : dl[d].state = "QUEUED")
            => active_downloads >= MaxActive

(* Between events list and hash index hold the same downloads, one for a  *)
(* hash; a download that was freed is in neither.                         *)
IndexConsistent ==
    /\ TypeOK
    /\ Quiet =>
          /\ \A d \in ToSet(downloads) :
                dl[d].state # "free" /\ index[dl[d].hash] = d
          /\ \A h \in Hashes : index[h] # Null => Listed(index[h])
          /\ IsInjective(downloads)

(* No assert () fails and nothing is used after it was freed, as long as  *)
(* the files restarted miss some data and have hashes of their own.  A    *)
(* complete one can be removed by the callback in the middle of the loops *)
(* that resume it and before it was indexed; a twin leaves the progress   *)
(* timer running.                                                         *)
OnlyOddFilesHurt == odd = {} => aborted = "no"
=============================================================================
