------------------------------- MODULE ArEvents -------------------------------
(***************************************************************************)
(* The threads of aresdll (aresdll.c, ar_threading.c, ar_callback.c): the  *)
(* event thread that runs the library, and the threads of the application. *)
(*                                                                         *)
(* An exported function stops the event thread with ar_events_pause, works *)
(* on the library's data and lets it go on with ar_events_resume.  Both    *)
(* send a number over a socket pair and wait for an answer; while the      *)
(* event thread is stopped it adds the numbers up (spin) in interrupt_cb.  *)
(* ar_startup begins the event thread and ar_shutdown ends it, and both    *)
(* work in such brackets in between; the event thread sends a zero when it *)
(* is ready and another one when it is done.                               *)
(* Callbacks of the library are run by the thread that created the         *)
(* callback window, through SendMessage, which blocks the thread that      *)
(* raises one until that thread handles messages and the callback returns. *)
(***************************************************************************)
EXTENDS Integers, Sequences, FiniteSets

CONSTANTS
    Users,      \* application threads
    Main,       \* the one of them that calls ar_startup and so gets the window
    Event,      \* the event thread
    Nobody,
    MaxSpin     \* bound: no thread calls ar_events_pause beyond this spin

ASSUME ArEventsAssumption ==
    /\ Main \in Users /\ IsFiniteSet(Users)
    /\ MaxSpin \in Nat \ {0}
    /\ Event \notin Users /\ Nobody \notin Users \cup {Event}

VARIABLES
    th,         \* Users -> where an exported function is
    job,        \* Users -> what its bracket is for
    ev,         \* what the event thread does
    spin,       \* the local variable of interrupt_cb
    to_event,   \* numbers on their way to event_fd
    to_outside, \* answers on their way to outside_fd
    raised,     \* threads in ar_raise_callback; their number is callback_active
    serving,    \* the one of them whose callback runs in Main
    handle,     \* ar_thread_handle is not 0
    ares,       \* the library is there: AS is not NULL
    quit,       \* as_event_quit was called
    mixed,      \* another call ran into a startup or shutdown (history)
    failed      \* the assert () that failed or the memory that was gone

vars == <<th, job, ev, spin, to_event, to_outside, raised, serving, handle,
          ares, quit, mixed, failed>>
sockets == <<spin, to_event, to_outside>>
callbacks == <<raised, serving>>
library == <<handle, ares, quit>>

ar_callback_active == raised # {}

(* A thread that is not blocked in SendMessage can go on. *)
CanRun(t) == failed = "no" /\ t \notin raised

(* Where a thread is in an exported function: the states in which it waits in
   recv, and the jobs it does between a pause and a resume. *)
Receiving == {"pausing", "resuming", "starting", "ending"}
Jobs == {"call", "init", "init failed", "cleanup", "quit"}
Inside == {v \in Users : th[v] # "out"}

Goes(u, where) == th' = [th EXCEPT ![u] = where]

-----------------------------------------------------------------------------
(* The brackets of ar_events_pause and ar_events_resume.                   *)

(* The brackets a thread may open: any exported function, ar_shutdown among   *)
(* them, or what follows in ar_startup, ar_shutdown and ar_stop_event_thread. *)
Opens(u, what) ==
    \/ th[u] = "out" /\ handle /\ what \in {"call", "cleanup"}
    \/ th[u] = "started" /\ what = "init"
    \/ th[u] = "stopping" /\ what = "quit"

(* Two threads meet, one of which starts or ends the library, or it is ended  *)
(* under a callback.                                                          *)
Meets(u, what) ==
    \/ what # "call" /\ (ar_callback_active \/ Inside \ {u} # {})
    \/ \E v \in Inside \ {u} : job[v] # "call"

(* ar_events_pause, up to recv.  It returns at once in a callback, and when   *)
(* there is no event thread, which only a new call makes anything of.         *)
PauseCall(u, what) ==
    /\ CanRun(u) /\ Opens(u, what) /\ spin < MaxSpin
    /\ job' = [job EXCEPT ![u] = what]
    /\ mixed' = (mixed \/ Meets(u, what))
    /\ IF ar_callback_active \/ ~handle
       THEN Goes(u, "in") /\ UNCHANGED to_event
       ELSE Goes(u, "pausing") /\ to_event' = Append(to_event, 1)
    /\ UNCHANGED <<ev, spin, to_outside, callbacks, library, failed>>

(* The rest: any answer will do, but it must be positive. *)
PauseReturn(u) ==
    /\ CanRun(u) /\ th[u] = "pausing" /\ to_outside # <<>>
    /\ Goes(u, "in")
    /\ to_outside' = Tail(to_outside)
    /\ failed' = IF Head(to_outside) > 0 THEN "no" ELSE "pause"
    /\ UNCHANGED <<job, ev, spin, to_event, callbacks, library, mixed>>

(* What the function does before it resumes.  as_init may fail; everything    *)
(* else needs the library.                                                    *)
Works(u, what) ==
    /\ job' = [job EXCEPT ![u] = what]
    /\ what \in IF job[u] = "init" THEN {"init", "init failed"} ELSE {job[u]}
    /\ ares' = CASE what = "init" -> TRUE
                 [] what = "cleanup" -> FALSE
                 [] OTHER -> ares
    /\ quit' = IF what = "quit" THEN ev # "none" ELSE quit
    /\ failed' = IF what \in {"call", "cleanup"} /\ ~ares THEN "null" ELSE "no"

(* Where the function goes on behind ar_events_resume. *)
Behind(what) ==
    CASE what \in {"call", "init"} -> "out"
      [] what \in {"init failed", "cleanup"} -> "stopping"
      [] what = "quit" -> "ending"

(* ar_events_resume *)
ResumeCall(u, what) ==
    /\ CanRun(u) /\ th[u] = "in"
    /\ Works(u, what)
    /\ IF ar_callback_active \/ ~handle
       THEN Goes(u, Behind(what)) /\ UNCHANGED to_event
       ELSE Goes(u, "resuming") /\ to_event' = Append(to_event, -1)
    /\ UNCHANGED <<ev, spin, to_outside, callbacks, handle, mixed>>

ResumeReturn(u) ==
    /\ CanRun(u) /\ th[u] = "resuming" /\ to_outside # <<>>
    /\ Goes(u, Behind(job[u]))
    /\ to_outside' = Tail(to_outside)
    /\ UNCHANGED <<job, ev, spin, to_event, callbacks, library, mixed, failed>>

-----------------------------------------------------------------------------
(* ar_startup and ar_shutdown around their brackets.                       *)

(* ar_start_event_thread: the handle is there before the thread is ready. *)
StartCall ==
    /\ CanRun(Main) /\ th[Main] = "out" /\ ~handle /\ ev = "none"
    /\ Goes(Main, "starting") /\ job' = [job EXCEPT ![Main] = "init"]
    /\ handle' = TRUE /\ ev' = "starting"
    /\ mixed' = (mixed \/ Inside # {})
    /\ UNCHANGED <<sockets, callbacks, ares, quit, failed>>

StartReturn ==
    /\ CanRun(Main) /\ th[Main] = "starting" /\ to_outside # <<>>
    /\ Goes(Main, "started")
    /\ to_outside' = Tail(to_outside)
    /\ failed' = IF Head(to_outside) = 0 THEN "no" ELSE "ready"
    /\ UNCHANGED <<job, ev, spin, to_event, callbacks, library, mixed>>

(* Mutant of StopReturn: the event thread is not waited for. *)
StopReturnAtOnce(u) ==
    /\ CanRun(u) /\ th[u] = "ending"
    /\ Goes(u, "out")
    /\ to_event' = <<>> /\ to_outside' = <<>> /\ handle' = FALSE
    /\ UNCHANGED <<job, ev, spin, callbacks, ares, quit, mixed, failed>>

(* The end of ar_stop_event_thread: it waits for the event thread and closes  *)
(* the sockets, on which the recv of any other thread then fails.             *)
StopReturn(u) ==
    /\ CanRun(u) /\ th[u] = "ending" /\ (handle => to_outside # <<>>)
    /\ Goes(u, "out")
    /\ failed' = CASE handle /\ Head(to_outside) # 0 -> "ready"
                   [] \E v \in Inside \ {u} : th[v] \in Receiving -> "closed"
                   [] OTHER -> "no"
    /\ to_event' = <<>> /\ to_outside' = <<>> /\ handle' = FALSE
    /\ UNCHANGED <<job, ev, spin, callbacks, ares, quit, mixed>>

-----------------------------------------------------------------------------
(* ar_raise_callback, by the event thread in a handler or by an            *)
(* application thread whose call makes the library raise one.              *)
RaiseCallback(t) ==
    /\ CanRun(t) /\ ares
    /\ IF t = Event THEN ev = "handler" ELSE th[t] = "in"
    /\ serving = Nobody \/ t # Main
    /\ raised' = raised \cup {t}
    /\ UNCHANGED <<th, job, ev, sockets, serving, library, mixed, failed>>

(* SendMessage: Main runs the callback when it handles messages, that is  *)
(* when it is in no exported function, or when it raised it itself.       *)
RunCallback(t) ==
    /\ failed = "no" /\ t \in raised /\ serving = Nobody
    /\ t = Main \/ th[Main] = "out"
    /\ serving' = t
    /\ UNCHANGED <<th, job, ev, sockets, raised, library, mixed, failed>>

EndCallback ==
    /\ failed = "no" /\ serving # Nobody
    /\ serving = Main \/ th[Main] = "out"
    /\ raised' = raised \ {serving}
    /\ serving' = Nobody
    /\ UNCHANGED <<th, job, ev, sockets, library, mixed, failed>>

-----------------------------------------------------------------------------
(* The event thread: ready, and into the loop. *)
ThreadStarts ==
    /\ CanRun(Event) /\ ev = "starting"
    /\ ev' = "loop"
    /\ to_outside' = Append(to_outside, 0)
    /\ UNCHANGED <<th, job, spin, to_event, callbacks, library, mixed, failed>>

(* as_event_init, input_add or send fails: the thread ends without a word, and
   its handle stays. *)
ThreadFails ==
    /\ CanRun(Event) /\ ev = "starting"
    /\ ev' = "dead"
    /\ UNCHANGED <<th, job, sockets, callbacks, library, mixed, failed>>

(* The event loop runs a handler of the library, which has one while it is    *)
(* there. *)
StartHandler ==
    /\ CanRun(Event) /\ ev = "loop" /\ ares
    /\ ev' = "handler"
    /\ UNCHANGED <<th, job, sockets, callbacks, library, mixed, failed>>

EndHandler ==
    /\ CanRun(Event) /\ ev = "handler"
    /\ ev' = "loop"
    /\ failed' = IF ares THEN "no" ELSE "null"
    /\ UNCHANGED <<th, job, sockets, callbacks, library, mixed>>

(* interrupt_cb is called when event_fd is readable. *)
Interrupt ==
    /\ CanRun(Event) /\ ev = "loop" /\ to_event # <<>>
    /\ ev' = "interrupt" /\ spin' = 0
    /\ UNCHANGED <<th, job, to_event, to_outside, callbacks, library, mixed, failed>>

(* Mutant of InterruptLoop: the number that ends the loop is not answered. *)
InterruptLoopSilentEnd ==
    /\ CanRun(Event) /\ ev = "interrupt" /\ to_event # <<>>
    /\ spin' = spin + Head(to_event)
    /\ to_event' = Tail(to_event)
    /\ to_outside' = IF spin' > 0 THEN Append(to_outside, spin') ELSE to_outside
    /\ ev' = IF spin' > 0 THEN "interrupt" ELSE "loop"
    /\ UNCHANGED <<th, job, callbacks, library, mixed, failed>>

(* The body of its loop: add, answer, and leave when spin is back to zero. *)
InterruptLoop ==
    /\ CanRun(Event) /\ ev = "interrupt" /\ to_event # <<>>
    /\ spin' = spin + Head(to_event)
    /\ to_event' = Tail(to_event)
    /\ to_outside' = Append(to_outside, spin')
    /\ ev' = IF spin' > 0 THEN "interrupt" ELSE "loop"
    /\ UNCHANGED <<th, job, callbacks, library, mixed, failed>>

(* Mutant of ThreadEnds: the creating thread is not told. *)
ThreadEndsSilently ==
    /\ CanRun(Event) /\ ev = "loop" /\ quit
    /\ ev' = "none" /\ quit' = FALSE
    /\ UNCHANGED <<th, job, sockets, callbacks, handle, ares, mixed, failed>>

(* The loop ends, and with it the thread. *)
ThreadEnds ==
    /\ CanRun(Event) /\ ev = "loop" /\ quit
    /\ ev' = "none" /\ quit' = FALSE
    /\ to_outside' = Append(to_outside, 0)
    /\ UNCHANGED <<th, job, spin, to_event, callbacks, handle, ares, mixed, failed>>

-----------------------------------------------------------------------------
(* The dll is loaded. *)
Init ==
    /\ th = [u \in Users |-> "out"] /\ job = [u \in Users |-> "call"]
    /\ ev = "none" /\ spin = 0
    /\ to_event = <<>> /\ to_outside = <<>>
    /\ raised = {} /\ serving = Nobody
    /\ handle = FALSE /\ ares = FALSE /\ quit = FALSE
    /\ mixed = FALSE /\ failed = "no"

User(u) ==
    \/ \E what \in Jobs : PauseCall(u, what) \/ ResumeCall(u, what)
    \/ PauseReturn(u) \/ ResumeReturn(u) \/ StopReturn(u)

EventThread ==
    \/ ThreadStarts \/ ThreadFails \/ StartHandler \/ EndHandler \/ Interrupt
    \/ InterruptLoop \/ ThreadEnds

Next ==
    \/ \E u \in Users : User(u)
    \/ StartCall \/ StartReturn
    \/ \E t \in Users \cup {Event} : RaiseCallback(t) \/ RunCallback(t)
    \/ EndCallback
    \/ EventThread

Spec == Init /\ [][Next]_vars

(* A thread in an exported function goes on. *)
Continues(u) ==
    \/ PauseReturn(u) \/ ResumeReturn(u) \/ StopReturn(u)
    \/ \E what \in Jobs : ResumeCall(u, what)
    \/ u = Main /\ StartReturn

(* Threads that can run do, and those that wait in recv on one socket are *)
(* served in order, as messages to the window are.  Callbacks and         *)
(* handlers return, after finitely many calls and callbacks of their own, *)
(* and the event loop gets to every readable socket and to the timer that *)
(* ends it.                                                               *)
Fairness ==
    /\ \A u \in Users : SF_vars(Continues(u))
    /\ \A t \in Users \cup {Event} : SF_vars(RunCallback(t))
    /\ SF_vars(EndCallback) /\ SF_vars(EndHandler)
    /\ SF_vars(Interrupt) /\ SF_vars(ThreadEnds)
    /\ WF_vars(ThreadStarts \/ ThreadFails) /\ WF_vars(InterruptLoop)

FairSpec == Spec /\ Fairness

-----------------------------------------------------------------------------
(* Properties.                                                             *)

Waiting == {u \in Users : th[u] \in Receiving}

(* Every variable has its type, and a callback that runs in Main was      *)
(* raised by a thread that still waits for it.                            *)
TypeOK ==
    /\ th \in [Users -> {"out", "in", "started", "stopping"} \cup Receiving]
    /\ job \in [Users -> Jobs]
    /\ ev \in {"none", "starting", "dead", "loop", "handler", "interrupt"}
    /\ spin \in Int
    /\ to_event \in Seq({-1, 1})
    /\ to_outside \in Seq(Int)
    /\ raised \subseteq Users \cup {Event}
    /\ serving \in raised \cup {Nobody}
    /\ handle \in BOOLEAN /\ ares \in BOOLEAN /\ quit \in BOOLEAN
    /\ mixed \in BOOLEAN
    /\ failed \in {"no", "pause", "ready", "closed", "null"}

(* An event thread that failed never sends the zero its creator waits for. *)
NeverReady == ev = "dead"

(* Numbers the event thread sends without being asked, or should have sent, *)
(* and threads that will wait for one without asking.                       *)
Unasked == (IF ev = "starting" \/ NeverReady THEN 1 ELSE 0) + (IF quit THEN 1 ELSE 0)
WillWait == {u \in Users : th[u] = "resuming" /\ job[u] = "quit"}

(* The protocol on the socket pair: for every thread that waits in recv   *)
(* there is one number under way, as a request, as an answer or as the    *)
(* zero that a starting or ending event thread sends, whatever mixture of *)
(* pauses, resumes and callbacks led here.  So no thread is left without  *)
(* an answer and none finds a stale one, but for the creator of an event  *)
(* thread that failed.  (Calls that run into a startup or shutdown break  *)
(* it.)                                                                   *)
OneAnswerEach ==
    /\ TypeOK
    /\ ~mixed /\ failed = "no" =>
          Len(to_event) + Len(to_outside) + Unasked
              = Cardinality(Waiting) + Cardinality(WillWait)

(* A startup or shutdown that no other call and no callback runs into gets *)
(* its zero and not another number, never pulls the library or a socket    *)
(* away from under a thread, and leaves nothing behind: without a handle   *)
(* there is no event thread, nobody in an exported function that waits,    *)
(* and no number that the next startup would read.                         *)
ShutdownClean ==
    ~mixed =>
        /\ failed \in {"no", "pause"}
        /\ ~handle => /\ ev = "none" /\ ~ares /\ ~quit /\ Inside = {}
                      /\ to_event = <<>> /\ to_outside = <<>>

(* aresdll.h:15: all functions can be called at any time, so a call that  *)
(* has to stop the event thread gets there.                               *)
PauseReturns == \A u \in Users : th[u] = "pausing" ~> (th[u] = "in" \/ failed # "no")

(* The event thread waits for Main to run a callback, and Main waits for  *)
(* the event thread.                                                      *)
Deadlocked == Event \in raised /\ th[Main] \in Receiving

(* The event thread is stopped and no thread will let it go on. *)
Abandoned ==
    /\ ev = "interrupt" /\ to_event = <<>>
    /\ \A u \in Users : th[u] \notin {"pausing", "in", "resuming"}

(* Only these two, an event thread that failed before it was ready, or a  *)
(* startup or shutdown that runs into another call, keep a thread waiting *)
(* for ever in an exported function.                                      *)
WaitsEnd ==
    \A u \in Users :
        []<>(\/ th[u] \notin Receiving \/ Deadlocked \/ Abandoned
             \/ NeverReady \/ mixed \/ failed # "no")
=============================================================================
