--------------------------- MODULE ArEvents_proofs ---------------------------
(***************************************************************************)
(* Proofs about ArEvents, for any finite set of application threads: the   *)
(* balance of requests and answers on the socket pair, and what a shutdown *)
(* leaves behind.                                                          *)
(*                                                                         *)
(* As long as nothing runs into a startup or shutdown, the thread that     *)
(* does one is alone, and Phase lists how far it and the event thread can  *)
(* be; otherwise the library is there and requests and answers balance.    *)
(***************************************************************************)
EXTENDS ArEvents, FiniteSetTheorems, TLAPS

-----------------------------------------------------------------------------
(* The inductive invariant. *)

(* The one number of a sequence. *)
Only(s, x) == Len(s) = 1 /\ s[1] = x

(* The event thread is in its loop, or was stopped and not yet resumed. *)
Free ==
    \/ ev = "loop"
    \/ ev = "handler" /\ ares
    \/ ev = "interrupt" /\ spin > 0

(* A thread that waits for the event thread to get ready, and then opens a   *)
(* bracket.                                                                   *)
Start(u) ==
    /\ job[u] = "init" /\ ~ares /\ ~quit /\ Len(to_event) = 0
    /\ \/ th[u] = "starting" /\ ev \in {"starting", "dead"} /\ Len(to_outside) = 0
       \/ th[u] = "starting" /\ ev = "loop" /\ Only(to_outside, 0)
       \/ th[u] = "started" /\ ev = "loop" /\ Len(to_outside) = 0

(* It opens one to begin the library, to end it, or to end the event thread. *)
Pause(u) ==
    /\ job[u] \in {"init", "cleanup", "quit"} /\ (ares <=> job[u] = "cleanup")
    /\ ~quit
    /\ \/ /\ th[u] = "pausing" /\ Only(to_event, 1) /\ Len(to_outside) = 0
          /\ Free \/ (ev = "interrupt" /\ spin = 0)
       \/ /\ th[u] = "pausing" /\ Len(to_event) = 0
          /\ Len(to_outside) = 1 /\ to_outside[1] > 0
          /\ ev = "interrupt" /\ spin > 0
       \/ /\ th[u] = "in" /\ Len(to_event) = 0 /\ Len(to_outside) = 0
          /\ ev = "interrupt" /\ spin > 0

(* It closes the bracket; behind the last one the event thread ends. *)
Resume(u) ==
    /\ job[u] \in {"init", "init failed", "cleanup", "quit"}
    /\ ares <=> job[u] = "init"
    /\ th[u] = "resuming"
    /\ \/ /\ Only(to_event, -1) /\ Len(to_outside) = 0
          /\ ev = "interrupt" /\ spin > 0 /\ (quit <=> job[u] = "quit")
       \/ /\ Len(to_event) = 0 /\ Len(to_outside) = 1
          /\ Free /\ (quit <=> job[u] = "quit")
       \/ /\ Len(to_event) = 0 /\ Len(to_outside) = 2 /\ to_outside[2] = 0
          /\ job[u] = "quit" /\ ~quit /\ ev = "none"

(* It goes on to end the event thread, and waits for that. *)
Stop(u) ==
    /\ ~ares /\ Len(to_event) = 0
    /\ \/ /\ th[u] = "stopping" /\ job[u] \in {"init failed", "cleanup"}
          /\ Len(to_outside) = 0 /\ Free /\ ~quit
       \/ /\ th[u] = "ending" /\ job[u] = "quit"
          /\ Len(to_outside) = 0 /\ Free /\ quit
       \/ /\ th[u] = "ending" /\ job[u] = "quit"
          /\ Only(to_outside, 0) /\ ev = "none" /\ ~quit

Phase(u) == Start(u) \/ Pause(u) \/ Resume(u) \/ Stop(u)

(* The thread that starts or ends the library. *)
Special(u) == u \in Inside /\ job[u] # "call"

(* No event thread: nothing is left of it. *)
Quiet ==
    /\ ~handle /\ ev = "none" /\ ~ares /\ ~quit /\ Inside = {}
    /\ Len(to_event) = 0 /\ Len(to_outside) = 0

(* A thread is alone with the event thread. *)
Alone(u) == handle /\ Inside = {u} /\ job[u] # "call" /\ Phase(u)

(* The library is there. *)
Usual ==
    /\ handle /\ ares /\ ~quit
    /\ ev \in {"loop", "handler", "interrupt"} /\ (ev = "interrupt" => spin >= 0)
    /\ ev = "interrupt" /\ spin = 0 => Len(to_event) > 0
    /\ \A u \in Inside : job[u] = "call" /\ th[u] \in {"pausing", "in", "resuming"}
    /\ Len(to_event) + Len(to_outside) = Cardinality(Waiting)

(* A thread in ar_raise_callback is in a handler or between a pause and a    *)
(* resume.                                                                    *)
RaisedWhere ==
    \A t \in raised : IF t = Event THEN ev = "handler" ELSE th[t] = "in"

Orderly ==
    /\ failed \in {"no", "pause"}
    /\ Quiet \/ Usual \/ \E u \in Users : Alone(u)

IndInv == TypeOK /\ RaisedWhere /\ (~mixed => Orderly)

-----------------------------------------------------------------------------
(* Sequences and sets. *)

(* What sending a number to the event thread, and receiving it there, does. *)
LEMMA Requests ==
    ASSUME TypeOK
    PROVE  /\ Len(to_event) \in Nat
           /\ \A e \in {-1, 1} :
                 LET s == Append(to_event, e) IN
                 /\ s \in Seq({-1, 1}) /\ Len(s) = Len(to_event) + 1
                 /\ s[Len(to_event) + 1] = e
           /\ to_event # <<>> =>
                 /\ Len(to_event) > 0 /\ Len(Tail(to_event)) = Len(to_event) - 1
                 /\ Tail(to_event) \in Seq({-1, 1})
                 /\ Head(to_event) = to_event[1] /\ Head(to_event) \in {-1, 1}
           /\ Len(to_event) = 0 <=> to_event = <<>>
<1>1. to_event \in Seq({-1, 1})
  BY DEF TypeOK
<1> QED BY <1>1

(* The same for the other direction. *)
LEMMA Answers ==
    ASSUME TypeOK
    PROVE  /\ Len(to_outside) \in Nat
           /\ \A e \in Int :
                 LET s == Append(to_outside, e) IN
                 /\ s \in Seq(Int) /\ Len(s) = Len(to_outside) + 1
                 /\ s[Len(to_outside) + 1] = e
                 /\ \A i \in 1 .. Len(to_outside) : s[i] = to_outside[i]
           /\ to_outside # <<>> =>
                 /\ Len(to_outside) > 0
                 /\ Len(Tail(to_outside)) = Len(to_outside) - 1
                 /\ Tail(to_outside) \in Seq(Int)
                 /\ Head(to_outside) = to_outside[1] /\ Head(to_outside) \in Int
                 /\ \A i \in 1 .. Len(to_outside) - 1 :
                       Tail(to_outside)[i] = to_outside[i + 1]
           /\ Len(to_outside) = 0 <=> to_outside = <<>>
<1>1. to_outside \in Seq(Int)
  BY DEF TypeOK
<1> QED BY <1>1

(* How a step of one thread changes the number of those that wait. *)
LEMMA WaitingFacts ==
    ASSUME TypeOK, NEW u \in Users, NEW w, Goes(u, w)
    PROVE  /\ Cardinality(Waiting) \in Nat
           /\ w \in Receiving /\ th[u] \notin Receiving =>
                 Cardinality(Waiting') = Cardinality(Waiting) + 1
           /\ w \notin Receiving /\ th[u] \in Receiving =>
                 Cardinality(Waiting') = Cardinality(Waiting) - 1
           /\ (w \in Receiving <=> th[u] \in Receiving) =>
                 Cardinality(Waiting') = Cardinality(Waiting)
<1>1. IsFiniteSet(Waiting)
  <2>1. Waiting \subseteq Users
    BY DEF Waiting
  <2> QED BY <2>1, ArEventsAssumption, FS_Subset DEF ArEventsAssumption
<1>2. \A v \in Users : th'[v] = IF v = u THEN w ELSE th[v]
  BY DEF TypeOK, Goes
<1>3. CASE w \in Receiving /\ th[u] \notin Receiving
  <2>1. Waiting' = Waiting \cup {u} /\ u \notin Waiting
    BY <1>2, <1>3 DEF Waiting, Receiving
  <2> QED BY <1>1, <1>3, <2>1, FS_AddElement, FS_CardinalityType
<1>4. CASE w \notin Receiving /\ th[u] \in Receiving
  <2>1. Waiting' = Waiting \ {u} /\ u \in Waiting
    BY <1>2, <1>4 DEF Waiting, Receiving
  <2> QED BY <1>1, <1>4, <2>1, FS_RemoveElement, FS_CardinalityType
<1>5. CASE w \in Receiving <=> th[u] \in Receiving
  <2>1. Waiting' = Waiting
    BY <1>2, <1>5 DEF Waiting, Receiving
  <2> QED BY <1>1, <1>5, <2>1, FS_CardinalityType
<1> QED BY <1>3, <1>4, <1>5

(* Nobody waits when nobody is in an exported function. *)
LEMMA NobodyWaits ==
    ASSUME Inside = {}
    PROVE  Cardinality(Waiting) = 0
<1>1. Waiting = {}
  BY DEF Waiting, Inside, Receiving
<1> QED BY <1>1, FS_EmptySet
-----------------------------------------------------------------------------
(* Types, and where threads are that have raised a callback. *)

(* Every step keeps the types. *)
LEMMA TypeStep ==
    ASSUME TypeOK, Next
    PROVE  TypeOK'
<1> USE ArEventsAssumption DEF ArEventsAssumption, TypeOK, Goes
<1>1. ASSUME NEW u \in Users, NEW what \in Jobs, PauseCall(u, what) PROVE TypeOK'
  <2>1. to_event' \in Seq({-1, 1})
    BY <1>1, Requests DEF PauseCall
  <2>2. th' \in [Users -> {"out", "in", "started", "stopping"} \cup Receiving]
    BY <1>1 DEF PauseCall, Receiving
  <2> QED BY <1>1, <2>1, <2>2 DEF PauseCall, callbacks, library, Jobs, Meets
<1>2. ASSUME NEW u \in Users, PauseReturn(u) PROVE TypeOK'
  <2>1. to_outside' \in Seq(Int)
    BY <1>2, Answers DEF PauseReturn
  <2>2. th' \in [Users -> {"out", "in", "started", "stopping"} \cup Receiving]
    BY <1>2 DEF PauseReturn
  <2> QED BY <1>2, <2>1, <2>2 DEF PauseReturn, callbacks, library
<1>3. ASSUME NEW u \in Users, NEW what \in Jobs, ResumeCall(u, what) PROVE TypeOK'
  <2>1. to_event' \in Seq({-1, 1})
    BY <1>3, Requests DEF ResumeCall
  <2>2. th' \in [Users -> {"out", "in", "started", "stopping"} \cup Receiving]
    BY <1>3 DEF ResumeCall, Receiving, Behind, Jobs
  <2>3. /\ job' \in [Users -> Jobs] /\ ares' \in BOOLEAN /\ quit' \in BOOLEAN
        /\ failed' \in {"no", "null"}
    BY <1>3 DEF ResumeCall, Works
  <2> QED BY <1>3, <2>1, <2>2, <2>3 DEF ResumeCall, callbacks
<1>4. ASSUME NEW u \in Users, ResumeReturn(u) PROVE TypeOK'
  <2>1. to_outside' \in Seq(Int)
    BY <1>4, Answers DEF ResumeReturn
  <2>2. th' \in [Users -> {"out", "in", "started", "stopping"} \cup Receiving]
    BY <1>4 DEF ResumeReturn, Receiving, Behind, Jobs
  <2> QED BY <1>4, <2>1, <2>2 DEF ResumeReturn, callbacks, library
<1>5. CASE StartCall
  BY <1>5 DEF StartCall, sockets, callbacks, Jobs, Receiving
<1>6. CASE StartReturn
  <2>1. to_outside' \in Seq(Int)
    BY <1>6, Answers DEF StartReturn
  <2> QED BY <1>6, <2>1 DEF StartReturn, callbacks, library
<1>7. ASSUME NEW u \in Users, StopReturn(u) PROVE TypeOK'
  <2>1. <<>> \in Seq({-1, 1}) /\ <<>> \in Seq(Int)
    OBVIOUS
  <2> QED BY <1>7, <2>1 DEF StopReturn, callbacks
<1>8. ASSUME NEW t \in Users \cup {Event}, RaiseCallback(t) \/ RunCallback(t)
      PROVE  TypeOK'
  BY <1>8 DEF RaiseCallback, RunCallback, sockets, callbacks, library
<1>9. CASE EndCallback
  BY <1>9 DEF EndCallback, sockets, library
<1>10. CASE ThreadStarts \/ InterruptLoop \/ ThreadEnds
  <2>1. to_outside' \in Seq(Int) /\ to_event' \in Seq({-1, 1}) /\ spin' \in Int
    <3>1. CASE ThreadStarts \/ ThreadEnds
      <4>1. to_outside' = Append(to_outside, 0)
            /\ to_event' = to_event /\ spin' = spin
        BY <3>1 DEF ThreadStarts, ThreadEnds
      <4> QED BY <4>1, Answers
    <3>2. CASE InterruptLoop
      <4>1. to_event' \in Seq({-1, 1}) /\ Head(to_event) \in {-1, 1}
        BY <3>2, Requests DEF InterruptLoop
      <4>2. spin' \in Int
        BY <3>2, <4>1 DEF InterruptLoop
      <4> QED BY <3>2, <4>1, <4>2, Answers DEF InterruptLoop
    <3> QED BY <1>10, <3>1, <3>2
  <2> QED BY <1>10, <2>1 DEF ThreadStarts, InterruptLoop, ThreadEnds, callbacks, library
<1>11. CASE ThreadFails \/ StartHandler \/ EndHandler \/ Interrupt
  BY <1>11 DEF ThreadFails, StartHandler, EndHandler, Interrupt, sockets, callbacks, library
<1> QED BY <1>1, <1>2, <1>3, <1>4, <1>5, <1>6, <1>7, <1>8, <1>9, <1>10, <1>11
        DEF Next, User, EventThread

(* A thread that raised a callback stays where it is until it has returned. *)
LEMMA RaisedStep ==
    ASSUME TypeOK, RaisedWhere, Next
    PROVE  RaisedWhere'
<1> USE ArEventsAssumption DEF ArEventsAssumption, TypeOK, RaisedWhere, CanRun, Goes
<1>1. ASSUME NEW u \in Users, u \notin raised, NEW w, Goes(u, w),
             raised' = raised, ev' = ev
      PROVE  RaisedWhere'
  BY <1>1
<1>2. ASSUME Event \notin raised, raised' = raised, th' = th
      PROVE  RaisedWhere'
  BY <1>2
<1>3. ASSUME NEW u \in Users,
             \/ \E what \in Jobs : PauseCall(u, what) \/ ResumeCall(u, what)
             \/ PauseReturn(u) \/ ResumeReturn(u) \/ StopReturn(u)
      PROVE  RaisedWhere'
  BY <1>3, <1>1 DEF PauseCall, PauseReturn, ResumeCall, ResumeReturn, StopReturn, callbacks
<1>4. CASE StartReturn
  BY <1>4, <1>1 DEF StartReturn, callbacks
<1>5. CASE StartCall
  BY <1>5 DEF StartCall, callbacks
<1>6. ASSUME NEW t \in Users \cup {Event}, RaiseCallback(t) \/ RunCallback(t)
      PROVE  RaisedWhere'
  BY <1>6 DEF RaiseCallback, RunCallback
<1>7. CASE EndCallback
  BY <1>7 DEF EndCallback
<1>8. CASE EventThread
  BY <1>8, <1>2 DEF EventThread, ThreadStarts, ThreadFails, StartHandler, EndHandler, Interrupt,
                    InterruptLoop, ThreadEnds, callbacks
<1> QED BY <1>3, <1>4, <1>5, <1>6, <1>7, <1>8 DEF Next, User
-----------------------------------------------------------------------------
(* The phases. *)

(* Where threads are after one of them went on. *)
LEMMA GoesFacts ==
    ASSUME TypeOK, NEW u \in Users, NEW w, Goes(u, w)
    PROVE  /\ \A v \in Users : th'[v] = IF v = u THEN w ELSE th[v]
           /\ w # "out" => Inside' = Inside \cup {u}
           /\ w = "out" => Inside' = Inside \ {u}
BY DEF TypeOK, Goes, Inside

(* What the thread that is alone does next, another one does not. *)
LEMMA OnlyOne ==
    ASSUME NEW u \in Users, NEW v \in Users, th[u] # "out", Alone(v)
    PROVE  u = v
BY DEF Alone, Inside

(* While a thread starts or ends the library in a bracket, no callback is    *)
(* active: the event thread is stopped, and there is no other thread.        *)
LEMMA NoCallback ==
    ASSUME RaisedWhere, TypeOK, NEW u \in Users, Alone(u), th[u] = "in", CanRun(u)
    PROVE  raised = {}
<1>1. ev = "interrupt"
  BY DEF Alone, Phase, Start, Pause, Resume, Stop
<1>2. \A t \in raised : t \in Inside
  BY <1>1 DEF RaisedWhere, TypeOK, Inside
<1> QED BY <1>2 DEF Alone, CanRun

(* ar_events_pause begins: a call on an orderly library, or a bracket of its *)
(* start or end. *)
LEMMA PauseCallOK ==
    ASSUME IndInv, NEW u \in Users, NEW what \in Jobs, PauseCall(u, what), ~mixed'
    PROVE  Orderly'
<1> USE DEF IndInv
<1>1. /\ ~mixed /\ ~Meets(u, what) /\ Orderly /\ failed' = failed
      /\ ev' = ev /\ spin' = spin /\ to_outside' = to_outside /\ raised' = raised
      /\ handle' = handle /\ ares' = ares /\ quit' = quit
      /\ job' = [job EXCEPT ![u] = what] /\ Opens(u, what) /\ CanRun(u)
  BY DEF PauseCall, callbacks, library
<1>2. \A v \in Users : job'[v] = IF v = u THEN what ELSE job[v]
  BY <1>1 DEF TypeOK
<1>3. CASE th[u] = "out"
  <2>1. handle /\ what \in {"call", "cleanup"}
    BY <1>1, <1>3 DEF Opens
  <2>2. \A v \in Users : ~Alone(v)
    <3> SUFFICES ASSUME NEW v \in Users, Alone(v) PROVE FALSE
      OBVIOUS
    <3>1. v \in Inside \ {u} /\ job[v] # "call"
      BY <1>3 DEF Alone, Inside
    <3> QED BY <3>1, <1>1 DEF Meets
  <2>3. Usual
    BY <1>1, <2>1, <2>2 DEF Orderly, Quiet
  <2>4. CASE what = "call"
    <3>1. CASE ar_callback_active
      <4>1. Goes(u, "in") /\ to_event' = to_event
        BY <3>1 DEF PauseCall
      <4>2. Cardinality(Waiting') = Cardinality(Waiting)
        BY <1>3, <4>1, WaitingFacts DEF Receiving
      <4>3. Usual'
        BY <1>1, <1>2, <2>3, <2>4, <4>1, <4>2, GoesFacts DEF Usual, Inside
      <4> QED BY <1>1, <4>3 DEF Orderly
    <3>2. CASE ~ar_callback_active
      <4>1. Goes(u, "pausing") /\ to_event' = Append(to_event, 1)
        BY <2>1, <3>2 DEF PauseCall
      <4>2. Cardinality(Waiting') = Cardinality(Waiting) + 1
            /\ Cardinality(Waiting) \in Nat
        BY <1>3, <4>1, WaitingFacts DEF Receiving
      <4>3. Len(to_event') = Len(to_event) + 1
            /\ Len(to_event) \in Nat /\ Len(to_outside) \in Nat
        BY <4>1, Requests, Answers
      <4>4. Usual'
        BY <1>1, <1>2, <2>3, <2>4, <4>1, <4>2, <4>3, GoesFacts DEF Usual, Inside
      <4> QED BY <1>1, <4>4 DEF Orderly
    <3> QED BY <3>1, <3>2
  <2>5. CASE what = "cleanup"
    <3>1. Inside = {} /\ ~ar_callback_active
      BY <1>1, <1>3, <2>5 DEF Meets, Inside
    <3>2. Len(to_event) = 0 /\ Len(to_outside) = 0
      BY <3>1, <2>3, NobodyWaits, Requests, Answers DEF Usual
    <3>3. Goes(u, "pausing") /\ to_event' = Append(to_event, 1)
      BY <2>1, <3>1 DEF PauseCall
    <3>4. th'[u] = "pausing" /\ Inside' = {u} /\ job'[u] = "cleanup"
      BY <3>1, <3>3, <1>2, <2>5, GoesFacts
    <3>5. Only(to_event', 1)
      BY <3>2, <3>3, Requests DEF Only
    <3>6. Free' \/ (ev' = "interrupt" /\ spin' = 0)
      BY <1>1, <2>3, <3>2 DEF Usual, Free, TypeOK
    <3>7. Pause(u)'
      BY <1>1, <2>3, <3>2, <3>4, <3>5, <3>6 DEF Pause, Usual
    <3> QED BY <1>1, <2>1, <3>4, <3>7 DEF Orderly, Alone, Phase
  <2> QED BY <2>1, <2>4, <2>5
<1>4. CASE th[u] # "out"
  <2>1. \/ th[u] = "started" /\ what = "init"
        \/ th[u] = "stopping" /\ what = "quit"
    BY <1>1, <1>4 DEF Opens
  <2>2. Alone(u)
    <3>1. ~Quiet /\ ~Usual
      BY <1>4, <2>1 DEF Quiet, Usual, Inside
    <3> QED BY <1>1, <1>4, <3>1, OnlyOne DEF Orderly
  <2>3. /\ Len(to_event) = 0 /\ Len(to_outside) = 0 /\ Free /\ ~ares /\ ~quit
        /\ handle /\ Inside = {u}
    BY <2>1, <2>2 DEF Alone, Phase, Start, Pause, Resume, Stop, Free
  <2>4. ~ar_callback_active
    BY <1>1, <2>1 DEF Meets
  <2>5. Goes(u, "pausing") /\ to_event' = Append(to_event, 1)
    BY <2>3, <2>4 DEF PauseCall
  <2>6. th'[u] = "pausing" /\ Inside' = {u} /\ job'[u] = what
    BY <2>3, <2>5, <1>2, GoesFacts
  <2>7. Only(to_event', 1)
    BY <2>3, <2>5, Requests DEF Only
  <2>8. Pause(u)'
    BY <1>1, <2>1, <2>3, <2>6, <2>7 DEF Pause, Free
  <2> QED BY <1>1, <2>1, <2>3, <2>6, <2>8 DEF Orderly, Alone, Phase
<1> QED BY <1>3, <1>4

(* ar_events_pause returns with an answer. *)
LEMMA PauseReturnOK ==
    ASSUME IndInv, NEW u \in Users, PauseReturn(u), ~mixed'
    PROVE  Orderly'
<1> USE DEF IndInv
<1>1. /\ ~mixed /\ Orderly /\ Goes(u, "in") /\ to_outside' = Tail(to_outside)
      /\ ev' = ev /\ spin' = spin /\ to_event' = to_event /\ job' = job
      /\ handle' = handle /\ ares' = ares /\ quit' = quit
      /\ th[u] = "pausing" /\ to_outside # <<>> /\ failed' \in {"no", "pause"}
  BY DEF PauseReturn, callbacks, library
<1>2. Len(to_outside') = Len(to_outside) - 1 /\ Len(to_outside) \in Nat
      /\ Len(to_outside) > 0 /\ Len(to_event) \in Nat
  BY <1>1, Answers, Requests
<1>3. th'[u] = "in" /\ Inside' = Inside
  BY <1>1, GoesFacts DEF Inside
<1>4. CASE Usual
  <2>1. Cardinality(Waiting') = Cardinality(Waiting) - 1
        /\ Cardinality(Waiting) \in Nat
    BY <1>1, WaitingFacts DEF Receiving
  <2>2. Usual'
    BY <1>1, <1>2, <1>3, <1>4, <2>1, GoesFacts DEF Usual, Inside
  <2> QED BY <1>1, <2>2 DEF Orderly
<1>5. CASE Alone(u)
  <2>1. /\ job[u] \in {"init", "cleanup", "quit"} /\ (ares <=> job[u] = "cleanup")
        /\ ~quit /\ Len(to_event) = 0 /\ Len(to_outside) = 1
        /\ ev = "interrupt" /\ spin > 0
    BY <1>1, <1>2, <1>5 DEF Alone, Phase, Start, Pause, Resume, Stop
  <2>2. Pause(u)'
    BY <1>1, <1>2, <1>3, <2>1 DEF Pause
  <2> QED BY <1>1, <1>3, <1>5, <2>2 DEF Orderly, Alone, Phase
<1> QED BY <1>1, <1>4, <1>5, OnlyOne DEF Orderly, Quiet, Inside

(* ar_events_resume begins. *)
LEMMA ResumeCallOK ==
    ASSUME IndInv, NEW u \in Users, NEW what \in Jobs, ResumeCall(u, what), ~mixed'
    PROVE  Orderly'
<1> USE DEF IndInv
<1>1. /\ ~mixed /\ Orderly /\ CanRun(u) /\ th[u] = "in" /\ Works(u, what)
      /\ ev' = ev /\ spin' = spin /\ to_outside' = to_outside /\ handle' = handle
  BY DEF ResumeCall, callbacks
<1>2. job'[u] = what /\ \A v \in Users : v # u => job'[v] = job[v]
  BY <1>1 DEF TypeOK, Works
<1>3. CASE Usual
  <2>1. what = "call" /\ handle /\ job[u] = "call"
    BY <1>1, <1>3 DEF Usual, Inside, Works
  <2>2. ares' = ares /\ quit' = quit /\ failed' = "no"
    BY <1>1, <1>3, <2>1 DEF Works, Usual
  <2>3. CASE ar_callback_active
    <3>1. Goes(u, "out") /\ to_event' = to_event
      BY <2>1, <2>3 DEF ResumeCall, Behind
    <3>2. Cardinality(Waiting') = Cardinality(Waiting)
      BY <1>1, <3>1, WaitingFacts DEF Receiving
    <3>3. Usual'
      BY <1>1, <1>2, <1>3, <2>1, <2>2, <3>1, <3>2, GoesFacts DEF Usual, Inside
    <3> QED BY <2>2, <3>3 DEF Orderly
  <2>4. CASE ~ar_callback_active
    <3>1. Goes(u, "resuming") /\ to_event' = Append(to_event, -1)
      BY <2>1, <2>4 DEF ResumeCall
    <3>2. Cardinality(Waiting') = Cardinality(Waiting) + 1
          /\ Cardinality(Waiting) \in Nat
      BY <1>1, <3>1, WaitingFacts DEF Receiving
    <3>3. Len(to_event') = Len(to_event) + 1
          /\ Len(to_event) \in Nat /\ Len(to_outside) \in Nat
      BY <3>1, Requests, Answers
    <3>4. Usual'
      BY <1>1, <1>2, <1>3, <2>1, <2>2, <3>1, <3>2, <3>3, GoesFacts DEF Usual, Inside
    <3> QED BY <2>2, <3>4 DEF Orderly
  <2> QED BY <2>3, <2>4
<1>4. CASE Alone(u)
  <2>1. /\ job[u] \in {"init", "cleanup", "quit"} /\ (ares <=> job[u] = "cleanup")
        /\ ~quit /\ Len(to_event) = 0 /\ Len(to_outside) = 0
        /\ ev = "interrupt" /\ spin > 0 /\ handle /\ Inside = {u}
    BY <1>1, <1>4 DEF Alone, Phase, Start, Pause, Resume, Stop
  <2>2. /\ what \in {"init", "init failed", "cleanup", "quit"}
        /\ ares' <=> what = "init"
        /\ quit' <=> what = "quit"
        /\ failed' = "no"
    BY <1>1, <2>1 DEF Works
  <2>3. Goes(u, "resuming") /\ to_event' = Append(to_event, -1)
    BY <1>1, <1>4, <2>1, NoCallback DEF ResumeCall, ar_callback_active
  <2>4. th'[u] = "resuming" /\ Inside' = {u}
    BY <2>1, <2>3, GoesFacts
  <2>5. Only(to_event', -1)
    BY <2>1, <2>3, Requests DEF Only
  <2>6. Resume(u)'
    BY <1>1, <1>2, <2>1, <2>2, <2>4, <2>5 DEF Resume
  <2> QED BY <1>1, <1>2, <2>1, <2>2, <2>4, <2>6 DEF Orderly, Alone, Phase
<1> QED BY <1>1, <1>3, <1>4, OnlyOne DEF Orderly, Quiet, Inside

(* ar_events_resume returns, and a start is done or an end goes on. *)
LEMMA ResumeReturnOK ==
    ASSUME IndInv, NEW u \in Users, ResumeReturn(u), ~mixed'
    PROVE  Orderly'
<1> USE DEF IndInv
<1>1. /\ ~mixed /\ Orderly /\ Goes(u, Behind(job[u]))
      /\ to_outside' = Tail(to_outside)
      /\ ev' = ev /\ spin' = spin /\ to_event' = to_event /\ job' = job
      /\ handle' = handle /\ ares' = ares /\ quit' = quit /\ failed' = failed
      /\ th[u] = "resuming" /\ to_outside # <<>>
  BY DEF ResumeReturn, callbacks, library
<1>2. Len(to_outside') = Len(to_outside) - 1 /\ Len(to_outside) \in Nat
      /\ Len(to_outside) # 0 /\ Len(to_outside) > 0 /\ Len(to_event) \in Nat
  BY <1>1, Answers, Requests
<1>3. Len(to_outside) = 2 => to_outside'[1] = to_outside[2]
  BY <1>1, Answers
<1>4. CASE Usual
  <2>1. job[u] = "call" /\ Goes(u, "out")
    BY <1>1, <1>4 DEF Usual, Inside, Behind
  <2>2. Cardinality(Waiting') = Cardinality(Waiting) - 1
        /\ Cardinality(Waiting) \in Nat
    BY <1>1, <2>1, WaitingFacts DEF Receiving
  <2>3. Usual'
    BY <1>1, <1>2, <1>4, <2>1, <2>2, GoesFacts DEF Usual, Inside
  <2> QED BY <1>1, <2>3 DEF Orderly
<1>5. CASE Alone(u)
  <2>1. handle /\ Inside = {u} /\ Resume(u)
    BY <1>1, <1>5 DEF Alone, Phase, Start, Pause, Stop
  <2>2. /\ job[u] \in {"init", "init failed", "cleanup", "quit"}
        /\ ares <=> job[u] = "init"
        /\ Len(to_event) = 0
        /\ \/ Len(to_outside) = 1 /\ Free /\ (quit <=> job[u] = "quit")
           \/ /\ Len(to_outside) = 2 /\ to_outside[2] = 0
              /\ job[u] = "quit" /\ ~quit /\ ev = "none"
    BY <1>2, <2>1, Zenon DEF Resume
  <2>3. CASE job[u] = "init"
    <3>1. Goes(u, "out") /\ Inside' = {}
      BY <1>1, <2>1, <2>3, GoesFacts DEF Behind
    <3>2. Cardinality(Waiting') = 0
      BY <3>1, FS_EmptySet DEF Waiting, Inside, Receiving
    <3>3. Len(to_outside) = 1 /\ Free /\ ares /\ ~quit
      BY <2>2, <2>3, Zenon
    <3>4. Usual'
      BY <1>1, <1>2, <2>1, <2>2, <3>1, <3>2, <3>3 DEF Usual, Free, TypeOK
    <3> QED BY <1>1, <3>4 DEF Orderly
  <2>4. CASE job[u] \in {"init failed", "cleanup"}
    <3>1. Goes(u, "stopping")
      BY <1>1, <2>4 DEF Behind
    <3>2. th'[u] = "stopping" /\ Inside' = {u}
      BY <2>1, <3>1, GoesFacts
    <3>3. Len(to_outside) = 1 /\ Free /\ ~ares /\ ~quit
      BY <2>2, <2>4, Zenon
    <3>4. Len(to_outside') = 0 /\ Len(to_event') = 0
      <4>1. Len(to_outside') = 0
        BY <1>2, <3>3
      <4>2. Len(to_event') = 0
        BY <1>1, <2>2, Zenon
      <4> QED BY <4>1, <4>2
    <3>5. Free' /\ ~ares' /\ ~quit' /\ job'[u] = job[u]
      BY <1>1, <3>3 DEF Free
    <3>6. Stop(u)'
      BY <2>4, <3>2, <3>4, <3>5 DEF Stop
    <3> QED BY <1>1, <2>1, <2>4, <3>2, <3>6 DEF Orderly, Alone, Phase
  <2>5. CASE job[u] = "quit"
    <3>1. Goes(u, "ending")
      BY <1>1, <2>5 DEF Behind
    <3>2. th'[u] = "ending" /\ Inside' = {u}
      BY <2>1, <3>1, GoesFacts
    <3>3. Stop(u)'
      BY <1>1, <1>2, <1>3, <2>2, <2>5, <3>2 DEF Stop, Free, Only
    <3> QED BY <1>1, <2>1, <2>5, <3>2, <3>3 DEF Orderly, Alone, Phase
  <2> QED BY <2>2, <2>3, <2>4, <2>5
<1> QED BY <1>1, <1>4, <1>5, OnlyOne DEF Orderly, Quiet, Inside

(* ar_startup and the end of ar_stop_event_thread. *)
LEMMA LibraryOK ==
    ASSUME IndInv, ~mixed',
           \/ StartCall \/ StartReturn
           \/ \E u \in Users : StopReturn(u)
    PROVE  Orderly'
<1> USE ArEventsAssumption DEF IndInv, ArEventsAssumption
<1>1. CASE StartCall
  <2>1. /\ ~mixed /\ Orderly /\ ~handle /\ th[Main] = "out" /\ Goes(Main, "starting")
        /\ job' = [job EXCEPT ![Main] = "init"]
        /\ handle' /\ ev' = "starting" /\ to_event' = to_event
        /\ to_outside' = to_outside /\ ares' = ares /\ quit' = quit /\ failed' = failed
    BY <1>1 DEF StartCall, sockets
  <2>2. Quiet
    BY <2>1 DEF Orderly, Usual, Alone
  <2>3. th'[Main] = "starting" /\ Inside' = {Main} /\ job'[Main] = "init"
    BY <2>1, <2>2, GoesFacts DEF Quiet, TypeOK
  <2>4. Start(Main)'
    BY <2>1, <2>2, <2>3 DEF Start, Quiet
  <2> QED BY <2>1, <2>3, <2>4 DEF Orderly, Alone, Phase
<1>2. CASE StartReturn
  <2>1. /\ ~mixed /\ Orderly /\ th[Main] = "starting" /\ Goes(Main, "started")
        /\ to_outside # <<>> /\ to_outside' = Tail(to_outside)
        /\ failed' = IF Head(to_outside) = 0 THEN "no" ELSE "ready"
    BY <1>2 DEF StartReturn
  <2>2. /\ job' = job /\ ev' = ev /\ to_event' = to_event /\ handle' = handle
        /\ ares' = ares /\ quit' = quit
    BY <1>2 DEF StartReturn, library
  <2>3. Alone(Main)
    BY <2>1, OnlyOne DEF Orderly, Quiet, Usual, Inside
  <2>4. /\ job[Main] = "init" /\ ~ares /\ ~quit /\ Len(to_event) = 0
        /\ ev = "loop" /\ Only(to_outside, 0) /\ handle /\ Inside = {Main}
    BY <2>1, <2>3, Answers DEF Alone, Phase, Start, Pause, Resume, Stop
  <2>5. Len(to_outside') = 0 /\ failed' = "no"
    BY <2>1, <2>4, Answers DEF Only
  <2>6. th'[Main] = "started" /\ Inside' = {Main}
    BY <2>1, <2>4, GoesFacts
  <2>7. Start(Main)'
    BY <2>2, <2>4, <2>5, <2>6 DEF Start
  <2> QED BY <2>2, <2>4, <2>5, <2>6, <2>7 DEF Orderly, Alone, Phase
<1>3. ASSUME NEW u \in Users, StopReturn(u) PROVE Orderly'
  <2>1. /\ ~mixed /\ Orderly /\ th[u] = "ending" /\ Goes(u, "out")
        /\ (handle => to_outside # <<>>)
        /\ to_event' = <<>> /\ to_outside' = <<>> /\ handle' = FALSE
        /\ ev' = ev /\ ares' = ares /\ quit' = quit
    BY <1>3 DEF StopReturn
  <2>2. Alone(u)
    BY <2>1, OnlyOne DEF Orderly, Quiet, Usual, Inside
  <2>3. /\ ~ares /\ ~quit /\ ev = "none" /\ Only(to_outside, 0) /\ handle
        /\ Inside = {u}
    BY <2>1, <2>2, Answers DEF Alone, Phase, Start, Pause, Resume, Stop
  <2>4. failed' = "no"
    <3>1. Head(to_outside) = 0
      BY <2>1, <2>3, Answers DEF Only
    <3>2. ~ \E v \in Inside \ {u} : th[v] \in Receiving
      BY <2>3
    <3>3. failed' = CASE handle /\ Head(to_outside) # 0 -> "ready"
                      [] \E v \in Inside \ {u} : th[v] \in Receiving -> "closed"
                      [] OTHER -> "no"
      BY <1>3 DEF StopReturn
    <3> QED BY <3>1, <3>2, <3>3
  <2>5. Inside' = {}
    BY <2>1, <2>3, GoesFacts
  <2>6. Len(to_event') = 0 /\ Len(to_outside') = 0
    BY <2>1
  <2>7. Quiet'
    BY <2>1, <2>3, <2>5, <2>6 DEF Quiet
  <2> QED BY <2>4, <2>7 DEF Orderly
<1> QED BY <1>1, <1>2, <1>3

(* Callbacks change nothing of this. *)
LEMMA CallbackOK ==
    ASSUME IndInv, ~mixed',
           UNCHANGED <<th, job, ev, sockets, library, mixed, failed>>
    PROVE  Orderly'
BY DEF IndInv, Orderly, Quiet, Usual, Alone, Phase, Start, Pause, Resume, Stop,
       Inside, Waiting, Free, Only, sockets, library

(* A step of the event thread leaves the others where they are. *)
LEMMA EventOnly ==
    ASSUME UNCHANGED <<th, job, mixed>>
    PROVE  Inside' = Inside /\ Waiting' = Waiting
BY DEF Inside, Waiting

(* The event thread is ready or fails, handles events, and finds a request. *)
LEMMA LoopOK ==
    ASSUME IndInv, ~mixed',
           ThreadStarts \/ ThreadFails \/ StartHandler \/ EndHandler \/ Interrupt
    PROVE  Orderly'
<1> USE DEF IndInv
<1>1. /\ ~mixed /\ Orderly /\ th' = th /\ job' = job /\ to_event' = to_event
      /\ handle' = handle /\ ares' = ares /\ quit' = quit
      /\ Inside' = Inside /\ Waiting' = Waiting
  BY EventOnly DEF ThreadStarts, ThreadFails, StartHandler, EndHandler, Interrupt, sockets, library
<1>2. spin \in Int
  BY DEF TypeOK
<1>3. CASE ThreadStarts
  <2>1. /\ ev = "starting" /\ ev' = "loop" /\ to_outside' = Append(to_outside, 0)
        /\ failed' = failed
    BY <1>3 DEF ThreadStarts
  <2>2. PICK u \in Users : Alone(u)
    BY <1>1, <2>1 DEF Orderly, Quiet, Usual
  <2>3. th[u] = "starting" /\ Start(u)
    BY <2>1, <2>2 DEF Alone, Phase, Start, Pause, Resume, Stop, Free
  <2>4. Only(to_outside', 0)
    BY <2>1, <2>3, Answers DEF Start, Only
  <2>5. Start(u)'
    BY <1>1, <2>1, <2>3, <2>4 DEF Start
  <2> QED BY <1>1, <2>1, <2>2, <2>5 DEF Orderly, Alone, Phase
<1>4. CASE StartHandler
  <2>1. /\ ev = "loop" /\ ares /\ ev' = "handler" /\ failed' = failed
        /\ spin' = spin /\ to_outside' = to_outside
    BY <1>4 DEF StartHandler, sockets
  <2>2. CASE Usual
    <3>1. Usual'
      BY <1>1, <2>1, <2>2 DEF Usual
    <3> QED BY <1>1, <2>1, <3>1 DEF Orderly
  <2>3. ASSUME NEW u \in Users, Alone(u) PROVE Orderly'
    <3>1. Pause(u) \/ Resume(u)
      BY <2>1, <2>3 DEF Alone, Phase, Start, Stop
    <3>2. Pause(u)' \/ Resume(u)'
      BY <1>1, <2>1, <3>1 DEF Pause, Resume, Free, Only
    <3> QED BY <1>1, <2>1, <2>3, <3>2 DEF Orderly, Alone, Phase
  <2> QED BY <1>1, <2>1, <2>2, <2>3 DEF Orderly, Quiet
<1>5. CASE EndHandler
  <2>1. /\ ev = "handler" /\ ev' = "loop" /\ (ares => failed' = "no")
        /\ spin' = spin /\ to_outside' = to_outside
    BY <1>5 DEF EndHandler, sockets
  <2>2. CASE Usual
    <3>1. Usual' /\ ares
      BY <1>1, <2>1, <2>2 DEF Usual
    <3> QED BY <1>1, <2>1, <3>1 DEF Orderly
  <2>3. ASSUME NEW u \in Users, Alone(u) PROVE Orderly'
    <3>1. ares /\ (Pause(u) \/ Resume(u))
      BY <2>1, <2>3 DEF Alone, Phase, Start, Pause, Resume, Stop, Free
    <3>2. Pause(u)' \/ Resume(u)'
      BY <1>1, <2>1, <3>1 DEF Pause, Resume, Free, Only
    <3> QED BY <1>1, <2>1, <2>3, <3>1, <3>2 DEF Orderly, Alone, Phase
  <2> QED BY <1>1, <2>1, <2>2, <2>3 DEF Orderly, Quiet
<1>6. CASE Interrupt
  <2>1. /\ ev = "loop" /\ to_event # <<>> /\ ev' = "interrupt" /\ spin' = 0
        /\ failed' = failed /\ to_outside' = to_outside
    BY <1>6 DEF Interrupt
  <2>2. Len(to_event) # 0 /\ Len(to_event) > 0
    BY <2>1, Requests
  <2>3. CASE Usual
    <3>1. Usual'
      BY <1>1, <2>1, <2>2, <2>3 DEF Usual
    <3> QED BY <1>1, <2>1, <3>1 DEF Orderly
  <2>4. ASSUME NEW u \in Users, Alone(u) PROVE Orderly'
    <3>1. Pause(u)
      BY <2>1, <2>2, <2>4 DEF Alone, Phase, Start, Pause, Resume, Stop
    <3>2. Pause(u)'
      BY <1>1, <2>1, <2>2, <3>1 DEF Pause, Only
    <3> QED BY <1>1, <2>1, <2>4, <3>2 DEF Orderly, Alone, Phase
  <2> QED BY <1>1, <2>1, <2>3, <2>4 DEF Orderly, Quiet
<1>7. CASE ThreadFails
  <2>1. /\ ev = "starting" /\ ev' = "dead" /\ to_outside' = to_outside
        /\ failed' = failed
    BY <1>7 DEF ThreadFails, sockets
  <2>2. PICK u \in Users : Alone(u)
    BY <1>1, <2>1 DEF Orderly, Quiet, Usual
  <2>3. th[u] = "starting" /\ Start(u)
    BY <2>1, <2>2 DEF Alone, Phase, Start, Pause, Resume, Stop, Free
  <2>4. Start(u)'
    BY <1>1, <2>1, <2>3 DEF Start
  <2> QED BY <1>1, <2>1, <2>2, <2>4 DEF Orderly, Alone, Phase
<1> QED BY <1>3, <1>4, <1>5, <1>6, <1>7

(* interrupt_cb answers a request. *)
LEMMA InterruptLoopOK ==
    ASSUME IndInv, ~mixed', InterruptLoop
    PROVE  Orderly'
<1> USE DEF IndInv
<1>1. /\ ~mixed /\ Orderly /\ th' = th /\ job' = job /\ failed' = failed
      /\ handle' = handle /\ ares' = ares /\ quit' = quit
      /\ Inside' = Inside /\ Waiting' = Waiting
  BY EventOnly DEF InterruptLoop, library
<1>2. /\ ev = "interrupt" /\ to_event # <<>> /\ spin' = spin + Head(to_event)
      /\ to_event' = Tail(to_event) /\ to_outside' = Append(to_outside, spin')
      /\ ev' = IF spin' > 0 THEN "interrupt" ELSE "loop"
  BY DEF InterruptLoop
<1>3. /\ Len(to_event) \in Nat /\ Len(to_event) # 0 /\ Len(to_outside) \in Nat
      /\ Len(to_event') = Len(to_event) - 1 /\ Head(to_event) = to_event[1]
      /\ Head(to_event) \in {-1, 1}
  BY <1>2, Requests, Answers
<1>4. spin \in Int /\ spin' \in Int
  BY <1>2, <1>3 DEF TypeOK
<1>5. Len(to_outside') = Len(to_outside) + 1
      /\ to_outside'[Len(to_outside) + 1] = spin'
  BY <1>2, <1>4, Answers
<1>6. CASE Usual
  <2>1. /\ Len(to_event') + Len(to_outside') = Cardinality(Waiting')
        /\ ev' \in {"loop", "interrupt"} /\ (ev' = "interrupt" => spin' > 0)
    BY <1>1, <1>2, <1>3, <1>5, <1>6 DEF Usual
  <2>2. Usual'
    BY <1>1, <1>4, <1>6, <2>1 DEF Usual
  <2> QED BY <1>1, <2>2 DEF Orderly
<1>7. ASSUME NEW u \in Users, Alone(u) PROVE Orderly'
  <2>1. \/ Pause(u) /\ th[u] = "pausing" /\ Only(to_event, 1)
           /\ Len(to_outside) = 0 /\ spin >= 0
        \/ Resume(u) /\ Only(to_event, -1) /\ Len(to_outside) = 0 /\ spin > 0
           /\ (quit <=> job[u] = "quit")
    <3>1. Pause(u) \/ Resume(u)
      BY <1>2, <1>3, <1>7 DEF Alone, Phase, Start, Stop
    <3>2. CASE Pause(u)
      BY <1>2, <1>3, <1>4, <3>2 DEF Pause, Free
    <3>3. CASE Resume(u)
      <4>1. /\ Only(to_event, -1) /\ Len(to_outside) = 0 /\ spin > 0
            /\ (quit <=> job[u] = "quit")
        BY <1>3, <3>3, Zenon DEF Resume
      <4> QED BY <3>3, <4>1
    <3> QED BY <3>1, <3>2, <3>3
  <2>2. Len(to_event') = 0 /\ Len(to_outside') = 1 /\ to_outside'[1] = spin'
    BY <1>3, <1>5, <2>1 DEF Only
  <2>3. CASE Pause(u) /\ th[u] = "pausing" /\ Only(to_event, 1) /\ spin >= 0
    <3>1. spin' > 0 /\ ev' = "interrupt"
      BY <1>2, <1>3, <1>4, <2>3 DEF Only
    <3>2. Pause(u)'
      BY <1>1, <2>2, <2>3, <3>1 DEF Pause
    <3> QED BY <1>1, <1>7, <3>2 DEF Orderly, Alone, Phase
  <2>4. CASE Resume(u) /\ (quit <=> job[u] = "quit")
    <3>1. Free'
      BY <1>2 DEF Free
    <3>2. Resume(u)'
      BY <1>1, <2>2, <2>4, <3>1 DEF Resume
    <3> QED BY <1>1, <1>7, <3>2 DEF Orderly, Alone, Phase
  <2> QED BY <2>1, <2>3, <2>4
<1> QED BY <1>1, <1>2, <1>6, <1>7 DEF Orderly, Quiet

(* The event thread ends. *)
LEMMA ThreadEndsOK ==
    ASSUME IndInv, ~mixed', ThreadEnds
    PROVE  Orderly'
<1> USE DEF IndInv
<1>1. /\ ~mixed /\ Orderly /\ th' = th /\ job' = job /\ failed' = failed
      /\ handle' = handle /\ ares' = ares /\ to_event' = to_event
      /\ Inside' = Inside
  BY EventOnly DEF ThreadEnds
<1>2. /\ ev = "loop" /\ quit /\ ev' = "none" /\ quit' = FALSE
      /\ to_outside' = Append(to_outside, 0)
  BY DEF ThreadEnds
<1>3. /\ Len(to_outside) \in Nat /\ Len(to_outside') = Len(to_outside) + 1
      /\ to_outside'[Len(to_outside) + 1] = 0
  BY <1>2, Answers
<1>4. PICK u \in Users : Alone(u)
  BY <1>1, <1>2 DEF Orderly, Quiet, Usual
<1>5. /\ job[u] = "quit" /\ ~ares /\ Len(to_event) = 0
      /\ \/ th[u] = "resuming" /\ Len(to_outside) = 1
         \/ th[u] = "ending" /\ Len(to_outside) = 0
  BY <1>2, <1>4 DEF Alone, Phase, Start, Pause, Resume, Stop
<1>6. Resume(u)' \/ Stop(u)'
  <2>1. ~ares' /\ ~quit' /\ ev' = "none" /\ job'[u] = "quit" /\ Len(to_event') = 0
    BY <1>1, <1>2, <1>5, Zenon
  <2>2. CASE th[u] = "resuming" /\ Len(to_outside) = 1
    <3>1. th'[u] = "resuming" /\ Len(to_outside') = 2 /\ to_outside'[2] = 0
      BY <1>1, <1>3, <2>2
    <3> QED BY <2>1, <3>1 DEF Resume
  <2>3. CASE th[u] = "ending" /\ Len(to_outside) = 0
    <3>1. th'[u] = "ending" /\ Only(to_outside', 0)
      BY <1>1, <1>3, <2>3 DEF Only
    <3> QED BY <2>1, <3>1 DEF Stop
  <2> QED BY <1>5, <2>2, <2>3
<1> QED BY <1>1, <1>4, <1>6 DEF Orderly, Alone, Phase

-----------------------------------------------------------------------------
(* Every step keeps the invariant. *)
LEMMA StepOK ==
    ASSUME IndInv, [Next]_vars
    PROVE  IndInv'
<1>1. CASE Next
  <2>1. TypeOK' /\ RaisedWhere'
    BY <1>1, TypeStep, RaisedStep DEF IndInv
  <2>2. ASSUME ~mixed' PROVE Orderly'
    <3>1. ASSUME NEW u \in Users, User(u) PROVE Orderly'
      BY <2>2, <3>1, PauseCallOK, ResumeCallOK, PauseReturnOK, ResumeReturnOK,
         LibraryOK DEF User
    <3>2. ASSUME NEW t \in Users \cup {Event}, RaiseCallback(t) \/ RunCallback(t)
          PROVE  Orderly'
      BY <2>2, <3>2, CallbackOK DEF RaiseCallback, RunCallback
    <3>3. CASE EndCallback
      BY <2>2, <3>3, CallbackOK DEF EndCallback
    <3>4. CASE EventThread
      BY <2>2, <3>4, LoopOK, InterruptLoopOK, ThreadEndsOK DEF EventThread
    <3> QED BY <1>1, <2>2, <3>1, <3>2, <3>3, <3>4, LibraryOK DEF Next
  <2> QED BY <2>1, <2>2 DEF IndInv
<1>2. CASE UNCHANGED vars
  <2>1. TypeOK' /\ RaisedWhere'
    BY <1>2 DEF IndInv, vars, TypeOK, RaisedWhere
  <2>2. ASSUME ~mixed' PROVE Orderly'
    BY <1>2, <2>2, CallbackOK DEF vars, sockets, library
  <2> QED BY <2>1, <2>2 DEF IndInv
<1> QED BY <1>1, <1>2

(* The invariant holds in every reachable state. *)
THEOREM Invariance == Spec => []IndInv
<1>1. Init => IndInv
  <2> SUFFICES ASSUME Init PROVE IndInv
    OBVIOUS
  <2>1. <<>> \in Seq({-1, 1}) /\ <<>> \in Seq(Int) /\ Len(<<>>) = 0
    OBVIOUS
  <2>2. TypeOK /\ RaisedWhere
    <3>1. /\ th \in [Users -> {"out", "in", "started", "stopping"} \cup Receiving]
          /\ job \in [Users -> Jobs]
      BY DEF Init, Jobs
    <3>2. /\ spin \in Int
          /\ to_event \in Seq({-1, 1}) /\ to_outside \in Seq(Int)
      BY <2>1 DEF Init
    <3>3. /\ ev \in {"none", "starting", "dead", "loop", "handler", "interrupt"}
          /\ raised = {} /\ serving \in raised \cup {Nobody}
          /\ handle \in BOOLEAN /\ ares \in BOOLEAN /\ quit \in BOOLEAN
          /\ mixed \in BOOLEAN
          /\ failed \in {"no", "pause", "ready", "closed", "null"}
      BY Zenon DEF Init
    <3> QED BY <3>1, <3>2, <3>3 DEF TypeOK, RaisedWhere
  <2>3. Inside = {}
    BY DEF Init, Inside
  <2>4. Orderly
    BY <2>1, <2>3 DEF Init, Orderly, Quiet
  <2> QED BY <2>2, <2>4 DEF IndInv
<1> QED BY <1>1, StepOK, PTL DEF Spec

(* ar_events_pause and ar_events_resume, whatever mixture of threads calls   *)
(* them and however many there are: for every thread that waits in recv there *)
(* is exactly one number under way.                                           *)
THEOREM Answered == Spec => []OneAnswerEach
<1>1. IndInv => OneAnswerEach
  <2> SUFFICES ASSUME IndInv, ~mixed
               PROVE  Len(to_event) + Len(to_outside) + Unasked
                          = Cardinality(Waiting) + Cardinality(WillWait)
    BY DEF IndInv, OneAnswerEach
  <2> USE DEF IndInv
  <2>1. CASE Quiet
    <3>1. Waiting = {} /\ WillWait = {}
      BY <2>1 DEF Quiet, Waiting, WillWait, Inside, Receiving
    <3> QED BY <2>1, <3>1, FS_EmptySet DEF Quiet, Unasked, NeverReady
  <2>2. CASE Usual
    <3>1. WillWait = {}
      BY <2>2 DEF Usual, WillWait, Inside
    <3>2. Unasked = 0
      BY <2>2 DEF Usual, Unasked, NeverReady
    <3>3. Len(to_event) \in Nat /\ Len(to_outside) \in Nat
      BY Requests, Answers
    <3> QED BY <2>2, <3>1, <3>2, <3>3, FS_EmptySet DEF Usual
  <2>3. ASSUME NEW u \in Users, Alone(u)
        PROVE  Len(to_event) + Len(to_outside) + Unasked
                   = Cardinality(Waiting) + Cardinality(WillWait)
    <3> DEFINE Balance(e, o, n, w, l) ==
                 /\ Len(to_event) = e /\ Len(to_outside) = o /\ Unasked = n
                 /\ Cardinality(Waiting) = w /\ Cardinality(WillWait) = l
    <3> HIDE DEF Balance
    <3>1. ASSUME NEW e \in Nat, NEW o \in Nat, NEW n \in Nat, NEW w \in Nat,
                 NEW l \in Nat, Balance(e, o, n, w, l), e + o + n = w + l
          PROVE  Len(to_event) + Len(to_outside) + Unasked
                     = Cardinality(Waiting) + Cardinality(WillWait)
      BY <3>1, Zenon DEF Balance
    <3>2. Waiting = IF th[u] \in Receiving THEN {u} ELSE {}
      BY <2>3 DEF Alone, Waiting, Inside, Receiving
    <3>3. WillWait = IF th[u] = "resuming" /\ job[u] = "quit" THEN {u} ELSE {}
      BY <2>3 DEF Alone, WillWait, Inside
    <3>4. /\ th[u] \in {"pausing", "resuming", "starting", "ending"}
                => Cardinality(Waiting) = 1
          /\ th[u] \in {"in", "started", "stopping"} => Cardinality(Waiting) = 0
          /\ th[u] = "resuming" /\ job[u] = "quit" => Cardinality(WillWait) = 1
          /\ th[u] # "resuming" \/ job[u] # "quit" => Cardinality(WillWait) = 0
      BY <3>2, <3>3, FS_EmptySet, FS_Singleton DEF Receiving
    <3>5. /\ ev \in {"starting", "dead"} /\ ~quit => Unasked = 1
          /\ ev \notin {"starting", "dead"} /\ quit => Unasked = 1
          /\ ev \notin {"starting", "dead"} /\ ~quit => Unasked = 0
      BY DEF Unasked, NeverReady
    <3>6. CASE Start(u)
      <4>1. /\ Len(to_event) = 0 /\ ~quit /\ th[u] # "resuming"
            /\ \/ th[u] = "starting" /\ ev \in {"starting", "dead"} /\ Len(to_outside) = 0
               \/ th[u] = "starting" /\ ev = "loop" /\ Len(to_outside) = 1
               \/ th[u] = "started" /\ ev = "loop" /\ Len(to_outside) = 0
        BY <3>6 DEF Start, Only
      <4>2. Balance(0, 0, 1, 1, 0) \/ Balance(0, 1, 0, 1, 0) \/ Balance(0, 0, 0, 0, 0)
        BY <3>4, <3>5, <4>1 DEF Balance
      <4> QED BY <3>1, <4>2
    <3>7. CASE Pause(u)
      <4>1. /\ ~quit /\ ev \notin {"starting", "dead"}
            /\ \/ th[u] = "pausing" /\ Len(to_event) = 1 /\ Len(to_outside) = 0
               \/ th[u] = "pausing" /\ Len(to_event) = 0 /\ Len(to_outside) = 1
               \/ th[u] = "in" /\ Len(to_event) = 0 /\ Len(to_outside) = 0
        BY <3>7 DEF Pause, Free, Only
      <4>2. \/ Balance(1, 0, 0, 1, 0) \/ Balance(0, 1, 0, 1, 0)
            \/ Balance(0, 0, 0, 0, 0)
        BY <3>4, <3>5, <4>1, Zenon DEF Balance
      <4> QED BY <3>1, <4>2
    <3>8. CASE Resume(u)
      <4>1. /\ th[u] = "resuming" /\ ev \notin {"starting", "dead"}
            /\ \/ /\ Len(to_event) = 1 /\ Len(to_outside) = 0
                  /\ (quit <=> job[u] = "quit")
               \/ /\ Len(to_event) = 0 /\ Len(to_outside) = 1
                  /\ (quit <=> job[u] = "quit")
               \/ /\ Len(to_event) = 0 /\ Len(to_outside) = 2
                  /\ job[u] = "quit" /\ ~quit
        BY <3>8 DEF Resume, Free, Only
      <4>2. \/ Balance(1, 0, 0, 1, 0) \/ Balance(1, 0, 1, 1, 1)
            \/ Balance(0, 1, 0, 1, 0) \/ Balance(0, 1, 1, 1, 1)
            \/ Balance(0, 2, 0, 1, 1)
        BY <3>4, <3>5, <4>1, Zenon DEF Balance
      <4> QED BY <3>1, <4>2
    <3>9. CASE Stop(u)
      <4>1. /\ ev \notin {"starting", "dead"} /\ Len(to_event) = 0 /\ th[u] # "resuming"
            /\ \/ th[u] = "stopping" /\ Len(to_outside) = 0 /\ ~quit
               \/ th[u] = "ending" /\ Len(to_outside) = 0 /\ quit
               \/ th[u] = "ending" /\ Len(to_outside) = 1 /\ ~quit
        BY <3>9 DEF Stop, Free, Only
      <4>2. \/ Balance(0, 0, 0, 0, 0) \/ Balance(0, 0, 1, 1, 0)
            \/ Balance(0, 1, 0, 1, 0)
        BY <3>4, <3>5, <4>1, Zenon DEF Balance
      <4> QED BY <3>1, <4>2
    <3> QED BY <2>3, <3>6, <3>7, <3>8, <3>9 DEF Alone, Phase
  <2> QED BY <2>1, <2>2, <2>3 DEF Orderly
<1> QED BY <1>1, Invariance, PTL

(* ar_startup and ar_shutdown, as long as nothing runs into them: each gets   *)
(* its zero, and without a handle nothing is left of the event thread.        *)
THEOREM CleanShutdown == Spec => []ShutdownClean
<1>1. IndInv => ShutdownClean
  <2> SUFFICES ASSUME IndInv, ~mixed, ~handle
               PROVE  Quiet /\ to_event = <<>> /\ to_outside = <<>>
    BY DEF IndInv, Orderly, ShutdownClean, Quiet
  <2>1. Quiet
    BY DEF IndInv, Orderly, Usual, Alone
  <2> QED BY <2>1, Requests, Answers DEF Quiet, IndInv
<1> QED BY <1>1, Invariance, PTL
=============================================================================
