------------------------------ MODULE EventLoop -------------------------------
(* The event loop: as_event.c on top of libevent (event.c), and what the
   library's connections (as_tcp.c) do with it.

   An input waits for a descriptor, once more after a timeout; a timer waits
   for a time.  libevent finds out which events are due, queues them, and calls
   libevent_cb for one after the other, which calls the callback of the owner.
   In a callback an owner adds and removes inputs and timers, its own included,
   and opens, writes to and closes connections.  The kernel gives the number of
   a closed descriptor to the next one that is opened.

   A callback is a sequence of steps, one for each call it makes; the inputs of
   the write queues are the library's own and their callback is one step. *)
EXTENDS Naturals, Sequences, FiniteSets, SequencesExt

CONSTANTS
    Events,     \* ASEvent objects
    TCPCs,      \* TCPC objects
    Fds,        \* descriptors
    First,      \* the timer that is there when the loop starts
    FdSetSize,  \* inputs that libevent can wait for (FD_SETSIZE)
    None

ASSUME LoopAssumption ==
    /\ First \in Events /\ IsFiniteSet(Events)
    /\ None \notin Events \cup TCPCs \cup Fds

VARIABLES
    ev,         \* Events -> ASEvent, with the flags of its libevent struct
    chain,      \* input_table: Fds -> the events with this fd, newest first
    active,     \* activequeue
    holder,     \* Fds -> the connection the kernel opened it for, or None
    tcpc,       \* TCPCs -> TCPC
    running,    \* the event whose callback runs, or None
    failed      \* "stray": a connection closed the descriptor of another one;
                \* "reset": the loop was asked to reset a timer that was removed;
                \* "full": libevent had no room for an input

loopVars == <<ev, chain, active, holder, tcpc, running, failed>>

NoEvent == [type |-> "free", conn |-> None, fd |-> None, queue |-> FALSE,
            inserted |-> FALSE, timeout |-> FALSE, due |-> "no", validate |-> FALSE,
            in_callback |-> FALSE, removed |-> FALSE]

(* input_add's event: a timeout holds until the first time the input fires. *)
NewInput(c, fd, queue, timeout) ==
    [NoEvent EXCEPT !.type = "input", !.conn = c, !.fd = fd, !.queue = queue,
                    !.inserted = TRUE, !.timeout = timeout, !.validate = timeout]

NewTimer == [NoEvent EXCEPT !.type = "timer", !.timeout = TRUE]

NoConn == [fd |-> None, wbuf |-> FALSE]

Live == {e \in Events : ev[e].type # "free"}

-----------------------------------------------------------------------------
(* What is removed from the queues, the table and the heap.  w is the record of
   ev, chain and active. *)

World == [ev |-> ev, chain |-> chain, active |-> active]

SetWorld(w) == ev' = w.ev /\ chain' = w.chain /\ active' = w.active

(* What stays of a list when the members in gone are taken off it. *)
Without(s, gone) ==
    LET kept[n \in 0 .. Len(s)] ==
            IF n = 0 THEN <<>>
            ELSE IF s[n] \in gone THEN kept[n - 1]
            ELSE Append(kept[n - 1], s[n])
    IN  kept[Len(s)]

(* event_del: the event is on none of libevent's queues any more. *)
EventDel(x) == [x EXCEPT !.inserted = FALSE, !.timeout = FALSE, !.due = "no"]

(* Mutant of Removal: the input whose callback runs is freed at once. *)
RemovalNow(x) == NoEvent

(* What input_remove makes of an input: one whose callback runs is freed after
   it returned. *)
Removal(x) == IF x.in_callback THEN [EventDel(x) EXCEPT !.removed = TRUE] ELSE NoEvent

(* input_remove, of each input in gone: whatever is freed leaves the table. *)
InputRemove(w, gone) ==
    LET new == [e \in Events |-> IF e \in gone THEN Removal(w.ev[e]) ELSE w.ev[e]]
        freed == {e \in gone : new[e] = NoEvent}
    IN  [ev |-> new, active |-> Without(w.active, gone),
         chain |-> [f \in Fds |-> Without(w.chain[f], freed)]]

(* input_remove_all *)
InputRemoveAll(w, fd) == InputRemove(w, ToSet(w.chain[fd]))

(* timer_remove *)
TimerRemove(w, e) ==
    IF w.ev[e].in_callback THEN [w EXCEPT !.ev[e].removed = TRUE]
    ELSE [w EXCEPT !.ev[e] = NoEvent, !.active = Without(@, {e})]

-----------------------------------------------------------------------------
(* libevent *)

(* event_active, after event_del if the time of the event has come *)
EventActive(x, why) == [IF why = "io" THEN x ELSE EventDel(x) EXCEPT !.due = why]

(* eventqueue, whose descriptors evsel->dispatch selects from *)
Selected == {e \in Live : ev[e].inserted}

(* win32select_add has counted FD_SETSIZE inputs. *)
SetFull == Cardinality(Selected) >= FdSetSize

(* timetree, from which timeout_process takes what is late *)
Timed == {e \in Live : ev[e].timeout}

(* event_loop, up to event_process_active: evsel->dispatch queues the inputs of
   ready, whose descriptors are, and timeout_process takes off the queue those
   that are late and queues everything that is late. *)
Poll ==
    /\ running = None /\ active = <<>> /\ failed = "no"
    /\ \E ready \in SUBSET Selected, late \in SUBSET Timed :
         /\ ready \cup late # {}
         /\ \E s \in SetToSeqs(ready \ late), t \in SetToSeqs(late) : active' = s \o t
         /\ ev' = [e \in Events |->
                     IF e \in late THEN EventActive(ev[e], "timeout")
                     ELSE IF e \in ready THEN EventActive(ev[e], "io")
                     ELSE ev[e]]
    /\ UNCHANGED <<chain, holder, tcpc, running, failed>>

Due(e) == failed = "no" /\ running = None /\ active # <<>> /\ e = Head(active)

(* event_process_active takes an event off the queue. *)
Taken(e) == [World EXCEPT !.active = Tail(active), !.ev[e].due = "no"]

(* libevent_cb begins *)
Called(e) == [Taken(e) EXCEPT !.ev[e].in_callback = TRUE, !.ev[e].removed = FALSE]

CallTimer(e) ==
    /\ Due(e) /\ ev[e].type = "timer"
    /\ SetWorld(Called(e))
    /\ running' = e
    /\ UNCHANGED <<holder, tcpc, failed>>

CallInput(e) ==
    /\ Due(e) /\ ev[e].type = "input" /\ ev[e].due = "io" /\ ~ev[e].queue
    /\ SetWorld(Called(e))
    /\ running' = e
    /\ UNCHANGED <<holder, tcpc, failed>>

(* Mutant of CallTimeout: the other inputs of the descriptor stay. *)
CallTimeoutAlone(e) ==
    /\ Due(e) /\ ev[e].type = "input" /\ ev[e].due = "timeout"
    /\ holder' = [holder EXCEPT ![ev[e].fd] = None]
    /\ SetWorld(InputRemove(Called(e), {e}))
    /\ running' = e
    /\ UNCHANGED <<tcpc, failed>>

(* The timeout of an input: libevent_cb closes the descriptor and removes the
   inputs it has before it calls the owner. *)
CallTimeout(e) ==
    /\ Due(e) /\ ev[e].type = "input" /\ ev[e].due = "timeout"
    /\ holder' = [holder EXCEPT ![ev[e].fd] = None]
    /\ SetWorld(InputRemoveAll(Called(e), ev[e].fd))
    /\ running' = e
    /\ UNCHANGED <<tcpc, failed>>

(* write_queue_cb: everything is written, or an error empties the queue, and
   the input goes; or there is more to write. *)
WriteQueue(e) ==
    /\ Due(e) /\ ev[e].due = "io" /\ ev[e].queue
    /\ \/ /\ SetWorld(InputRemove(Taken(e), {e}))
          /\ tcpc' = [tcpc EXCEPT ![ev[e].conn].wbuf = FALSE]
       \/ /\ SetWorld(Taken(e))
          /\ UNCHANGED tcpc
    /\ UNCHANGED <<holder, running, failed>>

-----------------------------------------------------------------------------
(* What a callback does *)

(* The handlers find out from net_sock_error that their input timed out, and
   all of them close the connection before they do anything else
   (downconn_connected, downconn_request_failed, session_error, push_failed,
   as_pushreply_free, servcon_free).  This is a rule about the owners, whose
   modules have it in their handlers; session_error stands for all of them. *)
Owed ==
    IF running # None /\ ev[running].type = "input" /\ ev[running].removed
         /\ tcpc[ev[running].conn].fd = ev[running].fd /\ holder[ev[running].fd] = None
    THEN ev[running].conn ELSE None

Free == running # None /\ Owed = None

Open == {c \in TCPCs : tcpc[c].fd # None}

(* tcp_open, tcp_accept *)
OpenConn(c, fd) ==
    /\ Free /\ c \notin Open /\ holder[fd] = None
    /\ holder' = [holder EXCEPT ![fd] = c]
    /\ tcpc' = [tcpc EXCEPT ![c] = [NoConn EXCEPT !.fd = fd]]
    /\ UNCHANGED <<ev, chain, active, running, failed>>

(* tcp_close; after a timeout it closes the descriptor for the second time. *)
CloseConn(c) ==
    /\ running # None /\ c \in Open /\ Owed \in {None, c}
    /\ LET fd == tcpc[c].fd IN
         /\ SetWorld(InputRemoveAll(World, fd))
         /\ holder' = [holder EXCEPT ![fd] = None]
         /\ failed' = IF holder[fd] \in {c, None} THEN failed ELSE "stray"
    /\ tcpc' = [tcpc EXCEPT ![c] = NoConn]
    /\ UNCHANGED running

(* input_add: an owner waits for one thing at a time.  From the callback of an
   input it may add the next one first and remove this one afterwards, as
   client_read_body does when its owner sends the next request. *)
InputAdd(e, c, timeout) ==
    /\ Free /\ c \in Open /\ e \notin Live /\ ~SetFull
    /\ \A x \in Live : ev[x].conn = c /\ ~ev[x].queue /\ ~ev[x].removed => x = running
    /\ LET fd == tcpc[c].fd IN
         /\ ev' = [ev EXCEPT ![e] = NewInput(c, fd, FALSE, timeout)]
         /\ chain' = [chain EXCEPT ![fd] = <<e>> \o @]
    /\ UNCHANGED <<active, holder, tcpc, running, failed>>

(* input_add when libevent has no room, for an owner or for tcp_write.  The
   assert of win32select_add ends the program; without asserts event_add fails
   and input_add frees an event that is on libevent's queues.  The callback
   may go on but the loop does not. *)
InputAddFails(c) ==
    /\ Free /\ c \in Open /\ SetFull
    /\ failed' = "full"
    /\ UNCHANGED <<ev, chain, active, holder, tcpc, running>>

(* An owner removes an input of which it has the id. *)
RemoveInput(e) ==
    /\ Free /\ ev[e].type = "input" /\ ~ev[e].queue /\ ~ev[e].removed
    /\ SetWorld(InputRemove(World, {e}))
    /\ UNCHANGED <<holder, tcpc, running, failed>>

(* tcp_write of more than can be sent at once: the rest is queued, and the
   queue gets an input of its own if it has none. *)
Write(e, c) ==
    /\ Free /\ c \in Open /\ ~tcpc[c].wbuf /\ e \notin Live /\ ~SetFull
    /\ LET fd == tcpc[c].fd IN
         /\ ev' = [ev EXCEPT ![e] = NewInput(c, fd, TRUE, FALSE)]
         /\ chain' = [chain EXCEPT ![fd] = <<e>> \o @]
    /\ tcpc' = [tcpc EXCEPT ![c].wbuf = TRUE]
    /\ UNCHANGED <<active, holder, running, failed>>

TimerAdd(e) ==
    /\ Free /\ e \notin Live
    /\ ev' = [ev EXCEPT ![e] = NewTimer]
    /\ UNCHANGED <<chain, active, holder, tcpc, running, failed>>

RemoveTimer(e) ==
    /\ Free /\ ev[e].type = "timer" /\ ~ev[e].removed
    /\ SetWorld(TimerRemove(World, e))
    /\ UNCHANGED <<holder, tcpc, running, failed>>

-----------------------------------------------------------------------------
(* The callback returns to libevent_cb *)

Done(e) == [World EXCEPT !.ev[e].in_callback = FALSE]

(* A timer is removed, or reset when the callback says so.  A callback that
   removed its timer must not; progress_timer_func does when the user ends the
   last transfer from the progress callback. *)
ReturnTimer(again) ==
    /\ Free /\ ev[running].type = "timer"
    /\ SetWorld(IF again /\ ~ev[running].removed
                THEN [Done(running) EXCEPT !.ev[running].timeout = TRUE]
                ELSE TimerRemove(Done(running), running))
    /\ failed' = IF again /\ ev[running].removed THEN "reset" ELSE failed
    /\ running' = None
    /\ UNCHANGED <<holder, tcpc>>

(* An input that was removed meanwhile, by its timeout or by the callback, is
   freed; one that fired for the first time loses its timeout. *)
ReturnInput ==
    /\ Free /\ ev[running].type = "input"
    /\ SetWorld(IF ev[running].removed THEN InputRemove(Done(running), {running})
                ELSE [Done(running) EXCEPT !.ev[running].timeout = FALSE,
                                           !.ev[running].validate = FALSE])
    /\ running' = None
    /\ UNCHANGED <<holder, tcpc, failed>>

LoopInit ==
    /\ ev = [e \in Events |-> IF e = First THEN NewTimer ELSE NoEvent]
    /\ chain = [f \in Fds |-> <<>>]
    /\ active = <<>>
    /\ holder = [f \in Fds |-> None]
    /\ tcpc = [c \in TCPCs |-> NoConn]
    /\ running = None
    /\ failed = "no"

LoopNext ==
    \/ Poll
    \/ \E e \in Events : \/ CallTimer(e) \/ CallInput(e) \/ CallTimeout(e)
                         \/ WriteQueue(e)
                         \/ RemoveInput(e) \/ TimerAdd(e) \/ RemoveTimer(e)
                         \/ \E c \in TCPCs : \/ Write(e, c)
                                             \/ \E t \in BOOLEAN : InputAdd(e, c, t)
    \/ \E c \in TCPCs : CloseConn(c) \/ InputAddFails(c) \/ \E fd \in Fds : OpenConn(c, fd)
    \/ \E again \in BOOLEAN : ReturnTimer(again)
    \/ ReturnInput

LoopSpec == LoopInit /\ [][LoopNext]_loopVars

-----------------------------------------------------------------------------
(* Properties *)

LoopTypeOK ==
    /\ ev \in [Events -> [type : {"free", "input", "timer"}, conn : TCPCs \cup {None},
                          fd : Fds \cup {None}, queue : BOOLEAN, inserted : BOOLEAN,
                          timeout : BOOLEAN, due : {"no", "io", "timeout"},
                          validate : BOOLEAN, in_callback : BOOLEAN, removed : BOOLEAN]]
    /\ chain \in [Fds -> Seq(Events)] /\ active \in Seq(Events)
    /\ holder \in [Fds -> TCPCs \cup {None}]
    /\ tcpc \in [TCPCs -> [fd : Fds \cup {None}, wbuf : BOOLEAN]]
    /\ running \in Events \cup {None} /\ failed \in {"no", "stray", "reset", "full"}

(* No queue or table of the loop refers to an event that was freed, and none is
   freed while its callback runs or forgotten after it: a descriptor's chain is
   its live inputs, the active queue is the events that are due, and only the
   event that is running is still there after it was removed.  The one exception
   is the event input_add frees when libevent had no room (failed = "full"). *)
QueuesLive ==
    /\ LoopTypeOK
    /\ \A f \in Fds : /\ IsInjective(chain[f])
                      /\ ToSet(chain[f]) = {e \in Live : ev[e].fd = f}
    /\ IsInjective(active) /\ ToSet(active) = {e \in Live : ev[e].due # "no"}
    /\ \A e \in Events : /\ ev[e].in_callback <=> e = running
                         /\ ev[e].removed => e = running

(* An owner is never called for a connection it closed: an input that may still
   fire belongs to a connection that is there, on the very descriptor the
   kernel opened for it, so the loop does not wait for a closed descriptor
   either; a connection with data in its write queue has an input that will
   write it; and the second close of a connection whose input timed out does
   not close the descriptor of another one. *)
OwnersCalled ==
    /\ \A e \in Live : ev[e].type = "input" /\ ~ev[e].removed =>
          /\ tcpc[ev[e].conn].fd = ev[e].fd
          /\ holder[ev[e].fd] = ev[e].conn
          /\ ev[e].inserted \/ ev[e].due = "timeout"
    /\ \A c \in TCPCs : tcpc[c].wbuf /\ c # Owed =>
          \E e \in Live : ev[e].queue /\ ev[e].conn = c
    /\ failed # "stray"
=============================================================================
