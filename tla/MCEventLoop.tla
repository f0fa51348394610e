----------------------------- MODULE MCEventLoop ------------------------------
(* The event loop with two connections that share two descriptors, and events
   for the timer, an input and a write queue of each connection; and the hash
   table it keeps its inputs in (of which EventLoop takes what Map says): a
   behaviour is one of the first or one of the second. *)
EXTENDS EventLoop, HashTable, TLC
CONSTANTS e1, e2, e3, e4, e5, c1, c2, f1, f2

VARIABLE subject

MCEvents == {e1, e2, e3, e4, e5}
MCTCPCs == {c1, c2}
MCFds == {f1, f2}

(* e1 is the first timer; the others are alike. *)
Symmetry == Permutations({e2, e3, e4, e5}) \cup Permutations(MCTCPCs) \cup Permutations(MCFds)

(* Integer keys are their own hash values.  The table grows twice. *)
MCKeys == 0 .. 4
MCHashOf == [k \in MCKeys |-> k]
MCPrimes == <<2, 3, 5>>

MCInit == subject \in {"loop", "table"} /\ LoopInit /\ TableInit
MCNext ==
    /\ \/ subject = "loop" /\ LoopNext /\ UNCHANGED tableVars
       \/ subject = "table" /\ TableNext /\ UNCHANGED loopVars
    /\ UNCHANGED subject
MCSpec == MCInit /\ [][MCNext]_<<loopVars, tableVars, subject>>
=============================================================================
