----------------------------- MODULE MCAnnounce -----------------------------
EXTENDS Announce

CONSTANTS s1, s2, h1, x

(* The two managers share nothing but the sessions, so behaviours with
   searches and behaviours with shares are explored side by side. *)
OneManager ==
    \/ nextId = INVALID_SEARCH_ID + 1 /\ Alive = {} /\ clash = {}
    \/ /\ offered = {} /\ pending = <<>> /\ shares = <<>> /\ ~batching
       /\ server.hups = 0 /\ \A h \in Hosts : told[h] \cup unsent[h] = {}

(* A supernode remembers at most two of our queries. *)
FewQueries == \A h \in Hosts : Cardinality(asked[h]) <= 2

(* What happens after a result went astray is not followed. *)
NothingAstray == foreign = {} /\ lost = {}

MCFiles == {"f", "g", "k"}
MCHashOf == [f \in MCFiles |-> IF f = "k" THEN "y" ELSE "x"]
MCSizeOf == [f \in MCFiles |-> 1]
=============================================================================
