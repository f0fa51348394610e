------------------------------ MODULE MCSessions ------------------------------
(* Instance of Sessions for TLC: two session objects and two supernodes, so  *)
(* that attempts run in parallel, nodes run out and memory does.             *)
EXTENDS Sessions
=============================================================================
