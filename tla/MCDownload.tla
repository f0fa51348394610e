----------------------------- MODULE MCDownload -----------------------------
(* Instances of Download for TLC. *)
EXTENDS Download, TLC

CONSTANTS c1, c2, c3

TwoConns == {c1, c2}
ThreeConns == {c1, c2, c3}
NoSources == {}
Second == {c2}

Symmetry == Permutations(Conns)

(* The run about many sources looks at one active download before data   *)
(* arrives.                                                              *)
Beginning ==
    /\ dl_state \in {"NEW", "ACTIVE"} /\ received = 0
    /\ dl_state = "NEW" => ~file.exists
=============================================================================
