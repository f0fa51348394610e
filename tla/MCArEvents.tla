----------------------------- MODULE MCArEvents -----------------------------
(* Instances of ArEvents for TLC. *)
EXTENDS ArEvents, TLC

CONSTANTS m, a, b

OneUser == {m}
TwoUsers == {m, a}
ThreeUsers == {m, a, b}

OtherSymmetry == Permutations({a, b})
=============================================================================
