------------------------------- MODULE MCDownMan -------------------------------
(* Instances of DownMan for TLC. *)
EXTENDS DownMan, TLC

Symmetry == Permutations(Downloads) \cup Permutations(Hashes)
=============================================================================
