------------------------------ MODULE MCUploadMan ------------------------------
(***************************************************************************)
(* Instances of UploadMan for TLC.  Peers and uploads are model values;    *)
(* Polite, a constant of its own, breaks the symmetry of Peers where it is *)
(* not all of them.                                                        *)
(***************************************************************************)
EXTENDS UploadMan, TLC

HostUploadSymmetry == Permutations(Peers) \cup Permutations(Uploads)

(* Tidy is the SelectSeq of the fresh entries, for every short queue. *)
ASSUME TidyIsSelect ==
    \A n \in 0 .. 4 : \A q \in [1 .. n -> [host : Peers, age : 0 .. QueueTimeout + 1]] :
        Tidy(q) = SelectSeq(q, LAMBDA e : e.age <= QueueTimeout)
=============================================================================
