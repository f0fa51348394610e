------------------------------ MODULE MCDownConn ------------------------------
(* Instances of DownConn for TLC: connections and hashes are model values. *)
EXTENDS DownConn
=============================================================================
