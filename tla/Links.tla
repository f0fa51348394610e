------------------------------- MODULE Links -------------------------------
(***************************************************************************)
(* What the search manager and the share manager see of the rest of the    *)
(* library: the supernodes we have a session with, and the program the     *)
(* library is part of.                                                     *)
(***************************************************************************)
CONSTANT Hosts   \* supernodes

VARIABLES
    connected,   \* hosts of man->connected in the session manager
    client       \* "gift", "dll" or "server"
=============================================================================
