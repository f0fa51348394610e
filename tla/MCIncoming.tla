----------------------------- MODULE MCIncoming -------------------------------
(* The two ends of HTTP: the server with two connections, or the client; a behaviour is one of the first or one of
   the second. *)
EXTENDS Incoming, HttpClient
CONSTANTS c1, c2

VARIABLE subject

MCConns == {c1, c2}

(* Two ports, one of them also as a value that in_port_t cuts down to it, one
   that is cut down to 0, and 0. *)
MCPortValues == {0, 1, 2, 3, 4}

MCInit == subject \in {"server", "client"} /\ Init /\ ClientInit
MCNext ==
    /\ \/ subject = "server" /\ Next /\ UNCHANGED clientVars
       \/ subject = "client" /\ ClientNext /\ UNCHANGED vars
    /\ UNCHANGED subject
MCSpec == MCInit /\ [][MCNext]_<<vars, clientVars, subject>> /\ Fairness
=============================================================================
