------------------------------ MODULE Announce ------------------------------
(***************************************************************************)
(* Searches and shares over sessions that come and go: the session manager *)
(* sends the searches that wait and then all shares to each supernode it   *)
(* connects to (session_state_cb in as_session_man.c), and both managers   *)
(* send what is new to all the sessions there are.  How sessions come up   *)
(* and end is the subject of module Sessions; here they do so at any time. *)
(***************************************************************************)
EXTENDS Search, Shares

annVars == <<searchVars, shareVars, connected, client>>

AnnInit ==
    /\ SearchInit
    /\ SharesInit
    /\ connected = {}
    /\ client \in {"gift", "dll", "server"}

(* Mutant of SessionUp: searches that wait are not sent. *)
SessionUpSharesOnly(h) ==
    /\ ~failed /\ client # "server" /\ h \notin connected
    /\ connected' = connected \cup {h}
    /\ SearchLostSession(h)
    /\ SharesNewSession(h)
    /\ UNCHANGED client

(* SESSION_CONNECTED; the file server never asks for connections. *)
SessionUp(h) ==
    /\ ~failed /\ client # "server" /\ h \notin connected
    /\ connected' = connected \cup {h}
    /\ SearchNewSession(h)
    /\ SharesNewSession(h)
    /\ UNCHANGED client

SessionDown(h) ==
    /\ ~failed /\ h \in connected
    /\ connected' = connected \ {h}
    /\ SearchLostSession(h)
    /\ SharesLostSession(h)
    /\ UNCHANGED client

AnnNext ==
    \/ \E h \in Hosts : SessionUp(h) \/ SessionDown(h)
    \/ SearchStep /\ UNCHANGED <<shareVars, connected, client>>
    \/ ~failed /\ SharesStep /\ UNCHANGED <<searchVars, connected, client>>

AnnSpec == AnnInit /\ [][AnnNext]_annVars

(* The event loop runs a timer that is due. *)
AnnFairness == \A s \in Slots : WF_annVars(FinishTimer(s) /\ UNCHANGED <<shareVars, connected, client>>)

AnnFairSpec == AnnSpec /\ AnnFairness
=============================================================================
