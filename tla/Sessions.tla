-------------------------------- MODULE Sessions --------------------------------
(***************************************************************************)
(* Sessions with supernodes: the session manager (as_session_man.c), its   *)
(* ASSessions (as_session.c), the node cache they take addresses from      *)
(* (as_node_man.c) and the network information they report to              *)
(* (as_netinfo.c).                                                         *)
(*                                                                         *)
(* A session that ends calls session_state_cb, which frees it and calls    *)
(* sessman_maintain, which drops other sessions or opens some.  All of it  *)
(* is one step, except that the loop over nodes takes a step for each node *)
(* it tries; nothing else happens until it ends (filling).                 *)
(*                                                                         *)
(* The cache is a list of ASNodes and an index by host.  A host that is    *)
(* loaded again gets another ASNode, and the index leads to the last one   *)
(* only: the others stay in the list and can still be tried.  So node[h]   *)
(* is the sequence of the nodes made for h, the last the indexed one.      *)
(* Nodes are sorted by a weight nothing else depends on; the model takes   *)
(* any usable one.  Only the ping and pong timers need a clock, in         *)
(* minutes; the others may expire at any time.                             *)
(***************************************************************************)
EXTENDS Integers, Sequences, FiniteSets, SequencesExt, FiniteSetsExt, Functions

CONSTANTS
    Sessions,           \* ASSession objects
    Hosts,              \* addresses of supernodes
    MaxWanted,          \* bound: connections asked for
    MaxNodes,           \* bound: ASNodes a load may bring the cache to
    ParallelAttempts,   \* AS_SESSION_PARALLEL_ATTEMPTS
    Null                \* the host of a session that is free

ASSUME SessionsAssumption ==
    /\ IsFiniteSet(Sessions) /\ IsFiniteSet(Hosts)
    /\ Null \notin Hosts
    /\ MaxWanted \in Nat /\ MaxNodes \in Nat
    /\ ParallelAttempts \in Nat \ {0}

VARIABLES
    session,        \* Sessions -> ASSession
    connecting,     \* man->connecting, a set
    connected,      \* man->connected
    connections,    \* man->connections
    node,           \* nodeman->nodes and ->index: Hosts -> Seq(ASNode)
    info,           \* ASNetInfo
    filling,        \* sessman_maintain is in its loop
    ranOut,         \* the last sessman_maintain returned early (history)
    emptied,        \* the node cache was emptied under sessions (history)
    failed          \* an assert () failed

man == <<connecting, connected, connections>>
vars == <<session, connecting, connected, connections, node, info,
          filling, ranOut, emptied, failed>>

-----------------------------------------------------------------------------
(* Constants and types of the code.                                        *)

PingInterval == 3       \* AS_SESSION_PING_INTERVAL, minutes
PingTimeout == 2        \* AS_SESSION_PING_TIMEOUT
Off == -1               \* INVALID_TIMER

NewNode(tried) == [in_use |-> FALSE, tried |-> tried]

Freed == [state |-> "free", host |-> Null, waits |-> "none",
          handshake |-> FALSE, ping |-> Off, pong |-> Off]
Connecting(h) == [Freed EXCEPT !.state = "CONNECTING", !.host = h,
                               !.waits = "write"]

Live(ses) == {s \in Sessions : ses[s].state # "free"}
In(st) == {s \in Sessions : session[s].state = st}

-----------------------------------------------------------------------------
(* The node manager.                                                       *)

(* as_nodeman_update_failed or _disconnected for the hosts H: they look in *)
(* the index, and ignore a host that is not there.                         *)
Released(nodes, H) ==
    [h \in Hosts |-> IF h \in H /\ nodes[h] # <<>>
                     THEN [nodes[h] EXCEPT ![Len(nodes[h])].in_use = FALSE]
                     ELSE nodes[h]]

(* What as_nodeman_next may return: it goes through the list.  It marks a  *)
(* node tried, so that the next call will not return it again.             *)
Eligible(nodes) ==
    {n \in UNION {{h} \X DOMAIN nodes[h] : h \in Hosts} :
        ~nodes[n[1]][n[2]].in_use /\ ~nodes[n[1]][n[2]].tried}
Taken(nodes, h, i) == [nodes EXCEPT ![h][i] = [in_use |-> TRUE, tried |-> TRUE]]

(* as_nodeman_update_reported for the hosts R *)
Reported(nodes, R) ==
    [h \in Hosts |-> IF h \in R /\ nodes[h] = <<>> THEN <<NewNode(FALSE)>>
                     ELSE nodes[h]]

-----------------------------------------------------------------------------
(* sessman_maintain, called when sessions, nodes and lists are as given.   *)

(* Mutant of HandleConnect: only a change of what is wanted counts. *)
HandleConnectWanted(i, want, have) ==
    IF i.want = want THEN i ELSE [i EXCEPT !.want = want, !.have = have]

(* as_netinfo_handle_connect *)
HandleConnect(i, want, have) ==
    [i EXCEPT !.want = want, !.have = have]

FreeAll(ses, S) == [s \in Sessions |-> IF s \in S THEN Freed ELSE ses[s]]
HostsOf(ses, S) == {ses[s].host : s \in S}

(* Mutant of Trim: attempts under way are not stopped. *)
TrimKeepsAttempts(ses, nodes, ing, ed, want, inf) ==
    LET gone == {ed[i] : i \in 1 .. (Len(ed) - want)}
    IN  /\ session' = FreeAll(ses, gone)
        /\ node' = Released(nodes, HostsOf(ses, gone))
        /\ connecting' = ing
        /\ connected' = SubSeq(ed, Len(ed) - want + 1, Len(ed))
        /\ info' = HandleConnect(inf, want, want)
        /\ filling' = FALSE /\ ranOut' = FALSE

(* Nothing is wanted, or enough is there: stop what is connecting, and    *)
(* drop superfluous sessions from the front of the list.                  *)
Trim(ses, nodes, ing, ed, want, inf) ==
    LET gone == ing \cup {ed[i] : i \in 1 .. (Len(ed) - want)}
    IN  /\ session' = FreeAll(ses, gone)
        /\ node' = Released(nodes, HostsOf(ses, gone))
        /\ connecting' = {}
        /\ connected' = SubSeq(ed, Len(ed) - want + 1, Len(ed))
        /\ info' = HandleConnect(inf, want, want)
        /\ filling' = FALSE /\ ranOut' = FALSE

(* More is wanted: the loop tries nodes, unless enough sessions are        *)
(* connecting already.                                                     *)
Fill(ses, nodes, ing, ed, want, inf) ==
    /\ session' = ses /\ node' = nodes
    /\ connecting' = ing /\ connected' = ed
    /\ filling' = (Cardinality(ing) < ParallelAttempts)
    /\ IF filling' THEN info' = inf /\ ranOut' = ranOut
       ELSE info' = HandleConnect(inf, want, Len(ed)) /\ ranOut' = FALSE

Maintain(ses, nodes, ing, ed, want, inf) ==
    IF want <= Len(ed) THEN Trim(ses, nodes, ing, ed, want, inf)
                       ELSE Fill(ses, nodes, ing, ed, want, inf)

(* A turn of the loop that gets node n from as_nodeman_next and session s. *)
(* With the last session wanted the function ends, and the network         *)
(* information is told.                                                    *)
AttemptStarts(n, s) ==
    /\ filling /\ n \in Eligible(node) /\ s \notin Live(session)
    /\ session' = [session EXCEPT ![s] = Connecting(n[1])]
    /\ node' = Taken(node, n[1], n[2])
    /\ connecting' = connecting \cup {s}
    /\ filling' = (Cardinality(connecting) + 1 < ParallelAttempts)
    /\ IF filling' THEN info' = info /\ ranOut' = ranOut
       ELSE info' = HandleConnect(info, connections, Len(connected)) /\ ranOut' = FALSE
    /\ UNCHANGED <<connected, connections, emptied, failed>>

(* as_session_connect fails: another node is tried. *)
AttemptFails(n) ==
    /\ filling /\ n \in Eligible(node) /\ Live(session) # Sessions
    /\ node' = Released(Taken(node, n[1], n[2]), {n[1]})
    /\ UNCHANGED <<session, man, info, filling, ranOut, emptied, failed>>

(* No memory for a session (no object of Sessions is free): the function   *)
(* returns at once, before the network information is told.                *)
NoMemory(n) ==
    /\ filling /\ n \in Eligible(node) /\ Live(session) = Sessions
    /\ node' = Released(Taken(node, n[1], n[2]), {n[1]})
    /\ filling' = FALSE /\ ranOut' = TRUE
    /\ UNCHANGED <<session, man, info, emptied, failed>>

(* No node is left: the same. *)
NoNodes ==
    /\ filling /\ Eligible(node) = {}
    /\ filling' = FALSE /\ ranOut' = TRUE
    /\ UNCHANGED <<session, man, node, info, emptied, failed>>

Loop ==
    \/ NoNodes
    \/ \E n \in Eligible(node) :
          AttemptFails(n) \/ NoMemory(n) \/ \E s \in Sessions : AttemptStarts(n, s)

-----------------------------------------------------------------------------
(* session_error and the callback it raises.                               *)

(* Mutant of SessionError: the node manager is not told. *)
SessionErrorSilent(s, nodes) ==
    /\ Maintain(FreeAll(session, {s}), nodes, connecting \ {s},
                RemoveFirst(connected, s), connections, info)
    /\ UNCHANGED <<connections, emptied, failed>>

(* SESSION_FAILED or SESSION_DISCONNECTED: the node manager is told, the  *)
(* session taken off its list and freed, "keep things running".           *)
SessionError(s, nodes) ==
    /\ Maintain(FreeAll(session, {s}), Released(nodes, {session[s].host}),
                connecting \ {s}, RemoveFirst(connected, s),
                connections, info)
    /\ UNCHANGED <<connections, emptied, failed>>

-----------------------------------------------------------------------------
(* Events of a session.                                                    *)

(* Mutant of SessionConnected: a slow handshake is not timed. *)
SessionConnectedUntimed(s) ==
    /\ session[s].waits = "write"
    /\ session' = [session EXCEPT ![s].state = "HANDSHAKING", ![s].waits = "read"]
    /\ UNCHANGED <<man, node, info, filling, ranOut, emptied, failed>>

(* session_connected: the SYN packet is sent. *)
SessionConnected(s) ==
    /\ session[s].waits = "write"
    /\ session' = [session EXCEPT ![s].state = "HANDSHAKING", ![s].waits = "read",
                                  ![s].handshake = TRUE]
    /\ UNCHANGED <<man, node, info, filling, ranOut, emptied, failed>>

(* The connection attempt fails or times out, or SYN cannot be sent. *)
ConnectFails(s) ==
    /\ session[s].waits = "write"
    /\ SessionError(s, node)

(* session_get_packet: the connection was closed, or a packet that is no  *)
(* acceptable ACK arrived (unknown, busy, short or legacy).               *)
ReadFails(s) ==
    /\ session[s].waits = "read"
    /\ SessionError(s, node)

(* session_handshake: the ACK brings addresses R of other nodes, but our  *)
(* answer cannot be sent.                                                 *)
HandshakeFails(s, R) ==
    /\ session[s].waits = "read" /\ session[s].state = "HANDSHAKING"
    /\ SessionError(s, Reported(node, R))

(* session_handshake ends well.  If session_state_cb has room for it the  *)
(* session gets queued searches and our shares, other attempts stop when  *)
(* there are enough sessions, and the first ping is sent.  Unless part of *)
(* another packet is left in the buffer, the read handler disarms the     *)
(* pong timer right away.                                                 *)
Established(s, R, rest) ==
    LET up == [Freed EXCEPT !.state = "CONNECTED", !.host = session[s].host,
                            !.waits = "read", !.ping = PingInterval,
                            !.pong = IF rest THEN PingTimeout ELSE Off]
    IN  /\ session[s].waits = "read" /\ session[s].state = "HANDSHAKING"
        /\ IF Len(connected) < connections
           THEN /\ Maintain([session EXCEPT ![s] = up], Reported(node, R),
                            connecting \ {s}, <<s>> \o connected, connections,
                            info)
                /\ UNCHANGED <<connections, emptied, failed>>
           ELSE SessionError(s, Reported(node, R))

(* Its time is up before the handshake is complete; part of an ACK that *)
(* arrived made no difference.                                           *)
HandshakeTimeout(s) ==
    /\ session[s].handshake
    /\ SessionError(s, node)

(* A packet of an established session goes to session_packet_cb, which    *)
(* hands it to other managers or notes numbers nothing here depends on; a *)
(* compressed one (PACKET_SHARE) fails an assert.  Only if no part of     *)
(* another packet is left is the pong timer disarmed.                     *)
Packet(s, what, rest) ==
    /\ session[s].state = "CONNECTED"
    /\ session' = IF rest THEN session ELSE [session EXCEPT ![s].pong = Off]
    /\ failed' = IF what = "SHARE" THEN "compressed" ELSE failed
    /\ UNCHANGED <<man, node, info, filling, ranOut, emptied>>

PacketTypes == {"SHARE", "other"}

(* session_ping; whether the packet could be sent is ignored. *)
Ping(s) ==
    /\ session[s].ping = 0
    /\ session' = [session EXCEPT ![s].ping = PingInterval, ![s].pong = PingTimeout]
    /\ failed' = IF session[s].pong = Off THEN failed ELSE "ping"
    /\ UNCHANGED <<man, node, info, filling, ranOut, emptied>>

(* session_ping_timeout *)
PongTimeout(s) ==
    /\ session[s].pong = 0
    /\ SessionError(s, node)

Older(t) == IF t = Off THEN Off ELSE t - 1

(* A minute passes. *)
Tick ==
    /\ \A s \in Sessions : session[s].ping # 0 /\ session[s].pong # 0
    /\ session' = [s \in Sessions |-> [session[s] EXCEPT
                      !.ping = Older(@), !.pong = Older(@)]]
    /\ UNCHANGED <<man, node, info, filling, ranOut, emptied, failed>>

-----------------------------------------------------------------------------
(* Calls of the owner and the maintenance timer.                           *)

(* as_sessman_connect, by the user or when the manager is freed *)
Connect(n) ==
    /\ connections' = n
    /\ Maintain(session, node, connecting, connected, n, info)
    /\ UNCHANGED <<emptied, failed>>

(* Mutant of MaintenanceTimer: only attempts under way are looked after. *)
MaintenanceTimerConnecting ==
    /\ connecting # {}
    /\ Maintain(session, node, connecting, connected, connections, info)
    /\ UNCHANGED <<connections, emptied, failed>>

(* maintenance_timer_func *)
MaintenanceTimer ==
    /\ Maintain(session, node, connecting, connected, connections, info)
    /\ UNCHANGED <<connections, emptied, failed>>

(* Ten minutes after an attempt a node may be tried again. *)
Expire(h, i) ==
    /\ i \in DOMAIN node[h] /\ node[h][i].tried
    /\ node' = [node EXCEPT ![h][i].tried = FALSE]
    /\ UNCHANGED <<session, man, info, filling, ranOut, emptied, failed>>

(* A line of the file as_nodeman_load reads: there is a new node, which    *)
(* was tried less than ten minutes ago or was not, and the index leads to  *)
(* it, whatever nodes of the host there are.  A file is so many of these.  *)
Load(h, tried) ==
    /\ FoldSet(LAMBDA k, sum : Len(node[k]) + sum, 0, Hosts) < MaxNodes
    /\ node' = [node EXCEPT ![h] = Append(@, NewNode(tried))]
    /\ UNCHANGED <<session, man, info, filling, ranOut, emptied, failed>>

(* as_nodeman_empty *)
Empty ==
    /\ node' = [h \in Hosts |-> <<>>]
    /\ emptied' = (emptied \/ Live(session) # {})
    /\ UNCHANGED <<session, man, info, filling, ranOut, failed>>

-----------------------------------------------------------------------------
(* as_sessman_create, as_nodeman_create, as_netinfo_create *)
Init ==
    /\ session = [s \in Sessions |-> Freed]
    /\ connecting = {} /\ connected = <<>> /\ connections = 0
    /\ node = [h \in Hosts |-> <<>>]
    /\ info = [want |-> 0, have |-> 0]
    /\ filling = FALSE /\ ranOut = FALSE /\ emptied = FALSE /\ failed = "no"

Event(s) ==
    \/ SessionConnected(s) \/ ConnectFails(s) \/ ReadFails(s)
    \/ HandshakeTimeout(s) \/ Ping(s) \/ PongTimeout(s)
    \/ \E R \in SUBSET Hosts :
          HandshakeFails(s, R) \/ \E rest \in BOOLEAN : Established(s, R, rest)
    \/ \E what \in PacketTypes, rest \in BOOLEAN : Packet(s, what, rest)

(* What may happen when no handler is at work. *)
Handler ==
    \/ \E s \in Sessions : Event(s)
    \/ Tick \/ MaintenanceTimer \/ Empty
    \/ \E n \in 0 .. MaxWanted : Connect(n)
    \/ \E h \in Hosts : \E i \in DOMAIN node[h] : Expire(h, i)
    \/ \E h \in Hosts, tried \in BOOLEAN : Load(h, tried)

Next ==
    /\ failed = "no"
    /\ \/ Loop
       \/ ~filling /\ Handler

Spec == Init /\ [][Next]_vars

(* Timers run when they are due, and the maintenance timer runs again and  *)
(* again; supernodes and the user need not do anything.  A loop goes on    *)
(* until it ends, and does not count as time in which a timer was not due. *)
Fairness ==
    /\ WF_vars(Loop)
    /\ <>[](filling \/ ENABLED <<MaintenanceTimer>>_vars)
          => []<><<~filling /\ MaintenanceTimer>>_vars
    /\ \A s \in Sessions :
          /\ <>[](filling \/ ENABLED <<ConnectFails(s)>>_vars)
                => []<><<~filling /\ ConnectFails(s)>>_vars
          /\ <>[](filling \/ ENABLED <<HandshakeTimeout(s)>>_vars)
                => []<><<~filling /\ HandshakeTimeout(s)>>_vars
FairSpec == Spec /\ Fairness

-----------------------------------------------------------------------------
(* Properties.                                                             *)

SessionType ==
    [state : {"free", "CONNECTING", "HANDSHAKING", "CONNECTED"},
     host : Hosts \cup {Null}, waits : {"none", "write", "read"},
     handshake : BOOLEAN, ping : Off .. PingInterval, pong : Off .. PingTimeout]

(* Every variable has its type, no timer is overdue, and no ping is sent  *)
(* while the answer to the one before is awaited: the assert () that fails *)
(* is the one a compressed packet runs into.                               *)
TypeOK ==
    /\ session \in [Sessions -> SessionType]
    /\ connecting \subseteq Sessions /\ connected \in Seq(Sessions)
    /\ connections \in 0 .. MaxWanted
    /\ node \in [Hosts -> Seq([in_use : BOOLEAN, tried : BOOLEAN])]
    /\ info \in [want : 0 .. MaxWanted, have : 0 .. MaxWanted]
    /\ filling \in BOOLEAN /\ ranOut \in BOOLEAN /\ emptied \in BOOLEAN
    /\ failed \in {"no", "compressed"}

(* The lists hold each live session once, where its state says, and no    *)
(* freed one; never more sessions are established than wanted, and once   *)
(* they are no more attempts are under way.  What the network information *)
(* shows of them is true between two events, unless the last time sessions *)
(* were maintained nodes or memory ran out.                               *)
ListsConsistent ==
    /\ TypeOK
    /\ connecting = In("CONNECTING") \cup In("HANDSHAKING")
    /\ ToSet(connected) = In("CONNECTED") /\ IsInjective(connected)
    /\ Len(connected) <= connections /\ Cardinality(connecting) <= ParallelAttempts
    /\ Len(connected) = connections => connecting = {}
    /\ ~filling /\ ~ranOut => info.want = connections /\ info.have = Len(connected)

(* A node is in use exactly as long as a session uses it, however that     *)
(* session ends, and no two sessions go to one host: a node marked in use  *)
(* for ever could never be tried again.  Two things can break that.  When  *)
(* the cache is emptied under the sessions, a node reported anew is not    *)
(* known to be in use.  When a host was loaded again, its older nodes are  *)
(* tried, too, but never released: then no more holds than that each       *)
(* session has a node in use.                                              *)
InUse(n) == {i \in DOMAIN n : n[i].in_use}
SessionsAt(h) == {s \in Live(session) : session[s].host = h}
NodesInUse ==
    ~emptied => \A h \in Hosts :
        /\ Cardinality(SessionsAt(h)) <= Cardinality(InUse(node[h]))
        /\ Len(node[h]) <= 1 => Cardinality(SessionsAt(h)) = Cardinality(InUse(node[h]))

(* as_node.h calls in_use "TRUE if there is a session using this node": a  *)
(* host that is in use has a session.  It is not so once it was loaded     *)
(* again, as ar_connect does each time.                                    *)
InUseHasSession ==
    ~emptied => \A h \in Hosts : InUse(node[h]) # {} => SessionsAt(h) # {}

(* While sessions are missing and a node could be tried, attempts are     *)
(* under way or the maintenance timer starts one, even if nodes had run   *)
(* out before.                                                            *)
NodesTried ==
    (Len(connected) < connections /\ Eligible(node) # {})
        ~> (connecting # {} \/ Len(connected) = connections \/ Eligible(node) = {})

(* No supernode can hold an attempt, not even one that sends its ACK bit  *)
(* by bit: each is established or ends.                                   *)
Attempt(s, h) == s \in connecting /\ session[s].host = h
AttemptsEnd ==
    \A s \in Sessions, h \in Hosts : Attempt(s, h) ~> ~Attempt(s, h)
=============================================================================
