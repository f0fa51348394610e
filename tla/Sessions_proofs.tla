--------------------------- MODULE Sessions_proofs ---------------------------
(***************************************************************************)
(* Proofs about Sessions for any finite sets of sessions and supernodes    *)
(* and any limits: both lists of the session manager hold what they should *)
(* however a session ends, and so do the marks of the nodes in use.        *)
(*                                                                         *)
(* Most actions change a session, the nodes and the lists and then run     *)
(* sessman_maintain on the result.  Ready says what that result must       *)
(* satisfy; MaintainFacts, that sessman_maintain turns it into a good      *)
(* state.                                                                  *)
(***************************************************************************)
EXTENDS Sessions, ListFacts

(* The situations a session can be in.  A pong timer runs one minute       *)
(* ahead of the ping timer, so that it is never set when the latter fires. *)
Fresh(r) ==
    r.host = Null /\ r.waits = "none" /\ r.ping = Off /\ r.pong = Off
Attempting(r) ==
    /\ r.host \in Hosts /\ r.ping = Off /\ r.pong = Off
    /\ r.state = "CONNECTING" => r.waits = "write"
    /\ r.state = "HANDSHAKING" => r.waits = "read"
Up(r) ==
    /\ r.host \in Hosts /\ r.waits = "read" /\ r.ping >= 0
    /\ r.pong = Off \/ r.pong = r.ping - 1
TimesHandshake(r) == r.handshake = TRUE <=> r.state = "HANDSHAKING"

RecOK(r) ==
    /\ r \in SessionType
    /\ TimesHandshake(r)
    /\ r.state = "free" => Fresh(r)
    /\ r.state \in {"CONNECTING", "HANDSHAKING"} => Attempting(r)
    /\ r.state = "CONNECTED" => Up(r)

StateIn(ses, st) == {s \in Sessions : ses[s].state \in st}
Attempts == {"CONNECTING", "HANDSHAKING"}

(* Both lists, given the sessions. *)
ListsOK(ses, ing, ed) ==
    /\ ing = StateIn(ses, Attempts)
    /\ ed \in Seq(Sessions) /\ ToSet(ed) = StateIn(ses, {"CONNECTED"})
    /\ IsInjective(ed)
    /\ Cardinality(ing) <= ParallelAttempts

NodeType == [in_use : BOOLEAN, tried : BOOLEAN]

(* No more sessions go to a host than it has nodes in use; as many, unless *)
(* it was loaded again.                                                    *)
At(ses, h) == {s \in Live(ses) : ses[s].host = h}
OwnNodes(ses, nodes) ==
    \A h \in Hosts :
        /\ Cardinality(At(ses, h)) <= Cardinality(InUse(nodes[h]))
        /\ Len(nodes[h]) <= 1 => Cardinality(At(ses, h)) = Cardinality(InUse(nodes[h]))

Ready(ses, nodes, ing, ed) ==
    /\ ses \in [Sessions -> SessionType]
    /\ \A s \in Sessions : RecOK(ses[s])
    /\ nodes \in [Hosts -> Seq(NodeType)]
    /\ ListsOK(ses, ing, ed)
    /\ emptied = FALSE => OwnNodes(ses, nodes)

InfoType == [want : 0 .. MaxWanted, have : 0 .. MaxWanted]

(* What sessman_maintain establishes besides. *)
Reports ==
    /\ Len(connected) <= connections
    /\ Len(connected) = connections => connecting = {}
    /\ info \in InfoType
    /\ filling = TRUE => /\ Len(connected) < connections
                         /\ Cardinality(connecting) < ParallelAttempts
    /\ filling = FALSE /\ ranOut = FALSE => info.want = connections /\ info.have = Len(connected)

Flags == /\ connections \in 0 .. MaxWanted
         /\ filling \in BOOLEAN /\ ranOut \in BOOLEAN /\ emptied \in BOOLEAN
         /\ failed \in {"no", "compressed"}

IndInv == Ready(session, node, connecting, connected) /\ Reports /\ Flags

-----------------------------------------------------------------------------
(***************************************************************************)
(* Lists.                                                                  *)
(***************************************************************************)

(* sessman_maintain drops sessions from the front. *)
LEMMA DropFacts ==
    ASSUME NEW q \in Seq(Sessions), IsInjective(q),
           NEW want \in Nat, want <= Len(q)
    PROVE  LET rest == SubSeq(q, Len(q) - want + 1, Len(q))
           IN  /\ rest \in Seq(Sessions) /\ Len(rest) = want
               /\ IsInjective(rest)
               /\ ToSet(rest) = ToSet(q) \ {q[i] : i \in 1 .. (Len(q) - want)}
<1> DEFINE k == Len(q) - want
           rest == SubSeq(q, k + 1, Len(q))
<1>1. k \in Nat /\ Len(q) \in Nat /\ Len(q) = k + want
  OBVIOUS
<1>2. /\ rest \in Seq(Sessions) /\ Len(rest) = want
      /\ \A j \in 1 .. want : rest[j] = q[k + j]
  <2>1. \A j \in k + 1 .. Len(q) : q[j] \in Sessions
    OBVIOUS
  <2>2. /\ rest \in Seq(Sessions)
        /\ Len(rest) = IF k + 1 <= Len(q) THEN Len(q) - (k + 1) + 1 ELSE 0
        /\ \A j \in 1 .. Len(q) - (k + 1) + 1 : rest[j] = q[k + 1 + j - 1]
    BY <1>1, <2>1, SubSeqProperties
  <2> HIDE DEF rest
  <2> QED BY <1>1, <2>2
<1>3. IsInjective(rest)
  <2> HIDE DEF rest
  <2>1. DOMAIN rest = 1 .. want
    BY <1>2
  <2> SUFFICES ASSUME NEW i \in 1 .. want, NEW j \in 1 .. want, rest[i] = rest[j]
               PROVE  i = j
    BY <2>1 DEF IsInjective
  <2>2. k + i \in 1 .. Len(q) /\ k + j \in 1 .. Len(q) /\ q[k + i] = q[k + j]
    BY <1>1, <1>2
  <2>3. k + i = k + j
    BY <2>2 DEF IsInjective
  <2> QED BY <1>1, <2>3
<1>4. ASSUME NEW x \in ToSet(rest)
      PROVE  x \in ToSet(q) \ {q[i] : i \in 1 .. k}
  <2> HIDE DEF rest
  <2>1. PICK j \in 1 .. want : x = rest[j]
    BY <1>2 DEF ToSet
  <2>2. k + j \in 1 .. Len(q) /\ x = q[k + j]
    BY <1>1, <1>2, <2>1
  <2>3. \A i \in 1 .. k : q[i] # x
    BY <1>1, <2>2 DEF IsInjective
  <2> QED BY <2>2, <2>3 DEF ToSet
<1>5. ASSUME NEW x \in ToSet(q) \ {q[i] : i \in 1 .. k}
      PROVE  x \in ToSet(rest)
  <2> HIDE DEF rest
  <2>1. PICK m \in 1 .. Len(q) : x = q[m]
    BY DEF ToSet
  <2>2. m \notin 1 .. k
    BY <2>1, <1>5
  <2>3. m - k \in 1 .. want /\ k + (m - k) = m
    BY <1>1, <2>2
  <2>4. rest[m - k] = x
    BY <1>2, <2>1, <2>3
  <2> QED BY <1>2, <2>3, <2>4 DEF ToSet
<1> HIDE DEF rest, k
<1>6. ToSet(rest) = ToSet(q) \ {q[i] : i \in 1 .. k}
  BY <1>4, <1>5
<1> QED BY <1>2, <1>3, <1>6 DEF rest, k

(* A session that is established is put in front. *)
LEMMA FrontFacts ==
    ASSUME NEW q \in Seq(Sessions), IsInjective(q),
           NEW s \in Sessions, s \notin ToSet(q)
    PROVE  /\ <<s>> \o q \in Seq(Sessions) /\ Len(<<s>> \o q) = Len(q) + 1
           /\ IsInjective(<<s>> \o q)
           /\ ToSet(<<s>> \o q) = ToSet(q) \cup {s}
<1> DEFINE r == <<s>> \o q
<1>1. /\ r \in Seq(Sessions) /\ Len(r) = Len(q) + 1 /\ Len(q) \in Nat
      /\ r[1] = s /\ \A i \in 1 .. Len(q) : r[i + 1] = q[i]
  OBVIOUS
<1> HIDE DEF r
<1>2. \A i \in 1 .. Len(q) : q[i] # s
  BY DEF ToSet
<1>3. \A i \in 2 .. Len(q) + 1 : r[i] = q[i - 1] /\ i - 1 \in 1 .. Len(q)
  <2> SUFFICES ASSUME NEW i \in 2 .. Len(q) + 1
               PROVE  r[i] = q[i - 1] /\ i - 1 \in 1 .. Len(q)
    OBVIOUS
  <2>1. i - 1 \in 1 .. Len(q) /\ (i - 1) + 1 = i
    BY <1>1
  <2> QED BY <1>1, <2>1
<1>4. IsInjective(r)
  <2> SUFFICES ASSUME NEW i \in 1 .. Len(q) + 1, NEW j \in 1 .. Len(q) + 1,
                      r[i] = r[j]
               PROVE  i = j
    BY <1>1 DEF IsInjective
  <2>1. CASE i = 1 /\ j = 1
    BY <2>1
  <2>2. CASE i = 1 /\ j # 1
    BY <1>1, <1>2, <1>3, <2>2
  <2>3. CASE i # 1 /\ j = 1
    BY <1>1, <1>2, <1>3, <2>3
  <2>4. CASE i # 1 /\ j # 1
    <3>1. i \in 2 .. Len(q) + 1 /\ j \in 2 .. Len(q) + 1
      BY <1>1, <2>4
    <3>2. q[i - 1] = q[j - 1] /\ i - 1 \in 1 .. Len(q) /\ j - 1 \in 1 .. Len(q)
      BY <1>3, <3>1
    <3>3. i - 1 = j - 1
      BY <3>2 DEF IsInjective
    <3> QED BY <3>1, <3>3
  <2> QED BY <2>1, <2>2, <2>3, <2>4
<1>5. ToSet(r) = ToSet(q) \cup {s}
  <2>1. ASSUME NEW x \in ToSet(r) PROVE x \in ToSet(q) \cup {s}
    <3>1. PICK i \in 1 .. Len(q) + 1 : x = r[i]
      BY <1>1 DEF ToSet
    <3>2. i = 1 \/ i \in 2 .. Len(q) + 1
      BY <1>1
    <3> QED BY <1>1, <1>3, <3>1, <3>2 DEF ToSet
  <2>2. ASSUME NEW x \in ToSet(q) PROVE x \in ToSet(r)
    <3>1. PICK i \in 1 .. Len(q) : x = q[i]
      BY DEF ToSet
    <3>2. r[i + 1] = x /\ i + 1 \in 1 .. Len(q) + 1
      BY <1>1, <3>1
    <3>3. DOMAIN r = 1 .. Len(q) + 1
      BY <1>1
    <3> QED BY <3>2, <3>3 DEF ToSet
  <2>3. s \in ToSet(r)
    BY <1>1 DEF ToSet
  <2> QED BY <2>1, <2>2, <2>3
<1> QED BY <1>1, <1>4, <1>5 DEF r

-----------------------------------------------------------------------------
(***************************************************************************)
(* Sessions that are freed, nodes that are released or become known.       *)
(***************************************************************************)

LEMMA FreedOK == RecOK(Freed) /\ Freed.state = "free"
BY DEF Freed, RecOK, SessionType, TimesHandshake, Fresh, Off, PingInterval,
       PingTimeout

LEMMA InUseFinite ==
    ASSUME NEW n \in Seq(NodeType)
    PROVE  /\ IsFiniteSet(InUse(n)) /\ Cardinality(InUse(n)) \in Nat
           /\ InUse(n) \subseteq 1 .. Len(n)
<1>1. InUse(n) \in SUBSET (1 .. Len(n))
  BY DEF InUse
<1>2. IsFiniteSet(1 .. Len(n))
  BY FS_Interval
<1>3. IsFiniteSet(InUse(n))
  BY <1>1, <1>2, FS_Subset
<1> QED BY <1>1, <1>3, FS_CardinalityType

LEMMA AtFinite ==
    ASSUME NEW ses, NEW h
    PROVE  IsFiniteSet(At(ses, h)) /\ Cardinality(At(ses, h)) \in Nat
<1>1. At(ses, h) \in SUBSET Sessions /\ IsFiniteSet(Sessions)
  BY SessionsAssumption DEF At, Live
<1>2. IsFiniteSet(At(ses, h))
  BY <1>1, FS_Subset
<1> QED BY <1>2, FS_CardinalityType

(* Only the indexed node of a host is released. *)
LEMMA ReleasedFacts ==
    ASSUME NEW nodes \in [Hosts -> Seq(NodeType)], NEW H
    PROVE  /\ Released(nodes, H) \in [Hosts -> Seq(NodeType)]
           /\ \A h \in Hosts : Len(Released(nodes, H)[h]) = Len(nodes[h])
           /\ \A h \in Hosts \cap H :
                 InUse(Released(nodes, H)[h]) = InUse(nodes[h]) \ {Len(nodes[h])}
           /\ \A h \in Hosts \ H : Released(nodes, H)[h] = nodes[h]
<1> DEFINE drop(n) == [n EXCEPT ![Len(n)].in_use = FALSE]
<1>1. ASSUME NEW n \in Seq(NodeType), n # <<>>
      PROVE  /\ drop(n) \in Seq(NodeType) /\ Len(drop(n)) = Len(n)
             /\ InUse(drop(n)) = InUse(n) \ {Len(n)}
  <2> DEFINE r == [n[Len(n)] EXCEPT !.in_use = FALSE]
  <2>1. Len(n) \in 1 .. Len(n) /\ n[Len(n)] \in NodeType
    BY <1>1
  <2>2. r \in NodeType /\ r.in_use = FALSE
    BY <2>1 DEF NodeType
  <2>3. drop(n) = [n EXCEPT ![Len(n)] = r]
    OBVIOUS
  <2> HIDE DEF r, drop
  <2>4. /\ drop(n) \in Seq(NodeType) /\ Len(drop(n)) = Len(n)
        /\ \A i \in 1 .. Len(n) : drop(n)[i] = IF i = Len(n) THEN r ELSE n[i]
    BY <2>1, <2>2, <2>3
  <2>5. DOMAIN drop(n) = 1 .. Len(n) /\ DOMAIN n = 1 .. Len(n)
    BY <2>4
  <2>6. InUse(drop(n)) = InUse(n) \ {Len(n)}
    BY <2>2, <2>4, <2>5 DEF InUse
  <2> QED BY <2>4, <2>6
<1>2. Released(nodes, H) = [h \in Hosts |-> IF h \in H /\ nodes[h] # <<>>
                                            THEN drop(nodes[h]) ELSE nodes[h]]
  BY DEF Released
<1> HIDE DEF drop
<1>3. InUse(<<>>) = {}
  BY DEF InUse
<1> QED BY <1>1, <1>2, <1>3

(* Whatever changes, if no node is marked or unmarked. *)
LEMMA SameUse ==
    ASSUME NEW ses, NEW nodes \in [Hosts -> Seq(NodeType)],
           NEW after \in [Hosts -> Seq(NodeType)],
           \A h \in Hosts : /\ InUse(after[h]) = InUse(nodes[h])
                            /\ Len(after[h]) >= Len(nodes[h]),
           OwnNodes(ses, nodes)
    PROVE  OwnNodes(ses, after)
<1> SUFFICES ASSUME NEW h \in Hosts
             PROVE  /\ Cardinality(At(ses, h)) <= Cardinality(InUse(after[h]))
                    /\ Len(after[h]) <= 1 =>
                          Cardinality(At(ses, h)) = Cardinality(InUse(after[h]))
  BY DEF OwnNodes
<1>1. Len(after[h]) \in Nat /\ Len(nodes[h]) \in Nat
  OBVIOUS
<1> QED BY <1>1 DEF OwnNodes

LEMMA ReportedFacts ==
    ASSUME NEW nodes \in [Hosts -> Seq(NodeType)], NEW R
    PROVE  /\ Reported(nodes, R) \in [Hosts -> Seq(NodeType)]
           /\ \A h \in Hosts : /\ InUse(Reported(nodes, R)[h]) = InUse(nodes[h])
                               /\ Len(Reported(nodes, R)[h]) >= Len(nodes[h])
<1> DEFINE new == <<NewNode(FALSE)>>
<1>1. NewNode(FALSE) \in NodeType /\ NewNode(FALSE).in_use = FALSE
  BY DEF NewNode, NodeType
<1>2. new \in Seq(NodeType) /\ Len(new) = 1 /\ InUse(new) = {}
  <2> DEFINE r == NewNode(FALSE)
  <2> HIDE DEF r
  <2>0. r \in NodeType
    BY <1>1 DEF r
  <2>1. <<r>> \in Seq(NodeType) /\ Len(<<r>>) = 1 /\ <<r>>[1] = r
    BY <2>0
  <2>2. DOMAIN <<r>> = {1}
    BY <2>1
  <2>3. InUse(<<r>>) = {}
    BY <1>1, <2>1, <2>2 DEF InUse, r
  <2> QED BY <2>1, <2>3 DEF r
<1>3. InUse(<<>>) = {} /\ Len(<<>>) = 0
  BY DEF InUse
<1>4. Reported(nodes, R) = [h \in Hosts |-> IF h \in R /\ nodes[h] = <<>> THEN new
                                            ELSE nodes[h]]
  BY DEF Reported
<1> HIDE DEF new
<1>5. \A h \in Hosts : Len(nodes[h]) \in Nat /\ nodes[h] \in Seq(NodeType)
  OBVIOUS
<1>6. ASSUME NEW h \in Hosts
      PROVE  /\ Reported(nodes, R)[h] \in Seq(NodeType)
             /\ InUse(Reported(nodes, R)[h]) = InUse(nodes[h])
             /\ Len(Reported(nodes, R)[h]) >= Len(nodes[h])
  <2>1. CASE h \in R /\ nodes[h] = <<>>
    <3>1. Reported(nodes, R)[h] = new
      BY <1>4, <2>1
    <3>2. InUse(nodes[h]) = {} /\ Len(nodes[h]) = 0
      BY <1>3, <2>1
    <3>3. InUse(new) = {} /\ Len(new) >= 0 /\ new \in Seq(NodeType)
      BY <1>2
    <3> QED BY <3>1, <3>2, <3>3
  <2>2. CASE ~(h \in R /\ nodes[h] = <<>>)
    <3>1. Reported(nodes, R)[h] = nodes[h]
      BY <1>4, <2>2
    <3> QED BY <1>5, <3>1
  <2> QED BY <2>1, <2>2
<1>7. Reported(nodes, R) \in [Hosts -> Seq(NodeType)]
  BY <1>4, <1>6
<1> QED BY <1>6, <1>7

LEMMA FreeAllFacts ==
    ASSUME NEW ses \in [Sessions -> SessionType], \A s \in Sessions : RecOK(ses[s]),
           NEW S \in SUBSET Sessions
    PROVE  /\ FreeAll(ses, S) \in [Sessions -> SessionType]
           /\ \A s \in Sessions : RecOK(FreeAll(ses, S)[s])
           /\ Live(FreeAll(ses, S)) = Live(ses) \ S
           /\ \A s \in Sessions \ S : FreeAll(ses, S)[s] = ses[s]
           /\ \A st : "free" \notin st =>
                 StateIn(FreeAll(ses, S), st) = StateIn(ses, st) \ S
<1>1. Freed \in SessionType
  BY FreedOK DEF RecOK
<1>2. /\ FreeAll(ses, S) \in [Sessions -> SessionType]
      /\ \A s \in Sessions : FreeAll(ses, S)[s] = IF s \in S THEN Freed ELSE ses[s]
  BY <1>1 DEF FreeAll
<1> QED BY <1>2, FreedOK DEF Live, StateIn

(* Sessions that are freed, and the nodes released for them, go together. *)
LEMMA OwnNodesKept ==
    ASSUME NEW ses \in [Sessions -> SessionType], \A s \in Sessions : RecOK(ses[s]),
           NEW nodes \in [Hosts -> Seq(NodeType)],
           NEW S \in SUBSET Sessions,
           OwnNodes(ses, nodes)
    PROVE  OwnNodes(FreeAll(ses, S), Released(nodes, HostsOf(ses, S)))
<1> DEFINE after == FreeAll(ses, S)
           H == HostsOf(ses, S)
           left == Released(nodes, H)
<1>1. /\ Live(after) = Live(ses) \ S
      /\ \A s \in Live(after) : after[s] = ses[s]
  BY FreeAllFacts DEF Live
<1>2. \A h \in Hosts : At(after, h) = At(ses, h) \ S
  BY <1>1 DEF At
<1>3. /\ left \in [Hosts -> Seq(NodeType)]
      /\ \A h \in Hosts : Len(left[h]) = Len(nodes[h])
      /\ \A h \in Hosts \cap H : InUse(left[h]) = InUse(nodes[h]) \ {Len(nodes[h])}
      /\ \A h \in Hosts \ H : left[h] = nodes[h]
  <2> HIDE DEF H
  <2> QED BY ReleasedFacts
<1> HIDE DEF after, left
<1> SUFFICES ASSUME NEW h \in Hosts
             PROVE  /\ Cardinality(At(after, h)) <= Cardinality(InUse(left[h]))
                    /\ Len(left[h]) <= 1 =>
                          Cardinality(At(after, h)) = Cardinality(InUse(left[h]))
  BY DEF OwnNodes, after, left
<1> DEFINE A == At(ses, h)
           U == InUse(nodes[h])
           k == Len(nodes[h])
<1>4. /\ Cardinality(A) <= Cardinality(U)
      /\ k <= 1 => Cardinality(A) = Cardinality(U)
  BY DEF OwnNodes
<1>5. /\ IsFiniteSet(A) /\ Cardinality(A) \in Nat
      /\ IsFiniteSet(U) /\ Cardinality(U) \in Nat /\ U \subseteq 1 .. k /\ k \in Nat
  BY AtFinite, InUseFinite
<1>6. CASE h \notin H
  <2>1. A \cap S = {}
    BY <1>6 DEF H, HostsOf, At
  <2>2. At(after, h) = A /\ left[h] = nodes[h]
    BY <1>2, <1>3, <1>6, <2>1
  <2> QED BY <1>4, <2>2
<1>7. CASE h \in H
  <2>1. PICK t \in S : ses[t].host = h
    BY <1>7 DEF H, HostsOf
  <2>2. t \in A
    <3>1. ses[t].host # Null
      BY <2>1, SessionsAssumption
    <3>2. t \in Live(ses)
      BY <3>1 DEF Live, RecOK, Fresh
    <3> QED BY <2>1, <3>2 DEF At
  <2> DEFINE B == At(after, h)
             V == U \ {k}
  <2>3. B = A \ S /\ InUse(left[h]) = V /\ Len(left[h]) = k
    BY <1>2, <1>3, <1>7
  <2> HIDE DEF A, U, k
  <2>4. /\ IsFiniteSet(A \ {t}) /\ Cardinality(A \ {t}) = Cardinality(A) - 1
    BY <1>5, <2>2, FS_RemoveElement
  <2>5. B \subseteq A \ {t}
    BY <2>1, <2>3
  <2> HIDE DEF B
  <2>6. Cardinality(B) <= Cardinality(A) - 1
    BY <2>4, <2>5, FS_Subset
  <2>7. IsFiniteSet(V) /\ Cardinality(V) >= Cardinality(U) - 1
    <3>1. IsFiniteSet(V) /\ Cardinality(V) = IF k \in U THEN Cardinality(U) - 1
                                              ELSE Cardinality(U)
      BY <1>5, FS_RemoveElement
    <3> HIDE DEF V
    <3> QED BY <1>5, <3>1
  <2>8. Cardinality(B) \in Nat /\ Cardinality(V) \in Nat
    BY <2>7, AtFinite, FS_CardinalityType DEF B
  <2>9. ASSUME k <= 1 PROVE Cardinality(B) = Cardinality(V)
    <3>1. U \subseteq {1}
      BY <1>5, <2>9
    <3>2. U # {}
      <4>1. Cardinality(U) = Cardinality(A) /\ Cardinality(A) - 1 \in Nat
        <5>1. Cardinality(A \ {t}) \in Nat
          BY <2>4, FS_CardinalityType
        <5> QED BY <1>4, <2>4, <2>9, <5>1
      <4> QED BY <4>1, <1>5, FS_EmptySet
    <3>3. U = {1} /\ k = 1
      <4>1. U = {1}
        BY <3>1, <3>2
      <4>2. 1 \in 1 .. k
        BY <1>5, <4>1
      <4> QED BY <1>5, <2>9, <4>1, <4>2
    <3>4. Cardinality(U) = 1 /\ V = {}
      BY <3>3, FS_Singleton
    <3>5. Cardinality(V) = 0 /\ Cardinality(A) = 1
      BY <1>4, <2>9, <3>4, FS_EmptySet
    <3> QED BY <2>6, <2>8, <3>5
  <2>10. Cardinality(B) <= Cardinality(V)
    BY <1>4, <1>5, <2>6, <2>7, <2>8
  <2> HIDE DEF V
  <2> QED BY <2>3, <2>9, <2>10 DEF B
<1> QED BY <1>6, <1>7

(* Attempts are finitely many. *)
LEMMA AttemptsFinite ==
    ASSUME NEW ses, NEW st
    PROVE  IsFiniteSet(StateIn(ses, st)) /\ Cardinality(StateIn(ses, st)) \in Nat
<1>1. StateIn(ses, st) \in SUBSET Sessions /\ IsFiniteSet(Sessions)
  BY SessionsAssumption DEF StateIn
<1>2. IsFiniteSet(StateIn(ses, st))
  BY <1>1, FS_Subset
<1> QED BY <1>2, FS_CardinalityType

-----------------------------------------------------------------------------
(***************************************************************************)
(* sessman_maintain.                                                       *)
(***************************************************************************)

LEMMA HandleConnectFacts ==
    ASSUME NEW i \in InfoType, NEW want \in 0 .. MaxWanted,
           NEW have \in 0 .. MaxWanted
    PROVE  /\ HandleConnect(i, want, have) \in InfoType
           /\ HandleConnect(i, want, have).want = want
           /\ HandleConnect(i, want, have).have = have
BY DEF HandleConnect, InfoType

Maintained ==
    /\ Ready(session, node, connecting, connected)'
    /\ Reports' /\ ranOut' \in BOOLEAN /\ filling' \in BOOLEAN

LEMMA TrimFacts ==
    ASSUME NEW ses, NEW nodes, NEW ing, NEW ed, NEW inf \in InfoType,
           NEW want \in 0 .. MaxWanted,
           Ready(ses, nodes, ing, ed), want <= Len(ed),
           Trim(ses, nodes, ing, ed, want, inf),
           connections' = want, emptied' = emptied
    PROVE  Maintained
<1> DEFINE dropped == {ed[i] : i \in 1 .. (Len(ed) - want)}
           gone == ing \cup dropped
           rest == SubSeq(ed, Len(ed) - want + 1, Len(ed))
<1>1. /\ ses \in [Sessions -> SessionType] /\ \A s \in Sessions : RecOK(ses[s])
      /\ nodes \in [Hosts -> Seq(NodeType)]
      /\ ing = StateIn(ses, Attempts) /\ ed \in Seq(Sessions)
      /\ ToSet(ed) = StateIn(ses, {"CONNECTED"}) /\ IsInjective(ed)
      /\ emptied = FALSE => OwnNodes(ses, nodes)
  BY DEF Ready, ListsOK
<1>2. /\ session' = FreeAll(ses, gone)
      /\ node' = Released(nodes, HostsOf(ses, gone))
      /\ connecting' = {} /\ connected' = rest
      /\ info' = HandleConnect(inf, want, want)
      /\ ranOut' = FALSE /\ filling' = FALSE
  BY DEF Trim
<1>3. dropped \subseteq Sessions /\ gone \in SUBSET Sessions
  <2>1. \A i \in 1 .. (Len(ed) - want) : i \in 1 .. Len(ed)
    BY <1>1, SessionsAssumption
  <2> QED BY <1>1, <2>1 DEF StateIn
<1>4. want \in Nat /\ MaxWanted \in Nat
  BY SessionsAssumption
<1>5. /\ rest \in Seq(Sessions) /\ Len(rest) = want /\ IsInjective(rest)
      /\ ToSet(rest) = ToSet(ed) \ dropped
  BY <1>1, <1>4, DropFacts
<1> HIDE DEF dropped, gone, rest
<1>6. /\ session' \in [Sessions -> SessionType]
      /\ \A s \in Sessions : RecOK(session'[s])
      /\ StateIn(session', Attempts) = StateIn(ses, Attempts) \ gone
      /\ StateIn(session', {"CONNECTED"}) = StateIn(ses, {"CONNECTED"}) \ gone
  BY <1>1, <1>2, <1>3, FreeAllFacts DEF Attempts
<1>7. /\ StateIn(session', Attempts) = {}
      /\ StateIn(session', {"CONNECTED"}) = ToSet(ed) \ dropped
  BY <1>1, <1>6 DEF gone, StateIn, Attempts
<1>8. /\ node' \in [Hosts -> Seq(NodeType)]
  BY <1>1, <1>2, ReleasedFacts
<1>9. ASSUME emptied' = FALSE PROVE OwnNodes(session', node')
  BY <1>1, <1>2, <1>3, <1>9, OwnNodesKept
<1>10. Cardinality({}) = 0 /\ ParallelAttempts \in Nat \ {0}
  BY FS_EmptySet, SessionsAssumption
<1>11. ListsOK(session', connecting', connected')
  BY <1>2, <1>5, <1>7, <1>10 DEF ListsOK
<1>12. Ready(session, node, connecting, connected)'
  BY <1>6, <1>8, <1>9, <1>11 DEF Ready
<1>13. /\ info' \in InfoType
       /\ info'.want = connections' /\ info'.have = Len(connected')
  BY <1>2, <1>4, <1>5, HandleConnectFacts
<1>14. Reports'
  BY <1>2, <1>4, <1>5, <1>13 DEF Reports
<1> QED BY <1>2, <1>12, <1>14 DEF Maintained

LEMMA NewSessionFacts ==
    ASSUME NEW h \in Hosts
    PROVE  /\ RecOK(Connecting(h)) /\ Connecting(h).state = "CONNECTING"
           /\ Connecting(h).host = h
<1> DEFINE c == Connecting(h)
<1>1. /\ c.state = "CONNECTING" /\ c.host = h /\ c.waits = "write"
      /\ c.handshake = FALSE /\ c.ping = Off /\ c.pong = Off
  BY DEF Connecting, Freed
<1>2. c \in SessionType
  <2>1. Freed \in SessionType
    BY FreedOK DEF RecOK
  <2> QED BY <2>1 DEF Connecting, SessionType
<1> HIDE DEF c
<1>3. TimesHandshake(c)
  BY <1>1 DEF TimesHandshake
<1>4. RecOK(c)
  BY <1>1, <1>2, <1>3 DEF RecOK, Attempting
<1> QED BY <1>1, <1>4 DEF c

(* The loop begins, or is not needed. *)
LEMMA FillFacts ==
    ASSUME NEW ses, NEW nodes, NEW ing, NEW ed, NEW inf \in InfoType,
           NEW want \in 0 .. MaxWanted,
           Ready(ses, nodes, ing, ed), ~(want <= Len(ed)),
           Fill(ses, nodes, ing, ed, want, inf), ranOut \in BOOLEAN,
           connections' = want, emptied' = emptied
    PROVE  Maintained
<1>1. /\ session' = ses /\ node' = nodes /\ connecting' = ing /\ connected' = ed
      /\ filling' = (Cardinality(ing) < ParallelAttempts)
      /\ IF filling' THEN info' = inf /\ ranOut' = ranOut
         ELSE info' = HandleConnect(inf, want, Len(ed)) /\ ranOut' = FALSE
  BY DEF Fill
<1>2. Ready(session, node, connecting, connected)'
  BY <1>1 DEF Ready
<1>3. Len(ed) \in Nat /\ Len(ed) < want /\ Len(ed) \in 0 .. MaxWanted
  BY SessionsAssumption DEF Ready, ListsOK
<1>4. /\ HandleConnect(inf, want, Len(ed)) \in InfoType
      /\ HandleConnect(inf, want, Len(ed)).want = want
      /\ HandleConnect(inf, want, Len(ed)).have = Len(ed)
  BY <1>3, HandleConnectFacts
<1>5. filling' \in BOOLEAN /\ ranOut' \in BOOLEAN
  <2>1. filling' \in BOOLEAN
    BY DEF Fill
  <2>2. ranOut' \in BOOLEAN
    BY <1>1, <2>1
  <2> QED BY <2>1, <2>2
<1>6. Reports'
  <2>1. Len(connected') < connections' /\ Len(connected') # connections'
    BY <1>1, <1>3, SessionsAssumption
  <2>2. CASE filling' = TRUE
    <3>1. info' \in InfoType
      BY <1>1, <2>2
    <3>2. Cardinality(connecting') < ParallelAttempts
      BY <1>1, <2>2
    <3> QED BY <1>3, <2>1, <2>2, <3>1, <3>2, SessionsAssumption DEF Reports
  <2>3. CASE filling' = FALSE
    <3>1. /\ info' \in InfoType
          /\ info'.want = connections' /\ info'.have = Len(connected')
      BY <1>1, <1>4, <2>3
    <3> QED BY <1>1, <1>3, <2>1, <2>3, <3>1, SessionsAssumption DEF Reports
  <2> QED BY <1>5, <2>2, <2>3
<1> QED BY <1>2, <1>5, <1>6 DEF Maintained

(* Whoever calls sessman_maintain with lists and nodes that fit. *)
LEMMA MaintainFacts ==
    ASSUME NEW ses, NEW nodes, NEW ing, NEW ed,
           info \in InfoType, connections' \in 0 .. MaxWanted,
           Ready(ses, nodes, ing, ed), Flags,
           Maintain(ses, nodes, ing, ed, connections', info),
           emptied' = emptied, failed' = failed
    PROVE  IndInv'
<1>1. Maintained
  <2>1. CASE connections' <= Len(ed)
    BY <2>1, TrimFacts DEF Maintain
  <2>2. CASE ~(connections' <= Len(ed))
    BY <2>2, FillFacts DEF Maintain, Flags
  <2> QED BY <2>1, <2>2
<1>2. Flags'
  BY <1>1 DEF Flags, Maintained
<1> QED BY <1>1, <1>2 DEF Maintained, IndInv

(* However a session ends, and whatever nodes were reported just before. *)
LEMMA ErrorFacts ==
    ASSUME IndInv, NEW s \in Sessions,
           NEW nodes \in [Hosts -> Seq(NodeType)],
           emptied = FALSE => OwnNodes(session, nodes),
           SessionError(s, nodes)
    PROVE  IndInv'
<1> DEFINE ses == FreeAll(session, {s})
           released == Released(nodes, {session[s].host})
           ing == connecting \ {s}
           ed == RemoveFirst(connected, s)
<1>1. /\ session \in [Sessions -> SessionType]
      /\ \A t \in Sessions : RecOK(session[t])
      /\ connecting = StateIn(session, Attempts) /\ connected \in Seq(Sessions)
      /\ ToSet(connected) = StateIn(session, {"CONNECTED"})
      /\ IsInjective(connected) /\ Cardinality(connecting) <= ParallelAttempts
      /\ info \in InfoType /\ Flags
  BY DEF IndInv, Ready, ListsOK, Reports
<1>2. /\ Maintain(ses, released, ing, ed, connections, info)
      /\ connections' = connections /\ emptied' = emptied /\ failed' = failed
  BY DEF SessionError
<1>3. HostsOf(session, {s}) = {session[s].host}
  BY DEF HostsOf
<1>4. /\ ses \in [Sessions -> SessionType] /\ \A t \in Sessions : RecOK(ses[t])
      /\ StateIn(ses, Attempts) = StateIn(session, Attempts) \ {s}
      /\ StateIn(ses, {"CONNECTED"}) = StateIn(session, {"CONNECTED"}) \ {s}
  <2>1. {s} \in SUBSET Sessions
    OBVIOUS
  <2>2. /\ ses \in [Sessions -> SessionType] /\ \A t \in Sessions : RecOK(ses[t])
        /\ \A st : "free" \notin st => StateIn(ses, st) = StateIn(session, st) \ {s}
    BY <1>1, <2>1, FreeAllFacts
  <2>3. "free" \notin Attempts /\ "free" \notin {"CONNECTED"}
    BY DEF Attempts
  <2> HIDE DEF ses
  <2> QED BY <2>2, <2>3
<1>5. /\ released \in [Hosts -> Seq(NodeType)]
  BY ReleasedFacts
<1>6. ASSUME emptied = FALSE PROVE OwnNodes(ses, released)
  <2>1. OwnNodes(session, nodes)
    BY <1>6
  <2> QED BY <1>1, <1>3, <2>1, OwnNodesKept
<1>7. Cardinality(ing) <= ParallelAttempts
  <2>1. IsFiniteSet(connecting) /\ Cardinality(connecting) \in Nat
    BY <1>1, AttemptsFinite
  <2>2. Cardinality(ing) <= Cardinality(connecting) /\ IsFiniteSet(ing)
    BY <2>1, FS_Subset
  <2>3. Cardinality(ing) \in Nat
    BY <2>2, FS_CardinalityType
  <2> QED BY <1>1, <2>1, <2>2, <2>3, SessionsAssumption
<1>8. /\ ed \in Seq(Sessions) /\ IsInjective(ed)
      /\ ToSet(ed) = ToSet(connected) \ {s}
  BY <1>1, ListRemoveFacts
<1> HIDE DEF ses, released, ing, ed
<1>9. ListsOK(ses, ing, ed)
  BY <1>1, <1>4, <1>7, <1>8 DEF ListsOK, ing
<1>10. Ready(ses, released, ing, ed)
  BY <1>4, <1>5, <1>6, <1>9 DEF Ready
<1>11. connections' \in 0 .. MaxWanted
  BY <1>1, <1>2 DEF Flags
<1>12. Maintain(ses, released, ing, ed, connections', info)
  BY <1>2
<1> QED BY <1>1, <1>2, <1>10, <1>11, <1>12, MaintainFacts

(* As long as a session stays on its list and with its node, nothing else  *)
(* need change.                                                            *)
SameKind(r, q) ==
    /\ q.host = r.host
    /\ q.state = r.state \/ {q.state, r.state} \subseteq Attempts

LEMMA KeptFacts ==
    ASSUME IndInv,
           session' \in [Sessions -> SessionType],
           \A s \in Sessions : RecOK(session'[s]) /\ SameKind(session[s], session'[s]),
           UNCHANGED <<man, node, info, filling, ranOut, emptied>>,
           failed' \in {"no", "compressed"}
    PROVE  IndInv'
<1>1. /\ StateIn(session', Attempts) = StateIn(session, Attempts)
      /\ StateIn(session', {"CONNECTED"}) = StateIn(session, {"CONNECTED"})
      /\ Live(session') = Live(session)
      /\ \A s \in Sessions : session'[s].host = session[s].host
  BY DEF SameKind, StateIn, Attempts, Live
<1>2. /\ node' = node /\ info' = info /\ ranOut' = ranOut /\ emptied' = emptied
      /\ connecting' = connecting /\ connected' = connected
      /\ connections' = connections /\ filling' = filling
  BY DEF man
<1>3. ListsOK(session', connecting', connected')
  BY <1>1, <1>2 DEF IndInv, Ready, ListsOK
<1>4. ASSUME emptied' = FALSE PROVE OwnNodes(session', node')
  <2>1. OwnNodes(session, node)
    BY <1>2, <1>4 DEF IndInv, Ready
  <2>2. \A h : At(session', h) = At(session, h)
    BY <1>1 DEF At, Live
  <2> QED BY <1>2, <2>1, <2>2 DEF OwnNodes
<1>5. Ready(session, node, connecting, connected)'
  BY <1>2, <1>3, <1>4 DEF IndInv, Ready
<1>6. Reports' /\ Flags'
  BY <1>2 DEF IndInv, Reports, Flags
<1> QED BY <1>5, <1>6 DEF IndInv

-----------------------------------------------------------------------------
(***************************************************************************)
(* Every step preserves the invariant.                                     *)
(***************************************************************************)

LEMMA InitOK == Init => IndInv
<1> SUFFICES ASSUME Init PROVE IndInv
  OBVIOUS
<1> USE DEF Init
<1>1. session \in [Sessions -> SessionType] /\ \A s \in Sessions : RecOK(session[s])
  BY FreedOK DEF RecOK
<1>2. node \in [Hosts -> Seq(NodeType)] /\ InUse(<<>>) = {}
  BY DEF InUse
<1>3. StateIn(session, Attempts) = {} /\ StateIn(session, {"CONNECTED"}) = {}
      /\ Live(session) = {}
  BY FreedOK DEF StateIn, Attempts, Live
<1>4. Cardinality({}) = 0 /\ ParallelAttempts \in Nat /\ MaxWanted \in Nat
  BY FS_EmptySet, SessionsAssumption
<1>5. ListsOK(session, connecting, connected)
  <2>1. connected \in Seq(Sessions) /\ ToSet(connected) = {} /\ IsInjective(connected)
    BY DEF ToSet, IsInjective
  <2>2. connecting = {} /\ Cardinality(connecting) <= ParallelAttempts
    BY <1>4
  <2> HIDE DEF Init
  <2> QED BY <1>3, <2>1, <2>2 DEF ListsOK
<1>6. OwnNodes(session, node)
  <2>1. \A h : At(session, h) = {}
    BY <1>3 DEF At
  <2>2. \A h \in Hosts : InUse(node[h]) = {}
    BY <1>2
  <2>3. Cardinality({}) <= Cardinality({})
    BY <1>4
  <2> HIDE DEF Init
  <2> QED BY <2>1, <2>2, <2>3 DEF OwnNodes
<1>7. Ready(session, node, connecting, connected)
  BY <1>1, <1>2, <1>5, <1>6 DEF Ready
<1>8. Reports /\ Flags
  <2>1. Len(connected) = 0 /\ connections = 0 /\ 0 \in 0 .. MaxWanted
    BY <1>4
  <2>2. info \in InfoType /\ info.want = 0 /\ info.have = 0
    BY <2>1 DEF InfoType
  <2>3. /\ filling = FALSE /\ ranOut \in BOOLEAN /\ emptied \in BOOLEAN
        /\ failed \in {"no", "compressed"}
    OBVIOUS
  <2>4. connecting = {} /\ 0 <= 0
    OBVIOUS
  <2> HIDE DEF Init
  <2>5. Reports
    BY <2>1, <2>2, <2>3, <2>4 DEF Reports
  <2> QED BY <2>1, <2>3, <2>5 DEF Flags
<1> QED BY <1>7, <1>8 DEF IndInv

(* A session's fields in the states its events find it in. *)
LEMMA SessionFacts ==
    ASSUME IndInv, NEW s \in Sessions
    PROVE  /\ session \in [Sessions -> SessionType] /\ session[s] \in SessionType
           /\ \A t \in Sessions : RecOK(session[t])
           /\ node \in [Hosts -> Seq(NodeType)]
           /\ session[s].waits = "write" => session[s].state = "CONNECTING"
           /\ failed \in {"no", "compressed"}
BY DEF IndInv, Ready, Flags, RecOK, Fresh, Attempting, Up, SessionType

LEMMA NodeFacts ==
    ASSUME IndInv
    PROVE  /\ node \in [Hosts -> Seq(NodeType)]
           /\ emptied = FALSE => OwnNodes(session, node)
BY DEF IndInv, Ready

LEMMA SessionConnectedOK ==
    ASSUME IndInv, NEW s \in Sessions, SessionConnected(s)
    PROVE  IndInv'
<1> DEFINE r == [session[s] EXCEPT !.state = "HANDSHAKING", !.waits = "read",
                                   !.handshake = TRUE]
<1>1. /\ session \in [Sessions -> SessionType] /\ session[s] \in SessionType
      /\ \A t \in Sessions : RecOK(session[t])
      /\ session[s].state = "CONNECTING" /\ failed \in {"no", "compressed"}
  BY SessionFacts DEF SessionConnected
<1>2. session' = [session EXCEPT ![s] = r]
  BY DEF SessionConnected
<1>3. /\ r \in SessionType /\ r.state = "HANDSHAKING" /\ r.waits = "read"
      /\ r.handshake = TRUE /\ r.host = session[s].host
      /\ r.ping = session[s].ping /\ r.pong = session[s].pong
  BY <1>1 DEF SessionType
<1> HIDE DEF r
<1>4. RecOK(r)
  <2>1. RecOK(session[s])
    BY <1>1
  <2>2. session[s].host \in Hosts /\ session[s].ping = Off /\ session[s].pong = Off
    BY <1>1, <2>1 DEF RecOK, Attempting
  <2>3. TimesHandshake(r)
    BY <1>3 DEF TimesHandshake
  <2> QED BY <1>3, <2>2, <2>3 DEF RecOK, Attempting
<1>5. SameKind(session[s], r)
  BY <1>1, <1>3 DEF SameKind, Attempts
<1>6. /\ session' \in [Sessions -> SessionType]
      /\ \A t \in Sessions : RecOK(session'[t]) /\ SameKind(session[t], session'[t])
  <2>1. \A t \in Sessions : SameKind(session[t], session[t])
    BY DEF SameKind
  <2> QED BY <1>1, <1>2, <1>3, <1>4, <1>5, <2>1
<1>7. UNCHANGED <<man, node, info, filling, ranOut, emptied, failed>>
  BY DEF SessionConnected
<1> QED BY <1>1, <1>6, <1>7, KeptFacts

(* Ending for whatever reason, with nodes reported or not. *)
LEMMA EndOK ==
    ASSUME IndInv, NEW s \in Sessions, NEW R,
           SessionError(s, node) \/ SessionError(s, Reported(node, R))
    PROVE  IndInv'
<1>1. node \in [Hosts -> Seq(NodeType)] /\ (emptied = FALSE => OwnNodes(session, node))
  BY NodeFacts
<1>2. CASE SessionError(s, node)
  BY <1>1, <1>2, ErrorFacts
<1>3. CASE SessionError(s, Reported(node, R))
  <2> DEFINE nodes == Reported(node, R)
  <2>1. /\ nodes \in [Hosts -> Seq(NodeType)]
        /\ \A h \in Hosts : /\ InUse(nodes[h]) = InUse(node[h])
                            /\ Len(nodes[h]) >= Len(node[h])
    BY <1>1, ReportedFacts
  <2> HIDE DEF nodes
  <2>2. emptied = FALSE => OwnNodes(session, nodes)
    BY <1>1, <2>1, SameUse
  <2> QED BY <1>3, <2>1, <2>2, ErrorFacts DEF nodes
<1> QED BY <1>2, <1>3

LEMMA EstablishedOK ==
    ASSUME IndInv, NEW s \in Sessions, NEW R, NEW rest \in BOOLEAN,
           Established(s, R, rest)
    PROVE  IndInv'
<1> DEFINE up == [Freed EXCEPT !.state = "CONNECTED", !.host = session[s].host,
                               !.waits = "read", !.ping = PingInterval,
                               !.pong = IF rest THEN PingTimeout ELSE Off]
           ses == [session EXCEPT ![s] = up]
           nodes == Reported(node, R)
           ing == connecting \ {s}
           ed == <<s>> \o connected
<1>1. CASE ~(Len(connected) < connections)
  <2>1. SessionError(s, nodes)
    BY <1>1 DEF Established
  <2> HIDE DEF nodes
  <2> QED BY <2>1, EndOK DEF nodes
<1>2. CASE Len(connected) < connections
  <2>1. /\ session[s].state = "HANDSHAKING"
        /\ Maintain(ses, nodes, ing, ed, connections, info)
        /\ UNCHANGED <<connections, emptied, failed>>
    BY <1>2 DEF Established
  <2>2. /\ session \in [Sessions -> SessionType]
        /\ \A t \in Sessions : RecOK(session[t])
        /\ node \in [Hosts -> Seq(NodeType)]
        /\ connecting = StateIn(session, Attempts) /\ connected \in Seq(Sessions)
        /\ ToSet(connected) = StateIn(session, {"CONNECTED"})
        /\ IsInjective(connected) /\ Cardinality(connecting) <= ParallelAttempts
        /\ emptied = FALSE => OwnNodes(session, node)
        /\ info \in InfoType /\ Flags
    BY DEF IndInv, Ready, ListsOK, Reports
  <2>3. session[s].host \in Hosts
    BY <2>1, <2>2 DEF RecOK, Attempting
  <2>4. /\ up.state = "CONNECTED" /\ up.host = session[s].host
        /\ up.waits = "read" /\ up.handshake = FALSE /\ up.ping = PingInterval
        /\ up.pong \in {PingTimeout, Off}
    BY DEF Freed
  <2>5. up \in SessionType
    <3>1. Freed \in SessionType
      BY FreedOK DEF RecOK
    <3>2. /\ PingInterval \in Off .. PingInterval
          /\ (IF rest THEN PingTimeout ELSE Off) \in Off .. PingTimeout
      BY DEF PingInterval, PingTimeout, Off
    <3> QED BY <2>3, <3>1, <3>2 DEF SessionType
  <2> HIDE DEF up
  <2>6. RecOK(up)
    <3>1. TimesHandshake(up)
      BY <2>4 DEF TimesHandshake
    <3>2. Up(up)
      BY <2>3, <2>4 DEF Up, PingInterval, PingTimeout, Off
    <3> QED BY <2>4, <2>5, <3>1, <3>2 DEF RecOK
  <2>7. /\ ses \in [Sessions -> SessionType] /\ \A t \in Sessions : RecOK(ses[t])
        /\ \A t \in Sessions : ses[t].host = session[t].host
        /\ \A t \in Sessions \ {s} : ses[t] = session[t]
        /\ ses[s].state = "CONNECTED"
    BY <2>2, <2>4, <2>5, <2>6
  <2>8. /\ nodes \in [Hosts -> Seq(NodeType)]
        /\ \A h \in Hosts : /\ InUse(nodes[h]) = InUse(node[h])
                            /\ Len(nodes[h]) >= Len(node[h])
    BY <2>2, ReportedFacts
  <2>9. s \notin ToSet(connected) /\ s \in connecting
    BY <2>1, <2>2 DEF StateIn, Attempts
  <2>10. /\ ed \in Seq(Sessions) /\ IsInjective(ed)
         /\ ToSet(ed) = ToSet(connected) \cup {s}
    BY <2>2, <2>9, FrontFacts
  <2>11. Cardinality(ing) <= ParallelAttempts
    <3>1. IsFiniteSet(connecting) /\ Cardinality(connecting) \in Nat
      BY <2>2, AttemptsFinite
    <3>2. Cardinality(ing) <= Cardinality(connecting) /\ IsFiniteSet(ing)
      BY <3>1, FS_Subset
    <3>3. Cardinality(ing) \in Nat
      BY <3>2, FS_CardinalityType
    <3> QED BY <2>2, <3>1, <3>2, <3>3, SessionsAssumption
  <2> HIDE DEF ses, nodes, ing, ed
  <2>12. /\ StateIn(ses, Attempts) = StateIn(session, Attempts) \ {s}
         /\ StateIn(ses, {"CONNECTED"}) = StateIn(session, {"CONNECTED"}) \cup {s}
         /\ Live(ses) = Live(session)
    BY <2>1, <2>7 DEF StateIn, Attempts, Live
  <2>13. ListsOK(ses, ing, ed)
    BY <2>2, <2>10, <2>11, <2>12 DEF ListsOK, ing
  <2>14. ASSUME emptied = FALSE PROVE OwnNodes(ses, nodes)
    <3>1. OwnNodes(session, nodes)
      BY <2>2, <2>8, <2>14, SameUse
    <3>2. \A h : At(ses, h) = At(session, h)
      BY <2>7, <2>12 DEF At, Live
    <3> QED BY <3>1, <3>2 DEF OwnNodes
  <2>15. Ready(ses, nodes, ing, ed)
    BY <2>7, <2>8, <2>13, <2>14 DEF Ready
  <2>16. /\ connections' \in 0 .. MaxWanted /\ emptied' = emptied
         /\ failed' = failed /\ Maintain(ses, nodes, ing, ed, connections', info)
    BY <2>1, <2>2 DEF Flags
  <2> QED BY <2>2, <2>15, <2>16, MaintainFacts
<1> QED BY <1>1, <1>2

LEMMA PacketOK ==
    ASSUME IndInv, NEW s \in Sessions, NEW what, NEW rest \in BOOLEAN,
           Packet(s, what, rest)
    PROVE  IndInv'
<1>1. /\ session \in [Sessions -> SessionType] /\ session[s] \in SessionType
      /\ \A t \in Sessions : RecOK(session[t])
      /\ failed \in {"no", "compressed"}
  BY SessionFacts
<1>2. /\ session[s].state = "CONNECTED"
      /\ session' = IF rest THEN session ELSE [session EXCEPT ![s].pong = Off]
      /\ failed' \in {"no", "compressed"}
      /\ UNCHANGED <<man, node, info, filling, ranOut, emptied>>
  BY <1>1 DEF Packet
<1> DEFINE r == [session[s] EXCEPT !.pong = Off]
<1>3. /\ r \in SessionType /\ r.state = session[s].state /\ r.host = session[s].host
      /\ r.waits = session[s].waits /\ r.handshake = session[s].handshake
      /\ r.ping = session[s].ping /\ r.pong = Off
  BY <1>1 DEF SessionType, Off, PingTimeout
<1>4. session' = IF rest THEN session ELSE [session EXCEPT ![s] = r]
  BY <1>2
<1> HIDE DEF r
<1>5. RecOK(r) /\ SameKind(session[s], r)
  <2>1. TimesHandshake(r)
    BY <1>1, <1>3 DEF RecOK, TimesHandshake
  <2>2. Up(r)
    BY <1>1, <1>2, <1>3 DEF RecOK, Up
  <2> QED BY <1>2, <1>3, <2>1, <2>2 DEF RecOK, SameKind
<1>6. \A t \in Sessions : SameKind(session[t], session[t])
  BY DEF SameKind
<1>7. /\ session' \in [Sessions -> SessionType]
      /\ \A t \in Sessions : RecOK(session'[t]) /\ SameKind(session[t], session'[t])
  <2>1. CASE rest
    BY <1>1, <1>4, <1>6, <2>1
  <2>2. CASE ~rest
    BY <1>1, <1>3, <1>4, <1>5, <1>6, <2>2
  <2> QED BY <2>1, <2>2
<1> QED BY <1>2, <1>7, KeptFacts

LEMMA PingOK ==
    ASSUME IndInv, NEW s \in Sessions, Ping(s)
    PROVE  IndInv'
<1>1. /\ session \in [Sessions -> SessionType] /\ session[s] \in SessionType
      /\ \A t \in Sessions : RecOK(session[t])
      /\ failed \in {"no", "compressed"}
  BY SessionFacts
<1> DEFINE r == [session[s] EXCEPT !.ping = PingInterval, !.pong = PingTimeout]
<1>2. /\ session[s].ping = 0 /\ session' = [session EXCEPT ![s] = r]
      /\ failed' = IF session[s].pong = Off THEN failed ELSE "ping"
      /\ UNCHANGED <<man, node, info, filling, ranOut, emptied>>
  BY DEF Ping
<1>3. Up(session[s]) /\ session[s].state = "CONNECTED"
  <2>1. session[s].ping # Off
    BY <1>2 DEF Off
  <2>2. session[s].state \in {"free", "CONNECTING", "HANDSHAKING", "CONNECTED"}
    BY <1>1 DEF SessionType
  <2> QED BY <1>1, <2>1, <2>2 DEF RecOK, Fresh, Attempting
<1>4. failed' \in {"no", "compressed"}
  <2>1. session[s].pong = Off
    BY <1>2, <1>3 DEF Up, Off
  <2> QED BY <1>1, <1>2, <2>1
<1>5. /\ r \in SessionType /\ r.state = session[s].state /\ r.host = session[s].host
      /\ r.waits = session[s].waits /\ r.handshake = session[s].handshake
      /\ r.ping = PingInterval /\ r.pong = PingTimeout
  <2>1. PingInterval \in Off .. PingInterval /\ PingTimeout \in Off .. PingTimeout
    BY DEF Off, PingTimeout, PingInterval
  <2> QED BY <1>1, <2>1 DEF SessionType
<1> HIDE DEF r
<1>6. RecOK(r) /\ SameKind(session[s], r)
  <2>1. TimesHandshake(r)
    BY <1>1, <1>5 DEF RecOK, TimesHandshake
  <2>2. Up(r)
    BY <1>3, <1>5 DEF Up, PingInterval, PingTimeout
  <2> QED BY <1>3, <1>5, <2>1, <2>2 DEF RecOK, SameKind
<1>7. \A t \in Sessions : SameKind(session[t], session[t])
  BY DEF SameKind
<1>8. /\ session' \in [Sessions -> SessionType]
      /\ \A t \in Sessions : RecOK(session'[t]) /\ SameKind(session[t], session'[t])
  BY <1>1, <1>2, <1>5, <1>6, <1>7
<1> QED BY <1>2, <1>4, <1>8, KeptFacts

LEMMA TickOK ==
    ASSUME IndInv, Tick
    PROVE  IndInv'
<1> DEFINE older(t) == [session[t] EXCEPT !.ping = Older(session[t].ping),
                                          !.pong = Older(session[t].pong)]
<1>1. /\ \A t \in Sessions : session[t].ping # 0 /\ session[t].pong # 0
      /\ session' = [t \in Sessions |-> older(t)]
      /\ UNCHANGED <<man, node, info, filling, ranOut, emptied, failed>>
  BY DEF Tick
<1>2. ASSUME NEW t \in Sessions
      PROVE  RecOK(older(t)) /\ SameKind(session[t], older(t))
  <2> DEFINE r == older(t)
  <2>1. /\ session[t] \in SessionType /\ RecOK(session[t])
        /\ session[t].ping # 0 /\ session[t].pong # 0
    BY <1>1, SessionFacts
  <2>2. /\ session[t].ping \in -1 .. 3 /\ session[t].pong \in -1 .. 2
    BY <2>1 DEF SessionType, Off, PingInterval, PingTimeout
  <2>3. /\ r.state = session[t].state /\ r.host = session[t].host
        /\ r.waits = session[t].waits /\ r.handshake = session[t].handshake
        /\ r.ping = Older(session[t].ping) /\ r.pong = Older(session[t].pong)
    BY <2>1 DEF SessionType
  <2>4. /\ Older(session[t].ping) \in -1 .. 3 /\ Older(session[t].pong) \in -1 .. 2
    BY <2>1, <2>2 DEF Older, Off
  <2>5. r \in SessionType
    BY <2>1, <2>4 DEF SessionType, Off, PingInterval, PingTimeout
  <2> HIDE DEF r
  <2>6. TimesHandshake(r)
    BY <2>1, <2>3 DEF RecOK, TimesHandshake
  <2>7. r.state = "free" => Fresh(r)
    BY <2>1, <2>3 DEF RecOK, Fresh, Older
  <2>8. r.state \in {"CONNECTING", "HANDSHAKING"} => Attempting(r)
    BY <2>1, <2>3 DEF RecOK, Attempting, Older
  <2>9. r.state = "CONNECTED" => Up(r)
    <3> HAVE r.state = "CONNECTED"
    <3>1. Up(session[t])
      BY <2>1, <2>3 DEF RecOK
    <3>2. r.ping >= 0
      BY <2>1, <2>2, <2>3, <3>1 DEF Up, Older, Off
    <3>3. r.pong = Off \/ r.pong = r.ping - 1
      BY <2>1, <2>2, <2>3, <3>1 DEF Up, Older, Off
    <3> QED BY <2>3, <3>1, <3>2, <3>3 DEF Up
  <2>10. RecOK(r)
    BY <2>5, <2>6, <2>7, <2>8, <2>9 DEF RecOK
  <2>11. SameKind(session[t], r)
    BY <2>3 DEF SameKind
  <2> QED BY <2>10, <2>11 DEF r
<1> HIDE DEF older
<1>3. \A t \in Sessions : older(t) \in SessionType
  BY <1>2 DEF RecOK
<1>4. /\ session' \in [Sessions -> SessionType]
      /\ \A t \in Sessions : RecOK(session'[t]) /\ SameKind(session[t], session'[t])
  BY <1>1, <1>2, <1>3
<1>5. failed' \in {"no", "compressed"}
  BY <1>1 DEF IndInv, Flags
<1> QED BY <1>1, <1>4, <1>5, KeptFacts

(* connections' is what sessman_maintain is called with. *)
LEMMA CallOK ==
    ASSUME IndInv, connections' \in 0 .. MaxWanted,
           Maintain(session, node, connecting, connected, connections', info),
           UNCHANGED <<emptied, failed>>
    PROVE  IndInv'
<1>1. Ready(session, node, connecting, connected) /\ Flags /\ info \in InfoType
  BY DEF IndInv, Reports
<1> QED BY <1>1, MaintainFacts

(* Changes of the node cache, in particular those that leave the marks of  *)
(* used nodes alone.                                                       *)
LEMMA NodesOK ==
    ASSUME IndInv,
           node' \in [Hosts -> Seq(NodeType)],
           UNCHANGED <<session, man, info, filling, ranOut, failed>>,
           emptied' \in BOOLEAN,
           emptied' = FALSE => OwnNodes(session, node')
    PROVE  IndInv'
<1>1. /\ session' = session /\ info' = info /\ ranOut' = ranOut /\ failed' = failed
      /\ connecting' = connecting /\ connected' = connected
      /\ connections' = connections /\ filling' = filling
  BY DEF man
<1>2. ListsOK(session', connecting', connected')
  BY <1>1 DEF IndInv, Ready
<1>3. Ready(session, node, connecting, connected)'
  BY <1>1, <1>2 DEF IndInv, Ready
<1>4. Reports' /\ Flags'
  BY <1>1 DEF IndInv, Reports, Flags
<1> QED BY <1>3, <1>4 DEF IndInv

LEMMA MarksKept ==
    ASSUME IndInv,
           node' \in [Hosts -> Seq(NodeType)],
           \A h \in Hosts : /\ InUse(node'[h]) = InUse(node[h])
                            /\ Len(node'[h]) >= Len(node[h]),
           UNCHANGED <<session, man, info, filling, ranOut, failed, emptied>>
    PROVE  IndInv'
<1>1. node \in [Hosts -> Seq(NodeType)] /\ (emptied = FALSE => OwnNodes(session, node))
  BY NodeFacts
<1>2. emptied' = FALSE => OwnNodes(session, node')
  BY <1>1, SameUse
<1>3. emptied' \in BOOLEAN
  BY DEF IndInv, Flags
<1> QED BY <1>2, <1>3, NodesOK

LEMMA ExpireOK ==
    ASSUME IndInv, NEW h \in Hosts, NEW i \in DOMAIN node[h], Expire(h, i)
    PROVE  IndInv'
<1>1. node \in [Hosts -> Seq(NodeType)]
  BY NodeFacts
<1> DEFINE r == [node[h][i] EXCEPT !.tried = FALSE]
           q == [node[h] EXCEPT ![i] = r]
<1>2. node[h] \in Seq(NodeType) /\ i \in 1 .. Len(node[h]) /\ node[h][i] \in NodeType
  BY <1>1
<1>3. r \in NodeType /\ r.in_use = node[h][i].in_use
  BY <1>2 DEF NodeType
<1>4. node' = [node EXCEPT ![h] = q]
  BY DEF Expire
<1> HIDE DEF r
<1>5. /\ q \in Seq(NodeType) /\ Len(q) = Len(node[h])
      /\ \A j \in 1 .. Len(q) : q[j] = IF j = i THEN r ELSE node[h][j]
  BY <1>2, <1>3
<1> HIDE DEF q
<1>6. InUse(q) = InUse(node[h])
  BY <1>2, <1>3, <1>5 DEF InUse
<1>7. \A k \in Hosts : Len(node[k]) \in Nat
  BY <1>1
<1>8. /\ node' \in [Hosts -> Seq(NodeType)]
      /\ \A k \in Hosts : /\ InUse(node'[k]) = InUse(node[k])
                          /\ Len(node'[k]) >= Len(node[k])
  BY <1>1, <1>4, <1>5, <1>6, <1>7
<1>9. UNCHANGED <<session, man, info, filling, ranOut, failed, emptied>>
  BY DEF Expire
<1> QED BY <1>8, <1>9, MarksKept

LEMMA LoadOK ==
    ASSUME IndInv, NEW h \in Hosts, NEW tried \in BOOLEAN, Load(h, tried)
    PROVE  IndInv'
<1>1. node \in [Hosts -> Seq(NodeType)]
  BY NodeFacts
<1> DEFINE r == NewNode(tried)
           q == Append(node[h], r)
<1>2. r \in NodeType /\ r.in_use = FALSE
  BY DEF NewNode, NodeType
<1>3. node' = [node EXCEPT ![h] = q]
  BY DEF Load
<1> HIDE DEF r
<1>4. /\ q \in Seq(NodeType) /\ Len(q) = Len(node[h]) + 1
      /\ \A j \in 1 .. Len(q) : q[j] = IF j = Len(q) THEN r ELSE node[h][j]
  BY <1>1, <1>2
<1> HIDE DEF q
<1>5. InUse(q) = InUse(node[h])
  <2>1. DOMAIN q = 1 .. Len(q) /\ DOMAIN node[h] = 1 .. Len(node[h])
    BY <1>1, <1>4
  <2> QED BY <1>1, <1>2, <1>4, <2>1 DEF InUse
<1>6. \A k \in Hosts : Len(node[k]) \in Nat
  BY <1>1
<1>7. /\ node' \in [Hosts -> Seq(NodeType)]
      /\ \A k \in Hosts : /\ InUse(node'[k]) = InUse(node[k])
                          /\ Len(node'[k]) >= Len(node[k])
  BY <1>1, <1>3, <1>4, <1>5, <1>6
<1>8. UNCHANGED <<session, man, info, filling, ranOut, failed, emptied>>
  BY DEF Load
<1> QED BY <1>7, <1>8, MarksKept

LEMMA EmptyOK ==
    ASSUME IndInv, Empty
    PROVE  IndInv'
<1>1. /\ node' = [h \in Hosts |-> <<>>]
      /\ emptied' = (emptied \/ Live(session) # {})
      /\ UNCHANGED <<session, man, info, filling, ranOut, failed>>
  BY DEF Empty
<1>2. node' \in [Hosts -> Seq(NodeType)] /\ emptied' \in BOOLEAN
  BY <1>1
<1>3. ASSUME emptied' = FALSE
      PROVE  OwnNodes(session, node')
  <2>1. \A h : At(session, h) = {}
    BY <1>1, <1>3 DEF At
  <2>2. InUse(<<>>) = {} /\ Cardinality({}) = 0
    BY FS_EmptySet DEF InUse
  <2>3. \A h \in Hosts : InUse(node'[h]) = {}
    BY <1>1, <2>2
  <2>4. Cardinality({}) <= Cardinality({})
    BY <2>2
  <2> QED BY <2>1, <2>3, <2>4 DEF OwnNodes
<1> QED BY <1>1, <1>2, <1>3, NodesOK

(* A node as_nodeman_next returns was not in use, and is now. *)
LEMMA TakenFacts ==
    ASSUME NEW nodes \in [Hosts -> Seq(NodeType)], NEW n \in Eligible(nodes)
    PROVE  /\ n[1] \in Hosts
           /\ Taken(nodes, n[1], n[2]) \in [Hosts -> Seq(NodeType)]
           /\ Len(Taken(nodes, n[1], n[2])[n[1]]) = Len(nodes[n[1]])
           /\ n[2] \in 1 .. Len(nodes[n[1]]) /\ n[2] \notin InUse(nodes[n[1]])
           /\ InUse(Taken(nodes, n[1], n[2])[n[1]]) = InUse(nodes[n[1]]) \cup {n[2]}
           /\ \A h \in Hosts \ {n[1]} : Taken(nodes, n[1], n[2])[h] = nodes[h]
<1>0. n \in UNION {{h} \X DOMAIN nodes[h] : h \in Hosts} /\ ~nodes[n[1]][n[2]].in_use
  BY DEF Eligible
<1> DEFINE h == n[1]
           i == n[2]
<1>1. h \in Hosts /\ i \in DOMAIN nodes[h] /\ ~nodes[h][i].in_use
  BY <1>0
<1>2. n[1] = h /\ n[2] = i /\ nodes[h] \in Seq(NodeType) /\ i \in 1 .. Len(nodes[h])
  BY <1>1
<1> HIDE DEF h, i
<1> DEFINE r == [in_use |-> TRUE, tried |-> TRUE]
           q == [nodes[h] EXCEPT ![i] = r]
<1>3. r \in NodeType /\ r.in_use = TRUE
  BY DEF NodeType
<1>4. Taken(nodes, h, i) = [nodes EXCEPT ![h] = q]
  BY DEF Taken
<1> HIDE DEF r
<1>5. /\ q \in Seq(NodeType) /\ Len(q) = Len(nodes[h])
      /\ \A j \in 1 .. Len(q) : q[j] = IF j = i THEN r ELSE nodes[h][j]
  BY <1>2, <1>3
<1> HIDE DEF q
<1>6. DOMAIN q = 1 .. Len(q) /\ DOMAIN nodes[h] = 1 .. Len(nodes[h])
  BY <1>2, <1>5
<1>7. InUse(q) = InUse(nodes[h]) \cup {i} /\ i \notin InUse(nodes[h])
  BY <1>1, <1>2, <1>3, <1>5, <1>6 DEF InUse
<1>8. h \in Hosts
  BY <1>1 DEF h
<1>9. /\ Taken(nodes, h, i) \in [Hosts -> Seq(NodeType)]
      /\ Taken(nodes, h, i)[h] = q
      /\ \A k \in Hosts \ {h} : Taken(nodes, h, i)[k] = nodes[k]
  BY <1>4, <1>5, <1>8
<1>10. /\ Len(Taken(nodes, h, i)[h]) = Len(nodes[h])
       /\ InUse(Taken(nodes, h, i)[h]) = InUse(nodes[h]) \cup {i}
  BY <1>5, <1>7, <1>9
<1> QED BY <1>2, <1>7, <1>8, <1>9, <1>10 DEF h, i

(* A turn of the loop whose node gets no session: it is marked in use and  *)
(* the indexed one released.                                               *)
LEMMA GivenBack ==
    ASSUME NEW ses, NEW nodes \in [Hosts -> Seq(NodeType)], NEW n \in Eligible(nodes),
           OwnNodes(ses, nodes)
    PROVE  OwnNodes(ses, Released(Taken(nodes, n[1], n[2]), {n[1]}))
<1> DEFINE took == Taken(nodes, n[1], n[2])
           after == Released(took, {n[1]})
<1>1. /\ n[1] \in Hosts /\ took \in [Hosts -> Seq(NodeType)]
      /\ Len(took[n[1]]) = Len(nodes[n[1]])
      /\ n[2] \in 1 .. Len(nodes[n[1]]) /\ n[2] \notin InUse(nodes[n[1]])
      /\ InUse(took[n[1]]) = InUse(nodes[n[1]]) \cup {n[2]}
      /\ \A h \in Hosts \ {n[1]} : took[h] = nodes[h]
  BY TakenFacts
<1> HIDE DEF took
<1>2. /\ \A h \in Hosts : Len(after[h]) = Len(took[h])
      /\ InUse(after[n[1]]) = InUse(took[n[1]]) \ {Len(took[n[1]])}
      /\ \A h \in Hosts \ {n[1]} : after[h] = took[h]
  <2>1. n[1] \in Hosts \cap {n[1]}
    BY <1>1
  <2> DEFINE H == {n[1]}
  <2> HIDE DEF H
  <2>2. /\ \A h \in Hosts : Len(Released(took, H)[h]) = Len(took[h])
        /\ \A h \in Hosts \cap H :
              InUse(Released(took, H)[h]) = InUse(took[h]) \ {Len(took[h])}
        /\ \A h \in Hosts \ H : Released(took, H)[h] = took[h]
    BY <1>1, ReleasedFacts
  <2>3. after = Released(took, H)
    BY DEF H
  <2>4. n[1] \in Hosts \cap H /\ \A h \in Hosts \ {n[1]} : h \in Hosts \ H
    BY <2>1 DEF H
  <2> HIDE DEF after
  <2> QED BY <2>2, <2>3, <2>4
<1> HIDE DEF after
<1> SUFFICES ASSUME NEW h \in Hosts
             PROVE  /\ Cardinality(At(ses, h)) <= Cardinality(InUse(after[h]))
                    /\ Len(after[h]) <= 1 =>
                          Cardinality(At(ses, h)) = Cardinality(InUse(after[h]))
  BY DEF OwnNodes, after, took
<1> DEFINE U == InUse(nodes[h])
<1>3. /\ IsFiniteSet(U) /\ Cardinality(U) \in Nat /\ U \subseteq 1 .. Len(nodes[h])
      /\ Cardinality(At(ses, h)) \in Nat
  BY InUseFinite, AtFinite
<1>4. /\ Cardinality(At(ses, h)) <= Cardinality(U)
      /\ Len(nodes[h]) <= 1 => Cardinality(At(ses, h)) = Cardinality(U)
  BY DEF OwnNodes
<1>5. CASE h # n[1]
  BY <1>1, <1>2, <1>4, <1>5
<1>6. CASE h = n[1]
  <2> DEFINE k == Len(nodes[h])
             V == (U \cup {n[2]}) \ {k}
  <2>1. Len(after[h]) = k /\ InUse(after[h]) = V /\ n[2] \in 1 .. k /\ n[2] \notin U
    BY <1>1, <1>2, <1>6
  <2>2. k \in Nat
    OBVIOUS
  <2> HIDE DEF k, U
  <2>3. /\ IsFiniteSet(U \cup {n[2]})
        /\ Cardinality(U \cup {n[2]}) = Cardinality(U) + 1
    BY <1>3, <2>1, FS_AddElement
  <2>4. Cardinality(V) >= Cardinality(U) /\ Cardinality(V) \in Nat
    <3>1. /\ IsFiniteSet(V)
          /\ Cardinality(V) = IF k \in U \cup {n[2]} THEN Cardinality(U \cup {n[2]}) - 1
                              ELSE Cardinality(U \cup {n[2]})
      BY <2>3, FS_RemoveElement
    <3> HIDE DEF V
    <3> QED BY <1>3, <2>3, <3>1, FS_CardinalityType
  <2>5. k <= 1 => V = U
    <3> SUFFICES ASSUME k <= 1 PROVE V = U
      OBVIOUS
    <3>1. k = 1 /\ n[2] = 1
      BY <2>1, <2>2
    <3> QED BY <2>1, <3>1
  <2> HIDE DEF V
  <2> QED BY <1>3, <1>4, <2>1, <2>4, <2>5 DEF k
<1> QED BY <1>5, <1>6

(* The loop ends without the network information being told, or goes on. *)
LEMMA GivenUpOK ==
    ASSUME IndInv, filling = TRUE,
           node' \in [Hosts -> Seq(NodeType)],
           emptied = FALSE => OwnNodes(session, node'),
           UNCHANGED <<session, man, info, emptied, failed>>,
           \/ filling' = filling /\ ranOut' = ranOut
           \/ filling' = FALSE /\ ranOut' = TRUE
    PROVE  IndInv'
<1>1. /\ session' = session /\ info' = info /\ failed' = failed /\ emptied' = emptied
      /\ connecting' = connecting /\ connected' = connected
      /\ connections' = connections
  BY DEF man
<1>2. Ready(session, node, connecting, connected)'
  BY <1>1 DEF IndInv, Ready, ListsOK
<1>3. Reports' /\ Flags'
  BY <1>1 DEF IndInv, Reports, Flags
<1> QED BY <1>2, <1>3 DEF IndInv

LEMMA AttemptStartsOK ==
    ASSUME IndInv, NEW n \in Eligible(node), NEW s \in Sessions, AttemptStarts(n, s)
    PROVE  IndInv'
<1> DEFINE h == n[1]
           took == Taken(node, n[1], n[2])
<1>1. /\ session \in [Sessions -> SessionType] /\ \A t \in Sessions : RecOK(session[t])
      /\ node \in [Hosts -> Seq(NodeType)]
      /\ connecting = StateIn(session, Attempts) /\ connected \in Seq(Sessions)
      /\ ToSet(connected) = StateIn(session, {"CONNECTED"})
      /\ IsInjective(connected)
      /\ emptied = FALSE => OwnNodes(session, node)
  BY DEF IndInv, Ready, ListsOK
<1>2. /\ filling /\ s \notin Live(session)
      /\ session' = [session EXCEPT ![s] = Connecting(h)]
      /\ node' = took
      /\ connecting' = connecting \cup {s}
      /\ filling' = (Cardinality(connecting) + 1 < ParallelAttempts)
      /\ IF filling' THEN info' = info /\ ranOut' = ranOut
         ELSE info' = HandleConnect(info, connections, Len(connected)) /\ ranOut' = FALSE
      /\ connected' = connected /\ connections' = connections
      /\ emptied' = emptied /\ failed' = failed
  BY DEF AttemptStarts
<1>3. /\ h \in Hosts /\ took \in [Hosts -> Seq(NodeType)]
      /\ Len(took[h]) = Len(node[h])
      /\ n[2] \notin InUse(node[h])
      /\ InUse(took[h]) = InUse(node[h]) \cup {n[2]}
      /\ \A k \in Hosts \ {h} : took[k] = node[k]
  BY <1>1, TakenFacts
<1> HIDE DEF h, took
<1>4. RecOK(Connecting(h)) /\ Connecting(h).state = "CONNECTING" /\ Connecting(h).host = h
  BY <1>3, NewSessionFacts
<1>5. /\ session' \in [Sessions -> SessionType]
      /\ \A t \in Sessions : RecOK(session'[t])
      /\ session'[s] = Connecting(h)
      /\ \A t \in Sessions \ {s} : session'[t] = session[t]
  BY <1>1, <1>2, <1>4 DEF RecOK
<1>6. /\ Cardinality(connecting) < ParallelAttempts /\ Len(connected) < connections
      /\ info \in InfoType /\ ranOut \in BOOLEAN /\ emptied \in BOOLEAN
      /\ failed \in {"no", "compressed"} /\ connections \in 0 .. MaxWanted
  BY <1>2 DEF IndInv, Reports, Flags
<1>7. session[s].state = "free"
  BY <1>2 DEF Live
<1>8. /\ IsFiniteSet(connecting) /\ Cardinality(connecting) \in Nat
      /\ Cardinality(connecting') = Cardinality(connecting) + 1
  <2>1. s \notin connecting
    BY <1>1, <1>7 DEF StateIn, Attempts
  <2>2. IsFiniteSet(connecting) /\ Cardinality(connecting) \in Nat
    BY <1>1, AttemptsFinite
  <2> QED BY <1>2, <2>1, <2>2, FS_AddElement
<1>9. ListsOK(session', connecting', connected')
  <2>1. /\ StateIn(session', Attempts) = StateIn(session, Attempts) \cup {s}
        /\ StateIn(session', {"CONNECTED"}) = StateIn(session, {"CONNECTED"})
    BY <1>4, <1>5, <1>7 DEF StateIn, Attempts
  <2>2. Cardinality(connecting') <= ParallelAttempts
    BY <1>6, <1>8, SessionsAssumption
  <2>3. connecting' = StateIn(session', Attempts)
    BY <1>1, <1>2, <2>1
  <2> QED BY <1>1, <1>2, <2>1, <2>2, <2>3 DEF ListsOK
<1>10. ASSUME emptied' = FALSE PROVE OwnNodes(session', node')
  <2>1. OwnNodes(session, node)
    BY <1>1, <1>2, <1>10
  <2>2. /\ At(session', h) = At(session, h) \cup {s} /\ s \notin At(session, h)
        /\ \A k \in Hosts \ {h} : At(session', k) = At(session, k)
    BY <1>4, <1>5, <1>7 DEF At, Live
  <2>3. /\ Cardinality(At(session', h)) = Cardinality(At(session, h)) + 1
        /\ Cardinality(At(session, h)) \in Nat
    BY <2>2, AtFinite, FS_AddElement
  <2>4. /\ Cardinality(InUse(took[h])) = Cardinality(InUse(node[h])) + 1
        /\ Cardinality(InUse(node[h])) \in Nat
    <3>1. IsFiniteSet(InUse(node[h])) /\ Cardinality(InUse(node[h])) \in Nat
      BY <1>1, <1>3, InUseFinite
    <3> QED BY <1>3, <3>1, FS_AddElement
  <2> SUFFICES ASSUME NEW k \in Hosts
               PROVE  /\ Cardinality(At(session', k)) <= Cardinality(InUse(node'[k]))
                      /\ Len(node'[k]) <= 1 =>
                            Cardinality(At(session', k)) = Cardinality(InUse(node'[k]))
    BY DEF OwnNodes
  <2>5. CASE k = h
    <3>1. /\ Cardinality(At(session, h)) <= Cardinality(InUse(node[h]))
          /\ Len(node[h]) <= 1 =>
                Cardinality(At(session, h)) = Cardinality(InUse(node[h]))
      BY <1>3, <2>1 DEF OwnNodes
    <3>2. /\ Cardinality(At(session', k)) = Cardinality(At(session, h)) + 1
          /\ Cardinality(InUse(node'[k])) = Cardinality(InUse(node[h])) + 1
          /\ Len(node'[k]) = Len(node[h])
      BY <1>2, <1>3, <2>3, <2>4, <2>5
    <3> QED BY <2>3, <2>4, <3>1, <3>2
  <2>6. CASE k # h
    BY <1>2, <1>3, <2>1, <2>2, <2>6 DEF OwnNodes
  <2> QED BY <2>5, <2>6
<1>11. Ready(session, node, connecting, connected)'
  BY <1>2, <1>3, <1>5, <1>9, <1>10 DEF Ready
<1>12. Len(connected) \in 0 .. MaxWanted
  BY <1>1, <1>6, SessionsAssumption
<1>13. filling' \in BOOLEAN
  BY <1>2
<1>14. Reports' /\ ranOut' \in BOOLEAN
  <2>1. /\ Len(connected') < connections' /\ Len(connected') # connections'
        /\ Len(connected') <= connections'
    BY <1>2, <1>6, <1>12, SessionsAssumption
  <2>2. CASE filling' = TRUE
    <3>1. info' \in InfoType /\ ranOut' \in BOOLEAN
      BY <1>2, <1>6, <2>2
    <3>2. Cardinality(connecting') < ParallelAttempts
      BY <1>2, <1>8, <2>2
    <3> QED BY <2>1, <2>2, <3>1, <3>2 DEF Reports
  <2>3. CASE filling' = FALSE
    <3>1. /\ info' = HandleConnect(info, connections, Len(connected))
          /\ ranOut' = FALSE
      BY <1>2, <2>3
    <3>2. /\ info' \in InfoType
          /\ info'.want = connections' /\ info'.have = Len(connected')
      BY <1>2, <1>6, <1>12, <3>1, HandleConnectFacts
    <3> QED BY <2>1, <2>3, <3>1, <3>2 DEF Reports
  <2> QED BY <1>13, <2>2, <2>3
<1> QED BY <1>2, <1>6, <1>11, <1>13, <1>14 DEF IndInv, Flags

LEMMA LoopOK ==
    ASSUME IndInv, Loop
    PROVE  IndInv'
<1>1. /\ node \in [Hosts -> Seq(NodeType)]
      /\ emptied = FALSE => OwnNodes(session, node)
      /\ filling \in BOOLEAN
  BY NodeFacts DEF IndInv, Flags
<1>2. CASE NoNodes
  <2>1. /\ filling /\ filling' = FALSE /\ ranOut' = TRUE /\ node' = node
        /\ UNCHANGED <<session, man, info, emptied, failed>>
    BY <1>2 DEF NoNodes
  <2> QED BY <1>1, <2>1, GivenUpOK
<1>3. ASSUME NEW n \in Eligible(node), AttemptFails(n) \/ NoMemory(n) PROVE IndInv'
  <2> DEFINE after == Released(Taken(node, n[1], n[2]), {n[1]})
  <2>1. /\ filling /\ node' = after
        /\ UNCHANGED <<session, man, info, emptied, failed>>
        /\ \/ filling' = filling /\ ranOut' = ranOut
           \/ filling' = FALSE /\ ranOut' = TRUE
    BY <1>3 DEF AttemptFails, NoMemory
  <2>2. after \in [Hosts -> Seq(NodeType)]
    BY <1>1, TakenFacts, ReleasedFacts
  <2>3. emptied = FALSE => OwnNodes(session, after)
    BY <1>1, GivenBack
  <2> HIDE DEF after
  <2> QED BY <1>1, <2>1, <2>2, <2>3, GivenUpOK
<1>4. ASSUME NEW n \in Eligible(node), NEW s \in Sessions, AttemptStarts(n, s)
      PROVE  IndInv'
  BY <1>4, AttemptStartsOK
<1> QED BY <1>2, <1>3, <1>4 DEF Loop

LEMMA EventOK ==
    ASSUME IndInv, NEW s \in Sessions, Event(s)
    PROVE  IndInv'
<1>1. CASE SessionConnected(s)
  BY <1>1, SessionConnectedOK
<1>2. CASE ConnectFails(s) \/ ReadFails(s) \/ HandshakeTimeout(s) \/ PongTimeout(s)
  <2>1. SessionError(s, node)
    BY <1>2 DEF ConnectFails, ReadFails, HandshakeTimeout, PongTimeout
  <2> QED BY <2>1, EndOK
<1>3. CASE Ping(s)
  BY <1>3, PingOK
<1>4. ASSUME NEW R \in SUBSET Hosts, HandshakeFails(s, R) PROVE IndInv'
  <2>1. SessionError(s, Reported(node, R))
    BY <1>4 DEF HandshakeFails
  <2> QED BY <2>1, EndOK
<1>5. ASSUME NEW R \in SUBSET Hosts, NEW rest \in BOOLEAN, Established(s, R, rest)
      PROVE  IndInv'
  BY <1>5, EstablishedOK
<1>6. ASSUME NEW what \in PacketTypes, NEW rest \in BOOLEAN, Packet(s, what, rest)
      PROVE  IndInv'
  BY <1>6, PacketOK
<1> QED BY <1>1, <1>2, <1>3, <1>4, <1>5, <1>6 DEF Event

LEMMA StepOK == IndInv /\ [Next]_vars => IndInv'
<1> SUFFICES ASSUME IndInv, [Next]_vars PROVE IndInv'
  OBVIOUS
<1>1. CASE \E s \in Sessions : Event(s)
  BY <1>1, EventOK
<1>2. CASE Tick
  BY <1>2, TickOK
<1>3. CASE MaintenanceTimer
  <2>1. /\ connections' = connections /\ UNCHANGED <<emptied, failed>>
        /\ Maintain(session, node, connecting, connected, connections, info)
        /\ connections \in 0 .. MaxWanted
    BY <1>3 DEF MaintenanceTimer, IndInv, Flags
  <2> QED BY <2>1, CallOK
<1>4. ASSUME NEW n \in 0 .. MaxWanted, Connect(n) PROVE IndInv'
  <2>1. /\ connections' = n /\ UNCHANGED <<emptied, failed>>
        /\ Maintain(session, node, connecting, connected, n, info)
    BY <1>4 DEF Connect
  <2> QED BY <2>1, CallOK
<1>5. CASE Empty
  BY <1>5, EmptyOK
<1>6. CASE \E h \in Hosts : \E i \in DOMAIN node[h] : Expire(h, i)
  BY <1>6, ExpireOK
<1>7. CASE \E h \in Hosts, tried \in BOOLEAN : Load(h, tried)
  BY <1>7, LoadOK
<1>8. CASE UNCHANGED vars
  <2>1. /\ \A s \in Sessions : RecOK(session'[s]) /\ SameKind(session[s], session'[s])
        /\ session' \in [Sessions -> SessionType] /\ failed' \in {"no", "compressed"}
    BY <1>8, SessionFacts DEF vars, SameKind, IndInv, Flags, Ready
  <2>2. UNCHANGED <<man, node, info, filling, ranOut, emptied>>
    BY <1>8 DEF vars, man
  <2> QED BY <2>1, <2>2, KeptFacts
<1>9. CASE Loop
  BY <1>9, LoopOK
<1> QED BY <1>1, <1>2, <1>3, <1>4, <1>5, <1>6, <1>7, <1>8, <1>9 DEF Next, Handler

-----------------------------------------------------------------------------
(***************************************************************************)
(* What follows from it.                                                   *)
(***************************************************************************)

(* The situations of sessions, both lists and the nodes fit together after *)
(* every event, however many sessions and supernodes there are.            *)
THEOREM Invariance == Spec => []IndInv
<1>1. Init => IndInv
  BY InitOK
<1>2. IndInv /\ [Next]_vars => IndInv'
  BY StepOK
<1> QED BY <1>1, <1>2, PTL DEF Spec

(* The lists hold each live session once, where its state says; no more    *)
(* sessions or attempts are there than asked for; and what the network     *)
(* information shows of them is true, unless nodes or memory ran out.      *)
THEOREM ListsSafe == Spec => []ListsConsistent
<1>1. IndInv => ListsConsistent
  <2> SUFFICES ASSUME IndInv PROVE ListsConsistent
    OBVIOUS
  <2>1. TypeOK
    <3>1. connecting \subseteq Sessions /\ connected \in Seq(Sessions)
      BY DEF IndInv, Ready, ListsOK, StateIn
    <3> QED BY <3>1 DEF IndInv, Ready, Reports, Flags, InfoType, NodeType, TypeOK
  <2>2. /\ connecting = In("CONNECTING") \cup In("HANDSHAKING")
        /\ ToSet(connected) = In("CONNECTED") /\ IsInjective(connected)
        /\ Cardinality(connecting) <= ParallelAttempts
    BY DEF IndInv, Ready, ListsOK, StateIn, Attempts, In
  <2>3. ~filling /\ ~ranOut => info.want = connections /\ info.have = Len(connected)
    BY DEF IndInv, Reports, Flags
  <2>4. /\ Len(connected) <= connections
        /\ Len(connected) = connections => connecting = {}
    BY DEF IndInv, Reports
  <2> QED BY <2>1, <2>2, <2>3, <2>4 DEF ListsConsistent
<1> QED BY <1>1, Invariance, PTL

(* Unless the cache was emptied under sessions, no more sessions go to a   *)
(* host than it has nodes marked in use, however they end; and as long as  *)
(* the host was not loaded again, its node is marked in use exactly while  *)
(* a session uses it, and only one does.                                   *)
THEOREM NodesSafe == Spec => []NodesInUse
<1>1. IndInv => NodesInUse
  <2>1. \A h : At(session, h) = SessionsAt(h)
    BY DEF At, SessionsAt
  <2> QED BY <2>1 DEF IndInv, Ready, OwnNodes, NodesInUse
<1> QED BY <1>1, Invariance, PTL
=============================================================================
