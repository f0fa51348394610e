----------------------------- MODULE ListFacts -----------------------------
(***************************************************************************)
(* Facts about lists that the proofs of several components need: induction *)
(* over the places of a list, what a function defined place by place is,   *)
(* and what adding to and taking from a list does to its members.          *)
(*                                                                         *)
(* The induction is over a set of places, never over an operator: it       *)
(* follows from the least element that every set of naturals has.          *)
(***************************************************************************)
EXTENDS Integers, SequencesExt, FiniteSetTheorems, SequenceTheorems, TLAPS

(* Every set of natural numbers has a least element. *)
LEMMA LeastElement ==
    ASSUME NEW T \in SUBSET Nat, T # {}
    PROVE  \E n \in T : \A j \in T : n <= j
<1>1. IsWellFoundedOn(OpToRel(<,Nat), Nat)
  BY NatLessThanWellFounded
<1>2. PICK n \in T : \A j \in T : ~(<<j, n>> \in OpToRel(<,Nat))
  <2> DEFINE R == OpToRel(<,Nat)
  <2>1. IsWellFoundedOn(R, Nat)
    BY <1>1
  <2> HIDE DEF R
  <2>2. \E n \in T : \A j \in T : ~(<<j, n>> \in R)
    BY <2>1, WFMin
  <2> QED BY <2>2 DEF R
<1>3. \A j \in T : ~(j < n)
  BY <1>2 DEF OpToRel
<1> QED BY <1>3

(* Induction over the places of a list. *)
LEMMA PlaceInduction ==
    ASSUME NEW N \in Nat, NEW P, 0 \in P,
           \A n \in 1 .. N : n - 1 \in P => n \in P
    PROVE  \A n \in 0 .. N : n \in P
<1> SUFFICES ASSUME NEW k \in 0 .. N, k \notin P PROVE FALSE
  OBVIOUS
<1> DEFINE S == {n \in Nat : n <= N /\ n \notin P}
<1>1. S # {}
  OBVIOUS
<1>2. PICK n \in S : \A j \in S : n <= j
  BY <1>1, LeastElement
<1>3. n \in 1 .. N /\ n \notin P
  BY <1>2
<1>4. n - 1 \in P
  BY <1>2, <1>3
<1> QED BY <1>3, <1>4

(* The steps of a fold over N places, and its values after each of them. *)
Steps(N, S) == [1 .. N -> [S -> S]]

IsRun(g, N, b, step) == g[0] = b /\ \A n \in 1 .. N : g[n] = step[n][g[n - 1]]

(* A fold has a value after each place. *)
LEMMA PlaceRecursion ==
    ASSUME NEW N \in Nat, NEW S, NEW b \in S, NEW step \in Steps(N, S)
    PROVE  \E g \in [0 .. N -> S] : IsRun(g, N, b, step)
<1> USE DEF Steps, IsRun
<1> DEFINE Upto(k, g) == g[0] = b /\ \A n \in 1 .. k : g[n] = step[n][g[n - 1]]
           P == {k \in 0 .. N : \E g \in [0 .. k -> S] : Upto(k, g)}
<1>1. 0 \in P
  <2>1. [n \in 0 .. 0 |-> b] \in [0 .. 0 -> S] /\ Upto(0, [n \in 0 .. 0 |-> b])
    OBVIOUS
  <2>2. \E g \in [0 .. 0 -> S] : Upto(0, g)
    BY <2>1
  <2>3. 0 \in 0 .. N
    OBVIOUS
  <2> QED BY <2>2, <2>3
<1>2. ASSUME NEW k \in 1 .. N, k - 1 \in P
      PROVE  k \in P
  <2>1. PICK g \in [0 .. k - 1 -> S] : Upto(k - 1, g)
    BY <1>2
  <2> DEFINE e == [n \in 0 .. k |-> IF n = k THEN step[k][g[k - 1]] ELSE g[n]]
  <2>2. g[0] = b /\ \A n \in 1 .. k - 1 : g[n] = step[n][g[n - 1]]
    BY <2>1
  <2>3. step[k][g[k - 1]] \in S
    BY <2>1
  <2>4. e \in [0 .. k -> S] /\ e[0] = b
    BY <2>2, <2>3
  <2>5. ASSUME NEW n \in 1 .. k PROVE e[n] = step[n][e[n - 1]]
    <3>1. e[n - 1] = g[n - 1]
      OBVIOUS
    <3> QED BY <2>2, <3>1
  <2> HIDE DEF e
  <2>6. Upto(k, e)
    BY <2>4, <2>5
  <2>7. \E h \in [0 .. k -> S] : Upto(k, h)
    BY <2>4, <2>6
  <2>8. k \in 0 .. N
    OBVIOUS
  <2> QED BY <2>7, <2>8
<1>3. N \in P
  <2> HIDE DEF P
  <2>1. \A n \in 1 .. N : n - 1 \in P => n \in P
    BY <1>2
  <2>2. \A n \in 0 .. N : n \in P
    BY <1>1, <2>1, PlaceInduction
  <2> QED BY <2>2
<1>4. PICK g \in [0 .. N -> S] : Upto(N, g)
  BY <1>3
<1> QED BY <1>4


-----------------------------------------------------------------------------
(* What a list operation does to the members of the list.                  *)

(* list_prepend *)
LEMMA ListConsFacts ==
    ASSUME NEW S, NEW q \in Seq(S), NEW e \in S
    PROVE  /\ <<e>> \o q \in Seq(S)
           /\ Len(<<e>> \o q) = Len(q) + 1
           /\ ToSet(<<e>> \o q) = {e} \cup ToSet(q)
           /\ IsInjective(q) /\ e \notin ToSet(q) => IsInjective(<<e>> \o q)
<1> DEFINE r == <<e>> \o q
<1>1. /\ r \in Seq(S) /\ Len(r) = Len(q) + 1 /\ Len(q) \in Nat
      /\ \A i \in 1 .. Len(q) + 1 : r[i] = IF i = 1 THEN e ELSE q[i - 1]
  OBVIOUS
<1> HIDE DEF r
<1>2. DOMAIN r = 1 .. Len(q) + 1 /\ DOMAIN q = 1 .. Len(q)
  BY <1>1
<1>3. ToSet(r) = {e} \cup ToSet(q)
  <2>1. ToSet(r) \subseteq {e} \cup ToSet(q)
    BY <1>1, <1>2 DEF ToSet
  <2>2. e \in ToSet(r)
    <3>1. r[1] = e /\ 1 \in DOMAIN r
      BY <1>1, <1>2
    <3> QED BY <3>1 DEF ToSet
  <2>3. ASSUME NEW i \in 1 .. Len(q) PROVE q[i] \in ToSet(r)
    <3>1. r[i + 1] = q[i] /\ i + 1 \in DOMAIN r
      BY <1>1, <1>2
    <3> QED BY <3>1 DEF ToSet
  <2> QED BY <1>2, <2>1, <2>2, <2>3 DEF ToSet
<1>4. ASSUME IsInjective(q), e \notin ToSet(q) PROVE IsInjective(r)
  <2> SUFFICES ASSUME NEW j \in 1 .. Len(q) + 1, NEW k \in 1 .. Len(q) + 1,
                      r[j] = r[k]
               PROVE  j = k
    BY <1>2 DEF IsInjective
  <2>1. \A i \in 1 .. Len(q) : q[i] # e
    BY <1>2, <1>4 DEF ToSet
  <2>2. \A i, m \in 1 .. Len(q) : q[i] = q[m] => i = m
    BY <1>2, <1>4 DEF IsInjective
  <2>3. j = 1 <=> k = 1
    <3>1. \A i \in 1 .. Len(q) + 1 : i # 1 => r[i] = q[i - 1] /\ i - 1 \in 1 .. Len(q)
      BY <1>1
    <3>2. \A i \in 1 .. Len(q) + 1 : i # 1 => r[i] # e
      BY <2>1, <3>1
    <3>3. r[1] = e
      BY <1>1
    <3> QED BY <3>2, <3>3
  <2>4. CASE j # 1 /\ k # 1
    <3>1. q[j - 1] = q[k - 1] /\ j - 1 \in 1 .. Len(q) /\ k - 1 \in 1 .. Len(q)
      BY <1>1, <2>4
    <3>2. j - 1 = k - 1
      BY <2>2, <3>1
    <3> QED BY <3>2
  <2> QED BY <2>3, <2>4
<1> QED BY <1>1, <1>3, <1>4 DEF r

(* list_insert: somewhere in the list. *)
LEMMA ListInsertFacts ==
    ASSUME NEW S, NEW q \in Seq(S), NEW e \in S, NEW i \in 1 .. Len(q) + 1
    PROVE  InsertAt(q, i, e) \in Seq(S) /\ ToSet(InsertAt(q, i, e)) = {e} \cup ToSet(q)
<1> DEFINE a == SubSeq(q, 1, i - 1)
           b == SubSeq(q, i, Len(q))
           c == a \o <<e>>
           r == c \o b
<1>0. Len(q) \in Nat /\ DOMAIN q = 1 .. Len(q)
  OBVIOUS
<1>1. /\ a \in Seq(S) /\ Len(a) = i - 1
      /\ \A j \in 1 .. i - 1 : a[j] = q[j]
  BY <1>0, SubSeqProperties
<1>2. /\ b \in Seq(S) /\ Len(b) = Len(q) - i + 1
      /\ \A j \in 1 .. Len(q) - i + 1 : b[j] = q[i + j - 1]
  BY <1>0, SubSeqProperties
<1> HIDE DEF a, b
<1>3. /\ c \in Seq(S) /\ Len(c) = i
      /\ \A j \in 1 .. i : c[j] = IF j = i THEN e ELSE q[j]
  BY <1>0, <1>1
<1> HIDE DEF c
<1>4. r \in Seq(S) /\ Len(r) = Len(q) + 1
  <2>1. r \in Seq(S) /\ Len(r) = Len(c) + Len(b)
    BY <1>2, <1>3, ConcatProperties
  <2> QED BY <1>0, <1>2, <1>3, <2>1
<1>5. \A j \in 1 .. Len(q) + 1 :
         r[j] = IF j < i THEN q[j] ELSE IF j = i THEN e ELSE q[j - 1]
  <2>1. \A j \in 1 .. Len(q) + 1 : r[j] = IF j <= i THEN c[j] ELSE b[j - i]
    BY <1>0, <1>2, <1>3, ConcatProperties
  <2> HIDE DEF r
  <2>2. ASSUME NEW j \in 1 .. Len(q) + 1, j > i PROVE r[j] = q[j - 1]
    <3>1. j - i \in 1 .. Len(q) - i + 1
      BY <1>0, <2>2
    <3>2. b[j - i] = q[i + (j - i) - 1]
      BY <1>2, <3>1
    <3>3. i + (j - i) - 1 = j - 1
      BY <1>0
    <3>4. r[j] = b[j - i]
      BY <1>0, <2>1, <2>2
    <3> QED BY <3>2, <3>3, <3>4
  <2>3. ASSUME NEW j \in 1 .. Len(q) + 1, j <= i
        PROVE  r[j] = IF j < i THEN q[j] ELSE e
    <3>1. r[j] = c[j] /\ j \in 1 .. i
      BY <1>0, <2>1, <2>3
    <3> QED BY <1>3, <3>1
  <2> QED BY <1>0, <2>2, <2>3
<1> HIDE DEF r
<1>6. ToSet(r) = {e} \cup ToSet(q)
  <2>0. DOMAIN r = 1 .. Len(q) + 1
    BY <1>0, <1>4
  <2>1. ASSUME NEW j \in 1 .. Len(q) + 1 PROVE r[j] \in {e} \cup ToSet(q)
    <3>1. CASE j < i
      BY <1>0, <1>5, <3>1 DEF ToSet
    <3>2. CASE j = i
      BY <1>5, <3>2
    <3>3. CASE j > i
      <4>1. r[j] = q[j - 1] /\ j - 1 \in DOMAIN q
        BY <1>0, <1>5, <3>3
      <4> QED BY <4>1 DEF ToSet
    <3> QED BY <3>1, <3>2, <3>3
  <2>2. e \in ToSet(r)
    <3>1. r[i] = e /\ i \in DOMAIN r
      BY <1>5, <2>0
    <3> QED BY <3>1 DEF ToSet
  <2>3. ASSUME NEW j \in 1 .. Len(q) PROVE q[j] \in ToSet(r)
    <3>1. CASE j < i
      <4>1. r[j] = q[j] /\ j \in DOMAIN r
        BY <1>0, <1>5, <2>0, <3>1
      <4> QED BY <4>1 DEF ToSet
    <3>2. CASE j >= i
      <4>1. r[j + 1] = q[j] /\ j + 1 \in DOMAIN r
        BY <1>0, <1>5, <2>0, <3>2
      <4> QED BY <4>1 DEF ToSet
    <3> QED BY <3>1, <3>2
  <2>4. ToSet(r) \subseteq {e} \cup ToSet(q)
    BY <2>0, <2>1 DEF ToSet
  <2>5. ToSet(q) \subseteq ToSet(r)
    BY <1>0, <2>3 DEF ToSet
  <2> QED BY <2>2, <2>4, <2>5
<1>7. InsertAt(q, i, e) = r
  BY DEF InsertAt, r, a, b, c
<1> QED BY <1>4, <1>6, <1>7

(* list_remove: the first place of an element is taken out; when it was    *)
(* the only one, the element is off the list.                              *)
LEMMA ListRemoveFacts ==
    ASSUME NEW S, NEW q \in Seq(S), IsInjective(q), NEW s
    PROVE  /\ RemoveFirst(q, s) \in Seq(S)
           /\ IsInjective(RemoveFirst(q, s))
           /\ ToSet(RemoveFirst(q, s)) = ToSet(q) \ {s}
           /\ s \in ToSet(q) => Len(RemoveFirst(q, s)) = Len(q) - 1
           /\ q # <<>> /\ q[1] # s =>
                 RemoveFirst(q, s) # <<>> /\ RemoveFirst(q, s)[1] = q[1]
<1>1. CASE ~ \E i \in 1 .. Len(q) : q[i] = s
  <2>1. RemoveFirst(q, s) = q
    BY <1>1 DEF RemoveFirst
  <2>2. s \notin ToSet(q)
    BY <1>1 DEF ToSet
  <2> QED BY <2>1, <2>2
<1>2. CASE \E i \in 1 .. Len(q) : q[i] = s
  <2>1. PICK i \in 1 .. Len(q) : q[i] = s
    BY <1>2
  <2>2. \A j \in 1 .. Len(q) : q[j] = s => j = i
    BY <2>1 DEF IsInjective
  <2> DEFINE I == {j \in 1 .. Len(q) : q[j] = s}
  <2>3. I = {i}
    BY <2>1, <2>2
  <2>4. Min(I) = i
    BY <2>3 DEF Min
  <2>5. SelectInSeq(q, LAMBDA v : v = s) = i
    BY <2>3, <2>4 DEF SelectInSeq
  <2> DEFINE a == SubSeq(q, 1, i - 1)
             b == SubSeq(q, i + 1, Len(q))
             r == a \o b
  <2>6. RemoveFirst(q, s) = r
    BY <1>2, <2>5 DEF RemoveFirst, RemoveAt
  <2>7. /\ a \in Seq(S) /\ Len(a) = i - 1
        /\ \A j \in 1 .. i - 1 : a[j] = q[j]
    BY SubSeqProperties
  <2>8. /\ b \in Seq(S) /\ Len(b) = Len(q) - i
        /\ \A j \in 1 .. Len(q) - i : b[j] = q[i + j]
    BY SubSeqProperties
  <2> HIDE DEF a, b, I
  <2>9. r \in Seq(S) /\ Len(r) = Len(q) - 1
    <3>1. r \in Seq(S) /\ Len(r) = Len(a) + Len(b)
      BY <2>7, <2>8, ConcatProperties
    <3> QED BY <2>7, <2>8, <3>1, Len(q) \in Nat
  <2>10. \A j \in 1 .. Len(q) - 1 : r[j] = IF j < i THEN q[j] ELSE q[j + 1]
    BY <2>7, <2>8
  <2> HIDE DEF r
  <2>11. IsInjective(r)
    <3> SUFFICES ASSUME NEW j \in 1 .. Len(q) - 1, NEW k \in 1 .. Len(q) - 1,
                        r[j] = r[k]
                 PROVE  j = k
      BY <2>9 DEF IsInjective
    <3> DEFINE m == IF j < i THEN j ELSE j + 1
               n == IF k < i THEN k ELSE k + 1
    <3>1. m \in 1 .. Len(q) /\ n \in 1 .. Len(q) /\ (m = n => j = k)
      BY Len(q) \in Nat
    <3>2. r[j] = q[m] /\ r[k] = q[n]
      BY <2>10
    <3>3. q[m] = q[n]
      BY <3>2
    <3>4. DOMAIN q = 1 .. Len(q)
      OBVIOUS
    <3> HIDE DEF m, n
    <3>5. m = n
      BY <3>1, <3>3, <3>4 DEF IsInjective
    <3> QED BY <3>1, <3>5
  <2>12. ASSUME NEW x \in ToSet(r)
         PROVE  x \in ToSet(q) \ {s}
    <3>1. PICK j \in 1 .. Len(q) - 1 : x = r[j]
      BY <2>9 DEF ToSet
    <3> DEFINE m == IF j < i THEN j ELSE j + 1
    <3>2. m \in 1 .. Len(q) /\ m # i /\ x = q[m]
      BY <2>10, <3>1, Len(q) \in Nat
    <3>3. x # s
      BY <2>2, <3>2
    <3> QED BY <3>2, <3>3 DEF ToSet
  <2>13. ASSUME NEW x \in ToSet(q), x # s
         PROVE  x \in ToSet(r)
    <3>1. PICK m \in 1 .. Len(q) : x = q[m]
      BY DEF ToSet
    <3>2. m # i
      BY <2>1, <2>13, <3>1
    <3> DEFINE j == IF m < i THEN m ELSE m - 1
    <3>3. j \in 1 .. Len(q) - 1
      BY <3>2, Len(q) \in Nat
    <3>4. r[j] = q[m]
      BY <2>10, <3>2, <3>3, Len(q) \in Nat
    <3> QED BY <2>9, <3>1, <3>3, <3>4 DEF ToSet
  <2>14. q[1] # s => r # <<>> /\ r[1] = q[1]
    BY <2>1, <2>9, <2>10, Len(q) \in Nat
  <2> QED BY <2>6, <2>9, <2>11, <2>12, <2>13, <2>14
<1> QED BY <1>1, <1>2

(* A list has finitely many members. *)
LEMMA ListFinite ==
    ASSUME NEW S, NEW q \in Seq(S)
    PROVE  IsFiniteSet(ToSet(q)) /\ Cardinality(ToSet(q)) \in Nat
<1>1. Len(q) \in Nat /\ DOMAIN q = 1 .. Len(q)
  OBVIOUS
<1>2. q \in Surjection(1 .. Len(q), ToSet(q))
  BY <1>1 DEF Surjection, ToSet
<1>3. IsFiniteSet(1 .. Len(q))
  BY <1>1, FS_Interval
<1> QED BY <1>2, <1>3, FS_Surjection, FS_CardinalityType

(* What changes when the first element of a list makes room for one or two
   others: a call, or another step, of the innermost function *)
LEMMA ListTopFacts ==
    ASSUME NEW S, NEW q \in Seq(S), q # <<>>, NEW e \in S, NEW f \in S
    PROVE  /\ Len(q) \in Nat \ {0} /\ Head(q) = q[1]
           /\ Tail(q) \in Seq(S) /\ Len(Tail(q)) = Len(q) - 1
           /\ \A k \in 1 .. Len(q) - 1 : Tail(q)[k] = q[k + 1]
           /\ <<e>> \o Tail(q) \in Seq(S) /\ Len(<<e>> \o Tail(q)) = Len(q)
           /\ (<<e>> \o Tail(q))[1] = e
           /\ \A k \in 2 .. Len(q) : (<<e>> \o Tail(q))[k] = q[k]
           /\ <<e, f>> \o Tail(q) \in Seq(S) /\ Len(<<e, f>> \o Tail(q)) = Len(q) + 1
           /\ (<<e, f>> \o Tail(q))[1] = e /\ (<<e, f>> \o Tail(q))[2] = f
           /\ \A k \in 3 .. Len(q) + 1 : (<<e, f>> \o Tail(q))[k] = q[k - 1]
<1> DEFINE t == Tail(q)
<1>1. /\ Len(q) \in Nat \ {0} /\ Head(q) = q[1]
      /\ t \in Seq(S) /\ Len(t) = Len(q) - 1
      /\ \A k \in 1 .. Len(q) - 1 : t[k] = q[k + 1]
  OBVIOUS
<1> HIDE DEF t
<1>2. /\ <<e>> \o t \in Seq(S) /\ Len(<<e>> \o t) = Len(q)
      /\ (<<e>> \o t)[1] = e
      /\ \A k \in 2 .. Len(q) : (<<e>> \o t)[k] = t[k - 1]
  BY <1>1
<1>3. /\ <<e, f>> \o t \in Seq(S) /\ Len(<<e, f>> \o t) = Len(q) + 1
      /\ (<<e, f>> \o t)[1] = e /\ (<<e, f>> \o t)[2] = f
      /\ \A k \in 3 .. Len(q) + 1 : (<<e, f>> \o t)[k] = t[k - 2]
  BY <1>1
<1>4. \A k \in 2 .. Len(q) : t[k - 1] = q[k]
  BY <1>1
<1>5. \A k \in 3 .. Len(q) + 1 : t[k - 2] = q[k - 1]
  BY <1>1
<1> QED BY <1>1, <1>2, <1>3, <1>4, <1>5 DEF t

(* list_append *)
LEMMA ListAppendFacts ==
    ASSUME NEW S, NEW q \in Seq(S), NEW e \in S
    PROVE  /\ Append(q, e) \in Seq(S)
           /\ Len(Append(q, e)) = Len(q) + 1
           /\ ToSet(Append(q, e)) = ToSet(q) \cup {e}
           /\ IsInjective(q) /\ e \notin ToSet(q) => IsInjective(Append(q, e))
<1> DEFINE r == Append(q, e)
<1>1. /\ r \in Seq(S) /\ Len(r) = Len(q) + 1 /\ Len(q) \in Nat
      /\ \A i \in 1 .. Len(q) : r[i] = q[i]
      /\ r[Len(q) + 1] = e
  OBVIOUS
<1> HIDE DEF r
<1>2. DOMAIN r = 1 .. Len(q) + 1 /\ DOMAIN q = 1 .. Len(q)
  BY <1>1
<1>3. \A i \in 1 .. Len(q) + 1 : i \in 1 .. Len(q) \/ i = Len(q) + 1
  BY <1>1
<1>4. \A i \in 1 .. Len(q) : i \in 1 .. Len(q) + 1
  BY <1>1
<1>5. Len(q) + 1 \in 1 .. Len(q) + 1
  BY <1>1
<1>6. ToSet(r) = ToSet(q) \cup {e}
  BY <1>1, <1>2, <1>3, <1>4, <1>5 DEF ToSet
<1>7. ASSUME IsInjective(q), e \notin ToSet(q) PROVE IsInjective(r)
  <2>1. \A i \in 1 .. Len(q) : q[i] # e
    BY <1>2, <1>7 DEF ToSet
  <2>2. \A i, m \in 1 .. Len(q) : q[i] = q[m] => i = m
    BY <1>2, <1>7 DEF IsInjective
  <2> QED BY <1>1, <1>2, <1>3, <2>1, <2>2 DEF IsInjective
<1> QED BY <1>1, <1>6, <1>7 DEF r

(* What is left of a list without its first element *)
LEMMA ListTailFacts ==
    ASSUME NEW S, NEW q \in Seq(S), q # <<>>, IsInjective(q)
    PROVE  /\ Head(q) \in ToSet(q)
           /\ Tail(q) \in Seq(S)
           /\ ToSet(Tail(q)) = ToSet(q) \ {Head(q)}
           /\ IsInjective(Tail(q))
<1> DEFINE r == Tail(q)
<1>1. /\ r \in Seq(S) /\ Len(r) = Len(q) - 1 /\ Len(q) \in Nat \ {0}
      /\ \A i \in 1 .. Len(q) - 1 : r[i] = q[i + 1]
      /\ Head(q) = q[1]
  OBVIOUS
<1> HIDE DEF r
<1>2. DOMAIN r = 1 .. Len(q) - 1 /\ DOMAIN q = 1 .. Len(q)
  BY <1>1
<1>3. \A i, m \in 1 .. Len(q) : q[i] = q[m] => i = m
  BY <1>2 DEF IsInjective
<1>4. 1 \in 1 .. Len(q) /\ \A i \in 1 .. Len(q) - 1 : i + 1 \in 1 .. Len(q) /\ i + 1 # 1
  BY <1>1
<1>5. \A i \in 1 .. Len(q) : i = 1 \/ (i - 1 \in 1 .. Len(q) - 1 /\ q[i] = r[i - 1])
  BY <1>1
<1>6. ToSet(r) = ToSet(q) \ {Head(q)}
  <2>1. ASSUME NEW x \in ToSet(r) PROVE x \in ToSet(q) /\ x # Head(q)
    <3>1. PICK i \in 1 .. Len(q) - 1 : x = r[i]
      BY <1>2 DEF ToSet
    <3>2. x = q[i + 1] /\ i + 1 \in 1 .. Len(q) /\ i + 1 # 1
      BY <1>1, <1>4, <3>1
    <3> QED BY <1>1, <1>2, <1>3, <1>4, <3>2 DEF ToSet
  <2>2. ASSUME NEW x \in ToSet(q), x # Head(q) PROVE x \in ToSet(r)
    <3>1. PICK i \in 1 .. Len(q) : x = q[i]
      BY <1>2 DEF ToSet
    <3>2. i - 1 \in 1 .. Len(q) - 1 /\ x = r[i - 1]
      BY <1>1, <1>5, <2>2, <3>1
    <3> QED BY <1>2, <3>2 DEF ToSet
  <2> QED BY <2>1, <2>2
<1>7. IsInjective(r)
  <2> SUFFICES ASSUME NEW i \in 1 .. Len(q) - 1, NEW m \in 1 .. Len(q) - 1, r[i] = r[m]
               PROVE  i = m
    BY <1>2 DEF IsInjective
  <2>1. i + 1 = m + 1
    BY <1>1, <1>3, <1>4
  <2> QED BY <2>1
<1>8. Head(q) \in ToSet(q)
  BY <1>1, <1>2, <1>4 DEF ToSet
<1> QED BY <1>1, <1>6, <1>7, <1>8 DEF r

(* One list after another *)
LEMMA ListConcatFacts ==
    ASSUME NEW S, NEW p \in Seq(S), NEW q \in Seq(S)
    PROVE  /\ p \o q \in Seq(S)
           /\ ToSet(p \o q) = ToSet(p) \cup ToSet(q)
           /\ IsInjective(p) /\ IsInjective(q) /\ ToSet(p) \cap ToSet(q) = {}
              => IsInjective(p \o q)
<1> DEFINE r == p \o q
           M == Len(p)
           N == Len(q)
<1>1. /\ r \in Seq(S) /\ Len(r) = M + N /\ M \in Nat /\ N \in Nat
      /\ \A i \in 1 .. M + N : r[i] = IF i <= M THEN p[i] ELSE q[i - M]
  OBVIOUS
<1>2. DOMAIN r = 1 .. M + N /\ DOMAIN p = 1 .. M /\ DOMAIN q = 1 .. N
  BY <1>1
<1> HIDE DEF r, M, N
<1>3. \A i \in 1 .. M : i \in 1 .. M + N /\ r[i] = p[i]
  BY <1>1
<1>4. \A i \in 1 .. N : M + i \in 1 .. M + N /\ r[M + i] = q[i]
  BY <1>1
<1>5. \A i \in 1 .. M + N : i \in 1 .. M \/ (i - M \in 1 .. N /\ r[i] = q[i - M])
  BY <1>1
<1>6. ToSet(r) = ToSet(p) \cup ToSet(q)
  <2>1. ToSet(p) \subseteq ToSet(r)
    BY <1>2, <1>3 DEF ToSet
  <2>2. ToSet(q) \subseteq ToSet(r)
    BY <1>2, <1>4 DEF ToSet
  <2>3. ASSUME NEW i \in 1 .. M + N PROVE r[i] \in ToSet(p) \cup ToSet(q)
    BY <1>2, <1>3, <1>5 DEF ToSet
  <2>4. ToSet(r) \subseteq ToSet(p) \cup ToSet(q)
    BY <1>2, <2>3 DEF ToSet
  <2> QED BY <2>1, <2>2, <2>4
<1>7. ASSUME IsInjective(p), IsInjective(q), ToSet(p) \cap ToSet(q) = {}
      PROVE  IsInjective(r)
  <2> SUFFICES ASSUME NEW i \in 1 .. M + N, NEW j \in 1 .. M + N, r[i] = r[j]
               PROVE  i = j
    BY <1>2 DEF IsInjective
  <2>1. \A k, m \in 1 .. M : p[k] = p[m] => k = m
    BY <1>2, <1>7 DEF IsInjective
  <2>2. \A k, m \in 1 .. N : q[k] = q[m] => k = m
    BY <1>2, <1>7 DEF IsInjective
  <2>3. \A k \in 1 .. M, m \in 1 .. N : p[k] # q[m]
    BY <1>2, <1>7 DEF ToSet
  <2>4. CASE i \in 1 .. M /\ j \in 1 .. M
    BY <1>3, <2>1, <2>4
  <2>5. CASE i \notin 1 .. M /\ j \notin 1 .. M
    <3>1. i - M = j - M
      BY <1>5, <2>2, <2>5
    <3> QED BY <1>1, <3>1
  <2>6. CASE i \in 1 .. M /\ j \notin 1 .. M
    BY <1>3, <1>5, <2>3, <2>6
  <2>7. CASE i \notin 1 .. M /\ j \in 1 .. M
    BY <1>3, <1>5, <2>3, <2>7
  <2> QED BY <2>4, <2>5, <2>6, <2>7
<1> QED BY <1>1, <1>6, <1>7 DEF r

(* Each list of the members of a finite set has all of them. *)
LEMMA SetToSeqsFacts ==
    ASSUME NEW S, IsFiniteSet(S), NEW s \in SetToSeqs(S)
    PROVE  s \in Seq(S) /\ IsInjective(s) /\ ToSet(s) = S
<1> DEFINE K == Cardinality(S)
<1>1. K \in Nat
  BY FS_CardinalityType
<1>2. s \in [1 .. K -> S] /\ \A i, j \in 1 .. K : i # j => s[i] # s[j]
  BY DEF SetToSeqs
<1>3. s \in Seq(S) /\ DOMAIN s = 1 .. K
  BY <1>1, <1>2
<1>4. IsInjective(s)
  BY <1>2, <1>3 DEF IsInjective
<1>5. Cardinality(1 .. K) = K
  BY <1>1, FS_Interval
<1>6. s \in Injection(1 .. K, S)
  BY <1>2, <1>4 DEF Injection, IsInjective
<1> HIDE DEF K
<1>7. s \in Surjection(1 .. K, S)
  BY <1>5, <1>6, FS_Injection DEF K
<1>8. ToSet(s) = S
  BY <1>2, <1>3, <1>7 DEF Surjection, ToSet
<1> QED BY <1>3, <1>4, <1>8

(* The members of a finite set as a list.                                  *)
LEMMA SetToSeqFacts ==
    ASSUME NEW S, IsFiniteSet(S)
    PROVE  SetToSeq(S) \in Seq(S)
<1> DEFINE K == Cardinality(S)
<1>1. K \in Nat /\ ExistsBijection(1 .. K, S)
  BY FS_CardinalityType
<1>2. \E f \in [1 .. K -> S] : IsInjective(f)
  BY <1>1 DEF ExistsBijection, Bijection, Injection, IsInjective
<1>3. SetToSeq(S) \in [1 .. K -> S]
  BY <1>2 DEF SetToSeq
<1> QED BY <1>1, <1>3
=============================================================================
