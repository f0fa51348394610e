-------------------------- MODULE Download_proofs --------------------------
(***************************************************************************)
(* Proofs about the download of module Download, for every file size, any  *)
(* number of sources and every limit on them.                              *)
(*                                                                         *)
(* The invariant Inv relates the chunk list, the connections, the pass of  *)
(* download_maintain on its way and the incomplete file.  The lemmas come  *)
(* in the order in which they build on each other: lists of chunks that    *)
(* tile a range, the operators on them (consolidate_chunks, the splitting  *)
(* and assigning of chunks, the ranges of the state file and the loader),  *)
(* the file and its buffer, the invariant, and one lemma for each action.  *)
(* The theorems are at the end.                                            *)
(***************************************************************************)
EXTENDS Download, ListFacts

-----------------------------------------------------------------------------
(* Lists of chunks that tile a range of the file                           *)

(* A chunk of the list, with any start and size *)
ChunkRec == [start : Nat, size : Nat, received : Nat, conn : Conns \cup {NoConn}]

(* A list of chunks that tiles the blocks from a on and before b *)
Tiles(q, a, b) ==
    /\ q \in Seq(ChunkRec)
    /\ q = <<>> => a = b
    /\ q # <<>> => q[1].start = a /\ EndOf(q[Len(q)]) = b
    /\ \A i \in 1 .. Len(q) - 1 : EndOf(q[i]) = q[i + 1].start
    /\ \A i \in 1 .. Len(q) : q[i].received <= q[i].size

(* The length and the members of a part of a sequence *)
LEMMA SubListFacts ==
    ASSUME NEW S, NEW q \in Seq(S), NEW m \in Nat, m >= 1,
           NEW n \in Nat, n <= Len(q), m <= n + 1
    PROVE  /\ SubSeq(q, m, n) \in Seq(S) /\ Len(SubSeq(q, m, n)) = n - m + 1
           /\ \A i \in 1 .. n - m + 1 : SubSeq(q, m, n)[i] = q[m + i - 1]
<1>1. m \in Int /\ n \in Int /\ \A i \in m .. n : i \in 1 .. Len(q)
  OBVIOUS
<1>2. \A i \in m .. n : q[i] \in S
  BY <1>1
<1>3. /\ SubSeq(q, m, n) \in Seq(S)
      /\ Len(SubSeq(q, m, n)) = IF m <= n THEN n - m + 1 ELSE 0
      /\ \A i \in 1 .. n - m + 1 : SubSeq(q, m, n)[i] = q[m + i - 1]
  BY <1>1, <1>2, SubSeqProperties
<1>4. Len(SubSeq(q, m, n)) = n - m + 1
  <2> DEFINE l == Len(SubSeq(q, m, n))
  <2>1. l = IF m <= n THEN n - m + 1 ELSE 0
    BY <1>3
  <2> HIDE DEF l
  <2>2. l = n - m + 1
    BY <2>1
  <2> QED BY <2>2 DEF l
<1> QED BY <1>3, <1>4

(* The fields of a new chunk (as_chunk_create) *)
LEMMA ChunkFacts ==
    ASSUME NEW s \in Nat, NEW n \in Nat, NEW r \in Nat
    PROVE  /\ Chunk(s, n, r) \in ChunkRec /\ Chunk(s, n, r).start = s
           /\ Chunk(s, n, r).size = n /\ Chunk(s, n, r).received = r
           /\ Chunk(s, n, r).conn = NoConn /\ EndOf(Chunk(s, n, r)) = s + n
BY DEF Chunk, ChunkRec, EndOf

(* The types of the members of a tiled list *)
LEMMA TilesType ==
    ASSUME NEW q, NEW a, NEW b, Tiles(q, a, b)
    PROVE  /\ q \in Seq(ChunkRec) /\ Len(q) \in Nat /\ DOMAIN q = 1 .. Len(q)
           /\ \A i \in 1 .. Len(q) :
                 /\ q[i] \in ChunkRec /\ q[i].received <= q[i].size
                 /\ q[i].start \in Nat /\ q[i].size \in Nat /\ q[i].received \in Nat
                 /\ EndOf(q[i]) \in Nat /\ EndOf(q[i]) = q[i].start + q[i].size
<1>1. q \in Seq(ChunkRec) /\ \A i \in 1 .. Len(q) : q[i].received <= q[i].size
  BY DEF Tiles
<1>2. Len(q) \in Nat /\ DOMAIN q = 1 .. Len(q)
  BY <1>1
<1>3. ASSUME NEW i \in 1 .. Len(q)
      PROVE  /\ q[i] \in ChunkRec
             /\ q[i].start \in Nat /\ q[i].size \in Nat /\ q[i].received \in Nat
             /\ EndOf(q[i]) \in Nat /\ EndOf(q[i]) = q[i].start + q[i].size
  <2>1. q[i] \in ChunkRec
    BY <1>1
  <2>2. q[i].start \in Nat /\ q[i].size \in Nat /\ q[i].received \in Nat
    BY <2>1 DEF ChunkRec
  <2> QED BY <2>1, <2>2 DEF EndOf
<1> QED BY <1>1, <1>2, <1>3

(* The empty list tiles the empty range. *)
LEMMA EmptyTiles == ASSUME NEW a PROVE Tiles(<<>>, a, a) /\ ToSet(<<>>) = {}
BY DEF Tiles, ToSet

(* A chunk that starts where the list ends extends the range it tiles. *)
LEMMA TilesAppend ==
    ASSUME NEW q, NEW a, NEW b, Tiles(q, a, b),
           NEW ch \in ChunkRec, ch.start = b, ch.received <= ch.size
    PROVE  /\ Tiles(Append(q, ch), a, EndOf(ch))
           /\ ToSet(Append(q, ch)) = ToSet(q) \cup {ch}
           /\ Append(q, ch) # <<>> /\ Len(Append(q, ch)) = Len(q) + 1
<1> DEFINE r == Append(q, ch)
<1>0. q \in Seq(ChunkRec) /\ Len(q) \in Nat
  BY DEF Tiles
<1>1. /\ r \in Seq(ChunkRec) /\ Len(r) = Len(q) + 1 /\ r # <<>>
      /\ \A i \in 1 .. Len(q) + 1 : r[i] = IF i = Len(q) + 1 THEN ch ELSE q[i]
  BY <1>0
<1> HIDE DEF r
<1>2. Tiles(r, a, EndOf(ch))
  <2>1. r[1].start = a
    <3>1. CASE q = <<>>
      BY <1>1, <3>1 DEF Tiles
    <3>2. CASE q # <<>>
      <4>1. Len(q) >= 1
        BY <1>0, <3>2
      <4> QED BY <1>0, <1>1, <3>2, <4>1 DEF Tiles
    <3> QED BY <3>1, <3>2
  <2>2. \A i \in 1 .. Len(q) : EndOf(r[i]) = r[i + 1].start
    <3> SUFFICES ASSUME NEW i \in 1 .. Len(q) PROVE EndOf(r[i]) = r[i + 1].start
      OBVIOUS
    <3>1. r[i] = q[i] /\ q # <<>>
      BY <1>0, <1>1
    <3>2. CASE i = Len(q)
      BY <1>0, <1>1, <3>1, <3>2 DEF Tiles
    <3>3. CASE i # Len(q)
      <4>1. r[i + 1] = q[i + 1] /\ i \in 1 .. Len(q) - 1
        BY <1>0, <1>1, <3>3
      <4> QED BY <3>1, <4>1 DEF Tiles
    <3> QED BY <3>2, <3>3
  <2>3. \A i \in 1 .. Len(q) + 1 : r[i].received <= r[i].size
    BY <1>0, <1>1 DEF Tiles
  <2>4. r[Len(r)] = ch
    BY <1>0, <1>1
  <2> QED BY <1>0, <1>1, <2>1, <2>2, <2>3, <2>4 DEF Tiles
<1>3. ToSet(r) = ToSet(q) \cup {ch}
  <2>0. DOMAIN r = 1 .. Len(q) + 1 /\ DOMAIN q = 1 .. Len(q)
    BY <1>0, <1>1
  <2>1. ToSet(r) \subseteq ToSet(q) \cup {ch}
    BY <1>0, <1>1, <2>0 DEF ToSet
  <2>2. ToSet(q) \subseteq ToSet(r)
    BY <1>0, <1>1, <2>0 DEF ToSet
  <2>3. ch \in ToSet(r)
    <3>1. r[Len(q) + 1] = ch /\ Len(q) + 1 \in DOMAIN r
      BY <1>0, <1>1, <2>0
    <3> QED BY <3>1 DEF ToSet
  <2> QED BY <2>1, <2>2, <2>3
<1> QED BY <1>1, <1>2, <1>3 DEF r

(* The list without its last chunk *)
LEMMA TilesFront ==
    ASSUME NEW q, NEW a, NEW b, Tiles(q, a, b), q # <<>>
    PROVE  /\ Tiles(Front(q), a, Last(q).start)
           /\ ToSet(q) = ToSet(Front(q)) \cup {Last(q)}
           /\ Last(q) \in ChunkRec /\ EndOf(Last(q)) = b
           /\ Last(q).received <= Last(q).size
           /\ Len(q) \in Nat /\ Len(Front(q)) = Len(q) - 1
<1> DEFINE r == Front(q)
<1>0. q \in Seq(ChunkRec) /\ Len(q) \in Nat /\ Len(q) >= 1
  BY DEF Tiles
<1>1. /\ r \in Seq(ChunkRec) /\ Len(r) = Len(q) - 1
      /\ \A i \in 1 .. Len(q) - 1 : r[i] = q[i]
  <2>1. Len(q) - 1 \in Nat /\ Len(q) - 1 <= Len(q) /\ 1 <= Len(q) - 1 + 1
    BY <1>0
  <2> DEFINE n == Len(q) - 1
             t == SubSeq(q, 1, n)
  <2>2. /\ t \in Seq(ChunkRec) /\ Len(t) = n - 1 + 1
        /\ \A i \in 1 .. n - 1 + 1 : t[i] = q[1 + i - 1]
    <3>1. n \in Nat /\ n <= Len(q) /\ 1 <= n + 1 /\ 1 \in Nat /\ 1 >= 1
      BY <2>1
    <3> HIDE DEF n
    <3> QED BY <1>0, <3>1, SubListFacts
  <2> HIDE DEF t
  <2>3. t \in Seq(ChunkRec) /\ Len(t) = Len(q) - 1
    BY <1>0, <2>2
  <2>4. ASSUME NEW i \in 1 .. Len(q) - 1 PROVE t[i] = q[i]
    <3>1. i \in 1 .. Len(q) - 1 - 1 + 1 /\ 1 + i - 1 = i
      BY <1>0
    <3>2. t[i] = q[1 + i - 1]
      BY <2>2, <3>1
    <3> QED BY <3>1, <3>2
  <2> QED BY <2>3, <2>4 DEF t, Front
<1>2. Last(q) = q[Len(q)]
  BY DEF Last
<1> HIDE DEF r
<1>3. Last(q) \in ChunkRec /\ EndOf(Last(q)) = b /\ Last(q).received <= Last(q).size
  BY <1>0, <1>2 DEF Tiles
<1>4. Tiles(r, a, Last(q).start)
  <2>1. CASE Len(q) = 1
    <3>1. r = <<>>
      BY <1>1, <2>1
    <3> QED BY <1>0, <1>1, <1>2, <2>1, <3>1 DEF Tiles
  <2>2. CASE Len(q) # 1
    <3>1. r # <<>> /\ r[1] = q[1] /\ r[Len(r)] = q[Len(q) - 1]
      BY <1>0, <1>1, <2>2
    <3>2. EndOf(q[Len(q) - 1]) = Last(q).start
      <4>0. Len(q) \in Nat /\ Len(q) >= 2
        BY <1>0, <2>2
      <4>1. Len(q) - 1 \in 1 .. Len(q) - 1 /\ Len(q) - 1 + 1 = Len(q)
        BY <4>0
      <4> QED BY <1>0, <1>2, <4>1 DEF Tiles
    <3>3. q[1].start = a
      BY <1>0 DEF Tiles
    <3>4. \A i \in 1 .. Len(r) - 1 : EndOf(r[i]) = r[i + 1].start
      BY <1>0, <1>1 DEF Tiles
    <3>5. \A i \in 1 .. Len(r) : r[i].received <= r[i].size
      BY <1>0, <1>1 DEF Tiles
    <3> QED BY <1>1, <3>1, <3>2, <3>3, <3>4, <3>5 DEF Tiles
  <2> QED BY <2>1, <2>2
<1>5. ToSet(q) = ToSet(r) \cup {Last(q)}
  <2>0. DOMAIN r = 1 .. Len(q) - 1 /\ DOMAIN q = 1 .. Len(q)
    BY <1>0, <1>1
  <2>1. ToSet(r) \subseteq ToSet(q)
    BY <1>0, <1>1, <2>0 DEF ToSet
  <2>2. Last(q) \in ToSet(q)
    BY <1>0, <1>2, <2>0 DEF ToSet
  <2>3. \A i \in 1 .. Len(q) : q[i] \in ToSet(r) \cup {Last(q)}
    BY <1>0, <1>1, <1>2, <2>0 DEF ToSet
  <2> QED BY <2>0, <2>1, <2>2, <2>3 DEF ToSet
<1> QED BY <1>0, <1>1, <1>3, <1>4, <1>5 DEF r

(* Later chunks lie behind. *)
LEMMA TilesOrdered ==
    ASSUME NEW q, NEW a \in Nat, NEW b \in Nat, Tiles(q, a, b)
    PROVE  /\ \A i, j \in 1 .. Len(q) : i < j => EndOf(q[i]) <= q[j].start
           /\ \A i \in 1 .. Len(q) : a <= q[i].start /\ EndOf(q[i]) <= b
<1>0. /\ q \in Seq(ChunkRec) /\ Len(q) \in Nat
      /\ \A i \in 1 .. Len(q) : /\ q[i].start \in Nat /\ q[i].size \in Nat
                                /\ EndOf(q[i]) \in Nat
                                /\ q[i].start <= EndOf(q[i])
  BY TilesType
<1> DEFINE P == {j \in 0 .. Len(q) : \A i \in 1 .. j : i < j => EndOf(q[i]) <= q[j].start}
<1>1. 0 \in P
  BY <1>0
<1>2. ASSUME NEW n \in 1 .. Len(q), n - 1 \in P PROVE n \in P
  <2> SUFFICES ASSUME NEW i \in 1 .. n, i < n PROVE EndOf(q[i]) <= q[n].start
    OBVIOUS
  <2>1. n - 1 \in 1 .. Len(q) - 1 /\ n - 1 \in 1 .. Len(q)
    BY <1>0
  <2>2. EndOf(q[n - 1]) = q[n - 1 + 1].start /\ n - 1 + 1 = n
    BY <2>1 DEF Tiles
  <2>3. CASE i = n - 1
    BY <1>0, <2>1, <2>2, <2>3
  <2>4. CASE i # n - 1
    <3>1. EndOf(q[i]) <= q[n - 1].start
      BY <1>2, <2>4
    <3>2. q[n - 1].start <= EndOf(q[n - 1])
      BY <1>0, <2>1
    <3>3. i \in 1 .. Len(q)
      OBVIOUS
    <3> QED BY <1>0, <2>1, <2>2, <3>1, <3>2, <3>3
  <2> QED BY <2>3, <2>4
<1>3. \A j \in 0 .. Len(q) : j \in P
  <2> HIDE DEF P
  <2>1. \A n \in 1 .. Len(q) : n - 1 \in P => n \in P
    BY <1>2
  <2> QED BY <1>0, <1>1, <2>1, PlaceInduction
<1>4. \A i, j \in 1 .. Len(q) : i < j => EndOf(q[i]) <= q[j].start
  BY <1>0, <1>3
<1>5. ASSUME NEW i \in 1 .. Len(q) PROVE a <= q[i].start /\ EndOf(q[i]) <= b
  <2>1. q # <<>> /\ 1 \in 1 .. Len(q) /\ Len(q) \in 1 .. Len(q)
    BY <1>0
  <2>2. q[1].start = a /\ EndOf(q[Len(q)]) = b
    BY <2>1 DEF Tiles
  <2>4. i # 1 => EndOf(q[1]) <= q[i].start
    BY <1>4, <2>1
  <2>5. i # Len(q) => EndOf(q[i]) <= q[Len(q)].start
    BY <1>4, <2>1
  <2> HIDE DEF P
  <2>6. a <= q[i].start
    BY <1>0, <2>1, <2>2, <2>4
  <2>7. EndOf(q[i]) <= b
    BY <1>0, <2>1, <2>2, <2>5
  <2> QED BY <2>6, <2>7
<1> QED BY <1>4, <1>5

(* Every block lies in a chunk. *)
LEMMA TilesCover ==
    ASSUME NEW q, NEW a \in Nat, NEW b \in Nat, Tiles(q, a, b),
           NEW k \in Nat, a <= k, k < b
    PROVE  \E i \in 1 .. Len(q) : q[i].start <= k /\ k < EndOf(q[i])
<1>0. /\ q \in Seq(ChunkRec) /\ Len(q) \in Nat
      /\ \A i \in 1 .. Len(q) : q[i].start \in Nat /\ EndOf(q[i]) \in Nat
  BY TilesType
<1>00. q # <<>>
  BY DEF Tiles
<1> DEFINE T == {i \in 1 .. Len(q) : k < EndOf(q[i])}
<1>1. Len(q) \in T
  BY <1>0, <1>00 DEF Tiles
<1>2. T \in SUBSET Nat /\ T # {}
  BY <1>1
<1>3. PICK i \in T : \A j \in T : i <= j
  BY <1>2, LeastElement
<1>4. q[i].start <= k
  <2>1. CASE i = 1
    BY <1>0, <2>1 DEF Tiles
  <2>2. CASE i # 1
    <3>1. i - 1 \in 1 .. Len(q) - 1 /\ i - 1 \notin T /\ i - 1 \in 1 .. Len(q)
      BY <1>0, <1>3, <2>2
    <3>2. EndOf(q[i - 1]) <= k
      BY <1>0, <3>1
    <3>3. EndOf(q[i - 1]) = q[i - 1 + 1].start /\ i - 1 + 1 = i
      BY <3>1 DEF Tiles
    <3> QED BY <3>2, <3>3
  <2> QED BY <2>1, <2>2
<1> QED BY <1>4

(* Two lists that meet tile the range from the first's start to the *)
(* second's end.                                                    *)
LEMMA TilesConcat ==
    ASSUME NEW p, NEW q, NEW a, NEW b, NEW c, Tiles(p, a, b), Tiles(q, b, c)
    PROVE  Tiles(p \o q, a, c) /\ ToSet(p \o q) = ToSet(p) \cup ToSet(q)
<1> DEFINE r == p \o q
<1>0. p \in Seq(ChunkRec) /\ q \in Seq(ChunkRec) /\ Len(p) \in Nat /\ Len(q) \in Nat
  BY DEF Tiles
<1>1. /\ r \in Seq(ChunkRec) /\ Len(r) = Len(p) + Len(q)
      /\ \A i \in 1 .. Len(p) : r[i] = p[i]
      /\ \A i \in 1 .. Len(q) : r[Len(p) + i] = q[i]
  BY <1>0, ConcatProperties
<1>2. \A i \in Len(p) + 1 .. Len(p) + Len(q) : r[i] = q[i - Len(p)]
  <2>1. \A i \in 1 .. Len(p) + Len(q) :
           r[i] = IF i <= Len(p) THEN p[i] ELSE q[i - Len(p)]
    BY <1>0, ConcatProperties
  <2> QED BY <1>0, <2>1
<1> HIDE DEF r
<1>3. ToSet(r) = ToSet(p) \cup ToSet(q)
  <2>0. DOMAIN r = 1 .. Len(p) + Len(q) /\ DOMAIN p = 1 .. Len(p) /\ DOMAIN q = 1 .. Len(q)
    BY <1>0, <1>1
  <2>1. ASSUME NEW i \in DOMAIN r PROVE r[i] \in ToSet(p) \cup ToSet(q)
    <3>1. CASE i <= Len(p)
      BY <1>0, <1>1, <2>0, <3>1 DEF ToSet
    <3>2. CASE i > Len(p)
      <4>1. i \in Len(p) + 1 .. Len(p) + Len(q) /\ i - Len(p) \in DOMAIN q
        BY <1>0, <2>0, <3>2
      <4> QED BY <1>2, <4>1 DEF ToSet
    <3> QED BY <1>0, <2>0, <3>1, <3>2
  <2>2. ASSUME NEW i \in DOMAIN p PROVE p[i] \in ToSet(r)
    BY <1>0, <1>1, <2>0 DEF ToSet
  <2>3. ASSUME NEW i \in DOMAIN q PROVE q[i] \in ToSet(r)
    <3>1. Len(p) + i \in DOMAIN r /\ r[Len(p) + i] = q[i]
      BY <1>0, <1>1, <2>0
    <3> QED BY <3>1 DEF ToSet
  <2> QED BY <2>1, <2>2, <2>3 DEF ToSet
<1>4. Tiles(r, a, c)
  <2>1. CASE p = <<>>
    <3>1. r = q /\ a = b
      BY <1>0, <2>1 DEF r, Tiles
    <3> QED BY <3>1
  <2>2. CASE q = <<>>
    <3>1. r = p /\ b = c
      BY <1>0, <2>2 DEF r, Tiles
    <3> QED BY <3>1
  <2>3. CASE p # <<>> /\ q # <<>>
    <3>0. Len(p) >= 1 /\ Len(q) >= 1
      BY <1>0, <2>3
    <3>1. r # <<>> /\ r[1] = p[1] /\ r[Len(r)] = q[Len(q)]
      BY <1>0, <1>1, <3>0
    <3>2. ASSUME NEW i \in 1 .. Len(r) - 1 PROVE EndOf(r[i]) = r[i + 1].start
      <4>1. CASE i < Len(p)
        <5>1. r[i] = p[i] /\ r[i + 1] = p[i + 1] /\ i \in 1 .. Len(p) - 1
          BY <1>0, <1>1, <4>1
        <5> QED BY <5>1 DEF Tiles
      <4>2. CASE i = Len(p)
        <5>1. r[i] = p[Len(p)] /\ r[i + 1] = q[1]
          BY <1>0, <1>1, <3>0, <4>2
        <5> QED BY <2>3, <5>1 DEF Tiles
      <4>3. CASE i > Len(p)
        <5> DEFINE k == i - Len(p)
        <5>1. k \in 1 .. Len(q) - 1 /\ Len(p) + k = i /\ Len(p) + (k + 1) = i + 1
              /\ k \in 1 .. Len(q) /\ k + 1 \in 1 .. Len(q)
          BY <1>0, <1>1, <4>3
        <5> HIDE DEF k
        <5>2. r[i] = q[k] /\ r[i + 1] = q[k + 1]
          BY <1>1, <5>1
        <5> QED BY <5>1, <5>2 DEF Tiles
      <4> QED BY <1>0, <4>1, <4>2, <4>3
    <3>3. ASSUME NEW i \in 1 .. Len(r) PROVE r[i].received <= r[i].size
      <4>1. CASE i <= Len(p)
        BY <1>0, <1>1, <4>1 DEF Tiles
      <4>2. CASE i > Len(p)
        <5>1. i \in Len(p) + 1 .. Len(p) + Len(q) /\ i - Len(p) \in 1 .. Len(q)
          BY <1>0, <1>1, <4>2
        <5> QED BY <1>2, <5>1 DEF Tiles
      <4> QED BY <1>0, <4>1, <4>2
    <3>4. p[1].start = a /\ EndOf(q[Len(q)]) = c
      BY <2>3 DEF Tiles
    <3> QED BY <1>1, <3>1, <3>2, <3>3, <3>4 DEF Tiles
  <2> QED BY <2>1, <2>2, <2>3
<1> QED BY <1>3, <1>4 DEF r

(* The chunks before and behind chunk i *)
LEMMA TilesPrefix ==
    ASSUME NEW q, NEW a, NEW b, Tiles(q, a, b), NEW i \in 1 .. Len(q)
    PROVE  /\ Tiles(SubSeq(q, 1, i - 1), a, q[i].start)
           /\ ToSet(SubSeq(q, 1, i - 1)) = {q[j] : j \in 1 .. i - 1}
<1> DEFINE n == i - 1
           r == SubSeq(q, 1, n)
<1>0. q \in Seq(ChunkRec) /\ Len(q) \in Nat
  BY TilesType
<1>1. r \in Seq(ChunkRec) /\ Len(r) = n /\ \A j \in 1 .. n : r[j] = q[j]
  <2>1. n \in Nat /\ n <= Len(q) /\ 1 <= n + 1 /\ 1 \in Nat /\ 1 >= 1 /\ n - 1 + 1 = n
        /\ \A j \in 1 .. n : 1 + j - 1 = j
    BY <1>0
  <2> HIDE DEF n
  <2>2. r \in Seq(ChunkRec) /\ Len(r) = n - 1 + 1
        /\ \A j \in 1 .. n - 1 + 1 : r[j] = q[1 + j - 1]
    BY <1>0, <2>1, SubListFacts
  <2> HIDE DEF r
  <2> QED BY <2>1, <2>2
<1> HIDE DEF r
<1>2. DOMAIN r = 1 .. n
  BY <1>1
<1>3. ToSet(r) = {q[j] : j \in 1 .. n}
  BY <1>1, <1>2 DEF ToSet
<1>4. Tiles(r, a, q[i].start)
  <2>1. CASE i = 1
    <3>1. r = <<>>
      BY <1>1, <2>1
    <3>2. q # <<>>
      BY <1>0
    <3> QED BY <1>1, <2>1, <3>1, <3>2 DEF Tiles
  <2>2. CASE i # 1
    <3>0. n >= 1 /\ n \in 1 .. Len(q) - 1 /\ n + 1 = i /\ q # <<>>
      BY <1>0, <2>2
    <3>1. r # <<>> /\ r[1] = q[1] /\ r[Len(r)] = q[n]
      BY <1>1, <3>0
    <3>2. EndOf(q[n]) = q[i].start
      BY <3>0 DEF Tiles
    <3>3. \A j \in 1 .. Len(r) - 1 : EndOf(r[j]) = r[j + 1].start
      BY <1>0, <1>1, <3>0 DEF Tiles
    <3>4. \A j \in 1 .. Len(r) : r[j].received <= r[j].size
      BY <1>0, <1>1, <3>0 DEF Tiles
    <3>5. q[1].start = a
      BY <3>0 DEF Tiles
    <3> HIDE DEF n
    <3> QED BY <1>1, <3>1, <3>2, <3>3, <3>4, <3>5 DEF Tiles
  <2> QED BY <2>1, <2>2
<1> QED BY <1>3, <1>4 DEF r

(* The chunks behind chunk i tile the rest of the range. *)
LEMMA TilesSuffix ==
    ASSUME NEW q, NEW a, NEW b, Tiles(q, a, b), NEW i \in 1 .. Len(q)
    PROVE  /\ Tiles(SubSeq(q, i + 1, Len(q)), EndOf(q[i]), b)
           /\ ToSet(SubSeq(q, i + 1, Len(q))) = {q[j] : j \in i + 1 .. Len(q)}
<1> DEFINE n == Len(q)
           m == i + 1
           r == SubSeq(q, m, n)
<1>0. q \in Seq(ChunkRec) /\ n \in Nat
  BY TilesType
<1>1. r \in Seq(ChunkRec) /\ Len(r) = n - i /\ \A j \in 1 .. n - i : r[j] = q[i + j]
  <2>1. /\ m \in Nat /\ n <= Len(q) /\ m <= n + 1 /\ m >= 1 /\ n - m + 1 = n - i
        /\ \A j \in 1 .. n - i : m + j - 1 = i + j
    BY <1>0
  <2>2. r \in Seq(ChunkRec) /\ Len(r) = n - m + 1
        /\ \A j \in 1 .. n - m + 1 : r[j] = q[m + j - 1]
    <3> HIDE DEF m, n
    <3> QED BY <1>0, <2>1, SubListFacts
  <2> HIDE DEF r, m, n
  <2> QED BY <2>1, <2>2
<1> HIDE DEF r
<1>2. DOMAIN r = 1 .. n - i
  BY <1>1
<1>3. ToSet(r) = {q[j] : j \in i + 1 .. n}
  <2>1. \A j \in 1 .. n - i : i + j \in i + 1 .. n
    BY <1>0
  <2>2. \A j \in i + 1 .. n : j - i \in 1 .. n - i /\ i + (j - i) = j
    BY <1>0
  <2>3. \A j \in i + 1 .. n : r[j - i] = q[j]
    BY <1>1, <2>2
  <2> HIDE DEF n
  <2>4. ASSUME NEW x \in ToSet(r) PROVE x \in {q[j] : j \in i + 1 .. n}
    <3>1. PICK k \in 1 .. n - i : x = r[k]
      BY <1>2 DEF ToSet
    <3> QED BY <1>1, <2>1, <3>1
  <2>5. ASSUME NEW j \in i + 1 .. n PROVE q[j] \in ToSet(r)
    BY <1>2, <2>2, <2>3 DEF ToSet
  <2> QED BY <2>4, <2>5
<1>4. Tiles(r, EndOf(q[i]), b)
  <2>0. q # <<>>
    BY <1>0
  <2>1. CASE i = n
    <3>1. r = <<>>
      BY <1>0, <1>1, <2>1
    <3> QED BY <1>1, <2>0, <2>1, <3>1 DEF Tiles
  <2>2. CASE i # n
    <3>0. n - i >= 1 /\ i \in 1 .. n - 1 /\ i + (n - i) = n
      BY <1>0, <2>2
    <3>1. r # <<>> /\ r[1] = q[i + 1] /\ r[Len(r)] = q[n]
      <4>1. 1 \in 1 .. n - i /\ n - i \in 1 .. n - i
        BY <3>0
      <4>2. r[1] = q[i + 1] /\ r[n - i] = q[i + (n - i)]
        BY <1>1, <4>1
      <4>3. Len(r) = n - i
        BY <1>1
      <4>4. r # <<>>
        BY <3>0, <4>3
      <4> HIDE DEF n
      <4> QED BY <3>0, <4>2, <4>3, <4>4
    <3>2. EndOf(q[i]) = q[i + 1].start /\ EndOf(q[n]) = b
      BY <2>0, <3>0 DEF Tiles
    <3>3. ASSUME NEW j \in 1 .. Len(r) - 1 PROVE EndOf(r[j]) = r[j + 1].start
      <4>1. r[j] = q[i + j] /\ r[j + 1] = q[i + j + 1] /\ i + j \in 1 .. n - 1
        BY <1>0, <1>1, <3>0
      <4> QED BY <4>1 DEF Tiles
    <3>4. ASSUME NEW j \in 1 .. Len(r) PROVE r[j].received <= r[j].size
      <4>1. r[j] = q[i + j] /\ i + j \in 1 .. n
        BY <1>0, <1>1, <3>0
      <4> QED BY <4>1 DEF Tiles
    <3> HIDE DEF n
    <3> QED BY <1>1, <3>1, <3>2, <3>3, <3>4 DEF Tiles
  <2> QED BY <2>1, <2>2
<1> QED BY <1>3, <1>4 DEF r

(* A list in the place of a chunk *)
LEMMA SpliceFacts ==
    ASSUME NEW q, NEW a, NEW b, Tiles(q, a, b), NEW i \in 1 .. Len(q),
           NEW new, Tiles(new, q[i].start, EndOf(q[i]))
    PROVE  /\ Tiles(Splice(q, i, new), a, b)
           /\ ToSet(Splice(q, i, new)) = {q[j] : j \in 1 .. Len(q) \ {i}} \cup ToSet(new)
<1> DEFINE p == SubSeq(q, 1, i - 1)
           s == SubSeq(q, i + 1, Len(q))
<1>0. Len(q) \in Nat
  BY TilesType
<1>1. Tiles(p, a, q[i].start) /\ ToSet(p) = {q[j] : j \in 1 .. i - 1}
  BY TilesPrefix
<1>2. Tiles(s, EndOf(q[i]), b) /\ ToSet(s) = {q[j] : j \in i + 1 .. Len(q)}
  BY TilesSuffix
<1>3. Splice(q, i, new) = (p \o new) \o s
  BY DEF Splice
<1> HIDE DEF p, s
<1>4. Tiles(p \o new, a, EndOf(q[i])) /\ ToSet(p \o new) = ToSet(p) \cup ToSet(new)
  BY <1>1, TilesConcat
<1>5. /\ Tiles((p \o new) \o s, a, b)
      /\ ToSet((p \o new) \o s) = ToSet(p \o new) \cup ToSet(s)
  <2> DEFINE t == p \o new
  <2>1. Tiles(t, a, EndOf(q[i]))
    BY <1>4
  <2> HIDE DEF t
  <2>2. Tiles(t \o s, a, b) /\ ToSet(t \o s) = ToSet(t) \cup ToSet(s)
    BY <1>2, <2>1, TilesConcat
  <2> QED BY <2>2 DEF t
<1>6. {q[j] : j \in 1 .. Len(q) \ {i}} = {q[j] : j \in 1 .. i - 1} \cup {q[j] : j \in i + 1 .. Len(q)}
  BY <1>0
<1> QED BY <1>1, <1>2, <1>3, <1>4, <1>5, <1>6

(* A chunk by itself *)
LEMMA SingleTiles ==
    ASSUME NEW ch \in ChunkRec, ch.received <= ch.size
    PROVE  Tiles(<<ch>>, ch.start, EndOf(ch)) /\ ToSet(<<ch>>) = {ch}
<1>1. Append(<<>>, ch) = <<ch>>
  OBVIOUS
<1>2. Tiles(<<>>, ch.start, ch.start) /\ ToSet(<<>>) = {}
  BY EmptyTiles
<1> DEFINE e == <<>>
<1>3. Tiles(e, ch.start, ch.start) /\ ToSet(e) = {} /\ Append(e, ch) = <<ch>>
  BY <1>1, <1>2
<1> HIDE DEF e
<1>4. Tiles(Append(e, ch), ch.start, EndOf(ch)) /\ ToSet(Append(e, ch)) = ToSet(e) \cup {ch}
  BY <1>3, TilesAppend
<1> QED BY <1>3, <1>4

(* What the connections of the chunks are does not matter. *)
LEMMA SameTiles ==
    ASSUME NEW q, NEW a, NEW b, Tiles(q, a, b), NEW r \in Seq(ChunkRec), Len(r) = Len(q),
           \A i \in 1 .. Len(q) : /\ r[i].start = q[i].start /\ r[i].size = q[i].size
                                  /\ r[i].received = q[i].received
    PROVE  Tiles(r, a, b)
<1>0. Len(q) \in Nat /\ q \in Seq(ChunkRec)
  BY TilesType
<1>1. \A i \in 1 .. Len(q) : EndOf(r[i]) = EndOf(q[i])
  BY DEF EndOf
<1>2. r = <<>> <=> q = <<>>
  BY <1>0
<1>3. CASE q = <<>>
  BY <1>0, <1>2, <1>3 DEF Tiles
<1>4. CASE q # <<>>
  <2>1. Len(q) >= 1 /\ 1 \in 1 .. Len(q) /\ Len(q) \in 1 .. Len(q)
    BY <1>0, <1>4
  <2>2. r[1].start = a /\ EndOf(r[Len(r)]) = b
    BY <1>1, <1>4, <2>1 DEF Tiles
  <2>3. ASSUME NEW i \in 1 .. Len(r) - 1 PROVE EndOf(r[i]) = r[i + 1].start
    <3>1. i \in 1 .. Len(q) /\ i + 1 \in 1 .. Len(q) /\ i \in 1 .. Len(q) - 1
      BY <1>0
    <3>2. EndOf(q[i]) = q[i + 1].start
      BY <3>1 DEF Tiles
    <3> QED BY <1>1, <3>1, <3>2
  <2>4. \A i \in 1 .. Len(r) : r[i].received <= r[i].size
    BY DEF Tiles
  <2> QED BY <1>2, <1>4, <2>2, <2>3, <2>4 DEF Tiles
<1> QED BY <1>3, <1>4

(* Chunks of positive size are different. *)
LEMMA TilesDistinct ==
    ASSUME NEW q, NEW a \in Nat, NEW b \in Nat, Tiles(q, a, b),
           \A i \in 1 .. Len(q) - 1 : q[i].size > 0,
           NEW i \in 1 .. Len(q), NEW j \in 1 .. Len(q), q[i] = q[j]
    PROVE  i = j
<1>0. Len(q) \in Nat
  BY TilesType
<1>1. ASSUME NEW k \in 1 .. Len(q), NEW l \in 1 .. Len(q), k < l PROVE q[k] # q[l]
  <2>1. EndOf(q[k]) <= q[l].start
    BY <1>1, TilesOrdered
  <2>2. k \in 1 .. Len(q) - 1
    BY <1>0, <1>1
  <2>3. q[k].size > 0 /\ EndOf(q[k]) = q[k].start + q[k].size
        /\ q[k].start \in Nat /\ q[k].size \in Nat
    BY <2>2, TilesType
  <2> QED BY <2>1, <2>3
<1> QED BY <1>0, <1>1

-----------------------------------------------------------------------------
(* consolidate_chunks                                                      *)

(* The blocks the chunks of a set have received, and those a list has *)
Held(S) == UNION {Prefix(x) : x \in S}
Got(q) == UNION {Prefix(q[i]) : i \in DOMAIN q}
(* The chunks of a set that have a connection *)
Working(S) == {x \in S : x.conn # NoConn}

(* Nothing of it is missing, or all of it *)
Whole(x) == IsComplete(x) \/ x.received = 0

(* A list without empty chunks, and a list as the loader leaves it: only  *)
(* the last chunk may be empty, none has a connection, and each is either *)
(* complete or untouched                                                  *)
Solid(q) == \A i \in 1 .. Len(q) : q[i].size > 0
Loaded(q) ==
    /\ \A i \in 1 .. Len(q) - 1 : q[i].size > 0
    /\ \A i \in 1 .. Len(q) : q[i].conn = NoConn /\ Whole(q[i])

(* No missing part of a longer file is its first block alone: read back   *)
(* from the state data, that could be the end of the list of ranges       *)
Fine(x) == x.start = 0 /\ FileSize >= 2 => x.size >= 2 \/ (x.size = 1 /\ x.received = 1)
FineList(q) == \A i \in 1 .. Len(q) : Fine(q[i])

(* What dl->chunks is while there is a list: it tiles the file, and an *)
(* empty chunk occurs only in a list just loaded                       *)
ChunkList(q) == Tiles(q, 0, FileSize) /\ FineList(q) /\ (Solid(q) \/ Loaded(q))

(* The first n chunks of a list, and where they end *)
FirstChunks(q, n) == {q[i] : i \in 1 .. n}
EndAt(q, n) == IF n = 0 THEN 0 ELSE EndOf(q[n])
(* Every chunk of the set is complete and without a connection *)
AllDone(S) == \A x \in S : x.conn = NoConn /\ IsComplete(x)

(* d is what consolidate_chunks has made of the first n chunks of q: it *)
(* tiles the same range, holds the same blocks, has the same working    *)
(* chunks, and leaves no part-received chunk without a connection       *)
Consolidated(q, n, d) ==
    /\ Tiles(d, 0, EndAt(q, n))
    /\ Held(ToSet(d)) = Held(FirstChunks(q, n))
    /\ Working(ToSet(d)) = Working(FirstChunks(q, n))
    /\ \A x \in ToSet(d) : x.size > 0 /\ (x.conn = NoConn => Whole(x)) /\ Fine(x)
    /\ AllDone(FirstChunks(q, n)) => Len(d) <= 1 /\ AllDone(ToSet(d))

(* One chunk more adds its blocks. *)
LEMMA HeldMore ==
    ASSUME NEW S, NEW T, NEW x, T = S \cup {x}
    PROVE  Held(T) = Held(S) \cup Prefix(x)
BY DEF Held

(* What a list has received is what its set of chunks has. *)
LEMMA GotHeld == ASSUME NEW q PROVE Got(q) = Held(ToSet(q))
BY DEF Got, Held, ToSet

(* The next chunk is added as it is. *)
LEMMA ConsolidateAppend ==
    ASSUME NEW q, ChunkList(q), NEW n \in 1 .. Len(q), NEW d, Consolidated(q, n - 1, d),
           ~(q[n].conn = NoConn /\ q[n].received > 0 /\ ~IsComplete(q[n])),
           d = <<>> \/ ~Mergeable(Last(d), q[n])
    PROVE  Consolidated(q, n, Append(d, q[n]))
<1> DEFINE ch == q[n]
           r == Append(d, ch)
<1>0. /\ ch \in ChunkRec /\ ch.received <= ch.size /\ EndOf(ch) = ch.start + ch.size
      /\ ch.start \in Nat /\ ch.size \in Nat /\ ch.received \in Nat
      /\ Len(q) \in Nat /\ DOMAIN q = 1 .. Len(q)
  BY TilesType DEF ChunkList
<1>0a. Tiles(q, 0, FileSize) /\ (Solid(q) \/ Loaded(q))
  BY DEF ChunkList
<1>1. EndAt(q, n - 1) = ch.start /\ EndAt(q, n) = EndOf(ch)
  BY <1>0, <1>0a DEF EndAt, Tiles
<1>2. FirstChunks(q, n) = FirstChunks(q, n - 1) \cup {ch}
  BY <1>0 DEF FirstChunks
<1> HIDE DEF ch
<1>3. Tiles(r, 0, EndOf(ch)) /\ ToSet(r) = ToSet(d) \cup {ch} /\ Len(r) = Len(d) + 1
  BY <1>0, <1>1, TilesAppend DEF Consolidated
<1>4. Held(ToSet(r)) = Held(FirstChunks(q, n))
  <2>1. Held(ToSet(r)) = Held(ToSet(d)) \cup Prefix(ch)
    BY <1>3, HeldMore
  <2>2. Held(FirstChunks(q, n)) = Held(FirstChunks(q, n - 1)) \cup Prefix(ch)
    BY <1>2, HeldMore
  <2> QED BY <2>1, <2>2 DEF Consolidated
<1>5. Working(ToSet(r)) = Working(FirstChunks(q, n))
  BY <1>2, <1>3 DEF Consolidated, Working
<1>6. ch.size > 0
  <2> SUFFICES ASSUME ch.size = 0 PROVE FALSE
    BY <1>0
  <2>1. n = Len(q) /\ Loaded(q)
    <3> HIDE DEF Solid, Loaded
    <3>1. ~(q[n].size > 0)
      BY <1>0 DEF ch
    <3>2. ~Solid(q)
      BY <3>1 DEF Solid
    <3>3. Loaded(q)
      BY <1>0a, <3>2
    <3>4. ~(n \in 1 .. Len(q) - 1)
      BY <3>1, <3>3 DEF Loaded
    <3>5. n = Len(q)
      <4>1. \A k \in Nat : n \in 1 .. k /\ n \notin 1 .. k - 1 => n = k
        OBVIOUS
      <4> QED BY <1>0, <3>4, <4>1
    <3> QED BY <3>3, <3>5
  <2>2. n # 1
    <3>1. CASE n = 1
      <4>0. Len(q) = 1 /\ q # <<>>
        <5>1. Len(q) = 1
          BY <2>1, <3>1
        <5>2. q = <<>> => Len(q) = 0
          OBVIOUS
        <5> QED BY <5>1, <5>2
      <4>1. q[1].start = 0 /\ EndOf(q[Len(q)]) = FileSize
        BY <1>0a, <4>0 DEF Tiles
      <4> QED BY <1>0, <3>1, <4>0, <4>1, IfaceAssumption DEF ch
    <3> QED BY <3>1
  <2>3. d # <<>>
    <3> SUFFICES ASSUME d = <<>> PROVE FALSE
      OBVIOUS
    <3>1. EndAt(q, n - 1) = 0
      BY DEF Consolidated, Tiles
    <3>2. n - 1 \in 1 .. Len(q) - 1 /\ n - 1 \in 1 .. Len(q)
      BY <1>0, <2>1, <2>2
    <3>3. q[n - 1].size > 0
      BY <2>1, <3>2 DEF Loaded
    <3>4. q[n - 1].start \in Nat /\ q[n - 1].size \in Nat
          /\ EndOf(q[n - 1]) = q[n - 1].start + q[n - 1].size
      BY <3>2, TilesType DEF ChunkList
    <3> QED BY <3>1, <3>2, <3>3, <3>4 DEF EndAt
  <2>4. Last(d) \in ToSet(d)
    BY <2>3, TilesFront DEF Consolidated
  <2>5. \A x \in FirstChunks(q, n - 1) : x.conn = NoConn
    BY <2>1, <1>0 DEF Loaded, FirstChunks
  <2>6. Last(d).conn = NoConn /\ Whole(Last(d))
    BY <2>4, <2>5 DEF Consolidated, Working
  <2>7. ch.conn = NoConn /\ ch.received = 0 /\ IsComplete(ch)
    BY <1>0, <2>1 DEF Loaded, IsComplete, ch
  <2>8. Mergeable(Last(d), ch)
    BY <2>6, <2>7 DEF Mergeable, Whole
  <2> QED BY <2>3, <2>8 DEF ch
<1>7. ch.conn = NoConn => Whole(ch)
  BY <1>0 DEF Whole, ch
<1>8. ASSUME AllDone(FirstChunks(q, n)) PROVE Len(r) <= 1 /\ AllDone(ToSet(r))
  <2>1. ch.conn = NoConn /\ IsComplete(ch) /\ AllDone(FirstChunks(q, n - 1))
    BY <1>2, <1>8 DEF AllDone
  <2>2. AllDone(ToSet(d))
    BY <2>1 DEF Consolidated
  <2>3. d = <<>>
    <3> SUFFICES ASSUME d # <<>> PROVE FALSE
      OBVIOUS
    <3>1. Last(d) \in ToSet(d)
      BY TilesFront DEF Consolidated
    <3>2. Mergeable(Last(d), ch)
      BY <2>1, <2>2, <3>1 DEF Mergeable, AllDone
    <3> QED BY <3>2 DEF ch
  <2> QED BY <1>3, <2>1, <2>2, <2>3 DEF AllDone
<1>7a. Fine(ch)
  BY <1>0 DEF ChunkList, FineList, ch
<1>9. \A x \in ToSet(r) : x.size > 0 /\ (x.conn = NoConn => Whole(x)) /\ Fine(x)
  BY <1>3, <1>6, <1>7, <1>7a DEF Consolidated
<1>10. Consolidated(q, n, r)
  BY <1>1, <1>3, <1>4, <1>5, <1>8, <1>9 DEF Consolidated
<1> QED BY <1>10 DEF ch

(* A half complete chunk is split. *)
LEMMA ConsolidateSplit ==
    ASSUME NEW q, ChunkList(q), NEW n \in 1 .. Len(q), NEW d, Consolidated(q, n - 1, d),
           q[n].conn = NoConn, q[n].received > 0, ~IsComplete(q[n])
    PROVE  Consolidated(q, n, Append(Append(d, Chunk(q[n].start, q[n].received, q[n].received)),
                                     Chunk(q[n].start + q[n].received, Remaining(q[n]), 0)))
<1> DEFINE ch == q[n]
           a == Chunk(ch.start, ch.received, ch.received)
           b == Chunk(ch.start + ch.received, Remaining(ch), 0)
           e == Append(d, a)
           r == Append(e, b)
<1>0. /\ ch \in ChunkRec /\ ch.received <= ch.size /\ EndOf(ch) = ch.start + ch.size
      /\ ch.start \in Nat /\ ch.size \in Nat /\ ch.received \in Nat
      /\ Len(q) \in Nat /\ DOMAIN q = 1 .. Len(q)
  BY TilesType DEF ChunkList
<1>1. EndAt(q, n - 1) = ch.start /\ EndAt(q, n) = EndOf(ch)
  BY <1>0 DEF EndAt, ChunkList, Tiles
<1>2. FirstChunks(q, n) = FirstChunks(q, n - 1) \cup {ch}
  BY <1>0 DEF FirstChunks
<1>3. ch.conn = NoConn /\ ch.received > 0 /\ ch.received < ch.size
  BY <1>0 DEF IsComplete
<1> HIDE DEF ch
<1>4. Remaining(ch) \in Nat /\ Remaining(ch) > 0 /\ ch.received + Remaining(ch) = ch.size
  BY <1>0, <1>3 DEF Remaining
<1>5. /\ a \in ChunkRec /\ a.start = ch.start /\ a.size = ch.received
      /\ a.received = ch.received /\ a.conn = NoConn /\ EndOf(a) = ch.start + ch.received
  BY <1>0, ChunkFacts
<1>6. /\ b \in ChunkRec /\ b.start = ch.start + ch.received /\ b.size = Remaining(ch)
      /\ b.received = 0 /\ b.conn = NoConn /\ EndOf(b) = EndOf(ch)
  <2> DEFINE k == ch.start + ch.received
             n0 == Remaining(ch)
  <2>1. k \in Nat /\ n0 \in Nat /\ 0 \in Nat /\ k + n0 = EndOf(ch)
    BY <1>0, <1>4
  <2> HIDE DEF k, n0
  <2>2. /\ b \in ChunkRec /\ b.start = k /\ b.size = n0
        /\ b.received = 0 /\ b.conn = NoConn /\ EndOf(b) = k + n0
    <3>1. \A x, y \in Nat : /\ Chunk(x, y, 0) \in ChunkRec /\ Chunk(x, y, 0).start = x
                          /\ Chunk(x, y, 0).size = y /\ Chunk(x, y, 0).received = 0
                          /\ Chunk(x, y, 0).conn = NoConn /\ EndOf(Chunk(x, y, 0)) = x + y
      BY DEF Chunk, ChunkRec, EndOf
    <3>2. b = Chunk(k, n0, 0)
      BY DEF k, n0
    <3> HIDE DEF b
    <3> QED BY <2>1, <3>1, <3>2
  <2> QED BY <2>1, <2>2 DEF k, n0
<1>7. Prefix(a) = Prefix(ch) /\ Prefix(b) = {}
  <2>1. Prefix(a) = Prefix(ch)
    BY <1>5 DEF Prefix
  <2>2. b.start + b.received - 1 < b.start
    BY <1>0, <1>6
  <2> QED BY <1>0, <1>6, <2>1, <2>2 DEF Prefix
<1> HIDE DEF a, b
<1>8. Tiles(e, 0, EndOf(a)) /\ ToSet(e) = ToSet(d) \cup {a}
  BY <1>0, <1>1, <1>5, TilesAppend DEF Consolidated
<1> HIDE DEF e
<1>9. Tiles(r, 0, EndOf(ch)) /\ ToSet(r) = ToSet(e) \cup {b}
  <2>1. b.start = EndOf(a) /\ b.received <= b.size
    BY <1>4, <1>5, <1>6
  <2> QED BY <1>6, <1>8, <2>1, TilesAppend
<1> HIDE DEF r
<1>10. ToSet(r) = ToSet(d) \cup {a} \cup {b}
  BY <1>8, <1>9
<1>11. Held(ToSet(r)) = Held(FirstChunks(q, n))
  <2>1. Held(ToSet(r)) = Held(ToSet(e)) \cup Prefix(b)
    BY <1>9, HeldMore
  <2>2. Held(ToSet(e)) = Held(ToSet(d)) \cup Prefix(a)
    BY <1>8, HeldMore
  <2>3. Held(FirstChunks(q, n)) = Held(FirstChunks(q, n - 1)) \cup Prefix(ch)
    BY <1>2, HeldMore
  <2> QED BY <1>7, <2>1, <2>2, <2>3 DEF Consolidated
<1>12. Working(ToSet(r)) = Working(FirstChunks(q, n))
  BY <1>2, <1>3, <1>5, <1>6, <1>10 DEF Consolidated, Working
<1>12a. Fine(a) /\ Fine(b)
  <2>1. Fine(a)
    BY <1>0, <1>3, <1>5 DEF Fine
  <2>2. b.start # 0
    BY <1>0, <1>3, <1>6
  <2> QED BY <2>1, <2>2 DEF Fine
<1>13. \A x \in ToSet(r) : x.size > 0 /\ (x.conn = NoConn => Whole(x)) /\ Fine(x)
  BY <1>3, <1>4, <1>5, <1>6, <1>10, <1>12a DEF Consolidated, Whole, IsComplete
<1>14. ~AllDone(FirstChunks(q, n))
  BY <1>2 DEF AllDone, ch
<1>15. Consolidated(q, n, r)
  BY <1>1, <1>9, <1>11, <1>12, <1>13, <1>14 DEF Consolidated
<1> QED BY <1>15 DEF r, e, a, b, ch

(* What two neighbours received, when nothing is missing of the first *)
LEMMA PrefixJoin ==
    ASSUME NEW x \in ChunkRec, NEW y \in ChunkRec, NEW z \in ChunkRec,
           x.start + x.received = y.start,
           z.start = x.start, z.received = x.received + y.received
    PROVE  Prefix(z) = Prefix(x) \cup Prefix(y)
<1>1. /\ x.start \in Nat /\ x.received \in Nat /\ y.start \in Nat /\ y.received \in Nat
      /\ z.start \in Nat /\ z.received \in Nat
  BY DEF ChunkRec
<1>2. \A k \in Int : (x.start <= k /\ k <= y.start + y.received - 1)
                    <=> (x.start <= k /\ k <= x.start + x.received - 1)
                        \/ (y.start <= k /\ k <= y.start + y.received - 1)
  BY <1>1
<1>3. z.start + z.received - 1 = y.start + y.received - 1
  BY <1>1
<1> QED BY <1>1, <1>2, <1>3 DEF Prefix

(* A chunk is merged with the last one. *)
LEMMA ConsolidateMerge ==
    ASSUME NEW q, ChunkList(q), NEW n \in 1 .. Len(q), NEW d, Consolidated(q, n - 1, d),
           d # <<>>, Mergeable(Last(d), q[n])
    PROVE  Consolidated(q, n, Append(Front(d),
               [Last(d) EXCEPT !.size = @ + q[n].size, !.received = @ + q[n].received]))
<1> DEFINE ch == q[n]
           l == Last(d)
           m == [l EXCEPT !.size = @ + ch.size, !.received = @ + ch.received]
           f == Front(d)
           r == Append(f, m)
<1>0. /\ ch \in ChunkRec /\ ch.received <= ch.size /\ EndOf(ch) = ch.start + ch.size
      /\ ch.start \in Nat /\ ch.size \in Nat /\ ch.received \in Nat
      /\ Len(q) \in Nat /\ DOMAIN q = 1 .. Len(q)
  BY TilesType DEF ChunkList
<1>1. EndAt(q, n - 1) = ch.start /\ EndAt(q, n) = EndOf(ch)
  BY <1>0 DEF EndAt, ChunkList, Tiles
<1>2. FirstChunks(q, n) = FirstChunks(q, n - 1) \cup {ch}
  BY <1>0 DEF FirstChunks
<1>3. /\ Tiles(f, 0, l.start) /\ ToSet(d) = ToSet(f) \cup {l}
      /\ l \in ChunkRec /\ EndOf(l) = ch.start /\ l.received <= l.size
      /\ Len(f) = Len(d) - 1 /\ Len(d) \in Nat
  BY <1>1, TilesFront DEF Consolidated
<1>4. Mergeable(l, ch) /\ l.size > 0
  BY <1>3 DEF Consolidated
<1> HIDE DEF ch, l, f
<1>5. l.start \in Nat /\ l.size \in Nat /\ l.received \in Nat /\ ch.start = l.start + l.size
  BY <1>3 DEF ChunkRec, EndOf
<1>6. /\ m \in ChunkRec /\ m.start = l.start /\ m.size = l.size + ch.size
      /\ m.received = l.received + ch.received /\ m.conn = l.conn
  <2>0. l.size \in Nat /\ ch.size \in Nat /\ l.received \in Nat /\ ch.received \in Nat
    BY <1>0, <1>5
  <2>1. l.size + ch.size \in Nat /\ l.received + ch.received \in Nat
    <3>1. \A i, j \in Nat : i + j \in Nat
      OBVIOUS
    <3> QED BY <2>0, <3>1
  <2> DEFINE size == l.size + ch.size
             got == l.received + ch.received
  <2> HIDE DEF size, got
  <2>2. m = [l EXCEPT !.size = size, !.received = got]
    BY DEF size, got
  <2>3. size \in Nat /\ got \in Nat
    BY <2>1 DEF size, got
  <2> HIDE DEF m
  <2>4. m \in ChunkRec /\ m.start = l.start /\ m.size = size /\ m.received = got
        /\ m.conn = l.conn
    BY <1>3, <2>2, <2>3 DEF ChunkRec
  <2> QED BY <2>4 DEF size, got
<1> HIDE DEF m
<1>7. EndOf(m) = EndOf(ch) /\ m.received <= m.size
  <2>1. /\ l.start \in Nat /\ l.size \in Nat /\ l.received \in Nat /\ l.received <= l.size
        /\ ch.size \in Nat /\ ch.received \in Nat /\ ch.received <= ch.size
        /\ ch.start = l.start + l.size
    BY <1>0, <1>3, <1>5
  <2>2. /\ m.start = l.start /\ m.size = l.size + ch.size
        /\ m.received = l.received + ch.received
    BY <1>6
  <2>3. l.received + ch.received <= l.size + ch.size
    BY <2>1
  <2>4. l.start + (l.size + ch.size) = ch.start + ch.size
    BY <2>1
  <2> QED BY <2>2, <2>3, <2>4 DEF EndOf
<1>8. Tiles(r, 0, EndOf(ch)) /\ ToSet(r) = ToSet(f) \cup {m} /\ Len(r) = Len(d)
  <2>1. Tiles(r, 0, EndOf(m)) /\ ToSet(r) = ToSet(f) \cup {m} /\ Len(r) = Len(f) + 1
    BY <1>3, <1>6, <1>7, TilesAppend
  <2> QED BY <1>3, <1>7, <2>1
<1> HIDE DEF r
<1>9. Prefix(m) = Prefix(l) \cup Prefix(ch)
  <2>1. CASE IsComplete(l) /\ IsComplete(ch)
    <3>1. l.start + l.received = ch.start /\ m.start = l.start
      BY <1>5, <1>6, <2>1 DEF IsComplete
    <3>2. m.received = l.received + ch.received
      BY <1>6
    <3> QED BY <1>0, <1>3, <1>6, <3>1, <3>2, PrefixJoin
  <2>2. CASE l.received = 0 /\ ch.received = 0
    BY <1>0, <1>5, <1>6, <2>2 DEF Prefix
  <2> QED BY <1>4, <2>1, <2>2 DEF Mergeable
<1>10. Held(ToSet(r)) = Held(FirstChunks(q, n))
  <2>1. Held(ToSet(r)) = Held(ToSet(f)) \cup Prefix(m)
    BY <1>8, HeldMore
  <2>2. Held(ToSet(d)) = Held(ToSet(f)) \cup Prefix(l)
    BY <1>3, HeldMore
  <2>3. Held(FirstChunks(q, n)) = Held(FirstChunks(q, n - 1)) \cup Prefix(ch)
    BY <1>2, HeldMore
  <2>4. Held(ToSet(d)) = Held(FirstChunks(q, n - 1))
    BY DEF Consolidated
  <2> QED BY <1>9, <2>1, <2>2, <2>3, <2>4
<1>11. l.conn = NoConn /\ ch.conn = NoConn
  BY <1>4 DEF Mergeable
<1>12. Working(ToSet(r)) = Working(FirstChunks(q, n))
  <2>1. Working(ToSet(r)) = Working(ToSet(f))
    BY <1>6, <1>8, <1>11 DEF Working
  <2>2. Working(ToSet(d)) = Working(ToSet(f))
    BY <1>3, <1>11 DEF Working
  <2>3. Working(FirstChunks(q, n)) = Working(FirstChunks(q, n - 1))
    BY <1>2, <1>11 DEF Working
  <2> QED BY <2>1, <2>2, <2>3 DEF Consolidated
<1>13. Whole(m) /\ (IsComplete(l) /\ IsComplete(ch) => IsComplete(m))
  BY <1>4, <1>6, <1>0, <1>5 DEF Mergeable, Whole, IsComplete
<1>14. \A x \in ToSet(r) : x.size > 0 /\ (x.conn = NoConn => Whole(x)) /\ Fine(x)
  <2>1. m.size > 0
    BY <1>0, <1>4, <1>5, <1>6
  <2>2. /\ \A x \in ToSet(f) : x.size > 0 /\ (x.conn = NoConn => Whole(x)) /\ Fine(x)
        /\ Fine(l)
    BY <1>3 DEF Consolidated
  <2>3. Fine(m)
    <3> SUFFICES ASSUME m.start = 0, FileSize >= 2
                 PROVE  m.size >= 2 \/ (m.size = 1 /\ m.received = 1)
      BY DEF Fine
    <3>1. l.size >= 2 \/ (l.size = 1 /\ l.received = 1)
      BY <1>6, <2>2 DEF Fine
    <3>2. CASE l.size >= 2
      BY <1>0, <1>5, <1>6, <3>2
    <3>3. CASE l.size = 1 /\ l.received = 1
      <4>1. IsComplete(ch)
        BY <1>4, <3>3 DEF Mergeable
      <4> QED BY <1>0, <1>6, <3>3, <4>1 DEF IsComplete
    <3> QED BY <3>1, <3>2, <3>3
  <2> QED BY <1>8, <1>13, <2>1, <2>2, <2>3
<1>15. ASSUME AllDone(FirstChunks(q, n)) PROVE Len(r) <= 1 /\ AllDone(ToSet(r))
  <2>1. ch.conn = NoConn /\ IsComplete(ch) /\ AllDone(FirstChunks(q, n - 1))
    BY <1>2, <1>15 DEF AllDone
  <2>2. AllDone(ToSet(d)) /\ Len(d) <= 1
    BY <2>1 DEF Consolidated
  <2>3. IsComplete(l) /\ m.conn = NoConn
    BY <1>3, <1>6, <1>11, <2>2 DEF AllDone
  <2> QED BY <1>3, <1>8, <1>13, <2>1, <2>2, <2>3 DEF AllDone
<1>16. Consolidated(q, n, r)
  BY <1>1, <1>8, <1>10, <1>12, <1>14, <1>15 DEF Consolidated
<1> QED BY <1>16 DEF r, f, m, l, ch

(* Whatever the next chunk is, the step of consolidate_chunks extends the *)
(* result as required: it splits the chunk, merges it with the last one,  *)
(* or appends it.                                                         *)
LEMMA ConsolidateStep ==
    ASSUME NEW q, ChunkList(q), NEW n \in 1 .. Len(q), NEW d, Consolidated(q, n - 1, d)
    PROVE  Consolidated(q, n, ConsolidateOne(d, q[n]))
<1>1. CASE q[n].conn = NoConn /\ q[n].received > 0 /\ ~IsComplete(q[n])
  BY <1>1, ConsolidateSplit DEF ConsolidateOne
<1>2. CASE ~(q[n].conn = NoConn /\ q[n].received > 0 /\ ~IsComplete(q[n]))
           /\ d # <<>> /\ Mergeable(Last(d), q[n])
  BY <1>2, ConsolidateMerge DEF ConsolidateOne
<1>3. CASE ~(q[n].conn = NoConn /\ q[n].received > 0 /\ ~IsComplete(q[n]))
           /\ ~(d # <<>> /\ Mergeable(Last(d), q[n]))
  BY <1>3, ConsolidateAppend DEF ConsolidateOne
<1> QED BY <1>1, <1>2, <1>3

(* The types and the ends of a chunk list *)
LEMMA ChunkListFacts ==
    ASSUME NEW q, ChunkList(q)
    PROVE  /\ q \in Seq(ChunkRec) /\ q # <<>> /\ Len(q) \in Nat /\ Len(q) >= 1
           /\ DOMAIN q = 1 .. Len(q)
           /\ q[1].start = 0 /\ EndOf(q[Len(q)]) = FileSize
           /\ \A i \in 1 .. Len(q) :
                 /\ q[i] \in ChunkRec /\ q[i].received <= q[i].size
                 /\ q[i].start \in Nat /\ q[i].size \in Nat /\ q[i].received \in Nat
                 /\ EndOf(q[i]) \in Nat /\ EndOf(q[i]) = q[i].start + q[i].size
<1>1. Tiles(q, 0, FileSize)
  BY DEF ChunkList
<1>2. q # <<>>
  BY <1>1, IfaceAssumption DEF Tiles
<1>3. q[1].start = 0 /\ EndOf(q[Len(q)]) = FileSize
  BY <1>1, <1>2 DEF Tiles
<1>4. q \in Seq(ChunkRec) /\ Len(q) \in Nat
  BY <1>1, TilesType
<1>5. Len(q) >= 1
  BY <1>2, <1>4
<1> QED BY <1>1, <1>2, <1>3, <1>4, <1>5, TilesType

(* consolidate_chunks *)
LEMMA ConsolidateRun ==
    ASSUME NEW q, ChunkList(q)
    PROVE  Consolidated(q, Len(q), Consolidate(q))
<1> DEFINE N == Len(q)
           S == Seq(ChunkRec)
           step == [n \in 1 .. N |-> [d \in S |->
                       IF ConsolidateOne(d, q[n]) \in S THEN ConsolidateOne(d, q[n]) ELSE <<>>]]
<1>1. N \in Nat /\ N = Len(q)
  BY ChunkListFacts
<1>2. step \in Steps(N, S)
  <2>1. <<>> \in S
    OBVIOUS
  <2> HIDE DEF S
  <2> QED BY <2>1 DEF Steps
<1>3. PICK h \in [0 .. N -> S] : IsRun(h, N, <<>>, step)
  <2>1. <<>> \in S
    OBVIOUS
  <2> DEFINE e == <<>>
  <2>2. e \in S
    BY <2>1
  <2> HIDE DEF step, N, S, e
  <2>3. \E h \in [0 .. N -> S] : IsRun(h, N, e, step)
    BY <1>1, <1>2, <2>2, PlaceRecursion
  <2> QED BY <2>3 DEF e
<1>4. Consolidated(q, 0, <<>>)
  <2>1. FirstChunks(q, 0) = {}
    BY DEF FirstChunks
  <2>2. Len(<<>>) = 0
    OBVIOUS
  <2>3. Tiles(<<>>, 0, 0) /\ ToSet(<<>>) = {}
    BY EmptyTiles
  <2> QED BY <2>1, <2>2, <2>3 DEF Consolidated, EndAt, AllDone, Working
<1>5. ASSUME NEW n \in 1 .. N, NEW d, Consolidated(q, n - 1, d)
      PROVE  Consolidated(q, n, ConsolidateOne(d, q[n])) /\ d \in S /\ ConsolidateOne(d, q[n]) \in S
  <2>1. Consolidated(q, n, ConsolidateOne(d, q[n]))
    BY <1>5, ConsolidateStep
  <2> QED BY <1>5, <2>1 DEF Consolidated, Tiles
<1> HIDE DEF S, N
<1>6. h[0] = <<>> /\ \A n \in 1 .. N : h[n] = step[n][h[n - 1]]
  BY <1>3 DEF IsRun
<1>7. ASSUME NEW n \in 1 .. N, Consolidated(q, n - 1, h[n - 1])
      PROVE  h[n] = ConsolidateOne(h[n - 1], q[n]) /\ Consolidated(q, n, h[n])
  <2>1. /\ h[n - 1] \in S /\ ConsolidateOne(h[n - 1], q[n]) \in S
        /\ Consolidated(q, n, ConsolidateOne(h[n - 1], q[n]))
    BY <1>5, <1>7
  <2>2. h[n] = ConsolidateOne(h[n - 1], q[n])
    BY <1>6, <2>1
  <2> QED BY <2>1, <2>2
<1>8. \A n \in 0 .. N : Consolidated(q, n, h[n])
  <2> DEFINE P == {n \in 0 .. N : Consolidated(q, n, h[n])}
  <2>1. 0 \in P
    BY <1>1, <1>4, <1>6
  <2>2. \A n \in 1 .. N : n - 1 \in P => n \in P
    BY <1>1, <1>7
  <2> HIDE DEF P
  <2>3. \A n \in 0 .. N : n \in P
    BY <1>1, <2>1, <2>2, PlaceInduction
  <2> QED BY <2>3 DEF P
<1>9. h = [n \in 0 .. N |-> IF n = 0 THEN <<>> ELSE ConsolidateOne(h[n - 1], q[n])]
  <2>1. \A n \in 1 .. N : n - 1 \in 0 .. N
    BY <1>1
  <2>2. \A n \in 1 .. N : h[n] = ConsolidateOne(h[n - 1], q[n])
    BY <1>7, <1>8, <2>1
  <2>3. \A n \in 0 .. N : n # 0 => n \in 1 .. N
    BY <1>1
  <2> QED BY <1>3, <1>6, <2>2, <2>3
<1> DEFINE g == CHOOSE g : g = [n \in 0 .. N |-> IF n = 0 THEN <<>>
                                               ELSE ConsolidateOne(g[n - 1], q[n])]
<1>10. g = [n \in 0 .. N |-> IF n = 0 THEN <<>> ELSE ConsolidateOne(g[n - 1], q[n])]
  BY <1>9
<1>11. Consolidate(q) = g[N]
  BY DEF Consolidate, N
<1> HIDE DEF g, step
<1>12. g[0] = <<>> /\ \A n \in 1 .. N : g[n] = ConsolidateOne(g[n - 1], q[n])
  <2>1. \A n \in 0 .. N : g[n] = IF n = 0 THEN <<>> ELSE ConsolidateOne(g[n - 1], q[n])
    BY <1>10
  <2>2. 0 \in 0 .. N /\ \A n \in 1 .. N : n \in 0 .. N /\ n # 0
    BY <1>1
  <2> QED BY <2>1, <2>2
<1>13. Consolidated(q, N, g[N])
  <2> DEFINE P == {n \in 0 .. N : Consolidated(q, n, g[n])}
  <2>1. 0 \in P
    BY <1>1, <1>4, <1>12
  <2>2. ASSUME NEW n \in 1 .. N, n - 1 \in P PROVE n \in P
    <3>1. Consolidated(q, n - 1, g[n - 1]) /\ n \in 0 .. N
      BY <1>1, <2>2
    <3>2. Consolidated(q, n, ConsolidateOne(g[n - 1], q[n]))
      BY <1>5, <3>1
    <3> QED BY <1>12, <3>1, <3>2
  <2> HIDE DEF P
  <2>3. \A n \in 0 .. N : n \in P
    BY <1>1, <2>1, <2>2, PlaceInduction
  <2>4. N \in 0 .. N
    BY <1>1
  <2> QED BY <2>3, <2>4 DEF P
<1> QED BY <1>11, <1>13 DEF N

(* What consolidate_chunks promises: a list of the same file with the     *)
(* same blocks and the same working chunks, no empty chunk, and one chunk *)
(* when all is complete                                                   *)
LEMMA ConsolidateFacts ==
    ASSUME NEW q, ChunkList(q)
    PROVE  LET r == Consolidate(q) IN
           /\ ChunkList(r) /\ Solid(r) /\ Got(r) = Got(q)
           /\ Working(ToSet(r)) = Working(ToSet(q))
           /\ \A i \in 1 .. Len(r) : r[i].conn = NoConn => Whole(r[i])
           /\ AllDone(ToSet(q)) => Len(r) = 1 /\ AllDone(ToSet(r))
<1> DEFINE r == Consolidate(q)
<1>1. Consolidated(q, Len(q), r)
  BY ConsolidateRun
<1> HIDE DEF r
<1>2. DOMAIN q = 1 .. Len(q) /\ Len(q) \in Nat /\ Len(q) >= 1 /\ EndOf(q[Len(q)]) = FileSize
  BY ChunkListFacts
<1>3. EndAt(q, Len(q)) = FileSize /\ FirstChunks(q, Len(q)) = ToSet(q)
  BY <1>2 DEF EndAt, FirstChunks, ToSet
<1>4. Tiles(r, 0, FileSize)
  BY <1>1, <1>3 DEF Consolidated
<1>5. DOMAIN r = 1 .. Len(r) /\ Len(r) \in Nat
  BY <1>4, TilesType
<1>6. \A i \in 1 .. Len(r) : r[i] \in ToSet(r)
  BY <1>5 DEF ToSet
<1>7. Solid(r) /\ \A i \in 1 .. Len(r) : r[i].conn = NoConn => Whole(r[i])
  BY <1>1, <1>6 DEF Solid, Consolidated
<1>8. ChunkList(r)
  <2>1. FineList(r)
    BY <1>1, <1>6 DEF FineList, Consolidated
  <2> QED BY <1>4, <1>7, <2>1 DEF ChunkList
<1>9. Got(r) = Got(q)
  BY <1>1, <1>3, GotHeld DEF Consolidated
<1>10. Len(r) >= 1
  BY <1>8, ChunkListFacts
<1>11. Working(ToSet(r)) = Working(ToSet(q))
  BY <1>1, <1>3 DEF Consolidated
<1>12. AllDone(ToSet(q)) => Len(r) <= 1 /\ AllDone(ToSet(r))
  BY <1>1, <1>3 DEF Consolidated
<1>13. AllDone(ToSet(q)) => Len(r) = 1 /\ AllDone(ToSet(r))
  BY <1>5, <1>10, <1>12
<1> QED BY <1>7, <1>8, <1>9, <1>11, <1>13 DEF r

-----------------------------------------------------------------------------
(* What a list has received, counted                                       *)

(* A block is in one chunk only. *)
LEMMA TilesDisjoint ==
    ASSUME NEW q, NEW a \in Nat, NEW b \in Nat, Tiles(q, a, b),
           NEW i \in 1 .. Len(q), NEW j \in 1 .. Len(q), NEW k \in Int,
           q[i].start <= k, k < EndOf(q[i]), q[j].start <= k, k < EndOf(q[j])
    PROVE  i = j
<1>1. /\ Len(q) \in Nat /\ q[i].start \in Nat /\ EndOf(q[i]) \in Nat
      /\ q[j].start \in Nat /\ EndOf(q[j]) \in Nat
  BY TilesType
<1>2. i < j => EndOf(q[i]) <= q[j].start
  BY TilesOrdered
<1>3. j < i => EndOf(q[j]) <= q[i].start
  BY TilesOrdered
<1> QED BY <1>1, <1>2, <1>3

(* What a chunk received is so many blocks of it. *)
LEMMA PrefixFacts ==
    ASSUME NEW ch \in ChunkRec, ch.received <= ch.size
    PROVE  /\ IsFiniteSet(Prefix(ch)) /\ Cardinality(Prefix(ch)) = ch.received
           /\ \A k \in Prefix(ch) : k \in Nat /\ ch.start <= k /\ k < EndOf(ch)
           /\ \A k : k \in Prefix(ch) <=> k \in Nat /\ ch.start <= k /\ k < WritePos(ch)
           /\ WritePos(ch) \in Nat /\ ch.start <= WritePos(ch) /\ WritePos(ch) <= EndOf(ch)
           /\ WritePos(ch) < EndOf(ch) <=> ~IsComplete(ch)
<1>0. ch.start \in Nat /\ ch.size \in Nat /\ ch.received \in Nat
  BY DEF ChunkRec
<1> DEFINE a == ch.start
           b == ch.start + ch.received - 1
<1>1. a \in Int /\ b \in Int /\ b - a + 1 = ch.received /\ (a > b => ch.received = 0)
  BY <1>0
<1>2. Prefix(ch) = a .. b
  BY DEF Prefix
<1>3. \A k \in a .. b : k \in Nat /\ ch.start <= k /\ k < ch.start + ch.size
  BY <1>0
<1>3a. \A k : k \in a .. b <=> k \in Nat /\ ch.start <= k /\ k < ch.start + ch.received
  BY <1>0
<1>4. \A k : k \in a .. b <=> k \in Nat /\ ch.start <= k /\ k < WritePos(ch)
  BY <1>3a DEF WritePos
<1> HIDE DEF a, b
<1>5. IsFiniteSet(a .. b) /\ Cardinality(a .. b) = ch.received
  <2>1. IsFiniteSet(a .. b) /\ Cardinality(a .. b) = IF a > b THEN 0 ELSE b - a + 1
    BY <1>1, FS_Interval
  <2> QED BY <1>1, <2>1
<1>6. /\ WritePos(ch) \in Nat /\ ch.start <= WritePos(ch) /\ WritePos(ch) <= EndOf(ch)
      /\ WritePos(ch) < EndOf(ch) <=> ~IsComplete(ch)
  BY <1>0 DEF WritePos, EndOf, IsComplete
<1> QED BY <1>2, <1>3, <1>4, <1>5, <1>6 DEF EndOf

(* The number of members of two disjoint sets *)
LEMMA DisjointUnion ==
    ASSUME NEW S, IsFiniteSet(S), NEW T, IsFiniteSet(T), S \cap T = {}
    PROVE  /\ IsFiniteSet(S \cup T)
           /\ Cardinality(S \cup T) = Cardinality(S) + Cardinality(T)
<1>1. Cardinality(S) \in Nat /\ Cardinality(T) \in Nat
  BY FS_CardinalityType
<1>2. Cardinality(S \cap T) = 0
  BY FS_EmptySet
<1>3. /\ IsFiniteSet(S \cup T)
      /\ Cardinality(S \cup T) = Cardinality(S) + Cardinality(T) - Cardinality(S \cap T)
  BY FS_Union
<1>4. Cardinality(S) + Cardinality(T) - 0 = Cardinality(S) + Cardinality(T)
  BY <1>1
<1> QED BY <1>2, <1>3, <1>4

(* What was received of a tiled file: blocks of it, and all of them only *)
(* when every chunk is complete.                                         *)
LEMMA GotBounds ==
    ASSUME NEW q, NEW b \in Nat, Tiles(q, 0, b)
    PROVE  /\ Got(q) \subseteq 0 .. b - 1 /\ IsFiniteSet(Got(q))
           /\ Cardinality(Got(q)) \in Nat /\ Cardinality(Got(q)) <= b
           /\ Got(q) = 0 .. b - 1 => \A i \in 1 .. Len(q) : IsComplete(q[i])
<1>0. /\ Len(q) \in Nat /\ DOMAIN q = 1 .. Len(q)
      /\ \A i \in 1 .. Len(q) : /\ q[i] \in ChunkRec /\ q[i].received <= q[i].size
                                /\ q[i].start \in Nat /\ EndOf(q[i]) \in Nat
  BY TilesType
<1>1. ASSUME NEW k \in Got(q) PROVE k \in 0 .. b - 1
  <2>1. PICK i \in 1 .. Len(q) : k \in Prefix(q[i])
    BY <1>0 DEF Got
  <2>2. k \in Nat /\ k < EndOf(q[i])
    BY <1>0, <2>1, PrefixFacts
  <2>3. EndOf(q[i]) <= b
    BY TilesOrdered
  <2>4. EndOf(q[i]) \in Nat
    BY <1>0
  <2> QED BY <2>2, <2>3, <2>4
<1>2. Got(q) \subseteq 0 .. b - 1
  BY <1>1
<1>3. IsFiniteSet(0 .. b - 1) /\ Cardinality(0 .. b - 1) = b
  <2> DEFINE c == b - 1
  <2>1. c \in Int /\ c - 0 + 1 = b /\ (0 > c => b = 0)
    OBVIOUS
  <2> HIDE DEF c
  <2>2. IsFiniteSet(0 .. c) /\ Cardinality(0 .. c) = IF 0 > c THEN 0 ELSE c - 0 + 1
    BY <2>1, FS_Interval
  <2> QED BY <2>1, <2>2 DEF c
<1>4. IsFiniteSet(Got(q)) /\ Cardinality(Got(q)) <= b
  BY <1>2, <1>3, FS_Subset
<1>5. Cardinality(Got(q)) \in Nat
  BY <1>4, FS_CardinalityType
<1>6. ASSUME Got(q) = 0 .. b - 1, NEW i \in 1 .. Len(q) PROVE IsComplete(q[i])
  <2> SUFFICES ASSUME ~IsComplete(q[i]) PROVE FALSE
    OBVIOUS
  <2> DEFINE k == WritePos(q[i])
  <2>1. k \in Nat /\ q[i].start <= k /\ k < EndOf(q[i]) /\ k \notin Prefix(q[i])
    BY <1>0, PrefixFacts
  <2>2. EndOf(q[i]) <= b
    BY TilesOrdered
  <2> HIDE DEF k
  <2>3. k \in Got(q)
    BY <1>0, <1>6, <2>1, <2>2
  <2>4. PICK j \in 1 .. Len(q) : k \in Prefix(q[j])
    BY <1>0, <2>3 DEF Got
  <2>5. q[j].start <= k /\ k < EndOf(q[j])
    BY <1>0, <2>4, PrefixFacts
  <2>6. i = j
    <3>1. 0 \in Nat
      OBVIOUS
    <3>2. k \in Int
      BY <2>1
    <3> QED BY <2>1, <2>5, <3>1, <3>2, TilesDisjoint
  <2> QED BY <2>1, <2>4, <2>6
<1> QED BY <1>2, <1>4, <1>5, <1>6

(* The bytes the chunks received are the bytes of the file they have. *)
LEMMA SumFacts ==
    ASSUME NEW q, NEW b \in Nat, Tiles(q, 0, b)
    PROVE  SumReceived(q) = Cardinality(Got(q))
<1> DEFINE N == Len(q)
           step == [n \in 1 .. N |-> [x \in Nat |-> x + q[n].received]]
<1>1. /\ N \in Nat /\ DOMAIN q = 1 .. N
      /\ \A n \in 1 .. N : /\ q[n] \in ChunkRec /\ q[n].received \in Nat
                           /\ q[n].received <= q[n].size
                           /\ q[n].start \in Nat /\ EndOf(q[n]) \in Nat
  BY TilesType
<1>2. step \in Steps(N, Nat)
  BY <1>1 DEF Steps
<1>3. PICK h \in [0 .. N -> Nat] : IsRun(h, N, 0, step)
  <2>1. 0 \in Nat
    OBVIOUS
  <2> HIDE DEF step, N
  <2> QED BY <1>1, <1>2, <2>1, PlaceRecursion
<1>4. h = [n \in 0 .. N |-> IF n = 0 THEN 0 ELSE h[n - 1] + q[n].received]
  <2>1. ASSUME NEW n \in 1 .. N PROVE h[n - 1] \in Nat
    <3>1. n - 1 \in 0 .. N
      BY <1>1
    <3> QED BY <3>1
  <2>2. \A n \in 0 .. N : n # 0 => n \in 1 .. N
    BY <1>1
  <2>3. \A n \in 1 .. N : step[n][h[n - 1]] = h[n - 1] + q[n].received
    BY <2>1
  <2>4. h[0] = 0 /\ \A n \in 1 .. N : h[n] = step[n][h[n - 1]]
    BY <1>3 DEF IsRun
  <2> HIDE DEF step, N
  <2> QED BY <1>3, <2>2, <2>3, <2>4
<1> DEFINE g == CHOOSE g : g = [n \in 0 .. N |-> IF n = 0 THEN 0
                                               ELSE g[n - 1] + q[n].received]
<1>5. g = [n \in 0 .. N |-> IF n = 0 THEN 0 ELSE g[n - 1] + q[n].received]
  BY <1>4
<1>6. SumReceived(q) = g[N]
  BY DEF SumReceived
<1> HIDE DEF g, N, step
<1>7. g[0] = 0 /\ \A n \in 1 .. N : g[n] = g[n - 1] + q[n].received
  <2>1. \A n \in 0 .. N : g[n] = IF n = 0 THEN 0 ELSE g[n - 1] + q[n].received
    BY <1>5
  <2>2. 0 \in 0 .. N /\ \A n \in 1 .. N : n \in 0 .. N /\ n # 0
    BY <1>1
  <2> QED BY <2>1, <2>2
<1> DEFINE Had(n) == Held(FirstChunks(q, n))
           P == {n \in 0 .. N : IsFiniteSet(Had(n)) /\ Cardinality(Had(n)) = g[n]}
<1>8. 0 \in P
  <2>1. FirstChunks(q, 0) = {}
    BY DEF FirstChunks
  <2>2. Had(0) = {}
    BY <2>1 DEF Held
  <2>3. IsFiniteSet(Had(0)) /\ Cardinality(Had(0)) = g[0]
    <3> HIDE DEF Had
    <3> QED BY <1>7, <2>2, FS_EmptySet
  <2> HIDE DEF Had
  <2> QED BY <1>1, <2>3
<1>9. ASSUME NEW n \in 1 .. N, n - 1 \in P PROVE n \in P
  <2> DEFINE S == Had(n - 1)
             T == Prefix(q[n])
  <2>1. IsFiniteSet(S) /\ Cardinality(S) = g[n - 1]
    BY <1>9
  <2>2. IsFiniteSet(T) /\ Cardinality(T) = q[n].received
    BY <1>1, PrefixFacts
  <2>3. FirstChunks(q, n) = FirstChunks(q, n - 1) \cup {q[n]}
    <3>1. \A i : i \in 1 .. n <=> i \in 1 .. n - 1 \/ i = n
      BY <1>1
    <3> QED BY <3>1 DEF FirstChunks
  <2>4. Had(n) = S \cup T
    BY <2>3, HeldMore
  <2>5. S \cap T = {}
    <3> SUFFICES ASSUME NEW k \in S, k \in T PROVE FALSE
      OBVIOUS
    <3>1. PICK i \in 1 .. n - 1 : k \in Prefix(q[i])
      BY DEF Held, FirstChunks
    <3>2. i \in 1 .. N /\ i < n
      BY <1>1
    <3>3. k < EndOf(q[i]) /\ k \in Nat
      BY <1>1, <3>1, <3>2, PrefixFacts
    <3>4. q[n].start <= k
      BY <1>1, PrefixFacts
    <3>5. EndOf(q[i]) <= q[n].start
      <4>1. \A u, v \in 1 .. N : u < v => EndOf(q[u]) <= q[v].start
        <5>1. 0 \in Nat
          OBVIOUS
        <5> QED BY <5>1, TilesOrdered DEF N
      <4> QED BY <3>2, <4>1
    <3>6. EndOf(q[i]) \in Nat /\ q[n].start \in Nat
      BY <1>1, <3>2
    <3> QED BY <3>3, <3>4, <3>5, <3>6
  <2> HIDE DEF S, T, Had
  <2>6. IsFiniteSet(Had(n)) /\ Cardinality(Had(n)) = Cardinality(S) + Cardinality(T)
    BY <2>1, <2>2, <2>4, <2>5, DisjointUnion
  <2>7. Cardinality(Had(n)) = g[n]
    BY <1>7, <2>1, <2>2, <2>6
  <2> QED BY <1>1, <2>6, <2>7
<1> HIDE DEF P, Had
<1>10. \A n \in 0 .. N : n \in P
  BY <1>1, <1>8, <1>9, PlaceInduction
<1>11. Cardinality(Had(N)) = g[N]
  BY <1>1, <1>10 DEF P
<1>12. Had(N) = Got(q)
  <2>1. FirstChunks(q, N) = ToSet(q)
    BY <1>1 DEF FirstChunks, ToSet
  <2> QED BY <2>1, GotHeld DEF Had
<1> QED BY <1>6, <1>11, <1>12

-----------------------------------------------------------------------------
(* Steps on one chunk: taken off, handed over, grown, split                *)

(* The list with the connections in D taken off *)
Dropped(q, D) == [i \in DOMAIN q |->
    IF q[i].conn \in D THEN [q[i] EXCEPT !.conn = NoConn] ELSE q[i]]

(* Some chunk of the list is not complete *)
Missing(q) == \E i \in 1 .. Len(q) : ~IsComplete(q[i])

(* All of the file was received exactly when every chunk is complete. *)
LEMMA MissingFacts ==
    ASSUME NEW q, ChunkList(q)
    PROVE  Missing(q) <=> Got(q) # Blocks
<1>0. Tiles(q, 0, FileSize) /\ FileSize \in Nat /\ 0 \in Nat
  BY IfaceAssumption DEF ChunkList
<1>1. Got(q) = 0 .. FileSize - 1 => \A i \in 1 .. Len(q) : IsComplete(q[i])
  BY <1>0, GotBounds
<1>2. Got(q) \subseteq 0 .. FileSize - 1
  BY <1>0, GotBounds
<1>3. ASSUME \A i \in 1 .. Len(q) : IsComplete(q[i]), NEW k \in 0 .. FileSize - 1
      PROVE  k \in Got(q)
  <2>1. k \in Nat /\ 0 <= k /\ k < FileSize
    BY <1>0
  <2>2. PICK i \in 1 .. Len(q) : q[i].start <= k /\ k < EndOf(q[i])
    BY <1>0, <2>1, TilesCover
  <2>3. q[i] \in ChunkRec /\ q[i].received <= q[i].size /\ DOMAIN q = 1 .. Len(q)
    BY ChunkListFacts
  <2>4. IsComplete(q[i])
    BY <1>3
  <2>5. WritePos(q[i]) = EndOf(q[i])
    BY <2>4 DEF IsComplete, WritePos, EndOf
  <2>6. k \in Prefix(q[i])
    BY <2>1, <2>2, <2>3, <2>5, PrefixFacts
  <2> QED BY <2>3, <2>6 DEF Got
<1> QED BY <1>1, <1>2, <1>3 DEF Missing, Blocks

(* Taking connections off chunks changes neither the ranges nor what was *)
(* received.                                                             *)
LEMMA DroppedFacts ==
    ASSUME NEW q, ChunkList(q), NEW D, NoConn \notin D
    PROVE  LET r == Dropped(q, D) IN
           /\ ChunkList(r) /\ (Solid(q) => Solid(r)) /\ Got(r) = Got(q)
           /\ Working(ToSet(r)) = {x \in Working(ToSet(q)) : x.conn \notin D}
           /\ Len(r) = Len(q) /\ (Missing(q) => Missing(r))
<1> DEFINE r == Dropped(q, D)
<1>1. /\ Len(q) \in Nat /\ DOMAIN q = 1 .. Len(q) /\ q \in Seq(ChunkRec)
      /\ \A i \in 1 .. Len(q) : q[i] \in ChunkRec
  BY ChunkListFacts
<1>2. ASSUME NEW i \in 1 .. Len(q)
      PROVE  /\ r[i] \in ChunkRec /\ r[i].start = q[i].start /\ r[i].size = q[i].size
             /\ r[i].received = q[i].received
             /\ q[i].conn \in D => r[i].conn = NoConn
             /\ q[i].conn \notin D => r[i] = q[i]
  <2>1. r[i] = IF q[i].conn \in D THEN [q[i] EXCEPT !.conn = NoConn] ELSE q[i]
    BY <1>1 DEF Dropped
  <2>2. q[i] \in ChunkRec
    BY <1>1
  <2> HIDE DEF r
  <2> QED BY <2>1, <2>2 DEF ChunkRec
<1>3. r \in Seq(ChunkRec) /\ Len(r) = Len(q) /\ DOMAIN r = 1 .. Len(q)
  <2>1. DOMAIN r = 1 .. Len(q)
    BY <1>1 DEF Dropped
  <2>2. r = [i \in 1 .. Len(q) |-> r[i]]
    BY <1>1 DEF Dropped
  <2> HIDE DEF r
  <2>3. r \in Seq(ChunkRec)
    BY <1>1, <1>2, <2>2
  <2> QED BY <1>1, <2>1, <2>3
<1> HIDE DEF r
<1>4. Tiles(r, 0, FileSize)
  <2>1. Tiles(q, 0, FileSize)
    BY DEF ChunkList
  <2> QED BY <1>2, <1>3, <2>1, SameTiles
<1>5. Solid(q) => Solid(r)
  BY <1>2, <1>3 DEF Solid
<1>6. ASSUME Loaded(q) PROVE Loaded(r)
  <2>1. \A i \in 1 .. Len(q) - 1 : i \in 1 .. Len(q)
    BY <1>1
  <2>2. \A i \in 1 .. Len(r) - 1 : r[i].size > 0
    BY <1>2, <1>3, <1>6, <2>1 DEF Loaded
  <2>3. \A i \in 1 .. Len(r) : r[i] = q[i]
    BY <1>2, <1>3, <1>6 DEF Loaded
  <2> QED BY <1>3, <1>6, <2>2, <2>3 DEF Loaded
<1>7. ChunkList(r)
  <2>1. FineList(q)
    BY DEF ChunkList
  <2>2. FineList(r)
    BY <1>2, <1>3, <2>1 DEF FineList, Fine
  <2> QED BY <1>4, <1>5, <1>6, <2>2 DEF ChunkList
<1>8. Got(r) = Got(q)
  BY <1>1, <1>2, <1>3 DEF Got, Prefix
<1>9. Missing(q) => Missing(r)
  BY <1>2, <1>3 DEF Missing, IsComplete
<1>10. Working(ToSet(r)) = {x \in Working(ToSet(q)) : x.conn \notin D}
  <2>1. ASSUME NEW x \in Working(ToSet(r))
        PROVE  x \in Working(ToSet(q)) /\ x.conn \notin D
    <3>1. PICK i \in 1 .. Len(q) : x = r[i]
      BY <1>3 DEF Working, ToSet
    <3>2. x.conn # NoConn
      BY DEF Working
    <3>3. q[i].conn \notin D /\ x = q[i]
      BY <1>2, <3>1, <3>2
    <3> QED BY <1>1, <3>2, <3>3 DEF Working, ToSet
  <2>2. ASSUME NEW x \in Working(ToSet(q)), x.conn \notin D
        PROVE  x \in Working(ToSet(r))
    <3>1. PICK i \in 1 .. Len(q) : x = q[i]
      BY <1>1 DEF Working, ToSet
    <3>2. x = r[i] /\ i \in DOMAIN r
      BY <1>2, <1>3, <2>2, <3>1
    <3>3. x \in ToSet(r)
      BY <3>2 DEF ToSet
    <3> QED BY <3>3 DEF Working
  <2> QED BY <2>1, <2>2
<1> QED BY <1>3, <1>5, <1>7, <1>8, <1>9, <1>10 DEF r

(* The list with chunk y in the place of chunk i *)
Put(q, i, y) == [q EXCEPT ![i] = y]

(* r is q with chunk i replaced by y, which has the same range *)
Updated(q, i, y, r) ==
    /\ ChunkList(r) /\ Solid(r) /\ Len(r) = Len(q) /\ DOMAIN r = 1 .. Len(q)
    /\ \A j \in 1 .. Len(q) : r[j] = IF j = i THEN y ELSE q[j]
    /\ \A x : x \in Working(ToSet(r)) <=> (x \in Working(ToSet(q)) /\ x # q[i])
                                        \/ (x = y /\ y.conn # NoConn)
    /\ \A k : k \in Got(r) <=> k \in Prefix(y) \/ \E j \in 1 .. Len(q) : j # i /\ k \in Prefix(q[j])

(* Replacing a chunk by one of the same range gives a chunk list again, *)
(* with the working chunks and the blocks one expects.                  *)
LEMMA UpdateFacts ==
    ASSUME NEW q, ChunkList(q), Solid(q), NEW i \in 1 .. Len(q), NEW y \in ChunkRec,
           y.start = q[i].start, y.size = q[i].size, y.received <= y.size,
           q[i].received <= y.received, NEW r, r = Put(q, i, y)
    PROVE  Updated(q, i, y, r)
<1>1. /\ Len(q) \in Nat /\ DOMAIN q = 1 .. Len(q) /\ q \in Seq(ChunkRec)
      /\ \A j \in 1 .. Len(q) : q[j] \in ChunkRec /\ q[j].received <= q[j].size
  BY ChunkListFacts
<1>2. /\ r \in Seq(ChunkRec) /\ Len(r) = Len(q) /\ DOMAIN r = 1 .. Len(q)
      /\ \A j \in 1 .. Len(q) : r[j] = IF j = i THEN y ELSE q[j]
  BY <1>1 DEF Put
<1>3. Tiles(r, 0, FileSize)
  <2>1. Tiles(q, 0, FileSize)
    BY DEF ChunkList
  <2>2. \A j \in 1 .. Len(q) : EndOf(r[j]) = EndOf(q[j])
    BY <1>2 DEF EndOf
  <2>3. q # <<>> /\ Len(q) >= 1 /\ r # <<>> /\ 1 \in 1 .. Len(q) /\ Len(q) \in 1 .. Len(q)
    BY <1>1, <1>2
  <2>4. r[1].start = 0 /\ EndOf(r[Len(r)]) = FileSize
    BY <1>2, <2>1, <2>2, <2>3 DEF Tiles
  <2>5. ASSUME NEW j \in 1 .. Len(r) - 1 PROVE EndOf(r[j]) = r[j + 1].start
    <3>1. j \in 1 .. Len(q) - 1 /\ j \in 1 .. Len(q) /\ j + 1 \in 1 .. Len(q)
      BY <1>1, <1>2
    <3>2. EndOf(q[j]) = q[j + 1].start /\ r[j + 1].start = q[j + 1].start
      BY <1>2, <2>1, <3>1 DEF Tiles
    <3> QED BY <2>2, <3>1, <3>2
  <2>6. \A j \in 1 .. Len(r) : r[j].received <= r[j].size
    BY <1>1, <1>2
  <2> QED BY <1>2, <2>3, <2>4, <2>5, <2>6 DEF Tiles
<1>4. Solid(r)
  BY <1>2 DEF Solid
<1>5. ChunkList(r)
  <2>1. FineList(q)
    BY DEF ChunkList
  <2>2. Fine(y)
    <3> SUFFICES ASSUME y.start = 0, FileSize >= 2
                 PROVE  y.size >= 2 \/ (y.size = 1 /\ y.received = 1)
      BY DEF Fine
    <3>1. q[i].size >= 2 \/ (q[i].size = 1 /\ q[i].received = 1)
      BY <2>1 DEF FineList, Fine
    <3>2. y.size \in Nat /\ y.received \in Nat /\ q[i].received \in Nat
      BY <1>1 DEF ChunkRec
    <3> QED BY <3>1, <3>2
  <2>3. FineList(r)
    BY <1>2, <2>1, <2>2 DEF FineList
  <2> QED BY <1>3, <1>4, <2>3 DEF ChunkList
<1>6. \A j \in 1 .. Len(q) : q[j] = q[i] => j = i
  <2>1. 0 \in Nat /\ FileSize \in Nat /\ Tiles(q, 0, FileSize)
    BY IfaceAssumption DEF ChunkList
  <2>2. \A j \in 1 .. Len(q) - 1 : q[j].size > 0
    BY <1>1 DEF Solid
  <2> QED BY <2>1, <2>2, TilesDistinct
<1>7. \A x : x \in Working(ToSet(r)) <=> (x \in Working(ToSet(q)) /\ x # q[i])
                                               \/ (x = y /\ y.conn # NoConn)
  <2>1. \A x : x \in ToSet(r) <=> x = y \/ \E j \in 1 .. Len(q) : j # i /\ x = q[j]
    BY <1>2 DEF ToSet
  <2>2. \A x : x \in ToSet(q) <=> \E j \in 1 .. Len(q) : x = q[j]
    BY <1>1 DEF ToSet
  <2> QED BY <1>6, <2>1, <2>2 DEF Working
<1>8. \A k : k \in Got(r) <=> k \in Prefix(y) \/ \E j \in 1 .. Len(q) : j # i /\ k \in Prefix(q[j])
  <2>1. \A x : x \in Got(r) <=> \E j \in 1 .. Len(q) : x \in Prefix(r[j])
    BY <1>2 DEF Got
  <2> QED BY <1>2, <2>1
<1> QED BY <1>2, <1>4, <1>5, <1>7, <1>8 DEF Updated

(* A chunk that is given to connection c, or has w blocks more *)
Given(x, c) == [x EXCEPT !.conn = c]
Grown(x, w) == [x EXCEPT !.received = @ + w]

(* List r is list q with chunk i given to connection c. *)
Handed(q, i, c, r) ==
    /\ ChunkList(r) /\ Solid(r) /\ Len(r) = Len(q)
    /\ \A j \in 1 .. Len(q) : r[j] = IF j = i THEN Given(q[i], c) ELSE q[j]
    /\ \A x : x \in Working(ToSet(r)) <=>
               (x \in Working(ToSet(q)) /\ x # q[i]) \/ x = Given(q[i], c)
    /\ Got(r) = Got(q)

(* A chunk gets another connection. *)
LEMMA AssignFacts ==
    ASSUME NEW q, ChunkList(q), Solid(q), NEW i \in 1 .. Len(q), NEW c \in Conns
    PROVE  Handed(q, i, c, Put(q, i, Given(q[i], c)))
<1> DEFINE y == Given(q[i], c)
           r == Put(q, i, y)
<1>1. /\ q[i] \in ChunkRec /\ q[i].received <= q[i].size /\ DOMAIN q = 1 .. Len(q)
      /\ q \in Seq(ChunkRec) /\ Len(q) \in Nat
  BY ChunkListFacts
<1>2. y \in ChunkRec /\ y.start = q[i].start /\ y.size = q[i].size
      /\ y.received = q[i].received /\ y.conn = c
  BY <1>1 DEF ChunkRec, Given
<1>3. r = Put(q, i, y)
  OBVIOUS
<1> HIDE DEF y, r
<1>4. /\ ChunkList(r) /\ Solid(r) /\ Len(r) = Len(q) /\ DOMAIN r = 1 .. Len(q)
      /\ \A j \in 1 .. Len(q) : r[j] = IF j = i THEN y ELSE q[j]
      /\ \A x : x \in Working(ToSet(r)) <=> (x \in Working(ToSet(q)) /\ x # q[i])
                                               \/ (x = y /\ y.conn # NoConn)
      /\ \A k : k \in Got(r) <=> k \in Prefix(y) \/ \E j \in 1 .. Len(q) : j # i /\ k \in Prefix(q[j])
  <2>1. y.received <= y.size /\ q[i].received <= y.received
    <3>1. q[i].received \in Nat
      BY <1>1 DEF ChunkRec
    <3> QED BY <1>1, <1>2, <3>1
  <2>2. Updated(q, i, y, Put(q, i, y))
    BY <1>2, <2>1, UpdateFacts
  <2>3. Updated(q, i, y, r)
    BY <1>3, <2>2
  <2> QED BY <2>3 DEF Updated
<1>5. y.conn # NoConn
  BY <1>2, DownloadAssumption
<1>6. Prefix(y) = Prefix(q[i])
  BY <1>2 DEF Prefix
<1>7. Got(r) = Got(q)
  <2>1. \A k : k \in Got(q) <=> \E j \in 1 .. Len(q) : k \in Prefix(q[j])
    BY <1>1 DEF Got
  <2> QED BY <1>4, <1>6, <2>1
<1>8. \A x : x \in Working(ToSet(r)) <=> (x \in Working(ToSet(q)) /\ x # q[i]) \/ x = y
  BY <1>4, <1>5
<1> QED BY <1>4, <1>7, <1>8 DEF Handed, y, r

(* List r is list q with w blocks more in chunk i. *)
Filled(q, i, w, r) ==
    LET new == WritePos(q[i]) .. WritePos(q[i]) + w - 1
    IN  /\ ChunkList(r) /\ Solid(r)
        /\ \A x : x \in Working(ToSet(r)) <=>
                   (x \in Working(ToSet(q)) /\ x # q[i])
                      \/ (x = Grown(q[i], w) /\ q[i].conn # NoConn)
        /\ Got(r) = Got(q) \cup new /\ new \subseteq Blocks
        /\ Cardinality(Got(r)) = Cardinality(Got(q)) + w
        /\ Cardinality(Got(r)) \in 0 .. FileSize

(* A chunk receives w more blocks. *)
LEMMA StoreFacts ==
    ASSUME NEW q, ChunkList(q), Solid(q), NEW i \in 1 .. Len(q),
           NEW w \in Nat, w <= Remaining(q[i])
    PROVE  Filled(q, i, w, Put(q, i, Grown(q[i], w)))
<1> DEFINE y == Grown(q[i], w)
           p == WritePos(q[i])
           r == Put(q, i, y)
           new == p .. p + w - 1
<1>1. /\ q[i] \in ChunkRec /\ q[i].received <= q[i].size /\ DOMAIN q = 1 .. Len(q)
      /\ q[i].start \in Nat /\ q[i].size \in Nat /\ q[i].received \in Nat
      /\ EndOf(q[i]) \in Nat /\ EndOf(q[i]) = q[i].start + q[i].size
      /\ q \in Seq(ChunkRec) /\ Len(q) \in Nat
      /\ \A j \in 1 .. Len(q) : q[j] \in ChunkRec /\ q[j].received <= q[j].size
  BY ChunkListFacts
<1>0. 0 \in Nat /\ FileSize \in Nat /\ Tiles(q, 0, FileSize)
  BY IfaceAssumption DEF ChunkList
<1>2. /\ y \in ChunkRec /\ y.start = q[i].start /\ y.size = q[i].size
      /\ y.received = q[i].received + w /\ y.conn = q[i].conn
  <2>1. q[i].received + w \in Nat
    BY <1>1
  <2> QED BY <1>1, <2>1 DEF ChunkRec, Grown
<1>3. r = Put(q, i, y)
  OBVIOUS
<1> HIDE DEF y, r, new
<1>4. y.received <= y.size
  <2>1. w <= q[i].size - q[i].received
    BY DEF Remaining
  <2> QED BY <1>1, <1>2, <2>1
<1>5. /\ ChunkList(r) /\ Solid(r) /\ Len(r) = Len(q) /\ DOMAIN r = 1 .. Len(q)
      /\ \A j \in 1 .. Len(q) : r[j] = IF j = i THEN y ELSE q[j]
      /\ \A x : x \in Working(ToSet(r)) <=> (x \in Working(ToSet(q)) /\ x # q[i])
                                               \/ (x = y /\ y.conn # NoConn)
      /\ \A k : k \in Got(r) <=> k \in Prefix(y) \/ \E j \in 1 .. Len(q) : j # i /\ k \in Prefix(q[j])
  <2>1. q[i].received <= y.received
    BY <1>1, <1>2
  <2>2. Updated(q, i, y, Put(q, i, y))
    BY <1>2, <1>4, <2>1, UpdateFacts
  <2>3. Updated(q, i, y, r)
    BY <1>3, <2>2
  <2> QED BY <2>3 DEF Updated
<1>6. p \in Nat /\ p + w \in Nat /\ p + w <= EndOf(q[i]) /\ q[i].start <= p
      /\ WritePos(y) = p + w /\ EndOf(q[i]) <= FileSize
  <2>1. p = q[i].start + q[i].received /\ WritePos(y) = y.start + y.received
        /\ Remaining(q[i]) = q[i].size - q[i].received
    BY DEF WritePos, Remaining
  <2>2. EndOf(q[i]) <= FileSize
    BY <1>0, TilesOrdered
  <2> HIDE DEF p
  <2>3. p \in Nat /\ p + w \in Nat /\ q[i].start <= p
    <3>1. q[i].start \in Nat /\ q[i].received \in Nat
      BY <1>1
    <3>2. \A j, k \in Nat : j + k \in Nat /\ j <= j + k
      OBVIOUS
    <3> QED BY <2>1, <3>1, <3>2
  <2>4. w <= q[i].size - q[i].received
    BY <2>1
  <2>5. p + w <= q[i].start + q[i].size
    <3>1. /\ q[i].start \in Nat /\ q[i].received \in Nat /\ q[i].size \in Nat
          /\ p = q[i].start + q[i].received
      BY <1>1, <2>1
    <3> QED BY <2>4, <3>1
  <2>6. y.start + y.received = p + w
    BY <1>1, <1>2, <2>1
  <2> QED BY <1>1, <2>1, <2>2, <2>3, <2>5, <2>6
<1>7. \A k : k \in new <=> k \in Nat /\ p <= k /\ k < p + w
  <2>1. \A a \in Nat : \A k : k \in a .. a + w - 1 <=> k \in Nat /\ a <= k /\ k < a + w
    OBVIOUS
  <2>2. new = p .. p + w - 1
    BY DEF new
  <2> HIDE DEF p
  <2> QED BY <1>6, <2>1, <2>2
<1>8. Prefix(y) = Prefix(q[i]) \cup new
  <2>1. \A k : k \in Prefix(y) <=> k \in Nat /\ q[i].start <= k /\ k < p + w
    BY <1>2, <1>4, <1>6, PrefixFacts
  <2>2. \A k : k \in Prefix(q[i]) <=> k \in Nat /\ q[i].start <= k /\ k < p
    BY <1>1, PrefixFacts
  <2> HIDE DEF p
  <2> QED BY <1>1, <1>6, <1>7, <2>1, <2>2
<1>9. Got(r) = Got(q) \cup new
  <2>1. \A k : k \in Got(q) <=> \E j \in 1 .. Len(q) : k \in Prefix(q[j])
    BY <1>1 DEF Got
  <2> HIDE DEF p
  <2> QED BY <1>5, <1>8, <2>1
<1>10. new \subseteq Blocks
  <2> HIDE DEF p
  <2> QED BY <1>0, <1>1, <1>6, <1>7 DEF Blocks
<1>11. Got(q) \cap new = {}
  <2> SUFFICES ASSUME NEW k \in Got(q), k \in new PROVE FALSE
    OBVIOUS
  <2>1. PICK j \in 1 .. Len(q) : k \in Prefix(q[j])
    BY <1>1 DEF Got
  <2>2. k \in Nat /\ q[j].start <= k /\ k < EndOf(q[j]) /\ k < WritePos(q[j])
    BY <1>1, <2>1, PrefixFacts
  <2>3. p <= k /\ k < p + w
    BY <1>7
  <2>4. q[i].start <= k /\ k < EndOf(q[i]) /\ k \in Int
    <3> HIDE DEF p
    <3> QED BY <1>1, <1>6, <2>2, <2>3
  <2>5. i = j
    BY <1>0, <2>2, <2>4, TilesDisjoint
  <2>6. k < p
    BY <2>2, <2>5
  <2> HIDE DEF p
  <2> QED BY <1>6, <2>2, <2>3, <2>6
<1>12. IsFiniteSet(new) /\ Cardinality(new) = w
  <2> DEFINE e == p + w - 1
  <2> HIDE DEF p
  <2>1. p \in Int /\ e \in Int /\ e - p + 1 = w /\ (p > e => w = 0)
    BY <1>6
  <2>2. new = p .. e
    BY DEF new
  <2> HIDE DEF e
  <2>3. IsFiniteSet(p .. e) /\ Cardinality(p .. e) = IF p > e THEN 0 ELSE e - p + 1
    BY <2>1, FS_Interval
  <2> QED BY <2>1, <2>2, <2>3
<1>13. IsFiniteSet(Got(q)) /\ Cardinality(Got(q)) \in Nat
  BY <1>0, GotBounds
<1>14. Cardinality(Got(r)) = Cardinality(Got(q)) + w
  BY <1>9, <1>11, <1>12, <1>13, DisjointUnion
<1>15. Cardinality(Got(r)) \in Nat /\ Cardinality(Got(r)) <= FileSize
  <2>1. Tiles(r, 0, FileSize)
    BY <1>5 DEF ChunkList
  <2> QED BY <1>0, <2>1, GotBounds
<1>16. \A x : x \in Working(ToSet(r)) <=>
            (x \in Working(ToSet(q)) /\ x # q[i]) \/ (x = y /\ q[i].conn # NoConn)
  BY <1>2, <1>5
<1>17. Cardinality(Got(r)) \in 0 .. FileSize
  BY <1>0, <1>15
<1> QED BY <1>5, <1>9, <1>10, <1>14, <1>16, <1>17 DEF Filled, y, r, new

(* No two chunks of a chunk list are equal. *)
LEMMA ChunkListDistinct ==
    ASSUME NEW q, ChunkList(q), NEW i \in 1 .. Len(q), NEW j \in 1 .. Len(q), q[i] = q[j]
    PROVE  i = j
<1>1. 0 \in Nat /\ FileSize \in Nat /\ Tiles(q, 0, FileSize) /\ Len(q) \in Nat
  BY IfaceAssumption, ChunkListFacts DEF ChunkList
<1>2. \A k \in 1 .. Len(q) - 1 : q[k].size > 0
  BY <1>1 DEF ChunkList, Solid, Loaded
<1> QED BY <1>1, <1>2, TilesDistinct

(* What the second half of a chunk and the rest of it are *)
LEMMA SecondHalfFacts ==
    ASSUME NEW ch \in ChunkRec, ch.received <= ch.size, Remaining(ch) >= 3, NEW c \in Conns
    PROVE  LET new == SecondHalf(ch, c)
               old == [ch EXCEPT !.size = @ - new.size]
           IN  /\ new \in ChunkRec /\ new.conn = c /\ new.received = 0 /\ new.size > 0
               /\ new.start \in Nat /\ new.size \in Nat
               /\ EndOf(new) = EndOf(ch) /\ new.start + new.size = EndOf(ch)
               /\ old \in ChunkRec /\ old.start = ch.start /\ old.conn = ch.conn
               /\ old.received = ch.received /\ old.received <= old.size
               /\ old.size >= 2 /\ new.start > 0 /\ EndOf(old) = new.start
               /\ ~IsComplete(new) /\ ~IsComplete(old)
               /\ Prefix(new) = {} /\ Prefix(old) = Prefix(ch)
               /\ WritePos(old) = WritePos(ch) /\ EndOf(old) \in Nat
               /\ EndOf(old) <= EndOf(ch)
<1> DEFINE n == Remaining(ch) \div 2
           a == EndOf(ch) - n
           new == SecondHalf(ch, c)
           old == [ch EXCEPT !.size = @ - new.size]
<1>1. ch.start \in Nat /\ ch.size \in Nat /\ ch.received \in Nat
  BY DEF ChunkRec
<1>2. Remaining(ch) \in Nat /\ Remaining(ch) = ch.size - ch.received
  BY <1>1 DEF Remaining
<1>3. n \in Nat /\ n >= 1 /\ n + 2 <= Remaining(ch)
  BY <1>2
<1>4. EndOf(ch) = ch.start + ch.size
  BY DEF EndOf
<1> HIDE DEF n
<1>5. a \in Nat /\ a + n = EndOf(ch) /\ ch.start + ch.received < a
  BY <1>1, <1>2, <1>3, <1>4
<1>6. new = [Chunk(a, n, 0) EXCEPT !.conn = c]
  BY DEF SecondHalf, n
<1> HIDE DEF a
<1>7. new \in ChunkRec /\ new.conn = c /\ new.received = 0 /\ new.size = n /\ new.start = a
  <2> HIDE DEF new
  <2> QED BY <1>3, <1>5, <1>6 DEF Chunk, ChunkRec
<1> HIDE DEF new
<1>8. ch.size - n \in Nat /\ ch.received < ch.size - n
  BY <1>1, <1>2, <1>3
<1>9. /\ old \in ChunkRec /\ old.start = ch.start /\ old.conn = ch.conn
      /\ old.received = ch.received /\ old.size = ch.size - n
  BY <1>7, <1>8 DEF ChunkRec
<1> HIDE DEF old
<1>10. EndOf(new) = EndOf(ch) /\ new.start + new.size = EndOf(ch)
  BY <1>5, <1>7 DEF EndOf
<1>11. EndOf(old) = new.start /\ EndOf(old) \in Nat /\ EndOf(old) <= EndOf(ch)
  <2>1. EndOf(old) = ch.start + (ch.size - n)
    BY <1>9 DEF EndOf
  <2>2. ch.start + (ch.size - n) = a
    BY <1>1, <1>3, <1>4, <1>5
  <2>3. a <= EndOf(ch)
    BY <1>1, <1>3, <1>4, <1>5
  <2> QED BY <1>5, <1>7, <2>1, <2>2, <2>3
<1>12. ~IsComplete(new) /\ ~IsComplete(old)
  BY <1>1, <1>3, <1>7, <1>8, <1>9 DEF IsComplete
<1>13. Prefix(old) = Prefix(ch) /\ WritePos(old) = WritePos(ch)
  BY <1>9 DEF Prefix, WritePos
<1>14. Prefix(new) = {}
  <2>1. WritePos(new) = new.start
    BY <1>5, <1>7 DEF WritePos
  <2>2. new.received <= new.size
    BY <1>3, <1>7
  <2>3. \A k : k \in Prefix(new) <=> k \in Nat /\ new.start <= k /\ k < WritePos(new)
    BY <1>7, <2>2, PrefixFacts
  <2> QED BY <1>5, <1>7, <2>1, <2>3
<1>15. old.received <= old.size /\ old.size >= 2 /\ new.size > 0 /\ new.start > 0
  <2>1. ch.size - n >= 2
    BY <1>1, <1>2, <1>3
  <2> QED BY <1>1, <1>3, <1>5, <1>7, <1>8, <1>9, <2>1
<1> QED BY <1>3, <1>5, <1>7, <1>9, <1>10, <1>11, <1>12, <1>13, <1>14, <1>15 DEF old, new

(* What a list is after a member was appended *)
LEMMA AppendFacts ==
    ASSUME NEW S, NEW p \in Seq(S), NEW y \in S, NEW r, r = Append(p, y)
    PROVE  /\ r \in Seq(S) /\ Len(r) = Len(p) + 1
           /\ \A i \in 1 .. Len(p) + 1 : r[i] = IF i = Len(p) + 1 THEN y ELSE p[i]
OBVIOUS

(* A second member *)
LEMMA AppendSecond ==
    ASSUME NEW S, NEW p \in Seq(S), NEW y \in S, NEW r, r = Append(p, y), Len(p) = 1
    PROVE  r \in Seq(S) /\ Len(r) = 2 /\ r[1] = p[1] /\ r[2] = y
<1>1. /\ r \in Seq(S) /\ Len(r) = Len(p) + 1
      /\ \A i \in 1 .. Len(p) + 1 : r[i] = IF i = Len(p) + 1 THEN y ELSE p[i]
  BY AppendFacts
<1> QED BY <1>1

(* Two chunks that meet tile their common range. *)
LEMMA PairTiles ==
    ASSUME NEW x \in ChunkRec, x.received <= x.size,
           NEW y \in ChunkRec, y.received <= y.size, y.start = EndOf(x)
    PROVE  Tiles(<<x, y>>, x.start, EndOf(y)) /\ ToSet(<<x, y>>) = {x, y}
<1> DEFINE p == <<x>>
<1>1. Tiles(p, x.start, EndOf(x)) /\ ToSet(p) = {x}
  BY SingleTiles
<1>2. Append(p, y) = <<x, y>>
  <2> DEFINE r == <<x, y>>
             s == Append(p, y)
  <2>1. r \in Seq(ChunkRec) /\ Len(r) = 2 /\ r[1] = x /\ r[2] = y
    OBVIOUS
  <2>2. s \in Seq(ChunkRec) /\ Len(s) = 2 /\ s[1] = x /\ s[2] = y
    <3>1. p \in Seq(ChunkRec) /\ Len(p) = 1 /\ p[1] = x
      OBVIOUS
    <3>2. s = Append(p, y)
      OBVIOUS
    <3> HIDE DEF p, s
    <3>3. s \in Seq(ChunkRec) /\ Len(s) = 2 /\ s[1] = p[1] /\ s[2] = y
      BY <3>1, <3>2, AppendSecond
    <3> QED BY <3>1, <3>3
  <2> HIDE DEF r, s
  <2>3. \A i \in 1 .. 2 : s[i] = r[i]
    BY <2>1, <2>2
  <2>4. s = r
    BY <2>1, <2>2, <2>3, SeqEqual
  <2> QED BY <2>4 DEF r, s
<1> HIDE DEF p
<1>3. Tiles(Append(p, y), x.start, EndOf(y)) /\ ToSet(Append(p, y)) = ToSet(p) \cup {y}
  BY <1>1, TilesAppend
<1> QED BY <1>1, <1>2, <1>3

(* What chunk x keeps when n blocks at its end become a chunk of their own *)
Shortened(x, n) == [x EXCEPT !.size = @ - n]

(* List r is q with the second half of chunk i given to connection c. *)
Halved(q, i, c, r) ==
    LET new == SecondHalf(q[i], c)
        old == Shortened(q[i], new.size)
    IN  /\ ChunkList(r) /\ Solid(r) /\ Got(r) = Got(q) /\ Missing(r)
        /\ \A x : x \in ToSet(r) <=> (x \in ToSet(q) /\ x # q[i]) \/ x = old \/ x = new

(* A chunk is split for connection c. *)
LEMMA SplitFacts ==
    ASSUME NEW q, ChunkList(q), Solid(q), NEW i \in 1 .. Len(q), Remaining(q[i]) >= 3,
           NEW c \in Conns
    PROVE  Halved(q, i, c, Splice(q, i, <<Shortened(q[i], SecondHalf(q[i], c).size),
                                          SecondHalf(q[i], c)>>))
<1> DEFINE new == SecondHalf(q[i], c)
           old == Shortened(q[i], new.size)
           r == Splice(q, i, <<old, new>>)
<1>1. /\ q[i] \in ChunkRec /\ q[i].received <= q[i].size /\ DOMAIN q = 1 .. Len(q)
      /\ q \in Seq(ChunkRec) /\ Len(q) \in Nat
  BY ChunkListFacts
<1>2. /\ new \in ChunkRec /\ new.received = 0 /\ new.size > 0 /\ new.size \in Nat
      /\ EndOf(new) = EndOf(q[i])
      /\ old \in ChunkRec /\ old.start = q[i].start
      /\ old.received <= old.size /\ old.size > 0 /\ EndOf(old) = new.start
      /\ old.size >= 2 /\ new.start > 0
      /\ ~IsComplete(new) /\ Prefix(new) = {} /\ Prefix(old) = Prefix(q[i])
  <2>1. old = [q[i] EXCEPT !.size = @ - new.size]
    BY DEF Shortened
  <2> HIDE DEF old
  <2>2. /\ new \in ChunkRec /\ new.received = 0 /\ new.size > 0 /\ new.size \in Nat
        /\ EndOf(new) = EndOf(q[i])
        /\ old \in ChunkRec /\ old.start = q[i].start
        /\ old.received <= old.size /\ EndOf(old) = new.start
        /\ old.size >= 2 /\ new.start > 0
        /\ ~IsComplete(new) /\ Prefix(new) = {} /\ Prefix(old) = Prefix(q[i])
    BY <1>1, <2>1, SecondHalfFacts
  <2> HIDE DEF new
  <2>3. old.size \in Nat
    BY <2>2 DEF ChunkRec
  <2>4. old.size > 0
    BY <2>2, <2>3
  <2> QED BY <2>2, <2>4
<1> DEFINE p == <<old, new>>
<1>3. Tiles(p, q[i].start, EndOf(q[i])) /\ ToSet(p) = {old, new}
  <2>1. new.received <= new.size
    BY <1>2
  <2>2. Tiles(p, old.start, EndOf(new)) /\ ToSet(p) = {old, new}
    BY <1>2, <2>1, PairTiles
  <2> QED BY <1>2, <2>2
<1>4. r = Splice(q, i, p)
  OBVIOUS
<1> HIDE DEF p, r, old, new
<1>5. /\ Tiles(r, 0, FileSize)
      /\ ToSet(r) = {q[j] : j \in 1 .. Len(q) \ {i}} \cup ToSet(p)
  <2>1. Tiles(q, 0, FileSize)
    BY DEF ChunkList
  <2>2. /\ Tiles(Splice(q, i, p), 0, FileSize)
        /\ ToSet(Splice(q, i, p)) = {q[j] : j \in 1 .. Len(q) \ {i}} \cup ToSet(p)
    BY <1>3, <2>1, SpliceFacts
  <2> QED BY <1>4, <2>2
<1>6. \A x : x \in ToSet(r) <=> (x \in ToSet(q) /\ x # q[i]) \/ x = old \/ x = new
  <2>1. \A j \in 1 .. Len(q) : j # i => q[j] # q[i]
    BY ChunkListDistinct
  <2>2. \A x : x \in ToSet(q) <=> \E j \in 1 .. Len(q) : x = q[j]
    BY <1>1 DEF ToSet
  <2>3. \A x : x \in ToSet(r) <=> (\E j \in 1 .. Len(q) : j # i /\ x = q[j])
                                      \/ x = old \/ x = new
    BY <1>3, <1>5
  <2> QED BY <2>1, <2>2, <2>3
<1>7. DOMAIN r = 1 .. Len(r)
  BY <1>5, TilesType
<1>8. \A x : x \in ToSet(r) <=> \E j \in 1 .. Len(r) : x = r[j]
  BY <1>7 DEF ToSet
<1>9. Solid(r)
  <2>1. \A x \in ToSet(q) : x.size > 0
    BY <1>1 DEF Solid, ToSet
  <2>2. \A x \in ToSet(r) : x.size > 0
    BY <1>2, <1>6, <2>1
  <2> QED BY <1>8, <2>2 DEF Solid
<1>10. ChunkList(r)
  <2>1. Fine(old) /\ Fine(new)
    BY <1>2 DEF Fine
  <2>2. \A x \in ToSet(q) : Fine(x)
    BY <1>1 DEF ChunkList, FineList, ToSet
  <2>3. FineList(r)
    BY <1>6, <1>8, <2>1, <2>2 DEF FineList
  <2> QED BY <1>5, <1>9, <2>3 DEF ChunkList
<1>11. Missing(r)
  <2>1. new \in ToSet(r)
    BY <1>6
  <2> QED BY <1>2, <1>8, <2>1 DEF Missing
<1>12. Got(r) = Got(q)
  <2>1. \A k : k \in Got(q) <=> \E x \in ToSet(q) : k \in Prefix(x)
    BY DEF Got, ToSet
  <2>2. \A k : k \in Got(r) <=> \E x \in ToSet(r) : k \in Prefix(x)
    BY DEF Got, ToSet
  <2>3. q[i] \in ToSet(q)
    BY <1>1 DEF ToSet
  <2> QED BY <1>2, <1>6, <2>1, <2>2, <2>3
<1> QED BY <1>6, <1>9, <1>10, <1>11, <1>12 DEF Halved, r, old, new

-----------------------------------------------------------------------------
(* The ranges of the state file: written and read back                     *)

(* A range of blocks, as bytes, and the blocks of a range of bytes *)
BlockRange(a, e) == <<a * Unit, e * Unit - 1>>
(* The first block of a range of the state file, and the block behind it *)
FirstOf(r) == r[1] \div Unit
BehindOf(r) == (r[2] + 1) \div Unit

(* The blocks a missing part may have, and a range the program writes *)
MissingPart(a, e) == a < e /\ e <= FileSize /\ (a = 0 /\ FileSize >= 2 => e >= 2)
IsRange(r) == \E a \in Nat, e \in Nat : MissingPart(a, e) /\ r = BlockRange(a, e)

(* The file has more than one byte. *)
Many == FileSize * Unit > 1

(* The ranges of a saved state: the blocks they list are those not     *)
(* received. They are sorted, and a saved state may hold any number of *)
(* them.                                                               *)
RangesOK(rs) == rs \in Seq(Nat \X Nat) /\ \A k \in 1 .. Len(rs) : IsRange(rs[k])
Sorted(rs) == \A k, l \in 1 .. Len(rs) : k < l => BehindOf(rs[k]) <= FirstOf(rs[l])
Listed(rs) == {b \in Blocks : \E k \in 1 .. Len(rs) : FirstOf(rs[k]) <= b /\ b < BehindOf(rs[k])}

(* The blocks of a written range are read back; its start is not behind  *)
(* its end, and it is not what ends the list of a file of several bytes. *)
LEMMA RangeFacts ==
    ASSUME NEW a \in Nat, NEW e \in Nat, MissingPart(a, e),
           NEW r, r = BlockRange(a, e)
    PROVE  /\ r \in Nat \X Nat /\ r[1] \in Nat /\ r[2] \in Nat
           /\ FirstOf(r) = a /\ BehindOf(r) = e
           /\ (r[2] + 1 - r[1]) \div Unit = e - a
           /\ r[2] < FileSize * Unit /\ r[1] <= r[2]
           /\ Many => r # <<0, 0>>
<1>0. /\ Unit \in Nat /\ Unit >= 1 /\ FileSize \in Nat /\ FileSize >= 1
      /\ a < e /\ e <= FileSize /\ (a = 0 /\ FileSize >= 2 => e >= 2)
  BY DownloadAssumption, IfaceAssumption DEF MissingPart
<1>1. r[1] = a * Unit /\ r[2] = e * Unit - 1 /\ r = <<a * Unit, e * Unit - 1>>
  BY DEF BlockRange
<1> DEFINE n == e - a
<1>2. n \in Nat /\ n >= 1 /\ e = a + n
  BY <1>0
<1> HIDE DEF n
<1>3. a * Unit \in Nat /\ n * Unit \in Nat /\ e * Unit = a * Unit + n * Unit /\ n * Unit >= Unit
  BY <1>0, <1>2
<1>4. e * Unit \in Nat /\ e * Unit - 1 \in Nat /\ a * Unit <= e * Unit - 1
  BY <1>0, <1>3
<1>5. r \in Nat \X Nat /\ r[1] \in Nat /\ r[2] \in Nat
  BY <1>1, <1>3, <1>4
<1>6. (a * Unit) \div Unit = a
  BY <1>0
<1>7. BehindOf(r) = e
  <2>1. r[2] + 1 = e * Unit
    BY <1>1, <1>4
  <2>2. (e * Unit) \div Unit = e
    BY <1>0
  <2> QED BY <2>1, <2>2 DEF BehindOf
<1>8. (r[2] + 1 - r[1]) \div Unit = n
  <2>1. r[2] + 1 - r[1] = n * Unit
    BY <1>1, <1>3, <1>4
  <2>2. (n * Unit) \div Unit = n
    BY <1>0, <1>2
  <2> QED BY <2>1, <2>2
<1>9. e * Unit <= FileSize * Unit
  <2> DEFINE m == FileSize - e
  <2>1. m \in Nat /\ FileSize = e + m
    BY <1>0
  <2> HIDE DEF m
  <2>2. m * Unit \in Nat /\ FileSize * Unit = e * Unit + m * Unit
    BY <1>0, <2>1
  <2> QED BY <1>4, <2>2
<1>10. r[2] < FileSize * Unit
  <2>1. FileSize * Unit \in Nat
    BY <1>0
  <2> QED BY <1>1, <1>4, <1>9, <2>1
<1>11. ASSUME Many, r = <<0, 0>> PROVE FALSE
  <2>1. a * Unit = 0 /\ e * Unit = 1
    BY <1>1, <1>4, <1>11
  <2>2. a = 0
    <3> SUFFICES ASSUME a >= 1 PROVE FALSE
      OBVIOUS
    <3>1. PICK m \in Nat : a = 1 + m
      <4>1. a - 1 \in Nat /\ a = 1 + (a - 1)
        OBVIOUS
      <4> QED BY <4>1
    <3>2. a * Unit = Unit + m * Unit /\ m * Unit \in Nat
      BY <1>0, <3>1
    <3> QED BY <1>0, <2>1, <3>2
  <2>3. CASE FileSize >= 2
    <3>1. PICK m \in Nat : e = 2 + m
      <4>1. e - 2 \in Nat /\ e = 2 + (e - 2)
        BY <1>0, <2>2, <2>3
      <4> QED BY <4>1
    <3>2. e * Unit = Unit + Unit + m * Unit /\ m * Unit \in Nat
      BY <1>0, <3>1
    <3> QED BY <1>0, <2>1, <3>2
  <2>4. CASE ~(FileSize >= 2)
    <3>1. FileSize = 1 /\ e = 1
      BY <1>0, <2>2, <2>4
    <3>2. FileSize * Unit = Unit /\ e * Unit = Unit
      BY <1>0, <3>1
    <3> QED BY <1>11, <2>1, <3>2 DEF Many
  <2> QED BY <2>3, <2>4
<1> QED BY <1>1, <1>4, <1>5, <1>6, <1>7, <1>8, <1>10, <1>11 DEF FirstOf, n

(* The ranges of the incomplete ones of the first n chunks *)
Ranged(q, n, rs) ==
    /\ RangesOK(rs) /\ Sorted(rs)
    /\ \A k \in 1 .. Len(rs) : BehindOf(rs[k]) <= EndAt(q, n)
    /\ \A i \in 1 .. n : ~IsComplete(q[i]) =>
          \E k \in 1 .. Len(rs) : FirstOf(rs[k]) = q[i].start /\ BehindOf(rs[k]) = EndOf(q[i])

(* One step of writing the ranges: complete chunks are skipped *)
PutRange(rs, ch) ==
    IF IsComplete(ch) THEN rs ELSE Append(rs, <<ch.start * Unit, EndOf(ch) * Unit - 1>>)

(* Writing one chunk more keeps the ranges sorted and names it when it is *)
(* incomplete.                                                            *)
LEMMA RangedStep ==
    ASSUME NEW q, ChunkList(q), NEW n \in 1 .. Len(q), NEW rs, Ranged(q, n - 1, rs)
    PROVE  Ranged(q, n, PutRange(rs, q[n]))
<1> DEFINE ch == q[n]
<1>1. /\ ch \in ChunkRec /\ ch.received <= ch.size /\ DOMAIN q = 1 .. Len(q)
      /\ ch.start \in Nat /\ ch.size \in Nat /\ ch.received \in Nat
      /\ EndOf(ch) \in Nat /\ EndOf(ch) = ch.start + ch.size /\ Len(q) \in Nat
  BY ChunkListFacts
<1>2. EndAt(q, n - 1) = ch.start /\ EndAt(q, n) = EndOf(ch) /\ EndOf(ch) <= FileSize
  <2>1. 0 \in Nat /\ FileSize \in Nat /\ Tiles(q, 0, FileSize)
    BY IfaceAssumption DEF ChunkList
  <2>2. EndOf(ch) <= FileSize
    BY <2>1, TilesOrdered
  <2> QED BY <1>1, <2>1, <2>2 DEF EndAt, Tiles
<1>3. \A i \in 1 .. n : i \in 1 .. n - 1 \/ i = n
  BY <1>1
<1>4. rs \in Seq(Nat \X Nat) /\ Len(rs) \in Nat
  BY DEF Ranged, RangesOK
<1>0. \A k \in 1 .. Len(rs) : BehindOf(rs[k]) \in Nat
  <2> SUFFICES ASSUME NEW k \in 1 .. Len(rs) PROVE BehindOf(rs[k]) \in Nat
    OBVIOUS
  <2>1. IsRange(rs[k])
    BY DEF Ranged, RangesOK
  <2>2. PICK a \in Nat : \E e \in Nat : MissingPart(a, e) /\ rs[k] = BlockRange(a, e)
    BY <2>1 DEF IsRange
  <2>3. PICK e \in Nat : MissingPart(a, e) /\ rs[k] = BlockRange(a, e)
    BY <2>2
  <2> QED BY <2>3, RangeFacts
<1>5. CASE IsComplete(ch)
  <2>1. PutRange(rs, ch) = rs
    BY <1>5 DEF PutRange
  <2>2. \A k \in 1 .. Len(rs) : BehindOf(rs[k]) <= EndAt(q, n)
    <3>1. \A k \in 1 .. Len(rs) : BehindOf(rs[k]) <= ch.start
      BY <1>2 DEF Ranged
    <3> HIDE DEF ch
    <3> QED BY <1>0, <1>1, <1>2, <3>1
  <2>3. \A i \in 1 .. n : ~IsComplete(q[i]) => i \in 1 .. n - 1
    BY <1>3, <1>5
  <2> HIDE DEF ch
  <2>4. Ranged(q, n, rs)
    BY <2>2, <2>3 DEF Ranged
  <2> QED BY <2>1, <2>4 DEF ch
<1>6. CASE ~IsComplete(ch)
  <2> DEFINE r == BlockRange(ch.start, EndOf(ch))
             new == Append(rs, r)
  <2>1. PutRange(rs, ch) = new
    BY <1>6 DEF PutRange, BlockRange
  <2>2. MissingPart(ch.start, EndOf(ch))
    <3>1. Fine(ch)
      BY DEF ChunkList, FineList
    <3> HIDE DEF ch
    <3>2. ch.received < ch.size
      BY <1>1, <1>6 DEF IsComplete
    <3>3. ch.start = 0 /\ FileSize >= 2 => ch.size >= 2
      BY <1>1, <3>1, <3>2 DEF Fine
    <3> QED BY <1>1, <1>2, <3>2, <3>3 DEF MissingPart
  <2>3. r \in Nat \X Nat /\ FirstOf(r) = ch.start /\ BehindOf(r) = EndOf(ch) /\ IsRange(r)
    <3> HIDE DEF ch
    <3>1. r \in Nat \X Nat /\ FirstOf(r) = ch.start /\ BehindOf(r) = EndOf(ch)
      BY <1>1, <1>2, <2>2, RangeFacts
    <3> QED BY <1>1, <1>2, <2>2, <3>1 DEF IsRange
  <2> HIDE DEF ch, r
  <2>4. /\ new \in Seq(Nat \X Nat) /\ Len(new) = Len(rs) + 1
        /\ \A k \in 1 .. Len(rs) : new[k] = rs[k]
        /\ new[Len(rs) + 1] = r
    BY <1>4, <2>3, AppendProperties
  <2> HIDE DEF new
  <2>5. \A k \in 1 .. Len(new) : k \in 1 .. Len(rs) \/ k = Len(rs) + 1
    BY <1>4, <2>4
  <2>5a. \A k \in 1 .. Len(rs) : BehindOf(rs[k]) <= ch.start
    BY <1>2 DEF Ranged
  <2>6. RangesOK(new)
    <3>1. \A k \in 1 .. Len(new) : IsRange(new[k])
      BY <2>3, <2>4, <2>5 DEF Ranged, RangesOK
    <3> QED BY <2>4, <3>1 DEF RangesOK
  <2>7. Sorted(new)
    <3> SUFFICES ASSUME NEW k \in 1 .. Len(new), NEW l \in 1 .. Len(new), k < l
                 PROVE  BehindOf(new[k]) <= FirstOf(new[l])
      BY DEF Sorted
    <3>0. Len(rs) \in Nat
      BY <1>4
    <3>1. k \in 1 .. Len(rs) /\ k # Len(rs) + 1
      <4>1. l <= Len(rs) + 1
        BY <2>5, <3>0
      <4>2. k \in Nat /\ l \in Nat
        OBVIOUS
      <4> QED BY <2>5, <3>0, <4>1, <4>2
    <3>2. CASE l \in 1 .. Len(rs)
      BY <2>4, <3>1, <3>2 DEF Ranged, Sorted
    <3>3. CASE l = Len(rs) + 1
      BY <2>3, <2>4, <2>5a, <3>1, <3>3
    <3> QED BY <2>5, <3>2, <3>3
  <2>8. \A k \in 1 .. Len(new) : BehindOf(new[k]) <= EndAt(q, n)
    <3>1. \A k \in 1 .. Len(rs) : BehindOf(rs[k]) <= EndOf(ch)
      BY <1>0, <1>1, <2>5a
    <3>2. EndOf(ch) <= EndOf(ch)
      BY <1>1
    <3> QED BY <1>2, <2>3, <2>4, <2>5, <3>1, <3>2
  <2>9. ASSUME NEW i \in 1 .. n, ~IsComplete(q[i])
        PROVE  \E k \in 1 .. Len(new) : /\ FirstOf(new[k]) = q[i].start
                                        /\ BehindOf(new[k]) = EndOf(q[i])
    <3>1. CASE i = n
      <4>1. q[i] = ch
        BY <3>1 DEF ch
      <4>2. Len(rs) + 1 \in 1 .. Len(new)
        BY <1>4, <2>4
      <4> QED BY <2>3, <2>4, <4>1, <4>2
    <3>2. CASE i \in 1 .. n - 1
      <4>1. PICK k \in 1 .. Len(rs) : FirstOf(rs[k]) = q[i].start /\ BehindOf(rs[k]) = EndOf(q[i])
        BY <2>9, <3>2 DEF Ranged
      <4>2. k \in 1 .. Len(new) /\ new[k] = rs[k]
        BY <1>4, <2>4
      <4> QED BY <4>1, <4>2
    <3> QED BY <1>3, <3>1, <3>2
  <2>10. Ranged(q, n, new)
    BY <2>6, <2>7, <2>8, <2>9 DEF Ranged
  <2> QED BY <2>1, <2>10 DEF ch
<1> QED BY <1>5, <1>6 DEF ch

(* The whole list has been written at the end. *)
LEMMA WriteRangesRun ==
    ASSUME NEW q, ChunkList(q)
    PROVE  Ranged(q, Len(q), WriteRanges(q))
<1> DEFINE N == Len(q)
           S == Seq(Nat \X Nat)
           step == [n \in 1 .. N |-> [d \in S |->
                       IF PutRange(d, q[n]) \in S THEN PutRange(d, q[n]) ELSE <<>>]]
<1>1. N \in Nat /\ N = Len(q)
  BY ChunkListFacts
<1>2. step \in Steps(N, S)
  <2>1. <<>> \in S
    OBVIOUS
  <2> HIDE DEF S
  <2> QED BY <2>1 DEF Steps
<1>3. PICK h \in [0 .. N -> S] : IsRun(h, N, <<>>, step)
  <2>1. <<>> \in S
    OBVIOUS
  <2> DEFINE e == <<>>
  <2>2. e \in S
    BY <2>1
  <2> HIDE DEF step, N, S, e
  <2>3. \E h \in [0 .. N -> S] : IsRun(h, N, e, step)
    BY <1>1, <1>2, <2>2, PlaceRecursion
  <2> QED BY <2>3 DEF e
<1>4. Ranged(q, 0, <<>>)
  <2> DEFINE e == <<>>
  <2>1. e \in Seq(Nat \X Nat) /\ Len(e) = 0
    OBVIOUS
  <2> HIDE DEF e
  <2>2. Ranged(q, 0, e)
    BY <2>1 DEF Ranged, RangesOK, Sorted
  <2> QED BY <2>2 DEF e
<1>5. ASSUME NEW n \in 1 .. N, NEW d, Ranged(q, n - 1, d)
      PROVE  Ranged(q, n, PutRange(d, q[n])) /\ d \in S /\ PutRange(d, q[n]) \in S
  <2>1. Ranged(q, n, PutRange(d, q[n]))
    BY <1>5, RangedStep
  <2> QED BY <1>5, <2>1 DEF Ranged, RangesOK
<1> HIDE DEF S, N
<1>6. h[0] = <<>> /\ \A n \in 1 .. N : h[n] = step[n][h[n - 1]]
  BY <1>3 DEF IsRun
<1>7. ASSUME NEW n \in 1 .. N, Ranged(q, n - 1, h[n - 1])
      PROVE  h[n] = PutRange(h[n - 1], q[n]) /\ Ranged(q, n, h[n])
  <2>1. /\ h[n - 1] \in S /\ PutRange(h[n - 1], q[n]) \in S
        /\ Ranged(q, n, PutRange(h[n - 1], q[n]))
    BY <1>5, <1>7
  <2>2. h[n] = PutRange(h[n - 1], q[n])
    BY <1>6, <2>1
  <2> QED BY <2>1, <2>2
<1>8. \A n \in 0 .. N : Ranged(q, n, h[n])
  <2> DEFINE P == {n \in 0 .. N : Ranged(q, n, h[n])}
  <2>1. 0 \in P
    BY <1>1, <1>4, <1>6
  <2>2. \A n \in 1 .. N : n - 1 \in P => n \in P
    BY <1>1, <1>7
  <2> HIDE DEF P
  <2>3. \A n \in 0 .. N : n \in P
    BY <1>1, <2>1, <2>2, PlaceInduction
  <2> QED BY <2>3 DEF P
<1>9. h = [n \in 0 .. N |-> IF n = 0 THEN <<>> ELSE PutRange(h[n - 1], q[n])]
  <2>1. \A n \in 1 .. N : n - 1 \in 0 .. N
    BY <1>1
  <2>2. \A n \in 1 .. N : h[n] = PutRange(h[n - 1], q[n])
    BY <1>7, <1>8, <2>1
  <2>3. \A n \in 0 .. N : n # 0 => n \in 1 .. N
    BY <1>1
  <2> QED BY <1>3, <1>6, <2>2, <2>3
<1> DEFINE g == CHOOSE g : g = [n \in 0 .. N |-> IF n = 0 THEN <<>>
                                               ELSE PutRange(g[n - 1], q[n])]
<1>10. g = [n \in 0 .. N |-> IF n = 0 THEN <<>> ELSE PutRange(g[n - 1], q[n])]
  BY <1>9
<1>11. WriteRanges(q) = g[N]
  BY DEF WriteRanges, N, PutRange
<1> HIDE DEF g, step
<1>12. g[0] = <<>> /\ \A n \in 1 .. N : g[n] = PutRange(g[n - 1], q[n])
  <2>1. \A n \in 0 .. N : g[n] = IF n = 0 THEN <<>> ELSE PutRange(g[n - 1], q[n])
    BY <1>10
  <2>2. 0 \in 0 .. N /\ \A n \in 1 .. N : n \in 0 .. N /\ n # 0
    BY <1>1
  <2> QED BY <2>1, <2>2
<1>13. Ranged(q, N, g[N])
  <2> DEFINE P == {n \in 0 .. N : Ranged(q, n, g[n])}
  <2>1. 0 \in P
    BY <1>1, <1>4, <1>12
  <2>2. ASSUME NEW n \in 1 .. N, n - 1 \in P PROVE n \in P
    <3>1. Ranged(q, n - 1, g[n - 1]) /\ n \in 0 .. N
      BY <1>1, <2>2
    <3>2. Ranged(q, n, PutRange(g[n - 1], q[n]))
      BY <1>5, <3>1
    <3> QED BY <1>12, <3>1, <3>2
  <2> HIDE DEF P
  <2>3. \A n \in 0 .. N : n \in P
    BY <1>1, <2>1, <2>2, PlaceInduction
  <2>4. N \in 0 .. N
    BY <1>1
  <2> QED BY <2>3, <2>4 DEF P
<1> QED BY <1>11, <1>13 DEF N

(* What is not in the ranges was received. *)
LEMMA WriteRangesFacts ==
    ASSUME NEW q, ChunkList(q)
    PROVE  LET rs == WriteRanges(q) IN
           /\ RangesOK(rs) /\ Sorted(rs) /\ Blocks \ Listed(rs) \subseteq Got(q)
<1> DEFINE rs == WriteRanges(q)
<1>1. Ranged(q, Len(q), rs)
  BY WriteRangesRun
<1> HIDE DEF rs
<1>2. ASSUME NEW b \in Blocks, b \notin Listed(rs) PROVE b \in Got(q)
  <2>1. b \in Nat /\ 0 <= b /\ b < FileSize /\ FileSize \in Nat /\ 0 \in Nat
    BY IfaceAssumption DEF Blocks
  <2>2. Tiles(q, 0, FileSize)
    BY DEF ChunkList
  <2>3. PICK i \in 1 .. Len(q) : q[i].start <= b /\ b < EndOf(q[i])
    BY <2>1, <2>2, TilesCover
  <2>4. q[i] \in ChunkRec /\ q[i].received <= q[i].size /\ DOMAIN q = 1 .. Len(q)
    BY ChunkListFacts
  <2>5. IsComplete(q[i])
    <3> SUFFICES ASSUME ~IsComplete(q[i]) PROVE FALSE
      OBVIOUS
    <3>1. PICK k \in 1 .. Len(rs) : FirstOf(rs[k]) = q[i].start /\ BehindOf(rs[k]) = EndOf(q[i])
      BY <1>1 DEF Ranged
    <3> QED BY <1>2, <2>3, <3>1 DEF Listed
  <2>6. WritePos(q[i]) = EndOf(q[i])
    BY <2>5 DEF IsComplete, WritePos, EndOf
  <2>7. b \in Prefix(q[i])
    BY <2>1, <2>3, <2>4, <2>6, PrefixFacts
  <2> QED BY <2>4, <2>7 DEF Got
<1> QED BY <1>1, <1>2 DEF Ranged, rs

(* The least member of a set of numbers *)
LEMMA LeastFacts ==
    ASSUME NEW T \in SUBSET Nat, T # {}
    PROVE  Min(T) \in T /\ \A j \in T : Min(T) <= j
<1>1. \E n \in T : \A j \in T : n <= j
  BY LeastElement
<1> QED BY <1>1 DEF Min

(* The chunk after a splice, the last one left out *)
LEMMA SpliceInner ==
    ASSUME NEW q \in Seq(ChunkRec), NEW i \in 1 .. Len(q), NEW new \in Seq(ChunkRec)
    PROVE  \A j \in 1 .. Len(Splice(q, i, new)) - 1 :
              \/ Splice(q, i, new)[j] \in ToSet(new)
              \/ \E k \in 1 .. Len(q) - 1 : Splice(q, i, new)[j] = q[k]
<1> DEFINE n == i - 1
           N == Len(q)
           M == i + 1
           m == Len(new)
           p == SubSeq(q, 1, n)
           s == SubSeq(q, M, N)
           t == p \o new
           r == t \o s
<1>1. N \in Nat /\ m \in Nat /\ n \in Nat /\ i \in Nat /\ M \in Nat /\ n = i - 1 /\ i <= N /\ i >= 1
      /\ M = i + 1
  OBVIOUS
<1>2. p \in Seq(ChunkRec) /\ Len(p) = n /\ \A j \in 1 .. n : p[j] = q[j]
  <2>1. n \in Nat /\ n <= N /\ 1 <= n + 1 /\ 1 \in Nat /\ 1 >= 1 /\ n - 1 + 1 = n
        /\ \A j \in 1 .. n : 1 + j - 1 = j
    BY <1>1
  <2> HIDE DEF n
  <2>2. p \in Seq(ChunkRec) /\ Len(p) = n - 1 + 1
        /\ \A j \in 1 .. n - 1 + 1 : p[j] = q[1 + j - 1]
    BY <2>1, SubListFacts
  <2> HIDE DEF p
  <2> QED BY <2>1, <2>2
<1>3. s \in Seq(ChunkRec) /\ Len(s) = N - i /\ \A j \in 1 .. N - i : s[j] = q[i + j]
  <2>1. /\ M \in Nat /\ N \in Nat /\ N <= Len(q) /\ M <= N + 1 /\ M >= 1 /\ N - M + 1 = N - i
        /\ \A j \in 1 .. N - i : M + j - 1 = i + j
    BY <1>1
  <2>2. s \in Seq(ChunkRec) /\ Len(s) = N - M + 1
        /\ \A j \in 1 .. N - M + 1 : s[j] = q[M + j - 1]
    <3> HIDE DEF M, N
    <3> QED BY <2>1, SubListFacts
  <2> HIDE DEF s, M, N
  <2> QED BY <2>1, <2>2
<1> HIDE DEF p, s
<1>4. /\ t \in Seq(ChunkRec) /\ Len(t) = n + m
      /\ \A j \in 1 .. n : t[j] = p[j]
      /\ \A j \in n + 1 .. n + m : t[j] = new[j - n]
  <2>1. t \in Seq(ChunkRec) /\ Len(t) = Len(p) + Len(new)
        /\ \A j \in 1 .. Len(p) + Len(new) : t[j] = IF j <= Len(p) THEN p[j] ELSE new[j - Len(p)]
    BY <1>2, ConcatProperties
  <2> HIDE DEF t
  <2>2. Len(p) = n /\ Len(new) = m
    BY <1>2
  <2>3. t \in Seq(ChunkRec) /\ Len(t) = n + m
        /\ \A j \in 1 .. n + m : t[j] = IF j <= n THEN p[j] ELSE new[j - n]
    BY <2>1, <2>2
  <2> HIDE DEF n, m
  <2> QED BY <1>1, <2>3
<1> HIDE DEF t
<1>5. /\ Len(r) = n + m + (N - i)
      /\ \A j \in 1 .. n + m : r[j] = t[j]
      /\ \A j \in n + m + 1 .. n + m + (N - i) : r[j] = s[j - (n + m)]
  <2>1. Len(r) = Len(t) + Len(s)
        /\ \A j \in 1 .. Len(t) + Len(s) : r[j] = IF j <= Len(t) THEN t[j] ELSE s[j - Len(t)]
    BY <1>3, <1>4, ConcatProperties
  <2> HIDE DEF r
  <2>2. Len(r) = n + m + (N - i)
        /\ \A j \in 1 .. n + m + (N - i) : r[j] = IF j <= n + m THEN t[j] ELSE s[j - (n + m)]
    BY <1>3, <1>4, <2>1
  <2> HIDE DEF n, m, N
  <2> QED BY <1>1, <2>2
<1>6. Splice(q, i, new) = r
  BY DEF Splice, r, t, p, s
<1> HIDE DEF r
<1>7. ASSUME NEW j \in 1 .. Len(r) - 1
      PROVE  r[j] \in ToSet(new) \/ \E k \in 1 .. Len(q) - 1 : r[j] = q[k]
  <2> HIDE DEF n, m
  <2>0. j \in Nat /\ j >= 1 /\ j <= n + m + (N - i) - 1
    <3>1. n + m + (N - i) \in Int
      BY <1>1
    <3>2. Len(r) = n + m + (N - i)
      BY <1>5
    <3>3. Len(r) \in Int
      BY <3>1, <3>2
    <3>4. j \in Nat /\ j >= 1 /\ j <= Len(r) - 1
      BY <3>3
    <3>5. n \in Int /\ m \in Int /\ N \in Int /\ i \in Int
      BY <1>1
    <3>6. Len(r) - 1 = n + m + (N - i) - 1
      <4> HIDE DEF N
      <4> QED BY <3>2, <3>5
    <3> HIDE DEF N
    <3> QED BY <3>4, <3>6
  <2>1. CASE j <= n
    <3>1. j \in 1 .. n /\ j \in 1 .. N - 1 /\ j \in 1 .. n + m
      BY <1>1, <2>0, <2>1
    <3>2. r[j] = q[j]
      BY <1>2, <1>4, <1>5, <3>1
    <3> QED BY <3>1, <3>2
  <2>2. CASE j > n /\ j <= n + m
    <3>1. j \in n + 1 .. n + m /\ j \in 1 .. n + m /\ j - n \in 1 .. m
      BY <1>1, <2>0, <2>2
    <3>2. r[j] = new[j - n]
      BY <1>4, <1>5, <3>1
    <3>3. new[j - n] \in ToSet(new)
      BY <3>1 DEF ToSet, m
    <3> QED BY <3>2, <3>3
  <2>3. CASE j > n + m
    <3> DEFINE k == j - (n + m)
    <3>1. j \in n + m + 1 .. n + m + (N - i) /\ k \in 1 .. N - i /\ i + k \in 1 .. N - 1
      BY <1>1, <2>0, <2>3
    <3> HIDE DEF k
    <3>2. r[j] = q[i + k]
      BY <1>3, <1>5, <3>1 DEF k
    <3> QED BY <3>1, <3>2
  <2> QED BY <1>1, <2>0, <2>1, <2>2, <2>3
<1> QED BY <1>6, <1>7

(* Chunks as the loader makes them: without connection, complete or *)
(* untouched, not empty                                             *)
Pieces(S) == \A x \in S : x.conn = NoConn /\ Whole(x) /\ x.size > 0 /\ Fine(x)

(* What is left of a chunk on one side of a cut *)
LEMMA RestFacts ==
    ASSUME NEW x \in Nat, NEW n \in Int, n >= 0
    PROVE  /\ Tiles(Rest(x, n), x, x + n) /\ Pieces(ToSet(Rest(x, n)))
           /\ \A k : k \in Held(ToSet(Rest(x, n))) <=> k \in Nat /\ x <= k /\ k < x + n
           /\ n > 0 => \E y \in ToSet(Rest(x, n)) :
                          IsComplete(y) /\ y.size > 0 /\ y.start = x /\ EndOf(y) = x + n
<1>1. CASE n > 0
  <2> DEFINE ch == Chunk(x, n, n)
  <2>1. n \in Nat
    BY <1>1
  <2>2. /\ ch \in ChunkRec /\ ch.start = x /\ ch.size = n /\ ch.received = n
        /\ ch.conn = NoConn /\ EndOf(ch) = x + n
    BY <2>1, ChunkFacts
  <2>3. Rest(x, n) = <<ch>>
    BY <1>1 DEF Rest
  <2> HIDE DEF ch
  <2>4. ch.received <= ch.size /\ IsComplete(ch)
    BY <2>1, <2>2 DEF IsComplete
  <2>5. Tiles(<<ch>>, x, x + n) /\ ToSet(<<ch>>) = {ch}
    BY <2>2, <2>4, SingleTiles
  <2>6. Pieces({ch})
    BY <1>1, <2>1, <2>2, <2>4 DEF Pieces, Whole, Fine
  <2>7. \A k : k \in Held({ch}) <=> k \in Nat /\ x <= k /\ k < x + n
    <3>1. WritePos(ch) = x + n
      BY <2>2 DEF WritePos
    <3>2. \A k : k \in Prefix(ch) <=> k \in Nat /\ ch.start <= k /\ k < WritePos(ch)
      BY <2>2, <2>4, PrefixFacts
    <3>3. \A k : k \in Held({ch}) <=> k \in Prefix(ch)
      BY DEF Held
    <3> QED BY <2>2, <3>1, <3>2, <3>3
  <2> QED BY <1>1, <2>2, <2>3, <2>4, <2>5, <2>6, <2>7
<1>2. CASE ~(n > 0)
  <2>1. n = 0 /\ x + n = x
    BY <1>2
  <2>2. Rest(x, n) = <<>>
    BY <1>2 DEF Rest
  <2>3. Tiles(<<>>, x, x) /\ ToSet(<<>>) = {}
    BY EmptyTiles
  <2>4. \A k : ~(k \in Nat /\ x <= k /\ k < x)
    OBVIOUS
  <2>5. Held({}) = {} /\ Pieces({})
    BY DEF Held, Pieces
  <2> QED BY <1>2, <2>1, <2>2, <2>3, <2>4, <2>5
<1> QED BY <1>1, <1>2

(* What the union of two sets of chunks has received *)
LEMMA HeldUnion == ASSUME NEW S, NEW T, NEW U, U = S \cup T
                   PROVE  \A k : k \in Held(U) <=> k \in Held(S) \/ k \in Held(T)
BY DEF Held

(* A range of n blocks from s on cut out of a complete chunk *)
Cut(p, s, n) == Rest(p.start, s - p.start) \o <<Chunk(s, n, 0)>> \o Rest(s + n, EndOf(p) - s - n)

(* Cutting a range out of a complete chunk leaves at most three chunks, *)
(* of which only the cut one is untouched.                              *)
LEMMA CutPieces ==
    ASSUME NEW p \in ChunkRec, NEW s \in Nat, NEW n \in Nat, n >= 1,
           p.start <= s, s + n <= EndOf(p), s = 0 /\ FileSize >= 2 => n >= 2
    PROVE  /\ Tiles(Cut(p, s, n), p.start, EndOf(p)) /\ Pieces(ToSet(Cut(p, s, n)))
           /\ \A k : k \in Held(ToSet(Cut(p, s, n))) <=>
                 k \in Nat /\ p.start <= k /\ k < EndOf(p) /\ ~(s <= k /\ k < s + n)
           /\ s + n < EndOf(p) => \E y \in ToSet(Cut(p, s, n)) :
                 IsComplete(y) /\ y.size > 0 /\ y.start = s + n /\ EndOf(y) = EndOf(p)
<1>1. p.start \in Nat /\ EndOf(p) \in Nat
  BY DEF ChunkRec, EndOf
<1> DEFINE d1 == s - p.start
           u == s + n
           d2 == EndOf(p) - s - n
           a == Rest(p.start, d1)
           m == Chunk(s, n, 0)
           b == <<m>>
           z == Rest(u, d2)
<1>2. d1 \in Int /\ d1 >= 0 /\ p.start + d1 = s /\ u \in Nat /\ d2 \in Int /\ d2 >= 0
      /\ u + d2 = EndOf(p) /\ u = s + n /\ (d2 > 0 <=> s + n < EndOf(p))
  BY <1>1
<1>3. Cut(p, s, n) = (a \o b) \o z
  BY DEF Cut
<1> HIDE DEF d1, d2, u
<1>4. /\ Tiles(a, p.start, s) /\ Pieces(ToSet(a))
      /\ \A k : k \in Held(ToSet(a)) <=> k \in Nat /\ p.start <= k /\ k < s
  BY <1>1, <1>2, RestFacts
<1>5. /\ Tiles(z, u, EndOf(p)) /\ Pieces(ToSet(z))
      /\ \A k : k \in Held(ToSet(z)) <=> k \in Nat /\ u <= k /\ k < EndOf(p)
      /\ d2 > 0 => \E y \in ToSet(z) :
            IsComplete(y) /\ y.size > 0 /\ y.start = u /\ EndOf(y) = EndOf(p)
  <2>1. /\ Tiles(z, u, u + d2) /\ Pieces(ToSet(z))
        /\ \A k : k \in Held(ToSet(z)) <=> k \in Nat /\ u <= k /\ k < u + d2
        /\ d2 > 0 => \E y \in ToSet(z) :
              IsComplete(y) /\ y.size > 0 /\ y.start = u /\ EndOf(y) = u + d2
    <3>1. u \in Nat /\ d2 \in Int /\ d2 >= 0
      BY <1>2
    <3> QED BY <3>1, RestFacts
  <2>2. u + d2 = EndOf(p)
    BY <1>2
  <2> HIDE DEF z
  <2> QED BY <2>1, <2>2
<1>6. /\ m \in ChunkRec /\ m.start = s /\ m.size = n /\ m.received = 0
      /\ m.conn = NoConn /\ EndOf(m) = u
  BY <1>2 DEF Chunk, ChunkRec, EndOf
<1> HIDE DEF a, m, z
<1>7. Tiles(b, s, u) /\ ToSet(b) = {m}
  <2>1. m.received <= m.size
    BY <1>6
  <2> QED BY <1>6, <2>1, SingleTiles
<1>8. Pieces({m}) /\ Held({m}) = {}
  <2>1. m.received <= m.size /\ WritePos(m) = m.start
    BY <1>6 DEF WritePos
  <2>2. \A k : k \in Prefix(m) <=> k \in Nat /\ m.start <= k /\ k < WritePos(m)
    BY <1>6, <2>1, PrefixFacts
  <2>3. Prefix(m) = {}
    BY <1>6, <2>1, <2>2
  <2>4. Fine(m)
    BY <1>6 DEF Fine
  <2> QED BY <1>6, <2>3, <2>4 DEF Pieces, Whole, Held
<1> HIDE DEF b
<1> DEFINE ab == a \o b
           r == ab \o z
<1>9. Tiles(ab, p.start, u) /\ ToSet(ab) = ToSet(a) \cup ToSet(b)
  BY <1>4, <1>7, TilesConcat
<1> HIDE DEF ab
<1>10. Tiles(r, p.start, EndOf(p)) /\ ToSet(r) = ToSet(ab) \cup ToSet(z)
  BY <1>5, <1>9, TilesConcat
<1>11. Cut(p, s, n) = r
  BY <1>3 DEF ab
<1> HIDE DEF r
<1>12. Pieces(ToSet(r))
  BY <1>4, <1>5, <1>7, <1>8, <1>9, <1>10 DEF Pieces
<1>13. ASSUME NEW k
       PROVE  k \in Held(ToSet(r)) <=>
                 k \in Nat /\ p.start <= k /\ k < EndOf(p) /\ ~(s <= k /\ k < s + n)
  <2>1. k \in Held(ToSet(r)) <=> k \in Held(ToSet(ab)) \/ k \in Held(ToSet(z))
    BY <1>10, HeldUnion
  <2>2. k \in Held(ToSet(ab)) <=> k \in Held(ToSet(a)) \/ k \in Held(ToSet(b))
    BY <1>9, HeldUnion
  <2>3. k \notin Held(ToSet(b))
    BY <1>7, <1>8
  <2>4. k \in Held(ToSet(r)) <=> k \in Nat /\ ((p.start <= k /\ k < s) \/ (u <= k /\ k < EndOf(p)))
    BY <1>4, <1>5, <2>1, <2>2, <2>3
  <2> QED BY <1>1, <1>2, <2>4
<1>14. s + n < EndOf(p) => \E y \in ToSet(r) :
          IsComplete(y) /\ y.size > 0 /\ y.start = s + n /\ EndOf(y) = EndOf(p)
  BY <1>2, <1>5, <1>10
<1> QED BY <1>10, <1>11, <1>12, <1>13, <1>14

(* The loader's state between two ranges, and what holds of it whatever *)
(* the file said                                                        *)
Accs == [chunks : Seq(ChunkRec), done : BOOLEAN, ok : BOOLEAN]
Sane(acc) ==
    /\ acc \in Accs /\ Tiles(acc.chunks, 0, FileSize)
    /\ Loaded(acc.chunks) /\ FineList(acc.chunks)

(* The chunk behind block e that has not been cut yet *)
Behind(acc, e) ==
    /\ acc.ok = TRUE /\ acc.done = FALSE /\ e \in Nat /\ e <= FileSize
    /\ e < FileSize => \E i \in 1 .. Len(acc.chunks) :
           /\ IsComplete(acc.chunks[i]) /\ acc.chunks[i].start = e
           /\ EndOf(acc.chunks[i]) = FileSize

(* A complete chunk of list r has the blocks from s on and before e. *)
Covers(r, s, e) == \E j \in 1 .. Len(r) :
                       IsComplete(r[j]) /\ r[j].start = s /\ EndOf(r[j]) = e

(* A list with a range cut out of chunk i *)
LEMMA SpliceCut ==
    ASSUME NEW q, Tiles(q, 0, FileSize), Loaded(q), FineList(q),
           NEW i \in 1 .. Len(q), IsComplete(q[i]),
           NEW s \in Nat, NEW n \in Nat, n >= 1, q[i].start <= s, s + n <= EndOf(q[i]),
           s = 0 /\ FileSize >= 2 => n >= 2,
           NEW r, r = Splice(q, i, Cut(q[i], s, n))
    PROVE  /\ Tiles(r, 0, FileSize) /\ Loaded(r) /\ FineList(r)
           /\ \A k : k \in Got(r) => k \in Got(q) /\ ~(s <= k /\ k < s + n)
           /\ s + n < EndOf(q[i]) => Covers(r, s + n, EndOf(q[i]))
<1> DEFINE new == Cut(q[i], s, n)
<1>1. /\ q \in Seq(ChunkRec) /\ q[i] \in ChunkRec /\ q[i].received <= q[i].size
      /\ DOMAIN q = 1 .. Len(q) /\ Len(q) \in Nat
      /\ \A j \in 1 .. Len(q) : q[j] \in ChunkRec /\ q[j].received <= q[j].size
  BY TilesType
<1>2. /\ Tiles(new, q[i].start, EndOf(q[i])) /\ Pieces(ToSet(new))
      /\ \A k : k \in Held(ToSet(new)) <=>
            k \in Nat /\ q[i].start <= k /\ k < EndOf(q[i]) /\ ~(s <= k /\ k < s + n)
      /\ s + n < EndOf(q[i]) => \E y \in ToSet(new) :
            IsComplete(y) /\ y.size > 0 /\ y.start = s + n /\ EndOf(y) = EndOf(q[i])
  BY <1>1, CutPieces
<1>3. r = Splice(q, i, new)
  OBVIOUS
<1> HIDE DEF new
<1>4. /\ Tiles(r, 0, FileSize)
      /\ ToSet(r) = {q[j] : j \in 1 .. Len(q) \ {i}} \cup ToSet(new)
  <2>1. /\ Tiles(Splice(q, i, new), 0, FileSize)
        /\ ToSet(Splice(q, i, new)) = {q[j] : j \in 1 .. Len(q) \ {i}} \cup ToSet(new)
    BY <1>2, SpliceFacts
  <2> QED BY <1>3, <2>1
<1>5. r \in Seq(ChunkRec) /\ DOMAIN r = 1 .. Len(r) /\ Len(r) \in Nat
  BY <1>4, TilesType
<1>6. \A x : x \in ToSet(r) <=> (\E j \in 1 .. Len(q) : j # i /\ x = q[j]) \/ x \in ToSet(new)
  BY <1>4
<1>7. \A x : x \in ToSet(r) <=> \E j \in 1 .. Len(r) : x = r[j]
  BY <1>5 DEF ToSet
<1>8. Loaded(r) /\ FineList(r)
  <2>1. ASSUME NEW j \in 1 .. Len(r) - 1 PROVE r[j].size > 0
    <3>1. new \in Seq(ChunkRec)
      BY <1>2, TilesType
    <3>2. \A l \in 1 .. Len(Splice(q, i, new)) - 1 :
              \/ Splice(q, i, new)[l] \in ToSet(new)
              \/ \E k \in 1 .. Len(q) - 1 : Splice(q, i, new)[l] = q[k]
      BY <1>1, <3>1, SpliceInner
    <3>3. r[j] \in ToSet(new) \/ \E k \in 1 .. Len(q) - 1 : r[j] = q[k]
      BY <1>3, <3>2
    <3> QED BY <1>2, <3>3 DEF Loaded, Pieces
  <2>2. ASSUME NEW j \in 1 .. Len(r) PROVE r[j].conn = NoConn /\ Whole(r[j]) /\ Fine(r[j])
    <3>1. r[j] \in ToSet(r)
      BY <1>7
    <3>2. (\E k \in 1 .. Len(q) : r[j] = q[k]) \/ r[j] \in ToSet(new)
      BY <1>6, <3>1
    <3> QED BY <1>2, <3>2 DEF Loaded, Pieces, FineList
  <2> QED BY <2>1, <2>2 DEF Loaded, FineList
<1>9. ASSUME NEW k, k \in Got(r) PROVE k \in Got(q) /\ ~(s <= k /\ k < s + n)
  <2>1. PICK x \in ToSet(r) : k \in Prefix(x)
    BY <1>5, <1>9 DEF Got, ToSet
  <2>2. CASE x \in ToSet(new)
    <3>1. k \in Held(ToSet(new))
      BY <2>1, <2>2 DEF Held
    <3>2. k \in Nat /\ q[i].start <= k /\ k < EndOf(q[i]) /\ ~(s <= k /\ k < s + n)
      BY <1>2, <3>1
    <3>3. WritePos(q[i]) = EndOf(q[i])
      BY DEF WritePos, IsComplete, EndOf
    <3>4. k \in Prefix(q[i])
      BY <1>1, <3>2, <3>3, PrefixFacts
    <3> QED BY <1>1, <3>2, <3>4 DEF Got
  <2>3. CASE \E j \in 1 .. Len(q) : j # i /\ x = q[j]
    <3>1. PICK j \in 1 .. Len(q) : j # i /\ x = q[j]
      BY <2>3
    <3>2. k \in Nat /\ q[j].start <= k /\ k < EndOf(q[j])
      BY <1>1, <2>1, <3>1, PrefixFacts
    <3>3. ASSUME s <= k, k < s + n PROVE FALSE
      <4>1. q[i].start \in Nat /\ EndOf(q[i]) \in Nat
        BY TilesType
      <4>2. q[i].start <= k /\ k < EndOf(q[i]) /\ k \in Int
        BY <3>2, <3>3, <4>1
      <4>3. 0 \in Nat /\ FileSize \in Nat
        BY IfaceAssumption
      <4> QED BY <3>1, <3>2, <4>2, <4>3, TilesDisjoint
    <3>4. k \in Got(q)
      BY <1>1, <2>1, <3>1 DEF Got
    <3> QED BY <3>3, <3>4
  <2> QED BY <1>6, <2>2, <2>3
<1>10. ASSUME s + n < EndOf(q[i])
       PROVE  Covers(r, s + n, EndOf(q[i]))
  <2>1. PICK y \in ToSet(new) : IsComplete(y) /\ y.start = s + n /\ EndOf(y) = EndOf(q[i])
    BY <1>2, <1>10
  <2>2. PICK j \in 1 .. Len(r) : y = r[j]
    BY <1>6, <1>7, <2>1
  <2> QED BY <2>1, <2>2 DEF Covers
<1> QED BY <1>4, <1>8, <1>9, <1>10

(* read_chunks for a range: what the chunk list is afterwards.  A range of *)
(* a single byte, of which the file has more, is refused.                  *)
LEMMA CutFacts ==
    ASSUME NEW acc, Sane(acc), NEW r, IsRange(r)
    PROVE  /\ Sane(CutRange(acc, r))
           /\ \A k : k \in Got(CutRange(acc, r).chunks) => k \in Got(acc.chunks)
           /\ CutRange(acc, r).ok => acc.ok
           /\ \A e : /\ Many /\ Behind(acc, e) /\ e <= FirstOf(r)
                     => IF r[1] = r[2] THEN ~CutRange(acc, r).ok
                        ELSE /\ Behind(CutRange(acc, r), BehindOf(r))
                             /\ \A k : k \in Got(CutRange(acc, r).chunks) =>
                                   ~(FirstOf(r) <= k /\ k < BehindOf(r))
<1>1. PICK a \in Nat : \E e \in Nat : MissingPart(a, e) /\ r = BlockRange(a, e)
  BY DEF IsRange
<1>1a. PICK z \in Nat : MissingPart(a, z) /\ r = BlockRange(a, z)
  BY <1>1
<1>2. /\ a < z /\ z <= FileSize /\ r = BlockRange(a, z)
      /\ a = 0 /\ FileSize >= 2 => z - a >= 2
  BY <1>1a DEF MissingPart
<1>3. /\ r[1] \in Nat /\ r[2] \in Nat /\ FirstOf(r) = a /\ BehindOf(r) = z
      /\ (r[2] + 1 - r[1]) \div Unit = z - a /\ r[1] \div Unit = a
      /\ r[2] < FileSize * Unit /\ r[1] <= r[2]
      /\ Many => r # <<0, 0>>
  BY <1>1a, RangeFacts DEF FirstOf
<1> DEFINE q == acc.chunks
           n == z - a
           in == {i \in DOMAIN q : a >= q[i].start /\ a < EndOf(q[i])}
           i == Min(in)
           p == q[i]
           bad == r[2] <= r[1] \/ r[2] >= FileSize * Unit
                     \/ in = {} \/ ~IsComplete(p) \/ a + n > EndOf(p)
           t == Splice(q, i, Cut(p, a, n))
<1>4. n \in Nat /\ n >= 1 /\ a + n = z
  BY <1>2
<1>5. acc \in Accs /\ acc.done \in BOOLEAN /\ acc.ok \in BOOLEAN
      /\ Tiles(q, 0, FileSize) /\ Loaded(q) /\ FineList(q)
      /\ q \in Seq(ChunkRec) /\ DOMAIN q = 1 .. Len(q) /\ Len(q) \in Nat
  BY TilesType DEF Sane, Accs
<1>6. CutRange(acc, r) = IF acc.done THEN acc
                         ELSE IF r = <<0, 0>> THEN [acc EXCEPT !.done = TRUE]
                         ELSE IF bad THEN [acc EXCEPT !.done = TRUE, !.ok = FALSE]
                         ELSE [acc EXCEPT !.chunks = t]
  BY <1>3 DEF CutRange, Cut
<1>7. in # {} => i \in in /\ i \in 1 .. Len(q) /\ a >= p.start /\ a < EndOf(p)
  <2>1. in \in SUBSET Nat
    BY <1>5
  <2>2. in # {} => Min(in) \in in
    BY <2>1, LeastFacts
  <2> QED BY <1>5, <2>2
<1>8. ASSUME ~bad
      PROVE  /\ Tiles(t, 0, FileSize) /\ Loaded(t) /\ FineList(t)
             /\ \A k : k \in Got(t) => k \in Got(q) /\ ~(a <= k /\ k < z)
             /\ z < EndOf(p) => Covers(t, z, EndOf(p))
  <2>1. i \in 1 .. Len(q) /\ p.start <= a /\ IsComplete(p)
    BY <1>7, <1>8
  <2>1a. EndOf(p) \in Nat
    BY <1>5, <2>1, TilesType
  <2>2. a + n <= EndOf(p)
    BY <1>4, <1>8, <2>1a
  <2>2b. t = Splice(q, i, Cut(q[i], a, n))
    OBVIOUS
  <2>2c. /\ Tiles(q, 0, FileSize) /\ Loaded(q) /\ FineList(q) /\ n \in Nat /\ n >= 1
         /\ a = 0 /\ FileSize >= 2 => n >= 2
    BY <1>2, <1>4, <1>5
  <2> HIDE DEF n, i, q, t
  <2>3. /\ Tiles(t, 0, FileSize) /\ Loaded(t) /\ FineList(t)
        /\ \A k : k \in Got(t) => k \in Got(q) /\ ~(a <= k /\ k < a + n)
        /\ a + n < EndOf(p) => Covers(t, a + n, EndOf(p))
    <3>1. q[i].start <= a /\ a + n <= EndOf(q[i]) /\ IsComplete(q[i]) /\ p = q[i]
      BY <2>1, <2>2
    <3> HIDE DEF p, in, bad
    <3>2. /\ Tiles(q, 0, FileSize) /\ Loaded(q) /\ FineList(q) /\ IsComplete(q[i])
          /\ a \in Nat /\ n \in Nat /\ n >= 1 /\ i \in 1 .. Len(q)
          /\ a = 0 /\ FileSize >= 2 => n >= 2
      BY <2>1, <2>2c, <3>1
    <3>3. /\ Tiles(t, 0, FileSize) /\ Loaded(t) /\ FineList(t)
          /\ \A k : k \in Got(t) => k \in Got(q) /\ ~(a <= k /\ k < a + n)
          /\ a + n < EndOf(q[i]) => Covers(t, a + n, EndOf(q[i]))
      BY <2>2b, <3>1, <3>2, SpliceCut
    <3> QED BY <3>1, <3>3
  <2> HIDE DEF p
  <2> QED BY <1>4, <2>3
<1> HIDE DEF t
<1>9. ASSUME Many, r[1] # r[2], NEW e, Behind(acc, e), e <= FirstOf(r)
      PROVE  ~acc.done /\ r # <<0, 0>> /\ ~bad /\ EndOf(p) = FileSize /\ acc.ok
  <2>1. e \in Nat /\ e <= a /\ e < FileSize /\ FileSize \in Nat
    BY <1>2, <1>3, <1>9, IfaceAssumption DEF Behind
  <2>2. PICK j \in 1 .. Len(q) : IsComplete(q[j]) /\ q[j].start = e /\ EndOf(q[j]) = FileSize
    BY <1>9, <2>1 DEF Behind
  <2>3. a < FileSize
    BY <1>2, <2>1
  <2>4. j \in in
    BY <1>5, <2>1, <2>2, <2>3
  <2>5. i \in 1 .. Len(q) /\ p.start <= a /\ a < EndOf(p)
    BY <1>7, <2>4
  <2>6. i = j
    <3>1. q[j].start <= a /\ a < EndOf(q[j]) /\ a \in Int /\ 0 \in Nat
      BY <2>1, <2>2, <2>3
    <3> HIDE DEF i, q
    <3> QED BY <1>5, <2>1, <2>5, <3>1, TilesDisjoint
  <2>7. IsComplete(p) /\ EndOf(p) = FileSize
    BY <2>2, <2>6
  <2>8. ~(a + n > EndOf(p))
    BY <1>2, <1>4, <2>1, <2>7
  <2>9. ~(r[2] <= r[1]) /\ ~(r[2] >= FileSize * Unit) /\ r # <<0, 0>>
    <3>1. FileSize * Unit \in Nat
      BY <2>1, DownloadAssumption
    <3>2. r[2] > r[1] /\ r # <<0, 0>> /\ r[2] < FileSize * Unit
      BY <1>3, <1>9 DEF Many
    <3> QED BY <1>3, <3>1, <3>2
  <2>10. acc.ok /\ ~acc.done
    BY <1>9 DEF Behind
  <2> QED BY <2>4, <2>7, <2>8, <2>9, <2>10
<1> HIDE DEF i, in, p, n
<1> DEFINE new == CutRange(acc, r)
<1>10. /\ Sane(new) /\ \A k : k \in Got(new.chunks) => k \in Got(q)
       /\ new.ok => acc.ok
  <2>1. CASE acc.done \/ r = <<0, 0>> \/ bad
    <3>1. new \in Accs /\ new.chunks = q /\ (new.ok => acc.ok)
      <4> HIDE DEF bad
      <4> QED BY <1>5, <1>6, <2>1 DEF Accs
    <3> HIDE DEF new
    <3> QED BY <1>5, <3>1 DEF Sane
  <2>2. CASE ~(acc.done \/ r = <<0, 0>> \/ bad)
    <3>1. t \in Seq(ChunkRec)
      BY <1>8, <2>2, TilesType
    <3>2. new \in Accs /\ new.chunks = t /\ (new.ok => acc.ok)
      <4> HIDE DEF bad
      <4> QED BY <1>5, <1>6, <2>2, <3>1 DEF Accs
    <3>3. /\ Tiles(t, 0, FileSize) /\ Loaded(t) /\ FineList(t)
          /\ \A k : k \in Got(t) => k \in Got(q)
      BY <1>8, <2>2
    <3> HIDE DEF new
    <3> QED BY <3>2, <3>3 DEF Sane
  <2> QED BY <2>1, <2>2
<1>11. ASSUME Many, r[1] # r[2], NEW e, Behind(acc, e), e <= FirstOf(r)
       PROVE  /\ Behind(new, z)
              /\ \A k : k \in Got(new.chunks) => ~(a <= k /\ k < z)
  <2>1. ~acc.done /\ r # <<0, 0>> /\ ~bad /\ EndOf(p) = FileSize /\ acc.ok
    BY <1>9, <1>11
  <2>2. new = [acc EXCEPT !.chunks = t]
    <3> HIDE DEF bad
    <3> QED BY <1>6, <2>1
  <2>3. new.chunks = t /\ new.ok = TRUE /\ new.done = FALSE
    <3> HIDE DEF bad, new
    <3> QED BY <1>5, <2>1, <2>2 DEF Accs
  <2> HIDE DEF new
  <2>4. /\ \A k : k \in Got(t) => ~(a <= k /\ k < z)
        /\ z < EndOf(p) => \E j \in 1 .. Len(t) :
              IsComplete(t[j]) /\ t[j].start = z /\ EndOf(t[j]) = EndOf(p)
    BY <1>8, <2>1 DEF Covers
  <2> QED BY <1>2, <2>1, <2>3, <2>4 DEF Behind
<1>12. ASSUME Many, r[1] = r[2], NEW e, Behind(acc, e) PROVE ~new.ok
  <2>1. r # <<0, 0>> /\ bad
    BY <1>3, <1>12
  <2>2. ~acc.done
    BY <1>12 DEF Behind
  <2>3. new = [acc EXCEPT !.done = TRUE, !.ok = FALSE]
    <3> HIDE DEF bad
    <3> QED BY <1>6, <2>1, <2>2
  <2> HIDE DEF new
  <2> QED BY <1>5, <2>3 DEF Accs
<1> QED BY <1>3, <1>10, <1>11, <1>12

(* The list before the first range is cut out of it *)
FirstAcc(ok) == [chunks |-> <<Chunk(0, FileSize, FileSize), Chunk(FileSize, 0, 0)>>,
                 done |-> FALSE, ok |-> ok]

(* The loader's first state: one complete chunk and an empty one behind *)
(* it                                                                   *)
LEMMA FirstAccFacts ==
    ASSUME NEW ok \in BOOLEAN
    PROVE  Sane(FirstAcc(ok)) /\ (ok => Behind(FirstAcc(ok), 0))
<1> DEFINE x == Chunk(0, FileSize, FileSize)
           y == Chunk(FileSize, 0, 0)
           q == <<x, y>>
<1>0. FileSize \in Nat /\ FileSize > 0
  BY IfaceAssumption
<1>1. /\ x \in ChunkRec /\ x.start = 0 /\ x.size = FileSize /\ x.received = FileSize
      /\ x.conn = NoConn /\ EndOf(x) = FileSize
  BY <1>0 DEF Chunk, ChunkRec, EndOf
<1>2. /\ y \in ChunkRec /\ y.start = FileSize /\ y.size = 0 /\ y.received = 0
      /\ y.conn = NoConn /\ EndOf(y) = FileSize
  BY <1>0 DEF Chunk, ChunkRec, EndOf
<1>3. FirstAcc(ok) = [chunks |-> q, done |-> FALSE, ok |-> ok]
  BY DEF FirstAcc
<1> HIDE DEF x, y
<1>4. Tiles(q, 0, FileSize)
  <2>1. x.received <= x.size /\ y.received <= y.size /\ y.start = EndOf(x)
    BY <1>0, <1>1, <1>2
  <2>2. Tiles(q, x.start, EndOf(y))
    BY <1>1, <1>2, <2>1, PairTiles
  <2> QED BY <1>1, <1>2, <2>2
<1>5. q \in Seq(ChunkRec) /\ Len(q) = 2 /\ q[1] = x /\ q[2] = y
  BY <1>1, <1>2
<1> HIDE DEF q
<1>6. Loaded(q)
  <2>1. \A i \in 1 .. Len(q) : i = 1 \/ i = 2
    BY <1>5
  <2>2. \A i \in 1 .. Len(q) - 1 : i = 1
    BY <1>5
  <2> QED BY <1>0, <1>1, <1>2, <1>5, <2>1, <2>2 DEF Loaded, Whole, IsComplete
<1>6a. FineList(q)
  <2>1. \A i \in 1 .. Len(q) : i = 1 \/ i = 2
    BY <1>5
  <2>2. Fine(x) /\ Fine(y)
    BY <1>0, <1>1, <1>2 DEF Fine
  <2> QED BY <1>5, <2>1, <2>2 DEF FineList
<1>7. Sane(FirstAcc(ok))
  BY <1>3, <1>4, <1>5, <1>6, <1>6a DEF Sane, Accs
<1>8. ASSUME ok PROVE Behind(FirstAcc(ok), 0)
  <2>1. 1 \in 1 .. Len(q) /\ IsComplete(q[1]) /\ q[1].start = 0 /\ EndOf(q[1]) = FileSize
    BY <1>1, <1>5 DEF IsComplete
  <2>2. \E i \in 1 .. Len(q) : IsComplete(q[i]) /\ q[i].start = 0 /\ EndOf(q[i]) = FileSize
    BY <2>1
  <2> QED BY <1>0, <1>3, <1>8, <2>2 DEF Behind
<1> QED BY <1>7, <1>8

(* read_chunks, range by range *)
LEMMA LoadSteps ==
    ASSUME NEW s, RangesOK(s.ranges), s.ok \in BOOLEAN
    PROVE  \E g : /\ g[0] = FirstAcc(s.ok)
                  /\ \A n \in 1 .. Len(s.ranges) : g[n] = CutRange(g[n - 1], s.ranges[n])
                  /\ Load(s) = g[Len(s.ranges)]
<1> DEFINE rs == s.ranges
           N == Len(rs)
           S == {acc \in Accs : Sane(acc)}
           step == [n \in 1 .. N |-> [x \in S |-> CutRange(x, rs[n])]]
           b == FirstAcc(s.ok)
<1>1. N \in Nat /\ \A n \in 1 .. N : IsRange(rs[n])
  BY DEF RangesOK
<1>2. step \in Steps(N, S)
  <2>1. \A n \in 1 .. N : \A x \in S : CutRange(x, rs[n]) \in S
    <3> SUFFICES ASSUME NEW n \in 1 .. N, NEW x \in S PROVE CutRange(x, rs[n]) \in S
      OBVIOUS
    <3>1. Sane(CutRange(x, rs[n]))
      BY <1>1, CutFacts
    <3> QED BY <3>1 DEF Sane
  <2> HIDE DEF S, N, rs
  <2> QED BY <2>1 DEF Steps
<1>3. b \in S
  <2>1. Sane(b)
    BY FirstAccFacts
  <2> QED BY <2>1 DEF Sane
<1> HIDE DEF S, N, b
<1>4. PICK h \in [0 .. N -> S] : IsRun(h, N, b, step)
  <2> HIDE DEF step
  <2> QED BY <1>1, <1>2, <1>3, PlaceRecursion
<1>5. h = [n \in 0 .. N |-> IF n = 0 THEN b ELSE CutRange(h[n - 1], rs[n])]
  <2>1. \A n \in 1 .. N : h[n - 1] \in S
    BY <1>1
  <2>2. \A n \in 0 .. N : n # 0 => n \in 1 .. N
    BY <1>1
  <2>3. \A n \in 1 .. N : step[n][h[n - 1]] = CutRange(h[n - 1], rs[n])
    BY <2>1
  <2>4. h[0] = b /\ \A n \in 1 .. N : h[n] = step[n][h[n - 1]]
    BY <1>4 DEF IsRun
  <2> HIDE DEF step, rs
  <2> QED BY <1>4, <2>2, <2>3, <2>4
<1> DEFINE g == CHOOSE g : g = [n \in 0 .. N |-> IF n = 0 THEN b
                                               ELSE CutRange(g[n - 1], rs[n])]
<1>6. g = [n \in 0 .. N |-> IF n = 0 THEN b ELSE CutRange(g[n - 1], rs[n])]
  BY <1>5
<1>7. Load(s) = g[N]
  BY DEF Load, N, b, FirstAcc
<1> HIDE DEF g, step, rs
<1>8. g[0] = b /\ \A n \in 1 .. N : g[n] = CutRange(g[n - 1], rs[n])
  <2>1. \A n \in 0 .. N : g[n] = IF n = 0 THEN b ELSE CutRange(g[n - 1], rs[n])
    BY <1>6
  <2>2. 0 \in 0 .. N /\ \A n \in 1 .. N : n \in 0 .. N /\ n # 0
    BY <1>1
  <2> QED BY <2>1, <2>2
<1> QED BY <1>7, <1>8 DEF N, rs, b

(* Loading a saved state: the result tiles the file whatever the file   *)
(* said; a state the program itself wrote is accepted unless a range of *)
(* it is a single byte, with nothing complete that it lists as missing. *)
(* In a file of one byte that byte, listed, is taken as complete.       *)
LEMMA LoadFacts ==
    ASSUME NEW s, RangesOK(s.ranges), s.ok \in BOOLEAN
    PROVE  /\ Sane(Load(s)) /\ (Load(s).ok => s.ok)
           /\ Many /\ s.ok /\ Sorted(s.ranges) =>
                 /\ Load(s).ok \/ OneByteRange(s)
                 /\ Load(s).ok => Got(Load(s).chunks) \subseteq Blocks \ Listed(s.ranges)
<1> DEFINE rs == s.ranges
           N == Len(rs)
<1>1. N \in Nat /\ \A n \in 1 .. N : IsRange(rs[n])
  BY DEF RangesOK
<1>2. PICK g : /\ g[0] = FirstAcc(s.ok)
               /\ \A n \in 1 .. N : g[n] = CutRange(g[n - 1], rs[n])
               /\ Load(s) = g[N]
  BY LoadSteps
<1>3. Sane(g[0]) /\ (s.ok => Behind(g[0], 0))
  BY <1>2, FirstAccFacts
<1> HIDE DEF N, rs
<1>4. Sane(g[N]) /\ (g[N].ok => s.ok)
  <2> DEFINE P == {n \in 0 .. N : Sane(g[n]) /\ (g[n].ok => s.ok)}
  <2>1. 0 \in P
    BY <1>1, <1>2, <1>3 DEF FirstAcc
  <2>2. ASSUME NEW n \in 1 .. N, n - 1 \in P PROVE n \in P
    <3>1. /\ Sane(g[n - 1]) /\ IsRange(rs[n]) /\ n \in 0 .. N
          /\ g[n - 1].ok => s.ok
      BY <1>1, <2>2
    <3>2. /\ Sane(CutRange(g[n - 1], rs[n]))
          /\ CutRange(g[n - 1], rs[n]).ok => g[n - 1].ok
      BY <3>1, CutFacts
    <3> QED BY <1>2, <3>1, <3>2
  <2> HIDE DEF P
  <2>3. \A n \in 0 .. N : n \in P
    BY <1>1, <2>1, <2>2, PlaceInduction
  <2>4. N \in 0 .. N
    BY <1>1
  <2> QED BY <2>3, <2>4 DEF P
<1>5. ASSUME Many, s.ok, Sorted(rs)
      PROVE  /\ Load(s).ok \/ OneByteRange(s)
             /\ Load(s).ok => Got(Load(s).chunks) \subseteq Blocks \ Listed(rs)
  <2> DEFINE e(n) == IF n = 0 THEN 0 ELSE BehindOf(rs[n])
             Cleared(n) == \A m \in 1 .. n : \A k : k \in Got(g[n].chunks) =>
                              ~(FirstOf(rs[m]) <= k /\ k < BehindOf(rs[m]))
             Refused(n) == ~g[n].ok /\ \E m \in 1 .. n : rs[m][1] = rs[m][2]
             P == {n \in 0 .. N :
                      Sane(g[n]) /\ (Refused(n) \/ (Behind(g[n], e(n)) /\ Cleared(n)))}
  <2>0. 0 \in P
    BY <1>1, <1>3, <1>5
  <2>1. ASSUME NEW n \in 1 .. N, n - 1 \in P PROVE n \in P
    <3> DEFINE a == g[n - 1]
               z == g[n]
               r == rs[n]
    <3>1. /\ Sane(a) /\ IsRange(r) /\ n \in 0 .. N /\ n # 0 /\ n \in Nat
          /\ Refused(n - 1) \/ (Behind(a, e(n - 1)) /\ Cleared(n - 1))
      BY <1>1, <2>1
    <3>2. e(n - 1) <= FirstOf(r)
      <4>1. CASE n = 1
        <5>1. e(n - 1) = 0
          BY <4>1
        <5>2. FirstOf(r) \in Nat
          <6>1. PICK x \in Nat : \E y \in Nat : MissingPart(x, y) /\ r = BlockRange(x, y)
            BY <3>1 DEF IsRange
          <6>2. PICK y \in Nat : MissingPart(x, y) /\ r = BlockRange(x, y)
            BY <6>1
          <6> QED BY <6>2, RangeFacts
        <5> QED BY <5>1, <5>2
      <4>2. CASE n # 1
        <5>1. n - 1 \in 1 .. N /\ n - 1 # 0 /\ n - 1 < n
          BY <1>1, <4>2
        <5>2. BehindOf(rs[n - 1]) <= FirstOf(rs[n])
          BY <1>5, <5>1 DEF Sorted, N
        <5> QED BY <5>1, <5>2
      <4> QED BY <4>1, <4>2
    <3>3. z = CutRange(a, r)
      BY <1>2
    <3>4. e(n) = BehindOf(r)
      BY <3>1
    <3>5. /\ Sane(z) /\ (z.ok => a.ok)
          /\ \A k : k \in Got(z.chunks) => k \in Got(a.chunks)
      <4> HIDE DEF a, z, r
      <4> QED BY <3>1, <3>3, CutFacts
    <3>6. CASE Refused(n - 1)
      <4>1. PICK m \in 1 .. n - 1 : rs[m][1] = rs[m][2]
        BY <3>6
      <4>2. m \in 1 .. n /\ ~z.ok
        BY <3>1, <3>5, <3>6
      <4> QED BY <3>1, <3>5, <4>1, <4>2
    <3>7. CASE r[1] = r[2] /\ Behind(a, e(n - 1))
      <4>1. ~z.ok
        <5> HIDE DEF a, z, r, e
        <5> QED BY <1>5, <3>1, <3>2, <3>3, <3>7, CutFacts
      <4>2. n \in 1 .. n
        BY <3>1
      <4> QED BY <3>1, <3>5, <3>7, <4>1, <4>2
    <3>8. CASE r[1] # r[2] /\ Behind(a, e(n - 1)) /\ Cleared(n - 1)
      <4>1. /\ Behind(z, BehindOf(r))
            /\ \A k : k \in Got(z.chunks) => ~(FirstOf(r) <= k /\ k < BehindOf(r))
        <5> HIDE DEF a, z, r, e
        <5> QED BY <1>5, <3>1, <3>2, <3>3, <3>8, CutFacts
      <4>2. ASSUME NEW m \in 1 .. n, NEW k, k \in Got(z.chunks)
            PROVE  ~(FirstOf(rs[m]) <= k /\ k < BehindOf(rs[m]))
        <5>1. CASE m = n
          BY <4>1, <4>2, <5>1
        <5>2. CASE m # n
          <6>1. m \in 1 .. n - 1 /\ k \in Got(a.chunks)
            BY <3>1, <3>5, <4>2, <5>2
          <6> QED BY <3>8, <6>1
        <5> QED BY <5>1, <5>2
      <4>3. Behind(g[n], e(n)) /\ Cleared(n)
        BY <3>4, <4>1, <4>2
      <4> HIDE DEF Cleared, Refused, e
      <4> QED BY <3>1, <3>5, <4>3
    <3> QED BY <3>1, <3>6, <3>7, <3>8
  <2> HIDE DEF P
  <2>2. \A n \in 0 .. N : n \in P
    BY <1>1, <2>0, <2>1, PlaceInduction
  <2>3. N \in 0 .. N
    BY <1>1
  <2>4. Refused(N) \/ (Behind(g[N], e(N)) /\ Cleared(N))
    BY <2>2, <2>3 DEF P
  <2>5. CASE Refused(N)
    <3>1. DOMAIN rs = 1 .. N
      BY DEF RangesOK, rs, N
    <3>2. OneByteRange(s) /\ ~Load(s).ok
      BY <1>2, <2>5, <3>1 DEF OneByteRange, rs
    <3> QED BY <3>2
  <2>6. CASE Behind(g[N], e(N)) /\ Cleared(N)
    <3>1. Load(s).ok = TRUE
      BY <1>2, <2>6 DEF Behind
    <3>2. Got(g[N].chunks) \subseteq Blocks
      <4>1. Tiles(g[N].chunks, 0, FileSize) /\ FileSize \in Nat
        BY <1>4, IfaceAssumption DEF Sane
      <4> QED BY <4>1, GotBounds DEF Blocks
    <3>3. ASSUME NEW k \in Got(g[N].chunks) PROVE k \notin Listed(rs)
      BY <2>6 DEF Listed, N
    <3> QED BY <1>2, <3>1, <3>2, <3>3
  <2> QED BY <2>4, <2>5, <2>6
<1> QED BY <1>2, <1>4, <1>5 DEF rs

-----------------------------------------------------------------------------
(* The incomplete file and its buffer                                      *)

(* What a state data and an incomplete file are *)
SaveType == {s \in [ok : BOOLEAN, ranges : Seq(Nat \X Nat), paused : BOOLEAN,
                    sources : SUBSET Conns] :
                RangesOK(s.ranges) /\ IsFiniteSet(s.sources)}
(* The incomplete file: what is on disk and what is still in stdio's *)
(* buffer, of the data and of the state behind it                    *)
FileType == [exists : BOOLEAN, disk : SUBSET Blocks, saved : SaveType,
             pdata : SUBSET Blocks, psaved : SaveType]

(* State data s claims no block that is not in D. *)
Claims(s, D) == s.ok => Sorted(s.ranges) /\ Blocks \ Listed(s.ranges) \subseteq D
(* Both the state on disk and the buffered one claim no more than the *)
(* disk has                                                           *)
DiskOK(f) == Claims(f.saved, f.disk) /\ Claims(f.psaved, f.disk)

(* File g has the data of file f. *)
Same(f, g) ==
    /\ g \in FileType /\ g.disk \cup g.pdata = f.disk \cup f.pdata
    /\ f.disk \subseteq g.disk /\ (DiskOK(f) => DiskOK(g))

(* The fields of a saved state *)
LEMMA SaveTypeFacts ==
    ASSUME NEW s \in SaveType
    PROVE  /\ s \in [ok : BOOLEAN, ranges : Seq(Nat \X Nat), paused : BOOLEAN, sources : SUBSET Conns]
           /\ s.ok \in BOOLEAN /\ s.paused \in BOOLEAN /\ s.sources \subseteq Conns
           /\ IsFiniteSet(s.sources) /\ RangesOK(s.ranges)
<1>1. s \in [ok : BOOLEAN, ranges : Seq(Nat \X Nat), paused : BOOLEAN, sources : SUBSET Conns]
  BY DEF SaveType
<1>2. s.ok \in BOOLEAN
  BY <1>1
<1>3. s.paused \in BOOLEAN
  BY <1>1
<1> QED BY <1>1, <1>2, <1>3 DEF SaveType

(* The fields of the file *)
LEMMA FileTypeFacts ==
    ASSUME NEW f \in FileType
    PROVE  /\ f.disk \subseteq Blocks /\ f.pdata \subseteq Blocks
           /\ f.saved \in SaveType /\ f.psaved \in SaveType /\ f.exists \in BOOLEAN
BY DEF FileType

(* No state claims nothing. *)
LEMMA NoStateFacts ==
    NoState \in SaveType /\ NoState.ok = FALSE /\ \A D : Claims(NoState, D)
<1> DEFINE e == <<>>
<1>1. RangesOK(e)
  <2>1. e \in Seq(Nat \X Nat) /\ Len(e) = 0
    OBVIOUS
  <2> HIDE DEF e
  <2> QED BY <2>1 DEF RangesOK
<1>2. e \in Seq(Nat \X Nat)
  OBVIOUS
<1>3. NoState = [ok |-> FALSE, ranges |-> e, paused |-> FALSE, sources |-> {}]
  BY DEF NoState
<1> HIDE DEF e
<1>4. IsFiniteSet({})
  BY FS_EmptySet
<1>5. NoState \in SaveType
  BY <1>1, <1>2, <1>3, <1>4 DEF SaveType
<1>6. NoState.ok = FALSE
  BY <1>3
<1> QED BY <1>5, <1>6 DEF Claims

(* A file that does not exist, or was just created, claims nothing. *)
LEMMA NoFileFacts ==
    NoFile \in FileType /\ DiskOK(NoFile) /\ [NoFile EXCEPT !.exists = TRUE] \in FileType
        /\ DiskOK([NoFile EXCEPT !.exists = TRUE])
<1>1. NoFile \in FileType /\ [NoFile EXCEPT !.exists = TRUE] \in FileType
  BY NoStateFacts DEF NoFile, FileType
<1>2. NoFile.saved = NoState /\ NoFile.psaved = NoState
      /\ [NoFile EXCEPT !.exists = TRUE].saved = NoState
      /\ [NoFile EXCEPT !.exists = TRUE].psaved = NoState
  BY DEF NoFile
<1> QED BY <1>1, <1>2, NoStateFacts DEF DiskOK

(* fflush moves the buffered data to disk and loses nothing. *)
LEMMA FlushFacts ==
    ASSUME NEW f \in FileType
    PROVE  /\ Same(f, Flush(f)) /\ Flush(f).pdata = {}
           /\ Flush(f).disk = f.disk \cup f.pdata
           /\ Flush(f).psaved = NoState
<1> DEFINE g == Flush(f)
           sv == IF f.psaved.ok THEN f.psaved ELSE f.saved
<1>0. f.disk \subseteq Blocks /\ f.pdata \subseteq Blocks
      /\ f.saved \in SaveType /\ f.psaved \in SaveType
  BY FileTypeFacts
<1>1. g = [f EXCEPT !.disk = f.disk \cup f.pdata, !.pdata = {}, !.saved = sv, !.psaved = NoState]
  BY DEF Flush, FileType
<1>2. sv \in SaveType /\ (DiskOK(f) => Claims(sv, f.disk))
  BY <1>0 DEF DiskOK
<1> HIDE DEF sv, g
<1>3. /\ g.disk = f.disk \cup f.pdata /\ g.pdata = {} /\ g.saved = sv /\ g.psaved = NoState
      /\ g.exists = f.exists /\ g \in FileType
  BY <1>0, <1>1, <1>2, NoStateFacts DEF FileType
<1>4. DiskOK(f) => DiskOK(g)
  <2>1. Claims(NoState, g.disk)
    BY NoStateFacts
  <2>2. Claims(sv, f.disk) => Claims(sv, g.disk)
    BY <1>3 DEF Claims
  <2> QED BY <1>2, <1>3, <2>1, <2>2 DEF DiskOK
<1> QED BY <1>3, <1>4 DEF Same, g

(* Saving a state that claims only what the file and its buffer hold *)
(* keeps the file sound, because the data is flushed first.          *)
LEMMA SaveStateFacts ==
    ASSUME NEW f \in FileType, NEW s \in SaveType, Claims(s, f.disk \cup f.pdata)
    PROVE  Same(f, SaveState(f, s)) /\ SaveState(f, s).pdata = {}
<1> DEFINE h == Flush(f)
           g == SaveState(f, s)
<1>1. /\ Same(f, h) /\ h.pdata = {} /\ h.disk = f.disk \cup f.pdata
  BY FlushFacts
<1>2. g = [h EXCEPT !.psaved = s]
  BY DEF SaveState
<1> HIDE DEF h, g
<1>3. /\ g \in FileType /\ g.disk = h.disk /\ g.pdata = h.pdata /\ g.saved = h.saved
      /\ g.psaved = s
  BY <1>1, <1>2 DEF Same, FileType
<1> QED BY <1>1, <1>3 DEF Same, DiskOK, g

(* Two steps that lose nothing lose nothing together. *)
LEMMA SameTrans ==
    ASSUME NEW f, NEW g, NEW h, Same(f, g), Same(g, h)
    PROVE  Same(f, h)
BY DEF Same

(* A save that fails part way loses nothing. *)
LEMMA FailedSaveFacts ==
    ASSUME NEW f \in FileType, NEW g \in FailedSave(f)
    PROVE  Same(f, g)
<1>1. g = f \/ g = Flush(f)
  BY DEF FailedSave
<1>2. Same(f, f)
  BY DEF Same
<1> QED BY <1>1, <1>2, FlushFacts

(* A save, whether it succeeds or fails, loses nothing. *)
LEMMA SavesFacts ==
    ASSUME NEW f \in FileType, NEW s \in SaveType, Claims(s, f.disk \cup f.pdata),
           NEW g \in Saves(f, s)
    PROVE  Same(f, g)
<1>1. g \in FailedSave(f) \/ g = SaveState(f, s)
  BY DEF Saves
<1> QED BY <1>1, FailedSaveFacts, SaveStateFacts

(* Without the claims, for every state data *)
LEMMA SaveTypes ==
    ASSUME NEW f \in FileType, NEW s \in SaveType
    PROVE  SaveState(f, s) \in FileType /\ \A g \in Saves(f, s) : g \in FileType
<1>1. Flush(f) \in FileType
  BY FlushFacts DEF Same
<1>2. SaveState(f, s) \in FileType
  BY <1>1 DEF SaveState, FileType
<1> QED BY <1>1, <1>2 DEF Saves, FailedSave

(* Writing blocks adds them and leaves the claims sound. *)
LEMMA WriteDataFacts ==
    ASSUME NEW f \in FileType, NEW b \in SUBSET Blocks
    PROVE  /\ WriteData(f, b) \in FileType
           /\ WriteData(f, b).disk \cup WriteData(f, b).pdata = f.disk \cup f.pdata \cup b
           /\ DiskOK(f) => DiskOK(WriteData(f, b))
<1> DEFINE h == Flush(f)
           g == WriteData(f, b)
<1>1. /\ Same(f, h) /\ h.pdata = {} /\ h.disk = f.disk \cup f.pdata
  BY FlushFacts
<1>2. g = [h EXCEPT !.pdata = b]
  BY DEF WriteData
<1> HIDE DEF h, g
<1>3. /\ g \in FileType /\ g.disk = h.disk /\ g.pdata = b /\ g.saved = h.saved
      /\ g.psaved = h.psaved
  BY <1>1, <1>2 DEF Same, FileType
<1> QED BY <1>1, <1>3 DEF Same, DiskOK, g

(* The state written for a chunk list claims only what the list has *)
(* received.                                                        *)
LEMMA StateDataFacts ==
    ASSUME NEW q, ChunkList(q), NEW p \in BOOLEAN, NEW S \in SUBSET Conns, IsFiniteSet(S)
    PROVE  /\ StateData(q, p, S) \in SaveType
           /\ \A D : Got(q) \subseteq D => Claims(StateData(q, p, S), D)
<1> DEFINE s == StateData(q, p, S)
           T == SavedSources(S)
           rs == WriteRanges(q)
<1>1. RangesOK(rs) /\ Sorted(rs) /\ Blocks \ Listed(rs) \subseteq Got(q)
  BY WriteRangesFacts
<1>2. T \subseteq Conns /\ IsFiniteSet(T)
  BY FS_Subset DEF SavedSources
<1>3. s = [ok |-> TRUE, ranges |-> rs, paused |-> p, sources |-> T]
  BY DEF StateData
<1> HIDE DEF rs, T, s
<1>4. s.ranges = rs
  BY <1>3
<1>5. s \in SaveType
  <2>1. rs \in Seq(Nat \X Nat)
    BY <1>1 DEF RangesOK
  <2>2. s \in [ok : BOOLEAN, ranges : Seq(Nat \X Nat), paused : BOOLEAN, sources : SUBSET Conns]
    BY <1>2, <1>3, <2>1
  <2>3. s.sources = T
    BY <1>3
  <2> QED BY <1>1, <1>2, <1>4, <2>2, <2>3 DEF SaveType
<1>6. \A D : Got(q) \subseteq D => Claims(s, D)
  BY <1>1, <1>4 DEF Claims
<1> QED BY <1>5, <1>6 DEF s

-----------------------------------------------------------------------------
(* The invariant                                                           *)

(* The states without a chunk list, the phases of maintain, all states *)
NoList == {"NEW", "LOST"}
Phases == {"phase1", "phase2", "phase3"}
States == LiveStates \cup EndStates \cup {"NEW", "VERIFYING", "LOST"}

(* The chunks someone works on, and whether there is anything left to do. *)
Doing(q) == Working(ToSet(q))
(* Something is left to be done on the list *)
Unfinished(q) == Missing(q) \/ Doing(q) # {}

(* The chunk list belongs to the state, and dl->received counts what it *)
(* has                                                                  *)
ListOK(st, q, n) ==
    IF st \in NoList THEN q = <<>> /\ n = 0
    ELSE ChunkList(q) /\ n = Cardinality(Got(q))

(* The connection whose callback is being handled *)
Leaving(r) == IF r.pc = "disassociate" THEN r.cands ELSE {}

(* The range of the request of connection v is that of chunk x. *)
Serves(v, x) ==
    /\ v.state \in BusyStates
    /\ v.chunk_start + v.curr = WritePos(x)
    /\ v.chunk_start + v.chunk_size >= EndOf(x)
    /\ v.state = "CONNECTING" => v.curr = 0 /\ ~IsComplete(x)

(* Chunks and connections belong together: every working chunk has its  *)
(* own live connection, which is at the chunk's write position and asks *)
(* for at least all of the chunk; every busy connection has a chunk. lv *)
(* is the connection that has stopped but is not yet off its chunk.     *)
Linked(S, al, v, lv) ==
    /\ \A x, y \in S : x.conn = y.conn => x = y
    /\ \A x \in S : x.conn \in al /\ (x.conn \notin lv => Serves(v[x.conn], x))
    /\ \A c \in Conns : v[c].state \in BusyStates => \E x \in S : x.conn = c
    /\ \A c \in Conns \ lv : v[c].fail < SourceMaxFail
    /\ \A c \in lv : v[c].state \in IdleStates /\ \E x \in S : x.conn = c

(* The pass that is on its way *)
RunType == [pc : {"idle", "disassociate", "maintain", "verify"} \cup Phases,
            cands : SUBSET Conns, slow : SUBSET Conns,
            max_new : 0 .. 2 * MaxSources, timer : BOOLEAN]

(* What a phase of maintain relies on: its candidates are alive and idle, *)
(* the slow ones have a chunk, nothing working is complete, something is  *)
(* missing                                                                *)
Ready(r, al, q) ==
    /\ \A c \in r.cands : c \in al /\ \A x \in Doing(q) : x.conn # c
    /\ \A c \in r.slow : \E x \in Doing(q) : x.conn = c
    /\ Solid(q) /\ Missing(q)
    /\ \A x \in Doing(q) : ~IsComplete(x)
    /\ r.pc = "phase1" => \A i \in 1 .. Len(q) : q[i].conn = NoConn => Whole(q[i])

(* The pass fits the state: outside a pass an active download has      *)
(* something left to do, so its timer finds work; disassociate has one *)
(* connection, the one that stopped                                    *)
RunOK(r, st, al, q) ==
    /\ r \in RunType
    /\ r.pc = "idle" => st # "VERIFYING" /\ r.timer = FALSE /\ (st = "ACTIVE" => Unfinished(q))
    /\ r.pc = "disassociate" => /\ st = "ACTIVE" /\ r.timer = FALSE
                                /\ \E c \in al : r.cands = {c}
    /\ r.pc = "maintain" => st = "ACTIVE" /\ (r.timer = TRUE => Unfinished(q))
    /\ r.pc = "verify" => st = "VERIFYING" /\ r.timer = FALSE
    /\ r.pc \in Phases => st = "ACTIVE" /\ Ready(r, al, q)

(* What the list has received is on disk or in the buffer, a download   *)
(* being verified or complete is wholly on disk, and the saved state is *)
(* sound                                                                *)
Backed(st, q, f) ==
    /\ st \in LiveStates \cup {"VERIFYING"} => Got(q) \subseteq f.disk \cup f.pdata
    /\ st \in {"VERIFYING", "COMPLETE"} => f.disk = Blocks
    /\ DiskOK(f)

(* The file. Its content is claimed for more than one byte only: a missing *)
(* range <<0, 0>> reads as the end of the list.                            *)
FileOK(st, q, f) == f \in FileType /\ (Many => Backed(st, q, f))

(* The connections that deliver *)
Transferring(al, v) == {c \in al : v[c].state = "TRANSFERRING"}

(* The types of the other variables *)
TypesOK(al, v, st, ab) ==
    /\ al \subseteq Conns /\ IsFiniteSet(al) /\ v \in [Conns -> View]
    /\ st \in States /\ ab \in {"no", "chunk list"}

(* The inductive invariant *)
Inv ==
    /\ TypesOK(alive, view, dl_state, aborted)
    /\ ListOK(dl_state, chunks, received)
    /\ Linked(Doing(chunks), alive, view, Leaving(run))
    /\ Doing(chunks) # {} => dl_state = "ACTIVE"
    /\ RunOK(run, dl_state, alive, chunks)
    /\ FileOK(dl_state, chunks, file)
    /\ Cardinality(Transferring(alive, view)) <= MaxSources

-----------------------------------------------------------------------------
(* Passes, connections and the limit                                       *)

(* The records of idle and of called handlers *)
LEMMA QuietFacts ==
    /\ Quiet \in RunType /\ Quiet.pc = "idle" /\ Quiet.timer = FALSE
    /\ Leaving(Quiet) = {}
    /\ \A pc \in {"maintain", "disassociate"}, cs \in SUBSET Conns :
          /\ Calling(pc, cs) \in RunType /\ Calling(pc, cs).pc = pc
          /\ Calling(pc, cs).cands = cs /\ Calling(pc, cs).timer = FALSE
          /\ Leaving(Calling(pc, cs)) = IF pc = "disassociate" THEN cs ELSE {}
<1>0. 0 \in 0 .. 2 * MaxSources
  BY DownloadAssumption
<1>1. Quiet \in RunType /\ Quiet.pc = "idle" /\ Quiet.timer = FALSE
  <2>1. {} \in SUBSET Conns /\ FALSE \in BOOLEAN
    OBVIOUS
  <2> QED BY <1>0, <2>1 DEF Quiet, RunType
<1>2. ASSUME NEW pc \in {"maintain", "disassociate"}, NEW cs \in SUBSET Conns
      PROVE  /\ Calling(pc, cs) \in RunType /\ Calling(pc, cs).pc = pc
             /\ Calling(pc, cs).cands = cs /\ Calling(pc, cs).timer = FALSE
             /\ Leaving(Calling(pc, cs)) = IF pc = "disassociate" THEN cs ELSE {}
  <2>1. Calling(pc, cs).pc = pc /\ Calling(pc, cs).cands = cs
    BY DEF Calling, Quiet
  <2>2. Calling(pc, cs).timer = FALSE
    BY DEF Calling, Quiet
  <2>3. Calling(pc, cs) \in RunType
    BY <1>1 DEF Calling, RunType
  <2>4. Leaving(Calling(pc, cs)) = IF pc = "disassociate" THEN cs ELSE {}
    BY <2>1 DEF Leaving
  <2> QED BY <2>1, <2>2, <2>3, <2>4
<1>3. Leaving(Quiet) = {}
  BY <1>1 DEF Leaving
<1> QED BY <1>1, <1>2, <1>3

(* Between two passes the run fits the state when an active download has *)
(* something left to do.                                                 *)
LEMMA IdleRun ==
    ASSUME NEW r \in RunType, r.pc = "idle", r.timer = FALSE,
           NEW st, st # "VERIFYING", NEW al, NEW q, st = "ACTIVE" => Unfinished(q)
    PROVE  RunOK(r, st, al, q) /\ Leaving(r) = {}
BY DEF RunOK, Phases, Leaving

(* A call of maintain, and of disassociate for a live connection, fits an *)
(* active download.                                                       *)
LEMMA CallRun ==
    ASSUME NEW al, NEW q
    PROVE  /\ RunOK(Calling("maintain", {}), "ACTIVE", al, q)
           /\ \A c \in al : c \in Conns => RunOK(Calling("disassociate", {c}), "ACTIVE", al, q)
<1>1. Calling("maintain", {}) \in RunType /\ Calling("maintain", {}).pc = "maintain"
      /\ Calling("maintain", {}).timer = FALSE
  BY QuietFacts
<1>2. ASSUME NEW c \in al, c \in Conns
      PROVE  /\ Calling("disassociate", {c}) \in RunType
             /\ Calling("disassociate", {c}).pc = "disassociate"
             /\ Calling("disassociate", {c}).timer = FALSE
             /\ Calling("disassociate", {c}).cands = {c}
  BY <1>2, QuietFacts
<1> QED BY <1>1, <1>2 DEF RunOK, Phases

(* The unassigning operators of the model as one *)
LEMMA UnassignFacts ==
    ASSUME ChunkList(chunks)
    PROVE  /\ UnassignAll = Dropped(chunks, Conns)
           /\ \A c \in Conns : Unassign(c) = Dropped(chunks, {c})
<1>1. DOMAIN chunks = 1 .. Len(chunks) /\ \A i \in 1 .. Len(chunks) : chunks[i] \in ChunkRec
  BY ChunkListFacts
<1>2. ASSUME NEW i \in DOMAIN chunks
      PROVE  [chunks[i] EXCEPT !.conn = NoConn]
             = IF chunks[i].conn \in Conns THEN [chunks[i] EXCEPT !.conn = NoConn] ELSE chunks[i]
  <2>1. chunks[i] \in ChunkRec
    BY <1>1
  <2>2. chunks[i].conn \notin Conns => chunks[i].conn = NoConn
    BY <2>1 DEF ChunkRec
  <2> QED BY <2>1, <2>2 DEF ChunkRec
<1>3. UnassignAll = Dropped(chunks, Conns)
  BY <1>2 DEF UnassignAll, Dropped
<1>4. ASSUME NEW c \in Conns PROVE Unassign(c) = Dropped(chunks, {c})
  BY DEF Unassign, Dropped
<1> QED BY <1>3, <1>4

(* Nobody works on a list from which everyone was taken. *)
LEMMA AllDropped ==
    ASSUME NEW q, ChunkList(q)
    PROVE  LET r == Dropped(q, Conns) IN
           ChunkList(r) /\ Got(r) = Got(q) /\ Doing(r) = {}
<1> DEFINE r == Dropped(q, Conns)
<1>1. /\ ChunkList(r) /\ Got(r) = Got(q)
      /\ Working(ToSet(r)) = {x \in Working(ToSet(q)) : x.conn \notin Conns}
  BY DroppedFacts, DownloadAssumption
<1>2. ASSUME NEW x \in Working(ToSet(q)) PROVE x.conn \in Conns
  <2>1. q \in Seq(ChunkRec) /\ DOMAIN q = 1 .. Len(q)
        /\ \A i \in 1 .. Len(q) : q[i] \in ChunkRec
    BY ChunkListFacts
  <2>2. x \in ToSet(q) /\ x.conn # NoConn
    BY DEF Working
  <2>3. x \in ChunkRec
    BY <2>1, <2>2 DEF ToSet
  <2> QED BY <2>2, <2>3 DEF ChunkRec
<1> QED BY <1>1, <1>2 DEF Doing

(* The fields of a connection's record *)
LEMMA ViewFacts ==
    ASSUME NEW v \in View
    PROVE  /\ v.chunk_start \in Nat /\ v.chunk_size \in Nat /\ v.curr \in Nat
           /\ v.fail \in Nat /\ v.fail <= SourceMaxFail
           /\ v.chunk_start <= FileSize /\ v.chunk_size <= FileSize /\ v.curr <= FileSize
           /\ v.state \in BusyStates \cup IdleStates
BY IfaceAssumption DEF View

(* A new connection's record *)
LEMMA NewViewFacts ==
    NewView \in View /\ NewView.state = "UNUSED" /\ NewView.fail = 0 /\ 0 < SourceMaxFail
BY IfaceAssumption DEF NewView, View, IdleStates, BusyStates

(* A cancelled connection is idle. *)
LEMMA CancelledFacts ==
    ASSUME NEW v \in View
    PROVE  /\ Cancelled(v) \in View /\ Cancelled(v).state = "UNUSED"
           /\ Cancelled(v).fail = v.fail
           /\ [Cancelled(v) EXCEPT !.fail = 0] \in View
           /\ [Cancelled(v) EXCEPT !.fail = 0].state = "UNUSED"
           /\ [Cancelled(v) EXCEPT !.fail = 0].fail = 0
<1> DEFINE w == Cancelled(v)
<1>1. "UNUSED" \in BusyStates \cup IdleStates /\ 0 \in 0 .. FileSize /\ 0 \in 0 .. SourceMaxFail
  BY IfaceAssumption DEF IdleStates
<1>2. Settle(v, "UNUSED") \in View /\ Settle(v, "UNUSED").fail = v.fail
      /\ Settle(v, "UNUSED").state = "UNUSED"
  BY <1>1 DEF Settle, View
<1>3. w \in View /\ w.state = "UNUSED" /\ w.fail = v.fail
  BY <1>1, <1>2 DEF Cancelled, View
<1> HIDE DEF w
<1>4. /\ [w EXCEPT !.fail = 0] \in View /\ [w EXCEPT !.fail = 0].fail = 0
      /\ [w EXCEPT !.fail = 0].state = "UNUSED"
  BY <1>1, <1>3 DEF View
<1> QED BY <1>3, <1>4 DEF w

(* The connections are stopped all together. *)
LEMMA StoppedFacts ==
    ASSUME alive \subseteq Conns, view \in [Conns -> View],
           NEW S, Linked(S, alive, view, {}), NEW v, v = StoppedView
    PROVE  /\ v \in [Conns -> View]
           /\ Linked({}, alive, v, {}) /\ Transferring(alive, v) = {}
           /\ \A c \in alive : Linked({}, alive, [v EXCEPT ![c].fail = 0], {})
           /\ \A c \in alive : [v EXCEPT ![c].fail = 0] \in [Conns -> View]
           /\ \A c \in alive : Transferring(alive, [v EXCEPT ![c].fail = 0]) = {}
<1>1. ASSUME NEW c \in Conns
      PROVE  /\ v[c] \in View /\ v[c].state \notin BusyStates /\ v[c].fail < SourceMaxFail
             /\ [v[c] EXCEPT !.fail = 0] \in View
             /\ [v[c] EXCEPT !.fail = 0].state = v[c].state
             /\ [v[c] EXCEPT !.fail = 0].fail = 0
  <2>1. view[c] \in View /\ view[c].fail < SourceMaxFail
    BY DEF Linked
  <2>2. v[c] = IF c \in alive THEN Cancelled(view[c]) ELSE view[c]
    BY DEF StoppedView
  <2>3. v[c] \in View /\ v[c].fail < SourceMaxFail
    BY <2>1, <2>2, CancelledFacts
  <2>4. v[c].state \notin BusyStates
    <3>1. CASE c \in alive
      BY <2>1, <2>2, <3>1, CancelledFacts DEF BusyStates
    <3>2. CASE c \notin alive
      BY <2>2, <3>2 DEF Linked
    <3> QED BY <3>1, <3>2
  <2>5. /\ [v[c] EXCEPT !.fail = 0] \in View /\ [v[c] EXCEPT !.fail = 0].fail = 0
        /\ [v[c] EXCEPT !.fail = 0].state = v[c].state
    BY <2>3, IfaceAssumption DEF View
  <2> QED BY <2>3, <2>4, <2>5
<1>2. v \in [Conns -> View]
  <2>1. v = [c \in Conns |-> v[c]]
    BY DEF StoppedView
  <2> QED BY <1>1, <2>1
<1>3. ASSUME NEW u \in [Conns -> View],
             \A c \in Conns : u[c].state \notin BusyStates /\ u[c].fail < SourceMaxFail
      PROVE  Linked({}, alive, u, {}) /\ Transferring(alive, u) = {}
  BY <1>3 DEF Linked, Transferring, BusyStates
<1>4. ASSUME NEW c \in alive
      PROVE  /\ [v EXCEPT ![c].fail = 0] \in [Conns -> View]
             /\ \A d \in Conns : /\ [v EXCEPT ![c].fail = 0][d].state \notin BusyStates
                                 /\ [v EXCEPT ![c].fail = 0][d].fail < SourceMaxFail
  <2>1. c \in Conns
    OBVIOUS
  <2>2. [v EXCEPT ![c].fail = 0] = [v EXCEPT ![c] = [v[c] EXCEPT !.fail = 0]]
    BY <1>2, <2>1
  <2>3. 0 < SourceMaxFail
    BY IfaceAssumption
  <2> QED BY <1>1, <1>2, <2>1, <2>2, <2>3
<1> QED BY <1>1, <1>2, <1>3, <1>4

(* The limit on sources holds when no further connection delivers. *)
LEMMA LimitKept ==
    ASSUME NEW al, NEW v, IsFiniteSet(al), Cardinality(Transferring(al, v)) <= MaxSources,
           NEW bl, NEW u, Transferring(bl, u) \subseteq Transferring(al, v)
    PROVE  Cardinality(Transferring(bl, u)) <= MaxSources
<1>1. IsFiniteSet(Transferring(al, v))
  BY FS_Subset DEF Transferring
<1>2. /\ IsFiniteSet(Transferring(bl, u))
      /\ Cardinality(Transferring(bl, u)) <= Cardinality(Transferring(al, v))
  BY <1>1, FS_Subset
<1>3. Cardinality(Transferring(bl, u)) \in Nat /\ Cardinality(Transferring(al, v)) \in Nat
  BY <1>1, <1>2, FS_CardinalityType
<1> QED BY <1>2, <1>3, DownloadAssumption

-----------------------------------------------------------------------------
(* Pausing and queueing                                                    *)

(* The download was paused or queued with list q, and saved over file f. *)
Parked(f, q) ==
    /\ ChunkList(chunks') /\ Got(chunks') = Got(q) /\ Doing(chunks') = Doing(q)
    /\ dl_state' \in {"PAUSED", "QUEUED"} /\ run' = Quiet
    /\ file' \in FileType
    /\ Got(q) \subseteq f.disk \cup f.pdata => Same(f, file')

(* Pausing parks the download with all it has received. *)
LEMMA PauseFacts ==
    ASSUME NEW f \in FileType, NEW q, ChunkList(q),
           NEW S \in SUBSET Conns, IsFiniteSet(S), Pause(f, q, S)
    PROVE  Parked(f, q)
<1>1. /\ chunks' = Consolidate(q) /\ dl_state' = "PAUSED" /\ run' = Quiet
      /\ file' \in Saves(f, StateData(chunks', TRUE, S))
  BY DEF Pause
<1>2. ChunkList(chunks') /\ Got(chunks') = Got(q) /\ Doing(chunks') = Doing(q)
  BY <1>1, ConsolidateFacts DEF Doing
<1> DEFINE s == StateData(chunks', TRUE, S)
<1>3. s \in SaveType /\ \A D : Got(chunks') \subseteq D => Claims(s, D)
  BY <1>2, StateDataFacts
<1> HIDE DEF s
<1>4. file' \in Saves(f, s)
  BY <1>1 DEF s
<1>5. file' \in FileType
  BY <1>3, <1>4, SaveTypes
<1>6. Got(q) \subseteq f.disk \cup f.pdata => Same(f, file')
  BY <1>2, <1>3, <1>4, SavesFacts
<1> QED BY <1>1, <1>2, <1>5, <1>6 DEF Parked

(* Parking after a step that loses nothing *)
LEMMA ParkedOver ==
    ASSUME NEW f, NEW g, Same(f, g), NEW q, NEW r, Got(r) = Got(q), Doing(r) = Doing(q),
           Parked(g, r)
    PROVE  Parked(f, q)
<1>1. g.disk \cup g.pdata = f.disk \cup f.pdata
  BY DEF Same
<1>2. Got(q) \subseteq f.disk \cup f.pdata => Same(f, file')
  <2>1. ASSUME Got(q) \subseteq f.disk \cup f.pdata PROVE Same(g, file')
    BY <1>1, <2>1 DEF Parked
  <2> QED BY <2>1, SameTrans
<1> QED BY <1>2 DEF Parked

(* Queueing parks the download too; it pauses it first when it was asked *)
(* to.                                                                   *)
LEMMA QueueFacts ==
    ASSUME NEW f \in FileType, NEW q, ChunkList(q),
           NEW S \in SUBSET Conns, IsFiniteSet(S), NEW p \in BOOLEAN, Queue(f, q, S, p)
    PROVE  Parked(f, q)
<1>0. LET r == Consolidate(q) IN ChunkList(r) /\ Got(r) = Got(q) /\ Doing(r) = Doing(q)
  BY ConsolidateFacts DEF Doing
<1>1. CASE /\ chunks' = Consolidate(q)
           /\ dl_state' = "QUEUED"
           /\ file' = SaveState(f, StateData(chunks', p, S))
           /\ run' = Quiet
  <2>1. ChunkList(chunks') /\ Got(chunks') = Got(q) /\ Doing(chunks') = Doing(q)
    BY <1>0, <1>1
  <2> DEFINE s == StateData(chunks', p, S)
  <2>2. s \in SaveType /\ \A D : Got(chunks') \subseteq D => Claims(s, D)
    BY <2>1, StateDataFacts
  <2> HIDE DEF s
  <2>3. file' = SaveState(f, s)
    BY <1>1 DEF s
  <2>4. file' \in FileType
    BY <2>2, <2>3, SaveTypes
  <2>5. Got(q) \subseteq f.disk \cup f.pdata => Same(f, file')
    BY <2>1, <2>2, <2>3, SaveStateFacts
  <2> QED BY <1>1, <2>1, <2>4, <2>5 DEF Parked
<1>2. CASE /\ chunks' = Consolidate(q)
           /\ dl_state' = "PAUSED"
           /\ file' \in FailedSave(f)
           /\ run' = Quiet
  <2>1. Same(f, file')
    BY <1>2, FailedSaveFacts
  <2>2. file' \in FileType
    BY <2>1 DEF Same
  <2> QED BY <1>0, <1>2, <2>1, <2>2 DEF Parked
<1>3. CASE \E g \in FailedSave(f) : Pause(g, Consolidate(q), S)
  <2>1. PICK g \in FailedSave(f) : Pause(g, Consolidate(q), S)
    BY <1>3
  <2>2. Same(f, g)
    BY FailedSaveFacts
  <2>3. g \in FileType
    BY <2>2 DEF Same
  <2> DEFINE r == Consolidate(q)
  <2>4. ChunkList(r) /\ Got(r) = Got(q) /\ Doing(r) = Doing(q) /\ Pause(g, r, S)
    BY <1>0, <2>1
  <2> HIDE DEF r
  <2>5. Parked(g, r)
    BY <2>3, <2>4, PauseFacts
  <2> QED BY <2>2, <2>4, <2>5, ParkedOver
<1> QED BY <1>1, <1>2, <1>3 DEF Queue

(* What a paused or queued download looks like *)
LEMMA ParkedInv ==
    ASSUME NEW f, NEW q, Parked(f, q), Doing(q) = {},
           TypesOK(alive', view', "PAUSED", aborted'), Linked({}, alive', view', {}),
           received' = Cardinality(Got(q)),
           Many => Got(q) \subseteq f.disk \cup f.pdata /\ DiskOK(f),
           Cardinality(Transferring(alive', view')) <= MaxSources
    PROVE  Inv'
<1>1. /\ ChunkList(chunks') /\ Got(chunks') = Got(q) /\ Doing(chunks') = {}
      /\ dl_state' \in {"PAUSED", "QUEUED"} /\ run' = Quiet /\ file' \in FileType
  BY DEF Parked
<1>2. TypesOK(alive', view', dl_state', aborted')
  BY <1>1 DEF TypesOK, States, LiveStates
<1>3. ListOK(dl_state', chunks', received')
  BY <1>1 DEF ListOK, NoList
<1>4. RunOK(run', dl_state', alive', chunks') /\ Leaving(run') = {}
  <2>1. dl_state' # "VERIFYING" /\ dl_state' # "ACTIVE"
    BY <1>1
  <2>2. run' \in RunType /\ run'.pc = "idle" /\ run'.timer = FALSE
    BY <1>1, QuietFacts
  <2> QED BY <2>1, <2>2, IdleRun
<1>5. FileOK(dl_state', chunks', file')
  <2>1. ASSUME Many PROVE Backed(dl_state', chunks', file')
    <3>1. Same(f, file')
      BY <2>1 DEF Parked
    <3>2. Got(chunks') \subseteq file'.disk \cup file'.pdata /\ DiskOK(file')
      BY <1>1, <2>1, <3>1 DEF Same
    <3>3. dl_state' \notin {"VERIFYING", "COMPLETE"}
      BY <1>1
    <3> QED BY <3>2, <3>3 DEF Backed
  <2> QED BY <1>1, <2>1 DEF FileOK
<1> QED BY <1>1, <1>2, <1>3, <1>4, <1>5 DEF Inv

(* A download that runs is stopped: its list, connections and file. *)
LEMMA AllStopped ==
    ASSUME Inv, dl_state \in LiveStates, run.pc = "idle",
           NEW q, q = UnassignAll, NEW v, v = StoppedView
    PROVE  /\ ChunkList(q) /\ Got(q) = Got(chunks) /\ Doing(q) = {}
           /\ received = Cardinality(Got(q)) /\ received \in Nat
           /\ TypesOK(alive, v, "PAUSED", aborted) /\ Linked({}, alive, v, {})
           /\ Cardinality(Transferring(alive, v)) <= MaxSources
           /\ file \in FileType
           /\ Many => Got(q) \subseteq file.disk \cup file.pdata /\ DiskOK(file)
           /\ alive \in SUBSET Conns /\ IsFiniteSet(alive)
<1>1. ChunkList(chunks) /\ received = Cardinality(Got(chunks))
  BY DEF Inv, ListOK, NoList, LiveStates
<1>2. q = Dropped(chunks, Conns)
  BY <1>1, UnassignFacts
<1>3. ChunkList(q) /\ Got(q) = Got(chunks) /\ Doing(q) = {}
  BY <1>1, <1>2, AllDropped
<1>4. TypesOK(alive, view, dl_state, aborted) /\ Linked(Doing(chunks), alive, view, {})
      /\ Cardinality(Transferring(alive, view)) <= MaxSources
  BY DEF Inv, Leaving
<1>5. alive \subseteq Conns /\ view \in [Conns -> View] /\ IsFiniteSet(alive)
  BY <1>4 DEF TypesOK
<1>6. v \in [Conns -> View] /\ Linked({}, alive, v, {}) /\ Transferring(alive, v) = {}
  BY <1>4, <1>5, StoppedFacts
<1>7. Cardinality(Transferring(alive, v)) <= MaxSources
  BY <1>4, <1>5, <1>6, LimitKept
<1>8. TypesOK(alive, v, "PAUSED", aborted)
  BY <1>4, <1>6 DEF TypesOK, States, LiveStates
<1>9. file \in FileType /\ (Many => Backed(dl_state, chunks, file))
  BY DEF Inv, FileOK
<1>10. received \in Nat
  <2>1. Tiles(chunks, 0, FileSize) /\ FileSize \in Nat
    BY <1>1, IfaceAssumption DEF ChunkList
  <2> QED BY <1>1, <2>1, GotBounds
<1> QED BY <1>1, <1>3, <1>5, <1>6, <1>7, <1>8, <1>9, <1>10 DEF Backed

(* as_download_pause keeps the invariant. *)
LEMMA PauseInv == ASSUME Inv, PauseRequest PROVE Inv'
<1> DEFINE q == UnassignAll
           v == StoppedView
<1>1. /\ dl_state \in LiveStates /\ run.pc = "idle" /\ view' = v
      /\ Pause(file, q, alive) /\ alive' = alive /\ received' = received /\ aborted' = aborted
  BY DEF PauseRequest, At, LiveStates
<1> HIDE DEF q, v
<1>2. /\ ChunkList(q) /\ Got(q) = Got(chunks) /\ Doing(q) = {}
      /\ received = Cardinality(Got(q))
      /\ TypesOK(alive, v, "PAUSED", aborted) /\ Linked({}, alive, v, {})
      /\ Cardinality(Transferring(alive, v)) <= MaxSources
      /\ file \in FileType
      /\ Many => Got(q) \subseteq file.disk \cup file.pdata /\ DiskOK(file)
      /\ alive \in SUBSET Conns /\ IsFiniteSet(alive)
  BY <1>1, AllStopped DEF q, v
<1>3. Parked(file, q)
  BY <1>1, <1>2, PauseFacts
<1> QED BY <1>1, <1>2, <1>3, ParkedInv

(* as_download_queue keeps it. *)
LEMMA QueueInv == ASSUME Inv, QueueRequest PROVE Inv'
<1> DEFINE q == UnassignAll
           v == StoppedView
           p == dl_state = "PAUSED"
<1>1. /\ dl_state \in LiveStates /\ run.pc = "idle" /\ view' = v
      /\ Queue(file, q, alive, p) /\ p \in BOOLEAN
      /\ alive' = alive /\ received' = received /\ aborted' = aborted
  BY DEF QueueRequest, At, LiveStates
<1> HIDE DEF q, v, p
<1>2. /\ ChunkList(q) /\ Got(q) = Got(chunks) /\ Doing(q) = {}
      /\ received = Cardinality(Got(q))
      /\ TypesOK(alive, v, "PAUSED", aborted) /\ Linked({}, alive, v, {})
      /\ Cardinality(Transferring(alive, v)) <= MaxSources
      /\ file \in FileType
      /\ Many => Got(q) \subseteq file.disk \cup file.pdata /\ DiskOK(file)
      /\ alive \in SUBSET Conns /\ IsFiniteSet(alive)
  BY <1>1, AllStopped DEF q, v
<1>3. Parked(file, q)
  BY <1>1, <1>2, QueueFacts
<1> QED BY <1>1, <1>2, <1>3, ParkedInv

(* as_download_start on a parked download keeps it. *)
LEMMA ResumeInv == ASSUME Inv, ResumeRequest PROVE Inv'
<1>1. /\ dl_state \in LiveStates \ {"ACTIVE"} /\ run.pc = "idle"
      /\ alive' = alive /\ received' = received /\ aborted' = aborted
  BY DEF ResumeRequest, At, LiveStates
<1>2. CASE /\ dl_state' = "ACTIVE"
           /\ run' = Calling("maintain", {})
           /\ UNCHANGED <<view, chunks, file>>
  <2>1. TypesOK(alive', view', dl_state', aborted')
    BY <1>1, <1>2 DEF Inv, TypesOK, States, LiveStates
  <2>2. ListOK(dl_state', chunks', received')
    BY <1>1, <1>2 DEF Inv, ListOK, NoList, LiveStates
  <2>3. RunOK(run', dl_state', alive', chunks') /\ Leaving(run') = {}
    BY <1>2, CallRun, QuietFacts
  <2>4. Linked(Doing(chunks'), alive', view', {})
    BY <1>1, <1>2 DEF Inv, Leaving
  <2>5. FileOK(dl_state', chunks', file')
    BY <1>1, <1>2 DEF Inv, FileOK, Backed, LiveStates
  <2>6. Cardinality(Transferring(alive', view')) <= MaxSources
    BY <1>1, <1>2 DEF Inv
  <2> QED BY <1>2, <2>1, <2>2, <2>3, <2>4, <2>5, <2>6 DEF Inv
<1>3. CASE view' = StoppedView /\ Queue(file, UnassignAll, alive, FALSE)
  <2> DEFINE q == UnassignAll
             v == StoppedView
  <2>1. view' = v /\ Queue(file, q, alive, FALSE) /\ FALSE \in BOOLEAN
    BY <1>3
  <2> HIDE DEF q, v
  <2>2. /\ ChunkList(q) /\ Got(q) = Got(chunks) /\ Doing(q) = {}
        /\ received = Cardinality(Got(q))
        /\ TypesOK(alive, v, "PAUSED", aborted) /\ Linked({}, alive, v, {})
        /\ Cardinality(Transferring(alive, v)) <= MaxSources
        /\ file \in FileType
        /\ Many => Got(q) \subseteq file.disk \cup file.pdata /\ DiskOK(file)
        /\ alive \in SUBSET Conns /\ IsFiniteSet(alive)
    BY <1>1, AllStopped DEF q, v
  <2>3. Parked(file, q)
    BY <2>1, <2>2, QueueFacts
  <2> QED BY <1>1, <2>1, <2>2, <2>3, ParkedInv
<1> QED BY <1>2, <1>3 DEF ResumeRequest

(* The maintenance timer keeps it. *)
LEMMA TimerInv == ASSUME Inv, MaintenanceTimer PROVE Inv'
<1>1. /\ dl_state = "ACTIVE" /\ dl_state \in LiveStates /\ run.pc = "idle"
      /\ alive' = alive /\ received' = received /\ aborted' = aborted
  BY DEF MaintenanceTimer, At, LiveStates
<1>2. CASE /\ file' = SaveState(file, StateData(chunks, FALSE, alive))
           /\ run' = [Calling("maintain", {}) EXCEPT !.timer = TRUE]
           /\ UNCHANGED <<view, dl_state, chunks>>
  <2>1. ChunkList(chunks) /\ alive \in SUBSET Conns /\ IsFiniteSet(alive) /\ file \in FileType
    BY <1>1 DEF Inv, ListOK, NoList, TypesOK, FileOK
  <2> DEFINE s == StateData(chunks, FALSE, alive)
  <2>2. s \in SaveType /\ \A D : Got(chunks) \subseteq D => Claims(s, D)
    BY <2>1, StateDataFacts
  <2> HIDE DEF s
  <2>3. file' = SaveState(file, s)
    BY <1>2 DEF s
  <2>4. file' \in FileType
    BY <2>1, <2>2, <2>3, SaveTypes
  <2>5. ASSUME Many PROVE Backed(dl_state', chunks', file')
    <3>1. Got(chunks) \subseteq file.disk \cup file.pdata /\ DiskOK(file)
      BY <1>1, <2>5 DEF Inv, FileOK, Backed
    <3>2. Same(file, file')
      BY <2>1, <2>2, <2>3, <3>1, SaveStateFacts
    <3>3. Got(chunks') \subseteq file'.disk \cup file'.pdata /\ DiskOK(file')
      BY <1>2, <3>1, <3>2 DEF Same
    <3> QED BY <1>1, <1>2, <3>3 DEF Backed
  <2>6. Unfinished(chunks)
    BY <1>1 DEF Inv, RunOK
  <2>7. /\ run' \in RunType /\ run'.pc = "maintain" /\ Leaving(run') = {}
    <3>1. Calling("maintain", {}) \in RunType /\ Calling("maintain", {}).pc = "maintain"
      BY QuietFacts
    <3>2. run' \in RunType /\ run'.pc = "maintain"
      BY <1>2, <3>1 DEF RunType
    <3> QED BY <3>2 DEF Leaving
  <2>8. RunOK(run', dl_state', alive', chunks')
    BY <1>1, <1>2, <2>6, <2>7 DEF RunOK, Phases
  <2>9. Linked(Doing(chunks'), alive', view', Leaving(run'))
    BY <1>1, <1>2, <2>7 DEF Inv, Leaving
  <2>10. /\ TypesOK(alive', view', dl_state', aborted') /\ ListOK(dl_state', chunks', received')
         /\ Doing(chunks') # {} => dl_state' = "ACTIVE"
         /\ Cardinality(Transferring(alive', view')) <= MaxSources
    BY <1>1, <1>2 DEF Inv
  <2>11. FileOK(dl_state', chunks', file')
    BY <2>4, <2>5 DEF FileOK
  <2> QED BY <2>8, <2>9, <2>10, <2>11 DEF Inv
<1>3. CASE /\ view' = StoppedView
           /\ \E f \in FailedSave(file) : Pause(f, UnassignAll, alive)
  <2> DEFINE q == UnassignAll
             v == StoppedView
  <2>1. view' = v /\ \E f \in FailedSave(file) : Pause(f, q, alive)
    BY <1>3
  <2> HIDE DEF q, v
  <2>2. /\ ChunkList(q) /\ Got(q) = Got(chunks) /\ Doing(q) = {}
        /\ received = Cardinality(Got(q))
        /\ TypesOK(alive, v, "PAUSED", aborted) /\ Linked({}, alive, v, {})
        /\ Cardinality(Transferring(alive, v)) <= MaxSources
        /\ file \in FileType
        /\ Many => Got(q) \subseteq file.disk \cup file.pdata /\ DiskOK(file)
        /\ alive \in SUBSET Conns /\ IsFiniteSet(alive)
    BY <1>1, AllStopped DEF q, v
  <2>3. PICK f \in FailedSave(file) : Pause(f, q, alive)
    BY <2>1
  <2>4. Same(file, f)
    BY <2>2, FailedSaveFacts
  <2>5. f \in FileType
    BY <2>4 DEF Same
  <2>6. Parked(f, q)
    BY <2>2, <2>3, <2>5, PauseFacts
  <2>7. Parked(file, q)
    BY <2>4, <2>6, ParkedOver
  <2> QED BY <1>1, <2>1, <2>2, <2>7, ParkedInv
<1> QED BY <1>2, <1>3 DEF MaintenanceTimer

(* A busy connection has one chunk, and the download is active. *)
LEMMA BusyFacts ==
    ASSUME Inv, run.pc # "disassociate", NEW c \in Conns, view[c].state \in BusyStates
    PROVE  /\ dl_state = "ACTIVE" /\ Solid(chunks) /\ ChunkList(chunks) /\ c \in alive
           /\ ChunkOf(c) \in 1 .. Len(chunks) /\ chunks[ChunkOf(c)] \in Doing(chunks)
           /\ chunks[ChunkOf(c)].conn = c /\ Serves(view[c], chunks[ChunkOf(c)])
           /\ chunks[ChunkOf(c)] \in ChunkRec
           /\ c \in Assigned
<1>0. Linked(Doing(chunks), alive, view, {}) /\ TypesOK(alive, view, dl_state, aborted)
  BY DEF Inv, Leaving
<1>1. PICK x \in Doing(chunks) : x.conn = c
  BY <1>0 DEF Linked
<1>2. dl_state = "ACTIVE"
  BY <1>1 DEF Inv
<1>3. ChunkList(chunks)
  BY <1>2 DEF Inv, ListOK, NoList
<1>4. DOMAIN chunks = 1 .. Len(chunks) /\ \A i \in 1 .. Len(chunks) : chunks[i] \in ChunkRec
  BY <1>3, ChunkListFacts
<1>5. x \in ToSet(chunks) /\ x.conn # NoConn
  BY <1>1 DEF Doing, Working
<1>6. PICK j \in 1 .. Len(chunks) : chunks[j] = x
  BY <1>4, <1>5 DEF ToSet
<1>7. j \in ChunksOf(c)
  BY <1>1, <1>4, <1>6 DEF ChunksOf
<1>8. ChunkOf(c) \in ChunksOf(c)
  BY <1>7 DEF ChunkOf
<1> DEFINE i == ChunkOf(c)
<1>9. i \in 1 .. Len(chunks) /\ chunks[i].conn = c /\ chunks[i] \in ChunkRec
  BY <1>4, <1>8 DEF ChunksOf
<1> HIDE DEF i
<1>10. chunks[i] \in Doing(chunks)
  BY <1>4, <1>9, DownloadAssumption DEF Doing, Working, ToSet
<1>11. Serves(view[c], chunks[i]) /\ c \in alive
  BY <1>0, <1>9, <1>10 DEF Linked
<1>12. Solid(chunks)
  <2>1. ~Loaded(chunks)
    BY <1>5, <1>6 DEF Loaded
  <2> QED BY <1>3, <2>1 DEF ChunkList
<1>13. c \in Assigned
  BY <1>7 DEF Assigned
<1> QED BY <1>2, <1>3, <1>9, <1>10, <1>11, <1>12, <1>13 DEF i

(* A failed write, which pauses the download, keeps it. *)
LEMMA WriteFailsInv == ASSUME Inv, NEW c \in Conns, WriteFails(c) PROVE Inv'
<1> DEFINE q == UnassignAll
           v == StoppedView
           u == [v EXCEPT ![c].fail = 0]
<1>1. /\ run.pc = "idle" /\ view[c].state \in BusyStates /\ c \in alive
      /\ alive' = alive /\ received' = received /\ aborted' = aborted
      /\ view' = u /\ \E f \in FailedSave(file) : Pause(f, q, alive)
  BY DEF WriteFails, At, BusyStates
<1>2. dl_state \in LiveStates
  BY <1>1, BusyFacts DEF LiveStates
<1>3. alive \subseteq Conns /\ view \in [Conns -> View] /\ Linked(Doing(chunks), alive, view, {})
  BY <1>1 DEF Inv, TypesOK, Leaving
<1>4. u \in [Conns -> View] /\ Linked({}, alive, u, {}) /\ Transferring(alive, u) = {}
  BY <1>1, <1>3, StoppedFacts
<1> HIDE DEF q, v, u
<1>5. /\ ChunkList(q) /\ Got(q) = Got(chunks) /\ Doing(q) = {}
      /\ received = Cardinality(Got(q))
      /\ TypesOK(alive, v, "PAUSED", aborted)
      /\ file \in FileType
      /\ Many => Got(q) \subseteq file.disk \cup file.pdata /\ DiskOK(file)
      /\ alive \in SUBSET Conns /\ IsFiniteSet(alive)
  BY <1>1, <1>2, AllStopped DEF q, v
<1>6. TypesOK(alive, u, "PAUSED", aborted)
  BY <1>4, <1>5 DEF TypesOK
<1>7. Cardinality(Transferring(alive, u)) <= MaxSources
  BY <1>4, <1>5, LimitKept DEF Inv
<1>8. PICK f \in FailedSave(file) : Pause(f, q, alive)
  BY <1>1
<1>9. Same(file, f)
  BY <1>5, FailedSaveFacts
<1>10. f \in FileType
  BY <1>9 DEF Same
<1>11. Parked(f, q)
  BY <1>5, <1>8, <1>10, PauseFacts
<1>12. Parked(file, q)
  BY <1>9, <1>11, ParkedOver
<1> QED BY <1>1, <1>4, <1>5, <1>6, <1>7, <1>12, ParkedInv

(* as_download_cancel keeps it. *)
LEMMA CancelInv == ASSUME Inv, CancelRequest PROVE Inv'
<1> DEFINE q == UnassignAll
           v == StoppedView
<1>1. /\ dl_state \in LiveStates /\ run.pc = "idle" /\ view' = v /\ chunks' = q
      /\ dl_state' = "CANCELLED" /\ file' = NoFile /\ run' = run
      /\ alive' = alive /\ received' = received /\ aborted' = aborted
  BY DEF CancelRequest, At
<1> HIDE DEF q, v
<1>2. /\ ChunkList(q) /\ Got(q) = Got(chunks) /\ Doing(q) = {}
      /\ received = Cardinality(Got(q))
      /\ TypesOK(alive, v, "PAUSED", aborted) /\ Linked({}, alive, v, {})
      /\ Cardinality(Transferring(alive, v)) <= MaxSources
  BY <1>1, AllStopped DEF q, v
<1>3. TypesOK(alive', view', dl_state', aborted') /\ ListOK(dl_state', chunks', received')
  BY <1>1, <1>2 DEF TypesOK, States, EndStates, ListOK, NoList
<1>4. RunOK(run', dl_state', alive', chunks') /\ Leaving(run') = {}
  <2>1. run \in RunType /\ run.pc = "idle" /\ run.timer = FALSE
    BY <1>1 DEF Inv, RunOK
  <2> QED BY <1>1, <2>1, IdleRun
<1>5. FileOK(dl_state', chunks', file')
  <2>1. file' \in FileType /\ DiskOK(file')
    BY <1>1, NoFileFacts
  <2> QED BY <1>1, <2>1 DEF FileOK, Backed, LiveStates
<1> QED BY <1>1, <1>2, <1>3, <1>4, <1>5 DEF Inv

(* The limit is a number. *)
LEMMA LimitFacts == 0 <= MaxSources
BY DownloadAssumption

(* A download that is not started has no connection and no list. *)
LEMMA FreshFacts ==
    ASSUME NEW v, v = [c \in Conns |-> NewView], NEW ab \in {"no", "chunk list"}
    PROVE  /\ TypesOK({}, v, "NEW", ab) /\ ListOK("NEW", <<>>, 0) /\ Doing(<<>>) = {}
           /\ Linked({}, {}, v, {}) /\ RunOK(Quiet, "NEW", {}, <<>>) /\ Leaving(Quiet) = {}
           /\ Cardinality(Transferring({}, v)) <= MaxSources
<1>1. v \in [Conns -> View] /\ \A c \in Conns : v[c].state = "UNUSED" /\ v[c].fail < SourceMaxFail
  BY NewViewFacts
<1>2. TypesOK({}, v, "NEW", ab)
  BY <1>1, FS_EmptySet DEF TypesOK, States
<1>3. Doing(<<>>) = {}
  BY EmptyTiles DEF Doing, Working
<1>4. Linked({}, {}, v, {})
  <2>1. \A c \in Conns : v[c].state \notin BusyStates
    BY <1>1 DEF BusyStates
  <2>2. \A c \in Conns \ {} : v[c].fail < SourceMaxFail
    BY <1>1
  <2> QED BY <2>1, <2>2 DEF Linked
<1>5. RunOK(Quiet, "NEW", {}, <<>>) /\ Leaving(Quiet) = {}
  BY QuietFacts, IdleRun
<1>6. Cardinality(Transferring({}, v)) <= MaxSources
  <2>1. Transferring({}, v) = {}
    BY DEF Transferring
  <2>2. Cardinality({}) = 0
    BY FS_EmptySet
  <2>3. 0 <= MaxSources
    BY LimitFacts
  <2> QED BY <2>1, <2>2, <2>3
<1>7. ListOK("NEW", <<>>, 0)
  BY DEF ListOK, NoList
<1> QED BY <1>2, <1>3, <1>4, <1>5, <1>6, <1>7

(* The invariant holds at the start. *)
LEMMA InitInv == DownloadInit => Inv
<1> SUFFICES ASSUME DownloadInit PROVE Inv
  OBVIOUS
<1>1. /\ alive = {} /\ view = [c \in Conns |-> NewView] /\ dl_state = "NEW"
      /\ received = 0 /\ chunks = <<>> /\ run = Quiet /\ file = NoFile /\ aborted = "no"
  BY DEF DownloadInit, IfaceInit
<1>2. FileOK("NEW", <<>>, NoFile)
  BY NoFileFacts DEF FileOK, Backed, LiveStates
<1> QED BY <1>1, <1>2, FreshFacts DEF Inv

(* Freeing an ended download keeps it. *)
LEMMA DiscardInv == ASSUME Inv, Discard PROVE Inv'
<1>1. /\ alive' = {} /\ view' = [c \in Conns |-> NewView] /\ dl_state' = "NEW"
      /\ received' = 0 /\ chunks' = <<>> /\ run' = run /\ file' = NoFile /\ aborted' = aborted
      /\ run.pc = "idle"
  BY DEF Discard, At
<1>2. FileOK("NEW", <<>>, NoFile)
  BY NoFileFacts DEF FileOK, Backed, LiveStates
<1>3. aborted \in {"no", "chunk list"} /\ run \in RunType /\ run.timer = FALSE
  BY <1>1 DEF Inv, TypesOK, RunOK
<1>4. RunOK(run', "NEW", {}, <<>>) /\ Leaving(run') = {}
  BY <1>1, <1>3, IdleRun
<1> QED BY <1>1, <1>2, <1>3, <1>4, FreshFacts DEF Inv

(* The end of the process, in which buffered data may be lost, keeps it. *)
LEMMA ExitInv == ASSUME Inv, Exit PROVE Inv'
<1>1. /\ alive' = {} /\ view' = [c \in Conns |-> NewView] /\ dl_state' = "NEW"
      /\ received' = 0 /\ chunks' = <<>> /\ run' = Quiet /\ aborted' = aborted
  BY DEF Exit
<1>2. aborted \in {"no", "chunk list"} /\ file \in FileType /\ (Many => DiskOK(file))
  BY DEF Inv, TypesOK, FileOK, Backed
<1>3. PICK f \in {Flush(file), [file EXCEPT !.pdata = {}, !.psaved = NoState]} :
          file' = f \/ file' = [f EXCEPT !.saved = NoState]
  BY DEF Exit
<1>4. f \in FileType /\ (Many => DiskOK(f))
  <2>1. CASE f = Flush(file)
    BY <1>2, <2>1, FlushFacts DEF Same
  <2>2. CASE f = [file EXCEPT !.pdata = {}, !.psaved = NoState]
    <3>1. f \in FileType /\ f.disk = file.disk /\ f.saved = file.saved /\ f.psaved = NoState
      BY <1>2, <2>2, NoStateFacts DEF FileType
    <3>2. Claims(f.psaved, f.disk)
      BY <3>1, NoStateFacts
    <3> QED BY <1>2, <3>1, <3>2 DEF DiskOK
  <2> QED BY <2>1, <2>2
<1>5. file' \in FileType /\ (Many => DiskOK(file'))
  <2>1. CASE file' = f
    BY <1>4, <2>1
  <2>2. CASE file' = [f EXCEPT !.saved = NoState]
    <3>1. /\ file' \in FileType /\ file'.disk = f.disk
          /\ file'.saved = NoState /\ file'.psaved = f.psaved
      BY <1>4, <2>2, NoStateFacts DEF FileType
    <3>2. Claims(file'.saved, file'.disk)
      BY <3>1, NoStateFacts
    <3> QED BY <1>4, <3>1, <3>2 DEF DiskOK
  <2> QED BY <1>3, <2>1, <2>2
<1>6. FileOK("NEW", <<>>, file')
  BY <1>5 DEF FileOK, Backed, LiveStates
<1> QED BY <1>1, <1>2, <1>6, FreshFacts DEF Inv

-----------------------------------------------------------------------------
(* Chunks and connections after a step of one connection                   *)

(* Connection c gives its chunk up, or never had one. *)
LEMMA LinkedOff ==
    ASSUME NEW S, NEW al, NEW v, NEW c \in Conns, NEW lv \in SUBSET {c}, Linked(S, al, v, lv),
           NEW T, \A x : x \in T <=> x \in S /\ x.conn # c,
           \A x \in T : x.conn \in Conns,
           NEW u, \A d \in Conns : d # c => u[d] = v[d],
           u[c].state \in IdleStates, u[c].fail < SourceMaxFail,
           NEW bl, \A d \in al : d # c => d \in bl
    PROVE  Linked(T, bl, u, {})
<1>1. \A d \in Conns : d # c => d \in Conns \ lv /\ d \notin lv
  OBVIOUS
<1>2. \A x, y \in T : x.conn = y.conn => x = y
  BY DEF Linked
<1>3. ASSUME NEW x \in T PROVE x.conn \in bl /\ Serves(u[x.conn], x)
  <2>1. x \in S /\ x.conn # c /\ x.conn \in Conns
    OBVIOUS
  <2>2. x.conn \in al /\ Serves(v[x.conn], x)
    BY <1>1, <2>1 DEF Linked
  <2>3. u[x.conn] = v[x.conn]
    BY <2>1
  <2> QED BY <2>1, <2>2, <2>3
<1>4. ASSUME NEW d \in Conns, u[d].state \in BusyStates PROVE \E x \in T : x.conn = d
  <2>1. d # c
    BY <1>4 DEF BusyStates, IdleStates
  <2>2. v[d].state \in BusyStates
    BY <1>4, <2>1
  <2>3. PICK x \in S : x.conn = d
    BY <2>2 DEF Linked
  <2> QED BY <2>1, <2>3
<1>5. ASSUME NEW d \in Conns PROVE u[d].fail < SourceMaxFail
  <2>1. CASE d = c
    BY <2>1
  <2>2. CASE d # c
    BY <1>1, <2>2 DEF Linked
  <2> QED BY <2>1, <2>2
<1> QED BY <1>2, <1>3, <1>4, <1>5 DEF Linked

(* Chunk x of connection c becomes y, which c goes on with, or leaves. *)
LEMMA LinkedPut ==
    ASSUME NEW S, NEW al, NEW v, NEW c \in Conns, Linked(S, al, v, {}),
           NEW x \in S, x.conn = c, NEW y, y.conn = c,
           NEW T, \A z : z \in T <=> (z \in S /\ z # x) \/ z = y,
           NEW u, \A d \in Conns : d # c => u[d] = v[d],
           NEW lv, \/ lv = {} /\ Serves(u[c], y) /\ u[c].fail < SourceMaxFail
                   \/ lv = {c} /\ u[c].state \in IdleStates,
           al \subseteq Conns
    PROVE  Linked(T, al, u, lv)
<1>1. \A z \in S : z # x => z.conn # c
  BY DEF Linked
<1>2. ASSUME NEW z1 \in T, NEW z2 \in T, z1.conn = z2.conn PROVE z1 = z2
  <2>1. z1 = y \/ (z1 \in S /\ z1.conn # c)
    BY <1>1
  <2>2. z2 = y \/ (z2 \in S /\ z2.conn # c)
    BY <1>1
  <2> QED BY <1>2, <2>1, <2>2 DEF Linked
<1>3. c \in al /\ \A z \in S : z.conn \in al /\ Serves(v[z.conn], z)
  BY DEF Linked
<1>4. ASSUME NEW z \in T PROVE z.conn \in al /\ (z.conn \notin lv => Serves(u[z.conn], z))
  <2>1. CASE z = y
    BY <1>3, <2>1
  <2>2. CASE z # y
    <3>1. z \in S /\ z.conn # c
      BY <1>1, <2>2
    <3>2. z.conn \in al /\ z.conn \in Conns /\ Serves(v[z.conn], z)
      BY <1>3, <3>1
    <3> QED BY <3>1, <3>2
  <2> QED BY <2>1, <2>2
<1>5. ASSUME NEW d \in Conns, u[d].state \in BusyStates PROVE \E z \in T : z.conn = d
  <2>1. CASE d = c
    BY <2>1
  <2>2. CASE d # c
    <3>1. v[d].state \in BusyStates
      BY <1>5, <2>2
    <3>2. PICK z \in S : z.conn = d
      BY <3>1 DEF Linked
    <3> QED BY <2>2, <3>2
  <2> QED BY <2>1, <2>2
<1>6. ASSUME NEW d \in Conns \ lv PROVE u[d].fail < SourceMaxFail
  <2>1. CASE d = c
    BY <2>1
  <2>2. CASE d # c
    <3>1. v[d].fail < SourceMaxFail
      BY DEF Linked
    <3> QED BY <2>2, <3>1
  <2> QED BY <2>1, <2>2
<1>7. ASSUME NEW d \in lv PROVE u[d].state \in IdleStates /\ \E z \in T : z.conn = d
  <2>1. d = c /\ u[c].state \in IdleStates
    OBVIOUS
  <2>2. y \in T
    OBVIOUS
  <2> QED BY <2>1, <2>2
<1> QED BY <1>2, <1>4, <1>5, <1>6, <1>7 DEF Linked

(* Connection c, which had no chunk, gets chunk y. *)
LEMMA LinkedNew ==
    ASSUME NEW S, NEW al, NEW v, NEW c \in al, Linked(S, al, v, {}),
           \A x \in S : x.conn # c, NEW y, y.conn = c,
           NEW T, \A z : z \in T <=> z \in S \/ z = y,
           NEW u, \A d \in Conns : d # c => u[d] = v[d],
           Serves(u[c], y), u[c].fail < SourceMaxFail, al \subseteq Conns
    PROVE  Linked(T, al, u, {})
<1>1. ASSUME NEW z1 \in T, NEW z2 \in T, z1.conn = z2.conn PROVE z1 = z2
  BY <1>1 DEF Linked
<1>2. ASSUME NEW z \in T PROVE z.conn \in al /\ Serves(u[z.conn], z)
  <2>1. CASE z = y
    BY <2>1
  <2>2. CASE z # y
    <3>1. z \in S
      BY <2>2
    <3>2. z.conn \in al /\ z.conn # c /\ Serves(v[z.conn], z)
      BY <3>1 DEF Linked
    <3> QED BY <3>2
  <2> QED BY <2>1, <2>2
<1>3. ASSUME NEW d \in Conns, u[d].state \in BusyStates PROVE \E z \in T : z.conn = d
  <2>1. CASE d = c
    BY <2>1
  <2>2. CASE d # c
    <3>1. v[d].state \in BusyStates
      BY <1>3, <2>2
    <3>2. PICK z \in S : z.conn = d
      BY <3>1 DEF Linked
    <3> QED BY <3>2
  <2> QED BY <2>1, <2>2
<1>4. ASSUME NEW d \in Conns PROVE u[d].fail < SourceMaxFail
  <2>1. CASE d = c
    BY <2>1
  <2>2. CASE d # c
    <3>1. v[d].fail < SourceMaxFail
      BY DEF Linked
    <3> QED BY <2>2, <3>1
  <2> QED BY <2>1, <2>2
<1> QED BY <1>1, <1>2, <1>3, <1>4 DEF Linked

(* The connections of chunks are connections. *)
LEMMA DoingFacts ==
    ASSUME NEW q, ChunkList(q), NEW x \in Doing(q)
    PROVE  x \in ChunkRec /\ x.conn \in Conns /\ \E i \in 1 .. Len(q) : q[i] = x
<1>1. DOMAIN q = 1 .. Len(q) /\ \A i \in 1 .. Len(q) : q[i] \in ChunkRec
  BY ChunkListFacts
<1>2. x \in ToSet(q) /\ x.conn # NoConn
  BY DEF Doing, Working
<1>3. PICK i \in 1 .. Len(q) : q[i] = x
  BY <1>1, <1>2 DEF ToSet
<1> QED BY <1>1, <1>2, <1>3 DEF ChunkRec

(* At most one connection more transfers. *)
LEMMA LimitOneMore ==
    ASSUME IsFiniteSet(alive), Cardinality(Transferring(alive, view)) + 1 < MaxSources,
           NEW c, NEW u, Transferring(alive, u) \subseteq Transferring(alive, view) \cup {c}
    PROVE  Cardinality(Transferring(alive, u)) <= MaxSources
<1> DEFINE A == Transferring(alive, view)
           B == A \cup {c}
<1>1. IsFiniteSet(A)
  BY FS_Subset DEF Transferring
<1>2. IsFiniteSet(B) /\ Cardinality(B) \in {Cardinality(A), Cardinality(A) + 1}
  BY <1>1, FS_AddElement
<1>3. Cardinality(A) \in Nat /\ Cardinality(B) \in Nat
  BY <1>1, <1>2, FS_CardinalityType
<1> HIDE DEF A, B
<1>4. /\ IsFiniteSet(Transferring(alive, u))
      /\ Cardinality(Transferring(alive, u)) <= Cardinality(B)
  BY <1>2, FS_Subset DEF A, B
<1>5. Cardinality(Transferring(alive, u)) \in Nat
  BY <1>4, FS_CardinalityType
<1>6. Cardinality(A) + 1 < MaxSources /\ MaxSources \in Nat
  BY DownloadAssumption DEF A
<1> QED BY <1>2, <1>3, <1>4, <1>5, <1>6

(* The list of a download that was just started *)
LEMMA WholeFacts ==
    LET q == <<Chunk(0, FileSize, 0)>> IN
    /\ ChunkList(q) /\ Got(q) = {} /\ Doing(q) = {} /\ Missing(q) /\ Cardinality(Got(q)) = 0
<1> DEFINE ch == Chunk(0, FileSize, 0)
           q == <<ch>>
<1>1. /\ ch \in ChunkRec /\ ch.start = 0 /\ ch.size = FileSize /\ ch.received = 0
      /\ ch.conn = NoConn /\ EndOf(ch) = FileSize /\ ch.received <= ch.size
      /\ FileSize \in Nat /\ FileSize > 0
  <2>1. FileSize \in Nat /\ FileSize > 0
    BY IfaceAssumption
  <2> QED BY <2>1 DEF Chunk, ChunkRec, EndOf
<1>2. ~IsComplete(ch)
  BY <1>1 DEF IsComplete
<1>3. Prefix(ch) = {}
  <2>1. \A k : k \in Prefix(ch) <=> k \in Nat /\ ch.start <= k /\ k < WritePos(ch)
    <3> HIDE DEF ch
    <3> QED BY <1>1, PrefixFacts
  <2>2. WritePos(ch) = 0
    BY <1>1 DEF WritePos
  <2> QED BY <1>1, <2>1, <2>2
<1> HIDE DEF ch
<1>4. Tiles(q, 0, FileSize) /\ ToSet(q) = {ch}
  BY <1>1, SingleTiles
<1>5. Len(q) = 1 /\ q[1] = ch /\ DOMAIN q = 1 .. 1
  OBVIOUS
<1>6. Solid(q)
  BY <1>1, <1>5 DEF Solid
<1>7. Doing(q) = {}
  BY <1>1, <1>4 DEF Doing, Working
<1>8. Got(q) = {}
  BY <1>3, <1>5 DEF Got
<1>9. Missing(q)
  BY <1>2, <1>5 DEF Missing
<1>10. Cardinality(Got(q)) = 0
  BY <1>8, FS_EmptySet
<1>11. FineList(q)
  BY <1>1, <1>5 DEF FineList, Fine
<1> QED BY <1>4, <1>6, <1>7, <1>8, <1>9, <1>10, <1>11 DEF ChunkList, ch

(* Starting a new download keeps it. *)
LEMMA StartDownloadInv == ASSUME Inv, StartDownload PROVE Inv'
<1> DEFINE new == [NoFile EXCEPT !.exists = TRUE]
           whole == <<Chunk(0, FileSize, 0)>>
           data == StateData(whole, FALSE, alive)
<1>1. /\ run.pc = "idle" /\ dl_state = "NEW"
      /\ alive' = alive /\ view' = view /\ received' = received /\ aborted' = aborted
      /\ \/ /\ chunks' = whole
            /\ dl_state' = "ACTIVE"
            /\ file' = SaveState(new, data)
            /\ run' = Calling("maintain", {})
         \/ /\ chunks' = whole
            /\ dl_state' = "QUEUED"
            /\ file' = SaveState(SaveState(new, data), data)
            /\ run' = Quiet
         \/ Pause(new, whole, alive)
         \/ \E f \in FailedSave(SaveState(new, data)) : Pause(f, whole, alive)
  BY DEF StartDownload, At
<1>2. /\ ChunkList(whole) /\ Got(whole) = {} /\ Doing(whole) = {} /\ Missing(whole)
      /\ Cardinality(Got(whole)) = 0
  BY WholeFacts
<1>3. TypesOK(alive, view, "PAUSED", aborted) /\ alive \in SUBSET Conns /\ IsFiniteSet(alive)
  BY DEF Inv, TypesOK, States, LiveStates
<1>4. received = 0 /\ Linked({}, alive, view, {})
      /\ Cardinality(Transferring(alive, view)) <= MaxSources
  <2>1. received = 0 /\ chunks = <<>>
    BY <1>1 DEF Inv, ListOK, NoList
  <2>2. Doing(chunks) = {}
    BY <2>1, EmptyTiles DEF Doing, Working
  <2> QED BY <1>1, <2>1, <2>2 DEF Inv, Leaving
<1>5. new \in FileType /\ DiskOK(new)
  BY NoFileFacts
<1>6. data \in SaveType /\ \A D : Claims(data, D)
  BY <1>2, <1>3, StateDataFacts
<1> HIDE DEF new, whole, data
<1>7. Same(new, SaveState(new, data))
  BY <1>5, <1>6, SaveStateFacts
<1>8. SaveState(new, data) \in FileType /\ DiskOK(SaveState(new, data))
  BY <1>5, <1>7 DEF Same
<1>9. CASE /\ chunks' = whole
           /\ \/ /\ dl_state' = "ACTIVE"
                 /\ file' = SaveState(new, data)
                 /\ run' = Calling("maintain", {})
              \/ /\ dl_state' = "QUEUED"
                 /\ file' = SaveState(SaveState(new, data), data)
                 /\ run' = Quiet
  <2>1. file' \in FileType /\ DiskOK(file')
    <3>1. Same(SaveState(new, data), SaveState(SaveState(new, data), data))
      BY <1>6, <1>8, SaveStateFacts
    <3>2. CASE file' = SaveState(new, data)
      BY <1>8, <3>2
    <3>3. CASE file' = SaveState(SaveState(new, data), data)
      BY <1>8, <3>1, <3>3 DEF Same
    <3> QED BY <1>9, <3>2, <3>3
  <2>2. FileOK(dl_state', chunks', file')
    BY <1>2, <1>9, <2>1 DEF FileOK, Backed
  <2>3. RunOK(run', dl_state', alive', chunks') /\ Leaving(run') = {}
    <3>1. CASE dl_state' = "ACTIVE" /\ run' = Calling("maintain", {})
      BY <3>1, CallRun, QuietFacts
    <3>2. CASE dl_state' = "QUEUED" /\ run' = Quiet
      BY <3>2, QuietFacts, IdleRun
    <3> QED BY <1>9, <3>1, <3>2
  <2>4. TypesOK(alive', view', dl_state', aborted') /\ ListOK(dl_state', chunks', received')
    BY <1>1, <1>2, <1>3, <1>4, <1>9 DEF TypesOK, ListOK, NoList, States, LiveStates
  <2> QED BY <1>1, <1>2, <1>4, <1>9, <2>2, <2>3, <2>4 DEF Inv
<1>10. CASE Pause(new, whole, alive) \/ \E f \in FailedSave(SaveState(new, data)) : Pause(f, whole, alive)
  <2>1. Parked(new, whole)
    <3>1. CASE Pause(new, whole, alive)
      BY <1>2, <1>3, <1>5, <3>1, PauseFacts
    <3>2. CASE \E f \in FailedSave(SaveState(new, data)) : Pause(f, whole, alive)
      <4>1. PICK f \in FailedSave(SaveState(new, data)) : Pause(f, whole, alive)
        BY <3>2
      <4>2. Same(SaveState(new, data), f)
        BY <1>8, FailedSaveFacts
      <4>3. Same(new, f) /\ f \in FileType
        BY <1>7, <4>2, SameTrans DEF Same
      <4>4. Parked(f, whole)
        BY <1>2, <1>3, <4>1, <4>3, PauseFacts
      <4> QED BY <4>3, <4>4, ParkedOver
    <3> QED BY <1>10, <3>1, <3>2
  <2>2. Many => Got(whole) \subseteq new.disk \cup new.pdata /\ DiskOK(new)
    BY <1>2, <1>5
  <2> QED BY <1>1, <1>2, <1>3, <1>4, <2>1, <2>2, ParkedInv
<1> QED BY <1>1, <1>9, <1>10

(* Restarting from the incomplete file keeps it: the ranges loaded claim *)
(* no more than the disk has.                                            *)
LEMMA RestartInv == ASSUME Inv, Restart PROVE Inv'
<1> DEFINE s == file.saved
           l == Load(s)
           q == l.chunks
           al == RestoredSources(s)
<1>1. /\ run.pc = "idle" /\ dl_state = "NEW" /\ view' = view /\ aborted' = aborted
      /\ \/ /\ ~l.ok
            /\ dl_state' = "LOST"
            /\ UNCHANGED <<alive, received, chunks, run, file>>
         \/ /\ l.ok /\ alive' = al /\ received' = SumReceived(q)
            /\ \/ /\ chunks' = q
                  /\ dl_state' = IF s.paused THEN "PAUSED" ELSE "ACTIVE"
                  /\ run' = IF s.paused THEN Quiet ELSE Calling("maintain", {})
                  /\ UNCHANGED file
               \/ /\ ~s.paused
                  /\ Queue(file, q, al, FALSE)
  BY DEF Restart, At
<1>2. received = 0 /\ chunks = <<>> /\ Doing(chunks) = {}
  <2>1. received = 0 /\ chunks = <<>>
    BY <1>1 DEF Inv, ListOK, NoList
  <2>2. Doing(chunks) = {}
    BY <2>1, EmptyTiles DEF Doing, Working
  <2> QED BY <2>1, <2>2
<1>3. /\ Linked({}, alive, view, {}) /\ TypesOK(alive, view, "NEW", aborted)
      /\ run \in RunType /\ run.timer = FALSE /\ file \in FileType
      /\ Many => DiskOK(file)
  BY <1>1, <1>2 DEF Inv, RunOK, FileOK, Backed, Leaving
<1>4. /\ s \in SaveType /\ s.ok \in BOOLEAN /\ s.sources \subseteq Conns
      /\ IsFiniteSet(s.sources) /\ RangesOK(s.ranges)
  <2>1. s \in SaveType
    BY <1>3, FileTypeFacts
  <2> HIDE DEF s
  <2> QED BY <2>1, SaveTypeFacts
<1>5. CASE ~l.ok /\ dl_state' = "LOST" /\ UNCHANGED <<alive, received, chunks, run, file>>
  <2> HIDE DEF l
  <2>1. RunOK(run', dl_state', alive', chunks') /\ Leaving(run') = {}
    BY <1>1, <1>3, <1>5, IdleRun
  <2>2. FileOK(dl_state', chunks', file')
    BY <1>3, <1>5 DEF FileOK, Backed, LiveStates
  <2>3. TypesOK(alive', view', dl_state', aborted') /\ ListOK(dl_state', chunks', received')
    BY <1>1, <1>2, <1>3, <1>5 DEF TypesOK, ListOK, NoList, States
  <2>4. Cardinality(Transferring(alive', view')) <= MaxSources
    BY <1>1, <1>5 DEF Inv
  <2> QED BY <1>1, <1>2, <1>3, <1>5, <2>1, <2>2, <2>3, <2>4 DEF Inv
<1>6. CASE /\ l.ok /\ alive' = al /\ received' = SumReceived(q)
           /\ \/ /\ chunks' = q
                 /\ dl_state' = IF s.paused THEN "PAUSED" ELSE "ACTIVE"
                 /\ run' = IF s.paused THEN Quiet ELSE Calling("maintain", {})
                 /\ UNCHANGED file
              \/ /\ ~s.paused
                 /\ Queue(file, q, al, FALSE)
  <2>1. /\ Sane(l) /\ s.ok
        /\ Many /\ Sorted(s.ranges) => Got(q) \subseteq Blocks \ Listed(s.ranges)
    <3>1. /\ Sane(l) /\ (l.ok => s.ok)
          /\ Many /\ s.ok /\ l.ok /\ Sorted(s.ranges) =>
                Got(q) \subseteq Blocks \ Listed(s.ranges)
      <4> HIDE DEF s
      <4> QED BY <1>4, LoadFacts
    <3> HIDE DEF l
    <3> QED BY <1>6, <3>1
  <2> HIDE DEF l
  <2>2. ChunkList(q) /\ Tiles(q, 0, FileSize) /\ Doing(q) = {}
    <3>1. Tiles(q, 0, FileSize) /\ Loaded(q) /\ FineList(q)
      BY <2>1 DEF Sane
    <3>2. q \in Seq(ChunkRec) /\ DOMAIN q = 1 .. Len(q)
      BY <3>1, TilesType
    <3> HIDE DEF q
    <3>3. Working(ToSet(q)) = {}
      BY <3>1, <3>2 DEF Working, ToSet, Loaded
    <3> QED BY <3>1, <3>3 DEF ChunkList, Doing
  <2> HIDE DEF q, s
  <2>3. received' = Cardinality(Got(q))
    BY <1>6, <2>2, SumFacts, IfaceAssumption
  <2>4. Many => Got(q) \subseteq file.disk \cup file.pdata /\ DiskOK(file)
    <3>1. ASSUME Many PROVE Got(q) \subseteq file.disk
      <4>1. Claims(s, file.disk)
        BY <1>3, <3>1 DEF DiskOK, s
      <4> QED BY <2>1, <3>1, <4>1 DEF Claims
    <3> QED BY <1>3, <3>1
  <2>5. al \in SUBSET Conns /\ IsFiniteSet(al)
    <3>1. al \subseteq s.sources
      BY DEF RestoredSources
    <3> QED BY <1>4, <3>1, FS_Subset
  <2> HIDE DEF al
  <2>6. Linked({}, al, view, {}) /\ Transferring(al, view) = {}
    <3>1. \A c \in Conns : view[c].state \notin BusyStates
      BY <1>3 DEF Linked
    <3>2. \A c \in Conns \ {} : view[c].fail < SourceMaxFail
      BY <1>3 DEF Linked
    <3>3. Linked({}, al, view, {})
      BY <3>1, <3>2 DEF Linked
    <3>4. \A c \in al : view[c].state # "TRANSFERRING"
      BY <2>5, <3>1 DEF BusyStates
    <3> QED BY <3>3, <3>4 DEF Transferring
  <2>7. \A st \in {"PAUSED", "ACTIVE"} : TypesOK(al, view, st, aborted)
    BY <1>3, <2>5 DEF TypesOK, States, LiveStates
  <2>8. Cardinality(Transferring(al, view)) <= MaxSources
    BY <2>6, FS_EmptySet, LimitFacts
  <2>9. CASE /\ chunks' = q
             /\ dl_state' = IF s.paused THEN "PAUSED" ELSE "ACTIVE"
             /\ run' = IF s.paused THEN Quiet ELSE Calling("maintain", {})
             /\ UNCHANGED file
    <3>1. dl_state' \in {"PAUSED", "ACTIVE"}
      BY <2>9
    <3>2. RunOK(run', dl_state', alive', chunks') /\ Leaving(run') = {}
      <4>1. CASE s.paused
        BY <2>9, <4>1, QuietFacts, IdleRun
      <4>2. CASE ~s.paused
        BY <2>9, <4>2, QuietFacts, CallRun
      <4> QED BY <4>1, <4>2
    <3>3. FileOK(dl_state', chunks', file')
      BY <1>3, <2>4, <2>9, <3>1 DEF FileOK, Backed
    <3>4. ListOK(dl_state', chunks', received')
      BY <2>2, <2>3, <2>9, <3>1 DEF ListOK, NoList
    <3>5. TypesOK(alive', view', dl_state', aborted')
      BY <1>1, <1>6, <2>7, <3>1
    <3> QED BY <1>1, <1>6, <2>2, <2>6, <2>8, <2>9, <3>2, <3>3, <3>4, <3>5 DEF Inv
  <2>10. CASE Queue(file, q, al, FALSE)
    <3>1. Parked(file, q)
      BY <1>3, <2>2, <2>5, <2>10, QueueFacts
    <3>2. TypesOK(alive', view', "PAUSED", aborted') /\ Linked({}, alive', view', {})
          /\ Cardinality(Transferring(alive', view')) <= MaxSources
      BY <1>1, <1>6, <2>6, <2>7, <2>8
    <3> QED BY <2>2, <2>3, <2>4, <3>1, <3>2, ParkedInv
  <2> QED BY <1>6, <2>9, <2>10
<1> QED BY <1>1, <1>5, <1>6

(* as_download_add_source keeps it. *)
LEMMA AddSourceInv == ASSUME Inv, NEW c \in Conns, AddSource(c) PROVE Inv'
<1>1. /\ run.pc = "idle" /\ c \notin alive /\ alive' = alive \cup {c}
      /\ view' = [view EXCEPT ![c] = NewView]
      /\ run' = IF dl_state = "ACTIVE" THEN Calling("maintain", {}) ELSE Quiet
      /\ dl_state' = dl_state /\ received' = received /\ chunks' = chunks
      /\ file' = file /\ aborted' = aborted
  BY DEF AddSource, Create, At
<1>2. /\ TypesOK(alive, view, dl_state, aborted) /\ Linked(Doing(chunks), alive, view, {})
      /\ dl_state # "VERIFYING" /\ Cardinality(Transferring(alive, view)) <= MaxSources
  BY <1>1 DEF Inv, RunOK, Leaving
<1>3. /\ view \in [Conns -> View] /\ view'[c] = NewView
      /\ \A d \in Conns : d # c => view'[d] = view[d]
  BY <1>1, <1>2 DEF TypesOK
<1>4. TypesOK(alive', view', dl_state', aborted')
  <2>1. view' \in [Conns -> View]
    BY <1>1, <1>3, NewViewFacts
  <2>2. alive' \subseteq Conns /\ IsFiniteSet(alive')
    BY <1>1, <1>2, FS_AddElement DEF TypesOK
  <2> QED BY <1>1, <1>2, <2>1, <2>2 DEF TypesOK
<1>5. Linked(Doing(chunks'), alive', view', {})
  <2>0. (\A x \in Doing(chunks) : x.conn \in alive) /\ alive \subseteq Conns
    BY <1>2 DEF Linked, TypesOK
  <2>1. \A x \in Doing(chunks) : x.conn # c /\ x.conn \in Conns
    BY <1>1, <2>0
  <2>2. view'[c].state \in IdleStates /\ view'[c].fail < SourceMaxFail
    BY <1>3, NewViewFacts DEF IdleStates
  <2>3. {} \in SUBSET {c} /\ \A d \in alive : d # c => d \in alive'
    BY <1>1
  <2>4. Linked(Doing(chunks), alive', view', {})
    <3> DEFINE S == Doing(chunks)
               u == view'
    <3>1. /\ \A x : x \in S <=> x \in S /\ x.conn # c
          /\ \A x \in S : x.conn \in Conns
      BY <2>1
    <3>2. /\ Linked(S, alive, view, {}) /\ \A d \in Conns : d # c => u[d] = view[d]
          /\ u[c].state \in IdleStates /\ u[c].fail < SourceMaxFail
      BY <1>2, <1>3, <2>2
    <3> HIDE DEF S, u
    <3>3. Linked(S, alive', u, {})
      BY <2>3, <3>1, <3>2, LinkedOff
    <3> QED BY <3>3 DEF S, u
  <2> QED BY <1>1, <2>4
<1>6. Cardinality(Transferring(alive', view')) <= MaxSources
  <2>1. Transferring(alive', view') \subseteq Transferring(alive, view)
    BY <1>1, <1>2, <1>3, NewViewFacts DEF Transferring, TypesOK
  <2> QED BY <1>2, <2>1, LimitKept DEF TypesOK
<1>7. RunOK(run', dl_state', alive', chunks') /\ Leaving(run') = {}
  <2>1. CASE dl_state = "ACTIVE"
    BY <1>1, <2>1, CallRun, QuietFacts
  <2>2. CASE dl_state # "ACTIVE"
    BY <1>1, <1>2, <2>2, IdleRun, QuietFacts
  <2> QED BY <2>1, <2>2
<1>8. /\ ListOK(dl_state', chunks', received') /\ FileOK(dl_state', chunks', file')
      /\ Doing(chunks') # {} => dl_state' = "ACTIVE"
  BY <1>1 DEF Inv
<1> QED BY <1>4, <1>5, <1>6, <1>7, <1>8 DEF Inv

-----------------------------------------------------------------------------
(* Data that arrives                                                       *)

(* Chunk x of connection c became y; the list and the file fit. *)
Stored(c, x, y) ==
    /\ ChunkList(chunks') /\ received' = Cardinality(Got(chunks'))
    /\ x \in Doing(chunks) /\ x.conn = c /\ y.conn = c
    /\ \A z : z \in Doing(chunks') <=> (z \in Doing(chunks) /\ z # x) \/ z = y
    /\ FileOK("ACTIVE", chunks', file') /\ dl_state' = "ACTIVE" /\ aborted' = aborted

(* A callback of a busy connection: it goes on, or is disassociated next. *)
LEMMA ServedInv ==
    ASSUME Inv, run.pc = "idle", NEW c \in Conns, NEW x, NEW y, Stored(c, x, y),
           NEW w \in View, view' = [view EXCEPT ![c] = w], alive' = alive,
           \/ run' = run /\ Serves(w, y) /\ w.fail < SourceMaxFail
           \/ run' = Calling("disassociate", {c}) /\ w.state \in IdleStates,
           Cardinality(Transferring(alive, view')) <= MaxSources
    PROVE  Inv'
<1>1. /\ TypesOK(alive, view, dl_state, aborted) /\ Linked(Doing(chunks), alive, view, {})
      /\ run \in RunType /\ run.timer = FALSE
  BY DEF Inv, RunOK, Leaving
<1>2. /\ view \in [Conns -> View] /\ view'[c] = w /\ alive \subseteq Conns
      /\ \A d \in Conns : d # c => view'[d] = view[d]
  BY <1>1 DEF TypesOK
<1>3. /\ x \in Doing(chunks) /\ x.conn = c /\ y.conn = c
      /\ \A z : z \in Doing(chunks') <=> (z \in Doing(chunks) /\ z # x) \/ z = y
      /\ ChunkList(chunks') /\ received' = Cardinality(Got(chunks'))
      /\ FileOK("ACTIVE", chunks', file') /\ dl_state' = "ACTIVE" /\ aborted' = aborted
  BY DEF Stored
<1>4. c \in alive
  BY <1>1, <1>3 DEF Linked
<1>5. TypesOK(alive', view', dl_state', aborted')
  <2>1. view' \in [Conns -> View]
    BY <1>2
  <2> QED BY <1>1, <1>3, <2>1 DEF TypesOK, States, LiveStates
<1>6. ListOK(dl_state', chunks', received')
  BY <1>3 DEF ListOK, NoList
<1> DEFINE S == Doing(chunks)
           T == Doing(chunks')
           u == view'
<1>7. \A lv : (\/ lv = {} /\ Serves(u[c], y) /\ u[c].fail < SourceMaxFail
               \/ lv = {c} /\ u[c].state \in IdleStates)
              => Linked(T, alive, u, lv)
  <2>1. /\ Linked(S, alive, view, {}) /\ x \in S /\ \A d \in Conns : d # c => u[d] = view[d]
        /\ \A z : z \in T <=> (z \in S /\ z # x) \/ z = y
    BY <1>1, <1>2, <1>3
  <2> HIDE DEF S, T, u
  <2> QED BY <1>2, <1>3, <2>1, LinkedPut
<1>8. RunOK(run', dl_state', alive', chunks') /\ Linked(T, alive, u, Leaving(run'))
  <2>1. CASE run' = run /\ Serves(w, y) /\ w.fail < SourceMaxFail
    <3>1. Unfinished(chunks')
      BY <1>3 DEF Unfinished
    <3>2. RunOK(run', dl_state', alive', chunks') /\ Leaving(run') = {}
      BY <1>1, <1>3, <2>1, <3>1, IdleRun
    <3> QED BY <1>2, <1>7, <2>1, <3>2
  <2>2. CASE run' = Calling("disassociate", {c}) /\ w.state \in IdleStates
    <3>1. Leaving(run') = {c}
      BY <2>2, QuietFacts
    <3>2. RunOK(run', dl_state', alive', chunks')
      BY <1>3, <1>4, <2>2, CallRun
    <3> QED BY <1>2, <1>7, <2>2, <3>1, <3>2
  <2> QED BY <2>1, <2>2
<1> QED BY <1>3, <1>5, <1>6, <1>8 DEF Inv

(* Nothing is stored: the list and the file stay as they are. *)
LEMMA NothingStored ==
    ASSUME Inv, run.pc = "idle", NEW c \in Conns, view[c].state \in BusyStates,
           UNCHANGED <<dl_state, received, chunks, file>>, aborted' = aborted
    PROVE  Stored(c, chunks[ChunkOf(c)], chunks[ChunkOf(c)])
<1>1. /\ dl_state = "ACTIVE" /\ ChunkList(chunks)
      /\ chunks[ChunkOf(c)] \in Doing(chunks) /\ chunks[ChunkOf(c)].conn = c
  BY BusyFacts
<1>2. received = Cardinality(Got(chunks)) /\ FileOK("ACTIVE", chunks, file)
  BY <1>1 DEF Inv, ListOK, NoList
<1> DEFINE x == chunks[ChunkOf(c)]
<1> HIDE DEF x
<1> QED BY <1>1, <1>2 DEF Stored, x

(* The views that the callbacks make *)
LEMMA SettledFacts ==
    ASSUME NEW v \in View, v.fail < SourceMaxFail
    PROVE  /\ Failed(v) \in View /\ Failed(v).state \in IdleStates
           /\ [Settle(v, "QUEUED") EXCEPT !.fail = 0] \in View
           /\ [Settle(v, "QUEUED") EXCEPT !.fail = 0].state \in IdleStates
           /\ [Settle(v, "COMPLETE") EXCEPT !.curr = 0] \in View
           /\ [Settle(v, "COMPLETE") EXCEPT !.curr = 0].state \in IdleStates
<1>1. v.fail \in Nat /\ v.fail + 1 \in 0 .. SourceMaxFail /\ SourceMaxFail \in Nat
      /\ 0 \in 0 .. SourceMaxFail /\ 0 \in 0 .. FileSize
  BY IfaceAssumption DEF View
<1>2. ASSUME NEW st \in IdleStates
      PROVE  /\ Settle(v, st) \in View /\ Settle(v, st).state = st /\ Settle(v, st).fail = v.fail
  BY <1>1 DEF Settle, View
<1>3. "FAILED" \in IdleStates /\ "QUEUED" \in IdleStates /\ "COMPLETE" \in IdleStates
  BY DEF IdleStates
<1>4. Failed(v) \in View /\ Failed(v).state \in IdleStates
  <2> DEFINE s == Settle(v, "FAILED")
             f == IF v.state = "CONNECTING" THEN v.fail + 1 ELSE v.fail
  <2>1. f \in 0 .. SourceMaxFail
    BY <1>1
  <2>2. s \in View /\ s.state = "FAILED"
    BY <1>2, <1>3
  <2>3. Failed(v) = [s EXCEPT !.fail = f]
    BY DEF Failed
  <2> HIDE DEF s, f
  <2> QED BY <1>3, <2>1, <2>2, <2>3 DEF View
<1>5. /\ [Settle(v, "QUEUED") EXCEPT !.fail = 0] \in View
      /\ [Settle(v, "QUEUED") EXCEPT !.fail = 0].state \in IdleStates
  <2> DEFINE s == Settle(v, "QUEUED")
  <2>1. s \in View /\ s.state = "QUEUED"
    BY <1>2, <1>3
  <2> HIDE DEF s
  <2>2. [s EXCEPT !.fail = 0] \in View /\ [s EXCEPT !.fail = 0].state = "QUEUED"
    BY <1>1, <2>1 DEF View
  <2> QED BY <1>3, <2>2 DEF s
<1>6. /\ [Settle(v, "COMPLETE") EXCEPT !.curr = 0] \in View
      /\ [Settle(v, "COMPLETE") EXCEPT !.curr = 0].state \in IdleStates
  <2> DEFINE s == Settle(v, "COMPLETE")
  <2>1. s \in View /\ s.state = "COMPLETE"
    BY <1>2, <1>3
  <2> HIDE DEF s
  <2>2. [s EXCEPT !.curr = 0] \in View /\ [s EXCEPT !.curr = 0].state = "COMPLETE"
    BY <1>1, <2>1 DEF View
  <2> QED BY <1>3, <2>2 DEF s
<1> QED BY <1>4, <1>5, <1>6

(* A connection that fails keeps it. *)
LEMMA SourceFailsInv == ASSUME Inv, NEW c \in Conns, SourceFails(c) PROVE Inv'
<1> DEFINE v == view[c]
           w == view'[c]
<1>1. /\ run.pc = "idle" /\ aborted = "no" /\ v.state \in BusyStates /\ alive' = alive
      /\ \/ view' = [view EXCEPT ![c] = Failed(v)]
         \/ view' = [view EXCEPT ![c] = [Settle(v, "QUEUED") EXCEPT !.fail = 0]]
      /\ run' = Calling("disassociate", {c})
      /\ aborted' = Check(c \in Assigned, "no chunk")
      /\ UNCHANGED <<dl_state, received, chunks, file>>
  BY DEF SourceFails, At, Fail, Queued, BusyStates
<1>2. /\ view \in [Conns -> View] /\ v \in View /\ IsFiniteSet(alive)
      /\ v.fail < SourceMaxFail /\ alive \subseteq Conns
      /\ Cardinality(Transferring(alive, view)) <= MaxSources
  BY <1>1 DEF Inv, TypesOK, Linked, Leaving
<1>3. c \in Assigned
  BY <1>1, BusyFacts
<1>4. aborted' = aborted
  BY <1>1, <1>3 DEF Check
<1>5. w \in View /\ w.state \in IdleStates /\ view' = [view EXCEPT ![c] = w]
  <2>1. CASE view' = [view EXCEPT ![c] = Failed(v)]
    BY <1>2, <2>1, SettledFacts
  <2>2. CASE view' = [view EXCEPT ![c] = [Settle(v, "QUEUED") EXCEPT !.fail = 0]]
    BY <1>2, <2>2, SettledFacts
  <2> QED BY <1>1, <2>1, <2>2
<1>6. Stored(c, chunks[ChunkOf(c)], chunks[ChunkOf(c)])
  BY <1>1, <1>4, NothingStored
<1> HIDE DEF v, w
<1>7. Cardinality(Transferring(alive, view')) <= MaxSources
  <2>1. \A d \in alive : d # c => view'[d] = view[d]
    BY <1>2, <1>5
  <2>2. view'[c].state # "TRANSFERRING"
    BY <1>5 DEF IdleStates, w
  <2>3. Transferring(alive, view') \subseteq Transferring(alive, view)
    BY <2>1, <2>2 DEF Transferring
  <2> QED BY <1>2, <2>3, LimitKept
<1> QED BY <1>1, <1>5, <1>6, <1>7, ServedInv

(* A source that queues us keeps it. *)
LEMMA TurnAwayInv == ASSUME Inv, NEW c \in Conns, TurnAway(c) PROVE Inv'
<1> DEFINE v == view[c]
           w == [Cancelled(v) EXCEPT !.fail = 0]
           x == chunks[ChunkOf(c)]
           q == Unassign(c)
<1>1. /\ run.pc = "idle" /\ aborted = "no" /\ c \in alive /\ v.state = "CONNECTING"
      /\ view' = [view EXCEPT ![c] = w] /\ alive' = alive /\ chunks' = q
      /\ aborted' = Check(c \in Assigned, "no chunk")
      /\ UNCHANGED <<dl_state, received, run, file>>
  BY DEF TurnAway, At, CancelAccepted
<1>2. /\ dl_state = "ACTIVE" /\ ChunkList(chunks) /\ ChunkOf(c) \in 1 .. Len(chunks)
      /\ x \in Doing(chunks) /\ x.conn = c /\ Serves(v, x) /\ c \in Assigned
  BY <1>1, BusyFacts DEF BusyStates
<1>3. aborted' = aborted
  BY <1>1, <1>2 DEF Check
<1>4. /\ view \in [Conns -> View] /\ v \in View /\ IsFiniteSet(alive) /\ alive \subseteq Conns
      /\ Cardinality(Transferring(alive, view)) <= MaxSources
      /\ Linked(Doing(chunks), alive, view, {}) /\ TypesOK(alive, view, dl_state, aborted)
      /\ run \in RunType /\ run.timer = FALSE
  BY <1>1 DEF Inv, TypesOK, RunOK, Leaving
<1>5. w \in View /\ w.state = "UNUSED" /\ w.fail = 0 /\ 0 < SourceMaxFail
  BY <1>4, CancelledFacts, NewViewFacts
<1>6. Missing(chunks)
  BY <1>1, <1>2 DEF Serves, Missing
<1>7. /\ ChunkList(q) /\ Got(q) = Got(chunks) /\ Missing(q)
      /\ \A z : z \in Doing(q) <=> z \in Doing(chunks) /\ z.conn # c
  <2>1. q = Dropped(chunks, {c}) /\ NoConn \notin {c}
    BY <1>2, UnassignFacts, DownloadAssumption
  <2> HIDE DEF q
  <2>2. /\ ChunkList(q) /\ Got(q) = Got(chunks) /\ Missing(q)
        /\ Working(ToSet(q)) = {z \in Working(ToSet(chunks)) : z.conn \notin {c}}
    BY <1>2, <1>6, <2>1, DroppedFacts
  <2> QED BY <2>2 DEF Doing
<1> HIDE DEF w, x, q, v
<1>8. view' \in [Conns -> View] /\ view'[c] = w /\ \A d \in Conns : d # c => view'[d] = view[d]
  BY <1>1, <1>4, <1>5
<1>9. Linked(Doing(q), alive, view', {})
  <2> DEFINE S == Doing(chunks)
             T == Doing(q)
             u == view'
  <2>1. /\ Linked(S, alive, view, {}) /\ \A z : z \in T <=> z \in S /\ z.conn # c
        /\ {} \in SUBSET {c} /\ \A d \in Conns : d # c => u[d] = view[d]
        /\ u[c].state \in IdleStates /\ u[c].fail < SourceMaxFail
    BY <1>4, <1>5, <1>7, <1>8 DEF IdleStates
  <2>2. \A z \in T : z.conn \in Conns
    BY <1>7, DoingFacts
  <2> HIDE DEF S, T, u
  <2>3. Linked(T, alive, u, {})
    BY <2>1, <2>2, LinkedOff
  <2> QED BY <2>3 DEF T, u
<1>10. Cardinality(Transferring(alive, view')) <= MaxSources
  <2>1. Transferring(alive, view') \subseteq Transferring(alive, view)
    BY <1>4, <1>5, <1>8 DEF Transferring
  <2> QED BY <1>4, <2>1, LimitKept
<1>11. RunOK(run', dl_state', alive', chunks') /\ Leaving(run') = {}
  <2>1. Unfinished(q)
    BY <1>7 DEF Unfinished
  <2> QED BY <1>1, <1>2, <1>4, <2>1, IdleRun
<1>12. ListOK(dl_state', chunks', received')
  BY <1>1, <1>2, <1>7 DEF Inv, ListOK, NoList
<1>13. FileOK(dl_state', chunks', file')
  BY <1>1, <1>2, <1>7 DEF Inv, FileOK, Backed
<1>14. TypesOK(alive', view', dl_state', aborted')
  BY <1>1, <1>3, <1>4, <1>8 DEF TypesOK
<1> QED BY <1>1, <1>2, <1>9, <1>10, <1>11, <1>12, <1>13, <1>14 DEF Inv

(* What is taken of n bytes for a chunk *)
LEMMA TakenFacts ==
    ASSUME NEW x \in ChunkRec, x.received <= x.size, NEW n \in Nat
    PROVE  /\ Remaining(x) \in Nat /\ Taken(x, n) \in Nat
           /\ Taken(x, n) <= n /\ Taken(x, n) <= Remaining(x)
           /\ n < Remaining(x) => Taken(x, n) = n
<1>1. Remaining(x) \in Nat
  BY DEF Remaining, ChunkRec
<1> DEFINE r == Remaining(x)
           T == {n, r}
<1>2. T \in SUBSET Nat /\ T # {}
  BY <1>1
<1> HIDE DEF r
<1>3. Min(T) \in T /\ \A j \in T : Min(T) <= j
  BY <1>2, LeastFacts
<1>4. Taken(x, n) = Min(T)
  BY DEF Taken, r
<1> QED BY <1>1, <1>3, <1>4 DEF r

(* The chunk of c with w blocks more *)
More(c, w) == Grown(chunks[ChunkOf(c)], w)

(* conn_data_cb stores what the chunk needs. *)
LEMMA StoreInv ==
    ASSUME Inv, run.pc = "idle", aborted = "no", NEW c \in Conns, view[c].state \in BusyStates,
           NEW n \in Nat, Store(c, n)
    PROVE  \E w \in Nat :
              /\ Stored(c, chunks[ChunkOf(c)], More(c, w))
              /\ WritePos(More(c, w)) = WritePos(chunks[ChunkOf(c)]) + w
              /\ EndOf(More(c, w)) = EndOf(chunks[ChunkOf(c)])
              /\ ~Overruns(c, n) => w = n
<1> DEFINE i == ChunkOf(c)
           x == chunks[i]
           w == Taken(x, n)
           y == Grown(x, w)
           new == WritePos(x) .. WritePos(x) + w - 1
<1>1. /\ file' = WriteData(file, new) /\ received' = received + w
      /\ chunks' = [chunks EXCEPT ![i].received = @ + w]
      /\ aborted' = Check(Remaining(x) <= view[c].chunk_size /\ received' <= FileSize, "data")
      /\ dl_state' = dl_state
  BY DEF Store
<1>2. /\ dl_state = "ACTIVE" /\ ChunkList(chunks) /\ Solid(chunks) /\ i \in 1 .. Len(chunks)
      /\ x \in Doing(chunks) /\ x.conn = c /\ x \in ChunkRec /\ Serves(view[c], x)
  BY BusyFacts
<1>3. x.received <= x.size
  BY <1>2, ChunkListFacts
<1>4. /\ Remaining(x) \in Nat /\ w \in Nat /\ w <= Remaining(x)
      /\ n < Remaining(x) => w = n
  <2> HIDE DEF x
  <2> QED BY <1>2, <1>3, TakenFacts
<1>5. ~Overruns(c, n) => w = n
  <2> HIDE DEF w
  <2>1. CASE n < Remaining(x)
    BY <1>4, <2>1
  <2>2. CASE ~(n < Remaining(x))
    <3>1. n >= Remaining(x)
      BY <1>4, <2>2
    <3> QED BY <3>1 DEF Overruns, w
  <2> QED BY <2>1, <2>2
<1>6. chunks' = Put(chunks, i, y)
  <2>1. chunks \in Seq(ChunkRec) /\ DOMAIN chunks = 1 .. Len(chunks)
    BY <1>2, ChunkListFacts
  <2> HIDE DEF w, i
  <2> QED BY <1>1 DEF Put, Grown
<1> HIDE DEF w
<1>7. /\ y \in ChunkRec /\ y.conn = c /\ WritePos(y) = WritePos(x) + w /\ EndOf(y) = EndOf(x)
  <2> HIDE DEF x
  <2> QED BY <1>2, <1>4 DEF Grown, ChunkRec, WritePos, EndOf
<1> HIDE DEF x, y, new, i
<1>8. /\ ChunkList(chunks')
      /\ \A z : z \in Working(ToSet(chunks')) <=>
                   (z \in Working(ToSet(chunks)) /\ z # x) \/ (z = y /\ x.conn # NoConn)
      /\ Got(chunks') = Got(chunks) \cup new /\ new \subseteq Blocks
      /\ Cardinality(Got(chunks')) = Cardinality(Got(chunks)) + w
      /\ Cardinality(Got(chunks')) \in 0 .. FileSize
  <2>1. x = chunks[i] /\ y = Grown(chunks[i], w)
    BY DEF x, y
  <2>2. Filled(chunks, i, w, Put(chunks, i, Grown(chunks[i], w)))
    BY <1>2, <1>4, <2>1, StoreFacts
  <2>3. Filled(chunks, i, w, chunks')
    BY <1>6, <2>1, <2>2
  <2> QED BY <2>1, <2>3 DEF Filled, new
<1>9. \A z : z \in Doing(chunks') <=> (z \in Doing(chunks) /\ z # x) \/ z = y
  BY <1>2, <1>8, DownloadAssumption DEF Doing
<1>10. received = Cardinality(Got(chunks)) /\ received' = Cardinality(Got(chunks'))
  BY <1>1, <1>2, <1>8 DEF Inv, ListOK, NoList
<1>11. FileOK("ACTIVE", chunks', file')
  <2>1. file \in FileType /\ (Many => Got(chunks) \subseteq file.disk \cup file.pdata
                                            /\ DiskOK(file))
    BY <1>2 DEF Inv, FileOK, Backed, LiveStates
  <2>2. /\ file' \in FileType
        /\ file'.disk \cup file'.pdata = file.disk \cup file.pdata \cup new
        /\ DiskOK(file) => DiskOK(file')
    BY <1>1, <1>8, <2>1, WriteDataFacts
  <2>3. Many => Got(chunks') \subseteq file'.disk \cup file'.pdata
    BY <1>8, <2>1, <2>2
  <2> QED BY <2>1, <2>2, <2>3 DEF FileOK, Backed
<1>12. aborted' = aborted
  <2>1. Remaining(x) <= view[c].chunk_size
    <3> DEFINE v == view[c]
    <3>1. v \in View
      BY DEF Inv, TypesOK
    <3>2. v.chunk_start + v.curr = WritePos(x) /\ v.chunk_start + v.chunk_size >= EndOf(x)
      BY <1>2 DEF Serves
    <3> HIDE DEF v
    <3>3. v.chunk_start \in Nat /\ v.curr \in Nat /\ v.chunk_size \in Nat
      BY <3>1, ViewFacts
    <3>4. /\ x.start \in Nat /\ x.size \in Nat /\ x.received \in Nat
          /\ WritePos(x) = x.start + x.received /\ EndOf(x) = x.start + x.size
          /\ Remaining(x) = x.size - x.received
      BY <1>2 DEF ChunkRec, WritePos, EndOf, Remaining
    <3>5. Remaining(x) <= v.chunk_size
      BY <3>2, <3>3, <3>4
    <3> QED BY <3>5 DEF v
  <2>2. received' <= FileSize
    <3>1. FileSize \in Nat
      BY IfaceAssumption
    <3> QED BY <1>8, <1>10, <3>1
  <2> QED BY <1>1, <2>1, <2>2 DEF Check
<1>13. Stored(c, x, y)
  BY <1>1, <1>2, <1>7, <1>8, <1>9, <1>10, <1>11, <1>12 DEF Stored
<1>14. y = More(c, w)
  BY DEF More, x, y, i
<1> QED BY <1>4, <1>5, <1>7, <1>13, <1>14 DEF x, i

(* The views of a connection that transfers *)
LEMMA FlowingFacts ==
    ASSUME NEW v \in View
    PROVE  /\ \A n \in 0 .. v.chunk_size :
                 LET w == [v EXCEPT !.state = "TRANSFERRING", !.curr = n, !.fail = 0]
                 IN  /\ w \in View /\ w.state = "TRANSFERRING" /\ w.curr = n /\ w.fail = 0
                     /\ w.chunk_start = v.chunk_start /\ w.chunk_size = v.chunk_size
           /\ \A n \in Nat : v.curr + n <= v.chunk_size =>
                 LET w == [v EXCEPT !.curr = v.curr + n]
                 IN  /\ w \in View /\ w.state = v.state /\ w.curr = v.curr + n /\ w.fail = v.fail
                     /\ w.chunk_start = v.chunk_start /\ w.chunk_size = v.chunk_size
<1>0. /\ v.chunk_size \in Nat /\ v.chunk_size <= FileSize /\ FileSize \in Nat /\ v.curr \in Nat
      /\ 0 \in 0 .. SourceMaxFail /\ "TRANSFERRING" \in BusyStates \cup IdleStates
  BY ViewFacts, IfaceAssumption DEF BusyStates
<1>1. ASSUME NEW n \in 0 .. v.chunk_size
      PROVE  LET w == [v EXCEPT !.state = "TRANSFERRING", !.curr = n, !.fail = 0]
             IN  /\ w \in View /\ w.state = "TRANSFERRING" /\ w.curr = n /\ w.fail = 0
                 /\ w.chunk_start = v.chunk_start /\ w.chunk_size = v.chunk_size
  <2>1. n \in 0 .. FileSize
    BY <1>0
  <2> QED BY <1>0, <2>1 DEF View
<1>2. ASSUME NEW n \in Nat, v.curr + n <= v.chunk_size
      PROVE  LET w == [v EXCEPT !.curr = v.curr + n]
             IN  /\ w \in View /\ w.state = v.state /\ w.curr = v.curr + n /\ w.fail = v.fail
                 /\ w.chunk_start = v.chunk_start /\ w.chunk_size = v.chunk_size
  <2>1. v.curr + n \in 0 .. FileSize
    BY <1>0, <1>2
  <2> QED BY <2>1 DEF View
<1> QED BY <1>1, <1>2

(* A source that accepts the request keeps it. *)
LEMMA AcceptedInv == ASSUME Inv, NEW c \in Conns, Accepted(c) PROVE Inv'
<1> DEFINE v == view[c]
           w == [v EXCEPT !.state = "TRANSFERRING", !.curr = 0, !.fail = 0]
           x == chunks[ChunkOf(c)]
<1>1. /\ run.pc = "idle" /\ aborted = "no" /\ ~EnoughSources /\ v.state = "CONNECTING"
      /\ v.state \in BusyStates
      /\ view' = [view EXCEPT ![c] = w] /\ alive' = alive /\ run' = run
      /\ aborted' = Check(c \in Assigned, "no chunk")
      /\ UNCHANGED <<dl_state, received, chunks, file>>
  BY DEF Accepted, At, Transfer, BusyStates
<1>2. Serves(v, x) /\ c \in Assigned
  BY <1>1, BusyFacts
<1>3. aborted' = aborted
  BY <1>1, <1>2 DEF Check
<1>4. /\ view \in [Conns -> View] /\ v \in View /\ IsFiniteSet(alive) /\ alive \subseteq Conns
  BY DEF Inv, TypesOK
<1>5. Stored(c, x, x)
  BY <1>1, <1>3, NothingStored
<1> HIDE DEF x
<1>6. /\ w \in View /\ w.state = "TRANSFERRING" /\ w.curr = 0 /\ w.fail = 0
      /\ w.chunk_start = v.chunk_start /\ w.chunk_size = v.chunk_size
  <2>1. v.chunk_size \in Nat
    BY <1>4, ViewFacts
  <2>2. 0 \in 0 .. v.chunk_size
    BY <2>1
  <2> HIDE DEF v
  <2> QED BY <1>4, <2>2, FlowingFacts
<1>7. Serves(w, x) /\ w.fail < SourceMaxFail
  <2>1. v.curr = 0
    BY <1>1, <1>2 DEF Serves
  <2>2. 0 < SourceMaxFail /\ "TRANSFERRING" \in BusyStates /\ "TRANSFERRING" # "CONNECTING"
    BY NewViewFacts DEF BusyStates
  <2> HIDE DEF w, v
  <2> QED BY <1>2, <1>6, <2>1, <2>2 DEF Serves
<1> HIDE DEF w, v
<1>8. Cardinality(Transferring(alive, view')) <= MaxSources
  <2>1. Transferring(alive, view') \subseteq Transferring(alive, view) \cup {c}
    <3>1. \A d \in alive : d # c => view'[d] = view[d]
      BY <1>1, <1>4
    <3> QED BY <1>1, <3>1 DEF Transferring
  <2>2. Cardinality(Transferring(alive, view)) + 1 < MaxSources
    <3>1. IsFiniteSet(Transferring(alive, view))
      BY <1>4, FS_Subset DEF Transferring
    <3>2. Cardinality(Transferring(alive, view)) \in Nat /\ MaxSources \in Nat
      BY <3>1, FS_CardinalityType, DownloadAssumption
    <3>3. Transferring(alive, view) = InState("TRANSFERRING")
      BY DEF Transferring, InState
    <3>4. ~(Cardinality(Transferring(alive, view)) + 1 >= MaxSources)
      BY <1>1, <3>3 DEF EnoughSources
    <3> QED BY <3>2, <3>4
  <2> QED BY <1>4, <2>1, <2>2, LimitOneMore
<1> QED BY <1>1, <1>5, <1>6, <1>7, <1>8, ServedInv

(* A connection that went on with its chunk by n blocks serves it again. *)
LEMMA ServesMore ==
    ASSUME NEW v \in View, NEW x \in ChunkRec, Serves(v, x), NEW n \in Nat, NEW y,
           WritePos(y) = WritePos(x) + n, EndOf(y) = EndOf(x),
           NEW u, u.state = "TRANSFERRING", u.curr = v.curr + n,
           u.chunk_start = v.chunk_start, u.chunk_size = v.chunk_size
    PROVE  Serves(u, y)
<1>1. v.chunk_start \in Nat /\ v.curr \in Nat
  BY ViewFacts
<1>2. v.chunk_start + v.curr = WritePos(x) /\ v.chunk_start + v.chunk_size >= EndOf(x)
  BY DEF Serves
<1>3. v.chunk_start + (v.curr + n) = WritePos(x) + n
  BY <1>1, <1>2
<1>4. u.chunk_start + u.curr = WritePos(y) /\ u.chunk_start + u.chunk_size >= EndOf(y)
  BY <1>2, <1>3
<1> QED BY <1>4 DEF Serves, BusyStates

(* The data that came with the header keeps it. *)
LEMMA HeaderDataInv == ASSUME Inv, NEW c \in Conns, NEW n \in Nat, HeaderData(c, n) PROVE Inv'
<1> DEFINE v == view[c]
           x == chunks[ChunkOf(c)]
           stop == [Cancelled(v) EXCEPT !.fail = 0]
           go == [v EXCEPT !.state = "TRANSFERRING", !.curr = n, !.fail = 0]
<1>1. /\ run.pc = "idle" /\ aborted = "no" /\ ~EnoughSources
      /\ v.state = "CONNECTING" /\ v.state \in BusyStates
      /\ Store(c, n) /\ alive' = alive
      /\ \/ view' = [view EXCEPT ![c] = stop] /\ run' = Calling("disassociate", {c})
         \/ /\ view' = [view EXCEPT ![c] = go] /\ run' = run /\ ~Overruns(c, n)
            /\ n <= v.chunk_size
  BY DEF HeaderData, At, CancelAccepted, Transfer, BusyStates
<1>2. PICK w \in Nat : /\ Stored(c, x, More(c, w)) /\ WritePos(More(c, w)) = WritePos(x) + w
                       /\ EndOf(More(c, w)) = EndOf(x) /\ (~Overruns(c, n) => w = n)
  BY <1>1, StoreInv
<1>3. Serves(v, x) /\ x \in ChunkRec
  BY <1>1, BusyFacts
<1>4. /\ view \in [Conns -> View] /\ v \in View /\ IsFiniteSet(alive) /\ alive \subseteq Conns
      /\ Cardinality(Transferring(alive, view)) <= MaxSources
  BY DEF Inv, TypesOK
<1> DEFINE y == More(c, w)
<1> HIDE DEF x, y
<1>5. stop \in View /\ stop.state = "UNUSED" /\ stop.state \in IdleStates
  <2> HIDE DEF v
  <2>1. stop \in View /\ stop.state = "UNUSED"
    BY <1>4, CancelledFacts
  <2> QED BY <2>1 DEF IdleStates
<1>6. ASSUME n <= v.chunk_size
      PROVE  /\ go \in View /\ go.state = "TRANSFERRING" /\ go.curr = n /\ go.fail = 0
             /\ go.chunk_start = v.chunk_start /\ go.chunk_size = v.chunk_size
  <2>1. v.chunk_size \in Nat
    BY <1>4, ViewFacts
  <2>2. n \in 0 .. v.chunk_size
    BY <1>6, <2>1
  <2> HIDE DEF v
  <2> QED BY <1>4, <2>2, FlowingFacts
<1> HIDE DEF go, stop
<1>7. CASE view' = [view EXCEPT ![c] = stop] /\ run' = Calling("disassociate", {c})
  <2>1. Transferring(alive, view') \subseteq Transferring(alive, view)
    <3>1. view'[c] = stop /\ \A d \in alive : d # c => view'[d] = view[d]
      BY <1>4, <1>7
    <3> QED BY <1>5, <3>1 DEF Transferring
  <2>2. Cardinality(Transferring(alive, view')) <= MaxSources
    BY <1>4, <2>1, LimitKept
  <2> QED BY <1>1, <1>2, <1>5, <1>7, <2>2, ServedInv DEF y
<1>8. CASE /\ view' = [view EXCEPT ![c] = go] /\ run' = run /\ ~Overruns(c, n)
           /\ n <= v.chunk_size
  <2>0. /\ go \in View /\ go.state = "TRANSFERRING" /\ go.curr = n /\ go.fail = 0
        /\ go.chunk_start = v.chunk_start /\ go.chunk_size = v.chunk_size
    BY <1>6, <1>8
  <2>1. v.curr = 0
    BY <1>1, <1>3 DEF Serves
  <2>2. WritePos(y) = WritePos(x) + n /\ EndOf(y) = EndOf(x) /\ Stored(c, x, y)
    BY <1>2, <1>8 DEF y
  <2>3. go.curr = v.curr + n
    BY <2>0, <2>1
  <2> HIDE DEF v
  <2>4. Serves(go, y) /\ go.fail < SourceMaxFail
    BY <1>3, <1>4, <2>0, <2>2, <2>3, ServesMore, NewViewFacts
  <2>5. Cardinality(Transferring(alive, view')) <= MaxSources
    <3>1. Transferring(alive, view') \subseteq Transferring(alive, view) \cup {c}
      <4>1. \A d \in alive : d # c => view'[d] = view[d]
        BY <1>4, <1>8
      <4> QED BY <1>8, <4>1 DEF Transferring
    <3>2. Cardinality(Transferring(alive, view)) + 1 < MaxSources
      <4>1. IsFiniteSet(Transferring(alive, view))
        BY <1>4, FS_Subset DEF Transferring
      <4>2. Cardinality(Transferring(alive, view)) \in Nat /\ MaxSources \in Nat
        BY <4>1, FS_CardinalityType, DownloadAssumption
      <4>3. Transferring(alive, view) = InState("TRANSFERRING")
        BY DEF Transferring, InState
      <4>4. ~(Cardinality(Transferring(alive, view)) + 1 >= MaxSources)
        BY <1>1, <4>3 DEF EnoughSources
      <4> QED BY <4>2, <4>4
    <3> QED BY <1>4, <3>1, <3>2, LimitOneMore
  <2> QED BY <1>1, <1>8, <2>0, <2>2, <2>4, <2>5, ServedInv
<1> QED BY <1>1, <1>7, <1>8

(* The data that follows keeps it. *)
LEMMA BodyDataInv == ASSUME Inv, NEW c \in Conns, NEW n \in Nat, BodyData(c, n) PROVE Inv'
<1> DEFINE v == view[c]
           x == chunks[ChunkOf(c)]
           stop == Cancelled(v)
           done == [Settle(v, "COMPLETE") EXCEPT !.curr = 0]
           go == [v EXCEPT !.curr = v.curr + n]
<1>1. /\ run.pc = "idle" /\ aborted = "no"
      /\ v.state = "TRANSFERRING" /\ v.state \in BusyStates
      /\ Store(c, n) /\ alive' = alive
      /\ \/ /\ view' = [view EXCEPT ![c] = stop] \/ view' = [view EXCEPT ![c] = done]
            /\ run' = Calling("disassociate", {c})
         \/ /\ view' = [view EXCEPT ![c].curr = @ + n] /\ run' = run /\ ~Overruns(c, n)
            /\ v.curr + n < v.chunk_size
  BY DEF BodyData, At, Cancel, Complete, Data, BusyStates
<1>2. PICK w \in Nat : /\ Stored(c, x, More(c, w)) /\ WritePos(More(c, w)) = WritePos(x) + w
                       /\ EndOf(More(c, w)) = EndOf(x) /\ (~Overruns(c, n) => w = n)
  BY <1>1, StoreInv
<1>3. Serves(v, x) /\ x \in ChunkRec
  BY <1>1, BusyFacts
<1>4. /\ view \in [Conns -> View] /\ v \in View /\ IsFiniteSet(alive) /\ alive \subseteq Conns
      /\ Cardinality(Transferring(alive, view)) <= MaxSources /\ v.fail < SourceMaxFail
  BY <1>1 DEF Inv, TypesOK, Linked, Leaving
<1> DEFINE y == More(c, w)
<1> HIDE DEF x, y
<1>5. stop \in View /\ stop.state \in IdleStates /\ done \in View /\ done.state \in IdleStates
  <2> HIDE DEF v
  <2>1. stop \in View /\ stop.state = "UNUSED"
    BY <1>4, CancelledFacts
  <2>2. done \in View /\ done.state \in IdleStates
    BY <1>4, SettledFacts
  <2> QED BY <2>1, <2>2 DEF IdleStates
<1> HIDE DEF stop, done
<1>6. ASSUME NEW u, Transferring(alive, u) \subseteq Transferring(alive, view)
      PROVE  Cardinality(Transferring(alive, u)) <= MaxSources
  BY <1>4, <1>6, LimitKept
<1>7. CASE /\ view' = [view EXCEPT ![c] = stop] \/ view' = [view EXCEPT ![c] = done]
           /\ run' = Calling("disassociate", {c})
  <2>1. PICK u \in {stop, done} : view' = [view EXCEPT ![c] = u]
    BY <1>7
  <2>2. u \in View /\ u.state \in IdleStates
    BY <1>5
  <2>3. Transferring(alive, view') \subseteq Transferring(alive, view)
    <3>1. view'[c] = u /\ \A d \in alive : d # c => view'[d] = view[d]
      BY <1>4, <2>1
    <3> QED BY <2>2, <3>1 DEF Transferring, IdleStates
  <2>4. Cardinality(Transferring(alive, view')) <= MaxSources
    BY <1>6, <2>3
  <2> QED BY <1>1, <1>2, <1>7, <2>1, <2>2, <2>4, ServedInv DEF y
<1>8. CASE /\ view' = [view EXCEPT ![c].curr = @ + n] /\ run' = run /\ ~Overruns(c, n)
           /\ v.curr + n < v.chunk_size
  <2>1. WritePos(y) = WritePos(x) + n /\ EndOf(y) = EndOf(x) /\ Stored(c, x, y)
    BY <1>2, <1>8 DEF y
  <2>2. view' = [view EXCEPT ![c] = go]
    BY <1>4, <1>8
  <2>3. /\ go \in View /\ go.state = "TRANSFERRING" /\ go.curr = v.curr + n /\ go.fail = v.fail
        /\ go.chunk_start = v.chunk_start /\ go.chunk_size = v.chunk_size
    <3>1. v.curr + n <= v.chunk_size
      <4>1. v.curr \in Nat /\ v.chunk_size \in Nat
        BY <1>4, ViewFacts
      <4> QED BY <1>8, <4>1
    <3>2. v.state = "TRANSFERRING"
      BY <1>1
    <3> HIDE DEF v
    <3> QED BY <1>4, <3>1, <3>2, FlowingFacts
  <2> HIDE DEF go
  <2>4. Cardinality(Transferring(alive, view')) <= MaxSources
    <3>1. view'[c].state = view[c].state /\ \A d \in alive : d # c => view'[d] = view[d]
      BY <1>1, <1>4, <2>2, <2>3
    <3>2. Transferring(alive, view') \subseteq Transferring(alive, view)
      BY <3>1 DEF Transferring
    <3> QED BY <1>6, <3>2
  <2> HIDE DEF v
  <2>5. Serves(go, y) /\ go.fail < SourceMaxFail
    BY <1>3, <1>4, <2>1, <2>3, ServesMore
  <2> QED BY <1>1, <1>8, <2>1, <2>2, <2>3, <2>4, <2>5, ServedInv
<1> QED BY <1>1, <1>7, <1>8

-----------------------------------------------------------------------------
(* disassociate and maintain                                               *)

(* Taking connection c off its chunk *)
LEMMA UnassignOne ==
    ASSUME ChunkList(chunks), NEW c \in Conns, NEW q, q = Unassign(c)
    PROVE  /\ ChunkList(q) /\ Got(q) = Got(chunks) /\ (Missing(chunks) => Missing(q))
           /\ (Solid(chunks) => Solid(q))
           /\ \A z : z \in Doing(q) <=> z \in Doing(chunks) /\ z.conn # c
           /\ \A z \in Doing(q) : z.conn \in Conns
<1>1. q = Dropped(chunks, {c}) /\ NoConn \notin {c}
  BY UnassignFacts, DownloadAssumption
<1>2. /\ ChunkList(q) /\ Got(q) = Got(chunks) /\ (Missing(chunks) => Missing(q))
      /\ (Solid(chunks) => Solid(q))
      /\ Working(ToSet(q)) = {z \in Working(ToSet(chunks)) : z.conn \notin {c}}
  BY <1>1, DroppedFacts
<1>3. \A z \in Doing(q) : z.conn \in Conns
  BY <1>2, DoingFacts
<1> QED BY <1>2, <1>3 DEF Doing

(* Taking a stopped connection off its chunk keeps it. *)
LEMMA DisassociateInv == ASSUME Inv, Disassociate PROVE Inv'
<1>1. PICK c \in run.cands :
          /\ chunks' = Unassign(c)
          /\ IF view[c].fail >= SourceMaxFail THEN Free(c) ELSE UNCHANGED ifaceVars
  BY DEF Disassociate
<1>2. /\ run.pc = "disassociate" /\ run' = Calling("maintain", {})
      /\ dl_state' = dl_state /\ received' = received /\ file' = file /\ aborted' = aborted
  BY DEF Disassociate, At
<1>3. run.cands = {c} /\ c \in alive /\ dl_state = "ACTIVE" /\ c \in Conns
  <2>1. dl_state = "ACTIVE" /\ \E d \in alive : run.cands = {d}
    BY <1>2 DEF Inv, RunOK
  <2>2. alive \subseteq Conns
    BY DEF Inv, TypesOK
  <2> QED BY <2>1, <2>2
<1>4. /\ TypesOK(alive, view, dl_state, aborted) /\ Linked(Doing(chunks), alive, view, {c})
      /\ ChunkList(chunks) /\ received = Cardinality(Got(chunks))
      /\ FileOK(dl_state, chunks, file) /\ Cardinality(Transferring(alive, view)) <= MaxSources
  BY <1>2, <1>3 DEF Inv, ListOK, NoList, Leaving
<1> DEFINE q == chunks'
<1>5. /\ ChunkList(q) /\ Got(q) = Got(chunks)
      /\ \A z : z \in Doing(q) <=> z \in Doing(chunks) /\ z.conn # c
      /\ \A z \in Doing(q) : z.conn \in Conns
  BY <1>1, <1>3, <1>4, UnassignOne
<1>6. /\ view \in [Conns -> View] /\ IsFiniteSet(alive) /\ alive \subseteq Conns
      /\ view[c].fail \in Nat /\ view[c].state \in IdleStates
      /\ SourceMaxFail \in Nat
  <2>1. view \in [Conns -> View] /\ IsFiniteSet(alive) /\ alive \subseteq Conns
    BY <1>4 DEF TypesOK
  <2>2. view[c].fail \in Nat
    BY <1>3, <2>1, ViewFacts
  <2>3. view[c].state \in IdleStates
    BY <1>4 DEF Linked
  <2> QED BY <2>1, <2>2, <2>3, IfaceAssumption
<1>7. /\ view' \in [Conns -> View] /\ IsFiniteSet(alive') /\ alive' \subseteq alive
      /\ \A d \in Conns : d # c => view'[d] = view[d]
      /\ view'[c].state \in IdleStates /\ view'[c].fail < SourceMaxFail
      /\ \A d \in alive : d # c => d \in alive'
  <2>1. CASE view[c].fail >= SourceMaxFail
    <3>1. alive' = alive \ {c} /\ view' = [view EXCEPT ![c] = NewView]
      BY <1>1, <2>1 DEF Free
    <3>2. IsFiniteSet(alive')
      BY <1>6, <3>1, FS_Subset
    <3> QED BY <1>3, <1>6, <3>1, <3>2, NewViewFacts DEF IdleStates
  <2>2. CASE ~(view[c].fail >= SourceMaxFail)
    <3>1. alive' = alive /\ view' = view
      BY <1>1, <2>2 DEF ifaceVars
    <3>2. view[c].fail < SourceMaxFail
      BY <1>6, <2>2
    <3> QED BY <1>6, <3>1, <3>2
  <2> QED BY <2>1, <2>2
<1>8. Linked(Doing(q), alive', view', {})
  <2> DEFINE S == Doing(chunks)
             T == Doing(q)
             u == view'
  <2>1. /\ Linked(S, alive, view, {c}) /\ \A z : z \in T <=> z \in S /\ z.conn # c
        /\ {c} \in SUBSET {c} /\ \A d \in Conns : d # c => u[d] = view[d]
        /\ u[c].state \in IdleStates /\ u[c].fail < SourceMaxFail
        /\ \A z \in T : z.conn \in Conns
    BY <1>4, <1>5, <1>7
  <2> HIDE DEF S, T, u, q
  <2>2. Linked(T, alive', u, {})
    BY <1>3, <1>7, <2>1, LinkedOff
  <2> QED BY <2>2 DEF T, u
<1>9. Cardinality(Transferring(alive', view')) <= MaxSources
  <2>1. Transferring(alive', view') \subseteq Transferring(alive, view)
    BY <1>6, <1>7 DEF Transferring, IdleStates
  <2> QED BY <1>4, <1>6, <2>1, LimitKept
<1>10. RunOK(run', dl_state', alive', chunks') /\ Leaving(run') = {}
  BY <1>2, <1>3, CallRun, QuietFacts
<1>11. ListOK(dl_state', chunks', received')
  BY <1>2, <1>3, <1>4, <1>5 DEF ListOK, NoList
<1>12. FileOK(dl_state', chunks', file')
  BY <1>2, <1>3, <1>4, <1>5 DEF FileOK, Backed
<1>13. TypesOK(alive', view', dl_state', aborted')
  BY <1>2, <1>4, <1>6, <1>7 DEF TypesOK
<1> QED BY <1>2, <1>3, <1>8, <1>9, <1>10, <1>11, <1>12, <1>13 DEF Inv

(* What download_maintain starts from *)
LEMMA MaintainFacts ==
    ASSUME Inv, run.pc = "maintain"
    PROVE  /\ dl_state = "ACTIVE" /\ dl_state \in LiveStates /\ ChunkList(chunks)
           /\ received = Cardinality(Got(chunks))
           /\ TypesOK(alive, view, dl_state, aborted) /\ Linked(Doing(chunks), alive, view, {})
           /\ alive \subseteq Conns /\ view \in [Conns -> View] /\ IsFiniteSet(alive)
           /\ run \in RunType /\ (run.timer = TRUE => Unfinished(chunks))
           /\ FileOK("ACTIVE", chunks, file)
           /\ Cardinality(Transferring(alive, view)) <= MaxSources
<1>1. dl_state = "ACTIVE" /\ dl_state \in LiveStates
  BY DEF Inv, RunOK, LiveStates
<1>2. ChunkList(chunks) /\ received = Cardinality(Got(chunks))
  BY <1>1 DEF Inv, ListOK, NoList
<1>3. TypesOK(alive, view, dl_state, aborted) /\ Linked(Doing(chunks), alive, view, {})
      /\ run \in RunType /\ (run.timer = TRUE => Unfinished(chunks))
      /\ FileOK("ACTIVE", chunks, file)
      /\ Cardinality(Transferring(alive, view)) <= MaxSources
  BY <1>1 DEF Inv, RunOK, Leaving
<1> QED BY <1>1, <1>2, <1>3 DEF TypesOK

(* maintain that finds the list inconsistent keeps it. *)
LEMMA CorruptedInv == ASSUME Inv, Corrupted PROVE Inv'
<1> DEFINE q == chunks'
           v == view'
<1>1. /\ run.pc = "maintain" /\ aborted' = "chunk list" /\ dl_state' = "FAILED"
      /\ file' = NoFile /\ v = StoppedView /\ q = UnassignAll /\ run' = Quiet
      /\ alive' = alive /\ received' = received
  BY DEF Corrupted, At
<1>2. /\ ChunkList(chunks) /\ received = Cardinality(Got(chunks))
      /\ TypesOK(alive, view, dl_state, aborted) /\ Linked(Doing(chunks), alive, view, {})
      /\ alive \subseteq Conns /\ view \in [Conns -> View] /\ IsFiniteSet(alive)
      /\ Cardinality(Transferring(alive, view)) <= MaxSources
  BY <1>1, MaintainFacts
<1>3. ChunkList(q) /\ Got(q) = Got(chunks) /\ Doing(q) = {}
  <2>1. q = Dropped(chunks, Conns)
    BY <1>1, <1>2, UnassignFacts
  <2> HIDE DEF q
  <2> QED BY <1>2, <2>1, AllDropped
<1>4. v \in [Conns -> View] /\ Linked({}, alive, v, {}) /\ Transferring(alive, v) = {}
  BY <1>1, <1>2, StoppedFacts
<1>5. Cardinality(Transferring(alive, v)) <= MaxSources
  BY <1>2, <1>4, LimitKept
<1>6. TypesOK(alive', view', dl_state', aborted') /\ ListOK(dl_state', chunks', received')
  BY <1>1, <1>2, <1>3, <1>4 DEF TypesOK, States, EndStates, ListOK, NoList
<1>7. RunOK(run', dl_state', alive', chunks') /\ Leaving(run') = {}
  BY <1>1, QuietFacts, IdleRun
<1>8. FileOK(dl_state', chunks', file')
  <2>1. file' \in FileType /\ DiskOK(file')
    BY <1>1, NoFileFacts
  <2> QED BY <1>1, <2>1 DEF FileOK, Backed, LiveStates
<1> QED BY <1>1, <1>3, <1>4, <1>5, <1>6, <1>7, <1>8 DEF Inv

(* verify_chunks lets no complete chunk pass that someone works on. *)
LEMMA VerifiedFacts ==
    ASSUME ChunkList(chunks), VerifyChunks(chunks)
    PROVE  \A x \in Doing(chunks) : ~IsComplete(x)
<1>1. ASSUME NEW x \in Doing(chunks) PROVE ~IsComplete(x)
  <2>1. PICK i \in 1 .. Len(chunks) : chunks[i] = x
    BY DoingFacts
  <2>2. x.conn # NoConn /\ i \in DOMAIN chunks
    BY ChunkListFacts DEF Doing, Working
  <2> QED BY <2>1, <2>2 DEF VerifyChunks
<1> QED BY <1>1

(* The first chunk has all of the file: nothing is left to do. *)
LEMMA FinishedFacts ==
    ASSUME ChunkList(chunks), VerifyChunks(chunks)
    PROVE  LET r == Consolidate(chunks) IN
           /\ Finished(r) => /\ ~Missing(chunks) /\ Doing(chunks) = {} /\ Doing(r) = {}
                             /\ Len(r) = 1 /\ Got(chunks) = Blocks
           /\ ~Finished(r) => Missing(chunks) /\ Missing(r)
<1> DEFINE r == Consolidate(chunks)
<1>1. /\ ChunkList(r) /\ Solid(r) /\ Got(r) = Got(chunks) /\ Doing(r) = Doing(chunks)
      /\ AllDone(ToSet(chunks)) => Len(r) = 1 /\ AllDone(ToSet(r))
  BY ConsolidateFacts DEF Doing
<1> HIDE DEF r
<1>2. /\ DOMAIN chunks = 1 .. Len(chunks) /\ DOMAIN r = 1 .. Len(r) /\ 1 \in 1 .. Len(r)
      /\ r[1] \in ChunkRec /\ r[1].received <= r[1].size /\ r[1].start = 0
      /\ Len(r) \in Nat /\ EndOf(r[Len(r)]) = FileSize
      /\ r[1].size \in Nat /\ r[1].received \in Nat /\ EndOf(r[1]) = r[1].start + r[1].size
      /\ Head(r) = r[1] /\ FileSize \in Nat
  <2>1. /\ DOMAIN chunks = 1 .. Len(chunks)
    BY ChunkListFacts
  <2>2. /\ r \in Seq(ChunkRec) /\ r # <<>> /\ Len(r) \in Nat /\ Len(r) >= 1
        /\ DOMAIN r = 1 .. Len(r)
        /\ r[1].start = 0 /\ EndOf(r[Len(r)]) = FileSize
        /\ \A i \in 1 .. Len(r) :
              /\ r[i] \in ChunkRec /\ r[i].received <= r[i].size
              /\ r[i].size \in Nat /\ r[i].received \in Nat
              /\ EndOf(r[i]) = r[i].start + r[i].size
    BY <1>1, ChunkListFacts
  <2>3. Head(r) = r[1]
    BY <2>2
  <2>4. 1 \in 1 .. Len(r)
    BY <2>2
  <2> QED BY <2>1, <2>2, <2>3, <2>4, IfaceAssumption
<1>3. ~Missing(chunks) => AllDone(ToSet(chunks)) /\ Doing(chunks) = {}
  <2> SUFFICES ASSUME ~Missing(chunks) PROVE AllDone(ToSet(chunks)) /\ Doing(chunks) = {}
    OBVIOUS
  <2>1. \A i \in 1 .. Len(chunks) : IsComplete(chunks[i])
    BY DEF Missing
  <2>2. Doing(chunks) = {}
    <3>1. ASSUME NEW x \in Doing(chunks) PROVE FALSE
      BY <2>1, DoingFacts, VerifiedFacts
    <3> QED BY <3>1
  <2>3. \A x \in ToSet(chunks) : x.conn = NoConn
    BY <2>2 DEF Doing, Working
  <2>4. \A x \in ToSet(chunks) : IsComplete(x)
    BY <1>2, <2>1 DEF ToSet
  <2> QED BY <2>2, <2>3, <2>4 DEF AllDone
<1>4. ASSUME Finished(r) PROVE ~Missing(chunks) /\ Got(chunks) = Blocks
  <2>1. r[1].received = FileSize
    BY <1>2, <1>4 DEF Finished
  <2>2. Blocks \subseteq Prefix(r[1])
    <3>1. \A k \in Blocks : k \in Nat /\ k < FileSize
      BY <1>2 DEF Blocks
    <3>2. Prefix(r[1]) = 0 .. 0 + FileSize - 1
      BY <1>2, <2>1 DEF Prefix
    <3> QED BY <1>2, <3>1, <3>2
  <2>3. Blocks \subseteq Got(r)
    BY <1>2, <2>2 DEF Got
  <2>4. Got(r) \subseteq Blocks
    <3>1. Tiles(r, 0, FileSize)
      BY <1>1 DEF ChunkList
    <3> QED BY <1>2, <3>1, GotBounds DEF Blocks
  <2>5. Got(chunks) = Blocks
    BY <1>1, <2>3, <2>4
  <2> QED BY <2>5, MissingFacts
<1>5. ASSUME ~Missing(chunks) PROVE Finished(r)
  <2>1. Len(r) = 1 /\ AllDone(ToSet(r))
    BY <1>1, <1>3, <1>5
  <2>2. IsComplete(r[1])
    BY <1>2, <2>1 DEF AllDone, ToSet
  <2>3. EndOf(r[1]) = FileSize
    BY <1>2, <2>1
  <2>4. r[1].received = FileSize
    BY <1>2, <2>2, <2>3 DEF IsComplete
  <2> QED BY <1>2, <2>4 DEF Finished
<1>6. Missing(chunks) => Missing(r)
  BY <1>1, MissingFacts
<1> QED BY <1>1, <1>3, <1>4, <1>5, <1>6 DEF r

(* maintain that finds everything received, and so starts the *)
(* verification, keeps it.                                    *)
LEMMA FinishInv == ASSUME Inv, Finish PROVE Inv'
<1> DEFINE q == Consolidate(chunks)
           v == view'
<1>1. /\ run.pc = "maintain" /\ VerifyChunks(chunks) /\ Finished(q)
      /\ v = StoppedView /\ chunks' = q /\ file' = Flush(file) /\ dl_state' = "VERIFYING"
      /\ run' = [run EXCEPT !.pc = "verify"]
      /\ aborted' = Check(dl_state = "ACTIVE" /\ Len(chunks') = 1, "finished")
      /\ alive' = alive /\ received' = received
  BY DEF Finish, At
<1>2. /\ dl_state = "ACTIVE" /\ ChunkList(chunks) /\ received = Cardinality(Got(chunks))
      /\ TypesOK(alive, view, dl_state, aborted) /\ Linked(Doing(chunks), alive, view, {})
      /\ alive \subseteq Conns /\ view \in [Conns -> View] /\ IsFiniteSet(alive)
      /\ run \in RunType /\ (run.timer = TRUE => Unfinished(chunks))
      /\ FileOK("ACTIVE", chunks, file)
      /\ Cardinality(Transferring(alive, view)) <= MaxSources
  BY <1>1, MaintainFacts
<1>3. /\ ~Missing(chunks) /\ Doing(chunks) = {} /\ Doing(q) = {} /\ Len(q) = 1
      /\ Got(chunks) = Blocks
  BY <1>1, <1>2, FinishedFacts
<1>4. ChunkList(q) /\ Got(q) = Got(chunks)
  BY <1>2, ConsolidateFacts
<1> HIDE DEF q
<1>5. aborted' = aborted
  BY <1>1, <1>2, <1>3 DEF Check
<1>6. v \in [Conns -> View] /\ Linked({}, alive, v, {}) /\ Transferring(alive, v) = {}
  BY <1>1, <1>2, StoppedFacts
<1>7. Cardinality(Transferring(alive, v)) <= MaxSources
  BY <1>2, <1>6, LimitKept
<1>8. run' \in RunType /\ run'.pc = "verify" /\ run'.timer = FALSE /\ Leaving(run') = {}
  <2>1. run.timer = FALSE
    <3>1. ~(run.timer = TRUE)
      BY <1>2, <1>3 DEF Unfinished
    <3>2. run.timer \in BOOLEAN
      BY <1>2 DEF RunType
    <3> QED BY <3>1, <3>2
  <2>2. run' \in RunType /\ run'.pc = "verify" /\ run'.timer = run.timer
    BY <1>1, <1>2 DEF RunType
  <2> QED BY <2>1, <2>2 DEF Leaving
<1>9. RunOK(run', dl_state', alive', chunks')
  BY <1>1, <1>8 DEF RunOK, Phases
<1>10. FileOK(dl_state', chunks', file')
  <2>1. file \in FileType
    BY <1>2 DEF FileOK
  <2>2. /\ Same(file, file') /\ file'.pdata = {} /\ file'.disk = file.disk \cup file.pdata
    BY <1>1, <2>1, FlushFacts
  <2>3. file' \in FileType /\ (DiskOK(file) => DiskOK(file'))
    BY <2>2 DEF Same
  <2>4. ASSUME Many PROVE Backed(dl_state', chunks', file')
    <3>1. Got(chunks) \subseteq file.disk \cup file.pdata /\ DiskOK(file)
      BY <1>2, <2>4 DEF FileOK, Backed, LiveStates
    <3>2. file'.disk = Blocks
      <4>1. file.disk \subseteq Blocks /\ file.pdata \subseteq Blocks
        BY <2>1, FileTypeFacts
      <4> QED BY <1>3, <2>2, <3>1, <4>1
    <3>3. Got(chunks') \subseteq file'.disk \cup file'.pdata
      BY <1>1, <1>3, <1>4, <3>2
    <3> QED BY <2>3, <3>1, <3>2, <3>3 DEF Backed
  <2> QED BY <2>3, <2>4 DEF FileOK
<1>11. TypesOK(alive', view', dl_state', aborted') /\ ListOK(dl_state', chunks', received')
  BY <1>1, <1>2, <1>4, <1>5, <1>6 DEF TypesOK, States, ListOK, NoList
<1> QED BY <1>1, <1>3, <1>6, <1>7, <1>8, <1>9, <1>10, <1>11 DEF Inv

(* The end of the hash keeps it. *)
LEMMA VerifyInv == ASSUME Inv, Verify PROVE Inv'
<1>1. /\ run.pc = "verify" /\ run' = Quiet /\ aborted' = Check(~run.timer, "timer")
      /\ alive' = alive /\ view' = view /\ received' = received /\ chunks' = chunks
      /\ \/ dl_state' = "COMPLETE" /\ file' = [file EXCEPT !.saved = NoState]
         \/ dl_state' = "FAILED" /\ file' = NoFile
  BY DEF Verify, At
<1>2. dl_state = "VERIFYING" /\ run.timer = FALSE
  BY <1>1 DEF Inv, RunOK
<1>3. aborted' = aborted
  BY <1>1, <1>2 DEF Check
<1>4. Doing(chunks) = {}
  BY <1>2 DEF Inv
<1>5. FileOK(dl_state', chunks', file')
  <2>1. CASE dl_state' = "COMPLETE" /\ file' = [file EXCEPT !.saved = NoState]
    <3>1. file \in FileType
      BY DEF Inv, FileOK
    <3>2. /\ file' \in FileType /\ file'.disk = file.disk
          /\ file'.saved = NoState /\ file'.psaved = file.psaved
      BY <2>1, <3>1, NoStateFacts DEF FileType
    <3>3. ASSUME Many PROVE Backed(dl_state', chunks', file')
      <4>1. file.disk = Blocks /\ DiskOK(file)
        BY <1>2, <3>3 DEF Inv, FileOK, Backed
      <4>2. Claims(file'.saved, file'.disk)
        BY <3>2, NoStateFacts
      <4>3. DiskOK(file')
        BY <3>2, <4>1, <4>2 DEF DiskOK
      <4> QED BY <2>1, <3>2, <4>1, <4>3 DEF Backed, LiveStates
    <3> QED BY <3>2, <3>3 DEF FileOK
  <2>2. CASE dl_state' = "FAILED" /\ file' = NoFile
    BY <2>2, NoFileFacts DEF FileOK, Backed, LiveStates
  <2> QED BY <1>1, <2>1, <2>2
<1>6. RunOK(run', dl_state', alive', chunks') /\ Leaving(run') = {}
  <2>1. dl_state' # "VERIFYING" /\ dl_state' # "ACTIVE"
    BY <1>1
  <2> QED BY <1>1, <2>1, QuietFacts, IdleRun
<1>7. TypesOK(alive', view', dl_state', aborted')
  BY <1>1, <1>3 DEF Inv, TypesOK, States, EndStates
<1>8. ListOK(dl_state', chunks', received')
  BY <1>1, <1>2 DEF Inv, ListOK, NoList
<1>9. Linked(Doing(chunks'), alive', view', {}) /\ Cardinality(Transferring(alive', view')) <= MaxSources
  BY <1>1 DEF Inv, Leaving
<1> QED BY <1>1, <1>4, <1>5, <1>6, <1>7, <1>8, <1>9 DEF Inv

(* The start of maintain, up to its first phase, keeps it. *)
LEMMA MaintainInv == ASSUME Inv, Maintain PROVE Inv'
<1> DEFINE q == Consolidate(chunks)
           active == Cardinality(InState("TRANSFERRING"))
           pending == Cardinality(InState("CONNECTING"))
           first == [pc |-> "phase1", cands |-> alive \ Assigned, slow |-> Assigned,
                     timer |-> run.timer, max_new |-> (MaxSources - active) * 2 - pending]
<1>1. /\ run.pc = "maintain" /\ VerifyChunks(chunks) /\ ~Finished(q) /\ chunks' = q
      /\ aborted' = Check(dl_state = "ACTIVE", "state")
      /\ run' = IF \/ alive = {} \/ active >= MaxSources
                   \/ pending >= (MaxSources - active) * 2
                THEN Quiet ELSE first
      /\ alive' = alive /\ view' = view /\ dl_state' = dl_state /\ received' = received
      /\ file' = file
  BY DEF Maintain, At
<1>2. /\ dl_state = "ACTIVE" /\ ChunkList(chunks) /\ received = Cardinality(Got(chunks))
      /\ TypesOK(alive, view, dl_state, aborted) /\ Linked(Doing(chunks), alive, view, {})
      /\ alive \subseteq Conns /\ IsFiniteSet(alive) /\ run \in RunType
      /\ FileOK("ACTIVE", chunks, file)
      /\ Cardinality(Transferring(alive, view)) <= MaxSources
  BY <1>1, MaintainFacts
<1>3. /\ ChunkList(q) /\ Solid(q) /\ Got(q) = Got(chunks) /\ Doing(q) = Doing(chunks)
      /\ \A i \in 1 .. Len(q) : q[i].conn = NoConn => Whole(q[i])
  BY <1>2, ConsolidateFacts DEF Doing
<1>4. Missing(q)
  BY <1>1, <1>2, FinishedFacts
<1>5. \A x \in Doing(chunks) : ~IsComplete(x)
  BY <1>1, <1>2, VerifiedFacts
<1> HIDE DEF q
<1>6. aborted' = aborted
  BY <1>1, <1>2 DEF Check
<1>7. RunOK(run', dl_state', alive', chunks') /\ Leaving(run') = {}
  <2>1. CASE run' = Quiet
    <3>1. Unfinished(q)
      BY <1>4 DEF Unfinished
    <3> QED BY <1>1, <1>2, <2>1, <3>1, QuietFacts, IdleRun
  <2>2. CASE run' # Quiet
    <3>1. /\ run' = first /\ ~(active >= MaxSources)
          /\ ~(pending >= (MaxSources - active) * 2)
      BY <1>1, <2>2
    <3>2. active \in Nat /\ pending \in Nat /\ MaxSources \in Nat
      <4>1. IsFiniteSet(InState("TRANSFERRING")) /\ IsFiniteSet(InState("CONNECTING"))
        BY <1>2, FS_Subset DEF InState
      <4> QED BY <4>1, FS_CardinalityType, DownloadAssumption
    <3> DEFINE m == (MaxSources - active) * 2 - pending
    <3>3. m \in 0 .. 2 * MaxSources
      <4> HIDE DEF active, pending
      <4> QED BY <3>1, <3>2
    <3> HIDE DEF m, active, pending
    <3>4. first = [pc |-> "phase1", cands |-> alive \ Assigned, slow |-> Assigned,
                   timer |-> run.timer, max_new |-> m]
      BY DEF m
    <3>5. Assigned \subseteq Conns /\ run.timer \in BOOLEAN
      BY <1>2 DEF Assigned, RunType
    <3>6. \A c \in Conns : c \in Assigned <=> \E x \in Doing(chunks) : x.conn = c
      <4>1. DOMAIN chunks = 1 .. Len(chunks)
        BY <1>2, ChunkListFacts
      <4> SUFFICES ASSUME NEW c \in Conns
                   PROVE  c \in Assigned <=> \E x \in Doing(chunks) : x.conn = c
        OBVIOUS
      <4>2. ASSUME c \in Assigned PROVE \E x \in Doing(chunks) : x.conn = c
        <5>1. PICK i \in DOMAIN chunks : chunks[i].conn = c
          BY <4>2 DEF Assigned, ChunksOf
        <5>2. chunks[i] \in Doing(chunks)
          BY <4>1, <5>1, DownloadAssumption DEF Doing, Working, ToSet
        <5> QED BY <5>1, <5>2
      <4>3. ASSUME NEW x \in Doing(chunks), x.conn = c PROVE c \in Assigned
        <5>1. PICK i \in 1 .. Len(chunks) : chunks[i] = x
          BY <1>2, DoingFacts
        <5> QED BY <4>1, <4>3, <5>1 DEF Assigned, ChunksOf
      <4> QED BY <4>2, <4>3
    <3>7. first \in RunType /\ first.pc = "phase1" /\ first.cands = alive \ Assigned
          /\ first.slow = Assigned
      <4> HIDE DEF first
      <4>1. "phase1" \in {"idle", "disassociate", "maintain", "verify"} \cup Phases
        BY DEF Phases
      <4> QED BY <1>2, <3>3, <3>4, <3>5, <4>1 DEF RunType
    <3> HIDE DEF first
    <3>8. Ready(run', alive, q)
      <4>1. \A c \in run'.cands : c \in alive /\ \A x \in Doing(q) : x.conn # c
        BY <1>2, <1>3, <3>1, <3>6, <3>7
      <4>2. \A c \in run'.slow : \E x \in Doing(q) : x.conn = c
        BY <1>3, <3>1, <3>5, <3>6, <3>7
      <4> QED BY <1>3, <1>4, <1>5, <4>1, <4>2 DEF Ready
    <3>9. RunOK(run', dl_state', alive', chunks')
      BY <1>1, <1>2, <3>1, <3>7, <3>8 DEF RunOK, Phases
    <3>10. Leaving(run') = {}
      BY <3>1, <3>7 DEF Leaving
    <3> QED BY <3>9, <3>10
  <2> QED BY <2>1, <2>2
<1>8. FileOK(dl_state', chunks', file')
  BY <1>1, <1>2, <1>3 DEF FileOK, Backed
<1>9. ListOK(dl_state', chunks', received')
  BY <1>1, <1>2, <1>3 DEF ListOK, NoList
<1>10. TypesOK(alive', view', dl_state', aborted')
  BY <1>1, <1>2, <1>6
<1> QED BY <1>1, <1>2, <1>3, <1>7, <1>8, <1>9, <1>10 DEF Inv

-----------------------------------------------------------------------------
(* The phases of maintain                                                  *)

(* What the loops of start_chunks start from *)
LEMMA PhaseFacts ==
    ASSUME Inv, run.pc \in Phases
    PROVE  /\ dl_state = "ACTIVE" /\ ChunkList(chunks) /\ received = Cardinality(Got(chunks))
           /\ TypesOK(alive, view, dl_state, aborted) /\ Linked(Doing(chunks), alive, view, {})
           /\ alive \subseteq Conns /\ view \in [Conns -> View] /\ IsFiniteSet(alive)
           /\ run \in RunType /\ Ready(run, alive, chunks)
           /\ Solid(chunks) /\ Missing(chunks)
           /\ \A x \in Doing(chunks) : ~IsComplete(x)
           /\ FileOK("ACTIVE", chunks, file)
           /\ Cardinality(Transferring(alive, view)) <= MaxSources
<1>1. dl_state = "ACTIVE" /\ run \in RunType /\ Ready(run, alive, chunks)
  BY DEF Inv, RunOK
<1>2. ChunkList(chunks) /\ received = Cardinality(Got(chunks))
  BY <1>1 DEF Inv, ListOK, NoList
<1>3. /\ TypesOK(alive, view, dl_state, aborted) /\ Linked(Doing(chunks), alive, view, {})
      /\ FileOK("ACTIVE", chunks, file)
      /\ Cardinality(Transferring(alive, view)) <= MaxSources
  BY <1>1 DEF Inv, Leaving, Phases
<1>4. Solid(chunks) /\ Missing(chunks) /\ \A x \in Doing(chunks) : ~IsComplete(x)
  BY <1>1 DEF Ready
<1> QED BY <1>1, <1>2, <1>3, <1>4 DEF TypesOK

(* A step of the loops has taken the list to q and the connections along. *)
LEMMA PhaseInv ==
    ASSUME Inv, run.pc \in Phases, dl_state' = dl_state, received' = received,
           file' = file, aborted' = aborted, ChunkList(chunks'), Got(chunks') = Got(chunks),
           alive' \subseteq alive, view' \in [Conns -> View],
           \A c \in Conns : view'[c].state = "TRANSFERRING" => view[c].state = "TRANSFERRING",
           Linked(Doing(chunks'), alive', view', {}),
           RunOK(run', "ACTIVE", alive', chunks'), Leaving(run') = {}
    PROVE  Inv'
<1>1. /\ dl_state = "ACTIVE" /\ received = Cardinality(Got(chunks))
      /\ TypesOK(alive, view, dl_state, aborted) /\ alive \subseteq Conns
      /\ IsFiniteSet(alive) /\ FileOK("ACTIVE", chunks, file)
      /\ Cardinality(Transferring(alive, view)) <= MaxSources
  BY PhaseFacts
<1>2. IsFiniteSet(alive') /\ alive' \subseteq Conns
  BY <1>1, FS_Subset
<1>3. TypesOK(alive', view', dl_state', aborted')
  BY <1>1, <1>2 DEF TypesOK
<1>4. Cardinality(Transferring(alive', view')) <= MaxSources
  <2>1. Transferring(alive', view') \subseteq Transferring(alive, view)
    BY <1>1 DEF Transferring
  <2> QED BY <1>1, <2>1, LimitKept
<1>5. ListOK(dl_state', chunks', received')
  BY <1>1 DEF ListOK, NoList
<1>6. FileOK(dl_state', chunks', file')
  BY <1>1 DEF FileOK, Backed
<1> QED BY <1>1, <1>3, <1>4, <1>5, <1>6 DEF Inv

(* A phase whose conditions hold fits the state. *)
LEMMA PhaseRun ==
    ASSUME NEW r \in RunType, r.pc \in Phases, NEW al, NEW q, Ready(r, al, q)
    PROVE  RunOK(r, "ACTIVE", al, q) /\ Leaving(r) = {}
BY DEF RunOK, Leaving, Phases

(* Only the control state of the loops changes. *)
LEMMA PassInv ==
    ASSUME Inv, run.pc \in Phases,
           UNCHANGED <<alive, view, dl_state, received, chunks, file, aborted>>,
           run' \in RunType, run'.pc \in Phases, run'.pc = "phase1" => run.pc = "phase1",
           run'.cands \subseteq run.cands, run'.slow \subseteq run.slow
    PROVE  Inv'
<1>1. /\ ChunkList(chunks) /\ alive \subseteq Conns /\ view \in [Conns -> View]
      /\ Linked(Doing(chunks), alive, view, {}) /\ Ready(run, alive, chunks)
  BY PhaseFacts
<1>2. Ready(run', alive, chunks)
  BY <1>1 DEF Ready
<1>3. RunOK(run', "ACTIVE", alive, chunks) /\ Leaving(run') = {}
  BY <1>2, PhaseRun
<1> QED BY <1>1, <1>3, PhaseInv

(* The end of the phase of unused chunks keeps it. *)
LEMMA EndPhase1Inv == ASSUME Inv, EndPhase1 PROVE Inv'
<1>1. /\ run.pc = "phase1" /\ run' = [run EXCEPT !.pc = "phase2"]
      /\ UNCHANGED <<alive, view, dl_state, received, chunks, file, aborted>>
  BY DEF EndPhase1, At, NextPhase
<1>2. run.pc \in Phases /\ "phase2" \in Phases
  BY <1>1 DEF Phases
<1>3. run \in RunType
  BY <1>2, PhaseFacts
<1>4. /\ run' \in RunType /\ run'.pc = "phase2"
      /\ run'.cands = run.cands /\ run'.slow = run.slow
  BY <1>1, <1>2, <1>3 DEF RunType
<1> QED BY <1>1, <1>2, <1>4, PassInv

(* The end of the phase that splits chunks keeps it. *)
LEMMA EndPhase2Inv == ASSUME Inv, EndPhase2 PROVE Inv'
<1>1. /\ run.pc = "phase2" /\ run' = [run EXCEPT !.pc = "phase3"]
      /\ UNCHANGED <<alive, view, dl_state, received, chunks, file, aborted>>
  BY DEF EndPhase2, At, NextPhase
<1>2. run.pc \in Phases /\ "phase3" \in Phases
  BY <1>1 DEF Phases
<1>3. run \in RunType
  BY <1>2, PhaseFacts
<1>4. /\ run' \in RunType /\ run'.pc = "phase3"
      /\ run'.cands = run.cands /\ run'.slow = run.slow
  BY <1>1, <1>2, <1>3 DEF RunType
<1> QED BY <1>1, <1>2, <1>4, PassInv

(* Passing over a connection that may not ask again keeps it. *)
LEMMA SkipQueuedInv == ASSUME Inv, NEW c \in Conns, SkipQueued(c) PROVE Inv'
<1>1. /\ run.pc \in Phases /\ run' = [run EXCEPT !.cands = @ \ {c}]
      /\ UNCHANGED <<alive, view, dl_state, received, chunks, file, aborted>>
  BY DEF SkipQueued, At, Skipped, Phases
<1>2. run \in RunType
  BY <1>1, PhaseFacts
<1>3. /\ run' \in RunType /\ run'.pc = run.pc
      /\ run'.cands = run.cands \ {c} /\ run'.slow = run.slow
  BY <1>1, <1>2 DEF RunType
<1> QED BY <1>1, <1>3, PassInv

(* start_chunks returns: an unfinished list has something to be done. *)
LEMMA ReturnRun ==
    ASSUME NEW al, NEW q, Missing(q)
    PROVE  RunOK(Quiet, "ACTIVE", al, q) /\ Leaving(Quiet) = {}
<1>1. Unfinished(q)
  BY DEF Unfinished
<1> QED BY <1>1, QuietFacts, IdleRun

(* The end of the pass keeps it. *)
LEMMA EndPhase3Inv == ASSUME Inv, EndPhase3 PROVE Inv'
<1>1. /\ run.pc \in Phases /\ run' = Quiet
      /\ UNCHANGED <<alive, view, dl_state, received, chunks, file, aborted>>
  BY DEF EndPhase3, At, Phases
<1>2. /\ ChunkList(chunks) /\ alive \subseteq Conns /\ view \in [Conns -> View]
      /\ Linked(Doing(chunks), alive, view, {}) /\ Missing(chunks)
  BY <1>1, PhaseFacts
<1>3. RunOK(run', "ACTIVE", alive, chunks) /\ Leaving(run') = {}
  BY <1>1, <1>2, ReturnRun
<1> QED BY <1>1, <1>2, <1>3, PhaseInv

(* A request for the rest of chunk x serves it. *)
LEMMA StartedFacts ==
    ASSUME NEW v \in View, NEW x \in ChunkRec, x.received <= x.size, ~IsComplete(x),
           EndOf(x) <= FileSize, NEW u, u = Started(v, WritePos(x), Remaining(x))
    PROVE  u \in View /\ Serves(u, x) /\ u.fail = v.fail /\ u.state = "CONNECTING"
<1>1. /\ WritePos(x) \in Nat /\ WritePos(x) <= EndOf(x) /\ EndOf(x) \in Nat
      /\ Remaining(x) \in Nat /\ WritePos(x) + Remaining(x) = EndOf(x) /\ FileSize \in Nat
  <2>1. x.start \in Nat /\ x.size \in Nat /\ x.received \in Nat /\ FileSize \in Nat
    BY IfaceAssumption DEF ChunkRec
  <2> QED BY <2>1 DEF WritePos, EndOf, Remaining
<1>2. WritePos(x) \in 0 .. FileSize /\ Remaining(x) \in 0 .. FileSize
  BY <1>1
<1> DEFINE s == WritePos(x)
           n == Remaining(x)
<1>3. u = Started(v, s, n) /\ s \in 0 .. FileSize /\ n \in 0 .. FileSize /\ 0 \in 0 .. FileSize
  BY <1>1, <1>2
<1> HIDE DEF s, n
<1>4. /\ u \in View /\ u.state = "CONNECTING" /\ u.chunk_start = s /\ u.chunk_size = n
      /\ u.curr = 0 /\ u.fail = v.fail
  BY <1>3 DEF Started, View, BusyStates
<1>5. Serves(u, x)
  <2>1. s + 0 = WritePos(x) /\ s + n >= EndOf(x)
    BY <1>1, <1>3 DEF s, n
  <2> QED BY <1>4, <2>1 DEF Serves, BusyStates
<1> QED BY <1>4, <1>5

(* Connection c, which has no chunk, is freed or changes. *)
LEMMA LinkedIdle ==
    ASSUME NEW S, NEW al, NEW v, NEW c \in Conns, Linked(S, al, v, {}),
           \A x \in S : x.conn \in Conns /\ x.conn # c,
           NEW u, \A d \in Conns : d # c => u[d] = v[d],
           u[c].state \in IdleStates, u[c].fail < SourceMaxFail,
           NEW bl, \A d \in al : d # c => d \in bl
    PROVE  Linked(S, bl, u, {})
<1> DEFINE T == S
           lv == {}
<1>1. /\ \A x : x \in T <=> x \in S /\ x.conn # c
      /\ \A x \in T : x.conn \in Conns
      /\ lv \in SUBSET {c} /\ Linked(S, al, v, lv)
  OBVIOUS
<1> HIDE DEF T, lv
<1>2. Linked(T, bl, u, {})
  BY <1>1, LinkedOff
<1> QED BY <1>2 DEF T

(* A connection without a chunk is freed. *)
LEMMA FreeLinked ==
    ASSUME alive \subseteq Conns, view \in [Conns -> View], NEW c \in Conns, Free(c),
           Linked(Doing(chunks), alive, view, {}),
           \A z \in Doing(chunks) : z.conn \in Conns /\ z.conn # c
    PROVE  /\ view' \in [Conns -> View] /\ alive' \subseteq alive
           /\ Linked(Doing(chunks), alive', view', {})
           /\ \A d \in Conns : view'[d].state = "TRANSFERRING" => view[d].state = "TRANSFERRING"
<1>1. /\ view' \in [Conns -> View] /\ view'[c] = NewView
      /\ \A d \in Conns : d # c => view'[d] = view[d]
  BY NewViewFacts DEF Free
<1>2. /\ view'[c].state = "UNUSED" /\ view'[c].state \in IdleStates
      /\ view'[c].fail < SourceMaxFail
  BY <1>1, NewViewFacts DEF IdleStates
<1>3. alive' \subseteq alive /\ \A d \in alive : d # c => d \in alive'
  BY DEF Free
<1>4. Linked(Doing(chunks), alive', view', {})
  <2> DEFINE S == Doing(chunks)
             u == view'
             bl == alive'
  <2>1. /\ \A d \in Conns : d # c => u[d] = view[d]
        /\ u[c].state \in IdleStates /\ u[c].fail < SourceMaxFail
        /\ \A d \in alive : d # c => d \in bl
    BY <1>1, <1>2, <1>3
  <2>2. Linked(S, alive, view, {}) /\ \A z \in S : z.conn \in Conns /\ z.conn # c
    OBVIOUS
  <2> HIDE DEF S, u, bl
  <2>3. Linked(S, bl, u, {})
    BY <2>1, <2>2, LinkedIdle
  <2> QED BY <2>3 DEF S, u, bl
<1>5. \A d \in Conns : view'[d].state = "TRANSFERRING" => view[d].state = "TRANSFERRING"
  BY <1>1, <1>2
<1> QED BY <1>1, <1>3, <1>4, <1>5

(* Where the chunks of a list lie *)
LEMMA ChunkBounds ==
    ASSUME NEW q, ChunkList(q), NEW i \in 1 .. Len(q)
    PROVE  /\ q[i] \in ChunkRec /\ q[i].received <= q[i].size
           /\ EndOf(q[i]) <= FileSize /\ q[i].start >= 0
<1>1. 0 \in Nat /\ FileSize \in Nat /\ Tiles(q, 0, FileSize)
  BY IfaceAssumption DEF ChunkList
<1>2. EndOf(q[i]) <= FileSize /\ 0 <= q[i].start
  BY <1>1, TilesOrdered
<1>3. q[i] \in ChunkRec /\ q[i].received <= q[i].size /\ q[i].start \in Nat
  BY ChunkListFacts
<1> QED BY <1>2, <1>3

(* Giving a chunk to another connection changes nothing else of it. *)
LEMMA GivenFacts ==
    ASSUME NEW x \in ChunkRec, NEW c \in Conns, NEW y, y = Given(x, c)
    PROVE  /\ y \in ChunkRec /\ y.conn = c
           /\ IsComplete(y) <=> IsComplete(x)
           /\ \A v : Serves(v, x) => Serves(v, y)
<1>1. /\ y \in ChunkRec /\ y.conn = c /\ y.start = x.start /\ y.size = x.size
      /\ y.received = x.received
  BY DEF Given, ChunkRec
<1>2. WritePos(y) = WritePos(x) /\ EndOf(y) = EndOf(x) /\ (IsComplete(y) <=> IsComplete(x))
  BY <1>1 DEF WritePos, EndOf, IsComplete
<1> QED BY <1>1, <1>2 DEF Serves

(* The unused chunk that is served next *)
LEMMA OpenFacts ==
    ASSUME ChunkList(chunks), Open # {}, NEW i, i = Min(Open)
    PROVE  i \in 1 .. Len(chunks) /\ chunks[i].conn = NoConn /\ ~IsComplete(chunks[i])
<1>1. DOMAIN chunks = 1 .. Len(chunks) /\ Len(chunks) \in Nat
  BY ChunkListFacts
<1>2. Open \in SUBSET Nat
  BY <1>1 DEF Open
<1>3. Min(Open) \in Open
  BY <1>2, LeastFacts
<1> QED BY <1>1, <1>3 DEF Open

(* An idle connection gets chunk i, which nobody works on. *)
LEMMA HandedReady ==
    ASSUME NEW q, ChunkList(q), NEW i \in 1 .. Len(q), NEW c \in Conns, NEW q2,
           Handed(q, i, c, q2), ~IsComplete(q[i]),
           NEW r, NEW al, Ready(r, al, q),
           NEW r2, NEW al2, r2.pc = r.pc, r2.cands = r.cands \ {c},
           \A d \in r2.cands : d \in al2,
           \A d \in r2.slow : d \in r.slow /\ d # q[i].conn
    PROVE  Ready(r2, al2, q2)
<1>1. /\ ChunkList(q2) /\ Solid(q2) /\ Len(q2) = Len(q) /\ Got(q2) = Got(q)
      /\ \A j \in 1 .. Len(q) : q2[j] = IF j = i THEN Given(q[i], c) ELSE q[j]
      /\ \A x : x \in Doing(q2) <=> (x \in Doing(q) /\ x # q[i]) \/ x = Given(q[i], c)
  BY DEF Handed, Doing
<1>2. Given(q[i], c).conn = c /\ ~IsComplete(Given(q[i], c))
  BY ChunkListFacts, GivenFacts
<1> DEFINE y == Given(q[i], c)
<1> HIDE DEF y
<1>3. ASSUME NEW d \in r2.cands PROVE d \in al2 /\ \A x \in Doing(q2) : x.conn # d
  BY <1>1, <1>2 DEF Ready, y
<1>4. ASSUME NEW d \in r2.slow PROVE \E x \in Doing(q2) : x.conn = d
  <2>1. PICK x \in Doing(q) : x.conn = d
    BY DEF Ready
  <2>2. x # q[i]
    BY <2>1
  <2> QED BY <1>1, <2>1, <2>2
<1>5. Missing(q2)
  BY <1>1, MissingFacts DEF Ready
<1>6. \A x \in Doing(q2) : ~IsComplete(x)
  BY <1>1, <1>2 DEF Ready, y
<1>7. r2.pc = "phase1" => \A j \in 1 .. Len(q2) : q2[j].conn = NoConn => Whole(q2[j])
  <2> SUFFICES ASSUME r2.pc = "phase1", NEW j \in 1 .. Len(q2), q2[j].conn = NoConn
               PROVE  Whole(q2[j])
    OBVIOUS
  <2>1. j # i
    BY <1>1, <1>2, DownloadAssumption
  <2> QED BY <1>1, <2>1 DEF Ready
<1> QED BY <1>1, <1>3, <1>4, <1>5, <1>6, <1>7 DEF Ready

(* The request for chunk i is sent: connection c had none. *)
LEMMA HandedLinked ==
    ASSUME NEW q, ChunkList(q), NEW i \in 1 .. Len(q), q[i].conn = NoConn, ~IsComplete(q[i]),
           NEW al, al \subseteq Conns, NEW v, v \in [Conns -> View], NEW c \in al,
           Linked(Doing(q), al, v, {}), \A x \in Doing(q) : x.conn # c,
           NEW q2, Handed(q, i, c, q2),
           NEW u, \A d \in Conns : d # c => u[d] = v[d],
           u[c] = Started(v[c], WritePos(q[i]), Remaining(q[i]))
    PROVE  Linked(Doing(q2), al, u, {})
<1> DEFINE y == Given(q[i], c)
           S == Doing(q)
           T == Doing(q2)
<1>1. v[c] \in View /\ c \in Conns
  OBVIOUS
<1>2. v[c].fail < SourceMaxFail
  BY <1>1 DEF Linked
<1>3. q[i] \in ChunkRec /\ q[i].received <= q[i].size /\ EndOf(q[i]) <= FileSize
  BY ChunkBounds
<1>4. Serves(u[c], q[i]) /\ u[c].fail = v[c].fail
  BY <1>1, <1>3, StartedFacts
<1>5. y.conn = c /\ Serves(u[c], y)
  BY <1>1, <1>3, <1>4, GivenFacts
<1>6. \A z : z \in T <=> z \in S \/ z = y
  <2>1. \A z : z \in T <=> (z \in S /\ z # q[i]) \/ z = y
    BY DEF Handed, Doing
  <2>2. q[i] \notin S
    BY DEF Doing, Working
  <2> QED BY <2>1, <2>2
<1>7. u[c].fail < SourceMaxFail
  BY <1>2, <1>4
<1> HIDE DEF y, S, T
<1>8. Linked(S, al, v, {}) /\ \A x \in S : x.conn # c
  BY DEF S
<1>9. Linked(T, al, u, {})
  BY <1>5, <1>6, <1>7, <1>8, LinkedNew
<1> QED BY <1>9 DEF T

(* Phase one: a free chunk is handed to a connection. *)
LEMMA StartUnusedInv == ASSUME Inv, NEW c \in Conns, StartUnused(c) PROVE Inv'
<1> DEFINE i == Min(Open)
           x == chunks[i]
<1>1. /\ run.pc = "phase1" /\ c \in run.cands /\ run.max_new > 0 /\ Open # {}
      /\ aborted' = Check(x.received = 0, "half complete")
      /\ dl_state' = dl_state /\ received' = received /\ file' = file
      /\ \/ /\ Start(c, x.start, x.size) /\ run' = Used(c)
            /\ chunks' = [chunks EXCEPT ![i].conn = c]
         \/ Free(c) /\ run' = Skipped(c) /\ chunks' = chunks
  BY DEF StartUnused, At, MoreConns
<1>2. run.pc \in Phases
  BY <1>1 DEF Phases
<1>3. /\ ChunkList(chunks) /\ Linked(Doing(chunks), alive, view, {})
      /\ alive \subseteq Conns /\ view \in [Conns -> View]
      /\ run \in RunType /\ Ready(run, alive, chunks) /\ Solid(chunks) /\ Missing(chunks)
      /\ \A z \in Doing(chunks) : ~IsComplete(z)
  BY <1>2, PhaseFacts
<1>4. c \in alive /\ \A z \in Doing(chunks) : z.conn # c
  BY <1>1, <1>3 DEF Ready
<1>5. i \in 1 .. Len(chunks) /\ x.conn = NoConn /\ ~IsComplete(x)
  BY <1>1, <1>3, OpenFacts
<1> HIDE DEF i
<1>6. x.received = 0
  <2>1. Whole(x)
    BY <1>1, <1>3, <1>5 DEF Ready
  <2> QED BY <1>5, <2>1 DEF Whole
<1>7. aborted' = aborted
  BY <1>1, <1>6 DEF Check
<1>8. WritePos(x) = x.start /\ Remaining(x) = x.size /\ x \in ChunkRec
  <2>1. x \in ChunkRec /\ x.start \in Nat /\ x.size \in Nat
    BY <1>3, <1>5, ChunkListFacts
  <2> QED BY <1>6, <2>1 DEF WritePos, Remaining
<1>9. CASE /\ Start(c, x.start, x.size) /\ run' = Used(c)
           /\ chunks' = [chunks EXCEPT ![i].conn = c]
  <2>1. /\ alive' = alive /\ view' = [view EXCEPT ![c] = Started(@, WritePos(x), Remaining(x))]
    BY <1>8, <1>9 DEF Start
  <2>2. chunks' = Put(chunks, i, Given(x, c))
    BY <1>9 DEF Put, Given
  <2>3. Handed(chunks, i, c, chunks')
    BY <1>3, <1>5, <2>2, AssignFacts
  <2>4. /\ view'[c] = Started(view[c], WritePos(x), Remaining(x))
        /\ \A d \in Conns : d # c => view'[d] = view[d]
    BY <1>3, <2>1
  <2>5. Linked(Doing(chunks'), alive', view', {})
    <3> DEFINE q2 == chunks'
               u == view'
    <3>1. /\ Handed(chunks, i, c, q2) /\ u[c] = Started(view[c], WritePos(chunks[i]), Remaining(chunks[i]))
          /\ \A d \in Conns : d # c => u[d] = view[d]
      BY <2>3, <2>4
    <3> HIDE DEF q2, u
    <3>2. Linked(Doing(q2), alive, u, {})
      BY <1>3, <1>4, <1>5, <3>1, HandedLinked
    <3> QED BY <2>1, <3>2 DEF q2, u
  <2>6. /\ view' \in [Conns -> View]
        /\ \A d \in Conns : view'[d].state = "TRANSFERRING" => view[d].state = "TRANSFERRING"
    <3>1. view[c] \in View /\ EndOf(x) <= FileSize /\ x.received <= x.size
      BY <1>3, <1>5, ChunkBounds
    <3>2. view'[c] \in View /\ view'[c].state = "CONNECTING"
      BY <1>5, <1>8, <2>4, <3>1, StartedFacts
    <3>3. view' \in [Conns -> View]
      BY <1>3, <2>1, <2>4, <3>2
    <3> QED BY <2>4, <3>2, <3>3
  <2>7. /\ run' \in RunType /\ run'.pc = run.pc /\ run'.cands = run.cands \ {c}
        /\ run'.slow = run.slow
    <3>1. run.max_new - 1 \in 0 .. 2 * MaxSources
      <4>1. run.max_new \in 0 .. 2 * MaxSources
        BY <1>3 DEF RunType
      <4>2. run.max_new > 0
        BY <1>1
      <4> DEFINE m == run.max_new
                 b == 2 * MaxSources
      <4>3. m \in 0 .. b /\ m > 0 /\ b \in Nat
        BY <4>1, <4>2, DownloadAssumption
      <4> HIDE DEF m, b
      <4>4. m - 1 \in 0 .. b
        BY <4>3
      <4> QED BY <4>4 DEF m, b
    <3>2. run' = [run EXCEPT !.cands = @ \ {c}, !.max_new = @ - 1]
      BY <1>9 DEF Used
    <3> QED BY <1>3, <3>1, <3>2 DEF RunType
  <2>8. Ready(run', alive', chunks')
    <3>1. \A d \in run'.cands : d \in alive'
      BY <1>3, <2>1, <2>7 DEF Ready
    <3>2. \A d \in run'.slow : d \in run.slow /\ d # x.conn
      BY <1>3, <1>5, <2>7, DownloadAssumption DEF RunType
    <3> DEFINE q2 == chunks'
               r2 == run'
    <3>3. Handed(chunks, i, c, q2)
      BY <2>3
    <3> HIDE DEF q2
    <3>4. Ready(r2, alive', q2)
      BY <1>3, <1>5, <2>7, <3>1, <3>2, <3>3, HandedReady
    <3> QED BY <3>4 DEF q2
  <2>9. RunOK(run', "ACTIVE", alive', chunks') /\ Leaving(run') = {}
    BY <1>2, <2>7, <2>8, PhaseRun
  <2>10. ChunkList(chunks') /\ Got(chunks') = Got(chunks)
    BY <2>3 DEF Handed
  <2>11. alive' \subseteq alive
    BY <2>1
  <2> QED BY <1>1, <1>2, <1>7, <2>5, <2>6, <2>9, <2>10, <2>11, PhaseInv
<1>10. CASE Free(c) /\ run' = Skipped(c) /\ chunks' = chunks
  <2>1. alive' = alive \ {c} /\ view' = [view EXCEPT ![c] = NewView]
    BY <1>10 DEF Free
  <2>2. \A z \in Doing(chunks) : z.conn \in Conns /\ z.conn # c
    BY <1>3, <1>4, DoingFacts
  <2>3. /\ view' \in [Conns -> View] /\ alive' \subseteq alive
        /\ Linked(Doing(chunks), alive', view', {})
        /\ \A d \in Conns : view'[d].state = "TRANSFERRING" => view[d].state = "TRANSFERRING"
    <3>1. /\ alive \subseteq Conns /\ view \in [Conns -> View]
          /\ Linked(Doing(chunks), alive, view, {}) /\ Free(c)
      BY <1>3, <1>10
    <3> QED BY <2>2, <3>1, FreeLinked
  <2>4. /\ run' \in RunType /\ run'.pc = run.pc /\ run'.cands = run.cands \ {c}
        /\ run'.slow = run.slow
    BY <1>3, <1>10 DEF Skipped, RunType
  <2>5. Ready(run', alive', chunks)
    BY <1>3, <2>1, <2>4 DEF Ready
  <2>6. RunOK(run', "ACTIVE", alive', chunks) /\ Leaving(run') = {}
    BY <1>2, <2>4, <2>5, PhaseRun
  <2> QED BY <1>1, <1>2, <1>3, <1>7, <1>10, <2>3, <2>6, PhaseInv
<1> QED BY <1>1, <1>9, <1>10

(* There is a chunk with most to do. *)
LEMMA LargestFacts == ASSUME ChunkList(chunks) PROVE Largest \in 1 .. Len(chunks)
<1> DEFINE rest(i) == FileSize - Remaining(chunks[i])
           T == {rest(i) : i \in 1 .. Len(chunks)}
           most == {i \in DOMAIN chunks : \A j \in DOMAIN chunks :
                        Remaining(chunks[j]) <= Remaining(chunks[i])}
<1>1. /\ DOMAIN chunks = 1 .. Len(chunks) /\ Len(chunks) \in Nat /\ 1 \in 1 .. Len(chunks)
      /\ FileSize \in Nat
  BY ChunkListFacts, IfaceAssumption
<1>2. ASSUME NEW i \in 1 .. Len(chunks)
      PROVE  Remaining(chunks[i]) \in Nat /\ rest(i) \in Nat
  <2>1. /\ chunks[i].start \in Nat /\ chunks[i].size \in Nat /\ chunks[i].received \in Nat
        /\ chunks[i].received <= chunks[i].size
    BY ChunkListFacts
  <2>2. chunks[i].start + chunks[i].size <= FileSize
    BY ChunkBounds DEF EndOf
  <2> QED BY <1>1, <2>1, <2>2 DEF Remaining
<1>3. T \in SUBSET Nat /\ T # {}
  BY <1>1, <1>2
<1> HIDE DEF rest
<1>4. Min(T) \in T /\ \A k \in T : Min(T) <= k
  BY <1>3, LeastFacts
<1>5. PICK i \in 1 .. Len(chunks) : Min(T) = rest(i)
  BY <1>4
<1>6. ASSUME NEW j \in 1 .. Len(chunks) PROVE Remaining(chunks[j]) <= Remaining(chunks[i])
  <2>1. rest(i) <= rest(j)
    BY <1>4, <1>5
  <2> QED BY <1>1, <1>2, <2>1 DEF rest
<1>7. i \in most /\ most \in SUBSET Nat
  BY <1>1, <1>6
<1> HIDE DEF most
<1>8. Min(most) \in most
  BY <1>7, LeastFacts
<1> QED BY <1>1, <1>8 DEF most, Largest

(* List q2 is q with a chunk of it shared with connection c. *)
Parted(q, q2, al, u, c) ==
    /\ Linked(Doing(q2), al, u, {}) /\ u[c] \in View /\ u[c].state = "CONNECTING"
    /\ \A z : z \in Doing(q2) =>
          \/ z \in Doing(q)
          \/ z.conn = c /\ ~IsComplete(z)
          \/ \E x \in Doing(q) : z.conn = x.conn /\ ~IsComplete(z)
    /\ \A x \in Doing(q) : \E z \in Doing(q2) : z.conn = x.conn

(* Chunk i is split: who works on it goes on with the first half. *)
LEMMA HalvedLinked ==
    ASSUME NEW q, ChunkList(q), NEW i \in 1 .. Len(q), Remaining(q[i]) >= 3,
           NEW al, al \subseteq Conns, NEW v, v \in [Conns -> View], NEW c \in al,
           Linked(Doing(q), al, v, {}), \A x \in Doing(q) : x.conn # c,
           NEW q2, Halved(q, i, c, q2),
           NEW u, \A d \in Conns : d # c => u[d] = v[d],
           u[c] = Started(v[c], SecondHalf(q[i], c).start, SecondHalf(q[i], c).size)
    PROVE  Parted(q, q2, al, u, c)
<1> DEFINE new == SecondHalf(q[i], c)
           old == Shortened(q[i], new.size)
           x == q[i]
           S == Doing(q)
           T == Doing(q2)
<1>1. c \in Conns /\ v[c] \in View /\ v[c].fail < SourceMaxFail /\ c # NoConn
  BY DownloadAssumption DEF Linked
<1>2. x \in ChunkRec /\ x.received <= x.size /\ EndOf(x) <= FileSize /\ EndOf(x) \in Nat
  BY ChunkBounds, ChunkListFacts
<1>3. /\ new \in ChunkRec /\ new.conn = c /\ new.received = 0 /\ new.size > 0
      /\ EndOf(new) = EndOf(x) /\ ~IsComplete(new)
      /\ old.conn = x.conn /\ ~IsComplete(old) /\ WritePos(old) = WritePos(x)
      /\ EndOf(old) \in Nat /\ EndOf(old) <= EndOf(x)
      /\ new.start \in Nat /\ new.size \in Nat
  BY <1>1, <1>2, SecondHalfFacts DEF Shortened
<1>4. \A z : z \in ToSet(q2) <=> (z \in ToSet(q) /\ z # x) \/ z = old \/ z = new
  BY DEF Halved
<1>5. x \in ToSet(q)
  BY ChunkListFacts DEF ToSet
<1> HIDE DEF new, old, x
<1>6. /\ WritePos(new) = new.start /\ Remaining(new) = new.size /\ new.received <= new.size
  BY <1>3 DEF WritePos, Remaining
<1>7. u[c] \in View /\ Serves(u[c], new) /\ u[c].fail < SourceMaxFail /\ u[c].state = "CONNECTING"
  <2>1. u[c] = Started(v[c], WritePos(new), Remaining(new))
    BY <1>6 DEF new
  <2>2. EndOf(new) <= FileSize
    BY <1>2, <1>3
  <2>3. u[c] \in View /\ Serves(u[c], new) /\ u[c].fail = v[c].fail /\ u[c].state = "CONNECTING"
    BY <1>1, <1>3, <1>6, <2>1, <2>2, StartedFacts
  <2> QED BY <1>1, <2>3
<1>8. \A z : z \in T <=> \/ z \in S /\ z # x
                         \/ z = old /\ x.conn # NoConn
                         \/ z = new
  BY <1>1, <1>3, <1>4 DEF Doing, Working
<1>9. x \in S <=> x.conn # NoConn
  BY <1>5 DEF Doing, Working
<1>10. \A y \in S : y.conn \in Conns
  BY DoingFacts
<1>11. Linked(S, al, v, {}) /\ \A y \in S : y.conn # c
  OBVIOUS
<1>12. ASSUME x.conn # NoConn PROVE Serves(v[x.conn], old)
  <2>1. Serves(v[x.conn], x) /\ x.conn \in Conns
    BY <1>9, <1>10, <1>11, <1>12 DEF Linked
  <2>2. v[x.conn].chunk_start \in Nat /\ v[x.conn].chunk_size \in Nat
    BY <2>1, ViewFacts
  <2> DEFINE w == v[x.conn]
  <2> HIDE DEF w
  <2>3. w.chunk_start + w.chunk_size >= EndOf(old)
    <3>1. w.chunk_start + w.chunk_size >= EndOf(x)
      BY <2>1 DEF Serves, w
    <3>2. w.chunk_start + w.chunk_size \in Nat
      BY <2>2 DEF w
    <3>3. EndOf(x) \in Nat /\ EndOf(old) \in Nat /\ EndOf(old) <= EndOf(x)
      BY <1>2, <1>3
    <3> QED BY <3>1, <3>2, <3>3
  <2>4. Serves(w, x)
    BY <2>1 DEF w
  <2>5. Serves(w, old)
    BY <1>3, <2>3, <2>4 DEF Serves
  <2> QED BY <2>5 DEF w
<1> HIDE DEF S, T
<1> DEFINE M == (S \ {x}) \cup {z \in {old} : x.conn # NoConn}
<1>13. Linked(M, al, v, {}) /\ \A y \in M : y.conn # c
  <2>1. CASE x.conn = NoConn
    <3>1. M = S
      BY <1>9, <2>1
    <3> QED BY <1>11, <3>1
  <2>2. CASE x.conn # NoConn
    <3> DEFINE d == x.conn
               lv == {}
    <3>1. d \in Conns /\ x \in S /\ old.conn = d /\ d # c
      BY <1>3, <1>9, <1>10, <1>11, <2>2
    <3>2. \A z : z \in M <=> (z \in S /\ z # x) \/ z = old
      BY <2>2
    <3>3. v[d].fail < SourceMaxFail
      BY <1>11, <3>1 DEF Linked
    <3>4. Serves(v[d], old)
      BY <1>12, <2>2
    <3>5. x.conn = d
      OBVIOUS
    <3> HIDE DEF M, d, lv
    <3>6. lv = {} /\ Linked(S, al, v, {})
      BY <1>11 DEF lv
    <3>7. \A e \in Conns : e # d => v[e] = v[e]
      OBVIOUS
    <3>8. Linked(M, al, v, lv)
      BY <3>1, <3>2, <3>3, <3>4, <3>5, <3>6, <3>7, LinkedPut
    <3>9. \A y \in M : y.conn # c
      BY <1>11, <3>1, <3>2
    <3> QED BY <3>6, <3>8, <3>9
  <2> QED BY <2>1, <2>2
<1>14. \A z : z \in T <=> z \in M \/ z = new
  BY <1>8
<1> HIDE DEF M
<1>15. Linked(T, al, u, {})
  BY <1>3, <1>7, <1>13, <1>14, LinkedNew
<1>16. ASSUME NEW z, z \in T
       PROVE  \/ z \in S
              \/ z.conn = c /\ ~IsComplete(z)
              \/ \E y \in S : z.conn = y.conn /\ ~IsComplete(z)
  <2>1. CASE z \in S
    BY <2>1
  <2>2. CASE z = new
    BY <1>3, <2>2
  <2>3. CASE z = old /\ x.conn # NoConn
    <3>1. x \in S /\ z.conn = x.conn /\ ~IsComplete(z)
      BY <1>3, <1>9, <2>3
    <3> QED BY <3>1
  <2> QED BY <1>8, <1>16, <2>1, <2>2, <2>3
<1>17. ASSUME NEW y \in S PROVE \E z \in T : z.conn = y.conn
  <2>1. CASE y = x
    <3>1. old \in T /\ old.conn = y.conn
      BY <1>3, <1>8, <1>9, <2>1
    <3> QED BY <3>1
  <2>2. CASE y # x
    BY <1>8, <2>2
  <2> QED BY <2>1, <2>2
<1> QED BY <1>7, <1>15, <1>16, <1>17 DEF Parted, S, T

(* Phase two: the second half of the largest chunk is handed to a *)
(* connection.                                                    *)
LEMMA StartSplitInv == ASSUME Inv, NEW c \in Conns, StartSplit(c) PROVE Inv'
<1> DEFINE i == Largest
           new == SecondHalf(chunks[i], c)
           x == chunks[i]
<1>1. /\ run.pc = "phase2" /\ c \in run.cands /\ run.max_new > 0 /\ CanSplit
      /\ dl_state' = dl_state /\ received' = received /\ file' = file /\ aborted' = aborted
      /\ \/ /\ Start(c, new.start, new.size) /\ chunks' = SplitChunk(i, c)
            /\ run' = Used(c)
         \/ /\ Free(c) /\ run' = [Skipped(c) EXCEPT !.pc = "phase3"]
            /\ chunks' = chunks
  BY DEF StartSplit, At, MoreConns
<1>2. run.pc \in Phases /\ "phase3" \in Phases
  BY <1>1 DEF Phases
<1>3. /\ ChunkList(chunks) /\ Linked(Doing(chunks), alive, view, {})
      /\ alive \subseteq Conns /\ view \in [Conns -> View]
      /\ run \in RunType /\ Ready(run, alive, chunks) /\ Solid(chunks) /\ Missing(chunks)
      /\ \A z \in Doing(chunks) : ~IsComplete(z)
  BY <1>2, PhaseFacts
<1>4. c \in alive /\ \A z \in Doing(chunks) : z.conn # c
  BY <1>1, <1>3 DEF Ready
<1>5. i \in 1 .. Len(chunks) /\ Remaining(x) > 2 * MinChunk
  BY <1>1, <1>3, LargestFacts DEF CanSplit
<1>6. Remaining(x) >= 3
  <2>1. x.size \in Nat /\ x.received \in Nat
    BY <1>3, <1>5, ChunkListFacts
  <2>2. Remaining(x) \in Int
    BY <2>1 DEF Remaining
  <2>3. MinChunk \in Nat /\ MinChunk >= 1
    BY DownloadAssumption
  <2> QED BY <1>5, <2>2, <2>3
<1> HIDE DEF i
<1>7. CASE /\ Start(c, new.start, new.size) /\ chunks' = SplitChunk(i, c)
           /\ run' = Used(c)
  <2>1. alive' = alive /\ view' = [view EXCEPT ![c] = Started(@, new.start, new.size)]
    BY <1>7 DEF Start
  <2>2. chunks' = Splice(chunks, i, <<Shortened(chunks[i], SecondHalf(chunks[i], c).size),
                                      SecondHalf(chunks[i], c)>>)
    BY <1>7 DEF SplitChunk, Shortened
  <2>3. Halved(chunks, i, c, chunks')
    BY <1>3, <1>5, <1>6, <2>2, SplitFacts
  <2>4. /\ view'[c] = Started(view[c], SecondHalf(chunks[i], c).start, SecondHalf(chunks[i], c).size)
        /\ \A d \in Conns : d # c => view'[d] = view[d]
    BY <1>3, <2>1
  <2> DEFINE q == chunks'
             u == view'
  <2>5. /\ Linked(Doing(q), alive, u, {}) /\ u[c] \in View /\ u[c].state = "CONNECTING"
        /\ \A z : z \in Doing(q) =>
              \/ z \in Doing(chunks)
              \/ z.conn = c /\ ~IsComplete(z)
              \/ \E y \in Doing(chunks) : z.conn = y.conn /\ ~IsComplete(z)
        /\ \A y \in Doing(chunks) : \E z \in Doing(q) : z.conn = y.conn
    <3>1. Halved(chunks, i, c, q) /\ Remaining(chunks[i]) >= 3
      BY <1>6, <2>3
    <3>2. u[c] = Started(view[c], SecondHalf(chunks[i], c).start, SecondHalf(chunks[i], c).size)
      BY <2>4
    <3>3. \A d \in Conns : d # c => u[d] = view[d]
      BY <2>4
    <3> HIDE DEF q, u
    <3>4. Parted(chunks, q, alive, u, c)
      BY <1>3, <1>4, <1>5, <3>1, <3>2, <3>3, HalvedLinked
    <3> QED BY <3>4 DEF Parted
  <2>6. ChunkList(q) /\ Solid(q) /\ Got(q) = Got(chunks) /\ Missing(q)
    BY <2>3 DEF Halved
  <2>7. /\ u \in [Conns -> View] /\ alive' \subseteq alive
        /\ \A d \in Conns : u[d].state = "TRANSFERRING" => view[d].state = "TRANSFERRING"
    BY <1>3, <2>1, <2>4, <2>5
  <2>8. /\ run' \in RunType /\ run'.pc = "phase2" /\ run'.cands = run.cands \ {c}
        /\ run'.slow = run.slow
    <3>1. run.max_new - 1 \in 0 .. 2 * MaxSources
      <4>1. run.max_new \in 0 .. 2 * MaxSources
        BY <1>3 DEF RunType
      <4>2. run.max_new > 0
        BY <1>1
      <4> DEFINE m == run.max_new
                 b == 2 * MaxSources
      <4>3. m \in 0 .. b /\ m > 0 /\ b \in Nat
        BY <4>1, <4>2, DownloadAssumption
      <4> HIDE DEF m, b
      <4>4. m - 1 \in 0 .. b
        BY <4>3
      <4> QED BY <4>4 DEF m, b
    <3>2. run' = [run EXCEPT !.cands = @ \ {c}, !.max_new = @ - 1]
      BY <1>7 DEF Used
    <3> QED BY <1>1, <1>3, <3>1, <3>2 DEF RunType
  <2>9. Ready(run', alive', q)
    <3>1. ASSUME NEW d \in run'.cands
          PROVE  d \in alive /\ \A z \in Doing(q) : z.conn # d
      <4>1. d \in run.cands /\ d # c
        BY <2>8
      <4>2. d \in alive /\ \A y \in Doing(chunks) : y.conn # d
        BY <1>3, <4>1 DEF Ready
      <4> QED BY <2>5, <4>1, <4>2
    <3>2. ASSUME NEW d \in run'.slow PROVE \E z \in Doing(q) : z.conn = d
      <4>1. PICK y \in Doing(chunks) : y.conn = d
        BY <1>3, <2>8 DEF Ready
      <4> QED BY <2>5, <4>1
    <3>3. \A z \in Doing(q) : ~IsComplete(z)
      BY <1>3, <2>5
    <3> HIDE DEF q
    <3> QED BY <2>1, <2>6, <2>8, <3>1, <3>2, <3>3 DEF Ready
  <2>10. RunOK(run', "ACTIVE", alive', q) /\ Leaving(run') = {}
    BY <1>1, <1>2, <2>8, <2>9, PhaseRun
  <2> QED BY <1>1, <1>2, <2>1, <2>5, <2>6, <2>7, <2>10, PhaseInv
<1>8. CASE /\ Free(c) /\ run' = [Skipped(c) EXCEPT !.pc = "phase3"]
           /\ chunks' = chunks
  <2>1. alive' = alive \ {c} /\ view' = [view EXCEPT ![c] = NewView]
    BY <1>8 DEF Free
  <2>2. \A z \in Doing(chunks) : z.conn \in Conns /\ z.conn # c
    BY <1>3, <1>4, DoingFacts
  <2>3. /\ view' \in [Conns -> View] /\ alive' \subseteq alive
        /\ Linked(Doing(chunks), alive', view', {})
        /\ \A d \in Conns : view'[d].state = "TRANSFERRING" => view[d].state = "TRANSFERRING"
    <3>1. /\ alive \subseteq Conns /\ view \in [Conns -> View]
          /\ Linked(Doing(chunks), alive, view, {}) /\ Free(c)
      BY <1>3, <1>8
    <3> QED BY <2>2, <3>1, FreeLinked
  <2>4. /\ run' \in RunType /\ run'.pc = "phase3" /\ run'.cands = run.cands \ {c}
        /\ run'.slow = run.slow
    BY <1>2, <1>3, <1>8 DEF Skipped, RunType
  <2>5. Ready(run', alive', chunks)
    BY <1>3, <2>1, <2>4 DEF Ready
  <2>6. RunOK(run', "ACTIVE", alive', chunks) /\ Leaving(run') = {}
    BY <1>2, <2>4, <2>5, PhaseRun
  <2> QED BY <1>1, <1>2, <1>3, <1>8, <2>3, <2>6, PhaseInv
<1> QED BY <1>1, <1>7, <1>8

(* A connection that has a chunk, and the chunk it has *)
LEMMA SlowFacts ==
    ASSUME ChunkList(chunks), NEW s \in Conns, \E x \in Doing(chunks) : x.conn = s,
           NEW i, i = ChunkOf(s)
    PROVE  i \in 1 .. Len(chunks) /\ chunks[i].conn = s /\ chunks[i] \in Doing(chunks)
<1>1. DOMAIN chunks = 1 .. Len(chunks)
  BY ChunkListFacts
<1>2. PICK j \in 1 .. Len(chunks) : chunks[j].conn = s
  BY DoingFacts
<1>3. j \in ChunksOf(s)
  BY <1>1, <1>2 DEF ChunksOf
<1>4. i \in ChunksOf(s)
  BY <1>3 DEF ChunkOf
<1>5. i \in 1 .. Len(chunks) /\ chunks[i].conn = s
  BY <1>1, <1>4 DEF ChunksOf
<1>6. chunks[i] \in Doing(chunks)
  BY <1>1, <1>5, DownloadAssumption DEF Doing, Working, ToSet
<1> QED BY <1>5, <1>6

(* Connection s is freed, and c goes on with its chunk. *)
LEMMA ReplacedLinked ==
    ASSUME NEW q, ChunkList(q), NEW i \in 1 .. Len(q), ~IsComplete(q[i]),
           NEW al, al \subseteq Conns, NEW v, v \in [Conns -> View],
           NEW c \in al, NEW s \in al, q[i].conn = s, q[i] \in Doing(q),
           Linked(Doing(q), al, v, {}), \A x \in Doing(q) : x.conn # c,
           NEW q2, Handed(q, i, c, q2),
           NEW u, \A d \in Conns : d # c /\ d # s => u[d] = v[d],
           u[c] = Started(v[c], WritePos(q[i]), Remaining(q[i])),
           s # c => u[s].state \in IdleStates /\ u[s].fail < SourceMaxFail,
           NEW bl, bl \subseteq Conns, \A d \in al : d # s => d \in bl
    PROVE  Linked(Doing(q2), bl, u, {})
<1> DEFINE y == Given(q[i], c)
           S == Doing(q)
           T == Doing(q2)
           M == {x \in S : x.conn # s}
           w == [d \in Conns |-> IF d = c THEN v[c] ELSE u[d]]
<1>1. v[c] \in View /\ c \in Conns /\ s \in Conns /\ s # c
  OBVIOUS
<1>2. v[c].fail < SourceMaxFail
  BY <1>1 DEF Linked
<1>3. q[i] \in ChunkRec /\ q[i].received <= q[i].size /\ EndOf(q[i]) <= FileSize
  BY ChunkBounds
<1>4. Serves(u[c], q[i]) /\ u[c].fail = v[c].fail
  BY <1>1, <1>3, StartedFacts
<1>5. y.conn = c /\ Serves(u[c], y) /\ u[c].fail < SourceMaxFail
  BY <1>1, <1>2, <1>3, <1>4, GivenFacts
<1>6. \A z : z \in T <=> z \in M \/ z = y
  <2>1. \A z : z \in T <=> (z \in S /\ z # q[i]) \/ z = y
    BY DEF Handed, Doing
  <2>2. \A z \in S : z # q[i] <=> z.conn # s
    BY DEF Linked
  <2> QED BY <2>1, <2>2
<1>7. /\ w[c] = v[c] /\ \A d \in Conns : d # c => w[d] = u[d]
      /\ \A d \in Conns : d # s => w[d] = v[d]
  BY <1>1
<1>8. \A z \in S : z.conn \in Conns
  BY DoingFacts
<1>9. w[s].state \in IdleStates /\ w[s].fail < SourceMaxFail
  BY <1>1, <1>7
<1> HIDE DEF w
<1>10. Linked(M, bl, w, {})
  <2> DEFINE lv == {}
  <2>1. /\ \A z : z \in M <=> z \in S /\ z.conn # s
        /\ \A z \in M : z.conn \in Conns
    BY <1>8
  <2>2. lv \in SUBSET {s} /\ Linked(S, al, v, lv)
    OBVIOUS
  <2>3. \A d \in al : d # s => d \in bl
    OBVIOUS
  <2>4. \A d \in Conns : d # s => w[d] = v[d]
    BY <1>7
  <2> HIDE DEF M, S, lv
  <2> QED BY <1>1, <1>9, <2>1, <2>2, <2>3, <2>4, LinkedOff
<1>11. (\A x \in M : x.conn # c) /\ c \in bl /\ bl \subseteq Conns
  BY <1>1
<1>12. \A d \in Conns : d # c => u[d] = w[d]
  BY <1>7
<1> HIDE DEF y, S, T, M
<1>13. Linked(T, bl, u, {})
  BY <1>5, <1>6, <1>10, <1>11, <1>12, LinkedNew
<1> QED BY <1>13 DEF T

(* Connections s, which gives its chunk up, and c, which has none, are freed. *)
LEMMA LinkedBoth ==
    ASSUME NEW S, NEW al, NEW v, NEW c \in Conns, NEW s \in Conns, Linked(S, al, v, {}),
           \A x \in S : x.conn # c,
           NEW T, \A x : x \in T <=> x \in S /\ x.conn # s,
           \A x \in T : x.conn \in Conns,
           NEW u, \A d \in Conns : d # c /\ d # s => u[d] = v[d],
           \A d \in {c, s} : u[d].state \in IdleStates /\ u[d].fail < SourceMaxFail,
           NEW bl, \A d \in al : d # c /\ d # s => d \in bl
    PROVE  Linked(T, bl, u, {})
<1>1. \A x, y \in T : x.conn = y.conn => x = y
  BY DEF Linked
<1>2. ASSUME NEW x \in T PROVE x.conn \in bl /\ Serves(u[x.conn], x)
  <2>1. x \in S /\ x.conn # s /\ x.conn # c /\ x.conn \in Conns
    OBVIOUS
  <2>2. x.conn \in al /\ Serves(v[x.conn], x)
    BY <2>1 DEF Linked
  <2> QED BY <2>1, <2>2
<1>3. ASSUME NEW d \in Conns, u[d].state \in BusyStates PROVE \E x \in T : x.conn = d
  <2>1. d # c /\ d # s
    BY <1>3 DEF BusyStates, IdleStates
  <2>2. v[d].state \in BusyStates
    BY <1>3, <2>1
  <2>3. PICK x \in S : x.conn = d
    BY <2>2 DEF Linked
  <2> QED BY <2>1, <2>3
<1>4. ASSUME NEW d \in Conns PROVE u[d].fail < SourceMaxFail
  <2>1. CASE d \in {c, s}
    BY <2>1
  <2>2. CASE d \notin {c, s}
    <3>1. v[d].fail < SourceMaxFail
      BY DEF Linked
    <3> QED BY <2>2, <3>1
  <2> QED BY <2>1, <2>2
<1> QED BY <1>1, <1>2, <1>3, <1>4 DEF Linked

(* Phase three: a slow connection's chunk is handed to another one. *)
LEMMA ReplaceInv ==
    ASSUME Inv, NEW c \in Conns, NEW s \in Conns, Replace(s, c)
    PROVE  Inv'
<1> DEFINE i == ChunkOf(s)
           x == chunks[i]
<1>1. /\ run.pc = "phase3" /\ c \in run.cands /\ s \in run.slow
      /\ dl_state' = dl_state /\ received' = received /\ file' = file /\ aborted' = aborted
      /\ \/ /\ alive' = alive \ {s}
            /\ view' = [view EXCEPT ![s] = NewView,
                                    ![c] = Started(@, WritePos(x), Remaining(x))]
            /\ chunks' = [chunks EXCEPT ![i].conn = c]
            /\ run' = [Skipped(c) EXCEPT !.slow = @ \ {s}]
         \/ /\ alive' = alive \ {s, c}
            /\ view' = [view EXCEPT ![s] = NewView, ![c] = NewView]
            /\ chunks' = Unassign(s)
            /\ run' = Quiet
  BY DEF Replace, At, MoreConns
<1>2. run.pc \in Phases
  BY <1>1 DEF Phases
<1>3. /\ ChunkList(chunks) /\ Linked(Doing(chunks), alive, view, {})
      /\ alive \subseteq Conns /\ view \in [Conns -> View]
      /\ run \in RunType /\ Ready(run, alive, chunks) /\ Solid(chunks) /\ Missing(chunks)
      /\ \A z \in Doing(chunks) : ~IsComplete(z)
  BY <1>2, PhaseFacts
<1>4. c \in alive /\ \A z \in Doing(chunks) : z.conn # c
  BY <1>1, <1>3 DEF Ready
<1>5. i \in 1 .. Len(chunks) /\ x.conn = s /\ x \in Doing(chunks) /\ ~IsComplete(x)
  <2>1. \E z \in Doing(chunks) : z.conn = s
    BY <1>1, <1>3 DEF Ready
  <2>2. i \in 1 .. Len(chunks) /\ x.conn = s /\ x \in Doing(chunks)
    BY <1>3, <2>1, SlowFacts
  <2> QED BY <1>3, <2>2
<1> HIDE DEF i
<1>6. s # c /\ s \in alive
  BY <1>3, <1>4, <1>5 DEF Linked
<1>7. NewView \in View /\ NewView.state = "UNUSED" /\ NewView.state \in IdleStates
      /\ NewView.fail < SourceMaxFail
  BY NewViewFacts DEF IdleStates
<1>8. CASE /\ alive' = alive \ {s}
           /\ view' = [view EXCEPT ![s] = NewView,
                                   ![c] = Started(@, WritePos(x), Remaining(x))]
           /\ chunks' = [chunks EXCEPT ![i].conn = c]
           /\ run' = [Skipped(c) EXCEPT !.slow = @ \ {s}]
  <2>1. /\ view'[c] = Started(view[c], WritePos(x), Remaining(x)) /\ view'[s] = NewView
        /\ \A d \in Conns : d # c /\ d # s => view'[d] = view[d]
    BY <1>3, <1>6, <1>8
  <2>2. chunks' = Put(chunks, i, Given(x, c))
    BY <1>8 DEF Put, Given
  <2>3. Handed(chunks, i, c, chunks')
    BY <1>3, <1>5, <2>2, AssignFacts
  <2>4. Linked(Doing(chunks'), alive', view', {})
    <3> DEFINE q2 == chunks'
               u == view'
               bl == alive'
    <3>1. /\ Handed(chunks, i, c, q2) /\ u[c] = Started(view[c], WritePos(chunks[i]), Remaining(chunks[i]))
          /\ \A d \in Conns : d # c /\ d # s => u[d] = view[d]
          /\ u[s].state \in IdleStates /\ u[s].fail < SourceMaxFail
          /\ bl \subseteq Conns /\ (\A d \in alive : d # s => d \in bl) /\ chunks[i].conn = s
      BY <1>3, <1>5, <1>7, <1>8, <2>1, <2>3
    <3> HIDE DEF q2, u, bl
    <3>2. Linked(Doing(q2), bl, u, {})
      BY <1>3, <1>4, <1>5, <1>6, <3>1, ReplacedLinked
    <3> QED BY <3>2 DEF q2, u, bl
  <2>5. /\ view' \in [Conns -> View]
        /\ \A d \in Conns : view'[d].state = "TRANSFERRING" => view[d].state = "TRANSFERRING"
    <3>1. view[c] \in View /\ EndOf(x) <= FileSize /\ x.received <= x.size /\ x \in ChunkRec
      BY <1>3, <1>5, ChunkBounds
    <3>2. view'[c] \in View /\ view'[c].state = "CONNECTING"
      BY <1>5, <2>1, <3>1, StartedFacts
    <3>3. view' \in [Conns -> View]
      BY <1>3, <1>7, <1>8, <2>1, <3>2
    <3> QED BY <1>7, <2>1, <3>2, <3>3
  <2>6. /\ run' \in RunType /\ run'.pc = run.pc /\ run'.cands = run.cands \ {c}
        /\ run'.slow = run.slow \ {s}
    BY <1>3, <1>8 DEF Skipped, RunType
  <2>7. Ready(run', alive', chunks')
    <3>1. \A d \in run'.cands : d \in alive'
      BY <1>3, <1>5, <1>8, <2>6 DEF Ready
    <3>2. \A d \in run'.slow : d \in run.slow /\ d # x.conn
      BY <1>5, <2>6
    <3> DEFINE q2 == chunks'
               r2 == run'
    <3>3. Handed(chunks, i, c, q2)
      BY <2>3
    <3> HIDE DEF q2
    <3>4. Ready(r2, alive', q2)
      BY <1>3, <1>5, <2>6, <3>1, <3>2, <3>3, HandedReady
    <3> QED BY <3>4 DEF q2
  <2>8. RunOK(run', "ACTIVE", alive', chunks') /\ Leaving(run') = {}
    BY <1>2, <2>6, <2>7, PhaseRun
  <2>9. ChunkList(chunks') /\ Got(chunks') = Got(chunks)
    BY <2>3 DEF Handed
  <2>10. alive' \subseteq alive
    BY <1>8
  <2> QED BY <1>1, <1>2, <2>4, <2>5, <2>8, <2>9, <2>10, PhaseInv
<1>9. CASE /\ alive' = alive \ {s, c}
           /\ view' = [view EXCEPT ![s] = NewView, ![c] = NewView]
           /\ chunks' = Unassign(s) /\ run' = Quiet
  <2> DEFINE q == chunks'
             S == Doing(chunks)
             T == Doing(q)
             u == view'
  <2>1. /\ ChunkList(q) /\ Got(q) = Got(chunks) /\ Missing(q)
        /\ \A z : z \in T <=> z \in S /\ z.conn # s
        /\ \A z \in T : z.conn \in Conns
    BY <1>3, <1>9, UnassignOne
  <2>2. /\ u \in [Conns -> View] /\ u[s] = NewView /\ u[c] = NewView
        /\ \A d \in Conns : d # c /\ d # s => u[d] = view[d]
    BY <1>3, <1>7, <1>9
  <2>3. Linked(S, alive, view, {}) /\ \A d \in alive : d # c /\ d # s => d \in alive'
    BY <1>3, <1>9
  <2>4. /\ \A z \in S : z.conn # c
        /\ \A z : z \in T <=> z \in S /\ z.conn # s
        /\ \A z \in T : z.conn \in Conns
    BY <1>4, <2>1
  <2>5. \A d \in {c, s} : u[d].state \in IdleStates /\ u[d].fail < SourceMaxFail
    BY <1>7, <2>2
  <2>6. \A d \in Conns : d # c /\ d # s => u[d] = view[d]
    BY <2>2
  <2> HIDE DEF q, S, T, u
  <2>8. Linked(T, alive', u, {})
    BY <2>3, <2>4, <2>5, <2>6, LinkedBoth
  <2>9. \A d \in Conns : u[d].state = "TRANSFERRING" => view[d].state = "TRANSFERRING"
    BY <1>7, <2>2
  <2>10. RunOK(run', "ACTIVE", alive', q) /\ Leaving(run') = {}
    BY <1>9, <2>1, ReturnRun
  <2>11. alive' \subseteq alive
    BY <1>9
  <2> QED BY <1>1, <1>2, <2>1, <2>2, <2>8, <2>9, <2>10, <2>11, PhaseInv DEF q, T, u
<1> QED BY <1>1, <1>8, <1>9

-----------------------------------------------------------------------------
(* The theorems                                                            *)

(* Every step of the model, of the handler that runs, a source, the owner *)
(* or the timer, keeps the invariant.                                     *)
LEMMA NextInv == ASSUME Inv, [Next]_vars PROVE Inv'
<1>1. CASE Handler
  <2>1. CASE Disassociate
    BY <2>1, DisassociateInv
  <2>2. CASE Corrupted
    BY <2>2, CorruptedInv
  <2>3. CASE Finish
    BY <2>3, FinishInv
  <2>4. CASE Verify
    BY <2>4, VerifyInv
  <2>5. CASE Maintain
    BY <2>5, MaintainInv
  <2>6. CASE EndPhase1
    BY <2>6, EndPhase1Inv
  <2>7. CASE EndPhase2
    BY <2>7, EndPhase2Inv
  <2>8. CASE EndPhase3
    BY <2>8, EndPhase3Inv
  <2>9. CASE \E c \in Conns : SkipQueued(c) \/ StartUnused(c) \/ StartSplit(c)
    BY <2>9, SkipQueuedInv, StartUnusedInv, StartSplitInv
  <2>10. CASE \E c \in Conns : \E s \in Conns : Replace(s, c)
    BY <2>10, ReplaceInv
  <2> QED BY <1>1, <2>1, <2>2, <2>3, <2>4, <2>5, <2>6, <2>7, <2>8, <2>9, <2>10 DEF Handler
<1>2. CASE Source
  <2>1. PICK c \in Conns :
            \/ SourceFails(c) \/ TurnAway(c) \/ Accepted(c) \/ WriteFails(c)
            \/ \E n \in 1 .. FileSize + 1 : HeaderData(c, n) \/ BodyData(c, n)
    BY <1>2 DEF Source
  <2>2. CASE SourceFails(c) \/ TurnAway(c) \/ Accepted(c) \/ WriteFails(c)
    BY <2>2, SourceFailsInv, TurnAwayInv, AcceptedInv, WriteFailsInv
  <2>3. CASE \E n \in 1 .. FileSize + 1 : HeaderData(c, n) \/ BodyData(c, n)
    <3>1. PICK n \in 1 .. FileSize + 1 : HeaderData(c, n) \/ BodyData(c, n)
      BY <2>3
    <3>2. n \in Nat
      OBVIOUS
    <3> QED BY <3>1, <3>2, HeaderDataInv, BodyDataInv
  <2> QED BY <2>1, <2>2, <2>3
<1>3. CASE Owner
  BY <1>3, AddSourceInv, StartDownloadInv, RestartInv, PauseInv, QueueInv, ResumeInv,
     CancelInv, ExitInv, DiscardInv DEF Owner
<1>4. CASE MaintenanceTimer
  BY <1>4, TimerInv
<1>5. CASE UNCHANGED vars
  BY <1>5 DEF vars, Inv, InState
<1> QED BY <1>1, <1>2, <1>3, <1>4, <1>5 DEF Next

(* The invariant holds in every reachable state. *)
THEOREM Inductive == Spec => []Inv
<1>1. DownloadInit => Inv
  BY InitInv
<1>2. Inv /\ [Next]_vars => Inv'
  BY NextInv
<1> QED BY <1>1, <1>2, PTL DEF Spec

(* However many sources answer at once, no more than MaxSources of them   *)
(* transfer: conn_state_cb turns the others away.                         *)
THEOREM SourceLimitSafe == Spec => []SourceLimit
<1>1. Inv => SourceLimit
  BY DEF Inv, SourceLimit, InState, Transferring
<1> QED BY <1>1, Inductive, PTL

(* No assert () of as_download.c but that behind verify_chunks can fail.  *)
THEOREM AssertsSafe == Spec => []OnlyChunkListAsserts
<1>1. Inv => OnlyChunkListAsserts
  BY DEF Inv, TypesOK, OnlyChunkListAsserts
<1> QED BY <1>1, Inductive, PTL

(* The chunks tile the file, and dl->received is what they received,      *)
(* through every split, merge, failure and restart.                       *)
THEOREM PartitionSafe == Spec => []ChunksPartition
<1>1. ASSUME Inv PROVE ChunksPartition
  <2> SUFFICES ASSUME dl_state \in LiveStates \cup {"VERIFYING"}
               PROVE  /\ chunks # <<>> /\ chunks[1].start = 0 /\ EndOf(Last(chunks)) = FileSize
                      /\ \A i \in 1 .. Len(chunks) - 1 :
                            EndOf(chunks[i]) = chunks[i + 1].start /\ chunks[i].size > 0
                      /\ SumReceived(chunks) = received
    BY DEF ChunksPartition
  <2>1. ChunkList(chunks) /\ received = Cardinality(Got(chunks))
    BY <1>1 DEF Inv, ListOK, NoList, LiveStates
  <2>2. /\ chunks # <<>> /\ chunks[1].start = 0 /\ EndOf(chunks[Len(chunks)]) = FileSize
        /\ Len(chunks) \in Nat
    BY <2>1, ChunkListFacts
  <2>3. Last(chunks) = chunks[Len(chunks)]
    BY DEF Last
  <2>4. ASSUME NEW i \in 1 .. Len(chunks) - 1
        PROVE  EndOf(chunks[i]) = chunks[i + 1].start /\ chunks[i].size > 0
    BY <2>1, <2>2 DEF ChunkList, Tiles, Solid, Loaded
  <2>5. SumReceived(chunks) = received
    BY <2>1, SumFacts, IfaceAssumption DEF ChunkList
  <2> QED BY <2>2, <2>3, <2>4, <2>5
<1> QED BY <1>1, Inductive, PTL

(* The invariant gives every variable its type. *)
LEMMA Typed == Inv => TypeOK
<1> SUFFICES ASSUME Inv PROVE TypeOK
  OBVIOUS
<1>1. /\ alive \subseteq Conns /\ view \in [Conns -> View] /\ dl_state \in States
      /\ run \in RunType /\ file \in FileType
  BY DEF Inv, TypesOK, RunOK, FileOK
<1>2. /\ run.cands \subseteq Conns /\ run.slow \subseteq Conns
      /\ run.max_new \in 0 .. 2 * MaxSources
  BY <1>1 DEF RunType
<1>3. file.disk \subseteq Blocks /\ file.pdata \subseteq Blocks
  BY <1>1, FileTypeFacts
<1>4. received \in 0 .. FileSize /\ \A i \in DOMAIN chunks : chunks[i] \in ChunkType
  <2>1. CASE dl_state \in NoList
    <3>1. chunks = <<>> /\ received = 0
      BY <2>1 DEF Inv, ListOK
    <3>2. DOMAIN chunks = {}
      BY <3>1
    <3> QED BY <3>1, <3>2, IfaceAssumption
  <2>2. CASE dl_state \notin NoList
    <3>1. ChunkList(chunks) /\ received = Cardinality(Got(chunks))
      BY <2>2 DEF Inv, ListOK
    <3>2. Cardinality(Got(chunks)) \in Nat /\ Cardinality(Got(chunks)) <= FileSize
      BY <3>1, GotBounds, IfaceAssumption DEF ChunkList
    <3>3. ASSUME NEW i \in DOMAIN chunks PROVE chunks[i] \in ChunkType
      <4>1. i \in 1 .. Len(chunks)
        BY <3>1, ChunkListFacts
      <4>2. /\ chunks[i] \in ChunkRec /\ chunks[i].received <= chunks[i].size
            /\ EndOf(chunks[i]) <= FileSize
        BY <3>1, <4>1, ChunkBounds
      <4> DEFINE x == chunks[i]
      <4> HIDE DEF x
      <4>3. x \in ChunkRec /\ x.received <= x.size /\ x.start + x.size <= FileSize
        BY <4>2 DEF x, EndOf
      <4>4. x.start \in Nat /\ x.size \in Nat /\ x.received \in Nat /\ FileSize \in Nat
        BY <4>3, IfaceAssumption DEF ChunkRec
      <4>5. x.start \in 0 .. FileSize /\ x.size \in 0 .. FileSize /\ x.received \in 0 .. FileSize
        BY <4>3, <4>4
      <4>6. x \in ChunkType
        BY <4>3, <4>5 DEF ChunkRec, ChunkType
      <4> QED BY <4>6 DEF x
    <3>4. received \in 0 .. FileSize
      BY <3>1, <3>2, IfaceAssumption
    <3> QED BY <3>3, <3>4
  <2> QED BY <2>1, <2>2
<1> QED BY <1>1, <1>2, <1>3, <1>4 DEF TypeOK, States

(* Between events the connections that have a chunk are the busy ones. *)
LEMMA AssignedBusy ==
    ASSUME Inv, run.pc = "idle"
    PROVE  /\ Linked(Doing(chunks), alive, view, {})
           /\ \A c \in Conns : c \in Assigned <=> \E x \in Doing(chunks) : x.conn = c
           /\ Assigned = {c \in alive : view[c].state \in BusyStates}
<1>1. Linked(Doing(chunks), alive, view, {}) /\ alive \subseteq Conns
  BY DEF Inv, Leaving, TypesOK
<1>2. ASSUME NEW c \in Conns PROVE c \in Assigned <=> \E x \in Doing(chunks) : x.conn = c
  <2>1. CASE dl_state \in NoList
    <3>1. chunks = <<>>
      BY <2>1 DEF Inv, ListOK
    <3>2. DOMAIN chunks = {}
      BY <3>1
    <3>3. Doing(chunks) = {}
      BY <3>1, EmptyTiles DEF Doing, Working
    <3> QED BY <3>2, <3>3 DEF Assigned, ChunksOf
  <2>2. CASE dl_state \notin NoList
    <3>1. ChunkList(chunks)
      BY <2>2 DEF Inv, ListOK
    <3>2. DOMAIN chunks = 1 .. Len(chunks)
      BY <3>1, ChunkListFacts
    <3>3. ASSUME c \in Assigned PROVE \E x \in Doing(chunks) : x.conn = c
      <4>1. PICK i \in DOMAIN chunks : chunks[i].conn = c
        BY <3>3 DEF Assigned, ChunksOf
      <4>2. chunks[i] \in Doing(chunks)
        BY <3>2, <4>1, DownloadAssumption DEF Doing, Working, ToSet
      <4> QED BY <4>1, <4>2
    <3>4. ASSUME NEW x \in Doing(chunks), x.conn = c PROVE c \in Assigned
      <4>1. PICK i \in 1 .. Len(chunks) : chunks[i] = x
        BY <3>1, DoingFacts
      <4> QED BY <3>2, <3>4, <4>1 DEF Assigned, ChunksOf
    <3> QED BY <3>3, <3>4
  <2> QED BY <2>1, <2>2
<1>3. ASSUME NEW c \in Assigned PROVE c \in alive /\ view[c].state \in BusyStates
  <2>1. c \in Conns
    BY DEF Assigned
  <2>2. PICK x \in Doing(chunks) : x.conn = c
    BY <1>2, <2>1
  <2> QED BY <1>1, <2>2 DEF Linked, Serves
<1>4. ASSUME NEW c \in alive, view[c].state \in BusyStates PROVE c \in Assigned
  <2>1. c \in Conns
    BY <1>1
  <2>2. \E x \in Doing(chunks) : x.conn = c
    BY <1>1, <1>4, <2>1 DEF Linked
  <2> QED BY <1>2, <2>1, <2>2
<1> QED BY <1>1, <1>2, <1>3, <1>4

(* Between events, chunk->udata and conn->udata2 agree with the state of  *)
(* the connection and with the range it asked for.                        *)
THEOREM AssignedSafe == Spec => []AssignedConsistent
<1>1. ASSUME Inv PROVE AssignedConsistent
  <2>1. TypeOK
    BY <1>1, Typed
  <2>2. ASSUME run.pc = "idle"
        PROVE  /\ Assigned = {c \in alive : view[c].state \in BusyStates}
               /\ \A c \in alive : view[c].fail < SourceMaxFail
    <3>1. Linked(Doing(chunks), alive, view, {}) /\ alive \subseteq Conns
      BY <1>1, <2>1, <2>2, AssignedBusy DEF TypeOK
    <3>2. \A c \in alive : view[c].fail < SourceMaxFail
      BY <3>1 DEF Linked
    <3> QED BY <1>1, <2>2, <3>2, AssignedBusy
  <2>3. ASSUME run.pc = "idle", NEW c \in Assigned
        PROVE  LET ch == chunks[ChunkOf(c)]
               IN  /\ Cardinality(ChunksOf(c)) = 1
                   /\ view[c].chunk_start + view[c].curr = WritePos(ch)
                   /\ view[c].chunk_start + view[c].chunk_size >= EndOf(ch)
                   /\ dl_state = "ACTIVE"
    <3> DEFINE i == ChunkOf(c)
    <3>1. c \in Conns /\ Linked(Doing(chunks), alive, view, {})
      BY <1>1, <2>3, AssignedBusy DEF Assigned
    <3>2. \E x \in Doing(chunks) : x.conn = c
      BY <1>1, <2>3, <3>1, AssignedBusy
    <3>3. dl_state = "ACTIVE" /\ ChunkList(chunks)
      <4>1. dl_state = "ACTIVE"
        BY <1>1, <3>2 DEF Inv
      <4> QED BY <1>1, <4>1 DEF Inv, ListOK, NoList
    <3>4. i \in 1 .. Len(chunks) /\ chunks[i].conn = c /\ chunks[i] \in Doing(chunks)
      BY <3>1, <3>2, <3>3, SlowFacts
    <3> HIDE DEF i
    <3>5. Serves(view[c], chunks[i])
      BY <3>1, <3>4 DEF Linked
    <3>6. ChunksOf(c) = {i}
      <4>1. DOMAIN chunks = 1 .. Len(chunks)
        BY <3>3, ChunkListFacts
      <4>2. ASSUME NEW j \in ChunksOf(c) PROVE j = i
        <5>1. j \in 1 .. Len(chunks) /\ chunks[j].conn = c
          BY <4>1 DEF ChunksOf
        <5>2. chunks[j] \in Doing(chunks)
          BY <3>1, <4>1, <5>1, DownloadAssumption DEF Doing, Working, ToSet
        <5>3. chunks[j] = chunks[i]
          BY <3>1, <3>4, <5>1, <5>2 DEF Linked
        <5> QED BY <3>3, <3>4, <5>1, <5>3, ChunkListDistinct
      <4>3. i \in ChunksOf(c)
        BY <3>4, <4>1 DEF ChunksOf
      <4> QED BY <4>2, <4>3
    <3>7. Cardinality({i}) = 1
      BY FS_Singleton
    <3> QED BY <3>3, <3>5, <3>6, <3>7 DEF Serves, i
  <2> QED BY <2>1, <2>2, <2>3 DEF AssignedConsistent
<1> QED BY <1>1, Inductive, PTL

(* What was received is in the file or its buffer, and the file that is  *)
(* verified is complete, for any size of a file but one byte: the missing *)
(* range of that byte, <<0, 0>>, reads as the end of the list of ranges.  *)
THEOREM OnDiskSafe == Spec => []OnDisk
<1>1. ASSUME Inv PROVE OnDisk
  <2>1. CASE Many
    <3>1. Backed(dl_state, chunks, file)
      BY <1>1, <2>1 DEF Inv, FileOK
    <3> QED BY <3>1 DEF Backed, OnDisk, Got
  <2>2. CASE ~Many
    BY <2>2 DEF Many, OnDisk
  <2> QED BY <2>1, <2>2
<1> QED BY <1>1, Inductive, PTL

(* A file of one byte has one range that can be written: <<0, 0>>. *)
LEMMA OneByteFile ==
    ASSUME ~Many, NEW s, RangesOK(s.ranges), s.ok = TRUE
    PROVE  Load(s).ok \/ OneByteRange(s)
<1>1. FileSize = 1 /\ Unit = 1
  <2>1. FileSize \in Nat /\ FileSize >= 1 /\ Unit \in Nat /\ Unit >= 1
    BY DownloadAssumption, IfaceAssumption
  <2>2. FileSize >= 2 => FileSize * Unit >= 2
    BY <2>1
  <2>3. Unit >= 2 => FileSize * Unit >= 2
    BY <2>1
  <2>4. ~(FileSize * Unit >= 2)
    BY <2>1 DEF Many
  <2> QED BY <2>1, <2>2, <2>3, <2>4
<1>2. Len(s.ranges) \in Nat /\ DOMAIN s.ranges = 1 .. Len(s.ranges)
  BY DEF RangesOK
<1>3. CASE Len(s.ranges) = 0
  <2>1. Load(s) = FirstAcc(s.ok)
    BY <1>3, LoadSteps
  <2> QED BY <2>1 DEF FirstAcc
<1>4. CASE Len(s.ranges) # 0
  <2>1. 1 \in 1 .. Len(s.ranges)
    BY <1>2, <1>4
  <2>2. IsRange(s.ranges[1])
    BY <2>1 DEF RangesOK
  <2>3. PICK a \in Nat, e \in Nat : MissingPart(a, e) /\ s.ranges[1] = BlockRange(a, e)
    BY <2>2 DEF IsRange
  <2>4. a = 0 /\ e = 1
    BY <1>1, <2>3 DEF MissingPart
  <2>5. s.ranges[1] = <<0, 0>>
    BY <1>1, <2>3, <2>4 DEF BlockRange
  <2> QED BY <1>2, <2>1, <2>5 DEF OneByteRange
<1> QED BY <1>3, <1>4

(* The state data that a crash at any moment leaves can be loaded, unless *)
(* a range of it is a single byte (as_download_state.c:351), and claims   *)
(* no byte that is not in the file.                                       *)
THEOREM RecoverySafe == Spec => []RecoverySound
<1>1. ASSUME Inv PROVE RecoverySound
  <2>1. file \in FileType /\ (Many => DiskOK(file))
    BY <1>1 DEF Inv, FileOK, Backed
  <2>2. ASSUME NEW s \in {file.saved, file.psaved}, s.ok
        PROVE  /\ Load(s).ok \/ OneByteRange(s)
               /\ Load(s).ok /\ Many => FullBlocks(Load(s).chunks) \subseteq file.disk
    <3>1. s \in SaveType /\ (Many => Claims(s, file.disk))
      BY <2>1, FileTypeFacts DEF DiskOK
    <3>2. s.ok = TRUE /\ RangesOK(s.ranges)
      BY <2>2, <3>1, SaveTypeFacts
    <3>3. CASE Many
      <4>1. Sorted(s.ranges) /\ Blocks \ Listed(s.ranges) \subseteq file.disk
        BY <2>2, <3>1, <3>3 DEF Claims
      <4>2. /\ Load(s).ok \/ OneByteRange(s)
            /\ Load(s).ok => Got(Load(s).chunks) \subseteq Blocks \ Listed(s.ranges)
        BY <3>2, <3>3, <4>1, LoadFacts
      <4>3. FullBlocks(Load(s).chunks) \subseteq Got(Load(s).chunks)
        BY DEF FullBlocks, Got
      <4> QED BY <4>1, <4>2, <4>3
    <3>4. CASE ~Many
      BY <3>2, <3>4, OneByteFile
    <3> QED BY <3>3, <3>4
  <2> QED BY <2>2 DEF RecoverySound, Many
<1> QED BY <1>1, Inductive, PTL

=============================================================================
