------------------------------ MODULE Net_proofs -------------------------------
(* Proofs about the parts under the managers, one section each: the hash table,
   the HTTP server with the push replies, the HTTP client, and the event loop.
   They share no variables. *)
EXTENDS HashTable, Incoming, HttpClient, EventLoop, ListFacts, FiniteSetTheorems,
        FunctionTheorems, SequenceTheorems, TLAPS

-----------------------------------------------------------------------------
(* The hash table (as_hashtable.c), for any keys, values, hash function and list
   of table sizes: it implements the map that its users see. *)

(* The first of the facts that TableConsistent says of the table, for any table
   and length *)
Placed(t, n) ==
    /\ t \in [0 .. n - 1 -> SUBSET Entry]
    /\ \A i \in 0 .. n - 1 : \A e \in t[i] : IndexFor(n, e.key) = i
    /\ \A e, f \in Entries(t) : e.key = f.key => e = f

(* The entries with a key in S *)
With(t, S) == {e \in Entries(t) : e.key \in S}

(* A hash falls into one of the buckets. *)
LEMMA IndexRange ==
    ASSUME TableAssumption, NEW n \in Nat \ {0}, NEW k \in Keys
    PROVE  IndexFor(n, k) \in 0 .. n - 1
BY DEF IndexFor, TableAssumption

(* The entries are those of the buckets. *)
LEMMA InEntries ==
    ASSUME NEW n \in Nat, NEW t, DOMAIN t = 0 .. n - 1
    PROVE  \A e : e \in Entries(t) <=> \E i \in 0 .. n - 1 : e \in t[i]
BY DEF Entries

(* The bucket that a search looks at holds all entries with its key. *)
LEMMA FoundAll ==
    ASSUME TableAssumption, NEW n \in Nat \ {0}, NEW t, Placed(t, n), NEW k \in Keys
    PROVE  Found(t, n, k) = With(t, {k})
<1> DEFINE b == IndexFor(n, k)
<1>1. b \in 0 .. n - 1 /\ DOMAIN t = 0 .. n - 1
  BY IndexRange DEF Placed
<1>2. ASSUME NEW e \in Entries(t), e.key = k PROVE e \in t[b]
  <2>1. PICK i \in 0 .. n - 1 : e \in t[i]
    BY <1>1, <1>2 DEF Entries
  <2>2. IndexFor(n, e.key) = i
    BY <2>1 DEF Placed
  <2> QED BY <1>2, <2>1, <2>2
<1>3. t[b] \subseteq Entries(t)
  BY <1>1 DEF Entries
<1> QED BY <1>2, <1>3 DEF Found, With

(* A search finds the value of the entry with its key. *)
LEMMA SearchHit ==
    ASSUME TableAssumption, NEW n \in Nat \ {0}, NEW t, Placed(t, n),
           NEW e \in Entries(t), e.key \in Keys
    PROVE  Search(t, n, e.key) = e.val
<1>1. Found(t, n, e.key) = {e}
  <2>1. Found(t, n, e.key) = With(t, {e.key})
    BY FoundAll
  <2>2. \A f \in Entries(t) : f.key = e.key => f = e
    BY DEF Placed
  <2> QED BY <2>1, <2>2 DEF With
<1> QED BY <1>1 DEF Search

(* A search for a key without an entry finds nothing. *)
LEMMA SearchMiss ==
    ASSUME TableAssumption, NEW n \in Nat \ {0}, NEW t, Placed(t, n),
           NEW k \in Keys, With(t, {k}) = {}
    PROVE  Search(t, n, k) = NoValue
BY FoundAll DEF Search

(* What is in a table is an entry. *)
LEMMA EntriesType ==
    ASSUME NEW n \in Nat, NEW t \in [0 .. n - 1 -> SUBSET Entry]
    PROVE  Entries(t) \subseteq Entry
BY DEF Entries

(* Growing keeps the entries and puts each where a search finds it. *)
LEMMA ExpandPlaced ==
    ASSUME TableAssumption, NEW l \in Nat, NEW n \in Nat \ {0}, NEW t, Placed(t, l)
    PROVE  Placed(Expand(t, n), n) /\ Entries(Expand(t, n)) = Entries(t)
<1> DEFINE u == Expand(t, n)
<1>1. Entries(t) \subseteq Entry
  BY EntriesType DEF Placed
<1>2. /\ DOMAIN u = 0 .. n - 1
      /\ \A i \in 0 .. n - 1 : u[i] = {e \in Entries(t) : IndexFor(n, e.key) = i}
  BY DEF Expand
<1>3. u \in [0 .. n - 1 -> SUBSET Entry]
  BY <1>1 DEF Expand
<1>4. Entries(u) = Entries(t)
  <2>1. ASSUME NEW e \in Entries(t) PROVE e \in Entries(u)
    <3>1. IndexFor(n, e.key) \in 0 .. n - 1
      BY <1>1, IndexRange DEF Entry
    <3>2. e \in u[IndexFor(n, e.key)]
      BY <1>2, <3>1
    <3> QED BY <1>2, <3>1, <3>2 DEF Entries
  <2>2. ASSUME NEW e \in Entries(u) PROVE e \in Entries(t)
    <3>1. PICK i \in 0 .. n - 1 : e \in u[i]
      BY <1>2 DEF Entries
    <3> QED BY <1>2, <3>1
  <2> QED BY <2>1, <2>2
<1> HIDE DEF u
<1>5. Placed(u, n)
  BY <1>2, <1>3, <1>4 DEF Placed
<1> QED BY <1>4, <1>5 DEF u

(* An insertion replaces the entry with the key, or adds one. *)
Stored(t, n, k, v) ==
    [t EXCEPT ![IndexFor(n, k)] = (@ \ Found(t, n, k)) \cup {[key |-> k, val |-> v]}]

IsStored(u, t, n, k, v) ==
    /\ Placed(u, n)
    /\ Entries(u) = (Entries(t) \ With(t, {k})) \cup {[key |-> k, val |-> v]}
    /\ IsFiniteSet(Entries(u))
    /\ Cardinality(Entries(u)) = IF Found(t, n, k) = {} THEN Cardinality(Entries(t)) + 1
                                 ELSE Cardinality(Entries(t))

LEMMA StoredOK ==
    ASSUME TableAssumption, NEW n \in Nat \ {0}, NEW t, Placed(t, n),
           IsFiniteSet(Entries(t)), NEW k \in Keys, NEW v \in Values
    PROVE  IsStored(Stored(t, n, k, v), t, n, k, v)
<1> DEFINE b == IndexFor(n, k)
           new == [key |-> k, val |-> v]
           W == With(t, {k})
           E == Entries(t)
           u == Stored(t, n, k, v)
<1>1. b \in 0 .. n - 1 /\ Found(t, n, k) = W
  BY IndexRange, FoundAll
<1>2. new \in Entry /\ new.key = k
  BY DEF Entry
<1>3. /\ t \in [0 .. n - 1 -> SUBSET Entry]
      /\ \A i \in 0 .. n - 1 : \A e \in t[i] : IndexFor(n, e.key) = i
      /\ \A e, f \in E : e.key = f.key => e = f
  BY DEF Placed
<1>4. /\ DOMAIN u = 0 .. n - 1
      /\ u[b] = (t[b] \ W) \cup {new}
      /\ \A i \in 0 .. n - 1 : i # b => u[i] = t[i]
  BY <1>1, <1>3 DEF Stored
<1>5. u \in [0 .. n - 1 -> SUBSET Entry]
  BY <1>1, <1>2, <1>3 DEF Stored
<1>6. \A i \in 0 .. n - 1 : i # b => t[i] \cap W = {}
  BY <1>1, <1>3 DEF With
<1> HIDE DEF u, new, b
<1>7. Entries(u) = (E \ W) \cup {new}
  <2>1. \A e : e \in E <=> \E i \in 0 .. n - 1 : e \in t[i]
    BY <1>3, InEntries, Zenon DEF E
  <2>2. \A e : e \in Entries(u) <=> \E i \in 0 .. n - 1 : e \in u[i]
    BY <1>4, InEntries
  <2> HIDE DEF E, W
  <2>3. ASSUME NEW e \in Entries(u) PROVE e \in (E \ W) \cup {new}
    <3>1. PICK i \in 0 .. n - 1 : e \in u[i]
      BY <2>2
    <3>2. CASE i = b
      BY <1>4, <2>1, <3>1, <3>2
    <3>3. CASE i # b
      BY <1>4, <1>6, <2>1, <3>1, <3>3
    <3> QED BY <3>2, <3>3
  <2>4. ASSUME NEW e \in E \ W PROVE e \in Entries(u)
    <3>1. PICK i \in 0 .. n - 1 : e \in t[i]
      BY <2>1
    <3>2. e \in u[i]
      BY <1>4, <3>1
    <3> QED BY <2>2, <3>2
  <2>5. new \in Entries(u)
    BY <1>1, <1>4, <2>2
  <2> QED BY <2>3, <2>4, <2>5
<1>8. Placed(u, n)
  <2>1. \A i \in 0 .. n - 1 : \A e \in u[i] : IndexFor(n, e.key) = i
    <3>1. ASSUME NEW e \in u[b] PROVE IndexFor(n, e.key) = b
      <4>1. CASE e = new
        BY <1>2, <4>1 DEF b
      <4>2. CASE e \in t[b]
        BY <1>1, <1>3, <4>2
      <4> QED BY <1>4, <3>1, <4>1, <4>2
    <3> QED BY <1>3, <1>4, <3>1
  <2>2. \A e \in E \ W : e.key # k
    BY DEF With
  <2>3. \A e, f \in Entries(u) : e.key = f.key => e = f
    BY <1>2, <1>3, <1>7, <2>2
  <2> QED BY <1>5, <2>1, <2>3 DEF Placed
<1>9. IsFiniteSet(E \ W) /\ Cardinality(E \ W) = Cardinality(E) - Cardinality(W)
  <2>1. E \cap W = W
    BY DEF With
  <2> QED BY <2>1, FS_Difference
<1>10. IsFiniteSet(Entries(u)) /\ Cardinality(Entries(u)) = Cardinality(E \ W) + 1
  <2>1. new \notin E \ W
    BY <1>2 DEF With
  <2> QED BY <1>7, <1>9, <2>1, FS_AddElement
<1>11. Cardinality(W) = IF W = {} THEN 0 ELSE 1
  <2>1. CASE W = {}
    BY <2>1, FS_EmptySet
  <2>2. CASE W # {}
    <3>1. PICK e : e \in W
      BY <2>2
    <3>2. W = {e}
      BY <1>3, <3>1 DEF With
    <3> QED BY <2>2, <3>2, FS_Singleton
  <2> QED BY <2>1, <2>2
<1>12. Cardinality(E) \in Nat /\ Cardinality(E \ W) \in Nat
  BY <1>9, FS_CardinalityType
<1>13. Cardinality(Entries(u)) = IF W = {} THEN Cardinality(E) + 1 ELSE Cardinality(E)
  <2> HIDE DEF E, W
  <2> QED BY <1>9, <1>10, <1>11, <1>12
<1>14. Found(t, n, k) = W
  BY <1>1
<1> QED BY <1>7, <1>8, <1>10, <1>13, <1>14, Zenon DEF u, new, W, E, IsStored

(* Removing the entries with a key in S keeps the others where they are. *)
LEMMA DropOK ==
    ASSUME NEW n \in Nat \ {0}, NEW t, Placed(t, n), IsFiniteSet(Entries(t)),
           NEW S, NEW u, u = [i \in 0 .. n - 1 |-> t[i] \ With(t, S)]
    PROVE  /\ Placed(u, n)
           /\ Entries(u) = Entries(t) \ With(t, S)
           /\ IsFiniteSet(Entries(u))
           /\ Cardinality(Entries(u)) = Cardinality(Entries(t)) - Cardinality(With(t, S))
<1>1. Entries(u) = Entries(t) \ With(t, S)
  BY DEF Entries, Placed
<1>2. Placed(u, n)
  BY <1>1 DEF Placed
<1>3. Entries(t) \cap With(t, S) = With(t, S)
  BY DEF With
<1>4. /\ IsFiniteSet(Entries(t) \ With(t, S))
      /\ Cardinality(Entries(t) \ With(t, S))
           = Cardinality(Entries(t)) - Cardinality(Entries(t) \cap With(t, S))
  BY FS_Difference, Zenon
<1> QED BY <1>1, <1>2, <1>3, <1>4, Zenon

-----------------------------------------------------------------------------
(* The map that the users of a table see *)
View(t, n) == [k \in Keys |-> Search(t, n, k)]

LEMMA ViewFacts ==
    ASSUME TableAssumption, NEW n \in Nat \ {0}, NEW t, Placed(t, n)
    PROVE  /\ \A e \in Entries(t) : e.key \in Keys /\ View(t, n)[e.key] = e.val
                                     /\ View(t, n)[e.key] # NoValue
           /\ \A k \in Keys : (\A e \in Entries(t) : e.key # k) => View(t, n)[k] = NoValue
<1>1. ASSUME NEW e \in Entries(t)
      PROVE  e.key \in Keys /\ View(t, n)[e.key] = e.val /\ e.val # NoValue
  <2>1. e \in Entry
    BY EntriesType DEF Placed
  <2>2. e.key \in Keys /\ e.val \in Values /\ e.val # NoValue
    BY <2>1 DEF Entry, TableAssumption
  <2> QED BY <2>2, SearchHit DEF View
<1>2. ASSUME NEW k \in Keys, \A e \in Entries(t) : e.key # k
      PROVE  View(t, n)[k] = NoValue
  <2>1. With(t, {k}) = {}
    BY <1>2 DEF With
  <2> QED BY <2>1, SearchMiss DEF View
<1> QED BY <1>1, <1>2

(* as_hashtable_size: there are as many entries as keys with a value. *)
LEMMA SizeIs ==
    ASSUME TableAssumption, NEW n \in Nat \ {0}, NEW t, Placed(t, n),
           IsFiniteSet(Entries(t))
    PROVE  Cardinality({k \in Keys : View(t, n)[k] # NoValue}) = Cardinality(Entries(t))
<1> DEFINE K == {k \in Keys : View(t, n)[k] # NoValue}
           f == [e \in Entries(t) |-> e.key]
<1>1. f \in [Entries(t) -> K]
  BY ViewFacts
<1>2. \A d, e \in Entries(t) : f[d] = f[e] => d = e
  BY DEF Placed
<1>3. \A k \in K : \E e \in Entries(t) : f[e] = k
  <2> SUFFICES ASSUME NEW k \in K, \A e \in Entries(t) : f[e] # k
               PROVE  FALSE
    OBVIOUS
  <2>1. \A e \in Entries(t) : e.key # k
    BY DEF f
  <2>2. k \in Keys /\ View(t, n)[k] # NoValue
    BY DEF K
  <2> HIDE DEF K, f
  <2> QED BY <2>1, <2>2, ViewFacts
<1>4. f \in Bijection(Entries(t), K)
  BY <1>1, <1>2, <1>3 DEF Bijection, Injection, Surjection, IsInjective
<1>5. ExistsBijection(Entries(t), K)
  BY <1>4 DEF ExistsBijection
<1> QED BY <1>5, FS_Bijection

-----------------------------------------------------------------------------
(* What TableConsistent says, with the entries being finitely many, is kept as
   long as the table is not damaged. *)
Inv == ~damaged /\ TableConsistent /\ IsFiniteSet(Entries(table))

(* Afterwards the table is still one of its type. *)
Wrecked == damaged = TRUE /\ TableConsistent

LEMMA InvFacts ==
    ASSUME TableAssumption, Inv
    PROVE  /\ tablelength \in Nat \ {0} /\ primeindex \in 1 .. Len(Primes)
           /\ Placed(table, tablelength)
           /\ IsFiniteSet(Entries(table)) /\ count = Cardinality(Entries(table))
           /\ count \in Nat /\ damaged \in BOOLEAN
<1>1. primeindex \in 1 .. Len(Primes) /\ table \in [0 .. tablelength - 1 -> SUBSET Entry]
  BY DEF Inv, TableConsistent
<1>2. tablelength \in Nat \ {0}
  BY <1>1 DEF tablelength, TableAssumption
<1>3. Placed(table, tablelength)
  BY <1>1 DEF Inv, TableConsistent, Placed
<1> QED BY <1>1, <1>2, <1>3 DEF Inv, TableConsistent

LEMMA NextInvFacts ==
    ASSUME TableAssumption, Inv'
    PROVE  /\ tablelength' \in Nat \ {0} /\ Placed(table', tablelength')
           /\ IsFiniteSet(Entries(table')) /\ count' = Cardinality(Entries(table'))
<1>1. /\ primeindex' \in 1 .. Len(Primes)
      /\ table' \in [0 .. tablelength' - 1 -> SUBSET Entry]
  BY DEF Inv, TableConsistent
<1>2. tablelength' \in Nat \ {0}
  BY <1>1 DEF tablelength, TableAssumption
<1>3. Placed(table', tablelength')
  BY <1>1 DEF Inv, TableConsistent, Placed
<1> QED BY <1>2, <1>3 DEF Inv, TableConsistent

(* as_hashtable_insert into t, the table as it is or after it has grown *)
LEMMA StoreStep ==
    ASSUME TableAssumption, Inv, NEW j \in 1 .. Len(Primes), NEW n \in Nat \ {0},
           n = Primes[j], NEW t, Placed(t, n), Entries(t) = Entries(table),
           NEW k \in Keys, NEW v \in Values, Store(t, n, k, v),
           primeindex' = j, UNCHANGED damaged
    PROVE  Inv' /\ Entries(table') = (Entries(table) \ With(table, {k}))
                                        \cup {[key |-> k, val |-> v]}
<1>1. tablelength' = n
  BY DEF tablelength
<1>2. /\ IsFiniteSet(Entries(table)) /\ count = Cardinality(Entries(table))
      /\ count \in Nat /\ damaged \in BOOLEAN
  BY InvFacts
<1>3. table' = Stored(t, n, k, v)
  BY DEF Store, Stored
<1>4. With(t, {k}) = With(table, {k})
  BY DEF With
<1>5. IsStored(table', t, n, k, v)
  BY <1>2, <1>3, StoredOK
<1>6. /\ Placed(table', n) /\ IsFiniteSet(Entries(table'))
      /\ Entries(table') = (Entries(table) \ With(table, {k})) \cup {[key |-> k, val |-> v]}
      /\ Cardinality(Entries(table'))
           = IF Found(t, n, k) = {} THEN Cardinality(Entries(table)) + 1
             ELSE Cardinality(Entries(table))
  BY <1>4, <1>5 DEF IsStored
<1>7. count' = Cardinality(Entries(table')) /\ count' \in Nat
  <2>1. count' = IF Found(t, n, k) = {} THEN count + 1 ELSE count
    BY DEF Store
  <2> QED BY <1>2, <1>6, <2>1
<1>8. TableConsistent'
  BY <1>1, <1>2, <1>6, <1>7 DEF TableConsistent, Placed
<1> QED BY <1>6, <1>8 DEF Inv

(* as_hashtable_remove and as_hashtable_foreach *)
LEMMA DropStep ==
    ASSUME TableAssumption, Inv, NEW S,
           table' = [i \in 0 .. tablelength - 1 |-> table[i] \ With(table, S)],
           count' = count - Cardinality(With(table, S)),
           UNCHANGED <<primeindex, damaged>>
    PROVE  Inv' /\ Entries(table') = Entries(table) \ With(table, S)
<1>1. /\ tablelength' = tablelength /\ tablelength \in Nat \ {0}
      /\ Placed(table, tablelength) /\ primeindex \in 1 .. Len(Primes)
      /\ IsFiniteSet(Entries(table)) /\ count = Cardinality(Entries(table))
      /\ count \in Nat /\ damaged \in BOOLEAN
  BY InvFacts DEF tablelength
<1>2. /\ Placed(table', tablelength) /\ IsFiniteSet(Entries(table'))
      /\ Entries(table') = Entries(table) \ With(table, S)
      /\ Cardinality(Entries(table'))
           = Cardinality(Entries(table)) - Cardinality(With(table, S))
  BY <1>1, DropOK
<1>3. count' = Cardinality(Entries(table')) /\ count' \in Nat
  BY <1>1, <1>2, FS_CardinalityType
<1>4. TableConsistent'
  BY <1>1, <1>2, <1>3 DEF TableConsistent, Placed
<1> QED BY <1>2, <1>4 DEF Inv

LEMMA RemoveStep ==
    ASSUME TableAssumption, Inv, NEW k \in Keys, TableRemove(k)
    PROVE  Inv' /\ Entries(table') = Entries(table) \ With(table, {k})
<1> DEFINE n == tablelength
           W == With(table, {k})
           b == IndexFor(n, k)
<1>1. n \in Nat \ {0} /\ Placed(table, n) /\ IsFiniteSet(Entries(table))
  BY InvFacts
<1>2. Found(table, n, k) = W /\ b \in 0 .. n - 1
  BY <1>1, FoundAll, IndexRange
<1>3. /\ table \in [0 .. n - 1 -> SUBSET Entry]
      /\ \A i \in 0 .. n - 1 : \A e \in table[i] : IndexFor(n, e.key) = i
      /\ \A e, f \in Entries(table) : e.key = f.key => e = f
  BY <1>1 DEF Placed
<1>4. table' = [table EXCEPT ![b] = @ \ W]
  BY <1>2 DEF TableRemove
<1>5. \A i \in 0 .. n - 1 : i # b => table[i] \ W = table[i]
  BY <1>3 DEF With
<1>6. table' = [i \in 0 .. n - 1 |-> table[i] \ W]
  BY <1>2, <1>3, <1>4, <1>5
<1>7. count' = count - Cardinality(W)
  <2>1. CASE W = {}
    <3>1. Cardinality(W) = 0
      BY <2>1, FS_EmptySet
    <3>2. count' = count /\ count \in Nat
      BY <1>2, <2>1, InvFacts DEF TableRemove
    <3> QED BY <3>1, <3>2
  <2>2. CASE W # {}
    <3>1. PICK e : e \in W
      BY <2>2
    <3>2. W = {e}
      BY <1>3, <3>1 DEF With
    <3>3. Cardinality(W) = 1
      BY <3>2, FS_Singleton
    <3> QED BY <1>2, <2>2, <3>3 DEF TableRemove
  <2> QED BY <2>1, <2>2
<1>8. UNCHANGED <<primeindex, damaged>>
  BY DEF TableRemove
<1> HIDE DEF W, n
<1>9. UNCHANGED <<primeindex, damaged>> /\ table' = [i \in 0 .. tablelength - 1 |-> table[i] \ With(table, {k})]
      /\ count' = count - Cardinality(With(table, {k}))
  BY <1>6, <1>7, <1>8 DEF W, n
<1> QED BY <1>9, DropStep

LEMMA ForeachStep ==
    ASSUME TableAssumption, Inv, NEW S \in SUBSET Keys, TableForeach(S)
    PROVE  Inv' /\ Entries(table') = Entries(table) \ With(table, S)
<1>1. DOMAIN table = 0 .. tablelength - 1
  BY InvFacts DEF Placed
<1>2. table' = [i \in 0 .. tablelength - 1 |-> table[i] \ With(table, S)]
  BY <1>1 DEF TableForeach, With
<1>3. count' = count - Cardinality(With(table, S)) /\ UNCHANGED <<primeindex, damaged>>
  BY DEF TableForeach, With
<1> QED BY <1>2, <1>3, DropStep

-----------------------------------------------------------------------------
(* Steps as the map sees them *)

LEMMA PutView ==
    ASSUME TableAssumption, Inv, Inv', NEW k \in Keys, NEW v \in Values,
           Entries(table') = (Entries(table) \ With(table, {k}))
                                   \cup {[key |-> k, val |-> v]}
    PROVE  Contents' = [Contents EXCEPT ![k] = v]
<1>1. /\ \A e \in Entries(table) : e.key \in Keys /\ Contents[e.key] = e.val
      /\ \A l \in Keys : (\A e \in Entries(table) : e.key # l) => Contents[l] = NoValue
  BY InvFacts, ViewFacts DEF Contents, View
<1>2. /\ \A e \in Entries(table') : e.key \in Keys /\ Contents'[e.key] = e.val
      /\ \A l \in Keys : (\A e \in Entries(table') : e.key # l) => Contents'[l] = NoValue
  <2>1. /\ tablelength' \in Nat \ {0} /\ Placed(table', tablelength')
    BY NextInvFacts
  <2>2. Contents' = View(table', tablelength')
    BY DEF Contents, View
  <2> HIDE DEF Contents, View
  <2> QED BY <2>1, <2>2, ViewFacts
<1>3. DOMAIN Contents = Keys /\ DOMAIN Contents' = Keys
  BY DEF Contents
<1>4. [key |-> k, val |-> v] \in Entries(table')
  OBVIOUS
<1>5. Contents'[k] = v
  BY <1>2, <1>4
<1>6. ASSUME NEW l \in Keys, l # k PROVE Contents'[l] = Contents[l]
  <2>1. CASE \A e \in Entries(table) : e.key # l
    <3>1. \A e \in Entries(table') : e.key # l
      BY <1>6, <2>1
    <3> QED BY <1>1, <1>2, <2>1, <3>1
  <2>2. CASE \E e \in Entries(table) : e.key = l
    <3>1. PICK e \in Entries(table) : e.key = l
      BY <2>2
    <3>2. e \in Entries(table')
      BY <1>6, <3>1 DEF With
    <3> QED BY <1>1, <1>2, <3>1, <3>2
  <2> QED BY <2>1, <2>2
<1>7. Contents' = [l \in Keys |-> Contents'[l]] /\ Contents = [l \in Keys |-> Contents[l]]
  BY DEF Contents
<1> HIDE DEF Contents
<1> QED BY <1>3, <1>5, <1>6, <1>7

LEMMA DeleteView ==
    ASSUME TableAssumption, Inv, Inv', NEW S \in SUBSET Keys,
           Entries(table') = Entries(table) \ With(table, S)
    PROVE  Contents' = [k \in Keys |-> IF k \in S THEN NoValue ELSE Contents[k]]
<1>1. /\ \A e \in Entries(table) : e.key \in Keys /\ Contents[e.key] = e.val
      /\ \A l \in Keys : (\A e \in Entries(table) : e.key # l) => Contents[l] = NoValue
  BY InvFacts, ViewFacts DEF Contents, View
<1>2. /\ \A e \in Entries(table') : e.key \in Keys /\ Contents'[e.key] = e.val
      /\ \A l \in Keys : (\A e \in Entries(table') : e.key # l) => Contents'[l] = NoValue
  <2>1. /\ tablelength' \in Nat \ {0} /\ Placed(table', tablelength')
    BY NextInvFacts
  <2>2. Contents' = View(table', tablelength')
    BY DEF Contents, View
  <2> HIDE DEF Contents, View
  <2> QED BY <2>1, <2>2, ViewFacts
<1>3. ASSUME NEW l \in Keys
      PROVE  Contents'[l] = IF l \in S THEN NoValue ELSE Contents[l]
  <2>1. CASE l \in S
    <3>1. \A e \in Entries(table') : e.key # l
      BY <2>1 DEF With
    <3> QED BY <1>2, <2>1, <3>1
  <2>2. CASE l \notin S /\ \A e \in Entries(table) : e.key # l
    <3>1. \A e \in Entries(table') : e.key # l
      BY <2>2
    <3> QED BY <1>1, <1>2, <2>2, <3>1
  <2>3. CASE l \notin S /\ \E e \in Entries(table) : e.key = l
    <3>1. PICK e \in Entries(table) : e.key = l
      BY <2>3
    <3>2. e \in Entries(table')
      BY <2>3, <3>1 DEF With
    <3> QED BY <1>1, <1>2, <2>3, <3>1, <3>2
  <2> QED BY <2>1, <2>2, <2>3
<1>4. Contents' = [l \in Keys |-> Contents'[l]]
  BY DEF Contents
<1> HIDE DEF Contents
<1> QED BY <1>3, <1>4

(* as_hashtable_size after a step *)
LEMMA SizeStep ==
    ASSUME TableAssumption, Inv'
    PROVE  count' = M!Cardinality(M!Stored(Contents'))
<1>1. /\ tablelength' \in Nat \ {0} /\ Placed(table', tablelength')
      /\ IsFiniteSet(Entries(table')) /\ count' = Cardinality(Entries(table'))
  BY NextInvFacts
<1>2. M!Stored(Contents') = {k \in Keys : View(table', tablelength')[k] # NoValue}
  BY DEF M!Stored, Contents, View
<1>3. count' = Cardinality(M!Stored(Contents'))
  BY <1>1, <1>2, SizeIs
<1>4. M!Cardinality(M!Stored(Contents')) = Cardinality(M!Stored(Contents'))
  BY DEF Cardinality, M!Cardinality
<1> QED BY <1>3, <1>4

-----------------------------------------------------------------------------
(* Only realloc finds memory: whatever is in the new buckets, the table has
   its type. *)
LEMMA ReallocStep ==
    ASSUME TableAssumption, Inv, NEW k \in Keys, NEW v \in Values, InsertReallocs(k, v)
    PROVE  Wrecked'
<1> DEFINE n == Primes[primeindex + 1]
           t == Expand(table, n)
<1>1. /\ primeindex \in 1 .. Len(Primes) /\ primeindex < Len(Primes)
      /\ primeindex' = primeindex + 1 /\ damaged' = TRUE
      /\ Placed(table, tablelength) /\ tablelength \in Nat \ {0} /\ count \in Nat
  BY InvFacts DEF InsertReallocs
<1>2. primeindex' \in 1 .. Len(Primes) /\ n \in Nat \ {0} /\ tablelength' = n
  BY <1>1 DEF TableAssumption, tablelength
<1>3. t \in [0 .. n - 1 -> SUBSET Entry]
  BY <1>1, <1>2, ExpandPlaced DEF Placed
<1> HIDE DEF t
<1>4. PICK stray \in Strays : Store(Uncleared(t, tablelength, stray), n, k, v)
  BY DEF InsertReallocs, t
<1> DEFINE u == Uncleared(t, tablelength, stray)
<1>5. stray \subseteq Entry
  BY DEF Strays
<1>6. u \in [0 .. n - 1 -> SUBSET Entry]
  BY <1>3, <1>5 DEF Uncleared
<1> HIDE DEF u, n
<1>7. IndexFor(n, k) \in 0 .. n - 1 /\ [key |-> k, val |-> v] \in Entry
  BY <1>2, IndexRange DEF Entry
<1>8. /\ table' = [u EXCEPT ![IndexFor(n, k)]
                      = (@ \ Found(u, n, k)) \cup {[key |-> k, val |-> v]}]
      /\ count' = IF Found(u, n, k) = {} THEN count + 1 ELSE count
  BY <1>4 DEF Store, u
<1>9. table' \in [0 .. n - 1 -> SUBSET Entry]
  BY <1>6, <1>7, <1>8
<1>10. count' \in Nat
  BY <1>1, <1>8
<1> QED BY <1>1, <1>2, <1>9, <1>10 DEF Wrecked, TableConsistent

(* A step of the table keeps the invariant and is a step of the map, or it
   damages the table. *)
LEMMA StepOK ==
    ASSUME TableAssumption, Inv, TableNext
    PROVE  (Inv' /\ M!MapNext) \/ Wrecked'
<1>0. /\ tablelength \in Nat \ {0} /\ primeindex \in 1 .. Len(Primes)
      /\ Placed(table, tablelength)
  BY InvFacts
<1>1. ASSUME NEW k \in Keys, NEW v \in Values, Inv',
             Entries(table') = (Entries(table) \ With(table, {k}))
                                     \cup {[key |-> k, val |-> v]}
      PROVE  M!MapNext
  <2>1. M!Put(k, v)
    BY <1>1, PutView DEF M!Put
  <2>2. count' = M!Cardinality(M!Stored(Contents'))
    BY <1>1, SizeStep
  <2> QED BY <2>1, <2>2 DEF M!MapNext
<1>2. ASSUME NEW S \in SUBSET Keys, Inv',
             Entries(table') = Entries(table) \ With(table, S)
      PROVE  M!MapNext
  <2>1. M!Delete(S)
    BY <1>2, DeleteView DEF M!Delete
  <2>2. count' = M!Cardinality(M!Stored(Contents'))
    BY <1>2, SizeStep
  <2> QED BY <2>1, <2>2 DEF M!MapNext
<1>3. ASSUME NEW k \in Keys, TableRemove(k) PROVE Inv' /\ M!MapNext
  BY <1>2, <1>3, RemoveStep, {k} \in SUBSET Keys
<1>4. ASSUME NEW k \in Keys, NEW v \in Values, TableInsert(k, v)
      PROVE  Inv' /\ M!MapNext
  <2>1. /\ Store(table, Primes[primeindex], k, v)
        /\ primeindex' = primeindex /\ UNCHANGED damaged
    BY <1>4 DEF TableInsert, tablelength
  <2>2. Placed(table, Primes[primeindex])
    BY <1>0 DEF tablelength
  <2>3. Primes[primeindex] \in Nat \ {0}
    BY <1>0 DEF tablelength
  <2>4. Inv' /\ Entries(table') = (Entries(table) \ With(table, {k}))
                                         \cup {[key |-> k, val |-> v]}
    BY <1>0, <2>1, <2>2, <2>3, StoreStep, Zenon
  <2> QED BY <1>1, <2>4
<1>5. ASSUME NEW k \in Keys, NEW v \in Values, InsertGrows(k, v)
      PROVE  Inv' /\ M!MapNext
  <2> DEFINE j == primeindex + 1
             t == Expand(table, Primes[j])
  <2>1. /\ j \in 1 .. Len(Primes) /\ Store(t, Primes[j], k, v)
        /\ primeindex' = j /\ UNCHANGED damaged
    BY <1>0, <1>5 DEF InsertGrows, TableAssumption
  <2>2. Primes[j] \in Nat \ {0}
    BY <2>1 DEF TableAssumption
  <2>3. Placed(t, Primes[j]) /\ Entries(t) = Entries(table)
    BY <1>0, <2>2, ExpandPlaced
  <2> HIDE DEF j, t
  <2>4. Inv' /\ Entries(table') = (Entries(table) \ With(table, {k}))
                                         \cup {[key |-> k, val |-> v]}
    BY <2>1, <2>2, <2>3, StoreStep, Zenon
  <2> QED BY <1>1, <2>4
<1>6. ASSUME NEW k \in Keys, NEW v \in Values, InsertReallocs(k, v)
      PROVE  Wrecked'
  BY <1>6, ReallocStep
<1>7. ASSUME NEW S \in SUBSET Keys, TableForeach(S) PROVE Inv' /\ M!MapNext
  BY <1>2, <1>7, ForeachStep
<1> QED BY <1>3, <1>4, <1>5, <1>6, <1>7 DEF TableNext

LEMMA WreckedStops == ~(Wrecked /\ TableNext)
  BY DEF Wrecked, TableNext, TableInsert, InsertGrows, InsertReallocs, TableRemove,
         TableForeach

LEMMA InitOK ==
    ASSUME TableAssumption, TableInit
    PROVE  Inv /\ M!MapInit
<1>1. Primes[1] \in Nat \ {0} /\ 1 \in 1 .. Len(Primes) /\ tablelength = Primes[1]
  BY DEF TableInit, TableAssumption, tablelength
<1>2. Entries(table) = {}
  BY <1>1 DEF TableInit, Entries
<1>3. Inv
  BY <1>1, <1>2, FS_EmptySet DEF TableInit, Inv, TableConsistent
<1>4. \A k \in Keys : Contents[k] = NoValue
  <2>1. Placed(table, tablelength)
    BY <1>3, InvFacts
  <2> QED BY <1>1, <1>2, <2>1, ViewFacts DEF Contents, View
<1>5. Contents = [k \in Keys |-> NoValue]
  BY <1>4 DEF Contents
<1> QED BY <1>3, <1>5 DEF M!MapInit, TableInit

(* as_hashtable.c: each entry stays where a search for it looks, there is never
   a second one for a key, and entrycount is exact. *)
THEOREM Consistent == TableSpec => []TableConsistent
<1>1. TableInit => Inv
  BY InitOK, TableAssumption
<1>2. (Inv \/ Wrecked) /\ [TableNext]_tableVars => (Inv \/ Wrecked)'
  <2> SUFFICES ASSUME Inv \/ Wrecked, [TableNext]_tableVars PROVE (Inv \/ Wrecked)'
    OBVIOUS
  <2>1. CASE UNCHANGED tableVars
    BY <2>1 DEF tableVars, Inv, Wrecked, TableConsistent, tablelength
  <2>2. CASE Wrecked /\ TableNext
    BY <2>2, WreckedStops
  <2> QED BY <2>1, <2>2, StepOK, TableAssumption
<1>3. Inv \/ Wrecked => TableConsistent
  BY DEF Inv, Wrecked
<1> QED BY <1>1, <1>2, <1>3, PTL DEF TableSpec

(* as_hashtable.h: whatever the hash function, and whether the table grows, is
   too large to grow or finds no memory to, the table is the map that it says
   it is, up to the step in which realloc finds memory and malloc did not. *)
THEOREM TableImplementsMap == TableSpec => ImplementsMap
<1>1. TableInit => Inv /\ M!MapInit
  BY InitOK, TableAssumption
<1>2. (Inv \/ Wrecked) /\ [TableNext]_tableVars
        => (Inv \/ Wrecked)' /\ [M!MapNext \/ damaged']_<<Contents, count>>
  <2> SUFFICES ASSUME Inv \/ Wrecked, [TableNext]_tableVars
               PROVE  (Inv \/ Wrecked)' /\ [M!MapNext \/ damaged']_<<Contents, count>>
    OBVIOUS
  <2>1. CASE UNCHANGED tableVars
    <3>1. UNCHANGED <<table, count, primeindex, damaged, tablelength>>
      BY <2>1 DEF tableVars, tablelength
    <3> QED BY <3>1 DEF Inv, Wrecked, TableConsistent, Contents
  <2>2. CASE Wrecked /\ TableNext
    BY <2>2, WreckedStops
  <2>3. CASE Inv /\ TableNext
    <3>1. (Inv' /\ M!MapNext) \/ Wrecked'
      BY <2>3, StepOK, TableAssumption
    <3>2. Wrecked' => damaged'
      BY DEF Wrecked
    <3> QED BY <3>1, <3>2
  <2> QED BY <2>1, <2>2, <2>3
<1> QED BY <1>1, <1>2, PTL DEF TableSpec, ImplementsMap

-----------------------------------------------------------------------------
(* The HTTP server and push replies (as_http_server.c, as_push_reply.c,
   as_incoming.c), for any set of connections, any range of ports and any limit
   on the length of a request. *)

(* What each record of conn may be: a connection with the server is not yet too
   long, and its push and binary handlers only see what Peek sent them. *)
RecOK(rec) ==
    /\ rec \in [at : {"closed", "server", "reply", "upload", "download"},
                handler : {"none", "peek", "request", "push", "binary"},
                input : BOOLEAN, kind : Kinds,
                reads : 1 .. MaxReads + 2, got : 0 .. MaxReads + 1]
    /\ rec.at = "server" => /\ rec.got <= MaxReads
                            /\ rec.handler = "push" => rec.kind = "PUSH"
                            /\ rec.handler = "binary" => rec.kind = "BIN"
    /\ rec.at = "upload" => rec.kind \in {"GET", "BIN"} /\ Whole(rec)
    /\ rec.at = "download" => rec.kind = "PUSH" /\ Whole(rec)

ConnsOK ==
    /\ conn = [c \in Conns |-> conn[c]]
    /\ \A c \in Conns : RecOK(conn[c])

(* Parts of the type invariant that stand alone *)
FlagsOK == up \in BOOLEAN /\ unbound \in BOOLEAN

HurtOK == hurt \in {"no", "null server", "link freed twice"}

(* The port announced is that of the server, and the configured one up to
   in_port_t. *)
PortsOK ==
    /\ conf \in PortValues \cup {0, DefaultPort}
    /\ server \in 0 .. PORT_SPACE - 1
    /\ port = server
    /\ server # 0 => up = TRUE /\ server = conf % PORT_SPACE
    /\ up = TRUE /\ server = 0 /\ conf # 0 => unbound = TRUE

(* Who may hold a connection when. *)
HoldersOK ==
    /\ server = 0 => \A c \in Conns : conn[c].at # "server"
    /\ up = FALSE => \A c \in Conns : conn[c].at = "closed"

IndInv == FlagsOK /\ HurtOK /\ PortsOK /\ ConnsOK /\ HoldersOK

-----------------------------------------------------------------------------
(* Records *)

LEMMA ClosedOK == RecOK(Closed)
  BY IncomingAssumption DEF RecOK, Closed, Kinds, Whole

LEMMA WaitingOK == \A w \in NewRequests : RecOK(w) /\ w.at = "server"
  <1>1. ASSUME NEW k \in Kinds, NEW n \in 1 .. MaxReads + 2
        PROVE  RecOK(Waiting(k, n)) /\ Waiting(k, n).at = "server"
    BY IncomingAssumption DEF RecOK, Waiting, Whole
  <1> QED BY <1>1 DEF NewRequests

(* One more read changes the count only. *)
LEMMA ReadFields ==
  ASSUME NEW rec, RecOK(rec), rec.at = "server"
  PROVE  /\ Read(rec) \in [at : {"server"},
                           handler : {"none", "peek", "request", "push", "binary"},
                           input : BOOLEAN, kind : Kinds,
                           reads : 1 .. MaxReads + 2, got : 0 .. MaxReads + 1]
         /\ Read(rec).kind = rec.kind
  <1>1. rec.got \in Nat /\ rec.got + 1 \in 0 .. MaxReads + 1
    BY IncomingAssumption DEF RecOK
  <1> QED BY <1>1 DEF RecOK, Read

LEMMA AwaitMoreOK ==
  ASSUME NEW rec, RecOK(rec), rec.at = "server"
  PROVE  RecOK(AwaitMore(Read(rec))) /\ AwaitMore(Read(rec)).at \in {"closed", "server"}
  <1> DEFINE r == Read(rec)
  <1>1. CASE TooLong(r)
    BY <1>1, ClosedOK DEF AwaitMore, Closed
  <1>2. CASE ~TooLong(r)
    <2>1. r.got <= MaxReads
      BY <1>2, ReadFields, IncomingAssumption DEF TooLong
    <2> HIDE DEF r
    <2>2. RecOK([r EXCEPT !.handler = "request"]) /\ r.at = "server"
      BY <2>1, ReadFields DEF RecOK, Whole, r
    <2> QED BY <1>2, <2>2 DEF AwaitMore, r
  <1> QED BY <1>1, <1>2

LEMMA HandedOK ==
  ASSUME NEW rec, RecOK(rec), rec.at = "server", Whole(Read(rec)),
         NEW where \in {"upload", "download"},
         where = "upload" => rec.kind \in {"GET", "BIN"},
         where = "download" => rec.kind = "PUSH"
  PROVE  RecOK(HandedTo(Read(rec), where)) /\ HandedTo(Read(rec), where).at = where
  <1> DEFINE r == Read(rec)
  <1>1. r.kind = rec.kind /\ Whole(r)
    BY ReadFields
  <1> HIDE DEF r
  <1>2. /\ HandedTo(r, where).at = where /\ HandedTo(r, where).handler = "none"
        /\ HandedTo(r, where).kind = r.kind /\ HandedTo(r, where).reads = r.reads
        /\ HandedTo(r, where).got = r.got
    BY DEF HandedTo, Closed
  <1>4. HandedTo(r, where) \in [at : {where}, handler : {"none"}, input : {FALSE},
                                kind : {r.kind}, reads : {r.reads}, got : {r.got}]
    BY DEF HandedTo, Closed
  <1>3. /\ r.kind \in Kinds /\ r.reads \in 1 .. MaxReads + 2 /\ r.got \in 0 .. MaxReads + 1
    BY ReadFields DEF r
  <1> QED BY <1>1, <1>2, <1>3, <1>4 DEF RecOK, Whole, r

(* A step that only gives one connection another record *)
LEMMA BecomesOK ==
  ASSUME IndInv, NEW c \in Conns, NEW rec, Becomes(c, rec), RecOK(rec), up = TRUE,
         rec.at = "server" => server # 0
  PROVE  IndInv'
  BY DEF IndInv, FlagsOK, HurtOK, PortsOK, ConnsOK, HoldersOK, Becomes, RecOK, Whole

-----------------------------------------------------------------------------
(* Actions *)

LEMMA ServeOK == ASSUME IndInv, NEW c \in Conns, Serve(c) PROVE IndInv'
  <1> DEFINE r == conn[c]
  <1>1. RecOK(r)
    BY DEF IndInv, ConnsOK
  <1>2. up /\ r.at = "server" /\ server # 0
    BY DEF Serve, Peek, ReadRequest, ReadPush, ReadBinary, Dropped, Fires, Ready, IndInv, HoldersOK
  <1>3. CASE Peek(c)
    <2>1. RecOK([r EXCEPT !.handler = HandlerOf(r.kind)]) \/ r.kind = "CHAT"
      BY <1>1, <1>2 DEF RecOK, HandlerOf, Kinds, Whole
    <2> QED BY <2>1, <1>2, <1>3, ClosedOK, BecomesOK DEF Peek, Closed
  <1>4. CASE ReadRequest(c)
    <2>1. PICK end \in BOOLEAN :
             /\ end /\ r.kind \in {"GET", "BAD"} => Whole(Read(r))
             /\ Becomes(c, CASE ~end -> AwaitMore(Read(r))
                          [] end /\ ~Parses(Read(r)) -> Closed
                          [] end /\ Parses(Read(r)) -> HandedTo(Read(r), "upload"))
      BY <1>1, <1>4 DEF ReadRequest, Read, Whole, RecOK
    <2>2. CASE ~end
      BY <2>1, <2>2, <1>1, <1>2, AwaitMoreOK, BecomesOK
    <2>3. CASE end /\ ~Parses(Read(r))
      BY <2>1, <2>3, <1>2, ClosedOK, BecomesOK DEF Closed
    <2>4. CASE end /\ Parses(Read(r))
      <3>1. r.kind = "GET" /\ Whole(Read(r))
        BY <2>1, <2>4, <1>1 DEF Parses, Read, RecOK
      <3> QED BY <2>1, <2>4, <3>1, <1>1, <1>2, HandedOK, BecomesOK
    <2> QED BY <2>2, <2>3, <2>4
  <1>5. CASE ReadPush(c)
    <2>1. r.kind = "PUSH"
      BY <1>1, <1>2, <1>5 DEF ReadPush, Fires, RecOK
    <2>2. CASE Whole(Read(r))
      BY <2>1, <2>2, <1>1, <1>2, <1>5, ClosedOK, HandedOK, BecomesOK DEF ReadPush, Closed
    <2>3. CASE ~Whole(Read(r))
      BY <2>3, <1>1, <1>2, <1>5, AwaitMoreOK, BecomesOK DEF ReadPush
    <2> QED BY <2>2, <2>3
  <1>6. CASE ReadBinary(c)
    <2>1. r.kind = "BIN"
      BY <1>1, <1>2, <1>6 DEF ReadBinary, Fires, RecOK
    <2>2. CASE Whole(Read(r))
      BY <2>1, <2>2, <1>1, <1>2, <1>6, ClosedOK, HandedOK, BecomesOK DEF ReadBinary, Closed
    <2>3. CASE ~Whole(Read(r))
      BY <2>3, <1>1, <1>2, <1>6, AwaitMoreOK, BecomesOK DEF ReadBinary
    <2> QED BY <2>2, <2>3
  <1>7. CASE Dropped(c)
    BY <1>7, <1>2, ClosedOK, BecomesOK DEF Dropped, Closed
  <1> QED BY <1>3, <1>4, <1>5, <1>6, <1>7 DEF Serve

LEMMA PeersOK ==
  ASSUME IndInv, NEW c \in Conns,
         \/ Accept(c) \/ PushRequest(c) \/ PushConnected(c) \/ PushFails(c)
         \/ UploadDone(c) \/ UploadFails(c) \/ DownloadDone(c)
  PROVE  IndInv'
  <1>1. CASE Accept(c)
    BY <1>1, WaitingOK, BecomesOK DEF Accept, Ready, Becomes
  <1>2. CASE PushRequest(c)
    <2>1. RecOK([Closed EXCEPT !.at = "reply", !.input = TRUE])
      BY ClosedOK DEF RecOK, Closed, Whole
    <2> QED BY <1>2, <2>1, BecomesOK DEF PushRequest, Ready, Closed
  <1>3. CASE PushConnected(c)
    BY <1>3, WaitingOK, ClosedOK, BecomesOK DEF PushConnected, Ready, Closed
  <1>4. CASE PushFails(c) \/ UploadFails(c) \/ DownloadDone(c)
    BY <1>4, ClosedOK, BecomesOK DEF PushFails, UploadFails, DownloadDone, Ready, Closed
  <1>5. CASE UploadDone(c) /\ server # 0
    BY <1>5, WaitingOK, BecomesOK DEF UploadDone, Ready
  <1>6. CASE UploadDone(c) /\ server = 0
    BY <1>6 DEF UploadDone, IndInv, FlagsOK, HurtOK, PortsOK, ConnsOK, HoldersOK, RecOK, Whole
  <1> QED BY <1>1, <1>2, <1>3, <1>4, <1>5, <1>6

(* Closing connections leaves legal records. *)
LEMMA CloseAllOK ==
  ASSUME ConnsOK, NEW S, conn' = CloseAll(S)
  PROVE  /\ ConnsOK'
         /\ \A c \in Conns : conn'[c].at = IF c \in S THEN "closed" ELSE conn[c].at
  <1>1. \A c \in Conns : conn'[c] = IF c \in S THEN Closed ELSE conn[c]
    BY DEF CloseAll
  <1>2. \A c \in Conns : RecOK(conn'[c])
    BY <1>1, ClosedOK DEF ConnsOK
  <1>3. \A c \in Conns : RecOK(conn[c])'
    BY <1>2 DEF RecOK, Whole
  <1> QED BY <1>1, <1>3 DEF ConnsOK, CloseAll, Closed

LEMMA Ports ==
  /\ \A v \in Nat : v % PORT_SPACE \in 0 .. PORT_SPACE - 1
  /\ DefaultPort % PORT_SPACE = DefaultPort
  BY IncomingAssumption

LEMMA SetPortOK == ASSUME IndInv, NEW v \in PortValues, SetPort(v) PROVE IndInv'
  <1>1. v \in Nat /\ v % PORT_SPACE \in 0 .. PORT_SPACE - 1
    BY Ports, IncomingAssumption
  <1>2. up /\ up' = up /\ hurt = "no"
    BY DEF SetPort, Ready
  <1>3. CASE UNCHANGED <<conf, server, port, unbound, conn, hurt>>
    BY <1>2, <1>3 DEF IndInv, FlagsOK, HurtOK, PortsOK, ConnsOK, HoldersOK, RecOK, Whole
  <1>4. CASE conn' = CloseAll(Held("server")) /\ FreeServer
    <2>1. /\ ConnsOK'
          /\ \A c \in Conns : conn'[c].at = IF c \in Held("server") THEN "closed" ELSE conn[c].at
      BY <1>4, CloseAllOK DEF IndInv
    <2>2. HoldersOK'
      BY <2>1, <1>2 DEF HoldersOK, Held
    <2>3. HurtOK'
      BY <1>4, <1>2 DEF FreeServer, HurtOK
    <2>6. PortsOK'
      <3>1. CASE server' = 0 /\ port' = 0 /\ conf' = 0
        BY <3>1, IncomingAssumption DEF PortsOK
      <3>2. CASE /\ TRUE \in CanBind(v % PORT_SPACE)
                 /\ server' = v % PORT_SPACE /\ port' = server' /\ conf' = v
        <4>1. v % PORT_SPACE # 0 /\ up' = TRUE
          BY <1>2, <3>2 DEF CanBind, IndInv, FlagsOK
        <4> QED BY <1>1, <3>2, <4>1 DEF PortsOK
      <3>3. CASE UNCHANGED <<conf, server, port, unbound>>
        BY <1>2, <3>3 DEF IndInv, PortsOK
      <3> QED BY <3>1, <3>2, <3>3 DEF SetPort, PortChange
    <2>7. FlagsOK'
      BY <1>2 DEF SetPort, PortChange, IndInv, FlagsOK
    <2> QED BY <2>1, <2>2, <2>3, <2>6, <2>7 DEF IndInv
  <1> QED BY <1>3, <1>4 DEF SetPort, PortChange

LEMMA StartOK == ASSUME IndInv, StartLibrary PROVE IndInv'
  <1>1. PortsOK'
    <2>1. port' = server' /\ up' = TRUE /\ conf' = DefaultPort
      BY DEF StartLibrary
    <2>2. CASE server' = DefaultPort
      BY <2>1, <2>2, Ports, IncomingAssumption DEF PortsOK
    <2>3. CASE server' = 0 /\ unbound' = TRUE
      BY <2>1, <2>3, IncomingAssumption DEF PortsOK
    <2> QED BY <2>2, <2>3 DEF StartLibrary, CanBind
  <1>3. FlagsOK' /\ HurtOK'
    BY DEF StartLibrary, CanBind, FlagsOK, HurtOK, IndInv
  <1>2. ConnsOK' /\ HoldersOK'
    BY DEF StartLibrary, IndInv, ConnsOK, HoldersOK, RecOK, Whole
  <1> QED BY <1>1, <1>2, <1>3 DEF IndInv

LEMMA CleanupOK == ASSUME IndInv, Cleanup PROVE IndInv'
  <1>1. conn' = CloseAll(Conns)
    BY DEF Cleanup, CloseAll
  <1>2. ConnsOK' /\ \A c \in Conns : conn'[c].at = "closed"
    BY <1>1, CloseAllOK DEF IndInv
  <1>5. HurtOK'
    BY DEF Cleanup, FreeServer, IndInv, HurtOK
  <1>3. PortsOK'
    BY IncomingAssumption DEF Cleanup, PortsOK
  <1>4. FlagsOK'
    BY DEF Cleanup, FlagsOK
  <1> QED BY <1>2, <1>3, <1>4, <1>5 DEF IndInv, HoldersOK

(* Records, ports and holders stay as described, whatever peers send, uploads
   and downloads do, and the user sets. *)
THEOREM Inductive == Spec => []IndInv
  <1>1. Init => IndInv
    <2> SUFFICES ASSUME Init PROVE IndInv
      OBVIOUS
    <2>1. ConnsOK /\ \A c \in Conns : conn[c].at = "closed"
      BY ClosedOK DEF Init, ConnsOK, Closed
    <2>2. PortsOK
      BY IncomingAssumption DEF Init, PortsOK
    <2>3. FlagsOK /\ HurtOK
      BY DEF Init, FlagsOK, HurtOK
    <2> QED BY <2>1, <2>2, <2>3 DEF IndInv, HoldersOK
  <1>2. IndInv /\ [Next]_vars => IndInv'
    <2> SUFFICES ASSUME IndInv, [Next]_vars PROVE IndInv'
      OBVIOUS
    <2>1. CASE Next
      BY <2>1, ServeOK, PeersOK, SetPortOK, StartOK, CleanupOK DEF Next
    <2>2. CASE UNCHANGED vars
      BY <2>2 DEF vars, IndInv, FlagsOK, HurtOK, PortsOK, ConnsOK, HoldersOK, RecOK, Whole
    <2> QED BY <2>1, <2>2
  <1> QED BY <1>1, <1>2, PTL DEF Spec

-----------------------------------------------------------------------------
(* For any connections and ports: the port that is announced is the one that is
   listened on, a change that fails leaves the old server, and no connection
   waits for a server that is gone (as_ares.c, as_http_server.c). *)
THEOREM Listening == Spec => []ListeningConsistent
  <1>1. IndInv => ListeningConsistent
    BY IncomingAssumption DEF IndInv, FlagsOK, HurtOK, PortsOK, ConnsOK, HoldersOK, RecOK,
                              ListeningConsistent, TypeOK, Held
  <1> QED BY <1>1, Inductive, PTL

(* In however many pieces a request comes, and whichever handler collected
   them, only a complete request for a file reaches an upload and only a
   complete push line a download (as_http_server.c). *)
THEOREM Handed == Spec => []HandedByKind
  <1>1. IndInv => HandedByKind
    BY DEF IndInv, ConnsOK, RecOK, HandedByKind
  <1> QED BY <1>1, Inductive, PTL

-----------------------------------------------------------------------------
(* The HTTP client (as_http_client.c), for any lengths of replies and headers.
   What makes the client safe is which callbacks can be under way at a time and
   what the client is like in each of them. *)

Frames == {"REQUESTING", "FAILED", "REPLIED", "DATA", "LAST"}

ClientRec == [alive : BOOLEAN,
              state : {"DISCONNECTED", "CONNECTING", "CONNECTED", "REQUESTING",
                       "RECEIVING"},
              tcp : BOOLEAN, request : BOOLEAN, persistent : BOOLEAN,
              input : {"none", "connected", "header", "body"},
              reads : 0 .. MaxHeaderReads, len : 0 .. MaxLength,
              got : 0 .. MaxLength + 1, data : 0 .. MaxLength + 1,
              cb : {"NONE", "ACTIVE", "RESET", "FREED"}]

(* Callbacks after which the client does nothing but take its input back *)
Simple(s) == \A i \in 1 .. Len(s) : s[i] \in {"FAILED", "LAST"}

(* The one callback after which the client looks at what the owner did *)
Looking(s) == Len(s) = 1 /\ s[1] \in {"REPLIED", "DATA"}

(* HTCL_CB_REQUESTING, which a request in a simple callback raises *)
Asking(s) ==
    /\ Len(s) > 0 /\ s[Len(s)] = "REQUESTING"
    /\ \A i \in 1 .. Len(s) - 1 : s[i] \in {"FAILED", "LAST"}

(* The callback of client_read_body that comes before input_remove *)
InLast(s) == Len(s) > 0 /\ s[1] = "LAST"

Busy == {"CONNECTING", "REQUESTING", "RECEIVING"}

InputOf(state) == CASE state = "CONNECTING" -> "connected"
                    [] state = "REQUESTING" -> "header"
                    [] state = "RECEIVING" -> "body"
                    [] OTHER -> "none"

(* The client as it is between events *)
Settled(r, w) ==
    /\ w <=> r.state \in Busy
    /\ r.input = InputOf(r.state)
    /\ r.input # "none" => r.tcp
    /\ r.state = "CONNECTING" => r.request

(* The owner is told of the end before the input is removed. *)
Ending(r, w, s) ==
    InLast(s) /\ ~w /\ r.state = "CONNECTED" /\ r.input = "body" /\ r.tcp

Gone(r, w, s) == ~r.alive /\ r = NoClient /\ ~w /\ Simple(s)

Idling(r, w, s) ==
    /\ r.alive /\ Simple(s) /\ r.cb = "NONE"
    /\ Settled(r, w) \/ Ending(r, w, s)
    /\ s # <<>> => r.state # "RECEIVING"

Requested(r, w, s) ==
    /\ r.alive /\ Asking(s) /\ r.cb = "NONE" /\ r.state = "REQUESTING"
    /\ r.tcp /\ r.request /\ w

Replying(r, w, s) ==
    /\ r.alive /\ Looking(s)
    /\ \/ r.cb = "FREED" /\ ~w
       \/ r.cb = "ACTIVE" /\ r.state = "RECEIVING" /\ r.tcp /\ w /\ r.input \in {"none", "body"}
       \/ /\ r.cb = "RESET" /\ Settled(r, w) /\ r.state # "RECEIVING"
          /\ (r.state \in {"DISCONNECTED", "CONNECTED"} => ~r.tcp)

Good(r, w, s) ==
    Gone(r, w, s) \/ Idling(r, w, s) \/ Requested(r, w, s) \/ Replying(r, w, s)

TypesOK ==
    /\ client \in ClientRec /\ frames \in Seq(Frames)
    /\ waits \in BOOLEAN /\ misused \in BOOLEAN
    /\ broken \in {"no", "freed", "ended twice"}

Sound == ~misused => broken = "no" /\ Good(client, waits, frames)

ClientInv == TypesOK /\ Sound

-----------------------------------------------------------------------------
(* Callbacks *)

LEMMA PushFrame ==
  ASSUME NEW s \in Seq(Frames), NEW e \in Frames
  PROVE  /\ Append(s, e) \in Seq(Frames)
         /\ Simple(s) /\ e \in {"FAILED", "LAST"} => Simple(Append(s, e))
         /\ Simple(s) /\ e = "REQUESTING" => Asking(Append(s, e))
         /\ s = <<>> /\ e \in {"REPLIED", "DATA"} => Looking(Append(s, e))
         /\ s = <<>> /\ e = "LAST" => InLast(Append(s, e))
  <1>1. /\ Append(s, e) \in Seq(Frames) /\ Len(Append(s, e)) = Len(s) + 1
        /\ \A i \in 1 .. Len(s) : Append(s, e)[i] = s[i]
        /\ Append(s, e)[Len(s) + 1] = e
    OBVIOUS
  <1>2. Len(s) \in Nat
    OBVIOUS
  <1> QED BY <1>1, <1>2 DEF Simple, Asking, Looking, InLast

LEMMA PopFrame ==
  ASSUME NEW s \in Seq(Frames), s # <<>>
  PROVE  /\ Front(s) \in Seq(Frames)
         /\ Simple(s) => Simple(Front(s))
         /\ Asking(s) => Simple(Front(s))
         /\ Looking(s) => Front(s) = <<>>
         /\ InLast(s) /\ s[Len(s)] # "LAST" => InLast(Front(s))
  <1>1. Len(s) \in Nat /\ Len(s) > 0
    OBVIOUS
  <1>2. /\ Front(s) \in Seq(Frames) /\ Len(Front(s)) = Len(s) - 1
        /\ \A i \in 1 .. Len(s) - 1 : Front(s)[i] = s[i]
    <2>1. \A i \in 1 .. Len(s) - 1 : s[i] \in Frames
      BY <1>1
    <2> DEFINE n == Len(s) - 1
               t == SubSeq(s, 1, n)
    <2>2. n \in Nat /\ 1 \in Int /\ n \in Int
      BY <1>1
    <2> HIDE DEF n
    <2>3. /\ t \in Seq(Frames) /\ Len(t) = IF 1 <= n THEN n - 1 + 1 ELSE 0
          /\ \A i \in 1 .. n - 1 + 1 : t[i] = s[1 + i - 1]
      BY <2>1, <2>2, SubSeqProperties DEF n
    <2> HIDE DEF t
    <2>4. t \in Seq(Frames) /\ Len(t) = n /\ \A i \in 1 .. n : t[i] = s[i]
      BY <2>2, <2>3
    <2> QED BY <2>4 DEF Front, t, n
  <1>3. Len(Front(s)) = 0 => Front(s) = <<>>
    BY <1>2
  <1> QED BY <1>1, <1>2, <1>3 DEF Simple, Asking, Looking, InLast

LEMMA NoFrames == <<>> \in Seq(Frames) /\ Simple(<<>>) /\ ~Looking(<<>>) /\ ~Asking(<<>>) /\ ~InLast(<<>>)
  BY DEF Simple, Looking, Asking, InLast

-----------------------------------------------------------------------------
(* The client *)

LEMMA ResetFacts ==
  ASSUME NEW r \in ClientRec, NEW close \in BOOLEAN
  PROVE  LET q == ClientReset(r, close) IN
         /\ q \in ClientRec /\ q.alive = r.alive /\ ~q.request
         /\ q.cb = IF r.cb = "ACTIVE" THEN "RESET" ELSE r.cb
         /\ close => q.state = "DISCONNECTED" /\ ~q.tcp /\ q.input = "none"
         /\ ~close => q.state = "CONNECTED" /\ q.tcp = r.tcp /\ q.input = r.input
         /\ q.persistent = r.persistent
  <1>1. 0 \in 0 .. MaxHeaderReads /\ 0 \in 0 .. MaxLength /\ 0 \in 0 .. MaxLength + 1
    BY ClientAssumption
  <1>2. CASE close = TRUE
    <2>1. ClientReset(r, TRUE) =
            [r EXCEPT !.tcp = FALSE, !.input = "none", !.state = "DISCONNECTED",
                      !.request = FALSE, !.len = 0, !.got = 0, !.data = 0, !.reads = 0,
                      !.cb = IF r.cb = "ACTIVE" THEN "RESET" ELSE r.cb]
      BY DEF ClientReset, TcpClosed, ClientRec
    <2> QED BY <1>1, <1>2, <2>1 DEF ClientRec
  <1>3. CASE close = FALSE
    <2>1. ClientReset(r, FALSE) =
            [r EXCEPT !.state = "CONNECTED",
                      !.request = FALSE, !.len = 0, !.got = 0, !.data = 0, !.reads = 0,
                      !.cb = IF r.cb = "ACTIVE" THEN "RESET" ELSE r.cb]
      BY DEF ClientReset, TcpClosed, ClientRec
    <2> QED BY <1>1, <1>3, <2>1 DEF ClientRec
  <1> QED BY <1>2, <1>3

LEMMA BodyRemovedFacts ==
  ASSUME NEW r \in ClientRec
  PROVE  LET q == BodyRemoved(r) IN
         /\ q \in ClientRec /\ q.alive = r.alive /\ q.cb = r.cb /\ q.state = r.state
         /\ q.tcp = r.tcp /\ q.request = r.request
         /\ q.input = IF r.input = "body" THEN "none" ELSE r.input
  BY DEF ClientRec, BodyRemoved

LEMMA NoClientOK == NoClient \in ClientRec /\ ~NoClient.alive
  BY ClientAssumption DEF ClientRec, NoClient

(* A client that was reset, and whoever waited for it no longer does *)
LEMMA ResetSettled ==
  ASSUME NEW r \in ClientRec, r.state \in {"DISCONNECTED", "CONNECTED"}, r.input = "none"
  PROVE  Settled(r, FALSE)
  BY DEF Settled, Busy, InputOf

LEMMA ResetGood ==
  ASSUME NEW r \in ClientRec, NEW w \in BOOLEAN, NEW s \in Seq(Frames),
         Idling(r, w, s) \/ Replying(r, w, s), r.cb # "FREED"
  PROVE  Good(ClientReset(r, TRUE), FALSE, s)
  <1> DEFINE q == ClientReset(r, TRUE)
  <1>1. /\ q \in ClientRec /\ q.alive = r.alive
        /\ q.cb = IF r.cb = "ACTIVE" THEN "RESET" ELSE r.cb
        /\ q.state = "DISCONNECTED" /\ ~q.tcp /\ q.input = "none"
    BY ResetFacts
  <1>2. Settled(q, FALSE)
    BY <1>1, ResetSettled
  <1> HIDE DEF q
  <1>3. Idling(r, w, s) => Idling(q, FALSE, s)
    BY <1>1, <1>2 DEF Idling
  <1>4. Replying(r, w, s) => Replying(q, FALSE, s)
    BY <1>1, <1>2 DEF Replying
  <1> QED BY <1>3, <1>4 DEF q, Good

-----------------------------------------------------------------------------
(* Calls of the owner *)

LEMMA CreateOK == ASSUME ClientInv, NEW tcp \in BOOLEAN, Create(tcp) PROVE ClientInv'
  <1>1. /\ Allocated(tcp) \in ClientRec /\ Allocated(tcp).alive
        /\ Allocated(tcp).cb = "NONE" /\ Allocated(tcp).state = "DISCONNECTED"
        /\ Allocated(tcp).input = "none"
    BY NoClientOK DEF Allocated, NoClient, ClientRec
  <1>2. Settled(Allocated(tcp), FALSE)
    BY <1>1, ResetSettled
  <1>3. TypesOK'
    BY <1>1 DEF Create, ClientInv, TypesOK
  <1>4. ASSUME ~misused PROVE Good(client', waits', frames')
    <2>1. ~waits
      BY <1>4, NoFrames DEF Create, ClientInv, Sound, Good, Gone, Idling, Requested, Replying
    <2>2. waits' = FALSE /\ frames' = <<>> /\ client' = Allocated(tcp)
      BY <2>1 DEF Create, InCallback, ClientInv, TypesOK
    <2> QED BY <1>1, <1>2, <2>2, NoFrames DEF Good, Idling
  <1> QED BY <1>3, <1>4 DEF Create, ClientInv, Sound

LEMMA CanMakeRequest ==
  ASSUME ClientInv, CanCall, client.state \in {"DISCONNECTED", "CONNECTED"}, ~misused
  PROVE  /\ ~waits
         /\ \/ Idling(client, waits, frames)
            \/ Replying(client, waits, frames) /\ client.cb = "RESET" /\ ~client.tcp
  BY DEF ClientInv, TypesOK, Sound, CanCall, Good, Gone, Requested, Replying, Idling,
         Settled, Ending, Busy

LEMMA MakeRequestOK == ASSUME ClientInv, NEW p \in BOOLEAN, MakeRequest(p) PROVE ClientInv'
  <1> DEFINE a == ClientReset(client, FALSE)
             r == [a EXCEPT !.request = TRUE, !.persistent = p]
             b == ClientReset(r, FALSE)
             d == ClientReset(r, TRUE)
             e == [r EXCEPT !.tcp = TRUE, !.state = "CONNECTING", !.input = "connected"]
             f == [r EXCEPT !.state = "REQUESTING"]
  <1>1. client \in ClientRec /\ client.alive /\ client.cb # "FREED" /\ frames \in Seq(Frames)
    BY DEF MakeRequest, CanCall, ClientInv, TypesOK
  <1>2. /\ a \in ClientRec /\ a.alive /\ a.cb = (IF client.cb = "ACTIVE" THEN "RESET" ELSE client.cb)
        /\ a.state = "CONNECTED" /\ a.tcp = client.tcp /\ a.input = client.input
    BY <1>1, ResetFacts
  <1> HIDE DEF a
  <1>3. /\ r \in ClientRec /\ r.alive /\ r.cb = (IF client.cb = "ACTIVE" THEN "RESET" ELSE client.cb)
        /\ r.state = "CONNECTED" /\ r.tcp = client.tcp /\ r.input = client.input /\ r.request
    BY <1>2 DEF ClientRec
  <1> HIDE DEF r
  <1>4. /\ b \in ClientRec /\ b.alive /\ b.cb = (IF r.cb = "ACTIVE" THEN "RESET" ELSE r.cb)
        /\ b.state = "CONNECTED" /\ b.tcp = client.tcp /\ b.input = client.input
    BY <1>3, ResetFacts
  <1>5. /\ d \in ClientRec /\ d.alive /\ d.cb = (IF r.cb = "ACTIVE" THEN "RESET" ELSE r.cb)
        /\ d.state = "DISCONNECTED" /\ ~d.tcp /\ d.input = "none"
    BY <1>3, ResetFacts
  <1>6. /\ e \in ClientRec /\ e.alive /\ e.cb = r.cb
        /\ e.state = "CONNECTING" /\ e.tcp /\ e.input = "connected" /\ e.request
    BY <1>3 DEF ClientRec
  <1>7. /\ f \in ClientRec /\ f.alive /\ f.cb = r.cb
        /\ f.state = "REQUESTING" /\ f.tcp = client.tcp /\ f.request
    BY <1>3 DEF ClientRec
  <1> HIDE DEF b, d, e, f
  <1>8. \/ client' = b /\ UNCHANGED <<frames, waits, broken>>
        \/ r.tcp /\ client' = f /\ frames' = Append(frames, "REQUESTING") /\ waits' = TRUE
           /\ broken' = broken
        \/ r.tcp /\ client' = d /\ frames' = Append(frames, "FAILED") /\ waits' = FALSE
           /\ broken' = broken
        \/ ~r.tcp /\ client' = d /\ UNCHANGED <<frames, waits, broken>>
        \/ ~r.tcp /\ client' = e /\ waits' = TRUE /\ UNCHANGED <<frames, broken>>
    BY DEF MakeRequest, RequestMade, Requesting, Raise, a, r, b, d, e, f
  <1>9. TypesOK'
    BY <1>1, <1>4, <1>5, <1>6, <1>7, <1>8, PushFrame DEF MakeRequest, ClientInv, TypesOK, Frames
  <1>10. ASSUME ~misused PROVE Good(client', waits', frames')
    <2>1. /\ ~waits
          /\ \/ Idling(client, waits, frames)
             \/ Replying(client, waits, frames) /\ client.cb = "RESET" /\ ~client.tcp
      BY <1>10, CanMakeRequest DEF MakeRequest
    <2>2. /\ Simple(Append(frames, "FAILED")) \/ ~Simple(frames)
          /\ Asking(Append(frames, "REQUESTING")) \/ ~Simple(frames)
      BY <1>1, PushFrame DEF Frames
    <2>3. CASE Idling(client, waits, frames)
      <3>1. /\ Simple(frames) /\ client.cb = "NONE" /\ r.cb = "NONE"
            /\ \/ client.input = "none"
               \/ InLast(frames) /\ client.input = "body" /\ client.tcp
        BY <2>1, <2>3, <1>3 DEF Idling, Settled, Ending, Busy, InputOf, MakeRequest
      <3>2. Idling(b, FALSE, frames)
        BY <3>1, <1>4 DEF Idling, Settled, Ending, Busy, InputOf
      <3>3. Idling(d, FALSE, frames) /\ Idling(d, FALSE, Append(frames, "FAILED"))
        BY <3>1, <1>5, <2>2 DEF Idling, Settled, Busy, InputOf
      <3>4. Idling(e, TRUE, frames)
        BY <3>1, <1>6 DEF Idling, Settled, Busy, InputOf
      <3>5. r.tcp => Requested(f, TRUE, Append(frames, "REQUESTING"))
        BY <3>1, <1>3, <1>7, <2>2 DEF Requested
      <3>6. waits = FALSE
        BY <2>1 DEF ClientInv, TypesOK
      <3> QED BY <1>8, <3>2, <3>3, <3>4, <3>5, <3>6 DEF Good
    <2>4. CASE Replying(client, waits, frames) /\ client.cb = "RESET" /\ ~client.tcp
      <3>1. Looking(frames) /\ r.cb = "RESET" /\ ~r.tcp /\ client.input = "none"
        BY <2>4, <1>3 DEF Replying, Settled, Busy, InputOf, MakeRequest
      <3>2. Replying(b, FALSE, frames) /\ Replying(d, FALSE, frames) /\ Replying(e, TRUE, frames)
        BY <3>1, <2>4, <1>4, <1>5, <1>6 DEF Replying, Settled, Busy, InputOf
      <3>3. waits = FALSE
        BY <2>1 DEF ClientInv, TypesOK
      <3> QED BY <1>8, <3>1, <3>2, <3>3 DEF Good
    <2> QED BY <2>1, <2>3, <2>4
  <1>11. broken' = broken /\ misused' = misused
    BY <1>8 DEF MakeRequest
  <1> QED BY <1>9, <1>10, <1>11 DEF ClientInv, Sound

(* Outside HTCL_CB_REQUESTING the owner may cancel and free. *)
LEMMA NotAsking ==
  ASSUME ClientInv, CanCall, ~misused, ~Misuse
  PROVE  Idling(client, waits, frames) \/ Replying(client, waits, frames)
  BY DEF ClientInv, Sound, CanCall, Misuse, InCallback, Top, Good, Gone, Requested, Asking

LEMMA CancelRequestOK == ASSUME ClientInv, CancelRequest PROVE ClientInv'
  <1>1. client \in ClientRec /\ frames \in Seq(Frames) /\ waits \in BOOLEAN
    BY DEF ClientInv, TypesOK
  <1>2. TypesOK'
    BY <1>1, ResetFacts DEF CancelRequest, ClientInv, TypesOK
  <1>3. ASSUME ~misused' PROVE Good(client', waits', frames') /\ broken' = "no"
    <2>1. Idling(client, waits, frames) \/ Replying(client, waits, frames)
      BY <1>3, NotAsking DEF CancelRequest
    <2> QED BY <1>1, <2>1, ResetGood DEF CancelRequest, CanCall
  <1> QED BY <1>2, <1>3 DEF ClientInv, Sound

LEMMA FreeClientOK == ASSUME ClientInv, FreeClient PROVE ClientInv'
  <1>1. client \in ClientRec /\ frames \in Seq(Frames) /\ waits \in BOOLEAN
    BY DEF ClientInv, TypesOK
  <1> DEFINE q == [client EXCEPT !.cb = "FREED"]
  <1>2. q \in ClientRec /\ q.cb = "FREED" /\ q.alive = client.alive
    BY <1>1 DEF ClientRec
  <1> HIDE DEF q
  <1>3. client' = IF client.cb \in {"ACTIVE", "RESET"} THEN q ELSE NoClient
    BY DEF FreeClient, q
  <1>4. TypesOK'
    BY <1>1, <1>2, <1>3, NoClientOK DEF FreeClient, ClientInv, TypesOK
  <1>5. ASSUME ~misused' PROVE Good(client', waits', frames') /\ broken' = "no"
    <2>1. Idling(client, waits, frames) \/ Replying(client, waits, frames)
      BY <1>5, NotAsking DEF FreeClient
    <2>2. Idling(client, waits, frames) => Gone(NoClient, FALSE, frames)
      BY NoClientOK DEF Idling, Gone
    <2>3. Idling(client, waits, frames) => client' = NoClient
      BY <1>3 DEF Idling
    <2>4. Replying(client, waits, frames) => client' = q /\ Replying(q, FALSE, frames)
      BY <1>2, <1>3 DEF Replying, FreeClient, CanCall
    <2> QED BY <2>1, <2>2, <2>3, <2>4 DEF FreeClient, CanCall, Good
  <1> QED BY <1>4, <1>5 DEF ClientInv, Sound

-----------------------------------------------------------------------------
(* Data *)

LEMMA WriteDataType ==
  ASSUME TypesOK, NEW r \in ClientRec, NEW s \in Seq(Frames), WriteData(r, s)
  PROVE  /\ client' \in ClientRec /\ frames' \in Seq(Frames) /\ waits' \in BOOLEAN
         /\ broken' \in {"no", "freed", "ended twice"}
  <1> DEFINE n == IF r.got + r.data > r.len THEN r.len + 1 ELSE r.got + r.data
             w == [r EXCEPT !.got = n]
  <1>1. n \in 0 .. MaxLength + 1
    BY ClientAssumption DEF ClientRec
  <1> HIDE DEF n
  <1>2. w \in ClientRec
    BY <1>1 DEF ClientRec
  <1>3. [w EXCEPT !.state = "CONNECTED"] \in ClientRec
    BY <1>2 DEF ClientRec
  <1>4. [TcpClosed(w) EXCEPT !.state = "DISCONNECTED"] \in ClientRec
    BY <1>2 DEF ClientRec, TcpClosed
  <1>5. [w EXCEPT !.cb = "ACTIVE"] \in ClientRec
    BY <1>2 DEF ClientRec
  <1>6. Append(s, "LAST") \in Seq(Frames) /\ Append(s, "DATA") \in Seq(Frames)
    BY PushFrame DEF Frames
  <1> HIDE DEF w
  <1>7. \/ client' = [w EXCEPT !.state = "CONNECTED"]
        \/ client' = [TcpClosed(w) EXCEPT !.state = "DISCONNECTED"]
        \/ client' = [w EXCEPT !.cb = "ACTIVE"]
    BY DEF WriteData, RaiseEnd, Raise, w, n
  <1>8. frames' \in {Append(s, "LAST"), Append(s, "DATA")}
    BY DEF WriteData, RaiseEnd, Raise
  <1>9. /\ waits' \in {waits, FALSE}
        /\ broken' \in {broken, "ended twice"}
    BY DEF WriteData, RaiseEnd, Raise
  <1> QED BY <1>3, <1>4, <1>5, <1>6, <1>7, <1>8, <1>9 DEF TypesOK

(* A client that receives data for a request that is waited for *)
Receiving(r) ==
    /\ r \in ClientRec /\ r.alive /\ r.cb = "NONE" /\ r.state = "RECEIVING" /\ r.tcp
    /\ r.input \in {"none", "body"}

LEMMA WriteDataGood ==
  ASSUME NEW r, Receiving(r), waits = TRUE, broken = "no", WriteData(r, <<>>)
  PROVE  broken' = "no" /\ Good(client', waits', frames')
  <1> DEFINE n == IF r.got + r.data > r.len THEN r.len + 1 ELSE r.got + r.data
             w == [r EXCEPT !.got = n]
             kept == [w EXCEPT !.state = "CONNECTED"]
             closed == [TcpClosed(w) EXCEPT !.state = "DISCONNECTED"]
             more == [w EXCEPT !.cb = "ACTIVE"]
  <1>1. /\ DOMAIN w = DOMAIN r /\ w.alive /\ w.cb = "NONE" /\ w.state = "RECEIVING" /\ w.tcp
        /\ w.input \in {"none", "body"}
    BY DEF Receiving, ClientRec
  <1>3. kept.alive /\ kept.cb = "NONE" /\ kept.state = "CONNECTED" /\ kept.tcp
        /\ kept.input \in {"none", "body"}
    BY DEF Receiving, ClientRec
  <1>4. closed.alive /\ closed.cb = "NONE" /\ closed.state = "DISCONNECTED"
        /\ closed.input = "none"
    BY DEF Receiving, ClientRec, TcpClosed
  <1>5. more.alive /\ more.cb = "ACTIVE" /\ more.state = "RECEIVING" /\ more.tcp
        /\ more.input \in {"none", "body"}
    BY DEF Receiving, ClientRec
  <1>6. \/ client' = kept /\ frames' = Append(<<>>, "LAST") /\ waits' = FALSE
        \/ client' = closed /\ frames' = Append(<<>>, "LAST") /\ waits' = FALSE
        \/ client' = more /\ frames' = Append(<<>>, "DATA") /\ waits' = TRUE
    BY DEF WriteData, RaiseEnd, Raise
  <1>7. broken' = "no"
    BY DEF WriteData, RaiseEnd, Raise
  <1> HIDE DEF kept, closed, more, w, n
  <1>8. /\ Simple(Append(<<>>, "LAST")) /\ InLast(Append(<<>>, "LAST"))
        /\ Looking(Append(<<>>, "DATA"))
    BY PushFrame, NoFrames DEF Frames
  <1>9. Idling(kept, FALSE, Append(<<>>, "LAST"))
    BY <1>3, <1>8 DEF Idling, Settled, Ending, Busy, InputOf
  <1>10. Idling(closed, FALSE, Append(<<>>, "LAST"))
    BY <1>4, <1>8 DEF Idling, Settled, Busy, InputOf
  <1>11. Replying(more, TRUE, Append(<<>>, "DATA"))
    BY <1>5, <1>8 DEF Replying
  <1> QED BY <1>6, <1>7, <1>9, <1>10, <1>11 DEF Good

-----------------------------------------------------------------------------
(* Events *)

(* Between events the client is as its state says. *)
LEMMA QuietFacts ==
  ASSUME ClientInv, Quiet
  PROVE  /\ frames = <<>> /\ client \in ClientRec /\ client.alive /\ broken = "no"
         /\ ~misused => client.cb = "NONE" /\ Settled(client, waits)
  BY NoFrames DEF Quiet, InCallback, ClientInv, TypesOK, Sound, Good, Gone, Idling, Requested,
                  Replying, Ending

LEMMA RaiseEndType ==
  ASSUME TypesOK, NEW r \in ClientRec, NEW s \in Seq(Frames), RaiseEnd(r, s, "FAILED") \/ RaiseEnd(r, s, "LAST")
  PROVE  /\ client' \in ClientRec /\ frames' \in Seq(Frames) /\ waits' \in BOOLEAN
         /\ broken' \in {"no", "freed", "ended twice"}
  BY PushFrame DEF RaiseEnd, Raise, TypesOK, Frames

(* The client gives up a request, and tells its owner. *)
LEMMA RaiseEndGood ==
  ASSUME NEW r \in ClientRec, r.alive, r.cb = "NONE", waits = TRUE, broken = "no",
         NEW s \in Seq(Frames), Simple(s),
         RaiseEnd(ClientReset(r, TRUE), s, "FAILED") \/ RaiseEnd(ClientReset(r, TRUE), s, "LAST")
  PROVE  broken' = "no" /\ Good(client', waits', frames')
  <1> DEFINE q == ClientReset(r, TRUE)
  <1>1. q \in ClientRec /\ q.alive /\ q.cb = "NONE" /\ q.state = "DISCONNECTED" /\ q.input = "none"
    BY ResetFacts
  <1>2. Settled(q, FALSE)
    BY <1>1, ResetSettled
  <1>3. Simple(Append(s, "FAILED")) /\ Simple(Append(s, "LAST"))
    BY PushFrame DEF Frames
  <1>4. /\ client' = q /\ waits' = FALSE /\ broken' = "no"
        /\ frames' \in {Append(s, "FAILED"), Append(s, "LAST")}
    BY DEF RaiseEnd, Raise
  <1> HIDE DEF q
  <1>5. Idling(q, FALSE, Append(s, "FAILED")) /\ Idling(q, FALSE, Append(s, "LAST"))
    BY <1>1, <1>2, <1>3 DEF Idling
  <1> QED BY <1>4, <1>5 DEF Good

LEMMA ConnectedOK == ASSUME ClientInv, ClientConnected PROVE ClientInv'
  <1> DEFINE r == [client EXCEPT !.input = "none"]
             f == [r EXCEPT !.state = "REQUESTING"]
  <1>1. /\ frames = <<>> /\ client \in ClientRec /\ client.alive /\ broken = "no"
        /\ ~misused => client.cb = "NONE" /\ Settled(client, waits)
    BY QuietFacts DEF ClientConnected
  <1>2. r \in ClientRec /\ r.alive /\ r.cb = client.cb /\ r.tcp = client.tcp /\ r.request = client.request
    BY <1>1 DEF ClientRec
  <1> HIDE DEF r
  <1>3. /\ f \in ClientRec /\ f.alive /\ f.cb = client.cb /\ f.tcp = client.tcp
        /\ f.state = "REQUESTING" /\ f.request = client.request
    BY <1>2 DEF ClientRec
  <1> HIDE DEF f
  <1>4. CASE client' = f /\ frames' = Append(frames, "REQUESTING") /\ UNCHANGED <<waits, broken, misused>>
    <2>1. TypesOK'
      BY <1>1, <1>3, <1>4, PushFrame DEF ClientInv, TypesOK, Frames
    <2>2. ASSUME ~misused PROVE Requested(f, TRUE, Append(<<>>, "REQUESTING")) /\ waits = TRUE
      <3>1. client.tcp /\ client.request /\ client.cb = "NONE" /\ waits = TRUE
        BY <1>1, <2>2 DEF ClientConnected, Settled, Busy, InputOf, ClientInv, TypesOK, ClientRec
      <3>2. Asking(Append(<<>>, "REQUESTING"))
        BY PushFrame, NoFrames DEF Frames
      <3> QED BY <1>3, <3>1, <3>2 DEF Requested
    <2> QED BY <1>1, <1>4, <2>1, <2>2 DEF ClientInv, Sound, Good
  <1>5. CASE RaiseEnd(ClientReset(r, TRUE), frames, "FAILED") /\ misused' = misused
    <2>1. TypesOK'
      BY <1>2, <1>5, ResetFacts, RaiseEndType DEF ClientInv, TypesOK
    <2>2. ASSUME ~misused PROVE broken' = "no" /\ Good(client', waits', frames')
      <3>1. waits = TRUE
        BY <1>1, <2>2 DEF ClientConnected, Settled, Busy, InputOf, ClientInv, TypesOK
      <3>2. frames \in Seq(Frames) /\ Simple(frames)
        BY <1>1, NoFrames DEF ClientInv, TypesOK
      <3> QED BY <1>1, <1>2, <1>5, <2>2, <3>1, <3>2, RaiseEndGood
    <2> QED BY <1>5, <2>1, <2>2 DEF ClientInv, Sound
  <1> QED BY <1>4, <1>5 DEF ClientConnected, Requesting, Raise, r, f

(* client_read_header and client_read_body end a request. *)
LEMMA FailsOK == ASSUME ClientInv, HeaderFails \/ BodyEnds PROVE ClientInv'
  <1>1. /\ frames = <<>> /\ client \in ClientRec /\ client.alive /\ broken = "no"
        /\ ~misused => client.cb = "NONE" /\ Settled(client, waits)
    BY QuietFacts DEF HeaderFails, BodyEnds
  <1>2. \/ RaiseEnd(ClientReset(client, TRUE), frames, "FAILED")
        \/ RaiseEnd(ClientReset(client, TRUE), frames, "LAST")
    BY DEF HeaderFails, BodyEnds
  <1>3. misused' = misused
    BY DEF HeaderFails, BodyEnds
  <1>4. TypesOK'
    BY <1>1, <1>2, <1>3, ResetFacts, RaiseEndType DEF ClientInv, TypesOK
  <1>5. ASSUME ~misused PROVE broken' = "no" /\ Good(client', waits', frames')
    <2>1. waits = TRUE
      BY <1>1, <1>5 DEF HeaderFails, BodyEnds, Settled, Busy, InputOf, ClientInv, TypesOK, ClientRec
    <2>2. frames \in Seq(Frames) /\ Simple(frames)
      BY <1>1, NoFrames
    <2> QED BY <1>1, <1>2, <1>5, <2>1, <2>2, RaiseEndGood
  <1> QED BY <1>3, <1>4, <1>5 DEF ClientInv, Sound

LEMMA HeaderPartOK == ASSUME ClientInv, HeaderPart PROVE ClientInv'
  <1> DEFINE q == [client EXCEPT !.reads = client.reads + 1]
  <1>1. /\ frames = <<>> /\ client \in ClientRec /\ client.alive /\ broken = "no"
        /\ ~misused => client.cb = "NONE" /\ Settled(client, waits)
    BY QuietFacts DEF HeaderPart
  <1>2. client.reads + 1 \in 0 .. MaxHeaderReads
    BY <1>1, ClientAssumption DEF HeaderPart, ClientRec
  <1>3. /\ q \in ClientRec /\ q.alive = client.alive /\ q.cb = client.cb /\ q.state = client.state
        /\ q.tcp = client.tcp /\ q.input = client.input /\ q.request = client.request
    BY <1>1, <1>2 DEF ClientRec
  <1>4. client' = q /\ UNCHANGED <<frames, waits, misused, broken>>
    BY DEF HeaderPart
  <1> HIDE DEF q
  <1>5. TypesOK'
    BY <1>3, <1>4 DEF ClientInv, TypesOK
  <1>6. ASSUME ~misused PROVE Idling(q, waits, <<>>)
    BY <1>1, <1>3, <1>6, NoFrames DEF Idling, Settled
  <1> QED BY <1>1, <1>4, <1>5, <1>6 DEF ClientInv, Sound, Good

LEMMA HeaderCompleteOK ==
  ASSUME ClientInv, NEW len \in 0 .. MaxLength, NEW n \in 0 .. MaxLength + 1, HeaderComplete(len, n)
  PROVE  ClientInv'
  <1> DEFINE q == [client EXCEPT !.input = "none", !.state = "RECEIVING", !.cb = "ACTIVE",
                                 !.len = len, !.data = n]
  <1>1. /\ frames = <<>> /\ client \in ClientRec /\ client.alive /\ broken = "no"
        /\ ~misused => client.cb = "NONE" /\ Settled(client, waits)
    BY QuietFacts DEF HeaderComplete
  <1>2. /\ q \in ClientRec /\ q.alive = client.alive /\ q.cb = "ACTIVE" /\ q.state = "RECEIVING"
        /\ q.tcp = client.tcp /\ q.input = "none"
    BY <1>1 DEF ClientRec
  <1>3. client' = q /\ frames' = Append(<<>>, "REPLIED") /\ UNCHANGED <<waits, misused, broken>>
    BY <1>1 DEF HeaderComplete, Raise
  <1> HIDE DEF q
  <1>4. Append(<<>>, "REPLIED") \in Seq(Frames) /\ Looking(Append(<<>>, "REPLIED"))
    BY PushFrame, NoFrames DEF Frames
  <1>5. TypesOK'
    BY <1>2, <1>3, <1>4 DEF ClientInv, TypesOK
  <1>6. ASSUME ~misused PROVE Replying(q, waits, Append(<<>>, "REPLIED"))
    <2>1. client.tcp /\ waits
      BY <1>1, <1>6 DEF HeaderComplete, Settled, Busy, InputOf, ClientInv, TypesOK, ClientRec
    <2> QED BY <1>1, <1>2, <1>4, <2>1 DEF Replying
  <1> QED BY <1>1, <1>3, <1>5, <1>6 DEF ClientInv, Sound, Good

LEMMA BodyDataOK ==
  ASSUME ClientInv, NEW n \in 1 .. MaxLength + 1, BodyData(n) PROVE ClientInv'
  <1> DEFINE q == [client EXCEPT !.data = n]
  <1>1. /\ frames = <<>> /\ client \in ClientRec /\ client.alive /\ broken = "no"
        /\ ~misused => client.cb = "NONE" /\ Settled(client, waits)
    BY QuietFacts DEF BodyData
  <1>2. /\ q \in ClientRec /\ q.alive = client.alive /\ q.cb = client.cb /\ q.state = client.state
        /\ q.tcp = client.tcp /\ q.input = client.input
    <2>1. n \in 0 .. MaxLength + 1
      BY ClientAssumption
    <2> QED BY <1>1, <2>1 DEF ClientRec
  <1>3. WriteData(q, <<>>) /\ misused' = misused
    BY <1>1 DEF BodyData
  <1> HIDE DEF q
  <1>4. TypesOK'
    BY <1>2, <1>3, WriteDataType, NoFrames DEF ClientInv, TypesOK
  <1>5. ASSUME ~misused PROVE broken' = "no" /\ Good(client', waits', frames')
    <2>1. client.tcp /\ waits = TRUE /\ client.state = "RECEIVING"
      BY <1>1, <1>5 DEF BodyData, Settled, Busy, InputOf, ClientInv, TypesOK, ClientRec
    <2>2. Receiving(q)
      BY <1>1, <1>2, <1>5, <2>1 DEF Receiving, BodyData
    <2> QED BY <1>1, <1>3, <2>1, <2>2, WriteDataGood
  <1> QED BY <1>3, <1>4, <1>5 DEF ClientInv, Sound

-----------------------------------------------------------------------------
(* Callbacks return *)

LEMMA BelowFacts ==
  ASSUME TypesOK, InCallback
  PROVE  /\ Below \in Seq(Frames)
         /\ Simple(frames) => Simple(Below)
         /\ Asking(frames) => Simple(Below)
         /\ Looking(frames) => Below = <<>>
         /\ InLast(frames) /\ Top # "LAST" => InLast(Below)
  BY PopFrame DEF TypesOK, InCallback, Below, Top

(* Which callback is on top says what the client is like. *)
LEMMA TopFacts ==
  ASSUME ClientInv, InCallback, ~misused
  PROVE  /\ Top = "REQUESTING" => Requested(client, waits, frames)
         /\ Top \in {"REPLIED", "DATA"} => Replying(client, waits, frames)
         /\ Top \in {"FAILED", "LAST"} =>
               Gone(client, waits, frames) \/ Idling(client, waits, frames)
  <1>1. Len(frames) \in Nat /\ Len(frames) > 0
    <2>1. frames \in Seq(Frames) /\ frames # <<>>
      BY DEF ClientInv, TypesOK, InCallback
    <2> QED BY <2>1
  <1>2. Good(client, waits, frames)
    BY DEF ClientInv, Sound
  <1>3. Simple(frames) => Top \in {"FAILED", "LAST"}
    BY <1>1 DEF Simple, Top
  <1>4. Asking(frames) => Top = "REQUESTING"
    BY DEF Asking, Top
  <1>5. Looking(frames) => Top \in {"REPLIED", "DATA"}
    BY DEF Looking, Top
  <1> QED BY <1>2, <1>3, <1>4, <1>5 DEF Good, Gone, Idling, Requested, Replying

LEMMA ReturnEndOK == ASSUME ClientInv, ReturnEnd PROVE ClientInv'
  <1> DEFINE q == BodyRemoved(client)
  <1>1. /\ q \in ClientRec /\ q.alive = client.alive /\ q.cb = client.cb /\ q.state = client.state
        /\ q.tcp = client.tcp /\ q.input = IF client.input = "body" THEN "none" ELSE client.input
        /\ q.request = client.request
    BY BodyRemovedFacts DEF ClientInv, TypesOK
  <1>2. client' = (IF Top = "LAST" THEN q ELSE client) /\ frames' = Below
        /\ UNCHANGED <<waits, misused, broken>>
    BY DEF ReturnEnd
  <1>3. BodyRemoved(NoClient) = NoClient
    BY DEF BodyRemoved, NoClient
  <1>4. InCallback /\ Top \in {"FAILED", "LAST"}
    BY DEF ReturnEnd
  <1>5. /\ Below \in Seq(Frames)
        /\ Simple(frames) => Simple(Below)
        /\ InLast(frames) /\ Top # "LAST" => InLast(Below)
    BY <1>4, BelowFacts DEF ClientInv
  <1>6. TypesOK'
    BY <1>1, <1>2, <1>5 DEF ClientInv, TypesOK
  <1>7. ASSUME ~misused PROVE Good(client', waits', frames')
    <2>1. CASE Gone(client, waits, frames)
      <3>1. client' = NoClient
        BY <1>2, <1>3, <2>1 DEF Gone
      <3> QED BY <1>2, <1>5, <2>1, <3>1, NoClientOK DEF Gone, Good
    <2>2. CASE Idling(client, waits, frames) /\ Top = "LAST"
      <3> HIDE DEF q
      <3>1. Idling(q, waits, Below)
        <4>1. CASE Settled(client, waits)
          <5>1. Settled(q, waits)
            BY <1>1, <1>4, <2>2, <4>1 DEF Idling, Settled, Busy, InputOf, InCallback
          <5> QED BY <1>1, <1>4, <1>5, <2>2, <5>1 DEF Idling, InCallback
        <4>2. CASE Ending(client, waits, frames)
          <5>1. Settled(q, waits)
            BY <1>1, <4>2 DEF Ending, Settled, Busy, InputOf
          <5> QED BY <1>1, <1>4, <1>5, <2>2, <5>1 DEF Idling, InCallback
        <4> QED BY <2>2, <4>1, <4>2 DEF Idling
      <3> QED BY <1>2, <2>2, <3>1 DEF Good
    <2>3. CASE Idling(client, waits, frames) /\ Top # "LAST"
      <3>1. Idling(client, waits, Below)
        BY <1>4, <1>5, <2>3 DEF Idling, Ending, InCallback
      <3> QED BY <1>2, <2>3, <3>1 DEF Good
    <2> QED BY <1>4, <1>7, <2>1, <2>2, <2>3, TopFacts
  <1> QED BY <1>2, <1>6, <1>7 DEF ClientInv, Sound

(* HTCL_CB_REQUESTING returns. *)
LEMMA ReturnRequestingOK ==
  ASSUME ClientInv, NEW ok \in BOOLEAN, ReturnRequesting(ok) PROVE ClientInv'
  <1> DEFINE q == ClientReset(client, TRUE)
             h == [client EXCEPT !.input = "header", !.len = 0]
  <1>1. client \in ClientRec /\ frames \in Seq(Frames) /\ waits \in BOOLEAN /\ misused \in BOOLEAN
        /\ broken = "no" /\ InCallback /\ Top = "REQUESTING"
    BY DEF ClientInv, TypesOK, ReturnRequesting
  <1>2. /\ q \in ClientRec /\ q.alive = client.alive
        /\ q.cb = IF client.cb = "ACTIVE" THEN "RESET" ELSE client.cb
        /\ q.state = "DISCONNECTED" /\ ~q.tcp /\ q.input = "none"
    BY <1>1, ResetFacts
  <1>3. /\ h \in ClientRec /\ h.alive = client.alive /\ h.cb = client.cb /\ h.state = client.state
        /\ h.tcp = client.tcp /\ h.input = "header"
    <2>1. 0 \in 0 .. MaxLength
      BY ClientAssumption
    <2> QED BY <1>1, <2>1 DEF ClientRec
  <1>4. Below \in Seq(Frames) /\ (Asking(frames) => Simple(Below))
    BY <1>1, BelowFacts DEF ClientInv
  <1>5. \/ broken' = "freed" /\ (~client.alive \/ ~client.request)
           /\ UNCHANGED <<client, frames, waits, misused>>
        \/ client' = q /\ frames' = Below /\ waits' = FALSE /\ broken' = broken /\ misused' = misused
        \/ RaiseEnd(q, Below, "FAILED") /\ misused' = misused
        \/ client' = h /\ frames' = Below /\ UNCHANGED <<waits, broken, misused>>
    BY DEF ReturnRequesting
  <1>6. ASSUME ~misused
        PROVE  /\ client.alive /\ client.request /\ client.cb = "NONE" /\ waits = TRUE
               /\ client.tcp /\ client.state = "REQUESTING" /\ Simple(Below)
    BY <1>1, <1>4, <1>6, TopFacts DEF Requested
  <1>7. CASE broken' = "freed" /\ (~client.alive \/ ~client.request)
             /\ UNCHANGED <<client, frames, waits, misused>>
    BY <1>6, <1>7 DEF ClientInv, TypesOK, Sound
  <1>8. CASE client' = q /\ frames' = Below /\ waits' = FALSE /\ broken' = broken /\ misused' = misused
    <2>1. TypesOK'
      BY <1>2, <1>4, <1>8 DEF ClientInv, TypesOK
    <2>2. ASSUME ~misused PROVE Idling(q, FALSE, Below)
      BY <1>2, <1>6, <2>2, ResetSettled DEF Idling
    <2> HIDE DEF q
    <2> QED BY <1>1, <1>8, <2>1, <2>2 DEF ClientInv, Sound, Good
  <1>9. CASE RaiseEnd(q, Below, "FAILED") /\ misused' = misused
    <2>1. TypesOK'
      BY <1>2, <1>4, <1>9, RaiseEndType DEF ClientInv, TypesOK
    <2>2. ASSUME ~misused PROVE broken' = "no" /\ Good(client', waits', frames')
      BY <1>1, <1>4, <1>6, <1>9, <2>2, RaiseEndGood
    <2> QED BY <1>9, <2>1, <2>2 DEF ClientInv, Sound
  <1>10. CASE client' = h /\ frames' = Below /\ UNCHANGED <<waits, broken, misused>>
    <2> HIDE DEF h
    <2>1. TypesOK'
      BY <1>3, <1>4, <1>10 DEF ClientInv, TypesOK
    <2>2. ASSUME ~misused PROVE Idling(h, TRUE, Below) /\ waits = TRUE
      <3>1. Settled(h, TRUE)
        BY <1>3, <1>6, <2>2 DEF Settled, Busy, InputOf
      <3> QED BY <1>3, <1>6, <2>2, <3>1 DEF Idling
    <2> QED BY <1>1, <1>10, <2>1, <2>2 DEF ClientInv, Sound, Good
  <1> HIDE DEF q, h
  <1> QED BY <1>5, <1>7, <1>8, <1>9, <1>10

(* HTCL_CB_REPLIED and HTCL_CB_DATA return. *)
LEMMA ReturnLookedOK == ASSUME ClientInv, NEW ok \in BOOLEAN, ReturnLooked(ok) PROVE ClientInv'
  <1> DEFINE r == [client EXCEPT !.cb = "NONE"]
             q == BodyRemoved(r)
             d == ClientReset(r, TRUE)
             b == [r EXCEPT !.input = "body"]
  <1>1. client \in ClientRec /\ frames \in Seq(Frames) /\ waits \in BOOLEAN /\ misused \in BOOLEAN
        /\ broken = "no" /\ InCallback /\ Top \in {"REPLIED", "DATA"}
    BY DEF ClientInv, TypesOK, ReturnLooked
  <1>2. /\ r \in ClientRec /\ r.alive = client.alive /\ r.cb = "NONE" /\ r.state = client.state
        /\ r.tcp = client.tcp /\ r.input = client.input /\ r.request = client.request
    BY <1>1 DEF ClientRec
  <1> HIDE DEF r
  <1>3. /\ q \in ClientRec /\ q.alive = r.alive /\ q.cb = r.cb /\ q.state = r.state /\ q.tcp = r.tcp
        /\ q.input = (IF r.input = "body" THEN "none" ELSE r.input) /\ q.request = r.request
    BY <1>2, BodyRemovedFacts
  <1>4. /\ d \in ClientRec /\ d.alive = r.alive /\ d.cb = "NONE"
        /\ d.state = "DISCONNECTED" /\ ~d.tcp /\ d.input = "none"
    BY <1>2, ResetFacts
  <1>5. /\ b \in ClientRec /\ b.alive = r.alive /\ b.cb = r.cb /\ b.state = r.state /\ b.tcp = r.tcp
        /\ b.input = "body"
    BY <1>2 DEF ClientRec
  <1> HIDE DEF q, d, b
  <1>6. Below \in Seq(Frames) /\ (Looking(frames) => Below = <<>>)
    BY <1>1, BelowFacts DEF ClientInv
  <1>7. \/ ~client.alive /\ broken' = "freed" /\ UNCHANGED <<client, frames, waits>>
        \/ client.cb = "FREED" /\ client' = NoClient /\ frames' = Below /\ UNCHANGED <<waits, broken>>
        \/ client.cb = "RESET" /\ client' = q /\ frames' = Below /\ UNCHANGED <<waits, broken>>
        \/ client.cb = "ACTIVE" /\ client' = d /\ frames' = Below /\ waits' = FALSE /\ broken' = broken
        \/ client.cb = "ACTIVE" /\ WriteData(r, Below)
        \/ client.cb \in {"NONE", "ACTIVE"} /\ client' = b /\ frames' = Below /\ UNCHANGED <<waits, broken>>
    BY <1>1 DEF ReturnLooked, r, q, d, b, ClientRec
  <1>8. misused' = misused
    BY DEF ReturnLooked
  <1>9. ASSUME ~misused PROVE Replying(client, waits, frames) /\ Below = <<>>
    BY <1>1, <1>6, <1>9, TopFacts DEF Replying
  <1>10. TypesOK'
    <2>1. CASE WriteData(r, Below)
      BY <1>2, <1>6, <1>8, <2>1, WriteDataType DEF ClientInv, TypesOK
    <2>2. CASE ~client.alive /\ broken' = "freed" /\ UNCHANGED <<client, frames, waits>>
      BY <1>8, <2>2 DEF ClientInv, TypesOK
    <2>3. CASE client' \in {NoClient, q, d, b} /\ frames' = Below /\ waits' \in {waits, FALSE} /\ broken' = broken
      BY <1>3, <1>4, <1>5, <1>6, <1>8, <2>3, NoClientOK DEF ClientInv, TypesOK
    <2> QED BY <1>7, <2>1, <2>2, <2>3
  <1>11. ASSUME ~misused PROVE broken' = "no" /\ Good(client', waits', frames')
    <2>1. Replying(client, waits, frames) /\ Below = <<>> /\ client.alive
      BY <1>9, <1>11 DEF Replying
    <2>2. CASE client.cb = "FREED"
      <3>1. client' = NoClient /\ frames' = <<>> /\ UNCHANGED <<waits, broken>> /\ ~waits
        BY <1>7, <2>1, <2>2 DEF Replying
      <3> QED BY <1>1, <3>1, NoFrames, NoClientOK DEF Gone, Good
    <2>3. CASE client.cb = "RESET"
      <3>1. client' = q /\ frames' = <<>> /\ UNCHANGED <<waits, broken>>
        BY <1>7, <2>1, <2>3 DEF Replying
      <3>2. Settled(client, waits) /\ client.state # "RECEIVING"
        BY <2>1, <2>3 DEF Replying
      <3>3. Settled(q, waits)
        BY <1>2, <1>3, <3>2 DEF Settled, Busy, InputOf
      <3>4. Idling(q, waits, <<>>)
        BY <1>2, <1>3, <2>1, <3>3, NoFrames DEF Idling
      <3> QED BY <1>1, <3>1, <3>4 DEF Good
    <2>4. CASE client.cb = "ACTIVE"
      <3>1. client.state = "RECEIVING" /\ client.tcp /\ waits = TRUE /\ client.input \in {"none", "body"}
        BY <1>1, <2>1, <2>4 DEF Replying
      <3>2. Receiving(r)
        BY <1>2, <2>1, <3>1 DEF Receiving
      <3>3. CASE WriteData(r, Below)
        BY <1>1, <2>1, <3>1, <3>2, <3>3, WriteDataGood
      <3>4. CASE client' = d /\ frames' = Below /\ waits' = FALSE /\ broken' = broken
        <4>1. Idling(d, FALSE, <<>>)
          BY <1>2, <1>4, <2>1, NoFrames, ResetSettled DEF Idling
        <4> QED BY <1>1, <2>1, <3>4, <4>1 DEF Good
      <3>5. CASE client' = b /\ frames' = Below /\ UNCHANGED <<waits, broken>>
        <4>1. Settled(b, TRUE)
          BY <1>2, <1>5, <3>1 DEF Settled, Busy, InputOf
        <4>2. Idling(b, TRUE, <<>>)
          BY <1>2, <1>5, <2>1, <4>1, NoFrames DEF Idling
        <4> QED BY <1>1, <2>1, <3>1, <3>5, <4>2 DEF Good
      <3> QED BY <1>7, <2>1, <2>4, <3>3, <3>4, <3>5
    <2> QED BY <2>1, <2>2, <2>3, <2>4 DEF Replying
  <1> QED BY <1>8, <1>10, <1>11 DEF ClientInv, Sound

-----------------------------------------------------------------------------
(* Every step keeps the client sound unless its owner misuses it. *)
THEOREM ClientInductive == ClientSpec => []ClientInv
  <1>1. ClientInit => ClientInv
    <2> SUFFICES ASSUME ClientInit PROVE ClientInv
      OBVIOUS
    <2>1. TypesOK
      BY NoClientOK, NoFrames DEF ClientInit, TypesOK
    <2>2. Gone(NoClient, FALSE, <<>>)
      BY NoClientOK, NoFrames DEF Gone
    <2> QED BY <2>1, <2>2 DEF ClientInit, ClientInv, Sound, Good
  <1>2. ClientInv /\ [ClientNext]_clientVars => ClientInv'
    <2> SUFFICES ASSUME ClientInv, [ClientNext]_clientVars PROVE ClientInv'
      OBVIOUS
    <2>1. CASE ClientEvent
      BY <2>1, ConnectedOK, FailsOK, HeaderPartOK, HeaderCompleteOK, BodyDataOK DEF ClientEvent
    <2>2. CASE ClientReturn
      BY <2>2, ReturnEndOK, ReturnRequestingOK, ReturnLookedOK DEF ClientReturn
    <2>3. CASE OwnerCall
      BY <2>3, CreateOK, MakeRequestOK, CancelRequestOK, FreeClientOK DEF OwnerCall
    <2>4. CASE UNCHANGED clientVars
      BY <2>4 DEF clientVars, ClientInv, TypesOK, Sound
    <2> QED BY <2>1, <2>2, <2>3, <2>4 DEF ClientNext
  <1> QED BY <1>1, <1>2, PTL DEF ClientSpec

(* For any lengths: whatever the owner does from a callback other than
   HTCL_CB_REQUESTING, nothing that was freed is used, a request ends once, and
   between events a request that is waited for is under way
   (as_http_client.c). *)
THEOREM Safe == ClientSpec => []ClientSafe
  <1>1. ClientInv => ClientSafe
    <2> SUFFICES ASSUME ClientInv PROVE ClientSafe
      OBVIOUS
    <2>1. ClientType
      BY DEF ClientInv, TypesOK, ClientType, ClientRec, Frames
    <2>2. ASSUME ~misused PROVE broken = "no"
      BY <2>2 DEF ClientInv, Sound
    <2>3. ASSUME ~misused, Quiet
          PROVE  /\ client.cb = "NONE" /\ Settled(client, waits)
      BY <2>3, QuietFacts
    <2> QED BY <2>1, <2>2, <2>3 DEF ClientSafe, Settled, Busy, InputOf
  <1> QED BY <1>1, ClientInductive, PTL

-----------------------------------------------------------------------------
(* The event loop (as_event.c, as_tcp.c and libevent's event.c), for any events,
   connections and descriptors.  The invariant says of every event, the one whose
   callback runs included, what its flags have to do with the lists it is on, and
   of every connection who holds its descriptor. *)

EventRec ==
    [type : {"free", "input", "timer"}, conn : TCPCs \cup {None}, fd : Fds \cup {None},
     queue : BOOLEAN, inserted : BOOLEAN, timeout : BOOLEAN, due : {"no", "io", "timeout"},
     validate : BOOLEAN, in_callback : BOOLEAN, removed : BOOLEAN]

(* What the flags of event e have to do with each other, when the callback of r
   runs: a timer has no descriptor, the input of a write queue has no timeout
   and no callback of its owner, and an event that runs is not due. *)
EventOK(x, e, r) ==
    /\ x.in_callback <=> e = r
    /\ x.type = "free" => x = NoEvent
    /\ x.type = "timer" => x.fd = None /\ ~x.queue /\ ~x.inserted /\ x.due # "io"
    /\ x.type = "input" => x.fd \in Fds /\ x.conn \in TCPCs
    /\ x.queue => ~x.timeout /\ x.due # "timeout" /\ e # r
    /\ e = r => x.due = "no"

(* The lists of a world are those of its events. *)
ListsOK(w) ==
    /\ \A f \in Fds : /\ IsInjective(w.chain[f])
                      /\ ToSet(w.chain[f]) = {e \in Events : w.ev[e].fd = f}
    /\ IsInjective(w.active)
    /\ ToSet(w.active) = {e \in Events : w.ev[e].due # "no"}

WorldType(w) ==
    /\ w.ev \in [Events -> EventRec]
    /\ w.chain \in [Fds -> Seq(Events)] /\ w.active \in Seq(Events)

WorldOK(w, r) ==
    /\ WorldType(w) /\ ListsOK(w)
    /\ \A e \in Events : EventOK(w.ev[e], e, r)

(* An input that may still fire is its connection's, which is there. *)
InputOwned(x) ==
    x.type = "input" /\ ~x.removed =>
        /\ tcpc[x.conn].fd = x.fd /\ holder[x.fd] = x.conn
        /\ x.inserted \/ x.due = "timeout"

(* A descriptor is held by the connection that has it, except that a connection
   whose input timed out has one that is closed, until its owner knows. *)
DescriptorsOK ==
    /\ \A c \in Open : holder[tcpc[c].fd] = c \/ c = Owed
    /\ \A f \in Fds : holder[f] # None => tcpc[holder[f]].fd = f

QueuesWritten ==
    \A c \in TCPCs : tcpc[c].wbuf /\ c # Owed =>
        \E e \in Events : ev[e].queue /\ ev[e].conn = c

RestType ==
    /\ holder \in [Fds -> TCPCs \cup {None}]
    /\ tcpc \in [TCPCs -> [fd : Fds \cup {None}, wbuf : BOOLEAN]]
    /\ running \in Events \cup {None} /\ failed \in {"no", "reset", "full"}

LoopInv ==
    /\ WorldOK(World, running) /\ RestType
    /\ \A e \in Events : ev[e].removed => e = running
    /\ \A e \in Events : InputOwned(ev[e])
    /\ DescriptorsOK /\ QueuesWritten

(* What Without does to a list of different members *)
LEMMA WithoutFacts ==
    ASSUME NEW S, NEW q \in Seq(S), IsInjective(q), NEW gone
    PROVE  /\ Without(q, gone) \in Seq(S)
           /\ IsInjective(Without(q, gone))
           /\ ToSet(Without(q, gone)) = ToSet(q) \ gone
<1> DEFINE N == Len(q)
           Step(n, x) == IF q[n] \in gone THEN x ELSE Append(x, q[n])
           step == [n \in 1 .. N |-> [x \in Seq(S) |-> Step(n, x)]]
<1>1. N \in Nat /\ DOMAIN q = 1 .. N /\ \A n \in 1 .. N : q[n] \in S
  OBVIOUS
<1>2. step \in Steps(N, Seq(S))
  BY <1>1, ListAppendFacts DEF Steps
<1>3. PICK h \in [0 .. N -> Seq(S)] : IsRun(h, N, <<>>, step)
  <2>1. <<>> \in Seq(S)
    OBVIOUS
  <2> HIDE DEF step, N
  <2> QED BY <1>1, <1>2, <2>1, PlaceRecursion
<1>4. h = [n \in 0 .. N |-> IF n = 0 THEN <<>> ELSE Step(n, h[n - 1])]
  <2>1. \A n \in 1 .. N : h[n - 1] \in Seq(S)
    BY <1>1
  <2>2. \A n \in 0 .. N : n # 0 => n \in 1 .. N
    BY <1>1
  <2>3. \A n \in 1 .. N : step[n][h[n - 1]] = Step(n, h[n - 1])
    BY <2>1
  <2>4. h[0] = <<>> /\ \A n \in 1 .. N : h[n] = step[n][h[n - 1]]
    BY <1>3 DEF IsRun
  <2> HIDE DEF step, N, Step
  <2> QED BY <1>3, <2>2, <2>3, <2>4
<1> DEFINE kept == CHOOSE kept : kept = [n \in 0 .. N |-> IF n = 0 THEN <<>>
                                            ELSE IF q[n] \in gone THEN kept[n - 1]
                                            ELSE Append(kept[n - 1], q[n])]
<1>5. kept = [n \in 0 .. N |-> IF n = 0 THEN <<>>
                               ELSE IF q[n] \in gone THEN kept[n - 1]
                               ELSE Append(kept[n - 1], q[n])]
  BY <1>4
<1>6. Without(q, gone) = kept[N]
  BY DEF Without
<1> HIDE DEF kept, N, step
<1>7. kept[0] = <<>> /\ \A n \in 1 .. N : kept[n] = Step(n, kept[n - 1])
  <2>1. \A n \in 0 .. N : kept[n] = IF n = 0 THEN <<>> ELSE Step(n, kept[n - 1])
    BY <1>5
  <2>2. 0 \in 0 .. N /\ \A n \in 1 .. N : n \in 0 .. N /\ n # 0
    BY <1>1
  <2> QED BY <2>1, <2>2
<1> DEFINE Upto(n) == {q[i] : i \in 1 .. n} \ gone
           P == {n \in 0 .. N : /\ kept[n] \in Seq(S) /\ IsInjective(kept[n])
                                /\ ToSet(kept[n]) = Upto(n)}
<1>8. 0 \in P
  <2>1. <<>> \in Seq(S) /\ IsInjective(<<>>) /\ ToSet(<<>>) = {}
    BY DEF IsInjective, ToSet
  <2>2. Upto(0) = {}
    OBVIOUS
  <2>3. 0 \in 0 .. N
    BY <1>1
  <2> HIDE DEF Upto
  <2>4. kept[0] \in Seq(S) /\ IsInjective(kept[0]) /\ ToSet(kept[0]) = Upto(0)
    BY <1>7, <2>1, <2>2
  <2> QED BY <2>3, <2>4
<1>9. ASSUME NEW n \in 1 .. N, n - 1 \in P PROVE n \in P
  <2>1. n \in 0 .. N /\ q[n] \in S /\ kept[n] = Step(n, kept[n - 1])
    BY <1>1, <1>7
  <2>2. /\ kept[n - 1] \in Seq(S) /\ IsInjective(kept[n - 1])
        /\ ToSet(kept[n - 1]) = Upto(n - 1)
    BY <1>9
  <2>3. \A i \in 1 .. n : i \in 1 .. n - 1 \/ i = n
    BY <1>1
  <2>10. n - 1 \in Nat /\ n \in 1 .. n /\ \A i \in 1 .. n - 1 : i \in 1 .. n
    BY <1>9
  <2>4. Upto(n) = Upto(n - 1) \cup ({q[n]} \ gone)
    <3>1. Upto(n) \subseteq Upto(n - 1) \cup ({q[n]} \ gone)
      BY <2>3, Zenon
    <3>2. Upto(n - 1) \cup ({q[n]} \ gone) \subseteq Upto(n)
      BY <2>10, Zenon
    <3> QED BY <3>1, <3>2
  <2>5. q[n] \notin Upto(n - 1)
    <3>1. \A i, m \in 1 .. N : q[i] = q[m] => i = m
      BY <1>1 DEF IsInjective
    <3>2. \A i \in 1 .. n - 1 : i \in 1 .. N /\ i # n
      BY <1>1
    <3>3. \A i \in 1 .. n - 1 : q[i] # q[n]
      BY <3>1, <3>2
    <3> QED BY <3>3
  <2> HIDE DEF Upto
  <2>6. CASE q[n] \in gone
    <3>1. kept[n] = kept[n - 1]
      BY <2>1, <2>6
    <3> QED BY <2>1, <2>2, <2>4, <2>6, <3>1
  <2>7. CASE q[n] \notin gone
    <3>1. kept[n] = Append(kept[n - 1], q[n])
      BY <2>1, <2>7
    <3>2. /\ kept[n] \in Seq(S) /\ IsInjective(kept[n])
          /\ ToSet(kept[n]) = ToSet(kept[n - 1]) \cup {q[n]}
      BY <2>1, <2>2, <2>5, <3>1, ListAppendFacts
    <3> QED BY <2>1, <2>2, <2>4, <2>7, <3>2
  <2> QED BY <2>6, <2>7
<1> HIDE DEF P
<1>10. \A n \in 0 .. N : n \in P
  BY <1>1, <1>8, <1>9, PlaceInduction
<1>11. N \in P
  BY <1>1, <1>10
<1>12. Upto(N) = ToSet(q) \ gone
  BY <1>1 DEF ToSet
<1> QED BY <1>6, <1>11, <1>12 DEF P

-----------------------------------------------------------------------------
(* What the operations on a world do to it *)

(* An event that is no longer due, one whose callback begins, and a timer that
   its callback removed *)
NotDue(x) == [x EXCEPT !.due = "no"]
Begun(x) == [x EXCEPT !.due = "no", !.in_callback = TRUE, !.removed = FALSE]
Marked(x) == [x EXCEPT !.removed = TRUE]

LEMMA NoEventOK ==
    ASSUME LoopAssumption
    PROVE  /\ NoEvent \in EventRec /\ NoEvent.type = "free" /\ NoEvent.fd = None
           /\ NoEvent.due = "no" /\ ~NoEvent.queue /\ ~NoEvent.in_callback
           /\ ~NoEvent.removed /\ ~NoEvent.inserted /\ ~NoEvent.timeout
BY DEF NoEvent, EventRec

(* input_remove of an event *)
LEMMA RemovalFacts ==
    ASSUME LoopAssumption, NEW x \in EventRec
    PROVE  /\ Removal(x) \in EventRec /\ Removal(x).due = "no"
           /\ ~x.in_callback => Removal(x) = NoEvent
           /\ x.in_callback => /\ Removal(x) # NoEvent /\ Removal(x).in_callback
                               /\ Removal(x).removed
                               /\ ~Removal(x).inserted /\ ~Removal(x).timeout
                               /\ Removal(x).type = x.type /\ Removal(x).fd = x.fd
                               /\ Removal(x).conn = x.conn /\ Removal(x).queue = x.queue
<1>1. CASE ~x.in_callback
  BY <1>1, NoEventOK DEF Removal
<1>2. CASE x.in_callback
  <2> DEFINE d == [EventDel(x) EXCEPT !.removed = TRUE]
  <2>1. EventDel(x) = [x EXCEPT !.inserted = FALSE, !.timeout = FALSE, !.due = "no"]
    BY DEF EventDel
  <2>2. /\ d \in EventRec /\ d.due = "no" /\ d.in_callback /\ d.removed
        /\ ~d.inserted /\ ~d.timeout
        /\ d.type = x.type /\ d.fd = x.fd /\ d.conn = x.conn /\ d.queue = x.queue
    BY <1>2, <2>1 DEF EventRec
  <2>3. Removal(x) = d
    BY <1>2 DEF Removal
  <2> HIDE DEF d
  <2>4. d # NoEvent
    BY <2>2, NoEventOK
  <2> QED BY <1>2, <2>2, <2>3, <2>4
<1> QED BY <1>1, <1>2 DEF EventRec

(* input_remove, of some events *)
LEMMA InputRemoveOK ==
    ASSUME LoopAssumption, NEW w, NEW r, WorldOK(w, r), NEW gone \in SUBSET Events,
           NEW d, d = InputRemove(w, gone)
    PROVE  /\ WorldOK(d, r)
           /\ \A e \in Events : d.ev[e] = IF e \in gone THEN Removal(w.ev[e]) ELSE w.ev[e]
<1> DEFINE new == [e \in Events |-> IF e \in gone THEN Removal(w.ev[e]) ELSE w.ev[e]]
           freed == {e \in gone : new[e] = NoEvent}
<1>1. /\ w.ev \in [Events -> EventRec]
      /\ w.chain \in [Fds -> Seq(Events)] /\ w.active \in Seq(Events)
  BY DEF WorldOK, WorldType
<1>2. d = [ev |-> new, active |-> Without(w.active, gone),
           chain |-> [f \in Fds |-> Without(w.chain[f], freed)]]
  BY DEF InputRemove
<1>3. d.ev = new /\ d.active = Without(w.active, gone)
      /\ d.chain = [f \in Fds |-> Without(w.chain[f], freed)]
  BY <1>2
<1>4. \A e \in gone : e \in freed <=> ~w.ev[e].in_callback
  BY <1>1, RemovalFacts
<1>5. \A e \in Events : new[e] = IF e \in gone THEN Removal(w.ev[e]) ELSE w.ev[e]
  OBVIOUS
<1>6. \A e \in Events : new[e] \in EventRec
  BY <1>1, <1>5, RemovalFacts
<1>7. freed \subseteq gone /\ new \in [Events -> EventRec]
  BY <1>6
<1> HIDE DEF new, freed
<1>8. /\ d.active \in Seq(Events) /\ IsInjective(d.active)
      /\ ToSet(d.active) = ToSet(w.active) \ gone
  BY <1>1, <1>3, WithoutFacts DEF WorldOK, ListsOK
<1>9. ASSUME NEW f \in Fds
      PROVE  /\ d.chain[f] \in Seq(Events) /\ IsInjective(d.chain[f])
             /\ ToSet(d.chain[f]) = ToSet(w.chain[f]) \ freed
  <2>1. w.chain[f] \in Seq(Events) /\ IsInjective(w.chain[f])
    BY <1>1 DEF WorldOK, ListsOK
  <2>2. d.chain[f] = Without(w.chain[f], freed)
    BY <1>3
  <2> QED BY <2>1, <2>2, WithoutFacts
<1>10. WorldType(d)
  BY <1>3, <1>7, <1>8, <1>9 DEF WorldType
<1>11. ASSUME NEW e \in Events PROVE EventOK(new[e], e, r)
  <2>1. EventOK(w.ev[e], e, r) /\ w.ev[e] \in EventRec
    BY <1>1 DEF WorldOK
  <2>2. CASE e \notin gone
    BY <1>5, <2>1, <2>2
  <2>3. CASE e \in gone /\ ~w.ev[e].in_callback
    <3>1. new[e] = NoEvent
      BY <1>5, <2>1, <2>3, RemovalFacts
    <3> QED BY <2>1, <2>3, <3>1, NoEventOK DEF EventOK
  <2>4. CASE e \in gone /\ w.ev[e].in_callback
    <3>1. new[e] = Removal(w.ev[e])
      BY <1>5, <2>4
    <3>2. w.ev[e].type # "free"
      BY <2>1, <2>4, NoEventOK DEF EventOK
    <3> QED BY <2>1, <2>4, <3>1, <3>2, RemovalFacts DEF EventOK
  <2> QED BY <2>2, <2>3, <2>4
<1>12. ASSUME NEW e \in Events PROVE new[e].due # "no" <=> w.ev[e].due # "no" /\ e \notin gone
  BY <1>1, <1>5, RemovalFacts
<1>13. ASSUME NEW e \in Events, NEW f \in Fds
       PROVE  new[e].fd = f <=> w.ev[e].fd = f /\ e \notin freed
  <2>1. CASE e \notin gone
    BY <1>5, <1>7, <2>1
  <2>2. CASE e \in gone /\ ~w.ev[e].in_callback
    BY <1>1, <1>4, <1>5, <2>2, RemovalFacts, NoEventOK DEF LoopAssumption
  <2>3. CASE e \in gone /\ w.ev[e].in_callback
    BY <1>1, <1>4, <1>5, <2>3, RemovalFacts
  <2> QED BY <2>1, <2>2, <2>3
<1>14. ListsOK(d)
  <2>1. ToSet(d.active) = {e \in Events : d.ev[e].due # "no"}
    BY <1>3, <1>8, <1>12 DEF WorldOK, ListsOK
  <2>2. \A f \in Fds : ToSet(d.chain[f]) = {e \in Events : d.ev[e].fd = f}
    BY <1>3, <1>9, <1>13 DEF WorldOK, ListsOK
  <2> QED BY <1>8, <1>9, <2>1, <2>2 DEF ListsOK
<1> QED BY <1>3, <1>5, <1>10, <1>11, <1>14 DEF WorldOK

(* timer_remove of a timer whose callback does not run *)
LEMMA TimerRemoveOK ==
    ASSUME LoopAssumption, NEW w, NEW r, WorldOK(w, r), NEW e \in Events,
           w.ev[e].type = "timer", NEW d, d = TimerRemove(w, e)
    PROVE  /\ WorldOK(d, r)
           /\ \A x \in Events : x # e => d.ev[x] = w.ev[x]
           /\ ~w.ev[e].in_callback => d.ev[e] = NoEvent
           /\ w.ev[e].in_callback => d.ev[e] = Marked(w.ev[e])
<1>1. /\ w.ev \in [Events -> EventRec]
      /\ w.chain \in [Fds -> Seq(Events)] /\ w.active \in Seq(Events)
  BY DEF WorldOK, WorldType
<1>2. EventOK(w.ev[e], e, r) /\ w.ev[e] \in EventRec
  BY <1>1 DEF WorldOK
<1>3. w.ev[e].fd = None
  BY <1>2 DEF EventOK
<1>4. CASE w.ev[e].in_callback
  <2> DEFINE x == Marked(w.ev[e])
  <2>1. d.ev = [w.ev EXCEPT ![e] = x] /\ d.chain = w.chain /\ d.active = w.active
    BY <1>4 DEF TimerRemove, Marked
  <2>2. x \in EventRec /\ x.due = w.ev[e].due /\ x.fd = None /\ EventOK(x, e, r)
    BY <1>2, <1>3, <1>4, NoEventOK DEF EventRec, EventOK, Marked
  <2> HIDE DEF x
  <2>3. d.ev[e] = x /\ \A y \in Events : y # e => d.ev[y] = w.ev[y]
    BY <1>1, <2>1
  <2>4. WorldType(d)
    BY <1>1, <2>1, <2>2 DEF WorldType
  <2>5. ListsOK(d)
    BY <1>2, <1>3, <2>1, <2>2, <2>3 DEF WorldOK, ListsOK
  <2> QED BY <1>4, <2>2, <2>3, <2>4, <2>5 DEF WorldOK, x
<1>5. CASE ~w.ev[e].in_callback
  <2>1. /\ d.ev = [w.ev EXCEPT ![e] = NoEvent] /\ d.chain = w.chain
        /\ d.active = Without(w.active, {e})
    BY <1>5 DEF TimerRemove
  <2>2. d.ev[e] = NoEvent /\ \A y \in Events : y # e => d.ev[y] = w.ev[y]
    BY <1>1, <2>1
  <2>3. /\ d.active \in Seq(Events) /\ IsInjective(d.active)
        /\ ToSet(d.active) = ToSet(w.active) \ {e}
    BY <1>1, <2>1, WithoutFacts DEF WorldOK, ListsOK
  <2>4. WorldType(d)
    BY <1>1, <2>1, <2>3, NoEventOK DEF WorldType
  <2>5. ListsOK(d)
    <3>1. ToSet(d.active) = {x \in Events : d.ev[x].due # "no"}
      BY <2>2, <2>3, NoEventOK DEF WorldOK, ListsOK
    <3>2. \A f \in Fds : {x \in Events : d.ev[x].fd = f} = {x \in Events : w.ev[x].fd = f}
      BY <1>3, <2>2, NoEventOK
    <3> QED BY <2>1, <2>3, <3>1, <3>2 DEF WorldOK, ListsOK
  <2>6. EventOK(NoEvent, e, r)
    BY <1>2, <1>5, NoEventOK DEF EventOK
  <2> QED BY <1>5, <2>2, <2>4, <2>5, <2>6 DEF WorldOK
<1> QED BY <1>2, <1>4, <1>5 DEF EventRec

(* event_process_active takes an event off the queue. *)
LEMMA TakenOK ==
    ASSUME LoopAssumption, WorldOK(World, running), NEW e \in Events, Due(e),
           NEW d, d = Taken(e)
    PROVE  /\ WorldOK(d, None) /\ d.chain = chain
           /\ \A x \in Events : x # e => d.ev[x] = ev[x]
           /\ d.ev[e] = NotDue(ev[e])
           /\ ev[e].due # "no" /\ ev[e].type # "free"
<1> DEFINE y == NotDue(ev[e])
<1>1. /\ ev \in [Events -> EventRec]
      /\ chain \in [Fds -> Seq(Events)] /\ active \in Seq(Events)
  BY DEF WorldOK, WorldType, World
<1>2. running = None /\ active # <<>> /\ e = Head(active)
  BY DEF Due
<1>3. /\ IsInjective(active) /\ ToSet(active) = {x \in Events : ev[x].due # "no"}
      /\ \A f \in Fds : /\ IsInjective(chain[f])
                         /\ ToSet(chain[f]) = {x \in Events : ev[x].fd = f}
  BY DEF WorldOK, ListsOK, World
<1>4. \A x \in Events : EventOK(ev[x], x, None) /\ x # None
  BY <1>2 DEF WorldOK, World, LoopAssumption
<1>5. /\ e \in ToSet(active) /\ Tail(active) \in Seq(Events) /\ IsInjective(Tail(active))
      /\ ToSet(Tail(active)) = ToSet(active) \ {e}
  BY <1>1, <1>2, <1>3, ListTailFacts
<1>6. ev[e].due # "no" /\ ev[e].type # "free"
  BY <1>3, <1>4, <1>5, NoEventOK DEF EventOK
<1>7. d.ev = [ev EXCEPT ![e] = y] /\ d.chain = chain /\ d.active = Tail(active)
  BY <1>1 DEF Taken, World, NotDue
<1>8. /\ y \in EventRec /\ y.due = "no" /\ y.in_callback = ev[e].in_callback
      /\ y.type = ev[e].type /\ y.fd = ev[e].fd /\ y.conn = ev[e].conn
      /\ y.queue = ev[e].queue /\ y.inserted = ev[e].inserted /\ y.timeout = ev[e].timeout
  <2>1. ev[e] \in EventRec
    BY <1>1
  <2> QED BY <2>1 DEF EventRec, NotDue
<1>9. EventOK(y, e, None)
  BY <1>4, <1>6, <1>8 DEF EventOK
<1> HIDE DEF y
<1>10. d.ev[e] = y /\ \A x \in Events : x # e => d.ev[x] = ev[x]
  BY <1>1, <1>7
<1>11. WorldType(d)
  BY <1>1, <1>5, <1>7, <1>8 DEF WorldType
<1>12. ListsOK(d)
  <2>1. ToSet(d.active) = {x \in Events : d.ev[x].due # "no"}
    BY <1>3, <1>5, <1>7, <1>8, <1>10
  <2>2. \A f \in Fds : {x \in Events : d.ev[x].fd = f} = {x \in Events : ev[x].fd = f}
    BY <1>8, <1>10
  <2> QED BY <1>3, <1>5, <1>7, <2>1, <2>2 DEF ListsOK
<1>13. \A x \in Events : EventOK(d.ev[x], x, None)
  BY <1>4, <1>9, <1>10
<1> QED BY <1>6, <1>7, <1>10, <1>11, <1>12, <1>13 DEF WorldOK, y

(* The flags of one event change, but neither its descriptor nor what it is due
   for, and another callback runs. *)
LEMMA EventFlagsOK ==
    ASSUME NEW w, NEW r, WorldOK(w, r), NEW q, NEW e \in Events, NEW y \in EventRec,
           y.fd = w.ev[e].fd, y.due = w.ev[e].due, EventOK(y, e, q),
           \A x \in Events : x # e => EventOK(w.ev[x], x, q),
           NEW d, d.ev \in [Events -> EventRec], d.ev[e] = y,
           \A x \in Events : x # e => d.ev[x] = w.ev[x],
           d.chain = w.chain, d.active = w.active
    PROVE  WorldOK(d, q)
<1>1. WorldType(w)
  BY DEF WorldOK
<1>2. WorldType(d)
  BY <1>1 DEF WorldType
<1>3. \A x \in Events : d.ev[x].fd = w.ev[x].fd /\ d.ev[x].due = w.ev[x].due
  OBVIOUS
<1>4. ListsOK(d)
  BY <1>3 DEF WorldOK, ListsOK
<1>5. \A x \in Events : EventOK(d.ev[x], x, q)
  OBVIOUS
<1> QED BY <1>2, <1>4, <1>5 DEF WorldOK

(* libevent_cb begins: the event is not one of a write queue. *)
LEMMA CalledOK ==
    ASSUME LoopAssumption, WorldOK(World, running), NEW e \in Events, Due(e),
           ~ev[e].queue, NEW d, d = Called(e)
    PROVE  /\ WorldOK(d, e) /\ d.chain = chain
           /\ \A x \in Events : x # e => d.ev[x] = ev[x]
           /\ d.ev[e] = Begun(ev[e])
           /\ ev[e].due # "no" /\ ev[e].type # "free"
<1> DEFINE t == Taken(e)
           y == Begun(ev[e])
<1>1. /\ WorldOK(t, None) /\ t.chain = chain
      /\ \A x \in Events : x # e => t.ev[x] = ev[x]
      /\ t.ev[e] = NotDue(ev[e])
      /\ ev[e].due # "no" /\ ev[e].type # "free"
  BY TakenOK
<1>2. d.ev = [t.ev EXCEPT ![e] = [t.ev[e] EXCEPT !.in_callback = TRUE, !.removed = FALSE]]
      /\ d.chain = t.chain /\ d.active = t.active
  BY DEF Called, Taken, World
<1> HIDE DEF t
<1>3. ev[e] \in EventRec /\ e # None
  BY DEF WorldOK, WorldType, World, LoopAssumption
<1>4. y \in EventRec /\ y = [t.ev[e] EXCEPT !.in_callback = TRUE, !.removed = FALSE]
  BY <1>1, <1>3 DEF EventRec, Begun, NotDue
<1>5. /\ y.in_callback /\ y.due = "no" /\ y.type = ev[e].type /\ y.fd = ev[e].fd
      /\ y.conn = ev[e].conn /\ y.queue = ev[e].queue /\ y.inserted = ev[e].inserted
      /\ t.ev[e].fd = ev[e].fd /\ t.ev[e].due = "no"
  BY <1>1, <1>3 DEF EventRec, Begun, NotDue
<1>6. EventOK(ev[e], e, running)
  BY DEF WorldOK, World
<1> HIDE DEF y
<1>7. EventOK(y, e, e)
  BY <1>1, <1>5, <1>6 DEF EventOK
<1>8. \A x \in Events : x # e => EventOK(t.ev[x], x, e)
  <2> SUFFICES ASSUME NEW x \in Events, x # e PROVE EventOK(t.ev[x], x, e)
    OBVIOUS
  <2>1. EventOK(t.ev[x], x, None) /\ x # None
    BY <1>1 DEF WorldOK, LoopAssumption
  <2> QED BY <2>1 DEF EventOK
<1>9. WorldOK(d, e) /\ d.ev[e] = y /\ \A x \in Events : x # e => d.ev[x] = t.ev[x]
  <2>1. y \in EventRec /\ y.fd = t.ev[e].fd /\ y.due = t.ev[e].due /\ t.ev \in [Events -> EventRec]
    BY <1>1, <1>4, <1>5 DEF WorldOK, WorldType
  <2>2. /\ d.ev \in [Events -> EventRec] /\ d.ev[e] = y
        /\ \A x \in Events : x # e => d.ev[x] = t.ev[x]
    BY <1>2, <1>4, <2>1
  <2> QED BY <1>1, <1>2, <1>7, <1>8, <2>1, <2>2, EventFlagsOK
<1> QED BY <1>1, <1>2, <1>9 DEF y

-----------------------------------------------------------------------------
(* Each step keeps the invariant *)

(* The next world is d. *)
LEMMA SetWorldOK ==
    ASSUME NEW d, NEW r, WorldOK(d, r), SetWorld(d), running' = r
    PROVE  (WorldOK(World, running))'
<1>1. ev' = d.ev /\ chain' = d.chain /\ active' = d.active
  BY DEF SetWorld
<1> QED BY <1>1 DEF WorldOK, WorldType, ListsOK, World

(* What the invariant says of an event *)
LEMMA EventFacts ==
    ASSUME LoopAssumption, LoopInv
    PROVE  /\ ev \in [Events -> EventRec] /\ RestType
           /\ \A e \in Events : /\ ev[e] \in EventRec /\ EventOK(ev[e], e, running)
                                /\ ev[e].removed => e = running
                                /\ InputOwned(ev[e]) /\ e # None
BY DEF LoopInv, WorldOK, WorldType, World, LoopAssumption

(* Outside a callback, and when the running event was not removed, no
   connection is owed its close. *)
LEMMA OwedFacts ==
    ASSUME LoopAssumption, LoopInv
    PROVE  /\ running = None => Owed = None
           /\ Owed # None => /\ running # None /\ ev[running].type = "input"
                             /\ ev[running].removed /\ Owed = ev[running].conn
                             /\ tcpc[Owed].fd = ev[running].fd
                             /\ holder[ev[running].fd] = None /\ Owed \in TCPCs
  BY EventFacts DEF Owed, EventOK, LoopAssumption, RestType

(* An event whose time has come *)
LEMMA LateFacts ==
    ASSUME NEW x \in EventRec, NEW y, y = EventActive(x, "timeout")
    PROVE  /\ y \in EventRec /\ y.due = "timeout" /\ ~y.inserted /\ ~y.timeout
           /\ y.type = x.type /\ y.conn = x.conn /\ y.fd = x.fd /\ y.queue = x.queue
           /\ y.in_callback = x.in_callback /\ y.removed = x.removed
<1>1. y = [EventDel(x) EXCEPT !.due = "timeout"]
  BY DEF EventActive
<1>2. EventDel(x) = [x EXCEPT !.inserted = FALSE, !.timeout = FALSE, !.due = "no"]
  BY DEF EventDel
<1> DEFINE z == EventDel(x)
<1>3. /\ z \in EventRec /\ ~z.inserted /\ ~z.timeout
      /\ z.type = x.type /\ z.conn = x.conn /\ z.fd = x.fd /\ z.queue = x.queue
      /\ z.in_callback = x.in_callback /\ z.removed = x.removed
  BY <1>2 DEF EventRec
<1> HIDE DEF z
<1>4. y = [z EXCEPT !.due = "timeout"]
  BY <1>1 DEF z
<1> QED BY <1>3, <1>4 DEF EventRec

(* Poll *)
LEMMA PollOK ==
    ASSUME LoopAssumption, LoopInv, Poll
    PROVE  LoopInv'
<1>1. /\ ev \in [Events -> EventRec] /\ RestType /\ running = None /\ active = <<>>
      /\ chain \in [Fds -> Seq(Events)]
      /\ UNCHANGED <<chain, holder, tcpc, running, failed>>
  BY EventFacts DEF LoopInv, WorldOK, WorldType, World, Poll
<1>2. PICK ready \in SUBSET {e \in Live : ev[e].inserted},
           late \in SUBSET {e \in Live : ev[e].timeout} :
        /\ \E s \in SetToSeqs(ready \ late), t \in SetToSeqs(late) : active' = s \o t
        /\ ev' = [e \in Events |-> IF e \in late THEN EventActive(ev[e], "timeout")
                                   ELSE IF e \in ready THEN EventActive(ev[e], "io")
                                   ELSE ev[e]]
  BY DEF Poll, Selected, Timed
<1>3. PICK s \in SetToSeqs(ready \ late), t \in SetToSeqs(late) : active' = s \o t
  BY <1>2
<1>4. ready \subseteq Events /\ late \subseteq Events
  BY <1>2 DEF Live
<1>5. \A e \in Events : ev[e].due = "no" /\ ~ev[e].removed /\ ~ev[e].in_callback
  <2>1. ToSet(active) = {}
    BY <1>1 DEF ToSet
  <2>2. \A e \in Events : ev[e].due = "no"
    BY <2>1 DEF LoopInv, WorldOK, ListsOK, World
  <2> QED BY <1>1, <2>2, EventFacts DEF EventOK, EventRec
<1>6. ASSUME NEW e \in late
      PROVE  /\ ev'[e] \in EventRec /\ ev'[e].due = "timeout"
             /\ ~ev'[e].inserted /\ ~ev'[e].timeout /\ ev[e].timeout /\ ~ev[e].queue
             /\ ev'[e].type = ev[e].type /\ ev'[e].conn = ev[e].conn
             /\ ev'[e].fd = ev[e].fd /\ ev'[e].queue = ev[e].queue
             /\ ev'[e].in_callback = ev[e].in_callback /\ ev'[e].removed = ev[e].removed
             /\ ev[e].type # "free"
  <2>1. e \in Events /\ ev[e] \in EventRec /\ ev[e].timeout /\ ~ev[e].queue
        /\ ev[e].type # "free"
    BY <1>2, <1>4, EventFacts DEF EventOK, Live
  <2>2. ev'[e] = EventActive(ev[e], "timeout")
    BY <1>2, <2>1
  <2> QED BY <2>1, <2>2, LateFacts
<1>7. ASSUME NEW e \in ready, e \notin late
      PROVE  /\ ev'[e] \in EventRec /\ ev'[e].due = "io" /\ ev'[e].inserted
             /\ ev'[e].timeout = ev[e].timeout
             /\ ev'[e].type = "input" /\ ev[e].type = "input" /\ ev'[e].conn = ev[e].conn
             /\ ev'[e].fd = ev[e].fd /\ ev'[e].queue = ev[e].queue
             /\ ev'[e].in_callback = ev[e].in_callback /\ ev'[e].removed = ev[e].removed
  <2>1. /\ e \in Events /\ ev[e] \in EventRec /\ ev[e].inserted
        /\ ev[e].type # "free" /\ ev[e].type # "timer"
    BY <1>2, <1>4, EventFacts DEF EventOK, Live
  <2>2. ev'[e] = [ev[e] EXCEPT !.due = "io"]
    BY <1>2, <1>7, <2>1 DEF EventActive
  <2> QED BY <2>1, <2>2 DEF EventRec
<1>8. \A e \in Events : e \notin ready \cup late => ev'[e] = ev[e]
  BY <1>2
<1>9. DOMAIN ev' = Events /\ ev' = [e \in Events |-> ev'[e]]
  BY <1>2
<1>10. ev' \in [Events -> EventRec]
  BY <1>1, <1>6, <1>7, <1>8, <1>9
<1>11. /\ active' \in Seq(Events) /\ IsInjective(active')
       /\ ToSet(active') = ready \cup late
  <2>1. IsFiniteSet(late) /\ IsFiniteSet(ready \ late)
    BY <1>4, FS_Subset DEF LoopAssumption
  <2>2. /\ s \in Seq(Events) /\ IsInjective(s) /\ ToSet(s) = ready \ late
    BY <1>3, <1>4, <2>1, SetToSeqsFacts
  <2>3. /\ t \in Seq(Events) /\ IsInjective(t) /\ ToSet(t) = late
    BY <1>3, <1>4, <2>1, SetToSeqsFacts
  <2> QED BY <1>3, <2>2, <2>3, ListConcatFacts
<1>12. (WorldOK(World, running))'
  <2>1. WorldType(World)'
    BY <1>1, <1>10, <1>11 DEF WorldType, World
  <2>2. ASSUME NEW e \in Events PROVE ev'[e].fd = ev[e].fd
    BY <1>6, <1>7, <1>8
  <2>3. ASSUME NEW e \in Events PROVE ev'[e].due # "no" <=> e \in ready \cup late
    BY <1>5, <1>6, <1>7, <1>8
  <2>4. \A f \in Fds : /\ IsInjective(chain[f])
                        /\ ToSet(chain[f]) = {e \in Events : ev[e].fd = f}
    BY DEF LoopInv, WorldOK, ListsOK, World
  <2>5. ListsOK(World)'
    <3>1. ToSet(active') = {e \in Events : ev'[e].due # "no"}
      BY <1>4, <1>11, <2>3
    <3>2. \A f \in Fds : {e \in Events : ev'[e].fd = f} = {e \in Events : ev[e].fd = f}
      BY <2>2
    <3> QED BY <1>1, <1>11, <2>4, <3>1, <3>2 DEF ListsOK, World
  <2>6. ASSUME NEW e \in Events PROVE EventOK(ev'[e], e, None)
    <3>1. EventOK(ev[e], e, None) /\ e # None
      BY <1>1, EventFacts
    <3> QED BY <1>6, <1>7, <1>8, <3>1 DEF EventOK
  <2> QED BY <1>1, <2>1, <2>5, <2>6 DEF WorldOK, World
<1>13. \A e \in Events : ~ev'[e].removed
  BY <1>5, <1>6, <1>7, <1>8
<1>14. Owed = None /\ Owed' = None
  BY <1>1 DEF Owed
<1>15. ASSUME NEW e \in Events PROVE InputOwned(ev[e])'
  <2>1. InputOwned(ev[e])
    BY EventFacts
  <2> QED BY <1>1, <1>5, <1>6, <1>7, <1>8, <2>1 DEF InputOwned
<1>16. DescriptorsOK'
  BY <1>1, <1>14 DEF DescriptorsOK, Open, LoopInv
<1>17. QueuesWritten'
  <2> SUFFICES ASSUME NEW c \in TCPCs, tcpc[c].wbuf, c # None
               PROVE  \E e \in Events : ev'[e].queue /\ ev'[e].conn = c
    BY <1>1, <1>14 DEF QueuesWritten
  <2>1. PICK e \in Events : ev[e].queue /\ ev[e].conn = c
    BY <1>14 DEF LoopInv, QueuesWritten
  <2> QED BY <1>6, <1>7, <1>8, <2>1
<1> QED BY <1>1, <1>12, <1>13, <1>15, <1>16, <1>17 DEF LoopInv, RestType

(* CallTimer, CallInput *)
LEMMA CallOK ==
    ASSUME LoopAssumption, LoopInv, NEW e \in Events, CallTimer(e) \/ CallInput(e)
    PROVE  LoopInv'
<1>1. /\ Due(e) /\ SetWorld(Called(e)) /\ running' = e /\ UNCHANGED <<holder, tcpc, failed>>
      /\ ev[e].type = "timer" \/ (ev[e].due = "io" /\ ~ev[e].queue)
  BY DEF CallTimer, CallInput
<1>2. /\ ev \in [Events -> EventRec] /\ RestType
      /\ \A x \in Events : /\ ev[x] \in EventRec /\ EventOK(ev[x], x, running)
                           /\ ev[x].removed => x = running
                           /\ InputOwned(ev[x]) /\ x # None
  BY EventFacts
<1>3. running = None /\ Owed = None /\ ~ev[e].queue
  BY <1>1, <1>2, OwedFacts DEF Due, EventOK
<1> DEFINE d == Called(e)
<1>4. /\ WorldOK(d, e)
      /\ \A x \in Events : x # e => d.ev[x] = ev[x]
      /\ d.ev[e] = Begun(ev[e])
  <2>1. WorldOK(World, running)
    BY DEF LoopInv
  <2> QED BY <1>1, <1>3, <2>1, CalledOK
<1>5. ev' = d.ev
  BY <1>1 DEF SetWorld
<1>6. (WorldOK(World, running))'
  BY <1>1, <1>4, SetWorldOK
<1> HIDE DEF d
<1>7. /\ ev'[e].type = ev[e].type /\ ev'[e].conn = ev[e].conn /\ ev'[e].fd = ev[e].fd
      /\ ev'[e].queue = ev[e].queue /\ ev'[e].inserted = ev[e].inserted /\ ~ev'[e].removed
  <2>1. ev[e] \in EventRec
    BY <1>2
  <2> QED BY <1>4, <1>5, <2>1 DEF EventRec, Begun
<1>8. \A x \in Events : x # e => ev'[x] = ev[x]
  BY <1>4, <1>5
<1>9. Owed' = None
  BY <1>1, <1>7 DEF Owed
<1>10. ASSUME NEW x \in Events PROVE InputOwned(ev[x])'
  <2>1. CASE x = e
    BY <1>1, <1>2, <1>3, <1>7, <2>1 DEF InputOwned
  <2>2. CASE x # e
    BY <1>1, <1>2, <1>8, <2>2 DEF InputOwned
  <2> QED BY <2>1, <2>2
<1>11. DescriptorsOK'
  BY <1>1, <1>3, <1>9 DEF DescriptorsOK, Open, LoopInv
<1>12. QueuesWritten'
  <2> SUFFICES ASSUME NEW c \in TCPCs, tcpc[c].wbuf, c # None
               PROVE  \E x \in Events : ev'[x].queue /\ ev'[x].conn = c
    BY <1>1, <1>9 DEF QueuesWritten
  <2>1. PICK x \in Events : ev[x].queue /\ ev[x].conn = c
    BY <1>3 DEF LoopInv, QueuesWritten
  <2> QED BY <1>7, <1>8, <2>1
<1>13. \A x \in Events : ev'[x].removed => x = e
  BY <1>2, <1>3, <1>8
<1> QED BY <1>1, <1>2, <1>6, <1>10, <1>11, <1>12, <1>13 DEF LoopInv, RestType

(* CallTimeout: the connection of the input is owed its close. *)
LEMMA CallTimeoutOK ==
    ASSUME LoopAssumption, LoopInv, NEW e \in Events, CallTimeout(e)
    PROVE  LoopInv'
<1> DEFINE fd == ev[e].fd
           k == ev[e].conn
<1>1. /\ Due(e) /\ ev[e].type = "input" /\ ev[e].due = "timeout"
      /\ holder' = [holder EXCEPT ![fd] = None]
      /\ SetWorld(InputRemoveAll(Called(e), fd))
      /\ running' = e /\ UNCHANGED <<tcpc, failed>>
  BY DEF CallTimeout
<1>2. /\ ev \in [Events -> EventRec] /\ RestType
      /\ \A x \in Events : /\ ev[x] \in EventRec /\ EventOK(ev[x], x, running)
                           /\ ev[x].removed => x = running
                           /\ InputOwned(ev[x]) /\ x # None
  BY EventFacts
<1>3. running = None /\ Owed = None /\ ~ev[e].queue
  BY <1>1, <1>2, OwedFacts DEF Due, EventOK
<1>4. /\ fd \in Fds /\ k \in TCPCs /\ ~ev[e].removed /\ k # None /\ fd # None
      /\ tcpc[k].fd = fd /\ holder[fd] = k
  BY <1>1, <1>2, <1>3 DEF EventOK, InputOwned, LoopAssumption
<1> DEFINE w == Called(e)
           gone == ToSet(w.chain[fd])
           d == InputRemove(w, gone)
<1>5. /\ WorldOK(w, e) /\ w.chain = chain
      /\ \A x \in Events : x # e => w.ev[x] = ev[x]
      /\ w.ev[e] = Begun(ev[e])
  <2>1. WorldOK(World, running)
    BY DEF LoopInv
  <2> QED BY <1>1, <1>3, <2>1, CalledOK
<1>6. /\ w.ev[e].type = "input" /\ w.ev[e].conn = k /\ w.ev[e].fd = fd
      /\ w.ev[e].in_callback /\ w.ev[e] \in EventRec
  <2>1. ev[e] \in EventRec
    BY <1>2
  <2> QED BY <1>1, <1>5, <2>1 DEF EventRec, Begun
<1> HIDE DEF w
<1>7. gone = {x \in Events : w.ev[x].fd = fd}
  BY <1>4, <1>5 DEF WorldOK, ListsOK
<1>8. /\ WorldOK(d, e)
      /\ \A x \in Events : d.ev[x] = IF x \in gone THEN Removal(w.ev[x]) ELSE w.ev[x]
  <2>1. gone \in SUBSET Events
    BY <1>7
  <2> HIDE DEF gone
  <2> QED BY <1>5, <2>1, InputRemoveOK
<1>9. SetWorld(d)
  BY <1>1 DEF InputRemoveAll, w, d, gone
<1> HIDE DEF d, gone
<1>10. ev' = d.ev
  BY <1>9 DEF SetWorld
<1>11. (WorldOK(World, running))'
  BY <1>1, <1>8, <1>9, SetWorldOK
<1>12. /\ ev'[e].removed /\ ev'[e].type = "input" /\ ev'[e].conn = k /\ ev'[e].fd = fd
  BY <1>6, <1>7, <1>8, <1>10, RemovalFacts
<1>13. ASSUME NEW x \in Events, x # e
       PROVE  IF ev[x].fd = fd THEN ev'[x] = NoEvent ELSE ev'[x] = ev[x]
  <2>1. w.ev[x] = ev[x] /\ ~ev[x].in_callback
    BY <1>2, <1>3, <1>5, <1>13 DEF EventOK, EventRec
  <2> QED BY <1>2, <1>7, <1>8, <1>10, <2>1, RemovalFacts
<1>14. holder'[fd] = None /\ \A f \in Fds : f # fd => holder'[f] = holder[f]
  BY <1>1, <1>2, <1>4 DEF RestType
<1>15. Owed' = k
  BY <1>1, <1>2, <1>4, <1>12, <1>14 DEF Owed
<1>16. ASSUME NEW x \in Events PROVE InputOwned(ev[x])'
  <2>1. CASE x = e
    BY <1>12, <2>1 DEF InputOwned
  <2>2. CASE x # e /\ ev[x].fd = fd
    BY <1>13, <2>2, NoEventOK DEF InputOwned
  <2>3. CASE x # e /\ ev[x].fd # fd
    <3>1. ev'[x] = ev[x]
      BY <1>13, <2>3
    <3>2. ev[x].type = "input" => ev[x].fd \in Fds
      BY <1>2 DEF EventOK
    <3> QED BY <1>1, <1>2, <1>14, <2>3, <3>1, <3>2 DEF InputOwned
  <2> QED BY <2>1, <2>2, <2>3
<1>17. DescriptorsOK'
  <2>1. ASSUME NEW c \in TCPCs, tcpc[c].fd # None PROVE holder'[tcpc[c].fd] = c \/ c = k
    <3>1. holder[tcpc[c].fd] = c /\ tcpc[c].fd \in Fds
      BY <1>2, <1>3, <2>1 DEF LoopInv, DescriptorsOK, Open, RestType, LoopAssumption
    <3> QED BY <1>4, <1>14, <3>1
  <2>2. \A f \in Fds : holder'[f] # None => tcpc[holder'[f]].fd = f
    BY <1>14 DEF LoopInv, DescriptorsOK
  <2> QED BY <1>1, <1>15, <2>1, <2>2 DEF DescriptorsOK, Open
<1>18. QueuesWritten'
  <2> SUFFICES ASSUME NEW c \in TCPCs, tcpc[c].wbuf, c # k
               PROVE  \E x \in Events : ev'[x].queue /\ ev'[x].conn = c
    BY <1>1, <1>15 DEF QueuesWritten
  <2>1. PICK x \in Events : ev[x].queue /\ ev[x].conn = c
    BY <1>3 DEF LoopInv, QueuesWritten, LoopAssumption
  <2>2. x # e /\ ev[x].type = "input" /\ ~ev[x].removed
    BY <1>2, <1>3, <2>1, NoEventOK DEF EventOK, EventRec
  <2>3. ev[x].fd # fd
    BY <1>2, <1>4, <2>1, <2>2 DEF InputOwned
  <2> QED BY <1>13, <2>1, <2>2, <2>3
<1>19. \A x \in Events : ev'[x].removed => x = e
  BY <1>2, <1>3, <1>13, NoEventOK
<1> QED BY <1>1, <1>2, <1>11, <1>14, <1>16, <1>17, <1>18, <1>19 DEF LoopInv, RestType

(* A step in a callback that leaves the connections, the descriptors and what
   the inputs of the write queues wait for alone *)
LEMMA OwnersKept ==
    ASSUME LoopAssumption, LoopInv, Owed = None, UNCHANGED <<holder, tcpc>>, running' \in {running, None},
           \A x \in Events : ev[x].queue => ev'[x].queue /\ ev'[x].conn = ev[x].conn,
           running # None => /\ ev'[running].type = ev[running].type
                             /\ ev'[running].conn = ev[running].conn
                             /\ ev'[running].fd = ev[running].fd
                             \/ running' = None
    PROVE  DescriptorsOK' /\ QueuesWritten'
<1>1. Owed' = None
  <2>1. CASE running' = None
    BY <2>1 DEF Owed
  <2>2. CASE running' = running /\ running # None
    <3>1. InputOwned(ev[running]) /\ EventOK(ev[running], running, running)
      BY <2>2, EventFacts DEF RestType
    <3> QED BY <2>2, <3>1 DEF Owed, InputOwned, EventOK, LoopAssumption
  <2> QED BY <2>1, <2>2
<1>2. DescriptorsOK'
  BY <1>1 DEF DescriptorsOK, Open, LoopInv
<1>3. QueuesWritten'
  BY <1>1 DEF QueuesWritten, LoopInv
<1> QED BY <1>2, <1>3

(* OpenConn *)
LEMMA OpenConnOK ==
    ASSUME LoopAssumption, LoopInv, NEW c \in TCPCs, NEW fd \in Fds, OpenConn(c, fd)
    PROVE  LoopInv'
<1>1. /\ Owed = None /\ running # None /\ tcpc[c].fd = None /\ holder[fd] = None
      /\ holder' = [holder EXCEPT ![fd] = c]
      /\ tcpc' = [tcpc EXCEPT ![c] = [NoConn EXCEPT !.fd = fd]]
      /\ UNCHANGED <<ev, chain, active, running, failed>>
  BY DEF OpenConn, Free, Open
<1>2. /\ RestType
      /\ \A x \in Events : /\ EventOK(ev[x], x, running)
                           /\ ev[x].removed => x = running
                           /\ InputOwned(ev[x])
  BY EventFacts
<1>3. c # None /\ fd # None
  BY DEF LoopAssumption
<1>4. /\ tcpc'[c].fd = fd /\ ~tcpc'[c].wbuf /\ tcpc' \in [TCPCs -> [fd : Fds \cup {None}, wbuf : BOOLEAN]]
      /\ \A k \in TCPCs : k # c => tcpc'[k] = tcpc[k]
  <2> DEFINE n == [NoConn EXCEPT !.fd = fd]
  <2>1. n \in [fd : Fds \cup {None}, wbuf : BOOLEAN] /\ n.fd = fd /\ ~n.wbuf
    BY DEF NoConn
  <2> HIDE DEF n
  <2>2. tcpc' = [tcpc EXCEPT ![c] = n]
    BY <1>1 DEF n
  <2> QED BY <1>2, <2>1, <2>2 DEF RestType
<1>5. /\ holder'[fd] = c /\ holder' \in [Fds -> TCPCs \cup {None}]
      /\ \A f \in Fds : f # fd => holder'[f] = holder[f]
  BY <1>1, <1>2 DEF RestType
<1>6. (WorldOK(World, running))'
  BY <1>1 DEF LoopInv, WorldOK, WorldType, ListsOK, World
<1>7. ASSUME NEW x \in Events PROVE InputOwned(ev[x])'
  <2>1. EventOK(ev[x], x, running) /\ InputOwned(ev[x])
    BY <1>2
  <2>2. ev[x].type = "input" => ev[x].fd \in Fds /\ ev[x].conn \in TCPCs /\ ev[x].fd # None /\ ev[x].conn # None
    BY <2>1 DEF EventOK, LoopAssumption
  <2> QED BY <1>1, <1>4, <1>5, <2>1, <2>2 DEF InputOwned
<1>8. Owed' = None
  <2>1. EventOK(ev[running], running, running) /\ running \in Events
    BY <1>1, <1>2 DEF RestType
  <2>2. ev[running].type = "input" => ev[running].fd \in Fds /\ ev[running].conn \in TCPCs
                                      /\ ev[running].fd # None /\ ev[running].conn # None
    BY <2>1 DEF EventOK, LoopAssumption
  <2> QED BY <1>1, <1>3, <1>4, <1>5, <2>1, <2>2 DEF Owed
<1>9. DescriptorsOK'
  <2>1. ASSUME NEW k \in TCPCs, tcpc'[k].fd # None PROVE holder'[tcpc'[k].fd] = k
    <3>1. CASE k = c
      BY <1>4, <1>5, <3>1
    <3>2. CASE k # c
      <4>1. tcpc'[k] = tcpc[k] /\ holder[tcpc[k].fd] = k /\ k # None /\ tcpc[k].fd \in Fds
        BY <1>1, <1>2, <1>4, <2>1, <3>2 DEF LoopInv, DescriptorsOK, Open, LoopAssumption, RestType
      <4> QED BY <1>1, <1>5, <4>1
    <3> QED BY <3>1, <3>2
  <2>2. ASSUME NEW f \in Fds, holder'[f] # None PROVE tcpc'[holder'[f]].fd = f
    <3>1. CASE f = fd
      BY <1>4, <1>5, <3>1
    <3>2. CASE f # fd
      <4>1. holder'[f] = holder[f] /\ tcpc[holder[f]].fd = f /\ holder[f] \in TCPCs /\ f # None
        BY <1>2, <1>5, <2>2, <3>2 DEF LoopInv, DescriptorsOK, RestType, LoopAssumption
      <4> QED BY <1>1, <1>4, <4>1
    <3> QED BY <3>1, <3>2
  <2> QED BY <2>1, <2>2 DEF DescriptorsOK, Open
<1>10. QueuesWritten'
  BY <1>1, <1>4, <1>8 DEF QueuesWritten, LoopInv
<1> QED BY <1>1, <1>2, <1>4, <1>5, <1>6, <1>7, <1>9, <1>10 DEF LoopInv, RestType

(* CloseConn *)
LEMMA CloseConnOK ==
    ASSUME LoopAssumption, LoopInv, NEW c \in TCPCs, CloseConn(c)
    PROVE  LoopInv'
<1> DEFINE fd == tcpc[c].fd
<1>1. /\ running # None /\ fd # None /\ Owed \in {None, c}
      /\ SetWorld(InputRemoveAll(World, fd))
      /\ holder' = [holder EXCEPT ![fd] = None]
      /\ failed' = IF holder[fd] \in {c, None} THEN failed ELSE "stray"
      /\ tcpc' = [tcpc EXCEPT ![c] = NoConn]
      /\ UNCHANGED running
  BY DEF CloseConn, Open
<1>2. /\ ev \in [Events -> EventRec] /\ RestType
      /\ \A x \in Events : /\ ev[x] \in EventRec /\ EventOK(ev[x], x, running)
                           /\ ev[x].removed => x = running
                           /\ InputOwned(ev[x]) /\ x # None
  BY EventFacts
<1>3. fd \in Fds /\ running \in Events /\ c # None
  BY <1>1, <1>2 DEF RestType, LoopAssumption
<1>4. /\ holder[fd] = c \/ (c = Owed /\ holder[fd] = None)
      /\ \A k \in TCPCs : k # c /\ tcpc[k].fd # None => holder[tcpc[k].fd] = k
  <2>1. \A k \in Open : holder[tcpc[k].fd] = k \/ k = Owed
    BY DEF LoopInv, DescriptorsOK
  <2>2. c = Owed => holder[fd] = None
    BY <1>3, OwedFacts
  <2> QED BY <1>1, <1>3, <2>1, <2>2 DEF Open
<1>5. failed' = failed
  BY <1>1, <1>4
<1> DEFINE gone == ToSet(chain[fd])
           d == InputRemove(World, gone)
<1>6. gone = {x \in Events : ev[x].fd = fd}
  BY <1>3 DEF LoopInv, WorldOK, ListsOK, World
<1>7. /\ WorldOK(d, running)
      /\ \A x \in Events : d.ev[x] = IF x \in gone THEN Removal(ev[x]) ELSE ev[x]
  <2>1. gone \in SUBSET Events /\ WorldOK(World, running) /\ World.ev = ev
    BY <1>6 DEF LoopInv, World
  <2> HIDE DEF gone
  <2> QED BY <2>1, InputRemoveOK
<1>8. SetWorld(d)
  BY <1>1 DEF InputRemoveAll, World, d, gone
<1> HIDE DEF d, gone
<1>9. ev' = d.ev
  BY <1>8 DEF SetWorld
<1>10. (WorldOK(World, running))'
  BY <1>1, <1>7, <1>8, SetWorldOK
<1>11. ASSUME NEW x \in Events, ev[x].fd # fd PROVE ev'[x] = ev[x]
  BY <1>6, <1>7, <1>9, <1>11
<1>12. ASSUME NEW x \in Events, ev[x].fd = fd, x # running PROVE ev'[x] = NoEvent
  <2>1. ~ev[x].in_callback
    BY <1>2, <1>12 DEF EventOK
  <2> QED BY <1>2, <1>6, <1>7, <1>9, <1>12, <2>1, RemovalFacts
<1>13. ASSUME ev[running].fd = fd
       PROVE  /\ ev'[running].removed /\ ev'[running].type = ev[running].type
              /\ ev'[running].conn = ev[running].conn /\ ev'[running].fd = fd
  <2>1. ev[running].in_callback
    BY <1>2, <1>3 DEF EventOK
  <2> QED BY <1>2, <1>3, <1>6, <1>7, <1>9, <1>13, <2>1, RemovalFacts
<1>14. /\ holder' \in [Fds -> TCPCs \cup {None}] /\ holder'[fd] = None
       /\ \A f \in Fds : f # fd => holder'[f] = holder[f]
  BY <1>1, <1>2, <1>3 DEF RestType
<1>15. /\ tcpc' \in [TCPCs -> [fd : Fds \cup {None}, wbuf : BOOLEAN]]
       /\ tcpc'[c].fd = None /\ ~tcpc'[c].wbuf /\ \A k \in TCPCs : k # c => tcpc'[k] = tcpc[k]
  BY <1>1, <1>2 DEF RestType, NoConn
<1> HIDE DEF fd
<1>16. ASSUME NEW k \in TCPCs, tcpc'[k].fd # None
       PROVE  k # c /\ tcpc'[k] = tcpc[k] /\ holder'[tcpc'[k].fd] = k
  <2>1. k # c /\ tcpc'[k] = tcpc[k] /\ holder[tcpc[k].fd] = k /\ tcpc[k].fd \in Fds
    BY <1>2, <1>4, <1>15, <1>16 DEF RestType
  <2>2. tcpc[k].fd # fd
    BY <1>4, <2>1 DEF LoopAssumption
  <2> QED BY <1>14, <2>1, <2>2
<1>17. Owed' = None
  <2>1. CASE ev[running].type = "input"
    <3>1. /\ ev'[running].conn = ev[running].conn /\ ev'[running].fd = ev[running].fd
          /\ ev[running].conn \in TCPCs /\ ev[running].fd \in Fds
      BY <1>2, <1>3, <1>11, <1>13, <2>1 DEF EventOK
    <3>2. tcpc'[ev[running].conn].fd = ev[running].fd => holder'[ev[running].fd] = ev[running].conn
      BY <1>16, <3>1 DEF LoopAssumption
    <3> QED BY <1>1, <3>1, <3>2 DEF Owed, LoopAssumption
  <2>2. CASE ev[running].type # "input"
    BY <1>1, <1>3, <1>11, <1>13, <2>2 DEF Owed
  <2> QED BY <2>1, <2>2
<1>18. ASSUME NEW x \in Events PROVE InputOwned(ev[x])'
  <2>1. CASE ev[x].fd # fd
    <3>1. ev'[x] = ev[x] /\ InputOwned(ev[x]) /\ EventOK(ev[x], x, running)
      BY <1>2, <1>11, <2>1
    <3>2. ASSUME ev[x].type = "input", ~ev[x].removed
          PROVE  /\ tcpc'[ev[x].conn].fd = ev[x].fd /\ holder'[ev[x].fd] = ev[x].conn
                 /\ ev[x].inserted \/ ev[x].due = "timeout"
      <4>1. /\ ev[x].conn \in TCPCs /\ ev[x].fd \in Fds /\ tcpc[ev[x].conn].fd = ev[x].fd
            /\ holder[ev[x].fd] = ev[x].conn /\ (ev[x].inserted \/ ev[x].due = "timeout")
        BY <3>1, <3>2 DEF InputOwned, EventOK
      <4>2. ev[x].conn # c
        BY <2>1, <4>1 DEF fd
      <4> QED BY <1>14, <1>15, <2>1, <4>1, <4>2
    <3> QED BY <3>1, <3>2 DEF InputOwned
  <2>2. CASE ev[x].fd = fd /\ x # running
    BY <1>12, <2>2, NoEventOK DEF InputOwned
  <2>3. CASE ev[x].fd = fd /\ x = running
    BY <1>13, <2>3 DEF InputOwned
  <2> QED BY <2>1, <2>2, <2>3
<1>19. DescriptorsOK'
  <2>1. ASSUME NEW f \in Fds, holder'[f] # None PROVE tcpc'[holder'[f]].fd = f
    <3>1. f # fd /\ holder'[f] = holder[f] /\ tcpc[holder[f]].fd = f /\ holder[f] \in TCPCs
      BY <1>2, <1>14, <2>1 DEF LoopInv, DescriptorsOK, RestType
    <3>2. holder[f] # c
      BY <3>1 DEF fd
    <3> QED BY <1>15, <3>1, <3>2
  <2> QED BY <1>16, <2>1 DEF DescriptorsOK, Open
<1>20. QueuesWritten'
  <2> SUFFICES ASSUME NEW k \in TCPCs, tcpc'[k].wbuf
               PROVE  \E x \in Events : ev'[x].queue /\ ev'[x].conn = k
    BY DEF QueuesWritten
  <2>1. k # c /\ tcpc[k].wbuf /\ k # Owed
    BY <1>1, <1>15 DEF LoopAssumption
  <2>2. PICK x \in Events : ev[x].queue /\ ev[x].conn = k
    BY <2>1 DEF LoopInv, QueuesWritten
  <2>3. ev[x].type = "input" /\ ~ev[x].removed
    BY <1>2, <2>2, NoEventOK DEF EventOK, EventRec
  <2>4. tcpc[k].fd = ev[x].fd /\ holder[ev[x].fd] = k
    BY <1>2, <2>2, <2>3 DEF InputOwned
  <2>5. ev[x].fd # fd
    BY <1>4, <2>1, <2>4 DEF fd, LoopAssumption
  <2> QED BY <1>11, <2>2, <2>5
<1>21. \A x \in Events : ev'[x].removed => x = running
  BY <1>2, <1>11, <1>12, NoEventOK
<1> QED BY <1>1, <1>2, <1>5, <1>10, <1>14, <1>15, <1>18, <1>19, <1>20, <1>21 DEF LoopInv, RestType

(* A new event: it is free before, and not due when it is added. *)
LEMMA NewEventOK ==
    ASSUME LoopAssumption, WorldOK(World, running), NEW e \in Events, ev[e].type = "free",
           NEW y \in EventRec, EventOK(y, e, running), y.due = "no",
           ev' = [ev EXCEPT ![e] = y], running' = running, active' = active,
           \/ y.fd = None /\ chain' = chain
           \/ y.fd \in Fds /\ chain' = [chain EXCEPT ![y.fd] = <<e>> \o @]
    PROVE  (WorldOK(World, running))'
<1>1. /\ ev \in [Events -> EventRec]
      /\ chain \in [Fds -> Seq(Events)] /\ active \in Seq(Events)
      /\ IsInjective(active) /\ ToSet(active) = {x \in Events : ev[x].due # "no"}
      /\ \A f \in Fds : /\ IsInjective(chain[f])
                         /\ ToSet(chain[f]) = {x \in Events : ev[x].fd = f}
      /\ \A x \in Events : EventOK(ev[x], x, running)
  BY DEF WorldOK, WorldType, ListsOK, World
<1>2. ev[e].due = "no" /\ ev[e].fd = None
  BY <1>1, NoEventOK DEF EventOK
<1>3. ev' \in [Events -> EventRec] /\ ev'[e] = y /\ \A x \in Events : x # e => ev'[x] = ev[x]
  BY <1>1
<1>4. ToSet(active') = {x \in Events : ev'[x].due # "no"}
  BY <1>1, <1>2, <1>3
<1>5. ASSUME NEW f \in Fds
      PROVE  /\ chain'[f] \in Seq(Events) /\ IsInjective(chain'[f])
             /\ ToSet(chain'[f]) = {x \in Events : ev'[x].fd = f}
  <2>1. f # None /\ e \notin ToSet(chain[f])
    BY <1>1, <1>2 DEF LoopAssumption
  <2>2. CASE y.fd = f
    <3>1. chain'[f] = <<e>> \o chain[f]
      BY <1>1, <2>1, <2>2
    <3>2. chain[f] \in Seq(Events) /\ IsInjective(chain[f])
      BY <1>1
    <3>3. /\ chain'[f] \in Seq(Events) /\ IsInjective(chain'[f])
          /\ ToSet(chain'[f]) = {e} \cup ToSet(chain[f])
      BY <2>1, <3>1, <3>2, ListConsFacts
    <3> QED BY <1>1, <1>3, <2>2, <3>3
  <2>3. CASE y.fd # f
    <3>1. chain'[f] = chain[f]
      BY <1>1, <2>3
    <3>2. {x \in Events : ev'[x].fd = f} = {x \in Events : ev[x].fd = f}
      BY <1>2, <1>3, <2>1, <2>3
    <3> QED BY <1>1, <3>1, <3>2
  <2> QED BY <2>2, <2>3
<1>6. chain' \in [Fds -> Seq(Events)]
  <2>1. DOMAIN chain' = Fds /\ chain' = [f \in Fds |-> chain'[f]]
    BY <1>1
  <2> QED BY <1>5, <2>1
<1>7. \A x \in Events : EventOK(ev'[x], x, running)
  BY <1>1, <1>3
<1> QED BY <1>1, <1>3, <1>4, <1>5, <1>6, <1>7 DEF WorldOK, WorldType, ListsOK, World

(* InputAdd, Write: an open connection gets an input on its descriptor. *)
LEMMA AddedOK ==
    ASSUME LoopAssumption, LoopInv, NEW e \in Events, NEW c \in TCPCs, NEW q \in BOOLEAN,
           NEW t \in BOOLEAN, q => ~t, Free, c \in Open, e \notin Live,
           ev' = [ev EXCEPT ![e] = NewInput(c, tcpc[c].fd, q, t)],
           chain' = [chain EXCEPT ![tcpc[c].fd] = <<e>> \o @],
           tcpc' = IF q THEN [tcpc EXCEPT ![c].wbuf = TRUE] ELSE tcpc,
           UNCHANGED <<active, holder, running, failed>>
    PROVE  LoopInv'
<1> DEFINE fd == tcpc[c].fd
           y == NewInput(c, fd, q, t)
<1>1. /\ ev \in [Events -> EventRec] /\ RestType
      /\ \A x \in Events : /\ ev[x] \in EventRec /\ EventOK(ev[x], x, running)
                           /\ ev[x].removed => x = running
                           /\ InputOwned(ev[x]) /\ x # None
  BY EventFacts
<1>2. /\ running # None /\ Owed = None /\ fd # None /\ fd \in Fds /\ c # None
      /\ ev[e].type = "free" /\ running \in Events
  BY <1>1 DEF Free, Open, Live, RestType, LoopAssumption
<1>3. e # running
  BY <1>1, <1>2, NoEventOK DEF EventOK
<1>4. holder[fd] = c
  BY <1>2 DEF LoopInv, DescriptorsOK, Open
<1>5. /\ y \in EventRec /\ y.due = "no" /\ y.type = "input" /\ y.conn = c /\ y.fd = fd
      /\ y.queue = q /\ y.inserted /\ y.timeout = t /\ ~y.in_callback /\ ~y.removed
  BY <1>2 DEF NewInput, NoEvent, EventRec
<1> HIDE DEF y
<1>6. EventOK(y, e, running)
  BY <1>2, <1>3, <1>5 DEF EventOK
<1>7. ev' = [ev EXCEPT ![e] = y]
  BY DEF y
<1>8. (WorldOK(World, running))'
  <2>1. WorldOK(World, running) /\ chain' = [chain EXCEPT ![y.fd] = <<e>> \o @] /\ y.fd \in Fds
    BY <1>2, <1>5 DEF LoopInv
  <2> QED BY <1>2, <1>5, <1>6, <1>7, <2>1, NewEventOK
<1>9. ev'[e] = y /\ \A x \in Events : x # e => ev'[x] = ev[x]
  BY <1>1, <1>7
<1>10. /\ tcpc' \in [TCPCs -> [fd : Fds \cup {None}, wbuf : BOOLEAN]]
       /\ \A k \in TCPCs : tcpc'[k].fd = tcpc[k].fd /\ (k # c => tcpc'[k] = tcpc[k])
       /\ ~q => tcpc' = tcpc
  BY <1>1 DEF RestType
<1> HIDE DEF fd
<1>11. Owed' = None
  <2>1. ev'[running] = ev[running] /\ EventOK(ev[running], running, running)
    BY <1>1, <1>2, <1>3, <1>9
  <2> QED BY <1>2, <1>10, <2>1 DEF Owed, EventOK, LoopAssumption
<1>12. ASSUME NEW x \in Events PROVE InputOwned(ev[x])'
  <2>1. CASE x = e
    BY <1>4, <1>5, <1>9, <1>10, <2>1 DEF InputOwned, fd
  <2>2. CASE x # e
    <3>1. ev'[x] = ev[x] /\ InputOwned(ev[x]) /\ EventOK(ev[x], x, running)
      BY <1>1, <1>9, <2>2
    <3> QED BY <1>10, <3>1 DEF InputOwned, EventOK
  <2> QED BY <2>1, <2>2
<1>13. DescriptorsOK'
  <2>1. \A k \in TCPCs : tcpc'[k].fd # None => holder'[tcpc'[k].fd] = k
    BY <1>2, <1>10 DEF LoopInv, DescriptorsOK, Open, LoopAssumption
  <2>2. \A f \in Fds : holder'[f] # None => tcpc'[holder'[f]].fd = f
    BY <1>1, <1>10 DEF LoopInv, DescriptorsOK, RestType
  <2> QED BY <2>1, <2>2 DEF DescriptorsOK, Open
<1>14. QueuesWritten'
  <2> SUFFICES ASSUME NEW k \in TCPCs, tcpc'[k].wbuf
               PROVE  \E x \in Events : ev'[x].queue /\ ev'[x].conn = k
    BY DEF QueuesWritten
  <2>1. CASE q /\ k = c
    BY <1>5, <1>9, <2>1
  <2>2. CASE tcpc'[k] = tcpc[k]
    <3>1. PICK x \in Events : ev[x].queue /\ ev[x].conn = k
      BY <1>2, <2>2 DEF LoopInv, QueuesWritten, LoopAssumption
    <3>2. x # e
      BY <1>1, <1>2, <3>1, NoEventOK DEF EventOK
    <3> QED BY <1>9, <3>1, <3>2
  <2> QED BY <1>10, <2>1, <2>2
<1>15. \A x \in Events : ev'[x].removed => x = running
  BY <1>1, <1>5, <1>9
<1> QED BY <1>1, <1>8, <1>10, <1>12, <1>13, <1>14, <1>15 DEF LoopInv, RestType

(* InputAdd *)
LEMMA InputAddOK ==
    ASSUME LoopAssumption, LoopInv, NEW e \in Events, NEW c \in TCPCs, NEW t \in BOOLEAN,
           InputAdd(e, c, t)
    PROVE  LoopInv'
BY AddedOK DEF InputAdd

(* Write *)
LEMMA WriteOK ==
    ASSUME LoopAssumption, LoopInv, NEW e \in Events, NEW c \in TCPCs, Write(e, c)
    PROVE  LoopInv'
BY AddedOK DEF Write

(* RemoveInput *)
LEMMA RemoveInputOK ==
    ASSUME LoopAssumption, LoopInv, NEW e \in Events, RemoveInput(e)
    PROVE  LoopInv'
<1> DEFINE d == InputRemove(World, {e})
<1>1. /\ running # None /\ Owed = None /\ ev[e].type = "input" /\ ~ev[e].queue /\ ~ev[e].removed
      /\ SetWorld(d) /\ UNCHANGED <<holder, tcpc, running, failed>>
  BY DEF RemoveInput, Free
<1>2. /\ ev \in [Events -> EventRec] /\ RestType /\ WorldOK(World, running)
      /\ \A x \in Events : /\ ev[x] \in EventRec /\ EventOK(ev[x], x, running)
                           /\ ev[x].removed => x = running
                           /\ InputOwned(ev[x]) /\ x # None
  BY EventFacts DEF LoopInv
<1>3. /\ WorldOK(d, running)
      /\ \A x \in Events : d.ev[x] = IF x \in {e} THEN Removal(ev[x]) ELSE ev[x]
  <2>1. {e} \in SUBSET Events /\ World.ev = ev
    BY DEF World
  <2> QED BY <1>2, <2>1, InputRemoveOK
<1> HIDE DEF d
<1>4. (WorldOK(World, running))'
  BY <1>1, <1>3, SetWorldOK
<1>5. ev'[e] = Removal(ev[e]) /\ \A x \in Events : x # e => ev'[x] = ev[x]
  BY <1>1, <1>3 DEF SetWorld
<1>6. /\ e # running => ev'[e] = NoEvent
      /\ e = running => /\ ev'[e].removed /\ ev'[e].type = ev[e].type
                        /\ ev'[e].conn = ev[e].conn /\ ev'[e].fd = ev[e].fd
  BY <1>2, <1>5, RemovalFacts DEF EventOK
<1>7. ASSUME NEW x \in Events PROVE InputOwned(ev[x])'
  BY <1>1, <1>2, <1>5, <1>6, NoEventOK DEF InputOwned
<1>8. \A x \in Events : ev'[x].removed => x = running
  BY <1>2, <1>5, <1>6, NoEventOK
<1>9. DescriptorsOK' /\ QueuesWritten'
  <2>1. \A x \in Events : ev[x].queue => ev'[x].queue /\ ev'[x].conn = ev[x].conn
    BY <1>1, <1>5
  <2>2. /\ ev'[running].type = ev[running].type /\ ev'[running].conn = ev[running].conn
        /\ ev'[running].fd = ev[running].fd
    BY <1>1, <1>2, <1>5, <1>6 DEF RestType
  <2> QED BY <1>1, <2>1, <2>2, OwnersKept
<1> QED BY <1>1, <1>2, <1>4, <1>7, <1>8, <1>9 DEF LoopInv, RestType

(* TimerAdd *)
LEMMA TimerAddOK ==
    ASSUME LoopAssumption, LoopInv, NEW e \in Events, TimerAdd(e)
    PROVE  LoopInv'
<1>1. /\ running # None /\ Owed = None /\ ev[e].type = "free" /\ ev' = [ev EXCEPT ![e] = NewTimer]
      /\ UNCHANGED <<chain, active, holder, tcpc, running, failed>>
  BY DEF TimerAdd, Free, Live
<1>2. /\ ev \in [Events -> EventRec] /\ RestType /\ WorldOK(World, running)
      /\ \A x \in Events : /\ ev[x] \in EventRec /\ EventOK(ev[x], x, running)
                           /\ ev[x].removed => x = running
                           /\ InputOwned(ev[x]) /\ x # None
  BY EventFacts DEF LoopInv
<1>3. /\ NewTimer \in EventRec /\ NewTimer.fd = None /\ NewTimer.due = "no"
      /\ NewTimer.type = "timer" /\ ~NewTimer.queue /\ ~NewTimer.inserted
      /\ ~NewTimer.removed /\ ~NewTimer.in_callback
  BY DEF NewTimer, NoEvent, EventRec
<1>4. e # running /\ ~ev[e].queue
  BY <1>1, <1>2, NoEventOK DEF EventOK
<1>5. EventOK(NewTimer, e, running)
  BY <1>3, <1>4 DEF EventOK
<1>6. (WorldOK(World, running))'
  BY <1>1, <1>2, <1>3, <1>5, NewEventOK
<1>7. ev'[e] = NewTimer /\ \A x \in Events : x # e => ev'[x] = ev[x]
  BY <1>1, <1>2
<1>8. ASSUME NEW x \in Events PROVE InputOwned(ev[x])'
  BY <1>1, <1>2, <1>3, <1>7 DEF InputOwned
<1>9. DescriptorsOK' /\ QueuesWritten'
  <2>1. \A x \in Events : ev[x].queue => ev'[x].queue /\ ev'[x].conn = ev[x].conn
    BY <1>4, <1>7
  <2>2. ev'[running] = ev[running]
    BY <1>1, <1>2, <1>4, <1>7 DEF RestType
  <2> QED BY <1>1, <2>1, <2>2, OwnersKept
<1>10. \A x \in Events : ev'[x].removed => x = running
  BY <1>2, <1>3, <1>7
<1> QED BY <1>1, <1>2, <1>6, <1>8, <1>9, <1>10 DEF LoopInv, RestType

(* RemoveTimer *)
LEMMA RemoveTimerOK ==
    ASSUME LoopAssumption, LoopInv, NEW e \in Events, RemoveTimer(e)
    PROVE  LoopInv'
<1> DEFINE d == TimerRemove(World, e)
<1>1. /\ running # None /\ Owed = None /\ ev[e].type = "timer"
      /\ SetWorld(d) /\ UNCHANGED <<holder, tcpc, running, failed>>
  BY DEF RemoveTimer, Free
<1>2. /\ ev \in [Events -> EventRec] /\ RestType /\ WorldOK(World, running) /\ World.ev = ev
      /\ \A x \in Events : /\ ev[x] \in EventRec /\ EventOK(ev[x], x, running)
                           /\ ev[x].removed => x = running
                           /\ InputOwned(ev[x]) /\ x # None
  BY EventFacts DEF LoopInv, World
<1>3. /\ WorldOK(d, running)
      /\ \A x \in Events : x # e => d.ev[x] = ev[x]
      /\ ~ev[e].in_callback => d.ev[e] = NoEvent
      /\ ev[e].in_callback => d.ev[e] = Marked(ev[e])
  BY <1>1, <1>2, TimerRemoveOK
<1> HIDE DEF d
<1>4. (WorldOK(World, running))'
  BY <1>1, <1>3, SetWorldOK
<1>5. /\ Marked(ev[e]).type = "timer" /\ Marked(ev[e]).conn = ev[e].conn
      /\ Marked(ev[e]).fd = ev[e].fd
  <2>1. ev[e] \in EventRec
    BY <1>2
  <2> QED BY <1>1, <2>1 DEF Marked, EventRec
<1>6. /\ \A x \in Events : x # e => ev'[x] = ev[x]
      /\ e # running => ev'[e] = NoEvent
      /\ e = running => ev'[e] = Marked(ev[e])
  BY <1>1, <1>2, <1>3 DEF SetWorld, EventOK
<1>7. ASSUME NEW x \in Events PROVE InputOwned(ev[x])'
  BY <1>1, <1>2, <1>5, <1>6, NoEventOK DEF InputOwned
<1>8. DescriptorsOK' /\ QueuesWritten'
  <2>1. \A x \in Events : ev[x].queue => ev'[x].queue /\ ev'[x].conn = ev[x].conn
    BY <1>1, <1>2, <1>6 DEF EventOK
  <2>2. /\ ev'[running].type = ev[running].type /\ ev'[running].conn = ev[running].conn
        /\ ev'[running].fd = ev[running].fd
    BY <1>1, <1>2, <1>5, <1>6 DEF RestType
  <2> QED BY <1>1, <2>1, <2>2, OwnersKept
<1>9. \A x \in Events : ev'[x].removed => x = running
  BY <1>2, <1>6, NoEventOK
<1> QED BY <1>1, <1>2, <1>4, <1>7, <1>8, <1>9 DEF LoopInv, RestType

(* WriteQueue *)
LEMMA WriteQueueOK ==
    ASSUME LoopAssumption, LoopInv, NEW e \in Events, WriteQueue(e)
    PROVE  LoopInv'
<1> DEFINE t == Taken(e)
           d == InputRemove(t, {e})
           k == ev[e].conn
<1>1. /\ Due(e) /\ ev[e].due = "io" /\ ev[e].queue /\ running = None
      /\ UNCHANGED <<holder, running, failed>>
      /\ \/ SetWorld(d) /\ tcpc' = [tcpc EXCEPT ![k].wbuf = FALSE]
         \/ SetWorld(t) /\ UNCHANGED tcpc
  BY DEF WriteQueue, Due
<1>2. /\ ev \in [Events -> EventRec] /\ RestType /\ WorldOK(World, running)
      /\ \A x \in Events : /\ ev[x] \in EventRec /\ EventOK(ev[x], x, running)
                           /\ ev[x].removed => x = running
                           /\ InputOwned(ev[x]) /\ x # None
  BY EventFacts DEF LoopInv
<1>3. Owed = None
  BY <1>1, OwedFacts
<1>4. /\ WorldOK(t, None)
      /\ \A x \in Events : x # e => t.ev[x] = ev[x]
      /\ t.ev[e] = NotDue(ev[e])
  BY <1>1, <1>2, TakenOK
<1>5. /\ WorldOK(d, None)
      /\ \A x \in Events : d.ev[x] = IF x \in {e} THEN Removal(t.ev[x]) ELSE t.ev[x]
  <2>1. {e} \in SUBSET Events
    OBVIOUS
  <2> HIDE DEF t
  <2> QED BY <1>4, <2>1, InputRemoveOK
<1>6. /\ NotDue(ev[e]) \in EventRec /\ ~NotDue(ev[e]).in_callback /\ ~NotDue(ev[e]).removed
      /\ NotDue(ev[e]).conn = ev[e].conn /\ NotDue(ev[e]).fd = ev[e].fd
      /\ NotDue(ev[e]).queue /\ NotDue(ev[e]).inserted = ev[e].inserted
      /\ NotDue(ev[e]).type = ev[e].type
  <2>1. ev[e] \in EventRec /\ ~ev[e].in_callback /\ ~ev[e].removed
    BY <1>1, <1>2 DEF EventOK, EventRec
  <2> QED BY <1>1, <2>1 DEF NotDue, EventRec
<1> HIDE DEF d, t
<1>7. CASE SetWorld(d) /\ tcpc' = [tcpc EXCEPT ![k].wbuf = FALSE]
  <2>1. ev'[e] = NoEvent /\ \A x \in Events : x # e => ev'[x] = ev[x]
    BY <1>4, <1>5, <1>6, <1>7, RemovalFacts DEF SetWorld
  <2>2. (WorldOK(World, running))'
    BY <1>1, <1>5, <1>7, SetWorldOK
  <2>3. /\ tcpc' \in [TCPCs -> [fd : Fds \cup {None}, wbuf : BOOLEAN]]
        /\ \A c \in TCPCs : tcpc'[c].fd = tcpc[c].fd /\ (c # k => tcpc'[c] = tcpc[c])
        /\ k \in TCPCs => ~tcpc'[k].wbuf
    BY <1>2, <1>7 DEF RestType
  <2>4. Owed' = None
    BY <1>1 DEF Owed
  <2>5. ASSUME NEW x \in Events PROVE InputOwned(ev[x])'
    <3>1. CASE x = e
      BY <2>1, <3>1, NoEventOK DEF InputOwned
    <3>2. CASE x # e
      <4>1. ev'[x] = ev[x] /\ InputOwned(ev[x]) /\ EventOK(ev[x], x, running)
        BY <1>2, <2>1, <3>2
      <4> QED BY <1>1, <2>3, <4>1 DEF InputOwned, EventOK
    <3> QED BY <3>1, <3>2
  <2>6. DescriptorsOK'
    <3>1. \A c \in TCPCs : tcpc'[c].fd # None => holder'[tcpc'[c].fd] = c
      BY <1>1, <1>3, <2>3 DEF LoopInv, DescriptorsOK, Open, LoopAssumption
    <3>2. \A f \in Fds : holder'[f] # None => tcpc'[holder'[f]].fd = f
      BY <1>1, <1>2, <2>3 DEF LoopInv, DescriptorsOK, RestType
    <3> QED BY <3>1, <3>2 DEF DescriptorsOK, Open
  <2>7. QueuesWritten'
    <3> SUFFICES ASSUME NEW c \in TCPCs, tcpc'[c].wbuf
                 PROVE  \E x \in Events : ev'[x].queue /\ ev'[x].conn = c
      BY DEF QueuesWritten
    <3>1. c # k /\ tcpc[c].wbuf /\ c # Owed
      BY <1>3, <2>3 DEF LoopAssumption
    <3>2. PICK x \in Events : ev[x].queue /\ ev[x].conn = c
      BY <3>1 DEF LoopInv, QueuesWritten
    <3> QED BY <2>1, <3>1, <3>2
  <2>8. \A x \in Events : ev'[x].removed => x = running
    BY <1>2, <2>1, NoEventOK
  <2> QED BY <1>1, <1>2, <2>2, <2>3, <2>5, <2>6, <2>7, <2>8 DEF LoopInv, RestType
<1>8. CASE SetWorld(t) /\ UNCHANGED tcpc
  <2>1. ev'[e] = NotDue(ev[e]) /\ \A x \in Events : x # e => ev'[x] = ev[x]
    BY <1>4, <1>8 DEF SetWorld
  <2>2. (WorldOK(World, running))'
    BY <1>1, <1>4, <1>8, SetWorldOK
  <2>3. ASSUME NEW x \in Events PROVE InputOwned(ev[x])'
    BY <1>1, <1>2, <1>6, <1>8, <2>1 DEF InputOwned
  <2>4. DescriptorsOK' /\ QueuesWritten'
    <3>1. \A x \in Events : ev[x].queue => ev'[x].queue /\ ev'[x].conn = ev[x].conn
      BY <1>6, <2>1
    <3> QED BY <1>1, <1>3, <1>8, <3>1, OwnersKept
  <2>5. \A x \in Events : ev'[x].removed => x = running
    BY <1>2, <1>6, <2>1
  <2> QED BY <1>1, <1>2, <1>8, <2>2, <2>3, <2>4, <2>5 DEF LoopInv, RestType
<1> QED BY <1>1, <1>7, <1>8

(* The callback returned. *)
Returned(x) == [x EXCEPT !.in_callback = FALSE]

LEMMA DoneOK ==
    ASSUME LoopAssumption, LoopInv, running # None, NEW d, d = Done(running)
    PROVE  /\ WorldOK(d, None)
           /\ \A x \in Events : x # running => d.ev[x] = ev[x]
           /\ d.ev[running] = Returned(ev[running])
           /\ d.chain = chain /\ d.active = active
<1> DEFINE y == Returned(ev[running])
<1>1. /\ ev \in [Events -> EventRec] /\ WorldOK(World, running) /\ running \in Events
      /\ World.ev = ev /\ World.chain = chain /\ World.active = active
      /\ \A x \in Events : ev[x] \in EventRec /\ EventOK(ev[x], x, running) /\ x # None
  BY EventFacts DEF LoopInv, RestType, World
<1>2. d.ev = [ev EXCEPT ![running] = y] /\ d.chain = chain /\ d.active = active
  BY DEF Done, World, Returned
<1>3. /\ y \in EventRec /\ ~y.in_callback /\ y.due = ev[running].due /\ y.fd = ev[running].fd
      /\ y.type = ev[running].type /\ y.conn = ev[running].conn /\ y.queue = ev[running].queue
      /\ y.inserted = ev[running].inserted /\ y.timeout = ev[running].timeout
  <2>1. ev[running] \in EventRec
    BY <1>1
  <2> QED BY <2>1 DEF Returned, EventRec
<1> HIDE DEF y
<1>4. EventOK(y, running, None)
  <2>1. ev[running].in_callback /\ EventOK(ev[running], running, running)
    BY <1>1 DEF EventOK
  <2>2. ev[running].type # "free"
    BY <2>1, NoEventOK DEF EventOK
  <2> QED BY <1>1, <1>3, <2>1, <2>2 DEF EventOK
<1>5. \A x \in Events : x # running => EventOK(ev[x], x, None)
  <2> SUFFICES ASSUME NEW x \in Events, x # running PROVE EventOK(ev[x], x, None)
    OBVIOUS
  <2>1. EventOK(ev[x], x, running) /\ x # None
    BY <1>1
  <2> QED BY <2>1 DEF EventOK
<1>6. /\ d.ev \in [Events -> EventRec] /\ d.ev[running] = y
      /\ \A x \in Events : x # running => d.ev[x] = ev[x]
  BY <1>1, <1>2, <1>3
<1>7. WorldOK(d, None)
  <2>1. /\ y.fd = World.ev[running].fd /\ y.due = World.ev[running].due
        /\ \A x \in Events : x # running => EventOK(World.ev[x], x, None) /\ d.ev[x] = World.ev[x]
        /\ d.chain = World.chain /\ d.active = World.active
    BY <1>1, <1>2, <1>3, <1>5, <1>6
  <2> QED BY <1>1, <1>3, <1>4, <1>6, <2>1, EventFlagsOK
<1> QED BY <1>2, <1>6, <1>7 DEF y

(* A return to the loop: the event that ran is free, or it goes on as it was
   but for its timeout, which is not changed if it is the input of a write
   queue. *)
LEMMA ReturnOK ==
    ASSUME LoopAssumption, LoopInv, Free, running' = None, UNCHANGED <<holder, tcpc>>,
           failed' \in {"no", "reset", "full"}, NEW d, WorldOK(d, None), SetWorld(d),
           \A x \in Events : x # running => ev'[x] = ev[x],
           \/ ev'[running] = NoEvent
           \/ /\ ~ev[running].removed /\ ~ev'[running].removed
              /\ ev'[running].type = ev[running].type /\ ev'[running].conn = ev[running].conn
              /\ ev'[running].fd = ev[running].fd /\ ev'[running].inserted = ev[running].inserted
              /\ ev'[running].due = ev[running].due
    PROVE  LoopInv'
<1>1. /\ running # None /\ Owed = None /\ running \in Events /\ RestType
      /\ \A x \in Events : /\ EventOK(ev[x], x, running) /\ InputOwned(ev[x]) /\ x # None
                           /\ ev[x].removed => x = running
  BY EventFacts DEF Free, RestType
<1>2. ~ev[running].queue
  BY <1>1 DEF EventOK
<1>3. (WorldOK(World, running))'
  BY SetWorldOK
<1>4. ASSUME NEW x \in Events PROVE InputOwned(ev[x])'
  BY <1>1, NoEventOK DEF InputOwned
<1>5. \A x \in Events : ev'[x].removed => x = running'
  BY <1>1, NoEventOK
<1>6. DescriptorsOK' /\ QueuesWritten'
  <2>1. \A x \in Events : ev[x].queue => ev'[x].queue /\ ev'[x].conn = ev[x].conn
    BY <1>2
  <2> QED BY <1>1, <2>1, OwnersKept
<1> QED BY <1>1, <1>3, <1>4, <1>5, <1>6 DEF LoopInv, RestType

(* ReturnTimer *)
LEMMA ReturnTimerOK ==
    ASSUME LoopAssumption, LoopInv, NEW again \in BOOLEAN, ReturnTimer(again)
    PROVE  LoopInv'
<1> DEFINE t == Done(running)
           a == [t EXCEPT !.ev[running].timeout = TRUE]
           b == TimerRemove(t, running)
           x == ev[running]
<1>1. /\ Free /\ running # None /\ x.type = "timer" /\ running' = None /\ UNCHANGED <<holder, tcpc>>
      /\ failed' = IF again /\ x.removed THEN "reset" ELSE failed
      /\ SetWorld(IF again /\ ~x.removed THEN a ELSE b)
  BY DEF ReturnTimer, Free
<1>2. /\ ev \in [Events -> EventRec] /\ running \in Events /\ x \in EventRec
      /\ EventOK(x, running, running) /\ failed \in {"no", "reset", "full"} /\ running # None
  BY <1>1, EventFacts DEF RestType
<1>3. /\ WorldOK(t, None)
      /\ \A y \in Events : y # running => t.ev[y] = ev[y]
      /\ t.ev[running] = Returned(x)
      /\ t.chain = chain /\ t.active = active
  BY <1>1, DoneOK
<1>4. /\ Returned(x) \in EventRec /\ Returned(x).type = "timer" /\ ~Returned(x).in_callback
      /\ Returned(x).removed = x.removed
  BY <1>1, <1>2 DEF Returned, EventRec
<1>5. CASE again /\ ~x.removed
  <2> DEFINE z == [Returned(x) EXCEPT !.timeout = TRUE]
  <2>1. /\ z \in EventRec /\ ~z.in_callback /\ z.due = x.due /\ z.fd = x.fd
        /\ z.type = x.type /\ z.conn = x.conn /\ z.queue = x.queue
        /\ z.inserted = x.inserted /\ z.removed = x.removed
        /\ Returned(x).fd = x.fd /\ Returned(x).due = x.due
    BY <1>2 DEF Returned, EventRec
  <2>2. a.ev = [t.ev EXCEPT ![running] = z] /\ a.chain = t.chain /\ a.active = t.active
    BY <1>2, <1>3 DEF Done, World
  <2> HIDE DEF a, t, z
  <2>3. EventOK(z, running, None)
    BY <1>1, <1>2, <2>1 DEF EventOK
  <2>4. /\ a.ev \in [Events -> EventRec] /\ a.ev[running] = z
        /\ \A y \in Events : y # running => a.ev[y] = t.ev[y]
    <3>1. t.ev \in [Events -> EventRec]
      BY <1>3 DEF WorldOK, WorldType
    <3> QED BY <1>2, <2>1, <2>2, <3>1
  <2>5. \A y \in Events : EventOK(t.ev[y], y, None)
    BY <1>3 DEF WorldOK
  <2>6. z.fd = t.ev[running].fd /\ z.due = t.ev[running].due
    BY <1>3, <2>1
  <2>7. WorldOK(a, None)
    <3>1. WorldOK(t, None) /\ z \in EventRec /\ a.chain = t.chain /\ a.active = t.active
      BY <1>3, <2>1, <2>2
    <3> QED BY <1>2, <2>3, <2>4, <2>5, <2>6, <3>1, EventFlagsOK
  <2>8. SetWorld(a) /\ failed' = failed
    BY <1>1, <1>5
  <2>9. ev' = a.ev
    BY <2>8 DEF SetWorld
  <2> QED BY <1>1, <1>2, <1>3, <1>5, <2>1, <2>4, <2>7, <2>8, <2>9, ReturnOK
<1>6. CASE ~(again /\ ~x.removed)
  <2> HIDE DEF t
  <2>1. /\ WorldOK(b, None)
        /\ \A y \in Events : y # running => b.ev[y] = t.ev[y]
        /\ b.ev[running] = NoEvent
    BY <1>2, <1>3, <1>4, TimerRemoveOK
  <2>2. SetWorld(b) /\ failed' \in {"no", "reset", "full"}
    BY <1>1, <1>2, <1>6
  <2> HIDE DEF b
  <2>3. ev' = b.ev
    BY <2>2 DEF SetWorld
  <2> QED BY <1>1, <1>2, <1>3, <2>1, <2>2, <2>3, ReturnOK
<1> QED BY <1>5, <1>6

(* ReturnInput *)
LEMMA ReturnInputOK ==
    ASSUME LoopAssumption, LoopInv, ReturnInput
    PROVE  LoopInv'
<1> DEFINE t == Done(running)
           a == [t EXCEPT !.ev[running].timeout = FALSE, !.ev[running].validate = FALSE]
           b == InputRemove(t, {running})
           x == ev[running]
<1>1. /\ Free /\ running # None /\ x.type = "input" /\ running' = None
      /\ UNCHANGED <<holder, tcpc, failed>>
      /\ SetWorld(IF x.removed THEN b ELSE a)
  BY DEF ReturnInput, Free
<1>2. /\ ev \in [Events -> EventRec] /\ running \in Events /\ x \in EventRec
      /\ EventOK(x, running, running) /\ failed \in {"no", "reset", "full"} /\ running # None
  BY <1>1, EventFacts DEF RestType
<1>3. /\ WorldOK(t, None)
      /\ \A y \in Events : y # running => t.ev[y] = ev[y]
      /\ t.ev[running] = Returned(x)
      /\ t.chain = chain /\ t.active = active
  BY <1>1, DoneOK
<1>4. /\ Returned(x) \in EventRec /\ ~Returned(x).in_callback
  BY <1>2 DEF Returned, EventRec
<1>5. CASE ~x.removed
  <2> DEFINE z == [Returned(x) EXCEPT !.timeout = FALSE, !.validate = FALSE]
  <2>1. /\ z \in EventRec /\ ~z.in_callback /\ z.due = x.due /\ z.fd = x.fd
        /\ z.type = x.type /\ z.conn = x.conn /\ z.queue = x.queue /\ ~z.timeout
        /\ z.inserted = x.inserted /\ z.removed = x.removed
        /\ Returned(x).fd = x.fd /\ Returned(x).due = x.due
    BY <1>2 DEF Returned, EventRec
  <2>2. a.ev = [t.ev EXCEPT ![running] = z] /\ a.chain = t.chain /\ a.active = t.active
    BY <1>2, <1>3 DEF Done, World
  <2> HIDE DEF a, t, z
  <2>3. EventOK(z, running, None)
    BY <1>1, <1>2, <2>1 DEF EventOK
  <2>4. /\ a.ev \in [Events -> EventRec] /\ a.ev[running] = z
        /\ \A y \in Events : y # running => a.ev[y] = t.ev[y]
    <3>1. t.ev \in [Events -> EventRec]
      BY <1>3 DEF WorldOK, WorldType
    <3> QED BY <1>2, <2>1, <2>2, <3>1
  <2>5. \A y \in Events : EventOK(t.ev[y], y, None)
    BY <1>3 DEF WorldOK
  <2>6. z.fd = t.ev[running].fd /\ z.due = t.ev[running].due
    BY <1>3, <2>1
  <2>7. WorldOK(a, None)
    <3>1. WorldOK(t, None) /\ z \in EventRec /\ a.chain = t.chain /\ a.active = t.active
      BY <1>3, <2>1, <2>2
    <3> QED BY <1>2, <2>3, <2>4, <2>5, <2>6, <3>1, EventFlagsOK
  <2>8. SetWorld(a)
    BY <1>1, <1>5
  <2>9. ev' = a.ev
    BY <2>8 DEF SetWorld
  <2> QED BY <1>1, <1>2, <1>3, <1>5, <2>1, <2>4, <2>7, <2>8, <2>9, ReturnOK
<1>6. CASE x.removed
  <2> HIDE DEF t
  <2>1. {running} \in SUBSET Events
    BY <1>2
  <2>2. /\ WorldOK(b, None)
        /\ \A y \in Events : b.ev[y] = IF y \in {running} THEN Removal(t.ev[y]) ELSE t.ev[y]
    BY <1>3, <2>1, InputRemoveOK
  <2>3. SetWorld(b)
    BY <1>1, <1>6
  <2> HIDE DEF b
  <2>4. ev' = b.ev
    BY <2>3 DEF SetWorld
  <2>5. b.ev[running] = NoEvent
    BY <1>2, <1>3, <1>4, <2>2, RemovalFacts
  <2> QED BY <1>1, <1>2, <1>3, <2>2, <2>3, <2>4, <2>5, ReturnOK
<1> QED BY <1>5, <1>6

-----------------------------------------------------------------------------
(* The invariant of the loop holds from the start and every step keeps it. *)
THEOREM LoopInductive == ASSUME LoopAssumption PROVE LoopSpec => []LoopInv
<1>1. LoopInit => LoopInv
  <2> SUFFICES ASSUME LoopInit PROVE LoopInv
    OBVIOUS
  <2>1. NewTimer \in EventRec /\ NewTimer.fd = None /\ NewTimer.due = "no" /\ ~NewTimer.queue
        /\ ~NewTimer.in_callback /\ NewTimer.type = "timer" /\ ~NewTimer.inserted /\ ~NewTimer.removed
    BY DEF NewTimer, NoEvent, EventRec
  <2>2. <<>> \in Seq(Events) /\ IsInjective(<<>>) /\ ToSet(<<>>) = {}
    BY DEF IsInjective, ToSet
  <2>3. \A e \in Events : ev[e] = NewTimer \/ ev[e] = NoEvent
    BY DEF LoopInit
  <2>4. running = None /\ \A e \in Events : e # None
    BY DEF LoopInit, LoopAssumption
  <2>5. WorldOK(World, running)
    <3>1. WorldType(World)
      BY <2>1, <2>2, NoEventOK DEF WorldType, World, LoopInit
    <3>2. ListsOK(World)
      BY <2>1, <2>2, <2>3, NoEventOK DEF ListsOK, World, LoopInit, LoopAssumption
    <3>3. \A e \in Events : EventOK(ev[e], e, running)
      BY <2>1, <2>3, <2>4, NoEventOK DEF EventOK
    <3> QED BY <3>1, <3>2, <3>3 DEF WorldOK, World
  <2>6. RestType
    BY DEF RestType, LoopInit, NoConn
  <2>7. \A e \in Events : ~ev[e].removed /\ ev[e].type # "input"
    BY <2>1, <2>3, NoEventOK
  <2>8. DescriptorsOK /\ QueuesWritten
    BY DEF DescriptorsOK, QueuesWritten, Open, LoopInit, NoConn
  <2> QED BY <2>5, <2>6, <2>7, <2>8 DEF LoopInv, InputOwned
<1>2. LoopInv /\ [LoopNext]_loopVars => LoopInv'
  <2> SUFFICES ASSUME LoopInv, [LoopNext]_loopVars PROVE LoopInv'
    OBVIOUS
  <2>1. CASE UNCHANGED loopVars
    BY <2>1 DEF loopVars, LoopInv, WorldOK, WorldType, ListsOK, World, RestType, InputOwned,
                DescriptorsOK, QueuesWritten, Open, Owed
  <2>2. CASE Poll
    BY <2>2, PollOK
  <2>3. ASSUME NEW e \in Events, CallTimer(e) \/ CallInput(e) PROVE LoopInv'
    BY <2>3, CallOK
  <2>4. ASSUME NEW e \in Events, CallTimeout(e) PROVE LoopInv'
    BY <2>4, CallTimeoutOK
  <2>5. ASSUME NEW e \in Events, WriteQueue(e) PROVE LoopInv'
    BY <2>5, WriteQueueOK
  <2>6. ASSUME NEW e \in Events, RemoveInput(e) PROVE LoopInv'
    BY <2>6, RemoveInputOK
  <2>7. ASSUME NEW e \in Events, TimerAdd(e) PROVE LoopInv'
    BY <2>7, TimerAddOK
  <2>8. ASSUME NEW e \in Events, RemoveTimer(e) PROVE LoopInv'
    BY <2>8, RemoveTimerOK
  <2>9. ASSUME NEW e \in Events, NEW c \in TCPCs, Write(e, c) PROVE LoopInv'
    BY <2>9, WriteOK
  <2>10. ASSUME NEW e \in Events, NEW c \in TCPCs, NEW t \in BOOLEAN, InputAdd(e, c, t)
         PROVE  LoopInv'
    BY <2>10, InputAddOK
  <2>11. ASSUME NEW c \in TCPCs, CloseConn(c) PROVE LoopInv'
    BY <2>11, CloseConnOK
  <2>12. ASSUME NEW c \in TCPCs, NEW fd \in Fds, OpenConn(c, fd) PROVE LoopInv'
    BY <2>12, OpenConnOK
  <2>13. ASSUME NEW again \in BOOLEAN, ReturnTimer(again) PROVE LoopInv'
    BY <2>13, ReturnTimerOK
  <2>14. CASE ReturnInput
    BY <2>14, ReturnInputOK
  <2>15. ASSUME NEW c \in TCPCs, InputAddFails(c) PROVE LoopInv'
    BY <2>15 DEF InputAddFails, LoopInv, WorldOK, WorldType, ListsOK, World, RestType,
                 InputOwned, DescriptorsOK, QueuesWritten, Open, Owed
  <2> QED BY <2>1, <2>2, <2>3, <2>4, <2>5, <2>6, <2>7, <2>8, <2>9, <2>10, <2>11, <2>12,
             <2>13, <2>14, <2>15 DEF LoopNext
<1> QED BY <1>1, <1>2, PTL DEF LoopSpec

(* For any events, connections and descriptors: no queue or table of the loop
   refers to an event that was freed, and none is freed while its callback runs
   or forgotten after it (as_event.c). *)
THEOREM QueuesSafe == ASSUME LoopAssumption PROVE LoopSpec => []QueuesLive
<1>1. LoopInv => QueuesLive
  <2> SUFFICES ASSUME LoopInv PROVE QueuesLive
    OBVIOUS
  <2>1. LoopTypeOK
    BY DEF LoopInv, WorldOK, WorldType, World, RestType, LoopTypeOK, EventRec
  <2>2. /\ \A f \in Fds : /\ IsInjective(chain[f])
                           /\ ToSet(chain[f]) = {e \in Events : ev[e].fd = f}
        /\ IsInjective(active)
        /\ ToSet(active) = {e \in Events : ev[e].due # "no"}
    BY DEF LoopInv, WorldOK, ListsOK, World
  <2>3. \A e \in Events : ev[e].type = "free" => ev[e].fd = None /\ ev[e].due = "no"
    BY EventFacts, NoEventOK DEF EventOK
  <2>4. \A e \in Events : (ev[e].in_callback <=> e = running) /\ (ev[e].removed => e = running)
    BY EventFacts DEF EventOK
  <2> QED BY <2>1, <2>2, <2>3, <2>4 DEF QueuesLive, Live, LoopAssumption
<1> QED BY <1>1, LoopInductive, PTL

(* For any events, connections and descriptors: an owner is never called for a
   connection it closed, data in a write queue has an input that will write it,
   and no close hits the descriptor of another connection (as_tcp.c,
   as_event.c). *)
THEOREM OwnersSafe == ASSUME LoopAssumption PROVE LoopSpec => []OwnersCalled
<1>1. LoopInv => OwnersCalled
  <2> SUFFICES ASSUME LoopInv PROVE OwnersCalled
    OBVIOUS
  <2>1. \A e \in Events : ev[e].queue => e \in Live
    BY EventFacts, NoEventOK DEF EventOK, Live
  <2>2. \A e \in Events : InputOwned(ev[e])
    BY EventFacts
  <2>3. QueuesWritten /\ failed # "stray"
    BY DEF LoopInv, RestType
  <2> QED BY <2>1, <2>2, <2>3 DEF OwnersCalled, InputOwned, QueuesWritten, Live
<1> QED BY <1>1, LoopInductive, PTL
=============================================================================
