------------------------------ MODULE HashTable -------------------------------
(* The hash table (as_hashtable.c) that holds the event loop's inputs, pushes,
   searches, nodes, shares and downloads.

   A bucket is the set of its entries: their order is turned round whenever the
   table grows, and the first entry with the key is the only one. *)
EXTENDS Integers, FiniteSets, Sequences

CONSTANTS
    Keys, Values,
    NoValue,        \* the null pointer
    HashOf,         \* Keys -> what the hash function makes of them
    Primes          \* the sizes a table can have, smallest first

ASSUME TableAssumption ==
    /\ NoValue \notin Values
    /\ HashOf \in [Keys -> Nat]
    /\ Primes \in Seq(Nat \ {0}) /\ Primes # <<>>

VARIABLES
    table,          \* 0 .. tablelength - 1 -> set of entries
    count,          \* entrycount
    primeindex,     \* which of Primes the length is
    damaged         \* memory that is not the table's was overwritten

tableVars == <<table, count, primeindex, damaged>>

Entry == [key : Keys, val : Values]

(* indexFor *)
IndexFor(n, k) == HashOf[k] % n

tablelength == Primes[primeindex]

(* ceil (tablelength * 0.65) *)
LoadLimit(n) == (n * 65 + 99) \div 100

Entries(t) == UNION {t[i] : i \in DOMAIN t}

(* The entries a search for the key in a table of n buckets comes across *)
Found(t, n, k) == {e \in t[IndexFor(n, k)] : e.key = k}

(* hashtable_search *)
Search(t, n, k) ==
    IF Found(t, n, k) = {} THEN NoValue
    ELSE (CHOOSE e \in Found(t, n, k) : TRUE).val

-----------------------------------------------------------------------------
(* Mutant of Expand: entries stay in the buckets they are in. *)
ExpandInPlace(t, n) ==
    [i \in 0 .. n - 1 |-> IF i \in DOMAIN t THEN t[i] ELSE {}]

(* hashtable_expand, for n buckets *)
Expand(t, n) ==
    [i \in 0 .. n - 1 |-> {e \in Entries(t) : IndexFor(n, e.key) = i}]

(* hashtable_insert of an entry into table t of n buckets.  An entry with its
   key is used again and the count, which was already higher, drops. *)
Store(t, n, k, v) ==
    LET i == IndexFor(n, k)
    IN  /\ table' = [t EXCEPT ![i] = (@ \ Found(t, n, k)) \cup {[key |-> k, val |-> v]}]
        /\ count' = IF Found(t, n, k) = {} THEN count + 1 ELSE count

Full == count + 1 > LoadLimit(tablelength)

(* as_hashtable_insert while the table is large enough, cannot grow, or finds
   no memory to do so *)
TableInsert(k, v) ==
    /\ ~damaged
    /\ Store(table, tablelength, k, v)
    /\ UNCHANGED <<primeindex, damaged>>

(* It grows, also for a key that is there already. *)
InsertGrows(k, v) ==
    /\ ~damaged /\ Full /\ primeindex < Len(Primes)
    /\ LET n == Primes[primeindex + 1] IN Store(Expand(table, n), n, k, v)
    /\ primeindex' = primeindex + 1
    /\ UNCHANGED damaged

(* Only realloc finds memory.  What is cleared then is not the new part of the
   table, but whatever its first, unset pointer points to: the new buckets go on
   with what lay in that memory (one entry, the bound, or none), and something
   else is overwritten.  What the program does from then on is not followed. *)
Strays == {{}} \cup {{e} : e \in Entry}

Uncleared(t, n, stray) ==
    [i \in DOMAIN t |-> IF i < n THEN t[i] ELSE t[i] \cup stray]

InsertReallocs(k, v) ==
    /\ ~damaged /\ Full /\ primeindex < Len(Primes)
    /\ \E stray \in Strays :
          LET n == Primes[primeindex + 1]
          IN  Store(Uncleared(Expand(table, n), tablelength, stray), n, k, v)
    /\ primeindex' = primeindex + 1
    /\ damaged' = TRUE

(* as_hashtable_remove *)
TableRemove(k) ==
    LET f == Found(table, tablelength, k) IN
    /\ ~damaged
    /\ table' = [table EXCEPT ![IndexFor(tablelength, k)] = @ \ f]
    /\ count' = IF f = {} THEN count ELSE count - 1
    /\ UNCHANGED <<primeindex, damaged>>

(* as_hashtable_foreach with a function that is TRUE for the keys of S *)
TableForeach(S) ==
    LET gone == {e \in Entries(table) : e.key \in S} IN
    /\ ~damaged /\ count # 0
    /\ table' = [i \in DOMAIN table |-> table[i] \ gone]
    /\ count' = count - Cardinality(gone)
    /\ UNCHANGED <<primeindex, damaged>>

(* hashtable_new *)
TableInit ==
    /\ primeindex = 1
    /\ table = [i \in 0 .. Primes[1] - 1 |-> {}]
    /\ count = 0
    /\ damaged = FALSE

TableNext ==
    \/ \E k \in Keys : \/ TableRemove(k)
                       \/ \E v \in Values : \/ TableInsert(k, v)
                                            \/ InsertGrows(k, v)
                                            \/ InsertReallocs(k, v)
    \/ \E S \in SUBSET Keys : TableForeach(S)

TableSpec == TableInit /\ [][TableNext]_tableVars

-----------------------------------------------------------------------------
(* Each entry is where a search for its key looks, there is one for a key, and
   the count is exact: what an insertion, a removal and growing preserve, until
   the table is damaged. *)
TableConsistent ==
    /\ primeindex \in 1 .. Len(Primes) /\ count \in Nat /\ damaged \in BOOLEAN
    /\ table \in [0 .. tablelength - 1 -> SUBSET Entry]
    /\ ~damaged =>
          /\ \A i \in DOMAIN table : \A e \in table[i] : IndexFor(tablelength, e.key) = i
          /\ \A e, f \in Entries(table) : e.key = f.key => e = f
          /\ count = Cardinality(Entries(table))

(* as_hashtable.h: whatever the hash function, and whether the table grows, is
   too large to grow or finds no memory to, it behaves like a map of which
   as_hashtable_size tells the size.  The one exception is the step in which
   malloc finds no memory for a larger table and realloc does
   (as_hashtable.c:193-215): it damages the table, and nothing is said of what
   comes then. *)
Contents == [k \in Keys |-> Search(table, tablelength, k)]
M == INSTANCE Map WITH m <- Contents, size <- count
ImplementsMap == M!MapInit /\ [][M!MapNext \/ damaged']_<<Contents, count>>
=============================================================================
