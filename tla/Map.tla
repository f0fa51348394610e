--------------------------------- MODULE Map ----------------------------------
(* What as_hashtable.h promises of a hash table: a value for each key, and the
   number of keys that have one. *)
EXTENDS FiniteSets

CONSTANTS Keys, Values, NoValue

VARIABLES m, size

Stored(f) == {k \in Keys : f[k] # NoValue}

MapInit == m = [k \in Keys |-> NoValue] /\ size = 0

(* as_hashtable_insert: the value of a key that is there is replaced. *)
Put(k, v) == m' = [m EXCEPT ![k] = v]

(* as_hashtable_remove, and as_hashtable_foreach for a function that answers
   TRUE for the keys of S *)
Delete(S) == m' = [k \in Keys |-> IF k \in S THEN NoValue ELSE m[k]]

MapNext ==
    /\ \/ \E k \in Keys, v \in Values : Put(k, v)
       \/ \E S \in SUBSET Keys : Delete(S)
    /\ size' = Cardinality(Stored(m'))

MapSpec == MapInit /\ [][MapNext]_<<m, size>>
=============================================================================
