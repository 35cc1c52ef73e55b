------------------------------ MODULE HashMap ------------------------------
(***************************************************************************)
(* CCUnorderedMap (data_structure/map/unorder_map.c): buckets of chains of *)
(* key/value nodes, rehashed to a larger prime after an insertion that     *)
(* loads them beyond 3/4.  A chain is a sequence, its head first.  A node  *)
(* takes three heap blocks: itself and its copies of key and value.        *)
(***************************************************************************)
EXTENDS Integers, BucketChains

CONSTANTS Hash,          \* map->hash_functor, a function of the key
          Primes,        \* prime_list without its final 0
          ThreeWay,      \* the comparator returns a CompareResult, else 1 on equal keys
          Missing        \* the NULL that Get returns

VARIABLES nodes_arrays,  \* map->nodes_arrays, cells 0 .. bucket_count - 1
          map_size,      \* map->size
          blocks         \* heap blocks allocated for the map and not freed

hashMapVars == <<nodes_arrays, map_size>>

-----------------------------------------------------------------------------
\* key_packs->compared: EQUAL is 0 for a three-way comparator, and equality is
\* not 0 for the equality comparators the feature list of the map speaks of.
Compared(a, b) == CASE ThreeWay /\ a < b  -> -1
                    [] ThreeWay /\ a > b  -> 1
                    [] ThreeWay /\ a = b  -> 0
                    [] ~ThreeWay          -> IF a = b THEN 1 ELSE 0

\* Insert, Get and Erase take any result but 0 for a match.
Matches(node, key) == Compared(node.key, key) # 0

\* query_next_prime.
QueryNextPrime(n) == LET i == SelectInSeq(Primes, LAMBDA p : p >= n)
                     IN  IF i = 0 THEN 2 * n + 1 ELSE Primes[i]

Count == Cardinality(DOMAIN nodes_arrays)

\* CCBasicCoreCCUnorderedMap_Create.
HashMapInit == /\ nodes_arrays = EmptyChains(Primes[1])
               /\ map_size = 0

Index(key, count) == Hash[key] % count

\* The position of the first match in the chain of the key, 0 if there is none.
FirstMatch(key) == SelectInSeq(nodes_arrays[Index(key, Count)], LAMBDA n : Matches(n, key))

ForceRehashOldCount(chains, count) ==
    LET nodes == Visit(chains, Count)
    IN  Rehashed(nodes, [n \in DOMAIN nodes |-> Index(nodes[n].key, Count)], count)

\* __force_rehash_map.
ForceRehash(chains, count) ==
    LET nodes == Visit(chains, Count)
    IN  Rehashed(nodes, [n \in DOMAIN nodes |-> Hash[nodes[n].key]], count)

OverwriteCounts(key, value) ==
    /\ FirstMatch(key) # 0
    /\ nodes_arrays' = [nodes_arrays EXCEPT ![Index(key, Count)][FirstMatch(key)].value = value]
    /\ map_size' = map_size + 1
    /\ UNCHANGED blocks

\* The value of the first match is released and replaced by a copy ...
Overwrite(key, value) ==
    /\ FirstMatch(key) # 0
    /\ nodes_arrays' = [nodes_arrays EXCEPT ![Index(key, Count)][FirstMatch(key)].value = value]
    /\ UNCHANGED <<map_size, blocks>>

\* ... or a node is put at the head of the chain, and the table grows.
Add(key, value) ==
    /\ FirstMatch(key) = 0
    /\ map_size' = map_size + 1
    /\ blocks' = blocks + 3
    /\ LET added == [nodes_arrays EXCEPT ![Index(key, Count)] =
                        Cons([key |-> key, value |-> value], @)]
       IN  nodes_arrays' = IF 4 * (map_size + 1) > 3 * Count
                           THEN ForceRehash(added, QueryNextPrime(2 * Count))
                           ELSE added

HashMapInsert(key, value) == Overwrite(key, value) \/ Add(key, value)

\* CCBasicCoreCCUnorderedMap_Get.
Get(key) == IF FirstMatch(key) = 0 THEN Missing
            ELSE nodes_arrays[Index(key, Count)][FirstMatch(key)].value

\* The node leaves its chain; map->size stays as it is.
HashMapErase(key) ==
    \/ FirstMatch(key) = 0 /\ UNCHANGED <<hashMapVars, blocks>>
    \/ /\ FirstMatch(key) # 0
       /\ nodes_arrays' = [nodes_arrays EXCEPT ![Index(key, Count)] =
                              RemoveAt(@, FirstMatch(key))]
       /\ blocks' = blocks - 3
       /\ UNCHANGED map_size

\* Every node with its key and value, then the bucket array and the map.
HashMapDestroy ==
    /\ blocks' = blocks - 3 * Len(Visit(nodes_arrays, Count)) - 2
    /\ UNCHANGED hashMapVars
=============================================================================
