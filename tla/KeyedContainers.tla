-------------------------- MODULE KeyedContainers --------------------------
(***************************************************************************)
(* A client program run against one of the keyed containers: CCSet,        *)
(* CCUnorderedSet, CCMap over either of its trees, CCUnorderedMap.  The    *)
(* others stay as created.                                                 *)
(***************************************************************************)
EXTENDS Integers, Treap, BucketChains

CONSTANTS Priorities, Hash, InitialBuckets, Primes, ThreeWay,
          MaxSize,    \* bound on map_size, which never falls
          MaxBlocks   \* bound on the heap blocks of a container that leaks

VARIABLES container,   \* the container the client holds
          set_root, set_sz, buckets, hash_sz, map_root, nodes_arrays, map_size,
          blocks,      \* heap blocks allocated for it and not freed
          status,      \* "usable", "destroyed", "emptied" or "damaged"
          parity       \* of the number of calls: a call that changes nothing is a step

setVars     == <<set_root, set_sz>>
hashSetVars == <<buckets, hash_sz>>
hashMapVars == <<nodes_arrays, map_size>>
vars == <<container, setVars, hashSetVars, map_root, hashMapVars, blocks, status, parity>>

TS == INSTANCE TreapSet
HS == INSTANCE HashSet
TM == INSTANCE TreapMap
BM == INSTANCE BstMap
HM == INSTANCE HashMap WITH Missing <- NULL

ASSUME KeysAssumption == Keys \subseteq Nat /\ Hash \in [Keys -> Nat] /\ NULL \notin Values

\* There are finitely many keys, and NULL is no node.
ASSUME TreesAssumption ==
    IsFiniteSet(Keys) /\ Priorities \subseteq Nat /\ NULL \notin NodesOver(Trees)

\* An array has a bucket at least.
ASSUME BucketsAssumption ==
    InitialBuckets \in Nat \ {0} /\ Primes \in Seq(Nat \ {0}) /\ Primes # <<>>

\* CCMap over the treap, and over the plain tree with copied or with kept keys.
TreeMaps   == {"map", "bst_map", "bst_map_kept"}
Containers == {"set", "hash_set", "hash_map"} \cup TreeMaps

\* The heap blocks that can be reached from the container: its struct, the
\* bucket array, the nodes, and the keys and values the nodes own.
Reachable == CASE container = "set"      -> 1 + 2 * Size(set_root)
               [] container = "hash_set" -> 2 + 2 * Len(Visit(buckets, HS!BucketCount))
               [] container \in TreeMaps -> 1 + 3 * Size(map_root)
               [] container = "hash_map" -> 2 + 3 * Len(Visit(nodes_arrays, HM!Count))

-----------------------------------------------------------------------------
\* A container without nodes, which is all that its creation has allocated.
Init == /\ container \in Containers
        /\ TS!SetInit /\ HS!HashSetInit /\ TM!MapInit /\ HM!HashMapInit
        /\ blocks = Reachable
        /\ status = "usable"
        /\ parity = 0

Usable == status = "usable" /\ UNCHANGED container /\ parity' = 1 - parity

Insert(k, v, p) ==
    /\ Usable /\ blocks < MaxBlocks /\ UNCHANGED status
    /\ \/ /\ container = "set" /\ TS!SetInsert(k, p)
          /\ UNCHANGED <<hashSetVars, map_root, hashMapVars>>
       \/ /\ container = "hash_set" /\ HS!HashSetInsert(k)
          /\ UNCHANGED <<setVars, map_root, hashMapVars>>
       \/ /\ container = "map" /\ TM!MapInsert(k, v, p)
          /\ UNCHANGED <<setVars, hashSetVars, hashMapVars>>
       \/ /\ container \in {"bst_map", "bst_map_kept"}
          /\ BM!BstInsert(k, v, container = "bst_map_kept")
          /\ UNCHANGED <<setVars, hashSetVars, hashMapVars>>
       \/ /\ container = "hash_map" /\ map_size < MaxSize /\ HM!HashMapInsert(k, v)
          /\ UNCHANGED <<setVars, hashSetVars, map_root>>

Erase(k) ==
    /\ Usable
    /\ \/ /\ container = "set" /\ TS!SetErase(k)
          /\ UNCHANGED <<hashSetVars, map_root, hashMapVars, status>>
       \/ /\ container = "hash_set" /\ HS!HashSetErase(k)
          /\ UNCHANGED <<setVars, map_root, hashMapVars, status>>
       \/ /\ container = "map" /\ TM!MapErase(k)
          /\ UNCHANGED <<setVars, hashSetVars, hashMapVars, status>>
       \/ /\ container = "bst_map" /\ BM!BstEraseCopied
          /\ UNCHANGED <<setVars, hashSetVars, hashMapVars, status>>
       \/ /\ container = "bst_map_kept" /\ BM!BstEraseKept(k)
          /\ status' = IF BM!BstEraseDamages(k) THEN "damaged" ELSE "usable"
          /\ UNCHANGED <<setVars, hashSetVars, hashMapVars>>
       \/ /\ container = "hash_map" /\ HM!HashMapErase(k)
          /\ UNCHANGED <<setVars, hashSetVars, map_root, status>>

\* `freer' is what the freers of the map's packs return.
Destroy(freer) ==
    /\ Usable
    /\ \/ /\ container = "set" /\ TS!SetDestroy
          /\ status' = "destroyed"
          /\ UNCHANGED <<hashSetVars, map_root, hashMapVars>>
       \/ /\ container = "hash_set" /\ HS!HashSetDestroy
          /\ status' = "destroyed"
          /\ UNCHANGED <<setVars, map_root, hashMapVars>>
       \/ /\ container \in TreeMaps /\ TM!MapDestroy(freer)
          /\ status' = IF TM!MapDestroyFrees(freer) THEN "destroyed" ELSE "emptied"
          /\ UNCHANGED <<setVars, hashSetVars, hashMapVars>>
       \/ /\ container = "hash_map" /\ HM!HashMapDestroy
          /\ status' = "destroyed"
          /\ UNCHANGED <<setVars, hashSetVars, map_root>>

Next == \/ \E k \in Keys, v \in Values, p \in Priorities : Insert(k, v, p)
        \/ \E k \in Keys : Erase(k)
        \/ \E freer \in {0, 1} : Destroy(freer)

Spec == Init /\ [][Next]_vars

-----------------------------------------------------------------------------
(* Properties                                                               *)

\* The treaps stay heaps by priority, and all trees search trees with the larger
\* keys on the left, through every rotation and also through the erasures that
\* the map sends down the wrong side, until one damages the map.
TreesOrdered == status # "damaged" =>
                    \A root \in {set_root, map_root} :
                        SearchOrdered(root) /\ HeapOrdered(root)

\* A chain holds the keys its bucket stands for, each once, in any order, and
\* after every operation the nodes fill at most 3/4 of the buckets: a rehash
\* loses, repeats or misplaces nothing, and the new key goes by the new table.
ChainsPlaced ==
    /\ \A i \in DOMAIN buckets :
          /\ \A k \in ToSet(buckets[i]) : HS!HashIndex(k, HS!BucketCount) = i
          /\ IsInjective(buckets[i])
    /\ \A i \in DOMAIN nodes_arrays :
          /\ \A n \in ToSet(nodes_arrays[i]) : HM!Index(n.key, HM!Count) = i
          /\ \A m, n \in DOMAIN nodes_arrays[i] :
                nodes_arrays[i][m].key = nodes_arrays[i][n].key => m = n
    /\ 4 * hash_sz <= 3 * HS!BucketCount
    /\ 4 * map_size <= 3 * HM!Count

TreapSizeExact == set_sz = Cardinality(KeysOf(set_root))
HashSizeExact  == hash_sz = Len(Visit(buckets, HS!BucketCount))

\* The nodes of the unordered map, and what its size counts beyond them.
HashMapNodes == Len(Visit(nodes_arrays, HM!Count))
SizeDrift    == map_size - HashMapNodes

\* An insertion leaves the drift alone, an erasure of a key that is there adds
\* one, and the table grows as if what drifted were nodes.
MapSizeDrifts ==
    /\ SizeDrift = 0
    /\ [][container = "hash_map" =>
             /\ \A k \in Keys, v \in Values, p \in Priorities :
                   Insert(k, v, p) => SizeDrift' = SizeDrift
             /\ \A k \in Keys :
                   Erase(k) => SizeDrift' = SizeDrift + IF HM!Get(k) = NULL THEN 0 ELSE 1
             /\ HM!Count' # HM!Count => 4 * (HashMapNodes' + SizeDrift) > 3 * HM!Count]_vars

\* The sizes of the sets count their keys.  The size of the unordered map does
\* not: its header documents it as "the current element counts"
\* (unorder_map.h:28), but it is exactly the nodes and one more for every key
\* ever erased, and nothing else makes the two differ.
SizesExact == []TreapSizeExact /\ []HashSizeExact /\ MapSizeDrifts

SetTable     == [k \in Keys |-> IF TS!SetContains(k) THEN k ELSE NULL]
HashSetTable == [k \in Keys |-> IF HS!HashSetContains(k) THEN k ELSE NULL]
MapTable     == [k \in Keys |-> TM!MapFind(k)]
HashMapTable == [k \in Keys |-> HM!Get(k)]

SetPromise     == INSTANCE KeyTable WITH table <- SetTable,     Values <- Keys, Absent <- NULL
HashSetPromise == INSTANCE KeyTable WITH table <- HashSetTable, Values <- Keys, Absent <- NULL
MapPromise     == INSTANCE KeyTable WITH table <- MapTable,     Absent <- NULL
HashMapPromise == INSTANCE KeyTable WITH table <- HashMapTable, Absent <- NULL

\* What the lookups of both sets answer is a table in which an insertion adds
\* its key, an erasure removes it, and no other answer ever changes.
TreapSetImplementsTable ==
    /\ SetPromise!Init
    /\ [][container = "set" =>
             /\ \A k \in Keys, v \in Values, p \in Priorities :
                   Insert(k, v, p) => SetPromise!Put(k, k)
             /\ \A k \in Keys : Erase(k) => SetPromise!Remove(k)]_vars
HashSetImplementsTable ==
    /\ HashSetPromise!Init
    /\ [][container = "hash_set" =>
             /\ \A k \in Keys, v \in Values, p \in Priorities :
                   Insert(k, v, p) => HashSetPromise!Put(k, k)
             /\ \A k \in Keys : Erase(k) => HashSetPromise!Remove(k)]_vars
SetsImplementTable == TreapSetImplementsTable /\ HashSetImplementsTable

\* The same of the unordered map, for a comparator whose nonzero results mean
\* equal.
HashMapImplementsTable ==
    /\ HashMapPromise!Init
    /\ [][container = "hash_map" =>
             /\ \A k \in Keys, v \in Values, p \in Priorities :
                   Insert(k, v, p) => HashMapPromise!Put(k, v)
             /\ \A k \in Keys : Erase(k) => HashMapPromise!Remove(k)]_vars

IsRoot(k)  == map_root # NULL /\ map_root.key = k
IsInner(k) == IsRoot(k) /\ map_root.left # NULL /\ map_root.right # NULL
mapState   == <<map_root, status>>

ErasesOnlyTheRoot(k) ==
    CASE container = "bst_map_kept" /\ IsInner(k) -> status' = "damaged"
      [] container # "bst_map" /\ IsRoot(k) /\ ~ (container = "bst_map_kept" /\ IsInner(k)) ->
            MapPromise!Remove(k) /\ UNCHANGED status
      [] container = "bst_map" \/ ~ IsRoot(k) -> UNCHANGED mapState

\* CCMap binds the inserted key to the new value and touches no other binding.
\* An erasure removes the key at the root and nothing else: anywhere below, it
\* leaves the tree as it was.  Over the plain tree with copied keys it does so
\* at the root as well; with kept keys it damages the map when the root has two
\* children, and only then.
MapErasesOnlyTheRoot ==
    /\ MapPromise!Init
    /\ [][(container \in TreeMaps) =>
             /\ \A k \in Keys, v \in Values, p \in Priorities :
                   Insert(k, v, p) => MapPromise!Put(k, v)
             /\ \A k \in Keys : Erase(k) => ErasesOnlyTheRoot(k)]_vars

Overwrites == \E k \in Keys, v \in Values, p \in Priorities :
                  TM!MapFind(k) # NULL /\ Insert(k, v, p)

\* What a container allocates it can reach, and what it frees it no longer
\* reaches, through insertions it rejects, rotations, rehashes, erasures and its
\* destruction: nothing leaks and nothing is freed twice.  But CCMap leaks two
\* blocks with every overwrite of a copied key, and its destruction gives the
\* map itself back only when the freers return 0 and there is something to free.
Balanced == blocks' - blocks =
                (CASE status' = "usable"    -> Reachable'
                   [] status' = "emptied"   -> 1
                   [] status' = "destroyed" -> 0)
                - Reachable
                + (IF container \in {"map", "bst_map"} /\ Overwrites THEN 2 ELSE 0)
BlocksBalance == [][status' # "damaged" => Balanced]_vars

\* "erase a node by key", says the header of CCMap: afterwards the key is not
\* found.
ErasedIsGone == [][\A k \in Keys : container = "map" /\ Erase(k) => TM!MapFind(k)' = NULL]_vars

\* What the unordered map's own test expects of its comparator: the value
\* just inserted for a key is the one the map gives for it.
InsertedIsFound == [][\A k \in Keys, v \in Values, p \in Priorities :
                        container = "hash_map" /\ Insert(k, v, p) => HM!Get(k)' = v]_vars
=============================================================================
