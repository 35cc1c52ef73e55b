------------------------------ MODULE HashSet ------------------------------
(***************************************************************************)
(* CCUnorderedSet (data_structure/set/unorder_set.c): buckets of chains,   *)
(* doubled before an insertion that would load them beyond 3/4.  A chain   *)
(* is a sequence, its head first.  A node takes two heap blocks, itself    *)
(* and its copy of the key; a rehash swaps one bucket array for another.   *)
(***************************************************************************)
EXTENDS BucketChains

CONSTANTS Hash,            \* s->hash_fn, a function of the key
          InitialBuckets   \* INITIAL_BUCKETS, 16 in the code

VARIABLES buckets,         \* s->buckets, cells 0 .. bucket_count - 1
          hash_sz,         \* s->sz
          blocks           \* heap blocks allocated for the set and not freed

hashSetVars == <<buckets, hash_sz>>

-----------------------------------------------------------------------------
BucketCount == Cardinality(DOMAIN buckets)

\* CCBasicCoreUnorderedSet_Create.
HashSetInit == /\ buckets = EmptyChains(InitialBuckets)
               /\ hash_sz = 0

HashIndex(key, count) == Hash[key] % count

\* Only the chain of the key is searched.
HashSetContains(key) == Contains(buckets[HashIndex(key, BucketCount)], key)

\* _rehash.
Rehash(count) ==
    LET nodes == Visit(buckets, BucketCount)
    IN  Rehashed(nodes, [n \in DOMAIN nodes |-> Hash[nodes[n]]], count)

\* _ensure_capacity.
EnsureCapacity ==
    IF 4 * (hash_sz + 1) > 3 * BucketCount THEN Rehash(2 * BucketCount) ELSE buckets

\* The index is computed again after the rehash.
HashSetInsertOldIndex(key) ==
    \/ HashSetContains(key) /\ UNCHANGED <<hashSetVars, blocks>>
    \/ /\ ~HashSetContains(key)
       /\ buckets' = [EnsureCapacity EXCEPT ![HashIndex(key, BucketCount)] = Cons(key, @)]
       /\ hash_sz' = hash_sz + 1
       /\ blocks' = blocks + 2

HashSetInsert(key) ==
    \/ HashSetContains(key) /\ UNCHANGED <<hashSetVars, blocks>>
    \/ /\ ~HashSetContains(key)
       /\ LET b == EnsureCapacity
          IN  buckets' = [b EXCEPT ![HashIndex(key, Cardinality(DOMAIN b))] = Cons(key, @)]
       /\ hash_sz' = hash_sz + 1
       /\ blocks' = blocks + 2

HashSetErase(key) ==
    \/ ~HashSetContains(key) /\ UNCHANGED <<hashSetVars, blocks>>
    \/ /\ HashSetContains(key)
       /\ buckets' = [buckets EXCEPT ![HashIndex(key, BucketCount)] = RemoveFirst(@, key)]
       /\ hash_sz' = hash_sz - 1
       /\ blocks' = blocks - 2

\* Every chain, then the bucket array and the set.
HashSetDestroy == /\ blocks' = blocks - 2 * Len(Visit(buckets, BucketCount)) - 2
                  /\ UNCHANGED hashSetVars
=============================================================================
