---------------------------- MODULE BucketChains ----------------------------
(***************************************************************************)
(* Bucket arrays of linked chains, as CCUnorderedSet and CCUnorderedMap    *)
(* keep them: cells 0 .. count - 1, each a sequence of nodes with the head *)
(* of the chain first.                                                     *)
(***************************************************************************)
EXTENDS Naturals, SequencesExt

\* An array without nodes.
EmptyChains(count) == [i \in 0 .. count - 1 |-> <<>>]

\* All chains one after the other, in the order a rehash visits the nodes.
Visit(chains, count) ==
    LET visit[n \in 0 .. count] == IF n = 0 THEN <<>> ELSE visit[n - 1] \o chains[n - 1]
    IN  visit[count]

\* A rehash: every node is pushed to the head of its chain in the new array.
Rehashed(nodes, hashes, count) ==
    LET push[n \in 0 .. Len(nodes)] ==
            IF n = 0 THEN EmptyChains(count)
            ELSE [push[n - 1] EXCEPT ![hashes[n] % count] = Cons(nodes[n], @)]
    IN  push[Len(nodes)]
=============================================================================
