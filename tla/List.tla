-------------------------------- MODULE List --------------------------------
(***************************************************************************)
(* CCList (data_structure/list/list.c): a doubly-linked list whose nodes   *)
(* form a ring through head and tail, with the links, the allocation of    *)
(* nodes and the size field of the code.  A first node gets no links at    *)
(* all; the ring is closed by the second push.  Reading through NULL or    *)
(* through a freed node crashes, and the model stops there.                *)
(***************************************************************************)
EXTENDS Integers, FiniteSets

CONSTANTS Nodes,      \* node addresses
          NULL,
          Elements,   \* what the nodes hold
          SizeMax     \* largest size_t

VARIABLES head, tail,    \* list->head, list->tail
          size,          \* list->size
          next, prev,    \* the links of each node, NULL when it is free
          elem,          \* element_itself of each node, NULL when it is free
          allocated,     \* nodes allocated and not freed
          status         \* "usable", "destroyed" or "crashed"

vars  == <<head, tail, size, next, prev, elem, allocated, status>>
links == <<next, prev>>

\* The addresses of a heap, each of them at least one byte.
HeapAddresses == /\ NULL \notin Nodes
                 /\ IsFiniteSet(Nodes)
                 /\ SizeMax \in Nat \ {0}
                 /\ Cardinality(Nodes) <= SizeMax

Init == /\ head = NULL /\ tail = NULL
        /\ size = 0
        /\ next = [n \in Nodes |-> NULL]
        /\ prev = [n \in Nodes |-> NULL]
        /\ elem = [n \in Nodes |-> NULL]
        /\ allocated = {}
        /\ status = "usable"

-----------------------------------------------------------------------------
Usable == status = "usable"

\* Every pointer in the set may be followed.
Safe(pointers) == pointers \subseteq allocated

Crash(pointers) == /\ ~Safe(pointers)
                   /\ status' = "crashed"
                   /\ UNCHANGED <<head, tail, size, links, elem, allocated>>

\* size_t arithmetic.
SizeInc == (size + 1) % (SizeMax + 1)
SizeDec == (size - 1) % (SizeMax + 1)

\* createNodeStandAlone: a new node n with element x.
Creates(n, x) == /\ n \in Nodes \ allocated
                 /\ allocated' = allocated \cup {n}
                 /\ elem' = [elem EXCEPT ![n] = x]

\* freeNodeOnly(d), with the links the other nodes are left with.
Releases(d, newNext, newPrev) == /\ allocated' = allocated \ {d}
                                 /\ elem' = [elem EXCEPT ![d] = NULL]
                                 /\ next' = [newNext EXCEPT ![d] = NULL]
                                 /\ prev' = [newPrev EXCEPT ![d] = NULL]

-----------------------------------------------------------------------------
\* Both pushes on an empty list: one node without links, and size assigned.
PushFirst(n, x) == /\ head = NULL
                   /\ Creates(n, x)
                   /\ head' = n /\ tail' = n
                   /\ size' = 1
                   /\ UNCHANGED <<links, status>>

LinkAtSeamOpen(n, x) ==
    /\ head # NULL /\ Safe({head, tail})
    /\ Creates(n, x)
    /\ next' = [next EXCEPT ![n] = head]
    /\ prev' = [prev EXCEPT ![head] = n]
    /\ size' = SizeInc
    /\ UNCHANGED status

LinkAtSeamUncounted(n, x) ==
    /\ head # NULL /\ Safe({head, tail})
    /\ Creates(n, x)
    /\ next' = [next EXCEPT ![n] = head, ![tail] = n]
    /\ prev' = [prev EXCEPT ![n] = tail, ![head] = n]
    /\ UNCHANGED <<size, status>>

\* Both pushes on a list with a head: n goes between tail and head.
LinkAtSeam(n, x) ==
    /\ head # NULL /\ Safe({head, tail})
    /\ Creates(n, x)
    /\ next' = [next EXCEPT ![n] = head, ![tail] = n]
    /\ prev' = [prev EXCEPT ![n] = tail, ![head] = n]
    /\ size' = SizeInc
    /\ UNCHANGED status

PushFront(n, x) ==
    /\ Usable
    /\ \/ PushFirst(n, x)
       \/ LinkAtSeam(n, x) /\ head' = n /\ UNCHANGED tail
       \/ head # NULL /\ Crash({head, tail})

PushBack(n, x) ==
    /\ Usable
    /\ \/ PushFirst(n, x)
       \/ LinkAtSeam(n, x) /\ tail' = n /\ UNCHANGED head
       \/ head # NULL /\ Crash({head, tail})

PopFrontNoSingle ==
    /\ Usable /\ head # NULL
    /\ \/ /\ Safe({head, tail, next[head]})
          /\ head' = next[head]
          /\ Releases(head, [next EXCEPT ![tail] = head'], [prev EXCEPT ![head'] = tail])
          /\ size' = SizeDec
          /\ UNCHANGED <<tail, status>>
       \/ Crash({head, tail, next[head]})

\* The element goes to the caller.  The node that stays alone is linked to
\* itself.
PopFront ==
    /\ Usable /\ head # NULL
    /\ \/ /\ Safe({head}) /\ head = tail
          /\ head' = NULL /\ tail' = NULL
          /\ Releases(head, next, prev)
          /\ size' = SizeDec
          /\ UNCHANGED status
       \/ /\ Safe({head, tail, next[head]}) /\ head # tail
          /\ head' = next[head]
          /\ Releases(head, [next EXCEPT ![tail] = head'], [prev EXCEPT ![head'] = tail])
          /\ size' = SizeDec
          /\ UNCHANGED <<tail, status>>
       \/ Crash({head} \cup IF head = tail THEN {} ELSE {tail, next[head]})

PopBackOpensRing ==
    /\ Usable /\ head # NULL
    /\ \/ /\ Safe({tail}) /\ head = tail
          /\ head' = NULL /\ tail' = NULL
          /\ Releases(tail, next, prev)
          /\ size' = SizeDec
          /\ UNCHANGED status
       \/ /\ Safe({head, tail, prev[tail]}) /\ head # tail
          /\ tail' = prev[tail]
          /\ Releases(tail, [next EXCEPT ![tail'] = head], prev)
          /\ size' = SizeDec
          /\ UNCHANGED <<head, status>>
       \/ Crash({tail} \cup IF head = tail THEN {} ELSE {head, prev[tail]})

PopBack ==
    /\ Usable /\ head # NULL
    /\ \/ /\ Safe({tail}) /\ head = tail
          /\ head' = NULL /\ tail' = NULL
          /\ Releases(tail, next, prev)
          /\ size' = SizeDec
          /\ UNCHANGED status
       \/ /\ Safe({head, tail, prev[tail]}) /\ head # tail
          /\ tail' = prev[tail]
          /\ Releases(tail, [next EXCEPT ![tail'] = head], [prev EXCEPT ![head] = tail'])
          /\ size' = SizeDec
          /\ UNCHANGED <<head, status>>
       \/ Crash({tail} \cup IF head = tail THEN {} ELSE {head, prev[tail]})

\* Insert after a node that is not the tail.  The size is not changed.
InsertInside(pos, n, x) ==
    /\ Usable /\ pos \in allocated /\ pos # tail
    /\ \/ /\ Safe({next[pos]})
          /\ Creates(n, x)
          /\ next' = [next EXCEPT ![n] = next[pos], ![pos] = n]
          /\ prev' = [prev EXCEPT ![n] = pos, ![next[pos]] = n]
          /\ UNCHANGED <<head, tail, size, status>>
       \/ Crash({next[pos]})

\* "Insert front", as the comment at list.c:208 has it.
InsertTailFront(pos, n, x) == \/ pos = tail /\ PushFront(n, x)
                              \/ InsertInside(pos, n, x)

\* Insert after the tail is PushBack.
Insert(pos, n, x) == \/ pos = tail /\ PushBack(n, x)
                     \/ InsertInside(pos, n, x)

\* Erase moves head and tail off the node, then unlinks and frees it with its
\* element.  The size is not changed.
Erase(pos) ==
    /\ Usable /\ pos \in allocated
    /\ \/ /\ Safe({prev[pos], next[pos]})
          /\ head' = IF pos = head THEN next[pos] ELSE head
          /\ tail' = IF pos = tail THEN prev[pos] ELSE tail
          /\ Releases(pos, [next EXCEPT ![prev[pos]] = next[pos]],
                           [prev EXCEPT ![next[pos]] = prev[pos]])
          /\ UNCHANGED <<size, status>>
       \/ Crash({prev[pos], next[pos]})

\* SetListNode; the element that was there is the caller's to free.
SetListNode(pos, x) == /\ Usable /\ pos \in allocated
                       /\ elem' = [elem EXCEPT ![pos] = x]
                       /\ UNCHANGED <<head, tail, size, links, allocated, status>>

\* The nodes reached by 0, 1, 2, ... links from the first.
Walk(nextOf, start) ==
    LET at[i \in Nat] == IF i = 0 THEN start
                         ELSE IF at[i - 1] \in Nodes THEN nextOf[at[i - 1]] ELSE NULL
    IN  at

Reached == Walk(next, head)

\* destroyCCList frees `size' nodes, following next from the head.
Destroy ==
    /\ Usable
    /\ LET walked == IF head = NULL THEN {} ELSE {Reached[i] : i \in 0 .. size - 1}
       IN  \/ /\ Safe(walked) /\ (head # NULL => Cardinality(walked) = size)
              /\ allocated' = allocated \ walked
              /\ status' = "destroyed"
              /\ UNCHANGED <<head, tail, size, links, elem>>
           \/ /\ ~Safe(walked) \/ (head # NULL /\ Cardinality(walked) # size)
              /\ status' = "crashed"
              /\ UNCHANGED <<head, tail, size, links, elem, allocated>>

Next == \/ \E n \in Nodes, x \in Elements :
              \/ PushFront(n, x) \/ PushBack(n, x)
              \/ \E pos \in allocated : Insert(pos, n, x)
        \/ PopFront \/ PopBack
        \/ \E pos \in allocated : Erase(pos) \/ \E x \in Elements : SetListNode(pos, x)
        \/ Destroy

Spec == Init /\ [][Next]_vars

-----------------------------------------------------------------------------
(* Properties                                                               *)

Count == Cardinality(allocated)

\* The only node of a list that no pop has passed through has no links.
Unlinked == /\ allocated = {head} /\ tail = head
            /\ next[head] = NULL /\ prev[head] = NULL

\* All nodes lie on one ring, in both directions, from head to tail.
Ring == /\ head \in allocated /\ tail \in allocated
        /\ next[tail] = head /\ prev[head] = tail
        /\ {Reached[i] : i \in 0 .. Count - 1} = allocated
        /\ Reached[Count - 1] = tail
        /\ \A n \in allocated : /\ next[n] \in allocated /\ prev[next[n]] = n
                                /\ prev[n] \in allocated /\ next[prev[n]] = n

\* What Erase of a list's only node leaves behind, when the node was linked to
\* itself: an empty list whose head and tail point to the freed node, against
\* README.md:29 (EdgesAreSafe).
Dangling == Usable /\ allocated = {} /\ head = tail /\ head \in Nodes

\* Whatever is pushed, popped, inserted and erased where, the nodes form one
\* ring and no node is lost; otherwise the list is empty, is a single node
\* without links, or dangles.
ListShape == Usable => \/ Ring
                       \/ Unlinked
                       \/ allocated = {} /\ head = NULL /\ tail = NULL
                       \/ Dangling

\* A crash needs a list that dangles, the erasure of a node without links, or
\* a destroy that trusts a size above the number of nodes; and a list dangles
\* only after the erasure of its only node.  These are not what README.md:29
\* promises, which EdgesAreSafe states and a run refutes; that nothing else goes
\* wrong is what is checked here.
CrashNeeds ==
    /\ status' = "crashed" /\ status = "usable" =>
          Dangling \/ (Unlinked /\ \E n \in allocated : Erase(n)) \/ (Destroy /\ size > Count)
    /\ Dangling' => Dangling \/ (Count = 1 /\ \E n \in allocated : Erase(n))

CrashExplained == [][CrashNeeds]_vars

\* "Safe edge handling for empty and single-node lists", says README.md:29: no
\* operation on a list of at most one node crashes.
EdgesAreSafe == [][Usable /\ Count <= 1 => status' # "crashed"]_vars

\* size and the number of nodes move together, except that inserting inside
\* and erasing forget the size, and that a push onto an empty list repairs it.
SizeStep ==
    status' = "usable" /\ Count' # Count =>
        \/ (size' - size) % (SizeMax + 1) = (Count' - Count) % (SizeMax + 1)
        \/ size' = 1 /\ head = NULL
        \/ /\ size' = size
           /\ \/ \E p, n \in Nodes, x \in Elements : InsertInside(p, n, x)
              \/ \E p \in allocated : Erase(p)

SizeMoves == [][SizeStep]_vars

Contents == IF Ring \/ Unlinked THEN [i \in 1 .. Count |-> elem[Reached[i - 1]]] ELSE <<>>

Promise == INSTANCE ElementSequence WITH items <- Contents

\* The position of a node, from 1.
Position(pos) == CHOOSE i \in 1 .. Count : Reached[i - 1] = pos

\* The edit each operation is named for.
SequenceStep ==
    status' = "usable" =>
        /\ Promise!Next \/ UNCHANGED Contents
        /\ \A n \in Nodes \ allocated, x \in Elements :
              /\ PushFront(n, x) => Promise!PushFront(x)
              /\ \A pos \in allocated : Insert(pos, n, x) => Promise!InsertAfter(Position(pos), x)
        /\ PopBack  => Promise!PopBack
        /\ PopFront => Promise!PopFront
        /\ \A pos \in allocated : Erase(pos) => Promise!Erase(Position(pos))

\* Every operation on the list is the edit it is named for of the sequence of
\* its elements, up to a crash or the list's destruction.
ListImplementsSequence == Promise!Init /\ [][SequenceStep]_vars
=============================================================================
