-------------------------- MODULE ElementSequence --------------------------
(***************************************************************************)
(* What the sequence containers of CCBasicCore promise: the container is a *)
(* sequence of elements, and every operation is one edit of the sequence.  *)
(***************************************************************************)
EXTENDS Naturals, SequencesExt

CONSTANT Elements

VARIABLE items

PushBack(x)  == items' = Append(items, x)
PushFront(x) == items' = Cons(x, items)
PopBack      == items # <<>> /\ items' = Front(items)
PopFront     == items # <<>> /\ items' = Tail(items)

\* Positions count from 1.
Assign(i, x)      == items' = ReplaceAt(items, i, x)
InsertAfter(i, x) == items' = InsertAt(items, i + 1, x)
Erase(i)          == items' = RemoveAt(items, i)
Truncate(n)       == items' = SubSeq(items, 1, n)

Init == items = <<>>

Next == \/ \E x \in Elements : PushBack(x) \/ PushFront(x)
        \/ PopBack \/ PopFront
        \/ \E i \in DOMAIN items :
              \/ \E x \in Elements : Assign(i, x) \/ InsertAfter(i, x)
              \/ Erase(i)
              \/ Truncate(i - 1)

Spec == Init /\ [][Next]_items
=============================================================================
