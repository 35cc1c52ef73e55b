---------------------------- MODULE ListAdapters ----------------------------
(***************************************************************************)
(* The stack, the queue and the deque over a CCList (stack_list.c,         *)
(* queue_list.c, deque_list.c).  Each reaches its list through its own     *)
(* operations only; the list used directly is the kind "list".  A pop of   *)
(* the stack or the queue hands the list's element to the caller; a pop of *)
(* the deque hands out a copy and drops the element the list returned.     *)
(***************************************************************************)
EXTENDS List

VARIABLE kind    \* "list", "stack", "queue" or "deque"

adapterVars == <<vars, kind>>

AdapterInit == Init /\ kind \in {"list", "stack", "queue", "deque"}

StackPush(n, x) == kind = "stack" /\ PushBack(n, x)
QueuePush(n, x) == kind = "queue" /\ PushBack(n, x)
DequePushBack(n, x)  == kind = "deque" /\ PushBack(n, x)
DequePushFront(n, x) == kind = "deque" /\ PushFront(n, x)

StackPop == kind = "stack" /\ PopBack
QueuePop == kind = "queue" /\ PopFront
DequePopFront == kind = "deque" /\ PopFront
DequePopBack  == kind = "deque" /\ PopBack

DestroyAdapter == kind # "list" /\ Destroy

AdapterNext == /\ UNCHANGED kind
               /\ \/ kind = "list" /\ Next
                  \/ \E n \in Nodes, x \in Elements :
                        \/ StackPush(n, x) \/ QueuePush(n, x)
                        \/ DequePushBack(n, x) \/ DequePushFront(n, x)
                  \/ StackPop \/ QueuePop \/ DequePopFront \/ DequePopBack
                  \/ DestroyAdapter

AdapterSpec == AdapterInit /\ [][AdapterNext]_adapterVars

\* What each adapter reads at its ends, which is also what its pops return.
\* The stack and the queue test a pointer, the deque the size.
StackTop   == IF tail = NULL THEN NULL ELSE elem[tail]
QueueFront == IF head = NULL THEN NULL ELSE elem[head]
DequeFront == IF size = 0 THEN NULL ELSE elem[head]
DequeBack  == IF size = 0 THEN NULL ELSE elem[tail]

-----------------------------------------------------------------------------
(* Properties                                                               *)

First == IF Contents = <<>> THEN NULL ELSE Contents[1]
Last  == IF Contents = <<>> THEN NULL ELSE Contents[Count]

\* Through an adapter the hazards of the list are out of reach: it never
\* crashes and its size is the number of its nodes, so that the three fields by
\* which the adapters take it for empty agree and each reads, or pops, the end
\* of the sequence it is meant to.
AdaptersKeepTheList ==
    /\ kind # "list" => status # "crashed"
    /\ kind # "list" /\ Usable => /\ size = Count
                                  /\ QueueFront = First /\ StackTop = Last
                                  /\ DequeFront = First /\ DequeBack = Last
=============================================================================
