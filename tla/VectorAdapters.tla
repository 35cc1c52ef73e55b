--------------------------- MODULE VectorAdapters ---------------------------
(***************************************************************************)
(* The stack, the queue and the deque over a CCVector (stack_vector.c,     *)
(* queue_vector.c, deque_vector.c).  Each keeps a vector without a pack    *)
(* and reaches it through its own operations only; the vector used         *)
(* directly is the kind "vector".  The code of the adapter always matches  *)
(* its interface, and the element size that of the vector: otherwise the   *)
(* call never returns (utils/errors/Error.c).                              *)
(***************************************************************************)
EXTENDS Vector

VARIABLES kind,     \* "vector", "stack", "queue" or "deque"
          handed    \* the cell the pointer just returned by the stack's Pop
                    \* addresses, NoCell after any other call

adapterVars == <<vars, kind, handed>>

NoCell == -1

AdapterInit == /\ Init
               /\ kind \in {"vector", "stack", "queue", "deque"}
               /\ kind # "vector" => ~pack
               /\ handed = NoCell

StackPush(x) == kind = "stack" /\ PushBack(x)
QueuePush(x) == kind = "queue" /\ PushBack(x)
DequePushBack(x)  == kind = "deque" /\ PushBack(x)
DequePushFront(x) == kind = "deque" /\ PushFront(x)

\* The address of the last cell, or NULL.
StackTop == current_size - 1

\* The stack looks at its top, then pops; what it looked at goes to the caller.
StackPop == /\ kind = "stack" /\ Usable
            /\ handed' = StackTop
            /\ PopBack \/ (current_size = 0 /\ UNCHANGED vars)

\* The queue and the deque hand out a copy made before the pop.
QueuePop      == kind = "queue" /\ PopFront
DequePopFront == kind = "deque" /\ PopFront
DequePopBack  == kind = "deque" /\ PopBack

DestroyAdapter == kind # "vector" /\ FreeVector

AdapterNext ==
    /\ UNCHANGED kind
    /\ \/ StackPop
       \/ /\ handed' = NoCell
          /\ \/ kind = "vector" /\ Next
             \/ \E x \in Objects : \/ StackPush(x) \/ QueuePush(x)
                                   \/ DequePushBack(x) \/ DequePushFront(x)
             \/ QueuePop \/ DequePopFront \/ DequePopBack
             \/ DestroyAdapter

AdapterSpec == AdapterInit /\ [][AdapterNext]_adapterVars

-----------------------------------------------------------------------------
(* Properties                                                               *)

\* What makes a vector's push store outside its buffer is out of reach of the
\* adapters; and the cell a stack's Pop points to is the first one past the
\* elements and inside the buffer, also when the pop has just shrunk it: the
\* caller reads the popped element there, if realloc shrinks blocks in place,
\* until the next push stores over it.  Neither is the sparse buffer within their
\* reach on which CapacitySettles gives no bound.
AdaptersStayInside ==
    kind # "vector" => /\ status # "undefined"
                       /\ status = "usable" => ~Sparse(current_size, capacity)
                       /\ handed # NoCell => handed = current_size /\ handed < capacity
=============================================================================
