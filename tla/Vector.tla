------------------------------- MODULE Vector -------------------------------
(***************************************************************************)
(* CCVector (data_structure/vector/vector.c): a buffer of `capacity' cells *)
(* whose first `current_size' cells are the elements.  With a pack the     *)
(* cells hold pointers to copies the vector owns; without one they hold    *)
(* plain values.  Cells past the size hold Junk.                           *)
(*                                                                         *)
(* realloc is assumed to succeed; a store outside the buffer is undefined  *)
(* behaviour, and the model stops there.                                   *)
(***************************************************************************)
EXTENDS Integers, FiniteSets

CONSTANTS Objects,       \* element values, or heap objects when there is a pack
          Junk,          \* what a cell that was never stored to holds
          MaxCapacity    \* bound on the capacity a client lets the vector reach

ASSUME VectorAssumption == Junk \notin Objects /\ MaxCapacity \in Nat \ {0}

VARIABLES capacity,      \* vector->capacity
          current_size,  \* vector->current_size
          cells,         \* vector->buffer_container, cells 0 .. capacity - 1
          pack,          \* the vector has a pack with copier and freer
          live,          \* objects allocated and not freed
          lost,          \* live objects whose only pointer was overwritten
          status         \* "usable", "freed" or "undefined"

vars == <<capacity, current_size, cells, pack, live, lost, status>>

Cell == Objects \cup {Junk}

-----------------------------------------------------------------------------
\* CreateVector and CreateDefinedVector.
Init == /\ capacity = 1
        /\ current_size = 0
        /\ cells = [i \in 0 .. 0 |-> Junk]
        /\ pack \in BOOLEAN
        /\ live = {}
        /\ lost = {}
        /\ status = "usable"

\* __shell_resize, with its two reasons: the buffer is full, or sparse.
ShellResizeNotWhenFull(size, cap) == size > 0 /\ cap >= 4 * size
ShellResizeAtZero(size, cap)      == cap = size \/ cap >= 4 * size
ShellResizeEager(size, cap)       == cap = size \/ (size > 0 /\ cap >= 2 * size)
ShellResize(size, cap) == cap = size \/ (size > 0 /\ cap >= 4 * size)

\* Pushes ask to double whatever the reason, pops to halve.
CapacityForPush == IF ShellResize(current_size, capacity) THEN capacity * 2 ELSE capacity
CapacityAfterPop(size) == IF ShellResize(size, capacity) THEN capacity \div 2 ELSE capacity

\* The buffer after reallocation to cap cells, with elements f[0 .. size - 1].
Buffer(f, size, cap) == [i \in 0 .. cap - 1 |-> IF i < size THEN f[i] ELSE Junk]

\* pack->copier returns a new object; without a pack the value is stored.
Stores(x) == IF pack THEN x \in Objects \ live /\ live' = live \cup {x}
                     ELSE x \in Objects /\ UNCHANGED live

\* pack->freer on the elements of a set of cells.
Frees(indices) == live' = IF pack THEN live \ {cells[i] : i \in indices} ELSE live

Usable == status = "usable"

\* A push that stores outside the buffer.
Overrun == /\ current_size >= CapacityForPush
           /\ status' = "undefined"
           /\ UNCHANGED <<capacity, current_size, cells, pack, live, lost>>

-----------------------------------------------------------------------------
PushBack(x) ==
    /\ Usable /\ CapacityForPush <= MaxCapacity
    /\ \/ Overrun
       \/ /\ current_size < CapacityForPush
          /\ Stores(x)
          /\ capacity' = CapacityForPush
          /\ cells' = [Buffer(cells, current_size, capacity') EXCEPT ![current_size] = x]
          /\ current_size' = current_size + 1
          /\ UNCHANGED <<pack, lost, status>>

\* The elements are moved up one cell, then cell 0 is stored.
PushFront(x) ==
    /\ Usable /\ CapacityForPush <= MaxCapacity
    /\ \/ Overrun
       \/ /\ current_size < CapacityForPush
          /\ Stores(x)
          /\ capacity' = CapacityForPush
          /\ current_size' = current_size + 1
          /\ cells' = Buffer([i \in 0 .. current_size |-> IF i = 0 THEN x ELSE cells[i - 1]],
                             current_size', capacity')
          /\ UNCHANGED <<pack, lost, status>>

PopFrontShort ==
    /\ Usable /\ current_size # 0
    /\ Frees({0})
    /\ current_size' = current_size - 1
    /\ capacity' = CapacityAfterPop(current_size')
    /\ cells' = Buffer([i \in 0 .. current_size - 2 |->
                          IF i < current_size - 2 THEN cells[i + 1] ELSE cells[i]],
                       current_size', capacity')
    /\ UNCHANGED <<pack, lost, status>>

\* Element 0 is freed, the others move down one cell.
PopFront ==
    /\ Usable /\ current_size # 0
    /\ Frees({0})
    /\ current_size' = current_size - 1
    /\ capacity' = CapacityAfterPop(current_size')
    /\ cells' = Buffer([i \in 0 .. current_size - 2 |-> cells[i + 1]], current_size', capacity')
    /\ UNCHANGED <<pack, lost, status>>

PopBack ==
    /\ Usable /\ current_size # 0
    /\ Frees({current_size - 1})
    /\ current_size' = current_size - 1
    /\ capacity' = CapacityAfterPop(current_size')
    /\ cells' = Buffer(cells, current_size', capacity')
    /\ UNCHANGED <<pack, lost, status>>

ResizeWithoutFree(n) ==
    /\ Usable /\ n \in 0 .. MaxCapacity
    /\ capacity' = n
    /\ current_size' = IF n < current_size THEN n ELSE current_size
    /\ cells' = Buffer(cells, current_size', n)
    /\ UNCHANGED <<pack, live, lost, status>>

\* ResizeVector sets the capacity, to 0 as well, and drops what no longer fits.
Resize(n) ==
    /\ Usable /\ n \in 0 .. MaxCapacity
    /\ Frees(n .. current_size - 1)
    /\ capacity' = n
    /\ current_size' = IF n < current_size THEN n ELSE current_size
    /\ cells' = Buffer(cells, current_size', n)
    /\ UNCHANGED <<pack, lost, status>>

\* Set stores the bytes at `element' with neither copier nor freer: with a pack
\* the pointer stored is one the caller has allocated, and the copy that was
\* there is not freed.
Set(i, x) ==
    /\ Usable /\ i \in 0 .. current_size - 1
    /\ Stores(x)
    /\ cells' = [cells EXCEPT ![i] = x]
    /\ lost' = IF pack THEN lost \cup {cells[i]} ELSE lost
    /\ UNCHANGED <<capacity, current_size, pack, status>>

FreeVector ==
    /\ Usable
    /\ Frees(0 .. current_size - 1)
    /\ current_size' = 0
    /\ cells' = Buffer(cells, 0, capacity)
    /\ status' = "freed"
    /\ UNCHANGED <<capacity, pack, lost>>

Next == \/ \E x \in Objects : PushBack(x) \/ PushFront(x)
        \/ PopFront \/ PopBack
        \/ \E n \in 0 .. MaxCapacity : Resize(n)
        \/ \E i \in 0 .. MaxCapacity - 1, x \in Objects : Set(i, x)
        \/ FreeVector

Spec == Init /\ [][Next]_vars

-----------------------------------------------------------------------------
(* Properties                                                               *)

TypeOK == /\ capacity \in 0 .. MaxCapacity
          /\ current_size \in 0 .. MaxCapacity
          /\ cells \in [0 .. capacity - 1 -> Cell]
          /\ pack \in BOOLEAN
          /\ live \subseteq Objects /\ lost \subseteq Objects
          /\ status \in {"usable", "freed", "undefined"}

\* The elements always fit the buffer and every one of them was stored: no
\* growth, shrinking or move reads or leaves a cell outside the buffer.  A push
\* stores outside it only at capacity 0, which doubling cannot leave ...
BufferSafe == /\ current_size <= capacity
              /\ \A i \in 0 .. current_size - 1 : cells[i] \in Objects
              /\ status = "undefined" => capacity = 0

\* ... and no sequence of pushes and pops gets there: what doubles and halves
\* the buffer never shrinks it away, also when the last element is popped.
NeverShrunkAway ==
    [][capacity # 0 /\ (PopFront \/ PopBack \/ \E x \in Objects : PushBack(x) \/ PushFront(x))
          => capacity' # 0]_vars

Stored == {cells[i] : i \in 0 .. current_size - 1}

\* With a pack the vector owns its copies: every element is a live object in
\* one cell only, and every live object is an element unless Set has
\* overwritten its only pointer.  So nothing is freed twice, and only Set leaks.
OwnedOnce == pack => /\ live = Stored \cup lost
                     /\ Stored \cap lost = {}
                     /\ Cardinality(Stored) = current_size

\* A buffer with four cells or more for every element, as only Resize leaves one.
Sparse(elements, cap) == cap >= 4 * IF elements = 0 THEN 1 ELSE elements

\* README.md:47 promises pushes in amortized constant time, which asks that
\* halving and doubling never chase each other.  On a sparse buffer they do: at
\* capacity 4 with one element, pushes double and pops halve for ever.  On any
\* other buffer a push or a pop leaves a buffer that is not sparse either; the
\* operation that undoes it does not reallocate again; and after it has
\* reallocated, about half as many pushes or pops follow as there are elements
\* before the next one does.
CapacitySettles ==
    [][~Sparse(current_size, capacity) =>
         /\ (PopFront \/ PopBack) =>
               /\ ~Sparse(current_size', capacity')
               /\ capacity' # capacity => ~ShellResize(current_size', capacity')
         /\ (\E x \in Objects : PushBack(x) \/ PushFront(x)) =>
               /\ ~Sparse(current_size', capacity')
               /\ capacity' # capacity => ~ShellResize(current_size, capacity')
         /\ (PopFront \/ PopBack \/ \E x \in Objects : PushBack(x) \/ PushFront(x)) =>
               \A n \in 0 .. MaxCapacity :
                  /\ capacity' # capacity
                  /\ current_size' + 2 < 2 * n /\ 2 * n < 3 * current_size' - 2
                  => ~ShellResize(n, capacity')]_vars

Contents == [i \in 1 .. current_size |-> cells[i - 1]]

Promise == INSTANCE ElementSequence WITH Elements <- Objects, items <- Contents

\* Every operation is the edit it is named for of the sequence of elements,
\* through every reallocation.
ImplementsSequence ==
    /\ Promise!Spec
    /\ [][status' = "usable" =>
            /\ \A x \in Objects : /\ PushBack(x)  => Promise!PushBack(x)
                                  /\ PushFront(x) => Promise!PushFront(x)
            /\ PopBack  => Promise!PopBack
            /\ PopFront => Promise!PopFront
            /\ \A n \in 0 .. current_size : Resize(n) => Promise!Truncate(n)
            /\ \A i \in 0 .. current_size - 1, x \in Objects :
                    Set(i, x) => Promise!Assign(i + 1, x)]_vars
=============================================================================
