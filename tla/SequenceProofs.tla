--------------------------- MODULE SequenceProofs ---------------------------
(***************************************************************************)
(* Proofs about the containers that keep a sequence: CCVector and the      *)
(* adapters over it, for every set of element values and every bound on    *)
(* the capacity; CCString, for every set of characters, every size of the  *)
(* buffer in the struct and every text a client passes; and then what      *)
(* holds of the vector, the list and the string behind one client.  The    *)
(* list has proofs of its own, in ListProofs.                              *)
(***************************************************************************)
EXTENDS SequenceContainers, DataLemmas, FunctionTheorems, FiniteSetTheorems

-----------------------------------------------------------------------------
(* The vector.                                                               *)

\* The types, and that the elements lie in the buffer, are inductive together:
\* where the last element is depends on the capacity, and what Set loses and a
\* pop frees are elements.
IInv == TypeOK /\ BufferSafe

\* Doubling makes room in every buffer but the empty one; a buffer of no cells
\* stays one.
LEMMA Growth ==
    ASSUME TypeOK, BufferSafe
    PROVE  /\ CapacityForPush \in Nat
           /\ capacity # 0 => current_size < CapacityForPush
           /\ capacity = 0 => CapacityForPush = 0
           /\ CapacityForPush >= capacity
  BY VectorAssumption DEF TypeOK, BufferSafe, CapacityForPush, ShellResize

\* Halving after a pop keeps every element that is left, in a buffer at most
\* half full; the buffer does not vanish unless it was empty before.
LEMMA Halving ==
    ASSUME TypeOK, BufferSafe, current_size # 0
    PROVE  LET left == current_size - 1 IN
           /\ CapacityAfterPop(left) \in 0 .. MaxCapacity
           /\ CapacityAfterPop(left) # 0
           /\ left <= CapacityAfterPop(left)
           /\ CapacityAfterPop(left) < capacity => 2 * left <= CapacityAfterPop(left)
<1> DEFINE left == current_size - 1
<1>1. capacity \in Nat /\ current_size \in Nat /\ MaxCapacity \in Nat /\ left \in Nat
      /\ capacity <= MaxCapacity /\ left + 1 <= capacity
  BY VectorAssumption DEF TypeOK, BufferSafe
<1>2. CASE ShellResize(left, capacity)
  <2>1. left > 0 /\ capacity >= 4 * left
    BY <1>1, <1>2 DEF ShellResize
  <2>2. CapacityAfterPop(left) = capacity \div 2
    BY <1>2 DEF CapacityAfterPop
  <2> HIDE DEF left
  <2>3. /\ capacity \div 2 \in 0 .. MaxCapacity
        /\ 2 * left <= capacity \div 2
    BY <1>1, <2>1
  <2>4. QED
    BY <1>1, <2>1, <2>2, <2>3 DEF left
<1>3. CASE ~ShellResize(left, capacity)
  <2>1. CapacityAfterPop(left) = capacity
    BY <1>3 DEF CapacityAfterPop
  <2>2. QED
    BY <1>1, <2>1
<1>4. QED
  BY <1>2, <1>3

-----------------------------------------------------------------------------
(* Each operation preserves the invariant                                    *)

LEMMA PushesPreserve ==
    ASSUME IInv, NEW x \in Objects, PushBack(x) \/ PushFront(x) PROVE IInv'
<1> USE VectorAssumption DEF IInv
<1>1. CASE Overrun
  <2>1. capacity = 0
    BY <1>1, Growth DEF Overrun, TypeOK
  <2>2. QED
    BY <1>1, <2>1 DEF Overrun, TypeOK, BufferSafe, Cell
<1>2. CASE ~Overrun
  <2>1. /\ status = "usable" /\ UNCHANGED <<pack, lost, status>>
        /\ current_size < CapacityForPush /\ CapacityForPush <= MaxCapacity
        /\ capacity' = CapacityForPush /\ current_size' = current_size + 1
        /\ Stores(x)
    BY <1>2 DEF PushBack, PushFront, Usable
  <2>2. capacity' \in 0 .. MaxCapacity /\ current_size' \in 0 .. MaxCapacity /\ current_size' <= capacity'
    BY <2>1, Growth DEF TypeOK
  <2>3. live' \subseteq Objects
    BY <2>1 DEF Stores, TypeOK
  <2>4. /\ cells' \in [0 .. capacity' - 1 -> Cell]
        /\ \A i \in 0 .. current_size' - 1 : cells'[i] \in Objects
    <3>1. CASE PushBack(x)
      <4>1. cells' = [Buffer(cells, current_size, capacity') EXCEPT ![current_size] = x]
        BY <1>2, <3>1 DEF PushBack
      <4>2. QED
        BY <4>1, <2>1, <2>2, Growth DEF Buffer, Cell, TypeOK, BufferSafe
    <3>2. CASE PushFront(x)
      <4>1. cells' = Buffer([i \in 0 .. current_size |-> IF i = 0 THEN x ELSE cells[i - 1]],
                            current_size', capacity')
        BY <1>2, <3>2 DEF PushFront
      <4>2. QED
        BY <4>1, <2>1, <2>2, Growth DEF Buffer, Cell, TypeOK, BufferSafe
    <3>3. QED
      BY <3>1, <3>2
  <2>5. QED
    BY <2>1, <2>2, <2>3, <2>4 DEF TypeOK, BufferSafe
<1>3. QED
  BY <1>1, <1>2

LEMMA PopsPreserve == ASSUME IInv, PopFront \/ PopBack PROVE IInv'
<1> USE VectorAssumption DEF IInv
<1>1. /\ status = "usable" /\ UNCHANGED <<pack, lost, status>>
      /\ current_size # 0 /\ current_size' = current_size - 1
      /\ capacity' = CapacityAfterPop(current_size - 1)
  BY DEF PopFront, PopBack, Usable
<1>2. capacity' \in 0 .. MaxCapacity /\ current_size' \in 0 .. MaxCapacity /\ current_size' <= capacity'
  BY <1>1, Halving DEF TypeOK, BufferSafe
<1>3. live' \subseteq Objects
  BY DEF PopFront, PopBack, Frees, TypeOK
<1>4. /\ cells' \in [0 .. capacity' - 1 -> Cell]
      /\ \A i \in 0 .. current_size' - 1 : cells'[i] \in Objects
  <2>1. CASE PopFront
    <3>1. cells' = Buffer([i \in 0 .. current_size - 2 |-> cells[i + 1]], current_size', capacity')
      BY <2>1 DEF PopFront
    <3>2. QED
      BY <3>1, <1>1, <1>2 DEF Buffer, Cell, TypeOK, BufferSafe
  <2>2. CASE PopBack
    <3>1. cells' = Buffer(cells, current_size', capacity')
      BY <2>2 DEF PopBack
    <3>2. QED
      BY <3>1, <1>1, <1>2 DEF Buffer, Cell, TypeOK, BufferSafe
  <2>3. QED
    BY <2>1, <2>2
<1>5. QED
  BY <1>1, <1>2, <1>3, <1>4 DEF TypeOK, BufferSafe

LEMMA OthersPreserve ==
    ASSUME IInv,
           \/ \E n \in 0 .. MaxCapacity : Resize(n)
           \/ \E i \in 0 .. MaxCapacity - 1, x \in Objects : Set(i, x)
           \/ FreeVector
           \/ UNCHANGED vars
    PROVE  IInv'
<1> USE VectorAssumption DEF IInv, TypeOK, BufferSafe, Usable
<1>1. ASSUME NEW n \in 0 .. MaxCapacity, Resize(n) PROVE IInv'
  BY <1>1 DEF Resize, Frees, Buffer, Cell
<1>2. ASSUME NEW i \in 0 .. MaxCapacity - 1, NEW x \in Objects, Set(i, x) PROVE IInv'
  BY <1>2 DEF Set, Stores, Cell
<1>3. CASE FreeVector
  BY <1>3 DEF FreeVector, Frees, Buffer, Cell
<1>4. CASE UNCHANGED vars
  BY <1>4 DEF vars
<1>5. QED
  BY <1>1, <1>2, <1>3, <1>4

\* In every reachable state the vector is well typed, its elements lie inside
\* the buffer and were all stored, and a store outside the buffer can only
\* have happened at capacity zero.
THEOREM VectorInvariant == Spec => [](TypeOK /\ BufferSafe)
<1>1. Init => IInv
  BY VectorAssumption DEF Init, IInv, TypeOK, BufferSafe, Cell
<1>2. IInv /\ [Next]_vars => IInv'
  BY PushesPreserve, PopsPreserve, OthersPreserve DEF Next
<1>3. QED
  BY <1>1, <1>2, PTL DEF Spec, IInv

-----------------------------------------------------------------------------
(* Action properties                                                         *)

\* No sequence of pushes and pops shrinks the buffer to nothing.
THEOREM NeverShrunkAwayHolds == Spec => NeverShrunkAway
<1>1. IInv /\ [Next]_vars =>
        [capacity # 0 /\ (PopFront \/ PopBack \/ \E x \in Objects : PushBack(x) \/ PushFront(x))
            => capacity' # 0]_vars
  <2> USE VectorAssumption DEF IInv
  <2>1. ASSUME IInv, capacity # 0, NEW x \in Objects, PushBack(x) \/ PushFront(x)
        PROVE  capacity' # 0
    <3>1. capacity' \in {capacity, CapacityForPush}
      BY <2>1 DEF PushBack, PushFront, Overrun
    <3>2. QED
      BY <2>1, <3>1, Growth DEF TypeOK
  <2>2. ASSUME IInv, capacity # 0, PopFront \/ PopBack PROVE capacity' # 0
    BY <2>2, Halving DEF PopFront, PopBack
  <2>3. QED
    BY <2>1, <2>2
<1>2. Spec => []IInv
  BY VectorInvariant, PTL DEF IInv
<1>3. QED
  BY <1>1, <1>2, PTL DEF Spec, NeverShrunkAway

\* What CapacitySettles says of the capacity a step leads to.
Settles(before) == /\ ~Sparse(current_size', capacity')
                   /\ capacity' # capacity => ~ShellResize(before, capacity')
                   /\ \A n \in 0 .. MaxCapacity :
                         /\ capacity' # capacity
                         /\ current_size' + 2 < 2 * n /\ 2 * n < 3 * current_size' - 2
                         => ~ShellResize(n, capacity')

\* A push doubles a buffer that is not sparse only when it is full.
LEMMA PushSettles ==
    ASSUME IInv, ~Sparse(current_size, capacity), NEW x \in Objects, PushBack(x) \/ PushFront(x)
    PROVE  Settles(current_size)
<1>1. current_size \in Nat /\ capacity \in Nat /\ current_size <= capacity
      /\ \A n \in 0 .. MaxCapacity : n \in Nat
  BY VectorAssumption DEF IInv, TypeOK, BufferSafe
<1>2. CASE Overrun
  <2>1. capacity' = capacity /\ current_size' = current_size
    BY <1>2 DEF Overrun
  <2> QED BY <1>1, <2>1 DEF Settles, Sparse
<1>3. CASE ~Overrun
  <2>1. current_size' = current_size + 1 /\ capacity' = CapacityForPush
    BY <1>3 DEF PushBack, PushFront
  <2>2. CASE capacity = current_size
    <3>1. capacity' = current_size * 2 /\ current_size # 0
      BY <1>1, <1>3, <2>1, <2>2 DEF CapacityForPush, ShellResize, PushBack, PushFront
    <3>2. ~Sparse(current_size', capacity')
      BY <1>1, <2>1, <3>1 DEF Sparse
    <3>3. ~ShellResize(current_size, capacity')
      BY <1>1, <3>1 DEF ShellResize
    <3>4. ASSUME NEW n \in Nat, current_size' + 2 < 2 * n, 2 * n < 3 * current_size' - 2
          PROVE  ~ShellResize(n, capacity')
      BY <1>1, <2>1, <3>1, <3>4 DEF ShellResize
    <3> QED BY <1>1, <3>2, <3>3, <3>4 DEF Settles
  <2>3. CASE capacity # current_size
    <3>1. capacity' = capacity
      BY <1>1, <2>1, <2>3 DEF CapacityForPush, ShellResize, Sparse
    <3>2. ~Sparse(current_size', capacity')
      BY <1>1, <2>1, <3>1 DEF Sparse
    <3> QED BY <3>1, <3>2 DEF Settles
  <2> QED BY <2>2, <2>3
<1> QED BY <1>2, <1>3

\* A pop halves a buffer that is not sparse when it leaves a quarter full, so the
\* buffer is about half full after it.
LEMMA PopSettles ==
    ASSUME IInv, ~Sparse(current_size, capacity), PopFront \/ PopBack
    PROVE  Settles(current_size')
<1>1. current_size \in Nat /\ capacity \in Nat /\ current_size <= capacity
      /\ \A n \in 0 .. MaxCapacity : n \in Nat
  BY VectorAssumption DEF IInv, TypeOK, BufferSafe
<1>2. /\ current_size # 0 /\ current_size' = current_size - 1
      /\ capacity' = CapacityAfterPop(current_size')
  BY DEF PopFront, PopBack
<1>3. capacity < 4 * current_size
  BY <1>1, <1>2 DEF Sparse
<1>4. CASE ShellResize(current_size', capacity)
  <2> DEFINE left == current_size - 1
             half == capacity \div 2
  <2>1. left \in Nat /\ left # 0 /\ capacity >= 4 * left /\ capacity < 4 * left + 4
    BY <1>1, <1>2, <1>3, <1>4 DEF ShellResize
  <2>2. current_size' = left /\ capacity' = half
    BY <1>2, <1>4 DEF CapacityAfterPop
  <2> HIDE DEF left
  <2>3. half \in Nat /\ 2 * left <= half /\ half < 2 * left + 2
    BY <1>1, <2>1
  <2> HIDE DEF half
  <2>4. ~Sparse(left, half) /\ ~ShellResize(left, half)
    BY <2>1, <2>3 DEF Sparse, ShellResize
  <2>5. ASSUME NEW n \in Nat, left + 2 < 2 * n, 2 * n < 3 * left - 2
        PROVE  ~ShellResize(n, half)
    BY <2>1, <2>3, <2>5 DEF ShellResize
  <2> QED BY <1>1, <2>2, <2>4, <2>5 DEF Settles
<1>5. CASE ~ShellResize(current_size', capacity)
  <2>1. capacity' = capacity
    BY <1>2, <1>5 DEF CapacityAfterPop
  <2>2. ~Sparse(current_size', capacity')
    BY <1>1, <1>2, <1>3, <1>5, <2>1 DEF Sparse, ShellResize
  <2> QED BY <2>1, <2>2 DEF Settles
<1> QED BY <1>4, <1>5

\* On a buffer that is not sparse halving and doubling never chase each other, for
\* every capacity bound: an operation undoes no reallocation just made, and many
\* operations lie between two of them.
THEOREM CapacitySettlesHolds == Spec => CapacitySettles
<1> DEFINE Push == \E x \in Objects : PushBack(x) \/ PushFront(x)
           Pop  == PopFront \/ PopBack
<1>1. IInv /\ ~Sparse(current_size, capacity) /\ Push => Settles(current_size)
  BY PushSettles
<1>2. IInv /\ ~Sparse(current_size, capacity) /\ Pop => Settles(current_size')
  BY PopSettles
<1>3. IInv /\ [Next]_vars =>
        [~Sparse(current_size, capacity) =>
           /\ Pop  => /\ ~Sparse(current_size', capacity')
                      /\ capacity' # capacity => ~ShellResize(current_size', capacity')
           /\ Push => /\ ~Sparse(current_size', capacity')
                      /\ capacity' # capacity => ~ShellResize(current_size, capacity')
           /\ (PopFront \/ PopBack \/ Push) =>
                 \A n \in 0 .. MaxCapacity :
                    /\ capacity' # capacity
                    /\ current_size' + 2 < 2 * n /\ 2 * n < 3 * current_size' - 2
                    => ~ShellResize(n, capacity')]_vars
  BY <1>1, <1>2 DEF Settles
<1>4. Spec => []IInv
  BY VectorInvariant, PTL DEF IInv
<1>5. QED
  BY <1>3, <1>4, PTL DEF Spec, CapacitySettles

-----------------------------------------------------------------------------
(* Ownership                                                                 *)

\* The contents of n cells, and that no two of them hold the same.
Held(f, n)     == {f[i] : i \in 0 .. n - 1}
Distinct(f, n) == \A i, j \in 0 .. n - 1 : i # j => f[i] # f[j]

\* The inductive form of OwnedOnce, which no cardinality occurs in.
Packed == pack
OwnInv == Packed => /\ Distinct(cells, current_size)
                    /\ live = Held(cells, current_size) \cup lost
                    /\ Held(cells, current_size) \cap lost = {}

LEMMA CellAppended ==
    ASSUME NEW n \in Nat, NEW f, NEW g, \A i \in 0 .. n - 1 : g[i] = f[i]
    PROVE  /\ Held(g, n + 1) = Held(f, n) \cup {g[n]}
           /\ Distinct(f, n) /\ g[n] \notin Held(f, n) => Distinct(g, n + 1)
<1>1. \A i \in 0 .. n : i = n \/ i \in 0 .. n - 1
  OBVIOUS
<1>2. (n + 1) - 1 = n /\ n \in 0 .. n /\ \A i \in 0 .. n - 1 : i \in 0 .. n
  OBVIOUS
<1> QED BY <1>1, <1>2 DEF Held, Distinct

LEMMA CellPrepended ==
    ASSUME NEW n \in Nat, NEW f, NEW g, \A i \in 1 .. n : g[i] = f[i - 1]
    PROVE  /\ Held(g, n + 1) = Held(f, n) \cup {g[0]}
           /\ Distinct(f, n) /\ g[0] \notin Held(f, n) => Distinct(g, n + 1)
<1>1. /\ \A i \in 0 .. n : i = 0 \/ (i \in 1 .. n /\ i - 1 \in 0 .. n - 1)
      /\ (n + 1) - 1 = n /\ 0 \in 0 .. n
  OBVIOUS
<1>2. \A i \in 0 .. n - 1 : i + 1 \in 0 .. n /\ g[i + 1] = f[i]
  OBVIOUS
<1>3. Held(g, n + 1) = Held(f, n) \cup {g[0]}
  BY <1>1, <1>2 DEF Held
<1>4. ASSUME Distinct(f, n), g[0] \notin Held(f, n), NEW i \in 0 .. n, NEW j \in 0 .. n, i # j
      PROVE  g[i] # g[j]
  <2>1. CASE i # 0 /\ j # 0
    <3>1. i - 1 # j - 1
      BY <1>4
    <3> QED BY <1>1, <1>4, <2>1, <3>1 DEF Distinct
  <2>2. CASE i = 0
    BY <1>1, <1>4, <2>2 DEF Held
  <2>3. CASE j = 0
    BY <1>1, <1>4, <2>3 DEF Held
  <2> QED BY <2>1, <2>2, <2>3
<1> QED BY <1>1, <1>3, <1>4 DEF Distinct

LEMMA FirstDropped ==
    ASSUME NEW n \in Nat \ {0}, NEW f, NEW g, \A i \in 0 .. n - 2 : g[i] = f[i + 1], Distinct(f, n)
    PROVE  /\ Held(g, n - 1) = Held(f, n) \ {f[0]} /\ f[0] \in Held(f, n)
           /\ Distinct(g, n - 1)
<1>1. /\ (n - 1) - 1 = n - 2 /\ 0 \in 0 .. n - 1
      /\ \A i \in 0 .. n - 2 : i + 1 \in 0 .. n - 1 /\ i + 1 # 0
  OBVIOUS
<1>2. \A i \in 0 .. n - 1 : i = 0 \/ (i - 1 \in 0 .. n - 2 /\ g[i - 1] = f[i])
  OBVIOUS
<1>3. Held(g, n - 1) = Held(f, n) \ {f[0]} /\ f[0] \in Held(f, n)
  BY <1>1, <1>2 DEF Held, Distinct
<1>4. ASSUME NEW i \in 0 .. n - 2, NEW j \in 0 .. n - 2, i # j PROVE g[i] # g[j]
  <2>1. i + 1 # j + 1
    BY <1>4
  <2> QED BY <1>1, <2>1 DEF Distinct
<1> QED BY <1>1, <1>3, <1>4 DEF Distinct

LEMMA RestDropped ==
    ASSUME NEW n \in Nat, NEW m \in 0 .. n, NEW f, NEW g, \A i \in 0 .. m - 1 : g[i] = f[i],
           Distinct(f, n)
    PROVE  /\ Held(g, m) = Held(f, n) \ {f[i] : i \in m .. n - 1}
           /\ {f[i] : i \in m .. n - 1} \subseteq Held(f, n)
           /\ Distinct(g, m)
<1>1. /\ \A i \in 0 .. m - 1 : i \in 0 .. n - 1 /\ i \notin m .. n - 1
      /\ \A i \in m .. n - 1 : i \in 0 .. n - 1
      /\ \A i \in 0 .. n - 1 : i \in m .. n - 1 \/ i \in 0 .. m - 1
  OBVIOUS
<1> QED BY <1>1 DEF Held, Distinct

LEMMA CellReplaced ==
    ASSUME NEW n \in Nat, NEW k \in 0 .. n - 1, NEW f, NEW g,
           \A i \in 0 .. n - 1 : i # k => g[i] = f[i], Distinct(f, n), g[k] \notin Held(f, n)
    PROVE  /\ Held(g, n) = (Held(f, n) \ {f[k]}) \cup {g[k]} /\ f[k] \in Held(f, n)
           /\ Distinct(g, n)
  BY DEF Held, Distinct

-----------------------------------------------------------------------------
(* The buffers the operations leave, g, with the f they find.                *)

\* The cells of a buffer whose elements move up, move down or stay.
Up(f, n, c, x) == Buffer([i \in 0 .. n |-> IF i = 0 THEN x ELSE f[i - 1]], n + 1, c)
Down(f, n, c)  == Buffer([i \in 0 .. n - 2 |-> f[i + 1]], n - 1, c)

LEMMA MovedUp ==
    ASSUME NEW n \in Nat, NEW c \in Nat, n < c, NEW f, NEW x, NEW g, g = Up(f, n, c, x)
    PROVE  g[0] = x /\ \A i \in 1 .. n : g[i] = f[i - 1]
<1>1. \A i \in 0 .. n : i \in 0 .. c - 1 /\ i < n + 1
  OBVIOUS
<1>2. \A i \in 0 .. n : g[i] = IF i = 0 THEN x ELSE f[i - 1]
  BY <1>1 DEF Buffer, Up
<1> QED BY <1>2

LEMMA MovedDown ==
    ASSUME NEW n \in Nat \ {0}, NEW c \in Nat, n - 1 <= c, NEW f, NEW g, g = Down(f, n, c)
    PROVE  \A i \in 0 .. n - 2 : g[i] = f[i + 1]
<1>1. \A i \in 0 .. n - 2 : i \in 0 .. c - 1 /\ i < n - 1
  OBVIOUS
<1> QED BY <1>1 DEF Buffer, Down

LEMMA Kept ==
    ASSUME NEW c \in Nat, NEW m \in Nat, m <= c, NEW f, NEW g, g = Buffer(f, m, c)
    PROVE  \A i \in 0 .. m - 1 : g[i] = f[i]
<1>1. \A i \in 0 .. m - 1 : i \in 0 .. c - 1 /\ i < m
  OBVIOUS
<1> QED BY <1>1 DEF Buffer

\* A push at the back writes the cell behind the elements of a buffer that has room.
WithLast(f, n, c, x) == [Buffer(f, n, c) EXCEPT ![n] = x]

LEMMA PushedBack ==
    ASSUME NEW n \in Nat, NEW c \in Nat, n < c, NEW f, NEW x,
           NEW g, g = WithLast(f, n, c, x)
    PROVE  g[n] = x /\ \A i \in 0 .. n - 1 : g[i] = f[i]
<1>1. n \in 0 .. c - 1 /\ \A i \in 0 .. n - 1 : i # n /\ i \in 0 .. c - 1 /\ i < n
  OBVIOUS
<1> QED BY <1>1 DEF Buffer, WithLast

\* Set writes one cell.
LEMMA Overwritten ==
    ASSUME NEW n \in Nat, NEW c \in Nat, n <= c, NEW k \in 0 .. n - 1, NEW S,
           NEW f \in [0 .. c - 1 -> S], NEW x, NEW g, g = [f EXCEPT ![k] = x]
    PROVE  g[k] = x /\ \A i \in 0 .. n - 1 : i # k => g[i] = f[i]
  OBVIOUS

\* What a push at the front holds, and a pop.
LEMMA PushedFront ==
    ASSUME NEW n \in Nat, NEW c \in Nat, n < c, NEW f, NEW x, Distinct(f, n), x \notin Held(f, n),
           NEW g, g = Up(f, n, c, x)
    PROVE  Held(g, n + 1) = Held(f, n) \cup {x} /\ Distinct(g, n + 1)
<1>1. g[0] = x /\ \A i \in 1 .. n : g[i] = f[i - 1]
  BY MovedUp
<1>2. /\ Held(g, n + 1) = Held(f, n) \cup {g[0]}
      /\ Distinct(f, n) /\ g[0] \notin Held(f, n) => Distinct(g, n + 1)
  BY <1>1, CellPrepended
<1> QED BY <1>1, <1>2

LEMMA PoppedFront ==
    ASSUME NEW n \in Nat \ {0}, NEW c \in Nat, n - 1 <= c, NEW f, Distinct(f, n),
           NEW g, g = Down(f, n, c)
    PROVE  /\ Held(g, n - 1) = Held(f, n) \ {f[0]} /\ f[0] \in Held(f, n)
           /\ Distinct(g, n - 1)
<1>1. \A i \in 0 .. n - 2 : g[i] = f[i + 1]
  BY MovedDown
<1> QED BY <1>1, FirstDropped

\* A pop at the back and a resize keep the first m cells.
LEMMA Resized ==
    ASSUME NEW n \in Nat, NEW c \in Nat, NEW m \in 0 .. n, m <= c, NEW f, Distinct(f, n),
           NEW g, g = Buffer(f, m, c)
    PROVE  /\ Held(g, m) = Held(f, n) \ {f[i] : i \in m .. n - 1}
           /\ {f[i] : i \in m .. n - 1} \subseteq Held(f, n)
           /\ Distinct(g, m)
<1>1. \A i \in 0 .. m - 1 : g[i] = f[i]
  BY Kept
<1> QED BY <1>1, RestDropped

-----------------------------------------------------------------------------
\* A push takes an object that nothing points to.
LEMMA PushesOwn ==
    ASSUME IInv, OwnInv, Packed, NEW x \in Objects, PushBack(x) \/ PushFront(x) PROVE OwnInv'
<1>1. CASE Overrun
  BY <1>1 DEF Overrun, OwnInv, Packed
<1>2. CASE ~Overrun
  <2>1. /\ x \notin live /\ live' = live \cup {x} /\ lost' = lost
        /\ capacity' = CapacityForPush /\ current_size < CapacityForPush
        /\ current_size' = current_size + 1
    BY <1>2 DEF PushBack, PushFront, Stores, Packed
  <2>2. current_size \in Nat /\ capacity' \in Nat /\ current_size < capacity'
    BY <2>1, Growth, VectorAssumption DEF IInv, TypeOK
  <2>3. Distinct(cells, current_size) /\ x \notin Held(cells, current_size)
    BY <2>1 DEF OwnInv
  <2>4. /\ Held(cells', current_size + 1) = Held(cells, current_size) \cup {x}
        /\ Distinct(cells', current_size + 1)
    <3>1. CASE PushBack(x)
      <4>1. cells' = WithLast(cells, current_size, capacity', x)
        BY <1>2, <3>1 DEF PushBack, WithLast
      <4>2. cells'[current_size] = x /\ \A i \in 0 .. current_size - 1 : cells'[i] = cells[i]
        BY <2>2, <4>1, PushedBack
      <4>3. cells'[current_size] \notin Held(cells, current_size)
        BY <2>3, <4>2
      <4>4. Held(cells', current_size + 1) = Held(cells, current_size) \cup {cells'[current_size]}
        BY <2>2, <4>2, CellAppended
      <4>5. Distinct(cells', current_size + 1)
        BY <2>2, <2>3, <4>2, <4>3, CellAppended
      <4> QED BY <4>2, <4>4, <4>5
    <3>2. CASE PushFront(x)
      <4>1. cells' = Up(cells, current_size, capacity', x)
        BY <1>2, <2>1, <3>2 DEF PushFront, Up
      <4> QED BY <2>2, <2>3, <4>1, PushedFront
    <3> QED BY <3>1, <3>2
  <2> QED BY <2>1, <2>4 DEF OwnInv
<1> QED BY <1>1, <1>2

\* A pop frees the copy it drops and keeps the others.
LEMMA PopsOwn == ASSUME IInv, OwnInv, Packed, PopFront \/ PopBack PROVE OwnInv'
<1>1. /\ lost' = lost /\ current_size # 0
      /\ current_size' = current_size - 1
      /\ capacity' = CapacityAfterPop(current_size - 1)
  BY DEF PopFront, PopBack
<1>2. /\ current_size \in Nat \ {0} /\ capacity' \in Nat /\ current_size - 1 <= capacity'
  BY <1>1, Halving, VectorAssumption DEF IInv, TypeOK
<1>3. Distinct(cells, current_size)
  BY DEF OwnInv
<1>4. CASE PopFront
  <2>1. /\ live' = live \ {cells[0]}
        /\ cells' = Down(cells, current_size, capacity')
    BY <1>1, <1>4 DEF PopFront, Frees, Packed, Down
  <2>2. /\ Held(cells', current_size - 1) = Held(cells, current_size) \ {cells[0]}
        /\ cells[0] \in Held(cells, current_size) /\ Distinct(cells', current_size - 1)
    BY <1>2, <1>3, <2>1, PoppedFront
  <2> QED BY <1>1, <2>1, <2>2 DEF OwnInv
<1>5. CASE PopBack
  <2>1. /\ live' = live \ {cells[current_size - 1]}
        /\ cells' = Buffer(cells, current_size - 1, capacity')
    BY <1>1, <1>5 DEF PopBack, Frees, Packed
  <2>2. /\ current_size \in Nat /\ current_size - 1 \in 0 .. current_size
        /\ (current_size - 1) .. current_size - 1 = {current_size - 1}
    BY <1>2
  <2>3. /\ Held(cells', current_size - 1)
              = Held(cells, current_size) \ {cells[i] : i \in {current_size - 1}}
        /\ {cells[i] : i \in {current_size - 1}} \subseteq Held(cells, current_size)
        /\ Distinct(cells', current_size - 1)
    BY <1>2, <1>3, <2>1, <2>2, Resized
  <2> QED BY <1>1, <2>1, <2>3 DEF OwnInv
<1> QED BY <1>4, <1>5

LEMMA ResizeOwns ==
    ASSUME IInv, OwnInv, Packed, NEW n \in 0 .. MaxCapacity, Resize(n) PROVE OwnInv'
<1> DEFINE m == IF n < current_size THEN n ELSE current_size
<1>1. /\ lost' = lost /\ live' = live \ {cells[i] : i \in n .. current_size - 1}
      /\ current_size' = m /\ cells' = Buffer(cells, m, n)
  BY DEF Resize, Frees, Packed
<1>2. current_size \in Nat /\ n \in Nat
  BY VectorAssumption DEF IInv, TypeOK
<1>3. /\ m \in 0 .. current_size /\ m <= n
      /\ m .. current_size - 1 = n .. current_size - 1
  BY <1>2
<1> HIDE DEF m
<1>4. /\ Held(cells', m) = Held(cells, current_size) \ {cells[i] : i \in m .. current_size - 1}
      /\ {cells[i] : i \in m .. current_size - 1} \subseteq Held(cells, current_size)
      /\ Distinct(cells', m)
  <2>1. Distinct(cells, current_size)
    BY DEF OwnInv
  <2> QED BY <1>1, <1>2, <1>3, <2>1, Resized
<1> QED BY <1>1, <1>3, <1>4 DEF OwnInv

\* Set takes a new object in, and loses the one it overwrites.
LEMMA SetOwns ==
    ASSUME IInv, OwnInv, Packed, NEW k \in 0 .. MaxCapacity - 1, NEW x \in Objects, Set(k, x)
    PROVE  OwnInv'
<1>1. /\ k \in 0 .. current_size - 1 /\ x \notin live /\ live' = live \cup {x}
      /\ lost' = lost \cup {cells[k]} /\ current_size' = current_size
  BY DEF Set, Stores, Packed
<1>2. /\ current_size \in Nat /\ capacity \in Nat /\ current_size <= capacity
      /\ cells \in [0 .. capacity - 1 -> Cell]
  BY VectorAssumption DEF IInv, TypeOK, BufferSafe
<1>3. cells'[k] = x /\ \A i \in 0 .. current_size - 1 : i # k => cells'[i] = cells[i]
  <2>1. cells' = [cells EXCEPT ![k] = x]
    BY DEF Set
  <2> QED BY <1>1, <1>2, <2>1, Overwritten
<1>4. Distinct(cells, current_size) /\ cells'[k] \notin Held(cells, current_size)
  BY <1>1, <1>3 DEF OwnInv
<1>5. /\ Held(cells', current_size) = (Held(cells, current_size) \ {cells[k]}) \cup {cells'[k]}
      /\ cells[k] \in Held(cells, current_size) /\ Distinct(cells', current_size)
  BY <1>1, <1>2, <1>3, <1>4, CellReplaced
<1> QED BY <1>1, <1>3, <1>5 DEF OwnInv

LEMMA FreeOwns == ASSUME IInv, OwnInv, Packed, FreeVector PROVE OwnInv'
<1>1. /\ lost' = lost /\ live' = live \ {cells[i] : i \in 0 .. current_size - 1}
      /\ current_size' = 0
  BY DEF FreeVector, Frees, Packed
<1>2. Held(cells', 0) = {} /\ Distinct(cells', 0)
  BY DEF Held, Distinct
<1> QED BY <1>1, <1>2 DEF OwnInv, Held

\* A vector with a pack owns every copy once and loses one only to Set, through
\* every reallocation: nothing is freed twice and nothing is freed while it is
\* an element.
THEOREM OwnedOnceHolds == Spec => []OwnedOnce
<1>1. Init => OwnInv
  BY DEF Init, OwnInv, Held, Distinct
<1>2. IInv /\ OwnInv /\ [Next]_vars => OwnInv'
  <2>1. ASSUME IInv, OwnInv, [Next]_vars, Packed PROVE OwnInv'
    <3>1. CASE UNCHANGED vars
      BY <2>1, <3>1 DEF vars, OwnInv, Packed
    <3> QED BY <2>1, <3>1, PushesOwn, PopsOwn, ResizeOwns, SetOwns, FreeOwns DEF Next
  <2>2. ASSUME [Next]_vars PROVE Packed' = Packed
    BY <2>2, Zenon DEF Packed, Next, vars, PushBack, PushFront, Overrun, PopFront, PopBack, Resize, Set,
                       FreeVector
  <2>3. ASSUME ~Packed' PROVE OwnInv'
    BY <2>3 DEF OwnInv
  <2> QED BY <2>1, <2>2, <2>3
<1>3. IInv /\ OwnInv => OwnedOnce
  <2> SUFFICES ASSUME IInv, OwnInv, Packed PROVE OwnedOnce
    BY DEF OwnedOnce, Packed
  <2> DEFINE n == current_size
             g == [i \in 1 .. n |-> cells[i - 1]]
  <2>1. n \in Nat
    BY VectorAssumption DEF IInv, TypeOK
  <2>2. /\ \A i \in 1 .. n : i - 1 \in 0 .. n - 1
        /\ \A i \in 0 .. n - 1 : i + 1 \in 1 .. n /\ cells[i] = g[i + 1]
        /\ \A i, j \in 1 .. n : i # j => i - 1 # j - 1
    BY <2>1
  <2>3. g \in [1 .. n -> Stored]
    BY <2>2 DEF Stored
  <2>4. \A i, j \in 1 .. n : g[i] = g[j] => i = j
    BY <2>2 DEF OwnInv, Distinct
  <2>5. \A y \in Stored : \E i \in 1 .. n : g[i] = y
    BY <2>2 DEF Stored
  <2>6. ExistsBijection(1 .. n, Stored)
    <3> HIDE DEF g
    <3>1. g \in Bijection(1 .. n, Stored)
      BY <2>3, <2>4, <2>5, Fun_IsBij
    <3> QED BY <3>1 DEF ExistsBijection
  <2>7. Cardinality(Stored) = n
    BY <2>1, <2>6, FS_CountingElements
  <2> QED BY <2>7 DEF OwnedOnce, OwnInv, Held, Stored
<1>4. Spec => []IInv
  BY VectorInvariant, PTL DEF IInv
<1> QED BY <1>1, <1>2, <1>3, <1>4, PTL DEF Spec

-----------------------------------------------------------------------------
(* The sequence of elements                                                  *)

\* The contents of the first n cells, as a sequence.
View(f, n)      == [i \in 1 .. n |-> f[i - 1]]
Filled(f, n, S) == \A i \in 0 .. n - 1 : f[i] \in S

LEMMA ViewIsSeq ==
    ASSUME NEW n \in Nat, NEW f, NEW S, Filled(f, n, S)
    PROVE  /\ View(f, n) \in Seq(S) /\ Len(View(f, n)) = n
           /\ \A i \in 1 .. n : View(f, n)[i] = f[i - 1]
<1>1. \A i \in 1 .. n : i - 1 \in 0 .. n - 1
  OBVIOUS
<1>2. View(f, n) \in [1 .. n -> S]
  BY <1>1 DEF View, Filled
<1>3. View(f, n) \in Seq(S)
  BY <1>2, SeqDef
<1> QED BY <1>2, <1>3, LenProperties DEF View

\* A sequence is a view when it has its elements.
LEMMA IsView ==
    ASSUME NEW n \in Nat, NEW f, NEW S, NEW s \in Seq(S), Filled(f, n, S), Len(s) = n,
           \A i \in 1 .. n : s[i] = f[i - 1]
    PROVE  View(f, n) = s
  BY ViewIsSeq, SeqEqual

LEMMA ViewAppend ==
    ASSUME NEW n \in Nat, NEW f, NEW g, NEW S, Filled(f, n, S), Filled(g, n + 1, S),
           \A i \in 0 .. n - 1 : g[i] = f[i]
    PROVE  View(g, n + 1) = Append(View(f, n), g[n])
<1> DEFINE s == Append(View(f, n), g[n])
<1>1. n \in 0 .. (n + 1) - 1 /\ g[n] \in S
  BY DEF Filled
<1>2. /\ s \in Seq(S) /\ Len(s) = n + 1 /\ s[n + 1] = g[n]
      /\ \A i \in 1 .. n : s[i] = f[i - 1]
  BY <1>1, ViewIsSeq, AppendProperties
<1>3. ASSUME NEW i \in 1 .. n + 1 PROVE s[i] = g[i - 1]
  <2>1. CASE i = n + 1
    BY <1>2, <2>1
  <2>2. CASE i \in 1 .. n
    <3>1. i - 1 \in 0 .. n - 1
      BY <2>2
    <3> QED BY <1>2, <2>2, <3>1
  <2>3. i = n + 1 \/ i \in 1 .. n
    OBVIOUS
  <2> QED BY <2>1, <2>2, <2>3
<1> HIDE DEF s
<1>4. View(g, n + 1) = s
  BY <1>2, <1>3, IsView
<1> QED BY <1>4 DEF s

LEMMA ViewCons ==
    ASSUME NEW n \in Nat, NEW f, NEW g, NEW S, Filled(f, n, S), Filled(g, n + 1, S),
           \A i \in 1 .. n : g[i] = f[i - 1]
    PROVE  View(g, n + 1) = <<g[0]>> \o View(f, n)
<1> DEFINE s == <<g[0]>> \o View(f, n)
<1>1. 0 \in 0 .. (n + 1) - 1 /\ g[0] \in S
  BY DEF Filled
<1>2. <<g[0]>> \in Seq(S) /\ Len(<<g[0]>>) = 1 /\ <<g[0]>>[1] = g[0]
  BY <1>1
<1>3. /\ s \in Seq(S) /\ Len(s) = 1 + n
      /\ \A i \in 1 .. 1 + n : s[i] = IF i <= 1 THEN <<g[0]>>[i] ELSE View(f, n)[i - 1]
  BY <1>2, ViewIsSeq, ConcatProperties
<1>4. ASSUME NEW i \in 1 .. n + 1 PROVE s[i] = g[i - 1]
  <2>1. CASE i = 1
    BY <1>2, <1>3, <2>1
  <2>2. CASE i # 1
    <3>1. i - 1 \in 1 .. n /\ i \in 1 .. 1 + n /\ ~(i <= 1)
      BY <2>2
    <3>2. s[i] = View(f, n)[i - 1]
      BY <1>3, <3>1
    <3>3. View(f, n)[i - 1] = f[(i - 1) - 1]
      BY <3>1, ViewIsSeq
    <3> QED BY <3>1, <3>2, <3>3
  <2> QED BY <2>1, <2>2
<1> HIDE DEF s
<1>5. View(g, n + 1) = s
  BY <1>3, <1>4, IsView
<1> QED BY <1>5 DEF s

LEMMA ViewTail ==
    ASSUME NEW n \in Nat \ {0}, NEW f, NEW g, NEW S, Filled(f, n, S), Filled(g, n - 1, S),
           \A i \in 0 .. n - 2 : g[i] = f[i + 1]
    PROVE  View(f, n) # <<>> /\ View(g, n - 1) = Tail(View(f, n))
<1>1. View(f, n) # <<>>
  BY ViewIsSeq, EmptySeq
<1> DEFINE s == Tail(View(f, n))
<1>2. /\ s \in Seq(S) /\ Len(s) = n - 1
      /\ \A i \in 1 .. n - 1 : s[i] = View(f, n)[i + 1]
  BY <1>1, ViewIsSeq, HeadTailProperties
<1>3. ASSUME NEW i \in 1 .. n - 1 PROVE s[i] = g[i - 1]
  <2>1. i + 1 \in 1 .. n /\ i - 1 \in 0 .. n - 2 /\ (i - 1) + 1 = (i + 1) - 1
    OBVIOUS
  <2>2. View(f, n)[i + 1] = f[(i + 1) - 1]
    BY <2>1, ViewIsSeq
  <2> QED BY <1>2, <2>1, <2>2
<1> HIDE DEF s
<1>4. View(g, n - 1) = s
  BY <1>2, <1>3, IsView
<1> QED BY <1>1, <1>4 DEF s

LEMMA ViewPrefix ==
    ASSUME NEW n \in Nat, NEW m \in 0 .. n, NEW f, NEW g, NEW S, Filled(f, n, S), Filled(g, m, S),
           \A i \in 0 .. m - 1 : g[i] = f[i]
    PROVE  View(g, m) = SubSeq(View(f, n), 1, m)
<1> DEFINE s == SubSeq(View(f, n), 1, m)
<1>1. \A i \in 1 .. m : i \in 1 .. n /\ i - 1 \in 0 .. n - 1 /\ i - 1 \in 0 .. m - 1
  OBVIOUS
<1>2. \A i \in 1 .. m : View(f, n)[i] = f[i - 1] /\ View(f, n)[i] \in S
  BY <1>1, ViewIsSeq DEF Filled
<1> DEFINE v == View(f, n)
<1> HIDE DEF v
<1>3. /\ SubSeq(v, 1, m) \in Seq(S) /\ Len(SubSeq(v, 1, m)) = IF 1 <= m THEN m - 1 + 1 ELSE 0
      /\ \A i \in 1 .. m - 1 + 1 : SubSeq(v, 1, m)[i] = v[1 + i - 1]
  BY <1>2, SubSeqProperties DEF v
<1>4. s \in Seq(S) /\ Len(s) = m /\ \A i \in 1 .. m : s[i] = g[i - 1]
  BY <1>1, <1>2, <1>3 DEF v
<1> HIDE DEF s
<1>5. View(g, m) = s
  BY <1>4, IsView
<1> QED BY <1>5 DEF s

Assigned(s, i, x) == [s EXCEPT ![i] = x]

LEMMA ViewExcept ==
    ASSUME NEW n \in Nat, NEW k \in 0 .. n - 1, NEW f, NEW g, NEW S, Filled(f, n, S), Filled(g, n, S),
           \A i \in 0 .. n - 1 : i # k => g[i] = f[i]
    PROVE  View(g, n) = Assigned(View(f, n), k + 1, g[k])
<1> DEFINE s == [View(f, n) EXCEPT ![k + 1] = g[k]]
<1>1. k + 1 \in 1 .. n /\ g[k] \in S
  BY DEF Filled
<1>2. /\ s \in Seq(S) /\ Len(s) = n
      /\ \A j \in 1 .. n : s[j] = IF j = k + 1 THEN g[k] ELSE View(f, n)[j]
  BY <1>1, ViewIsSeq, ExceptSeq
<1>3. ASSUME NEW i \in 1 .. n PROVE s[i] = g[i - 1]
  <2>1. i - 1 \in 0 .. n - 1 /\ (i = k + 1 <=> i - 1 = k)
    OBVIOUS
  <2> QED BY <1>2, <2>1, ViewIsSeq
<1> HIDE DEF s
<1>4. View(g, n) = s
  BY <1>2, <1>3, IsView
<1> QED BY <1>4 DEF s, Assigned

-----------------------------------------------------------------------------
(* Each operation edits the sequence.                                        *)

LEMMA ContentsView ==
    ASSUME IInv
    PROVE  /\ Contents = View(cells, current_size)
           /\ current_size \in Nat /\ capacity \in Nat /\ current_size <= capacity
           /\ Filled(cells, current_size, Objects)
           /\ DOMAIN Contents = 1 .. current_size
  BY VectorAssumption DEF IInv, TypeOK, BufferSafe, Contents, View, Filled

LEMMA ContentsViewNext ==
    ASSUME IInv'
    PROVE  /\ Contents' = View(cells', current_size')
           /\ current_size' \in Nat /\ capacity' \in Nat /\ current_size' <= capacity'
           /\ Filled(cells', current_size', Objects)
<1>1. /\ capacity' \in 0 .. MaxCapacity /\ current_size' \in 0 .. MaxCapacity
      /\ current_size' <= capacity'
      /\ \A i \in 0 .. current_size' - 1 : cells'[i] \in Objects
  <2>1. TypeOK' /\ BufferSafe'
    BY DEF IInv
  <2>2. capacity' \in 0 .. MaxCapacity /\ current_size' \in 0 .. MaxCapacity
    BY <2>1 DEF TypeOK
  <2>3. current_size' <= capacity' /\ \A i \in 0 .. current_size' - 1 : cells'[i] \in Objects
    BY <2>1 DEF BufferSafe
  <2> QED BY <2>2, <2>3
<1>2. Contents' = View(cells', current_size')
  BY DEF Contents, View
<1>3. Filled(cells', current_size', Objects)
  BY <1>1 DEF Filled
<1>4. current_size' \in Nat /\ capacity' \in Nat
  BY <1>1, VectorAssumption
<1> QED BY <1>1, <1>2, <1>3, <1>4

LEMMA PushBackEdits ==
    ASSUME IInv, IInv', NEW x \in Objects, PushBack(x)
    PROVE  IF Overrun THEN Contents' = Contents ELSE Contents' = Append(Contents, x)
<1>1. CASE Overrun
  BY <1>1 DEF Overrun, Contents
<1>2. CASE ~Overrun
  <2>1. /\ current_size' = current_size + 1 /\ current_size < capacity'
        /\ cells' = WithLast(cells, current_size, capacity', x)
    BY <1>2 DEF PushBack, WithLast
  <2>2. cells'[current_size] = x /\ \A i \in 0 .. current_size - 1 : cells'[i] = cells[i]
    BY <2>1, ContentsView, ContentsViewNext, PushedBack
  <2>3. Filled(cells', current_size + 1, Objects)
    BY <2>1, ContentsViewNext
  <2>4. View(cells', current_size + 1) = Append(View(cells, current_size), cells'[current_size])
    BY <2>2, <2>3, ContentsView, ViewAppend
  <2> QED BY <1>2, <2>1, <2>2, <2>4, ContentsView, ContentsViewNext
<1> QED BY <1>1, <1>2

LEMMA PushFrontEdits ==
    ASSUME IInv, IInv', NEW x \in Objects, PushFront(x)
    PROVE  IF Overrun THEN Contents' = Contents ELSE Contents' = <<x>> \o Contents
<1>1. CASE Overrun
  BY <1>1 DEF Overrun, Contents
<1>2. CASE ~Overrun
  <2>1. /\ current_size' = current_size + 1 /\ current_size < capacity'
        /\ cells' = Up(cells, current_size, capacity', x)
    BY <1>2 DEF PushFront, Up
  <2>2. cells'[0] = x /\ \A i \in 1 .. current_size : cells'[i] = cells[i - 1]
    BY <2>1, ContentsView, ContentsViewNext, MovedUp
  <2>3. Filled(cells', current_size + 1, Objects)
    BY <2>1, ContentsViewNext
  <2>4. View(cells', current_size + 1) = <<cells'[0]>> \o View(cells, current_size)
    BY <2>2, <2>3, ContentsView, ViewCons
  <2> QED BY <1>2, <2>1, <2>2, <2>4, ContentsView, ContentsViewNext
<1> QED BY <1>1, <1>2

LEMMA PopFrontEdits ==
    ASSUME IInv, IInv', PopFront
    PROVE  Contents # <<>> /\ Contents' = Tail(Contents)
<1>1. /\ current_size \in Nat \ {0} /\ current_size' = current_size - 1
      /\ cells' = Down(cells, current_size, capacity') /\ current_size - 1 <= capacity'
  BY ContentsView, ContentsViewNext DEF PopFront, Down
<1>2. \A i \in 0 .. current_size - 2 : cells'[i] = cells[i + 1]
  BY <1>1, ContentsViewNext, MovedDown
<1>3. Filled(cells', current_size - 1, Objects)
  BY <1>1, ContentsViewNext
<1>4. /\ View(cells, current_size) # <<>>
      /\ View(cells', current_size - 1) = Tail(View(cells, current_size))
  BY <1>1, <1>2, <1>3, ContentsView, ViewTail
<1> QED BY <1>1, <1>4, ContentsView, ContentsViewNext

\* What keeps the first m cells truncates the sequence there.
LEMMA KeepingEdits ==
    ASSUME IInv, IInv', NEW m \in 0 .. current_size, current_size' = m,
           cells' = Buffer(cells, m, capacity')
    PROVE  Contents' = SubSeq(Contents, 1, m)
<1>1. m <= capacity'
  BY ContentsViewNext
<1>2. \A i \in 0 .. m - 1 : cells'[i] = cells[i]
  BY <1>1, ContentsView, ContentsViewNext, Kept
<1>3. View(cells', m) = SubSeq(View(cells, current_size), 1, m)
  BY <1>2, ContentsView, ContentsViewNext, ViewPrefix
<1> QED BY <1>3, ContentsView, ContentsViewNext

LEMMA PopBackEdits ==
    ASSUME IInv, IInv', PopBack
    PROVE  Contents # <<>> /\ Contents' = SubSeq(Contents, 1, Len(Contents) - 1)
<1>1. /\ current_size \in Nat \ {0} /\ current_size' = current_size - 1
      /\ cells' = Buffer(cells, current_size - 1, capacity')
      /\ current_size - 1 \in 0 .. current_size
  BY ContentsView DEF PopBack
<1>2. Contents' = SubSeq(Contents, 1, current_size - 1)
  BY <1>1, KeepingEdits
<1>3. Contents \in Seq(Objects) /\ Len(Contents) = current_size
  BY ContentsView, ViewIsSeq
<1> QED BY <1>1, <1>2, <1>3, EmptySeq

LEMMA ResizeEdits ==
    ASSUME IInv, IInv', NEW n \in 0 .. MaxCapacity, Resize(n)
    PROVE  Contents' = IF n < current_size THEN SubSeq(Contents, 1, n) ELSE Contents
<1> DEFINE m == IF n < current_size THEN n ELSE current_size
<1>1. m \in 0 .. current_size /\ current_size' = m /\ cells' = Buffer(cells, m, capacity')
  BY ContentsView, VectorAssumption DEF Resize
<1>2. Contents' = SubSeq(Contents, 1, m)
  BY <1>1, KeepingEdits
<1>3. Contents \in Seq(Objects) /\ Len(Contents) = current_size
  BY ContentsView, ViewIsSeq
<1> QED BY <1>2, <1>3, SubSeqFull

LEMMA SetEdits ==
    ASSUME IInv, IInv', NEW k \in 0 .. current_size - 1, NEW x \in Objects, Set(k, x)
    PROVE  Contents' = [Contents EXCEPT ![k + 1] = x]
<1>1. /\ current_size' = current_size /\ cells' = [cells EXCEPT ![k] = x]
      /\ cells \in [0 .. capacity - 1 -> Cell]
  BY DEF Set, IInv, TypeOK
<1>2. cells'[k] = x /\ \A i \in 0 .. current_size - 1 : i # k => cells'[i] = cells[i]
  BY <1>1, ContentsView, Overwritten
<1>3. Filled(cells', current_size, Objects)
  BY <1>1, ContentsViewNext
<1>4. View(cells', current_size) = Assigned(View(cells, current_size), k + 1, cells'[k])
  BY <1>2, <1>3, ContentsView, ViewExcept
<1>5. Contents' = Assigned(Contents, k + 1, x)
  BY <1>1, <1>2, <1>4, ContentsView, ContentsViewNext
<1> QED BY <1>5 DEF Assigned

LEMMA FreeEdits ==
    ASSUME IInv, IInv', FreeVector PROVE Contents' = SubSeq(Contents, 1, 0)
<1>1. current_size' = 0 /\ cells' = Buffer(cells, 0, capacity') /\ 0 \in 0 .. current_size
  BY ContentsView DEF FreeVector
<1> QED BY <1>1, KeepingEdits

-----------------------------------------------------------------------------
\* Every step of the vector is an edit of its sequence of elements or leaves it
\* alone.
LEMMA StepEdits == IInv /\ IInv' /\ [Next]_vars => [Promise!Next]_Contents
<1> SUFFICES ASSUME IInv, IInv', [Next]_vars, Contents' # Contents PROVE Promise!Next
  OBVIOUS
<1>1. ASSUME NEW x \in Objects, PushBack(x) \/ PushFront(x) PROVE Promise!Next
  BY <1>1, PushBackEdits, PushFrontEdits
     DEF Promise!Next, Promise!PushBack, Promise!PushFront, Promise!Cons
<1>2. CASE PopFront
  BY <1>2, PopFrontEdits DEF Promise!Next, Promise!PopFront
<1>3. CASE PopBack
  BY <1>3, PopBackEdits DEF Promise!Next, Promise!PopBack, Promise!Front
<1>4. ASSUME NEW n \in 0 .. MaxCapacity, Resize(n) PROVE Promise!Next
  <2>1. n < current_size /\ Contents' = SubSeq(Contents, 1, n)
    BY <1>4, ResizeEdits
  <2>2. n + 1 \in DOMAIN Contents /\ (n + 1) - 1 = n
    BY <2>1, ContentsView
  <2>3. Promise!Truncate((n + 1) - 1)
    BY <2>1, <2>2 DEF Promise!Truncate
  <2> QED BY <2>2, <2>3 DEF Promise!Next
<1>5. ASSUME NEW k \in 0 .. MaxCapacity - 1, NEW x \in Objects, Set(k, x) PROVE Promise!Next
  <2>1. k \in 0 .. current_size - 1
    BY <1>5 DEF Set
  <2>2. Contents' = [Contents EXCEPT ![k + 1] = x]
    BY <1>5, <2>1, SetEdits
  <2>3. k + 1 \in DOMAIN Contents
    BY <2>1, ContentsView
  <2>4. Promise!Assign(k + 1, x)
    BY <2>2 DEF Promise!Assign, Promise!ReplaceAt
  <2> QED BY <2>3, <2>4 DEF Promise!Next
<1>6. CASE FreeVector
  <2>1. Contents' = SubSeq(Contents, 1, 0)
    BY <1>6, FreeEdits
  <2>2. current_size # 0
    <3>1. ASSUME current_size = 0 PROVE FALSE
      <4>1. current_size' = 0 /\ View(cells, 0) = View(cells', 0)
        BY <1>6 DEF FreeVector, View
      <4> QED BY <3>1, <4>1, ContentsView, ContentsViewNext
    <3> QED BY <3>1
  <2>3. 1 \in DOMAIN Contents /\ 1 - 1 = 0
    BY <2>2, ContentsView
  <2>4. Promise!Truncate(1 - 1)
    BY <2>1, <2>3 DEF Promise!Truncate
  <2> QED BY <2>3, <2>4 DEF Promise!Next
<1>7. CASE UNCHANGED vars
  BY <1>7 DEF vars, Contents
<1> QED BY <1>1, <1>2, <1>3, <1>4, <1>5, <1>6, <1>7 DEF Next

\* The vector is the sequence it promises, for every element set and bound on
\* the capacity: its steps are edits, each operation the edit it is named for.
THEOREM SequenceImplemented == Spec => ImplementsSequence
<1>1. Init => Promise!Init
  BY DEF Init, Promise!Init, Contents
<1>2. IInv /\ IInv' /\ [Next]_vars =>
        [status' = "usable" =>
            /\ \A x \in Objects : /\ PushBack(x)  => Promise!PushBack(x)
                                  /\ PushFront(x) => Promise!PushFront(x)
            /\ PopBack  => Promise!PopBack
            /\ PopFront => Promise!PopFront
            /\ \A n \in 0 .. current_size : Resize(n) => Promise!Truncate(n)
            /\ \A i \in 0 .. current_size - 1, x \in Objects :
                    Set(i, x) => Promise!Assign(i + 1, x)]_vars
  <2> SUFFICES ASSUME IInv, IInv', status' = "usable"
               PROVE  /\ \A x \in Objects : /\ PushBack(x)  => Promise!PushBack(x)
                                            /\ PushFront(x) => Promise!PushFront(x)
                      /\ PopBack  => Promise!PopBack
                      /\ PopFront => Promise!PopFront
                      /\ \A n \in 0 .. current_size : Resize(n) => Promise!Truncate(n)
                      /\ \A i \in 0 .. current_size - 1, x \in Objects :
                              Set(i, x) => Promise!Assign(i + 1, x)
    OBVIOUS
  <2>1. ~Overrun
    BY DEF Overrun
  <2>2. ASSUME NEW x \in Objects PROVE /\ PushBack(x)  => Promise!PushBack(x)
                                       /\ PushFront(x) => Promise!PushFront(x)
    BY <2>1, PushBackEdits, PushFrontEdits DEF Promise!PushBack, Promise!PushFront, Promise!Cons
  <2>3. PopBack => Promise!PopBack
    BY PopBackEdits DEF Promise!PopBack, Promise!Front
  <2>4. PopFront => Promise!PopFront
    BY PopFrontEdits DEF Promise!PopFront
  <2>5. ASSUME NEW n \in 0 .. current_size, Resize(n) PROVE Promise!Truncate(n)
    <3>1. n \in 0 .. MaxCapacity
      BY <2>5 DEF Resize
    <3>2. Contents' = IF n < current_size THEN SubSeq(Contents, 1, n) ELSE Contents
      BY <2>5, <3>1, ResizeEdits
    <3>3. Contents \in Seq(Objects) /\ Len(Contents) = current_size
      BY ContentsView, ViewIsSeq
    <3>4. SubSeq(Contents, 1, current_size) = Contents
      BY <3>3, SubSeqFull
    <3>5. n < current_size \/ n = current_size
      BY ContentsView
    <3> QED BY <3>2, <3>4, <3>5 DEF Promise!Truncate
  <2>6. ASSUME NEW i \in 0 .. current_size - 1, NEW x \in Objects, Set(i, x)
        PROVE  Promise!Assign(i + 1, x)
    BY <2>6, SetEdits DEF Promise!Assign, Promise!ReplaceAt
  <2> QED BY <2>2, <2>3, <2>4, <2>5, <2>6
<1>3. Spec => []IInv
  BY VectorInvariant, PTL DEF IInv
<1> QED BY <1>1, <1>2, <1>3, StepEdits, PTL DEF Spec, ImplementsSequence, Promise!Spec

-----------------------------------------------------------------------------
(* The adapters.  Every step of an adapter is a step of its vector, so the   *)
(* vector's invariant carries over; as resizing is not among those steps,    *)
(* the buffer keeps its cells as well.                                       *)

\* Capacity zero is where a push overruns the buffer, and an adapter's vector
\* keeps away from it.
AInv == /\ IInv
        /\ handed \in Int
        /\ kind # "vector" => capacity # 0 /\ status # "undefined"
        /\ AdaptersStayInside

LEMMA AdapterStepIsVectorStep == AdapterNext => [Next]_vars
  BY DEF AdapterNext, StackPush, QueuePush, DequePushBack, DequePushFront,
         StackPop, QueuePop, DequePopFront, DequePopBack, DestroyAdapter, Next

LEMMA VectorStepPreserves == IInv /\ [Next]_vars => IInv'
  BY PushesPreserve, PopsPreserve, OthersPreserve DEF Next

\* A push through an adapter finds a buffer with cells, so there is room.
LEMMA PushStaysInside ==
    ASSUME IInv, capacity # 0, NEW x \in Objects, PushBack(x) \/ PushFront(x)
    PROVE  /\ capacity' # 0 /\ status' = "usable"
           /\ status = "usable"
           /\ ~Sparse(current_size, capacity) => ~Sparse(current_size', capacity')
<1> USE VectorAssumption DEF IInv
<1>1. current_size < CapacityForPush /\ CapacityForPush # 0
  BY Growth DEF TypeOK
<1>2. ~Overrun
  BY <1>1, Growth DEF Overrun, TypeOK
<1>3. capacity' # 0 /\ status' = "usable" /\ status = "usable"
  BY <1>1, <1>2 DEF PushBack, PushFront, Usable
<1>4. QED
  BY <1>3, PushSettles DEF Settles

\* After a pop the first cell past the elements is inside the buffer.
LEMMA PopStaysInside ==
    ASSUME IInv, PopFront \/ PopBack
    PROVE  /\ capacity' # 0 /\ status' = "usable" /\ current_size - 1 < capacity'
           /\ status = "usable"
           /\ ~Sparse(current_size, capacity) => ~Sparse(current_size', capacity')
<1>1. /\ current_size # 0 /\ current_size' = current_size - 1
      /\ capacity' = CapacityAfterPop(current_size - 1)
      /\ status' = "usable" /\ status = "usable"
  BY DEF PopFront, PopBack, Usable
<1>2. current_size \in Nat /\ capacity \in Nat /\ current_size <= capacity
  BY VectorAssumption DEF IInv, TypeOK, BufferSafe
<1>3. /\ capacity' \in Nat /\ capacity' # 0
      /\ capacity' < capacity => 2 * (current_size - 1) <= capacity'
      /\ current_size - 1 <= capacity'
  BY <1>1, Halving, VectorAssumption DEF IInv
<1>4. ~Sparse(current_size, capacity) => ~Sparse(current_size', capacity')
  BY PopSettles DEF Settles
<1>5. QED
  BY <1>1, <1>2, <1>3, <1>4

\* Through a stack, a queue or a deque no push ever stores outside the buffer,
\* and the cell a stack's Pop points to lies inside the buffer, whatever the
\* bound on the capacity.
THEOREM AdaptersStayInsideHolds == AdapterSpec => []AdaptersStayInside
<1>1. AdapterInit => AInv
  BY VectorAssumption
     DEF AdapterInit, Init, AInv, IInv, TypeOK, BufferSafe, Cell, AdaptersStayInside, NoCell,
         Sparse
<1>2. AInv /\ [AdapterNext]_adapterVars => AInv'
  <2> SUFFICES ASSUME AInv, [AdapterNext]_adapterVars PROVE AInv'
    OBVIOUS
  <2>1. IInv'
    BY AdapterStepIsVectorStep, VectorStepPreserves DEF AInv, adapterVars, vars
  <2>2. CASE kind = "vector" /\ AdapterNext
    <3>1. kind' = "vector" /\ handed' \in Int
      BY <2>2 DEF AdapterNext, StackPop, AInv, NoCell
    <3>2. QED
      BY <2>1, <3>1 DEF AInv, AdaptersStayInside
  <2>3. CASE kind # "vector" /\ AdapterNext
    <3>1. kind' = kind /\ kind # "vector" /\ capacity # 0 /\ status # "undefined"
      BY <2>3 DEF AdapterNext, AInv
    <3>2. CASE StackPop
      <4>1. current_size \in Int
        BY VectorAssumption DEF AInv, IInv, TypeOK
      <4>2. CASE current_size = 0 /\ UNCHANGED vars
        BY <2>1, <3>1, <3>2, <4>2 DEF StackPop, StackTop, vars, AInv, AdaptersStayInside, NoCell
      <4>3. CASE PopBack
        <5>1. handed' = current_size - 1 /\ current_size' = current_size - 1
          BY <3>2, <4>3 DEF StackPop, StackTop, PopBack
        <5>2. /\ capacity' # 0 /\ status' = "usable" /\ current_size - 1 < capacity'
              /\ ~Sparse(current_size', capacity')
          BY <3>1, <4>3, PopStaysInside DEF AInv, AdaptersStayInside
        <5>3. QED
          BY <2>1, <4>1, <5>1, <5>2 DEF AInv, AdaptersStayInside
      <4>4. QED
        BY <3>2, <4>2, <4>3 DEF StackPop
    <3>3. CASE handed' = NoCell /\ \E x \in Objects : PushBack(x) \/ PushFront(x)
      <4>1. capacity' # 0 /\ status' = "usable" /\ ~Sparse(current_size', capacity')
        BY <3>1, <3>3, PushStaysInside DEF AInv, AdaptersStayInside
      <4>2. QED
        BY <2>1, <3>3, <4>1 DEF AInv, AdaptersStayInside, NoCell
    <3>4. CASE handed' = NoCell /\ (PopFront \/ PopBack)
      <4>1. capacity' # 0 /\ status' = "usable" /\ ~Sparse(current_size', capacity')
        BY <3>1, <3>4, PopStaysInside DEF AInv, AdaptersStayInside
      <4>2. QED
        BY <2>1, <3>4, <4>1 DEF AInv, AdaptersStayInside, NoCell
    <3>5. CASE handed' = NoCell /\ DestroyAdapter
      BY <2>1, <3>1, <3>5 DEF DestroyAdapter, FreeVector, AInv, AdaptersStayInside, NoCell
    <3>6. QED
      BY <2>3, <3>2, <3>3, <3>4, <3>5
         DEF AdapterNext, StackPush, QueuePush, DequePushBack, DequePushFront,
             QueuePop, DequePopFront, DequePopBack
  <2>4. CASE UNCHANGED adapterVars
    BY <2>1, <2>4 DEF adapterVars, vars, AInv, AdaptersStayInside
  <2>5. QED
    BY <2>2, <2>3, <2>4
<1>3. AInv => AdaptersStayInside
  BY DEF AInv
<1>4. QED
  BY <1>1, <1>2, <1>3, PTL DEF AdapterSpec

-----------------------------------------------------------------------------
(* The string.                                                               *)

Byte == Chars \cup {NUL}

\* The inductive invariant.  The status is left out of it: what stops the model
\* leaves the string as it was.
StringInv == /\ is_heap_flag \in BOOLEAN
             /\ str_size \in Nat /\ str_capacity \in Nat
             /\ str_size <= str_capacity /\ str_capacity <= SizeMax
             /\ \A i \in 0 .. str_size - 1 : bytes[i] \in Byte
             /\ bytes[str_size] = NUL
             /\ is_heap_flag \/ str_capacity = SsoSize

-----------------------------------------------------------------------------
(* What an operation has to give its new buffer.                            *)

\* A buffer that takes over a terminated text of bytes is a string again.
LEMMA BecomesString ==
    ASSUME NEW heap \in BOOLEAN, NEW cap \in Nat, NEW len \in Nat, NEW f,
           len <= cap, cap <= SizeMax, heap \/ cap = SsoSize,
           \A i \in 0 .. len - 1 : f[i] \in Byte,
           f[len] = NUL,
           Becomes(heap, cap, len, f)
    PROVE  StringInv'
<1>1. /\ is_heap_flag' = heap /\ str_capacity' = cap /\ str_size' = len
      /\ bytes' = [i \in 0 .. cap |-> IF i <= len THEN f[i] ELSE Stale]
  BY DEF Becomes, StrBuffer
<1>2. \A i \in 0 .. len : i \in 0 .. cap /\ bytes'[i] = f[i]
  BY <1>1
<1>3. bytes'[str_size'] = NUL
  BY <1>1, <1>2
<1>4. \A i \in 0 .. str_size' - 1 : bytes'[i] \in Byte
  BY <1>1, <1>2
<1> QED BY <1>1, <1>3, <1>4 DEF StringInv

\* What Append and Insert ask for has room for the text and at least doubles a
\* capacity that it changes.
LEMMA CapacityForFits ==
    ASSUME StringInv, NEW n \in Nat, n <= MaxText
    PROVE  /\ HeapFor(n) \in BOOLEAN /\ CapacityFor(n) \in Nat
           /\ n <= CapacityFor(n) /\ CapacityFor(n) <= SizeMax
           /\ HeapFor(n) \/ CapacityFor(n) = SsoSize
           /\ CapacityFor(n) = str_capacity \/ CapacityFor(n) >= 2 * str_capacity
<1> USE StringAssumption DEF StringInv, HeapFor, Larger
<1>1. CASE ~is_heap_flag /\ n < SsoSize
  BY <1>1 DEF CapacityFor
<1>2. CASE ~is_heap_flag /\ n >= SsoSize
  BY <1>2 DEF CapacityFor
<1>3. CASE is_heap_flag /\ n > str_capacity
  BY <1>3 DEF CapacityFor
<1>4. CASE is_heap_flag /\ n <= str_capacity
  BY <1>4 DEF CapacityFor
<1> QED BY <1>1, <1>2, <1>3, <1>4

\* The characters of a C string, and its terminator.
LEMMA CBytes ==
    ASSUME NEW c \in Seq(Chars)
    PROVE  /\ Len(c) \in Nat
           /\ \A i \in 0 .. Len(c) - 1 : CByte(c, i) \in Byte
           /\ CByte(c, Len(c)) = NUL
  BY DEF CByte, Byte

LEMMA EraseEndNat ==
    ASSUME NEW pos \in Nat, NEW len \in Nat
    PROVE  EraseEnd(pos, len) \in Nat
  BY StringAssumption DEF EraseEnd

-----------------------------------------------------------------------------
(* Every operation keeps the invariant.                                     *)

LEMMA InitKeeps ==
    ASSUME NEW c \in Seq(Chars), Len(c) <= SizeMax, StrInit(c) PROVE StringInv
<1>1. /\ Len(c) \in Nat /\ str_capacity \in Nat /\ Len(c) <= str_capacity
      /\ str_capacity <= SizeMax
      /\ is_heap_flag \in BOOLEAN /\ str_size = Len(c)
      /\ is_heap_flag \/ str_capacity = SsoSize
  BY StringAssumption, CBytes DEF StrInit
<1>2. \A i \in 0 .. Len(c) : bytes[i] = CByte(c, i)
  BY <1>1 DEF StrInit, StrBuffer
<1> QED BY <1>1, <1>2, CBytes DEF StringInv

LEMMA AppendKeeps ==
    ASSUME StringInv, NEW c \in Seq(Chars), StringAppend(c) PROVE StringInv'
<1> DEFINE n == str_size + Len(c)
           f == [i \in 0 .. n |-> IF i < str_size THEN bytes[i] ELSE CByte(c, i - str_size)]
<1>1. Becomes(HeapFor(n), CapacityFor(n), n, f) /\ n <= MaxText
  BY DEF StringAppend
<1>2. n \in Nat /\ Len(c) \in Nat /\ str_size \in Nat
  BY CBytes DEF StringInv
<1>3. \A i \in 0 .. n - 1 : f[i] \in Byte
  BY <1>2, CBytes DEF StringInv
<1>4. f[n] = NUL
  BY <1>2, CBytes
<1> HIDE DEF f, n
<1> QED BY <1>1, <1>2, <1>3, <1>4, CapacityForFits, BecomesString

LEMMA InsertKeeps ==
    ASSUME StringInv, NEW c \in Seq(Chars), NEW pos \in 0 .. str_size, StringInsert(pos, c)
    PROVE  StringInv'
<1> DEFINE n == str_size + Len(c)
<1>1. CASE TornByInsert(pos, c) /\ Stops("torn")
  BY <1>1 DEF Stops, StringInv
<1>2. CASE Becomes(HeapFor(n), CapacityFor(n), n, Inserted(pos, c)) /\ n <= MaxText
  <2>1. n \in Nat /\ Len(c) \in Nat /\ str_size \in Nat /\ pos \in Nat /\ pos <= str_size
    BY CBytes DEF StringInv
  <2>2. \A i \in 0 .. n - 1 : Inserted(pos, c)[i] \in Byte
    <3> SUFFICES ASSUME NEW i \in 0 .. n - 1 PROVE Inserted(pos, c)[i] \in Byte
      OBVIOUS
    <3>1. CASE i < pos
      BY <3>1, <2>1 DEF Inserted, StringInv
    <3>2. CASE i >= pos /\ i < pos + Len(c)
      BY <3>2, <2>1 DEF Inserted, Byte
    <3>3. CASE i >= pos + Len(c)
      <4>1. i - Len(c) \in 0 .. str_size - 1 /\ ~(i < pos) /\ ~(i < pos + Len(c))
        BY <3>3, <2>1
      <4> QED BY <4>1, <3>3, <2>1 DEF Inserted, StringInv
    <3> QED BY <3>1, <3>2, <3>3, <2>1
  <2>3. Inserted(pos, c)[n] = NUL
    <3>1. n \in 0 .. str_size + Len(c) /\ n - Len(c) = str_size /\ n >= pos + Len(c)
      BY <2>1
    <3> QED BY <3>1, <2>1 DEF Inserted, StringInv
  <2> HIDE DEF n
  <2> QED BY <1>2, <2>1, <2>2, <2>3, CapacityForFits, BecomesString
<1> QED BY <1>1, <1>2 DEF StringInsert

LEMMA EraseKeeps ==
    ASSUME StringInv, NEW pos \in 0 .. str_size, NEW len \in Lengths, StringErase(pos, len)
    PROVE  StringInv'
<1> DEFINE end == EraseEnd(pos, len)
           n   == IF end >= str_size THEN pos ELSE str_size - end + pos
           f   == [i \in 0 .. n |-> CASE i < pos                      -> bytes[i]
                                      [] i >= pos /\ end >= str_size  -> NUL
                                      [] i >= pos /\ end < str_size   -> bytes[i - pos + end]]
<1>1. CASE Stops("undefined")
  BY <1>1 DEF Stops, StringInv
<1>2. CASE n <= str_capacity /\ Becomes(is_heap_flag, str_capacity, n, f)
  <2>1. /\ pos \in Nat /\ pos <= str_size /\ str_size \in Nat /\ str_capacity \in Nat
        /\ end \in Nat
    BY StringAssumption, EraseEndNat DEF StringInv
  <2> HIDE DEF end
  <2>2. n \in Nat /\ pos <= n
    BY <2>1
  <2>3. CASE end >= str_size
    <3>1. n = pos /\ f[n] = NUL /\ \A i \in 0 .. n - 1 : f[i] = bytes[i]
      BY <2>1, <2>3
    <3>2. \A i \in 0 .. n - 1 : f[i] \in Byte
      BY <3>1, <2>1 DEF StringInv
    <3> HIDE DEF f, n
    <3> QED BY <1>2, <2>1, <2>2, <3>1, <3>2, BecomesString DEF StringInv
  <2>4. CASE end < str_size
    <3>1. n = str_size - end + pos /\ f[n] = bytes[str_size]
      BY <2>1, <2>4
    <3>2. ASSUME NEW i \in 0 .. n - 1 PROVE f[i] \in Byte
      <4>1. CASE i < pos
        <5>1. f[i] = bytes[i] /\ i \in 0 .. str_size - 1
          BY <4>1, <2>1, <2>2
        <5> QED BY <5>1 DEF StringInv
      <4>2. CASE i >= pos
        <5>1. f[i] = bytes[i - pos + end] /\ i - pos + end \in 0 .. str_size - 1
          BY <4>2, <2>1, <2>4, <3>1
        <5> QED BY <5>1 DEF StringInv
      <4> QED BY <4>1, <4>2, <2>1
    <3>3. f[n] = NUL
      BY <3>1 DEF StringInv
    <3> HIDE DEF f, n
    <3> QED BY <1>2, <2>1, <2>2, <3>2, <3>3, BecomesString DEF StringInv
  <2> QED BY <2>1, <2>3, <2>4
<1> QED BY <1>1, <1>2 DEF StringErase

\* What keeps the text may take any capacity that holds it.
LEMMA ReallocateKeeps ==
    ASSUME StringInv, NEW heap \in BOOLEAN, NEW cap \in Nat,
           str_size <= cap, cap <= SizeMax, heap \/ cap = SsoSize,
           Becomes(heap, cap, str_size, bytes)
    PROVE  StringInv'
<1>1. str_size \in Nat /\ bytes[str_size] = NUL /\ \A i \in 0 .. str_size - 1 : bytes[i] \in Byte
  BY DEF StringInv
<1> QED BY <1>1, BecomesString

LEMMA ReserveKeeps ==
    ASSUME StringInv, NEW n \in 0 .. MaxText, StringReserve(n) PROVE StringInv'
<1> USE StringAssumption
<1>1. /\ n \in Nat /\ n <= SizeMax /\ str_size \in Nat /\ str_capacity \in Nat
      /\ str_size <= str_capacity /\ str_capacity <= SizeMax
  BY DEF StringInv
<1>2. CASE is_heap_flag
  <2>1. Becomes(TRUE, Larger(n, str_capacity), str_size, bytes)
    BY <1>2 DEF StringReserve
  <2>2. /\ Larger(n, str_capacity) \in Nat /\ str_size <= Larger(n, str_capacity)
        /\ Larger(n, str_capacity) <= SizeMax
    BY <1>1 DEF Larger
  <2> QED BY <2>1, <2>2, ReallocateKeeps
<1>3. CASE ~is_heap_flag /\ n <= SsoSize
  BY <1>3 DEF StringReserve, StringInv
<1>4. CASE ~is_heap_flag /\ n > SsoSize
  <2>1. ~is_heap_flag /\ ~(n <= SsoSize)
    BY <1>1, <1>4
  <2>2. Becomes(TRUE, str_size, str_size, bytes)
    BY ONLY <2>1, StringReserve(n) DEF StringReserve
  <2>3. TRUE \in BOOLEAN /\ str_size <= str_size /\ str_size <= SizeMax
    BY <1>1
  <2> QED BY <1>1, <2>2, <2>3, ReallocateKeeps
<1> QED BY <1>1, <1>2, <1>3, <1>4

LEMMA ShrinkKeeps == ASSUME StringInv, StringShrinkToFit PROVE StringInv'
<1>1. str_size \in Nat /\ SsoSize \in Nat /\ SsoSize <= SizeMax /\ str_size <= SizeMax
  BY StringAssumption DEF StringInv
<1>2. CASE str_size <= SsoSize
  BY <1>1, <1>2, ReallocateKeeps DEF StringShrinkToFit
<1>3. CASE str_size > SsoSize
  <2>1. ~(str_size <= SsoSize) /\ str_size <= str_size
    BY <1>1, <1>3
  <2>2. Becomes(TRUE, str_size, str_size, bytes)
    BY <2>1 DEF StringShrinkToFit
  <2> QED BY <1>1, <2>1, <2>2, ReallocateKeeps
<1> QED BY <1>1, <1>2, <1>3

LEMMA ProcessKeeps ==
    ASSUME StringInv, NEW it \in Iterators, StringProcess(it) PROVE StringInv'
<1> DEFINE f == [i \in 0 .. str_size |-> IF i < str_size THEN it[bytes[i]] ELSE bytes[i]]
<1>1. Becomes(is_heap_flag, str_capacity, str_size, f)
  BY DEF StringProcess
<1>2. str_size \in Nat /\ it \in [Byte -> Byte]
  BY StringAssumption DEF StringInv, Byte
<1>3. \A i \in 0 .. str_size - 1 : f[i] \in Byte
  BY <1>2 DEF StringInv
<1>4. f[str_size] = NUL
  BY <1>2 DEF StringInv
<1> HIDE DEF f
<1> QED BY <1>1, <1>2, <1>3, <1>4, BecomesString DEF StringInv

LEMMA ClearKeeps == ASSUME StringInv, StringClear PROVE StringInv'
<1> DEFINE f == [i \in {0} |-> NUL]
<1>1. Becomes(is_heap_flag, str_capacity, 0, f)
  BY DEF StringClear
<1>2. f[0] = NUL /\ 0 .. 0 - 1 = {}
  OBVIOUS
<1>3. str_capacity \in Nat /\ 0 <= str_capacity
  BY DEF StringInv
<1> HIDE DEF f
<1> QED BY <1>1, <1>2, <1>3, BecomesString DEF StringInv

-----------------------------------------------------------------------------
\* The invariant is inductive: it holds of a string as created, and every
\* operation keeps it, also the erasure whose end wraps.
THEOREM StringInvariant == StrSpec => []StringInv
<1> DEFINE Start == \E c \in CStrings \cup {<<>>} : StrInit(c)
<1>1. Start => StringInv
  <2>1. <<>> \in Seq(Chars)
    OBVIOUS
  <2>2. \A c \in CStrings \cup {<<>>} : c \in Seq(Chars) /\ Len(c) <= SizeMax
    <3>1. Len(<<>>) = 0 /\ 0 <= SizeMax
      BY StringAssumption
    <3> QED BY <2>1, <3>1, StringAssumption
  <2> QED BY <2>2, InitKeeps
<1>2. StringInv /\ [StrNext]_strVars => StringInv'
  <2> SUFFICES ASSUME StringInv, [StrNext]_strVars PROVE StringInv'
    OBVIOUS
  <2>1. ASSUME NEW c \in CStrings, StringAppend(c) PROVE StringInv'
    BY <2>1, StringAssumption, AppendKeeps
  <2>2. ASSUME NEW c \in CStrings, NEW pos \in 0 .. str_size, StringInsert(pos, c)
        PROVE  StringInv'
    BY <2>2, StringAssumption, InsertKeeps
  <2>3. ASSUME NEW ch \in Chars \cup {NUL}, StringPushBack(ch) PROVE StringInv'
    <3>1. (IF ch = NUL THEN <<>> ELSE <<ch>>) \in Seq(Chars)
      OBVIOUS
    <3> QED BY <2>3, <3>1, AppendKeeps DEF StringPushBack
  <2>4. ASSUME NEW pos \in 0 .. str_size, NEW len \in Lengths, StringErase(pos, len)
        PROVE  StringInv'
    BY <2>4, EraseKeeps
  <2>5. ASSUME NEW n \in 0 .. MaxText, StringReserve(n) PROVE StringInv'
    BY <2>5, ReserveKeeps
  <2>6. CASE StringShrinkToFit
    BY <2>6, ShrinkKeeps
  <2>7. CASE StringClear
    BY <2>7, ClearKeeps
  <2>8. CASE FreeString
    BY <2>8 DEF FreeString, Stops, StringInv
  <2>9. ASSUME NEW it \in Iterators, StringProcess(it) PROVE StringInv'
    BY <2>9, ProcessKeeps
  <2>10. CASE UNCHANGED strVars
    BY <2>10 DEF strVars, StringInv
  <2> QED BY <2>1, <2>2, <2>3, <2>4, <2>5, <2>6, <2>7, <2>8, <2>9, <2>10 DEF StrNext
<1> QED BY <1>1, <1>2, PTL DEF StrSpec

\* The text and its terminator stay inside the buffer.
THEOREM TextInsideHolds == StrSpec => []TextInside
<1>1. StringInv => TextInside
  BY DEF StringInv, TextInside, Byte
<1> QED BY <1>1, StringInvariant, PTL

\* A capacity grows by doubling or by request, and shrinks by ShrinkToFit and by
\* the Reserve that moves a small string, and in no other way.
THEOREM CapacityMovesHolds == StrSpec => CapacityMoves
<1> DEFINE Asked(n) == StringReserve(n) /\ n = str_capacity'
           Moved(n) == StringReserve(n) /\ n > SsoSize /\ ~is_heap_flag
           Moves    == /\ str_capacity' > str_capacity =>
                              \/ str_capacity' >= 2 * str_capacity
                              \/ StringShrinkToFit
                              \/ \E n \in 0 .. MaxText : Asked(n)
                       /\ str_capacity' < str_capacity =>
                              \/ StringShrinkToFit
                              \/ \E n \in 0 .. MaxText : Moved(n)
<1>1. ASSUME StringInv, [StrNext]_strVars PROVE [Moves]_strVars
  <2> DEFINE Same    == str_capacity' = str_capacity
             Doubled == str_capacity' \in Nat /\ str_capacity' >= 2 * str_capacity
  <2>1. str_size \in Nat /\ str_capacity \in Nat /\ SsoSize \in Nat /\ SsoSize > 0
    BY <1>1, StringAssumption DEF StringInv
  <2>2. ASSUME NEW c \in Seq(Chars), StringAppend(c) PROVE Same \/ Doubled
    <3>1. str_size + Len(c) \in Nat
      BY <2>1
    <3> QED BY <1>1, <2>2, <3>1, CapacityForFits DEF StringAppend, Becomes
  <2>3. ASSUME NEW c \in CStrings, NEW pos \in 0 .. str_size, StringInsert(pos, c)
        PROVE  Same \/ Doubled
    <3>1. str_size + Len(c) \in Nat
      BY <2>1, StringAssumption
    <3> QED BY <1>1, <2>3, <3>1, CapacityForFits DEF StringInsert, Becomes, Stops
  <2>4. ASSUME NEW ch \in Chars \cup {NUL}, StringPushBack(ch) PROVE Same \/ Doubled
    <3>1. (IF ch = NUL THEN <<>> ELSE <<ch>>) \in Seq(Chars)
      OBVIOUS
    <3> QED BY <2>2, <2>4, <3>1 DEF StringPushBack
  <2>5. ASSUME NEW pos \in 0 .. str_size, NEW len \in Lengths, StringErase(pos, len)
        PROVE  Same
    BY <2>5 DEF StringErase, Becomes, Stops
  <2>6. ASSUME NEW n \in 0 .. MaxText, StringReserve(n)
        PROVE  \/ Same
               \/ Asked(n) /\ n > str_capacity
               \/ Moved(n) /\ str_capacity' \in 0 .. str_capacity
    <3>1. n \in Nat /\ str_size <= str_capacity
      BY <1>1, StringAssumption DEF StringInv
    <3>2. CASE is_heap_flag
      <4>1. str_capacity' = Larger(n, str_capacity)
        BY <2>6, <3>2 DEF StringReserve, Becomes
      <4>2. CASE n > str_capacity
        BY <2>6, <4>1, <4>2 DEF Larger
      <4>3. CASE ~(n > str_capacity)
        BY <4>1, <4>3 DEF Larger
      <4> QED BY <4>2, <4>3
    <3>3. CASE ~is_heap_flag /\ n <= SsoSize
      <4>1. UNCHANGED <<is_heap_flag, str_size, str_capacity, bytes>>
        BY <2>6, <3>3 DEF StringReserve
      <4> QED BY <4>1
    <3>4. CASE ~is_heap_flag /\ ~(n <= SsoSize)
      <4>1. str_capacity' = str_size
        BY <2>6, <3>4 DEF StringReserve, Becomes
      <4>2. n > SsoSize
        BY <2>1, <3>1, <3>4
      <4> QED BY <2>1, <2>6, <3>1, <3>4, <4>1, <4>2
    <3> QED BY <3>2, <3>3, <3>4
  <2>7. CASE UNCHANGED strVars
    BY <2>7
  <2>8. CASE StringClear \/ FreeString \/ \E it \in Iterators : StringProcess(it)
    <3>1. Same
      BY <2>8 DEF StringClear, FreeString, Stops, StringProcess, Becomes
    <3> QED BY <2>1, <3>1
  <2>9. ASSUME Same \/ Doubled PROVE Moves
    BY <2>1, <2>9
  <2>10. ASSUME NEW n \in 0 .. MaxText, StringReserve(n) PROVE Moves
    <3>1. CASE Same
      BY <2>9, <3>1
    <3>2. CASE Asked(n) /\ n > str_capacity
      <4>1. n \in Nat /\ str_capacity' = n
        BY <3>2, StringAssumption
      <4> QED BY <2>1, <3>2, <4>1
    <3>3. CASE Moved(n) /\ str_capacity' \in 0 .. str_capacity
      <4>1. ~(str_capacity' > str_capacity)
        BY <2>1, <3>3
      <4> QED BY <3>3, <4>1
    <3> QED BY <2>6, <2>10, <3>1, <3>2, <3>3
  <2>11. CASE StringShrinkToFit
    BY <2>11
  <2>12. \A c \in CStrings : c \in Seq(Chars)
    BY StringAssumption
  <2> HIDE DEF Moves, Same, Doubled
  <2> QED BY <1>1, <2>2, <2>3, <2>4, <2>5, <2>7, <2>8, <2>9, <2>10, <2>11, <2>12 DEF StrNext
<1> QED BY <1>1, StringInvariant, PTL DEF StrSpec, CapacityMoves

-----------------------------------------------------------------------------
(* The text.                                                                 *)

LEMMA TextIsSeq ==
    ASSUME StringInv
    PROVE  /\ StrText \in Seq(Byte) /\ Len(StrText) = str_size
           /\ \A j \in 1 .. str_size : StrText[j] = bytes[j - 1]
           /\ str_size \in Nat
<1>1. str_size \in Nat
  BY DEF StringInv
<1>2. StrText \in [1 .. str_size -> Byte]
  <2>1. ASSUME NEW j \in 1 .. str_size PROVE j - 1 \in 0 .. str_size - 1
    BY <1>1
  <2> QED BY <2>1 DEF StrText, StringInv
<1>3. StrText \in Seq(Byte)
  BY <1>1, <1>2, SeqDef
<1> QED BY <1>1, <1>2, <1>3, LenProperties DEF StrText

\* The text that an operation leaves is what it gave its new buffer.
TextOf(len, f) == [j \in 1 .. len |-> f[j - 1]]

LEMMA TextTaken ==
    ASSUME NEW heap, NEW cap \in Nat, NEW len \in Nat, len <= cap, NEW f,
           Becomes(heap, cap, len, f)
    PROVE  StrText' = TextOf(len, f)
<1>1. str_size' = len /\ bytes' = [i \in 0 .. cap |-> IF i <= len THEN f[i] ELSE Stale]
  BY DEF Becomes, StrBuffer
<1>2. ASSUME NEW j \in 1 .. len PROVE bytes'[j - 1] = f[j - 1]
  <2>1. j - 1 \in 0 .. cap /\ j - 1 <= len
    OBVIOUS
  <2> QED BY <1>1, <2>1
<1> QED BY <1>1, <1>2 DEF StrText, TextOf

\* Replacing a stretch of the text, by its elements.
LEMMA SpliceIs ==
    ASSUME StringInv, NEW i \in 0 .. str_size, NEW n \in 0 .. str_size - i, NEW c \in Seq(Byte),
           NEW len, len = str_size - n + Len(c), NEW f, StrText' = TextOf(len, f),
           \A j \in 1 .. len : f[j - 1] = IF j <= i THEN bytes[j - 1]
                                           ELSE IF j <= i + Len(c) THEN c[j - i]
                                           ELSE bytes[j - Len(c) + n - 1]
    PROVE  TextPromise!Splice(i, n, c)
<1> DEFINE t == StrText
<1>1. /\ t \in Seq(Byte) /\ Len(t) = str_size /\ str_size \in Nat
      /\ \A j \in 1 .. str_size : t[j] = bytes[j - 1]
  BY TextIsSeq
<1>2. Len(c) \in Nat
  BY LenProperties
<1>3. ASSUME NEW j \in 1 .. len
      PROVE  f[j - 1] = IF j <= i THEN t[j] ELSE IF j <= i + Len(c) THEN c[j - i] ELSE t[j - Len(c) + n]
  <2>1. CASE j <= i
    <3>1. j \in 1 .. str_size
      BY <1>1, <2>1
    <3> QED BY <1>1, <2>1, <3>1
  <2>2. CASE ~(j <= i) /\ j <= i + Len(c)
    BY <2>2
  <2>3. CASE ~(j <= i) /\ ~(j <= i + Len(c))
    <3> DEFINE k == Len(c)
    <3> HIDE DEF k
    <3>1. k \in Nat /\ len = str_size - n + k /\ ~(j <= i) /\ ~(j <= i + k)
      BY <1>2, <2>3 DEF k
    <3>2. j - k + n \in 1 .. str_size /\ (j - k + n) - 1 = j - k + n - 1
      BY <1>1, <3>1
    <3>3. t[j - k + n] = bytes[j - k + n - 1]
      BY <1>1, <3>2
    <3> QED BY <2>3, <3>3 DEF k
  <2> QED BY <2>1, <2>2, <2>3
<1> HIDE DEF t
<1>4. StrText' = Replaced(t, i, n, c)
  <2>1. len = Len(t) - n + Len(c)
    BY <1>1
  <2> QED BY <1>3, <2>1 DEF Replaced, TextOf
<1>5. i \in 0 .. Len(t) /\ n \in 0 .. Len(t) - i
  BY <1>1
<1>6. SubSeq(t, 1, i) \o c \o SubSeq(t, i + n + 1, Len(t)) = Replaced(t, i, n, c)
  BY <1>1, <1>5, SpliceReplaces
<1> QED BY <1>4, <1>6 DEF t, TextPromise!Splice

LEMMA CharsAreBytes == ASSUME NEW c \in Seq(Chars) PROVE c \in Seq(Byte) /\ Len(c) \in Nat
<1>1. Chars \subseteq Byte
  BY DEF Byte
<1> QED BY <1>1, SeqMonotonic, LenProperties

LEMMA AppendSplices ==
    ASSUME StringInv, NEW c \in Seq(Chars), StringAppend(c)
    PROVE  TextPromise!Splice(str_size, 0, c)
<1> DEFINE n == str_size + Len(c)
           f == [i \in 0 .. n |-> IF i < str_size THEN bytes[i] ELSE CByte(c, i - str_size)]
<1>1. Becomes(HeapFor(n), CapacityFor(n), n, f) /\ n <= MaxText
  BY DEF StringAppend
<1>2. Len(c) \in Nat /\ str_size \in Nat /\ c \in Seq(Byte)
  BY CharsAreBytes DEF StringInv
<1>3. StrText' = TextOf(n, f)
  <2>1. CapacityFor(n) \in Nat /\ n <= CapacityFor(n) /\ n \in Nat
    BY <1>1, <1>2, CapacityForFits
  <2> HIDE DEF n, f
  <2> QED BY <1>1, <2>1, TextTaken
<1>4. ASSUME NEW j \in 1 .. n
      PROVE  f[j - 1] = IF j <= str_size THEN bytes[j - 1]
                        ELSE IF j <= str_size + Len(c) THEN c[j - str_size]
                        ELSE bytes[j - Len(c) + 0 - 1]
  <2>1. j - 1 \in 0 .. n /\ (j - 1 < str_size <=> j <= str_size) /\ j <= str_size + Len(c)
    BY <1>2
  <2>2. f[j - 1] = IF j <= str_size THEN bytes[j - 1] ELSE CByte(c, j - 1 - str_size)
    BY <2>1
  <2>3. ~(j <= str_size) => j - 1 - str_size < Len(c) /\ (j - 1 - str_size) + 1 = j - str_size
    BY <1>2
  <2> HIDE DEF n, f
  <2> QED BY <2>1, <2>2, <2>3 DEF CByte
<1>5. str_size \in 0 .. str_size /\ 0 \in 0 .. str_size - str_size /\ n = str_size - 0 + Len(c)
  BY <1>2
<1> HIDE DEF n, f
<1> QED BY <1>2, <1>3, <1>4, <1>5, SpliceIs

LEMMA InsertSplices ==
    ASSUME StringInv, NEW c \in Seq(Chars), NEW pos \in 0 .. str_size, StringInsert(pos, c),
           str_status' = "usable"
    PROVE  TextPromise!Splice(pos, 0, c)
<1> DEFINE n == str_size + Len(c)
           f == Inserted(pos, c)
<1>1. Becomes(HeapFor(n), CapacityFor(n), n, f) /\ n <= MaxText
  BY DEF StringInsert, Stops
<1>2. Len(c) \in Nat /\ str_size \in Nat /\ c \in Seq(Byte)
  BY CharsAreBytes DEF StringInv
<1>3. StrText' = TextOf(n, f)
  <2>1. CapacityFor(n) \in Nat /\ n <= CapacityFor(n) /\ n \in Nat
    BY <1>1, <1>2, CapacityForFits
  <2> HIDE DEF n, f
  <2> QED BY <1>1, <2>1, TextTaken
<1>4. ASSUME NEW j \in 1 .. n
      PROVE  f[j - 1] = IF j <= pos THEN bytes[j - 1]
                        ELSE IF j <= pos + Len(c) THEN c[j - pos]
                        ELSE bytes[j - Len(c) + 0 - 1]
  <2>1. /\ j - 1 \in 0 .. str_size + Len(c) /\ (j - 1 < pos <=> j <= pos)
        /\ (j - 1 < pos + Len(c) <=> j <= pos + Len(c))
        /\ (j - 1) - pos + 1 = j - pos /\ (j - 1) - Len(c) = j - Len(c) + 0 - 1
    BY <1>2
  <2>2. f[j - 1] = CASE j - 1 < pos                                -> bytes[j - 1]
                     [] j - 1 >= pos /\ j - 1 < pos + Len(c)       -> c[(j - 1) - pos + 1]
                     [] j - 1 >= pos + Len(c)                      -> bytes[(j - 1) - Len(c)]
    BY <2>1 DEF Inserted
  <2>3. CASE j <= pos
    <3>1. j - 1 < pos /\ ~(j - 1 >= pos) /\ ~(j - 1 >= pos + Len(c))
      BY <1>2, <2>1, <2>3
    <3> QED BY <2>2, <2>3, <3>1
  <2>4. CASE ~(j <= pos) /\ j <= pos + Len(c)
    <3>1. ~(j - 1 < pos) /\ j - 1 >= pos /\ j - 1 < pos + Len(c) /\ ~(j - 1 >= pos + Len(c))
      BY <1>2, <2>1, <2>4
    <3> QED BY <2>1, <2>2, <2>4, <3>1
  <2>5. CASE ~(j <= pos) /\ ~(j <= pos + Len(c))
    <3>1. ~(j - 1 < pos) /\ ~(j - 1 < pos + Len(c)) /\ j - 1 >= pos + Len(c)
      BY <1>2, <2>1, <2>5
    <3> QED BY <2>1, <2>2, <2>5, <3>1
  <2> QED BY <2>3, <2>4, <2>5
<1>5. 0 \in 0 .. str_size - pos /\ n = str_size - 0 + Len(c)
  BY <1>2
<1> HIDE DEF n, f
<1> QED BY <1>2, <1>3, <1>4, <1>5, SpliceIs

\* Where an erasure ends: behind the stretch, or, when the sum wraps, before it.
LEMMA EraseEnds ==
    ASSUME StringInv, NEW pos \in 0 .. str_size, NEW len \in 1 .. SizeMax
    PROVE  /\ pos + len <= SizeMax => EraseEnd(pos, len) = pos + len
           /\ pos + len > SizeMax => /\ EraseEnd(pos, len) = pos + len - SizeMax - 1
                                     /\ EraseEnd(pos, len) \in 0 .. pos - 1
<1>1. pos \in Nat /\ len \in Nat /\ len <= SizeMax /\ pos <= SizeMax /\ SizeMax \in Nat
  BY StringAssumption DEF StringInv
<1>2. CASE pos + len <= SizeMax
  BY <1>1, <1>2 DEF EraseEnd
<1>3. CASE pos + len > SizeMax
  <2> DEFINE a == pos + len
             m == SizeMax + 1
  <2>1. a \in Nat /\ m \in Nat /\ m <= a /\ a < 2 * m
    BY <1>1, <1>3
  <2> HIDE DEF a, m
  <2>2. a % m = a - m
    BY <2>1
  <2> QED BY <1>1, <1>3, <2>2 DEF EraseEnd, a, m
<1> QED BY <1>1, <1>2, <1>3

LEMMA EraseSplices ==
    ASSUME StringInv, NEW pos \in 0 .. str_size, NEW len \in 1 .. SizeMax, StringErase(pos, len),
           str_status' = "usable"
    PROVE  IF pos + len <= SizeMax
           THEN TextPromise!Splice(pos, Erased(pos, len), <<>>)
           ELSE TextPromise!Splice(pos, 0, SubSeq(StrText, pos + len - SizeMax, pos))
<1> DEFINE end == EraseEnd(pos, len)
           n   == IF end >= str_size THEN pos ELSE str_size - end + pos
           f   == [i \in 0 .. n |-> CASE i < pos                      -> bytes[i]
                                      [] i >= pos /\ end >= str_size  -> NUL
                                      [] i >= pos /\ end < str_size   -> bytes[i - pos + end]]
<1>1. n <= str_capacity /\ Becomes(is_heap_flag, str_capacity, n, f)
  BY DEF StringErase, Stops
<1>2. /\ pos \in Nat /\ pos <= str_size /\ str_size \in Nat /\ str_capacity \in Nat
      /\ len \in Nat \ {0} /\ SizeMax \in Nat
  BY StringAssumption DEF StringInv
<1>3. end \in Nat /\ n \in Nat
  BY <1>2, EraseEnds
<1>4. ASSUME NEW j \in 1 .. n
      PROVE  f[j - 1] = IF j <= pos THEN bytes[j - 1] ELSE bytes[j - 1 - pos + end]
  <2> HIDE DEF end
  <2>1. j - 1 \in 0 .. n /\ (j - 1 < pos <=> j <= pos) /\ (j - 1 >= pos <=> ~(j <= pos))
    BY <1>2, <1>3
  <2>2. f[j - 1] = CASE j - 1 < pos                      -> bytes[j - 1]
                     [] j - 1 >= pos /\ end >= str_size  -> NUL
                     [] j - 1 >= pos /\ end < str_size   -> bytes[(j - 1) - pos + end]
    BY <2>1
  <2>3. CASE j <= pos
    BY <2>1, <2>2, <2>3
  <2>4. CASE ~(j <= pos)
    <3>1. end < str_size /\ ~(end >= str_size)
      BY <1>2, <1>3, <2>4
    <3> HIDE DEF f, n
    <3> QED BY <2>1, <2>2, <2>4, <3>1
  <2> QED BY <2>3, <2>4
<1>5. StrText' = TextOf(n, f)
  <2> HIDE DEF n, f
  <2> QED BY <1>1, <1>2, <1>3, TextTaken
<1>6. CASE pos + len <= SizeMax
  <2> DEFINE e == Erased(pos, len)
             c == <<>>
  <2>1. end = pos + len
    BY <1>6, EraseEnds
  <2>2. e \in 0 .. str_size - pos /\ n = str_size - e
    BY <1>2, <2>1 DEF Erased
  <2>3. c \in Seq(Byte) /\ Len(c) = 0
    BY EmptySeq
  <2>4. n = str_size - e + Len(c)
    BY <1>2, <2>2, <2>3
  <2>5. ASSUME NEW j \in 1 .. n, ~(j <= pos)
        PROVE  j - 1 - pos + end = j - Len(c) + e - 1
    BY <1>2, <2>1, <2>3, <2>5 DEF Erased
  <2>6. ASSUME NEW j \in 1 .. n
        PROVE  f[j - 1] = IF j <= pos THEN bytes[j - 1]
                          ELSE IF j <= pos + Len(c) THEN c[j - pos]
                          ELSE bytes[j - Len(c) + e - 1]
    <3>1. ~(j <= pos) => ~(j <= pos + Len(c))
      BY <1>2, <2>3
    <3>2. f[j - 1] = IF j <= pos THEN bytes[j - 1] ELSE bytes[j - 1 - pos + end]
      BY <1>4
    <3>3. ~(j <= pos) => j - 1 - pos + end = j - Len(c) + e - 1
      BY <2>5
    <3> HIDE DEF f, n, c, end, e
    <3> QED BY <3>1, <3>2, <3>3
  <2> HIDE DEF f, n, c, end, e
  <2>7. TextPromise!Splice(pos, e, c)
    BY <1>5, <2>2, <2>3, <2>4, <2>6, SpliceIs
  <2> QED BY <1>6, <2>7 DEF c, e
<1>7. CASE ~(pos + len <= SizeMax)
  <2> DEFINE c == SubSeq(StrText, pos + len - SizeMax, pos)
  <2>1. end = pos + len - SizeMax - 1 /\ end \in 0 .. pos - 1
    BY <1>2, <1>7, EraseEnds
  <2>2. n = str_size + (pos - end) /\ pos + len - SizeMax = end + 1
    BY <1>2, <2>1
  <2> HIDE DEF f, n, end
  <2>3. /\ c \in Seq(Byte) /\ Len(c) = pos - end
        /\ \A j \in 1 .. pos - end : c[j] = bytes[end + j - 1]
    <3> DEFINE t == StrText
    <3>1. t \in Seq(Byte) /\ Len(t) = str_size /\ \A j \in 1 .. str_size : t[j] = bytes[j - 1]
      BY TextIsSeq
    <3> HIDE DEF t
    <3>2. \A j \in end + 1 .. pos : t[j] \in Byte
      BY <1>2, <2>1, <3>1, LenProperties
    <3>3. end + 1 \in Int /\ pos \in Int /\ end + 1 <= pos
      BY <1>2, <2>1
    <3>4. /\ SubSeq(t, end + 1, pos) \in Seq(Byte)
          /\ Len(SubSeq(t, end + 1, pos)) = IF end + 1 <= pos THEN pos - (end + 1) + 1 ELSE 0
          /\ \A j \in 1 .. pos - (end + 1) + 1 : SubSeq(t, end + 1, pos)[j] = t[(end + 1) + j - 1]
      BY <3>2, <3>3, SubSeqProperties
    <3>5. c = SubSeq(t, end + 1, pos)
      BY <2>2 DEF t
    <3>6. pos - (end + 1) + 1 = pos - end
      BY <1>2, <2>1
    <3> HIDE DEF c
    <3>7. ASSUME NEW j \in 1 .. pos - end PROVE c[j] = bytes[end + j - 1]
      <4>1. (end + 1) + j - 1 = end + j /\ end + j \in 1 .. str_size
        BY <1>2, <2>1
      <4>2. j \in 1 .. pos - (end + 1) + 1
        BY <3>6
      <4>3. c[j] = t[(end + 1) + j - 1]
        BY <3>4, <3>5, <4>2
      <4>4. t[end + j] = bytes[(end + j) - 1]
        BY <3>1, <4>1
      <4>5. (end + j) - 1 = end + j - 1
        BY <2>1
      <4> QED BY <4>1, <4>3, <4>4, <4>5
    <3> QED BY <3>3, <3>4, <3>5, <3>6, <3>7
  <2> HIDE DEF c
  <2>4. n = str_size - 0 + Len(c) /\ 0 \in 0 .. str_size - pos
    BY <1>2, <2>1, <2>2, <2>3
  <2>5. ASSUME NEW j \in 1 .. n
        PROVE  f[j - 1] = IF j <= pos THEN bytes[j - 1]
                          ELSE IF j <= pos + Len(c) THEN c[j - pos]
                          ELSE bytes[j - Len(c) + 0 - 1]
    <3>1. f[j - 1] = IF j <= pos THEN bytes[j - 1] ELSE bytes[j - 1 - pos + end]
      BY <1>4
    <3>2. CASE j <= pos
      BY <3>1, <3>2
    <3>3. CASE ~(j <= pos) /\ j <= pos + Len(c)
      <4>1. j - pos \in 1 .. pos - end /\ end + (j - pos) - 1 = j - 1 - pos + end
        BY <1>2, <2>1, <2>3, <3>3
      <4> QED BY <2>3, <3>1, <3>3, <4>1
    <3>4. CASE ~(j <= pos) /\ ~(j <= pos + Len(c))
      <4>1. j - Len(c) + 0 - 1 = j - 1 - pos + end
        BY <1>2, <2>1, <2>3
      <4> QED BY <3>1, <3>4, <4>1
    <3> QED BY <3>2, <3>3, <3>4
  <2>6. TextPromise!Splice(pos, 0, c)
    BY <1>5, <2>3, <2>4, <2>5, SpliceIs
  <2> QED BY <1>7, <2>6 DEF c
<1> QED BY <1>6, <1>7

LEMMA ProcessMaps ==
    ASSUME StringInv, NEW it, StringProcess(it)
    PROVE  TextPromise!MapEach(it)
<1> DEFINE f == [i \in 0 .. str_size |-> IF i < str_size THEN it[bytes[i]] ELSE bytes[i]]
<1>1. Becomes(is_heap_flag, str_capacity, str_size, f)
  BY DEF StringProcess
<1>2. str_size \in Nat /\ str_capacity \in Nat /\ str_size <= str_capacity
  BY DEF StringInv
<1>3. ASSUME NEW j \in 1 .. str_size PROVE f[j - 1] = it[StrText[j]]
  <2>1. j - 1 \in 0 .. str_size /\ j - 1 < str_size
    BY <1>2
  <2> QED BY <2>1 DEF StrText
<1>4. StrText' = TextOf(str_size, f)
  <2> HIDE DEF f
  <2> QED BY <1>1, <1>2, TextTaken
<1> HIDE DEF f
<1>5. DOMAIN StrText = 1 .. str_size
  BY DEF StrText
<1> QED BY <1>3, <1>4, <1>5 DEF TextPromise!MapEach, TextOf

\* Reserve and ShrinkToFit move the text as it is.
LEMMA MoveKeepsText ==
    ASSUME StringInv, NEW heap, NEW cap \in Nat, str_size <= cap,
           Becomes(heap, cap, str_size, bytes)
    PROVE  UNCHANGED StrText
<1>1. str_size \in Nat
  BY DEF StringInv
<1>2. StrText' = TextOf(str_size, bytes)
  BY <1>1, TextTaken
<1> QED BY <1>2 DEF StrText, TextOf

LEMMA ReserveKeepsText ==
    ASSUME StringInv, NEW n \in 0 .. MaxText, StringReserve(n)
    PROVE  UNCHANGED StrText
<1>1. str_size \in Nat /\ str_capacity \in Nat /\ str_size <= str_capacity /\ n \in Nat
  BY StringAssumption DEF StringInv
<1>2. CASE is_heap_flag
  <2>1. Becomes(TRUE, Larger(n, str_capacity), str_size, bytes)
    BY <1>2 DEF StringReserve
  <2>2. Larger(n, str_capacity) \in Nat /\ str_size <= Larger(n, str_capacity)
    BY <1>1 DEF Larger
  <2> QED BY <2>1, <2>2, MoveKeepsText
<1>3. CASE ~is_heap_flag /\ n <= SsoSize
  BY <1>3 DEF StringReserve, StrText
<1>4. CASE ~is_heap_flag /\ ~(n <= SsoSize)
  <2>1. Becomes(TRUE, str_size, str_size, bytes)
    BY <1>4 DEF StringReserve
  <2>2. str_size <= str_size
    BY <1>1
  <2> QED BY <1>1, <2>1, <2>2, MoveKeepsText
<1> QED BY <1>2, <1>3, <1>4

LEMMA ShrinkKeepsText ==
    ASSUME StringInv, StringShrinkToFit
    PROVE  UNCHANGED StrText
<1>1. str_size \in Nat /\ SsoSize \in Nat
  BY StringAssumption DEF StringInv
<1>2. CASE str_size <= SsoSize
  BY <1>1, <1>2, MoveKeepsText DEF StringShrinkToFit
<1>3. CASE ~(str_size <= SsoSize)
  <2>1. Becomes(TRUE, str_size, str_size, bytes)
    BY <1>3 DEF StringShrinkToFit
  <2>2. str_size <= str_size
    BY <1>1
  <2> QED BY <1>1, <2>1, <2>2, MoveKeepsText
<1> QED BY <1>2, <1>3

LEMMA ClearSplices ==
    ASSUME StringInv, StringClear
    PROVE  TextPromise!Splice(0, str_size, <<>>)
<1> DEFINE f == [i \in {0} |-> NUL]
           c == <<>>
<1>1. Becomes(is_heap_flag, str_capacity, 0, f)
  BY DEF StringClear
<1>2. str_size \in Nat /\ str_capacity \in Nat
  BY DEF StringInv
<1>3. c \in Seq(Byte) /\ Len(c) = 0
  BY EmptySeq
<1> HIDE DEF f, c
<1>4. StrText' = TextOf(0, f)
  BY <1>1, <1>2, TextTaken
<1>5. 0 \in 0 .. str_size /\ str_size \in 0 .. str_size - 0 /\ 0 = str_size - str_size + Len(c)
  BY <1>2, <1>3
<1>6. \A j \in 1 .. 0 : f[j - 1] = IF j <= 0 THEN bytes[j - 1]
                                   ELSE IF j <= 0 + Len(c) THEN c[j - 0]
                                   ELSE bytes[j - Len(c) + str_size - 1]
  OBVIOUS
<1>7. TextPromise!Splice(0, str_size, c)
  BY <1>3, <1>4, <1>5, <1>6, SpliceIs
<1> QED BY <1>7 DEF c

\* What tears a text, in terms of the text.
Tears(pos, c) == /\ ~is_heap_flag
                 /\ str_size + Len(c) >= SsoSize
                 /\ \E i \in pos + 1 .. str_size : StrText[i] = NUL

LEMMA TornMeans ==
    ASSUME StringInv, NEW c \in Seq(Chars), NEW pos \in 0 .. str_size
    PROVE  TornByInsert(pos, c) <=> Tears(pos, c)
<1>1. str_size \in Nat /\ pos \in Nat
  BY DEF StringInv
<1>2. ASSUME NEW i \in pos .. str_size - 1, bytes[i] = NUL
      PROVE  \E j \in pos + 1 .. str_size : StrText[j] = NUL
  <2>1. i + 1 \in pos + 1 .. str_size /\ i + 1 \in 1 .. str_size /\ (i + 1) - 1 = i
    BY <1>1
  <2>2. StrText[i + 1] = NUL
    BY <1>2, <2>1 DEF StrText
  <2> QED BY <2>1, <2>2
<1>3. ASSUME NEW j \in pos + 1 .. str_size, StrText[j] = NUL
      PROVE  \E i \in pos .. str_size - 1 : bytes[i] = NUL
  <2>1. j - 1 \in pos .. str_size - 1 /\ j \in 1 .. str_size
    BY <1>1
  <2>2. bytes[j - 1] = NUL
    BY <1>3, <2>1 DEF StrText
  <2> QED BY <2>1, <2>2
<1> QED BY <1>2, <1>3 DEF TornByInsert, Tears, HeapFor

\* What leaves no text.
LEMMA StopsAreExplained ==
    ASSUME StringInv, [StrNext]_strVars PROVE [StopStep]_strVars
<1>1. str_size \in Nat
  BY DEF StringInv
<1>2. \A c \in CStrings : c \in Seq(Chars)
  BY StringAssumption
<1>3. ASSUME NEW c \in CStrings, NEW pos \in 0 .. str_size, StringInsert(pos, c)
      PROVE  str_status' = "torn" <=> Tears(pos, c)
  BY <1>2, <1>3, TornMeans DEF StringInsert, Stops, StrUsable
<1>4. ASSUME StrNext PROVE StopStep
  <2>1. ASSUME NEW c \in CStrings, NEW pos \in 0 .. str_size, StringInsert(pos, c) PROVE StopStep
    <3>1. str_status' # "undefined"
      BY <2>1 DEF StringInsert, Stops, StrUsable
    <3> QED BY <1>3, <2>1, <3>1 DEF StopStep, Tears
  <2>2. ASSUME NEW pos \in 0 .. str_size, NEW len \in Lengths, StringErase(pos, len) PROVE StopStep
    <3>1. CASE UNCHANGED str_status /\ StrUsable
      BY <1>3, <3>1 DEF StopStep, StrUsable, Tears
    <3>2. CASE Stops("undefined") /\ pos + len > SizeMax
      BY <1>3, <2>2, <3>2 DEF StopStep, Stops, Tears
    <3>3. CASE Stops("undefined") /\ ~(pos + len > SizeMax)
      <4> DEFINE end == EraseEnd(pos, len)
                 n   == IF end >= str_size THEN pos ELSE str_size - end + pos
      <4>1. /\ pos \in Nat /\ pos <= str_size /\ len \in Nat /\ SizeMax \in Nat /\ len \in 1 .. SizeMax
            /\ str_capacity \in Nat /\ str_size <= str_capacity
        BY <1>1, StringAssumption DEF StringInv
      <4>2. pos + len <= SizeMax
        BY <3>3, <4>1
      <4>3. end = pos + len
        BY <4>1, <4>2, EraseEnds
      <4>4. ~(n > str_capacity)
        BY <1>1, <4>1, <4>3
      <4>5. str_status' # str_status
        BY <2>2, <3>3 DEF Stops, StringErase, StrUsable
      <4>6. n > str_capacity
        BY <2>2, <4>5 DEF StringErase
      <4> QED BY <4>4, <4>6
    <3> QED BY <2>2, <3>1, <3>2, <3>3 DEF StringErase
  <2>3. CASE \/ \E c \in CStrings : StringAppend(c)
             \/ \E ch \in Chars \cup {NUL} : StringPushBack(ch)
             \/ \E n \in 0 .. MaxText : StringReserve(n)
             \/ StringShrinkToFit \/ StringClear \/ \E it \in Iterators : StringProcess(it)
    <3>1. str_status' = "usable"
      BY <2>3 DEF StringAppend, StringPushBack, StringReserve, StringShrinkToFit, StringClear,
                  StringProcess, StrUsable
    <3> QED BY <1>3, <3>1 DEF StopStep, Tears
  <2>4. CASE FreeString
    BY <1>3, <2>4 DEF FreeString, Stops, StopStep, Tears
  <2> QED BY <1>4, <2>1, <2>2, <2>3, <2>4 DEF StrNext
<1> QED BY <1>4

LEMMA NothingAppended ==
    ASSUME StringInv, StringAppend(<<>>) PROVE UNCHANGED StrText
<1> DEFINE t == StrText
<1>1. <<>> \in Seq(Chars) /\ t \in Seq(Byte) /\ Len(t) = str_size /\ str_size \in Nat
  BY EmptySeq, TextIsSeq DEF StringInv
<1>2. StrText' = SubSeq(t, 1, str_size) \o <<>> \o SubSeq(t, str_size + 0 + 1, Len(t))
  BY <1>1, AppendSplices DEF TextPromise!Splice
<1> HIDE DEF t
<1>3. SubSeq(t, 1, Len(t)) = t /\ SubSeq(t, Len(t) + 0 + 1, Len(t)) = <<>>
  BY <1>1
<1>4. t \o <<>> = t /\ (t \o <<>>) \o <<>> = t
  BY <1>1
<1> QED BY <1>1, <1>2, <1>3, <1>4 DEF t

LEMMA StepsAreEdits ==
    ASSUME StringInv PROVE TextStep
<1> SUFFICES ASSUME str_status' = "usable" PROVE TextStep
  BY DEF TextStep
<1>1. \A c \in CStrings : c \in Seq(Chars)
  BY StringAssumption
<1>2. ASSUME NEW c \in CStrings, StringAppend(c) PROVE TextPromise!Splice(str_size, 0, c)
  BY <1>1, <1>2, AppendSplices
<1>3. ASSUME NEW c \in CStrings, NEW pos \in 0 .. str_size, StringInsert(pos, c)
      PROVE  TextPromise!Splice(pos, 0, c)
  BY <1>1, <1>3, InsertSplices
<1>4. ASSUME NEW pos \in 0 .. str_size, NEW len \in Lengths, StringErase(pos, len)
      PROVE  IF pos + len <= SizeMax
             THEN TextPromise!Splice(pos, Erased(pos, len), <<>>)
             ELSE TextPromise!Splice(pos, 0, SubSeq(StrText, pos + len - SizeMax, pos))
  <2>1. len \in 1 .. SizeMax
    BY StringAssumption
  <2> QED BY <1>4, <2>1, EraseSplices
<1>5. ASSUME NEW it \in Iterators, StringProcess(it) PROVE TextPromise!MapEach(it)
  BY <1>5, ProcessMaps
<1>6. ASSUME StringShrinkToFit \/ \E n \in 0 .. MaxText : StringReserve(n) PROVE UNCHANGED StrText
  BY <1>6, ReserveKeepsText, ShrinkKeepsText
<1>7. ASSUME StringClear PROVE TextPromise!Splice(0, str_size, <<>>)
  BY <1>7, ClearSplices
<1>8. ASSUME NEW ch \in Chars, StringPushBack(ch)
      PROVE  TextPromise!Splice(str_size, 0, <<ch>>)
  <2>1. <<ch>> \in Seq(Chars) /\ ch # NUL
    BY StringAssumption
  <2> QED BY <1>8, <2>1, AppendSplices DEF StringPushBack
<1>9. ASSUME StringPushBack(NUL) PROVE UNCHANGED StrText
  BY <1>9, NothingAppended DEF StringPushBack
<1> QED BY <1>2, <1>3, <1>4, <1>5, <1>6, <1>7, <1>8, <1>9 DEF TextStep

\* A string begins with the text it is created from.
LEMMA CreatesText ==
    ASSUME NEW c \in Seq(Chars), StrInit(c) PROVE StrText = c
<1>1. Len(c) \in Nat /\ str_size = Len(c)
  BY CBytes DEF StrInit
<1>2. str_capacity \in Nat /\ Len(c) <= str_capacity
  BY <1>1, StringAssumption DEF StrInit
<1>3. ASSUME NEW j \in 1 .. Len(c) PROVE bytes[j - 1] = c[j]
  <2>1. /\ j - 1 \in 0 .. Len(c) /\ j - 1 \in 0 .. str_capacity /\ j - 1 <= Len(c)
        /\ j - 1 < Len(c) /\ (j - 1) + 1 = j
    BY <1>1, <1>2
  <2>2. bytes[j - 1] = CByte(c, j - 1)
    BY <2>1 DEF StrInit, StrBuffer
  <2> QED BY <2>1, <2>2 DEF CByte
<1>4. c = [j \in 1 .. Len(c) |-> c[j]]
  BY LenProperties
<1>5. StrText = [j \in 1 .. Len(c) |-> c[j]]
  BY <1>1, <1>3 DEF StrText
<1> QED BY <1>4, <1>5

\* In the struct, on the heap and on the way between them, every operation is the
\* edit of the text it is named for.
THEOREM ImplementsTextHolds == StrSpec => ImplementsText
<1> DEFINE Start == \E c \in CStrings \cup {<<>>} : StrInit(c)
<1>1. Start => TextPromise!Init
  <2>1. \A c \in CStrings \cup {<<>>} : c \in Seq(Chars)
    <3>1. <<>> \in Seq(Chars)
      OBVIOUS
    <3> QED BY <3>1, StringAssumption
  <2> QED BY <2>1, CreatesText DEF TextPromise!Init
<1>2. StringInv /\ [StrNext]_strVars => [TextStep]_strVars
  BY StepsAreEdits
<1>3. StringInv /\ [StrNext]_strVars => [StopStep]_strVars
  BY StopsAreExplained
<1> QED BY <1>1, <1>2, <1>3, StringInvariant, PTL DEF StrSpec, ImplementsText

-----------------------------------------------------------------------------
(* One client over the three containers.  The list comes from an instance of *)
(* its module, and its theorems from an instance of the module that proves   *)
(* them, with the same substitution: what the two define is the same.        *)

LP == INSTANCE ListProofs WITH status <- list_status, kind <- list_kind

LEMMA SameOperations ==
    /\ LP!AdapterNext <=> L!AdapterNext
    /\ \A n, x : LP!PushFront(n, x) <=> L!PushFront(n, x)
    /\ \A n, x : LP!PushBack(n, x) <=> L!PushBack(n, x)
    /\ \A p, n, x : LP!InsertInside(p, n, x) <=> L!InsertInside(p, n, x)
    /\ \A p, n, x : LP!Insert(p, n, x) <=> L!Insert(p, n, x)
    /\ LP!PopFront <=> L!PopFront
    /\ LP!PopBack <=> L!PopBack
    /\ \A p : LP!Erase(p) <=> L!Erase(p)
    /\ LP!Destroy <=> L!Destroy
  BY DEF L!AdapterNext, LP!AdapterNext, L!Next, LP!Next, L!StackPush, LP!StackPush,
         L!QueuePush, LP!QueuePush, L!DequePushBack, LP!DequePushBack, L!DequePushFront,
         LP!DequePushFront, L!StackPop, LP!StackPop, L!QueuePop, LP!QueuePop,
         L!DequePopFront, LP!DequePopFront, L!DequePopBack, LP!DequePopBack,
         L!DestroyAdapter, LP!DestroyAdapter, L!PushFront, LP!PushFront, L!PushBack,
         LP!PushBack, L!PushFirst, LP!PushFirst, L!LinkAtSeam, LP!LinkAtSeam, L!Creates,
         LP!Creates, L!Crash, LP!Crash, L!Safe, LP!Safe, L!Usable, LP!Usable, L!PopFront,
         LP!PopFront, L!PopBack, LP!PopBack, L!Releases, LP!Releases, L!Insert, LP!Insert,
         L!InsertInside, LP!InsertInside, L!Erase, LP!Erase, L!SetListNode, LP!SetListNode,
         L!Destroy, LP!Destroy, L!SizeInc, LP!SizeInc, L!SizeDec, LP!SizeDec, L!links,
         LP!links, L!Reached, LP!Reached, L!Walk, LP!Walk, L!Cardinality, LP!Cardinality,
         L!IsFiniteSet, LP!IsFiniteSet

LEMMA SameObservations ==
    /\ LP!Ring <=> L!Ring
    /\ LP!Unlinked <=> L!Unlinked
    /\ LP!Dangling <=> L!Dangling
    /\ LP!Count = L!Count
    /\ LP!Reached = L!Reached
    /\ LP!Contents = L!Contents
  BY DEF L!Ring, LP!Ring, L!Unlinked, LP!Unlinked, L!Dangling, LP!Dangling, L!Count,
         LP!Count, L!Usable, LP!Usable, L!Reached, LP!Reached, L!Walk, LP!Walk,
         L!Cardinality, LP!Cardinality, L!IsFiniteSet, LP!IsFiniteSet, L!Contents,
         LP!Contents

LEMMA SameHeap == LP!HeapAddresses
  BY ListAssumption DEF L!HeapAddresses, LP!HeapAddresses, L!IsFiniteSet, LP!IsFiniteSet,
                        L!Cardinality, LP!Cardinality

\* The client leaves the containers it does not run against alone, so each of the
\* three sees its own steps and stutters.
THEOREM ContainersRun == ContainerSpec => AdapterSpec /\ LP!AdapterSpec /\ StrSpec
<1>1. ContainerInit => AdapterInit /\ LP!AdapterInit /\ \E c \in CStrings \cup {<<>>} : StrInit(c)
  BY DEF ContainerInit, L!AdapterInit, LP!AdapterInit, L!Init, LP!Init
<1>2. [ContainerNext]_<<container, adapterVars, listVars, strVars>> =>
         [AdapterNext]_adapterVars /\ [LP!AdapterNext]_LP!adapterVars /\ [StrNext]_strVars
  BY SameOperations DEF ContainerNext, listVars, LP!adapterVars, LP!vars
<1> QED BY <1>1, <1>2, PTL DEF ContainerSpec, AdapterSpec, LP!AdapterSpec, StrSpec

\* Whatever the client does, the nodes of the list form one ring, or it is one of
\* the three shapes without one.
THEOREM ContainersKeepListShape == ContainerSpec => []ListShape
<1>1. LP!ListShape => ListShape
  BY SameObservations DEF ListShape, L!ListShape, LP!ListShape, L!Usable, LP!Usable
<1> QED BY <1>1, ContainersRun, SameHeap, LP!ListKeepsShape, PTL

\* A client that stays with an adapter over the list meets none of its crashes,
\* and reads and pops the ends it is meant to.
THEOREM ContainersKeepAdapters == ContainerSpec => []AdaptersKeepTheList
<1>1. LP!AdaptersKeepTheList => AdaptersKeepTheList
  BY SameObservations
     DEF AdaptersKeepTheList, L!AdaptersKeepTheList, LP!AdaptersKeepTheList, L!Usable, LP!Usable,
         L!QueueFront, LP!QueueFront, L!StackTop, LP!StackTop, L!DequeFront, LP!DequeFront,
         L!DequeBack, LP!DequeBack, L!First, LP!First, L!Last, LP!Last
<1> QED BY <1>1, ContainersRun, SameHeap, LP!AdaptersKeep, PTL

\* Every crash of the list is one of the three that CrashExplained names.
THEOREM ContainersExplainCrash == ContainerSpec => CrashExplained
<1>1. [LP!CrashNeeds]_LP!vars => [L!CrashNeeds]_L!vars
  <2>1. LP!Dangling' <=> L!Dangling'
    BY SameObservations, PTL
  <2> QED BY <2>1, SameObservations, SameOperations DEF L!CrashNeeds, LP!CrashNeeds, L!vars, LP!vars
<1>2. LP!CrashExplained => CrashExplained
  BY <1>1, PTL DEF CrashExplained, L!CrashExplained, LP!CrashExplained
<1> QED BY <1>2, ContainersRun, SameHeap, LP!ListCrashExplained, PTL

\* The size of the list and the number of its nodes part only where SizeMoves
\* says they do.
THEOREM ContainersMoveSize == ContainerSpec => SizeMoves
<1>1. [LP!SizeStep]_LP!vars => [L!SizeStep]_L!vars
  <2>1. (LP!Count = L!Count)'
    BY SameObservations, PTL
  <2> QED BY <2>1, SameObservations, SameOperations DEF L!SizeStep, LP!SizeStep, L!vars, LP!vars
<1>2. LP!SizeMoves => SizeMoves
  BY <1>1, PTL DEF SizeMoves, L!SizeMoves, LP!SizeMoves
<1> QED BY <1>2, ContainersRun, SameHeap, LP!ListSizeMoves, PTL

\* Every operation of the list is the edit it is named for of the sequence its
\* nodes hold.
THEOREM ContainersEditTheList == ContainerSpec => ListImplementsSequence
<1>1. [LP!SequenceStep]_LP!vars => [L!SequenceStep]_L!vars
  <2>1. (LP!Contents = L!Contents)'
    BY SameObservations, PTL
  <2>2. \A pos : LP!Position(pos) = L!Position(pos)
    BY SameObservations DEF L!Position, LP!Position
  <2>3. /\ LP!Promise!Next <=> L!Promise!Next
        /\ \A x : LP!Promise!PushFront(x) <=> L!Promise!PushFront(x)
        /\ \A i, x : LP!Promise!InsertAfter(i, x) <=> L!Promise!InsertAfter(i, x)
        /\ LP!Promise!PopBack <=> L!Promise!PopBack
        /\ LP!Promise!PopFront <=> L!Promise!PopFront
        /\ \A i : LP!Promise!Erase(i) <=> L!Promise!Erase(i)
    BY <2>1, SameObservations
       DEF L!Promise!Next, LP!Promise!Next, L!Promise!PushBack, LP!Promise!PushBack,
           L!Promise!PushFront, LP!Promise!PushFront, L!Promise!PopBack, LP!Promise!PopBack,
           L!Promise!PopFront, LP!Promise!PopFront, L!Promise!Assign, LP!Promise!Assign,
           L!Promise!InsertAfter, LP!Promise!InsertAfter, L!Promise!Erase, LP!Promise!Erase,
           L!Promise!Truncate, LP!Promise!Truncate, L!Promise!Cons, LP!Promise!Cons,
           L!Promise!Front, LP!Promise!Front, L!Promise!ReplaceAt, LP!Promise!ReplaceAt,
           L!Promise!InsertAt, LP!Promise!InsertAt, L!Promise!RemoveAt, LP!Promise!RemoveAt
  <2> QED BY <2>1, <2>2, <2>3, SameObservations, SameOperations
          DEF L!SequenceStep, LP!SequenceStep, L!vars, LP!vars
<1>2. LP!Promise!Init => L!Promise!Init
  BY SameObservations DEF L!Promise!Init, LP!Promise!Init
<1>3. LP!ListImplementsSequence => ListImplementsSequence
  BY <1>1, <1>2, PTL
     DEF ListImplementsSequence, L!ListImplementsSequence, LP!ListImplementsSequence
<1> QED BY <1>3, ContainersRun, SameHeap, LP!ListImplements, PTL
=============================================================================
