---------------------------- MODULE MutexProofs ----------------------------
(***************************************************************************)
(* Proofs about MutexTest, for any number of threads, of them that use     *)
(* trylock, and of iterations, when the callers of trylock are told its    *)
(* result.                                                                 *)
(***************************************************************************)
EXTENDS MutexTest, FiniteSetTheorems, TLAPS

InLoop == {"try", "lock", "read", "write", "unlock"}

MutexTypes ==
    /\ pc \in [Threads -> InLoop \cup {"loop", "done"}]
    /\ left \in [Threads -> 0 .. Loops]
    /\ seen \in [Threads -> Nat]
    /\ counter \in Nat

\* A thread that is in the loop's body has an iteration left, one that is done
\* has none, and the mutex is freed when all are.
LoopsInv ==
    /\ \A t \in Threads : /\ pc[t] \in InLoop => left[t] # 0
                          /\ pc[t] = "done" => left[t] = 0
    /\ holder = M!Freed => AllDone

\* Nobody is inside without owning the mutex, so what a thread has read of the
\* counter is still its value when it writes.
MutexInv == MutexTypes /\ LoopsInv /\ OwnershipExact /\ CounterCounts

-----------------------------------------------------------------------------
(* The increments, as a set that a write adds one element to.               *)

LEMMA IncrementsFinite == IsFiniteSet(Increments)
<1>1. IsFiniteSet(1 .. Loops)
  BY MutexTestAssumption, FS_Interval
<1>2. IsFiniteSet(Threads \X (1 .. Loops))
  BY <1>1, MutexTestAssumption, FS_Product
<1>3. Increments \in SUBSET (Threads \X (1 .. Loops))
  BY DEF Increments
<1> QED BY <1>2, <1>3, FS_Subset

\* The set is determined by what is done.
LEMMA IncrementsSame ==
    ASSUME \A t \in Threads, i \in 1 .. Loops : Done(t, i)' <=> Done(t, i)
    PROVE  Increments' = Increments
  BY DEF Increments

\* A step that moves a thread but neither into nor out of "unlock".
LEMMA IncrementsKept ==
    ASSUME MutexTypes, left' = left, NEW t \in Threads, NEW l,
           pc' = [pc EXCEPT ![t] = l], pc[t] # "unlock", l # "unlock"
    PROVE  Increments' = Increments
<1>1. \A u \in Threads : pc[u] = "unlock" <=> pc'[u] = "unlock"
  BY DEF MutexTypes
<1>2. \A u \in Threads, i \in 1 .. Loops : Done(u, i)' <=> Done(u, i)
  BY <1>1 DEF Done
<1> QED BY <1>2, IncrementsSame

LEMMA IncrementsWritten ==
    ASSUME MutexTypes, NEW t \in Threads, Write(t), left[t] # 0
    PROVE  /\ Increments' = Increments \cup {<<t, left[t]>>}
           /\ <<t, left[t]>> \notin Increments
<1>1. /\ left' = left /\ pc' = [pc EXCEPT ![t] = "unlock"] /\ pc[t] = "write"
      /\ left[t] \in 1 .. Loops
  BY MutexTestAssumption DEF MutexTypes, Write, Goto
<1>2. \A u \in Threads : pc'[u] = "unlock" <=> (u = t \/ pc[u] = "unlock")
  BY <1>1 DEF MutexTypes
<1>3. \A u \in Threads, i \in 1 .. Loops :
          Done(u, i)' <=> (Done(u, i) \/ (u = t /\ i = left[t]))
  BY <1>1, <1>2 DEF Done
<1>4. ~Done(t, left[t])
  BY <1>1 DEF Done
<1>5. ASSUME NEW x \in Threads \X (1 .. Loops)
      PROVE  x \in Increments' <=> (x \in Increments \/ x = <<t, left[t]>>)
  <2>1. x[1] \in Threads /\ x[2] \in 1 .. Loops /\ x = <<x[1], x[2]>>
    OBVIOUS
  <2>2. x \in Increments' <=> Done(x[1], x[2])'
    BY DEF Increments
  <2>3. x \in Increments <=> Done(x[1], x[2])
    BY DEF Increments
  <2>4. x = <<t, left[t]>> <=> (x[1] = t /\ x[2] = left[t])
    BY <2>1
  <2> QED BY <1>3, <2>1, <2>2, <2>3, <2>4
<1>6. /\ <<t, left[t]>> \in Threads \X (1 .. Loops)
      /\ Increments \subseteq Threads \X (1 .. Loops)
      /\ Increments' \subseteq Threads \X (1 .. Loops)
  BY <1>1 DEF Increments
<1>7. <<t, left[t]>> \notin Increments
  BY <1>4 DEF Increments
<1> QED BY <1>5, <1>6, <1>7

LEMMA IncrementsUnlocked ==
    ASSUME MutexTypes, NEW t \in Threads, Unlock(t), left[t] # 0
    PROVE  Increments' = Increments
<1>1. /\ left' = [left EXCEPT ![t] = @ - 1] /\ pc' = [pc EXCEPT ![t] = "loop"]
      /\ pc[t] = "unlock" /\ left \in [Threads -> 0 .. Loops] /\ Loops \in Nat
  BY MutexTestAssumption DEF MutexTypes, Unlock, Goto
<1>2. ASSUME NEW u \in Threads, NEW i \in 1 .. Loops PROVE Done(u, i)' <=> Done(u, i)
  <2>1. CASE u = t
    <3>1. left'[u] = left[u] - 1 /\ pc'[u] = "loop" /\ pc[u] = "unlock" /\ left[u] \in Nat
      BY <1>1, <2>1 DEF MutexTypes
    <3> QED BY <3>1 DEF Done
  <2>2. CASE u # t
    <3>1. left'[u] = left[u] /\ pc'[u] = pc[u]
      BY <1>1, <2>2 DEF MutexTypes
    <3> QED BY <3>1 DEF Done
  <2> QED BY <2>1, <2>2
<1> QED BY <1>2, IncrementsSame

-----------------------------------------------------------------------------
LEMMA InitHolds == Init => MutexInv
<1> SUFFICES ASSUME Init PROVE MutexInv
  OBVIOUS
<1> USE MutexTestAssumption DEF Init, M!MutexInit
<1>1. MutexTypes
  BY DEF MutexTypes
<1>2. LoopsInv
  BY DEF LoopsInv, InLoop, M!Freed
<1>3. OwnershipExact
  BY DEF OwnershipExact, Inside
<1>4. Increments = {}
  BY DEF Increments, Done
<1>5. CounterCounts
  BY <1>4, FS_EmptySet DEF CounterCounts
<1> QED BY <1>1, <1>2, <1>3, <1>5 DEF MutexInv

\* A step of the loop that touches neither the counter nor the mutex's owner.
LEMMA LoopKeeps == ASSUME MutexInv, NEW t \in Threads, Loop(t) PROVE MutexInv'
<1> USE DEF MutexInv
<1>1. PICK l \in {"done", "try", "lock"} :
          /\ pc' = [pc EXCEPT ![t] = l]
          /\ (l = "done") <=> left[t] = 0
  BY DEF Loop
<1>2. /\ pc[t] = "loop" /\ UNCHANGED <<holder, left, seen, counter>>
      /\ \A u \in Threads : u # t => pc'[u] = pc[u]
      /\ pc'[t] = l
  BY <1>1 DEF Loop, MutexTypes
<1>3. MutexTypes'
  BY <1>1, <1>2 DEF MutexTypes, InLoop
<1>4. LoopsInv'
  BY <1>1, <1>2 DEF LoopsInv, InLoop, AllDone
<1>5. OwnershipExact'
  BY <1>1, <1>2 DEF OwnershipExact, Inside
<1>6. CounterCounts'
  BY <1>1, <1>2, IncrementsKept DEF CounterCounts
<1> QED BY <1>3, <1>4, <1>5, <1>6

\* The mutex is taken, by lock or by a trylock whose result was positive.
LEMMA TakeKeeps ==
    ASSUME MutexInv, NEW t \in Threads, pc[t] \in {"lock", "try"},
           pc' = [pc EXCEPT ![t] = "read"], holder = Nobody, holder' = t,
           UNCHANGED <<left, seen, counter>>
    PROVE  MutexInv'
<1> USE DEF MutexInv
<1>1. \A u \in Threads : u # t => pc'[u] = pc[u]
  BY DEF MutexTypes
<1>2. pc'[t] = "read"
  BY DEF MutexTypes
<1>3. MutexTypes'
  BY DEF MutexTypes, InLoop
<1>4. LoopsInv'
  BY <1>1, <1>2, MutexTestAssumption DEF LoopsInv, InLoop, M!Freed
<1>5. OwnershipExact'
  BY <1>1, <1>2, MutexTestAssumption DEF OwnershipExact, Inside
<1>6. CounterCounts'
  BY <1>1, <1>2, IncrementsKept DEF CounterCounts
<1> QED BY <1>3, <1>4, <1>5, <1>6

LEMMA TryLockKeeps ==
    ASSUME MutexInv, ~PublicApi, NEW t \in Threads, TryLock(t) PROVE MutexInv'
<1>1. PICK acquired \in BOOLEAN :
          /\ M!TryLockMutex(t, acquired)
          /\ Goto(t, "try", IF Verdict(acquired) THEN "read" ELSE "try")
          /\ UNCHANGED <<left, seen, counter>>
  BY DEF TryLock
<1>2. CASE acquired
  BY <1>1, <1>2, TakeKeeps DEF M!TryLockMutex, Goto, Verdict
<1>3. CASE ~acquired
  <2>1. pc' = pc /\ holder' = holder
    BY <1>1, <1>3 DEF M!TryLockMutex, Goto, Verdict, MutexInv, MutexTypes
  <2> QED BY <1>1, <2>1 DEF MutexInv, MutexTypes, LoopsInv, OwnershipExact, CounterCounts,
                            AllDone, Inside, Increments, Done
<1> QED BY <1>2, <1>3

\* Whoever reads is the only one inside.
LEMMA ReadKeeps == ASSUME MutexInv, NEW t \in Threads, Read(t) PROVE MutexInv'
<1> USE DEF MutexInv
<1>1. /\ pc[t] = "read" /\ pc' = [pc EXCEPT ![t] = "write"]
      /\ seen' = [seen EXCEPT ![t] = counter] /\ UNCHANGED <<holder, left, counter>>
  BY DEF Read, Goto
<1>2. /\ \A u \in Threads : u # t => pc'[u] = pc[u]
      /\ pc'[t] = "write"
  BY <1>1 DEF MutexTypes
<1>3. MutexTypes'
  BY <1>1 DEF MutexTypes, InLoop
<1>4. LoopsInv'
  BY <1>1, <1>2 DEF LoopsInv, InLoop, AllDone
<1>5. OwnershipExact'
  BY <1>1, <1>2 DEF OwnershipExact, Inside
<1>6. CounterCounts'
  BY <1>1, <1>2, IncrementsKept DEF CounterCounts, MutexTypes
<1> QED BY <1>3, <1>4, <1>5, <1>6

LEMMA WriteKeeps == ASSUME MutexInv, NEW t \in Threads, Write(t) PROVE MutexInv'
<1> USE DEF MutexInv
<1>1. /\ pc[t] = "write" /\ pc' = [pc EXCEPT ![t] = "unlock"]
      /\ counter' = seen[t] + 1 /\ UNCHANGED <<holder, left, seen>>
  BY DEF Write, Goto
<1>2. /\ \A u \in Threads : u # t => pc'[u] = pc[u]
      /\ pc'[t] = "unlock"
  BY <1>1 DEF MutexTypes
<1>3. MutexTypes'
  BY <1>1 DEF MutexTypes, InLoop
<1>4. LoopsInv'
  BY <1>1, <1>2 DEF LoopsInv, InLoop, AllDone
<1>5. OwnershipExact'
  BY <1>1, <1>2 DEF OwnershipExact, Inside
<1>6. CounterCounts'
  <2>1. left[t] # 0 /\ seen[t] = counter
    BY <1>1 DEF LoopsInv, InLoop, CounterCounts
  <2>2. Cardinality(Increments') = Cardinality(Increments) + 1
    BY <2>1, IncrementsWritten, IncrementsFinite, FS_AddElement
  <2>3. \A u \in Threads : pc'[u] # "write"
    BY <1>1, <1>2 DEF OwnershipExact, Inside
  <2> QED BY <1>1, <2>1, <2>2, <2>3 DEF CounterCounts
<1> QED BY <1>3, <1>4, <1>5, <1>6

LEMMA UnlockKeeps == ASSUME MutexInv, NEW t \in Threads, Unlock(t) PROVE MutexInv'
<1> USE DEF MutexInv
<1>1. /\ pc[t] = "unlock" /\ pc' = [pc EXCEPT ![t] = "loop"] /\ holder' = Nobody
      /\ left' = [left EXCEPT ![t] = @ - 1] /\ UNCHANGED <<seen, counter>>
  BY DEF Unlock, Goto, M!UnlockMutex
<1>2. /\ \A u \in Threads : u # t => pc'[u] = pc[u] /\ left'[u] = left[u]
      /\ pc'[t] = "loop" /\ left[t] # 0 /\ holder = t
  BY <1>1 DEF MutexTypes, LoopsInv, InLoop, OwnershipExact, Inside
<1>3. MutexTypes'
  BY <1>1, <1>2, MutexTestAssumption DEF MutexTypes, InLoop
<1>4. LoopsInv'
  BY <1>1, <1>2, MutexTestAssumption DEF LoopsInv, InLoop, M!Freed
<1>5. OwnershipExact'
  BY <1>1, <1>2, MutexTestAssumption DEF OwnershipExact, Inside
<1>6. CounterCounts'
  BY <1>1, <1>2, IncrementsUnlocked DEF CounterCounts
<1> QED BY <1>3, <1>4, <1>5, <1>6

LEMMA FreeKeeps == ASSUME MutexInv, Free PROVE MutexInv'
<1>1. UNCHANGED <<pc, left, seen, counter>> /\ AllDone /\ holder' = M!Freed
  BY DEF Free, M!FreeMutex
<1>2. OwnershipExact'
  BY <1>1, MutexTestAssumption DEF OwnershipExact, Inside, AllDone, M!Freed
<1> QED BY <1>1, <1>2 DEF MutexInv, MutexTypes, LoopsInv, CounterCounts, AllDone, Increments, Done

-----------------------------------------------------------------------------
\* The invariant is inductive when the result of trylock reaches its caller.
THEOREM MutexInvariant == ASSUME ~PublicApi PROVE Spec => []MutexInv
<1>1. MutexInv /\ [Next]_vars => MutexInv'
  <2> SUFFICES ASSUME MutexInv, [Next]_vars PROVE MutexInv'
    OBVIOUS
  <2>1. ASSUME NEW t \in Threads, ThreadStep(t) PROVE MutexInv'
    <3>1. CASE Lock(t)
      BY <3>1, TakeKeeps DEF Lock, Goto, M!LockMutex
    <3> QED BY <2>1, <3>1, LoopKeeps, TryLockKeeps, ReadKeeps, WriteKeeps, UnlockKeeps
            DEF ThreadStep
  <2>2. CASE UNCHANGED vars
    BY <2>2 DEF vars, MutexInv, MutexTypes, LoopsInv, OwnershipExact, CounterCounts, AllDone,
                Inside, Increments, Done
  <2> QED BY <2>1, <2>2, FreeKeeps DEF Next, Over
<1> QED BY <1>1, InitHolds, PTL DEF Spec

\* A thread is inside the critical section exactly while it owns the mutex.
THEOREM OwnershipExactHolds == ASSUME ~PublicApi PROVE Spec => []OwnershipExact
<1>1. MutexInv => OwnershipExact
  BY DEF MutexInv
<1> QED BY <1>1, MutexInvariant, PTL

\* The counter is at every moment the number of increments done.
THEOREM CounterCountsHolds == ASSUME ~PublicApi PROVE Spec => []CounterCounts
<1>1. MutexInv => CounterCounts
  BY DEF MutexInv
<1> QED BY <1>1, MutexInvariant, PTL

\* So no increment is lost: in the end the counter is what the test expects.
THEOREM NoIncrementLost == ASSUME ~PublicApi PROVE Spec => []CounterExact
<1>1. ASSUME MutexInv, AllDone PROVE counter = Cardinality(Threads) * Loops
  <2>1. \A t \in Threads : pc[t] = "done" /\ left[t] = 0
    BY <1>1 DEF AllDone, MutexInv, LoopsInv
  <2>2. \A t \in Threads, i \in 1 .. Loops : Done(t, i)
    BY <2>1 DEF Done
  <2>3. Increments = Threads \X (1 .. Loops)
    BY <2>2 DEF Increments
  <2>4. IsFiniteSet(1 .. Loops) /\ Cardinality(1 .. Loops) = Loops
    BY MutexTestAssumption, FS_Interval
  <2>5. Cardinality(Threads \X (1 .. Loops)) = Cardinality(Threads) * Loops
    BY <2>4, MutexTestAssumption, FS_Product
  <2> QED BY <1>1, <2>3, <2>5 DEF MutexInv, CounterCounts
<1>2. MutexInv => CounterExact
  BY <1>1 DEF CounterExact
<1> QED BY <1>2, MutexInvariant, PTL
=============================================================================
