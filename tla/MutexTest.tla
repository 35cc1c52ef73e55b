----------------------------- MODULE MutexTest -----------------------------
(***************************************************************************)
(* test_mutex.c: threads that increment g_counter Loops times under one    *)
(* CCMutex (worker_inc), and threads that take the mutex with trylock and  *)
(* judge the outcome (test_basic, test_mutex.c:31-39).                     *)
(*                                                                         *)
(* There are two ways to judge it.  The backend returns whether the mutex  *)
(* was acquired.  CCCoreBasicMutex_trylockMutex drops that result and is   *)
(* void, so its callers read errno, as the test does; pthread_mutex_trylock*)
(* reports through its result and leaves errno at the 0 it was reset to.   *)
(***************************************************************************)
EXTENDS Naturals, FiniteSets

CONSTANTS Threads,     \* the threads that share g_mutex
          TryUsers,    \* those that call trylock instead of lock
          Nobody,
          Loops,       \* increments per thread
          PublicApi    \* TRUE: trylock is called through mutex.h

ASSUME MutexTestAssumption ==
    /\ IsFiniteSet(Threads) /\ TryUsers \subseteq Threads
    /\ Threads \cap {Nobody, "freed"} = {} /\ Nobody # "freed"
    /\ Loops \in Nat /\ PublicApi \in BOOLEAN

VARIABLES pc,        \* where each thread is in its loop
          holder,    \* the CCMutex
          left,      \* iterations each thread still has to do
          seen,      \* the value of g_counter each thread has read
          counter    \* g_counter

vars == <<pc, holder, left, seen, counter>>

M == INSTANCE Mutex

Goto(t, from, to) == pc[t] = from /\ pc' = [pc EXCEPT ![t] = to]

Init == /\ pc = [t \in Threads |-> "loop"]
        /\ M!MutexInit
        /\ left = [t \in Threads |-> Loops]
        /\ seen = [t \in Threads |-> 0]
        /\ counter = 0

\* The test of the for loop.
Loop(t) == /\ pc[t] = "loop"
           /\ pc' = [pc EXCEPT ![t] = IF left[t] = 0 THEN "done"
                                      ELSE IF t \in TryUsers THEN "try" ELSE "lock"]
           /\ UNCHANGED <<holder, left, seen, counter>>

Lock(t) == /\ Goto(t, "lock", "read")
           /\ M!LockMutex(t)
           /\ UNCHANGED <<left, seen, counter>>

\* The caller's verdict on trylock: through mutex.h, errno == 0.
Verdict(acquired) == PublicApi \/ acquired

\* A caller that is told it failed tries again.
TryLock(t) == \E acquired \in BOOLEAN :
                 /\ M!TryLockMutex(t, acquired)
                 /\ Goto(t, "try", IF Verdict(acquired) THEN "read" ELSE "try")
                 /\ UNCHANGED <<left, seen, counter>>

\* g_counter++ is a load and a store.
Read(t) == /\ Goto(t, "read", "write")
           /\ seen' = [seen EXCEPT ![t] = counter]
           /\ UNCHANGED <<holder, left, counter>>

Write(t) == /\ Goto(t, "write", "unlock")
            /\ counter' = seen[t] + 1
            /\ UNCHANGED <<holder, left, seen>>

Unlock(t) == /\ Goto(t, "unlock", "loop")
             /\ M!UnlockMutex
             /\ left' = [left EXCEPT ![t] = @ - 1]
             /\ UNCHANGED <<seen, counter>>

ThreadStep(t) == \/ Loop(t) \/ Lock(t) \/ TryLock(t)
                 \/ Read(t) \/ Write(t) \/ Unlock(t)

\* main joins the threads and frees the mutex.
AllDone == \A t \in Threads : pc[t] = "done"
Free    == AllDone /\ M!FreeMutex /\ UNCHANGED <<pc, left, seen, counter>>

Over == holder = M!Freed /\ UNCHANGED vars

Next == (\E t \in Threads : ThreadStep(t)) \/ Free \/ Over

\* The scheduler runs every thread that can run.  Threads do finitely many
\* iterations, so a thread that wants the mutex is overtaken finitely often.
Spec == /\ Init /\ [][Next]_vars
        /\ \A t \in Threads : WF_vars(ThreadStep(t))
        /\ WF_vars(Free)

-----------------------------------------------------------------------------
(* Properties                                                               *)

Inside(t) == pc[t] \in {"read", "write", "unlock"}

\* A thread that believes it has the mutex has it: it is in the critical
\* section exactly while it is the holder.
OwnershipExact == \A t \in Threads : Inside(t) <=> (holder = t)

\* "Expected=%d, Actual=%d": no increment is lost.
CounterExact == AllDone => counter = Cardinality(Threads) * Loops

\* What g_counter must be at every moment: the iterations finished, and the
\* increment of the thread that is about to unlock.
Done(t, i) == i > left[t] \/ (i = left[t] /\ pc[t] = "unlock")
Increments == {x \in Threads \X (1 .. Loops) : Done(x[1], x[2])}
CounterCounts == /\ counter = Cardinality(Increments)
                 /\ \A t \in Threads : pc[t] = "write" => seen[t] = counter

\* Every thread gets through its loop, and the mutex is freed, open, after the last.
AllTerminate == <>(AllDone /\ holder = M!Freed)

\* "Trylock succeeded." (test_mutex.c:35): a caller that sees errno == 0 and
\* goes on to use and unlock the mutex is alone in doing so.
TrylockSucceededMeansLocked == \A t \in TryUsers : Inside(t) => holder = t
=============================================================================
