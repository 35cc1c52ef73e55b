--------------------------- MODULE BoundedBuffer ---------------------------
(***************************************************************************)
(* example/thread/cond_var_example.c: a producer and a consumer share the  *)
(* counter `buffer' under one CCMutex and wait for each other on two       *)
(* condition variables.  CCCoreBasicConditionalVariable_Wait knows nothing *)
(* of the CCMutex, so both threads wait while they hold it.                *)
(*                                                                         *)
(* The module composes Mutex and two instances of CondVar.                 *)
(***************************************************************************)
EXTENDS Integers, FiniteSets

CONSTANTS producer, consumer, Nobody,
          Items,        \* iterations of both loops, 10 in the code
          BufferSize,   \* BUFFER_SIZE, 5 in the code
          IntMax,
          MaxSpurious   \* bound on the wakeups no notification explains

Threads == {producer, consumer}

ASSUME BufferAssumption ==
    /\ Items \in Nat /\ BufferSize \in Nat \ {0}
    /\ IntMax \in Nat /\ Items <= IntMax
    /\ producer # consumer /\ Nobody # "freed"
    /\ Threads \cap {Nobody, "freed"} = {}

VARIABLES pc,           \* where each thread is in its loop
          rounds,       \* iterations each thread has finished
          buffer,
          holder,       \* the CCMutex
          emptyPc, emptyOwner, emptyPending,  \* cv_empty
          fullPc, fullOwner, fullPending,     \* cv_full
          freed,        \* the condition variables main has freed
          spurious      \* spurious wakeups so far

localVars == <<pc, rounds, buffer, holder, freed, spurious>>
emptyVars == <<emptyPc, emptyOwner, emptyPending>>
fullVars  == <<fullPc, fullOwner, fullPending>>
vars      == <<localVars, emptyVars, fullVars>>

M     == INSTANCE Mutex
Empty == INSTANCE CondVar WITH pc <- emptyPc, owner <- emptyOwner, pending <- emptyPending
Full  == INSTANCE CondVar WITH pc <- fullPc, owner <- fullOwner, pending <- fullPending

Init == /\ pc = [t \in Threads |-> "loop"]
        /\ rounds = [t \in Threads |-> 0]
        /\ buffer = 0
        /\ M!MutexInit
        /\ Empty!Init
        /\ Full!Init
        /\ freed = {}
        /\ spurious = 0

Goto(t, from, to) == pc[t] = from /\ pc' = [pc EXCEPT ![t] = to]

\* The conditions of the two while loops, and what follows them.
MustWaitLate(t) == IF t = producer THEN buffer > BufferSize ELSE buffer <= 0
MustWait(t) == IF t = producer THEN buffer >= BufferSize ELSE buffer <= 0
Change(t)   == IF t = producer THEN buffer + 1 ELSE buffer - 1

\* The producer waits on cv_empty, the consumer on cv_full; each notifies the
\* other's.
CallWait(t) == IF t = producer THEN Empty!CallWait(t) /\ UNCHANGED fullVars
                               ELSE Full!CallWait(t)  /\ UNCHANGED emptyVars
CallNotifyAll(t) == IF t = producer THEN Full!CallNotifyAll(t)  /\ UNCHANGED emptyVars
                                    ELSE Empty!CallNotifyAll(t) /\ UNCHANGED fullVars
CallNotify(t) == IF t = producer THEN Full!CallNotifyOne(t)  /\ UNCHANGED emptyVars
                                 ELSE Empty!CallNotifyOne(t) /\ UNCHANGED fullVars
InCall(t) == emptyPc[t] # "idle" \/ fullPc[t] # "idle"

-----------------------------------------------------------------------------
Loop(t) == /\ rounds[t] < Items
           /\ Goto(t, "loop", "lock")
           /\ UNCHANGED <<rounds, buffer, holder, emptyVars, fullVars, freed, spurious>>

Return(t) == /\ rounds[t] = Items
             /\ Goto(t, "loop", "done")
             /\ UNCHANGED <<rounds, buffer, holder, emptyVars, fullVars, freed, spurious>>

Lock(t) == /\ Goto(t, "lock", "test")
           /\ M!LockMutex(t)
           /\ UNCHANGED <<rounds, buffer, emptyVars, fullVars, freed, spurious>>

\* The body of the while loop: Wait, with the CCMutex still locked.
WaitForOther(t) == /\ MustWait(t)
                   /\ Goto(t, "test", "waiting")
                   /\ CallWait(t)
                   /\ UNCHANGED <<rounds, buffer, holder, freed, spurious>>

Retest(t) == /\ ~InCall(t)
             /\ Goto(t, "waiting", "test")
             /\ UNCHANGED <<rounds, buffer, holder, emptyVars, fullVars, freed, spurious>>

\* The while loop is left ...
Proceed(t) == /\ ~MustWait(t)
              /\ Goto(t, "test", "work")
              /\ UNCHANGED <<rounds, buffer, holder, emptyVars, fullVars, freed, spurious>>

\* ... for buffer++ of the producer, buffer-- of the consumer.
Work(t) == /\ Goto(t, "work", "unlock")
           /\ buffer' = Change(t)
           /\ UNCHANGED <<rounds, holder, emptyVars, fullVars, freed, spurious>>

Unlock(t) == /\ Goto(t, "unlock", "notify")
             /\ M!UnlockMutex
             /\ UNCHANGED <<rounds, buffer, emptyVars, fullVars, freed, spurious>>

Notify(t) == /\ Goto(t, "notify", "notifying")
             /\ CallNotify(t)
             /\ UNCHANGED <<rounds, buffer, holder, freed, spurious>>

NextRound(t) == /\ ~InCall(t)
                /\ Goto(t, "notifying", "loop")
                /\ rounds' = [rounds EXCEPT ![t] = @ + 1]
                /\ UNCHANGED <<buffer, holder, emptyVars, fullVars, freed, spurious>>

InsideCondVar(t) == \/ Empty!Inside(t) /\ UNCHANGED <<localVars, fullVars>>
                    \/ Full!Inside(t)  /\ UNCHANGED <<localVars, emptyVars>>

Spurious(t) == /\ spurious < MaxSpurious
               /\ spurious' = spurious + 1
               /\ UNCHANGED <<pc, rounds, buffer, holder, freed>>
               /\ \/ Empty!WaitSpurious(t) /\ UNCHANGED fullVars
                  \/ Full!WaitSpurious(t)  /\ UNCHANGED emptyVars

ThreadStep(t) == \/ Loop(t) \/ Return(t) \/ Lock(t) \/ WaitForOther(t) \/ Retest(t)
                 \/ Proceed(t) \/ Work(t) \/ Unlock(t) \/ Notify(t) \/ NextRound(t)
                 \/ InsideCondVar(t)

\* main joins both threads and frees cv_empty, cv_full and the mutex: the
\* example is finished.
AllJoined == \A t \in Threads : pc[t] = "done"
FreeCondVar(cv) == freed' = freed \cup {cv} /\ UNCHANGED holder
Free == /\ AllJoined
        /\ \/ freed = {} /\ FreeCondVar("cv_empty")
           \/ freed = {"cv_empty"} /\ FreeCondVar("cv_full")
           \/ freed = {"cv_empty", "cv_full"} /\ M!FreeMutex /\ UNCHANGED freed
        /\ UNCHANGED <<pc, rounds, buffer, emptyVars, fullVars, spurious>>

AllDone == holder = M!Freed /\ freed = {"cv_empty", "cv_full"}
Over    == AllDone /\ UNCHANGED vars

Next == (\E t \in Threads : ThreadStep(t) \/ Spurious(t)) \/ Free \/ Over

\* The scheduler runs every thread that can run; the sleeps at the end of an
\* iteration order nothing.
Spec == /\ Init /\ [][Next]_vars
        /\ \A t \in Threads : WF_vars(ThreadStep(t))
        /\ WF_vars(Free)

-----------------------------------------------------------------------------
(* Properties                                                               *)

Produced(t) == rounds[t] + (IF pc[t] \in {"unlock", "notify", "notifying"} THEN 1 ELSE 0)

\* The buffer never under- or overflows and holds exactly what was produced
\* and not yet consumed.
BufferExact == /\ buffer \in 0 .. BufferSize
               /\ buffer = Produced(producer) - Produced(consumer)

\* A condition variable never owes more wakeups than its notifier has made:
\* the notifications of finished rounds are still pending or were consumed.
\* Notifications nobody waited for pile up, so a later Wait returns at once
\* although its condition is still false.
PendingBounded == /\ fullPending \in 0 .. Produced(producer)
                  /\ emptyPending \in 0 .. Produced(consumer)

Waiting(t)     == pc[t] = "waiting"
Other(t)       == IF t = producer THEN consumer ELSE producer
TokensFor(t)   == IF t = producer THEN emptyPending ELSE fullPending
InWait(t)      == (IF t = producer THEN emptyPc[t] ELSE fullPc[t])
                     \in {"wait_lock", "wait_test", "wait_enter", "wait_sleep", "wait_relock"}

\* The example's threads are stuck when one waits for a notification it has
\* not got, holding the CCMutex, and the other has to lock the CCMutex before
\* it notifies again.
Stuck == \E t \in Threads : /\ Waiting(t) /\ InWait(t) /\ holder = t
                            /\ TokensFor(t) = 0
                            /\ pc[Other(t)] \in {"loop", "lock"}
                            /\ rounds[Other(t)] < Items

\* No step undoes it, not even a spurious wakeup.
StuckForever == [][Stuck => Stuck']_vars

\* And there is no other way to fail: the example finishes or gets stuck so.
FinishesOrStuck == <>[](AllDone \/ Stuck)

\* "Example finished." (cond_var_example.c:72)
ExampleFinishes == <>AllDone
=============================================================================
