------------------------------ MODULE CondVar ------------------------------
(***************************************************************************)
(* The condition variable of thread/condition_variable, whose POSIX        *)
(* implementation is a token counter `pending' guarded by a pthread mutex, *)
(* with a pthread condition to sleep on while the counter is zero.         *)
(*                                                                         *)
(* The module is open: an idle thread may call any operation at any time.  *)
(* Clients (CondVarTest, BoundedBuffer) constrain the calls.  Calls are    *)
(* split at every point where another thread can observe or interfere.     *)
(***************************************************************************)
EXTENDS Integers, FiniteSets

CONSTANTS Threads,  \* the threads that share the condition variable
          Nobody,   \* the owner of a free mutex
          IntMax    \* INT_MAX; `pending' is an int

ASSUME ThreadsAssumption ==
    /\ IsFiniteSet(Threads)
    /\ Nobody \notin Threads

\* Fewer threads than INT_MAX, which every process satisfies.
ASSUME WidthAssumption ==
    /\ IntMax \in Nat
    /\ Cardinality(Threads) <= IntMax

VARIABLES pc,       \* where each thread is inside the implementation
          owner,    \* holder of impl->mutex, or Nobody
          pending   \* impl->pending, the unconsumed notifications

vars == <<pc, owner, pending>>

-----------------------------------------------------------------------------
(* C int arithmetic: `pending++' and `pending--' wrap around in the code    *)
(* the build emits for them (one add to memory).                            *)

IntMin == -IntMax - 1
Int32  == IntMin .. IntMax

IncNoWrap(n) == n + 1
Inc(n) == IF n = IntMax THEN IntMin ELSE n + 1
Dec(n) == IF n = IntMin THEN IntMax ELSE n - 1

\* INT_MAX / 2, what NotifyAll stores.
Plenty == IntMax \div 2

WaitLabels   == {"wait_lock", "wait_test", "wait_enter", "wait_sleep", "wait_relock"}
NotifyLabels == {"one_lock", "one_post", "one_signal",
                 "all_lock", "all_post", "all_broadcast"}
Labels       == {"idle", "unlock"} \cup WaitLabels \cup NotifyLabels

\* The labels between pthread_mutex_lock and pthread_mutex_unlock.
Critical == {"wait_test", "wait_enter", "one_post", "one_signal",
             "all_post", "all_broadcast", "unlock"}

At(label) == {t \in Threads : pc[t] = label}
Asleep    == At("wait_sleep")

Goto(t, from, to) == /\ pc[t] = from
                     /\ pc' = [pc EXCEPT ![t] = to]

-----------------------------------------------------------------------------
\* CCBasicCoreConditionVariableIMPL_Create, on success.
Init == /\ pc = [t \in Threads |-> "idle"]
        /\ owner = Nobody
        /\ pending = 0

\* pthread_mutex_lock, first statement of every operation; with `from'
\* wait_relock it is the lock pthread_cond_wait takes before it returns.
Lock(t, from, to) == /\ owner = Nobody
                     /\ Goto(t, from, to)
                     /\ owner' = t
                     /\ UNCHANGED pending

\* pthread_mutex_unlock, last statement of every operation.
Unlock(t) == /\ Goto(t, "unlock", "idle")
             /\ owner' = Nobody
             /\ UNCHANGED pending

\* An idle thread calls Wait, NotifyOne or NotifyAll.
CallWait(t)      == Goto(t, "idle", "wait_lock") /\ UNCHANGED <<owner, pending>>
CallNotifyOne(t) == Goto(t, "idle", "one_lock")  /\ UNCHANGED <<owner, pending>>
CallNotifyAll(t) == Goto(t, "idle", "all_lock")  /\ UNCHANGED <<owner, pending>>

-----------------------------------------------------------------------------
(* CCBasicCoreConditionVariableIMPL_Wait                                    *)

WaitLock(t) == Lock(t, "wait_lock", "wait_test")

\* while (pending == 0): the loop is entered ...
WaitEmpty(t) == /\ pending = 0
                /\ Goto(t, "wait_test", "wait_enter")
                /\ UNCHANGED <<owner, pending>>

WaitSleepLocked(t) == /\ Goto(t, "wait_enter", "wait_sleep")
                      /\ UNCHANGED <<owner, pending>>

\* ... pthread_cond_wait releases the mutex and sleeps in one step ...
WaitSleep(t) == /\ Goto(t, "wait_enter", "wait_sleep")
                /\ owner' = Nobody
                /\ UNCHANGED pending

\* ... possibly wakes with no signal at all ...
WaitSpurious(t) == /\ Goto(t, "wait_sleep", "wait_relock")
                   /\ UNCHANGED <<owner, pending>>

\* `if' for `while'.
WaitRelockIf(t) == Lock(t, "wait_relock", "unlock")

\* ... and takes the mutex back before the test is repeated.
WaitRelock(t) == Lock(t, "wait_relock", "wait_test")

\* The loop is left: one notification is consumed.
WaitConsume(t) == /\ pending # 0
                  /\ Goto(t, "wait_test", "unlock")
                  /\ pending' = Dec(pending)
                  /\ UNCHANGED owner

-----------------------------------------------------------------------------
(* CCBasicCoreConditionVariableIMPL_NotifyOne and _NotifyAll                *)

OneLock(t) == Lock(t, "one_lock", "one_post")

OnePost(t) == /\ Goto(t, "one_post", "one_signal")
              /\ pending' = Inc(pending)
              /\ UNCHANGED owner

\* Signals only the first token of a burst.
OneSignalFirst(t) ==
    /\ pc[t] = "one_signal"
    /\ \/ \E w \in Asleep : /\ pending = 1
                           /\ pc' = [pc EXCEPT ![t] = "unlock", ![w] = "wait_relock"]
       \/ /\ Asleep = {} \/ pending # 1
          /\ pc' = [pc EXCEPT ![t] = "unlock"]
    /\ UNCHANGED <<owner, pending>>

\* pthread_cond_signal unblocks a sleeper of its choice, when there is one.
OneSignal(t) ==
    /\ pc[t] = "one_signal"
    /\ \/ \E w \in Asleep :
            pc' = [pc EXCEPT ![t] = "unlock", ![w] = "wait_relock"]
       \/ /\ Asleep = {}
          /\ pc' = [pc EXCEPT ![t] = "unlock"]
    /\ UNCHANGED <<owner, pending>>

AllLock(t) == Lock(t, "all_lock", "all_post")

\* The counter is overwritten, whatever it held.
AllPost(t) == /\ Goto(t, "all_post", "all_broadcast")
              /\ pending' = Plenty
              /\ UNCHANGED owner

\* Signal for broadcast.
AllBroadcastOne(t) ==
    /\ pc[t] = "all_broadcast"
    /\ \/ \E w \in Asleep :
            pc' = [pc EXCEPT ![t] = "unlock", ![w] = "wait_relock"]
       \/ /\ Asleep = {}
          /\ pc' = [pc EXCEPT ![t] = "unlock"]
    /\ UNCHANGED <<owner, pending>>

\* pthread_cond_broadcast unblocks every sleeper.
AllBroadcast(t) ==
    /\ pc[t] = "all_broadcast"
    /\ pc' = [u \in Threads |-> CASE u = t         -> "unlock"
                                  [] u \in Asleep  -> "wait_relock"
                                  [] OTHER         -> pc[u]]
    /\ UNCHANGED <<owner, pending>>

-----------------------------------------------------------------------------
Call(t) == CallWait(t) \/ CallNotifyOne(t) \/ CallNotifyAll(t)

Wait(t) == \/ WaitLock(t)
           \/ WaitEmpty(t)
           \/ WaitSleep(t)
           \/ WaitRelock(t)
           \/ WaitConsume(t)

NotifyOne(t) == OneLock(t) \/ OnePost(t) \/ OneSignal(t)
NotifyAll(t) == AllLock(t) \/ AllPost(t) \/ AllBroadcast(t)

\* What a thread does inside a call, without being woken by anybody.
Inside(t) == Wait(t) \/ NotifyOne(t) \/ NotifyAll(t) \/ Unlock(t)

Next == \E t \in Threads : Call(t) \/ Inside(t) \/ WaitSpurious(t)

Spec == Init /\ [][Next]_vars

-----------------------------------------------------------------------------
(* Properties                                                               *)

TypeOK == /\ pc \in [Threads -> Labels]
          /\ owner \in Threads \cup {Nobody}
          /\ pending \in Int32

\* The counter is only touched under the mutex: a thread is between the lock
\* and the unlock of an operation exactly while it owns impl->mutex, also
\* when pthread_cond_wait gives the mutex up and takes it back.
LockDiscipline == \A t \in Threads : (pc[t] \in Critical) <=> (owner = t)

\* The threads that are going to look at `pending', or to wake one that will.
OnTheWay == {t \in Threads : pc[t] \in {"wait_relock", "wait_test", "one_signal"}}

\* No lost wakeup.  While a thread sleeps in pthread_cond_wait, every
\* notification in `pending' has a thread of its own on the way to it (a woken
\* waiter, a new one, or a notifier about to signal), and the counter has not
\* wrapped.  So a waiter is never left asleep over an unclaimed notification,
\* whoever steals the notification it was signalled for.  Between the
\* assignment and the broadcast of NotifyAll the claim is suspended.
NoLostWakeup ==
    Asleep # {} /\ At("all_broadcast") = {} => pending \in 0 .. Cardinality(OnTheWay)

\* What a thread that saw pending == 0 relies on until it sleeps.
SleepDecisionHolds == \A t \in At("wait_enter") : pending = 0

-----------------------------------------------------------------------------
(* The counter and its mutex implement an atomic box of tokens: a call takes *)
(* effect at one instant, and how waiters sleep and wake is invisible.       *)

Phase(label) == CASE label \in WaitLabels -> "waiting"
                  [] label \in {"one_lock", "one_post"} -> "posting"
                  [] label \in {"all_lock", "all_post"} -> "flooding"
                  [] OTHER -> "out"

Box == INSTANCE TokenBox WITH tokens <- pending,
                              phase  <- [t \in Threads |-> Phase(pc[t])]

\* Every step of the implementation is one atomic step of the token box or
\* is invisible to the callers.
ImplementsBox == Box!Spec
=============================================================================
