---------------------------- MODULE BufferProofs ----------------------------
(***************************************************************************)
(* Proofs about BoundedBuffer, for every buffer size and every number of   *)
(* items: the buffer is exact, the condition variables owe no more wakeups *)
(* than were posted, and a deadlock of the two threads is final.           *)
(***************************************************************************)
EXTENDS BoundedBuffer, TLAPS

Holding == {"test", "waiting", "work", "unlock"}
Places  == Holding \cup {"loop", "lock", "notify", "notifying", "done"}
Waits   == {"wait_lock", "wait_test", "wait_enter", "wait_sleep", "wait_relock"}
CvTypes == Waits \cup {"idle", "unlock", "one_lock", "one_post", "one_signal"}

\* Where a thread is in the condition variable it waits on, and in the one it
\* notifies.
WaitPc(t) == IF t = producer THEN emptyPc[t] ELSE fullPc[t]
NotePc(t) == IF t = producer THEN fullPc[t] ELSE emptyPc[t]

\* The notifications a thread has put into the counter.
Posted(t) == rounds[t] + (IF pc[t] = "notifying" /\ NotePc(t) \notin {"one_lock", "one_post"}
                          THEN 1 ELSE 0)

BufferTypes ==
    /\ pc \in [Threads -> Places]
    /\ rounds \in [Threads -> 0 .. Items]
    /\ buffer \in Int
    /\ emptyPc \in [Threads -> CvTypes]
    /\ fullPc \in [Threads -> CvTypes]

\* A thread inside the loop's body has an iteration left.
RoundsInv == \A t \in Threads : pc[t] \notin {"loop", "done"} => rounds[t] < Items

HolderInv == \A t \in Threads : (pc[t] \in Holding) <=> (holder = t)

\* A thread is in a call of the one condition variable or of the other, and of
\* either only where its loop says so.
CallsInv == \A t \in Threads :
    /\ WaitPc(t) \in Waits \cup {"idle", "unlock"}
    /\ WaitPc(t) # "idle" => pc[t] = "waiting"
    /\ NotePc(t) \in {"idle", "one_lock", "one_post", "one_signal", "unlock"}
    /\ NotePc(t) # "idle" => pc[t] = "notifying"

TokensInv == /\ fullPending \in 0 .. Posted(producer)
             /\ emptyPending \in 0 .. Posted(consumer)

\* What a thread's last test of its condition has established.
TestedInv == \A t \in Threads : pc[t] = "work" => ~MustWait(t)

BufferInv == /\ BufferTypes /\ RoundsInv /\ HolderInv /\ CallsInv
             /\ TokensInv /\ TestedInv /\ BufferExact

-----------------------------------------------------------------------------
(* What one step inside a condition variable may do, p and n being its      *)
(* labels and its counter before the step, q and m after it.                *)

Advance(p, q, n, m, t) ==
    /\ p[t] # "idle"
    /\ \A u \in Threads \ {t} :
           \/ q[u] = p[u]
           \/ p[u] = "wait_sleep" /\ q[u] = "wait_relock"
    /\ \/ /\ p[t] \in Waits
          /\ q[t] \in Waits
          /\ m = n
       \/ /\ p[t] = "wait_test" /\ q[t] = "unlock"
          /\ n # 0
          /\ m = n - 1
       \/ p[t] = "one_lock" /\ q[t] = "one_post" /\ m = n
       \/ p[t] = "one_post" /\ q[t] = "one_signal" /\ m = n + 1
       \/ p[t] = "one_signal" /\ q[t] = "unlock" /\ m = n
       \/ p[t] = "unlock" /\ q[t] = "idle" /\ m = n

LEMMA EmptyAdvances ==
    ASSUME BufferTypes, NEW t \in Threads, Empty!Inside(t) \/ Empty!WaitSpurious(t),
           emptyPending \in 0 .. IntMax, emptyPc[t] = "one_post" => emptyPending < IntMax
    PROVE  /\ Advance(emptyPc, emptyPc', emptyPending, emptyPending', t)
           /\ emptyPc' \in [Threads -> CvTypes]
<1> USE BufferAssumption DEF BufferTypes, Advance, CvTypes, Waits
<1>1. CASE Empty!Wait(t) \/ Empty!WaitSpurious(t)
  BY <1>1 DEF Empty!Wait, Empty!WaitLock, Empty!WaitEmpty, Empty!WaitSleep, Empty!WaitRelock,
              Empty!WaitConsume, Empty!WaitSpurious, Empty!Lock, Empty!Goto, Empty!Dec,
              Empty!IntMin
<1>2. CASE Empty!OneLock(t) \/ Empty!OnePost(t)
  BY <1>2 DEF Empty!OneLock, Empty!OnePost, Empty!Lock, Empty!Goto, Empty!Inc, Empty!IntMin
<1>3. CASE Empty!OneSignal(t)
  BY <1>3 DEF Empty!OneSignal, Empty!Asleep, Empty!At
<1>4. CASE Empty!NotifyAll(t)
  BY <1>4 DEF Empty!NotifyAll, Empty!AllLock, Empty!AllPost, Empty!AllBroadcast, Empty!Lock,
              Empty!Goto
<1>5. CASE Empty!Unlock(t)
  BY <1>5 DEF Empty!Unlock, Empty!Goto
<1> QED BY <1>1, <1>2, <1>3, <1>4, <1>5 DEF Empty!Inside, Empty!NotifyOne

LEMMA FullAdvances ==
    ASSUME BufferTypes, NEW t \in Threads, Full!Inside(t) \/ Full!WaitSpurious(t),
           fullPending \in 0 .. IntMax, fullPc[t] = "one_post" => fullPending < IntMax
    PROVE  /\ Advance(fullPc, fullPc', fullPending, fullPending', t)
           /\ fullPc' \in [Threads -> CvTypes]
<1> USE BufferAssumption DEF BufferTypes, Advance, CvTypes, Waits
<1>1. CASE Full!Wait(t) \/ Full!WaitSpurious(t)
  BY <1>1 DEF Full!Wait, Full!WaitLock, Full!WaitEmpty, Full!WaitSleep, Full!WaitRelock,
              Full!WaitConsume, Full!WaitSpurious, Full!Lock, Full!Goto, Full!Dec, Full!IntMin
<1>2. CASE Full!OneLock(t) \/ Full!OnePost(t)
  BY <1>2 DEF Full!OneLock, Full!OnePost, Full!Lock, Full!Goto, Full!Inc, Full!IntMin
<1>3. CASE Full!OneSignal(t)
  BY <1>3 DEF Full!OneSignal, Full!Asleep, Full!At
<1>4. CASE Full!NotifyAll(t)
  BY <1>4 DEF Full!NotifyAll, Full!AllLock, Full!AllPost, Full!AllBroadcast, Full!Lock,
              Full!Goto
<1>5. CASE Full!Unlock(t)
  BY <1>5 DEF Full!Unlock, Full!Goto
<1> QED BY <1>1, <1>2, <1>3, <1>4, <1>5 DEF Full!Inside, Full!NotifyOne

-----------------------------------------------------------------------------
LEMMA InitHolds == Init => BufferInv
<1> SUFFICES ASSUME Init PROVE BufferInv
  OBVIOUS
<1> USE BufferAssumption DEF Init, Threads
<1>1. /\ emptyPc = [t \in Threads |-> "idle"] /\ emptyPending = 0
      /\ fullPc = [t \in Threads |-> "idle"] /\ fullPending = 0 /\ holder = Nobody
  BY DEF Empty!Init, Full!Init, M!MutexInit
<1>2. BufferTypes
  BY <1>1 DEF BufferTypes, Places, CvTypes
<1>3. RoundsInv /\ TestedInv
  BY DEF RoundsInv, TestedInv
<1>4. HolderInv /\ CallsInv
  BY <1>1 DEF HolderInv, Holding, CallsInv, WaitPc, NotePc
<1>5. TokensInv
  BY <1>1 DEF TokensInv, Posted
<1>6. BufferExact
  BY DEF BufferExact, Produced
<1> QED BY <1>2, <1>3, <1>4, <1>5, <1>6 DEF BufferInv

\* The counters are far from the end of the range of int.
LEMMA TokensBounded ==
    ASSUME BufferInv, NEW t \in Threads
    PROVE  /\ emptyPending \in 0 .. IntMax /\ fullPending \in 0 .. IntMax
           /\ emptyPc[t] = "one_post" => emptyPending < IntMax
           /\ fullPc[t] = "one_post" => fullPending < IntMax
<1> USE BufferAssumption DEF BufferInv
<1>1. \A u \in Threads : Posted(u) \in 0 .. Items
  BY DEF Posted, BufferTypes, RoundsInv
<1>2. /\ emptyPc[t] = "one_post" => t = consumer /\ Posted(consumer) < Items
      /\ fullPc[t] = "one_post" => t = producer /\ Posted(producer) < Items
  BY DEF CallsInv, WaitPc, NotePc, Waits, Threads, Posted, RoundsInv, BufferTypes
<1>3. \A u \in Threads : u = producer \/ u = consumer
  BY DEF Threads
<1> QED BY <1>1, <1>2, <1>3 DEF TokensInv, Threads

\* A step of a thread outside the condition variables that moves neither into
\* nor out of the mutex, nor counts anything.
LEMMA LocalKeeps ==
    ASSUME BufferInv, NEW t \in Threads, NEW from, NEW to \in Places, Goto(t, from, to),
           from \in Holding <=> to \in Holding,
           {from, to} \cap {"unlock", "notify", "notifying", "work"} = {},
           from \in {"loop", "done"} => to \in {"loop", "done"} \/ rounds[t] < Items,
           from # "waiting" \/ WaitPc(t) = "idle",
           UNCHANGED <<rounds, buffer, holder, emptyVars, fullVars>>
    PROVE  BufferInv'
<1> USE BufferAssumption DEF BufferInv
<1>1. /\ pc[t] = from /\ pc' = [pc EXCEPT ![t] = to]
      /\ emptyPc' = emptyPc /\ fullPc' = fullPc
      /\ emptyPending' = emptyPending /\ fullPending' = fullPending
      /\ rounds' = rounds /\ buffer' = buffer /\ holder' = holder
  BY DEF Goto, emptyVars, fullVars
<1>2. /\ pc'[t] = to /\ \A u \in Threads : u # t => pc'[u] = pc[u]
      /\ producer \in Threads /\ consumer \in Threads
  BY <1>1 DEF BufferTypes, Threads
<1>3. BufferTypes' /\ RoundsInv'
  BY <1>1, <1>2 DEF BufferTypes, RoundsInv
<1>4. HolderInv'
  BY <1>1, <1>2 DEF HolderInv
<1>5. CallsInv'
  BY <1>1, <1>2 DEF CallsInv, WaitPc, NotePc
<1>6. TokensInv'
  BY <1>1, <1>2 DEF TokensInv, Posted, NotePc
<1>7. TestedInv'
  BY <1>1, <1>2 DEF TestedInv, MustWait
<1>8. BufferExact'
  BY <1>1, <1>2 DEF BufferExact, Produced
<1> QED BY <1>3, <1>4, <1>5, <1>6, <1>7, <1>8

\* The steps that the loop, Return, the test of the loop and Retest are.
LEMMA LoopKeeps ==
    ASSUME BufferInv, NEW t \in Threads, Loop(t) \/ Return(t) \/ Retest(t)
    PROVE  BufferInv'
<1> USE DEF Holding, Places
<1>1. CASE Loop(t)
  <2>1. /\ rounds[t] < Items /\ Goto(t, "loop", "lock")
        /\ UNCHANGED <<rounds, buffer, holder, emptyVars, fullVars>>
    BY <1>1 DEF Loop
  <2> QED BY <2>1, LocalKeeps
<1>2. CASE Return(t)
  <2>1. /\ Goto(t, "loop", "done")
        /\ UNCHANGED <<rounds, buffer, holder, emptyVars, fullVars>>
    BY <1>2 DEF Return
  <2> QED BY <2>1, LocalKeeps
<1>3. CASE Retest(t)
  <2>1. /\ Goto(t, "waiting", "test") /\ WaitPc(t) = "idle"
        /\ UNCHANGED <<rounds, buffer, holder, emptyVars, fullVars>>
    BY <1>3 DEF Retest, InCall, WaitPc
  <2> QED BY <2>1, LocalKeeps
<1> QED BY <1>1, <1>2, <1>3

LEMMA LockKeeps == ASSUME BufferInv, NEW t \in Threads, Lock(t) PROVE BufferInv'
<1> USE BufferAssumption DEF BufferInv
<1>1. /\ pc[t] = "lock" /\ pc' = [pc EXCEPT ![t] = "test"] /\ holder = Nobody /\ holder' = t
      /\ emptyPc' = emptyPc /\ fullPc' = fullPc
      /\ emptyPending' = emptyPending /\ fullPending' = fullPending
      /\ rounds' = rounds /\ buffer' = buffer
  BY DEF Lock, Goto, M!LockMutex, emptyVars, fullVars
<1>2. /\ pc'[t] = "test" /\ \A u \in Threads : u # t => pc'[u] = pc[u]
      /\ producer \in Threads /\ consumer \in Threads /\ Nobody \notin Threads
  BY <1>1 DEF BufferTypes, Threads
<1>3. BufferTypes' /\ RoundsInv'
  BY <1>1, <1>2 DEF BufferTypes, RoundsInv, Places, Holding
<1>4. HolderInv'
  BY <1>1, <1>2 DEF HolderInv, Holding
<1>5. CallsInv' /\ TestedInv'
  BY <1>1, <1>2 DEF CallsInv, WaitPc, NotePc, TestedInv, MustWait
<1>6. TokensInv' /\ BufferExact'
  BY <1>1, <1>2 DEF TokensInv, Posted, NotePc, BufferExact, Produced
<1> QED BY <1>3, <1>4, <1>5, <1>6

LEMMA WaitForOtherKeeps ==
    ASSUME BufferInv, NEW t \in Threads, WaitForOther(t) PROVE BufferInv'
<1> USE BufferAssumption DEF BufferInv
<1>1. /\ pc[t] = "test" /\ pc' = [pc EXCEPT ![t] = "waiting"]
      /\ emptyPending' = emptyPending /\ fullPending' = fullPending
      /\ rounds' = rounds /\ buffer' = buffer /\ holder' = holder
      /\ IF t = producer
         THEN emptyPc' = [emptyPc EXCEPT ![t] = "wait_lock"] /\ fullPc' = fullPc
         ELSE fullPc' = [fullPc EXCEPT ![t] = "wait_lock"] /\ emptyPc' = emptyPc
  BY DEF WaitForOther, Goto, CallWait, Empty!CallWait, Full!CallWait, Empty!Goto, Full!Goto,
         emptyVars, fullVars
<1>2. /\ pc'[t] = "waiting" /\ \A u \in Threads : u # t => pc'[u] = pc[u]
      /\ producer \in Threads /\ consumer \in Threads
  BY <1>1 DEF BufferTypes, Threads
<1>3. /\ WaitPc(t)' = "wait_lock" /\ NotePc(t)' = NotePc(t)
      /\ \A u \in Threads : u # t => WaitPc(u)' = WaitPc(u) /\ NotePc(u)' = NotePc(u)
  BY <1>1 DEF BufferTypes, WaitPc, NotePc, Threads
<1>4. BufferTypes' /\ RoundsInv'
  BY <1>1, <1>2 DEF BufferTypes, RoundsInv, Places, Holding, CvTypes, Waits
<1>5. HolderInv' /\ TestedInv'
  BY <1>1, <1>2 DEF HolderInv, Holding, TestedInv, MustWait
<1>6. CallsInv'
  BY <1>1, <1>2, <1>3 DEF CallsInv, Waits
<1>7. TokensInv' /\ BufferExact'
  BY <1>1, <1>2, <1>3 DEF TokensInv, Posted, BufferExact, Produced
<1> QED BY <1>4, <1>5, <1>6, <1>7

\* The condition just tested still holds when the buffer is changed, because
\* only the thread that owns the mutex is at the test or behind it.
LEMMA ProceedKeeps == ASSUME BufferInv, NEW t \in Threads, Proceed(t) PROVE BufferInv'
<1> USE BufferAssumption DEF BufferInv
<1>1. /\ pc[t] = "test" /\ pc' = [pc EXCEPT ![t] = "work"] /\ ~MustWait(t)
      /\ emptyPc' = emptyPc /\ fullPc' = fullPc
      /\ emptyPending' = emptyPending /\ fullPending' = fullPending
      /\ rounds' = rounds /\ buffer' = buffer /\ holder' = holder
  BY DEF Proceed, Goto, emptyVars, fullVars
<1>2. /\ pc'[t] = "work" /\ \A u \in Threads : u # t => pc'[u] = pc[u]
      /\ producer \in Threads /\ consumer \in Threads
  BY <1>1 DEF BufferTypes, Threads
<1>3. BufferTypes' /\ RoundsInv'
  BY <1>1, <1>2 DEF BufferTypes, RoundsInv, Places, Holding
<1>4. HolderInv' /\ TestedInv'
  BY <1>1, <1>2 DEF HolderInv, Holding, TestedInv, MustWait
<1>5. CallsInv'
  BY <1>1, <1>2 DEF CallsInv, WaitPc, NotePc
<1>6. TokensInv' /\ BufferExact'
  BY <1>1, <1>2 DEF TokensInv, Posted, NotePc, BufferExact, Produced
<1> QED BY <1>3, <1>4, <1>5, <1>6

LEMMA WorkKeeps == ASSUME BufferInv, NEW t \in Threads, Work(t) PROVE BufferInv'
<1> USE BufferAssumption DEF BufferInv
<1>1. /\ pc[t] = "work" /\ pc' = [pc EXCEPT ![t] = "unlock"] /\ buffer' = Change(t)
      /\ emptyPc' = emptyPc /\ fullPc' = fullPc
      /\ emptyPending' = emptyPending /\ fullPending' = fullPending
      /\ rounds' = rounds /\ holder' = holder
  BY DEF Work, Goto, emptyVars, fullVars
<1>2. /\ pc'[t] = "unlock" /\ \A u \in Threads : u # t => pc'[u] = pc[u]
      /\ producer \in Threads /\ consumer \in Threads
  BY <1>1 DEF BufferTypes, Threads
<1>3. ~MustWait(t) /\ \A u \in Threads : u # t => pc[u] # "work"
  BY <1>1 DEF TestedInv, HolderInv, Holding
<1>4. BufferTypes' /\ RoundsInv'
  BY <1>1, <1>2 DEF BufferTypes, RoundsInv, Places, Holding, Change
<1>5. HolderInv' /\ TestedInv'
  BY <1>1, <1>2, <1>3 DEF HolderInv, Holding, TestedInv
<1>6. CallsInv' /\ TokensInv'
  BY <1>1, <1>2 DEF CallsInv, WaitPc, NotePc, TokensInv, Posted
<1>7. BufferExact'
  BY <1>1, <1>2, <1>3 DEF BufferExact, Produced, Change, MustWait, Threads, BufferTypes
<1> QED BY <1>4, <1>5, <1>6, <1>7

LEMMA UnlockKeeps == ASSUME BufferInv, NEW t \in Threads, Unlock(t) PROVE BufferInv'
<1> USE BufferAssumption DEF BufferInv
<1>1. /\ pc[t] = "unlock" /\ pc' = [pc EXCEPT ![t] = "notify"] /\ holder' = Nobody
      /\ emptyPc' = emptyPc /\ fullPc' = fullPc
      /\ emptyPending' = emptyPending /\ fullPending' = fullPending
      /\ rounds' = rounds /\ buffer' = buffer
  BY DEF Unlock, Goto, M!UnlockMutex, emptyVars, fullVars
<1>2. /\ pc'[t] = "notify" /\ \A u \in Threads : u # t => pc'[u] = pc[u]
      /\ producer \in Threads /\ consumer \in Threads /\ Nobody \notin Threads
  BY <1>1 DEF BufferTypes, Threads
<1>3. BufferTypes' /\ RoundsInv'
  BY <1>1, <1>2 DEF BufferTypes, RoundsInv, Places, Holding
<1>4. HolderInv'
  BY <1>1, <1>2 DEF HolderInv, Holding
<1>5. CallsInv' /\ TestedInv'
  BY <1>1, <1>2 DEF CallsInv, WaitPc, NotePc, TestedInv, MustWait
<1>6. TokensInv' /\ BufferExact'
  BY <1>1, <1>2 DEF TokensInv, Posted, NotePc, BufferExact, Produced
<1> QED BY <1>3, <1>4, <1>5, <1>6

LEMMA NotifyKeeps == ASSUME BufferInv, NEW t \in Threads, Notify(t) PROVE BufferInv'
<1> USE BufferAssumption DEF BufferInv
<1>1. /\ pc[t] = "notify" /\ pc' = [pc EXCEPT ![t] = "notifying"]
      /\ emptyPending' = emptyPending /\ fullPending' = fullPending
      /\ rounds' = rounds /\ buffer' = buffer /\ holder' = holder
      /\ IF t = producer
         THEN fullPc' = [fullPc EXCEPT ![t] = "one_lock"] /\ emptyPc' = emptyPc
         ELSE emptyPc' = [emptyPc EXCEPT ![t] = "one_lock"] /\ fullPc' = fullPc
  BY DEF Notify, Goto, CallNotify, Empty!CallNotifyOne, Full!CallNotifyOne, Empty!Goto, Full!Goto,
         emptyVars, fullVars
<1>2. /\ pc'[t] = "notifying" /\ \A u \in Threads : u # t => pc'[u] = pc[u]
      /\ producer \in Threads /\ consumer \in Threads
  BY <1>1 DEF BufferTypes, Threads
<1>3. /\ NotePc(t)' = "one_lock" /\ WaitPc(t)' = WaitPc(t)
      /\ \A u \in Threads : u # t => WaitPc(u)' = WaitPc(u) /\ NotePc(u)' = NotePc(u)
  BY <1>1 DEF BufferTypes, WaitPc, NotePc, Threads
<1>4. BufferTypes' /\ RoundsInv'
  BY <1>1, <1>2 DEF BufferTypes, RoundsInv, Places, Holding, CvTypes
<1>5. HolderInv' /\ TestedInv'
  BY <1>1, <1>2 DEF HolderInv, Holding, TestedInv, MustWait
<1>6. CallsInv'
  BY <1>1, <1>2, <1>3 DEF CallsInv
<1>7. TokensInv' /\ BufferExact'
  BY <1>1, <1>2, <1>3 DEF TokensInv, Posted, BufferExact, Produced
<1> QED BY <1>4, <1>5, <1>6, <1>7

LEMMA NextRoundKeeps == ASSUME BufferInv, NEW t \in Threads, NextRound(t) PROVE BufferInv'
<1> USE BufferAssumption DEF BufferInv
<1>1. /\ pc[t] = "notifying" /\ pc' = [pc EXCEPT ![t] = "loop"]
      /\ rounds' = [rounds EXCEPT ![t] = @ + 1] /\ WaitPc(t) = "idle" /\ NotePc(t) = "idle"
      /\ emptyPc' = emptyPc /\ fullPc' = fullPc
      /\ emptyPending' = emptyPending /\ fullPending' = fullPending
      /\ buffer' = buffer /\ holder' = holder
  BY DEF NextRound, Goto, InCall, WaitPc, NotePc, emptyVars, fullVars
<1>2. /\ pc'[t] = "loop" /\ rounds'[t] = rounds[t] + 1 /\ rounds[t] < Items
      /\ \A u \in Threads : u # t => pc'[u] = pc[u] /\ rounds'[u] = rounds[u]
      /\ producer \in Threads /\ consumer \in Threads
  BY <1>1 DEF BufferTypes, Threads, RoundsInv
<1>3. \A u \in Threads : Posted(u)' = Posted(u) /\ Produced(u)' = Produced(u)
  BY <1>1, <1>2 DEF Posted, Produced, NotePc, BufferTypes
<1>4. BufferTypes' /\ RoundsInv'
  BY <1>1, <1>2 DEF BufferTypes, RoundsInv, Places
<1>5. HolderInv' /\ TestedInv'
  BY <1>1, <1>2 DEF HolderInv, Holding, TestedInv, MustWait
<1>6. CallsInv'
  BY <1>1, <1>2 DEF CallsInv, WaitPc, NotePc
<1>7. TokensInv' /\ BufferExact'
  BY <1>1, <1>2, <1>3 DEF TokensInv, BufferExact
<1> QED BY <1>4, <1>5, <1>6, <1>7

\* A step inside one of the condition variables.
LEMMA EmptyKeeps ==
    ASSUME BufferInv, NEW t \in Threads, Empty!Inside(t) \/ Empty!WaitSpurious(t),
           UNCHANGED <<pc, rounds, buffer, holder, fullVars>>
    PROVE  BufferInv'
<1> USE BufferAssumption DEF BufferInv
<1>1. Advance(emptyPc, emptyPc', emptyPending, emptyPending', t) /\ emptyPc' \in [Threads -> CvTypes]
  BY EmptyAdvances, TokensBounded
<1>2. /\ pc' = pc /\ rounds' = rounds /\ buffer' = buffer /\ holder' = holder
      /\ fullPc' = fullPc /\ fullPending' = fullPending
      /\ producer \in Threads /\ consumer \in Threads
  BY DEF fullVars, Threads
<1>3. CallsInv'
  BY <1>1, <1>2 DEF CallsInv, WaitPc, NotePc, Advance, Threads, Waits
<1>4. TokensInv'
  <2>1. Posted(producer)' = Posted(producer)
    BY <1>2 DEF Posted, NotePc
  <2>2. CASE t = producer
    <3>1. Posted(consumer)' = Posted(consumer)
      BY <1>1, <1>2, <2>2 DEF Posted, NotePc, Advance, CallsInv, WaitPc, Threads
    <3>2. emptyPending' = emptyPending \/ (emptyPending # 0 /\ emptyPending' = emptyPending - 1)
      BY <1>1, <2>2 DEF Advance, CallsInv, WaitPc, Waits
    <3> QED BY <1>2, <2>1, <3>1, <3>2 DEF TokensInv, Posted, BufferTypes
  <2>3. CASE t = consumer
    <3>1. pc[consumer] = "notifying"
      BY <1>1, <2>3 DEF Advance, CallsInv, NotePc, Threads
    <3>2. Posted(consumer)' - Posted(consumer) = emptyPending' - emptyPending
      BY <1>1, <1>2, <2>3, <3>1 DEF Posted, NotePc, Advance, CallsInv, BufferTypes, TokensInv,
                                    Waits, Threads
    <3> QED BY <1>2, <2>1, <2>3, <3>1, <3>2, <1>1 DEF TokensInv, Posted, BufferTypes, Advance, CallsInv,
                                          NotePc, Waits, Threads
  <2> QED BY <2>2, <2>3 DEF Threads
<1>5. BufferTypes' /\ RoundsInv' /\ HolderInv' /\ TestedInv' /\ BufferExact'
  BY <1>1, <1>2 DEF BufferTypes, RoundsInv, HolderInv, TestedInv, MustWait, BufferExact, Produced
<1> QED BY <1>3, <1>4, <1>5

LEMMA FullKeeps ==
    ASSUME BufferInv, NEW t \in Threads, Full!Inside(t) \/ Full!WaitSpurious(t),
           UNCHANGED <<pc, rounds, buffer, holder, emptyVars>>
    PROVE  BufferInv'
<1> USE BufferAssumption DEF BufferInv
<1>1. Advance(fullPc, fullPc', fullPending, fullPending', t) /\ fullPc' \in [Threads -> CvTypes]
  BY FullAdvances, TokensBounded
<1>2. /\ pc' = pc /\ rounds' = rounds /\ buffer' = buffer /\ holder' = holder
      /\ emptyPc' = emptyPc /\ emptyPending' = emptyPending
      /\ producer \in Threads /\ consumer \in Threads
  BY DEF emptyVars, Threads
<1>3. CallsInv'
  BY <1>1, <1>2 DEF CallsInv, WaitPc, NotePc, Advance, Threads, Waits
<1>4. TokensInv'
  <2>1. Posted(consumer)' = Posted(consumer)
    BY <1>2 DEF Posted, NotePc
  <2>2. CASE t = consumer
    <3>1. Posted(producer)' = Posted(producer)
      BY <1>1, <1>2, <2>2 DEF Posted, NotePc, Advance, CallsInv, WaitPc, Threads
    <3>2. fullPending' = fullPending \/ (fullPending # 0 /\ fullPending' = fullPending - 1)
      BY <1>1, <2>2 DEF Advance, CallsInv, WaitPc, Waits
    <3> QED BY <1>2, <2>1, <3>1, <3>2 DEF TokensInv, Posted, BufferTypes
  <2>3. CASE t = producer
    <3>1. pc[producer] = "notifying"
      BY <1>1, <2>3 DEF Advance, CallsInv, NotePc, Threads
    <3>2. Posted(producer)' - Posted(producer) = fullPending' - fullPending
      BY <1>1, <1>2, <2>3, <3>1 DEF Posted, NotePc, Advance, CallsInv, BufferTypes, TokensInv,
                                    Waits, Threads
    <3> QED BY <1>1, <1>2, <2>1, <2>3, <3>1, <3>2 DEF TokensInv, Posted, BufferTypes, Advance,
                                                      CallsInv, NotePc, Waits, Threads
  <2> QED BY <2>2, <2>3 DEF Threads
<1>5. BufferTypes' /\ RoundsInv' /\ HolderInv' /\ TestedInv' /\ BufferExact'
  BY <1>1, <1>2 DEF BufferTypes, RoundsInv, HolderInv, TestedInv, MustWait, BufferExact, Produced
<1> QED BY <1>3, <1>4, <1>5

LEMMA FreeKeeps == ASSUME BufferInv, Free PROVE BufferInv'
<1>1. /\ AllJoined /\ holder' \in {"freed", holder}
      /\ emptyPc' = emptyPc /\ fullPc' = fullPc
      /\ emptyPending' = emptyPending /\ fullPending' = fullPending
      /\ UNCHANGED <<pc, rounds, buffer>>
  BY DEF Free, FreeCondVar, M!FreeMutex, M!Freed, emptyVars, fullVars
<1>2. HolderInv'
  BY <1>1, BufferAssumption DEF BufferInv, HolderInv, AllJoined, Holding
<1>3. TokensInv' /\ CallsInv'
  BY <1>1 DEF BufferInv, TokensInv, Posted, CallsInv, NotePc, WaitPc
<1> QED BY <1>1, <1>2, <1>3 DEF BufferInv, BufferTypes, RoundsInv, TestedInv, MustWait,
                                BufferExact, Produced

LEMMA ThreadKeeps ==
    ASSUME BufferInv, NEW t \in Threads, ThreadStep(t) \/ Spurious(t) PROVE BufferInv'
<1>1. CASE InsideCondVar(t)
  BY <1>1, EmptyKeeps, FullKeeps DEF InsideCondVar, localVars
<1>2. CASE Spurious(t)
  BY <1>2, EmptyKeeps, FullKeeps DEF Spurious
<1> QED BY <1>1, <1>2, LoopKeeps, LockKeeps, WaitForOtherKeeps, ProceedKeeps, WorkKeeps,
           UnlockKeeps, NotifyKeeps, NextRoundKeeps DEF ThreadStep

LEMMA StutterKeeps == ASSUME BufferInv, UNCHANGED vars PROVE BufferInv'
<1>1. /\ emptyPc' = emptyPc /\ fullPc' = fullPc
      /\ emptyPending' = emptyPending /\ fullPending' = fullPending
      /\ UNCHANGED <<pc, rounds, buffer, holder>>
  BY DEF vars, emptyVars, fullVars, localVars
<1>2. TokensInv' /\ CallsInv'
  BY <1>1 DEF BufferInv, TokensInv, Posted, CallsInv, NotePc, WaitPc
<1> QED BY <1>1, <1>2 DEF BufferInv, BufferTypes, RoundsInv, HolderInv, TestedInv, MustWait,
                          BufferExact, Produced

-----------------------------------------------------------------------------
\* The places of both loops, the mutex, the calls of the condition variables
\* and the counters fit together, for every number of items and buffer size.
THEOREM BufferInvariant == Spec => []BufferInv
<1>1. BufferInv /\ [Next]_vars => BufferInv'
  BY ThreadKeeps, FreeKeeps, StutterKeeps DEF Next, Over
<1> QED BY <1>1, InitHolds, PTL DEF Spec

\* The buffer never under- or overflows and holds what was produced and not
\* yet consumed.
THEOREM BufferExactHolds == Spec => []BufferExact
<1>1. BufferInv => BufferExact
  BY DEF BufferInv
<1> QED BY <1>1, BufferInvariant, PTL

\* No condition variable owes more wakeups than its notifier has made.
THEOREM PendingBoundedHolds == Spec => []PendingBounded
<1>1. ASSUME BufferInv PROVE PendingBounded
  <2>1. \A t \in Threads : Posted(t) \in Nat /\ Produced(t) \in Nat /\ Posted(t) <= Produced(t)
    BY <1>1, BufferAssumption DEF BufferInv, BufferTypes, Posted, Produced
  <2> QED BY <1>1, <2>1 DEF BufferInv, TokensInv, PendingBounded, Threads
<1> QED BY <1>1, BufferInvariant, PTL

-----------------------------------------------------------------------------
(* The deadlock.  The stuck thread t waits for a notification that only the *)
(* other thread makes, and the other thread needs the mutex t owns.         *)

StuckBy(t) == /\ Waiting(t) /\ InWait(t) /\ holder = t
              /\ TokensFor(t) = 0
              /\ pc[Other(t)] \in {"loop", "lock"}
              /\ rounds[Other(t)] < Items

LEMMA StuckStep ==
    ASSUME BufferInv, [Next]_vars, NEW t \in Threads, StuckBy(t) PROVE StuckBy(t)'
<1> DEFINE o == Other(t)
<1> USE BufferAssumption DEF BufferInv
<1>1. /\ pc[t] = "waiting" /\ WaitPc(t) \in Waits /\ holder = t /\ TokensFor(t) = 0
      /\ pc[o] \in {"loop", "lock"} /\ rounds[o] < Items
      /\ t # o /\ o \in Threads /\ \A u \in Threads : u = t \/ u = o
  BY DEF StuckBy, Waiting, InWait, WaitPc, Waits, Other, Threads
<1>2. NotePc(t) = "idle" /\ WaitPc(o) = "idle" /\ NotePc(o) = "idle"
  BY <1>1 DEF CallsInv
<1>3. StuckBy(t)' <=> /\ pc'[t] = "waiting" /\ WaitPc(t)' \in Waits /\ holder' = t
                      /\ TokensFor(t)' = 0
                      /\ pc'[o] \in {"loop", "lock"} /\ rounds'[o] < Items
  BY DEF StuckBy, Waiting, InWait, WaitPc, Waits, Other
<1> HIDE DEF o
<1>4. CASE UNCHANGED vars
  BY <1>1, <1>3, <1>4 DEF vars, localVars, emptyVars, fullVars, WaitPc, TokensFor
<1>5. ASSUME NEW u \in Threads, Empty!Inside(u) \/ Empty!WaitSpurious(u),
             UNCHANGED <<pc, rounds, holder, fullVars>>
      PROVE  StuckBy(t)'
  <2>1. Advance(emptyPc, emptyPc', emptyPending, emptyPending', u)
    BY <1>5, EmptyAdvances, TokensBounded
  <2>2. u = t /\ t = producer
    BY <1>1, <1>2, <2>1 DEF Advance, WaitPc, NotePc
  <2> QED BY <1>1, <1>3, <1>5, <2>1, <2>2 DEF Advance, WaitPc, TokensFor, Waits, fullVars
<1>6. ASSUME NEW u \in Threads, Full!Inside(u) \/ Full!WaitSpurious(u),
             UNCHANGED <<pc, rounds, holder, emptyVars>>
      PROVE  StuckBy(t)'
  <2>1. Advance(fullPc, fullPc', fullPending, fullPending', u)
    BY <1>6, FullAdvances, TokensBounded
  <2>2. u = t /\ t # producer
    BY <1>1, <1>2, <2>1 DEF Advance, WaitPc, NotePc
  <2> QED BY <1>1, <1>3, <1>6, <2>1, <2>2 DEF Advance, WaitPc, TokensFor, Waits, emptyVars
<1>7. ASSUME NEW u \in Threads, ThreadStep(u), ~InsideCondVar(u) PROVE StuckBy(t)'
  <2>1. u = o /\ Loop(o)
    <3>1. u = t => FALSE
      BY <1>1, <1>7 DEF ThreadStep, Loop, Return, Lock, WaitForOther, Retest, Proceed, Work, Unlock,
                        Notify, NextRound, Goto, InCall, WaitPc, Waits
    <3>2. holder # Nobody
      BY <1>1
    <3>3. rounds[o] # Items
      BY <1>1 DEF BufferTypes
    <3>4. u = o => Loop(o)
      BY <1>1, <1>7, <3>2, <3>3 DEF ThreadStep, Return, Lock, WaitForOther, Retest, Proceed, Work,
                              Unlock, Notify, NextRound, Goto, M!LockMutex
    <3> QED BY <1>1, <3>1, <3>4
  <2>2. /\ pc' = [pc EXCEPT ![o] = "lock"] /\ UNCHANGED <<rounds, holder, emptyVars, fullVars>>
    BY <2>1 DEF Loop, Goto
  <2> QED BY <1>1, <1>3, <2>2 DEF BufferTypes, WaitPc, TokensFor, emptyVars, fullVars
<1>8. ~Free /\ (Over => UNCHANGED vars)
  BY <1>1 DEF Free, AllJoined, Over
<1>9. ASSUME NEW u \in Threads, InsideCondVar(u) \/ Spurious(u) PROVE StuckBy(t)'
  BY <1>5, <1>6, <1>9 DEF InsideCondVar, Spurious, localVars
<1> QED BY <1>4, <1>7, <1>8, <1>9 DEF Next

\* Once stuck, the example stays stuck, whatever its threads do and however
\* they are woken.
THEOREM StuckForeverHolds == Spec => StuckForever
<1>1. Stuck <=> \E t \in Threads : StuckBy(t)
  BY DEF Stuck, StuckBy
<1>2. Stuck' <=> \E t \in Threads : StuckBy(t)'
  BY DEF Stuck, StuckBy
<1>3. BufferInv /\ [Next]_vars => [Stuck => Stuck']_vars
  BY <1>1, <1>2, StuckStep
<1> QED BY <1>3, BufferInvariant, PTL DEF Spec, StuckForever
=============================================================================
