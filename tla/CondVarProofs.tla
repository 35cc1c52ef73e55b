--------------------------- MODULE CondVarProofs ---------------------------
(***************************************************************************)
(* Proofs about the condition variable, for every finite set of threads    *)
(* and every width of int that can count them, and about its clients in    *)
(* CondVarTest, for any number of threads and any programs.                *)
(***************************************************************************)
EXTENDS CondVarTest, DataLemmas, FiniteSetTheorems, SequenceTheorems, TLAPS

\* The labels a thread can be at, spelled out, are all that Goto ever writes.
LEMMA LabelFacts ==
    /\ Labels = {"idle", "unlock", "wait_lock", "wait_test", "wait_enter",
                 "wait_sleep", "wait_relock", "one_lock", "one_post",
                 "one_signal", "all_lock", "all_post", "all_broadcast"}
    /\ Critical \subseteq Labels
  BY DEF Labels, WaitLabels, NotifyLabels, Critical

\* Int arithmetic stays in range, and Inc is + 1 below INT_MAX.
LEMMA IntFacts ==
    /\ 0 \in Int32
    /\ Plenty \in Int32
    /\ \A n \in Int32 : Inc(n) \in Int32 /\ Dec(n) \in Int32
  BY WidthAssumption DEF Int32, IntMin, Inc, Dec, Plenty

-----------------------------------------------------------------------------
(* Types                                                                     *)

\* Every state has the declared types: program counters are labels of the
\* code, the mutex is owned by a thread or free, `pending' fits an int.
THEOREM TypeCorrect == Spec => []TypeOK
<1>1. Init => TypeOK
  BY IntFacts, LabelFacts DEF Init, TypeOK
<1>2. TypeOK /\ [Next]_vars => TypeOK'
  <2> SUFFICES ASSUME TypeOK, [Next]_vars PROVE TypeOK'
    OBVIOUS
  <2> USE IntFacts, LabelFacts DEF TypeOK, Goto
  <2>1. CASE UNCHANGED vars
    BY <2>1 DEF vars
  <2>2. ASSUME NEW t \in Threads, Call(t) PROVE TypeOK'
    BY <2>2 DEF Call, CallWait, CallNotifyOne, CallNotifyAll
  <2>3. ASSUME NEW t \in Threads, Wait(t) PROVE TypeOK'
    BY <2>3 DEF Wait, WaitLock, WaitEmpty, WaitSleep, WaitRelock, WaitConsume, Lock
  <2>4. ASSUME NEW t \in Threads, NotifyOne(t) PROVE TypeOK'
    BY <2>4 DEF NotifyOne, OneLock, OnePost, OneSignal, Lock, Asleep, At
  <2>5. ASSUME NEW t \in Threads, NotifyAll(t) PROVE TypeOK'
    BY <2>5 DEF NotifyAll, AllLock, AllPost, AllBroadcast, Lock
  <2>6. ASSUME NEW t \in Threads, Unlock(t) \/ WaitSpurious(t) PROVE TypeOK'
    BY <2>6 DEF Unlock, WaitSpurious
  <2>7. QED
    BY <2>1, <2>2, <2>3, <2>4, <2>5, <2>6 DEF Next, Inside
<1>3. QED
  BY <1>1, <1>2, PTL DEF Spec

-----------------------------------------------------------------------------
(* The mutex                                                                 *)

\* Owner and program counters agree, whatever the interleaving.
THEOREM LockDisciplineHolds == Spec => []LockDiscipline
<1>1. Init => LockDiscipline
  BY ThreadsAssumption DEF Init, LockDiscipline, Critical
<1>2. TypeOK /\ LockDiscipline /\ [Next]_vars => LockDiscipline'
  <2> SUFFICES ASSUME TypeOK, LockDiscipline, [Next]_vars PROVE LockDiscipline'
    OBVIOUS
  <2> USE ThreadsAssumption DEF TypeOK, LockDiscipline, Goto, Critical
  <2>1. CASE UNCHANGED vars
    BY <2>1 DEF vars
  <2>2. ASSUME NEW t \in Threads, Call(t) PROVE LockDiscipline'
    BY <2>2 DEF Call, CallWait, CallNotifyOne, CallNotifyAll
  <2>3. ASSUME NEW t \in Threads, Wait(t) PROVE LockDiscipline'
    BY <2>3 DEF Wait, WaitLock, WaitEmpty, WaitSleep, WaitRelock, WaitConsume, Lock
  <2>4. ASSUME NEW t \in Threads, NotifyOne(t) PROVE LockDiscipline'
    BY <2>4 DEF NotifyOne, OneLock, OnePost, OneSignal, Lock, Asleep, At
  <2>5. ASSUME NEW t \in Threads, NotifyAll(t) PROVE LockDiscipline'
    BY <2>5 DEF NotifyAll, AllLock, AllPost, AllBroadcast, Lock, Asleep, At
  <2>6. ASSUME NEW t \in Threads, Unlock(t) \/ WaitSpurious(t) PROVE LockDiscipline'
    BY <2>6 DEF Unlock, WaitSpurious
  <2>7. QED
    BY <2>1, <2>2, <2>3, <2>4, <2>5, <2>6 DEF Next, Inside
<1>3. QED
  BY <1>1, <1>2, TypeCorrect, PTL DEF Spec

\* Two threads are never between lock and unlock together: what makes the
\* test of `pending' and the decision to sleep one step for the others.
THEOREM MutualExclusion ==
    Spec => [](\A t, u \in Threads : pc[t] \in Critical /\ pc[u] \in Critical => t = u)
<1>1. LockDiscipline => \A t, u \in Threads : pc[t] \in Critical /\ pc[u] \in Critical => t = u
  BY DEF LockDiscipline
<1>2. QED
  BY <1>1, LockDisciplineHolds, PTL

\* A thread that found the counter at zero still finds it at zero when it goes
\* to sleep: no notification is posted in between.
THEOREM SleepDecisionSafe == Spec => []SleepDecisionHolds
<1>1. Init => SleepDecisionHolds
  BY DEF Init, SleepDecisionHolds, At
<1>2. TypeOK /\ LockDiscipline /\ SleepDecisionHolds /\ [Next]_vars => SleepDecisionHolds'
  <2> SUFFICES ASSUME TypeOK, LockDiscipline, SleepDecisionHolds, [Next]_vars,
                      NEW u \in Threads, pc'[u] = "wait_enter"
               PROVE  pending' = 0
    BY DEF SleepDecisionHolds, At
  <2> USE DEF TypeOK, Goto, SleepDecisionHolds, At
  <2>1. CASE UNCHANGED vars
    BY <2>1 DEF vars
  <2>2. ASSUME NEW t \in Threads, Call(t) PROVE pending' = 0
    BY <2>2 DEF Call, CallWait, CallNotifyOne, CallNotifyAll
  <2>3. ASSUME NEW t \in Threads, Wait(t) PROVE pending' = 0
    <3>1. CASE WaitConsume(t)
      <4>1. pc[t] \in Critical /\ t # u /\ pc[u] = "wait_enter"
        BY <3>1 DEF WaitConsume, Critical
      <4>2. QED
        BY <4>1 DEF LockDiscipline, Critical
    <3>2. QED
      BY <2>3, <3>1 DEF Wait, WaitLock, WaitEmpty, WaitSleep, WaitRelock, Lock
  <2>4. ASSUME NEW t \in Threads, NotifyOne(t) PROVE pending' = 0
    <3>1. CASE OnePost(t)
      <4>1. pc[t] \in Critical /\ t # u /\ pc[u] = "wait_enter"
        BY <3>1 DEF OnePost, Critical
      <4>2. QED
        BY <4>1 DEF LockDiscipline, Critical
    <3>2. QED
      BY <2>4, <3>1 DEF NotifyOne, OneLock, OneSignal, Lock, Asleep
  <2>5. ASSUME NEW t \in Threads, NotifyAll(t) PROVE pending' = 0
    <3>1. CASE AllPost(t)
      <4>1. pc[t] \in Critical /\ t # u /\ pc[u] = "wait_enter"
        BY <3>1 DEF AllPost, Critical
      <4>2. QED
        BY <4>1 DEF LockDiscipline, Critical
    <3>2. CASE AllBroadcast(t)
      BY <3>2 DEF AllBroadcast, Asleep
    <3>3. QED
      BY <2>5, <3>1, <3>2 DEF NotifyAll, AllLock, Lock
  <2>6. ASSUME NEW t \in Threads, Unlock(t) \/ WaitSpurious(t) PROVE pending' = 0
    BY <2>6 DEF Unlock, WaitSpurious
  <2>7. QED
    BY <2>1, <2>2, <2>3, <2>4, <2>5, <2>6 DEF Next, Inside
<1>3. QED
  BY <1>1, <1>2, TypeCorrect, LockDisciplineHolds, PTL DEF Spec

-----------------------------------------------------------------------------
(* No lost wakeup                                                            *)

\* The threads on the way to the counter are finitely many, never more than
\* an int can count, and fewer while some thread is elsewhere.
LEMMA OnTheWayFacts ==
    /\ IsFiniteSet(OnTheWay)
    /\ Cardinality(OnTheWay) \in Nat
    /\ \A t \in Threads \ OnTheWay : Cardinality(OnTheWay) < IntMax
<1>1. OnTheWay \subseteq Threads
  BY DEF OnTheWay
<1>2. IsFiniteSet(OnTheWay) /\ Cardinality(OnTheWay) \in Nat
  BY <1>1, ThreadsAssumption, FS_Subset, FS_CardinalityType
<1>3. ASSUME NEW t \in Threads \ OnTheWay PROVE Cardinality(OnTheWay) < IntMax
  <2>1. OnTheWay \cup {t} \subseteq Threads
    BY <1>1
  <2>2. Cardinality(OnTheWay \cup {t}) = Cardinality(OnTheWay) + 1
    BY <1>2, <1>3, FS_AddElement
  <2>3. Cardinality(OnTheWay \cup {t}) <= Cardinality(Threads)
    BY <2>1, ThreadsAssumption, FS_Subset
  <2>4. Cardinality(Threads) \in Nat
    BY ThreadsAssumption, FS_CardinalityType
  <2>5. QED
    BY <1>2, <2>2, <2>3, <2>4, WidthAssumption
<1>4. QED
  BY <1>2, <1>3

\* The claim that NoLostWakeup makes while somebody sleeps.
Claimed == pending \in 0 .. Cardinality(OnTheWay)

\* A step that leaves `pending' alone and loses nobody who is on the way keeps
\* every notification claimed.
LEMMA ClaimedMonotone ==
    ASSUME Claimed, pending' = pending, OnTheWay \subseteq OnTheWay',
           IsFiniteSet(OnTheWay')
    PROVE  Claimed'
<1>1. Cardinality(OnTheWay) <= Cardinality(OnTheWay')
  BY FS_Subset
<1>2. Cardinality(OnTheWay) \in Nat /\ Cardinality(OnTheWay') \in Nat
  BY OnTheWayFacts, FS_CardinalityType
<1>3. QED
  BY <1>1, <1>2 DEF Claimed

\* The inductive invariant: NoLostWakeup needs that a thread that decided to
\* sleep still sees no notification when it falls asleep.
IInv == TypeOK /\ LockDiscipline /\ SleepDecisionHolds /\ NoLostWakeup

LEMMA NoLostWakeupStep ==
    ASSUME IInv, TypeOK', [Next]_vars PROVE NoLostWakeup'
<1> USE DEF IInv
<1> SUFFICES ASSUME Asleep' # {}, At("all_broadcast")' = {} PROVE Claimed'
  BY DEF NoLostWakeup, Claimed
<1>0. IsFiniteSet(OnTheWay')
  <2>1. OnTheWay' \subseteq Threads
    BY DEF OnTheWay
  <2>2. QED
    BY <2>1, ThreadsAssumption, FS_Subset
<1>1. ASSUME Asleep # {}, At("all_broadcast") = {} PROVE Claimed
  BY <1>1 DEF NoLostWakeup, Claimed
<1>2. CASE UNCHANGED vars
  <2>1. Asleep = Asleep' /\ At("all_broadcast")' = At("all_broadcast") /\ OnTheWay' = OnTheWay
    BY <1>2 DEF vars, Asleep, At, OnTheWay
  <2>2. QED
    BY <1>2, <2>1, <1>1 DEF vars, Claimed
<1>3. ASSUME NEW t \in Threads, Call(t) \/ Unlock(t) \/ WaitSpurious(t) PROVE Claimed'
  <2>1. Asleep # {} /\ At("all_broadcast") = {} /\ OnTheWay \subseteq OnTheWay' /\ pending' = pending
    BY <1>3 DEF Call, CallWait, CallNotifyOne, CallNotifyAll, Unlock, WaitSpurious,
                TypeOK, Goto, Asleep, At, OnTheWay
  <2>2. QED
    BY <2>1, <1>0, <1>1, ClaimedMonotone
<1>4. ASSUME NEW t \in Threads, Wait(t) PROVE Claimed'
  <2>1. CASE WaitLock(t) \/ WaitRelock(t)
    <3>1. Asleep # {} /\ At("all_broadcast") = {} /\ OnTheWay \subseteq OnTheWay' /\ pending' = pending
      BY <2>1 DEF WaitLock, WaitRelock, Lock, TypeOK, Goto, Asleep, At, OnTheWay
    <3>2. QED
      BY <3>1, <1>0, <1>1, ClaimedMonotone
  <2>2. CASE WaitEmpty(t) \/ WaitSleep(t)
    <3>1. pending' = 0
      BY <2>2 DEF WaitEmpty, WaitSleep, SleepDecisionHolds, At, Goto
    <3>2. Cardinality(OnTheWay') \in Nat
      BY <1>0, FS_CardinalityType
    <3>3. QED
      BY <3>1, <3>2 DEF Claimed
  <2>3. CASE WaitConsume(t)
    <3>1. Asleep # {} /\ At("all_broadcast") = {} /\ t \in OnTheWay /\ OnTheWay' = OnTheWay \ {t}
      BY <2>3 DEF WaitConsume, TypeOK, Goto, Asleep, At, OnTheWay
    <3>2. Cardinality(OnTheWay') = Cardinality(OnTheWay) - 1
      BY <3>1, OnTheWayFacts, FS_RemoveElement
    <3>3. pending \in 1 .. Cardinality(OnTheWay)
      BY <2>3, <3>1, <1>1, OnTheWayFacts DEF Claimed, WaitConsume
    <3>4. pending' = pending - 1
      BY <2>3, <3>3, OnTheWayFacts, WidthAssumption DEF WaitConsume, Dec, IntMin
    <3>5. QED
      BY <3>2, <3>3, <3>4, OnTheWayFacts DEF Claimed
  <2>4. QED
    BY <1>4, <2>1, <2>2, <2>3 DEF Wait
<1>5. ASSUME NEW t \in Threads, NotifyOne(t) PROVE Claimed'
  <2>1. CASE OneLock(t)
    <3>1. Asleep # {} /\ At("all_broadcast") = {} /\ OnTheWay \subseteq OnTheWay' /\ pending' = pending
      BY <2>1 DEF OneLock, Lock, TypeOK, Goto, Asleep, At, OnTheWay
    <3>2. QED
      BY <3>1, <1>0, <1>1, ClaimedMonotone
  <2>2. CASE OnePost(t)
    <3>1. /\ Asleep # {} /\ At("all_broadcast") = {}
          /\ t \in Threads \ OnTheWay /\ OnTheWay' = OnTheWay \cup {t}
      BY <2>2 DEF OnePost, TypeOK, Goto, Asleep, At, OnTheWay
    <3>2. Cardinality(OnTheWay') = Cardinality(OnTheWay) + 1
      BY <3>1, OnTheWayFacts, FS_AddElement
    <3>3. Cardinality(OnTheWay) < IntMax
      BY <3>1, OnTheWayFacts
    <3>4. pending' = pending + 1
      BY <2>2, <3>1, <3>3, <1>1, OnTheWayFacts, WidthAssumption DEF OnePost, Inc, Claimed
    <3>5. QED
      BY <3>1, <3>2, <3>4, <1>1, OnTheWayFacts DEF Claimed
  <2>3. CASE OneSignal(t)
    <3>1. PICK w \in Asleep : pc' = [pc EXCEPT ![t] = "unlock", ![w] = "wait_relock"]
      BY <2>3 DEF OneSignal, TypeOK, Asleep, At
    <3>2. /\ At("all_broadcast") = {}
          /\ t \in OnTheWay /\ w \notin OnTheWay
          /\ OnTheWay' = (OnTheWay \ {t}) \cup {w}
      BY <2>3, <3>1 DEF OneSignal, TypeOK, Asleep, At, OnTheWay
    <3>3. IsFiniteSet(OnTheWay \ {t}) /\ Cardinality(OnTheWay \ {t}) = Cardinality(OnTheWay) - 1
      BY <3>2, OnTheWayFacts, FS_RemoveElement
    <3>4. Cardinality(OnTheWay') = Cardinality(OnTheWay)
      <4>1. Cardinality((OnTheWay \ {t}) \cup {w}) = Cardinality(OnTheWay \ {t}) + 1
        BY <3>2, <3>3, FS_AddElement
      <4>2. QED
        BY <3>2, <3>3, <4>1, OnTheWayFacts
    <3>5. QED
      BY <2>3, <3>1, <3>2, <3>4, <1>1 DEF OneSignal, Claimed
  <2>4. QED
    BY <1>5, <2>1, <2>2, <2>3 DEF NotifyOne
<1>6. ASSUME NEW t \in Threads, NotifyAll(t) PROVE Claimed'
  <2>1. CASE AllLock(t)
    <3>1. Asleep # {} /\ At("all_broadcast") = {} /\ OnTheWay \subseteq OnTheWay' /\ pending' = pending
      BY <2>1 DEF AllLock, Lock, TypeOK, Goto, Asleep, At, OnTheWay
    <3>2. QED
      BY <3>1, <1>0, <1>1, ClaimedMonotone
  <2>2. CASE AllPost(t)
    <3>1. t \in At("all_broadcast")'
      BY <2>2 DEF AllPost, TypeOK, Goto, At
    <3>2. QED
      BY <3>1
  <2>3. CASE AllBroadcast(t)
    <3>1. Asleep' = {}
      BY <2>3 DEF AllBroadcast, TypeOK, Asleep, At
    <3>2. QED
      BY <3>1
  <2>4. QED
    BY <1>6, <2>1, <2>2, <2>3 DEF NotifyAll
<1>7. QED
  BY <1>2, <1>3, <1>4, <1>5, <1>6 DEF Next, Inside

\* No waiter is ever left asleep over a notification nobody is on the way to
\* take, whichever threads steal, wake spuriously or notify.
THEOREM NoWakeupIsLost == Spec => []NoLostWakeup
<1>1. Init => NoLostWakeup
  BY DEF Init, NoLostWakeup, Asleep, At
<1>2. TypeOK /\ TypeOK' /\ LockDiscipline /\ SleepDecisionHolds /\ NoLostWakeup /\ [Next]_vars
        => NoLostWakeup'
  BY NoLostWakeupStep DEF IInv
<1>3. QED
  BY <1>1, <1>2, TypeCorrect, LockDisciplineHolds, SleepDecisionSafe, PTL DEF Spec

\* Nobody sleeps beside an unconsumed notification at rest: when every thread
\* is outside or asleep and some are asleep, the counter is zero.
THEOREM RestMeansNoTokens ==
    Spec => []((\A t \in Threads : pc[t] \in {"idle", "wait_sleep"}) /\ Asleep # {}
                  => pending = 0)
<1>1. ASSUME NoLostWakeup, \A t \in Threads : pc[t] \in {"idle", "wait_sleep"}, Asleep # {}
      PROVE  pending = 0
  <2>1. OnTheWay = {} /\ At("all_broadcast") = {}
    BY <1>1 DEF OnTheWay, At
  <2>2. Cardinality(OnTheWay) = 0
    BY <2>1, FS_EmptySet
  <2>3. QED
    BY <1>1, <2>1, <2>2 DEF NoLostWakeup
<1>2. QED
  BY <1>1, NoWakeupIsLost, PTL

-----------------------------------------------------------------------------
(* Refinement                                                                *)

\* Under the mapping, every step of the code is one step of the token box or
\* leaves the box alone.
LEMMA BoxStep == ASSUME TypeOK, [Next]_vars PROVE [Box!Next]_(Box!boxVars)
<1> DEFINE ph == [t \in Threads |-> Phase(pc[t])]
<1> USE LabelFacts DEF TypeOK, Goto, Phase, WaitLabels
<1>1. CASE UNCHANGED vars
  BY <1>1 DEF vars, Box!boxVars
<1>2. ASSUME NEW t \in Threads, Call(t) PROVE Box!Next
  <2>1. \E request \in {"waiting", "posting", "flooding"} : Box!Ask(t, request)
    BY <1>2 DEF Call, CallWait, CallNotifyOne, CallNotifyAll, Box!Ask
  <2>2. QED
    BY <2>1 DEF Box!Next
<1>3. ASSUME NEW t \in Threads,
             \/ WaitLock(t) \/ WaitEmpty(t) \/ WaitSleep(t) \/ WaitRelock(t) \/ WaitSpurious(t)
             \/ OneLock(t) \/ AllLock(t) \/ Unlock(t)
      PROVE  UNCHANGED Box!boxVars
  BY <1>3 DEF WaitLock, WaitEmpty, WaitSleep, WaitRelock, WaitSpurious, OneLock, AllLock,
              Unlock, Lock, Box!boxVars
<1>4. ASSUME NEW t \in Threads, WaitConsume(t) PROVE Box!Take(t)
  <2>1. ph[t] = "waiting" /\ ph' = [ph EXCEPT ![t] = "out"]
    BY <1>4 DEF WaitConsume
  <2>2. pending' = Box!Wrap(pending - 1)
    BY <1>4, WidthAssumption DEF WaitConsume, Dec, Int32, IntMin, Box!Wrap
  <2>3. QED
    BY <1>4, <2>1, <2>2 DEF WaitConsume, Box!Take, Box!Serve
<1>5. ASSUME NEW t \in Threads, OnePost(t) PROVE Box!Post(t)
  <2>1. ph[t] = "posting" /\ ph' = [ph EXCEPT ![t] = "out"]
    BY <1>5 DEF OnePost
  <2>2. pending' = Box!Wrap(pending + 1)
    BY <1>5, WidthAssumption DEF OnePost, Inc, Int32, IntMin, Box!Wrap
  <2>3. QED
    BY <2>1, <2>2 DEF Box!Post, Box!Serve
<1>6. ASSUME NEW t \in Threads, AllPost(t) PROVE Box!Flood(t)
  <2>1. ph[t] = "flooding" /\ ph' = [ph EXCEPT ![t] = "out"]
    BY <1>6 DEF AllPost
  <2>2. QED
    BY <1>6, <2>1 DEF AllPost, Plenty, Box!Flood, Box!Serve
<1>7. ASSUME NEW t \in Threads, OneSignal(t) PROVE UNCHANGED Box!boxVars
  BY <1>7 DEF OneSignal, Asleep, At, Box!boxVars
<1>8. ASSUME NEW t \in Threads, AllBroadcast(t) PROVE UNCHANGED Box!boxVars
  BY <1>8 DEF AllBroadcast, Asleep, At, Box!boxVars
<1>9. QED
  BY <1>1, <1>2, <1>3, <1>4, <1>5, <1>6, <1>7, <1>8
     DEF Next, Inside, Wait, NotifyOne, NotifyAll, Box!Next

\* The condition variable implements the atomic token box.
THEOREM BoxImplemented == Spec => ImplementsBox
<1>1. Init => Box!Init
  BY DEF Init, Box!Init, Phase, WaitLabels
<1>2. TypeOK /\ [Next]_vars => [Box!Next]_(Box!boxVars)
  BY BoxStep
<1>3. QED
  BY <1>1, <1>2, TypeCorrect, PTL DEF Spec, ImplementsBox, Box!Spec

-----------------------------------------------------------------------------
(* The clients.  What is proved of the condition variable carries over to    *)
(* them, and joining the threads before freeing it, as the tests do, is      *)
(* enough for a safe Free.                                                   *)

\* A client only takes steps of the condition variable, or none of it.
LEMMA ClientStep == TestNext => [Next]_vars
<1>1. ASSUME NEW t \in Threads, ThreadStep(t) \/ Wakes(t) PROVE [Next]_vars
  BY <1>1 DEF ThreadStep, Wakes, Create, FollowsNull, BeginWait, BeginNotifyOne, BeginNotifyAll,
              CountOne, JoinAll, Free, Run, Next, Call
<1> QED BY <1>1 DEF TestNext, Over, allVars

\* A client only does what CondVar allows any caller, so each of its runs is
\* one of the open module's.
THEOREM ClientsUseCondVar == TestSpec => Spec
<1>1. TestInit => Init
  BY DEF TestInit
<1>2. [TestNext]_allVars => [Next]_vars
  BY ClientStep DEF allVars
<1> QED BY <1>1, <1>2, PTL DEF TestSpec, Spec

\* No client's waiter is left asleep over an unclaimed notification.
THEOREM ClientsLoseNoWakeup == TestSpec => []NoLostWakeup
  BY ClientsUseCondVar, NoWakeupIsLost, PTL

-----------------------------------------------------------------------------
(* Free                                                                      *)

\* What the rest of a program looks like when the program frees the variable
\* only as its last call and right after it has joined the other threads.
Proper(p) == \A i \in 1 .. Len(p) : p[i] = "free" => i = Len(p) /\ (i > 1 => p[i - 1] = "join")

JoinsBeforeFree == \A s \in Scenarios, t \in Threads :
    Proper(s[t]) /\ (s[t] # <<>> => Head(s[t]) # "free")

LEMMA TailProper ==
    ASSUME NEW p \in Seq(Calls), p # <<>>, Proper(p)
    PROVE  /\ Tail(p) \in Seq(Calls) /\ Proper(Tail(p))
           /\ Tail(p) # <<>> /\ Head(Tail(p)) = "free" => Head(p) = "join"
           /\ Head(p) = "free" => Tail(p) = <<>>
<1>1. /\ Len(p) \in Nat \ {0} /\ Head(p) = p[1] /\ Tail(p) \in Seq(Calls)
      /\ Len(Tail(p)) = Len(p) - 1 /\ \A i \in 1 .. Len(Tail(p)) : Tail(p)[i] = p[i + 1]
  OBVIOUS
<1>2. Proper(Tail(p))
  <2>1. ASSUME NEW i \in 1 .. Len(Tail(p)), Tail(p)[i] = "free"
        PROVE  i = Len(Tail(p)) /\ (i > 1 => Tail(p)[i - 1] = "join")
    <3>1. i + 1 \in 1 .. Len(p) /\ p[i + 1] = "free"
      BY <1>1, <2>1
    <3>2. i + 1 = Len(p) /\ i + 1 > 1 /\ (i + 1) - 1 = i
      BY <3>1 DEF Proper
    <3>3. p[i] = "join"
      BY <3>1, <3>2 DEF Proper
    <3>4. ASSUME i > 1 PROVE Tail(p)[i - 1] = "join"
      <4>1. i - 1 \in 1 .. Len(Tail(p)) /\ (i - 1) + 1 = i
        BY <3>4
      <4> QED BY <1>1, <3>3, <4>1
    <3>5. i = Len(Tail(p))
      BY <1>1, <3>2
    <3> QED BY <3>4, <3>5
  <2> QED BY <2>1 DEF Proper
<1>3. Tail(p) # <<>> /\ Head(Tail(p)) = "free" => Head(p) = "join"
  <2> SUFFICES ASSUME Tail(p) # <<>>, Head(Tail(p)) = "free" PROVE Head(p) = "join"
    OBVIOUS
  <2>1. Len(p) > 1 /\ 2 \in 1 .. Len(p) /\ p[2] = "free"
    BY <1>1
  <2>2. 2 > 1 /\ 2 - 1 = 1
    OBVIOUS
  <2>3. p[1] = "join"
    BY <2>1, <2>2 DEF Proper
  <2> QED BY <1>1, <2>3
<1>4. Head(p) = "free" => Tail(p) = <<>>
  <2> SUFFICES ASSUME Head(p) = "free" PROVE Tail(p) = <<>>
    OBVIOUS
  <2>1. 1 \in 1 .. Len(p) /\ p[1] = "free"
    BY <1>1
  <2>2. Len(p) = 1
    BY <2>1 DEF Proper
  <2>3. Len(Tail(p)) = 0
    BY <1>1, <2>2
  <2> QED BY <1>1, <2>3, EmptySeq
<1> QED BY <1>1, <1>2, <1>3, <1>4

\* Whoever is about to free the variable has seen all others finish, and once
\* it is freed nobody has anything left to do.
FreeInv ==
    /\ todo \in [Threads -> Seq(Calls)]
    /\ \A t \in Threads : Proper(todo[t])
    /\ \A t \in Threads : todo[t] # <<>> /\ Head(todo[t]) = "free" =>
          \A u \in Threads \ {t} : Finished(u)
    /\ cv = "freed" => \A t \in Threads : Finished(t)

\* A step inside the condition variable is one of a thread that is in a call.
LEMMA InsideMoves ==
    ASSUME TypeOK, NEW t \in Threads, Inside(t) \/ WaitSpurious(t)
    PROVE  pc[t] # "idle" /\ \A u \in Threads : pc[u] = "idle" => pc'[u] = "idle"
<1> USE DEF TypeOK, Goto
<1>1. CASE Wait(t) \/ WaitSpurious(t) \/ Unlock(t)
  BY <1>1 DEF Wait, WaitLock, WaitEmpty, WaitSleep, WaitRelock, WaitConsume, Lock, WaitSpurious,
              Unlock
<1>2. CASE NotifyOne(t)
  BY <1>2 DEF NotifyOne, OneLock, OnePost, OneSignal, Lock, Asleep, At
<1>3. CASE AllLock(t) \/ AllPost(t)
  BY <1>3 DEF AllLock, AllPost, Lock
<1>4. CASE AllBroadcast(t)
  BY <1>4 DEF AllBroadcast, Asleep, At
<1> QED BY <1>1, <1>2, <1>3, <1>4 DEF Inside, NotifyAll

LEMMA FreeInvInit == ASSUME JoinsBeforeFree, TestInit PROVE FreeInv
<1>1. scenario \in Scenarios /\ todo = scenario /\ cv # "freed"
  BY DEF TestInit
<1> QED BY <1>1, ScenariosAssumption DEF JoinsBeforeFree, FreeInv

LEMMA RunKeeps ==
    ASSUME TypeOK, FreeInv, NEW t \in Threads, Run(t) \/ Wakes(t) PROVE FreeInv'
<1>1. /\ pc[t] # "idle" /\ \A u \in Threads : pc[u] = "idle" => pc'[u] = "idle"
      /\ todo' = todo /\ cv' = cv
  BY InsideMoves DEF Run, Wakes, testVars
<1>2. \A u \in Threads : Finished(u) => Finished(u)'
  BY <1>1 DEF Finished
<1> QED BY <1>1, <1>2 DEF FreeInv

LEMMA CallKeeps ==
    ASSUME TypeOK, FreeInv, NEW t \in Threads, NEW call, Executes(t, call),
           \A u \in Threads : u # t => pc'[u] = pc[u],
           call = "join" => \A u \in Threads \ {t} : Finished(u),
           cv' = "freed" => cv = "freed" \/ (call = "free" /\ pc'[t] = "idle")
    PROVE  FreeInv'
<1>1. /\ pc[t] = "idle" /\ todo[t] # <<>> /\ Head(todo[t]) = call
      /\ todo' = [todo EXCEPT ![t] = Tail(@)]
      /\ todo[t] \in Seq(Calls) /\ Proper(todo[t]) /\ ~Finished(t)
  BY DEF Executes, FreeInv, Finished
<1>2. /\ todo' \in [Threads -> Seq(Calls)] /\ todo'[t] = Tail(todo[t])
      /\ \A u \in Threads : u # t => todo'[u] = todo[u]
  BY <1>1, TailProper DEF FreeInv
<1>3. \A u \in Threads : Proper(todo'[u])
  BY <1>1, <1>2, TailProper DEF FreeInv
<1>4. \A u \in Threads : u # t => Finished(u)' = Finished(u)
  BY <1>2 DEF Finished
<1>5. ASSUME NEW v \in Threads, todo'[v] # <<>>, Head(todo'[v]) = "free"
      PROVE  \A u \in Threads \ {v} : Finished(u)'
  <2>1. CASE v = t
    BY <1>1, <1>2, <1>4, <1>5, <2>1, TailProper
  <2>2. CASE v # t
    BY <1>1, <1>2, <1>5, <2>2 DEF FreeInv
  <2> QED BY <2>1, <2>2
<1>6. ASSUME cv' = "freed" PROVE \A u \in Threads : Finished(u)'
  <2>1. call = "free" /\ pc'[t] = "idle"
    BY <1>1, <1>6 DEF FreeInv
  <2>2. todo'[t] = <<>> /\ \A u \in Threads \ {t} : Finished(u)
    BY <1>1, <1>2, <2>1, TailProper DEF FreeInv
  <2> QED BY <1>4, <2>1, <2>2 DEF Finished
<1> QED BY <1>2, <1>3, <1>5, <1>6 DEF FreeInv

LEMMA ThreadKeeps ==
    ASSUME TypeOK, FreeInv, NEW t \in Threads, ThreadStep(t) PROVE FreeInv'
<1>1. CASE Create(t) \/ CountOne(t) \/ FollowsNull(t)
  BY <1>1, CallKeeps DEF Create, CountOne, FollowsNull, vars
<1>2. CASE BeginWait(t) \/ BeginNotifyOne(t) \/ BeginNotifyAll(t)
  <2>1. PICK call \in {"wait", "one", "all"} : Executes(t, call)
    BY <1>2 DEF BeginWait, BeginNotifyOne, BeginNotifyAll
  <2>2. cv' = cv /\ \A u \in Threads : u # t => pc'[u] = pc[u]
    BY <1>2 DEF BeginWait, BeginNotifyOne, BeginNotifyAll, Follows, CallWait, CallNotifyOne,
                CallNotifyAll, Goto, TypeOK
  <2> QED BY <2>1, <2>2, CallKeeps
<1>3. CASE JoinAll(t)
  BY <1>3, CallKeeps DEF JoinAll, vars
<1>4. CASE Free(t)
  <2>1. Executes(t, "free") /\ pc' = pc /\ pc[t] = "idle"
    BY <1>4 DEF Free, vars, Executes
  <2> QED BY <2>1, CallKeeps
<1> QED BY <1>1, <1>2, <1>3, <1>4, RunKeeps DEF ThreadStep

\* Joining first is enough: when the variable is freed nobody is inside one of
\* its operations, asleep on it or going to call it, for any number of
\* threads, any programs and any schedule.
THEOREM NoUseAfterFreeHolds == ASSUME JoinsBeforeFree PROVE TestSpec => []NoUseAfterFree
<1>1. TestInit => FreeInv
  BY FreeInvInit
<1>2. TypeOK /\ FreeInv /\ [TestNext]_allVars => FreeInv'
  <2>1. ASSUME FreeInv, UNCHANGED allVars PROVE FreeInv'
    BY <2>1 DEF FreeInv, Finished, allVars, vars, testVars
  <2> QED BY <2>1, ThreadKeeps, RunKeeps DEF TestNext, Over
<1>3. FreeInv => NoUseAfterFree
  BY DEF FreeInv, NoUseAfterFree, Touches, Finished
<1> QED BY <1>1, <1>2, <1>3, ClientsUseCondVar, TypeCorrect, PTL DEF TestSpec

-----------------------------------------------------------------------------
-----------------------------------------------------------------------------
(* Tokens of the clients                                                     *)

\* Finitely many threads make finitely many calls.
LEMMA LongestProgram ==
    ASSUME NEW s \in [Threads -> Seq(Calls)]
    PROVE  \E n \in Nat : \A t \in Threads : Len(s[t]) <= n
<1> DEFINE c == Cardinality(Threads)
<1>1. c \in Nat /\ ExistsBijection(1 .. c, Threads)
  BY ThreadsAssumption, FS_CardinalityType
<1>2. PICK f \in [1 .. c -> Threads] : \A t \in Threads : \E i \in 1 .. c : f[i] = t
  BY <1>1 DEF ExistsBijection, Bijection, Surjection
<1> HIDE DEF c
<1> DEFINE N == {k \in Nat : \E n \in Nat : \A i \in 1 .. c : i <= k => Len(s[f[i]]) <= n}
<1>3. 0 \in N
  OBVIOUS
<1>4. ASSUME NEW k \in Nat, k \in N PROVE k + 1 \in N
  <2>1. PICK n \in Nat : \A i \in 1 .. c : i <= k => Len(s[f[i]]) <= n
    BY <1>4
  <2>2. \A i \in 1 .. c : Len(s[f[i]]) \in Nat
    BY <1>2
  <2>3. CASE k + 1 \in 1 .. c
    <3> DEFINE m == IF Len(s[f[k + 1]]) <= n THEN n ELSE Len(s[f[k + 1]])
    <3>1. m \in Nat /\ n <= m /\ Len(s[f[k + 1]]) <= m
      BY <2>2, <2>3
    <3> HIDE DEF m
    <3>2. \A i \in 1 .. c : i <= k + 1 => Len(s[f[i]]) <= m
      <4> SUFFICES ASSUME NEW i \in 1 .. c, i <= k + 1 PROVE Len(s[f[i]]) <= m
        OBVIOUS
      <4>1. CASE i = k + 1
        BY <3>1, <4>1
      <4>2. CASE i <= k
        BY <2>1, <2>2, <3>1, <4>2
      <4> QED BY <4>1, <4>2
    <3> QED BY <3>1, <3>2
  <2>4. CASE k + 1 \notin 1 .. c
    <3>1. \A i \in 1 .. c : i <= k + 1 => i <= k
      BY <1>1, <2>4
    <3> QED BY <2>1, <3>1
  <2> QED BY <2>3, <2>4
<1>5. c \in N
  <2> HIDE DEF N
  <2> QED BY <1>1, <1>3, <1>4, SetInduction DEF c
<1>6. PICK n \in Nat : \A i \in 1 .. c : Len(s[f[i]]) <= n
  BY <1>5
<1> QED BY <1>2, <1>6

\* The positions of a call in the programs of a client.
CallsIn(s, call) == {p \in Threads \X Nat : p[2] \in 1 .. Len(s[p[1]]) /\ s[p[1]][p[2]] = call}

LEMMA CallsAreIn ==
    ASSUME scenario \in Scenarios, NEW call
    PROVE  CallsOf(call) = CallsIn(scenario, call) /\ IsFiniteSet(CallsOf(call))
<1>1. scenario \in [Threads -> Seq(Calls)]
  BY ScenariosAssumption
<1>2. \A t \in Threads : DOMAIN scenario[t] = 1 .. Len(scenario[t])
  BY <1>1, LenProperties
<1>3. CallsOf(call) = CallsIn(scenario, call)
  <2>1. \A p : p \in CallsOf(call) <=>
                 \E t \in Threads : \E i \in 1 .. Len(scenario[t]) : scenario[t][i] = call /\ p = <<t, i>>
    BY <1>2 DEF CallsOf
  <2>2. \A t \in Threads : 1 .. Len(scenario[t]) \subseteq Nat
    BY <1>1
  <2>3. \A p : p \in CallsIn(scenario, call) <=>
                 \E t \in Threads : \E i \in 1 .. Len(scenario[t]) : scenario[t][i] = call /\ p = <<t, i>>
    <3>1. ASSUME NEW p, p \in CallsIn(scenario, call)
          PROVE  \E t \in Threads : \E i \in 1 .. Len(scenario[t]) : scenario[t][i] = call /\ p = <<t, i>>
      <4>1. p = <<p[1], p[2]>> /\ p[1] \in Threads /\ p[2] \in 1 .. Len(scenario[p[1]]) /\ scenario[p[1]][p[2]] = call
        BY <3>1 DEF CallsIn
      <4> QED BY <4>1
    <3>2. ASSUME NEW t \in Threads, NEW i \in 1 .. Len(scenario[t]), scenario[t][i] = call
          PROVE  <<t, i>> \in CallsIn(scenario, call)
      <4>1. <<t, i>> \in Threads \X Nat /\ <<t, i>>[1] = t /\ <<t, i>>[2] = i
        BY <2>2
      <4> QED BY <3>2, <4>1 DEF CallsIn
    <3> QED BY <3>1, <3>2
  <2> QED BY <2>1, <2>3
<1>4. PICK n \in Nat : \A t \in Threads : Len(scenario[t]) <= n
  BY <1>1, LongestProgram
<1>5. CallsIn(scenario, call) \in SUBSET (Threads \X (1 .. n))
  BY <1>1, <1>4 DEF CallsIn
<1>6. IsFiniteSet(Threads \X (1 .. n))
  <2>1. 1 \in Int /\ n \in Int /\ IsFiniteSet(Threads)
    BY ThreadsAssumption
  <2>2. IsFiniteSet(1 .. n)
    BY <2>1, FS_Interval
  <2> QED BY <2>1, <2>2, FS_Product
<1> QED BY <1>3, <1>5, <1>6, FS_Subset

\* The calls thread t has begun.
Begun(t) == Len(scenario[t]) - Len(todo[t])

\* A call of NotifyOne has posted, a call of Wait has consumed.
Posting == {"one_lock", "one_post"}
Posted  == {p \in CallsOf("one")  : p[2] <= Begun(p[1]) /\ ~ (p[2] = Begun(p[1]) /\ pc[p[1]] \in Posting)}
Taken   == {p \in CallsOf("wait") : p[2] <= Begun(p[1]) /\ ~ (p[2] = Begun(p[1]) /\ pc[p[1]] \in WaitLabels)}

\* Where a thread is in an operation, the last call it has begun is that one.
InCallOf(t, labels, call) == pc[t] \in labels => Begun(t) > 0 /\ scenario[t][Begun(t)] = call

ProgramInv ==
    /\ scenario \in Scenarios /\ todo \in [Threads -> Seq(Calls)]
    /\ \A t \in Threads :
          /\ Len(todo[t]) <= Len(scenario[t])
          /\ \A i \in 1 .. Len(todo[t]) : todo[t][i] = scenario[t][Begun(t) + i]
          /\ InCallOf(t, WaitLabels, "wait")
          /\ InCallOf(t, Posting, "one")
          /\ InCallOf(t, {"all_lock", "all_post"}, "all")

\* The counter is what has been posted and not taken.
TokenInv == ProgramInv /\
    (cv # "crashed" /\ CallsOf("all") = {} =>
        pending >= 0 /\ pending = Cardinality(Posted) - Cardinality(Taken))

\* No client posts more than an int can count.
FewCalls == \A s \in Scenarios : Cardinality(CallsIn(s, "one")) <= IntMax

LEMMA TokenInvStarts == TestInit => TokenInv
<1> SUFFICES ASSUME TestInit PROVE TokenInv
  OBVIOUS
<1>1. /\ scenario \in Scenarios /\ todo = scenario /\ pending = 0
      /\ pc = [t \in Threads |-> "idle"]
  BY DEF TestInit, Init
<1>2. scenario \in [Threads -> Seq(Calls)] /\ \A t \in Threads : Len(scenario[t]) \in Nat /\ Begun(t) = 0
  BY <1>1, ScenariosAssumption DEF Begun
<1>3. ProgramInv
  BY <1>1, <1>2 DEF ProgramInv, InCallOf, WaitLabels, Posting
<1>4. Posted = {} /\ Taken = {}
  BY <1>1, <1>2, CallsAreIn DEF Posted, Taken, CallsIn
<1> QED BY <1>1, <1>3, <1>4, FS_EmptySet DEF TokenInv

\* A step of which the two sets know nothing.
LEMMA SameTokens ==
    ASSUME UNCHANGED <<scenario, todo>>,
           \A t \in Threads : /\ pc'[t] \in WaitLabels <=> pc[t] \in WaitLabels
                              /\ pc'[t] \in Posting <=> pc[t] \in Posting
    PROVE  Posted' = Posted /\ Taken' = Taken
<1>1. \A t : Begun(t)' = Begun(t)
  BY DEF Begun
<1>2. \A call : CallsOf(call)' = CallsOf(call)
  BY DEF CallsOf
<1>3. \A call, p : p \in CallsOf(call) => p[1] \in Threads
  BY DEF CallsOf
<1>4. Posted' = Posted
  BY <1>1, <1>2, <1>3 DEF Posted
<1>5. Taken' = Taken
  BY <1>1, <1>2, <1>3 DEF Taken
<1> QED BY <1>4, <1>5

\* What has been posted and taken is finite, and no more is posted than called.
LEMMA TokensFinite ==
    ASSUME ProgramInv
    PROVE  /\ IsFiniteSet(CallsOf("one")) /\ Posted \subseteq CallsOf("one") /\ IsFiniteSet(Posted)
           /\ IsFiniteSet(Taken)
           /\ Cardinality(Posted) \in Nat /\ Cardinality(Taken) \in Nat
           /\ FewCalls => Cardinality(CallsOf("one")) <= IntMax
<1>1. IsFiniteSet(CallsOf("one")) /\ IsFiniteSet(CallsOf("wait"))
      /\ CallsOf("one") = CallsIn(scenario, "one") /\ scenario \in Scenarios
  BY CallsAreIn DEF ProgramInv
<1>2. Posted \in SUBSET CallsOf("one") /\ Taken \in SUBSET CallsOf("wait")
  BY DEF Posted, Taken
<1>3. IsFiniteSet(Posted) /\ IsFiniteSet(Taken)
  BY <1>1, <1>2, FS_Subset
<1> QED BY <1>1, <1>2, <1>3, FS_CardinalityType DEF FewCalls

\* The next call of a program begins.
LEMMA ProgramBegins ==
    ASSUME ProgramInv, NEW t \in Threads, NEW call, Executes(t, call),
           \A u \in Threads : u # t => pc'[u] = pc[u],
           pc'[t] \in WaitLabels => call = "wait",
           pc'[t] \in Posting => call = "one",
           pc'[t] \in {"all_lock", "all_post"} => call = "all"
    PROVE  /\ ProgramInv' /\ scenario' = scenario /\ pc[t] = "idle"
           /\ Begun(t) \in Nat /\ Begun(t)' = Begun(t) + 1 /\ scenario[t][Begun(t) + 1] = call
           /\ \A u \in Threads : u # t => Begun(u)' = Begun(u)
<1> DEFINE n == Begun(t) + 1
<1>1. /\ pc[t] = "idle" /\ todo[t] # <<>> /\ Head(todo[t]) = call
      /\ todo' = [todo EXCEPT ![t] = Tail(@)] /\ scenario' = scenario
  BY DEF Executes
<1>2. /\ scenario \in Scenarios /\ scenario \in [Threads -> Seq(Calls)]
      /\ todo \in [Threads -> Seq(Calls)] /\ todo[t] \in Seq(Calls)
      /\ \A u \in Threads : Len(todo[u]) \in Nat /\ Len(scenario[u]) \in Nat /\ Begun(u) \in Nat
  BY ScenariosAssumption DEF ProgramInv, Begun
<1>3. /\ Tail(todo[t]) \in Seq(Calls) /\ Len(Tail(todo[t])) = Len(todo[t]) - 1 /\ Len(todo[t]) > 0
      /\ todo[t][1] = call
      /\ \A i \in 1 .. Len(Tail(todo[t])) : i + 1 \in 1 .. Len(todo[t]) /\ Tail(todo[t])[i] = todo[t][i + 1]
  BY <1>1, <1>2
<1>4. /\ todo' \in [Threads -> Seq(Calls)] /\ todo'[t] = Tail(todo[t])
      /\ \A u \in Threads : u # t => todo'[u] = todo[u]
  BY <1>1, <1>2, <1>3
<1>5. Begun(t)' = n /\ \A u \in Threads : u # t => Begun(u)' = Begun(u)
  BY <1>1, <1>2, <1>3, <1>4 DEF Begun
<1>6. scenario[t][n] = call /\ n <= Len(scenario[t]) /\ n \in Nat /\ n > 0
  <2>1. 1 \in 1 .. Len(todo[t]) /\ todo[t][1] = scenario[t][Begun(t) + 1]
    BY <1>2, <1>3 DEF ProgramInv
  <2> QED BY <1>2, <1>3, <2>1 DEF Begun
<1> HIDE DEF n
<1>7. ProgramInv'
  <2>1. ASSUME NEW u \in Threads
        PROVE  /\ Len(todo'[u]) <= Len(scenario[u])
               /\ \A i \in 1 .. Len(todo'[u]) : todo'[u][i] = scenario[u][Begun(u)' + i]
               /\ InCallOf(u, WaitLabels, "wait")'
               /\ InCallOf(u, Posting, "one")'
               /\ InCallOf(u, {"all_lock", "all_post"}, "all")'
    <3>1. CASE u # t
      BY <1>1, <1>4, <1>5, <2>1, <3>1 DEF ProgramInv, InCallOf
    <3>2. CASE u = t
      <4>1. Len(todo'[t]) <= Len(scenario[t])
        BY <1>2, <1>3, <1>4 DEF ProgramInv
      <4>2. ASSUME NEW i \in 1 .. Len(todo'[t]) PROVE todo'[t][i] = scenario[t][Begun(t)' + i]
        <5>1. i + 1 \in 1 .. Len(todo[t]) /\ todo'[t][i] = todo[t][i + 1]
          BY <1>3, <1>4
        <5>2. todo[t][i + 1] = scenario[t][Begun(t) + (i + 1)]
          BY <5>1 DEF ProgramInv
        <5>3. Begun(t) + (i + 1) = n + i
          BY <1>2, <1>3, <1>4 DEF n
        <5> QED BY <1>5, <5>1, <5>2, <5>3
      <4>3. /\ InCallOf(t, WaitLabels, "wait")' /\ InCallOf(t, Posting, "one")'
            /\ InCallOf(t, {"all_lock", "all_post"}, "all")'
        BY <1>1, <1>5, <1>6 DEF InCallOf
      <4> QED BY <3>2, <4>1, <4>2, <4>3
    <3> QED BY <3>1, <3>2
  <2> QED BY <1>1, <1>2, <1>4, <2>1 DEF ProgramInv
<1> QED BY <1>1, <1>2, <1>5, <1>6, <1>7 DEF n

\* It is none that has posted or consumed.
LEMMA BeginsNone ==
    ASSUME ProgramInv, NEW t \in Threads, NEW call, Executes(t, call),
           \A u \in Threads : u # t => pc'[u] = pc[u],
           call = "wait" <=> pc'[t] \in WaitLabels,
           call = "one" <=> pc'[t] \in Posting,
           pc'[t] \in {"all_lock", "all_post"} => call = "all"
    PROVE  ProgramInv' /\ Posted' = Posted /\ Taken' = Taken /\ scenario' = scenario
<1> DEFINE n == Begun(t) + 1
<1>1. /\ ProgramInv' /\ scenario' = scenario /\ pc[t] = "idle"
      /\ Begun(t) \in Nat /\ Begun(t)' = n /\ scenario[t][n] = call
      /\ \A u \in Threads : u # t => Begun(u)' = Begun(u)
  BY ProgramBegins
<1> HIDE DEF n
<1>2. \A c : CallsOf(c)' = CallsOf(c)
  BY <1>1 DEF CallsOf
<1>3. \A c : \A p \in CallsOf(c) : p[1] \in Threads /\ p[2] \in Nat /\ scenario[p[1]][p[2]] = c
  BY CallsAreIn DEF CallsIn, ProgramInv
<1>4. \A p \in CallsOf("one") : p \in Posted' <=> p \in Posted
  <2> SUFFICES ASSUME NEW p \in CallsOf("one")
               PROVE  (p[2] <= Begun(p[1])' /\ ~ (p[2] = Begun(p[1])' /\ pc'[p[1]] \in Posting)) <=>
                      (p[2] <= Begun(p[1]) /\ ~ (p[2] = Begun(p[1]) /\ pc[p[1]] \in Posting))
    BY <1>2 DEF Posted
  <2>1. CASE p[1] # t
    BY <1>1, <1>3, <2>1
  <2>2. CASE p[1] = t
    <3>1. p[2] \in Nat /\ scenario[t][p[2]] = "one" /\ Begun(t) \in Nat /\ n = Begun(t) + 1
      BY <1>1, <1>3, <2>2 DEF n
    <3>2. p[2] = n => pc'[t] \in Posting
      BY <1>1, <3>1
    <3>3. pc[t] \notin Posting
      BY <1>1 DEF Posting
    <3> QED BY <1>1, <2>2, <3>1, <3>2, <3>3
  <2> QED BY <2>1, <2>2
<1>5. \A p \in CallsOf("wait") : p \in Taken' <=> p \in Taken
  <2> SUFFICES ASSUME NEW p \in CallsOf("wait")
               PROVE  (p[2] <= Begun(p[1])' /\ ~ (p[2] = Begun(p[1])' /\ pc'[p[1]] \in WaitLabels)) <=>
                      (p[2] <= Begun(p[1]) /\ ~ (p[2] = Begun(p[1]) /\ pc[p[1]] \in WaitLabels))
    BY <1>2 DEF Taken
  <2>1. CASE p[1] # t
    BY <1>1, <1>3, <2>1
  <2>2. CASE p[1] = t
    <3>1. p[2] \in Nat /\ scenario[t][p[2]] = "wait" /\ Begun(t) \in Nat /\ n = Begun(t) + 1
      BY <1>1, <1>3, <2>2 DEF n
    <3>2. p[2] = n => pc'[t] \in WaitLabels
      BY <1>1, <3>1
    <3>3. pc[t] \notin WaitLabels
      BY <1>1 DEF WaitLabels
    <3> QED BY <1>1, <2>2, <3>1, <3>2, <3>3
  <2> QED BY <2>1, <2>2
<1>6. Posted' = Posted /\ Taken' = Taken
  <2>1. Posted \subseteq CallsOf("one") /\ Posted' \subseteq CallsOf("one")
    BY <1>2 DEF Posted
  <2>2. Taken \subseteq CallsOf("wait") /\ Taken' \subseteq CallsOf("wait")
    BY <1>2 DEF Taken
  <2> QED BY <1>4, <1>5, <2>1, <2>2
<1> QED BY <1>1, <1>6

\* A step inside an operation that neither posts nor consumes.
Quietly == /\ pending' = pending
           /\ \A u \in Threads : /\ pc'[u] \in WaitLabels <=> pc[u] \in WaitLabels
                                 /\ pc'[u] \in Posting <=> pc[u] \in Posting
                                 /\ pc'[u] \in {"all_lock", "all_post"} => pc[u] \in {"all_lock", "all_post"}

LEMMA InsideIsQuiet ==
    ASSUME TypeOK, NEW t \in Threads, Inside(t) \/ WaitSpurious(t)
    PROVE  Quietly \/ OnePost(t) \/ WaitConsume(t) \/ AllPost(t)
<1> USE DEF TypeOK, Goto, Quietly, WaitLabels, Posting
<1>1. CASE WaitLock(t) \/ WaitEmpty(t) \/ WaitSleep(t) \/ WaitRelock(t) \/ WaitSpurious(t) \/ Unlock(t)
  BY <1>1 DEF WaitLock, WaitEmpty, WaitSleep, WaitRelock, Lock, WaitSpurious, Unlock
<1>2. CASE OneLock(t) \/ AllLock(t)
  BY <1>2 DEF OneLock, AllLock, Lock
<1>3. CASE OneSignal(t)
  BY <1>3 DEF OneSignal, Asleep, At
<1>4. CASE AllBroadcast(t)
  BY <1>4 DEF AllBroadcast, Asleep, At
<1> QED BY <1>1, <1>2, <1>3, <1>4 DEF Inside, Wait, NotifyOne, NotifyAll

\* A thread that goes on in a call, or leaves it, has begun it still.
LEMMA ProgramStays ==
    ASSUME ProgramInv, UNCHANGED <<scenario, todo>>,
           \A u \in Threads : /\ pc'[u] \in WaitLabels => pc[u] \in WaitLabels
                              /\ pc'[u] \in Posting => pc[u] \in Posting
                              /\ pc'[u] \in {"all_lock", "all_post"} => pc[u] \in {"all_lock", "all_post"}
    PROVE  ProgramInv' /\ \A call : CallsOf(call)' = CallsOf(call)
<1>1. \A u : Begun(u)' = Begun(u)
  BY DEF Begun
<1>2. ASSUME NEW u \in Threads
      PROVE  /\ InCallOf(u, WaitLabels, "wait")'
             /\ InCallOf(u, Posting, "one")'
             /\ InCallOf(u, {"all_lock", "all_post"}, "all")'
  BY <1>1 DEF ProgramInv, InCallOf
<1> QED BY <1>1, <1>2 DEF ProgramInv, CallsOf

\* The call that posts, or consumes, is one more.
LEMMA PostCounts ==
    ASSUME TypeOK, ProgramInv, NEW t \in Threads, OnePost(t), UNCHANGED <<scenario, todo>>
    PROVE  /\ ProgramInv' /\ Taken' = Taken /\ CallsOf("all")' = CallsOf("all")
           /\ \E p \in CallsOf("one") \ Posted : Posted' = Posted \cup {p}
<1> DEFINE p == <<t, Begun(t)>>
<1>1. pc[t] = "one_post" /\ pc'[t] = "one_signal" /\ \A u \in Threads : u # t => pc'[u] = pc[u]
  BY DEF OnePost, Goto, TypeOK
<1>2. ProgramInv' /\ \A call : CallsOf(call)' = CallsOf(call)
  BY <1>1, ProgramStays DEF WaitLabels, Posting
<1>3. \A u : Begun(u)' = Begun(u)
  BY DEF Begun
<1>4. \A u \in Threads : Begun(u) \in Int /\ Len(scenario[u]) \in Nat /\ Begun(u) <= Len(scenario[u])
  BY ScenariosAssumption DEF ProgramInv, Begun
<1>5. \A c : \A q \in CallsOf(c) : q[1] \in Threads /\ q[2] \in Nat /\ q = <<q[1], q[2]>>
  BY CallsAreIn DEF CallsIn, ProgramInv
<1>6. p \in CallsOf("one") /\ p[1] = t /\ p[2] = Begun(t)
  <2>1. Begun(t) > 0 /\ scenario[t][Begun(t)] = "one"
    BY <1>1 DEF ProgramInv, InCallOf, Posting
  <2>2. Begun(t) \in 1 .. Len(scenario[t]) /\ p \in Threads \X Nat
    BY <1>4, <2>1
  <2> QED BY <2>1, <2>2, CallsAreIn DEF CallsIn, ProgramInv
<1>7. p \notin Posted
  BY <1>1, <1>6 DEF Posted, Posting
<1>8. Posted' = Posted \cup {p}
  <2>1. ASSUME NEW q \in CallsOf("one") PROVE q \in Posted' <=> q \in Posted \/ q = p
    <3>1. CASE q[1] # t
      BY <1>1, <1>2, <1>3, <1>5, <1>6, <2>1, <3>1 DEF Posted
    <3>2. CASE q[1] = t /\ q[2] # Begun(t)
      BY <1>1, <1>2, <1>3, <1>5, <1>6, <2>1, <3>2 DEF Posted
    <3>3. CASE q[1] = t /\ q[2] = Begun(t)
      <4>1. q = p
        BY <1>5, <2>1, <3>3
      <4>2. q[2] <= Begun(t)'
        BY <1>3, <1>4, <3>3
      <4>3. q \in Posted'
        BY <1>1, <1>2, <2>1, <3>3, <4>2 DEF Posted, Posting
      <4> QED BY <4>1, <4>3
    <3> QED BY <3>1, <3>2, <3>3
  <2>2. Posted \subseteq CallsOf("one") /\ Posted' \subseteq CallsOf("one")
    BY <1>2 DEF Posted
  <2> HIDE DEF p
  <2> QED BY <1>6, <2>1, <2>2
<1>9. Taken' = Taken
  <2>1. \A u \in Threads : pc'[u] \in WaitLabels <=> pc[u] \in WaitLabels
    BY <1>1 DEF WaitLabels
  <2> QED BY <1>2, <1>3, <1>5, <2>1 DEF Taken
<1> HIDE DEF p
<1> QED BY <1>2, <1>6, <1>7, <1>8, <1>9

LEMMA ConsumeCounts ==
    ASSUME TypeOK, ProgramInv, NEW t \in Threads, WaitConsume(t), UNCHANGED <<scenario, todo>>
    PROVE  /\ ProgramInv' /\ Posted' = Posted /\ CallsOf("all")' = CallsOf("all")
           /\ \E p \in CallsOf("wait") \ Taken : Taken' = Taken \cup {p}
<1> DEFINE p == <<t, Begun(t)>>
<1>1. pc[t] = "wait_test" /\ pc'[t] = "unlock" /\ \A u \in Threads : u # t => pc'[u] = pc[u]
  BY DEF WaitConsume, Goto, TypeOK
<1>2. ProgramInv' /\ \A call : CallsOf(call)' = CallsOf(call)
  BY <1>1, ProgramStays DEF WaitLabels, Posting
<1>3. \A u : Begun(u)' = Begun(u)
  BY DEF Begun
<1>4. \A u \in Threads : Begun(u) \in Int /\ Len(scenario[u]) \in Nat /\ Begun(u) <= Len(scenario[u])
  BY ScenariosAssumption DEF ProgramInv, Begun
<1>5. \A c : \A q \in CallsOf(c) : q[1] \in Threads /\ q[2] \in Nat /\ q = <<q[1], q[2]>>
  BY CallsAreIn DEF CallsIn, ProgramInv
<1>6. p \in CallsOf("wait") /\ p[1] = t /\ p[2] = Begun(t)
  <2>1. Begun(t) > 0 /\ scenario[t][Begun(t)] = "wait"
    BY <1>1 DEF ProgramInv, InCallOf, WaitLabels
  <2>2. Begun(t) \in 1 .. Len(scenario[t]) /\ p \in Threads \X Nat
    BY <1>4, <2>1
  <2> QED BY <2>1, <2>2, CallsAreIn DEF CallsIn, ProgramInv
<1>7. p \notin Taken
  BY <1>1, <1>6 DEF Taken, WaitLabels
<1>8. Taken' = Taken \cup {p}
  <2>1. ASSUME NEW q \in CallsOf("wait") PROVE q \in Taken' <=> q \in Taken \/ q = p
    <3>1. CASE q[1] # t
      BY <1>1, <1>2, <1>3, <1>5, <1>6, <2>1, <3>1 DEF Taken
    <3>2. CASE q[1] = t /\ q[2] # Begun(t)
      BY <1>1, <1>2, <1>3, <1>5, <1>6, <2>1, <3>2 DEF Taken
    <3>3. CASE q[1] = t /\ q[2] = Begun(t)
      <4>1. q = p
        BY <1>5, <2>1, <3>3
      <4>2. q[2] <= Begun(t)'
        BY <1>3, <1>4, <3>3
      <4>3. q \in Taken'
        BY <1>1, <1>2, <2>1, <3>3, <4>2 DEF Taken, WaitLabels
      <4> QED BY <4>1, <4>3
    <3> QED BY <3>1, <3>2, <3>3
  <2>2. Taken \subseteq CallsOf("wait") /\ Taken' \subseteq CallsOf("wait")
    BY <1>2 DEF Taken
  <2> HIDE DEF p
  <2> QED BY <1>6, <2>1, <2>2
<1>9. Posted' = Posted
  <2>1. \A u \in Threads : pc'[u] \in Posting <=> pc[u] \in Posting
    BY <1>1 DEF Posting
  <2> QED BY <1>2, <1>3, <1>5, <2>1 DEF Posted
<1> HIDE DEF p
<1> QED BY <1>2, <1>6, <1>7, <1>8, <1>9

\* A call of NotifyAll is one of the program's.
LEMMA BroadcastIsCalled ==
    ASSUME ProgramInv, NEW t \in Threads, pc[t] \in {"all_lock", "all_post"}
    PROVE  CallsOf("all") # {}
<1>1. Begun(t) > 0 /\ scenario[t][Begun(t)] = "all"
  BY DEF ProgramInv, InCallOf
<1>2. Begun(t) \in Int /\ Len(scenario[t]) \in Nat /\ Begun(t) <= Len(scenario[t])
  BY ScenariosAssumption DEF ProgramInv, Begun
<1>3. Begun(t) \in 1 .. Len(scenario[t]) /\ <<t, Begun(t)>> \in Threads \X Nat
  BY <1>1, <1>2
<1>4. <<t, Begun(t)>> \in CallsIn(scenario, "all")
  BY <1>1, <1>3 DEF CallsIn
<1> QED BY <1>4, CallsAreIn DEF ProgramInv

LEMMA QuietCounts ==
    ASSUME TokenInv, Quietly, UNCHANGED <<scenario, todo, cv>> PROVE TokenInv'
<1>1. ProgramInv' /\ CallsOf("all")' = CallsOf("all")
  BY ProgramStays DEF Quietly, TokenInv
<1>2. Posted' = Posted /\ Taken' = Taken
  BY SameTokens DEF Quietly
<1> QED BY <1>1, <1>2 DEF TokenInv, Quietly

\* Every step inside the condition variable keeps the count.
LEMMA RunCounts ==
    ASSUME FewCalls, TypeOK, TokenInv, NEW t \in Threads, Run(t) \/ Wakes(t)
    PROVE  TokenInv'
<1>1. UNCHANGED <<scenario, todo, cv>> /\ (Inside(t) \/ WaitSpurious(t)) /\ ProgramInv
  BY DEF Run, Wakes, testVars, TokenInv
<1>2. /\ IsFiniteSet(CallsOf("one")) /\ Posted \subseteq CallsOf("one") /\ IsFiniteSet(Posted) /\ IsFiniteSet(Taken)
      /\ Cardinality(Posted) \in Nat /\ Cardinality(Taken) \in Nat
      /\ Cardinality(CallsOf("one")) <= IntMax
  BY <1>1, TokensFinite
<1>3. pending \in Int32 /\ IntMax \in Nat
  BY WidthAssumption DEF TypeOK
<1>4. CASE Quietly
  BY <1>1, <1>4, QuietCounts
<1>5. CASE OnePost(t)
  <2>1. ProgramInv' /\ Taken' = Taken /\ CallsOf("all")' = CallsOf("all")
    BY <1>1, <1>5, PostCounts
  <2>2. PICK p \in CallsOf("one") \ Posted : Posted' = Posted \cup {p}
    BY <1>1, <1>5, PostCounts
  <2>3. Cardinality(Posted \cup {p}) = Cardinality(Posted) + 1 /\ Posted \cup {p} \in SUBSET CallsOf("one")
    BY <1>2, <2>2, FS_AddElement
  <2>4. Cardinality(Posted) + 1 <= Cardinality(CallsOf("one")) /\ Cardinality(CallsOf("one")) \in Nat
    BY <1>2, <2>3, FS_Subset, FS_CardinalityType
  <2>5. pending' = Inc(pending)
    BY <1>5 DEF OnePost
  <2>6. ASSUME cv # "crashed", CallsOf("all") = {}
        PROVE  pending' >= 0 /\ pending' = Cardinality(Posted)' - Cardinality(Taken)'
    <3>1. pending >= 0 /\ pending = Cardinality(Posted) - Cardinality(Taken)
      BY <2>6 DEF TokenInv
    <3>2. pending # IntMax
      BY <1>2, <1>3, <2>4, <3>1
    <3>3. pending' = pending + 1
      BY <2>5, <3>2 DEF Inc
    <3> QED BY <1>2, <2>1, <2>2, <2>3, <3>1, <3>3
  <2> QED BY <1>1, <2>1, <2>6 DEF TokenInv
<1>6. CASE WaitConsume(t)
  <2>1. ProgramInv' /\ Posted' = Posted /\ CallsOf("all")' = CallsOf("all")
    BY <1>1, <1>6, ConsumeCounts
  <2>2. PICK p \in CallsOf("wait") \ Taken : Taken' = Taken \cup {p}
    BY <1>1, <1>6, ConsumeCounts
  <2>3. Cardinality(Taken \cup {p}) = Cardinality(Taken) + 1
    BY <1>2, <2>2, FS_AddElement
  <2>4. pending' = Dec(pending) /\ pending # 0
    BY <1>6 DEF WaitConsume
  <2>5. ASSUME cv # "crashed", CallsOf("all") = {}
        PROVE  pending' >= 0 /\ pending' = Cardinality(Posted)' - Cardinality(Taken)'
    <3>1. pending >= 0 /\ pending = Cardinality(Posted) - Cardinality(Taken)
      BY <2>5 DEF TokenInv
    <3>2. pending # IntMin
      BY <1>2, <1>3, <3>1 DEF IntMin
    <3>3. pending' = pending - 1
      BY <2>4, <3>2 DEF Dec
    <3> QED BY <1>2, <2>1, <2>2, <2>3, <2>4, <3>1, <3>3
  <2> QED BY <1>1, <2>1, <2>5 DEF TokenInv
<1>7. CASE AllPost(t)
  <2>1. pc[t] = "all_post" /\ pc' = [pc EXCEPT ![t] = "all_broadcast"]
    BY <1>7 DEF AllPost, Goto
  <2>2. ProgramInv' /\ CallsOf("all")' = CallsOf("all")
    BY <1>1, <2>1, ProgramStays DEF WaitLabels, Posting, TypeOK
  <2>3. CallsOf("all") # {}
    BY <1>1, <2>1, BroadcastIsCalled
  <2> QED BY <2>2, <2>3 DEF TokenInv
<1> QED BY <1>1, <1>4, <1>5, <1>6, <1>7, InsideIsQuiet DEF TokenInv

LEMMA ThreadCounts ==
    ASSUME FewCalls, TypeOK, TokenInv, NEW t \in Threads, ThreadStep(t) PROVE TokenInv'
<1>1. ProgramInv
  BY DEF TokenInv
<1>2. ASSUME NEW call, Executes(t, call), pending' = pending,
             cv' # "crashed" => cv # "crashed",
             \A u \in Threads : u # t => pc'[u] = pc[u],
             call = "wait" <=> pc'[t] \in WaitLabels,
             call = "one" <=> pc'[t] \in Posting,
             pc'[t] \in {"all_lock", "all_post"} => call = "all"
      PROVE  TokenInv'
  <2>1. ProgramInv' /\ Posted' = Posted /\ Taken' = Taken /\ scenario' = scenario
    BY <1>1, <1>2, BeginsNone
  <2>2. CallsOf("all")' = CallsOf("all")
    BY <2>1 DEF CallsOf
  <2> QED BY <1>2, <2>1, <2>2 DEF TokenInv
<1>3. CASE Create(t) \/ CountOne(t) \/ JoinAll(t) \/ Free(t)
  <2>1. PICK call \in {"create", "count", "join", "free"} : Executes(t, call)
    BY <1>3 DEF Create, CountOne, JoinAll, Free
  <2>2. pc' = pc /\ pending' = pending /\ cv # "crashed" /\ pc[t] = "idle"
    BY <1>3 DEF Create, CountOne, JoinAll, Free, vars, Executes
  <2> QED BY <1>2, <2>1, <2>2 DEF TypeOK, WaitLabels, Posting
<1>4. CASE FollowsNull(t)
  <2>1. PICK call \in {"wait", "one", "all"} : Executes(t, call)
    BY <1>4 DEF FollowsNull
  <2>2. pc' = pc /\ pending' = pending /\ cv' = "crashed" /\ pc[t] = "idle"
    BY <1>4 DEF FollowsNull, vars, Executes
  <2>3. ProgramInv'
    BY <1>1, <2>1, <2>2, ProgramBegins DEF WaitLabels, Posting
  <2> QED BY <2>2, <2>3 DEF TokenInv
<1>5. CASE BeginWait(t)
  <2>1. Executes(t, "wait") /\ pending' = pending /\ cv' = cv /\ pc[t] = "idle" /\ pc' = [pc EXCEPT ![t] = "wait_lock"]
    BY <1>5 DEF BeginWait, Follows, CallWait, Goto
  <2> QED BY <1>2, <2>1, LabelFacts DEF TypeOK, WaitLabels, Posting
<1>6. CASE BeginNotifyOne(t)
  <2>1. Executes(t, "one") /\ pending' = pending /\ cv' = cv /\ pc[t] = "idle" /\ pc' = [pc EXCEPT ![t] = "one_lock"]
    BY <1>6 DEF BeginNotifyOne, Follows, CallNotifyOne, Goto
  <2> QED BY <1>2, <2>1, LabelFacts DEF TypeOK, WaitLabels, Posting
<1>7. CASE BeginNotifyAll(t)
  <2>1. Executes(t, "all") /\ pending' = pending /\ cv' = cv /\ pc[t] = "idle" /\ pc' = [pc EXCEPT ![t] = "all_lock"]
    BY <1>7 DEF BeginNotifyAll, Follows, CallNotifyAll, Goto
  <2> QED BY <1>2, <2>1, LabelFacts DEF TypeOK, WaitLabels, Posting
<1> QED BY <1>3, <1>4, <1>5, <1>6, <1>7, RunCounts DEF ThreadStep

\* Every token of a client has been posted by one call of NotifyOne and not yet
\* consumed by a Wait, at every moment, if the program has no broadcast and no
\* more calls of NotifyOne than an int can count.
THEOREM TokensCounted == ASSUME FewCalls PROVE TestSpec => []TokenInv
<1>1. TypeOK /\ TokenInv /\ [TestNext]_allVars => TokenInv'
  <2> SUFFICES ASSUME TypeOK, TokenInv, [TestNext]_allVars PROVE TokenInv'
    OBVIOUS
  <2>1. CASE UNCHANGED allVars
    <3>1. scenario' = scenario /\ todo' = todo /\ pc' = pc /\ pending' = pending /\ cv' = cv
      BY <2>1 DEF allVars, vars, testVars
    <3>2. Quietly
      BY <3>1 DEF Quietly
    <3> QED BY <3>1, <3>2, QuietCounts
  <2>2. ASSUME NEW t \in Threads, ThreadStep(t) PROVE TokenInv'
    BY <2>2, ThreadCounts
  <2>3. ASSUME NEW t \in Threads, Wakes(t) PROVE TokenInv'
    BY <2>3, RunCounts
  <2> QED BY <2>1, <2>2, <2>3 DEF TestNext, Over
<1> QED BY <1>1, TokenInvStarts, ClientsUseCondVar, TypeCorrect, PTL DEF TestSpec

LEMMA EmptyIsShort == Len(<<>>) = 0
OBVIOUS

\* A client that has finished finds its notifications accounted for: none was
\* lost to a race on the counter and none was consumed twice.
THEOREM TokensConservedAtEnd ==
    ASSUME FewCalls
    PROVE  TestSpec => [](cv # "crashed" /\ (\A t \in Threads : Finished(t)) => TokensConserved)
<1>1. ASSUME TokenInv, cv # "crashed", \A t \in Threads : Finished(t) PROVE TokensConserved
  <2> SUFFICES ASSUME CallsOf("all") = {}
               PROVE  pending = Cardinality(CallsOf("one")) - Cardinality(CallsOf("wait"))
    BY DEF TokensConserved
  <2>1. ProgramInv /\ pending = Cardinality(Posted) - Cardinality(Taken)
    BY <1>1 DEF TokenInv
  <2>2. \A t \in Threads : pc[t] = "idle" /\ Begun(t) = Len(scenario[t]) /\ Len(scenario[t]) \in Nat
    <3>1. \A t \in Threads : scenario[t] \in Seq(Calls)
      BY <2>1, ScenariosAssumption DEF ProgramInv
    <3>2. \A t \in Threads : Len(scenario[t]) \in Nat
      BY <3>1
    <3>0. \A t \in Threads : pc[t] = "idle" /\ todo[t] = <<>>
      BY <1>1 DEF Finished
    <3>3. \A t \in Threads : pc[t] = "idle" /\ Len(todo[t]) = 0
      BY <3>0, EmptyIsShort
    <3>4. \A t \in Threads : Begun(t) = Len(scenario[t])
      <4> TAKE t \in Threads
      <4>1. Len(todo[t]) = 0 /\ Len(scenario[t]) \in Int
        BY <3>2, <3>3
      <4>2. Len(scenario[t]) - 0 = Len(scenario[t])
        BY <4>1
      <4> QED BY <4>1, <4>2 DEF Begun
    <3> QED BY <3>2, <3>3, <3>4
  <2>3. \A c : \A p \in CallsOf(c) : p[1] \in Threads /\ p[2] \in 1 .. Len(scenario[p[1]])
    BY <2>1, CallsAreIn DEF CallsIn, ProgramInv
  <2>4. \A c : \A p \in CallsOf(c) : p[2] <= Begun(p[1]) /\ pc[p[1]] \notin Posting /\ pc[p[1]] \notin WaitLabels
    BY <2>2, <2>3 DEF Posting, WaitLabels
  <2>5. Posted = CallsOf("one") /\ Taken = CallsOf("wait")
    BY <2>4 DEF Posted, Taken
  <2> QED BY <2>1, <2>5
<1> QED BY <1>1, TokensCounted, PTL
=============================================================================
