------------------------------ MODULE TokenBox ------------------------------
(***************************************************************************)
(* What the condition variable of CCBasicCore promises, with no mutex and  *)
(* no sleeping: notifications are tokens in a box, NotifyOne adds one,     *)
(* NotifyAll refills the box and Wait takes one, each at an instant        *)
(* between its call and its return.                                        *)
(***************************************************************************)
EXTENDS Integers

CONSTANTS Threads,
          IntMax      \* the box counts in a C int

VARIABLES tokens,     \* notifications nobody has consumed
          phase       \* what each thread has asked for and not yet got

boxVars == <<tokens, phase>>

Wrap(n) == CASE n > IntMax       -> -IntMax - 1
             [] n < -IntMax - 1  -> IntMax
             [] OTHER            -> n

Init == /\ tokens = 0
        /\ phase = [t \in Threads |-> "out"]

Ask(t, request) == /\ phase[t] = "out"
                   /\ phase' = [phase EXCEPT ![t] = request]
                   /\ UNCHANGED tokens

Serve(t, request) == /\ phase[t] = request
                     /\ phase' = [phase EXCEPT ![t] = "out"]

Take(t)  == Serve(t, "waiting")  /\ tokens # 0 /\ tokens' = Wrap(tokens - 1)
Post(t)  == Serve(t, "posting")  /\ tokens' = Wrap(tokens + 1)
Flood(t) == Serve(t, "flooding") /\ tokens' = IntMax \div 2

TakeOne == \E t \in Threads : Take(t)

Next == \E t \in Threads :
            \/ \E request \in {"waiting", "posting", "flooding"} : Ask(t, request)
            \/ Take(t) \/ Post(t) \/ Flood(t)

Spec == Init /\ [][Next]_boxVars

\* A notifier is never blocked for good, and while a token is in the box and
\* somebody waits, some waiter eventually takes one.
Fairness == /\ WF_boxVars(TakeOne)
            /\ \A t \in Threads : WF_boxVars(Post(t) \/ Flood(t))

FairSpec == Spec /\ Fairness
=============================================================================
