---------------------------- MODULE CondVarTest ----------------------------
(***************************************************************************)
(* The way test/thread/test_condvar.c and example/thread/mutex_example.c   *)
(* use one condition variable: worker threads Wait and count, the main     *)
(* thread notifies, joins the workers and frees the condition variable,    *)
(* which it creates before it starts them, or, in the example, after.      *)
(* Each thread runs a program, a sequence of calls; Scenarios holds the    *)
(* clients, one program per thread.                                        *)
(***************************************************************************)
EXTENDS CondVar, Sequences

CONSTANTS Scenarios,     \* a set of functions from Threads to programs
          MaxSpurious    \* bound on the wakeups no notification explains

Calls == {"create", "wait", "count", "one", "all", "join", "free"}

ASSUME ScenariosAssumption == Scenarios \subseteq [Threads -> Seq(Calls)]

VARIABLES scenario,  \* the test that runs
          todo,      \* what is left of each thread's program
          served,    \* stress_counter / g_counter
          cv,        \* the client's pointer: "null", "live" or "freed";
                     \* "crashed" once a call has followed it as NULL
          spurious   \* spurious wakeups so far

testVars == <<scenario, todo, served, cv, spurious>>
allVars  == <<vars, testVars>>

\* The condition variable is created by a thread that has started others.
CreatesLate == \E t \in Threads : \E i \in DOMAIN scenario[t] : scenario[t][i] = "create"

TestInit == /\ Init
            /\ scenario \in Scenarios
            /\ todo = scenario
            /\ served = 0
            /\ cv = IF CreatesLate THEN "null" ELSE "live"
            /\ spurious = 0

\* Thread t executes the next call of its program, which is `call'.
Executes(t, call) == /\ pc[t] = "idle" /\ cv # "crashed"
                     /\ todo[t] # <<>>
                     /\ Head(todo[t]) = call
                     /\ todo' = [todo EXCEPT ![t] = Tail(@)]
                     /\ UNCHANGED <<scenario, spurious>>

Finished(t) == pc[t] = "idle" /\ todo[t] = <<>>

-----------------------------------------------------------------------------
\* g_cv is assigned.
Create(t) == Executes(t, "create") /\ cv' = "live" /\ UNCHANGED <<vars, served>>

\* Wait, NotifyOne and NotifyAll begin by reading impl->impl.
Follows == cv # "null" /\ UNCHANGED <<served, cv>>

BeginWait(t)      == Executes(t, "wait") /\ Follows /\ CallWait(t)
BeginNotifyOne(t) == Executes(t, "one")  /\ Follows /\ CallNotifyOne(t)
BeginNotifyAll(t) == Executes(t, "all")  /\ Follows /\ CallNotifyAll(t)

FollowsNull(t) == /\ \E call \in {"wait", "one", "all"} : Executes(t, call)
                  /\ cv = "null" /\ cv' = "crashed"
                  /\ UNCHANGED <<vars, served>>

\* __sync_fetch_and_add, after Wait has returned.
CountOne(t) == /\ Executes(t, "count")
               /\ served' = served + 1
               /\ UNCHANGED <<vars, cv>>

JoinNobody(t) == /\ Executes(t, "join")
                 /\ UNCHANGED <<vars, served, cv>>

\* The loop of pthread_join over every other thread.
JoinAll(t) == /\ Executes(t, "join")
              /\ \A u \in Threads \ {t} : Finished(u)
              /\ UNCHANGED <<vars, served, cv>>

\* Destroys the mutex and the condition and frees both structs.
Free(t) == /\ Executes(t, "free")
           /\ cv' = "freed"
           /\ UNCHANGED <<vars, served>>

Run(t) == cv # "crashed" /\ Inside(t) /\ UNCHANGED testVars

Wakes(t) == /\ cv # "crashed" /\ spurious < MaxSpurious
            /\ WaitSpurious(t)
            /\ spurious' = spurious + 1
            /\ UNCHANGED <<scenario, todo, served, cv>>

ThreadStep(t) == \/ Create(t) \/ FollowsNull(t)
                 \/ BeginWait(t) \/ BeginNotifyOne(t) \/ BeginNotifyAll(t)
                 \/ CountOne(t) \/ JoinAll(t) \/ Free(t)
                 \/ Run(t)

\* A client that is over, or has crashed, stays so.
Over == (cv = "crashed" \/ \A t \in Threads : Finished(t)) /\ UNCHANGED allVars

TestNext == (\E t \in Threads : ThreadStep(t) \/ Wakes(t)) \/ Over

\* The scheduler runs every thread that can run.  Programs are finite, so a
\* thread that wants the mutex is not overtaken for ever.
TestSpec == /\ TestInit /\ [][TestNext]_allVars
            /\ \A t \in Threads : WF_allVars(ThreadStep(t))

-----------------------------------------------------------------------------
(* Properties                                                               *)

Touches(t) == pc[t] # "idle" \/ \E i \in DOMAIN todo[t] : todo[t][i] \in {"wait", "one", "all"}

\* Nobody is inside an operation, asleep on the condition or going to call
\* one when its mutex and condition have been destroyed.
NoUseAfterFree == cv = "freed" => \A t \in Threads : ~Touches(t)

CallsOf(call) == UNION {{<<t, i>> : i \in {j \in DOMAIN scenario[t] : scenario[t][j] = call}} :
                            t \in Threads}

\* Expected = Actual: no notification was lost to a race on the counter and none
\* was consumed twice.  A broadcast leaves an arbitrary number of them.
TokensConserved ==
    CallsOf("all") = {} => pending = Cardinality(CallsOf("one")) - Cardinality(CallsOf("wait"))

\* Every client finishes, its notifications accounted for: with at least one per
\* Wait, and tokens kept for waiters that arrive late, every worker returns, is
\* joined, and the condition variable is freed.  The one client that may crash
\* before is the example that starts its worker first.
AllFinish == <>(\/ (\A t \in Threads : Finished(t)) /\ TokensConserved
                \/ CreatesLate /\ cv = "crashed")

\* As long as a token is unclaimed and somebody waits, some Wait returns; a
\* notifier always returns.
ImplementsFairBox == Box!FairSpec
=============================================================================
