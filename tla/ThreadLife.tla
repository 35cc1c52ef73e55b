----------------------------- MODULE ThreadLife -----------------------------
(***************************************************************************)
(* The life of a CCThread (thread.c over posix_thread_bkend.c): the        *)
(* handle, the `joinable' flag that shadows the state of the native thread,*)
(* the private copy of the task's arguments, and the native thread itself. *)
(* Each handle is operated by one actor, its owner: main, or the task of   *)
(* another handle.  The flag is tested before the pthread call it guards   *)
(* and written after it, and the native thread runs meanwhile.             *)
(***************************************************************************)
EXTENDS Naturals

CONSTANTS main,       \* the initial thread
          Handles,    \* the CCThreads, and the tasks they run
          Owner,      \* the actor that creates and operates each handle
          MaxCalls    \* bound on the calls made on one handle

Actors == {main} \cup Handles

\* A task cannot operate its own handle before the handle exists, so owners
\* are other actors.
ASSUME OwnerAssumption ==
    /\ main \notin Handles
    /\ Owner \in [Handles -> Actors]
    /\ \A h \in Handles : Owner[h] # h
    /\ MaxCalls \in Nat

VARIABLES handle,    \* CCThread and CCThreadImpl: "none", "live" or "freed"
          joinable,  \* impl->joinable
          blocks,    \* heap blocks allocated for the handle and not freed
          native,    \* the pthread: "none", "running", "exited", "reaped"
          detached,  \* the pthread is detached
          pc,        \* where each actor is in a call
          call,      \* the call each actor makes, and on which handle
          joined,    \* JoinThread has returned SUCCESS on the handle
          calls      \* calls made on each handle

vars == <<handle, joinable, blocks, native, detached, pc, call, joined, calls>>

threadVars == <<handle, joinable, blocks, native, detached>>

\* What a creation allocates: both structs and the copy of the arguments.
CreationBlocks == {"thread", "impl", "args"}

NoCall == [op |-> "none"]

Init == /\ handle   = [h \in Handles |-> "none"]
        /\ joinable = [h \in Handles |-> FALSE]
        /\ blocks   = [h \in Handles |-> {}]
        /\ native   = [h \in Handles |-> "none"]
        /\ detached = [h \in Handles |-> FALSE]
        /\ pc       = [a \in Actors |-> "idle"]
        /\ call     = [a \in Actors |-> NoCall]
        /\ joined   = [h \in Handles |-> FALSE]
        /\ calls    = [h \in Handles |-> 0]

\* main runs throughout, a task while its native thread does.
Runs(a) == a \in Handles => native[a] = "running"

\* Actor a, outside any call, uses the API on a handle it owns.
Uses(a, h) == /\ a = Owner[h] /\ Runs(a) /\ pc[a] = "idle"
              /\ calls[h] < MaxCalls
              /\ calls' = [calls EXCEPT ![h] = @ + 1]

-----------------------------------------------------------------------------
\* CCBasicCore_CreateThread with a task.  The arguments are copied before the
\* native thread starts ...
Create(a, h) == /\ Uses(a, h)
                /\ handle[h] = "none"
                /\ handle'   = [handle EXCEPT ![h] = "live"]
                /\ blocks'   = [blocks EXCEPT ![h] = CreationBlocks]
                /\ joinable' = [joinable EXCEPT ![h] = TRUE]
                /\ native'   = [native EXCEPT ![h] = "running"]
                /\ UNCHANGED <<detached, pc, call, joined>>

CreateFailsKeepsArgs(a, h) ==
    /\ Uses(a, h)
    /\ handle[h] = "none"
    /\ blocks' = [blocks EXCEPT ![h] = ((@ \cup CreationBlocks) \ {"impl"}) \ {"thread"}]
    /\ UNCHANGED <<handle, joinable, native, detached, pc, call, joined>>

\* ... and all that was allocated is given back when pthread_create fails, the
\* copy and the inner struct first: NULL is returned and the caller may try
\* again.
CreateFails(a, h) ==
    /\ Uses(a, h)
    /\ handle[h] = "none"
    /\ blocks' = [blocks EXCEPT ![h] = ((@ \cup CreationBlocks) \ {"args", "impl"}) \ {"thread"}]
    /\ UNCHANGED <<handle, joinable, native, detached, pc, call, joined>>

\* JoinThread, DetachThread and Release start by testing the flag.
Begin(a, op, h) == /\ Uses(a, h)
                   /\ handle[h] = "live"
                   /\ pc' = [pc EXCEPT ![a] = "test"]
                   /\ call' = [call EXCEPT ![a] = [op |-> op, h |-> h]]
                   /\ UNCHANGED <<threadVars, joined>>

Op(a)     == call[a].op
Target(a) == call[a].h

Goto(a, from, to) == pc[a] = from /\ pc' = [pc EXCEPT ![a] = to] /\ UNCHANGED call
Return(a, from)   == /\ pc[a] = from
                     /\ pc' = [pc EXCEPT ![a] = "idle"]
                     /\ call' = [call EXCEPT ![a] = NoCall]

\* Release goes straight to free.
TestJoinableNoWait(a) ==
    /\ pc[a] = "test"
    /\ joinable[Target(a)]
    /\ Goto(a, "test", CASE Op(a) = "detach" -> "detach" [] Op(a) = "join" -> "join"
                          [] OTHER -> "free")
    /\ UNCHANGED <<threadVars, joined, calls>>

TestJoinable(a) ==
    /\ pc[a] = "test"
    /\ joinable[Target(a)]
    /\ Goto(a, "test", IF Op(a) = "detach" THEN "detach" ELSE "join")
    /\ UNCHANGED <<threadVars, joined, calls>>

\* CCBasicCore_ThreadUnJoinable; Release goes on to free.
TestUnjoinable(a) ==
    /\ pc[a] = "test"
    /\ ~joinable[Target(a)]
    /\ IF Op(a) = "release" THEN Goto(a, "test", "free") ELSE Return(a, "test")
    /\ UNCHANGED <<threadVars, joined, calls>>

\* pthread_join blocks until the native thread has exited, and reaps it.
PthreadJoin(a) ==
    /\ pc[a] = "join"
    /\ native[Target(a)] = "exited"
    /\ native' = [native EXCEPT ![Target(a)] = "reaped"]
    /\ Goto(a, "join", "joined")
    /\ UNCHANGED <<handle, joinable, blocks, detached, joined, calls>>

ClearAfterJoinForgotten(a) ==
    /\ pc[a] = "joined"
    /\ IF Op(a) = "release"
       THEN Goto(a, "joined", "free") /\ UNCHANGED joined
       ELSE Return(a, "joined") /\ joined' = [joined EXCEPT ![Target(a)] = TRUE]
    /\ UNCHANGED <<threadVars, calls>>

\* if (!result) joinable = 0: the join has succeeded.
ClearAfterJoin(a) ==
    /\ pc[a] = "joined"
    /\ joinable' = [joinable EXCEPT ![Target(a)] = FALSE]
    /\ IF Op(a) = "release"
       THEN Goto(a, "joined", "free") /\ UNCHANGED joined
       ELSE Return(a, "joined") /\ joined' = [joined EXCEPT ![Target(a)] = TRUE]
    /\ UNCHANGED <<handle, blocks, native, detached, calls>>

\* pthread_detach; the system reaps the thread now or when it exits.
PthreadDetach(a) ==
    /\ pc[a] = "detach"
    /\ detached' = [detached EXCEPT ![Target(a)] = TRUE]
    /\ native' = [native EXCEPT ![Target(a)] = IF @ = "exited" THEN "reaped" ELSE @]
    /\ Goto(a, "detach", "detached")
    /\ UNCHANGED <<handle, joinable, blocks, joined, calls>>

ClearAfterDetachForgotten(a) == Return(a, "detached") /\ UNCHANGED <<threadVars, joined, calls>>

ClearAfterDetach(a) ==
    /\ Return(a, "detached")
    /\ joinable' = [joinable EXCEPT ![Target(a)] = FALSE]
    /\ UNCHANGED <<handle, blocks, native, detached, joined, calls>>

\* "OK, release the sources": the argument copy and both structs.
FreeSources(a) ==
    /\ Return(a, "free")
    /\ blocks' = [blocks EXCEPT ![Target(a)] = @ \ CreationBlocks]
    /\ handle' = [handle EXCEPT ![Target(a)] = "freed"]
    /\ UNCHANGED <<joinable, native, detached, joined, calls>>

\* The task returns; it is in no call of its own then.
TaskExits(h) ==
    /\ native[h] = "running"
    /\ pc[h] = "idle"
    /\ native' = [native EXCEPT ![h] = IF detached[h] THEN "reaped" ELSE "exited"]
    /\ UNCHANGED <<handle, joinable, blocks, detached, pc, call, joined, calls>>

-----------------------------------------------------------------------------
\* The rest of a call that has begun.
InCall(a) == \/ TestJoinable(a) \/ TestUnjoinable(a) \/ PthreadJoin(a) \/ ClearAfterJoin(a)
             \/ PthreadDetach(a) \/ ClearAfterDetach(a) \/ FreeSources(a)

\* Owners may simply stop.
AllQuiet == \A a \in Actors : pc[a] = "idle" /\ (a # main => native[a] # "running")
Quiet    == AllQuiet /\ UNCHANGED vars

Next == \/ \E a \in Actors, h \in Handles :
              \/ Create(a, h)
              \/ CreateFails(a, h)
              \/ \E op \in {"join", "detach", "release"} : Begin(a, op, h)
        \/ \E a \in Actors : InCall(a)
        \/ \E h \in Handles : TaskExits(h)
        \/ Quiet

\* Calls go on when they can, and tasks return.
Spec == /\ Init /\ [][Next]_vars
        /\ \A a \in Actors : WF_vars(InCall(a))
        /\ \A h \in Handles : WF_vars(TaskExits(h))

-----------------------------------------------------------------------------
(* Properties                                                               *)

On(a, labels, h) == pc[a] \in labels /\ call[a].h = h

\* The flag is a faithful shadow of the native thread for its one owner: it is
\* set exactly while the thread is neither joined nor detached, except between
\* the pthread call and the assignment that follows it.
FlagMatchesThread ==
    \A h \in Handles : handle[h] = "live" =>
        (joinable[h] <=> \/ native[h] \in {"running", "exited"} /\ ~detached[h]
                         \/ On(Owner[h], {"joined", "detached"}, h))

\* No call of the API reaches pthread_join or pthread_detach on a thread that
\* is already joined or detached, whose handle POSIX leaves undefined, nor
\* works on a freed struct: double joins, join after detach and release after
\* either are caught by the flag.
NoUndefinedCall ==
    \A a \in Actors : pc[a] # "idle" =>
        /\ handle[Target(a)] = "live"
        /\ pc[a] \in {"join", "detach"} =>
              native[Target(a)] \in {"running", "exited"} /\ ~detached[Target(a)]

\* The task's arguments are never freed under a running task, except when the
\* thread was detached: Release after DetachThread does not wait for the task
\* and frees the copy the task is reading.
ArgsOutliveTask ==
    \A h \in Handles : "args" \notin blocks[h] /\ native[h] = "running" => detached[h]

\* A Join that returned SUCCESS has seen the task finish.
JoinMeansExited == \A h \in Handles : joined[h] => native[h] = "reaped"

\* What a creation allocates is there as long as the handle is, and nothing of
\* it before and after: a creation that fails and Release give everything back.
\* Release leaves no thread behind that was neither joined nor detached.
ReleaseComplete ==
    \A h \in Handles : /\ blocks[h] = IF handle[h] = "live" THEN CreationBlocks ELSE {}
                       /\ handle[h] = "freed" => native[h] = "reaped" \/ detached[h]

\* Every Join, Detach and Release returns, whoever waits for whom.
CallsReturn == \A a \in Actors : pc[a] # "idle" ~> pc[a] = "idle"
=============================================================================
