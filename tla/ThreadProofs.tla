---------------------------- MODULE ThreadProofs ----------------------------
(***************************************************************************)
(* Proofs about ThreadLife, for any number of handles and any ownership of *)
(* them by main and by tasks.                                              *)
(***************************************************************************)
EXTENDS ThreadLife, TLAPS

CallLabels == {"test", "join", "joined", "detach", "detached", "free"}

Calls == [op : {"join", "detach", "release"}, h : Handles]

\* Where the owner of h is in a call on h.
Stage(h) == IF call[Owner[h]].h = h THEN pc[Owner[h]] ELSE "idle"

\* The thread can still be joined or detached.
Open(h) == native[h] \in {"running", "exited"} /\ ~detached[h]

ThreadTypes ==
    /\ handle \in [Handles -> {"none", "live", "freed"}]
    /\ joinable \in [Handles -> BOOLEAN]
    /\ blocks \in [Handles -> SUBSET CreationBlocks]
    /\ native \in [Handles -> {"none", "running", "exited", "reaped"}]
    /\ detached \in [Handles -> BOOLEAN]
    /\ pc \in [Actors -> CallLabels \cup {"idle"}]
    /\ call \in [Actors -> {NoCall} \cup Calls]
    /\ joined \in [Handles -> BOOLEAN]

\* An actor is in one call at a time, on a handle of its own, at a label of
\* that call.
CallInv(a) ==
    IF pc[a] = "idle" THEN call[a] = NoCall
    ELSE /\ call[a] \in Calls
         /\ Owner[Target(a)] = a
         /\ pc[a] \in {"join", "joined"}     => Op(a) \in {"join", "release"}
         /\ pc[a] \in {"detach", "detached"} => Op(a) = "detach"
         /\ pc[a] = "free"                   => Op(a) = "release"

\* The flag, the native thread and the stage of the owner's call on a handle
\* agree.
Agree(h) ==
    /\ Stage(h) \in {"idle", "test"}   => (joinable[h] <=> Open(h))
    /\ Stage(h) \in {"join", "detach"} => joinable[h] /\ Open(h)
    /\ Stage(h) = "joined"             => joinable[h] /\ native[h] = "reaped"
    /\ Stage(h) = "detached"           => joinable[h] /\ detached[h]
    /\ Stage(h) = "free"               => ~joinable[h] /\ ~Open(h)

HandleInv(h) ==
    /\ handle[h] = "none"  => blocks[h] = {} /\ native[h] = "none"
    /\ handle[h] = "live"  => blocks[h] = CreationBlocks /\ native[h] # "none"
    /\ handle[h] = "freed" => blocks[h] = {} /\ native[h] # "none"
    /\ handle[h] # "live"  => Stage(h) = "idle" /\ ~Open(h)
    /\ detached[h]         => native[h] \in {"running", "reaped"}
    /\ joined[h]           => native[h] = "reaped"
    /\ Agree(h)

ThreadInv == /\ ThreadTypes
             /\ \A a \in Actors : CallInv(a)
             /\ \A h \in Handles : HandleInv(h)

-----------------------------------------------------------------------------
LEMMA InitThread == Init => ThreadInv
<1> SUFFICES ASSUME Init PROVE ThreadInv
  OBVIOUS
<1>1. ThreadTypes
  BY DEF Init, ThreadTypes
<1>2. \A a \in Actors : CallInv(a)
  BY DEF Init, CallInv
<1>3. \A h \in Handles : Owner[h] \in Actors /\ Stage(h) = "idle"
  BY OwnerAssumption DEF Init, Stage
<1>4. \A h \in Handles : HandleInv(h)
  BY <1>3 DEF Init, HandleInv, Agree, Open
<1> QED BY <1>1, <1>2, <1>4 DEF ThreadInv

\* An action of a inside its call moves a only, at a handle that only a owns:
\* the stages of the other handles stay.
LEMMA OtherStages ==
    ASSUME ThreadInv, NEW a \in Actors, pc[a] # "idle", NEW g, g = Target(a), NEW l,
           pc' = [pc EXCEPT ![a] = l],
           \/ call' = call
           \/ call' = [call EXCEPT ![a] = NoCall] /\ l = "idle"
    PROVE  /\ g \in Handles /\ Owner[g] = a
           /\ Stage(g) = pc[a] /\ Stage(g)' = l
           /\ \A h \in Handles : h # g => Stage(h)' = Stage(h)
           /\ \A b \in Actors : b # a => CallInv(b)'
<1>1. /\ pc \in [Actors -> CallLabels \cup {"idle"}]
      /\ call \in [Actors -> {NoCall} \cup Calls]
      /\ \A b \in Actors : CallInv(b)
      /\ \A h \in Handles : Owner[h] \in Actors
  BY OwnerAssumption DEF ThreadInv, ThreadTypes
<1>2. call[a] \in Calls /\ g \in Handles /\ Owner[g] = a /\ call[a].h = g
  BY <1>1 DEF CallInv, Target, Calls
<1>3. \A b \in Actors : b # a => pc'[b] = pc[b] /\ call'[b] = call[b]
  BY <1>1
<1>4. pc'[a] = l
  BY <1>1
<1>5. \A b \in Actors : b # a => CallInv(b)'
  BY <1>1, <1>3 DEF CallInv, Target, Op
<1>6. ASSUME NEW h \in Handles, h # g PROVE Stage(h)' = Stage(h)
  <2>1. CASE Owner[h] = a
    <3>1. Stage(h) = "idle"
      BY <1>2, <1>6, <2>1 DEF Stage
    <3>2. Stage(h)' = "idle"
      <4>1. CASE call' = call
        BY <1>2, <1>6, <2>1, <4>1 DEF Stage
      <4>2. CASE l = "idle"
        BY <1>4, <2>1, <4>2 DEF Stage
      <4> QED BY <4>1, <4>2
    <3> QED BY <3>1, <3>2
  <2>2. CASE Owner[h] # a
    BY <1>1, <1>3, <2>2 DEF Stage
  <2> QED BY <2>1, <2>2
<1>7. Stage(g) = pc[a]
  BY <1>2 DEF Stage
<1>8. Stage(g)' = l
  BY <1>2, <1>4 DEF Stage
<1> QED BY <1>2, <1>5, <1>6, <1>7, <1>8

\* A handle none of whose variables a step touches.
LEMMA HandleKept ==
    ASSUME NEW h \in Handles, HandleInv(h), Stage(h)' = Stage(h),
           handle'[h] = handle[h], joinable'[h] = joinable[h], blocks'[h] = blocks[h],
           native'[h] = native[h], detached'[h] = detached[h], joined'[h] = joined[h]
    PROVE  HandleInv(h)'
  BY DEF HandleInv, Agree, Open

\* So a step of a call needs to be followed at its own actor and handle only.
LEMMA CallStep ==
    ASSUME ThreadInv, ThreadTypes', NEW a \in Actors, pc[a] # "idle", NEW g, g = Target(a), NEW l,
           pc' = [pc EXCEPT ![a] = l],
           \/ call' = call
           \/ call' = [call EXCEPT ![a] = NoCall] /\ l = "idle",
           \A h \in Handles : h # g => /\ handle'[h] = handle[h] /\ joinable'[h] = joinable[h]
                                       /\ blocks'[h] = blocks[h] /\ native'[h] = native[h]
                                       /\ detached'[h] = detached[h] /\ joined'[h] = joined[h],
           CallInv(a)', HandleInv(g)'
    PROVE  ThreadInv'
<1>1. ASSUME NEW h \in Handles, h # g PROVE HandleInv(h)'
  <2>1. Stage(h)' = Stage(h)
    <3>1. \A k \in Handles : k # g => Stage(k)' = Stage(k)
      BY ONLY ThreadInv, a \in Actors, pc[a] # "idle", g = Target(a), pc' = [pc EXCEPT ![a] = l],
         (\/ call' = call
          \/ call' = [call EXCEPT ![a] = NoCall] /\ l = "idle"), OtherStages
    <3> QED BY <1>1, <3>1
  <2>2. HandleInv(h)
    BY DEF ThreadInv
  <2> QED BY <1>1, <2>1, <2>2, HandleKept
<1>2. \A b \in Actors : b # a => CallInv(b)'
  BY OtherStages
<1> QED BY <1>1, <1>2 DEF ThreadInv

\* The parts of the invariant that the step of a call on g uses.
LEMMA AtCall ==
    ASSUME ThreadInv, NEW a \in Actors, pc[a] # "idle", NEW g, g = Target(a)
    PROVE  /\ g \in Handles /\ call[a] \in Calls /\ ThreadTypes
           /\ Stage(g) = pc[a] /\ HandleInv(g) /\ CallInv(a)
           /\ handle[g] = "live"
<1>1. CallInv(a) /\ ThreadTypes
  BY DEF ThreadInv
<1>2. g \in Handles /\ call[a] \in Calls /\ Owner[g] = a /\ call[a].h = g
  BY <1>1 DEF CallInv, Target, Calls
<1>3. Stage(g) = pc[a]
  BY <1>2 DEF Stage
<1>4. HandleInv(g)
  BY <1>2 DEF ThreadInv
<1>5. handle[g] = "live"
  BY <1>3, <1>4 DEF HandleInv
<1> QED BY <1>1, <1>2, <1>3, <1>4, <1>5

-----------------------------------------------------------------------------
LEMMA TestKeeps ==
    ASSUME ThreadInv, NEW a \in Actors, NEW g, g = Target(a),
           TestJoinable(a) \/ TestUnjoinable(a)
    PROVE  ThreadInv'
<1>1. pc[a] = "test" /\ UNCHANGED <<threadVars, joined>>
  BY DEF TestJoinable, TestUnjoinable
<1>2. /\ g \in Handles /\ call[a] \in Calls /\ ThreadTypes
      /\ Stage(g) = "test" /\ HandleInv(g) /\ CallInv(a) /\ handle[g] = "live"
  BY <1>1, AtCall
<1>3. PICK l \in {"idle", "join", "detach", "free"} :
         /\ pc' = [pc EXCEPT ![a] = l]
         /\ \/ call' = call /\ l # "idle"
            \/ call' = [call EXCEPT ![a] = NoCall] /\ l = "idle"
         /\ l = "idle" => ~joinable[g]
         /\ l = "join" => joinable[g] /\ Op(a) \in {"join", "release"}
         /\ l = "detach" => joinable[g] /\ Op(a) = "detach"
         /\ l = "free" => ~joinable[g] /\ Op(a) = "release"
  <2>1. Op(a) \in {"join", "detach", "release"}
    BY <1>2 DEF Calls, Op
  <2>2. CASE TestJoinable(a)
    BY <2>1, <2>2 DEF TestJoinable, Goto
  <2>3. CASE TestUnjoinable(a)
    BY <2>1, <2>3 DEF TestUnjoinable, Goto, Return
  <2> QED BY <2>2, <2>3
<1>4. Stage(g)' = l
  BY <1>1, <1>3, OtherStages
<1>5. HandleInv(g)'
  BY <1>1, <1>2, <1>3, <1>4 DEF HandleInv, Agree, Open, threadVars
<1>6. CallInv(a)'
  <2>1. pc'[a] = l /\ Owner[Target(a)] = a
    BY <1>1, <1>2, <1>3 DEF CallInv, ThreadTypes
  <2>2. CASE l = "idle"
    BY <1>2, <1>3, <2>1, <2>2 DEF CallInv, ThreadTypes
  <2>3. CASE call' = call /\ l # "idle"
    BY <1>2, <1>3, <2>1, <2>3 DEF CallInv, Target, Op
  <2> QED BY <1>3, <2>2, <2>3
<1>7. ThreadTypes'
  BY <1>1, <1>2, <1>3 DEF ThreadTypes, threadVars, CallLabels
<1>8. \A h \in Handles : /\ handle'[h] = handle[h] /\ joinable'[h] = joinable[h]
                         /\ blocks'[h] = blocks[h] /\ native'[h] = native[h]
                         /\ detached'[h] = detached[h] /\ joined'[h] = joined[h]
  BY <1>1 DEF threadVars
<1> QED BY <1>1, <1>3, <1>5, <1>6, <1>7, <1>8, CallStep

LEMMA JoinKeeps ==
    ASSUME ThreadInv, NEW a \in Actors, NEW g, g = Target(a), PthreadJoin(a) PROVE ThreadInv'
<1>1. /\ pc[a] = "join" /\ pc' = [pc EXCEPT ![a] = "joined"]
      /\ native' = [native EXCEPT ![g] = "reaped"]
      /\ UNCHANGED <<handle, joinable, blocks, detached, joined, call>>
  BY DEF PthreadJoin, Goto
<1>2. /\ g \in Handles /\ call[a] \in Calls /\ ThreadTypes
      /\ Stage(g) = "join" /\ HandleInv(g) /\ CallInv(a) /\ handle[g] = "live"
  BY <1>1, AtCall
<1>3. Stage(g)' = "joined"
  BY <1>1, OtherStages
<1>4. native'[g] = "reaped" /\ \A h \in Handles : h # g => native'[h] = native[h]
  BY <1>1, <1>2 DEF ThreadTypes
<1>5. HandleInv(g)'
  BY <1>1, <1>2, <1>3, <1>4 DEF HandleInv, Agree, Open
<1>6. CallInv(a)'
  BY <1>1, <1>2 DEF CallInv, ThreadTypes, Target, Op
<1>7. ThreadTypes'
  BY <1>1, <1>2 DEF ThreadTypes, CallLabels
<1> QED BY <1>1, <1>4, <1>5, <1>6, <1>7, CallStep

LEMMA ClearJoinKeeps ==
    ASSUME ThreadInv, NEW a \in Actors, NEW g, g = Target(a), ClearAfterJoin(a) PROVE ThreadInv'
<1>1. /\ pc[a] = "joined" /\ joinable' = [joinable EXCEPT ![g] = FALSE]
      /\ UNCHANGED <<handle, blocks, native, detached>>
  BY DEF ClearAfterJoin
<1>2. /\ g \in Handles /\ call[a] \in Calls /\ ThreadTypes
      /\ Stage(g) = "joined" /\ HandleInv(g) /\ CallInv(a) /\ handle[g] = "live"
  BY <1>1, AtCall
<1>3. joinable'[g] = FALSE /\ \A h \in Handles : h # g => joinable'[h] = joinable[h]
  BY <1>1, <1>2 DEF ThreadTypes
<1>4. CASE Op(a) = "release"
  <2>1. pc' = [pc EXCEPT ![a] = "free"] /\ UNCHANGED <<call, joined>>
    BY <1>4 DEF ClearAfterJoin, Goto
  <2>2. Stage(g)' = "free"
    BY <1>1, <2>1, OtherStages
  <2>3. HandleInv(g)'
    BY <1>1, <1>2, <1>3, <2>1, <2>2 DEF HandleInv, Agree, Open
  <2>4. CallInv(a)'
    BY <1>1, <1>2, <1>4, <2>1 DEF CallInv, ThreadTypes, Target, Op
  <2>5. ThreadTypes'
    BY <1>1, <1>2, <2>1 DEF ThreadTypes, CallLabels
  <2> QED BY <1>1, <1>3, <2>1, <2>3, <2>4, <2>5, CallStep
<1>5. CASE Op(a) # "release"
  <2>1. /\ pc' = [pc EXCEPT ![a] = "idle"] /\ call' = [call EXCEPT ![a] = NoCall]
        /\ joined' = [joined EXCEPT ![g] = TRUE]
    BY <1>5 DEF ClearAfterJoin, Return
  <2>2. Stage(g)' = "idle"
    BY <1>1, <2>1, OtherStages
  <2>3. joined'[g] /\ \A h \in Handles : h # g => joined'[h] = joined[h]
    BY <1>2, <2>1 DEF ThreadTypes
  <2>4. HandleInv(g)'
    BY <1>1, <1>2, <1>3, <2>2, <2>3 DEF HandleInv, Agree, Open
  <2>5. CallInv(a)'
    BY <1>2, <2>1 DEF CallInv, ThreadTypes
  <2>6. ThreadTypes'
    BY <1>1, <1>2, <2>1 DEF ThreadTypes
  <2> QED BY <1>1, <1>3, <2>1, <2>3, <2>4, <2>5, <2>6, CallStep
<1> QED BY <1>4, <1>5

LEMMA DetachKeeps ==
    ASSUME ThreadInv, NEW a \in Actors, NEW g, g = Target(a), PthreadDetach(a) PROVE ThreadInv'
<1>1. /\ pc[a] = "detach" /\ pc' = [pc EXCEPT ![a] = "detached"]
      /\ detached' = [detached EXCEPT ![g] = TRUE]
      /\ native' = [native EXCEPT ![g] = IF @ = "exited" THEN "reaped" ELSE @]
      /\ UNCHANGED <<handle, joinable, blocks, joined, call>>
  BY DEF PthreadDetach, Goto
<1>2. /\ g \in Handles /\ call[a] \in Calls /\ ThreadTypes
      /\ Stage(g) = "detach" /\ HandleInv(g) /\ CallInv(a) /\ handle[g] = "live"
  BY <1>1, AtCall
<1>3. Stage(g)' = "detached"
  BY <1>1, OtherStages
<1>4. /\ detached'[g] /\ native'[g] = IF native[g] = "exited" THEN "reaped" ELSE native[g]
      /\ \A h \in Handles : h # g => native'[h] = native[h] /\ detached'[h] = detached[h]
  BY <1>1, <1>2 DEF ThreadTypes
<1>5. HandleInv(g)'
  BY <1>1, <1>2, <1>3, <1>4 DEF HandleInv, Agree, Open
<1>6. CallInv(a)'
  BY <1>1, <1>2 DEF CallInv, ThreadTypes, Target, Op
<1>7. ThreadTypes'
  BY <1>1, <1>2, <1>4 DEF ThreadTypes, CallLabels
<1> QED BY <1>1, <1>4, <1>5, <1>6, <1>7, CallStep

LEMMA ClearDetachKeeps ==
    ASSUME ThreadInv, NEW a \in Actors, NEW g, g = Target(a), ClearAfterDetach(a) PROVE ThreadInv'
<1>1. /\ pc[a] = "detached" /\ pc' = [pc EXCEPT ![a] = "idle"]
      /\ call' = [call EXCEPT ![a] = NoCall]
      /\ joinable' = [joinable EXCEPT ![g] = FALSE]
      /\ UNCHANGED <<handle, blocks, native, detached, joined>>
  BY DEF ClearAfterDetach, Return
<1>2. /\ g \in Handles /\ call[a] \in Calls /\ ThreadTypes
      /\ Stage(g) = "detached" /\ HandleInv(g) /\ CallInv(a) /\ handle[g] = "live"
  BY <1>1, AtCall
<1>3. Stage(g)' = "idle"
  BY <1>1, OtherStages
<1>4. joinable'[g] = FALSE /\ \A h \in Handles : h # g => joinable'[h] = joinable[h]
  BY <1>1, <1>2 DEF ThreadTypes
<1>5. HandleInv(g)'
  BY <1>1, <1>2, <1>3, <1>4 DEF HandleInv, Agree, Open
<1>6. CallInv(a)'
  BY <1>1, <1>2 DEF CallInv, ThreadTypes
<1>7. ThreadTypes'
  BY <1>1, <1>2 DEF ThreadTypes
<1> QED BY <1>1, <1>4, <1>5, <1>6, <1>7, CallStep

LEMMA FreeKeeps ==
    ASSUME ThreadInv, NEW a \in Actors, NEW g, g = Target(a), FreeSources(a) PROVE ThreadInv'
<1>1. /\ pc[a] = "free" /\ pc' = [pc EXCEPT ![a] = "idle"]
      /\ call' = [call EXCEPT ![a] = NoCall]
      /\ blocks' = [blocks EXCEPT ![g] = @ \ CreationBlocks] /\ handle' = [handle EXCEPT ![g] = "freed"]
      /\ UNCHANGED <<joinable, native, detached, joined>>
  BY DEF FreeSources, Return
<1>2. /\ g \in Handles /\ call[a] \in Calls /\ ThreadTypes
      /\ Stage(g) = "free" /\ HandleInv(g) /\ CallInv(a) /\ handle[g] = "live"
  BY <1>1, AtCall
<1>3. Stage(g)' = "idle"
  BY <1>1, OtherStages
<1>4. /\ blocks'[g] = {} /\ handle'[g] = "freed"
      /\ \A h \in Handles : h # g => blocks'[h] = blocks[h] /\ handle'[h] = handle[h]
  BY <1>1, <1>2 DEF ThreadTypes
<1>5. HandleInv(g)'
  BY <1>1, <1>2, <1>3, <1>4 DEF HandleInv, Agree, Open
<1>6. CallInv(a)'
  BY <1>1, <1>2 DEF CallInv, ThreadTypes
<1>7. ThreadTypes'
  BY <1>1, <1>2 DEF ThreadTypes
<1> QED BY <1>1, <1>4, <1>5, <1>6, <1>7, CallStep

-----------------------------------------------------------------------------
(* The steps outside a call.                                                *)

LEMMA CreateKeeps ==
    ASSUME ThreadInv, NEW a \in Actors, NEW g \in Handles, Create(a, g) PROVE ThreadInv'
<1>1. /\ handle[g] = "none" /\ UNCHANGED <<detached, pc, call, joined>>
      /\ handle' = [handle EXCEPT ![g] = "live"] /\ blocks' = [blocks EXCEPT ![g] = CreationBlocks]
      /\ joinable' = [joinable EXCEPT ![g] = TRUE]
      /\ native' = [native EXCEPT ![g] = "running"]
  BY DEF Create
<1>2. ThreadTypes /\ (\A h \in Handles : HandleInv(h)) /\ \A b \in Actors : CallInv(b)
  BY DEF ThreadInv
<1>3. \A h \in Handles : Stage(h)' = Stage(h)
  BY <1>1 DEF Stage
<1>4. /\ handle'[g] = "live" /\ blocks'[g] = CreationBlocks /\ joinable'[g] /\ native'[g] = "running"
      /\ \A h \in Handles : h # g => /\ handle'[h] = handle[h] /\ blocks'[h] = blocks[h]
                                     /\ joinable'[h] = joinable[h] /\ native'[h] = native[h]
  BY <1>1, <1>2 DEF ThreadTypes
<1>5. HandleInv(g)'
  <2>1. HandleInv(g) /\ Stage(g)' = Stage(g) /\ detached' = detached /\ joined' = joined
    BY <1>1, <1>2, <1>3
  <2> QED BY <1>1, <1>4, <2>1 DEF HandleInv, Agree, Open
<1>6. ASSUME NEW h \in Handles, h # g PROVE HandleInv(h)'
  BY <1>1, <1>2, <1>3, <1>4, <1>6, HandleKept
<1>7. \A b \in Actors : CallInv(b)'
  BY <1>1, <1>2 DEF CallInv, Target, Op
<1>8. ThreadTypes'
  BY <1>1, <1>2 DEF ThreadTypes
<1> QED BY <1>5, <1>6, <1>7, <1>8 DEF ThreadInv

LEMMA BeginKeeps ==
    ASSUME ThreadInv, NEW a \in Actors, NEW g \in Handles, NEW op \in {"join", "detach", "release"},
           Begin(a, op, g)
    PROVE  ThreadInv'
<1>1. /\ a = Owner[g] /\ pc[a] = "idle" /\ handle[g] = "live"
      /\ pc' = [pc EXCEPT ![a] = "test"] /\ call' = [call EXCEPT ![a] = [op |-> op, h |-> g]]
      /\ UNCHANGED <<threadVars, joined>>
  BY DEF Begin, Uses
<1>2. ThreadTypes /\ (\A h \in Handles : HandleInv(h)) /\ \A b \in Actors : CallInv(b)
  BY DEF ThreadInv
<1>3. /\ pc'[a] = "test" /\ call'[a] = [op |-> op, h |-> g]
      /\ \A b \in Actors : b # a => pc'[b] = pc[b] /\ call'[b] = call[b]
  BY <1>1, <1>2 DEF ThreadTypes
<1>4. \A b \in Actors : CallInv(b)'
  <2>1. CallInv(a)'
    BY <1>1, <1>3 DEF CallInv, Calls, Target, Op
  <2>2. \A b \in Actors : b # a => CallInv(b)'
    BY <1>2, <1>3 DEF CallInv, Target, Op
  <2> QED BY <2>1, <2>2
<1>5. ThreadTypes'
  BY <1>1, <1>2 DEF ThreadTypes, CallLabels, Calls, threadVars
<1>6. HandleInv(g)'
  <2>1. Stage(g) = "idle" /\ Stage(g)' = "test"
    BY <1>1, <1>3 DEF Stage
  <2> QED BY <1>1, <1>2, <2>1 DEF HandleInv, Agree, Open, threadVars
<1>7. ASSUME NEW h \in Handles, h # g PROVE HandleInv(h)'
  <2>1. Stage(h)' = Stage(h)
    <3>1. CASE Owner[h] = a
      BY <1>1, <1>3, <1>7, <3>1 DEF Stage
    <3>2. CASE Owner[h] # a
      BY <1>3, <3>2, OwnerAssumption DEF Stage
    <3> QED BY <3>1, <3>2
  <2> QED BY <1>1, <1>2, <2>1, HandleKept DEF threadVars
<1> QED BY <1>4, <1>5, <1>6, <1>7 DEF ThreadInv

LEMMA ExitKeeps == ASSUME ThreadInv, NEW g \in Handles, TaskExits(g) PROVE ThreadInv'
<1>1. /\ native[g] = "running" /\ UNCHANGED <<handle, joinable, blocks, detached, pc, call, joined>>
      /\ native' = [native EXCEPT ![g] = IF detached[g] THEN "reaped" ELSE "exited"]
  BY DEF TaskExits
<1>2. ThreadTypes /\ (\A h \in Handles : HandleInv(h)) /\ \A b \in Actors : CallInv(b)
  BY DEF ThreadInv
<1>3. \A h \in Handles : Stage(h)' = Stage(h)
  BY <1>1 DEF Stage
<1>4. /\ native'[g] = IF detached[g] THEN "reaped" ELSE "exited"
      /\ \A h \in Handles : h # g => native'[h] = native[h]
  BY <1>1, <1>2 DEF ThreadTypes
<1>5. HandleInv(g)'
  <2>1. HandleInv(g) /\ Stage(g)' = Stage(g)
    BY <1>2, <1>3
  <2> QED BY <1>1, <1>4, <2>1 DEF HandleInv, Agree, Open
<1>6. ASSUME NEW h \in Handles, h # g PROVE HandleInv(h)'
  BY <1>1, <1>2, <1>3, <1>4, <1>6, HandleKept
<1>7. \A b \in Actors : CallInv(b)'
  BY <1>1, <1>2 DEF CallInv, Target, Op
<1>8. ThreadTypes'
  BY <1>1, <1>2 DEF ThreadTypes
<1> QED BY <1>5, <1>6, <1>7, <1>8 DEF ThreadInv

-----------------------------------------------------------------------------
THEOREM ThreadInvariant == Spec => []ThreadInv
<1>1. ThreadInv /\ [Next]_vars => ThreadInv'
  <2> SUFFICES ASSUME ThreadInv, [Next]_vars PROVE ThreadInv'
    OBVIOUS
  <2>1. ASSUME NEW a \in Actors, InCall(a) PROVE ThreadInv'
    BY <2>1, TestKeeps, JoinKeeps, ClearJoinKeeps, DetachKeeps, ClearDetachKeeps, FreeKeeps
       DEF InCall
  <2>2. ASSUME UNCHANGED <<handle, joinable, blocks, native, detached, pc, call, joined>>
        PROVE  ThreadInv'
    <3>1. \A h \in Handles : Stage(h)' = Stage(h)
      BY <2>2 DEF Stage
    <3>2. ASSUME NEW h \in Handles PROVE HandleInv(h)'
      BY <2>2, <3>1, HandleKept DEF ThreadInv
    <3>3. \A b \in Actors : CallInv(b)'
      BY <2>2 DEF ThreadInv, CallInv, Target, Op
    <3>4. ThreadTypes'
      BY <2>2 DEF ThreadInv, ThreadTypes
    <3> QED BY <3>2, <3>3, <3>4 DEF ThreadInv
  <2>3. ASSUME NEW a \in Actors, NEW h \in Handles, CreateFails(a, h) PROVE ThreadInv'
    <3>1. blocks \in [Handles -> SUBSET CreationBlocks] /\ blocks[h] = {}
      BY <2>3 DEF ThreadInv, ThreadTypes, HandleInv, CreateFails
    <3>2. blocks' = blocks
      BY <2>3, <3>1 DEF CreateFails, CreationBlocks
    <3> QED BY <2>2, <2>3, <3>2 DEF CreateFails
  <2>4. CASE UNCHANGED vars
    BY <2>2, <2>4 DEF vars
  <2> QED BY <2>1, <2>3, <2>4, CreateKeeps, BeginKeeps, ExitKeeps DEF Next, Quiet
<1> QED BY <1>1, InitThread, PTL DEF Spec

\* For its one owner the flag is a faithful shadow of the native thread.
THEOREM FlagMatchesThreadHolds == Spec => []FlagMatchesThread
<1>1. ASSUME ThreadInv PROVE FlagMatchesThread
  <2> SUFFICES ASSUME NEW h \in Handles, handle[h] = "live"
               PROVE  joinable[h] <=> (Open(h) \/ On(Owner[h], {"joined", "detached"}, h))
    BY DEF FlagMatchesThread, Open
  <2>1. HandleInv(h) /\ pc[Owner[h]] \in CallLabels \cup {"idle"}
    BY <1>1, OwnerAssumption DEF ThreadInv, ThreadTypes
  <2>2. On(Owner[h], {"joined", "detached"}, h) <=> Stage(h) \in {"joined", "detached"}
    BY DEF On, Stage
  <2>3. Stage(h) \in CallLabels \cup {"idle"}
    BY <2>1 DEF Stage
  <2> QED BY <2>1, <2>2, <2>3 DEF HandleInv, Agree, Open, CallLabels
<1> QED BY <1>1, ThreadInvariant, PTL

\* No pthread call on a thread that is gone, no call on a freed struct.
THEOREM NoUndefinedCallHolds == Spec => []NoUndefinedCall
<1>1. ASSUME ThreadInv PROVE NoUndefinedCall
  <2> SUFFICES ASSUME NEW a \in Actors, pc[a] # "idle"
               PROVE  /\ handle[Target(a)] = "live"
                      /\ pc[a] \in {"join", "detach"} => Open(Target(a))
    BY DEF NoUndefinedCall, Open
  <2>1. Stage(Target(a)) = pc[a] /\ HandleInv(Target(a)) /\ handle[Target(a)] = "live"
    BY <1>1, AtCall
  <2> QED BY <2>1 DEF HandleInv, Agree
<1> QED BY <1>1, ThreadInvariant, PTL

\* A task's arguments outlive it, unless its thread was detached.
THEOREM ArgsOutliveTaskHolds == Spec => []ArgsOutliveTask
<1>1. ThreadInv => ArgsOutliveTask
  BY DEF ThreadInv, ThreadTypes, ArgsOutliveTask, HandleInv, Open, CreationBlocks
<1> QED BY <1>1, ThreadInvariant, PTL

\* A failed creation and Release leave no memory, and Release no unjoined thread.
THEOREM ReleaseCompleteHolds == Spec => []ReleaseComplete
<1>1. ThreadInv => ReleaseComplete
  BY DEF ThreadInv, ThreadTypes, ReleaseComplete, HandleInv, Open
<1> QED BY <1>1, ThreadInvariant, PTL

\* A Join that returned SUCCESS has seen the task finish.
THEOREM JoinMeansExitedHolds == Spec => []JoinMeansExited
<1>1. ThreadInv => JoinMeansExited
  BY DEF ThreadInv, JoinMeansExited, HandleInv
<1> QED BY <1>1, ThreadInvariant, PTL
=============================================================================
