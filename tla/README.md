# Verification of CCBasicCore

TLA+ models of CCBasicCore, a C library of threading primitives (thread, mutex,
condition variable) and containers (vector, list, sets, maps, string,
adapters), with the TLC configurations that check them on small instances and
the TLAPS proofs that hold for every instance. Paths below are relative to
`src/`. `PROJECT.json` says, definition by definition, which lines are modelled.

## 1. The system

The library has two halves that do not know of each other.

**Threading** (`thread/` over `platform/thread_impl/`). Each public type is a
struct holding one pointer to a platform implementation, to which the public
functions forward; only `CCBasicCoreThread_Release` checks its argument for NULL.
The implementations call pthreads.

| component | state | operations | what makes it correct |
|---|---|---|---|
| condition variable (`posix_condvar_impl.c`, `cond_var.c`) | a pthread mutex, a pthread condition, `int pending` | Create, Wait, NotifyOne, NotifyAll, Free | every notification is consumed by at most one Wait; no Wait stays asleep over an unclaimed one; the counter is touched under the mutex only; Free comes last |
| mutex (`posix_mutex_bkend.c`, `mutex.c`) | a pthread mutex | create, lock, trylock, unlock, free | whoever believes to hold it does |
| thread (`posix_thread_bkend.c`, `thread.c`) | handle, `joinable`, three heap blocks (both structs, a private copy of the arguments), the native thread | Create, Join, Detach, Release | no undefined pthread call; the arguments outlive the task; nothing is left behind |
| `example/thread/cond_var_example.c` | one mutex, two condition variables, `buffer` | producer and consumer loops | the buffer is exact; the program ends |

The condition variable is *not* the usual one: it counts notifications, so a
NotifyOne that nobody waits for is remembered, NotifyAll refills the counter
with `INT_MAX / 2`, and Wait takes no mutex of the caller. Every hard behaviour
of this half is an interleaving: waiters stealing each other's tokens, spurious
wakeups, notifications that pile up, a wait under somebody else's mutex, a flag
written after the call it describes.

**Containers** (`data_structure/`). Sequential, unsynchronised objects. A
`CCSpecialDefinedPack` carries the element's copier, freer and comparator; with
it a container owns copies of its elements, without it it holds their bytes.

| component | state | what makes it correct |
|---|---|---|
| vector (`vector.c`) | buffer, size, capacity | elements stay inside the buffer through growth and shrinking; copies are owned once |
| list (`list.c`) | ring of nodes, head, tail, size | one ring in both directions, no lost or freed node reachable, size true |
| set (`set.c`) | treap with random priorities, size | search and heap order, answers of a set |
| unordered set (`unorder_set.c`) | buckets of chains, size | every key in its bucket through rehashes, answers of a set |
| map (`map.c`, over `map_node_treap.c` or, without `USE_TREAP_ACC`, `map_node.c`) | treap, or plain search tree | answers of a map; keys and values freed once |
| unordered map (`unorder_map.c`) | buckets of chains, size | answers of a map, for the comparator it is given |
| string (`ccstring.c`) | small buffer or heap buffer, size, capacity | text and terminator inside the buffer, in either representation and on the way between them; each operation the edit it is named for |
| stack, queue, deque adapters (`stack/`, `queue/`, `deque/`) | a vector or a list | what goes wrong in the container stays out of reach; reads and pops see the right end |
| memory, result and error helpers (`platform/memory_allocation/`, `utils/`) | none | not modelled: wrappers without state |

What is hard here are long sequences of legal calls (resize to zero and then
push; insert inside, pop and destroy), boundaries of capacities and sizes,
`size_t` arithmetic that wraps, and random priorities that no unit test controls.

`PROJECT.json` lists every component with its status and, under "hazards", each
place where this code can go wrong in a way a test would hardly reach.

## 2. The modules

| module | models | kind |
|---|---|---|
| `TokenBox` | what the condition variable promises: an atomic box of tokens, with fairness | abstract |
| `CondVar` | the condition variable, open to any caller | component |
| `CondVarTest` | the clients of `test/thread/test_condvar.c` and `example/thread/mutex_example.c` as closed programs over `CondVar`, with Create and Free | composition |
| `Mutex` | the operations of CCMutex, without a specification of their own | component |
| `MutexTest` | `test/thread/test_mutex.c`: increments under lock and trylock | composition |
| `BoundedBuffer` | the producer/consumer example: one `Mutex`, two `CondVar`s | composition |
| `ThreadLife` | CCThread handles, their native threads and their owners | component |
| `ElementSequence` | what vector and list promise: one edit of a sequence per operation | abstract |
| `Vector`, `List` | the two element containers | component |
| `VectorAdapters`, `ListAdapters` | stack, queue and deque over a vector, and over a list | composition |
| `Text` | what the string promises: a stretch replaced, or characters mapped | abstract |
| `CCString` | the string, in the struct and on the heap | component |
| `SequenceContainers` | one client program applied to a vector, a list, an adapter or a string | composition |
| `Treap` | trees as values, rotations, descent; shared by set and map | helper |
| `BucketChains` | bucket arrays of chains and their rehash; shared by the unordered set and map | helper |
| `TreapSet`, `HashSet`, `TreapMap`, `BstMap`, `HashMap` | the keyed containers; `BstMap` is CCMap over its plain tree | component |
| `KeyTable` | what they promise: a table from keys to values | abstract |
| `KeyedContainers` | one client program applied to each of them | composition |
| `CondVarProofs`, `MutexProofs`, `BufferProofs`, `ThreadProofs`, `ListProofs`, `SequenceProofs`, `KeyedProofs` | theorems | proofs |
| `DataLemmas` | iteration, recursion, and edits of sequences, as the proofs need them | proofs |
| `MC*` | the instances TLC checks | model checking |

Some operators stand next to the operation they resemble and differ from it by
one plausible mistake (`OneSignalFirst`, `PopFrontShort`, `InsertedByMemcpy`,
...). No specification uses them; each shows that a property notices the mistake.

How state and actions correspond to the code:

*CondVar.* `pc[t]` is the statement thread `t` has reached in Wait, NotifyOne or
NotifyAll; `owner` is the holder of `impl->mutex`, `pending` the counter. One
action per statement: `WaitLock`, `WaitEmpty` (the loop is entered),
`WaitSleep` (`pthread_cond_wait` releases the mutex and sleeps in one step),
`WaitSpurious`, `WaitRelock`, `WaitConsume`; `OneLock`, `OnePost`, `OneSignal`
(wakes a sleeper of its choice); `AllLock`, `AllPost`, `AllBroadcast`;
`Unlock`. `pending` wraps like the machine's int (`Inc`, `Dec`).

*CondVarTest.* A client is a program of calls per thread. `cv` is the client's
pointer: NULL until `Create`, which the tests run before they start a worker and
`mutex_example.c:21` after; a call that follows the NULL ends the client
(`FollowsNull`, "crashed").

*Mutex / MutexTest.* `counter++` is a load and a store (`Read`, `Write`). The
constant `PublicApi` chooses how a caller judges trylock: by the backend's result,
which `mutex.h` drops, or by errno, as the test does. main frees the mutex after
it has joined the threads (`Free`).

*BoundedBuffer.* `pc[t]` walks the loop of either thread: test the condition,
wait or go on (`Proceed`), change the buffer (`Work`), unlock, notify. The
operations that differ (`MustWait`, `Change`, `CallWait`, `CallNotify`) are chosen
by the thread. The steps inside the two condition variables are `CondVar`'s. main
joins both and frees the two condition variables and the mutex (`freed`).

*ThreadLife.* A handle is operated by one owner, main or the task of another
handle. JoinThread, DetachThread and Release are split at the test of the flag,
the pthread call, the assignment of the flag and the free; the task runs and
returns in between (`TaskExits`). `blocks` holds the heap blocks of a handle: a
creation allocates three, and gives them back one by one when `pthread_create`
fails (`CreateFails`). `joined` remembers that a Join succeeded.

*Vector.* `cells` is the buffer, indexed by `0 .. capacity - 1`. `pack` says
whether the vector owns copies; `live` are the copies allocated, `lost` those
whose only pointer Set has overwritten. A store outside the buffer is undefined
behaviour and ends the run (`status`).

*List.* `next`, `prev` and `elem` are the fields of each node, `allocated` the
heap. Each operation has a disjunct for the case in which it follows NULL or a
freed node (`Crash`). The seam of the ring is linked as in the code, including
the first node, which gets no links.

*Adapters.* `kind` is the adapter the client holds, or the container itself;
each operation of an adapter is one of its container's. A stack over a vector
returns a pointer into the buffer it then pops from, and may shrink: `handed` is
the cell it points to. The queue and the deque copy the element out first.

*CCString.* `bytes` is the buffer that `is_heap_flag` selects, with `capacity + 1`
bytes; bytes nobody wrote are `Stale`. Append and Insert share the decision where
a text goes and with what capacity (`HeapFor`, `CapacityFor`). Reserve of a small
string ignores the capacity asked for, as in `ccstring.c:148`. The end of an
erasure is computed in `size_t` (`EraseEnd`). `str_status` records where the model
stops: "torn" when Insert has lost what lies behind an embedded NUL, "undefined"
after a store outside the buffer. `SubString` is an operator: it changes nothing.

*Keyed containers.* A tree is a nested record, a chain a sequence with its head
first. The C functions that call themselves on a subtree are recursive functions on
`Trees`: the trees no higher than there are keys, which no search tree exceeds. Keys
are integers, ordered by the comparator; the larger keys are on the left, because the
code asks the comparator about (node, target) and sends SMALLER to the left. Priorities come in with the insertion, as from `rand()`.
`HashMap` takes `ThreeWay`: whether the comparator returns a CompareResult (as
its test's) or a truth value (as its code expects). `blocks` counts the heap
blocks an operation allocates and frees, in every module; `Reachable` counts what
can still be reached. `status` is "emptied" when a Destroy of CCMap released the
nodes and kept the map, "damaged" when an erasure over the plain tree has left a
pointer to a released key. `BstMap` is modelled with copied keys, whose addresses
no caller has, and with keys kept as they are given (`bst_map_kept`).

## 3. The runs

| run | bounds | distinct states | shows |
|---|---|---|---|
| `condvar` | 4 threads, 26 clients: every choice of one call per worker and 6 longer ones; INT_MAX = 7, 2 spurious wakeups | 48 388 | the mutex discipline, no lost wakeup; `CondVar` implements `TokenBox`, with its fairness; the clients end on every schedule with no token lost or taken twice, Free comes after the last use, and the only client that may crash creates the variable late |
| `mutex_test` | 3 threads (1 with trylock), 3 iterations | 22 508 | mutual exclusion and an exact counter, at every step |
| `mutex_trylock` | same, 2 iterations, public API | violation | finding 1 |
| `bounded_buffer` | 5 items, buffer of 2, 2 spurious wakeups | 2 321 | the buffer is exact, tokens are accounted for, and the example ends or is stuck in one described way |
| `bounded_buffer_finish` | same | violation | finding 2 |
| `thread_life` | main owns h1, h1's task owns h2; 5 calls per handle | 11 113 | the flag shadows the thread, no undefined call, arguments outlive a task that was not detached, calls return |
| `sequences` | vector: 4 objects, capacity up to 8; list: 5 nodes, 2 elements; string: 4 characters asked for, 2 in the struct; size_t of 17 values | 33 819 (modulo symmetry) | contents inside their buffer or ring, owned once, and the promised sequence or text, for the containers and the adapters; each crash, wrong size and lost text traced to its cause |
| `string_substring` | same | violation | finding 5 |
| `list_edges` | same | violation | finding 6 |
| `keyed` | 4 keys, 2 values, 3 priorities, 6 additions to the unordered map, 13 blocks | 53 472 (modulo symmetry) | orders, placements and sizes, the promised table, and a balance of all memory |
| `map_erase` | same | violation | finding 3 |
| `hash_map_lookup` | same, three-way comparator | violation | finding 4 |

Why the bounds are enough:

- `IntMax = 7` is an int of four bits: NotifyAll stores `IntMax \div 2 = 3`, and
  five calls of NotifyOne after it, as one client makes them, reach the wrap. Four
  threads are two waiters, a third that steals a token, and a notifier. The clients
  choose the calls; that the safety properties hold for callers who make any calls in
  any order, any number of them, is proved (`CondVarProofs`).
- `MaxSpurious = 2` bounds spurious wakeups where liveness is checked; without a
  bound a thread could wake for ever. The proofs have no such bound.
- `Loops`, `Items`, `BufferSize`: 3 iterations let each of three threads be
  overtaken in each; 5 items through a buffer of 2 fill and empty it more than
  once (the code has 10 and 5).
- `MaxCalls = 5` per handle: a creation that fails, a creation, and three calls
  after it in any order, so join, detach and release each follow the others.
- `MaxCapacity = 8` from capacity 1: three doublings, and shrinking from 8 to 4 to
  2 to 1. The interesting boundaries (full, quarter, zero) all occur.
- `SizeMax = 16`: a list's `size` falls through zero, and an erasure of a string
  with `len` 15 or 16 from position 2 or later wraps, as one with the largest
  `size_t` does. `SsoSize = 2` and `MaxText = 4` put texts below, at and above the
  size of the struct and let a heap buffer double.
- One iterator of the string swaps characters; the other stores NULs and takes
  them back, because Process may.
- `InitialBuckets = 2` and `Primes = <<2, 5>>` scale 16 and 11, 23, ...: both
  tables are rehashed twice, and after 5 the unordered map runs off its list of
  primes to `2n + 1`. Every two of the first three hashes collide in some table
  reached and part in another. `MaxSize = 6` bounds the additions to the
  unordered map, whose size never falls; `MaxBlocks = 13` bounds what an overwrite
  may leak, and leaves room for four nodes.
- 4 keys and 3 priorities, ties included: a node with two children that have
  children, above, at and below which any rotation happens.

Symmetry is used over objects (which are also nodes of the list) in `sequences`
and over values in `keyed`; neither run checks liveness. Deadlock checking is off where the system really stops: containers that
were freed, destroyed or crashed, and the example that gets stuck.

**Fairness.** Weak fairness of each thread's own next step (`CondVarTest`,
`MutexTest`, `BoundedBuffer`) and of main's Free after its joins: the operating
system runs every runnable thread. Locking is not assumed strongly fair; the
programs are finite, so a thread that waits for a mutex is overtaken finitely
often. `ThreadLife` assumes that a call goes on when it can and that tasks return,
not that owners make calls; a spurious wakeup is never assumed.

## 4. What the runs found

1. **trylock says nothing** (`thread/mutex/mutex.c:18`). The result is dropped;
   the test reads errno, which pthreads does not set. A caller that failed
   enters the critical section.
2. **The example can hang** (`example/thread/cond_var_example.c:22`, `:41`). Wait
   does not release the CCMutex, so a thread asleep on one condition variable
   holds the mutex its notifier needs. `bounded_buffer` shows that it is the
   only way to fail (`FinishesOrStuck`) and final (`StuckForever`).
3. **CCMap erases only at the root** (`data_structure/map/map_node_treap.c:109`).
   The deletion swaps the comparator's arguments. `MapErasesOnlyTheRoot` says
   exactly what an erasure does instead, also over the plain tree, whose deletion
   compares addresses (`map_node.c:76`).
4. **CCUnorderedMap reads a CompareResult as a truth value**
   (`data_structure/map/unorder_map.c:112`): EQUAL is 0. With the comparator of its
   own test it does not find what was inserted. With a truth-valued comparator it
   is a table (`HashMapImplementsTable`).
5. **SubString of a heap string, or of exactly the small-string size**
   (`data_structure/string/ccstring.c:369`) is not the part asked for: it is read
   through the struct, terminated one past a local array, or copied from the start
   of the text and left unterminated.

6. **Erasing a list's only node** (`data_structure/list/list.c:229`) follows NULL
   when a push made the node, and leaves head and tail on the freed node when the
   list shrank to it, against "Safe edge handling for empty and single-node lists."
   (`README.md:29`). `CrashExplained` and `ListShape` show that nothing else makes a
   list dangle.
7. **Embedded NULs** (`data_structure/string/ccstring.c:289`): an insertion that
   moves a small string to the heap loses what lies behind one, and a pushed NUL
   (`:253`) adds nothing, against "Handles strings with embedded null characters
   gracefully." (`README.md:198`). `ImplementsText` says when exactly.
8. **The size of the unordered map** (`data_structure/map/unorder_map.c:140`) is
   documented as "the current element counts" (`unorder_map.h:28`), but an erasure
   leaves it; so keys that come and go make the table grow. `SizesExact` says by
   how much the size is off and that the table grows by it.

Findings 7 and 8 are stated inside properties that hold, so that they are exact; so
are smaller disagreements: `list.h:54` calls `size` the size of total, but Insert
inside the list and Erase leave it (`SizeMoves`), which is how destroy and the pops
go wrong; a vector resized to zero overruns its buffer on the next push
(`BufferSafe`, `NeverShrunkAway`); on a vector that a large Resize has left sparse,
alternating pushes and pops double and halve the buffer for ever, although pushes
are to be "amortized O(1)" (`README.md:47`; `CapacitySettles` shows that other buffers
are safe from it, and `AdaptersStayInside` that an adapter's is one of these); Set
leaks the copy it overwrites (`OwnedOnce`); Release after Detach frees arguments a
task may be reading (`ArgsOutliveTask`); overwriting a value of CCMap leaks two
copies, next to the comment "避免泄漏" (avoid leaks, `map_node_treap.c:99`), and its Destroy may
keep the map (`BlocksBalance`); Reserve can take capacity away (`CapacityMoves`); a
string's Erase up to the largest `size_t` repeats characters (`ImplementsText`); the
worker of `mutex_example.c` may call Wait on NULL (`AllFinish`).

Seen while reading, and in no property: `set.h:21` documents return values the
code does not give (0 is success); appending a string's own text to itself may read
the buffer that was just reallocated; `USE_STRING_SSO` is a PRIVATE definition
(`data_structure/CMakeLists.txt:23`), so that a client which includes the header
sees another layout; the comment "Insert front" (`list.c:208`) stands at a push to
the back.

## 5. What is proved

Every theorem holds for all values of the constants that satisfy the assumptions
of its module.

**CondVarProofs**, from `ThreadsAssumption` (finitely many threads, Nobody not
among them) and `WidthAssumption` (no more threads than INT_MAX):

- `TypeCorrect`, `LockDisciplineHolds` and `MutualExclusion`: types and lock
  discipline are inductive together.
- `SleepDecisionSafe`: what a waiter saw before it sleeps still holds; needs the
  lock discipline, since a post would need the mutex.
- `NoWakeupIsLost` and `RestMeansNoTokens`: the counting argument. The invariant
  bounds `pending` by the number of threads on their way to it while anybody
  sleeps. It is not inductive alone: a waiter falls asleep only when the counter
  is zero (`SleepDecisionHolds`), and a consumer leaves the set exactly when it
  takes a token. Each action is one step of the proof; cardinalities of the set
  of threads on their way come from lemmas on adding and removing one thread.
- `BoxImplemented`: initial states map to initial states of `TokenBox` and each
  step to a box step or a stutter, using the type invariant for the wrap.

In the same module, of the client programs: `ClientsUseCondVar` shows that each client program's run is a run
of the open condition variable, so `ClientsLoseNoWakeup` costs one line.
`NoUseAfterFreeHolds` is for every set of programs that free the variable last and
right after a join (`JoinsBeforeFree`): a thread about to free has seen all others
finish, because the call before was the join, and a finished thread stays finished.
`TokensCounted` is the exact count behind the stress test's `Expected = Actual`, for
every set of programs that post no more than an int can count (`FewCalls`), in those
of them that do not broadcast: the counter is the number of calls of NotifyOne past their
post less the number of Waits past their consumption. Which calls those are is read
off the program (`Begun`, `Posted`, `Taken`), so the invariant ties the counter to
program positions; each post adds one call to the first set and each consumption
one to the second. `TokensConservedAtEnd` is that count when all have finished.

**MutexProofs**, when trylock's result reaches its caller (`~PublicApi`):
`MutexInv` joins types, loops, ownership and the counter. Nobody is inside without
owning the mutex, so what a thread has read of the counter is still its value when
it writes; the increments done form a set to which a write adds one element. From
it mutual exclusion, the exact counter, and the test's final count
(`NoIncrementLost`).

**BufferProofs**: `BufferInv` says for both threads where in their loop they hold
the CCMutex, in which call of which condition variable they can be, and bounds each
counter by the notifications posted (`Posted`), which `Items <= IntMax` keeps from
wrapping. `TestedInv`, what the last test of the condition has established, is
what makes the buffer exact: nobody else can change it while the CCMutex is held.
`StuckForeverHolds` goes through every step from a stuck state: the waiter cannot
take a token, the other cannot lock.

**ThreadProofs**: `ThreadInv` relates, per handle, the flag, the native thread, the
heap blocks and the stage of the owner's call (`Agree`). It is inductive because a handle has one
owner and an owner one call at a time (`CallInv`), so a step elsewhere leaves the
stage alone. `FlagMatchesThread`, `NoUndefinedCall`, `ArgsOutliveTask` and
`ReleaseComplete` follow.

**ListProofs**, from `HeapAddresses`: nodes are addresses, each of at least one
byte, so there are finitely many and no more than SIZE_MAX. `ListInv` says that
the nodes of a usable list can be written down as a sequence `s`: each node once,
in the order of `next`, with `prev` the other way round and head and tail at the
ends (`Order`), unless the list is empty, is one node without links, or dangles. The
ring as `ListShape` states it, by a walk along `next`, is not inductive in that
form: a step changes links, and with them everything the walk meets. With `s` each
operation is one edit: a push or an insertion puts the new node after position `i`
(`Grown`), a pop or an erasure takes position `i` out (`Shrunk`), and one lemma for
each says that links spliced accordingly keep the order. That a walk then meets
`s[1]`, `s[2]`, ... is an induction over the number of links followed.
`ListKeepsShape`, `ListCrashExplained`, `ListSizeMoves` and `ListImplements` follow;
`AdaptersKeep` needs `AdapterInv` besides: an adapter neither inserts inside nor
erases, so size and count stay equal, they are at most SIZE_MAX and so never wrap,
and the list never dangles.

**KeyedProofs**, from `KeysAssumption` (keys are numbers, NULL is no value),
`BucketsAssumption` (an array has a bucket at least) and `TreesAssumption` (finitely
many keys, priorities are numbers, NULL is no node).

*The unordered containers.* One theory of bucket arrays
serves both unordered containers: `Placed` says that every node is in the chain its
hash points to and no identity is there twice, `Stored` what the array holds.
Pushing, replacing and taking out a node each have a lemma that says what becomes of
both and of the number of nodes; a rehash is an induction over the nodes it visits,
once each, in whatever order (`RehashKeeps`). `HashInv` adds the sizes, the room
that is left before the next rehash and the heap blocks, which makes it inductive:
after an insertion `4 * size <= 3 * buckets` holds again because the set doubles and
the map takes a prime that is at least twice its count or, beyond the list,
`2n + 1`. `KeyedChainsPlaced` and `KeyedHashBlocks` are parts of it;
`KeyedMapSizeDrifts` compares size and nodes before and after each operation, by
what a search of the chain finds; `KeyedHashSetIsTable` and `KeyedHashMapIsTable`
are the refinements of `KeyTable`, by what a search of the one chain finds
(`FirstMatchFinds`). What is said of the map is for comparators that are not
three-way; with the others it is
false (finding 4).

*The ordered containers.* The trees are of bounded height, so they are a set, and a
function that recurses on them exists by induction over sizes (`TreeRecursion`), which
each recursion of the code is shown to be an instance of: the size of what it goes down
into is smaller, also behind a rotation (`RotatedDown`). The insertions are one kind
of recursion with two switches (rotations or none, an equal key overwritten or kept),
the erasures of the treaps another with one (which way they descend). What each does is proved by
induction for all search trees: `InsertionInserts` (the key is added, the other bindings
stay, the tree is a search tree and a heap) and `DeletionRemoves`, which needs that no
rotation lifts a child above the priority of its old root; `DeletionMissesBelow` is the
erasure that goes away from its key. Search trees have as many keys as nodes
(`OrderedSize`) and are no higher than that (`OrderedHeight`), so an operation never
leaves `Trees`. For the plain tree, `ForeignDeletionKeeps` says that a deletion that
meets no address of its own changes nothing whichever way it goes, and
`BstDeleteDamages` that at a root with two children it leaves a released key in the
tree or one key in two nodes. `TreeInv` (search order, heap order, size, a value in
every node of a map, unless damaged) is then inductive; `KeyedTreesOrdered`,
`KeyedSizes`, the two refinements `KeyedSetsAreTables` and `KeyedMapErasesOnlyTheRoot`,
and `KeyedBlocks` follow, the last because `Reachable` is linear in the number of nodes.

**DataLemmas**: iteration of a function, in the form these proofs use, and what
growing, shrinking and splicing do to a sequence. The library's induction theorems
take an operator and cannot be used with these provers; induction over the naturals
is done on sets instead (`SetInduction`: a set that holds 0 and with `n` also
`n + 1` holds all), from the library's theorem that `<` is well-founded.

**SequenceProofs**. Of the vector, from `VectorAssumption`: `VectorInvariant`
(types and `BufferSafe` for every capacity bound and element set; the two are
inductive together, because cells are functions on `0 .. capacity - 1`), and from it
the action properties `NeverShrunkAwayHolds` (halving a sparse buffer cannot reach
zero, since the size is not zero) and `CapacitySettlesHolds` (what a reallocation
leaves of the room, by arithmetic on the predicate that growth and shrinking share).
`OwnedOnceHolds` adds `OwnInv`: the cells in use hold distinct copies, and these with the lost ones
are all that is live. Each edit of the buffer has a lemma on the set of copies it
holds; the count in `OwnedOnce` follows by a bijection from cells to copies.
`SequenceImplemented` is the refinement: the vector implements `ElementSequence`.
The contents are a view of the first `current_size` cells (`View`); for each way
an operation rearranges the cells (shift up, shift down, keep a prefix, overwrite
one) a lemma, by extensionality of sequences, says which edit of the view it is.
`IInv` is needed to know that the cells in use are inside the buffer and written,
before and after the step. Every step of an adapter is a step of its vector, so the
invariant carries over; `AdaptersStayInsideHolds` adds that an adapter's vector
keeps some capacity, which makes the overrun of a push impossible, and is never sparse, and that the cell
a stack's Pop points to is inside the buffer, because a pop that halves leaves it at
most half full.

Of the string, from `StringAssumption` (a C string is shorter than SIZE_MAX):
`StringInv` (written text, terminator, capacity and flag) is kept by whatever hands
`Becomes` a terminated text that fits, which each operation is shown to do;
`CapacityForFits` is the lemma about growth. `TextInsideHolds` and
`CapacityMovesHolds` follow. `ImplementsTextHolds` is the refinement: the text after
an operation is what the operation gave its new buffer (`TextTaken`), and a text that
agrees byte by byte with a splice is that splice (`SpliceIs`, by `SpliceReplaces` on
sequences). An erasure needs to know where its end lies, also when the sum has
wrapped (`EraseEnds`), which uses that no text is longer than SIZE_MAX.

Of the client of all three: its run is a run of the vector, of the list and of the
string (`ContainersRun`), so what was proved of each, the list's through an instance
of `ListProofs`, holds of exactly the specification that the run `sequences` checks.

Only model-checked: all liveness (`AllFinish`, `ImplementsFairBox`,
`AllTerminate`, `FinishesOrStuck`, `CallsReturn`), which needs ENABLED and
fairness.

## 6. Not modelled, and why

- Failure of malloc, realloc and of the initialisation of pthread objects: the
  code mostly does not check it; where it does, it gives up the operation.
  `realloc` is assumed to shrink a block in place; where it moves the block
  instead, the pointer a vector stack's pop returns dangles after every pop that
  shrinks.
- The copies the deque over a list drops: it copies the element although the list
  gives it the one it owned, so the list's copy is lost on every pop
  (`deque_list.c:88`, `:125`). A model would count pops and say no more.
- An adapter given another one's implementation code, or an element of another
  size: the error handler it calls spins for ever (`utils/errors/Error.c:6`).
- A handle, list or vector shared by two threads without a lock: the library
  promises nothing there.
- Memory, result and error helpers: no state. What they do to ownership is part of
  the containers.
- String comparison, search and visits, element-size mismatches that return at
  once, ids, names and sleeps of threads, printing, `CMakeLists.txt`, `cmake/`, and
  the tests and examples other than those named: they change no modelled state.
- The build of the string without `USE_STRING_SSO`: it does not compile
  (`ccstring.c:376` assigns to an undeclared `op_ptr`).
- A backend other than POSIX: the repository has none.

## 7. Plan

Done: the survey; condition variable, mutex, thread and their clients; vector,
list and string, with the adapters; sets and maps, over both trees; memory balance
of the keyed containers; the proofs above.

Left:

1. Failure of allocation in the functions that check for it.
