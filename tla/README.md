# cpp-quiz: models, checks and proofs

`src/` is a collection of questions about C++ (`src/doc/`) and of programs that
answer them (`src/answer/`). Each program is an executable of its own: a class
(a lock, a queue, a pointer, ...) and a `main()` that uses it, often with
threads. The programs share nothing but two headers. What is worth verifying is
therefore each answer by itself, together with the threads of its `main()`;
there is no composition of answers, and the modules that put several of them in
one run (`MCLocks`, `MCLockless`, `MCEndless`, `MCClasses`, `MCMemory`) choose
one in the initial state.

Two facts about the build matter. The default is a Release build, in which
`assert` is compiled out, so an assertion is modelled as a claim to check and
not as a guard. All executables are built with `-fsanitize=address`, so an
access to freed memory ends the program.

## Inventory

| Component (`src/answer/...`) | State | Operations | Hard because | Correct when |
|---|---|---|---|---|
| `concurrency/bounded_lockless_queue.cxx` | ring, `head`, `producer_tail`, `consumer_tail` | `push`, `pop` by any thread | slots read before they are owned, stale shadows, ring wraps | bounded FIFO; full and empty are true; a claimed place is published |
| `concurrency/fair_spinlock.cxx` | `seq`, `flag` | `lock`, `unlock` | ints wrap; order of tickets | mutual exclusion, first come first served |
| `concurrency/group_lock.cxx` | one word: state and count | `lock` (may refuse), `unlock` | stale words, two fields changed together | one group inside; word exact |
| `concurrency/rcu.cxx` | generations, counts, data | read lock/unlock/dereference, assign, synchronize | load and count are two steps | no reader holds a deleted object; old ones are deleted |
| `concurrency/thread_pool.cxx` | queues, mutexes, condition variables, stop flags | `submit`, `worker_fn`, stop and join | lost wake-ups, reference into a vector | every task runs once, workers stop |
| `concurrency/lockless_queue.cxx` | linked nodes, `head`, `tail` | `push`, `pop` | link made after `tail` moved | order kept, no bad pointer |
| `concurrency/lockless_stack.cxx` | linked nodes, `head` | `push`, `pop` (deletes) | freed nodes, addresses used again | a stack, no access to freed nodes |
| `concurrency/H2O.cxx` | counts under a mutex, or a word and a print count | two threads that print | reset in several steps, notifications | two H and one O a round, for ever |
| `network/tcp_server.cxx` | epoll's list, connections | accept, read and answer | edge triggering, events that are old when handled | every message is read |
| `mm/shared_ptr.cxx` | control block, handles | copy, move, assign, destroy, `make_shared` | last releases race; null handles | object lives as long as a handle |
| `mm/weak_ptr.cxx` | use and weak count, handles | `reset`, `lock`, copy, move, destroy | `lock` races with the last `reset` | object and block live as long as needed |
| `mm/object_pool.cxx` | pages, free list in the blocks | `allocate`, `destroy` | pointers in memory the client writes to | blocks apart, none lost |
| `stl/vector.cxx` | buffer and three pointers | grow, copy, move, assign | aliasing, empty buffers | each vector its own list |
| `stl/priority_queue.cxx` | heap in a container | `push`, `pop`, `top` | sift loops at the edge | largest first |
| `template/serialization.cxx` | span and position | `serialize`, `deserialize` | ends in the middle | round trip or failure |
| `template/type-erase.cxx` | queue, mutex, condition variable | `submit`, a worker for ever | notified after the mutex is given up; tasks run with it held | tasks run once, in order |
| `concurrency/spinlock.cxx` | a flag and the counter it protects | `lock`, `unlock`, `main` | a loop without effects before the test | no increment lost, the count printed |
| `mm/linked_list.cxx` | nodes with strong `next` and weak `prev` | construct, `push_back`, `pop_back`, destroy | a ring that owns itself | lists of their own, popped nodes freed |
| `stl/string.cxx` | 24 bytes read in two ways | construct, copy, move, assign, append | the layouts share a byte | layouts told apart, short texts kept |
| `oop/ro5.cxx` | descriptor, array, base and member | construct, copy, move, assign, destroy, and what they throw | fails half-way, assigned to itself | each resource has one owner |
| `c-to-cxx/cmp.cxx` | a table of flags | the sieve | loop bounds | leaves the primes |

### Not modelled

* `read-write-lock`: a reader and a writer around `std::shared_mutex`; what can
  go wrong is in the library. `handle-destroy`: one `std::async` of a loop that
  never ends.
* `optional`: a flag and a value, set once and read once. `submit` and
  `function`, and the erasure of types in `type-erase`: the compiler resolves
  them and a call goes straight through.
* `hash_code`: the result depends on addresses and on bytes the program does
  not set (see the findings), so there is nothing about it to promise.
* The moves of `derived` and `file_raii` in `ro5`: the first do not compile when
  they are used (line 129 copies what line 104 deletes), and nothing uses the
  second.
* Metaprogramming, overloads, deduction, object layout, value categories, casts:
  decided by the compiler; there are no states at run time.
* What surrounds the modelled parts: logging, sleeps, failing system calls of
  the server, its clients' closing and messages longer than its buffer.

`PROJECT.json` lists every component with its reason and every hazard at its
line.

## Modules

A module is named after its program; its actions have the names of the functions
or steps of functions they model, and each names its lines. A step is one access
to shared memory: an atomic operation, a plain load or store that other threads
can observe, a mutex operation. What a thread does between two of them belongs
to the step before or after. Atomics have the default sequentially consistent
order, with two exceptions. The relaxed load of line 48 of the bounded queue is
modelled as returning any value the counter has had since the thread last loaded
it. `spinlock.cxx` takes the flag with acquire and clears it with release:
whoever takes the flag sees all that the thread that cleared it did before, and
one flag is all the synchronisation there is, so that the steps can be
interleaved as if they were sequentially consistent. A weak `compare_exchange`
may fail without a reason. `pc[t] = "x"` means that thread t is about to do step
x.

* `BoundedLocklessQueue`: `push` is `PushStart` (39), `PushSize` (43-46),
  `PushRecheck` (48), `PushClaim` or `PushClaimLost` (50), `PushWrite` (52, a
  plain store that a racing read sees half done), `PushPublish` (53-55); `pop`
  is `PopStart`, `PopAvail`, `PopRead`, `PopTake` or `PopTakeLost`. The value
  pushed under ticket i is i, so that "the right value" can be said. It
  implements `BoundedFifo`: claim a place, become visible in the order of the
  claims, leave oldest first.
* `FairSpinlock`: `TakeTicket`, `Enter`, the two halves of `count++`, `Unlock`.
  The variables are ideal counters and every comparison is modulo `Wrap`.
* `GroupLock`: `LoadToLock`, `Refused`, `Acquire`, `LoadToUnlock`, `Release`
  over the packed word (`State`, `Count`, `Admit`, `Dismiss`). It implements
  `GroupExclusion`.
* `Spinlock`: `main()` is `JoinLoop`, `Start`, `Report`; a thread is `Lock`,
  the two halves of `cnt ++`, `Unlock`. `loops` says whether the build keeps
  the loop of line 21, which has no effects and may be left out.
* `MCLocks` runs one of these three locks, and gives the threads their groups.
* `RCU`: the reader is `LoadGeneration`, `CountIn`, `Recheck`, `Undo`,
  `Dereference`, `ReadObject`, `ReadUnlock`; the writer is `AssignData`,
  `Publish`, `Synchronize`, `Poll`, `Delete`.
* `ThreadPool`: `main()` is `SubmitLock` to `SubmitReturn` for each task, `Get`
  for each result, and `Stop`, `StopNotify`, `Join` for each worker; a worker is
  `WorkerLock`, `Check`, `Block`, `Start`, `Finish`, `PopBack`, `Again`. That a
  worker has found its predicate false and is not asleep yet is a state of its
  own (`"block"`).
* `LocklessQueue` and `LocklessStack`: as above; the stack has addresses, which
  `new` returns again once they are deleted, and implements `Lifo` until a
  popper goes by a node that another has deleted since (`stale` says who would,
  `misused` that one did, and there the model ends); the queue has a history of
  the nodes in the order `tail` took them. `MCLockless` runs
  one or the other.
* `H2O` has both versions, and a history of the characters of a round, which is
  over after three whatever they are; `TcpServer` the server, its clients, and
  epoll's ready list (external: modelled from how lines 163-187 use it).
* `TypeErase`: a client, or a task that the worker runs, submits in `Lock`,
  `Emplace`, `Notify` and waits in `Get`; the worker is `Acquire`, `Check`,
  `Block`, `PopFront`, `Execute`, `Return`, `Unlock`. The mutex knows its
  holder, because it refuses that thread too (`Hangs`).
* `MCEndless` runs one of these three programs.
* `SharedPtr`, `WeakPtr`: handles and counts, with the steps of destructors,
  `reset` and `lock` apart. Using a null or freed control block is a step
  (`Crash`) and not a missing one.
* `ObjectPool`: positions are (page, offset) pairs and the memory holds the
  lists' pointers; the client may overwrite what is in a block it has (`Use`).
* `Vector` and `LinkedList` implement `ListStore` (each object has a list of
  its own), and `PriorityQueue` implements `LargestFirst` (a bag). The initial
  state of `Vector` chooses elements with a destructor or without (then `dead`
  says which of a buffer's places were destroyed). `LinkedList` frees the nodes
  that nobody refers to, and keeps in `leaked` those that only refer to each
  other.
* `ShortString`: the byte that the layouts share (`low`) holds what the code
  stores there, and tests are made on it and not on what was meant.
* `RuleOfFive`: `file` and `block` are what the process has open and allocated;
  an operation acquires several things one by one, each of which may fail.
  `escapes` says which operations of `T` throw what no handler takes (a
  constructor in line 31, since line 32 takes `std::exception` only; an
  assignment in line 50), and `lost` is what that leaves behind unowned.
* `Sieve`: one step per iteration of the two loops.
* `Serialization`: the recursion of `archive_one` over the types of a book as a
  walk over its fundamental parts. A place says where in the book the walk is,
  `Follow` which part comes next, `Value` and `Assigned` what is copied there;
  `Write` and `Read` are one call of `archive_trivially` each, and a part that
  does not fit, or the last one, ends the call (`serialize`, `deserialize`).
  The walk that reads goes by the sizes it has read, not by those of the book
  that was written. The buffer holds each part at the position at which it was
  written. `Receive` lets the reader have fewer bytes than were written.
* `MCMemory` runs one of `ObjectPool`, `Vector`, `RuleOfFive`, `Serialization`;
  `MCClasses` one of the other six from `SharedPtr` on.
* `X_proofs`: theorems about `X`. Those of the programs that one of the five
  `MC` modules runs are about that module's specification with its constants
  left open (`ASSUME Constants` says what is required of them).

Operators called `X_Something` placed before a definition `X` are variants of
it with a plausible mistake. `PROJECT.json` pairs each property with one that
violates it.

## Runs

| Run | Instance | Shows |
|---|---|---|
| `bounded_queue` | 2 producers, 2 consumers, 2 slots, 3 tickets | FIFO refinement, truth of full and empty, counters, publication |
| `bounded_queue_livelock` | 2 producers, 1 consumer | **violation**: `push` loops without reloading its shadow |
| `locks` | 3 threads, 2 iterations: ticket lock with 3 values of an int; group lock with groups of 2 and 1; spinlock | exclusion and order across the wrap-around; word, assertions, group exclusion; no increment lost; nobody waits for ever |
| `rcu` | 3 readers, 3 updates | safety of readers, exact counts, reclamation, progress of both sides |
| `thread_pool` | 2 workers, 4 tasks | wake-ups, each task once, results, stop |
| `thread_pool_stop` | 2 workers, 2 tasks | **violation**: the stop notification can be lost |
| `lockless` | stack: the 2 pushers and 3 poppers of its test, 3 pushes, 2 addresses; queue: 2 and 2, 3 pushes | stack refinement and no freed node accessed, until a popper goes by a node deleted since; order of the queue |
| `lockless_queue_crash` | 2 and 2, 3 pushes | **violation**: `pop` follows a link that is not made yet |
| `endless` | H2O, both versions; server with 2 clients, messages of 3 bytes in pieces, 2 events at a time; type-erase with 2 clients | rounds and assertions; events that are still true; tasks in order under the mutex; progress of all three |
| `classes` | queue: up to 6 of 3 values; shared: 3 handles, 2 objects; weak: 2 and 2 handles; 2 lists, 4 nodes; 2 strings; sieve to 40 | the classes' contracts |
| `memory` | pool: 2 pages of 3 units of 2; 2 vectors of up to 3, with and without destructors; 2 objects with 3 descriptors and 3 arrays; books of up to 1 person and 2 phones with spans of 0 to 64 bytes | blocks, lists, owners whatever throws, and the round trip of a book |
| `weak_ptr_reset` | 2 and 2 handles | **violation**: destructor after `reset` uses a deleted block |

Bounds. The threads of a program differ only in what they call, and every race
in the list of hazards needs two of a kind and one of the other; three readers
of RCU let one be late twice. The ring of 2 slots and 3 tickets has each slot
claimed, published, taken, and the first claimed again. `Wrap = 3` makes the
ticket lock wrap in each behaviour with as many threads as values, the extreme
its assumption allows. `Unit = 4` leaves the group lock's count just enough
room. Three pushes on two addresses make the stack use an address again, also
while another popper looks at it. The threads of a kind run the same code and no
property names one, so `MCLockless` counts their permutations as one
(`SYMMETRY`; the run has no liveness property). The pool's two pages fill up, so
each of the three cases of `allocate` is reached with a free list that is empty,
and not. A heap of 6 has three levels and an inner node with one child.
`MaxReuse` in `WeakPtr` bounds how often a handle that has been reset is reset
again. Four nodes are the heads of two lists and two elements, in one list or
one in each; that nodes of a destroyed list stay is seen when no room is left
for others. Literals of 0, 11, 12, 23, 24 and 128 characters are those at which
`string` changes its layout or the shared byte its value; the appends reach 22,
23 and 24. Three descriptors and arrays are one less than two `derived` need, so
that each acquisition fails in some behaviour. The largest book takes 64 bytes,
and the spans end before and after each of its parts. A sieve of 40 has the
squares of three primes and products of three factors. The bounds that stand in
guards are `MaxTail`, `MaxPush`, `MaxSize`, `MaxPages`, `MaxReuse`, `MaxNodes`,
`MaxFiles`, `MaxBlocks` (the last two are also what a process has in the end);
`MaxPeople`, `MaxPhones` and `MaxRoom` bound what is chosen initially; `Loops`,
`Updates`, `N` and `M` are the programs' own.

Deadlock is checked in every run but `lockless` (a queue that crashed and a
stack that was misused stop, and pushes are bounded), `classes`, `memory` and
`weak_ptr_reset` (a serialization and a sieve end, a crashed program stops, and
objects are made a bounded number of times). Where a program ends, a step that
changes nothing stands for the end (`Terminated`, `Returned`, `Quiet`).

Fairness. Weak fairness of each thread's steps: the operating system's
scheduler runs every thread. Strong fairness of a successful weak
`compare_exchange` where the run has a liveness property: the architecture does
not fail it spuriously for ever. This is also an assumption about contention:
a thread whose `compare_exchange` could succeed again and again does so in the
end, which the code does not enforce. Strong fairness of `SubmitLock` and
H2O's `Lock`: a mutex is not refused for ever. Weak fairness of `Deliver`: TCP
delivers. Nothing is assumed of spurious wake-ups of condition variables; they
may or may not happen, and that is why the lost notification of
`thread_pool_stop` is a real one. In `TypeErase` the clients and the worker have
weak fairness only: a client may fail to get the mutex for ever while the
worker takes it again and again, so what is promised starts when the task is in
the queue. The clients of the server wait for an answer of any number of
messages: `recv` returns the answers that are there together.

## Proofs

For any constants that satisfy the modules' assumptions (any number of threads,
capacity, iterations and so on):

* `BoundedLocklessQueue_proofs`. The inductive invariant says what each local
  shadow knows: a producer between claim and publication owns its ticket, its
  ticket lies between `consumer_tail` and `producer_tail` and differs from all
  others; the slots of published tickets hold them; a consumer's value is the
  ticket's if `head` is still its shadow. `PublishedIntact` alone is not
  inductive: a claim keeps it only because tickets of writers are distinct and
  less than Cap apart, which gives distinct slots (`ModDistinct`). From it
  follow the type invariant, `CursorsInOrder`, `PublishedIntact`, `TakesOldest`,
  `VerdictsReal` and the refinement of `BoundedFifo`.
* `MCLocks_proofs`.
  - `TicketInv`: tickets in use are distinct and lie in `flag .. seq-1`
    (`Tickets1to1`), whence there are at most as many as threads, and equal
    residues mean equal tickets. From it the types, exclusion, the count of
    increments (`OneTicketServed`) and the order of entry.
  - `GroupInv`: the word is `Group * Unit + |Holders|` (`WordIs`), a thread's
    shadow is a word that was possible, and one taken while inside names the
    thread's own group (`Shadows`). From it `WordExact`, `AssertionsHold` and
    the refinement of `GroupExclusion`.
  - `SpinInv`: the flag is set just while one thread is inside, and `cnt` is the
    number of threads that have stored, among them the one inside once it has
    (`CountIs`). From it `SpinlockCounts`, also of what `main()` prints.
* `RCU_proofs`. The counts are the cardinalities of the sets of counted readers;
  a reader whose second load confirmed its generation is in one that is not
  behind the next to delete, and not that one either once the writer has seen
  its count zero; and where the writer is says how far its counters are apart.
  From it: types, `NoUseAfterFree`, `CountsExact`, `Reclaimed`.
* `ThreadPool_proofs`. A queue changes only under its worker's mutex, so a
  worker that found it empty finds it so until it sleeps: from that
  `SubmitWakes` and `TaskStaysPut`. A queue holds increasing tasks of the
  worker's residue among those handed out; of these, only the one about to be
  removed has run; and a task handed out that has not run is in some queue: from
  that `RunsOnce`. `RunsOnce` alone is not inductive, since it does not say that
  a task that has run is not in a queue a second time.
* `MCLockless_proofs`, the stack (`StackInv`). `head` leads along the pointers
  over distinct nodes to null (`StackPath`); the node of a pusher is on no list
  and nobody else's (`PushersOwn`); the node a popper has taken is live, on no
  list, and no other popper's (`PopperHas`); the node a popper looks at, unless
  it was deleted since it was loaded, is live and its pointer the one the popper
  has read, be it still on the list or taken by another (`PopperSees`). So a
  `compare_exchange` that finds the address it expects finds the node, although
  addresses are used again, or the popper is one of `stale` and the behaviour
  ends. The path is unique, so the abstract list that `Lifo` walks is the one
  the invariant names. `StackIsLifo` holds for any number of poppers;
  `OnePopperIsSafe` adds that with one popper the case that ends it never
  occurs, whereas with two it does (see the findings).
* `MCLockless_proofs`, the queue (`QueueInv`). The order in which `tail` takes
  nodes is fixed by line 28: no node twice, `tail` last. Each pair of neighbours
  in it is linked or is what some producer is about to link, links lead nowhere
  else, and a node that is not in the order yet belongs to one producer. What
  consumers have taken lies strictly before `head`, so no two take the same.
  From it `QueueKeepsOrder`. The proof shows that nothing is wrong with the
  queue but the missing link: `NoBadDereference` is what is violated.
* `MCEndless_proofs`.
  - `ServerInv`: epoll's list and the list being handled have each socket once
    (`Lists`), what is in the second is readable (`StillTrue`), a registered
    socket with something to read is in one of them (`Edges`), and a client that
    sends is registered or in the backlog (`Connected`). A handler takes from
    its own socket only, and the kernel adds only; so an event is still true
    when its turn comes, and no edge is lost, whatever the number of clients and
    events.
  - `TaskInv`: the mutex is held by the one thread that is at a line that uses
    the queue (`Mutex`), the worker has a task just while it runs it
    (`Running`), and tasks that ran, that run and that wait are, in this order,
    those that were submitted. A worker that hangs waits for a mutex that only
    itself could give back, so it hangs for good.
  - `WaterInv`: what is printed in a round, which ends after its third character
    only, is what has been counted but for the
    characters of threads between their claim and their count. In the atomic
    version (`AtomicInv`) a claim is in the word, a print in the second
    counter, and a thread's shadow is a word that was possible
    (`AtomicShadows`), which the assertions need; a reset happens in two steps,
    between which the word is full and keeps everybody out.
* `MCClasses_proofs`.
  - `SharedInv`: the count is the number of handles that refer to the object and
    of those about to release it (`Counted`); while there is one of either
    the object lives and nobody deletes it, and when there is none and it lives,
    exactly one handle is about to delete it (`Lifetime`). From it
    `SharedLifetimes`, for any interleaving of any number of destructors.
  - `WeakInv`: both counts are cardinalities of sets of handles, and the shared
    handles together count once as a watcher until the last of them has given
    that up (`WeakCounts`); one handle at most is that last one, only when
    nobody uses the object (`Ending`); the block lives just as long as the weak
    count is above zero (`BlockLives`), and the object until the last `reset`
    has returned: both live as long as needed and are deleted when they are not
    (`NothingLeaks`). All of it until a handle is used after its
    `reset` (`misused`), from which on the code itself breaks it.
  - `SieveInv`: what is crossed out is a product; the products of every number
    below `i` are crossed out, also of one that is itself crossed out and passed
    over, since its products are products of its divisor; the inner loop stands
    at a product. From it `PrimesFound`: no prime is ever crossed out, and in
    the end what is left is prime.
  - `TextInv`: the 24 bytes of each living string lie as its text's length
    demands, and the shared byte tells which way (`Layout`).
  - `QueueInv`: `HeapOrder`, which is inductive because it excepts the value
    being sifted only against its parent (or its children) and demands that its
    children are in order with its parent. A swap permutes positions, so the
    bag is kept, and the root is a largest by the least position that would
    contradict it. From it the refinement of `LargestFirst`.
  - `RingInv`: each list is a ring of distinct nodes, its head among them, every
    node that lives is in exactly one list or leaked (`RingsApart`), and the
    leaked nodes are linked among themselves, each from another (`Orphans`).
    Hence every node but the one popped is referred to, and what is freed when
    nobody refers to it is that one. From it the refinement of `ListStore`, and
    that walking backward and forward finds the same.
* `MCMemory_proofs`.
  - `OwnerInv`: the open descriptors are those of the objects, those of their
    members and those that a failure lost, no one twice; and so are the arrays
    (`Partition`, once for each). What an object holds agrees with what it says
    it holds (`Intact`), and what is not there holds nothing (`Bare`). What is
    lost went with an exception that `escapes` allows, a file alone with one of
    line 31 and a file and an array with one of line 50 (`Rightly`). From it
    `ResourcesOwned`, whatever throws in whatever order.
  - `PoolInv`: the blocks cut from the pages and not given out are exactly those
    on the free list, each once, and the pages exactly those on theirs
    (`Chain`), over pointers kept where no client writes. From it
    `PoolBlocksRight`.
  - `VectorInv`: buffers and vectors belong together one by one (`Owners1to1`),
    what is not there is empty (`Absent`), and the places below a vector's size
    are in its buffer and not destroyed (`Fitting`). With `NoneDead` (without
    destructors nothing is destroyed) it gives the refinement of `ListStore`,
    until the code uses an element destroyed before or a place that is not
    there.
  - `BookInv`: places are ordered as the walk visits them (`Before`), and
    `Follow` is the next place in that order (`FollowIs`, by cases of its
    definition), whatever the book. Hence the position is the number of bytes of
    the places before (`Position`), positions of different places differ, and
    the buffer has the value of every place that was passed (`Written`). The
    reader has the same parts up to its place (`Agree`), so that its next place
    is that of the writer although it sees its own sizes only: each part is
    assigned without touching those before (`NewPersonIs`). It never passes the
    place at which writing stopped, because its span is not longer. From it
    `ArchiveRoundTrip`. A book is a sequence of records of sequences, of any
    length; the order of places takes the part of an induction over it.

Where an induction over data would be the natural argument, the least element
of a set of numbers takes its place (the first position at which two paths
differ, the least heap position larger than the root, the least divisor), and a
walk that a model defines by choosing is identified with the path that the
invariant gives.

Assumptions used: the named ASSUMEs of the modules. `FairSpinlock` needs at
most as many threads as an int has values; `GroupLock` fewer threads than 2^30;
`RCU` that `main()` assigns no more generations than the arrays hold, which the
code does not check; `ThreadPool` at least one worker and one task;
`LocklessQueue` that no thread both pushes and pops. The classes need finite
sets of objects and handles and, where they count, bounds that are numbers; the
archive takes any set of strings. No proof uses the values of a configuration.

Only model-checked is liveness, since the prover handles neither fairness nor
ENABLED: `ClaimedIsPublished`, `EveryoneThrough`, `WriterFinishes`,
`LockReturns`, `ResultsArrive`, `AwakeWorkersStop`, `WaterGoesOn`, `ServerReads`
and `TasksExecuted`. Every other property of a passing run is a theorem; the
types of the bounded queue and of RCU are proved and have no run.

## What the checks found

Violated, with a run: the livelock of `push` (`bounded_lockless_queue.cxx:48`),
the lost stop (`thread_pool.cxx:92`), the link made too late
(`lockless_queue.cxx:28-36`), the destructor after `reset`
(`weak_ptr.cxx:34-54`). Met while modelling, and part of the models as steps:
null handles and the control block that `make_shared` does not construct
(`shared_ptr.cxx:69`, `:98`); the vector of capacity 0, `push_back` of an
element of itself, and elements destroyed twice (`vector.cxx:20`, `:107`,
`:124`, `:140`, `:163`); lists whose nodes stay (`linked_list.cxx:19`); long
strings without their characters (`string.cxx:62`); the path that is swapped
with itself and the failures that leak (`ro5.cxx:79`, `:32`, `:50`); the loop
that `main()` joins (`spinlock.cxx:21`); the popper that reads a node another
has deleted (`lockless_stack.cxx:30`); the task that submits with the worker's
mutex held (`type-erase.cxx:93`). Outside the models: the client that closes
(`tcp_server.cxx:128`), moves that do not compile or close twice
(`ro5.cxx:106`), hashes of addresses (`hash_code.cxx:57`). What holds, holds
although it looks doubtful: the read of a slot before it is owned, full and
empty from two loads, the two-step read lock of RCU, the two-step reset of H2O,
the notification after the mutex is given up, the byte two layouts share.

The properties of pointers and vectors are stated for programs that stay clear
of those steps: `SharedPtr` excludes the objects of `make_shared`, `WeakPtr`
runs until a handle is used after its `reset` and `LocklessStack` until a popper
goes by a deleted node (`misused` in both), and a `Vector` that broke stops.
`EveryoneThrough` speaks of the build that leaves the spinlock's endless loop
out, and `ResourcesOwned` says that nothing is lost but to what T throws and
nobody handles. `ObjectsIntact` excepts the path of an object that was assigned
to, `RingsRight` says that exactly the nodes of destroyed lists stay,
`StringsRight` speaks of the characters of short strings only, and `TasksRun` of
a worker that does not hang: what these leave out is what the findings say.

## Plan

1. Done: the concurrent programs, the server, the classes, and of the small
   programs those with state (`type-erase`, `spinlock`, `linked_list`,
   `string`, `ro5`, the sieve); `Vector` with destructors; the proofs of every
   safety property and refinement that a passing run checks.
2. Left to model: `TcpServer` with clients that close and with messages longer
   than `BUFFER_SIZE`, for which the code would have to say what it does (it
   asserts that nothing of the kind happens). Everything else of the inventory
   is modelled or listed above with the reason why it is not.
3. Left to prove: liveness, once the prover can. The invariants above already
   say what is true when a thread waits.
