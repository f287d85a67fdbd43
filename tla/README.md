# TLA+ verification of the cs6210 projects

The repository holds four independent C programs: a user-level thread library
(`gtthreads/`), a set of barriers (`barrier/`), recoverable virtual memory
(`rvm/`) and a caching proxy (`proxy-server/`).  This directory holds TLA+
models of their core logic, TLC configurations that check the models on small
instances, and TLAPS proofs about all four for every size.

    tlc -config GTMutex.cfg GTMutex       # check a model
    tlapm GTMutex_proof.tla               # check its proofs

`PROJECT.json` lists the runs, the source lines of every definition, one mutant
per checked property (a plausible bug that the property detects), the hazards of
the code with the properties that cover them, and the theorems.  Operators named
`mutant_...` are those bugs; nothing else refers to them.

## 1. Inventory

| part | state | operations | what is hard |
|---|---|---|---|
| scheduler, `gtthread_sched.c` | run queue, join queues, thread table, current context, alarm mask | init, create, join, exit, yield, cancel, self, timer handler, `schedule_next` | pre-emption between any two calls and in the unmasked tail of each; cancels of threads in any queue |
| mutex, `gtthread_mutex.c` | `locked`, wait queue | init, lock, unlock, destroy | moves threads between queues behind the scheduler's back |
| steque, `steque.c` (three copies) | linked list | push, enqueue, pop, cycle, front | ends the process on underflow |
| OpenMP barriers, `gtmp_counter.c`, `gtmp_tree.c`, `gtmp_tree_orig.c`, `gtmp_mcs.c` | counters, senses, flags in shared memory | `gtmp_init`, `gtmp_barrier` | re-use of counters and flags by threads already in the next episode |
| MPI barriers, `gtmpi_counter.c`, `gtmpi_dissemination.c`, `gtmpi_tournament.c` | messages in flight, per-process counters | `gtmpi_init`, `gtmpi_barrier` | who sends to whom for any number of processes; sends that may block; re-used tags |
| RVM, `rvm.c` with `seqsrchst.c` | segment files, redo.log, memory, undo logs, transactions | init, map, unmap, destroy, begin, about_to_modify, commit, abort, truncate | crashes between and within disk writes; several transactions; several processes one after another |
| proxy caches, `lru.c`, `lfu.c`, `lrumin.c`, `rnd.c` | entries, URL table, priority queue (`lrumin.c`: one per band of sizes), free ids | init, get, set, memused, destroy | three data structures that must agree; which entry is evicted; the search through the bands and its unsigned `eviction_size` |
| data structures, `hshtbl.c`, `indexminpq.c`, `indexrndq.c` | arrays | put, get, delete; insert, delmin, increasekey; enqueue, dequeue | deletion from open addressing; heap order |
| proxy, drivers and examples | | XML-RPC and libcurl glue, benchmarks, philosophers | input and output only |

How the parts interact.  The mutex shares the scheduler's run queue and calls
its `unschedule_cur` and `swapcur`; the timer handler runs the same rotation as
`gtthread_yield`.  The threads of a barrier share only the barrier's memory, the
MPI processes only messages.  Successive processes of RVM share the segment
files and `redo.log`.  A cache calls its hash table, heap and free stack one
after another; nothing in the proxy is concurrent.

What makes each part correct:

* scheduler and mutex: the thread that runs is the front of the run queue; a live
  thread is in exactly one queue; join returns after its target is over; runnable
  threads run and cancels take effect; waiting threads are not overtaken; a thread is
  ready, joins, waits or is over, whatever queue that puts it in; one thread is inside
  of a mutex (this one does not hold);
* barriers: nobody leaves an episode before everybody has entered it, and then
  everybody leaves, over any number of episodes;
* RVM: what was committed is on the disk at every instant (this one does not hold after a
  crash in the middle of a line, or with a newline in the data, see section 5); only a
  commit changes what a restart finds; memory outside a transaction is what was
  committed; abort restores;
* caches: table, heap, free stack and entries agree; the memory in use stays
  within the capacity; the victim is the one the policy names; `lrumin.c` looks only at
  bands it has, tries all of them, and needs one eviction where a larger entry is cached.

## 2. Modules

| module | models | extends / instantiates |
|---|---|---|
| `GTSched` | the scheduler | |
| `Threads` | what the thread library promises of its threads (abstract) | |
| `GTMutex` | the mutex, composed with the scheduler | extends `GTSched`, instantiates `Threads` for the refinement |
| `GTMutex_proof` | proofs about both | extends `GTMutex` |
| `Barrier` | what every barrier promises (abstract) | |
| `CounterBarrier`, `TreeBarrier`, `McsBarrier` | the OpenMP barriers | instantiate `Barrier` for the refinement |
| `MpiBarrier` | the three MPI barriers | instantiates `Barrier` |
| `CounterBarrier_proof` | proofs about the centralized barrier | extends `CounterBarrier` |
| `TreeBarrier_proof` | proofs about the combining tree | extends `TreeBarrier` |
| `McsBarrier_proof` | proofs about the MCS barrier with up to four threads | extends `McsBarrier` |
| `MpiBarrier_proof` | proofs about the three MPI barriers | extends `MpiBarrier` |
| `RVM` | recoverable virtual memory | |
| `MCRVM` | its scopes and its symmetry for TLC | extends `RVM` |
| `RVM_proof` | proofs of its types and of abort | extends `RVM` |
| `RVMDurable_proof` | proofs about what is on the disk | extends `RVM_proof` |
| `Loop` | a while loop, as what its body makes of a state in n turns | |
| `HashTable`, `IndexMinPQ` | the caches' data structures, as operators | extend `Loop` |
| `CacheStore` | what a caller of `gtcache.h` sees of any cache (abstract) | |
| `Cache` | the caches lru, lfu, rnd and lrumin | instantiates the data structures, and `CacheStore` for the refinement |
| `Cache_proof` | proofs about the data structures and the four caches | extends `Cache` |
| `MCCache` | their symmetry for TLC | extends `Cache` |

### GTSched and GTMutex

The state is the library's: `run_queue`, `join_queue[u]` (the `joining` field of
thread u), `cancelreq`, `completed`, `retval`, the context on the CPU (`running`)
and, for a thread inside a library call, which one (`pc`) and about whom
(`target`).  `cpu` says what the process does: run the code of a thread, run
`schedule_next`, or be over.

Every library call blocks SIGVTALRM while it works on the queues, so the blocked
part of a call is one step.  What a call does after it unblocked the signal is a
step of its own, as the timer may strike before it: the store of a cancel request
(`CancelStore`, line 410) and the read of the joined thread's status (`JoinReturn`).
`schedule_next` is one step per iteration of its loop.  A look at an empty
run queue ends the process (`Underflow`), as `steque_front` does.  A front that is
completed without a cancel request would make the loop spin; the model has no step
then, so TLC's deadlock check would report it.

`gtthread_mutex_lock` switches with `swapcur` and not through `schedule_next`, so a
thread with a cancel request may get the CPU; `LockBlock` keeps that.  The
application may call anything at any time, with the rules of pthreads for the
mutex: a thread locks a mutex it is not inside of, unlocks one it is inside of, and
destroys one that nobody is inside of or waits for.

`Threads` says what a caller of the library may rely on, without a queue: each thread
is not created yet, ready, joining another thread, waiting for the mutex, or over.
`WhereIs` maps the queues to that: it looks a thread up in `completed`, the run queue,
the wait queue and the join queues.  `ImplementsThreads` then says, for instance, that
the end of a thread makes all of its joiners ready in the same step, that no thread
completes while it joins or waits, and that only the mutex wakes its waiters.

### Barriers

One step per access of shared memory.  The Makefile compiles with `-g` and no
optimization, so the spin loops, whose variables are not volatile, read memory
each time; loads and stores take effect in program order, apart from the usual
store buffer of x86, which delays a store but does not reorder it with other stores,
and every call has an atomic operation that empties it.
`entered` and `left` are history variables and are the whole state of `Barrier`, so
the refinement mapping is the identity on them.

`TreeBarrier` has a stack of nodes per thread for the recursion of
`gtmp_barrier_aux`.  Its initial state picks one of two files.  In `gtmp_tree.c` a
thread arrives at a node with one atomic instruction (`FetchAndSub`); in
`gtmp_tree_orig.c` with three plain accesses (`CriticalTest`, `CriticalLoad`,
`CriticalStore`) in a critical section that all nodes share, but that does not cover
the reset of a node (`Reset`).  What a thread does after it has arrived is the same
(`Arrive`).  `released` is a third history variable, for the proofs.  In
`McsBarrier` the four reads of a slot scan are separate steps in any order, and the
index counter wraps at `VpidWrap` (2^32 in the code).

In `MpiBarrier` a program is a list of sends and receives per rank (`operations`), and
of byes where a round of the tournament has no opponent (`Pass`); the initial
state chooses which of the three barriers is linked and whether `MPI_Send` buffers
or waits for its receiver, both of which the MPI standard allows.  Messages between
two processes stay in order and are matched by source and tag.

### RVM

Variables are split into what is on the disk (`file`, `log`), what is in the process
and three history variables (`want`, what must be found after a crash; `snap`, memory
at the begin of a transaction; `damaged`, the cells over which the log holds, or has
played, something else than was committed).  A memory cell is one unit;
`rvm_about_to_modify` declares one cell at a time.  Truncation is one step per line
played, commit one step per line written, and `Crash` may come between any two steps.
After a crash another process starts on the same disk.  A commit writes the whole
redo log, which all transactions share, so also cells that others have declared.

A line of `redo.log` is not always what the commit meant (`parses`, and its value):
* `CrashInLine` leaves part of a line.  `rvm_truncate_log` dies of one that lacks fields
  (`torn`).  One whose first three fields are complete is played, with whatever follows in
  the buffer, over what the cell held before; the cell is then `damaged`, and `want` stays
  what the earlier commit made it.  One that lacks only its end is played as it was meant.
* The data are raw bytes (line 334) that `getline` reads back (line 434).  `Split` are
  the values with a newline among their bytes.  `CommitLine` writes two lines for such a
  value: the first is played with the right value if the newline is the last byte, and with
  `Garbage` if not; the second (`rests`) lacks fields, or happens to be a line about any
  cell at all.  One newline per value, and cells up to `MaxCells`, are bounds.

`CrashInMap` leaves a file of which `rvm_map` has written only a part.

`rvm_map` extends a file only by what the segment grows in this process (`extended`):
a segment that the process sees for the first time keeps the file it has, and its
memory past the end of that file is `Garbage`.  The durability properties ask nothing of
such cells; that they exist is the finding of `rvm_extend`.  What a process finds after
a crash is stated cell by cell (`recovered`): the last line of the log about the cell,
or else the file.  That is what playing the lines one after another amounts to
(`TruncateLine` does play them one by one), and needs no recursion.

`rvm_init` allocates `redolog` and never sets it (line 61).  `Start` takes it to be
empty, as memory fresh from the system is.  With anything else in it the process dies
in its first declaration or commit, before it writes a line, which is the model's
`Crash` there, or an abort empties it.  Failures of `fopen`, `malloc` and `mkdir` are not modelled.

### Caches

`Cache` is one model of `lru.c`, `lfu.c`, `rnd.c` and `lrumin.c`, which differ in the
queue and its keys; the initial state picks the policy and a hash value for each key.
The hash value of a key is a slot of the table (`HashesAssumption`): URLs are ASCII, since
`hshtbl_hv` computes with chars, and where char is signed a byte from 0x80 on can make it
negative.  `Clock` may return the same time twice but never an earlier one: nobody sets
back the clock that gettimeofday reads.
`gtcache_set` is `BeginSet`, one eviction per turn of its loop, then `Insert` or
`Refuse`.  The environment is that of `cache_perform.c`, the one caller in the
repository: a key is set only after a get missed it.  The heap and the hash table
are translated operation by operation; the loops of swim, sink and hshtbl_delete are
a turn of the loop, repeated (`Loop`) as often as the array has places: a turn after the
last one changes nothing.  `keycmp` returns a difference of long times
as an int: `IntHalf` is half the range of int in ticks, and the run keeps times
within it.

`lrumin.c` has a heap for each band of sizes.  `get_band` computes the band of a size;
`num_bands` is what the driver asks `gtcache_init` for, and counts from another
constant.  `search` is the order in which the loop of `gtcache_set` (lines 195-228) tries the
bands, one at a time with `get_lru_band`: the larger ones upwards, then from the band of
`eviction_size` downwards.  Each cache refuses a value when it finds nothing to evict
(`Refuse`): for `lrumin.c` that is when this search ends without a band, so that a search which
leaves one out refuses what would fit, and `ImplementsStore` fails.
`eviction_size` is a size_t, from which each victim is subtracted, modulo
2^`SizeBits`: it wraps when the victim is larger than what is still needed.
`BandAllocated` and `LargerVictimSuffices` say that neither ever matters.

`CacheStore` says what a caller of `gtcache.h` may rely on, without entries, a table or
a queue: each key has one value or none, and a set in progress gives up keys one after
another, while there is no room and no longer, and then stores its value.  It refuses a
value only if that is larger than the whole cache.  `Contents` is what `gtcache_get`
finds for each key, through the hash table.  `ImplementsStore` thus says, for instance,
that no deletion in the middle of a run of colliding keys makes another key disappear, and
that an evicted key is not found again.  Which key is given up is left open; that is
`EvictsLeast`.

## 3. Runs

| run | instance | what it shows |
|---|---|---|
| `mutex` | 3 threads, 2 of them cancellable, timer on | types, `RunningIsFront`, `MOnePlace`, `JoinAfterCompletion`, `NeverMovesBack`; live: `RunnableRuns`, `CancelTakesEffect`; refinement: `ImplementsThreads` |
| `mutex_exclusion` | 3 threads, no timer | violated: two threads inside |
| `counter_barrier` | 4 threads, 3 episodes | `IInv`, safety, refinement, liveness |
| `tree_barrier` | 5 threads, 3 episodes, both files | node counts, top-down release, refinement, liveness |
| `mcs_barrier` | 4 threads, 2 episodes | unique indices, agreed sense, refinement, liveness |
| `mcs_five` | 5 threads, 2 episodes | violated: a thread leaves early |
| `mpi_barriers` | 6 processes, 3 episodes, 3 programs, both kinds of send | messages match episodes, refinement, liveness |
| `rvm` | 1 transaction at a time; 2 segments of a cell, or 1 segment that grows to 2 cells with the lines of 2 commits in the log, or 1 segment with newlines in its data | durability but for damaged cells, `OnlyCommitsChange`, current memory, abort |
| `rvm_lost` | 2 segments, 2 transactions | violated: a commit that writes nothing |
| `rvm_torn` | 1 segment, 2 commits | violated: after a crash in a line an earlier commit is not seen |
| `rvm_extend` | 1 segment, 2 sizes | violated: a mapped segment longer than its file |
| `cache` | 4 policies, 3 places, 4 keys on 2 neighbouring hash values, 4 sizes in 3 bands | the structures agree, memory is bounded, heap order and the right victim for times within half the range of int; lrumin: only bands that exist, one eviction where a larger entry is cached; refinement: `ImplementsStore` |

Why the bounds are enough.  Three threads are the fewest that have one running,
one joining or waiting and one to cancel or wake them.  Three episodes use every
sense twice and every counter three times; two in `mcs_barrier`, since its flags are
compared with a sense of two values and a thread is at most one episode ahead.  Five
threads give the tree leaves of one and of two threads under two levels; six processes
give the tournament a champion, losers that never won, one that won and then had a bye,
and the dissemination barrier a number that is not a power of two.  Four keys for three places with
colliding hash values make deletions from the middle of runs that wrap around the
array; the sizes include one of which three leave memory but no place, one that needs several
evictions of smaller ones, so that `eviction_size` passes the edge of a band, one larger than the
cache, and victims larger than what is needed, so that `eviction_size` wraps.  The three scopes of
`rvm` (module `MCRVM`) are those in which something new can happen: two segments in
one transaction, a segment whose size changes under lines of the log, and lines that
damage a cell other than the one they are about; their product is too large for TLC.  `MaxMods`, `MaxLog`, `MaxTime`, `MaxHits`, `Episodes` and
`MaxThreads` are bounds of the environment only: no step of the code reads them.  `MaxCells` bounds
the files that are mapped, and the cells that the rest of a split line may be about.

Deadlock is checked where the system never has to stop (threads, RVM, caches).  The
barrier programs end after their last episode, so those configurations turn the
check off and `BarrierLiveness` tells an end from a stop.

Symmetry is used for RVM segments and transactions and for cache keys, in runs of
safety properties only.

### Fairness

* `MFairSpec`: `schedule_next` is sequential code that runs on, and the timer of
  `gtthread_init` is periodic; SIGVTALRM stays pending while it is blocked, so it is
  delivered in application code again and again.  No fairness is assumed of the
  application: a thread may loop for ever, and `RunnableRuns` holds nonetheless.
* Barriers: the operating system runs every thread that is inside of the barrier.
  Nobody is forced to call the barrier.
* MPI: processes run, and what was sent is delivered.  `BarrierLiveness` there has
  the premise that sends buffer for the dissemination barrier only: all its
  processes send first, and without a buffer all would wait.
* RVM and the caches make no liveness claim; both are sequential.

## 4. Proofs

All proof modules are about any number of threads, segments, transactions or cache
entries; the
assumptions are those declared in the modules (`MaxThreads`, `Quantum`, `Episodes` and
the like are naturals, the set of barrier threads is finite, names differ, a cache has
room for an entry and its sizes are size_t's) and those named with a theorem below.

`CounterBarrier_proof`: `IInv` is inductive.  `BarrierSafety` is not: it needs
that `count` is the number of threads minus those that arrived and have not seen
the sense flip (`CountOK`), that the one who resets does so with all others spinning
(`OpenerOK`), that a thread between its read of `sense` and its decrement still reads
the old episode (`SenseOK`), and that all threads agree on how many episodes are over
once those released but still spinning are counted (`EpisodeOK`).  From it follow
`Safety`, and `Refinement`: every step is a step of `Barrier` or a stutter.

`TreeBarrier_proof`: the same for both versions of the combining tree, and the counts
of its nodes.
* The tree.  Below the leaves, `slot` numbers the threads as a heap would, so that
  every arrival at node n is that of child 2n+1 or 2n+2, whether a node or a thread
  (`Children`: `k` counts them).  `TreeSizeAssumption`, about the size of the tree, is
  what the proofs use in place of powers of two, of which the provers know nothing; TLC
  evaluates it in the runs.
* The invariant.  A thread `Carries` the children through which it came up and `Holds`
  those of them it will release.  `HolderOK`: no node is held twice, and a held one is
  `Full`, all of its children have arrived in this episode.  `DescentOK`: a node has been
  released as often as its parent, or once less while somebody on the way down holds
  it.  `EpisodeOK` and `SenseOK` relate `released` to the episode of each thread and to
  the senses; `MissingOK` is the count of a node in terms of its children; `RootOK`
  says that the root is not released before everybody has entered.
* Each kind of step has a lemma (`ArriveStep`, `FlipStep`, `PopStep`, ...).  A flip at
  the root is the crucial one: the root is full, hence, going down the tree, so is every
  node (`RootFull`), hence everybody has entered.  There and in `RootFirst`, induction
  over the tree is the existence of a least bad node (`LeastNumber`).
* `SectionOK`: the accesses of `gtmp_tree_orig.c` are one arrival, although the reset is
  outside of the critical section, because no thread is arriving at a node that
  another one is about to release (`ArriverAlone`).
* Theorems `TypeCorrectness`, `CountsCorrect`, `ReleaseOrder`, `Safety`, `Refinement`.

`McsBarrier_proof`: with two assumptions, named in the theorems.  `AtMostFour`: with five
threads `BarrierSafety` is false (`mcs_five`).  `IndicesSuffice`: the indices go on from
n - 1 to 0 when `vpid_next` wraps, which with 2^32 is so for 1, 2 and 4 threads; three
may make 2^32 calls, no more.  The number of episodes is any.
* The state is described relative to e, the last episode that everybody has entered:
  `Inside(e)` are still in it, `Early(e)` have left it and entered the next.
* `IndexOK`: the early threads have the indices 0 .. k - 1, one each, and `vpid_next`
  goes on with k.  `RootFirst`: until the root of e sets its first flag, nobody has left
  e.  `SlotsOK`: a thread that has not reported still has its slot at the root set, and
  so has every index that no early thread has taken; the root of the next episode thus
  waits.  `WakeOK`: a flag that is not set has its owner and its setter inside, and the
  flag of index 1 is set before any other.
* `EarlyWoken` is where four matters: whoever takes index v early has v others before
  it who left e, so the flag of v, left from e, has been set, since with two inside
  there are at most two early.  With five threads three can leave before the root sets the flag
  of 2, and the third of them passes at once.
* `LastCallStep`: with the last call nobody is inside of e any more, all flags are set,
  and seen from e + 1 none is.
* Theorems `TypeCorrectness`, `UniqueIndices`, `SensesAgree`, `Safety`, `Refinement`.

`MpiBarrier_proof`: the three programs at once; the number of processes is any from 2.
* `PowersAssumption` says what `2 ^ i` is up to i = `num_procs`: the provers know
  nothing of exponents.  TLC evaluates it in the run.
* What the lists have in common: `Shaped` (they do not depend on the episode but for
  tags), `OnePlace` (one message from p to q in an episode, if any), `Paired` (every
  send has its receive and conversely), `Delivered` and `Learned` (below).  Each is
  proved for each program: for the counter by inspection; for dissemination from the
  distances 2^i being different and less than `num_procs` (`UpDown`, `UpInjective`); for
  the tournament from the roles.  There `Roles` reduces gtmpi_init to divisibility by 2^j,
  `LastRound` shows that each rank stops in one round, and `BeatsLoses`, `LosesBeats`
  that the opponent of a winner is a loser of the same round who stops there, and that
  the opponent of a loser gets that far.
* `ChannelOK`: the messages between p and q are those of the episodes that q has not
  received and p has sent, in order, each with the tag of its episode.  The first one in a
  channel is thus the one that its receiver waits for, and no other has its tag and is
  before it.  Theorem `MessagesInEpisode`.
* `KnownOK`: `Known(prog, p, k)` are those of whom p, at place k of its list, must have
  heard in this episode: they have entered it.  By `Delivered` a receive adds
  what the sender knew when it sent, by `Learned` the set starts as p alone and is
  everybody at the end.  Hence nobody returns before everybody has entered: theorems
  `Safety` and `Refinement`.  Whether sends buffer does not matter to any of this.

`GTMutex_proof`: five layers.
* `Types` strengthens `MTypeOK` with queues over the threads that exist (`Live`); a
  queue over all of `Thread` would not show that `target` and `running` are valid.
  With `RunningIsFront` it is inductive: theorems `TypeCorrectness` (which states `Types`
  and `MTypeOK`), `FrontRuns`.
* `Distinct` (no repeats, no two queues share a thread, nobody completed is queued),
  `Present` (every live thread has a place) and `Waiters` (who is in the wait queue is
  inside of `gtthread_mutex_lock`).  `Waiters` is what makes `gtthread_mutex_destroy`
  harmless: it drops the wait queue, which must be empty then.  One lemma per way
  in which threads move (`CompleteFront`, `RotateFront`, `FrontJoins`, `FrontWaits`,
  `WaiterWakes`, `CreateFacts`).  Theorem `OnePlaceEach`.
* `Forward(q, r)`: nobody behind the front of q is further back in r.  One lemma per
  operation on a queue (`EnqueueForward`, `PopForward`, `RotateForward`,
  `RescheduleForward`); each needs that what is put at the back was not in the queue
  before, which `Distinct` gives.  Theorem `RoundRobin`.
* `JoinersWait` (a thread in `gtthread_join` is in its target's queue or the target is
  over) and `OverHasResult`.  A joiner that runs is in the run queue, hence by
  `Distinct` in no join queue, hence its target is over.  Theorem `JoinIsSafe`.
* With each thread in one place, every step of the library is a step of `Threads` or
  a stutter.  Theorem `QueuesImplementThreads`.

`RVM_proof`: `TypeInv` is `TypeOK` with what it needs to be inductive: a mapped segment
has a file, as long as the application knows of (`Known`), undo logs exist in
transactions only and name cells that exist (`Undoable`), and so does the redo log
(`Loggable`).  `AbortRestores` is inductive with it: a further declaration of a cell
does not matter, since the oldest saved value counts (`UndonePush`), and a write
changes only what has a saved value (`UndoneWrite`).  Theorems `TypeCorrectness`, which
states `TypeOK`, `Undoable` and `Loggable`, and `AbortIsExact`, both with any number of
transactions at the same time.

`RVMDurable_proof`: what is on the disk.  The first two theorems are about at most one
transaction at a time (`OneTransaction`; with two, `rvm_lost` shows that they are false).
* `Kept`: each cell is as wanted in the last line of the log about it, or else in the
  file, unless it is `damaged`.  Only while a truncation plays the log is something
  overwritten, hence `Played`: the lines played so far are in the files, so that the empty
  log that follows loses nothing.  Theorem `CommitsSurvive`.  It says what it says as
  long as every line of the log can be played, and of the cells that no line has been
  written over which a crash cut off or a newline split; a later commit or destroy of
  such a cell makes it good again.  `rvm_torn` shows that without these exceptions the
  statement is false.
* `Logged` (what a commit has written so far is what the application will want),
  `SameDeclared` (redo log and undo logs list the same cells: the place where a second
  transaction would break the proof) and `SnapCurrent` (memory at the begin of the
  transaction was what is committed) give `MappedCurrent`, with the same exception for
  `damaged` cells.  Theorem `MemoryCurrent`.
* `OnlyCommits`: `OnlyCommitsChange` for any number of transactions.  `Found`
  is what the next process finds in a cell, as a function of the log and the file.
  Playing the lines in order leaves it alone (`FoundPlayed`), so does the extension of a file
  (`FoundLonger`), and the log is emptied only when it has been played to its end, for which
  `Played` needs `TypeInv` only and no `OneTransaction`.  That leaves lines of a commit
  (`FoundLogged`), which may be about the cells of another transaction.

`Cache_proof`: any keys, sizes, capacity and hash values.
* Loops.  A loop is described by a sequence of sets of states, one after each
  number of turns (`LoopInvariant`).  Induction there, and over sums, is the existence of a least
  number (`LeastNumber`), since the provers cannot instantiate the library's induction.
* The heap.  `Holds(q, D)`: the heap holds the indices D, each once, and `qp` is the
  inverse of `pq`.  Every operation keeps that whatever the keys are.  `Ordered` needs
  keys that `keycmp` can compare (`Fits`): sink starts from `OrderedAbove`, a heap but for the
  edges below k, swim from `OrderedBelow`, a heap but for the edge above k.
* The hash table.  `Reached`: on the way from the slot of its hash value to the slot
  that holds it a key meets no free slot.  That is what a search needs (`GetDef`), and
  what `hshtbl_delete` must restore.  For that, let e be a slot that is free throughout.
  Seen from e the ring of slots is a line on which no key's way wraps around, and
  `Mending` says that the free slots on the way of a key are all before the place that the
  loop has come to, and the key is not.  When the loop stops, at a free slot, there are none.
  Theorem `Deletion`, for any table with a free slot; the table of a cache has twice as
  many slots as places (`FreeSlot`).
* The invariant of the caches (theorem `Invariance`) is `IInv`.  `TableInv`: the table has exactly the
  URLs of the entries, each with its place.  `QueuesInv`: the heap of each band holds
  exactly the places of its entries.  `FreeInv`: the stack holds the others, once each.
  `CountInv`: `num_entries` counts entries, `mem_used` is the sum of their sizes
  (`TotalUpdate`: what a sum becomes when one entry changes).  `CallInv`: the URL of the call
  is not cached, and as long as room is needed `eviction_size` is at least what is still to be freed
  and no larger than the value, so it has not wrapped.
  Theorems `TypeCorrectness`, `Agreement`, `Memory`, `Bands`, `LargerVictim`.
* `LruminEvictStep`: a victim larger than `eviction_size` makes room, and only then
  does the subtraction wrap; a victim of the same band, or of a smaller one, is subtracted
  without a wrap if room is still needed.
* `OrderInv`: each queue is a heap of `worth`, the values that the policy goes by.  It needs
  `KeysFit`: times and hits below half the range of int, which for the times of `lru.c`
  and `lrumin.c` is 35 minutes.  After that `keycmp` compares the wrong way round, and the
  statement is false.  A new key is never below the old one, so a sink is all that an
  access needs (`TouchOrder`); the top of a heap is a least element (`HeapMin`).
  Theorems `Heaps`, `LeastEvicted`.  No other theorem needs `KeysFit`: with times that far apart the victim is
  wrong, but the structures still agree.
* With the table exact, what `gtcache_get` finds is the size of the entry with that URL
  (`Lookup`), there are as many such keys as `num_entries` says (`KeysCounted`), and every
  step of a cache is a step of `CacheStore` or a stutter.  A value that is refused
  is larger than the capacity: the queues are empty, hence so is the cache, and it has at
  least one place.  Theorem `StoreImplemented`.

Only model-checked: liveness (`RunnableRuns`, `CancelTakesEffect` and the
`BarrierLiveness` of each barrier), since the prover does not handle fairness.  Every
other property of a passing run is stated by a theorem.

## 5. Where code and documentation disagree

Each of these is a finding with a run that shows it.

1. A waiter returns from `gtthread_mutex_lock` without taking the mutex, which unlock
   has freed: two threads get inside (`mutex_exclusion`).
2. `gtmp_mcs.c` takes a new index at each call.  From five threads on, a fast thread
   can take the index of a node that the last episode has still to wake, and leaves
   the barrier early (`mcs_five`).  With up to four the tree is too flat for that.
3. All transactions share one redo log.  Abort of one empties it, and the commit of
   another writes nothing (`rvm_lost`).  Likewise a commit writes the declared cells
   of the others, whatever becomes of them.
4. A line of `redo.log` that a crash cut off before its third field kills every later
   process in `rvm_truncate_log`, and the commits before it are never seen (`rvm_torn`).
5. One that a crash cut off after its third field is played, with data that nobody
   wrote, over the value of the cell that an earlier commit put there (`rvm_torn` as well:
   its property is violated by either kind of line).
6. `rvm_map` extends the file of a segment only if this process knew the segment with a
   smaller size.  In another process, or after a crash within the first map, the
   segment is larger than its file and nobody clears the rest (`rvm_extend`).

Seen while modelling, without a run of their own:

* The waiter of 1. is inside with `locked` = 0, so that its unlock does nothing and
  wakes nobody: the waiters behind it stay until somebody else locks and unlocks.
* A cancelled thread has no return value: `gtthread_join` stores what `malloc` left.
* With one thread `gtmp_tree.c` writes to a node it has not allocated, and with one
  process `gtmpi_tournament.c` reads a role that does not exist.  The assumptions of
  the models exclude both.
* `vpid_next` wraps at 2^32; unless the number of threads divides that, two threads
  of one episode get the same index there.
* A newline byte in the data splits a line of `redo.log`, without any crash in it: the next
  truncation writes other data than were committed, and dies of the rest of the line or plays
  it as a line of its own.  `RVM_torn.cfg` with `Split = {1}` shows it with one commit.
* A crash between the lines of one commit leaves half a transaction, which is played.
  The durability properties count a line as committed when it is written.
* `rvm_begin_trans` that fails at its second segment leaves the first one taken for
  ever (`Lost` in the model).
* `rvm_destroy` of a segment that was committed but not truncated makes the next
  truncation die of the missing file; of a segment this process does not
  know it does nothing, though the file exists.
* The checks in `indexminpq_increasekey` and `_decreasekey` are inverted; the first
  passes because the caller has changed the key in place, the second is never called.
* A value larger than the cache empties the cache before it is refused.
* `lru.c` says in lines 6-7 that "The entry in the cache with the least recent access since
  it entered the cache (the most recent time) is evicted", however long ago that was; but
  `keycmp` (line 67) truncates a difference of microseconds to int, so that entries used more
  than 35 minutes apart compare the wrong way round, and another one is evicted.
  `Cache.cfg` with `IntHalf = 1` shows it: `HeapOrder` and `EvictsLeast` are violated.  It is
  a real disagreement, like the ones above; it has no run of its own because the
  project keeps to twelve.
* The url buffer of a cache entry is `malloc(strlen(url))`, one byte short.
* `lrumin.c` says in lines 9-15 "If there is an entry of size >= 2^n, delete the least
  recently used entry of size >= 2^n", but looks for a victim in the next non-empty band of
  larger entries only: an entry of a band further up may have been used longer ago.
  `EvictsLeast` is about the band for that reason.  This one is real, too, and has no run
  either.
* `hshtbl_hv` gives a negative slot for some URLs with bytes from 0x80 on, where char is
  signed, and the table is read in front of its start.
* If the clock is set back, an access makes a key smaller, and `indexminpq_increasekey`,
  which only sinks, leaves a heap that is none.

## 6. Not modelled

* `proxy.c`, `client.c`, `fake_www.c`: library glue; `proxy.c` does not use the caches.
* Drivers and examples (`gtthread_main.c`, the philosophers, `hello_mpi.c`,
  `hello_openmp.c`), except where they are the environment of a model.  The
  philosophers call the library in an order that the environment of `GTMutex`, which
  may call anything, covers for one mutex.
* The linked list in `steque.c` and the list in `seqsrchst.c`: they appear as the
  sequence and the map that their callers see.
* A set of a key that is already cached, which the only caller avoids; times further
  apart than `IntHalf`, where `keycmp` is wrong; a clock that steps back; URLs that are not
  ASCII.
* The limit `MPI_TAG_UB` on tags: the dissemination barrier counts its tags up, from one
  episode to the next, and after enough of them MPI may refuse one.
* The data of a cache entry, the text of a log line, exhaustion of memory, failures of
  `fopen`, `malloc` and `mkdir`.

## 7. Plan

Done: the order was first what carries the most behaviour (threads, barriers, RVM),
then what refines it (`Barrier`, `Threads`), then the caches with their contract
(`CacheStore`), then proofs.

Left:

1. `Steque`: the linked list, shown to implement the sequence that `GTSched` uses.
2. `Cache` with a key set twice.
3. Runs for the two disagreements about which entry a cache evicts (section 5).

Abstract specifications worth stating: `Barrier`, `Threads` and `CacheStore` (done), a
transactional store for RVM with one atomic commit per line.
