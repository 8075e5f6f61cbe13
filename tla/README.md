# cpputils: a verification project

TLA+ models of what *cpputils* computes by itself, the threading library above
all, then the lookup of volumes, hashing, the CPU counts and the profiler; the TLC
configurations that check them on small instances, and TLAPS proofs of what
matters most for every instance. All paths below are relative to the repository (`src/...`).

- [The system](#the-system)
- [Modules](#modules)
- [Runs](#runs)
- [Fairness](#fairness)
- [Proofs](#proofs)
- [Disagreements between code and documentation](#disagreements-between-code-and-documentation)
- [What is not modelled](#what-is-not-modelled)
- [Plan](#plan)

## The system

cpputils is a library of small building blocks for desktop programs. Its own
logic, apart from wrappers over the operating system, is in `threading/`, in
the volume lookup of `system/storagespeed.cpp`, in `hash/sha3.c` and in the
profiler of `timing/`.

| component | state | operations | interacts with |
|---|---|---|---|
| `CThreadPool` | one lane (queue) per worker, `queuedCount`, `idleCount`, `terminate`, the idle condition variable, `tagStates` with an outstanding count and a `retired` flag per tag | `enqueue`, `retire`, `finishAllThreads`, `abandonAllThreads`, destructor; the worker loop | lanes are `CConsumerBlockingQueue`s; tasks call back into `enqueue` and `parallelFor` |
| `parallelFor`, `parallelForAsync` | per batch: `nextIndex`, `completedCount`, the `done` flag the caller waits for | the call, the helpers' `drainIndices` | helper tasks go through `CThreadPool::enqueue` |
| `CConsumerBlockingQueue` | a bounded deque, one mutex, one condition variable | `push`, `try_push`, `pop`, `try_pop`, `waitForItem` (two forms), `remove_if`, `wakeAllThreads` | lanes of the pool; direct users with a stop flag of their own |
| `CExecutionQueue` | a deque of tagged tasks, one mutex | `enqueue` (replaces by tag), `clear`, `exec` | tasks it runs may enqueue into it |
| `CPeriodicExecutionThread` | the workload, `_terminate`, `_paused`, the thread | `setWorkload`, `start`, `terminate`, `pause`, `resume`; `threadFunc` | the workload, called without the mutex |
| `CInterruptableThread` | a cancellation flag, the thread | `start`, `requestCancellation`, `join` | the payload polls the flag |
| storage speed | a table of mounts read per call, a cache per volume; on Windows a mount table kept for the process | path resolution, cache lookup, the questions about a device | the kernel's mount table, symlinks; sysfs, `ioctl`, IOKit |
| SHA-3 | the sponge's words, its word and byte indices, the saved bytes | `init`, `update`, `finalize`; `keccakf` | — |
| `CpuCount` | none between calls | `get` | the system's lists of CPUs, affinity, CPU Sets |
| profiler, `CTimeElapsed` | relaxed atomic accumulators, a registry, a stopwatch | samples, reset; `start`, `mark`, scopes | call sites keep references into the registry |

Most of what is hard here is concurrency. The hazards, each at its line, are listed in
`PROJECT.json`; in groups:

- **Sleeping next to work.** The pool changes `queuedCount` outside the mutex of
  the condition variable, notifies only if `idleCount` is nonzero, and sends one
  unrouted `notify_one` per task. The argument for it in `cthreadpool.h:192-199`
  is a store-buffering argument; a schedule that breaks it would show as a
  stalled task once in a very long time. *Properties: `WorkConserving`,
  `QueuedIsTaken`.*
- **Counts that several parties settle.** `queuedCount` and a tag's
  `outstandingTaskCount` are decremented by pops, steals, both sweeps of the
  owner, a failed push and `retire()`. *Properties: `QueuedCountExact`,
  `OutstandingExact`, `IdleCountExact`.*
- **The promise of `retire()`.** After it returns nothing of the tag is queued or
  runs, even if a push of the tag was half way through, and what had not been let
  through to run when it began never is. *Properties: `RetireBarrier`,
  `RetiredNeverRuns`, `RetireReturns`.*
- **Shutdown.** The stop request against a worker about to block; tasks spawned
  during the drain; steals against the sweeps; destruction after an explicit finish,
  drain or abandon. *Properties: `StopReachesAll`, `DrainCompletes`, `Custody`,
  `AbandonLeavesNoBacklog`, `ShutdownReturns`.*
- **Batches.** Helpers that start after the batch has ended, `fn` that throws,
  nesting on a saturated pool. *Properties: `ImplementsLoop`, `FnThrowContained`,
  `AsyncAllOrNothing`, `ForReturns`, `AsyncCompletes`.*
- **Waiting.** Which wait may return without what it waited for, which notify may
  be spent on somebody who takes nothing, whether anything depends on a timeout.
  *Properties of `BlockingQueue` and `PeriodicThread`.*
- **A flag that outlives a run.** A cancellation between `start()`'s reset and the
  thread's first step. *`CancellationEndsRun`.*
- **A queue that its tasks refill.** `exec(execAll)` against tasks that enqueue
  tasks, replacement by tag, and a second executor. *Properties of
  `ExecutionQueue`.*
- **Paths and volumes that change while they are looked up.** Links that lead
  through firmlinks to shares that may hang, a mount table shared by calls and
  older than the drive letters in it, two callers missing the cache together.
  *Properties of `StorageSpeed`.*
- **A system that answers in part, or changes between two answers.** A CPU goes off
  line, a disk's number goes to another disk, a query fails half-way. *`CountsAddUp`,
  `CountsMatchCpus`, `FastIsAttested`.*
- **Arithmetic that a test only samples.** The splits of a message, tables of
  rotations and round constants. *`HashIsOfMessage`, `RoundIsFips`.*
- **Atomics without a lock.** The profiler's two relaxed counters against resets, and
  a registry that two sites enter at once. *`SamplesAreCounted`.*

## Modules

| module | what it is |
|---|---|
| `ThreadPool` | `CThreadPool`, one atomic access or critical section per step |
| `ThreadPoolProofs` | theorems about `ThreadPool` and their proofs: types and counts; who holds what, and who sleeps; what the shutdown calls leave behind |
| `ParallelLoop` | what the callers of `parallelFor` and `parallelForAsync` are promised |
| `ParallelBatch` | how the pool does it; implements `ParallelLoop` |
| `ParallelBatchProofs` | the refinement and what follows from it, proved |
| `BlockingQueue`, `BlockingQueueProofs` | `CConsumerBlockingQueue`; theorems and proofs |
| `ExecutionQueue`, `ExecutionQueueProofs` | `CExecutionQueue`; theorems and proofs |
| `PeriodicThread` | `CPeriodicExecutionThread` |
| `InterruptableThread` | `CInterruptableThread` |
| `VolumePaths` | paths, mounts and firmlinks as `storagespeed.cpp` compares them |
| `StorageSpeed`, `StorageSpeedProofs` | `storageSpeedForPath` on Linux, macOS and Windows; theorems and proofs |
| `VolumeSpeed` | `queryVolumeSpeed` of the three platforms, and the cache in front of it |
| `Sha3`, `Sha3Proofs` | the sponge of `sha3.c`; theorem and proofs |
| `Keccak` | the permutation of the sponge |
| `Folding` | lemmas: induction over numbers and finite sets, and what folds compute |
| `CpuTopology` | `CpuCount::get` |
| `ProfilerCounters`, `ProfilerTimeline` | the profiler's accumulators; `start`, `mark` and scopes |
| `Standalone` | the components that interact with no other one, side by side |
| `StandaloneProofs` | theorems about its properties; the proofs for `PeriodicThread`, `VolumeSpeed`, `ProfilerCounters` and `CpuTopology` |
| `MC...` | modules with constants for TLC |

Each condition variable is the set of the threads blocked on it (those whose
program counter is `"blocked"`): `notify_one` moves any one of them to the point
where it reacquires the mutex, `notify_all` moves all, a spurious wakeup and a
timeout are actions of their own that may happen at any time. Accesses that the
code makes with the default memory order are sequentially consistent, so steps
interleave. Definitions marked as mutants are not part of any specification:
each is a plausible slip in the definition next to it, kept to show that a
property would notice it.

### `ThreadPool`

A task is submitted at most once, so its identity also stands for its
`enqueue()` call: `call[t]` is the program counter of that call and `status[t]`
says where the task is (in a lane, held by an executor, removed by `retire()`,
finished, dropped). A lane is kept as its set of tasks and, for each, the set of
those in front of it: `push_back`, `pop_front` and `erase_if` are all the code
does with the deque.

| code | actions |
|---|---|
| `enqueue()` `cthreadpool.h:82-127` | `Enqueue` (lane chosen), `RegisterTag`, `CountTask`, `PushTask` or `PushThrows` + `UndoRegister`, `Gate`, `NotifyOne` |
| `runWorker`, `tryGetTask` `cthreadpool.cpp:17-92` | `Loop`, `PopOwn`/`OwnEmpty`, `Recheck`, `Steal`/`StealNext`/`StealNone`, `EnterIdle`, `LockIdle`, `Predicate`, `Block`, `SpuriousWake`, `Timeout`, `LeaveIdle` |
| a popped task, in the loop or the drain | `Decrement` (of `queuedCount`), `Decide` (`taggedTaskCanRun`), `BodyBegins`, `BodyEnds`, `Complete` (`completeTaggedTask`) |
| `retire()` `cthreadpool.cpp:183-215` | `RetireBegin`, `RetireSweep` per lane, `RetireSubtract`, `RetireSettle`, `RetireWake`, `RetireSpurious` |
| shutdown `cthreadpool.cpp:108-181` | `ExplicitShutdown`/`Destructor`, `WakeAll`, `Join`, `SweepPops`/`SweepNextLane`, `DrainPassEnds`, `DrainReturns`, `AbandonReturns` |

The wait predicate `terminate || queuedCount > 0` is two steps (`LockIdle`,
`Predicate`) and blocking is a third, all with `idleMutex` held, because a
producer changes `queuedCount` without it. `taggedTaskCanRun` unlocks before its
answer is used, so a task that it let through is `"cleared"` and begins in a step of
its own: `retire()` may set `retired` in between, and the body begins nevertheless. What
the code keeps is that such a task is waited for (`RetireBarrier`) and every other one
of the tag never runs (`RetiredNeverRuns`). A body may enqueue the tasks in
`Spawns`, and so may a body run by the owner's drain. Clients are constrained as
the header asks (`MayCall`, `RetireBegin`, `Shutdown`, `Destructor`): the
constant `Overlap` names the pairs of calls that may run concurrently in a run,
so that the contract and the code's tolerance beyond it are checked separately.

### `ParallelBatch` and `ParallelLoop`

An activation is the call itself (`<<b, 0>>`) or one of its helper tasks. The
pool is reduced to what a batch can see: a queued helper is picked up by a free
worker in any order (`Pick`), or dropped after the pool was abandoned (`Drop`).
That every queued task is eventually taken is `ThreadPool`'s `QueuedIsTaken`; it
enters here as the premise `WorkersServe` of `AsyncCompletes`, and `ForReturns`
does without it. A batch may be nested in `fn(0)` of another one (`Within`), on
the thread that runs this `fn`. `Fetch`, `FnReturns` or `FnThrows`, `CountCompleted`
and `Complete` are the steps of `drainIndices()`: a throw of `fn` is contained there,
and its index counts like any other (one that escaped would leave a batch that never
completes, which `ForReturns` excludes).

`ParallelLoop` has neither pool nor counters: each index is run at most once, the
completion action runs at most once and after every index, `parallelFor` returns
after every index. `ParallelBatch` implements it under the mapping
`allDone <- done`, `result <- Result(b)`.

### `BlockingQueue`

A call that holds the mutex throughout is one action. `push` to a full queue
unlocks, yields and looks again (`PushFull`, `PushAgain`). The predicate of
`waitForItem` reads a flag that its setter changes outside the mutex, so to
evaluate and to block are two steps with the mutex held (`holder`). `usage` fixes
whether consumers of the queue block in `pop`, `waitForItem()` or
`waitForItem(predicate)`; all three meet `try_pop`, `remove_if`, producers and
`wakeAllThreads`.

### `ExecutionQueue`

`enqueue` (whoever calls it, a task being run included), `clear` and the steps of
`exec` by several executors. Each queued task carries a mark for every
`exec(execAll)` at whose entry it was pending; the marks are history and let
`OldestFirst` and `EntryTaken` speak of "the tasks pending at entry".

### `PeriodicThread`

Everything the three waits read is guarded by `_cvMutex`, so to lock, evaluate
and block is one step. The owner sets workloads, starts and terminates the thread repeatedly
while a client pauses and resumes it at any moment. `late` is history: the
workload calls begun since the last `pause()` or `terminate()`.

### `StorageSpeed`

A path is the sequence of its names, a link's target may be relative and hold `..`. The
platform is chosen once. On Linux and macOS a call reads the mounts (`ReadMounts`),
walks the path with one `readlink` per step (`NotALink`, `FollowLink`, `GiveUp`,
`WalkEnds`) and finds the volume of the result (`FindVolume`). On Windows it asks for
the type of the drive, searches the shared table with its mutex held, validates a hit
with the system, reads the table again once, and falls back on the system (`CheckDrive`
to `RefreshTable`); a path that begins with a volume's GUID has no drive to ask for. A
path that cannot be made absolute, a Windows share and a device whose name cannot be
read end the call (`Call`, `FindVolume`). Both platforms end in the cache, whose mutex
is held across the query. `Remount` changes what the system answers at any moment.
`ResolvesAsKernel` compares the walk, which starts over from the root after each link
and normalises `..` as text, with `KernelWalk`, which goes through the path once, name
by name.

| code | definitions |
|---|---|
| `isWithinFolder`, `mountForPath`, `canonicalPath`, `lexicallyNormal` | operators of `VolumePaths` |
| `resolveLocalSymlinks`, `volumeDeviceForPath` | `ReadMounts`, `WalkEnds`, `NotALink`, `FollowLink`, `GiveUp`, `FindVolume` |
| Windows `volumeKeyForPath`, `volumeKeyFromMountTable`, `volumeKeyFromSystem` | `CheckDrive`, `ReadTable`, `LockTable`, `Hit`, `Stale`, `Reread`, `Miss`, `AskMountPath`, `AskVolume`, `RefreshTable` |
| `storageSpeedForPath` | `Call`, `CacheHit`, `CacheMiss`, `Query`, `Return` |

### `InterruptableThread`

`start()` is two steps, the reset of the flag and the thread (`ResetFlag`, `Spawn`
or `SpawnThrows`), since `requestCancellation()` may come in between. The payload
ends whenever it likes, by an exception too; it must end only once it sees the
flag. The destructor cancels and joins.

### `VolumeSpeed`

A volume is a record of what the systems tell apart. Each question is a step that may
fail, and a disk may be replaced between two of them (`Replace`), or after the answer
was cached. Then a number, a device's name or a mount path stands for another volume. A
Windows GUID does not, but the key has a mount path besides it, which `GetDriveTypeW` is
asked about first (`DriveType`, of `mounted`) and which may by then lead to another
volume than the one that is opened by its GUID (`OpenVolume`, of `volume`). Without a
GUID (`keyedBy` is `"path"`) only a RAM disk is fast. `FastIsAttested` says so: a RAM
disk that took over the letter makes the entry of the GUID fast, and that is the one
exception to "a volume that the key stood for told so". Linux: `FindNode`,
`ReadNodeQueue`, `ReadParentQueue`. Windows: `DriveType`, `OpenVolume`, `SeekPenalty`,
`BusType`. macOS: `FindMedia`, `MediumType`, `Interconnect`. `StorageSpeed` has what
leads to the key and the callers' race for the cache; here there is one caller.

### `Sha3` and `Keccak`

In `Sha3` a byte is a symbol and a word the set of its bytes at their places, so
that a byte put in the wrong place, left over in `saved` or added twice gives
another word. The permutation is a parameter; the run gives one that maps
different sponges to different ones. `HashIsOfMessage` compares with the padding
and blocks of FIPS 202, in bytes. `Keccak` has the code's tables and its rounds on
64-bit words, and `RoundIsFips` compares each round with the standard's step
mappings, which are given bit by bit and compute their offsets and constants.

### `CpuTopology`

One call of `CpuCount::get()`: on Linux one step per file read, on Windows one per
question. Any may fail, and the CPUs online and the affinity may change between two
(`Change`). On Linux the list of a core's CPUs has two names, either of which will do.
On Windows what belongs to another process is known from the CPU Sets, as read once.
`exact` is history: nothing failed or changed during this call.

### `ProfilerCounters` and `ProfilerTimeline`

Each atomic addition or store is a step, and the search of the registry and the
insertion are two with the mutex held. `tally` is history, the samples since a
counter's last reset; the counters that a reset and a sample overlapped on are
excepted by name (`blurred`). `ProfilerTimeline` is sequential on a clock;
`Modulus` stands for 2^64.

### `Standalone`

Each behaviour is one of a single component, chosen in the initial state, and the
variables of the others keep their initial values. The properties are the
components' own, under the same names, and so are the theorems of `StandaloneProofs`.

## Runs

| run | instance | shows |
|---|---|---|
| `pool_wakeup` | 3 workers, 3 tasks of which one enqueues another, no shutdown | counts exact, no task next to a sleeper (`WorkConserving`) |
| `pool_retire` | 2 workers, 2 tasks of a tag, `retire`, failing pushes, abandon | the accounting of a tag and the promises of `retire()` |
| `pool_shutdown` | 2 workers, 3 tasks of which one spawns another; drain, abandon, and a destructor of either policy alone or after one of them | no task held twice, nobody asleep, what each leaves behind |
| `pool_liveness` | 2 workers, a tagged task that spawns a second; finish, drain or abandon, during `retire()` too, and a destructor of either policy alone or after one of them | everything returns, without timeouts and spurious wakeups |
| `pool_drain_retire` | 2 workers, 1 task | *violation*: the drain's closing assertion, see below |
| `batch` | 2 workers; a batch on a worker, nested: `parallelFor(2)` in it, then `parallelFor(1)` and `parallelForAsync(0)` | refinement of `ParallelLoop`, and the batch's promises |
| `batch_single` | `parallelFor(1)`, `parallelFor(0)` | *violation*: a throw of `fn`, see below |
| `queue_wait` | 1 producer, 2 consumers | *violation*: the wait without a predicate, see below |
| `volumes` | 2 callers; unix: 4 mounts with a remote one or two on one point, chains of up to 4 links, a cycle, `MaxHops` = 5; windows: a drive that is one of two volumes or a RAM disk, one that does not exist, a path by GUID | resolution as the kernel's, nothing remote touched, present volume found, one cache entry per volume, calls end |
| `standalone` | periodic: 3 starts, 3 pauses | the thread stops, parks and runs again without a period elapsing |
| | execution: 2 executors, tasks of one tag and without a tag, up to 3 queued | one task per tag, oldest first, `exec` returns |
| | queue: 2 producers with 2 items each, 3 consumers, room for 2 items | no lost wakeup, the predicate wait |
| | interruptable: 3 runs, 3 requests | a cancellation ends the run it was meant for |
| | hash: messages of up to 150 bytes in pieces of 0-9 bytes or about a rate | the hash is that of the message |
| | rounds: 24 rounds on three states | each is the one of FIPS 202 |
| | topology: hybrid CPUs with one of them changing; two groups with every affinity and default CPU Sets | the counts agree, and are right if nothing failed |
| | profile: 3 sites, two of them on one counter, 2 resets | no sample is lost |
| | device: every sort of disk, one replaced during or after the query | only what was attested is fast |
| `profiler_marks` | a clock of a few ticks | *violation*: `mark()` behind `start()`, see below |
| `volume_speed` | every sort of volume | *violation*: external disks that are fast, see below |

The bounds, and why they reach the interesting cases:

- *Workers.* With three a notify can wake a worker other than the one whose
  lane has the task, while a third is between its scan and its wait: every
  role `WorkConserving` distinguishes. Two workers suffice for the rest: one to
  hold a task, one to race with. `SelectorRange` is one more than the number of
  lanes, hence not a multiple of it, so the wrap of the 32-bit selector is in.
- *Tasks.* `pool_wakeup` needs as many tasks as workers: a task is stranded next to a
  sleeper only if all the other workers are busy, and with one task fewer no slip in
  the notification shows. Elsewhere two tasks give the pairs announced/queued, queued/popped,
  running/registered; the shutdown run has a third because a spawned task and two
  roots occupy lanes on both sides of the drain's position.
- *Batches.* Two indices make "the last two indices complete at the same moment"
  possible; two workers and the nested call make the pool saturated.
- *Queue.* Two producers wait for the one slot that a pop frees; three consumers
  allow one to be woken, one blocked and one to snatch the item with `try_pop`.
- *Execution queue.* `MaxLength` bounds the length at which clients and tasks stop
  enqueueing; three is one more than an `execAll` and a replacement need.
- *Volumes.* One path reaches the share through an absolute link, a relative one
  with `..`, a firmlink and a link met behind it; with the other mounts the same
  path goes on through a fourth link to a volume mounted over another.
  `MaxHops` is the code's 40: five is one more than that path takes, and the
  cycle exhausts it. `MaxNames` is four, and no path or target there has more than three
  names. Three occupants of one drive letter allow the table to be
  stale in both of its attempts.
- *Periodic thread.* `MaxStarts` and `MaxPauses`: a pause in one run of the thread
  can be left over into the next, and be resumed there.

- *Hash.* 150 bytes are more than one block of every width and two of the widest
  hash; the pieces end inside a word, complete one, or fill a block, and the lengths
  around 72, 104 and 136 are the three rates.
- *Rounds.* A round acts alike on all states but for its constant; the three states
  have zeros, sparse and dense words, each lane rotated differently so that no two
  can be confused.
- *CPUs.* Four CPUs with two kinds of cores and SMT on one; two groups with a core 0
  in each. One change per call hits each point of it.
- *Profile.* Two sites race to create a counter, two threads to add to one; the
  second reset meets counters that have been reset.
- *Device.* One replacement, at each point of a query or behind it.

Deadlock is not checked in `standalone`, where the owner of a thread, a sequential
caller or a bounded clientele may stop for good, and in the two violation runs of
sequential modules. Where the others may stop, the final state is
named (`AllEnded`, `Terminated`).

Safety of the pool is checked for what the contract allows and beyond:
`pool_retire` lets `enqueue` meet `retire()` of its tag (the code refuses such a
task and survives) and `retire()` meet `abandonAllThreads()`.

## Fairness

Only what a scheduler gives. A thread whose next step stays possible takes it
(weak fairness). A thread that needs a contended mutex gets it eventually: strong
fairness of `EnqueueStep` (`ThreadPool`), which contends with the workers for
`idleMutex`, and of a caller's `Step` (`StorageSpeed`), whose guards are that the mutex is
free. The pool's own threads (`ThreadStep`, `RetireStep`) have weak fairness: none of
their properties needs more than a mutex that stays free. A payload looks at its
cancellation flag again and again (`ThreadsRun` of `InterruptableThread`); it need not
end otherwise. Task bodies,
`fn` and workloads end. Timeouts, spurious wakeups, the delay and the period of
the periodic thread have no fairness, so no liveness property can owe anything
to the pool's 5 second safety timeout. Clients owe nothing: no call must ever be
made, no helper must be picked up (`Pick`), except where a property says so
(`WorkersServe`).

## Proofs

| theorem | module | statement |
|---|---|---|
| `TypeCorrect` | `ThreadPoolProofs` | `Spec => []TypeOK` |
| `QueuedCountCorrect` | | `Spec => []QueuedCountExact` |
| `OutstandingCorrect` | | `Spec => []OutstandingExact` |
| `RetireBarrierCorrect` | | `Spec => RetireBarrier` |
| `RetiredTasksNeverRun` | | `Spec => RetiredNeverRuns` |
| `CustodyCorrect` | | `Spec => []Custody` |
| `IdleCountCorrect` | | `Spec => []IdleCountExact` |
| `StopReachesAllWorkers` | | `Spec => []StopReachesAll` |
| `NotifyOneSuffices` | | `Spec => []WorkConserving` |
| `DrainCompletesCorrect` | | `Spec => []DrainCompletes`, if clients neither enqueue nor retire meanwhile |
| `DrainAssertionAlone` | | `Spec => []DrainAssertion`, under the same condition |
| `AbandonCorrect` | | `Spec => []AbandonLeavesNoBacklog`, if clients do not enqueue meanwhile |
| `JoinedLeavesNobodyIdle` | | `Spec => []JoinAssertion` |
| `BatchImplementsLoop` | `ParallelBatchProofs` | `Spec => ImplementsLoop`: `ParallelBatch` implements `ParallelLoop` |
| `AsyncRunsWhole` | | `Spec => []AsyncAllOrNothing` |
| `LoopKeepsItsPromise` | | `Spec => []EveryIndexThrough` |
| `TagsAreQueuedOnce` | `ExecutionQueueProofs` | `Spec => []OnePerTag` |
| `OldestStayFirst` | | `Spec => []OldestFirst` |
| `EntryIsTaken` | | `Spec => EntryTaken` |
| `OneNotifyPerItem` | `BlockingQueueProofs` | `Spec => []EachItemWakesOne` |
| `WakeAllReachesAll` | | `Spec => []FlagReachesAll` |
| `PredicateHolds` | | `Spec => PredicateWaitHolds` |
| `StoredOnce` | `StorageSpeedProofs` | `Spec => []OneEntryPerVolume` |
| `WalkStaysLocal` | | `Spec => NeverWaitsOnRemote` |
| `LookupIsCurrent` | | `Spec => KeyIsCurrent`, if no volume is mounted within another |
| `ResolvesOnLinux` | | `Spec => []ResolvesAsKernel`, without firmlinks, if the targets of links climb first |
| `OneLateCall` | `StandaloneProofs` | `Periodic!Spec => []AtMostOneLateCall` |
| `FastWasAttested` | | `Device!Spec => FastIsAttested` |
| `EverySampleCounts` | | `Profile!Spec => []SamplesAreCounted` |
| `HashOfMessage` | | `Hash!Spec => []HashIsOfMessage` (from `HashCorrect` of `Sha3Proofs`) |
| `CpusAddUp` | | `Topology!Spec => []CountsAddUp` |
| `CpusMatch` | | `Topology!Spec => []CountsMatchCpus` |

`StandaloneProofs` also restates the six theorems of the two queues for the properties
that the run `standalone` checks.

`TypeCorrect`, `JoinedLeavesNobodyIdle` and `LoopKeepsItsPromise` are proved only, no run
repeats them. `DrainAssertionAlone` is the other side of a disagreement:
`pool_drain_retire` shows the drain's assertion violated when `retire()` meets the
drain, the theorem that nothing else violates it. Every other theorem states a property
that a run checks.

### What they assume

The theorems hold for every value of the constants, under

- `PoolAssumption`: a finite set of tasks, at least one worker, and sorts (no worker is
  the owner, ...). Any tags, spawning relation, selector range and overlap of client
  calls.
- of `DrainCompletesCorrect` and `DrainAssertionAlone`: `NoClientEnqueues` and
  `NoClientRetires`; of `AbandonCorrect`: `NoClientEnqueues`. They exclude calls by
  *clients* while a shutdown call is at work; task bodies still enqueue. Both exclude
  members of `Overlap`, so the pool of `pool_shutdown` satisfies them. Without the first,
  a client's task pushed behind the sweep stays; without the second the assertion may
  fail, as the run shows, and nothing is claimed of `DrainCompletes`.
- `BatchAssumption`, `QueueAssumption`, `SpeedAssumption`: counts are natural numbers,
  the consumers finitely many, owners are not `Nobody`.
- of `FastWasAttested`: `VolumesAssumption`, the volumes are records of the right
  sort; of `EverySampleCounts`: `CountersAssumption`, each site has a name and durations
  are natural numbers.
- of `HashOfMessage`: `Sha3Assumption`, that widths are among 256, 384 and 512 and that
  pieces have lengths; nothing is assumed of the permutation.
- of `CpusAddUp` and `CpusMatch`: `CpuAssumption`, the types of what the system answers: finitely many
  CPUs online and in the affinity, fewer than the code's `uint32_t` counts
  (`Unsigned`, 2^16 in TLC's place of 2^32), performances integers.
- of `CpusMatch` also `CpusFit`, what the counts need of the system to be right: a group
  and an index tell a CPU; the threads of a core have one performance (the code reads it
  of the first that it meets); Linux has one group and no CPU Sets; on Windows the indices
  of a group have no gaps (the code makes a mask of the *number* of active processors),
  and a process has all CPUs or none of a group other than its thread's (the code asks
  for the mask of that one group only). Nothing is claimed of a process whose threads
  are bound to parts of several groups: the code counts the whole of the other groups.
- of `LookupIsCurrent`: `WindowsPaths`, that paths and mount points are sequences of
  names and that there are no firmlinks on Windows; and `NoFolderMounts`. The second is
  a restriction the code needs: see the note on volumes mounted in folders under
  [Disagreements](#disagreements-between-code-and-documentation).
- of `ResolvesOnLinux`: `LinuxPaths`. There are no firmlinks; paths are made of ordinary
  names (`Call` is past the code's `lexically_normal()`); nothing is longer than
  `MaxNames`, any number; and in a link's target every `..` stands before every other
  name, as in `../../x/y`. The last is a restriction the code needs: it takes the name
  before a `..` away as text, the kernel goes to the parent of where that name, if it
  is a link, leads.

`ExecutionQueueProofs` and `OneLateCall` assume nothing.

### The arguments

**Counts of the pool** (`ThreadPoolProofs`, invariant `Accounts`). Type correctness is
inductive by itself. Neither count is: that the count equals a
cardinality says nothing of how a step changes the set that is counted. `Accounts` adds
the links it takes:

- `CallStatus`: a task whose call has not pushed it yet is nowhere
  (`"absent"`), so a push puts into the counted set what the count already
  includes, and a failed push takes exactly that out;
- `RetirePhase` and `RemovedExact`: while `retire(g)` sweeps,
  `removed[g]` is the number of tasks of `g` it has taken out and not yet
  subtracted; in every other phase there are none. Hence the one subtraction in
  `RetireSubtract`, and the later one in `RetireSettle`, are each of the size of
  the set that leaves the counted set;
- `TagState`: `retired` is up exactly while `retire` is in progress.

Each action changes the counted sets by one task, or (for `retire`) by the whole
removed set. The lemmas on cardinalities of such changes come first, then one
lemma per group of actions, then the theorem that `Accounts` is invariant.
`RetireBarrierCorrect` follows from it: `retire` returns only from `RetireWait`
with the count at 0, hence with `Unsettled(g)` empty. `RetiredTasksNeverRun` follows a
task that had not passed its check when `retire(g)` set `retired` through every step that
moves it on: by `TagState` the flag is up, so `Decide` skips it, and everything else
takes it from one place to the next or ends it (`Advances`, `Settles`); in the step in
which `retire` returns there is none left (`ReturnSettles`).

**Workers** (`ThreadPoolProofs`, invariant `Workers`). Every step is of one of a few
kinds (`HandKinds`, `WakeKinds`: nothing changes hands, somebody grabs or lets go of a
task, a worker roams outside the idle wait, blocks, is woken, ...), and the invariants are
proved for the kinds. `Custody` needs `Hands` (a worker holds a task exactly while
at work on it), `OneHolder` and `OwnerHands`. The others need `IdleMutex`, the mutual
exclusion that `idleMutex` gives from the predicate to the block. `StopHeld` says that
nobody is between the two when the stop request is announced. For `WorkConserving`
the invariant has `BlockSeesAll`: a worker about to block has seen `queuedCount` at 0,
so by `QueuedCountExact` whatever is queued by then was announced after its
predicate, and its producer has still to pass the gate, where by `IdleCountExact` it
finds `idleCount` nonzero. This is the store-buffering argument of
`cthreadpool.h:192-199`.

**Shutdown** (`ThreadPoolProofs`). After the first shutdown call only bodies submit
(`ClientsDone`, `BodyCalls`), and after the join only the owner runs bodies
(`Joined`). `DrainPass` says what a pass has achieved so far: as long as it has found no
task, whatever is queued is in a lane it has not come to. A pass that found none thus
ends with all lanes empty, one that found some is repeated. `AbandonPass` is the same
for a single pass, except for what running bodies spawn behind it.

**Batches** (`ParallelBatchProofs`, invariant `BatchInv`). The mapping takes `done` and
the call's program counter to the abstract loop, so the refinement is a matter of showing
the abstract guards: an index is run by one activation, and only if it was not run
before; the completion comes when all indices are through; the call returns when done.
`Dispenser` ties the states of the indices to `nextIndex`, `Running` gives each running
index exactly one activation, `CompletedExact` says that `completedCount` lacks only
the activations between the end of `fn` and the increment, hence that whoever
increments it to the total does so when all are through, and is the only one
(`Completion`). Helpers that start late find the dispenser exhausted.
`Outcome` is what `AsyncRunsWhole` needs besides: a helper comes back only from an
exhausted dispenser, and the last index counted has somebody to complete the batch.
`LoopKeepsItsPromise` follows from the steps of `ParallelLoop` alone.

**Queues.** `OnePerTag` is inductive, since a replacement removes what it finds;
`EntryTaken` needs `MarksInReach`: the entries that a drain has to take are within its
remaining count of the front. That is where `OnePerTag` comes in: a replacement moves
a task behind them and shortens the queue by one, never by more. `EachItemWakesOne` is
inductive with `EvaluatorHolds`; `FlagReachesAll` needs `NobodyUnaware`: a consumer between its
evaluation and its blocking holds the mutex which `wakeAllThreads()` takes after the
flag is set.

**Volumes** (`StorageSpeedProofs`). `QueryIsAlone`: whoever queries holds the cache's
mutex and saw no entry. `BehindIsLocal`: each name the walk has passed is local and no
link, by the mounts that the call has read. `WindowsInv` with the lemma
`OneVolumeHolds`: two folders that hold the same path hold one another, so without
mounts in folders the entry of an old table that holds the path and is still valid is
that of the volume which holds the path now.

`ResolvesAsKernel` compares two loops that do not go together: the walk starts over
at each link and the kernel does not, so the walk's steps through names it has seen before
are none of the kernel's. `InStep` says what ties them. The kernel, after `k` steps, stands
in a folder `dir` with the names `rest` before it, and the walk's path is `dir \o rest`.
The walk is not beyond the first name of `rest`, and `dir` is `Settled`: all its folders are
local and none is a link, so the walk, starting over, will come through it to where the
kernel stands. `NotALink` moves both, or only the walk while it is still inside `dir`
(`EntersNext`). `FollowLink` moves the kernel by one step and by those in which it
climbs (`KernelClimbsFirst`); the folder it climbs to is a prefix of `dir`, hence settled, and
the text the walk makes of the target is the path from there (`FromRoot`, `FromTail`,
`FromOrdinary`: what `LexicallyNormal` does, name by name). The last conjunct bounds `k`
by the names in the path and in the targets followed so far, so the kernel's lookup is
never cut short by `WalkBound`.

**Others** (`StandaloneProofs`). `DecidedBefore`: a thread about to call the workload
though paused decided before the pause. `Attested`: at each question of a query, what
the answers before it said of the volume found; the handle that Windows opened is of the
GUID's own volume, whatever its mount path leads to. `ProfileInv`: a site about to
create a counter holds the mutex and there is none of its name; each counter agrees with
the samples since its reset, but between the two stores of a reset, when only its time
does.

**The sponge** (`Sha3Proofs`, invariant `HashInv`). The context depends on nothing but
how many bytes have been fed: it is `ContextAt(w, n)`, the words of the blocks that are
full, the ones of the block begun, and the bytes of the word begun. An update walks
through three phases, the bytes that complete a saved word, whole words, and the rest, and
each takes `ContextAt(w, n)` to `ContextAt(w, n + m)`: the first and last fold over fewer
than eight bytes, the middle one over words, with a block absorbed whenever the word
index comes round. At the end the padded words are the ones FIPS 202 pads the message to.

**CPUs** (`StandaloneProofs`, invariant `CpuInv`). `Tally(cores, n)`: the cores found so
far hold `n` CPUs, and each holds one at least. On Linux `n` is the number of CPUs looked
at, which is kept through the step between the insertion of a core and its capacity; on
Windows it is what the fold over the available CPUs builds up. The classes are the parts
of the cores by level, taken in ascending order, so what they add up to is the whole
(`TotalOfParts`).

That the counts are *right* takes a second invariant, `ExactInv`, of a call in which
nothing failed and nothing changed. A core is found under a key that stands for it: on
Linux the list of its CPUs, which tells two cores apart since no CPU is in two lists, on
Windows its group and index. `Held(cores, key, cpus)` says that the cores found are
those of `cpus` and hold as many CPUs each as `cpus` has with this key; a CPU more keeps
it (`OneMore`). On Linux it holds of the CPUs looked at so far; on Windows the masks are
the affinity when the questions about it are answered, the default CPU Sets narrow them
to `Usable`, and the fold keeps `Held` over the available CPUs. At the end two keys that
tell the same CPUs apart are as many (`SameKeys`), and a level's class holds the CPUs of
that performance (`ClassHeld`).

**Induction** (`Folding`). The library's induction theorems take an operator, which the
provers cannot instantiate. The arguments on the sponge, the CPUs and the kernel's lookup
rest on another form of them: a set of
naturals that has a member has a least one, so a *set* of the numbers (or of the subsets)
up to which a claim holds cannot miss one if it is closed under the step. A fold is
then shown to be what any function that obeys its recursion gives.

### What is only model-checked

- Everything that must happen eventually (`QueuedIsTaken`, `RetireReturns`,
  `ShutdownReturns`, `ForReturns`, `AsyncCompletes`, `ExecReturns`, `TerminateReturns`,
  `UnpausedRuns`, `PauseParks`, `CancellationEndsRun`, `LookupEnds`): liveness
  under fairness is out of the prover's reach.
- `ResolvesAsKernel` with firmlinks, which is macOS: `volumes` checks paths that pass
  through one.
- `RoundIsFips`: a computation on 25 words of 64 bits, better evaluated than proved.

## Disagreements between code and documentation

1. **The drain's assertion and a concurrent `retire()`** (`pool_drain_retire`).
   `retire()` takes its tasks out of the lanes first and subtracts them from
   `queuedCount` afterwards (`cthreadpool.cpp:201-205`). A
   `finishAllThreads(true)` on another thread that reaches its closing assertion
   in between finds all lanes empty and a nonzero count, although no removal path
   missed its decrement. The header does not exclude the overlap.
2. **`parallelFor(1, fn)`** (`batch_single`) calls `fn` directly, so a throw leaves
   `parallelFor`; `cthreadpool.h:145` says it is contained and logged.
3. **`Profiler::mark()` behind `Profiler::start()`** (`profiler_marks`). `start()`
   sets the timeline back but not the time of the previous mark, so the first mark
   on a restarted timeline logs a difference of times of two timelines; if it is
   negative it wraps.
4. **External disks that are fast** (`volume_speed`). Only "/usb" in the sysfs path,
   or USB as the bus, makes a disk external. A mapped device (dm-crypt, LVM, md) on a
   USB disk has its node under `/sys/devices/virtual`, and Thunderbolt is not USB;
   `storagespeed.hpp:10` speaks of internal SSDs and the query's comments of
   external disks.
5. **`waitForItem()` without a predicate** (`queue_wait`) waits once, so it may
   return early with the queue empty; the header says it blocks until there is
   an item or the timeout elapses.

Also noted, without a run: on Linux and macOS the cache is keyed by a device's number
or name, so a disk that gets the number of a detached one inherits its speed.
`sha3_hasher.hpp:33` says that an empty `update()` "seems to underflow"; in this
`sha3_Update` it is a no-op, as `HashIsOfMessage` shows with pieces of length 0.
`CPeriodicExecutionThread::start()` replaces whatever workload `setWorkload()` or the
constructor had stored. `resume()` called before the periodic thread got to
park is not noticed by it. The predicate of its period wait is evaluated with
`_paused` already reset, and the rest of the period is waited out, although the
header says the workload runs again immediately. `UnpausedRuns` states what does
hold: a thread at its parking check runs without waiting. `resolveLocalSymlinks`
follows one link fewer than its limit of 40, since `--hopsLeft == 0` is tested
before the link is followed (the 40th is read and dropped); `ResolvesAsKernel`
is stated for fewer links than the limit. It makes a `..` in a target normal as text,
so one behind a name that is a link itself (`a/../b`) leads elsewhere than in the kernel;
nothing in the repository says otherwise. A Windows
volume mounted in a folder after the table was read is not found: the longest
match in the table is the drive around it, which is still valid, so neither the
reread nor the system is asked. `KeyIsCurrent` is checked for drive letters only.

## What is not modelled

- `CThreadPool`: `waitUntilStarted()` and its counter, which nothing else reads;
  `enqueueWithFuture()`, a wrapper around the body; names of threads; the lifetime
  of a task's captures. A lane's own mutex is not separate from its operation,
  since each takes it once. `retire(tag)` from inside a task of the same tag, which
  would wait for itself, is excluded by giving `retire` threads of their own.
- `ParallelBatch`: lanes and idle workers, which `ThreadPool` covers.
- `StorageSpeed`: the parsing of mountinfo, of the firmlinks file and of Windows
  path syntax; a UNC path is one whose call ends at once. An
  enumeration of the volumes is one access, though the code makes several calls.
- `CpuTopology`: the parsing of CPU lists; a process whose affinity spans groups
  before Windows 11, where `GetProcessAffinityMask` answers 0; macOS, a pair of
  `sysctl` reads.
- `PeriodicThread`, `InterruptableThread`: thread names, the payload's logging.
- The profiler's report, which reads and formats; `CTimeElapsed::pause` and `resume`,
  which nothing in the repository calls.
- Setting thread names, `cpuinfo.cpp`, platform shims, `win_utils`: thin wrappers over
  the operating system that keep no state.
- `CMeanCounter`, the language helpers, the memory search: sequential and pure.
- The byte order of SHA-3's words, and that many rounds are a permutation: `Keccak`
  checks one round at a time, each from the states that the rounds before it reach.

## Plan

Order, the most important behaviour first:

1. `ThreadPool` with its four passing runs; types, counts and the `retire`
   promise proved. *(done)*
2. `ParallelLoop` and `ParallelBatch`, refinement. *(done)*
3. `BlockingQueue`, `ExecutionQueue`, `PeriodicThread`. *(done)*
4. `VolumePaths` and `StorageSpeed`. *(done)*
5. `InterruptableThread`, `Sha3`, `Keccak`, `CpuTopology`, `ProfilerCounters`,
   `ProfilerTimeline`, `VolumeSpeed`. *(done)*
6. Proofs: the pool's workers and shutdown, the refinement of `ParallelLoop`, both
   queues, the periodic thread, the cache, the walk, the Linux and the Windows lookup of
   `StorageSpeed`, the queries of `VolumeSpeed`, the profiler's counters, the sponge,
   the CPU counts. *(done)*
7. `BlockingQueue` shown to be the lane that `ThreadPool` assumes.
8. `ResolvesAsKernel` for macOS: what firmlinks may be there (none within the target
   of another, no link on the way to one), and that a canonical path stays the same
   when its firmlinks are entered one by one.
