# ROMP, specified and checked in TLA+

ROMP is a dynamic data race detector for OpenMP programs. A Dyninst client
rewrites the program so that every memory instruction calls `checkAccess`
(`RompLib.cpp`); the OpenMP runtime reports the program's constructs through OMPT
callbacks (`Callbacks.cpp`), from which ROMP builds a *label* for each task. An
access is compared with the earlier accesses of the same byte, kept in its
*access history*: the pair is a race when the labels do not order it, no task
dependence orders it, and no lock excludes it.

All of the detector runs on the threads of the program it watches, so that it is
itself a concurrent program. This directory models the detector: its lock, its
shadow memory, its dependence graph, the history of an address, the labels with
their comparison and their bits, the stacks and what is private on them, whole
checks of several threads up to the final report, and the client that inserts the
calls.

Paths below are relative to `src/RompLib/src`, headers to `src/RompLib/include`.

## 1. Inventory

| Component | State | Operations | Correct when |
|---|---|---|---|
| MCS queuing lock (`McsLock`) | tail pointer; per caller a stack node with `locked` and `next` | `mcsLock`, `mcsTryLock`, `mcsUnlock`, `LockGuard` | one holder; no pointer to a dead stack node; no waiter lost; first in, first out |
| Access history (`RompLib.cpp`, `AccessHistory`, `Record`) | per byte: records, flags, a lock | `checkDataRace` | every race of the byte is found although records are pruned; one report per byte; no unjustified report |
| Lock sets (`LockSet`) | up to four nested locks per task | `addLock`, `removeLock`, `hasCommonLock`, `isSubset` | `isSubset` and `hasCommonLock` mean what they say |
| Task dependence graph (`TaskDepGraph`, `ParRegionData`) | per region: tasks by variable, edges, a task counter, a lock | `addDeps`, `hasPath` | no cycles; edges for declared conflicts of siblings only; the search is right and ends |
| Labels (`Label`, `Segment`) | per task a sequence of segments, shared between labels; counters packed in 64 bits | `gen...Label`, `mutate...` | labels tell the order of the tasks |
| Happens-before analysis (`Core.cpp`) | none | `happensBefore`, `analyze...`, `manageAccessRecord` | true exactly for ordered tasks; no assertion fails |
| OMPT callbacks (`Callbacks.cpp`, `TaskData.h`) | task data: label, lock set, unsynchronized children | one handler per event | labels, lock sets and marks follow the program |
| Shadow memory (`ShadowMemory.h`) | two level page table, per thread a cached spare page of each level | `getShadowMemorySlot`, destructor | one slot per address for all threads, for ever |
| Data sharing (`DataSharing.cpp`) | none of its own; exit frames, stack bounds | `analyzeDataSharing`, `recycleMemRange`, `recycleTask...` | what goes unchecked is private; recycled memory is dead and starts a new history |
| Thread data (`ThreadData.h`) | stack bounds, label number, tables of the duplicate filter | `isDupRead`, `isDupWrite` | the filter hides no access that matters |
| Query functions (`QueryFuncs.cpp`) | none | OMPT queries | every failure is noticed |
| Reporting, initialization (`CoreUtil.cpp`, `Initialize.h`) | race flag, counter, list and its lock; report modes | `prepareAllInfo`, report, `omptInitialize`, `omptFinalize` | what is printed is what was found |
| Instrumentation client (`src/InstrumentClient`) | a binary image, a set of insertions | open, collect, insert, finalize, write | a file that is written has a call at every access |

How they interact: a callback runs on the thread of the task it is about, and
changes the task's data; a task's label is replaced and never changed, except for
the marks on its segments. `checkAccess` finds the history through the shadow
memory, holds the history's MCS lock during the whole check, and inside it takes
the region's MCS lock for a look at the dependence graph, or the lock of the list
of races. Records share labels and lock sets with tasks, and point to task data.

What is hard: the lock and the page table are lock-free code; the pruning of a
history is right only for all later accesses together; labels must agree with
the order of events for every nesting of constructs; marks are put on segments
that histories already hold; everything has a bounded counter. `PROJECT.json`
lists these hazards at their lines.

## 2. Plan

Modules, in order of importance and of writing:

1. `FifoLock`, `McsLock`, `McsLockProofs` - the lock everything else relies on. *Done.*
2. `LockSet`, `AccessHistory`, `AllAccesses`, `AccessHistoryProofs` - one address, several stretches of
   execution, a given order; a location that forgets nothing, which it implements. *Done.*
3. `TaskDepGraph`, with its half of `DataStructureProofs`. *Done.*
4. `Label`, `HappensBefore`, `Tasking`, `TaskingProofs`, `TaskProgramProofs` - labels against the real order of an
   OpenMP program, with dependences. *Done but for the constructs of section 7; proved for
   programs of regions and barriers and for programs of tasks, taskwaits and barriers.*
5. `ShadowMemory`, `ShadowMemoryProofs`. *Done.*
6. `SegmentBits`, with the other half - the words behind the segments of `Label`. *Done.*
7. `Checking`, `CheckingProofs` - several threads, several bytes, dependences, queries
   that fail, and the report. *Done.*
8. `DataSharing`, `DataSharingProofs` - stacks, private memory and recycling. *Done.*
9. `InstrumentClient`. *Done.*

Next, as far as the prover reaches:

- Labels: the theorems of `TaskProgramProofs` with taskgroups, with worksharing, or with explicit tasks in nested regions.
- `WrittenIsComplete` of `InstrumentClient`, whose four functions each leave their part of the file behind.
- `Checking` over `McsLock` instead of a queue per lock, if the product can be kept small.

## 3. Modules

**`FifoLock`** is the abstract lock: the sequence of the threads that have asked
for it, the holder first; a failed try changes nothing.

**`McsLock`** has one action per atomic instruction. `pc[t]` is the place in
`mcsLock`, `mcsTryLock` or `mcsUnlock`; `tail`, `next[t]` and `blocked[t]` are
the memory; `pred[t]` and `succ[t]` are locals. A node is named by its thread: it
is a local of the guard, reset by `FreshNode` at each call.

**`LockSet`** translates the lock set as a sequence without holes, with the loop of
`isSubset` as the code has it (all pairs equal).

**`AccessHistory`** models one byte. The program is a set of *stretches* (what a
task executes under one label) with a given strict order `Before`, the pairs
ordered by a dependence path (`Path`), the labels that return after a single
(`Popped`), and the explicit and the mutex tasks. `CheckAccess` is the head of
`checkDataRace`, up to the loop; one iteration is `AnalyzeExcluded`,
`AnalyzeOrdered` or `ReportRace`, then `ManageRecord`; `EndLoop` pushes the access and
gives up the lock. `isHistBeforeCurrent` and `diffIndex` are variables because the
early returns of `analyzeRaceCondition` leave them as they are; at the head of the
loop `diffIndex` is uninitialised and takes any value. `performed` and `reports`
are history variables. `dup` is the duplicate filter (`isDupMemAccess`, the tables of
`ThreadData`): the kinds of access, read or write, it has seen of the byte under the
current label number; a new stretch, and the lock and reduction callbacks, begin a
new number.

**`AllAccesses`** is the location that keeps all its accesses and is marked by the first
that conflicts with one before. `AccessHistory` without locks implements it
(`ImplementsAllAccesses`): pruning, the duplicate filter and the order of the records
change nothing of the verdict. This is said of the executions in which nothing but the order
excludes a race (`OrderOnly`: no locks, lock prefixes, reductions or mutexinoutset tasks).

**`TaskDepGraph`** has the creation of a task (its number drawn from a counter),
the dependences callback under the region's lock (one dependence per step), and
`hasPath` with its stack and visited set under the same lock. What the search should
find, `Reaches`, is stated without recursion: a task is reached if it is in every set that has
the first one and is closed under edges. `Checking` and `DataSharing` state paths and
ancestors in the same way.

**`Label`** translates each `gen` and `mutate` function. A segment is a record of
the fields of its word, plus `obj`, the identity of the object: labels share
segments and marks are set in place. The flag of a section and the flag of a
placeholder are one bit in the code and one field, `bit2`, here.

**`SegmentBits`** is the class below: the words `_value`, `_taskGroup`, `_orderSecVal` and
`_workShareId` as sets of bit positions, every mask and shift of `Segment.cpp` as a
constant, every setter as an action and every getter as an operator. `stored` is what
the setters were last given, `clone` a copy taken at some moment.

**`HappensBefore`** translates the case analysis of `Core.cpp`. Its operators answer
`"yes"`, `"no"` or `"abort"` (a failed `RAW_CHECK` or a fatal message).

**`Tasking`** drives both with an OpenMP program that chooses its constructs as it
runs. `Programs` is a set of families of programs, each with its constructs, team
sizes, bounds and claims; `app` is the family the run is of. Next to the code's state (`label`,
`children`) it keeps the real order: `past[t]` is the set of stretches that happen
before the current one of task `t`, and `recorded` the label of each stretch, which
a record of it would hold. A property compares `IsRace` on labels with `past`.
`edges` is the
dependence graph, which `Detected` asks as `analyzeRaceCondition` does. Conventions:

- All implicit tasks of a team begin in one action: the label of the parent, from
  which each derives its own, does not change until they are joined.
- An iteration or a section is a logical task: two iterations are unordered unless
  ordered regions order them, whichever thread gets them. The real order is thus
  that of the program and not of one schedule.
- An explicit task may run at any moment after its creation, which includes every
  order a number of threads allows.
- The initial task is not checked (as in `checkAccess`), and no accesses are made
  between the begin of a loop and its first iteration, or by the threads that skip
  a single.
- A task with dependences shares a variable with each task it depends on and with no
  other: the graph then has the edges that were declared (what else becomes of it is
  `TaskDepGraph`'s matter).
- A task without a label, undeferred or in a taskloop, takes no further step: the next
  callback would dereference the null pointer.

**`ShadowMemory`** has one action per load or compare and swap of
`getShadowMemorySlot`, per thread, for `checkAccess` and for `recycleMemRange`,
which uses a table of its own (`Global` is the table all share). A page is a model
value, allocated by `Calloc`; freed pages return. The spare pages of a thread are
its caches.

**`Checking`** has threads that run explicit tasks of one region, one thread that
creates them, and an action for each part of `checkAccess` between two operations
on something shared: `EnterSlot` is the head of `checkDataRace` under the lock of the
byte, `SameTask`, `AskRegion` and `SearchPath` are one record of the loop, `CountRace` to `SetFlag`
the report, `NextByte` the loop over the bytes. A lock is the queue of the threads
that have asked for it, the interface of `FifoLock`. A query of the runtime returns
some number of the setup's `answers`, and a thread outside `threadData` has no duplicate filter; `omptInitialize` chooses how to report, `omptFinalize` prints. Labels
are abstracted to the tasks: without a path two tasks of a region are unordered.

**`DataSharing`** lays out memory as words: private blocks of tasks, then a stack for
each thread, with an exit frame and a local variable for each task that has a frame on
it. `checkAccess` is made by a task on one of the variables it can name, its own or those of a task
above it; `races` and `past` are history variables that know the real order. A task that
waits stays on the stack below the one that runs; an untied task may leave it and
go on elsewhere. `recycleMemRange` marks nothing anybody sees, as in the code (`ShadowMemory_recycle`, section 5); `freed` is
what it was asked to mark. A thread without a `ThreadData` has null bounds, and the end or switch of a task on it ends the process.

**`InstrumentClient`** is the pass over an image: modules of functions of points. The functions
are collected module by module (`NextModule`), then instrumented one after the other, point by point. A step of
Dyninst that may fail has two outcomes, one of which ends the process. `written` is
the sequence of files that were written, each the set of its calls.

`MC...` modules give the bounds, and names to the small programs; `...Proofs` modules the proofs.

Three modules quantify over kinds of executions: `execution` of `AccessHistory`, `app` of
`Tasking` and `setup` of `Checking` and `DataSharing` are chosen at the start from a constant set
of records and never change, so that one run covers several small programs with bounds that fit each.

## 4. Runs that pass

| Run | Question | Bounds |
|---|---|---|
| `McsLock` | mutual exclusion, dangling nodes, lost waiters, in every interleaving; every request is granted; `FifoLock` is implemented | 3 threads, any number of rounds: a holder, one linked and one unlinked waiter are the three roles there are |
| `AccessHistory` | no race is lost by pruning without locks: `AllAccesses` is implemented; with them and the values left by early returns, an access without locks is never forgotten (`UnlockedNeverForgotten`); one report at most; reports are justified; `isSubset` is sound | `Team`: 8 stretches without locks: 2 threads with a single whose label returns, a barrier, then 3 tasks, 2 of them ordered by a dependence, and a taskwait; 8 of the 16 accesses they can make (any number: section 8). `LockTaken`: 3 stretches, one lock, 4 accesses, 3 records: an ordered record that sets the flag, one that no analysis reaches, the access they are compared with and the one that comes too late; with all of three records kept nothing is forgotten. `TwoLocks`: 2 threads, 2 locks, 3 accesses, 2 records. `Reducing`: the same with one lock and a reduction |
| `TaskDepGraph` | no cycles; edges only for conflicts; `hasPath` is right and ends | 4 tasks, 2 creators, 3 variables, lists of two dependences (in, out, inout, mutexinoutset): tasks are reached along several paths |
| `Tasking` | `OrderedSilent`: no false alarm; `OnlyAncestorsMissed`: which races labels miss; `SiblingsSilent` for taskwaits and taskgroups; `ChecksPass`: no abort; `DeletedDataNotRead`: no look at deleted task data | `CheckedPrograms` of `MCTasking`, below |
| `ShadowMemory` | one slot per address, for ever; each page has one home; caches | 2 threads, 2 second level entries of one page |
| `SegmentBits` | no field of a segment disturbs another; comparing words compares fields | sequences of 3 calls, arguments 0, all ones of 2, 4, 15 and 16 bits, and 2^16: what one setter can do to another's field shows with two calls |
| `Checking` | races of several bytes are found in every interleaving; tasks ordered by dependences are silent; the report is right in all modes and though queries fail; every check returns, so that the locks are never waited for in a circle | 2 threads, 3 tasks, one dependence, 2 bytes, 3 accesses; `Known`: all modes, queries succeed; `Failing`: any query may fail, and one thread has no `ThreadData` |
| `DataSharing` | what goes unchecked is a variable of the task itself; what is recycled at the end of a tied task is dead; races on other tasks' and on private memory are found though tasks move and memory is recycled | 2 threads and 2 tasks; `Nested`: tied, stacks of 3 frames that may be unset, 2 blocks, 2 accesses; `Moving`: one untied, stacks of 2 frames, bounds that may be unknown, 1 block, 3 accesses; `NoData`: tied, a thread without `ThreadData`, 2 blocks, 3 accesses |
| `InstrumentClient` | a file that is written has one call, of the right kind, at each access | a library and a module of two functions of 0 or 2 points of 7 kinds; any step may fail |

The programs of the `Tasking` run. `ChecksPass`, `DeletedDataNotRead`, `SiblingsSilent` and `TypeOK` hold of
all; a program makes the claim "silent" (`OrderedSilent`) or "ancestors"
(`OnlyAncestorsMissed`) unless the property fails for its constructs.

| Program | Constructs | Team | Stretches after the first, by depth | Claims |
|---|---|---|---|---|
| nested | barriers and nested regions | 2 | 2, 1, 1 | both |
| workshare | loops, sections, singles, barriers; 2 iterations | 2 | 1, 5, 1 | both |
| single | tasks created in singles | 2 | 1, 4, 0 | both |
| tasks | tasks, taskwait, barriers | 2 | 1, 3, 0 | both |
| waits | tasks, taskwait, barriers | 1 | 1, 5, 1 | both |
| regions | successive regions with tasks and barriers | 2 | 2, 2, 0 | both |
| depend | tasks with dependences | 2 | 1, 3, 0 | both |
| unlabelled | an undeferred task, a taskloop | 2 | 1, 1, 0 | both |
| ordered | loops with ordered regions; 3 iterations | 2, 3 | 1, 5, 1 | silent |
| nowait | loops without their barrier; 3 iterations | 2 | 1, 5, 1 | ancestors |
| chain | tasks that create tasks, taskwait | 1, 2 | 1, 1, 1, 0 | ancestors |
| long chain | tasks that create tasks, taskwait | 1 | 1, 2, 1, 1, 0 | ancestors |
| group | taskgroups, tasks | 2 | 1, 3, 1 | none |
| lone | taskgroups, tasks, taskwait | 1 | 1, 4, 1 | none |

`maxSteps` bounds the stretches of a task of each depth, so that all counters stay
below the limits of their fields (16 for most), where the code aborts. Two
threads suffice for what relates two accesses; the third thread of the lock and
the third team member of the ordered program are there because a chain of three
differs from a pair.

`CHECK_DEADLOCK FALSE` appears where a program ends or its choices are used up
(all but the lock and the shadow memory, whose users never stop). That no thread is stuck in a
check is `EveryCallReturns` of `Checking`.

`ConcurrentReported`, `OrderedSilent` and `ChecksPass` would be the whole contract of
the labels: complete, precise, no abort. It does not hold in general, and section 5
shows how it fails. `OnlyAncestorsMissed` is what holds of the first: it implies
`ConcurrentReported` for programs without explicit tasks.

The type invariants of `SegmentBits`, `Checking`, `DataSharing` and `InstrumentClient` hold in their runs
too and are not listed there; those of the first three are proved. `ShadowMemory` has been checked with
`CrossingRanges` and `L1Indices = {i1, i2}` as well, accesses that cross from one
first level entry to the next (about four million states, no error).

## 5. What the code does otherwise than it says

Three runs of `PROJECT.json` check a statement of a comment, quoted in `findings`, and fail:

| Run | Property | What happens |
|---|---|---|
| `AccessHistory_missed` | `RacesFound` | the early return of `analyzeRaceCondition` leaves the happens-before flag of the previous record, or an uninitialised index; an access is dropped and a race is missed |
| `TaskDepGraph_siblings` | `EarlierSiblingsPrecede` | only the first task that names a variable is remembered |
| `Tasking_torn` | `SilentWhileMarked` | a mark set between two looks at a shared segment: false alarm |

More statements fail in the same way. Each line is a configuration, or the setting of one of the
module's configurations under which TLC finds the counterexample.

| Configuration | Property | What TLC shows |
|---|---|---|
| `AccessHistory_mutex` | `RacesFound` | pruning ignores mutexinoutset: a race is missed (`Core.cpp:713`) |
| `AccessHistory_subset` | `SubsetIsExact` | a set of two locks is not a subset of itself (`LockSet.cpp:104`) |
| `AccessHistory`, `Executions <- Atomic` | `ReportsJustified` | two atomic accesses without lock sets are reported (`Core.cpp:83`) |
| `TaskDepGraph_siblings` | `EdgesBetweenSiblings` | edges join tasks that are not siblings (`TaskDepGraph.cpp:15`) |
| `TaskDepGraph_mutex` | `MutexPairsShareVariable` | mutex tasks on different variables count as exclusive (`Core.cpp:52`) |
| `Tasking_sections` | `ConcurrentReported` | section and placeholder share a bit: races in sections are missed (`Segment.cpp:34`) |
| `Tasking_taskgroup` | `OrderedSilent` | the mark of a task that a taskgroup has awaited lands in its parent's segment: false alarm (`Callbacks.cpp:139`) |
| `Tasking_waitwait` | `OrderedSilent` | nested taskwaits: the same for a taskwait (`Callbacks.cpp:114`) |
| `Tasking_dependchild` | `OrderedSilent` | the child of a task with a dependence is reported against the task depended on (`Core.cpp:65`) |
| `Tasking_wrap` | `OrderedSilent` | the 16 bit offset wraps: an ordered pair is reported (`Segment.cpp:94`) |
| `Tasking_prefix` | `PrefixIsOrdered` | after a single without barrier, the old label returns: a race is missed (`Label.cpp:257`) |
| `Tasking_unlabelled` | `RunningTasksLabelled` | undeferred and untied tasks, and taskloops, run without a label (`Callbacks.cpp:422`, `472`) |
| `Tasking_deleted` | `DeletedDataNotRead` | nested regions: a record of an implicit task that is over is compared with an explicit task, through the pointer to its deleted data (`Core.cpp:49`) |
| `Tasking_sections`, `OnlyMissed` | `ConcurrentReported` | a race of a task with its own deferred child is missed (`Core.cpp:399`) |
| `Tasking_sections`, `OnlyAnyOrder` | `ConcurrentReported` | ordered phases order iterations that nothing orders (`Core.cpp:249`) |
| `Tasking_taskgroup`, `OnlyWaitFork` | `OrderedSilent` | task, taskwait, parallel region: false alarm |
| `Tasking_taskgroup`, `OnlyIteration` | `OrderedSilent` | a parallel region in an iteration: false alarm |
| `Tasking`, `OnlyGroupBefore` | `GroupSyncIsOrder` | a task created before a taskgroup counts as awaited by it (`Core.cpp:591`) |
| `Tasking`, `OnlySerial` | `ChecksPass` | a nested team of one: `RAW_CHECK` (`Core.cpp:410`) fails after the join |
| `Tasking`, `OnlySingleTask` | `ChecksPass` | a single without barrier, then a task: `RAW_CHECK` (`Core.cpp:134`) fails |
| `Tasking`, `OnlyGrandchild` | `ChecksPass` | a task created after a taskwait, then an access of a grandchild from before it: the process ends with the message of `Core.cpp:570` |
| `ShadowMemory_recycle` | `RecycledIsMarked` | recycled memory is marked in a private table that is gone when the function returns, so that no check finds a mark, although one branch of `checkDataRace` waits for it (`DataSharing.cpp:76`, against its comment in lines 64-67 and that of `RompLib.cpp:53-57`) |
| `SegmentBits_negative` | `FieldsIndependent` | a negative iteration number is taken for a single (`Segment.cpp:303`) |
| `SegmentBits` | `TaskwaitPhaseStored` | a second phase is or'ed into the first (`Segment.cpp:138`) |
| `SegmentBits` | `TaskGroupPhaseStored` | the phase is stored in one word and read from another (`Segment.cpp:162`) |
| `DataSharing_locals` | `SharedLocalsChecked` | a task's own accesses to locals it shares with its children are never checked (`DataSharing.cpp:56`; `tests/dataracebench/micro-benchmarks/DRB106-taskwaitmissing-orig-yes.c:49` counts on them) |
| `DataSharing`, `OnlyNested` | `RecycledIsDead` | a task switched out has its live frame recycled (`Callbacks.cpp:551`) |
| `DataSharing`, `OnlyUntied` | `EndedIsAlwaysDead` | an untied task ends on another thread than it made its last access on: the range between the two stacks is recycled |
| `DataSharing`, `OnlyUnknown` | `EndedIsAlwaysDead` | a thread whose stack bounds are unknown: everything below the exit frame is recycled, the heap included |
| `DataSharing`, `OnlyReuse` | `AlarmsAreRaces` | a new task's local at the address of a dead one: false alarm, since the marks are lost |
| `InstrumentClient_lock` | `LockPrefixSeen` | a lock prefix after another prefix is not seen (`InstrumentClient.cpp:156`) |

`Tasking_wrap` takes 4 as `OffsetLimit` instead of 2^16: only the number of
barriers until the wrap depends on it.

## 6. Liveness and fairness

`McsLock`: `FairSpec` asks for weak fairness of each thread's `Proceed`, its steps
inside `mcsLock` and `mcsUnlock` and its leaving of the critical section, which is a
`LockGuard` scope with no blocking operation except another such lock. The system's scheduler
runs every runnable thread. Nothing makes a thread ask for the lock. `StarvationFree`
then says that a thread in the queue gets the lock.

`Checking`: `FairSpec` asks for weak fairness of each thread's `Proceed`, its steps
inside `checkAccess` and the dependences callback, which are code without blocking
operations other than the locks. Nothing makes a task access memory, nor a query
succeed. `EveryCallReturns` then says that a thread inside comes out again.

`TaskDepGraph`: `FairSpec` asks for weak fairness of the holder of the region's lock:
a thread in its critical section runs on. `SearchEnds` says that the search ends.

## 7. What is not modelled

- Weak memory: the atomics of `McsLock.cpp` and `ShadowMemory.h` use acquire and
  release orders; the models interleave atomic steps.
- `distribute` and `workshare` (the runtime reports them for `teams` and Fortran; the
  handlers end the program), target tasks, cancellation and detached tasks (the handlers log).
  An undeferred task or a taskloop is modelled up to the null label it leaves.
- What happens after deleted task data is read, or a null label dereferenced: undefined
  behaviour, excluded or shown by a property.
- The types of dependences together with labels (`Tasking` has plain edges), and mutexinoutset tasks
  outside `AccessHistory` and `TaskDepGraph`.
- Loops and singles without barrier raise false alarms between what a thread did
  in them and what it does later, as does a taskwait inside a single: the first are among the programs
  of the run without the claim "silent", the others are not among them.
- The wrappers of `QueryFuncs.cpp` that keep no state, the wording of reports and the lines found
  for them, `toString`, the registration of callbacks, the command line of the client, and Dyninst itself: which of two
  memory operands of an instruction it gives, for instance (`InstrumentClient.cpp:196`).

## 8. Proofs

TLAPS proves, for every value of the constants:

**`McsLockProofs`**: `TypeOK`, `MutualExclusion`, `NoDanglingNode`, `NoLostSuccessor`,
`FreeWhenUnused` and `ImplementsFifo` of `McsLock`, for any set of threads and the one assumption
that `Nil` is none of them. None of them is inductive: that two threads are not both in the
critical section depends on the shape of the queue. `IInv` says that a sequence
exists, without repetition, that holds exactly the threads with a node in use;
its last element is the tail (or it is empty and the tail is nil); each thread but the first has
the one before it as predecessor, and is blocked once it has said so; the link of
each to the next is set exactly if the next has passed its linking step; only the
first may hold or hand over the lock. An arrival appends to the sequence and a handover removes its
head; each action has one step of the proof, and lemmas state what both do to the
sequence. `ImplementsFifo`, for any finite set of threads: `QueueIsUnique` says that the nodes form
one queue only (two agree from the tail on by their predecessors, and in the owner), so that
`QueueOf`, the queue of `FifoLock`, is the sequence of the invariant. An exchange of the tail is
then a `Join`, the end of a spin an `Enter`, a successful removal and a handover a `Leave`; every
other step leaves the abstract lock as it is.

**`AccessHistoryProofs`**: the history of one byte for any program, that is any stretches with any
strict partial order, any tasks and locks, and any number of accesses. One invariant, `SafeIInv`, carries
`TypeOK`, `ReportedOnce`, `SubsetIsSound` and `ReportsJustified`: the
records are of accesses that were made; one race at most has been reported, and then the flag is
set; a task without locks has no lock set; and what the locals of the loop say is right for the record at hand
if it or the access holds no lock, since the analysis then did not return early (`Analyzed`).
`ReportsJustified` is proved for programs without lock prefixes: with them it fails (section 5, `Core.cpp:83`).

`UnlockedNeverForgotten` and `RacesFound`, what pruning leaves of the accesses, need a second invariant, `PruneInv`, which
holds without lock prefixes and mutexinoutset tasks. A record
*covers* an access if it is of no lock, the access is ordered before it and is a read or the record a write:
what races with the access later races with the record. `Covered` says that every access that was
made without locks is covered by a record or by the access that is being checked; `Passed` that the records
the loop has passed do not race with it, if either has no lock; `SkipCovered` that an access without locks is
dropped only for a record that covers it; `DupsPerformed` that the duplicate filter knows only accesses
that were made under the locks of now. A decision on left values concerns a record and an access that both hold locks: neither covers anything.
`UnlockedNeverForgotten` says this for any locks other accesses are made under; if none are, it is `RacesFound`.
`AccessHistory_missed` and `AccessHistory_mutex` show that `RacesFound` fails with locks and with mutexinoutset
tasks. The refinement `ImplementsAllAccesses` follows, since with `RacesFound` the flag is that of the location
that forgets nothing; reductions are left out there, because an access inside one is not compared with the
history, although it is added to it.

**`CheckingProofs`**: `RacesFound`, `DependentTasksSilent` and `ReportAccounts`, for any threads, tasks, dependences,
bytes and answers of the queries, assuming that the bytes are a finite set in which nothing is
missing between two of them, that dependences lead from lower to higher task numbers, and that none of the
names of locks and tasks collide. The parts of `IInv` are: `Queues`, who waits for which lock and who holds it, so that what a
thread does under a lock disturbs nobody else inside; `InOrder`, that a task has started only after those it depends on
are done and their edges are in the graph; `Loops`, what a check has established of the records it has passed; `Checked`, that
every access of a byte that is settled (its check is over, or the filter of its thread takes
it for checked) is covered by a record or by the access in the loop, and that no two of them race unless the flag is set;
`Accounts`, that the counter and the lines are those of the bytes with the flag and of those whose
thread is between finding the race and setting the flag. TLC has checked the same `IInv` as an invariant of the run.

**`DataStructureProofs`** is about two modules that share no state. `TaskDepGraph`: `Acyclic`, for any finite set of tasks, creators, variables and
dependence lists. The invariant adds to it that every number in use is below the
counter, that the tasks in `_deps` exist, and that the holder of the lock exists;
the test of `addDeps` on the numbers then directs every edge upwards.
`EdgesDeclared`, from an invariant of its own: what is in `_deps`, and what is left to
register, has been declared by its task. `SearchCorrect`: while the search runs, everything it has come across can be
reached from where it began, and the neighbours of what it has visited have been pushed, so that what it has visited
is closed under edges when the stack is empty. An answer stays true while
other tasks register, because registration adds edges only into the task that registers, which has none out
of it yet and is neither end of the search.

`SegmentBits`: `FieldsIndependent` and `EqualityIsFieldwise`, for any sequence of
setter calls with any arguments. The one assumption, `IdsFit`, is that iteration
numbers leave bits 62 and 63 of their word free; `SegmentBits_negative` shows that it is needed.
A word is the set of its bits, a mask a set of positions: `LoadStored` says that a field holds
what was stored in it if it fits, `MasksDisjoint` that no two masks of one word share a bit, and
`OthersKept` follows. `SegmentInv` says that the words hold the fields the setters were last given;
that equal words have equal fields is then one direction of `EqualityIsFieldwise`, and
that a word has no bits but those of its fields (`WordIsItsFields`) the other.

**`ShadowMemoryProofs`**: `TypeOK`, `CacheEmptyWhenSaving`, `SlotsAgree`, `SlotsArePermanent`
and `PagesHaveOneHome`, for any threads, index ranges, ranges of addresses and supplies of
pages, assuming that null is no page and that no page is of both levels. `IInv` adds what the locals of a lookup say
(the entry a thread has passed is not empty, its slot is the entry it found) and the three facts `PagesHaveOneHome` counts: no two places hold
one page, what a place holds is allocated, and what is allocated is in a place. The lemma
`TableStays` (nothing leaves a table but by its destructor) carries the steps of one thread
past the lookups of the others.

**`DataSharingProofs`**: `SkippedIsPrivate`, `StrangersRacesFound` and `EndedIsDead`, for any number of threads,
levels of a stack, tasks and blocks. The layout comes first: the stacks lie apart, between the heap and the static memory
of the threads, and two frames share no word. `Frames` says that the tasks that run are those with a
frame and that they have one each; `TiedFrames` that the exit frame remembered for a tied task is that of
its only frame, so that what is recycled at its end is its own part of the stack, above which nobody lives; `Settled` that an
access went unchecked for being on the task's own part of the stack or is in the history of its
location until a race is found there, which recycling cannot change since its marks go to a table of its own.

**`TaskingProofs`**: the labels are exact for fork-join programs, `LabelsAreExact`: of an access that
may be in a record and the task that makes the next one, `happensBefore` answers `"yes"` if the
program orders them and `"no"` if it does not. `ConcurrentReported`, `OrderedSilent` (with or without the
claim "silent") and `ChecksPass` follow. `ForkJoin(M)` says which programs: parallel regions of any
number of threads, nested to any depth, with any number of barriers, in which no task has more than
`M` stretches after its first. Two more conditions are needed, and section 5 shows both: teams have more than one
thread (`OnlySerial`: a nested team of one makes a check fail), and no offset wraps (`Tasking_wrap`). A
fork and a barrier each add the span to the offset of a segment; a task goes through at most `M`
regions with at most `M` barriers and one end each, hence `size * (1 + M * (M + 1)) <= OffsetLimit`. With
`OffsetLimit = 65536` that allows a team of 64 some 30 stretches; the nested program of section 4 is
one with `M = 2`, and for it TLC has checked the parts of the invariant. They are:

- `Typed`: a label has a segment for each task on the path, whose offset modulo the span is the index in the team.
- `Tree`: whoever is below a live task waits for it, and was forked in an earlier or the current stretch.
- `Counted`: how far the offsets have grown.
- `Coherent`: the labels of two live tasks are equal as far as they share their way. A barrier moves the
  second last segment of each member of a team at a moment of its own; so the labels compared are those that the tasks will go on with.
- `RegionBehind`: a record from the region of a task is not ahead of it in the segment that barriers move.
- `PastOfRegion`, `PastOfFork`: what happened before a task either happened in its region or before the fork.
- `Current`: the label of a task is the one recorded for its stretch.
- `AllTold`: each record either `Precedes` the label of a task that goes on (a prefix, or behind at the first position
  where they differ) or is `Beside` it (equal down to a team, and of two members there), according to the real order.

`PrecedesIsBefore` and `BesideIsConcurrent` are what `compareLabels`, `happensBefore` and its callees make of the
two. Each of the five actions that such programs have is first turned into what it changes (`Forks`, `Opens`, `Goes`), then
shown to preserve each part; `OnlyForkJoinSteps` excludes the others.

**`TaskProgramProofs`**: what labels tell of explicit tasks. `TaskProgram(M)` are the programs in which the initial task forks regions
one after the other, of any number of threads, and everybody in them creates explicit tasks, to any depth, which
create tasks and wait for those they created; the members of the team meet at any number of barriers. `M` bounds the stretches of
a task, and `1 + M * (M + 1) <= OffsetLimit` keeps the offset of the first segment from wrapping: with 65536, `M` is
at most 255. (The model counts taskwaits beyond 15; the code stops there, `Segment.cpp:199`.) The programs
"tasks", "waits", "regions", "chain" and "long chain" of section 4 are of this kind. Of all of them it is proved:

- `YesIsOrder`: what the detector takes for ordered is ordered, or is of a task above the current one.
- `SiblingsSilent`: between tasks of one parent, a taskwait keeps it silent.
- `DeletedDataNotRead`: it does not read the data of an implicit task after they are deleted.
- `PrefixIsOrdered`: the label of a running task is never a prefix of a recorded one (`Tasking_prefix` shows one where it is, after a single).

`Shallow` are those of them where nobody waits for a task that has created tasks: there is no taskwait, or tasks
are not created by explicit tasks. Of those `OrderedSilent` (with or without the claim "silent"), `ChecksPass`
and `OnlyAncestorsMissed` (with or without the claim "ancestors") are proved as well. Without `Shallow`, `OrderedSilent` and
`ChecksPass` fail, as section 5 shows (`Tasking_waitwait`, `OnlyGrandchild`): what the detector does then depends on which
tasks between the two are marked.

The invariant `TaskInv(M)`, checked with TLC on small programs of the family before it was proved:

- `TaskTyped`, `TaskTree`: tasks are paths, the whole path to a task exists, and each of its stretches is recorded.
- `TaskLabels`, `TaskObjects`, `TaskCurrent`: a record has a segment for each task on the path, which is the one that this task
  had in the stretch that created the way down; the label of a live task is the last recorded. Which segment objects a
  taskwait marks follows from the owner of each object.
- `TaskCounts`: the counters `taskwait` and `taskcreate` of a task grow from stretch to stretch, and each created task counts.
- `TaskEpochs`, `TaskEnds`, `TaskBounds(M)`: the offset of the first segment is the number of barriers so far, the same
  for all that live as soon as they have left the barrier; what was recorded with a smaller one has happened.
- `TaskMarks`: who is marked as waited for is over, and a task that lives was created after the last taskwait of its parent.
- `TaskChain`, `TaskWaited`: if all from a task down to the one of a record are marked, or all but the first and
  the parent of that one has waited since, the record is in the past.
- `TaskLineage`, `TaskPast`: a task's own earlier stretches and those above it up to its creation are in its past, and
  nothing else is but what a barrier or a taskwait puts there.

The last four are the two directions between marks and counters on one side and the real order on the other. Two labels
are compared at the first position where they differ: at the first segment barriers decide, at the second nothing orders two
members of a team, and below, of two explicit tasks of one parent, the counters and the marks do.
Each of the eight actions that such programs have is turned into what it changes (`Starts`, `Passes`,
`Rests`, `Advances`, ...), and that is shown to preserve each part; `OnlyTaskSteps` excludes the other actions.

Only model-checked:

- `Tasking` beyond those two families: taskgroups, dependences, loops, singles, sections, ordered regions, undeferred
  tasks, and explicit tasks in nested regions. There `OrderedSilent`, `ChecksPass`, `SiblingsSilent`, `DeletedDataNotRead`
  and `OnlyAncestorsMissed` are checked for the programs of section 4.
- `TypeOK` of `Tasking`, which says of all constructs that their counters stay in the fields of a segment.
- `WrittenIsComplete` of `InstrumentClient`.
- Liveness under fairness: `StarvationFree`, `SearchEnds`, `EveryCallReturns`.

## 9. Running

    tlc -workers 2 -config McsLock.cfg MCMcsLock
    tlapm McsLockProofs.tla    # and the other seven ...Proofs modules

`PROJECT.json` names the module of each configuration, the lines each definition
stands for, and for each property a mutated definition under which it fails. Mutated
forms stand before the definitions they mutate and are used by nothing else.
