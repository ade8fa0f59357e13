# A verification of distribuild

distribuild distributes C++ compilations: a *client* replaces the compiler on a
developer's machine, hands the preprocessed source to the *daemon* of that machine
(the requester), which asks the *scheduler* for a grant to run one task on some
other machine's daemon (the *servant*), submits the source there, waits for the
object file and gives the grant back. This directory holds TLA+ models of the parts
where threads, timers, lost messages and crashes meet, from the compiler wrapper to the
servant's compiler process, TLC instances that check
them, an abstract specification of the scheduler's grants that its model implements, and
machine-checked proofs about the scheduler's tables and grants, its tokens and the
requester's tasks.

Contents: [inventory](#inventory), [plan](#plan),
[modules](#modules-and-how-they-correspond-to-the-code), [runs](#runs),
[fairness](#fairness), [proofs](#proofs), [known divergences](#known-divergences),
[what is not modelled](#what-is-not-modelled), [running the tools](#running-the-tools).
Paths below are relative to `src/distribuild/` unless they start with `src/`.

## Inventory

### Scheduler process (`scheduler/`)

| component | state | operations |
|---|---|---|
| TaskDispatcher | `servants_` (vector of Servant: reported info, `running_tasks`, expiry), `tasks_` (grant id to servant, expiry, zombie flag), `next_task_id_`; one mutex, one condition variable | WaitForStartingNewTask, KeepTaskAlive, FreeTask, KeepServantAlive, NotifyServantRunningTasks, the timer OnTimerExpiration (1 s) |
| RunningTaskBookkeeper | location to the tasks its servant reports | SetServantTasks, DelServant, GetRunningTasks |
| SchedulerServiceImpl | three daemon tokens rolled over at an interval | gRPC handlers HeartBeat, GetConfig, WaitForStaringTask, KeepTaskAlive, FreeTask, GetRunningTasks |

*Hard:* the heartbeat handler takes the lock twice; a request gives the lock up while it
waits and loops over several grants; the timer judges with a clock it read before it had
the lock; a heartbeat frees capacity and notifies nobody; replies, FreeTask and heartbeats are
lost; servants crash and come back under their old address; the arithmetic is unsigned.
*Correct means:* the counters are the number of tasks; no task points to a removed
servant; no grant exceeds a servant's capacity; no live grant is killed or dropped; what
nobody holds is given back; what has no grant is stopped; every request is answered.

### Servant part of the daemon (`daemon/cloud/`)

| component | state | operations |
|---|---|---|
| Executor | `tasks_` (TaskDesc: pid, grant, reference count, event), `running_tasks_`, a semaphore, `exiting_`; a waiter thread; OnExitTasks in a pool; child processes | TryQueueTask, TryAddTaskRef, WaitForTask, FreeTask, KillExpiredTasks, OnTimerClean, Stop, Join |
| DaemonServiceImpl | accepted tokens | gRPC handlers QueueCxxTask, AddTaskRef, FreeTask, WaitForTask; heartbeat timer |
| CxxCompileTask | one task's source, work directory, files, `write_cache_future_`, output | Prepare, PrepareCache (a thread that looks for `__TIME__` and its like), GetSource, OnCompleted, destruction |
| Compilers | digest to path | OnTimerRescan, TryGetPath |
| CacheWriter | none | AsyncWrite: PutEntry in a thread of the pool |
| TempDir, directory helpers | directories on disk | make, list, remove |

*Hard:* the waiter thread sees exits by pid while tasks are freed, killed and cleaned;
`exiting_`, the counters and the semaphore are used outside the mutex; a pid may be reused;
a process group exists only some time after fork; work directories are named by the second; the
scan of a source outlives what it scans; a compiler is replaced between the lookup of its
path and its start; every thread comes from one pool, whose start throws when it is full.
*Correct means:* slots are counted exactly, the limit holds, every exit reaches its task,
nobody is handed an incomplete result or another task's, the cache holds under a key what the key
says, the table empties, Stop ends the thread.

### Requester part of the daemon (`daemon/local/`)

| component | state | operations |
|---|---|---|
| TaskDispatcher | `tasks_` (TaskDesc: state, aborted, event, output, grant); a thread per task | QueueTask, WaitForTask, PerformTask, timers TimeoutAbort, KeepAlive, KilledAbort, Clear |
| TaskGrantKeeper | per compiler: a queue of grants, the number of waiters, a fetcher thread | Get, Free, Stop, GrantFetcherProc |
| ConfigKeeper | the serving token | a timer that fetches it |
| TaskRunKeeper | the scheduler's running tasks by digest | a timer that replaces them |
| TaskMonitor | permits by pid for light and heavy local work | WaitForNewTask, DropTask, a timer that reclaims permits of dead processes |
| FileCache, CacheReader | digests of compilers; nothing | TryGet, Set; TryRead |
| HttpServiceImpl | none | /local/... handlers that call the above |

*Hard:* six ways out of a task's thread, each with or without a grant, two of them exceptions; a call
that frees a grant and may never be sent; one remote call without a deadline; three reasons to abort; several handlers waiting for one task; two mutexes around one pointer; a fetcher and
waiters that wait for each other; tokens that reach servants and clients at different times.
*Correct means:* every task ends and leaves the table, its grant is freed or at least no longer kept
alive, its result is handed to one handler and is complete; a grant serves one task; nobody
sleeps for ever; a client's token is accepted.

### Client (`client/`), common code (`common/`), cache server (`cache/`)

| component | state | operations |
|---|---|---|
| Compile (`client.cpp`) | one process: its quotas, retries, the compiler's time and size | take a quota, rewrite the source, give the quota back, submit, register the compiler's digest, wait, write the files, fall back to the native compiler |
| ExecuteCommand, RewriteFile | a child, three pipes, a compressing stream | the poll loop that feeds the child and reads it, two attempts at preprocessing |
| multi chunk, packed files (`common/multi_chunk.h`, `tools.h`) | none | make and parse |
| cache server | engines that this commit never creates | PutEntry, TryGetEntry |

*Hard:* a call that has timed out at the client is still served by the daemon; a process is killed between
two calls; a pid has one permit but a process may ask again; the compiler is upgraded while its digest is
computed and registered; child and client wait for each other's pipe; an answer ends early.
*Correct means:* quotas bound what runs on the machine and come back; a task goes out under the digest of a
compiler that was installed; what is written is what the compiler makes of all the preprocessor wrote; no stream
makes a part of it pass for the source; every compilation ends.

### How the parts interact

    client --HTTP--> requester: TaskMonitor (quota), TaskDispatcher (submit, wait)
    requester: task thread --> TaskGrantKeeper --WaitForStaringTask/FreeTask--> scheduler
               TaskDispatcher timer --KeepTaskAlive--> scheduler
               task thread --QueueCxxTask/WaitForTask/FreeTask--> servant: Executor
    servant:   heartbeat (running tasks, load) --> scheduler --> expired tasks, tokens

`PROJECT.json` lists every component with its status, and the hazards at their lines.

## Plan

1. `Scheduler`: the grant tables, heartbeats, expiry. **Done**, with `SchedulerProofs`.
2. `Executor`: the servant's processes. **Done**, with `ExecutorProofs`.
3. `DaemonTokens`: rollover of the tokens. **Done**, with `DaemonTokensProofs`.
4. `GrantKeeper`: grants on the requester's side. **Done**, with `GrantKeeperProofs`.
5. `LocalDispatcher`: the requester's tasks. **Done**, with `LocalDispatcherProofs`.
6. `Client`: Compile, the task monitor, the file cache and the HTTP handlers between them. **Done**, with `ClientProofs`.
7. `CompileTask`: the servant's tasks, registry, work directories and cache writes. **Done**, with `CompileTaskProofs`.
8. `DataPath`: one compilation's bytes with the multi-chunk and packed-file encodings. **Done**, with `DataPathProofs`.
9. `GrantLedger`: what the scheduler promises of its grants, and `Scheduler` as an
   implementation of it. **Done**, model-checked and proved.
10. A composition of `LocalDispatcher`, `Scheduler` and `Executor` on one task, over the interfaces that
   each now states for itself. *Left.*

Theorems, in this order: the scheduler's type and accounting invariants (**done**);
`TasksHaveTheirObject`, `ResultsAreHandedOver` and `GrantsReturned` of `LocalDispatcher` (**done**);
`TokensAgree` of `DaemonTokens` (**done**); `OneServantPerLocation`, `BookkeeperOfLiveServants`,
`GrantsWithinCapacity`, `LiveGrantsAreKept` and the refinement `GrantsFormALedger` of `Scheduler`
(**done**); `GrantsInOnePlace` and `WaitersExact` of `GrantKeeper` (**done**); the five invariants of `Executor`
(**done**); `KillsOnlyDeadGrants` of `Scheduler` (**done**); `QuotaPreventsOverload` and `SubmittedCompilerWasInstalled`
of `Client` (**done**); `OwnOutput` and `CacheHoldsItsKey` of `CompileTask` (**done**); that decoding inverts the encodings of `DataPath`, and its
`NoPartIsCompiled` and `WrittenIsTheWholeSource` (**done**). Every invariant and every action property a run checks
is now a theorem as well.

## Modules and how they correspond to the code

In every module an action is what a thread does between two points at which another thread
can be seen: a critical section, or a remote call with the use of its answer. A handler that
takes a lock several times is several actions; what it has on its stack is part of the state.
Definitions named *Variant* in their comment are mutated forms used to test the properties;
no specification uses them.

**Scheduler** models `scheduler/task_dispatcher.{h,cpp}`, `running_task_bookkeeper.cpp` and the
handlers in `scheduler_service_impl.cpp` that call them. `servants`, `tasks`, `next_task_id` and
`bookkeeper` are the members of those names; the vector's order is a relation (`order`)
because only "the first that ..." is asked of it. `request` and `beat` are the stacks of handler
threads, `timer` tells whether the timer thread has read the clock and not yet taken the
lock. A WaitForStaringTask handler is `BeginRequest`, then for each grant `EnvNotFound`,
`WaitForFreeServant` (sleeps or goes on), `WaitTimeout`, `SpuriousWakeup`, `StartNewTask`, then
`Reply`, delivered or lost. A heartbeat is `SendHeartBeat`, `HeartBeatRefused` or
`KeepServantAlive`, `NotifyServantRunningTasks`, `HeartBeatReply`. Expiry is three-valued:
`valid`, `lapsed`, `due` (past the clock value the timer holds). `size_t` arithmetic is modulo
`SizeMod`. The environment (`grants`, `up`) holds, abandons, frees and uses grants, runs tasks, loses
messages, crashes and restarts.

**Executor** models `daemon/cloud/executor.{h,cpp}` and the part of `excute.cpp` after fork. TaskDesc
objects (`descs`) outlive their entry in the table (`table`) because handlers hold shared
pointers. `TryQueueTask` is two actions with the lock held, since Stop and the waiter thread
use `exiting_` and `running_tasks_` without the lock. The waiter thread has a step per statement that
matters: test, acquire, wait(), start. OnExitCallback is three: find and count, store the
output, announce; instead of the third it may be left by an exception (`ExitThrows`), since OnCompleted starts a
thread for the cache write and the pool may be full. The task is then "silent": recorded and never announced. The kernel's children have the stages forked, grouped (after setpgid), dead.
`waitpid_semaphore_` is a `counting_semaphore<1>` that the code releases beyond 1; the model
takes it as the unbounded counter the library implements.

**DaemonTokens** models the tokens: `ActiveDaemonTokens`, the answers of HeartBeat and GetConfig,
the servant's `OnTimerHeartbeat`, the client's `OnTimerFetchConfig` and `TokenVerifier`. Tokens are numbers in the
order they were made; `epoch` counts runs of the scheduler. Answers wait in `beats` and
`fetches`, so a daemon may use an answer that is older than the last rollover. The one assumption on time
is in `RolloutDue`: an interval is 3000 s and calls repeat every 1 s and 10 s, so
when an interval ends nobody is more than that interval behind.

**GrantKeeper** models `daemon/local/task_grant_keeper.cpp` for one compiler. The fetcher's test of its
condition and its going to sleep are two steps with the mutex held, because Stop does not take that
mutex. A grant in the queue may be found expired after `KeptFor` units.

**LocalDispatcher** models `daemon/local/task_dispatcher.{h,cpp}` and `CxxDistTask::StartTask`. `desc` holds
the TaskDesc objects, `tasks` the ids in the table, `pc` the thread of each task,
`handler` the HTTP handlers in WaitForTask (find; wait; erase under `tasks_mutex_`; move the pointer
out under the task's mutex), `keeping` the list the keep-alive timer has on its stack. Unreachable
at this commit and left out: a cache hit (TryRead returns nothing), joining a task that runs
elsewhere (TryGetExistedResult dials the empty `servant_location`), and the branch for
`TASK_STATUS_RUNNING` (the servant sends it with an error status and no body). `grant` says what became of a task's
grant: TaskGrantKeeper::Free starts an asynchronous call and drops it, with its context and its queue, so that after
Free the scheduler has heard of it ("freed") or never will ("dropped"); the exception of TryUnpackFiles
(`UnpackThrows`) passes both calls that free ("left").

**GrantLedger** is the abstract specification: servants with an offer of slots, open grants that are alive
or dead, and the count of grants issued. `Issue` needs a free slot, `Return` is the holder's, `Bury`
closes dead grants only, `Sweep` takes servants away with all their grants and lets grants die.
`Scheduler` is mapped to it (`Ledger == INSTANCE GrantLedger WITH ...`): the capacity of a servant is the `concurrency` it
last reported, the ledger is `tasks` without expiry, the count is `next_task_id`. What the mapping says is that
every path through the heartbeats, the timer, the waits and the vector scans does one of these five things or nothing, in
one step each.

**Client** models `client/client.cpp`, `client/common/task_quota.cpp`, the submission loop of `client/cxx/compilition.cpp`,
`daemon/local/task_monitor.cpp`, `file_cache.cpp` and the handlers of `http_service_impl.cpp`. `client` is the stack of each Compile;
`calls` are HTTP calls, queued, in a handler's wait, in the middle of FileCache::Set or answered; a call whose
client has given up or died stays there and is served. `permissions`, `cache` and `daemon` are
`permissions_granted_`, the entry of the one compiler in `caches_`, and whether the process has aborted (LOG_FATAL in
IsAliveProc). `cut` is history: a call of this client has been cut off. A command line is the set of options that decide where it is compiled.
`StartAgain` is the build: it starts one more compilation under the name of a client of which the daemon has nothing left. A pid that another process gets while the
daemon still has a permit for it is not modelled: IsAliveProc would then take the dead client for alive, and the permit comes
back when that process ends too.

**CompileTask** models `compile_task/cxx_task.cpp`, `compilers.cpp`, `cache_writer.cpp`, `temp_dir.cpp`, the directory helpers
and the body of QueueCxxTask. A task goes from "made" over "prepared", "running", "completing" to
"announced" and then to its destruction in two steps; its scan thread, its compiler process and its cache write go on beside it. `disk` holds
directories by the second in their name. A digest is the version of the compiler it is the digest of. `made`,
`steady`, `alone` and `scanned` are history: in which second a task was made, whether a compiler changed since the
rescan its path is from, whether a cache entry's writer shared its directory. A full pool is possible at every start of a thread.
An object carries the second it was compiled in if its source uses a macro of the time that the arguments do not
override (`UsesTime`). `stub`, chosen once, is whether a cache server is configured; without one the first cache write crashes the daemon (`WriteCrashes`).

**DataPath** models `client/common/command.cpp`, `client/common/out_stream.cpp`, `client/cxx/rewrite_file.cpp`, `common/io.h`, `multi_chunk.h`, the packing in `tools.h` and the byte
handling of `StartTask`, `QueueCxxTask`, both ends of WaitForTask, `RebuildOutput` and `WriteCompileResult`. Data is a sequence of
blocks: text blocks carry their position and attempt, a header line is one block with its list of sizes, a zstd frame ends in a mark, and
what a compiler makes of a text is a block that names text, options and suffix, so that a lost,
repeated, mixed-up or truncated block shows. Compression, the multi-chunk and the packed-file
encodings are operators that do to blocks what the code does to bytes, the two commas that MakeMultiChunk writes
after each size included. The line of suffixes in a pack is joined with commas and split again without empty parts: `Parts` gives the parts of each
suffix, so an empty suffix is lost and one with a comma becomes two, and TryUnpackFiles refuses the pack. WriteAll may fail for any
of the files, which leaves it `Torn` and is only logged. The child and the poll loop share pipes that hold `PipeSize` blocks.

MC modules only define the values of constants and symmetry sets.

## Runs

Passing runs, each with what it shows:

| run | instance | checks |
|---|---|---|
| dispatch | one servant with one slot that may leave and come back, a caller that asks for a second grant while it has the first, two heartbeat handlers, two grants | RunningTasksExact, TasksOfLiveServants, KillsOnlyDeadGrants, OneServantPerLocation, BookkeeperOfLiveServants, GrantsWithinCapacity, LiveGrantsAreKept, GrantsFormALedger |
| recovery | one servant that crashes and comes back and whose memory runs low and recovers; a request for 1 and 1 in advance, two grants; fair threads | RequestsAreAnswered, AbandonedGrantsAreFreed, OrphansAreStopped, SleepersAreWoken |
| results | two handlers, two tasks one after the other under a limit of one, up to two references, Stop at any time | ConcurrencyRespected, ResultsAreComplete |
| exits | two tasks at a time, a pool of one thread; fair threads | SlotsExact, WaitFindsChild, ExitsAreAnnounced, EndedTasksLeave, WaiterEnds |
| tokens | two servants, a client, nine tokens, one restart of the scheduler | TokensAgree, TokensAgreeAgain |
| grants | two threads, four grants, KeptFor 1 | GrantsInOnePlace, WaitersExact, WaitersAreServed |
| lifecycle | one task, two handlers, two retries | TasksHaveTheirObject, ResultsAreHandedOver, GrantsReturned, TasksEnd, EndedTasksLeave, GrantsAreLetGo |
| client | a client with a job for the cloud that may die, one with a native job that is started again and again; one heavy permit, two server threads, one retry, two versions of the compiler, one call that times out | QuotaPreventsOverload, SubmittedCompilerWasInstalled, PermitsComeBack, CompilationsEnd |
| servant | two tasks, one with `__TIME__` in its source whose requester may be lost, one without; one slot, two paths of which one is upgraded, two seconds, with and without a cache server | OwnOutput, CacheHoldsItsKey, EveryTaskIsAnnounced |
| bytes | a source of four blocks in chunks of two, three blocks of warnings, pipes of two; no file, an object alone, with coverage notes, with a file of an empty suffix, or with one of a suffix with a comma; two retries | WrittenIsTheWholeSource, NoPartIsCompiled, CompilationEnds |

Runs that show a disagreement between the code and what is written about it:

| run | property | what happens |
|---|---|---|
| load | GrantsOnlyWithLoadToSpare | `num_cpu_cores - load` wraps, so a servant with more load than cores is granted a task |
| running | RunningTasksAreAwaited | after five answers "running" (ten seconds) the requester gives the task up and has it killed |

Every module states the types of its state as `TypeOK`. No run repeats them: they are proved for every
module, that of `Executor` with the fact that no reference count falls below zero.

*Bounds and why they suffice.* `MaxTasks`, `MaxTokens`, `MaxGrants`, `MaxRestarts`, `MaxRefs`, `MaxVersion`, `MaxTimeouts` and `MaxSecond` bound
counters that only grow. Two heartbeat handlers, a request and the timer are enough for every pair of
lock sections to interleave, a heartbeat with a later one of the same daemon included. A request begins only when the numbers left under `MaxTasks` are enough for all
that is asked for: with requests for one grant each, the second one of `dispatch` may begin while the first grant is held, lapsed, a zombie, freed or running unreported. It
finds the slot taken, sleeps, is woken and takes it over, or its deadline passes first, and the first task may still be known to a servant, its holder or a late reply.
Two requests that are both in their handlers at once are in no passing run: between its critical sections a handler
shares nothing with another but the tables, and the theorems hold for any number of callers. The prefetch loop is in `recovery`. Two
`ServantIds` in `dispatch` let a servant that left come back as a new object. Crashes and low memory are in
`recovery`: they end in the servant's expiry or in its next heartbeat, and the question is what becomes of
its grants. Several servants, and daemons behind a NAT that report the address of another, are in no run;
they are in the proofs, which hold for every set of daemons and every `Observed` and `Reported`, with one
hypothesis for `KillsOnlyDeadGrants` (see [Proofs](#proofs)). Nine
tokens are six rollovers, or three rollovers around a restart of the scheduler; more clients add
nothing, for the property is about one servant and one client and any call may roll the tokens over. Two tasks under a limit of one make an executor start the second while the first is
freed, dying, reaped or cleaned. In `lifecycle` tasks share only the table and the
keep-alive call, and the timers treat each entry alone, so one task with two
handlers shows the races over one TaskDesc; `kRetries` is 2 there and 5, as in the code, in
`running`. `KeptFor` is 0 in the code (`kMaxWait` and `kNetworkDelayTolerance` are both 5 s); the run uses
1, whose behaviours include those of 0. `SizeMod` 16 is larger than every sum in the instances, so that only
negative differences wrap. In `client` one late call is enough to find its client in every later place, and two clients for one
heavy permit to wait for each other; the second needs it again and again, so that the first may starve. In `exits` the pool has one thread, so a
second exit while the first is handled finds it full and ends the daemon. In `servant` two tasks
are made in the same second or in two, and the upgrade falls before, between or after the rescan, the lookup and the compilation.
In `bytes` both outputs of the preprocessor are longer than a pipe, so that it blocks on either, and a source and its frame's end are three chunks, so that
a stream breaks at its start, inside and before its end.
`CHECK_DEADLOCK FALSE` is used in `results` (the executor may have been stopped with
all ids used), in `exits` (a full pool ends the daemon), in `lifecycle` and `running` (each task is submitted once), in `servant` (tasks are queued
once, and the daemon may have crashed) and in `bytes` (one compilation, which ends).

## Fairness

* *Scheduler:* the timer thread fires every second (`TimerFairness`); handler threads run
  (`RequestFairness`); a running daemon goes on sending heartbeats and not all are
  lost (strong fairness in `HeartBeatFairness`, since a heartbeat can fail any number of times
  before one succeeds); what nobody refreshes lapses (`ExpiryFairness`). That a wait's deadline passes (`DeadlineFairness`) is a
  hypothesis of `RequestsAreAnswered` alone: `SleepersAreWoken` has to hold without it. Clients need not free anything.
* *Executor:* the waiter thread, pool threads and the cleaning timer run; those that need the
  mutex get strong fairness, as TryQueueTask may hold it again and again; compilers end.
* *DaemonTokens:* heartbeats and fetches repeat and do not all fail; daemons do not restart for ever.
* *GrantKeeper:* the fetcher runs; a thread repeats its timed Get, as the loop in StartNewServantTask does.
* *LocalDispatcher:* threads run and remote calls with a deadline return (StartTask and WaitForTask have 30 s,
  Get one second, the keep-alive 5 s). FreeServantTask (`task_dispatcher.cpp:360-368`) has none and need not return: `TasksEnd` leaves a thread that
  stays there for ever out, and `GrantsAreLetGo` says that even its grant is let go. Timers fire
  and the clock goes on. Nothing is assumed of clients, handlers that have not been signalled, grants or servants.
* *Client:* clients that have not been killed run; a call in the queue gets a thread in its turn (strong fairness, as
  threads may be taken again and again); handlers' waits end, for they are timed; the monitor's timer fires. A handler that waits for a
  permit has no turn: `permission_cv_` gives none, so it is only weakly fair, and while light compilations
  keep coming a heavy one may never enter (`task_monitor.cpp:78` says so). A task in the dispatcher need not end, for its thread
  may hang. `CompilationsEnd` names these cases: a build that never stops starting, a client behind a task that hangs, and a client
  that waits for a permit it has itself. No client has to die and no call to time out.
* *CompileTask:* threads run and compilers end. Nothing makes a requester send or free, or the rescan timer fire.
* *DataPath:* client, daemon and servant run on, and the preprocessor while its pipes have room. No failure has to happen.

## Proofs

`SchedulerProofs` proves, for every set of daemons, requests, handlers and heartbeat contents and
every bound:

* `TypeCorrect`: `Spec => []TypeOK`;
* `NoDanglingTask`: `Spec => []TasksOfLiveServants`;
* `AccountingIsExact`: `Spec => []RunningTasksExact`.

Assumptions: those of `Scheduler` (`DaemonsAssumption`, `RequestsAssumption`, `SizeModAssumption`), which
say that the constants have their types; TLC evaluates them in every run.

The inductive invariant `IInv` is the conjunction of `TypeOK`, `KnownIds`, `CallsHaveWork`,
`TasksOfLiveServants` and `RunningTasksExact`. `RunningTasksExact` is not inductive alone: decrementing a
counter needs the task's servant to be in the table (TasksOfLiveServants) and the count to be of a
finite set (TypeOK: ids are below `next_task_id`); a new grant needs its id to be
unused, so ids on stacks and in heartbeats must have been given out (`KnownIds`); and a
handler that decrements what it still has to ask for must have something left (`CallsHaveWork`), or
its type is lost. `ReleasedCounts` is the central lemma: giving back any set of tasks
leaves each counter the cardinality of what remains. `NextIInv` has one case per action.

Its second part rests on `IInv` and proves, for every such instance:

* `LocationsAreUnique`: `Spec => []OneServantPerLocation`;
* `BookkeeperFollows`: `Spec => []BookkeeperOfLiveServants`;
* `CapacityIsRespected`: `Spec => GrantsWithinCapacity`;
* `LiveGrantsStay`: `Spec => LiveGrantsAreKept`;
* `DispatcherImplementsLedger`: `Spec => GrantsFormALedger`, the refinement;
* `OnlyDeadGrantsAreKilled`: `Spec => [](NatsApart => KillsOnlyDeadGrants)`.

The first two come from `LocInv`, which adds `OrderOfLive` (the order of the vector relates live servants
only): an address of the heap is used again after its object has gone, and what is left of the old order would
contradict the new place at the end of the vector. That locations are unique is needed for the bookkeeper:
the timer drops a location with a servant, and no other servant may be there. For the other
three, `OtherSteps` shows that all but five actions leave the ledger's view of the state alone. `StartNewTaskStep`
shows that the picked servant has a free slot, though the unsigned arithmetic of `AvailableTasks` may wrap;
`AccountingIsExact` turns its counter into the number of open grants, which is what `Issue` asks for.
The timer's step is a `Sweep` because of `TasksOfLiveServants`: it frees the tasks of servants that are
*not in the table*, which are those of the servants it has just removed only if there were none before.
`BeatsAreSent` says that a handler holds a heartbeat its daemon may send, so that an offer is one of `Slots`.

The last theorem needs `KillInv`: every copy of a grant's number (on a handler's stack, with the requester, in a
heartbeat) names the place where the task's servant is, and a servant with slots is one that has been
*seen* where it says it is. The scheduler declares a reported task dead when it is not known under the address the
daemon wrote into the heartbeat; a servant is granted tasks only when that address is the observed one, so a live
grant is looked up in the right place. `NatsApart` says that the daemons seen at one address all report
it or none does. It is needed: of two daemons behind one gateway one may report the gateway's address and be granted
tasks, and the gateway may forward that port to the other, which reports them under an address the scheduler
does not know and is told to kill live ones (`scheduler_service_impl.cpp:152`, under known divergences).

`LocalDispatcherProofs` proves, for every set of tasks and handler threads and every `kRetries`
(`LocalDispatcherAssumption`):

* `TypeCorrect`: `Spec => []TypeOK`;
* `NoNullTask`: `Spec => []TasksHaveTheirObject`;
* `ResultsAreWhole`: `Spec => []ResultsAreHandedOver`;
* `FreeIsCalled`: `Spec => []GrantsReturned`. Free has been called before the client is told, on every way but that of the exception in
  TryUnpackFiles, which tells the client that the task was not run. Whether the call arrives is not part of it.

None of the three is inductive. `TaskInv` says which descriptors go with which place of the task's
thread (a grant is held only between Get and Free or the exception, the output is unwritten only before the thread has
gone on, the event is set and the pointer moved out only once the thread is over). `HandlerInv` says what a handler
may rely on between its two critical sections, and `OneTaker` that at most one handler is between
the signal and the move: that is where the auto-reset event, a fault for
several waiters of a servant (see known divergences), protects the requester. Without `OneTaker` a second handler would move a null pointer out.
The lemma `ThreadStep` reduces every step of a thread or a timer to its own task.

`DaemonTokensProofs` proves, for every set of servants and clients and any number of tokens and
restarts (`BoundsAssumption`):

* `TypeCorrect`: `Spec => []TypeOK`, with the check that there are three tokens;
* `Agreement`: `Spec => []TokensAgree`.

`IInv` adds `AllKnow`: whoever has heard from this run of the scheduler, and every answer on its way,
is at most one rollover behind, and not behind at all once the next rollover is due. This is what the
three-token deque is for; one rollover behind, a servant still has the two oldest active
tokens, and a client shows one of these. `RollKeepsKnowledge` is the central lemma. The proof rests on the
assumption about time in the guard of `RolloutDue`, described under the module.

`GrantKeeperProofs` proves, for every set of threads and any number of fetched grants:

* `TypesCorrect`: `Spec => []TypeOK`;
* `GrantsNeverShared`: `Spec => []GrantsInOnePlace`;
* `WaitersCounted`: `Spec => []WaitersExact`.

`GrantsInOnePlace` is not inductive: that a fetched grant is in no queue and no hand yet needs every known
number to be below `next` (`GoodQueue`, `GoodHands`). The lemmas on the queue say what dropping its head,
dropping expired entries and appending an answer leave of it. `WaitersExact` needs the set of waiting threads to be finite, for
`Threads` need not be.

`ExecutorProofs` proves, for every set of requests, waiters and pids, every limit, and whether or not the kernel uses
pids again (`ReusePids`):

* `TypesCorrect`: `Spec => []TypeOK`;
* `SlotsNeverLeak`: `Spec => []SlotsExact`;
* `LimitRespected`: `Spec => []ConcurrencyRespected`;
* `WaitHasChild`: `Spec => []WaitFindsChild`;

and `ResultsWhole`: `Spec => [](~ReusePids => ResultsAreComplete)`.

`IInv` is `Types`, `OnePlace` (a task's process is unreaped, with the waiter, or with one OnExitTask),
`Slots` (the count with its limit) and `Semaphore` (until Stop every child is announced to the waiter
once, by the semaphore or by a pass it has taken and not used), which is what `WaitFindsChild` needs. For the
results, `PidsIdentify` says that a pid stands for one task and where its exit is; it is what `ReusePids`
destroys: with it TLC finds a result returned before OnCompleted has stored it.

`ClientProofs` proves, for every set of clients and jobs, any number of processes killed and calls that time out
(`ClientAssumption`):

* `TypesCorrect`: `Spec => []TypeOK`;
* `NoOverload`: `Spec => []QuotaPreventsOverload`;
* `SubmissionsNameTheirCompiler`: `Spec => SubmittedCompilerWasInstalled`, an action property.

`CallInv` says that a client waits for at most one call, at the place that the call belongs to, and that
whoever has a late call has given one up (which ends its claim on the quota). `QuotaInv` counts the clients
that run together with those whose permit is on its way (`Holders`): the monitor counts a permit when it is given, the client runs
later. `VersionInv` orders versions: what a client has seen, what a call carries and what the cache holds
are read in this order, so a digest is never older than the size and time it is stored under; `cache.raced` marks the
entry of an unsynchronised write, about which nothing is known.

`CompileTaskProofs` proves, for every set of tasks and requests, any number of slots, seconds and compiler versions, and
whatever is lost, refused, freed or killed (`BoundsAssumption`):

* `TypesCorrect`: `Spec => []TypeOK`;
* `OutputIsOwn`: `Spec => []OwnOutput`;
* `CacheIsRight`: `Spec => []CacheHoldsItsKey`: an entry differs from what its key says in nothing but the time of its compilation, and in that only if its
  source uses it. That such sources are cached at all is under known divergences.

`TaskInv` follows one task: its directory is that of its second; a task alone in its second
has nothing in it but its own source and object (`OwnDirectory`); from a successful compilation to OnCompleted the object is
there (`ObjectThere`); afterwards it is in the pack (`OwnPack`); and the compiler at its path is the one asked for until
an upgrade (`RightCompiler`, from `Registered`: the registry was right when it was scanned). `DiskOwned`, that every
directory is that of a task, is needed for a new task: when nobody shares its second, its directory is new. The lemma
`OthersStay` is the separation argument: a step in one directory changes nothing for a task that is alone in
another. `Touches`, `Quiet` and `Ends` are the three kinds of steps that every action is one of.

`DataPathProofs` proves, for every length of the text, size of pipes and chunks, number of retries and set of products
(`DataPathAssumption`, `ProductsAssumption`):

* `MultiChunkParses`: what MakeMultiChunk makes of parts none of which is empty, TryParseMultiChunk takes apart, and it accepts no
  shorter beginning of it (but for no bytes at all, of which it makes no parts);
* `UnpackOfPack`: TryUnpackFiles returns the files PackFiles has packed, when no suffix is empty or has a comma in it;
* `TypesCorrect`: `Spec => []TypeOK`;
* `NoPartOfASource`: `Spec => []NoPartIsCompiled`, but for the part that a killed preprocessor wrote;
* `TheWholeSourceIsWritten`: `Spec => []WrittenIsTheWholeSource`, for every file whose write succeeded.

Its first half is about the encodings. They are recursive functions, and the induction theorems of the library cannot be used because they have an
operator as a parameter; `LeastOf` and `UpTo` replace them: a set of indices that holds 0 and, with each index, the next one, holds all, because otherwise
there were a least index outside (`WFMin` on the natural numbers). `FoldExists` shows that a function with a first value and a step exists, from
which `TotalsDef`, `FlattenDef` and `SplitDef` get the functions that `Totals`, `FlattenSeq` and `Split` denote. `CutOfFlatten`
is the central lemma: cutting a concatenation at the sizes of its parts returns the parts. `DecompressOfPart` is why a broken
stream does no harm: no block of a text ends a frame, so a beginning of a frame is an error or empty.

The inductive invariant `IInv` follows the bytes. `Reading`: what the client has read and what the pipe holds are together what the child has written, and
the client is done with the pipe only when the child has ended and the pipe is empty, so a client that goes on has all of the text.
`Submitted`, `Sources`, `Packs` and `Outputs`: the daemon sends the frame of the whole text, the servant has the first blocks of
it and all of them when the daemon has seen the stream end, its pack is that of the files of one product, and the daemon has the
first blocks of that. `Stages` says which stages of the daemon's and the servant's task go together. `Progress`: before a source is submitted there is
no task, and what a client that is done has on its disk are the files of one product. `WrittenFiles` needs `ProductsAssumption`:
no suffix is the destination's name, so no file is written over another (`NamesDiffer`), and a product that is not empty has an object.
It also says that an empty suffix and one with a comma do not make up for each other, for then the numbers of suffixes and
of sizes would agree and TryUnpackFiles would return files under wrong names (`UnpackWithSuffixes` is what it returns in general).
What is assumed of the compiler is only that: it may leave other files, in any order, or none.
A second invariant, `ExitOK`, says where exit code 0 is known: a client that goes on with its text has a preprocessor that has
written all of it or was killed.
`ServerInv` has the text and the options as parameters, because a second attempt replaces both (`ServerAnyText`: while there is no task it
says nothing about them).

Only model-checked: all liveness (fairness and ENABLED are beyond the prover).

## Known divergences

Besides the two runs above, modelling showed the following differences between the code and
its documents, comments or evident purpose. Those of `Scheduler`, `Executor`, `GrantKeeper`, `LocalDispatcher`,
`CompileTask`, `Client` and `DataPath` are part of these models as the code has them, and the properties name the ones they
have to except; the faults of the cache server and of the cache reader are in code that is not modelled. No run reports them.

* `scheduler/task_dispatcher.cpp:95` skips servants with `version > min_version`, while
  `proto/scheduler.proto:82` calls the field the minimum version ("守护进程最小版本").
* `scheduler/task_dispatcher.h:182` divides two integers before converting to double, so every servant
  that is not full has utilization 0 and the first is filled up, while line 123 says the least
  loaded is picked ("挑选一个负载最小的节点").
* `scheduler_service_impl.cpp:152` passes the address the daemon wrote itself, while KeepServantAlive
  used the observed one: a NAT daemon may replace the running tasks of another servant.
* `daemon/cloud/executor.cpp:143`: `completion_event` resets itself, so one of several waiters is released, while 159 ("其它客户端正在等待") and
  `executor.h:54` ("等待者人数") expect several. One requester is enough: when the answer to its first wait is
  lost the event is used up, and its next waits end in a timeout.
* `daemon/cloud/executor.cpp:263` kills the group `-pid`, which the child makes itself after fork; a task freed
  before that is erased and its process lives on (`src/doc/cloud.md:107-115`).
* `daemon/cloud/executor.cpp:298` looks an exit up by pid after wait() has released the pid, among
  all tasks of the last minute; with a reused pid the exit goes to another task. `ReusePids` enables this.
* `daemon/cloud/executor.cpp:237` tests `exiting_` before the task is counted; when Stop and the waiter's last
  test fall in between, the task is never reaped and Join would not return. `main.cpp` never calls
  Join, and stops the executor before the RPC server (`main.cpp:80,84`).
* `daemon/local/task_grant_keeper.cpp:63`: a waiter that takes the last grant does not notify the fetcher, which sleeps on an
  empty queue until some Get times out and is called again (comment at 103).
* `daemon/local/task_grant_keeper.cpp:57,65`: the check that no waiter is left fails (and is only
  logged) when two threads wait.
* `daemon/local/task_grant_keeper.cpp:135`: the expiry time of a prefetched grant is the time of its arrival, so the next Get
  throws it away, unused and not freed (comment at 39: "丢弃过期的授权").
* `daemon/local/task_grant_keeper.cpp:84`: Stop sets `leaving_` and notifies without the keeper's mutex; the fetcher may miss both.
* `daemon/local/task_grant_keeper.cpp:34`: when the pool has no thread for the fetcher the keeper stays in the map without one.
* `daemon/local/task_grant_keeper.cpp:76-79`: Free drops its asynchronous call, so the scheduler may never hear of it.
* `daemon/local/task_dispatcher.cpp:360-368`: FreeServantTask sets no deadline; a servant that does not answer holds the thread and the task for ever.
* `daemon/local/task_dispatcher.cpp:72`: when the pool has no thread the task stays in the table as Pending for
  ever, for OnTimerClear passes over tasks that are not Done (484) before it looks for
  those not started for too long (497: "超时未启动").

Servant, in `CompileTask`:

* `daemon/cloud/temp_dir.cpp:14`: the name of a work directory is the second and the first number of a generator seeded with
  the second, so tasks of one second share it. One's pack may hold the other's object (the check of the prefix at
  `cxx_task.cpp:166` only logs), and a directory removed by the other makes `readdir(nullptr)` (`dir.h:59-61`). The
  properties speak of tasks alone in their second.
* `compile_task/cxx_task.cpp:26`: the scan reads `source_` by reference while GetSource moves it away, or after a refused task is gone.
* `compile_task/cxx_task.cpp:129`: the key is returned when the scan has found one of the macros and not when it has found none, while 23 says such a source cannot be cached ("有则不能缓存").
  So the cache holds objects with the time of one compilation in them, and nothing else. `CacheHoldsItsKey` says what is right about them all the same.
* `cache_writer.cpp:88`: without a cache server the null stub is dereferenced; with a full pool the exception passes before
  the event is set, so that the task is never announced.
* `daemon_service_impl.cpp:133`: a stream without a message leaves a null request that is dereferenced; after a stream that breaks behind its
  first chunk the empty file decompresses to an empty source, which is compiled.
* `cache/cache_service_impl.cpp:16`: the L1 and L2 caches are used and never created.

Client, in `Client`:

* `task_quota.cpp:33`: a release that is served after its client gave up erases the permit of that client's next program, and a lost
  answer to an acquire makes the client wait for a permit it has. `QuotaPreventsOverload` and `CompilationsEnd` say what holds without.
* `task_quota.cpp:29` waits 10 ms, not 10 s, per call, and AcquireTaskQuota asks for ever, while `task_quota.h` speaks of a time limit ("在超时时间内").
* `task_monitor.cpp:78` admits that light tasks may keep a heavy one waiting for ever; nothing else in the monitor orders the waiters.
* `task_monitor.cpp:40`: a process that ends between open and read of its /proc file aborts the daemon.
* `file_cache.cpp:24` inserts under a shared lock; `task_monitor.cpp` writes counters of light and heavy tasks that nobody reads.
* With a CACHE_CONTROL that disallows hashing the digest of the source is empty and the daemon refuses it: such a source is never compiled in the cloud.

Bytes, in `DataPath`:

* `client/common/command.cpp:118-119`: a child that a signal has killed is reported with exit code 0, so what it has written is compiled as the source.
* `common/io.h:37-42`: a file that cannot be opened or written is only logged, and Compile returns success.
* `common/tools.h:140-148,183`: a file whose suffix is empty or has a comma in it makes the pack one that is refused.
* `common/io.h:18-22`: writing nothing returns what errno was before; EINTR would be tried for ever (`Errno`).
* A compilation that succeeds without a file gives an empty pack, on which `std::stol` throws in TryUnpackFiles: the task
  ends with -114514 and neither the servant's task nor the grant is freed on that way.
* `StartTask` returns `false` where a task id is expected, which is the id 0.
* `client.cpp:58`: files other than the object are written under the name ".o" and their suffix.
* `daemon/cache.h:67` compares a length with that of the compressed entry, and `daemon/local/cache_reader.cpp:42` returns before it reads.

## What is not modelled

The reuse of a client's pid by another process (see `Client`), token checks on calls (a refused call changes nothing), the contents of sources and of
compiler output beyond what `DataPath` tells apart, logging, flags, hashing and encryption; the parsing, filtering and escaping of options and
the search of PATH, which are string tables; TempFile, whose names are unique; the running task keeper, on which
nothing depends while tasks that run elsewhere cannot be joined; the cache reader, which returns nothing, and the cache server, which
stores nothing at this commit; AskToLeave and the shut-down it starts, GetVersion, and the start-up, configuration and system information of the
processes; the composition under [Plan](#plan) 10. Mutex deadlock is not
modelled: the code nests locks only as `tasks_mutex_` then a task's mutex, in that order. Poco
timers are taken to run one callback at a time; gRPC is taken to answer, to fail, or to lose the answer
of a call that was performed.

## Running the tools

    tlc -workers 2 -config MCScheduler_dispatch.cfg MCScheduler
    tlapm SchedulerProofs.tla
    tlapm LocalDispatcherProofs.tla
    tlapm DaemonTokensProofs.tla
    tlapm GrantKeeperProofs.tla
    tlapm ExecutorProofs.tla
    tlapm ClientProofs.tla
    tlapm CompileTaskProofs.tla
    tlapm DataPathProofs.tla

Each run in `PROJECT.json` names its module and configuration; the longest is `dispatch`
(1.3 million distinct states).
