------------------------------ MODULE Executor ------------------------------
(***************************************************************************)
(* The Executor of a servant daemon: it starts compilers as child          *)
(* processes, counts them, reaps them in a thread of its own, hands every  *)
(* exit to a thread pool, keeps results until they are fetched, and kills  *)
(* what the scheduler says has expired.                                    *)
(*                                                                         *)
(* An action is one critical section of task_mutex_, or one step of a      *)
(* thread outside it.  TryQueueTask is two actions with the lock held in   *)
(* between, because Stop and the waiter thread do not take the lock to     *)
(* change and to read exiting_ and running_tasks_.                         *)
(*                                                                         *)
(* A TaskDesc outlives its entry in tasks_ (handlers hold shared pointers  *)
(* to it), so the objects (`descs') and the table of ids (`table') are two *)
(* variables.  The kernel is modelled from how the code uses it:           *)
(* `children' holds the processes that have not been waited for.           *)
(***************************************************************************)
EXTENDS Integers, FiniteSets

CONSTANTS
    Pids,           \* process ids
    ReusePids,      \* whether the kernel's pids wrap around within a minute
    MaxConcurrency, \* max_concurrency_
    PoolSize,       \* threads of the default pool that OnExitTask may take
    Grants,         \* grant ids of the scheduler
    Waiters,        \* handler threads of WaitForTask
    MaxTasks,       \* bound: task ids handed out
    MaxRefs         \* bound: references to one task

VARIABLES
    descs,         \* TaskDesc objects: task id -> fields
    table,         \* the ids in tasks_
    next_task_id,  \* next_task_id_
    running_tasks, \* running_tasks_
    semaphore,     \* waitpid_semaphore_
    exiting,       \* exiting_
    queueing,      \* the grant TryQueueTask is working on with the lock held
    freed,         \* ids FreeTask has erased and is about to kill
    stop,          \* where Stop is: "no", "called", "done"
    joined,        \* whether Join has returned
    waiter,        \* the waiter thread: [pc, pid, of]
    exits,         \* the OnExitTasks in the pool
    waits,         \* handler -> its call of WaitForTask
    children       \* kernel: pid -> [of, stage] for each unreaped child

vars == <<descs, table, next_task_id, running_tasks, semaphore, exiting,
          queueing, freed, stop, joined, waiter, exits, waits, children>>

ASSUME LimitsAssumption ==
    /\ MaxConcurrency \in Nat
    /\ PoolSize \in Nat
    /\ MaxTasks \in Nat
    /\ MaxRefs \in Nat
    /\ ReusePids \in BOOLEAN

NoGrant == "none"
ASSUME GrantsAssumption == NoGrant \notin Grants

Ids == 1 .. MaxTasks

(***************************************************************************)
(* stage "running" is is_running = true; then the exit has been recorded   *)
(* ("exited"), OnCompleted has stored the output ("completed") and         *)
(* completion_event.set() has been called ("announced"), or never will be, *)
(* as OnCompleted has thrown ("silent").  `event' is the state of the      *)
(* auto-reset event, `old' whether a minute has passed since completed_tp. *)
(***************************************************************************)
TaskDesc ==
    [pid : Pids, grant : Grants, ref_count : Nat, event : BOOLEAN,
     stage : {"running", "exited", "completed", "announced", "silent"},
     old : BOOLEAN]

\* task_mutex_ is free.
Unlocked == queueing = NoGrant

\* WaiterProc's DISTBU_CHECK aside, the daemon dies when the pool has no
\* thread for an OnExitTask: start() throws in the waiter thread.
Alive == waiter.pc # "terminated"

-----------------------------------------------------------------------------
(***************************************************************************)
(* The kernel.  A child is "forked" until it has called setpgid, then      *)
(* "grouped", and "dead" once it has exited or was killed.                 *)
(***************************************************************************)

\* The pids fork may return.
FreshPids == IF ReusePids THEN Pids \ DOMAIN children
             ELSE Pids \ {descs[id].pid : id \in DOMAIN descs}

\* kill(-pid, SIGKILL) for the pids P: a child that has no group of its own
\* yet is not reached.
Signalled(P) ==
    [pid \in DOMAIN children |->
        IF pid \in P /\ children[pid].stage = "grouped"
        THEN [children[pid] EXCEPT !.stage = "dead"] ELSE children[pid]]

SetPgid(pid) ==
    /\ Alive
    /\ children[pid].stage = "forked"
    /\ children' = [children EXCEPT ![pid].stage = "grouped"]
    /\ UNCHANGED <<descs, table, next_task_id, running_tasks, semaphore, exiting,
                   queueing, freed, stop, joined, waiter, exits, waits>>

\* The compiler exits.
ChildExits(pid) ==
    /\ Alive
    /\ children[pid].stage = "grouped"
    /\ children' = [children EXCEPT ![pid].stage = "dead"]
    /\ UNCHANGED <<descs, table, next_task_id, running_tasks, semaphore, exiting,
                   queueing, freed, stop, joined, waiter, exits, waits>>

-----------------------------------------------------------------------------
(***************************************************************************)
(* Starting a task.                                                        *)
(***************************************************************************)

\* TryQueueTask takes the lock and sees that the executor is not exiting.
TryQueueTask(grant) ==
    /\ Alive /\ Unlocked
    /\ ~exiting
    /\ next_task_id \in Ids
    /\ queueing' = grant
    /\ UNCHANGED <<descs, table, next_task_id, running_tasks, semaphore, exiting,
                   freed, stop, joined, waiter, exits, waits, children>>

\* Variant: one task over the limit.
LimitExceeded == running_tasks > MaxConcurrency

LimitReached == running_tasks + 1 > MaxConcurrency

\* The limit is reached, or memory is short: the id is used up, the counter
\* is back where it was.
RefuseTask(low_memory) ==
    /\ Alive /\ ~Unlocked
    /\ LimitReached \/ low_memory
    /\ next_task_id' = next_task_id + 1
    /\ queueing' = NoGrant
    /\ UNCHANGED <<descs, table, running_tasks, semaphore, exiting, freed, stop,
                   joined, waiter, exits, waits, children>>

\* Variants of StartProgram's accounting.
NoRelease == semaphore
TwoReleases == semaphore + 2

\* waitpid_semaphore_.release(): declared counting_semaphore<1>, but the
\* library's counter is an int.
Release == semaphore + 1

\* The process is started, its TaskDesc filled in, the waiter woken.
StartTask(pid) ==
    /\ Alive /\ ~Unlocked
    /\ ~LimitReached
    /\ pid \in FreshPids
    /\ running_tasks' = running_tasks + 1
    /\ descs' = [id \in DOMAIN descs \cup {next_task_id} |->
                   IF id = next_task_id
                   THEN [pid |-> pid, grant |-> queueing, ref_count |-> 1,
                         event |-> FALSE, stage |-> "running", old |-> FALSE]
                   ELSE descs[id]]
    /\ table' = table \cup {next_task_id}
    /\ children' = [p \in DOMAIN children \cup {pid} |->
                      IF p = pid THEN [of |-> next_task_id, stage |-> "forked"]
                      ELSE children[p]]
    /\ next_task_id' = next_task_id + 1
    /\ semaphore' = Release
    /\ queueing' = NoGrant
    /\ UNCHANGED <<exiting, freed, stop, joined, waiter, exits, waits>>

-----------------------------------------------------------------------------
(***************************************************************************)
(* References, waiting, freeing, killing.                                  *)
(***************************************************************************)

TryAddTaskRef(id) ==
    /\ Alive /\ Unlocked
    /\ id \in table                                \* otherwise: return false
    /\ descs[id].ref_count < MaxRefs
    /\ descs' = [descs EXCEPT ![id].ref_count = @ + 1]
    /\ UNCHANGED <<table, next_task_id, running_tasks, semaphore, exiting,
                   queueing, freed, stop, joined, waiter, exits, waits, children>>

\* WaitForTask finds the task under the lock (NotFound changes nothing) ...
WaitForTask(w, id) ==
    /\ Alive /\ Unlocked
    /\ waits[w].pc = "idle"
    /\ id \in table
    /\ waits' = [waits EXCEPT ![w] = [pc |-> "found", id |-> id]]
    /\ UNCHANGED <<descs, table, next_task_id, running_tasks, semaphore, exiting,
                   queueing, freed, stop, joined, waiter, exits, children>>

\* ... and calls completion_event.tryWait: it blocks,
WaitBlocks(w) ==
    /\ Alive
    /\ waits[w].pc = "found"
    /\ ~descs[waits[w].id].event
    /\ waits' = [waits EXCEPT ![w].pc = "blocked"]
    /\ UNCHANGED <<descs, table, next_task_id, running_tasks, semaphore, exiting,
                   queueing, freed, stop, joined, waiter, exits, children>>

\* or it finds the event set, which resets it, and the result is returned,
WaitDone(w) ==
    /\ Alive
    /\ waits[w].pc \in {"found", "blocked"}
    /\ descs[waits[w].id].event
    /\ waits' = [waits EXCEPT ![w].pc = "done"]
    /\ descs' = [descs EXCEPT ![waits[w].id].event = FALSE]
    /\ UNCHANGED <<table, next_task_id, running_tasks, semaphore, exiting,
                   queueing, freed, stop, joined, waiter, exits, children>>

\* or the time is up: Running.  Either way the handler returns.
WaitReturns(w) ==
    /\ Alive
    /\ waits[w].pc \in {"blocked", "done"}
    /\ waits' = [waits EXCEPT ![w].pc = "idle"]
    /\ UNCHANGED <<descs, table, next_task_id, running_tasks, semaphore, exiting,
                   queueing, freed, stop, joined, waiter, exits, children>>

\* The pids KillTask signals for the tasks `ids'.
KillTask(ids) == {descs[id].pid : id \in {i \in ids : descs[i].stage = "running"}}

ErasedIfLast(id) == IF descs[id].ref_count > 1 THEN table ELSE table \ {id}

\* FreeTask drops a reference and erases the last one under the lock ...
FreeTask(id) ==
    /\ Alive /\ Unlocked
    /\ id \in table                                \* otherwise: return
    /\ descs' = [descs EXCEPT ![id].ref_count = @ - 1]
    /\ table' = ErasedIfLast(id)
    /\ freed' = freed \cup (table \ table')
    /\ UNCHANGED <<next_task_id, running_tasks, semaphore, exiting, queueing,
                   stop, joined, waiter, exits, waits, children>>

\* ... and kills the process after it.
KillFreedTask(id) ==
    /\ Alive
    /\ children' = Signalled(KillTask({id}))
    /\ freed' = freed \ {id}
    /\ UNCHANGED <<descs, table, next_task_id, running_tasks, semaphore, exiting,
                   queueing, stop, joined, waiter, exits, waits>>

KillExpiredTasks(expired) ==
    /\ Alive /\ Unlocked
    /\ children' = Signalled(KillTask({id \in table : descs[id].grant \in expired}))
    /\ UNCHANGED <<descs, table, next_task_id, running_tasks, semaphore, exiting,
                   queueing, freed, stop, joined, waiter, exits, waits>>

\* Variant: only what nobody refers to is cleaned.
CleanableUnreferenced == {id \in table : descs[id].old /\ descs[id].ref_count = 0}

Cleanable == {id \in table : descs[id].stage # "running" /\ descs[id].old}

OnTimerClean ==
    /\ Alive /\ Unlocked
    /\ stop # "done"
    /\ table' = table \ Cleanable
    /\ UNCHANGED <<descs, next_task_id, running_tasks, semaphore, exiting,
                   queueing, freed, stop, joined, waiter, exits, waits, children>>

\* A minute passes after a task's end.
Age(id) ==
    /\ Alive
    /\ descs[id].stage # "running" /\ ~descs[id].old
    /\ descs' = [descs EXCEPT ![id].old = TRUE]
    /\ UNCHANGED <<table, next_task_id, running_tasks, semaphore, exiting,
                   queueing, freed, stop, joined, waiter, exits, waits, children>>

-----------------------------------------------------------------------------
(***************************************************************************)
(* The waiter thread.  pc "loop" is the test of the while loop, "acquire"  *)
(* waits for the semaphore, "check" is the second test, "wait" is blocked  *)
(* in wait(), "start" has reaped `pid' (the process of task `of').         *)
(***************************************************************************)

HasWork == ~exiting \/ running_tasks > 0

WaiterTests ==
    /\ waiter.pc \in {"loop", "check"}
    /\ waiter' = [waiter EXCEPT !.pc = IF ~HasWork THEN "exited"
                                       ELSE IF @ = "loop" THEN "acquire"
                                       ELSE "wait"]
    /\ UNCHANGED <<descs, table, next_task_id, running_tasks, semaphore, exiting,
                   queueing, freed, stop, joined, exits, waits, children>>

WaiterAcquires ==
    /\ waiter.pc = "acquire"
    /\ semaphore > 0
    /\ semaphore' = semaphore - 1
    /\ waiter' = [waiter EXCEPT !.pc = "check"]
    /\ UNCHANGED <<descs, table, next_task_id, running_tasks, exiting, queueing,
                   freed, stop, joined, exits, waits, children>>

WaiterReaps(pid) ==
    /\ waiter.pc = "wait"
    /\ children[pid].stage = "dead"
    /\ waiter' = [pc |-> "start", pid |-> pid, of |-> children[pid].of]
    /\ children' = [p \in DOMAIN children \ {pid} |-> children[p]]
    /\ UNCHANGED <<descs, table, next_task_id, running_tasks, semaphore, exiting,
                   queueing, freed, stop, joined, exits, waits>>

\* wait() returns -1, which ends the thread when the executor is exiting.
\* (When it is not, DISTBU_CHECK says this does not happen: WaitFindsChild.)
WaiterFindsNone ==
    /\ waiter.pc = "wait"
    /\ children = << >>
    /\ exiting
    /\ waiter' = [waiter EXCEPT !.pc = "exited"]
    /\ UNCHANGED <<descs, table, next_task_id, running_tasks, semaphore, exiting,
                   queueing, freed, stop, joined, exits, waits, children>>

\* task_manager_.start(new OnExitTask(..)) takes a thread of the pool, or
\* throws, which nobody catches.
WaiterStarts ==
    /\ waiter.pc = "start"
    /\ IF Cardinality(exits) < PoolSize
       THEN /\ exits' = exits \cup {[pid |-> waiter.pid, of |-> waiter.of,
                                     stage |-> "queued", target |-> waiter.of]}
            /\ waiter' = [waiter EXCEPT !.pc = "loop"]
       ELSE /\ waiter' = [waiter EXCEPT !.pc = "terminated"]
            /\ UNCHANGED exits
    /\ UNCHANGED <<descs, table, next_task_id, running_tasks, semaphore, exiting,
                   queueing, freed, stop, joined, waits, children>>

-----------------------------------------------------------------------------
(***************************************************************************)
(* OnExitCallback, in a thread of the pool: under the lock the counter is  *)
(* decremented and the task looked up by its pid; after it the output is   *)
(* stored and the event set.                                               *)
(***************************************************************************)

WithPid(pid) == {id \in table : descs[id].pid = pid}

Step(e, stage, target) ==
    (exits \ {e}) \cup {[e EXCEPT !.stage = stage, !.target = target]}

ExitFindsTask(e) ==
    /\ Alive /\ Unlocked
    /\ e.stage = "queued"
    /\ running_tasks' = running_tasks - 1
    /\ \E id \in WithPid(e.pid) :
          /\ descs' = [descs EXCEPT ![id].stage = "exited", ![id].old = FALSE]
          /\ exits' = Step(e, "found", id)
    /\ UNCHANGED <<table, next_task_id, semaphore, exiting, queueing, freed, stop,
                   joined, waiter, waits, children>>

\* Variant: the counter is left alone when the task is gone.
NotCounted == running_tasks

\* The counter when the task of an exit is not in the table any more.
CountedOut == running_tasks - 1

ExitFindsNone(e) ==
    /\ Alive /\ Unlocked
    /\ e.stage = "queued"
    /\ WithPid(e.pid) = {}
    /\ running_tasks' = CountedOut
    /\ exits' = exits \ {e}
    /\ UNCHANGED <<descs, table, next_task_id, semaphore, exiting, queueing, freed,
                   stop, joined, waiter, waits, children>>

\* Variant: the event is set before the output is stored.
AnnouncedEarly(d) == [d EXCEPT !.stage = "exited", !.event = TRUE]

\* OnCompleted stores the output ...
Completed(d) == [d EXCEPT !.stage = "completed"]

ExitCompletes(e) ==
    /\ Alive
    /\ e.stage = "found"
    /\ descs' = [descs EXCEPT ![e.target] = Completed(@)]
    /\ exits' = Step(e, "completed", e.target)
    /\ UNCHANGED <<table, next_task_id, running_tasks, semaphore, exiting,
                   queueing, freed, stop, joined, waiter, waits, children>>

\* ... or throws after it has: the output is to be cached, and start() finds
\* no thread for CacheWriter::AsyncWrite in the pool, which others use too.
\* The exception leaves OnExitCallback, so the event is never set.
ExitThrows(e) ==
    /\ Alive
    /\ e.stage = "found"
    /\ descs' = [descs EXCEPT ![e.target].stage = "silent"]
    /\ exits' = exits \ {e}
    /\ UNCHANGED <<table, next_task_id, running_tasks, semaphore, exiting,
                   queueing, freed, stop, joined, waiter, waits, children>>

\* Otherwise completion_event.set() announces it.
ExitAnnounces(e) ==
    /\ Alive
    /\ e.stage = "completed"
    /\ descs' = [descs EXCEPT ![e.target].stage = "announced",
                              ![e.target].event = TRUE]
    /\ exits' = exits \ {e}
    /\ UNCHANGED <<table, next_task_id, running_tasks, semaphore, exiting,
                   queueing, freed, stop, joined, waiter, waits, children>>

-----------------------------------------------------------------------------
(***************************************************************************)
(* Stop and Join.                                                          *)
(***************************************************************************)

StopCalled ==
    /\ Alive
    /\ stop = "no"
    /\ stop' = "called"
    /\ exiting' = TRUE
    /\ UNCHANGED <<descs, table, next_task_id, running_tasks, semaphore, queueing,
                   freed, joined, waiter, exits, waits, children>>

\* Variant: the waiter is not told.
StopSilently == semaphore

StopReleases == semaphore + 1

StopKills ==
    /\ Alive /\ Unlocked
    /\ stop = "called"
    /\ stop' = "done"
    /\ children' = Signalled(KillTask(table))
    /\ semaphore' = StopReleases
    /\ UNCHANGED <<descs, table, next_task_id, running_tasks, exiting, queueing,
                   freed, joined, waiter, exits, waits>>

Join ==
    /\ Unlocked
    /\ stop = "done" /\ ~joined
    /\ waiter.pc = "exited"
    /\ \A id \in table : descs[id].stage # "running"
    /\ joined' = TRUE
    /\ UNCHANGED <<descs, table, next_task_id, running_tasks, semaphore, exiting,
                   queueing, freed, stop, waiter, exits, waits, children>>

-----------------------------------------------------------------------------
Init ==
    /\ descs = << >>
    /\ table = {}
    /\ next_task_id = 1
    /\ running_tasks = 0
    /\ semaphore = 0
    /\ exiting = FALSE
    /\ queueing = NoGrant
    /\ freed = {}
    /\ stop = "no"
    /\ joined = FALSE
    /\ waiter = [pc |-> "loop", pid |-> 0, of |-> 0]
    /\ exits = {}
    /\ waits = [w \in Waiters |-> [pc |-> "idle", id |-> 0]]
    /\ children = << >>

Queue == \/ \E grant \in Grants : TryQueueTask(grant)
         \/ \E low_memory \in BOOLEAN : RefuseTask(low_memory)
         \/ \E pid \in Pids : StartTask(pid)

Waiter == \/ WaiterTests
          \/ WaiterAcquires
          \/ \E pid \in DOMAIN children : WaiterReaps(pid)
          \/ WaiterFindsNone
          \/ WaiterStarts

ExitCallback(e) == \/ ExitFindsTask(e)
                   \/ ExitFindsNone(e)
                   \/ ExitCompletes(e)
                   \/ ExitThrows(e)
                   \/ ExitAnnounces(e)

Wait(w) == \/ \E id \in table : WaitForTask(w, id)
           \/ WaitBlocks(w)
           \/ WaitDone(w)
           \/ WaitReturns(w)

Next == \/ Queue
        \/ Waiter
        \/ \E e \in exits : ExitCallback(e)
        \/ \E w \in Waiters : Wait(w)
        \/ \E id \in table : TryAddTaskRef(id) \/ FreeTask(id)
        \/ \E id \in freed : KillFreedTask(id)
        \/ \E expired \in SUBSET Grants : KillExpiredTasks(expired)
        \/ OnTimerClean
        \/ \E id \in DOMAIN descs : Age(id)
        \/ \E pid \in DOMAIN children : SetPgid(pid) \/ ChildExits(pid)
        \/ StopCalled
        \/ StopKills
        \/ Join

Spec == Init /\ [][Next]_vars

-----------------------------------------------------------------------------
(***************************************************************************)
(* Properties.                                                             *)
(***************************************************************************)

\* Types; a reference count never falls below zero, whatever the order of
\* TryAddTaskRef, FreeTask and OnTimerClean.
TypeOK ==
    /\ DOMAIN descs \subseteq Ids
    /\ descs \in [DOMAIN descs -> TaskDesc]
    /\ table \subseteq DOMAIN descs
    /\ next_task_id \in 1 .. MaxTasks + 1
    /\ running_tasks \in Nat
    /\ semaphore \in Nat
    /\ exiting \in BOOLEAN
    /\ queueing \in Grants \cup {NoGrant}
    /\ freed \subseteq DOMAIN descs
    /\ stop \in {"no", "called", "done"}
    /\ joined \in BOOLEAN
    /\ waiter.pc \in {"loop", "acquire", "check", "wait", "start", "exited",
                      "terminated"}
    /\ \A e \in exits : /\ e.pid \in Pids
                        /\ {e.of, e.target} \subseteq DOMAIN descs
                        /\ e.stage \in {"queued", "found", "completed"}
    /\ \A w \in Waiters :
          /\ waits[w].pc \in {"idle", "found", "blocked", "done"}
          /\ waits[w].pc # "idle" => waits[w].id \in DOMAIN descs
    /\ DOMAIN children \subseteq Pids
    /\ \A pid \in DOMAIN children :
          /\ children[pid].of \in DOMAIN descs
          /\ children[pid].stage \in {"forked", "grouped", "dead"}

\* running_tasks_ is the number of processes that have not been waited for
\* plus the exits not yet counted, so no slot leaks when a task is freed,
\* killed or cleaned before its process is gone.
SlotsExact ==
    running_tasks = Cardinality(DOMAIN children)
                      + (IF waiter.pc \in {"start", "terminated"} THEN 1 ELSE 0)
                      + Cardinality({e \in exits : e.stage = "queued"})

\* There are never more compilers than the limit, also while freed ones die.
ConcurrencyRespected == Cardinality(DOMAIN children) <= MaxConcurrency

\* While the executor is not exiting, wait() finds a child: the DISTBU_CHECK
\* in WaiterProc, on which OnExitCallback's decrement depends.
WaitFindsChild == waiter.pc = "wait" /\ ~exiting => children # << >>

\* WaitForTask returns a result only after OnCompleted has stored all of it.
ResultsAreComplete ==
    \A w \in Waiters : waits[w].pc = "done" =>
        descs[waits[w].id].stage \in {"completed", "announced"}

-----------------------------------------------------------------------------
(***************************************************************************)
(* Liveness: the executor's own threads run, mutexes are granted, and      *)
(* compilers end.  OnTimerClean runs every second.                         *)
(***************************************************************************)

Threads == /\ WF_vars(Waiter)
           /\ SF_vars(\E e \in exits : ExitCallback(e))
           /\ WF_vars(\E low_memory \in BOOLEAN : RefuseTask(low_memory))
           /\ WF_vars(\E id \in freed : KillFreedTask(id))
           /\ SF_vars(StopKills)
           /\ SF_vars(Join)
           /\ SF_vars(OnTimerClean)

Time == /\ WF_vars(\E pid \in DOMAIN children : SetPgid(pid) \/ ChildExits(pid))
        /\ WF_vars(\E id \in DOMAIN descs : Age(id))

FairSpec == Spec /\ Threads /\ Time

Recorded(id) == id \in DOMAIN descs /\ descs[id].stage # "running"

Told(id) == Recorded(id) /\ descs[id].stage \in {"announced", "silent"}

\* The semaphore, the waiter thread and the pool lose no exit: that of a task
\* whose last reference is not dropped is recorded in the end, and a recorded
\* exit is announced to the waiters, also when the task is freed meanwhile,
\* unless OnCompleted throws.  The daemon may be stopped before the exit is
\* recorded, and a full pool ends it (Executor::WaiterProc, OnExitCallback).
ExitsAreAnnounced ==
    \A id \in Ids :
        /\ id \in table ~> id \notin table \/ Recorded(id) \/ exiting \/ ~Alive
        /\ Recorded(id) ~> Told(id) \/ ~Alive

\* A task that has ended leaves the table, freed or not, announced or not, as
\* long as the daemon is neither being stopped nor ended by a full pool.
EndedTasksLeave ==
    \A id \in Ids : id \in table /\ descs[id].stage # "running"
                        ~> id \notin table \/ exiting \/ ~Alive

\* Stop ends the waiter thread, whatever it was waiting for; the thread may
\* also end the daemon, by handing an exit to a full pool.
WaiterEnds == stop = "done" ~> waiter.pc = "exited" \/ ~Alive
=============================================================================
