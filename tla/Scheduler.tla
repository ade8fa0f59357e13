----------------------------- MODULE Scheduler -----------------------------
(***************************************************************************)
(* The scheduler process of distribuild: TaskDispatcher (the table of      *)
(* servants, the table of task grants, one mutex and one condition         *)
(* variable), its RunningTaskBookkeeper, its expiration timer, and the     *)
(* gRPC handlers of SchedulerServiceImpl that drive them.                  *)
(*                                                                         *)
(* Every action below that belongs to the scheduler is one critical        *)
(* section of alloc_mutex_, so the interleavings of the model are the      *)
(* orders in which handler threads and the timer thread may get the lock.  *)
(* A handler that takes the lock several times is several actions, with    *)
(* what it keeps on its stack in `request' or `beat'.                      *)
(*                                                                         *)
(* Time is abstract.  An expiry time is "valid" (in the future), "lapsed"  *)
(* (in the past) or "due" (in the past of the clock value the timer thread *)
(* has already read).  A lapse may come at any moment.                     *)
(*                                                                         *)
(* The environment is the requesting daemons, which hold and use grants    *)
(* (`grants'), the servants, which run tasks and send heartbeats, and the  *)
(* network, which loses replies.                                           *)
(***************************************************************************)
EXTENDS Integers, FiniteSets

LOCAL INSTANCE FiniteSetsExt

CONSTANTS
    Daemons,          \* servant daemons
    Mortal,           \* the daemons that stop and start again
    Locations,        \* network addresses ip:port
    Observed,         \* daemon -> the address its calls are seen to come from
    Reported,         \* daemon -> the address it writes into its heartbeats
    Envs,             \* compilers, by their digest
    ServantIds,       \* addresses of the Servant objects on the heap
    Beats,            \* daemon -> the contents its heartbeats may have
    Callers,          \* handler threads of WaitForStaringTask
    Asks,             \* the contents of the requests for grants
    Handlers,         \* handler threads of HeartBeat
    MinDaemonVersion, \* FLAGS_min_daemon_version
    SizeMod,          \* 2^64: size_t arithmetic is modulo SizeMod
    MaxTasks          \* bound: grants asked for in a behaviour

VARIABLES
    servants,     \* servants_ : Servant object -> its fields
    order,        \* servants_ : <<s, t>>, s comes before t in the vector
    tasks,        \* tasks_ : task id -> Task
    next_task_id, \* next_task_id_
    bookkeeper,   \* running_task_bookkeeper_ : location -> grant ids
    request,      \* caller -> the state of its WaitForStaringTask handler
    beat,         \* handler -> the state of its HeartBeat handler
    timer,        \* "idle", or "fired": the timer thread has read the clock
    grants,       \* environment: grant id -> what its owner and servant do
    up            \* environment: the daemons that are running

vars == <<servants, order, tasks, next_task_id, bookkeeper, request, beat,
          timer, grants, up>>

dispatcherVars == <<servants, order, tasks, next_task_id, bookkeeper>>

Expiries == {"valid", "lapsed", "due"}

(***************************************************************************)
(* A heartbeat's fields, with the memory report reduced to the answer of   *)
(* the scheduler's only question about it, and the interval it announces   *)
(* to the three cases the handler tells apart.                             *)
(***************************************************************************)
HeartBeatRequest ==
    [token : {"none", "user", "servant"}, version : Nat,
     next : {"zero", "normal", "too_long"}, cores : Nat, load : Nat,
     low_memory : BOOLEAN, concurrency : Nat,
     priority : {"unknown", "user", "dedicated"}, envs : SUBSET Envs]

(***************************************************************************)
(* A request for grants of compiler `env': imm wanted now, pre prefetched. *)
(***************************************************************************)
StartingTaskRequest == [env : Envs, min_version : Nat, imm : Nat, pre : Nat]

ASSUME DaemonsAssumption ==
    /\ Mortal \subseteq Daemons
    /\ Observed \in [Daemons -> Locations]
    /\ Reported \in [Daemons -> Locations]
    /\ Beats \in [Daemons -> SUBSET HeartBeatRequest]

ASSUME RequestsAssumption ==
    /\ Asks \subseteq StartingTaskRequest
    /\ MaxTasks \in Nat
    /\ MinDaemonVersion \in Nat

ASSUME SizeModAssumption == SizeMod \in Nat \ {0}

ServantInfo ==
    [loc : Locations, version : Nat, cores : Nat, load : Nat,
     low_memory : BOOLEAN, concurrency : Nat,
     priority : {"user", "dedicated"}, envs : SUBSET Envs]

Servant == [info : ServantInfo, running : Nat, expiry : Expiries]

Task == [servant : ServantIds, expiry : Expiries, zombie : BOOLEAN]

TaskIds == 0 .. MaxTasks - 1

(***************************************************************************)
(* Shorthands for tables whose domain changes.                             *)
(***************************************************************************)
Put(f, k, v) == [x \in DOMAIN f \cup {k} |-> IF x = k THEN v ELSE f[x]]

Without(f, S) == [x \in DOMAIN f \ S |-> f[x]]

-----------------------------------------------------------------------------
(***************************************************************************)
(* Choosing a servant.                                                     *)
(***************************************************************************)

\* The element of S that comes first in the vector servants_ (a singleton,
\* or empty when S is).
First(S) == {s \in S : \A t \in S \ {s} : <<s, t>> \in order}

\* Variant: a servant whose expiry time has passed is not found again.
AtLocationUnexpired(loc) ==
    {s \in DOMAIN servants : /\ servants[s].info.loc = loc
                             /\ servants[s].expiry = "valid"}

AtLocation(loc) == {s \in DOMAIN servants : servants[s].info.loc = loc}

UnsafeGetServantsHasEnv(q) ==
    {s \in DOMAIN servants :
        /\ q.env \in servants[s].info.envs
        /\ servants[s].info.concurrency > 0
        /\ servants[s].info.version <= q.min_version}

\* std::max<size_t>(x, 0) on an unsigned difference is the difference itself,
\* wrapped around when it is negative.
AvailableTasks(s) ==
    LET info == servants[s].info
        load == (info.load - servants[s].running) % SizeMod
        avail_tasks == (info.cores - load) % SizeMod
    IN  IF info.low_memory THEN servants[s].running
        ELSE IF info.concurrency < avail_tasks THEN info.concurrency
             ELSE avail_tasks

\* Variant: a servant is free until it is over its limit.
FreeUntilOverLimit(S) ==
    {s \in S : servants[s].running <= AvailableTasks(s)}

UnsafeGetFreeServants(S) ==
    {s \in S : servants[s].running < AvailableTasks(s)}

\* The utilization is an integer division before it is a double.
Utilization(s) == servants[s].running \div servants[s].info.concurrency

\* S is not empty.  The result starts as the first servant of the vector and
\* is replaced only by servants that pass the filter.
UnsafePickUpServant(S, Passing) ==
    LET passing == Passing \cap S
    IN  IF passing = {} THEN First(S)
        ELSE First({s \in passing :
                      \A t \in passing : Utilization(s) <= Utilization(t)})

Dedicated(S) ==
    {s \in S : /\ servants[s].info.priority = "dedicated"
               /\ servants[s].info.concurrency > 2 * servants[s].running}

\* No servant is recognised as the requester's own machine: the handler
\* passes context->peer(), "ipv4:ip:port", which is a prefix of no "ip:port".
\* As UnsafePickUpServant answers for every non-empty vector, the pick among
\* dedicated servants is the final one.
UnsafePickUpFreeServant(S) == UnsafePickUpServant(S, Dedicated(S))

FreeServantsFor(q) == UnsafeGetFreeServants(UnsafeGetServantsHasEnv(q))

-----------------------------------------------------------------------------
(***************************************************************************)
(* Releasing tasks.  The callers pass ids that are in tasks_, so the early *)
(* return on an unknown id, which skips notify_all, is FreeTask's alone.   *)
(***************************************************************************)

OnServant(s) == {id \in DOMAIN tasks : tasks[id].servant = s}

\* The servants of the table ss after the tasks `ids' are given back.
Released(ss, ids) ==
    [s \in DOMAIN ss |->
        [ss[s] EXCEPT !.running = @ - Cardinality(OnServant(s) \cap ids)]]

\* alloc_cv_.notify_all(): even when no task was freed.
NotifyAll ==
    request' = [r \in Callers |->
                  [request[r] EXCEPT !.pc = IF @ = "wait" THEN "woken" ELSE @]]

\* Variant: nobody is notified when nothing was freed.
FreeTaskQuietly(ss, ids) ==
    /\ servants' = Released(ss, ids)
    /\ IF ids = {} THEN UNCHANGED request ELSE NotifyAll

\* UnsafeFreeTask on the tasks `ids', given the table ss of servants.
UnsafeFreeTask(ss, ids) ==
    /\ servants' = Released(ss, ids)
    /\ NotifyAll

-----------------------------------------------------------------------------
(***************************************************************************)
(* WaitForStaringTask.  request[r] is the handler's stack: what is still   *)
(* to be asked for, the allocations collected, and whether `now + max_wait'*)
(* has been seen to pass.  pc "call" is the entry of the next call of      *)
(* WaitForStartingNewTask, "wait" is blocked in alloc_cv_.wait_until,      *)
(* "woken" is notified but not yet holding the lock, "reply" is returning. *)
(*                                                                         *)
(* A request with a bad token or an unreasonable timeout is refused before *)
(* it touches any state; such requests are not in Asks.                    *)
(***************************************************************************)

Allocation == [id : Nat, loc : Locations]

Idle == [pc |-> "idle", env |-> "none", min_version |-> 0, imm |-> 0, pre |-> 0,
         grants |-> {}, overdue |-> FALSE]

\* The grants still wanted by the requests in progress.
Wanted == MapThenSumSet(LAMBDA r : request[r].imm + request[r].pre, Callers)

\* Where the two loops of the handler go after a call has returned.
Settle(q) ==
    [q EXCEPT !.pc = IF q.imm = 0 /\ q.pre = 0 THEN "reply" ELSE "call"]

\* The second conjunct is the bound MaxTasks, not code: a behaviour grants at
\* most that many tasks.  Requests that compete need MaxTasks above one ask.
BeginRequest(r, ask) ==
    /\ request[r].pc = "idle"
    /\ next_task_id + Wanted + ask.imm + ask.pre <= MaxTasks
    /\ request' = [request EXCEPT ![r] =
          Settle([Idle EXCEPT !.env = ask.env, !.min_version = ask.min_version,
                              !.imm = ask.imm, !.pre = ask.pre])]
    /\ UNCHANGED <<dispatcherVars, beat, timer, grants, up>>

Holding(r) == request[r].pc \in {"call", "woken"}

\* The handler gives a call a deadline in the future only while it has no
\* grant to return.
MayWait(q) == q.grants = {} /\ ~q.overdue

\* The handler after an allocation: one request less in the running loop.
Granted(q, a) ==
    Settle(IF q.imm > 0
           THEN [q EXCEPT !.imm = @ - 1, !.grants = @ \cup {a}]
           ELSE [q EXCEPT !.pre = @ - 1, !.grants = @ \cup {a}])

\* Variant: the loop tries again.
TimedOutRetry(q) == Settle(q)

\* The handler after WaitStatus::Timeout: the running loop is left.
TimedOut(q) ==
    Settle(IF q.imm > 0 THEN [q EXCEPT !.imm = 0] ELSE [q EXCEPT !.pre = 0])

\* The handler after WaitStatus::EnvNotFound: an immediate request fails as a
\* whole, whatever it was granted before; the prefetch loop is just left.
NotFound(q) ==
    IF q.imm > 0
    THEN [q EXCEPT !.pc = "reply", !.imm = 0, !.pre = 0, !.grants = {}]
    ELSE Settle([q EXCEPT !.pre = 0])

\* WaitForStartingNewTask returns {nullopt, EnvNotFound}.
EnvNotFound(r) ==
    /\ Holding(r)
    /\ UnsafeGetServantsHasEnv(request[r]) = {}
    /\ request' = [request EXCEPT ![r] = NotFound(@)]
    /\ UNCHANGED <<dispatcherVars, beat, timer, grants, up>>

\* WaitForStartingNewTask finds no free servant: it blocks, or its deadline
\* is in the past and wait_until returns cv_status::timeout at once.
WaitForFreeServant(r) ==
    /\ Holding(r)
    /\ UnsafeGetServantsHasEnv(request[r]) # {}
    /\ FreeServantsFor(request[r]) = {}
    /\ request' = [request EXCEPT ![r] =
                     IF MayWait(@) THEN [@ EXCEPT !.pc = "wait"] ELSE TimedOut(@)]
    /\ UNCHANGED <<dispatcherVars, beat, timer, grants, up>>

\* wait_until returns cv_status::timeout whenever the deadline has passed by
\* the time the lock is held again, notified or not; nothing is rechecked.
WaitTimeout(r) ==
    /\ request[r].pc \in {"wait", "woken"}
    /\ request' = [request EXCEPT ![r] = TimedOut([@ EXCEPT !.overdue = TRUE])]
    /\ UNCHANGED <<dispatcherVars, beat, timer, grants, up>>

\* A condition variable may wake a thread without a notification.
SpuriousWakeup(r) ==
    /\ request[r].pc = "wait"
    /\ request' = [request EXCEPT ![r].pc = "woken"]
    /\ UNCHANGED <<dispatcherVars, beat, timer, grants, up>>

\* WaitForStartingNewTask picks a servant and creates the task.
StartNewTask(r) ==
    /\ Holding(r)
    /\ \E s \in UnsafePickUpFreeServant(FreeServantsFor(request[r])) :
          /\ servants' = [servants EXCEPT ![s].running = @ + 1]
          /\ tasks' = Put(tasks, next_task_id,
                          [servant |-> s, expiry |-> "valid", zombie |-> FALSE])
          /\ request' = [request EXCEPT ![r] =
                Granted(@, [id |-> next_task_id, loc |-> servants[s].info.loc])]
    /\ next_task_id' = next_task_id + 1
    /\ UNCHANGED <<order, bookkeeper, beat, timer, grants, up>>

\* The reply reaches the requesting daemon (an error status carries no
\* grants), or it is lost with the grants in it.
Reply(r, delivered) ==
    /\ request[r].pc = "reply"
    /\ LET got == IF delivered THEN request[r].grants ELSE {}
           ids == {a.id : a \in got}
       IN  grants' = [id \in DOMAIN grants \cup ids |->
                        IF id \in ids
                        THEN [loc |-> (CHOOSE a \in got : a.id = id).loc,
                              stage |-> "held", kept |-> TRUE]
                        ELSE grants[id]]
    /\ request' = [request EXCEPT ![r] = Idle]
    /\ UNCHANGED <<dispatcherVars, beat, timer, up>>

-----------------------------------------------------------------------------
(***************************************************************************)
(* KeepTaskAlive and FreeTask, called by the daemon that holds the grant.  *)
(***************************************************************************)

Kept(id) == id \in DOMAIN grants /\ grants[id].kept

\* The owner of a grant forgets it; one it has not used yet is never used.
Dropped(g) == [g EXCEPT !.kept = FALSE,
                        !.stage = IF @ = "held" THEN "done" ELSE @]

\* Variant: a dead grant comes back to life.
KeepTaskAliveReviving(id) ==
    /\ Kept(id)
    /\ id \in DOMAIN tasks
    /\ tasks' = [tasks EXCEPT ![id].expiry = "valid", ![id].zombie = FALSE]
    /\ UNCHANGED <<servants, order, next_task_id, bookkeeper, request, beat,
                   timer, grants, up>>

KeepTaskAlive(id) ==
    /\ Kept(id)
    /\ id \in DOMAIN tasks /\ ~tasks[id].zombie   \* otherwise: return false
    /\ tasks' = [tasks EXCEPT ![id].expiry = "valid"]
    /\ UNCHANGED <<servants, order, next_task_id, bookkeeper, request, beat,
                   timer, grants, up>>

\* An unknown id returns early, without notify_all.
FreeTask(id) ==
    /\ Kept(id)
    /\ IF id \in DOMAIN tasks
       THEN /\ UnsafeFreeTask(servants, {id})
            /\ tasks' = Without(tasks, {id})
       ELSE UNCHANGED <<servants, tasks, request>>
    /\ grants' = [grants EXCEPT ![id] = Dropped(@)]
    /\ UNCHANGED <<order, next_task_id, bookkeeper, beat, timer, up>>

-----------------------------------------------------------------------------
(***************************************************************************)
(* HeartBeat.  beat[h] is one call: the daemon that sent it, its contents, *)
(* the grants the daemon was running when it sent it, and the answer.  The *)
(* handler takes the lock twice, in KeepServantAlive and in                *)
(* NotifyServantRunningTasks.  A daemon that gave up on a call sends the   *)
(* next one while the first may still be in progress.                      *)
(***************************************************************************)

NoBeat == [pc |-> "idle"]

\* The tasks in the executor of daemon d.  One whose process has ended, or was
\* killed, is reported until it is freed or forgotten.
RunningOn(d) == {id \in DOMAIN grants :
                    /\ grants[id].stage \in {"running", "ended"}
                    /\ grants[id].loc = Observed[d]}

SendHeartBeat(h, d, b) ==
    /\ beat[h].pc = "idle"
    /\ d \in up
    /\ beat' = [beat EXCEPT ![h] = [pc |-> "sent", daemon |-> d, info |-> b,
                                    running |-> RunningOn(d), expired |-> {}]]
    /\ UNCHANGED <<dispatcherVars, request, timer, grants, up>>

\* The checks the handler makes before it touches the dispatcher.
Admitted(b) == /\ b.token \in {"user", "servant"}
               /\ b.version >= MinDaemonVersion
               /\ b.next # "too_long"

\* The refused call, or the request lost on its way.
HeartBeatRefused(h) ==
    /\ beat[h].pc = "sent"
    /\ beat' = [beat EXCEPT ![h] = NoBeat]
    /\ UNCHANGED <<dispatcherVars, request, timer, grants, up>>

\* The ServantInfo the handler builds.  A servant that cannot be called (NAT),
\* may not serve (user token) or is leaving gets concurrency 0.
InfoOf(d, b) ==
    [loc |-> Observed[d], version |-> b.version,
     cores |-> IF b.cores = 0 THEN b.concurrency ELSE b.cores,
     load |-> b.load, low_memory |-> b.low_memory,
     concurrency |-> IF \/ Observed[d] # Reported[d]
                        \/ b.token # "servant"
                        \/ b.next = "zero"
                     THEN 0 ELSE b.concurrency,
     priority |-> IF b.priority = "unknown" THEN "user" ELSE b.priority,
     envs |-> b.envs]

\* Variant: the servant is counted anew.
RefreshedAnew(servant, info, expiry) ==
    [info |-> info, running |-> 0, expiry |-> expiry]

\* A known servant keeps its count of running tasks.
Refreshed(servant, info, expiry) ==
    [servant EXCEPT !.info = info, !.expiry = expiry]

\* A known servant is updated in place; otherwise a new object is appended.
KeepServantAlive(h) ==
    /\ beat[h].pc = "sent"
    /\ Admitted(beat[h].info)
    /\ LET info == InfoOf(beat[h].daemon, beat[h].info)
           expiry == IF beat[h].info.next = "zero" THEN "lapsed" ELSE "valid"
       IN  \/ \E s \in First(AtLocation(info.loc)) :
                 /\ servants' = [servants EXCEPT ![s] =
                                    Refreshed(@, info, expiry)]
                 /\ UNCHANGED order
           \/ /\ AtLocation(info.loc) = {}
              /\ \E s \in ServantIds \ DOMAIN servants :
                    /\ servants' = Put(servants, s,
                          [info |-> info, running |-> 0, expiry |-> expiry])
                    /\ order' = order \cup {<<t, s>> : t \in DOMAIN servants}
    /\ beat' = [beat EXCEPT ![h].pc = "alive"]
    /\ UNCHANGED <<tasks, next_task_id, bookkeeper, request, timer, grants, up>>

\* Variants: live tasks are cleared too; what is reported is cleared.
ClearUnreported(s, running) == OnServant(s) \ running
ClearReported(s, running) ==
    {id \in OnServant(s) : tasks[id].zombie /\ id \in running}

\* The zombies of servant s that its heartbeat does not report.
UnsafeClearZombies(s, running) ==
    {id \in OnServant(s) : tasks[id].zombie /\ id \notin running}

\* Variants: judged by the expiry time alone; zombies may run on.
PermittedUnexpired(s) == {id \in OnServant(s) : tasks[id].expiry = "valid"}
PermittedAll(s) == OnServant(s)

\* The tasks servant s may go on running.
Permitted(s) == {id \in OnServant(s) : ~tasks[id].zombie}

\* The servant is looked up by the location the daemon reported.
NotifyServantRunningTasks(h) ==
    /\ beat[h].pc = "alive"
    /\ LET loc == Reported[beat[h].daemon]
           running == beat[h].running
       IN  \/ /\ AtLocation(loc) = {}
              /\ beat' = [beat EXCEPT ![h].pc = "reply", ![h].expired = running]
              /\ UNCHANGED <<servants, tasks, bookkeeper, request>>
           \/ \E s \in First(AtLocation(loc)) :
                 LET cleared == UnsafeClearZombies(s, running)
                 IN  /\ UnsafeFreeTask(servants, cleared)
                     /\ tasks' = Without(tasks, cleared)
                     /\ beat' = [beat EXCEPT ![h].pc = "reply",
                                    ![h].expired = running \ Permitted(s)]
                     /\ bookkeeper' =
                           Put(bookkeeper, loc, running \cap Permitted(s))
    /\ UNCHANGED <<order, next_task_id, timer, grants, up>>

\* The daemon kills what the answer says has expired; or the answer is lost.
HeartBeatReply(h, delivered) ==
    /\ beat[h].pc = "reply"
    /\ grants' = [id \in DOMAIN grants |->
                    IF /\ delivered
                       /\ id \in beat[h].expired \cap RunningOn(beat[h].daemon)
                    THEN [grants[id] EXCEPT !.stage = "ended"] ELSE grants[id]]
    /\ beat' = [beat EXCEPT ![h] = NoBeat]
    /\ UNCHANGED <<dispatcherVars, request, timer, up>>

-----------------------------------------------------------------------------
(***************************************************************************)
(* OnTimerExpiration reads the clock, then takes the lock.                 *)
(***************************************************************************)

Overtake(f) ==
    [x \in DOMAIN f |->
       [f[x] EXCEPT !.expiry = IF @ = "lapsed" THEN "due" ELSE @]]

TimerFires ==
    /\ timer = "idle"
    /\ timer' = "fired"
    /\ servants' = Overtake(servants)
    /\ tasks' = Overtake(tasks)
    /\ UNCHANGED <<order, next_task_id, bookkeeper, request, beat, grants, up>>

Due(f) == {x \in DOMAIN f : f[x].expiry = "due"}

\* Variant: the bookkeeper is left alone.
DelNoServants(S) == bookkeeper

\* The bookkeeper without the servants S.
DelServants(S) == Without(bookkeeper, {servants[s].info.loc : s \in S})

\* Variant: the tasks wait until they expire themselves.
ZombiesOutside(alive) ==
    {id \in DOMAIN tasks : tasks[id].servant \notin alive /\ tasks[id].zombie}

\* The tasks of the servants that are gone.
TasksOutside(alive) == {id \in DOMAIN tasks : tasks[id].servant \notin alive}

\* Expired servants are erased, the tasks of erased servants freed, and the
\* remaining expired tasks become zombies.
OnTimerExpiration ==
    /\ timer = "fired"
    /\ timer' = "idle"
    /\ LET alive == DOMAIN servants \ Due(servants)
           clearing == TasksOutside(alive)
       IN  /\ bookkeeper' = DelServants(Due(servants))
           /\ UnsafeFreeTask(Without(servants, Due(servants)), clearing)
           /\ order' = order \cap (alive \X alive)
           /\ tasks' = [id \in DOMAIN tasks \ clearing |->
                          [tasks[id] EXCEPT !.zombie = @ \/ id \in Due(tasks)]]
    /\ UNCHANGED <<next_task_id, beat, grants, up>>

-----------------------------------------------------------------------------
(***************************************************************************)
(* The environment.                                                        *)
(***************************************************************************)

\* An expiry time is passed by.
LapseServant(s) ==
    /\ servants[s].expiry = "valid"
    /\ servants' = [servants EXCEPT ![s].expiry = "lapsed"]
    /\ UNCHANGED <<order, tasks, next_task_id, bookkeeper, request, beat,
                   timer, grants, up>>

LapseTask(id) ==
    /\ tasks[id].expiry = "valid"
    /\ tasks' = [tasks EXCEPT ![id].expiry = "lapsed"]
    /\ UNCHANGED <<servants, order, next_task_id, bookkeeper, request, beat,
                   timer, grants, up>>

Advance(id, from, to) ==
    /\ grants[id].stage = from
    /\ grants' = [grants EXCEPT ![id].stage = to]
    /\ UNCHANGED <<dispatcherVars, request, beat, timer, up>>

\* The holder of a grant sends its task to the granted servant.
SubmitTask(id) == Kept(id) /\ Advance(id, "held", "queued")

\* The servant takes the task, however late it arrives, or refuses it.
ServantStarts(id) ==
    /\ \E d \in up : Observed[d] = grants[id].loc
    /\ Advance(id, "queued", "running")

ServantRefuses(id) == Advance(id, "queued", "done")

\* The compiler exits.
ServantFinishes(id) == Advance(id, "running", "ended")

\* The task leaves the servant's executor: freed, or a minute after its end.
ServantForgets(id) == Advance(id, "ended", "done")

\* The holder of a grant dies, or its FreeTask call is lost.
AbandonGrant(id) ==
    /\ Kept(id)
    /\ grants' = [grants EXCEPT ![id] = Dropped(@)]
    /\ UNCHANGED <<dispatcherVars, request, beat, timer, up>>

DaemonStops(d) ==
    /\ d \in up
    /\ up' = up \ {d}
    /\ grants' = [id \in DOMAIN grants |->
                    IF id \in RunningOn(d)
                    THEN [grants[id] EXCEPT !.stage = "done"] ELSE grants[id]]
    /\ UNCHANGED <<dispatcherVars, request, beat, timer>>

DaemonStarts(d) ==
    /\ d \notin up
    /\ up' = up \cup {d}
    /\ UNCHANGED <<dispatcherVars, request, beat, timer, grants>>

-----------------------------------------------------------------------------
Init ==
    /\ servants = [s \in {} |-> {}]
    /\ order = {}
    /\ tasks = [id \in {} |-> {}]
    /\ next_task_id = 0
    /\ bookkeeper = [loc \in {} |-> {}]
    /\ request = [r \in Callers |-> Idle]
    /\ beat = [h \in Handlers |-> NoBeat]
    /\ timer = "idle"
    /\ grants = [id \in {} |-> {}]
    /\ up = Daemons

Request(r) == \/ \E ask \in Asks : BeginRequest(r, ask)
              \/ EnvNotFound(r)
              \/ WaitForFreeServant(r)
              \/ WaitTimeout(r)
              \/ SpuriousWakeup(r)
              \/ StartNewTask(r)
              \/ \E delivered \in BOOLEAN : Reply(r, delivered)

HeartBeat(h) == \/ \E d \in Daemons : \E b \in Beats[d] : SendHeartBeat(h, d, b)
                \/ HeartBeatRefused(h)
                \/ KeepServantAlive(h)
                \/ NotifyServantRunningTasks(h)
                \/ \E delivered \in BOOLEAN : HeartBeatReply(h, delivered)

Owner(id) == \/ KeepTaskAlive(id)
             \/ FreeTask(id)
             \/ SubmitTask(id)
             \/ AbandonGrant(id)

ServantStep(id) == \/ ServantStarts(id)
                   \/ ServantRefuses(id)
                   \/ ServantFinishes(id)
                   \/ ServantForgets(id)

Next == \/ \E r \in Callers : Request(r)
        \/ \E h \in Handlers : HeartBeat(h)
        \/ TimerFires
        \/ OnTimerExpiration
        \/ \E id \in DOMAIN grants : Owner(id) \/ ServantStep(id)
        \/ \E s \in DOMAIN servants : LapseServant(s)
        \/ \E id \in DOMAIN tasks : LapseTask(id)
        \/ \E d \in Mortal : DaemonStops(d) \/ DaemonStarts(d)

Spec == Init /\ [][Next]_vars

-----------------------------------------------------------------------------
(***************************************************************************)
(* Properties.                                                             *)
(***************************************************************************)

RequestState ==
    [pc : {"idle", "call", "wait", "woken", "reply"},
     env : Envs \cup {"none"}, min_version : Nat, imm : Nat, pre : Nat,
     grants : SUBSET Allocation,
     overdue : BOOLEAN]

BeatState ==
    {NoBeat} \cup
    [pc : {"sent", "alive", "reply"}, daemon : Daemons,
     info : HeartBeatRequest, running : SUBSET Nat, expired : SUBSET Nat]

Grant == [loc : Locations, stage : {"held", "queued", "running", "ended", "done"},
          kept : BOOLEAN]

\* Types of the dispatcher's tables and of the handlers' stacks; task ids
\* come from next_task_id_.
TypeOK ==
    /\ DOMAIN servants \subseteq ServantIds
    /\ servants \in [DOMAIN servants -> Servant]
    /\ order \subseteq ServantIds \X ServantIds
    /\ next_task_id \in Nat
    /\ DOMAIN tasks \subseteq 0 .. next_task_id - 1
    /\ tasks \in [DOMAIN tasks -> Task]
    /\ DOMAIN bookkeeper \subseteq Locations
    /\ bookkeeper \in [DOMAIN bookkeeper -> SUBSET Nat]
    /\ request \in [Callers -> RequestState]
    /\ beat \in [Handlers -> BeatState]
    /\ timer \in {"idle", "fired"}
    /\ DOMAIN grants \subseteq 0 .. next_task_id - 1
    /\ grants \in [DOMAIN grants -> Grant]
    /\ up \subseteq Daemons

\* Every task in tasks_ points to a Servant that is still in servants_: a
\* servant never leaves the table without its tasks.
TasksOfLiveServants == \A id \in DOMAIN tasks : tasks[id].servant \in DOMAIN servants

\* Servant::running_tasks, which is only incremented and decremented, is the
\* number of tasks that point to the servant; so it never wraps below zero
\* and no slot of a servant is lost for good.
RunningTasksExact ==
    \A s \in DOMAIN servants : servants[s].running = Cardinality(OnServant(s))

\* No two live servants have one location, so a heartbeat finds the same
\* object until it expires; and of two live servants one was found first.
OneServantPerLocation ==
    \A s, t \in DOMAIN servants : s # t =>
        /\ servants[s].info.loc # servants[t].info.loc
        /\ <<s, t>> \in order <=> <<t, s>> \notin order

\* GetRunningTasks never reports tasks of a servant that has been removed:
\* the bookkeeper has its own lock, but changes with servants_.
BookkeeperOfLiveServants ==
    \A loc \in DOMAIN bookkeeper : AtLocation(loc) # {}

Live(id) == id \in DOMAIN tasks /\ ~tasks[id].zombie

\* A heartbeat answer in flight orders the servant to kill only tasks whose
\* grant is dead, however the two lock sections of the handler, the timer and
\* other heartbeats were interleaved, and stays right until it arrives.
KillsOnlyDeadGrants ==
    \A h \in Handlers : beat[h].pc = "reply" =>
        \A id \in beat[h].expired : ~Live(id)

\* A step that grants a task does so on a servant with room for it.
WithinCapacity ==
    \A id \in DOMAIN tasks' \ DOMAIN tasks :
        LET s == tasks'[id].servant
        IN  /\ servants'[s].running <= servants[s].info.concurrency
            /\ ~servants[s].info.low_memory
            /\ \E r \in Callers :
                  /\ request'[r] # request[r]
                  /\ request[r].env \in servants[s].info.envs

\* A grant is only given on a servant that has the compiler and, at that
\* moment, fewer tasks than its concurrency and enough memory, also when the
\* handler slept between its first look and the grant.
GrantsWithinCapacity == [][WithinCapacity]_vars

\* A step that takes tasks away leaves the live ones.
LiveOnesAreKept ==
    \A id \in DOMAIN tasks \ DOMAIN tasks' :
        \/ tasks[id].zombie
        \/ tasks[id].servant \notin DOMAIN servants'
        \/ Kept(id) /\ ~grants'[id].kept

\* A live grant leaves tasks_ only because its holder frees it or because its
\* servant is removed; timeouts and heartbeats take zombies only.
LiveGrantsAreKept == [][LiveOnesAreKept]_vars

(***************************************************************************)
(* The dispatcher implements the abstract ledger of grants: a servant's    *)
(* offer is its concurrency, the open grants are tasks_ without their      *)
(* expiry times, and the number of grants issued is next_task_id_.         *)
(***************************************************************************)
Ledger == INSTANCE GrantLedger WITH
    Servants <- ServantIds,
    Slots <- {0} \cup {b.concurrency : b \in UNION {Beats[d] : d \in Daemons}},
    capacity <- [s \in DOMAIN servants |-> servants[s].info.concurrency],
    ledger <- [id \in DOMAIN tasks |-> [servant |-> tasks[id].servant,
                                       zombie |-> tasks[id].zombie]],
    issued <- next_task_id

\* Every behaviour of the dispatcher, with all its handler threads and its
\* timer, is one of the ledger: no slot is granted twice, no dead grant is
\* revived by a late KeepTaskAlive, and no live one is dropped.
GrantsFormALedger == Ledger!Spec

-----------------------------------------------------------------------------
(***************************************************************************)
(* Liveness.                                                               *)
(***************************************************************************)

\* The timer thread runs every second whatever else happens.
TimerFairness == WF_vars(TimerFires) /\ WF_vars(OnTimerExpiration)

\* A request that sleeps while a servant is free for it is woken, without its
\* deadline having to pass, even when the servant became free through a
\* heartbeat's report of its memory, which notifies nobody: the timer notifies
\* on every tick.
SleepersAreWoken ==
    \A r \in Callers :
        (request[r].pc = "wait" /\ FreeServantsFor(request[r]) # {})
            ~> request[r].pc # "wait"

\* A handler thread runs.
RequestFairness ==
    \A r \in Callers :
        /\ WF_vars(EnvNotFound(r) \/ WaitForFreeServant(r) \/ StartNewTask(r))
        /\ WF_vars(Reply(r, TRUE) \/ Reply(r, FALSE))

\* A deadline passes.
DeadlineFairness == \A r \in Callers : WF_vars(WaitTimeout(r))

\* Every request for grants is answered, as long as deadlines pass.
RequestsAreAnswered ==
    DeadlineFairness =>
        \A r \in Callers : request[r].pc # "idle" ~> request[r].pc = "idle"

\* A task nobody will free or keep alive any more: its holder gave it up, its
\* reply was lost, or its request failed after it had been granted.
Abandoned(id) ==
    /\ id \in DOMAIN tasks
    /\ ~Kept(id)
    /\ \A r \in Callers : id \notin {a.id : a \in request[r].grants}

FromDaemon(d, h) == beat[h].pc # "idle" /\ beat[h].daemon = d

\* Time passes for what nobody refreshes, handler threads run, a running
\* daemon goes on sending heartbeats, and the network does not lose every
\* call or every answer.
HeartBeatFairness ==
    /\ \A d \in Daemons :
          /\ SF_vars(\E h \in Handlers : \E b \in Beats[d] : SendHeartBeat(h, d, b))
          /\ SF_vars(\E h \in Handlers : FromDaemon(d, h) /\ KeepServantAlive(h))
          /\ SF_vars(\E h \in Handlers : FromDaemon(d, h) /\ HeartBeatReply(h, TRUE))
    /\ \A h \in Handlers :
          /\ WF_vars(NotifyServantRunningTasks(h))
          /\ WF_vars(HeartBeatRefused(h) /\ ~Admitted(beat[h].info))

ExpiryFairness ==
    /\ \A id \in TaskIds : WF_vars(Abandoned(id) /\ LapseTask(id))
    /\ \A s \in ServantIds :
          WF_vars(/\ s \in DOMAIN servants
                  /\ \A d \in up : Observed[d] # servants[s].info.loc
                  /\ LapseServant(s))
    /\ \A id \in TaskIds : WF_vars(id \in DOMAIN grants /\ ServantForgets(id))

RecoverySpec == /\ Spec
                /\ TimerFairness
                /\ RequestFairness
                /\ HeartBeatFairness
                /\ ExpiryFairness

\* The slot of an abandoned grant is given back in the end, though no call
\* frees it: by expiry and a heartbeat, or with its servant.
AbandonedGrantsAreFreed ==
    \A id \in TaskIds : Abandoned(id) ~> id \notin DOMAIN tasks

\* A servant does not run for ever a task whose grant is dead, even one that
\* started after the scheduler had given its slot to somebody else.
OrphansAreStopped ==
    \A id \in TaskIds :
        LET Running == id \in DOMAIN grants /\ grants[id].stage = "running"
        IN  Running /\ ~Live(id) ~> ~Running

-----------------------------------------------------------------------------
(***************************************************************************)
(* What a document says of the choice of a servant.                        *)
(***************************************************************************)

\* doc/scheduler.md: UnsafeGetFreeServants picks servants with load to spare.
GrantsOnlyWithLoadToSpare ==
    [][\A id \in DOMAIN tasks' \ DOMAIN tasks :
         LET s == tasks'[id].servant
         IN  servants[s].info.load - servants[s].running
                < servants[s].info.cores]_vars

=============================================================================
