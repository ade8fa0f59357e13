--------------------------- MODULE LocalDispatcher ---------------------------
(***************************************************************************)
(* TaskDispatcher of a requesting daemon: a client's compilation is queued *)
(* in tasks_, a thread of its own gets a grant, submits the source to the  *)
(* servant, waits for the result and frees the servant's task and the      *)
(* grant; HTTP handlers wait for the result; four timers abort, keep alive *)
(* and clear tasks.                                                        *)
(*                                                                         *)
(* An action is a critical section of tasks_mutex_ or of the task's mutex, *)
(* or a remote call with what the thread does with its answer.  The        *)
(* servant, the grant keeper, the scheduler's answers and the clock are    *)
(* the environment.                                                        *)
(***************************************************************************)
EXTENDS Naturals, FiniteSets

CONSTANTS
    Tasks,    \* tasks clients submit, each once
    Handlers, \* HTTP handler threads in WaitForTask
    kRetries  \* kRetries of WaitServantTask, 5 in the code

ASSUME LocalDispatcherAssumption == kRetries \in Nat \ {0}

VARIABLES
    tasks,    \* tasks_: the tasks in the table
    desc,     \* task -> its TaskDesc
    pc,       \* task -> where the thread of PerformTask is
    handler,  \* handler -> its WaitForTask call
    keeping,  \* OnTimerKeepAlive: the tasks of the call in progress
    age,      \* task -> the clock against start_deadline
    alive,    \* task -> the requester's process exists
    servant   \* task -> what the servant has of it

vars == <<tasks, desc, pc, handler, keeping, age, alive, servant>>

States == {"Pending", "Ready", "Dispatched", "Done"}

\* DistOutput: not written, -114514, -125, or what the servant answered.
Outputs == {"unwritten", "not run", "failed", "servant's"}

(***************************************************************************)
(* The grant of a task: it has none yet, its thread holds one, Free was    *)
(* called for it, or it was left without a call.  Free does not wait for   *)
(* its asynchronous call, so that the scheduler may hear of it ("freed")   *)
(* or never does ("dropped").                                              *)
(***************************************************************************)
Grants == {"none", "held", "freed", "dropped", "left"}

TaskDesc ==
    [state   : States,
     task    : BOOLEAN,          \* the unique_ptr is not null
     aborted : BOOLEAN,
     output  : Outputs,
     event   : BOOLEAN,          \* completion_event, auto-reset
     grant   : Grants,
     known   : BOOLEAN,          \* servant_task_id is the servant's id
     stale   : BOOLEAN,          \* last_keep_alive_tp is over a minute ago
     retries : 0 .. kRetries]

Queued ==
    [state |-> "Pending", task |-> TRUE, aborted |-> FALSE,
     output |-> "unwritten", event |-> FALSE, grant |-> "none",
     known |-> FALSE, stale |-> FALSE, retries |-> 0]

Idle == [pc |-> "idle"]

Init ==
    /\ tasks = {}
    /\ desc = [t \in Tasks |-> Queued]
    /\ pc = [t \in Tasks |-> "new"]
    /\ handler = [h \in Handlers |-> Idle]
    /\ keeping = {}
    /\ age = [t \in Tasks |-> "due"]
    /\ alive = [t \in Tasks |-> TRUE]
    /\ servant = [t \in Tasks |-> "none"]

Goto(t, l) == pc' = [pc EXCEPT ![t] = l]

-----------------------------------------------------------------------------
(***************************************************************************)
(* QueueTask and the thread that performs the task.                        *)
(***************************************************************************)

\* The task is in the table before its thread is started; when the pool has no
\* thread the exception leaves it there.
QueueTask(t) ==
    /\ pc[t] = "new"
    /\ tasks' = tasks \cup {t}
    /\ \/ Goto(t, "perform")
       \/ Goto(t, "not started")
    /\ UNCHANGED <<desc, handler, keeping, age, alive, servant>>

\* The cache reader never hits.  A task the scheduler lists as running elsewhere
\* is asked for with a stub for servant_location, which is still empty: the call
\* fails, and a new task is started as when none is found.
PerformTask(t) ==
    /\ pc[t] = "perform"
    /\ desc' = [desc EXCEPT ![t].output = "not run"]
    /\ Goto(t, "get")
    /\ UNCHANGED <<tasks, handler, keeping, age, alive, servant>>

\* The loop of StartNewServantTask around TaskGrantKeeper::Get.
GetGrant(t) ==
    /\ pc[t] = "get"
    /\ Goto(t, IF desc[t].aborted THEN "complete" ELSE "getting")
    /\ UNCHANGED <<tasks, desc, handler, keeping, age, alive, servant>>

GetReturnsNone(t) ==
    /\ pc[t] = "getting"
    /\ Goto(t, "get")
    /\ UNCHANGED <<tasks, desc, handler, keeping, age, alive, servant>>

\* Get throws when the pool has no thread for a fetcher.
GetThrows(t) ==
    /\ pc[t] = "getting"
    /\ Goto(t, "complete")
    /\ UNCHANGED <<tasks, desc, handler, keeping, age, alive, servant>>

GetReturnsGrant(t) ==
    /\ pc[t] = "getting"
    /\ desc' = [desc EXCEPT ![t].grant = "held", ![t].state = "Ready",
                            ![t].stale = FALSE]
    /\ Goto(t, "start")
    /\ UNCHANGED <<tasks, handler, keeping, age, alive, servant>>

\* Variant: the grant of a task that was not accepted is kept.
GrantKept(t) == {desc}

\* task_grant_keeper_.Free: the call, its context and its queue are gone when
\* Free returns, whether the request was sent by then or not.
GrantFreed(t) == {[desc EXCEPT ![t].grant = g] : g \in {"freed", "dropped"}}

\* The servant refuses the task, or the answer is lost and it may run there.
StartFails(t) ==
    /\ pc[t] = "start"
    /\ desc' \in GrantFreed(t)
    /\ servant' \in {servant, [servant EXCEPT ![t] = "running"]}
    /\ Goto(t, "complete")
    /\ UNCHANGED <<tasks, handler, keeping, age, alive>>

\* The servant's id, or 0 when a write of the request failed.
StartReturns(t) ==
    /\ pc[t] = "start"
    /\ \E known \in BOOLEAN :
          /\ desc' = [desc EXCEPT ![t].state = "Dispatched", ![t].known = known,
                                  ![t].retries = kRetries]
          /\ servant' = IF known THEN [servant EXCEPT ![t] = "running"] ELSE servant
    /\ Goto(t, "wait")
    /\ UNCHANGED <<tasks, handler, keeping, age, alive>>

\* while (retries-- && !aborted)
MayAsk(t) == desc[t].retries > 0 /\ ~desc[t].aborted

WaitServantTask(t) ==
    /\ pc[t] = "wait"
    /\ MayAsk(t)
    /\ desc' = [desc EXCEPT ![t].retries = @ - 1]
    /\ Goto(t, "asking")
    /\ UNCHANGED <<tasks, handler, keeping, age, alive, servant>>

GiveUpServantTask(t) ==
    /\ pc[t] = "wait"
    /\ ~MayAsk(t)
    /\ Goto(t, "free")
    /\ UNCHANGED <<tasks, desc, handler, keeping, age, alive, servant>>

\* A failed call, or the servant does not know the id.
CallFails(t) ==
    /\ pc[t] = "asking"
    /\ Goto(t, "wait")
    /\ UNCHANGED <<tasks, desc, handler, keeping, age, alive, servant>>

\* The servant's handler reports a running task with the status NOT_FOUND and no
\* response, so this is a failed call to the thread: the branch for a running
\* task is never taken.
AnsweredRunning(t) ==
    /\ pc[t] = "asking"
    /\ desc[t].known
    /\ servant[t] = "running"
    /\ Goto(t, "wait")
    /\ UNCHANGED <<tasks, desc, handler, keeping, age, alive, servant>>

\* The servant's output, or -125 when its files cannot be unpacked.
AnsweredDone(t) ==
    /\ pc[t] = "asking"
    /\ desc[t].known
    /\ servant[t] = "done"
    /\ \E o \in {"servant's", "failed"} : desc' = [desc EXCEPT ![t].output = o]
    /\ Goto(t, "free")
    /\ UNCHANGED <<tasks, handler, keeping, age, alive, servant>>

\* The servant has succeeded without a file, so the pack is empty: std::stol
\* throws in TryUnpackFiles, and the exception ends PerformTask.  Neither the
\* servant's task nor the grant is freed.
UnpackThrows(t) ==
    /\ pc[t] = "asking"
    /\ desc[t].known
    /\ servant[t] = "done"
    /\ desc' = [desc EXCEPT ![t].grant = "left"]
    /\ Goto(t, "complete")
    /\ UNCHANGED <<tasks, handler, keeping, age, alive, servant>>

\* The call has no deadline.  It may be lost, or be for the id 0.
FreeServantTask(t) ==
    /\ pc[t] = "free"
    /\ \/ UNCHANGED servant
       \/ /\ desc[t].known
          /\ servant' = [servant EXCEPT ![t] = "gone"]
    /\ Goto(t, "return")
    /\ UNCHANGED <<tasks, desc, handler, keeping, age, alive>>

ReturnGrant(t) ==
    /\ pc[t] = "return"
    /\ desc' \in GrantFreed(t)
    /\ Goto(t, "complete")
    /\ UNCHANGED <<tasks, handler, keeping, age, alive, servant>>

\* The deleter of `deffer', on every way out of PerformTask.
Complete(t) ==
    /\ pc[t] = "complete"
    /\ desc' = [desc EXCEPT ![t].state = "Done", ![t].event = TRUE]
    /\ Goto(t, "over")
    /\ UNCHANGED <<tasks, handler, keeping, age, alive, servant>>

\* What the thread does by itself or by a call that has a deadline.
Thread(t) ==
    \/ PerformTask(t) \/ GetGrant(t) \/ GetReturnsNone(t) \/ GetThrows(t)
    \/ GetReturnsGrant(t) \/ StartFails(t) \/ StartReturns(t)
    \/ WaitServantTask(t) \/ GiveUpServantTask(t)
    \/ CallFails(t) \/ AnsweredRunning(t) \/ AnsweredDone(t) \/ UnpackThrows(t)
    \/ ReturnGrant(t) \/ Complete(t)

Perform(t) == Thread(t) \/ FreeServantTask(t)

-----------------------------------------------------------------------------
(***************************************************************************)
(* WaitForTask, called by an HTTP handler.                                 *)
(***************************************************************************)

\* An id that is not found is answered at once and changes nothing.
WaitForTask(h, t) ==
    /\ handler[h] = Idle
    /\ t \in tasks
    /\ handler' = [handler EXCEPT ![h] = [pc |-> "wait", task |-> t]]
    /\ UNCHANGED <<tasks, desc, pc, keeping, age, alive, servant>>

WaitTimesOut(h) ==
    /\ handler[h].pc = "wait"
    /\ handler' = [handler EXCEPT ![h] = Idle]
    /\ UNCHANGED <<tasks, desc, pc, keeping, age, alive, servant>>

\* Variant: a manual-reset event.
StillSet(t) == desc

\* tryWait of an auto-reset event.
EventTaken(t) == [desc EXCEPT ![t].event = FALSE]

WaitSignalled(h) ==
    /\ handler[h].pc = "wait"
    /\ LET t == handler[h].task
       IN  /\ desc[t].event
           /\ desc' = EventTaken(t)
           /\ handler' = [handler EXCEPT ![h].pc = "erase"]
    /\ UNCHANGED <<tasks, pc, keeping, age, alive, servant>>

\* Variant: the handler takes the task without erasing its entry.
NotErased(t) == tasks

ErasedFromTable(t) == tasks \ {t}

WaitErases(h) ==
    /\ handler[h].pc = "erase"
    /\ tasks' = ErasedFromTable(handler[h].task)
    /\ handler' = [handler EXCEPT ![h].pc = "take"]
    /\ UNCHANGED <<desc, pc, keeping, age, alive, servant>>

\* The unique_ptr is moved out: the caller has the output, or a null pointer.
WaitTakes(h) ==
    /\ handler[h].pc = "take"
    /\ LET t == handler[h].task
       IN  /\ desc' = [desc EXCEPT ![t].task = FALSE]
           /\ handler' = [handler EXCEPT ![h] =
                 [pc |-> "ok", task |-> t,
                  result |-> IF desc[t].task THEN desc[t].output ELSE "null"]]
    /\ UNCHANGED <<tasks, pc, keeping, age, alive, servant>>

WaitReturns(h) ==
    /\ handler[h].pc = "ok"
    /\ handler' = [handler EXCEPT ![h] = Idle]
    /\ UNCHANGED <<tasks, desc, pc, keeping, age, alive, servant>>

Wait(h) ==
    \/ WaitTimesOut(h) \/ WaitSignalled(h) \/ WaitErases(h)
    \/ WaitTakes(h) \/ WaitReturns(h)

-----------------------------------------------------------------------------
(***************************************************************************)
(* The timers.                                                             *)
(***************************************************************************)

Aborted(T) ==
    [t \in Tasks |-> IF t \in T THEN [desc[t] EXCEPT !.aborted = TRUE] ELSE desc[t]]

\* Variant: only tasks that have a grant time out.
LateGranted == {t \in tasks : age[t] # "due" /\ desc[t].state # "Pending"}

\* Tasks whose start_deadline is over, whatever their state.
Late == {t \in tasks : age[t] # "due"}

OnTimerTimeoutAbort ==
    /\ \E t \in Late : ~desc[t].aborted
    /\ desc' = Aborted(Late)
    /\ UNCHANGED <<tasks, pc, handler, keeping, age, alive, servant>>

\* Variant: aborted tasks are kept alive too.
BusyOrAborted == {t \in tasks : desc[t].state \notin {"Pending", "Done"}}

\* Tasks OnTimerKeepAlive looks at.
Busy == {t \in tasks : desc[t].state \notin {"Pending", "Done"} /\ ~desc[t].aborted}

\* Tasks not kept alive for a minute are aborted, the others listed for the call.
OnTimerKeepAlive ==
    /\ keeping = {}
    /\ Busy # {}
    /\ LET lost == {t \in Busy : desc[t].stale}
       IN  /\ desc' = Aborted(lost)
           /\ keeping' = Busy \ lost
    /\ UNCHANGED <<tasks, pc, handler, age, alive, servant>>

\* The call fails, or the scheduler still knows the grants of `kept'.
KeepAliveReturns ==
    /\ keeping # {}
    /\ keeping' = {}
    /\ \E kept \in SUBSET keeping :
          desc' = [t \in Tasks |-> IF t \in kept \cap tasks
                                   THEN [desc[t] EXCEPT !.stale = FALSE]
                                   ELSE desc[t]]
    /\ UNCHANGED <<tasks, pc, handler, age, alive, servant>>

\* Tasks OnTimerKilledAbort aborts; it asks each task that is not aborted for
\* its requester.
Killed == {t \in tasks : ~desc[t].aborted /\ ~alive[t]}

OnTimerKilledAbort ==
    /\ Killed # {}
    /\ desc' = Aborted(Killed)
    /\ UNCHANGED <<tasks, pc, handler, keeping, age, alive, servant>>

\* Variant: only completed tasks that were not aborted are cleared.
ClearableUnaborted ==
    {t \in tasks : desc[t].state = "Done" /\ ~desc[t].aborted /\ age[t] = "old"}

\* Completed, and aborted or a minute past the deadline.
Clearable ==
    {t \in tasks : desc[t].state = "Done" /\ (desc[t].aborted \/ age[t] = "old")}

OnTimerClear ==
    /\ Clearable # {}
    /\ tasks' = tasks \ Clearable
    /\ UNCHANGED <<desc, pc, handler, keeping, age, alive, servant>>

-----------------------------------------------------------------------------
(***************************************************************************)
(* The environment.                                                        *)
(***************************************************************************)

\* start_deadline passes, and a minute more.
TimePasses(t) ==
    /\ t \in tasks
    /\ age[t] # "old"
    /\ age' = [age EXCEPT ![t] = IF @ = "due" THEN "late" ELSE "old"]
    /\ UNCHANGED <<tasks, desc, pc, handler, keeping, alive, servant>>

\* A minute passes without a keep-alive that succeeds.
KeepAliveLapses(t) ==
    /\ t \in Busy
    /\ ~desc[t].stale
    /\ desc' = [desc EXCEPT ![t].stale = TRUE]
    /\ UNCHANGED <<tasks, pc, handler, keeping, age, alive, servant>>

ClientDies(t) ==
    /\ t \in tasks
    /\ alive[t]
    /\ alive' = [alive EXCEPT ![t] = FALSE]
    /\ UNCHANGED <<tasks, desc, pc, handler, keeping, age, servant>>

\* The compiler ends; or the task is killed, or lost with the servant.
ServantMoves(t) ==
    /\ servant[t] \in {"running", "done"}
    /\ \/ servant[t] = "running" /\ servant' = [servant EXCEPT ![t] = "done"]
       \/ servant' = [servant EXCEPT ![t] = "gone"]
    /\ UNCHANGED <<tasks, desc, pc, handler, keeping, age, alive>>

Next ==
    \/ \E t \in Tasks : \/ QueueTask(t) \/ Perform(t)
                        \/ TimePasses(t) \/ KeepAliveLapses(t)
                        \/ ClientDies(t) \/ ServantMoves(t)
    \/ \E h \in Handlers : Wait(h) \/ \E t \in Tasks : WaitForTask(h, t)
    \/ OnTimerTimeoutAbort \/ OnTimerKeepAlive \/ KeepAliveReturns
    \/ OnTimerKilledAbort \/ OnTimerClear

Spec == Init /\ [][Next]_vars

\* Pool threads run, and a remote call with a deadline returns; FreeServantTask
\* has none and need not.  The clock goes on and the timers fire every second.
\* Handlers, clients and servants need do nothing, but a handler that was
\* signalled goes on.
FairSpec ==
    /\ Spec
    /\ \A t \in Tasks : WF_vars(Thread(t)) /\ WF_vars(TimePasses(t))
    /\ \A h \in Handlers : WF_vars(WaitErases(h) \/ WaitTakes(h))
    /\ WF_vars(OnTimerTimeoutAbort)
    /\ WF_vars(KeepAliveReturns)
    /\ WF_vars(OnTimerClear)
-----------------------------------------------------------------------------
(***************************************************************************)
(* Properties.                                                             *)
(***************************************************************************)

Labels == {"new", "not started", "perform", "get", "getting", "start", "wait",
           "asking", "free", "return", "complete", "over"}

Calls ==
    {Idle}
    \cup [pc : {"wait", "erase", "take"}, task : Tasks]
    \cup [pc : {"ok"}, task : Tasks, result : Outputs \cup {"null"}]

\* The table, the task descriptors and the threads keep their types; the loop
\* of WaitServantTask never asks with its retries used up.
TypeOK ==
    /\ tasks \in SUBSET Tasks
    /\ desc \in [Tasks -> TaskDesc]
    /\ pc \in [Tasks -> Labels]
    /\ handler \in [Handlers -> Calls]
    /\ keeping \in SUBSET Tasks
    /\ age \in [Tasks -> {"due", "late", "old"}]
    /\ alive \in [Tasks -> BOOLEAN]
    /\ servant \in [Tasks -> {"none", "running", "done", "gone"}]

\* A task in the table has its DistTask.  OnTimerKilledAbort dereferences it
\* for every entry under tasks_mutex_ alone, while handlers move it out under
\* the task's own mutex: only the order of WaitForTask's two sections keeps the
\* pointer from being null.
TasksHaveTheirObject == \A t \in tasks : desc[t].task

\* A handler told OK has a DistTask whose output was written, also when two
\* handlers wait for one task and a timer clears it: the auto-reset event lets
\* one of them through, and the other does not find a moved-out pointer.
ResultsAreHandedOver ==
    \A h \in Handlers :
        handler[h].pc = "ok" => handler[h].result \notin {"null", "unwritten"}

\* Free has been called for the grant before the client is told, on every way
\* out of PerformTask (aborted before or during Get, refused by the servant,
\* given up, done) but the exception of TryUnpackFiles, which hands the client
\* the output no servant wrote.  That the call reaches the scheduler is not
\* claimed: see GrantsAreLetGo.
GrantsReturned ==
    \A t \in Tasks :
        /\ desc[t].state = "Done" => desc[t].grant # "held"
        /\ desc[t].grant = "left" => desc[t].output = "not run"

\* A task whose thread was started is completed, also when no grant ever comes
\* or the servant never tells a result: the start deadline ends the wait for a
\* grant.  The one exception is a servant that never answers FreeServantTask.
TasksEnd ==
    \A t \in Tasks :
        pc[t] = "perform" ~> desc[t].state = "Done" \/ [](pc[t] = "free")

\* A grant that is never given back, because Free's call was dropped, an
\* exception passed it by, or FreeServantTask hangs before it, is in the end no
\* longer kept alive, so that it expires at the scheduler: OnTimerKeepAlive
\* leaves out what is done or aborted, and OnTimerTimeoutAbort aborts whatever
\* is late, in any state.
GrantsAreLetGo == \A t \in Tasks : <>[](t \notin keeping)

\* A completed task leaves the table, also when nobody waits for it.
EndedTasksLeave == \A t \in Tasks : desc[t].state = "Done" ~> t \notin tasks

\* A thread that is told that its task is running asks again (the comment in
\* WaitServantTask: running, wait again).
RunningTasksAreAwaited ==
    [][\A t \in Tasks : AnsweredRunning(t) => desc'[t].retries > 0]_vars
=============================================================================
