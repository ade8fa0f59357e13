--------------------------- MODULE ExecutorProofs ---------------------------
(***************************************************************************)
(* Safety of Executor for every number of processes, tasks, references,    *)
(* grants and handler threads, every limit and every size of the pool.     *)
(* The last part, about results, is for a kernel that does not reuse the   *)
(* pid of a task (ReusePids = FALSE): with reuse it does not hold.         *)
(***************************************************************************)
EXTENDS Executor, FiniteSetTheorems, TLAPS

Child == [of : Ids, stage : {"forked", "grouped", "dead"}]

ExitRecord == [pid : Pids, of : Ids, stage : {"queued", "found", "completed"},
               target : Ids]

WaiterState ==
    [pc : {"loop", "acquire", "check", "wait", "start", "exited", "terminated"},
     pid : Pids \cup {0}, of : Ids \cup {0}]

WaitState == [pc : {"idle", "found", "blocked", "done"}, id : Ids \cup {0}]

\* The waiter has reaped a process and not handed it to the pool.
Reaped == waiter.pc \in {"start", "terminated"}

\* The types of the fields TypeOK does not speak of, and what orders ids,
\* references and Stop.
Types ==
    /\ TypeOK
    /\ children \in [DOMAIN children -> Child]
    /\ exits \subseteq ExitRecord
    /\ waiter \in WaiterState
    /\ Reaped => waiter.pid \in Pids /\ waiter.of \in DOMAIN descs
    /\ waits \in [Waiters -> WaitState]
    /\ \A id \in DOMAIN descs : id < next_task_id
    /\ \A id \in table : descs[id].ref_count >= 1
    /\ queueing # NoGrant => next_task_id \in Ids
    /\ exiting <=> stop # "no"

\* A task's process is in one place: unreaped, with the waiter, or with an
\* OnExitTask.  (When pids are not reused, it has the pid in its TaskDesc.)
OnePlace ==
    /\ \A p, q \in DOMAIN children : children[p].of = children[q].of => p = q
    /\ \A p \in DOMAIN children : \A e \in exits : e.of # children[p].of
    /\ Reaped => /\ \A p \in DOMAIN children : children[p].of # waiter.of
                 /\ \A e \in exits : e.of # waiter.of
    /\ ReusePids \/ \A p \in DOMAIN children : descs[children[p].of].pid = p

Queued == {e \in exits : e.stage = "queued"}

\* Processes, exits and slots.
Slots ==
    /\ IsFiniteSet(DOMAIN children)
    /\ IsFiniteSet(exits)
    /\ SlotsExact
    /\ running_tasks <= MaxConcurrency

\* Before Stop every unreaped process is announced to the waiter once: by the
\* semaphore, or by a pass the waiter has taken and not used.
Semaphore ==
    ~exiting => semaphore + (IF waiter.pc \in {"check", "wait"} THEN 1 ELSE 0)
                  = Cardinality(DOMAIN children)

\* The invariant that is preserved by every step.
IInv == Types /\ OnePlace /\ Slots /\ Semaphore

\* Without reuse of pids, a pid stands for one task, and how far a task is, is
\* where its process or its OnExitTask is.
PidsIdentify ==
    /\ \A i, j \in DOMAIN descs : descs[i].pid = descs[j].pid => i = j
    /\ \A p \in DOMAIN children :
          descs[children[p].of].pid = p /\ descs[children[p].of].stage = "running"
    /\ Reaped => /\ descs[waiter.of].pid = waiter.pid
                 /\ descs[waiter.of].stage = "running"
    /\ \A e \in exits :
          /\ descs[e.of].pid = e.pid
          /\ e.stage = "queued" => descs[e.of].stage = "running"
          /\ e.stage = "found" => e.target = e.of /\ descs[e.of].stage = "exited"
          /\ e.stage = "completed" =>
                e.target = e.of /\ descs[e.of].stage = "completed"
    /\ \A e, f \in exits : e.of = f.of => e = f

\* What has been announced stays so.
Announced ==
    /\ \A id \in DOMAIN descs : descs[id].event => descs[id].stage = "announced"
    /\ \A w \in Waiters :
          waits[w].pc = "done" => descs[waits[w].id].stage = "announced"

ResultInv == PidsIdentify /\ Announced

-----------------------------------------------------------------------------
(***************************************************************************)
(* Frames.                                                                 *)
(***************************************************************************)

\* The empty executor satisfies the inductive invariant.
LEMMA InitIInv == Init => IInv
<1> SUFFICES ASSUME Init PROVE IInv
  OBVIOUS
<1>1. DOMAIN children = {} /\ exits = {} /\ DOMAIN descs = {} /\ table = {}
  BY DEF Init
<1>2. TypeOK
  <2>1. descs \in [DOMAIN descs -> TaskDesc]
    BY <1>1 DEF Init
  <2>2. next_task_id \in 1 .. MaxTasks + 1
    BY LimitsAssumption DEF Init
  <2>3. \A w \in Waiters : waits[w].pc = "idle"
    BY DEF Init
  <2> QED
    BY <1>1, <2>1, <2>2, <2>3 DEF Init, TypeOK
<1>3. Types
  <2>1. waiter \in WaiterState /\ ~Reaped
    BY DEF Init, WaiterState, Reaped
  <2>2. waits \in [Waiters -> WaitState]
    BY DEF Init, WaitState
  <2>3. children \in [DOMAIN children -> Child]
    BY <1>1 DEF Init
  <2> QED
    BY <1>1, <1>2, <2>1, <2>2, <2>3 DEF Init, Types
<1>4. OnePlace
  BY <1>1 DEF Init, OnePlace, Reaped
<1>5. Slots /\ Semaphore
  <2>1. {e \in exits : e.stage = "queued"} = {}
    BY <1>1
  <2> QED
    BY <1>1, <2>1, FS_EmptySet, LimitsAssumption DEF Init, Slots, Semaphore, SlotsExact
<1> QED
  BY <1>3, <1>4, <1>5 DEF IInv

\* A step that starts, reaps and hands on no process.
LEMMA ProcessFrame ==
    ASSUME IInv,
           UNCHANGED <<running_tasks, waiter, exits>>,
           DOMAIN children' = DOMAIN children,
           \A p \in DOMAIN children : children'[p].of = children[p].of,
           \A id \in DOMAIN descs : descs'[id].pid = descs[id].pid,
           exiting' \/ UNCHANGED <<exiting, semaphore>>
    PROVE  OnePlace' /\ Slots' /\ Semaphore'
<1>1. OnePlace'
  <2>1. \A p \in DOMAIN children : children[p].of \in DOMAIN descs
    BY DEF IInv, Types, TypeOK
  <2> QED
    BY <2>1 DEF IInv, OnePlace, Reaped
<1>2. Slots'
  BY DEF IInv, Slots, SlotsExact
<1>3. Semaphore'
  BY DEF IInv, Semaphore
<1> QED
  BY <1>1, <1>2, <1>3

\* A step after which every task object is well-typed, and that touches none of
\* the variables that name tasks.
LEMMA DescsFrame ==
    ASSUME Types, NEW D,
           descs' = D, DOMAIN D = DOMAIN descs, D \in [DOMAIN D -> TaskDesc],
           table' \subseteq table, freed' \subseteq DOMAIN descs,
           \A id \in table' : D[id].ref_count >= 1,
           exits' \subseteq ExitRecord,
           \A e \in exits' : {e.of, e.target} \subseteq DOMAIN descs,
           running_tasks' \in Nat,
           waits' \in [Waiters -> WaitState],
           \A w \in Waiters : waits'[w].pc # "idle" => waits'[w].id \in DOMAIN descs,
           UNCHANGED <<next_task_id, semaphore, exiting, queueing, stop, joined,
                       waiter, children>>
    PROVE  Types'
<1>1. \A e \in exits' : e.pid \in Pids /\ e.stage \in {"queued", "found", "completed"}
  BY DEF ExitRecord
<1>2. \A w \in Waiters : waits'[w].pc \in {"idle", "found", "blocked", "done"}
  BY DEF WaitState
<1>3. TypeOK'
  BY <1>1, <1>2 DEF Types, TypeOK
<1> QED
  BY <1>3 DEF Types, Reaped

\* A step of the scalar variables alone.
LEMMA ScalarFrame ==
    ASSUME Types,
           next_task_id' \in 1 .. MaxTasks + 1, next_task_id' >= next_task_id,
           semaphore' \in Nat, exiting' \in BOOLEAN, joined' \in BOOLEAN,
           queueing' \in Grants \cup {NoGrant}, stop' \in {"no", "called", "done"},
           queueing' # NoGrant => next_task_id' \in Ids,
           exiting' <=> stop' # "no",
           table' \subseteq table, freed' \subseteq DOMAIN descs,
           children' \in [DOMAIN children -> Child],
           \A p \in DOMAIN children : children'[p].of = children[p].of,
           UNCHANGED <<descs, running_tasks, waiter, exits, waits>>
    PROVE  Types'
<1>1. DOMAIN children' = DOMAIN children
  OBVIOUS
<1>2. \A p \in DOMAIN children : children'[p].stage \in {"forked", "grouped", "dead"}
  BY DEF Child
<1>3. TypeOK'
  BY <1>1, <1>2 DEF Types, TypeOK
<1>4. \A id \in DOMAIN descs : id < next_task_id'
  BY DEF Types, TypeOK, Ids
<1> QED
  BY <1>1, <1>3, <1>4 DEF Types, Reaped

\* A signal changes no more than the stage of a process.
LEMMA SignalledTypes ==
    ASSUME Types, NEW P
    PROVE  /\ Signalled(P) \in [DOMAIN children -> Child]
           /\ \A p \in DOMAIN children : Signalled(P)[p].of = children[p].of
<1> SUFFICES ASSUME NEW p \in DOMAIN children
             PROVE  Signalled(P)[p] \in Child /\ Signalled(P)[p].of = children[p].of
  BY DEF Signalled
<1>1. children[p] \in Child
  BY DEF Types
<1> QED
  BY <1>1 DEF Signalled, Child

\* The kernel's steps on a process.
LEMMA KernelIInv ==
    ASSUME IInv, NEW pid \in DOMAIN children, SetPgid(pid) \/ ChildExits(pid)
    PROVE  IInv'
<1>1. PICK s \in {"grouped", "dead"} :
         children' = [children EXCEPT ![pid].stage = s]
  BY DEF SetPgid, ChildExits
<1>2. children[pid] \in Child
  BY DEF IInv, Types
<1>3. /\ children' \in [DOMAIN children -> Child]
      /\ \A p \in DOMAIN children : children'[p].of = children[p].of
  BY <1>1, <1>2 DEF IInv, Types, Child
<1>4. UNCHANGED <<descs, table, next_task_id, running_tasks, semaphore, exiting,
                  queueing, freed, stop, joined, waiter, exits, waits>>
  BY DEF SetPgid, ChildExits
<1>5. Types'
  BY <1>3, <1>4, ScalarFrame DEF IInv, Types, TypeOK
<1>6. OnePlace' /\ Slots' /\ Semaphore'
  BY <1>3, <1>4, ProcessFrame
<1> QED
  BY <1>5, <1>6 DEF IInv

\* TryQueueTask's first half and a refusal: a slot is neither taken nor given.
LEMMA TryQueueTaskIInv ==
    ASSUME IInv, NEW grant \in Grants, TryQueueTask(grant)
    PROVE  IInv'
<1>1. Types'
  BY ScalarFrame DEF IInv, Types, TypeOK, TryQueueTask
<1>2. OnePlace' /\ Slots' /\ Semaphore'
  BY ProcessFrame DEF TryQueueTask
<1> QED
  BY <1>1, <1>2 DEF IInv

\* A refusal gives the slot back and uses up an id.
LEMMA RefuseTaskIInv ==
    ASSUME IInv, NEW low_memory \in BOOLEAN, RefuseTask(low_memory)
    PROVE  IInv'
<1>1. next_task_id' \in 1 .. MaxTasks + 1 /\ next_task_id' >= next_task_id
  BY LimitsAssumption DEF IInv, Types, TypeOK, Ids, RefuseTask, Unlocked
<1>2. Types'
  BY <1>1, ScalarFrame DEF IInv, Types, TypeOK, RefuseTask
<1>3. OnePlace' /\ Slots' /\ Semaphore'
  BY ProcessFrame DEF RefuseTask
<1> QED
  BY <1>2, <1>3 DEF IInv

\* Killing, cleaning, stopping and joining.
LEMMA KillFreedTaskIInv ==
    ASSUME IInv, NEW id \in freed, KillFreedTask(id)
    PROVE  IInv'
<1>1. PICK P : P = KillTask({id})
  OBVIOUS
<1>2. /\ children' \in [DOMAIN children -> Child]
      /\ \A p \in DOMAIN children : children'[p].of = children[p].of
  BY <1>1, SignalledTypes DEF KillFreedTask, IInv
<1>3. Types'
  <2>1. freed' \subseteq DOMAIN descs /\ table' \subseteq table
    BY DEF IInv, Types, TypeOK, KillFreedTask
  <2>2. /\ next_task_id' \in 1 .. MaxTasks + 1 /\ next_task_id' >= next_task_id
        /\ queueing' # NoGrant => next_task_id' \in Ids
    BY DEF IInv, Types, TypeOK, KillFreedTask
  <2> QED
    BY <1>2, <2>1, <2>2, ScalarFrame DEF IInv, Types, TypeOK, KillFreedTask
<1>4. OnePlace' /\ Slots' /\ Semaphore'
  BY <1>2, ProcessFrame DEF KillFreedTask
<1> QED
  BY <1>3, <1>4 DEF IInv

\* KillExpiredTasks signals and changes no table.
LEMMA KillExpiredTasksIInv ==
    ASSUME IInv, NEW expired \in SUBSET Grants, KillExpiredTasks(expired)
    PROVE  IInv'
<1>1. PICK P : P = KillTask({id \in table : descs[id].grant \in expired})
  OBVIOUS
<1>2. /\ children' \in [DOMAIN children -> Child]
      /\ \A p \in DOMAIN children : children'[p].of = children[p].of
  BY <1>1, SignalledTypes DEF KillExpiredTasks, IInv
<1>3. Types'
  BY <1>2, ScalarFrame DEF IInv, Types, TypeOK, KillExpiredTasks
<1>4. OnePlace' /\ Slots' /\ Semaphore'
  BY <1>2, ProcessFrame DEF KillExpiredTasks
<1> QED
  BY <1>3, <1>4 DEF IInv

\* The timer takes old tasks from the table, not from the count.
LEMMA OnTimerCleanIInv ==
    ASSUME IInv, OnTimerClean
    PROVE  IInv'
<1>1. Types'
  BY ScalarFrame DEF IInv, Types, TypeOK, OnTimerClean
<1>2. OnePlace' /\ Slots' /\ Semaphore'
  BY ProcessFrame DEF OnTimerClean
<1> QED
  BY <1>1, <1>2 DEF IInv

\* Stop sets the flag, signals and releases; Join only waits.
LEMMA StopIInv ==
    ASSUME IInv, StopCalled \/ StopKills \/ Join
    PROVE  IInv'
<1>1. CASE StopCalled
  <2>1. Types'
    BY <1>1, ScalarFrame DEF IInv, Types, TypeOK, StopCalled
  <2>2. OnePlace' /\ Slots' /\ Semaphore'
    BY <1>1, ProcessFrame DEF StopCalled
  <2> QED
    BY <2>1, <2>2 DEF IInv
<1>2. CASE StopKills
  <2>1. PICK P : P = KillTask(table)
    OBVIOUS
  <2>2. /\ children' \in [DOMAIN children -> Child]
        /\ \A p \in DOMAIN children : children'[p].of = children[p].of
    BY <1>2, <2>1, SignalledTypes DEF StopKills, IInv
  <2>3. semaphore' \in Nat
    BY <1>2 DEF StopKills, StopReleases, IInv, Types, TypeOK
  <2>4. exiting' = exiting /\ exiting
    BY <1>2 DEF StopKills, IInv, Types, TypeOK
  <2>5. Types'
    BY <1>2, <2>2, <2>3, <2>4, ScalarFrame DEF IInv, Types, TypeOK, StopKills
  <2>6. OnePlace' /\ Slots' /\ Semaphore'
    BY <1>2, <2>2, <2>4, ProcessFrame DEF StopKills
  <2> QED
    BY <2>5, <2>6 DEF IInv
<1>3. CASE Join
  <2>1. Types'
    BY <1>3, ScalarFrame DEF IInv, Types, TypeOK, Join
  <2>2. OnePlace' /\ Slots' /\ Semaphore'
    BY <1>3, ProcessFrame DEF Join
  <2> QED
    BY <2>1, <2>2 DEF IInv
<1> QED
  BY <1>1, <1>2, <1>3

-----------------------------------------------------------------------------
(***************************************************************************)
(* References, waits and the passing of time.                              *)
(***************************************************************************)

\* One task object is replaced by another.
LEMMA OneDescReplaced ==
    ASSUME Types, NEW id \in DOMAIN descs, NEW d \in TaskDesc,
           d.ref_count >= 1 \/ id \notin table'
    PROVE  LET D == [descs EXCEPT ![id] = d]
           IN  /\ DOMAIN D = DOMAIN descs
               /\ D \in [DOMAIN D -> TaskDesc]
               /\ table' \subseteq table => \A i \in table' : D[i].ref_count >= 1
  BY DEF Types, TypeOK

\* TryAddTaskRef and FreeTask count references.
LEMMA TryAddTaskRefIInv ==
    ASSUME IInv, NEW id \in table, TryAddTaskRef(id)
    PROVE  IInv'
<1>1. id \in DOMAIN descs /\ descs[id] \in TaskDesc /\ descs[id].ref_count >= 1
  BY DEF IInv, Types, TypeOK
<1>2. PICK d : d = [descs[id] EXCEPT !.ref_count = @ + 1]
  OBVIOUS
<1>3. d \in TaskDesc /\ d.ref_count >= 1 /\ d.pid = descs[id].pid
  BY <1>1, <1>2 DEF TaskDesc
<1>4. descs' = [descs EXCEPT ![id] = d]
  BY <1>2 DEF TryAddTaskRef
<1>5. Types'
  BY <1>1, <1>3, <1>4, OneDescReplaced, DescsFrame DEF IInv, Types, TypeOK, TryAddTaskRef
<1>6. OnePlace' /\ Slots' /\ Semaphore'
  BY <1>1, <1>3, <1>4, ProcessFrame DEF TryAddTaskRef
<1> QED
  BY <1>5, <1>6 DEF IInv

\* FreeTask drops a reference, and the entry with the last one.
LEMMA FreeTaskIInv ==
    ASSUME IInv, NEW id \in table, FreeTask(id)
    PROVE  IInv'
<1>1. /\ id \in DOMAIN descs /\ descs[id] \in TaskDesc /\ descs[id].ref_count >= 1
      /\ descs[id].ref_count \in Nat
  BY DEF IInv, Types, TypeOK, TaskDesc
<1>2. PICK d : d = [descs[id] EXCEPT !.ref_count = @ - 1]
  OBVIOUS
<1>3. d \in TaskDesc /\ d.ref_count = descs[id].ref_count - 1
      /\ d.pid = descs[id].pid
  BY <1>1, <1>2 DEF TaskDesc
<1>4. descs' = [descs EXCEPT ![id] = d]
  BY <1>2 DEF FreeTask
<1>5. d.ref_count >= 1 \/ id \notin table'
  BY <1>1, <1>3 DEF FreeTask, ErasedIfLast
<1>6. table' \subseteq table /\ freed' \subseteq DOMAIN descs
  BY DEF FreeTask, ErasedIfLast, IInv, Types, TypeOK
<1>7. Types'
  BY <1>1, <1>3, <1>4, <1>5, <1>6, OneDescReplaced, DescsFrame
     DEF IInv, Types, TypeOK, FreeTask
<1>8. OnePlace' /\ Slots' /\ Semaphore'
  BY <1>1, <1>3, <1>4, ProcessFrame DEF FreeTask
<1> QED
  BY <1>7, <1>8 DEF IInv

\* A minute passes.
LEMMA AgeIInv ==
    ASSUME IInv, NEW id \in DOMAIN descs, Age(id)
    PROVE  IInv'
<1>1. /\ descs[id] \in TaskDesc
      /\ id \in table => descs[id].ref_count >= 1
  BY DEF IInv, Types, TypeOK
<1>2. PICK d : d = [descs[id] EXCEPT !.old = TRUE]
  OBVIOUS
<1>3. d \in TaskDesc /\ d.ref_count = descs[id].ref_count /\ d.pid = descs[id].pid
  BY <1>1, <1>2 DEF TaskDesc
<1>4. descs' = [descs EXCEPT ![id] = d]
  BY <1>2 DEF Age
<1>5. UNCHANGED <<table, next_task_id, running_tasks, semaphore, exiting,
                  queueing, freed, stop, joined, waiter, exits, waits, children>>
  BY DEF Age
<1>6. d.ref_count >= 1 \/ id \notin table'
  BY <1>1, <1>3, <1>5
<1>7. Types'
  BY <1>3, <1>4, <1>5, <1>6, OneDescReplaced, DescsFrame DEF IInv, Types, TypeOK
<1>8. OnePlace' /\ Slots' /\ Semaphore'
  BY <1>3, <1>4, <1>5, ProcessFrame
<1> QED
  BY <1>7, <1>8 DEF IInv

\* A handler's wait: found, blocked, done or timed out.
LEMMA WaitIInv ==
    ASSUME IInv, NEW w \in Waiters, Wait(w)
    PROVE  IInv'
<1>1. waits[w] \in WaitState
  BY DEF IInv, Types
<1>2. /\ waits' \in [Waiters -> WaitState]
      /\ \A v \in Waiters : waits'[v].pc # "idle" => waits'[v].id \in DOMAIN descs
  <2>1. CASE \E id \in table : WaitForTask(w, id)
    <3>1. PICK id \in table : WaitForTask(w, id)
      BY <2>1
    <3>2. id \in DOMAIN descs /\ id \in Ids
      BY DEF IInv, Types, TypeOK
    <3>3. waits' = [waits EXCEPT ![w] = [pc |-> "found", id |-> id]]
      BY <3>1 DEF WaitForTask
    <3> QED
      BY <3>2, <3>3 DEF IInv, Types, TypeOK, WaitState
  <2>2. CASE WaitBlocks(w) \/ WaitDone(w) \/ WaitReturns(w)
    <3>1. PICK pc \in {"blocked", "done", "idle"} :
             waits' = [waits EXCEPT ![w].pc = pc]
      BY <2>2 DEF WaitBlocks, WaitDone, WaitReturns
    <3>2. waits[w].pc # "idle"
      BY <2>2 DEF WaitBlocks, WaitDone, WaitReturns
    <3> QED
      BY <1>1, <3>1, <3>2 DEF IInv, Types, TypeOK, WaitState
  <2> QED
    BY <2>1, <2>2 DEF Wait
<1>3. UNCHANGED <<table, next_task_id, running_tasks, semaphore, exiting,
                  queueing, freed, stop, joined, waiter, exits, children>>
  BY DEF Wait, WaitForTask, WaitBlocks, WaitDone, WaitReturns
<1>4. CASE WaitDone(w)
  <2>1. PICK id : id = waits[w].id
    OBVIOUS
  <2>2. /\ id \in DOMAIN descs /\ descs[id] \in TaskDesc
        /\ id \in table => descs[id].ref_count >= 1
    BY <1>4, <2>1 DEF WaitDone, IInv, Types, TypeOK
  <2>3. PICK d : d = [descs[id] EXCEPT !.event = FALSE]
    OBVIOUS
  <2>4. d \in TaskDesc /\ d.ref_count = descs[id].ref_count /\ d.pid = descs[id].pid
    BY <2>2, <2>3 DEF TaskDesc
  <2>5. descs' = [descs EXCEPT ![id] = d]
    BY <1>4, <2>1, <2>3 DEF WaitDone
  <2>6. Types'
    BY <1>2, <1>3, <2>2, <2>4, <2>5, OneDescReplaced, DescsFrame
       DEF IInv, Types, TypeOK
  <2> QED
    BY <1>3, <2>2, <2>4, <2>5, <2>6, ProcessFrame DEF IInv
<1>5. CASE ~WaitDone(w)
  <2>1. descs' = descs
    BY <1>5 DEF Wait, WaitForTask, WaitBlocks, WaitReturns
  <2>2. Types'
    BY <1>2, <1>3, <2>1, DescsFrame DEF IInv, Types, TypeOK
  <2> QED
    BY <1>3, <2>1, <2>2, ProcessFrame DEF IInv
<1> QED
  BY <1>4, <1>5

-----------------------------------------------------------------------------
(***************************************************************************)
(* A process is started, reaped, handed to the pool and counted out.       *)
(***************************************************************************)

\* The pid fork returns is not the pid of an unreaped process.
LEMMA FreshPidIsFree ==
    ASSUME IInv, NEW pid \in FreshPids
    PROVE  pid \in Pids /\ pid \notin DOMAIN children
<1>1. CASE ReusePids
  BY <1>1 DEF FreshPids
<1>2. CASE ~ReusePids
  <2>1. \A p \in DOMAIN children :
           children[p].of \in DOMAIN descs /\ descs[children[p].of].pid = p
    BY <1>2 DEF IInv, OnePlace, Types, TypeOK
  <2> QED
    BY <1>2, <2>1 DEF FreshPids
<1> QED
  BY <1>1, <1>2

\* A started process takes a slot, a new id and a pass of the waiter.
LEMMA StartTaskIInv ==
    ASSUME IInv, NEW pid \in Pids, StartTask(pid)
    PROVE  IInv'
<1> DEFINE n == next_task_id
           d == [pid |-> pid, grant |-> queueing, ref_count |-> 1,
                 event |-> FALSE, stage |-> "running", old |-> FALSE]
           c == [of |-> n, stage |-> "forked"]
<1>1. /\ n \in Ids /\ n \in Nat /\ n \notin DOMAIN descs /\ queueing \in Grants
      /\ n + 1 \in 1 .. MaxTasks + 1
  BY LimitsAssumption DEF StartTask, Unlocked, IInv, Types, TypeOK, Ids
<1>2. pid \notin DOMAIN children
  BY FreshPidIsFree DEF StartTask
<1>3. d \in TaskDesc
  BY <1>1 DEF TaskDesc
<1>4. c \in Child
  BY <1>1 DEF Child
<1>5. d.pid = pid /\ d.ref_count = 1 /\ c.of = n /\ c.stage = "forked"
  OBVIOUS
<1>6. /\ descs' = [id \in DOMAIN descs \cup {n} |-> IF id = n THEN d ELSE descs[id]]
      /\ children' = [p \in DOMAIN children \cup {pid} |->
                         IF p = pid THEN c ELSE children[p]]
      /\ table' = table \cup {n}
      /\ next_task_id' = n + 1 /\ queueing' = NoGrant
      /\ running_tasks' = running_tasks + 1 /\ semaphore' = semaphore + 1
      /\ ~LimitReached
      /\ UNCHANGED <<exiting, freed, stop, joined, waiter, exits, waits>>
  BY DEF StartTask, Release
<1> HIDE DEF d, c
<1>7. /\ DOMAIN descs' = DOMAIN descs \cup {n} /\ descs'[n] = d
      /\ \A id \in DOMAIN descs : descs'[id] = descs[id]
      /\ DOMAIN children' = DOMAIN children \cup {pid} /\ children'[pid] = c
      /\ \A p \in DOMAIN children : children'[p] = children[p]
  BY <1>1, <1>2, <1>6
<1>8. Types'
  <2>1. descs' \in [DOMAIN descs' -> TaskDesc]
    BY <1>3, <1>6, <1>7 DEF IInv, Types, TypeOK
  <2>2. children' \in [DOMAIN children' -> Child]
    BY <1>4, <1>6, <1>7 DEF IInv, Types, TypeOK
  <2>3. \A id \in table' : descs'[id].ref_count >= 1
    BY <1>5, <1>6, <1>7 DEF IInv, Types, TypeOK
  <2>4. \A id \in DOMAIN descs' : id < next_task_id'
    BY <1>1, <1>6, <1>7 DEF IInv, Types, TypeOK, Ids
  <2>5. /\ DOMAIN descs' \subseteq Ids /\ table' \subseteq DOMAIN descs'
        /\ freed' \subseteq DOMAIN descs' /\ DOMAIN children' \subseteq Pids
        /\ \A p \in DOMAIN children' :
              /\ children'[p].of \in DOMAIN descs'
              /\ children'[p].stage \in {"forked", "grouped", "dead"}
    BY <1>1, <1>5, <1>6, <1>7 DEF IInv, Types, TypeOK
  <2>6. next_task_id' \in 1 .. MaxTasks + 1 /\ running_tasks' \in Nat /\ semaphore' \in Nat
    BY <1>1, <1>6 DEF IInv, Types, TypeOK
  <2>7. TypeOK'
    <3>1. /\ \A e \in exits' : /\ e.pid \in Pids
                               /\ {e.of, e.target} \subseteq DOMAIN descs'
                               /\ e.stage \in {"queued", "found", "completed"}
          /\ \A w \in Waiters :
                /\ waits'[w].pc \in {"idle", "found", "blocked", "done"}
                /\ waits'[w].pc # "idle" => waits'[w].id \in DOMAIN descs'
      BY <1>6, <1>7 DEF IInv, Types, TypeOK
    <3>2. /\ waiter' = waiter /\ exiting' = exiting /\ stop' = stop
          /\ joined' = joined /\ queueing' = NoGrant
      BY <1>6
    <3> QED
      BY <2>1, <2>5, <2>6, <3>1, <3>2 DEF IInv, Types, TypeOK
  <2> QED
    BY <1>6, <1>7, <2>2, <2>3, <2>4, <2>7 DEF IInv, Types, Reaped
<1>9. OnePlace'
  <2>1. \A p \in DOMAIN children : children[p].of \in DOMAIN descs /\ children[p].of # n
    BY <1>1 DEF IInv, Types, TypeOK
  <2>2. \A e \in exits : e.of # n
    BY <1>1 DEF IInv, Types, TypeOK
  <2>3. Reaped => waiter.of # n
    BY <1>1 DEF IInv, Types
  <2> QED
    BY <1>5, <1>6, <1>7, <2>1, <2>2, <2>3 DEF IInv, OnePlace, Reaped
<1>10. /\ IsFiniteSet(DOMAIN children')
       /\ Cardinality(DOMAIN children') = Cardinality(DOMAIN children) + 1
  BY <1>2, <1>7, FS_AddElement DEF IInv, Slots
<1>11. Cardinality(DOMAIN children) \in Nat /\ Cardinality(Queued) \in Nat
  BY FS_CardinalityType, FS_Subset DEF IInv, Slots, Queued
<1>12. Slots'
  <2>1. SlotsExact'
    BY <1>6, <1>10, <1>11 DEF IInv, Slots, SlotsExact, Queued
  <2>2. running_tasks' <= MaxConcurrency
    BY <1>6, LimitsAssumption DEF LimitReached, IInv, Types, TypeOK
  <2> QED
    BY <1>6, <1>10, <2>1, <2>2 DEF IInv, Slots
<1>13. Semaphore'
  BY <1>6, <1>10, <1>11 DEF IInv, Types, TypeOK, Semaphore
<1> QED
  BY <1>8, <1>9, <1>12, <1>13 DEF IInv

\* The waiter's tests, its pass, and the end of its loop.
LEMMA WaiterMovesIInv ==
    ASSUME IInv, WaiterTests \/ WaiterAcquires \/ WaiterFindsNone
    PROVE  IInv'
<1>1. waiter \in WaiterState
  BY DEF IInv, Types
<1>2. PICK pc \in {"acquire", "check", "wait", "exited"} :
         waiter' = [waiter EXCEPT !.pc = pc]
  BY DEF WaiterTests, WaiterAcquires, WaiterFindsNone
<1>3. waiter' \in WaiterState /\ waiter'.pc = pc /\ ~Reaped'
  BY <1>1, <1>2 DEF WaiterState, Reaped
<1>4. UNCHANGED <<descs, table, next_task_id, running_tasks, exiting,
                  queueing, freed, stop, joined, exits, waits, children>>
  BY DEF WaiterTests, WaiterAcquires, WaiterFindsNone
<1>5. ~Reaped
  BY DEF WaiterTests, WaiterAcquires, WaiterFindsNone, Reaped
<1>6. semaphore' \in Nat
  BY DEF WaiterTests, WaiterAcquires, WaiterFindsNone, IInv, Types, TypeOK
<1>7. Types'
  <2>1. TypeOK'
    BY <1>3, <1>4, <1>6 DEF IInv, Types, TypeOK
  <2> QED
    BY <1>3, <1>4, <2>1 DEF IInv, Types
<1>8. OnePlace'
  BY <1>3, <1>4 DEF IInv, OnePlace
<1>9. Slots'
  BY <1>3, <1>4, <1>5 DEF IInv, Slots, SlotsExact, Reaped
<1>10. Semaphore'
  <2> SUFFICES ASSUME ~exiting
               PROVE  semaphore' + (IF waiter'.pc \in {"check", "wait"} THEN 1 ELSE 0)
                        = Cardinality(DOMAIN children)
    BY <1>4 DEF Semaphore
  <2>1. semaphore + (IF waiter.pc \in {"check", "wait"} THEN 1 ELSE 0)
          = Cardinality(DOMAIN children)
    BY DEF IInv, Semaphore
  <2>2. CASE WaiterTests
    BY <1>1, <2>1, <2>2 DEF WaiterTests, HasWork, WaiterState
  <2>3. CASE WaiterAcquires
    <3>1. waiter'.pc = "check" /\ waiter.pc = "acquire" /\ semaphore' = semaphore - 1
      BY <1>1, <2>3 DEF WaiterAcquires, WaiterState
    <3> QED
      BY <2>1, <3>1 DEF IInv, Types, TypeOK
  <2>4. CASE WaiterFindsNone
    BY <2>4 DEF WaiterFindsNone
  <2> QED
    BY <2>2, <2>3, <2>4
<1> QED
  BY <1>7, <1>8, <1>9, <1>10 DEF IInv

\* wait() hands a dead process to the waiter.
LEMMA WaiterReapsIInv ==
    ASSUME IInv, NEW pid \in DOMAIN children, WaiterReaps(pid)
    PROVE  IInv'
<1> DEFINE w == [pc |-> "start", pid |-> pid, of |-> children[pid].of]
<1>1. /\ waiter.pc = "wait"
      /\ waiter' = w
      /\ children' = [p \in DOMAIN children \ {pid} |-> children[p]]
      /\ UNCHANGED <<descs, table, next_task_id, running_tasks, semaphore, exiting,
                     queueing, freed, stop, joined, exits, waits>>
  BY DEF WaiterReaps
<1>2. pid \in Pids /\ children[pid].of \in DOMAIN descs /\ children[pid].of \in Ids
  BY DEF IInv, Types, TypeOK
<1>3. /\ w \in WaiterState /\ w.pc = "start" /\ w.pid = pid
      /\ w.of = children[pid].of
  BY <1>2 DEF WaiterState
<1> HIDE DEF w
<1>4. /\ DOMAIN children' = DOMAIN children \ {pid}
      /\ \A p \in DOMAIN children' : children'[p] = children[p]
  BY <1>1
<1>5. Reaped' /\ ~Reaped
  BY <1>1, <1>3 DEF Reaped
<1>6. Types'
  <2>1. /\ DOMAIN children' \subseteq Pids
        /\ \A p \in DOMAIN children' :
              /\ children'[p].of \in DOMAIN descs'
              /\ children'[p].stage \in {"forked", "grouped", "dead"}
    BY <1>1, <1>4 DEF IInv, Types, TypeOK
  <2>2. TypeOK'
    BY <1>1, <1>3, <2>1 DEF IInv, Types, TypeOK
  <2>3. children' \in [DOMAIN children' -> Child]
    BY <1>1, <1>4 DEF IInv, Types
  <2> QED
    BY <1>1, <1>2, <1>3, <2>2, <2>3 DEF IInv, Types
<1>7. OnePlace'
  BY <1>1, <1>3, <1>4 DEF IInv, OnePlace, Reaped
<1>8. /\ IsFiniteSet(DOMAIN children')
      /\ Cardinality(DOMAIN children') = Cardinality(DOMAIN children) - 1
      /\ Cardinality(DOMAIN children) \in Nat
  BY <1>4, FS_RemoveElement, FS_CardinalityType DEF IInv, Slots
<1>9. Cardinality(Queued) \in Nat
  BY FS_CardinalityType, FS_Subset DEF IInv, Slots, Queued
<1>10. Slots'
  BY <1>1, <1>3, <1>8, <1>9 DEF IInv, Slots, SlotsExact, Queued
<1>11. Semaphore'
  BY <1>1, <1>3, <1>8 DEF IInv, Semaphore, Types, TypeOK
<1> QED
  BY <1>6, <1>7, <1>10, <1>11 DEF IInv

\* The waiter hands the process on, or dies because the pool is full.
LEMMA WaiterStartsIInv ==
    ASSUME IInv, WaiterStarts
    PROVE  IInv'
<1> DEFINE x == [pid |-> waiter.pid, of |-> waiter.of, stage |-> "queued",
                 target |-> waiter.of]
<1>1. /\ waiter.pc = "start" /\ Reaped /\ waiter \in WaiterState
      /\ waiter.pid \in Pids /\ waiter.of \in DOMAIN descs /\ waiter.of \in Ids
  BY DEF WaiterStarts, Reaped, IInv, Types, TypeOK
<1>2. UNCHANGED <<descs, table, next_task_id, running_tasks, semaphore, exiting,
                  queueing, freed, stop, joined, waits, children>>
  BY DEF WaiterStarts
<1>3. /\ x \in ExitRecord /\ x.of = waiter.of /\ x.stage = "queued"
      /\ x.target = waiter.of /\ x.pid = waiter.pid
  BY <1>1 DEF ExitRecord
<1>4. CASE exits' = exits /\ waiter' = [waiter EXCEPT !.pc = "terminated"]
  <2>1. /\ waiter' \in WaiterState /\ waiter'.pc = "terminated"
        /\ waiter'.of = waiter.of /\ waiter'.pid = waiter.pid /\ Reaped'
    BY <1>1, <1>4 DEF WaiterState, Reaped
  <2>2. TypeOK'
    BY <1>2, <1>4, <2>1 DEF IInv, Types, TypeOK
  <2>3. Types'
    BY <1>1, <1>2, <1>4, <2>1, <2>2 DEF IInv, Types
  <2>4. OnePlace' /\ Slots' /\ Semaphore'
    BY <1>1, <1>2, <1>4, <2>1 DEF IInv, OnePlace, Slots, SlotsExact, Semaphore
  <2> QED
    BY <2>3, <2>4 DEF IInv
<1>5. CASE exits' = exits \cup {x} /\ waiter' = [waiter EXCEPT !.pc = "loop"]
  <2> HIDE DEF x
  <2>1. waiter' \in WaiterState /\ waiter'.pc = "loop" /\ ~Reaped'
    BY <1>1, <1>5 DEF WaiterState, Reaped
  <2>2. TypeOK'
    <3>1. \A e \in exits' : /\ e.pid \in Pids
                            /\ {e.of, e.target} \subseteq DOMAIN descs'
                            /\ e.stage \in {"queued", "found", "completed"}
      BY <1>1, <1>2, <1>3, <1>5 DEF IInv, Types, TypeOK
    <3> QED
      BY <1>2, <2>1, <3>1 DEF IInv, Types, TypeOK
  <2>3. Types'
    BY <1>2, <1>3, <1>5, <2>1, <2>2 DEF IInv, Types
  <2>4. OnePlace'
    BY <1>1, <1>2, <1>3, <1>5, <2>1 DEF IInv, OnePlace
  <2>5. IsFiniteSet(exits') /\ IsFiniteSet(Queued)
    BY <1>5, FS_AddElement, FS_Subset DEF IInv, Slots, Queued
  <2>6. Queued' = Queued \cup {x} /\ x \notin Queued
    BY <1>1, <1>3, <1>5 DEF Queued, IInv, OnePlace
  <2>7. Cardinality(Queued') = Cardinality(Queued) + 1 /\ Cardinality(Queued) \in Nat
    BY <2>5, <2>6, FS_AddElement, FS_CardinalityType
  <2>8. Cardinality(DOMAIN children) \in Nat
    BY FS_CardinalityType DEF IInv, Slots
  <2>9. Slots'
    BY <1>1, <1>2, <2>1, <2>5, <2>7, <2>8 DEF IInv, Slots, SlotsExact, Queued
  <2>10. Semaphore'
    BY <1>1, <1>2, <2>1 DEF IInv, Semaphore
  <2> QED
    BY <2>3, <2>4, <2>9, <2>10 DEF IInv
<1> QED
  BY <1>4, <1>5 DEF WaiterStarts

\* OnExitTask's record after a step of its callback.
LEMMA StepExits ==
    ASSUME Types, NEW e \in exits, NEW s \in {"found", "completed"},
           NEW t \in DOMAIN descs
    PROVE  /\ Step(e, s, t) \subseteq ExitRecord
           /\ \A f \in Step(e, s, t) : {f.of, f.target} \subseteq DOMAIN descs
           /\ \A f \in Step(e, s, t) : \E g \in exits : g.of = f.of
           /\ {f \in Step(e, s, t) : f.stage = "queued"} = Queued \ {e}
           /\ IsFiniteSet(exits) => IsFiniteSet(Step(e, s, t))
<1>1. PICK x : x = [e EXCEPT !.stage = s, !.target = t]
  OBVIOUS
<1>2. e \in ExitRecord /\ t \in Ids /\ e.of \in DOMAIN descs
  BY DEF Types, TypeOK
<1>3. /\ x \in ExitRecord /\ x.of = e.of /\ x.stage = s /\ x.target = t
      /\ x.pid = e.pid
  BY <1>1, <1>2 DEF ExitRecord
<1>4. Step(e, s, t) = (exits \ {e}) \cup {x}
  BY <1>1 DEF Step
<1>5. ASSUME IsFiniteSet(exits) PROVE IsFiniteSet(Step(e, s, t))
  <2>1. PICK X : X = exits \ {e}
    OBVIOUS
  <2>2. IsFiniteSet(X)
    BY <1>5, <2>1, FS_RemoveElement
  <2> QED
    BY <1>4, <2>1, <2>2, FS_AddElement
<1> QED
  BY <1>2, <1>3, <1>4, <1>5 DEF Types, TypeOK, Queued

\* The callback's steps: an exit is counted out once.
LEMMA ExitFrame ==
    ASSUME IInv, NEW e \in exits,
           UNCHANGED <<semaphore, exiting, waiter, children>>,
           IsFiniteSet(exits'),
           \A f \in exits' : \E g \in exits : g.of = f.of,
           \A id \in DOMAIN descs : descs'[id].pid = descs[id].pid,
           Queued' = Queued \ {e},
           running_tasks' = running_tasks - (IF e.stage = "queued" THEN 1 ELSE 0)
    PROVE  OnePlace' /\ Slots' /\ Semaphore' /\ running_tasks' \in Nat
<1>1. IsFiniteSet(Queued) /\ Cardinality(Queued) \in Nat
  BY FS_Subset, FS_CardinalityType DEF IInv, Slots, Queued
<1>2. /\ Cardinality(Queued') = Cardinality(Queued) - (IF e.stage = "queued" THEN 1 ELSE 0)
      /\ Cardinality(Queued') \in Nat
  <2>1. e \in Queued <=> e.stage = "queued"
    BY DEF Queued
  <2>2. /\ IsFiniteSet(Queued \ {e})
        /\ Cardinality(Queued \ {e}) = IF e \in Queued THEN Cardinality(Queued) - 1
                                        ELSE Cardinality(Queued)
    BY <1>1, FS_RemoveElement
  <2>3. Cardinality(Queued \ {e}) \in Nat
    BY <2>2, FS_CardinalityType
  <2> QED
    BY <1>1, <2>1, <2>2, <2>3
<1>3. Cardinality(DOMAIN children) \in Nat
  BY FS_CardinalityType DEF IInv, Slots
<1>4. SlotsExact'
  BY <1>1, <1>2, <1>3 DEF IInv, Slots, SlotsExact, Queued
<1>5. running_tasks' \in Nat
  BY <1>2, <1>3, <1>4 DEF SlotsExact, Queued
<1>6. Slots'
  BY <1>4, LimitsAssumption DEF IInv, Slots, Types, TypeOK
<1>7. OnePlace'
  <2>1. \A p \in DOMAIN children : children[p].of \in DOMAIN descs
    BY DEF IInv, Types, TypeOK
  <2> QED
    BY <2>1 DEF IInv, OnePlace, Reaped
<1>8. Semaphore'
  BY DEF IInv, Semaphore
<1> QED
  BY <1>5, <1>6, <1>7, <1>8

\* The callback records the exit of a task it finds, ...
LEMMA ExitFindsTaskIInv ==
    ASSUME IInv, NEW e \in exits, ExitFindsTask(e)
    PROVE  IInv'
<1>1. PICK id \in WithPid(e.pid) :
         /\ descs' = [descs EXCEPT ![id].stage = "exited", ![id].old = FALSE]
         /\ exits' = Step(e, "found", id)
  BY DEF ExitFindsTask
<1>2. id \in table /\ id \in DOMAIN descs /\ descs[id] \in TaskDesc
      /\ descs[id].ref_count >= 1
  BY DEF WithPid, IInv, Types, TypeOK
<1>3. PICK d : d = [descs[id] EXCEPT !.stage = "exited", !.old = FALSE]
  OBVIOUS
<1>4. d \in TaskDesc /\ d.ref_count = descs[id].ref_count /\ d.pid = descs[id].pid
  BY <1>2, <1>3 DEF TaskDesc
<1>5. descs' = [descs EXCEPT ![id] = d]
  BY <1>1, <1>2, <1>3
<1>6. /\ e.stage = "queued" /\ running_tasks' = running_tasks - 1
      /\ UNCHANGED <<table, next_task_id, semaphore, exiting, queueing, freed, stop,
                     joined, waiter, waits, children>>
  BY DEF ExitFindsTask
<1>7. /\ exits' \subseteq ExitRecord
      /\ \A f \in exits' : {f.of, f.target} \subseteq DOMAIN descs
      /\ \A f \in exits' : \E g \in exits : g.of = f.of
      /\ Queued' = Queued \ {e}
      /\ IsFiniteSet(exits')
  BY <1>1, <1>2, StepExits DEF IInv, Slots, Queued
<1>8. \A i \in DOMAIN descs : descs'[i].pid = descs[i].pid
  BY <1>2, <1>4, <1>5
<1>9. OnePlace' /\ Slots' /\ Semaphore' /\ running_tasks' \in Nat
  BY <1>6, <1>7, <1>8, ExitFrame
<1>10. Types'
  <2>1. PICK D : D = [descs EXCEPT ![id] = d]
    OBVIOUS
  <2>2. /\ DOMAIN D = DOMAIN descs
        /\ D \in [DOMAIN D -> TaskDesc]
        /\ \A i \in table' : D[i].ref_count >= 1
    BY <1>2, <1>4, <1>6, <2>1, OneDescReplaced DEF IInv
  <2>3. /\ freed' \subseteq DOMAIN descs
        /\ waits' \in [Waiters -> WaitState]
        /\ \A w \in Waiters : waits'[w].pc # "idle" => waits'[w].id \in DOMAIN descs
    BY <1>6 DEF IInv, Types, TypeOK
  <2> QED
    BY <1>5, <1>6, <1>7, <1>9, <2>1, <2>2, <2>3, DescsFrame DEF IInv
<1> QED
  BY <1>9, <1>10 DEF IInv

\* ... and only counts when the task is gone.
LEMMA ExitFindsNoneIInv ==
    ASSUME IInv, NEW e \in exits, ExitFindsNone(e)
    PROVE  IInv'
<1>1. /\ e.stage = "queued" /\ running_tasks' = running_tasks - 1
      /\ exits' = exits \ {e}
      /\ UNCHANGED <<descs, table, next_task_id, semaphore, exiting, queueing, freed,
                     stop, joined, waiter, waits, children>>
  BY DEF ExitFindsNone, CountedOut
<1>2. Queued' = Queued \ {e} /\ IsFiniteSet(exits')
  BY <1>1, FS_RemoveElement DEF IInv, Slots, Queued
<1>3. OnePlace' /\ Slots' /\ Semaphore' /\ running_tasks' \in Nat
  BY <1>1, <1>2, ExitFrame
<1>4. exits' \subseteq ExitRecord /\ \A f \in exits' : {f.of, f.target} \subseteq DOMAIN descs
  BY <1>1 DEF IInv, Types, TypeOK
<1>5. /\ descs \in [DOMAIN descs -> TaskDesc]
      /\ table' \subseteq table /\ freed' \subseteq DOMAIN descs
      /\ \A id \in table' : descs[id].ref_count >= 1
      /\ waits' \in [Waiters -> WaitState]
      /\ \A w \in Waiters : waits'[w].pc # "idle" => waits'[w].id \in DOMAIN descs
  BY <1>1 DEF IInv, Types, TypeOK
<1>6. Types'
  BY <1>1, <1>3, <1>4, <1>5, DescsFrame DEF IInv
<1> QED
  BY <1>3, <1>6 DEF IInv

\* OnCompleted and the event touch one task object and free the thread.
LEMMA ExitCompletesIInv ==
    ASSUME IInv, NEW e \in exits, ExitCompletes(e)
    PROVE  IInv'
<1>1. PICK id : id = e.target
  OBVIOUS
<1>2. /\ id \in DOMAIN descs /\ descs[id] \in TaskDesc
      /\ id \in table => descs[id].ref_count >= 1
  BY <1>1 DEF IInv, Types, TypeOK
<1>3. PICK d : d = [descs[id] EXCEPT !.stage = "completed"]
  OBVIOUS
<1>4. d \in TaskDesc /\ d.ref_count = descs[id].ref_count /\ d.pid = descs[id].pid
  BY <1>2, <1>3 DEF TaskDesc
<1>5. /\ descs' = [descs EXCEPT ![id] = d] /\ exits' = Step(e, "completed", id)
      /\ e.stage = "found"
      /\ UNCHANGED <<table, next_task_id, running_tasks, semaphore, exiting,
                     queueing, freed, stop, joined, waiter, waits, children>>
  BY <1>1, <1>3 DEF ExitCompletes, Completed
<1>6. /\ exits' \subseteq ExitRecord
      /\ \A f \in exits' : {f.of, f.target} \subseteq DOMAIN descs
      /\ \A f \in exits' : \E g \in exits : g.of = f.of
      /\ Queued' = Queued \ {e}
      /\ IsFiniteSet(exits')
  BY <1>2, <1>5, StepExits DEF IInv, Slots, Queued
<1>7. \A i \in DOMAIN descs : descs'[i].pid = descs[i].pid
  BY <1>2, <1>4, <1>5
<1>8. running_tasks' = running_tasks - (IF e.stage = "queued" THEN 1 ELSE 0)
  BY <1>5 DEF IInv, Types, TypeOK
<1>9. OnePlace' /\ Slots' /\ Semaphore' /\ running_tasks' \in Nat
  BY <1>5, <1>6, <1>7, <1>8, ExitFrame
<1>10. Types'
  BY <1>2, <1>4, <1>5, <1>6, <1>9, OneDescReplaced, DescsFrame
     DEF IInv, Types, TypeOK
<1> QED
  BY <1>9, <1>10 DEF IInv

\* A callback that is past the lock ends: the thread of the pool is free.
LEMMA ExitEnds ==
    ASSUME IInv, NEW e \in exits, e.stage \in {"found", "completed"}, NEW d \in TaskDesc,
           d.ref_count = descs[e.target].ref_count, d.pid = descs[e.target].pid,
           descs' = [descs EXCEPT ![e.target] = d],
           exits' = exits \ {e},
           UNCHANGED <<table, next_task_id, running_tasks, semaphore, exiting,
                       queueing, freed, stop, joined, waiter, waits, children>>
    PROVE  IInv'
<1>1. PICK id : id = e.target
  OBVIOUS
<1>2. /\ id \in DOMAIN descs /\ descs[id] \in TaskDesc
      /\ id \in table => descs[id].ref_count >= 1
  BY <1>1 DEF IInv, Types, TypeOK
<1>3. Queued' = Queued \ {e} /\ IsFiniteSet(exits')
  BY FS_RemoveElement DEF IInv, Slots, Queued
<1>4. \A i \in DOMAIN descs : descs'[i].pid = descs[i].pid
  BY <1>1, <1>2
<1>5. running_tasks' = running_tasks - (IF e.stage = "queued" THEN 1 ELSE 0)
  BY DEF IInv, Types, TypeOK
<1>6. OnePlace' /\ Slots' /\ Semaphore' /\ running_tasks' \in Nat
  BY <1>3, <1>4, <1>5, ExitFrame
<1>7. /\ exits' \subseteq ExitRecord
      /\ \A f \in exits' : {f.of, f.target} \subseteq DOMAIN descs
  BY DEF IInv, Types, TypeOK
<1>8. Types'
  BY <1>1, <1>2, <1>6, <1>7, OneDescReplaced, DescsFrame DEF IInv, Types, TypeOK
<1> QED
  BY <1>6, <1>8 DEF IInv

\* The event is set, or OnCompleted has thrown before it could be.
LEMMA ExitEndsIInv ==
    ASSUME IInv, NEW e \in exits, ExitAnnounces(e) \/ ExitThrows(e)
    PROVE  IInv'
<1>1. e.target \in DOMAIN descs /\ descs[e.target] \in TaskDesc
  BY DEF IInv, Types, TypeOK
<1>2. CASE ExitAnnounces(e)
  <2>1. PICK d : d = [descs[e.target] EXCEPT !.stage = "announced", !.event = TRUE]
    OBVIOUS
  <2>2. /\ d \in TaskDesc /\ d.ref_count = descs[e.target].ref_count
        /\ d.pid = descs[e.target].pid
    BY <1>1, <2>1 DEF TaskDesc
  <2>3. descs' = [descs EXCEPT ![e.target] = d]
    BY <1>1, <1>2, <2>1 DEF ExitAnnounces
  <2>4. /\ e.stage \in {"found", "completed"} /\ exits' = exits \ {e}
        /\ UNCHANGED <<table, next_task_id, running_tasks, semaphore, exiting,
                       queueing, freed, stop, joined, waiter, waits, children>>
    BY <1>2 DEF ExitAnnounces
  <2> QED
    BY <2>2, <2>3, <2>4, ExitEnds
<1>3. CASE ExitThrows(e)
  <2>1. PICK d : d = [descs[e.target] EXCEPT !.stage = "silent"]
    OBVIOUS
  <2>2. /\ d \in TaskDesc /\ d.ref_count = descs[e.target].ref_count
        /\ d.pid = descs[e.target].pid
    BY <1>1, <2>1 DEF TaskDesc
  <2>3. descs' = [descs EXCEPT ![e.target] = d]
    BY <1>1, <1>3, <2>1 DEF ExitThrows
  <2>4. /\ e.stage \in {"found", "completed"} /\ exits' = exits \ {e}
        /\ UNCHANGED <<table, next_task_id, running_tasks, semaphore, exiting,
                       queueing, freed, stop, joined, waiter, waits, children>>
    BY <1>3 DEF ExitThrows
  <2> QED
    BY <2>2, <2>3, <2>4, ExitEnds
<1> QED
  BY <1>2, <1>3

\* Every step preserves the inductive invariant.
LEMMA NextIInv ==
    ASSUME IInv, [Next]_vars
    PROVE  IInv'
<1>1. CASE Queue
  BY <1>1, TryQueueTaskIInv, RefuseTaskIInv, StartTaskIInv DEF Queue
<1>2. CASE Waiter
  BY <1>2, WaiterMovesIInv, WaiterReapsIInv, WaiterStartsIInv DEF Waiter
<1>3. CASE \E e \in exits : ExitCallback(e)
  BY <1>3, ExitFindsTaskIInv, ExitFindsNoneIInv, ExitCompletesIInv,
     ExitEndsIInv DEF ExitCallback
<1>4. CASE \E w \in Waiters : Wait(w)
  BY <1>4, WaitIInv
<1>5. CASE \/ \E id \in table : TryAddTaskRef(id) \/ FreeTask(id)
           \/ \E id \in freed : KillFreedTask(id)
           \/ \E expired \in SUBSET Grants : KillExpiredTasks(expired)
           \/ OnTimerClean
           \/ \E id \in DOMAIN descs : Age(id)
  BY <1>5, TryAddTaskRefIInv, FreeTaskIInv, KillFreedTaskIInv,
     KillExpiredTasksIInv, OnTimerCleanIInv, AgeIInv
<1>6. CASE \/ \E pid \in DOMAIN children : SetPgid(pid) \/ ChildExits(pid)
           \/ StopCalled \/ StopKills \/ Join
  BY <1>6, KernelIInv, StopIInv
<1>7. CASE UNCHANGED vars
  <2>1. Types'
    BY <1>7 DEF vars, IInv, Types, TypeOK, Reaped
  <2>2. OnePlace' /\ Slots' /\ Semaphore'
    BY <1>7, ProcessFrame DEF vars
  <2> QED
    BY <2>1, <2>2 DEF IInv
<1> QED
  BY <1>1, <1>2, <1>3, <1>4, <1>5, <1>6, <1>7 DEF Next

\* The invariant holds in every reachable state.
LEMMA IInvHolds == Spec => []IInv
<1>1. IInv /\ [Next]_vars => IInv'
  BY NextIInv
<1> QED
  BY InitIInv, <1>1, PTL DEF Spec

-----------------------------------------------------------------------------
(***************************************************************************)
(* Theorems for every kernel.                                              *)
(***************************************************************************)

\* The executor's state has the declared types; in particular running_tasks_
\* and the reference counts are never negative, whatever the order in which
\* handlers, the timer, the waiter thread and the pool run.
THEOREM TypesCorrect == Spec => []TypeOK
<1>1. IInv => TypeOK
  BY DEF IInv, Types
<1> QED
  BY IInvHolds, <1>1, PTL

\* running_tasks_ counts exactly the processes not waited for and the exits not
\* counted out, also when tasks are freed, killed or cleaned early.
THEOREM SlotsNeverLeak == Spec => []SlotsExact
<1>1. IInv => SlotsExact
  BY DEF IInv, Slots
<1> QED
  BY IInvHolds, <1>1, PTL

\* There are never more unreaped compilers than max_concurrency_.
THEOREM LimitRespected == Spec => []ConcurrencyRespected
<1>1. IInv => ConcurrencyRespected
  <2> SUFFICES ASSUME IInv PROVE ConcurrencyRespected
    OBVIOUS
  <2>1. Cardinality(DOMAIN children) \in Nat /\ Cardinality(Queued) \in Nat
    BY FS_CardinalityType, FS_Subset DEF IInv, Slots, Queued
  <2>2. running_tasks = Cardinality(DOMAIN children)
                          + (IF waiter.pc \in {"start", "terminated"} THEN 1 ELSE 0)
                          + Cardinality(Queued)
    BY DEF IInv, Slots, SlotsExact, Queued
  <2>3. running_tasks \in Nat /\ running_tasks <= MaxConcurrency
    BY DEF IInv, Slots, Types, TypeOK
  <2> QED
    BY <2>1, <2>2, <2>3, LimitsAssumption DEF ConcurrencyRespected
<1> QED
  BY IInvHolds, <1>1, PTL

\* The DISTBU_CHECK of WaiterProc: until Stop, the waiter calls wait() only when
\* there is a child to wait for.
THEOREM WaitHasChild == Spec => []WaitFindsChild
<1>1. IInv => WaitFindsChild
  <2> SUFFICES ASSUME IInv, waiter.pc = "wait", ~exiting PROVE children # << >>
    BY DEF WaitFindsChild
  <2>1. semaphore + 1 = Cardinality(DOMAIN children) /\ semaphore \in Nat
    BY DEF IInv, Semaphore, Types, TypeOK
  <2>2. Cardinality(DOMAIN children) # 0
    BY <2>1
  <2>3. DOMAIN children # {}
    BY <2>2, FS_EmptySet
  <2> QED
    BY <2>3
<1> QED
  BY IInvHolds, <1>1, PTL

-----------------------------------------------------------------------------
(***************************************************************************)
(* Results, when pids are not reused.                                      *)
(***************************************************************************)

\* A step that moves no process and no exit, and announces nothing.
LEMMA ResultFrame ==
    ASSUME IInv, IInv', ResultInv,
           UNCHANGED <<waiter, exits>>,
           DOMAIN children' = DOMAIN children,
           \A p \in DOMAIN children : children'[p].of = children[p].of,
           DOMAIN descs' = DOMAIN descs,
           \A id \in DOMAIN descs : /\ descs'[id].pid = descs[id].pid
                                    /\ descs'[id].stage = descs[id].stage
                                    /\ descs'[id].event => descs[id].event,
           \A w \in Waiters : waits'[w].pc = "done" =>
               \/ waits[w].pc = "done" /\ waits'[w].id = waits[w].id
               \/ descs[waits'[w].id].stage = "announced"
    PROVE  ResultInv'
<1>1. /\ \A p \in DOMAIN children : children[p].of \in DOMAIN descs
      /\ \A e \in exits : e.of \in DOMAIN descs
      /\ Reaped => waiter.of \in DOMAIN descs
      /\ \A w \in Waiters : waits'[w].pc = "done" => waits'[w].id \in DOMAIN descs
  BY DEF IInv, Types, TypeOK
<1>2. Reaped' <=> Reaped
  BY DEF Reaped
<1>3. PidsIdentify'
  BY <1>1, <1>2 DEF ResultInv, PidsIdentify
<1>4. Announced'
  BY <1>1 DEF ResultInv, Announced
<1> QED
  BY <1>3, <1>4 DEF ResultInv

\* A new process has a pid no task has had.
LEMMA StartTaskResult ==
    ASSUME IInv, IInv', ResultInv, ~ReusePids, NEW pid \in Pids, StartTask(pid)
    PROVE  ResultInv'
<1> DEFINE n == next_task_id
           d == [pid |-> pid, grant |-> queueing, ref_count |-> 1,
                 event |-> FALSE, stage |-> "running", old |-> FALSE]
           c == [of |-> n, stage |-> "forked"]
<1>1. n \notin DOMAIN descs
  BY DEF IInv, Types, TypeOK, Ids
<1>2. \A id \in DOMAIN descs : descs[id].pid # pid
  BY DEF StartTask, FreshPids
<1>3. pid \notin DOMAIN children
  BY FreshPidIsFree DEF StartTask
<1>4. d.pid = pid /\ d.stage = "running" /\ ~d.event /\ c.of = n
  OBVIOUS
<1>5. /\ descs' = [id \in DOMAIN descs \cup {n} |-> IF id = n THEN d ELSE descs[id]]
      /\ children' = [p \in DOMAIN children \cup {pid} |->
                         IF p = pid THEN c ELSE children[p]]
      /\ UNCHANGED <<waiter, exits, waits>>
  BY DEF StartTask
<1> HIDE DEF d, c
<1>6. /\ DOMAIN descs' = DOMAIN descs \cup {n} /\ descs'[n] = d
      /\ \A id \in DOMAIN descs : descs'[id] = descs[id]
      /\ DOMAIN children' = DOMAIN children \cup {pid} /\ children'[pid] = c
      /\ \A p \in DOMAIN children : children'[p] = children[p]
  BY <1>1, <1>3, <1>5
<1>7. /\ \A p \in DOMAIN children : children[p].of \in DOMAIN descs
      /\ \A e \in exits : e.of \in DOMAIN descs
      /\ Reaped => waiter.of \in DOMAIN descs
      /\ \A w \in Waiters : waits[w].pc = "done" => waits[w].id \in DOMAIN descs
  BY DEF IInv, Types, TypeOK
<1>8. Reaped' <=> Reaped
  BY <1>5 DEF Reaped
<1>9. PidsIdentify'
  <2>1. \A i, j \in DOMAIN descs' : descs'[i].pid = descs'[j].pid => i = j
    BY <1>2, <1>4, <1>6 DEF ResultInv, PidsIdentify
  <2>2. \A p \in DOMAIN children' : /\ descs'[children'[p].of].pid = p
                                    /\ descs'[children'[p].of].stage = "running"
    BY <1>4, <1>6, <1>7 DEF ResultInv, PidsIdentify
  <2>3. Reaped' => /\ descs'[waiter'.of].pid = waiter'.pid
                   /\ descs'[waiter'.of].stage = "running"
    BY <1>5, <1>6, <1>7, <1>8 DEF ResultInv, PidsIdentify
  <2>4. exits' = exits /\ \A e \in exits : descs'[e.of] = descs[e.of]
    BY <1>5, <1>6, <1>7
  <2> QED
    BY <2>1, <2>2, <2>3, <2>4 DEF ResultInv, PidsIdentify
<1>10. Announced'
  BY <1>4, <1>5, <1>6, <1>7 DEF ResultInv, Announced
<1> QED
  BY <1>9, <1>10 DEF ResultInv

\* The waiter's steps carry pid and task along.
LEMMA WaiterResult ==
    ASSUME IInv, IInv', ResultInv, Waiter
    PROVE  ResultInv'
<1>1. waiter \in WaiterState
  BY DEF IInv, Types
<1>2. UNCHANGED <<descs, waits>>
  BY DEF Waiter, WaiterTests, WaiterAcquires, WaiterReaps, WaiterFindsNone, WaiterStarts
<1>3. Announced'
  BY <1>2 DEF ResultInv, Announced
<1>4. CASE WaiterTests \/ WaiterAcquires \/ WaiterFindsNone
  <2>1. UNCHANGED <<exits, children>>
    BY <1>4 DEF WaiterTests, WaiterAcquires, WaiterFindsNone
  <2>2. ~Reaped'
    BY <1>1, <1>4 DEF WaiterTests, WaiterAcquires, WaiterFindsNone, WaiterState, Reaped
  <2> QED
    BY <1>2, <1>3, <2>1, <2>2 DEF ResultInv, PidsIdentify
<1>5. CASE \E pid \in DOMAIN children : WaiterReaps(pid)
  <2>1. PICK pid \in DOMAIN children : WaiterReaps(pid)
    BY <1>5
  <2>2. /\ waiter'.of = children[pid].of /\ waiter'.pid = pid
        /\ children' = [p \in DOMAIN children \ {pid} |-> children[p]]
        /\ exits' = exits
    BY <2>1 DEF WaiterReaps
  <2> QED
    BY <1>2, <1>3, <2>2 DEF ResultInv, PidsIdentify
<1>6. CASE WaiterStarts
  <2>1. Reaped /\ children' = children
    BY <1>6 DEF WaiterStarts, Reaped
  <2>2. PICK x : x = [pid |-> waiter.pid, of |-> waiter.of, stage |-> "queued",
                      target |-> waiter.of]
    OBVIOUS
  <2>3. CASE exits' = exits \cup {x} /\ waiter' = [waiter EXCEPT !.pc = "loop"]
    <3>1. ~Reaped'
      BY <1>1, <2>3 DEF WaiterState, Reaped
    <3>2. x.of = waiter.of /\ x.pid = waiter.pid /\ x.stage = "queued"
      BY <2>2
    <3>3. \A e \in exits : e.of # x.of
      BY <2>1, <3>2 DEF IInv, OnePlace
    <3> QED
      BY <1>2, <1>3, <2>1, <2>3, <3>1, <3>2, <3>3 DEF ResultInv, PidsIdentify
  <2>4. CASE exits' = exits /\ waiter' = [waiter EXCEPT !.pc = "terminated"]
    <3>1. waiter'.of = waiter.of /\ waiter'.pid = waiter.pid
      BY <1>1, <2>4 DEF WaiterState
    <3> QED
      BY <1>2, <1>3, <2>1, <2>4, <3>1 DEF ResultInv, PidsIdentify
  <2> QED
    BY <1>6, <2>2, <2>3, <2>4 DEF WaiterStarts
<1> QED
  BY <1>4, <1>5, <1>6 DEF Waiter

\* A step of the callback on its own task, which has not been announced.
LEMMA ExitMoved ==
    ASSUME IInv, ResultInv, NEW e \in exits, NEW d, NEW X,
           descs' = [descs EXCEPT ![e.of] = d],
           descs[e.of].stage # "announced",
           d.pid = descs[e.of].pid,
           d.event => d.stage = "announced",
           exits' = (exits \ {e}) \cup X,
           \A x, y \in X : x = y,
           \A x \in X : /\ x.of = e.of /\ x.pid = e.pid /\ x.target = e.of
                        /\ \/ x.stage = "found" /\ d.stage = "exited"
                           \/ x.stage = "completed" /\ d.stage = "completed",
           UNCHANGED <<waiter, waits, children>>
    PROVE  ResultInv'
<1>1. /\ e.of \in DOMAIN descs
      /\ \A p \in DOMAIN children : /\ children[p].of \in DOMAIN descs
                                    /\ children[p].of # e.of
      /\ \A f \in exits : f.of \in DOMAIN descs
      /\ Reaped => waiter.of \in DOMAIN descs /\ waiter.of # e.of
      /\ \A w \in Waiters : waits[w].pc = "done" => waits[w].id \in DOMAIN descs
  BY DEF IInv, Types, TypeOK, OnePlace
<1>2. /\ DOMAIN descs' = DOMAIN descs /\ descs'[e.of] = d
      /\ \A i \in DOMAIN descs : i # e.of => descs'[i] = descs[i]
      /\ \A i \in DOMAIN descs : descs'[i].pid = descs[i].pid
  BY <1>1
<1>3. \A f \in exits \ {e} : f.of # e.of
  BY DEF ResultInv, PidsIdentify
<1>4. Reaped' <=> Reaped
  BY DEF Reaped
<1>5. PidsIdentify'
  <2>1. \A i, j \in DOMAIN descs' : descs'[i].pid = descs'[j].pid => i = j
    BY <1>2 DEF ResultInv, PidsIdentify
  <2>2. \A p \in DOMAIN children' : /\ descs'[children'[p].of].pid = p
                                    /\ descs'[children'[p].of].stage = "running"
    BY <1>1, <1>2 DEF ResultInv, PidsIdentify
  <2>3. Reaped' => /\ descs'[waiter'.of].pid = waiter'.pid
                   /\ descs'[waiter'.of].stage = "running"
    BY <1>1, <1>2, <1>4 DEF ResultInv, PidsIdentify
  <2>4. ASSUME NEW f \in exits'
        PROVE  /\ descs'[f.of].pid = f.pid
               /\ f.stage = "queued" => descs'[f.of].stage = "running"
               /\ f.stage = "found" =>
                     f.target = f.of /\ descs'[f.of].stage = "exited"
               /\ f.stage = "completed" =>
                     f.target = f.of /\ descs'[f.of].stage = "completed"
    <3>1. CASE f \in exits \ {e}
      <4>1. f.of \in DOMAIN descs /\ descs'[f.of] = descs[f.of]
        BY <1>1, <1>2, <1>3, <3>1
      <4> QED
        BY <3>1, <4>1 DEF ResultInv, PidsIdentify
    <3>2. CASE f \in X
      <4>1. descs[e.of].pid = e.pid
        BY DEF ResultInv, PidsIdentify
      <4> QED
        BY <1>2, <3>2, <4>1
    <3> QED
      BY <3>1, <3>2
  <2>5. \A f, g \in exits' : f.of = g.of => f = g
    BY <1>3 DEF ResultInv, PidsIdentify
  <2> QED
    BY <2>1, <2>2, <2>3, <2>4, <2>5 DEF PidsIdentify
<1>6. Announced'
  <2>1. \A i \in DOMAIN descs' : descs'[i].event => descs'[i].stage = "announced"
    BY <1>2 DEF ResultInv, Announced
  <2>2. \A w \in Waiters :
           waits'[w].pc = "done" => descs'[waits'[w].id].stage = "announced"
    BY <1>1, <1>2 DEF ResultInv, Announced
  <2> QED
    BY <2>1, <2>2 DEF Announced
<1> QED
  BY <1>5, <1>6 DEF ResultInv

\* The callback finds its own task, stores its output and announces it.
LEMMA ExitCallbackResult ==
    ASSUME IInv, IInv', ResultInv, NEW e \in exits, ExitCallback(e)
    PROVE  ResultInv'
<1>1. /\ e \in ExitRecord /\ e.of \in DOMAIN descs /\ descs[e.of] \in TaskDesc
      /\ descs[e.of].pid = e.pid
      /\ descs[e.of].event => descs[e.of].stage = "announced"
  BY DEF IInv, Types, TypeOK, ResultInv, PidsIdentify, Announced
<1>2. CASE ExitFindsTask(e)
  <2>1. PICK id \in WithPid(e.pid) :
           /\ descs' = [descs EXCEPT ![id].stage = "exited", ![id].old = FALSE]
           /\ exits' = Step(e, "found", id)
    BY <1>2 DEF ExitFindsTask
  <2>2. id \in DOMAIN descs /\ descs[id].pid = e.pid
    BY DEF WithPid, IInv, Types, TypeOK
  <2>3. id = e.of
    BY <1>1, <2>2 DEF ResultInv, PidsIdentify
  <2>4. PICK d : d = [descs[e.of] EXCEPT !.stage = "exited", !.old = FALSE]
    OBVIOUS
  <2>5. d.pid = descs[e.of].pid /\ d.stage = "exited" /\ d.event = descs[e.of].event
    BY <1>1, <2>4 DEF TaskDesc
  <2>6. descs' = [descs EXCEPT ![e.of] = d]
    BY <2>1, <2>2, <2>3, <2>4
  <2>7. PICK x : x = [e EXCEPT !.stage = "found", !.target = e.of]
    OBVIOUS
  <2>8. x.of = e.of /\ x.pid = e.pid /\ x.target = e.of /\ x.stage = "found"
    BY <1>1, <2>7 DEF ExitRecord
  <2>9. exits' = (exits \ {e}) \cup {x}
    BY <2>1, <2>3, <2>7 DEF Step
  <2>10. descs[e.of].stage = "running" /\ UNCHANGED <<waiter, waits, children>>
    BY <1>2 DEF ExitFindsTask, ResultInv, PidsIdentify
  <2>11. ~d.event
    BY <1>1, <2>5, <2>10
  <2>12. PICK X : X = {x}
    OBVIOUS
  <2>13. exits' = (exits \ {e}) \cup X /\ \A y \in X : y = x
    BY <2>9, <2>12
  <2> QED
    BY <2>5, <2>6, <2>8, <2>10, <2>11, <2>13, ExitMoved
<1>3. CASE ExitFindsNone(e)
  <2>1. descs' = descs /\ exits' = exits \ {e} /\ UNCHANGED <<waiter, waits, children>>
    BY <1>3 DEF ExitFindsNone
  <2> QED
    BY <2>1 DEF ResultInv, PidsIdentify, Announced, Reaped
<1>4. CASE ExitCompletes(e)
  <2>1. e.target = e.of /\ descs[e.of].stage = "exited"
    BY <1>4 DEF ExitCompletes, ResultInv, PidsIdentify
  <2>2. PICK d : d = [descs[e.of] EXCEPT !.stage = "completed"]
    OBVIOUS
  <2>3. d.pid = descs[e.of].pid /\ d.stage = "completed" /\ d.event = descs[e.of].event
    BY <1>1, <2>2 DEF TaskDesc
  <2>4. PICK x : x = [e EXCEPT !.stage = "completed", !.target = e.of]
    OBVIOUS
  <2>5. x.of = e.of /\ x.pid = e.pid /\ x.target = e.of /\ x.stage = "completed"
    BY <1>1, <2>4 DEF ExitRecord
  <2>6. /\ descs' = [descs EXCEPT ![e.of] = d]
        /\ exits' = (exits \ {e}) \cup {x}
        /\ UNCHANGED <<waiter, waits, children>>
    BY <1>4, <2>1, <2>2, <2>4 DEF ExitCompletes, Completed, Step
  <2>7. ~d.event
    BY <1>1, <2>1, <2>3
  <2>8. PICK X : X = {x}
    OBVIOUS
  <2>9. exits' = (exits \ {e}) \cup X /\ \A y \in X : y = x
    BY <2>6, <2>8
  <2>10. \A y \in X : /\ y.of = e.of /\ y.pid = e.pid /\ y.target = e.of
                       /\ \/ y.stage = "found" /\ d.stage = "exited"
                          \/ y.stage = "completed" /\ d.stage = "completed"
    BY <2>3, <2>5, <2>9
  <2>11. descs[e.of].stage # "announced" /\ d.pid = descs[e.of].pid
    BY <2>1, <2>3
  <2>12. descs' = [descs EXCEPT ![e.of] = d] /\ UNCHANGED <<waiter, waits, children>>
    BY <2>6
  <2>13. exits' = (exits \ {e}) \cup X /\ \A y, z \in X : y = z
    BY <2>9
  <2>14. d.event => d.stage = "announced"
    BY <2>7
  <2> QED
    BY <2>10, <2>11, <2>12, <2>13, <2>14, ExitMoved
<1>5. CASE ExitAnnounces(e)
  <2>1. e.target = e.of /\ descs[e.of].stage = "completed"
    BY <1>5 DEF ExitAnnounces, ResultInv, PidsIdentify
  <2>2. PICK d : d = [descs[e.of] EXCEPT !.stage = "announced", !.event = TRUE]
    OBVIOUS
  <2>3. d.pid = descs[e.of].pid /\ d.stage = "announced"
    BY <1>1, <2>2 DEF TaskDesc
  <2>4. descs' = [descs EXCEPT ![e.of] = d]
    BY <1>1, <1>5, <2>1, <2>2 DEF ExitAnnounces
  <2>5. PICK X : X = {}
    OBVIOUS
  <2>6. /\ exits' = (exits \ {e}) \cup X /\ \A x \in X : FALSE
        /\ UNCHANGED <<waiter, waits, children>>
    BY <1>5, <2>5 DEF ExitAnnounces
  <2> QED
    BY <2>1, <2>3, <2>4, <2>6, ExitMoved
<1>6. CASE ExitThrows(e)
  <2>1. e.target = e.of /\ descs[e.of].stage = "exited"
    BY <1>6 DEF ExitThrows, ResultInv, PidsIdentify
  <2>2. PICK d : d = [descs[e.of] EXCEPT !.stage = "silent"]
    OBVIOUS
  <2>3. d.pid = descs[e.of].pid /\ d.event = descs[e.of].event
    BY <1>1, <2>2 DEF TaskDesc
  <2>4. descs' = [descs EXCEPT ![e.of] = d]
    BY <1>1, <1>6, <2>1, <2>2 DEF ExitThrows
  <2>5. ~d.event
    BY <1>1, <2>1, <2>3
  <2>6. PICK X : X = {}
    OBVIOUS
  <2>7. /\ exits' = (exits \ {e}) \cup X /\ \A x \in X : FALSE
        /\ UNCHANGED <<waiter, waits, children>>
    BY <1>6, <2>6 DEF ExitThrows
  <2> QED
    BY <2>1, <2>3, <2>4, <2>5, <2>7, ExitMoved
<1> QED
  BY <1>2, <1>3, <1>4, <1>5, <1>6 DEF ExitCallback

\* A handler's wait is done only for an event that is set.
LEMMA WaitResult ==
    ASSUME IInv, IInv', ResultInv, NEW w \in Waiters, Wait(w)
    PROVE  ResultInv'
<1>1. UNCHANGED <<waiter, exits, children>>
  BY DEF Wait, WaitForTask, WaitBlocks, WaitDone, WaitReturns
<1>2. waits \in [Waiters -> WaitState]
  BY DEF IInv, Types
<1>3. CASE WaitDone(w)
  <2>1. PICK id : id = waits[w].id
    OBVIOUS
  <2>2. id \in DOMAIN descs /\ descs[id] \in TaskDesc /\ descs[id].event
    BY <1>3, <2>1 DEF WaitDone, IInv, Types, TypeOK
  <2>3. PICK d : d = [descs[id] EXCEPT !.event = FALSE]
    OBVIOUS
  <2>4. d.pid = descs[id].pid /\ d.stage = descs[id].stage /\ ~d.event
    BY <2>2, <2>3 DEF TaskDesc
  <2>5. descs' = [descs EXCEPT ![id] = d] /\ waits' = [waits EXCEPT ![w].pc = "done"]
    BY <1>3, <2>1, <2>3 DEF WaitDone
  <2>6. descs[id].stage = "announced"
    BY <2>2 DEF ResultInv, Announced
  <2>7. \A v \in Waiters : waits'[v].pc = "done" =>
           \/ waits[v].pc = "done" /\ waits'[v].id = waits[v].id
           \/ descs[waits'[v].id].stage = "announced"
    BY <1>2, <2>1, <2>5, <2>6 DEF WaitState
  <2>8. /\ DOMAIN descs' = DOMAIN descs
        /\ \A i \in DOMAIN descs : /\ descs'[i].pid = descs[i].pid
                                   /\ descs'[i].stage = descs[i].stage
                                   /\ descs'[i].event => descs[i].event
    BY <2>2, <2>4, <2>5
  <2> QED
    BY <1>1, <2>7, <2>8, ResultFrame
<1>4. CASE ~WaitDone(w)
  <2>1. descs' = descs
    BY <1>4 DEF Wait, WaitForTask, WaitBlocks, WaitReturns
  <2>2. \A v \in Waiters : waits'[v].pc = "done" =>
           waits[v].pc = "done" /\ waits'[v].id = waits[v].id
    BY <1>2, <1>4 DEF Wait, WaitForTask, WaitBlocks, WaitReturns, WaitState
  <2> QED
    BY <1>1, <2>1, <2>2, ResultFrame
<1> QED
  BY <1>3, <1>4

\* References and age are not part of a result.
LEMMA DescStepsResult ==
    ASSUME IInv, IInv', ResultInv,
           \/ \E id \in table : TryAddTaskRef(id) \/ FreeTask(id)
           \/ \E id \in DOMAIN descs : Age(id)
    PROVE  ResultInv'
<1>1. UNCHANGED <<waiter, exits, waits, children>>
  BY DEF TryAddTaskRef, FreeTask, Age
<1>2. PICK id \in DOMAIN descs : TryAddTaskRef(id) \/ FreeTask(id) \/ Age(id)
  BY DEF IInv, Types, TypeOK
<1>3. descs[id] \in TaskDesc
  BY DEF IInv, Types, TypeOK
<1>4. PICK d : /\ descs' = [descs EXCEPT ![id] = d]
               /\ \/ d = [descs[id] EXCEPT !.ref_count = @ + 1]
                  \/ d = [descs[id] EXCEPT !.ref_count = @ - 1]
                  \/ d = [descs[id] EXCEPT !.old = TRUE]
  BY <1>2, Zenon DEF TryAddTaskRef, FreeTask, Age
<1>5. d.pid = descs[id].pid /\ d.stage = descs[id].stage /\ d.event = descs[id].event
  BY <1>3, <1>4 DEF TaskDesc
<1>6. /\ DOMAIN descs' = DOMAIN descs
      /\ \A i \in DOMAIN descs : /\ descs'[i].pid = descs[i].pid
                                 /\ descs'[i].stage = descs[i].stage
                                 /\ descs'[i].event => descs[i].event
  BY <1>4, <1>5
<1> QED
  BY <1>1, <1>6, ResultFrame

\* Signals and scalar steps move no process, no exit and no result.
LEMMA SignalStepsResult ==
    ASSUME IInv, IInv', ResultInv,
           \/ \E id \in freed : KillFreedTask(id)
           \/ \E expired \in SUBSET Grants : KillExpiredTasks(expired)
           \/ StopKills
    PROVE  ResultInv'
<1>1. UNCHANGED <<descs, waiter, exits, waits>>
  BY DEF KillFreedTask, KillExpiredTasks, StopKills
<1>2. PICK P : children' = Signalled(P)
  BY DEF KillFreedTask, KillExpiredTasks, StopKills
<1>3. /\ DOMAIN children' = DOMAIN children
      /\ \A p \in DOMAIN children : children'[p].of = children[p].of
  BY <1>2, SignalledTypes DEF IInv
<1> QED
  BY <1>1, <1>3, ResultFrame

\* Every step preserves what is known of results.
LEMMA NextResult ==
    ASSUME IInv, IInv', ResultInv, ~ReusePids, [Next]_vars
    PROVE  ResultInv'
<1>1. CASE Queue
  <2>1. CASE \E pid \in Pids : StartTask(pid)
    BY <2>1, StartTaskResult
  <2>2. CASE \/ \E grant \in Grants : TryQueueTask(grant)
             \/ \E low_memory \in BOOLEAN : RefuseTask(low_memory)
    <3>1. UNCHANGED <<descs, waiter, exits, waits, children>>
      BY <2>2 DEF TryQueueTask, RefuseTask
    <3> QED
      BY <3>1, ResultFrame
  <2> QED
    BY <1>1, <2>1, <2>2 DEF Queue
<1>2. CASE Waiter
  BY <1>2, WaiterResult
<1>3. CASE \E e \in exits : ExitCallback(e)
  BY <1>3, ExitCallbackResult
<1>4. CASE \E w \in Waiters : Wait(w)
  BY <1>4, WaitResult
<1>5. CASE \/ \E id \in table : TryAddTaskRef(id) \/ FreeTask(id)
           \/ \E id \in DOMAIN descs : Age(id)
  BY <1>5, DescStepsResult
<1>6. CASE \/ \E id \in freed : KillFreedTask(id)
           \/ \E expired \in SUBSET Grants : KillExpiredTasks(expired)
           \/ StopKills
  BY <1>6, SignalStepsResult
<1>7. CASE \E pid \in DOMAIN children : SetPgid(pid) \/ ChildExits(pid)
  <2>1. PICK pid \in DOMAIN children, s \in {"grouped", "dead"} :
           children' = [children EXCEPT ![pid].stage = s]
    BY <1>7 DEF SetPgid, ChildExits
  <2>2. children[pid] \in Child
    BY DEF IInv, Types
  <2>3. /\ DOMAIN children' = DOMAIN children
        /\ \A p \in DOMAIN children : children'[p].of = children[p].of
    BY <2>1, <2>2 DEF Child
  <2>4. UNCHANGED <<descs, waiter, exits, waits>>
    BY <1>7 DEF SetPgid, ChildExits
  <2> QED
    BY <2>3, <2>4, ResultFrame
<1>8. CASE OnTimerClean \/ StopCalled \/ Join \/ UNCHANGED vars
  <2>1. UNCHANGED <<descs, waiter, exits, waits, children>>
    BY <1>8 DEF OnTimerClean, StopCalled, Join, vars
  <2> QED
    BY <2>1, ResultFrame
<1> QED
  BY <1>1, <1>2, <1>3, <1>4, <1>5, <1>6, <1>7, <1>8 DEF Next

\* When the kernel does not give a task's pid to another process, WaitForTask
\* returns a result only after OnCompleted has stored all of it, however exits,
\* waits, frees and cleanings interleave.
THEOREM ResultsWhole == Spec => [](~ReusePids => ResultsAreComplete)
<1> DEFINE RInv == ~ReusePids => ResultInv
<1>1. Init => RInv
  <2> SUFFICES ASSUME Init PROVE ResultInv
    OBVIOUS
  <2>1. DOMAIN children = {} /\ exits = {} /\ DOMAIN descs = {} /\ ~Reaped
    BY DEF Init, Reaped
  <2>2. \A w \in Waiters : waits[w].pc = "idle"
    BY DEF Init
  <2> QED
    BY <2>1, <2>2 DEF ResultInv, PidsIdentify, Announced
<1>2. RInv /\ IInv /\ IInv' /\ [Next]_vars => RInv'
  BY NextResult
<1>3. RInv => (~ReusePids => ResultsAreComplete)
  BY DEF ResultInv, Announced, ResultsAreComplete
<1> HIDE DEF RInv
<1> QED
  BY <1>1, <1>2, <1>3, IInvHolds, PTL DEF Spec

=============================================================================
