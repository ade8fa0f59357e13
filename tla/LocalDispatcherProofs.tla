------------------------ MODULE LocalDispatcherProofs ------------------------
(***************************************************************************)
(* Safety of LocalDispatcher for every set of tasks and handler threads    *)
(* and every number of retries.                                            *)
(***************************************************************************)
EXTENDS LocalDispatcher, TLAPS

\* A handler that was signalled and has not yet taken the task's object.
Taking(h) == handler[h].pc \in {"erase", "take"}

\* What holds of one task between any two steps: the thread's place determines
\* what the descriptor may look like.
TaskInv(t) ==
    /\ desc[t].state = "Done" <=> pc[t] = "over"
    /\ desc[t].output = "unwritten" => pc[t] \in {"new", "not started", "perform"}
    /\ pc[t] \in {"get", "getting", "start", "wait", "asking"} =>
          desc[t].output = "not run"
    /\ desc[t].grant = "held" => pc[t] \in {"start", "wait", "asking", "free", "return"}
    /\ desc[t].grant = "left" =>
          desc[t].output = "not run" /\ pc[t] \in {"complete", "over"}
    /\ desc[t].event => desc[t].task /\ pc[t] = "over"
    /\ ~desc[t].task => pc[t] = "over"
    /\ t \in tasks => desc[t].task

\* What holds of one handler: it has used the event up, the object is still
\* there, and from its second section on the task is out of the table.
HandlerInv(h) ==
    /\ Taking(h) => LET t == handler[h].task
                    IN  pc[t] = "over" /\ desc[t].task /\ ~desc[t].event
    /\ handler[h].pc = "take" => handler[h].task \notin tasks
    /\ handler[h].pc = "ok" => handler[h].result \notin {"null", "unwritten"}

\* The auto-reset event lets one handler through.
OneTaker ==
    \A g, h \in Handlers :
        Taking(g) /\ Taking(h) /\ handler[g].task = handler[h].task => g = h

\* The invariant that is preserved by every step.
IInv == /\ TypeOK
        /\ \A t \in Tasks : TaskInv(t)
        /\ \A h \in Handlers : HandlerInv(h)
        /\ OneTaker

-----------------------------------------------------------------------------
\* The empty table satisfies the inductive invariant.
LEMMA InitIInv == Init => IInv
<1> SUFFICES ASSUME Init PROVE IInv
  OBVIOUS
<1>1. TypeOK
  BY LocalDispatcherAssumption
  DEF Init, TypeOK, Queued, TaskDesc, States, Outputs, Grants, Labels, Calls, Idle
<1>2. \A t \in Tasks : TaskInv(t)
  BY DEF Init, TaskInv, Queued
<1>3. (\A h \in Handlers : HandlerInv(h)) /\ OneTaker
  BY DEF Init, HandlerInv, OneTaker, Taking, Idle
<1> QED
  BY <1>1, <1>2, <1>3 DEF IInv

\* A handler inside WaitForTask names a task.
LEMMA TakingTypes ==
    ASSUME TypeOK, NEW h \in Handlers
    PROVE  /\ handler[h].pc \in {"wait", "erase", "take"} =>
                 /\ handler[h].task \in Tasks
                 /\ handler[h] = [pc |-> handler[h].pc, task |-> handler[h].task]
           /\ handler[h].pc \in {"idle", "wait", "erase", "take", "ok"}
<1>1. handler[h] \in Calls
  BY DEF TypeOK
<1>2. CASE handler[h] = Idle
  BY <1>2 DEF Idle
<1>3. CASE handler[h] \in [pc : {"wait", "erase", "take"}, task : Tasks]
  BY <1>3
<1>4. CASE handler[h] \in [pc : {"ok"}, task : Tasks, result : Outputs \cup {"null"}]
  BY <1>4
<1> QED
  BY <1>1, <1>2, <1>3, <1>4 DEF Calls

\* A step of one task's thread or of a timer preserves the invariant when it
\* keeps the types and the tasks' part, and touches no handler, no object, no
\* event of a completed task, no completed thread, and adds no entry of one.
LEMMA ThreadStep ==
    ASSUME IInv, TypeOK', \A t \in Tasks : TaskInv(t)',
           handler' = handler,
           \A t \in Tasks : pc[t] = "over" =>
               /\ pc'[t] = "over"
               /\ desc'[t].task = desc[t].task
               /\ desc'[t].event = desc[t].event
               /\ t \in tasks' => t \in tasks
    PROVE  IInv'
<1>1. ASSUME NEW h \in Handlers PROVE HandlerInv(h)'
  BY <1>1, TakingTypes DEF IInv, HandlerInv, Taking
<1>2. OneTaker'
  BY DEF IInv, OneTaker, Taking
<1> QED
  BY <1>1, <1>2 DEF IInv

\* One field of one descriptor, or the place of one thread, at a time.
LEMMA PerformIInv ==
    ASSUME IInv, NEW t \in Tasks, Perform(t)
    PROVE  IInv'
<1> USE LocalDispatcherAssumption
<1>0. /\ TypeOK /\ desc[t] \in TaskDesc /\ pc[t] # "over"
      /\ pc \in [Tasks -> Labels] /\ desc \in [Tasks -> TaskDesc]
      /\ TaskInv(t)
  BY DEF IInv, TypeOK, Perform, Thread, UnpackThrows, PerformTask, GetGrant, GetReturnsNone, GetThrows,
         GetReturnsGrant, StartFails, StartReturns, WaitServantTask,
         GiveUpServantTask, CallFails, AnsweredRunning, AnsweredDone,
         FreeServantTask, ReturnGrant, Complete
<1>1. /\ tasks' = tasks /\ handler' = handler
      /\ keeping' = keeping /\ age' = age /\ alive' = alive
  BY DEF Perform, Thread, UnpackThrows, PerformTask, GetGrant, GetReturnsNone, GetThrows,
         GetReturnsGrant, StartFails, StartReturns, WaitServantTask,
         GiveUpServantTask, CallFails, AnsweredRunning, AnsweredDone,
         FreeServantTask, ReturnGrant, Complete
<1>2. \E l \in Labels : pc' = [pc EXCEPT ![t] = l]
  BY DEF Labels, Goto, Perform, Thread, UnpackThrows, PerformTask, GetGrant, GetReturnsNone, GetThrows,
         GetReturnsGrant, StartFails, StartReturns, WaitServantTask,
         GiveUpServantTask, CallFails, AnsweredRunning, AnsweredDone,
         FreeServantTask, ReturnGrant, Complete
<1>3. servant' \in [Tasks -> {"none", "running", "done", "gone"}]
  BY <1>0 DEF TypeOK, Perform, Thread, UnpackThrows, PerformTask, GetGrant, GetReturnsNone, GetThrows,
         GetReturnsGrant, StartFails, StartReturns, WaitServantTask,
         GiveUpServantTask, CallFails, AnsweredRunning, AnsweredDone,
         FreeServantTask, ReturnGrant, Complete
<1>4. \E d \in TaskDesc :
         /\ desc' = [desc EXCEPT ![t] = d]
         /\ d.task = desc[t].task
         /\ d.state = "Done" <=> pc'[t] = "over"
         /\ d.output = "unwritten" => pc'[t] \in {"new", "not started", "perform"}
         /\ pc'[t] \in {"get", "getting", "start", "wait", "asking"} =>
               d.output = "not run"
         /\ d.grant = "held" => pc'[t] \in {"start", "wait", "asking", "free", "return"}
         /\ d.grant = "left" =>
               d.output = "not run" /\ pc'[t] \in {"complete", "over"}
         /\ d.event => pc'[t] = "over"
  <2>1. CASE PerformTask(t)
    <3>1. [desc[t] EXCEPT !.output = "not run"] \in TaskDesc
      BY <1>0 DEF TaskDesc, Outputs
    <3> QED
      BY <1>0, <2>1, <3>1 DEF PerformTask, TaskInv, TaskDesc, Goto
  <2>2. CASE GetGrant(t) \/ GetReturnsNone(t) \/ GetThrows(t) \/ GiveUpServantTask(t)
               \/ CallFails(t) \/ AnsweredRunning(t) \/ FreeServantTask(t)
    BY <1>0, <2>2 DEF GetGrant, GetReturnsNone, GetThrows, GiveUpServantTask,
         CallFails, AnsweredRunning, FreeServantTask, TaskInv, Goto
  <2>3. CASE GetReturnsGrant(t)
    <3>1. [desc[t] EXCEPT !.grant = "held", !.state = "Ready", !.stale = FALSE] \in TaskDesc
      BY <1>0 DEF TaskDesc, States, Grants
    <3> QED
      BY <1>0, <2>3, <3>1 DEF GetReturnsGrant, TaskInv, TaskDesc, Goto
  <2>4. CASE StartFails(t) \/ ReturnGrant(t)
    <3>1. PICK g \in {"freed", "dropped"} : desc' = [desc EXCEPT ![t].grant = g]
      BY <2>4 DEF StartFails, ReturnGrant, GrantFreed
    <3>2. [desc[t] EXCEPT !.grant = g] \in TaskDesc
      BY <1>0 DEF TaskDesc, Grants
    <3>3. pc' = [pc EXCEPT ![t] = "complete"] /\ pc[t] \in {"start", "return"}
      BY <2>4 DEF StartFails, ReturnGrant, Goto
    <3> QED
      BY <1>0, <3>1, <3>2, <3>3 DEF TaskInv, TaskDesc
  <2>5. CASE StartReturns(t)
    <3>1. PICK known \in BOOLEAN :
             desc' = [desc EXCEPT ![t].state = "Dispatched", ![t].known = known,
                                  ![t].retries = kRetries]
      BY <2>5 DEF StartReturns
    <3>2. [desc[t] EXCEPT !.state = "Dispatched", !.known = known, !.retries = kRetries]
             \in TaskDesc
      <4>1. kRetries \in 0 .. kRetries
        OBVIOUS
      <4>2. CASE known = TRUE
        BY <1>0, <4>1, <4>2 DEF TaskDesc, States
      <4>3. CASE known = FALSE
        BY <1>0, <4>1, <4>3 DEF TaskDesc, States
      <4> QED
        BY <4>2, <4>3
    <3> QED
      BY <1>0, <2>5, <3>1, <3>2 DEF StartReturns, TaskInv, TaskDesc, Goto
  <2>6. CASE WaitServantTask(t)
    <3>1. [desc[t] EXCEPT !.retries = @ - 1] \in TaskDesc
      BY <1>0, <2>6 DEF TaskDesc, WaitServantTask, MayAsk
    <3> QED
      BY <1>0, <2>6, <3>1 DEF WaitServantTask, TaskInv, TaskDesc, Goto
  <2>7. CASE AnsweredDone(t)
    <3>1. PICK o \in {"servant's", "failed"} : desc' = [desc EXCEPT ![t].output = o]
      BY <2>7 DEF AnsweredDone
    <3>2. [desc[t] EXCEPT !.output = o] \in TaskDesc
      BY <1>0 DEF TaskDesc, Outputs
    <3> QED
      BY <1>0, <2>7, <3>1, <3>2 DEF AnsweredDone, TaskInv, TaskDesc, Goto
  <2>8. CASE UnpackThrows(t)
    <3>1. [desc[t] EXCEPT !.grant = "left"] \in TaskDesc
      BY <1>0 DEF TaskDesc, Grants
    <3> QED
      BY <1>0, <2>8, <3>1 DEF UnpackThrows, TaskInv, TaskDesc, Goto
  <2>9. CASE Complete(t)
    <3>1. [desc[t] EXCEPT !.state = "Done", !.event = TRUE] \in TaskDesc
      BY <1>0 DEF TaskDesc, States
    <3> QED
      BY <1>0, <2>9, <3>1 DEF Complete, TaskInv, TaskDesc, Goto
  <2> QED
    BY <2>1, <2>2, <2>3, <2>4, <2>5, <2>6, <2>7, <2>8, <2>9 DEF Perform, Thread
<1>5. TypeOK'
  <2>1. desc' \in [Tasks -> TaskDesc]
    BY <1>0, <1>4
  <2>2. pc' \in [Tasks -> Labels]
    BY <1>0, <1>2
  <2> QED
    BY <1>0, <1>1, <1>3, <2>1, <2>2 DEF TypeOK
<1>6. ASSUME NEW u \in Tasks PROVE TaskInv(u)'
  <2>1. CASE u = t
    <3>1. desc'[t].task = desc[t].task
      BY <1>0, <1>4
    <3>2. /\ desc'[t].state = "Done" <=> pc'[t] = "over"
          /\ desc'[t].output = "unwritten" => pc'[t] \in {"new", "not started", "perform"}
          /\ pc'[t] \in {"get", "getting", "start", "wait", "asking"} =>
                desc'[t].output = "not run"
          /\ desc'[t].grant = "held" =>
                pc'[t] \in {"start", "wait", "asking", "free", "return"}
          /\ desc'[t].grant = "left" =>
                desc'[t].output = "not run" /\ pc'[t] \in {"complete", "over"}
          /\ desc'[t].event => pc'[t] = "over"
      BY <1>0, <1>4
    <3>3. desc[t].task
      BY <1>0 DEF TaskInv
    <3> QED
      BY <1>1, <2>1, <3>1, <3>2, <3>3 DEF TaskInv
  <2>2. CASE u # t
    <3>1. desc'[u] = desc[u] /\ pc'[u] = pc[u] /\ TaskInv(u)
      BY <1>0, <1>2, <1>4, <2>2 DEF IInv
    <3> QED
      BY <1>1, <3>1 DEF TaskInv
  <2> QED
    BY <2>1, <2>2
<1> QED
  BY <1>0, <1>1, <1>2, <1>4, <1>5, <1>6, ThreadStep

\* Queueing a task adds an entry that has its object.
LEMMA QueueTaskIInv ==
    ASSUME IInv, NEW t \in Tasks, QueueTask(t)
    PROVE  IInv'
<1>1. TypeOK'
  BY DEF IInv, QueueTask, TypeOK, Goto, Labels
<1>2. ASSUME NEW u \in Tasks PROVE TaskInv(u)'
  <2>1. TaskInv(u) /\ desc' = desc /\ tasks' = tasks \cup {t} /\ pc \in [Tasks -> Labels]
    BY DEF IInv, TypeOK, QueueTask
  <2>2. CASE u = t
    <3>1. pc[t] = "new" /\ pc'[t] \in {"perform", "not started"}
      BY <2>1 DEF QueueTask, Goto
    <3> QED
      BY <2>1, <2>2, <3>1 DEF TaskInv
  <2>3. CASE u # t
    <3>1. pc'[u] = pc[u]
      BY <2>1, <2>3 DEF QueueTask, Goto
    <3> QED
      BY <2>1, <2>3, <3>1 DEF TaskInv
  <2> QED
    BY <2>2, <2>3
<1> QED
  BY <1>1, <1>2, ThreadStep DEF IInv, TypeOK, QueueTask, Goto

\* The timers and the environment change no thread and no object.
LEMMA TimerIInv ==
    ASSUME IInv, TypeOK', pc' = pc, handler' = handler, tasks' \subseteq tasks,
           \A t \in Tasks :
              /\ desc'[t].state = desc[t].state /\ desc'[t].output = desc[t].output
              /\ desc'[t].grant = desc[t].grant /\ desc'[t].event = desc[t].event
              /\ desc'[t].task = desc[t].task
    PROVE  IInv'
<1>1. ASSUME NEW t \in Tasks PROVE TaskInv(t)'
  BY DEF IInv, TaskInv
<1> QED
  BY <1>1, ThreadStep

\* Setting aborted leaves the rest of the descriptors alone.
LEMMA AbortedTypes ==
    ASSUME TypeOK, NEW T
    PROVE  /\ Aborted(T) \in [Tasks -> TaskDesc]
           /\ \A t \in Tasks :
                 /\ Aborted(T)[t].state = desc[t].state
                 /\ Aborted(T)[t].output = desc[t].output
                 /\ Aborted(T)[t].grant = desc[t].grant
                 /\ Aborted(T)[t].event = desc[t].event
                 /\ Aborted(T)[t].task = desc[t].task
  BY DEF TypeOK, Aborted, TaskDesc

\* The clearing and aborting timers, the keep-alive call and the environment.
LEMMA TimersIInv ==
    ASSUME IInv,
           \/ OnTimerTimeoutAbort \/ OnTimerKeepAlive \/ KeepAliveReturns
           \/ OnTimerKilledAbort \/ OnTimerClear
           \/ \E t \in Tasks : \/ TimePasses(t) \/ KeepAliveLapses(t)
                              \/ ClientDies(t) \/ ServantMoves(t)
    PROVE  IInv'
<1>0. TypeOK /\ desc \in [Tasks -> TaskDesc]
  BY DEF IInv, TypeOK
<1>1. CASE OnTimerTimeoutAbort
  BY <1>0, <1>1, AbortedTypes, TimerIInv DEF OnTimerTimeoutAbort, TypeOK
<1>2. CASE OnTimerKilledAbort
  BY <1>0, <1>2, AbortedTypes, TimerIInv DEF OnTimerKilledAbort, TypeOK
<1>3. CASE OnTimerKeepAlive
  <2>1. PICK lost : desc' = Aborted(lost) /\ keeping' = Busy \ lost
    BY <1>3 DEF OnTimerKeepAlive
  <2>2. keeping' \in SUBSET Tasks
    BY <1>0, <2>1 DEF TypeOK, Busy
  <2> QED
    BY <1>0, <1>3, <2>1, <2>2, AbortedTypes, TimerIInv DEF OnTimerKeepAlive, TypeOK
<1>4. CASE KeepAliveReturns
  <2>1. PICK kept \in SUBSET keeping :
           desc' = [t \in Tasks |-> IF t \in kept \cap tasks
                                    THEN [desc[t] EXCEPT !.stale = FALSE]
                                    ELSE desc[t]]
    BY <1>4 DEF KeepAliveReturns
  <2>2. /\ desc' \in [Tasks -> TaskDesc]
        /\ \A t \in Tasks :
              /\ desc'[t].state = desc[t].state /\ desc'[t].output = desc[t].output
              /\ desc'[t].grant = desc[t].grant /\ desc'[t].event = desc[t].event
              /\ desc'[t].task = desc[t].task
    BY <1>0, <2>1 DEF TaskDesc
  <2> QED
    BY <1>0, <1>4, <2>2, TimerIInv DEF KeepAliveReturns, TypeOK
<1>5. CASE OnTimerClear
  BY <1>0, <1>5, TimerIInv DEF OnTimerClear, TypeOK
<1>6. ASSUME NEW t \in Tasks, KeepAliveLapses(t)
      PROVE  IInv'
  <2>1. /\ desc' \in [Tasks -> TaskDesc]
        /\ \A u \in Tasks :
              /\ desc'[u].state = desc[u].state /\ desc'[u].output = desc[u].output
              /\ desc'[u].grant = desc[u].grant /\ desc'[u].event = desc[u].event
              /\ desc'[u].task = desc[u].task
    BY <1>0, <1>6 DEF KeepAliveLapses, TaskDesc
  <2> QED
    BY <1>0, <1>6, <2>1, TimerIInv DEF KeepAliveLapses, TypeOK
<1>7. ASSUME NEW t \in Tasks, TimePasses(t) \/ ClientDies(t) \/ ServantMoves(t)
      PROVE  IInv'
  <2>1. TypeOK'
    BY <1>0, <1>7 DEF TimePasses, ClientDies, ServantMoves, TypeOK
  <2> QED
    BY <1>7, <2>1, TimerIInv DEF TimePasses, ClientDies, ServantMoves
<1> QED
  BY <1>1, <1>2, <1>3, <1>4, <1>5, <1>6, <1>7

-----------------------------------------------------------------------------
\* A handler goes from idle to waiting or back: nobody starts taking.
LEMMA HandlerIdleIInv ==
    ASSUME IInv, NEW h \in Handlers,
           (\E t \in Tasks : WaitForTask(h, t)) \/ WaitTimesOut(h) \/ WaitReturns(h)
    PROVE  IInv'
<1>1. PICK c \in {Idle} \cup [pc : {"wait"}, task : Tasks] :
         handler' = [handler EXCEPT ![h] = c]
  BY DEF WaitForTask, WaitTimesOut, WaitReturns
<1>2. /\ tasks' = tasks /\ desc' = desc /\ pc' = pc /\ keeping' = keeping
      /\ age' = age /\ alive' = alive /\ servant' = servant
  BY DEF WaitForTask, WaitTimesOut, WaitReturns
<1>3. c \in Calls /\ c.pc \in {"idle", "wait"}
  BY DEF Calls, Idle
<1>4. TypeOK'
  BY <1>1, <1>2, <1>3 DEF IInv, TypeOK
<1>5. \A g \in Handlers : g # h => handler'[g] = handler[g]
  BY <1>1 DEF IInv, TypeOK
<1>6. handler'[h] = c
  BY <1>1 DEF IInv, TypeOK
<1>7. \A t \in Tasks : TaskInv(t)'
  BY <1>2 DEF IInv, TaskInv
<1>8. ASSUME NEW g \in Handlers PROVE HandlerInv(g)'
  BY <1>2, <1>3, <1>5, <1>6 DEF IInv, HandlerInv, Taking
<1>9. OneTaker'
  BY <1>3, <1>5, <1>6 DEF IInv, OneTaker, Taking
<1> QED
  BY <1>4, <1>7, <1>8, <1>9 DEF IInv

\* The event is taken: before it nobody was taking this task.
LEMMA WaitSignalledIInv ==
    ASSUME IInv, NEW h \in Handlers, WaitSignalled(h)
    PROVE  IInv'
<1> DEFINE t == handler[h].task
<1>1. /\ t \in Tasks /\ handler[h].pc = "wait"
      /\ handler[h] = [pc |-> "wait", task |-> t]
  BY TakingTypes DEF IInv, WaitSignalled
<1>2. /\ desc[t].event /\ desc' = [desc EXCEPT ![t].event = FALSE]
      /\ handler' = [handler EXCEPT ![h].pc = "erase"]
      /\ tasks' = tasks /\ pc' = pc /\ keeping' = keeping
      /\ age' = age /\ alive' = alive /\ servant' = servant
  BY DEF WaitSignalled, EventTaken
<1>3. /\ handler \in [Handlers -> Calls] /\ desc \in [Tasks -> TaskDesc]
      /\ TaskInv(t)
  BY <1>1 DEF IInv, TypeOK
<1>4. handler'[h] = [pc |-> "erase", task |-> t]
  BY <1>1, <1>2, <1>3
<1>5. \A g \in Handlers : g # h => handler'[g] = handler[g]
  BY <1>2, <1>3
<1>6. desc'[t] \in TaskDesc
  BY <1>1, <1>2, <1>3 DEF TaskDesc
<1>7. TypeOK'
  <2>1. handler'[h] \in Calls
    BY <1>1, <1>4 DEF Calls
  <2>2. handler' \in [Handlers -> Calls]
    BY <1>2, <1>3, <1>5, <2>1
  <2>3. desc' \in [Tasks -> TaskDesc]
    BY <1>2, <1>3, <1>6
  <2> QED
    BY <1>2, <2>2, <2>3 DEF IInv, TypeOK
<1>8. /\ desc'[t].event = FALSE /\ desc'[t].task = desc[t].task
      /\ desc'[t].state = desc[t].state /\ desc'[t].output = desc[t].output
      /\ desc'[t].grant = desc[t].grant
      /\ \A u \in Tasks : u # t => desc'[u] = desc[u]
  BY <1>1, <1>2, <1>3 DEF TaskDesc
<1>9. \A u \in Tasks : TaskInv(u)'
  BY <1>2, <1>3, <1>8 DEF IInv, TaskInv
<1>10. \A g \in Handlers : Taking(g) => handler[g].task # t
  BY <1>2 DEF IInv, HandlerInv
<1>11. ASSUME NEW g \in Handlers PROVE HandlerInv(g)'
  <2>1. CASE g = h
    BY <1>2, <1>3, <1>4, <1>8, <2>1 DEF HandlerInv, Taking, TaskInv
  <2>2. CASE g # h
    <3>1. handler'[g] = handler[g] /\ HandlerInv(g)
      BY <1>5, <2>2 DEF IInv
    <3>2. Taking(g) => handler[g].task \in Tasks /\ handler[g].task # t
      BY <1>10, TakingTypes DEF IInv, Taking
    <3>3. Taking(g) => desc'[handler[g].task] = desc[handler[g].task]
      BY <1>8, <3>2
    <3>4. pc' = pc /\ tasks' = tasks
      BY <1>2
    <3> QED
      BY <3>1, <3>3, <3>4 DEF HandlerInv, Taking
  <2> QED
    BY <2>1, <2>2
<1>12. OneTaker'
  BY <1>4, <1>5, <1>10 DEF IInv, OneTaker, Taking
<1> QED
  BY <1>7, <1>9, <1>11, <1>12 DEF IInv

\* The entry is erased; the object stays.
LEMMA WaitErasesIInv ==
    ASSUME IInv, NEW h \in Handlers, WaitErases(h)
    PROVE  IInv'
<1> DEFINE t == handler[h].task
<1>1. /\ t \in Tasks /\ handler[h].pc = "erase"
      /\ handler[h] = [pc |-> "erase", task |-> t]
  BY TakingTypes DEF IInv, WaitErases
<1>2. /\ tasks' = tasks \ {t} /\ handler' = [handler EXCEPT ![h].pc = "take"]
      /\ desc' = desc /\ pc' = pc /\ keeping' = keeping
      /\ age' = age /\ alive' = alive /\ servant' = servant
  BY DEF WaitErases, ErasedFromTable
<1>3. handler \in [Handlers -> Calls]
  BY DEF IInv, TypeOK
<1>4. handler'[h] = [pc |-> "take", task |-> t]
  BY <1>1, <1>2, <1>3
<1>5. \A g \in Handlers : g # h => handler'[g] = handler[g]
  BY <1>2, <1>3
<1>6. TypeOK'
  <2>1. handler'[h] \in Calls
    BY <1>1, <1>4 DEF Calls
  <2>2. handler' \in [Handlers -> Calls]
    BY <1>2, <1>3, <1>5, <2>1
  <2> QED
    BY <1>2, <2>2 DEF IInv, TypeOK
<1>7. \A u \in Tasks : TaskInv(u)'
  BY <1>2 DEF IInv, TaskInv
<1>8. HandlerInv(h)'
  <2>1. HandlerInv(h)
    BY DEF IInv
  <2> QED
    BY <1>1, <1>2, <1>4, <2>1 DEF HandlerInv, Taking
<1>9. ASSUME NEW g \in Handlers, g # h PROVE HandlerInv(g)'
  BY <1>2, <1>5, <1>9 DEF IInv, HandlerInv, Taking
<1>10. OneTaker'
  BY <1>1, <1>4, <1>5 DEF IInv, OneTaker, Taking
<1> QED
  BY <1>6, <1>7, <1>8, <1>9, <1>10 DEF IInv

\* The object is moved out of a task that is no longer in the table, by the
\* only handler that takes it.
LEMMA WaitTakesIInv ==
    ASSUME IInv, NEW h \in Handlers, WaitTakes(h)
    PROVE  IInv'
<1> DEFINE t == handler[h].task
<1>1. /\ t \in Tasks /\ handler[h].pc = "take" /\ Taking(h)
  BY TakingTypes DEF IInv, WaitTakes, Taking
<1>2. /\ TaskInv(t) /\ HandlerInv(h)
      /\ handler \in [Handlers -> Calls] /\ desc \in [Tasks -> TaskDesc]
  BY <1>1 DEF IInv, TypeOK
<1>3. /\ pc[t] = "over" /\ desc[t].task /\ ~desc[t].event /\ t \notin tasks
      /\ desc[t].output # "unwritten" /\ desc[t].output \in Outputs
  BY <1>1, <1>2 DEF HandlerInv, TaskInv, TaskDesc
<1>4. /\ desc' = [desc EXCEPT ![t].task = FALSE]
      /\ handler' = [handler EXCEPT ![h] =
                       [pc |-> "ok", task |-> t, result |-> desc[t].output]]
      /\ tasks' = tasks /\ pc' = pc /\ keeping' = keeping
      /\ age' = age /\ alive' = alive /\ servant' = servant
  BY <1>3 DEF WaitTakes
<1>5. /\ handler'[h] = [pc |-> "ok", task |-> t, result |-> desc[t].output]
      /\ \A g \in Handlers : g # h => handler'[g] = handler[g]
  BY <1>2, <1>4
<1>6. /\ desc'[t] \in TaskDesc
      /\ desc'[t].task = FALSE /\ desc'[t].event = desc[t].event
      /\ desc'[t].state = desc[t].state /\ desc'[t].output = desc[t].output
      /\ desc'[t].grant = desc[t].grant
      /\ \A u \in Tasks : u # t => desc'[u] = desc[u]
  BY <1>1, <1>2, <1>4 DEF TaskDesc
<1>7. TypeOK'
  <2>1. handler'[h] \in Calls
    BY <1>1, <1>3, <1>5 DEF Calls
  <2>2. handler' \in [Handlers -> Calls]
    BY <1>2, <1>4, <1>5, <2>1
  <2>3. desc' \in [Tasks -> TaskDesc]
    BY <1>2, <1>4, <1>6
  <2> QED
    BY <1>4, <2>2, <2>3 DEF IInv, TypeOK
<1>8. ASSUME NEW u \in Tasks PROVE TaskInv(u)'
  <2>1. CASE u = t
    BY <1>2, <1>3, <1>4, <1>6, <2>1 DEF TaskInv
  <2>2. CASE u # t
    <3>1. TaskInv(u)
      BY DEF IInv
    <3>2. /\ desc'[u].state = desc[u].state /\ desc'[u].output = desc[u].output
          /\ desc'[u].grant = desc[u].grant /\ desc'[u].event = desc[u].event
          /\ desc'[u].task = desc[u].task
          /\ pc'[u] = pc[u] /\ tasks' = tasks
      BY <1>4, <1>6, <2>2
    <3> QED
      BY <3>1, <3>2 DEF TaskInv
  <2> QED
    BY <2>1, <2>2
<1>9. HandlerInv(h)'
  <2>1. handler'[h].pc = "ok" /\ handler'[h].result \notin {"null", "unwritten"}
    <3>1. desc[t].output \notin {"null", "unwritten"}
      BY <1>3 DEF Outputs
    <3>2. handler'[h].pc = "ok" /\ handler'[h].result = desc[t].output
      BY <1>5
    <3> QED
      BY <3>1, <3>2
  <2> QED
    BY <2>1 DEF HandlerInv, Taking
<1>10. ASSUME NEW g \in Handlers, g # h PROVE HandlerInv(g)'
  <2>1. handler'[g] = handler[g] /\ HandlerInv(g)
    BY <1>5, <1>10 DEF IInv
  <2>2. Taking(g) => handler[g].task \in Tasks /\ handler[g].task # t
    BY <1>1, <1>10, TakingTypes DEF IInv, OneTaker, Taking
  <2>3. Taking(g) => desc'[handler[g].task] = desc[handler[g].task]
    BY <1>6, <2>2
  <2>4. pc' = pc /\ tasks' = tasks
    BY <1>4
  <2> QED
    BY <2>1, <2>3, <2>4 DEF HandlerInv, Taking
<1>11. OneTaker'
  BY <1>5 DEF IInv, OneTaker, Taking
<1> QED
  BY <1>7, <1>8, <1>9, <1>10, <1>11 DEF IInv

-----------------------------------------------------------------------------
\* Every step preserves the inductive invariant.
LEMMA NextIInv == IInv /\ [Next]_vars => IInv'
<1> SUFFICES ASSUME IInv, [Next]_vars PROVE IInv'
  OBVIOUS
<1>1. CASE \E t \in Tasks : QueueTask(t)
  BY <1>1, QueueTaskIInv
<1>2. CASE \E t \in Tasks : Perform(t)
  BY <1>2, PerformIInv
<1>3. CASE \/ OnTimerTimeoutAbort \/ OnTimerKeepAlive \/ KeepAliveReturns
           \/ OnTimerKilledAbort \/ OnTimerClear
           \/ \E t \in Tasks : \/ TimePasses(t) \/ KeepAliveLapses(t)
                              \/ ClientDies(t) \/ ServantMoves(t)
  BY <1>3, TimersIInv
<1>4. CASE \E h \in Handlers : \/ \E t \in Tasks : WaitForTask(h, t)
                               \/ WaitTimesOut(h) \/ WaitReturns(h)
  BY <1>4, HandlerIdleIInv
<1>5. CASE \E h \in Handlers : WaitSignalled(h)
  BY <1>5, WaitSignalledIInv
<1>6. CASE \E h \in Handlers : WaitErases(h)
  BY <1>6, WaitErasesIInv
<1>7. CASE \E h \in Handlers : WaitTakes(h)
  BY <1>7, WaitTakesIInv
<1>8. CASE UNCHANGED vars
  BY <1>8 DEF vars, IInv, TypeOK, TaskInv, HandlerInv, OneTaker, Taking
<1> QED
  BY <1>1, <1>2, <1>3, <1>4, <1>5, <1>6, <1>7, <1>8 DEF Next, Wait

\* The inductive invariant holds in every reachable state of the requester's
\* dispatcher.
THEOREM IInvHolds == Spec => []IInv
  BY InitIInv, NextIInv, PTL DEF Spec

\* The table, the descriptors and the threads of the requester's dispatcher keep
\* their types, and WaitServantTask never asks with its retries used up.
THEOREM TypeCorrect == Spec => []TypeOK
<1>1. IInv => TypeOK
  BY DEF IInv
<1> QED
  BY <1>1, IInvHolds, PTL

\* No timer ever finds a null DistTask in the table, though handlers move the
\* pointer out under another mutex than the one the timers hold.
THEOREM NoNullTask == Spec => []TasksHaveTheirObject
<1>1. IInv => TasksHaveTheirObject
  BY DEF IInv, TypeOK, TaskInv, TasksHaveTheirObject
<1> QED
  BY <1>1, IInvHolds, PTL

\* A handler that is told OK has a DistTask with a written output, however many
\* handlers wait for the task.
THEOREM ResultsAreWhole == Spec => []ResultsAreHandedOver
<1>1. IInv => ResultsAreHandedOver
  BY DEF IInv, HandlerInv, ResultsAreHandedOver
<1> QED
  BY <1>1, IInvHolds, PTL

\* Free was called for the grant of a completed task, whichever way its thread
\* left PerformTask, unless TryUnpackFiles threw; and then its client has the
\* output that says it was not run.  (That the scheduler hears of the call is
\* not so: Free does not wait for it.)
THEOREM FreeIsCalled == Spec => []GrantsReturned
<1>1. IInv => GrantsReturned
  BY DEF IInv, TaskInv, GrantsReturned
<1> QED
  BY <1>1, IInvHolds, PTL
=============================================================================
