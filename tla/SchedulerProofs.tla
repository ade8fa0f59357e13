-------------------------- MODULE SchedulerProofs --------------------------
(***************************************************************************)
(* Safety of Scheduler for every number of daemons, handler threads,       *)
(* requests and grants, and every content of heartbeats and requests.      *)
(***************************************************************************)
EXTENDS Scheduler, FiniteSetTheorems, TLAPS

\* Every grant id a handler has on its stack has been given out.
KnownIds ==
    /\ \A r \in Callers : \A a \in request[r].grants : a.id < next_task_id
    /\ \A h \in Handlers : beat[h].pc # "idle" =>
          /\ beat[h].running \subseteq 0 .. next_task_id - 1
          /\ beat[h].expired \subseteq 0 .. next_task_id - 1

\* A handler inside a call has something left to ask for.
HasWork(q) == q.pc \in {"call", "wait", "woken"} => q.imm > 0 \/ q.pre > 0

CallsHaveWork == \A r \in Callers : HasWork(request[r])

\* The invariant that is preserved by every step.
IInv == /\ TypeOK
        /\ KnownIds
        /\ CallsHaveWork
        /\ TasksOfLiveServants
        /\ RunningTasksExact

-----------------------------------------------------------------------------
\* The empty dispatcher satisfies the inductive invariant.
LEMMA InitIInv == Init => IInv
<1> SUFFICES ASSUME Init PROVE IInv
  OBVIOUS
<1>1. TypeOK
  <2>1. request \in [Callers -> RequestState]
    BY DEF Init, Idle, RequestState
  <2>2. beat \in [Handlers -> BeatState]
    BY DEF Init, BeatState, NoBeat
  <2>3. /\ servants \in [DOMAIN servants -> Servant] /\ DOMAIN servants = {}
        /\ tasks \in [DOMAIN tasks -> Task] /\ DOMAIN tasks = {}
        /\ bookkeeper \in [DOMAIN bookkeeper -> SUBSET Nat]
        /\ DOMAIN bookkeeper = {}
        /\ grants \in [DOMAIN grants -> Grant] /\ DOMAIN grants = {}
    BY DEF Init
  <2> QED
    BY <2>1, <2>2, <2>3 DEF Init, TypeOK
<1>2. KnownIds /\ CallsHaveWork
  BY DEF Init, KnownIds, CallsHaveWork, HasWork, Idle, NoBeat
<1>3. TasksOfLiveServants /\ RunningTasksExact
  BY DEF Init, TasksOfLiveServants, RunningTasksExact
<1> QED
  BY <1>1, <1>2, <1>3 DEF IInv

\* The tasks of one servant are finitely many.
LEMMA FiniteOnServant ==
    ASSUME TypeOK, NEW s
    PROVE  IsFiniteSet(OnServant(s)) /\ Cardinality(OnServant(s)) \in Nat
<1>1. IsFiniteSet(0 .. next_task_id - 1)
  <2>1. 0 \in Int /\ next_task_id - 1 \in Int
    BY DEF TypeOK
  <2> QED
    BY <2>1, FS_Interval
<1>2. OnServant(s) \in SUBSET (0 .. next_task_id - 1)
  BY DEF OnServant, TypeOK
<1>3. IsFiniteSet(OnServant(s))
  BY <1>1, <1>2, FS_Subset
<1> QED
  BY <1>3, FS_CardinalityType

\* Giving back the tasks `ids' leaves every servant of the table ss with the
\* number of its tasks that are not among them.
LEMMA ReleasedCounts ==
    ASSUME TypeOK, RunningTasksExact, NEW ids,
           NEW ss, DOMAIN ss \subseteq DOMAIN servants,
           \A s \in DOMAIN ss : ss[s] = servants[s]
    PROVE  /\ Released(ss, ids) \in [DOMAIN ss -> Servant]
           /\ \A s \in DOMAIN ss :
                 /\ Released(ss, ids)[s].running = Cardinality(OnServant(s) \ ids)
                 /\ Released(ss, ids)[s].info = servants[s].info
                 /\ Released(ss, ids)[s].expiry = servants[s].expiry
<1> DEFINE S == DOMAIN ss
           R == Released(ss, ids)
<1>1. R = [s \in S |-> [servants[s] EXCEPT !.running =
                            @ - Cardinality(OnServant(s) \cap ids)]]
  BY DEF Released
<1>2. ASSUME NEW s \in S
      PROVE  /\ R[s] \in Servant
             /\ R[s].running = Cardinality(OnServant(s) \ ids)
             /\ R[s].info = servants[s].info
             /\ R[s].expiry = servants[s].expiry
  <2>1. servants[s] \in Servant
    BY DEF TypeOK
  <2>2. servants[s].running = Cardinality(OnServant(s))
    BY DEF RunningTasksExact
  <2>3. /\ IsFiniteSet(OnServant(s) \ ids)
        /\ Cardinality(OnServant(s) \ ids)
              = Cardinality(OnServant(s)) - Cardinality(OnServant(s) \cap ids)
    BY FiniteOnServant, FS_Difference
  <2>4. Cardinality(OnServant(s) \ ids) \in Nat
    BY <2>3, FS_CardinalityType
  <2>5. R[s] = [servants[s] EXCEPT !.running = Cardinality(OnServant(s) \ ids)]
    BY <1>1, <2>1, <2>2, <2>3
  <2> QED
    BY <2>1, <2>4, <2>5 DEF Servant
<1>3. R = [s \in S |-> R[s]]
  BY <1>1
<1> QED
  BY <1>2, <1>3

\* What notify_all leaves of the requests.
LEMMA NotifyAllTypes ==
    ASSUME TypeOK, NotifyAll
    PROVE  /\ request' \in [Callers -> RequestState]
           /\ \A r \in Callers : request'[r].grants = request[r].grants
           /\ CallsHaveWork => CallsHaveWork'
  BY DEF TypeOK, NotifyAll, RequestState, CallsHaveWork, HasWork

\* Settle, which moves WaitForStaringTask on to its next loop, keeps the
\* grants collected so far and leaves a call in progress with work to do.
LEMMA SettleTypes ==
    ASSUME NEW q \in RequestState
    PROVE  /\ Settle(q) \in RequestState
           /\ Settle(q).grants = q.grants
           /\ HasWork(Settle(q))
  BY DEF Settle, RequestState, HasWork

-----------------------------------------------------------------------------
(***************************************************************************)
(* Steps that leave the dispatcher's tables alone.                         *)
(***************************************************************************)

\* A step that changes one handler's stack only keeps the invariant, when the
\* grants on it are ids that have been handed out.
LEMMA RequestStep ==
    ASSUME IInv, UNCHANGED <<dispatcherVars, beat, timer, grants, up>>,
           NEW r \in Callers, NEW q \in RequestState, HasWork(q),
           request' = [request EXCEPT ![r] = q],
           \A a \in q.grants : a.id < next_task_id
    PROVE  IInv'
<1>1. TypeOK'
  BY DEF IInv, TypeOK, dispatcherVars
<1>2. KnownIds'
  BY DEF IInv, TypeOK, KnownIds, dispatcherVars
<1>4. CallsHaveWork'
  BY DEF IInv, TypeOK, CallsHaveWork
<1>3. TasksOfLiveServants' /\ RunningTasksExact'
  BY DEF IInv, TasksOfLiveServants, RunningTasksExact, OnServant, dispatcherVars
<1> QED
  BY <1>1, <1>2, <1>3, <1>4 DEF IInv

\* A call of WaitForStaringTask begins.
LEMMA BeginRequestIInv ==
    ASSUME IInv, NEW r \in Callers, NEW ask \in Asks, BeginRequest(r, ask)
    PROVE  IInv'
<1> DEFINE q == [Idle EXCEPT !.env = ask.env, !.min_version = ask.min_version,
                             !.imm = ask.imm, !.pre = ask.pre]
<1>1. ask \in StartingTaskRequest
  BY RequestsAssumption
<1>2. q \in RequestState /\ q.grants = {}
  BY <1>1 DEF Idle, RequestState, StartingTaskRequest
<1>3. /\ Settle(q) \in RequestState /\ Settle(q).grants = {}
      /\ HasWork(Settle(q))
  BY <1>2, SettleTypes
<1>4. request' = [request EXCEPT ![r] = Settle(q)]
  BY DEF BeginRequest
<1>5. UNCHANGED <<dispatcherVars, beat, timer, grants, up>>
  BY DEF BeginRequest
<1> QED
  BY <1>3, <1>4, <1>5, RequestStep

\* What the outcomes of a call make of the handler's stack.
LEMMA OutcomeTypes ==
    ASSUME NEW q \in RequestState
    PROVE  /\ TimedOut(q) \in RequestState
           /\ TimedOut(q).grants = q.grants
           /\ HasWork(TimedOut(q))
           /\ NotFound(q) \in RequestState
           /\ HasWork(NotFound(q))
           /\ NotFound(q).grants \subseteq q.grants
           /\ \A a \in Allocation : q.imm > 0 \/ q.pre > 0 =>
                 /\ Granted(q, a) \in RequestState
                 /\ Granted(q, a).grants = q.grants \cup {a}
                 /\ HasWork(Granted(q, a))
<1>1. /\ TimedOut(q) \in RequestState /\ TimedOut(q).grants = q.grants
      /\ HasWork(TimedOut(q))
  <2> DEFINE p == IF q.imm > 0 THEN [q EXCEPT !.imm = 0] ELSE [q EXCEPT !.pre = 0]
  <2>1. p \in RequestState /\ p.grants = q.grants
    BY DEF RequestState
  <2> QED
    BY <2>1, SettleTypes DEF TimedOut
<1>2. /\ NotFound(q) \in RequestState /\ NotFound(q).grants \subseteq q.grants
      /\ HasWork(NotFound(q))
  <2>1. CASE q.imm > 0
    BY <2>1 DEF NotFound, RequestState, HasWork
  <2>2. CASE ~(q.imm > 0)
    <3> DEFINE p == [q EXCEPT !.pre = 0]
    <3>1. p \in RequestState /\ p.grants = q.grants
      BY DEF RequestState
    <3> QED
      BY <2>2, <3>1, SettleTypes DEF NotFound
  <2> QED
    BY <2>1, <2>2
<1>3. ASSUME NEW a \in Allocation, q.imm > 0 \/ q.pre > 0
      PROVE  /\ Granted(q, a) \in RequestState
             /\ Granted(q, a).grants = q.grants \cup {a}
             /\ HasWork(Granted(q, a))
  <2> DEFINE p == IF q.imm > 0
                  THEN [q EXCEPT !.imm = @ - 1, !.grants = @ \cup {a}]
                  ELSE [q EXCEPT !.pre = @ - 1, !.grants = @ \cup {a}]
  <2>1. p \in RequestState /\ p.grants = q.grants \cup {a}
    <3>1. q.imm \in Nat /\ q.pre \in Nat
      BY DEF RequestState
    <3>2. CASE q.imm > 0
      <4>1. q.imm - 1 \in Nat
        BY <3>1, <3>2
      <4> QED
        BY <3>2, <4>1 DEF RequestState
    <3>3. CASE ~(q.imm > 0)
      <4>1. q.pre - 1 \in Nat
        BY <1>3, <3>1, <3>3
      <4> QED
        BY <3>3, <4>1 DEF RequestState
    <3> QED
      BY <3>2, <3>3
  <2> QED
    BY <2>1, SettleTypes DEF Granted
<1> QED
  BY <1>1, <1>2, <1>3

\* WaitForStartingNewTask finds no servant, sleeps, wakes or times out.
LEMMA RequestOutcomeIInv ==
    ASSUME IInv, NEW r \in Callers,
           \/ EnvNotFound(r) \/ WaitForFreeServant(r)
           \/ WaitTimeout(r) \/ SpuriousWakeup(r)
    PROVE  IInv'
<1> DEFINE q == request[r]
<1>1. /\ q \in RequestState /\ HasWork(q)
      /\ \A a \in q.grants : a.id < next_task_id
  BY DEF IInv, TypeOK, KnownIds, CallsHaveWork
<1>2. UNCHANGED <<dispatcherVars, beat, timer, grants, up>>
  BY DEF EnvNotFound, WaitForFreeServant, WaitTimeout, SpuriousWakeup
<1>3. CASE EnvNotFound(r)
  <2>1. request' = [request EXCEPT ![r] = NotFound(q)]
    BY <1>3 DEF EnvNotFound
  <2> QED
    BY <1>1, <1>2, <2>1, OutcomeTypes, RequestStep
<1>4. CASE WaitForFreeServant(r)
  <2> DEFINE p == IF MayWait(q) THEN [q EXCEPT !.pc = "wait"] ELSE TimedOut(q)
  <2>1. request' = [request EXCEPT ![r] = p]
    BY <1>4 DEF WaitForFreeServant
  <2>2. p \in RequestState /\ p.grants = q.grants /\ HasWork(p)
    <3>1. CASE MayWait(q)
      BY <1>1, <1>4, <3>1 DEF WaitForFreeServant, Holding, HasWork, RequestState
    <3>2. CASE ~MayWait(q)
      BY <1>1, <3>2, OutcomeTypes
    <3> QED
      BY <3>1, <3>2
  <2> QED
    BY <1>1, <1>2, <2>1, <2>2, RequestStep
<1>5. CASE WaitTimeout(r)
  <2> DEFINE p == [q EXCEPT !.overdue = TRUE]
  <2>1. request' = [request EXCEPT ![r] = TimedOut(p)]
    BY <1>5 DEF WaitTimeout
  <2>2. p \in RequestState /\ p.grants = q.grants
    BY <1>1 DEF RequestState
  <2> HIDE DEF p
  <2>3. /\ TimedOut(p) \in RequestState /\ TimedOut(p).grants = q.grants
        /\ HasWork(TimedOut(p))
    BY <2>2, OutcomeTypes
  <2> QED
    BY <1>1, <1>2, <2>1, <2>3, RequestStep
<1>6. CASE SpuriousWakeup(r)
  <2> DEFINE p == [q EXCEPT !.pc = "woken"]
  <2>1. request' = [request EXCEPT ![r] = p]
    BY <1>6 DEF SpuriousWakeup
  <2>2. p \in RequestState /\ p.grants = q.grants /\ HasWork(p)
    BY <1>1, <1>6 DEF SpuriousWakeup, HasWork, RequestState
  <2> QED
    BY <1>1, <1>2, <2>1, <2>2, RequestStep
<1> QED
  BY <1>3, <1>4, <1>5, <1>6

\* Steps of the environment: the state of grants and daemons.
LEMMA EnvironmentStep ==
    ASSUME IInv, UNCHANGED <<dispatcherVars, request, beat, timer>>,
           up' \subseteq Daemons,
           grants' \in [DOMAIN grants -> Grant]
    PROVE  IInv'
<1>1. TypeOK'
  BY DEF IInv, TypeOK, dispatcherVars
<1>2. KnownIds' /\ CallsHaveWork'
  BY DEF IInv, KnownIds, CallsHaveWork, HasWork, dispatcherVars
<1>3. TasksOfLiveServants' /\ RunningTasksExact'
  BY DEF IInv, TasksOfLiveServants, RunningTasksExact, OnServant, dispatcherVars
<1> QED
  BY <1>1, <1>2, <1>3 DEF IInv

\* A grant its holder lets go of is still a grant.
LEMMA DroppedTypes ==
    ASSUME NEW g \in Grant
    PROVE  Dropped(g) \in Grant
  BY DEF Dropped, Grant

\* The holder submits a task or vanishes; the servant runs, ends or forgets it.
LEMMA GrantStepIInv ==
    ASSUME IInv, NEW id \in DOMAIN grants,
           SubmitTask(id) \/ AbandonGrant(id) \/ ServantStep(id)
    PROVE  IInv'
<1>0. grants[id] \in Grant
  BY DEF IInv, TypeOK
<1>1. CASE AbandonGrant(id)
  <2>1. grants' \in [DOMAIN grants -> Grant]
    BY <1>0, <1>1, DroppedTypes DEF AbandonGrant, IInv, TypeOK
  <2> QED
    BY <1>1, <2>1, EnvironmentStep DEF AbandonGrant, IInv, TypeOK
<1>2. ASSUME NEW from, NEW to \in {"queued", "running", "ended", "done"},
             Advance(id, from, to)
      PROVE  IInv'
  <2>1. [grants[id] EXCEPT !.stage = to] \in Grant
    BY <1>0, <1>2 DEF Grant
  <2>2. grants' \in [DOMAIN grants -> Grant]
    BY <1>2, <2>1 DEF Advance, IInv, TypeOK
  <2> QED
    BY <1>2, <2>2, EnvironmentStep DEF Advance, IInv, TypeOK
<1> QED
  BY <1>1, <1>2
     DEF SubmitTask, ServantStep, ServantStarts, ServantRefuses, ServantFinishes,
         ServantForgets

\* A daemon stops or starts.
LEMMA DaemonStepIInv ==
    ASSUME IInv, NEW d \in Daemons, DaemonStops(d) \/ DaemonStarts(d)
    PROVE  IInv'
<1>1. up' \subseteq Daemons
  BY DEF DaemonStops, DaemonStarts, IInv, TypeOK
<1>2. grants' \in [DOMAIN grants -> Grant]
  BY DEF DaemonStops, DaemonStarts, IInv, TypeOK, Grant
<1> QED
  BY <1>1, <1>2, EnvironmentStep DEF DaemonStops, DaemonStarts

\* The reply of WaitForStaringTask hands the collected grants to the caller.
LEMMA ReplyIInv ==
    ASSUME IInv, NEW r \in Callers, NEW delivered \in BOOLEAN,
           Reply(r, delivered)
    PROVE  IInv'
<1> DEFINE got == IF delivered THEN request[r].grants ELSE {}
           ids == {a.id : a \in got}
<1>1. /\ got \subseteq Allocation
      /\ \A a \in got : a.id < next_task_id
  BY DEF IInv, TypeOK, KnownIds, RequestState
<1>2. ids \subseteq 0 .. next_task_id - 1
  BY <1>1 DEF IInv, TypeOK, Allocation
<1>3. \A id \in ids : (CHOOSE a \in got : a.id = id).loc \in Locations
  BY <1>1 DEF Allocation
<1>4. grants' = [id \in DOMAIN grants \cup ids |->
                   IF id \in ids
                   THEN [loc |-> (CHOOSE a \in got : a.id = id).loc,
                         stage |-> "held", kept |-> TRUE]
                   ELSE grants[id]]
  BY DEF Reply
<1> HIDE DEF got, ids
<1>5. grants' \in [DOMAIN grants \cup ids -> Grant]
  BY <1>3, <1>4 DEF IInv, TypeOK, Grant
<1>6. Idle \in RequestState /\ Idle.grants = {} /\ HasWork(Idle)
  BY DEF Idle, RequestState, HasWork
<1>7. /\ request' = [request EXCEPT ![r] = Idle]
      /\ UNCHANGED <<dispatcherVars, beat, timer, up>>
  BY DEF Reply
<1>8. TypeOK'
  BY <1>2, <1>5, <1>6, <1>7 DEF IInv, TypeOK, dispatcherVars
<1>9. KnownIds' /\ CallsHaveWork'
  BY <1>6, <1>7 DEF IInv, TypeOK, KnownIds, CallsHaveWork, dispatcherVars
<1>10. TasksOfLiveServants' /\ RunningTasksExact'
  BY <1>7
     DEF IInv, TasksOfLiveServants, RunningTasksExact, OnServant, dispatcherVars
<1> QED
  BY <1>8, <1>9, <1>10 DEF IInv

-----------------------------------------------------------------------------
(***************************************************************************)
(* Heartbeats: the steps outside the dispatcher.                           *)
(***************************************************************************)

BeatCall == [pc : {"sent", "alive", "reply"}, daemon : Daemons,
             info : HeartBeatRequest, running : SUBSET Nat,
             expired : SUBSET Nat]

\* A heartbeat in progress has all the fields of one.
LEMMA BeatTypes ==
    ASSUME TypeOK, NEW h \in Handlers, beat[h].pc # "idle"
    PROVE  beat[h] \in BeatCall
  BY DEF TypeOK, BeatState, NoBeat, BeatCall

\* The parts of a heartbeat outside the dispatcher: it is sent, refused and
\* answered.
LEMMA OutsideIInv ==
    ASSUME IInv, NEW h \in Handlers,
           \/ \E d \in Daemons : \E b \in Beats[d] : SendHeartBeat(h, d, b)
           \/ HeartBeatRefused(h)
           \/ \E delivered \in BOOLEAN : HeartBeatReply(h, delivered)
    PROVE  IInv'
<1>1. UNCHANGED <<dispatcherVars, request, timer, up>>
  BY DEF SendHeartBeat, HeartBeatRefused, HeartBeatReply
<1>2. grants' \in [DOMAIN grants -> Grant]
  <2>1. CASE UNCHANGED grants
    BY <2>1 DEF IInv, TypeOK
  <2>2. ASSUME NEW delivered \in BOOLEAN, HeartBeatReply(h, delivered)
        PROVE  grants' \in [DOMAIN grants -> Grant]
    BY <2>2 DEF HeartBeatReply, IInv, TypeOK, Grant
  <2> QED
    BY <2>1, <2>2 DEF SendHeartBeat, HeartBeatRefused
<1> DEFINE Known(c) == c.pc # "idle" =>
                          /\ c.running \subseteq 0 .. next_task_id - 1
                          /\ c.expired \subseteq 0 .. next_task_id - 1
<1>3. \E c \in BeatState : beat' = [beat EXCEPT ![h] = c] /\ Known(c)
  <2>1. ASSUME NEW d \in Daemons, NEW b \in Beats[d], SendHeartBeat(h, d, b)
        PROVE  \E c \in BeatState : beat' = [beat EXCEPT ![h] = c] /\ Known(c)
    <3> DEFINE c == [pc |-> "sent", daemon |-> d, info |-> b,
                     running |-> RunningOn(d), expired |-> {}]
    <3>1. RunningOn(d) \subseteq 0 .. next_task_id - 1
      BY DEF RunningOn, IInv, TypeOK
    <3>2. b \in HeartBeatRequest
      BY DaemonsAssumption
    <3>3. c \in BeatState
      BY <3>1, <3>2 DEF BeatState, IInv, TypeOK
    <3>4. beat' = [beat EXCEPT ![h] = c]
      BY <2>1 DEF SendHeartBeat
    <3>5. Known(c)
      BY <3>1
    <3> QED
      BY <3>3, <3>4, <3>5
  <2>2. CASE beat' = [beat EXCEPT ![h] = NoBeat]
    <3>1. NoBeat \in BeatState /\ Known(NoBeat)
      BY DEF BeatState, NoBeat
    <3> QED
      BY <2>2, <3>1
  <2> QED
    BY <2>1, <2>2 DEF HeartBeatRefused, HeartBeatReply
<1>4. TypeOK'
  BY <1>1, <1>2, <1>3 DEF IInv, TypeOK, dispatcherVars
<1>5. KnownIds'
  BY <1>1, <1>3 DEF IInv, TypeOK, KnownIds, dispatcherVars
<1>6. CallsHaveWork' /\ TasksOfLiveServants' /\ RunningTasksExact'
  BY <1>1 DEF IInv, CallsHaveWork, HasWork, TasksOfLiveServants,
              RunningTasksExact, OnServant, dispatcherVars
<1> QED
  BY <1>4, <1>5, <1>6 DEF IInv

-----------------------------------------------------------------------------
(***************************************************************************)
(* The dispatcher.                                                         *)
(***************************************************************************)

\* A pick is a free servant, and a free servant is a live one.
LEMMA PickIsFree ==
    ASSUME NEW S, NEW s \in UnsafePickUpFreeServant(S)
    PROVE  s \in S
  BY DEF UnsafePickUpFreeServant, UnsafePickUpServant, First

\* A free servant is in the table, has the compiler and a slot to give.
LEMMA FreeIsLive ==
    ASSUME NEW q, NEW s \in FreeServantsFor(q)
    PROVE  /\ s \in DOMAIN servants
           /\ q.env \in servants[s].info.envs
           /\ servants[s].running < AvailableTasks(s)
  BY DEF FreeServantsFor, UnsafeGetFreeServants, UnsafeGetServantsHasEnv

\* WaitForStartingNewTask makes a task: the servant's counter and the set of
\* its tasks grow by one together.
LEMMA StartNewTaskIInv ==
    ASSUME IInv, NEW r \in Callers, StartNewTask(r)
    PROVE  IInv'
<1> DEFINE n == next_task_id
           q == request[r]
<1>1. PICK s \in UnsafePickUpFreeServant(FreeServantsFor(q)) :
          /\ servants' = [servants EXCEPT ![s].running = @ + 1]
          /\ tasks' = Put(tasks, n,
                          [servant |-> s, expiry |-> "valid", zombie |-> FALSE])
          /\ request' = [request EXCEPT ![r] =
                Granted(@, [id |-> n, loc |-> servants[s].info.loc])]
  BY DEF StartNewTask
<1> DEFINE a == [id |-> n, loc |-> servants[s].info.loc]
<1>2. s \in DOMAIN servants
  BY PickIsFree, FreeIsLive
<1>3. /\ n' = n + 1 /\ n \in Nat
      /\ UNCHANGED <<order, bookkeeper, beat, timer, grants, up>>
  BY DEF StartNewTask, IInv, TypeOK
<1>4. n \notin DOMAIN tasks
  BY DEF IInv, TypeOK
<1>5. /\ DOMAIN tasks' = DOMAIN tasks \cup {n}
      /\ tasks'[n] = [servant |-> s, expiry |-> "valid", zombie |-> FALSE]
      /\ \A id \in DOMAIN tasks : tasks'[id] = tasks[id]
      /\ tasks' = [id \in DOMAIN tasks' |-> tasks'[id]]
  BY <1>1, <1>4 DEF Put
<1>6. /\ servants[s] \in Servant
      /\ servants[s].running \in Nat
      /\ a \in Allocation
  BY <1>2, <1>3 DEF IInv, TypeOK, Servant, ServantInfo, Allocation
<1>7. /\ q \in RequestState
      /\ q.imm > 0 \/ q.pre > 0
      /\ \A g \in q.grants : g.id < n
  BY DEF StartNewTask, Holding, IInv, TypeOK, CallsHaveWork, HasWork, KnownIds
<1>8. /\ Granted(q, a) \in RequestState
      /\ Granted(q, a).grants = q.grants \cup {a}
      /\ HasWork(Granted(q, a))
  BY <1>6, <1>7, OutcomeTypes
<1>9. request' = [request EXCEPT ![r] = Granted(q, a)]
  BY <1>1
<1>10. TypeOK'
  <2>1. servants' \in [DOMAIN servants -> Servant]
    <3>1. [servants[s] EXCEPT !.running = @ + 1] \in Servant
      BY <1>6 DEF Servant
    <3>2. servants' = [servants EXCEPT ![s] =
                         [servants[s] EXCEPT !.running = @ + 1]]
      BY <1>1
    <3> QED
      BY <1>2, <3>1, <3>2 DEF IInv, TypeOK
  <2>2. tasks' \in [DOMAIN tasks' -> Task]
    <3>1. s \in ServantIds
      BY <1>2 DEF IInv, TypeOK
    <3>2. tasks'[n] \in Task
      BY <1>5, <3>1 DEF Task, Expiries
    <3>3. \A id \in DOMAIN tasks' : tasks'[id] \in Task
      BY <1>5, <3>2 DEF IInv, TypeOK
    <3> QED
      BY <1>5, <3>3
  <2>3. request' \in [Callers -> RequestState]
    BY <1>8, <1>9 DEF IInv, TypeOK
  <2>4. DOMAIN tasks' \subseteq 0 .. n' - 1 /\ DOMAIN grants' \subseteq 0 .. n' - 1
    BY <1>3, <1>5 DEF IInv, TypeOK
  <2> QED
    BY <1>3, <2>1, <2>2, <2>3, <2>4 DEF IInv, TypeOK
<1>11. KnownIds'
  <2>1. \A p \in Callers : \A g \in request'[p].grants : g.id < n'
    BY <1>3, <1>7, <1>8, <1>9 DEF IInv, TypeOK, KnownIds, RequestState, Allocation
  <2>2. 0 .. n - 1 \subseteq 0 .. n' - 1
    BY <1>3
  <2> QED
    BY <1>3, <2>1, <2>2 DEF IInv, KnownIds
<1>12. CallsHaveWork'
  BY <1>8, <1>9 DEF IInv, TypeOK, CallsHaveWork
<1>13. TasksOfLiveServants'
  <2>1. DOMAIN servants' = DOMAIN servants
    BY <1>1
  <2> QED
    BY <1>2, <1>5, <2>1 DEF IInv, TasksOfLiveServants
<1>14. RunningTasksExact'
  <2>1. SUFFICES ASSUME NEW t \in DOMAIN servants
                 PROVE  servants'[t].running = Cardinality(OnServant(t)')
    BY <1>1 DEF IInv, TypeOK, RunningTasksExact
  <2>2. servants[t].running = Cardinality(OnServant(t)) /\ servants[t] \in Servant
    BY DEF IInv, TypeOK, RunningTasksExact
  <2>3. CASE t # s
    <3>1. OnServant(t)' = OnServant(t)
      BY <1>5, <2>3 DEF OnServant
    <3> QED
      BY <1>1, <2>2, <2>3, <3>1 DEF IInv, TypeOK
  <2>4. CASE t = s
    <3>1. OnServant(s)' = OnServant(s) \cup {n} /\ n \notin OnServant(s)
      BY <1>4, <1>5 DEF OnServant
    <3>2. Cardinality(OnServant(s)') = Cardinality(OnServant(s)) + 1
      BY <3>1, FiniteOnServant, FS_AddElement DEF IInv
    <3>3. servants'[s].running = servants[s].running + 1
      BY <1>1, <1>2, <1>6 DEF IInv, TypeOK, Servant
    <3> QED
      BY <2>2, <2>4, <3>2, <3>3
  <2> QED
    BY <2>3, <2>4
<1> QED
  BY <1>10, <1>11, <1>12, <1>13, <1>14 DEF IInv

\* Refreshing, marking or lapsing changes no count and no servant of a task.
LEMMA TouchStep ==
    ASSUME IInv, UNCHANGED <<order, next_task_id, bookkeeper, request, beat,
                             grants, up>>,
           timer' \in {"idle", "fired"},
           servants' \in [DOMAIN servants -> Servant],
           \A s \in DOMAIN servants : servants'[s].running = servants[s].running,
           tasks' \in [DOMAIN tasks -> Task],
           \A id \in DOMAIN tasks : tasks'[id].servant = tasks[id].servant
    PROVE  IInv'
<1>1. DOMAIN tasks' = DOMAIN tasks /\ DOMAIN servants' = DOMAIN servants
  OBVIOUS
<1>2. TypeOK'
  BY <1>1 DEF IInv, TypeOK
<1>3. KnownIds' /\ CallsHaveWork'
  BY DEF IInv, KnownIds, CallsHaveWork, HasWork
<1>4. TasksOfLiveServants'
  BY <1>1 DEF IInv, TasksOfLiveServants
<1>5. ASSUME NEW s \in DOMAIN servants
      PROVE  OnServant(s)' = OnServant(s)
  BY <1>1 DEF OnServant
<1>6. RunningTasksExact'
  BY <1>1, <1>5 DEF IInv, RunningTasksExact
<1> QED
  BY <1>2, <1>3, <1>4, <1>6 DEF IInv

\* KeepTaskAlive moves an expiry time; time passes it.
LEMMA KeepTaskAliveIInv ==
    ASSUME IInv, NEW id,
           \/ KeepTaskAlive(id)
           \/ id \in DOMAIN tasks /\ LapseTask(id)
    PROVE  IInv'
<1>1. PICK e \in Expiries : tasks' = [tasks EXCEPT ![id].expiry = e]
  BY DEF KeepTaskAlive, LapseTask, Expiries
<1>2. id \in DOMAIN tasks
  BY DEF KeepTaskAlive
<1>3. /\ [tasks[id] EXCEPT !.expiry = e] \in Task
      /\ [tasks[id] EXCEPT !.expiry = e].servant = tasks[id].servant
  BY <1>2 DEF IInv, TypeOK, Task
<1>4. tasks' = [tasks EXCEPT ![id] = [tasks[id] EXCEPT !.expiry = e]]
  BY <1>1
<1>5. /\ tasks' \in [DOMAIN tasks -> Task]
      /\ \A i \in DOMAIN tasks : tasks'[i].servant = tasks[i].servant
  BY <1>2, <1>3, <1>4 DEF IInv, TypeOK
<1>6. UNCHANGED <<servants, order, next_task_id, bookkeeper, request, beat,
                  timer, grants, up>>
  BY DEF KeepTaskAlive, LapseTask
<1> QED
  BY <1>5, <1>6, TouchStep DEF IInv, TypeOK

\* Time passes a servant's expiry.
LEMMA LapseServantIInv ==
    ASSUME IInv, NEW s \in DOMAIN servants, LapseServant(s)
    PROVE  IInv'
<1>1. /\ [servants[s] EXCEPT !.expiry = "lapsed"] \in Servant
      /\ [servants[s] EXCEPT !.expiry = "lapsed"].running = servants[s].running
  BY DEF IInv, TypeOK, Servant, Expiries
<1>2. servants' = [servants EXCEPT ![s] = [servants[s] EXCEPT !.expiry = "lapsed"]]
  BY DEF LapseServant
<1>3. /\ servants' \in [DOMAIN servants -> Servant]
      /\ \A t \in DOMAIN servants : servants'[t].running = servants[t].running
  BY <1>1, <1>2 DEF IInv, TypeOK
<1> QED
  BY <1>3, TouchStep DEF LapseServant, IInv, TypeOK

\* OnTimerExpiration reads the clock.
LEMMA TimerFiresIInv ==
    ASSUME IInv, TimerFires
    PROVE  IInv'
<1>1. /\ servants' \in [DOMAIN servants -> Servant]
      /\ \A t \in DOMAIN servants : servants'[t].running = servants[t].running
  BY DEF TimerFires, Overtake, IInv, TypeOK, Servant, Expiries
<1>2. /\ tasks' \in [DOMAIN tasks -> Task]
      /\ \A i \in DOMAIN tasks : tasks'[i].servant = tasks[i].servant
  BY DEF TimerFires, Overtake, IInv, TypeOK, Task, Expiries
<1> QED
  BY <1>1, <1>2, TouchStep DEF TimerFires

\* What UnsafeFreeTask leaves: the servants of ss, the tasks without `ids'.
LEMMA FreeStep ==
    ASSUME IInv, NEW ids,
           NEW ss, DOMAIN ss \subseteq DOMAIN servants,
           \A s \in DOMAIN ss : ss[s] = servants[s],
           UnsafeFreeTask(ss, ids),
           tasks' \in [DOMAIN tasks \ ids -> Task],
           \A id \in DOMAIN tasks \ ids :
              /\ tasks'[id].servant = tasks[id].servant
              /\ tasks[id].servant \in DOMAIN ss,
           UNCHANGED <<next_task_id, up>>,
           order' \subseteq order,
           timer' \in {"idle", "fired"},
           DOMAIN bookkeeper' \subseteq Locations,
           bookkeeper' \in [DOMAIN bookkeeper' -> SUBSET Nat],
           beat' \in [Handlers -> BeatState],
           \A h \in Handlers : beat'[h].pc # "idle" =>
              /\ beat'[h].running \subseteq 0 .. next_task_id - 1
              /\ beat'[h].expired \subseteq 0 .. next_task_id - 1,
           grants' \in [DOMAIN grants -> Grant]
    PROVE  IInv'
<1> DEFINE S == DOMAIN ss
<1>1. servants' = Released(ss, ids) /\ NotifyAll
  BY DEF UnsafeFreeTask
<1>2. /\ servants' \in [S -> Servant]
      /\ \A s \in S : servants'[s].running = Cardinality(OnServant(s) \ ids)
  BY <1>1, ReleasedCounts DEF IInv
<1>3. /\ DOMAIN servants' = S
      /\ DOMAIN tasks' = DOMAIN tasks \ ids
  BY <1>2
<1>4. /\ request' \in [Callers -> RequestState]
      /\ \A r \in Callers : request'[r].grants = request[r].grants
      /\ CallsHaveWork'
  BY <1>1, NotifyAllTypes DEF IInv
<1>5. TypeOK'
  BY <1>2, <1>3, <1>4 DEF IInv, TypeOK
<1>6. KnownIds'
  BY <1>4 DEF IInv, KnownIds
<1>7. TasksOfLiveServants'
  BY <1>3 DEF TasksOfLiveServants
<1>8. RunningTasksExact'
  <2>1. ASSUME NEW s \in S PROVE OnServant(s)' = OnServant(s) \ ids
    BY <1>3 DEF OnServant
  <2> QED
    BY <1>2, <1>3, <2>1 DEF RunningTasksExact
<1> QED
  BY <1>4, <1>5, <1>6, <1>7, <1>8 DEF IInv

\* FreeTask gives one task back, or does nothing for an unknown id.
LEMMA FreeTaskIInv ==
    ASSUME IInv, NEW id, FreeTask(id)
    PROVE  IInv'
<1>1. grants' \in [DOMAIN grants -> Grant]
  <2>1. id \in DOMAIN grants /\ grants[id] \in Grant
    BY DEF FreeTask, Kept, IInv, TypeOK
  <2>2. Dropped(grants[id]) \in Grant
    BY <2>1, DroppedTypes
  <2> QED
    BY <2>1, <2>2 DEF FreeTask, IInv, TypeOK
<1>2. CASE id \notin DOMAIN tasks
  <2>1. UNCHANGED <<dispatcherVars, request, beat, timer>> /\ up' \subseteq Daemons
    BY <1>2 DEF FreeTask, dispatcherVars, IInv, TypeOK
  <2> QED
    BY <1>1, <2>1, EnvironmentStep
<1>3. CASE id \in DOMAIN tasks
  <2>1. /\ UnsafeFreeTask(servants, {id})
        /\ tasks' = Without(tasks, {id})
        /\ UNCHANGED <<order, next_task_id, bookkeeper, beat, timer, up>>
    BY <1>3 DEF FreeTask
  <2>3. /\ tasks' \in [DOMAIN tasks \ {id} -> Task]
        /\ \A i \in DOMAIN tasks \ {id} : tasks'[i].servant = tasks[i].servant
    BY <2>1 DEF Without, IInv, TypeOK
  <2>4. \A i \in DOMAIN tasks : tasks[i].servant \in DOMAIN servants
    BY DEF IInv, TasksOfLiveServants
  <2>5. /\ timer' \in {"idle", "fired"} /\ order' \subseteq order
        /\ DOMAIN bookkeeper' \subseteq Locations
        /\ bookkeeper' \in [DOMAIN bookkeeper' -> SUBSET Nat]
        /\ beat' \in [Handlers -> BeatState]
    BY <2>1 DEF IInv, TypeOK
  <2>6. \A h \in Handlers : beat'[h].pc # "idle" =>
           /\ beat'[h].running \subseteq 0 .. next_task_id - 1
           /\ beat'[h].expired \subseteq 0 .. next_task_id - 1
    BY <2>1 DEF IInv, KnownIds
  <2> QED
    BY <1>1, <2>1, <2>3, <2>4, <2>5, <2>6, FreeStep
<1> QED
  BY <1>2, <1>3

\* OnTimerExpiration removes servants together with all their tasks, and marks
\* zombies.
LEMMA OnTimerExpirationIInv ==
    ASSUME IInv, OnTimerExpiration
    PROVE  IInv'
<1> DEFINE alive == DOMAIN servants \ Due(servants)
           clearing == TasksOutside(alive)
           ss == Without(servants, Due(servants))
<1>1. /\ timer' = "idle"
      /\ bookkeeper' = DelServants(Due(servants))
      /\ UnsafeFreeTask(ss, clearing)
      /\ order' = order \cap (alive \X alive)
      /\ tasks' = [id \in DOMAIN tasks \ clearing |->
                     [tasks[id] EXCEPT !.zombie = @ \/ id \in Due(tasks)]]
      /\ UNCHANGED <<next_task_id, beat, grants, up>>
  BY DEF OnTimerExpiration
<1>2. /\ DOMAIN ss = alive
      /\ alive \subseteq DOMAIN servants
      /\ \A s \in DOMAIN ss : ss[s] = servants[s]
  BY DEF Without
<1>3. ASSUME NEW id \in DOMAIN tasks \ clearing
      PROVE  /\ tasks'[id] \in Task
             /\ tasks'[id].servant = tasks[id].servant
             /\ tasks[id].servant \in alive
  <2>1. tasks[id] \in Task
    BY DEF IInv, TypeOK
  <2>2. tasks'[id] = [tasks[id] EXCEPT !.zombie = @ \/ id \in Due(tasks)]
    BY <1>1
  <2>3. tasks[id].servant \in alive
    BY DEF TasksOutside
  <2> QED
    BY <2>1, <2>2, <2>3 DEF Task
<1>4. tasks' \in [DOMAIN tasks \ clearing -> Task]
  <2>1. tasks' = [id \in DOMAIN tasks \ clearing |-> tasks'[id]]
    BY <1>1
  <2> QED
    BY <1>3, <2>1
<1>5. /\ DOMAIN bookkeeper' \subseteq Locations
      /\ bookkeeper' \in [DOMAIN bookkeeper' -> SUBSET Nat]
  BY <1>1 DEF DelServants, Without, IInv, TypeOK
<1>6. /\ timer' \in {"idle", "fired"} /\ order' \subseteq order
      /\ beat' \in [Handlers -> BeatState]
      /\ grants' \in [DOMAIN grants -> Grant]
  BY <1>1 DEF IInv, TypeOK
<1>7. \A h \in Handlers : beat'[h].pc # "idle" =>
         /\ beat'[h].running \subseteq 0 .. next_task_id - 1
         /\ beat'[h].expired \subseteq 0 .. next_task_id - 1
  BY <1>1 DEF IInv, KnownIds
<1> HIDE DEF alive, clearing, ss
<1> QED
  BY <1>1, <1>2, <1>3, <1>4, <1>5, <1>6, <1>7, FreeStep

\* What a heartbeat reports is a ServantInfo.
LEMMA InfoOfTypes ==
    ASSUME NEW d \in Daemons, NEW b \in HeartBeatRequest
    PROVE  InfoOf(d, b) \in ServantInfo
  BY DaemonsAssumption DEF InfoOf, ServantInfo, HeartBeatRequest

\* The first section of HeartBeat: a servant is updated in place, with its
\* count, or a new one starts with no task.
LEMMA KeepServantAliveIInv ==
    ASSUME IInv, NEW h \in Handlers, KeepServantAlive(h)
    PROVE  IInv'
<1> DEFINE c == beat[h]
           info == InfoOf(c.daemon, c.info)
           expiry == IF c.info.next = "zero" THEN "lapsed" ELSE "valid"
<1>1. c \in BeatCall
  BY BeatTypes DEF KeepServantAlive, IInv
<1>2. info \in ServantInfo /\ expiry \in Expiries
  BY <1>1, InfoOfTypes DEF BeatCall, Expiries
<1>3. /\ beat' = [beat EXCEPT ![h].pc = "alive"]
      /\ UNCHANGED <<tasks, next_task_id, bookkeeper, request, timer, grants, up>>
      /\ \/ \E s \in First(AtLocation(info.loc)) :
               /\ servants' = [servants EXCEPT ![s] = Refreshed(@, info, expiry)]
               /\ UNCHANGED order
         \/ /\ AtLocation(info.loc) = {}
            /\ \E s \in ServantIds \ DOMAIN servants :
                  /\ servants' = Put(servants, s,
                        [info |-> info, running |-> 0, expiry |-> expiry])
                  /\ order' = order \cup {<<t, s>> : t \in DOMAIN servants}
  BY DEF KeepServantAlive
<1> HIDE DEF info, expiry
<1>4. /\ beat' \in [Handlers -> BeatState]
      /\ \A k \in Handlers : beat'[k].pc # "idle" =>
            /\ beat'[k].running \subseteq 0 .. next_task_id - 1
            /\ beat'[k].expired \subseteq 0 .. next_task_id - 1
  <2>1. /\ [c EXCEPT !.pc = "alive"] \in BeatState
        /\ [c EXCEPT !.pc = "alive"].running = c.running
        /\ [c EXCEPT !.pc = "alive"].expired = c.expired
    BY <1>1 DEF BeatCall, BeatState
  <2>2. beat' = [beat EXCEPT ![h] = [c EXCEPT !.pc = "alive"]]
    BY <1>3
  <2>3. c.pc # "idle"
    BY DEF KeepServantAlive
  <2> QED
    BY <2>1, <2>2, <2>3 DEF IInv, TypeOK, KnownIds
<1> DEFINE Updated(s) == /\ servants' = Put(servants, s, servants'[s])
                         /\ servants'[s] \in Servant
                         /\ servants'[s].running = Cardinality(OnServant(s))
                         /\ order' \subseteq ServantIds \X ServantIds
<1>5. \E s \in ServantIds : Updated(s)
  <2>1. ASSUME NEW s \in First(AtLocation(info.loc)),
               servants' = [servants EXCEPT ![s] = Refreshed(@, info, expiry)],
               UNCHANGED order
        PROVE  \E x \in ServantIds : Updated(x)
    <3>1. s \in DOMAIN servants /\ s \in ServantIds /\ servants[s] \in Servant
      BY DEF First, AtLocation, IInv, TypeOK
    <3>2. /\ servants'[s] \in Servant
          /\ servants'[s].running = servants[s].running
      BY <1>2, <2>1, <3>1 DEF Refreshed, Servant, IInv, TypeOK
    <3>3. servants' = Put(servants, s, servants'[s])
      BY <2>1, <3>1 DEF Put, IInv, TypeOK
    <3> QED
      BY <2>1, <3>1, <3>2, <3>3 DEF IInv, TypeOK, RunningTasksExact
  <2>2. ASSUME NEW s \in ServantIds \ DOMAIN servants,
               servants' = Put(servants, s,
                     [info |-> info, running |-> 0, expiry |-> expiry]),
               order' = order \cup {<<t, s>> : t \in DOMAIN servants}
        PROVE  \E x \in ServantIds : Updated(x)
    <3>1. servants'[s] = [info |-> info, running |-> 0, expiry |-> expiry]
      BY <2>2 DEF Put
    <3>2. servants'[s] \in Servant /\ servants'[s].running = 0
      BY <1>2, <3>1 DEF Servant
    <3>3. OnServant(s) = {}
      BY DEF OnServant, IInv, TasksOfLiveServants
    <3>4. Cardinality(OnServant(s)) = 0
      BY <3>3, FS_EmptySet
    <3>5. order' \subseteq ServantIds \X ServantIds
      BY <2>2 DEF IInv, TypeOK
    <3> QED
      BY <2>2, <3>1, <3>2, <3>4, <3>5
  <2> QED
    BY <1>3, <2>1, <2>2
<1>6. PICK s \in ServantIds : Updated(s)
  BY <1>5
<1>7. /\ DOMAIN servants' = DOMAIN servants \cup {s}
      /\ \A t \in DOMAIN servants : t # s => servants'[t] = servants[t]
      /\ servants' = [t \in DOMAIN servants' |-> servants'[t]]
  BY <1>6 DEF Put
<1>8. TypeOK'
  <2>1. servants' \in [DOMAIN servants' -> Servant]
    <3>1. \A t \in DOMAIN servants' : servants'[t] \in Servant
      BY <1>6, <1>7 DEF IInv, TypeOK
    <3> QED
      BY <1>7, <3>1
  <2> QED
    BY <1>3, <1>4, <1>6, <1>7, <2>1 DEF IInv, TypeOK
<1>9. KnownIds' /\ CallsHaveWork'
  BY <1>3, <1>4 DEF IInv, KnownIds, CallsHaveWork, HasWork
<1>10. TasksOfLiveServants'
  BY <1>3, <1>7 DEF IInv, TasksOfLiveServants
<1>11. RunningTasksExact'
  <2>1. \A t \in DOMAIN servants' :
           servants'[t].running = Cardinality(OnServant(t))
    BY <1>6, <1>7 DEF IInv, RunningTasksExact
  <2>2. \A t \in DOMAIN servants' : OnServant(t)' = OnServant(t)
    BY <1>3 DEF OnServant
  <2> QED
    BY <2>1, <2>2 DEF RunningTasksExact
<1> QED
  BY <1>8, <1>9, <1>10, <1>11 DEF IInv

\* The second section of HeartBeat.
LEMMA NotifyIInv ==
    ASSUME IInv, NEW h \in Handlers, NotifyServantRunningTasks(h)
    PROVE  IInv'
<1> DEFINE c == beat[h]
           loc == Reported[c.daemon]
<1>1. /\ c \in BeatCall /\ c.pc = "alive"
      /\ c.running \subseteq 0 .. next_task_id - 1
  BY BeatTypes DEF NotifyServantRunningTasks, IInv, KnownIds
<1>2. loc \in Locations /\ c.running \subseteq Nat
  BY <1>1, DaemonsAssumption DEF BeatCall
<1>3. UNCHANGED <<order, next_task_id, timer, grants, up>>
  BY DEF NotifyServantRunningTasks
<1>4. ASSUME NEW e \in SUBSET c.running,
             beat' = [beat EXCEPT ![h].pc = "reply", ![h].expired = e]
      PROVE  /\ beat' \in [Handlers -> BeatState]
             /\ \A k \in Handlers : beat'[k].pc # "idle" =>
                   /\ beat'[k].running \subseteq 0 .. next_task_id - 1
                   /\ beat'[k].expired \subseteq 0 .. next_task_id - 1
  <2> DEFINE n == [c EXCEPT !.pc = "reply", !.expired = e]
  <2>1. n \in BeatState /\ n.running = c.running /\ n.expired = e
    BY <1>1, <1>2 DEF BeatCall, BeatState
  <2>2. beat' = [beat EXCEPT ![h] = n]
    BY <1>1, <1>4 DEF IInv, TypeOK
  <2> HIDE DEF n
  <2> QED
    BY <1>1, <2>1, <2>2 DEF IInv, TypeOK, KnownIds
<1>5. CASE /\ beat' = [beat EXCEPT ![h].pc = "reply", ![h].expired = c.running]
           /\ UNCHANGED <<servants, tasks, bookkeeper, request>>
  <2>1. TypeOK' /\ KnownIds'
    BY <1>3, <1>4, <1>5 DEF IInv, TypeOK, KnownIds
  <2>2. CallsHaveWork' /\ TasksOfLiveServants' /\ RunningTasksExact'
    BY <1>3, <1>5 DEF IInv, CallsHaveWork, HasWork, TasksOfLiveServants,
                      RunningTasksExact, OnServant
  <2> QED
    BY <2>1, <2>2 DEF IInv
<1>6. ASSUME NEW s \in DOMAIN servants,
             UnsafeFreeTask(servants, UnsafeClearZombies(s, c.running)),
             tasks' = Without(tasks, UnsafeClearZombies(s, c.running)),
             beat' = [beat EXCEPT ![h].pc = "reply",
                                  ![h].expired = c.running \ Permitted(s)],
             bookkeeper' = Put(bookkeeper, loc, c.running \cap Permitted(s))
      PROVE  IInv'
  <2> DEFINE cleared == UnsafeClearZombies(s, c.running)
  <2>1. /\ tasks' \in [DOMAIN tasks \ cleared -> Task]
        /\ \A i \in DOMAIN tasks \ cleared : tasks'[i].servant = tasks[i].servant
    BY <1>6 DEF Without, IInv, TypeOK
  <2>2. \A i \in DOMAIN tasks : tasks[i].servant \in DOMAIN servants
    BY DEF IInv, TasksOfLiveServants
  <2>3. /\ DOMAIN bookkeeper' \subseteq Locations
        /\ bookkeeper' \in [DOMAIN bookkeeper' -> SUBSET Nat]
    BY <1>2, <1>6 DEF Put, IInv, TypeOK
  <2>4. /\ beat' \in [Handlers -> BeatState]
        /\ \A k \in Handlers : beat'[k].pc # "idle" =>
              /\ beat'[k].running \subseteq 0 .. next_task_id - 1
              /\ beat'[k].expired \subseteq 0 .. next_task_id - 1
    BY <1>4, <1>6
  <2>5. /\ timer' \in {"idle", "fired"} /\ order' \subseteq order
        /\ grants' \in [DOMAIN grants -> Grant]
    BY <1>3 DEF IInv, TypeOK
  <2>6. UnsafeFreeTask(servants, cleared)
    BY <1>6
  <2> HIDE DEF cleared
  <2> QED
    BY <1>3, <2>1, <2>2, <2>3, <2>4, <2>5, <2>6, FreeStep
<1>7. \A s \in First(AtLocation(loc)) : s \in DOMAIN servants
  BY DEF First, AtLocation
<1> QED
  BY <1>5, <1>6, <1>7 DEF NotifyServantRunningTasks

-----------------------------------------------------------------------------
\* Every step keeps the inductive invariant: one case per action.
LEMMA NextIInv == IInv /\ [Next]_vars => IInv'
<1> SUFFICES ASSUME IInv, [Next]_vars PROVE IInv'
  OBVIOUS
<1>1. CASE UNCHANGED vars
  BY <1>1 DEF vars, IInv, TypeOK, KnownIds, CallsHaveWork, HasWork,
              TasksOfLiveServants, RunningTasksExact, OnServant
<1>2. ASSUME NEW r \in Callers, Request(r) PROVE IInv'
  BY <1>2, BeginRequestIInv, RequestOutcomeIInv, StartNewTaskIInv, ReplyIInv
     DEF Request
<1>3. ASSUME NEW h \in Handlers, HeartBeat(h) PROVE IInv'
  BY <1>3, OutsideIInv, KeepServantAliveIInv, NotifyIInv DEF HeartBeat
<1>4. ASSUME NEW id \in DOMAIN grants, Owner(id) \/ ServantStep(id) PROVE IInv'
  <2>1. CASE KeepTaskAlive(id)
    BY <2>1, KeepTaskAliveIInv
  <2>2. CASE FreeTask(id)
    BY <2>2, FreeTaskIInv
  <2>3. CASE SubmitTask(id) \/ AbandonGrant(id) \/ ServantStep(id)
    BY <2>3, GrantStepIInv
  <2> QED
    BY <1>4, <2>1, <2>2, <2>3 DEF Owner
<1>5. ASSUME NEW d \in Mortal, DaemonStops(d) \/ DaemonStarts(d) PROVE IInv'
  BY <1>5, DaemonStepIInv, DaemonsAssumption
<1> QED
  BY <1>1, <1>2, <1>3, <1>4, <1>5, TimerFiresIInv, OnTimerExpirationIInv,
     LapseServantIInv, KeepTaskAliveIInv
     DEF Next

\* IInv holds in every reachable state.
THEOREM IInvHolds == Spec => []IInv
  BY InitIInv, NextIInv, PTL DEF Spec

\* Every table and every handler's stack has its type, and task ids below
\* next_task_id_ only are in use.
THEOREM TypeCorrect == Spec => []TypeOK
<1>1. IInv => TypeOK
  BY DEF IInv
<1> QED
  BY <1>1, IInvHolds, PTL

\* A servant leaves servants_ only with all of its tasks.
THEOREM NoDanglingTask == Spec => []TasksOfLiveServants
<1>1. IInv => TasksOfLiveServants
  BY DEF IInv
<1> QED
  BY <1>1, IInvHolds, PTL

\* running_tasks is the number of tasks of the servant, in every state.
THEOREM AccountingIsExact == Spec => []RunningTasksExact
<1>1. IInv => RunningTasksExact
  BY DEF IInv
<1> QED
  BY <1>1, IInvHolds, PTL

-----------------------------------------------------------------------------
(***************************************************************************)
(* What the steps do to locations, to the bookkeeper and to grants, behind *)
(* NATs or not.  It rests on IInv.                                         *)
(***************************************************************************)

\* The vector's order is one of live servants.
OrderOfLive ==
    \A s, t : <<s, t>> \in order => s \in DOMAIN servants /\ t \in DOMAIN servants

\* With IInv, preserved by every step.
LocInv == OneServantPerLocation /\ BookkeeperOfLiveServants /\ OrderOfLive

\* A step that keeps the servants, their places and their locations.
SamePlaces ==
    /\ UNCHANGED <<order, bookkeeper>>
    /\ DOMAIN servants' = DOMAIN servants
    /\ \A s \in DOMAIN servants : servants'[s].info.loc = servants[s].info.loc

\* Such a step keeps LocInv.
LEMMA SamePlacesLocInv ==
    ASSUME LocInv, SamePlaces
    PROVE  LocInv'
<1>1. OneServantPerLocation' /\ OrderOfLive'
  BY DEF LocInv, SamePlaces, OneServantPerLocation, OrderOfLive
<1>2. \A loc : AtLocation(loc)' = AtLocation(loc)
  BY DEF SamePlaces, AtLocation
<1>3. BookkeeperOfLiveServants'
  BY <1>2 DEF LocInv, SamePlaces, BookkeeperOfLiveServants
<1> QED
  BY <1>1, <1>3 DEF LocInv

\* Giving tasks back moves no servant.
LEMMA ReleasedPlaces ==
    ASSUME NEW ss, NEW ids,
           \A s \in DOMAIN ss : ss[s] \in Servant
    PROVE  /\ DOMAIN Released(ss, ids) = DOMAIN ss
           /\ \A s \in DOMAIN ss : Released(ss, ids)[s].info = ss[s].info
  BY DEF Released, Servant

\* A request changes no places: a new task is only counted.
LEMMA RequestPlaces ==
    ASSUME IInv, NEW r \in Callers, Request(r)
    PROVE  SamePlaces
<1>1. CASE StartNewTask(r)
  <2>1. PICK s \in UnsafePickUpFreeServant(FreeServantsFor(request[r])) :
           servants' = [servants EXCEPT ![s].running = @ + 1]
    BY <1>1 DEF StartNewTask
  <2>2. \A t \in DOMAIN servants : servants[t] \in Servant
    BY DEF IInv, TypeOK
  <2>3. DOMAIN servants' = DOMAIN servants
    BY <2>1
  <2>4. \A t \in DOMAIN servants : servants'[t].info = servants[t].info
    BY <2>1, <2>2 DEF Servant
  <2> QED
    BY <1>1, <2>3, <2>4 DEF StartNewTask, SamePlaces
<1>2. CASE ~StartNewTask(r)
  BY <1>2 DEF Request, BeginRequest, EnvNotFound, WaitForFreeServant,
              WaitTimeout, SpuriousWakeup, Reply, dispatcherVars, SamePlaces
<1> QED
  BY <1>1, <1>2

\* The same of the owner and the servant of a grant.
LEMMA GrantPlaces ==
    ASSUME IInv, NEW id \in DOMAIN grants, Owner(id) \/ ServantStep(id)
    PROVE  SamePlaces
<1>1. CASE FreeTask(id)
  <2>1. CASE id \in DOMAIN tasks
    <3>1. servants' = Released(servants, {id})
      BY <1>1, <2>1 DEF FreeTask, UnsafeFreeTask
    <3>2. /\ DOMAIN servants' = DOMAIN servants
          /\ \A s \in DOMAIN servants : servants'[s].info = servants[s].info
      BY <3>1, ReleasedPlaces DEF IInv, TypeOK
    <3> QED
      BY <1>1, <3>2 DEF FreeTask, SamePlaces
  <2>2. CASE id \notin DOMAIN tasks
    BY <1>1, <2>2 DEF FreeTask, SamePlaces
  <2> QED
    BY <2>1, <2>2
<1>2. CASE ~FreeTask(id)
  BY <1>2 DEF Owner, ServantStep, KeepTaskAlive, SubmitTask, AbandonGrant,
              ServantStarts, ServantRefuses, ServantFinishes, ServantForgets,
              Advance, dispatcherVars, SamePlaces
<1> QED
  BY <1>1, <1>2

\* The same of clocks and of daemons that stop and start.
LEMMA TimePlaces ==
    ASSUME IInv,
           \/ TimerFires
           \/ \E s \in DOMAIN servants : LapseServant(s)
           \/ \E id \in DOMAIN tasks : LapseTask(id)
           \/ \E d \in Mortal : DaemonStops(d) \/ DaemonStarts(d)
    PROVE  SamePlaces
<1>1. \A s \in DOMAIN servants : servants[s] \in Servant
  BY DEF IInv, TypeOK
<1>2. CASE TimerFires
  BY <1>1, <1>2 DEF TimerFires, Overtake, Servant, SamePlaces
<1>3. ASSUME NEW s \in DOMAIN servants, LapseServant(s) PROVE SamePlaces
  BY <1>1, <1>3 DEF LapseServant, Servant, SamePlaces
<1>4. CASE \E id \in DOMAIN tasks : LapseTask(id)
  BY <1>4 DEF LapseTask, SamePlaces
<1>5. CASE \E d \in Mortal : DaemonStops(d) \/ DaemonStarts(d)
  BY <1>5 DEF DaemonStops, DaemonStarts, dispatcherVars, SamePlaces
<1> QED
  BY <1>2, <1>3, <1>4, <1>5

-----------------------------------------------------------------------------
\* KeepServantAlive appends a servant only where there is none at its
\* location, so that locations stay unique.
LEMMA KeepServantAliveLocInv ==
    ASSUME IInv, LocInv, NEW h \in Handlers, KeepServantAlive(h)
    PROVE  LocInv'
<1> DEFINE info == InfoOf(beat[h].daemon, beat[h].info)
           expiry == IF beat[h].info.next = "zero" THEN "lapsed" ELSE "valid"
<1>1. bookkeeper' = bookkeeper
  BY DEF KeepServantAlive
<1>2. ASSUME NEW s \in First(AtLocation(info.loc)),
             servants' = [servants EXCEPT ![s] = Refreshed(@, info, expiry)],
             order' = order
      PROVE  LocInv'
  <2>1. s \in DOMAIN servants /\ servants[s].info.loc = info.loc
    BY <1>2 DEF First, AtLocation
  <2>2. servants[s] \in Servant
    BY <2>1 DEF IInv, TypeOK
  <2>3. Refreshed(servants[s], info, expiry).info = info
    BY <2>2 DEF Refreshed, Servant
  <2>4. SamePlaces
    BY <1>1, <1>2, <2>1, <2>3 DEF SamePlaces
  <2> QED
    BY <2>4, SamePlacesLocInv
<1>3. ASSUME AtLocation(info.loc) = {},
             NEW s \in ServantIds \ DOMAIN servants,
             servants' = Put(servants, s,
                             [info |-> info, running |-> 0, expiry |-> expiry]),
             order' = order \cup {<<t, s>> : t \in DOMAIN servants}
      PROVE  LocInv'
  <2>1. /\ DOMAIN servants' = DOMAIN servants \cup {s}
        /\ servants'[s].info = info
        /\ \A t \in DOMAIN servants : servants'[t] = servants[t]
    BY <1>3 DEF Put
  <2>2. \A t \in DOMAIN servants : servants[t].info.loc # info.loc
    BY <1>3 DEF AtLocation
  <2>3. \A t \in DOMAIN servants : <<s, t>> \notin order /\ <<t, s>> \notin order
    BY <1>3 DEF LocInv, OrderOfLive
  <2>4. OrderOfLive'
    BY <1>3, <2>1 DEF LocInv, OrderOfLive
  <2>5. OneServantPerLocation'
    <3> SUFFICES ASSUME NEW t \in DOMAIN servants', NEW u \in DOMAIN servants',
                        t # u
                 PROVE  /\ servants'[t].info.loc # servants'[u].info.loc
                        /\ <<t, u>> \in order' <=> <<u, t>> \notin order'
      BY DEF OneServantPerLocation
    <3>1. CASE t # s /\ u # s
      BY <1>3, <2>1, <3>1 DEF LocInv, OneServantPerLocation
    <3>2. CASE t = s
      BY <1>3, <2>1, <2>2, <2>3, <3>2
    <3>3. CASE u = s
      BY <1>3, <2>1, <2>2, <2>3, <3>3
    <3> QED
      BY <3>1, <3>2, <3>3
  <2>6. BookkeeperOfLiveServants'
    <3>1. \A loc : AtLocation(loc) \subseteq AtLocation(loc)'
      BY <2>1 DEF AtLocation
    <3> QED
      BY <1>1, <3>1 DEF LocInv, BookkeeperOfLiveServants
  <2> QED
    BY <2>4, <2>5, <2>6 DEF LocInv
<1> QED
  BY <1>2, <1>3 DEF KeepServantAlive

\* NotifyServantRunningTasks enters a location into the bookkeeper only when
\* it has found a servant there.
LEMMA NotifyLocInv ==
    ASSUME IInv, LocInv, NEW h \in Handlers, NotifyServantRunningTasks(h)
    PROVE  LocInv'
<1> DEFINE loc == Reported[beat[h].daemon]
           running == beat[h].running
<1>1. order' = order
  BY DEF NotifyServantRunningTasks
<1>2. CASE UNCHANGED <<servants, bookkeeper>>
  <2>1. SamePlaces
    BY <1>1, <1>2 DEF SamePlaces
  <2> QED
    BY <2>1, SamePlacesLocInv
<1>3. ASSUME NEW s \in First(AtLocation(loc)),
             servants' = Released(servants, UnsafeClearZombies(s, running)),
             bookkeeper' = Put(bookkeeper, loc, running \cap Permitted(s))
      PROVE  LocInv'
  <2>1. /\ DOMAIN servants' = DOMAIN servants
        /\ \A t \in DOMAIN servants : servants'[t].info = servants[t].info
    BY <1>3, ReleasedPlaces DEF IInv, TypeOK
  <2>2. OneServantPerLocation' /\ OrderOfLive'
    BY <1>1, <2>1 DEF LocInv, OneServantPerLocation, OrderOfLive
  <2>3. \A l : AtLocation(l)' = AtLocation(l)
    BY <2>1 DEF AtLocation
  <2>4. AtLocation(loc) # {}
    BY <1>3 DEF First
  <2>5. DOMAIN bookkeeper' = DOMAIN bookkeeper \cup {loc}
    BY <1>3 DEF Put
  <2>6. BookkeeperOfLiveServants'
    BY <2>3, <2>4, <2>5 DEF LocInv, BookkeeperOfLiveServants
  <2> QED
    BY <2>2, <2>6 DEF LocInv
<1> QED
  BY <1>2, <1>3 DEF NotifyServantRunningTasks, UnsafeFreeTask

\* The timer removes a servant's location with the servant; nobody else is
\* there, so a location that stays has its servant still.
LEMMA OnTimerExpirationLocInv ==
    ASSUME IInv, LocInv, OnTimerExpiration
    PROVE  LocInv'
<1> DEFINE alive == DOMAIN servants \ Due(servants)
           left == Without(servants, Due(servants))
<1>1. /\ DOMAIN left = alive
      /\ \A s \in alive : left[s] = servants[s] /\ left[s] \in Servant
  BY DEF Without, IInv, TypeOK
<1>2. /\ DOMAIN servants' = alive
      /\ \A s \in alive : servants'[s].info = servants[s].info
  <2>1. servants' = Released(left, TasksOutside(alive))
    BY DEF OnTimerExpiration, UnsafeFreeTask
  <2> HIDE DEF left
  <2> QED
    BY <1>1, <2>1, ReleasedPlaces
<1>3. order' = order \cap (alive \X alive)
  BY DEF OnTimerExpiration
<1>4. OrderOfLive'
  BY <1>2, <1>3 DEF OrderOfLive
<1>5. OneServantPerLocation'
  BY <1>2, <1>3 DEF LocInv, OneServantPerLocation
<1>6. BookkeeperOfLiveServants'
  <2>1. DOMAIN bookkeeper' =
          DOMAIN bookkeeper \ {servants[s].info.loc : s \in Due(servants)}
    BY DEF OnTimerExpiration, DelServants, Without
  <2>2. ASSUME NEW loc \in DOMAIN bookkeeper' PROVE AtLocation(loc)' # {}
    <3>1. PICK s \in DOMAIN servants : servants[s].info.loc = loc
      BY <2>1, <2>2 DEF LocInv, BookkeeperOfLiveServants, AtLocation
    <3>2. s \in alive
      BY <2>1, <2>2, <3>1
    <3> QED
      BY <1>2, <3>1, <3>2 DEF AtLocation
  <2> QED
    BY <2>2 DEF BookkeeperOfLiveServants
<1> QED
  BY <1>4, <1>5, <1>6 DEF LocInv

\* Every step keeps LocInv.
LEMMA NextLocInv == IInv /\ LocInv /\ [Next]_vars => LocInv'
<1> SUFFICES ASSUME IInv, LocInv, [Next]_vars PROVE LocInv'
  OBVIOUS
<1>1. CASE UNCHANGED vars
  <2>1. SamePlaces
    BY <1>1 DEF vars, SamePlaces
  <2> QED
    BY <2>1, SamePlacesLocInv
<1>2. ASSUME NEW r \in Callers, Request(r) PROVE LocInv'
  BY <1>2, RequestPlaces, SamePlacesLocInv
<1>3. ASSUME NEW h \in Handlers, HeartBeat(h) PROVE LocInv'
  <2>1. CASE KeepServantAlive(h) \/ NotifyServantRunningTasks(h)
    BY <2>1, KeepServantAliveLocInv, NotifyLocInv
  <2>2. CASE ~(KeepServantAlive(h) \/ NotifyServantRunningTasks(h))
    <3>1. SamePlaces
      BY <1>3, <2>2 DEF HeartBeat, SendHeartBeat, HeartBeatRefused,
                        HeartBeatReply, dispatcherVars, SamePlaces
    <3> QED
      BY <3>1, SamePlacesLocInv
  <2> QED
    BY <2>1, <2>2
<1>4. ASSUME NEW id \in DOMAIN grants, Owner(id) \/ ServantStep(id) PROVE LocInv'
  BY <1>4, GrantPlaces, SamePlacesLocInv
<1> QED
  BY <1>1, <1>2, <1>3, <1>4, TimePlaces, OnTimerExpirationLocInv,
     SamePlacesLocInv DEF Next

\* LocInv holds in every reachable state.
LEMMA LocInvHolds == Spec => []LocInv
<1>1. Init => LocInv
  BY DEF Init, LocInv, OneServantPerLocation, BookkeeperOfLiveServants,
         OrderOfLive
<1> QED
  BY <1>1, NextLocInv, IInvHolds, PTL DEF Spec

\* Whatever addresses daemons report and however their heartbeats overlap,
\* KeepServantAlive never makes a second servant for a location.
THEOREM LocationsAreUnique == Spec => []OneServantPerLocation
<1>1. LocInv => OneServantPerLocation
  BY DEF LocInv
<1> QED
  BY <1>1, LocInvHolds, PTL

\* The bookkeeper forgets a servant in the step that removes it, also when
\* a daemon reports its tasks under the address of another.
THEOREM BookkeeperFollows == Spec => []BookkeeperOfLiveServants
<1>1. LocInv => BookkeeperOfLiveServants
  BY DEF LocInv
<1> QED
  BY <1>1, LocInvHolds, PTL

-----------------------------------------------------------------------------
(***************************************************************************)
(* Grants.  Five actions change what the ledger of grants shows.           *)
(***************************************************************************)

\* What GrantLedger is shown.
Capacity == [s \in DOMAIN servants |-> servants[s].info.concurrency]

Entry(id) == [servant |-> tasks[id].servant, zombie |-> tasks[id].zombie]

Entries == [id \in DOMAIN tasks |-> Entry(id)]

SameLedger == UNCHANGED <<Capacity, Entries, next_task_id>>

\* Expiry times are not in the ledger.
LEMMA SameTasks ==
    ASSUME DOMAIN tasks' = DOMAIN tasks,
           \A id \in DOMAIN tasks : /\ tasks'[id].servant = tasks[id].servant
                                    /\ tasks'[id].zombie = tasks[id].zombie
    PROVE  Entries' = Entries
  BY DEF Entries, Entry

\* Neither are counts of running tasks.
LEMMA SameServants ==
    ASSUME DOMAIN servants' = DOMAIN servants,
           \A s \in DOMAIN servants : servants'[s].info = servants[s].info
    PROVE  Capacity' = Capacity
  BY DEF Capacity

\* Clocks, replies, holders and daemons do not touch the ledger.
LEMMA OtherSteps ==
    ASSUME IInv, [Next]_vars,
           ~ \E r \in Callers : StartNewTask(r),
           ~ \E id \in DOMAIN grants : FreeTask(id),
           ~ \E h \in Handlers : KeepServantAlive(h) \/ NotifyServantRunningTasks(h),
           ~ OnTimerExpiration
    PROVE  SameLedger
<1>1. /\ \A s \in DOMAIN servants : servants[s] \in Servant
      /\ \A id \in DOMAIN tasks : tasks[id] \in Task
  BY DEF IInv, TypeOK
<1>2. CASE UNCHANGED <<servants, tasks, next_task_id>>
  BY <1>2 DEF SameLedger, Capacity, Entries, Entry
<1>3. CASE TimerFires
  <2>1. /\ DOMAIN servants' = DOMAIN servants
        /\ \A s \in DOMAIN servants : servants'[s].info = servants[s].info
    BY <1>1, <1>3 DEF TimerFires, Overtake, Servant
  <2>2. /\ DOMAIN tasks' = DOMAIN tasks
        /\ \A id \in DOMAIN tasks : /\ tasks'[id].servant = tasks[id].servant
                                     /\ tasks'[id].zombie = tasks[id].zombie
    BY <1>1, <1>3 DEF TimerFires, Overtake, Task
  <2> QED
    BY <1>3, <2>1, <2>2, SameTasks, SameServants DEF TimerFires, SameLedger
<1>4. ASSUME NEW s \in DOMAIN servants, LapseServant(s) PROVE SameLedger
  <2>1. /\ DOMAIN servants' = DOMAIN servants
        /\ \A t \in DOMAIN servants : servants'[t].info = servants[t].info
    BY <1>1, <1>4 DEF LapseServant, Servant
  <2> QED
    BY <1>4, <2>1, SameServants DEF LapseServant, SameLedger, Entries, Entry
<1>5. ASSUME NEW id \in DOMAIN tasks, NEW e,
             tasks' = [tasks EXCEPT ![id].expiry = e],
             UNCHANGED <<servants, next_task_id>>
      PROVE  SameLedger
  <2>1. /\ DOMAIN tasks' = DOMAIN tasks
        /\ \A i \in DOMAIN tasks : /\ tasks'[i].servant = tasks[i].servant
                                    /\ tasks'[i].zombie = tasks[i].zombie
    BY <1>1, <1>5 DEF Task
  <2> QED
    BY <1>5, <2>1, SameTasks DEF SameLedger, Capacity
<1>6. ASSUME NEW id \in DOMAIN tasks, LapseTask(id) PROVE SameLedger
  BY <1>5, <1>6 DEF LapseTask
<1>7. ASSUME NEW id, KeepTaskAlive(id) PROVE SameLedger
  BY <1>5, <1>7 DEF KeepTaskAlive
<1>8. CASE \E r \in Callers : Request(r)
  BY <1>2, <1>8 DEF Request, BeginRequest, EnvNotFound, WaitForFreeServant,
     WaitTimeout, SpuriousWakeup, Reply, dispatcherVars
<1>9. CASE \E h \in Handlers : HeartBeat(h)
  BY <1>2, <1>9 DEF HeartBeat, SendHeartBeat, HeartBeatRefused, HeartBeatReply,
     dispatcherVars
<1>10. ASSUME NEW id \in DOMAIN grants, Owner(id) \/ ServantStep(id)
       PROVE  SameLedger
  <2>1. CASE KeepTaskAlive(id)
    BY <1>7, <2>1
  <2>2. CASE ~KeepTaskAlive(id)
    BY <1>2, <1>10, <2>2 DEF Owner, ServantStep, SubmitTask, AbandonGrant,
       ServantStarts, ServantRefuses, ServantFinishes, ServantForgets, Advance,
       dispatcherVars
  <2> QED
    BY <2>1, <2>2
<1>11. CASE \E d \in Mortal : DaemonStops(d) \/ DaemonStarts(d)
  BY <1>2, <1>11 DEF DaemonStops, DaemonStarts, dispatcherVars
<1> QED
  BY <1>2, <1>3, <1>4, <1>6, <1>8, <1>9, <1>10, <1>11 DEF Next, vars

\* A grant goes to one of the free servants with the compiler: it has fewer
\* tasks than AvailableTasks, which is at most its concurrency, and which is
\* the number of its tasks when its memory is low.
LEMMA StartNewTaskStep ==
    ASSUME IInv, NEW r \in Callers, StartNewTask(r)
    PROVE  \E s \in DOMAIN servants :
             /\ servants' = [servants EXCEPT ![s].running = @ + 1]
             /\ servants[s].running < servants[s].info.concurrency
             /\ ~servants[s].info.low_memory
             /\ request[r].env \in servants[s].info.envs
             /\ tasks' = Put(tasks, next_task_id,
                             [servant |-> s, expiry |-> "valid", zombie |-> FALSE])
             /\ request'[r] # request[r]
             /\ next_task_id' = next_task_id + 1
<1>1. PICK s \in UnsafePickUpFreeServant(FreeServantsFor(request[r])) :
        /\ servants' = [servants EXCEPT ![s].running = @ + 1]
        /\ tasks' = Put(tasks, next_task_id,
                        [servant |-> s, expiry |-> "valid", zombie |-> FALSE])
        /\ request' = [request EXCEPT ![r] =
              Granted(@, [id |-> next_task_id, loc |-> servants[s].info.loc])]
  BY DEF StartNewTask
<1>2. s \in FreeServantsFor(request[r])
  BY <1>1, PickIsFree
<1>3. /\ s \in DOMAIN servants
      /\ request[r].env \in servants[s].info.envs
      /\ servants[s].running < AvailableTasks(s)
  BY <1>2 DEF FreeServantsFor, UnsafeGetFreeServants, UnsafeGetServantsHasEnv
<1>4. servants[s] \in Servant
  BY <1>3 DEF IInv, TypeOK
<1>5. servants[s].running < servants[s].info.concurrency
      /\ ~servants[s].info.low_memory
  <2> DEFINE run == servants[s].running
             conc == servants[s].info.concurrency
             load == (servants[s].info.load - run) % SizeMod
             avail == (servants[s].info.cores - load) % SizeMod
  <2>1. run \in Nat /\ conc \in Nat /\ servants[s].info.low_memory \in BOOLEAN
    BY <1>4 DEF Servant, ServantInfo
  <2>2. avail \in Int
    <3>1. servants[s].info.load \in Int /\ servants[s].info.cores \in Int
      BY <1>4 DEF Servant, ServantInfo
    <3>2. load \in Int
      BY <2>1, <3>1, SizeModAssumption
    <3> QED
      BY <3>1, <3>2, SizeModAssumption
  <2>3. AvailableTasks(s) = IF servants[s].info.low_memory THEN run
                            ELSE IF conc < avail THEN conc ELSE avail
    BY DEF AvailableTasks
  <2> HIDE DEF run, conc, avail
  <2>4. run < (IF servants[s].info.low_memory THEN run
               ELSE IF conc < avail THEN conc ELSE avail)
    BY <1>3, <2>3 DEF run
  <2>5. ~servants[s].info.low_memory
    BY <2>1, <2>4
  <2>6. run < conc
    BY <2>1, <2>2, <2>4, <2>5
  <2> QED
    BY <2>5, <2>6 DEF run, conc
<1>6. request'[r] # request[r]
  <2> DEFINE q == request[r]
             a == [id |-> next_task_id, loc |-> servants[s].info.loc]
  <2>1. /\ q \in RequestState
        /\ q.imm > 0 \/ q.pre > 0
    BY DEF StartNewTask, Holding, IInv, TypeOK, CallsHaveWork, HasWork
  <2>2. request'[r] = Granted(q, a)
    BY <1>1 DEF IInv, TypeOK
  <2>3. \/ Granted(q, a).imm = q.imm - 1
        \/ q.imm = 0 /\ Granted(q, a).pre = q.pre - 1
    BY <2>1 DEF Granted, Settle, RequestState
  <2> QED
    BY <2>1, <2>2, <2>3 DEF RequestState
<1> QED
  BY <1>1, <1>3, <1>5, <1>6 DEF StartNewTask

\* A grant that is created is within capacity, and no other step creates one.
LEMMA StepWithinCapacity ==
    ASSUME IInv, [Next]_vars
    PROVE  WithinCapacity
<1>1. ASSUME NEW r \in Callers, StartNewTask(r) PROVE WithinCapacity
  <2>1. PICK s \in DOMAIN servants :
             /\ servants' = [servants EXCEPT ![s].running = @ + 1]
             /\ servants[s].running < servants[s].info.concurrency
             /\ ~servants[s].info.low_memory
             /\ request[r].env \in servants[s].info.envs
             /\ tasks' = Put(tasks, next_task_id,
                             [servant |-> s, expiry |-> "valid", zombie |-> FALSE])
             /\ request'[r] # request[r]
    BY <1>1, StartNewTaskStep
  <2>2. servants[s] \in Servant
    BY DEF IInv, TypeOK
  <2>3. servants'[s].running <= servants[s].info.concurrency
    BY <2>1, <2>2 DEF Servant, ServantInfo
  <2>4. /\ DOMAIN tasks' = DOMAIN tasks \cup {next_task_id}
        /\ tasks'[next_task_id].servant = s
    BY <2>1 DEF Put
  <2> QED
    BY <2>1, <2>3, <2>4 DEF WithinCapacity
<1>2. CASE DOMAIN tasks' \subseteq DOMAIN tasks
  BY <1>2 DEF WithinCapacity
<1>3. ASSUME NEW id \in DOMAIN grants, FreeTask(id)
      PROVE  DOMAIN tasks' \subseteq DOMAIN tasks
  BY <1>3 DEF FreeTask, Without
<1>4. ASSUME NEW h \in Handlers,
             KeepServantAlive(h) \/ NotifyServantRunningTasks(h)
      PROVE  DOMAIN tasks' \subseteq DOMAIN tasks
  BY <1>4 DEF KeepServantAlive, NotifyServantRunningTasks, Without
<1>5. CASE OnTimerExpiration
  <2>1. DOMAIN tasks' \subseteq DOMAIN tasks
    BY <1>5 DEF OnTimerExpiration
  <2> QED
    BY <1>2, <2>1
<1>6. CASE SameLedger
  <2>1. DOMAIN tasks' = DOMAIN tasks
    BY <1>6 DEF SameLedger, Entries
  <2> QED
    BY <1>2, <2>1
<1> QED
  BY <1>1, <1>2, <1>3, <1>4, <1>5, <1>6, OtherSteps

\* Only the holder of a live grant, or the end of its servant, takes it away.
LEMMA StepKeepsLiveOnes ==
    ASSUME IInv, [Next]_vars
    PROVE  LiveOnesAreKept
<1>1. CASE DOMAIN tasks \subseteq DOMAIN tasks'
  BY <1>1 DEF LiveOnesAreKept
<1>2. ASSUME NEW r \in Callers, StartNewTask(r)
      PROVE  DOMAIN tasks \subseteq DOMAIN tasks'
  BY <1>2 DEF StartNewTask, Put
<1>3. ASSUME NEW id \in DOMAIN grants, FreeTask(id) PROVE LiveOnesAreKept
  <2>1. DOMAIN tasks \ DOMAIN tasks' \subseteq {id}
    BY <1>3 DEF FreeTask, Without
  <2>2. Kept(id) /\ grants' = [grants EXCEPT ![id] = Dropped(grants[id])]
    BY <1>3 DEF FreeTask
  <2>3. grants[id] \in Grant
    BY DEF IInv, TypeOK
  <2>4. ~grants'[id].kept
    BY <2>2, <2>3 DEF Dropped, Grant
  <2> QED
    BY <2>1, <2>2, <2>4 DEF LiveOnesAreKept
<1>4. ASSUME NEW h \in Handlers, KeepServantAlive(h)
      PROVE  DOMAIN tasks \subseteq DOMAIN tasks'
  BY <1>4 DEF KeepServantAlive
<1>5. ASSUME NEW h \in Handlers, NotifyServantRunningTasks(h)
      PROVE  LiveOnesAreKept
  BY <1>5 DEF NotifyServantRunningTasks, Without, UnsafeClearZombies,
              LiveOnesAreKept
<1>6. CASE OnTimerExpiration
  <2> DEFINE alive == DOMAIN servants \ Due(servants)
  <2>1. DOMAIN servants' = alive
    BY <1>6 DEF OnTimerExpiration, UnsafeFreeTask, Released, Without
  <2>2. DOMAIN tasks' = DOMAIN tasks \ TasksOutside(alive)
    BY <1>6 DEF OnTimerExpiration
  <2> QED
    BY <2>1, <2>2 DEF TasksOutside, LiveOnesAreKept
<1>7. CASE SameLedger
  <2>1. DOMAIN tasks' = DOMAIN tasks
    BY <1>7 DEF SameLedger, Entries
  <2> QED
    BY <1>1, <2>1
<1> QED
  BY <1>1, <1>2, <1>3, <1>4, <1>5, <1>6, <1>7, OtherSteps

\* No request is given a slot that its servant does not have, in however many
\* pieces its handler ran and whatever the heartbeats said meanwhile.
THEOREM CapacityIsRespected == Spec => GrantsWithinCapacity
<1>1. IInv /\ [Next]_vars => [WithinCapacity]_vars
  BY StepWithinCapacity
<1> QED
  BY <1>1, IInvHolds, PTL DEF Spec, GrantsWithinCapacity

\* Neither the timer nor a heartbeat takes a live grant from its holder.
THEOREM LiveGrantsStay == Spec => LiveGrantsAreKept
<1>1. IInv /\ [Next]_vars => [LiveOnesAreKept]_vars
  BY StepKeepsLiveOnes
<1> QED
  BY <1>1, IInvHolds, PTL DEF Spec, LiveGrantsAreKept

-----------------------------------------------------------------------------
(***************************************************************************)
(* The refinement.  A step of the dispatcher is one step of the ledger, or *)
(* none.                                                                   *)
(***************************************************************************)

\* A heartbeat in a handler is one its daemon may send.
BeatsAreSent ==
    \A h \in Handlers : beat[h].pc # "idle" =>
        /\ beat[h].daemon \in Daemons
        /\ beat[h].info \in Beats[beat[h].daemon]

\* A handler keeps the heartbeat it was called with.
LEMMA NextBeatsAreSent == IInv /\ BeatsAreSent /\ [Next]_vars => BeatsAreSent'
<1> SUFFICES ASSUME IInv, BeatsAreSent, [Next]_vars PROVE BeatsAreSent'
  OBVIOUS
<1>1. CASE beat' = beat
  BY <1>1 DEF BeatsAreSent
<1>2. ASSUME NEW h \in Handlers, HeartBeat(h) PROVE BeatsAreSent'
  <2>1. beat \in [Handlers -> BeatState]
    BY DEF IInv, TypeOK
  <2>2. CASE beat' = [beat EXCEPT ![h] = NoBeat]
    BY <2>1, <2>2 DEF BeatsAreSent, NoBeat
  <2>3. ASSUME NEW d \in Daemons, NEW b \in Beats[d], SendHeartBeat(h, d, b)
        PROVE  BeatsAreSent'
    BY <2>1, <2>3 DEF SendHeartBeat, BeatsAreSent
  <2>4. CASE KeepServantAlive(h)
    <3>1. /\ beat[h].pc = "sent"
          /\ beat' = [beat EXCEPT ![h].pc = "alive"]
      BY <2>4 DEF KeepServantAlive
    <3> QED
      BY <2>1, <3>1 DEF BeatsAreSent, BeatState, NoBeat
  <2>5. CASE NotifyServantRunningTasks(h)
    <3>1. beat[h].pc = "alive"
      BY <2>5 DEF NotifyServantRunningTasks
    <3>2. PICK e : beat' = [beat EXCEPT ![h].pc = "reply", ![h].expired = e]
      BY <2>5 DEF NotifyServantRunningTasks
    <3> QED
      BY <2>1, <3>1, <3>2 DEF BeatsAreSent, BeatState, NoBeat
  <2> QED
    BY <1>2, <2>2, <2>3, <2>4, <2>5 DEF HeartBeat, HeartBeatRefused, HeartBeatReply
<1>3. CASE ~ \E h \in Handlers : HeartBeat(h)
  <2>1. beat' = beat
    BY <1>3 DEF Next, vars, Request, BeginRequest, EnvNotFound,
       WaitForFreeServant, WaitTimeout, SpuriousWakeup, StartNewTask, Reply,
       TimerFires, OnTimerExpiration, Owner, ServantStep, KeepTaskAlive,
       FreeTask, SubmitTask, AbandonGrant, ServantStarts, ServantRefuses,
       ServantFinishes, ServantForgets, Advance, LapseServant, LapseTask,
       DaemonStops, DaemonStarts, dispatcherVars
  <2> QED
    BY <1>1, <2>1
<1> QED
  BY <1>2, <1>3

\* So it is in every reachable state.
LEMMA BeatsAreSentHolds == Spec => []BeatsAreSent
<1>1. Init => BeatsAreSent
  BY DEF Init, BeatsAreSent, NoBeat
<1> QED
  BY <1>1, NextBeatsAreSent, IInvHolds, PTL DEF Spec

\* The ledger's view of the grants of a servant is OnServant.
LEMMA OpenIsOnServant ==
    ASSUME NEW s
    PROVE  Ledger!Open(s) = OnServant(s)
  BY DEF Ledger!Open, OnServant

\* The ledger counts as the dispatcher does.
LEMMA SameCardinality ==
    ASSUME NEW S
    PROVE  Ledger!Cardinality(S) = Cardinality(S)
  BY DEF Ledger!Cardinality, Cardinality, Ledger!IsFiniteSet, IsFiniteSet

\* A new task is a grant issued where a slot is free.
LEMMA StartNewTaskIssues ==
    ASSUME IInv, NEW r \in Callers, StartNewTask(r)
    PROVE  Ledger!Next
<1>1. PICK s \in DOMAIN servants :
        /\ servants' = [servants EXCEPT ![s].running = @ + 1]
        /\ servants[s].running < servants[s].info.concurrency
        /\ tasks' = Put(tasks, next_task_id,
                        [servant |-> s, expiry |-> "valid", zombie |-> FALSE])
        /\ next_task_id' = next_task_id + 1
  BY StartNewTaskStep
<1>2. Ledger!Cardinality(Ledger!Open(s)) < Capacity[s]
  BY <1>1, OpenIsOnServant, SameCardinality DEF IInv, RunningTasksExact, Capacity
<1>3. Capacity' = Capacity
  <2>1. \A t \in DOMAIN servants : servants[t] \in Servant
    BY DEF IInv, TypeOK
  <2>2. /\ DOMAIN servants' = DOMAIN servants
        /\ \A t \in DOMAIN servants : servants'[t].info = servants[t].info
    BY <1>1, <2>1 DEF Servant
  <2> QED
    BY <2>2, SameServants
<1>4. Entries' = [id \in DOMAIN Entries \cup {next_task_id} |->
                    IF id = next_task_id THEN [servant |-> s, zombie |-> FALSE]
                                         ELSE Entries[id]]
  <2>1. /\ DOMAIN tasks' = DOMAIN tasks \cup {next_task_id}
        /\ tasks'[next_task_id].servant = s /\ tasks'[next_task_id].zombie = FALSE
        /\ \A id \in DOMAIN tasks : id # next_task_id => tasks'[id] = tasks[id]
    BY <1>1 DEF Put
  <2> QED
    BY <2>1 DEF Entries, Entry
<1>5. s \in ServantIds
  BY DEF IInv, TypeOK
<1>6. Ledger!Issue(s)
  BY <1>1, <1>2, <1>3, <1>4 DEF Ledger!Issue, Capacity, Entries, Entry
<1> QED
  BY <1>5, <1>6 DEF Ledger!Next

\* The tasks `ids' taken out of tasks_ are closed in the ledger.
LEMMA WithoutCloses ==
    ASSUME NEW ids, tasks' = Without(tasks, ids)
    PROVE  Entries' = Ledger!Closed(ids)
<1>1. /\ DOMAIN tasks' = DOMAIN tasks \ ids
      /\ \A id \in DOMAIN tasks \ ids : tasks'[id] = tasks[id]
  BY DEF Without
<1> QED
  BY <1>1 DEF Entries, Entry, Ledger!Closed

\* Giving tasks back changes no offer.
LEMMA ReleasedCapacity ==
    ASSUME IInv, NEW ids, servants' = Released(servants, ids)
    PROVE  Capacity' = Capacity
<1>1. /\ DOMAIN servants' = DOMAIN servants
      /\ \A s \in DOMAIN servants : servants'[s].info = servants[s].info
  BY ReleasedPlaces DEF IInv, TypeOK
<1> QED
  BY <1>1, SameServants

\* FreeTask returns a grant, unless it is unknown.
LEMMA FreeTaskReturns ==
    ASSUME IInv, NEW id, FreeTask(id)
    PROVE  Ledger!Next \/ SameLedger
<1>1. CASE id \notin DOMAIN tasks
  BY <1>1 DEF FreeTask, SameLedger, Capacity, Entries, Entry
<1>2. CASE id \in DOMAIN tasks
  <2>1. /\ servants' = Released(servants, {id})
        /\ tasks' = Without(tasks, {id})
        /\ next_task_id' = next_task_id
    BY <1>2 DEF FreeTask, UnsafeFreeTask
  <2>2. Capacity' = Capacity /\ Entries' = Ledger!Closed({id})
    BY <2>1, ReleasedCapacity, WithoutCloses
  <2>3. Ledger!Return(id)
    BY <2>1, <2>2 DEF Ledger!Return, Capacity, Entries, Entry
  <2> QED
    BY <1>2, <2>3 DEF Ledger!Next
<1> QED
  BY <1>1, <1>2

\* A heartbeat's offer is one of Slots: what it says, or nothing.
LEMMA KeepServantAliveOffers ==
    ASSUME IInv, BeatsAreSent, NEW h \in Handlers, KeepServantAlive(h)
    PROVE  Ledger!Next
<1> DEFINE info == InfoOf(beat[h].daemon, beat[h].info)
           expiry == IF beat[h].info.next = "zero" THEN "lapsed" ELSE "valid"
           slots == {0} \cup {b.concurrency : b \in UNION {Beats[d] : d \in Daemons}}
           Offers(s) == Capacity' = [t \in DOMAIN Capacity \cup {s} |->
                                       IF t = s THEN info.concurrency ELSE Capacity[t]]
<1>1. info.concurrency \in slots
  <2>1. beat[h].daemon \in Daemons /\ beat[h].info \in Beats[beat[h].daemon]
    BY DEF KeepServantAlive, BeatsAreSent
  <2>2. info.concurrency \in {0, beat[h].info.concurrency}
    BY DEF InfoOf
  <2> QED
    BY <2>1, <2>2
<1>2. ASSUME NEW s \in First(AtLocation(info.loc)),
             servants' = [servants EXCEPT ![s] = Refreshed(@, info, expiry)]
      PROVE  s \in ServantIds /\ Offers(s)
  <2>1. s \in DOMAIN servants
    BY <1>2 DEF First, AtLocation
  <2>2. servants[s] \in Servant /\ s \in ServantIds
    BY <2>1 DEF IInv, TypeOK
  <2>3. Refreshed(servants[s], info, expiry).info = info
    BY <2>2 DEF Refreshed, Servant
  <2>4. /\ DOMAIN servants' = DOMAIN servants
        /\ servants'[s].info = info
        /\ \A t \in DOMAIN servants : t # s => servants'[t] = servants[t]
    BY <1>2, <2>1, <2>3
  <2> HIDE DEF info
  <2> QED
    BY <2>1, <2>2, <2>4 DEF Capacity
<1>3. ASSUME NEW s \in ServantIds \ DOMAIN servants,
             servants' = Put(servants, s,
                             [info |-> info, running |-> 0, expiry |-> expiry])
      PROVE  s \in ServantIds /\ Offers(s)
  <2>1. /\ DOMAIN servants' = DOMAIN servants \cup {s}
        /\ servants'[s].info = info
        /\ \A t \in DOMAIN servants : t # s => servants'[t] = servants[t]
    BY <1>3 DEF Put
  <2> HIDE DEF info
  <2> QED
    BY <2>1 DEF Capacity
<1>4. PICK s \in ServantIds : Offers(s)
  BY <1>2, <1>3 DEF KeepServantAlive
<1>5. UNCHANGED <<tasks, next_task_id>>
  BY DEF KeepServantAlive
<1>6. PICK n \in slots : n = info.concurrency
  BY <1>1
<1>7. Ledger!Offer(s, n)
  <2> HIDE DEF info
  <2> QED
    BY <1>4, <1>5, <1>6 DEF Ledger!Offer, Capacity
<1> QED
  BY <1>4, <1>6, <1>7 DEF Ledger!Next

\* NotifyServantRunningTasks closes dead grants of one servant.
LEMMA NotifyBuries ==
    ASSUME IInv, NEW h \in Handlers, NotifyServantRunningTasks(h)
    PROVE  Ledger!Next \/ SameLedger
<1> DEFINE loc == Reported[beat[h].daemon]
           running == beat[h].running
<1>1. next_task_id' = next_task_id
  BY DEF NotifyServantRunningTasks
<1>2. CASE UNCHANGED <<servants, tasks>>
  BY <1>1, <1>2 DEF SameLedger, Capacity, Entries, Entry
<1>3. ASSUME NEW s \in First(AtLocation(loc)),
             servants' = Released(servants, UnsafeClearZombies(s, running)),
             tasks' = Without(tasks, UnsafeClearZombies(s, running))
      PROVE  Ledger!Next
  <2> DEFINE cleared == UnsafeClearZombies(s, running)
  <2>1. Capacity' = Capacity /\ Entries' = Ledger!Closed(cleared)
    BY <1>3, ReleasedCapacity, WithoutCloses
  <2>2. s \in DOMAIN Capacity
    BY DEF First, AtLocation, Capacity
  <2>3. cleared \subseteq Ledger!Open(s) \cap Ledger!Dead
    BY DEF UnsafeClearZombies, OnServant, Ledger!Open, Ledger!Dead
  <2> HIDE DEF cleared
  <2>4. PICK ids : ids = cleared
    OBVIOUS
  <2>5. Ledger!Bury(s, ids)
    BY <1>1, <2>1, <2>3, <2>4 DEF Ledger!Bury, Ledger!Closed, Capacity, Entries, Entry
  <2> QED
    BY <2>2, <2>3, <2>4, <2>5 DEF Ledger!Next, Capacity
<1> QED
  BY <1>2, <1>3 DEF NotifyServantRunningTasks, UnsafeFreeTask

\* The timer sweeps: as no task is without a live servant before, exactly the
\* tasks of the servants it removes go with them.
LEMMA OnTimerExpirationSweeps ==
    ASSUME IInv, OnTimerExpiration
    PROVE  Ledger!Next
<1> DEFINE gone == Due(servants)
           alive == DOMAIN servants \ gone
           left == Without(servants, gone)
<1>1. next_task_id' = next_task_id
  BY DEF OnTimerExpiration
<1>2. /\ DOMAIN servants' = alive
      /\ \A s \in alive : servants'[s].info = servants[s].info
  <2>1. servants' = Released(left, TasksOutside(alive))
    BY DEF OnTimerExpiration, UnsafeFreeTask
  <2>2. /\ DOMAIN left = alive
        /\ \A s \in alive : left[s] = servants[s] /\ left[s] \in Servant
    BY DEF Without, IInv, TypeOK
  <2> HIDE DEF left
  <2> QED
    BY <2>1, <2>2, ReleasedPlaces
<1>3. Capacity' = [s \in DOMAIN Capacity \ gone |-> Capacity[s]]
  <2> HIDE DEF gone
  <2> QED
    BY <1>2 DEF Capacity
<1>4. tasks' = [id \in DOMAIN tasks \ TasksOutside(alive) |->
                  [tasks[id] EXCEPT !.zombie = @ \/ id \in Due(tasks)]]
  BY DEF OnTimerExpiration
<1>5. DOMAIN Entries' = {id \in DOMAIN Entries : Entries[id].servant \notin gone}
  <2>1. \A id \in DOMAIN tasks : tasks[id].servant \in DOMAIN servants
    BY DEF IInv, TasksOfLiveServants
  <2> HIDE DEF gone
  <2> QED
    BY <1>4, <2>1 DEF TasksOutside, Entries, Entry
<1>6. ASSUME NEW id \in DOMAIN Entries'
      PROVE  \/ Entries'[id] = Entries[id]
             \/ Entries'[id] = [servant |-> Entries[id].servant, zombie |-> TRUE]
  <2>1. id \in DOMAIN tasks \ TasksOutside(alive)
    BY <1>4, <1>6 DEF Entries
  <2>2. tasks[id] \in Task
    BY <2>1 DEF IInv, TypeOK
  <2>3. /\ tasks'[id].servant = tasks[id].servant
        /\ tasks'[id].zombie = (tasks[id].zombie \/ id \in Due(tasks))
    BY <1>4, <2>1, <2>2 DEF Task
  <2>4. /\ Entries[id] = [servant |-> tasks[id].servant, zombie |-> tasks[id].zombie]
        /\ Entries'[id] = [servant |-> tasks'[id].servant, zombie |-> tasks'[id].zombie]
    BY <1>4, <2>1 DEF Entries, Entry
  <2>5. tasks[id].zombie \in BOOLEAN
    BY <2>2 DEF Task
  <2>6. CASE tasks[id].zombie \/ id \in Due(tasks)
    <3>1. tasks'[id].zombie = TRUE
      BY <2>3, <2>6
    <3>2. tasks'[id].servant = Entries[id].servant
      BY <2>3, <2>4
    <3> QED
      BY <2>4, <3>1, <3>2, Zenon
  <2>7. CASE ~(tasks[id].zombie \/ id \in Due(tasks))
    BY <2>3, <2>4, <2>5, <2>7
  <2> QED
    BY <2>6, <2>7
<1>7. gone \subseteq DOMAIN servants
  BY DEF Due
<1> HIDE DEF gone
<1>8. PICK g : g = gone
  OBVIOUS
<1>9. Ledger!Sweep(g)
  BY <1>1, <1>3, <1>5, <1>6, <1>8 DEF Ledger!Sweep, Capacity, Entries, Entry
<1> QED
  BY <1>7, <1>8, <1>9 DEF Ledger!Next

\* Every step of the dispatcher is a step of the ledger, or none.
LEMMA StepRefines ==
    ASSUME IInv, BeatsAreSent, [Next]_vars
    PROVE  [Ledger!Next]_Ledger!vars
<1>1. SameLedger => UNCHANGED Ledger!vars
  BY DEF SameLedger, Capacity, Entries, Entry, Ledger!vars
<1> QED
  BY <1>1, StartNewTaskIssues, FreeTaskReturns, KeepServantAliveOffers,
     NotifyBuries, OnTimerExpirationSweeps, OtherSteps

\* The dispatcher implements the ledger for every number of daemons, handlers
\* and requests: no slot is granted twice, no dead grant lives again, and no
\* live one is dropped.
THEOREM DispatcherImplementsLedger == Spec => GrantsFormALedger
<1>1. Init => Ledger!Init
  BY DEF Init, Ledger!Init
<1>2. IInv /\ BeatsAreSent /\ [Next]_vars => [Ledger!Next]_Ledger!vars
  BY StepRefines
<1> QED
  BY <1>1, <1>2, IInvHolds, BeatsAreSentHolds, PTL
     DEF Spec, GrantsFormALedger, Ledger!Spec

-----------------------------------------------------------------------------
(***************************************************************************)
(* What a heartbeat's answer kills.                                        *)
(***************************************************************************)

\* The daemons seen at one address are all behind a NAT or none is: they report
\* another address, or this one.
NatsApart ==
    \A d, e \in Daemons :
        Observed[d] = Observed[e] /\ Observed[d] = Reported[d]
            => Observed[e] = Reported[e]

\* Where the servant of task id is.
LocOf(id) == servants[tasks[id].servant].info.loc

\* Every copy of a grant that still has its task, on a handler's stack, with its
\* owner or in a heartbeat, is of the place where the task's servant is.
RequestsPlaced ==
    \A r \in Callers : \A a \in request[r].grants :
        a.id \in DOMAIN tasks => a.loc = LocOf(a.id)

GrantsPlaced ==
    \A id \in DOMAIN grants : id \in DOMAIN tasks => grants[id].loc = LocOf(id)

BeatsPlaced ==
    \A h \in Handlers : beat[h].pc # "idle" =>
        \A id \in beat[h].running :
            id \in DOMAIN tasks => LocOf(id) = Observed[beat[h].daemon]

\* A servant with slots has been seen where it says it is, and so has every
\* servant with a task.
Reachable(loc) == \E d \in Daemons : Observed[d] = loc /\ Reported[d] = loc

ReachableServants ==
    /\ \A s \in DOMAIN servants :
          servants[s].info.concurrency > 0 => Reachable(servants[s].info.loc)
    /\ \A id \in DOMAIN tasks : Reachable(LocOf(id))

\* With IInv, LocInv and BeatsAreSent, preserved by every step.
KillInv == /\ RequestsPlaced /\ GrantsPlaced /\ BeatsPlaced
           /\ ReachableServants
           /\ NatsApart => KillsOnlyDeadGrants

\* No task is made, moved or revived.
TasksStay ==
    \A id \in DOMAIN tasks' :
        /\ id \in DOMAIN tasks
        /\ tasks[id].zombie => tasks'[id].zombie
        /\ LocOf(id)' = LocOf(id)

\* No handler is given a grant, no owner, no heartbeat and no answer.
RequestsStay == \A r \in Callers : request'[r].grants \subseteq request[r].grants

GrantsStay ==
    \A id \in DOMAIN grants' : id \in DOMAIN grants /\ grants'[id].loc = grants[id].loc

BeatsStay ==
    \A h \in Handlers : beat'[h].pc # "idle" =>
        /\ beat[h].pc # "idle"
        /\ beat'[h].daemon = beat[h].daemon
        /\ beat'[h].running = beat[h].running

AnswersStay ==
    \A h \in Handlers : beat'[h].pc = "reply" =>
        beat[h].pc = "reply" /\ beat'[h].expired = beat[h].expired

\* While no task is made, the copies that stay are in place, and an answer in
\* flight stays right.
LEMMA CopiesStay ==
    ASSUME KillInv, TasksStay
    PROVE  /\ RequestsStay => RequestsPlaced'
           /\ GrantsStay => GrantsPlaced'
           /\ BeatsStay => BeatsPlaced'
           /\ AnswersStay => (NatsApart => KillsOnlyDeadGrants')
<1>1. RequestsStay => RequestsPlaced'
  BY DEF KillInv, TasksStay, RequestsStay, RequestsPlaced
<1>2. GrantsStay => GrantsPlaced'
  BY DEF KillInv, TasksStay, GrantsStay, GrantsPlaced
<1>3. BeatsStay => BeatsPlaced'
  BY DEF KillInv, TasksStay, BeatsStay, BeatsPlaced
<1>4. AnswersStay => (NatsApart => KillsOnlyDeadGrants')
  BY DEF KillInv, KillsOnlyDeadGrants, Live, TasksStay, AnswersStay
<1> QED
  BY <1>1, <1>2, <1>3, <1>4

\* A step that keeps the ledger and the places keeps the tasks where they are.
LEMMA SameLedgerStays ==
    ASSUME IInv, ReachableServants, SameLedger, SamePlaces
    PROVE  TasksStay /\ ReachableServants'
<1>1. DOMAIN tasks' = DOMAIN tasks /\ DOMAIN servants' = DOMAIN servants
  BY DEF SameLedger, Entries, Capacity
<1>2. \A s \in DOMAIN servants :
         servants'[s].info.concurrency = servants[s].info.concurrency
  <2>1. \A s \in DOMAIN servants : /\ Capacity[s] = servants[s].info.concurrency
                                   /\ Capacity'[s] = servants'[s].info.concurrency
    BY <1>1 DEF Capacity
  <2> QED
    BY <2>1 DEF SameLedger
<1>3. \A id \in DOMAIN tasks : /\ tasks'[id].servant = tasks[id].servant
                               /\ tasks'[id].zombie = tasks[id].zombie
  <2>1. \A id \in DOMAIN tasks : /\ Entries[id].servant = tasks[id].servant
                                 /\ Entries[id].zombie = tasks[id].zombie
                                 /\ Entries'[id].servant = tasks'[id].servant
                                 /\ Entries'[id].zombie = tasks'[id].zombie
    BY <1>1 DEF Entries, Entry
  <2> QED
    BY <2>1 DEF SameLedger
<1>4. \A id \in DOMAIN tasks : LocOf(id)' = LocOf(id)
  BY <1>3 DEF SamePlaces, LocOf, IInv, TasksOfLiveServants
<1>5. TasksStay
  BY <1>1, <1>3, <1>4 DEF TasksStay
<1> QED
  BY <1>1, <1>2, <1>4, <1>5 DEF ReachableServants, SamePlaces

\* So do the steps that take tasks away: they leave the places.
LEMMA ReleaseStays ==
    ASSUME IInv, ReachableServants,
           DOMAIN servants' \subseteq DOMAIN servants,
           \A s \in DOMAIN servants' : servants'[s].info = servants[s].info,
           \A id \in DOMAIN tasks' : /\ id \in DOMAIN tasks
                                     /\ tasks'[id].servant = tasks[id].servant
                                     /\ tasks'[id].servant \in DOMAIN servants'
                                     /\ tasks[id].zombie => tasks'[id].zombie
    PROVE  TasksStay /\ ReachableServants'
<1>1. \A id \in DOMAIN tasks' : LocOf(id)' = LocOf(id)
  BY DEF LocOf
<1>2. TasksStay
  BY <1>1 DEF TasksStay
<1> QED
  BY <1>1, <1>2 DEF ReachableServants

\* Only StartNewTask puts a grant on a handler's stack.
LEMMA StepRequestsStay ==
    ASSUME IInv, [Next]_vars, ~ \E r \in Callers : StartNewTask(r)
    PROVE  RequestsStay
<1>1. request \in [Callers -> RequestState]
  BY DEF IInv, TypeOK
<1>2. CASE UNCHANGED request
  BY <1>2 DEF RequestsStay
<1>3. CASE NotifyAll
  BY <1>3, NotifyAllTypes DEF IInv, RequestsStay
<1>4. ASSUME NEW r \in Callers, NEW q \in RequestState,
             q.grants \subseteq request[r].grants,
             request' = [request EXCEPT ![r] = q]
      PROVE  RequestsStay
  BY <1>1, <1>4 DEF RequestsStay
<1>5. ASSUME NEW r \in Callers, Request(r) PROVE RequestsStay
  <2> DEFINE q == request[r]
  <2>1. q \in RequestState
    BY <1>1
  <2>2. ASSUME NEW ask \in Asks, BeginRequest(r, ask) PROVE RequestsStay
    <3>1. PICK p : p = [Idle EXCEPT !.env = ask.env,
                                    !.min_version = ask.min_version,
                                    !.imm = ask.imm, !.pre = ask.pre]
      OBVIOUS
    <3>2. p \in RequestState /\ p.grants = {}
      BY <3>1, RequestsAssumption DEF Idle, RequestState, StartingTaskRequest
    <3>3. request' = [request EXCEPT ![r] = Settle(p)]
      BY <2>2, <3>1 DEF BeginRequest
    <3> QED
      BY <1>4, <3>2, <3>3, SettleTypes
  <2>3. CASE EnvNotFound(r)
    <3>1. request' = [request EXCEPT ![r] = NotFound(q)]
      BY <2>3 DEF EnvNotFound
    <3> QED
      BY <1>4, <2>1, <3>1, OutcomeTypes
  <2>4. ASSUME NEW pc \in {"wait", "woken"},
               request' = [request EXCEPT ![r] = [q EXCEPT !.pc = pc]]
        PROVE  RequestsStay
    <3>1. /\ [q EXCEPT !.pc = pc] \in RequestState
          /\ [q EXCEPT !.pc = pc].grants = q.grants
      BY <2>1 DEF RequestState
    <3> QED
      BY <1>4, <2>4, <3>1
  <2>5. CASE WaitForFreeServant(r)
    <3>1. CASE MayWait(q)
      BY <2>4, <2>5, <3>1 DEF WaitForFreeServant
    <3>2. CASE ~MayWait(q)
      <4>1. request' = [request EXCEPT ![r] = TimedOut(q)]
        BY <2>5, <3>2 DEF WaitForFreeServant
      <4> QED
        BY <1>4, <2>1, <4>1, OutcomeTypes
    <3> QED
      BY <3>1, <3>2
  <2>6. CASE WaitTimeout(r)
    <3>1. PICK p : p = [q EXCEPT !.overdue = TRUE]
      OBVIOUS
    <3>2. p \in RequestState /\ p.grants = q.grants
      BY <2>1, <3>1 DEF RequestState
    <3>3. request' = [request EXCEPT ![r] = TimedOut(p)]
      BY <2>6, <3>1 DEF WaitTimeout
    <3> QED
      BY <1>4, <3>2, <3>3, OutcomeTypes
  <2>7. CASE SpuriousWakeup(r)
    <3>1. request' = [request EXCEPT ![r] = [q EXCEPT !.pc = "woken"]]
      BY <2>7 DEF SpuriousWakeup
    <3> QED
      BY <2>4, <3>1
  <2>8. ASSUME NEW delivered \in BOOLEAN, Reply(r, delivered) PROVE RequestsStay
    <3>1. Idle \in RequestState /\ Idle.grants = {}
      BY DEF Idle, RequestState
    <3> QED
      BY <1>4, <2>8, <3>1 DEF Reply
  <2> QED
    BY <1>5, <2>2, <2>3, <2>5, <2>6, <2>7, <2>8 DEF Request
<1>6. ASSUME NEW id \in DOMAIN grants, FreeTask(id) PROVE RequestsStay
  BY <1>2, <1>3, <1>6 DEF FreeTask, UnsafeFreeTask
<1>7. ASSUME NEW h \in Handlers, HeartBeat(h) PROVE RequestsStay
  BY <1>2, <1>3, <1>7 DEF HeartBeat, SendHeartBeat, HeartBeatRefused,
     KeepServantAlive, NotifyServantRunningTasks, UnsafeFreeTask, HeartBeatReply
<1>8. CASE OnTimerExpiration
  BY <1>3, <1>8 DEF OnTimerExpiration, UnsafeFreeTask
<1> QED
  BY <1>2, <1>5, <1>6, <1>7, <1>8
     DEF Next, vars, TimerFires, Owner, ServantStep, KeepTaskAlive, SubmitTask,
         AbandonGrant, ServantStarts, ServantRefuses, ServantFinishes,
         ServantForgets, Advance, LapseServant, LapseTask, DaemonStops,
         DaemonStarts

\* Only a reply of WaitForStaringTask gives a grant to an owner.
LEMMA StepGrantsStay ==
    ASSUME IInv, [Next]_vars,
           ~ \E r \in Callers : \E delivered \in BOOLEAN : Reply(r, delivered)
    PROVE  GrantsStay
<1>1. \A id \in DOMAIN grants : grants[id] \in Grant
  BY DEF IInv, TypeOK
<1>2. CASE UNCHANGED grants
  BY <1>2 DEF GrantsStay
<1>3. ASSUME NEW id \in DOMAIN grants, Owner(id) \/ ServantStep(id)
      PROVE  GrantsStay
  <2>1. CASE grants' = [grants EXCEPT ![id] = Dropped(@)]
    BY <1>1, <2>1 DEF Dropped, Grant, GrantsStay
  <2>2. ASSUME NEW from, NEW to, Advance(id, from, to) PROVE GrantsStay
    BY <1>1, <2>2 DEF Advance, Grant, GrantsStay
  <2> QED
    BY <1>2, <1>3, <2>1, <2>2
       DEF Owner, ServantStep, KeepTaskAlive, FreeTask, SubmitTask, AbandonGrant,
           ServantStarts, ServantRefuses, ServantFinishes, ServantForgets
<1>4. ASSUME NEW h \in Handlers, HeartBeat(h) PROVE GrantsStay
  <2>1. ASSUME NEW delivered \in BOOLEAN, HeartBeatReply(h, delivered)
        PROVE  GrantsStay
    BY <1>1, <2>1 DEF HeartBeatReply, Grant, GrantsStay
  <2> QED
    BY <1>2, <1>4, <2>1 DEF HeartBeat, SendHeartBeat, HeartBeatRefused,
       KeepServantAlive, NotifyServantRunningTasks
<1>5. ASSUME NEW d \in Mortal, DaemonStops(d) PROVE GrantsStay
  BY <1>1, <1>5 DEF DaemonStops, Grant, GrantsStay
<1> QED
  BY <1>2, <1>3, <1>4, <1>5
     DEF Next, vars, Request, BeginRequest, EnvNotFound, WaitForFreeServant,
         WaitTimeout, SpuriousWakeup, StartNewTask, TimerFires,
         OnTimerExpiration, LapseServant, LapseTask, DaemonStarts

\* Only SendHeartBeat makes a heartbeat, only NotifyServantRunningTasks an answer.
LEMMA StepBeatsStay ==
    ASSUME IInv, [Next]_vars
    PROVE  /\ \/ BeatsStay
              \/ \E h \in Handlers : \E d \in Daemons : \E b \in Beats[d] :
                    SendHeartBeat(h, d, b)
           /\ \/ AnswersStay
              \/ \E h \in Handlers : NotifyServantRunningTasks(h)
<1>1. beat \in [Handlers -> BeatState]
  BY DEF IInv, TypeOK
<1>2. CASE UNCHANGED beat
  BY <1>2 DEF BeatsStay, AnswersStay
<1>3. ASSUME NEW h \in Handlers, beat' = [beat EXCEPT ![h] = NoBeat]
      PROVE  BeatsStay /\ AnswersStay
  BY <1>1, <1>3 DEF BeatsStay, AnswersStay, NoBeat
<1>4. ASSUME NEW h \in Handlers, KeepServantAlive(h)
      PROVE  BeatsStay /\ AnswersStay
  <2>1. /\ beat[h].pc = "sent"
        /\ beat' = [beat EXCEPT ![h].pc = "alive"]
    BY <1>4 DEF KeepServantAlive
  <2>2. beat[h] \in BeatCall
    BY <2>1, BeatTypes DEF IInv
  <2> QED
    BY <1>1, <2>1, <2>2 DEF BeatsStay, AnswersStay, BeatCall
<1>5. ASSUME NEW h \in Handlers, NotifyServantRunningTasks(h)
      PROVE  BeatsStay
  <2>1. beat[h].pc = "alive"
    BY <1>5 DEF NotifyServantRunningTasks
  <2>2. PICK e : beat' = [beat EXCEPT ![h].pc = "reply", ![h].expired = e]
    BY <1>5 DEF NotifyServantRunningTasks
  <2>3. beat[h] \in BeatCall
    BY <2>1, BeatTypes DEF IInv
  <2> QED
    BY <1>1, <2>1, <2>2, <2>3 DEF BeatsStay, BeatCall
<1>6. ASSUME NEW h \in Handlers, NEW d \in Daemons, NEW b \in Beats[d],
             SendHeartBeat(h, d, b)
      PROVE  AnswersStay
  BY <1>1, <1>6 DEF SendHeartBeat, AnswersStay
<1>7. ASSUME NEW h \in Handlers, HeartBeat(h)
      PROVE  /\ \/ BeatsStay
                \/ \E d \in Daemons : \E b \in Beats[d] : SendHeartBeat(h, d, b)
             /\ AnswersStay \/ NotifyServantRunningTasks(h)
  BY <1>3, <1>4, <1>5, <1>6, <1>7 DEF HeartBeat, HeartBeatRefused, HeartBeatReply
<1>8. CASE ~ \E h \in Handlers : HeartBeat(h)
  <2>1. beat' = beat
    BY <1>8 DEF Next, vars, Request, BeginRequest, EnvNotFound,
       WaitForFreeServant, WaitTimeout, SpuriousWakeup, StartNewTask, Reply,
       TimerFires, OnTimerExpiration, Owner, ServantStep, KeepTaskAlive,
       FreeTask, SubmitTask, AbandonGrant, ServantStarts, ServantRefuses,
       ServantFinishes, ServantForgets, Advance, LapseServant, LapseTask,
       DaemonStops, DaemonStarts, dispatcherVars
  <2> QED
    BY <1>2, <2>1
<1> QED
  BY <1>7, <1>8

\* A heartbeat changes no place of a task, and a servant it gives slots reports
\* the address it is seen at.
LEMMA KeepServantAliveStays ==
    ASSUME IInv, BeatsAreSent, ReachableServants,
           NEW h \in Handlers, KeepServantAlive(h)
    PROVE  TasksStay /\ ReachableServants'
<1> DEFINE info == InfoOf(beat[h].daemon, beat[h].info)
           expiry == IF beat[h].info.next = "zero" THEN "lapsed" ELSE "valid"
<1>1. info.concurrency > 0 => Reachable(info.loc)
  <2>1. beat[h].daemon \in Daemons
    BY DEF KeepServantAlive, BeatsAreSent
  <2> QED
    BY <2>1 DEF InfoOf, Reachable
<1>2. UNCHANGED tasks
  BY DEF KeepServantAlive
<1>3. \A id \in DOMAIN tasks : tasks[id].servant \in DOMAIN servants
  BY DEF IInv, TasksOfLiveServants
<1> DEFINE Moved(s) == /\ DOMAIN servants' = DOMAIN servants \cup {s}
                       /\ servants'[s].info = info
                       /\ s \in DOMAIN servants => servants[s].info.loc = info.loc
                       /\ \A t \in DOMAIN servants : t # s => servants'[t] = servants[t]
<1>4. ASSUME NEW s, Moved(s) PROVE TasksStay /\ ReachableServants'
  <2> HIDE DEF info
  <2>1. \A id \in DOMAIN tasks : LocOf(id)' = LocOf(id)
    BY <1>2, <1>3, <1>4 DEF LocOf
  <2>2. TasksStay
    BY <1>2, <2>1 DEF TasksStay
  <2> QED
    BY <1>1, <1>2, <1>4, <2>1, <2>2 DEF ReachableServants
<1>5. ASSUME NEW s \in First(AtLocation(info.loc)),
             servants' = [servants EXCEPT ![s] = Refreshed(@, info, expiry)]
      PROVE  Moved(s)
  <2>1. s \in DOMAIN servants /\ servants[s].info.loc = info.loc
    BY <1>5 DEF First, AtLocation
  <2>2. servants[s] \in Servant
    BY <2>1 DEF IInv, TypeOK
  <2>3. Refreshed(servants[s], info, expiry).info = info
    BY <2>2 DEF Refreshed, Servant
  <2> QED
    BY <1>5, <2>1, <2>3
<1>6. ASSUME NEW s \in ServantIds \ DOMAIN servants,
             servants' = Put(servants, s,
                             [info |-> info, running |-> 0, expiry |-> expiry])
      PROVE  Moved(s)
  BY <1>6 DEF Put
<1>7. \E s : Moved(s)
  BY <1>5, <1>6 DEF KeepServantAlive
<1> QED
  BY <1>4, <1>7

\* The steps that take tasks away leave the others where they are.
LEMMA FreeingStays ==
    ASSUME IInv, ReachableServants,
           \/ \E id \in DOMAIN grants : FreeTask(id)
           \/ \E h \in Handlers : NotifyServantRunningTasks(h)
    PROVE  TasksStay /\ ReachableServants'
<1>1. \A id \in DOMAIN tasks : tasks[id].servant \in DOMAIN servants
  BY DEF IInv, TasksOfLiveServants
<1>2. CASE UNCHANGED <<servants, tasks>>
  BY <1>1, <1>2, ReleaseStays
<1>3. ASSUME NEW ids, servants' = Released(servants, ids),
             tasks' = Without(tasks, ids)
      PROVE  TasksStay /\ ReachableServants'
  <2>1. /\ DOMAIN servants' = DOMAIN servants
        /\ \A s \in DOMAIN servants : servants'[s].info = servants[s].info
    BY <1>3, ReleasedPlaces DEF IInv, TypeOK
  <2>2. \A id \in DOMAIN tasks' : id \in DOMAIN tasks /\ tasks'[id] = tasks[id]
    BY <1>3 DEF Without
  <2> QED
    BY <1>1, <2>1, <2>2, ReleaseStays
<1>4. ASSUME NEW id \in DOMAIN grants, FreeTask(id)
      PROVE  TasksStay /\ ReachableServants'
  BY <1>2, <1>3, <1>4 DEF FreeTask, UnsafeFreeTask
<1>5. ASSUME NEW h \in Handlers, NotifyServantRunningTasks(h)
      PROVE  TasksStay /\ ReachableServants'
  BY <1>2, <1>3, <1>5 DEF NotifyServantRunningTasks, UnsafeFreeTask
<1> QED
  BY <1>4, <1>5

\* The timer removes servants with their tasks, and makes zombies.
LEMMA OnTimerExpirationStays ==
    ASSUME IInv, ReachableServants, OnTimerExpiration
    PROVE  TasksStay /\ ReachableServants'
<1> DEFINE alive == DOMAIN servants \ Due(servants)
           left == Without(servants, Due(servants))
<1>1. /\ DOMAIN servants' = alive
      /\ \A s \in alive : servants'[s].info = servants[s].info
  <2>1. servants' = Released(left, TasksOutside(alive))
    BY DEF OnTimerExpiration, UnsafeFreeTask
  <2>2. /\ DOMAIN left = alive
        /\ \A s \in alive : left[s] = servants[s] /\ left[s] \in Servant
    BY DEF Without, IInv, TypeOK
  <2> HIDE DEF left
  <2> QED
    BY <2>1, <2>2, ReleasedPlaces
<1>2. tasks' = [id \in DOMAIN tasks \ TasksOutside(alive) |->
                  [tasks[id] EXCEPT !.zombie = @ \/ id \in Due(tasks)]]
  BY DEF OnTimerExpiration
<1>3. ASSUME NEW id \in DOMAIN tasks'
      PROVE  /\ id \in DOMAIN tasks
             /\ tasks'[id].servant = tasks[id].servant
             /\ tasks'[id].servant \in DOMAIN servants'
             /\ tasks[id].zombie => tasks'[id].zombie
  <2>1. id \in DOMAIN tasks \ TasksOutside(alive)
    BY <1>2
  <2>2. tasks[id] \in Task
    BY <2>1 DEF IInv, TypeOK
  <2>3. /\ tasks'[id].servant = tasks[id].servant
        /\ tasks'[id].zombie = (tasks[id].zombie \/ id \in Due(tasks))
    BY <1>2, <2>1, <2>2 DEF Task
  <2>4. tasks[id].servant \in alive
    BY <2>1 DEF TasksOutside
  <2> QED
    BY <1>1, <2>1, <2>3, <2>4
<1> QED
  BY <1>1, <1>3, ReleaseStays

\* Only StartNewTask makes a task; no step moves or revives one.
LEMMA StepTasksStay ==
    ASSUME IInv, BeatsAreSent, ReachableServants, [Next]_vars,
           ~ \E r \in Callers : StartNewTask(r)
    PROVE  TasksStay /\ ReachableServants'
<1>1. CASE \/ \E id \in DOMAIN grants : FreeTask(id)
           \/ \E h \in Handlers : NotifyServantRunningTasks(h)
  BY <1>1, FreeingStays
<1>2. CASE OnTimerExpiration
  BY <1>2, OnTimerExpirationStays
<1>3. CASE \E h \in Handlers : KeepServantAlive(h)
  BY <1>3, KeepServantAliveStays
<1>4. CASE /\ ~ \E id \in DOMAIN grants : FreeTask(id)
           /\ ~ \E h \in Handlers : KeepServantAlive(h) \/ NotifyServantRunningTasks(h)
           /\ ~ OnTimerExpiration
  <2>1. SameLedger
    BY <1>4, OtherSteps
  <2>2. SamePlaces
    <3>1. CASE UNCHANGED vars
      BY <3>1 DEF vars, SamePlaces
    <3>2. ASSUME NEW h \in Handlers, HeartBeat(h) PROVE SamePlaces
      BY <1>4, <3>2 DEF HeartBeat, SendHeartBeat, HeartBeatRefused,
         HeartBeatReply, dispatcherVars, SamePlaces
    <3> QED
      BY <1>4, <3>1, <3>2, RequestPlaces, GrantPlaces, TimePlaces DEF Next
  <2> QED
    BY <2>1, <2>2, SameLedgerStays
<1> QED
  BY <1>1, <1>2, <1>3, <1>4

\* StartNewTask makes a task and one copy of its grant, which names the place of
\* the servant that was picked; that servant has slots.
LEMMA StartNewTaskKillInv ==
    ASSUME IInv, KillInv, NEW r \in Callers, StartNewTask(r)
    PROVE  KillInv'
<1> DEFINE q == request[r]
<1>0. PICK n : n = next_task_id
  OBVIOUS
<1>1. PICK s \in UnsafePickUpFreeServant(FreeServantsFor(q)) :
          /\ servants' = [servants EXCEPT ![s].running = @ + 1]
          /\ tasks' = Put(tasks, n,
                          [servant |-> s, expiry |-> "valid", zombie |-> FALSE])
          /\ request' = [request EXCEPT ![r] =
                Granted(@, [id |-> n, loc |-> servants[s].info.loc])]
  BY <1>0 DEF StartNewTask
<1>2. s \in DOMAIN servants /\ servants[s].info.concurrency > 0
  <2>1. s \in FreeServantsFor(q)
    BY <1>1, PickIsFree
  <2> QED
    BY <2>1 DEF FreeServantsFor, UnsafeGetFreeServants, UnsafeGetServantsHasEnv
<1>3. /\ DOMAIN servants' = DOMAIN servants
      /\ \A t \in DOMAIN servants : servants'[t].info = servants[t].info
  <2>1. \A t \in DOMAIN servants : servants[t] \in Servant
    BY DEF IInv, TypeOK
  <2> QED
    BY <1>1, <2>1 DEF Servant
<1>4. n \in Nat /\ DOMAIN tasks \subseteq 0 .. n - 1 /\ DOMAIN grants \subseteq 0 .. n - 1
  BY <1>0 DEF IInv, TypeOK
<1>5. n \notin DOMAIN tasks /\ n \notin DOMAIN grants
  BY <1>4
<1>6. /\ DOMAIN tasks' = DOMAIN tasks \cup {n}
      /\ tasks'[n].servant = s
      /\ \A id \in DOMAIN tasks : tasks'[id] = tasks[id]
  BY <1>1, <1>5 DEF Put
<1>7. /\ LocOf(n)' = servants[s].info.loc
      /\ \A id \in DOMAIN tasks : LocOf(id)' = LocOf(id)
  BY <1>2, <1>3, <1>6 DEF LocOf, IInv, TasksOfLiveServants
<1>8. UNCHANGED <<beat, grants>>
  BY DEF StartNewTask
<1>9. RequestsPlaced'
  <2>1. PICK a : a = [id |-> n, loc |-> servants[s].info.loc]
    OBVIOUS
  <2>2. /\ q \in RequestState /\ (q.imm > 0 \/ q.pre > 0)
        /\ request \in [Callers -> RequestState]
    BY DEF StartNewTask, Holding, IInv, TypeOK, CallsHaveWork, HasWork
  <2>3. a \in Allocation
    <3>1. servants[s] \in Servant
      BY <1>2 DEF IInv, TypeOK
    <3> QED
      BY <1>4, <2>1, <3>1 DEF Servant, ServantInfo, Allocation
  <2>4. Granted(q, a).grants = q.grants \cup {a}
    BY <2>2, <2>3, OutcomeTypes
  <2>5. request' = [request EXCEPT ![r] = Granted(q, a)]
    BY <1>1, <2>1
  <2>6. ASSUME NEW c \in Callers, NEW g \in request'[c].grants, g.id \in DOMAIN tasks'
        PROVE  g.loc = LocOf(g.id)'
    <3>1. CASE g \in request[c].grants
      <4>1. g.id # n
        <5>1. g.id < n
          BY <1>0, <3>1 DEF IInv, KnownIds
        <5> QED
          BY <1>4, <5>1
      <4>2. g.id \in DOMAIN tasks
        BY <1>6, <2>6, <4>1
      <4> QED
        BY <1>7, <3>1, <4>2 DEF KillInv, RequestsPlaced
    <3>2. CASE g = a
      BY <1>7, <2>1, <3>2
    <3> QED
      BY <2>2, <2>4, <2>5, <2>6, <3>1, <3>2
  <2> QED
    BY <2>6 DEF RequestsPlaced
<1>10. GrantsPlaced'
  BY <1>5, <1>6, <1>7, <1>8 DEF KillInv, GrantsPlaced
<1>11. \A h \in Handlers : beat[h].pc # "idle" =>
          n \notin beat[h].running /\ n \notin beat[h].expired
  <2>1. n \notin 0 .. n - 1
    BY <1>4
  <2> QED
    BY <1>0, <2>1 DEF IInv, KnownIds
<1>12. BeatsPlaced'
  BY <1>6, <1>7, <1>8, <1>11 DEF KillInv, BeatsPlaced
<1>13. ReachableServants'
  BY <1>2, <1>3, <1>6, <1>7 DEF KillInv, ReachableServants
<1>14. KillsOnlyDeadGrants => KillsOnlyDeadGrants'
  BY <1>6, <1>8, <1>11 DEF KillsOnlyDeadGrants, Live
<1> QED
  BY <1>9, <1>10, <1>12, <1>13, <1>14 DEF KillInv

\* A reply hands the stack's copies to the owner.
LEMMA ReplyGrantsPlaced ==
    ASSUME IInv, KillInv, TasksStay, NEW r \in Callers, NEW delivered \in BOOLEAN,
           Reply(r, delivered)
    PROVE  GrantsPlaced'
<1> DEFINE got == IF delivered THEN request[r].grants ELSE {}
           ids == {a.id : a \in got}
<1>1. grants' = [id \in DOMAIN grants \cup ids |->
                   IF id \in ids
                   THEN [loc |-> (CHOOSE a \in got : a.id = id).loc,
                         stage |-> "held", kept |-> TRUE]
                   ELSE grants[id]]
  BY DEF Reply
<1>2. \A a \in got : a.id \in DOMAIN tasks => a.loc = LocOf(a.id)
  BY DEF KillInv, RequestsPlaced
<1>3. ASSUME NEW id \in ids, id \in DOMAIN tasks
      PROVE  (CHOOSE a \in got : a.id = id).loc = LocOf(id)
  <2>1. \E a \in got : a.id = id
    OBVIOUS
  <2>2. PICK b : b = (CHOOSE a \in got : a.id = id)
    OBVIOUS
  <2> HIDE DEF got
  <2>3. b \in got /\ b.id = id
    BY <2>1, <2>2
  <2> QED
    BY <1>2, <1>3, <2>2, <2>3
<1> HIDE DEF got, ids
<1>4. ASSUME NEW id \in DOMAIN grants', id \in DOMAIN tasks'
      PROVE  grants'[id].loc = LocOf(id)'
  <2>1. id \in DOMAIN tasks /\ LocOf(id)' = LocOf(id)
    BY <1>4 DEF TasksStay
  <2> QED
    BY <1>1, <1>3, <1>4, <2>1 DEF KillInv, GrantsPlaced
<1> QED
  BY <1>4 DEF GrantsPlaced

\* A heartbeat carries the grants of the address its daemon is seen at.
LEMMA SendHeartBeatBeatsPlaced ==
    ASSUME IInv, KillInv, TasksStay, NEW h \in Handlers, NEW d \in Daemons,
           NEW b \in Beats[d], SendHeartBeat(h, d, b)
    PROVE  BeatsPlaced'
<1>1. beat' = [beat EXCEPT ![h] = [pc |-> "sent", daemon |-> d, info |-> b,
                                   running |-> RunningOn(d), expired |-> {}]]
  BY DEF SendHeartBeat
<1>2. \A id \in RunningOn(d) : id \in DOMAIN tasks => LocOf(id) = Observed[d]
  BY DEF RunningOn, KillInv, GrantsPlaced
<1>3. \A id \in DOMAIN tasks' : id \in DOMAIN tasks /\ LocOf(id)' = LocOf(id)
  BY DEF TasksStay
<1>4. beat \in [Handlers -> BeatState]
  BY DEF IInv, TypeOK
<1> QED
  BY <1>1, <1>2, <1>3, <1>4 DEF KillInv, BeatsPlaced

\* The servant found at the reported address is the one of every live task the
\* heartbeat carries, so its answer names none of them.
LEMMA NotifyKillsDead ==
    ASSUME IInv, LocInv, BeatsAreSent, KillInv, TasksStay, NatsApart,
           NEW h \in Handlers, NotifyServantRunningTasks(h)
    PROVE  KillsOnlyDeadGrants'
<1> DEFINE d == beat[h].daemon
           loc == Reported[d]
           running == beat[h].running
<1>1. beat[h].pc = "alive" /\ d \in Daemons /\ beat[h] \in BeatCall
  <2>1. beat[h].pc = "alive"
    BY DEF NotifyServantRunningTasks
  <2> QED
    BY <2>1, BeatTypes DEF BeatsAreSent, IInv
<1>2. ASSUME NEW id \in running, id \in DOMAIN tasks
      PROVE  tasks[id].servant \in AtLocation(loc)
  <2>1. LocOf(id) = Observed[d]
    BY <1>1, <1>2 DEF KillInv, BeatsPlaced
  <2>2. Reachable(LocOf(id))
    BY <1>2 DEF KillInv, ReachableServants
  <2>3. Observed[d] = Reported[d]
    BY <1>1, <2>1, <2>2 DEF Reachable, NatsApart
  <2> QED
    BY <1>2, <2>1, <2>3 DEF LocOf, AtLocation, IInv, TasksOfLiveServants
<1>3. \A id : Live(id)' => Live(id)
  BY DEF Live, TasksStay
<1>4. ASSUME NEW e, beat' = [beat EXCEPT ![h].pc = "reply", ![h].expired = e],
             \A id \in e : ~Live(id)
      PROVE  KillsOnlyDeadGrants'
  <2>1. beat \in [Handlers -> BeatState]
    BY DEF IInv, TypeOK
  <2>2. \A k \in Handlers : beat'[k].pc = "reply" =>
           IF k = h THEN beat'[k].expired = e ELSE beat'[k] = beat[k]
    BY <1>1, <1>4, <2>1 DEF BeatCall
  <2> QED
    BY <1>3, <1>4, <2>2 DEF KillInv, KillsOnlyDeadGrants
<1>5. CASE /\ AtLocation(loc) = {}
           /\ beat' = [beat EXCEPT ![h].pc = "reply", ![h].expired = running]
  <2>1. \A id \in running : ~Live(id)
    BY <1>2, <1>5 DEF Live
  <2> QED
    BY <1>4, <1>5, <2>1
<1>6. ASSUME NEW s \in First(AtLocation(loc)),
             beat' = [beat EXCEPT ![h].pc = "reply",
                                  ![h].expired = running \ Permitted(s)]
      PROVE  KillsOnlyDeadGrants'
  <2>1. s \in AtLocation(loc)
    BY <1>6 DEF First
  <2>2. \A t \in AtLocation(loc) : t = s
    BY <2>1 DEF AtLocation, LocInv, OneServantPerLocation
  <2>3. \A id \in running \ Permitted(s) : ~Live(id)
    BY <1>2, <2>2 DEF Live, Permitted, OnServant
  <2> QED
    BY <1>4, <1>6, <2>3
<1> QED
  BY <1>5, <1>6 DEF NotifyServantRunningTasks

\* Every step keeps KillInv.
LEMMA NextKillInv ==
    IInv /\ LocInv /\ BeatsAreSent /\ KillInv /\ [Next]_vars => KillInv'
<1> SUFFICES ASSUME IInv, LocInv, BeatsAreSent, KillInv, [Next]_vars
             PROVE  KillInv'
  OBVIOUS
<1>1. CASE \E r \in Callers : StartNewTask(r)
  BY <1>1, StartNewTaskKillInv
<1>2. CASE ~ \E r \in Callers : StartNewTask(r)
  <2>1. TasksStay /\ ReachableServants'
    BY <1>2, StepTasksStay DEF KillInv
  <2>2. RequestsPlaced'
    BY <1>2, <2>1, StepRequestsStay, CopiesStay
  <2>3. GrantsPlaced'
    BY <2>1, StepGrantsStay, CopiesStay, ReplyGrantsPlaced
  <2>4. BeatsPlaced'
    BY <2>1, StepBeatsStay, CopiesStay, SendHeartBeatBeatsPlaced
  <2>5. NatsApart => KillsOnlyDeadGrants'
    BY <2>1, StepBeatsStay, CopiesStay, NotifyKillsDead
  <2>6. NatsApart' = NatsApart
    BY DEF NatsApart
  <2> QED
    BY <2>1, <2>2, <2>3, <2>4, <2>5, <2>6 DEF KillInv
<1> QED
  BY <1>1, <1>2

\* A heartbeat's answer in flight kills only tasks whose grant is dead, however
\* the handler's two sections, other heartbeats, the timer and new grants were
\* interleaved, provided daemons seen at one address agree on being behind a NAT:
\* the handler looks the servant up by the address the daemon reports.
THEOREM OnlyDeadGrantsAreKilled == Spec => [](NatsApart => KillsOnlyDeadGrants)
<1>1. Init => KillInv
  BY DEF Init, KillInv, RequestsPlaced, GrantsPlaced, BeatsPlaced,
         ReachableServants, KillsOnlyDeadGrants, Idle, NoBeat
<1>2. KillInv => (NatsApart => KillsOnlyDeadGrants)
  BY DEF KillInv
<1> HIDE DEF NatsApart
<1> QED
  BY <1>1, <1>2, NextKillInv, IInvHolds, LocInvHolds, BeatsAreSentHolds, PTL
     DEF Spec

=============================================================================
