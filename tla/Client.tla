------------------------------- MODULE Client -------------------------------
(***************************************************************************)
(* The compiler wrapper on a developer's machine and the part of the local *)
(* daemon that serves it: Compile with its quotas, its rewriting of the    *)
(* source, its submission to the cloud and its falling back to a native    *)
(* compilation; TaskMonitor, which hands out the quotas; FileCache, which  *)
(* knows the digests of the compilers; and the HTTP handlers in between.   *)
(*                                                                         *)
(* Each client process has at most one HTTP call it waits for.  A call the *)
(* client has given up stays in the daemon and is served later, or never;  *)
(* it carries the number of the timeout that cut it off (0 for a call      *)
(* somebody waits for, MaxTimeouts + 1 for one whose client has died).     *)
(*                                                                         *)
(* The compiler is one file.  Its size and modification time are abstracted*)
(* to the version installed when they were read, its digest to the version *)
(* installed when it was computed.  TaskDispatcher (module                 *)
(* LocalDispatcher) is used by what it promises: a task ends with a result *)
(* unless its thread hangs.                                                *)
(***************************************************************************)
EXTENDS Integers, Sequences, FiniteSets

CONSTANTS
    Clients,      \* client processes, by their pid
    Mortal,       \* the clients that may be killed
    Again,        \* the clients whose compilation is started again and again
    Jobs,         \* client -> its command line: see Job
    MaxHeavy,     \* max_heavy_tasks_
    Threads,      \* threads of the daemon's HTTP server
    MaxRetries,   \* Compile's retries
    MaxVersion,   \* bound: versions of the compiler that get installed
    MaxTimeouts   \* bound: HTTP calls that time out in a behaviour

VARIABLES
    client,       \* client -> the state of its Compile
    permissions,  \* permissions_granted_
    calls,        \* HTTP calls in the daemon
    task,         \* client -> its last task in the dispatcher
    cache,        \* caches_[compiler] of FileCache
    installed,    \* environment: the version of the compiler on disk
    timeouts,     \* HTTP calls that have timed out
    daemon        \* "up", or "dead" after an abort

vars == <<client, permissions, calls, task, cache, installed, timeouts, daemon>>

daemonVars == <<permissions, task, cache, daemon>>

(***************************************************************************)
(* A command line as CompilerArgs has parsed it: the options that matter   *)
(* here and the kinds of the files; and whether CACHE_CONTROL lets the     *)
(* source be hashed.                                                       *)
(***************************************************************************)
Options == {"-c", "-", "-x", "-E", "-dumpversion", "-dumpmachine"}

Job == [options : SUBSET Options, files : Seq({"c", "c++", "assembler", "unknown"}),
        hashed : BOOLEAN]

ASSUME ClientAssumption ==
    /\ Mortal \subseteq Clients /\ Again \subseteq Clients
    /\ DOMAIN Jobs = Clients /\ \A c \in Clients : Jobs[c] \in Job
    /\ {MaxHeavy, Threads, MaxVersion} \subseteq Nat \ {0}
    /\ {MaxRetries, MaxTimeouts} \subseteq Nat

IsDistributable(c) ==
    /\ "-c" \in Jobs[c].options
    /\ "-" \notin Jobs[c].options
    /\ Len(Jobs[c].files) = 1
    /\ Jobs[c].files[1] # "assembler"

IsLightweight(c) == Jobs[c].options \cap {"-dumpversion", "-dumpmachine", "-E"} # {}

\* DetermineLanguage, for a single file.
LanguageIsKnown(c) == "-x" \in Jobs[c].options \/ Jobs[c].files[1] \in {"c", "c++"}

MaxLight == (MaxHeavy * 3) \div 2

Versions == 1 .. MaxVersion

\* A client that has no compilation in progress: it has yet to start, or has
\* ended.
At(pc) == [pc |-> pc, use |-> "none", light |-> FALSE, then |-> "exit",
           retries |-> MaxRetries, stat |-> 0, cut |-> FALSE]

-----------------------------------------------------------------------------
(***************************************************************************)
(* HTTP.  A call waits in the server's queue for a thread; "waiting" is a  *)
(* handler blocked in the task monitor or the dispatcher, "writing" one in *)
(* the middle of FileCache::Set, "answered" a call whose answer is on its  *)
(* way.                                                                    *)
(***************************************************************************)

Apis == {"acquire", "release", "submit", "set_digest", "wait"}

Answers == {"none", "ok", "bad_request", "unavailable", "not_found", "error",
            "compiled", "failed", "rejected"}

\* The call client c makes, with the two versions its body may mention.
NewCall(c, api, light, stat, digest) ==
    [client |-> c, n |-> 0, api |-> api, light |-> light, stat |-> stat,
     digest |-> digest, stage |-> "queued", answer |-> "none"]

Busy == {k \in calls : k.stage \in {"waiting", "writing"}}

\* A thread of the server takes call k from the queue.
Served(k, api) ==
    /\ daemon = "up"
    /\ k.api = api
    /\ k.stage = "queued"
    /\ Cardinality(Busy) < Threads

Answer(k, a) ==
    calls' = (calls \ {k}) \cup
             (IF k.n = 0 THEN {[k EXCEPT !.stage = "answered", !.answer = a]}
                         ELSE {})

\* The call client c waits for.
Current(c) == {k \in calls : k.client = c /\ k.n = 0}

\* The calls in the daemon when c stops waiting for its own.
GivenUp(c, n) ==
    (calls \ Current(c)) \cup
    {[k EXCEPT !.n = n] :
        k \in {j \in Current(c) : j.stage # "answered" /\ daemon = "up"}}

Move(k, stage) == calls' = (calls \ {k}) \cup {[k EXCEPT !.stage = stage]}

-----------------------------------------------------------------------------
(***************************************************************************)
(* TaskMonitor.  The wait for a permit is over after ms_to_wait and looks  *)
(* at the table whenever it is woken, for whatever reason; a notification  *)
(* only lets it look earlier.                                              *)
(***************************************************************************)

\* Variant: one permit too many.
RoomForOneMore(light) ==
    Cardinality(permissions) <= MaxHeavy + (IF light THEN MaxLight ELSE 0)

Room(light) ==
    Cardinality(permissions) < MaxHeavy + (IF light THEN MaxLight ELSE 0)

\* WaitForNewTask with room: a pid that is in the table already is let in
\* without a second entry.
AcquireQuota(k) ==
    /\ \/ Served(k, "acquire")
       \/ daemon = "up" /\ k.api = "acquire" /\ k.stage = "waiting"
    /\ Room(k.light)
    /\ permissions' = permissions \cup {k.client}
    /\ Answer(k, "ok")
    /\ UNCHANGED <<client, task, cache, installed, timeouts, daemon>>

AcquireWaits(k) ==
    /\ Served(k, "acquire")
    /\ ~Room(k.light)
    /\ Move(k, "waiting")
    /\ UNCHANGED <<client, daemonVars, installed, timeouts>>

AcquireTimesOut(k) ==
    /\ daemon = "up"
    /\ k.api = "acquire"
    /\ k.stage = "waiting"
    /\ ~Room(k.light)
    /\ Answer(k, "unavailable")
    /\ UNCHANGED <<client, daemonVars, installed, timeouts>>

\* DropTask: an unknown pid is not an error for the client either.
ReleaseQuota(k) ==
    /\ Served(k, "release")
    /\ permissions' = permissions \ {k.client}
    /\ Answer(k, "ok")
    /\ UNCHANGED <<client, task, cache, installed, timeouts, daemon>>

IsAliveProc(c) == client[c].pc # "exited"

\* Variant: a permit stays until it is given back.
ReapNobody == permissions

Reaped == permissions \cap {c \in Clients : IsAliveProc(c)}

\* The timer drops the permits of processes that are gone or zombies.
OnTimerCheckAliveProc ==
    /\ daemon = "up"
    /\ permissions' = Reaped
    /\ UNCHANGED <<client, calls, task, cache, installed, timeouts, daemon>>

\* A process vanishes after the timer has opened its status file and before
\* it has read it: no "State:" line is found and the daemon aborts.
IsAliveProcAborts(c) ==
    /\ daemon = "up"
    /\ c \in permissions
    /\ IsAliveProc(c)
    /\ client' = [client EXCEPT ![c] = At("exited")]
    /\ calls' = GivenUp(c, MaxTimeouts + 1)
    /\ daemon' = "dead"
    /\ UNCHANGED <<permissions, task, cache, installed, timeouts>>

-----------------------------------------------------------------------------
(***************************************************************************)
(* FileCache.  Set holds the shared side of the lock, so an access that    *)
(* meets a Set in progress is a data race.  What the build makes of it: a  *)
(* crash, or an entry mixed from the two; from then on the entry may be    *)
(* anything (raced).                                                       *)
(***************************************************************************)

NoEntry == [stat |-> 0, digest |-> 0, raced |-> FALSE]

Writing == {k \in calls : k.stage = "writing"}

Crash ==
    /\ daemon' = "dead"
    /\ UNCHANGED <<client, permissions, calls, task, cache, installed, timeouts>>

\* Variant: the digest of whatever was registered last.
TryGetByPath(stat) == cache.stat # 0

\* FileCache::TryGet finds the digest of the compiler of that size and time.
TryGet(stat) == cache.stat = stat

SetBegins(k) ==
    /\ Served(k, "set_digest")
    /\ Move(k, "writing")
    /\ UNCHANGED <<client, daemonVars, installed, timeouts>>

SetFileDigest(k) ==
    /\ daemon = "up"
    /\ k.stage = "writing"
    /\ IF Writing = {k}
       THEN cache' = [cache EXCEPT !.stat = k.stat, !.digest = k.digest]
       ELSE \E w, v \in Writing :
               cache' = [stat |-> w.stat, digest |-> v.digest, raced |-> TRUE]
    /\ Answer(k, "ok")
    /\ UNCHANGED <<client, permissions, task, installed, timeouts, daemon>>

RaceCrashes(k) ==
    /\ daemon = "up"
    /\ \/ k.stage = "writing" /\ Writing # {k}
       \/ Served(k, "submit") /\ Writing # {}
    /\ Crash

-----------------------------------------------------------------------------
(***************************************************************************)
(* Submitting and waiting.                                                 *)
(***************************************************************************)

\* CxxDistTask::Prepare refuses a request without a source digest and one
\* whose compiler is not in the FileCache; while a Set is in progress the
\* lookup may miss.
Prepared(k) == Jobs[k.client].hashed /\ TryGet(k.stat)

SubmitCxxTask(k) ==
    /\ Served(k, "submit")
    /\ \/ /\ Prepared(k)
          /\ task' = IF k.n = 0 THEN [task EXCEPT ![k.client] = "running"] ELSE task
          /\ Answer(k, "ok")
       \/ /\ ~Prepared(k) \/ Writing # {}
          /\ Answer(k, "bad_request")
          /\ UNCHANGED task
       \* QueueTask throws: no thread is left for the task.
       \/ /\ Prepared(k)
          /\ Answer(k, "error")
          /\ UNCHANGED task
    /\ UNCHANGED <<client, permissions, cache, installed, timeouts, daemon>>

WaitForTask(k) ==
    /\ Served(k, "wait")
    /\ \/ /\ k.n > 0
          /\ Answer(k, "none")
          /\ UNCHANGED task
       \/ /\ k.n = 0 /\ task[k.client] = "running"
          /\ Move(k, "waiting")
          /\ UNCHANGED task
       \/ /\ k.n = 0 /\ task[k.client] = "none"
          /\ Answer(k, "not_found")
          /\ UNCHANGED task
       \/ /\ k.n = 0 /\ task[k.client] \notin {"running", "none"}
          /\ Answer(k, task[k.client])
          /\ task' = [task EXCEPT ![k.client] = "none"]
    /\ UNCHANGED <<client, permissions, cache, installed, timeouts, daemon>>

WaitEnds(k) ==
    /\ daemon = "up"
    /\ k.api = "wait"
    /\ k.stage = "waiting"
    /\ \/ /\ k.n > 0 \/ task[k.client] = "running"
          /\ Answer(k, "unavailable")
          /\ UNCHANGED task
       \/ /\ k.n = 0 /\ task[k.client] # "running"
          /\ Answer(k, task[k.client])
          /\ task' = [task EXCEPT ![k.client] = "none"]
    /\ UNCHANGED <<client, permissions, cache, installed, timeouts, daemon>>

\* The dispatcher ends a task: the compiler's exit code is 0 (compiled), a
\* negative number or 127 (failed), or another (rejected).
TaskEnds(c) ==
    /\ task[c] = "running"
    /\ \E r \in {"compiled", "failed", "rejected"} : task' = [task EXCEPT ![c] = r]
    /\ UNCHANGED <<client, permissions, calls, cache, installed, timeouts, daemon>>

\* OnTimerClear forgets a result nobody asked for in time.
TaskCleared(c) ==
    /\ task[c] \notin {"none", "running"}
    /\ \A k \in calls : ~(k.client = c /\ k.n = 0 /\ k.stage = "waiting")
    /\ task' = [task EXCEPT ![c] = "none"]
    /\ UNCHANGED <<client, permissions, calls, cache, installed, timeouts, daemon>>

-----------------------------------------------------------------------------
(***************************************************************************)
(* Compile.  use says what the quota asked for or held is for: "rewrite"   *)
(* (RewriteFile's preprocessor), "fallback" (the one attempt after a       *)
(* failure of the cloud) or "native".  then is where Compile goes when the *)
(* quota has been given back.  cut: some call of this client got no answer.*)
(***************************************************************************)

Calling == {"acquiring", "releasing", "submitting", "registering",
            "resubmitting", "waiting"}

\* AcquireTaskQuota or TryAcquireTaskQuota is entered.
Acquire(s, use, light) ==
    [s EXCEPT !.pc = "acquire", !.use = use, !.light = light]

Native(c) == Acquire(client[c], "native", IsLightweight(c))

Rewrite(c) == Acquire(client[c], "rewrite", TRUE)

\* The cloud gave no result, a negative exit code or 127.
CloudFailed(c) == Acquire([client[c] EXCEPT !.stat = 0], "fallback", FALSE)

\* No quota for the fallback: the cloud is tried again, on a source that is
\* rewritten again, or the retries are used up.
Retry(c) ==
    IF client[c].retries > 0
    THEN [Rewrite(c) EXCEPT !.retries = @ - 1]
    ELSE Native(c)

\* A quota was refused: AcquireTaskQuota asks again, for ever.
NoQuota(c) == IF client[c].use = "fallback" THEN Retry(c)
              ELSE [client[c] EXCEPT !.pc = "acquire"]

Start(c) ==
    /\ client[c].pc = "start"
    /\ client' = [client EXCEPT ![c] =
                    IF IsDistributable(c) /\ LanguageIsKnown(c)
                    THEN Rewrite(c) ELSE Native(c)]
    /\ UNCHANGED <<daemonVars, calls, installed, timeouts>>

\* The client sends a call and waits for its answer in state pc.
Send(c, s, pc, k) ==
    /\ client' = [client EXCEPT ![c] = [s EXCEPT !.pc = pc]]
    /\ calls' = calls \cup {k}

TryAcquireTaskQuota(c) ==
    /\ client[c].pc = "acquire"
    /\ Send(c, client[c], "acquiring",
            NewCall(c, "acquire", client[c].light, 0, 0))
    /\ UNCHANGED <<daemonVars, installed, timeouts>>

\* The preprocessor or the compiler ends, and the quota's deleter runs.  A
\* file that cannot be rewritten, or is small, is compiled here.
ProgramEnds(c) ==
    /\ client[c].pc = "running"
    /\ \E then \in IF client[c].use = "rewrite" THEN {"submit", "native"}
                                               ELSE {"exit"} :
          Send(c, [client[c] EXCEPT !.then = then], "releasing",
               NewCall(c, "release", FALSE, 0, 0))
    /\ UNCHANGED <<daemonVars, installed, timeouts>>

\* ReleaseTaskQuota has returned, whatever the answer was.
QuotaGone(c) ==
    CASE client[c].then = "exit"   -> At("exited")
      [] client[c].then = "native" -> [Native(c) EXCEPT !.then = "exit"]
      [] client[c].then = "submit" ->
            [client[c] EXCEPT !.pc = "submit", !.then = "exit"]

SubmitCompileTask(c) ==
    /\ client[c].pc = "submit"
    /\ Send(c, [client[c] EXCEPT !.stat = installed], "submitting",
            NewCall(c, "submit", FALSE, installed, 0))
    /\ UNCHANGED <<daemonVars, installed, timeouts>>

\* What a call without an answer means to the client.
NoAnswer(c) ==
    CASE client[c].pc = "acquiring" -> NoQuota(c)
      [] client[c].pc = "releasing" -> QuotaGone(c)
      [] OTHER                      -> CloudFailed(c)

\* The answers after which the client makes no further call at once.
Answered(c, a) ==
    CASE client[c].pc = "acquiring" ->
            IF a = "ok" THEN [client[c] EXCEPT !.pc = "running"] ELSE NoQuota(c)
      [] client[c].pc = "releasing" -> QuotaGone(c)
      [] client[c].pc = "waiting" /\ a = "compiled" ->
            At("exited")
      [] client[c].pc = "waiting" /\ a = "rejected" -> Native(c)
      [] OTHER -> CloudFailed(c)

\* Variant: a task the daemon has forgotten is waited for again.
WaitAgainForgotten(a) == a \in {"unavailable", "not_found"}

WaitAgain(a) == a = "unavailable"

\* The next call the answer leads to: the digest of a compiler the daemon
\* does not know is computed and registered, the task submitted again, and
\* its result waited for.
FollowUp(c, a) ==
    LET s == client[c]
    IN  CASE s.pc = "submitting" /\ a = "bad_request" ->
                {<<"registering", NewCall(c, "set_digest", FALSE, s.stat, installed)>>}
          [] s.pc = "registering" /\ a = "ok" ->
                {<<"resubmitting", NewCall(c, "submit", FALSE, s.stat, 0)>>}
          [] \/ s.pc \in {"submitting", "resubmitting"} /\ a = "ok"
             \/ s.pc = "waiting" /\ WaitAgain(a) ->
                {<<"waiting", NewCall(c, "wait", FALSE, 0, 0)>>}
          [] OTHER -> {}

Receive(c) ==
    /\ \E k \in Current(c) :
          /\ k.stage = "answered"
          /\ LET next == FollowUp(c, k.answer)
             IN  \/ /\ next = {}
                    /\ client' = [client EXCEPT ![c] = Answered(c, k.answer)]
                    /\ calls' = calls \ {k}
                 \/ \E f \in next :
                       /\ client' = [client EXCEPT ![c].pc = f[1]]
                       /\ calls' = (calls \ {k}) \cup {f[2]}
    /\ UNCHANGED <<daemonVars, installed, timeouts>>

\* The session times out, or the daemon is not there.  A call that was given
\* up is still served.
CallFails(c) ==
    /\ client[c].pc \in Calling
    /\ \/ timeouts < MaxTimeouts /\ timeouts' = timeouts + 1
       \/ daemon = "dead" /\ UNCHANGED timeouts
    /\ client' = [client EXCEPT ![c] = [NoAnswer(c) EXCEPT !.cut = TRUE]]
    /\ calls' = GivenUp(c, timeouts')
    /\ task' = IF client[c].pc = "waiting" THEN [task EXCEPT ![c] = "none"] ELSE task
    /\ UNCHANGED <<permissions, cache, installed, daemon>>

-----------------------------------------------------------------------------
(***************************************************************************)
(* The environment.                                                        *)
(***************************************************************************)

\* A client is killed.
Die(c) ==
    /\ c \in Mortal
    /\ client[c].pc # "exited"
    /\ client' = [client EXCEPT ![c] = At("exited")]
    /\ calls' = GivenUp(c, MaxTimeouts + 1)
    /\ UNCHANGED <<daemonVars, installed, timeouts>>

\* The build starts one more compilation.  Its process has a pid of its own:
\* the name c is used again once the daemon has nothing left of the old one.
StartAgain(c) ==
    /\ c \in Again
    /\ client[c].pc = "exited"
    /\ c \notin permissions /\ task[c] = "none" /\ \A k \in calls : k.client # c
    /\ client' = [client EXCEPT ![c] = At("start")]
    /\ UNCHANGED <<daemonVars, calls, installed, timeouts>>

Upgrade ==
    /\ installed < MaxVersion
    /\ installed' = installed + 1
    /\ UNCHANGED <<client, daemonVars, calls, timeouts>>

\* Every client has ended and nothing is left to be served.
Finished ==
    /\ \A c \in Clients : client[c].pc = "exited"
    /\ UNCHANGED vars

Init ==
    /\ client = [c \in Clients |-> At("start")]
    /\ permissions = {}
    /\ calls = {}
    /\ task = [c \in Clients |-> "none"]
    /\ cache = NoEntry
    /\ installed = 1
    /\ timeouts = 0
    /\ daemon = "up"

ClientStep(c) == \/ Start(c)
                 \/ TryAcquireTaskQuota(c)
                 \/ ProgramEnds(c)
                 \/ SubmitCompileTask(c)
                 \/ Receive(c)

Serve(k) == \/ AcquireQuota(k)
            \/ AcquireWaits(k)
            \/ ReleaseQuota(k)
            \/ SetBegins(k)
            \/ SetFileDigest(k)
            \/ SubmitCxxTask(k)
            \/ WaitForTask(k)

Expire(k) == AcquireTimesOut(k) \/ WaitEnds(k)

Next == \/ \E c \in Clients : ClientStep(c) \/ CallFails(c) \/ Die(c) \/ StartAgain(c)
        \/ \E k \in calls : Serve(k) \/ Expire(k) \/ RaceCrashes(k)
        \/ OnTimerCheckAliveProc
        \/ \E c \in Clients : IsAliveProcAborts(c) \/ TaskEnds(c) \/ TaskCleared(c)
        \/ Upgrade
        \/ Finished

Spec == Init /\ [][Next]_vars

(***************************************************************************)
(* Clients run; a call in the server's queue gets a thread in its turn; a  *)
(* handler goes on, and its wait ends, but one that waits for a permit has *)
(* no turn: it gets one for certain only when there is room for good.  The *)
(* timer ticks every second.  The dispatcher need not end a task, as its   *)
(* thread may hang.                                                        *)
(***************************************************************************)
Fairness ==
    /\ \A c \in Clients :
          /\ WF_vars(ClientStep(c))
          /\ WF_vars(CallFails(c) /\ daemon = "dead")
          /\ SF_vars(\E k \in Current(c) : k.stage = "queued" /\ Serve(k))
          /\ WF_vars(\E k \in Current(c) : Serve(k))
          /\ WF_vars(\E k \in Current(c) : Expire(k))
    /\ \A n \in 1 .. MaxTimeouts + 1 :
          /\ SF_vars(\E k \in calls : k.n = n /\ k.stage = "queued" /\ Serve(k))
          /\ WF_vars(\E k \in calls : k.n = n /\ Serve(k))
          /\ WF_vars(\E k \in calls : k.n = n /\ Expire(k))
    /\ WF_vars(OnTimerCheckAliveProc)

FairSpec == Spec /\ Fairness

-----------------------------------------------------------------------------
(***************************************************************************)
(* Properties.                                                             *)
(***************************************************************************)

ClientState ==
    [pc : Calling \cup {"start", "acquire", "running", "submit", "exited"},
     use : {"none", "rewrite", "fallback", "native"}, light : BOOLEAN,
     then : {"submit", "native", "exit"}, retries : 0 .. MaxRetries,
     stat : 0 .. MaxVersion, cut : BOOLEAN]

Call ==
    [client : Clients, n : 0 .. MaxTimeouts + 1, api : Apis, light : BOOLEAN,
     stat : 0 .. MaxVersion, digest : 0 .. MaxVersion,
     stage : {"queued", "waiting", "writing", "answered"}, answer : Answers]

\* Types of the client's, the monitor's and the server's state; no client
\* retries more often than Compile lets it.
TypeOK ==
    /\ client \in [Clients -> ClientState]
    /\ permissions \subseteq Clients
    /\ calls \subseteq Call
    /\ task \in [Clients -> {"none", "running", "compiled", "failed", "rejected"}]
    /\ cache \in [stat : 0 .. MaxVersion, digest : 0 .. MaxVersion, raced : BOOLEAN]
    /\ installed \in Versions
    /\ timeouts \in 0 .. MaxTimeouts
    /\ daemon \in {"up", "dead"}

Running(c) == client[c].pc = "running"

\* Quotas prevent overload: a client that runs a compiler or a preprocessor,
\* and has had an answer to each of its calls, is in the monitor's table; at
\* most max_heavy_tasks_ of these run something heavy and at most
\* max_heavy_tasks_ + max_light_tasks_ run at all.  One unanswered call ends
\* it: a late release takes away the permit of the client's next program.
QuotaPreventsOverload ==
    LET R == {c \in Clients : Running(c) /\ ~client[c].cut}
    IN  /\ R \subseteq permissions
        /\ Cardinality({c \in R : ~client[c].light}) <= MaxHeavy
        /\ Cardinality(R) <= MaxHeavy + MaxLight

\* A step that submits tasks does so under the digest of a compiler that was
\* installed when its client looked at the file, or later.
UnderInstalledCompiler ==
    \A c \in Clients :
        (task[c] # "running" /\ task'[c] = "running" /\ ~cache.raced)
            => cache.digest \in client[c].stat .. installed

\* A task goes to the cloud under the digest of a compiler that was installed
\* here between the moment the client looked at the file and the submission,
\* though the digest is computed and registered in calls of their own, by any
\* client, while the compiler is being upgraded.
SubmittedCompilerWasInstalled == [][UnderInstalledCompiler]_vars

\* The permit of a process that is gone comes back, also when its release was
\* never sent or a late acquire put it into the table after its death.
PermitsComeBack ==
    \A c \in Clients :
        (c \in permissions /\ client[c].pc = "exited")
            ~> (c \notin permissions \/ daemon = "dead")

\* A client that asks for a permit it already has: the answer to the acquire
\* that inserted it was lost, and its own entry may be the one that is too many.
WaitsForItself(c) ==
    /\ c \in permissions /\ client[c].pc \in {"acquire", "acquiring"}
    /\ \A k \in Current(c) : k.answer # "ok"

\* Client d waits for a task of the dispatcher that has not ended.
WaitsForTask(d) == client[d].pc = "waiting" /\ task[d] = "running"

\* A task hangs, and c waits for it, or for the permit that a late acquire has
\* given to the client that does.
StuckBehindTask(c) ==
    \E d \in Clients : <>[](WaitsForTask(d) /\ (d = c \/ d \in permissions))

\* Every compilation ends, in the cloud or here, as long as the daemon runs, no
\* client waits for ever for a permit it has itself, no task hangs, and the build
\* does not start new ones for ever: then a heavy one may never find room (as
\* the comment in TaskMonitor::WaitForNewTask says).
CompilationsEnd ==
    \/ <>(daemon = "dead")
    \/ \E c \in Clients : <>[]WaitsForItself(c)
    \/ []<>(\E c \in Again : client[c].pc = "start")
    \/ \A c \in Clients : []<>(client[c].pc = "exited") \/ StuckBehindTask(c)
=============================================================================
