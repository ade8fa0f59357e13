---------------------------- MODULE CompileTask ----------------------------
(***************************************************************************)
(* One servant's C++ compile tasks: from the stream of QueueCxxTask over   *)
(* the compiler registry, the task's temporary directory, the thread that  *)
(* looks for __TIME__ and its like, the compiler process and OnCompleted,  *)
(* to the cache writer and the destruction of the task.                    *)
(*                                                                         *)
(* The Executor module has the details of reaping and of references; here  *)
(* it is reduced to a number of slots, and its freeing of tasks (FreeTask  *)
(* or the cleaning timer) to the step that drops the last reference.       *)
(*                                                                         *)
(* Scans, exit callbacks and cache writes take threads of the default      *)
(* pool.  So do the timers, the HTTP handlers and the dispatched tasks of  *)
(* the same daemon, so that start() may find no thread, and throw, at any  *)
(* time.                                                                   *)
(*                                                                         *)
(* A DISTBU_CHECK that fails only logs, so the code goes on with what it   *)
(* has.  What it then does to a null DIR* or to freed memory ends the      *)
(* process: `up' is FALSE from there on.                                   *)
(***************************************************************************)
EXTENDS Integers, FiniteSets

CONSTANTS
    Tasks,       \* calls of QueueCxxTask, one task object each
    Request,     \* task -> [source, args, digest, fill]: what the requester sends
    Timed,       \* sources that use one of kRejectMacros
    Overridden,  \* arguments that define all of kRejectMacros with -D
    Slots,       \* max_concurrency_
    Lossy,       \* bound: calls whose requester is lost while it sends
    Upgradable,  \* bound: paths whose compiler is replaced
    MaxVersion,  \* bound: versions of a compiler installed at one path
    MaxSecond    \* bound: seconds that pass

VARIABLES
    up,          \* whether the daemon has not crashed
    stub,        \* whether stub_ is not null: there is a cache server
    second,      \* std::time(nullptr)
    task,        \* task -> its CxxCompileTask and what runs for it
    disk,        \* directory -> sub-directory -> its output.o (a set of at most one)
    compilers,   \* path -> the version installed there
    paths,       \* compiler_paths_: digest -> path
    scanned,     \* history: compilers at the last rescan
    cache        \* entries PutEntry has stored: key -> [pack, and of
                 \* its writer, as history: alone, steady]

vars == <<up, stub, second, task, disk, compilers, paths, scanned, cache>>

ASSUME BoundsAssumption ==
    /\ Slots \in Nat
    /\ MaxVersion \in Nat /\ MaxVersion >= 2 /\ MaxSecond \in Nat
    /\ Lossy \subseteq Tasks /\ Upgradable \subseteq 1 .. 2

\* The paths OnTimerRescan visits, in the order of PATH and the user's list.
Paths == 1 .. 2

\* A digest stands for the compiler it is the digest of: a version number.
Digests == 1 .. MaxVersion

Seconds == 0 .. MaxSecond
Failure == 1                \* any exit code but 0, -1 (a signal) included
EmptySource == "empty source"
Sources == {Request[t].source : t \in Tasks} \cup {EmptySource}
AllArgs == {Request[t].args : t \in Tasks}

\* Whether what is compiled depends on when.
UsesTime(source, args) == source \in Timed /\ args \notin Overridden

NoTime == -1                \* of an object in which no time is expanded
Object == [source : Sources, args : AllArgs, compiler : Digests,
           time : Seconds \cup {NoTime}]
Key == [source : Sources, args : AllArgs, digest : Digests]
Verdicts == {"cacheable", "not cacheable"}

(***************************************************************************)
(* pc: the handler has "made" the task, then "prepared" it; it is in the   *)
(* executor's table ("running") until its exit is handled ("completing"),  *)
(* then completion_event is set ("announced"), or never will be            *)
(* ("silent"); "destroying", "clearing" and "gone" are its end.            *)
(*                                                                         *)
(* scan is write_cache_future_ and its thread; child the compiler process; *)
(* writing whether the cache writer has a thread for it.                   *)
(* made and steady are history: the second the object was made in, and     *)
(* whether no compiler changed between the rescan its path comes from and  *)
(* its compilation.                                                        *)
(***************************************************************************)
CxxCompileTask ==
    [pc : {"none", "made", "prepared", "running", "completing", "announced",
           "silent", "destroying", "clearing", "gone"},
     source : Sources, dir : Seconds, path : Paths,
     scan : {"none", "running"} \cup Verdicts,
     child : {"none", "alive", "dead", "reaped"},
     exit_code : {0, Failure},
     pack : SUBSET Object, writing : BOOLEAN,
     made : Seconds, steady : BOOLEAN]

NewTask(s, d) ==
    [pc |-> "made", source |-> s, dir |-> d, path |-> 1, scan |-> "none",
     child |-> "none", exit_code |-> Failure, pack |-> {}, writing |-> FALSE,
     made |-> second, steady |-> TRUE]

At(t, pc) == up /\ task[t].pc = pc

\* History: no other task object was made in the same second.
Alone(t) ==
    \A u \in Tasks \ {t} : task[u].pc # "none" => task[u].made # task[t].made

NoTask == [NewTask(EmptySource, 0) EXCEPT !.pc = "none"]

\* The process dies: what is on disk and in the cache stays.
Crash ==
    /\ up' = FALSE
    /\ task' = [t \in Tasks |-> NoTask]
    /\ paths' = << >>
    /\ UNCHANGED <<stub, second, disk, compilers, scanned, cache>>

-----------------------------------------------------------------------------
(***************************************************************************)
(* Temporary directories.  TempDir's name is the time in seconds and the   *)
(* first number of a Poco::Random, which is itself seeded with the time in *)
(* seconds: tasks made within a second have the same directory.            *)
(***************************************************************************)

\* Variant: a name of its own is left out.
OneDir == 0

TempDirName == second

Exists(d) == d \in DOMAIN disk
Subdirs(d) == IF Exists(d) THEN DOMAIN disk[d] ELSE {}
FileOf(d, s) == IF s \in Subdirs(d) THEN disk[d][s] ELSE {}

\* Directory d with the given files in its sub-directories.
DiskWith(d, files) ==
    [e \in DOMAIN disk \cup {d} |-> IF e = d THEN files ELSE disk[e]]

\* Mkdirs makes what is missing and keeps what is there.
Mkdirs(d, subs) ==
    DiskWith(d, [s \in Subdirs(d) \cup subs |-> FileOf(d, s)])

\* ReadAll lists the whole work directory, the other sub-directories too, and
\* GetOutput keeps every file (the check of its prefix only logs).
ReadAll(d) == UNION {FileOf(d, s) : s \in Subdirs(d)}

-----------------------------------------------------------------------------
(***************************************************************************)
(* Compilers.  AddEnvTo ignores a digest it already has, so the first path *)
(* wins.                                                                   *)
(***************************************************************************)

AddEnvTo ==
    [d \in {compilers[p] : p \in Paths} |->
        CHOOSE p \in Paths : /\ compilers[p] = d
                             /\ \A q \in Paths : compilers[q] = d => p <= q]

OnTimerRescan ==
    /\ up
    /\ paths' = AddEnvTo
    /\ scanned' = compilers
    /\ UNCHANGED <<up, stub, second, task, disk, compilers, cache>>

\* Somebody upgrades the compiler at a path.
InstallCompiler(p) ==
    /\ up /\ p \in Upgradable /\ compilers[p] < MaxVersion
    /\ compilers' = [compilers EXCEPT ![p] = @ + 1]
    /\ task' = [t \in Tasks |-> [task[t] EXCEPT !.steady =
                    @ /\ task[t].pc # "prepared" /\ task[t].child # "alive"]]
    /\ UNCHANGED <<up, stub, second, disk, paths, scanned, cache>>

-----------------------------------------------------------------------------
(***************************************************************************)
(* QueueCxxTask.                                                           *)
(***************************************************************************)

\* The stream ends: the file has arrived, or the requester was lost after
\* the first chunk (an empty file, which decompresses to an empty source).
QueueCxxTask(t, s) ==
    /\ At(t, "none")
    /\ s = Request[t].source \/ (t \in Lossy /\ s = EmptySource)
    /\ task' = [task EXCEPT ![t] = NewTask(s, TempDirName)]
    /\ disk' = Mkdirs(TempDirName, {})
    /\ UNCHANGED <<up, stub, second, compilers, paths, scanned, cache>>

\* The requester was lost before the first chunk: *request is a null pointer.
StreamIsEmpty(t) == At(t, "none") /\ t \in Lossy /\ Crash

\* PrepareCache: no future when all macros are overridden.
PrepareCache(t) ==
    IF Request[t].fill /\ Request[t].args \notin Overridden THEN "running" ELSE "none"

\* The compiler is not there, part of the file is missing, or the pool has no
\* thread for the scan: the call fails and the task is destroyed.
PrepareFails(t) ==
    /\ At(t, "made")
    /\ \/ Request[t].digest \notin DOMAIN paths
       \/ t \in Lossy
       \/ PrepareCache(t) = "running"
    /\ task' = [task EXCEPT ![t].pc = "destroying"]
    /\ UNCHANGED <<up, stub, second, disk, compilers, paths, scanned, cache>>

Prepare(t) ==
    /\ At(t, "made")
    /\ Request[t].digest \in DOMAIN paths
    /\ task' = [task EXCEPT ![t].pc = "prepared",
                            ![t].path = paths[Request[t].digest],
                            ![t].scan = PrepareCache(t),
                            ![t].steady = (compilers = scanned)]
    /\ disk' = Mkdirs(task[t].dir, {task[t].source})
    /\ UNCHANGED <<up, stub, second, compilers, paths, scanned, cache>>

\* The executor starts the compiler; GetSource moves source_ away.
TryQueueTask(t) ==
    /\ At(t, "prepared")
    /\ Cardinality({u \in Tasks : task[u].child \in {"alive", "dead"}}) < Slots
    /\ task' = [task EXCEPT ![t].pc = "running", ![t].child = "alive"]
    /\ UNCHANGED <<up, stub, second, disk, compilers, paths, scanned, cache>>

\* It refuses (no slot, no memory): the task is destroyed, its scan or not.
TryQueueTaskRefused(t) ==
    /\ At(t, "prepared")
    /\ task' = [task EXCEPT ![t].pc = "destroying"]
    /\ UNCHANGED <<up, stub, second, disk, compilers, paths, scanned, cache>>

-----------------------------------------------------------------------------
(***************************************************************************)
(* PrepareCachePocoTask scans the task's own source_.                      *)
(***************************************************************************)

Verdict(s) == IF s \in Timed THEN "not cacheable" ELSE "cacheable"

\* source_ has been moved from, or the task is gone.
SourceLost(t) == task[t].child # "none" \/ task[t].pc = "gone"

\* The scan ends.  A scan of a moved or freed string finds anything ...
ScanEnds(t, verdict) ==
    /\ up /\ task[t].scan = "running"
    /\ verdict = Verdict(task[t].source) \/ SourceLost(t)
    /\ task' = [task EXCEPT ![t].scan = verdict]
    /\ UNCHANGED <<up, stub, second, disk, compilers, paths, scanned, cache>>

\* ... or touches memory the process no longer has.
ScanCrashes(t) ==
    /\ up /\ task[t].scan = "running"
    /\ SourceLost(t)
    /\ Crash

-----------------------------------------------------------------------------
(***************************************************************************)
(* The compiler process and what follows its exit.                         *)
(***************************************************************************)

\* The compiler writes its object, when the directory is still there; whoever
\* is installed at the path by now does the work, and expands __TIME__.
Compiles(t) ==
    LET p == task[t].path
        s == task[t].source
        d == task[t].dir
        a == Request[t].args
        o == [source |-> s, args |-> a, compiler |-> compilers[p],
              time |-> IF UsesTime(s, a) THEN second ELSE NoTime]
    IN  /\ up /\ task[t].child = "alive"
        /\ s \in Subdirs(d)
        /\ disk' = DiskWith(d, [disk[d] EXCEPT ![s] = {o}])
        /\ task' = [task EXCEPT ![t].child = "dead", ![t].exit_code = 0]
        /\ UNCHANGED <<up, stub, second, compilers, paths, scanned, cache>>

\* It fails: an error in the source, no directory, no such program, a signal.
CompilerFails(t) ==
    /\ up /\ task[t].child = "alive"
    /\ task' = [task EXCEPT ![t].child = "dead", ![t].exit_code = Failure]
    /\ UNCHANGED <<up, stub, second, disk, compilers, paths, scanned, cache>>

\* WaiterProc has reaped it: OnExitCallback looks the task up in a thread of
\* the pool, and does nothing when it has been freed.  start() throws in
\* WaiterProc when the pool is full, which nobody catches.
WaiterProc(t) ==
    /\ up /\ task[t].child = "dead"
    /\ task' = [task EXCEPT ![t].child = "reaped",
                            ![t].pc = IF @ = "running" THEN "completing" ELSE @]
    /\ UNCHANGED <<up, stub, second, disk, compilers, paths, scanned, cache>>

WaiterProcTerminates(t) == up /\ task[t].child = "dead" /\ Crash

\* Variant: the key stands for the source the requester meant to send.
KeyOfRequest(t) == [source |-> Request[t].source, args |-> Request[t].args,
                    digest |-> Request[t].digest]

\* What the cache key is the hash of.
KeyOf(t) == [source |-> task[t].source, args |-> Request[t].args,
             digest |-> Request[t].digest]

\* GetCacheKey returns no key when there was no scan, or when the scan has
\* found the source cacheable.
HasCacheKey(t) == task[t].scan = "not cacheable"

\* Variant: written with or without a key.
MustWriteAll(t) == task[t].exit_code = 0

MustWrite(t) == task[t].exit_code = 0 /\ HasCacheKey(t)

\* OnCompleted waits for the scan.  A failed compilation has no files;
\* otherwise they are read and packed.  AsyncWrite takes a thread of the
\* pool; when there is none its exception leaves OnExitCallback before
\* completion_event.set().
OnCompleted(t, failed) ==
    /\ At(t, "completing")
    /\ task[t].scan # "running"
    /\ task[t].exit_code = 0 => Exists(task[t].dir)
    /\ failed => MustWrite(t)
    /\ task' = [task EXCEPT
           ![t].pack = IF task[t].exit_code = 0 THEN ReadAll(task[t].dir) ELSE {},
           ![t].writing = MustWrite(t) /\ ~failed,
           ![t].pc = IF failed THEN "silent" ELSE "announced"]
    /\ UNCHANGED <<up, stub, second, disk, compilers, paths, scanned, cache>>

\* The directory is gone: readdir(nullptr).
OnCompletedCrashes(t) ==
    /\ At(t, "completing")
    /\ task[t].scan # "running"
    /\ task[t].exit_code = 0 /\ ~Exists(task[t].dir)
    /\ Crash

\* WriteCacheDataPocoTask: PutEntry stores the entry, or fails somewhere ...
WriteCacheData(t, stored) ==
    /\ up /\ task[t].writing /\ stub
    /\ task' = [task EXCEPT ![t].writing = FALSE]
    /\ cache' = IF stored
                THEN [k \in DOMAIN cache \cup {KeyOf(t)} |->
                        IF k = KeyOf(t) THEN [pack |-> task[t].pack, alone |-> Alone(t),
                                              steady |-> task[t].steady]
                        ELSE cache[k]]
                ELSE cache
    /\ UNCHANGED <<up, stub, second, disk, compilers, paths, scanned>>

\* ... or is called through a null stub_: AsyncWrite only logs that there is no
\* cache server.
WriteCrashes(t) == up /\ task[t].writing /\ ~stub /\ Crash

-----------------------------------------------------------------------------
(***************************************************************************)
(* The end of a task: RemoveDir opens its directory and unlinks the files, *)
(* then removes the sub-directories and the directory if it can.           *)
(***************************************************************************)

\* The executor drops its last reference: FreeTask, also of a task that is
\* still running and is now killed, or OnTimerClean.
FreeTask(t) ==
    /\ up /\ task[t].pc \in {"running", "announced", "silent"}
    /\ task' = [task EXCEPT ![t].pc = "destroying"]
    /\ UNCHANGED <<up, stub, second, disk, compilers, paths, scanned, cache>>

\* ~TempDir: Clear opens the directory and unlinks its files ...
Clear(t) ==
    LET d == task[t].dir
    IN  /\ At(t, "destroying")
        /\ Exists(d)
        /\ disk' = DiskWith(d, [s \in Subdirs(d) |-> {}])
        /\ task' = [task EXCEPT ![t].pc = "clearing"]
        /\ UNCHANGED <<up, stub, second, compilers, paths, scanned, cache>>

\* ... where a directory, or a file, that another task has removed makes
\* opendir fail, and readdir(nullptr) follows ...
ClearCrashes(t) ==
    LET d == task[t].dir
    IN  /\ At(t, "destroying")
        /\ ~Exists(d) \/ \E u \in Tasks \ {t} : task[u].dir = d /\ task[u].pc = "clearing"
        /\ Crash

\* ... and rmdir removes what is empty.  A file that a compiler has written
\* in between stays, and its directory with it (this only logs).  The cache
\* writer has a copy of what it writes.
RemoveDir(t) ==
    LET d == task[t].dir
        left == {s \in Subdirs(d) : FileOf(d, s) # {}}
    IN  /\ At(t, "clearing")
        /\ disk' = IF left = {} THEN [e \in DOMAIN disk \ {d} |-> disk[e]]
                   ELSE DiskWith(d, [s \in left |-> FileOf(d, s)])
        /\ task' = [task EXCEPT ![t].pc = "gone",
                                ![t].path = IF task[t].child = "alive" THEN @ ELSE 1,
                                ![t].pack = IF task[t].writing THEN @ ELSE {}]
        /\ UNCHANGED <<up, stub, second, compilers, paths, scanned, cache>>

-----------------------------------------------------------------------------
Tick ==
    /\ up /\ second < MaxSecond
    /\ second' = second + 1
    /\ UNCHANGED <<up, stub, task, disk, compilers, paths, scanned, cache>>

Init ==
    /\ up = TRUE
    /\ stub \in BOOLEAN
    /\ second = 0
    /\ disk = << >>
    /\ compilers = [p \in Paths |-> p]
    /\ scanned = compilers
    /\ paths = AddEnvTo
    /\ cache = << >>
    /\ task = [t \in Tasks |-> NoTask]

\* What the handler of a call, and the threads and the process of a task do.
Handler(t) ==
    \/ Prepare(t) \/ PrepareFails(t) \/ TryQueueTask(t) \/ TryQueueTaskRefused(t)
    \/ Clear(t) \/ ClearCrashes(t) \/ RemoveDir(t)

Scan(t) == ScanCrashes(t) \/ \E v \in Verdicts : ScanEnds(t, v)

Compiler(t) == Compiles(t) \/ CompilerFails(t)

Exit(t) ==
    \/ WaiterProc(t) \/ WaiterProcTerminates(t)
    \/ \E failed \in BOOLEAN : OnCompleted(t, failed)
    \/ OnCompletedCrashes(t)

Next ==
    \/ OnTimerRescan \/ Tick
    \/ \E p \in Paths : InstallCompiler(p)
    \/ \E t \in Tasks :
        \/ StreamIsEmpty(t)
        \/ \E s \in Sources : QueueCxxTask(t, s)
        \/ Handler(t) \/ Scan(t) \/ Compiler(t) \/ Exit(t) \/ FreeTask(t)
        \/ \E stored \in BOOLEAN : WriteCacheData(t, stored)
        \/ WriteCrashes(t)

Spec == Init /\ [][Next]_vars

(***************************************************************************)
(* Threads run and compilers end.  Nothing makes a requester send or free  *)
(* anything, or the rescan timer fire.                                     *)
(***************************************************************************)
FairSpec ==
    /\ Spec
    /\ \A t \in Tasks : /\ WF_vars(Handler(t)) /\ WF_vars(Scan(t))
                        /\ WF_vars(Compiler(t)) /\ WF_vars(Exit(t))

-----------------------------------------------------------------------------
(***************************************************************************)
(* Properties.                                                             *)
(***************************************************************************)

\* Every variable has its type; a registered digest has a path.
TypeOK ==
    /\ up \in BOOLEAN /\ stub \in BOOLEAN
    /\ second \in Seconds
    /\ task \in [Tasks -> CxxCompileTask]
    /\ DOMAIN disk \subseteq Seconds
    /\ \A d \in DOMAIN disk : \A s \in DOMAIN disk[d] :
        s \in Sources /\ disk[d][s] \subseteq Object
    /\ compilers \in [Paths -> Digests] /\ scanned \in [Paths -> Digests]
    /\ DOMAIN paths \subseteq Digests /\ \A d \in DOMAIN paths : paths[d] \in Paths
    /\ DOMAIN cache \subseteq Key

\* Object o is what these arguments make of this source, the compiler aside; it
\* has a time of compilation in it only if the source asks for it.
IsObjectOf(o, source, args) ==
    /\ o.source = source /\ o.args = args
    /\ o.time # NoTime => UsesTime(source, args)

IsOutputOf(o, t) == IsObjectOf(o, task[t].source, Request[t].args)

\* Whatever is refused, freed, killed and removed around it, a successful
\* task that is alone in its second returns one file, its own object
\* (OnCompleted and GetOutput against ~TempDir of the other tasks).
OwnOutput ==
    \A t \in Tasks :
        /\ task[t].pc \in {"announced", "silent"} /\ task[t].exit_code = 0
        /\ Alone(t)
        => /\ Cardinality(task[t].pack) = 1
           /\ \A o \in task[t].pack : IsOutputOf(o, t)

\* A cache entry written by a task alone in its second holds an object of its
\* key's source and arguments, made by the key's compiler unless a compiler
\* changed after the rescan the path is from; two compilations with this key can
\* differ in nothing but the time they were made at, and in that only if the
\* source uses it (GetCacheKey, GetOutput, Compilers::OnTimerRescan).  The
\* comment at PrepareCachePocoTask wants no such source in the cache, where
\* GetCacheKey gives a key to these alone: the time in an entry is any time.
CacheHoldsItsKey ==
    \A k \in DOMAIN cache :
        cache[k].alone => \A o \in cache[k].pack :
            /\ IsObjectOf(o, k.source, k.args)
            /\ cache[k].steady => o.compiler = k.digest

\* A task whose compiler was started is announced, unless it is freed first,
\* the daemon crashes, or there is no thread to write its cache entry
\* (Executor::OnExitCallback after CxxCompileTask::OnCompleted).
EveryTaskIsAnnounced ==
    \A t \in Tasks :
        task[t].pc = "running" ~>
            \/ task[t].pc \in {"announced", "destroying", "clearing", "gone"}
            \/ ~up
            \/ task[t].pc = "silent" /\ HasCacheKey(t)
=============================================================================
