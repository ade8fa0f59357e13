-------------------------- MODULE CompileTaskProofs --------------------------
(***************************************************************************)
(* Safety of CompileTask for every number of tasks, requests, slots,       *)
(* seconds and compiler versions, whatever is lost, refused, freed or      *)
(* killed.                                                                 *)
(***************************************************************************)
EXTENDS CompileTask, FiniteSetTheorems, TLAPS

\* Task t exists and shares its second, and so its directory, with nobody.
Own(t) == task[t].pc # "none" /\ Alone(t)

\* Object o is what t's compilation makes.
Mine(o, t) == IsOutputOf(o, t) /\ (task[t].steady => o.compiler = Request[t].digest)

\* How far the compiler process and the results are, by the task's progress.
Phases(t) ==
    /\ task[t].pc # "none" => task[t].dir = task[t].made
    /\ task[t].pc = "made" => task[t].steady
    /\ task[t].pc \in {"none", "made"} => task[t].scan = "none"
    /\ task[t].exit_code = 0 => task[t].child \in {"dead", "reaped"}
    /\ task[t].pc \in {"none", "made", "prepared"} =>
          task[t].child = "none" /\ task[t].pack = {} /\ ~task[t].writing
    /\ task[t].pc = "running" => task[t].child \in {"alive", "dead"}
    /\ task[t].pc \in {"completing", "announced", "silent"} => task[t].child = "reaped"
    /\ task[t].pc \in {"prepared", "running", "completing"} \/ task[t].writing =>
          Request[t].digest \in Digests

\* The compiler at a steady task's path is the one that was asked for.
RightCompiler(t) ==
    task[t].steady /\ (task[t].pc = "prepared" \/ task[t].child = "alive") =>
        compilers[task[t].path] = Request[t].digest

\* In the directory of a task that is alone there is nothing but its own
\* source's sub-directory and object.
OwnDirectory(t) ==
    Own(t) =>
        \A s \in Subdirs(task[t].dir) :
            s = task[t].source /\ \A o \in FileOf(task[t].dir, s) : Mine(o, t)

\* From a successful compilation to OnCompleted the object is there.
ObjectThere(t) ==
    Own(t) /\ task[t].exit_code = 0 /\ task[t].pc \in {"running", "completing"} =>
        \E o \in Object : FileOf(task[t].dir, task[t].source) = {o}

\* After OnCompleted it is in the pack.
OwnPack(t) ==
    Own(t) =>
        /\ \A o \in task[t].pack : Mine(o, t)
        /\ task[t].exit_code = 0 /\ task[t].pc \in {"announced", "silent"} =>
              \E o \in Object : task[t].pack = {o}

TaskInv(t) == /\ Phases(t)
              /\ RightCompiler(t)
              /\ OwnDirectory(t)
              /\ ObjectThere(t)
              /\ OwnPack(t)

\* Every directory is that of a task.
DiskOwned ==
    up => \A d \in DOMAIN disk : \E t \in Tasks : task[t].pc # "none" /\ task[t].dir = d

\* A registered path had the registered compiler when it was scanned.
Registered == \A d \in DOMAIN paths : scanned[paths[d]] = d

\* The invariant that is preserved by every step.
IInv == /\ TypeOK
        /\ \A t \in Tasks : TaskInv(t)
        /\ DiskOwned
        /\ Registered
        /\ ~up => \A t \in Tasks : task[t].pc = "none"
        /\ CacheHoldsItsKey


-----------------------------------------------------------------------------
(***************************************************************************)
(* One task's step.                                                        *)
(***************************************************************************)

\* What is on disk has its type.
DiskOK ==
    /\ DOMAIN disk \subseteq Seconds
    /\ \A d \in DOMAIN disk : \A s \in DOMAIN disk[d] :
        s \in Sources /\ disk[d][s] \subseteq Object

\* Nothing on disk changes outside directory d.
OnlyIn(d) ==
    \A e : e # d => /\ e \in DOMAIN disk' <=> e \in DOMAIN disk
                    /\ e \in DOMAIN disk => disk'[e] = disk[e]

\* Task u becomes q, and keeps its directory, in which the step may work.
Touches(u, q) ==
    /\ up /\ up' = up /\ stub' = stub
    /\ q \in CxxCompileTask
    /\ task' = [task EXCEPT ![u] = q]
    /\ q.pc # "none" /\ q.dir = q.made
    /\ task[u].pc # "none" =>
          q.made = task[u].made /\ q.source = task[u].source
    /\ OnlyIn(q.dir)
    /\ compilers' = compilers

\* The other tasks and their directories are as they were.
LEMMA OthersStay ==
    ASSUME TypeOK, NEW u \in Tasks, NEW q, Touches(u, q),
           NEW t \in Tasks, t # u, TaskInv(t)
    PROVE  TaskInv(t)'
PROOF
<1>1. task'[t] = task[t] /\ task'[u] = q /\ task \in [Tasks -> CxxCompileTask]
  BY DEF TypeOK, Touches
<1>2. Phases(t)'
  BY <1>1 DEF TaskInv, Phases
<1>3. RightCompiler(t)'
  BY <1>1 DEF TaskInv, RightCompiler, Touches
<1>4. ASSUME Own(t)'
      PROVE  Own(t) /\ task[t].dir # q.dir
  <2>1. task[t].pc # "none"
    BY <1>1, <1>4 DEF Own
  <2>2. q.made # task[t].made
    BY <1>1, <1>4 DEF Own, Alone, Touches
  <2>3. \A v \in Tasks \ {t} : task[v].pc # "none" => task[v].made # task[t].made
    <3>1. SUFFICES ASSUME NEW v \in Tasks \ {t}, task[v].pc # "none"
                   PROVE  task[v].made # task[t].made
      OBVIOUS
    <3>2. CASE v = u
      BY <3>1, <3>2, <2>2 DEF Touches
    <3>3. CASE v # u
      BY <3>1, <3>3, <1>1, <1>4 DEF Own, Alone, Touches
    <3>4. QED  BY <3>2, <3>3
  <2>4. task[t].dir = task[t].made
    BY <2>1 DEF TaskInv, Phases
  <2>5. QED  BY <2>1, <2>2, <2>3, <2>4 DEF Own, Alone, Touches
<1>5. ASSUME Own(t)'
      PROVE  \A s : /\ s \in Subdirs(task[t].dir)' <=> s \in Subdirs(task[t].dir)
                    /\ FileOf(task[t].dir, s)' = FileOf(task[t].dir, s)
  BY <1>1, <1>4, <1>5 DEF Touches, OnlyIn, Subdirs, FileOf, Exists
<1>6. \A o : Mine(o, t)' <=> Mine(o, t)
  BY <1>1 DEF Mine, IsOutputOf, IsObjectOf
<1>7. OwnDirectory(t)'
  BY <1>1, <1>4, <1>5, <1>6 DEF TaskInv, OwnDirectory
<1>8. ObjectThere(t)'
  BY <1>1, <1>4, <1>5 DEF TaskInv, ObjectThere
<1>9. OwnPack(t)'
  BY <1>1, <1>4, <1>6 DEF TaskInv, OwnPack
<1>10. QED
  BY <1>2, <1>3, <1>7, <1>8, <1>9 DEF TaskInv

\* So a step of u keeps the invariant when it does so for u itself and for
\* what it writes.
LEMMA TouchesIInv ==
    ASSUME IInv, NEW u \in Tasks, NEW q, Touches(u, q), TaskInv(u)',
           DiskOK', DOMAIN disk' \subseteq DOMAIN disk \cup {q.dir},
           second' = second, paths' = paths, scanned' = scanned,
           DOMAIN cache' \subseteq Key, CacheHoldsItsKey'
    PROVE  IInv'
PROOF
<1>1. TypeOK /\ task \in [Tasks -> CxxCompileTask]
  BY DEF IInv, TypeOK
<1>2. task' \in [Tasks -> CxxCompileTask]
  BY <1>1 DEF Touches
<1>3. TypeOK'
  BY <1>1, <1>2 DEF TypeOK, DiskOK, Touches
<1>4. \A t \in Tasks : TaskInv(t)'
  BY <1>1, OthersStay DEF IInv
<1>5. DiskOwned'
  <2>1. SUFFICES ASSUME NEW d \in DOMAIN disk'
                 PROVE  \E t \in Tasks : task'[t].pc # "none" /\ task'[t].dir = d
    BY DEF DiskOwned
  <2>2. CASE d = q.dir
    BY <1>1, <2>2 DEF Touches
  <2>3. CASE d # q.dir
    <3>1. PICK t \in Tasks : task[t].pc # "none" /\ task[t].dir = d
      BY <2>1, <2>3 DEF IInv, DiskOwned, Touches
    <3>2. t # u
      BY <3>1, <2>3 DEF IInv, TaskInv, Phases, Touches
    <3>3. task'[t] = task[t]
      BY <3>2, <1>1 DEF Touches
    <3>4. QED  BY <3>1, <3>3
  <2>4. QED  BY <2>2, <2>3
<1>6. Registered' /\ (~up => \A t \in Tasks : task[t].pc = "none")'
  BY DEF IInv, Registered, Touches
<1>7. QED
  BY <1>3, <1>4, <1>5, <1>6 DEF IInv


-----------------------------------------------------------------------------
(***************************************************************************)
(* Steps that leave the disk alone.                                        *)
(***************************************************************************)

\* Task u becomes q: same source, directory and path, and not closer to
\* compiling, or to a result that OnCompleted has yet to read.
Quiet(u, q) ==
    /\ up /\ up' = up /\ stub' = stub
    /\ q \in CxxCompileTask
    /\ task' = [task EXCEPT ![u] = q]
    /\ task[u].pc # "none" /\ q.pc # "none"
    /\ q.source = task[u].source /\ q.dir = task[u].dir
    /\ q.made = task[u].made /\ q.steady = task[u].steady /\ q.path = task[u].path
    /\ q.pc = "prepared" \/ q.child = "alive" =>
          task[u].pc = "prepared" \/ task[u].child = "alive"
    /\ q.exit_code = 0 /\ q.pc \in {"running", "completing"} =>
          task[u].exit_code = 0 /\ task[u].pc \in {"running", "completing"}
    /\ UNCHANGED <<second, disk, compilers, paths, scanned>>

\* What a quiet step leaves as it was.
LEMMA QuietFacts ==
    ASSUME IInv, NEW u \in Tasks, NEW q, Quiet(u, q)
    PROVE  /\ task'[u] = q /\ Touches(u, q)
           /\ Own(u)' <=> Own(u)
           /\ \A o : Mine(o, u)' <=> Mine(o, u)
PROOF
<1>1. task \in [Tasks -> CxxCompileTask] /\ task'[u] = q
  BY DEF IInv, TypeOK, Quiet
<1>2. \A t \in Tasks : t # u => task'[t] = task[t]
  BY <1>1 DEF Quiet
<1>3. task[u].dir = task[u].made
  BY DEF IInv, TaskInv, Phases, Quiet
<1>4. UNCHANGED <<disk, compilers>>
  BY DEF Quiet
<1>5. OnlyIn(q.dir)
  BY <1>4 DEF OnlyIn
<1>6. Touches(u, q)
  BY <1>3, <1>4, <1>5 DEF Touches, Quiet
<1>7. Own(u)' <=> Own(u)
  BY <1>1, <1>2 DEF Own, Alone, Quiet
<1>8. \A o : Mine(o, u)' <=> Mine(o, u)
  BY <1>1 DEF Mine, IsOutputOf, IsObjectOf, Quiet
<1>9. QED  BY <1>1, <1>6, <1>7, <1>8

\* A quiet step keeps the invariant when u's phases and pack are right after
\* it, and what it stores too.
LEMMA QuietIInv ==
    ASSUME IInv, NEW u \in Tasks, NEW q, Quiet(u, q), Phases(u)', OwnPack(u)',
           DOMAIN cache' \subseteq Key, CacheHoldsItsKey'
    PROVE  IInv'
PROOF
<1>1. /\ task'[u] = q /\ Touches(u, q)
      /\ Own(u)' <=> Own(u)
      /\ \A o : Mine(o, u)' <=> Mine(o, u)
  BY QuietFacts
<1>2. UNCHANGED <<second, disk, compilers, paths, scanned>>
  BY DEF Quiet
<1>3. RightCompiler(u)'
  BY <1>1, <1>2 DEF RightCompiler, Quiet, IInv, TaskInv
<1>4. \A d, s : /\ Subdirs(d)' = Subdirs(d)
                /\ FileOf(d, s)' = FileOf(d, s)
  BY <1>2 DEF Subdirs, FileOf, Exists
<1>5. q.dir = task[u].dir /\ q.source = task[u].source
  BY DEF Quiet
<1>6. OwnDirectory(u)'
  BY <1>1, <1>4, <1>5 DEF OwnDirectory, IInv, TaskInv
<1>7. ObjectThere(u)'
  BY <1>1, <1>4, <1>5 DEF ObjectThere, IInv, TaskInv, Quiet
<1>8. TaskInv(u)'
  BY <1>3, <1>6, <1>7 DEF TaskInv
<1>9. DiskOK' /\ DOMAIN disk' \subseteq DOMAIN disk \cup {q.dir}
  BY <1>2 DEF DiskOK, IInv, TypeOK
<1>10. QED
  BY <1>1, <1>2, <1>8, <1>9, TouchesIInv

\* The pack of a quiet step that does not change it.
LEMMA QuietPack ==
    ASSUME IInv, NEW u \in Tasks, NEW q, Quiet(u, q), q.pack = task[u].pack,
           q.exit_code = 0 /\ q.pc \in {"announced", "silent"} =>
              task[u].exit_code = 0 /\ task[u].pc \in {"announced", "silent"}
    PROVE  OwnPack(u)'
PROOF
<1>1. /\ task'[u] = q
      /\ Own(u)' <=> Own(u)
      /\ \A o : Mine(o, u)' <=> Mine(o, u)
  BY QuietFacts
<1>2. QED
  BY <1>1 DEF OwnPack, IInv, TaskInv

\* What is stored stays right when it does not change.
LEMMA CacheStays ==
    ASSUME IInv, cache' = cache
    PROVE  DOMAIN cache' \subseteq Key /\ CacheHoldsItsKey'
  BY DEF IInv, TypeOK, CacheHoldsItsKey

\* The steps that only move the task on.
LEMMA MovesIInv ==
    ASSUME IInv, NEW t \in Tasks,
           PrepareFails(t) \/ TryQueueTask(t) \/ TryQueueTaskRefused(t) \/ FreeTask(t)
    PROVE  IInv'
PROOF
<1>1. task \in [Tasks -> CxxCompileTask] /\ Phases(t)
  BY DEF IInv, TypeOK, TaskInv
<1>2. cache' = cache /\ UNCHANGED <<up, stub, second, disk, compilers, paths, scanned>> /\ up
  BY DEF PrepareFails, TryQueueTask, TryQueueTaskRefused, FreeTask, At
<1>3. PICK q : /\ task' = [task EXCEPT ![t] = q]
               /\ \/ /\ q = [task[t] EXCEPT !.pc = "destroying"]
                     /\ task[t].pc \in {"made", "prepared", "running", "announced", "silent"}
                  \/ /\ q = [task[t] EXCEPT !.pc = "running", !.child = "alive"]
                     /\ task[t].pc = "prepared"
  <2>1. CASE TryQueueTask(t)
    <3>1. PICK q : q = [task[t] EXCEPT !.pc = "running", !.child = "alive"]
      OBVIOUS
    <3>2. task' = [task EXCEPT ![t] = q] /\ task[t].pc = "prepared"
      BY <1>1, <2>1, <3>1 DEF TryQueueTask, At
    <3>3. QED  BY <3>1, <3>2
  <2>2. CASE ~TryQueueTask(t)
    <3>1. PICK q : q = [task[t] EXCEPT !.pc = "destroying"]
      OBVIOUS
    <3>2. task' = [task EXCEPT ![t] = q]
      BY <1>1, <2>2, <3>1 DEF PrepareFails, TryQueueTaskRefused, FreeTask
    <3>3. task[t].pc \in {"made", "prepared", "running", "announced", "silent"}
      BY <2>2 DEF PrepareFails, TryQueueTaskRefused, FreeTask, At
    <3>4. QED  BY <3>1, <3>2, <3>3
  <2>3. QED  BY <2>1, <2>2
<1>4. task[t] \in CxxCompileTask
  BY <1>1
<1>5. q \in CxxCompileTask
  BY <1>3, <1>4 DEF CxxCompileTask
<1>6. /\ q.source = task[t].source /\ q.dir = task[t].dir /\ q.path = task[t].path
      /\ q.made = task[t].made /\ q.steady = task[t].steady /\ q.pack = task[t].pack
      /\ q.exit_code = task[t].exit_code /\ q.writing = task[t].writing
      /\ q.scan = task[t].scan
  BY <1>3, <1>4 DEF CxxCompileTask
<1>7. \/ q.pc = "destroying" /\ q.child = task[t].child /\ task[t].pc # "none"
      \/ q.pc = "running" /\ q.child = "alive" /\ task[t].pc = "prepared"
  BY <1>3, <1>4 DEF CxxCompileTask
<1>8. q.exit_code = 0 /\ q.pc = "running" => FALSE
  BY <1>1, <1>6, <1>7 DEF Phases
<1>9. Quiet(t, q)
  BY <1>2, <1>3, <1>5, <1>6, <1>7, <1>8 DEF Quiet
<1>10. task'[t] = q
  BY <1>1, <1>3
<1>11. Phases(t)'
  BY <1>1, <1>6, <1>7, <1>10 DEF Phases
<1>12. OwnPack(t)'
  BY <1>6, <1>7, <1>9, QuietPack
<1>13. QED
  BY <1>2, <1>9, <1>11, <1>12, QuietIInv, CacheStays


\* The scan ends.
LEMMA ScanEndsIInv ==
    ASSUME IInv, NEW t \in Tasks, NEW v \in Verdicts, ScanEnds(t, v)
    PROVE  IInv'
PROOF
<1>1. task \in [Tasks -> CxxCompileTask] /\ task[t] \in CxxCompileTask /\ Phases(t)
  BY DEF IInv, TypeOK, TaskInv
<1>2. cache' = cache /\ UNCHANGED <<up, stub, second, disk, compilers, paths, scanned>> /\ up
  BY DEF ScanEnds
<1>3. PICK q : q = [task[t] EXCEPT !.scan = v]
  OBVIOUS
<1>4. task' = [task EXCEPT ![t] = q] /\ task[t].scan = "running"
  BY <1>1, <1>3 DEF ScanEnds
<1>5. q \in CxxCompileTask
  BY <1>1, <1>3 DEF CxxCompileTask
<1>6. /\ q.source = task[t].source /\ q.dir = task[t].dir /\ q.path = task[t].path
      /\ q.made = task[t].made /\ q.steady = task[t].steady /\ q.pack = task[t].pack
      /\ q.exit_code = task[t].exit_code /\ q.writing = task[t].writing
      /\ q.pc = task[t].pc /\ q.child = task[t].child
  BY <1>1, <1>3 DEF CxxCompileTask
<1>7. task[t].pc # "none"
  BY <1>1, <1>4 DEF Phases
<1>8. Quiet(t, q)
  BY <1>2, <1>4, <1>5, <1>6, <1>7 DEF Quiet
<1>9. task'[t] = q
  BY <1>1, <1>4
<1>10. Phases(t)'
  BY <1>1, <1>4, <1>6, <1>9 DEF Phases
<1>11. OwnPack(t)'
  BY <1>6, <1>8, QuietPack
<1>12. QED
  BY <1>2, <1>8, <1>10, <1>11, QuietIInv, CacheStays

\* The compiler fails.
LEMMA CompilerFailsIInv ==
    ASSUME IInv, NEW t \in Tasks, CompilerFails(t)
    PROVE  IInv'
PROOF
<1>1. task \in [Tasks -> CxxCompileTask] /\ task[t] \in CxxCompileTask /\ Phases(t)
  BY DEF IInv, TypeOK, TaskInv
<1>2. cache' = cache /\ UNCHANGED <<up, stub, second, disk, compilers, paths, scanned>> /\ up
  BY DEF CompilerFails
<1>3. PICK q : q = [task[t] EXCEPT !.child = "dead", !.exit_code = Failure]
  OBVIOUS
<1>4. task' = [task EXCEPT ![t] = q] /\ task[t].child = "alive"
  BY <1>1, <1>3 DEF CompilerFails
<1>5. q \in CxxCompileTask
  BY <1>1, <1>3 DEF CxxCompileTask
<1>6. /\ q.source = task[t].source /\ q.dir = task[t].dir /\ q.path = task[t].path
      /\ q.made = task[t].made /\ q.steady = task[t].steady /\ q.pack = task[t].pack
      /\ q.exit_code = 1 /\ q.writing = task[t].writing
      /\ q.pc = task[t].pc /\ q.child = "dead"
  BY <1>1, <1>3 DEF CxxCompileTask, Failure
<1>7. task[t].pc \notin {"none", "made", "prepared", "completing", "announced", "silent"}
  BY <1>1, <1>4 DEF Phases
<1>8. Quiet(t, q)
  BY <1>2, <1>4, <1>5, <1>6, <1>7 DEF Quiet
<1>9. task'[t] = q
  BY <1>1, <1>4
<1>10. Phases(t)'
  BY <1>1, <1>6, <1>7, <1>9 DEF Phases
<1>11. OwnPack(t)'
  BY <1>6, <1>8, QuietPack
<1>12. QED
  BY <1>2, <1>8, <1>10, <1>11, QuietIInv, CacheStays

\* Its exit is handled.
LEMMA WaiterProcIInv ==
    ASSUME IInv, NEW t \in Tasks, WaiterProc(t)
    PROVE  IInv'
PROOF
<1>1. task \in [Tasks -> CxxCompileTask] /\ task[t] \in CxxCompileTask /\ Phases(t)
  BY DEF IInv, TypeOK, TaskInv
<1>2. cache' = cache /\ UNCHANGED <<up, stub, second, disk, compilers, paths, scanned>> /\ up
  BY DEF WaiterProc
<1>3. PICK q : q = [task[t] EXCEPT !.child = "reaped",
                                   !.pc = IF @ = "running" THEN "completing" ELSE @]
  OBVIOUS
<1>4. task' = [task EXCEPT ![t] = q] /\ task[t].child = "dead"
  BY <1>1, <1>3 DEF WaiterProc
<1>5. q \in CxxCompileTask
  BY <1>1, <1>3 DEF CxxCompileTask
<1>6. /\ q.source = task[t].source /\ q.dir = task[t].dir /\ q.path = task[t].path
      /\ q.made = task[t].made /\ q.steady = task[t].steady /\ q.pack = task[t].pack
      /\ q.exit_code = task[t].exit_code /\ q.writing = task[t].writing
      /\ q.pc = (IF task[t].pc = "running" THEN "completing" ELSE task[t].pc)
      /\ q.child = "reaped"
  BY <1>1, <1>3 DEF CxxCompileTask
<1>7. task[t].pc \notin {"none", "made", "prepared", "completing", "announced", "silent"}
  BY <1>1, <1>4 DEF Phases
<1>8. Quiet(t, q)
  BY <1>2, <1>4, <1>5, <1>6, <1>7 DEF Quiet
<1>9. task'[t] = q
  BY <1>1, <1>4
<1>10. Phases(t)'
  BY <1>1, <1>4, <1>6, <1>7, <1>9 DEF Phases
<1>11. OwnPack(t)'
  BY <1>6, <1>7, <1>8, QuietPack
<1>12. QED
  BY <1>2, <1>8, <1>10, <1>11, QuietIInv, CacheStays

\* What OnCompleted finds in the directory of a task that is alone.
LEMMA ReadsItsObject ==
    ASSUME IInv, NEW t \in Tasks, Own(t),
           task[t].pc = "completing", task[t].exit_code = 0
    PROVE  /\ \E o \in Object : ReadAll(task[t].dir) = {o}
           /\ \A o \in ReadAll(task[t].dir) : Mine(o, t)
PROOF
<1> DEFINE d == task[t].dir
           s == task[t].source
<1>1. PICK o \in Object : FileOf(d, s) = {o}
  BY DEF IInv, TaskInv, ObjectThere
<1>2. s \in Subdirs(d)
  BY <1>1 DEF FileOf
<1>3. \A r \in Subdirs(d) : r = s /\ \A x \in FileOf(d, r) : Mine(x, t)
  BY DEF IInv, TaskInv, OwnDirectory
<1> HIDE DEF d, s
<1>4. ReadAll(d) = {o}
  BY <1>1, <1>2, <1>3 DEF ReadAll
<1>5. Mine(o, t)
  BY <1>1, <1>2, <1>3
<1>6. (\E x \in Object : ReadAll(d) = {x}) /\ \A x \in ReadAll(d) : Mine(x, t)
  BY <1>4, <1>5
<1>7. QED  BY <1>6 DEF d

\* Whatever is read is objects.
LEMMA ReadsObjects ==
    ASSUME IInv, NEW d
    PROVE  ReadAll(d) \subseteq Object
  BY DEF IInv, TypeOK, ReadAll, FileOf, Subdirs, Exists

\* The results are read and packed.
LEMMA OnCompletedIInv ==
    ASSUME IInv, NEW t \in Tasks, NEW failed \in BOOLEAN, OnCompleted(t, failed)
    PROVE  IInv'
PROOF
<1>1. task \in [Tasks -> CxxCompileTask] /\ task[t] \in CxxCompileTask /\ Phases(t)
  BY DEF IInv, TypeOK, TaskInv
<1>2. cache' = cache /\ UNCHANGED <<up, stub, second, disk, compilers, paths, scanned>> /\ up
  BY DEF OnCompleted, At
<1>3. PICK w \in BOOLEAN : w = (MustWrite(t) /\ ~failed)
  BY DEF MustWrite
<1>4. PICK pack : pack = IF task[t].exit_code = 0 THEN ReadAll(task[t].dir) ELSE {}
  OBVIOUS
<1>5. PICK pc \in {"announced", "silent"} : pc = IF failed THEN "silent" ELSE "announced"
  OBVIOUS
<1>6. PICK q : q = [task[t] EXCEPT !.pack = pack, !.writing = w, !.pc = pc]
  OBVIOUS
<1>7. task[t].pc = "completing"
  BY DEF OnCompleted, At
<1>8. task' = [task EXCEPT ![t].pack = pack, ![t].writing = w, ![t].pc = pc]
  BY <1>3, <1>4, <1>5 DEF OnCompleted
<1>9. task' = [task EXCEPT ![t] = q]
  BY <1>1, <1>6, <1>8
<1>10. pack \subseteq Object
  BY <1>4, ReadsObjects
<1>11. q \in CxxCompileTask
  BY <1>1, <1>6, <1>10 DEF CxxCompileTask
<1>12. /\ q.source = task[t].source /\ q.dir = task[t].dir /\ q.path = task[t].path
       /\ q.made = task[t].made /\ q.steady = task[t].steady /\ q.pack = pack
       /\ q.exit_code = task[t].exit_code /\ q.writing = w
       /\ q.pc = pc /\ q.child = task[t].child
  BY <1>1, <1>6 DEF CxxCompileTask
<1>13. task[t].child = "reaped"
  BY <1>1, <1>7 DEF Phases
<1>14. Quiet(t, q)
  BY <1>2, <1>7, <1>9, <1>11, <1>12, <1>13 DEF Quiet
<1>15. /\ task'[t] = q
       /\ Own(t)' <=> Own(t)
       /\ \A o : Mine(o, t)' <=> Mine(o, t)
  BY <1>14, QuietFacts
<1>16. Phases(t)'
  BY <1>1, <1>7, <1>12, <1>13, <1>15 DEF Phases
<1>17. OwnPack(t)'
  <2>1. SUFFICES ASSUME Own(t)
                 PROVE  /\ \A o \in pack : Mine(o, t)
                        /\ task[t].exit_code = 0 => \E o \in Object : pack = {o}
    BY <1>12, <1>15 DEF OwnPack
  <2>2. CASE task[t].exit_code = 0
    BY <1>4, <1>7, <2>1, <2>2, ReadsItsObject
  <2>3. CASE task[t].exit_code # 0
    BY <1>4, <2>3
  <2>4. QED  BY <2>2, <2>3
<1>18. QED
  BY <1>2, <1>14, <1>16, <1>17, QuietIInv, CacheStays

\* The cache entry is stored under the key of what is in it, or is not stored.
LEMMA WriteCacheDataIInv ==
    ASSUME IInv, NEW t \in Tasks, NEW stored \in BOOLEAN, WriteCacheData(t, stored)
    PROVE  IInv'
PROOF
<1>1. task \in [Tasks -> CxxCompileTask] /\ task[t] \in CxxCompileTask /\ Phases(t)
  BY DEF IInv, TypeOK, TaskInv
<1>2. UNCHANGED <<up, stub, second, disk, compilers, paths, scanned>> /\ up
  BY DEF WriteCacheData
<1>3. PICK q : q = [task[t] EXCEPT !.writing = FALSE]
  OBVIOUS
<1>4. task[t].writing
  BY DEF WriteCacheData
<1>5. task' = [task EXCEPT ![t].writing = FALSE]
  BY DEF WriteCacheData
<1>6. task' = [task EXCEPT ![t] = q]
  BY <1>1, <1>3, <1>5
<1>7. q \in CxxCompileTask
  BY <1>1, <1>3 DEF CxxCompileTask
<1>8. /\ q.source = task[t].source /\ q.dir = task[t].dir /\ q.path = task[t].path
      /\ q.made = task[t].made /\ q.steady = task[t].steady /\ q.pack = task[t].pack
      /\ q.exit_code = task[t].exit_code
      /\ q.pc = task[t].pc /\ q.child = task[t].child /\ q.scan = task[t].scan
  BY <1>1, <1>3 DEF CxxCompileTask
<1>9. q.writing = FALSE
  BY <1>1, <1>3 DEF CxxCompileTask
<1>10. task[t].pc # "none"
  BY <1>1, <1>4 DEF Phases
<1>11. Quiet(t, q)
  BY <1>2, <1>6, <1>7, <1>8, <1>10 DEF Quiet
<1>12. task'[t] = q
  BY <1>1, <1>6
<1>13. Phases(t)'
  BY <1>1, <1>8, <1>9, <1>12 DEF Phases
<1>14. OwnPack(t)'
  BY <1>8, <1>11, QuietPack
<1>15. PICK k : k = KeyOf(t)
  OBVIOUS
<1>16. PICK e : e = [pack |-> task[t].pack, alone |-> Alone(t), steady |-> task[t].steady]
  OBVIOUS
<1>17. k \in Key /\ k.source = task[t].source /\ k.args = Request[t].args
       /\ k.digest = Request[t].digest
  BY <1>1, <1>4, <1>15 DEF KeyOf, Key, Phases, AllArgs, CxxCompileTask
<1>18. cache' = IF stored THEN [x \in DOMAIN cache \cup {k} |-> IF x = k THEN e ELSE cache[x]]
                ELSE cache
  BY <1>15, <1>16 DEF WriteCacheData
<1>19. e.alone => \A o \in e.pack : /\ IsObjectOf(o, k.source, k.args)
                                    /\ e.steady => o.compiler = k.digest
  BY <1>10, <1>16, <1>17 DEF IInv, TaskInv, OwnPack, Own, Mine, IsOutputOf
<1>20. DOMAIN cache \subseteq Key /\ CacheHoldsItsKey
  BY DEF IInv, TypeOK
<1>21. DOMAIN cache' \subseteq Key
  BY <1>17, <1>18, <1>20
<1>22. CacheHoldsItsKey'
  BY <1>18, <1>19, <1>20 DEF CacheHoldsItsKey, IsObjectOf
<1>23. QED
  BY <1>11, <1>13, <1>14, <1>21, <1>22, QuietIInv


-----------------------------------------------------------------------------
(***************************************************************************)
(* Steps that work in the task's directory.                                *)
(***************************************************************************)

\* What is on disk once directory d has the files f.
LEMMA DiskWithFacts ==
    ASSUME NEW d, NEW f, disk' = DiskWith(d, f)
    PROVE  /\ OnlyIn(d) /\ DOMAIN disk' = DOMAIN disk \cup {d}
           /\ Subdirs(d)' = DOMAIN f
           /\ \A s \in DOMAIN f : FileOf(d, s)' = f[s]
           /\ disk'[d] = f
PROOF
<1>1. DOMAIN disk' = DOMAIN disk \cup {d}
  BY DEF DiskWith
<1>2. disk'[d] = f /\ \A e \in DOMAIN disk : e # d => disk'[e] = disk[e]
  BY DEF DiskWith
<1>3. Subdirs(d)' = DOMAIN f
  BY <1>1, <1>2 DEF Subdirs, Exists
<1>4. \A s \in DOMAIN f : FileOf(d, s)' = f[s]
  BY <1>2, <1>3 DEF FileOf
<1>5. QED  BY <1>1, <1>2, <1>3, <1>4 DEF OnlyIn

\* It keeps its type when f has it.
LEMMA DiskWithOK ==
    ASSUME TypeOK, NEW d \in Seconds, NEW f, disk' = DiskWith(d, f),
           \A s \in DOMAIN f : s \in Sources /\ f[s] \subseteq Object
    PROVE  DiskOK'
PROOF
<1>1. OnlyIn(d) /\ DOMAIN disk' = DOMAIN disk \cup {d} /\ disk'[d] = f
  BY DiskWithFacts
<1>2. DOMAIN disk' \subseteq Seconds
  BY <1>1 DEF TypeOK
<1>3. \A e \in DOMAIN disk' : \A s \in DOMAIN disk'[e] :
          s \in Sources /\ disk'[e][s] \subseteq Object
  <2>1. SUFFICES ASSUME NEW e \in DOMAIN disk'
                 PROVE  \A s \in DOMAIN disk'[e] :
                            s \in Sources /\ disk'[e][s] \subseteq Object
    OBVIOUS
  <2>2. CASE e = d
    BY <1>1, <2>2
  <2>3. CASE e # d
    <3>1. e \in DOMAIN disk /\ disk'[e] = disk[e]
      BY <1>1, <2>3 DEF OnlyIn
    <3>2. QED  BY <3>1 DEF TypeOK
  <2>4. QED  BY <2>2, <2>3
<1>4. QED  BY <1>2, <1>3 DEF DiskOK

\* What is on disk: sources and objects.
LEMMA FilesAreObjects ==
    ASSUME TypeOK, NEW d
    PROVE  \A s \in Subdirs(d) : s \in Sources /\ FileOf(d, s) \subseteq Object
  BY DEF TypeOK, Subdirs, FileOf, Exists

\* A step of u with the same source, directory and second leaves u as alone
\* as it was.
LEMMA OwnStays ==
    ASSUME TypeOK, NEW u \in Tasks, NEW q, task' = [task EXCEPT ![u] = q],
           task[u].pc # "none", q.pc # "none", q.made = task[u].made
    PROVE  task'[u] = q /\ (Own(u)' <=> Own(u))
PROOF
<1>1. task \in [Tasks -> CxxCompileTask] /\ task'[u] = q
  BY DEF TypeOK
<1>2. \A t \in Tasks : t # u => task'[t] = task[t]
  BY <1>1
<1>3. QED  BY <1>1, <1>2 DEF Own, Alone

\* A task is made: in the directory of its second, which is new when the
\* task is alone.
LEMMA QueueCxxTaskIInv ==
    ASSUME IInv, NEW t \in Tasks, NEW s \in Sources, QueueCxxTask(t, s)
    PROVE  IInv'
PROOF
<1>1. TypeOK /\ task \in [Tasks -> CxxCompileTask] /\ second \in Seconds
  BY DEF IInv, TypeOK
<1>2. /\ UNCHANGED <<second, compilers, paths, scanned>>
      /\ cache' = cache /\ up /\ up' = up /\ stub' = stub /\ task[t].pc = "none"
  BY DEF QueueCxxTask, At
<1>3. PICK q : q = NewTask(s, second)
  OBVIOUS
<1>4. PICK d \in Seconds : d = second
  BY <1>1
<1>5. PICK f : f = [r \in Subdirs(d) |-> FileOf(d, r)]
  OBVIOUS
<1>6. task' = [task EXCEPT ![t] = q] /\ disk' = DiskWith(d, f)
  <2>1. Subdirs(d) \cup {} = Subdirs(d)
    OBVIOUS
  <2>2. QED  BY <1>3, <1>4, <1>5, <2>1 DEF QueueCxxTask, TempDirName, Mkdirs
<1>7. q \in CxxCompileTask
  BY <1>1, <1>3 DEF NewTask, CxxCompileTask, Paths, Failure
<1>8. /\ q.pc = "made" /\ q.dir = d /\ q.made = d /\ q.child = "none" /\ q.scan = "none"
      /\ q.exit_code = 1 /\ q.pack = {} /\ q.writing = FALSE /\ q.source = s
      /\ q.steady = TRUE
  BY <1>3, <1>4 DEF NewTask, Failure
<1>9. /\ OnlyIn(d) /\ DOMAIN disk' = DOMAIN disk \cup {d}
      /\ Subdirs(d)' = DOMAIN f
  BY <1>6, DiskWithFacts
<1>10. Touches(t, q)
  BY <1>2, <1>6, <1>7, <1>8, <1>9 DEF Touches
<1>11. task'[t] = q /\ \A u \in Tasks : u # t => task'[u] = task[u]
  BY <1>1, <1>6
<1>12. q.steady /\ ~q.writing
  BY <1>8
<1>13. Phases(t)'
  BY <1>8, <1>11, <1>12 DEF Phases
<1>14. RightCompiler(t)'
  BY <1>8, <1>11 DEF RightCompiler
<1>15. ObjectThere(t)'
  BY <1>8, <1>11 DEF ObjectThere
<1>16. OwnPack(t)'
  BY <1>8, <1>11 DEF OwnPack
<1>17. Own(t)' => d \notin DOMAIN disk
  <2>1. SUFFICES ASSUME Own(t)', d \in DOMAIN disk
                 PROVE  FALSE
    OBVIOUS
  <2>2. PICK u \in Tasks : task[u].pc # "none" /\ task[u].dir = d
    BY <1>2, <2>1 DEF IInv, DiskOwned
  <2>3. u # t /\ task'[u] = task[u]
    BY <1>2, <1>11, <2>2
  <2>4. task[u].made = d
    BY <2>2 DEF IInv, TaskInv, Phases
  <2>5. QED  BY <2>1, <2>2, <2>3, <2>4, <1>8, <1>11 DEF Own, Alone
<1>18. OwnDirectory(t)'
  <2>1. SUFFICES ASSUME Own(t)'
                 PROVE  Subdirs(d)' = {}
    BY <1>8, <1>11 DEF OwnDirectory
  <2>2. Subdirs(d) = {}
    BY <1>17, <2>1 DEF Subdirs, Exists
  <2>3. QED  BY <1>5, <1>9, <2>2
<1>19. TaskInv(t)'
  BY <1>13, <1>14, <1>15, <1>16, <1>18 DEF TaskInv
<1>20. \A r \in DOMAIN f : r \in Sources /\ f[r] \subseteq Object
  BY <1>1, <1>5, FilesAreObjects
<1>21. DiskOK'
  BY <1>1, <1>6, <1>20, DiskWithOK
<1>22. DOMAIN disk' \subseteq DOMAIN disk \cup {q.dir}
  BY <1>8, <1>9
<1>23. QED
  BY <1>2, <1>10, <1>19, <1>21, <1>22, TouchesIInv, CacheStays


\* A task is prepared: its path is that of the compiler which was asked for
\* when nothing was installed since the rescan.
LEMMA PrepareIInv ==
    ASSUME IInv, NEW t \in Tasks, Prepare(t)
    PROVE  IInv'
PROOF
<1>1. /\ TypeOK /\ task \in [Tasks -> CxxCompileTask] /\ task[t] \in CxxCompileTask
      /\ Phases(t)
  BY DEF IInv, TypeOK, TaskInv
<1>2. /\ UNCHANGED <<second, compilers, paths, scanned>>
      /\ cache' = cache /\ up /\ up' = up /\ stub' = stub /\ task[t].pc = "made"
      /\ Request[t].digest \in DOMAIN paths
  BY DEF Prepare, At
<1>3. PICK scan \in {"none", "running"} : scan = PrepareCache(t)
  BY DEF PrepareCache
<1>4. PICK path \in Paths : path = paths[Request[t].digest]
  BY <1>1, <1>2 DEF TypeOK
<1>5. PICK steady \in BOOLEAN : steady = (compilers = scanned)
  OBVIOUS
<1>6. PICK q : q = [task[t] EXCEPT !.pc = "prepared", !.path = path, !.scan = scan,
                                   !.steady = steady]
  OBVIOUS
<1>7. task' = [task EXCEPT ![t].pc = "prepared", ![t].path = path, ![t].scan = scan,
                           ![t].steady = steady]
  BY <1>3, <1>4, <1>5 DEF Prepare
<1>8. task' = [task EXCEPT ![t] = q]
  BY <1>1, <1>6, <1>7
<1>9. PICK d \in Seconds : d = task[t].dir
  BY <1>1 DEF CxxCompileTask
<1>10. PICK s \in Sources : s = task[t].source
  BY <1>1 DEF CxxCompileTask
<1>11. PICK f : f = [r \in Subdirs(d) \cup {s} |-> FileOf(d, r)]
  OBVIOUS
<1>12. disk' = DiskWith(d, f)
  BY <1>9, <1>10, <1>11 DEF Prepare, Mkdirs
<1>13. q \in CxxCompileTask
  BY <1>1, <1>6 DEF CxxCompileTask
<1>14. /\ q.pc = "prepared" /\ q.dir = d /\ q.source = s /\ q.made = task[t].made
       /\ q.child = task[t].child /\ q.path = path /\ q.pack = task[t].pack
       /\ q.exit_code = task[t].exit_code
  BY <1>1, <1>6, <1>9, <1>10 DEF CxxCompileTask
<1>15. q.writing = task[t].writing /\ q.steady = steady
  BY <1>1, <1>6 DEF CxxCompileTask
<1>16. task[t].dir = task[t].made /\ task[t].steady /\ task[t].child = "none"
       /\ task[t].pack = {} /\ ~task[t].writing /\ task[t].exit_code # 0
  BY <1>1, <1>2 DEF Phases
<1>17. /\ OnlyIn(d) /\ DOMAIN disk' = DOMAIN disk \cup {d}
       /\ Subdirs(d)' = DOMAIN f
       /\ \A r \in DOMAIN f : FileOf(d, r)' = f[r]
  BY <1>12, DiskWithFacts
<1>18. Touches(t, q)
  BY <1>2, <1>8, <1>9, <1>10, <1>13, <1>14, <1>16, <1>17 DEF Touches
<1>19. task'[t] = q /\ (Own(t)' <=> Own(t))
  BY <1>1, <1>2, <1>8, <1>14, OwnStays
<1>20. Request[t].digest \in Digests
  BY <1>1, <1>2 DEF TypeOK
<1>21. Phases(t)'
  BY <1>9, <1>14, <1>15, <1>16, <1>19, <1>20 DEF Phases
<1>22. RightCompiler(t)'
  <2>1. SUFFICES ASSUME steady
                 PROVE  compilers[path] = Request[t].digest
    BY <1>2, <1>14, <1>15, <1>19 DEF RightCompiler
  <2>2. scanned[path] = Request[t].digest
    BY <1>2, <1>4 DEF IInv, Registered
  <2>3. QED  BY <2>1, <2>2, <1>5
<1>23. ObjectThere(t)'
  BY <1>14, <1>16, <1>19 DEF ObjectThere
<1>24. OwnPack(t)'
  BY <1>14, <1>16, <1>19 DEF OwnPack
<1>25. ASSUME NEW o, Mine(o, t)
       PROVE  Mine(o, t)'
  BY <1>10, <1>14, <1>16, <1>19, <1>25 DEF Mine, IsOutputOf, IsObjectOf
<1>26. OwnDirectory(t)'
  <2>1. SUFFICES ASSUME Own(t), NEW r \in DOMAIN f
                 PROVE  r = s /\ \A o \in f[r] : Mine(o, t)'
    BY <1>14, <1>17, <1>19 DEF OwnDirectory
  <2>2. \A x \in Subdirs(d) : x = s /\ \A o \in FileOf(d, x) : Mine(o, t)
    BY <1>9, <1>10, <2>1 DEF IInv, TaskInv, OwnDirectory
  <2>3. r = s /\ f[r] = FileOf(d, r)
    BY <1>11, <2>2
  <2>4. \A o \in FileOf(d, r) : Mine(o, t)
    BY <2>2 DEF FileOf
  <2>5. QED  BY <2>3, <2>4, <1>25
<1>27. TaskInv(t)'
  BY <1>21, <1>22, <1>23, <1>24, <1>26 DEF TaskInv
<1>28. \A r \in DOMAIN f : r \in Sources /\ f[r] \subseteq Object
  <2>1. \A r \in Subdirs(d) : r \in Sources /\ FileOf(d, r) \subseteq Object
    BY <1>1, FilesAreObjects
  <2>2. QED  BY <1>11, <2>1 DEF FileOf
<1>29. DiskOK'
  BY <1>1, <1>12, <1>28, DiskWithOK
<1>30. DOMAIN disk' \subseteq DOMAIN disk \cup {q.dir}
  BY <1>14, <1>17
<1>31. QED
  BY <1>2, <1>18, <1>27, <1>29, <1>30, TouchesIInv, CacheStays

\* The compiler writes its object.
LEMMA CompilesIInv ==
    ASSUME IInv, NEW t \in Tasks, Compiles(t)
    PROVE  IInv'
PROOF
<1>1. /\ TypeOK /\ task \in [Tasks -> CxxCompileTask] /\ task[t] \in CxxCompileTask
      /\ Phases(t)
  BY DEF IInv, TypeOK, TaskInv
<1>2. /\ UNCHANGED <<second, compilers, paths, scanned>>
      /\ cache' = cache /\ up /\ up' = up /\ stub' = stub /\ task[t].child = "alive"
  BY DEF Compiles
<1>3. PICK d \in Seconds : d = task[t].dir
  BY <1>1 DEF CxxCompileTask
<1>4. PICK s \in Sources : s = task[t].source
  BY <1>1 DEF CxxCompileTask
<1>5. PICK p \in Paths : p = task[t].path
  BY <1>1 DEF CxxCompileTask
<1>6. PICK o : o = [source |-> s, args |-> Request[t].args, compiler |-> compilers[p],
                    time |-> IF UsesTime(s, Request[t].args) THEN second ELSE NoTime]
  OBVIOUS
<1>7. o \in Object
  BY <1>1, <1>6 DEF Object, AllArgs, TypeOK
<1>8. PICK f : f = [disk[d] EXCEPT ![s] = {o}]
  OBVIOUS
<1>9. s \in Subdirs(d) /\ disk' = DiskWith(d, f)
  BY <1>3, <1>4, <1>5, <1>6, <1>8 DEF Compiles
<1>10. PICK q : q = [task[t] EXCEPT !.child = "dead", !.exit_code = 0]
  OBVIOUS
<1>11. task' = [task EXCEPT ![t].child = "dead", ![t].exit_code = 0]
  BY DEF Compiles
<1>12. task' = [task EXCEPT ![t] = q]
  BY <1>1, <1>10, <1>11
<1>13. q \in CxxCompileTask
  BY <1>1, <1>10 DEF CxxCompileTask
<1>14. /\ q.pc = task[t].pc /\ q.dir = d /\ q.source = s /\ q.made = task[t].made
       /\ q.child = "dead" /\ q.pack = task[t].pack /\ q.exit_code = 0
       /\ q.scan = task[t].scan
  BY <1>1, <1>3, <1>4, <1>10 DEF CxxCompileTask
<1>15. q.writing = task[t].writing /\ q.steady = task[t].steady
  BY <1>1, <1>10 DEF CxxCompileTask
<1>16. task[t].pc \notin {"none", "made", "prepared", "completing", "announced", "silent"}
  BY <1>1, <1>2 DEF Phases
<1>17. task[t].dir = task[t].made
  BY <1>1, <1>16 DEF Phases
<1>18. /\ OnlyIn(d) /\ DOMAIN disk' = DOMAIN disk \cup {d}
       /\ Subdirs(d)' = DOMAIN f
       /\ \A r \in DOMAIN f : FileOf(d, r)' = f[r]
  BY <1>9, DiskWithFacts
<1>19. Touches(t, q)
  BY <1>2, <1>3, <1>4, <1>12, <1>13, <1>14, <1>16, <1>17, <1>18 DEF Touches
<1>20. task'[t] = q /\ (Own(t)' <=> Own(t))
  BY <1>1, <1>12, <1>14, <1>16, OwnStays
<1>21. Phases(t)'
  BY <1>1, <1>3, <1>14, <1>15, <1>16, <1>17, <1>20 DEF Phases
<1>22. RightCompiler(t)'
  BY <1>14, <1>16, <1>20 DEF RightCompiler
<1>23. Subdirs(d) = DOMAIN disk[d]
  BY <1>9 DEF Subdirs
<1>24. s \in DOMAIN f /\ DOMAIN f = Subdirs(d) /\ f[s] = {o}
  BY <1>8, <1>9, <1>23
<1>25. FileOf(task[t].dir, task[t].source)' = {o}
  BY <1>14, <1>18, <1>20, <1>24
<1>26. ObjectThere(t)'
  BY <1>7, <1>25 DEF ObjectThere
<1>27. \A x : Mine(x, t)' <=> Mine(x, t)
  BY <1>4, <1>14, <1>15, <1>20 DEF Mine, IsOutputOf, IsObjectOf
<1>28. OwnPack(t)'
  BY <1>14, <1>16, <1>20, <1>27 DEF OwnPack, IInv, TaskInv
<1>29. Mine(o, t)
  <2>1. /\ o.source = s /\ o.args = Request[t].args /\ o.compiler = compilers[p]
        /\ o.time # NoTime => UsesTime(s, Request[t].args)
    BY <1>6
  <2>2. task[t].steady => compilers[p] = Request[t].digest
    BY <1>2, <1>5 DEF IInv, TaskInv, RightCompiler
  <2>3. QED  BY <1>4, <2>1, <2>2 DEF Mine, IsOutputOf, IsObjectOf
<1>30. OwnDirectory(t)'
  <2>1. SUFFICES ASSUME Own(t), NEW r \in DOMAIN f
                 PROVE  r = s /\ \A x \in f[r] : Mine(x, t)
    BY <1>14, <1>18, <1>20, <1>27 DEF OwnDirectory
  <2>2. r = s
    BY <1>3, <1>4, <1>24, <2>1 DEF IInv, TaskInv, OwnDirectory
  <2>3. QED  BY <2>2, <1>24, <1>29
<1>31. TaskInv(t)'
  BY <1>21, <1>22, <1>26, <1>28, <1>30 DEF TaskInv
<1>32. \A r \in DOMAIN f : r \in Sources /\ f[r] \subseteq Object
  <2>1. \A r \in Subdirs(d) : r \in Sources /\ FileOf(d, r) \subseteq Object
    BY <1>1, FilesAreObjects
  <2>2. \A r \in DOMAIN f : r # s => f[r] = FileOf(d, r)
    BY <1>8, <1>23, <1>24 DEF FileOf
  <2>3. QED  BY <1>7, <1>24, <2>1, <2>2
<1>33. DiskOK'
  BY <1>1, <1>9, <1>32, DiskWithOK
<1>34. DOMAIN disk' \subseteq DOMAIN disk \cup {q.dir}
  BY <1>14, <1>18
<1>35. QED
  BY <1>2, <1>19, <1>31, <1>33, <1>34, TouchesIInv, CacheStays


\* Task u ends: files of its directory go, and none comes.
Ends(u, q) ==
    /\ Touches(u, q)
    /\ task[u].pc \in {"destroying", "clearing"} /\ q.pc \in {"clearing", "gone"}
    /\ q.child = task[u].child /\ q.exit_code = task[u].exit_code
    /\ q.writing = task[u].writing /\ q.steady = task[u].steady
    /\ q.child = "alive" => q.path = task[u].path
    /\ q.pack \subseteq task[u].pack
    /\ DOMAIN disk' \subseteq DOMAIN disk
    /\ \A s \in Subdirs(q.dir)' : /\ s \in Subdirs(q.dir)
                                  /\ FileOf(q.dir, s)' \subseteq FileOf(q.dir, s)
    /\ UNCHANGED <<second, paths, scanned, cache>>

\* Which keeps the invariant.
LEMMA EndsIInv ==
    ASSUME IInv, NEW u \in Tasks, NEW q, Ends(u, q)
    PROVE  IInv'
PROOF
<1>1. /\ TypeOK /\ task \in [Tasks -> CxxCompileTask] /\ task[u] \in CxxCompileTask
      /\ Phases(u)
  BY DEF IInv, TypeOK, TaskInv
<1>2. Touches(u, q) /\ UNCHANGED <<second, paths, scanned>> /\ cache' = cache
  BY DEF Ends
<1>3. task[u].pc # "none" /\ q.pc # "none" /\ q.made = task[u].made
      /\ q.dir = task[u].dir /\ q.source = task[u].source /\ q.dir = q.made
  BY <1>1, <1>2 DEF Ends, Touches, Phases
<1>4. task'[u] = q /\ (Own(u)' <=> Own(u))
  BY <1>1, <1>2, <1>3, OwnStays DEF Touches
<1>5. Phases(u)'
  BY <1>1, <1>3, <1>4 DEF Ends, Phases
<1>6. RightCompiler(u)'
  BY <1>2, <1>4 DEF Ends, Touches, RightCompiler, IInv, TaskInv
<1>7. \A o : Mine(o, u)' <=> Mine(o, u)
  BY <1>3, <1>4 DEF Ends, Mine, IsOutputOf, IsObjectOf
<1>8. ObjectThere(u)'
  BY <1>4 DEF Ends, ObjectThere
<1>9. OwnPack(u)'
  BY <1>4, <1>7 DEF Ends, OwnPack, IInv, TaskInv
<1>10. PICK d : d = q.dir
  OBVIOUS
<1>11. \A s \in Subdirs(d)' : /\ s \in Subdirs(d)
                              /\ FileOf(d, s)' \subseteq FileOf(d, s)
  BY <1>10 DEF Ends
<1>12. OwnDirectory(u)'
  <2>1. SUFFICES ASSUME Own(u), NEW s \in Subdirs(d)'
                 PROVE  s = q.source /\ \A o \in FileOf(d, s)' : Mine(o, u)
    BY <1>4, <1>7, <1>10 DEF OwnDirectory
  <2>2. s \in Subdirs(d) /\ FileOf(d, s)' \subseteq FileOf(d, s)
    BY <1>11
  <2>3. QED  BY <1>3, <1>10, <2>1, <2>2 DEF OwnDirectory, IInv, TaskInv
<1>13. TaskInv(u)'
  BY <1>5, <1>6, <1>8, <1>9, <1>12 DEF TaskInv
<1>14. DOMAIN disk' \subseteq DOMAIN disk
  BY DEF Ends
<1>15. DiskOK'
  <2>1. SUFFICES ASSUME NEW e \in DOMAIN disk', NEW s \in DOMAIN disk'[e]
                 PROVE  s \in Sources /\ disk'[e][s] \subseteq Object
    BY <1>1, <1>14 DEF DiskOK, TypeOK
  <2>2. CASE e = d
    <3>1. s \in Subdirs(d)' /\ FileOf(d, s)' = disk'[e][s]
      BY <2>1, <2>2 DEF Subdirs, FileOf, Exists
    <3>2. QED  BY <1>1, <1>11, <3>1, FilesAreObjects
  <2>3. CASE e # d
    <3>1. e \in DOMAIN disk /\ disk'[e] = disk[e]
      BY <1>2, <1>10, <2>1, <2>3 DEF Touches, OnlyIn
    <3>2. QED  BY <1>1, <2>1, <3>1 DEF TypeOK
  <2>4. QED  BY <2>2, <2>3
<1>16. QED
  BY <1>2, <1>13, <1>14, <1>15, TouchesIInv, CacheStays

\* ~TempDir unlinks the files ...
LEMMA ClearIInv ==
    ASSUME IInv, NEW t \in Tasks, Clear(t)
    PROVE  IInv'
PROOF
<1>1. /\ TypeOK /\ task \in [Tasks -> CxxCompileTask] /\ task[t] \in CxxCompileTask
      /\ Phases(t)
  BY DEF IInv, TypeOK, TaskInv
<1>2. /\ UNCHANGED <<second, paths, scanned, cache>> /\ compilers' = compilers
      /\ up /\ up' = up /\ stub' = stub /\ task[t].pc = "destroying"
  BY DEF Clear, At
<1>3. PICK d : d = task[t].dir
  OBVIOUS
<1>4. PICK f : f = [s \in Subdirs(d) |-> {}]
  OBVIOUS
<1>5. PICK q : q = [task[t] EXCEPT !.pc = "clearing"]
  OBVIOUS
<1>6. task' = [task EXCEPT ![t] = q] /\ disk' = DiskWith(d, f) /\ d \in DOMAIN disk
  BY <1>1, <1>3, <1>4, <1>5 DEF Clear, Exists
<1>7. q \in CxxCompileTask
  BY <1>1, <1>5 DEF CxxCompileTask
<1>8. /\ q.pc = "clearing" /\ q.dir = d /\ q.source = task[t].source
      /\ q.made = task[t].made /\ q.child = task[t].child /\ q.pack = task[t].pack
      /\ q.exit_code = task[t].exit_code /\ q.path = task[t].path
  BY <1>1, <1>3, <1>5 DEF CxxCompileTask
<1>9. q.writing = task[t].writing /\ q.steady = task[t].steady
  BY <1>1, <1>5 DEF CxxCompileTask
<1>10. /\ OnlyIn(d) /\ DOMAIN disk' = DOMAIN disk \cup {d}
       /\ Subdirs(d)' = DOMAIN f
       /\ \A r \in DOMAIN f : FileOf(d, r)' = f[r]
  BY <1>6, DiskWithFacts
<1>11. Touches(t, q)
  BY <1>1, <1>2, <1>3, <1>6, <1>7, <1>8, <1>10 DEF Touches, Phases
<1>12. \A s \in Subdirs(d)' : s \in Subdirs(d) /\ FileOf(d, s)' \subseteq FileOf(d, s)
  BY <1>4, <1>10
<1>13. Ends(t, q)
  BY <1>2, <1>6, <1>8, <1>9, <1>10, <1>11, <1>12 DEF Ends
<1>14. QED  BY <1>13, EndsIInv

\* ... and removes what is empty.
LEMMA RemoveDirIInv ==
    ASSUME IInv, NEW t \in Tasks, RemoveDir(t)
    PROVE  IInv'
PROOF
<1>1. /\ TypeOK /\ task \in [Tasks -> CxxCompileTask] /\ task[t] \in CxxCompileTask
      /\ Phases(t)
  BY DEF IInv, TypeOK, TaskInv
<1>2. /\ UNCHANGED <<second, paths, scanned, cache>> /\ compilers' = compilers
      /\ up /\ up' = up /\ stub' = stub /\ task[t].pc = "clearing"
  BY DEF RemoveDir, At
<1>3. PICK d : d = task[t].dir
  OBVIOUS
<1>4. PICK left : left = {s \in Subdirs(d) : FileOf(d, s) # {}}
  OBVIOUS
<1>5. PICK path \in Paths : path = IF task[t].child = "alive" THEN task[t].path ELSE 1
  BY <1>1 DEF CxxCompileTask, Paths
<1>6. PICK pack : pack = IF task[t].writing THEN task[t].pack ELSE {}
  OBVIOUS
<1>7. PICK q : q = [task[t] EXCEPT !.pc = "gone", !.path = path, !.pack = pack]
  OBVIOUS
<1>8. task' = [task EXCEPT ![t].pc = "gone", ![t].path = path, ![t].pack = pack]
  <2>1. task' = [task EXCEPT ![t].pc = "gone",
                             ![t].path = IF task[t].child = "alive" THEN @ ELSE 1,
                             ![t].pack = IF task[t].writing THEN @ ELSE {}]
    BY DEF RemoveDir
  <2>2. QED  BY <1>1, <1>5, <1>6, <2>1 DEF CxxCompileTask
<1>9. task' = [task EXCEPT ![t] = q]
  BY <1>1, <1>7, <1>8
<1>10. disk' = IF left = {} THEN [e \in DOMAIN disk \ {d} |-> disk[e]]
               ELSE DiskWith(d, [s \in left |-> FileOf(d, s)])
  BY <1>3, <1>4 DEF RemoveDir
<1>11. pack \subseteq task[t].pack
  BY <1>6
<1>12. q \in CxxCompileTask
  BY <1>1, <1>7, <1>11 DEF CxxCompileTask
<1>13. /\ q.pc = "gone" /\ q.dir = d /\ q.source = task[t].source
       /\ q.made = task[t].made /\ q.child = task[t].child /\ q.pack = pack
       /\ q.exit_code = task[t].exit_code /\ q.path = path
  BY <1>1, <1>3, <1>7 DEF CxxCompileTask
<1>14. q.writing = task[t].writing /\ q.steady = task[t].steady
  BY <1>1, <1>7 DEF CxxCompileTask
<1>15. /\ OnlyIn(d) /\ DOMAIN disk' \subseteq DOMAIN disk
       /\ \A s \in Subdirs(d)' : s \in Subdirs(d) /\ FileOf(d, s)' \subseteq FileOf(d, s)
  <2>1. CASE left = {}
    <3>1. disk' = [e \in DOMAIN disk \ {d} |-> disk[e]]
      BY <1>10, <2>1
    <3>2. Subdirs(d)' = {}
      BY <3>1 DEF Subdirs, Exists
    <3>3. QED  BY <3>1, <3>2 DEF OnlyIn
  <2>2. CASE left # {}
    <3>1. PICK f : f = [s \in left |-> FileOf(d, s)]
      OBVIOUS
    <3>2. disk' = DiskWith(d, f)
      BY <1>10, <2>2, <3>1
    <3>3. /\ OnlyIn(d) /\ DOMAIN disk' = DOMAIN disk \cup {d}
          /\ Subdirs(d)' = DOMAIN f
          /\ \A r \in DOMAIN f : FileOf(d, r)' = f[r]
      BY <3>2, DiskWithFacts
    <3>4. d \in DOMAIN disk
      BY <1>4, <2>2 DEF Subdirs, Exists
    <3>5. QED  BY <1>4, <3>1, <3>3, <3>4
  <2>3. QED  BY <2>1, <2>2
<1>16. Touches(t, q)
  BY <1>1, <1>2, <1>3, <1>9, <1>12, <1>13, <1>15 DEF Touches, Phases
<1>17. Ends(t, q)
  BY <1>2, <1>5, <1>11, <1>13, <1>14, <1>15, <1>16 DEF Ends
<1>18. QED  BY <1>17, EndsIInv


-----------------------------------------------------------------------------
(***************************************************************************)
(* The other steps.                                                        *)
(***************************************************************************)

\* Every digest is registered with a path whose compiler has it.
LEMMA AddEnvToFacts ==
    ASSUME compilers \in [Paths -> Digests]
    PROVE  /\ DOMAIN AddEnvTo \subseteq Digests
           /\ \A d \in DOMAIN AddEnvTo : AddEnvTo[d] \in Paths /\ compilers[AddEnvTo[d]] = d
PROOF
<1>1. compilers \in [Paths -> Digests]
  OBVIOUS
<1>2. DOMAIN AddEnvTo = {compilers[p] : p \in Paths}
  BY DEF AddEnvTo
<1>3. ASSUME NEW d \in {compilers[p] : p \in Paths}
      PROVE  AddEnvTo[d] \in Paths /\ compilers[AddEnvTo[d]] = d
  <2>1. \E p \in Paths : /\ compilers[p] = d
                         /\ \A q \in Paths : compilers[q] = d => p <= q
    <3>1. CASE compilers[1] = d
      BY <3>1 DEF Paths
    <3>2. CASE compilers[1] # d
      <4>1. PICK p \in Paths : compilers[p] = d
        OBVIOUS
      <4>2. p = 2
        BY <3>2, <4>1 DEF Paths
      <4>3. \A q \in Paths : compilers[q] = d => q = 2
        BY <3>2 DEF Paths
      <4>4. QED  BY <4>1, <4>2, <4>3
    <3>3. QED  BY <3>1, <3>2
  <2>2. AddEnvTo[d] = CHOOSE p \in Paths : /\ compilers[p] = d
                                           /\ \A q \in Paths : compilers[q] = d => p <= q
    BY DEF AddEnvTo
  <2>3. QED  BY <2>1, <2>2
<1>4. QED  BY <1>1, <1>2, <1>3

\* A step that leaves the tasks, the disk and the compilers alone leaves each
\* task's part of the invariant.
LEMMA TasksStay ==
    ASSUME UNCHANGED <<task, disk, compilers>>, NEW t \in Tasks, TaskInv(t)
    PROVE  TaskInv(t)'
PROOF
<1>1. /\ Phases(t)' = Phases(t) /\ RightCompiler(t)' = RightCompiler(t)
  BY DEF Phases, RightCompiler
<1>2. Own(t)' = Own(t) /\ \A o : Mine(o, t)' = Mine(o, t)
  BY DEF Own, Alone, Mine, IsOutputOf, IsObjectOf
<1>3. \A d, s : Subdirs(d)' = Subdirs(d) /\ FileOf(d, s)' = FileOf(d, s)
  BY DEF Subdirs, FileOf, Exists
<1>4. OwnDirectory(t)'
  BY <1>2, <1>3 DEF OwnDirectory, TaskInv
<1>5. ObjectThere(t)' /\ OwnPack(t)'
  BY <1>2, <1>3 DEF ObjectThere, OwnPack, TaskInv
<1>6. QED  BY <1>1, <1>4, <1>5 DEF TaskInv

\* The compilers are scanned again.
LEMMA OnTimerRescanIInv ==
    ASSUME IInv, OnTimerRescan
    PROVE  IInv'
PROOF
<1>1. /\ up' = up /\ stub' = stub /\ second' = second /\ task' = task /\ disk' = disk
      /\ compilers' = compilers /\ cache' = cache
      /\ paths' = AddEnvTo /\ scanned' = compilers
  BY DEF OnTimerRescan
<1>2. TypeOK
  BY DEF IInv
<1>3. /\ DOMAIN paths' \subseteq Digests
      /\ \A d \in DOMAIN paths' : paths'[d] \in Paths /\ scanned'[paths'[d]] = d
  BY <1>1, <1>2, AddEnvToFacts DEF TypeOK
<1>4. TypeOK'
  BY <1>1, <1>2, <1>3 DEF TypeOK
<1>5. \A t \in Tasks : TaskInv(t)'
  BY <1>1, TasksStay DEF IInv
<1>6. DiskOwned'
  BY <1>1 DEF DiskOwned, IInv
<1>7. Registered' /\ (~up => \A t \in Tasks : task[t].pc = "none")'
  BY <1>1, <1>3 DEF Registered, IInv
<1>8. QED  BY <1>1, <1>4, <1>5, <1>6, <1>7, CacheStays DEF IInv

\* A second passes.
LEMMA TickIInv ==
    ASSUME IInv, Tick
    PROVE  IInv'
PROOF
<1>1. /\ up' = up /\ stub' = stub /\ second < MaxSecond /\ second' = second + 1 /\ task' = task
      /\ disk' = disk /\ compilers' = compilers /\ cache' = cache
      /\ paths' = paths /\ scanned' = scanned
  BY DEF Tick
<1>2. TypeOK
  BY DEF IInv
<1>3. second' \in Seconds
  BY <1>1, <1>2, BoundsAssumption DEF TypeOK, Seconds
<1>4. TypeOK'
  BY <1>1, <1>2, <1>3 DEF TypeOK
<1>5. \A t \in Tasks : TaskInv(t)'
  BY <1>1, TasksStay DEF IInv
<1>6. DiskOwned'
  BY <1>1 DEF DiskOwned, IInv
<1>7. Registered' /\ (~up => \A t \in Tasks : task[t].pc = "none")'
  BY <1>1 DEF Registered, IInv
<1>8. QED  BY <1>1, <1>4, <1>5, <1>6, <1>7, CacheStays DEF IInv

\* A compiler is replaced: tasks that have its path and have not compiled are
\* no longer steady.
LEMMA InstallCompilerIInv ==
    ASSUME IInv, NEW p \in Paths, InstallCompiler(p)
    PROVE  IInv'
PROOF
<1>1. TypeOK /\ task \in [Tasks -> CxxCompileTask] /\ compilers \in [Paths -> Digests]
  BY DEF IInv, TypeOK
<1>2. /\ up' = up /\ stub' = stub /\ second' = second /\ disk' = disk
      /\ paths' = paths /\ scanned' = scanned /\ cache' = cache
  BY DEF InstallCompiler
<1>3. compilers' = [compilers EXCEPT ![p] = @ + 1] /\ compilers[p] < MaxVersion
  BY DEF InstallCompiler
<1>4. compilers' \in [Paths -> Digests]
  BY <1>1, <1>3, BoundsAssumption DEF Digests
<1>5. task' = [t \in Tasks |-> [task[t] EXCEPT !.steady =
                    @ /\ task[t].pc # "prepared" /\ task[t].child # "alive"]]
  BY DEF InstallCompiler
<1>6. ASSUME NEW t \in Tasks
      PROVE  /\ task'[t] \in CxxCompileTask
             /\ task'[t].pc = task[t].pc /\ task'[t].source = task[t].source
             /\ task'[t].dir = task[t].dir /\ task'[t].made = task[t].made
             /\ task'[t].child = task[t].child /\ task'[t].pack = task[t].pack
             /\ task'[t].exit_code = task[t].exit_code /\ task'[t].scan = task[t].scan
             /\ task'[t].writing = task[t].writing
             /\ task'[t].steady = (/\ task[t].steady
                                   /\ task[t].pc # "prepared" /\ task[t].child # "alive")
  <2>1. task[t] \in CxxCompileTask
    BY <1>1
  <2>2. PICK b \in BOOLEAN : b = (/\ task[t].steady
                                  /\ task[t].pc # "prepared" /\ task[t].child # "alive")
    OBVIOUS
  <2>3. task'[t] = [task[t] EXCEPT !.steady = b]
    BY <1>5, <2>1, <2>2 DEF CxxCompileTask
  <2>4. QED  BY <2>1, <2>2, <2>3 DEF CxxCompileTask
<1>7. task' \in [Tasks -> CxxCompileTask]
  BY <1>5, <1>6
<1>8. TypeOK'
  BY <1>1, <1>2, <1>4, <1>7 DEF TypeOK
<1>9. ASSUME NEW t \in Tasks
      PROVE  TaskInv(t)'
  <2>1. TaskInv(t)
    BY DEF IInv
  <2>2. Own(t)' <=> Own(t)
    BY <1>6 DEF Own, Alone
  <2>3. \A o : Mine(o, t) => Mine(o, t)'
    BY <1>6 DEF Mine, IsOutputOf, IsObjectOf
  <2>4. \A d, s : Subdirs(d)' = Subdirs(d) /\ FileOf(d, s)' = FileOf(d, s)
    BY <1>2 DEF Subdirs, FileOf, Exists
  <2>5. task[t].pc = "made" => task'[t].steady
    BY <1>6, <2>1 DEF TaskInv, Phases
  <2>6. Phases(t)'
    BY <1>6, <2>1, <2>5 DEF TaskInv, Phases
  <2>7. RightCompiler(t)'
    BY <1>6 DEF RightCompiler
  <2>8. OwnDirectory(t)'
    BY <1>6, <2>1, <2>2, <2>3, <2>4 DEF TaskInv, OwnDirectory
  <2>9. ObjectThere(t)'
    BY <1>6, <2>1, <2>2, <2>4 DEF TaskInv, ObjectThere
  <2>10. OwnPack(t)'
    BY <1>6, <2>1, <2>2, <2>3 DEF TaskInv, OwnPack
  <2>11. QED  BY <2>6, <2>7, <2>8, <2>9, <2>10 DEF TaskInv
<1>10. DiskOwned'
  <2>1. SUFFICES ASSUME up, NEW d \in DOMAIN disk
                 PROVE  \E t \in Tasks : task'[t].pc # "none" /\ task'[t].dir = d
    BY <1>2 DEF DiskOwned
  <2>2. PICK t \in Tasks : task[t].pc # "none" /\ task[t].dir = d
    BY <2>1 DEF DiskOwned, IInv
  <2>3. task'[t].pc = task[t].pc /\ task'[t].dir = task[t].dir
    BY <1>6, Zenon
  <2>4. QED  BY <2>2, <2>3
<1>11. Registered' /\ (~up => \A t \in Tasks : task[t].pc = "none")'
  BY <1>2, <1>6 DEF Registered, IInv
<1>12. QED  BY <1>2, <1>8, <1>9, <1>10, <1>11, CacheStays DEF IInv

\* A task object that does not exist.
LEMMA NoTaskFacts ==
    ASSUME second \in Seconds
    PROVE  /\ NoTask \in CxxCompileTask
           /\ NoTask.pc = "none" /\ NoTask.child = "none" /\ NoTask.scan = "none"
           /\ NoTask.exit_code = 1 /\ NoTask.pack = {} /\ NoTask.writing = FALSE
PROOF
<1>1. PICK n : n = NewTask(EmptySource, 0)
  OBVIOUS
<1>2. NoTask = [n EXCEPT !.pc = "none"]
  BY <1>1 DEF NoTask
<1>3. EmptySource \in Sources /\ 0 \in Seconds
  BY BoundsAssumption DEF Sources, Seconds
<1>4. n \in CxxCompileTask
  BY <1>1, <1>3 DEF NewTask, CxxCompileTask, Paths, Failure
<1>5. /\ n.child = "none" /\ n.scan = "none" /\ n.exit_code = 1 /\ n.pack = {}
      /\ n.writing = FALSE
  BY <1>1 DEF NewTask, Failure
<1>6. NoTask \in CxxCompileTask /\ NoTask.pc = "none"
  BY <1>2, <1>4 DEF CxxCompileTask
<1>7. /\ NoTask.child = "none" /\ NoTask.scan = "none" /\ NoTask.exit_code = 1
      /\ NoTask.pack = {}
  BY <1>2, <1>4, <1>5 DEF CxxCompileTask
<1>8. NoTask.writing = n.writing
  BY <1>2, <1>4 DEF CxxCompileTask
<1>9. QED  BY <1>5, <1>6, <1>7, <1>8

\* It has nothing to keep.
LEMMA NoTaskInv ==
    ASSUME NEW t \in Tasks, task[t].pc = "none", task[t].child = "none",
           task[t].scan = "none", task[t].exit_code = 1, task[t].pack = {},
           ~task[t].writing
    PROVE  TaskInv(t)
  BY DEF TaskInv, Phases, RightCompiler, OwnDirectory, ObjectThere, OwnPack, Own

\* The process dies.
LEMMA CrashIInv ==
    ASSUME IInv, Crash
    PROVE  IInv'
PROOF
<1>1. /\ up' = FALSE /\ stub' = stub /\ second' = second /\ disk' = disk /\ compilers' = compilers
      /\ scanned' = scanned /\ cache' = cache /\ paths' = << >>
      /\ task' = [t \in Tasks |-> NoTask]
  BY DEF Crash
<1>2. TypeOK /\ second \in Seconds
  BY DEF IInv, TypeOK
<1>3. PICK q : q = NoTask
  OBVIOUS
<1>4. /\ q \in CxxCompileTask
      /\ q.pc = "none" /\ q.child = "none" /\ q.scan = "none"
      /\ q.exit_code = 1 /\ q.pack = {} /\ q.writing = FALSE
  BY <1>2, <1>3, NoTaskFacts
<1>5. \A t \in Tasks : task'[t] = q
  BY <1>1, <1>3
<1>6. task' \in [Tasks -> CxxCompileTask]
  BY <1>1, <1>3, <1>4
<1>7. TypeOK'
  <2>1. DOMAIN paths' = {}
    BY <1>1
  <2>2. up' \in BOOLEAN
    BY <1>1
  <2>3. QED  BY <1>1, <1>2, <1>6, <2>1, <2>2 DEF TypeOK
<1>8. ASSUME NEW t \in Tasks
      PROVE  TaskInv(t)'
  <2>1. /\ task'[t].pc = "none" /\ task'[t].child = "none" /\ task'[t].scan = "none"
        /\ task'[t].exit_code = 1 /\ task'[t].pack = {} /\ ~task'[t].writing
    BY <1>4, <1>5
  <2>2. QED
    BY <2>1 DEF TaskInv, Phases, RightCompiler, OwnDirectory, ObjectThere, OwnPack, Own
<1>9. DiskOwned' /\ Registered' /\ (~up => \A t \in Tasks : task[t].pc = "none")'
  BY <1>1, <1>4, <1>5 DEF DiskOwned, Registered
<1>10. QED  BY <1>1, <1>7, <1>8, <1>9, CacheStays DEF IInv

\* The daemon starts with no task.
LEMMA InitIInv == Init => IInv
PROOF
<1>1. SUFFICES ASSUME Init PROVE IInv
  OBVIOUS
<1>2. /\ up = TRUE /\ stub \in BOOLEAN /\ second = 0 /\ disk = << >> /\ compilers = [p \in Paths |-> p]
      /\ scanned = compilers /\ paths = AddEnvTo /\ cache = << >>
      /\ task = [t \in Tasks |-> NoTask]
  BY <1>1 DEF Init
<1>3. second \in Seconds
  BY <1>2, BoundsAssumption DEF Seconds
<1>4. PICK q : q = NoTask
  OBVIOUS
<1>5. /\ q \in CxxCompileTask
      /\ q.pc = "none" /\ q.child = "none" /\ q.scan = "none"
      /\ q.exit_code = 1 /\ q.pack = {} /\ q.writing = FALSE
  BY <1>3, <1>4, NoTaskFacts
<1>6. task \in [Tasks -> CxxCompileTask] /\ \A t \in Tasks : task[t] = q
  BY <1>2, <1>4, <1>5
<1>7. compilers \in [Paths -> Digests]
  BY <1>2, BoundsAssumption DEF Paths, Digests
<1>8. /\ DOMAIN paths \subseteq Digests
      /\ \A d \in DOMAIN paths : paths[d] \in Paths /\ scanned[paths[d]] = d
  BY <1>2, <1>7, AddEnvToFacts
<1>9. TypeOK
  BY <1>2, <1>3, <1>6, <1>7, <1>8 DEF TypeOK
<1>10. \A t \in Tasks : TaskInv(t)
  <2>1. TAKE t \in Tasks
  <2>2. /\ task[t].pc = "none" /\ task[t].child = "none" /\ task[t].scan = "none"
        /\ task[t].exit_code = 1 /\ task[t].pack = {} /\ ~task[t].writing
    BY <1>5, <1>6
  <2>3. QED  BY <2>2, NoTaskInv
<1>11. DiskOwned /\ Registered /\ CacheHoldsItsKey
  BY <1>2, <1>8 DEF DiskOwned, Registered, CacheHoldsItsKey
<1>12. QED  BY <1>2, <1>9, <1>10, <1>11 DEF IInv


\* Every step of the specification keeps the invariant.
LEMMA NextIInv == IInv /\ [Next]_vars => IInv'
PROOF
<1>1. SUFFICES ASSUME IInv, [Next]_vars PROVE IInv'
  OBVIOUS
<1>2. CASE UNCHANGED vars
  <2>1. /\ up' = up /\ stub' = stub /\ second' = second /\ task' = task /\ disk' = disk
        /\ compilers' = compilers /\ paths' = paths /\ scanned' = scanned
        /\ cache' = cache
    BY <1>2 DEF vars
  <2>2. TypeOK'
    BY <1>1, <2>1 DEF IInv, TypeOK
  <2>3. \A t \in Tasks : TaskInv(t)'
    BY <1>1, <2>1, TasksStay DEF IInv
  <2>4. DiskOwned' /\ Registered' /\ (~up => \A t \in Tasks : task[t].pc = "none")'
    BY <1>1, <2>1 DEF IInv, DiskOwned, Registered
  <2>5. QED  BY <1>1, <2>1, <2>2, <2>3, <2>4, CacheStays DEF IInv
<1>3. CASE OnTimerRescan
  BY <1>1, <1>3, OnTimerRescanIInv
<1>4. CASE Tick
  BY <1>1, <1>4, TickIInv
<1>5. ASSUME NEW p \in Paths, InstallCompiler(p) PROVE IInv'
  BY <1>1, <1>5, InstallCompilerIInv
<1>6. ASSUME NEW t \in Tasks,
             \/ StreamIsEmpty(t) \/ ScanCrashes(t) \/ WaiterProcTerminates(t)
             \/ OnCompletedCrashes(t) \/ ClearCrashes(t) \/ WriteCrashes(t)
      PROVE  IInv'
  <2>1. Crash
    BY <1>6 DEF StreamIsEmpty, ScanCrashes, WaiterProcTerminates, OnCompletedCrashes,
                ClearCrashes, WriteCrashes
  <2>2. QED  BY <1>1, <2>1, CrashIInv
<1>7. ASSUME NEW t \in Tasks, NEW s \in Sources, QueueCxxTask(t, s) PROVE IInv'
  BY <1>1, <1>7, QueueCxxTaskIInv
<1>8. ASSUME NEW t \in Tasks, Handler(t) PROVE IInv'
  BY <1>1, <1>6, <1>8, PrepareIInv, MovesIInv, ClearIInv, RemoveDirIInv DEF Handler
<1>9. ASSUME NEW t \in Tasks, Scan(t) PROVE IInv'
  BY <1>1, <1>6, <1>9, ScanEndsIInv DEF Scan
<1>10. ASSUME NEW t \in Tasks, Compiler(t) PROVE IInv'
  BY <1>1, <1>10, CompilesIInv, CompilerFailsIInv DEF Compiler
<1>11. ASSUME NEW t \in Tasks, Exit(t) PROVE IInv'
  BY <1>1, <1>6, <1>11, WaiterProcIInv, OnCompletedIInv DEF Exit
<1>12. ASSUME NEW t \in Tasks, FreeTask(t) PROVE IInv'
  BY <1>1, <1>12, MovesIInv
<1>13. ASSUME NEW t \in Tasks, NEW stored \in BOOLEAN, WriteCacheData(t, stored)
       PROVE  IInv'
  BY <1>1, <1>13, WriteCacheDataIInv
<1>14. QED
  BY <1>1, <1>2, <1>3, <1>4, <1>5, <1>6, <1>7, <1>8, <1>9, <1>10, <1>11, <1>12, <1>13
     DEF Next

\* So it always holds.
LEMMA IInvHolds == Spec => []IInv
  BY InitIInv, NextIInv, PTL DEF Spec

-----------------------------------------------------------------------------
(***************************************************************************)
(* Theorems.                                                               *)
(***************************************************************************)

\* Every variable has its type: what is read from any directory at any time
\* is objects of known sources, arguments and compilers, and every registered
\* digest has a path (Compilers::AddEnvTo, CxxCompileTask::OnCompleted).
THEOREM TypesCorrect == Spec => []TypeOK
PROOF
<1>1. IInv => TypeOK
  BY DEF IInv
<1>2. QED  BY <1>1, IInvHolds, PTL

\* A successful task that is alone in its second returns one file, its own
\* object, whatever is refused, freed, killed and removed around it
\* (CxxCompileTask::OnCompleted, GetOutput and ~TempDir of the other tasks).
THEOREM OutputIsOwn == Spec => []OwnOutput
PROOF
<1>1. IInv => OwnOutput
  <2>1. SUFFICES ASSUME IInv, NEW t \in Tasks,
                        task[t].pc \in {"announced", "silent"}, task[t].exit_code = 0,
                        Alone(t)
                 PROVE  /\ Cardinality(task[t].pack) = 1
                        /\ \A o \in task[t].pack : IsOutputOf(o, t)
    BY DEF OwnOutput
  <2>2. /\ \A o \in task[t].pack : Mine(o, t)
        /\ \E o \in Object : task[t].pack = {o}
    BY <2>1 DEF IInv, TaskInv, OwnPack, Own
  <2>3. Cardinality(task[t].pack) = 1
    BY <2>2, FS_Singleton
  <2>4. QED  BY <2>2, <2>3 DEF Mine
<1>2. QED  BY <1>1, IInvHolds, PTL

\* For every number of tasks and whatever is refused, killed or lost around
\* them, a cache entry that was written by a task alone in its second holds an
\* object of the key's source and arguments, of the key's compiler when no
\* compiler changed after the rescan the path is from, and a time of compilation
\* is in it only when the source uses one that the arguments do not override
\* (GetCacheKey, GetOutput, Compilers::OnTimerRescan).
THEOREM CacheIsRight == Spec => []CacheHoldsItsKey
PROOF
<1>1. IInv => CacheHoldsItsKey
  BY DEF IInv
<1>2. QED  BY <1>1, IInvHolds, PTL

=============================================================================
