------------------------------ MODULE DataPath ------------------------------
(***************************************************************************)
(* The way of one compilation's bytes: from the pipes of the preprocessor  *)
(* through the client's compressing stream, the HTTP body, the daemon's    *)
(* stream to a servant, the compilation there, the packed files, the       *)
(* stream back and the HTTP answer to the file the client writes.          *)
(*                                                                         *)
(* Data is a sequence of blocks, each a tuple that starts with its kind.   *)
(* What a client does when the cloud fails, and the life of a task in the  *)
(* daemon and on the servant, are in Client, LocalDispatcher and Executor; *)
(* here a failure only sends the client to its native compilation.         *)
(* An optional result is a set of at most one element.                     *)
(***************************************************************************)
EXTENDS Integers, SequencesExt

CONSTANTS
    Length,     \* blocks the preprocessor writes to its standard output
    Warnings,   \* blocks it writes to its standard error
    PipeSize,   \* blocks a pipe holds
    MinSize,    \* compressed blocks below which Compile stays native
    ChunkSize,  \* FLAGS_chunk_size, in blocks
    Retries,    \* kRetries of WaitServantTask
    Products,   \* the suffixes of the files a compilation may leave
    Parts,      \* suffix -> its parts between commas, without the empty ones
    Errno       \* environment: errno before the first write to the child

VARIABLES
    pc,         \* the client: where Compile is
    attempt,    \* 1: with -fdirectives-only, 2: without
    child,      \* the preprocessor and the blocks it has written
    pipe,       \* its two pipes
    open,       \* the descriptors HandleProgramIO is not done with
    ready,      \* those the last poll() has reported and the loop not handled
    stream,     \* what ForwardOutStream has passed to zstd
    rewritten,  \* RewriteResult: its flag and its compressed source
    task,       \* the daemon's CxxDistTask and the thread that performs it
    servant,    \* the servant's CxxCompileTask
    disk        \* the files the client has written

vars == <<pc, attempt, child, pipe, open, ready, stream, rewritten, task,
          servant, disk>>

ASSUME DataPathAssumption ==
    /\ {Length, Warnings, MinSize} \subseteq Nat
    /\ {PipeSize, ChunkSize, Retries} \subseteq Nat \ {0}

\* A suffix that is not empty and has no comma.
Plain(suffix) == Parts[suffix] = <<suffix>>

\* Split(.., ',', keep_empty = false) of the suffixes with commas between them.
SplitSuffixes(suffixes) ==
    FlattenSeq([i \in DOMAIN suffixes |-> Parts[suffixes[i]]])

\* A compiler that leaves files leaves the object it was asked for; the suffix
\* of a file is not the name of the client's destination; and where a comma adds
\* a suffix, no empty suffix makes up for it.
ASSUME ProductsAssumption ==
    /\ Products \subseteq Seq(STRING)
    /\ \A product \in Products :
         /\ product # <<>> => ".o" \in ToSet(product)
         /\ "destination" \notin ToSet(product)
         /\ Len(SplitSuffixes(product)) = Len(product) =>
              \A i \in DOMAIN product : Plain(product[i])

Client == <<pc, attempt, open, ready, stream, rewritten, disk>>
Preprocessor == <<child, pipe>>

-----------------------------------------------------------------------------
(***************************************************************************)
(* Encodings.                                                              *)
(***************************************************************************)

\* std::string::substr and remove_prefix, which stop at the end.
Substr(s, pos, len) == SubSeq(s, pos + 1, Min({pos + len, Len(s)}))

\* The total of the first i sizes, for every i.
Totals(sizes) ==
    LET total[i \in 0 .. Len(sizes)] ==
          IF i = 0 THEN 0 ELSE total[i - 1] + sizes[i]
    IN  total

SumOf(sizes) == Totals(sizes)[Len(sizes)]

\* Where part i begins when the parts have these sizes.
Offset(sizes, i) == Totals(sizes)[i - 1]

Cut(sizes, bytes) ==
    [i \in DOMAIN sizes |-> Substr(bytes, Offset(sizes, i), sizes[i])]

EndMark == <<"end">>

\* Zstd: a frame is its content and a last block, written by Flush.
ZSTDCompress(s) == Append(s, EndMark)

\* Variant: what a broken frame held is good enough.
DecompressSome(z) == {SelectSeq(z, LAMBDA b : b # EndMark)}

\* A frame without its end makes no progress and is an error; no bytes at all
\* are no frame, and no error.
ZSTDDecompress(z) ==
    IF z = <<>> THEN {<<>>}
    ELSE IF Last(z) = EndMark THEN {Front(z)} ELSE {}

\* An entry of a list of sizes with nothing between its commas.
Blank == -1

\* Split(.., keep_empty = false)
Split(entries) ==
    LET kept[i \in 0 .. Len(entries)] ==
          IF i = 0 THEN <<>>
          ELSE IF entries[i] = Blank THEN kept[i - 1]
          ELSE Append(kept[i - 1], entries[i])
    IN  kept[Len(entries)]

LineOf(entries) == << <<"line", entries>> >>

Sizes(parts) == [i \in DOMAIN parts |-> Len(parts[i])]

MakeMultiChunkHeaderLine(parts) == LineOf(Sizes(parts))

\* Two commas follow each size, and one of the last two is taken back.
MakeMultiChunk(parts) ==
    LineOf(FlattenSeq([i \in DOMAIN parts |-> <<Len(parts[i]), Blank>>]))
    \o FlattenSeq(parts)

TryParseMultiChunk(view) ==
    IF view = <<>> THEN {<<>>}
    ELSE LET sizes == Split(Head(view)[2])
             rest == Tail(view)
         IN  IF (\E i \in DOMAIN sizes : sizes[i] <= 0) \/ SumOf(sizes) # Len(rest)
               THEN {} ELSE {Cut(sizes, rest)}

Contents(files) == [i \in DOMAIN files |-> files[i].content]
Extensions(files) == [i \in DOMAIN files |-> files[i].suffix]

\* PackFiles: three lines, the total, the suffixes and the sizes, and the
\* files; nothing for no files.
PackFiles(files) ==
    IF files = <<>> THEN <<>>
    ELSE LET all == FlattenSeq(Contents(files))
         IN  << <<"head", Len(all), Extensions(files), Sizes(Contents(files))>> >>
             \o all

\* stol throws on an empty first line.
UnpackThrows(packed) == packed = <<>>

\* An empty suffix is lost with its comma, and a comma in one makes it two: the
\* sizes are then too many or too few.
TryUnpackFiles(packed) ==
    LET head == Head(packed)
        suffixes == SplitSuffixes(head[3])
        contents == Cut(head[4], Tail(packed))
    IN  IF Len(suffixes) # Len(head[4]) \/ Len(packed) - 1 # head[2] THEN {}
        ELSE {[i \in DOMAIN contents |->
                 [suffix |-> suffixes[i], content |-> contents[i]]]}

-----------------------------------------------------------------------------
(***************************************************************************)
(* The preprocessor (external): it writes its text and its warnings, in    *)
(* whatever order, and blocks on a full pipe.  Its text depends on the     *)
(* options of the attempt.                                                 *)
(***************************************************************************)

Text(n) == [i \in 1 .. n |-> <<"text", attempt, i>>]

Ended == child.status \notin {"none", "running"}

ChildWritesOut ==
    /\ child.status = "running"
    /\ child.out < Length
    /\ Len(pipe.out) < PipeSize
    /\ child' = [child EXCEPT !.out = @ + 1]
    /\ pipe' = [pipe EXCEPT !.out = Append(@, <<"text", attempt, child.out + 1>>)]
    /\ UNCHANGED <<Client, task, servant>>

ChildWritesErr ==
    /\ child.status = "running"
    /\ child.err < Warnings
    /\ pipe.err < PipeSize
    /\ child' = [child EXCEPT !.err = @ + 1]
    /\ pipe' = [pipe EXCEPT !.err = @ + 1]
    /\ UNCHANGED <<Client, task, servant>>

ChildSucceeds ==
    /\ child.status = "running"
    /\ child.out = Length
    /\ child.err = Warnings
    /\ child' = [child EXCEPT !.status = "succeeded"]
    /\ UNCHANGED <<Client, pipe, task, servant>>

\* It ends with an error, or is killed by a signal.
ChildFails ==
    /\ child.status = "running"
    /\ \E status \in {"failed", "killed"} : child' = [child EXCEPT !.status = status]
    /\ UNCHANGED <<Client, pipe, task, servant>>

ChildRuns == ChildWritesOut \/ ChildWritesErr \/ ChildSucceeds

-----------------------------------------------------------------------------
(***************************************************************************)
(* RewriteFile and ExecuteCommand.                                         *)
(***************************************************************************)

NoChild == [status |-> "none", out |-> 0, err |-> 0]

Descriptors == {"in", "out", "err"}

\* Attempt n: fresh streams, fresh pipes, a new child.
StartProgram(n) ==
    /\ attempt' = n
    /\ child' = [NoChild EXCEPT !.status = "running"]
    /\ pipe' = [out |-> <<>>, err |-> 0]
    /\ open' = Descriptors
    /\ ready' = {}
    /\ stream' = <<>>
    /\ pc' = "poll"

RewriteFile ==
    /\ pc = "start"
    /\ StartProgram(1)
    /\ UNCHANGED <<rewritten, task, servant, disk>>

\* Variant: the standard error is looked at once the output is complete.
WatchedInOrder == open \ (IF "out" \in open THEN {"err"} ELSE {})

Watched == open

HasEvent(fd) ==
    CASE fd = "in"  -> TRUE
      [] fd = "out" -> pipe.out # <<>> \/ Ended
      [] fd = "err" -> pipe.err > 0 \/ Ended

\* poll() waits until some descriptor has an event.
Poll ==
    /\ pc = "poll"
    /\ open # {}
    /\ ready' = {fd \in Watched : HasEvent(fd)}
    /\ ready' # {}
    /\ pc' = "handle"
    /\ UNCHANGED <<attempt, Preprocessor, open, stream, rewritten, task, servant,
                   disk>>

\* The loop over the reported descriptors takes fd, in the order in, out, err,
\* and the next poll() follows the last one.
Take(fd) ==
    /\ pc = "handle"
    /\ fd \in ready
    /\ fd = "err" => "out" \notin ready
    /\ fd \in {"out", "err"} => "in" \notin ready
    /\ ready' = ready \ {fd}
    /\ pc' = IF ready' = {} THEN "poll" ELSE "handle"
    /\ UNCHANGED <<attempt, child, rewritten, task, servant, disk>>

\* There is no input: write() of no bytes returns 0 and leaves errno as it was.
\* EAGAIN passes for 0 bytes written, EINTR for ever for a write to repeat, any
\* other value for a child that has closed its input.
HandleStdin ==
    /\ Take("in")
    /\ Errno # "EINTR"
    /\ open' = open \ {"in"}
    /\ UNCHANGED <<pipe, stream>>

\* Variant: the end of the child is taken for the end of its output.
HandleStdoutHungUp ==
    /\ Take("out")
    /\ stream' = IF Ended THEN stream ELSE stream \o pipe.out
    /\ pipe' = [pipe EXCEPT !.out = <<>>]
    /\ open' = open \ (IF Ended THEN {"out"} ELSE {})

\* The buffer takes what a pipe can hold.  Nothing to read is the end.
HandleStdout ==
    /\ Take("out")
    /\ stream' = stream \o pipe.out
    /\ pipe' = [pipe EXCEPT !.out = <<>>]
    /\ open' = open \ (IF pipe.out = <<>> THEN {"out"} ELSE {})

HandleStderr ==
    /\ Take("err")
    /\ pipe' = [pipe EXCEPT !.err = 0]
    /\ open' = open \ (IF pipe.err = 0 THEN {"err"} ELSE {})
    /\ UNCHANGED stream

\* WEXITSTATUS of a child a signal has killed is 0; the check only logs it.
GetChildExitCode == IF child.status = "failed" THEN 1 ELSE 0

\* waitpid() returns, and TryRewriteFileWithCommandLine has a result.
Rewritten ==
    /\ pc = "poll"
    /\ open = {}
    /\ Ended
    /\ GetChildExitCode = 0
    /\ rewritten' = [directives_only |-> attempt = 1,
                     zstd |-> ZSTDCompress(stream)]
    /\ pc' = "rewritten"
    /\ UNCHANGED <<attempt, Preprocessor, open, ready, stream, task, servant, disk>>

MayTryAgain == attempt = 1

NotRewritten ==
    /\ pc = "poll"
    /\ open = {}
    /\ Ended
    /\ GetChildExitCode # 0
    /\ IF MayTryAgain THEN StartProgram(attempt + 1)
       ELSE /\ pc' = "native"
            /\ UNCHANGED <<attempt, Preprocessor, open, ready, stream>>
    /\ UNCHANGED <<rewritten, task, servant, disk>>

SmallFile ==
    /\ pc = "rewritten"
    /\ Len(rewritten.zstd) < MinSize
    /\ pc' = "native"
    /\ UNCHANGED <<attempt, Preprocessor, open, ready, stream, rewritten, task,
                   servant, disk>>

-----------------------------------------------------------------------------
(***************************************************************************)
(* The HTTP request and the stream to the servant.                         *)
(***************************************************************************)

NoTask == [stage |-> "none", directives_only |-> FALSE, source |-> <<>>,
           sent |-> 0, retries |-> Retries, file |-> <<>>, exit |-> 0,
           outputs |-> <<>>]

NoCompileTask == [stage |-> "none", directives_only |-> FALSE, file |-> <<>>,
                  source |-> <<>>, exit |-> 0, pack |-> <<>>, sent |-> 0]

Request(json, zstd) ==
    MakeMultiChunkHeaderLine(<<json, zstd>>) \o json \o zstd

\* SubmitComileTask and SubmitCxxTask, of whose body the first n blocks arrive:
\* fewer than all when the client's call has timed out.
SubmitCxxTask(n) ==
    LET json == << <<"json", rewritten.directives_only>> >>
        body == Request(json, rewritten.zstd)
        accepted == {p \in TryParseMultiChunk(SubSeq(body, 1, n)) : p # <<>>}
    IN  /\ pc = "rewritten"
        /\ Len(rewritten.zstd) >= MinSize
        /\ n \in 0 .. Len(body)
        /\ pc' = IF n = Len(body) /\ accepted # {} THEN "waiting" ELSE "native"
        /\ task' \in IF accepted = {} THEN {task}
                     ELSE {[NoTask EXCEPT !.stage = "queued",
                                          !.directives_only = p[1][1][2],
                                          !.source = p[2]] : p \in accepted}
        /\ UNCHANGED <<attempt, Preprocessor, open, ready, stream, rewritten,
                       servant, disk>>

\* A loop that sends a file sends its next chunk.
ChunkOf(file, sent) == Substr(file, sent, ChunkSize)

\* StartTask: the first chunk is the request.
StartTask ==
    /\ task.stage = "queued"
    /\ task' = [task EXCEPT !.stage = "sending"]
    /\ servant' = [NoCompileTask EXCEPT !.stage = "receiving",
                                        !.directives_only = task.directives_only]
    /\ UNCHANGED <<Client, Preprocessor>>

WriteChunk ==
    /\ task.stage = "sending"
    /\ task.sent < Len(task.source)
    /\ task' = [task EXCEPT !.sent = @ + ChunkSize]
    /\ servant' = [servant EXCEPT !.file = @ \o ChunkOf(task.source, task.sent)]
    /\ UNCHANGED <<Client, Preprocessor>>

WritesDone ==
    /\ task.stage = "sending"
    /\ task.sent >= Len(task.source)
    /\ task' = [task EXCEPT !.stage = "sent", !.source = <<>>]
    /\ servant' = [servant EXCEPT !.stage = "received"]
    /\ UNCHANGED <<Client, Preprocessor>>

\* PerformTask's deffer: OnCompleted with what RebuildOutput makes of the output.
TaskDone(exit, outputs) ==
    task' = [task EXCEPT !.stage = "done", !.exit = exit, !.file = <<>>,
                         !.outputs = IF exit < 0 THEN <<>> ELSE outputs]

\* The connection is lost.  The daemon has no task (after a failed Write it
\* waits in vain for a task 0); the servant takes what it has read for the file.
StreamBreaks ==
    /\ task.stage \in {"sending", "sent"}
    /\ TaskDone(-1, <<>>)
    /\ servant' = [servant EXCEPT
                     !.stage = IF @ = "receiving" THEN "received" ELSE @]
    /\ UNCHANGED <<Client, Preprocessor>>

\* The answer to QueueCxxTask.
Queued ==
    /\ task.stage = "sent"
    /\ servant.stage \notin {"receiving", "received"}
    /\ IF servant.stage = "refused" THEN TaskDone(-1, <<>>)
       ELSE task' = [task EXCEPT !.stage = "waiting"]
    /\ UNCHANGED <<Client, Preprocessor, servant>>

-----------------------------------------------------------------------------
(***************************************************************************)
(* The servant.                                                            *)
(***************************************************************************)

Prepare ==
    /\ servant.stage = "received"
    /\ servant' \in IF ZSTDDecompress(servant.file) = {}
                    THEN {[servant EXCEPT !.stage = "refused"]}
                    ELSE {[servant EXCEPT !.stage = "prepared", !.source = s] :
                            s \in ZSTDDecompress(servant.file)}
    /\ UNCHANGED <<Client, Preprocessor, task>>

\* What the compiler makes of a source, into the file with that suffix.
Compiled(suffix, directives_only, source) ==
    << <<suffix, directives_only>> >> \o source

\* The compiler ends, and OnCompleted packs the files it finds.
CompilerSucceeds(product) ==
    /\ servant.stage = "prepared"
    /\ LET files == [i \in DOMAIN product |->
             [suffix |-> product[i],
              content |-> ZSTDCompress(Compiled(product[i], servant.directives_only,
                                                servant.source))]]
       IN  servant' = [servant EXCEPT !.stage = "compiled", !.pack = PackFiles(files)]
    /\ UNCHANGED <<Client, Preprocessor, task>>

CompilerFails ==
    /\ servant.stage = "prepared"
    /\ servant' = [servant EXCEPT !.stage = "compiled", !.exit = 1]
    /\ UNCHANGED <<Client, Preprocessor, task>>

-----------------------------------------------------------------------------
(***************************************************************************)
(* The stream back and the HTTP answer.                                    *)
(***************************************************************************)

\* WaitForTask has the task, and writes its response.
WaitForTask ==
    /\ task.stage = "waiting"
    /\ servant.stage = "compiled"
    /\ task' = [task EXCEPT !.stage = "reading", !.file = <<>>]
    /\ servant' = [servant EXCEPT !.sent = 0]
    /\ UNCHANGED <<Client, Preprocessor>>

SendFile ==
    /\ task.stage = "reading"
    /\ servant.sent < Len(servant.pack)
    /\ task' = [task EXCEPT !.file = @ \o ChunkOf(servant.pack, servant.sent)]
    /\ servant' = [servant EXCEPT !.sent = @ + ChunkSize]
    /\ UNCHANGED <<Client, Preprocessor>>

\* A call fails, because the connection is lost or the task still runs.
WaitFails ==
    /\ task.stage \in {"waiting", "reading"}
    /\ IF task.retries = 1 THEN TaskDone(-1, <<>>)
       ELSE task' = [task EXCEPT !.stage = "waiting", !.retries = @ - 1]
    /\ UNCHANGED <<Client, Preprocessor, servant>>

\* The stream has ended with OK, so everything sent has been read.
WaitServantTask ==
    /\ task.stage = "reading"
    /\ servant.sent >= Len(servant.pack)
    /\ \/ servant.exit # 0 /\ TaskDone(servant.exit, <<>>)
       \/ servant.exit = 0 /\ UnpackThrows(task.file) /\ TaskDone(-1, <<>>)
       \/ /\ servant.exit = 0
          /\ ~UnpackThrows(task.file)
          /\ IF TryUnpackFiles(task.file) = {} THEN TaskDone(-1, <<>>)
             ELSE \E files \in TryUnpackFiles(task.file) : TaskDone(0, files)
    /\ UNCHANGED <<Client, Preprocessor, servant>>

\* GetOutput's message and buffers, as the answer's body.
AnswerBody ==
    MakeMultiChunk(<< << <<"json", task.exit, Extensions(task.outputs)>> >> >>
                   \o Contents(task.outputs))

\* The name WriteCompileResult gives a file; one that is not the object goes to
\* ".o" and its suffix, whatever the destination's name is.
NameOf(suffix) == IF suffix = ".o" THEN "destination" ELSE suffix

\* What a failed write leaves of a file: nothing, a part, or the file of before.
Torn == << <<"torn">> >>

\* A file that cannot be opened or written whole is only logged.
WriteAll(files, file, failures) ==
    LET name == NameOf(file.suffix)
    IN  [other \in DOMAIN files \cup {name} |->
           IF other # name THEN files[other]
           ELSE IF name \in failures THEN Torn ELSE file.content]

WriteCompileResult(files, failures) ==
    LET written[i \in 0 .. Len(files)] ==
          IF i = 0 THEN disk ELSE WriteAll(written[i - 1], files[i], failures)
    IN  disk' = written[Len(files)]

\* The files of the answer, when its first n blocks have arrived: there are none
\* unless they parse, say exit code 0 and all decompress.
FilesOf(n) ==
    {[i \in DOMAIN p[1][1][3] |->
        [suffix |-> p[1][1][3][i],
         content |-> CHOOSE s \in ZSTDDecompress(p[i + 1]) : TRUE]] :
       p \in {q \in TryParseMultiChunk(SubSeq(AnswerBody, 1, n)) :
                /\ q # <<>>
                /\ q[1][1][2] = 0
                /\ \A i \in DOMAIN q[1][1][3] : ZSTDDecompress(q[i + 1]) # {}}}

\* WaitForCloudCompileResult.  Compile reports a success whatever was written.
Answered(n) ==
    /\ pc = "waiting"
    /\ task.stage = "done"
    /\ IF FilesOf(n) = {} THEN pc' = "native" /\ UNCHANGED disk
       ELSE /\ pc' = "done"
            /\ \E files \in FilesOf(n) :
                 \E failures \in SUBSET {NameOf(file.suffix) : file \in ToSet(files)} :
                   WriteCompileResult(files, failures)
    /\ UNCHANGED <<attempt, Preprocessor, open, ready, stream, rewritten, task,
                   servant>>

\* A call to the daemon fails.
CallFails ==
    /\ pc = "waiting"
    /\ pc' = "native"
    /\ UNCHANGED <<attempt, Preprocessor, open, ready, stream, rewritten, task,
                   servant, disk>>

-----------------------------------------------------------------------------
Init ==
    /\ pc = "start"
    /\ attempt = 1
    /\ child = NoChild
    /\ pipe = [out |-> <<>>, err |-> 0]
    /\ open = {}
    /\ ready = {}
    /\ stream = <<>>
    /\ rewritten = [directives_only |-> FALSE, zstd |-> <<>>]
    /\ task = NoTask
    /\ servant = NoCompileTask
    /\ disk = [name \in {} |-> <<>>]

\* A body is a line, a message and at most a frame of all the text.
Submits == \E n \in 0 .. Length + 3 : SubmitCxxTask(n)

Wait == \E n \in 0 .. Len(AnswerBody) : Answered(n)

HandleProgramIO == Poll \/ HandleStdin \/ HandleStdout \/ HandleStderr

ClientNext ==
    RewriteFile \/ HandleProgramIO \/ Rewritten \/ NotRewritten \/ SmallFile
    \/ Submits \/ Wait

DaemonNext ==
    StartTask \/ WriteChunk \/ WritesDone \/ Queued \/ WaitForTask \/ WaitServantTask

ServantNext ==
    Prepare \/ SendFile \/ (\E product \in Products : CompilerSucceeds(product))

Next == \/ ClientNext
        \/ DaemonNext
        \/ ServantNext
        \/ ChildRuns
        \/ ChildFails
        \/ StreamBreaks
        \/ WaitFails
        \/ CompilerFails
        \/ CallFails

Spec == Init /\ [][Next]_vars

(***************************************************************************)
(* The client, the daemon and the servant are threads that run on; the     *)
(* preprocessor runs on while its pipes have room, and the compiler ends.  *)
(* No failure has to happen.                                               *)
(***************************************************************************)
FairSpec == /\ Spec
            /\ WF_vars(ClientNext)
            /\ WF_vars(DaemonNext)
            /\ WF_vars(ServantNext)
            /\ WF_vars(ChildRuns)

-----------------------------------------------------------------------------
\* Every variable has its type.
TypeOK ==
    /\ pc \in {"start", "poll", "handle", "rewritten", "waiting", "native", "done"}
    /\ attempt \in 1 .. 2
    /\ child.status \in {"none", "running", "succeeded", "failed", "killed"}
    /\ child.out \in 0 .. Length
    /\ child.err \in 0 .. Warnings
    /\ Len(pipe.out) <= PipeSize
    /\ pipe.err \in 0 .. PipeSize
    /\ ready \subseteq open
    /\ open \subseteq Descriptors
    /\ Len(stream) <= Length
    /\ rewritten.directives_only \in BOOLEAN
    /\ task.stage \in {"none", "queued", "sending", "sent", "waiting", "reading",
                       "done"}
    /\ task.retries \in 1 .. Retries
    /\ servant.stage \in {"none", "receiving", "received", "refused", "prepared",
                          "compiled"}
    /\ DOMAIN disk \subseteq {"destination"} \cup UNION {ToSet(p) : p \in Products}

\* The preprocessor has written all of its text, or was killed by a signal, for
\* which GetChildExitCode gives 0.
WholeUnlessKilled == child.status # "killed" => child.out = Length

(***************************************************************************)
(* A client that reports a success from the cloud has written, in each     *)
(* file whose write has not failed, what the compiler makes of all the     *)
(* preprocessor's output, under the options that go with the attempt whose *)
(* text it was: no block lost in a pipe, no text of a failed first attempt,*)
(* no answer cut short and no file mistaken for another.                   *)
(***************************************************************************)
WrittenIsTheWholeSource ==
    pc = "done" =>
        /\ WholeUnlessKilled
        /\ "destination" \in DOMAIN disk
        /\ \A suffix \in UNION {ToSet(p) : p \in Products} :
             NameOf(suffix) \in DOMAIN disk =>
               disk[NameOf(suffix)] \in {Compiled(suffix, attempt = 1, Text(child.out)),
                                         Torn}

(***************************************************************************)
(* A servant compiles all of the preprocessor's output or, after a stream  *)
(* that broke behind its first chunk, an empty source; never a part, but   *)
(* for the part that a killed preprocessor was able to write.              *)
(***************************************************************************)
NoPartIsCompiled ==
    servant.stage \in {"prepared", "compiled"} =>
        servant.source = <<>> \/ (servant.source = Text(child.out) /\ WholeUnlessKilled)

(***************************************************************************)
(* The client comes to an end: the loop over the pipes never waits for a   *)
(* child that waits for it, and every stream and call ends or fails.       *)
(***************************************************************************)
CompilationEnds == <>(pc \in {"native", "done"})
=============================================================================
