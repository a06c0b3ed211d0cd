------------------------------ MODULE Measurements ------------------------------
(***************************************************************************)
(* The directory of one measurement and the calls that share it:           *)
(*                                                                         *)
(*   dataSync        stores the measurement, throws the generated files    *)
(*                   away, may run a database script (dap) and generate    *)
(*                   one file at once (car)                                *)
(*   dataOut         generates the files that are missing with             *)
(*   getMeasurement  postprocessors, then delivers them                    *)
(*   dataFree        removes the directory, or flags it for the            *)
(*                   DiskUsageManager to remove                            *)
(*                                                                         *)
(* Two slots of the scheduler (XmlProcessor) execute such calls at once.   *)
(* An action is one callback of the main loop, one step of a child process *)
(* or one step of the thread of an asynchronous file operation; an         *)
(* exception that leaves a callback terminates the daemon.                 *)
(***************************************************************************)
EXTENDS Integers, Sequences, FiniteSets

CONSTANTS
    Slot,       \* the slots that execute these calls
    File,       \* the files postprocessors generate
    Queue,      \* the lists of files that dataOut and getMeasurement ask for
    Car,        \* the files that dataSync may be asked to generate
    Dest,       \* the kinds of destination of dataOut
    MaxWrites   \* bound on the times the measurement is written

ASSUME FilesAssumption ==
    /\ Car \subseteq File
    /\ Queue \subseteq Seq(File)
    /\ \A q \in Queue : q # <<>>
    /\ Dest \subseteq {"file", "printer", "localPrinter"}

ASSUME BoundAssumption == MaxWrites \in Nat \ {0}

\* What a file holds: nothing, a part of what it should, or all of a version of
\* the measurement (1, 2, ...) or of the output generated from that version.
Absent == 0
Part == -1
Version == Nat \ {0}
Content == {Absent, Part} \cup Version

VARIABLES
    dir,     \* the directory of the measurement exists
    raw,     \* the measurement in it
    writes,  \* the versions written so far
    cache,   \* the generated files
    flag,    \* the file .delete exists
    job,     \* what each slot is doing
    synced,  \* the version known to be the oldest that is still delivered
    alive    \* the daemon has not been terminated by an exception

vars == <<dir, raw, writes, cache, flag, job, synced, alive>>

(***************************************************************************)
(* A job: the call, its queue and the place in it; where its generator     *)
(* writes ("out") and the version that generator has read; the contents    *)
(* delivered so far; `synced' when it started.                             *)
(*                                                                         *)
(* A generator, and the write of a measurement, creates its file in place  *)
(* if there is none.  If there is one, Gio writes to a temporary file in    *)
(* the same directory and renames it when the stream is closed.  Either     *)
(* may be removed meanwhile: "gone" is the file in place, "lost" the        *)
(* temporary one.                                                          *)
(***************************************************************************)
Job ==
    [fn    : {"none", "dataOut", "getMeasurement", "dataSync"},
     pc    : {"idle", "gen", "message", "copy", "copied", "open", "write", "written", "dap"},
     queue : Queue \cup {<<f>> : f \in Car} \cup {<<>>},
     i     : Nat,
     dest  : {"file", "printer", "localPrinter"},
     dap   : BOOLEAN,
     out   : {"none", "place", "temp", "gone", "lost"},
     ver   : Version \cup {0},
     got   : SUBSET Content,
     since : Version \cup {0}]

NoJob == [fn |-> "none", pc |-> "idle", queue |-> <<>>, i |-> 1,
          dest |-> "file", dap |-> FALSE, out |-> "none", ver |-> 0,
          got |-> {}, since |-> 0]

TypeOK ==
    /\ dir \in BOOLEAN
    /\ raw \in Content
    /\ writes \in Nat
    /\ cache \in [File -> Content]
    /\ flag \in BOOLEAN
    /\ job \in [Slot -> Job]
    /\ synced \in Version \cup {0}
    /\ alive \in BOOLEAN

Init ==
    /\ dir = FALSE
    /\ raw = Absent
    /\ writes = 0
    /\ cache = [f \in File |-> Absent]
    /\ flag = FALSE
    /\ job = [s \in Slot |-> NoJob]
    /\ synced = 0
    /\ alive = TRUE

Busy(s) == job[s].pc # "idle"

\* The file a generator makes.
Target(j) == j.queue[j.i]

(***************************************************************************)
(* The file system: the jobs after files were removed or replaced.         *)
(***************************************************************************)

\* The generated file f is removed or replaced by the callback of slot s.
WithoutFile(jobs, f, s) ==
    [t \in Slot |->
        IF t # s /\ jobs[t].pc = "gen" /\ Target(jobs[t]) = f /\ jobs[t].out = "place"
          THEN [jobs[t] EXCEPT !.out = "gone"] ELSE jobs[t]]

\* The measurement is replaced or removed.
WithoutMeasurement(jobs) ==
    [t \in Slot |-> IF jobs[t].pc = "write" /\ jobs[t].out = "place"
                      THEN [jobs[t] EXCEPT !.out = "gone"] ELSE jobs[t]]

\* All files but the measurement are removed, temporary ones included.
WithoutFiles(jobs) ==
    [t \in Slot |->
        CASE jobs[t].pc = "gen" /\ jobs[t].out = "place"
               -> [jobs[t] EXCEPT !.out = "gone"]
          [] jobs[t].pc \in {"gen", "write"} /\ jobs[t].out = "temp"
               -> [jobs[t] EXCEPT !.out = "lost"]
          [] OTHER -> jobs[t]]

(***************************************************************************)
(* Generating.  `j' is the job of slot s, at the entry j.i of its queue,   *)
(* `files' the generated files, `others' the jobs of the other slots.      *)
(***************************************************************************)

\* The call is answered, successfully or not.
Answer(s, others) == job' = [others EXCEPT ![s] = NoJob]

\* is_post_processing_needed: k is the first entry from j.i without its file,
\* or is past the end of the queue if there is none.
NextMissing(k, j, files) ==
    /\ \A l \in j.i .. k - 1 : files[j.queue[l]] # Absent
    /\ k <= Len(j.queue) => files[j.queue[k]] = Absent

Contents(q, files) == {files[q[k]] : k \in DOMAIN q}

\* All files are there: start_copying, start_reading.  dataOut's destination,
\* which matters from here on only, is chosen here; getMeasurement reads the
\* files one by one, as dataOut copies them to a folder.  The local printer's
\* result is put together at once.
Deliver(s, j, files, others) ==
    /\ \E d \in IF j.fn = "dataOut" THEN Dest ELSE {"file"} :
          LET jd == [j EXCEPT !.dest = d, !.out = "none", !.ver = 0]
          IN  IF d # "localPrinter"
                THEN job' = [others EXCEPT ![s] = [jd EXCEPT !.pc = "copy", !.i = 1]]
              ELSE IF Absent \in Contents(j.queue, files)
                THEN Answer(s, others)
                ELSE job' = [others EXCEPT ![s] =
                        [jd EXCEPT !.pc = "copied", !.i = Len(j.queue),
                                   !.got = Contents(j.queue, files)]]
    /\ cache' = files
    /\ UNCHANGED alive

\* Mutant of StartGenerator: the file is opened in place even if it exists.
StartGeneratorInPlace(s, j, f, files, others) ==
    /\ dir
    /\ job' = [others EXCEPT ![s] = [j EXCEPT !.pc = "gen", !.ver = 0, !.out = "place"]]
    /\ cache' = [files EXCEPT ![f] = Part]
    /\ UNCHANGED alive

\* The generator is started: its file is opened first.
StartGenerator(s, j, f, files, others) ==
    /\ dir
    /\ job' = [others EXCEPT ![s] =
                  [j EXCEPT !.pc = "gen", !.ver = 0,
                            !.out = IF files[f] = Absent THEN "place" ELSE "temp"]]
    /\ cache' = [files EXCEPT ![f] = IF @ = Absent THEN Part ELSE @]
    /\ UNCHANGED alive

\* Opening the file fails in a directory that is gone.  getMeasurement answers;
\* dataOut deletes the file, which throws again, out of the callback.
CannotOpen(s, j, files, others) ==
    /\ ~dir
    /\ IF j.fn = "dataOut"
         THEN /\ alive' = FALSE
              /\ job' = others
         ELSE /\ Answer(s, others)
              /\ UNCHANGED alive
    /\ cache' = files

\* dataOut tells of a postprocessor that cannot be run.  For an entry after the
\* first (on_post_proc_finish) the message is made of two unrelated pointers, a
\* ustring of a range: it may come out as any text (CannotSpawn), end the
\* program, or throw, and then the file stays.  Entries that were skipped in the
\* same callback are frames of it: the catch of one of them, l, answers and
\* deletes its own file; out of the last frame the exception ends the daemon.
MessageFails(s, j, k, files, others) ==
    /\ dir
    /\ j.fn = "dataOut"
    /\ k > 1
    /\ LET left == [files EXCEPT ![j.queue[k]] = Part]
       IN  \/ /\ job' = [others EXCEPT ![s] =
                            [j EXCEPT !.pc = "message", !.i = k, !.out = "none", !.ver = 0]]
              /\ cache' = left
              /\ alive' = FALSE
           \/ \E l \in j.i .. k - 1 :
                 /\ Answer(s, WithoutFile(others, j.queue[l], s))
                 /\ cache' = [left EXCEPT ![j.queue[l]] = Absent]
                 /\ UNCHANGED alive

\* The file was opened but the postprocessor cannot be run.  dataOut deletes
\* the file, the others leave it (closing the stream completes a replacement,
\* also of a file that is being written).
CannotSpawn(s, j, f, files, others) ==
    /\ dir
    /\ Answer(s, WithoutFile(others, f, s))
    /\ cache' = [files EXCEPT ![f] = IF j.fn = "dataOut" THEN Absent ELSE Part]
    /\ UNCHANGED alive

\* start_postprocessing and on_post_proc_finish of dataOut, start_post_proc
\* and on_post_proc_finished of getMeasurement: entries whose file exists are
\* skipped in the same callback.
Proceed(s, j, files, others) ==
    \E k \in j.i .. Len(j.queue) + 1 :
        /\ NextMissing(k, j, files)
        /\ IF k > Len(j.queue)
             THEN Deliver(s, j, files, others)
             ELSE LET f == j.queue[k]
                      jk == [j EXCEPT !.i = k]
                  IN  \/ StartGenerator(s, jk, f, files, others)
                      \/ CannotOpen(s, jk, files, others)
                      \/ CannotSpawn(s, jk, f, files, others)
                      \/ MessageFails(s, j, k, files, others)

(***************************************************************************)
(* dataOut and getMeasurement.                                             *)
(***************************************************************************)

Request(fn, q) == [NoJob EXCEPT !.fn = fn, !.queue = q, !.since = synced]

\* Without a measurement build_queue throws and the call is answered at once,
\* which changes nothing here.
StartDataOut(s) ==
    /\ alive
    /\ ~Busy(s)
    /\ raw # Absent
    /\ \E q \in Queue : Proceed(s, Request("dataOut", q), cache, job)
    /\ UNCHANGED <<dir, raw, writes, flag, synced>>

StartGetMeasurement(s) ==
    /\ alive
    /\ ~Busy(s)
    /\ raw # Absent
    /\ \E q \in Queue : Proceed(s, Request("getMeasurement", q), cache, job)
    /\ UNCHANGED <<dir, raw, writes, flag, synced>>

\* The postprocessor reads the measurement; it fails on a part of one.
GeneratorReads(s) ==
    /\ alive
    /\ job[s].pc = "gen"
    /\ job[s].ver = 0
    /\ raw \in Version
    /\ job' = [job EXCEPT ![s].ver = raw]
    /\ UNCHANGED <<dir, raw, writes, cache, flag, synced, alive>>

\* Closing the stream throws, out of child_watch_handler: the temporary file
\* cannot be renamed.
CloseThrows ==
    /\ alive' = FALSE
    /\ UNCHANGED <<cache, job>>

\* The stream of slot s is closed with `content' written to it.
Closed(s, content) ==
    IF job[s].out = "gone" THEN cache
    ELSE [cache EXCEPT ![Target(job[s])] = content]

\* Renaming the temporary file displaces a file written in place.
OthersAfterClose(s) ==
    IF job[s].out = "temp" THEN WithoutFile(job, Target(job[s]), s) ELSE job

\* Exit code 0: on_post_proc_finish goes on, on_car_finish answers.
GeneratorSucceeds(s) ==
    /\ alive
    /\ job[s].pc = "gen"
    /\ job[s].ver # 0
    /\ IF job[s].out = "lost"
         THEN CloseThrows
         ELSE LET files == Closed(s, job[s].ver)
              IN  IF job[s].fn = "dataSync"
                    THEN /\ Answer(s, OthersAfterClose(s))
                         /\ cache' = files
                         /\ UNCHANGED alive
                    ELSE Proceed(s, [job[s] EXCEPT !.i = @ + 1], files, job)
    /\ UNCHANGED <<dir, raw, writes, flag, synced>>

\* Mutant of RemoveFailed: the file is deleted before and here.
RemoveFailedTwice(s) ==
    /\ alive' = FALSE
    /\ cache' = [cache EXCEPT ![Target(job[s])] = Absent]
    /\ UNCHANGED job

\* Mutant of RemoveFailed: the file is left.
RemoveFailedNot(s) ==
    /\ Answer(s, job)
    /\ UNCHANGED <<cache, alive>>

\* A failed generator of dataOut or getMeasurement: its file is deleted; if
\* there is none, del_file throws out of the callback.
RemoveFailed(s) ==
    IF cache[Target(job[s])] = Absent
      THEN /\ alive' = FALSE
           /\ UNCHANGED <<cache, job>>
      ELSE /\ Answer(s, WithoutFile(job, Target(job[s]), s))
           /\ cache' = [cache EXCEPT ![Target(job[s])] = Absent]
           /\ UNCHANGED alive

\* The postprocessor exits with an error or is killed after its timeout.
\* on_car_finish answers with the exit code and leaves the file.
GeneratorFails(s) ==
    /\ alive
    /\ job[s].pc = "gen"
    /\ IF job[s].out = "lost"
         THEN CloseThrows
         ELSE IF job[s].fn = "dataSync"
                THEN /\ Answer(s, OthersAfterClose(s))
                     /\ cache' = Closed(s, Part)
                     /\ UNCHANGED alive
                ELSE RemoveFailed(s)
    /\ UNCHANGED <<dir, raw, writes, flag, synced>>

\* What is read in one go: one file, or, by lp, all of them.
Batch(s) ==
    IF job[s].dest = "printer" THEN job[s].queue ELSE <<Target(job[s])>>

\* CopyFileRequest, ReadFileRequest, lp: the thread or process reads.
CopyReads(s) ==
    /\ alive
    /\ job[s].pc = "copy"
    /\ Absent \notin Contents(Batch(s), cache)
    /\ job' = [job EXCEPT ![s].pc = "copied",
                          ![s].got = @ \cup Contents(Batch(s), cache),
                          ![s].i = IF job[s].dest = "printer"
                                     THEN Len(job[s].queue) ELSE @]
    /\ UNCHANGED <<dir, raw, writes, cache, flag, synced, alive>>

\* A file is missing, or the destination cannot be written.
CopyFails(s) ==
    /\ alive
    /\ job[s].pc = "copy"
    /\ Answer(s, job)
    /\ UNCHANGED <<dir, raw, writes, cache, flag, synced, alive>>

\* on_copy_finish, on_read_finished, on_lp_proc_finish: the next file, or OK.
CopyFinished(s) ==
    /\ alive
    /\ job[s].pc = "copied"
    /\ IF job[s].i < Len(job[s].queue)
         THEN job' = [job EXCEPT ![s].pc = "copy", ![s].i = @ + 1]
         ELSE Answer(s, job)
    /\ UNCHANGED <<dir, raw, writes, cache, flag, synced, alive>>

(***************************************************************************)
(* dataSync.                                                               *)
(***************************************************************************)

Writing == {s \in Slot : job[s].pc \in {"open", "write"}}

\* start_call: the directory is created and the write begun.
StartDataSync(s) ==
    /\ alive
    /\ ~Busy(s)
    /\ writes + Cardinality(Writing) < MaxWrites
    /\ \E dap \in BOOLEAN, car \in {<<f>> : f \in Car} \cup {<<>>} :
          job' = [job EXCEPT ![s] =
                     [NoJob EXCEPT !.fn = "dataSync", !.pc = "open",
                                   !.queue = car, !.dap = dap]]
    /\ dir' = TRUE
    /\ UNCHANGED <<raw, writes, cache, flag, synced, alive>>

\* The thread of replace_contents_async opens the file.
WriteOpens(s) ==
    /\ alive
    /\ job[s].pc = "open"
    /\ IF dir
         THEN /\ job' = [job EXCEPT ![s].pc = "write",
                             ![s].out = IF raw = Absent THEN "place" ELSE "temp"]
              /\ raw' = IF raw = Absent THEN Part ELSE raw
         ELSE /\ Answer(s, job)
              /\ UNCHANGED raw
    /\ UNCHANGED <<dir, writes, cache, flag, synced, alive>>

\* It closes the file, or renames the temporary one to it.
WriteCloses(s) ==
    /\ alive
    /\ job[s].pc = "write"
    /\ job[s].out \in {"place", "temp"}
    /\ writes' = writes + 1
    /\ raw' = writes + 1
    /\ job' = [WithoutMeasurement(job) EXCEPT ![s].pc = "written", ![s].out = "none"]
    /\ UNCHANGED <<dir, cache, flag, synced, alive>>

\* The file it has written in place is no longer in the directory.
WriteClosesNothing(s) ==
    /\ alive
    /\ job[s].pc = "write"
    /\ job[s].out = "gone"
    /\ job' = [job EXCEPT ![s].pc = "written", ![s].out = "none"]
    /\ UNCHANGED <<dir, raw, writes, cache, flag, synced, alive>>

\* The write fails (the disk is full, or the temporary file was removed): the
\* call is answered with Forbidden.  What was written in place stays.
WriteFails(s) ==
    /\ alive
    /\ job[s].pc = "write"
    /\ Answer(s, job)
    /\ UNCHANGED <<dir, raw, writes, cache, flag, synced, alive>>

NoFiles == [f \in File |-> Absent]

\* start_car_proc: without a postprocessor, or when the file cannot be opened,
\* the call is answered.  The file's existence is not checked.
StartCar(s, files, others) ==
    LET j == [others[s] EXCEPT !.i = 1]
    IN  \/ /\ Answer(s, others)
           /\ cache' = files
           /\ UNCHANGED alive
        \/ StartGenerator(s, j, j.queue[1], files, others)
        \/ CannotSpawn(s, j, j.queue[1], files, others)

\* The database script is run, or else the car script, or the call is done.
AfterWrite(s, files, others) ==
    IF job[s].dap
      THEN /\ \/ job' = [others EXCEPT ![s].pc = "dap", ![s].dap = FALSE]
              \/ Answer(s, others)
           /\ cache' = files
           /\ UNCHANGED alive
    ELSE IF job[s].queue # <<>>
      THEN StartCar(s, files, others)
    ELSE /\ Answer(s, others)
         /\ cache' = files
         /\ UNCHANGED alive

\* Mutant of WriteFinished: the generated files stay.
WriteFinishedKeeps(s) ==
    /\ alive
    /\ job[s].pc = "written"
    /\ flag' = FALSE
    /\ synced' = writes
    /\ AfterWrite(s, cache, job)
    /\ UNCHANGED <<dir, raw, writes>>

\* on_write_finish: delete_post_processing_results removes everything but the
\* measurement, the mapping is added to ML.xml (MeasurementIds; what that throws
\* is caught), and the call goes on.
WriteFinished(s) ==
    /\ alive
    /\ job[s].pc = "written"
    /\ flag' = FALSE
    /\ synced' = writes
    /\ AfterWrite(s, NoFiles, WithoutFiles(job))
    /\ UNCHANGED <<dir, raw, writes>>

\* Mutant of DapFinished: without a car script there is no answer.
DapFinishedSilent(s) ==
    /\ alive
    /\ job[s].pc = "dap"
    /\ job[s].queue # <<>>
    /\ StartCar(s, cache, job)
    /\ UNCHANGED <<dir, raw, writes, flag, synced>>

\* on_database_finish: an id in the script's output is mapped (MeasurementIds).
DapFinished(s) ==
    /\ alive
    /\ job[s].pc = "dap"
    /\ IF job[s].queue # <<>>
         THEN StartCar(s, cache, job)
         ELSE /\ Answer(s, job)
              /\ UNCHANGED <<cache, alive>>
    /\ UNCHANGED <<dir, raw, writes, flag, synced>>

(***************************************************************************)
(* dataFree and the DiskUsageManager.                                      *)
(***************************************************************************)

\* remove_directory; remove_mapping is in MeasurementIds.
Remove ==
    /\ dir' = FALSE
    /\ raw' = Absent
    /\ cache' = NoFiles
    /\ flag' = FALSE
    /\ job' = WithoutFiles(WithoutMeasurement(job))
    /\ UNCHANGED <<writes, synced, alive>>

\* dataFree with enforceDeletion, in an idle slot.
FreeNow ==
    /\ alive
    /\ \E s \in Slot : ~Busy(s)
    /\ dir
    /\ Remove

\* dataFree without it.
FlagForDeletion ==
    /\ alive
    /\ \E s \in Slot : ~Busy(s)
    /\ dir
    /\ flag' = TRUE
    /\ UNCHANGED <<dir, raw, writes, cache, job, synced, alive>>

\* The alarm of a monitor: flagged measurements are removed.
RemoveFlagged ==
    /\ alive
    /\ flag
    /\ Remove

\* The daemon is started again, after an exception or a loss of power.
Restart ==
    /\ alive' = TRUE
    /\ job' = [s \in Slot |-> NoJob]
    /\ UNCHANGED <<dir, raw, writes, cache, flag, synced>>

SlotStep(s) ==
    \/ GeneratorReads(s)
    \/ GeneratorSucceeds(s)
    \/ GeneratorFails(s)
    \/ CopyReads(s)
    \/ CopyFails(s)
    \/ CopyFinished(s)
    \/ WriteOpens(s)
    \/ WriteCloses(s)
    \/ WriteClosesNothing(s)
    \/ WriteFails(s)
    \/ WriteFinished(s)
    \/ DapFinished(s)

Next ==
    \/ \E s \in Slot :
          \/ StartDataOut(s)
          \/ StartGetMeasurement(s)
          \/ StartDataSync(s)
          \/ SlotStep(s)
    \/ FreeNow
    \/ FlagForDeletion
    \/ RemoveFlagged
    \/ Restart

Spec == Init /\ [][Next]_vars

\* Child processes have timeouts and file operations end.
FairSpec == Spec /\ \A s \in Slot : WF_vars(SlotStep(s))

(***************************************************************************)
(* Properties.                                                             *)
(***************************************************************************)

\* Whoever reads what he has written: a complete file that is delivered was
\* generated from the measurement of the last dataSync that had thrown the
\* generated files away when the call started, or from a later one.  A
\* generator that read the old measurement cannot put its file back
\* (on_write_finish, delete_post_processing_results).
FreshDelivery ==
    \A s \in Slot : \A c \in job[s].got : c = Part \/ c >= job[s].since

\* Two generators never write one file in place: a call that finds the file
\* of another one's generator skips it (is_post_processing_needed), and car
\* replaces it.
OneWriter ==
    \A s, t \in Slot :
        ( /\ s # t
          /\ job[s].pc = "gen" /\ job[s].out = "place"
          /\ job[t].pc = "gen" /\ job[t].out = "place" ) => Target(job[s]) # Target(job[t])

\* These calls terminate the daemon only in two cases: the files of a running
\* generator were removed, by a dataSync that stored the measurement again or by
\* freeing it, and its stream cannot be closed or its file not be deleted
\* (process_request.cc:183, core_function_data_out.cc:439); or a dataOut was past
\* its first entry and told of a postprocessor that cannot be run (:470).
TerminationHasCause ==
    ~alive => \E s \in Slot :
        \/ job[s].pc = "gen" /\ job[s].out \in {"gone", "lost"}
        \/ job[s].pc = "message" /\ job[s].fn = "dataOut" /\ job[s].i > 1

\* A file with a part of the output, that no generator is writing.
Orphans ==
    {f \in File : /\ cache[f] = Part
                  /\ ~ \E s \in Slot : /\ job[s].pc = "gen"
                                       /\ job[s].out = "place"
                                       /\ Target(job[s]) = f}

\* What shows that a message of dataOut failed: no file that was there became an
\* orphan, only the new one of the postprocessor that could not be run, and the
\* daemon ended or another file was deleted in the place of that one.
MessageFailed ==
    /\ \A f \in Orphans' \ Orphans : cache[f] = Absent
    /\ ~alive' \/ \E g \in File : cache[g] # Absent /\ cache'[g] = Absent

\* dataOut leaves no part of a file behind, which every later call would
\* deliver: not when the postprocessor fails, not when it cannot be run, and
\* whatever the call in the other slot does (debian/changelog:234 and :386);
\* unless it fails to tell of a postprocessor that cannot be run.
DataOutLeavesNoOrphan ==
    [][\A s \in Slot :
          (StartDataOut(s) \/ (job[s].fn = "dataOut" /\ SlotStep(s)))
              => Orphans' \subseteq Orphans \/ MessageFailed]_vars

\* Every call is answered, whatever fails, unless the daemon is terminated.
EveryCallAnswered ==
    \A s \in Slot : Busy(s) ~> (~Busy(s) \/ ~alive)
===============================================================================
