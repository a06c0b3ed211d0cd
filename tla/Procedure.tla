----------------------------- MODULE Procedure -----------------------------
(***************************************************************************)
(* Procedures (CoreFunctionProcedure) and what the daemon keeps of them on *)
(* disk (procedure_step_handler) to go on after a restart.  A procedure is *)
(* a list of functions; before each the user is shown a description, and   *)
(* the daemon waits for the answer.  Some functions update the device and  *)
(* restart it on the way.                                                  *)
(*                                                                         *)
(* The model is of the Release build of debian/rules, in which the         *)
(* assertions are compiled out.  The daemon has one thread: while a        *)
(* handler is at work (Busy) only a crash can intervene.  It matters       *)
(* between the writes of shutdown_procedure and between those of the boot, *)
(* so these are steps of their own.  The step file and the saved procedure *)
(* are replaced by a rename; the file of the executions, written in place, *)
(* is taken as written at once.                                            *)
(***************************************************************************)
EXTENDS Integers, Sequences, FiniteSets

CONSTANTS
    Request,     \* the procedures that clients send
    Steps,       \* Request -> the kinds of its functions
    IdOf,        \* Request -> its parameter "id"
    Limit,       \* Request -> its parameter "exec", or None
    MaxRetries,  \* ZIX_PROC_STEP_MAX_RETRIES (3 in the code)
    MaxAccepted, \* bound: procedures that are queued or run at the same time
    MaxRestarts, \* bound: how often the daemon is restarted
    None

Kind == {"plain", "undescribed", "sicUpdate", "dcUpdate"}
Id == {IdOf[r] : r \in Request}

StepFile ==
    [step : Int, retry : Nat, interface : Request \cup {None},
     file : Request \cup {None}, results : Seq(BOOLEAN)]

Call ==
    [req : Request, address : Request \cup {None}, pos : Nat \ {0}, retry : Nat,
     results : Seq(BOOLEAN),
     awaits : SUBSET {"start", "gui", "step", "restore", "finish"},
     ending : {"no", "unlink", "note", "count"}, status : BOOLEAN,
     then : {"finish", "answer", "goOn"}]

ASSUME ProcedureAssumption ==
    /\ Steps \in [Request -> Seq(Kind)]
    /\ Limit \in [Request -> Nat \cup {None}]
    /\ MaxRetries \in Nat
    /\ MaxAccepted \in Nat
    /\ MaxRestarts \in Nat
    /\ None \notin Request \cup Nat \cup BOOLEAN \cup Call

VARIABLES
    \* On disk.
    stepFile,  \* ZIX_PROC_STEP_FILE
    saveFile,  \* ZIX_PROC_SAVE_FILE: the procedure in it
    executed,  \* ZIX_EXEC_ATTR_FILE: id -> its count, or None
    update,    \* ZIX_UPDATE_RESULT_FILE: did the update succeed, or None
    \* In memory.
    up,        \* the daemon runs
    current,   \* current_interface, _result_filename and _result_list
    queue,     \* the requests XmlProcessor has not started
    call,      \* the CoreFunctionProcedure that is executed, or None
    \* History.
    answers,   \* the answers sent to the client of each request
    done,      \* Request -> how many of its steps have succeeded
    tries,     \* Request -> how often each step was started
    completed, \* id -> how often all steps of a procedure have succeeded
    restarts,
    cutShort,  \* how many restarts have hit a procedure while it ended
    forgotten, \* the requests that were not being executed at a restart
    badUpdate, \* an update has failed and restarted the device
    recounted  \* a restart has left the result of an update to be counted again

disk == <<stepFile, saveFile, executed, update>>
history == <<answers, done, tries, completed, restarts, cutShort, forgotten,
             badUpdate, recounted>>
vars == <<disk, up, current, queue, call, history>>

(***************************************************************************)
(* The step file.  Results are TRUE for status 200.                        *)
(***************************************************************************)
NoProcedure == [interface |-> None, file |-> None, results |-> <<>>]

NoStepFile ==
    [step |-> -1, retry |-> 0, interface |-> None, file |-> None,
     results |-> <<>>]

\* note_current_proc_step for a step that is not -1.
Note(step, retry, c) ==
    [step |-> step, retry |-> retry, interface |-> c.interface, file |-> c.file,
     results |-> c.results]

\* What get_current_proc_step reads into the current_ variables.
Reread(f) == [interface |-> f.interface, file |-> f.file, results |-> f.results]

\* get_current_proc_step adds the result of the update that restarted the
\* device as the result of the step it was in.
WithUpdateResult(f) ==
    IF update = None THEN f
    ELSE [f EXCEPT !.step = @ + 1, !.retry = 0, !.results = Append(@, update)]

(***************************************************************************)
(* The call.  `awaits' are the outstanding callbacks; `ending' is the next *)
(* write of the shutdown_procedure that is at work, and `then' what its    *)
(* caller does afterwards.                                                 *)
(***************************************************************************)
NewCall(e, pos, retry, results) ==
    [req |-> e.req, address |-> e.address, pos |-> pos, retry |-> retry,
     results |-> results, awaits |-> {"start"}, ending |-> "no",
     status |-> TRUE, then |-> "finish"]

AtEnd(c) == c.pos > Len(Steps[c.req])
KindAt(c) == Steps[c.req][c.pos]

Shutdown(c, status, then) ==
    [c EXCEPT !.ending = "unlink", !.status = status, !.then = then]

\* A function without a description is an error.
FailedStep(c) == Shutdown([c EXCEPT !.results = Append(@, FALSE)], FALSE, "finish")

Busy ==
    \/ ~up
    \/ call = None /\ queue # <<>>
    \/ call # None /\ call.ending # "no"

Idle == ~Busy

Awaiting(what) == Idle /\ call # None /\ what \in call.awaits

Held == Len(queue) + IF call = None THEN 0 ELSE 1

\* call_finished: the result goes to the client, or to the file of a request
\* that was resumed.
Answer(kind) ==
    /\ answers' = IF call.address = None THEN answers
                  ELSE [answers EXCEPT ![call.address] = Append(@, kind)]
    /\ call' = None

(***************************************************************************)
(* Steps.                                                                  *)
(***************************************************************************)
Init ==
    /\ stepFile = NoStepFile
    /\ saveFile = None
    /\ executed = [i \in Id |-> None]
    /\ update = None
    /\ up = TRUE
    /\ current = NoProcedure
    /\ queue = <<>>
    /\ call = None
    /\ answers = [r \in Request |-> <<>>]
    /\ done = [r \in Request |-> 0]
    /\ tries = [r \in Request |-> [k \in 1..Len(Steps[r]) |-> 0]]
    /\ completed = [i \in Id |-> 0]
    /\ restarts = 0
    /\ cutShort = 0
    /\ forgotten = {}
    /\ badUpdate = FALSE
    /\ recounted = FALSE

\* A request is saved when it is parsed, before it is queued.
Accept(r) ==
    /\ Idle
    /\ Held < MaxAccepted
    /\ r \notin forgotten
    /\ answers[r] = <<>>
    /\ call # None => call.req # r
    /\ \A k \in 1..Len(queue) : queue[k].req # r
    /\ saveFile' = r
    /\ current' = [current EXCEPT !.interface = r, !.file = r]
    /\ stepFile' = Note(0, 0, current')
    /\ queue' = Append(queue, [req |-> r, address |-> r])
    /\ UNCHANGED <<executed, update, up, call, history>>

\* Mutant of Construct: the retry is not counted.
ConstructSameRetry ==
    /\ up
    /\ call = None
    /\ queue # <<>>
    /\ queue' = Tail(queue)
    /\ current' = Reread(stepFile)
    /\ IF stepFile.step > 0
         THEN call' = NewCall(Head(queue), stepFile.step, stepFile.retry,
                              stepFile.results)
         ELSE call' = NewCall(Head(queue), 1, 0, <<>>)
    /\ UNCHANGED <<stepFile, saveFile, executed, update, up, history>>

\* The constructor.  A call whose step file is at a step is a resumed one.
Construct ==
    /\ up
    /\ call = None
    /\ queue # <<>>
    /\ queue' = Tail(queue)
    /\ current' = Reread(stepFile)
    /\ IF stepFile.step > 0
         THEN /\ stepFile' = [stepFile EXCEPT !.retry = @ + 1]
              /\ call' = NewCall(Head(queue), stepFile.step, stepFile.retry + 1,
                                 stepFile.results)
         ELSE /\ call' = NewCall(Head(queue), 1, 0, <<>>)
              /\ UNCHANGED stepFile
    /\ UNCHANGED <<saveFile, executed, update, up, history>>

\* The checks of signature and restrictions that precede start_call fail, or
\* the procedure lacks its id or its description: it is answered at once.
ChecksFail ==
    /\ Awaiting("start")
    /\ Answer("refused")
    /\ UNCHANGED <<disk, up, current, queue, done, tries, completed, restarts,
                   cutShort, forgotten, badUpdate, recounted>>

\* What start_call does when it gets past its checks.
StartedAt(c) ==
    IF AtEnd(c) THEN Shutdown(c, TRUE, "finish")
    ELSE IF KindAt(c) = "undescribed" THEN FailedStep(c)
    ELSE [c EXCEPT !.awaits = @ \cup {"gui"}]

\* Mutant of ExecExceeded: one execution too many.
ExecExceededLate ==
    /\ Limit[call.req] # None
    /\ executed[IdOf[call.req]] # None
    /\ executed[IdOf[call.req]] > Limit[call.req]

ExecExceeded ==
    /\ Limit[call.req] # None
    /\ executed[IdOf[call.req]] # None
    /\ executed[IdOf[call.req]] >= Limit[call.req]

\* check_exec_exceeded adds the id to its file.
ListId ==
    executed' = IF Limit[call.req] # None /\ executed[IdOf[call.req]] = None
                  THEN [executed EXCEPT ![IdOf[call.req]] = 0]
                  ELSE executed

StartCall ==
    /\ Awaiting("start")
    /\ LET c == [call EXCEPT !.awaits = {}]
           tooMany == c.retry > MaxRetries
           failed == c.results # <<>> /\ ~c.results[Len(c.results)]
           empty == AtEnd(c) /\ c.pos = 1
       IN
       \/ /\ tooMany
          /\ call' = Shutdown(c, FALSE, "answer")
          /\ UNCHANGED <<executed, answers>>
       \/ /\ ~tooMany /\ ExecExceeded
          /\ Answer("refused")
          /\ UNCHANGED executed
       \/ /\ ~tooMany /\ ~ExecExceeded
          /\ ListId
          /\ \/ failed /\ call' = Shutdown(c, FALSE, "goOn") /\ UNCHANGED answers
             \/ ~failed /\ empty /\ Answer("refused")
             \/ ~failed /\ ~empty /\ call' = StartedAt(c) /\ UNCHANGED answers
    /\ UNCHANGED <<stepFile, saveFile, update, up, current, queue, done, tries,
                   completed, restarts, cutShort, forgotten, badUpdate, recounted>>

\* The user has seen what comes next: the step is noted and executed.
GuiQueryFinished ==
    /\ Awaiting("gui")
    /\ stepFile' = Note(call.pos, call.retry, current)
    /\ call' = [call EXCEPT !.awaits = (@ \ {"gui"}) \cup {"step"}]
    /\ tries' = [tries EXCEPT ![call.req][call.pos] = @ + 1]
    /\ UNCHANGED <<saveFile, executed, update, up, current, queue, answers, done,
                   completed, restarts, cutShort, forgotten, badUpdate, recounted>>

\* Mutants of NextStep: the step is not noted before it is announced; the
\* last step is taken for the end.
NextStepStaleFile(c, describe) ==
    LET d == [c EXCEPT !.pos = @ + 1] IN
    IF AtEnd(d)
      THEN /\ call' = Shutdown(d, TRUE, "finish")
           /\ UNCHANGED <<current, stepFile>>
      ELSE /\ current' = [current EXCEPT !.results = d.results]
           /\ UNCHANGED stepFile
           /\ call' = IF describe /\ KindAt(d) = "undescribed"
                        THEN FailedStep(d)
                        ELSE [d EXCEPT !.awaits = @ \cup {"gui"}]

NextStepOneShort(c, describe) ==
    LET d == [c EXCEPT !.pos = @ + 1] IN
    IF d.pos >= Len(Steps[d.req])
      THEN /\ call' = Shutdown(d, TRUE, "finish")
           /\ UNCHANGED <<current, stepFile>>
      ELSE /\ current' = [current EXCEPT !.results = d.results]
           /\ stepFile' = Note(d.pos, 0, current')
           /\ call' = IF describe /\ KindAt(d) = "undescribed"
                        THEN FailedStep(d)
                        ELSE [d EXCEPT !.awaits = @ \cup {"gui"}]

\* The next step is noted and announced, or the procedure is at its end.
NextStep(c, describe) ==
    LET d == [c EXCEPT !.pos = @ + 1] IN
    IF AtEnd(d)
      THEN /\ call' = Shutdown(d, TRUE, "finish")
           /\ UNCHANGED <<current, stepFile>>
      ELSE /\ current' = [current EXCEPT !.results = d.results]
           /\ stepFile' = Note(d.pos, 0, current')
           /\ call' = IF describe /\ KindAt(d) = "undescribed"
                        THEN FailedStep(d)
                        ELSE [d EXCEPT !.awaits = @ \cup {"gui"}]

\* proc_step_finished.  A step that cannot be created fails in the same way.
ProcStepFinished(ok) ==
    /\ Awaiting("step")
    /\ LET c == [call EXCEPT !.awaits = @ \ {"step"},
                             !.results = Append(@, ok)]
       IN
       \/ /\ ~ok
          /\ call' = Shutdown(c, FALSE, "finish")
          /\ UNCHANGED <<current, stepFile, done>>
       \/ /\ ok
          /\ done' = [done EXCEPT ![call.req] = call.pos]
          /\ \/ /\ KindAt(c) = "dcUpdate"
                /\ call' = [c EXCEPT !.awaits = @ \cup {"restore"}]
                /\ UNCHANGED <<current, stepFile>>
             \/ /\ KindAt(c) # "dcUpdate"
                /\ NextStep(c, TRUE)
    /\ UNCHANGED <<saveFile, executed, update, up, queue, answers, tries,
                   completed, restarts, cutShort, forgotten, badUpdate, recounted>>

\* After an update of the DC the user interface is set up again.
DcUpdateGuiRestoreQueryFinished ==
    /\ Awaiting("restore")
    /\ NextStep([call EXCEPT !.awaits = @ \ {"restore"}], FALSE)
    /\ UNCHANGED <<saveFile, executed, update, up, queue, history>>

(***************************************************************************)
(* shutdown_procedure, write by write.                                     *)
(***************************************************************************)
Ending(write) == up /\ call # None /\ call.ending = write

\* What the caller does when the writes are done.
Ended(c) ==
    CASE c.then = "finish" -> [c EXCEPT !.ending = "no", !.awaits = @ \cup {"finish"}]
      [] c.then = "goOn" ->
            StartedAt([c EXCEPT !.ending = "no", !.then = "finish",
                                !.awaits = @ \cup {"finish"}])

UnlinkSaveFile ==
    /\ Ending("unlink")
    /\ saveFile' = None
    /\ current' = [current EXCEPT !.interface = None, !.results = <<>>]
    /\ call' = [call EXCEPT !.ending = "note"]
    /\ completed' = IF call.status
                      THEN [completed EXCEPT ![IdOf[call.req]] = @ + 1]
                      ELSE completed
    /\ UNCHANGED <<stepFile, executed, update, up, queue, answers, done, tries,
                   restarts, cutShort, forgotten, badUpdate, recounted>>

NoteEnd ==
    /\ Ending("note")
    /\ stepFile' = Note(-1, 0, current)
    /\ IF call.then = "answer" THEN Answer("failed")
       ELSE /\ call' = IF call.status THEN [call EXCEPT !.ending = "count"]
                       ELSE Ended(call)
            /\ UNCHANGED answers
    /\ UNCHANGED <<saveFile, executed, update, up, current, queue, done, tries,
                   completed, restarts, cutShort, forgotten, badUpdate, recounted>>

\* increment_exec_attribute: an id that is not in the file is an error.
IncrementExecAttribute ==
    /\ Ending("count")
    /\ LET n == executed[IdOf[call.req]] IN
       /\ executed' = IF n = None THEN executed
                      ELSE [executed EXCEPT ![IdOf[call.req]] = n + 1]
       /\ call' = Ended([call EXCEPT !.status = n # None])
    /\ UNCHANGED <<stepFile, saveFile, update, up, current, queue, history>>

\* The user has seen that the procedure is at its end.
GuiFinishFinished ==
    /\ Awaiting("finish")
    /\ Answer(IF call.status THEN "ok" ELSE "failed")
    /\ UNCHANGED <<disk, up, current, queue, done, tries, completed, restarts,
                   cutShort, forgotten, badUpdate, recounted>>

(***************************************************************************)
(* Restarts.                                                               *)
(***************************************************************************)
\* At any time, also between two writes; an update restarts the device and
\* may leave a result.
Restart ==
    /\ up
    /\ restarts < MaxRestarts
    /\ restarts' = restarts + 1
    /\ up' = FALSE
    /\ LET stepping == call # None /\ "step" \in call.awaits
           executing == call # None /\ call.ending = "no"
                           /\ "finish" \notin call.awaits
                           /\ stepFile.step > 0
           ended == call # None /\ call.ending \in {"note", "count"}
       IN
       /\ cutShort' = IF ended THEN cutShort + 1 ELSE cutShort
       /\ forgotten' =
            forgotten \cup {queue[k].req : k \in 1..Len(queue)}
                      \cup IF call = None \/ executing THEN {} ELSE {call.req}
       /\ \/ UNCHANGED <<update, done, badUpdate>>
          \/ /\ stepping /\ KindAt(call) = "sicUpdate"
             /\ update' \in BOOLEAN
             /\ done' = IF update' THEN [done EXCEPT ![call.req] = call.pos]
                        ELSE done
             /\ badUpdate' = (badUpdate \/ ~update')
    /\ current' = NoProcedure
    /\ queue' = <<>>
    /\ call' = None
    /\ UNCHANGED <<stepFile, saveFile, executed, answers, tries, completed,
                   recounted>>

\* Mutant of Boot: a procedure in its first step is not resumed.
BootSkipsFirst ==
    /\ ~up
    /\ up' = TRUE
    /\ update' = None
    /\ LET f == WithUpdateResult(stepFile)
           resume == f.step > 1 /\ saveFile # None
           c == Reread(f)
       IN
       /\ queue' = IF resume THEN <<[req |-> saveFile, address |-> f.file]>>
                   ELSE <<>>
       /\ current' = c
       /\ stepFile' = f
    /\ UNCHANGED <<saveFile, executed, call, history>>

\* XmlProcessor::init.  A step of 0 is not resumed.
Boot ==
    /\ ~up
    /\ up' = TRUE
    /\ update' = None
    /\ LET f == WithUpdateResult(stepFile)
           resume == f.step > 0 /\ saveFile # None
           orphan == f.step > 0 /\ saveFile = None
           c == Reread(f)
       IN
       /\ queue' = IF resume THEN <<[req |-> saveFile, address |-> f.file]>>
                   ELSE <<>>
       /\ current' = IF orphan THEN [c EXCEPT !.interface = None, !.results = <<>>]
                     ELSE c
       /\ stepFile' = IF orphan THEN Note(-1, 0, current') ELSE f
    /\ UNCHANGED <<saveFile, executed, call, history>>

\* A restart inside get_current_proc_step.  It notes the step behind the update
\* first and deletes the result then: between the two the result stays, and
\* the next boot counts it once more.
BootInterrupted ==
    /\ ~up
    /\ update # None
    /\ restarts < MaxRestarts
    /\ restarts' = restarts + 1
    /\ stepFile' = WithUpdateResult(stepFile)
    /\ update' \in {update, None}
    /\ recounted' = (recounted \/ update' # None)
    /\ UNCHANGED <<saveFile, executed, up, current, queue, call, answers, done,
                   tries, completed, cutShort, forgotten, badUpdate>>

Next ==
    \/ \E r \in Request : Accept(r)
    \/ Construct \/ ChecksFail \/ StartCall
    \/ GuiQueryFinished
    \/ \E ok \in BOOLEAN : ProcStepFinished(ok)
    \/ DcUpdateGuiRestoreQueryFinished
    \/ UnlinkSaveFile \/ NoteEnd \/ IncrementExecAttribute
    \/ GuiFinishFinished
    \/ Restart \/ Boot \/ BootInterrupted

Spec == Init /\ [][Next]_vars

\* The daemon runs and is started again, the functions end, and the user and
\* the DC answer (a guiIO has no timeout).
Fairness ==
    /\ WF_vars(Construct)
    /\ WF_vars(StartCall \/ ChecksFail)
    /\ WF_vars(GuiQueryFinished)
    /\ WF_vars(\E ok \in BOOLEAN : ProcStepFinished(ok))
    /\ WF_vars(DcUpdateGuiRestoreQueryFinished)
    /\ WF_vars(UnlinkSaveFile \/ NoteEnd \/ IncrementExecAttribute)
    /\ WF_vars(GuiFinishFinished)
    /\ WF_vars(Boot)

FairSpec == Spec /\ Fairness

(***************************************************************************)
(* Properties.                                                             *)
(***************************************************************************)
TypeOK ==
    /\ stepFile \in StepFile
    /\ saveFile \in Request \cup {None}
    /\ executed \in [Id -> Nat \cup {None}]
    /\ update \in BOOLEAN \cup {None}
    /\ up \in BOOLEAN
    /\ current \in [interface : Request \cup {None}, file : Request \cup {None},
                    results : Seq(BOOLEAN)]
    /\ queue \in Seq([req : Request, address : Request \cup {None}])
    /\ call \in Call \cup {None}
    /\ answers \in [Request -> Seq({"ok", "failed", "refused"})]
    /\ done \in [Request -> Nat]
    /\ tries \in [Request -> Seq(Nat)]
    /\ completed \in [Id -> Nat]
    /\ restarts \in 0..MaxRestarts
    /\ cutShort \in Nat
    /\ forgotten \subseteq Request
    /\ badUpdate \in BOOLEAN
    /\ recounted \in BOOLEAN

Executing == call # None /\ "step" \in call.awaits

\* A step is executed when all steps before it have succeeded and it has not:
\* no restart makes a procedure skip a step or repeat one that was done.  It
\* may repeat the last one and an update of the DC: after these the step file
\* is written later, when the procedure ends or the user interface is set up
\* again.  It does skip a step when it comes between the two writes of
\* get_current_proc_step (procedure_step_handler.cc:77-78).
StepsInOrder ==
    Executing /\ ~badUpdate /\ ~recounted =>
        \/ done[call.req] = call.pos - 1
        \/ /\ done[call.req] = call.pos
           /\ KindAt(call) = "dcUpdate" \/ call.pos = Len(Steps[call.req])

\* A step that restarts the device each time is not tried for ever
\* (core_function_procedure.cc:333-335).
TriesBounded ==
    ~badUpdate =>
        \A r \in Request : \A k \in DOMAIN tries[r] : tries[r][k] <= MaxRetries + 1

\* "exec" limits how often a procedure is executed.  Restarts cannot be used to
\* execute it again, but for one in the moment between the end of the
\* procedure and the counting of it.
ExecLimitHolds ==
    Executing /\ ~badUpdate /\ Limit[call.req] # None =>
        completed[IdOf[call.req]] < Limit[call.req] + cutShort

\* A client that is told "ok" has got a procedure all of whose steps succeeded,
\* unless the result of an update was counted twice.
OkMeansDone ==
    ~badUpdate /\ ~recounted =>
        \A r \in Request : \A k \in DOMAIN answers[r] :
            answers[r][k] = "ok" => done[r] = Len(Steps[r])

\* A procedure is answered, however often the device is restarted, unless a
\* restart hits it before its first step or after its last.
AcceptedIsAnswered ==
    \A r \in Request :
        (saveFile = r /\ stepFile.interface = r)
            ~> (answers[r] # <<>> \/ r \in forgotten)
=============================================================================
