--------------------------- MODULE ProcedureProofs ---------------------------
(***************************************************************************)
(* Proofs about Procedure: its types, and, for one procedure at a time and *)
(* updates that succeed, that steps are executed in order, tried a bounded *)
(* number of times and no more often than "exec" allows, and that "ok" is  *)
(* told only of a procedure that was done.                                 *)
(*                                                                         *)
(* A restart forgets what is in memory, so the invariant relates what has  *)
(* happened to the procedure to the two files, and the call to these.      *)
(***************************************************************************)
EXTENDS Procedure, SequenceTheorems, TLAPS

AllTrue(s) == \A k \in DOMAIN s : s[k] = TRUE

\* No step of r was started or has succeeded.
Unseen(r) == done[r] = 0 /\ \A k \in DOMAIN tries[r] : tries[r][k] = 0

\* The steps of r before p have succeeded, and p has not, unless it is one
\* that may be repeated.  Nothing is known of p once a result was recounted.
At(r, p) ==
    /\ p \in Nat \ {0}
    /\ \/ recounted
       \/ p <= Len(Steps[r]) + 1 /\ done[r] = p - 1
       \/ /\ done[r] = p
          /\ p <= Len(Steps[r])
          /\ Steps[r][p] = "dcUpdate" \/ p = Len(Steps[r])

NotTriedAfter(r, p) == \A k \in DOMAIN tries[r] : k > p => tries[r][k] = 0
Tried(r, p, n) == \A k \in DOMAIN tries[r] : k = p => tries[r][k] <= n

\* The files tell of a procedure to be resumed.
Resumable == saveFile # None /\ stepFile.step > 0

\* The call has not ended: it checks, asks the user, executes a step or sets
\* up the user interface.
Running == call.ending = "no" /\ "finish" \notin call.awaits
Checking == "start" \in call.awaits
Restoring == "restore" \in call.awaits
Asking == "gui" \in call.awaits

\* The last request of the caller is in memory, or can be resumed.
Pending(r) ==
    \/ \E k \in DOMAIN queue : queue[k].req = r
    \/ call # None /\ call.req = r
    \/ ~up /\ Resumable /\ saveFile = r

AllLimited(i) == \A r \in Request : IdOf[r] = i => Limit[r] # None
Count(i) == IF executed[i] = None THEN 0 ELSE executed[i]

\* The end of the running procedure is counted in `completed' only.
BeingCounted(i) ==
    call # None /\ call.ending \in {"note", "count"} /\ call.status /\ IdOf[call.req] = i

----------------------------------------------------------------------------
(* The conjuncts of the invariant.                                          *)

\* The call that only answers tells a failure.
AnswerFails ==
    call # None =>
        /\ call.then = "answer" => ~call.status /\ call.ending \in {"unlink", "note"}
        /\ call.ending = "count" => call.status

OnlyOne ==
    /\ Len(queue) <= 1
    /\ call # None => queue = <<>> /\ up
    /\ ~up => queue = <<>>
    /\ up => update = None
    /\ update # FALSE

FilesAgree ==
    /\ Resumable =>
         /\ stepFile.file = saveFile
         /\ At(saveFile, IF update = TRUE THEN stepFile.step + 1 ELSE stepFile.step)
         /\ NotTriedAfter(saveFile, stepFile.step)
         /\ Tried(saveFile, stepFile.step, stepFile.retry + 1)
    /\ update = TRUE => Resumable

AllSucceeded == AllTrue(stepFile.results) /\ AllTrue(current.results)

QueueAgrees ==
    queue # <<>> =>
        /\ saveFile # None
        /\ queue[1].req = saveFile
        /\ queue[1].address = saveFile
        /\ stepFile.file = saveFile
        /\ stepFile.step >= 0
        /\ stepFile.step = 0 => Unseen(saveFile)

\* How far the call is, as the step file has it.
RunningAgrees ==
    call # None /\ Running =>
        /\ \E what \in {"start", "gui", "step", "restore"} : call.awaits = {what}
        /\ saveFile = call.req
        /\ current.file = call.req
        /\ stepFile.file = call.req
        /\ stepFile.step \in {0, call.pos}
        /\ stepFile.step = 0 => call.pos = 1 /\ Unseen(call.req) /\ (Checking \/ Asking)
        /\ At(call.req, call.pos)
        /\ NotTriedAfter(call.req, call.pos)
        /\ AllTrue(call.results)
        /\ Checking \/ Asking => Tried(call.req, call.pos, call.retry)
        /\ ~Checking =>
             /\ call.pos <= Len(Steps[call.req])
             /\ call.retry <= MaxRetries
             /\ Limit[call.req] # None =>
                  /\ executed[IdOf[call.req]] # None
                  /\ Limit[call.req] > 0 => executed[IdOf[call.req]] < Limit[call.req]
        /\ Restoring => recounted \/ done[call.req] = call.pos

EndingAgrees ==
    call # None /\ ~Running =>
        /\ call.awaits = IF call.ending = "no" THEN {"finish"} ELSE {}
        /\ call.then # "goOn"
        /\ saveFile = IF call.ending = "unlink" THEN call.req ELSE None
        /\ call.status => recounted \/ done[call.req] = Len(Steps[call.req])
        /\ call.status /\ call.ending # "no" /\ Limit[call.req] # None =>
             executed[IdOf[call.req]] # None

AddressIsOwn == call # None => call.address = call.req

HistoryAgrees ==
    \A r \in Request :
        answers[r] = <<>> /\ r \notin forgotten /\ ~Pending(r) => Unseen(r)

\* A procedure that was told to be done is not in any file or call again.
OkIsOver ==
    \A r \in Request : \A k \in DOMAIN answers[r] :
        answers[r][k] = "ok" =>
            /\ recounted \/ done[r] = Len(Steps[r])
            /\ saveFile # r
            /\ call # None => call.req # r

TriesHold ==
    \A r \in Request : \A k \in DOMAIN tries[r] : tries[r][k] <= MaxRetries + 1

CountsAgree ==
    \A i \in Id :
        AllLimited(i) =>
            completed[i] <= Count(i) + cutShort + (IF BeingCounted(i) THEN 1 ELSE 0)

\* What holds for one procedure at a time while no update has failed.
InOrder ==
    /\ OnlyOne
    /\ FilesAgree
    /\ AllSucceeded
    /\ QueueAgrees
    /\ RunningAgrees
    /\ EndingAgrees
    /\ AddressIsOwn
    /\ HistoryAgrees
    /\ OkIsOver
    /\ TriesHold
    /\ CountsAgree

OneAtATime == MaxAccepted = 1 /\ ~badUpdate

PrInv ==
    /\ TypeOK
    /\ AnswerFails
    /\ OneAtATime => InOrder
----------------------------------------------------------------------------
(* What the operators return.                                               *)

Currents ==
    [interface : Request \cup {None}, file : Request \cup {None}, results : Seq(BOOLEAN)]
Entries == [req : Request, address : Request \cup {None}]

LEMMA NoneIsApart ==
    /\ None \notin Request /\ None \notin Nat
    /\ None # TRUE /\ None # FALSE
    /\ None \notin Call
BY ProcedureAssumption

LEMMA NewCallIsCall ==
    ASSUME NEW e \in Entries, NEW pos \in Nat \ {0}, NEW retry \in Nat,
           NEW results \in Seq(BOOLEAN)
    PROVE  NewCall(e, pos, retry, results) \in Call
BY DEF Entries, NewCall, Call

LEMMA ShutdownIsCall ==
    ASSUME NEW c \in Call, NEW status \in BOOLEAN,
           NEW then \in {"finish", "answer", "goOn"}
    PROVE  Shutdown(c, status, then) \in Call
BY DEF Shutdown, Call

LEMMA ShutdownFields ==
    ASSUME NEW c \in Call, NEW status \in BOOLEAN,
           NEW then \in {"finish", "answer", "goOn"}
    PROVE  LET d == Shutdown(c, status, then) IN
           /\ d.ending = "unlink" /\ d.status = status /\ d.then = then
           /\ d.req = c.req /\ d.address = c.address /\ d.pos = c.pos
           /\ d.retry = c.retry /\ d.results = c.results /\ d.awaits = c.awaits
BY DEF Shutdown, Call

LEMMA FailedStepIsCall ==
    ASSUME NEW c \in Call PROVE FailedStep(c) \in Call
<1>1. Append(c.results, FALSE) \in Seq(BOOLEAN)
  BY DEF Call
<1>2. [c EXCEPT !.results = Append(@, FALSE)] \in Call
  BY <1>1 DEF Call
<1> QED BY <1>2, ShutdownIsCall DEF FailedStep

LEMMA StartedAtIsCall ==
    ASSUME NEW c \in Call PROVE StartedAt(c) \in Call
<1>1. [c EXCEPT !.awaits = @ \cup {"gui"}] \in Call
  BY DEF Call
<1> QED BY <1>1, ShutdownIsCall, FailedStepIsCall DEF StartedAt

LEMMA EndedIsCall ==
    ASSUME NEW c \in Call, c.then # "answer" PROVE Ended(c) \in Call
<1>1. [c EXCEPT !.ending = "no", !.awaits = @ \cup {"finish"}] \in Call
  BY DEF Call
<1>2. [c EXCEPT !.ending = "no", !.then = "finish", !.awaits = @ \cup {"finish"}] \in Call
  BY DEF Call
<1>3. c.then \in {"finish", "goOn"}
  BY DEF Call
<1> QED BY <1>1, <1>2, <1>3, StartedAtIsCall DEF Ended

LEMMA NoteIsStepFile ==
    ASSUME NEW step \in Int, NEW retry \in Nat, NEW c \in Currents
    PROVE  Note(step, retry, c) \in StepFile
BY DEF Note, Currents, StepFile

LEMMA RereadIsCurrent ==
    ASSUME NEW f \in StepFile PROVE Reread(f) \in Currents
BY DEF Reread, Currents, StepFile

LEMMA UpdatedIsStepFile ==
    ASSUME NEW f \in StepFile, update \in BOOLEAN \cup {None}
    PROVE  WithUpdateResult(f) \in StepFile
<1>1. CASE update = None
  BY <1>1 DEF WithUpdateResult
<1>2. CASE update # None
  <2>1. Append(f.results, update) \in Seq(BOOLEAN)
    BY <1>2 DEF StepFile
  <2>2. f.step + 1 \in Int
    BY DEF StepFile
  <2> QED BY <1>2, <2>1, <2>2 DEF WithUpdateResult, StepFile
<1> QED BY <1>1, <1>2

\* What an answer leaves of the call is no call.
LEMMA AnswerTypes ==
    ASSUME TypeOK, NEW kind \in {"ok", "failed", "refused"}, Answer(kind), call # None
    PROVE  /\ answers' \in [Request -> Seq({"ok", "failed", "refused"})]
           /\ call' = None
<1>1. call \in Call /\ answers \in [Request -> Seq({"ok", "failed", "refused"})]
  BY DEF TypeOK
<1>2. CASE call.address = None
  BY <1>1, <1>2 DEF Answer
<1>3. CASE call.address # None
  <2>1. call.address \in Request
    BY <1>1, <1>3 DEF Call
  <2>2. Append(answers[call.address], kind) \in Seq({"ok", "failed", "refused"})
    BY <1>1, <2>1
  <2> QED BY <1>1, <1>3, <2>1, <2>2 DEF Answer
<1> QED BY <1>2, <1>3

----------------------------------------------------------------------------
(* Types: one lemma for each action.                                        *)

PrTypes == TypeOK /\ AnswerFails

LEMMA TypesInit == Init => PrTypes
<1> SUFFICES ASSUME Init PROVE PrTypes
  OBVIOUS
<1>1. \A r \in Request : [k \in 1..Len(Steps[r]) |-> 0] \in Seq(Nat)
  <2> TAKE r \in Request
  <2>1. Len(Steps[r]) \in Nat
    BY ProcedureAssumption
  <2> QED BY <2>1, IsASeq
<1>2. <<>> \in Seq(BOOLEAN) /\ <<>> \in Seq(Entries)
    /\ <<>> \in Seq({"ok", "failed", "refused"})
  OBVIOUS
<1>3. tries \in [Request -> Seq(Nat)]
  BY <1>1 DEF Init
<1>4. stepFile \in StepFile /\ current \in Currents
  BY <1>2 DEF Init, NoStepFile, NoProcedure, StepFile, Currents
<1>5. AnswerFails
  BY DEF Init, AnswerFails
<1>6. /\ executed \in [Id -> Nat \cup {None}]
      /\ answers \in [Request -> Seq({"ok", "failed", "refused"})]
      /\ done \in [Request -> Nat]
      /\ completed \in [Id -> Nat]
      /\ restarts \in 0..MaxRestarts /\ cutShort \in Nat
  BY <1>2, ProcedureAssumption DEF Init
<1>7. saveFile \in Request \cup {None} /\ update \in BOOLEAN \cup {None} /\ call \in Call \cup {None}
  BY DEF Init
<1>8. up \in BOOLEAN /\ badUpdate \in BOOLEAN /\ recounted \in BOOLEAN /\ forgotten \subseteq Request
  BY DEF Init
<1>9. queue \in Seq(Entries)
  BY <1>2 DEF Init
<1> QED BY <1>3, <1>4, <1>5, <1>6, <1>7, <1>8, <1>9 DEF PrTypes, TypeOK, Entries, Currents

LEMMA TypesAccept ==
    ASSUME PrTypes, NEW r \in Request, Accept(r) PROVE PrTypes'
<1> USE DEF PrTypes
<1>1. current' \in Currents
  BY DEF Accept, TypeOK, Currents
<1>2. stepFile' \in StepFile
  <2>1. stepFile' = Note(0, 0, current')
    BY DEF Accept
  <2>2. 0 \in Int /\ 0 \in Nat
    OBVIOUS
  <2> QED BY <1>1, <2>1, <2>2 DEF Note, Currents, StepFile
<1>3. queue' \in Seq(Entries)
  <2>1. [req |-> r, address |-> r] \in Entries
    BY DEF Entries
  <2>2. queue \in Seq(Entries)
    BY DEF TypeOK, Entries
  <2> QED BY <2>1, <2>2 DEF Accept
<1>4. UNCHANGED <<executed, update, up, call, history>>
  BY DEF Accept
<1>5. saveFile' \in Request \cup {None}
  BY DEF Accept
<1> QED BY <1>1, <1>2, <1>3, <1>4, <1>5 DEF TypeOK, AnswerFails, history, Currents, Entries
LEMMA TypesConstruct ==
    ASSUME PrTypes, Construct PROVE PrTypes'
<1> USE DEF PrTypes
<1> DEFINE e == Head(queue)
<1>1. queue \in Seq(Entries) /\ queue # <<>> /\ stepFile \in StepFile
  BY DEF Construct, TypeOK, Entries
<1>2. e \in Entries /\ queue' \in Seq(Entries)
  BY <1>1 DEF Construct
<1>3. current' \in Currents
  BY <1>1, RereadIsCurrent DEF Construct
<1>4. <<>> \in Seq(BOOLEAN) /\ 1 \in Nat \ {0} /\ 0 \in Nat
  OBVIOUS
<1>5. stepFile' \in StepFile /\ call' \in Call /\ call'.then = "finish" /\ call'.ending = "no"
  <2>1. CASE stepFile.step > 0
    <3>1. stepFile.step \in Nat \ {0} /\ stepFile.retry + 1 \in Nat /\ stepFile.results \in Seq(BOOLEAN)
      BY <1>1, <2>1 DEF StepFile
    <3>2. call' = NewCall(e, stepFile.step, stepFile.retry + 1, stepFile.results)
      BY <2>1 DEF Construct
    <3>3. call' \in Call
      BY <1>2, <3>1, <3>2, NewCallIsCall
    <3>4. stepFile' = [stepFile EXCEPT !.retry = @ + 1]
      BY <2>1 DEF Construct
    <3>5. stepFile' \in StepFile
      BY <1>1, <3>1, <3>4 DEF StepFile
    <3> QED BY <3>2, <3>3, <3>5 DEF NewCall
  <2>2. CASE ~(stepFile.step > 0)
    <3>1. call' = NewCall(e, 1, 0, <<>>) /\ stepFile' = stepFile
      BY <2>2 DEF Construct
    <3>2. call' \in Call
      BY <1>2, <1>4, <3>1, NewCallIsCall
    <3> QED BY <1>1, <3>1, <3>2 DEF NewCall
  <2> QED BY <2>1, <2>2
<1>6. UNCHANGED <<saveFile, executed, update, up, history>>
  BY DEF Construct
<1> QED BY <1>2, <1>3, <1>5, <1>6 DEF TypeOK, AnswerFails, history, Currents, Entries

LEMMA TypesChecksFail ==
    ASSUME PrTypes, ChecksFail PROVE PrTypes'
<1> USE DEF PrTypes
<1>1. Answer("refused") /\ call # None
  BY DEF ChecksFail, Awaiting
<1>2. UNCHANGED <<disk, up, current, queue, done, tries, completed, restarts,
                  cutShort, forgotten, badUpdate, recounted>>
  BY DEF ChecksFail
<1> QED BY <1>1, <1>2, AnswerTypes DEF TypeOK, AnswerFails, disk

LEMMA ListIdTypes ==
    ASSUME TypeOK, call # None, ListId PROVE executed' \in [Id -> Nat \cup {None}]
<1>1. executed \in [Id -> Nat \cup {None}]
  BY DEF TypeOK
<1> QED BY <1>1 DEF ListId

LEMMA TypesStartCall ==
    ASSUME PrTypes, StartCall PROVE PrTypes'
<1> USE DEF PrTypes
<1> DEFINE c == [call EXCEPT !.awaits = {}]
<1>1. call \in Call /\ call # None
  BY DEF StartCall, Awaiting, TypeOK
<1>2. c \in Call
  BY <1>1 DEF Call
<1>3. UNCHANGED <<stepFile, saveFile, update, up, current, queue, done, tries,
                  completed, restarts, cutShort, forgotten, badUpdate, recounted>>
  BY DEF StartCall
<1>4. executed' = executed \/ ListId
  BY DEF StartCall
<1>5. executed' \in [Id -> Nat \cup {None}]
  BY <1>1, <1>4, ListIdTypes DEF TypeOK
<1>6. \/ call' = Shutdown(c, FALSE, "answer") /\ answers' = answers
      \/ Answer("refused")
      \/ call' = Shutdown(c, FALSE, "goOn") /\ answers' = answers
      \/ call' = StartedAt(c) /\ answers' = answers
  BY DEF StartCall
<1>7. call.ending = "no" /\ c.ending = "no" /\ c.then # "answer"
  BY <1>1, <1>2 DEF StartCall, Awaiting, Idle, Busy, AnswerFails, Call
<1>8. /\ call' \in Call \cup {None}
      /\ answers' \in [Request -> Seq({"ok", "failed", "refused"})]
      /\ AnswerFails'
  <2>1. CASE call' = Shutdown(c, FALSE, "answer") /\ answers' = answers
    BY <1>2, <2>1, ShutdownIsCall, ShutdownFields DEF TypeOK, AnswerFails
  <2>2. CASE Answer("refused")
    BY <1>1, <2>2, AnswerTypes DEF AnswerFails
  <2>3. CASE call' = Shutdown(c, FALSE, "goOn") /\ answers' = answers
    BY <1>2, <2>3, ShutdownIsCall, ShutdownFields DEF TypeOK, AnswerFails
  <2>4. CASE call' = StartedAt(c) /\ answers' = answers
    <3>1. call' \in Call
      BY <1>2, <2>4, StartedAtIsCall
    <3>2. call'.then # "answer" /\ call'.ending # "count"
      BY <1>2, <1>7, <2>4 DEF StartedAt, FailedStep, Shutdown, Call
    <3> QED BY <2>4, <3>1, <3>2 DEF TypeOK, AnswerFails
  <2> QED BY <1>6, <2>1, <2>2, <2>3, <2>4
<1> QED BY <1>3, <1>5, <1>8 DEF TypeOK

LEMMA TypesGuiQueryFinished ==
    ASSUME PrTypes, GuiQueryFinished PROVE PrTypes'
<1> USE DEF PrTypes
<1>1. call \in Call /\ call # None /\ call.ending = "no" /\ current \in Currents
  BY DEF GuiQueryFinished, Awaiting, Idle, Busy, TypeOK, Currents
<1>2. stepFile' \in StepFile
  <2>1. call.pos \in Int /\ call.retry \in Nat
    BY <1>1 DEF Call
  <2> QED BY <1>1, <2>1, NoteIsStepFile DEF GuiQueryFinished
<1>3. call' \in Call
  BY <1>1 DEF GuiQueryFinished, Call
<1>4. AnswerFails'
  BY <1>1, <1>3 DEF GuiQueryFinished, AnswerFails, Call
<1>5. tries' \in [Request -> Seq(Nat)]
  <2>1. tries \in [Request -> Seq(Nat)] /\ call.req \in Request /\ call.pos \in Nat \ {0}
    BY <1>1 DEF TypeOK, Call
  <2>2. tries[call.req] \in Seq(Nat)
    BY <2>1
  <2>3. [tries[call.req] EXCEPT ![call.pos] = @ + 1] \in Seq(Nat)
    <3>1. CASE call.pos \in 1..Len(tries[call.req])
      <4>1. tries[call.req][call.pos] + 1 \in Nat
        BY <2>2, <3>1
      <4> QED BY <2>2, <3>1, <4>1, ExceptSeq
    <3>2. CASE call.pos \notin 1..Len(tries[call.req])
      <4>1. [tries[call.req] EXCEPT ![call.pos] = @ + 1] = tries[call.req]
        BY <2>2, <3>2
      <4> QED BY <2>2, <4>1
    <3> QED BY <3>1, <3>2
  <2> QED BY <2>1, <2>3 DEF GuiQueryFinished
<1>6. UNCHANGED <<saveFile, executed, update, up, current, queue, answers, done,
                  completed, restarts, cutShort, forgotten, badUpdate, recounted>>
  BY DEF GuiQueryFinished
<1> QED BY <1>2, <1>3, <1>4, <1>5, <1>6 DEF TypeOK
LEMMA NextStepTypes ==
    ASSUME TypeOK, NEW c \in Call, c.ending = "no", c.then # "answer",
           NEW describe \in BOOLEAN, NextStep(c, describe)
    PROVE  /\ call' \in Call /\ call'.then # "answer" /\ call'.ending # "count"
           /\ current' \in Currents /\ stepFile' \in StepFile
<1> DEFINE d == [c EXCEPT !.pos = @ + 1]
<1>1. d \in Call /\ d.ending = "no" /\ d.then # "answer"
  BY DEF Call
<1>2. current \in Currents /\ stepFile \in StepFile
  BY DEF TypeOK, Currents
<1>3. CASE AtEnd(d)
  <2>1. call' = Shutdown(d, TRUE, "finish") /\ current' = current /\ stepFile' = stepFile
    BY <1>3 DEF NextStep
  <2> QED BY <1>1, <1>2, <2>1, ShutdownIsCall, ShutdownFields
<1>4. CASE ~AtEnd(d)
  <2>1. /\ current' = [current EXCEPT !.results = d.results]
        /\ stepFile' = Note(d.pos, 0, current')
        /\ \/ call' = FailedStep(d)
           \/ call' = [d EXCEPT !.awaits = @ \cup {"gui"}]
    BY <1>4 DEF NextStep
  <2>2. current' \in Currents
    <3>1. d.results \in Seq(BOOLEAN)
      BY <1>1 DEF Call
    <3> QED BY <1>2, <2>1, <3>1 DEF Currents
  <2>3. stepFile' \in StepFile
    <3>1. d.pos \in Int /\ 0 \in Nat
      BY <1>1 DEF Call
    <3> QED BY <2>1, <2>2, <3>1 DEF Note, Currents, StepFile
  <2>4. CASE call' = FailedStep(d)
    <3>1. call' \in Call
      BY <1>1, <2>4, FailedStepIsCall
    <3>2. call'.then = "finish" /\ call'.ending = "unlink"
      BY <1>1, <2>4 DEF FailedStep, Shutdown, Call
    <3> QED BY <2>2, <2>3, <3>1, <3>2
  <2>5. CASE call' = [d EXCEPT !.awaits = @ \cup {"gui"}]
    <3>1. call' \in Call /\ call'.then = d.then /\ call'.ending = d.ending
      BY <1>1, <2>5 DEF Call
    <3> QED BY <1>1, <2>2, <2>3, <3>1
  <2> QED BY <2>1, <2>4, <2>5
<1> QED BY <1>3, <1>4

LEMMA TypesProcStepFinished ==
    ASSUME PrTypes, NEW ok \in BOOLEAN, ProcStepFinished(ok) PROVE PrTypes'
<1> USE DEF PrTypes
<1> DEFINE c == [call EXCEPT !.awaits = @ \ {"step"}, !.results = Append(@, ok)]
<1>1. call \in Call /\ call # None /\ call.ending = "no" /\ call.then # "answer"
  BY DEF ProcStepFinished, Awaiting, Idle, Busy, TypeOK, AnswerFails
<1>2. c \in Call /\ c.ending = "no" /\ c.then # "answer"
  <2>1. Append(call.results, ok) \in Seq(BOOLEAN)
    BY <1>1 DEF Call
  <2>2. c \in Call
    BY <1>1, <2>1 DEF Call
  <2> QED BY <1>1, <2>2 DEF Call
<1>3. done' \in [Request -> Nat]
  BY <1>1 DEF ProcStepFinished, TypeOK, Call
<1>4. UNCHANGED <<saveFile, executed, update, up, queue, answers, tries,
                  completed, restarts, cutShort, forgotten, badUpdate, recounted>>
  BY DEF ProcStepFinished
<1>5. \/ call' = Shutdown(c, FALSE, "finish") /\ current' = current /\ stepFile' = stepFile
      \/ /\ call' = [c EXCEPT !.awaits = @ \cup {"restore"}]
         /\ current' = current /\ stepFile' = stepFile
      \/ NextStep(c, TRUE)
  BY DEF ProcStepFinished
<1>6. /\ call' \in Call /\ call'.then # "answer" /\ call'.ending # "count"
      /\ current' \in Currents /\ stepFile' \in StepFile
  <2>1. current \in Currents /\ stepFile \in StepFile
    BY DEF TypeOK, Currents
  <2>2. CASE call' = Shutdown(c, FALSE, "finish") /\ current' = current /\ stepFile' = stepFile
    BY <1>2, <2>1, <2>2, ShutdownIsCall, ShutdownFields
  <2>3. CASE /\ call' = [c EXCEPT !.awaits = @ \cup {"restore"}]
             /\ current' = current /\ stepFile' = stepFile
    <3>1. call' \in Call /\ call'.then = c.then /\ call'.ending = c.ending
      BY <1>2, <2>3 DEF Call
    <3> QED BY <1>2, <2>1, <2>3, <3>1
  <2>4. CASE NextStep(c, TRUE)
    BY <1>2, <2>4, NextStepTypes
  <2> QED BY <1>5, <2>2, <2>3, <2>4
<1> QED BY <1>3, <1>4, <1>6 DEF TypeOK, AnswerFails, Currents

LEMMA TypesRestored ==
    ASSUME PrTypes, DcUpdateGuiRestoreQueryFinished PROVE PrTypes'
<1> USE DEF PrTypes
<1> DEFINE c == [call EXCEPT !.awaits = @ \ {"restore"}]
<1>1. call \in Call /\ call # None /\ call.ending = "no" /\ call.then # "answer"
  BY DEF DcUpdateGuiRestoreQueryFinished, Awaiting, Idle, Busy, TypeOK, AnswerFails
<1>2. c \in Call /\ c.ending = "no" /\ c.then # "answer"
  BY <1>1 DEF Call
<1>3. NextStep(c, FALSE)
  BY DEF DcUpdateGuiRestoreQueryFinished
<1>4. UNCHANGED <<saveFile, executed, update, up, queue, history>>
  BY DEF DcUpdateGuiRestoreQueryFinished
<1>5. /\ call' \in Call /\ call'.then # "answer" /\ call'.ending # "count"
      /\ current' \in Currents /\ stepFile' \in StepFile
  BY <1>2, <1>3, NextStepTypes
<1> QED BY <1>4, <1>5 DEF TypeOK, AnswerFails, Currents, history

LEMMA TypesUnlinkSaveFile ==
    ASSUME PrTypes, UnlinkSaveFile PROVE PrTypes'
<1> USE DEF PrTypes
<1>1. call \in Call /\ call # None /\ call.ending = "unlink"
  BY DEF UnlinkSaveFile, Ending, TypeOK
<1>2. call' \in Call /\ call'.ending = "note" /\ call'.then = call.then /\ call'.status = call.status
  BY <1>1 DEF UnlinkSaveFile, Call
<1>3. current' \in Currents
  <2>1. <<>> \in Seq(BOOLEAN) /\ current \in Currents
    BY DEF TypeOK, Currents
  <2>2. current' = [current EXCEPT !.interface = None, !.results = <<>>]
    BY DEF UnlinkSaveFile
  <2> QED BY <2>1, <2>2 DEF Currents
<1>4. completed' \in [Id -> Nat]
  <2>1. call.req \in Request /\ completed \in [Id -> Nat]
    BY <1>1 DEF TypeOK, Call
  <2>2. completed' = [completed EXCEPT ![IdOf[call.req]] = @ + 1] \/ completed' = completed
    BY DEF UnlinkSaveFile
  <2> QED BY <2>1, <2>2
<1>5. UNCHANGED <<stepFile, executed, update, up, queue, answers, done, tries,
                  restarts, cutShort, forgotten, badUpdate, recounted>> /\ saveFile' = None
  BY DEF UnlinkSaveFile
<1> QED BY <1>1, <1>2, <1>3, <1>4, <1>5 DEF TypeOK, AnswerFails, Currents

\* What is left of a call whose end has been written.
LEMMA EndedFields ==
    ASSUME NEW c \in Call, c.then # "answer"
    PROVE  Ended(c).then # "answer" /\ Ended(c).ending # "count"
<1>1. c.then \in {"finish", "goOn"}
  BY DEF Call
<1>2. CASE c.then = "finish"
  BY <1>2 DEF Ended, Call
<1>3. CASE c.then = "goOn"
  <2> DEFINE d == [c EXCEPT !.ending = "no", !.then = "finish", !.awaits = @ \cup {"finish"}]
  <2>1. d \in Call /\ d.then = "finish" /\ d.ending = "no"
    BY DEF Call
  <2>2. StartedAt(d).then = "finish" /\ StartedAt(d).ending \in {"no", "unlink"}
    BY <2>1 DEF StartedAt, FailedStep, Shutdown, Call
  <2>3. Ended(c) = StartedAt(d)
    BY <1>3 DEF Ended
  <2> QED BY <2>2, <2>3
<1> QED BY <1>1, <1>2, <1>3

LEMMA TypesNoteEnd ==
    ASSUME PrTypes, NoteEnd PROVE PrTypes'
<1> USE DEF PrTypes
<1>1. call \in Call /\ call # None /\ call.ending = "note" /\ current \in Currents
  BY DEF NoteEnd, Ending, TypeOK, Currents
<1>2. stepFile' \in StepFile
  BY <1>1, NoteIsStepFile DEF NoteEnd
<1>3. UNCHANGED <<saveFile, executed, update, up, current, queue, done, tries,
                  completed, restarts, cutShort, forgotten, badUpdate, recounted>>
  BY DEF NoteEnd
<1>4. /\ call' \in Call \cup {None}
      /\ answers' \in [Request -> Seq({"ok", "failed", "refused"})]
      /\ AnswerFails'
  <2>1. CASE call.then = "answer"
    <3>1. Answer("failed")
      BY <2>1 DEF NoteEnd
    <3> QED BY <1>1, <3>1, AnswerTypes DEF AnswerFails
  <2>2. CASE call.then # "answer" /\ call.status
    <3>1. call' = [call EXCEPT !.ending = "count"] /\ answers' = answers
      BY <2>2 DEF NoteEnd
    <3>2. call' \in Call /\ call'.then = call.then /\ call'.status = call.status
      BY <1>1, <3>1 DEF Call
    <3> QED BY <2>2, <3>1, <3>2 DEF AnswerFails, TypeOK
  <2>3. CASE call.then # "answer" /\ ~call.status
    <3>1. call' = Ended(call) /\ answers' = answers
      BY <2>3 DEF NoteEnd
    <3> QED BY <1>1, <2>3, <3>1, EndedIsCall, EndedFields DEF AnswerFails, TypeOK
  <2> QED BY <2>1, <2>2, <2>3
<1> QED BY <1>2, <1>3, <1>4 DEF TypeOK

LEMMA TypesIncrementExecAttribute ==
    ASSUME PrTypes, IncrementExecAttribute PROVE PrTypes'
<1> USE DEF PrTypes
<1> DEFINE n == executed[IdOf[call.req]]
           c == [call EXCEPT !.status = n # None]
<1>1. call \in Call /\ call # None /\ call.ending = "count" /\ call.then # "answer"
  BY DEF IncrementExecAttribute, Ending, TypeOK, AnswerFails
<1>2. c \in Call /\ c.then # "answer"
  <2>1. (n # None) \in BOOLEAN
    OBVIOUS
  <2> QED BY <1>1, <2>1 DEF Call
<1>3. call' = Ended(c)
  BY DEF IncrementExecAttribute
<1>4. call' \in Call /\ call'.then # "answer" /\ call'.ending # "count"
  BY <1>2, <1>3, EndedIsCall, EndedFields
<1>5. executed' \in [Id -> Nat \cup {None}]
  <2>1. call.req \in Request /\ executed \in [Id -> Nat \cup {None}]
    BY <1>1 DEF TypeOK, Call
  <2>2. IdOf[call.req] \in Id
    BY <2>1 DEF Id
  <2>3. n = None \/ n + 1 \in Nat
    BY <2>1, <2>2
  <2> QED BY <2>1, <2>2, <2>3 DEF IncrementExecAttribute
<1>6. UNCHANGED <<stepFile, saveFile, update, up, current, queue, history>>
  BY DEF IncrementExecAttribute
<1> QED BY <1>4, <1>5, <1>6 DEF TypeOK, AnswerFails, history

LEMMA TypesGuiFinishFinished ==
    ASSUME PrTypes, GuiFinishFinished PROVE PrTypes'
<1> USE DEF PrTypes
<1>1. call # None /\ \E kind \in {"ok", "failed", "refused"} : Answer(kind)
  BY DEF GuiFinishFinished, Awaiting
<1>2. UNCHANGED <<disk, up, current, queue, done, tries, completed, restarts,
                  cutShort, forgotten, badUpdate, recounted>>
  BY DEF GuiFinishFinished
<1> QED BY <1>1, <1>2, AnswerTypes DEF TypeOK, AnswerFails, disk

LEMMA TypesRestart ==
    ASSUME PrTypes, Restart PROVE PrTypes'
<1> USE DEF PrTypes
<1>1. restarts' \in 0..MaxRestarts /\ cutShort' \in Nat
  BY ProcedureAssumption DEF Restart, TypeOK
<1>2. update' \in BOOLEAN \cup {None} /\ badUpdate' \in BOOLEAN
  BY DEF Restart, TypeOK
<1>3. done' \in [Request -> Nat]
  BY DEF Restart, TypeOK, Call
<1>4. forgotten' \subseteq Request
  <2>1. \A k \in 1..Len(queue) : queue[k].req \in Request
    <3>1. queue \in Seq(Entries)
      BY DEF TypeOK, Entries
    <3>2. \A k \in 1..Len(queue) : queue[k] \in Entries
      BY <3>1
    <3> QED BY <3>2 DEF Entries
  <2>2. call # None => call.req \in Request
    BY DEF TypeOK, Call
  <2>3. {queue[k].req : k \in 1..Len(queue)} \subseteq Request
    BY <2>1
  <2>4. \/ forgotten' = forgotten \cup {queue[k].req : k \in 1..Len(queue)} \cup {}
        \/ /\ call # None
           /\ forgotten' = forgotten \cup {queue[k].req : k \in 1..Len(queue)} \cup {call.req}
    BY DEF Restart
  <2> QED BY <2>2, <2>3, <2>4 DEF TypeOK
<1>5. current' \in Currents
  BY DEF Restart, NoProcedure, Currents
<1>6. queue' \in Seq(Entries) /\ call' = None /\ up' = FALSE
  BY DEF Restart
<1>7. UNCHANGED <<stepFile, saveFile, executed, answers, tries, completed, recounted>>
  BY DEF Restart
<1> QED BY <1>1, <1>2, <1>3, <1>4, <1>5, <1>6, <1>7 DEF TypeOK, AnswerFails, Currents, Entries

LEMMA TypesBoot ==
    ASSUME PrTypes, Boot PROVE PrTypes'
<1> USE DEF PrTypes
<1> DEFINE f == WithUpdateResult(stepFile)
           c == Reread(f)
<1>1. f \in StepFile
  BY UpdatedIsStepFile DEF TypeOK
<1>2. c \in Currents
  BY <1>1, RereadIsCurrent
<1>3. current' \in Currents
  <2>1. current' = c \/ current' = [c EXCEPT !.interface = None, !.results = <<>>]
    BY DEF Boot
  <2>2. <<>> \in Seq(BOOLEAN)
    OBVIOUS
  <2> QED BY <1>2, <2>1, <2>2 DEF Currents
<1>4. stepFile' \in StepFile
  <2>1. stepFile' = f \/ stepFile' = Note(-1, 0, current')
    BY DEF Boot
  <2>2. -1 \in Int /\ 0 \in Nat
    OBVIOUS
  <2> QED BY <1>1, <1>3, <2>1, <2>2 DEF Note, Currents, StepFile
<1>5. queue' \in Seq(Entries)
  <2>1. CASE queue' = <<>>
    BY <2>1
  <2>2. CASE saveFile # None /\ queue' = <<[req |-> saveFile, address |-> f.file]>>
    <3>1. [req |-> saveFile, address |-> f.file] \in Entries
      BY <1>1, <2>2 DEF TypeOK, Entries, StepFile
    <3> QED BY <2>2, <3>1
  <2> QED BY <2>1, <2>2 DEF Boot
<1>6. UNCHANGED <<saveFile, executed, call, history>> /\ up' = TRUE /\ update' = None
  BY DEF Boot
<1> QED BY <1>3, <1>4, <1>5, <1>6 DEF TypeOK, AnswerFails, Currents, Entries, history

LEMMA TypesBootInterrupted ==
    ASSUME PrTypes, BootInterrupted PROVE PrTypes'
<1> USE DEF PrTypes
<1>1. stepFile' \in StepFile
  BY UpdatedIsStepFile DEF BootInterrupted, TypeOK
<1>2. restarts' \in 0..MaxRestarts
  BY ProcedureAssumption DEF BootInterrupted, TypeOK
<1>3. update' \in BOOLEAN \cup {None}
  BY DEF BootInterrupted, TypeOK
<1>4. recounted' \in BOOLEAN
  BY DEF BootInterrupted, TypeOK
<1>5. UNCHANGED <<saveFile, executed, up, current, queue, call, answers, done,
                  tries, completed, cutShort, forgotten, badUpdate>>
  BY DEF BootInterrupted
<1> QED BY <1>1, <1>2, <1>3, <1>4, <1>5 DEF TypeOK, AnswerFails

LEMMA TypesStep ==
    ASSUME PrTypes, [Next]_vars PROVE PrTypes'
<1>1. CASE UNCHANGED vars
  BY <1>1 DEF vars, disk, history, PrTypes, TypeOK, AnswerFails
<1>2. CASE Next
  BY <1>2, TypesAccept, TypesConstruct, TypesChecksFail, TypesStartCall, TypesGuiQueryFinished,
     TypesProcStepFinished, TypesRestored, TypesUnlinkSaveFile, TypesNoteEnd,
     TypesIncrementExecAttribute, TypesGuiFinishFinished, TypesRestart, TypesBoot,
     TypesBootInterrupted DEF Next
<1> QED BY <1>1, <1>2
----------------------------------------------------------------------------
(* The order: one lemma for each action.                                    *)

LEMMA OrderInit == Init => InOrder
<1> SUFFICES ASSUME Init PROVE InOrder
  OBVIOUS
<1>1. OnlyOne
  <2>1. update = None
    BY DEF Init
  <2>2. update # FALSE
    BY <2>1, NoneIsApart, Zenon
  <2>3. queue = <<>> /\ Len(queue) <= 1
    BY DEF Init
  <2>4. call = None /\ up = TRUE
    BY DEF Init
  <2> QED BY <2>1, <2>2, <2>3, <2>4, Zenon DEF OnlyOne
<1>2. FilesAgree /\ QueueAgrees /\ RunningAgrees /\ EndingAgrees /\ AddressIsOwn
  BY NoneIsApart DEF Init, FilesAgree, Resumable, QueueAgrees, RunningAgrees, EndingAgrees, AddressIsOwn
<1>3. AllSucceeded
  BY DEF Init, AllSucceeded, AllTrue, NoStepFile, NoProcedure
<1>4. \A r \in Request : Unseen(r)
  <2>1. \A r \in Request : Len(Steps[r]) \in Nat
    BY ProcedureAssumption
  <2> QED BY <2>1 DEF Init, Unseen
<1>5. HistoryAgrees
  BY <1>4 DEF HistoryAgrees
<1>6. OkIsOver
  BY DEF Init, OkIsOver
<1>7. TriesHold
  BY <1>4, ProcedureAssumption DEF TriesHold, Unseen
<1>8. CountsAgree
  BY NoneIsApart DEF Init, CountsAgree, Count, BeingCounted
<1> QED BY <1>1, <1>2, <1>3, <1>5, <1>6, <1>7, <1>8 DEF InOrder

LEMMA OrderAccept ==
    ASSUME PrTypes, MaxAccepted = 1, InOrder, NEW r \in Request, Accept(r)
    PROVE  InOrder'
<1> DEFINE e == [req |-> r, address |-> r]
<1>1. queue = <<>> /\ call = None /\ up
  <2>1. queue \in Seq(Entries)
    BY DEF PrTypes, TypeOK, Entries
  <2>2. Len(queue) \in Nat
    BY <2>1
  <2>3. Len(queue) + (IF call = None THEN 0 ELSE 1) < 1 /\ Idle
    BY DEF Accept, Held
  <2>4. Len(queue) = 0 /\ call = None
    BY <2>2, <2>3
  <2>5. queue = <<>>
    BY <2>1, <2>4, EmptySeq
  <2> QED BY <2>3, <2>4, <2>5 DEF Idle, Busy
<1>2. queue' = <<e>>
  BY <1>1 DEF Accept
<1>3. Len(queue') = 1 /\ queue'[1] = e /\ DOMAIN queue' = {1} /\ queue' # <<>>
  BY <1>2
<1>4. UNCHANGED <<executed, update, up, call, answers, done, tries, completed, cutShort, forgotten, recounted>>
  BY DEF Accept, history
<1>5. answers[r] = <<>> /\ r \notin forgotten /\ saveFile' = r
  BY DEF Accept
<1>6. current \in Currents
  BY DEF PrTypes, TypeOK, Currents
<1>7. current' = [current EXCEPT !.interface = r, !.file = r] /\ stepFile' = Note(0, 0, current')
  BY DEF Accept
<1>8. current'.file = r /\ current'.results = current.results
  BY <1>6, <1>7 DEF Currents
<1>9. stepFile'.step = 0 /\ stepFile'.file = r /\ stepFile'.results = current.results
  BY <1>7, <1>8 DEF Note
<1>10. update = None
  BY <1>1 DEF InOrder, OnlyOne
<1>11. update' # TRUE /\ update' # FALSE
  BY <1>4, <1>10, NoneIsApart, Zenon
<1>12. OnlyOne' /\ FilesAgree'
  <2>1. OnlyOne'
    <3>1. Len(queue') <= 1
      BY <1>3
    <3>2. call' = None /\ up' = up /\ update' = None
      BY <1>1, <1>4, <1>10
    <3> QED BY <1>1, <1>11, <3>1, <3>2, Zenon DEF OnlyOne
  <2>2. ~(stepFile'.step > 0)
    BY <1>9
  <2>3. FilesAgree'
    BY <1>11, <2>2 DEF FilesAgree, Resumable
  <2> QED BY <2>1, <2>3
<1>13. AllSucceeded'
  BY <1>8, <1>9 DEF InOrder, AllSucceeded, AllTrue
<1>14. Unseen(r)
  <2>1. ~Pending(r)
    BY <1>1 DEF Pending
  <2> QED BY <1>5, <2>1 DEF InOrder, HistoryAgrees
<1>15. QueueAgrees'
  <2>1. Unseen(r)'
    BY <1>4, <1>14 DEF Unseen
  <2> QED BY <1>3, <1>5, <1>9, <2>1, NoneIsApart DEF QueueAgrees
<1>16. RunningAgrees' /\ EndingAgrees' /\ AddressIsOwn'
  BY <1>1, <1>4 DEF RunningAgrees, EndingAgrees, AddressIsOwn
<1>17. HistoryAgrees'
  <2> SUFFICES ASSUME NEW s \in Request, answers'[s] = <<>>, s \notin forgotten', ~Pending(s)'
               PROVE  Unseen(s)'
    BY DEF HistoryAgrees
  <2>1. ~Pending(s)
    BY <1>1 DEF Pending
  <2>2. Unseen(s)
    BY <1>4, <2>1 DEF InOrder, HistoryAgrees
  <2> QED BY <1>4, <2>2 DEF Unseen
<1>18. OkIsOver'
  BY <1>1, <1>4, <1>5 DEF InOrder, OkIsOver
<1>19. TriesHold'
  BY <1>4 DEF InOrder, TriesHold
<1>20. CountsAgree'
  BY <1>1, <1>4 DEF InOrder, CountsAgree, Count, BeingCounted
<1> QED BY <1>12, <1>13, <1>15, <1>16, <1>17, <1>18, <1>19, <1>20 DEF InOrder
\* The only callback that is awaited.
LEMMA AwaitedAlone ==
    ASSUME PrTypes, InOrder, call # None, call.ending = "no",
           NEW what \in {"start", "gui", "step", "restore", "finish"}, what \in call.awaits
    PROVE  call.awaits = {what} /\ (Running <=> what # "finish")
BY DEF InOrder, RunningAgrees, EndingAgrees, Running

LEMMA OrderConstruct ==
    ASSUME PrTypes, InOrder, Construct PROVE InOrder'
<1> DEFINE e == Head(queue)
<1>1. queue \in Seq(Entries) /\ queue # <<>> /\ call = None /\ up
  BY DEF Construct, PrTypes, TypeOK, Entries
<1>2. Len(queue) <= 1 /\ update = None
  BY <1>1, Zenon DEF InOrder, OnlyOne
<1>3. e = queue[1] /\ queue' = <<>> /\ e \in Entries /\ DOMAIN queue = {1}
  <2>1. Len(queue) = 1
    <3>1. Len(queue) \in Nat
      BY <1>1
    <3>2. Len(queue) # 0
      BY <1>1, EmptySeq
    <3>3. \A n \in Nat : n # 0 /\ n <= 1 => n = 1
      OBVIOUS
    <3> QED BY <1>2, <3>1, <3>2, <3>3, Zenon
  <2> QED BY <1>1, <2>1 DEF Construct
<1>4. PICK r \in Request : r = saveFile
  BY <1>1 DEF InOrder, QueueAgrees, PrTypes, TypeOK
<1>5. /\ e.req = r /\ e.address = r /\ stepFile.file = r
      /\ stepFile.step >= 0
      /\ stepFile.step = 0 => Unseen(r)
      /\ stepFile \in StepFile /\ Len(Steps[r]) \in Nat
      /\ r # None
  BY <1>1, <1>3, <1>4, ProcedureAssumption, NoneIsApart DEF InOrder, QueueAgrees, PrTypes, TypeOK
<1>6. UNCHANGED <<saveFile, executed, update, up, answers, done, tries, completed, cutShort, forgotten, recounted>>
  BY DEF Construct, history
<1>7. current'.file = r /\ current'.results = stepFile.results
  BY <1>5 DEF Construct, Reread
<1>8. update # TRUE /\ update # FALSE /\ update' # TRUE /\ update' # FALSE
  BY <1>2, <1>6, NoneIsApart, Zenon
<1> DEFINE Begun(p, n) ==
        /\ call' \in Call
        /\ call'.req = r /\ call'.address = r /\ call'.pos = p /\ call'.retry = n
        /\ call'.awaits = {"start"} /\ call'.ending = "no"
        /\ AllTrue(call'.results)
        /\ At(r, p) /\ NotTriedAfter(r, p) /\ Tried(r, p, n)
        /\ stepFile'.step \in {0, p} /\ stepFile'.file = r
        /\ stepFile'.results = stepFile.results
        /\ stepFile'.step = 0 => p = 1 /\ Unseen(r)
        /\ stepFile'.step > 0 => Tried(r, p, stepFile'.retry + 1)
<1>9. \E p, n : Begun(p, n)
  <2>1. CASE stepFile.step > 0
    <3> DEFINE p == stepFile.step
               n == stepFile.retry + 1
    <3>1. call' = NewCall(e, p, n, stepFile.results) /\ stepFile' = [stepFile EXCEPT !.retry = @ + 1]
      BY <2>1 DEF Construct
    <3>2. /\ call'.req = r /\ call'.address = r /\ call'.pos = p /\ call'.retry = n
          /\ call'.awaits = {"start"} /\ call'.ending = "no" /\ call'.results = stepFile.results
      BY <1>5, <3>1 DEF NewCall
    <3>3. p \in Nat \ {0} /\ n \in Nat /\ stepFile.results \in Seq(BOOLEAN)
      BY <1>5, <2>1 DEF StepFile
    <3>4. call' \in Call
      BY <1>3, <3>1, <3>3, NewCallIsCall
    <3>5. stepFile'.step = p /\ stepFile'.file = r /\ stepFile'.results = stepFile.results
          /\ stepFile'.retry = n
      BY <1>5, <3>1 DEF StepFile
    <3>6. AllTrue(call'.results)
      BY <3>2 DEF InOrder, AllSucceeded
    <3>7. Resumable
      BY <1>4, <1>5, <2>1 DEF Resumable
    <3>8. At(r, p) /\ NotTriedAfter(r, p) /\ Tried(r, p, n)
      BY <1>4, <1>8, <3>7, Zenon DEF InOrder, FilesAgree
    <3>9. Tried(r, p, stepFile'.retry + 1)
      <4>1. tries[r] \in Seq(Nat)
        BY <1>5 DEF PrTypes, TypeOK
      <4> QED BY <3>3, <3>5, <3>8, <4>1 DEF Tried
    <3>10. p # 0
      BY <2>1
    <3>11. Begun(p, n)
      BY <3>2, <3>4, <3>5, <3>6, <3>8, <3>9, <3>10
    <3> QED BY <3>11
  <2>2. CASE stepFile.step = 0
    <3>1. call' = NewCall(e, 1, 0, <<>>) /\ stepFile' = stepFile
      BY <2>2 DEF Construct
    <3>2. /\ call'.req = r /\ call'.address = r /\ call'.pos = 1 /\ call'.retry = 0
          /\ call'.awaits = {"start"} /\ call'.ending = "no" /\ call'.results = <<>>
      BY <1>5, <3>1 DEF NewCall
    <3>3. 1 \in Nat \ {0} /\ 0 \in Nat /\ <<>> \in Seq(BOOLEAN)
      OBVIOUS
    <3>4. call' \in Call
      BY <1>3, <3>1, <3>3, NewCallIsCall
    <3>5. AllTrue(call'.results)
      BY <3>2 DEF AllTrue
    <3>6. Unseen(r)
      BY <1>5, <2>2
    <3>7. At(r, 1) /\ NotTriedAfter(r, 1) /\ Tried(r, 1, 0)
      BY <1>5, <3>6 DEF Unseen, At, NotTriedAfter, Tried
    <3>8. Begun(1, 0)
      BY <1>5, <2>2, <3>1, <3>2, <3>4, <3>5, <3>6, <3>7
    <3> QED BY <3>8
  <2> QED BY <1>5, <2>1, <2>2 DEF StepFile
<1>10. PICK p, n : Begun(p, n)
  BY <1>9
<1> HIDE DEF Begun
<1>11. call' # None
  BY <1>10, NoneIsApart DEF Begun
<1>12. At(r, p)' /\ NotTriedAfter(r, p)' /\ Tried(r, p, n)' /\ (Unseen(r)' <=> Unseen(r))
       /\ (stepFile.step > 0 => Tried(r, p, stepFile.retry + 1))'
  BY <1>6, <1>10 DEF Begun, At, NotTriedAfter, Tried, Unseen
<1>13. OnlyOne'
  <2>1. Len(queue') <= 1
    BY <1>3
  <2> QED BY <1>1, <1>3, <1>6, <1>2, <1>8, <2>1, Zenon DEF OnlyOne
<1>14. FilesAgree'
  <2>1. stepFile'.step > 0 => stepFile'.step = p
    BY <1>10 DEF Begun
  <2>2. (Resumable => /\ stepFile.file = saveFile
                      /\ At(saveFile, stepFile.step)
                      /\ NotTriedAfter(saveFile, stepFile.step)
                      /\ Tried(saveFile, stepFile.step, stepFile.retry + 1))'
    BY <1>4, <1>6, <1>10, <1>12, <2>1 DEF Begun, Resumable
  <2> QED BY <1>8, <2>2, Zenon DEF FilesAgree
<1>15. AllSucceeded'
  BY <1>7, <1>10 DEF Begun, InOrder, AllSucceeded
<1>16. QueueAgrees'
  BY <1>3 DEF QueueAgrees
<1>17. RunningAgrees' /\ EndingAgrees' /\ AddressIsOwn'
  <2>1. Running' /\ Checking' /\ ~Restoring'
    BY <1>10 DEF Begun, Running, Checking, Restoring
  <2>2. RunningAgrees'
    BY <1>4, <1>6, <1>7, <1>10, <1>12, <2>1 DEF Begun, RunningAgrees
  <2> QED BY <1>10, <2>1, <2>2 DEF Begun, EndingAgrees, AddressIsOwn
<1>18. HistoryAgrees'
  <2> SUFFICES ASSUME NEW s \in Request, answers'[s] = <<>>, s \notin forgotten', ~Pending(s)'
               PROVE  Unseen(s)'
    BY DEF HistoryAgrees
  <2>1. s # r
    BY <1>10, <1>11 DEF Pending, Begun
  <2>2. ~Pending(s)
    BY <1>1, <1>3, <1>5, <2>1 DEF Pending
  <2>3. Unseen(s)
    BY <1>6, <2>2 DEF InOrder, HistoryAgrees
  <2> QED BY <1>6, <2>3 DEF Unseen
<1>19. OkIsOver'
  BY <1>4, <1>6, <1>10 DEF Begun, InOrder, OkIsOver
<1>20. TriesHold'
  BY <1>6 DEF InOrder, TriesHold
<1>21. CountsAgree'
  <2>1. \A i \in Id : ~BeingCounted(i) /\ ~BeingCounted(i)'
    BY <1>1, <1>10 DEF Begun, BeingCounted
  <2> QED BY <1>6, <2>1 DEF InOrder, CountsAgree, Count
<1> QED BY <1>13, <1>14, <1>15, <1>16, <1>17, <1>18, <1>19, <1>20, <1>21 DEF InOrder
\* What an answer keeps, if "ok" is only told of a procedure that was done.
LEMMA AnswerAgrees ==
    ASSUME PrTypes, InOrder, call # None, NEW kind \in {"ok", "failed", "refused"},
           Answer(kind),
           kind = "ok" => /\ recounted \/ done[call.req] = Len(Steps[call.req])
                          /\ saveFile = None,
           UNCHANGED <<saveFile, update, up, queue, done, tries, forgotten, recounted>>
    PROVE  /\ call' = None /\ OnlyOne' /\ QueueAgrees'
           /\ RunningAgrees' /\ EndingAgrees' /\ AddressIsOwn'
           /\ HistoryAgrees' /\ OkIsOver' /\ TriesHold'
<1> DEFINE r == call.req
<1>1. call \in Call /\ answers \in [Request -> Seq({"ok", "failed", "refused"})]
  BY DEF PrTypes, TypeOK
<1>2. r \in Request /\ call.address = r /\ r # None
  BY <1>1, NoneIsApart DEF Call, InOrder, AddressIsOwn
<1>3. queue = <<>> /\ up
  BY Zenon DEF InOrder, OnlyOne
<1>4. answers' = [answers EXCEPT ![r] = Append(@, kind)] /\ call' = None
  BY <1>2 DEF Answer
<1>5. /\ answers'[r] # <<>>
      /\ \A s \in Request : s # r => answers'[s] = answers[s]
      /\ \A k \in DOMAIN answers'[r] :
           answers'[r][k] = "ok" => kind = "ok" \/ (k \in DOMAIN answers[r] /\ answers[r][k] = "ok")
  <2>1. answers[r] \in Seq({"ok", "failed", "refused"})
    BY <1>1, <1>2
  <2>2. answers'[r] = Append(answers[r], kind)
    BY <1>1, <1>2, <1>4
  <2>3. /\ Len(answers'[r]) = Len(answers[r]) + 1
        /\ \A k \in 1..Len(answers[r]) : answers'[r][k] = answers[r][k]
        /\ answers'[r][Len(answers[r]) + 1] = kind
        /\ answers'[r] # <<>>
        /\ DOMAIN answers'[r] = 1..(Len(answers[r]) + 1)
        /\ DOMAIN answers[r] = 1..Len(answers[r])
        /\ Len(answers[r]) \in Nat
    BY <2>1, <2>2, AppendProperties
  <2>4. ASSUME NEW k \in DOMAIN answers'[r], answers'[r][k] = "ok", kind # "ok"
        PROVE  k \in DOMAIN answers[r] /\ answers[r][k] = "ok"
    BY <2>3, <2>4, SMTT(20)
  <2>5. \A s \in Request : s # r => answers'[s] = answers[s]
    BY <1>1, <1>2, <1>4
  <2> QED BY <2>3, <2>4, <2>5
<1>6. OnlyOne'
  BY <1>3, <1>4, Zenon DEF InOrder, OnlyOne
<1>7. QueueAgrees'
  BY <1>3 DEF QueueAgrees
<1>8. RunningAgrees' /\ EndingAgrees' /\ AddressIsOwn'
  BY <1>4 DEF RunningAgrees, EndingAgrees, AddressIsOwn
<1>9. HistoryAgrees'
  <2> SUFFICES ASSUME NEW s \in Request, answers'[s] = <<>>, s \notin forgotten'
               PROVE  Unseen(s)'
    BY DEF HistoryAgrees
  <2>1. s # r
    BY <1>5
  <2>2. ~Pending(s)
    BY <1>3, <2>1 DEF Pending
  <2>3. Unseen(s)
    BY <1>5, <2>1, <2>2 DEF InOrder, HistoryAgrees
  <2> QED BY <2>3 DEF Unseen
<1>10. OkIsOver'
  <2> SUFFICES ASSUME NEW s \in Request, NEW k \in DOMAIN answers'[s], answers'[s][k] = "ok"
               PROVE  (recounted \/ done[s] = Len(Steps[s])) /\ saveFile # s
    BY <1>4 DEF OkIsOver
  <2>1. CASE s # r
    BY <1>5, <2>1 DEF InOrder, OkIsOver
  <2>2. CASE s = r
    BY <1>2, <1>5, <2>2 DEF InOrder, OkIsOver
  <2> QED BY <2>1, <2>2
<1>11. TriesHold'
  BY DEF InOrder, TriesHold
<1> QED BY <1>4, <1>6, <1>7, <1>8, <1>9, <1>10, <1>11

LEMMA OrderChecksFail ==
    ASSUME PrTypes, InOrder, ChecksFail PROVE InOrder'
<1>1. call # None /\ call.ending = "no" /\ Answer("refused")
  BY DEF ChecksFail, Awaiting, Idle, Busy
<1>2. UNCHANGED <<disk, up, current, queue, done, tries, completed, cutShort, forgotten, recounted>>
  BY DEF ChecksFail
<1>3. /\ call' = None /\ OnlyOne' /\ QueueAgrees'
      /\ RunningAgrees' /\ EndingAgrees' /\ AddressIsOwn'
      /\ HistoryAgrees' /\ OkIsOver' /\ TriesHold'
  BY <1>1, <1>2, AnswerAgrees DEF disk
<1>4. FilesAgree'
  BY <1>2 DEF disk, InOrder, FilesAgree, Resumable, At, NotTriedAfter, Tried
<1>5. AllSucceeded'
  BY <1>2 DEF disk, InOrder, AllSucceeded
<1>6. CountsAgree'
  <2>1. \A i \in Id : ~BeingCounted(i) /\ ~BeingCounted(i)'
    BY <1>1, <1>3 DEF BeingCounted
  <2> QED BY <1>2, <2>1 DEF disk, InOrder, CountsAgree, Count
<1> QED BY <1>3, <1>4, <1>5, <1>6 DEF InOrder

LEMMA ListIdCounts ==
    ASSUME TypeOK, call # None, ListId
    PROVE  /\ \A i \in Id : Count(i)' = Count(i)
           /\ Limit[call.req] # None =>
                /\ executed'[IdOf[call.req]] # None
                /\ executed'[IdOf[call.req]] =
                     IF executed[IdOf[call.req]] = None THEN 0 ELSE executed[IdOf[call.req]]
<1> DEFINE i == IdOf[call.req]
<1>1. executed \in [Id -> Nat \cup {None}] /\ call.req \in Request
  BY DEF TypeOK, Call
<1>2. i \in Id
  BY <1>1 DEF Id
<1>3. CASE Limit[call.req] # None /\ executed[i] = None
  <2>1. executed' = [executed EXCEPT ![i] = 0]
    BY <1>3 DEF ListId
  <2>2. 0 # None
    BY NoneIsApart
  <2> QED BY <1>1, <1>2, <1>3, <2>1, <2>2 DEF Count
<1>4. CASE ~(Limit[call.req] # None /\ executed[i] = None)
  <2>1. executed' = executed
    BY <1>4 DEF ListId
  <2> QED BY <1>1, <1>4, <2>1 DEF Count
<1> QED BY <1>3, <1>4
\* What the fields of a call are when it goes on or is shut down.
LEMMA FailedStepFields ==
    ASSUME NEW c \in Call
    PROVE  LET d == FailedStep(c) IN
           /\ d.ending = "unlink" /\ d.status = FALSE /\ d.then = "finish"
           /\ d.req = c.req /\ d.address = c.address /\ d.awaits = c.awaits
<1> DEFINE b == [c EXCEPT !.results = Append(@, FALSE)]
<1>1. Append(c.results, FALSE) \in Seq(BOOLEAN)
  BY DEF Call
<1>2. b \in Call
  BY <1>1 DEF Call
<1>3. b.req = c.req /\ b.address = c.address /\ b.awaits = c.awaits
  BY DEF Call
<1> QED BY <1>2, <1>3, ShutdownFields DEF FailedStep

\* The call waits for the user to see its step.
LEMMA AskingFields ==
    ASSUME NEW c \in Call, c.awaits = {}
    PROVE  LET d == [c EXCEPT !.awaits = @ \cup {"gui"}] IN
           /\ d \in Call /\ d.awaits = {"gui"}
           /\ d.req = c.req /\ d.address = c.address /\ d.pos = c.pos /\ d.retry = c.retry
           /\ d.results = c.results /\ d.ending = c.ending /\ d.then = c.then
BY DEF Call

\* A call that is shut down, in whatever way, and asks nobody any more.
LEMMA EndingCall ==
    ASSUME PrTypes, InOrder, call # None, Running, call' \in Call,
           call'.ending = "unlink", call'.awaits = {}, call'.then # "goOn",
           call'.req = call.req, call'.address = call.address,
           (call.status => recounted \/ done[call.req] = Len(Steps[call.req]))',
           (call.status /\ Limit[call.req] # None => executed[IdOf[call.req]] # None)',
           UNCHANGED <<saveFile, up, queue, update, answers, tries, forgotten, recounted>>,
           \A r \in Request : r # call.req => done'[r] = done[r]
    PROVE  /\ OnlyOne' /\ QueueAgrees' /\ RunningAgrees' /\ EndingAgrees' /\ AddressIsOwn'
           /\ HistoryAgrees' /\ OkIsOver' /\ TriesHold'
<1>1. call' # None /\ ~Running'
  BY NoneIsApart DEF Running
<1>2. queue = <<>> /\ up /\ saveFile = call.req
  <2>1. queue = <<>> /\ up
    BY Zenon DEF InOrder, OnlyOne
  <2> QED BY <2>1 DEF InOrder, RunningAgrees
<1>3. OnlyOne'
  BY <1>2, Zenon DEF InOrder, OnlyOne
<1>4. QueueAgrees' /\ RunningAgrees'
  BY <1>1, <1>2 DEF QueueAgrees, RunningAgrees
<1>5. EndingAgrees'
  BY <1>1, <1>2 DEF EndingAgrees
<1>6. AddressIsOwn'
  BY <1>1 DEF InOrder, AddressIsOwn
<1>7. HistoryAgrees'
  <2> SUFFICES ASSUME NEW s \in Request, answers'[s] = <<>>, s \notin forgotten', ~Pending(s)'
               PROVE  Unseen(s)'
    BY DEF HistoryAgrees
  <2>1. s # call.req
    BY <1>1 DEF Pending
  <2>2. ~Pending(s)
    BY <1>2, <2>1 DEF Pending
  <2>3. Unseen(s)
    BY <2>2 DEF InOrder, HistoryAgrees
  <2> QED BY <2>1, <2>3 DEF Unseen
<1>8. OkIsOver'
  BY <1>2 DEF InOrder, OkIsOver
<1>9. TriesHold'
  BY DEF InOrder, TriesHold
<1> QED BY <1>3, <1>4, <1>5, <1>6, <1>7, <1>8, <1>9

LEMMA OrderStartCall ==
    ASSUME PrTypes, InOrder, StartCall PROVE InOrder'
<1> DEFINE c == [call EXCEPT !.awaits = {}]
           r == call.req
<1>1. call \in Call /\ call # None /\ call.ending = "no" /\ "start" \in call.awaits
  BY DEF StartCall, Awaiting, Idle, Busy, PrTypes, TypeOK
<1>2. call.awaits = {"start"} /\ Running
  BY <1>1, AwaitedAlone
<1>3. /\ c \in Call /\ c.awaits = {} /\ c.ending = "no"
      /\ c.req = r /\ c.address = call.address /\ c.pos = call.pos /\ c.retry = call.retry
      /\ c.results = call.results /\ c.then = call.then
  BY <1>1 DEF Call
<1>4. /\ saveFile = r /\ current.file = r /\ stepFile.file = r
      /\ stepFile.step \in {0, call.pos}
      /\ stepFile.step = 0 => call.pos = 1 /\ Unseen(r)
      /\ At(r, call.pos) /\ NotTriedAfter(r, call.pos) /\ Tried(r, call.pos, call.retry)
      /\ AllTrue(call.results)
  BY <1>1, <1>2 DEF InOrder, RunningAgrees, Checking
<1>5. UNCHANGED <<stepFile, saveFile, update, up, current, queue, done, tries,
                  completed, cutShort, forgotten, recounted>>
  BY DEF StartCall
<1>6. executed' = executed \/ ListId
  BY DEF StartCall
<1>7. FilesAgree' /\ AllSucceeded'
  BY <1>5 DEF InOrder, FilesAgree, Resumable, At, NotTriedAfter, Tried, AllSucceeded
<1>8. CountsAgree'
  <2>1. \A i \in Id : Count(i)' = Count(i)
    BY <1>1, <1>6, ListIdCounts DEF Count, PrTypes
  <2>2. \A i \in Id : ~BeingCounted(i)
    BY <1>1 DEF BeingCounted
  <2>3. \A i \in Id : ~BeingCounted(i)'
    <3>1. CASE call' = Shutdown(c, FALSE, "answer")
      BY <1>3, <3>1, ShutdownFields DEF BeingCounted
    <3>2. CASE Answer("refused")
      BY <3>2 DEF Answer, BeingCounted
    <3>3. CASE call' = Shutdown(c, FALSE, "goOn")
      BY <1>3, <3>3, ShutdownFields DEF BeingCounted
    <3>4. CASE call' = StartedAt(c)
      <4>1. StartedAt(c).ending \in {"no", "unlink"}
        <5>1. Shutdown(c, TRUE, "finish").ending = "unlink"
          BY <1>3, ShutdownFields
        <5>2. FailedStep(c).ending = "unlink"
          BY <1>3, FailedStepFields
        <5>3. [c EXCEPT !.awaits = @ \cup {"gui"}].ending = "no"
          BY <1>3, AskingFields
        <5> QED BY <5>1, <5>2, <5>3 DEF StartedAt
      <4> QED BY <3>4, <4>1 DEF BeingCounted
    <3> QED BY <3>1, <3>2, <3>3, <3>4 DEF StartCall
  <2> QED BY <1>5, <2>1, <2>2, <2>3 DEF InOrder, CountsAgree
<1> DEFINE Rest == /\ OnlyOne' /\ QueueAgrees' /\ RunningAgrees' /\ EndingAgrees' /\ AddressIsOwn'
                   /\ HistoryAgrees' /\ OkIsOver' /\ TriesHold'
<1>9. CASE call' = Shutdown(c, FALSE, "answer") /\ answers' = answers
  <2>1. /\ call' \in Call /\ call'.ending = "unlink" /\ call'.awaits = {} /\ call'.then # "goOn"
        /\ call'.req = r /\ call'.address = call.address /\ ~call'.status
    BY <1>3, <1>9, ShutdownIsCall, ShutdownFields
  <2>2. Rest
    BY <1>1, <1>2, <1>5, <1>9, <2>1, EndingCall
  <2> QED BY <1>7, <1>8, <2>2 DEF InOrder
<1>10. CASE Answer("refused")
  <2>1. Rest
    BY <1>1, <1>5, <1>10, AnswerAgrees
  <2> QED BY <1>7, <1>8, <2>1 DEF InOrder
<1>11. ~(c.results # <<>> /\ ~c.results[Len(c.results)])
  <2>1. call.results \in Seq(BOOLEAN)
    BY <1>1 DEF Call
  <2>2. call.results # <<>> => Len(call.results) \in DOMAIN call.results
    BY <2>1
  <2> QED BY <1>3, <1>4, <2>2 DEF AllTrue
<1>12. CASE /\ ~(c.retry > MaxRetries) /\ ~ExecExceeded /\ ListId
            /\ call' = StartedAt(c) /\ answers' = answers
  <2>1. r \in Request /\ Len(Steps[r]) \in Nat /\ Steps[r] \in Seq(Kind) /\ call.pos \in Nat \ {0}
        /\ call.retry \in Nat
    BY <1>1, ProcedureAssumption DEF Call
  <2>2. Limit[r] # None =>
          /\ executed'[IdOf[r]] # None
          /\ Limit[r] > 0 => executed'[IdOf[r]] < Limit[r]
    <3>1. Limit[r] # None => Limit[r] \in Nat
      BY <2>1, ProcedureAssumption
    <3>2. executed \in [Id -> Nat \cup {None}] /\ IdOf[r] \in Id
      BY <2>1 DEF PrTypes, TypeOK, Id
    <3>3. executed[IdOf[r]] # None => executed[IdOf[r]] \in Nat
      BY <3>2
    <3>4. Limit[r] # None => /\ executed'[IdOf[r]] # None
                             /\ executed'[IdOf[r]] =
                                 IF executed[IdOf[r]] = None THEN 0 ELSE executed[IdOf[r]]
      BY <1>1, <1>12, ListIdCounts DEF PrTypes
    <3>5. Limit[r] # None /\ executed[IdOf[r]] # None => ~(executed[IdOf[r]] >= Limit[r])
      BY <1>12 DEF ExecExceeded
    <3> QED BY <3>1, <3>3, <3>4, <3>5
  <2>3. CASE AtEnd(c)
    <3>1. call' = Shutdown(c, TRUE, "finish")
      BY <1>12, <2>3 DEF StartedAt
    <3>2. /\ call' \in Call /\ call'.ending = "unlink" /\ call'.awaits = {} /\ call'.then # "goOn"
          /\ call'.req = r /\ call'.address = call.address /\ call'.status
      BY <1>3, <3>1, ShutdownIsCall, ShutdownFields, ZenonT(30)
    <3>3. recounted \/ done[r] = Len(Steps[r])
      BY <1>3, <1>4, <2>1, <2>3 DEF AtEnd, At
    <3>4. Rest
      BY <1>1, <1>2, <1>5, <1>12, <2>2, <3>2, <3>3, EndingCall
    <3> QED BY <1>7, <1>8, <3>4 DEF InOrder
  <2>4. CASE ~AtEnd(c) /\ KindAt(c) = "undescribed"
    <3>1. call' = FailedStep(c)
      BY <1>12, <2>4 DEF StartedAt
    <3>2. /\ call' \in Call /\ call'.ending = "unlink" /\ call'.awaits = {} /\ call'.then # "goOn"
          /\ call'.req = r /\ call'.address = call.address /\ ~call'.status
      BY <1>3, <3>1, FailedStepIsCall, FailedStepFields
    <3>3. Rest
      BY <1>1, <1>2, <1>5, <1>12, <3>2, EndingCall
    <3> QED BY <1>7, <1>8, <3>3 DEF InOrder
  <2>5. CASE ~AtEnd(c) /\ KindAt(c) # "undescribed"
    <3>1. call' = [c EXCEPT !.awaits = @ \cup {"gui"}]
      BY <1>12, <2>5 DEF StartedAt
    <3>2. /\ call' \in Call /\ call'.awaits = {"gui"}
          /\ call'.req = r /\ call'.address = call.address /\ call'.pos = call.pos
          /\ call'.retry = call.retry /\ call'.results = call.results /\ call'.ending = "no"
      BY <1>3, <3>1, AskingFields
    <3>3. call' # None /\ Running' /\ ~Checking' /\ Asking' /\ ~Restoring'
      BY <3>2, NoneIsApart DEF Running, Checking, Asking, Restoring
    <3>4. call.pos <= Len(Steps[r])
      BY <1>3, <2>1, <2>5 DEF AtEnd
    <3>5. call.retry <= MaxRetries
      BY <1>3, <1>12, <2>1, ProcedureAssumption
    <3>6. At(r, call.pos)' /\ NotTriedAfter(r, call.pos)' /\ Tried(r, call.pos, call.retry)'
          /\ Unseen(r)' = Unseen(r)
      BY <1>4, <1>5, <3>2 DEF At, NotTriedAfter, Tried, Unseen
    <3>7. RunningAgrees'
      BY <1>4, <1>5, <2>2, <3>2, <3>3, <3>4, <3>5, <3>6 DEF RunningAgrees
    <3>8. EndingAgrees'
      BY <3>3 DEF EndingAgrees
    <3>9. AddressIsOwn'
      BY <1>1, <3>2 DEF AddressIsOwn, InOrder
    <3>10. queue = <<>> /\ up
      BY <1>1, Zenon DEF InOrder, OnlyOne
    <3>11. OnlyOne'
      BY <1>5, <3>10, Zenon DEF InOrder, OnlyOne
    <3>12. QueueAgrees'
      BY <1>5, <3>10 DEF QueueAgrees
    <3>13. HistoryAgrees'
      <4> SUFFICES ASSUME NEW s \in Request, answers'[s] = <<>>, s \notin forgotten', ~Pending(s)'
                   PROVE  Unseen(s)'
        BY DEF HistoryAgrees
      <4>1. ~Pending(s)
        BY <1>1, <1>5, <3>2, <3>3, <3>10 DEF Pending
      <4>2. Unseen(s)
        BY <1>5, <1>12, <4>1 DEF InOrder, HistoryAgrees
      <4> QED BY <1>5, <4>2 DEF Unseen
    <3>14. OkIsOver'
      BY <1>1, <1>5, <1>12, <3>2 DEF InOrder, OkIsOver
    <3>15. TriesHold'
      BY <1>5 DEF InOrder, TriesHold
    <3> QED BY <1>7, <1>8, <3>7, <3>8, <3>9, <3>11, <3>12, <3>13, <3>14, <3>15 DEF InOrder
  <2> QED BY <2>3, <2>4, <2>5
<1> QED BY <1>9, <1>10, <1>11, <1>12 DEF StartCall
LEMMA OrderGuiQueryFinished ==
    ASSUME PrTypes, InOrder, GuiQueryFinished PROVE InOrder'
<1> DEFINE r == call.req
           p == call.pos
<1>1. call \in Call /\ call # None /\ call.ending = "no" /\ "gui" \in call.awaits
  BY DEF GuiQueryFinished, Awaiting, Idle, Busy, PrTypes, TypeOK
<1>2. call.awaits = {"gui"} /\ Running /\ ~Checking /\ Asking
  BY <1>1, AwaitedAlone DEF Checking, Asking
<1>3. /\ saveFile = r /\ current.file = r /\ stepFile.file = r
      /\ At(r, p) /\ NotTriedAfter(r, p) /\ Tried(r, p, call.retry)
      /\ AllTrue(call.results)
      /\ p <= Len(Steps[r]) /\ call.retry <= MaxRetries
      /\ Limit[r] # None =>
           /\ executed[IdOf[r]] # None
           /\ Limit[r] > 0 => executed[IdOf[r]] < Limit[r]
  BY <1>1, <1>2 DEF InOrder, RunningAgrees
<1>4. /\ call' \in Call /\ call'.awaits = {"step"} /\ call'.ending = "no"
      /\ call'.req = r /\ call'.address = call.address /\ call'.pos = p
      /\ call'.retry = call.retry /\ call'.results = call.results
  BY <1>1, <1>2 DEF GuiQueryFinished, Call
<1>5. UNCHANGED <<saveFile, executed, update, up, current, queue, answers, done,
                  completed, cutShort, forgotten, recounted>>
  BY DEF GuiQueryFinished
<1>6. /\ stepFile'.step = p /\ stepFile'.retry = call.retry /\ stepFile'.file = r
      /\ stepFile'.results = current.results
  BY <1>3 DEF GuiQueryFinished, Note
<1>7. queue = <<>> /\ up /\ update = None
  BY <1>1, Zenon DEF InOrder, OnlyOne
<1>8. update' # TRUE /\ update' # FALSE
  BY <1>5, <1>7, NoneIsApart, Zenon
<1>9. r \in Request /\ p \in Nat \ {0} /\ call.retry \in Nat /\ tries \in [Request -> Seq(Nat)]
      /\ r # None
  BY <1>1, NoneIsApart DEF Call, PrTypes, TypeOK
<1>10. /\ tries' = [tries EXCEPT ![r] = [tries[r] EXCEPT ![p] = @ + 1]]
       /\ \A s \in Request : s # r => tries'[s] = tries[s]
       /\ DOMAIN tries'[r] = DOMAIN tries[r]
       /\ \A k \in DOMAIN tries[r] : tries'[r][k] = IF k = p THEN tries[r][k] + 1 ELSE tries[r][k]
  BY <1>9 DEF GuiQueryFinished
<1>11. \A k \in DOMAIN tries[r] : tries[r][k] \in Nat
  <2>1. tries[r] \in Seq(Nat)
    BY <1>9
  <2> QED BY <2>1
<1>12. NotTriedAfter(r, p)' /\ Tried(r, p, call.retry + 1)'
  BY <1>3, <1>4, <1>9, <1>10, <1>11, SMTT(20) DEF NotTriedAfter, Tried
<1>13. At(r, p)'
  <2>1. \A x \in Request, q \in Nat : At(x, q) <=> At(x, q)'
    BY <1>5 DEF At
  <2> QED BY <1>3, <1>4, <1>9, <2>1
<1>14. call' # None /\ Running' /\ ~Checking' /\ ~Asking' /\ ~Restoring'
  BY <1>4, NoneIsApart DEF Running, Checking, Asking, Restoring
<1>15. OnlyOne'
  BY <1>5, <1>7, Zenon DEF InOrder, OnlyOne
<1>16. FilesAgree'
  <2>1. (stepFile.file = saveFile /\ At(saveFile, stepFile.step)
         /\ NotTriedAfter(saveFile, stepFile.step) /\ Tried(saveFile, stepFile.step, stepFile.retry + 1))'
    BY <1>3, <1>4, <1>5, <1>6, <1>12, <1>13
  <2> QED BY <1>8, <2>1, Zenon DEF FilesAgree
<1>17. AllSucceeded'
  BY <1>5, <1>6 DEF InOrder, AllSucceeded
<1>18. QueueAgrees'
  BY <1>5, <1>7 DEF QueueAgrees
<1>19. RunningAgrees'
  <2>1. stepFile'.step # 0
    BY <1>6, <1>9
  <2> QED BY <1>3, <1>4, <1>5, <1>6, <1>12, <1>13, <1>14, <2>1 DEF RunningAgrees
<1>20. EndingAgrees' /\ AddressIsOwn'
  BY <1>1, <1>4, <1>14 DEF InOrder, EndingAgrees, AddressIsOwn
<1>21. HistoryAgrees'
  <2> SUFFICES ASSUME NEW s \in Request, answers'[s] = <<>>, s \notin forgotten', ~Pending(s)'
               PROVE  Unseen(s)'
    BY DEF HistoryAgrees
  <2>1. s # r
    BY <1>4, <1>14 DEF Pending
  <2>2. ~Pending(s)
    BY <1>7, <2>1 DEF Pending
  <2>3. Unseen(s)
    BY <1>5, <2>2 DEF InOrder, HistoryAgrees
  <2> QED BY <1>5, <1>10, <2>1, <2>3 DEF Unseen
<1>22. OkIsOver'
  BY <1>1, <1>4, <1>5 DEF InOrder, OkIsOver
<1>23. TriesHold'
  <2> SUFFICES ASSUME NEW s \in Request, NEW k \in DOMAIN tries'[s]
               PROVE  tries'[s][k] <= MaxRetries + 1
    BY DEF TriesHold
  <2>1. CASE s # r
    BY <1>10, <2>1 DEF InOrder, TriesHold
  <2>2. CASE s = r /\ k # p
    BY <1>10, <2>2 DEF InOrder, TriesHold
  <2>3. CASE s = r /\ k = p
    <3>1. k \in DOMAIN tries[r]
      BY <1>10, <2>3
    <3>2. tries[r][p] <= call.retry /\ tries'[r][p] = tries[r][p] + 1
      BY <1>3, <1>10, <2>3, <3>1 DEF Tried
    <3>3. tries[r][p] \in Nat
      BY <1>11, <2>3, <3>1
    <3> QED BY <1>3, <1>9, <2>3, <3>2, <3>3, ProcedureAssumption, SMTT(20)
  <2> QED BY <2>1, <2>2, <2>3
<1>24. CountsAgree'
  <2>1. \A i \in Id : ~BeingCounted(i) /\ ~BeingCounted(i)'
    BY <1>1, <1>4 DEF BeingCounted
  <2> QED BY <1>5, <2>1 DEF InOrder, CountsAgree, Count
<1> QED BY <1>15, <1>16, <1>17, <1>18, <1>19, <1>20, <1>21, <1>22, <1>23, <1>24 DEF InOrder
\* What a call that goes on keeps, of the conjuncts that do not look at its step.
LEMMA RunningCall ==
    ASSUME PrTypes, InOrder, call # None, Running, call' \in Call, call'.ending = "no",
           Running', call'.req = call.req, call'.address = call.address,
           UNCHANGED <<saveFile, executed, update, up, queue, answers, tries,
                       completed, cutShort, forgotten, recounted>>,
           \A r \in Request : r # call.req => done'[r] = done[r]
    PROVE  /\ OnlyOne' /\ QueueAgrees' /\ EndingAgrees' /\ AddressIsOwn'
           /\ HistoryAgrees' /\ OkIsOver' /\ TriesHold' /\ CountsAgree'
<1>1. call' # None
  BY NoneIsApart
<1>2. queue = <<>> /\ up
  BY Zenon DEF InOrder, OnlyOne
<1>3. OnlyOne'
  BY <1>2, Zenon DEF InOrder, OnlyOne
<1>4. QueueAgrees' /\ EndingAgrees'
  BY <1>2 DEF QueueAgrees, EndingAgrees
<1>5. AddressIsOwn'
  BY <1>1 DEF InOrder, AddressIsOwn
<1>6. HistoryAgrees'
  <2> SUFFICES ASSUME NEW s \in Request, answers'[s] = <<>>, s \notin forgotten', ~Pending(s)'
               PROVE  Unseen(s)'
    BY DEF HistoryAgrees
  <2>1. s # call.req
    BY <1>1 DEF Pending
  <2>2. ~Pending(s)
    BY <1>2, <2>1 DEF Pending
  <2>3. Unseen(s)
    BY <2>2 DEF InOrder, HistoryAgrees
  <2> QED BY <2>1, <2>3 DEF Unseen
<1>7. OkIsOver'
  BY DEF InOrder, OkIsOver
<1>8. TriesHold'
  BY DEF InOrder, TriesHold
<1>9. CountsAgree'
  <2>1. \A i \in Id : ~BeingCounted(i) /\ ~BeingCounted(i)'
    BY DEF BeingCounted, Running
  <2> QED BY <2>1 DEF InOrder, CountsAgree, Count
<1> QED BY <1>3, <1>4, <1>5, <1>6, <1>7, <1>8, <1>9

LEMMA NextStepAgrees ==
    ASSUME NEW r \in Request, NEW p \in Nat \ {0},
           PrTypes, InOrder, call # None, Running, ~Checking,
           r = call.req, p = call.pos, stepFile.step = p,
           NEW c \in Call, c.awaits = {}, c.ending = "no",
           c.req = r, c.address = call.address, c.pos = p,
           c.retry = call.retry, AllTrue(c.results),
           NEW describe \in BOOLEAN, NextStep(c, describe),
           recounted \/ done'[r] = p,
           \A s \in Request : s # r => done'[s] = done[s],
           UNCHANGED <<saveFile, executed, update, up, queue, answers, tries,
                       completed, cutShort, forgotten, recounted>>
    PROVE  InOrder'
<1> DEFINE d == [c EXCEPT !.pos = @ + 1]
<1>1. call \in Call /\ call.retry \in Nat /\ r # None /\ Len(Steps[r]) \in Nat
  <2>1. call \in Call
    BY DEF PrTypes, TypeOK
  <2>2. Steps[r] \in Seq(Kind) /\ r # None
    BY ProcedureAssumption, NoneIsApart
  <2> QED BY <2>1, <2>2 DEF Call
<1>2. /\ d \in Call /\ d.awaits = {} /\ d.ending = "no" /\ d.req = r /\ d.address = call.address
      /\ d.pos = p + 1 /\ d.retry = call.retry /\ d.results = c.results
  <2>1. c.pos + 1 \in Nat \ {0}
    OBVIOUS
  <2>2. d \in Call
    BY <2>1 DEF Call
  <2> QED BY <2>2 DEF Call
<1>3. /\ saveFile = r /\ current.file = r /\ stepFile.file = r
      /\ At(r, p) /\ NotTriedAfter(r, p)
      /\ p <= Len(Steps[r]) /\ call.retry <= MaxRetries
      /\ Limit[r] # None =>
           /\ executed[IdOf[r]] # None
           /\ Limit[r] > 0 => executed[IdOf[r]] < Limit[r]
  BY DEF InOrder, RunningAgrees
<1>4. queue = <<>> /\ up /\ update = None
  BY Zenon DEF InOrder, OnlyOne
<1>5. update # TRUE /\ update' # TRUE
  BY <1>4, NoneIsApart, Zenon
<1>6. CASE AtEnd(d)
  <2>1. call' = Shutdown(d, TRUE, "finish") /\ current' = current /\ stepFile' = stepFile
    BY <1>6 DEF NextStep
  <2>2. /\ call' \in Call /\ call'.ending = "unlink" /\ call'.awaits = {} /\ call'.then # "goOn"
        /\ call'.req = r /\ call'.address = call.address /\ call'.status
    BY <1>2, <2>1, ShutdownIsCall, ShutdownFields, ZenonT(30)
  <2>3. p = Len(Steps[r])
    BY <1>1, <1>2, <1>3, <1>6 DEF AtEnd
  <2>4. /\ OnlyOne' /\ QueueAgrees' /\ RunningAgrees' /\ EndingAgrees' /\ AddressIsOwn'
        /\ HistoryAgrees' /\ OkIsOver' /\ TriesHold'
    BY <1>1, <1>3, <2>2, <2>3, EndingCall
  <2>5. At(r, p)'
    BY <1>3, <2>2, <2>3, <2>1 DEF At
  <2>6. FilesAgree'
    <3>1. (Resumable => stepFile.file = saveFile
           /\ NotTriedAfter(saveFile, stepFile.step)
           /\ Tried(saveFile, stepFile.step, stepFile.retry + 1))'
      BY <2>1 DEF InOrder, FilesAgree, Resumable, NotTriedAfter, Tried
    <3>2. At(saveFile, stepFile.step)'
      BY <1>3, <2>1, <2>2, <2>5 DEF At
    <3> QED BY <1>5, <3>1, <3>2, Zenon DEF FilesAgree
  <2>7. AllSucceeded'
    BY <2>1 DEF InOrder, AllSucceeded
  <2>8. CountsAgree'
    <3>1. \A i \in Id : ~BeingCounted(i) /\ ~BeingCounted(i)'
      BY <2>2 DEF BeingCounted, Running
    <3> QED BY <3>1 DEF InOrder, CountsAgree, Count
  <2> QED BY <2>4, <2>6, <2>7, <2>8 DEF InOrder
<1>7. CASE ~AtEnd(d)
  <2>1. /\ current' = [current EXCEPT !.results = d.results]
        /\ stepFile' = Note(d.pos, 0, current')
        /\ \/ call' = FailedStep(d)
           \/ call' = [d EXCEPT !.awaits = @ \cup {"gui"}]
    BY <1>7 DEF NextStep
  <2>2. current'.file = r /\ current'.results = d.results
    BY <1>3, <2>1 DEF PrTypes, TypeOK
  <2>3. /\ stepFile'.step = p + 1 /\ stepFile'.retry = 0 /\ stepFile'.file = r
        /\ stepFile'.results = d.results
    BY <1>2, <2>1, <2>2 DEF Note
  <2>4. p + 1 <= Len(Steps[r])
    BY <1>1, <1>2, <1>7 DEF AtEnd
  <2>5. call'.req = r /\ call'.address = call.address /\ call' \in Call
    <3> HIDE DEF d
    <3>1. CASE call' = FailedStep(d)
      BY <1>2, <3>1, FailedStepIsCall, FailedStepFields
    <3>2. CASE call' = [d EXCEPT !.awaits = @ \cup {"gui"}]
      BY <1>2, <3>2, AskingFields
    <3> QED BY <2>1, <3>1, <3>2
  <2>6. At(r, p + 1)' /\ NotTriedAfter(r, p + 1)' /\ Tried(r, p + 1, 0)'
    <3>1. At(r, p + 1)'
      <4>1. /\ recounted' \/ done'[r] = (p + 1) - 1
            /\ p + 1 \in Nat \ {0} /\ p + 1 <= Len(Steps[r]) + 1
        BY <1>1, <2>4
      <4>2. \A q \in Nat \ {0} :
              (recounted' \/ done'[r] = q - 1) /\ q <= Len(Steps[r]) + 1 => At(r, q)'
        BY <2>5 DEF At
      <4> QED BY <1>1, <4>1, <4>2
    <3>2. DOMAIN tries[r] \subseteq Nat /\ tries' = tries
      <4>1. tries[r] \in Seq(Nat)
        BY <1>1 DEF PrTypes, TypeOK
      <4> QED BY <4>1
    <3> QED BY <1>1, <1>3, <2>5, <3>1, <3>2 DEF NotTriedAfter, Tried
  <2>7. FilesAgree'
    <3>1. Tried(r, p + 1, 0 + 1)'
      <4>1. \A k \in DOMAIN tries[r] : tries[r][k] \in Nat
        <5>1. tries[r] \in Seq(Nat)
          BY <1>1 DEF PrTypes, TypeOK
        <5> QED BY <5>1
      <4> QED BY <2>5, <2>6, <4>1 DEF Tried
    <3>2. (stepFile.file = saveFile /\ At(saveFile, stepFile.step)
           /\ NotTriedAfter(saveFile, stepFile.step)
           /\ Tried(saveFile, stepFile.step, stepFile.retry + 1))'
      BY <1>3, <2>3, <2>5, <2>6, <3>1
    <3> QED BY <1>5, <3>2, Zenon DEF FilesAgree
  <2>8. AllSucceeded'
    BY <1>2, <2>2, <2>3 DEF AllSucceeded
  <2>9. CASE call' = FailedStep(d)
    <3>1. /\ call' \in Call /\ call'.ending = "unlink" /\ call'.awaits = {} /\ call'.then # "goOn"
          /\ call'.req = r /\ call'.address = call.address /\ ~call'.status
      BY <1>2, <2>9, FailedStepIsCall, FailedStepFields
    <3>2. /\ OnlyOne' /\ QueueAgrees' /\ RunningAgrees' /\ EndingAgrees' /\ AddressIsOwn'
          /\ HistoryAgrees' /\ OkIsOver' /\ TriesHold'
      BY <3>1, EndingCall
    <3>3. CountsAgree'
      <4>1. \A i \in Id : ~BeingCounted(i) /\ ~BeingCounted(i)'
        BY <3>1 DEF BeingCounted, Running
      <4> QED BY <4>1 DEF InOrder, CountsAgree, Count
    <3> QED BY <2>7, <2>8, <3>2, <3>3 DEF InOrder
  <2>10. CASE call' = [d EXCEPT !.awaits = @ \cup {"gui"}]
    <3>1. /\ call' \in Call /\ call'.awaits = {"gui"}
          /\ call'.req = r /\ call'.address = call.address /\ call'.pos = p + 1
          /\ call'.retry = call.retry /\ call'.results = c.results /\ call'.ending = "no"
      BY <1>2, <2>10, AskingFields
    <3>2. call' # None /\ Running' /\ ~Checking' /\ Asking' /\ ~Restoring'
      BY <3>1, NoneIsApart DEF Running, Checking, Asking, Restoring
    <3>3. /\ OnlyOne' /\ QueueAgrees' /\ EndingAgrees' /\ AddressIsOwn'
          /\ HistoryAgrees' /\ OkIsOver' /\ TriesHold' /\ CountsAgree'
      BY <3>1, <3>2, RunningCall
    <3>4. Tried(r, p + 1, call.retry)'
      <4>1. \A k \in DOMAIN tries'[r] : k = p + 1 => tries'[r][k] <= call'.retry
        <5>1. tries[r] \in Seq(Nat) /\ tries' = tries
          BY <1>1 DEF PrTypes, TypeOK
        <5> QED BY <1>1, <2>5, <2>6, <3>1, <5>1 DEF Tried
      <4> QED BY <2>5, <3>1, <4>1 DEF Tried
    <3>5. stepFile'.step # 0
      BY <1>1, <2>3
    <3>6. RunningAgrees'
      BY <1>1, <1>3, <2>2, <2>3, <2>4, <2>6, <3>1, <3>2, <3>4, <3>5 DEF RunningAgrees
    <3> QED BY <2>7, <2>8, <3>3, <3>6 DEF InOrder
  <2> QED BY <2>1, <2>9, <2>10
<1> QED BY <1>6, <1>7
LEMMA OrderProcStepFinished ==
    ASSUME PrTypes, InOrder, NEW ok \in BOOLEAN, ProcStepFinished(ok) PROVE InOrder'
<1> DEFINE c == [call EXCEPT !.awaits = @ \ {"step"}, !.results = Append(@, ok)]
<1>1. call \in Call /\ call # None /\ call.ending = "no" /\ "step" \in call.awaits
  BY DEF ProcStepFinished, Awaiting, Idle, Busy, PrTypes, TypeOK
<1>2. call.awaits = {"step"} /\ Running /\ ~Checking /\ ~Asking /\ ~Restoring
  BY <1>1, AwaitedAlone DEF Checking, Asking, Restoring
<1>3. PICK r \in Request, p \in Nat \ {0} : r = call.req /\ p = call.pos
  BY <1>1 DEF Call
<1>4. /\ saveFile = r /\ stepFile.file = r /\ current.file = r
      /\ stepFile.step = p
      /\ At(r, p) /\ NotTriedAfter(r, p)
      /\ AllTrue(call.results)
      /\ p <= Len(Steps[r]) /\ call.retry <= MaxRetries
      /\ Limit[r] # None =>
           /\ executed[IdOf[r]] # None
           /\ Limit[r] > 0 => executed[IdOf[r]] < Limit[r]
  BY <1>1, <1>2, <1>3 DEF InOrder, RunningAgrees
<1>5. /\ c \in Call /\ c.awaits = {} /\ c.ending = "no" /\ c.req = r
      /\ c.address = call.address /\ c.pos = p /\ c.retry = call.retry
      /\ c.results = Append(call.results, ok)
  <2>1. Append(call.results, ok) \in Seq(BOOLEAN)
    BY <1>1 DEF Call
  <2>2. c \in Call
    BY <1>1, <2>1 DEF Call
  <2> QED BY <1>1, <1>2, <1>3, <2>2 DEF Call
<1>6. UNCHANGED <<saveFile, executed, update, up, queue, answers, tries,
                  completed, cutShort, forgotten, recounted>>
  BY DEF ProcStepFinished
<1>7. update # TRUE /\ update' # TRUE
  <2>1. update = None
    BY <1>1, Zenon DEF InOrder, OnlyOne
  <2> QED BY <1>6, <2>1, NoneIsApart, Zenon
<1>8. CASE /\ ~ok
           /\ call' = Shutdown(c, FALSE, "finish")
           /\ UNCHANGED <<current, stepFile, done>>
  <2>1. /\ call' \in Call /\ call'.ending = "unlink" /\ call'.awaits = {} /\ call'.then # "goOn"
        /\ call'.req = r /\ call'.address = call.address /\ ~call'.status
    BY <1>5, <1>8, ShutdownIsCall, ShutdownFields
  <2>2. /\ OnlyOne' /\ QueueAgrees' /\ RunningAgrees' /\ EndingAgrees' /\ AddressIsOwn'
        /\ HistoryAgrees' /\ OkIsOver' /\ TriesHold'
    BY <1>1, <1>2, <1>3, <1>6, <1>8, <2>1, EndingCall
  <2>3. FilesAgree' /\ AllSucceeded'
    BY <1>6, <1>8 DEF InOrder, FilesAgree, Resumable, At, NotTriedAfter, Tried, AllSucceeded
  <2>4. CountsAgree'
    <3>1. \A i \in Id : ~BeingCounted(i) /\ ~BeingCounted(i)'
      BY <1>1, <2>1 DEF BeingCounted
    <3> QED BY <1>6, <3>1 DEF InOrder, CountsAgree, Count
  <2> QED BY <2>2, <2>3, <2>4 DEF InOrder
<1>9. ASSUME ok, done' = [done EXCEPT ![call.req] = call.pos]
      PROVE  /\ done'[r] = p
             /\ \A s \in Request : s # r => done'[s] = done[s]
             /\ AllTrue(c.results)
  <2>1. done \in [Request -> Nat]
    BY DEF PrTypes, TypeOK
  <2>2. AllTrue(c.results)
    <3>1. call.results \in Seq(BOOLEAN)
      BY <1>1 DEF Call
    <3>2. /\ DOMAIN c.results = 1..(Len(call.results) + 1)
          /\ DOMAIN call.results = 1..Len(call.results)
          /\ Len(call.results) \in Nat
          /\ \A k \in 1..Len(call.results) : c.results[k] = call.results[k]
          /\ c.results[Len(call.results) + 1] = ok
      BY <1>5, <3>1, AppendProperties
    <3>3. \A k \in DOMAIN c.results : k \in DOMAIN call.results \/ k = Len(call.results) + 1
      BY <3>2
    <3> QED BY <1>4, <1>9, <3>2, <3>3 DEF AllTrue
  <2> QED BY <1>3, <1>9, <2>1, <2>2
<1>10. CASE /\ ok
            /\ done' = [done EXCEPT ![call.req] = call.pos]
            /\ KindAt(c) = "dcUpdate"
            /\ call' = [c EXCEPT !.awaits = @ \cup {"restore"}]
            /\ UNCHANGED <<current, stepFile>>
  <2>1. /\ call' \in Call /\ call'.awaits = {"restore"} /\ call'.ending = "no"
        /\ call'.req = r /\ call'.address = call.address /\ call'.pos = p
        /\ call'.retry = call.retry /\ call'.results = c.results
    BY <1>5, <1>10 DEF Call
  <2>2. call' # None /\ Running' /\ ~Checking' /\ ~Asking' /\ Restoring'
    BY <2>1, NoneIsApart DEF Running, Checking, Asking, Restoring
  <2>3. /\ OnlyOne' /\ QueueAgrees' /\ EndingAgrees' /\ AddressIsOwn'
        /\ HistoryAgrees' /\ OkIsOver' /\ TriesHold' /\ CountsAgree'
    BY <1>1, <1>2, <1>3, <1>6, <1>9, <1>10, <2>1, <2>2, RunningCall
  <2>4. At(r, p)'
    BY <1>4, <1>5, <1>9, <1>10 DEF At, KindAt
  <2>5. NotTriedAfter(r, p)'
    BY <1>4, <1>6 DEF NotTriedAfter
  <2>6. FilesAgree'
    <3>1. (Resumable => stepFile.file = saveFile
           /\ NotTriedAfter(saveFile, stepFile.step)
           /\ Tried(saveFile, stepFile.step, stepFile.retry + 1))'
      BY <1>6, <1>10 DEF InOrder, FilesAgree, Resumable, NotTriedAfter, Tried
    <3>2. At(saveFile, stepFile.step)'
      BY <1>4, <1>6, <1>10, <2>4
    <3> QED BY <1>7, <3>1, <3>2, Zenon DEF FilesAgree
  <2>7. AllSucceeded'
    BY <1>10 DEF InOrder, AllSucceeded
  <2>8. RunningAgrees'
    <3>1. stepFile'.step # 0
      BY <1>4, <1>10
    <3> QED BY <1>4, <1>6, <1>9, <1>10, <2>1, <2>2, <2>4, <2>5, <3>1 DEF RunningAgrees
  <2> QED BY <2>3, <2>6, <2>7, <2>8 DEF InOrder
<1>11. CASE /\ ok
            /\ done' = [done EXCEPT ![call.req] = call.pos]
            /\ NextStep(c, TRUE)
  <2>1. done'[r] = p /\ (\A s \in Request : s # r => done'[s] = done[s]) /\ AllTrue(c.results)
    BY <1>9, <1>11
  <2> QED BY <1>1, <1>2, <1>3, <1>4, <1>5, <1>6, <1>11, <2>1, NextStepAgrees
<1> QED BY <1>8, <1>10, <1>11 DEF ProcStepFinished

LEMMA OrderRestored ==
    ASSUME PrTypes, InOrder, DcUpdateGuiRestoreQueryFinished PROVE InOrder'
<1> DEFINE c == [call EXCEPT !.awaits = @ \ {"restore"}]
<1>1. call \in Call /\ call # None /\ call.ending = "no" /\ "restore" \in call.awaits
  BY DEF DcUpdateGuiRestoreQueryFinished, Awaiting, Idle, Busy, PrTypes, TypeOK
<1>2. call.awaits = {"restore"} /\ Running /\ ~Checking /\ ~Asking /\ Restoring
  BY <1>1, AwaitedAlone DEF Checking, Asking, Restoring
<1>3. PICK r \in Request, p \in Nat \ {0} : r = call.req /\ p = call.pos
  BY <1>1 DEF Call
<1>4. stepFile.step = p /\ AllTrue(call.results) /\ (recounted \/ done[r] = p)
  BY <1>1, <1>2, <1>3 DEF InOrder, RunningAgrees
<1>5. /\ c \in Call /\ c.awaits = {} /\ c.ending = "no" /\ c.req = r
      /\ c.address = call.address /\ c.pos = p /\ c.retry = call.retry
      /\ c.results = call.results
  BY <1>1, <1>2, <1>3 DEF Call
<1>6. UNCHANGED <<saveFile, executed, update, up, queue, answers, done, tries,
                  completed, cutShort, forgotten, recounted>>
  BY DEF DcUpdateGuiRestoreQueryFinished, history
<1>7. NextStep(c, FALSE)
  BY DEF DcUpdateGuiRestoreQueryFinished
<1> QED BY <1>1, <1>2, <1>3, <1>4, <1>5, <1>6, <1>7, NextStepAgrees
\* What the steps of an ending call keep.
LEMMA EndingGoesOn ==
    ASSUME PrTypes, InOrder, call # None, call' \in Call, ~Running',
           call'.req = call.req, call'.address = call.address,
           saveFile' = saveFile \/ saveFile' = None,
           UNCHANGED <<update, up, queue, answers, done, tries, forgotten, recounted>>
    PROVE  /\ OnlyOne' /\ QueueAgrees' /\ RunningAgrees' /\ AddressIsOwn'
           /\ HistoryAgrees' /\ OkIsOver' /\ TriesHold'
<1>1. call' # None
  BY NoneIsApart
<1>2. queue = <<>> /\ up
  BY Zenon DEF InOrder, OnlyOne
<1>3. OnlyOne'
  BY <1>2, Zenon DEF InOrder, OnlyOne
<1>4. QueueAgrees' /\ RunningAgrees'
  BY <1>2 DEF QueueAgrees, RunningAgrees
<1>5. AddressIsOwn'
  BY <1>1 DEF InOrder, AddressIsOwn
<1>6. HistoryAgrees'
  <2> SUFFICES ASSUME NEW s \in Request, answers'[s] = <<>>, s \notin forgotten', ~Pending(s)'
               PROVE  Unseen(s)'
    BY DEF HistoryAgrees
  <2>1. ~Pending(s)
    BY <1>1, <1>2 DEF Pending
  <2>2. Unseen(s)
    BY <2>1 DEF InOrder, HistoryAgrees
  <2> QED BY <2>2 DEF Unseen
<1>7. OkIsOver'
  BY NoneIsApart DEF InOrder, OkIsOver
<1>8. TriesHold'
  BY DEF InOrder, TriesHold
<1> QED BY <1>3, <1>4, <1>5, <1>6, <1>7, <1>8

\* There is nothing to resume.
LEMMA NothingToResume ==
    ASSUME InOrder, call # None, UNCHANGED update, ~Resumable'
    PROVE  FilesAgree'
<1>1. update = None
  BY Zenon DEF InOrder, OnlyOne
<1>2. update' # TRUE
  BY <1>1, NoneIsApart, Zenon
<1> QED BY <1>2, Zenon DEF FilesAgree

LEMMA OrderUnlinkSaveFile ==
    ASSUME PrTypes, InOrder, UnlinkSaveFile PROVE InOrder'
<1> DEFINE r == call.req
<1>1. call \in Call /\ call # None /\ call.ending = "unlink" /\ ~Running
  BY DEF UnlinkSaveFile, Ending, PrTypes, TypeOK, Running
<1>2. /\ call' \in Call /\ call'.ending = "note" /\ call'.req = r /\ call'.address = call.address
      /\ call'.awaits = call.awaits /\ call'.then = call.then /\ call'.status = call.status
  BY <1>1 DEF UnlinkSaveFile, Call
<1>3. UNCHANGED <<stepFile, executed, update, up, queue, answers, done, tries, cutShort, forgotten,
                  recounted>>
      /\ saveFile' = None
  BY DEF UnlinkSaveFile
<1>4. call' # None /\ ~Running'
  BY <1>2, NoneIsApart DEF Running
<1>5. /\ OnlyOne' /\ QueueAgrees' /\ RunningAgrees' /\ AddressIsOwn'
      /\ HistoryAgrees' /\ OkIsOver' /\ TriesHold'
  BY <1>1, <1>2, <1>3, <1>4, EndingGoesOn
<1>6. EndingAgrees'
  BY <1>1, <1>2, <1>3, <1>4 DEF InOrder, EndingAgrees
<1>7. FilesAgree'
  BY <1>1, <1>3, NothingToResume DEF Resumable
<1>8. AllSucceeded'
  <2>1. current'.results = <<>>
    BY DEF UnlinkSaveFile, PrTypes, TypeOK
  <2> QED BY <1>3, <2>1 DEF InOrder, AllSucceeded, AllTrue
<1>9. CountsAgree'
  <2>1. r \in Request /\ completed \in [Id -> Nat] /\ IdOf[r] \in Id
    BY <1>1 DEF PrTypes, TypeOK, Call, Id
  <2>2. ASSUME NEW i \in Id, AllLimited(i)
        PROVE  completed'[i] <= Count(i)' + cutShort' + (IF BeingCounted(i)' THEN 1 ELSE 0)
    <3>1. ~BeingCounted(i) /\ Count(i)' = Count(i)
      BY <1>1, <1>3 DEF BeingCounted, Count
    <3>2. completed[i] <= Count(i) + cutShort
      <4>1. completed[i] <= Count(i) + cutShort + 0
        BY <2>2, <3>1 DEF InOrder, CountsAgree
      <4>2. Count(i) \in Nat /\ cutShort \in Nat
        BY DEF PrTypes, TypeOK, Count
      <4> QED BY <4>1, <4>2
    <3>3. Count(i) \in Nat /\ cutShort \in Nat /\ completed[i] \in Nat
      BY <2>1 DEF PrTypes, TypeOK, Count
    <3>4. CASE call.status /\ i = IdOf[r]
      <4>1. completed'[i] = completed[i] + 1
        BY <2>1, <3>4 DEF UnlinkSaveFile
      <4>2. BeingCounted(i)'
        BY <1>2, <1>4, <3>4 DEF BeingCounted
      <4> QED BY <1>3, <3>1, <3>2, <3>3, <4>1, <4>2
    <3>5. CASE ~(call.status /\ i = IdOf[r])
      <4>1. completed'[i] = completed[i]
        BY <2>1, <3>5 DEF UnlinkSaveFile
      <4>2. (IF BeingCounted(i)' THEN 1 ELSE 0) \in {0, 1}
        OBVIOUS
      <4> QED BY <1>3, <3>1, <3>2, <3>3, <4>1, <4>2
    <3> QED BY <3>4, <3>5
  <2> QED BY <2>2 DEF CountsAgree, AllLimited
<1> QED BY <1>5, <1>6, <1>7, <1>8, <1>9 DEF InOrder

\* A call at its end that has still to be shown to the user.
LEMMA EndedAsks ==
    ASSUME NEW c \in Call, c.then = "finish", c.awaits = {}
    PROVE  LET d == Ended(c) IN
           /\ d \in Call /\ d.ending = "no" /\ d.awaits = {"finish"} /\ d.then = "finish"
           /\ d.req = c.req /\ d.address = c.address /\ d.status = c.status
BY DEF Ended, Call

LEMMA OrderNoteEnd ==
    ASSUME PrTypes, InOrder, NoteEnd PROVE InOrder'
<1> DEFINE r == call.req
<1>1. call \in Call /\ call # None /\ call.ending = "note" /\ ~Running
  BY DEF NoteEnd, Ending, PrTypes, TypeOK, Running
<1>2. UNCHANGED <<saveFile, executed, update, up, current, queue, done, tries,
                  completed, cutShort, forgotten, recounted>>
  BY DEF NoteEnd
<1>3. /\ call.awaits = {} /\ call.then # "goOn" /\ saveFile = None
      /\ call.status => recounted \/ done[r] = Len(Steps[r])
      /\ call.status /\ Limit[r] # None => executed[IdOf[r]] # None
  BY <1>1 DEF InOrder, EndingAgrees
<1>4. stepFile'.results = current.results
  BY DEF NoteEnd, Note
<1>5. FilesAgree'
  BY <1>1, <1>2, <1>3, NothingToResume DEF Resumable
<1>6. AllSucceeded'
  BY <1>2, <1>4 DEF InOrder, AllSucceeded
<1>7. CASE call.then = "answer"
  <2>1. Answer("failed")
    BY <1>7 DEF NoteEnd
  <2>2. /\ call' = None /\ OnlyOne' /\ QueueAgrees' /\ RunningAgrees' /\ EndingAgrees' /\ AddressIsOwn'
        /\ HistoryAgrees' /\ OkIsOver' /\ TriesHold'
    BY <1>1, <1>2, <2>1, AnswerAgrees
  <2>3. CountsAgree'
    <3>1. \A i \in Id : ~BeingCounted(i) /\ ~BeingCounted(i)'
      BY <1>1, <1>7, <2>2 DEF BeingCounted, PrTypes, AnswerFails
    <3> QED BY <1>2, <3>1 DEF InOrder, CountsAgree, Count
  <2> QED BY <1>5, <1>6, <2>2, <2>3 DEF InOrder
<1>8. CASE call.then # "answer" /\ call.status
  <2>1. call' = [call EXCEPT !.ending = "count"] /\ answers' = answers
    BY <1>8 DEF NoteEnd
  <2>2. /\ call' \in Call /\ call'.ending = "count" /\ call'.req = r /\ call'.address = call.address
        /\ call'.awaits = call.awaits /\ call'.then = call.then /\ call'.status = call.status
    BY <1>1, <2>1 DEF Call
  <2>3. call' # None /\ ~Running'
    BY <2>2, NoneIsApart DEF Running
  <2>4. /\ OnlyOne' /\ QueueAgrees' /\ RunningAgrees' /\ AddressIsOwn'
        /\ HistoryAgrees' /\ OkIsOver' /\ TriesHold'
    BY <1>1, <1>2, <2>1, <2>2, <2>3, EndingGoesOn
  <2>5. EndingAgrees'
    BY <1>2, <1>3, <2>2, <2>3 DEF EndingAgrees
  <2>6. CountsAgree'
    <3>1. \A i \in Id : BeingCounted(i)' <=> BeingCounted(i)
      BY <1>1, <2>2, <2>3 DEF BeingCounted
    <3> QED BY <1>2, <3>1 DEF InOrder, CountsAgree, Count
  <2> QED BY <1>5, <1>6, <2>4, <2>5, <2>6 DEF InOrder
<1>9. CASE call.then # "answer" /\ ~call.status
  <2>1. call' = Ended(call) /\ answers' = answers
    BY <1>9 DEF NoteEnd
  <2>2. call.then = "finish"
    BY <1>1, <1>3, <1>9 DEF Call
  <2>3. /\ call' \in Call /\ call'.ending = "no" /\ call'.awaits = {"finish"} /\ call'.then = "finish"
        /\ call'.req = r /\ call'.address = call.address /\ ~call'.status
    BY <1>1, <1>3, <1>9, <2>1, <2>2, EndedAsks
  <2>4. call' # None /\ ~Running'
    BY <2>3, NoneIsApart DEF Running
  <2>5. /\ OnlyOne' /\ QueueAgrees' /\ RunningAgrees' /\ AddressIsOwn'
        /\ HistoryAgrees' /\ OkIsOver' /\ TriesHold'
    BY <1>1, <1>2, <2>1, <2>3, <2>4, EndingGoesOn
  <2>6. EndingAgrees'
    BY <1>2, <1>3, <2>3, <2>4 DEF EndingAgrees
  <2>7. CountsAgree'
    <3>1. \A i \in Id : ~BeingCounted(i)' /\ ~BeingCounted(i)
      BY <1>9, <2>3 DEF BeingCounted
    <3> QED BY <1>2, <3>1 DEF InOrder, CountsAgree, Count
  <2> QED BY <1>5, <1>6, <2>5, <2>6, <2>7 DEF InOrder
<1> QED BY <1>7, <1>8, <1>9

LEMMA OrderIncrementExecAttribute ==
    ASSUME PrTypes, InOrder, IncrementExecAttribute PROVE InOrder'
<1> DEFINE n == executed[IdOf[call.req]]
           c == [call EXCEPT !.status = n # None]
<1>1. call \in Call /\ call # None /\ call.ending = "count" /\ ~Running /\ call.status
  BY DEF IncrementExecAttribute, Ending, PrTypes, TypeOK, AnswerFails, Running
<1>2. PICK r \in Request : r = call.req
  BY <1>1 DEF Call
<1>3. UNCHANGED <<stepFile, saveFile, update, up, current, queue, answers, done, tries,
                  completed, cutShort, forgotten, recounted>>
  BY DEF IncrementExecAttribute, history
<1>4. /\ call.awaits = {} /\ call.then = "finish" /\ saveFile = None
      /\ recounted \/ done[r] = Len(Steps[r])
      /\ Limit[r] # None => executed[IdOf[r]] # None
  <2>1. call.then # "answer"
    BY <1>1 DEF PrTypes, AnswerFails
  <2> QED BY <1>1, <1>2, <2>1 DEF InOrder, EndingAgrees, Call
<1>5. /\ c \in Call /\ c.then = "finish" /\ c.awaits = {} /\ c.req = r /\ c.address = call.address
  <2>1. (n # None) \in BOOLEAN
    OBVIOUS
  <2> QED BY <1>1, <1>2, <1>4, <2>1 DEF Call
<1>6. /\ call' \in Call /\ call'.ending = "no" /\ call'.awaits = {"finish"} /\ call'.then = "finish"
      /\ call'.req = r /\ call'.address = call.address
  BY <1>5, EndedAsks DEF IncrementExecAttribute
<1>7. call' # None /\ ~Running'
  BY <1>6, NoneIsApart DEF Running
<1>8. /\ OnlyOne' /\ QueueAgrees' /\ RunningAgrees' /\ AddressIsOwn'
      /\ HistoryAgrees' /\ OkIsOver' /\ TriesHold'
  BY <1>1, <1>2, <1>3, <1>6, <1>7, EndingGoesOn
<1>9. EndingAgrees'
  BY <1>3, <1>4, <1>6, <1>7 DEF EndingAgrees
<1>10. FilesAgree'
  BY <1>1, <1>3, <1>4, NothingToResume DEF Resumable
<1>11. AllSucceeded'
  BY <1>3 DEF InOrder, AllSucceeded
<1>12. CountsAgree'
  <2>1. executed \in [Id -> Nat \cup {None}] /\ IdOf[r] \in Id /\ completed \in [Id -> Nat]
        /\ cutShort \in Nat
    BY DEF PrTypes, TypeOK, Id
  <2>2. ASSUME NEW i \in Id, AllLimited(i)
        PROVE  completed'[i] <= Count(i)' + cutShort' + (IF BeingCounted(i)' THEN 1 ELSE 0)
    <3>1. ~BeingCounted(i)'
      BY <1>6 DEF BeingCounted
    <3>2. CASE i = IdOf[r]
      <4>1. n # None /\ n \in Nat
        BY <1>2, <1>4, <2>1, <2>2, <3>2 DEF AllLimited
      <4>2. executed' = [executed EXCEPT ![IdOf[r]] = n + 1]
        BY <1>2, <4>1 DEF IncrementExecAttribute
      <4>3. executed'[i] = n + 1 /\ n + 1 # None
        BY <2>1, <3>2, <4>1, <4>2, NoneIsApart
      <4>4. Count(i)' = n + 1 /\ Count(i) = n
        BY <1>2, <3>2, <4>1, <4>3 DEF Count
      <4>5. completed[i] <= n + cutShort + 1
        <5>1. completed[i] <= Count(i) + cutShort + (IF BeingCounted(i) THEN 1 ELSE 0)
          BY <2>2 DEF InOrder, CountsAgree
        <5>2. (IF BeingCounted(i) THEN 1 ELSE 0) <= 1 /\ (IF BeingCounted(i) THEN 1 ELSE 0) \in Nat
          OBVIOUS
        <5> QED BY <2>1, <4>1, <4>4, <5>1, <5>2
      <4> QED BY <1>3, <2>1, <3>1, <4>1, <4>4, <4>5
    <3>3. CASE i # IdOf[r]
      <4>1. executed'[i] = executed[i]
        BY <1>2, <2>1, <3>3 DEF IncrementExecAttribute
      <4>2. ~BeingCounted(i)
        BY <1>2, <3>3 DEF BeingCounted
      <4> QED BY <1>3, <2>2, <3>1, <4>1, <4>2 DEF InOrder, CountsAgree, Count
    <3> QED BY <3>2, <3>3
  <2> QED BY <2>2 DEF CountsAgree, AllLimited
<1> QED BY <1>8, <1>9, <1>10, <1>11, <1>12 DEF InOrder

LEMMA OrderGuiFinishFinished ==
    ASSUME PrTypes, InOrder, GuiFinishFinished PROVE InOrder'
<1>1. call \in Call /\ call # None /\ call.ending = "no" /\ "finish" \in call.awaits
  BY DEF GuiFinishFinished, Awaiting, Idle, Busy, PrTypes, TypeOK
<1>2. ~Running /\ saveFile = None /\ (call.status => recounted \/ done[call.req] = Len(Steps[call.req]))
  BY <1>1 DEF InOrder, EndingAgrees, Running
<1>3. UNCHANGED <<disk, up, current, queue, done, tries, completed, cutShort, forgotten, recounted>>
  BY DEF GuiFinishFinished
<1>4. \E kind \in {"ok", "failed", "refused"} :
         Answer(kind) /\ (kind = "ok" => call.status)
  BY DEF GuiFinishFinished
<1>5. /\ call' = None /\ OnlyOne' /\ QueueAgrees' /\ RunningAgrees' /\ EndingAgrees' /\ AddressIsOwn'
      /\ HistoryAgrees' /\ OkIsOver' /\ TriesHold'
  BY <1>1, <1>2, <1>3, <1>4, AnswerAgrees DEF disk
<1>6. FilesAgree' /\ AllSucceeded'
  BY <1>3 DEF disk, InOrder, FilesAgree, Resumable, At, NotTriedAfter, Tried, AllSucceeded
<1>7. CountsAgree'
  <2>1. \A i \in Id : ~BeingCounted(i)' /\ ~BeingCounted(i)
    BY <1>1, <1>5 DEF BeingCounted
  <2> QED BY <1>3, <2>1 DEF disk, InOrder, CountsAgree, Count
<1> QED BY <1>5, <1>6, <1>7 DEF InOrder
LEMMA OrderRestart ==
    ASSUME PrTypes, InOrder, Restart, ~badUpdate' PROVE InOrder'
<1> DEFINE ended == call # None /\ call.ending \in {"note", "count"}
           executing == call # None /\ call.ending = "no" /\ "finish" \notin call.awaits
                        /\ stepFile.step > 0
<1>1. up /\ update = None
  BY Zenon DEF Restart, InOrder, OnlyOne
<1>2. /\ up' = FALSE /\ call' = None /\ queue' = <<>> /\ current' = NoProcedure
      /\ UNCHANGED <<stepFile, saveFile, executed, answers, tries, completed, recounted>>
  BY DEF Restart
<1>3. cutShort' = IF ended THEN cutShort + 1 ELSE cutShort
  BY DEF Restart
<1>4. forgotten' = forgotten \cup {queue[k].req : k \in 1..Len(queue)}
                       \cup IF call = None \/ executing THEN {} ELSE {call.req}
  BY DEF Restart
<1>5. \/ update' = update /\ done' = done
      \/ /\ call # None /\ "step" \in call.awaits
         /\ update' \in BOOLEAN /\ update' # FALSE
         /\ done' = [done EXCEPT ![call.req] = call.pos]
  <2>1. CASE UNCHANGED <<update, done, badUpdate>>
    BY <2>1
  <2>2. CASE /\ call # None /\ "step" \in call.awaits
             /\ update' \in BOOLEAN
             /\ done' = IF update' THEN [done EXCEPT ![call.req] = call.pos] ELSE done
             /\ badUpdate' = (badUpdate \/ ~update')
    <3>1. update' = TRUE
      BY <2>2
    <3> QED BY <2>2, <3>1
  <2> QED BY <2>1, <2>2 DEF Restart
<1>6. done \in [Request -> Nat] /\ call \in Call \cup {None} /\ queue \in Seq(Entries)
  BY DEF PrTypes, TypeOK, Entries
<1>7. OnlyOne'
  <2>1. update' # FALSE
    <3>1. CASE update' = update
      BY <1>1, <3>1, NoneIsApart, Zenon
    <3> QED BY <1>5, <3>1
  <2>2. Len(queue') <= 1
    BY <1>2
  <2> QED BY <1>2, <2>1, <2>2, Zenon DEF OnlyOne
<1>8. FilesAgree'
  <2>1. CASE update' = update /\ done' = done
    BY <1>2, <2>1 DEF InOrder, FilesAgree, Resumable, At, NotTriedAfter, Tried
  <2>2. CASE /\ call # None /\ "step" \in call.awaits
             /\ update' \in BOOLEAN /\ update' # FALSE
             /\ done' = [done EXCEPT ![call.req] = call.pos]
    <3>1. PICK r \in Request, p \in Nat \ {0} : r = call.req /\ p = call.pos
      BY <1>6, <2>2 DEF Call
    <3>2. Running /\ call.awaits = {"step"}
      <4>1. ~(call # None /\ ~Running)
        BY <2>2 DEF InOrder, EndingAgrees
      <4> QED BY <2>2, <4>1 DEF InOrder, RunningAgrees
    <3>3. saveFile = r /\ stepFile.step = p /\ p <= Len(Steps[r])
      BY <2>2, <3>1, <3>2 DEF InOrder, RunningAgrees, Checking, Asking
    <3>4. saveFile # None /\ stepFile.step > 0
      BY <3>1, <3>3, NoneIsApart
    <3>5. (stepFile.file = saveFile /\ NotTriedAfter(saveFile, stepFile.step)
           /\ Tried(saveFile, stepFile.step, stepFile.retry + 1))'
      BY <1>2, <3>4 DEF InOrder, FilesAgree, Resumable, NotTriedAfter, Tried
    <3>6. At(saveFile, stepFile.step + 1)'
      <4>1. done'[r] = p
        BY <1>6, <2>2, <3>1
      <4>2. Len(Steps[r]) \in Nat
        BY ProcedureAssumption
      <4>3. done'[r] = (p + 1) - 1 /\ p + 1 \in 1..(Len(Steps[r]) + 1)
        BY <3>1, <3>3, <4>1, <4>2
      <4>4. saveFile' = r /\ stepFile'.step = p
        BY <1>2, <3>3
      <4> QED BY <4>3, <4>4 DEF At
    <3>7. update' = TRUE
      BY <2>2
    <3>8. Resumable'
      BY <1>2, <3>4 DEF Resumable
    <3> QED BY <3>5, <3>6, <3>7, <3>8, Zenon DEF FilesAgree
  <2> QED BY <1>5, <2>1, <2>2
<1>9. AllSucceeded'
  BY <1>2 DEF InOrder, AllSucceeded, AllTrue, NoProcedure
<1>10. QueueAgrees' /\ RunningAgrees' /\ EndingAgrees' /\ AddressIsOwn'
  BY <1>2 DEF QueueAgrees, RunningAgrees, EndingAgrees, AddressIsOwn
<1>11. \A s \in Request : (call = None \/ s # call.req) => done'[s] = done[s]
  BY <1>5, <1>6
<1>12. HistoryAgrees'
  <2> SUFFICES ASSUME NEW s \in Request, answers'[s] = <<>>, s \notin forgotten', ~Pending(s)'
               PROVE  Unseen(s)'
    BY DEF HistoryAgrees
  <2>1. ~\E k \in DOMAIN queue : queue[k].req = s
    <3>1. DOMAIN queue = 1..Len(queue)
      BY <1>6
    <3> QED BY <1>4, <3>1
  <2>2. ~(call # None /\ call.req = s)
    <3> SUFFICES ASSUME call # None, call.req = s PROVE FALSE
      OBVIOUS
    <3>1. executing
      BY <1>4
    <3>2. saveFile = s
      BY <3>1 DEF InOrder, RunningAgrees, Running
    <3>3. s # None
      BY NoneIsApart
    <3>4. Pending(s)'
      BY <1>2, <3>1, <3>2, <3>3 DEF Pending, Resumable
    <3> QED BY <3>4
  <2>3. ~Pending(s)
    BY <1>1, <2>1, <2>2 DEF Pending
  <2>4. Unseen(s) /\ s \notin forgotten
    BY <1>2, <1>4, <2>3 DEF InOrder, HistoryAgrees
  <2> QED BY <1>2, <1>11, <2>2, <2>4 DEF Unseen
<1>13. OkIsOver'
  BY <1>2, <1>11 DEF InOrder, OkIsOver
<1>14. TriesHold'
  BY <1>2 DEF InOrder, TriesHold
<1>15. CountsAgree'
  <2> SUFFICES ASSUME NEW i \in Id, AllLimited(i)
               PROVE  completed'[i] <= Count(i)' + cutShort' + (IF BeingCounted(i)' THEN 1 ELSE 0)
    BY DEF CountsAgree, AllLimited
  <2>1. completed[i] <= Count(i) + cutShort + (IF BeingCounted(i) THEN 1 ELSE 0)
    BY DEF InOrder, CountsAgree
  <2>2. Count(i)' = Count(i) /\ ~BeingCounted(i)' /\ (BeingCounted(i) => ended)
    BY <1>2 DEF Count, BeingCounted
  <2>3. Count(i) \in Nat /\ cutShort \in Nat /\ completed[i] \in Nat
    BY DEF PrTypes, TypeOK, Count
  <2> QED BY <1>2, <1>3, <2>1, <2>2, <2>3
<1> QED BY <1>7, <1>8, <1>9, <1>10, <1>12, <1>13, <1>14, <1>15 DEF InOrder

\* What the boot has noted when it has read the files and counted the result.
LEMMA UpdatedAgrees ==
    ASSUME PrTypes, InOrder, NEW f, f = WithUpdateResult(stepFile)
    PROVE  /\ f.file = stepFile.file
           /\ f.step > 0 /\ saveFile # None => Resumable
           /\ Resumable => f.step > 0
           /\ AllTrue(f.results)
           /\ Resumable => /\ stepFile.file = saveFile /\ At(saveFile, f.step)
                           /\ NotTriedAfter(saveFile, f.step) /\ Tried(saveFile, f.step, f.retry + 1)
<1>1. f \in StepFile /\ stepFile \in StepFile /\ saveFile \in Request \cup {None}
  BY UpdatedIsStepFile DEF PrTypes, TypeOK
<1>2. update = None \/ update = TRUE
  <2>1. update \in BOOLEAN \cup {None} /\ update # FALSE
    BY DEF PrTypes, TypeOK, InOrder, OnlyOne
  <2> QED BY <2>1
<1>3. CASE update = None
  <2>1. f = stepFile
    BY <1>3 DEF WithUpdateResult
  <2>2. update # TRUE
    BY <1>3, NoneIsApart, Zenon
  <2>3. Resumable => At(saveFile, stepFile.step)
    BY <2>2, Zenon DEF InOrder, FilesAgree
  <2> QED BY <2>1, <2>3 DEF InOrder, FilesAgree, Resumable, AllSucceeded
<1>4. CASE update = TRUE
  <2>1. update # None
    BY <1>4, NoneIsApart, Zenon
  <2>2. Resumable
    BY <1>4, Zenon DEF InOrder, FilesAgree
  <2>3. stepFile.file = saveFile /\ At(saveFile, stepFile.step + 1)
        /\ NotTriedAfter(saveFile, stepFile.step)
    BY <1>4, <2>2, Zenon DEF InOrder, FilesAgree
  <2>4. f = [stepFile EXCEPT !.step = @ + 1, !.retry = 0, !.results = Append(@, update)]
    BY <2>1, Zenon DEF WithUpdateResult
  <2>5. /\ f.step = stepFile.step + 1 /\ f.retry = 0 /\ f.file = stepFile.file
        /\ f.results = Append(stepFile.results, update)
    BY <1>1, <2>4 DEF StepFile
  <2>6. AllTrue(f.results)
    <3>1. stepFile.results \in Seq(BOOLEAN)
      BY <1>1 DEF StepFile
    <3>2. update \in BOOLEAN
      BY <1>4
    <3>3. /\ DOMAIN f.results = 1..(Len(stepFile.results) + 1)
          /\ DOMAIN stepFile.results = 1..Len(stepFile.results)
          /\ Len(stepFile.results) \in Nat
          /\ \A k \in 1..Len(stepFile.results) : f.results[k] = stepFile.results[k]
          /\ f.results[Len(stepFile.results) + 1] = update
      BY <2>5, <3>1, <3>2, AppendProperties
    <3>4. \A k \in DOMAIN f.results : k \in DOMAIN stepFile.results \/ k = Len(stepFile.results) + 1
      BY <3>3
    <3>5. AllTrue(stepFile.results)
      BY DEF InOrder, AllSucceeded
    <3> QED BY <1>4, <3>3, <3>4, <3>5, Zenon DEF AllTrue
  <2>7. tries[saveFile] \in Seq(Nat)
    BY <1>1, <2>2 DEF Resumable, PrTypes, TypeOK
  <2>8. NotTriedAfter(saveFile, f.step) /\ Tried(saveFile, f.step, f.retry + 1)
    <3>1. \A k \in DOMAIN tries[saveFile] : k \in Nat
      BY <2>7
    <3>2. stepFile.step \in Int
      BY <1>1 DEF StepFile
    <3>3. \A k \in DOMAIN tries[saveFile] : k > stepFile.step => tries[saveFile][k] = 0
      BY <2>3 DEF NotTriedAfter
    <3>4. \A k \in DOMAIN tries[saveFile] : k >= f.step => tries[saveFile][k] = 0
      BY <2>5, <3>1, <3>2, <3>3
    <3>5. f.step \in Int /\ f.retry = 0
      BY <2>5, <3>2
    <3> QED BY <3>1, <3>4, <3>5 DEF NotTriedAfter, Tried
  <2>9. f.step > 0
    BY <1>1, <2>2, <2>5 DEF Resumable, StepFile
  <2> QED BY <2>2, <2>3, <2>5, <2>6, <2>8, <2>9
<1> QED BY <1>2, <1>3, <1>4

LEMMA OrderBoot ==
    ASSUME PrTypes, InOrder, Boot PROVE InOrder'
<1> DEFINE f == WithUpdateResult(stepFile)
           orphan == f.step > 0 /\ saveFile = None
           resume == f.step > 0 /\ saveFile # None
<1>1. ~up /\ queue = <<>> /\ call = None
  BY Zenon DEF Boot, InOrder, OnlyOne
<1>2. /\ up' = TRUE /\ update' = None
      /\ UNCHANGED <<saveFile, executed, call, answers, done, tries, completed, cutShort, forgotten, recounted>>
  BY DEF Boot, history
<1>3. f \in StepFile /\ stepFile \in StepFile /\ saveFile \in Request \cup {None}
  BY UpdatedIsStepFile DEF PrTypes, TypeOK
<1>4. update = None \/ update = TRUE
  <2>1. update \in BOOLEAN \cup {None} /\ update # FALSE
    BY DEF PrTypes, TypeOK, InOrder, OnlyOne
  <2> QED BY <2>1
<1>5. update' # TRUE /\ update' # FALSE
  BY <1>2, NoneIsApart, Zenon
<1>6. /\ f.file = stepFile.file
      /\ f.step > 0 /\ saveFile # None => Resumable
      /\ Resumable => f.step > 0
      /\ AllTrue(f.results)
      /\ Resumable => /\ stepFile.file = saveFile /\ At(saveFile, f.step)
                      /\ NotTriedAfter(saveFile, f.step) /\ Tried(saveFile, f.step, f.retry + 1)
  BY UpdatedAgrees
<1>7. /\ queue' = IF resume THEN <<[req |-> saveFile, address |-> f.file]>> ELSE <<>>
      /\ current' = IF orphan THEN [Reread(f) EXCEPT !.interface = None, !.results = <<>>]
                    ELSE Reread(f)
      /\ stepFile' = IF orphan THEN Note(-1, 0, current') ELSE f
  BY DEF Boot
<1>8. OnlyOne'
  <2>1. Len(queue') <= 1
    BY <1>7
  <2> QED BY <1>1, <1>2, <1>5, <2>1, Zenon DEF OnlyOne
<1>9. FilesAgree'
  <2>1. CASE saveFile = None
    <3>1. ~Resumable'
      BY <1>2, <2>1 DEF Resumable
    <3> QED BY <1>5, <3>1, Zenon DEF FilesAgree
  <2>2. CASE saveFile # None
    <3>1. stepFile' = f
      BY <1>7, <2>2
    <3>2. Resumable' => Resumable
      BY <1>2, <1>6, <2>2, <3>1 DEF Resumable
    <3>3. (Resumable => /\ stepFile.file = saveFile /\ At(saveFile, stepFile.step)
                       /\ NotTriedAfter(saveFile, stepFile.step)
                       /\ Tried(saveFile, stepFile.step, stepFile.retry + 1))'
      BY <1>2, <1>6, <3>1, <3>2 DEF At, NotTriedAfter, Tried
    <3> QED BY <1>5, <3>3, Zenon DEF FilesAgree
  <2> QED BY <2>1, <2>2
<1>10. AllSucceeded'
  <2>1. CASE orphan
    <3>1. Reread(f) \in Currents
      BY <1>3, RereadIsCurrent
    <3>2. current'.results = <<>>
      BY <1>7, <2>1, <3>1 DEF Currents
    <3>3. stepFile'.results = <<>>
      BY <1>7, <2>1, <3>2 DEF Note
    <3> QED BY <3>2, <3>3 DEF AllSucceeded, AllTrue
  <2>2. CASE ~orphan
    BY <1>6, <1>7, <2>2 DEF AllSucceeded, Reread
  <2> QED BY <2>1, <2>2
<1>11. QueueAgrees'
  <2>1. CASE resume
    <3>1. queue' = <<[req |-> saveFile, address |-> f.file]>> /\ stepFile' = f
      BY <1>7, <2>1
    <3>2. f.file = saveFile /\ f.step > 0 /\ f.step \in Int
      BY <1>3, <1>6, <2>1 DEF StepFile
    <3>3. queue'[1].req = saveFile /\ queue'[1].address = f.file
      BY <3>1
    <3> QED BY <1>2, <2>1, <3>1, <3>2, <3>3 DEF QueueAgrees
  <2>2. CASE ~resume
    BY <1>7, <2>2 DEF QueueAgrees
  <2> QED BY <2>1, <2>2
<1>12. RunningAgrees' /\ EndingAgrees' /\ AddressIsOwn'
  BY <1>1, <1>2 DEF RunningAgrees, EndingAgrees, AddressIsOwn
<1>13. HistoryAgrees'
  <2> SUFFICES ASSUME NEW s \in Request, answers'[s] = <<>>, s \notin forgotten', ~Pending(s)'
               PROVE  Unseen(s)'
    BY DEF HistoryAgrees
  <2>1. ~(Resumable /\ saveFile = s)
    <3> SUFFICES ASSUME Resumable, saveFile = s PROVE Pending(s)'
      OBVIOUS
    <3>1. resume
      BY <1>6 DEF Resumable
    <3>2. queue' = <<[req |-> s, address |-> f.file]>>
      BY <1>7, <3>1
    <3>3. 1 \in DOMAIN queue' /\ queue'[1].req = s
      BY <3>2
    <3> QED BY <3>3 DEF Pending
  <2>2. ~Pending(s)
    BY <1>1, <2>1 DEF Pending
  <2>3. Unseen(s)
    BY <1>2, <2>2 DEF InOrder, HistoryAgrees
  <2> QED BY <1>2, <2>3 DEF Unseen
<1>14. OkIsOver'
  BY <1>1, <1>2 DEF InOrder, OkIsOver
<1>15. TriesHold'
  BY <1>2 DEF InOrder, TriesHold
<1>16. CountsAgree'
  <2>1. \A i \in Id : ~BeingCounted(i)' /\ ~BeingCounted(i)
    BY <1>1, <1>2 DEF BeingCounted
  <2> QED BY <1>2, <2>1 DEF InOrder, CountsAgree, Count
<1> QED BY <1>8, <1>9, <1>10, <1>11, <1>12, <1>13, <1>14, <1>15, <1>16 DEF InOrder

LEMMA OrderBootInterrupted ==
    ASSUME PrTypes, InOrder, BootInterrupted PROVE InOrder'
<1> DEFINE f == WithUpdateResult(stepFile)
<1>1. ~up /\ queue = <<>> /\ call = None
  BY Zenon DEF BootInterrupted, InOrder, OnlyOne
<1>2. /\ UNCHANGED <<saveFile, executed, up, current, queue, call, answers, done,
                     tries, completed, cutShort, forgotten>>
      /\ stepFile' = f
      /\ recounted => recounted'
  BY DEF BootInterrupted
<1>3. f \in StepFile /\ stepFile \in StepFile
  BY UpdatedIsStepFile DEF PrTypes, TypeOK
<1>4. update = TRUE
  <2>1. update \in BOOLEAN \cup {None} /\ update # FALSE /\ update # None
    BY DEF PrTypes, TypeOK, InOrder, OnlyOne, BootInterrupted
  <2> QED BY <2>1
<1>5. /\ Resumable' => Resumable
      /\ Resumable => f.step > 0
      /\ AllTrue(f.results)
      /\ Resumable => /\ f.file = saveFile /\ At(saveFile, f.step)
                      /\ NotTriedAfter(saveFile, f.step) /\ Tried(saveFile, f.step, f.retry + 1)
  BY <1>2, UpdatedAgrees DEF Resumable
<1>6. \/ update' = None
      \/ update' = TRUE /\ recounted' = TRUE
  <2>1. update' = None \/ update' = TRUE
    BY <1>4 DEF BootInterrupted
  <2>2. TRUE # None
    BY NoneIsApart
  <2>3. recounted \in BOOLEAN
    BY DEF PrTypes, TypeOK
  <2> QED BY <2>1, <2>2, <2>3 DEF BootInterrupted
<1>7. OnlyOne'
  <2>1. update' # FALSE
    BY <1>6, NoneIsApart
  <2>2. Len(queue') <= 1
    BY <1>1, <1>2
  <2> QED BY <1>1, <1>2, <2>1, <2>2, Zenon DEF OnlyOne
<1>8. Resumable
  BY <1>4, Zenon DEF InOrder, FilesAgree
<1>9. FilesAgree'
  <2>1. /\ stepFile'.file = saveFile' /\ stepFile'.step \in Nat \ {0}
        /\ At(saveFile, stepFile.step)'
        /\ NotTriedAfter(saveFile, stepFile.step)'
        /\ Tried(saveFile, stepFile.step, stepFile.retry + 1)'
    BY <1>2, <1>3, <1>5, <1>8 DEF StepFile, At, NotTriedAfter, Tried
  <2>2. CASE update' = None
    <3>1. update' # TRUE
      BY <2>2, NoneIsApart
    <3> QED BY <2>1, <3>1, Zenon DEF FilesAgree
  <2>3. CASE update' = TRUE /\ recounted' = TRUE
    <3>1. At(saveFile, stepFile.step + 1)'
      BY <2>1, <2>3 DEF At
    <3>2. Resumable'
      BY <1>2, <1>8, <2>1 DEF Resumable
    <3> QED BY <2>1, <2>3, <3>1, <3>2, Zenon DEF FilesAgree
  <2> QED BY <1>6, <2>2, <2>3
<1>10. AllSucceeded'
  BY <1>2, <1>5 DEF InOrder, AllSucceeded
<1>11. QueueAgrees' /\ RunningAgrees' /\ EndingAgrees' /\ AddressIsOwn'
  BY <1>1, <1>2 DEF QueueAgrees, RunningAgrees, EndingAgrees, AddressIsOwn
<1>12. HistoryAgrees'
  <2>1. \A s \in Request : Pending(s) => Pending(s)'
    BY <1>1, <1>2, <1>3, <1>5, <1>8 DEF Pending, Resumable
  <2> QED BY <1>2, <2>1 DEF InOrder, HistoryAgrees, Unseen
<1>13. OkIsOver'
  BY <1>1, <1>2 DEF InOrder, OkIsOver
<1>14. TriesHold'
  BY <1>2 DEF InOrder, TriesHold
<1>15. CountsAgree'
  <2>1. \A i \in Id : ~BeingCounted(i)' /\ ~BeingCounted(i)
    BY <1>1, <1>2 DEF BeingCounted
  <2> QED BY <1>2, <2>1 DEF InOrder, CountsAgree, Count
<1> QED BY <1>7, <1>9, <1>10, <1>11, <1>12, <1>13, <1>14, <1>15 DEF InOrder

\* A failed update stays one.
LEMMA OneAtATimeBefore ==
    ASSUME PrTypes, [Next]_vars, OneAtATime' PROVE OneAtATime
<1>1. badUpdate => badUpdate'
  <2>1. CASE UNCHANGED vars
    BY <2>1 DEF vars, history
  <2>2. CASE Restart
    BY <2>2 DEF Restart
  <2>3. CASE Next /\ ~Restart
    BY <2>3 DEF Next, Accept, Construct, ChecksFail, StartCall, GuiQueryFinished, ProcStepFinished,
       DcUpdateGuiRestoreQueryFinished, UnlinkSaveFile, NoteEnd, IncrementExecAttribute,
       GuiFinishFinished, Boot, BootInterrupted, history
  <2> QED BY <2>1, <2>2, <2>3
<1> QED BY <1>1 DEF OneAtATime

LEMMA OrderStep ==
    ASSUME PrInv, [Next]_vars PROVE PrInv'
<1>1. PrTypes /\ PrTypes'
  BY TypesStep DEF PrInv, PrTypes
<1>2. ASSUME OneAtATime' PROVE InOrder'
  <2>1. InOrder /\ MaxAccepted = 1 /\ ~badUpdate'
    BY <1>1, <1>2, OneAtATimeBefore DEF PrInv, OneAtATime
  <2>2. CASE UNCHANGED vars
    <3>1. UNCHANGED <<stepFile, saveFile, executed, update, up, current, queue, call,
                      answers, done, tries, completed, cutShort, forgotten, recounted>>
      BY <2>2 DEF vars, disk, history
    <3>2. OnlyOne' /\ FilesAgree'
      BY <2>1, <3>1, Zenon
      DEF InOrder, OnlyOne, FilesAgree, Resumable, At, NotTriedAfter, Tried
    <3>3. AllSucceeded' /\ QueueAgrees' /\ AddressIsOwn' /\ OkIsOver' /\ TriesHold'
      BY <2>1, <3>1
      DEF InOrder, AllSucceeded, QueueAgrees, Unseen, AddressIsOwn, OkIsOver, TriesHold
    <3>4. RunningAgrees'
      BY <2>1, <3>1 DEF InOrder, RunningAgrees, Running, Checking, Asking, Restoring,
         At, NotTriedAfter, Tried, Unseen
    <3>5. EndingAgrees'
      BY <2>1, <3>1 DEF InOrder, EndingAgrees, Running
    <3>6. HistoryAgrees'
      BY <2>1, <3>1 DEF InOrder, HistoryAgrees, Pending, Resumable, Unseen
    <3>7. CountsAgree'
      BY <2>1, <3>1 DEF InOrder, CountsAgree, Count, BeingCounted
    <3> QED BY <3>2, <3>3, <3>4, <3>5, <3>6, <3>7 DEF InOrder
  <2>3. CASE Next
    BY <1>1, <2>1, <2>3, OrderAccept, OrderConstruct, OrderChecksFail, OrderStartCall,
       OrderGuiQueryFinished, OrderProcStepFinished, OrderRestored, OrderUnlinkSaveFile,
       OrderNoteEnd, OrderIncrementExecAttribute, OrderGuiFinishFinished, OrderRestart,
       OrderBoot, OrderBootInterrupted DEF Next
  <2> QED BY <2>2, <2>3
<1> QED BY <1>1, <1>2 DEF PrInv, PrTypes

LEMMA PrInvariant == Spec => []PrInv
<1>1. Init => PrInv
  BY TypesInit, OrderInit DEF PrInv, PrTypes
<1> QED BY <1>1, OrderStep, PTL DEF Spec

----------------------------------------------------------------------------
(* What the daemon has in memory and on disk keeps its types, for any        *)
(* procedures and any number of them (procedure_step_handler.cc).            *)
THEOREM ProcedureTypes == Spec => []TypeOK
BY PrInvariant, PTL DEF PrInv

(* No restart makes a procedure skip a step or repeat one that was done, for *)
(* any number of restarts, as long as no second procedure is accepted, no    *)
(* update fails and no restart leaves the result of one to be counted twice  *)
(* (proc_step_finished, get_current_proc_step).                              *)
THEOREM StepsStayInOrder == Spec => [](MaxAccepted = 1 => StepsInOrder)
<1>1. PrInv => (MaxAccepted = 1 => StepsInOrder)
  <2> SUFFICES ASSUME PrInv, MaxAccepted = 1, Executing, ~badUpdate, ~recounted
               PROVE  \/ done[call.req] = call.pos - 1
                      \/ /\ done[call.req] = call.pos
                         /\ KindAt(call) = "dcUpdate" \/ call.pos = Len(Steps[call.req])
    BY DEF StepsInOrder
  <2>1. InOrder /\ call # None /\ "step" \in call.awaits
    BY DEF PrInv, OneAtATime, Executing
  <2>2. Running
    BY <2>1 DEF InOrder, EndingAgrees
  <2>3. At(call.req, call.pos)
    BY <2>1, <2>2 DEF InOrder, RunningAgrees
  <2> QED BY <2>3 DEF At, KindAt
<1> QED BY <1>1, PrInvariant, PTL

(* A step is tried at most MaxRetries + 1 times, whatever restarts the       *)
(* device in it (start_call).                                                *)
THEOREM TriesAreBounded == Spec => [](MaxAccepted = 1 => TriesBounded)
<1>1. PrInv => (MaxAccepted = 1 => TriesBounded)
  BY DEF PrInv, OneAtATime, InOrder, TriesHold, TriesBounded
<1> QED BY <1>1, PrInvariant, PTL

(* "ok" is told only of a procedure all of whose steps have succeeded, if no *)
(* result of an update was counted twice (gui_finish_finished).              *)
THEOREM OkAlwaysMeansDone == Spec => [](MaxAccepted = 1 => OkMeansDone)
<1>1. PrInv => (MaxAccepted = 1 => OkMeansDone)
  BY DEF PrInv, OneAtATime, InOrder, OkIsOver, OkMeansDone
<1> QED BY <1>1, PrInvariant, PTL

\* "exec" counts executions only of an id all of whose procedures have it, and
\* 0 is not a limit: the first execution does not look at it.
LimitsCount ==
    /\ \A r, s \in Request : IdOf[r] = IdOf[s] /\ Limit[r] # None => Limit[s] # None
    /\ \A r \in Request : Limit[r] # 0

(* "exec" limits the executions, but for the restarts between the end of a   *)
(* procedure and its counting (check_exec_exceeded).                         *)
THEOREM ExecLimitAlwaysHolds == Spec => [](MaxAccepted = 1 /\ LimitsCount => ExecLimitHolds)
<1>1. PrInv => (MaxAccepted = 1 /\ LimitsCount => ExecLimitHolds)
  <2> SUFFICES ASSUME PrInv, MaxAccepted = 1, LimitsCount, Executing, ~badUpdate,
                      Limit[call.req] # None
               PROVE  completed[IdOf[call.req]] < Limit[call.req] + cutShort
    BY DEF ExecLimitHolds
  <2>1. InOrder /\ call # None /\ "step" \in call.awaits
    BY DEF PrInv, OneAtATime, Executing
  <2>2. call \in Call /\ completed \in [Id -> Nat] /\ executed \in [Id -> Nat \cup {None}]
        /\ cutShort \in Nat
    BY <2>1 DEF PrInv, TypeOK
  <2>3. PICK r \in Request, i \in Id : r = call.req /\ i = IdOf[r]
    BY <2>2 DEF Call, Id
  <2>4. Limit[r] \in Nat /\ Limit[r] > 0
    BY <2>3, ProcedureAssumption DEF LimitsCount
  <2>5. Running /\ ~Checking
    <3>1. Running
      BY <2>1 DEF InOrder, EndingAgrees
    <3>2. call.awaits = {"step"}
      BY <2>1, <3>1 DEF InOrder, RunningAgrees
    <3> QED BY <3>1, <3>2 DEF Checking
  <2>6. executed[i] # None /\ executed[i] < Limit[r]
    BY <2>1, <2>3, <2>4, <2>5 DEF InOrder, RunningAgrees
  <2>7. AllLimited(i) /\ ~BeingCounted(i)
    BY <2>3, <2>5 DEF AllLimited, LimitsCount, BeingCounted, Running
  <2>8. completed[i] <= Count(i) + cutShort + 0
    BY <2>1, <2>7 DEF InOrder, CountsAgree
  <2>9. Count(i) = executed[i] /\ executed[i] \in Nat
    BY <2>2, <2>6 DEF Count
  <2> QED BY <2>2, <2>3, <2>4, <2>6, <2>8, <2>9
<1> QED BY <1>1, PrInvariant, PTL
=============================================================================
