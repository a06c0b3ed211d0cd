------------------------- MODULE XmlProcessorProofs -------------------------
(***************************************************************************)
(* What holds of the scheduler for any set of requests and connections.    *)
(***************************************************************************)
EXTENDS XmlProcessor, TLAPS

\* The slot on the call stack executes a request.  The code reads
\* _current_request right after it set it; the model reads current[executing].
ExecutingBusy == executing # None => current[executing] # None

\* The inductive invariant.
IInv ==
    /\ TypeOK
    /\ OnePlace
    /\ NoIdleSlotWithWork
    /\ DcNotBehindOthers
    /\ ExecutingBusy

LEMMA CurrentIsRequest == ASSUME NEW s \in Slot, TypeOK, current[s] # None
                         PROVE  current[s] \in Request
  BY DEF TypeOK

\* Whatever slot parse_stream chooses is one of the three.
LEMMA TargetInSlot == ASSUME NEW r PROVE Target(r) \in Slot
  BY DEF Target, Slot

\* A request that has not arrived is nowhere.
LEMMA FreshNowhere ==
    ASSUME NEW r \in Request, OnePlace, Fresh(r)
    PROVE  /\ results[r] # 1
           /\ \A s \in Slot : r \notin queue[s] /\ r # current[s]
  BY DEF OnePlace, Outstanding

LEMMA InitInv == Init => IInv
  <1> SUFFICES ASSUME Init PROVE IInv
    OBVIOUS
  <1>1. TypeOK
    BY DEF Init, TypeOK
  <1>2. OnePlace
    BY RequestAssumption DEF Init, OnePlace, Outstanding, Fresh
  <1>3. NoIdleSlotWithWork /\ DcNotBehindOthers /\ ExecutingBusy
    BY DEF Init, NoIdleSlotWithWork, DcNotBehindOthers, ExecutingBusy, Slot
  <1>4. QED
    BY <1>1, <1>2, <1>3 DEF IInv

LEMMA ParseAndStartInv ==
    ASSUME IInv, NEW r \in Request, ParseAndStart(r) PROVE IInv'
  <1> USE DEF IInv
  <1>1. Target(r) \in Slot
    BY TargetInSlot
  <1>2. TypeOK'
    BY <1>1 DEF ParseAndStart, Stamp, TypeOK
  <1>3. /\ Fresh(r)
        /\ ts' = [ts EXCEPT ![r] = req_counter] /\ req_counter \in Nat
        /\ current' = [current EXCEPT ![Target(r)] = r]
        /\ queue' = queue /\ results' = results
    BY DEF ParseAndStart, CanSend, Stamp, TypeOK
  <1>4. OnePlace'
    <2>1. \A s \in Slot : r \notin queue[s] /\ r # current[s]
      BY <1>3, FreshNowhere
    <2>2. /\ \A s, t \in Slot : current'[s] \notin queue'[t]
          /\ \A s, t \in Slot : s # t /\ current'[s] # None => current'[s] # current'[t]
      BY <1>1, <1>3, <2>1 DEF OnePlace, TypeOK
    <2>3. \A p \in Request : (p # r /\ Outstanding(p)') <=> (p # r /\ Outstanding(p))
      BY <1>1, <1>3, RequestAssumption DEF Outstanding, ParseAndStart, TypeOK
    <2>4. Outstanding(r)' /\ ~Fresh(r)' /\ results[r] # 1
      BY <1>1, <1>3, FreshNowhere DEF Outstanding, Fresh, TypeOK
    <2>5. \A p \in Request : p # r => (Fresh(p)' <=> Fresh(p))
      BY <1>3 DEF Fresh, TypeOK
    <2>6. QED
      BY <1>3, <2>2, <2>3, <2>4, <2>5 DEF OnePlace
  <1>5. NoIdleSlotWithWork'
    BY <1>1, <1>3, RequestAssumption DEF NoIdleSlotWithWork, TypeOK, ParseAndStart, Idle
  <1>6. DcNotBehindOthers'
    BY <1>3 DEF DcNotBehindOthers
  <1>7. ExecutingBusy'
    BY <1>1, RequestAssumption DEF ExecutingBusy, ParseAndStart, TypeOK
  <1>8. QED
    BY <1>2, <1>4, <1>5, <1>6, <1>7

\* Both ways of adding a request to the queue of a busy slot.
LEMMA QueueInv ==
    ASSUME IInv, NEW r \in Request, CanSend(r),
           current[Target(r)] # None,
           Stamp(r),
           queue' = [queue EXCEPT ![Target(r)] = @ \cup {r}],
           UNCHANGED <<current, executing, results, closed>>,
           alive' \in BOOLEAN, alive
    PROVE  IInv'
  <1> USE DEF IInv
  <1>1. Target(r) \in Slot
    BY TargetInSlot
  <1>2. TypeOK'
    BY <1>1 DEF Stamp, TypeOK
  <1>3. /\ Fresh(r)
        /\ ts' = [ts EXCEPT ![r] = req_counter] /\ req_counter \in Nat
    BY DEF CanSend, Stamp, TypeOK
  <1>4. OnePlace'
    BY <1>1, <1>3, FreshNowhere, RequestAssumption
    DEF OnePlace, Outstanding, Fresh, TypeOK
  <1>5. NoIdleSlotWithWork'
    BY <1>1 DEF NoIdleSlotWithWork, TypeOK
  <1>6. DcNotBehindOthers'
    BY DEF DcNotBehindOthers, Target, TypeOK, Slot
  <1>7. ExecutingBusy'
    BY DEF ExecutingBusy
  <1>8. QED
    BY <1>2, <1>4, <1>5, <1>6, <1>7

LEMMA ParseAndQueueInv ==
    ASSUME IInv, NEW r \in Request, ParseAndQueue(r) PROVE IInv'
  BY QueueInv DEF ParseAndQueue, Idle, IInv, TypeOK

LEMMA ParseGuiThrowsInv ==
    ASSUME IInv, NEW r \in Request, ParseGuiThrows(r) PROVE IInv'
  <1>1. current[Target(r)] # None /\ alive' \in BOOLEAN /\ alive
    BY DEF ParseGuiThrows, Idle
  <1>2. QED
    BY <1>1, QueueInv DEF ParseGuiThrows

LEMMA ParseErrorInv ==
    ASSUME IInv, NEW r \in Request, ParseError(r) PROVE IInv'
  <1> USE DEF IInv
  <1>1. /\ Fresh(r)
        /\ ts' = [ts EXCEPT ![r] = req_counter] /\ req_counter \in Nat
        /\ results' = [results EXCEPT ![r] = @ + 1]
        /\ UNCHANGED <<current, queue, executing, closed, alive>>
    BY DEF ParseError, CanSend, Stamp, TypeOK
  <1>2. results[r] = 0
    BY <1>1, FreshNowhere DEF OnePlace, TypeOK
  <1>3. TypeOK'
    BY <1>1 DEF TypeOK, ParseError, Stamp
  <1>4. OnePlace'
    BY <1>1, <1>2, FreshNowhere DEF OnePlace, Outstanding, Fresh, TypeOK
  <1>5. NoIdleSlotWithWork' /\ DcNotBehindOthers' /\ ExecutingBusy'
    BY <1>1 DEF NoIdleSlotWithWork, DcNotBehindOthers, ExecutingBusy
  <1>6. QED
    BY <1>3, <1>4, <1>5

\* A completion in slot s, whether inside execute() or in a later callback.
LEMMA EmitResultInv ==
    ASSUME IInv, NEW s \in Slot, current[s] # None, alive,
           executing \in {s, None}, EmitResult(s)
    PROVE  IInv'
  <1> USE DEF IInv
  <1> DEFINE r == current[s]
  <1>1. /\ r \in Request
        /\ results' = [results EXCEPT ![r] = @ + 1]
        /\ UNCHANGED <<ts, req_counter, closed, alive>>
    BY CurrentIsRequest DEF EmitResult
  <1>2. results[r] = 0 /\ ~Fresh(r)
    BY <1>1 DEF OnePlace, Outstanding, TypeOK
  <1>3. CASE queue[s] = {}
    <2>1. /\ current' = [current EXCEPT ![s] = None]
          /\ executing' = None /\ queue' = queue
      BY <1>3 DEF EmitResult, StartNext
    <2>2. TypeOK'
      BY <1>1, <2>1 DEF TypeOK
    <2>3. OnePlace'
      BY <1>1, <1>2, <2>1, RequestAssumption DEF OnePlace, Outstanding, Fresh, TypeOK
    <2>4. NoIdleSlotWithWork' /\ DcNotBehindOthers' /\ ExecutingBusy'
      BY <1>1, <1>3, <2>1 DEF NoIdleSlotWithWork, DcNotBehindOthers, ExecutingBusy, TypeOK
    <2>5. QED
      BY <2>2, <2>3, <2>4
  <1>4. CASE queue[s] # {}
    <2>1. PICK n \in queue[s] :
             /\ current' = [current EXCEPT ![s] = n]
             /\ queue' = [queue EXCEPT ![s] = @ \ {n}]
             /\ executing' = s
      BY <1>4 DEF EmitResult, StartNext
    <2>2. n \in Request /\ n # r /\ n # None
      BY RequestAssumption DEF TypeOK, OnePlace
    <2>3. TypeOK'
      BY <1>1, <2>1, <2>2 DEF TypeOK
    <2>4. OnePlace'
      BY <1>1, <1>2, <2>1, <2>2, RequestAssumption
      DEF OnePlace, Outstanding, Fresh, TypeOK
    <2>5. NoIdleSlotWithWork' /\ DcNotBehindOthers' /\ ExecutingBusy'
      BY <1>1, <2>1, <2>2 DEF NoIdleSlotWithWork, DcNotBehindOthers, ExecutingBusy, TypeOK
    <2>6. QED
      BY <2>3, <2>4, <2>5
  <1>5. QED
    BY <1>3, <1>4

\* A step that leaves requests, queues and slots alone.
LEMMA SameRequestsInv ==
    ASSUME IInv, UNCHANGED <<current, queue, ts, req_counter, results>>,
           executing' \in {executing, None}, closed' \subseteq Conn,
           alive' \in BOOLEAN, alive' => alive
    PROVE  IInv'
  <1>1. TypeOK' /\ OnePlace'
    BY DEF IInv, TypeOK, OnePlace, Outstanding, Fresh
  <1>2. NoIdleSlotWithWork' /\ DcNotBehindOthers' /\ ExecutingBusy'
    BY DEF IInv, NoIdleSlotWithWork, DcNotBehindOthers, ExecutingBusy
  <1>3. QED
    BY <1>1, <1>2 DEF IInv

LEMMA NextInv == IInv /\ [Next]_vars => IInv'
  <1> SUFFICES ASSUME IInv, [Next]_vars PROVE IInv'
    OBVIOUS
  <1>1. ASSUME NEW r \in Request,
               ParseAndStart(r) \/ ParseAndQueue(r) \/ ParseGuiThrows(r) \/ ParseError(r)
        PROVE  IInv'
    BY <1>1, ParseAndStartInv, ParseAndQueueInv, ParseGuiThrowsInv, ParseErrorInv
  <1>2. CASE ExecutePending
    BY <1>2, SameRequestsInv DEF ExecutePending, IInv, TypeOK
  <1>3. CASE ExecuteFinishes
    <2>1. executing \in Slot /\ current[executing] # None /\ alive
      BY <1>3 DEF ExecuteFinishes, IInv, TypeOK, ExecutingBusy
    <2>2. CASE EmitResult(executing)
      BY <2>1, <2>2, EmitResultInv
    <2>3. CASE EmitResultOnClosedConnection(executing)
      BY <2>3, SameRequestsInv DEF EmitResultOnClosedConnection, IInv, TypeOK
    <2>4. QED
      BY <1>3, <2>2, <2>3 DEF ExecuteFinishes
  <1>4. ASSUME NEW s \in Slot, FunctionFinished(s) PROVE IInv'
    <2>1. CASE EmitResult(s)
      BY <1>4, <2>1, EmitResultInv DEF FunctionFinished, Idle
    <2>2. CASE EmitResultOnClosedConnection(s)
      BY <2>2, SameRequestsInv DEF EmitResultOnClosedConnection, IInv, TypeOK
    <2>3. QED
      BY <1>4, <2>1, <2>2 DEF FunctionFinished
  <1>5. ASSUME NEW c \in Conn, CloseConnection(c) PROVE IInv'
    BY <1>5, SameRequestsInv DEF CloseConnection, IInv, TypeOK
  <1>6. CASE UNCHANGED vars
    BY <1>6, SameRequestsInv DEF vars, IInv, TypeOK
  <1>7. QED
    BY <1>1, <1>2, <1>3, <1>4, <1>5, <1>6 DEF Next

LEMMA Invariance == Spec => []IInv
  BY InitInv, NextInv, PTL DEF Spec

\* The scheduler's variables keep their types.
THEOREM TypeCorrect == Spec => []TypeOK
  BY Invariance, PTL DEF IInv

\* No request is ever lost by the queues, executed in two slots or answered
\* twice, whatever the mix of interfaces, functions and completions.
THEOREM EachRequestInOnePlace == Spec => []OnePlace
  BY Invariance, PTL DEF IInv

\* A slot is never left idle while requests wait for it.
THEOREM SlotsWorkConserving == Spec => []NoIdleSlotWithWork
  BY Invariance, PTL DEF IInv

\* The requests of the DC never queue behind those of the other interfaces.
THEOREM DcGoesFirst == Spec => []DcNotBehindOthers
  BY Invariance, PTL DEF IInv

\* The three together: the slots are sound for every set of requests.
THEOREM SlotsAlwaysSound == Spec => []SlotsAreSound
  BY EachRequestInOnePlace, SlotsWorkConserving, DcGoesFirst, PTL DEF SlotsAreSound

\* Requests start in the order of their priorities, then of their arrival.
THEOREM RequestsStartInOrder == Spec => StartsInOrder
  <1> DEFINE InOrder ==
        \A s \in Slot : current'[s] \notin {None, current[s]} =>
          \A q \in queue'[s] :
             \/ s # "gui" /\ Prio(current'[s]) > Prio(q)
             \/ /\ s = "gui" \/ Prio(current'[s]) = Prio(q)
                /\ ts'[current'[s]] < ts[q]
  <1>1. IInv /\ [Next]_vars => [InOrder]_vars
    <2> SUFFICES ASSUME IInv, Next PROVE InOrder
      OBVIOUS
    <2>1. ASSUME NEW s \in Slot, EmitResult(s) PROVE InOrder
      <3>1. CASE queue[s] = {}
        BY <2>1, <3>1 DEF EmitResult, StartNext, IInv, TypeOK
      <3>2. CASE queue[s] # {}
        <4>1. PICK n \in queue[s] :
                 /\ Top(s, n)
                 /\ current' = [current EXCEPT ![s] = n]
                 /\ queue' = [queue EXCEPT ![s] = @ \ {n}]
          BY <2>1, <3>2 DEF EmitResult, StartNext
        <4>2. \A q \in queue[s] \ {n} :
                 \/ s # "gui" /\ Prio(n) > Prio(q)
                 \/ (s = "gui" \/ Prio(n) = Prio(q)) /\ ts[n] < ts[q]
          BY <4>1 DEF Top, Before, GuiBefore
        <4>3. ts' = ts
          BY <2>1 DEF EmitResult
        <4>4. QED
          BY <4>1, <4>2, <4>3 DEF IInv, TypeOK
      <3>3. QED
        BY <3>1, <3>2
    <2>2. ASSUME NEW r \in Request, ParseAndStart(r) PROVE InOrder
      BY <2>2, TargetInSlot DEF ParseAndStart, IInv, TypeOK
    <2>3. ASSUME UNCHANGED current PROVE InOrder
      BY <2>3
    <2>4. ASSUME ExecuteFinishes PROVE InOrder
      <3>1. executing \in Slot
        BY <2>4 DEF ExecuteFinishes, IInv, TypeOK
      <3>2. QED
        BY <2>1, <2>3, <2>4, <3>1 DEF ExecuteFinishes, EmitResultOnClosedConnection
    <2>5. QED
      BY <2>1, <2>2, <2>3, <2>4
      DEF Next, ParseAndQueue, ParseGuiThrows, ParseError, ExecutePending,
          FunctionFinished, EmitResultOnClosedConnection, CloseConnection
  <1>2. QED
    BY <1>1, Invariance, PTL DEF Spec, StartsInOrder
=============================================================================
