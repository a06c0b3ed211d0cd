---------------------------- MODULE XmlProcessor ----------------------------
(***************************************************************************)
(* The scheduler of the daemon (xml_processor.cc) together with the life   *)
(* of a request (xml_request.cc).  Interfaces hand complete XML requests   *)
(* to parse_stream; three slots execute them, each fed by its own queue:   *)
(*                                                                         *)
(*   "top"   _current_request            _prio_queue                       *)
(*   "high"  _current_high_prio_request  _high_prio_queue                  *)
(*   "gui"   _current_gui_request        _gui_queue                        *)
(*                                                                         *)
(* Everything runs in one Glib main loop, so an action is one callback,    *)
(* except that execute() may complete the request while it is still on the *)
(* call stack: `executing' names the slot whose execute() has not returned *)
(* and no other callback runs until it has.                                *)
(***************************************************************************)
EXTENDS Integers, FiniteSets

CONSTANTS
    Request,    \* the requests clients may send
    Conn,       \* the connections they arrive on
    Volatile,   \* the connections that a client can close (sockets)
    Swallowing, \* the connections whose caller catches std::exception
    ConnOf,     \* Request -> Conn
    Interface,  \* Request -> the interface (ZixInterface) it arrives on
    Fid,        \* Request -> the function it names
    Parent,     \* Request -> the request whose script sends it, or None
    None

ASSUME RequestAssumption ==
    /\ None \notin Request
    /\ Volatile \subseteq Conn
    /\ Swallowing \subseteq Conn
    /\ ConnOf \in [Request -> Conn]
    /\ Parent \in [Request -> Request \cup {None}]
    \* "the scripts only call guiIO" (xml_processor.cc:66)
    /\ \A r \in Request : Parent[r] # None => Fid[r] = "guiIO"

Slot == {"top", "high", "gui"}

VARIABLES
    current,     \* the request each slot is executing, or None
    queue,       \* the requests waiting for each slot
    executing,   \* the slot whose execute() is on the call stack, or None
    ts,          \* the arrival stamp of each request, -1 before it arrives
    req_counter, \* XmlRequest::req_counter
    results,     \* how many results were emitted for each request
    closed,      \* the connections whose client has gone
    alive        \* the daemon has not been terminated by an exception

vars == <<current, queue, executing, ts, req_counter, results, closed, alive>>

(***************************************************************************)
(* Priorities.                                                             *)
(***************************************************************************)
InterfacePrio(i) ==
    CASE i = "IPC"                                              -> 4
      [] i \in {"COM1", "COM2"}                                 -> 3
      [] i \in {"LANwebservice", "LANwebserver", "LANsocket"}   -> 2
      [] i \in {"LANsharedfolder", "USB"}                       -> 1
      [] OTHER                                                  -> 0

\* prio_map; a function it does not list ("log", "update", and
\* "getMeasurementsList", which it misspells) has priority 0.
OrdinaryFunctions ==
    {"getFilesList", "delFile", "getFile", "setFile", "dataOut", "dataFree",
     "getMeasurement", "dataIn", "getMeasurementList", "getCalibration",
     "getDefaults", "getProfilesList", "getProfile", "getParametersList",
     "getParameter", "getTemplatesList", "getTemplate", "setMeasurementsList",
     "setMeasurement", "setCalibration", "setDefaults", "setProfilesList",
     "setProfile", "setParameter", "setTemplatesList", "setTemplate",
     "delMeasurement", "delProfile", "delTemplate", "procedure"}

FunctionPrio(f) ==
    CASE f \in {"getConf", "setConf", "guiIO"} -> 3
      [] f = "dataSync"                        -> 2
      [] f \in OrdinaryFunctions               -> 1
      [] OTHER                                 -> 0

Prio(r) == InterfacePrio(Interface[r]) + FunctionPrio(Fid[r])

\* Mutant of Before: the order of arrival alone.
BeforeOldestFirst(q, r) == ts[q] < ts[r]

\* The queues' order: a higher priority first, then an older request.
Before(q, r) == IF Prio(q) = Prio(r) THEN ts[q] < ts[r] ELSE Prio(q) > Prio(r)

\* _gui_queue is a heap built without a comparator.  Up to two elements are
\* popped without comparing, in the order in which they were pushed.
GuiBefore(q, r) == ts[q] < ts[r]

Top(s, r) ==
    /\ r \in queue[s]
    /\ \A q \in queue[s] \ {r} :
           IF s = "gui" THEN GuiBefore(r, q) ELSE Before(r, q)

TargetNoGui(r) ==
    IF current["top"] # None /\ Interface[r] = "IPC" THEN "high" ELSE "top"

(***************************************************************************)
(* The slot parse_stream chooses, its two exceptions first.                *)
(***************************************************************************)
Target(r) ==
    IF (current["top"] # None \/ current["high"] # None) /\ Fid[r] = "guiIO"
      THEN "gui"
    ELSE IF current["top"] # None /\ Interface[r] = "IPC"
      THEN "high"
      ELSE "top"

Fresh(r) == ts[r] = -1

Outstanding(r) == \E s \in Slot : r \in queue[s] \/ r = current[s]

\* A script sends its request while the call that started it is executed.
CanSend(r) ==
    /\ Fresh(r)
    /\ ConnOf[r] \notin closed
    /\ Parent[r] # None => \E s \in Slot : current[s] = Parent[r]

TypeOK ==
    /\ current \in [Slot -> Request \cup {None}]
    /\ queue \in [Slot -> SUBSET Request]
    /\ executing \in Slot \cup {None}
    /\ ts \in [Request -> Nat \cup {-1}]
    /\ req_counter \in Nat
    /\ results \in [Request -> Nat]
    /\ closed \subseteq Conn
    /\ alive \in BOOLEAN

Init ==
    /\ current = [s \in Slot |-> None]
    /\ queue = [s \in Slot |-> {}]
    /\ executing = None
    /\ ts = [r \in Request |-> -1]
    /\ req_counter = 0
    /\ results = [r \in Request |-> 0]
    /\ closed = {}
    /\ alive = TRUE

\* The main loop is free to dispatch a callback.
Idle == alive /\ executing = None

\* The XmlRequest constructor numbers every request it is given.
Stamp(r) ==
    /\ ts' = [ts EXCEPT ![r] = req_counter]
    /\ req_counter' = req_counter + 1

\* parse_stream with an idle slot: the request is pushed, popped and executed.
ParseAndStart(r) ==
    /\ Idle
    /\ CanSend(r)
    /\ current[Target(r)] = None
    /\ queue[Target(r)] = {}
    /\ Stamp(r)
    /\ current' = [current EXCEPT ![Target(r)] = r]
    /\ executing' = Target(r)
    /\ UNCHANGED <<queue, results, closed, alive>>

\* parse_stream with a busy slot: the request is pushed.  Pushing onto a
\* _gui_queue that is not empty calls its missing comparator.
ParseAndQueue(r) ==
    /\ Idle
    /\ CanSend(r)
    /\ current[Target(r)] # None
    /\ Target(r) = "gui" => queue["gui"] = {}
    /\ Stamp(r)
    /\ queue' = [queue EXCEPT ![Target(r)] = @ \cup {r}]
    /\ UNCHANGED <<current, executing, results, closed, alive>>

\* std::bad_function_call leaves parse_stream with the request already in the
\* vector.  forward_entry_to_zix catches it, every other caller does not and
\* the daemon is terminated.  At most GuiBound requests wait: with a third
\* one the pop would compare too.
GuiBound == 2

ParseGuiThrows(r) ==
    /\ Idle
    /\ CanSend(r)
    /\ Target(r) = "gui"
    /\ current["gui"] # None
    /\ queue["gui"] # {}
    /\ Cardinality(queue["gui"]) < GuiBound
    /\ Stamp(r)
    /\ queue' = [queue EXCEPT !["gui"] = @ \cup {r}]
    /\ alive' = (ConnOf[r] \in Swallowing)
    /\ UNCHANGED <<current, executing, results, closed>>

\* A request that cannot be parsed is answered at once and never scheduled.
ParseError(r) ==
    /\ Idle
    /\ CanSend(r)
    /\ Stamp(r)
    /\ results' = [results EXCEPT ![r] = @ + 1]
    /\ UNCHANGED <<current, queue, executing, closed, alive>>

\* execute() returns with the call still running.
ExecutePending ==
    /\ alive
    /\ executing # None
    /\ executing' = None
    /\ UNCHANGED <<current, queue, ts, req_counter, results, closed, alive>>

\* Mutant of StartNext: the slot is emptied and its queue forgotten.
StartNextNever(s) ==
    /\ current' = [current EXCEPT ![s] = None]
    /\ executing' = None
    /\ UNCHANGED queue

\* The *request_finished handlers: the slot is emptied and the next request
\* of its queue is popped and executed, inside the completion of this one.
StartNext(s) ==
    IF queue[s] = {}
      THEN /\ current' = [current EXCEPT ![s] = None]
           /\ executing' = None
           /\ UNCHANGED queue
      ELSE \E n \in queue[s] :
             /\ Top(s, n)
             /\ current' = [current EXCEPT ![s] = n]
             /\ queue' = [queue EXCEPT ![s] = @ \ {n}]
             /\ executing' = s

\* function_finished, and the error paths of execute(): the result goes to
\* the connection, if there still is one, and `finished' is emitted.
EmitResult(s) ==
    /\ ConnOf[current[s]] \notin closed
    /\ results' = [results EXCEPT ![current[s]] = @ + 1]
    /\ StartNext(s)
    /\ UNCHANGED <<ts, req_counter, closed, alive>>

\* _interface_connection.lock() is empty: emit_result is called on nothing.
EmitResultOnClosedConnection(s) ==
    /\ ConnOf[current[s]] \in closed
    /\ alive' = FALSE
    /\ UNCHANGED <<current, queue, executing, ts, req_counter, results, closed>>

\* The call finishes while execute() is on the stack (it failed, or it did
\* all its work in start_call).
ExecuteFinishes ==
    /\ alive
    /\ executing # None
    /\ \/ EmitResult(executing)
       \/ EmitResultOnClosedConnection(executing)

\* A running script waits for the requests it has sent.
WaitsForScript(s) ==
    \E r \in Request : Parent[r] = current[s] /\ Outstanding(r)

\* The call finishes in a later callback.
FunctionFinished(s) ==
    /\ Idle
    /\ current[s] # None
    /\ ~WaitsForScript(s)
    /\ \/ EmitResult(s)
       \/ EmitResultOnClosedConnection(s)

\* The client closes its end: stream_eof, then deregister_connection, which
\* drops the last reference.
CloseConnection(c) ==
    /\ Idle
    /\ c \in Volatile \ closed
    /\ closed' = closed \cup {c}
    /\ UNCHANGED <<current, queue, executing, ts, req_counter, results, alive>>

Next ==
    \/ \E r \in Request :
          \/ ParseAndStart(r)
          \/ ParseAndQueue(r)
          \/ ParseGuiThrows(r)
          \/ ParseError(r)
    \/ ExecutePending
    \/ ExecuteFinishes
    \/ \E s \in Slot : FunctionFinished(s)
    \/ \E c \in Conn : CloseConnection(c)

Spec == Init /\ [][Next]_vars

\* The main loop keeps dispatching: execute() returns, and a call that waits
\* for nothing finishes (queries and child processes have timeouts).
Fairness ==
    /\ WF_vars(ExecutePending \/ ExecuteFinishes)
    /\ \A s \in Slot : WF_vars(FunctionFinished(s))

FairSpec == Spec /\ Fairness

(***************************************************************************)
(* Properties.                                                             *)
(***************************************************************************)

\* Each request is in exactly one place: in one queue, or in one slot, or
\* answered once.  parse_stream returns after each exception and the finished
\* handlers forget a request before they pop the next, so no request is lost,
\* executed by two slots or answered twice.
OnePlace ==
    /\ \A s, t \in Slot : s # t => queue[s] \cap queue[t] = {}
    /\ \A s, t \in Slot : current[s] \notin queue[t]
    /\ \A s, t \in Slot : s # t /\ current[s] # None => current[s] # current[t]
    /\ \A r \in Request :
          /\ results[r] <= 1
          /\ results[r] = 1 => ~Outstanding(r)
          /\ ~Fresh(r) <=> (results[r] = 1 \/ Outstanding(r))

\* Whenever the main loop is free an idle slot has no request waiting for it:
\* each completion starts the next request of its own queue.
NoIdleSlotWithWork ==
    alive => \A s \in Slot : current[s] = None => queue[s] = {}

\* A request of the DC (interface IPC) never waits behind the requests of the
\* other interfaces: it is in _prio_queue only to be executed at once
\* (xml_processor.cc:58, exception 1).
DcNotBehindOthers ==
    \A r \in queue["top"] : Interface[r] # "IPC"

\* The three slots neither lose a request nor stand still before one, and the
\* DC does not wait for the others.
SlotsAreSound == OnePlace /\ NoIdleSlotWithWork /\ DcNotBehindOthers

\* No request starts in a slot while one that goes before it waits for that
\* slot, whether it was popped or came straight from parse_stream: in the
\* slots with a comparator the one that starts has a higher priority than each
\* that waits, or an equal one and is older; in "gui" it is the oldest.
StartsInOrder ==
    [][\A s \in Slot : current'[s] \notin {None, current[s]} =>
          \A q \in queue'[s] :
             \/ s # "gui" /\ Prio(current'[s]) > Prio(q)
             \/ /\ s = "gui" \/ Prio(current'[s]) = Prio(q)
                /\ ts'[current'[s]] < ts[q]]_vars

\* Every request that arrives is eventually answered, the guiIO requests of
\* scripts included, which their callers wait for (xml_processor.cc:62).
EveryRequestAnswered ==
    \A r \in Request : (~Fresh(r)) ~> (results[r] = 1 \/ ~alive)

\* guiIO calls that arrive while something runs "have to [be] executed as
\* well" (xml_processor.cc:62-64): accepting one does not end the daemon.
GuiIoAccepted == alive
=============================================================================
