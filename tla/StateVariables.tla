--------------------------- MODULE StateVariables ---------------------------
(***************************************************************************)
(* The states of the device that the daemon tells the DC (StateVariable):  *)
(* statusSIC, which is the master, the shared folder, the printer, ...     *)
(* Each variable has one query at a time; a state that is set meanwhile is *)
(* pending.  "ready" of the master is held back until every other variable *)
(* has been told once.                                                     *)
(*                                                                         *)
(* set_state is called in the middle of other callbacks, so the methods of *)
(* the class are operators on `sic', the members of all variables.  What   *)
(* is on its way to the DC is `wire', in order.  Modules Boot and Update   *)
(* send their queries through it as well.                                  *)
(***************************************************************************)
EXTENDS Naturals, Sequences, SequencesExt

CONSTANTS
    Variable,   \* the state variables
    Master,     \* statusSIC
    State,      \* the states that are set
    MaxEvents   \* bound: lost queries and other events from outside, together

ASSUME StateVariablesAssumption ==
    /\ Master \in Variable /\ "update" \notin Variable
    /\ {"booting", "ready"} \subseteq State /\ "unknown" \notin State
    /\ MaxEvents \in Nat

Unknown == "unknown"
None == "none"
Updater == "update"                 \* the query of CoreFunctionUpdate
Sender == Variable \cup {Updater}
Callback == {"query_booting_finished", "query_ready_finished"}

VARIABLES
    sic,      \* the members of the variables, see SicType
    wire,     \* the queries the DC has not read, the oldest first
    replied,  \* the senders whose query the DC has answered with 200
    dc,       \* what the DC takes the states to be
    dcUp,     \* the DC runs; otherwise it is restarting
    events    \* number of events from outside so far

link == <<wire, replied, dc, dcUp, events>>

Query == [from: Sender, tells: UNION {[V -> State \cup {Unknown, "restart"}] : V \in SUBSET Variable}]

SicType ==
    [current: [Variable -> State \cup {Unknown}],
     queried: [Variable -> State \cup {Unknown}],
     pending: [Variable -> State \cup {Unknown}],
     busy: SUBSET Variable,                \* _state_query is set
     submitted: SUBSET Variable,           \* _submitted
     connected: Callback \cup {None},      \* _query_done_connection of the master
     later: Callback \cup {None},          \* _pending_callback of the master
     sends: Seq(Query),                    \* handed to the link in this step
     online: BOOLEAN,                      \* _online of the USB handler
     asked: [Variable -> State \cup {Unknown}],  \* history: the last set_state
     failed: SUBSET Variable]              \* history: a query was not answered 200

InitialSic ==
    LET unknown == [v \in Variable |-> Unknown] IN
    [current |-> unknown, queried |-> unknown, pending |-> unknown,
     busy |-> {}, submitted |-> {}, connected |-> None, later |-> None,
     sends |-> <<>>, online |-> TRUE, asked |-> unknown, failed |-> {}]

-----------------------------------------------------------------------------
(* The methods of StateVariable, on the members s.                         *)

\* The query for the pending state.  While the USB handler is offline
\* execute() refuses it, and on_query_finish runs before set_state returns.
Asks(v, state) == [from |-> v, tells |-> [u \in {v} |-> state]]

StartQueryUnset(s, v) ==
    [s EXCEPT !.queried[v] = s.pending[v],
              !.sends = Append(@, Asks(v, s.pending[v]))]

StartQuery(s, v) ==
    IF s.online
    THEN [s EXCEPT !.queried[v] = s.pending[v], !.busy = @ \cup {v},
                   !.sends = Append(@, Asks(v, s.pending[v]))]
    ELSE [s EXCEPT !.queried[v] = s.pending[v], !.failed = @ \cup {v}]

Change(s, v, state) ==
    IF state = s.pending[v] THEN s
    ELSE LET p == [s EXCEPT !.pending[v] = state]
         IN  IF v \in s.busy THEN p ELSE StartQuery(p, v)

SetStateReadyAtOnce(s, v, state) ==
    Change([s EXCEPT !.asked[v] = state], v, state)

SetState(s, v, state) ==
    LET a == [s EXCEPT !.asked[v] = state]
        m == [a EXCEPT !.submitted = @ \cup {Master}]
    IN  IF v = Master /\ state = "ready"
        THEN IF m.submitted # Variable THEN m ELSE Change(m, v, state)
        ELSE Change(a, v, state)

\* set_state with a callback, which only the boot uses, on the master.
SetStateAndCall(s, state, callback) ==
    IF Master \notin s.busy
    THEN SetState([s EXCEPT !.connected = callback], Master, state)
    ELSE IF s.later = None
         THEN SetState([s EXCEPT !.later = callback], Master, state)
         ELSE s

\* on_query_finish for a result other than 200, after the callback.
QueryFailed(s, v) ==
    [s EXCEPT !.busy = @ \ {v},
              !.connected = IF v = Master THEN None ELSE @,
              !.failed = @ \cup {v}]

\* on_query_finish for 200, up to the callback and after it.
Promoted(s, v) == [s EXCEPT !.current[v] = s.queried[v]]

ContinuePendingNever(s, v) == s

ContinuePending(s, v) ==
    IF s.pending[v] = s.current[v] THEN s
    ELSE StartQuery(IF v = Master THEN [s EXCEPT !.connected = s.later] ELSE s, v)

SubmitSilently(s, v) == [s EXCEPT !.submitted = @ \cup {v}]

Submit(s, v) ==
    IF v = Master THEN s
    ELSE LET t == [s EXCEPT !.submitted = @ \cup {v}]
         IN  IF t.submitted = Variable THEN SetState(t, Master, "ready") ELSE t

AfterCallback(s, v) ==
    LET r == [s EXCEPT !.busy = @ \ {v}, !.connected = IF v = Master THEN None ELSE @]
    IN  Submit(ContinuePending(r, v), v)

\* create_replay_query: the states of all submitted variables, the master last.
ReplayQuery(s) ==
    [from |-> Updater, tells |-> [v \in s.submitted \cup {Master} |-> s.current[v]]]

-----------------------------------------------------------------------------
(* The link and the DC.                                                    *)

\* The step ends with the members s; what it sent is on the wire.
Sic(s) ==
    /\ sic' = [s EXCEPT !.sends = <<>>]
    /\ wire' = wire \o s.sends

InitLink(sends) ==
    /\ wire = sends
    /\ replied = {}
    /\ dc = [v \in Variable |-> Unknown]
    /\ dcUp = TRUE
    /\ events = 0

\* The DC carries out the oldest query; its reply is on the way.
DcCarriesOut ==
    /\ dcUp /\ wire # <<>>
    /\ LET q == Head(wire) IN
          /\ dc' = [v \in Variable |-> IF v \in DOMAIN q.tells THEN q.tells[v] ELSE dc[v]]
          /\ replied' = replied \cup {q.from}
    /\ wire' = Tail(wire)
    /\ UNCHANGED <<sic, dcUp, events>>

Event == events < MaxEvents /\ events' = events + 1

OnWire(x) == \E i \in DOMAIN wire : wire[i].from = x

\* The query of x ends without a 200: it or its reply was lost before, or is
\* lost now.  Its message does not reach the DC later.
Loses(x) ==
    /\ IF sic.online /\ dcUp /\ (OnWire(x) \/ x \in replied)
       THEN Event
       ELSE UNCHANGED events
    /\ replied' = replied \ {x}
    /\ UNCHANGED <<dc, dcUp>>

\* A sender has one query at a time.
WireWithout(x) ==
    IF OnWire(x)
    THEN RemoveAt(wire, CHOOSE i \in DOMAIN wire : wire[i].from = x)
    ELSE wire

\* The reply of the DC to the query of x is read.
Replies(x) ==
    /\ sic.online /\ x \in replied
    /\ replied' = replied \ {x}
    /\ UNCHANGED <<dc, dcUp, events>>

\* The DC restarts.  It forgets the states and what it has not read; replies
\* it has sent may still be read.
DcRestarts ==
    /\ dcUp
    /\ dcUp' = FALSE
    /\ dc' = [v \in Variable |-> Unknown]
    /\ wire' = <<>>
    /\ replied' \in {{}, replied}
    /\ UNCHANGED events

\* It is up again; what was sent meanwhile is lost.
DcIsUp ==
    /\ ~dcUp
    /\ dcUp' = TRUE
    /\ wire' = <<>>
    /\ UNCHANGED <<sic, replied, dc, events>>
=============================================================================
