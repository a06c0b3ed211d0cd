----------------------------- MODULE DcQueries -----------------------------
(***************************************************************************)
(* Queries of the daemon to the device controller (DC): QueryClientSerial  *)
(* with its _query_map over one of the two interface handlers.             *)
(*                                                                         *)
(* The USB handler writes a message within sendMessage and may be offline, *)
(* fail to write or be reset.  The RS422 handler only queues it; its frame *)
(* protocol is module SerialLink, of which this module sees that the DC    *)
(* gets the message at the head of the queue, that it is confirmed, or     *)
(* that it is given up.                                                    *)
(*                                                                         *)
(* create_query is followed by execute at once in every caller and is part *)
(* of it here.  `finished' is emitted after the query has left the map, or,*)
(* where execute fails, before; what the callback does next (execute       *)
(* another query) is a later step, which the removal does not touch.       *)
(***************************************************************************)
EXTENDS Naturals, Sequences

CONSTANTS
    Query,        \* queries, each with its odd task id
    GuiIo,        \* the queries created with use_timeout = false
    Result,       \* a result for a request of the DC (an even task id)
    MaxResults,   \* bound: such results sent
    MaxFailures,  \* bound: writes on USB that throw
    MaxGivenUp,   \* bound: messages given up on RS422
    MaxOutages,   \* bound: resets of the connection, ends of the IO watch
    MaxRestarts,  \* bound: restarts of the DC
    MaxMalformed  \* bound: replies that cannot be parsed

ASSUME QueriesAssumption ==
    /\ GuiIo \subseteq Query
    /\ Result \notin Query
    /\ {MaxResults, MaxFailures, MaxGivenUp, MaxOutages,
        MaxRestarts, MaxMalformed} \subseteq Nat

VARIABLES
    usb,        \* which handler the configuration selects, USB or RS422
    asked,      \* history: the queries that were executed
    answers,    \* history: how often each query has emitted finished
    map,        \* _query_map
    timer,      \* the queries whose _timeout_connection is connected
    watching,   \* the queries whose _error_connection is connected
    tx,         \* transmitMessages of the handler
    online,     \* _online; no is the time between reset and reconnection
    reading,    \* the IO watch of the handler is installed
    atDc,       \* the queries the DC has and has not answered
    counted     \* how often each bounded event has happened

vars == <<usb, asked, answers, map, timer, watching, tx, online, reading, atDc,
          counted>>

client == <<usb, asked, answers, map, timer, watching>>

Bound ==
    [results |-> MaxResults, failures |-> MaxFailures, givenUp |-> MaxGivenUp,
     outages |-> MaxOutages, restarts |-> MaxRestarts, malformed |-> MaxMalformed]

Count(event) ==
    /\ counted[event] < Bound[event]
    /\ counted' = [counted EXCEPT ![event] = @ + 1]

Init ==
    /\ usb \in BOOLEAN
    /\ asked = {}
    /\ answers = [q \in Query |-> 0]
    /\ map = {}
    /\ timer = {}
    /\ watching = {}
    /\ tx = <<>>
    /\ online = TRUE
    /\ reading = TRUE
    /\ atDc = {}
    /\ counted = [event \in DOMAIN Bound |-> 0]

(***************************************************************************)
(* The query client.                                                       *)
(***************************************************************************)
\* Mutant of Answered: a reply leaves the query in the map.
AnsweredStillMapped(qs) ==
    /\ answers' = [q \in Query |-> IF q \in qs THEN answers[q] + 1 ELSE answers[q]]
    /\ map' = map
    /\ timer' = timer \ qs
    /\ watching' = watching \ qs
    /\ UNCHANGED <<usb, asked>>

\* Mutant of Answered: the timer and the error callback stay connected.
AnsweredStillConnected(qs) ==
    /\ answers' = [q \in Query |-> IF q \in qs THEN answers[q] + 1 ELSE answers[q]]
    /\ map' = map \ qs
    /\ UNCHANGED <<usb, asked, timer, watching>>

\* The queries qs leave the map, disconnect their signals and are finished.
Answered(qs) ==
    /\ answers' = [q \in Query |-> IF q \in qs THEN answers[q] + 1 ELSE answers[q]]
    /\ map' = map \ qs
    /\ timer' = timer \ qs
    /\ watching' = watching \ qs
    /\ UNCHANGED <<usb, asked>>

\* Mutant of WithTimeout: the timeout is set for guiIO calls only.
WithTimeoutInverted(m, known) == {m} \cap known \cap GuiIo

\* on_query_sent: the timeout starts when the message has been transmitted, if
\* its query is in the map and has one.
WithTimeout(m, known) == ({m} \cap known) \ GuiIo

\* execute for a query that the handler accepts.
Registered(q) ==
    /\ asked' = asked \cup {q}
    /\ map' = map \cup {q}
    /\ watching' = watching \cup {q}
    /\ UNCHANGED <<usb, answers>>

\* execute when sendMessage throws UsbInterfaceOffline.
Refused(q) ==
    /\ asked' = asked \cup {q}
    /\ answers' = [answers EXCEPT ![q] = @ + 1]
    /\ UNCHANGED <<usb, map, watching>>

Sent(queue, known) ==
    /\ tx' = Tail(queue)
    /\ atDc' = atDc \cup ({Head(queue)} \ {Result})
    /\ timer' = timer \cup WithTimeout(Head(queue), known)

\* The write throws a Glib::Exception: the message stays in the queue.
WriteFails(queue) ==
    /\ counted["failures"] < MaxFailures
    /\ tx' = queue
    /\ UNCHANGED <<atDc, timer>>

ExecuteUsb(q) ==
    /\ usb /\ online
    /\ q \notin asked
    /\ \/ /\ Registered(q)
          /\ Sent(Append(tx, q), map \cup {q})
          /\ UNCHANGED counted
       \/ /\ Refused(q)
          /\ WriteFails(Append(tx, q))
          /\ Count("failures")
    /\ UNCHANGED <<online, reading>>

ExecuteOffline(q) ==
    /\ usb /\ ~online
    /\ q \notin asked
    /\ Refused(q)
    /\ UNCHANGED <<timer, tx, online, reading, atDc, counted>>

\* emit_result catches what sendLoop throws; offline it does nothing.
EmitResultUsb ==
    /\ usb /\ online
    /\ counted["results"] < MaxResults
    /\ \/ /\ Sent(Append(tx, Result), map)
          /\ counted' = [counted EXCEPT !["results"] = @ + 1]
       \/ /\ WriteFails(Append(tx, Result))
          /\ counted' = [counted EXCEPT !["results"] = @ + 1,
                                        !["failures"] = @ + 1]
    /\ UNCHANGED <<usb, asked, answers, map, watching, online, reading>>

(***************************************************************************)
(* Sending on the RS422 handler.                                           *)
(***************************************************************************)
ExecuteRs422(q) ==
    /\ ~usb
    /\ q \notin asked
    /\ Registered(q)
    /\ tx' = Append(tx, q)
    /\ UNCHANGED <<timer, online, reading, atDc, counted>>

EmitResultRs422 ==
    /\ ~usb
    /\ Count("results")
    /\ tx' = Append(tx, Result)
    /\ UNCHANGED <<client, online, reading, atDc>>

\* The DC has the message; its confirmation may still be on the way or lost,
\* so that the reply comes first.
DcReceives ==
    /\ ~usb
    /\ tx # <<>>
    /\ atDc' = atDc \cup ({Head(tx)} \ {Result})
    /\ UNCHANGED <<client, tx, online, reading, counted>>

\* The last frame is confirmed: request_sent.
Confirmed ==
    /\ ~usb
    /\ reading
    /\ tx # <<>>
    /\ tx' = Tail(tx)
    /\ timer' = timer \cup WithTimeout(Head(tx), map)
    /\ UNCHANGED <<usb, asked, answers, map, watching, online, reading, atDc, counted>>

\* senderMessage->discard(): the message is given up and nobody is told.
GiveUp ==
    /\ ~usb
    /\ tx # <<>>
    /\ Count("givenUp")
    /\ tx' = Tail(tx)
    /\ UNCHANGED <<client, online, reading, atDc>>

(***************************************************************************)
(* What comes back.                                                        *)
(***************************************************************************)
\* on_response_ready; the reply to a query that is not in the map is ignored.
ReceiveReply(q) ==
    /\ reading
    /\ q \in atDc
    /\ atDc' = atDc \ {q}
    /\ IF q \in map THEN Answered({q}) ELSE UNCHANGED client
    /\ UNCHANGED <<tx, online, reading, counted>>

\* The query has left the map when XmlResultParsed throws.  The USB handler
\* catches it and emits response_ready again, with an error, for a task id
\* that is now unknown.  (On RS422 nothing catches it and the daemon ends.)
ReceiveMalformedReply(q) ==
    /\ usb
    /\ reading
    /\ q \in atDc \cap map
    /\ Count("malformed")
    /\ atDc' = atDc \ {q}
    /\ map' = map \ {q}
    /\ timer' = timer \ {q}
    /\ watching' = watching \ {q}
    /\ UNCHANGED <<usb, asked, answers, tx, online, reading>>

QueryTimeout(q) ==
    /\ q \in timer
    /\ IF q \in map
         THEN Answered({q})
         ELSE timer' = timer \ {q} /\ UNCHANGED <<usb, asked, answers, map, watching>>
    /\ UNCHANGED <<tx, online, reading, atDc, counted>>

\* IO_IN with IO_ERR: every query in flight is told, the watch is removed.
ConnectionErrored ==
    /\ usb
    /\ reading
    /\ Count("outages")
    /\ Answered(watching \cap map)
    /\ reading' = FALSE
    /\ UNCHANGED <<tx, online, atDc>>

\* End of file, IO_HUP or an error of the read: the watch is removed silently.
StopReading ==
    /\ reading
    /\ Count("outages")
    /\ reading' = FALSE
    /\ UNCHANGED <<client, tx, online, atDc>>

\* The DC restarts and forgets what it was asked.
DcRestarts ==
    /\ Count("restarts")
    /\ atDc' = {}
    /\ UNCHANGED <<client, tx, online, reading>>

\* Called when an update of the DC is done.  On RS422 it has nothing to do.
ResetConnection ==
    /\ usb /\ online
    /\ Count("outages")
    /\ tx' = <<>>
    /\ online' = FALSE
    /\ reading' = FALSE
    /\ UNCHANGED <<client, atDc>>

\* on_reconnect_timeout, once the device can be opened again.
Reconnect ==
    /\ ~online
    /\ online' = TRUE
    /\ reading' = TRUE
    /\ UNCHANGED <<client, tx, atDc, counted>>

Next ==
    \/ \E q \in Query :
          \/ ExecuteUsb(q) \/ ExecuteOffline(q) \/ ExecuteRs422(q)
          \/ ReceiveReply(q) \/ ReceiveMalformedReply(q) \/ QueryTimeout(q)
    \/ EmitResultUsb \/ EmitResultRs422
    \/ DcReceives \/ Confirmed \/ GiveUp
    \/ ConnectionErrored \/ StopReading \/ DcRestarts
    \/ ResetConnection \/ Reconnect

Spec == Init /\ [][Next]_vars

\* Timers run out and the RS422 handler goes through its queue.  Whether the
\* DC answers is not assumed.
Fairness ==
    /\ \A q \in Query : WF_vars(QueryTimeout(q))
    /\ WF_vars(Confirmed \/ GiveUp)

FairSpec == Spec /\ Fairness

(***************************************************************************)
(* Properties.                                                             *)
(***************************************************************************)
TypeOK ==
    /\ usb \in BOOLEAN
    /\ asked \subseteq Query
    /\ answers \in [Query -> Nat]
    /\ map \subseteq Query
    /\ timer \subseteq Query
    /\ watching \subseteq Query
    /\ tx \in Seq(Query \cup {Result})
    /\ online \in BOOLEAN
    /\ reading \in BOOLEAN
    /\ atDc \subseteq Query
    /\ counted \in [DOMAIN Bound -> Nat]

\* Reply, timeout, error of the connection and failure to send race for a
\* query, and some of them come twice: it emits finished at most once.
AnsweredOnce == \A q \in Query : answers[q] <= 1

\* A timer or an error callback never outlives its query: it would later hit
\* a query that was answered long ago.
NoStrayCallbacks == timer \subseteq map /\ watching = map

\* Unless a message was lost on sending, a query that is not guiIO and was not
\* answered has its timeout running or is in the handler's queue, which will
\* start it (query_client_serial.cc:72-78).
TimedOrQueued ==
    counted["failures"] = 0 /\ counted["givenUp"] = 0 =>
        \A q \in map \ GuiIo : q \in timer \/ \E k \in 1..Len(tx) : tx[k] = q

\* Every failed write leaves a message behind in the USB handler's queue, and
\* nothing else does: the queue never lags by more than that.
BacklogOnlyFromFailures == usb => Len(tx) <= counted["failures"]

\* Only guiIO calls may wait for ever (query_client_serial.cc:195-201): any
\* other query is finished, whatever happens to the DC and the connection.
EveryTimedQueryFinishes ==
    \A q \in Query \ GuiIo : q \in asked ~> answers[q] > 0

\* The same as long as the handler loses no message on sending and no reply
\* fails to parse; the DC may forget its queries, the connection may fail, be
\* reset or end.
TimedQueryFinishesUnlessLost ==
    \A q \in Query \ GuiIo :
        q \in asked ~> \/ answers[q] > 0
                       \/ \E event \in {"failures", "givenUp", "malformed"} :
                             counted[event] > 0
                       \/ ~usb /\ ~reading

\* The query client is a query service.
Service == INSTANCE QueryService
IsQueryService == Service!Spec
=============================================================================
