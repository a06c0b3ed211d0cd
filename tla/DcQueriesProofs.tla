-------------------------- MODULE DcQueriesProofs --------------------------
(***************************************************************************)
(* Proofs about DcQueries, for every set of queries, both handlers and any *)
(* bounds on failures, outages and malformed replies.                      *)
(***************************************************************************)
EXTENDS DcQueries, SequenceTheorems, TLAPS

\* A query in the map was executed and not answered; one that was not executed
\* was not answered either.
MapIsUnanswered ==
    /\ map \subseteq asked
    /\ \A q \in map : answers[q] = 0
    /\ \A q \in Query \ asked : answers[q] = 0

Inv == TypeOK /\ NoStrayCallbacks /\ MapIsUnanswered /\ AnsweredOnce

-----------------------------------------------------------------------------
\* Counting an event keeps the counters numbers.
LEMMA CountType ==
    ASSUME counted \in [DOMAIN Bound -> Nat], NEW event \in DOMAIN Bound,
           Count(event)
    PROVE  counted' \in [DOMAIN Bound -> Nat]
<1>1. counted[event] + 1 \in Nat
  OBVIOUS
<1> QED BY <1>1 DEF Count

LEMMA Events ==
    DOMAIN Bound = {"results", "failures", "givenUp", "outages", "restarts",
                    "malformed"}
BY DEF Bound

\* Answering queries that are in the map keeps the client's part of Inv.
LEMMA AnsweredInv ==
    ASSUME Inv, NEW qs \in SUBSET map, Answered(qs)
    PROVE  /\ usb' \in BOOLEAN
           /\ asked' \subseteq Query /\ answers' \in [Query -> Nat]
           /\ map' \subseteq Query /\ timer' \subseteq Query
           /\ watching' \subseteq Query
           /\ NoStrayCallbacks' /\ MapIsUnanswered' /\ AnsweredOnce'
<1>1. \A q \in Query : answers'[q] = IF q \in qs THEN 1 ELSE answers[q]
  BY DEF Inv, TypeOK, MapIsUnanswered, Answered
<1>2. answers' \in [Query -> Nat]
  BY DEF Inv, TypeOK, Answered
<1>3. NoStrayCallbacks'
  BY DEF Inv, NoStrayCallbacks, Answered
<1>4. MapIsUnanswered'
  BY <1>1 DEF Inv, TypeOK, MapIsUnanswered, Answered
<1>5. AnsweredOnce'
  BY <1>1 DEF Inv, TypeOK, AnsweredOnce
<1> QED BY <1>2, <1>3, <1>4, <1>5 DEF Inv, TypeOK, Answered

\* A message that was sent sets a timer of a query in the map at most, and a
\* message that was not sent sets none.
LEMMA SentInv ==
    ASSUME NEW queue \in Seq(Query \cup {Result}), queue # <<>>,
           NEW known \in SUBSET Query, timer \subseteq known,
           atDc \subseteq Query, Sent(queue, known)
    PROVE  /\ tx' \in Seq(Query \cup {Result})
           /\ timer' \subseteq known
           /\ atDc' \subseteq Query
<1>1. Head(queue) \in Query \cup {Result} /\ Tail(queue) \in Seq(Query \cup {Result})
  OBVIOUS
<1> QED BY <1>1 DEF Sent, WithTimeout

LEMMA AppendType ==
    ASSUME tx \in Seq(Query \cup {Result}), NEW m \in Query \cup {Result}
    PROVE  /\ Append(tx, m) \in Seq(Query \cup {Result})
           /\ Append(tx, m) # <<>>
BY AppendProperties

LEMMA RegisteredInv ==
    ASSUME Inv, NEW q \in Query, q \notin asked, Registered(q),
           timer' \subseteq map \cup {q}
    PROVE  /\ usb' \in BOOLEAN
           /\ asked' \subseteq Query /\ answers' \in [Query -> Nat]
           /\ map' \subseteq Query /\ timer' \subseteq Query
           /\ watching' \subseteq Query
           /\ NoStrayCallbacks' /\ MapIsUnanswered' /\ AnsweredOnce'
<1>1. NoStrayCallbacks'
  BY DEF Inv, NoStrayCallbacks, Registered
<1>2. MapIsUnanswered'
  BY DEF Inv, TypeOK, MapIsUnanswered, Registered
<1> QED BY <1>1, <1>2 DEF Inv, TypeOK, AnsweredOnce, Registered

LEMMA RefusedInv ==
    ASSUME Inv, NEW q \in Query, q \notin asked, Refused(q), timer' = timer
    PROVE  /\ usb' \in BOOLEAN
           /\ asked' \subseteq Query /\ answers' \in [Query -> Nat]
           /\ map' \subseteq Query /\ timer' \subseteq Query
           /\ watching' \subseteq Query
           /\ NoStrayCallbacks' /\ MapIsUnanswered' /\ AnsweredOnce'
<1>1. \A r \in Query : answers'[r] = IF r = q THEN 1 ELSE answers[r]
  BY DEF Inv, TypeOK, MapIsUnanswered, Refused
<1>2. answers' \in [Query -> Nat]
  BY DEF Inv, TypeOK, Refused
<1>3. MapIsUnanswered'
  BY <1>1 DEF Inv, TypeOK, MapIsUnanswered, Refused
<1>4. AnsweredOnce'
  BY <1>1 DEF Inv, TypeOK, AnsweredOnce
<1> QED BY <1>2, <1>3, <1>4 DEF Inv, TypeOK, NoStrayCallbacks, Refused

-----------------------------------------------------------------------------
LEMMA InitInv == Init => Inv
BY DEF Init, Inv, TypeOK, NoStrayCallbacks, MapIsUnanswered, AnsweredOnce

LEMMA NextInv ==
    ASSUME Inv, [Next]_vars
    PROVE  Inv'
<1> USE QueriesAssumption
<1>1. ASSUME NEW q \in Query, ExecuteUsb(q) PROVE Inv'
  <2>1. /\ Append(tx, q) \in Seq(Query \cup {Result})
        /\ Append(tx, q) # <<>>
    BY AppendType DEF Inv, TypeOK
  <2>2. CASE Registered(q) /\ Sent(Append(tx, q), map \cup {q}) /\ UNCHANGED counted
    <3>1. /\ map \cup {q} \in SUBSET Query
          /\ timer \subseteq map \cup {q}
          /\ atDc \subseteq Query
      BY DEF Inv, TypeOK, NoStrayCallbacks
    <3>2. /\ tx' \in Seq(Query \cup {Result})
          /\ timer' \subseteq map \cup {q}
          /\ atDc' \subseteq Query
      BY <2>1, <2>2, <3>1, SentInv
    <3> QED BY <1>1, <2>2, <3>2, RegisteredInv DEF Inv, TypeOK, ExecuteUsb
  <2>3. CASE Refused(q) /\ WriteFails(Append(tx, q)) /\ Count("failures")
    <3>1. counted' \in [DOMAIN Bound -> Nat]
      BY <2>3, CountType, Events DEF Inv, TypeOK
    <3>2. tx' \in Seq(Query \cup {Result}) /\ timer' = timer /\ atDc' = atDc
      BY <2>1, <2>3 DEF WriteFails
    <3> QED BY <1>1, <2>3, <3>1, <3>2, RefusedInv DEF Inv, TypeOK, ExecuteUsb
  <2> QED BY <1>1, <2>2, <2>3 DEF ExecuteUsb
<1>2. ASSUME NEW q \in Query, ExecuteOffline(q) PROVE Inv'
  BY <1>2, RefusedInv DEF Inv, TypeOK, ExecuteOffline
<1>3. ASSUME NEW q \in Query, ExecuteRs422(q) PROVE Inv'
  <2>1. tx' \in Seq(Query \cup {Result})
    BY <1>3, AppendType DEF Inv, TypeOK, ExecuteRs422
  <2>2. timer' \subseteq map \cup {q}
    BY <1>3 DEF Inv, NoStrayCallbacks, ExecuteRs422
  <2> QED BY <1>3, <2>1, <2>2, RegisteredInv DEF Inv, TypeOK, ExecuteRs422
<1>4. ASSUME NEW q \in Query, ReceiveReply(q) PROVE Inv'
  <2>1. CASE q \in map
    BY <1>4, <2>1, AnsweredInv DEF Inv, TypeOK, ReceiveReply
  <2>2. CASE q \notin map
    BY <1>4, <2>2 DEF Inv, TypeOK, NoStrayCallbacks, MapIsUnanswered, AnsweredOnce,
       ReceiveReply, client
  <2> QED BY <2>1, <2>2
<1>5. ASSUME NEW q \in Query, ReceiveMalformedReply(q) PROVE Inv'
  <2>1. counted' \in [DOMAIN Bound -> Nat]
    BY <1>5, CountType, Events DEF Inv, TypeOK, ReceiveMalformedReply
  <2> QED BY <1>5, <2>1 DEF Inv, TypeOK, NoStrayCallbacks, MapIsUnanswered,
             AnsweredOnce, ReceiveMalformedReply
<1>6. ASSUME NEW q \in Query, QueryTimeout(q) PROVE Inv'
  <2>1. q \in map
    BY <1>6 DEF Inv, NoStrayCallbacks, QueryTimeout
  <2> QED BY <1>6, <2>1, AnsweredInv DEF Inv, TypeOK, QueryTimeout
<1>7. ASSUME EmitResultUsb PROVE Inv'
  <2>1. /\ Append(tx, Result) \in Seq(Query \cup {Result})
        /\ Append(tx, Result) # <<>>
    BY AppendType DEF Inv, TypeOK
  <2>2. counted' \in [DOMAIN Bound -> Nat]
    <3>1. counted["results"] + 1 \in Nat /\ counted["failures"] + 1 \in Nat
      BY Events, SMTT(20) DEF Inv, TypeOK
    <3> QED BY <1>7, <3>1 DEF Inv, TypeOK, EmitResultUsb
  <2>3. /\ tx' \in Seq(Query \cup {Result})
        /\ timer' \subseteq map
        /\ atDc' \subseteq Query
    <3>1. CASE Sent(Append(tx, Result), map)
      BY <2>1, <3>1, SentInv DEF Inv, TypeOK, NoStrayCallbacks
    <3>2. CASE WriteFails(Append(tx, Result))
      BY <2>1, <3>2 DEF Inv, TypeOK, NoStrayCallbacks, WriteFails
    <3> QED BY <1>7, <3>1, <3>2 DEF EmitResultUsb
  <2> QED BY <1>7, <2>2, <2>3 DEF Inv, TypeOK, NoStrayCallbacks, MapIsUnanswered,
             AnsweredOnce, EmitResultUsb
<1>8. ASSUME EmitResultRs422 PROVE Inv'
  <2>1. counted' \in [DOMAIN Bound -> Nat]
    BY <1>8, CountType, Events DEF Inv, TypeOK, EmitResultRs422
  <2>2. tx' \in Seq(Query \cup {Result})
    BY <1>8, AppendType DEF Inv, TypeOK, EmitResultRs422
  <2> QED BY <1>8, <2>1, <2>2 DEF Inv, TypeOK, NoStrayCallbacks, MapIsUnanswered,
             AnsweredOnce, EmitResultRs422, client
<1>9. ASSUME DcReceives PROVE Inv'
  <2>1. Head(tx) \in Query \cup {Result}
    BY <1>9 DEF Inv, TypeOK, DcReceives
  <2> QED BY <1>9, <2>1 DEF Inv, TypeOK, NoStrayCallbacks, MapIsUnanswered,
             AnsweredOnce, DcReceives, client
<1>10. ASSUME Confirmed PROVE Inv'
  <2>1. tx' \in Seq(Query \cup {Result})
    BY <1>10 DEF Inv, TypeOK, Confirmed
  <2>2. timer' \subseteq map
    BY <1>10 DEF Inv, NoStrayCallbacks, Confirmed, WithTimeout
  <2> QED BY <1>10, <2>1, <2>2 DEF Inv, TypeOK, NoStrayCallbacks,
             MapIsUnanswered, AnsweredOnce, Confirmed
<1>11. ASSUME GiveUp PROVE Inv'
  <2>1. counted' \in [DOMAIN Bound -> Nat]
    BY <1>11, CountType, Events DEF Inv, TypeOK, GiveUp
  <2>2. tx' \in Seq(Query \cup {Result})
    BY <1>11 DEF Inv, TypeOK, GiveUp
  <2> QED BY <1>11, <2>1, <2>2 DEF Inv, TypeOK, NoStrayCallbacks,
             MapIsUnanswered, AnsweredOnce, GiveUp, client
<1>12. ASSUME ConnectionErrored PROVE Inv'
  <2>1. counted' \in [DOMAIN Bound -> Nat]
    BY <1>12, CountType, Events DEF Inv, TypeOK, ConnectionErrored
  <2> QED BY <1>12, <2>1, AnsweredInv DEF Inv, TypeOK, ConnectionErrored
<1>13. ASSUME StopReading \/ DcRestarts \/ ResetConnection PROVE Inv'
  <2>1. counted' \in [DOMAIN Bound -> Nat]
    BY <1>13, CountType, Events DEF Inv, TypeOK, StopReading, DcRestarts,
       ResetConnection
  <2>2. tx' \in Seq(Query \cup {Result})
    BY <1>13, EmptySeq DEF Inv, TypeOK, StopReading, DcRestarts, ResetConnection
  <2> QED BY <1>13, <2>1, <2>2 DEF Inv, TypeOK, NoStrayCallbacks, MapIsUnanswered,
             AnsweredOnce, StopReading, DcRestarts, ResetConnection, client
<1>14. ASSUME Reconnect PROVE Inv'
  BY <1>14 DEF Inv, TypeOK, NoStrayCallbacks, MapIsUnanswered, AnsweredOnce,
     Reconnect, client
<1>15. CASE UNCHANGED vars
  BY <1>15 DEF Inv, TypeOK, NoStrayCallbacks, MapIsUnanswered, AnsweredOnce, vars
<1> QED
  BY <1>1, <1>2, <1>3, <1>4, <1>5, <1>6, <1>7, <1>8, <1>9, <1>10, <1>11, <1>12,
     <1>13, <1>14, <1>15 DEF Next

\* The inductive invariant of the query client.
THEOREM Invariance == Spec => []Inv
<1>1. Init => Inv
  BY InitInv
<1>2. Inv /\ [Next]_vars => Inv'
  BY NextInv
<1> QED BY <1>1, <1>2, PTL DEF Spec

\* The variables keep their types.
THEOREM TypeCorrect == Spec => []TypeOK
<1>1. Inv => TypeOK
  BY DEF Inv
<1> QED BY <1>1, Invariance, PTL

\* A query emits finished at most once, however reply, timeout, connection
\* error and a write that fails race for it (on_response_ready,
\* on_query_timeout, on_query_error, execute).
THEOREM FinishedAtMostOnce == Spec => []AnsweredOnce
<1>1. Inv => AnsweredOnce
  BY DEF Inv
<1> QED BY <1>1, Invariance, PTL

\* No timer and no error callback outlives its query (disconnect_signals).
THEOREM CallbacksEndWithQuery == Spec => []NoStrayCallbacks
<1>1. Inv => NoStrayCallbacks
  BY DEF Inv
<1> QED BY <1>1, Invariance, PTL

-----------------------------------------------------------------------------
\* The queue of the USB handler.
BacklogInv == BacklogOnlyFromFailures /\ counted["failures"] <= MaxFailures

LEMMA Counters ==
    ASSUME TypeOK
    PROVE  /\ counted["failures"] \in Nat /\ MaxFailures \in Nat
           /\ "failures" \in DOMAIN counted
           /\ \A event \in DOMAIN Bound :
                 event # "failures" /\ Count(event)
                    => counted'["failures"] = counted["failures"]
           /\ Count("failures") =>
                 /\ counted'["failures"] = counted["failures"] + 1
                 /\ counted'["failures"] <= MaxFailures
<1>1. counted["failures"] \in Nat /\ MaxFailures \in Nat /\ "failures" \in DOMAIN counted
  BY Events, QueriesAssumption DEF TypeOK
<1>2. Bound["failures"] = MaxFailures
  BY DEF Bound
<1> QED BY <1>1, <1>2 DEF TypeOK, Count

\* The handler is chosen once.
LEMMA UsbConstant ==
    ASSUME [Next]_vars
    PROVE  usb' = usb
BY DEF Next, vars, client, Registered, Refused, Answered, ExecuteUsb,
   ExecuteOffline, ExecuteRs422, ReceiveReply, ReceiveMalformedReply,
   QueryTimeout, EmitResultUsb, EmitResultRs422, DcReceives, Confirmed, GiveUp,
   ConnectionErrored, StopReading, DcRestarts, ResetConnection, Reconnect

LEMMA BacklogStep ==
    ASSUME Inv, BacklogInv, [Next]_vars
    PROVE  BacklogInv'
<1>1. /\ counted["failures"] \in Nat /\ MaxFailures \in Nat
      /\ tx \in Seq(Query \cup {Result}) /\ usb' = usb
  BY Counters, UsbConstant DEF Inv, TypeOK
<1> USE <1>1 DEF BacklogInv, BacklogOnlyFromFailures
<1>2. ASSUME NEW q \in Query, ExecuteUsb(q) PROVE BacklogInv'
  <2>1. /\ Len(Append(tx, q)) = Len(tx) + 1
        /\ Len(Tail(Append(tx, q))) = Len(tx)
    OBVIOUS
  <2>2. CASE Sent(Append(tx, q), map \cup {q}) /\ UNCHANGED counted
    BY <2>1, <2>2 DEF Sent
  <2>3. CASE WriteFails(Append(tx, q)) /\ Count("failures")
    BY <2>1, <2>3, Counters DEF WriteFails, Inv
  <2> QED BY <1>2, <2>2, <2>3 DEF ExecuteUsb
<1>3. ASSUME EmitResultUsb PROVE BacklogInv'
  <2>1. /\ Len(Append(tx, Result)) = Len(tx) + 1
        /\ Len(Tail(Append(tx, Result))) = Len(tx)
    OBVIOUS
  <2>2. "failures" \in DOMAIN counted
    BY Counters DEF Inv
  <2>3. CASE /\ Sent(Append(tx, Result), map)
             /\ counted' = [counted EXCEPT !["results"] = @ + 1]
    <3>1. counted'["failures"] = counted["failures"]
      BY <2>2, <2>3
    <3> QED BY <2>1, <2>3, <3>1 DEF Sent
  <2>4. CASE /\ WriteFails(Append(tx, Result))
             /\ counted' = [counted EXCEPT !["results"] = @ + 1,
                                           !["failures"] = @ + 1]
    <3>1. /\ counted'["failures"] = counted["failures"] + 1
          /\ counted["failures"] < MaxFailures
      BY <2>2, <2>4 DEF WriteFails, Inv, TypeOK
    <3> QED BY <2>1, <2>4, <3>1 DEF WriteFails
  <2> QED BY <1>3, <2>3, <2>4 DEF EmitResultUsb
<1>4. ASSUME NEW q \in Query,
             ExecuteOffline(q) \/ ReceiveReply(q) \/ QueryTimeout(q)
      PROVE  BacklogInv'
  BY <1>4 DEF ExecuteOffline, ReceiveReply, QueryTimeout
<1>5. ASSUME NEW q \in Query, ReceiveMalformedReply(q) PROVE BacklogInv'
  BY <1>5, Counters, Events DEF ReceiveMalformedReply, Inv
<1>6. ASSUME ~usb, [Next]_vars PROVE counted'["failures"] <= MaxFailures
  <2>1. CASE counted' = counted
    BY <2>1
  <2>2. CASE Count("failures")
    BY <2>2, Counters DEF Inv
  <2>3. CASE \E event \in DOMAIN Bound \ {"failures"} : Count(event)
    BY <2>3, Counters DEF Inv
  <2> QED BY <1>6, <2>1, <2>2, <2>3, Events
          DEF Next, vars, ExecuteUsb, ExecuteOffline, ExecuteRs422, ReceiveReply,
              ReceiveMalformedReply, QueryTimeout, EmitResultUsb, EmitResultRs422,
              DcReceives, Confirmed, GiveUp, ConnectionErrored, StopReading,
              DcRestarts, ResetConnection, Reconnect
<1>7. ASSUME ConnectionErrored \/ StopReading \/ DcRestarts PROVE BacklogInv'
  BY <1>7, Counters, Events DEF Inv, ConnectionErrored, StopReading, DcRestarts
<1>8. ASSUME ResetConnection PROVE BacklogInv'
  <2>1. Len(tx') = 0
    BY <1>8, EmptySeq DEF ResetConnection
  <2> QED BY <1>8, <2>1, Counters, Events DEF Inv, ResetConnection
<1>9. CASE Reconnect \/ UNCHANGED vars
  BY <1>9 DEF Reconnect, vars
<1>10. CASE ~usb
  BY <1>6, <1>10
<1>11. ASSUME usb, ~UNCHANGED vars
       PROVE  /\ Next
              /\ \A q \in Query : ~ExecuteRs422(q)
              /\ ~EmitResultRs422 /\ ~DcReceives /\ ~Confirmed /\ ~GiveUp
  BY <1>11 DEF ExecuteRs422, EmitResultRs422, DcReceives, Confirmed, GiveUp
<1> HIDE DEF BacklogInv, BacklogOnlyFromFailures
<1> QED
  BY <1>2, <1>3, <1>4, <1>5, <1>7, <1>8, <1>9, <1>10, <1>11 DEF Next

\* Only failed writes leave messages in the queue of the USB handler
\* (sendLoop sends one message per call and pops it when it was written).
THEOREM BacklogBounded == Spec => []BacklogOnlyFromFailures
<1>1. Init => BacklogInv
  <2>1. ASSUME Init PROVE Len(tx) = 0 /\ counted["failures"] = 0 /\ MaxFailures \in Nat
    BY <2>1, Events, QueriesAssumption DEF Init
  <2> QED BY <2>1 DEF BacklogInv, BacklogOnlyFromFailures
<1>2. Inv /\ BacklogInv /\ [Next]_vars => BacklogInv'
  BY BacklogStep
<1>3. BacklogInv => BacklogOnlyFromFailures
  BY DEF BacklogInv
<1> QED BY <1>1, <1>2, <1>3, Invariance, PTL DEF Spec

-----------------------------------------------------------------------------
\* The query client as a query service.
LEMMA AnsweredStep ==
    ASSUME Inv, NEW qs \in SUBSET map, Answered(qs)
    PROVE  [Service!Next]_Service!vars
<1>1. qs \in SUBSET Service!Unanswered
  BY DEF Inv, MapIsUnanswered, Service!Unanswered
<1>2. CASE qs = {}
  <2>1. answers' = answers
    BY <1>2 DEF Inv, TypeOK, Answered
  <2> QED BY <2>1 DEF Answered, Service!vars
<1>3. CASE qs # {}
  <2>1. answers' = [q \in Query |-> IF q \in qs THEN 1 ELSE answers[q]]
    BY <1>1 DEF Answered, Service!Unanswered
  <2>2. Service!Answer(qs)
    BY <1>3, <2>1 DEF Answered, Service!Answer
  <2> QED BY <1>1, <2>2 DEF Service!Next
<1> QED BY <1>2, <1>3

LEMMA RefusedStep ==
    ASSUME Inv, NEW q \in Query, q \notin asked, Refused(q)
    PROVE  [Service!Next]_Service!vars
<1>1. answers[q] = 0
  BY DEF Inv, MapIsUnanswered
<1>2. answers' = [answers EXCEPT ![q] = 1]
  BY <1>1 DEF Refused
<1> QED BY <1>2 DEF Refused, Service!Refuse, Service!Next

LEMMA ServiceStep ==
    ASSUME Inv, [Next]_vars
    PROVE  [Service!Next]_Service!vars
<1>1. ASSUME NEW q \in Query, ExecuteUsb(q) PROVE [Service!Next]_Service!vars
  <2>1. CASE Registered(q)
    BY <1>1, <2>1 DEF ExecuteUsb, Registered, Service!Ask, Service!Next
  <2>2. CASE Refused(q)
    BY <1>1, <2>2, RefusedStep DEF ExecuteUsb
  <2> QED BY <1>1, <2>1, <2>2 DEF ExecuteUsb
<1>2. ASSUME NEW q \in Query, ExecuteOffline(q) PROVE [Service!Next]_Service!vars
  BY <1>2, RefusedStep DEF ExecuteOffline
<1>3. ASSUME NEW q \in Query, ExecuteRs422(q) PROVE [Service!Next]_Service!vars
  BY <1>3 DEF ExecuteRs422, Registered, Service!Ask, Service!Next
<1>4. ASSUME NEW q \in Query, ReceiveReply(q) PROVE [Service!Next]_Service!vars
  <2>1. CASE q \in map
    BY <1>4, <2>1, AnsweredStep DEF ReceiveReply
  <2>2. CASE q \notin map
    BY <1>4, <2>2 DEF ReceiveReply, client, Service!vars
  <2> QED BY <2>1, <2>2
<1>5. ASSUME NEW q \in Query, QueryTimeout(q) PROVE [Service!Next]_Service!vars
  <2>1. q \in map
    BY <1>5 DEF Inv, NoStrayCallbacks, QueryTimeout
  <2> QED BY <1>5, <2>1, AnsweredStep DEF QueryTimeout
<1>6. ASSUME ConnectionErrored PROVE [Service!Next]_Service!vars
  BY <1>6, AnsweredStep DEF ConnectionErrored
<1>7. ASSUME NEW q \in Query, ReceiveMalformedReply(q)
      PROVE  [Service!Next]_Service!vars
  BY <1>7 DEF ReceiveMalformedReply, Service!vars
<1>8. CASE \/ EmitResultUsb \/ EmitResultRs422 \/ DcReceives \/ Confirmed
           \/ GiveUp \/ StopReading \/ DcRestarts \/ ResetConnection
           \/ Reconnect \/ UNCHANGED vars
  BY <1>8 DEF EmitResultUsb, EmitResultRs422, DcReceives, Confirmed, GiveUp,
     StopReading, DcRestarts, ResetConnection, Reconnect, vars, client,
     Service!vars
<1> QED BY <1>1, <1>2, <1>3, <1>4, <1>5, <1>6, <1>7, <1>8 DEF Next

\* Whatever the connection does, the query client behaves as the query service:
\* no query is answered before it is executed, and none twice.
THEOREM ImplementsQueryService == Spec => IsQueryService
<1>1. Init => Service!Init
  BY DEF Init, Service!Init
<1>2. Inv /\ [Next]_vars => [Service!Next]_Service!vars
  BY ServiceStep
<1> QED BY <1>1, <1>2, Invariance, PTL DEF Spec, IsQueryService, Service!Spec

-----------------------------------------------------------------------------
\* No message was lost on sending.
NothingLost == counted["failures"] = 0 /\ counted["givenUp"] = 0

LEMMA NothingLostBefore ==
    ASSUME TypeOK, [Next]_vars, NothingLost'
    PROVE  NothingLost /\ ~Count("failures") /\ ~Count("givenUp") /\ ~GiveUp
<1>1. /\ counted["failures"] \in Nat /\ counted["givenUp"] \in Nat
      /\ DOMAIN counted = DOMAIN Bound
  BY Events DEF TypeOK
<1>2. ~Count("failures") /\ ~Count("givenUp")
  BY <1>1, Events DEF Count, NothingLost
<1>3. CASE counted' = counted
  BY <1>2, <1>3 DEF NothingLost, GiveUp
<1>4. CASE \E event \in DOMAIN Bound \ {"failures", "givenUp"} : Count(event)
  <2>1. PICK event \in DOMAIN Bound \ {"failures", "givenUp"} : Count(event)
    BY <1>4
  <2>2. /\ counted'["failures"] = counted["failures"]
        /\ counted'["givenUp"] = counted["givenUp"]
    BY <1>1, <2>1, Events DEF Count
  <2> QED BY <1>2, <2>2 DEF NothingLost, GiveUp
<1>5. ASSUME EmitResultUsb PROVE NothingLost /\ ~GiveUp
  <2>1. CASE counted' = [counted EXCEPT !["results"] = @ + 1]
    <3>1. /\ counted'["failures"] = counted["failures"]
          /\ counted'["givenUp"] = counted["givenUp"]
      BY <1>1, <2>1, Events
    <3> QED BY <1>2, <3>1 DEF NothingLost, GiveUp
  <2>2. CASE counted' = [counted EXCEPT !["results"] = @ + 1,
                                        !["failures"] = @ + 1]
    <3>1. counted'["failures"] = counted["failures"] + 1
      BY <1>1, <2>2, Events
    <3> QED BY <1>1, <3>1 DEF NothingLost
  <2> QED BY <1>5, <2>1, <2>2 DEF EmitResultUsb
<1> QED
  BY <1>2, <1>3, <1>4, <1>5, Events
  DEF Next, vars, ExecuteUsb, ExecuteOffline, ExecuteRs422, ReceiveReply,
      ReceiveMalformedReply, QueryTimeout, EmitResultRs422, DcReceives,
      Confirmed, GiveUp, ConnectionErrored, StopReading, DcRestarts,
      ResetConnection, Reconnect

\* The body of TimedOrQueued.
Timed == \A q \in map \ GuiIo : q \in timer \/ \E k \in 1..Len(tx) : tx[k] = q

LEMMA TimedAnswered ==
    ASSUME Inv, Timed, NEW qs, Answered(qs) , tx' = tx
    PROVE  Timed'
BY DEF Answered, Timed

LEMMA TimedStep ==
    ASSUME NothingLost, NothingLost', Inv, BacklogInv, Timed, [Next]_vars
    PROVE  Timed'
<1>1. /\ counted["failures"] = 0 /\ tx \in Seq(Query \cup {Result})
      /\ ~Count("failures")
  BY NothingLostBefore DEF NothingLost, Inv, TypeOK
<1>2. usb => tx = <<>>
  BY <1>1, EmptySeq DEF BacklogInv, BacklogOnlyFromFailures
<1>3. ASSUME NEW q \in Query, ExecuteUsb(q) PROVE Timed'
  <2>1. Registered(q) /\ Sent(Append(tx, q), map \cup {q})
    BY <1>1, <1>3 DEF ExecuteUsb
  <2>2. Head(Append(tx, q)) = q /\ \A k \in 1..Len(tx) : FALSE
    BY <1>2, <1>3 DEF ExecuteUsb
  <2>3. timer' = timer \cup ({q} \ GuiIo) /\ map' = map \cup {q}
    BY <2>1, <2>2 DEF Sent, Registered, WithTimeout
  <2> QED BY <2>2, <2>3 DEF Timed
<1>4. ASSUME EmitResultUsb PROVE Timed'
  <2>1. timer \subseteq timer' /\ map' = map
    BY <1>4 DEF EmitResultUsb, Sent, WriteFails
  <2>2. \A k \in 1..Len(tx) : FALSE
    BY <1>2, <1>4 DEF EmitResultUsb
  <2> QED BY <2>1, <2>2 DEF Timed
<1>5. ASSUME NEW q \in Query, ExecuteOffline(q) PROVE Timed'
  BY <1>5 DEF ExecuteOffline, Refused, Timed
<1>6. ASSUME NEW q \in Query \cup {Result}, tx' = Append(tx, q),
             map' \subseteq map \cup {q}, timer' = timer
      PROVE  Timed'
  <2>1. /\ Len(tx') = Len(tx) + 1 /\ Len(tx) \in Nat
        /\ tx'[Len(tx) + 1] = q
        /\ \A k \in 1..Len(tx) : tx'[k] = tx[k] /\ k \in 1..Len(tx')
    BY <1>1, <1>6
  <2> QED BY <1>6, <2>1 DEF Timed
<1>7. ASSUME Confirmed PROVE Timed'
  <2>1. /\ tx # <<>> /\ tx' = Tail(tx) /\ map' = map
        /\ timer' = timer \cup (({Head(tx)} \cap map) \ GuiIo)
    BY <1>7 DEF Confirmed, WithTimeout
  <2>2. ASSUME NEW k \in 1..Len(tx), k # 1
        PROVE  k - 1 \in 1..Len(Tail(tx)) /\ Tail(tx)[k - 1] = tx[k]
    BY <1>1, <2>1, <2>2
  <2>3. Head(tx) = tx[1]
    BY <1>1, <2>1
  <2>4. ASSUME NEW q \in map \ GuiIo, q \notin timer'
        PROVE  \E k \in 1..Len(tx') : tx'[k] = q
    <3>1. PICK k \in 1..Len(tx) : tx[k] = q
      BY <2>1, <2>4 DEF Timed
    <3>2. k # 1
      BY <2>1, <2>3, <2>4, <3>1
    <3> QED BY <2>1, <2>2, <3>1, <3>2
  <2> QED BY <2>1, <2>4 DEF Timed
<1>8. ASSUME NEW q \in Query, ReceiveReply(q) \/ QueryTimeout(q) PROVE Timed'
  <2>1. CASE Answered({q}) /\ tx' = tx
    BY <2>1, TimedAnswered
  <2>2. CASE q \notin map
    BY <1>8, <2>2 DEF ReceiveReply, QueryTimeout, client, Inv, NoStrayCallbacks,
       Timed
  <2> QED BY <1>8, <2>1, <2>2 DEF ReceiveReply, QueryTimeout
<1>9. ASSUME NEW q \in Query, ReceiveMalformedReply(q) PROVE Timed'
  BY <1>9 DEF ReceiveMalformedReply, Timed
<1>10. ASSUME ConnectionErrored PROVE Timed'
  BY <1>10, TimedAnswered DEF ConnectionErrored
<1>11. ASSUME ResetConnection PROVE Timed'
  BY <1>2, <1>11 DEF ResetConnection, client, Timed
<1>12. CASE DcReceives \/ StopReading \/ DcRestarts \/ Reconnect \/ UNCHANGED vars
  BY <1>12 DEF DcReceives, StopReading, DcRestarts, Reconnect, vars, client,
     Timed
<1>13. ASSUME NEW q \in Query, ExecuteRs422(q) PROVE Timed'
  BY <1>6, <1>13 DEF ExecuteRs422, Registered
<1>14. ASSUME EmitResultRs422 PROVE Timed'
  BY <1>6, <1>14 DEF EmitResultRs422, client
<1>15. ~GiveUp
  BY NothingLostBefore DEF Inv
<1> QED BY <1>3, <1>4, <1>5, <1>7, <1>8, <1>9, <1>10, <1>11, <1>12, <1>13, <1>14,
           <1>15 DEF Next

\* As long as no message is lost on sending, every query that is not guiIO has
\* its timeout running or will have it when it has been sent.
THEOREM TimeoutNeverMissing == Spec => []TimedOrQueued
<1>1. Init => BacklogInv /\ TimedOrQueued
  <2>1. ASSUME Init PROVE /\ Len(tx) = 0 /\ counted["failures"] = 0
                          /\ MaxFailures \in Nat /\ map = {}
    BY <2>1, Events, QueriesAssumption DEF Init
  <2> QED BY <2>1 DEF BacklogInv, BacklogOnlyFromFailures, TimedOrQueued
<1>2. ASSUME Inv, BacklogInv, TimedOrQueued, [Next]_vars
      PROVE  (BacklogInv /\ TimedOrQueued)'
  <2>1. BacklogInv'
    BY <1>2, BacklogStep
  <2>2. ASSUME NothingLost' PROVE Timed'
    <3>1. NothingLost
      BY <1>2, <2>2, NothingLostBefore DEF Inv
    <3>2. Timed
      BY <1>2, <3>1 DEF TimedOrQueued, NothingLost, Timed
    <3> QED BY <1>2, <2>2, <3>1, <3>2, TimedStep
  <2>3. TimedOrQueued'
    BY <2>2 DEF TimedOrQueued, NothingLost, Timed
  <2> QED BY <2>1, <2>3
<1> QED BY <1>1, <1>2, Invariance, PTL DEF Spec
=============================================================================
