---------------------------- MODULE QueryService ----------------------------
(***************************************************************************)
(* What the query client promises to those who create queries: every query *)
(* they execute is answered once at most, and none before it is executed.  *)
(***************************************************************************)
EXTENDS Naturals

CONSTANTS
    Query \* the queries the daemon sends to the device controller

VARIABLES
    asked,  \* the queries that were executed
    answers \* how often each query has emitted finished

vars == <<asked, answers>>

Unanswered == {q \in asked : answers[q] = 0}

Init ==
    /\ asked = {}
    /\ answers = [q \in Query |-> 0]

Ask(q) ==
    /\ q \notin asked
    /\ asked' = asked \cup {q}
    /\ UNCHANGED answers

\* A query that cannot be sent is answered before execute returns.
Refuse(q) ==
    /\ q \notin asked
    /\ asked' = asked \cup {q}
    /\ answers' = [answers EXCEPT ![q] = 1]

\* One event may answer several queries.
Answer(qs) ==
    /\ qs # {}
    /\ answers' = [q \in Query |-> IF q \in qs THEN 1 ELSE answers[q]]
    /\ UNCHANGED asked

Next ==
    \/ \E q \in Query : Ask(q) \/ Refuse(q)
    \/ \E qs \in SUBSET Unanswered : Answer(qs)

Spec == Init /\ [][Next]_vars
=============================================================================
