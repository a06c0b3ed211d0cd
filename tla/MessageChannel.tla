--------------------------- MODULE MessageChannel ---------------------------
(***************************************************************************)
(* What the serial interface promises to its users: two directions, each   *)
(* of which delivers the submitted messages complete, once and in order.   *)
(* After a disturbance of the line it may skip or repeat messages, but it  *)
(* never goes back.                                                        *)
(***************************************************************************)
EXTENDS Sequences, Naturals

CONSTANTS
    End,  \* the two ends
    Msg,  \* the messages
    From  \* Msg -> the end that submits it

VARIABLES
    submitted, \* the messages each end has submitted, in order
    delivered, \* the messages of each end that its peer was given, in order
    disturbed  \* the line has damaged, lost or delayed something

vars == <<submitted, delivered, disturbed>>

Init ==
    /\ submitted = [e \in End |-> <<>>]
    /\ delivered = [e \in End |-> <<>>]
    /\ disturbed = FALSE

Submit(m) ==
    /\ \A k \in 1..Len(submitted[From[m]]) : submitted[From[m]][k] # m
    /\ submitted' = [submitted EXCEPT ![From[m]] = Append(@, m)]
    /\ UNCHANGED <<delivered, disturbed>>

Disturb ==
    /\ disturbed' = TRUE
    /\ UNCHANGED <<submitted, delivered>>

Give(e, k) ==
    /\ delivered' = [delivered EXCEPT ![e] = Append(@, submitted[e][k])]
    /\ UNCHANGED <<submitted, disturbed>>

\* The next message.
Deliver(e) ==
    /\ ~disturbed
    /\ Len(delivered[e]) < Len(submitted[e])
    /\ Give(e, Len(delivered[e]) + 1)

\* The last message again, or a later one.
DeliverDisturbed(e) ==
    /\ disturbed
    /\ \E k \in 1..Len(submitted[e]) :
          /\ delivered[e] # <<>> =>
                \E j \in 1..k : submitted[e][j] = delivered[e][Len(delivered[e])]
          /\ Give(e, k)

Next ==
    \/ \E m \in Msg : Submit(m)
    \/ Disturb
    \/ \E e \in End : Deliver(e) \/ DeliverDisturbed(e)

Spec == Init /\ [][Next]_vars /\ \A e \in End : WF_vars(Deliver(e))
=============================================================================
