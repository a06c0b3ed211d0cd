----------------------------- MODULE SerialLink -----------------------------
(***************************************************************************)
(* The frame protocol of the RS422 link (SerialInterfaceHandler with its   *)
(* CSerialMessages), run by both ends as the test program runs it.  A      *)
(* message is split into frames; each payload frame has a message id       *)
(* ("mid") and must be confirmed before the next one is sent.              *)
(*                                                                         *)
(* An end is a record; the operators on records below are the methods of   *)
(* the class.  What a method writes to the device is appended to `out',    *)
(* and the step that calls it moves `out' to the line.  The states GotAck, *)
(* GotNak, GotPayload and WrongCrc are set and consumed within one call    *)
(* of digestFrame, so they are not states of the model.                    *)
(*                                                                         *)
(* In a frame `good' says that its CRC matches and `stop' that its stop     *)
(* byte is on the line.  The indices in a confirmation and the text of a   *)
(* NAK are never read and are left out.                                    *)
(***************************************************************************)
EXTENDS Integers, Sequences, FiniteSets

CONSTANTS
    End,        \* the two ends of the line
    Msg,        \* the messages to be sent
    From,       \* Msg -> End
    Frames,     \* Msg -> the number of frames it is split into
    Modulus,    \* mids are counted modulo this (1000 in the code)
    TimeoutMax, \* _timeout_max
    ErrorMax,   \* _error_max
    Garbage,    \* the pairs the uninitialized error and timeout counters may
                \* contain
    MaxDisturbances, \* bound: how often the line misbehaves or a timer runs
                     \* out although nothing is lost
    NfBurst,    \* bytes of a frame that follow a lost start byte
    None

ASSUME LinkAssumption ==
    /\ IsFiniteSet(End) /\ Cardinality(End) = 2
    /\ From \in [Msg -> End]
    /\ Frames \in [Msg -> Nat \ {0}]
    /\ Modulus \in Nat \ {0}
    /\ TimeoutMax \in Nat \ {0}
    /\ ErrorMax \in Nat
    /\ Garbage \subseteq Int \X Int
    /\ MaxDisturbances \in Nat
    /\ NfBurst \in Nat
    /\ None \notin Msg

Peer(e) == CHOOSE p \in End : p # e

VARIABLES
    ep,        \* the two handlers
    line,      \* the frames on their way to each end
    rx,        \* the frame each end is receiving, or None
    fto,       \* FTO_timerConnection is connected
    listening, \* the IO watch of each end is installed
    submitted, \* history: the messages each end was asked to send
    delivered, \* history: the messages of each end its peer has emitted
    faults,    \* how often the line has misbehaved
    early      \* how often a timer has run out with nothing lost

vars == <<ep, line, rx, fto, listening, submitted, delivered, faults, early>>

(***************************************************************************)
(* Frames.                                                                 *)
(***************************************************************************)
PayloadFrame(m, i, mid) ==
    [type |-> "payload", mid |-> mid, msg |-> m, i |-> i,
     good |-> TRUE, stop |-> TRUE]

Confirmation(ack, mid) ==
    [type |-> "confirmation", mid |-> mid, ack |-> ack,
     good |-> TRUE, stop |-> TRUE]

\* The mid of a NAK is not compared.
Nak == Confirmation(FALSE, 0)

\* sendPayloadFrameFromMessage, midHandler and sendFrame.
SendPayloadFrame(p) ==
    LET k == p.popped + 1
        mid == (p.mid + 1) % Modulus
        f == PayloadFrame(p.msg, k, mid)
    IN  [p EXCEPT !.popped = k, !.mid = mid, !.needAck = mid, !.sent = f,
                  !.sender = "WaitForAck", !.timer = TRUE, !.out = Append(@, f)]

\* The case of sendLoop for an idle sender.
StartMessage(p) ==
    IF p.queue = <<>> THEN p
    ELSE SendPayloadFrame([p EXCEPT !.msg = Head(p.queue), !.popped = 0,
                                    !.queue = Tail(p.queue)])

ResendPayloadFrame(p) ==
    [p EXCEPT !.out = Append(@, p.sent), !.sender = "WaitForAck",
              !.needAck = p.sent.mid, !.timer = TRUE]

\* Mutants of GiveUp: the sender keeps waiting for its confirmation; the
\* message goes to the end of the queue to be tried again later.
GiveUpStillWaiting(p) ==
    [p EXCEPT !.timer = FALSE, !.dropped = @ \cup {p.msg}]

GiveUpRequeue(p) ==
    [p EXCEPT !.sender = "Idle", !.timer = FALSE, !.queue = Append(@, p.msg)]

\* senderMessage->discard(): nobody is told.
GiveUp(p) ==
    [p EXCEPT !.sender = "Idle", !.timer = FALSE, !.dropped = @ \cup {p.msg}]

ErrorInConfirmation(p) ==
    IF p.errors < ErrorMax
      THEN ResendPayloadFrame([p EXCEPT !.errors = @ + 1])
      ELSE [GiveUp(p) EXCEPT !.errors = 0]

\* Mutants of GotAck: the mid is not compared; the frames left are miscounted.
GotAckAnyMid(p, mid) ==
    LET q == [p EXCEPT !.timer = FALSE, !.errors = 0, !.timeouts = 0,
                       !.sender = "Idle"]
    IN  IF p.popped < Frames[p.msg]
          THEN SendPayloadFrame(q)
          ELSE StartMessage([q EXCEPT !.completed = @ \cup {p.msg}])

GotAckOneFrameShort(p, mid) ==
    IF mid # p.needAck
      THEN ErrorInConfirmation([p EXCEPT !.timer = FALSE])
      ELSE LET q == [p EXCEPT !.timer = FALSE, !.errors = 0, !.timeouts = 0,
                              !.sender = "Idle"]
           IN  IF p.popped + 1 < Frames[p.msg]
                 THEN SendPayloadFrame(q)
                 ELSE StartMessage([q EXCEPT !.completed = @ \cup {p.msg}])

\* The GotAck case of sendLoop, with the frame's mid.
GotAck(p, mid) ==
    IF mid # p.needAck
      THEN ErrorInConfirmation([p EXCEPT !.timer = FALSE])
      ELSE LET q == [p EXCEPT !.timer = FALSE, !.errors = 0, !.timeouts = 0,
                              !.sender = "Idle"]
           IN  IF p.popped < Frames[p.msg]
                 THEN SendPayloadFrame(q)
                 ELSE StartMessage([q EXCEPT !.completed = @ \cup {p.msg}])

GotNak(p) == ErrorInConfirmation([p EXCEPT !.timer = FALSE])

\* sendLoop when nothing was confirmed.
SendLoop(p) == IF p.sender = "Idle" THEN StartMessage(p) ELSE p

SendConfirmFrame(p, c) == [p EXCEPT !.out = Append(@, c)]

(***************************************************************************)
(* The receiver.  `expected' and `pieces' are the receiverMessage.         *)
(***************************************************************************)
PushFrame(p, f) ==
    IF f.i = 1
      THEN [p EXCEPT !.expected = Frames[f.msg], !.pieces = <<<<f.msg, 1>>>>]
      ELSE [p EXCEPT !.pieces = Append(@, <<f.msg, f.i>>)]

DiscardMessage(p) == [p EXCEPT !.expected = 0, !.pieces = <<>>]

MessageFinished(p) == Len(p.pieces) >= p.expected

\* A payload frame with the right CRC: push it, run the sender, confirm.
DigestPayload(p, f) ==
    SendConfirmFrame(SendLoop(PushFrame(p, f)), Confirmation(TRUE, f.mid))

\* A payload frame with a wrong CRC: the whole message so far is discarded.
DigestWrongCrc(p) == DiscardMessage(SendConfirmFrame(SendLoop(p), Nak))

DigestConfirmation(p, f) ==
    IF p.sender # "WaitForAck"
      THEN SendLoop([p EXCEPT !.sender = "Idle"])
      ELSE IF f.ack THEN GotAck(p, f.mid) ELSE GotNak(p)

\* emitMessage parses the payload; anything but the frames of one message in
\* their order is not a well-formed document and is ignored.
Emitted(p) ==
    {m \in Msg : p.pieces = [k \in 1..Frames[m] |-> <<m, k>>]}

(***************************************************************************)
(* Steps.                                                                  *)
(***************************************************************************)
NewEndpoint(errors, timeouts) ==
    [queue |-> <<>>, sender |-> "Idle", msg |-> None, popped |-> 0, mid |-> 0,
     needAck |-> -1, sent |-> None, errors |-> errors, timeouts |-> timeouts,
     timer |-> FALSE, expected |-> 0, pieces |-> <<>>, out |-> <<>>,
     completed |-> {}, dropped |-> {}]

\* The constructor sets neither _error_counter nor _timeout_counter.
Init ==
    /\ \E g \in [End -> Garbage] :
          ep = [e \in End |-> NewEndpoint(g[e][1], g[e][2])]
    /\ line = [e \in End |-> <<>>]
    /\ rx = [e \in End |-> None]
    /\ fto = [e \in End |-> FALSE]
    /\ listening = [e \in End |-> TRUE]
    /\ submitted = [e \in End |-> <<>>]
    /\ delivered = [e \in End |-> <<>>]
    /\ faults = 0
    /\ early = 0

\* End e becomes p and what p has written goes onto the line to the peer.
Become(e, p, in) ==
    /\ ep' = [ep EXCEPT ![e] = [p EXCEPT !.out = <<>>]]
    /\ line' = [in EXCEPT ![Peer(e)] = @ \o p.out]

\* sendMessage and emit_result.
SendMessage(m) ==
    LET e == From[m] IN
    /\ \A k \in 1..Len(submitted[e]) : submitted[e][k] # m
    /\ submitted' = [submitted EXCEPT ![e] = Append(@, m)]
    /\ Become(e, SendLoop([ep[e] EXCEPT !.queue = Append(@, m)]), line)
    /\ UNCHANGED <<rx, fto, listening, delivered, faults, early>>

\* A start byte arrives: the frame is being read and the FTO timer runs.
StartFrame(e) ==
    /\ listening[e]
    /\ rx[e] = None
    /\ line[e] # <<>>
    /\ rx' = [rx EXCEPT ![e] = Head(line[e])]
    /\ line' = [line EXCEPT ![e] = Tail(@)]
    /\ fto' = [fto EXCEPT ![e] = TRUE]
    /\ UNCHANGED <<ep, listening, submitted, delivered, faults, early>>

\* digestFrame of f by end e, the frames in `in' being on the line.
Digest(e, f, in) ==
    /\ rx' = [rx EXCEPT ![e] = None]
    /\ fto' = [fto EXCEPT ![e] = FALSE]
    /\ \/ /\ f.good /\ f.type = "payload"
          /\ LET p == DigestPayload(ep[e], f) IN
             /\ Become(e, p, in)
             /\ delivered' =
                  IF MessageFinished(p) /\ Emitted(p) # {}
                    THEN [delivered EXCEPT ![Peer(e)] =
                            Append(@, CHOOSE m \in Emitted(p) : TRUE)]
                    ELSE delivered
       \/ /\ f.good /\ f.type = "confirmation"
          /\ Become(e, DigestConfirmation(ep[e], f), in)
          /\ UNCHANGED delivered
       \* The type is a damaged byte too: a frame with a wrong CRC may be
       \* taken for either, and a confirmation is then ignored.
       \/ /\ ~f.good
          /\ Become(e, DigestWrongCrc(ep[e]), in) \/ Become(e, ep[e], in)
          /\ UNCHANGED delivered
    /\ UNCHANGED <<listening, submitted, faults, early>>

\* The stop byte arrives.
StopFrame(e) ==
    /\ listening[e]
    /\ rx[e] # None
    /\ rx[e].stop
    /\ Digest(e, rx[e], line)

\* The stop byte was lost: the next frame is read as a part of this one.
StopMergedFrame(e) ==
    /\ listening[e]
    /\ rx[e] # None
    /\ ~rx[e].stop
    /\ line[e] # <<>>
    /\ Digest(e, rx[e], [line EXCEPT ![e] = Tail(@)])

\* Nothing is on the line or being read that could still end the wait.
Quiet ==
    \A e \in End :
       /\ line[e] = <<>> \/ ~listening[e]
       /\ rx[e] = None \/ ~rx[e].stop

\* A timer that runs out too early.
CountEarly(tooEarly) ==
    /\ tooEarly => faults + early < MaxDisturbances
    /\ early' = IF tooEarly THEN early + 1 ELSE early

ConfirmationTimeout(e) ==
    /\ ep[e].timer
    /\ CountEarly(~Quiet)
    /\ LET n == ep[e].timeouts + 1 IN
       Become(e, IF n < TimeoutMax
                   THEN ResendPayloadFrame([ep[e] EXCEPT !.timeouts = n])
                   ELSE GiveUp([ep[e] EXCEPT !.timeouts = 0]),
              line)
    /\ UNCHANGED <<rx, fto, listening, submitted, delivered, faults>>

\* The frame is not complete in time: a NAK, but the frame is still read.
FtoTimeout(e) ==
    /\ fto[e]
    /\ CountEarly(rx[e] # None /\ rx[e].stop)
    /\ fto' = [fto EXCEPT ![e] = FALSE]
    /\ Become(e, SendConfirmFrame(ep[e], Nak), line)
    /\ UNCHANGED <<rx, listening, submitted, delivered, faults>>

(***************************************************************************)
(* The line misbehaves.                                                    *)
(***************************************************************************)
Fault == faults + early < MaxDisturbances /\ faults' = faults + 1

\* A byte of the frame being read is damaged.
CorruptFrame(e) ==
    /\ Fault
    /\ rx[e] # None
    /\ rx[e].good
    /\ rx' = [rx EXCEPT ![e].good = FALSE]
    /\ UNCHANGED <<ep, line, fto, listening, submitted, delivered, early>>

\* The stop byte of the frame being read is lost.
LoseStop(e) ==
    /\ Fault
    /\ rx[e] # None
    /\ rx[e].stop
    /\ rx' = [rx EXCEPT ![e].good = FALSE, ![e].stop = FALSE]
    /\ UNCHANGED <<ep, line, fto, listening, submitted, delivered, early>>

\* The start byte is lost: every other byte of the frame is answered by a NAK.
LoseStart(e) ==
    /\ Fault
    /\ listening[e]
    /\ rx[e] = None
    /\ line[e] # <<>>
    /\ Become(e, [ep[e] EXCEPT !.out = [k \in 1..NfBurst |-> Nak]],
              [line EXCEPT ![e] = Tail(@)])
    /\ UNCHANGED <<rx, fto, listening, submitted, delivered, early>>

\* All of a frame is lost.
LoseFrame(e) ==
    /\ Fault
    /\ rx[e] = None
    /\ line[e] # <<>>
    /\ line' = [line EXCEPT ![e] = Tail(@)]
    /\ UNCHANGED <<ep, rx, fto, listening, submitted, delivered, early>>

\* OnIOCallback returns false for an error condition: the watch is removed
\* for good.  What the peer sends from then on is never read.
StopListening(e) ==
    /\ Fault
    /\ listening[e]
    /\ listening' = [listening EXCEPT ![e] = FALSE]
    /\ rx' = [rx EXCEPT ![e] = None]
    /\ UNCHANGED <<ep, line, fto, submitted, delivered, early>>

Next ==
    \/ \E m \in Msg : SendMessage(m)
    \/ \E e \in End :
          \/ StartFrame(e) \/ StopFrame(e) \/ StopMergedFrame(e)
          \/ ConfirmationTimeout(e) \/ FtoTimeout(e)
          \/ CorruptFrame(e) \/ LoseStop(e) \/ LoseStart(e) \/ LoseFrame(e)
          \/ StopListening(e)

Spec == Init /\ [][Next]_vars

\* Bytes on the line are read and timers run out; the line may behave.
Fairness ==
    \A e \in End :
       /\ WF_vars(StartFrame(e))
       /\ WF_vars(StopFrame(e) \/ StopMergedFrame(e))
       /\ WF_vars(ConfirmationTimeout(e))

FairSpec == Spec /\ Fairness

(***************************************************************************)
(* Properties.                                                             *)
(***************************************************************************)
Frame ==
    [type : {"payload"}, mid : 0..Modulus-1, msg : Msg, i : Nat,
     good : BOOLEAN, stop : BOOLEAN]
    \cup
    [type : {"confirmation"}, mid : 0..Modulus-1, ack : BOOLEAN,
     good : BOOLEAN, stop : BOOLEAN]

ASSUME NoneAssumption == None \notin Frame

Endpoint ==
    [queue : Seq(Msg), sender : {"Idle", "WaitForAck"}, msg : Msg \cup {None},
     popped : Nat, mid : 0..Modulus-1, needAck : -1..Modulus-1,
     sent : Frame \cup {None}, errors : Int, timeouts : Int, timer : BOOLEAN,
     expected : Nat, pieces : Seq(Msg \X Nat), out : Seq(Frame),
     completed : SUBSET Msg, dropped : SUBSET Msg]

TypeOK ==
    /\ ep \in [End -> Endpoint]
    /\ line \in [End -> Seq(Frame)]
    /\ rx \in [End -> Frame \cup {None}]
    /\ fto \in [End -> BOOLEAN]
    /\ listening \in [End -> BOOLEAN]
    /\ submitted \in [End -> Seq(Msg)]
    /\ delivered \in [End -> Seq(Msg)]
    /\ faults \in 0..MaxDisturbances
    /\ early \in 0..MaxDisturbances

\* A sender that waits for a confirmation has its timer running, whatever
\* mixture of NAKs, wrong mids and timeouts brought it there, and an idle one
\* has none that could resend a frame nobody waits for.
WaitsWithTimer == \A e \in End : (ep[e].sender = "WaitForAck") <=> ep[e].timer

IsDelivered(m) ==
    \E k \in 1..Len(delivered[From[m]]) : delivered[From[m]][k] = m

\* "Received frames get merged to messages again.  Each frame of a message has
\* to be acknowledged" (serial_interface_handler.cc:7-9): a message whose last
\* frame was confirmed, for which request_sent is emitted, has reached the
\* peer's emitMessage.
CompletedWasDelivered ==
    \A m \in Msg : m \in ep[From[m]].completed => IsDelivered(m)

\* The same, for messages of one frame whatever the line does to them, and for
\* those of two as long as it loses and damages nothing, however late
\* confirmations are.  Of three frames one that is sent twice is a piece too many.
ShortCompletedWasDelivered ==
    \A m \in Msg :
        m \in ep[From[m]].completed /\ (Frames[m] = 1 \/ (Frames[m] = 2 /\ faults = 0))
            => IsDelivered(m)

\* A sender does not wait for the confirmation of one message for ever: the two
\* ends never wait for each other, resending ends, and no NAK starts it again.
EveryMessageSettles ==
    \A m \in Msg :
        (ep[From[m]].sender = "WaitForAck" /\ ep[From[m]].msg = m)
           ~> ~(ep[From[m]].sender = "WaitForAck" /\ ep[From[m]].msg = m)

\* The link is a message channel: on a line that neither fails nor is late it
\* delivers everything once and in order; otherwise it may skip or repeat
\* messages but never goes back to one that was submitted before.
Channel == INSTANCE MessageChannel WITH disturbed <- faults + early > 0
IsMessageChannel == Channel!Spec
=============================================================================
