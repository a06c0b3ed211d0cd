-------------------------- MODULE SerialLinkProofs --------------------------
(* What SerialLink says of the two ends, for any messages, frames, mids,    *)
(* limits and contents of the uninitialized counters.                       *)
EXTENDS SerialLink, SequenceTheorems, FiniteSetTheorems, TLAPS

(***************************************************************************)
(* The inductive invariant.  An end that waits has a message and the frame *)
(* that it sends again when its timer runs out.                            *)
(***************************************************************************)
CanResend(p) == p \in Endpoint /\ p.msg \in Msg /\ p.sent \in Frame

Ready(p) ==
    /\ p \in Endpoint
    /\ p.sender = "WaitForAck" <=> p.timer
    /\ p.sender = "WaitForAck" => CanResend(p)

LinkInv == TypeOK /\ \A e \in End : Ready(ep[e])

-----------------------------------------------------------------------------
(* Frames and ends.                                                         *)

LEMMA PeerIsAnEnd == \A e \in End : Peer(e) \in End
<1> SUFFICES ASSUME NEW e \in End PROVE \E p \in End : p # e
  BY DEF Peer
<1>1. ASSUME \A p \in End : p = e PROVE FALSE
  <2>1. End = {e}
    BY <1>1
  <2>2. Cardinality({e}) = 1
    BY FS_Singleton
  <2> QED BY <2>1, <2>2, LinkAssumption
<1> QED BY <1>1

LEMMA FramesMade ==
    /\ \A m \in Msg, i \in Nat, mid \in 0..Modulus-1 : PayloadFrame(m, i, mid) \in Frame
    /\ \A ack \in BOOLEAN, mid \in 0..Modulus-1 : Confirmation(ack, mid) \in Frame
    /\ Nak \in Frame
BY LinkAssumption DEF PayloadFrame, Confirmation, Nak, Frame

LEMMA FrameFields ==
    ASSUME NEW f \in Frame
    PROVE  /\ f.mid \in 0..Modulus-1 /\ f.good \in BOOLEAN /\ f.stop \in BOOLEAN
           /\ f.type = "payload" => f.msg \in Msg /\ f.i \in Nat
           /\ f.type = "confirmation" => f.ack \in BOOLEAN
           /\ [f EXCEPT !.good = FALSE] \in Frame
           /\ [f EXCEPT !.good = FALSE, !.stop = FALSE] \in Frame
BY DEF Frame

-----------------------------------------------------------------------------
(* The sender.                                                              *)

LEMMA SendPayloadFrameReady ==
    ASSUME NEW p \in Endpoint, p.msg \in Msg
    PROVE  Ready(SendPayloadFrame(p))
<1> DEFINE k == p.popped + 1
           mid == (p.mid + 1) % Modulus
           f == PayloadFrame(p.msg, k, mid)
           q == [p EXCEPT !.popped = k, !.mid = mid, !.needAck = mid, !.sent = f,
                          !.sender = "WaitForAck", !.timer = TRUE, !.out = Append(@, f)]
<1>1. k \in Nat /\ mid \in 0..Modulus-1 /\ mid \in -1..Modulus-1
  <2>1. Modulus \in Nat \ {0} /\ p.popped \in Nat /\ p.mid \in Int
    BY LinkAssumption DEF Endpoint
  <2>2. \A x \in Int, n \in Nat \ {0} : x % n \in 0..n-1
    OBVIOUS
  <2>3. p.mid + 1 \in Int
    BY <2>1
  <2>4. mid \in 0..Modulus-1
    BY <2>1, <2>2, <2>3
  <2> HIDE DEF mid
  <2> QED BY <2>1, <2>4
<1>2. f \in Frame
  BY <1>1, FramesMade
<1>3. p.out \in Seq(Frame) /\ Append(p.out, f) \in Seq(Frame)
  BY <1>2 DEF Endpoint
<1> HIDE DEF k, mid, f
<1>4. q \in Endpoint /\ q.msg = p.msg /\ q.sent = f /\ q.sender = "WaitForAck" /\ q.timer = TRUE
  BY <1>1, <1>2, <1>3 DEF Endpoint
<1>5. SendPayloadFrame(p) = q
  BY DEF SendPayloadFrame, k, mid, f
<1> HIDE DEF q
<1> QED BY <1>2, <1>4, <1>5 DEF Ready, CanResend

LEMMA StartMessageReady ==
    ASSUME NEW p, Ready(p)
    PROVE  Ready(StartMessage(p))
<1>1. CASE p.queue = <<>>
  BY <1>1 DEF StartMessage
<1>2. CASE p.queue # <<>>
  <2> DEFINE q == [p EXCEPT !.msg = Head(p.queue), !.popped = 0, !.queue = Tail(p.queue)]
  <2>1. p \in Endpoint /\ p.queue \in Seq(Msg)
    BY DEF Ready, Endpoint
  <2>2. Head(p.queue) \in Msg /\ Tail(p.queue) \in Seq(Msg)
    BY <1>2, <2>1, HeadTailProperties
  <2>3. q \in Endpoint /\ q.msg \in Msg
    BY <2>1, <2>2 DEF Endpoint
  <2>4. StartMessage(p) = SendPayloadFrame(q)
    BY <1>2 DEF StartMessage
  <2> HIDE DEF q
  <2> QED BY <2>3, <2>4, SendPayloadFrameReady
<1> QED BY <1>1, <1>2

LEMMA ResendReady ==
    ASSUME NEW p, CanResend(p)
    PROVE  Ready(ResendPayloadFrame(p))
<1> DEFINE mid == p.sent.mid
           c == Append(p.out, p.sent)
           q == [p EXCEPT !.out = c, !.sender = "WaitForAck", !.needAck = mid, !.timer = TRUE]
<1>1. p \in Endpoint /\ p.msg \in Msg /\ p.sent \in Frame /\ mid \in -1..Modulus-1
  <2>1. p \in Endpoint /\ p.msg \in Msg /\ p.sent \in Frame
    BY DEF CanResend
  <2>2. mid \in 0..Modulus-1
    BY <2>1, FrameFields
  <2> HIDE DEF mid
  <2> QED BY <2>1, <2>2, LinkAssumption
<1>2. c \in Seq(Frame)
  BY <1>1 DEF Endpoint
<1> HIDE DEF mid, c
<1>3. q \in Endpoint /\ q.msg = p.msg /\ q.sent = p.sent /\ q.sender = "WaitForAck" /\ q.timer = TRUE
  BY <1>1, <1>2 DEF Endpoint
<1>4. ResendPayloadFrame(p) = q
  BY DEF ResendPayloadFrame, mid, c
<1> HIDE DEF q
<1> QED BY <1>1, <1>3, <1>4 DEF Ready, CanResend

\* The counters may be anything.
LEMMA CountersSet ==
    ASSUME NEW p \in Endpoint, NEW errors \in Int, NEW timeouts \in Int
    PROVE  /\ LET q == [p EXCEPT !.errors = errors]
              IN q \in Endpoint /\ q.msg = p.msg /\ q.sent = p.sent /\ q.sender = p.sender /\ q.timer = p.timer
           /\ LET q == [p EXCEPT !.timeouts = timeouts]
              IN q \in Endpoint /\ q.msg = p.msg /\ q.sent = p.sent /\ q.sender = p.sender /\ q.timer = p.timer
BY DEF Endpoint

LEMMA GiveUpReady ==
    ASSUME NEW p, CanResend(p)
    PROVE  Ready(GiveUp(p)) /\ Ready([GiveUp(p) EXCEPT !.errors = 0])
<1>1. p \in Endpoint /\ p.dropped \cup {p.msg} \in SUBSET Msg
  BY DEF CanResend, Endpoint
<1>2. GiveUp(p) \in Endpoint /\ GiveUp(p).sender = "Idle" /\ GiveUp(p).timer = FALSE
  BY <1>1 DEF GiveUp, Endpoint
<1>3. LET q == [GiveUp(p) EXCEPT !.errors = 0]
      IN q \in Endpoint /\ q.sender = "Idle" /\ q.timer = FALSE
  <2>1. 0 \in Int
    OBVIOUS
  <2> QED BY <1>2, <2>1, CountersSet
<1> QED BY <1>2, <1>3 DEF Ready

LEMMA ErrorReady ==
    ASSUME NEW p, CanResend(p)
    PROVE  Ready(ErrorInConfirmation(p))
<1> DEFINE q == [p EXCEPT !.errors = @ + 1]
<1>1. CanResend(q)
  <2>1. p.errors + 1 \in Int
    BY DEF CanResend, Endpoint
  <2> QED BY <2>1, CountersSet DEF CanResend
<1> HIDE DEF q
<1>2. Ready(ResendPayloadFrame(q))
  BY <1>1, ResendReady
<1> QED BY <1>2, GiveUpReady DEF ErrorInConfirmation, q

LEMMA GotAckReady ==
    ASSUME NEW p, CanResend(p), NEW mid
    PROVE  Ready(GotAck(p, mid))
<1> DEFINE r == [p EXCEPT !.timer = FALSE]
           q == [p EXCEPT !.timer = FALSE, !.errors = 0, !.timeouts = 0, !.sender = "Idle"]
           s == [q EXCEPT !.completed = @ \cup {p.msg}]
<1>1. p \in Endpoint /\ p.completed \cup {p.msg} \in SUBSET Msg
  BY DEF CanResend, Endpoint
<1>2. CanResend(r)
  BY DEF CanResend, Endpoint
<1>3. q \in Endpoint /\ q.msg \in Msg /\ q.sender = "Idle" /\ q.timer = FALSE /\ q.completed = p.completed
  <2>1. 0 \in Int /\ p.msg \in Msg
    BY DEF CanResend
  <2>2. \A e \in Int, t \in Int :
          LET u == [p EXCEPT !.timer = FALSE, !.errors = e, !.timeouts = t, !.sender = "Idle"]
          IN u \in Endpoint /\ u.msg = p.msg /\ u.sender = "Idle" /\ u.timer = FALSE /\ u.completed = p.completed
    <3> TAKE e \in Int, t \in Int
    <3> QED BY <1>1 DEF Endpoint
  <2> QED BY <2>1, <2>2
<1>4. s \in Endpoint /\ s.sender = "Idle" /\ s.timer = FALSE
  BY <1>1, <1>3 DEF Endpoint
<1>5. Ready(s)
  BY <1>4 DEF Ready
<1>6. GotAck(p, mid) \in {ErrorInConfirmation(r), SendPayloadFrame(q), StartMessage(s)}
  BY DEF GotAck
<1> HIDE DEF r, q, s
<1> QED BY <1>2, <1>3, <1>5, <1>6, ErrorReady, SendPayloadFrameReady, StartMessageReady

LEMMA GotNakReady ==
    ASSUME NEW p, CanResend(p)
    PROVE  Ready(GotNak(p))
<1> DEFINE r == [p EXCEPT !.timer = FALSE]
<1>1. CanResend(r)
  BY DEF CanResend, Endpoint
<1> HIDE DEF r
<1>2. Ready(ErrorInConfirmation(r))
  BY <1>1, ErrorReady
<1> QED BY <1>2 DEF GotNak, r

LEMMA SendLoopReady ==
    ASSUME NEW p, Ready(p)
    PROVE  Ready(SendLoop(p))
BY StartMessageReady DEF SendLoop

-----------------------------------------------------------------------------
(* The receiver.                                                            *)

\* What does not touch the fields of the sender.
LEMMA OtherFieldsReady ==
    ASSUME NEW p, Ready(p), NEW c \in Seq(Frame), NEW n \in Nat, NEW pieces \in Seq(Msg \X Nat)
    PROVE  /\ Ready([p EXCEPT !.out = c])
           /\ Ready([p EXCEPT !.pieces = pieces])
           /\ Ready([p EXCEPT !.expected = n, !.pieces = pieces])
BY DEF Ready, CanResend, Endpoint

LEMMA ConfirmReady ==
    ASSUME NEW p, Ready(p), NEW c \in Frame
    PROVE  Ready(SendConfirmFrame(p, c))
<1>1. Append(p.out, c) \in Seq(Frame) /\ <<>> \in Seq(Msg \X Nat)
  BY EmptySeq DEF Ready, Endpoint
<1> QED BY <1>1, OtherFieldsReady DEF SendConfirmFrame

LEMMA PushReady ==
    ASSUME NEW p, Ready(p), NEW f \in Frame, f.type = "payload"
    PROVE  Ready(PushFrame(p, f))
<1>1. f.msg \in Msg /\ f.i \in Nat /\ Frames[f.msg] \in Nat
  BY FrameFields, LinkAssumption
<1>2. <<<<f.msg, 1>>>> \in Seq(Msg \X Nat)
  BY <1>1
<1>3. Append(p.pieces, <<f.msg, f.i>>) \in Seq(Msg \X Nat)
  BY <1>1 DEF Ready, Endpoint
<1>4. <<>> \in Seq(Frame)
  BY EmptySeq
<1> QED BY <1>1, <1>2, <1>3, <1>4, OtherFieldsReady DEF PushFrame

LEMMA DigestReady ==
    ASSUME NEW p, Ready(p), NEW f \in Frame
    PROVE  /\ f.type = "payload" => Ready(DigestPayload(p, f))
           /\ f.type = "confirmation" => Ready(DigestConfirmation(p, f))
           /\ Ready(DigestWrongCrc(p))
<1>1. ASSUME f.type = "payload" PROVE Ready(DigestPayload(p, f))
  <2>1. Ready(PushFrame(p, f))
    BY <1>1, PushReady
  <2>2. Ready(SendLoop(PushFrame(p, f)))
    BY <2>1, SendLoopReady
  <2>3. Confirmation(TRUE, f.mid) \in Frame
    BY FramesMade, FrameFields
  <2> QED BY <2>2, <2>3, ConfirmReady DEF DigestPayload
<1>2. ASSUME f.type = "confirmation" PROVE Ready(DigestConfirmation(p, f))
  <2>1. CASE p.sender # "WaitForAck"
    <3>1. p \in Endpoint /\ p.sender = "Idle" /\ ~p.timer
      BY <2>1 DEF Ready, Endpoint
    <3>2. [p EXCEPT !.sender = "Idle"] = p
      BY <3>1 DEF Endpoint
    <3> QED BY <2>1, <3>2, SendLoopReady DEF DigestConfirmation
  <2>2. CASE p.sender = "WaitForAck"
    <3>1. CanResend(p)
      BY <2>2 DEF Ready
    <3> QED BY <2>2, <3>1, GotAckReady, GotNakReady DEF DigestConfirmation
  <2> QED BY <2>1, <2>2
<1>3. Ready(DigestWrongCrc(p))
  <2>1. Ready(SendConfirmFrame(SendLoop(p), Nak))
    BY SendLoopReady, ConfirmReady, FramesMade
  <2>2. 0 \in Nat /\ <<>> \in Seq(Msg \X Nat) /\ <<>> \in Seq(Frame)
    BY EmptySeq
  <2> QED BY <2>1, <2>2, OtherFieldsReady DEF DigestWrongCrc, DiscardMessage
<1> QED BY <1>1, <1>2, <1>3
-----------------------------------------------------------------------------
(* Steps.                                                                   *)

LEMMA NewEndpointReady ==
    ASSUME NEW errors \in Int, NEW timeouts \in Int
    PROVE  Ready(NewEndpoint(errors, timeouts))
<1>1. 0 \in 0..Modulus-1 /\ -1 \in -1..Modulus-1
  BY LinkAssumption
<1>2. <<>> \in Seq(Msg) /\ <<>> \in Seq(Msg \X Nat) /\ <<>> \in Seq(Frame)
  BY EmptySeq
<1>3. NewEndpoint(errors, timeouts) \in Endpoint
  BY <1>1, <1>2 DEF NewEndpoint, Endpoint
<1> QED BY <1>3 DEF NewEndpoint, Ready

LEMMA BecomeReady ==
    ASSUME LinkInv, NEW e \in End, NEW p, Ready(p), NEW in \in [End -> Seq(Frame)], Become(e, p, in)
    PROVE  /\ ep' \in [End -> Endpoint] /\ line' \in [End -> Seq(Frame)]
           /\ \A x \in End : Ready(ep'[x])
<1>1. <<>> \in Seq(Frame) /\ 0 \in Nat /\ <<>> \in Seq(Msg \X Nat)
  BY EmptySeq
<1> DEFINE q == [p EXCEPT !.out = <<>>]
<1>2. Ready(q)
  BY <1>1, OtherFieldsReady
<1>3. ep' = [ep EXCEPT ![e] = q] /\ ep \in [End -> Endpoint] /\ \A x \in End : Ready(ep[x])
  BY DEF Become, LinkInv, TypeOK
<1> HIDE DEF q
<1>4. \A x \in End : ep'[x] = IF x = e THEN q ELSE ep[x]
  BY <1>3
<1>5. ep' \in [End -> Endpoint] /\ \A x \in End : Ready(ep'[x])
  BY <1>2, <1>3, <1>4 DEF Ready
<1>6. p.out \in Seq(Frame) /\ Peer(e) \in End
  BY PeerIsAnEnd DEF Ready, Endpoint
<1>7. in[Peer(e)] \o p.out \in Seq(Frame)
  BY <1>6, ConcatProperties
<1>8. line' \in [End -> Seq(Frame)]
  BY <1>6, <1>7 DEF Become
<1> QED BY <1>5, <1>8

LEMMA TailsAreLines ==
    ASSUME LinkInv, NEW e \in End, line[e] # <<>>
    PROVE  [line EXCEPT ![e] = Tail(@)] \in [End -> Seq(Frame)] /\ Head(line[e]) \in Frame
<1>1. line \in [End -> Seq(Frame)] /\ line[e] \in Seq(Frame)
  BY DEF LinkInv, TypeOK
<1>2. Head(line[e]) \in Frame /\ Tail(line[e]) \in Seq(Frame)
  BY <1>1, HeadTailProperties
<1> QED BY <1>1, <1>2

\* What a step leaves alone, and the rest of LinkInv.
LEMMA Rest ==
    ASSUME LinkInv,
           ep' \in [End -> Endpoint] /\ line' \in [End -> Seq(Frame)],
           \A x \in End : Ready(ep'[x]),
           rx' \in [End -> Frame \cup {None}], fto' \in [End -> BOOLEAN], listening' \in [End -> BOOLEAN],
           submitted' \in [End -> Seq(Msg)], delivered' \in [End -> Seq(Msg)],
           faults' \in 0..MaxDisturbances, early' \in 0..MaxDisturbances
    PROVE  LinkInv'
BY DEF LinkInv, TypeOK

LEMMA LinkInit == Init => LinkInv
<1> SUFFICES ASSUME Init PROVE LinkInv
  OBVIOUS
<1>1. PICK g \in [End -> Garbage] : ep = [e \in End |-> NewEndpoint(g[e][1], g[e][2])]
  BY DEF Init
<1>2. \A e \in End : g[e][1] \in Int /\ g[e][2] \in Int
  BY LinkAssumption
<1>3. \A e \in End : ep[e] = NewEndpoint(g[e][1], g[e][2])
  BY <1>1
<1>4. \A e \in End : Ready(ep[e])
  BY <1>2, <1>3, NewEndpointReady
<1>5. ep \in [End -> Endpoint]
  BY <1>1, <1>3, <1>4 DEF Ready
<1>6. <<>> \in Seq(Frame) /\ <<>> \in Seq(Msg) /\ 0 \in 0..MaxDisturbances
  BY EmptySeq, LinkAssumption
<1>7. rx \in [End -> Frame \cup {None}] /\ fto \in [End -> BOOLEAN] /\ listening \in [End -> BOOLEAN]
  BY DEF Init
<1>8. line \in [End -> Seq(Frame)] /\ submitted \in [End -> Seq(Msg)] /\ delivered \in [End -> Seq(Msg)]
  BY <1>6 DEF Init
<1>9. faults \in 0..MaxDisturbances /\ early \in 0..MaxDisturbances
  BY <1>6 DEF Init
<1> QED BY <1>4, <1>5, <1>7, <1>8, <1>9 DEF LinkInv, TypeOK

\* digestFrame, whichever way the frame was ended.
LEMMA DigestKeeps ==
    ASSUME LinkInv, NEW e \in End, NEW f \in Frame, NEW in \in [End -> Seq(Frame)], Digest(e, f, in)
    PROVE  LinkInv'
<1>1. Ready(ep[e]) /\ Peer(e) \in End
  BY PeerIsAnEnd DEF LinkInv
<1>2. delivered' \in [End -> Seq(Msg)]
  <2>1. delivered \in [End -> Seq(Msg)] /\ delivered[Peer(e)] \in Seq(Msg)
    BY <1>1 DEF LinkInv, TypeOK
  <2>2. CASE UNCHANGED delivered
    BY <2>1, <2>2
  <2>3. CASE ~UNCHANGED delivered
    <3> DEFINE p == DigestPayload(ep[e], f)
               m == CHOOSE n \in Emitted(p) : TRUE
    <3>1. Emitted(p) # {} /\ delivered' = [delivered EXCEPT ![Peer(e)] = Append(@, m)]
      BY <2>3 DEF Digest
    <3> HIDE DEF p
    <3>2. m \in Emitted(p)
      BY <3>1
    <3>3. m \in Msg
      BY <3>2 DEF Emitted
    <3> HIDE DEF m
    <3>4. Append(delivered[Peer(e)], m) \in Seq(Msg)
      BY <2>1, <3>3
    <3> QED BY <2>1, <3>1, <3>4
  <2> QED BY <2>2, <2>3
<1>3. /\ ep' \in [End -> Endpoint] /\ line' \in [End -> Seq(Frame)]
      /\ \A x \in End : Ready(ep'[x])
  <2>1. PICK p : Become(e, p, in) /\ Ready(p)
    <3>1. CASE f.good /\ f.type = "payload" /\ Become(e, DigestPayload(ep[e], f), in)
      BY <1>1, <3>1, DigestReady
    <3>2. CASE f.good /\ f.type = "confirmation" /\ Become(e, DigestConfirmation(ep[e], f), in)
      BY <1>1, <3>2, DigestReady
    <3>3. CASE Become(e, DigestWrongCrc(ep[e]), in)
      BY <1>1, <3>3, DigestReady
    <3>4. CASE Become(e, ep[e], in)
      BY <1>1, <3>4
    <3> QED BY <3>1, <3>2, <3>3, <3>4 DEF Digest
  <2> QED BY <2>1, BecomeReady
<1>4. rx' \in [End -> Frame \cup {None}] /\ fto' \in [End -> BOOLEAN]
  BY DEF Digest, LinkInv, TypeOK
<1>5. UNCHANGED <<listening, submitted, faults, early>>
  BY DEF Digest
<1> QED BY <1>2, <1>3, <1>4, <1>5, Rest DEF LinkInv, TypeOK

LEMMA LinkStep == LinkInv /\ [Next]_vars => LinkInv'
<1> SUFFICES ASSUME LinkInv, [Next]_vars PROVE LinkInv'
  OBVIOUS
<1>1. /\ ep \in [End -> Endpoint] /\ line \in [End -> Seq(Frame)] /\ rx \in [End -> Frame \cup {None}]
      /\ fto \in [End -> BOOLEAN] /\ listening \in [End -> BOOLEAN]
      /\ submitted \in [End -> Seq(Msg)] /\ delivered \in [End -> Seq(Msg)]
      /\ faults \in 0..MaxDisturbances /\ early \in 0..MaxDisturbances /\ MaxDisturbances \in Nat
      /\ \A x \in End : Ready(ep[x])
  BY LinkAssumption DEF LinkInv, TypeOK
<1>2. ASSUME NEW e \in End, Fault PROVE faults' \in 0..MaxDisturbances
  BY <1>1, <1>2 DEF Fault
<1>3. ASSUME NEW b \in BOOLEAN, CountEarly(b) PROVE early' \in 0..MaxDisturbances
  BY <1>1, <1>3 DEF CountEarly
<1>4. ASSUME NEW m \in Msg, SendMessage(m) PROVE LinkInv'
  <2> DEFINE e == From[m]
             p == [ep[e] EXCEPT !.queue = Append(@, m)]
  <2>1. e \in End
    BY LinkAssumption
  <2>2. Ready(ep[e]) /\ ep[e].queue \in Seq(Msg)
    BY <1>1, <2>1 DEF Ready, Endpoint
  <2>3. Append(ep[e].queue, m) \in Seq(Msg)
    BY <2>2
  <2>4. Ready(p)
    <3> DEFINE q == Append(ep[e].queue, m)
    <3> HIDE DEF q, e
    <3>1. [ep[e] EXCEPT !.queue = q] \in Endpoint
      BY <2>2, <2>3 DEF Ready, Endpoint, q
    <3>2. Ready([ep[e] EXCEPT !.queue = q])
      BY <2>2, <3>1 DEF Ready, CanResend, Endpoint
    <3> QED BY <3>2 DEF q
  <2>5. Ready(SendLoop(p))
    BY <2>4, SendLoopReady
  <2>6. Become(e, SendLoop(p), line)
    BY <1>4 DEF SendMessage
  <2>7. submitted' \in [End -> Seq(Msg)]
    BY <1>1, <1>4, <2>1 DEF SendMessage
  <2> HIDE DEF e, p
  <2>8. /\ ep' \in [End -> Endpoint] /\ line' \in [End -> Seq(Frame)]
        /\ \A x \in End : Ready(ep'[x])
    BY <1>1, <2>1, <2>5, <2>6, BecomeReady
  <2>9. UNCHANGED <<rx, fto, listening, delivered, faults, early>>
    BY <1>4 DEF SendMessage
  <2> QED BY <1>1, <2>7, <2>8, <2>9, Rest
<1>5. ASSUME NEW e \in End, StartFrame(e) PROVE LinkInv'
  <2>1. line' \in [End -> Seq(Frame)] /\ Head(line[e]) \in Frame
    BY <1>5, TailsAreLines DEF StartFrame
  <2>2. rx' \in [End -> Frame \cup {None}] /\ fto' \in [End -> BOOLEAN]
    BY <1>1, <1>5, <2>1 DEF StartFrame
  <2>3. UNCHANGED <<ep, listening, submitted, delivered, faults, early>>
    BY <1>5 DEF StartFrame
  <2> QED BY <1>1, <2>1, <2>2, <2>3, Rest
<1>6. ASSUME NEW e \in End, StopFrame(e) PROVE LinkInv'
  <2>1. rx[e] \in Frame
    BY <1>1, <1>6 DEF StopFrame
  <2> QED BY <1>1, <1>6, <2>1, DigestKeeps DEF StopFrame
<1>7. ASSUME NEW e \in End, StopMergedFrame(e) PROVE LinkInv'
  <2>1. rx[e] \in Frame /\ [line EXCEPT ![e] = Tail(@)] \in [End -> Seq(Frame)]
    BY <1>1, <1>7, TailsAreLines DEF StopMergedFrame
  <2> QED BY <1>7, <2>1, DigestKeeps DEF StopMergedFrame
<1>8. ASSUME NEW e \in End, ConfirmationTimeout(e) PROVE LinkInv'
  <2> DEFINE n == ep[e].timeouts + 1
             p == [ep[e] EXCEPT !.timeouts = n]
             q == [ep[e] EXCEPT !.timeouts = 0]
  <2>1. CanResend(ep[e]) /\ n \in Int
    BY <1>1, <1>8, SMTT(20) DEF ConfirmationTimeout, Ready, CanResend, Endpoint
  <2> HIDE DEF n
  <2>2. CanResend(p)
    BY <2>1, CountersSet DEF CanResend
  <2>3. CanResend(q)
    <3>1. 0 \in Int
      OBVIOUS
    <3> QED BY <2>1, <3>1, CountersSet DEF CanResend
  <2>4. Become(e, ResendPayloadFrame(p), line) \/ Become(e, GiveUp(q), line)
    BY <1>8 DEF ConfirmationTimeout, n
  <2> HIDE DEF p, q
  <2>5. /\ ep' \in [End -> Endpoint] /\ line' \in [End -> Seq(Frame)]
        /\ \A x \in End : Ready(ep'[x])
    BY <1>1, <2>2, <2>3, <2>4, ResendReady, GiveUpReady, BecomeReady
  <2>6. early' \in 0..MaxDisturbances
    <3>1. (~Quiet) \in BOOLEAN
      OBVIOUS
    <3> QED BY <1>3, <1>8, <3>1 DEF ConfirmationTimeout
  <2>7. UNCHANGED <<rx, fto, listening, submitted, delivered, faults>>
    BY <1>8 DEF ConfirmationTimeout
  <2> QED BY <1>1, <2>5, <2>6, <2>7, Rest
<1>9. ASSUME NEW e \in End, FtoTimeout(e) PROVE LinkInv'
  <2>1. Ready(SendConfirmFrame(ep[e], Nak)) /\ Become(e, SendConfirmFrame(ep[e], Nak), line)
    BY <1>1, <1>9, ConfirmReady, FramesMade DEF FtoTimeout
  <2>2. /\ ep' \in [End -> Endpoint] /\ line' \in [End -> Seq(Frame)]
        /\ \A x \in End : Ready(ep'[x])
    BY <1>1, <2>1, BecomeReady
  <2>3. early' \in 0..MaxDisturbances
    <3>1. (rx[e] # None /\ rx[e].stop) \in BOOLEAN
      OBVIOUS
    <3> QED BY <1>3, <1>9, <3>1 DEF FtoTimeout
  <2>4. fto' \in [End -> BOOLEAN]
    BY <1>1, <1>9 DEF FtoTimeout
  <2>5. UNCHANGED <<rx, listening, submitted, delivered, faults>>
    BY <1>9 DEF FtoTimeout
  <2> QED BY <1>1, <2>2, <2>3, <2>4, <2>5, Rest
<1>10. ASSUME NEW e \in End, CorruptFrame(e) \/ LoseStop(e) PROVE LinkInv'
  <2>1. rx[e] \in Frame /\ faults' \in 0..MaxDisturbances
    BY <1>1, <1>2, <1>10 DEF CorruptFrame, LoseStop
  <2>2. [rx[e] EXCEPT !.good = FALSE] \in Frame /\ [rx[e] EXCEPT !.good = FALSE, !.stop = FALSE] \in Frame
    BY <2>1, FrameFields
  <2>3. rx' \in [End -> Frame \cup {None}]
    <3>1. CASE CorruptFrame(e)
      <4>1. rx' = [rx EXCEPT ![e] = [rx[e] EXCEPT !.good = FALSE]]
        BY <3>1 DEF CorruptFrame
      <4> QED BY <1>1, <2>2, <4>1
    <3>2. CASE LoseStop(e)
      <4>1. rx' = [rx EXCEPT ![e] = [rx[e] EXCEPT !.good = FALSE, !.stop = FALSE]]
        BY <1>1, <3>2 DEF LoseStop
      <4> QED BY <1>1, <2>2, <4>1
    <3> QED BY <1>10, <3>1, <3>2
  <2>4. UNCHANGED <<ep, line, fto, listening, submitted, delivered, early>>
    BY <1>10 DEF CorruptFrame, LoseStop
  <2> QED BY <1>1, <2>1, <2>3, <2>4, Rest
<1>11. ASSUME NEW e \in End, LoseStart(e) PROVE LinkInv'
  <2> DEFINE burst == [k \in 1..NfBurst |-> Nak]
             p == [ep[e] EXCEPT !.out = burst]
  <2>1. burst \in [1..NfBurst -> Frame]
    BY FramesMade
  <2>2. burst \in Seq(Frame)
    <3> HIDE DEF burst
    <3> QED BY <2>1, SeqDef, LinkAssumption
  <2>3. [line EXCEPT ![e] = Tail(@)] \in [End -> Seq(Frame)]
    BY <1>11, TailsAreLines DEF LoseStart
  <2>4. 0 \in Nat /\ <<>> \in Seq(Msg \X Nat)
    BY EmptySeq
  <2>5. Become(e, p, [line EXCEPT ![e] = Tail(@)])
    BY <1>11 DEF LoseStart
  <2> HIDE DEF burst
  <2>6. Ready(p)
    BY <1>1, <2>2, <2>4, OtherFieldsReady
  <2> HIDE DEF p
  <2>7. /\ ep' \in [End -> Endpoint] /\ line' \in [End -> Seq(Frame)]
        /\ \A x \in End : Ready(ep'[x])
    BY <2>3, <2>5, <2>6, BecomeReady
  <2>8. faults' \in 0..MaxDisturbances /\ UNCHANGED <<rx, fto, listening, submitted, delivered, early>>
    BY <1>2, <1>11 DEF LoseStart
  <2> QED BY <1>1, <2>7, <2>8, Rest
<1>12. ASSUME NEW e \in End, LoseFrame(e) PROVE LinkInv'
  <2>1. line' \in [End -> Seq(Frame)] /\ faults' \in 0..MaxDisturbances
    BY <1>2, <1>12, TailsAreLines DEF LoseFrame
  <2>2. UNCHANGED <<ep, rx, fto, listening, submitted, delivered, early>>
    BY <1>12 DEF LoseFrame
  <2> QED BY <1>1, <2>1, <2>2, Rest
<1>13. ASSUME NEW e \in End, StopListening(e) PROVE LinkInv'
  <2>1. /\ listening' \in [End -> BOOLEAN] /\ rx' \in [End -> Frame \cup {None}]
        /\ faults' \in 0..MaxDisturbances
    BY <1>1, <1>2, <1>13 DEF StopListening
  <2>2. UNCHANGED <<ep, line, fto, submitted, delivered, early>>
    BY <1>13 DEF StopListening
  <2> QED BY <1>1, <2>1, <2>2, Rest
<1>14. CASE UNCHANGED vars
  BY <1>1, <1>14, Rest DEF vars
<1> QED
  BY <1>4, <1>5, <1>6, <1>7, <1>8, <1>9, <1>10, <1>11, <1>12, <1>13, <1>14 DEF Next

LEMMA LinkInvariant == Spec => []LinkInv
BY LinkInit, LinkStep, PTL DEF Spec

-----------------------------------------------------------------------------
(* Both handlers keep the types of their fields, whatever the constructor    *)
(* left in the two counters it does not set (serial_interface_handler.cc).   *)
THEOREM LinkTypes == Spec => []TypeOK
BY LinkInvariant, PTL DEF LinkInv

(* A sender that waits for a confirmation has its timer running, and an idle *)
(* one has none: no mixture of NAKs, damaged frames, wrong mids and timeouts *)
(* leaves an end waiting for nothing (sendLoop, confirmation_timeout_handler).      *)
THEOREM NoWaitWithoutTimer == Spec => []WaitsWithTimer
<1>1. LinkInv => WaitsWithTimer
  BY DEF LinkInv, Ready, WaitsWithTimer
<1> QED BY <1>1, LinkInvariant, PTL

-----------------------------------------------------------------------------
(* The refinement of MessageChannel.  What an end has still to read, the    *)
(* frame that it is reading included.                                       *)
WireOf(x, l) == IF x = None THEN l ELSE <<x>> \o l

Wire(e) == WireOf(rx[e], line[e])

IsPayload(f) == f.type = "payload"

\* No message is submitted twice.
Once(S) == \A i, j \in 1..Len(S) : S[i] = S[j] => i = j

\* Among the submitted messages S, a is b or comes before it.
Precedes(S, a, b) == \E k \in 1..Len(S) : S[k] = b /\ \E j \in 1..k : S[j] = a

\* The sender p works through S: its queue is the end of S and its message is
\* the one before that.
Queued(p, S) ==
    /\ Len(p.queue) <= Len(S)
    /\ \A i \in 1..Len(p.queue) : p.queue[i] = S[Len(S) - Len(p.queue) + i]
    /\ p.msg = None => Len(p.queue) = Len(S)
    /\ p.msg # None => Len(p.queue) < Len(S) /\ S[Len(S) - Len(p.queue)] = p.msg

Sends(p, S) ==
    /\ Queued(p, S)
    /\ p.sent # None => IsPayload(p.sent) /\ p.sent.msg = p.msg /\ p.msg # None

\* The messages given to the peer (d), those on the wire (W) and the one that
\* is being sent (c) are in the order of S.
Passed(S, d, W, c) ==
    /\ \A i \in 1..Len(W) : IsPayload(W[i]) =>
          /\ Precedes(S, W[i].msg, c)
          /\ d # <<>> => Precedes(S, d[Len(d)], W[i].msg)
          /\ \A j \in 1..i : IsPayload(W[j]) => Precedes(S, W[j].msg, W[i].msg)
    /\ d # <<>> => Precedes(S, d[Len(d)], c)

Ordered(S, p, d, W) ==
    /\ Once(S)
    /\ Sends(p, S)
    /\ p.out = <<>>
    /\ Passed(S, d, W, p.msg)

OrderInv == \A e \in End : Ordered(submitted[e], ep[e], delivered[e], Wire(Peer(e)))

-----------------------------------------------------------------------------
(* Two ends.                                                                *)

LEMMA TwoEnds ==
    ASSUME NEW e \in End
    PROVE  Peer(e) \in End /\ Peer(e) # e /\ Peer(Peer(e)) = e /\ End = {e, Peer(e)}
<1>1. Peer(e) \in End /\ Peer(e) # e
  <2>1. \E p \in End : p # e
    <3>1. ASSUME \A p \in End : p = e PROVE FALSE
      <4>1. End = {e}
        BY <3>1
      <4>2. Cardinality({e}) = 1
        BY FS_Singleton
      <4> QED BY <4>1, <4>2, LinkAssumption
    <3> QED BY <3>1
  <2> QED BY <2>1 DEF Peer
<1>2. End = {e, Peer(e)}
  <2> DEFINE R == End \ {e}
  <2>1. IsFiniteSet(R) /\ Cardinality(R) = 1
    <3>1. IsFiniteSet(End) /\ Cardinality(End) = 2
      BY LinkAssumption
    <3> QED BY <3>1, FS_RemoveElement
  <2>2. \E x : R = {x}
    BY <2>1, FS_Singleton
  <2> QED BY <1>1, <2>2
<1>3. Peer(Peer(e)) = e
  <2>1. Peer(Peer(e)) = CHOOSE p \in End : p # Peer(e)
    BY DEF Peer
  <2> DEFINE r == Peer(e)
  <2>2. (CHOOSE p \in End : p # r) \in End /\ (CHOOSE p \in End : p # r) # r
    <3>1. \E p \in End : p # r
      BY <1>1
    <3> QED BY <3>1
  <2> QED BY <1>1, <1>2, <2>1, <2>2
<1> QED BY <1>1, <1>2, <1>3

-----------------------------------------------------------------------------
(* The order of the submitted messages.                                     *)

LEMMA PrecedesSelf ==
    ASSUME NEW S \in Seq(Msg), NEW k \in 1..Len(S)
    PROVE  Precedes(S, S[k], S[k])
BY DEF Precedes

LEMMA PrecedesNext ==
    ASSUME NEW S \in Seq(Msg), NEW k \in 1..Len(S), NEW j \in 1..k
    PROVE  Precedes(S, S[j], S[k])
BY DEF Precedes

LEMMA PrecedesInside ==
    ASSUME NEW S \in Seq(Msg), NEW a, NEW b, Precedes(S, a, b)
    PROVE  a \in Msg /\ b \in Msg /\ \E k \in 1..Len(S) : S[k] = b
<1>1. PICK k \in 1..Len(S) : S[k] = b /\ \E j \in 1..k : S[j] = a
  BY DEF Precedes
<1>2. PICK j \in 1..k : S[j] = a
  BY <1>1
<1>3. j \in 1..Len(S)
  BY <1>1, <1>2
<1> QED BY <1>1, <1>2, <1>3, ElementOfSeq

LEMMA PrecedesTrans ==
    ASSUME NEW S \in Seq(Msg), Once(S), NEW a, NEW b, NEW c, Precedes(S, a, b), Precedes(S, b, c)
    PROVE  Precedes(S, a, c)
<1>1. PICK k \in 1..Len(S) : S[k] = b /\ \E j \in 1..k : S[j] = a
  BY DEF Precedes
<1>2. PICK j \in 1..k : S[j] = a
  BY <1>1
<1>3. PICK n \in 1..Len(S) : S[n] = c /\ \E i \in 1..n : S[i] = b
  BY DEF Precedes
<1>4. PICK i \in 1..n : S[i] = b
  BY <1>3
<1>5. i = k
  <2>1. i \in 1..Len(S)
    BY <1>3, <1>4
  <2> QED BY <1>1, <1>4, <2>1 DEF Once
<1>6. j \in 1..n
  BY <1>2, <1>4, <1>5
<1> QED BY <1>2, <1>3, <1>6 DEF Precedes

LEMMA PrecedesAppend ==
    ASSUME NEW S \in Seq(Msg), NEW m \in Msg, NEW a, NEW b, Precedes(S, a, b)
    PROVE  Precedes(Append(S, m), a, b)
<1>1. PICK k \in 1..Len(S) : S[k] = b /\ \E j \in 1..k : S[j] = a
  BY DEF Precedes
<1>2. PICK j \in 1..k : S[j] = a
  BY <1>1
<1>3. j \in 1..Len(S)
  BY <1>1, <1>2
<1>4. /\ Len(Append(S, m)) = Len(S) + 1
      /\ \A i \in 1..Len(S) : Append(S, m)[i] = S[i]
  BY AppendProperties
<1> DEFINE T == Append(S, m)
<1>5. T[k] = b /\ T[j] = a /\ Len(T) = Len(S) + 1
  BY <1>1, <1>2, <1>3, <1>4
<1> HIDE DEF T
<1>6. k \in 1..Len(T)
  BY <1>5
<1>7. Precedes(T, a, b)
  BY <1>5, <1>6 DEF Precedes
<1> QED BY <1>7 DEF T

-----------------------------------------------------------------------------
(* The wire.                                                                *)

LEMMA WireIsSeq ==
    ASSUME NEW x \in Frame \cup {None}, NEW l \in Seq(Frame)
    PROVE  WireOf(x, l) \in Seq(Frame)
<1>1. CASE x = None
  BY <1>1 DEF WireOf
<1>2. CASE x # None
  <2>1. <<x>> \in Seq(Frame)
    BY <1>2
  <2> QED BY <1>2, <2>1, ConcatProperties DEF WireOf
<1> QED BY <1>1, <1>2

LEMMA WireReading ==
    ASSUME NEW x \in Frame, NEW l \in Seq(Frame)
    PROVE  /\ WireOf(x, l) \in Seq(Frame) /\ WireOf(x, l) # <<>>
           /\ WireOf(x, l)[1] = x
           /\ Len(WireOf(x, l)) = Len(l) + 1
           /\ \A i \in 1..Len(l) : WireOf(x, l)[i + 1] = l[i]
           /\ Tail(WireOf(x, l)) = l
<1>1. WireOf(x, l) = <<x>> \o l
  BY NoneAssumption DEF WireOf
<1> DEFINE s == <<x>>
           W == s \o l
<1>2. s \in Seq(Frame) /\ Len(s) = 1 /\ s[1] = x /\ Len(l) \in Nat
  OBVIOUS
<1> HIDE DEF s
<1>3. /\ W \in Seq(Frame) /\ Len(W) = Len(l) + 1
      /\ \A i \in 1..Len(l) + 1 : W[i] = IF i <= 1 THEN s[i] ELSE l[i - 1]
  <2>1. /\ W \in Seq(Frame) /\ Len(W) = Len(s) + Len(l)
        /\ \A i \in 1..Len(s) + Len(l) : W[i] = IF i <= Len(s) THEN s[i] ELSE l[i - Len(s)]
    BY <1>2, ConcatProperties
  <2> HIDE DEF W
  <2> QED BY <1>2, <2>1
<1> HIDE DEF W
<1>4. W[1] = x /\ \A i \in 1..Len(l) : W[i + 1] = l[i]
  BY <1>2, <1>3
<1>5. W # <<>>
  BY <1>2, <1>3, EmptySeq
<1>6. Tail(W) = l
  <2>1. Tail(W) \in Seq(Frame) /\ Len(Tail(W)) = Len(W) - 1 /\ \A i \in 1..Len(Tail(W)) : Tail(W)[i] = W[i + 1]
    BY <1>3, <1>5, HeadTailProperties
  <2>2. Len(Tail(W)) = Len(l)
    BY <1>2, <1>3, <2>1
  <2>3. \A i \in 1..Len(Tail(W)) : Tail(W)[i] = l[i]
    BY <1>4, <2>1, <2>2
  <2> QED BY <2>1, <2>2, <2>3, SeqEqual
<1> QED BY <1>1, <1>3, <1>4, <1>5, <1>6 DEF W, s

LEMMA WireStarted ==
    ASSUME NEW l \in Seq(Frame), l # <<>>
    PROVE  WireOf(Head(l), Tail(l)) = l
<1>1. Head(l) \in Frame /\ Tail(l) \in Seq(Frame)
  BY HeadTailProperties
<1>2. Len(Tail(l)) = Len(l) - 1 /\ \A i \in 1..Len(Tail(l)) : Tail(l)[i] = l[i + 1]
  BY HeadTailProperties
<1> DEFINE W == WireOf(Head(l), Tail(l))
<1>3. /\ W \in Seq(Frame) /\ W[1] = Head(l) /\ Len(W) = Len(Tail(l)) + 1
      /\ \A i \in 1..Len(Tail(l)) : W[i + 1] = Tail(l)[i]
  BY <1>1, WireReading
<1> HIDE DEF W
<1>4. Len(l) \in Nat /\ Head(l) = l[1]
  OBVIOUS
<1>5. Len(W) = Len(l)
  BY <1>2, <1>3, <1>4
<1>6. ASSUME NEW i \in 1..Len(W) PROVE W[i] = l[i]
  <2>1. CASE i = 1
    BY <1>3, <1>4, <2>1
  <2>2. CASE i # 1
    <3>1. i - 1 \in 1..Len(Tail(l)) /\ (i - 1) + 1 = i
      BY <1>2, <1>4, <1>5, <2>2
    <3> DEFINE j == i - 1
    <3>2. j \in 1..Len(Tail(l)) /\ j + 1 = i
      BY <3>1
    <3> HIDE DEF j
    <3> QED BY <1>2, <1>3, <3>2
  <2> QED BY <2>1, <2>2
<1>7. W = l
  BY <1>3, <1>5, <1>6, SeqEqual
<1> QED BY <1>7 DEF W

LEMMA WireWritten ==
    ASSUME NEW x \in Frame \cup {None}, NEW l \in Seq(Frame), NEW o \in Seq(Frame)
    PROVE  WireOf(x, l \o o) = WireOf(x, l) \o o
<1>1. CASE x = None
  BY <1>1 DEF WireOf
<1>2. CASE x # None
  <2>1. <<x>> \in Seq(Frame)
    BY <1>2
  <2>2. <<x>> \o (l \o o) = (<<x>> \o l) \o o
    BY <2>1, ConcatAssociative
  <2> QED BY <1>2, <2>2 DEF WireOf
<1> QED BY <1>1, <1>2

-----------------------------------------------------------------------------
(* What happens to the order.                                               *)

LEMMA PassedSubmit ==
    ASSUME NEW S \in Seq(Msg), NEW d \in Seq(Msg), NEW W \in Seq(Frame), NEW c, NEW m \in Msg,
           Passed(S, d, W, c)
    PROVE  Passed(Append(S, m), d, W, c)
BY PrecedesAppend DEF Passed

LEMMA PassedMove ==
    ASSUME NEW S \in Seq(Msg), NEW d \in Seq(Msg), NEW W \in Seq(Frame), NEW a, NEW b,
           Passed(S, d, W, a), Once(S), a = None \/ Precedes(S, a, b)
    PROVE  Passed(S, d, W, b)
<1>1. \A x : Precedes(S, x, a) => Precedes(S, x, b)
  <2>1. CASE a = None
    BY <2>1, PrecedesInside, LinkAssumption
  <2>2. CASE Precedes(S, a, b)
    BY <2>2, PrecedesTrans
  <2> QED BY <2>1, <2>2
<1> QED BY <1>1 DEF Passed

LEMMA PassedTail ==
    ASSUME NEW S \in Seq(Msg), NEW d \in Seq(Msg), NEW W \in Seq(Frame), NEW c,
           Passed(S, d, W, c), W # <<>>
    PROVE  Passed(S, d, Tail(W), c)
<1> DEFINE T == Tail(W)
<1>1. T \in Seq(Frame) /\ Len(T) = Len(W) - 1 /\ \A i \in 1..Len(T) : T[i] = W[i + 1]
  BY HeadTailProperties
<1>2. Len(W) \in Nat /\ Len(T) \in Nat
  BY <1>1
<1> HIDE DEF T
<1>3. ASSUME NEW i \in 1..Len(T), IsPayload(T[i]), NEW j \in 1..i, IsPayload(T[j])
      PROVE  Precedes(S, T[j].msg, T[i].msg)
  <2>1. i + 1 \in 1..Len(W) /\ j + 1 \in 1..i + 1 /\ j \in 1..Len(T)
    BY <1>1, <1>2
  <2>2. T[i] = W[i + 1] /\ T[j] = W[j + 1]
    BY <1>1, <2>1
  <2> QED BY <1>3, <2>1, <2>2 DEF Passed
<1>4. ASSUME NEW i \in 1..Len(T), IsPayload(T[i])
      PROVE  Precedes(S, T[i].msg, c) /\ (d # <<>> => Precedes(S, d[Len(d)], T[i].msg))
  <2>1. i + 1 \in 1..Len(W) /\ T[i] = W[i + 1]
    BY <1>1, <1>2
  <2> QED BY <1>4, <2>1 DEF Passed
<1>5. Passed(S, d, T, c)
  BY <1>3, <1>4 DEF Passed
<1> QED BY <1>5 DEF T

LEMMA PassedWrite ==
    ASSUME NEW S \in Seq(Msg), NEW d \in Seq(Msg), NEW W \in Seq(Frame), NEW c, NEW o \in Seq(Frame),
           Passed(S, d, W, c),
           \A i \in 1..Len(o) : IsPayload(o[i]) => o[i].msg = c /\ Precedes(S, c, c)
    PROVE  Passed(S, d, W \o o, c)
<1> DEFINE T == W \o o
<1>1. /\ T \in Seq(Frame) /\ Len(T) = Len(W) + Len(o)
      /\ \A i \in 1..Len(W) + Len(o) : T[i] = IF i <= Len(W) THEN W[i] ELSE o[i - Len(W)]
  BY ConcatProperties
<1>2. Len(W) \in Nat /\ Len(o) \in Nat
  OBVIOUS
<1> HIDE DEF T
<1>3. ASSUME NEW i \in 1..Len(T), i \notin 1..Len(W), IsPayload(T[i]) PROVE T[i].msg = c /\ Precedes(S, c, c)
  <2> DEFINE k == i - Len(W)
  <2>1. k \in 1..Len(o) /\ T[i] = o[k]
    BY <1>1, <1>2, <1>3
  <2> HIDE DEF k
  <2> QED BY <1>3, <2>1
<1>4. \A i \in 1..Len(W) : i \in 1..Len(T) /\ T[i] = W[i]
  BY <1>1, <1>2
<1>5. ASSUME NEW i \in 1..Len(T), IsPayload(T[i])
      PROVE  Precedes(S, T[i].msg, c) /\ (d # <<>> => Precedes(S, d[Len(d)], T[i].msg))
  <2>1. CASE i \in 1..Len(W)
    BY <1>4, <1>5, <2>1 DEF Passed
  <2>2. CASE i \notin 1..Len(W)
    BY <1>3, <1>5, <2>2 DEF Passed
  <2> QED BY <2>1, <2>2
<1>6. ASSUME NEW i \in 1..Len(T), IsPayload(T[i]), NEW j \in 1..i, IsPayload(T[j])
      PROVE  Precedes(S, T[j].msg, T[i].msg)
  <2>1. CASE i \in 1..Len(W)
    <3>1. j \in 1..Len(W)
      BY <1>2, <2>1
    <3>2. T[j] = W[j] /\ T[i] = W[i]
      BY <1>4, <2>1, <3>1
    <3> QED BY <1>6, <2>1, <3>2 DEF Passed
  <2>2. CASE i \notin 1..Len(W)
    <3>1. T[i].msg = c
      BY <1>3, <1>6, <2>2
    <3>2. j \in 1..Len(T)
      BY <1>1, <1>2
    <3> QED BY <1>5, <1>6, <3>1, <3>2
  <2> QED BY <2>1, <2>2
<1>7. Passed(S, d, T, c)
  BY <1>5, <1>6 DEF Passed
<1> QED BY <1>7 DEF T

LEMMA PassedGive ==
    ASSUME NEW S \in Seq(Msg), NEW d \in Seq(Msg), NEW W \in Seq(Frame), NEW c, NEW m \in Msg,
           Passed(S, d, W, c), W # <<>>, IsPayload(W[1]), W[1].msg = m
    PROVE  Passed(S, Append(d, m), Tail(W), c)
<1> DEFINE T == Tail(W)
           D == Append(d, m)
<1>1. T \in Seq(Frame) /\ Len(T) = Len(W) - 1 /\ \A i \in 1..Len(T) : T[i] = W[i + 1]
  BY HeadTailProperties
<1>2. Len(D) = Len(d) + 1 /\ D[Len(d) + 1] = m
  BY AppendProperties
<1>3. Passed(S, d, T, c)
  BY PassedTail
<1>4. 1 \in 1..Len(W) /\ Len(W) \in Nat /\ Len(T) \in Nat
  BY <1>1, EmptySeq
<1> HIDE DEF T, D
<1>5. D[Len(D)] = m
  BY <1>2
<1>6. Precedes(S, m, c)
  BY <1>4 DEF Passed
<1>7. ASSUME NEW i \in 1..Len(T), IsPayload(T[i]) PROVE Precedes(S, m, T[i].msg)
  <2>1. i + 1 \in 1..Len(W) /\ 1 \in 1..i + 1 /\ T[i] = W[i + 1]
    BY <1>1, <1>4
  <2> QED BY <1>7, <2>1 DEF Passed
<1>8. Passed(S, D, T, c)
  BY <1>3, <1>5, <1>6, <1>7 DEF Passed
<1> QED BY <1>8 DEF T, D

\* What the line does to a frame changes neither its type nor its message.
LEMMA PassedLike ==
    ASSUME NEW S \in Seq(Msg), NEW d \in Seq(Msg), NEW W \in Seq(Frame), NEW V \in Seq(Frame), NEW c,
           Passed(S, d, W, c), Len(V) = Len(W),
           \A i \in 1..Len(W) : V[i].type = W[i].type /\ (IsPayload(W[i]) => V[i].msg = W[i].msg)
    PROVE  Passed(S, d, V, c)
<1>1. \A i \in 1..Len(W) : \A j \in 1..i : j \in 1..Len(W)
  OBVIOUS
<1>2. \A i \in 1..Len(W) : IsPayload(V[i]) => IsPayload(W[i]) /\ V[i].msg = W[i].msg
  BY DEF IsPayload
<1> QED BY <1>1, <1>2 DEF Passed

-----------------------------------------------------------------------------
(* What the methods of the sender do to its message and what they write.    *)

\* From p, the sender becomes q.
Sent(p, q, S) ==
    /\ Sends(q, S)
    /\ p.msg = None \/ Precedes(S, p.msg, q.msg)
    /\ q.out = <<>> \/ (q.out = <<q.sent>> /\ q.sent \in Frame)
    /\ q.pieces = p.pieces /\ q.expected = p.expected

\* q has sent the next frame of its message; it has begun the next message.
FrameSent(p, q) ==
    /\ q.needAck \in 0..Modulus-1
    /\ q.sent = PayloadFrame(p.msg, p.popped + 1, q.needAck) /\ q.sent \in Frame
    /\ q.popped = p.popped + 1
    /\ q.sender = "WaitForAck"
    /\ q.out = <<q.sent>>
    /\ q.msg = p.msg /\ q.queue = p.queue /\ q.completed = p.completed
    /\ q.pieces = p.pieces /\ q.expected = p.expected

MessageBegun(p, q) ==
    /\ q.needAck \in 0..Modulus-1
    /\ q.msg = Head(p.queue) /\ q.queue = Tail(p.queue)
    /\ q.sent = PayloadFrame(q.msg, 1, q.needAck) /\ q.sent \in Frame
    /\ q.popped = 1
    /\ q.sender = "WaitForAck"
    /\ q.out = <<q.sent>>
    /\ q.completed = p.completed
    /\ q.pieces = p.pieces /\ q.expected = p.expected

LEMMA FrameIsSent ==
    ASSUME NEW p \in Endpoint, p.msg \in Msg, p.out = <<>>
    PROVE  FrameSent(p, SendPayloadFrame(p))
<1> DEFINE k == p.popped + 1
           mid == (p.mid + 1) % Modulus
           f == PayloadFrame(p.msg, k, mid)
           q == [p EXCEPT !.popped = k, !.mid = mid, !.needAck = mid, !.sent = f,
                          !.sender = "WaitForAck", !.timer = TRUE, !.out = Append(@, f)]
<1>1. k \in Nat /\ mid \in 0..Modulus-1
  <2>1. Modulus \in Nat \ {0} /\ p.popped \in Nat /\ p.mid \in Int
    BY LinkAssumption DEF Endpoint
  <2>2. \A x \in Int, n \in Nat \ {0} : x % n \in 0..n-1
    OBVIOUS
  <2>3. p.mid + 1 \in Int
    BY <2>1
  <2>4. mid \in 0..Modulus-1
    BY <2>1, <2>2, <2>3
  <2> HIDE DEF mid
  <2> QED BY <2>1, <2>4
<1>2. f \in Frame
  BY <1>1, FramesMade
<1>3. Append(p.out, f) = <<f>>
  OBVIOUS
<1>4. k = p.popped + 1 /\ f = PayloadFrame(p.msg, p.popped + 1, mid)
  OBVIOUS
<1> HIDE DEF k, mid, f
<1>5. /\ q.popped = k /\ q.needAck = mid /\ q.sent = f /\ q.sender = "WaitForAck" /\ q.out = <<f>>
      /\ q.msg = p.msg /\ q.queue = p.queue /\ q.completed = p.completed
      /\ q.pieces = p.pieces /\ q.expected = p.expected
  BY <1>3 DEF Endpoint
<1>6. SendPayloadFrame(p) = q
  BY DEF SendPayloadFrame, k, mid, f
<1> HIDE DEF q
<1> QED BY <1>1, <1>2, <1>4, <1>5, <1>6 DEF FrameSent

LEMMA MessageIsBegun ==
    ASSUME NEW p \in Endpoint, p.out = <<>>, p.queue # <<>>
    PROVE  MessageBegun(p, StartMessage(p))
<1> DEFINE q == [p EXCEPT !.msg = Head(p.queue), !.popped = 0, !.queue = Tail(p.queue)]
<1>1. p.queue \in Seq(Msg)
  BY DEF Endpoint
<1>2. Head(p.queue) \in Msg /\ Tail(p.queue) \in Seq(Msg)
  BY <1>1, HeadTailProperties
<1>3. /\ q \in Endpoint /\ q.msg = Head(p.queue) /\ q.queue = Tail(p.queue) /\ q.out = <<>> /\ q.popped = 0
      /\ q.completed = p.completed /\ q.pieces = p.pieces /\ q.expected = p.expected
  BY <1>2 DEF Endpoint
<1>4. StartMessage(p) = SendPayloadFrame(q)
  BY DEF StartMessage
<1> HIDE DEF q
<1>5. FrameSent(q, SendPayloadFrame(q))
  BY <1>2, <1>3, FrameIsSent
<1>6. q.popped + 1 = 1
  BY <1>3
<1> QED BY <1>3, <1>4, <1>5, <1>6 DEF FrameSent, MessageBegun

\* Nothing but the message, the queue and the last frame matters to S.
LEMMA SentStays ==
    ASSUME NEW S \in Seq(Msg), NEW p, Sends(p, S), p.queue \in Seq(Msg), p.out = <<>>
    PROVE  Sent(p, p, S)
<1>1. p.msg = None \/ Precedes(S, p.msg, p.msg)
  <2> SUFFICES ASSUME p.msg # None PROVE Precedes(S, p.msg, p.msg)
    OBVIOUS
  <2> DEFINE k == Len(S) - Len(p.queue)
  <2>1. Len(p.queue) \in Nat /\ Len(S) \in Nat /\ Len(p.queue) < Len(S) /\ S[k] = p.msg
    BY DEF Sends, Queued
  <2>2. k \in 1..Len(S)
    BY <2>1
  <2> HIDE DEF k
  <2> QED BY <2>1, <2>2, PrecedesSelf
<1> QED BY <1>1 DEF Sent

LEMMA SentSame ==
    ASSUME NEW S \in Seq(Msg), NEW p, Sends(p, S), p.queue \in Seq(Msg), p.out = <<>>,
           NEW q,
           q.queue = p.queue, q.msg = p.msg, q.sent = p.sent,
           q.out = <<q.sent>>, q.sent \in Frame,
           q.pieces = p.pieces, q.expected = p.expected
    PROVE  Sent(p, q, S)
<1>1. Sends(q, S)
  BY DEF Sends, Queued
<1> QED BY <1>1, SentStays DEF Sent

LEMMA SentBegun ==
    ASSUME NEW S \in Seq(Msg), NEW p, Queued(p, S), p.queue \in Seq(Msg), p.queue # <<>>,
           NEW q, MessageBegun(p, q)
    PROVE  Sent(p, q, S)
<1> DEFINE n == Len(p.queue)
           k == Len(S) - Len(p.queue)
<1>1. n \in Nat \ {0} /\ Len(S) \in Nat /\ n <= Len(S) /\ k = Len(S) - n
  BY EmptySeq DEF Queued
<1>2. q.queue \in Seq(Msg) /\ Len(q.queue) = n - 1 /\ \A i \in 1..Len(q.queue) : q.queue[i] = p.queue[i + 1]
  BY HeadTailProperties DEF MessageBegun
<1>3. \A i \in 1..n : p.queue[i] = S[k + i]
  BY DEF Queued
<1>4. q.msg = p.queue[1] /\ q.msg \in Msg
  BY HeadTailProperties DEF MessageBegun
<1>5. p.msg # None => k >= 1 /\ S[k] = p.msg
  <2>1. p.msg # None => n < Len(S) /\ S[k] = p.msg
    BY DEF Queued
  <2> HIDE DEF n, k
  <2> QED BY <1>1, <2>1
<1> HIDE DEF n, k
<1>6. q.msg = S[k + 1] /\ k + 1 \in 1..Len(S) /\ Len(S) - Len(q.queue) = k + 1
  BY <1>1, <1>2, <1>3, <1>4
<1>7. ASSUME NEW i \in 1..Len(q.queue) PROVE q.queue[i] = S[(k + 1) + i]
  <2>1. i + 1 \in 1..n /\ k + (i + 1) = (k + 1) + i
    BY <1>1, <1>2
  <2> QED BY <1>2, <1>3, <2>1
<1>8. Len(q.queue) < Len(S)
  BY <1>1, <1>2
<1>9. Queued(q, S)
  <2>1. q.msg # None
    BY <1>4, LinkAssumption
  <2>2. Len(q.queue) <= Len(S)
    BY <1>1, <1>2
  <2>3. \A i \in 1..Len(q.queue) : q.queue[i] = S[Len(S) - Len(q.queue) + i]
    BY <1>6, <1>7
  <2>4. S[Len(S) - Len(q.queue)] = q.msg
    BY <1>6
  <2> QED BY <1>8, <2>1, <2>2, <2>3, <2>4 DEF Queued
<1>10. Sends(q, S)
  <2>1. IsPayload(q.sent) /\ q.sent.msg = q.msg /\ q.msg # None
    BY <1>4, LinkAssumption DEF MessageBegun, PayloadFrame, IsPayload
  <2> QED BY <1>9, <2>1 DEF Sends
<1>11. p.msg = None \/ Precedes(S, p.msg, q.msg)
  <2> SUFFICES ASSUME p.msg # None PROVE Precedes(S, p.msg, q.msg)
    OBVIOUS
  <2>1. k \in 1..k + 1 /\ S[k] = p.msg
    BY <1>1, <1>5
  <2> QED BY <1>6, <2>1 DEF Precedes
<1> QED BY <1>10, <1>11 DEF Sent, MessageBegun

LEMMA StartMessageSent ==
    ASSUME NEW S \in Seq(Msg), NEW p \in Endpoint, Sends(p, S), p.out = <<>>
    PROVE  Sent(p, StartMessage(p), S)
<1>1. p.queue \in Seq(Msg)
  BY DEF Endpoint
<1>2. CASE p.queue = <<>>
  <2>1. StartMessage(p) = p
    BY <1>2 DEF StartMessage
  <2>2. Sent(p, p, S)
    BY <1>1, SentStays
  <2> QED BY <2>1, <2>2
<1>3. CASE p.queue # <<>>
  BY <1>1, <1>3, MessageIsBegun, SentBegun DEF Sends
<1> QED BY <1>2, <1>3

\* FrameSent keeps the message.
LEMMA SentFrame ==
    ASSUME NEW S \in Seq(Msg), NEW p, Sends(p, S), p.msg \in Msg, p.queue \in Seq(Msg), NEW q, FrameSent(p, q)
    PROVE  Sent(p, q, S)
<1>1. q.queue = p.queue /\ q.msg = p.msg /\ p.msg # None /\ IsPayload(q.sent) /\ q.sent.msg = p.msg
  BY LinkAssumption DEF FrameSent, PayloadFrame, IsPayload
<1>2. Sends(q, S)
  BY <1>1 DEF Sends, Queued
<1>3. Precedes(S, p.msg, p.msg)
  <2> DEFINE k == Len(S) - Len(p.queue)
  <2>1. Len(p.queue) \in Nat /\ Len(S) \in Nat /\ Len(p.queue) < Len(S) /\ S[k] = p.msg
    BY <1>1 DEF Sends, Queued
  <2>2. k \in 1..Len(S)
    BY <2>1
  <2> HIDE DEF k
  <2> QED BY <2>1, <2>2, PrecedesSelf
<1> QED BY <1>1, <1>2, <1>3 DEF Sent, FrameSent

\* What the methods do to the counters, the timer and the state of the sender.
Alike(p, r) ==
    /\ r.queue = p.queue /\ r.msg = p.msg /\ r.sent = p.sent /\ r.out = p.out
    /\ r.pieces = p.pieces /\ r.expected = p.expected

LEMMA AlikeSends ==
    ASSUME NEW S, NEW p, NEW r, Alike(p, r)
    PROVE  /\ Sends(p, S) => Sends(r, S)
           /\ \A q : Sent(r, q, S) => Sent(p, q, S)
           /\ \A q : Sent(q, p, S) => Sent(q, r, S)
BY DEF Alike, Sends, Queued, Sent

LEMMA ChangesAlike ==
    ASSUME NEW p \in Endpoint
    PROVE  /\ \A errors \in Int : Alike(p, [p EXCEPT !.errors = errors])
           /\ \A timeouts \in Int : Alike(p, [p EXCEPT !.timeouts = timeouts])
           /\ Alike(p, [p EXCEPT !.timer = FALSE])
           /\ \A dropped \in SUBSET Msg : Alike(p, [p EXCEPT !.sender = "Idle", !.timer = FALSE, !.dropped = dropped])
           /\ Alike(p, [p EXCEPT !.timer = FALSE, !.errors = 0, !.timeouts = 0, !.sender = "Idle"])
           /\ \A completed \in SUBSET Msg : Alike(p, [p EXCEPT !.completed = completed])
BY DEF Alike, Endpoint

LEMMA ResendSent ==
    ASSUME NEW S \in Seq(Msg), NEW p, CanResend(p), Sends(p, S), p.out = <<>>
    PROVE  Sent(p, ResendPayloadFrame(p), S)
<1> DEFINE mid == p.sent.mid
           c == Append(p.out, p.sent)
           q == [p EXCEPT !.out = c, !.sender = "WaitForAck", !.needAck = mid, !.timer = TRUE]
<1>1. p \in Endpoint /\ p.sent \in Frame /\ p.queue \in Seq(Msg) /\ c = <<p.sent>>
  BY DEF CanResend, Endpoint
<1>2. ResendPayloadFrame(p) = q
  BY DEF ResendPayloadFrame
<1> HIDE DEF mid, c
<1>3. q.queue = p.queue /\ q.msg = p.msg /\ q.sent = p.sent /\ q.out = c /\ q.pieces = p.pieces /\ q.expected = p.expected
  BY <1>1 DEF Endpoint
<1> HIDE DEF q
<1>4. Sent(p, q, S)
  BY <1>1, <1>3, SentSame
<1> QED BY <1>2, <1>4

LEMMA GiveUpAlike ==
    ASSUME NEW p, CanResend(p)
    PROVE  Alike(p, GiveUp(p)) /\ Alike(p, [GiveUp(p) EXCEPT !.errors = 0])
<1> DEFINE dropped == p.dropped \cup {p.msg}
           q == [p EXCEPT !.sender = "Idle", !.timer = FALSE, !.dropped = dropped]
<1>1. p \in Endpoint /\ dropped \in SUBSET Msg
  BY DEF CanResend, Endpoint
<1>2. GiveUp(p) = q
  BY DEF GiveUp
<1> HIDE DEF dropped
<1>3. Alike(p, q)
  BY <1>1, ChangesAlike
<1>4. q \in Endpoint
  BY <1>1 DEF Endpoint
<1> HIDE DEF q
<1>5. Alike(q, [q EXCEPT !.errors = 0])
  <2>1. 0 \in Int
    OBVIOUS
  <2> HIDE DEF Alike
  <2> QED BY <1>4, <2>1, ChangesAlike
<1> QED BY <1>2, <1>3, <1>5 DEF Alike

LEMMA ErrorSent ==
    ASSUME NEW S \in Seq(Msg), NEW p, CanResend(p), Sends(p, S), p.out = <<>>
    PROVE  Sent(p, ErrorInConfirmation(p), S)
<1> DEFINE n == p.errors + 1
           q == [p EXCEPT !.errors = n]
<1>1. p \in Endpoint /\ n \in Int /\ p.queue \in Seq(Msg)
  BY DEF CanResend, Endpoint
<1>2. ErrorInConfirmation(p) \in {ResendPayloadFrame(q), [GiveUp(p) EXCEPT !.errors = 0]}
  BY DEF ErrorInConfirmation
<1> HIDE DEF n
<1>3. Alike(p, q)
  BY <1>1, ChangesAlike
<1>4. CanResend(q)
  BY <1>1, CountersSet DEF CanResend
<1> HIDE DEF q
<1>5. Sends(q, S) /\ q.out = <<>>
  BY <1>3, AlikeSends DEF Alike
<1>6. Sent(q, ResendPayloadFrame(q), S)
  BY <1>4, <1>5, ResendSent
<1>7. Sent(p, ResendPayloadFrame(q), S)
  BY <1>3, <1>6, AlikeSends
<1>8. Sent(p, p, S)
  BY <1>1, SentStays
<1>9. Sent(p, [GiveUp(p) EXCEPT !.errors = 0], S)
  BY <1>8, GiveUpAlike, AlikeSends
<1> QED BY <1>2, <1>7, <1>9

LEMMA GotNakSent ==
    ASSUME NEW S \in Seq(Msg), NEW p, CanResend(p), Sends(p, S), p.out = <<>>
    PROVE  Sent(p, GotNak(p), S)
<1> DEFINE r == [p EXCEPT !.timer = FALSE]
<1>1. p \in Endpoint
  BY DEF CanResend
<1>2. CanResend(r)
  BY DEF CanResend, Endpoint
<1>3. Alike(p, r)
  BY <1>1, ChangesAlike
<1>4. GotNak(p) = ErrorInConfirmation(r)
  BY DEF GotNak
<1> HIDE DEF r
<1>5. Sends(r, S) /\ r.out = <<>>
  BY <1>3, AlikeSends DEF Alike
<1>6. Sent(r, ErrorInConfirmation(r), S)
  BY <1>2, <1>5, ErrorSent
<1> QED BY <1>3, <1>4, <1>6, AlikeSends

LEMMA GotAckSent ==
    ASSUME NEW S \in Seq(Msg), NEW p, CanResend(p), Sends(p, S), p.out = <<>>, NEW mid
    PROVE  Sent(p, GotAck(p, mid), S)
<1> DEFINE r == [p EXCEPT !.timer = FALSE]
           q == [p EXCEPT !.timer = FALSE, !.errors = 0, !.timeouts = 0, !.sender = "Idle"]
           done == p.completed \cup {p.msg}
           s == [q EXCEPT !.completed = done]
<1>1. p \in Endpoint /\ done \in SUBSET Msg /\ p.msg \in Msg /\ 0 \in Int
  BY DEF CanResend, Endpoint
<1>2. GotAck(p, mid) \in {GotNak(p), SendPayloadFrame(q), StartMessage(s)}
  <2>1. q.completed = p.completed
    BY <1>1 DEF Endpoint
  <2>2. [q EXCEPT !.completed = @ \cup {p.msg}] = s
    BY <2>1
  <2> HIDE DEF s, q
  <2>3. GotAck(p, mid) \in {ErrorInConfirmation(r), SendPayloadFrame(q), StartMessage([q EXCEPT !.completed = @ \cup {p.msg}])}
    BY DEF GotAck, q
  <2> QED BY <2>2, <2>3 DEF GotNak
<1> HIDE DEF done
<1>3. Alike(p, q)
  BY <1>1, ChangesAlike
<1>4. q \in Endpoint
  BY <1>1 DEF Endpoint
<1> HIDE DEF q
<1>5. Alike(q, s)
  BY <1>1, <1>4, ChangesAlike
<1>6. s \in Endpoint
  BY <1>1, <1>4 DEF Endpoint
<1> HIDE DEF s
<1>7. Sends(q, S) /\ q.out = <<>> /\ q.msg \in Msg
  BY <1>1, <1>3, AlikeSends DEF Alike
<1>8. Sends(s, S) /\ s.out = <<>>
  BY <1>5, <1>7, AlikeSends DEF Alike
<1>9. Sent(q, SendPayloadFrame(q), S)
  <2>1. q.queue \in Seq(Msg)
    BY <1>4 DEF Endpoint
  <2> QED BY <1>4, <1>7, <2>1, FrameIsSent, SentFrame
<1>10. Sent(s, StartMessage(s), S)
  BY <1>6, <1>8, StartMessageSent
<1>11. Sent(p, SendPayloadFrame(q), S)
  BY <1>3, <1>9, AlikeSends
<1>12. Sent(p, StartMessage(s), S)
  BY <1>3, <1>5, <1>10, AlikeSends
<1> QED BY <1>2, <1>11, <1>12, GotNakSent

LEMMA SendLoopSent ==
    ASSUME NEW S \in Seq(Msg), NEW p \in Endpoint, Sends(p, S), p.out = <<>>
    PROVE  Sent(p, SendLoop(p), S)
<1>1. p.queue \in Seq(Msg)
  BY DEF Endpoint
<1>2. Sent(p, p, S)
  BY <1>1, SentStays
<1> QED BY <1>2, StartMessageSent DEF SendLoop

-----------------------------------------------------------------------------
(* What a handler does to the sender, and what it writes.                   *)
Stepped(p, q, S) ==
    /\ Sends(q, S)
    /\ p.msg = None \/ Precedes(S, p.msg, q.msg)
    /\ q.out \in Seq(Frame)
    /\ \A i \in 1..Len(q.out) : IsPayload(q.out[i]) => q.out[i].msg = q.msg /\ Precedes(S, q.msg, q.msg)

LEMMA CurrentIsSubmitted ==
    ASSUME NEW S \in Seq(Msg), NEW p \in Endpoint, Sends(p, S), p.msg # None
    PROVE  Precedes(S, p.msg, p.msg)
<1> DEFINE k == Len(S) - Len(p.queue)
<1>1. Len(p.queue) \in Nat /\ Len(S) \in Nat /\ Len(p.queue) < Len(S) /\ S[k] = p.msg
  BY DEF Sends, Queued, Endpoint
<1>2. k \in 1..Len(S)
  BY <1>1
<1> HIDE DEF k
<1> QED BY <1>1, <1>2, PrecedesSelf

LEMMA SentSteps ==
    ASSUME NEW S \in Seq(Msg), NEW p, NEW q \in Endpoint, Sent(p, q, S)
    PROVE  Stepped(p, q, S)
<1>1. CASE q.out = <<>>
  <2>1. q.out \in Seq(Frame) /\ Len(q.out) = 0
    BY <1>1, EmptySeq
  <2> QED BY <2>1 DEF Sent, Stepped
<1>2. CASE q.out = <<q.sent>> /\ q.sent \in Frame
  <2>1. q.out \in Seq(Frame) /\ Len(q.out) = 1 /\ q.out[1] = q.sent
    BY <1>2
  <2>2. q.sent # None
    BY <1>2, NoneAssumption
  <2>3. q.sent.msg = q.msg /\ q.msg # None
    BY <2>2 DEF Sent, Sends
  <2>4. Precedes(S, q.msg, q.msg)
    BY <2>3, CurrentIsSubmitted DEF Sent
  <2>5. \A i \in 1..Len(q.out) : q.out[i].msg = q.msg
    BY <2>1, <2>3
  <2> QED BY <2>1, <2>4, <2>5 DEF Sent, Stepped
<1> QED BY <1>1, <1>2 DEF Sent

LEMMA ConfirmSteps ==
    ASSUME NEW S \in Seq(Msg), NEW p, NEW q \in Endpoint, Stepped(p, q, S), NEW c \in Frame, ~IsPayload(c)
    PROVE  Stepped(p, SendConfirmFrame(q, c), S)
<1> DEFINE o == Append(q.out, c)
           r == [q EXCEPT !.out = o]
<1>1. q.out \in Seq(Frame) /\ o \in Seq(Frame) /\ Len(o) = Len(q.out) + 1 /\ o[Len(q.out) + 1] = c
      /\ \A i \in 1..Len(q.out) : o[i] = q.out[i]
  <2>1. q.out \in Seq(Frame)
    BY DEF Endpoint
  <2> QED BY <2>1, AppendProperties
<1>2. \A i \in 1..Len(o) : i \in 1..Len(q.out) \/ i = Len(q.out) + 1
  BY <1>1
<1>3. SendConfirmFrame(q, c) = r
  BY DEF SendConfirmFrame
<1> HIDE DEF o
<1>4. r.queue = q.queue /\ r.msg = q.msg /\ r.sent = q.sent /\ r.out = o
  BY DEF Endpoint
<1> HIDE DEF r
<1>5. Sends(r, S)
  BY <1>4 DEF Stepped, Sends, Queued
<1>6. \A i \in 1..Len(o) : IsPayload(o[i]) => o[i].msg = r.msg /\ Precedes(S, r.msg, r.msg)
  BY <1>1, <1>2, <1>4 DEF Stepped
<1> QED BY <1>1, <1>3, <1>4, <1>5, <1>6 DEF Stepped

\* Nothing of the receiver matters to the sender.
LEMMA ReceiverSteps ==
    ASSUME NEW S \in Seq(Msg), NEW p, NEW q, Sends(p, S), q.queue = p.queue, q.msg = p.msg, q.sent = p.sent, q.out = p.out
    PROVE  /\ Sends(q, S)
           /\ \A r : Stepped(q, r, S) => Stepped(p, r, S)
           /\ \A r : Stepped(r, p, S) => Stepped(r, q, S)
BY DEF Stepped, Sends, Queued

LEMMA PushFields ==
    ASSUME NEW p \in Endpoint, NEW f \in Frame, IsPayload(f)
    PROVE  LET q == PushFrame(p, f) IN
           /\ q.queue = p.queue /\ q.msg = p.msg /\ q.sent = p.sent /\ q.out = p.out /\ q.sender = p.sender
           /\ q.popped = p.popped /\ q.needAck = p.needAck /\ q.completed = p.completed
           /\ IF f.i = 1
                THEN q.expected = Frames[f.msg] /\ q.pieces = <<<<f.msg, 1>>>>
                ELSE q.expected = p.expected /\ q.pieces = Append(p.pieces, <<f.msg, f.i>>)
<1>1. CASE f.i = 1
  <2> DEFINE pieces == <<<<f.msg, 1>>>>
             n == Frames[f.msg]
             q == [p EXCEPT !.expected = n, !.pieces = pieces]
  <2>1. PushFrame(p, f) = q
    BY <1>1 DEF PushFrame
  <2> HIDE DEF pieces, n
  <2>2. /\ q.queue = p.queue /\ q.msg = p.msg /\ q.sent = p.sent /\ q.out = p.out /\ q.sender = p.sender
        /\ q.popped = p.popped /\ q.needAck = p.needAck /\ q.completed = p.completed
        /\ q.expected = n /\ q.pieces = pieces
    BY DEF Endpoint
  <2> QED BY <1>1, <2>1, <2>2 DEF pieces, n
<1>2. CASE f.i # 1
  <2> DEFINE pieces == Append(p.pieces, <<f.msg, f.i>>)
             q == [p EXCEPT !.pieces = pieces]
  <2>1. PushFrame(p, f) = q
    BY <1>2 DEF PushFrame
  <2> HIDE DEF pieces
  <2>2. /\ q.queue = p.queue /\ q.msg = p.msg /\ q.sent = p.sent /\ q.out = p.out /\ q.sender = p.sender
        /\ q.popped = p.popped /\ q.needAck = p.needAck /\ q.completed = p.completed
        /\ q.expected = p.expected /\ q.pieces = pieces
    BY DEF Endpoint
  <2> QED BY <1>2, <2>1, <2>2 DEF pieces
<1> QED BY <1>1, <1>2

\* The sender leaves the pieces of the message being received alone.
LEMMA LoopKeepsPieces ==
    ASSUME NEW p \in Endpoint
    PROVE  SendLoop(p).pieces = p.pieces /\ SendLoop(p).expected = p.expected /\ SendLoop(p) \in Endpoint
<1> DEFINE q == [p EXCEPT !.msg = Head(p.queue), !.popped = 0, !.queue = Tail(p.queue)]
<1>1. CASE p.sender # "Idle" \/ p.queue = <<>>
  BY <1>1 DEF SendLoop, StartMessage
<1>2. CASE p.sender = "Idle" /\ p.queue # <<>>
  <2>1. SendLoop(p) = SendPayloadFrame(q)
    BY <1>2 DEF SendLoop, StartMessage
  <2>2. Head(p.queue) \in Msg /\ Tail(p.queue) \in Seq(Msg)
    BY <1>2, HeadTailProperties DEF Endpoint
  <2>3. q \in Endpoint /\ q.msg \in Msg /\ q.pieces = p.pieces /\ q.expected = p.expected
    BY <2>2 DEF Endpoint
  <2> HIDE DEF q
  <2>4. Ready(SendPayloadFrame(q))
    BY <2>3, SendPayloadFrameReady
  <2>5. SendPayloadFrame(q).pieces = q.pieces /\ SendPayloadFrame(q).expected = q.expected
    <3> DEFINE k == q.popped + 1
               mid == (q.mid + 1) % Modulus
               f == PayloadFrame(q.msg, k, mid)
               o == Append(q.out, f)
               r == [q EXCEPT !.popped = k, !.mid = mid, !.needAck = mid, !.sent = f,
                              !.sender = "WaitForAck", !.timer = TRUE, !.out = o]
    <3>1. SendPayloadFrame(q) = r
      BY DEF SendPayloadFrame
    <3> HIDE DEF k, mid, f, o
    <3>2. r.pieces = q.pieces /\ r.expected = q.expected
      BY <2>3 DEF Endpoint
    <3> QED BY <3>1, <3>2
  <2> QED BY <2>1, <2>3, <2>4, <2>5 DEF Ready
<1> QED BY <1>1, <1>2

LEMMA SendLoopSteps ==
    ASSUME NEW S \in Seq(Msg), NEW p, Ready(p), Sends(p, S), p.out = <<>>
    PROVE  Stepped(p, SendLoop(p), S) /\ SendLoop(p) \in Endpoint
<1>1. p \in Endpoint /\ SendLoop(p) \in Endpoint
  BY SendLoopReady DEF Ready
<1>2. Sent(p, SendLoop(p), S)
  BY <1>1, SendLoopSent
<1> QED BY <1>1, <1>2, SentSteps

LEMMA ConfirmationsNoPayload ==
    ASSUME NEW ack \in BOOLEAN, NEW mid \in 0..Modulus-1
    PROVE  Confirmation(ack, mid) \in Frame /\ ~IsPayload(Confirmation(ack, mid)) /\ Nak \in Frame /\ ~IsPayload(Nak)
BY FramesMade DEF Confirmation, Nak, IsPayload

LEMMA DigestSteps ==
    ASSUME NEW S \in Seq(Msg), NEW p, Ready(p), Sends(p, S), p.out = <<>>, NEW f \in Frame
    PROVE  /\ IsPayload(f) => Stepped(p, DigestPayload(p, f), S)
           /\ ~IsPayload(f) => Stepped(p, DigestConfirmation(p, f), S)
           /\ Stepped(p, DigestWrongCrc(p), S)
<1>1. p \in Endpoint
  BY DEF Ready
<1>2. ASSUME IsPayload(f) PROVE Stepped(p, DigestPayload(p, f), S)
  <2> DEFINE q == PushFrame(p, f)
             c == Confirmation(TRUE, f.mid)
  <2>1. Ready(q)
    BY <1>2, PushReady DEF IsPayload
  <2>2. q.queue = p.queue /\ q.msg = p.msg /\ q.sent = p.sent /\ q.out = p.out
    BY <1>1, <1>2, PushFields
  <2>3. c \in Frame /\ ~IsPayload(c)
    BY FrameFields, ConfirmationsNoPayload
  <2>4. DigestPayload(p, f) = SendConfirmFrame(SendLoop(q), c)
    BY DEF DigestPayload
  <2> HIDE DEF q, c
  <2>5. Sends(q, S) /\ q.out = <<>>
    BY <2>2, ReceiverSteps
  <2>6. Stepped(q, SendLoop(q), S) /\ SendLoop(q) \in Endpoint
    BY <2>1, <2>5, SendLoopSteps
  <2>7. Stepped(p, SendLoop(q), S)
    BY <2>2, <2>6, ReceiverSteps
  <2> QED BY <2>3, <2>4, <2>6, <2>7, ConfirmSteps
<1>3. ASSUME ~IsPayload(f) PROVE Stepped(p, DigestConfirmation(p, f), S)
  <2>1. DigestConfirmation(p, f) \in Endpoint
    <3>1. f.type = "confirmation"
      BY <1>3 DEF Frame, IsPayload
    <3> QED BY <3>1, DigestReady DEF Ready
  <2>2. CASE p.sender # "WaitForAck"
    <3>1. p.sender = "Idle"
      BY <1>1, <2>2 DEF Endpoint
    <3>2. [p EXCEPT !.sender = "Idle"] = p
      BY <1>1, <3>1 DEF Endpoint
    <3> QED BY <2>2, <3>2, SendLoopSteps DEF DigestConfirmation
  <2>3. CASE p.sender = "WaitForAck"
    <3>1. CanResend(p)
      BY <2>3 DEF Ready
    <3>2. DigestConfirmation(p, f) \in {GotAck(p, f.mid), GotNak(p)}
      BY <2>3 DEF DigestConfirmation
    <3>3. Sent(p, DigestConfirmation(p, f), S)
      BY <3>1, <3>2, GotAckSent, GotNakSent
    <3> QED BY <2>1, <3>3, SentSteps
  <2> QED BY <2>2, <2>3
<1>4. Stepped(p, DigestWrongCrc(p), S)
  <2> DEFINE q == SendConfirmFrame(SendLoop(p), Nak)
  <2>1. Stepped(p, q, S)
    <3>1. 0 \in 0..Modulus-1
      BY LinkAssumption
    <3>2. Nak \in Frame /\ ~IsPayload(Nak)
      BY <3>1, ConfirmationsNoPayload
    <3> QED BY <3>2, SendLoopSteps, ConfirmSteps
  <2>2. q \in Endpoint
    BY SendLoopReady, ConfirmReady, FramesMade DEF Ready
  <2> HIDE DEF q
  <2> DEFINE r == [q EXCEPT !.expected = 0, !.pieces = <<>>]
  <2>3. r.queue = q.queue /\ r.msg = q.msg /\ r.sent = q.sent /\ r.out = q.out
    BY <2>2 DEF Endpoint
  <2>4. DigestWrongCrc(p) = r
    BY DEF DigestWrongCrc, DiscardMessage, q
  <2> HIDE DEF r
  <2> QED BY <2>1, <2>3, <2>4, ReceiverSteps DEF Stepped
<1> QED BY <1>2, <1>3, <1>4

-----------------------------------------------------------------------------
(* The message that is emitted is the one of the frame that was digested.   *)
LEMMA PushEndpoint ==
    ASSUME NEW p \in Endpoint, NEW f \in Frame, IsPayload(f)
    PROVE  PushFrame(p, f) \in Endpoint
<1>1. f.msg \in Msg /\ f.i \in Nat /\ Frames \in [Msg -> Nat \ {0}] /\ p.pieces \in Seq(Msg \X Nat)
  BY FrameFields, LinkAssumption DEF IsPayload, Endpoint
<1> DEFINE one == <<<<f.msg, 1>>>>
           more == Append(p.pieces, <<f.msg, f.i>>)
           n == Frames[f.msg]
           q == PushFrame(p, f)
<1>2. one \in Seq(Msg \X Nat) /\ more \in Seq(Msg \X Nat) /\ n \in Nat
  BY <1>1
<1>3. q = [p EXCEPT !.expected = n, !.pieces = one] \/ q = [p EXCEPT !.pieces = more]
  BY DEF PushFrame
<1> HIDE DEF one, more, n, q
<1>4. ASSUME q = [p EXCEPT !.expected = n, !.pieces = one] PROVE q \in Endpoint
  BY <1>2, <1>4 DEF Endpoint
<1>5. ASSUME q = [p EXCEPT !.pieces = more] PROVE q \in Endpoint
  BY <1>2, <1>5 DEF Endpoint
<1>6. q \in Endpoint
  BY <1>3, <1>4, <1>5
<1> QED BY <1>6 DEF q

LEMMA DigestPieces ==
    ASSUME NEW p \in Endpoint, NEW f \in Frame, IsPayload(f)
    PROVE  LET r == DigestPayload(p, f) IN
           r.pieces = PushFrame(p, f).pieces /\ r.expected = PushFrame(p, f).expected
<1> DEFINE q == PushFrame(p, f)
           c == Confirmation(TRUE, f.mid)
<1>1. q \in Endpoint
  BY PushEndpoint
<1>2. DigestPayload(p, f) = SendConfirmFrame(SendLoop(q), c)
  BY DEF DigestPayload
<1> HIDE DEF q, c
<1>3. SendLoop(q).pieces = q.pieces /\ SendLoop(q).expected = q.expected /\ SendLoop(q) \in Endpoint
  BY <1>1, LoopKeepsPieces
<1> DEFINE s == SendLoop(q)
           o == Append(s.out, c)
<1>4. SendConfirmFrame(s, c) = [s EXCEPT !.out = o]
  BY DEF SendConfirmFrame
<1> HIDE DEF s, o
<1>5. [s EXCEPT !.out = o].pieces = s.pieces /\ [s EXCEPT !.out = o].expected = s.expected
  BY <1>3 DEF Endpoint, s
<1> QED BY <1>2, <1>3, <1>4, <1>5 DEF q, s

LEMMA EmittedIsDigested ==
    ASSUME NEW p \in Endpoint, NEW f \in Frame, IsPayload(f), NEW m \in Emitted(DigestPayload(p, f))
    PROVE  m = f.msg /\ m \in Msg
<1> DEFINE q == PushFrame(p, f)
           r == DigestPayload(p, f)
           n == Frames[m]
<1>1. m \in Msg /\ r.pieces = [k \in 1..n |-> <<m, k>>]
  BY DEF Emitted
<1>2. n \in Nat \ {0}
  BY <1>1, LinkAssumption
<1>3. q.pieces \in Seq(Msg \X Nat) /\ q.pieces # <<>> /\ q.pieces[Len(q.pieces)][1] = f.msg
  <2>1. p.pieces \in Seq(Msg \X Nat) /\ <<f.msg, f.i>> \in Msg \X Nat /\ <<f.msg, 1>> \in Msg \X Nat
    BY FrameFields DEF Endpoint, IsPayload
  <2>2. CASE f.i = 1
    <3>1. q.pieces = <<<<f.msg, 1>>>>
      BY <2>2, PushFields
    <3> HIDE DEF q
    <3> QED BY <2>1, <3>1
  <2>3. CASE f.i # 1
    <3>1. q.pieces = Append(p.pieces, <<f.msg, f.i>>)
      BY <2>3, PushFields
    <3> HIDE DEF q
    <3>2. /\ q.pieces \in Seq(Msg \X Nat) /\ q.pieces # <<>> /\ Len(q.pieces) = Len(p.pieces) + 1
          /\ q.pieces[Len(p.pieces) + 1] = <<f.msg, f.i>>
      BY <2>1, <3>1, AppendProperties
    <3> QED BY <3>2
  <2> QED BY <2>2, <2>3
<1>4. r.pieces = q.pieces
  BY DigestPieces
<1> HIDE DEF q, r, n
<1> DEFINE k == Len(q.pieces)
<1>5. k \in 1..n
  <2>1. DOMAIN q.pieces = 1..k /\ k \in Nat /\ k # 0
    BY <1>3, EmptySeq
  <2>2. DOMAIN q.pieces = 1..n
    BY <1>1, <1>4
  <2> HIDE DEF k
  <2>3. k \in 1..k
    BY <2>1
  <2>4. 1..k = 1..n
    BY <2>1, <2>2
  <2> QED BY <2>3, <2>4
<1> HIDE DEF k
<1>6. q.pieces[k] = <<m, k>>
  BY <1>1, <1>4, <1>5
<1>7. q.pieces[k][1] = m
  BY <1>6
<1>8. q.pieces[k][1] = f.msg
  BY <1>3 DEF k
<1> QED BY <1>1, <1>7, <1>8

-----------------------------------------------------------------------------
(* Steps.  A step of end e changes its own sender, what its peer has still  *)
(* to read and what it has itself to read.                                  *)

LEMMA WiresAre == ASSUME LinkInv PROVE \A e \in End : Wire(e) \in Seq(Frame)
BY WireIsSeq DEF LinkInv, TypeOK, Wire

LEMMA OwnSide ==
    ASSUME LinkInv, NEW e \in End, NEW S \in Seq(Msg), Once(S), NEW p, Ready(p),
           Passed(S, delivered[e], Wire(Peer(e)), ep[e].msg),
           NEW in \in [End -> Seq(Frame)], in[Peer(e)] = line[Peer(e)], Become(e, p, in),
           Stepped(ep[e], p, S),
           rx'[Peer(e)] = rx[Peer(e)], delivered'[e] = delivered[e], submitted'[e] = S
    PROVE  /\ Ordered(submitted[e], ep[e], delivered[e], Wire(Peer(e)))'
           /\ ep'[Peer(e)] = ep[Peer(e)] /\ line'[e] = in[e]
           /\ Wire(Peer(e))' = Wire(Peer(e)) \o p.out
<1> DEFINE r == Peer(e)
           q == [p EXCEPT !.out = <<>>]
           W == Wire(r)
<1>1. r \in End /\ r # e
  BY TwoEnds
<1>2. /\ ep \in [End -> Endpoint] /\ line \in [End -> Seq(Frame)] /\ rx \in [End -> Frame \cup {None}]
      /\ delivered \in [End -> Seq(Msg)]
  BY DEF LinkInv, TypeOK
<1>3. p \in Endpoint /\ p.out \in Seq(Frame)
  BY DEF Ready, Endpoint
<1>4. ep'[e] = q /\ ep'[r] = ep[r] /\ line'[e] = in[e] /\ line'[r] = line[r] \o p.out
  BY <1>1, <1>2 DEF Become
<1>5. q.queue = p.queue /\ q.msg = p.msg /\ q.sent = p.sent /\ q.out = <<>>
  BY <1>3 DEF Endpoint
<1> HIDE DEF r, q
<1>6. Sends(q, S)
  BY <1>5 DEF Stepped, Sends, Queued
<1>7. W \in Seq(Frame)
  BY <1>1, WiresAre
<1>8. Passed(S, delivered[e], W, p.msg)
  BY <1>2, <1>7, PassedMove DEF Stepped, r
<1>9. Passed(S, delivered[e], W \o p.out, p.msg)
  BY <1>2, <1>3, <1>7, <1>8, PassedWrite DEF Stepped
<1>10. WireOf(rx[r], line[r] \o p.out) = W \o p.out
  <2>1. rx[r] \in Frame \cup {None} /\ line[r] \in Seq(Frame) /\ p.out \in Seq(Frame)
    BY <1>1, <1>2, <1>3
  <2>2. WireOf(rx[r], line[r] \o p.out) = WireOf(rx[r], line[r]) \o p.out
    BY <2>1, WireWritten
  <2> QED BY <2>2 DEF Wire
<1>11. Wire(r)' = W \o p.out
  BY <1>4, <1>10 DEF Wire, r
<1> HIDE DEF W
<1>12. Ordered(S, q, delivered[e], W \o p.out)
  BY <1>5, <1>6, <1>9 DEF Ordered
<1>13. Ordered(submitted[e], ep[e], delivered[e], Wire(Peer(e)))'
  BY <1>4, <1>11, <1>12 DEF r
<1> QED BY <1>4, <1>11, <1>13 DEF r, W

LEMMA BothSides ==
    ASSUME LinkInv, OrderInv, NEW e \in End,
           Ordered(submitted[e], ep[e], delivered[e], Wire(Peer(e)))',
           ep'[Peer(e)] = ep[Peer(e)], submitted'[Peer(e)] = submitted[Peer(e)],
           Passed(submitted[Peer(e)], delivered'[Peer(e)], Wire(e)', ep[Peer(e)].msg)
    PROVE  OrderInv'
<1> DEFINE r == Peer(e)
<1>1. r \in End /\ Peer(r) = e /\ End = {e, r}
  BY TwoEnds
<1>2. Ordered(submitted[r], ep[r], delivered[r], Wire(e))
  BY <1>1 DEF OrderInv
<1>3. Ordered(submitted[r], ep[r], delivered'[r], Wire(e)')
  BY <1>2 DEF Ordered
<1>4. Ordered(submitted'[r], ep'[r], delivered'[r], Wire(Peer(r))')
  BY <1>1, <1>3
<1> HIDE DEF r
<1>5. \A x \in End : x = e \/ x = r
  BY <1>1
<1>6. ASSUME NEW x \in End PROVE Ordered(submitted[x], ep[x], delivered[x], Wire(Peer(x)))'
  <2>1. CASE x = e
    BY <2>1
  <2>2. CASE x = r
    BY <1>4, <2>2
  <2> QED BY <1>5, <2>1, <2>2
<1> QED BY <1>6 DEF OrderInv

\* The steps in which a frame or a part of one is read or lost, and nothing is
\* written.
LEMMA ReadKeeps ==
    ASSUME LinkInv, OrderInv, NEW e \in End,
           UNCHANGED <<ep, submitted, delivered>>,
           rx'[Peer(e)] = rx[Peer(e)], line'[Peer(e)] = line[Peer(e)],
           Passed(submitted[Peer(e)], delivered[Peer(e)], Wire(e)', ep[Peer(e)].msg)
    PROVE  OrderInv'
<1>1. Wire(Peer(e))' = Wire(Peer(e))
  BY DEF Wire
<1>2. Ordered(submitted[e], ep[e], delivered[e], Wire(Peer(e)))
  BY DEF OrderInv
<1>3. Ordered(submitted[e], ep[e], delivered[e], Wire(Peer(e)))'
  BY <1>1, <1>2
<1> QED BY <1>3, BothSides

LEMMA OrderInit == Init => OrderInv
<1> SUFFICES ASSUME Init, NEW e \in End PROVE Ordered(submitted[e], ep[e], delivered[e], Wire(Peer(e)))
  BY DEF OrderInv
<1>1. PICK g \in [End -> Garbage] : ep = [x \in End |-> NewEndpoint(g[x][1], g[x][2])]
  BY DEF Init
<1>2. ep[e].queue = <<>> /\ ep[e].msg = None /\ ep[e].sent = None /\ ep[e].out = <<>>
  BY <1>1 DEF NewEndpoint
<1>3. Peer(e) \in End
  BY TwoEnds
<1>4. submitted[e] = <<>> /\ delivered[e] = <<>> /\ Wire(Peer(e)) = <<>>
  BY <1>3 DEF Init, Wire, WireOf
<1>5. \A i \in 1..Len(<<>>) : FALSE
  BY EmptySeq
<1>6. Once(<<>>) /\ Queued(ep[e], <<>>)
  BY <1>2, <1>5 DEF Once, Queued
<1>7. Passed(<<>>, <<>>, <<>>, None)
  BY <1>5 DEF Passed
<1> QED BY <1>2, <1>4, <1>6, <1>7 DEF Ordered, Sends

\* digestFrame, whichever way the frame was ended.
LEMMA DigestOrder ==
    ASSUME LinkInv, OrderInv, NEW e \in End, NEW f \in Frame, rx[e] = f, NEW in \in [End -> Seq(Frame)],
           in[Peer(e)] = line[Peer(e)], in[e] = line[e] \/ (line[e] # <<>> /\ in[e] = Tail(line[e])),
           Digest(e, f, in)
    PROVE  OrderInv'
<1> DEFINE r == Peer(e)
           S == submitted[e]
           V == Wire(e)
<1>1. r \in End /\ r # e /\ Peer(r) = e /\ Ready(ep[e])
  BY TwoEnds DEF LinkInv
<1>2. /\ line \in [End -> Seq(Frame)] /\ rx \in [End -> Frame \cup {None}]
      /\ submitted \in [End -> Seq(Msg)] /\ delivered \in [End -> Seq(Msg)]
      /\ S \in Seq(Msg) /\ submitted[r] \in Seq(Msg) /\ delivered[r] \in Seq(Msg) /\ line[e] \in Seq(Frame)
  BY <1>1 DEF LinkInv, TypeOK
<1>3. Ordered(S, ep[e], delivered[e], Wire(r)) /\ Passed(submitted[r], delivered[r], V, ep[r].msg)
  BY <1>1 DEF OrderInv, Ordered
<1>4. V \in Seq(Frame) /\ V # <<>> /\ V[1] = f /\ Tail(V) = line[e]
  BY <1>2, WireReading DEF Wire
<1>5. rx'[e] = None /\ rx'[r] = rx[r] /\ submitted' = submitted
  BY <1>1, <1>2 DEF Digest
<1>6. PICK p : Ready(p) /\ Stepped(ep[e], p, S) /\ Become(e, p, in)
  <2>1. Sends(ep[e], S) /\ ep[e].out = <<>>
    BY <1>3 DEF Ordered
  <2>2. CASE f.good /\ f.type = "payload" /\ Become(e, DigestPayload(ep[e], f), in)
    BY <1>1, <1>2, <2>1, <2>2, DigestReady, DigestSteps DEF IsPayload
  <2>3. CASE f.good /\ f.type = "confirmation" /\ Become(e, DigestConfirmation(ep[e], f), in)
    BY <1>1, <1>2, <2>1, <2>3, DigestReady, DigestSteps DEF IsPayload
  <2>4. CASE Become(e, DigestWrongCrc(ep[e]), in)
    BY <1>1, <1>2, <2>1, <2>4, DigestReady, DigestSteps
  <2>5. CASE Become(e, ep[e], in)
    <3>1. ep[e] \in Endpoint /\ ep[e].queue \in Seq(Msg)
      BY <1>1 DEF Ready, Endpoint
    <3>2. Sent(ep[e], ep[e], S)
      BY <1>2, <2>1, <3>1, SentStays
    <3>3. Stepped(ep[e], ep[e], S)
      BY <1>2, <3>1, <3>2, SentSteps
    <3> QED BY <1>1, <2>5, <3>3
  <2> QED BY <2>2, <2>3, <2>4, <2>5 DEF Digest
<1>7. delivered'[e] = delivered[e] /\ delivered'[r] \in Seq(Msg) /\ Passed(submitted[r], delivered'[r], line[e], ep[r].msg)
  <2>1. Passed(submitted[r], delivered[r], line[e], ep[r].msg)
    BY <1>2, <1>3, <1>4, PassedTail
  <2>2. CASE UNCHANGED delivered
    BY <1>2, <2>1, <2>2
  <2>3. CASE ~UNCHANGED delivered
    <3> DEFINE q == DigestPayload(ep[e], f)
               m == CHOOSE n \in Emitted(q) : TRUE
    <3>1. /\ Emitted(q) # {} /\ delivered' = [delivered EXCEPT ![r] = Append(@, m)]
          /\ IsPayload(f)
      BY <2>3 DEF Digest, IsPayload
    <3>2. m \in Emitted(q)
      BY <3>1
    <3>3. m = f.msg /\ m \in Msg
      BY <1>1, <3>1, <3>2, EmittedIsDigested DEF Ready
    <3> HIDE DEF m
    <3>4. delivered'[r] = Append(delivered[r], m) /\ delivered'[e] = delivered[e]
      BY <1>1, <1>2, <3>1
    <3>5. Passed(submitted[r], Append(delivered[r], m), line[e], ep[r].msg)
      BY <1>2, <1>3, <1>4, <3>1, <3>3, PassedGive
    <3>6. Append(delivered[r], m) \in Seq(Msg)
      BY <1>2, <3>3
    <3> QED BY <3>4, <3>5, <3>6
  <2> QED BY <2>2, <2>3
<1>8. Passed(submitted[r], delivered'[r], in[e], ep[r].msg)
  BY <1>2, <1>7, PassedTail
<1>9. /\ Ordered(submitted[e], ep[e], delivered[e], Wire(Peer(e)))'
      /\ ep'[r] = ep[r] /\ line'[e] = in[e]
  <2>1. Once(S) /\ Passed(S, delivered[e], Wire(Peer(e)), ep[e].msg)
    BY <1>3 DEF Ordered
  <2> QED BY <1>2, <1>5, <1>6, <1>7, <2>1, OwnSide
<1>10. Wire(e)' = in[e]
  BY <1>5, <1>9 DEF Wire, WireOf
<1>11. Passed(submitted[r], delivered'[r], Wire(e)', ep[r].msg)
  BY <1>8, <1>10
<1>12. submitted'[r] = submitted[r]
  BY <1>5
<1> QED BY <1>9, <1>11, <1>12, BothSides

\* What a step of e writes without reading anything.
LEMMA WriteOrder ==
    ASSUME LinkInv, OrderInv, NEW e \in End, NEW p, Ready(p), Become(e, p, line),
           Stepped(ep[e], p, submitted[e]), UNCHANGED <<rx, submitted, delivered>>
    PROVE  OrderInv'
<1> DEFINE r == Peer(e)
<1>1. r \in End /\ Peer(r) = e
  BY TwoEnds
<1>2. line \in [End -> Seq(Frame)] /\ submitted[e] \in Seq(Msg)
  BY DEF LinkInv, TypeOK
<1>3. Ordered(submitted[e], ep[e], delivered[e], Wire(r)) /\ Passed(submitted[r], delivered[r], Wire(e), ep[r].msg)
  BY <1>1 DEF OrderInv, Ordered
<1>4. /\ Ordered(submitted[e], ep[e], delivered[e], Wire(Peer(e)))'
      /\ ep'[r] = ep[r] /\ line'[e] = line[e]
  BY <1>2, <1>3, OwnSide DEF Ordered
<1>5. Wire(e)' = Wire(e)
  BY <1>4 DEF Wire
<1> QED BY <1>3, <1>4, <1>5, BothSides

LEMMA SendMessageOrder ==
    ASSUME LinkInv, OrderInv, NEW m \in Msg, SendMessage(m)
    PROVE  OrderInv'
<1> DEFINE e == From[m]
           r == Peer(e)
           S == Append(submitted[e], m)
           queue == Append(ep[e].queue, m)
           p == [ep[e] EXCEPT !.queue = queue]
<1>1. e \in End /\ r \in End /\ Peer(r) = e /\ r # e
  BY LinkAssumption, TwoEnds
<1>2. /\ line \in [End -> Seq(Frame)] /\ submitted \in [End -> Seq(Msg)] /\ submitted[e] \in Seq(Msg)
      /\ delivered \in [End -> Seq(Msg)] /\ delivered[e] \in Seq(Msg)
      /\ Ready(ep[e]) /\ ep[e].queue \in Seq(Msg) /\ ep[e] \in Endpoint
  BY <1>1 DEF LinkInv, TypeOK, Ready, Endpoint
<1>3. Ordered(submitted[e], ep[e], delivered[e], Wire(r)) /\ Passed(submitted[r], delivered[r], Wire(e), ep[r].msg)
  BY <1>1 DEF OrderInv, Ordered
<1>4. /\ Become(e, SendLoop(p), line) /\ \A k \in 1..Len(submitted[e]) : submitted[e][k] # m
      /\ submitted'[e] = S /\ submitted'[r] = submitted[r] /\ UNCHANGED <<rx, fto, listening, delivered, faults, early>>
  BY <1>1, <1>2 DEF SendMessage
<1>5. /\ S \in Seq(Msg) /\ Len(S) = Len(submitted[e]) + 1 /\ S[Len(submitted[e]) + 1] = m
      /\ \A i \in 1..Len(submitted[e]) : S[i] = submitted[e][i]
  BY <1>2, AppendProperties
<1>6. /\ queue \in Seq(Msg) /\ Len(queue) = Len(ep[e].queue) + 1 /\ queue[Len(ep[e].queue) + 1] = m
      /\ \A i \in 1..Len(ep[e].queue) : queue[i] = ep[e].queue[i]
  BY <1>2, AppendProperties
<1>7. Len(submitted[e]) \in Nat /\ Len(ep[e].queue) \in Nat
  BY <1>2
<1> HIDE DEF S, queue, e, r
<1>8. /\ p.queue = queue /\ p.msg = ep[e].msg /\ p.sent = ep[e].sent /\ p.out = ep[e].out
      /\ p.sender = ep[e].sender /\ p.timer = ep[e].timer /\ p \in Endpoint
  BY <1>2, <1>6 DEF Endpoint
<1> HIDE DEF p
<1>9. Ready(p)
  BY <1>2, <1>8 DEF Ready, CanResend
<1>10. Once(S)
  <2> SUFFICES ASSUME NEW i \in 1..Len(S), NEW j \in 1..Len(S), S[i] = S[j] PROVE i = j
    BY DEF Once
  <2>1. \A k \in 1..Len(S) : k \in 1..Len(submitted[e]) \/ k = Len(submitted[e]) + 1
    BY <1>5, <1>7
  <2>2. Once(submitted[e])
    BY <1>3 DEF Ordered
  <2> QED BY <1>4, <1>5, <2>1, <2>2 DEF Once
<1>11. Sends(p, S)
  <2> DEFINE n == Len(submitted[e])
             k == Len(ep[e].queue)
             T == submitted[e]
             q == ep[e]
  <2>1. /\ k <= n /\ \A i \in 1..k : q.queue[i] = T[n - k + i]
        /\ q.msg = None => k = n
        /\ q.msg # None => k < n /\ T[n - k] = q.msg
        /\ q.sent # None => IsPayload(q.sent) /\ q.sent.msg = q.msg /\ q.msg # None
    BY <1>3 DEF Ordered, Sends, Queued
  <2>2. /\ Len(S) = n + 1 /\ S[n + 1] = m /\ \A i \in 1..n : S[i] = T[i]
        /\ Len(queue) = k + 1 /\ queue[k + 1] = m /\ \A i \in 1..k : queue[i] = q.queue[i]
        /\ n \in Nat /\ k \in Nat
    BY <1>5, <1>6, <1>7
  <2>3. p.msg = q.msg /\ p.sent = q.sent /\ p.queue = queue
    BY <1>8
  <2> HIDE DEF n, k, T, q
  <2>4. Len(S) - Len(queue) = n - k
    BY <2>2
  <2>5. ASSUME NEW i \in 1..Len(queue) PROVE queue[i] = S[(n - k) + i]
    <3>1. CASE i = k + 1
      <4>1. (n - k) + i = n + 1
        BY <2>2, <3>1
      <4> QED BY <2>2, <3>1, <4>1
    <3>2. CASE i # k + 1
      <4>1. i \in 1..k /\ (n - k) + i \in 1..n
        BY <2>1, <2>2, <3>2
      <4> QED BY <2>1, <2>2, <4>1
    <3> QED BY <3>1, <3>2
  <2>6. q.msg # None => S[n - k] = q.msg
    <3> SUFFICES ASSUME q.msg # None PROVE S[n - k] = q.msg
      OBVIOUS
    <3>1. n - k \in 1..n
      BY <2>1, <2>2
    <3> QED BY <2>1, <2>2, <3>1
  <2>7. Len(queue) <= Len(S) /\ (q.msg = None => Len(queue) = Len(S)) /\ (q.msg # None => Len(queue) < Len(S))
    BY <2>1, <2>2
  <2>8. Queued(p, S)
    BY <2>3, <2>4, <2>5, <2>6, <2>7 DEF Queued
  <2> QED BY <2>1, <2>3, <2>8 DEF Sends
<1>12. p.out = <<>>
  BY <1>3, <1>8 DEF Ordered
<1>13. Stepped(p, SendLoop(p), S) /\ Ready(SendLoop(p))
  BY <1>5, <1>9, <1>11, <1>12, SendLoopSteps, SendLoopReady
<1>14. Stepped(ep[e], SendLoop(p), S)
  BY <1>8, <1>13 DEF Stepped
<1>15. Passed(S, delivered[e], Wire(r), ep[e].msg)
  <2>1. Wire(r) \in Seq(Frame)
    BY <1>1, WiresAre
  <2> QED BY <1>2, <1>3, <2>1, PassedSubmit DEF Ordered, S
<1>16. /\ Ordered(submitted[e], ep[e], delivered[e], Wire(Peer(e)))'
       /\ ep'[r] = ep[r] /\ line'[e] = line[e]
  <2>1. r = Peer(e)
    BY DEF r
  <2>2. rx'[Peer(e)] = rx[Peer(e)] /\ delivered'[e] = delivered[e]
    BY <1>4
  <2>3. Passed(S, delivered[e], Wire(Peer(e)), ep[e].msg)
    BY <1>15, <2>1
  <2>4. Become(e, SendLoop(p), line) /\ submitted'[e] = S
    BY <1>4
  <2> DEFINE q == SendLoop(p)
  <2>5. Ready(q) /\ Become(e, q, line) /\ Stepped(ep[e], q, S)
    BY <1>13, <1>14, <2>4
  <2> HIDE DEF q
  <2>6. /\ Ordered(submitted[e], ep[e], delivered[e], Wire(Peer(e)))'
        /\ ep'[Peer(e)] = ep[Peer(e)] /\ line'[e] = line[e]
    BY <1>1, <1>2, <1>5, <1>10, <2>2, <2>3, <2>4, <2>5, OwnSide
  <2> QED BY <2>1, <2>6
<1>17. Wire(e)' = Wire(e)
  BY <1>4, <1>16 DEF Wire
<1>18. Passed(submitted[r], delivered'[r], Wire(e)', ep[r].msg)
  BY <1>3, <1>4, <1>17
<1> QED BY <1>1, <1>4, <1>16, <1>18, BothSides DEF r

LEMMA TimeoutOrder ==
    ASSUME LinkInv, OrderInv, NEW e \in End, ConfirmationTimeout(e)
    PROVE  OrderInv'
<1> DEFINE S == submitted[e]
           n == ep[e].timeouts + 1
           p == [ep[e] EXCEPT !.timeouts = n]
           q == [ep[e] EXCEPT !.timeouts = 0]
<1>1. Ready(ep[e]) /\ S \in Seq(Msg) /\ ep[e] \in Endpoint /\ ep[e].queue \in Seq(Msg)
  BY DEF LinkInv, TypeOK, Ready, Endpoint
<1>2. Sends(ep[e], S) /\ ep[e].out = <<>>
  BY DEF OrderInv, Ordered
<1>3. CanResend(ep[e]) /\ n \in Int /\ 0 \in Int
  BY <1>1, SMTT(20) DEF ConfirmationTimeout, Ready, Endpoint
<1>4. Become(e, ResendPayloadFrame(p), line) \/ Become(e, GiveUp(q), line)
  BY DEF ConfirmationTimeout
<1>5. UNCHANGED <<rx, submitted, delivered>>
  BY DEF ConfirmationTimeout
<1> HIDE DEF n
<1>6. Alike(ep[e], p) /\ Alike(ep[e], q)
  BY <1>1, <1>3, ChangesAlike
<1>7. CanResend(p) /\ CanResend(q)
  BY <1>1, <1>3, CountersSet DEF CanResend
<1> HIDE DEF p, q
<1>8. Sends(p, S) /\ p.out = <<>> /\ Sends(q, S) /\ q.out = <<>>
  BY <1>2, <1>6, AlikeSends DEF Alike
<1>9. CASE Become(e, ResendPayloadFrame(p), line)
  <2> DEFINE r == ResendPayloadFrame(p)
  <2>1. Ready(r) /\ Sent(p, r, S) /\ Become(e, r, line)
    BY <1>1, <1>7, <1>8, <1>9, ResendReady, ResendSent
  <2> HIDE DEF r
  <2>2. Sent(ep[e], r, S)
    BY <1>6, <2>1, AlikeSends
  <2>3. Stepped(ep[e], r, S)
    BY <1>1, <2>1, <2>2, SentSteps DEF Ready
  <2> QED BY <1>5, <2>1, <2>3, WriteOrder
<1>10. CASE Become(e, GiveUp(q), line)
  <2> DEFINE r == GiveUp(q)
  <2>1. Ready(r) /\ Alike(q, r) /\ Become(e, r, line)
    BY <1>7, <1>10, GiveUpReady, GiveUpAlike
  <2> HIDE DEF r
  <2>2. Sent(ep[e], ep[e], S)
    BY <1>1, <1>2, SentStays
  <2>3. Sent(ep[e], q, S)
    BY <1>6, <2>2, AlikeSends
  <2>4. Sent(ep[e], r, S)
    BY <2>1, <2>3, AlikeSends
  <2>5. Stepped(ep[e], r, S)
    BY <1>1, <2>1, <2>4, SentSteps DEF Ready
  <2> QED BY <1>5, <2>1, <2>5, WriteOrder
<1> QED BY <1>4, <1>9, <1>10

LEMMA FtoOrder ==
    ASSUME LinkInv, OrderInv, NEW e \in End, FtoTimeout(e)
    PROVE  OrderInv'
<1> DEFINE S == submitted[e]
           p == SendConfirmFrame(ep[e], Nak)
<1>1. Ready(ep[e]) /\ S \in Seq(Msg) /\ ep[e] \in Endpoint /\ ep[e].queue \in Seq(Msg)
  BY DEF LinkInv, TypeOK, Ready, Endpoint
<1>2. Sends(ep[e], S) /\ ep[e].out = <<>>
  BY DEF OrderInv, Ordered
<1>3. Sent(ep[e], ep[e], S)
  BY <1>1, <1>2, SentStays
<1>4. Stepped(ep[e], ep[e], S)
  BY <1>1, <1>3, SentSteps
<1>5. 0 \in 0..Modulus-1
  BY LinkAssumption
<1>6. Nak \in Frame /\ ~IsPayload(Nak)
  BY <1>5, ConfirmationsNoPayload
<1>7. Stepped(ep[e], p, S) /\ Ready(p)
  BY <1>1, <1>4, <1>6, ConfirmSteps, ConfirmReady
<1>8. Become(e, p, line) /\ UNCHANGED <<rx, submitted, delivered>>
  BY DEF FtoTimeout
<1> HIDE DEF p
<1> QED BY <1>7, <1>8, WriteOrder

LEMMA LoseStartOrder ==
    ASSUME LinkInv, OrderInv, NEW e \in End, LoseStart(e)
    PROVE  OrderInv'
<1> DEFINE r == Peer(e)
           S == submitted[e]
           burst == [k \in 1..NfBurst |-> Nak]
           p == [ep[e] EXCEPT !.out = burst]
           in == [line EXCEPT ![e] = Tail(@)]
<1>1. Ready(ep[e]) /\ S \in Seq(Msg) /\ ep[e] \in Endpoint /\ line \in [End -> Seq(Frame)]
  BY DEF LinkInv, TypeOK, Ready
<1>2. r \in End /\ r # e /\ Peer(r) = e
  BY TwoEnds
<1>3. Ordered(S, ep[e], delivered[e], Wire(r)) /\ Passed(submitted[r], delivered[r], Wire(e), ep[r].msg)
  BY <1>2 DEF OrderInv, Ordered
<1>4. 0 \in 0..Modulus-1
  BY LinkAssumption
<1>5. Nak \in Frame /\ ~IsPayload(Nak)
  BY <1>4, ConfirmationsNoPayload
<1>6. burst \in Seq(Frame) /\ Len(burst) = NfBurst /\ \A i \in 1..Len(burst) : ~IsPayload(burst[i])
  <2>1. burst \in [1..NfBurst -> Frame] /\ NfBurst \in Nat /\ \A i \in 1..NfBurst : burst[i] = Nak
    BY <1>5, LinkAssumption
  <2>2. burst \in Seq(Frame)
    <3> HIDE DEF burst
    <3> QED BY <2>1, SeqDef
  <2>3. Len(burst) = NfBurst
    <3> HIDE DEF burst
    <3> QED BY <2>1, <2>2
  <2> QED BY <1>5, <2>1, <2>2, <2>3
<1>7. Become(e, p, in) /\ UNCHANGED <<rx, submitted, delivered>> /\ rx[e] = None /\ line[e] # <<>>
  BY DEF LoseStart
<1> HIDE DEF burst
<1>8. <<>> \in Seq(Msg \X Nat) /\ 0 \in Nat
  BY EmptySeq
<1>9. Ready(p)
  BY <1>1, <1>6, <1>8, OtherFieldsReady
<1>10. p.queue = ep[e].queue /\ p.msg = ep[e].msg /\ p.sent = ep[e].sent /\ p.out = burst
  BY <1>1 DEF Endpoint
<1> HIDE DEF p
<1>11. Stepped(ep[e], p, S)
  <2>1. Sends(p, S)
    BY <1>3, <1>10 DEF Ordered, Sends, Queued
  <2>2. p.msg = None \/ Precedes(S, p.msg, p.msg)
    BY <1>1, <1>3, <1>10, CurrentIsSubmitted DEF Ordered
  <2> QED BY <1>6, <1>10, <2>1, <2>2 DEF Stepped
<1>12. in \in [End -> Seq(Frame)] /\ in[r] = line[r] /\ in[e] = Tail(line[e])
  BY <1>1, <1>2, <1>7, TailsAreLines
<1> HIDE DEF in
<1>13. /\ Ordered(submitted[e], ep[e], delivered[e], Wire(Peer(e)))'
       /\ ep'[Peer(e)] = ep[Peer(e)] /\ line'[e] = in[e]
  BY <1>1, <1>3, <1>7, <1>9, <1>11, <1>12, OwnSide DEF Ordered
<1>14. Wire(e)' = Tail(Wire(e)) /\ Wire(e) # <<>>
  BY <1>7, <1>12, <1>13 DEF Wire, WireOf
<1>15. Passed(submitted[r], delivered[r], Tail(Wire(e)), ep[r].msg)
  BY <1>2, <1>3, <1>14, PassedTail, WiresAre DEF LinkInv, TypeOK
<1>16. Passed(submitted[Peer(e)], delivered'[Peer(e)], Wire(e)', ep[Peer(e)].msg) /\ submitted'[Peer(e)] = submitted[Peer(e)]
  BY <1>7, <1>14, <1>15
<1> QED BY <1>13, <1>16, BothSides

LEMMA CorruptOrder ==
    ASSUME LinkInv, OrderInv, NEW e \in End, CorruptFrame(e) \/ LoseStop(e)
    PROVE  OrderInv'
<1> DEFINE r == Peer(e)
           f == rx[e]
<1>1. r \in End /\ r # e /\ Peer(r) = e
  BY TwoEnds
<1>2. /\ f \in Frame /\ line[e] \in Seq(Frame) /\ rx \in [End -> Frame \cup {None}] /\ line \in [End -> Seq(Frame)]
      /\ submitted[r] \in Seq(Msg) /\ delivered[r] \in Seq(Msg)
  BY <1>1 DEF LinkInv, TypeOK, CorruptFrame, LoseStop
<1>3. Passed(submitted[r], delivered[r], Wire(e), ep[r].msg)
  BY <1>1 DEF OrderInv, Ordered
<1>4. PICK g \in Frame : rx' = [rx EXCEPT ![e] = g] /\ g.type = f.type /\ (IsPayload(f) => g.msg = f.msg)
  <2>1. CASE CorruptFrame(e)
    <3> DEFINE g == [f EXCEPT !.good = FALSE]
    <3>1. g \in Frame
      BY <1>2, FrameFields
    <3>2. g.type = f.type /\ (IsPayload(f) => g.msg = f.msg)
      BY <1>2 DEF Frame, IsPayload
    <3>3. rx' = [rx EXCEPT ![e] = g]
      BY <2>1 DEF CorruptFrame
    <3> QED BY <3>1, <3>2, <3>3
  <2>2. CASE LoseStop(e)
    <3> DEFINE g == [f EXCEPT !.good = FALSE, !.stop = FALSE]
    <3>1. g \in Frame
      BY <1>2, FrameFields
    <3>2. g.type = f.type /\ (IsPayload(f) => g.msg = f.msg)
      BY <1>2 DEF Frame, IsPayload
    <3>3. rx' = [rx EXCEPT ![e] = g]
      BY <1>2, <2>2 DEF LoseStop
    <3> QED BY <3>1, <3>2, <3>3
  <2> QED BY <2>1, <2>2
<1>5. UNCHANGED <<ep, line, submitted, delivered>> /\ rx'[r] = rx[r] /\ rx'[e] = g
  BY <1>1, <1>2, <1>4 DEF CorruptFrame, LoseStop
<1> DEFINE W == WireOf(f, line[e])
           V == WireOf(g, line[e])
<1>6. /\ W \in Seq(Frame) /\ Len(W) = Len(line[e]) + 1 /\ W[1] = f
      /\ \A i \in 1..Len(line[e]) : W[i + 1] = line[e][i]
  BY <1>2, WireReading
<1>7. /\ V \in Seq(Frame) /\ Len(V) = Len(line[e]) + 1 /\ V[1] = g
      /\ \A i \in 1..Len(line[e]) : V[i + 1] = line[e][i]
  BY <1>2, <1>4, WireReading
<1>8. Wire(e) = W /\ Wire(e)' = V
  BY <1>5 DEF Wire
<1> HIDE DEF W, V, f
<1>9. ASSUME NEW i \in 1..Len(W) PROVE V[i].type = W[i].type /\ (IsPayload(W[i]) => V[i].msg = W[i].msg)
  <2>1. CASE i = 1
    BY <1>4, <1>6, <1>7, <2>1
  <2>2. CASE i # 1
    <3> DEFINE j == i - 1
    <3>1. j \in 1..Len(line[e]) /\ i = j + 1
      BY <1>2, <1>6, <2>2
    <3> HIDE DEF j
    <3>2. V[i] = W[i]
      BY <1>6, <1>7, <3>1
    <3> QED BY <3>2
  <2> QED BY <2>1, <2>2
<1>10. Len(V) = Len(W)
  BY <1>6, <1>7
<1>11. Passed(submitted[r], delivered[r], V, ep[r].msg)
  BY <1>2, <1>3, <1>6, <1>7, <1>8, <1>9, <1>10, PassedLike
<1> QED BY <1>5, <1>8, <1>11, ReadKeeps

LEMMA LossOrder ==
    ASSUME LinkInv, OrderInv, NEW e \in End, StartFrame(e) \/ LoseFrame(e) \/ StopListening(e)
    PROVE  OrderInv'
<1> DEFINE r == Peer(e)
<1>1. r \in End /\ r # e /\ Peer(r) = e
  BY TwoEnds
<1>2. /\ line[e] \in Seq(Frame) /\ rx \in [End -> Frame \cup {None}] /\ line \in [End -> Seq(Frame)]
      /\ submitted[r] \in Seq(Msg) /\ delivered[r] \in Seq(Msg) /\ Wire(e) \in Seq(Frame)
  BY <1>1, WiresAre DEF LinkInv, TypeOK
<1>3. Passed(submitted[r], delivered[r], Wire(e), ep[r].msg)
  BY <1>1 DEF OrderInv, Ordered
<1>4. UNCHANGED <<ep, submitted, delivered>> /\ rx'[r] = rx[r] /\ line'[r] = line[r]
  BY <1>1, <1>2 DEF StartFrame, LoseFrame, StopListening
<1>5. Wire(e)' = Wire(e) \/ (Wire(e) # <<>> /\ Wire(e)' = Tail(Wire(e)))
  <2>1. CASE StartFrame(e)
    <3>1. rx[e] = None /\ rx'[e] = Head(line[e]) /\ line'[e] = Tail(line[e]) /\ line[e] # <<>>
      BY <1>2, <2>1 DEF StartFrame
    <3>2. WireOf(Head(line[e]), Tail(line[e])) = line[e]
      BY <1>2, <3>1, WireStarted
    <3>3. Wire(e)' = line[e]
      BY <3>1, <3>2 DEF Wire
    <3>4. Wire(e) = line[e]
      BY <3>1 DEF Wire, WireOf
    <3> QED BY <3>3, <3>4
  <2>2. CASE LoseFrame(e)
    <3>1. rx[e] = None /\ rx'[e] = None /\ line'[e] = Tail(line[e]) /\ line[e] # <<>>
      BY <1>2, <2>2 DEF LoseFrame
    <3> QED BY <3>1 DEF Wire, WireOf
  <2>3. CASE StopListening(e)
    <3>1. rx'[e] = None /\ line'[e] = line[e]
      BY <1>2, <2>3 DEF StopListening
    <3>2. CASE rx[e] = None
      BY <3>1, <3>2 DEF Wire, WireOf
    <3>3. CASE rx[e] # None
      <4>1. rx[e] \in Frame
        BY <1>2, <3>3
      <4>2. Wire(e) # <<>> /\ Tail(Wire(e)) = line[e]
        BY <1>2, <4>1, WireReading DEF Wire
      <4> QED BY <3>1, <4>2 DEF Wire, WireOf
    <3> QED BY <3>2, <3>3
  <2> QED BY <2>1, <2>2, <2>3
<1>6. Passed(submitted[r], delivered[r], Wire(e)', ep[r].msg)
  BY <1>2, <1>3, <1>5, PassedTail
<1> QED BY <1>4, <1>6, ReadKeeps

LEMMA OrderStep == LinkInv /\ OrderInv /\ [Next]_vars => OrderInv'
<1> SUFFICES ASSUME LinkInv, OrderInv, [Next]_vars PROVE OrderInv'
  OBVIOUS
<1>1. ASSUME NEW e \in End, StopFrame(e) PROVE OrderInv'
  <2>1. rx[e] \in Frame /\ line \in [End -> Seq(Frame)] /\ Digest(e, rx[e], line)
    BY <1>1 DEF LinkInv, TypeOK, StopFrame
  <2> QED BY <2>1, DigestOrder
<1>2. ASSUME NEW e \in End, StopMergedFrame(e) PROVE OrderInv'
  <2> DEFINE in == [line EXCEPT ![e] = Tail(@)]
  <2>1. rx[e] \in Frame /\ line[e] # <<>> /\ Digest(e, rx[e], in) /\ line \in [End -> Seq(Frame)]
    BY <1>2 DEF LinkInv, TypeOK, StopMergedFrame
  <2>2. in \in [End -> Seq(Frame)]
    BY <2>1, TailsAreLines
  <2>3. in[Peer(e)] = line[Peer(e)] /\ in[e] = Tail(line[e])
    BY <2>1, TwoEnds
  <2> HIDE DEF in
  <2> QED BY <2>1, <2>2, <2>3, DigestOrder
<1>3. CASE UNCHANGED vars
  BY <1>3 DEF vars, OrderInv, Ordered, Wire
<1> QED
  BY <1>1, <1>2, <1>3, SendMessageOrder, TimeoutOrder, FtoOrder, LoseStartOrder, CorruptOrder, LossOrder DEF Next

-----------------------------------------------------------------------------
(* The line in order: every frame arrives whole and in time.                *)

NoneOf(W, t) == \A i \in 1..Len(W) : W[i].type # t

\* f is the only frame of type t on W.
Only(W, t, f) ==
    /\ f.type = t
    /\ \E j \in 1..Len(W) : W[j] = f /\ \A i \in 1..Len(W) : i # j => W[i].type # t

Clean(W) == \A i \in 1..Len(W) : W[i].good /\ W[i].stop

\* The receiver q has the first k frames of m.
Merging(q, m, k) ==
    k > 0 => q.expected = Frames[m] /\ q.pieces = [j \in 1..k |-> <<m, j>>]

Resting(p, S, d, W, V) ==
    /\ p.queue = <<>>
    /\ Len(d) = Len(S)
    /\ NoneOf(W, "payload")
    /\ NoneOf(V, "confirmation")

\* The frame that was sent is on its way, or its confirmation is.
Asked(p, S, d, W, V, q) ==
    /\ Len(d) = Len(S) - Len(p.queue) - 1
    /\ Only(W, "payload", p.sent)
    /\ NoneOf(V, "confirmation")
    /\ Merging(q, p.msg, p.popped - 1)

Answered(p, S, d, W, V, q) ==
    /\ Len(d) = Len(S) - Len(p.queue) - (IF p.popped = Frames[p.msg] THEN 0 ELSE 1)
    /\ NoneOf(W, "payload")
    /\ Only(V, "confirmation", Confirmation(TRUE, p.needAck))
    /\ Merging(q, p.msg, p.popped)

Given(p, S, d) ==
    /\ Len(d) <= Len(S)
    /\ \A i \in 1..Len(d) : d[i] = S[i]
    /\ \A m \in p.completed : \E i \in 1..Len(d) : d[i] = m

\* The sender p of S, of which d was delivered, and the receiver q, with W on
\* its way to q and V on its way to p.
InStep(p, S, d, W, V, q) ==
    /\ Given(p, S, d)
    /\ p.sender = "Idle" => Resting(p, S, d, W, V)
    /\ p.sender = "WaitForAck" =>
         /\ p.sent.i = p.popped /\ p.popped \in 1..Frames[p.msg]
         /\ p.needAck = p.sent.mid
         /\ Asked(p, S, d, W, V, q) \/ Answered(p, S, d, W, V, q)

CalmEnd(e) ==
    /\ listening[e]
    /\ fto[e] <=> rx[e] # None
    /\ Clean(Wire(e))
    /\ InStep(ep[e], submitted[e], delivered[e], Wire(Peer(e)), Wire(e), ep[Peer(e)])

CalmInv == faults + early = 0 => \A e \in End : CalmEnd(e)

-----------------------------------------------------------------------------
(* Frames that come and go.                                                 *)

LEMMA HeadGone ==
    ASSUME NEW W \in Seq(Frame), W # <<>>, NEW t
    PROVE  /\ Clean(W) => Clean(Tail(W)) /\ W[1].good /\ W[1].stop
           /\ NoneOf(W, t) => NoneOf(Tail(W), t) /\ W[1].type # t
           /\ \A f : Only(W, t, f) /\ W[1].type = t => W[1] = f /\ NoneOf(Tail(W), t)
           /\ \A f : Only(W, t, f) /\ W[1].type # t => Only(Tail(W), t, f)
<1> DEFINE T == Tail(W)
<1>1. T \in Seq(Frame) /\ Len(T) = Len(W) - 1 /\ \A i \in 1..Len(T) : T[i] = W[i + 1]
  BY HeadTailProperties
<1>2. Len(W) \in Nat /\ Len(T) \in Nat /\ 1 \in 1..Len(W)
  BY <1>1, EmptySeq
<1> HIDE DEF T
<1>3. \A i \in 1..Len(T) : i + 1 \in 1..Len(W) /\ i + 1 # 1 /\ T[i] = W[i + 1]
  BY <1>1, <1>2
<1>4. Clean(W) => Clean(T) /\ W[1].good /\ W[1].stop
  BY <1>2, <1>3 DEF Clean
<1>5. NoneOf(W, t) => NoneOf(T, t) /\ W[1].type # t
  BY <1>2, <1>3 DEF NoneOf
<1>6. ASSUME NEW f, Only(W, t, f), W[1].type = t PROVE W[1] = f /\ NoneOf(T, t)
  <2>1. PICK j \in 1..Len(W) : W[j] = f /\ \A i \in 1..Len(W) : i # j => W[i].type # t
    BY <1>6 DEF Only
  <2>2. j = 1
    BY <1>2, <1>6, <2>1
  <2> QED BY <1>3, <2>1, <2>2 DEF NoneOf
<1>7. ASSUME NEW f, Only(W, t, f), W[1].type # t PROVE Only(T, t, f)
  <2>1. PICK j \in 1..Len(W) : W[j] = f /\ \A i \in 1..Len(W) : i # j => W[i].type # t
    BY <1>7 DEF Only
  <2>2. f.type = t /\ j # 1
    BY <1>7, <2>1 DEF Only
  <2> DEFINE k == j - 1
  <2>3. k \in 1..Len(T) /\ j = k + 1
    BY <1>1, <1>2, <2>2
  <2> HIDE DEF k
  <2>4. T[k] = f
    BY <1>3, <2>1, <2>3
  <2>5. ASSUME NEW i \in 1..Len(T), i # k PROVE T[i].type # t
    <3>1. i + 1 # j
      BY <2>3, <2>5
    <3> QED BY <1>3, <2>1, <3>1
  <2> QED BY <2>2, <2>3, <2>4, <2>5 DEF Only
<1> QED BY <1>4, <1>5, <1>6, <1>7 DEF T

LEMMA FrameAdded ==
    ASSUME NEW W \in Seq(Frame), NEW x \in Frame, NEW t
    PROVE  /\ Clean(W) /\ x.good /\ x.stop => Clean(W \o <<x>>)
           /\ NoneOf(W, t) /\ x.type # t => NoneOf(W \o <<x>>, t)
           /\ NoneOf(W, t) /\ x.type = t => Only(W \o <<x>>, t, x)
           /\ \A f : Only(W, t, f) /\ x.type # t => Only(W \o <<x>>, t, f)
<1> DEFINE T == W \o <<x>>
<1>1. T = Append(W, x)
  BY AppendIsConcat
<1>2. Len(T) = Len(W) + 1 /\ T[Len(W) + 1] = x /\ \A i \in 1..Len(W) : T[i] = W[i]
  BY <1>1, AppendProperties
<1>3. Len(W) \in Nat
  OBVIOUS
<1> HIDE DEF T
<1> DEFINE n == Len(W)
<1>4. /\ \A i \in 1..Len(T) : i \in 1..n \/ i = n + 1
      /\ \A i \in 1..n : i \in 1..Len(T) /\ i # n + 1
      /\ n + 1 \in 1..Len(T)
  BY <1>2, <1>3
<1>5. T[n + 1] = x /\ \A i \in 1..n : T[i] = W[i]
  BY <1>2
<1>6. (Clean(W) <=> \A i \in 1..n : W[i].good /\ W[i].stop) /\ (NoneOf(W, t) <=> \A i \in 1..n : W[i].type # t)
  BY DEF Clean, NoneOf
<1>7. \A f : Only(W, t, f) <=> f.type = t /\ \E j \in 1..n : W[j] = f /\ \A i \in 1..n : i # j => W[i].type # t
  BY DEF Only
<1> HIDE DEF n
<1>8. Clean(W) /\ x.good /\ x.stop => Clean(T)
  BY <1>4, <1>5, <1>6 DEF Clean
<1>9. NoneOf(W, t) /\ x.type # t => NoneOf(T, t)
  BY <1>4, <1>5, <1>6 DEF NoneOf
<1>10. NoneOf(W, t) /\ x.type = t => Only(T, t, x)
  BY <1>4, <1>5, <1>6 DEF Only
<1>11. ASSUME NEW f, Only(W, t, f), x.type # t PROVE Only(T, t, f)
  <2>1. PICK j \in 1..n : W[j] = f /\ \A i \in 1..n : i # j => W[i].type # t
    BY <1>7, <1>11
  <2>2. j \in 1..Len(T) /\ T[j] = f /\ \A i \in 1..Len(T) : i # j => T[i].type # t
    BY <1>4, <1>5, <1>11, <2>1
  <2> QED BY <1>7, <1>11, <2>2 DEF Only
<1> QED BY <1>8, <1>9, <1>10, <1>11 DEF T

\* Nothing of type t was added or taken.
Kept(W, T, t) ==
    /\ NoneOf(W, t) => NoneOf(T, t)
    /\ \A f : Only(W, t, f) => Only(T, t, f)

\* The fields that matter for the other direction do not change.
LEMMA OtherDirection ==
    ASSUME NEW p, NEW S, NEW d, NEW W, NEW V, NEW q, InStep(p, S, d, W, V, q),
           NEW p2, NEW T, NEW U, NEW q2,
           Kept(W, T, "payload"), Kept(V, U, "confirmation"),
           p2.sender = p.sender, p2.msg = p.msg, p2.queue = p.queue, p2.sent = p.sent,
           p2.popped = p.popped, p2.needAck = p.needAck, p2.completed = p.completed,
           q2.pieces = q.pieces, q2.expected = q.expected
    PROVE  InStep(p2, S, d, T, U, q2)
<1>1. Given(p2, S, d)
  BY DEF InStep, Given
<1>2. p2.sender = "Idle" => Resting(p2, S, d, T, U)
  BY DEF InStep, Resting, Kept
<1>3. Asked(p, S, d, W, V, q) => Asked(p2, S, d, T, U, q2)
  BY DEF Asked, Kept, Merging
<1>4. Answered(p, S, d, W, V, q) => Answered(p2, S, d, T, U, q2)
  BY DEF Answered, Kept, Merging
<1>5. p2.sender = "WaitForAck" =>
         /\ p2.sent.i = p2.popped /\ p2.popped \in 1..Frames[p2.msg]
         /\ p2.needAck = p2.sent.mid
         /\ Asked(p2, S, d, T, U, q2) \/ Answered(p2, S, d, T, U, q2)
  BY <1>3, <1>4 DEF InStep
<1> QED BY <1>1, <1>2, <1>5 DEF InStep

-----------------------------------------------------------------------------
(* A payload frame is digested.                                             *)

LEMMA MergedIsSeq ==
    ASSUME NEW m \in Msg, NEW k \in Nat
    PROVE  [j \in 1..k |-> <<m, j>>] \in Seq(Msg \X Nat) /\ Len([j \in 1..k |-> <<m, j>>]) = k
<1> DEFINE s == [j \in 1..k |-> <<m, j>>]
<1>1. s \in [1..k -> Msg \X Nat]
  OBVIOUS
<1> HIDE DEF s
<1>2. s \in Seq(Msg \X Nat)
  BY <1>1, SeqDef
<1>3. Len(s) = k
  BY <1>1, <1>2
<1> QED BY <1>2, <1>3 DEF s

LEMMA PiecesPushed ==
    ASSUME NEW q \in Endpoint, NEW f \in Frame, IsPayload(f), NEW k \in Nat \ {0}, f.i = k, Merging(q, f.msg, k - 1)
    PROVE  PushFrame(q, f).expected = Frames[f.msg] /\ PushFrame(q, f).pieces = [j \in 1..k |-> <<f.msg, j>>]
<1> DEFINE m == f.msg
           T == [j \in 1..k |-> <<m, j>>]
<1>1. m \in Msg
  BY FrameFields DEF IsPayload
<1>2. T \in Seq(Msg \X Nat) /\ Len(T) = k /\ \A j \in 1..k : T[j] = <<m, j>>
  BY <1>1, MergedIsSeq
<1> HIDE DEF T
<1>3. CASE k = 1
  <2> DEFINE one == <<<<m, 1>>>>
  <2>1. PushFrame(q, f).expected = Frames[m] /\ PushFrame(q, f).pieces = one
    BY <1>3, PushFields
  <2>2. one \in Seq(Msg \X Nat) /\ Len(one) = 1 /\ one[1] = <<m, 1>>
    BY <1>1
  <2> HIDE DEF one, m
  <2>3. one = T
    BY <1>2, <1>3, <2>2, SeqEqual
  <2> QED BY <2>1, <2>3 DEF T, m
<1>4. CASE k # 1
  <2> DEFINE U == [j \in 1..k-1 |-> <<m, j>>]
             more == Append(U, <<m, k>>)
  <2>1. q.expected = Frames[m] /\ q.pieces = U
    BY <1>4 DEF Merging
  <2>2. PushFrame(q, f).expected = q.expected /\ PushFrame(q, f).pieces = Append(q.pieces, <<m, k>>)
    BY <1>4, PushFields
  <2>3. U \in Seq(Msg \X Nat) /\ Len(U) = k - 1 /\ \A j \in 1..k-1 : U[j] = <<m, j>>
    <3>1. k - 1 \in Nat
      OBVIOUS
    <3> QED BY <1>1, <3>1, MergedIsSeq
  <2>4. PushFrame(q, f).pieces = more
    BY <2>1, <2>2
  <2> HIDE DEF U
  <2>5. /\ more \in Seq(Msg \X Nat) /\ Len(more) = (k - 1) + 1 /\ more[(k - 1) + 1] = <<m, k>>
        /\ \A j \in 1..k-1 : more[j] = U[j]
    <3>1. <<m, k>> \in Msg \X Nat
      BY <1>1
    <3> QED BY <2>3, <3>1, AppendProperties
  <2> HIDE DEF more, m
  <2>6. Len(more) = k /\ more[k] = <<m, k>> /\ \A j \in 1..k : j \in 1..k-1 \/ j = k
    BY <2>5
  <2>7. \A j \in 1..k : more[j] = T[j]
    BY <1>2, <2>3, <2>5, <2>6
  <2>8. more = T
    BY <1>2, <2>5, <2>6, <2>7, SeqEqual
  <2> QED BY <2>1, <2>2, <2>4, <2>8 DEF T, m
<1> QED BY <1>3, <1>4

\* The first payload frame on the way to q is the one that p has sent.
LEMMA FrameAwaited ==
    ASSUME NEW p \in Endpoint, NEW S, NEW d, NEW W \in Seq(Frame), NEW V, NEW q, InStep(p, S, d, W, V, q),
           W # <<>>, IsPayload(W[1])
    PROVE  p.sender = "WaitForAck" /\ Asked(p, S, d, W, V, q) /\ W[1] = p.sent /\ NoneOf(Tail(W), "payload")
<1>1. ~NoneOf(W, "payload")
  BY HeadGone DEF IsPayload
<1>2. p.sender = "WaitForAck"
  BY <1>1 DEF InStep, Resting, Endpoint
<1>3. Asked(p, S, d, W, V, q)
  BY <1>1, <1>2 DEF InStep, Answered
<1>4. Only(W, "payload", p.sent)
  BY <1>3 DEF Asked
<1> QED BY <1>2, <1>3, <1>4, HeadGone DEF IsPayload

\* The receiver q of p digests the first frame f on W and becomes q2, and d2
\* is delivered.
Taking(S, d, W, V, p, q, f, q2, d2) ==
    /\ S \in Seq(Msg) /\ d \in Seq(Msg) /\ W \in Seq(Frame) /\ V \in Seq(Frame)
    /\ p \in Endpoint /\ q \in Endpoint /\ f \in Frame
    /\ Sends(p, S) /\ InStep(p, S, d, W, V, q)
    /\ W # <<>> /\ IsPayload(W[1]) /\ f = W[1]
    /\ q2.pieces = PushFrame(q, f).pieces /\ q2.expected = PushFrame(q, f).expected
    /\ MessageFinished(q2) /\ Emitted(q2) # {} => d2 = Append(d, f.msg)
    /\ ~(MessageFinished(q2) /\ Emitted(q2) # {}) => d2 = d

IsNext(S, d, m) == Len(d) < Len(S) /\ m = S[Len(d) + 1]

LEMMA FrameTaken ==
    ASSUME NEW S, NEW d, NEW W, NEW V, NEW p, NEW q, NEW f, NEW q2, NEW d2,
           Taking(S, d, W, V, p, q, f, q2, d2)
    PROVE  /\ InStep(p, S, d2, Tail(W), V \o <<Confirmation(TRUE, f.mid)>>, q2)
           /\ d2 # d => IsNext(S, d, f.msg)
<1>0. /\ S \in Seq(Msg) /\ d \in Seq(Msg) /\ W \in Seq(Frame) /\ V \in Seq(Frame)
      /\ p \in Endpoint /\ q \in Endpoint /\ f \in Frame
      /\ Sends(p, S) /\ InStep(p, S, d, W, V, q)
      /\ W # <<>> /\ IsPayload(W[1]) /\ f = W[1]
      /\ q2.pieces = PushFrame(q, f).pieces /\ q2.expected = PushFrame(q, f).expected
      /\ MessageFinished(q2) /\ Emitted(q2) # {} => d2 = Append(d, f.msg)
      /\ ~(MessageFinished(q2) /\ Emitted(q2) # {}) => d2 = d
  BY DEF Taking
<1> USE <1>0
<1> DEFINE c == Confirmation(TRUE, f.mid)
           m == p.msg
           k == p.popped
           n == Len(S) - Len(p.queue)
<1>1. p.sender = "WaitForAck" /\ Asked(p, S, d, W, V, q) /\ f = p.sent /\ NoneOf(Tail(W), "payload")
  BY FrameAwaited
<1>2. p.sent # None
  BY <1>1, NoneAssumption
<1>3. f.msg = m /\ m # None /\ m \in Msg
  BY <1>1, <1>2 DEF Sends, Endpoint
<1>4. f.i = k /\ k \in 1..Frames[m] /\ p.needAck = f.mid /\ Frames[m] \in Nat \ {0} /\ k \in Nat \ {0}
  <2>1. Frames[m] \in Nat \ {0}
    BY <1>3, LinkAssumption
  <2>2. f.i = k /\ k \in 1..Frames[m] /\ p.needAck = f.mid
    BY <1>1 DEF InStep
  <2> HIDE DEF k
  <2> QED BY <2>1, <2>2
<1>5. Len(S) \in Nat /\ n \in 1..Len(S) /\ Len(d) \in Nat /\ Len(d) = n - 1 /\ S[n] = m
  <2>1. Len(S) \in Nat /\ Len(p.queue) \in Nat /\ Len(d) \in Nat
    <3>1. p.queue \in Seq(Msg)
      BY DEF Endpoint
    <3> QED BY <3>1, LenProperties
  <2>2. Len(p.queue) < Len(S) /\ S[n] = m
    BY <1>3 DEF Sends, Queued
  <2>3. Len(d) = n - 1
    BY <1>1 DEF Asked
  <2>4. n \in 1..Len(S)
    BY <2>1, <2>2
  <2> HIDE DEF n
  <2> QED BY <2>1, <2>2, <2>3, <2>4
<1>6. q2.expected = Frames[m] /\ q2.pieces = [j \in 1..k |-> <<m, j>>]
  <2>1. Merging(q, f.msg, k - 1)
    BY <1>1, <1>3 DEF Asked
  <2>2. PushFrame(q, f).expected = Frames[f.msg] /\ PushFrame(q, f).pieces = [j \in 1..k |-> <<f.msg, j>>]
    <3> HIDE DEF k, m
    <3>1. Merging(q, f.msg, k - 1) /\ k \in Nat \ {0} /\ f.i = k
      BY <1>4, <2>1 DEF k
    <3> QED BY <3>1, PiecesPushed
  <2> HIDE DEF k, m
  <2> QED BY <1>3, <2>2
<1>7. Merging(q2, m, k)
  BY <1>6 DEF Merging
<1>8. (MessageFinished(q2) /\ Emitted(q2) # {}) <=> k = Frames[m]
  <2>1. Len(q2.pieces) = k
    BY <1>3, <1>4, <1>6, MergedIsSeq
  <2>2. MessageFinished(q2) <=> k >= Frames[m]
    BY <1>6, <2>1 DEF MessageFinished
  <2>3. MessageFinished(q2) <=> k = Frames[m]
    BY <1>4, <2>2
  <2>4. k = Frames[m] => m \in Emitted(q2)
    BY <1>3, <1>6 DEF Emitted
  <2> QED BY <2>3, <2>4
<1>9. c \in Frame /\ c.type = "confirmation"
  BY FrameFields, FramesMade DEF Confirmation
<1>10. Only(V \o <<c>>, "confirmation", c)
  BY <1>1, <1>9, FrameAdded DEF Asked
<1>11. Given(p, S, d)
  BY DEF InStep
<1> HIDE DEF k, n, c, m
<1>12. CASE k = Frames[m]
  <2>1. d2 = Append(d, m)
    BY <1>3, <1>8, <1>12
  <2>2. Len(d2) = Len(d) + 1 /\ d2[Len(d) + 1] = m /\ \A i \in 1..Len(d) : d2[i] = d[i]
    BY <1>3, <2>1, AppendProperties
  <2>3. Len(d2) = n /\ d2[n] = S[n] /\ n \in 1..Len(S)
    BY <1>5, <2>2
  <2>4. \A i \in 1..Len(d2) : i \in 1..Len(d) \/ i = n
    BY <1>5, <2>2, <2>3
  <2>5. \A i \in 1..Len(d) : i \in 1..Len(d2)
    BY <1>5, <2>2
  <2>6. Given(p, S, d2)
    <3>1. Len(d2) <= Len(S)
      BY <2>3
    <3>2. \A i \in 1..Len(d2) : d2[i] = S[i]
      BY <1>11, <2>2, <2>3, <2>4 DEF Given
    <3>3. \A x \in p.completed : \E i \in 1..Len(d2) : d2[i] = x
      BY <1>11, <2>2, <2>5 DEF Given
    <3> QED BY <3>1, <3>2, <3>3 DEF Given
  <2>7. Answered(p, S, d2, Tail(W), V \o <<c>>, q2)
    <3>1. Len(d2) = Len(S) - Len(p.queue) - (IF p.popped = Frames[p.msg] THEN 0 ELSE 1)
      <4>1. p.popped = Frames[p.msg]
        BY <1>12 DEF k, m
      <4>2. Len(S) - Len(p.queue) - 0 = n
        BY <1>5, LenProperties DEF n, Endpoint
      <4> QED BY <2>3, <4>1, <4>2
    <3>2. c = Confirmation(TRUE, p.needAck)
      BY <1>4 DEF c
    <3> QED BY <1>1, <1>7, <1>10, <3>1, <3>2 DEF Answered, k, m
  <2>8. Len(d) < Len(S) /\ f.msg = S[Len(d) + 1]
    <3>1. Len(d) + 1 = n
      BY <1>5
    <3> QED BY <1>3, <1>5, <2>3, <3>1
  <2> QED BY <1>1, <1>4, <2>6, <2>7, <2>8 DEF InStep, IsNext, k, m, c
<1>13. CASE k # Frames[m]
  <2>1. d2 = d
    BY <1>8, <1>13
  <2>2. Answered(p, S, d2, Tail(W), V \o <<c>>, q2)
    <3>1. Len(d2) = Len(S) - Len(p.queue) - (IF p.popped = Frames[p.msg] THEN 0 ELSE 1)
      <4>1. p.popped # Frames[p.msg]
        BY <1>13 DEF k, m
      <4> QED BY <1>5, <2>1, <4>1 DEF n
    <3>2. c = Confirmation(TRUE, p.needAck)
      BY <1>4 DEF c
    <3> QED BY <1>1, <1>7, <1>10, <3>1, <3>2 DEF Answered, k, m
  <2> QED BY <1>1, <1>4, <1>11, <2>1, <2>2 DEF InStep, k, m, c
<1> QED BY <1>12, <1>13

-----------------------------------------------------------------------------
(* A confirmation is digested, a message is submitted.                      *)

\* What q has written: nothing or its frame.
Wrote(q) ==
    q.out = <<>> \/ (q.out = <<q.sent>> /\ q.sent \in Frame /\ IsPayload(q.sent) /\ q.sent.good /\ q.sent.stop)

\* The queue begins its first message.
LEMMA BegunInStep ==
    ASSUME NEW S \in Seq(Msg), NEW d \in Seq(Msg), NEW W \in Seq(Frame), NEW V,
           NEW p \in Endpoint, NEW q, NEW p2, MessageBegun(p, p2), p.queue # <<>>,
           Given(p, S, d), Len(d) = Len(S) - Len(p.queue), NoneOf(W, "payload"), NoneOf(V, "confirmation")
    PROVE  InStep(p2, S, d, W \o p2.out, V, q) /\ Wrote(p2)
<1>1. p.queue \in Seq(Msg)
  BY DEF Endpoint
<1>2. p2.msg \in Msg /\ Len(p2.queue) = Len(p.queue) - 1 /\ Len(p.queue) \in Nat \ {0}
  BY <1>1, HeadTailProperties, EmptySeq DEF MessageBegun
<1>3. /\ p2.sent \in Frame /\ p2.sent.type = "payload" /\ p2.sent.i = 1 /\ p2.sent.mid = p2.needAck
      /\ p2.sent.good /\ p2.sent.stop /\ p2.popped = 1 /\ p2.out = <<p2.sent>> /\ p2.sender = "WaitForAck"
      /\ p2.completed = p.completed
  BY DEF MessageBegun, PayloadFrame
<1>4. Only(W \o p2.out, "payload", p2.sent)
  BY <1>3, FrameAdded
<1>5. Len(d) = Len(S) - Len(p2.queue) - 1
  BY <1>2
<1>6. Merging(q, p2.msg, p2.popped - 1)
  BY <1>3 DEF Merging
<1>7. Frames[p2.msg] \in Nat \ {0}
  BY <1>2, LinkAssumption
<1>8. Given(p2, S, d)
  BY <1>3 DEF Given
<1>9. p2.popped \in 1..Frames[p2.msg]
  <2> DEFINE n == Frames[p2.msg]
  <2> HIDE DEF n
  <2>1. n \in Nat \ {0} /\ p2.popped = 1
    BY <1>3, <1>7 DEF n
  <2>2. p2.popped \in 1..n
    BY <2>1
  <2> QED BY <2>2 DEF n
<1>10. Asked(p2, S, d, W \o p2.out, V, q)
  BY <1>4, <1>5, <1>6 DEF Asked
<1>11. p2.sent.i = p2.popped /\ p2.needAck = p2.sent.mid /\ p2.sender = "WaitForAck"
  BY <1>3
<1>12. InStep(p2, S, d, W \o p2.out, V, q)
  BY <1>8, <1>9, <1>10, <1>11 DEF InStep
<1> QED BY <1>3, <1>12 DEF Wrote, IsPayload

LEMMA ConfirmationAwaited ==
    ASSUME NEW p \in Endpoint, NEW S, NEW d, NEW W, NEW V \in Seq(Frame), NEW q, InStep(p, S, d, W, V, q),
           V # <<>>, V[1].type = "confirmation"
    PROVE  /\ p.sender = "WaitForAck" /\ Answered(p, S, d, W, V, q)
           /\ V[1] = Confirmation(TRUE, p.needAck) /\ NoneOf(Tail(V), "confirmation")
<1>1. ~NoneOf(V, "confirmation")
  BY HeadGone
<1>2. p.sender = "WaitForAck"
  BY <1>1 DEF InStep, Resting, Endpoint
<1>3. Answered(p, S, d, W, V, q)
  BY <1>1, <1>2 DEF InStep, Asked
<1>4. Only(V, "confirmation", Confirmation(TRUE, p.needAck))
  BY <1>3 DEF Answered
<1> QED BY <1>2, <1>3, <1>4, HeadGone

LEMMA ConfirmationTaken ==
    ASSUME NEW S \in Seq(Msg), NEW d \in Seq(Msg), NEW W \in Seq(Frame), NEW V \in Seq(Frame),
           NEW p, Ready(p), NEW q, Sends(p, S), p.out = <<>>, InStep(p, S, d, W, V, q),
           V # <<>>, NEW f \in Frame, f = V[1], f.type = "confirmation",
           NEW p2, p2 = DigestConfirmation(p, f)
    PROVE  InStep(p2, S, d, W \o p2.out, Tail(V), q) /\ Wrote(p2)
<1> DEFINE m == p.msg
           k == p.popped
           n == Len(S) - Len(p.queue)
           r == [p EXCEPT !.timer = FALSE, !.errors = 0, !.timeouts = 0, !.sender = "Idle"]
           done == p.completed \cup {m}
           s == [r EXCEPT !.completed = done]
<1>1. p \in Endpoint /\ p.queue \in Seq(Msg)
  BY DEF Ready, Endpoint
<1>2. p.sender = "WaitForAck" /\ Answered(p, S, d, W, V, q) /\ f = Confirmation(TRUE, p.needAck) /\ NoneOf(Tail(V), "confirmation")
  BY <1>1, ConfirmationAwaited
<1>3. CanResend(p) /\ m \in Msg /\ done \in SUBSET Msg
  BY <1>1, <1>2 DEF Ready, CanResend, Endpoint
<1>4. f.ack /\ f.mid = p.needAck
  BY <1>2 DEF Confirmation
<1>5. r.completed = p.completed
  <2> HIDE DEF m, k, n, done
  <2>1. p \in Endpoint
    BY <1>1
  <2> QED BY <2>1 DEF Endpoint
<1>6. p2 = IF k < Frames[m] THEN SendPayloadFrame(r) ELSE StartMessage(s)
  <2>1. p2 = GotAck(p, p.needAck)
    BY <1>2, <1>4 DEF DigestConfirmation
  <2>2. [r EXCEPT !.completed = @ \cup {m}] = s
    BY <1>5
  <2> HIDE DEF s, r
  <2>3. p2 = IF k < Frames[m] THEN SendPayloadFrame(r) ELSE StartMessage([r EXCEPT !.completed = @ \cup {m}])
    BY <2>1 DEF GotAck, r
  <2> QED BY <2>2, <2>3
<1> HIDE DEF done
<1>7. /\ r \in Endpoint /\ r.queue = p.queue /\ r.msg = p.msg /\ r.popped = p.popped /\ r.out = <<>>
      /\ r.pieces = p.pieces /\ r.expected = p.expected
  <2> HIDE DEF m, k, n
  <2>1. p \in Endpoint /\ 0 \in Int
    BY <1>1
  <2>2. r \in Endpoint
    BY <2>1 DEF Endpoint
  <2> QED BY <2>1, <2>2 DEF Endpoint
<1> HIDE DEF r
<1>8. /\ s \in Endpoint /\ s.queue = p.queue /\ s.msg = p.msg /\ s.out = <<>> /\ s.completed = done /\ s.sender = r.sender
      /\ s.pieces = p.pieces /\ s.expected = p.expected
  BY <1>3, <1>7 DEF Endpoint
<1> HIDE DEF s
<1>9. W \in Seq(Frame) /\ W \o <<>> = W /\ NoneOf(W, "payload") /\ Given(p, S, d) /\ Merging(q, m, k)
  BY <1>2, ConcatEmptySeq DEF Answered, InStep
<1>10. Frames[m] \in Nat \ {0} /\ k \in 1..Frames[m] /\ k \in Nat
  <2>1. Frames[m] \in Nat \ {0}
    BY <1>3, LinkAssumption
  <2>2. k \in 1..Frames[m]
    BY <1>2 DEF InStep
  <2> HIDE DEF k
  <2> QED BY <2>1, <2>2
<1>11. CASE k < Frames[m]
  <2>1. FrameSent(r, p2)
    BY <1>3, <1>6, <1>7, <1>11, FrameIsSent
  <2>2. /\ p2.sent \in Frame /\ p2.sent.type = "payload" /\ p2.sent.i = k + 1 /\ p2.sent.mid = p2.needAck
        /\ p2.sent.good /\ p2.sent.stop /\ p2.popped = k + 1 /\ p2.out = <<p2.sent>> /\ p2.sender = "WaitForAck"
        /\ p2.completed = p.completed /\ p2.msg = m /\ p2.queue = p.queue
    BY <1>5, <1>7, <2>1 DEF FrameSent, PayloadFrame
  <2>3. Only(W \o p2.out, "payload", p2.sent)
    BY <1>9, <2>2, FrameAdded
  <2>4. Len(d) = Len(S) - Len(p2.queue) - 1
    <3>1. p.popped # Frames[p.msg]
      BY <1>10, <1>11
    <3> QED BY <1>2, <2>2, <3>1 DEF Answered
  <2>5. p2.popped \in 1..Frames[p2.msg] /\ p2.popped - 1 = k
    <3> HIDE DEF k, m
    <3> QED BY <1>10, <1>11, <2>2
  <2>6. Merging(q, p2.msg, p2.popped - 1)
    BY <1>9, <2>2, <2>5
  <2>7. Given(p2, S, d)
    BY <1>9, <2>2 DEF Given
  <2>8. Asked(p2, S, d, W \o p2.out, Tail(V), q)
    BY <1>2, <2>3, <2>4, <2>6 DEF Asked
  <2>9. InStep(p2, S, d, W \o p2.out, Tail(V), q)
    BY <2>2, <2>5, <2>7, <2>8 DEF InStep
  <2> QED BY <2>2, <2>9 DEF Wrote, IsPayload
<1>12. CASE ~(k < Frames[m])
  <2>1. p.popped = Frames[p.msg]
    BY <1>10, <1>12
  <2>2. Len(S) \in Nat /\ Len(p.queue) \in Nat /\ Len(d) = n
    <3>1. Len(d) = Len(S) - Len(p.queue) - 0
      BY <1>2, <2>1 DEF Answered
    <3> QED BY <1>1, <3>1, LenProperties
  <2>3. m = S[n] /\ n \in 1..Len(S)
    <3>1. m # None
      BY <1>3, LinkAssumption
    <3>2. Len(p.queue) < Len(S) /\ S[n] = m
      BY <3>1 DEF Sends, Queued
    <3> QED BY <2>2, <3>2
  <2>4. Given(s, S, d)
    <3>1. Len(d) \in 1..Len(d)
      BY <2>2, <2>3
    <3>2. d[Len(d)] = m
      BY <1>9, <2>2, <2>3, <3>1 DEF Given
    <3> QED BY <1>8, <1>9, <3>1, <3>2 DEF Given, done
  <2>5. p2 = StartMessage(s)
    BY <1>6, <1>12
  <2>6. CASE p.queue = <<>>
    <3>1. p2 = s
      BY <1>8, <2>5, <2>6 DEF StartMessage
    <3>2. s.sender = "Idle"
      BY <1>1, <1>8 DEF r, Endpoint
    <3>3. Len(d) = Len(S)
      <4>1. Len(p.queue) = 0
        BY <2>6, EmptySeq
      <4> QED BY <2>2, <4>1
    <3>4. Resting(s, S, d, W, Tail(V))
      BY <1>2, <1>8, <1>9, <2>6, <3>3 DEF Resting
    <3>5. InStep(s, S, d, W, Tail(V), q)
      BY <2>4, <3>2, <3>4 DEF InStep
    <3> QED BY <1>8, <1>9, <3>1, <3>5 DEF Wrote
  <2>7. CASE p.queue # <<>>
    <3>1. MessageBegun(s, p2)
      BY <1>8, <2>5, <2>7, MessageIsBegun
    <3> QED BY <1>2, <1>8, <1>9, <2>2, <2>4, <2>7, <3>1, BegunInStep
  <2> QED BY <2>6, <2>7
<1> QED BY <1>11, <1>12

Resumes(p, S, d, W, V, q) == InStep(p, S, d, W, V, q) /\ Wrote(p)

LEMMA MessageTaken ==
    ASSUME NEW S \in Seq(Msg), NEW d \in Seq(Msg), NEW W \in Seq(Frame), NEW V \in Seq(Frame),
           NEW p \in Endpoint, NEW q, p.out = <<>>, InStep(p, S, d, W, V, q), NEW m \in Msg,
           NEW p2, p2 = SendLoop([p EXCEPT !.queue = Append(@, m)])
    PROVE  Resumes(p2, Append(S, m), d, W \o p2.out, V, q)
<1> DEFINE T == Append(S, m)
           queue == Append(p.queue, m)
           r == [p EXCEPT !.queue = queue]
<1>1. p.queue \in Seq(Msg)
  BY DEF Endpoint
<1>2. T \in Seq(Msg) /\ Len(T) = Len(S) + 1 /\ \A i \in 1..Len(S) : T[i] = S[i]
  BY AppendProperties
<1>3. queue \in Seq(Msg) /\ queue # <<>> /\ Len(queue) = Len(p.queue) + 1
  <2> DEFINE old == p.queue
  <2> HIDE DEF old
  <2>1. old \in Seq(Msg)
    BY <1>1 DEF old
  <2>2. Append(old, m) \in Seq(Msg) /\ Append(old, m) # <<>> /\ Len(Append(old, m)) = Len(old) + 1
    BY <2>1, AppendProperties
  <2> QED BY <2>2 DEF old
<1>4. Len(S) \in Nat /\ Len(d) \in Nat /\ Len(p.queue) \in Nat
  BY <1>1
<1> HIDE DEF T, queue
<1>5. /\ r \in Endpoint /\ r.queue = queue /\ r.out = <<>> /\ r.sender = p.sender /\ r.msg = p.msg /\ r.sent = p.sent
      /\ r.popped = p.popped /\ r.needAck = p.needAck /\ r.completed = p.completed
  BY <1>3 DEF Endpoint
<1>6. p2 = SendLoop(r)
  BY DEF queue
<1> HIDE DEF r
<1>7. Given(r, T, d)
  <2>1. Given(p, S, d)
    BY DEF InStep
  <2>2. Len(d) <= Len(T) /\ \A i \in 1..Len(d) : i \in 1..Len(S)
    BY <1>2, <1>4, <2>1 DEF Given
  <2> QED BY <1>2, <1>5, <2>1, <2>2 DEF Given
<1>8. CASE p.sender = "Idle"
  <2>1. Resting(p, S, d, W, V)
    BY <1>8 DEF InStep
  <2>2. p2 = StartMessage(r)
    BY <1>5, <1>6, <1>8 DEF SendLoop
  <2>3. MessageBegun(r, p2)
    BY <1>3, <1>5, <2>2, MessageIsBegun
  <2>4. Len(d) = Len(T) - Len(r.queue)
    <3>1. Len(p.queue) = 0 /\ Len(d) = Len(S)
      BY <2>1, EmptySeq DEF Resting
    <3>2. Len(r.queue) = 1 /\ Len(T) = Len(S) + 1
      BY <1>2, <1>3, <1>5, <3>1
    <3> QED BY <1>4, <3>1, <3>2
  <2>5. InStep(p2, T, d, W \o p2.out, V, q) /\ Wrote(p2)
    BY <1>2, <1>3, <1>5, <1>7, <2>1, <2>3, <2>4, BegunInStep DEF Resting
  <2> QED BY <2>5 DEF Resumes, T
<1>9. CASE p.sender # "Idle"
  <2>1. p2 = r /\ p.sender = "WaitForAck"
    BY <1>5, <1>6, <1>9 DEF SendLoop, Endpoint
  <2>2. Len(T) - Len(r.queue) = Len(S) - Len(p.queue)
    <3> DEFINE a == Len(S)
               b == Len(p.queue)
    <3>1. Len(T) = a + 1 /\ Len(r.queue) = b + 1 /\ a \in Nat /\ b \in Nat
      BY <1>2, <1>3, <1>4, <1>5
    <3> HIDE DEF a, b
    <3>2. Len(T) - Len(r.queue) = a - b
      BY <3>1
    <3> QED BY <3>2 DEF a, b
  <2>3. Asked(p, S, d, W, V, q) => Asked(r, T, d, W, V, q)
    BY <1>5, <2>2 DEF Asked
  <2>4. Answered(p, S, d, W, V, q) => Answered(r, T, d, W, V, q)
    BY <1>5, <2>2 DEF Answered
  <2>5. InStep(r, T, d, W, V, q)
    BY <1>5, <1>7, <2>1, <2>3, <2>4 DEF InStep
  <2>6. W \o r.out = W
    BY <1>5, ConcatEmptySeq
  <2>7. InStep(p2, T, d, W \o p2.out, V, q)
    BY <2>1, <2>5, <2>6
  <2> QED BY <1>5, <2>1, <2>7 DEF Resumes, Wrote, T
<1> QED BY <1>8, <1>9

-----------------------------------------------------------------------------
(* Steps of a line in order.                                                *)

LEMMA KeptWhole == \A W, t : Kept(W, W, t)
BY DEF Kept

LEMMA KeptTail ==
    ASSUME NEW W \in Seq(Frame), W # <<>>, NEW t, W[1].type # t
    PROVE  Kept(W, Tail(W), t)
BY HeadGone DEF Kept

LEMMA KeptMore ==
    ASSUME NEW W \in Seq(Frame), NEW x \in Frame, NEW t, x.type # t
    PROVE  Kept(W, W \o <<x>>, t)
BY FrameAdded DEF Kept

LEMMA WroteKept ==
    ASSUME NEW W \in Seq(Frame), NEW q, Wrote(q)
    PROVE  /\ Clean(W) => Clean(W \o q.out)
           /\ Kept(W, W \o q.out, "confirmation")
           /\ q.out \in Seq(Frame)
<1>1. CASE q.out = <<>>
  <2>1. W \o q.out = W /\ q.out \in Seq(Frame)
    BY <1>1, ConcatEmptySeq, EmptySeq
  <2> QED BY <2>1, KeptWhole
<1>2. CASE q.out = <<q.sent>> /\ q.sent \in Frame /\ IsPayload(q.sent) /\ q.sent.good /\ q.sent.stop
  <2>1. q.sent.type # "confirmation"
    BY <1>2 DEF IsPayload
  <2> DEFINE x == q.sent
             o == <<x>>
  <2>2. x \in Frame /\ x.type # "confirmation" /\ x.good /\ x.stop /\ q.out = o
    BY <1>2, <2>1
  <2> HIDE DEF x
  <2>3. (Clean(W) => Clean(W \o o)) /\ Kept(W, W \o o, "confirmation") /\ o \in Seq(Frame)
    BY <2>2, FrameAdded, KeptMore
  <2> HIDE DEF o
  <2> QED BY <2>2, <2>3
<1> QED BY <1>1, <1>2 DEF Wrote

LEMMA WriteWire ==
    ASSUME LinkInv, NEW e \in End, NEW p \in Endpoint, NEW in \in [End -> Seq(Frame)],
           in[Peer(e)] = line[Peer(e)], Become(e, p, in), rx'[Peer(e)] = rx[Peer(e)]
    PROVE  /\ Wire(Peer(e))' = Wire(Peer(e)) \o p.out
           /\ ep'[e] = [p EXCEPT !.out = <<>>] /\ ep'[Peer(e)] = ep[Peer(e)] /\ line'[e] = in[e]
<1> DEFINE r == Peer(e)
           q == [p EXCEPT !.out = <<>>]
<1>1. r \in End /\ r # e
  BY TwoEnds
<1>2. ep \in [End -> Endpoint] /\ line \in [End -> Seq(Frame)] /\ rx \in [End -> Frame \cup {None}] /\ p.out \in Seq(Frame)
  BY DEF LinkInv, TypeOK, Endpoint
<1>3. ep'[e] = q /\ ep'[r] = ep[r] /\ line'[e] = in[e] /\ line'[r] = line[r] \o p.out
  BY <1>1, <1>2 DEF Become
<1> HIDE DEF r, q
<1>4. WireOf(rx[r], line[r] \o p.out) = Wire(r) \o p.out
  <2>1. rx[r] \in Frame \cup {None} /\ line[r] \in Seq(Frame) /\ p.out \in Seq(Frame)
    BY <1>1, <1>2
  <2>2. WireOf(rx[r], line[r] \o p.out) = WireOf(rx[r], line[r]) \o p.out
    BY <2>1, WireWritten
  <2> QED BY <2>2 DEF Wire
<1>5. Wire(r)' = Wire(r) \o p.out
  BY <1>3, <1>4 DEF Wire, r
<1> QED BY <1>3, <1>5 DEF r, q

\* What an end becomes differs only in what it had written.
LEMMA OutputGone ==
    ASSUME NEW p \in Endpoint
    PROVE  LET q == [p EXCEPT !.out = <<>>] IN
           /\ q.sender = p.sender /\ q.msg = p.msg /\ q.queue = p.queue /\ q.sent = p.sent
           /\ q.popped = p.popped /\ q.needAck = p.needAck /\ q.completed = p.completed
           /\ q.pieces = p.pieces /\ q.expected = p.expected
BY DEF Endpoint

\* The next message is given to the peer, or none.
GivesNext ==
    \/ UNCHANGED delivered
    \/ \E e \in End :
          /\ Len(delivered[e]) < Len(submitted[e])
          /\ delivered' = [delivered EXCEPT ![e] = Append(@, submitted[e][Len(delivered[e]) + 1])]

Calm == \A e \in End : CalmEnd(e)

LEMMA CalmEnds ==
    ASSUME NEW e \in End, CalmEnd(e)', CalmEnd(Peer(e))'
    PROVE  Calm'
<1>1. \A x \in End : x = e \/ x = Peer(e)
  BY TwoEnds
<1> DEFINE r == Peer(e)
<1>2. CalmEnd(r)' /\ r \in End
  BY TwoEnds
<1> HIDE DEF r
<1>3. \A x \in End : x = e \/ x = r
  BY <1>1 DEF r
<1>4. ASSUME NEW x \in End PROVE CalmEnd(x)'
  <2>1. CASE x = e
    BY <2>1
  <2>2. CASE x = r
    BY <1>2, <2>2
  <2> QED BY <1>3, <2>1, <2>2
<1> QED BY <1>4 DEF Calm

\* In order, the end that digests a payload frame does not send anything but
\* the confirmation.
OnlyConfirmed(p, f, q) ==
    /\ q \in Endpoint /\ q.out = <<Confirmation(TRUE, f.mid)>>
    /\ q.sender = p.sender /\ q.msg = p.msg /\ q.queue = p.queue /\ q.sent = p.sent
    /\ q.popped = p.popped /\ q.needAck = p.needAck /\ q.completed = p.completed
    /\ q.pieces = PushFrame(p, f).pieces /\ q.expected = PushFrame(p, f).expected

LEMMA OnlyConfirms ==
    ASSUME NEW p \in Endpoint, p.out = <<>>, p.sender = "Idle" => p.queue = <<>>,
           NEW f \in Frame, IsPayload(f), NEW q, q = DigestPayload(p, f)
    PROVE  OnlyConfirmed(p, f, q)
<1> DEFINE r == PushFrame(p, f)
           c == Confirmation(TRUE, f.mid)
<1>1. /\ r.queue = p.queue /\ r.msg = p.msg /\ r.sent = p.sent /\ r.out = p.out /\ r.sender = p.sender
      /\ r.popped = p.popped /\ r.needAck = p.needAck /\ r.completed = p.completed
  BY PushFields
<1>2. r \in Endpoint
  BY PushEndpoint
<1>3. c \in Frame
  BY FrameFields, FramesMade
<1>4. q = SendConfirmFrame(SendLoop(r), c)
  BY DEF DigestPayload
<1> HIDE DEF r, c
<1>5. SendLoop(r) = r
  BY <1>1 DEF SendLoop, StartMessage
<1> DEFINE o == Append(r.out, c)
<1>6. o = <<c>> /\ o \in Seq(Frame)
  BY <1>1, <1>3
<1>7. q = [r EXCEPT !.out = o]
  BY <1>4, <1>5 DEF SendConfirmFrame
<1> HIDE DEF o
<1>8. /\ q \in Endpoint /\ q.out = o
      /\ q.sender = r.sender /\ q.msg = r.msg /\ q.queue = r.queue /\ q.sent = r.sent
      /\ q.popped = r.popped /\ q.needAck = r.needAck /\ q.completed = r.completed
      /\ q.pieces = r.pieces /\ q.expected = r.expected
  BY <1>2, <1>6, <1>7 DEF Endpoint
<1> QED BY <1>1, <1>6, <1>8 DEF r, c, OnlyConfirmed

LEMMA PayloadCalm ==
    ASSUME LinkInv, OrderInv, Calm, NEW e \in End, StopFrame(e), rx[e].type = "payload"
    PROVE  Calm' /\ GivesNext
<1> DEFINE r == Peer(e)
           f == rx[e]
           W == Wire(e)
           V == Wire(r)
           c == Confirmation(TRUE, f.mid)
           q == DigestPayload(ep[e], f)
           q2 == [q EXCEPT !.out = <<>>]
           S == submitted[r]
           d == delivered[r]
           d2 == IF MessageFinished(q) /\ Emitted(q) # {} THEN Append(d, f.msg) ELSE d
<1>1. r \in End /\ r # e /\ Peer(r) = e
  BY TwoEnds
<1>2. /\ line \in [End -> Seq(Frame)] /\ rx \in [End -> Frame \cup {None}] /\ fto \in [End -> BOOLEAN]
      /\ submitted \in [End -> Seq(Msg)] /\ delivered \in [End -> Seq(Msg)]
      /\ S \in Seq(Msg) /\ d \in Seq(Msg) /\ line[e] \in Seq(Frame)
      /\ W \in Seq(Frame) /\ V \in Seq(Frame) /\ ep[e] \in Endpoint /\ ep[r] \in Endpoint
  BY <1>1, WiresAre DEF LinkInv, TypeOK
<1>3. f \in Frame /\ rx[e] # None /\ Digest(e, f, line) /\ IsPayload(f)
  BY <1>2 DEF StopFrame, IsPayload
<1>4. W # <<>> /\ W[1] = f /\ Tail(W) = line[e]
  BY <1>2, <1>3, WireReading DEF Wire
<1>5. CalmEnd(e) /\ CalmEnd(r) /\ f.good
  <2>1. CalmEnd(e) /\ CalmEnd(r)
    BY <1>1 DEF Calm
  <2> QED BY <1>2, <1>4, <2>1, HeadGone DEF CalmEnd
<1>6. /\ InStep(ep[e], submitted[e], delivered[e], V, W, ep[r]) /\ InStep(ep[r], S, d, W, V, ep[e])
      /\ Clean(W) /\ Clean(V)
  BY <1>1, <1>5 DEF CalmEnd
<1>7. ep[e].out = <<>> /\ Sends(ep[r], S)
  BY <1>1 DEF OrderInv, Ordered
<1>8. ep[e].sender = "Idle" => ep[e].queue = <<>>
  BY <1>6 DEF InStep, Resting
<1>9. /\ Become(e, q, line)
      /\ delivered' = IF MessageFinished(q) /\ Emitted(q) # {}
                        THEN [delivered EXCEPT ![r] = Append(@, CHOOSE m \in Emitted(q) : TRUE)]
                        ELSE delivered
      /\ rx' = [rx EXCEPT ![e] = None] /\ fto' = [fto EXCEPT ![e] = FALSE]
      /\ UNCHANGED <<listening, submitted>>
  BY <1>3, <1>5 DEF Digest, IsPayload
<1>10. delivered' = [delivered EXCEPT ![r] = d2]
  <2>1. CASE MessageFinished(q) /\ Emitted(q) # {}
    <3> DEFINE m == CHOOSE n \in Emitted(q) : TRUE
    <3>1. m \in Emitted(q)
      BY <2>1
    <3>2. m = f.msg
      BY <1>2, <1>3, <3>1, EmittedIsDigested
    <3>3. delivered' = [delivered EXCEPT ![r] = Append(d, m)]
      BY <1>9, <2>1
    <3> HIDE DEF m, q
    <3> QED BY <2>1, <3>2, <3>3
  <2>2. CASE ~(MessageFinished(q) /\ Emitted(q) # {})
    <3>1. delivered' = delivered /\ d2 = d
      BY <1>9, <2>2
    <3> HIDE DEF d2
    <3> QED BY <1>1, <1>2, <3>1
  <2> QED BY <2>1, <2>2
<1>11. /\ q \in Endpoint /\ q.out = <<c>>
       /\ q.sender = ep[e].sender /\ q.msg = ep[e].msg /\ q.queue = ep[e].queue /\ q.sent = ep[e].sent
       /\ q.popped = ep[e].popped /\ q.needAck = ep[e].needAck /\ q.completed = ep[e].completed
       /\ q.pieces = PushFrame(ep[e], f).pieces /\ q.expected = PushFrame(ep[e], f).expected
  <2> DEFINE p == ep[e]
  <2>1. /\ p \in Endpoint /\ p.out = <<>> /\ (p.sender = "Idle" => p.queue = <<>>)
        /\ f \in Frame /\ IsPayload(f) /\ q = DigestPayload(p, f)
    BY <1>2, <1>3, <1>7, <1>8
  <2>2. c = Confirmation(TRUE, f.mid)
    OBVIOUS
  <2> HIDE DEF p, q, f, c
  <2>3. OnlyConfirmed(p, f, q)
    BY <2>1, OnlyConfirms
  <2> QED BY <2>2, <2>3 DEF p, OnlyConfirmed
<1>12. c \in Frame /\ c.type = "confirmation" /\ c.good /\ c.stop
  BY <1>3, FrameFields, FramesMade DEF Confirmation
<1>13. /\ MessageFinished(q) /\ Emitted(q) # {} => d2 = Append(d, f.msg)
       /\ ~(MessageFinished(q) /\ Emitted(q) # {}) => d2 = d
  OBVIOUS
<1> HIDE DEF q, d2, S, d
<1>14. /\ InStep(ep[r], S, d2, Tail(W), V \o <<c>>, q)
       /\ d2 # d => IsNext(S, d, f.msg)
  <2> HIDE DEF W, V
  <2>1. W # <<>> /\ IsPayload(W[1]) /\ f \in Frame /\ f = W[1]
    BY <1>3, <1>4
  <2>2. q.pieces = PushFrame(ep[e], f).pieces /\ q.expected = PushFrame(ep[e], f).expected
    BY <1>11
  <2>3. S \in Seq(Msg) /\ d \in Seq(Msg) /\ W \in Seq(Frame) /\ V \in Seq(Frame) /\ ep[e] \in Endpoint /\ ep[r] \in Endpoint
    BY <1>2 DEF S, d, W, V
  <2>4. Sends(ep[r], S) /\ InStep(ep[r], S, d, W, V, ep[e])
    BY <1>6, <1>7 DEF S, d
  <2>5. Taking(S, d, W, V, ep[r], ep[e], f, q, d2)
    BY <1>13, <2>1, <2>2, <2>3, <2>4 DEF Taking
  <2> HIDE DEF f, c
  <2>6. InStep(ep[r], S, d2, Tail(W), V \o <<Confirmation(TRUE, f.mid)>>, q)
    BY ONLY <2>5, FrameTaken
  <2>7. d2 # d => IsNext(S, d, f.msg)
    BY ONLY <2>5, FrameTaken
  <2> QED BY <2>6, <2>7 DEF c
<1>15. /\ Wire(r)' = V \o <<c>> /\ ep'[e] = q2 /\ ep'[r] = ep[r] /\ line'[e] = line[e]
  <2> HIDE DEF c, V
  <2>1. rx'[Peer(e)] = rx[Peer(e)] /\ line[Peer(e)] = line[Peer(e)] /\ Become(e, q, line) /\ q \in Endpoint
    BY <1>1, <1>2, <1>9, <1>11
  <2>2. /\ Wire(r)' = Wire(r) \o q.out
        /\ ep'[e] = [q EXCEPT !.out = <<>>] /\ ep'[r] = ep[r] /\ line'[e] = line[e]
    BY <1>2, <2>1, WriteWire
  <2> QED BY <1>11, <2>2 DEF V
<1>16. Wire(e)' = Tail(W)
  BY <1>2, <1>4, <1>9, <1>15 DEF Wire, WireOf
<1>17. Kept(V, V \o <<c>>, "payload") /\ Kept(W, Tail(W), "confirmation")
  BY <1>2, <1>3, <1>4, <1>12, KeptMore, KeptTail DEF IsPayload
<1>18. /\ q2.sender = q.sender /\ q2.msg = q.msg /\ q2.queue = q.queue /\ q2.sent = q.sent
       /\ q2.popped = q.popped /\ q2.needAck = q.needAck /\ q2.completed = q.completed
       /\ q2.pieces = q.pieces /\ q2.expected = q.expected
  BY <1>11, OutputGone
<1>19. Clean(V \o <<c>>) /\ Clean(Tail(W))
  BY <1>2, <1>4, <1>6, <1>12, FrameAdded, HeadGone
<1> HIDE DEF q2, c, V, W
<1>20. InStep(q2, submitted[e], delivered[e], V \o <<c>>, Tail(W), ep[r])
  BY <1>6, <1>11, <1>17, <1>18, OtherDirection
<1>21. InStep(ep[r], S, d2, Tail(W), V \o <<c>>, q2)
  BY <1>14, <1>18, KeptWhole, OtherDirection
<1>22. CalmEnd(e)'
  <2>1. listening'[e] /\ fto'[e] = FALSE /\ rx'[e] = None
    BY <1>2, <1>5, <1>9 DEF CalmEnd
  <2>2. delivered'[e] = delivered[e] /\ submitted' = submitted
    BY <1>1, <1>2, <1>9, <1>10
  <2>3. InStep(ep'[e], submitted'[e], delivered'[e], Wire(r)', Wire(e)', ep'[r])
    BY <1>15, <1>16, <1>20, <2>2
  <2> QED BY <1>16, <1>19, <2>1, <2>3 DEF CalmEnd
<1>23. CalmEnd(r)'
  <2>1. listening'[r] /\ (fto'[r] <=> rx'[r] # None)
    BY <1>1, <1>2, <1>5, <1>9 DEF CalmEnd
  <2>2. delivered'[r] = d2 /\ submitted'[r] = S
    BY <1>1, <1>2, <1>9, <1>10 DEF S
  <2>3. InStep(ep'[r], submitted'[r], delivered'[r], Wire(e)', Wire(r)', ep'[e])
    BY <1>15, <1>16, <1>21, <2>2
  <2>4. Clean(Wire(r)')
    BY <1>15, <1>19
  <2> HIDE DEF r
  <2> QED BY <1>1, <2>1, <2>3, <2>4 DEF CalmEnd
<1>24. Calm'
  BY <1>22, <1>23, CalmEnds
<1>25. GivesNext
  <2>1. CASE d2 = d
    <3>1. delivered' = delivered
      BY <1>1, <1>2, <1>10, <2>1 DEF d
    <3> QED BY <3>1 DEF GivesNext
  <2>2. CASE d2 # d
    <3>1. d2 = Append(d, S[Len(d) + 1]) /\ Len(d) < Len(S)
      BY <1>13, <1>14, <2>2 DEF IsNext
    <3> QED BY <1>1, <1>10, <3>1 DEF GivesNext, d, S
  <2> QED BY <2>1, <2>2
<1> QED BY <1>24, <1>25

LEMMA ConfirmationCalm ==
    ASSUME LinkInv, OrderInv, Calm, NEW e \in End, StopFrame(e), rx[e].type = "confirmation"
    PROVE  Calm' /\ UNCHANGED delivered
<1> DEFINE r == Peer(e)
           f == rx[e]
           V == Wire(e)
           W == Wire(r)
           S == submitted[e]
           d == delivered[e]
           p == ep[e]
           q == ep[r]
           p2 == DigestConfirmation(p, f)
           p3 == [p2 EXCEPT !.out = <<>>]
           U == W \o p2.out
<1>1. r \in End /\ r # e /\ Peer(r) = e
  BY TwoEnds
<1>2. /\ line \in [End -> Seq(Frame)] /\ rx \in [End -> Frame \cup {None}] /\ fto \in [End -> BOOLEAN]
      /\ S \in Seq(Msg) /\ d \in Seq(Msg) /\ line[e] \in Seq(Frame)
      /\ W \in Seq(Frame) /\ V \in Seq(Frame) /\ p \in Endpoint /\ q \in Endpoint /\ Ready(p)
  BY <1>1, WiresAre DEF LinkInv, TypeOK
<1>3. f \in Frame /\ rx[e] # None /\ Digest(e, f, line) /\ ~IsPayload(f) /\ f.type = "confirmation"
  BY <1>2 DEF StopFrame, IsPayload
<1>4. V # <<>> /\ V[1] = f /\ Tail(V) = line[e]
  BY <1>2, <1>3, WireReading DEF Wire
<1>5. CalmEnd(e) /\ CalmEnd(r) /\ f.good
  <2>1. CalmEnd(e) /\ CalmEnd(r)
    BY <1>1 DEF Calm
  <2> QED BY <1>2, <1>4, <2>1, HeadGone DEF CalmEnd
<1>6. /\ InStep(p, S, d, W, V, q) /\ InStep(q, submitted[r], delivered[r], V, W, p)
      /\ Clean(W) /\ Clean(V)
  BY <1>1, <1>5 DEF CalmEnd
<1>7. p.out = <<>> /\ Sends(p, S)
  BY DEF OrderInv, Ordered
<1>8. Become(e, p2, line) /\ UNCHANGED <<delivered, listening, submitted>>
      /\ rx' = [rx EXCEPT ![e] = None] /\ fto' = [fto EXCEPT ![e] = FALSE]
  BY <1>3, <1>5 DEF Digest, IsPayload
<1> HIDE DEF f
<1>9. p2 \in Endpoint
  <2>1. Ready(p2)
    BY <1>2, <1>3, DigestReady
  <2> HIDE DEF p2
  <2> QED BY <2>1 DEF Ready
<1>10. p2.pieces = p.pieces /\ p2.expected = p.expected
  <2> HIDE DEF p, q, S, d, V, W
  <2>1. p.sender = "WaitForAck" /\ V[1] = Confirmation(TRUE, p.needAck)
    BY <1>2, <1>3, <1>4, <1>6, ConfirmationAwaited
  <2>2. p2 = GotAck(p, f.mid) /\ CanResend(p)
    BY <1>2, <1>4, <2>1 DEF DigestConfirmation, Confirmation, Ready
  <2>3. Sent(p, GotAck(p, f.mid), S)
    BY <1>2, <1>7, <2>2, GotAckSent
  <2> QED BY <2>2, <2>3 DEF Sent
<1> HIDE DEF p2
<1>11. InStep(p2, S, d, U, Tail(V), q) /\ Wrote(p2)
  <2> HIDE DEF p, q, S, d, V, W
  <2> QED BY <1>2, <1>3, <1>4, <1>6, <1>7, ConfirmationTaken DEF p2
<1>12. (Clean(W) => Clean(U)) /\ Kept(W, U, "confirmation") /\ p2.out \in Seq(Frame)
  BY <1>2, <1>11, WroteKept
<1>13. Clean(Tail(V)) /\ Kept(V, Tail(V), "payload")
  <2>1. V[1].type # "payload"
    BY <1>3, <1>4 DEF IsPayload
  <2> HIDE DEF V
  <2> QED BY <1>2, <1>4, <1>6, <2>1, HeadGone, KeptTail
<1>14. /\ Wire(r)' = U /\ ep'[e] = p3 /\ ep'[r] = ep[r] /\ line'[e] = line[e]
  <2>1. rx'[Peer(e)] = rx[Peer(e)] /\ line[Peer(e)] = line[Peer(e)]
    BY <1>1, <1>2, <1>8
  <2>2. p2 \in Endpoint /\ Become(e, p2, line) /\ line \in [End -> Seq(Frame)]
    BY <1>2, <1>8, <1>9
  <2>3. LinkInv
    OBVIOUS
  <2> HIDE DEF r, p, q, S, d, V, W, U, p3
  <2>4. /\ Wire(Peer(e))' = Wire(Peer(e)) \o p2.out
        /\ ep'[e] = [p2 EXCEPT !.out = <<>>] /\ ep'[Peer(e)] = ep[Peer(e)] /\ line'[e] = line[e]
    BY <2>1, <2>2, <2>3, WriteWire
  <2> QED BY <2>4 DEF r, W, U, p3
<1>15. Wire(e)' = Tail(V)
  BY <1>2, <1>4, <1>8, <1>14 DEF Wire, WireOf
<1>16. /\ p3.sender = p2.sender /\ p3.msg = p2.msg /\ p3.queue = p2.queue /\ p3.sent = p2.sent
       /\ p3.popped = p2.popped /\ p3.needAck = p2.needAck /\ p3.completed = p2.completed
       /\ p3.pieces = p2.pieces /\ p3.expected = p2.expected
  BY <1>9, OutputGone
<1> HIDE DEF p3, U, W, V
<1>17. InStep(p3, S, d, U, Tail(V), q)
  BY <1>11, <1>16, KeptWhole, OtherDirection
<1>18. InStep(q, submitted[r], delivered[r], Tail(V), U, p3)
  BY <1>6, <1>10, <1>12, <1>13, <1>16, OtherDirection
<1>19. CalmEnd(e)'
  <2>1. listening'[e] /\ fto'[e] = FALSE /\ rx'[e] = None
    BY <1>2, <1>5, <1>8 DEF CalmEnd
  <2>2. InStep(ep'[e], submitted'[e], delivered'[e], Wire(r)', Wire(e)', ep'[r])
    BY <1>8, <1>14, <1>15, <1>17
  <2> QED BY <1>13, <1>15, <2>1, <2>2 DEF CalmEnd
<1>20. CalmEnd(r)'
  <2>1. listening'[r] /\ (fto'[r] <=> rx'[r] # None)
    BY <1>1, <1>2, <1>5, <1>8 DEF CalmEnd
  <2>2. InStep(ep'[r], submitted'[r], delivered'[r], Wire(e)', Wire(r)', ep'[e])
    BY <1>8, <1>14, <1>15, <1>18
  <2>3. Clean(Wire(r)')
    BY <1>6, <1>12, <1>14
  <2> HIDE DEF r
  <2> QED BY <1>1, <2>1, <2>2, <2>3 DEF CalmEnd
<1> QED BY <1>8, <1>19, <1>20, CalmEnds

LEMMA StartCalm ==
    ASSUME LinkInv, Calm, NEW e \in End, StartFrame(e)
    PROVE  Calm'
<1> DEFINE r == Peer(e)
<1>1. r \in End /\ r # e /\ Peer(r) = e
  BY TwoEnds
<1>2. /\ line \in [End -> Seq(Frame)] /\ rx \in [End -> Frame \cup {None}] /\ fto \in [End -> BOOLEAN]
      /\ line[e] \in Seq(Frame)
  BY DEF LinkInv, TypeOK
<1>3. Head(line[e]) \in Frame /\ Head(line[e]) # None
  BY <1>2, NoneAssumption, HeadTailProperties DEF StartFrame
<1>4. Wire(e)' = Wire(e)
  <2>1. WireOf(Head(line[e]), Tail(line[e])) = line[e]
    BY <1>2, WireStarted DEF StartFrame
  <2>2. rx'[e] = Head(line[e]) /\ line'[e] = Tail(line[e])
    BY <1>2 DEF StartFrame
  <2>3. Wire(e) = line[e]
    BY DEF StartFrame, Wire, WireOf
  <2> QED BY <2>1, <2>2, <2>3 DEF Wire
<1>5. Wire(r)' = Wire(r) /\ rx'[r] = rx[r] /\ fto'[r] = fto[r]
  BY <1>1, <1>2 DEF StartFrame, Wire
<1>6. fto'[e] /\ rx'[e] # None
  BY <1>2, <1>3 DEF StartFrame
<1>7. UNCHANGED <<ep, listening, submitted, delivered>>
  BY DEF StartFrame
<1>8. CalmEnd(e) /\ CalmEnd(r)
  BY <1>1 DEF Calm
<1>9. CalmEnd(e)'
  BY <1>4, <1>5, <1>6, <1>7, <1>8 DEF CalmEnd
<1>10. CalmEnd(r)'
  <2> HIDE DEF r
  <2> QED BY <1>1, <1>4, <1>5, <1>7, <1>8 DEF CalmEnd
<1> QED BY <1>9, <1>10, CalmEnds

LEMMA MessageCalm ==
    ASSUME LinkInv, OrderInv, Calm, NEW m \in Msg, SendMessage(m)
    PROVE  Calm'
<1>0. PICK e \in End : e = From[m]
  BY LinkAssumption
<1> DEFINE r == Peer(e)
           V == Wire(e)
           W == Wire(r)
           S == submitted[e]
           S2 == Append(S, m)
           d == delivered[e]
           p == ep[e]
           q == ep[r]
           queue == Append(p.queue, m)
           p1 == [p EXCEPT !.queue = queue]
           p2 == SendLoop(p1)
           p3 == [p2 EXCEPT !.out = <<>>]
           U == W \o p2.out
<1>1. e \in End /\ r \in End /\ r # e /\ Peer(r) = e
  BY TwoEnds
<1>2. /\ submitted \in [End -> Seq(Msg)] /\ line \in [End -> Seq(Frame)]
      /\ S \in Seq(Msg) /\ d \in Seq(Msg) /\ W \in Seq(Frame) /\ V \in Seq(Frame)
      /\ p \in Endpoint /\ q \in Endpoint /\ p.queue \in Seq(Msg)
  BY <1>1, WiresAre DEF LinkInv, TypeOK, Endpoint
<1>3. CalmEnd(e) /\ CalmEnd(r)
  BY <1>1 DEF Calm
<1>4. /\ InStep(p, S, d, W, V, q) /\ InStep(q, submitted[r], delivered[r], V, W, p)
      /\ Clean(W) /\ Clean(V)
  BY <1>1, <1>3 DEF CalmEnd
<1>5. p.out = <<>>
  BY <1>1 DEF OrderInv, Ordered
<1>6. /\ Become(e, p2, line) /\ UNCHANGED <<rx, fto, delivered, listening>>
      /\ submitted'[e] = S2 /\ submitted'[r] = submitted[r]
  BY <1>0, <1>1, <1>2 DEF SendMessage
<1>7. queue \in Seq(Msg)
  BY <1>2
<1>8. InStep(p2, S2, d, U, V, q) /\ Wrote(p2)
  <2>1. p2 = SendLoop([p EXCEPT !.queue = Append(@, m)])
    OBVIOUS
  <2> HIDE DEF p, q, S, d, V, W, p1, p2
  <2>2. Resumes(p2, Append(S, m), d, W \o p2.out, V, q)
    BY <1>2, <1>4, <1>5, <2>1, MessageTaken
  <2> QED BY <2>2 DEF Resumes
<1> HIDE DEF queue
<1>9. p1 \in Endpoint /\ p1.pieces = p.pieces /\ p1.expected = p.expected
  <2> HIDE DEF p
  <2> QED BY <1>2, <1>7 DEF Endpoint
<1> HIDE DEF p1
<1>10. p2 \in Endpoint /\ p2.pieces = p.pieces /\ p2.expected = p.expected
  <2> HIDE DEF p
  <2> QED BY <1>9, LoopKeepsPieces
<1> HIDE DEF p2
<1>11. (Clean(W) => Clean(U)) /\ Kept(W, U, "confirmation") /\ p2.out \in Seq(Frame)
  <2> HIDE DEF W
  <2> QED BY <1>2, <1>8, WroteKept
<1>12. /\ Wire(r)' = U /\ ep'[e] = p3 /\ ep'[r] = ep[r] /\ line'[e] = line[e]
  <2>1. rx'[Peer(e)] = rx[Peer(e)] /\ line[Peer(e)] = line[Peer(e)]
    BY <1>6
  <2>2. p2 \in Endpoint /\ line \in [End -> Seq(Frame)] /\ Become(e, p2, line)
    BY <1>2, <1>6, <1>10
  <2>3. /\ Wire(Peer(e))' = Wire(Peer(e)) \o p2.out
        /\ ep'[e] = [p2 EXCEPT !.out = <<>>] /\ ep'[Peer(e)] = ep[Peer(e)] /\ line'[e] = line[e]
    BY <2>1, <2>2, WriteWire
  <2> QED BY <2>3
<1>13. Wire(e)' = V
  BY <1>6, <1>12 DEF Wire
<1>14. /\ p3.sender = p2.sender /\ p3.msg = p2.msg /\ p3.queue = p2.queue /\ p3.sent = p2.sent
       /\ p3.popped = p2.popped /\ p3.needAck = p2.needAck /\ p3.completed = p2.completed
       /\ p3.pieces = p2.pieces /\ p3.expected = p2.expected
  BY <1>10, OutputGone
<1> HIDE DEF p3, U, W, V
<1>15. InStep(p3, S2, d, U, V, q)
  BY <1>8, <1>14, KeptWhole, OtherDirection
<1>16. InStep(q, submitted[r], delivered[r], V, U, p3)
  BY <1>4, <1>10, <1>11, <1>14, KeptWhole, OtherDirection
<1>17. CalmEnd(e)'
  <2>1. listening'[e] /\ (fto'[e] <=> rx'[e] # None)
    BY <1>3, <1>6 DEF CalmEnd
  <2>2. InStep(ep'[e], submitted'[e], delivered'[e], Wire(r)', Wire(e)', ep'[r])
    BY <1>6, <1>12, <1>13, <1>15
  <2> QED BY <1>4, <1>13, <2>1, <2>2 DEF CalmEnd
<1>18. CalmEnd(r)'
  <2>1. listening'[r] /\ (fto'[r] <=> rx'[r] # None)
    BY <1>3, <1>6 DEF CalmEnd
  <2>2. InStep(ep'[r], submitted'[r], delivered'[r], Wire(e)', Wire(r)', ep'[e])
    BY <1>6, <1>12, <1>13, <1>16
  <2>3. Clean(Wire(r)')
    BY <1>4, <1>11, <1>12
  <2> HIDE DEF r
  <2> QED BY <1>1, <2>1, <2>2, <2>3 DEF CalmEnd
<1> QED BY <1>17, <1>18, CalmEnds

-----------------------------------------------------------------------------
(* What cannot happen to a line in order.                                   *)

\* A frame that is being read is whole, and while it is read nothing is quiet.
LEMMA CalmReading ==
    ASSUME LinkInv, Calm, NEW e \in End, rx[e] # None
    PROVE  rx[e].stop /\ ~Quiet
<1>1. rx[e] \in Frame /\ line[e] \in Seq(Frame)
  BY DEF LinkInv, TypeOK
<1>2. Wire(e) # <<>> /\ Wire(e)[1] = rx[e] /\ Wire(e) \in Seq(Frame)
  BY <1>1, WireReading DEF Wire
<1>3. rx[e].stop
  BY <1>2, HeadGone DEF Calm, CalmEnd
<1> QED BY <1>3 DEF Quiet

LEMMA CalmWaiting ==
    ASSUME LinkInv, Calm, NEW e \in End, ep[e].timer
    PROVE  ~Quiet
<1> DEFINE r == Peer(e)
<1>1. r \in End
  BY TwoEnds
<1>2. ep[e].sender = "WaitForAck"
  BY DEF LinkInv, Ready
<1>3. InStep(ep[e], submitted[e], delivered[e], Wire(r), Wire(e), ep[r])
  BY DEF Calm, CalmEnd
<1>4. PICK x \in End : Wire(x) # <<>>
  <2>1. CASE Asked(ep[e], submitted[e], delivered[e], Wire(r), Wire(e), ep[r])
    <3>1. PICK j \in 1..Len(Wire(r)) : Wire(r)[j] = ep[e].sent
      BY <2>1 DEF Asked, Only
    <3>2. Wire(r) # <<>>
      BY <3>1, EmptySeq
    <3> QED BY <1>1, <3>2
  <2>2. CASE Answered(ep[e], submitted[e], delivered[e], Wire(r), Wire(e), ep[r])
    <3>1. PICK j \in 1..Len(Wire(e)) : Wire(e)[j] = Confirmation(TRUE, ep[e].needAck)
      BY <2>2 DEF Answered, Only
    <3>2. Wire(e) # <<>>
      BY <3>1, EmptySeq
    <3> QED BY <3>2
  <2> QED BY <1>2, <1>3, <2>1, <2>2 DEF InStep
<1>5. CASE rx[x] # None
  BY <1>5, CalmReading
<1>6. CASE rx[x] = None
  <2>1. line[x] # <<>> /\ listening[x]
    BY <1>4, <1>6 DEF Wire, WireOf, Calm, CalmEnd
  <2> QED BY <2>1 DEF Quiet
<1> QED BY <1>5, <1>6

\* The steps in which something goes wrong; on a line in order they are noticed.
Misbehaves(e) ==
    \/ ConfirmationTimeout(e) \/ FtoTimeout(e)
    \/ CorruptFrame(e) \/ LoseStop(e) \/ LoseStart(e) \/ LoseFrame(e)
    \/ StopListening(e)

LEMMA MisbehavesNoticed ==
    ASSUME LinkInv, NEW e \in End, Misbehaves(e)
    PROVE  /\ UNCHANGED <<submitted, delivered>>
           /\ faults' + early' >= faults + early
           /\ Calm => faults' + early' > 0
<1>1. faults \in Nat /\ early \in Nat
  BY LinkAssumption DEF LinkInv, TypeOK
<1>2. CASE ConfirmationTimeout(e)
  <2>1. UNCHANGED <<submitted, delivered, faults>> /\ ep[e].timer
    BY <1>2 DEF ConfirmationTimeout
  <2>2. early' = early + 1 \/ early' = early
    BY <1>2 DEF ConfirmationTimeout, CountEarly
  <2>3. Calm => early' = early + 1
    BY <1>2, <2>1, CalmWaiting DEF ConfirmationTimeout, CountEarly
  <2> QED BY <1>1, <2>1, <2>2, <2>3
<1>3. CASE FtoTimeout(e)
  <2>1. UNCHANGED <<submitted, delivered, faults>> /\ fto[e]
    BY <1>3 DEF FtoTimeout
  <2>2. early' = early + 1 \/ early' = early
    BY <1>3 DEF FtoTimeout, CountEarly
  <2>3. Calm => rx[e] # None
    BY <2>1 DEF Calm, CalmEnd
  <2>4. Calm => early' = early + 1
    BY <1>3, <2>3, CalmReading DEF FtoTimeout, CountEarly
  <2> QED BY <1>1, <2>1, <2>2, <2>4
<1>4. CASE Fault /\ UNCHANGED <<submitted, delivered, early>>
  BY <1>1, <1>4 DEF Fault
<1> QED BY <1>2, <1>3, <1>4 DEF Misbehaves, CorruptFrame, LoseStop, LoseStart, LoseFrame, StopListening

\* A frame that is read to its end.
LEMMA StopCalm ==
    ASSUME LinkInv, OrderInv, Calm, NEW e \in End, StopFrame(e) \/ StopMergedFrame(e)
    PROVE  Calm' /\ GivesNext /\ UNCHANGED <<submitted, faults, early>>
<1>1. CASE StopFrame(e)
  <2>1. rx[e] \in Frame
    BY <1>1 DEF StopFrame, LinkInv, TypeOK
  <2>2. rx[e].type = "payload" \/ rx[e].type = "confirmation"
    BY <2>1 DEF Frame
  <2>3. Calm' /\ GivesNext
    BY <1>1, <2>2, PayloadCalm, ConfirmationCalm DEF GivesNext
  <2> QED BY <1>1, <2>3 DEF StopFrame, Digest
<1>2. CASE StopMergedFrame(e)
  BY <1>2, CalmReading DEF StopMergedFrame
<1> QED BY <1>1, <1>2

LEMMA CalmInit == Init => CalmInv
<1> SUFFICES ASSUME Init, NEW e \in End PROVE CalmEnd(e)
  BY DEF CalmInv
<1>1. PICK g \in [End -> Garbage] : ep = [x \in End |-> NewEndpoint(g[x][1], g[x][2])]
  BY DEF Init
<1>2. ep[e].queue = <<>> /\ ep[e].sender = "Idle" /\ ep[e].completed = {}
  BY <1>1 DEF NewEndpoint
<1>3. Peer(e) \in End
  BY TwoEnds
<1>4. /\ submitted[e] = <<>> /\ delivered[e] = <<>> /\ Wire(Peer(e)) = <<>> /\ Wire(e) = <<>>
      /\ listening[e] /\ rx[e] = None /\ fto[e] = FALSE
  BY <1>3 DEF Init, Wire, WireOf
<1>5. \A i \in 1..Len(<<>>) : FALSE
  BY EmptySeq
<1>6. Clean(<<>>) /\ NoneOf(<<>>, "payload") /\ NoneOf(<<>>, "confirmation")
  BY <1>5 DEF Clean, NoneOf
<1>7. Given(ep[e], <<>>, <<>>)
  BY <1>2, <1>5, EmptySeq DEF Given
<1>8. Resting(ep[e], <<>>, <<>>, <<>>, <<>>)
  BY <1>2, <1>6 DEF Resting
<1>9. InStep(ep[e], <<>>, <<>>, <<>>, <<>>, ep[Peer(e)])
  BY <1>2, <1>7, <1>8 DEF InStep
<1> QED BY <1>4, <1>6, <1>9 DEF CalmEnd

LEMMA CalmStep == LinkInv /\ OrderInv /\ CalmInv /\ [Next]_vars => CalmInv'
<1> SUFFICES ASSUME LinkInv, OrderInv, CalmInv, [Next]_vars, faults' + early' = 0 PROVE Calm'
  BY DEF CalmInv, Calm
<1>1. faults \in Nat /\ early \in Nat
  BY LinkAssumption DEF LinkInv, TypeOK
<1>2. faults + early = 0 => Calm
  BY DEF CalmInv, Calm
<1>3. ASSUME NEW m \in Msg, SendMessage(m) PROVE Calm'
  BY <1>2, <1>3, MessageCalm DEF SendMessage
<1>4. ASSUME NEW e \in End, StartFrame(e) PROVE Calm'
  BY <1>2, <1>4, StartCalm DEF StartFrame
<1>5. ASSUME NEW e \in End, StopFrame(e) \/ StopMergedFrame(e) PROVE Calm'
  <2>1. UNCHANGED <<faults, early>>
    BY <1>5 DEF StopFrame, StopMergedFrame, Digest
  <2> QED BY <1>2, <1>5, <2>1, StopCalm
<1>6. ASSUME NEW e \in End, Misbehaves(e) PROVE Calm'
  <2>1. faults + early = 0
    <3>1. faults' + early' >= faults + early
      BY <1>6, MisbehavesNoticed
    <3> QED BY <1>1, <3>1
  <2> QED BY <1>2, <1>6, <2>1, MisbehavesNoticed
<1>7. CASE UNCHANGED vars
  <2>1. Calm
    BY <1>2, <1>7 DEF vars
  <2> QED BY <1>7, <2>1 DEF Calm, CalmEnd, Wire, vars
<1> QED BY <1>3, <1>4, <1>5, <1>6, <1>7 DEF Next, Misbehaves

-----------------------------------------------------------------------------
(* MessageChannel.                                                          *)

LEMMA ChannelInit == Init => Channel!Init
BY DEF Init, Channel!Init

\* On a line that has misbehaved a frame of a message is never digested after a
\* later message was given to the user.
LEMMA GivenInOrder ==
    ASSUME LinkInv, OrderInv, NEW e \in End, NEW in, rx[e] # None, Digest(e, rx[e], in), delivered' # delivered
    PROVE  \E k \in 1..Len(submitted[Peer(e)]) :
              /\ delivered[Peer(e)] # <<>> =>
                    \E j \in 1..k : submitted[Peer(e)][j] = delivered[Peer(e)][Len(delivered[Peer(e)])]
              /\ delivered' = [delivered EXCEPT ![Peer(e)] = Append(@, submitted[Peer(e)][k])]
<1> DEFINE r == Peer(e)
           f == rx[e]
           V == Wire(e)
           S == submitted[r]
           d == delivered[r]
           p == DigestPayload(ep[e], f)
           m == CHOOSE n \in Emitted(p) : TRUE
<1>1. r \in End /\ Peer(r) = e
  BY TwoEnds
<1>2. f \in Frame /\ line[e] \in Seq(Frame) /\ ep[e] \in Endpoint
  BY DEF LinkInv, TypeOK
<1>3. V \in Seq(Frame) /\ V # <<>> /\ V[1] = f
  BY <1>2, WireReading DEF Wire
<1>4. Passed(S, d, V, ep[r].msg)
  BY <1>1 DEF OrderInv, Ordered
<1>5. /\ Emitted(p) # {} /\ delivered' = [delivered EXCEPT ![r] = Append(@, m)]
      /\ IsPayload(f)
  BY DEF Digest, IsPayload
<1>6. m \in Emitted(p)
  BY <1>5
<1>7. m = f.msg
  BY <1>2, <1>5, <1>6, EmittedIsDigested
<1> HIDE DEF m, p, V
<1>8. Precedes(S, m, ep[r].msg) /\ (d # <<>> => Precedes(S, d[Len(d)], m))
  <2>1. 1 \in 1..Len(V)
    BY <1>3, EmptySeq
  <2> QED BY <1>3, <1>4, <1>5, <1>7, <2>1 DEF Passed
<1> HIDE DEF S, d, r, f
<1>9. CASE d = <<>>
  <2>1. PICK k \in 1..Len(S) : S[k] = m
    <3>1. S \in Seq(Msg)
      BY <1>1 DEF S, LinkInv, TypeOK
    <3>2. PICK i \in 1..Len(S) : S[i] = ep[r].msg /\ \E j \in 1..i : S[j] = m
      BY <1>8 DEF Precedes
    <3>3. PICK j \in 1..i : S[j] = m
      BY <3>2
    <3>4. j \in 1..Len(S)
      BY <3>1
    <3> QED BY <3>3, <3>4
  <2> QED BY <1>5, <1>9, <2>1 DEF S, d, r
<1>10. CASE d # <<>>
  <2>1. PICK k \in 1..Len(S) : S[k] = m /\ \E j \in 1..k : S[j] = d[Len(d)]
    BY <1>8, <1>10 DEF Precedes
  <2> QED BY <1>5, <2>1 DEF S, d, r
<1> QED BY <1>9, <1>10

LEMMA ChannelStep ==
    LinkInv /\ OrderInv /\ CalmInv /\ [Next]_vars => [Channel!Next]_(Channel!vars)
<1> SUFFICES ASSUME LinkInv, OrderInv, CalmInv, [Next]_vars PROVE [Channel!Next]_(Channel!vars)
  OBVIOUS
<1>1. faults \in Nat /\ early \in Nat
  BY LinkAssumption DEF LinkInv, TypeOK
<1>2. faults + early = 0 => Calm
  BY DEF CalmInv, Calm
<1>3. ASSUME UNCHANGED <<submitted, delivered, faults, early>> PROVE UNCHANGED Channel!vars
  BY <1>3 DEF Channel!vars
<1>4. ASSUME NEW m \in Msg, SendMessage(m) PROVE Channel!Next
  <2>1. Channel!Submit(m)
    BY <1>4 DEF SendMessage, Channel!Submit
  <2> QED BY <2>1 DEF Channel!Next
<1>5. ASSUME NEW e \in End, StartFrame(e) PROVE UNCHANGED Channel!vars
  BY <1>3, <1>5 DEF StartFrame
<1>6. ASSUME NEW e \in End, StopFrame(e) \/ StopMergedFrame(e) PROVE Channel!Next \/ UNCHANGED Channel!vars
  <2>1. UNCHANGED <<submitted, faults, early>>
    BY <1>6 DEF StopFrame, StopMergedFrame, Digest
  <2>2. CASE UNCHANGED delivered
    BY <1>3, <2>1, <2>2
  <2>3. CASE ~UNCHANGED delivered /\ faults + early = 0
    <3>1. GivesNext
      BY <1>2, <1>6, <2>3, StopCalm
    <3>2. PICK x \in End :
             /\ Len(delivered[x]) < Len(submitted[x])
             /\ delivered' = [delivered EXCEPT ![x] = Append(@, submitted[x][Len(delivered[x]) + 1])]
      BY <2>3, <3>1 DEF GivesNext
    <3>3. Channel!Deliver(x)
      BY <2>1, <2>3, <3>2 DEF Channel!Deliver, Channel!Give
    <3> QED BY <3>3 DEF Channel!Next
  <2>4. CASE ~UNCHANGED delivered /\ faults + early > 0
    <3> DEFINE r == Peer(e)
    <3>1. r \in End
      BY TwoEnds
    <3>2. PICK in : rx[e] # None /\ Digest(e, rx[e], in)
      BY <1>6 DEF StopFrame, StopMergedFrame
    <3>3. PICK k \in 1..Len(submitted[r]) :
             /\ delivered[r] # <<>> => \E j \in 1..k : submitted[r][j] = delivered[r][Len(delivered[r])]
             /\ delivered' = [delivered EXCEPT ![r] = Append(@, submitted[r][k])]
      BY <2>4, <3>2, GivenInOrder
    <3> HIDE DEF r
    <3>4. Channel!Give(r, k)
      BY <2>1, <3>3 DEF Channel!Give
    <3>5. Channel!DeliverDisturbed(r)
      BY <2>4, <3>3, <3>4 DEF Channel!DeliverDisturbed
    <3> QED BY <3>1, <3>5 DEF Channel!Next
  <2> QED BY <1>1, <2>2, <2>3, <2>4
<1>7. ASSUME NEW e \in End, Misbehaves(e) PROVE Channel!Next \/ UNCHANGED Channel!vars
  <2>1. UNCHANGED <<submitted, delivered>> /\ faults' + early' >= faults + early
    BY <1>7, MisbehavesNoticed
  <2>2. faults' \in Nat /\ early' \in Nat
    <3>1. LinkInv'
      BY LinkStep
    <3> QED BY <3>1, LinkAssumption DEF LinkInv, TypeOK
  <2>3. CASE faults' + early' > 0
    <3>1. Channel!Disturb
      BY <2>1, <2>3 DEF Channel!Disturb
    <3> QED BY <3>1 DEF Channel!Next
  <2>4. CASE ~(faults' + early' > 0)
    <3>1. ~(faults + early > 0)
      <4> DEFINE a == faults
                 b == early
                 c == faults'
                 g == early'
      <4>1. a \in Nat /\ b \in Nat /\ c \in Nat /\ g \in Nat /\ c + g >= a + b /\ ~(c + g > 0)
        BY <1>1, <2>1, <2>2, <2>4
      <4>2. ~(a + b > 0)
        <5> HIDE DEF a, b, c, g
        <5> QED BY <4>1
      <4> QED BY <4>2
    <3> QED BY <2>1, <2>4, <3>1 DEF Channel!vars
  <2> QED BY <2>3, <2>4
<1>8. CASE UNCHANGED vars
  BY <1>3, <1>8 DEF vars
<1> QED BY <1>4, <1>5, <1>6, <1>7, <1>8 DEF Next, Misbehaves

LEMMA CalmInvariant == Spec => [](LinkInv /\ OrderInv /\ CalmInv)
<1>1. LinkInv /\ OrderInv /\ CalmInv /\ [Next]_vars => (LinkInv /\ OrderInv /\ CalmInv)'
  BY LinkStep, OrderStep, CalmStep
<1> QED BY <1>1, LinkInit, OrderInit, CalmInit, PTL DEF Spec

-----------------------------------------------------------------------------
(* The safety part of IsMessageChannel: whatever the line and the timers do, *)
(* every step of the two handlers is a step of a message channel or none.    *)
(* On a line in order emitMessage is called for the next submitted message;  *)
(* on any other it is never called for an earlier message than the last one. *)
THEOREM LinkImplementsChannel == Spec => Channel!Init /\ [][Channel!Next]_(Channel!vars)
<1>1. [Next]_vars /\ LinkInv /\ OrderInv /\ CalmInv => [Channel!Next]_(Channel!vars)
  BY ChannelStep
<1> QED BY <1>1, CalmInvariant, ChannelInit, PTL DEF Spec

(* "Each frame of a message has to be acknowledged"                          *)
(* (serial_interface_handler.cc:7-9) means what it says as long as the line  *)
(* loses, damages and delays nothing: a message whose last frame was         *)
(* confirmed was given to the peer's user.  The run SerialLinkMerge shows    *)
(* that it does not once a frame was damaged.                                *)
THEOREM UndisturbedIsDelivered == Spec => [](faults + early = 0 => CompletedWasDelivered)
<1>1. CalmInv => (faults + early = 0 => CompletedWasDelivered)
  <2> SUFFICES ASSUME CalmInv, faults + early = 0, NEW m \in Msg, m \in ep[From[m]].completed
               PROVE  IsDelivered(m)
    BY DEF CompletedWasDelivered
  <2> DEFINE e == From[m]
  <2>1. e \in End
    BY LinkAssumption
  <2>2. Given(ep[e], submitted[e], delivered[e])
    BY <2>1 DEF CalmInv, CalmEnd, InStep
  <2> QED BY <2>2 DEF Given, IsDelivered
<1> QED BY <1>1, CalmInvariant, PTL

\* How many frames of F are behind place k of what is on a wire.
Behind(s, F, k) == Cardinality({j \in k+1..Len(s) : s[j] \in F})

LEMMA BehindType ==
    ASSUME NEW s \in Seq(Frame), NEW F, NEW k \in Nat
    PROVE  /\ Behind(s, F, k) \in Nat /\ IsFiniteSet({j \in k+1..Len(s) : s[j] \in F})
           /\ k >= Len(s) => Behind(s, F, k) = 0
           /\ k <= Len(s) => Behind(s, F, k) <= Len(s) - k
<1> DEFINE I == k+1..Len(s)
           S == {j \in I : s[j] \in F}
<1>1. Len(s) \in Nat /\ k + 1 \in Int /\ Len(s) \in Int
  OBVIOUS
<1>2. IsFiniteSet(I) /\ Cardinality(I) = IF k + 1 > Len(s) THEN 0 ELSE Len(s) - (k + 1) + 1
  BY <1>1, FS_Interval
<1>3. IsFiniteSet(S) /\ Cardinality(S) <= Cardinality(I)
  <2>1. S \in SUBSET I
    OBVIOUS
  <2> HIDE DEF S, I
  <2> QED BY <1>2, <2>1, FS_Subset
<1>4. Cardinality(S) \in Nat
  BY <1>3, FS_CardinalityType
<1>5. Behind(s, F, k) = Cardinality(S)
  BY DEF Behind
<1> HIDE DEF S
<1>6. Cardinality(S) >= 0 /\ Cardinality(I) = IF k + 1 > Len(s) THEN 0 ELSE Len(s) - k
  BY <1>1, <1>2, <1>4
<1> HIDE DEF I
<1>7. k >= Len(s) => Cardinality(S) = 0
  BY <1>1, <1>3, <1>4, <1>6
<1>8. k <= Len(s) => Cardinality(S) <= Len(s) - k
  BY <1>1, <1>3, <1>4, <1>6
<1> QED BY <1>3, <1>4, <1>5, <1>7, <1>8 DEF S, I

LEMMA BehindSame ==
    ASSUME NEW s \in Seq(Frame), NEW t \in Seq(Frame), NEW F, NEW k \in Nat,
           Len(s) = Len(t), \A j \in k+1..Len(s) : s[j] = t[j]
    PROVE  Behind(s, F, k) = Behind(t, F, k)
<1>1. {j \in k+1..Len(s) : s[j] \in F} = {j \in k+1..Len(t) : t[j] \in F}
  OBVIOUS
<1> QED BY <1>1 DEF Behind

\* The frame at the front counts for itself.
LEMMA BehindHead ==
    ASSUME NEW s \in Seq(Frame), s # <<>>, NEW F
    PROVE  Behind(s, F, 0) = Behind(s, F, 1) + (IF s[1] \in F THEN 1 ELSE 0)
<1> DEFINE S == {j \in 1+1..Len(s) : s[j] \in F}
           T == {j \in 0+1..Len(s) : s[j] \in F}
<1>1. Len(s) \in Nat /\ Len(s) >= 1
  BY EmptySeq
<1>2. 1 + 1 = 2 /\ 0 + 1 = 1
  OBVIOUS
<1>3. Behind(s, F, 1) = Cardinality(S) /\ Behind(s, F, 0) = Cardinality(T)
  BY DEF Behind
<1>4. IsFiniteSet(S) /\ Cardinality(S) \in Nat
  <2>1. 1 \in Nat
    OBVIOUS
  <2>2. Behind(s, F, 1) \in Nat /\ IsFiniteSet({j \in 1+1..Len(s) : s[j] \in F})
    BY <2>1, BehindType
  <2> QED BY <1>3, <2>2
<1>5. CASE s[1] \in F
  <2>1. T = S \cup {1} /\ 1 \notin S
    BY <1>1, <1>2, <1>5
  <2> HIDE DEF S, T
  <2>2. Cardinality(T) = Cardinality(S) + 1
    BY <1>4, <2>1, FS_AddElement
  <2> QED BY <1>3, <1>5, <2>2
<1>6. CASE s[1] \notin F
  <2>1. T = S
    BY <1>1, <1>2, <1>6
  <2> HIDE DEF S, T
  <2> QED BY <1>3, <1>4, <1>6, <2>1
<1> QED BY <1>5, <1>6

LEMMA BehindOne ==
    ASSUME NEW f \in Frame, NEW F
    PROVE  Behind(<<f>>, F, 0) = IF f \in F THEN 1 ELSE 0
<1> DEFINE s == <<f>>
<1>1. s \in Seq(Frame) /\ Len(s) = 1 /\ s[1] = f /\ s # <<>>
  OBVIOUS
<1> HIDE DEF s
<1>2. Behind(s, F, 1) = 0
  <2>1. 1 \in Nat /\ 1 >= Len(s)
    BY <1>1
  <2> QED BY <1>1, <2>1, BehindType
<1>3. Behind(s, F, 0) = IF f \in F THEN 1 ELSE 0
  BY <1>1, <1>2, BehindHead
<1> QED BY <1>3 DEF s

\* A set of places that is moved by n has as many places.
LEMMA Moved ==
    ASSUME NEW S \in SUBSET Int, IsFiniteSet(S), NEW n \in Int
    PROVE  LET T == {j \in Int : j - n \in S} IN IsFiniteSet(T) /\ Cardinality(T) = Cardinality(S)
<1> DEFINE T == {j \in Int : j - n \in S}
           f == [j \in S |-> j + n]
<1>1. f \in Bijection(S, T)
  <2>1. \A j \in S : j + n \in T
    <3> TAKE j \in S
    <3>1. j \in Int /\ (j + n) - n = j /\ j + n \in Int
      OBVIOUS
    <3> QED BY <3>1
  <2>2. f \in [S -> T]
    BY <2>1
  <2>3. \A i, j \in S : f[i] = f[j] => i = j
    <3> TAKE i \in S, j \in S
    <3>1. i \in Int /\ j \in Int /\ f[i] = i + n /\ f[j] = j + n
      OBVIOUS
    <3> QED BY <3>1
  <2>4. \A t \in T : \E j \in S : f[j] = t
    <3> TAKE t \in T
    <3>1. t - n \in S /\ t \in Int
      OBVIOUS
    <3>2. f[t - n] = t
      BY <3>1
    <3> QED BY <3>1, <3>2
  <2> HIDE DEF f, T
  <2>5. f \in Injection(S, T) /\ f \in Surjection(S, T)
    BY <2>2, <2>3, <2>4 DEF Injection, Surjection, IsInjective
  <2> QED BY <2>5 DEF Bijection
<1>2. ExistsBijection(S, T)
  BY <1>1 DEF ExistsBijection
<1> HIDE DEF T
<1>3. IsFiniteSet(T) /\ Cardinality(T) = Cardinality(S)
  BY <1>2, FS_Bijection
<1> QED BY <1>3 DEF T

LEMMA BehindTail ==
    ASSUME NEW s \in Seq(Frame), s # <<>>, NEW F, NEW k \in Nat
    PROVE  Behind(Tail(s), F, k) = Behind(s, F, k + 1)
<1> DEFINE r == Tail(s)
           S == {j \in k+1..Len(r) : r[j] \in F}
           T == {j \in (k+1)+1..Len(s) : s[j] \in F}
           U == {j \in Int : j - 1 \in S}
<1>1. r \in Seq(Frame) /\ Len(r) = Len(s) - 1 /\ \A i \in 1..Len(r) : r[i] = s[i + 1]
  BY HeadTailProperties
<1>2. Len(s) \in Nat /\ Len(r) \in Nat /\ Len(s) >= 1
  BY <1>1, EmptySeq
<1> HIDE DEF r
<1>3. U = T
  <2>1. ASSUME NEW j \in U PROVE j \in T
    <3>1. j \in Int /\ j - 1 \in k+1..Len(r) /\ r[j - 1] \in F
      OBVIOUS
    <3>2. j - 1 \in 1..Len(r) /\ (j - 1) + 1 = j
      BY <1>2, <3>1
    <3>3. r[j - 1] = s[j]
      BY <1>1, <3>2
    <3> QED BY <1>1, <1>2, <3>1, <3>3
  <2>2. ASSUME NEW j \in T PROVE j \in U
    <3>1. j \in Int /\ j - 1 \in k+1..Len(r) /\ j - 1 \in 1..Len(r) /\ (j - 1) + 1 = j
      BY <1>1, <1>2
    <3>2. r[j - 1] = s[j]
      BY <1>1, <3>1
    <3> QED BY <3>1, <3>2
  <2> QED BY <2>1, <2>2
<1>4. IsFiniteSet(S) /\ S \in SUBSET Int
  <2>1. IsFiniteSet({j \in k+1..Len(r) : r[j] \in F})
    BY <1>1, BehindType
  <2> QED BY <2>1
<1>5. Cardinality(U) = Cardinality(S)
  <2> HIDE DEF S
  <2>1. 1 \in Int
    OBVIOUS
  <2> QED BY <1>4, <2>1, Moved
<1>6. Behind(r, F, k) = Cardinality(S) /\ Behind(s, F, k + 1) = Cardinality(T)
  BY DEF Behind
<1> QED BY <1>3, <1>5, <1>6 DEF r

LEMMA BehindMore ==
    ASSUME NEW s \in Seq(Frame), NEW t \in Seq(Frame), NEW F, NEW k \in Nat, k <= Len(s)
    PROVE  Behind(s \o t, F, k) = Behind(s, F, k) + Behind(t, F, 0)
<1> DEFINE r == s \o t
           n == Len(s)
           R == {j \in k+1..Len(r) : r[j] \in F}
           S == {j \in k+1..Len(s) : s[j] \in F}
           T == {j \in 0+1..Len(t) : t[j] \in F}
           U == {j \in Int : j - n \in T}
<1>1. /\ r \in Seq(Frame) /\ Len(r) = Len(s) + Len(t)
      /\ \A i \in 1..Len(s) + Len(t) : r[i] = IF i <= Len(s) THEN s[i] ELSE t[i - Len(s)]
  BY ConcatProperties
<1>2. n \in Nat /\ Len(t) \in Nat /\ n \in Int /\ n = Len(s)
  OBVIOUS
<1> HIDE DEF r, n
<1>3. IsFiniteSet(S) /\ IsFiniteSet(T) /\ T \in SUBSET Int /\ S \in SUBSET Int
  <2>1. IsFiniteSet({j \in k+1..Len(s) : s[j] \in F})
    BY BehindType
  <2>2. 0 \in Nat
    OBVIOUS
  <2>3. IsFiniteSet({j \in 0+1..Len(t) : t[j] \in F})
    BY <2>2, BehindType
  <2> QED BY <2>1, <2>3
<1>4. IsFiniteSet(U) /\ Cardinality(U) = Cardinality(T)
  <2> HIDE DEF T
  <2> QED BY <1>2, <1>3, Moved
<1>5. R = S \cup U
  <2>1. ASSUME NEW j \in R PROVE j \in S \cup U
    <3>1. j \in k+1..Len(s) + Len(t) /\ r[j] \in F /\ j \in 1..Len(s) + Len(t)
      BY <1>1
    <3>2. CASE j <= Len(s)
      BY <1>1, <3>1, <3>2
    <3>3. CASE j > Len(s)
      <4>1. r[j] = t[j - Len(s)] /\ j - n \in 0+1..Len(t)
        BY <1>1, <1>2, <3>1, <3>3
      <4> QED BY <1>2, <3>1, <4>1
    <3> QED BY <1>2, <3>1, <3>2, <3>3
  <2>2. ASSUME NEW j \in S PROVE j \in R
    <3>1. j \in k+1..Len(r) /\ j \in 1..Len(s) + Len(t) /\ j <= Len(s)
      BY <1>1, <1>2
    <3> QED BY <1>1, <3>1
  <2>3. ASSUME NEW j \in U PROVE j \in R
    <3>1. j \in Int /\ j - n \in 1..Len(t) /\ t[j - n] \in F
      OBVIOUS
    <3>2. j \in k+1..Len(r) /\ j \in 1..Len(s) + Len(t) /\ ~(j <= Len(s))
      BY <1>1, <1>2, <3>1
    <3>3. r[j] = t[j - n]
      BY <1>1, <1>2, <3>2
    <3> QED BY <3>1, <3>2, <3>3
  <2> QED BY <2>1, <2>2, <2>3
<1>6. S \cap U = {}
  BY <1>2
<1>7. Cardinality(R) = Cardinality(S) + Cardinality(T)
  <2>1. Cardinality(S) \in Nat /\ Cardinality(T) \in Nat
    <3> HIDE DEF S, T
    <3> QED BY <1>3, FS_CardinalityType
  <2> HIDE DEF R, S, T, U
  <2>2. Cardinality(R) = Cardinality(S) + Cardinality(U) - Cardinality({})
    BY <1>3, <1>4, <1>5, <1>6, FS_Union
  <2> QED BY <1>4, <2>1, <2>2, FS_EmptySet
<1>8. Behind(r, F, k) = Cardinality(R) /\ Behind(s, F, k) = Cardinality(S) /\ Behind(t, F, 0) = Cardinality(T)
  BY DEF Behind
<1> QED BY <1>7, <1>8 DEF r

LEMMA BehindBeyond ==
    ASSUME NEW s \in Seq(Frame), NEW t \in Seq(Frame), NEW F, NEW k \in Nat
    PROVE  Behind(s \o t, F, Len(s) + k) = Behind(t, F, k)
<1> DEFINE r == s \o t
           n == Len(s)
           R == {j \in (n+k)+1..Len(r) : r[j] \in F}
           T == {j \in k+1..Len(t) : t[j] \in F}
           U == {j \in Int : j - n \in T}
<1>1. /\ r \in Seq(Frame) /\ Len(r) = Len(s) + Len(t)
      /\ \A i \in 1..Len(s) + Len(t) : r[i] = IF i <= Len(s) THEN s[i] ELSE t[i - Len(s)]
  BY ConcatProperties
<1>2. n \in Nat /\ Len(t) \in Nat /\ n \in Int /\ n = Len(s)
  OBVIOUS
<1> HIDE DEF r, n
<1>3. IsFiniteSet(T) /\ T \in SUBSET Int
  <2>1. IsFiniteSet({j \in k+1..Len(t) : t[j] \in F})
    BY BehindType
  <2> QED BY <2>1
<1>4. Cardinality(U) = Cardinality(T)
  <2> HIDE DEF T
  <2> QED BY <1>2, <1>3, Moved
<1>5. R = U
  <2>1. ASSUME NEW j \in R PROVE j \in U
    <3>1. j \in 1..Len(s) + Len(t) /\ r[j] \in F /\ ~(j <= Len(s)) /\ j - n \in k+1..Len(t)
      BY <1>1, <1>2
    <3>2. r[j] = t[j - n]
      BY <1>1, <1>2, <3>1
    <3> QED BY <3>1, <3>2
  <2>2. ASSUME NEW j \in U PROVE j \in R
    <3>1. j \in Int /\ j - n \in k+1..Len(t) /\ t[j - n] \in F
      OBVIOUS
    <3>2. j \in (n+k)+1..Len(r) /\ j \in 1..Len(s) + Len(t) /\ ~(j <= Len(s))
      BY <1>1, <1>2, <3>1
    <3>3. r[j] = t[j - n]
      BY <1>1, <1>2, <3>2
    <3> QED BY <3>1, <3>2, <3>3
  <2> QED BY <2>1, <2>2
<1>6. Behind(r, F, n + k) = Cardinality(R) /\ Behind(t, F, k) = Cardinality(T)
  BY DEF Behind
<1> QED BY <1>4, <1>5, <1>6 DEF r, n

\* Frames that are still whole.  An acknowledgement is a confirmation, a NAK
\* another.
Confirming == {f \in Frame : f.type = "confirmation" /\ f.good}
Acks == {f \in Confirming : f.ack}
Carrying == {f \in Frame : IsPayload(f) /\ f.good}

\* How many mids ago was mid, at c.
Age(c, mid) == IF mid <= c THEN c - mid ELSE c - mid + Modulus

NextMid(c) == (c + 1) % Modulus

LEMMA AgeType ==
    ASSUME NEW c \in 0..Modulus-1, NEW mid \in 0..Modulus-1
    PROVE  Age(c, mid) \in 0..Modulus-1 /\ (Age(c, mid) = 0 <=> mid = c)
BY LinkAssumption DEF Age

LEMMA NextAge ==
    ASSUME NEW c \in 0..Modulus-1
    PROVE  /\ NextMid(c) \in 0..Modulus-1
           /\ \A mid \in 0..Modulus-1 : Age(c, mid) < Modulus - 1 =>
                 Age(NextMid(c), mid) = Age(c, mid) + 1 /\ mid # NextMid(c)
<1>1. Modulus \in Nat /\ Modulus > 0 /\ c \in Nat /\ c < Modulus
  BY LinkAssumption
<1>2. NextMid(c) = IF c + 1 = Modulus THEN 0 ELSE c + 1
  <2>1. CASE c + 1 = Modulus
    <3>1. \A n \in Nat : n > 0 => n % n = 0
      OBVIOUS
    <3> QED BY <1>1, <2>1, <3>1 DEF NextMid
  <2>2. CASE c + 1 # Modulus
    <3>1. \A n, k \in Nat : k < n => k % n = k
      OBVIOUS
    <3>2. c + 1 \in Nat /\ c + 1 < Modulus
      BY <1>1, <2>2
    <3> QED BY <1>1, <2>2, <3>1, <3>2 DEF NextMid
  <2> QED BY <2>1, <2>2
<1>3. NextMid(c) \in 0..Modulus-1
  BY <1>1, <1>2
<1>4. ASSUME NEW mid \in 0..Modulus-1, Age(c, mid) < Modulus - 1
      PROVE  Age(NextMid(c), mid) = Age(c, mid) + 1 /\ mid # NextMid(c)
  BY <1>1, <1>2, <1>4 DEF Age
<1> QED BY <1>3, <1>4

(***************************************************************************)
(* What is under way for a sender: W is what it has to read, V what its    *)
(* peer has.  A confirmation or a payload frame is as many mids old as     *)
(* there are frames behind it, and up to lost more; those of the current   *)
(* mid c are sent, and only the like is behind them.                       *)
(***************************************************************************)
InLine(c, W, V, lost) ==
    \A k \in 1..Len(W) : W[k] \in Acks =>
        /\ Age(c, W[k].mid) <= Behind(W, Confirming, k) + Behind(V, Carrying, 0) + lost
        /\ W[k].mid = c => \A l \in 1..Len(V) : V[l] \in Carrying => V[l].mid = c

Sequel(c, sent, V, lost) ==
    \A k \in 1..Len(V) : V[k] \in Carrying =>
        /\ Age(c, V[k].mid) <= Behind(V, Carrying, k) + lost
        /\ V[k].mid = c => V[k] = sent /\ \A l \in k..Len(V) : V[l] \in Carrying => V[l].mid = c

Pipe(c, sent, W, V, lost) == InLine(c, W, V, lost) /\ Sequel(c, sent, V, lost)

OnWay(W, V) == Behind(W, Confirming, 0) + Behind(V, Carrying, 0)

LEMMA OnWayType ==
    ASSUME NEW W \in Seq(Frame), NEW V \in Seq(Frame)
    PROVE  OnWay(W, V) \in Nat /\ Behind(W, Confirming, 0) \in Nat /\ Behind(V, Carrying, 0) \in Nat
<1>1. 0 \in Nat
  OBVIOUS
<1>2. Behind(W, Confirming, 0) \in Nat /\ Behind(V, Carrying, 0) \in Nat
  BY <1>1, BehindType
<1> QED BY <1>2 DEF OnWay

LEMMA KindsOfFrames ==
    /\ \A f \in Frame : f \in Carrying => f \notin Confirming
    /\ Acks \subseteq Confirming /\ Confirming \subseteq Frame /\ Carrying \subseteq Frame
    /\ \A f \in Frame : f.mid \in 0..Modulus-1
BY FrameFields DEF Acks, Confirming, Carrying, IsPayload

LEMMA AgeInLine ==
    ASSUME NEW c \in 0..Modulus-1, NEW s \in Seq(Frame), NEW k \in 1..Len(s)
    PROVE  s[k] \in Frame /\ s[k].mid \in 0..Modulus-1 /\ Age(c, s[k].mid) \in Int /\ Age(c, s[k].mid) >= 0
<1>1. s[k] \in Frame
  BY ElementOfSeq
<1>2. s[k].mid \in 0..Modulus-1
  BY <1>1, FrameFields
<1>3. Age(c, s[k].mid) \in 0..Modulus-1
  BY <1>2, AgeType
<1>4. Modulus - 1 \in Int
  BY LinkAssumption
<1> QED BY <1>1, <1>2, <1>3, <1>4

\* More may have been lost.
LEMMA PipeLoses ==
    ASSUME NEW c \in 0..Modulus-1, NEW sent, NEW W \in Seq(Frame), NEW V \in Seq(Frame),
           NEW a \in Int, NEW b \in Int, a <= b, Pipe(c, sent, W, V, a)
    PROVE  Pipe(c, sent, W, V, b)
<1>1. ASSUME NEW k \in 1..Len(W), W[k] \in Acks
      PROVE  Age(c, W[k].mid) <= Behind(W, Confirming, k) + Behind(V, Carrying, 0) + b
  <2>1. Age(c, W[k].mid) \in Int
    BY AgeInLine
  <2>2. k \in Nat /\ 0 \in Nat
    OBVIOUS
  <2>3. Behind(W, Confirming, k) \in Nat /\ Behind(V, Carrying, 0) \in Nat
    BY <2>2, BehindType
  <2>4. Age(c, W[k].mid) <= Behind(W, Confirming, k) + Behind(V, Carrying, 0) + a
    BY <1>1 DEF Pipe, InLine
  <2> QED BY <2>1, <2>3, <2>4
<1>2. ASSUME NEW k \in 1..Len(V), V[k] \in Carrying
      PROVE  Age(c, V[k].mid) <= Behind(V, Carrying, k) + b
  <2>1. Age(c, V[k].mid) \in Int
    BY AgeInLine
  <2>2. k \in Nat
    OBVIOUS
  <2>3. Behind(V, Carrying, k) \in Nat
    BY <2>2, BehindType
  <2>4. Age(c, V[k].mid) <= Behind(V, Carrying, k) + a
    BY <1>2 DEF Pipe, Sequel
  <2> QED BY <2>1, <2>3, <2>4
<1> QED BY <1>1, <1>2 DEF Pipe, InLine, Sequel

\* The sender reads a frame, or it is lost.
LEMMA PipeRead ==
    ASSUME NEW c, NEW sent, NEW W \in Seq(Frame), NEW V \in Seq(Frame), NEW lost,
           W # <<>>, Pipe(c, sent, W, V, lost)
    PROVE  Pipe(c, sent, Tail(W), V, lost)
<1> DEFINE T == Tail(W)
<1>1. T \in Seq(Frame) /\ Len(T) = Len(W) - 1 /\ \A i \in 1..Len(T) : T[i] = W[i + 1]
  BY HeadTailProperties
<1>2. Len(W) \in Nat /\ Len(T) \in Nat
  BY <1>1
<1>3. \A k \in Nat : Behind(T, Confirming, k) = Behind(W, Confirming, k + 1)
  BY BehindTail
<1> HIDE DEF T
<1>4. InLine(c, T, V, lost)
  <2> SUFFICES ASSUME NEW k \in 1..Len(T), T[k] \in Acks
               PROVE  /\ Age(c, T[k].mid) <= Behind(T, Confirming, k) + Behind(V, Carrying, 0) + lost
                      /\ T[k].mid = c => \A l \in 1..Len(V) : V[l] \in Carrying => V[l].mid = c
    BY DEF InLine
  <2>1. k + 1 \in 1..Len(W) /\ T[k] = W[k + 1] /\ k \in Nat
    BY <1>1, <1>2
  <2>2. Behind(T, Confirming, k) = Behind(W, Confirming, k + 1)
    BY <1>3, <2>1
  <2> QED BY <2>1, <2>2 DEF Pipe, InLine
<1> QED BY <1>4 DEF Pipe, T

\* The peer writes frames that are no acknowledgements.
LEMMA PipeAnswer ==
    ASSUME NEW c \in 0..Modulus-1, NEW sent, NEW W \in Seq(Frame), NEW V \in Seq(Frame), NEW lost \in Int,
           NEW o \in Seq(Frame), \A i \in 1..Len(o) : o[i] \notin Acks, Pipe(c, sent, W, V, lost)
    PROVE  Pipe(c, sent, W \o o, V, lost)
<1> DEFINE T == W \o o
<1>1. /\ T \in Seq(Frame) /\ Len(T) = Len(W) + Len(o)
      /\ \A i \in 1..Len(W) + Len(o) : T[i] = IF i <= Len(W) THEN W[i] ELSE o[i - Len(W)]
  BY ConcatProperties
<1>2. Len(W) \in Nat /\ Len(o) \in Nat /\ 0 \in Nat
  OBVIOUS
<1>3. \A k \in Nat : k <= Len(W) => Behind(T, Confirming, k) = Behind(W, Confirming, k) + Behind(o, Confirming, 0)
  BY BehindMore
<1> HIDE DEF T
<1>4. InLine(c, T, V, lost)
  <2> SUFFICES ASSUME NEW k \in 1..Len(T), T[k] \in Acks
               PROVE  /\ Age(c, T[k].mid) <= Behind(T, Confirming, k) + Behind(V, Carrying, 0) + lost
                      /\ T[k].mid = c => \A l \in 1..Len(V) : V[l] \in Carrying => V[l].mid = c
    BY DEF InLine
  <2>1. k \in Nat /\ k \in 1..Len(W) + Len(o)
    BY <1>1, <1>2
  <2>2. k <= Len(W)
    <3>1. ASSUME ~(k <= Len(W)) PROVE FALSE
      <4>1. T[k] = o[k - Len(W)] /\ k - Len(W) \in 1..Len(o)
        BY <1>1, <1>2, <2>1, <3>1
      <4> QED BY <4>1
    <3> QED BY <3>1
  <2>3. k \in 1..Len(W) /\ T[k] = W[k]
    BY <1>1, <1>2, <2>1, <2>2
  <2>4. Behind(T, Confirming, k) = Behind(W, Confirming, k) + Behind(o, Confirming, 0)
    BY <1>3, <2>1, <2>2
  <2>5. Behind(W, Confirming, k) \in Nat /\ Behind(o, Confirming, 0) \in Nat /\ Behind(V, Carrying, 0) \in Nat
    BY <1>2, <2>1, BehindType
  <2>6. Age(c, W[k].mid) \in Int
    BY <2>3, AgeInLine
  <2>7. /\ Age(c, W[k].mid) <= Behind(W, Confirming, k) + Behind(V, Carrying, 0) + lost
        /\ W[k].mid = c => \A l \in 1..Len(V) : V[l] \in Carrying => V[l].mid = c
    BY <2>3 DEF Pipe, InLine
  <2>8. Age(c, W[k].mid) <= Behind(W, Confirming, k) + Behind(o, Confirming, 0) + Behind(V, Carrying, 0) + lost
    BY <2>5, <2>6, <2>7
  <2> QED BY <2>3, <2>4, <2>7, <2>8
<1> QED BY <1>4 DEF Pipe, T

\* What the peer reads next is whole, and confirmed.
LEMMA PipePass ==
    ASSUME NEW c \in 0..Modulus-1, NEW sent, NEW W \in Seq(Frame), NEW V \in Seq(Frame), NEW lost \in Int,
           V # <<>>, V[1] \in Carrying, NEW o \in Frame, o \in Confirming, o.mid = V[1].mid,
           Pipe(c, sent, W, V, lost)
    PROVE  Pipe(c, sent, W \o <<o>>, Tail(V), lost)
<1> DEFINE T == W \o <<o>>
           X == Tail(V)
           one == <<o>>
<1>1. one \in Seq(Frame) /\ Len(one) = 1 /\ one[1] = o
  OBVIOUS
<1>2. /\ T \in Seq(Frame) /\ Len(T) = Len(W) + 1
      /\ \A i \in 1..Len(W) + 1 : T[i] = IF i <= Len(W) THEN W[i] ELSE o
  <2>1. /\ T \in Seq(Frame) /\ Len(T) = Len(W) + Len(one)
        /\ \A i \in 1..Len(W) + Len(one) : T[i] = IF i <= Len(W) THEN W[i] ELSE one[i - Len(W)]
    BY <1>1, ConcatProperties
  <2> HIDE DEF one, T
  <2>2. \A i \in 1..Len(W) + 1 : ~(i <= Len(W)) => i - Len(W) = 1
    OBVIOUS
  <2> QED BY <1>1, <2>1, <2>2
<1>3. X \in Seq(Frame) /\ Len(X) = Len(V) - 1 /\ \A i \in 1..Len(X) : X[i] = V[i + 1]
  BY HeadTailProperties
<1>4. Len(W) \in Nat /\ Len(V) \in Nat /\ Len(V) >= 1 /\ Len(X) \in Nat /\ 0 \in Nat /\ 1 \in Nat
  BY <1>3, EmptySeq
<1>5. \A k \in Nat : Behind(X, Carrying, k) = Behind(V, Carrying, k + 1)
  BY BehindTail
<1>6. Behind(V, Carrying, 0) = Behind(X, Carrying, 0) + 1 /\ Behind(X, Carrying, 0) \in Nat
  <2>1. Behind(V, Carrying, 0) = Behind(V, Carrying, 1) + 1
    BY BehindHead
  <2>2. 0 + 1 = 1
    OBVIOUS
  <2>3. Behind(X, Carrying, 0) = Behind(V, Carrying, 1)
    BY <1>4, <1>5, <2>2
  <2>4. Behind(X, Carrying, 0) \in Nat
    <3> HIDE DEF X
    <3> QED BY <1>3, <1>4, BehindType
  <2> QED BY <2>1, <2>3, <2>4
<1>7. ASSUME NEW k \in Nat, k <= Len(W) PROVE Behind(T, Confirming, k) = Behind(W, Confirming, k) + 1 /\ Behind(W, Confirming, k) \in Nat
  <2>1. Behind(one, Confirming, 0) = 1
    BY BehindOne
  <2>2. Behind(T, Confirming, k) = Behind(W, Confirming, k) + Behind(one, Confirming, 0)
    <3> HIDE DEF one
    <3> QED BY <1>1, <1>7, BehindMore DEF one
  <2>3. Behind(W, Confirming, k) \in Nat
    BY <1>7, BehindType
  <2> QED BY <2>1, <2>2, <2>3
<1>8. 1 \in 1..Len(V)
  BY <1>4
<1>9. /\ Age(c, V[1].mid) <= Behind(V, Carrying, 1) + lost
      /\ V[1].mid = c => \A l \in 1..Len(V) : V[l] \in Carrying => V[l].mid = c
  BY <1>8 DEF Pipe, Sequel
<1> HIDE DEF T, X, one
<1>10. InLine(c, T, X, lost)
  <2> SUFFICES ASSUME NEW k \in 1..Len(T), T[k] \in Acks
               PROVE  /\ Age(c, T[k].mid) <= Behind(T, Confirming, k) + Behind(X, Carrying, 0) + lost
                      /\ T[k].mid = c => \A l \in 1..Len(X) : X[l] \in Carrying => X[l].mid = c
    BY DEF InLine
  <2>1. CASE k <= Len(W)
    <3>1. k \in 1..Len(W) /\ T[k] = W[k] /\ k \in Nat
      BY <1>2, <1>4, <2>1
    <3>2. /\ Age(c, W[k].mid) <= Behind(W, Confirming, k) + Behind(V, Carrying, 0) + lost
          /\ W[k].mid = c => \A l \in 1..Len(V) : V[l] \in Carrying => V[l].mid = c
      BY <3>1 DEF Pipe, InLine
    <3>3. Behind(T, Confirming, k) = Behind(W, Confirming, k) + 1 /\ Behind(W, Confirming, k) \in Nat
      BY <1>7, <2>1, <3>1
    <3>4. Age(c, W[k].mid) <= Behind(T, Confirming, k) + Behind(X, Carrying, 0) + lost
      BY <1>6, <3>2, <3>3
    <3>5. \A l \in 1..Len(X) : l + 1 \in 1..Len(V)
      BY <1>3, <1>4
    <3> QED BY <1>3, <3>1, <3>2, <3>4, <3>5, SMTT(30)
  <2>2. CASE ~(k <= Len(W))
    <3>1. T[k] = o /\ k \in Nat /\ k >= Len(T)
      BY <1>2, <1>4, <2>2
    <3>2. Behind(T, Confirming, k) = 0
      BY <1>2, <3>1, BehindType
    <3>3. Behind(V, Carrying, 1) = Behind(X, Carrying, 0)
      <4>1. 0 + 1 = 1
        OBVIOUS
      <4> QED BY <1>4, <1>5, <4>1
    <3>4. Age(c, T[k].mid) <= Behind(T, Confirming, k) + Behind(X, Carrying, 0) + lost
      BY <1>6, <1>9, <3>1, <3>2, <3>3
    <3>5. \A l \in 1..Len(X) : l + 1 \in 1..Len(V)
      BY <1>3, <1>4
    <3> QED BY <1>3, <1>9, <3>1, <3>4, <3>5
  <2> QED BY <2>1, <2>2
<1>11. Sequel(c, sent, X, lost)
  <2> SUFFICES ASSUME NEW k \in 1..Len(X), X[k] \in Carrying
               PROVE  /\ Age(c, X[k].mid) <= Behind(X, Carrying, k) + lost
                      /\ X[k].mid = c => X[k] = sent /\ \A l \in k..Len(X) : X[l] \in Carrying => X[l].mid = c
    BY DEF Sequel
  <2>1. k + 1 \in 1..Len(V) /\ X[k] = V[k + 1] /\ k \in Nat
    BY <1>3, <1>4
  <2>2. Behind(X, Carrying, k) = Behind(V, Carrying, k + 1)
    BY <1>5, <2>1
  <2>3. \A l \in k..Len(X) : l + 1 \in k + 1..Len(V) /\ X[l] = V[l + 1]
    BY <1>3, <1>4
  <2>4. /\ Age(c, V[k + 1].mid) <= Behind(V, Carrying, k + 1) + lost
        /\ V[k + 1].mid = c => V[k + 1] = sent /\ \A l \in k + 1..Len(V) : V[l] \in Carrying => V[l].mid = c
    BY <2>1 DEF Pipe, Sequel
  <2> QED BY <2>1, <2>2, <2>3, <2>4, SMTT(30)
<1> QED BY <1>10, <1>11 DEF Pipe, T, X, one

\* The peer reads one that is not, or it is lost.
LEMMA PipeSkip ==
    ASSUME NEW c \in 0..Modulus-1, NEW sent, NEW W \in Seq(Frame), NEW V \in Seq(Frame), NEW lost \in Int,
           V # <<>>, Pipe(c, sent, W, V, lost)
    PROVE  Pipe(c, sent, W, Tail(V), IF V[1] \in Carrying THEN lost + 1 ELSE lost)
<1> DEFINE X == Tail(V)
           more == IF V[1] \in Carrying THEN lost + 1 ELSE lost
<1>1. X \in Seq(Frame) /\ Len(X) = Len(V) - 1 /\ \A i \in 1..Len(X) : X[i] = V[i + 1]
  BY HeadTailProperties
<1>2. Len(W) \in Nat /\ Len(V) \in Nat /\ Len(V) >= 1 /\ Len(X) \in Nat /\ 0 \in Nat /\ 1 \in Nat
  BY <1>1, EmptySeq
<1>3. \A k \in Nat : Behind(X, Carrying, k) = Behind(V, Carrying, k + 1)
  BY BehindTail
<1>4. Behind(V, Carrying, 0) + lost = Behind(X, Carrying, 0) + more /\ Behind(X, Carrying, 0) \in Nat
  <2>1. Behind(V, Carrying, 0) = Behind(V, Carrying, 1) + IF V[1] \in Carrying THEN 1 ELSE 0
    BY BehindHead
  <2>2. Behind(X, Carrying, 0) = Behind(V, Carrying, 0 + 1)
    BY <1>2, <1>3
  <2>3. Behind(X, Carrying, 0) = Behind(V, Carrying, 1)
    BY <2>2
  <2>4. Behind(X, Carrying, 0) \in Nat
    <3> HIDE DEF X
    <3> QED BY <1>1, <1>2, BehindType
  <2> QED BY <2>1, <2>3, <2>4
<1>5. more \in Int /\ lost <= more
  OBVIOUS
<1> HIDE DEF X, more
<1>7. InLine(c, W, X, more)
  <2> SUFFICES ASSUME NEW k \in 1..Len(W), W[k] \in Acks
               PROVE  /\ Age(c, W[k].mid) <= Behind(W, Confirming, k) + Behind(X, Carrying, 0) + more
                      /\ W[k].mid = c => \A l \in 1..Len(X) : X[l] \in Carrying => X[l].mid = c
    BY DEF InLine
  <2>1. /\ Age(c, W[k].mid) <= Behind(W, Confirming, k) + Behind(V, Carrying, 0) + lost
        /\ W[k].mid = c => \A l \in 1..Len(V) : V[l] \in Carrying => V[l].mid = c
    BY DEF Pipe, InLine
  <2>2. Behind(W, Confirming, k) \in Nat /\ Behind(V, Carrying, 0) \in Nat
    <3>1. k \in Nat
      OBVIOUS
    <3> QED BY <1>2, <3>1, BehindType
  <2>3. Age(c, W[k].mid) <= Behind(W, Confirming, k) + Behind(X, Carrying, 0) + more
    <3>1. \A a, w, v, x \in Int : v + lost = x + more /\ a <= w + v + lost => a <= w + x + more
      BY <1>5
    <3>2. Age(c, W[k].mid) \in Int
      BY AgeInLine
    <3>3. Behind(V, Carrying, 0) + lost = Behind(X, Carrying, 0) + more
      BY <1>4
    <3>4. Behind(X, Carrying, 0) \in Int
      BY <1>4
    <3>5. Behind(W, Confirming, k) \in Int /\ Behind(V, Carrying, 0) \in Int
      BY <2>2
    <3>6. Age(c, W[k].mid) <= Behind(W, Confirming, k) + Behind(V, Carrying, 0) + lost
      BY <2>1
    <3> QED BY <3>1, <3>2, <3>3, <3>4, <3>5, <3>6
  <2>4. \A l \in 1..Len(X) : l + 1 \in 1..Len(V)
    BY <1>1, <1>2
  <2> QED BY <1>1, <2>1, <2>3, <2>4
<1>8. Sequel(c, sent, X, more)
  <2> SUFFICES ASSUME NEW k \in 1..Len(X), X[k] \in Carrying
               PROVE  /\ Age(c, X[k].mid) <= Behind(X, Carrying, k) + more
                      /\ X[k].mid = c => X[k] = sent /\ \A l \in k..Len(X) : X[l] \in Carrying => X[l].mid = c
    BY DEF Sequel
  <2>1. k + 1 \in 1..Len(V) /\ X[k] = V[k + 1] /\ k \in Nat
    BY <1>1, <1>2
  <2>2. Behind(X, Carrying, k) = Behind(V, Carrying, k + 1) /\ Behind(X, Carrying, k) \in Nat
    BY <1>1, <1>3, <2>1, BehindType
  <2>3. \A l \in k..Len(X) : l + 1 \in k + 1..Len(V) /\ X[l] = V[l + 1]
    BY <1>1, <1>2
  <2>4. /\ Age(c, V[k + 1].mid) <= Behind(V, Carrying, k + 1) + lost
        /\ V[k + 1].mid = c => V[k + 1] = sent /\ \A l \in k + 1..Len(V) : V[l] \in Carrying => V[l].mid = c
    BY <2>1 DEF Pipe, Sequel
  <2>5. Age(c, V[k + 1].mid) \in Int
    BY <2>1, AgeInLine
  <2>6. Age(c, X[k].mid) <= Behind(X, Carrying, k) + more
    BY <1>5, <2>1, <2>2, <2>4, <2>5
  <2> QED BY <2>1, <2>3, <2>4, <2>6
<1> QED BY <1>7, <1>8 DEF Pipe, X, more

\* The line damages what the peer reads next, or what the sender does.
LEMMA PipeSpoilt ==
    ASSUME NEW c \in 0..Modulus-1, NEW sent, NEW W \in Seq(Frame), NEW V \in Seq(Frame), NEW lost \in Int,
           NEW X \in Seq(Frame), Len(X) = Len(V), X # <<>>, X[1] \notin Carrying,
           \A k \in 2..Len(V) : X[k] = V[k], Pipe(c, sent, W, V, lost)
    PROVE  Pipe(c, sent, W, X, lost + 1)
<1>1. Len(W) \in Nat /\ Len(V) \in Nat /\ Len(V) >= 1 /\ 0 \in Nat /\ 1 \in Nat
  BY EmptySeq
<1>2. ASSUME NEW k \in Nat, k >= 1 PROVE Behind(X, Carrying, k) = Behind(V, Carrying, k) /\ Behind(X, Carrying, k) \in Nat
  <2>1. \A j \in k+1..Len(X) : X[j] = V[j]
    BY <1>1, <1>2
  <2>2. Behind(X, Carrying, k) = Behind(V, Carrying, k)
    BY <1>2, <2>1, BehindSame
  <2>3. Behind(X, Carrying, k) \in Nat
    BY <1>2, BehindType
  <2> QED BY <2>2, <2>3
<1>3. Behind(V, Carrying, 0) <= Behind(X, Carrying, 0) + 1 /\ Behind(X, Carrying, 0) \in Nat /\ Behind(V, Carrying, 0) \in Nat
  <2>1. V # <<>>
    BY <1>1
  <2>2. Behind(V, Carrying, 0) = Behind(V, Carrying, 1) + IF V[1] \in Carrying THEN 1 ELSE 0
    BY <2>1, BehindHead
  <2>3. Behind(X, Carrying, 0) = Behind(X, Carrying, 1) + IF X[1] \in Carrying THEN 1 ELSE 0
    BY BehindHead
  <2>4. Behind(X, Carrying, 1) = Behind(V, Carrying, 1) /\ Behind(X, Carrying, 1) \in Nat
    BY <1>1, <1>2
  <2> QED BY <2>2, <2>3, <2>4
<1>4. InLine(c, W, X, lost + 1)
  <2> SUFFICES ASSUME NEW k \in 1..Len(W), W[k] \in Acks
               PROVE  /\ Age(c, W[k].mid) <= Behind(W, Confirming, k) + Behind(X, Carrying, 0) + (lost + 1)
                      /\ W[k].mid = c => \A l \in 1..Len(X) : X[l] \in Carrying => X[l].mid = c
    BY DEF InLine
  <2>1. /\ Age(c, W[k].mid) <= Behind(W, Confirming, k) + Behind(V, Carrying, 0) + lost
        /\ W[k].mid = c => \A l \in 1..Len(V) : V[l] \in Carrying => V[l].mid = c
    BY DEF Pipe, InLine
  <2>2. Behind(W, Confirming, k) \in Nat
    <3>1. k \in Nat
      OBVIOUS
    <3> QED BY <3>1, BehindType
  <2>3. Age(c, W[k].mid) \in Int
    BY AgeInLine
  <2>4. \A l \in 1..Len(X) : X[l] \in Carrying => l \in 2..Len(V) /\ l \in 1..Len(V) /\ X[l] = V[l]
    BY <1>1
  <2>5. Age(c, W[k].mid) <= Behind(W, Confirming, k) + Behind(X, Carrying, 0) + (lost + 1)
    BY <1>3, <2>1, <2>2, <2>3, SMTT(30)
  <2> QED BY <2>1, <2>4, <2>5
<1>5. Sequel(c, sent, X, lost + 1)
  <2> SUFFICES ASSUME NEW k \in 1..Len(X), X[k] \in Carrying
               PROVE  /\ Age(c, X[k].mid) <= Behind(X, Carrying, k) + (lost + 1)
                      /\ X[k].mid = c => X[k] = sent /\ \A l \in k..Len(X) : X[l] \in Carrying => X[l].mid = c
    BY DEF Sequel
  <2>1. k \in 2..Len(V) /\ k \in 1..Len(V) /\ X[k] = V[k] /\ k \in Nat /\ k >= 1
    BY <1>1
  <2>2. Behind(X, Carrying, k) = Behind(V, Carrying, k) /\ Behind(X, Carrying, k) \in Nat
    BY <1>2, <2>1
  <2>3. \A l \in k..Len(X) : l \in k..Len(V) /\ X[l] = V[l]
    BY <1>1, <2>1
  <2>4. /\ Age(c, V[k].mid) <= Behind(V, Carrying, k) + lost
        /\ V[k].mid = c => V[k] = sent /\ \A l \in k..Len(V) : V[l] \in Carrying => V[l].mid = c
    BY <2>1 DEF Pipe, Sequel
  <2>5. Age(c, V[k].mid) \in Int
    BY <2>1, AgeInLine
  <2>6. Age(c, X[k].mid) <= Behind(X, Carrying, k) + (lost + 1)
    BY <2>1, <2>2, <2>4, <2>5
  <2> QED BY <2>1, <2>3, <2>4, <2>6
<1> QED BY <1>4, <1>5 DEF Pipe

LEMMA PipeHeadSpoilt ==
    ASSUME NEW c, NEW sent, NEW W \in Seq(Frame), NEW V \in Seq(Frame), NEW lost,
           NEW X \in Seq(Frame), Len(X) = Len(W), X[1] \notin Acks,
           \A k \in 2..Len(W) : X[k] = W[k], Pipe(c, sent, W, V, lost)
    PROVE  Pipe(c, sent, X, V, lost)
<1>1. InLine(c, X, V, lost)
  <2> SUFFICES ASSUME NEW k \in 1..Len(X), X[k] \in Acks
               PROVE  /\ Age(c, X[k].mid) <= Behind(X, Confirming, k) + Behind(V, Carrying, 0) + lost
                      /\ X[k].mid = c => \A l \in 1..Len(V) : V[l] \in Carrying => V[l].mid = c
    BY DEF InLine
  <2>1. k \in 2..Len(W) /\ k \in 1..Len(W) /\ X[k] = W[k] /\ k \in Nat
    OBVIOUS
  <2>2. \A j \in k+1..Len(X) : X[j] = W[j]
    BY <2>1
  <2>3. Behind(X, Confirming, k) = Behind(W, Confirming, k)
    BY <2>1, <2>2, BehindSame
  <2> QED BY <2>1, <2>3 DEF Pipe, InLine
<1> QED BY <1>1 DEF Pipe

\* A frame is not behind itself.
LEMMA BehindInside ==
    ASSUME NEW s \in Seq(Frame), NEW F, NEW k \in 1..Len(s), s[k] \in F
    PROVE  Behind(s, F, k) + 1 <= Behind(s, F, 0)
<1> DEFINE S == {j \in k+1..Len(s) : s[j] \in F}
           T == {j \in 0+1..Len(s) : s[j] \in F}
<1>1. k \in Nat /\ Len(s) \in Nat /\ 0 \in Nat /\ k >= 1 /\ k <= Len(s)
  OBVIOUS
<1>2. IsFiniteSet(S) /\ IsFiniteSet(T)
  <2>1. IsFiniteSet({j \in k+1..Len(s) : s[j] \in F})
    BY <1>1, BehindType
  <2>2. IsFiniteSet({j \in 0+1..Len(s) : s[j] \in F})
    BY <1>1, BehindType
  <2> QED BY <2>1, <2>2
<1>3. k \notin S /\ k \in T /\ S \subseteq T
  BY <1>1
<1>4. Cardinality(S) = Behind(s, F, k) /\ Cardinality(T) = Behind(s, F, 0)
  BY DEF Behind
<1> HIDE DEF S, T
<1>5. IsFiniteSet(S \cup {k}) /\ Cardinality(S \cup {k}) = Cardinality(S) + 1
  BY <1>2, <1>3, FS_AddElement
<1>6. S \cup {k} \subseteq T
  BY <1>3
<1>7. Cardinality(S \cup {k}) <= Cardinality(T)
  BY <1>2, <1>6, FS_Subset
<1> QED BY <1>4, <1>5, <1>7

\* One more frame at the end.
LEMMA OneMore ==
    ASSUME NEW V \in Seq(Frame), NEW f \in Frame
    PROVE  /\ V \o <<f>> \in Seq(Frame) /\ Len(V \o <<f>>) = Len(V) + 1
           /\ \A k \in 1..Len(V) : (V \o <<f>>)[k] = V[k]
           /\ (V \o <<f>>)[Len(V) + 1] = f
           /\ \A F : \A k \in Nat : k <= Len(V) =>
                 Behind(V \o <<f>>, F, k) = Behind(V, F, k) + IF f \in F THEN 1 ELSE 0
<1> DEFINE one == <<f>>
           T == V \o one
<1>1. one \in Seq(Frame) /\ Len(one) = 1 /\ one[1] = f
  OBVIOUS
<1>2. /\ T \in Seq(Frame) /\ Len(T) = Len(V) + 1
      /\ \A i \in 1..Len(V) + 1 : T[i] = IF i <= Len(V) THEN V[i] ELSE f
  <2>1. /\ T \in Seq(Frame) /\ Len(T) = Len(V) + Len(one)
        /\ \A i \in 1..Len(V) + Len(one) : T[i] = IF i <= Len(V) THEN V[i] ELSE one[i - Len(V)]
    BY <1>1, ConcatProperties
  <2> HIDE DEF one, T
  <2>2. \A i \in 1..Len(V) + 1 : ~(i <= Len(V)) => i - Len(V) = 1
    OBVIOUS
  <2> QED BY <1>1, <2>1, <2>2
<1>3. Len(V) \in Nat
  OBVIOUS
<1>4. ASSUME NEW F, NEW k \in Nat, k <= Len(V) PROVE Behind(T, F, k) = Behind(V, F, k) + IF f \in F THEN 1 ELSE 0
  <2>1. Behind(one, F, 0) = IF f \in F THEN 1 ELSE 0
    BY BehindOne
  <2>2. Behind(T, F, k) = Behind(V, F, k) + Behind(one, F, 0)
    <3> HIDE DEF one
    <3> QED BY <1>1, <1>4, BehindMore DEF one
  <2> QED BY <2>1, <2>2
<1> HIDE DEF T
<1>5. (\A k \in 1..Len(V) : T[k] = V[k]) /\ T[Len(V) + 1] = f
  <2>1. Len(V) + 1 \in 1..Len(V) + 1 /\ ~(Len(V) + 1 <= Len(V))
    BY <1>3
  <2>2. \A k \in 1..Len(V) : k \in 1..Len(V) + 1 /\ k <= Len(V)
    BY <1>3
  <2> QED BY <1>2, <2>1, <2>2
<1> QED BY <1>2, <1>4, <1>5 DEF T

\* The sender writes frames that are no payload.
LEMMA PipeWrite ==
    ASSUME NEW c, NEW sent, NEW W \in Seq(Frame), NEW V \in Seq(Frame), NEW lost,
           NEW f \in Frame, f \notin Carrying, Pipe(c, sent, W, V, lost)
    PROVE  Pipe(c, sent, W, V \o <<f>>, lost)
<1> DEFINE T == V \o <<f>>
<1>1. /\ T \in Seq(Frame) /\ Len(T) = Len(V) + 1 /\ \A k \in 1..Len(V) : T[k] = V[k]
      /\ T[Len(V) + 1] = f
  BY OneMore
<1>2. \A k \in Nat : k <= Len(V) => Behind(T, Carrying, k) = Behind(V, Carrying, k) + IF f \in Carrying THEN 1 ELSE 0
  BY OneMore
<1> HIDE DEF T
<1>3. Len(V) \in Nat /\ 0 \in Nat /\ 0 <= Len(V)
  OBVIOUS
<1>4. \A k \in Nat : k <= Len(V) => Behind(T, Carrying, k) = Behind(V, Carrying, k)
  <2> SUFFICES ASSUME NEW k \in Nat, k <= Len(V) PROVE Behind(T, Carrying, k) = Behind(V, Carrying, k)
    OBVIOUS
  <2>1. Behind(V, Carrying, k) \in Nat
    BY BehindType
  <2> QED BY <1>2, <2>1
<1>5. \A k \in 1..Len(T) : T[k] \in Carrying => k \in 1..Len(V) /\ T[k] = V[k]
  <2>1. \A k \in 1..Len(T) : k \in 1..Len(V) \/ k = Len(V) + 1
    BY <1>1, <1>3
  <2> QED BY <1>1, <2>1
<1>6. InLine(c, W, T, lost)
  BY <1>3, <1>4, <1>5 DEF Pipe, InLine
<1>7. Sequel(c, sent, T, lost)
  <2> SUFFICES ASSUME NEW k \in 1..Len(T), T[k] \in Carrying
               PROVE  /\ Age(c, T[k].mid) <= Behind(T, Carrying, k) + lost
                      /\ T[k].mid = c => T[k] = sent /\ \A l \in k..Len(T) : T[l] \in Carrying => T[l].mid = c
    BY DEF Sequel
  <2>1. k \in 1..Len(V) /\ T[k] = V[k] /\ k \in Nat /\ k <= Len(V)
    BY <1>5
  <2>2. Behind(T, Carrying, k) = Behind(V, Carrying, k)
    BY <1>4, <2>1
  <2>3. \A l \in k..Len(T) : T[l] \in Carrying => l \in k..Len(V) /\ T[l] = V[l]
    <3>1. \A l \in k..Len(T) : l \in 1..Len(T)
      BY <2>1
    <3>2. \A l \in k..Len(T) : l \in 1..Len(V) => l \in k..Len(V)
      BY <2>1
    <3> QED BY <1>5, <3>1, <3>2
  <2>4. /\ Age(c, V[k].mid) <= Behind(V, Carrying, k) + lost
        /\ V[k].mid = c => V[k] = sent /\ \A l \in k..Len(V) : V[l] \in Carrying => V[l].mid = c
    BY <2>1 DEF Pipe, Sequel
  <2> QED BY <2>1, <2>2, <2>3, <2>4
<1> QED BY <1>6, <1>7 DEF Pipe, T

\* It sends its last frame again.
LEMMA PipeResend ==
    ASSUME NEW c \in 0..Modulus-1, NEW f \in Frame, NEW W \in Seq(Frame), NEW V \in Seq(Frame), NEW lost \in Nat,
           f \in Carrying, f.mid = c, Pipe(c, f, W, V, lost)
    PROVE  Pipe(c, f, W, V \o <<f>>, lost)
<1> DEFINE T == V \o <<f>>
<1>1. /\ T \in Seq(Frame) /\ Len(T) = Len(V) + 1 /\ \A k \in 1..Len(V) : T[k] = V[k]
      /\ T[Len(V) + 1] = f
  BY OneMore
<1>2. \A k \in Nat : k <= Len(V) => Behind(T, Carrying, k) = Behind(V, Carrying, k) + IF f \in Carrying THEN 1 ELSE 0
  BY OneMore
<1> HIDE DEF T
<1>3. Len(V) \in Nat /\ 0 \in Nat /\ 0 <= Len(V)
  OBVIOUS
<1>4. \A k \in Nat : k <= Len(V) => Behind(T, Carrying, k) = Behind(V, Carrying, k) + 1 /\ Behind(V, Carrying, k) \in Nat
  BY <1>2, BehindType
<1>5. \A k \in 1..Len(T) : (k \in 1..Len(V) /\ T[k] = V[k]) \/ (k = Len(V) + 1 /\ T[k] = f)
  <2>1. \A k \in 1..Len(T) : k \in 1..Len(V) \/ k = Len(V) + 1
    BY <1>1, <1>3
  <2> QED BY <1>1, <2>1
<1>6. InLine(c, W, T, lost)
  <2> SUFFICES ASSUME NEW k \in 1..Len(W), W[k] \in Acks
               PROVE  /\ Age(c, W[k].mid) <= Behind(W, Confirming, k) + Behind(T, Carrying, 0) + lost
                      /\ W[k].mid = c => \A l \in 1..Len(T) : T[l] \in Carrying => T[l].mid = c
    BY DEF InLine
  <2>1. /\ Age(c, W[k].mid) <= Behind(W, Confirming, k) + Behind(V, Carrying, 0) + lost
        /\ W[k].mid = c => \A l \in 1..Len(V) : V[l] \in Carrying => V[l].mid = c
    BY DEF Pipe, InLine
  <2>2. Behind(W, Confirming, k) \in Nat
    <3>1. k \in Nat
      OBVIOUS
    <3> QED BY <3>1, BehindType
  <2>3. Age(c, W[k].mid) \in Int
    BY AgeInLine
  <2>4. Behind(T, Carrying, 0) = Behind(V, Carrying, 0) + 1 /\ Behind(V, Carrying, 0) \in Nat
    BY <1>3, <1>4
  <2>5. Age(c, W[k].mid) <= Behind(W, Confirming, k) + Behind(T, Carrying, 0) + lost
    BY <2>1, <2>2, <2>3, <2>4
  <2> QED BY <1>5, <2>1, <2>5
<1>7. Sequel(c, f, T, lost)
  <2> SUFFICES ASSUME NEW k \in 1..Len(T), T[k] \in Carrying
               PROVE  /\ Age(c, T[k].mid) <= Behind(T, Carrying, k) + lost
                      /\ T[k].mid = c => T[k] = f /\ \A l \in k..Len(T) : T[l] \in Carrying => T[l].mid = c
    BY DEF Sequel
  <2>1. CASE k \in 1..Len(V) /\ T[k] = V[k]
    <3>1. k \in Nat /\ k <= Len(V) /\ T[k] = V[k]
      BY <2>1
    <3>2. Behind(T, Carrying, k) = Behind(V, Carrying, k) + 1 /\ Behind(V, Carrying, k) \in Nat
      BY <1>4, <3>1
    <3>3. \A l \in k..Len(T) : l \in 1..Len(T) /\ (l \in 1..Len(V) => l \in k..Len(V))
      BY <3>1
    <3>4. /\ Age(c, V[k].mid) <= Behind(V, Carrying, k) + lost
          /\ V[k].mid = c => V[k] = f /\ \A l \in k..Len(V) : V[l] \in Carrying => V[l].mid = c
      BY <2>1 DEF Pipe, Sequel
    <3>5. Age(c, V[k].mid) \in Int
      BY <2>1, AgeInLine
    <3>6. Age(c, T[k].mid) <= Behind(T, Carrying, k) + lost
      BY <3>1, <3>2, <3>4, <3>5
    <3> QED BY <1>5, <3>1, <3>3, <3>4, <3>6
  <2>2. CASE k = Len(V) + 1 /\ T[k] = f
    <3>1. k \in Nat /\ k >= Len(T)
      BY <1>1, <1>3, <2>2
    <3>2. Behind(T, Carrying, k) = 0
      BY <1>1, <3>1, BehindType
    <3>3. Age(c, T[k].mid) = 0
      BY <2>2, AgeType
    <3>4. \A l \in k..Len(T) : l = k
      BY <1>1, <1>3, <2>2
    <3> QED BY <2>2, <3>2, <3>3, <3>4
  <2> QED BY <1>5, <2>1, <2>2
<1> QED BY <1>6, <1>7 DEF Pipe, T

\* All that is under way is younger than the mids go round.
LEMMA AgesBounded ==
    ASSUME NEW c \in 0..Modulus-1, NEW sent, NEW W \in Seq(Frame), NEW V \in Seq(Frame), NEW lost \in Nat,
           Pipe(c, sent, W, V, lost), OnWay(W, V) + lost < Modulus
    PROVE  /\ \A k \in 1..Len(W) : W[k] \in Acks =>
                 Age(c, W[k].mid) < Modulus - 1 /\ W[k].mid # NextMid(c)
           /\ \A k \in 1..Len(V) : V[k] \in Carrying =>
                 Age(c, V[k].mid) < Modulus - 1 /\ V[k].mid # NextMid(c)
<1>1. Modulus \in Nat /\ 0 \in Nat
  BY LinkAssumption
<1>2. /\ OnWay(W, V) = Behind(W, Confirming, 0) + Behind(V, Carrying, 0)
      /\ Behind(W, Confirming, 0) \in Nat /\ Behind(V, Carrying, 0) \in Nat
  BY OnWayType DEF OnWay
<1>3. ASSUME NEW k \in 1..Len(W), W[k] \in Acks
      PROVE  Age(c, W[k].mid) < Modulus - 1 /\ W[k].mid # NextMid(c)
  <2>1. Age(c, W[k].mid) \in Int /\ W[k].mid \in 0..Modulus-1
    BY AgeInLine
  <2>2. Age(c, W[k].mid) <= Behind(W, Confirming, k) + Behind(V, Carrying, 0) + lost
    BY <1>3 DEF Pipe, InLine
  <2>3. Behind(W, Confirming, k) + 1 <= Behind(W, Confirming, 0)
    BY <1>3, BehindInside, KindsOfFrames
  <2>4. Behind(W, Confirming, k) \in Nat
    <3>1. k \in Nat
      OBVIOUS
    <3> QED BY <3>1, BehindType
  <2>5. Age(c, W[k].mid) < Modulus - 1
    BY <1>1, <1>2, <2>1, <2>2, <2>3, <2>4, SMTT(30)
  <2> QED BY <2>1, <2>5, NextAge
<1>4. ASSUME NEW k \in 1..Len(V), V[k] \in Carrying
      PROVE  Age(c, V[k].mid) < Modulus - 1 /\ V[k].mid # NextMid(c)
  <2>1. Age(c, V[k].mid) \in Int /\ V[k].mid \in 0..Modulus-1
    BY AgeInLine
  <2>2. Age(c, V[k].mid) <= Behind(V, Carrying, k) + lost
    BY <1>4 DEF Pipe, Sequel
  <2>3. Behind(V, Carrying, k) + 1 <= Behind(V, Carrying, 0)
    BY <1>4, BehindInside
  <2>4. Behind(V, Carrying, k) \in Nat
    <3>1. k \in Nat
      OBVIOUS
    <3> QED BY <3>1, BehindType
  <2>5. Age(c, V[k].mid) < Modulus - 1
    BY <1>1, <1>2, <2>1, <2>2, <2>3, <2>4
  <2> QED BY <2>1, <2>5, NextAge
<1> QED BY <1>3, <1>4

\* It sends the next one.
LEMMA PipeAdvance ==
    ASSUME NEW c \in 0..Modulus-1, NEW sent, NEW f \in Frame, NEW W \in Seq(Frame), NEW V \in Seq(Frame),
           NEW lost \in Nat,
           f \in Carrying, f.mid = NextMid(c), Pipe(c, sent, W, V, lost), OnWay(W, V) + lost < Modulus
    PROVE  Pipe(NextMid(c), f, W, V \o <<f>>, lost)
<1> DEFINE T == V \o <<f>>
           d == NextMid(c)
<1>1. /\ T \in Seq(Frame) /\ Len(T) = Len(V) + 1 /\ \A k \in 1..Len(V) : T[k] = V[k]
      /\ T[Len(V) + 1] = f
  BY OneMore
<1>2. \A k \in Nat : k <= Len(V) => Behind(T, Carrying, k) = Behind(V, Carrying, k) + IF f \in Carrying THEN 1 ELSE 0
  BY OneMore
<1> HIDE DEF T
<1>3. Len(V) \in Nat /\ 0 \in Nat /\ 0 <= Len(V) /\ d \in 0..Modulus-1
  BY NextAge
<1>4. \A k \in Nat : k <= Len(V) => Behind(T, Carrying, k) = Behind(V, Carrying, k) + 1 /\ Behind(V, Carrying, k) \in Nat
  BY <1>2, BehindType
<1>5. \A k \in 1..Len(T) : (k \in 1..Len(V) /\ T[k] = V[k]) \/ (k = Len(V) + 1 /\ T[k] = f)
  <2>1. \A k \in 1..Len(T) : k \in 1..Len(V) \/ k = Len(V) + 1
    BY <1>1, <1>3
  <2> QED BY <1>1, <2>1
<1>6. \A mid \in 0..Modulus-1 : Age(c, mid) < Modulus - 1 => Age(d, mid) = Age(c, mid) + 1
  BY NextAge
<1>7. d = NextMid(c)
  OBVIOUS
<1> HIDE DEF d
<1>8. InLine(d, W, T, lost)
  <2> SUFFICES ASSUME NEW k \in 1..Len(W), W[k] \in Acks
               PROVE  /\ Age(d, W[k].mid) <= Behind(W, Confirming, k) + Behind(T, Carrying, 0) + lost
                      /\ W[k].mid = d => \A l \in 1..Len(T) : T[l] \in Carrying => T[l].mid = d
    BY DEF InLine
  <2>1. Age(c, W[k].mid) <= Behind(W, Confirming, k) + Behind(V, Carrying, 0) + lost
    BY DEF Pipe, InLine
  <2>2. Behind(W, Confirming, k) \in Nat
    <3>1. k \in Nat
      OBVIOUS
    <3> QED BY <3>1, BehindType
  <2>3. Age(c, W[k].mid) \in Int /\ W[k].mid \in 0..Modulus-1
    BY AgeInLine
  <2>4. Behind(T, Carrying, 0) = Behind(V, Carrying, 0) + 1 /\ Behind(V, Carrying, 0) \in Nat
    BY <1>3, <1>4
  <2>5. Age(c, W[k].mid) < Modulus - 1 /\ W[k].mid # d
    BY <1>7, AgesBounded
  <2>6. Age(d, W[k].mid) = Age(c, W[k].mid) + 1
    BY <1>6, <2>3, <2>5
  <2>7. Age(d, W[k].mid) <= Behind(W, Confirming, k) + Behind(T, Carrying, 0) + lost
    BY <2>1, <2>2, <2>3, <2>4, <2>6
  <2> QED BY <2>5, <2>7
<1>9. Sequel(d, f, T, lost)
  <2> SUFFICES ASSUME NEW k \in 1..Len(T), T[k] \in Carrying
               PROVE  /\ Age(d, T[k].mid) <= Behind(T, Carrying, k) + lost
                      /\ T[k].mid = d => T[k] = f /\ \A l \in k..Len(T) : T[l] \in Carrying => T[l].mid = d
    BY DEF Sequel
  <2>1. CASE k \in 1..Len(V) /\ T[k] = V[k]
    <3>1. k \in Nat /\ k <= Len(V) /\ T[k] = V[k]
      BY <2>1
    <3>2. Behind(T, Carrying, k) = Behind(V, Carrying, k) + 1 /\ Behind(V, Carrying, k) \in Nat
      BY <1>4, <3>1
    <3>3. Age(c, V[k].mid) <= Behind(V, Carrying, k) + lost
      BY <2>1 DEF Pipe, Sequel
    <3>4. Age(c, V[k].mid) \in Int /\ V[k].mid \in 0..Modulus-1
      BY <2>1, AgeInLine
    <3>5. Age(c, V[k].mid) < Modulus - 1 /\ V[k].mid # d
      BY <1>7, <2>1, AgesBounded
    <3>6. Age(d, V[k].mid) = Age(c, V[k].mid) + 1
      BY <1>6, <3>4, <3>5
    <3>7. Age(d, T[k].mid) <= Behind(T, Carrying, k) + lost
      BY <3>1, <3>2, <3>3, <3>4, <3>6
    <3> QED BY <3>1, <3>5, <3>7
  <2>2. CASE k = Len(V) + 1 /\ T[k] = f
    <3>1. k \in Nat /\ k >= Len(T)
      BY <1>1, <1>3, <2>2
    <3>2. Behind(T, Carrying, k) = 0
      BY <1>1, <3>1, BehindType
    <3>3. Age(d, T[k].mid) = 0 /\ T[k].mid = d
      BY <1>3, <1>7, <2>2, AgeType
    <3>4. \A l \in k..Len(T) : l = k
      BY <1>1, <1>3, <2>2
    <3> QED BY <2>2, <3>2, <3>3, <3>4
  <2> QED BY <1>5, <2>1, <2>2
<1> QED BY <1>8, <1>9 DEF Pipe, T, d

-----------------------------------------------------------------------------
(* How many there are.                                                      *)
LEMMA OnWayTails ==
    ASSUME NEW W \in Seq(Frame), NEW V \in Seq(Frame)
    PROVE  /\ W # <<>> => OnWay(W, V) = OnWay(Tail(W), V) + IF W[1] \in Confirming THEN 1 ELSE 0
           /\ V # <<>> => OnWay(W, V) = OnWay(W, Tail(V)) + IF V[1] \in Carrying THEN 1 ELSE 0
<1>1. ASSUME NEW s \in Seq(Frame), s # <<>>, NEW F
      PROVE  Behind(s, F, 0) = Behind(Tail(s), F, 0) + (IF s[1] \in F THEN 1 ELSE 0) /\ Behind(Tail(s), F, 0) \in Nat
  <2>1. Behind(s, F, 0) = Behind(s, F, 1) + IF s[1] \in F THEN 1 ELSE 0
    BY <1>1, BehindHead
  <2>2. 0 \in Nat
    OBVIOUS
  <2>3. Behind(Tail(s), F, 0) = Behind(s, F, 0 + 1)
    BY <1>1, <2>2, BehindTail
  <2>4. Behind(Tail(s), F, 0) = Behind(s, F, 1)
    BY <2>3
  <2>5. Tail(s) \in Seq(Frame)
    BY <1>1, HeadTailProperties
  <2>6. Behind(Tail(s), F, 0) \in Nat
    BY <2>2, <2>5, BehindType
  <2> QED BY <2>1, <2>4, <2>6
<1>2. Behind(W, Confirming, 0) \in Nat /\ Behind(V, Carrying, 0) \in Nat
  BY OnWayType
<1>3. ASSUME W # <<>> PROVE OnWay(W, V) = OnWay(Tail(W), V) + IF W[1] \in Confirming THEN 1 ELSE 0
  <2>1. Behind(W, Confirming, 0) = Behind(Tail(W), Confirming, 0) + (IF W[1] \in Confirming THEN 1 ELSE 0)
        /\ Behind(Tail(W), Confirming, 0) \in Nat
    BY <1>1, <1>3
  <2> QED BY <1>2, <2>1 DEF OnWay
<1>4. ASSUME V # <<>> PROVE OnWay(W, V) = OnWay(W, Tail(V)) + IF V[1] \in Carrying THEN 1 ELSE 0
  <2>1. Behind(V, Carrying, 0) = Behind(Tail(V), Carrying, 0) + (IF V[1] \in Carrying THEN 1 ELSE 0)
        /\ Behind(Tail(V), Carrying, 0) \in Nat
    BY <1>1, <1>4
  <2> QED BY <1>2, <2>1 DEF OnWay
<1> QED BY <1>3, <1>4

LEMMA OnWayMore ==
    ASSUME NEW W \in Seq(Frame), NEW V \in Seq(Frame), NEW f \in Frame
    PROVE  /\ OnWay(W \o <<f>>, V) = OnWay(W, V) + IF f \in Confirming THEN 1 ELSE 0
           /\ OnWay(W, V \o <<f>>) = OnWay(W, V) + IF f \in Carrying THEN 1 ELSE 0
<1>1. Behind(W, Confirming, 0) \in Nat /\ Behind(V, Carrying, 0) \in Nat
  BY OnWayType
<1>2. 0 \in Nat /\ 0 <= Len(W) /\ 0 <= Len(V)
  OBVIOUS
<1>3. Behind(W \o <<f>>, Confirming, 0) = Behind(W, Confirming, 0) + IF f \in Confirming THEN 1 ELSE 0
  BY <1>2, OneMore
<1>4. Behind(V \o <<f>>, Carrying, 0) = Behind(V, Carrying, 0) + IF f \in Carrying THEN 1 ELSE 0
  BY <1>2, OneMore
<1> QED BY <1>1, <1>3, <1>4 DEF OnWay

\* Several of the like at the end of what the sender reads, none of them an
\* acknowledgement.
LEMMA OnWayMany ==
    ASSUME NEW W \in Seq(Frame), NEW V \in Seq(Frame), NEW o \in Seq(Frame)
    PROVE  OnWay(W \o o, V) <= OnWay(W, V) + Len(o)
<1>1. 0 \in Nat /\ 0 <= Len(W) /\ 0 <= Len(o) /\ Len(o) \in Nat
  OBVIOUS
<1>2. Behind(W \o o, Confirming, 0) = Behind(W, Confirming, 0) + Behind(o, Confirming, 0)
  BY <1>1, BehindMore
<1>3. Behind(o, Confirming, 0) <= Len(o) - 0 /\ Behind(o, Confirming, 0) \in Nat
  BY <1>1, BehindType
<1>4. Behind(W, Confirming, 0) \in Nat /\ Behind(V, Carrying, 0) \in Nat
  BY OnWayType
<1> QED BY <1>1, <1>2, <1>3, <1>4 DEF OnWay

\* The head of what the sender or the peer reads next is spoilt.
LEMMA OnWaySpoilt ==
    ASSUME NEW s \in Seq(Frame), NEW X \in Seq(Frame), Len(X) = Len(s), X # <<>>, NEW F, X[1] \notin F,
           \A k \in 2..Len(s) : X[k] = s[k]
    PROVE  Behind(X, F, 0) <= Behind(s, F, 0)
<1>1. Len(s) \in Nat /\ Len(s) >= 1 /\ 0 \in Nat /\ 1 \in Nat /\ s # <<>>
  BY EmptySeq
<1>2. Behind(s, F, 0) = Behind(s, F, 1) + IF s[1] \in F THEN 1 ELSE 0
  BY <1>1, BehindHead
<1>3. Behind(X, F, 0) = Behind(X, F, 1) + 0
  <2>1. Behind(X, F, 0) = Behind(X, F, 1) + IF X[1] \in F THEN 1 ELSE 0
    BY BehindHead
  <2> QED BY <2>1
<1>4. \A j \in 1+1..Len(X) : X[j] = s[j]
  OBVIOUS
<1>5. Behind(X, F, 1) = Behind(s, F, 1)
  BY <1>1, <1>4, BehindSame
<1>6. Behind(s, F, 1) \in Nat
  BY <1>1, BehindType
<1> QED BY <1>2, <1>3, <1>5, <1>6

(***************************************************************************)
(* What the sender of an end does, by the frame it has sent last.          *)
(***************************************************************************)
\* The frame an end may send again is the one its counters speak of, and it
\* waits for no other.
Holds(q) ==
    /\ q.sent # None => /\ q.msg \in Msg /\ q.popped \in 1..Frames[q.msg]
                        /\ q.sent = PayloadFrame(q.msg, q.popped, q.mid)
    /\ q.sender = "WaitForAck" => q.needAck = q.mid /\ q.sent # None

\* The frame and the counters stay.
Stays(p, q) == q.mid = p.mid /\ q.sent = p.sent /\ q.msg = p.msg /\ q.popped = p.popped

Silent(p, q) ==
    /\ Stays(p, q) /\ q.completed = p.completed
    /\ q.out = <<>> /\ q.sender = "Idle"

Resent(p, q) ==
    /\ Stays(p, q) /\ q.completed = p.completed
    /\ p.sent # None /\ q.out = <<p.sent>> /\ q.sender = "WaitForAck" /\ q.needAck = q.mid

Advanced(p, q) ==
    /\ q.mid = NextMid(p.mid) /\ q.needAck = q.mid
    /\ q.msg \in Msg /\ q.popped \in 1..Frames[q.msg]
    /\ q.sent = PayloadFrame(q.msg, q.popped, q.mid)
    /\ q.out = <<q.sent>> /\ q.sender = "WaitForAck"

Begun(p, q) == Advanced(p, q) /\ q.popped = 1 /\ q.completed = p.completed

Moves(p, q) == Silent(p, q) \/ Resent(p, q) \/ Begun(p, q)

\* The frame was confirmed: the next one is sent, or the message is complete.
Continues(p, q) ==
    Advanced(p, q) /\ q.msg = p.msg /\ q.popped = p.popped + 1 /\ q.completed = p.completed

Completes(p, q) ==
    /\ p.popped = Frames[p.msg] /\ q.completed = p.completed \cup {p.msg}
    /\ \/ Stays(p, q) /\ q.out = <<>> /\ q.sender = "Idle"
       \/ Advanced(p, q) /\ q.popped = 1

Confirmed(p, q) == Continues(p, q) \/ Completes(p, q)

\* The same frame, counters and output.
Level(p, r) == Stays(p, r) /\ r.completed = p.completed /\ r.out = p.out /\ r.queue = p.queue

LEMMA LevelMoves ==
    ASSUME NEW p, NEW r, Level(p, r)
    PROVE  /\ \A q : Moves(r, q) => Moves(p, q)
           /\ \A q : Begun(r, q) => Begun(p, q)
BY DEF Level, Stays, Moves, Silent, Resent, Begun, Advanced

LEMMA ChangesLevel ==
    ASSUME NEW p \in Endpoint
    PROVE  /\ \A errors \in Int : Level(p, [p EXCEPT !.errors = errors])
           /\ \A timeouts \in Int : Level(p, [p EXCEPT !.timeouts = timeouts])
           /\ Level(p, [p EXCEPT !.timer = FALSE])
           /\ Level(p, [p EXCEPT !.timer = FALSE, !.errors = 0, !.timeouts = 0, !.sender = "Idle"])
BY DEF Level, Stays, Endpoint

LEMMA AdvancedBy ==
    ASSUME NEW p \in Endpoint, p.msg \in Msg, p.popped + 1 <= Frames[p.msg], p.out = <<>>
    PROVE  LET q == SendPayloadFrame(p) IN
           Advanced(p, q) /\ q.msg = p.msg /\ q.popped = p.popped + 1 /\ q.completed = p.completed
<1> DEFINE k == p.popped + 1
           mid == (p.mid + 1) % Modulus
           f == PayloadFrame(p.msg, k, mid)
           o == Append(p.out, f)
           q == [p EXCEPT !.popped = k, !.mid = mid, !.needAck = mid, !.sent = f,
                          !.sender = "WaitForAck", !.timer = TRUE, !.out = o]
<1>1. o = <<f>> /\ SendPayloadFrame(p) = q /\ mid = NextMid(p.mid)
  BY DEF SendPayloadFrame, NextMid
<1>2. k \in 1..Frames[p.msg] /\ k = p.popped + 1
  <2>1. p.popped \in Nat /\ Frames[p.msg] \in Nat
    BY LinkAssumption DEF Endpoint
  <2> QED BY <2>1
<1>3. f = PayloadFrame(p.msg, k, mid)
  OBVIOUS
<1> HIDE DEF k, mid, f, o
<1>4. /\ q.popped = k /\ q.mid = mid /\ q.needAck = mid /\ q.sent = f /\ q.sender = "WaitForAck"
      /\ q.out = o /\ q.msg = p.msg /\ q.completed = p.completed
  BY DEF Endpoint
<1> HIDE DEF q
<1> QED BY <1>1, <1>2, <1>3, <1>4 DEF Advanced

LEMMA BegunBy ==
    ASSUME NEW p \in Endpoint, p.out = <<>>
    PROVE  IF p.queue = <<>> THEN StartMessage(p) = p ELSE Begun(p, StartMessage(p))
<1>1. CASE p.queue = <<>>
  BY <1>1 DEF StartMessage
<1>2. CASE p.queue # <<>>
  <2> DEFINE q == [p EXCEPT !.msg = Head(p.queue), !.popped = 0, !.queue = Tail(p.queue)]
  <2>1. StartMessage(p) = SendPayloadFrame(q)
    BY <1>2 DEF StartMessage
  <2>2. Head(p.queue) \in Msg /\ Tail(p.queue) \in Seq(Msg)
    BY <1>2, HeadTailProperties DEF Endpoint
  <2>3. /\ q \in Endpoint /\ q.msg \in Msg /\ q.out = <<>> /\ q.popped = 0 /\ q.mid = p.mid
        /\ q.completed = p.completed
    BY <2>2 DEF Endpoint
  <2> HIDE DEF q
  <2>4. Frames[q.msg] \in Nat \ {0}
    BY <2>3, LinkAssumption
  <2>5. q.popped + 1 = 1 /\ 1 <= Frames[q.msg]
    BY <2>3, <2>4
  <2> DEFINE r == SendPayloadFrame(q)
  <2>6. Advanced(q, r) /\ r.popped = 1 /\ r.completed = p.completed
    BY <2>3, <2>5, AdvancedBy
  <2> HIDE DEF r
  <2>7. Begun(p, r)
    BY <2>3, <2>6 DEF Advanced, Begun
  <2> QED BY <1>2, <2>1, <2>7 DEF r
<1> QED BY <1>1, <1>2

LEMMA ResentBy ==
    ASSUME NEW p, CanResend(p), Holds(p), p.out = <<>>
    PROVE  Resent(p, ResendPayloadFrame(p))
<1> DEFINE mid == p.sent.mid
           c == Append(p.out, p.sent)
           q == [p EXCEPT !.out = c, !.sender = "WaitForAck", !.needAck = mid, !.timer = TRUE]
<1>1. p \in Endpoint /\ p.sent # None /\ p.sent = PayloadFrame(p.msg, p.popped, p.mid)
  BY NoneAssumption DEF CanResend, Holds
<1>2. mid = p.mid
  BY <1>1 DEF PayloadFrame
<1>3. c = <<p.sent>> /\ ResendPayloadFrame(p) = q
  BY DEF ResendPayloadFrame
<1> HIDE DEF mid, c
<1>4. /\ q.mid = p.mid /\ q.sent = p.sent /\ q.msg = p.msg /\ q.popped = p.popped
      /\ q.completed = p.completed /\ q.out = c /\ q.sender = "WaitForAck" /\ q.needAck = mid
  BY <1>1 DEF Endpoint
<1> HIDE DEF q
<1> QED BY <1>1, <1>2, <1>3, <1>4 DEF Resent, Stays

LEMMA GivenUp ==
    ASSUME NEW p, CanResend(p), p.out = <<>>
    PROVE  Silent(p, GiveUp(p)) /\ Silent(p, [GiveUp(p) EXCEPT !.errors = 0])
<1> DEFINE dropped == p.dropped \cup {p.msg}
           q == [p EXCEPT !.sender = "Idle", !.timer = FALSE, !.dropped = dropped]
           r == [q EXCEPT !.errors = 0]
<1>1. p \in Endpoint /\ GiveUp(p) = q
  BY DEF CanResend, GiveUp
<1> HIDE DEF dropped
<1>2. /\ q.mid = p.mid /\ q.sent = p.sent /\ q.msg = p.msg /\ q.popped = p.popped
      /\ q.completed = p.completed /\ q.out = p.out /\ q.sender = "Idle"
  BY <1>1 DEF Endpoint
<1>3. /\ r.mid = p.mid /\ r.sent = p.sent /\ r.msg = p.msg /\ r.popped = p.popped
      /\ r.completed = p.completed /\ r.out = p.out /\ r.sender = "Idle"
  BY <1>1 DEF Endpoint
<1> HIDE DEF q, r
<1> QED BY <1>1, <1>2, <1>3 DEF Silent, Stays, r

LEMMA ErrorMoves ==
    ASSUME NEW p, CanResend(p), Holds(p), p.needAck = p.mid, p.out = <<>>
    PROVE  Moves(p, ErrorInConfirmation(p))
<1> DEFINE n == p.errors + 1
           q == [p EXCEPT !.errors = n]
<1>1. p \in Endpoint /\ n \in Int
  BY DEF CanResend, Endpoint
<1>2. ErrorInConfirmation(p) \in {ResendPayloadFrame(q), [GiveUp(p) EXCEPT !.errors = 0]}
  BY DEF ErrorInConfirmation
<1> HIDE DEF n
<1>3. Level(p, q) /\ CanResend(q)
  BY <1>1, ChangesLevel, CountersSet DEF CanResend
<1>4. q.needAck = p.needAck
  BY <1>1 DEF Endpoint
<1> HIDE DEF q
<1>5. Holds(q) /\ q.out = <<>>
  BY <1>3, <1>4, NoneAssumption DEF Level, Stays, Holds, CanResend
<1>6. Moves(q, ResendPayloadFrame(q))
  BY <1>3, <1>5, ResentBy DEF Moves
<1> QED BY <1>2, <1>3, <1>6, GivenUp, LevelMoves DEF Moves

LEMMA GotNakMoves ==
    ASSUME NEW p, CanResend(p), Holds(p), p.sender = "WaitForAck", p.out = <<>>
    PROVE  Moves(p, GotNak(p))
<1> DEFINE r == [p EXCEPT !.timer = FALSE]
<1>1. p \in Endpoint /\ p.needAck = p.mid
  BY DEF CanResend, Holds
<1>2. CanResend(r) /\ Level(p, r) /\ r.needAck = p.needAck /\ r.sender = p.sender
  BY <1>1, ChangesLevel DEF CanResend, Endpoint
<1>3. GotNak(p) = ErrorInConfirmation(r)
  BY DEF GotNak
<1> HIDE DEF r
<1>4. Holds(r) /\ r.needAck = r.mid /\ r.out = <<>>
  BY <1>1, <1>2 DEF Level, Stays, Holds
<1> QED BY <1>2, <1>3, <1>4, ErrorMoves, LevelMoves

LEMMA GotAckMoves ==
    ASSUME NEW p, CanResend(p), Holds(p), p.sender = "WaitForAck", p.out = <<>>, NEW mid
    PROVE  IF mid = p.mid THEN Confirmed(p, GotAck(p, mid)) ELSE Moves(p, GotAck(p, mid))
<1> DEFINE q == [p EXCEPT !.timer = FALSE, !.errors = 0, !.timeouts = 0, !.sender = "Idle"]
           done == p.completed \cup {p.msg}
           s == [q EXCEPT !.completed = done]
<1>1. /\ p \in Endpoint /\ done \in SUBSET Msg /\ p.msg \in Msg /\ p.needAck = p.mid
      /\ p.popped \in 1..Frames[p.msg]
  BY NoneAssumption DEF CanResend, Holds, Endpoint
<1>2. CASE mid # p.mid
  <2>1. GotAck(p, mid) = GotNak(p)
    BY <1>1, <1>2 DEF GotAck, GotNak
  <2> QED BY <1>2, <2>1, GotNakMoves
<1>3. CASE mid = p.mid
  <2>1. GotAck(p, mid) = IF p.popped < Frames[p.msg] THEN SendPayloadFrame(q) ELSE StartMessage(s)
    <3>1. q.completed = p.completed
      BY <1>1 DEF Endpoint
    <3>2. [q EXCEPT !.completed = @ \cup {p.msg}] = s
      BY <3>1
    <3> HIDE DEF s, q
    <3>3. GotAck(p, mid) = IF p.popped < Frames[p.msg] THEN SendPayloadFrame(q)
                             ELSE StartMessage([q EXCEPT !.completed = @ \cup {p.msg}])
      BY <1>1, <1>3 DEF GotAck, q
    <3> QED BY <3>2, <3>3
  <2>2. Level(p, q) /\ q \in Endpoint /\ q.sender = "Idle"
    <3>1. Level(p, q)
      BY <1>1, ChangesLevel
    <3>2. q.sender = "Idle"
      BY <1>1 DEF Endpoint
    <3>3. \A n, k \in Int : [p EXCEPT !.timer = FALSE, !.errors = n, !.timeouts = k, !.sender = "Idle"] \in Endpoint
      BY <1>1 DEF Endpoint
    <3>4. 0 \in Int
      OBVIOUS
    <3> QED BY <3>1, <3>2, <3>3, <3>4
  <2> HIDE DEF q, done
  <2>3. /\ s \in Endpoint /\ Stays(q, s) /\ s.out = q.out /\ s.completed = done /\ s.sender = "Idle"
        /\ s.queue = q.queue
    BY <1>1, <2>2 DEF Endpoint, Stays
  <2> HIDE DEF s
  <2>4. p.popped \in Nat /\ Frames[p.msg] \in Nat /\ p.popped <= Frames[p.msg]
    BY <1>1, LinkAssumption DEF Endpoint
  <2>5. CASE p.popped < Frames[p.msg]
    <3>1. q.msg = p.msg /\ q.popped = p.popped /\ q.out = <<>> /\ q.mid = p.mid /\ q.completed = p.completed
      BY <2>2 DEF Level, Stays
    <3>2. q.popped + 1 <= Frames[q.msg]
      BY <2>4, <2>5, <3>1
    <3> DEFINE t == SendPayloadFrame(q)
    <3>3. Advanced(q, t) /\ t.msg = q.msg /\ t.popped = q.popped + 1 /\ t.completed = q.completed
      BY <1>1, <2>2, <3>1, <3>2, AdvancedBy
    <3> HIDE DEF t
    <3>4. Continues(p, t)
      BY <3>1, <3>3 DEF Advanced, Continues
    <3> QED BY <1>3, <2>1, <2>5, <3>4 DEF Confirmed, t
  <2>6. CASE ~(p.popped < Frames[p.msg])
    <3>1. p.popped = Frames[p.msg]
      BY <2>4, <2>6
    <3>2. s.out = <<>> /\ Stays(p, s) /\ s.completed = p.completed \cup {p.msg}
      BY <2>2, <2>3 DEF Level, Stays, done
    <3>3. IF s.queue = <<>> THEN StartMessage(s) = s ELSE Begun(s, StartMessage(s))
      BY <2>3, <3>2, BegunBy
    <3> DEFINE t == StartMessage(s)
    <3>4. t = s \/ Begun(s, t)
      BY <3>3
    <3> HIDE DEF t
    <3>5. Completes(p, t)
      BY <2>3, <3>1, <3>2, <3>4 DEF Completes, Begun, Advanced, Stays
    <3> QED BY <1>3, <2>1, <2>6, <3>5 DEF Confirmed, t
  <2> QED BY <2>5, <2>6
<1> QED BY <1>2, <1>3

LEMMA SendLoopMoves ==
    ASSUME NEW p \in Endpoint, p.out = <<>>
    PROVE  \/ SendLoop(p) = p
           \/ p.sender = "Idle" /\ Begun(p, SendLoop(p))
BY BegunBy DEF SendLoop

\* A move holds on to the frame it sends.
LEMMA MovesHold ==
    ASSUME NEW p \in Endpoint, Holds(p), NEW q, Moves(p, q) \/ (p.sent # None /\ Confirmed(p, q))
    PROVE  Holds(q)
<1>1. ASSUME Advanced(p, q) PROVE Holds(q)
  <2>1. q.mid \in 0..Modulus-1
    BY <1>1, NextAge DEF Advanced, Endpoint
  <2>2. q.msg \in Msg /\ q.popped \in Nat
    BY <1>1, LinkAssumption DEF Advanced
  <2>3. q.sent # None
    BY <1>1, <2>1, <2>2, FramesMade, NoneAssumption DEF Advanced
  <2> QED BY <1>1, <2>3 DEF Advanced, Holds
<1>2. ASSUME Stays(p, q), q.sender = "Idle" \/ (q.needAck = q.mid /\ p.sent # None) PROVE Holds(q)
  BY <1>2 DEF Stays, Holds
<1> QED BY <1>1, <1>2 DEF Moves, Confirmed, Silent, Resent, Begun, Continues, Completes

(***************************************************************************)
(* The frames under way for sender q, and how many there may be.  What     *)
(* makes more is allowed for in extra; one that waits has one more.        *)
(***************************************************************************)
Waits(q) == IF q.sender = "WaitForAck" THEN 1 ELSE 0

Flow(q, W, V, lost, extra) ==
    /\ Pipe(q.mid, q.sent, W, V, lost)
    /\ OnWay(W, V) <= extra + Waits(q)

\* The same sender, whatever it has written.
Twin(p, q) ==
    /\ Stays(p, q) /\ q.completed = p.completed
    /\ q.sender = p.sender /\ q.needAck = p.needAck

LEMMA TwinFlow ==
    ASSUME NEW p, NEW q, Twin(p, q)
    PROVE  /\ \A W, V, lost, extra : Flow(p, W, V, lost, extra) => Flow(q, W, V, lost, extra)
           /\ Holds(p) => Holds(q)
           /\ Waits(q) = Waits(p)
BY DEF Twin, Stays, Flow, Waits, Holds

LEMMA FlowTypes ==
    ASSUME NEW q \in Endpoint, NEW W \in Seq(Frame), NEW V \in Seq(Frame)
    PROVE  q.mid \in 0..Modulus-1 /\ Waits(q) \in 0..1 /\ OnWay(W, V) \in Nat
BY OnWayType DEF Endpoint, Waits

LEMMA FlowLoses ==
    ASSUME NEW q \in Endpoint, NEW W \in Seq(Frame), NEW V \in Seq(Frame), NEW a \in Int, NEW b \in Int, a <= b,
           NEW x \in Int, NEW y \in Int, x <= y, Flow(q, W, V, a, x)
    PROVE  Flow(q, W, V, b, y)
<1>1. Pipe(q.mid, q.sent, W, V, b)
  BY FlowTypes, PipeLoses DEF Flow
<1>2. OnWay(W, V) <= y + Waits(q)
  <2>1. OnWay(W, V) <= x + Waits(q)
    BY DEF Flow
  <2> QED BY <2>1, FlowTypes
<1> QED BY <1>1, <1>2 DEF Flow

\* The sender reads a frame.
LEMMA FlowRead ==
    ASSUME NEW q \in Endpoint, NEW W \in Seq(Frame), NEW V \in Seq(Frame), NEW lost \in Int, NEW extra \in Int,
           W # <<>>, Flow(q, W, V, lost, extra)
    PROVE  /\ Tail(W) \in Seq(Frame)
           /\ Flow(q, Tail(W), V, lost, IF W[1] \in Confirming THEN extra - 1 ELSE extra)
           /\ Flow(q, Tail(W), V, lost, extra)
<1>1. Tail(W) \in Seq(Frame)
  BY HeadTailProperties
<1>2. Pipe(q.mid, q.sent, Tail(W), V, lost)
  BY PipeRead DEF Flow
<1>3. OnWay(W, V) = OnWay(Tail(W), V) + IF W[1] \in Confirming THEN 1 ELSE 0
  BY OnWayTails
<1>4. OnWay(W, V) <= extra + Waits(q) /\ Waits(q) \in Int /\ OnWay(Tail(W), V) \in Nat
  <2>1. Waits(q) \in Int
    BY FlowTypes
  <2>2. OnWay(Tail(W), V) \in Nat
    BY <1>1, OnWayType
  <2> QED BY <2>1, <2>2 DEF Flow
<1>5. OnWay(Tail(W), V) <= (IF W[1] \in Confirming THEN extra - 1 ELSE extra) + Waits(q)
  BY <1>3, <1>4
<1>6. OnWay(Tail(W), V) <= extra + Waits(q)
  BY <1>3, <1>4
<1> QED BY <1>1, <1>2, <1>5, <1>6 DEF Flow

\* The peer reads one that it does not confirm, or it is lost.
LEMMA FlowSkip ==
    ASSUME NEW q \in Endpoint, NEW W \in Seq(Frame), NEW V \in Seq(Frame), NEW lost \in Int, NEW extra \in Int,
           V # <<>>, Flow(q, W, V, lost, extra)
    PROVE  /\ Tail(V) \in Seq(Frame)
           /\ Flow(q, W, Tail(V), lost + 1, extra)
           /\ V[1] \notin Carrying => Flow(q, W, Tail(V), lost, extra)
<1>1. Tail(V) \in Seq(Frame)
  BY HeadTailProperties
<1>2. Pipe(q.mid, q.sent, W, Tail(V), IF V[1] \in Carrying THEN lost + 1 ELSE lost)
  BY FlowTypes, PipeSkip DEF Flow
<1>3. OnWay(W, V) = OnWay(W, Tail(V)) + IF V[1] \in Carrying THEN 1 ELSE 0
  BY OnWayTails
<1>4. OnWay(W, V) <= extra + Waits(q) /\ Waits(q) \in Int /\ OnWay(W, Tail(V)) \in Nat
  <2>1. Waits(q) \in Int
    BY FlowTypes
  <2>2. OnWay(W, Tail(V)) \in Nat
    BY <1>1, OnWayType
  <2> QED BY <2>1, <2>2 DEF Flow
<1>5. OnWay(W, Tail(V)) <= extra + Waits(q)
  BY <1>3, <1>4
<1>6. Flow(q, W, Tail(V), IF V[1] \in Carrying THEN lost + 1 ELSE lost, extra)
  BY <1>2, <1>5 DEF Flow
<1>7. CASE V[1] \in Carrying
  BY <1>1, <1>6, <1>7
<1>8. CASE V[1] \notin Carrying
  <2>1. Flow(q, W, Tail(V), lost, extra)
    BY <1>6, <1>8
  <2>2. lost <= lost + 1 /\ lost + 1 \in Int /\ extra <= extra
    OBVIOUS
  <2> QED BY <1>1, <2>1, <2>2, FlowLoses
<1> QED BY <1>7, <1>8

\* It reads a whole payload frame and confirms it.
LEMMA FlowPassed ==
    ASSUME NEW q \in Endpoint, NEW W \in Seq(Frame), NEW V \in Seq(Frame), NEW lost \in Int, NEW extra \in Int,
           V # <<>>, V[1] \in Carrying, NEW o \in Frame, o \in Confirming, o.mid = V[1].mid,
           Flow(q, W, V, lost, extra)
    PROVE  Flow(q, W \o <<o>>, Tail(V), lost, extra)
<1>1. Tail(V) \in Seq(Frame) /\ W \o <<o>> \in Seq(Frame)
  BY HeadTailProperties, OneMore
<1>2. Pipe(q.mid, q.sent, W \o <<o>>, Tail(V), lost)
  BY FlowTypes, PipePass DEF Flow
<1>3. OnWay(W, V) = OnWay(W, Tail(V)) + 1
  <2>1. OnWay(W, V) = OnWay(W, Tail(V)) + IF V[1] \in Carrying THEN 1 ELSE 0
    BY OnWayTails
  <2> QED BY <2>1
<1>4. OnWay(W \o <<o>>, Tail(V)) = OnWay(W, Tail(V)) + 1
  <2>1. OnWay(W \o <<o>>, Tail(V)) = OnWay(W, Tail(V)) + IF o \in Confirming THEN 1 ELSE 0
    BY <1>1, OnWayMore
  <2> QED BY <2>1
<1>5. OnWay(W, V) <= extra + Waits(q)
  BY DEF Flow
<1> QED BY <1>2, <1>3, <1>4, <1>5 DEF Flow

\* It writes a frame that confirms nothing, and several of them.
LEMMA FlowAnswer ==
    ASSUME NEW q \in Endpoint, NEW W \in Seq(Frame), NEW V \in Seq(Frame), NEW lost \in Int, NEW extra \in Int,
           NEW o \in Seq(Frame), \A i \in 1..Len(o) : o[i] \notin Acks, Flow(q, W, V, lost, extra)
    PROVE  /\ W \o o \in Seq(Frame)
           /\ Flow(q, W \o o, V, lost, extra + Len(o))
           /\ (\A i \in 1..Len(o) : o[i] \notin Confirming) => Flow(q, W \o o, V, lost, extra)
<1>1. Pipe(q.mid, q.sent, W \o o, V, lost)
  BY FlowTypes, PipeAnswer DEF Flow
<1>2. OnWay(W, V) <= extra + Waits(q) /\ Waits(q) \in Int /\ OnWay(W, V) \in Nat
  BY FlowTypes DEF Flow
<1>3. W \o o \in Seq(Frame) /\ Len(o) \in Nat
  BY ConcatProperties
<1>4. OnWay(W \o o, V) <= OnWay(W, V) + Len(o) /\ OnWay(W \o o, V) \in Nat
  BY <1>3, OnWayMany, OnWayType
<1>5. OnWay(W \o o, V) <= (extra + Len(o)) + Waits(q)
  BY <1>2, <1>3, <1>4
<1>6. ASSUME \A i \in 1..Len(o) : o[i] \notin Confirming PROVE OnWay(W \o o, V) = OnWay(W, V)
  <2>1. 0 \in Nat /\ 0 <= Len(W)
    OBVIOUS
  <2>2. Behind(W \o o, Confirming, 0) = Behind(W, Confirming, 0) + Behind(o, Confirming, 0)
    BY <2>1, BehindMore
  <2>3. Behind(o, Confirming, 0) = 0
    <3>1. {j \in 0+1..Len(o) : o[j] \in Confirming} = {}
      BY <1>6
    <3>2. Cardinality({}) = 0
      BY FS_EmptySet
    <3> QED BY <3>1, <3>2 DEF Behind
  <2>4. Behind(W, Confirming, 0) \in Nat
    BY OnWayType
  <2>5. Behind(W \o o, Confirming, 0) = Behind(W, Confirming, 0)
    BY <2>2, <2>3, <2>4
  <2> QED BY <2>5 DEF OnWay
<1> QED BY <1>1, <1>2, <1>3, <1>5, <1>6 DEF Flow

\* The sender writes one that is no payload.
LEMMA FlowWrite ==
    ASSUME NEW q \in Endpoint, NEW W \in Seq(Frame), NEW V \in Seq(Frame), NEW lost \in Int, NEW extra \in Int,
           NEW f \in Frame, f \notin Carrying, Flow(q, W, V, lost, extra)
    PROVE  V \o <<f>> \in Seq(Frame) /\ Flow(q, W, V \o <<f>>, lost, extra)
<1>1. Pipe(q.mid, q.sent, W, V \o <<f>>, lost)
  BY PipeWrite DEF Flow
<1>2. OnWay(W, V \o <<f>>) = OnWay(W, V)
  <2>1. OnWay(W, V \o <<f>>) = OnWay(W, V) + IF f \in Carrying THEN 1 ELSE 0
    BY OnWayMore
  <2>2. OnWay(W, V) \in Nat
    BY OnWayType
  <2> QED BY <2>1, <2>2
<1> QED BY <1>1, <1>2, OneMore DEF Flow

\* A frame is damaged.
LEMMA FlowSpoilt ==
    ASSUME NEW q \in Endpoint, NEW W \in Seq(Frame), NEW V \in Seq(Frame), NEW lost \in Int, NEW extra \in Int,
           Flow(q, W, V, lost, extra), NEW X \in Seq(Frame), X # <<>>, ~X[1].good
    PROVE  /\ Len(X) = Len(W) /\ (\A k \in 2..Len(W) : X[k] = W[k]) => Flow(q, X, V, lost, extra)
           /\ Len(X) = Len(V) /\ (\A k \in 2..Len(V) : X[k] = V[k]) => Flow(q, W, X, lost + 1, extra)
<1>1. X[1] \notin Confirming /\ X[1] \notin Carrying /\ X[1] \notin Acks
  BY DEF Acks, Confirming, Carrying
<1>2. OnWay(W, V) <= extra + Waits(q) /\ Waits(q) \in Int
  BY FlowTypes DEF Flow
<1>3. ASSUME Len(X) = Len(W), \A k \in 2..Len(W) : X[k] = W[k] PROVE Flow(q, X, V, lost, extra)
  <2>1. Pipe(q.mid, q.sent, X, V, lost)
    BY <1>1, <1>3, PipeHeadSpoilt DEF Flow
  <2>2. Behind(X, Confirming, 0) <= Behind(W, Confirming, 0)
    BY <1>1, <1>3, OnWaySpoilt
  <2>3. /\ Behind(X, Confirming, 0) \in Nat /\ Behind(W, Confirming, 0) \in Nat /\ Behind(V, Carrying, 0) \in Nat
    BY OnWayType
  <2>4. OnWay(X, V) <= extra + Waits(q)
    BY <1>2, <2>2, <2>3 DEF OnWay
  <2> QED BY <2>1, <2>4 DEF Flow
<1>4. ASSUME Len(X) = Len(V), \A k \in 2..Len(V) : X[k] = V[k] PROVE Flow(q, W, X, lost + 1, extra)
  <2>1. Pipe(q.mid, q.sent, W, X, lost + 1)
    BY <1>1, <1>4, FlowTypes, PipeSpoilt DEF Flow
  <2>2. Behind(X, Carrying, 0) <= Behind(V, Carrying, 0)
    BY <1>1, <1>4, OnWaySpoilt
  <2>3. /\ Behind(X, Carrying, 0) \in Nat /\ Behind(W, Confirming, 0) \in Nat /\ Behind(V, Carrying, 0) \in Nat
    BY OnWayType
  <2>4. OnWay(W, X) <= extra + Waits(q)
    BY <1>2, <2>2, <2>3 DEF OnWay
  <2> QED BY <2>1, <2>4 DEF Flow
<1> QED BY <1>3, <1>4

\* The sender sends a frame: nothing on the way has the mid of a new one.
LEMMA FlowMoves ==
    ASSUME NEW p \in Endpoint, Holds(p), NEW q, Moves(p, q) \/ Confirmed(p, q),
           NEW W \in Seq(Frame), NEW V \in Seq(Frame), NEW lost \in Nat, NEW extra \in Int,
           lost + extra < Modulus, Pipe(p.mid, p.sent, W, V, lost), OnWay(W, V) <= extra
    PROVE  Flow(q, W, V \o q.out, lost, extra)
<1>1. p.mid \in 0..Modulus-1 /\ OnWay(W, V) \in Nat /\ Modulus \in Nat
  BY FlowTypes, LinkAssumption
<1>2. ASSUME Stays(p, q), q.out = <<>> PROVE Flow(q, W, V \o q.out, lost, extra)
  <2>1. V \o q.out = V
    BY <1>2, ConcatEmptySeq
  <2>2. Waits(q) \in 0..1
    BY DEF Waits
  <2> QED BY <1>1, <1>2, <2>1, <2>2 DEF Flow, Stays
<1>3. ASSUME Resent(p, q) PROVE Flow(q, W, V \o q.out, lost, extra)
  <2> DEFINE f == p.sent
  <2>1. f = PayloadFrame(p.msg, p.popped, p.mid) /\ p.msg \in Msg /\ p.popped \in Nat
    BY <1>3, LinkAssumption DEF Resent, Holds, Endpoint
  <2>2. f \in Frame
    BY <1>1, <2>1, FramesMade
  <2>3. f \in Carrying /\ f.mid = p.mid
    BY <2>1, <2>2 DEF Carrying, IsPayload, PayloadFrame
  <2> HIDE DEF f
  <2>4. Pipe(p.mid, f, W, V \o <<f>>, lost)
    BY <1>1, <2>2, <2>3, PipeResend DEF f
  <2>5. OnWay(W, V \o <<f>>) = OnWay(W, V) + 1
    <3>1. OnWay(W, V \o <<f>>) = OnWay(W, V) + IF f \in Carrying THEN 1 ELSE 0
      BY <2>2, OnWayMore
    <3> QED BY <2>3, <3>1
  <2>6. q.mid = p.mid /\ q.sent = f /\ q.out = <<f>> /\ Waits(q) = 1
    BY <1>3 DEF Resent, Stays, Waits, f
  <2> QED BY <1>1, <2>4, <2>5, <2>6 DEF Flow
<1>4. ASSUME Advanced(p, q) PROVE Flow(q, W, V \o q.out, lost, extra)
  <2> DEFINE f == q.sent
  <2>1. f = PayloadFrame(q.msg, q.popped, q.mid) /\ q.msg \in Msg /\ q.popped \in Nat /\ q.mid \in 0..Modulus-1
    BY <1>1, <1>4, NextAge, LinkAssumption DEF Advanced
  <2>2. f \in Frame
    BY <2>1, FramesMade
  <2>3. f \in Carrying /\ f.mid = q.mid
    BY <2>1, <2>2 DEF Carrying, IsPayload, PayloadFrame
  <2>4. q.mid = NextMid(p.mid) /\ q.out = <<f>> /\ Waits(q) = 1 /\ q.sent = f
    BY <1>4 DEF Advanced, Waits
  <2> HIDE DEF f
  <2>5. OnWay(W, V) + lost < Modulus
    BY <1>1
  <2>6. Pipe(q.mid, f, W, V \o <<f>>, lost)
    BY <1>1, <2>2, <2>3, <2>4, <2>5, PipeAdvance
  <2>7. OnWay(W, V \o <<f>>) = OnWay(W, V) + 1
    <3>1. OnWay(W, V \o <<f>>) = OnWay(W, V) + IF f \in Carrying THEN 1 ELSE 0
      BY <2>2, OnWayMore
    <3> QED BY <2>3, <3>1
  <2> QED BY <1>1, <2>4, <2>6, <2>7 DEF Flow
<1> QED BY <1>2, <1>3, <1>4 DEF Moves, Confirmed, Silent, Begun, Continues, Completes

(***************************************************************************)
(* What the handlers do with a frame.                                      *)
(***************************************************************************)
\* r is what sendLoop makes of p when nothing was confirmed.
Looped(p, r) ==
    /\ r \in Endpoint
    /\ \/ Twin(p, r) /\ r.out = <<>>
       \/ p.sender = "Idle" /\ Begun(p, r)

\* Then it confirms with c.
Digested(p, q, c) ==
    /\ q \in Endpoint
    /\ \E r : Looped(p, r) /\ Twin(r, q) /\ q.out = r.out \o <<c>>

LEMMA ConfirmTwin ==
    ASSUME NEW r \in Endpoint, NEW c \in Frame
    PROVE  LET q == SendConfirmFrame(r, c) IN
           /\ q \in Endpoint /\ Twin(r, q) /\ q.out = r.out \o <<c>>
           /\ q.pieces = r.pieces /\ q.expected = r.expected
<1> DEFINE o == Append(r.out, c)
           q == [r EXCEPT !.out = o]
<1>1. o \in Seq(Frame) /\ o = r.out \o <<c>>
  <2>1. r.out \in Seq(Frame)
    BY DEF Endpoint
  <2> QED BY <2>1, AppendIsConcat, AppendProperties
<1>2. SendConfirmFrame(r, c) = q
  BY DEF SendConfirmFrame
<1> HIDE DEF o
<1>3. /\ q \in Endpoint /\ Twin(r, q) /\ q.out = o /\ q.pieces = r.pieces /\ q.expected = r.expected
  BY <1>1 DEF Endpoint, Twin, Stays
<1> HIDE DEF q
<1> QED BY <1>1, <1>2, <1>3

LEMMA PushTwin ==
    ASSUME NEW p \in Endpoint, NEW f \in Frame, IsPayload(f)
    PROVE  Twin(p, PushFrame(p, f)) /\ PushFrame(p, f).out = p.out
<1>1. CASE f.i = 1
  <2> DEFINE n == Frames[f.msg]
             s == <<<<f.msg, 1>>>>
  <2>1. PushFrame(p, f) = [p EXCEPT !.expected = n, !.pieces = s]
    BY <1>1 DEF PushFrame
  <2> HIDE DEF n, s
  <2> DEFINE q == [p EXCEPT !.expected = n, !.pieces = s]
  <2>2. Twin(p, q) /\ q.out = p.out
    BY DEF Endpoint, Twin, Stays
  <2> QED BY <2>1, <2>2
<1>2. CASE f.i # 1
  <2> DEFINE s == Append(p.pieces, <<f.msg, f.i>>)
  <2>1. PushFrame(p, f) = [p EXCEPT !.pieces = s]
    BY <1>2 DEF PushFrame
  <2> HIDE DEF s
  <2> DEFINE q == [p EXCEPT !.pieces = s]
  <2>2. Twin(p, q) /\ q.out = p.out
    BY DEF Endpoint, Twin, Stays
  <2> QED BY <2>1, <2>2
<1> QED BY <1>1, <1>2

LEMMA TwinTwin ==
    ASSUME NEW p, NEW q, NEW r, Twin(p, q)
    PROVE  Twin(p, p) /\ (Twin(q, r) => Twin(p, r)) /\ (Begun(q, r) => Begun(p, r)) /\ q.sender = p.sender
BY DEF Twin, Stays, Begun, Advanced

LEMMA LoopLooped ==
    ASSUME NEW p \in Endpoint, p.out = <<>>
    PROVE  Looped(p, SendLoop(p))
<1>1. SendLoop(p) \in Endpoint
  BY LoopKeepsPieces
<1>2. SendLoop(p) = p \/ (p.sender = "Idle" /\ Begun(p, SendLoop(p)))
  BY SendLoopMoves
<1>3. Twin(p, p)
  BY DEF Twin, Stays
<1> QED BY <1>1, <1>2, <1>3 DEF Looped

LEMMA PayloadDigested ==
    ASSUME NEW p \in Endpoint, p.out = <<>>, NEW f \in Frame, IsPayload(f)
    PROVE  Digested(p, DigestPayload(p, f), Confirmation(TRUE, f.mid))
<1> DEFINE q == PushFrame(p, f)
           c == Confirmation(TRUE, f.mid)
           r == SendLoop(q)
<1>1. q \in Endpoint /\ Twin(p, q) /\ q.out = <<>>
  BY PushEndpoint, PushTwin
<1>2. c \in Frame
  BY FrameFields, ConfirmationsNoPayload
<1>3. DigestPayload(p, f) = SendConfirmFrame(r, c)
  BY DEF DigestPayload
<1> HIDE DEF q, c
<1>4. Looped(q, r)
  BY <1>1, LoopLooped
<1> HIDE DEF r
<1>5. Looped(p, r)
  BY <1>1, <1>4, TwinTwin DEF Looped
<1>6. r \in Endpoint
  BY <1>5 DEF Looped
<1> DEFINE s == SendConfirmFrame(r, c)
<1>7. s \in Endpoint /\ Twin(r, s) /\ s.out = r.out \o <<c>>
  BY <1>2, <1>6, ConfirmTwin
<1> HIDE DEF s
<1>8. Digested(p, s, c)
  BY <1>5, <1>7 DEF Digested
<1> QED BY <1>3, <1>8 DEF s, c

LEMMA WrongDigested ==
    ASSUME NEW p \in Endpoint, p.out = <<>>
    PROVE  Digested(p, DigestWrongCrc(p), Nak)
<1> DEFINE r == SendLoop(p)
           s == SendConfirmFrame(r, Nak)
           none == <<>>
           q == [s EXCEPT !.expected = 0, !.pieces = none]
<1>1. DigestWrongCrc(p) = q
  BY DEF DigestWrongCrc, DiscardMessage
<1>2. none \in Seq(Msg \X Nat) /\ 0 \in Nat
  BY EmptySeq
<1> HIDE DEF r, none
<1>3. Looped(p, r)
  BY LoopLooped DEF r
<1>4. r \in Endpoint
  BY <1>3 DEF Looped
<1>5. s \in Endpoint /\ Twin(r, s) /\ s.out = r.out \o <<Nak>>
  BY <1>4, FramesMade, ConfirmTwin
<1> HIDE DEF s
<1>6. q \in Endpoint /\ Twin(s, q) /\ q.out = s.out
  BY <1>2, <1>5 DEF Endpoint, Twin, Stays
<1> HIDE DEF q
<1>7. Twin(r, q)
  BY <1>5, <1>6, TwinTwin
<1> QED BY <1>1, <1>3, <1>5, <1>6, <1>7 DEF Digested

LEMMA ConfirmationDigested ==
    ASSUME NEW p, Ready(p), Holds(p), p.out = <<>>, NEW f \in Frame, f.type = "confirmation"
    PROVE  LET q == DigestConfirmation(p, f) IN
           /\ q \in Endpoint
           /\ \/ p.sender = "WaitForAck" /\ p.sent # None /\ f.ack /\ f.mid = p.mid /\ Confirmed(p, q)
              \/ p.sender = "WaitForAck" /\ Moves(p, q)
              \/ p.sender = "Idle" /\ Looped(p, q)
<1>1. p \in Endpoint
  BY DEF Ready
<1>2. DigestConfirmation(p, f) \in Endpoint
  BY DigestReady DEF Ready
<1>3. CASE p.sender # "WaitForAck"
  <2>1. p.sender = "Idle"
    BY <1>1, <1>3 DEF Endpoint
  <2>2. [p EXCEPT !.sender = "Idle"] = p
    BY <1>1, <2>1 DEF Endpoint
  <2>3. DigestConfirmation(p, f) = SendLoop(p)
    BY <1>3, <2>2 DEF DigestConfirmation
  <2> QED BY <1>1, <1>2, <2>1, <2>3, LoopLooped
<1>4. CASE p.sender = "WaitForAck"
  <2>1. CanResend(p) /\ p.sent # None
    BY <1>4 DEF Ready, Holds
  <2>2. f.ack \in BOOLEAN
    BY FrameFields
  <2>3. CASE f.ack
    <3>1. DigestConfirmation(p, f) = GotAck(p, f.mid)
      BY <1>4, <2>3 DEF DigestConfirmation
    <3>2. IF f.mid = p.mid THEN Confirmed(p, GotAck(p, f.mid)) ELSE Moves(p, GotAck(p, f.mid))
      BY <1>4, <2>1, GotAckMoves
    <3> QED BY <1>2, <1>4, <2>1, <2>3, <3>1, <3>2
  <2>4. CASE ~f.ack
    <3>1. DigestConfirmation(p, f) = GotNak(p)
      BY <1>4, <2>4 DEF DigestConfirmation
    <3>2. Moves(p, GotNak(p))
      BY <1>4, <2>1, GotNakMoves
    <3> QED BY <1>2, <1>4, <3>1, <3>2
  <2> QED BY <2>2, <2>3, <2>4
<1> QED BY <1>3, <1>4

\* What a sender writes is a whole payload frame, if anything.
LEMMA MovesWrite ==
    ASSUME NEW p \in Endpoint, Holds(p), NEW q, Moves(p, q) \/ Confirmed(p, q)
    PROVE  q.out = <<>> \/ \E f \in Frame : f \in Carrying /\ f = q.sent /\ f.good /\ f.stop /\ q.out = <<f>>
<1>1. p.mid \in 0..Modulus-1
  BY DEF Endpoint
<1>2. ASSUME NEW m \in Msg, NEW i \in 1..Frames[m], NEW mid \in 0..Modulus-1
      PROVE  LET f == PayloadFrame(m, i, mid) IN f \in Frame /\ f \in Carrying /\ f.good /\ f.stop
  <2>1. i \in Nat
    BY LinkAssumption
  <2>2. PayloadFrame(m, i, mid) \in Frame
    BY <2>1, FramesMade
  <2> QED BY <2>2 DEF Carrying, IsPayload, PayloadFrame
<1>3. CASE q.out = <<>>
  BY <1>3
<1>4. CASE Resent(p, q)
  <2>1. p.sent = PayloadFrame(p.msg, p.popped, p.mid) /\ p.msg \in Msg /\ p.popped \in 1..Frames[p.msg]
    BY <1>4 DEF Resent, Holds
  <2>2. q.out = <<p.sent>> /\ q.sent = p.sent
    BY <1>4 DEF Resent, Stays
  <2> QED BY <1>1, <1>2, <2>1, <2>2
<1>5. CASE Advanced(p, q)
  <2>1. q.mid \in 0..Modulus-1
    BY <1>1, <1>5, NextAge DEF Advanced
  <2> QED BY <1>2, <1>5, <2>1 DEF Advanced
<1> QED BY <1>3, <1>4, <1>5 DEF Moves, Confirmed, Silent, Begun, Continues, Completes

LEMMA LoopedHolds ==
    ASSUME NEW p \in Endpoint, Holds(p), NEW r, Looped(p, r)
    PROVE  Holds(r) /\ (r.out = <<>> \/ \E f \in Frame : f \in Carrying /\ f = r.sent /\ f.good /\ f.stop /\ r.out = <<f>>)
<1>1. CASE Twin(p, r) /\ r.out = <<>>
  BY <1>1, TwinFlow
<1>2. CASE Begun(p, r)
  BY <1>2, MovesHold, MovesWrite DEF Moves
<1> QED BY <1>1, <1>2 DEF Looped

LEMMA FlowLooped ==
    ASSUME NEW p \in Endpoint, Holds(p), NEW r, Looped(p, r),
           NEW W \in Seq(Frame), NEW V \in Seq(Frame), NEW lost \in Nat, NEW extra \in Int,
           lost + extra < Modulus, Flow(p, W, V, lost, extra)
    PROVE  Flow(r, W, V \o r.out, lost, extra)
<1>1. CASE Twin(p, r) /\ r.out = <<>>
  <2>1. V \o r.out = V
    BY <1>1, ConcatEmptySeq
  <2> QED BY <1>1, <2>1, TwinFlow
<1>2. CASE p.sender = "Idle" /\ Begun(p, r)
  <2>1. Pipe(p.mid, p.sent, W, V, lost) /\ OnWay(W, V) <= extra
    <3>1. Waits(p) = 0
      BY <1>2 DEF Waits
    <3>2. OnWay(W, V) \in Nat
      BY OnWayType
    <3> QED BY <3>1, <3>2 DEF Flow
  <2> QED BY <1>2, <2>1, FlowMoves DEF Moves
<1> QED BY <1>1, <1>2 DEF Looped

(***************************************************************************)
(* The frames on the lines are whole; one that is being read is damaged    *)
(* only by a fault, and a timer runs only for one that is being read.      *)
(***************************************************************************)
Open(e) == IF rx[e] # None /\ ~rx[e].stop THEN 1 ELSE 0

Reads(e) ==
    /\ rx[e] # None /\ ~rx[e].stop => ~rx[e].good
    /\ listening[e] /\ fto[e] => rx[e] # None
    /\ faults = 0 /\ rx[e] # None => rx[e].good /\ rx[e].stop

Lines == \A e \in End : Clean(line[e]) /\ Holds(ep[e]) /\ ep[e].out = <<>>
Readers == \A e \in End : Reads(e) /\ Open(e) + Open(Peer(e)) <= faults

FramedInv == Lines /\ Readers

LEMMA CleanParts ==
    ASSUME NEW W \in Seq(Frame), Clean(W)
    PROVE  /\ W # <<>> => Tail(W) \in Seq(Frame) /\ Clean(Tail(W)) /\ Head(W) \in Frame /\ Head(W).good /\ Head(W).stop
           /\ \A o \in Seq(Frame) : Clean(o) => Clean(W \o o)
<1>1. ASSUME W # <<>> PROVE Tail(W) \in Seq(Frame) /\ Clean(Tail(W)) /\ Head(W) \in Frame /\ Head(W).good /\ Head(W).stop
  <2> DEFINE T == Tail(W)
  <2>1. /\ T \in Seq(Frame) /\ Len(T) = Len(W) - 1 /\ \A i \in 1..Len(T) : T[i] = W[i + 1]
        /\ Head(W) = W[1] /\ Head(W) \in Frame
    BY <1>1, HeadTailProperties
  <2>2. 1 \in 1..Len(W) /\ Len(W) \in Nat
    BY <1>1, EmptySeq
  <2> HIDE DEF T
  <2>3. \A i \in 1..Len(T) : i + 1 \in 1..Len(W)
    BY <2>1, <2>2
  <2>4. Clean(T)
    BY <2>1, <2>3 DEF Clean
  <2>5. W[1].good /\ W[1].stop
    BY <2>2 DEF Clean
  <2> QED BY <2>1, <2>4, <2>5 DEF T
<1>2. ASSUME NEW o \in Seq(Frame), Clean(o) PROVE Clean(W \o o)
  <2> DEFINE T == W \o o
  <2>1. /\ Len(T) = Len(W) + Len(o)
        /\ \A i \in 1..Len(W) + Len(o) : T[i] = IF i <= Len(W) THEN W[i] ELSE o[i - Len(W)]
    BY ConcatProperties
  <2> HIDE DEF T
  <2>2. Len(W) \in Nat /\ Len(o) \in Nat
    OBVIOUS
  <2> SUFFICES ASSUME NEW i \in 1..Len(T) PROVE T[i].good /\ T[i].stop
    BY DEF Clean, T
  <2>3. CASE i <= Len(W)
    <3>1. i \in 1..Len(W) /\ T[i] = W[i]
      BY <2>1, <2>2, <2>3
    <3> QED BY <3>1 DEF Clean
  <2>4. CASE ~(i <= Len(W))
    <3>1. i - Len(W) \in 1..Len(o) /\ T[i] = o[i - Len(W)]
      BY <2>1, <2>2, <2>4
    <3> QED BY <1>2, <3>1 DEF Clean
  <2> QED BY <2>3, <2>4
<1> QED BY <1>1, <1>2

\* What Become does.
LEMMA Became ==
    ASSUME LinkInv, NEW e \in End, NEW q \in Endpoint, NEW in \in [End -> Seq(Frame)], Become(e, q, in)
    PROVE  /\ Twin(q, ep'[e]) /\ ep'[e].out = <<>> /\ ep'[e].pieces = q.pieces /\ ep'[e].expected = q.expected
           /\ ep'[Peer(e)] = ep[Peer(e)]
           /\ line'[e] = in[e] /\ line'[Peer(e)] = in[Peer(e)] \o q.out
<1> DEFINE r == Peer(e)
           none == <<>>
           p == [q EXCEPT !.out = none]
<1>1. r \in End /\ r # e
  BY TwoEnds
<1>2. ep \in [End -> Endpoint]
  BY DEF LinkInv, TypeOK
<1>3. ep'[e] = p /\ ep'[r] = ep[r] /\ line'[e] = in[e] /\ line'[r] = in[r] \o q.out
  BY <1>1, <1>2 DEF Become
<1> HIDE DEF none
<1>4. Twin(q, p) /\ p.out = none /\ p.pieces = q.pieces /\ p.expected = q.expected
  BY DEF Endpoint, Twin, Stays
<1> HIDE DEF p
<1> QED BY <1>3, <1>4 DEF none

LEMMA LinesBecome ==
    ASSUME LinkInv, Lines, NEW e \in End, NEW q \in Endpoint, Holds(q), Clean(q.out),
           NEW in \in [End -> Seq(Frame)], Clean(in[e]), in[Peer(e)] = line[Peer(e)], Become(e, q, in)
    PROVE  Lines'
<1> DEFINE r == Peer(e)
<1>1. r \in End /\ End = {e, r} /\ line[r] \in Seq(Frame) /\ q.out \in Seq(Frame)
  BY TwoEnds DEF LinkInv, TypeOK, Endpoint
<1>2. /\ Twin(q, ep'[e]) /\ ep'[e].out = <<>> /\ ep'[r] = ep[r]
      /\ line'[e] = in[e] /\ line'[r] = line[r] \o q.out
  <2>1. /\ Twin(q, ep'[e]) /\ ep'[e].out = <<>> /\ ep'[Peer(e)] = ep[Peer(e)]
        /\ line'[e] = in[e] /\ line'[Peer(e)] = in[Peer(e)] \o q.out
    BY Became
  <2> QED BY <2>1
<1> HIDE DEF r
<1>3. Holds(ep'[e])
  BY <1>2, TwinFlow
<1>4. Clean(line'[r])
  <2>1. Clean(line[r])
    BY <1>1 DEF Lines
  <2> QED BY <1>1, <1>2, <2>1, CleanParts
<1>5. Clean(line'[e])
  BY <1>2
<1>6. Holds(ep'[r]) /\ ep'[r].out = <<>>
  BY <1>1, <1>2 DEF Lines
<1>7. \A x \in End : x = e \/ x = r
  BY <1>1
<1> QED BY <1>2, <1>3, <1>4, <1>5, <1>6, <1>7 DEF Lines

LEMMA ReadersStep ==
    ASSUME LinkInv, Readers, NEW e \in End,
           rx'[Peer(e)] = rx[Peer(e)], fto'[Peer(e)] = fto[Peer(e)],
           listening'[Peer(e)] = listening[Peer(e)],
           faults' = faults \/ faults' = faults + 1, Reads(e)',
           Open(e)' <= Open(e) + (faults' - faults)
    PROVE  Readers'
<1> DEFINE r == Peer(e)
<1>1. r \in End /\ Peer(r) = e /\ End = {e, r} /\ faults \in Nat
  BY TwoEnds, LinkAssumption DEF LinkInv, TypeOK
<1>2. Open(r)' = Open(r) /\ Open(e) + Open(r) <= faults
  BY <1>1 DEF Open, Readers
<1>3. Open(e) \in Int /\ Open(r) \in Int /\ Open(e)' \in Int
  BY DEF Open
<1>4. Open(e)' + Open(r)' <= faults'
  BY <1>1, <1>2, <1>3
<1>5. Reads(r)'
  <2>1. Reads(r)
    BY <1>1 DEF Readers
  <2>2. faults' = 0 => faults = 0
    BY <1>1
  <2> QED BY <2>1, <2>2 DEF Reads
<1>6. (Open(r) + Open(Peer(r)) <= faults)'
  BY <1>1, <1>3, <1>4, <1>2
<1>7. \A x \in End : x = e \/ x = r
  BY <1>1
<1> HIDE DEF r
<1>8. ASSUME NEW x \in End PROVE (Reads(x) /\ Open(x) + Open(Peer(x)) <= faults)'
  <2>1. CASE x = e
    BY <1>4, <2>1 DEF r
  <2>2. CASE x = r
    BY <1>5, <1>6, <2>2
  <2> QED BY <1>7, <2>1, <2>2
<1> QED BY <1>8 DEF Readers

LEMMA ReadersSame ==
    ASSUME LinkInv, Readers, UNCHANGED <<rx, fto, listening>>, faults' = faults \/ faults' = faults + 1
    PROVE  Readers'
<1>1. PICK e \in End : TRUE
  <2>1. End # {}
    BY LinkAssumption, FS_EmptySet
  <2> QED BY <2>1
<1>2. faults \in Nat
  BY LinkAssumption DEF LinkInv, TypeOK
<1>3. Reads(e)'
  BY <1>1, <1>2 DEF Readers, Reads
<1>4. Open(e)' = Open(e) /\ Open(e) \in Int
  BY DEF Open
<1> QED BY <1>1, <1>2, <1>3, <1>4, ReadersStep

\* The frames a handler writes.
LEMMA WrittenClean ==
    ASSUME NEW p \in Endpoint, Holds(p)
    PROVE  /\ Clean(<<>>)
           /\ \A q : Moves(p, q) \/ Confirmed(p, q) => Clean(q.out)
           /\ \A r : Looped(p, r) => Clean(r.out) /\ r.out \in Seq(Frame)
           /\ \A ack \in BOOLEAN, mid \in 0..Modulus-1 : \A q :
                 Digested(p, q, Confirmation(ack, mid)) => Clean(q.out) /\ Holds(q)
<1>1. Clean(<<>>)
  BY EmptySeq DEF Clean
<1>2. ASSUME NEW f \in Frame, f.good, f.stop PROVE Clean(<<f>>) /\ <<f>> \in Seq(Frame)
  <2>1. Len(<<f>>) = 1 /\ <<f>>[1] = f /\ <<f>> \in Seq(Frame)
    OBVIOUS
  <2>2. \A i \in 1..1 : i = 1
    OBVIOUS
  <2> QED BY <1>2, <2>1, <2>2 DEF Clean
<1>3. ASSUME NEW q, Moves(p, q) \/ Confirmed(p, q) PROVE Clean(q.out)
  BY <1>1, <1>2, <1>3, MovesWrite
<1>4. ASSUME NEW r, Looped(p, r) PROVE Clean(r.out) /\ r.out \in Seq(Frame) /\ Holds(r)
  <2>1. <<>> \in Seq(Frame)
    BY EmptySeq
  <2> QED BY <1>1, <1>2, <1>4, <2>1, LoopedHolds
<1>5. ASSUME NEW ack \in BOOLEAN, NEW mid \in 0..Modulus-1, NEW q, Digested(p, q, Confirmation(ack, mid))
      PROVE  Clean(q.out) /\ Holds(q)
  <2> DEFINE c == Confirmation(ack, mid)
  <2>1. c \in Frame /\ c.good /\ c.stop
    BY FramesMade DEF Confirmation
  <2>2. PICK r : Looped(p, r) /\ Twin(r, q) /\ q.out = r.out \o <<c>>
    BY <1>5 DEF Digested
  <2> HIDE DEF c
  <2>3. Clean(r.out) /\ r.out \in Seq(Frame) /\ Holds(r)
    BY <1>4, <2>2
  <2>4. Clean(<<c>>) /\ <<c>> \in Seq(Frame)
    BY <1>2, <2>1
  <2>5. Clean(r.out \o <<c>>)
    BY <2>3, <2>4, CleanParts
  <2> QED BY <2>2, <2>3, <2>5, TwinFlow
<1> QED BY <1>1, <1>3, <1>4, <1>5

LEMMA NakIs == Nak = Confirmation(FALSE, 0) /\ 0 \in 0..Modulus-1
BY LinkAssumption DEF Nak

LEMMA FramedInit == Init => FramedInv
<1> SUFFICES ASSUME Init PROVE FramedInv
  OBVIOUS
<1>1. PICK g \in [End -> Garbage] : ep = [x \in End |-> NewEndpoint(g[x][1], g[x][2])]
  BY DEF Init
<1>2. Clean(<<>>)
  BY EmptySeq DEF Clean
<1>3. Lines
  <2> SUFFICES ASSUME NEW e \in End PROVE Clean(line[e]) /\ Holds(ep[e]) /\ ep[e].out = <<>>
    BY DEF Lines
  <2>1. ep[e].sent = None /\ ep[e].sender = "Idle" /\ ep[e].out = <<>>
    BY <1>1 DEF NewEndpoint
  <2> QED BY <1>2, <2>1 DEF Init, Holds
<1>4. Readers
  <2> SUFFICES ASSUME NEW e \in End PROVE Reads(e) /\ Open(e) + Open(Peer(e)) <= faults
    BY DEF Readers
  <2>1. Peer(e) \in End
    BY TwoEnds
  <2> QED BY <2>1 DEF Init, Reads, Open
<1> QED BY <1>3, <1>4 DEF FramedInv

\* digestFrame, whichever way the frame was ended.
LEMMA DigestFramed ==
    ASSUME LinkInv, FramedInv, NEW e \in End, NEW f \in Frame, NEW in \in [End -> Seq(Frame)],
           in[Peer(e)] = line[Peer(e)], Clean(in[e]), Digest(e, f, in)
    PROVE  FramedInv'
<1>1. Ready(ep[e]) /\ ep[e] \in Endpoint /\ Holds(ep[e]) /\ ep[e].out = <<>>
  BY DEF LinkInv, Ready, FramedInv, Lines
<1>2. Peer(e) \in End /\ Peer(e) # e
  BY TwoEnds
<1>3. f.mid \in 0..Modulus-1
  BY FrameFields
<1>4. /\ rx'[e] = None /\ rx'[Peer(e)] = rx[Peer(e)] /\ fto'[e] = FALSE /\ fto'[Peer(e)] = fto[Peer(e)]
      /\ listening' = listening /\ faults' = faults
  BY <1>2 DEF Digest, LinkInv, TypeOK
<1>5. Readers'
  <2>1. Reads(e)'
    BY <1>4 DEF Reads
  <2>2. Open(e)' = 0 /\ Open(e) \in 0..1
    BY <1>4 DEF Open
  <2>3. faults \in Nat
    BY LinkAssumption DEF LinkInv, TypeOK
  <2>4. Open(e)' <= Open(e) + (faults' - faults)
    BY <1>4, <2>2, <2>3
  <2> QED BY <1>4, <2>1, <2>4, ReadersStep DEF FramedInv
<1>6. PICK q \in Endpoint : Holds(q) /\ Clean(q.out) /\ Become(e, q, in)
  <2>1. CASE f.good /\ f.type = "payload" /\ Become(e, DigestPayload(ep[e], f), in)
    <3>1. Digested(ep[e], DigestPayload(ep[e], f), Confirmation(TRUE, f.mid))
      BY <1>1, <2>1, PayloadDigested DEF IsPayload
    <3>2. Clean(DigestPayload(ep[e], f).out) /\ Holds(DigestPayload(ep[e], f))
      BY <1>1, <1>3, <3>1, WrittenClean
    <3>3. DigestPayload(ep[e], f) \in Endpoint
      BY <3>1 DEF Digested
    <3> QED BY <2>1, <3>2, <3>3
  <2>2. CASE f.good /\ f.type = "confirmation" /\ Become(e, DigestConfirmation(ep[e], f), in)
    <3> DEFINE q == DigestConfirmation(ep[e], f)
    <3>1. /\ q \in Endpoint
          /\ (ep[e].sent # None /\ Confirmed(ep[e], q)) \/ Moves(ep[e], q) \/ Looped(ep[e], q)
      BY <1>1, <2>2, ConfirmationDigested
    <3>2. Become(e, q, in)
      BY <2>2
    <3> HIDE DEF q
    <3>3. Clean(q.out) /\ Holds(q)
      BY <1>1, <3>1, WrittenClean, MovesHold, LoopedHolds
    <3> QED BY <3>1, <3>2, <3>3
  <2>3. CASE Become(e, DigestWrongCrc(ep[e]), in)
    <3>1. Digested(ep[e], DigestWrongCrc(ep[e]), Confirmation(FALSE, 0))
      BY <1>1, WrongDigested, NakIs
    <3>2. Clean(DigestWrongCrc(ep[e]).out) /\ Holds(DigestWrongCrc(ep[e]))
      BY <1>1, <3>1, WrittenClean, NakIs
    <3>3. DigestWrongCrc(ep[e]) \in Endpoint
      BY <3>1 DEF Digested
    <3> QED BY <2>3, <3>2, <3>3
  <2>4. CASE Become(e, ep[e], in)
    BY <1>1, <2>4, WrittenClean
  <2> QED BY <2>1, <2>2, <2>3, <2>4 DEF Digest
<1>7. Lines'
  BY <1>6, LinesBecome DEF FramedInv
<1> QED BY <1>5, <1>7 DEF FramedInv

LEMMA FramedStep == LinkInv /\ FramedInv /\ [Next]_vars => FramedInv'
<1> SUFFICES ASSUME LinkInv, FramedInv, [Next]_vars PROVE FramedInv'
  OBVIOUS
<1>1. /\ line \in [End -> Seq(Frame)] /\ rx \in [End -> Frame \cup {None}] /\ faults \in Nat
      /\ fto \in [End -> BOOLEAN] /\ listening \in [End -> BOOLEAN] /\ faults + 1 # 0
  BY LinkAssumption DEF LinkInv, TypeOK
<1>2. \A x \in End : /\ Ready(ep[x]) /\ ep[x] \in Endpoint /\ Holds(ep[x]) /\ ep[x].out = <<>>
                     /\ Clean(line[x]) /\ Reads(x) /\ Peer(x) \in End /\ Peer(x) # x
                     /\ line[x] \in Seq(Frame) /\ line[Peer(x)] \in Seq(Frame)
  BY <1>1, TwoEnds DEF LinkInv, Ready, FramedInv, Lines, Readers
<1>3. ASSUME NEW x \in End PROVE Open(x) \in 0..1
  BY DEF Open
<1>4. ASSUME UNCHANGED <<ep, line>> PROVE Lines'
  BY <1>4 DEF FramedInv, Lines
<1>5. ASSUME NEW m \in Msg, SendMessage(m) PROVE FramedInv'
  <2> DEFINE e == From[m]
             p == ep[e]
             queue == Append(p.queue, m)
             r == [p EXCEPT !.queue = queue]
             q == SendLoop(r)
  <2>1. e \in End
    BY LinkAssumption
  <2>2. queue \in Seq(Msg) /\ p \in Endpoint /\ Holds(p) /\ p.out = <<>>
    <3>1. p \in Endpoint /\ Holds(p) /\ p.out = <<>>
      BY <1>2, <2>1
    <3>2. p.queue \in Seq(Msg)
      BY <3>1 DEF Endpoint
    <3> HIDE DEF p
    <3> QED BY <3>1, <3>2, AppendProperties
  <2>3. Become(e, q, line) /\ UNCHANGED <<rx, fto, listening>> /\ faults' = faults
    BY <1>5 DEF SendMessage
  <2> HIDE DEF queue, p
  <2>4. r \in Endpoint /\ Twin(p, r) /\ r.out = <<>>
    BY <2>2 DEF Endpoint, Twin, Stays
  <2> HIDE DEF r, e
  <2>5. Looped(r, q) /\ Holds(r)
    BY <2>2, <2>4, LoopLooped, TwinFlow
  <2> HIDE DEF q
  <2>6. q \in Endpoint /\ Holds(q) /\ Clean(q.out)
    BY <2>4, <2>5, WrittenClean, LoopedHolds DEF Looped
  <2>7. Lines'
    BY <1>1, <1>2, <2>1, <2>3, <2>6, LinesBecome DEF FramedInv
  <2> QED BY <2>3, <2>7, ReadersSame DEF FramedInv
<1>6. ASSUME NEW e \in End, StartFrame(e) PROVE FramedInv'
  <2>1. line[e] # <<>> /\ listening[e] /\ rx[e] = None
    BY <1>6 DEF StartFrame
  <2>2. Head(line[e]) \in Frame /\ Head(line[e]).good /\ Head(line[e]).stop /\ Clean(Tail(line[e]))
    BY <1>2, <2>1, CleanParts
  <2>3. /\ rx'[e] = Head(line[e]) /\ rx'[Peer(e)] = rx[Peer(e)] /\ fto'[Peer(e)] = fto[Peer(e)]
        /\ listening' = listening /\ faults' = faults /\ ep' = ep
        /\ line'[e] = Tail(line[e]) /\ \A x \in End : x # e => line'[x] = line[x]
    BY <1>1, <1>2, <1>6 DEF StartFrame
  <2>4. Reads(e)' /\ Open(e)' = 0
    BY <2>2, <2>3, NoneAssumption DEF Reads, Open
  <2>5. Open(e)' <= Open(e) + (faults' - faults)
    BY <1>1, <1>3, <2>3, <2>4
  <2>6. Readers'
    BY <2>3, <2>4, <2>5, ReadersStep DEF FramedInv
  <2>7. Lines'
    BY <1>2, <2>2, <2>3 DEF Lines
  <2> QED BY <2>6, <2>7 DEF FramedInv
<1>7. ASSUME NEW e \in End, StopFrame(e) PROVE FramedInv'
  <2>1. rx[e] \in Frame /\ Digest(e, rx[e], line)
    BY <1>1, <1>7 DEF StopFrame
  <2> QED BY <1>1, <1>2, <2>1, DigestFramed
<1>8. ASSUME NEW e \in End, StopMergedFrame(e) PROVE FramedInv'
  <2> DEFINE t == Tail(line[e])
             in == [line EXCEPT ![e] = t]
  <2>1. rx[e] \in Frame /\ Digest(e, rx[e], in) /\ line[e] # <<>>
    BY <1>1, <1>8 DEF StopMergedFrame
  <2>2. t \in Seq(Frame) /\ Clean(t)
    BY <1>2, <2>1, CleanParts
  <2> HIDE DEF t
  <2>3. in \in [End -> Seq(Frame)] /\ in[Peer(e)] = line[Peer(e)] /\ in[e] = t
    BY <1>1, <1>2, <2>2
  <2> HIDE DEF in
  <2> QED BY <2>1, <2>2, <2>3, DigestFramed
<1>9. ASSUME NEW e \in End, ConfirmationTimeout(e) PROVE FramedInv'
  <2> DEFINE p == ep[e]
             n == p.timeouts + 1
             u == [p EXCEPT !.timeouts = n]
             v == [p EXCEPT !.timeouts = 0]
             q == IF n < TimeoutMax THEN ResendPayloadFrame(u) ELSE GiveUp(v)
  <2>1. Become(e, q, line) /\ UNCHANGED <<rx, fto, listening>> /\ faults' = faults /\ p.timer
    BY <1>9 DEF ConfirmationTimeout
  <2>2. p \in Endpoint /\ Holds(p) /\ p.out = <<>> /\ CanResend(p) /\ p.sender = "WaitForAck"
    BY <1>2, <2>1 DEF Ready
  <2> HIDE DEF p
  <2>3. n \in Int /\ 0 \in Int
    BY <2>2 DEF Endpoint
  <2> HIDE DEF n
  <2>4. Level(p, u) /\ Level(p, v) /\ CanResend(u) /\ CanResend(v)
    BY <2>2, <2>3, ChangesLevel, CountersSet DEF CanResend
  <2>5. u.needAck = p.needAck /\ u.sender = p.sender
    BY <2>2 DEF Endpoint
  <2> HIDE DEF u, v
  <2>6. Holds(u) /\ u.out = <<>> /\ v.out = <<>>
    BY <2>2, <2>4, <2>5 DEF Level, Stays, Holds
  <2>7. Moves(p, q)
    <3>1. Moves(u, ResendPayloadFrame(u)) /\ Moves(v, GiveUp(v))
      BY <2>4, <2>6, ResentBy, GivenUp DEF Moves
    <3> QED BY <2>4, <3>1, LevelMoves
  <2>8. q \in Endpoint
    BY <2>4, ResendReady, GiveUpReady DEF Ready
  <2> HIDE DEF q
  <2>9. Holds(q) /\ Clean(q.out)
    BY <2>2, <2>7, MovesHold, WrittenClean
  <2>10. Lines'
    BY <1>1, <1>2, <2>1, <2>8, <2>9, LinesBecome DEF FramedInv
  <2> QED BY <2>1, <2>10, ReadersSame DEF FramedInv
<1>10. ASSUME NEW e \in End, FtoTimeout(e) PROVE FramedInv'
  <2> DEFINE q == SendConfirmFrame(ep[e], Nak)
  <2>1. /\ Become(e, q, line) /\ rx' = rx /\ listening' = listening /\ faults' = faults
        /\ fto'[e] = FALSE /\ \A x \in End : x # e => fto'[x] = fto[x]
    BY <1>1, <1>10 DEF FtoTimeout
  <2>2. q \in Endpoint /\ Twin(ep[e], q) /\ q.out = ep[e].out \o <<Nak>>
    BY <1>2, FramesMade, ConfirmTwin
  <2> HIDE DEF q
  <2>3. Looped(ep[e], ep[e])
    BY <1>2 DEF Looped, Twin, Stays
  <2>4. Digested(ep[e], q, Confirmation(FALSE, 0))
    BY <2>2, <2>3, NakIs DEF Digested
  <2>5. Clean(q.out) /\ Holds(q)
    BY <1>2, <2>4, NakIs, WrittenClean
  <2>6. Lines'
    BY <1>1, <1>2, <2>1, <2>2, <2>5, LinesBecome DEF FramedInv
  <2>7. Reads(e)' /\ Open(e)' = Open(e)
    <3>1. Reads(e)
      BY <1>2
    <3> QED BY <2>1, <3>1 DEF Reads, Open
  <2>8. Open(e)' <= Open(e) + (faults' - faults)
    <3>1. Open(e) \in 0..1 /\ faults \in Nat
      BY <1>1, <1>3
    <3>2. faults' = faults /\ Open(e)' = Open(e)
      BY <2>1, <2>7
    <3> QED BY <3>1, <3>2
  <2>9. Readers'
    BY <1>2, <2>1, <2>7, <2>8, ReadersStep DEF FramedInv
  <2> QED BY <2>6, <2>9 DEF FramedInv
<1>11. ASSUME NEW e \in End, CorruptFrame(e) PROVE FramedInv'
  <2> DEFINE x == [rx[e] EXCEPT !.good = FALSE]
  <2>1. rx[e] \in Frame /\ faults' = faults + 1
    BY <1>1, <1>11 DEF CorruptFrame, Fault
  <2>2. x.good = FALSE /\ x.stop = rx[e].stop /\ x \in Frame
    BY <2>1 DEF Frame
  <2>3. rx'[e] = x /\ rx'[Peer(e)] = rx[Peer(e)] /\ UNCHANGED <<ep, line, fto, listening>>
    BY <1>1, <1>2, <1>11 DEF CorruptFrame
  <2> HIDE DEF x
  <2>4. Reads(e)' /\ Open(e)' = Open(e)
    BY <1>1, <2>1, <2>2, <2>3, NoneAssumption DEF Reads, Open
  <2>5. Open(e)' <= Open(e) + (faults' - faults)
    BY <1>1, <1>3, <2>1, <2>4
  <2> QED BY <1>4, <2>1, <2>3, <2>4, <2>5, ReadersStep DEF FramedInv
<1>12. ASSUME NEW e \in End, LoseStop(e) PROVE FramedInv'
  <2> DEFINE x == [rx[e] EXCEPT !.good = FALSE, !.stop = FALSE]
  <2>1. rx[e] \in Frame /\ faults' = faults + 1 /\ rx[e].stop
    BY <1>1, <1>12 DEF LoseStop, Fault
  <2>2. x.good = FALSE /\ x.stop = FALSE /\ x \in Frame
    BY <2>1 DEF Frame
  <2>3. rx'[e] = x /\ rx'[Peer(e)] = rx[Peer(e)] /\ UNCHANGED <<ep, line, fto, listening>>
    BY <1>1, <1>2, <1>12 DEF LoseStop
  <2> HIDE DEF x
  <2>4. Reads(e)' /\ Open(e)' = 1
    BY <1>1, <2>1, <2>2, <2>3, NoneAssumption DEF Reads, Open
  <2>5. Open(e)' <= Open(e) + (faults' - faults)
    BY <1>1, <1>3, <2>1, <2>4
  <2> QED BY <1>4, <2>1, <2>3, <2>4, <2>5, ReadersStep DEF FramedInv
<1>13. ASSUME NEW e \in End, LoseStart(e) PROVE FramedInv'
  <2> DEFINE o == [k \in 1..NfBurst |-> Nak]
             p == ep[e]
             q == [p EXCEPT !.out = o]
             t == Tail(line[e])
             in == [line EXCEPT ![e] = t]
  <2>1. Become(e, q, in) /\ UNCHANGED <<rx, fto, listening>> /\ faults' = faults + 1 /\ line[e] # <<>>
    BY <1>13 DEF LoseStart, Fault
  <2>2. o \in Seq(Frame) /\ Clean(o)
    <3>1. Nak \in Frame /\ Nak.good /\ Nak.stop /\ NfBurst \in Nat
      BY FramesMade, LinkAssumption DEF Nak, Confirmation
    <3> QED BY <3>1 DEF Clean
  <2>3. t \in Seq(Frame) /\ Clean(t)
    BY <1>2, <2>1, CleanParts
  <2>4. p \in Endpoint /\ Holds(p)
    BY <1>2
  <2> HIDE DEF o, p, t
  <2>5. q \in Endpoint /\ Twin(p, q) /\ q.out = o
    BY <2>2, <2>4 DEF Endpoint, Twin, Stays
  <2>6. in \in [End -> Seq(Frame)] /\ in[e] = t /\ in[Peer(e)] = line[Peer(e)]
    BY <1>1, <1>2, <2>3
  <2> HIDE DEF q, in
  <2>7. Holds(q)
    BY <2>4, <2>5, TwinFlow
  <2>8. Lines'
    BY <2>1, <2>2, <2>3, <2>5, <2>6, <2>7, LinesBecome DEF FramedInv
  <2> QED BY <2>1, <2>8, ReadersSame DEF FramedInv
<1>14. ASSUME NEW e \in End, LoseFrame(e) PROVE FramedInv'
  <2>1. /\ line[e] # <<>> /\ faults' = faults + 1 /\ UNCHANGED <<ep, rx, fto, listening>>
        /\ line'[e] = Tail(line[e]) /\ \A x \in End : x # e => line'[x] = line[x]
    BY <1>1, <1>14 DEF LoseFrame, Fault
  <2>2. Clean(Tail(line[e]))
    BY <1>2, <2>1, CleanParts
  <2>3. Lines'
    BY <1>2, <2>1, <2>2 DEF Lines
  <2> QED BY <2>1, <2>3, ReadersSame DEF FramedInv
<1>15. ASSUME NEW e \in End, StopListening(e) PROVE FramedInv'
  <2>1. /\ rx'[e] = None /\ rx'[Peer(e)] = rx[Peer(e)] /\ faults' = faults + 1
        /\ listening'[e] = FALSE /\ listening'[Peer(e)] = listening[Peer(e)] /\ UNCHANGED <<ep, line, fto>>
    BY <1>1, <1>2, <1>15 DEF StopListening, Fault
  <2>2. Reads(e)' /\ Open(e)' = 0
    BY <2>1 DEF Reads, Open
  <2>3. Open(e)' <= Open(e) + (faults' - faults)
    <3>1. Open(e) \in 0..1 /\ faults \in Nat
      BY <1>1, <1>3
    <3>2. faults' = faults + 1 /\ Open(e)' = 0
      BY <2>1, <2>2
    <3> QED BY <3>1, <3>2
  <2> QED BY <1>4, <2>1, <2>2, <2>3, ReadersStep DEF FramedInv
<1>16. ASSUME UNCHANGED vars PROVE FramedInv'
  <2>1. UNCHANGED <<ep, line, rx, fto, listening, faults>>
    BY <1>16 DEF vars
  <2> QED BY <1>4, <2>1, ReadersSame DEF FramedInv
<1> QED BY <1>5, <1>6, <1>7, <1>8, <1>9, <1>10, <1>11, <1>12, <1>13, <1>14, <1>15, <1>16 DEF Next

(***************************************************************************)
(* As long as both ends listen and the line has not misbehaved so often    *)
(* that a mid may come round, the flow of frames is the one above.  What a *)
(* damaged frame will add when it has been read is allowed for.            *)
(***************************************************************************)
FewDisturbances ==
    /\ \A e \in End : listening[e]
    /\ early + (NfBurst + 4) * faults < Modulus

Bad(e) == IF rx[e] # None /\ ~rx[e].good THEN 1 ELSE 0
Due(e) == IF fto[e] /\ rx[e] # None /\ ~rx[e].stop THEN 1 ELSE 0

Slack(e) == 2 * faults - Open(e) - Open(Peer(e))
Extra(e) == early + 2 * faults + NfBurst * faults - Bad(e) - Bad(Peer(e)) - Due(e) - Due(Peer(e))

FlowOf(e) == Flow(ep[e], Wire(e), Wire(Peer(e)), Slack(e), Extra(e))

FlowInv == FewDisturbances => \A e \in End : FlowOf(e)

LEMMA Ones ==
    /\ \A e : Open(e) \in 0..1 /\ Bad(e) \in 0..1 /\ Due(e) \in 0..1
    /\ \A e : Open(e)' \in 0..1 /\ Bad(e)' \in 0..1 /\ Due(e)' \in 0..1
BY DEF Open, Bad, Due

LEMMA ManyFaults ==
    ASSUME NEW a \in Nat, NEW n \in Nat
    PROVE  /\ (NfBurst + 4) * n = NfBurst * n + 4 * n /\ NfBurst * n \in Nat
           /\ NfBurst * (n + 1) = NfBurst * n + NfBurst
<1>1. NfBurst \in Nat
  BY LinkAssumption
<1>2. \A x, y \in Nat : (x + 4) * y = x * y + 4 * y /\ x * y \in Nat /\ x * (y + 1) = x * y + x
  OBVIOUS
<1> QED BY <1>1, <1>2

LEMMA NumbersAre ==
    ASSUME NEW a \in Nat, NEW n \in Nat, NEW o \in 0..1, NEW p \in 0..1, NEW b \in 0..1, NEW c \in 0..1,
           NEW d \in 0..1, NEW f \in 0..1, o + p <= n, a + (NfBurst + 4) * n < Modulus
    PROVE  /\ 2 * n - o - p \in Nat /\ a + 2 * n + NfBurst * n - b - c - d - f \in Int
           /\ (2 * n - o - p) + (a + 2 * n + NfBurst * n - b - c - d - f) < Modulus
<1>1. (NfBurst + 4) * n = NfBurst * n + 4 * n /\ NfBurst * n \in Nat
  BY ManyFaults
<1>2. Modulus \in Int
  BY LinkAssumption
<1> DEFINE m == NfBurst * n
<1>3. m \in Nat /\ a + (m + 4 * n) < Modulus
  BY <1>1
<1> HIDE DEF m
<1>4. /\ 2 * n - o - p \in Nat /\ a + 2 * n + m - b - c - d - f \in Int
      /\ (2 * n - o - p) + (a + 2 * n + m - b - c - d - f) < Modulus
  BY <1>2, <1>3
<1> QED BY <1>4 DEF m

LEMMA Numbers ==
    ASSUME NEW e \in End
    PROVE  /\ LinkInv /\ FramedInv /\ FewDisturbances =>
                 /\ Slack(e) \in Nat /\ Extra(e) \in Int /\ Slack(e) + Extra(e) < Modulus
                 /\ Slack(Peer(e)) = Slack(e) /\ Extra(Peer(e)) = Extra(e)
           /\ LinkInv' /\ FramedInv' /\ FewDisturbances' =>
                 /\ Slack(e)' \in Nat /\ Extra(e)' \in Int /\ Slack(e)' + Extra(e)' < Modulus
                 /\ Slack(Peer(e))' = Slack(e)' /\ Extra(Peer(e))' = Extra(e)'
<1>1. Peer(e) \in End /\ Peer(Peer(e)) = e
  BY TwoEnds
<1>2. ASSUME LinkInv, FramedInv, FewDisturbances
      PROVE  /\ Slack(e) \in Nat /\ Extra(e) \in Int /\ Slack(e) + Extra(e) < Modulus
             /\ Slack(Peer(e)) = Slack(e) /\ Extra(Peer(e)) = Extra(e)
  <2>1. early \in Nat /\ faults \in Nat /\ Open(e) + Open(Peer(e)) <= faults
    BY <1>2, LinkAssumption DEF LinkInv, TypeOK, FramedInv, Readers
  <2>2. early + (NfBurst + 4) * faults < Modulus
    BY <1>2 DEF FewDisturbances
  <2>3. /\ Open(e) \in 0..1 /\ Bad(e) \in 0..1 /\ Due(e) \in 0..1
        /\ Open(Peer(e)) \in 0..1 /\ Bad(Peer(e)) \in 0..1 /\ Due(Peer(e)) \in 0..1
    BY Ones
  <2>4. Slack(e) \in Nat /\ Extra(e) \in Int /\ Slack(e) + Extra(e) < Modulus
    BY <2>1, <2>2, <2>3, NumbersAre DEF Slack, Extra
  <2>5. NfBurst * faults \in Nat
    BY <2>1, ManyFaults
  <2>6. Slack(Peer(e)) = Slack(e)
    BY <1>1, <2>1, <2>3 DEF Slack
  <2>7. Extra(Peer(e)) = Extra(e)
    BY <1>1, <2>1, <2>3, <2>5 DEF Extra
  <2> QED BY <2>4, <2>6, <2>7
<1>3. ASSUME LinkInv', FramedInv', FewDisturbances'
      PROVE  /\ Slack(e)' \in Nat /\ Extra(e)' \in Int /\ Slack(e)' + Extra(e)' < Modulus
             /\ Slack(Peer(e))' = Slack(e)' /\ Extra(Peer(e))' = Extra(e)'
  <2>1. early' \in Nat /\ faults' \in Nat /\ Open(e)' + Open(Peer(e))' <= faults'
    BY <1>3, LinkAssumption DEF LinkInv, TypeOK, FramedInv, Readers
  <2>2. early' + (NfBurst + 4) * faults' < Modulus
    BY <1>3 DEF FewDisturbances
  <2>3. /\ Open(e)' \in 0..1 /\ Bad(e)' \in 0..1 /\ Due(e)' \in 0..1
        /\ Open(Peer(e))' \in 0..1 /\ Bad(Peer(e))' \in 0..1 /\ Due(Peer(e))' \in 0..1
    BY Ones
  <2>4. Slack(e)' \in Nat /\ Extra(e)' \in Int /\ Slack(e)' + Extra(e)' < Modulus
    BY <2>1, <2>2, <2>3, NumbersAre DEF Slack, Extra
  <2>5. NfBurst * faults' \in Nat
    BY <2>1, ManyFaults
  <2>6. Slack(Peer(e))' = Slack(e)'
    BY <1>1, <2>1, <2>3 DEF Slack
  <2>7. Extra(Peer(e))' = Extra(e)'
    BY <1>1, <2>1, <2>3, <2>5 DEF Extra
  <2> QED BY <2>4, <2>6, <2>7
<1> QED BY <1>2, <1>3

LEMMA FlowBoth ==
    ASSUME LinkInv', FramedInv', FewDisturbances', NEW e \in End,
           Flow(ep'[e], Wire(e)', Wire(Peer(e))', Slack(e)', Extra(e)'),
           Flow(ep'[Peer(e)], Wire(Peer(e))', Wire(e)', Slack(e)', Extra(e)')
    PROVE  FlowInv'
<1> DEFINE r == Peer(e)
<1>1. Peer(r) = e /\ End = {e, r}
  BY TwoEnds
<1>2. Slack(r)' = Slack(e)' /\ Extra(r)' = Extra(e)'
  BY Numbers
<1>3. FlowOf(e)'
  BY DEF FlowOf
<1>4. FlowOf(r)'
  BY <1>1, <1>2 DEF FlowOf
<1>5. \A x \in End : x = e \/ x = r
  BY <1>1
<1> HIDE DEF r
<1>6. ASSUME NEW x \in End PROVE FlowOf(x)'
  <2>1. CASE x = e
    BY <1>3, <2>1
  <2>2. CASE x = r
    BY <1>4, <2>2
  <2> QED BY <1>5, <2>1, <2>2
<1> QED BY <1>6 DEF FlowInv

LEMMA FewBefore ==
    ASSUME LinkInv, [Next]_vars, FewDisturbances'
    PROVE  FewDisturbances
<1>1. /\ early \in Nat /\ faults \in Nat /\ listening \in [End -> BOOLEAN]
      /\ NfBurst * faults \in Nat /\ NfBurst \in Nat /\ Modulus \in Nat
  BY LinkAssumption, ManyFaults DEF LinkInv, TypeOK
<1>2. /\ early' = early \/ early' = early + 1
      /\ faults' = faults \/ faults' = faults + 1
      /\ \A e \in End : listening'[e] => listening[e]
  <2>1. CASE UNCHANGED vars
    BY <2>1 DEF vars
  <2>2. CASE \E m \in Msg : SendMessage(m)
    BY <2>2 DEF SendMessage
  <2>3. ASSUME NEW e \in End, StartFrame(e) \/ StopFrame(e) \/ StopMergedFrame(e)
        PROVE  UNCHANGED <<early, faults, listening>>
    BY <2>3 DEF StartFrame, StopFrame, StopMergedFrame, Digest
  <2>4. ASSUME NEW e \in End, ConfirmationTimeout(e) \/ FtoTimeout(e)
        PROVE  (early' = early \/ early' = early + 1) /\ UNCHANGED <<faults, listening>>
    BY <2>4 DEF ConfirmationTimeout, FtoTimeout, CountEarly
  <2>5. ASSUME NEW e \in End, CorruptFrame(e) \/ LoseStop(e) \/ LoseStart(e) \/ LoseFrame(e)
        PROVE  faults' = faults + 1 /\ UNCHANGED <<early, listening>>
    BY <2>5 DEF CorruptFrame, LoseStop, LoseStart, LoseFrame, Fault
  <2>6. ASSUME NEW e \in End, StopListening(e)
        PROVE  /\ faults' = faults + 1 /\ early' = early
               /\ \A x \in End : listening'[x] => listening[x]
    BY <1>1, <2>6 DEF StopListening, Fault
  <2> QED BY <2>1, <2>2, <2>3, <2>4, <2>5, <2>6 DEF Next
<1>3. early + (NfBurst + 4) * faults <= early' + (NfBurst + 4) * faults'
  <2>1. faults + 1 \in Nat
    BY <1>1
  <2>2. \A n \in Nat : (NfBurst + 4) * n = NfBurst * n + 4 * n /\ NfBurst * (n + 1) = NfBurst * n + NfBurst
    BY ManyFaults
  <2>3. (NfBurst + 4) * faults = NfBurst * faults + 4 * faults
    BY <1>1, <2>2
  <2>4. (NfBurst + 4) * (faults + 1) = NfBurst * (faults + 1) + 4 * (faults + 1)
    BY <2>1, <2>2
  <2>5. NfBurst * (faults + 1) = NfBurst * faults + NfBurst
    BY <1>1, <2>2
  <2> DEFINE m == NfBurst * faults
             k == (NfBurst + 4) * faults
             l == (NfBurst + 4) * (faults + 1)
  <2>6. m \in Nat /\ k = m + 4 * faults /\ l = m + NfBurst + 4 * (faults + 1)
    BY <1>1, <2>3, <2>4, <2>5
  <2>7. (NfBurst + 4) * faults' = k \/ (NfBurst + 4) * faults' = l
    BY <1>2
  <2> HIDE DEF m, k, l
  <2>8. k <= l /\ k \in Nat /\ l \in Nat
    BY <1>1, <2>6
  <2>9. early <= early' /\ early' \in Nat
    BY <1>1, <1>2
  <2>10. early + k <= early' + k /\ early + k <= early' + l
    <3>1. \A a, b, c, d \in Int : a <= b /\ c <= d => a + c <= b + d
      OBVIOUS
    <3>2. early \in Int /\ early' \in Int /\ k \in Int /\ l \in Int /\ k <= k /\ k <= l /\ early <= early'
      BY <1>1, <2>8, <2>9
    <3> QED BY <3>1, <3>2
  <2> QED BY <2>7, <2>10 DEF k
<1>4. early + (NfBurst + 4) * faults < Modulus
  <2>1. early' + (NfBurst + 4) * faults' < Modulus
    BY DEF FewDisturbances
  <2>2. \A a, b, c \in Int : a <= b /\ b < c => a < c
    OBVIOUS
  <2>3. early' \in Int /\ faults' \in Int
    BY <1>1, <1>2
  <2>4. early + (NfBurst + 4) * faults \in Int /\ early' + (NfBurst + 4) * faults' \in Int
    BY <1>1, <2>3
  <2> QED BY <1>1, <1>3, <2>1, <2>2, <2>4
<1> QED BY <1>2, <1>4 DEF FewDisturbances

LEMMA FlowInit == Init => FlowInv
<1> SUFFICES ASSUME Init, NEW e \in End PROVE FlowOf(e)
  BY DEF FlowInv
<1>1. Peer(e) \in End
  BY TwoEnds
<1>2. Wire(e) = <<>> /\ Wire(Peer(e)) = <<>>
  BY <1>1 DEF Init, Wire, WireOf
<1>3. <<>> \in Seq(Frame) /\ Len(<<>>) = 0
  BY EmptySeq
<1>4. Slack(e) = 0 /\ Extra(e) = 0
  <2>1. NfBurst * 0 = 0
    BY LinkAssumption
  <2>2. rx[e] = None /\ rx[Peer(e)] = None /\ faults = 0 /\ early = 0
    BY <1>1 DEF Init
  <2>3. /\ Open(e) = 0 /\ Bad(e) = 0 /\ Due(e) = 0
        /\ Open(Peer(e)) = 0 /\ Bad(Peer(e)) = 0 /\ Due(Peer(e)) = 0
    BY <2>2 DEF Open, Bad, Due
  <2> QED BY <2>1, <2>2, <2>3 DEF Slack, Extra
<1>5. OnWay(<<>>, <<>>) = 0
  <2>1. 0 \in Nat /\ 0 >= Len(<<>>)
    BY <1>3
  <2>2. Behind(<<>>, Confirming, 0) = 0 /\ Behind(<<>>, Carrying, 0) = 0
    BY <1>3, <2>1, BehindType
  <2> QED BY <2>2 DEF OnWay
<1>6. Waits(ep[e]) \in 0..1
  BY DEF Waits
<1>7. \A i \in 1..Len(<<>>) : FALSE
  BY <1>3
<1>8. Pipe(ep[e].mid, ep[e].sent, <<>>, <<>>, 0)
  BY <1>7 DEF Pipe, InLine, Sequel
<1> QED BY <1>2, <1>4, <1>5, <1>6, <1>8 DEF FlowOf, Flow

\* One payload frame at most, which confirms nothing.
LEMMA FlowSends ==
    ASSUME NEW s \in Endpoint, NEW W \in Seq(Frame), NEW V \in Seq(Frame), NEW lost \in Int, NEW extra \in Int,
           Flow(s, W, V, lost, extra),
           NEW o, o = <<>> \/ \E f \in Frame : f \in Carrying /\ o = <<f>>
    PROVE  o \in Seq(Frame) /\ W \o o \in Seq(Frame) /\ Flow(s, W \o o, V, lost, extra)
<1>1. o \in Seq(Frame) /\ \A i \in 1..Len(o) : o[i] \in Carrying
  <2>1. CASE o = <<>>
    BY <2>1, EmptySeq
  <2>2. CASE \E f \in Frame : f \in Carrying /\ o = <<f>>
    <3>1. PICK f \in Frame : f \in Carrying /\ o = <<f>>
      BY <2>2
    <3>2. o \in Seq(Frame) /\ Len(o) = 1 /\ o[1] = f
      BY <3>1
    <3> QED BY <3>1, <3>2
  <2> QED BY <2>1, <2>2
<1>2. \A i \in 1..Len(o) : o[i] \notin Confirming /\ o[i] \notin Acks
  BY <1>1, KindsOfFrames
<1>3. \A i \in 1..Len(o) : o[i] \notin Acks
  BY <1>2
<1>4. Flow(s, W \o o, V, lost, extra) /\ W \o o \in Seq(Frame)
  BY <1>1, <1>2, <1>3, FlowAnswer
<1> QED BY <1>1, <1>4

LEMMA ConcatThree ==
    ASSUME NEW s \in Seq(Frame), NEW t \in Seq(Frame), NEW u \in Seq(Frame)
    PROVE  s \o (t \o u) = (s \o t) \o u
BY ConcatAssociative, SMTT(30)

LEMMA DigestedFlow ==
    ASSUME NEW p \in Endpoint, Holds(p), NEW s \in Endpoint, NEW c \in Frame, c \notin Carrying,
           NEW q, Digested(p, q, c), NEW A \in Seq(Frame), NEW B \in Seq(Frame), NEW lost \in Nat, NEW extra \in Int
    PROVE  /\ lost + extra < Modulus /\ Flow(p, A, B, lost, extra) => Flow(q, A, B \o q.out, lost, extra)
           /\ c \notin Acks /\ Flow(s, B, A, lost, extra) => Flow(s, B \o q.out, A, lost, extra + 1)
           /\ A # <<>> /\ A[1] \in Carrying /\ c \in Confirming /\ c.mid = A[1].mid /\ Flow(s, B, A, lost, extra)
                 => Flow(s, B \o q.out, Tail(A), lost, extra)
<1>1. PICK r : Looped(p, r) /\ Twin(r, q) /\ q.out = r.out \o <<c>>
  BY DEF Digested
<1>2. r.out = <<>> \/ \E f \in Frame : f \in Carrying /\ r.out = <<f>>
  BY <1>1, LoopedHolds
<1>3. r \in Endpoint /\ r.out \in Seq(Frame) /\ <<c>> \in Seq(Frame)
  <2>1. r \in Endpoint
    BY <1>1 DEF Looped
  <2>2. r.out \in Seq(Frame)
    BY <2>1 DEF Endpoint
  <2> QED BY <2>1, <2>2
<1> DEFINE C == B \o r.out
<1>4. C \in Seq(Frame) /\ B \o q.out = C \o <<c>>
  <2>1. C \in Seq(Frame)
    BY <1>3, ConcatProperties
  <2>2. B \o (r.out \o <<c>>) = (B \o r.out) \o <<c>>
    BY <1>3, ConcatThree
  <2> QED BY <1>1, <2>1, <2>2
<1>5. ASSUME lost + extra < Modulus, Flow(p, A, B, lost, extra) PROVE Flow(q, A, B \o q.out, lost, extra)
  <2>1. Flow(r, A, C, lost, extra)
    BY <1>1, <1>5, FlowLooped
  <2> HIDE DEF C
  <2>2. Flow(r, A, C \o <<c>>, lost, extra)
    BY <1>3, <1>4, <2>1, FlowWrite
  <2> QED BY <1>1, <1>4, <2>2, TwinFlow
<1>6. ASSUME Flow(s, B, A, lost, extra) PROVE Flow(s, C, A, lost, extra)
  <2> DEFINE o == r.out
  <2>1. o = <<>> \/ \E f \in Frame : f \in Carrying /\ o = <<f>>
    BY <1>2
  <2> HIDE DEF o
  <2>2. Flow(s, B \o o, A, lost, extra)
    BY <1>6, <2>1, FlowSends
  <2> QED BY <2>2 DEF o
<1> HIDE DEF C
<1>7. ASSUME c \notin Acks, Flow(s, B, A, lost, extra) PROVE Flow(s, B \o q.out, A, lost, extra + 1)
  <2> DEFINE o == <<c>>
  <2>1. o \in Seq(Frame) /\ Len(o) = 1 /\ o[1] = c
    OBVIOUS
  <2>2. \A i \in 1..Len(o) : o[i] \notin Acks
    BY <1>7, <2>1
  <2>3. Flow(s, C, A, lost, extra)
    BY <1>6, <1>7
  <2> HIDE DEF o
  <2>4. Flow(s, C \o o, A, lost, extra + Len(o))
    <3>1. C \in Seq(Frame) /\ lost \in Int
      BY <1>4
    <3> QED BY <2>1, <2>2, <2>3, <3>1, FlowAnswer
  <2>5. Flow(s, C \o o, A, lost, extra + 1)
    BY <2>1, <2>4
  <2> QED BY <1>4, <2>5 DEF o
<1>8. ASSUME A # <<>>, A[1] \in Carrying, c \in Confirming, c.mid = A[1].mid, Flow(s, B, A, lost, extra)
      PROVE  Flow(s, B \o q.out, Tail(A), lost, extra)
  <2>1. Flow(s, C, A, lost, extra)
    BY <1>6, <1>8
  <2>2. Flow(s, C \o <<c>>, Tail(A), lost, extra)
    BY <1>4, <1>8, <2>1, FlowPassed
  <2> QED BY <1>4, <2>2
<1> QED BY <1>5, <1>7, <1>8

\* Nothing changes but what the numbers allow.
LEMMA FlowStays ==
    ASSUME LinkInv, FlowInv, FewDisturbances, FramedInv, LinkInv', FramedInv', FewDisturbances', NEW e \in End,
           ep' = ep, Wire(e)' = Wire(e), Wire(Peer(e))' = Wire(Peer(e)),
           Slack(e) <= Slack(e)', Extra(e) <= Extra(e)'
    PROVE  FlowInv'
<1>1. Peer(e) \in End /\ Peer(Peer(e)) = e
  BY TwoEnds
<1>2. Wire(e) \in Seq(Frame) /\ Wire(Peer(e)) \in Seq(Frame) /\ ep[e] \in Endpoint /\ ep[Peer(e)] \in Endpoint
  BY <1>1, WiresAre DEF LinkInv, TypeOK
<1>3. FlowOf(e) /\ FlowOf(Peer(e))
  BY <1>1 DEF FlowInv
<1>4. /\ Slack(e) \in Int /\ Extra(e) \in Int /\ Slack(Peer(e)) = Slack(e) /\ Extra(Peer(e)) = Extra(e)
      /\ Slack(e)' \in Int /\ Extra(e)' \in Int
  BY Numbers
<1>5. Flow(ep[e], Wire(e), Wire(Peer(e)), Slack(e)', Extra(e)')
  <2>1. Flow(ep[e], Wire(e), Wire(Peer(e)), Slack(e), Extra(e))
    BY <1>3 DEF FlowOf
  <2> QED BY <1>2, <1>4, <2>1, FlowLoses
<1>6. Flow(ep[Peer(e)], Wire(Peer(e)), Wire(e), Slack(e)', Extra(e)')
  <2>1. Flow(ep[Peer(e)], Wire(Peer(e)), Wire(e), Slack(e), Extra(e))
    BY <1>1, <1>3, <1>4 DEF FlowOf
  <2> QED BY <1>2, <1>4, <2>1, FlowLoses
<1> QED BY <1>5, <1>6, FlowBoth

\* What holds before each step below.
Flowing ==
    LinkInv /\ FramedInv /\ FlowInv /\ FewDisturbances /\ LinkInv' /\ FramedInv' /\ FewDisturbances'

LEMMA FlowBefore ==
    ASSUME Flowing, NEW e \in End
    PROVE  LET r == Peer(e) IN
           /\ r \in End /\ r # e /\ Peer(r) = e
           /\ Ready(ep[e]) /\ ep[e] \in Endpoint /\ ep[r] \in Endpoint /\ Holds(ep[e]) /\ ep[e].out = <<>>
           /\ line[e] \in Seq(Frame) /\ line[r] \in Seq(Frame)
           /\ rx[e] \in Frame \cup {None} /\ rx[r] \in Frame \cup {None}
           /\ Wire(e) \in Seq(Frame) /\ Wire(r) \in Seq(Frame)
           /\ Flow(ep[e], Wire(e), Wire(r), Slack(e), Extra(e))
           /\ Flow(ep[r], Wire(r), Wire(e), Slack(e), Extra(e))
           /\ Slack(e) \in Nat /\ Extra(e) \in Int /\ Slack(e) + Extra(e) < Modulus
           /\ Slack(e)' \in Nat /\ Extra(e)' \in Int /\ Slack(e)' + Extra(e)' < Modulus
           /\ Clean(line[e]) /\ Reads(e)
           /\ faults \in Nat /\ early \in Nat /\ NfBurst * faults \in Nat /\ NfBurst \in Nat
<1> DEFINE r == Peer(e)
<1>1. r \in End /\ r # e /\ Peer(r) = e
  BY TwoEnds
<1>2. LinkInv /\ FramedInv /\ FlowInv /\ FewDisturbances /\ LinkInv' /\ FramedInv' /\ FewDisturbances'
  BY DEF Flowing
<1>3. /\ Ready(ep[e]) /\ ep[e] \in Endpoint /\ ep[r] \in Endpoint /\ Holds(ep[e]) /\ ep[e].out = <<>>
      /\ Clean(line[e]) /\ Reads(e)
  BY <1>1, <1>2 DEF LinkInv, Ready, FramedInv, Lines, Readers
<1>4. /\ line[e] \in Seq(Frame) /\ line[r] \in Seq(Frame)
      /\ rx[e] \in Frame \cup {None} /\ rx[r] \in Frame \cup {None}
      /\ faults \in Nat /\ early \in Nat
  BY <1>1, <1>2, LinkAssumption DEF LinkInv, TypeOK
<1>5. Wire(e) \in Seq(Frame) /\ Wire(r) \in Seq(Frame)
  BY <1>1, <1>2, WiresAre
<1>6. FlowOf(e) /\ FlowOf(r)
  BY <1>1, <1>2 DEF FlowInv
<1>7. /\ Slack(e) \in Nat /\ Extra(e) \in Int /\ Slack(e) + Extra(e) < Modulus
      /\ Slack(r) = Slack(e) /\ Extra(r) = Extra(e)
      /\ Slack(e)' \in Nat /\ Extra(e)' \in Int /\ Slack(e)' + Extra(e)' < Modulus
  BY <1>2, Numbers
<1>8. NfBurst * faults \in Nat /\ NfBurst \in Nat
  BY <1>4, ManyFaults, LinkAssumption
<1>9. Flow(ep[e], Wire(e), Wire(r), Slack(e), Extra(e))
  BY <1>6 DEF FlowOf
<1>10. Flow(ep[r], Wire(r), Wire(e), Slack(e), Extra(e))
  BY <1>1, <1>6, <1>7 DEF FlowOf
<1> HIDE DEF r
<1> QED BY <1>1, <1>3, <1>4, <1>5, <1>7, <1>8, <1>9, <1>10 DEF r

\* A handler has run, and nothing was read.
LEMMA FlowHandled ==
    ASSUME Flowing, NEW e \in End, NEW q \in Endpoint, NEW in \in [End -> Seq(Frame)], in[Peer(e)] = line[Peer(e)],
           rx'[Peer(e)] = rx[Peer(e)], Become(e, q, in),
           Flow(q, Wire(e)', Wire(Peer(e)) \o q.out, Slack(e)', Extra(e)'),
           Flow(ep[Peer(e)], Wire(Peer(e)) \o q.out, Wire(e)', Slack(e)', Extra(e)')
    PROVE  FlowInv'
<1>1. LinkInv /\ LinkInv' /\ FramedInv' /\ FewDisturbances'
  BY DEF Flowing
<1>2. /\ Twin(q, ep'[e]) /\ ep'[Peer(e)] = ep[Peer(e)]
      /\ line'[Peer(e)] = in[Peer(e)] \o q.out
  BY <1>1, Became
<1>3. Wire(Peer(e))' = Wire(Peer(e)) \o q.out
  <2>1. q.out \in Seq(Frame) /\ line[Peer(e)] \in Seq(Frame) /\ rx[Peer(e)] \in Frame \cup {None}
    BY FlowBefore DEF Endpoint
  <2>2. WireOf(rx[Peer(e)], line[Peer(e)] \o q.out) = WireOf(rx[Peer(e)], line[Peer(e)]) \o q.out
    BY <2>1, WireWritten
  <2> QED BY <1>2, <2>2 DEF Wire
<1>4. Flow(ep'[e], Wire(e)', Wire(Peer(e))', Slack(e)', Extra(e)')
  BY <1>2, <1>3, TwinFlow
<1>5. Flow(ep'[Peer(e)], Wire(Peer(e))', Wire(e)', Slack(e)', Extra(e)')
  BY <1>2, <1>3
<1> QED BY <1>1, <1>4, <1>5, FlowBoth

\* The sender writes several frames that are no payload.
LEMMA FlowWrites ==
    ASSUME NEW q \in Endpoint, NEW W \in Seq(Frame), NEW V \in Seq(Frame), NEW lost \in Int, NEW extra \in Int,
           NEW o \in Seq(Frame), \A i \in 1..Len(o) : o[i] \notin Carrying, Flow(q, W, V, lost, extra)
    PROVE  V \o o \in Seq(Frame) /\ Flow(q, W, V \o o, lost, extra)
<1> DEFINE T == V \o o
           c == q.mid
<1>1. /\ T \in Seq(Frame) /\ Len(T) = Len(V) + Len(o) /\ Len(V) \in Nat /\ Len(o) \in Nat
      /\ \A i \in 1..Len(V) + Len(o) : T[i] = IF i <= Len(V) THEN V[i] ELSE o[i - Len(V)]
  BY ConcatProperties
<1>2. Behind(o, Carrying, 0) = 0
  <2>1. {j \in 0+1..Len(o) : o[j] \in Carrying} = {}
    OBVIOUS
  <2> QED BY <2>1, FS_EmptySet DEF Behind
<1>3. \A k \in Nat : k <= Len(V) => Behind(T, Carrying, k) = Behind(V, Carrying, k)
  <2> SUFFICES ASSUME NEW k \in Nat, k <= Len(V) PROVE Behind(T, Carrying, k) = Behind(V, Carrying, k)
    OBVIOUS
  <2>1. Behind(T, Carrying, k) = Behind(V, Carrying, k) + Behind(o, Carrying, 0)
    BY BehindMore
  <2>2. Behind(V, Carrying, k) \in Nat
    BY BehindType
  <2> QED BY <1>2, <2>1, <2>2
<1>4. \A k \in 1..Len(T) : T[k] \in Carrying => k \in 1..Len(V) /\ T[k] = V[k]
  <2> SUFFICES ASSUME NEW k \in 1..Len(T), T[k] \in Carrying PROVE k \in 1..Len(V) /\ T[k] = V[k]
    OBVIOUS
  <2>1. k <= Len(V)
    <3> SUFFICES ASSUME ~(k <= Len(V)) PROVE FALSE
      OBVIOUS
    <3>1. k - Len(V) \in 1..Len(o) /\ T[k] = o[k - Len(V)]
      BY <1>1
    <3> QED BY <3>1
  <2> QED BY <1>1, <2>1
<1> HIDE DEF T
<1>5. InLine(c, W, V, lost) /\ Sequel(c, q.sent, V, lost) /\ OnWay(W, V) <= extra + Waits(q)
  BY DEF Flow, Pipe
<1>6. Behind(T, Carrying, 0) = Behind(V, Carrying, 0)
  <2>1. 0 \in Nat /\ 0 <= Len(V)
    BY <1>1
  <2> QED BY <1>3, <2>1
<1>7. InLine(c, W, T, lost)
  <2> SUFFICES ASSUME NEW k \in 1..Len(W), W[k] \in Acks
               PROVE  /\ Age(c, W[k].mid) <= Behind(W, Confirming, k) + Behind(T, Carrying, 0) + lost
                      /\ W[k].mid = c => \A l \in 1..Len(T) : T[l] \in Carrying => T[l].mid = c
    BY DEF InLine
  <2>1. /\ Age(c, W[k].mid) <= Behind(W, Confirming, k) + Behind(V, Carrying, 0) + lost
        /\ W[k].mid = c => \A l \in 1..Len(V) : V[l] \in Carrying => V[l].mid = c
    BY <1>5 DEF InLine
  <2> QED BY <1>4, <1>6, <2>1
<1>8. Sequel(c, q.sent, T, lost)
  <2> SUFFICES ASSUME NEW k \in 1..Len(T), T[k] \in Carrying
               PROVE  /\ Age(c, T[k].mid) <= Behind(T, Carrying, k) + lost
                      /\ T[k].mid = c => T[k] = q.sent /\ \A l \in k..Len(T) : T[l] \in Carrying => T[l].mid = c
    BY DEF Sequel
  <2>1. k \in 1..Len(V) /\ T[k] = V[k]
    BY <1>4
  <2>2. /\ Age(c, V[k].mid) <= Behind(V, Carrying, k) + lost
        /\ V[k].mid = c => V[k] = q.sent /\ \A l \in k..Len(V) : V[l] \in Carrying => V[l].mid = c
    BY <1>5, <2>1 DEF Sequel
  <2>3. Behind(T, Carrying, k) = Behind(V, Carrying, k)
    BY <1>1, <1>3, <2>1
  <2>4. ASSUME T[k].mid = c, NEW l \in k..Len(T), T[l] \in Carrying PROVE T[l].mid = c
    <3>1. l \in 1..Len(T)
      BY <1>1
    <3>2. l \in 1..Len(V) /\ T[l] = V[l]
      BY <1>4, <2>4, <3>1
    <3>3. l \in k..Len(V)
      BY <1>1, <3>2
    <3> QED BY <2>1, <2>2, <2>4, <3>2, <3>3
  <2> QED BY <2>1, <2>2, <2>3, <2>4
<1>9. OnWay(W, T) = OnWay(W, V)
  BY <1>6 DEF OnWay
<1>10. Flow(q, W, T, lost, extra)
  BY <1>5, <1>7, <1>8, <1>9 DEF Flow, Pipe
<1> QED BY <1>1, <1>10 DEF T

\* An end has written, and nothing was read.
LEMMA FlowWritten ==
    ASSUME Flowing, NEW e \in End, NEW q \in Endpoint, rx' = rx, Become(e, q, line),
           Flow(q, Wire(e), Wire(Peer(e)) \o q.out, Slack(e)', Extra(e)'),
           Flow(ep[Peer(e)], Wire(Peer(e)) \o q.out, Wire(e), Slack(e)', Extra(e)')
    PROVE  FlowInv'
<1>1. LinkInv /\ line \in [End -> Seq(Frame)]
  BY DEF Flowing, LinkInv, TypeOK
<1>2. line'[e] = line[e]
  BY <1>1, Became
<1>3. Wire(e)' = Wire(e)
  BY <1>2 DEF Wire
<1>4. line[Peer(e)] = line[Peer(e)] /\ rx'[Peer(e)] = rx[Peer(e)]
  OBVIOUS
<1> QED BY <1>1, <1>3, <1>4, FlowHandled

\* The numbers do not fall.
LEMMA NumbersSame ==
    ASSUME NEW e \in End, rx' = rx, fto' = fto, faults' = faults
    PROVE  /\ Slack(e)' = Slack(e)
           /\ early' = early => Extra(e)' = Extra(e)
           /\ faults \in Nat /\ early \in Nat /\ NfBurst * faults \in Nat /\ early' = early + 1 => Extra(e)' = Extra(e) + 1
<1>1. Open(e)' = Open(e) /\ Open(Peer(e))' = Open(Peer(e)) /\ Bad(e)' = Bad(e) /\ Bad(Peer(e))' = Bad(Peer(e))
      /\ Due(e)' = Due(e) /\ Due(Peer(e))' = Due(Peer(e))
  BY DEF Open, Bad, Due
<1>2. Bad(e) \in 0..1 /\ Bad(Peer(e)) \in 0..1 /\ Due(e) \in 0..1 /\ Due(Peer(e)) \in 0..1
  BY Ones
<1>3. ASSUME faults \in Nat, early \in Nat, NfBurst * faults \in Nat, early' = early + 1
      PROVE  Extra(e)' = Extra(e) + 1
  BY <1>1, <1>2, <1>3 DEF Extra
<1> QED BY <1>1, <1>3 DEF Slack, Extra

LEMMA SendMessageFlow ==
    ASSUME Flowing, NEW m \in Msg, SendMessage(m)
    PROVE  FlowInv'
<1> DEFINE e == From[m]
           p == ep[e]
           p1 == [p EXCEPT !.queue = Append(@, m)]
           q == SendLoop(p1)
<1>1. e \in End
  BY LinkAssumption
<1>2. /\ p \in Endpoint /\ Holds(p) /\ p.out = <<>> /\ Peer(e) \in End
      /\ ep[Peer(e)] \in Endpoint /\ Wire(e) \in Seq(Frame) /\ Wire(Peer(e)) \in Seq(Frame)
      /\ Flow(p, Wire(e), Wire(Peer(e)), Slack(e), Extra(e))
      /\ Flow(ep[Peer(e)], Wire(Peer(e)), Wire(e), Slack(e), Extra(e))
      /\ Slack(e) \in Nat /\ Extra(e) \in Int /\ Slack(e) + Extra(e) < Modulus
  BY <1>1, FlowBefore
<1>3. p1 \in Endpoint /\ p1.out = <<>> /\ Twin(p, p1)
  BY <1>2, AppendProperties DEF Endpoint, Twin, Stays
<1>4. Become(e, q, line) /\ rx' = rx /\ Slack(e)' = Slack(e) /\ Extra(e)' = Extra(e)
  <2>1. rx' = rx /\ fto' = fto /\ faults' = faults /\ early' = early /\ Become(e, q, line)
    BY DEF SendMessage
  <2> QED BY <1>1, <2>1, NumbersSame
<1> HIDE DEF p1
<1>5. Looped(p1, q) /\ q \in Endpoint
  <2>1. Looped(p1, q)
    BY <1>3, LoopLooped
  <2> QED BY <2>1 DEF Looped
<1>6. Holds(p1) /\ Flow(p1, Wire(e), Wire(Peer(e)), Slack(e), Extra(e))
  BY <1>2, <1>3, TwinFlow
<1> HIDE DEF q
<1>7. Flow(q, Wire(e), Wire(Peer(e)) \o q.out, Slack(e), Extra(e))
  BY <1>2, <1>3, <1>5, <1>6, FlowLooped
<1>8. Flow(ep[Peer(e)], Wire(Peer(e)) \o q.out, Wire(e), Slack(e), Extra(e))
  <2> DEFINE o == q.out
  <2>1. o = <<>> \/ \E f \in Frame : f \in Carrying /\ o = <<f>>
    BY <1>3, <1>5, <1>6, LoopedHolds
  <2>2. Slack(e) \in Int
    BY <1>2
  <2> HIDE DEF o
  <2>3. Flow(ep[Peer(e)], Wire(Peer(e)) \o o, Wire(e), Slack(e), Extra(e))
    BY <1>2, <2>1, <2>2, FlowSends
  <2> QED BY <2>3 DEF o
<1> HIDE DEF e
<1>9. Flow(q, Wire(e), Wire(Peer(e)) \o q.out, Slack(e)', Extra(e)')
  BY <1>4, <1>7
<1>10. Flow(ep[Peer(e)], Wire(Peer(e)) \o q.out, Wire(e), Slack(e)', Extra(e)')
  BY <1>4, <1>8
<1> QED BY <1>1, <1>4, <1>5, <1>9, <1>10, FlowWritten

LEMMA StartFrameFlow ==
    ASSUME Flowing, NEW e \in End, StartFrame(e)
    PROVE  FlowInv'
<1>1. LinkInv /\ FramedInv /\ FlowInv /\ FewDisturbances /\ LinkInv' /\ FramedInv' /\ FewDisturbances'
  BY DEF Flowing
<1>2. /\ Peer(e) \in End /\ Peer(e) # e /\ line[e] \in Seq(Frame) /\ Clean(line[e])
      /\ rx[e] = None /\ line[e] # <<>> /\ ep' = ep /\ early' = early /\ faults' = faults
      /\ rx' = [rx EXCEPT ![e] = Head(line[e])] /\ line' = [line EXCEPT ![e] = Tail(@)]
      /\ fto' = [fto EXCEPT ![e] = TRUE]
  BY FlowBefore DEF StartFrame
<1>3. rx \in [End -> Frame \cup {None}] /\ line \in [End -> Seq(Frame)] /\ fto \in [End -> BOOLEAN]
  BY <1>1 DEF LinkInv, TypeOK
<1>4. /\ rx'[e] = Head(line[e]) /\ line'[e] = Tail(line[e]) /\ rx'[Peer(e)] = rx[Peer(e)]
      /\ line'[Peer(e)] = line[Peer(e)] /\ fto'[Peer(e)] = fto[Peer(e)]
  BY <1>2, <1>3
<1>5. Head(line[e]) \in Frame /\ Head(line[e]).good /\ Head(line[e]).stop
  BY <1>2, CleanParts
<1>6. WireOf(Head(line[e]), Tail(line[e])) = line[e]
  BY <1>2, WireStarted
<1>7. Wire(e)' = Wire(e) /\ Wire(Peer(e))' = Wire(Peer(e))
  <2>1. Wire(e)' = WireOf(Head(line[e]), Tail(line[e]))
    BY <1>4 DEF Wire
  <2>2. Wire(e) = line[e]
    BY <1>2 DEF Wire, WireOf
  <2>3. Wire(Peer(e))' = Wire(Peer(e))
    BY <1>4 DEF Wire
  <2> QED BY <1>6, <2>1, <2>2, <2>3
<1>8. /\ Open(e) = 0 /\ Bad(e) = 0 /\ Due(e) = 0 /\ Open(e)' = 0 /\ Bad(e)' = 0 /\ Due(e)' = 0
      /\ Open(Peer(e))' = Open(Peer(e)) /\ Bad(Peer(e))' = Bad(Peer(e)) /\ Due(Peer(e))' = Due(Peer(e))
  BY <1>2, <1>4, <1>5 DEF Open, Bad, Due
<1>9. Slack(e)' = Slack(e) /\ Extra(e)' = Extra(e) /\ Slack(e) \in Int /\ Extra(e) \in Int
  <2>1. Slack(e)' = Slack(e) /\ Extra(e)' = Extra(e)
    BY <1>2, <1>8 DEF Slack, Extra
  <2> QED BY <2>1, FlowBefore
<1>10. Slack(e) <= Slack(e)' /\ Extra(e) <= Extra(e)'
  BY <1>9
<1> QED BY <1>1, <1>2, <1>7, <1>10, FlowStays

\* The sender that waits sends again or gives up.
LEMMA TimeoutMoves ==
    ASSUME NEW p, Ready(p), Holds(p), p.timer, p.out = <<>>, NEW n \in Int
    PROVE  /\ LET q == ResendPayloadFrame([p EXCEPT !.timeouts = n]) IN q \in Endpoint /\ Moves(p, q)
           /\ LET q == GiveUp([p EXCEPT !.timeouts = n]) IN q \in Endpoint /\ Moves(p, q)
           /\ p.sender = "WaitForAck"
<1> DEFINE r == [p EXCEPT !.timeouts = n]
<1>1. p \in Endpoint /\ p.sender = "WaitForAck" /\ p.msg \in Msg /\ p.sent \in Frame
  BY DEF Ready, CanResend
<1>2. Level(p, r)
  BY <1>1, ChangesLevel
<1>3. r \in Endpoint /\ r.sender = p.sender /\ r.needAck = p.needAck
  BY <1>1 DEF Endpoint
<1>4. CanResend(r) /\ r.out = <<>> /\ Holds(r)
  BY <1>1, <1>2, <1>3 DEF CanResend, Level, Stays, Holds
<1> HIDE DEF r
<1>5. Moves(r, ResendPayloadFrame(r)) /\ ResendPayloadFrame(r) \in Endpoint
  BY <1>4, ResentBy, ResendReady DEF Moves, Ready
<1>6. Moves(r, GiveUp(r)) /\ GiveUp(r) \in Endpoint
  BY <1>4, GivenUp, GiveUpReady DEF Moves, Ready
<1>7. Moves(p, ResendPayloadFrame(r)) /\ Moves(p, GiveUp(r))
  BY <1>2, <1>5, <1>6, LevelMoves
<1> QED BY <1>1, <1>5, <1>6, <1>7 DEF r

\* Nothing is under way when everything is quiet.
LEMMA QuietFlow ==
    ASSUME Flowing, NEW e \in End, Quiet
    PROVE  OnWay(Wire(e), Wire(Peer(e))) <= Extra(e)
<1> DEFINE r == Peer(e)
<1>1. /\ r \in End /\ faults \in Nat /\ early \in Nat /\ NfBurst * faults \in Nat
      /\ FewDisturbances /\ FramedInv /\ Reads(e)
  BY FlowBefore DEF Flowing
<1>2. /\ line[e] = <<>> /\ line[r] = <<>> /\ (rx[e] = None \/ ~rx[e].stop) /\ (rx[r] = None \/ ~rx[r].stop)
  BY <1>1 DEF Quiet, FewDisturbances
<1>3. /\ rx[e] \in Frame \cup {None} /\ rx[r] \in Frame \cup {None} /\ Reads(r)
      /\ Open(e) + Open(r) <= faults
  BY <1>1, FlowBefore DEF FramedInv, Readers
<1>4. ASSUME NEW x \in Frame \cup {None}, x # None => ~x.good, NEW F, F = Confirming \/ F = Carrying
      PROVE  Behind(WireOf(x, <<>>), F, 0) = 0
  <2>1. WireOf(x, <<>>) \in Seq(Frame)
    BY <1>4, EmptySeq, WireIsSeq
  <2>2. CASE x = None
    <3>1. WireOf(x, <<>>) = <<>>
      BY <2>2 DEF WireOf
    <3>2. Len(<<>>) = 0 /\ 0 \in Nat
      OBVIOUS
    <3>3. 0 >= Len(WireOf(x, <<>>))
      BY <3>1, <3>2
    <3> QED BY <2>1, <3>2, <3>3, BehindType
  <2>3. CASE x # None
    <3>1. x \in Frame /\ x \notin F
      BY <1>4, <2>3 DEF Confirming, Carrying
    <3>2. WireOf(x, <<>>) = <<x>>
      BY <2>3, <3>1 DEF WireOf
    <3> QED BY <3>1, <3>2, BehindOne
  <2> QED BY <2>2, <2>3
<1>5. (rx[e] # None => ~rx[e].good) /\ (rx[r] # None => ~rx[r].good)
  BY <1>1, <1>2, <1>3 DEF Reads
<1>6. OnWay(Wire(e), Wire(r)) = 0
  <2>1. Behind(WireOf(rx[e], <<>>), Confirming, 0) = 0
    BY <1>3, <1>4, <1>5
  <2>2. Behind(WireOf(rx[r], <<>>), Carrying, 0) = 0
    BY <1>3, <1>4, <1>5
  <2>3. Wire(e) = WireOf(rx[e], <<>>) /\ Wire(r) = WireOf(rx[r], <<>>)
    BY <1>2 DEF Wire
  <2> HIDE DEF r
  <2>4. Behind(Wire(e), Confirming, 0) = 0 /\ Behind(Wire(r), Carrying, 0) = 0
    BY <2>1, <2>2, <2>3
  <2> QED BY <2>4 DEF OnWay
<1>7. Bad(e) <= Open(e) /\ Bad(r) <= Open(r) /\ Due(e) <= Open(e) /\ Due(r) <= Open(r)
  BY <1>2 DEF Bad, Due, Open
<1>8. /\ Open(e) \in 0..1 /\ Open(r) \in 0..1 /\ Bad(e) \in 0..1 /\ Bad(r) \in 0..1
      /\ Due(e) \in 0..1 /\ Due(r) \in 0..1
  BY Ones
<1>9. 0 <= Extra(e)
  <2>1. Extra(e) = early + 2 * faults + NfBurst * faults - Bad(e) - Bad(r) - Due(e) - Due(r)
    BY DEF Extra
  <2> HIDE DEF r
  <2> QED BY <1>1, <1>3, <1>7, <1>8, <2>1
<1> QED BY <1>6, <1>9

LEMMA TimeoutFlow ==
    ASSUME Flowing, NEW e \in End, ConfirmationTimeout(e)
    PROVE  FlowInv'
<1> DEFINE n == ep[e].timeouts + 1
           p == ep[e]
           q == IF n < TimeoutMax THEN ResendPayloadFrame([ep[e] EXCEPT !.timeouts = n])
                                  ELSE GiveUp([ep[e] EXCEPT !.timeouts = 0])
           W == Wire(e)
           V == Wire(Peer(e))
<1>1. /\ p \in Endpoint /\ Ready(p) /\ Holds(p) /\ p.out = <<>> /\ Peer(e) \in End
      /\ ep[Peer(e)] \in Endpoint /\ W \in Seq(Frame) /\ V \in Seq(Frame)
      /\ Flow(p, W, V, Slack(e), Extra(e))
      /\ Flow(ep[Peer(e)], V, W, Slack(e), Extra(e))
      /\ Slack(e) \in Nat /\ Extra(e) \in Int /\ Slack(e) + Extra(e) < Modulus
      /\ Slack(e)' + Extra(e)' < Modulus
      /\ faults \in Nat /\ early \in Nat /\ NfBurst * faults \in Nat
  BY FlowBefore
<1>2. /\ p.timer /\ Become(e, q, line) /\ rx' = rx /\ fto' = fto /\ faults' = faults
      /\ early' = IF ~Quiet THEN early + 1 ELSE early
  BY DEF ConfirmationTimeout, CountEarly
<1>3. q \in Endpoint /\ Moves(p, q) /\ p.sender = "WaitForAck"
  <2>1. n \in Int /\ 0 \in Int
    <3>1. p.timeouts \in Int
      BY <1>1 DEF Endpoint
    <3> QED BY <3>1
  <2> HIDE DEF n
  <2> QED BY <1>1, <1>2, <2>1, TimeoutMoves
<1> HIDE DEF q, p, W, V
<1>4. Slack(e)' = Slack(e) /\ Extra(e) <= Extra(e)' /\ Extra(e)' \in Int /\ (~Quiet => Extra(e)' = Extra(e) + 1)
  BY <1>1, <1>2, NumbersSame
<1>5. OnWay(W, V) <= Extra(e)'
  <2>1. CASE Quiet
    <3>1. OnWay(W, V) <= Extra(e)
      BY <2>1, QuietFlow DEF W, V
    <3>2. OnWay(W, V) \in Int
      BY <1>1, OnWayType
    <3> QED BY <1>1, <1>4, <3>1, <3>2
  <2>2. CASE ~Quiet
    <3>1. OnWay(W, V) <= Extra(e) + Waits(p)
      BY <1>1 DEF Flow
    <3>2. Waits(p) = 1
      BY <1>3 DEF Waits
    <3> QED BY <1>4, <2>2, <3>1, <3>2
  <2> QED BY <2>1, <2>2
<1>6. Flow(q, W, V \o q.out, Slack(e), Extra(e)')
  <2>1. Slack(e) + Extra(e)' < Modulus
    BY <1>1, <1>4
  <2>2. Pipe(p.mid, p.sent, W, V, Slack(e))
    BY <1>1 DEF Flow
  <2> DEFINE x == Extra(e)'
  <2>3. x \in Int /\ Slack(e) + x < Modulus /\ OnWay(W, V) <= x
    BY <1>4, <1>5, <2>1
  <2> HIDE DEF x
  <2>4. Flow(q, W, V \o q.out, Slack(e), x)
    BY <1>1, <1>3, <2>2, <2>3, FlowMoves
  <2> QED BY <2>4 DEF x
<1>7. Flow(ep[Peer(e)], V \o q.out, W, Slack(e), Extra(e)')
  <2> DEFINE o == q.out
             x == Extra(e)'
             s == ep[Peer(e)]
  <2>1. o = <<>> \/ \E f \in Frame : f \in Carrying /\ o = <<f>>
    BY <1>1, <1>3, MovesWrite
  <2>2. Slack(e) \in Int /\ s \in Endpoint /\ x \in Int /\ Extra(e) <= x /\ Slack(e) <= Slack(e)
    BY <1>1, <1>4
  <2>3. Flow(s, V, W, Slack(e), Extra(e))
    BY <1>1
  <2> HIDE DEF o, x, s
  <2>4. Flow(s, V, W, Slack(e), x)
    BY <1>1, <2>2, <2>3, FlowLoses
  <2>5. Flow(s, V \o o, W, Slack(e), x)
    BY <1>1, <2>1, <2>2, <2>4, FlowSends
  <2> QED BY <2>5 DEF o, x, s
<1>8. Flow(q, W, V \o q.out, Slack(e)', Extra(e)')
  BY <1>4, <1>6
<1>9. Flow(ep[Peer(e)], V \o q.out, W, Slack(e)', Extra(e)')
  BY <1>4, <1>7
<1> QED BY <1>2, <1>3, <1>8, <1>9, FlowWritten DEF W, V

\* What a NAK adds for the peer is allowed for.
LEMMA FtoFlow ==
    ASSUME Flowing, NEW e \in End, FtoTimeout(e)
    PROVE  FlowInv'
<1> DEFINE p == ep[e]
           q == SendConfirmFrame(p, Nak)
           W == Wire(e)
           V == Wire(Peer(e))
<1>1. /\ p \in Endpoint /\ Holds(p) /\ p.out = <<>> /\ Peer(e) \in End /\ Peer(e) # e
      /\ ep[Peer(e)] \in Endpoint /\ W \in Seq(Frame) /\ V \in Seq(Frame)
      /\ Flow(p, W, V, Slack(e), Extra(e))
      /\ Flow(ep[Peer(e)], V, W, Slack(e), Extra(e))
      /\ Slack(e) \in Nat /\ Extra(e) \in Int
      /\ Slack(e)' \in Nat /\ Extra(e)' \in Int
      /\ faults \in Nat /\ early \in Nat /\ NfBurst * faults \in Nat /\ Reads(e)
  BY FlowBefore
<1>2. /\ fto[e] /\ fto' = [fto EXCEPT ![e] = FALSE] /\ Become(e, q, line) /\ rx' = rx /\ faults' = faults
      /\ early' = IF rx[e] # None /\ rx[e].stop THEN early + 1 ELSE early
  BY DEF FtoTimeout, CountEarly
<1>3. listening[e] /\ fto \in [End -> BOOLEAN]
  BY DEF Flowing, FewDisturbances, LinkInv, TypeOK
<1>4. Slack(e)' = Slack(e) /\ Extra(e)' = Extra(e) + 1
  <2>1. /\ Open(e)' = Open(e) /\ Open(Peer(e))' = Open(Peer(e)) /\ Bad(e)' = Bad(e) /\ Bad(Peer(e))' = Bad(Peer(e))
        /\ Due(Peer(e))' = Due(Peer(e)) /\ Due(e)' = 0
    BY <1>1, <1>2, <1>3 DEF Open, Bad, Due
  <2>2. rx[e] # None
    BY <1>1, <1>2, <1>3 DEF Reads
  <2>3. Due(e) = IF rx[e].stop THEN 0 ELSE 1
    BY <1>2, <2>2 DEF Due
  <2>4. Bad(e) \in 0..1 /\ Bad(Peer(e)) \in 0..1 /\ Due(Peer(e)) \in 0..1
    BY Ones
  <2>5. Slack(e)' = Slack(e)
    BY <1>2, <2>1 DEF Slack
  <2>6. Extra(e)' = early' + 2 * faults + NfBurst * faults - Bad(e) - Bad(Peer(e)) - 0 - Due(Peer(e))
    BY <1>2, <2>1 DEF Extra
  <2>7. early' = early + 1 - Due(e)
    BY <1>1, <1>2, <2>2, <2>3
  <2>8. Extra(e) = early + 2 * faults + NfBurst * faults - Bad(e) - Bad(Peer(e)) - Due(e) - Due(Peer(e))
    BY DEF Extra
  <2>9. Due(e) \in 0..1
    BY Ones
  <2>10. faults \in Nat /\ early \in Nat /\ NfBurst * faults \in Nat
    BY <1>1
  <2>11. Extra(e)' = Extra(e) + 1
    <3> HIDE DEF p, q, W, V
    <3> QED BY <2>4, <2>6, <2>7, <2>8, <2>9, <2>10
  <2> QED BY <2>5, <2>11
<1>5. Nak \in Frame /\ Nak \notin Carrying /\ Nak \notin Acks
  BY ConfirmationsNoPayload, NakIs, FramesMade DEF Carrying, Acks, Confirmation
<1>6. q \in Endpoint /\ Twin(p, q) /\ q.out = <<Nak>>
  <2>1. q \in Endpoint /\ Twin(p, q) /\ q.out = p.out \o <<Nak>>
    BY <1>1, <1>5, ConfirmTwin
  <2>2. <<>> \o <<Nak>> = <<Nak>>
    BY <1>5
  <2> QED BY <1>1, <2>1, <2>2
<1> HIDE DEF q, p, W, V
<1>7. Flow(q, W, V \o q.out, Slack(e)', Extra(e)')
  <2> DEFINE a == Slack(e)
             x == Extra(e)
             y == Extra(e)'
  <2>1. a \in Int /\ x \in Int /\ y \in Int /\ a <= a /\ x <= y /\ Flow(p, W, V, a, x)
    BY <1>1, <1>4
  <2> HIDE DEF a, x, y
  <2>2. Flow(p, W, V, a, y)
    BY <1>1, <2>1, FlowLoses
  <2>3. Flow(p, W, V \o <<Nak>>, a, y)
    BY <1>1, <1>5, <2>1, <2>2, FlowWrite
  <2>4. Flow(q, W, V \o <<Nak>>, a, y)
    BY <1>6, <2>3, TwinFlow
  <2> QED BY <1>4, <1>6, <2>4 DEF a, y
<1>8. Flow(ep[Peer(e)], V \o q.out, W, Slack(e)', Extra(e)')
  <2> DEFINE a == Slack(e)
             x == Extra(e)
             o == <<Nak>>
             s == ep[Peer(e)]
  <2>1. /\ a \in Int /\ x \in Int /\ Flow(s, V, W, a, x) /\ s \in Endpoint
        /\ o \in Seq(Frame) /\ Len(o) = 1 /\ \A i \in 1..Len(o) : o[i] \notin Acks
    BY <1>1, <1>5
  <2> HIDE DEF a, x, o, s
  <2>2. Flow(s, V \o o, W, a, x + Len(o))
    BY <1>1, <2>1, FlowAnswer
  <2>3. Flow(s, V \o o, W, a, x + 1)
    BY <2>1, <2>2
  <2> QED BY <1>4, <1>6, <2>3 DEF a, x, o, s
<1> QED BY <1>2, <1>6, <1>7, <1>8, FlowWritten DEF W, V

\* A frame is being read.
LEMMA FlowReading ==
    ASSUME Flowing, NEW e \in End, rx[e] # None
    PROVE  /\ rx[e] \in Frame /\ Wire(e) # <<>> /\ Wire(e)[1] = rx[e] /\ Tail(Wire(e)) = line[e]
           /\ Flow(ep[e], line[e], Wire(Peer(e)), Slack(e), IF rx[e] \in Confirming THEN Extra(e) - 1 ELSE Extra(e))
           /\ rx[e] \notin Carrying => Flow(ep[Peer(e)], Wire(Peer(e)), line[e], Slack(e), Extra(e))
<1>1. /\ line[e] \in Seq(Frame) /\ rx[e] \in Frame /\ ep[e] \in Endpoint /\ ep[Peer(e)] \in Endpoint
      /\ Wire(e) \in Seq(Frame) /\ Wire(Peer(e)) \in Seq(Frame)
      /\ Flow(ep[e], Wire(e), Wire(Peer(e)), Slack(e), Extra(e))
      /\ Flow(ep[Peer(e)], Wire(Peer(e)), Wire(e), Slack(e), Extra(e))
      /\ Slack(e) \in Int /\ Extra(e) \in Int
  BY FlowBefore
<1>2. Wire(e) # <<>> /\ Wire(e)[1] = rx[e] /\ Tail(Wire(e)) = line[e]
  BY <1>1, WireReading DEF Wire
<1>3. Flow(ep[e], line[e], Wire(Peer(e)), Slack(e), IF rx[e] \in Confirming THEN Extra(e) - 1 ELSE Extra(e))
  <2>1. Flow(ep[e], Tail(Wire(e)), Wire(Peer(e)), Slack(e), IF Wire(e)[1] \in Confirming THEN Extra(e) - 1 ELSE Extra(e))
    BY <1>1, <1>2, FlowRead
  <2> QED BY <1>2, <2>1
<1>4. ASSUME rx[e] \notin Carrying PROVE Flow(ep[Peer(e)], Wire(Peer(e)), line[e], Slack(e), Extra(e))
  <2>1. Flow(ep[Peer(e)], Wire(Peer(e)), Tail(Wire(e)), Slack(e), Extra(e))
    BY <1>1, <1>2, <1>4, FlowSkip
  <2> QED BY <1>2, <2>1
<1> QED BY <1>1, <1>2, <1>3, <1>4

\* A whole frame makes no difference to the numbers.
LEMMA NumbersWhole ==
    ASSUME NEW e \in End, rx[e] # None, rx[e].good, rx[e].stop, rx'[e] = None, rx'[Peer(e)] = rx[Peer(e)],
           fto'[Peer(e)] = fto[Peer(e)], faults' = faults, early' = early
    PROVE  Slack(e)' = Slack(e) /\ Extra(e)' = Extra(e)
<1>1. /\ Open(e) = 0 /\ Bad(e) = 0 /\ Due(e) = 0 /\ Open(e)' = 0 /\ Bad(e)' = 0 /\ Due(e)' = 0
      /\ Open(Peer(e))' = Open(Peer(e)) /\ Bad(Peer(e))' = Bad(Peer(e)) /\ Due(Peer(e))' = Due(Peer(e))
  BY DEF Open, Bad, Due
<1> QED BY <1>1 DEF Slack, Extra

\* What digestFrame does besides.
LEMMA DigestEnds ==
    ASSUME Flowing, NEW e \in End, NEW f, NEW in, Digest(e, f, in)
    PROVE  /\ rx'[e] = None /\ rx'[Peer(e)] = rx[Peer(e)] /\ fto'[Peer(e)] = fto[Peer(e)]
           /\ faults' = faults /\ early' = early
<1>1. rx \in [End -> Frame \cup {None}] /\ fto \in [End -> BOOLEAN]
  BY DEF Flowing, LinkInv, TypeOK
<1>2. Peer(e) \in End /\ Peer(e) # e
  BY TwoEnds
<1>3. rx' = [rx EXCEPT ![e] = None] /\ fto' = [fto EXCEPT ![e] = FALSE] /\ faults' = faults /\ early' = early
  BY DEF Digest
<1> QED BY <1>1, <1>2, <1>3

LEMMA PayloadFlow ==
    ASSUME Flowing, NEW e \in End, StopFrame(e), rx[e].good, rx[e].type = "payload"
    PROVE  FlowInv'
<1> DEFINE f == rx[e]
           p == ep[e]
           q == DigestPayload(p, f)
           c == Confirmation(TRUE, f.mid)
           W == Wire(e)
           V == Wire(Peer(e))
           L == line[e]
           a == Slack(e)
           x == Extra(e)
           s == ep[Peer(e)]
<1>1. rx[e] # None /\ rx[e].stop /\ Digest(e, rx[e], line)
  BY DEF StopFrame
<1>2. /\ p \in Endpoint /\ Holds(p) /\ p.out = <<>> /\ Peer(e) \in End
      /\ s \in Endpoint /\ W \in Seq(Frame) /\ V \in Seq(Frame) /\ L \in Seq(Frame)
      /\ Flow(s, V, W, a, x) /\ a \in Nat /\ x \in Int /\ a + x < Modulus /\ line \in [End -> Seq(Frame)]
  BY FlowBefore DEF Flowing, LinkInv, TypeOK
<1>3. /\ f \in Frame /\ W # <<>> /\ W[1] = f /\ Tail(W) = L
      /\ f \in Carrying /\ f \notin Confirming
      /\ Flow(p, L, V, a, x)
  <2>1. rx[e] \in Frame
    BY <1>1, FlowReading
  <2>2. rx[e] \in Carrying /\ rx[e] \notin Confirming
    BY <2>1 DEF Carrying, Confirming, IsPayload
  <2> QED BY <1>1, <2>2, FlowReading
<1>4. Slack(e)' = a /\ Extra(e)' = x
  BY <1>1, DigestEnds, NumbersWhole
<1>5. rx'[e] = None /\ rx'[Peer(e)] = rx[Peer(e)] /\ Become(e, q, line)
  <2>1. Become(e, q, line)
    BY <1>1 DEF Digest
  <2> QED BY <1>1, <2>1, DigestEnds
<1>6. /\ c \in Frame /\ c \notin Carrying /\ c \in Confirming /\ c.mid = f.mid
  <2>1. f.mid \in 0..Modulus-1
    BY <1>3, FrameFields
  <2>2. c \in Frame /\ ~IsPayload(c)
    BY <2>1, ConfirmationsNoPayload
  <2> QED BY <2>2 DEF Carrying, Confirming, Confirmation
<1>7. Digested(p, q, c) /\ q \in Endpoint
  <2>1. IsPayload(f)
    BY <1>3 DEF Carrying
  <2>2. Digested(p, q, c)
    BY <1>2, <1>3, <2>1, PayloadDigested
  <2> QED BY <2>2 DEF Digested
<1>8. Wire(e)' = L
  <2>1. LinkInv
    BY DEF Flowing
  <2>2. line'[e] = line[e]
    BY <1>2, <1>5, <1>7, <2>1, Became
  <2> QED BY <1>5, <2>2 DEF Wire, WireOf
<1> HIDE DEF q, c, p, W, V, L, a, x, s, f
<1>9. Flow(q, L, V \o q.out, a, x)
  BY <1>2, <1>3, <1>6, <1>7, DigestedFlow
<1>10. Flow(s, V \o q.out, L, a, x)
  <2>1. W[1] \in Carrying /\ c.mid = W[1].mid
    BY <1>3, <1>6
  <2>2. Flow(s, V \o q.out, Tail(W), a, x)
    BY <1>2, <1>3, <1>6, <1>7, <2>1, DigestedFlow
  <2> QED BY <1>3, <2>2
<1>11. Flow(q, Wire(e)', V \o q.out, Slack(e)', Extra(e)')
  BY <1>4, <1>8, <1>9
<1>12. Flow(s, V \o q.out, Wire(e)', Slack(e)', Extra(e)')
  BY <1>4, <1>8, <1>10
<1>13. line[Peer(e)] = line[Peer(e)]
  OBVIOUS
<1> QED BY <1>2, <1>5, <1>7, <1>11, <1>12, <1>13, FlowHandled DEF V, s

LEMMA ConfirmationFlow ==
    ASSUME Flowing, NEW e \in End, StopFrame(e), rx[e].good, rx[e].type = "confirmation"
    PROVE  FlowInv'
<1> DEFINE f == rx[e]
           p == ep[e]
           q == DigestConfirmation(p, f)
           W == Wire(e)
           V == Wire(Peer(e))
           L == line[e]
           a == Slack(e)
           x == Extra(e)
           s == ep[Peer(e)]
<1>1. rx[e] # None /\ rx[e].stop /\ Digest(e, rx[e], line)
  BY DEF StopFrame
<1>2. /\ p \in Endpoint /\ Ready(p) /\ Holds(p) /\ p.out = <<>> /\ Peer(e) \in End
      /\ s \in Endpoint /\ W \in Seq(Frame) /\ V \in Seq(Frame) /\ L \in Seq(Frame)
      /\ a \in Nat /\ x \in Int /\ a + x < Modulus /\ line \in [End -> Seq(Frame)]
  BY FlowBefore DEF Flowing, LinkInv, TypeOK
<1>3. /\ f \in Frame /\ f \in Confirming /\ f \notin Carrying
      /\ Flow(p, L, V, a, x - 1) /\ Flow(s, V, L, a, x)
  <2>1. rx[e] \in Frame
    BY <1>1, FlowReading
  <2>2. rx[e] \notin Carrying /\ rx[e] \in Confirming
    BY <2>1 DEF Carrying, Confirming, IsPayload
  <2> QED BY <1>1, <2>1, <2>2, FlowReading
<1>4. Slack(e)' = a /\ Extra(e)' = x
  BY <1>1, DigestEnds, NumbersWhole
<1>5. rx'[e] = None /\ rx'[Peer(e)] = rx[Peer(e)] /\ Become(e, q, line)
  <2>1. Become(e, q, line)
    BY <1>1 DEF Digest
  <2> QED BY <1>1, <2>1, DigestEnds
<1>6. /\ q \in Endpoint
      /\ \/ p.sender = "WaitForAck" /\ (Moves(p, q) \/ Confirmed(p, q))
         \/ Looped(p, q)
  BY <1>2, <1>3, ConfirmationDigested
<1>7. Wire(e)' = L
  <2>1. LinkInv
    BY DEF Flowing
  <2>2. line'[e] = line[e]
    BY <1>2, <1>5, <1>6, <2>1, Became
  <2> QED BY <1>5, <2>2 DEF Wire, WireOf
<1> HIDE DEF q, p, W, V, L, a, x, s, f
<1>8. Flow(q, L, V \o q.out, a, x) /\ (q.out = <<>> \/ \E g \in Frame : g \in Carrying /\ q.out = <<g>>)
  <2>1. CASE p.sender = "WaitForAck" /\ (Moves(p, q) \/ Confirmed(p, q))
    <3>1. OnWay(L, V) <= x - 1 + Waits(p) /\ Waits(p) = 1 /\ Pipe(p.mid, p.sent, L, V, a)
      BY <1>3, <2>1 DEF Flow, Waits
    <3>2. OnWay(L, V) <= x
      BY <1>2, <3>1, OnWayType
    <3>3. Flow(q, L, V \o q.out, a, x)
      BY <1>2, <2>1, <3>1, <3>2, FlowMoves
    <3> QED BY <1>2, <2>1, <3>3, MovesWrite
  <2>2. CASE Looped(p, q)
    <3>1. Flow(p, L, V, a, x)
      <4>1. x - 1 \in Int /\ x - 1 <= x /\ a \in Int /\ a <= a
        BY <1>2
      <4> DEFINE y == x - 1
      <4>2. y \in Int /\ y <= x /\ Flow(p, L, V, a, y)
        BY <1>3, <4>1
      <4> HIDE DEF y
      <4> QED BY <1>2, <4>1, <4>2, FlowLoses
    <3>2. Flow(q, L, V \o q.out, a, x)
      BY <1>2, <2>2, <3>1, FlowLooped
    <3> QED BY <1>2, <2>2, <3>2, LoopedHolds
  <2> QED BY <1>6, <2>1, <2>2
<1>9. Flow(s, V \o q.out, L, a, x)
  <2> DEFINE o == q.out
  <2>1. o = <<>> \/ \E g \in Frame : g \in Carrying /\ o = <<g>>
    BY <1>8
  <2>2. a \in Int
    BY <1>2
  <2> HIDE DEF o
  <2>3. Flow(s, V \o o, L, a, x)
    BY <1>2, <1>3, <2>1, <2>2, FlowSends
  <2> QED BY <2>3 DEF o
<1>10. Flow(q, Wire(e)', V \o q.out, Slack(e)', Extra(e)')
  BY <1>4, <1>7, <1>8
<1>11. Flow(s, V \o q.out, Wire(e)', Slack(e)', Extra(e)')
  BY <1>4, <1>7, <1>9
<1>12. line[Peer(e)] = line[Peer(e)]
  OBVIOUS
<1> QED BY <1>2, <1>5, <1>6, <1>10, <1>11, <1>12, FlowHandled DEF V, s

\* A damaged frame has been read, to its end or to that of the next one.
LEMMA WrongFlow ==
    ASSUME Flowing, NEW e \in End, NEW in \in [End -> Seq(Frame)], in[Peer(e)] = line[Peer(e)],
           rx'[Peer(e)] = rx[Peer(e)],
           Become(e, DigestWrongCrc(ep[e]), in) \/ Become(e, ep[e], in),
           Wire(e)' \in Seq(Frame), Extra(e) + 1 <= Extra(e)',
           Flow(ep[e], Wire(e)', Wire(Peer(e)), Slack(e)', Extra(e)),
           Flow(ep[Peer(e)], Wire(Peer(e)), Wire(e)', Slack(e)', Extra(e))
    PROVE  FlowInv'
<1> DEFINE p == ep[e]
           s == ep[Peer(e)]
           V == Wire(Peer(e))
           T == Wire(e)'
           a == Slack(e)'
           x == Extra(e)
           y == Extra(e)'
           q == DigestWrongCrc(p)
<1>1. /\ p \in Endpoint /\ Holds(p) /\ p.out = <<>> /\ s \in Endpoint /\ V \in Seq(Frame) /\ T \in Seq(Frame)
      /\ a \in Nat /\ x \in Int /\ y \in Int /\ a + y < Modulus /\ x + 1 <= y
      /\ Flow(p, T, V, a, x) /\ Flow(s, V, T, a, x)
  BY FlowBefore
<1>2. a \in Int /\ a <= a /\ x + 1 \in Int /\ x <= y
  BY <1>1
<1>3. Nak \in Frame /\ Nak \notin Carrying /\ Nak \notin Acks
  BY ConfirmationsNoPayload, NakIs, FramesMade DEF Carrying, Acks, Confirmation
<1>4. Digested(p, q, Nak) /\ q \in Endpoint
  <2>1. Digested(p, q, Nak)
    BY <1>1, WrongDigested
  <2> QED BY <2>1 DEF Digested
<1> HIDE DEF p, s, V, T, a, x, y, q
<1>5. Flow(p, T, V, a, y) /\ Flow(s, V, T, a, y)
  BY <1>1, <1>2, FlowLoses
<1>6. Flow(q, T, V \o q.out, a, y)
  BY <1>1, <1>3, <1>4, <1>5, DigestedFlow
<1>7. Flow(s, V \o q.out, T, a, y)
  <2>1. Flow(s, V \o q.out, T, a, x + 1)
    BY <1>1, <1>3, <1>4, DigestedFlow
  <2>2. V \o q.out \in Seq(Frame)
    <3>1. q.out \in Seq(Frame)
      BY <1>4 DEF Endpoint
    <3> QED BY <1>1, <3>1, ConcatProperties
  <2> DEFINE z == x + 1
             B == V \o q.out
  <2>3. z \in Int /\ z <= y /\ B \in Seq(Frame) /\ Flow(s, B, T, a, z)
    BY <1>1, <1>2, <2>1, <2>2
  <2> HIDE DEF z, B
  <2>4. Flow(s, B, T, a, y)
    BY <1>1, <1>2, <2>3, FlowLoses
  <2> QED BY <2>4 DEF B
<1>8. CASE Become(e, q, in)
  BY <1>4, <1>6, <1>7, <1>8, FlowHandled DEF T, V, a, y, s
<1>9. CASE Become(e, p, in)
  <2>1. V \o p.out = V
    <3>1. V \o <<>> = V
      BY <1>1
    <3> QED BY <1>1, <3>1
  <2>2. Flow(p, T, V \o p.out, a, y) /\ Flow(s, V \o p.out, T, a, y)
    BY <1>5, <2>1
  <2> QED BY <1>1, <1>9, <2>2, FlowHandled DEF T, V, a, y, s
<1> QED BY <1>8, <1>9 DEF p, q

LEMMA StopWrongFlow ==
    ASSUME Flowing, NEW e \in End, StopFrame(e), ~rx[e].good
    PROVE  FlowInv'
<1>1. rx[e] # None /\ rx[e].stop /\ Digest(e, rx[e], line)
  BY DEF StopFrame
<1>2. /\ Peer(e) \in End /\ line \in [End -> Seq(Frame)] /\ line[e] \in Seq(Frame)
      /\ faults \in Nat /\ early \in Nat /\ NfBurst * faults \in Nat /\ ep[e] \in Endpoint
  BY FlowBefore DEF Flowing, LinkInv, TypeOK
<1>3. rx[e] \notin Confirming /\ rx[e] \notin Carrying
  BY DEF Confirming, Carrying
<1>4. /\ Flow(ep[e], line[e], Wire(Peer(e)), Slack(e), Extra(e))
      /\ Flow(ep[Peer(e)], Wire(Peer(e)), line[e], Slack(e), Extra(e))
  BY <1>1, <1>3, FlowReading
<1>5. /\ rx'[e] = None /\ rx'[Peer(e)] = rx[Peer(e)] /\ fto'[Peer(e)] = fto[Peer(e)]
      /\ faults' = faults /\ early' = early
      /\ Become(e, DigestWrongCrc(ep[e]), line) \/ Become(e, ep[e], line)
  BY <1>1, DigestEnds DEF Digest
<1>6. /\ Open(e) = 0 /\ Bad(e) = 1 /\ Due(e) = 0 /\ Open(e)' = 0 /\ Bad(e)' = 0 /\ Due(e)' = 0
      /\ Open(Peer(e))' = Open(Peer(e)) /\ Bad(Peer(e))' = Bad(Peer(e)) /\ Due(Peer(e))' = Due(Peer(e))
  BY <1>1, <1>5 DEF Open, Bad, Due
<1>7. Slack(e)' = Slack(e)
  BY <1>5, <1>6 DEF Slack
<1>8. Extra(e) + 1 <= Extra(e)'
  <2>1. Extra(e)' = early + 2 * faults + NfBurst * faults - 0 - Bad(Peer(e)) - 0 - Due(Peer(e))
    BY <1>5, <1>6 DEF Extra
  <2>2. Extra(e) = early + 2 * faults + NfBurst * faults - 1 - Bad(Peer(e)) - 0 - Due(Peer(e))
    BY <1>6 DEF Extra
  <2>3. Bad(Peer(e)) \in 0..1 /\ Due(Peer(e)) \in 0..1
    BY Ones
  <2> QED BY <1>2, <2>1, <2>2, <2>3
<1>9. Wire(e)' = line[e]
  <2>1. LinkInv
    BY DEF Flowing
  <2>2. DigestWrongCrc(ep[e]) \in Endpoint
    BY <1>2, FlowBefore, WrongDigested DEF Digested
  <2>3. line'[e] = line[e]
    BY <1>2, <1>5, <2>1, <2>2, Became
  <2> QED BY <1>5, <2>3 DEF Wire, WireOf
<1>10. /\ Flow(ep[e], Wire(e)', Wire(Peer(e)), Slack(e)', Extra(e))
       /\ Flow(ep[Peer(e)], Wire(Peer(e)), Wire(e)', Slack(e)', Extra(e))
       /\ Wire(e)' \in Seq(Frame)
  BY <1>2, <1>4, <1>7, <1>9
<1>11. line[Peer(e)] = line[Peer(e)]
  OBVIOUS
<1> QED BY <1>2, <1>5, <1>8, <1>10, <1>11, WrongFlow

LEMMA MergedFlow ==
    ASSUME Flowing, NEW e \in End, StopMergedFrame(e)
    PROVE  FlowInv'
<1> DEFINE in == [line EXCEPT ![e] = Tail(@)]
<1>1. rx[e] # None /\ ~rx[e].stop /\ line[e] # <<>> /\ Digest(e, rx[e], in)
  BY DEF StopMergedFrame
<1>2. /\ Peer(e) \in End /\ Peer(e) # e /\ line \in [End -> Seq(Frame)] /\ line[e] \in Seq(Frame)
      /\ faults \in Nat /\ early \in Nat /\ NfBurst * faults \in Nat /\ ep[e] \in Endpoint /\ ep[Peer(e)] \in Endpoint
      /\ Reads(e) /\ Slack(e) \in Nat /\ Extra(e) \in Int /\ Wire(Peer(e)) \in Seq(Frame)
  BY FlowBefore DEF Flowing, LinkInv, TypeOK
<1>3. ~rx[e].good /\ rx[e] \notin Confirming /\ rx[e] \notin Carrying
  BY <1>1, <1>2 DEF Confirming, Carrying, Reads
<1>4. /\ Flow(ep[e], line[e], Wire(Peer(e)), Slack(e), Extra(e))
      /\ Flow(ep[Peer(e)], Wire(Peer(e)), line[e], Slack(e), Extra(e))
  BY <1>1, <1>3, FlowReading
<1>5. /\ rx'[e] = None /\ rx'[Peer(e)] = rx[Peer(e)] /\ fto'[Peer(e)] = fto[Peer(e)]
      /\ faults' = faults /\ early' = early
      /\ Become(e, DigestWrongCrc(ep[e]), in) \/ Become(e, ep[e], in)
  BY <1>1, <1>3, DigestEnds DEF Digest
<1>6. /\ Open(e) = 1 /\ Bad(e) = 1 /\ Open(e)' = 0 /\ Bad(e)' = 0 /\ Due(e)' = 0
      /\ Open(Peer(e))' = Open(Peer(e)) /\ Bad(Peer(e))' = Bad(Peer(e)) /\ Due(Peer(e))' = Due(Peer(e))
  BY <1>1, <1>3, <1>5 DEF Open, Bad, Due
<1>7. Slack(e)' = Slack(e) + 1
  <2>1. Slack(e)' = 2 * faults - 0 - Open(Peer(e))
    BY <1>5, <1>6 DEF Slack
  <2>2. Slack(e) = 2 * faults - 1 - Open(Peer(e))
    BY <1>6 DEF Slack
  <2>3. Open(Peer(e)) \in 0..1 /\ faults \in Nat
    BY <1>2, Ones
  <2> QED BY <2>1, <2>2, <2>3
<1>8. Extra(e) + 1 <= Extra(e)'
  <2>1. Extra(e)' = early + 2 * faults + NfBurst * faults - 0 - Bad(Peer(e)) - 0 - Due(Peer(e))
    BY <1>5, <1>6 DEF Extra
  <2>2. Extra(e) = early + 2 * faults + NfBurst * faults - 1 - Bad(Peer(e)) - Due(e) - Due(Peer(e))
    BY <1>6 DEF Extra
  <2>3. /\ Bad(Peer(e)) \in 0..1 /\ Due(Peer(e)) \in 0..1 /\ Due(e) \in 0..1
        /\ faults \in Nat /\ early \in Nat /\ NfBurst * faults \in Nat
    BY <1>2, Ones
  <2> HIDE DEF in
  <2> QED BY <2>1, <2>2, <2>3
<1>9. in \in [End -> Seq(Frame)] /\ in[Peer(e)] = line[Peer(e)] /\ in[e] = Tail(line[e])
  <2>1. LinkInv
    BY DEF Flowing
  <2>2. in \in [End -> Seq(Frame)]
    BY <1>1, <2>1, TailsAreLines
  <2> QED BY <1>2, <2>2
<1> HIDE DEF in
<1>10. Wire(e)' = Tail(line[e])
  <2>1. LinkInv
    BY DEF Flowing
  <2>2. DigestWrongCrc(ep[e]) \in Endpoint
    BY <1>2, FlowBefore, WrongDigested DEF Digested
  <2>3. line'[e] = in[e]
    BY <1>2, <1>5, <1>9, <2>1, <2>2, Became
  <2> QED BY <1>5, <1>9, <2>3 DEF Wire, WireOf
<1>11. /\ Tail(line[e]) \in Seq(Frame)
       /\ Flow(ep[e], Tail(line[e]), Wire(Peer(e)), Slack(e) + 1, Extra(e))
       /\ Flow(ep[Peer(e)], Wire(Peer(e)), Tail(line[e]), Slack(e) + 1, Extra(e))
  <2> DEFINE L == line[e]
             V == Wire(Peer(e))
             p == ep[e]
             s == ep[Peer(e)]
             a == Slack(e)
             x == Extra(e)
  <2>1. /\ L \in Seq(Frame) /\ L # <<>> /\ V \in Seq(Frame) /\ p \in Endpoint /\ s \in Endpoint /\ a \in Int /\ x \in Int
        /\ Flow(p, L, V, a, x) /\ Flow(s, V, L, a, x)
    BY <1>1, <1>2, <1>4
  <2> HIDE DEF L, V, p, s, a, x
  <2>2. Tail(L) \in Seq(Frame) /\ Flow(p, Tail(L), V, a, x)
    BY <2>1, FlowRead
  <2>3. a + 1 \in Int /\ a <= a + 1 /\ x <= x
    BY <2>1
  <2>4. Flow(p, Tail(L), V, a + 1, x)
    BY <2>1, <2>2, <2>3, FlowLoses
  <2>5. Flow(s, V, Tail(L), a + 1, x)
    BY <2>1, FlowSkip
  <2> QED BY <2>2, <2>4, <2>5 DEF L, V, p, s, a, x
<1>12. /\ Flow(ep[e], Wire(e)', Wire(Peer(e)), Slack(e)', Extra(e))
       /\ Flow(ep[Peer(e)], Wire(Peer(e)), Wire(e)', Slack(e)', Extra(e))
       /\ Wire(e)' \in Seq(Frame)
  BY <1>7, <1>10, <1>11
<1> QED BY <1>5, <1>8, <1>9, <1>12, WrongFlow

\* A fault adds to the numbers, and a frame that it damages takes no more
\* than that.
LEMMA FaultNumbers ==
    ASSUME Flowing, NEW e \in End, faults' = faults + 1, early' = early,
           rx'[Peer(e)] = rx[Peer(e)], fto' = fto
    PROVE  /\ rx'[e] = rx[e] => /\ Slack(e)' = Slack(e) + 2 /\ Extra(e)' = Extra(e) + 2 + NfBurst
           /\ rx[e] # None /\ rx[e].stop => /\ Slack(e) + 1 <= Slack(e)' /\ Extra(e) <= Extra(e)'
<1>1. faults \in Nat /\ early \in Nat /\ NfBurst * faults \in Nat /\ NfBurst \in Nat
  BY FlowBefore
<1>2. NfBurst * (faults + 1) = NfBurst * faults + NfBurst
  BY <1>1, ManyFaults
<1>3. Open(Peer(e))' = Open(Peer(e)) /\ Bad(Peer(e))' = Bad(Peer(e)) /\ Due(Peer(e))' = Due(Peer(e))
  BY DEF Open, Bad, Due
<1>4. /\ Open(e) \in 0..1 /\ Open(Peer(e)) \in 0..1 /\ Bad(e) \in 0..1 /\ Bad(Peer(e)) \in 0..1
      /\ Due(e) \in 0..1 /\ Due(Peer(e)) \in 0..1
      /\ Open(e)' \in 0..1 /\ Bad(e)' \in 0..1 /\ Due(e)' \in 0..1
  BY Ones
<1>5. /\ Slack(e)' = 2 * (faults + 1) - Open(e)' - Open(Peer(e))
      /\ Slack(e) = 2 * faults - Open(e) - Open(Peer(e))
  BY <1>3 DEF Slack
<1>6. /\ Extra(e)' = early + 2 * (faults + 1) + NfBurst * (faults + 1) - Bad(e)' - Bad(Peer(e)) - Due(e)' - Due(Peer(e))
      /\ Extra(e) = early + 2 * faults + NfBurst * faults - Bad(e) - Bad(Peer(e)) - Due(e) - Due(Peer(e))
  BY <1>3 DEF Extra
<1>7. ASSUME rx'[e] = rx[e] PROVE Slack(e)' = Slack(e) + 2 /\ Extra(e)' = Extra(e) + 2 + NfBurst
  <2>1. Open(e)' = Open(e) /\ Bad(e)' = Bad(e) /\ Due(e)' = Due(e)
    BY <1>7 DEF Open, Bad, Due
  <2>2. Slack(e)' = Slack(e) + 2
    BY <1>1, <1>4, <1>5, <2>1
  <2>3. Extra(e)' = early + 2 * (faults + 1) + (NfBurst * faults + NfBurst) - Bad(e) - Bad(Peer(e)) - Due(e) - Due(Peer(e))
    BY <1>2, <1>6, <2>1
  <2>4. Extra(e)' = Extra(e) + 2 + NfBurst
    BY <1>1, <1>4, <1>6, <2>3
  <2> QED BY <2>2, <2>4
<1>8. ASSUME rx[e] # None, rx[e].stop PROVE Slack(e) + 1 <= Slack(e)' /\ Extra(e) <= Extra(e)'
  <2>1. Open(e) = 0 /\ Due(e) = 0
    BY <1>8 DEF Open, Due
  <2>2. Slack(e) + 1 <= Slack(e)'
    BY <1>1, <1>4, <1>5, <2>1
  <2>3. Extra(e)' = early + 2 * (faults + 1) + (NfBurst * faults + NfBurst) - Bad(e)' - Bad(Peer(e)) - Due(e)' - Due(Peer(e))
    BY <1>2, <1>6
  <2>4. Extra(e) <= Extra(e)'
    BY <1>1, <1>4, <1>6, <2>1, <2>3
  <2> QED BY <2>2, <2>4
<1> QED BY <1>7, <1>8

\* A fault has changed what an end has to read.
LEMMA FlowFault ==
    ASSUME Flowing, NEW e \in End, ep' = ep, Wire(Peer(e))' = Wire(Peer(e)), Wire(e)' \in Seq(Frame),
           NEW a \in Int, a <= Slack(e)', Extra(e) <= Extra(e)',
           Flow(ep[e], Wire(e)', Wire(Peer(e)), a, Extra(e)),
           Flow(ep[Peer(e)], Wire(Peer(e)), Wire(e)', a, Extra(e))
    PROVE  FlowInv'
<1> DEFINE p == ep[e]
           s == ep[Peer(e)]
           T == Wire(e)'
           V == Wire(Peer(e))
           b == Slack(e)'
           x == Extra(e)
           y == Extra(e)'
<1>1. /\ p \in Endpoint /\ s \in Endpoint /\ T \in Seq(Frame) /\ V \in Seq(Frame)
      /\ b \in Int /\ x \in Int /\ y \in Int /\ a <= b /\ x <= y
      /\ Flow(p, T, V, a, x) /\ Flow(s, V, T, a, x)
  <2>1. p \in Endpoint /\ s \in Endpoint /\ V \in Seq(Frame) /\ b \in Int /\ x \in Int /\ y \in Int
    <3>1. ep[e] \in Endpoint /\ ep[Peer(e)] \in Endpoint /\ Wire(Peer(e)) \in Seq(Frame) /\ Extra(e) \in Int
      BY FlowBefore
    <3>2. Slack(e)' \in Int /\ Extra(e)' \in Int
      BY FlowBefore
    <3> QED BY <3>1, <3>2
  <2>2. T \in Seq(Frame) /\ a <= b /\ x <= y /\ Flow(p, T, V, a, x) /\ Flow(s, V, T, a, x)
    OBVIOUS
  <2> HIDE DEF p, s, T, V, b, x, y
  <2> QED BY <2>1, <2>2
<1> HIDE DEF p, s, T, V, b, x, y
<1>2. Flow(p, T, V, b, y) /\ Flow(s, V, T, b, y)
  BY <1>1, FlowLoses
<1>3. Flow(ep'[e], Wire(e)', Wire(Peer(e))', Slack(e)', Extra(e)')
  BY <1>2 DEF p, T, V, b, y
<1>4. Flow(ep'[Peer(e)], Wire(Peer(e))', Wire(e)', Slack(e)', Extra(e)')
  BY <1>2 DEF s, T, V, b, y
<1> QED BY <1>3, <1>4, FlowBoth DEF Flowing

LEMMA SpoiltFlow ==
    ASSUME Flowing, NEW e \in End, CorruptFrame(e) \/ LoseStop(e)
    PROVE  FlowInv'
<1> DEFINE f == rx[e]
           g == rx'[e]
           W == Wire(e)
           X == Wire(e)'
           L == line[e]
<1>1. /\ Peer(e) \in End /\ Peer(e) # e /\ L \in Seq(Frame) /\ Reads(e)
      /\ ep[e] \in Endpoint /\ ep[Peer(e)] \in Endpoint /\ W \in Seq(Frame) /\ Wire(Peer(e)) \in Seq(Frame)
      /\ Flow(ep[e], W, Wire(Peer(e)), Slack(e), Extra(e))
      /\ Flow(ep[Peer(e)], Wire(Peer(e)), W, Slack(e), Extra(e))
      /\ Slack(e) \in Int /\ Extra(e) \in Int
      /\ rx \in [End -> Frame \cup {None}]
  BY FlowBefore DEF Flowing, LinkInv, TypeOK
<1>2. /\ f # None /\ f \in Frame /\ ep' = ep /\ line' = line /\ fto' = fto /\ faults' = faults + 1 /\ early' = early
      /\ rx' = [rx EXCEPT ![e] = [f EXCEPT !.good = FALSE]] \/ rx' = [rx EXCEPT ![e] = [f EXCEPT !.good = FALSE, !.stop = FALSE]]
      /\ f.good \/ f.stop
  BY <1>1 DEF CorruptFrame, LoseStop, Fault
<1>3. f.stop
  BY <1>1, <1>2 DEF Reads
<1>4. g \in Frame /\ ~g.good /\ rx'[Peer(e)] = rx[Peer(e)]
  <2>1. [f EXCEPT !.good = FALSE] \in Frame /\ [f EXCEPT !.good = FALSE, !.stop = FALSE] \in Frame
    BY <1>2, FrameFields
  <2>2. ~[f EXCEPT !.good = FALSE].good /\ ~[f EXCEPT !.good = FALSE, !.stop = FALSE].good
    BY <1>2 DEF Frame
  <2>3. g = [f EXCEPT !.good = FALSE] \/ g = [f EXCEPT !.good = FALSE, !.stop = FALSE]
    BY <1>1, <1>2
  <2>4. rx'[Peer(e)] = rx[Peer(e)]
    BY <1>1, <1>2
  <2> HIDE DEF f, g
  <2> QED BY <2>1, <2>2, <2>3, <2>4
<1>5. X = WireOf(g, L) /\ W = WireOf(f, L) /\ Wire(Peer(e))' = Wire(Peer(e))
  BY <1>2, <1>4 DEF Wire
<1>6. Slack(e) + 1 <= Slack(e)' /\ Extra(e) <= Extra(e)'
  BY <1>2, <1>3, <1>4, FaultNumbers
<1> HIDE DEF f, g, W, X, L
<1>7. /\ X \in Seq(Frame) /\ X # <<>> /\ X[1] = g /\ Len(X) = Len(W) /\ \A k \in 2..Len(W) : X[k] = W[k]
  <2>1. /\ X \in Seq(Frame) /\ X # <<>> /\ X[1] = g /\ Len(X) = Len(L) + 1
        /\ \A i \in 1..Len(L) : X[i + 1] = L[i]
    <3>1. g \in Frame /\ L \in Seq(Frame)
      BY <1>1, <1>4
    <3>2. /\ WireOf(g, L) \in Seq(Frame) /\ WireOf(g, L) # <<>> /\ WireOf(g, L)[1] = g
          /\ Len(WireOf(g, L)) = Len(L) + 1 /\ \A i \in 1..Len(L) : WireOf(g, L)[i + 1] = L[i]
      BY <3>1, WireReading
    <3> QED BY <1>5, <3>2
  <2>2. Len(W) = Len(L) + 1 /\ \A i \in 1..Len(L) : W[i + 1] = L[i]
    <3>1. f \in Frame /\ L \in Seq(Frame)
      BY <1>1, <1>2
    <3>2. Len(WireOf(f, L)) = Len(L) + 1 /\ \A i \in 1..Len(L) : WireOf(f, L)[i + 1] = L[i]
      BY <3>1, WireReading
    <3> QED BY <1>5, <3>2
  <2>3. ASSUME NEW k \in 2..Len(W) PROVE X[k] = W[k]
    <3>1. k - 1 \in 1..Len(L) /\ (k - 1) + 1 = k
      BY <1>1, <2>2
    <3> QED BY <2>1, <2>2, <3>1
  <2> QED BY <2>1, <2>2, <2>3
<1>8. Flow(ep[e], X, Wire(Peer(e)), Slack(e), Extra(e))
  BY <1>1, <1>4, <1>7, FlowSpoilt
<1>9. Flow(ep[Peer(e)], Wire(Peer(e)), X, Slack(e) + 1, Extra(e))
  BY <1>1, <1>4, <1>7, FlowSpoilt
<1> DEFINE a == Slack(e) + 1
<1>10. Flow(ep[e], X, Wire(Peer(e)), a, Extra(e))
  <2>1. Slack(e) <= a /\ a \in Int /\ Extra(e) <= Extra(e)
    BY <1>1
  <2> HIDE DEF a
  <2> QED BY <1>1, <1>7, <1>8, <2>1, FlowLoses
<1>11. a \in Int /\ a <= Slack(e)' /\ Flow(ep[Peer(e)], Wire(Peer(e)), X, a, Extra(e))
  BY <1>1, <1>6, <1>9
<1> HIDE DEF a
<1> QED BY <1>2, <1>5, <1>6, <1>7, <1>10, <1>11, FlowFault DEF X

\* The next frame is lost, at its start.
LEMMA TailFlow ==
    ASSUME Flowing, NEW e \in End, rx[e] = None, line[e] # <<>>
    PROVE  /\ Tail(line[e]) \in Seq(Frame)
           /\ Flow(ep[e], Tail(line[e]), Wire(Peer(e)), Slack(e) + 1, Extra(e))
           /\ Flow(ep[Peer(e)], Wire(Peer(e)), Tail(line[e]), Slack(e) + 1, Extra(e))
<1> DEFINE L == line[e]
           V == Wire(Peer(e))
           p == ep[e]
           s == ep[Peer(e)]
           a == Slack(e)
           x == Extra(e)
<1>1. Wire(e) = line[e]
  BY DEF Wire, WireOf
<1>2. /\ L \in Seq(Frame) /\ L # <<>> /\ V \in Seq(Frame) /\ p \in Endpoint /\ s \in Endpoint /\ a \in Int /\ x \in Int
      /\ Flow(p, L, V, a, x) /\ Flow(s, V, L, a, x)
  BY <1>1, FlowBefore
<1> HIDE DEF L, V, p, s, a, x
<1>3. Tail(L) \in Seq(Frame) /\ Flow(p, Tail(L), V, a, x)
  BY <1>2, FlowRead
<1>4. a + 1 \in Int /\ a <= a + 1 /\ x <= x
  BY <1>2
<1>5. Flow(p, Tail(L), V, a + 1, x)
  BY <1>2, <1>3, <1>4, FlowLoses
<1>6. Flow(s, V, Tail(L), a + 1, x)
  BY <1>2, FlowSkip
<1> QED BY <1>3, <1>5, <1>6 DEF L, V, p, s, a, x

LEMMA LoseFrameFlow ==
    ASSUME Flowing, NEW e \in End, LoseFrame(e)
    PROVE  FlowInv'
<1>1. /\ rx[e] = None /\ line[e] # <<>> /\ rx' = rx /\ line' = [line EXCEPT ![e] = Tail(@)] /\ ep' = ep
      /\ fto' = fto /\ faults' = faults + 1 /\ early' = early
  BY DEF LoseFrame, Fault
<1>2. /\ Peer(e) \in End /\ Peer(e) # e /\ line \in [End -> Seq(Frame)] /\ Slack(e) \in Int /\ Extra(e) \in Int /\ NfBurst \in Nat
  BY FlowBefore DEF Flowing, LinkInv, TypeOK
<1>3. line'[e] = Tail(line[e]) /\ line'[Peer(e)] = line[Peer(e)]
  BY <1>1, <1>2
<1>4. Wire(e)' = Tail(line[e]) /\ Wire(Peer(e))' = Wire(Peer(e))
  BY <1>1, <1>3 DEF Wire, WireOf
<1>5. Slack(e)' = Slack(e) + 2 /\ Extra(e)' = Extra(e) + 2 + NfBurst
  BY <1>1, FaultNumbers
<1> DEFINE a == Slack(e) + 1
<1>6. a \in Int /\ a <= Slack(e)' /\ Extra(e) <= Extra(e)'
  BY <1>2, <1>5
<1>7. /\ Wire(e)' \in Seq(Frame)
      /\ Flow(ep[e], Wire(e)', Wire(Peer(e)), a, Extra(e))
      /\ Flow(ep[Peer(e)], Wire(Peer(e)), Wire(e)', a, Extra(e))
  BY <1>1, <1>4, TailFlow
<1> HIDE DEF a
<1> QED BY <1>1, <1>4, <1>6, <1>7, FlowFault

LEMMA LoseStartFlow ==
    ASSUME Flowing, NEW e \in End, LoseStart(e)
    PROVE  FlowInv'
<1> DEFINE p == ep[e]
           o == [k \in 1..NfBurst |-> Nak]
           q == [p EXCEPT !.out = o]
           in == [line EXCEPT ![e] = Tail(@)]
           V == Wire(Peer(e))
           L == Tail(line[e])
           s == ep[Peer(e)]
<1>1. /\ rx[e] = None /\ line[e] # <<>> /\ rx' = rx /\ Become(e, q, in)
      /\ fto' = fto /\ faults' = faults + 1 /\ early' = early
  BY DEF LoseStart, Fault
<1>2. /\ Peer(e) \in End /\ Peer(e) # e /\ line \in [End -> Seq(Frame)] /\ Slack(e) \in Int /\ Extra(e) \in Int /\ NfBurst \in Nat
      /\ p \in Endpoint /\ s \in Endpoint /\ V \in Seq(Frame)
      /\ Slack(e)' \in Int /\ Extra(e)' \in Int
  BY FlowBefore DEF Flowing, LinkInv, TypeOK
<1>3. Nak \in Frame /\ Nak \notin Carrying /\ Nak \notin Acks
  BY ConfirmationsNoPayload, NakIs, FramesMade DEF Carrying, Acks, Confirmation
<1>4. o \in Seq(Frame) /\ Len(o) = NfBurst /\ \A i \in 1..Len(o) : o[i] \notin Carrying /\ o[i] \notin Acks
  BY <1>2, <1>3
<1>5. q \in Endpoint /\ Twin(p, q) /\ q.out = o
  <2> HIDE DEF o
  <2> QED BY <1>2, <1>4 DEF Endpoint, Twin, Stays
<1>6. in \in [End -> Seq(Frame)] /\ in[Peer(e)] = line[Peer(e)] /\ in[e] = L
  <2>1. LinkInv
    BY DEF Flowing
  <2>2. in \in [End -> Seq(Frame)]
    BY <1>1, <2>1, TailsAreLines
  <2> QED BY <1>2, <2>2
<1> HIDE DEF o, q, in
<1>7. Wire(e)' = L
  <2>1. LinkInv
    BY DEF Flowing
  <2>2. line'[e] = in[e]
    BY <1>1, <1>5, <1>6, <2>1, Became
  <2> QED BY <1>1, <1>6, <2>2 DEF Wire, WireOf
<1>8. Slack(e)' = Slack(e) + 2 /\ Extra(e)' = Extra(e) + 2 + NfBurst
  BY <1>1, FaultNumbers
<1>9. /\ L \in Seq(Frame) /\ Flow(p, L, V, Slack(e) + 1, Extra(e)) /\ Flow(s, V, L, Slack(e) + 1, Extra(e))
  BY <1>1, TailFlow
<1> DEFINE a == Slack(e) + 1
           b == Slack(e)'
           x == Extra(e)
           y == Extra(e)'
           z == Extra(e) + NfBurst
<1>10. /\ a \in Int /\ b \in Int /\ x \in Int /\ y \in Int /\ z \in Int /\ a <= b /\ x <= y /\ z <= y /\ a <= a
       /\ z = x + Len(o)
       /\ Flow(p, L, V, a, x) /\ Flow(s, V, L, a, x)
  BY <1>2, <1>4, <1>8, <1>9
<1> HIDE DEF p, V, L, s, a, b, x, y, z
<1>11. Flow(q, L, V \o q.out, b, y)
  <2>1. Flow(p, L, V, b, y)
    BY <1>2, <1>9, <1>10, FlowLoses
  <2>2. Flow(p, L, V \o o, b, y)
    BY <1>2, <1>4, <1>9, <1>10, <2>1, FlowWrites
  <2> QED BY <1>5, <2>2, TwinFlow
<1>12. Flow(s, V \o q.out, L, b, y)
  <2>1. Flow(s, V \o o, L, a, x + Len(o)) /\ V \o o \in Seq(Frame)
    BY <1>2, <1>4, <1>9, <1>10, FlowAnswer
  <2> DEFINE B == V \o o
  <2>2. Flow(s, B, L, a, z) /\ B \in Seq(Frame)
    BY <1>10, <2>1
  <2> HIDE DEF B
  <2>3. Flow(s, B, L, b, y)
    BY <1>2, <1>9, <1>10, <2>2, FlowLoses
  <2> QED BY <1>5, <2>3 DEF B
<1>13. Flow(q, Wire(e)', Wire(Peer(e)) \o q.out, Slack(e)', Extra(e)')
  BY <1>7, <1>11 DEF V, b, y
<1>14. Flow(ep[Peer(e)], Wire(Peer(e)) \o q.out, Wire(e)', Slack(e)', Extra(e)')
  BY <1>7, <1>12 DEF V, b, y, s
<1>15. rx'[Peer(e)] = rx[Peer(e)]
  BY <1>1
<1> QED BY <1>1, <1>5, <1>6, <1>13, <1>14, <1>15, FlowHandled

LEMMA FlowStep == LinkInv /\ FramedInv /\ FlowInv /\ [Next]_vars => FlowInv'
<1> SUFFICES ASSUME LinkInv, FramedInv, FlowInv, [Next]_vars, FewDisturbances' PROVE FlowInv'
  BY DEF FlowInv
<1>1. LinkInv' /\ FramedInv' /\ FewDisturbances
  BY LinkStep, FramedStep, FewBefore
<1>2. Flowing
  BY <1>1 DEF Flowing
<1>3. ASSUME NEW m \in Msg, SendMessage(m) PROVE FlowInv'
  BY <1>2, <1>3, SendMessageFlow
<1>4. ASSUME NEW e \in End, StartFrame(e) PROVE FlowInv'
  BY <1>2, <1>4, StartFrameFlow
<1>5. ASSUME NEW e \in End, StopFrame(e) PROVE FlowInv'
  <2>1. rx[e] # None /\ rx[e] \in Frame
    BY <1>2, <1>5, FlowBefore DEF StopFrame
  <2>2. rx[e].type = "payload" \/ rx[e].type = "confirmation"
    BY <2>1 DEF Frame
  <2> QED BY <1>2, <1>5, <2>2, PayloadFlow, ConfirmationFlow, StopWrongFlow
<1>6. ASSUME NEW e \in End, StopMergedFrame(e) PROVE FlowInv'
  BY <1>2, <1>6, MergedFlow
<1>7. ASSUME NEW e \in End, ConfirmationTimeout(e) PROVE FlowInv'
  BY <1>2, <1>7, TimeoutFlow
<1>8. ASSUME NEW e \in End, FtoTimeout(e) PROVE FlowInv'
  BY <1>2, <1>8, FtoFlow
<1>9. ASSUME NEW e \in End, CorruptFrame(e) \/ LoseStop(e) PROVE FlowInv'
  BY <1>2, <1>9, SpoiltFlow
<1>10. ASSUME NEW e \in End, LoseStart(e) PROVE FlowInv'
  BY <1>2, <1>10, LoseStartFlow
<1>11. ASSUME NEW e \in End, LoseFrame(e) PROVE FlowInv'
  BY <1>2, <1>11, LoseFrameFlow
<1>12. ASSUME NEW e \in End, StopListening(e) PROVE FlowInv'
  <2>1. listening \in [End -> BOOLEAN] /\ listening' = [listening EXCEPT ![e] = FALSE]
    BY <1>12 DEF StopListening, LinkInv, TypeOK
  <2>2. ~listening'[e]
    BY <2>1
  <2> QED BY <2>2 DEF FewDisturbances
<1>13. CASE UNCHANGED vars
  BY <1>13 DEF vars, FlowInv, FewDisturbances, FlowOf, Wire, Slack, Extra, Open, Bad, Due
<1> QED BY <1>3, <1>4, <1>5, <1>6, <1>7, <1>8, <1>9, <1>10, <1>11, <1>12, <1>13 DEF Next

(***************************************************************************)
(* What a sender s knows of what was given to the peer's user, d, with W   *)
(* on its way to s and V on its way to the receiver r, and n faults so     *)
(* far.  A message of one frame is given with that frame; of one of two    *)
(* frames the receiver holds the first until the second arrives, unless a  *)
(* fault makes it discard it.                                              *)
(***************************************************************************)
Has(d, m) == \E k \in 1..Len(d) : d[k] = m

HoldsFirst(r, m) == r.expected = 2 /\ r.pieces = <<<<m, 1>>>>

\* An acknowledgement of the current frame.
OneTold(s, r, W, d, n) ==
    \A k \in 1..Len(W) : W[k] \in Acks /\ W[k].mid = s.mid =>
        /\ Frames[s.msg] = 1 => Has(d, s.msg)
        /\ n = 0 /\ Frames[s.msg] = 2 /\ s.popped = 1 => HoldsFirst(r, s.msg)

\* The receiver waits for the second frame.
Second(s, r, W, V) ==
    /\ HoldsFirst(r, s.msg)
    /\ \A k \in 1..Len(W) : W[k] \in Acks => W[k].mid # s.mid
    /\ \A k \in 1..Len(V) : V[k] \in Carrying => V[k] = s.sent \/ (V[k].msg = s.msg /\ V[k].i = 1)

TwoTold(s, r, W, V, d, n) ==
    s.sent # None /\ n = 0 /\ Frames[s.msg] = 2 /\ s.popped = 2 => Has(d, s.msg) \/ Second(s, r, W, V)

AllTold(s, d, n) ==
    \A m \in s.completed : Frames[m] = 1 \/ (Frames[m] = 2 /\ n = 0) => Has(d, m)

NothingSent(s, W, V) ==
    s.sent = None => /\ \A k \in 1..Len(W) : W[k] \notin Acks
                     /\ \A k \in 1..Len(V) : V[k] \notin Carrying

Told(s, r, W, V, d, n) ==
    /\ OneTold(s, r, W, d, n)
    /\ TwoTold(s, r, W, V, d, n)
    /\ AllTold(s, d, n)
    /\ NothingSent(s, W, V)

\* No frame of the kind but those on W.
Within(W2, W, F) == \A k \in 1..Len(W2) : W2[k] \in F => \E j \in 1..Len(W) : W[j] = W2[k]

\* No payload frame but those on V and the one that s has sent.
Resends(V2, V, s) ==
    \A k \in 1..Len(V2) : V2[k] \in Carrying =>
        (\E j \in 1..Len(V) : V[j] = V2[k]) \/ (s.sent # None /\ V2[k] = s.sent)

Grows(d, d2) == \A m : Has(d, m) => Has(d2, m)

LEMMA PartsStay ==
    ASSUME NEW s, NEW s2, NEW r, NEW r2, NEW W, NEW V, NEW W2, NEW V2, NEW d, NEW d2, NEW n, NEW n2,
           Told(s, r, W, V, d, n), Stays(s, s2),
           Within(W2, W, Acks), Resends(V2, V, s), Grows(d, d2), n2 = 0 => n = 0,
           n2 = 0 => r2.pieces = r.pieces /\ r2.expected = r.expected
    PROVE  OneTold(s2, r2, W2, d2, n2) /\ TwoTold(s2, r2, W2, V2, d2, n2) /\ NothingSent(s2, W2, V2)
<1>1. s2.mid = s.mid /\ s2.sent = s.sent /\ s2.msg = s.msg /\ s2.popped = s.popped
  BY DEF Stays
<1>2. \A m : Has(d, m) => Has(d2, m)
  BY DEF Grows
<1>3. ASSUME n2 = 0, HoldsFirst(r, s.msg) PROVE HoldsFirst(r2, s2.msg)
  BY <1>1, <1>3 DEF HoldsFirst
<1>4. OneTold(s2, r2, W2, d2, n2)
  <2> SUFFICES ASSUME NEW k \in 1..Len(W2), W2[k] \in Acks, W2[k].mid = s2.mid
               PROVE  /\ Frames[s2.msg] = 1 => Has(d2, s2.msg)
                      /\ n2 = 0 /\ Frames[s2.msg] = 2 /\ s2.popped = 1 => HoldsFirst(r2, s2.msg)
    BY DEF OneTold
  <2>1. PICK j \in 1..Len(W) : W[j] = W2[k]
    BY DEF Within
  <2>2. /\ Frames[s.msg] = 1 => Has(d, s.msg)
        /\ n = 0 /\ Frames[s.msg] = 2 /\ s.popped = 1 => HoldsFirst(r, s.msg)
    BY <1>1, <2>1 DEF Told, OneTold
  <2> QED BY <1>1, <1>2, <1>3, <2>2
<1>5. TwoTold(s2, r2, W2, V2, d2, n2)
  <2> SUFFICES ASSUME s2.sent # None, n2 = 0, Frames[s2.msg] = 2, s2.popped = 2, ~Has(d2, s2.msg)
               PROVE  Second(s2, r2, W2, V2)
    BY DEF TwoTold
  <2>1. Second(s, r, W, V)
    BY <1>1, <1>2 DEF Told, TwoTold
  <2>2. HoldsFirst(r2, s2.msg)
    BY <1>3, <2>1 DEF Second
  <2>3. \A k \in 1..Len(W2) : W2[k] \in Acks => W2[k].mid # s2.mid
    BY <1>1, <2>1 DEF Second, Within
  <2>4. ASSUME NEW k \in 1..Len(V2), V2[k] \in Carrying
        PROVE  V2[k] = s2.sent \/ (V2[k].msg = s2.msg /\ V2[k].i = 1)
    <3>1. CASE \E j \in 1..Len(V) : V[j] = V2[k]
      BY <1>1, <2>1, <2>4, <3>1 DEF Second
    <3>2. CASE V2[k] = s.sent
      BY <1>1, <3>2
    <3> QED BY <2>4, <3>1, <3>2 DEF Resends
  <2> QED BY <2>2, <2>3, <2>4 DEF Second
<1>6. NothingSent(s2, W2, V2)
  BY <1>1 DEF Told, NothingSent, Within, Resends
<1> QED BY <1>4, <1>5, <1>6

LEMMA ToldStays ==
    ASSUME NEW s, NEW s2, NEW r, NEW r2, NEW W, NEW V, NEW W2, NEW V2, NEW d, NEW d2, NEW n, NEW n2,
           Told(s, r, W, V, d, n), Stays(s, s2), s2.completed = s.completed,
           Within(W2, W, Acks), Resends(V2, V, s), Grows(d, d2), n2 = 0 => n = 0,
           n2 = 0 => r2.pieces = r.pieces /\ r2.expected = r.expected
    PROVE  Told(s2, r2, W2, V2, d2, n2)
<1>1. OneTold(s2, r2, W2, d2, n2) /\ TwoTold(s2, r2, W2, V2, d2, n2) /\ NothingSent(s2, W2, V2)
  BY PartsStay
<1>2. AllTold(s2, d2, n2)
  BY DEF Told, AllTold, Grows
<1> QED BY <1>1, <1>2 DEF Told

\* Nothing on the way has the next mid.
Young(p, W, V) ==
    /\ \A k \in 1..Len(W) : W[k] \in Acks => W[k].mid # NextMid(p.mid)
    /\ \A k \in 1..Len(V) : V[k] \in Carrying => V[k].mid # NextMid(p.mid)

LEMMA FlowYoung ==
    ASSUME NEW p \in Endpoint, NEW W \in Seq(Frame), NEW V \in Seq(Frame), NEW lost \in Nat, NEW extra \in Int,
           lost + extra < Modulus, Flow(p, W, V, lost, extra), OnWay(W, V) <= extra
    PROVE  Young(p, W, V)
<1>1. OnWay(W, V) + lost < Modulus
  <2>1. OnWay(W, V) \in Nat
    BY OnWayType
  <2> QED BY <2>1, LinkAssumption
<1>2. p.mid \in 0..Modulus-1 /\ Pipe(p.mid, p.sent, W, V, lost)
  BY FlowTypes DEF Flow
<1> QED BY <1>1, <1>2, AgesBounded DEF Young

LEMMA AdvancedSent ==
    ASSUME NEW s \in Endpoint, NEW q, Advanced(s, q)
    PROVE  /\ q.mid = NextMid(s.mid) /\ q.sent \in Frame /\ q.sent # None
           /\ q.sent.msg = q.msg /\ q.sent.i = q.popped /\ q.sent.mid = q.mid
<1>1. q.sent = PayloadFrame(q.msg, q.popped, q.mid) /\ q.mid = NextMid(s.mid) /\ q.msg \in Msg /\ q.popped \in 1..Frames[q.msg]
  BY DEF Advanced
<1>2. q.mid \in 0..Modulus-1
  BY <1>1, NextAge DEF Endpoint
<1>3. q.popped \in Nat
  BY <1>1, LinkAssumption
<1>4. q.sent \in Frame
  BY <1>1, <1>2, <1>3, FramesMade
<1>5. q.sent # None
  BY <1>4, NoneAssumption
<1>6. q.sent.msg = q.msg /\ q.sent.i = q.popped /\ q.sent.mid = q.mid
  BY <1>1 DEF PayloadFrame
<1> QED BY <1>1, <1>4, <1>5, <1>6

\* A new message is begun.
LEMMA ToldBegun ==
    ASSUME NEW s \in Endpoint, NEW r, NEW W, NEW V, NEW V2, NEW d, NEW n, NEW q,
           Advanced(s, q), q.popped = 1, Young(s, W, V), AllTold(q, d, n)
    PROVE  Told(q, r, W, V2, d, n)
<1>1. q.mid = NextMid(s.mid) /\ q.sent # None
  BY AdvancedSent
<1>2. OneTold(q, r, W, d, n)
  BY <1>1 DEF OneTold, Young
<1>3. TwoTold(q, r, W, V2, d, n)
  BY DEF TwoTold
<1>4. NothingSent(q, W, V2)
  BY <1>1 DEF NothingSent
<1> QED BY <1>2, <1>3, <1>4 DEF Told

\* The places of what was written.
LEMMA Wrote1 ==
    ASSUME NEW V \in Seq(Frame), NEW o \in Seq(Frame)
    PROVE  \A k \in 1..Len(V \o o) :
              \/ \E j \in 1..Len(V) : V[j] = (V \o o)[k]
              \/ \E j \in 1..Len(o) : o[j] = (V \o o)[k]
<1> DEFINE T == V \o o
<1>1. /\ Len(T) = Len(V) + Len(o) /\ Len(V) \in Nat /\ Len(o) \in Nat
      /\ \A i \in 1..Len(V) + Len(o) : T[i] = IF i <= Len(V) THEN V[i] ELSE o[i - Len(V)]
  BY ConcatProperties
<1> HIDE DEF T
<1>2. SUFFICES ASSUME NEW k \in 1..Len(T)
               PROVE  (\E j \in 1..Len(V) : V[j] = T[k]) \/ (\E j \in 1..Len(o) : o[j] = T[k])
  BY DEF T
<1>3. CASE k <= Len(V)
  BY <1>1, <1>2, <1>3
<1>4. CASE ~(k <= Len(V))
  <2>1. k - Len(V) \in 1..Len(o) /\ T[k] = o[k - Len(V)]
    BY <1>1, <1>2, <1>4
  <2> QED BY <2>1
<1> QED BY <1>3, <1>4

\* The current frame was confirmed.
LEMMA ToldConfirmed ==
    ASSUME NEW s \in Endpoint, Holds(s), s.sent # None, NEW r, NEW W \in Seq(Frame), NEW V \in Seq(Frame), NEW d, NEW n,
           NEW lost, Pipe(s.mid, s.sent, W, V, lost), Told(s, r, W, V, d, n),
           W # <<>>, W[1] \in Acks, W[1].mid = s.mid,
           NEW W2, Within(W2, W, Acks), Young(s, W2, V), NEW q, Confirmed(s, q)
    PROVE  Told(q, r, W2, V \o q.out, d, n)
<1>1. 1 \in 1..Len(W)
  BY EmptySeq
<1>2. s.msg \in Msg /\ s.popped \in 1..Frames[s.msg] /\ s.sent = PayloadFrame(s.msg, s.popped, s.mid)
  BY DEF Holds
<1>3. /\ Frames[s.msg] = 1 => Has(d, s.msg)
      /\ n = 0 /\ Frames[s.msg] = 2 /\ s.popped = 1 => HoldsFirst(r, s.msg)
  BY <1>1 DEF Told, OneTold
<1>4. \A k \in 1..Len(V) : V[k] \in Carrying => V[k] = s.sent
  <2>1. \A k \in 1..Len(V) : V[k] \in Carrying => V[k].mid = s.mid
    BY <1>1 DEF Pipe, InLine
  <2> QED BY <2>1 DEF Pipe, Sequel
<1>5. CASE Continues(s, q)
  <2>1. q.mid = NextMid(s.mid) /\ q.sent # None /\ q.sent \in Frame /\ q.out = <<q.sent>> /\ q.msg = s.msg /\ q.popped = s.popped + 1
        /\ q.completed = s.completed
    BY <1>5, AdvancedSent DEF Continues, Advanced
  <2>2. OneTold(q, r, W2, d, n)
    BY <2>1 DEF OneTold, Young
  <2>3. TwoTold(q, r, W2, V \o q.out, d, n)
    <3> SUFFICES ASSUME n = 0, Frames[q.msg] = 2, q.popped = 2 PROVE Second(q, r, W2, V \o q.out)
      BY DEF TwoTold
    <3>1. s.popped = 1
      BY <1>2, <2>1, LinkAssumption
    <3>2. HoldsFirst(r, q.msg)
      BY <1>3, <2>1, <3>1
    <3>3. \A k \in 1..Len(W2) : W2[k] \in Acks => W2[k].mid # q.mid
      BY <2>1 DEF Young
    <3>4. ASSUME NEW k \in 1..Len(V \o q.out), (V \o q.out)[k] \in Carrying
          PROVE  (V \o q.out)[k] = q.sent \/ ((V \o q.out)[k].msg = q.msg /\ (V \o q.out)[k].i = 1)
      <4> DEFINE g == (V \o q.out)[k]
      <4>1. q.out \in Seq(Frame) /\ Len(q.out) = 1 /\ q.out[1] = q.sent
        BY <2>1
      <4>2. (\E j \in 1..Len(V) : V[j] = g) \/ (\E j \in 1..Len(q.out) : q.out[j] = g)
        BY <4>1, Wrote1
      <4>3. s.sent.msg = s.msg /\ s.sent.i = 1
        BY <1>2, <3>1 DEF PayloadFrame
      <4>4. g \in Carrying
        BY <3>4
      <4> SUFFICES g = q.sent \/ (g.msg = q.msg /\ g.i = 1)
        OBVIOUS
      <4> HIDE DEF g
      <4>5. CASE \E j \in 1..Len(V) : V[j] = g
        BY <1>4, <2>1, <4>3, <4>4, <4>5
      <4>6. CASE \E j \in 1..Len(q.out) : q.out[j] = g
        BY <4>1, <4>6
      <4> QED BY <4>2, <4>5, <4>6
    <3> QED BY <3>2, <3>3, <3>4 DEF Second
  <2>4. AllTold(q, d, n)
    BY <2>1 DEF Told, AllTold
  <2> QED BY <2>1, <2>2, <2>3, <2>4 DEF Told, NothingSent
<1>6. CASE Completes(s, q)
  <2>1. s.popped = Frames[s.msg] /\ q.completed = s.completed \cup {s.msg}
    BY <1>6 DEF Completes
  <2>2. Frames[s.msg] = 2 /\ n = 0 => Has(d, s.msg)
    BY <1>1, <2>1 DEF Told, TwoTold, Second
  <2>3. AllTold(q, d, n)
    BY <1>3, <2>1, <2>2 DEF Told, AllTold
  <2>4. CASE Stays(s, q) /\ q.out = <<>>
    <3>1. V \o q.out = V
      BY <2>4
    <3>2. Resends(V, V, s) /\ Grows(d, d)
      BY DEF Resends, Grows
    <3>3. OneTold(q, r, W2, d, n) /\ TwoTold(q, r, W2, V, d, n) /\ NothingSent(q, W2, V)
      BY <2>4, <3>2, PartsStay
    <3> QED BY <2>3, <3>1, <3>3 DEF Told
  <2>5. CASE Advanced(s, q) /\ q.popped = 1
    BY <2>3, <2>5, ToldBegun
  <2> QED BY <1>6, <2>4, <2>5 DEF Completes
<1> QED BY <1>5, <1>6 DEF Confirmed

LEMMA AllSame ==
    ASSUME NEW s, NEW r, NEW W, NEW V, NEW d, NEW n, Told(s, r, W, V, d, n), NEW q, q.completed = s.completed
    PROVE  AllTold(q, d, n)
BY DEF Told, AllTold

\* The frame is sent again, or nothing is.
LEMMA ToldRepeats ==
    ASSUME NEW s \in Endpoint, NEW r, NEW W, NEW V \in Seq(Frame), NEW d, NEW n, Told(s, r, W, V, d, n),
           NEW W2, Within(W2, W, Acks), NEW q, Silent(s, q) \/ Resent(s, q)
    PROVE  Told(q, r, W2, V \o q.out, d, n)
<1>1. q.out \in Seq(Frame) /\ \A j \in 1..Len(q.out) : s.sent # None /\ q.out[j] = s.sent
  <2>1. CASE Silent(s, q)
    BY <2>1, EmptySeq DEF Silent
  <2>2. CASE Resent(s, q)
    <3>1. s.sent \in Frame /\ q.out = <<s.sent>> /\ s.sent # None
      BY <2>2 DEF Resent, Endpoint
    <3>2. q.out \in Seq(Frame) /\ Len(q.out) = 1 /\ q.out[1] = s.sent
      BY <3>1
    <3> QED BY <3>1, <3>2
  <2> QED BY <2>1, <2>2
<1>2. Stays(s, q) /\ q.completed = s.completed
  BY DEF Silent, Resent
<1>3. Resends(V \o q.out, V, s)
  BY <1>1, Wrote1 DEF Resends
<1>4. Grows(d, d)
  BY DEF Grows
<1> QED BY <1>2, <1>3, <1>4, ToldStays

LEMMA ToldMoves ==
    ASSUME NEW s \in Endpoint, NEW r, NEW W, NEW V \in Seq(Frame), NEW d, NEW n, Told(s, r, W, V, d, n),
           NEW W2, Within(W2, W, Acks), Young(s, W2, V), NEW q, Moves(s, q)
    PROVE  Told(q, r, W2, V \o q.out, d, n)
<1>1. CASE Silent(s, q) \/ Resent(s, q)
  BY <1>1, ToldRepeats
<1>2. CASE Begun(s, q)
  <2>1. Advanced(s, q) /\ q.popped = 1 /\ AllTold(q, d, n)
    BY <1>2, AllSame DEF Begun
  <2> QED BY <2>1, ToldBegun
<1> QED BY <1>1, <1>2 DEF Moves

LEMMA ToldLooped ==
    ASSUME NEW s \in Endpoint, NEW r, NEW W, NEW V \in Seq(Frame), NEW d, NEW n, Told(s, r, W, V, d, n),
           NEW W2, Within(W2, W, Acks), s.sender = "Idle" => Young(s, W2, V), NEW q, Looped(s, q)
    PROVE  Told(q, r, W2, V \o q.out, d, n)
<1>1. CASE Twin(s, q) /\ q.out = <<>>
  <2>1. V \o q.out = V /\ Stays(s, q) /\ q.completed = s.completed
    BY <1>1 DEF Twin
  <2>2. Resends(V, V, s) /\ Grows(d, d)
    BY DEF Resends, Grows
  <2>3. Told(q, r, W2, V, d, n)
    BY <2>1, <2>2, ToldStays
  <2> QED BY <2>1, <2>3
<1>2. CASE s.sender = "Idle" /\ Begun(s, q)
  BY <1>2, ToldMoves DEF Moves
<1> QED BY <1>1, <1>2 DEF Looped

\* An end that has read a payload frame or a damaged one.
LEMMA ToldDigested ==
    ASSUME NEW s \in Endpoint, NEW r, NEW W, NEW V \in Seq(Frame), NEW d, NEW n, Told(s, r, W, V, d, n),
           NEW W2, Within(W2, W, Acks), s.sender = "Idle" => Young(s, W2, V),
           NEW c \in Frame, c \notin Carrying, NEW q, Digested(s, q, c)
    PROVE  Told(q, r, W2, V \o q.out, d, n)
<1>1. PICK t : Looped(s, t) /\ Twin(t, q) /\ q.out = t.out \o <<c>>
  BY DEF Digested
<1>2. Told(t, r, W2, V \o t.out, d, n)
  BY <1>1, ToldLooped
<1>3. t.out \in Seq(Frame) /\ <<c>> \in Seq(Frame) /\ Len(<<c>>) = 1 /\ <<c>>[1] = c
  BY <1>1 DEF Looped, Endpoint
<1> DEFINE B == V \o t.out
           o == <<c>>
<1>4. B \in Seq(Frame) /\ V \o q.out = B \o o
  <2>1. B \in Seq(Frame)
    BY <1>3, ConcatProperties
  <2>2. V \o (t.out \o <<c>>) = (V \o t.out) \o <<c>>
    BY <1>3, ConcatThree
  <2> QED BY <1>1, <2>1, <2>2
<1>5. Stays(t, q) /\ q.completed = t.completed /\ Told(t, r, W2, B, d, n) /\ o \in Seq(Frame) /\ Len(o) = 1 /\ o[1] = c
  BY <1>1, <1>2, <1>3 DEF Twin
<1> HIDE DEF B, o
<1>6. Resends(B \o o, B, t)
  <2> SUFFICES ASSUME NEW k \in 1..Len(B \o o), (B \o o)[k] \in Carrying
               PROVE  \E j \in 1..Len(B) : B[j] = (B \o o)[k]
    BY DEF Resends
  <2>1. (\E j \in 1..Len(B) : B[j] = (B \o o)[k]) \/ (\E j \in 1..Len(o) : o[j] = (B \o o)[k])
    BY <1>4, <1>5, Wrote1
  <2>2. \A j \in 1..Len(o) : o[j] = c
    BY <1>5
  <2> QED BY <2>1, <2>2
<1>7. Within(W2, W2, Acks) /\ Grows(d, d)
  BY DEF Within, Grows
<1>8. Told(q, r, W2, B \o o, d, n)
  BY <1>5, <1>6, <1>7, ToldStays
<1> QED BY <1>4, <1>8

(***************************************************************************)
(* The receiver digests a whole payload frame.                             *)
(***************************************************************************)
\* p2 has pushed f onto what p had, and gives the message to its user if it is
\* complete.
Pushed(p, f, p2) ==
    IF f.i = 1 THEN p2.expected = Frames[f.msg] /\ p2.pieces = <<<<f.msg, 1>>>>
               ELSE p2.expected = p.expected /\ p2.pieces = Append(p.pieces, <<f.msg, f.i>>)

Delivers(p2, f, d, d2) ==
    /\ MessageFinished(p2) /\ Emitted(p2) # {} => d2 = Append(d, f.msg)
    /\ ~(MessageFinished(p2) /\ Emitted(p2) # {}) => d2 = d

LEMMA DeliversGrows ==
    ASSUME NEW d \in Seq(Msg), NEW f, f.msg \in Msg, NEW p2, NEW d2, Delivers(p2, f, d, d2)
    PROVE  /\ Grows(d, d2)
           /\ MessageFinished(p2) /\ Emitted(p2) # {} => Has(d2, f.msg)
<1>1. /\ Len(Append(d, f.msg)) = Len(d) + 1 /\ Len(d) \in Nat /\ Append(d, f.msg)[Len(d) + 1] = f.msg
      /\ \A k \in 1..Len(d) : Append(d, f.msg)[k] = d[k]
  BY AppendProperties
<1>2. Grows(d, Append(d, f.msg)) /\ Grows(d, d)
  BY <1>1 DEF Grows, Has
<1>3. Has(Append(d, f.msg), f.msg)
  <2>1. Len(d) + 1 \in 1..Len(Append(d, f.msg))
    BY <1>1
  <2> QED BY <1>1, <2>1 DEF Has
<1> QED BY <1>2, <1>3 DEF Delivers

LEMMA OneIsEmitted ==
    ASSUME NEW p2, NEW m \in Msg, Frames[m] = 1, p2.expected = 1, p2.pieces = <<<<m, 1>>>>
    PROVE  MessageFinished(p2) /\ Emitted(p2) # {}
<1>1. <<<<m, 1>>>> = [k \in 1..Frames[m] |-> <<m, k>>]
  OBVIOUS
<1>2. m \in Emitted(p2)
  BY <1>1 DEF Emitted
<1>3. Len(p2.pieces) = 1
  OBVIOUS
<1> QED BY <1>2, <1>3 DEF MessageFinished

LEMMA TwoAreEmitted ==
    ASSUME NEW p2, NEW m \in Msg, Frames[m] = 2, p2.expected = 2, p2.pieces = Append(<<<<m, 1>>>>, <<m, 2>>)
    PROVE  MessageFinished(p2) /\ Emitted(p2) # {}
<1> DEFINE o == <<<<m, 1>>>>
           x == <<m, 2>>
           a == Append(o, x)
           b == [k \in 1..2 |-> <<m, k>>]
<1>1. o \in Seq(Msg \X Nat) /\ Len(o) = 1 /\ o[1] = <<m, 1>> /\ x \in Msg \X Nat
  OBVIOUS
<1>2. b \in Seq(Msg \X Nat) /\ Len(b) = 2 /\ b[1] = <<m, 1>> /\ b[2] = x
  OBVIOUS
<1> HIDE DEF o, x, b
<1>3. a \in Seq(Msg \X Nat) /\ Len(a) = 2 /\ a[1] = <<m, 1>> /\ a[2] = x
  <2>1. /\ a \in Seq(Msg \X Nat) /\ Len(a) = Len(o) + 1 /\ a[Len(o) + 1] = x
        /\ \A i \in 1..Len(o) : a[i] = o[i]
    <3>1. ASSUME NEW S, NEW t \in Seq(S), NEW y \in S
          PROVE  /\ Append(t, y) \in Seq(S) /\ Len(Append(t, y)) = Len(t) + 1 /\ Append(t, y)[Len(t) + 1] = y
                 /\ \A i \in 1..Len(t) : Append(t, y)[i] = t[i]
      BY <3>1, AppendProperties
    <3> QED BY <1>1, <3>1, SMTT(30)
  <2> HIDE DEF a
  <2> QED BY <1>1, <2>1
<1> HIDE DEF a
<1>4. \A i \in 1..Len(a) : i = 1 \/ i = 2
  BY <1>3
<1>5. a = b
  BY <1>2, <1>3, <1>4, SeqEqual
<1>6. p2.pieces = [k \in 1..Frames[m] |-> <<m, k>>]
  BY <1>5 DEF a, b, o, x
<1>7. m \in Emitted(p2)
  BY <1>6 DEF Emitted
<1>8. Len(p2.pieces) = 2
  BY <1>3 DEF a, o, x
<1> QED BY <1>7, <1>8 DEF MessageFinished

LEMMA ToldPassed ==
    ASSUME NEW s \in Endpoint, Holds(s), NEW p, NEW p2, NEW W \in Seq(Frame), NEW V \in Seq(Frame),
           NEW d \in Seq(Msg), NEW d2, NEW n, NEW lost, Pipe(s.mid, s.sent, W, V, lost), Told(s, p, W, V, d, n),
           V # <<>>, V[1] \in Carrying, Pushed(p, V[1], p2), Delivers(p2, V[1], d, d2),
           NEW W2, \A k \in 1..Len(W2) : W2[k] \in Acks => (\E j \in 1..Len(W) : W[j] = W2[k]) \/ W2[k].mid = V[1].mid
    PROVE  Told(s, p2, W2, Tail(V), d2, n)
<1> DEFINE f == V[1]
           m == s.msg
<1>1. f \in Frame /\ f.msg \in Msg /\ f.i \in Nat /\ 1 \in 1..Len(V)
  <2>1. f \in Frame /\ f.type = "payload"
    BY DEF Carrying, IsPayload
  <2>2. f.msg \in Msg /\ f.i \in Nat
    BY <2>1, FrameFields
  <2>3. Len(V) \in Nat /\ Len(V) # 0
    BY EmptySeq
  <2> QED BY <2>1, <2>2, <2>3
<1>2. s.sent # None
  BY <1>1 DEF Told, NothingSent
<1>3. m \in Msg /\ s.popped \in 1..Frames[m] /\ s.sent.msg = m /\ s.sent.i = s.popped /\ s.sent.mid = s.mid
  BY <1>2 DEF Holds, PayloadFrame
<1>4. f.mid = s.mid => f = s.sent
  BY <1>1 DEF Pipe, Sequel
<1>5. ASSUME NEW j \in 1..Len(W), W[j] \in Acks, W[j].mid = s.mid PROVE f.mid = s.mid
  BY <1>1, <1>5 DEF Pipe, InLine
<1>6. ASSUME NEW k \in 1..Len(W2), W2[k] \in Acks, W2[k].mid = s.mid PROVE f = s.sent
  BY <1>4, <1>5, <1>6
<1>7. Grows(d, d2) /\ (MessageFinished(p2) /\ Emitted(p2) # {} => Has(d2, f.msg))
  BY <1>1, DeliversGrows
<1>8. Len(Tail(V)) = Len(V) - 1 /\ \A k \in 1..Len(Tail(V)) : Tail(V)[k] = V[k + 1] /\ k + 1 \in 1..Len(V)
  <2>1. Len(Tail(V)) = Len(V) - 1 /\ \A k \in 1..Len(Tail(V)) : Tail(V)[k] = V[k + 1]
    BY HeadTailProperties
  <2>2. Len(V) \in Nat /\ Len(V) # 0
    BY EmptySeq
  <2> QED BY <2>1, <2>2
<1>9. Frames[m] \in Nat \ {0}
  BY <1>3, LinkAssumption
<1>10. Pushed(p, f, p2)
  OBVIOUS
<1> HIDE DEF f, m
<1>11. OneTold(s, p2, W2, d2, n)
  <2> SUFFICES ASSUME NEW k \in 1..Len(W2), W2[k] \in Acks, W2[k].mid = s.mid
               PROVE  /\ Frames[m] = 1 => Has(d2, m)
                      /\ n = 0 /\ Frames[m] = 2 /\ s.popped = 1 => HoldsFirst(p2, m)
    BY DEF OneTold, m
  <2>1. f.msg = m /\ f.i = s.popped
    BY <1>3, <1>6
  <2>2. ASSUME Frames[m] = 1 PROVE Has(d2, m)
    <3>1. f.i = 1
      BY <1>3, <2>1, <2>2
    <3>2. p2.expected = 1 /\ p2.pieces = <<<<m, 1>>>>
      BY <1>10, <2>1, <2>2, <3>1 DEF Pushed
    <3> QED BY <1>3, <1>7, <2>1, <2>2, <3>2, OneIsEmitted
  <2>3. ASSUME Frames[m] = 2, s.popped = 1 PROVE HoldsFirst(p2, m)
    BY <1>10, <2>1, <2>3 DEF Pushed, HoldsFirst
  <2> QED BY <2>2, <2>3
<1>12. TwoTold(s, p2, W2, Tail(V), d2, n)
  <2> SUFFICES ASSUME n = 0, Frames[m] = 2, s.popped = 2, ~Has(d2, m)
               PROVE  Second(s, p2, W2, Tail(V))
    BY DEF TwoTold, m
  <2>1. Second(s, p, W, V)
    BY <1>2, <1>7 DEF Told, TwoTold, m, Grows
  <2>2. HoldsFirst(p, m)
    BY <2>1 DEF Second, m
  <2>3. f = s.sent \/ (f.msg = m /\ f.i = 1)
    <3>1. V[1] \in Carrying /\ 1 \in 1..Len(V)
      BY <1>1
    <3> QED BY <2>1, <3>1 DEF Second, f, m
  <2>4. f # s.sent
    <3> SUFFICES ASSUME f = s.sent PROVE FALSE
      OBVIOUS
    <3>1. f.msg = m /\ f.i = 2
      BY <1>3
    <3>2. p2.expected = 2 /\ p2.pieces = Append(<<<<m, 1>>>>, <<m, 2>>)
      <4>1. p2.expected = p.expected /\ p2.pieces = Append(p.pieces, <<f.msg, f.i>>)
        BY <1>10, <3>1 DEF Pushed
      <4>2. p.expected = 2 /\ p.pieces = <<<<m, 1>>>>
        BY <2>2 DEF HoldsFirst
      <4> QED BY <3>1, <4>1, <4>2, Zenon
    <3>3. Has(d2, m)
      BY <1>3, <1>7, <3>1, <3>2, TwoAreEmitted
    <3> QED BY <3>3
  <2>5. f.msg = m /\ f.i = 1 /\ f.mid # s.mid
    BY <1>4, <2>3, <2>4
  <2>6. HoldsFirst(p2, m)
    BY <1>10, <2>5 DEF Pushed, HoldsFirst
  <2>7. \A k \in 1..Len(W2) : W2[k] \in Acks => W2[k].mid # s.mid
    BY <1>6, <2>4
  <2>8. \A k \in 1..Len(Tail(V)) : Tail(V)[k] \in Carrying => Tail(V)[k] = s.sent \/ (Tail(V)[k].msg = m /\ Tail(V)[k].i = 1)
    BY <1>8, <2>1 DEF Second, m
  <2> QED BY <2>6, <2>7, <2>8 DEF Second, m
<1>13. AllTold(s, d2, n)
  BY <1>7 DEF Told, AllTold, Grows
<1>14. NothingSent(s, W2, Tail(V))
  BY <1>2 DEF NothingSent
<1> QED BY <1>11, <1>12, <1>13, <1>14 DEF Told

ToldTo(e) == Told(ep[e], ep[Peer(e)], Wire(e), Wire(Peer(e)), delivered[e], faults)

ContentInv == FewDisturbances => \A e \in End : ToldTo(e)

\* The receiver has nothing to do with a confirmation or a timer.
SamePieces(p, q) == q.pieces = p.pieces /\ q.expected = p.expected

LEMMA ConfirmationKeepsPieces ==
    ASSUME NEW S \in Seq(Msg), NEW p, Ready(p), Sends(p, S), p.out = <<>>, NEW f \in Frame
    PROVE  SamePieces(p, DigestConfirmation(p, f))
<1>1. p \in Endpoint
  BY DEF Ready
<1>2. CASE p.sender # "WaitForAck"
  <2> DEFINE q == [p EXCEPT !.sender = "Idle"]
  <2>1. q \in Endpoint /\ SamePieces(p, q)
    BY <1>1 DEF Endpoint, SamePieces
  <2> HIDE DEF q
  <2>2. SamePieces(q, SendLoop(q))
    BY <2>1, LoopKeepsPieces DEF SamePieces
  <2>3. DigestConfirmation(p, f) = SendLoop(q)
    BY <1>2 DEF DigestConfirmation, q
  <2> QED BY <2>1, <2>2, <2>3 DEF SamePieces
<1>3. CASE p.sender = "WaitForAck"
  <2>1. CanResend(p)
    BY <1>3 DEF Ready
  <2>2. Sent(p, GotAck(p, f.mid), S) /\ Sent(p, GotNak(p), S)
    BY <2>1, GotAckSent, GotNakSent
  <2>3. DigestConfirmation(p, f) \in {GotAck(p, f.mid), GotNak(p)}
    BY <1>3 DEF DigestConfirmation
  <2> QED BY <2>2, <2>3 DEF Sent, SamePieces
<1> QED BY <1>2, <1>3

\* The sender that waits sends again or gives up.
LEMMA TimeoutRepeats ==
    ASSUME NEW S \in Seq(Msg), NEW p, Ready(p), Sends(p, S), Holds(p), p.timer, p.out = <<>>, NEW n \in Int
    PROVE  /\ LET q == ResendPayloadFrame([p EXCEPT !.timeouts = n]) IN
              q \in Endpoint /\ SamePieces(p, q) /\ (Silent(p, q) \/ Resent(p, q))
           /\ LET q == GiveUp([p EXCEPT !.timeouts = n]) IN
              q \in Endpoint /\ SamePieces(p, q) /\ (Silent(p, q) \/ Resent(p, q))
<1> DEFINE r == [p EXCEPT !.timeouts = n]
<1>1. p \in Endpoint /\ p.sender = "WaitForAck" /\ p.msg \in Msg /\ p.sent \in Frame
  BY DEF Ready, CanResend
<1>2. Level(p, r) /\ Alike(p, r)
  BY <1>1, ChangesLevel, ChangesAlike
<1>3. r \in Endpoint /\ r.sender = p.sender /\ r.needAck = p.needAck
  BY <1>1 DEF Endpoint
<1>4. CanResend(r) /\ r.out = <<>> /\ Holds(r)
  BY <1>1, <1>2, <1>3 DEF CanResend, Level, Stays, Holds
<1>5. Sends(r, S)
  BY <1>2, AlikeSends
<1> HIDE DEF r
<1>6. Resent(r, ResendPayloadFrame(r)) /\ ResendPayloadFrame(r) \in Endpoint
  BY <1>4, ResentBy, ResendReady DEF Ready
<1>7. Silent(r, GiveUp(r)) /\ GiveUp(r) \in Endpoint
  BY <1>4, GivenUp, GiveUpReady DEF Ready
<1>8. Resent(p, ResendPayloadFrame(r)) /\ Silent(p, GiveUp(r))
  BY <1>2, <1>6, <1>7 DEF Level, Stays, Resent, Silent
<1>9. SamePieces(p, ResendPayloadFrame(r)) /\ SamePieces(p, GiveUp(r))
  <2>1. Sent(r, ResendPayloadFrame(r), S)
    BY <1>4, <1>5, ResendSent
  <2>2. Alike(r, GiveUp(r))
    BY <1>4, GiveUpAlike
  <2> QED BY <1>2, <2>1, <2>2 DEF Alike, Sent, SamePieces
<1> QED BY <1>6, <1>7, <1>8, <1>9 DEF r

LEMMA IdleYoung ==
    ASSUME NEW p \in Endpoint, NEW W \in Seq(Frame), NEW V \in Seq(Frame), NEW lost \in Nat, NEW extra \in Int,
           lost + extra < Modulus, Flow(p, W, V, lost, extra), p.sender = "Idle"
    PROVE  Young(p, W, V)
<1>1. OnWay(W, V) <= extra + Waits(p) /\ Waits(p) = 0
  BY DEF Flow, Waits
<1>2. OnWay(W, V) <= extra
  BY <1>1
<1> QED BY <1>2, FlowYoung

\* The other end of what an end does: the receiver p of s becomes q and writes
\* o, and what it had to read is what is left of V.
LEMMA ToldOther ==
    ASSUME NEW s, NEW p, NEW q, NEW W \in Seq(Frame), NEW V, NEW V2, NEW d, NEW n, NEW n2,
           Told(s, p, W, V, d, n), NEW o \in Seq(Frame), \A i \in 1..Len(o) : o[i] \notin Acks,
           Within(V2, V, Carrying), n2 = 0 => n = 0 /\ SamePieces(p, q)
    PROVE  Told(s, q, W \o o, V2, d, n2)
<1>1. Within(W \o o, W, Acks)
  BY Wrote1 DEF Within
<1>2. Resends(V2, V, s) /\ Grows(d, d) /\ Stays(s, s)
  BY DEF Resends, Within, Grows, Stays
<1> QED BY <1>1, <1>2, ToldStays DEF SamePieces

\* What is left when frames have been read.
LEMMA TailWithin ==
    ASSUME NEW W \in Seq(Frame), W # <<>>
    PROVE  /\ \A F : Within(Tail(W), W, F)
           /\ \A F : Within(W, W, F)
           /\ \A F : \A T : Within(W, T, F) => Within(Tail(W), T, F)
<1>1. Len(Tail(W)) = Len(W) - 1 /\ \A k \in 1..Len(Tail(W)) : Tail(W)[k] = W[k + 1]
  BY HeadTailProperties
<1>2. Len(W) \in Nat
  OBVIOUS
<1>3. \A k \in 1..Len(Tail(W)) : k + 1 \in 1..Len(W)
  BY <1>1, <1>2
<1>4. \A F : Within(Tail(W), W, F)
  BY <1>1, <1>3 DEF Within
<1>5. \A F : Within(W, W, F)
  BY DEF Within
<1>6. ASSUME NEW F, NEW T, Within(W, T, F) PROVE Within(Tail(W), T, F)
  BY <1>1, <1>3, <1>6 DEF Within
<1> QED BY <1>4, <1>5, <1>6

\* What holds before each step below.
Telling == Flowing /\ OrderInv /\ FlowInv' /\ \A e \in End : ToldTo(e)

LEMMA TellBefore ==
    ASSUME Telling, NEW e \in End
    PROVE  LET r == Peer(e) IN
           /\ Told(ep[e], ep[r], Wire(e), Wire(r), delivered[e], faults)
           /\ Told(ep[r], ep[e], Wire(r), Wire(e), delivered[r], faults)
           /\ submitted[e] \in Seq(Msg) /\ Sends(ep[e], submitted[e])
           /\ delivered[e] \in Seq(Msg) /\ delivered[r] \in Seq(Msg)
           /\ delivered \in [End -> Seq(Msg)] /\ faults \in Nat
<1>1. Peer(e) \in End /\ Peer(Peer(e)) = e
  BY TwoEnds
<1>2. ToldTo(e) /\ ToldTo(Peer(e))
  BY <1>1 DEF Telling
<1>3. Told(ep[Peer(e)], ep[e], Wire(Peer(e)), Wire(e), delivered[Peer(e)], faults)
  BY <1>1, <1>2 DEF ToldTo
<1>4. submitted[e] \in Seq(Msg) /\ delivered \in [End -> Seq(Msg)] /\ faults \in Nat
  BY LinkAssumption DEF Telling, Flowing, LinkInv, TypeOK
<1>5. Sends(ep[e], submitted[e])
  BY DEF Telling, OrderInv, Ordered
<1> QED BY <1>1, <1>2, <1>3, <1>4, <1>5 DEF ToldTo

LEMMA TellBoth ==
    ASSUME NEW e \in End,
           Told(ep'[e], ep'[Peer(e)], Wire(e)', Wire(Peer(e))', delivered'[e], faults'),
           Told(ep'[Peer(e)], ep'[e], Wire(Peer(e))', Wire(e)', delivered'[Peer(e)], faults')
    PROVE  ContentInv'
<1>1. Peer(e) \in End /\ Peer(Peer(e)) = e /\ End = {e, Peer(e)}
  BY TwoEnds
<1>2. ToldTo(e)'
  BY DEF ToldTo
<1>3. ToldTo(Peer(e))'
  BY <1>1 DEF ToldTo
<1> QED BY <1>1, <1>2, <1>3 DEF ContentInv

\* A handler has run.
LEMMA ToldHandled ==
    ASSUME Telling, NEW e \in End, NEW q \in Endpoint, NEW in \in [End -> Seq(Frame)], in[Peer(e)] = line[Peer(e)],
           rx'[Peer(e)] = rx[Peer(e)], Become(e, q, in), NEW d2, delivered'[e] = delivered[e], delivered'[Peer(e)] = d2,
           Told(q, ep[Peer(e)], Wire(e)', Wire(Peer(e)) \o q.out, delivered[e], faults'),
           Told(ep[Peer(e)], q, Wire(Peer(e)) \o q.out, Wire(e)', d2, faults')
    PROVE  ContentInv'
<1> DEFINE r == Peer(e)
           B == Wire(r) \o q.out
           T == Wire(e)'
           p2 == ep'[e]
           s == ep[r]
           n == faults'
           d == delivered[e]
<1>1. LinkInv
  BY DEF Telling, Flowing
<1>2. /\ Twin(q, p2) /\ p2.pieces = q.pieces /\ p2.expected = q.expected /\ ep'[r] = s
      /\ line'[r] = in[r] \o q.out
  BY <1>1, Became
<1>3. Wire(r)' = B
  <2>1. q.out \in Seq(Frame) /\ line[r] \in Seq(Frame) /\ rx[r] \in Frame \cup {None}
    BY FlowBefore DEF Endpoint, Telling
  <2>2. WireOf(rx[r], line[r] \o q.out) = WireOf(rx[r], line[r]) \o q.out
    BY <2>1, WireWritten
  <2> QED BY <1>2, <2>2 DEF Wire
<1>4. Told(q, s, T, B, d, n) /\ Told(s, q, B, T, d2, n)
  OBVIOUS
<1>5. Stays(q, p2) /\ p2.completed = q.completed
  BY <1>2 DEF Twin
<1> HIDE DEF B, T, p2, s, n, d
<1>6. \A W, F : Within(W, W, F)
  BY DEF Within
<1>7. Resends(B, B, q) /\ Resends(T, T, s) /\ Grows(d, d) /\ Grows(d2, d2) /\ Stays(s, s)
  BY DEF Resends, Grows, Stays
<1>8. Told(p2, s, T, B, d, n)
  BY <1>4, <1>5, <1>6, <1>7, ToldStays
<1>9. Told(s, p2, B, T, d2, n)
  BY <1>2, <1>4, <1>6, <1>7, ToldStays
<1>10. Told(ep'[e], ep'[Peer(e)], Wire(e)', Wire(Peer(e))', delivered'[e], faults')
  BY <1>2, <1>3, <1>8 DEF B, T, p2, s, n, d
<1>11. Told(ep'[Peer(e)], ep'[e], Wire(Peer(e))', Wire(e)', delivered'[Peer(e)], faults')
  BY <1>2, <1>3, <1>9 DEF B, T, p2, s, n, d
<1> QED BY <1>10, <1>11, TellBoth

LEMMA ContentInit == Init => ContentInv
<1> SUFFICES ASSUME Init, NEW e \in End PROVE ToldTo(e)
  BY DEF ContentInv
<1>1. \A x \in End : line[x] = <<>> /\ rx[x] = None
  BY DEF Init
<1>2. PICK g \in [End -> Garbage] : ep = [x \in End |-> NewEndpoint(g[x][1], g[x][2])]
  BY DEF Init
<1>3. ep[e] = NewEndpoint(g[e][1], g[e][2])
  BY <1>2
<1>4. ep[e].completed = {} /\ ep[e].sent = None
  BY <1>3 DEF NewEndpoint
<1>5. Wire(e) = <<>> /\ Wire(Peer(e)) = <<>>
  BY <1>1, TwoEnds DEF Wire, WireOf
<1>6. Len(<<>>) = 0
  OBVIOUS
<1> QED BY <1>4, <1>5, <1>6 DEF ToldTo, Told, OneTold, TwoTold, AllTold, NothingSent

\* An end has written, and nothing was read.
LEMMA ToldWritten ==
    ASSUME Telling, NEW e \in End, NEW q \in Endpoint, rx' = rx, delivered' = delivered, Become(e, q, line),
           Told(q, ep[Peer(e)], Wire(e), Wire(Peer(e)) \o q.out, delivered[e], faults'),
           Told(ep[Peer(e)], q, Wire(Peer(e)) \o q.out, Wire(e), delivered[Peer(e)], faults')
    PROVE  ContentInv'
<1>1. LinkInv /\ line \in [End -> Seq(Frame)]
  BY DEF Telling, Flowing, LinkInv, TypeOK
<1>2. line'[e] = line[e]
  BY <1>1, Became
<1>3. Wire(e)' = Wire(e)
  BY <1>2 DEF Wire
<1>4. /\ line[Peer(e)] = line[Peer(e)] /\ rx'[Peer(e)] = rx[Peer(e)]
      /\ delivered'[e] = delivered[e] /\ delivered'[Peer(e)] = delivered[Peer(e)]
  OBVIOUS
<1> DEFINE d2 == delivered[Peer(e)]
<1>5. /\ delivered'[Peer(e)] = d2
      /\ Told(q, ep[Peer(e)], Wire(e)', Wire(Peer(e)) \o q.out, delivered[e], faults')
      /\ Told(ep[Peer(e)], q, Wire(Peer(e)) \o q.out, Wire(e)', d2, faults')
  BY <1>3, <1>4
<1> HIDE DEF d2
<1> QED BY <1>1, <1>4, <1>5, ToldHandled

\* Frames that are written: whole payload frames, or a NAK.
LEMMA NoAcksWritten ==
    ASSUME NEW o, o = <<>> \/ \E f \in Frame : f \in Carrying /\ o = <<f>>
    PROVE  o \in Seq(Frame) /\ \A i \in 1..Len(o) : o[i] \notin Acks
<1>1. CASE o = <<>>
  BY <1>1, EmptySeq
<1>2. CASE \E f \in Frame : f \in Carrying /\ o = <<f>>
  <2>1. PICK f \in Frame : f \in Carrying /\ o = <<f>>
    BY <1>2
  <2>2. o \in Seq(Frame) /\ Len(o) = 1 /\ o[1] = f
    BY <2>1
  <2> QED BY <2>1, <2>2, KindsOfFrames
<1> QED BY <1>1, <1>2

LEMMA SendMessageTold ==
    ASSUME Telling, NEW m \in Msg, SendMessage(m)
    PROVE  ContentInv'
<1> DEFINE e == From[m]
           p == ep[e]
           p1 == [p EXCEPT !.queue = Append(@, m)]
           q == SendLoop(p1)
           W == Wire(e)
           V == Wire(Peer(e))
           s == ep[Peer(e)]
           d == delivered[e]
           b == delivered[Peer(e)]
           n == faults
<1>1. e \in End /\ Flowing
  BY LinkAssumption DEF Telling
<1>2. /\ p \in Endpoint /\ Holds(p) /\ p.out = <<>> /\ Peer(e) \in End
      /\ s \in Endpoint /\ W \in Seq(Frame) /\ V \in Seq(Frame)
      /\ Flow(p, W, V, Slack(e), Extra(e))
      /\ Slack(e) \in Nat /\ Extra(e) \in Int /\ Slack(e) + Extra(e) < Modulus
  BY <1>1, FlowBefore
<1>3. Told(p, s, W, V, d, n) /\ Told(s, p, V, W, b, n)
  BY <1>1, TellBefore
<1>4. p1 \in Endpoint /\ p1.out = <<>> /\ Twin(p, p1) /\ SamePieces(p, p1)
  BY <1>2, AppendProperties DEF Endpoint, Twin, Stays, SamePieces
<1>5. Become(e, q, line) /\ rx' = rx /\ delivered' = delivered /\ faults' = faults
  BY DEF SendMessage
<1> HIDE DEF p1
<1>6. Looped(p1, q) /\ q \in Endpoint /\ SamePieces(p, q)
  <2>1. Looped(p1, q)
    BY <1>4, LoopLooped
  <2>2. SamePieces(p1, q)
    BY <1>4, LoopKeepsPieces DEF SamePieces
  <2> QED BY <1>4, <2>1, <2>2 DEF Looped, SamePieces
<1>7. Holds(p1) /\ Flow(p1, W, V, Slack(e), Extra(e))
  BY <1>2, <1>4, TwinFlow
<1> HIDE DEF q, p, W, V, s, d, b, n
<1>8. Told(p1, s, W, V, d, n)
  <2>1. Stays(p, p1) /\ p1.completed = p.completed
    BY <1>4 DEF Twin
  <2>2. Within(W, W, Acks) /\ Resends(V, V, p) /\ Grows(d, d)
    BY DEF Within, Resends, Grows
  <2> QED BY <1>3, <2>1, <2>2, ToldStays
<1>9. Told(q, s, W, V \o q.out, d, n)
  <2>1. p1.sender = "Idle" => Young(p1, W, V)
    BY <1>2, <1>4, <1>7, IdleYoung
  <2>2. Within(W, W, Acks)
    BY DEF Within
  <2> QED BY <1>2, <1>4, <1>6, <1>8, <2>1, <2>2, ToldLooped
<1>10. Told(s, q, V \o q.out, W, b, n)
  <2>1. q.out = <<>> \/ \E f \in Frame : f \in Carrying /\ q.out = <<f>>
    BY <1>4, <1>6, <1>7, LoopedHolds
  <2>2. q.out \in Seq(Frame) /\ \A i \in 1..Len(q.out) : q.out[i] \notin Acks
    BY <2>1, NoAcksWritten
  <2>3. Within(W, W, Carrying)
    BY DEF Within
  <2> QED BY <1>2, <1>3, <1>6, <2>2, <2>3, ToldOther
<1> HIDE DEF e
<1>11. /\ Told(q, ep[Peer(e)], Wire(e), Wire(Peer(e)) \o q.out, delivered[e], faults')
       /\ Told(ep[Peer(e)], q, Wire(Peer(e)) \o q.out, Wire(e), delivered[Peer(e)], faults')
  BY <1>5, <1>9, <1>10 DEF W, V, s, d, b, n
<1> QED BY <1>1, <1>5, <1>6, <1>11, ToldWritten

LEMMA TimeoutTold ==
    ASSUME Telling, NEW e \in End, ConfirmationTimeout(e)
    PROVE  ContentInv'
<1> DEFINE k == ep[e].timeouts + 1
           p == ep[e]
           q == IF k < TimeoutMax THEN ResendPayloadFrame([ep[e] EXCEPT !.timeouts = k])
                                  ELSE GiveUp([ep[e] EXCEPT !.timeouts = 0])
           W == Wire(e)
           V == Wire(Peer(e))
           s == ep[Peer(e)]
           d == delivered[e]
           b == delivered[Peer(e)]
           n == faults
<1>1. /\ p \in Endpoint /\ Ready(p) /\ Holds(p) /\ p.out = <<>> /\ Peer(e) \in End
      /\ s \in Endpoint /\ W \in Seq(Frame) /\ V \in Seq(Frame)
  BY FlowBefore DEF Telling
<1>2. /\ Told(p, s, W, V, d, n) /\ Told(s, p, V, W, b, n)
      /\ submitted[e] \in Seq(Msg) /\ Sends(p, submitted[e])
  BY TellBefore
<1>3. p.timer /\ Become(e, q, line) /\ rx' = rx /\ delivered' = delivered /\ faults' = faults
  BY DEF ConfirmationTimeout
<1>4. q \in Endpoint /\ SamePieces(p, q) /\ (Silent(p, q) \/ Resent(p, q))
  <2>1. k \in Int /\ 0 \in Int
    <3>1. p.timeouts \in Int
      BY <1>1 DEF Endpoint
    <3> QED BY <3>1
  <2> HIDE DEF k
  <2> QED BY <1>1, <1>2, <1>3, <2>1, TimeoutRepeats
<1> HIDE DEF q, p, W, V, s, d, b, n
<1>5. Told(q, s, W, V \o q.out, d, n)
  <2>1. Within(W, W, Acks)
    BY DEF Within
  <2> QED BY <1>1, <1>2, <1>4, <2>1, ToldRepeats
<1>6. Told(s, q, V \o q.out, W, b, n)
  <2>1. q.out = <<>> \/ \E f \in Frame : f \in Carrying /\ q.out = <<f>>
    BY <1>1, <1>4, MovesWrite DEF Moves
  <2>2. q.out \in Seq(Frame) /\ \A i \in 1..Len(q.out) : q.out[i] \notin Acks
    BY <2>1, NoAcksWritten
  <2>3. Within(W, W, Carrying)
    BY DEF Within
  <2> QED BY <1>1, <1>2, <1>4, <2>2, <2>3, ToldOther
<1>7. /\ Told(q, ep[Peer(e)], Wire(e), Wire(Peer(e)) \o q.out, delivered[e], faults')
      /\ Told(ep[Peer(e)], q, Wire(Peer(e)) \o q.out, Wire(e), delivered[Peer(e)], faults')
  BY <1>3, <1>5, <1>6 DEF W, V, s, d, b, n
<1> QED BY <1>3, <1>4, <1>7, ToldWritten

\* An end writes confirmations that acknowledge nothing, and has perhaps lost
\* a frame that it had to read.
LEMMA NaksTold ==
    ASSUME Telling, NEW e \in End, NEW o \in Seq(Frame), \A i \in 1..Len(o) : o[i] = Nak,
           NEW in \in [End -> Seq(Frame)], in[Peer(e)] = line[Peer(e)], rx' = rx, delivered' = delivered,
           Become(e, [ep[e] EXCEPT !.out = o], in), faults' = faults \/ faults' = faults + 1,
           \A F : Within(Wire(e)', Wire(e), F)
    PROVE  ContentInv'
<1> DEFINE p == ep[e]
           q == [p EXCEPT !.out = o]
           W == Wire(e)
           T == Wire(e)'
           V == Wire(Peer(e))
           s == ep[Peer(e)]
           d == delivered[e]
           b == delivered[Peer(e)]
           n == faults
           n2 == faults'
<1>1. /\ p \in Endpoint /\ s \in Endpoint /\ V \in Seq(Frame)
  BY FlowBefore DEF Telling
<1>2. Told(p, s, W, V, d, n) /\ Told(s, p, V, W, b, n) /\ n \in Nat
  BY TellBefore
<1>3. n2 = 0 => n = 0
  <2>1. faults \in Nat
    BY TellBefore
  <2> QED BY <2>1
<1>4. Become(e, q, in) /\ \A F : Within(T, W, F)
  OBVIOUS
<1>5. q \in Endpoint /\ Stays(p, q) /\ q.completed = p.completed /\ SamePieces(p, q) /\ q.out = o
  BY <1>1 DEF Endpoint, Stays, SamePieces
<1>6. \A i \in 1..Len(o) : o[i] \notin Acks /\ o[i] \notin Carrying
  BY NakIs DEF Carrying, Acks, Confirmation, IsPayload
<1> HIDE DEF q, p, W, V, s, d, b, n, n2, T
<1>7. Told(q, s, T, V \o q.out, d, n2)
  <2>1. Resends(V \o o, V, p)
    <3> SUFFICES ASSUME NEW k \in 1..Len(V \o o), (V \o o)[k] \in Carrying
                 PROVE  \E j \in 1..Len(V) : V[j] = (V \o o)[k]
      BY DEF Resends
    <3>1. (\E j \in 1..Len(V) : V[j] = (V \o o)[k]) \/ (\E j \in 1..Len(o) : o[j] = (V \o o)[k])
      BY <1>1, Wrote1
    <3> QED BY <1>6, <3>1
  <2>2. Grows(d, d)
    BY DEF Grows
  <2> QED BY <1>2, <1>3, <1>4, <1>5, <2>1, <2>2, ToldStays
<1>8. Told(s, q, V \o q.out, T, b, n2)
  BY <1>1, <1>2, <1>3, <1>4, <1>5, <1>6, ToldOther
<1>9. /\ Told(q, ep[Peer(e)], Wire(e)', Wire(Peer(e)) \o q.out, delivered[e], faults')
      /\ Told(ep[Peer(e)], q, Wire(Peer(e)) \o q.out, Wire(e)', b, faults')
      /\ delivered'[e] = delivered[e] /\ delivered'[Peer(e)] = b /\ rx'[Peer(e)] = rx[Peer(e)]
  BY <1>7, <1>8 DEF T, V, s, d, b, n2
<1> QED BY <1>4, <1>5, <1>9, ToldHandled

LEMMA FtoTold ==
    ASSUME Telling, NEW e \in End, FtoTimeout(e)
    PROVE  ContentInv'
<1>1. Nak \in Frame
  BY FramesMade
<1> DEFINE o == <<Nak>>
<1>2. o \in Seq(Frame) /\ \A i \in 1..Len(o) : o[i] = Nak
  BY <1>1
<1>3. /\ rx' = rx /\ delivered' = delivered /\ faults' = faults /\ Become(e, SendConfirmFrame(ep[e], Nak), line)
  BY DEF FtoTimeout
<1>4. ep[e].out = <<>> /\ ep[e] \in Endpoint /\ line \in [End -> Seq(Frame)] /\ LinkInv
  BY FlowBefore DEF Telling, Flowing, LinkInv, TypeOK
<1>5. SendConfirmFrame(ep[e], Nak) = [ep[e] EXCEPT !.out = o]
  <2>1. Append(<<>>, Nak) = <<Nak>>
    BY <1>1
  <2> QED BY <1>4, <2>1 DEF SendConfirmFrame
<1> HIDE DEF o
<1>6. [ep[e] EXCEPT !.out = o] \in Endpoint
  BY <1>2, <1>4 DEF Endpoint
<1> DEFINE q == [ep[e] EXCEPT !.out = o]
<1>7. q \in Endpoint /\ Become(e, q, line)
  BY <1>3, <1>5, <1>6
<1> HIDE DEF q
<1>8. line'[e] = line[e]
  BY <1>4, <1>7, Became
<1>9. \A F : Within(Wire(e)', Wire(e), F)
  <2>1. Wire(e)' = Wire(e)
    BY <1>3, <1>8 DEF Wire
  <2> QED BY <2>1 DEF Within
<1>10. Become(e, [ep[e] EXCEPT !.out = o], line) /\ line[Peer(e)] = line[Peer(e)]
  BY <1>7 DEF q
<1> QED BY <1>2, <1>3, <1>4, <1>9, <1>10, NaksTold

LEMMA LoseStartTold ==
    ASSUME Telling, NEW e \in End, LoseStart(e)
    PROVE  ContentInv'
<1> DEFINE o == [k \in 1..NfBurst |-> Nak]
           in == [line EXCEPT ![e] = Tail(@)]
           q == [ep[e] EXCEPT !.out = o]
<1>1. /\ rx[e] = None /\ line[e] # <<>> /\ rx' = rx /\ Become(e, q, in) /\ delivered' = delivered
      /\ faults' = faults + 1
  BY DEF LoseStart, Fault
<1>2. /\ Peer(e) \in End /\ Peer(e) # e /\ line \in [End -> Seq(Frame)] /\ NfBurst \in Nat /\ line[e] \in Seq(Frame)
      /\ ep[e] \in Endpoint /\ LinkInv
  BY FlowBefore DEF Telling, Flowing, LinkInv, TypeOK
<1>3. o \in Seq(Frame) /\ \A i \in 1..Len(o) : o[i] = Nak
  BY <1>2, FramesMade
<1>4. in \in [End -> Seq(Frame)] /\ in[Peer(e)] = line[Peer(e)] /\ in[e] = Tail(line[e])
  <2>1. in \in [End -> Seq(Frame)]
    BY <1>1, <1>2, TailsAreLines
  <2> QED BY <1>2, <2>1
<1> HIDE DEF in, o
<1>5. q \in Endpoint
  BY <1>2, <1>3 DEF Endpoint
<1> HIDE DEF q
<1>6. line'[e] = Tail(line[e])
  BY <1>1, <1>2, <1>4, <1>5, Became
<1>7. \A F : Within(Wire(e)', Wire(e), F)
  <2>1. Wire(e)' = Tail(line[e]) /\ Wire(e) = line[e]
    BY <1>1, <1>6 DEF Wire, WireOf
  <2> QED BY <1>1, <1>2, <2>1, TailWithin
<1>8. Become(e, [ep[e] EXCEPT !.out = o], in)
  BY <1>1 DEF q
<1> QED BY <1>1, <1>3, <1>4, <1>7, <1>8, NaksTold

\* What an end has still to read when it has read a frame.
LEMMA ReadWithin ==
    ASSUME Telling, NEW e \in End, rx[e] # None
    PROVE  /\ \A F : Within(line[e], Wire(e), F)
           /\ line[e] # <<>> => \A F : Within(Tail(line[e]), Wire(e), F)
<1>1. line[e] \in Seq(Frame) /\ rx[e] \in Frame /\ Wire(e) \in Seq(Frame)
  BY FlowBefore DEF Telling
<1>2. Wire(e) # <<>> /\ Tail(Wire(e)) = line[e]
  BY <1>1, WireReading DEF Wire
<1>3. \A F : Within(Tail(Wire(e)), Wire(e), F)
  BY <1>1, <1>2, TailWithin
<1>4. \A F : Within(line[e], Wire(e), F)
  BY <1>2, <1>3
<1>5. ASSUME line[e] # <<>>, NEW F PROVE Within(Tail(line[e]), Wire(e), F)
  <2>1. Within(line[e], Wire(e), F)
    BY <1>4
  <2> QED BY <1>1, <1>5, <2>1, TailWithin
<1> QED BY <1>4, <1>5

LEMMA PayloadTold ==
    ASSUME Telling, NEW e \in End, StopFrame(e), rx[e].good, rx[e].type = "payload"
    PROVE  ContentInv'
<1> DEFINE f == rx[e]
           p == ep[e]
           q == DigestPayload(p, f)
           c == Confirmation(TRUE, f.mid)
           W == Wire(e)
           V == Wire(Peer(e))
           L == line[e]
           a == Slack(e)
           x == Extra(e)
           s == ep[Peer(e)]
           d == delivered[e]
           b == delivered[Peer(e)]
           b2 == IF MessageFinished(q) /\ Emitted(q) # {} THEN Append(b, f.msg) ELSE b
           n == faults
<1>1. rx[e] # None /\ rx[e].stop /\ Digest(e, rx[e], line) /\ Flowing
  BY DEF StopFrame, Telling
<1>2. /\ p \in Endpoint /\ Holds(p) /\ p.out = <<>> /\ Peer(e) \in End /\ Peer(e) # e
      /\ s \in Endpoint /\ W \in Seq(Frame) /\ V \in Seq(Frame) /\ L \in Seq(Frame)
      /\ Flow(s, V, W, a, x) /\ a \in Nat /\ x \in Int /\ a + x < Modulus /\ line \in [End -> Seq(Frame)] /\ Holds(s)
  BY <1>1, FlowBefore DEF Flowing, LinkInv, TypeOK, FramedInv, Lines
<1>3. /\ Told(p, s, W, V, d, n) /\ Told(s, p, V, W, b, n)
      /\ d \in Seq(Msg) /\ b \in Seq(Msg) /\ delivered \in [End -> Seq(Msg)]
  BY TellBefore
<1>4. /\ f \in Frame /\ W # <<>> /\ W[1] = f /\ Tail(W) = L
      /\ f \in Carrying /\ f \notin Confirming
      /\ Flow(p, L, V, a, x)
  <2>1. rx[e] \in Frame
    BY <1>1, FlowReading
  <2>2. rx[e] \in Carrying /\ rx[e] \notin Confirming
    BY <2>1 DEF Carrying, Confirming, IsPayload
  <2> QED BY <1>1, <2>2, FlowReading
<1>5. /\ rx'[e] = None /\ rx'[Peer(e)] = rx[Peer(e)] /\ Become(e, q, line) /\ faults' = faults
      /\ delivered' = IF MessageFinished(q) /\ Emitted(q) # {}
                        THEN [delivered EXCEPT ![Peer(e)] = Append(@, CHOOSE m \in Emitted(q) : TRUE)]
                        ELSE delivered
  <2>1. rx'[e] = None /\ rx'[Peer(e)] = rx[Peer(e)] /\ faults' = faults
    BY <1>1, DigestEnds
  <2> QED BY <1>1, <2>1 DEF Digest
<1>6. c \in Frame /\ c \notin Carrying /\ c.mid = f.mid
  <2>1. f.mid \in 0..Modulus-1
    BY <1>4, FrameFields
  <2>2. c \in Frame /\ ~IsPayload(c)
    BY <2>1, ConfirmationsNoPayload
  <2> QED BY <2>2 DEF Carrying, Confirmation
<1>7. IsPayload(f) /\ Digested(p, q, c) /\ q \in Endpoint
  <2>1. IsPayload(f)
    BY <1>4 DEF Carrying
  <2>2. Digested(p, q, c)
    BY <1>2, <1>4, <2>1, PayloadDigested
  <2> QED BY <2>1, <2>2 DEF Digested
<1>8. Wire(e)' = L
  <2>1. line'[e] = line[e]
    BY <1>2, <1>5, <1>7, Became DEF Telling, Flowing
  <2> QED BY <1>5, <2>1 DEF Wire, WireOf
<1>9. delivered'[Peer(e)] = b2 /\ delivered'[e] = d
  <2>1. CASE MessageFinished(q) /\ Emitted(q) # {}
    <3> DEFINE m == CHOOSE y \in Emitted(q) : TRUE
    <3>1. m \in Emitted(q)
      BY <2>1
    <3>2. m = f.msg
      BY <1>2, <1>4, <1>7, <3>1, EmittedIsDigested
    <3>3. delivered' = [delivered EXCEPT ![Peer(e)] = Append(b, m)]
      BY <1>5, <2>1
    <3> HIDE DEF m, q
    <3> QED BY <1>2, <1>3, <2>1, <3>2, <3>3
  <2>2. CASE ~(MessageFinished(q) /\ Emitted(q) # {})
    <3>1. delivered' = delivered /\ b2 = b
      BY <1>5, <2>2
    <3> HIDE DEF b2
    <3> QED BY <3>1
  <2> QED BY <2>1, <2>2
<1>10. Pushed(p, f, q) /\ Delivers(q, f, b, b2)
  <2>1. Delivers(q, f, b, b2)
    BY DEF Delivers
  <2>2. q.pieces = PushFrame(p, f).pieces /\ q.expected = PushFrame(p, f).expected
    BY <1>2, <1>4, <1>7, DigestPieces
  <2> HIDE DEF q
  <2>3. Pushed(p, f, q)
    BY <1>2, <1>4, <1>7, <2>2, PushFields DEF Pushed
  <2> QED BY <2>1, <2>3
<1> HIDE DEF q, c, p, W, V, L, a, x, s, f, d, b, b2, n
<1>11. Told(q, s, L, V \o q.out, d, n)
  <2>1. p.sender = "Idle" => Young(p, L, V)
    BY <1>2, <1>4, IdleYoung
  <2>2. Within(L, W, Acks)
    BY <1>1, ReadWithin DEF L, W
  <2> QED BY <1>2, <1>3, <1>6, <1>7, <2>1, <2>2, ToldDigested
<1>12. Told(s, q, V \o q.out, L, b2, n)
  <2> DEFINE B == V \o q.out
  <2>1. PICK t : Looped(p, t) /\ Twin(t, q) /\ q.out = t.out \o <<c>>
    BY <1>7 DEF Digested
  <2>2. t.out \in Seq(Frame) /\ \A i \in 1..Len(t.out) : t.out[i] \notin Acks
    <3>1. t.out = <<>> \/ \E g \in Frame : g \in Carrying /\ t.out = <<g>>
      BY <1>2, <2>1, LoopedHolds
    <3> QED BY <3>1, NoAcksWritten
  <2>3. q.out \in Seq(Frame)
    BY <1>7 DEF Endpoint
  <2>4. \A k \in 1..Len(q.out) : q.out[k] \in Acks => q.out[k].mid = f.mid
    <3> DEFINE o == <<c>>
    <3>1. o \in Seq(Frame) /\ Len(o) = 1 /\ o[1] = c /\ q.out = t.out \o o
      BY <1>6, <2>1
    <3> HIDE DEF o
    <3>2. \A k \in 1..Len(t.out \o o) :
              (\E j \in 1..Len(t.out) : t.out[j] = (t.out \o o)[k]) \/ (\E j \in 1..Len(o) : o[j] = (t.out \o o)[k])
      BY <2>2, <3>1, Wrote1
    <3>3. \A j \in 1..Len(o) : o[j].mid = f.mid
      BY <1>6, <3>1
    <3>4. ASSUME NEW k \in 1..Len(t.out \o o), (t.out \o o)[k] \in Acks
          PROVE  (t.out \o o)[k].mid = f.mid
      <4>1. \/ \E j \in 1..Len(t.out) : t.out[j] = (t.out \o o)[k]
            \/ \E j \in 1..Len(o) : o[j] = (t.out \o o)[k]
        BY <3>2
      <4>2. CASE \E j \in 1..Len(t.out) : t.out[j] = (t.out \o o)[k]
        BY <2>2, <3>4, <4>2
      <4>3. CASE \E j \in 1..Len(o) : o[j] = (t.out \o o)[k]
        BY <3>3, <4>3
      <4> QED BY <4>1, <4>2, <4>3
    <3> QED BY <3>1, <3>4
  <2>5. \A k \in 1..Len(B) : B[k] \in Acks => (\E j \in 1..Len(V) : V[j] = B[k]) \/ B[k].mid = f.mid
    <3>1. \A k \in 1..Len(V \o q.out) :
              (\E j \in 1..Len(V) : V[j] = (V \o q.out)[k]) \/ (\E j \in 1..Len(q.out) : q.out[j] = (V \o q.out)[k])
      BY <1>2, <2>3, Wrote1
    <3> QED BY <2>4, <3>1
  <2>6. Pipe(s.mid, s.sent, V, W, a)
    BY <1>2 DEF Flow
  <2>7. W[1] \in Carrying /\ Pushed(p, W[1], q) /\ Delivers(q, W[1], b, b2)
    BY <1>4, <1>10
  <2>8. \A k \in 1..Len(B) : B[k] \in Acks => (\E j \in 1..Len(V) : V[j] = B[k]) \/ B[k].mid = W[1].mid
    BY <1>4, <2>5
  <2> HIDE DEF B
  <2>9. Told(s, q, B, Tail(W), b2, n)
    BY <1>2, <1>3, <1>4, <2>6, <2>7, <2>8, ToldPassed
  <2> QED BY <1>4, <2>9 DEF B
<1>13. /\ Told(q, ep[Peer(e)], Wire(e)', Wire(Peer(e)) \o q.out, delivered[e], faults')
       /\ Told(ep[Peer(e)], q, Wire(Peer(e)) \o q.out, Wire(e)', b2, faults')
       /\ delivered'[e] = delivered[e]
  BY <1>5, <1>8, <1>9, <1>11, <1>12 DEF V, s, d, n
<1>14. line[Peer(e)] = line[Peer(e)]
  OBVIOUS
<1> QED BY <1>2, <1>5, <1>7, <1>9, <1>13, <1>14, ToldHandled

LEMMA ConfirmationTold ==
    ASSUME Telling, NEW e \in End, StopFrame(e), rx[e].good, rx[e].type = "confirmation"
    PROVE  ContentInv'
<1> DEFINE f == rx[e]
           p == ep[e]
           q == DigestConfirmation(p, f)
           W == Wire(e)
           V == Wire(Peer(e))
           L == line[e]
           a == Slack(e)
           x == Extra(e)
           s == ep[Peer(e)]
           d == delivered[e]
           b == delivered[Peer(e)]
           n == faults
<1>1. rx[e] # None /\ rx[e].stop /\ Digest(e, rx[e], line) /\ Flowing
  BY DEF StopFrame, Telling
<1>2. /\ p \in Endpoint /\ Ready(p) /\ Holds(p) /\ p.out = <<>> /\ Peer(e) \in End
      /\ s \in Endpoint /\ W \in Seq(Frame) /\ V \in Seq(Frame) /\ L \in Seq(Frame)
      /\ Flow(p, W, V, a, x) /\ a \in Nat /\ x \in Int /\ a + x < Modulus /\ line \in [End -> Seq(Frame)]
  BY <1>1, FlowBefore DEF Flowing, LinkInv, TypeOK
<1>3. /\ Told(p, s, W, V, d, n) /\ Told(s, p, V, W, b, n)
      /\ submitted[e] \in Seq(Msg) /\ Sends(p, submitted[e])
  BY TellBefore
<1>4. /\ f \in Frame /\ f \in Confirming /\ W # <<>> /\ W[1] = f
      /\ Flow(p, L, V, a, x - 1)
  <2>1. rx[e] \in Frame
    BY <1>1, FlowReading
  <2>2. rx[e] \in Confirming
    BY <2>1 DEF Confirming
  <2> QED BY <1>1, <2>1, <2>2, FlowReading
<1>5. /\ rx'[e] = None /\ rx'[Peer(e)] = rx[Peer(e)] /\ Become(e, q, line) /\ faults' = faults /\ delivered' = delivered
  <2>1. rx'[e] = None /\ rx'[Peer(e)] = rx[Peer(e)] /\ faults' = faults
    BY <1>1, DigestEnds
  <2> QED BY <1>1, <2>1 DEF Digest
<1>6. /\ q \in Endpoint
      /\ \/ p.sender = "WaitForAck" /\ p.sent # None /\ f.ack /\ f.mid = p.mid /\ Confirmed(p, q)
         \/ p.sender = "WaitForAck" /\ Moves(p, q)
         \/ p.sender = "Idle" /\ Looped(p, q)
  <2>1. f.type = "confirmation"
    OBVIOUS
  <2> HIDE DEF f, p
  <2> QED BY <1>2, <1>4, <2>1, ConfirmationDigested
<1>7. SamePieces(p, q)
  BY <1>2, <1>3, <1>4, ConfirmationKeepsPieces
<1>8. Wire(e)' = L
  <2>1. line'[e] = line[e]
    BY <1>2, <1>5, <1>6, Became DEF Telling, Flowing
  <2> QED BY <1>5, <2>1 DEF Wire, WireOf
<1> HIDE DEF q, p, W, V, L, a, x, s, f, d, b, n
<1>9. \A F : Within(L, W, F)
  BY <1>1, ReadWithin DEF L, W
<1>10. Flow(p, L, V, a, x)
  <2>1. x - 1 \in Int /\ x - 1 <= x /\ a \in Int /\ a <= a
    BY <1>2
  <2> DEFINE y == x - 1
  <2>2. y \in Int /\ y <= x /\ Flow(p, L, V, a, y)
    BY <1>4, <2>1
  <2> HIDE DEF y
  <2> QED BY <1>2, <2>1, <2>2, FlowLoses
<1>11. OnWay(L, V) <= x
  <2>1. OnWay(L, V) <= x - 1 + Waits(p) /\ Waits(p) \in 0..1 /\ OnWay(L, V) \in Nat
    BY <1>2, <1>4, FlowTypes DEF Flow
  <2> QED BY <1>2, <2>1
<1>12. Young(p, L, V)
  BY <1>2, <1>10, <1>11, FlowYoung
<1>13. Told(q, s, L, V \o q.out, d, n) /\ (q.out = <<>> \/ \E g \in Frame : g \in Carrying /\ q.out = <<g>>)
  <2>1. CASE p.sent # None /\ f.ack /\ f.mid = p.mid /\ Confirmed(p, q)
    <3>1. W[1] \in Acks /\ W[1].mid = p.mid
      BY <1>4, <2>1 DEF Acks
    <3>2. Pipe(p.mid, p.sent, W, V, a)
      BY <1>2 DEF Flow
    <3>3. Told(q, s, L, V \o q.out, d, n)
      BY <1>2, <1>3, <1>4, <1>9, <1>12, <2>1, <3>1, <3>2, ToldConfirmed
    <3> QED BY <1>2, <2>1, <3>3, MovesWrite
  <2>2. CASE Moves(p, q)
    <3>1. Told(q, s, L, V \o q.out, d, n)
      BY <1>2, <1>3, <1>9, <1>12, <2>2, ToldMoves
    <3> QED BY <1>2, <2>2, <3>1, MovesWrite
  <2>3. CASE Looped(p, q)
    <3>1. Told(q, s, L, V \o q.out, d, n)
      BY <1>2, <1>3, <1>9, <1>12, <2>3, ToldLooped
    <3> QED BY <1>2, <2>3, <3>1, LoopedHolds
  <2> QED BY <1>6, <2>1, <2>2, <2>3
<1>14. Told(s, q, V \o q.out, L, b, n)
  <2>1. q.out \in Seq(Frame) /\ \A i \in 1..Len(q.out) : q.out[i] \notin Acks
    BY <1>13, NoAcksWritten
  <2> QED BY <1>2, <1>3, <1>7, <1>9, <2>1, ToldOther
<1>15. /\ Told(q, ep[Peer(e)], Wire(e)', Wire(Peer(e)) \o q.out, delivered[e], faults')
       /\ Told(ep[Peer(e)], q, Wire(Peer(e)) \o q.out, Wire(e)', b, faults')
       /\ delivered'[e] = delivered[e] /\ delivered'[Peer(e)] = b
  BY <1>5, <1>8, <1>13, <1>14 DEF V, s, d, n, b
<1>16. line[Peer(e)] = line[Peer(e)]
  OBVIOUS
<1> QED BY <1>2, <1>5, <1>6, <1>15, <1>16, ToldHandled

LEMMA StartFrameTold ==
    ASSUME Telling, NEW e \in End, StartFrame(e)
    PROVE  ContentInv'
<1>1. /\ Peer(e) \in End /\ Peer(e) # e /\ line[e] \in Seq(Frame)
      /\ rx[e] = None /\ line[e] # <<>> /\ ep' = ep /\ faults' = faults /\ delivered' = delivered
      /\ rx' = [rx EXCEPT ![e] = Head(line[e])] /\ line' = [line EXCEPT ![e] = Tail(@)]
      /\ Clean(line[e])
  BY FlowBefore DEF Telling, StartFrame
<1>2. rx \in [End -> Frame \cup {None}] /\ line \in [End -> Seq(Frame)]
  BY DEF Telling, Flowing, LinkInv, TypeOK
<1>3. /\ rx'[e] = Head(line[e]) /\ line'[e] = Tail(line[e]) /\ rx'[Peer(e)] = rx[Peer(e)]
      /\ line'[Peer(e)] = line[Peer(e)]
  BY <1>1, <1>2
<1>4. WireOf(Head(line[e]), Tail(line[e])) = line[e]
  BY <1>1, WireStarted
<1>5. Wire(e)' = Wire(e) /\ Wire(Peer(e))' = Wire(Peer(e))
  <2>1. Wire(e)' = WireOf(Head(line[e]), Tail(line[e]))
    BY <1>3 DEF Wire
  <2>2. Wire(e) = line[e]
    BY <1>1 DEF Wire, WireOf
  <2>3. Wire(Peer(e))' = Wire(Peer(e))
    BY <1>3 DEF Wire
  <2> QED BY <1>4, <2>1, <2>2, <2>3
<1>6. /\ Told(ep[e], ep[Peer(e)], Wire(e), Wire(Peer(e)), delivered[e], faults)
      /\ Told(ep[Peer(e)], ep[e], Wire(Peer(e)), Wire(e), delivered[Peer(e)], faults)
  BY TellBefore
<1>7. /\ Told(ep'[e], ep'[Peer(e)], Wire(e)', Wire(Peer(e))', delivered'[e], faults')
      /\ Told(ep'[Peer(e)], ep'[e], Wire(Peer(e))', Wire(e)', delivered'[Peer(e)], faults')
  BY <1>1, <1>5, <1>6
<1> QED BY <1>7, TellBoth

\* A damaged frame has been read.
LEMMA WrongTold ==
    ASSUME Telling, NEW e \in End, faults # 0, NEW in \in [End -> Seq(Frame)], in[Peer(e)] = line[Peer(e)],
           rx'[Peer(e)] = rx[Peer(e)], delivered' = delivered, faults' = faults,
           Become(e, DigestWrongCrc(ep[e]), in) \/ Become(e, ep[e], in),
           Wire(e)' \in Seq(Frame), \A F : Within(Wire(e)', Wire(e), F),
           NEW a \in Nat, NEW x \in Int, a + x < Modulus, Flow(ep[e], Wire(e)', Wire(Peer(e)), a, x)
    PROVE  ContentInv'
<1> DEFINE p == ep[e]
           q == DigestWrongCrc(p)
           W == Wire(e)
           T == Wire(e)'
           V == Wire(Peer(e))
           s == ep[Peer(e)]
           d == delivered[e]
           b == delivered[Peer(e)]
           n == faults
<1>1. /\ p \in Endpoint /\ p.out = <<>> /\ s \in Endpoint /\ V \in Seq(Frame) /\ W \in Seq(Frame) /\ Holds(p)
  BY FlowBefore DEF Telling
<1>2. Told(p, s, W, V, d, n) /\ Told(s, p, V, W, b, n) /\ n # 0
  BY TellBefore
<1>3. /\ Become(e, q, in) \/ Become(e, p, in)
      /\ T \in Seq(Frame) /\ \A F : Within(T, W, F)
      /\ Flow(p, T, V, a, x)
  OBVIOUS
<1>4. Digested(p, q, Nak) /\ q \in Endpoint
  BY <1>1, WrongDigested DEF Digested
<1>5. Nak \in Frame /\ Nak \notin Carrying /\ Nak \notin Acks
  BY ConfirmationsNoPayload, NakIs, FramesMade DEF Carrying, Acks, Confirmation
<1>6. ASSUME NEW y \in Endpoint, Become(e, y, in), Told(y, s, T, V \o y.out, d, n), Told(s, y, V \o y.out, T, b, n)
      PROVE  ContentInv'
  <2>1. /\ Told(y, ep[Peer(e)], Wire(e)', Wire(Peer(e)) \o y.out, delivered[e], faults')
        /\ Told(ep[Peer(e)], y, Wire(Peer(e)) \o y.out, Wire(e)', b, faults')
        /\ delivered'[e] = delivered[e] /\ delivered'[Peer(e)] = b
    BY <1>6
  <2> HIDE DEF b
  <2> QED BY <1>6, <2>1, ToldHandled
<1> HIDE DEF q, p, W, V, s, d, b, n, T
<1>7. Told(q, s, T, V \o q.out, d, n)
  <2>1. p.sender = "Idle" => Young(p, T, V)
    BY <1>1, <1>3, IdleYoung
  <2> QED BY <1>1, <1>2, <1>3, <1>4, <1>5, <2>1, ToldDigested
<1>8. Told(s, q, V \o q.out, T, b, n)
  <2>1. PICK t : Looped(p, t) /\ Twin(t, q) /\ q.out = t.out \o <<Nak>>
    BY <1>4 DEF Digested
  <2>2. t.out \in Seq(Frame) /\ \A i \in 1..Len(t.out) : t.out[i] \notin Acks
    <3>1. t.out = <<>> \/ \E g \in Frame : g \in Carrying /\ t.out = <<g>>
      BY <1>1, <2>1, LoopedHolds
    <3> QED BY <3>1, NoAcksWritten
  <2> DEFINE o == <<Nak>>
  <2>3. o \in Seq(Frame) /\ Len(o) = 1 /\ o[1] = Nak /\ q.out = t.out \o o
    BY <1>5, <2>1
  <2> HIDE DEF o
  <2>4. q.out \in Seq(Frame)
    BY <1>4 DEF Endpoint
  <2>5. \A i \in 1..Len(q.out) : q.out[i] \notin Acks
    <3>1. \A k \in 1..Len(t.out \o o) :
              (\E j \in 1..Len(t.out) : t.out[j] = (t.out \o o)[k]) \/ (\E j \in 1..Len(o) : o[j] = (t.out \o o)[k])
      BY <2>2, <2>3, Wrote1
    <3>2. \A j \in 1..Len(o) : o[j] \notin Acks
      BY <1>5, <2>3
    <3> QED BY <2>2, <2>3, <3>1, <3>2
  <2> QED BY <1>1, <1>2, <1>3, <2>4, <2>5, ToldOther
<1>9. Told(p, s, T, V \o p.out, d, n) /\ Told(s, p, V \o p.out, T, b, n)
  <2>1. V \o p.out = V
    BY <1>1
  <2>2. Stays(p, p) /\ Resends(V, V, p) /\ Grows(d, d) /\ Stays(s, s) /\ Grows(b, b) /\ Within(V, V, Acks)
    BY DEF Stays, Resends, Grows, Within
  <2>3. Resends(T, W, s)
    BY <1>3 DEF Resends, Within
  <2>4. Told(p, s, T, V, d, n)
    BY <1>2, <1>3, <2>2, ToldStays
  <2>5. Told(s, p, V, T, b, n)
    BY <1>2, <1>3, <2>2, <2>3, ToldStays
  <2> QED BY <2>1, <2>4, <2>5
<1> QED BY <1>1, <1>3, <1>4, <1>6, <1>7, <1>8, <1>9

LEMMA StopWrongTold ==
    ASSUME Telling, NEW e \in End, StopFrame(e), ~rx[e].good
    PROVE  ContentInv'
<1>1. rx[e] # None /\ rx[e].stop /\ Digest(e, rx[e], line) /\ Flowing
  BY DEF StopFrame, Telling
<1>2. /\ Peer(e) \in End /\ line \in [End -> Seq(Frame)] /\ line[e] \in Seq(Frame)
      /\ ep[e] \in Endpoint /\ ep[e].out = <<>> /\ Reads(e)
      /\ Slack(e) \in Nat /\ Extra(e) \in Int /\ Slack(e) + Extra(e) < Modulus
  BY <1>1, FlowBefore DEF Flowing, LinkInv, TypeOK
<1>3. faults # 0
  BY <1>1, <1>2 DEF Reads
<1>4. Flow(ep[e], line[e], Wire(Peer(e)), Slack(e), Extra(e))
  <2>1. rx[e] \notin Confirming
    BY DEF Confirming
  <2> QED BY <1>1, <2>1, FlowReading
<1>5. /\ rx'[e] = None /\ rx'[Peer(e)] = rx[Peer(e)] /\ faults' = faults /\ delivered' = delivered
      /\ Become(e, DigestWrongCrc(ep[e]), line) \/ Become(e, ep[e], line)
  BY <1>1, DigestEnds DEF Digest
<1>6. Wire(e)' = line[e]
  <2>1. DigestWrongCrc(ep[e]) \in Endpoint
    BY <1>2, WrongDigested DEF Digested
  <2>2. line'[e] = line[e]
    BY <1>1, <1>2, <1>5, <2>1, Became DEF Flowing
  <2> QED BY <1>5, <2>2 DEF Wire, WireOf
<1>7. \A F : Within(Wire(e)', Wire(e), F)
  BY <1>1, <1>6, ReadWithin
<1>8. Wire(e)' \in Seq(Frame) /\ Flow(ep[e], Wire(e)', Wire(Peer(e)), Slack(e), Extra(e)) /\ line[Peer(e)] = line[Peer(e)]
  BY <1>2, <1>4, <1>6
<1> QED BY <1>2, <1>3, <1>5, <1>7, <1>8, WrongTold

LEMMA MergedTold ==
    ASSUME Telling, NEW e \in End, StopMergedFrame(e)
    PROVE  ContentInv'
<1> DEFINE in == [line EXCEPT ![e] = Tail(@)]
<1>1. rx[e] # None /\ ~rx[e].stop /\ line[e] # <<>> /\ Digest(e, rx[e], in) /\ Flowing
  BY DEF StopMergedFrame, Telling
<1>2. /\ Peer(e) \in End /\ Peer(e) # e /\ line \in [End -> Seq(Frame)] /\ line[e] \in Seq(Frame)
      /\ ep[e] \in Endpoint /\ ep[e].out = <<>> /\ Reads(e) /\ Wire(Peer(e)) \in Seq(Frame)
      /\ Slack(e) \in Nat /\ Extra(e) \in Int /\ Slack(e) + Extra(e) < Modulus
  BY <1>1, FlowBefore DEF Flowing, LinkInv, TypeOK
<1>3. faults # 0 /\ ~rx[e].good
  BY <1>1, <1>2 DEF Reads
<1>4. Flow(ep[e], line[e], Wire(Peer(e)), Slack(e), Extra(e))
  <2>1. rx[e] \notin Confirming
    BY <1>3 DEF Confirming
  <2> QED BY <1>1, <2>1, FlowReading
<1>5. /\ rx'[e] = None /\ rx'[Peer(e)] = rx[Peer(e)] /\ faults' = faults /\ delivered' = delivered
      /\ Become(e, DigestWrongCrc(ep[e]), in) \/ Become(e, ep[e], in)
  BY <1>1, <1>3, DigestEnds DEF Digest
<1>6. in \in [End -> Seq(Frame)] /\ in[Peer(e)] = line[Peer(e)] /\ in[e] = Tail(line[e])
  <2>1. in \in [End -> Seq(Frame)]
    BY <1>1, TailsAreLines DEF Flowing
  <2> QED BY <1>2, <2>1
<1> HIDE DEF in
<1>7. Wire(e)' = Tail(line[e])
  <2>1. DigestWrongCrc(ep[e]) \in Endpoint
    BY <1>2, WrongDigested DEF Digested
  <2>2. line'[e] = in[e]
    BY <1>1, <1>2, <1>5, <1>6, <2>1, Became DEF Flowing
  <2> QED BY <1>5, <1>6, <2>2 DEF Wire, WireOf
<1>8. \A F : Within(Wire(e)', Wire(e), F)
  BY <1>1, <1>7, ReadWithin
<1>9. Tail(line[e]) \in Seq(Frame) /\ Flow(ep[e], Tail(line[e]), Wire(Peer(e)), Slack(e), Extra(e))
  <2> DEFINE L == line[e]
             V == Wire(Peer(e))
             p == ep[e]
             a == Slack(e)
             x == Extra(e)
  <2>1. L \in Seq(Frame) /\ L # <<>> /\ V \in Seq(Frame) /\ p \in Endpoint /\ a \in Int /\ x \in Int /\ Flow(p, L, V, a, x)
    BY <1>1, <1>2, <1>4
  <2> HIDE DEF L, V, p, a, x
  <2>2. Tail(L) \in Seq(Frame) /\ Flow(p, Tail(L), V, a, x)
    BY <2>1, FlowRead
  <2> QED BY <2>2 DEF L, V, p, a, x
<1>10. Wire(e)' \in Seq(Frame) /\ Flow(ep[e], Wire(e)', Wire(Peer(e)), Slack(e), Extra(e))
  BY <1>7, <1>9
<1> QED BY <1>2, <1>3, <1>5, <1>6, <1>8, <1>10, WrongTold

\* A fault has changed what an end has to read.
LEMMA LostTold ==
    ASSUME Telling, NEW e \in End, ep' = ep, delivered' = delivered, faults' = faults + 1,
           Wire(Peer(e))' = Wire(Peer(e)), \A F \in {Acks, Carrying} : Within(Wire(e)', Wire(e), F)
    PROVE  ContentInv'
<1> DEFINE p == ep[e]
           s == ep[Peer(e)]
           T == Wire(e)'
           W == Wire(e)
           V == Wire(Peer(e))
           d == delivered[e]
           b == delivered[Peer(e)]
           n == faults
           n2 == faults'
<1>1. Told(p, s, W, V, d, n) /\ Told(s, p, V, W, b, n)
  BY TellBefore
<1>2. n2 = 0 => n = 0
  <2>1. faults \in Nat
    BY TellBefore
  <2> QED BY <2>1
<1>3. Within(T, W, Acks) /\ Within(T, W, Carrying)
  OBVIOUS
<1> HIDE DEF p, s, T, W, V, d, b, n, n2
<1>4. /\ Stays(p, p) /\ Stays(s, s) /\ Resends(V, V, p) /\ Grows(d, d) /\ Grows(b, b) /\ Within(V, V, Acks)
  BY DEF Stays, Resends, Grows, Within
<1>5. Resends(T, W, s)
  BY <1>3 DEF Resends, Within
<1>6. Told(p, s, T, V, d, n2)
  BY <1>1, <1>2, <1>3, <1>4, ToldStays
<1>7. Told(s, p, V, T, b, n2)
  BY <1>1, <1>2, <1>4, <1>5, ToldStays
<1>8. /\ Told(ep'[e], ep'[Peer(e)], Wire(e)', Wire(Peer(e))', delivered'[e], faults')
      /\ Told(ep'[Peer(e)], ep'[e], Wire(Peer(e))', Wire(e)', delivered'[Peer(e)], faults')
  BY <1>6, <1>7 DEF p, s, T, V, d, b, n2
<1> QED BY <1>8, TellBoth

LEMMA SpoiltTold ==
    ASSUME Telling, NEW e \in End, CorruptFrame(e) \/ LoseStop(e)
    PROVE  ContentInv'
<1> DEFINE f == rx[e]
           g == rx'[e]
           W == Wire(e)
           X == Wire(e)'
           L == line[e]
<1>1. /\ Peer(e) \in End /\ Peer(e) # e /\ L \in Seq(Frame) /\ rx \in [End -> Frame \cup {None}]
  BY FlowBefore DEF Telling, Flowing, LinkInv, TypeOK
<1>2. /\ f # None /\ f \in Frame /\ ep' = ep /\ line' = line /\ faults' = faults + 1 /\ delivered' = delivered
      /\ rx' = [rx EXCEPT ![e] = [f EXCEPT !.good = FALSE]] \/ rx' = [rx EXCEPT ![e] = [f EXCEPT !.good = FALSE, !.stop = FALSE]]
  BY <1>1 DEF CorruptFrame, LoseStop, Fault
<1>3. g \in Frame /\ ~g.good /\ rx'[Peer(e)] = rx[Peer(e)]
  <2>1. [f EXCEPT !.good = FALSE] \in Frame /\ [f EXCEPT !.good = FALSE, !.stop = FALSE] \in Frame
    BY <1>2, FrameFields
  <2>2. ~[f EXCEPT !.good = FALSE].good /\ ~[f EXCEPT !.good = FALSE, !.stop = FALSE].good
    BY <1>2 DEF Frame
  <2>3. g = [f EXCEPT !.good = FALSE] \/ g = [f EXCEPT !.good = FALSE, !.stop = FALSE]
    BY <1>1, <1>2
  <2>4. rx'[Peer(e)] = rx[Peer(e)]
    BY <1>1, <1>2
  <2> HIDE DEF f, g
  <2> QED BY <2>1, <2>2, <2>3, <2>4
<1>4. X = WireOf(g, L) /\ W = WireOf(f, L) /\ Wire(Peer(e))' = Wire(Peer(e))
  BY <1>2, <1>3 DEF Wire
<1> HIDE DEF f, g, W, X, L
<1>5. /\ Len(X) = Len(L) + 1 /\ X[1] = g /\ \A i \in 1..Len(L) : X[i + 1] = L[i]
      /\ Len(W) = Len(L) + 1 /\ \A i \in 1..Len(L) : W[i + 1] = L[i]
  <2>1. g \in Frame /\ L \in Seq(Frame) /\ f \in Frame
    BY <1>1, <1>2, <1>3
  <2>2. WireOf(g, L)[1] = g /\ Len(WireOf(g, L)) = Len(L) + 1 /\ \A i \in 1..Len(L) : WireOf(g, L)[i + 1] = L[i]
    BY <2>1, WireReading
  <2>3. Len(WireOf(f, L)) = Len(L) + 1 /\ \A i \in 1..Len(L) : WireOf(f, L)[i + 1] = L[i]
    BY <2>1, WireReading
  <2> QED BY <1>4, <2>2, <2>3
<1>6. g \notin Acks /\ g \notin Carrying
  BY <1>3 DEF Acks, Confirming, Carrying
<1>7. ASSUME NEW F, g \notin F PROVE Within(X, W, F)
  <2> SUFFICES ASSUME NEW k \in 1..Len(X), X[k] \in F PROVE \E j \in 1..Len(W) : W[j] = X[k]
    BY DEF Within
  <2>1. k # 1
    BY <1>5, <1>7
  <2>2. k - 1 \in 1..Len(L) /\ (k - 1) + 1 = k /\ k \in 1..Len(W)
    BY <1>1, <1>5, <2>1
  <2>3. W[k] = X[k]
    BY <1>5, <2>2
  <2> QED BY <2>2, <2>3
<1>8. \A F \in {Acks, Carrying} : Within(Wire(e)', Wire(e), F)
  BY <1>6, <1>7 DEF X, W
<1> QED BY <1>2, <1>4, <1>8, LostTold

LEMMA LoseFrameTold ==
    ASSUME Telling, NEW e \in End, LoseFrame(e)
    PROVE  ContentInv'
<1>1. /\ rx[e] = None /\ line[e] # <<>> /\ rx' = rx /\ line' = [line EXCEPT ![e] = Tail(@)] /\ ep' = ep
      /\ faults' = faults + 1 /\ delivered' = delivered
  BY DEF LoseFrame, Fault
<1>2. /\ Peer(e) \in End /\ Peer(e) # e /\ line \in [End -> Seq(Frame)] /\ line[e] \in Seq(Frame)
  BY FlowBefore DEF Telling, Flowing, LinkInv, TypeOK
<1>3. line'[e] = Tail(line[e]) /\ line'[Peer(e)] = line[Peer(e)]
  BY <1>1, <1>2
<1>4. Wire(e)' = Tail(line[e]) /\ Wire(e) = line[e] /\ Wire(Peer(e))' = Wire(Peer(e))
  BY <1>1, <1>3 DEF Wire, WireOf
<1>5. \A F \in {Acks, Carrying} : Within(Wire(e)', Wire(e), F)
  BY <1>1, <1>2, <1>4, TailWithin
<1> QED BY <1>1, <1>4, <1>5, LostTold

LEMMA ContentStep == LinkInv /\ OrderInv /\ FramedInv /\ FlowInv /\ ContentInv /\ [Next]_vars => ContentInv'
<1> SUFFICES ASSUME LinkInv, OrderInv, FramedInv, FlowInv, ContentInv, [Next]_vars, FewDisturbances' PROVE ContentInv'
  BY DEF ContentInv
<1>1. LinkInv' /\ FramedInv' /\ FlowInv' /\ FewDisturbances
  BY LinkStep, FramedStep, FlowStep, FewBefore
<1>2. Telling
  BY <1>1 DEF Telling, Flowing, ContentInv
<1>3. ASSUME NEW m \in Msg, SendMessage(m) PROVE ContentInv'
  BY <1>2, <1>3, SendMessageTold
<1>4. ASSUME NEW e \in End, StartFrame(e) PROVE ContentInv'
  BY <1>2, <1>4, StartFrameTold
<1>5. ASSUME NEW e \in End, StopFrame(e) PROVE ContentInv'
  <2>1. rx[e] # None /\ rx[e] \in Frame
    BY <1>2, <1>5, FlowBefore DEF StopFrame, Telling
  <2>2. rx[e].type = "payload" \/ rx[e].type = "confirmation"
    BY <2>1 DEF Frame
  <2> QED BY <1>2, <1>5, <2>2, PayloadTold, ConfirmationTold, StopWrongTold
<1>6. ASSUME NEW e \in End, StopMergedFrame(e) PROVE ContentInv'
  BY <1>2, <1>6, MergedTold
<1>7. ASSUME NEW e \in End, ConfirmationTimeout(e) PROVE ContentInv'
  BY <1>2, <1>7, TimeoutTold
<1>8. ASSUME NEW e \in End, FtoTimeout(e) PROVE ContentInv'
  BY <1>2, <1>8, FtoTold
<1>9. ASSUME NEW e \in End, CorruptFrame(e) \/ LoseStop(e) PROVE ContentInv'
  BY <1>2, <1>9, SpoiltTold
<1>10. ASSUME NEW e \in End, LoseStart(e) PROVE ContentInv'
  BY <1>2, <1>10, LoseStartTold
<1>11. ASSUME NEW e \in End, LoseFrame(e) PROVE ContentInv'
  BY <1>2, <1>11, LoseFrameTold
<1>12. ASSUME NEW e \in End, StopListening(e) PROVE ContentInv'
  <2>1. listening \in [End -> BOOLEAN] /\ listening' = [listening EXCEPT ![e] = FALSE]
    BY <1>12 DEF StopListening, LinkInv, TypeOK
  <2>2. ~listening'[e]
    BY <2>1
  <2> QED BY <2>2 DEF FewDisturbances
<1>13. CASE UNCHANGED vars
  BY <1>13 DEF vars, ContentInv, FewDisturbances, ToldTo, Wire
<1> QED BY <1>3, <1>4, <1>5, <1>6, <1>7, <1>8, <1>9, <1>10, <1>11, <1>12, <1>13 DEF Next

LEMMA ContentInvariant == Spec => [](LinkInv /\ OrderInv /\ FramedInv /\ FlowInv /\ ContentInv)
<1> DEFINE I == LinkInv /\ OrderInv /\ FramedInv /\ FlowInv /\ ContentInv
<1>1. Init => I
  BY LinkInit, OrderInit, FramedInit, FlowInit, ContentInit
<1>2. I /\ [Next]_vars => I'
  BY LinkStep, OrderStep, FramedStep, FlowStep, ContentStep
<1> QED BY <1>1, <1>2, PTL DEF Spec

(* What is left of it on a line that does misbehave: as long as both ends    *)
(* listen and it has misbehaved less often than there are mids, so that none *)
(* comes round while a frame with it is on the line, a completed message of  *)
(* one frame was given to the peer's user whatever was lost, damaged or      *)
(* late, and one of two frames if confirmations were only late.              *)
THEOREM ShortIsDelivered == Spec => [](FewDisturbances => ShortCompletedWasDelivered)
<1>1. ContentInv => (FewDisturbances => ShortCompletedWasDelivered)
  <2> SUFFICES ASSUME ContentInv, FewDisturbances, NEW m \in Msg, m \in ep[From[m]].completed,
                      Frames[m] = 1 \/ (Frames[m] = 2 /\ faults = 0)
               PROVE  IsDelivered(m)
    BY DEF ShortCompletedWasDelivered
  <2> DEFINE e == From[m]
  <2>1. e \in End
    BY LinkAssumption
  <2>2. AllTold(ep[e], delivered[e], faults)
    BY <2>1 DEF ContentInv, ToldTo, Told
  <2>3. Has(delivered[e], m)
    BY <2>2 DEF AllTold
  <2> QED BY <2>3 DEF Has, IsDelivered
<1> QED BY <1>1, ContentInvariant, PTL
=============================================================================
