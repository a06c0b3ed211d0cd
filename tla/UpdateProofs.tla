---------------------------- MODULE UpdateProofs ----------------------------
(***************************************************************************)
(* What the DC may rely on, for any set of state variables, states and     *)
(* shares: when it is told "ready", and that it knows the states between   *)
(* the queries; and what the mounter believes of the share.                *)
(*                                                                         *)
(* A callback calls several methods of the state variables, whose members  *)
(* s and messages are on their way between two states of the model, so     *)
(* most lemmas are about a method: Sound(s, ...) before it is Sound after  *)
(* it.  W is what was on the wire before the callback, R the senders whose *)
(* answer is still on its way, D the variables whose query has just been   *)
(* answered (on_query_finish resets _state_query only after the callback), *)
(* st how far the start has come, e the rest of the state (Env).           *)
(***************************************************************************)
EXTENDS Update, TLAPS, SequenceTheorems, FiniteSetTheorems

Out(s, W) == W \o s.sends

\* A variable has one query at a time, which tells of itself, and it waits
\* for that query.
Flight(q, R, B) ==
    /\ \A i \in DOMAIN q : q[i].from \in Variable => q[i].from \in B /\ DOMAIN q[i].tells = {q[i].from}
    /\ \A i, j \in DOMAIN q : q[i].from \in Variable /\ q[i].from = q[j].from => i = j
    /\ \A v \in R \cap Variable : v \in B /\ \A i \in DOMAIN q : q[i].from # v

\* A variable that was asked for has a state, and one that has submitted was
\* told to the DC.
Known(s) ==
    /\ \A v \in Variable : s.queried[v] # Unknown => s.pending[v] # Unknown
    /\ \A v \in s.busy : s.queried[v] # Unknown
    /\ \A v \in s.submitted \ {Master} : s.current[v] # Unknown

\* All that "ready" stands for.
Told(s, st) == st = "running" /\ \A v \in Variable \ {Master} : s.current[v] # Unknown

TellsReady(m) == Master \in DOMAIN m.tells /\ m.tells[Master] = "ready"

\* Nobody says "ready" before.
HeldBack(s, q, st) ==
    /\ Master \in s.submitted => st = "running"
    /\ s.pending[Master] = "ready" => Told(s, st)
    /\ s.queried[Master] = "ready" => Told(s, st)
    /\ s.current[Master] = "ready" => Told(s, st)
    /\ \A i \in DOMAIN q : TellsReady(q[i]) => Told(s, st)

Sound(s, W, R, D, st) ==
    /\ s \in SicType /\ W \in Seq(Query) /\ D \subseteq s.busy
    /\ Flight(Out(s, W), R, s.busy \ D)
    /\ Known(s)
    /\ HeldBack(s, Out(s, W), st)

-----------------------------------------------------------------------------
(* What the DC knows of a variable none of whose queries has failed.  e is  *)
(* the rest of the state that matters for it, which no method changes.      *)

Env == [dc |-> dc, forgotten |-> forgotten, replaying |-> step = "replaying",
        asking |-> step \in {"telling", "sending", "replaying"},
        untracked |-> IF target \in {None, "DC"} THEN crossed ELSE Variable]

Tracked(s, e) == Variable \ (s.failed \cup e.untracked)

\* The update has one query at a time as well.
Alone(q, R, e) ==
    /\ \A i, j \in DOMAIN q : q[i].from = Updater /\ q[j].from = Updater => i = j
    /\ (\E i \in DOMAIN q : q[i].from = Updater) => e.asking /\ Updater \notin R
    /\ Updater \in R => e.asking

\* The state that was set last is the one v wants to tell.
Wants(s, v) ==
    \/ s.pending[v] = s.asked[v]
    \/ v = Master /\ s.asked[v] = "ready" /\ s.submitted # Variable

\* The replay at i overwrites nothing newer: what v tells comes after it.
Replayed(s, q, R, D, e, v, i) ==
    /\ v \notin R \cup D
    /\ \A j \in DOMAIN q : q[j].from = v => i < j
    /\ v \notin s.busy => s.current[v] = IF v \in DOMAIN q[i].tells THEN q[i].tells[v] ELSE e.dc[v]

\* A query of v tells what v believes it tells, and the DC knows the state of
\* v unless there is such a query.
Flies(s, q, R, D, e, v) ==
    /\ v \in D => s.current[v] = s.queried[v]
    /\ \A i \in DOMAIN q : q[i].from = v => q[i] = Asks(v, s.queried[v])
    /\ ~e.forgotten => /\ v \in R => e.dc[v] = s.queried[v]
                       /\ v \notin s.busy \ D => e.dc[v] = s.current[v]
    /\ \A i \in DOMAIN q : q[i].from = Updater =>
          IF e.replaying THEN Replayed(s, q, R, D, e, v, i) ELSE v \notin DOMAIN q[i].tells

\* Nothing is left to tell, and what has not submitted has never been told.
Even(s, v) == v \notin s.busy => s.pending[v] = s.current[v]

Fresh(s, e, v) ==
    v \notin s.busy \cup s.submitted \cup {Master} => s.current[v] = Unknown /\ e.dc[v] = Unknown

Flying(s, W, R, D, e) ==
    /\ Alone(Out(s, W), R, e)
    /\ \A v \in Tracked(s, e) : Flies(s, Out(s, W), R, D, e, v)

\* In the middle of a method of v, the rest holds of the others.
OthersTold(s, e, v) == \A u \in Tracked(s, e) \ {v} : Even(s, u) /\ Fresh(s, e, u) /\ Wants(s, u)

Tracks(s, W, R, D, e) ==
    /\ Flying(s, W, R, D, e)
    /\ \A v \in Tracked(s, e) : Even(s, v) /\ Fresh(s, e, v) /\ Wants(s, v)

Kept(s, W, R, D, st, e) == Sound(s, W, R, D, st) /\ Tracks(s, W, R, D, e)

-----------------------------------------------------------------------------
(* Messages.                                                               *)

LEMMA NamesDiffer == /\ Updater \notin Variable /\ Unknown \notin State
                     /\ Master \in Variable /\ "ready" \in State /\ "booting" \in State
  BY StateVariablesAssumption DEF Updater, Unknown

LEMMA QueryOfVariable ==
    ASSUME NEW v \in Variable, NEW x \in State \cup {Unknown}
    PROVE  /\ Asks(v, x) \in Query
           /\ TellsReady(Asks(v, x)) => v = Master /\ x = "ready"
  <1>1. [u \in {v} |-> x] \in [{v} -> State \cup {Unknown, "restart"}] /\ {v} \in SUBSET Variable
    OBVIOUS
  <1>2. [u \in {v} |-> x] \in UNION {[V -> State \cup {Unknown, "restart"}] : V \in SUBSET Variable}
    BY <1>1
  <1>3. Asks(v, x) \in Query
    BY <1>2 DEF Query, Sender, Asks
  <1>4. QED
    BY <1>3 DEF TellsReady, Asks

\* A query of v follows those of the others.
LEMMA AppendFlight ==
    ASSUME NEW q \in Seq(Query), NEW R, NEW B, Flight(q, R, B), NEW v \in Variable, v \notin B,
           NEW m \in Query, m.from = v, DOMAIN m.tells = {v}
    PROVE  Flight(Append(q, m), R, B \cup {v})
  <1> DEFINE p == Append(q, m)
  <1>1. /\ DOMAIN q = 1 .. Len(q) /\ DOMAIN p = 1 .. Len(q) + 1 /\ Len(q) \in Nat
        /\ \A i \in DOMAIN q : p[i] = q[i]
        /\ p[Len(q) + 1] = m
    OBVIOUS
  <1> HIDE DEF p
  <1>2. \A i \in DOMAIN q : q[i].from # v
    BY DEF Flight
  <1>3. ASSUME NEW i \in DOMAIN p PROVE (i \in DOMAIN q /\ p[i] = q[i]) \/ (i = Len(q) + 1 /\ p[i] = m)
    <2>1. i \in 1 .. Len(q) + 1 /\ Len(q) \in Nat
      BY <1>1
    <2>3. i \in 1 .. Len(q) \/ i = Len(q) + 1
      BY <2>1
    <2>2. QED
      BY <1>1, <2>3
  <1>4. \A i \in DOMAIN p :
           p[i].from \in Variable => p[i].from \in B \cup {v} /\ DOMAIN p[i].tells = {p[i].from}
    BY <1>3 DEF Flight
  <1>5. ASSUME NEW i \in DOMAIN p, NEW j \in DOMAIN p, p[i].from \in Variable, p[i].from = p[j].from
        PROVE  i = j
    BY <1>3, <1>2, <1>5 DEF Flight
  <1>6. \A u \in R \cap Variable : u \in B \cup {v} /\ \A i \in DOMAIN p : p[i].from # u
    BY <1>3 DEF Flight
  <1>7. Flight(p, R, B \cup {v})
    BY <1>4, <1>5, <1>6 DEF Flight
  <1>8. QED
    BY <1>7 DEF p

LEMMA AppendAt ==
    ASSUME NEW q \in Seq(Query), NEW m \in Query
    PROVE  LET p == Append(q, m)
           IN  /\ p \in Seq(Query) /\ DOMAIN q \subseteq DOMAIN p
               /\ \A i \in DOMAIN p : \/ i \in DOMAIN q /\ p[i] = q[i] /\ i < Len(q) + 1
                                      \/ i = Len(q) + 1 /\ p[i] = m
  <1> DEFINE p == Append(q, m)
             n == Len(q)
  <1>1. /\ n \in Nat /\ DOMAIN q = 1 .. n /\ DOMAIN p = 1 .. n + 1 /\ p \in Seq(Query)
        /\ \A i \in 1 .. n : p[i] = q[i]
        /\ p[n + 1] = m
    OBVIOUS
  <1> HIDE DEF p, n
  <1>2. \A i \in 1 .. n + 1 : (i \in 1 .. n /\ i < n + 1) \/ i = n + 1
    BY <1>1
  <1>3. QED
    BY <1>1, <1>2 DEF p, n

\* A query of v leaves the others as they are ...
LEMMA AppendFlies ==
    ASSUME NEW s, NEW t, NEW q \in Seq(Query), NEW m \in Query, NEW R, NEW D, NEW e,
           NEW v \in Variable, Flies(s, q, R, D, e, v), m.from # v, m.from # Updater,
           t.current[v] = s.current[v], t.queried[v] = s.queried[v], v \in t.busy <=> v \in s.busy
    PROVE  Flies(t, Append(q, m), R, D, e, v)
  <1> DEFINE p == Append(q, m)
  <1>1. \A i \in DOMAIN p : (i \in DOMAIN q /\ p[i] = q[i]) \/ p[i] = m
    BY AppendAt
  <1> HIDE DEF p
  <1>2. \A i \in DOMAIN p : p[i].from \in {v, Updater} => i \in DOMAIN q /\ p[i] = q[i]
    BY <1>1
  <1>3. /\ v \in D => t.current[v] = t.queried[v]
        /\ \A i \in DOMAIN p : p[i].from = v => p[i] = Asks(v, t.queried[v])
        /\ ~e.forgotten => /\ v \in R => e.dc[v] = t.queried[v]
                           /\ v \notin t.busy \ D => e.dc[v] = t.current[v]
    BY <1>2 DEF Flies
  <1>4. ASSUME NEW i \in DOMAIN p, p[i].from = Updater
        PROVE  IF e.replaying THEN Replayed(t, p, R, D, e, v, i) ELSE v \notin DOMAIN p[i].tells
    <2>1. /\ i \in DOMAIN q /\ p[i] = q[i]
          /\ IF e.replaying THEN Replayed(s, q, R, D, e, v, i) ELSE v \notin DOMAIN q[i].tells
      BY <1>2, <1>4 DEF Flies
    <2>2. QED
      BY <1>2, <2>1 DEF Replayed
  <1>5. QED
    BY <1>3, <1>4 DEF Flies, p

\* ... and what it has told before.
LEMMA OwnFlies ==
    ASSUME NEW s, NEW t, NEW q \in Seq(Query), NEW R, NEW D, NEW e,
           NEW v \in Variable, Flies(s, q, R, D, e, v), v \notin R \cup D, v \in t.busy,
           \A i \in DOMAIN q : q[i].from # v,
           NEW m \in Query, m = Asks(v, t.queried[v])
    PROVE  Flies(t, Append(q, m), R, D, e, v)
  <1> DEFINE p == Append(q, m)
  <1>1. \A i \in DOMAIN p : \/ i \in DOMAIN q /\ p[i] = q[i] /\ i < Len(q) + 1
                            \/ i = Len(q) + 1 /\ p[i] = m
    BY AppendAt
  <1>2. m.from = v /\ v # Updater
    BY NamesDiffer DEF Asks
  <1> HIDE DEF p
  <1>3. /\ v \in D => t.current[v] = t.queried[v]
        /\ \A i \in DOMAIN p : p[i].from = v => p[i] = Asks(v, t.queried[v])
        /\ ~e.forgotten => /\ v \in R => e.dc[v] = t.queried[v]
                           /\ v \notin t.busy \ D => e.dc[v] = t.current[v]
    BY <1>1, <1>2
  <1>4. ASSUME NEW i \in DOMAIN p, p[i].from = Updater
        PROVE  IF e.replaying THEN Replayed(t, p, R, D, e, v, i) ELSE v \notin DOMAIN p[i].tells
    <2>1. /\ i \in DOMAIN q /\ p[i] = q[i] /\ i < Len(q) + 1
          /\ IF e.replaying THEN Replayed(s, q, R, D, e, v, i) ELSE v \notin DOMAIN q[i].tells
      BY <1>1, <1>2, <1>4 DEF Flies
    <2>2. \A j \in DOMAIN p : p[j].from = v => i < j
      BY <1>1, <2>1
    <2>3. QED
      BY <2>1, <2>2 DEF Replayed
  <1>5. QED
    BY <1>3, <1>4 DEF Flies, p

LEMMA AppendAlone ==
    ASSUME NEW q \in Seq(Query), NEW R, NEW e, Alone(q, R, e), NEW m \in Query, m.from # Updater
    PROVE  Alone(Append(q, m), R, e)
  <1> DEFINE p == Append(q, m)
  <1>1. \A i \in DOMAIN p : (i \in DOMAIN q /\ p[i] = q[i]) \/ p[i] = m
    BY AppendAt
  <1> HIDE DEF p
  <1>2. \A i \in DOMAIN p : p[i].from = Updater => i \in DOMAIN q /\ p[i] = q[i]
    BY <1>1
  <1>3. Alone(p, R, e)
    BY <1>2 DEF Alone
  <1>4. QED
    BY <1>3 DEF p

-----------------------------------------------------------------------------
(* The methods.                                                            *)

\* What the methods do to the record of members keeps it one.
LEMMA StatesType ==
    ASSUME NEW s \in SicType, NEW f \in [Variable -> State \cup {Unknown}]
    PROVE  /\ [s EXCEPT !.pending = f] \in SicType
           /\ [s EXCEPT !.asked = f] \in SicType
           /\ [s EXCEPT !.current = f] \in SicType
  BY DEF SicType

LEMMA QueriesType ==
    ASSUME NEW s \in SicType, NEW f \in [Variable -> State \cup {Unknown}],
           NEW V \in SUBSET Variable
    PROVE  /\ [s EXCEPT !.queried = f, !.failed = V] \in SicType
           /\ \A q \in Seq(Query) : [s EXCEPT !.queried = f, !.busy = V, !.sends = q] \in SicType
  BY DEF SicType

LEMMA SubmittedType ==
    ASSUME NEW s \in SicType, NEW V \in SUBSET Variable
    PROVE  [s EXCEPT !.submitted = V] \in SicType
  BY DEF SicType

LEMMA SendsType ==
    ASSUME NEW s \in SicType, NEW q \in Seq(Query)
    PROVE  [s EXCEPT !.sends = q] \in SicType
  BY DEF SicType

LEMMA CallbacksType ==
    ASSUME NEW s \in SicType, NEW c \in Callback \cup {None}
    PROVE  [s EXCEPT !.connected = c] \in SicType /\ [s EXCEPT !.later = c] \in SicType
  BY DEF SicType

LEMMA EndType ==
    ASSUME NEW s \in SicType, NEW V \in SUBSET Variable, NEW c \in Callback \cup {None}
    PROVE  /\ [s EXCEPT !.busy = V, !.connected = c] \in SicType
           /\ \A U \in SUBSET Variable :
                 [s EXCEPT !.busy = V, !.connected = c, !.failed = U] \in SicType
  BY DEF SicType

LEMMA StartQuerySound ==
    ASSUME NEW s, NEW W, NEW R, NEW D, NEW st, Sound(s, W, R, D, st), NEW v \in Variable,
           v \notin s.busy, s.pending[v] # Unknown
    PROVE  LET t == StartQuery(s, v)
           IN  /\ Sound(t, W, R, D, st)
               /\ t.connected = s.connected /\ t.later = s.later /\ t.current = s.current
               /\ t.submitted = s.submitted /\ s.busy \subseteq t.busy
               /\ t.busy \subseteq s.busy \cup {v}
  <1> DEFINE x == s.pending[v]
             m == Asks(v, x)
             t == StartQuery(s, v)
             q == Out(s, W)
  <1>1. s \in SicType /\ W \in Seq(Query) /\ x \in State \cup {Unknown} /\ q \in Seq(Query)
    BY DEF Sound, SicType, Out
  <1>2. /\ m \in Query /\ m.from = v /\ DOMAIN m.tells = {v}
        /\ TellsReady(m) => v = Master /\ x = "ready"
    BY <1>1, QueryOfVariable DEF Asks
  <1>3. CASE s.online
    <2>1. t = [s EXCEPT !.queried[v] = x, !.busy = @ \cup {v}, !.sends = Append(@, m)]
      BY <1>3 DEF StartQuery
    <2>2. /\ t.current = s.current /\ t.pending = s.pending /\ t.submitted = s.submitted
          /\ t.connected = s.connected /\ t.later = s.later
          /\ t.queried = [s.queried EXCEPT ![v] = x]
          /\ t.busy = s.busy \cup {v} /\ t.sends = Append(s.sends, m)
      BY <2>1, <1>1 DEF SicType
    <2>3. t \in SicType
      <3>1. /\ [s.queried EXCEPT ![v] = x] \in [Variable -> State \cup {Unknown}]
            /\ s.busy \cup {v} \in SUBSET Variable
            /\ Append(s.sends, m) \in Seq(Query)
        BY <1>1, <1>2 DEF SicType
      <3>2. t = [s EXCEPT !.queried = [s.queried EXCEPT ![v] = x], !.busy = s.busy \cup {v},
                          !.sends = Append(s.sends, m)]
        BY <2>1, <1>1 DEF SicType
      <3> HIDE DEF x, m, t
      <3> QED
        BY <3>1, <3>2, <1>1, QueriesType
    <2>4. Out(t, W) = Append(q, m)
      BY <2>2, <1>1, <1>2 DEF Out, SicType
    <2>5. Flight(Append(q, m), R, (s.busy \ D) \cup {v})
      BY <1>1, <1>2, AppendFlight DEF Sound
    <2>6. (s.busy \ D) \cup {v} = t.busy \ D
      BY <2>2 DEF Sound
    <2>7. Flight(Out(t, W), R, t.busy \ D)
      BY <2>4, <2>5, <2>6
    <2>8. Known(t)
      BY <1>1, <2>2 DEF Sound, Known, SicType
    <2>9. HeldBack(t, Out(t, W), st)
      <3>1. (v = Master /\ x = "ready") => Told(s, st)
        BY DEF Sound, HeldBack
      <3>2. Told(t, st) <=> Told(s, st)
        BY <2>2 DEF Told
      <3>3. \A i \in DOMAIN Out(t, W) : TellsReady(Out(t, W)[i]) => Told(s, st)
        <4>1. \A i \in DOMAIN q : TellsReady(q[i]) => Told(s, st)
          BY DEF Sound, HeldBack
        <4>2. TellsReady(m) => Told(s, st)
          BY <1>2, <3>1
        <4>3. \A i \in DOMAIN Append(q, m) : Append(q, m)[i] \in {q[j] : j \in DOMAIN q} \cup {m}
          BY <1>1, <1>2
        <4>4. QED
          BY <2>4, <4>1, <4>2, <4>3
      <3>4. t.queried[Master] = "ready" => Told(s, st)
        BY <1>1, <2>2, <3>1 DEF Sound, HeldBack, SicType
      <3>5. QED
        BY <2>2, <3>2, <3>3, <3>4 DEF Sound, HeldBack
    <2>10. QED
      BY <2>2, <2>3, <2>7, <2>8, <2>9, <1>1 DEF Sound
  <1>4. CASE ~s.online
    <2>1. t = [s EXCEPT !.queried[v] = x, !.failed = @ \cup {v}]
      BY <1>4 DEF StartQuery
    <2>2. /\ t.current = s.current /\ t.pending = s.pending /\ t.submitted = s.submitted
          /\ t.connected = s.connected /\ t.later = s.later
          /\ t.queried = [s.queried EXCEPT ![v] = x]
          /\ t.busy = s.busy /\ t.sends = s.sends
      BY <2>1, <1>1 DEF SicType
    <2>3. t \in SicType
      <3>1. /\ [s.queried EXCEPT ![v] = x] \in [Variable -> State \cup {Unknown}]
            /\ s.failed \cup {v} \in SUBSET Variable
        BY <1>1, <1>2 DEF SicType
      <3>2. t = [s EXCEPT !.queried = [s.queried EXCEPT ![v] = x], !.failed = s.failed \cup {v}]
        BY <2>1, <1>1 DEF SicType
      <3> HIDE DEF x, m, t
      <3> QED
        BY <3>1, <3>2, <1>1, QueriesType
    <2>4. Out(t, W) = q
      BY <2>2 DEF Out
    <2>5. Known(t)
      BY <1>1, <2>2 DEF Sound, Known, SicType
    <2>6. HeldBack(t, Out(t, W), st)
      BY <1>1, <2>2, <2>4 DEF Sound, HeldBack, Told, SicType
    <2>7. QED
      BY <2>2, <2>3, <2>4, <2>5, <2>6, <1>1 DEF Sound
  <1>5. QED
    BY <1>3, <1>4

LEMMA StartQueryTracks ==
    ASSUME NEW s, NEW W, NEW R, NEW D, NEW st, Sound(s, W, R, D, st), NEW v \in Variable,
           v \notin s.busy, s.pending[v] # Unknown, NEW e, Flying(s, W, R, D, e),
           OthersTold(s, e, v), v \in Tracked(s, e) => Wants(s, v)
    PROVE  Tracks(StartQuery(s, v), W, R, D, e)
  <1> DEFINE x == s.pending[v]
             m == Asks(v, x)
             t == StartQuery(s, v)
             q == Out(s, W)
  <1>1. s \in SicType /\ W \in Seq(Query) /\ x \in State \cup {Unknown} /\ q \in Seq(Query)
    BY DEF Sound, SicType, Out
  <1>2. m \in Query /\ m.from = v /\ v # Updater
    BY <1>1, QueryOfVariable, NamesDiffer DEF Asks
  <1>3. /\ Alone(q, R, e) /\ \A u \in Tracked(s, e) : Flies(s, q, R, D, e, u) /\ Wants(s, u)
        /\ \A u \in Tracked(s, e) \ {v} : Even(s, u) /\ Fresh(s, e, u)
    BY DEF Flying, OthersTold
  <1>4. CASE s.online
    <2>1. t = [s EXCEPT !.queried[v] = x, !.busy = @ \cup {v}, !.sends = Append(@, m)]
      BY <1>4 DEF StartQuery
    <2>2. /\ t.current = s.current /\ t.pending = s.pending /\ t.submitted = s.submitted
          /\ t.asked = s.asked /\ t.failed = s.failed
          /\ t.queried = [s.queried EXCEPT ![v] = x]
          /\ t.busy = s.busy \cup {v} /\ t.sends = Append(s.sends, m)
      BY <2>1, <1>1 DEF SicType
    <2>3. Out(t, W) = Append(q, m)
      BY <2>2, <1>1, <1>2 DEF Out, SicType
    <2>4. t.queried[v] = x /\ \A u \in Variable \ {v} : t.queried[u] = s.queried[u]
      BY <1>1, <2>2 DEF SicType
    <2>5. Alone(Append(q, m), R, e)
      BY <1>1, <1>2, <1>3, AppendAlone
    <2>6. v \notin R \cup D /\ \A i \in DOMAIN q : q[i].from # v
      BY DEF Sound, Flight
    <2>7. m = Asks(v, t.queried[v])
      BY <2>4
    <2> HIDE DEF t, m, q, x
    <2>8. ASSUME NEW u \in Tracked(t, e)
          PROVE  Flies(t, Append(q, m), R, D, e, u) /\ Even(t, u) /\ Fresh(t, e, u) /\ Wants(t, u)
      <3>1. u \in Tracked(s, e) /\ u \in Variable
        BY <2>2 DEF Tracked
      <3>2. CASE u = v
        <4>1. Flies(t, Append(q, m), R, D, e, v)
          BY <1>1, <1>2, <1>3, <2>2, <2>6, <2>7, <3>1, <3>2, OwnFlies
        <4>2. QED
          BY <1>3, <2>2, <3>1, <3>2, <4>1 DEF Even, Fresh, Wants
      <3>3. CASE u # v
        <4>1. Flies(t, Append(q, m), R, D, e, u)
          BY <1>1, <1>2, <1>3, <2>2, <2>4, <3>1, <3>3, AppendFlies
        <4>2. QED
          BY <1>3, <2>2, <3>1, <3>3, <4>1 DEF Even, Fresh, Wants
      <3>4. QED
        BY <3>2, <3>3
    <2>9. Tracks(t, W, R, D, e)
      BY <2>3, <2>5, <2>8 DEF Tracks, Flying
    <2>10. QED
      BY <2>9 DEF t
  <1>5. CASE ~s.online
    <2>1. t = [s EXCEPT !.queried[v] = x, !.failed = @ \cup {v}]
      BY <1>5 DEF StartQuery
    <2>2. /\ t.current = s.current /\ t.pending = s.pending /\ t.submitted = s.submitted
          /\ t.asked = s.asked /\ t.failed = s.failed \cup {v}
          /\ t.queried = [s.queried EXCEPT ![v] = x]
          /\ t.busy = s.busy /\ t.sends = s.sends
      BY <2>1, <1>1 DEF SicType
    <2>3. Out(t, W) = q /\ \A u \in Variable \ {v} : t.queried[u] = s.queried[u]
      BY <1>1, <2>2 DEF Out, SicType
    <2> HIDE DEF t, m, q, x
    <2>4. ASSUME NEW u \in Tracked(t, e)
          PROVE  Flies(t, q, R, D, e, u) /\ Even(t, u) /\ Fresh(t, e, u) /\ Wants(t, u)
      <3>1. u \in Tracked(s, e) /\ u \in Variable /\ u # v
        BY <2>2 DEF Tracked
      <3>2. t.queried[u] = s.queried[u]
        BY <2>3, <3>1
      <3>3. Flies(s, q, R, D, e, u) /\ Even(s, u) /\ Fresh(s, e, u) /\ Wants(s, u)
        BY <1>3, <3>1
      <3>4. Flies(t, q, R, D, e, u)
        BY <2>2, <3>2, <3>3 DEF Flies, Replayed
      <3>5. QED
        BY <2>2, <3>3, <3>4 DEF Even, Fresh, Wants
    <2>5. Tracks(t, W, R, D, e)
      BY <1>3, <2>3, <2>4 DEF Tracks, Flying
    <2>6. QED
      BY <2>5 DEF t
  <1>6. QED
    BY <1>4, <1>5

\* Nothing flies otherwise when only what is wanted changes.
LEMMA SameFlying ==
    ASSUME NEW s, NEW t, NEW W, NEW R, NEW D, NEW e, Flying(s, W, R, D, e),
           t.current = s.current, t.queried = s.queried, t.busy = s.busy, t.sends = s.sends,
           t.failed = s.failed
    PROVE  Flying(t, W, R, D, e) /\ Tracked(t, e) = Tracked(s, e) /\ Tracked(t, e) \subseteq Variable
  <1>1. Out(t, W) = Out(s, W) /\ Tracked(t, e) = Tracked(s, e)
    BY DEF Out, Tracked
  <1>2. \A u : Flies(s, Out(s, W), R, D, e, u) => Flies(t, Out(s, W), R, D, e, u)
    BY DEF Flies, Replayed
  <1>3. QED
    BY <1>1, <1>2 DEF Flying, Tracked

LEMMA ChangeKept ==
    ASSUME NEW s, NEW W, NEW R, NEW D, NEW st, Sound(s, W, R, D, st), NEW v \in Variable,
           NEW state \in State, (v = Master /\ state = "ready") => Told(s, st),
           NEW e, Flying(s, W, R, D, e), OthersTold(s, e, v),
           v \in Tracked(s, e) => Even(s, v) /\ Fresh(s, e, v), s.asked[v] = state
    PROVE  LET t == Change(s, v, state)
           IN  /\ Kept(t, W, R, D, st, e)
               /\ t.connected = s.connected /\ t.later = s.later /\ t.current = s.current
               /\ t.submitted = s.submitted /\ s.busy \subseteq t.busy
               /\ t.busy \subseteq s.busy \cup {v}
  <1> DEFINE p == [s EXCEPT !.pending[v] = state]
  <1>1. s \in SicType /\ state # Unknown
    BY NamesDiffer DEF Sound
  <1>2. /\ p.current = s.current /\ p.queried = s.queried /\ p.submitted = s.submitted
        /\ p.pending = [s.pending EXCEPT ![v] = state]
        /\ p.connected = s.connected /\ p.later = s.later
        /\ p.busy = s.busy /\ p.sends = s.sends /\ p.asked = s.asked /\ p.failed = s.failed
    BY <1>1 DEF SicType
  <1>3. p \in SicType
    <2>1. [s.pending EXCEPT ![v] = state] \in [Variable -> State \cup {Unknown}]
      BY <1>1 DEF SicType
    <2>2. p = [s EXCEPT !.pending = [s.pending EXCEPT ![v] = state]]
      BY <1>1 DEF SicType
    <2> HIDE DEF p
    <2>3. QED
      BY <2>1, <2>2, <1>1, StatesType
  <1>4. Out(p, W) = Out(s, W)
    BY <1>2 DEF Out
  <1>5. Known(p)
    BY <1>1, <1>2 DEF Sound, Known, SicType
  <1>6. HeldBack(p, Out(p, W), st)
    BY <1>1, <1>2, <1>4 DEF Sound, HeldBack, Told, SicType
  <1>7. Sound(p, W, R, D, st)
    <2> HIDE DEF p
    <2> QED
      BY <1>2, <1>3, <1>4, <1>5, <1>6 DEF Sound
  <1>8. p.pending[v] = state /\ \A u \in Variable \ {v} : p.pending[u] = s.pending[u]
    BY <1>1, <1>2 DEF SicType
  <1>9. CASE state = s.pending[v]
    <2>1. Wants(s, v)
      BY <1>9 DEF Wants
    <2>2. Tracks(s, W, R, D, e)
      BY <2>1 DEF Tracks, OthersTold
    <2>3. QED
      BY <1>9, <2>2 DEF Change, Kept
  <1> HIDE DEF p
  <1>10. Flying(p, W, R, D, e) /\ Tracked(p, e) = Tracked(s, e) /\ Tracked(p, e) \subseteq Variable
    BY <1>2, SameFlying
  <1>11. OthersTold(p, e, v)
    BY <1>2, <1>8, <1>10 DEF OthersTold, Even, Fresh, Wants
  <1>12. v \in Tracked(p, e) => Fresh(p, e, v) /\ Wants(p, v) /\ (v \in s.busy => Even(p, v))
    BY <1>2, <1>8, <1>10 DEF Even, Fresh, Wants
  <1>13. CASE state # s.pending[v] /\ v \in s.busy
    <2>1. Change(s, v, state) = p
      BY <1>13 DEF Change, p
    <2>2. Tracks(p, W, R, D, e)
      BY <1>10, <1>11, <1>12, <1>13 DEF Tracks, OthersTold
    <2>3. QED
      BY <2>1, <2>2, <1>2, <1>7 DEF Kept
  <1>14. CASE state # s.pending[v] /\ v \notin s.busy
    <2>1. Change(s, v, state) = StartQuery(p, v)
      BY <1>14 DEF Change, p
    <2>2. v \notin p.busy /\ p.pending[v] # Unknown
      BY <1>1, <1>2, <1>8, <1>14
    <2> DEFINE t == StartQuery(p, v)
    <2>3. /\ Sound(t, W, R, D, st)
          /\ t.connected = p.connected /\ t.later = p.later /\ t.current = p.current
          /\ t.submitted = p.submitted /\ p.busy \subseteq t.busy
          /\ t.busy \subseteq p.busy \cup {v}
      BY <1>7, <2>2, StartQuerySound
    <2>4. Tracks(t, W, R, D, e)
      BY <1>7, <1>10, <1>11, <1>12, <2>2, StartQueryTracks
    <2> HIDE DEF t
    <2>5. QED
      BY <2>1, <2>3, <2>4, <1>2 DEF Kept, t
  <1>15. QED
    BY <1>9, <1>13, <1>14

LEMMA SetStateKept ==
    ASSUME NEW s, NEW W, NEW R, NEW D, NEW st, Sound(s, W, R, D, st), NEW v \in Variable,
           NEW state \in State, (v = Master /\ state = "ready") => st = "running",
           NEW e, Flying(s, W, R, D, e), OthersTold(s, e, v),
           v \in Tracked(s, e) => Even(s, v) /\ Fresh(s, e, v)
    PROVE  LET t == SetState(s, v, state)
           IN  /\ Kept(t, W, R, D, st, e)
               /\ t.connected = s.connected /\ t.later = s.later /\ t.current = s.current
               /\ s.busy \subseteq t.busy /\ t.busy \subseteq s.busy \cup {v}
  <1> DEFINE a == [s EXCEPT !.asked = [s.asked EXCEPT ![v] = state]]
             m == [a EXCEPT !.submitted = a.submitted \cup {Master}]
  <1>1. s \in SicType
    BY DEF Sound
  <1>2. /\ a \in SicType /\ a.current = s.current /\ a.queried = s.queried
        /\ a.submitted = s.submitted /\ a.pending = s.pending
        /\ a.connected = s.connected /\ a.later = s.later
        /\ a.busy = s.busy /\ a.sends = s.sends /\ a.failed = s.failed
        /\ a.asked = [s.asked EXCEPT ![v] = state]
    <2>1. [s.asked EXCEPT ![v] = state] \in [Variable -> State \cup {Unknown}]
      BY <1>1 DEF SicType
    <2>2. a \in SicType
      BY <2>1, <1>1, StatesType
    <2>3. QED
      BY <2>2, <1>1 DEF SicType
  <1>3. Sound(a, W, R, D, st)
    <2> HIDE DEF a
    <2> QED
      BY <1>2 DEF Sound, Out, Known, HeldBack, Told
  <1>4. a = [s EXCEPT !.asked[v] = state]
    BY <1>1 DEF SicType
  <1>5. m = [a EXCEPT !.submitted = @ \cup {Master}]
    <2> HIDE DEF a
    <2> QED
      BY <1>2 DEF SicType
  <1> HIDE DEF a
  <1>6. a.asked[v] = state /\ \A u \in Variable \ {v} : a.asked[u] = s.asked[u]
    BY <1>1, <1>2 DEF SicType
  <1>7. /\ Flying(a, W, R, D, e) /\ OthersTold(a, e, v)
        /\ v \in Tracked(a, e) => Even(a, v) /\ Fresh(a, e, v)
    <2>1. Flying(a, W, R, D, e) /\ Tracked(a, e) = Tracked(s, e) /\ Tracked(a, e) \subseteq Variable
      BY <1>2, SameFlying
    <2>2. QED
      BY <1>2, <1>6, <2>1 DEF OthersTold, Even, Fresh, Wants
  <1>8. CASE v = Master /\ state = "ready"
    <2>1. /\ m \in SicType /\ m.current = a.current /\ m.queried = a.queried
          /\ m.submitted = a.submitted \cup {Master} /\ m.pending = a.pending
          /\ m.connected = a.connected /\ m.later = a.later
          /\ m.busy = a.busy /\ m.sends = a.sends /\ m.asked = a.asked /\ m.failed = a.failed
      <3>1. a.submitted \cup {Master} \in SUBSET Variable
        BY <1>2, NamesDiffer DEF SicType
      <3>2. m \in SicType
        BY <1>2, <3>1, SubmittedType
      <3>3. QED
        BY <3>2, <1>2 DEF SicType
    <2> HIDE DEF m
    <2>2. Sound(m, W, R, D, st)
      BY <1>3, <1>8, <2>1 DEF Sound, Out, Known, HeldBack, Told
    <2>3. /\ Flying(m, W, R, D, e) /\ OthersTold(m, e, v)
          /\ v \in Tracked(m, e) => Even(m, v) /\ Fresh(m, e, v)
      <3>1. Flying(m, W, R, D, e) /\ Tracked(m, e) = Tracked(a, e)
        BY <1>7, <2>1, SameFlying
      <3>2. QED
        BY <1>7, <1>8, <2>1, <3>1 DEF OthersTold, Even, Fresh, Wants
    <2>4. CASE m.submitted # Variable
      <3>1. SetState(s, v, state) = m
        BY <1>4, <1>5, <1>8, <2>4 DEF SetState
      <3>2. Wants(m, v)
        BY <1>6, <1>8, <2>1, <2>4 DEF Wants
      <3>3. Tracks(m, W, R, D, e)
        BY <2>3, <3>2 DEF Tracks, OthersTold
      <3>4. QED
        BY <3>1, <3>3, <2>1, <2>2, <1>2 DEF Kept
    <2>5. CASE m.submitted = Variable
      <3>1. SetState(s, v, state) = Change(m, v, state)
        BY <1>4, <1>5, <1>8, <2>5 DEF SetState
      <3>2. Told(m, st) /\ m.asked[v] = state
        BY <1>6, <2>1, <2>2, <2>5, <1>8 DEF Sound, Known, Told
      <3>3. LET t == Change(m, v, state)
            IN  /\ Kept(t, W, R, D, st, e)
                /\ t.connected = m.connected /\ t.later = m.later /\ t.current = m.current
                /\ t.submitted = m.submitted /\ m.busy \subseteq t.busy
                /\ t.busy \subseteq m.busy \cup {v}
        BY <2>2, <2>3, <3>2, ChangeKept
      <3>4. QED
        BY <3>1, <3>3, <2>1, <1>2
    <2>6. QED
      BY <2>4, <2>5
  <1>9. CASE ~(v = Master /\ state = "ready")
    <2>1. SetState(s, v, state) = Change(a, v, state)
      BY <1>4, <1>9 DEF SetState
    <2>2. LET t == Change(a, v, state)
          IN  /\ Kept(t, W, R, D, st, e)
              /\ t.connected = a.connected /\ t.later = a.later /\ t.current = a.current
              /\ t.submitted = a.submitted /\ a.busy \subseteq t.busy
              /\ t.busy \subseteq a.busy \cup {v}
      BY <1>3, <1>6, <1>7, <1>9, ChangeKept
    <2>3. QED
      BY <2>1, <2>2, <1>2
  <1>10. QED
    BY <1>8, <1>9

LEMMA SameKept ==
    ASSUME NEW s, NEW t \in SicType, NEW W, NEW R, NEW D, NEW st, NEW e, Kept(s, W, R, D, st, e),
           t.current = s.current, t.queried = s.queried, t.pending = s.pending, t.busy = s.busy,
           t.submitted = s.submitted, t.sends = s.sends, t.asked = s.asked, t.failed = s.failed
    PROVE  Kept(t, W, R, D, st, e)
  <1>1. Sound(t, W, R, D, st)
    BY DEF Kept, Sound, Out, Known, HeldBack, Told
  <1>2. Flying(t, W, R, D, e) /\ Tracked(t, e) = Tracked(s, e)
    BY SameFlying DEF Kept, Tracks
  <1>3. \A v \in Tracked(t, e) : Even(t, v) /\ Fresh(t, e, v) /\ Wants(t, v)
    BY <1>2 DEF Kept, Tracks, Even, Fresh, Wants
  <1>4. QED
    BY <1>1, <1>2, <1>3 DEF Kept, Tracks

LEMMA SetStateAndCallKept ==
    ASSUME NEW s, NEW W, NEW R, NEW D, NEW st, NEW e, Kept(s, W, R, D, st, e),
           NEW state \in State, state = "ready" => st = "running", NEW callback \in Callback
    PROVE  LET t == SetStateAndCall(s, state, callback)
           IN  /\ Kept(t, W, R, D, st, e)
               /\ s.busy \subseteq t.busy /\ t.busy \subseteq s.busy \cup {Master}
               /\ t.current = s.current
               /\ Master \in s.busy => t.connected = s.connected /\ t.later \in {s.later, callback}
               /\ Master \notin s.busy => t.connected = callback /\ t.later = s.later
  <1>1. s \in SicType /\ callback \in Callback \cup {None}
    BY DEF Kept, Sound
  <1>2. CASE Master \notin s.busy
    <2> DEFINE p == [s EXCEPT !.connected = callback]
    <2>1. p \in SicType
      BY <1>1, CallbacksType
    <2>2. /\ p.current = s.current /\ p.queried = s.queried /\ p.pending = s.pending
          /\ p.submitted = s.submitted /\ p.busy = s.busy /\ p.sends = s.sends
          /\ p.connected = callback /\ p.later = s.later
          /\ p.asked = s.asked /\ p.failed = s.failed
      BY <1>1 DEF SicType
    <2>3. SetStateAndCall(s, state, callback) = SetState(p, Master, state)
      BY <1>2 DEF SetStateAndCall
    <2> HIDE DEF p
    <2>4. Kept(p, W, R, D, st, e)
      BY <2>1, <2>2, SameKept
    <2>5. LET t == SetState(p, Master, state)
          IN  /\ Kept(t, W, R, D, st, e)
              /\ t.connected = p.connected /\ t.later = p.later /\ t.current = p.current
              /\ p.busy \subseteq t.busy /\ t.busy \subseteq p.busy \cup {Master}
      BY <2>4, SetStateKept, NamesDiffer DEF Kept, Tracks, OthersTold
    <2>6. QED
      BY <2>2, <2>3, <2>5, <1>2
  <1>3. CASE Master \in s.busy /\ s.later = None
    <2> DEFINE p == [s EXCEPT !.later = callback]
    <2>1. p \in SicType
      BY <1>1, CallbacksType
    <2>2. /\ p.current = s.current /\ p.queried = s.queried /\ p.pending = s.pending
          /\ p.submitted = s.submitted /\ p.busy = s.busy /\ p.sends = s.sends
          /\ p.connected = s.connected /\ p.later = callback
          /\ p.asked = s.asked /\ p.failed = s.failed
      BY <1>1 DEF SicType
    <2>3. SetStateAndCall(s, state, callback) = SetState(p, Master, state)
      BY <1>3 DEF SetStateAndCall
    <2> HIDE DEF p
    <2>4. Kept(p, W, R, D, st, e)
      BY <2>1, <2>2, SameKept
    <2>5. LET t == SetState(p, Master, state)
          IN  /\ Kept(t, W, R, D, st, e)
              /\ t.connected = p.connected /\ t.later = p.later /\ t.current = p.current
              /\ p.busy \subseteq t.busy /\ t.busy \subseteq p.busy \cup {Master}
      BY <2>4, SetStateKept, NamesDiffer DEF Kept, Tracks, OthersTold
    <2>6. QED
      BY <2>2, <2>3, <2>5, <1>3
  <1>4. CASE Master \in s.busy /\ s.later # None
    <2>1. SetStateAndCall(s, state, callback) = s
      BY <1>4 DEF SetStateAndCall
    <2>2. QED
      BY <2>1, <1>4
  <1>5. QED
    BY <1>2, <1>3, <1>4

\* The state that the DC has taken is one, and the master's is "ready" only
\* if it may be.
LEMMA PromotedSound ==
    ASSUME NEW s, NEW W, NEW R, NEW D, NEW st, Sound(s, W, R, D, st), NEW v \in s.busy
    PROVE  LET t == Promoted(s, v)
           IN  /\ Sound(t, W, R, D, st)
               /\ t.connected = s.connected /\ t.later = s.later
               /\ t.busy = s.busy /\ t.current[v] # Unknown
               /\ \A u \in Variable : s.current[u] # Unknown => t.current[u] # Unknown
  <1> DEFINE t == Promoted(s, v)
  <1>1. s \in SicType /\ v \in Variable /\ s.queried[v] # Unknown
    BY DEF Sound, Known, SicType
  <1>2. t = [s EXCEPT !.current = [s.current EXCEPT ![v] = s.queried[v]]]
    BY <1>1 DEF Promoted, SicType
  <1>3. [s.current EXCEPT ![v] = s.queried[v]] \in [Variable -> State \cup {Unknown}]
    BY <1>1 DEF SicType
  <1>4. t \in SicType
    <2> HIDE DEF t
    <2>1. QED
      BY <1>1, <1>2, <1>3, StatesType
  <1>5. /\ t.current = [s.current EXCEPT ![v] = s.queried[v]]
        /\ t.queried = s.queried /\ t.pending = s.pending
        /\ t.submitted = s.submitted /\ t.busy = s.busy /\ t.sends = s.sends
        /\ t.connected = s.connected /\ t.later = s.later
    BY <1>1, <1>2 DEF SicType
  <1>6. /\ t.current[v] # Unknown
        /\ \A u \in Variable : s.current[u] # Unknown => t.current[u] # Unknown
    BY <1>1, <1>5 DEF SicType
  <1> HIDE DEF t
  <1>7. Known(t)
    BY <1>1, <1>5, <1>6 DEF Sound, Known, SicType
  <1>8. Told(s, st) => Told(t, st)
    BY <1>6 DEF Told
  <1>9. Out(t, W) = Out(s, W)
    BY <1>5 DEF Out
  <1>10. t.current[Master] = "ready" => Told(t, st)
    <2>1. t.current[Master] \in {s.current[Master], s.queried[Master]}
      BY <1>1, <1>5, NamesDiffer DEF SicType
    <2>2. QED
      BY <2>1, <1>8 DEF Sound, HeldBack
  <1>11. HeldBack(t, Out(t, W), st)
    BY <1>5, <1>8, <1>9, <1>10 DEF Sound, HeldBack
  <1>12. Sound(t, W, R, D, st)
    BY <1>4, <1>5, <1>7, <1>9, <1>11 DEF Sound
  <1>13. /\ Sound(t, W, R, D, st)
         /\ t.connected = s.connected /\ t.later = s.later
         /\ t.busy = s.busy /\ t.current[v] # Unknown
         /\ \A u \in Variable : s.current[u] # Unknown => t.current[u] # Unknown
    BY <1>5, <1>6, <1>12
  <1>14. QED
    BY <1>13 DEF t

LEMMA SoundFewer ==
    ASSUME NEW s, NEW W, NEW R, NEW S, NEW D, NEW st, Sound(s, W, R, D, st), S \subseteq R
    PROVE  Sound(s, W, S, D, st)
  BY DEF Sound, Flight

\* The answer to v is read: v is busy, and nothing of v is on its way.
LEMMA AnsweredSound ==
    ASSUME NEW s, NEW W, NEW R, NEW st, Sound(s, W, R, {}, st), NEW v \in R \cap Variable
    PROVE  v \in s.busy /\ Sound(s, W, R \ {v}, {v}, st)
  <1> DEFINE q == Out(s, W)
  <1>1. Flight(q, R, s.busy)
    <2>1. s.busy \ {} = s.busy
      OBVIOUS
    <2>2. QED
      BY <2>1 DEF Sound
  <1>2. HeldBack(s, q, st)
    BY DEF Sound
  <1> HIDE DEF q
  <1>3. v \in s.busy /\ \A i \in DOMAIN q : q[i].from # v
    BY <1>1 DEF Flight
  <1>4. Flight(q, R \ {v}, s.busy \ {v})
    BY <1>1, <1>3 DEF Flight
  <1>5. QED
    BY <1>2, <1>3, <1>4 DEF Sound, q

\* The answer of the DC is that it knows what was asked.
LEMMA PromotedKept ==
    ASSUME NEW s, NEW W, NEW R, NEW st, NEW e, Kept(s, W, R, {}, st, e), NEW v \in R \cap Variable
    PROVE  LET t == Promoted(s, v)
           IN  /\ v \in s.busy
               /\ Kept(t, W, R \ {v}, {v}, st, e)
               /\ t.connected = s.connected /\ t.later = s.later
               /\ t.busy = s.busy /\ t.current[v] # Unknown
               /\ \A u \in Variable : s.current[u] # Unknown => t.current[u] # Unknown
  <1> DEFINE t == Promoted(s, v)
             q == Out(s, W)
  <1>1. v \in s.busy /\ Sound(s, W, R \ {v}, {v}, st) /\ s \in SicType
    BY AnsweredSound DEF Kept, Sound
  <1>2. /\ Sound(t, W, R \ {v}, {v}, st)
        /\ t.connected = s.connected /\ t.later = s.later
        /\ t.busy = s.busy /\ t.current[v] # Unknown
        /\ \A u \in Variable : s.current[u] # Unknown => t.current[u] # Unknown
    BY <1>1, PromotedSound
  <1>3. /\ t.current = [s.current EXCEPT ![v] = s.queried[v]] /\ t.queried = s.queried
        /\ t.pending = s.pending /\ t.submitted = s.submitted /\ t.sends = s.sends
        /\ t.asked = s.asked /\ t.failed = s.failed
    BY <1>1 DEF Promoted, SicType
  <1>4. t.current[v] = s.queried[v] /\ \A u \in Variable \ {v} : t.current[u] = s.current[u]
    BY <1>1, <1>3 DEF SicType
  <1>5. Out(t, W) = q /\ Tracked(t, e) = Tracked(s, e)
    BY <1>3 DEF Out, Tracked
  <1> HIDE DEF t, q
  <1>6. Alone(q, R \ {v}, e)
    BY NamesDiffer DEF Kept, Tracks, Flying, Alone, q
  <1>7. ASSUME NEW u \in Tracked(s, e)
        PROVE  Flies(t, q, R \ {v}, {v}, e, u) /\ Even(t, u) /\ Fresh(t, e, u) /\ Wants(t, u)
    <2>1. Flies(s, q, R, {}, e, u) /\ Even(s, u) /\ Fresh(s, e, u) /\ Wants(s, u) /\ u \in Variable
      BY DEF Kept, Tracks, Flying, Tracked, q
    <2>2. CASE u = v
      <3>1. Flies(t, q, R \ {v}, {v}, e, v)
        BY <1>2, <1>3, <1>4, <2>1, <2>2 DEF Flies, Replayed
      <3>2. QED
        BY <1>1, <1>2, <1>3, <2>1, <2>2, <3>1 DEF Even, Fresh, Wants
    <2>3. CASE u # v
      <3>1. Flies(t, q, R \ {v}, {v}, e, u)
        BY <1>2, <1>3, <1>4, <2>1, <2>3 DEF Flies, Replayed
      <3>2. QED
        BY <1>2, <1>3, <1>4, <2>1, <2>3, <3>1 DEF Even, Fresh, Wants
    <2>4. QED
      BY <2>2, <2>3
  <1>8. Tracks(t, W, R \ {v}, {v}, e)
    BY <1>5, <1>6, <1>7 DEF Tracks, Flying
  <1>9. QED
    BY <1>1, <1>2, <1>8 DEF Kept, t

\* The query of v is over, and so is its message.
Landed(s, v) ==
    [s EXCEPT !.busy = s.busy \ {v}, !.connected = IF v = Master THEN None ELSE s.connected]

LEMMA LandedSound ==
    ASSUME NEW s, NEW W, NEW R, NEW st, NEW v \in Variable, NEW D, D = {v},
           Sound(s, W, R, D, st)
    PROVE  LET t == Landed(s, v)
           IN  /\ Sound(t, W, R, {}, st)
               /\ t.connected = (IF v = Master THEN None ELSE s.connected)
               /\ t.later = s.later /\ t.submitted = s.submitted
               /\ t.busy = s.busy \ {v} /\ t.current = s.current /\ t.pending = s.pending
               /\ t.queried = s.queried
  <1> DEFINE t == Landed(s, v)
             c == IF v = Master THEN None ELSE s.connected
  <1>1. s \in SicType /\ v \in s.busy
    BY DEF Sound
  <1>2. s.busy \ {v} \in SUBSET Variable /\ c \in Callback \cup {None}
    BY <1>1 DEF SicType
  <1>3. t = [s EXCEPT !.busy = s.busy \ {v}, !.connected = c]
    BY DEF Landed
  <1> HIDE DEF c
  <1>4. t \in SicType
    <2> HIDE DEF t
    <2>1. QED
      BY <1>1, <1>2, <1>3, EndType
  <1>5. /\ t.current = s.current /\ t.queried = s.queried /\ t.pending = s.pending
        /\ t.submitted = s.submitted /\ t.busy = s.busy \ {v} /\ t.sends = s.sends
        /\ t.connected = c /\ t.later = s.later
    BY <1>1, <1>3 DEF SicType
  <1> HIDE DEF t
  <1>6. t.busy \ {} = s.busy \ {v}
    BY <1>5
  <1>7. Out(t, W) = Out(s, W)
    BY <1>5 DEF Out
  <1>8. Flight(Out(t, W), R, t.busy \ {})
    BY <1>6, <1>7 DEF Sound
  <1>9. Known(t) /\ HeldBack(t, Out(t, W), st)
    BY <1>5, <1>7 DEF Sound, Known, HeldBack, Told
  <1>10. Sound(t, W, R, {}, st)
    BY <1>4, <1>8, <1>9 DEF Sound
  <1>11. QED
    BY <1>5, <1>10 DEF t, c

LEMMA LandedTracks ==
    ASSUME NEW s, NEW W, NEW R, NEW e, NEW v \in Variable, s \in SicType, Tracks(s, W, R, {v}, e)
    PROVE  LET t == Landed(s, v)
           IN  /\ Flying(t, W, R, {}, e) /\ OthersTold(t, e, v)
               /\ v \in Tracked(t, e) => Wants(t, v)
  <1> DEFINE t == Landed(s, v)
  <1>1. /\ t.current = s.current /\ t.queried = s.queried /\ t.pending = s.pending
        /\ t.submitted = s.submitted /\ t.busy = s.busy \ {v} /\ t.sends = s.sends
        /\ t.asked = s.asked /\ t.failed = s.failed
    BY DEF SicType, Landed
  <1>2. Out(t, W) = Out(s, W) /\ Tracked(t, e) = Tracked(s, e)
    BY <1>1 DEF Out, Tracked
  <1> HIDE DEF t
  <1>3. ASSUME NEW u \in Tracked(s, e) PROVE Flies(t, Out(t, W), R, {}, e, u)
    <2>1. Flies(s, Out(t, W), R, {v}, e, u)
      BY <1>2 DEF Tracks, Flying
    <2>2. QED
      BY <1>1, <2>1 DEF Flies, Replayed
  <1>4. Flying(t, W, R, {}, e)
    BY <1>2, <1>3 DEF Tracks, Flying
  <1>5. OthersTold(t, e, v) /\ (v \in Tracked(t, e) => Wants(t, v))
    BY <1>1, <1>2 DEF Tracks, OthersTold, Even, Fresh, Wants
  <1>6. QED
    BY <1>4, <1>5 DEF t

LEMMA ContinuePendingSound ==
    ASSUME NEW s, NEW W, NEW R, NEW st, NEW v \in Variable, Sound(s, W, R, {}, st),
           v \notin s.busy, s.current[v] # Unknown, s.queried[v] # Unknown
    PROVE  LET t == ContinuePending(s, v)
           IN  /\ Sound(t, W, R, {}, st)
               /\ t.connected \in {s.connected, s.later} /\ (v # Master => t.connected = s.connected)
               /\ t.later = s.later /\ t.current = s.current
               /\ t.busy \subseteq s.busy \cup {v}
  <1>1. s \in SicType /\ s.pending[v] # Unknown
    BY DEF Sound, Known
  <1>2. CASE s.pending[v] = s.current[v]
    BY <1>2 DEF ContinuePending
  <1>3. CASE s.pending[v] # s.current[v]
    <2> DEFINE c == IF v = Master THEN s.later ELSE s.connected
               p == IF v = Master THEN [s EXCEPT !.connected = s.later] ELSE s
    <2>1. ContinuePending(s, v) = StartQuery(p, v)
      BY <1>3 DEF ContinuePending
    <2>2. /\ p \in SicType
          /\ p.current = s.current /\ p.queried = s.queried /\ p.pending = s.pending
          /\ p.submitted = s.submitted /\ p.busy = s.busy /\ p.sends = s.sends
          /\ p.connected = c /\ p.later = s.later
      <3>1. s.later \in Callback \cup {None}
        BY <1>1 DEF SicType
      <3>2. [s EXCEPT !.connected = s.later] \in SicType
        BY <1>1, <3>1, CallbacksType
      <3>3. QED
        BY <1>1, <3>2 DEF SicType
    <2> HIDE DEF p
    <2>3. Sound(p, W, R, {}, st)
      BY <2>2 DEF Sound, Out, Known, HeldBack, Told
    <2>4. LET t == StartQuery(p, v)
          IN  /\ Sound(t, W, R, {}, st)
              /\ t.connected = p.connected /\ t.later = p.later /\ t.current = p.current
              /\ t.submitted = p.submitted /\ p.busy \subseteq t.busy
              /\ t.busy \subseteq p.busy \cup {v}
      BY <1>1, <2>2, <2>3, StartQuerySound
    <2>5. StartQuery(p, v).current = s.current
      BY <2>2 DEF StartQuery, SicType
    <2>6. QED
      BY <2>1, <2>2, <2>4, <2>5
  <1>4. QED
    BY <1>2, <1>3

LEMMA ContinuePendingTracks ==
    ASSUME NEW s, NEW W, NEW R, NEW st, NEW v \in Variable, Sound(s, W, R, {}, st),
           v \notin s.busy, s.queried[v] # Unknown, NEW e, Flying(s, W, R, {}, e),
           OthersTold(s, e, v), v \in Tracked(s, e) => Wants(s, v)
    PROVE  LET t == ContinuePending(s, v)
           IN  /\ Flying(t, W, R, {}, e) /\ OthersTold(t, e, v)
               /\ v \in Tracked(t, e) => Even(t, v) /\ Wants(t, v)
  <1>1. s \in SicType /\ s.pending[v] # Unknown
    BY DEF Sound, Known
  <1>2. CASE s.pending[v] = s.current[v]
    BY <1>2 DEF ContinuePending, Even
  <1>3. CASE s.pending[v] # s.current[v]
    <2> DEFINE p == IF v = Master THEN [s EXCEPT !.connected = s.later] ELSE s
               t == StartQuery(p, v)
    <2>1. ContinuePending(s, v) = t
      BY <1>3 DEF ContinuePending
    <2>2. /\ p \in SicType
          /\ p.current = s.current /\ p.queried = s.queried /\ p.pending = s.pending
          /\ p.submitted = s.submitted /\ p.busy = s.busy /\ p.sends = s.sends
          /\ p.asked = s.asked /\ p.failed = s.failed
      <3>1. s.later \in Callback \cup {None}
        BY <1>1 DEF SicType
      <3>2. [s EXCEPT !.connected = s.later] \in SicType
        BY <1>1, <3>1, CallbacksType
      <3>3. QED
        BY <1>1, <3>2 DEF SicType
    <2> HIDE DEF p
    <2>3. Sound(p, W, R, {}, st)
      BY <2>2 DEF Sound, Out, Known, HeldBack, Told
    <2>4. Flying(p, W, R, {}, e) /\ Tracked(p, e) = Tracked(s, e)
      BY <2>2, SameFlying
    <2>5. OthersTold(p, e, v) /\ (v \in Tracked(p, e) => Wants(p, v))
      BY <2>2, <2>4 DEF OthersTold, Even, Fresh, Wants
    <2>6. Tracks(t, W, R, {}, e)
      BY <1>1, <2>2, <2>3, <2>4, <2>5, StartQueryTracks
    <2> HIDE DEF t
    <2>7. QED
      BY <2>1, <2>6 DEF Tracks, OthersTold
  <1>4. QED
    BY <1>2, <1>3

LEMMA SubmitKept ==
    ASSUME NEW s, NEW W, NEW R, NEW st, NEW v \in Variable, Sound(s, W, R, {}, st),
           s.current[v] # Unknown, NEW e, Flying(s, W, R, {}, e), OthersTold(s, e, v),
           v \in Tracked(s, e) => Even(s, v) /\ Wants(s, v)
    PROVE  LET t == Submit(s, v)
           IN  /\ Kept(t, W, R, {}, st, e)
               /\ t.connected = s.connected /\ t.later = s.later /\ t.current = s.current
               /\ v = Master \/ st # "running" => t.busy = s.busy
  <1> DEFINE p == [s EXCEPT !.submitted = s.submitted \cup {v}]
  <1>1. s \in SicType
    BY DEF Sound
  <1>2. /\ p \in SicType
        /\ p.current = s.current /\ p.queried = s.queried /\ p.pending = s.pending
        /\ p.submitted = s.submitted \cup {v} /\ p.busy = s.busy /\ p.sends = s.sends
        /\ p.connected = s.connected /\ p.later = s.later
        /\ p.asked = s.asked /\ p.failed = s.failed
    <2>1. s.submitted \cup {v} \in SUBSET Variable
      BY <1>1 DEF SicType
    <2>2. p \in SicType
      BY <1>1, <2>1, SubmittedType
    <2>3. QED
      BY <1>1, <2>2 DEF SicType
  <1>3. p = [s EXCEPT !.submitted = @ \cup {v}]
    BY <1>1 DEF SicType
  <1> HIDE DEF p
  <1>4. CASE v = Master
    <2>1. Tracks(s, W, R, {}, e)
      BY <1>4 DEF Tracks, OthersTold, Fresh
    <2>2. QED
      BY <1>4, <2>1 DEF Submit, Kept
  <1>5. CASE v # Master
    <2>1. Sound(p, W, R, {}, st)
      BY <1>2, <1>5 DEF Sound, Out, Known, HeldBack, Told
    <2>2. Flying(p, W, R, {}, e) /\ Tracked(p, e) = Tracked(s, e)
      BY <1>2, SameFlying
    <2>3. \A u \in Tracked(p, e) : Even(p, u) /\ Fresh(p, e, u) /\ (u # Master => Wants(p, u))
      BY <1>2, <1>5, <2>2 DEF OthersTold, Even, Fresh, Wants
    <2>4. CASE p.submitted # Variable
      <3>1. Submit(s, v) = p
        BY <1>3, <1>5, <2>4 DEF Submit
      <3>2. s.submitted # Variable
        BY <1>2, <2>4
      <3>3. \A u \in Tracked(p, e) : Wants(p, u)
        BY <1>2, <1>5, <2>2, <2>4, <3>2 DEF OthersTold, Wants
      <3>4. Tracks(p, W, R, {}, e)
        BY <2>2, <2>3, <3>3 DEF Tracks
      <3>5. QED
        BY <3>1, <3>4, <1>2, <2>1 DEF Kept
    <2>5. CASE p.submitted = Variable
      <3>1. Submit(s, v) = SetState(p, Master, "ready")
        BY <1>3, <1>5, <2>5 DEF Submit
      <3>2. st = "running"
        BY <2>1, <2>5, NamesDiffer DEF Sound, HeldBack
      <3>3. OthersTold(p, e, Master)
        BY <2>3 DEF OthersTold
      <3>4. LET t == SetState(p, Master, "ready")
            IN  /\ Kept(t, W, R, {}, st, e)
                /\ t.connected = p.connected /\ t.later = p.later /\ t.current = p.current
                /\ p.busy \subseteq t.busy /\ t.busy \subseteq p.busy \cup {Master}
        BY <2>1, <2>2, <2>3, <3>2, <3>3, NamesDiffer, SetStateKept
      <3>5. QED
        BY <3>1, <3>2, <3>4, <1>2, <1>5
    <2>6. QED
      BY <2>4, <2>5
  <1>6. QED
    BY <1>4, <1>5

LEMMA AfterCallbackKept ==
    ASSUME NEW s, NEW W, NEW R, NEW st, NEW v \in Variable, NEW e, Kept(s, W, R, {v}, st, e),
           s.current[v] # Unknown
    PROVE  LET t == AfterCallback(s, v)
           IN  /\ Kept(t, W, R, {}, st, e)
               /\ t.later = s.later /\ t.current = s.current
               /\ v = Master => t.connected \in {None, s.later}
               /\ v # Master => t.connected = s.connected
               /\ v # Master /\ st # "running" /\ Master \in t.busy => Master \in s.busy
  <1> DEFINE r == Landed(s, v)
             u == ContinuePending(r, v)
             t == Submit(u, v)
  <1>1. Sound(s, W, R, {v}, st) /\ v \in s.busy /\ s.queried[v] # Unknown /\ s \in SicType
    BY DEF Kept, Sound, Known
  <1>2. AfterCallback(s, v) = t
    <2>1. r = [s EXCEPT !.busy = @ \ {v}, !.connected = IF v = Master THEN None ELSE @]
      BY <1>1 DEF Landed, SicType
    <2> HIDE DEF r
    <2>2. QED
      BY <2>1 DEF AfterCallback
  <1>3. /\ Sound(r, W, R, {}, st)
        /\ r.connected = (IF v = Master THEN None ELSE s.connected)
        /\ r.later = s.later /\ r.busy = s.busy \ {v}
        /\ r.current = s.current /\ r.queried = s.queried
    <2>1. Sound(s, W, R, {v}, st)
      BY DEF Kept
    <2> HIDE DEF r
    <2>2. QED
      BY <2>1, LandedSound DEF r
  <1>4. /\ Flying(r, W, R, {}, e) /\ OthersTold(r, e, v)
        /\ v \in Tracked(r, e) => Wants(r, v)
    BY <1>1, LandedTracks DEF Kept
  <1> HIDE DEF r
  <1>5. v \notin r.busy /\ r.current[v] # Unknown /\ r.queried[v] # Unknown
    BY <1>1, <1>3
  <1>6. /\ Sound(u, W, R, {}, st)
        /\ u.connected \in {r.connected, r.later} /\ (v # Master => u.connected = r.connected)
        /\ u.later = r.later /\ u.current = r.current
        /\ u.busy \subseteq r.busy \cup {v}
    BY <1>3, <1>5, ContinuePendingSound
  <1>7. /\ Flying(u, W, R, {}, e) /\ OthersTold(u, e, v)
        /\ v \in Tracked(u, e) => Even(u, v) /\ Wants(u, v)
    BY <1>3, <1>4, <1>5, ContinuePendingTracks
  <1> HIDE DEF u
  <1>8. u.current[v] # Unknown
    BY <1>3, <1>6
  <1>9. /\ Kept(t, W, R, {}, st, e)
        /\ t.connected = u.connected /\ t.later = u.later /\ t.current = u.current
        /\ v = Master \/ st # "running" => t.busy = u.busy
    BY <1>6, <1>7, <1>8, SubmitKept
  <1> HIDE DEF t
  <1>10. t.later = s.later /\ t.current = s.current
    BY <1>3, <1>6, <1>9
  <1>11. /\ v = Master => t.connected \in {None, s.later}
         /\ v # Master => t.connected = s.connected
    BY <1>3, <1>6, <1>9
  <1>12. v # Master /\ st # "running" /\ Master \in t.busy => Master \in s.busy
    BY <1>3, <1>6, <1>9
  <1>13. QED
    BY <1>2, <1>9, <1>10, <1>11, <1>12

-----------------------------------------------------------------------------
(* Ends of queries, on the wire and in the members.                        *)

LEMMA KeptLater ==
    ASSUME NEW s, NEW W, NEW R, NEW D, NEW st, NEW st2, NEW e, Kept(s, W, R, D, st, e),
           st = "running" => st2 = "running"
    PROVE  Kept(s, W, R, D, st2, e)
  BY DEF Kept, Sound, HeldBack, Told

\* What is left on the wire keeps its order and its neighbours.
LEMMA RemoveAtSeq ==
    ASSUME NEW q \in Seq(Query), NEW k \in DOMAIN q
    PROVE  LET p == RemoveAt(q, k)
               at(i) == IF i < k THEN i ELSE i + 1
           IN  /\ p \in Seq(Query)
               /\ \A i \in DOMAIN p : at(i) \in DOMAIN q \ {k} /\ p[i] = q[at(i)]
               /\ \A i, j \in DOMAIN p : (at(i) = at(j) => i = j) /\ (at(i) < at(j) => i < j)
  <1> DEFINE n == Len(q)
             a == SubSeq(q, 1, k - 1)
             b == SubSeq(q, k + 1, n)
             p == a \o b
             at(i) == IF i < k THEN i ELSE i + 1
  <1>1. n \in Nat /\ k \in 1 .. n /\ DOMAIN q = 1 .. n
    OBVIOUS
  <1>2. a \in Seq(Query) /\ Len(a) = k - 1 /\ \A i \in 1 .. k - 1 : a[i] = q[i]
    BY <1>1
  <1>3. b \in Seq(Query) /\ Len(b) = n - k /\ \A i \in 1 .. n - k : b[i] = q[k + i]
    BY <1>1
  <1> HIDE DEF a, b, n
  <1>4. /\ p \in Seq(Query) /\ Len(p) = n - 1 /\ DOMAIN p = 1 .. n - 1
        /\ \A i \in 1 .. n - 1 : p[i] = IF i < k THEN a[i] ELSE b[i - (k - 1)]
    <2>1. /\ p \in Seq(Query) /\ Len(p) = Len(a) + Len(b)
          /\ \A i \in 1 .. Len(a) + Len(b) : p[i] = IF i <= Len(a) THEN a[i] ELSE b[i - Len(a)]
      BY <1>2, <1>3, ConcatProperties
    <2>2. Len(a) + Len(b) = n - 1 /\ Len(p) = n - 1
      BY <1>1, <1>2, <1>3, <2>1
    <2>3. DOMAIN p = 1 .. n - 1
      BY <2>1, <2>2
    <2> HIDE DEF p
    <2>4. \A i \in 1 .. n - 1 : i <= k - 1 <=> i < k
      BY <1>1
    <2>5. QED
      BY <1>2, <2>1, <2>2, <2>3, <2>4
  <1>5. ASSUME NEW i \in 1 .. n - 1
        PROVE  at(i) \in 1 .. n /\ at(i) # k /\ p[i] = q[at(i)]
    <2>1. CASE i < k
      BY <1>1, <1>2, <1>4, <2>1
    <2>2. CASE ~(i < k)
      <3>1. i - (k - 1) \in 1 .. n - k /\ k + (i - (k - 1)) = i + 1
        BY <1>1, <2>2
      <3>2. p[i] = q[i + 1]
        BY <1>3, <1>4, <2>2, <3>1
      <3>3. QED
        BY <1>1, <2>2, <3>2
    <2>3. QED
      BY <2>1, <2>2
  <1>6. \A i, j \in 1 .. n - 1 : (at(i) = at(j) => i = j) /\ (at(i) < at(j) => i < j)
    BY <1>1
  <1>7. RemoveAt(q, k) = p
    BY DEF RemoveAt, a, b, n
  <1>8. QED
    <2> HIDE DEF p
    <2>1. QED
      BY <1>1, <1>4, <1>5, <1>6, <1>7

LEMMA RemoveFlight ==
    ASSUME NEW q \in Seq(Query), NEW R, NEW B, Flight(q, R, B), NEW k \in DOMAIN q
    PROVE  LET p == RemoveAt(q, k)
           IN  /\ p \in Seq(Query)
               /\ Flight(p, R \ {q[k].from}, B)
               /\ q[k].from \in Variable => Flight(p, R \ {q[k].from}, B \ {q[k].from})
               /\ \A i \in DOMAIN p : \E j \in DOMAIN q : p[i] = q[j]
  <1> DEFINE p == RemoveAt(q, k)
             at(i) == IF i < k THEN i ELSE i + 1
             x == q[k].from
  <1>1. /\ p \in Seq(Query)
        /\ \A i \in DOMAIN p : at(i) \in DOMAIN q \ {k} /\ p[i] = q[at(i)]
        /\ \A i, j \in DOMAIN p : at(i) = at(j) => i = j
    BY RemoveAtSeq
  <1> HIDE DEF p, at
  <1>2. \A i \in DOMAIN p : p[i].from \in Variable => /\ p[i].from \in B /\ p[i].from # x
                                                   /\ DOMAIN p[i].tells = {p[i].from}
    BY <1>1 DEF Flight
  <1>3. \A i, j \in DOMAIN p : p[i].from \in Variable /\ p[i].from = p[j].from => i = j
    BY <1>1 DEF Flight
  <1>4. \A v \in (R \ {x}) \cap Variable : v \in B /\ v # x /\ \A i \in DOMAIN p : p[i].from # v
    BY <1>1 DEF Flight
  <1>5. Flight(p, R \ {x}, B) /\ Flight(p, R \ {x}, B \ {x})
    BY <1>2, <1>3, <1>4 DEF Flight
  <1>6. \A i \in DOMAIN p : \E j \in DOMAIN q : p[i] = q[j]
    BY <1>1
  <1>7. QED
    BY <1>1, <1>5, <1>6 DEF p

LEMMA QueryFailedSound ==
    ASSUME NEW s, NEW W, NEW R, NEW st, NEW v \in Variable, NEW D, D = {v},
           Sound(s, W, R, D, st)
    PROVE  LET t == QueryFailed(s, v)
           IN  /\ Sound(t, W, R, {}, st)
               /\ t.connected = (IF v = Master THEN None ELSE s.connected)
               /\ t.later = s.later /\ t.busy = s.busy \ {v}
               /\ t.current = s.current /\ t.sends = s.sends
  <1> DEFINE t == QueryFailed(s, v)
             c == IF v = Master THEN None ELSE s.connected
  <1>1. s \in SicType /\ v \in s.busy
    BY DEF Sound
  <1>2. /\ s.busy \ {v} \in SUBSET Variable /\ c \in Callback \cup {None}
        /\ s.failed \cup {v} \in SUBSET Variable
    BY <1>1 DEF SicType
  <1>3. t = [s EXCEPT !.busy = s.busy \ {v}, !.connected = c, !.failed = s.failed \cup {v}]
    BY <1>1 DEF QueryFailed, SicType
  <1> HIDE DEF c, t
  <1>4. t \in SicType
    BY <1>1, <1>2, <1>3, EndType
  <1>5. /\ t.current = s.current /\ t.queried = s.queried /\ t.pending = s.pending
        /\ t.submitted = s.submitted /\ t.busy = s.busy \ {v} /\ t.sends = s.sends
        /\ t.connected = c /\ t.later = s.later
    BY <1>1, <1>3 DEF SicType
  <1>6. t.busy \ {} = s.busy \ {v}
    BY <1>5
  <1>7. Out(t, W) = Out(s, W)
    BY <1>5 DEF Out
  <1>8. Flight(Out(t, W), R, t.busy \ {})
    BY <1>6, <1>7 DEF Sound
  <1>9. Known(t) /\ HeldBack(t, Out(t, W), st)
    BY <1>5, <1>7 DEF Sound, Known, HeldBack, Told
  <1>10. Sound(t, W, R, {}, st)
    BY <1>4, <1>8, <1>9 DEF Sound
  <1>11. QED
    BY <1>5, <1>10 DEF t, c

LEMMA NothingToSend ==
    ASSUME NEW s \in SicType, NEW W \in Seq(Query), s.sends = <<>>
    PROVE  Out(s, W) = W
  BY ConcatEmptySeq DEF Out

\* What a callback has sent is on the wire.
LEMMA SentKept ==
    ASSUME NEW s, NEW W, NEW R, NEW st, NEW e, Kept(s, W, R, {}, st, e),
           NEW t \in SicType, NEW q \in Seq(Query), t.sends = <<>>, q = Out(s, W),
           t.current = s.current, t.queried = s.queried, t.pending = s.pending, t.busy = s.busy,
           t.submitted = s.submitted, t.asked = s.asked, t.failed = s.failed
    PROVE  Kept(t, q, R, {}, st, e)
  <1>1. Out(t, q) = q
    BY NothingToSend
  <1>2. Sound(t, q, R, {}, st)
    BY <1>1 DEF Kept, Sound, Known, HeldBack, Told
  <1>3. Tracked(t, e) = Tracked(s, e)
    BY DEF Tracked
  <1>4. \A u : Flies(s, q, R, {}, e, u) => Flies(t, q, R, {}, e, u)
    BY DEF Flies, Replayed
  <1>5. Flying(t, q, R, {}, e)
    BY <1>1, <1>3, <1>4 DEF Kept, Tracks, Flying
  <1>6. Tracks(t, q, R, {}, e)
    BY <1>3, <1>5 DEF Kept, Tracks, Even, Fresh, Wants
  <1>7. QED
    BY <1>2, <1>6 DEF Kept

\* The end of a callback.
LEMMA SicKept ==
    ASSUME NEW s, NEW R, NEW st, NEW e, Kept(s, wire, R, {}, st, e), Sic(s)
    PROVE  /\ Kept(sic', wire', R, {}, st, e) /\ sic'.sends = <<>>
           /\ sic'.connected = s.connected /\ sic'.later = s.later
           /\ sic'.busy = s.busy /\ sic'.current = s.current
  <1>1. s \in SicType /\ wire \in Seq(Query)
    BY DEF Kept, Sound
  <1>2. sic' = [s EXCEPT !.sends = <<>>] /\ wire' = Out(s, wire)
    BY DEF Sic, Out
  <1>3. /\ sic' \in SicType /\ sic'.sends = <<>>
        /\ sic'.current = s.current /\ sic'.queried = s.queried /\ sic'.pending = s.pending
        /\ sic'.submitted = s.submitted /\ sic'.busy = s.busy
        /\ sic'.connected = s.connected /\ sic'.later = s.later
        /\ sic'.asked = s.asked /\ sic'.failed = s.failed
    <2>1. <<>> \in Seq(Query)
      OBVIOUS
    <2>2. sic' \in SicType
      BY <1>1, <1>2, <2>1, SendsType
    <2>3. QED
      BY <1>1, <1>2, <2>2 DEF SicType
  <1>4. wire' \in Seq(Query)
    BY <1>1, <1>2 DEF Out, SicType
  <1>5. Kept(sic', wire', R, {}, st, e)
    BY <1>2, <1>3, <1>4, SentKept
  <1>6. QED
    BY <1>3, <1>5

\* The query of v has failed; its message, if it is still there, goes with it.
LEMMA LostSound ==
    ASSUME NEW s, NEW R, NEW st, Sound(s, wire, R, {}, st), s.sends = <<>>, NEW v \in s.busy
    PROVE  Sound(s, WireWithout(v), R \ {v}, {v}, st)
  <1>1. s \in SicType /\ wire \in Seq(Query) /\ v \in Variable /\ s.busy \ {} = s.busy
    BY DEF Sound, SicType
  <1>2. Flight(wire, R, s.busy) /\ HeldBack(s, wire, st)
    BY <1>1, NothingToSend DEF Sound
  <1>3. CASE OnWire(v)
    <2> DEFINE k == CHOOSE i \in DOMAIN wire : wire[i].from = v
    <2>1. k \in DOMAIN wire /\ wire[k].from = v
      BY <1>3 DEF OnWire
    <2> HIDE DEF k
    <2>2. WireWithout(v) = RemoveAt(wire, k)
      BY <1>3 DEF WireWithout, k
    <2> DEFINE p == WireWithout(v)
    <2>3. /\ p \in Seq(Query) /\ Flight(p, R \ {v}, s.busy \ {v})
          /\ \A i \in DOMAIN p : \E j \in DOMAIN wire : p[i] = wire[j]
      BY <1>1, <1>2, <2>1, <2>2, RemoveFlight
    <2> HIDE DEF p
    <2>4. Out(s, p) = p
      BY <1>1, <2>3, NothingToSend
    <2>5. HeldBack(s, p, st)
      BY <1>2, <2>3 DEF HeldBack
    <2>6. QED
      BY <1>1, <2>3, <2>4, <2>5 DEF Sound, p
  <1>4. CASE ~OnWire(v)
    <2>1. WireWithout(v) = wire
      BY <1>4 DEF WireWithout
    <2>2. Flight(wire, R \ {v}, s.busy \ {v})
      BY <1>2, <1>4 DEF Flight, OnWire
    <2>3. QED
      BY <1>1, <1>2, <2>1, <2>2, NothingToSend DEF Sound
  <1>5. QED
    BY <1>3, <1>4

LEMMA RemoveFlies ==
    ASSUME NEW s, NEW q \in Seq(Query), NEW R, NEW e, NEW k \in DOMAIN q, NEW u, u # q[k].from,
           Flies(s, q, R, {}, e, u)
    PROVE  Flies(s, RemoveAt(q, k), R \ {q[k].from}, {}, e, u)
  <1> DEFINE p == RemoveAt(q, k)
             at(i) == IF i < k THEN i ELSE i + 1
             R2 == R \ {q[k].from}
  <1>1. /\ \A i \in DOMAIN p : at(i) \in DOMAIN q \ {k} /\ p[i] = q[at(i)]
        /\ \A i, j \in DOMAIN p : at(i) < at(j) => i < j
    BY RemoveAtSeq
  <1>2. R2 \subseteq R
    OBVIOUS
  <1> HIDE DEF p, at, R2
  <1>3. /\ \A i \in DOMAIN p : p[i].from = u => p[i] = Asks(u, s.queried[u])
        /\ ~e.forgotten => /\ u \in R2 => e.dc[u] = s.queried[u]
                           /\ u \notin s.busy \ {} => e.dc[u] = s.current[u]
    BY <1>1, <1>2 DEF Flies
  <1>4. ASSUME NEW i \in DOMAIN p, p[i].from = Updater
        PROVE  IF e.replaying THEN Replayed(s, p, R2, {}, e, u, i) ELSE u \notin DOMAIN p[i].tells
    <2>1. /\ at(i) \in DOMAIN q /\ p[i] = q[at(i)]
          /\ IF e.replaying THEN Replayed(s, q, R, {}, e, u, at(i)) ELSE u \notin DOMAIN p[i].tells
      BY <1>1, <1>4 DEF Flies
    <2>2. QED
      BY <1>1, <1>2, <2>1 DEF Replayed
  <1>5. Flies(s, p, R2, {}, e, u)
    BY <1>3, <1>4 DEF Flies
  <1>6. QED
    BY <1>5 DEF p, R2

LEMMA RemoveAlone ==
    ASSUME NEW q \in Seq(Query), NEW R, NEW e, Alone(q, R, e), NEW k \in DOMAIN q
    PROVE  LET p == RemoveAt(q, k)
           IN  /\ Alone(p, R \ {q[k].from}, e)
               /\ q[k].from = Updater => \A i \in DOMAIN p : p[i].from # Updater
  <1> DEFINE p == RemoveAt(q, k)
             at(i) == IF i < k THEN i ELSE i + 1
             R2 == R \ {q[k].from}
  <1>1. /\ \A i \in DOMAIN p : at(i) \in DOMAIN q \ {k} /\ p[i] = q[at(i)]
        /\ \A i, j \in DOMAIN p : at(i) = at(j) => i = j
    BY RemoveAtSeq
  <1>2. R2 \subseteq R
    OBVIOUS
  <1> HIDE DEF p, at, R2
  <1>3. Alone(p, R2, e)
    BY <1>1, <1>2 DEF Alone
  <1>4. q[k].from = Updater => \A i \in DOMAIN p : p[i].from # Updater
    BY <1>1 DEF Alone
  <1>5. QED
    BY <1>3, <1>4 DEF p, R2

\* When the query of x has failed, the others are where they were.
LEMMA WithoutOthers ==
    ASSUME NEW s, NEW R, NEW e, NEW x, wire \in Seq(Query), Alone(wire, R, e)
    PROVE  /\ Alone(WireWithout(x), R \ {x}, e)
           /\ x = Updater => \A i \in DOMAIN WireWithout(x) : WireWithout(x)[i].from # Updater
           /\ \A u : u # x /\ Flies(s, wire, R, {}, e, u) =>
                     Flies(s, WireWithout(x), R \ {x}, {}, e, u)
  <1>1. CASE OnWire(x)
    <2> DEFINE k == CHOOSE i \in DOMAIN wire : wire[i].from = x
    <2>1. k \in DOMAIN wire /\ wire[k].from = x
      BY <1>1 DEF OnWire
    <2>2. WireWithout(x) = RemoveAt(wire, k)
      BY <1>1 DEF WireWithout
    <2> HIDE DEF k
    <2> DEFINE p == WireWithout(x)
    <2>3. /\ Alone(p, R \ {x}, e)
          /\ x = Updater => \A i \in DOMAIN p : p[i].from # Updater
      <3>1. LET r == RemoveAt(wire, k)
            IN  /\ Alone(r, R \ {wire[k].from}, e)
                /\ wire[k].from = Updater => \A i \in DOMAIN r : r[i].from # Updater
        BY <2>1, RemoveAlone
      <3>2. QED
        BY <2>1, <2>2, <3>1
    <2>4. ASSUME NEW u, u # x, Flies(s, wire, R, {}, e, u) PROVE Flies(s, p, R \ {x}, {}, e, u)
      <3>1. Flies(s, RemoveAt(wire, k), R \ {wire[k].from}, {}, e, u)
        BY <2>1, <2>4, RemoveFlies
      <3>2. QED
        BY <2>1, <2>2, <3>1
    <2>5. QED
      BY <2>3, <2>4
  <1>2. CASE ~OnWire(x)
    <2>1. WireWithout(x) = wire
      BY <1>2 DEF WireWithout
    <2>2. Alone(wire, R \ {x}, e)
      BY DEF Alone
    <2>3. ASSUME NEW u, u # x, Flies(s, wire, R, {}, e, u) PROVE Flies(s, wire, R \ {x}, {}, e, u)
      BY <2>3 DEF Flies, Replayed
    <2>4. QED
      BY <1>2, <2>1, <2>2, <2>3 DEF OnWire
  <1>3. QED
    BY <1>1, <1>2

LEMMA QueryFailedKept ==
    ASSUME NEW s, NEW R, NEW st, NEW e, Kept(s, wire, R, {}, st, e), s.sends = <<>>,
           NEW v \in s.busy
    PROVE  LET t == QueryFailed(s, v)
           IN  /\ Kept(t, WireWithout(v), R \ {v}, {}, st, e)
               /\ t.connected = (IF v = Master THEN None ELSE s.connected)
               /\ t.later = s.later /\ t.busy = s.busy \ {v}
               /\ t.current = s.current /\ t.sends = s.sends
  <1> DEFINE t == QueryFailed(s, v)
             p == WireWithout(v)
  <1>1. /\ s \in SicType /\ wire \in Seq(Query) /\ v \in Variable /\ Out(s, wire) = wire
        /\ Sound(s, wire, R, {}, st)
    BY NothingToSend DEF Kept, Sound, SicType
  <1>2. Sound(s, p, R \ {v}, {v}, st)
    BY <1>1, LostSound
  <1>3. /\ Sound(t, p, R \ {v}, {}, st)
        /\ t.connected = (IF v = Master THEN None ELSE s.connected)
        /\ t.later = s.later /\ t.busy = s.busy \ {v}
        /\ t.current = s.current /\ t.sends = s.sends
    BY <1>1, <1>2, QueryFailedSound
  <1>4. /\ t.queried = s.queried /\ t.pending = s.pending /\ t.submitted = s.submitted
        /\ t.asked = s.asked /\ t.failed = s.failed \cup {v}
    BY <1>1 DEF QueryFailed, SicType
  <1> HIDE DEF t
  <1>5. Alone(wire, R, e)
    BY <1>1 DEF Kept, Tracks, Flying
  <1>6. /\ Alone(p, R \ {v}, e)
        /\ \A u : u # v /\ Flies(s, wire, R, {}, e, u) => Flies(s, p, R \ {v}, {}, e, u)
    BY <1>1, <1>5, WithoutOthers
  <1> HIDE DEF p
  <1>7. p \in Seq(Query) /\ Out(t, p) = p
    BY <1>3, NothingToSend DEF Sound
  <1>8. ASSUME NEW u \in Tracked(t, e)
        PROVE  Flies(t, p, R \ {v}, {}, e, u) /\ Even(t, u) /\ Fresh(t, e, u) /\ Wants(t, u)
    <2>1. u \in Tracked(s, e) /\ u # v
      BY <1>4 DEF Tracked
    <2>2. Flies(s, wire, R, {}, e, u) /\ Even(s, u) /\ Fresh(s, e, u) /\ Wants(s, u)
      BY <1>1, <2>1 DEF Kept, Tracks, Flying
    <2>3. Flies(s, p, R \ {v}, {}, e, u)
      BY <1>6, <2>1, <2>2
    <2>4. Flies(t, p, R \ {v}, {}, e, u)
      BY <1>3, <1>4, <2>1, <2>3 DEF Flies, Replayed
    <2>5. QED
      BY <1>3, <1>4, <2>1, <2>2, <2>4 DEF Even, Fresh, Wants
  <1>9. Tracks(t, p, R \ {v}, {}, e)
    BY <1>6, <1>7, <1>8 DEF Tracks, Flying
  <1>10. QED
    BY <1>3, <1>9 DEF Kept, t, p

\* The same for the query of the update, of which nothing is left.
LEMMA UpdaterLostSound ==
    ASSUME NEW s, NEW R, NEW st, Sound(s, wire, R, {}, st), s.sends = <<>>
    PROVE  Sound(s, WireWithout(Updater), R \ {Updater}, {}, st)
  <1>1. s \in SicType /\ wire \in Seq(Query) /\ s.busy \ {} = s.busy
    BY DEF Sound, SicType
  <1>2. Flight(wire, R, s.busy) /\ HeldBack(s, wire, st)
    BY <1>1, NothingToSend DEF Sound
  <1>3. CASE OnWire(Updater)
    <2> DEFINE k == CHOOSE i \in DOMAIN wire : wire[i].from = Updater
    <2>1. k \in DOMAIN wire /\ wire[k].from = Updater
      BY <1>3 DEF OnWire
    <2> HIDE DEF k
    <2>2. WireWithout(Updater) = RemoveAt(wire, k)
      BY <1>3 DEF WireWithout, k
    <2> DEFINE p == WireWithout(Updater)
    <2>3. /\ p \in Seq(Query) /\ Flight(p, R \ {Updater}, s.busy)
          /\ \A i \in DOMAIN p : \E j \in DOMAIN wire : p[i] = wire[j]
      <3> DEFINE B == s.busy
      <3> HIDE DEF B
      <3>1. LET r == RemoveAt(wire, k)
            IN  /\ r \in Seq(Query) /\ Flight(r, R \ {wire[k].from}, B)
                /\ \A i \in DOMAIN r : \E j \in DOMAIN wire : r[i] = wire[j]
        BY <1>1, <1>2, <2>1, RemoveFlight DEF B
      <3>2. QED
        BY <3>1, <2>1, <2>2 DEF B
    <2> HIDE DEF p
    <2>4. Out(s, p) = p
      BY <1>1, <2>3, NothingToSend
    <2>5. HeldBack(s, p, st)
      BY <1>2, <2>3 DEF HeldBack
    <2>6. Flight(Out(s, p), R \ {Updater}, s.busy \ {})
      <3> DEFINE B == s.busy \ {}
      <3>1. B = s.busy
        OBVIOUS
      <3> HIDE DEF B
      <3>2. Flight(Out(s, p), R \ {Updater}, B)
        BY <2>3, <2>4, <3>1
      <3>3. QED
        BY <3>2 DEF B
    <2>7. QED
      BY <1>1, <2>3, <2>4, <2>5, <2>6 DEF Sound, p
  <1>4. CASE ~OnWire(Updater)
    BY <1>4, SoundFewer DEF WireWithout
  <1>5. QED
    BY <1>3, <1>4

LEMMA UpdaterLostKept ==
    ASSUME NEW s, NEW R, NEW st, NEW e, Kept(s, wire, R, {}, st, e), s.sends = <<>>
    PROVE  LET p == WireWithout(Updater)
           IN  Kept(s, p, R \ {Updater}, {}, st, e) /\ \A i \in DOMAIN p : p[i].from # Updater
  <1> DEFINE p == WireWithout(Updater)
             R2 == R \ {Updater}
  <1>1. s \in SicType /\ wire \in Seq(Query) /\ Out(s, wire) = wire /\ Sound(s, wire, R, {}, st)
    BY NothingToSend DEF Kept, Sound
  <1>2. Sound(s, p, R2, {}, st)
    BY <1>1, UpdaterLostSound
  <1>3. Alone(wire, R, e)
    BY <1>1 DEF Kept, Tracks, Flying
  <1>4. /\ Alone(p, R2, e) /\ \A i \in DOMAIN p : p[i].from # Updater
        /\ \A u : u # Updater /\ Flies(s, wire, R, {}, e, u) => Flies(s, p, R2, {}, e, u)
    BY <1>1, <1>3, WithoutOthers
  <1> HIDE DEF p, R2
  <1>5. p \in Seq(Query) /\ Out(s, p) = p
    BY <1>1, <1>2, NothingToSend DEF Sound
  <1>6. \A u \in Tracked(s, e) : Flies(s, p, R2, {}, e, u)
    BY <1>1, <1>4, NamesDiffer DEF Kept, Tracks, Flying, Tracked
  <1>7. Tracks(s, p, R2, {}, e)
    BY <1>4, <1>5, <1>6 DEF Kept, Tracks, Flying
  <1>8. QED
    BY <1>2, <1>4, <1>7 DEF Kept, p, R2

\* When the update has no query, what it does otherwise does not matter.
LEMMA EnvKept ==
    ASSUME NEW s, NEW W, NEW R, NEW st, NEW e, NEW e2, Kept(s, W, R, {}, st, e),
           Updater \notin R, \A i \in DOMAIN Out(s, W) : Out(s, W)[i].from # Updater,
           e2.dc = e.dc, e2.forgotten = e.forgotten, Tracked(s, e2) \subseteq Tracked(s, e)
    PROVE  Kept(s, W, R, {}, st, e2)
  <1>1. Alone(Out(s, W), R, e2)
    BY DEF Alone
  <1>2. \A u \in Tracked(s, e) : Flies(s, Out(s, W), R, {}, e2, u)
    BY DEF Kept, Tracks, Flying, Flies
  <1>3. QED
    BY <1>1, <1>2 DEF Kept, Tracks, Flying, Fresh

-----------------------------------------------------------------------------
(* The inductive invariant.                                                *)

QueryBooting == "query_booting_finished"
QueryReady == "query_ready_finished"

\* Where the two callbacks of the start may be: that for "ready" only when
\* the start is over, that for "booting" at one place and only before.
Calls(s, T, st) ==
    /\ QueryReady \in T \cup {s.connected, s.later} => st = "running"
    /\ QueryBooting \in T \cup {s.connected, s.later} => st = "booting"
    /\ st = "booting" => /\ s.later = None
                         /\ Master \in s.busy => s.connected = QueryBooting
                         /\ s.connected = QueryBooting => QueryBooting \notin T

DcStates == [Variable -> State \cup {Unknown, "restart"}]

IInv ==
    /\ Kept(sic, wire, replied, {}, stage, Env) /\ sic.sends = <<>>
    /\ Calls(sic, retry, stage) /\ retry \subseteq Callback
    /\ stage \in Stages
    /\ partThrees = IF stage = "running" THEN 1 ELSE 0
    /\ dc \in DcStates
    /\ dc[Master] = "ready" => Told(sic, stage)
    /\ step = "idle" => target = None

LEMMA CallbackNames == /\ Callback = {QueryBooting, QueryReady} /\ QueryBooting # QueryReady
                       /\ None \notin Callback
  BY DEF Callback, QueryBooting, QueryReady, None

LEMMA InitInv == Init => IInv
  <1> SUFFICES ASSUME Init PROVE IInv
    OBVIOUS
  <1> DEFINE i == InitialSic
             s == SetStateAndCall(i, "booting", QueryBooting)
  <1>1. /\ i \in SicType /\ i.sends = <<>> /\ i.busy = {} /\ i.submitted = {}
        /\ i.connected = None /\ i.later = None
        /\ \A v \in Variable : /\ i.current[v] = Unknown /\ i.queried[v] = Unknown
                                /\ i.pending[v] = Unknown /\ i.asked[v] = Unknown
    BY DEF InitialSic, SicType
  <1>2. Sound(i, <<>>, {}, {}, "booting")
    <2>1. Unknown # "ready"
      BY DEF Unknown
    <2>2. <<>> \in Seq(Query) /\ DOMAIN <<>> = {}
      OBVIOUS
    <2> HIDE DEF i
    <2>3. Out(i, <<>>) = <<>>
      BY <1>1, <2>2, NothingToSend
    <2>4. Flight(<<>>, {}, i.busy \ {})
      BY <2>2 DEF Flight
    <2>5. Known(i)
      BY <1>1 DEF Known
    <2>6. HeldBack(i, <<>>, "booting")
      BY <1>1, <2>1, <2>2, NamesDiffer DEF HeldBack
    <2>7. QED
      BY <1>1, <2>2, <2>3, <2>4, <2>5, <2>6 DEF Sound
  <1> HIDE DEF i
  <1>3. Env.dc = [v \in Variable |-> Unknown] /\ ~Env.replaying /\ step = "idle" /\ target = None
    BY DEF Init, BootInit, InitLink, Env
  <1> DEFINE e == Env
  <1> HIDE DEF e
  <1>4. Kept(i, <<>>, {}, {}, "booting", e)
    <2>1. <<>> \in Seq(Query) /\ DOMAIN <<>> = {}
      OBVIOUS
    <2>2. Out(i, <<>>) = <<>>
      BY <1>1, <2>1, NothingToSend
    <2>3. Alone(<<>>, {}, e)
      BY <2>1 DEF Alone
    <2>4. \A v \in Variable : e.dc[v] = Unknown /\ i.current[v] = Unknown
      BY <1>1, <1>3 DEF e
    <2>5. \A v \in Variable : Flies(i, <<>>, {}, {}, e, v)
      BY <2>1, <2>4 DEF Flies
    <2>6. Flying(i, <<>>, {}, {}, e)
      BY <2>2, <2>3, <2>5 DEF Flying, Tracked
    <2>7. \A v \in Tracked(i, e) : Even(i, v) /\ Fresh(i, e, v) /\ Wants(i, v)
      BY <1>1, <2>4 DEF Tracked, Even, Fresh, Wants
    <2>8. QED
      BY <1>2, <2>6, <2>7 DEF Kept, Tracks
  <1>5. /\ Kept(s, <<>>, {}, {}, "booting", e) /\ s.current = i.current
        /\ s.connected = QueryBooting /\ s.later = None
    BY <1>1, <1>4, NamesDiffer, CallbackNames, SetStateAndCallKept
  <1>6. /\ sic = [s EXCEPT !.sends = <<>>] /\ wire = s.sends /\ replied = {}
        /\ dc = [v \in Variable |-> Unknown]
        /\ stage = "booting" /\ retry = {} /\ partThrees = 0
    BY DEF Init, BootInit, InitLink, i, QueryBooting
  <1> HIDE DEF s
  <1>7. s \in SicType /\ wire \in Seq(Query) /\ wire = Out(s, <<>>)
    BY <1>5, <1>6 DEF Kept, Sound, SicType, Out
  <1>8. /\ sic \in SicType /\ sic.sends = <<>>
        /\ sic.current = s.current /\ sic.queried = s.queried /\ sic.pending = s.pending
        /\ sic.submitted = s.submitted /\ sic.busy = s.busy
        /\ sic.connected = s.connected /\ sic.later = s.later
        /\ sic.asked = s.asked /\ sic.failed = s.failed
    <2>1. <<>> \in Seq(Query)
      OBVIOUS
    <2>2. sic \in SicType
      BY <1>6, <1>7, <2>1, SendsType
    <2>3. QED
      BY <1>6, <1>7, <2>2 DEF SicType
  <1>9. Kept(sic, wire, replied, {}, stage, e)
    BY <1>5, <1>6, <1>7, <1>8, SentKept
  <1>10. Calls(sic, retry, stage) /\ retry \subseteq Callback
    BY <1>5, <1>6, <1>8, CallbackNames DEF Calls
  <1>11. /\ dc \in DcStates /\ dc[Master] # "ready" /\ stage \in Stages
         /\ partThrees = IF stage = "running" THEN 1 ELSE 0
    BY <1>6, NamesDiffer DEF DcStates, Stages, Unknown
  <1>12. QED
    BY <1>3, <1>8, <1>9, <1>10, <1>11 DEF IInv, e

\* What the invariant speaks of.
core == <<sic, wire, replied, dc, stage, retry, partThrees, updateVars>>

LEMMA EnvSame == UNCHANGED <<dc, updateVars>> => Env' = Env /\ UNCHANGED <<step, target>>
  BY DEF Env, updateVars

LEMMA StutterInv == IInv /\ UNCHANGED core => IInv'
  <1> SUFFICES ASSUME IInv, UNCHANGED core PROVE IInv'
    OBVIOUS
  <1>1. Env' = Env /\ UNCHANGED <<step, target>>
    BY EnvSame DEF core
  <1>2. QED
    BY <1>1 DEF IInv, core, Calls, Told, DcStates

\* A callback that leaves the start where it is.
LEMMA SicInv ==
    ASSUME IInv, NEW s, Kept(s, wire, replied', {}, stage, Env), Sic(s),
           Calls(s, retry', stage), retry' \subseteq Callback,
           \A v \in Variable : sic.current[v] # Unknown => s.current[v] # Unknown,
           UNCHANGED <<dc, stage, partThrees, updateVars>>
    PROVE  IInv'
  <1>1. /\ Kept(sic', wire', replied', {}, stage', Env) /\ sic'.sends = <<>>
        /\ sic'.connected = s.connected /\ sic'.later = s.later
        /\ sic'.busy = s.busy /\ sic'.current = s.current
    BY SicKept
  <1>2. Calls(sic', retry', stage')
    BY <1>1 DEF Calls
  <1>3. dc'[Master] = "ready" => Told(sic', stage')
    BY <1>1 DEF IInv, Told
  <1>4. Env' = Env /\ UNCHANGED <<step, target>>
    BY EnvSame
  <1>5. QED
    BY <1>1, <1>2, <1>3, <1>4 DEF IInv

-----------------------------------------------------------------------------
(* The steps of the start.                                                 *)

\* From s to t, at most states of the folder are set.
FolderSet(s, t) ==
    /\ t.connected = s.connected /\ t.later = s.later /\ t.current = s.current
    /\ s.busy \subseteq t.busy /\ t.busy \subseteq s.busy \cup {Folder}

LEMMA SetFolder ==
    ASSUME NEW s, NEW W, NEW R, NEW D, NEW st, NEW e, Kept(s, W, R, D, st, e), NEW t,
           t \in {s} \cup {SetState(s, Folder, state) : state \in {"nodevice", "mountedrw", "unmounted"}}
    PROVE  Kept(t, W, R, D, st, e) /\ FolderSet(s, t)
  <1>1. CASE t = s
    BY <1>1 DEF FolderSet
  <1>2. CASE \E state \in {"nodevice", "mountedrw", "unmounted"} : t = SetState(s, Folder, state)
    <2>1. PICK state \in {"nodevice", "mountedrw", "unmounted"} : t = SetState(s, Folder, state)
      BY <1>2
    <2>2. Folder \in Variable /\ Folder # Master /\ state \in State
      BY BootAssumption
    <2>3. QED
      BY <2>1, <2>2, SetStateKept DEF FolderSet, Kept, Tracks, OthersTold
  <1>3. QED
    BY <1>1, <1>2

LEMMA SetInv ==
    ASSUME IInv, NEW v \in Variable \ {Master}, NEW state \in State,
           Sic(SetState(sic, v, state)),
           UNCHANGED <<replied, dc, stage, retry, partThrees, updateVars>>
    PROVE  IInv'
  <1> DEFINE s == SetState(sic, v, state)
  <1>1. /\ Kept(s, wire, replied, {}, stage, Env)
        /\ s.connected = sic.connected /\ s.later = sic.later /\ s.current = sic.current
        /\ sic.busy \subseteq s.busy /\ s.busy \subseteq sic.busy \cup {v}
    BY SetStateKept DEF IInv, Kept, Tracks, OthersTold
  <1>2. Sic(s)
    OBVIOUS
  <1> HIDE DEF s
  <1>3. Calls(s, retry, stage)
    BY <1>1 DEF IInv, Calls
  <1>4. retry \subseteq Callback
    BY DEF IInv
  <1>5. QED
    BY <1>1, <1>2, <1>3, <1>4, SicInv

LEMMA ReadyKept ==
    ASSUME NEW s, NEW W, NEW R, NEW D, NEW e, Kept(s, W, R, D, "running", e)
    PROVE  LET t == Ready(s)
           IN  /\ Kept(t, W, R, D, "running", e) /\ t.current = s.current
               /\ t.connected \in {s.connected, QueryReady} /\ t.later \in {s.later, QueryReady}
  <1>1. Ready(s) = SetStateAndCall(s, "ready", QueryReady) /\ QueryReady \in Callback
    BY DEF Ready, QueryReady, Callback
  <1> DEFINE t == SetStateAndCall(s, "ready", QueryReady)
  <1>2. /\ Kept(t, W, R, D, "running", e) /\ t.current = s.current
        /\ Master \in s.busy => t.connected = s.connected /\ t.later \in {s.later, QueryReady}
        /\ Master \notin s.busy => t.connected = QueryReady /\ t.later = s.later
    BY <1>1, NamesDiffer, SetStateAndCallKept
  <1> HIDE DEF t
  <1>3. QED
    BY <1>1, <1>2 DEF t

\* mount_ready, when s are the members after the states the mounter has set.
LEMMA MountReadyInv ==
    ASSUME IInv, NEW emitted, NEW s, MountReady(emitted, s),
           UNCHANGED <<replied, dc, retry, updateVars>>,
           Kept(s, wire, replied, {}, stage, Env), FolderSet(sic, s)
    PROVE  IInv'
  <1>1. /\ Kept(s, wire, replied, {}, stage, Env)
        /\ s.connected = sic.connected /\ s.later = sic.later /\ s.current = sic.current
        /\ sic.busy \subseteq s.busy /\ s.busy \subseteq sic.busy \cup {Folder}
    BY DEF FolderSet
  <1>2. Calls(s, retry, stage) /\ retry \subseteq Callback
    BY <1>1, BootAssumption DEF IInv, Calls
  <1>3. CASE emitted /\ stage = "part2"
    <2> DEFINE r == Ready(s)
    <2>1. stage' = "running" /\ partThrees' = 1 /\ Sic(r)
      BY <1>3 DEF MountReady, IInv
    <2>2. Kept(s, wire, replied, {}, "running", Env)
      BY <1>1, KeptLater
    <2>3. /\ Kept(r, wire, replied, {}, "running", Env) /\ r.current = s.current
          /\ r.connected \in {s.connected, QueryReady} /\ r.later \in {s.later, QueryReady}
      BY <2>2, ReadyKept
    <2> HIDE DEF r
    <2>4. /\ Kept(sic', wire', replied, {}, "running", Env) /\ sic'.sends = <<>>
          /\ sic'.connected = r.connected /\ sic'.later = r.later /\ sic'.current = r.current
      BY <2>1, <2>3, SicKept
    <2>5. Calls(sic', retry', stage')
      BY <1>2, <1>3, <2>1, <2>3, <2>4, CallbackNames DEF Calls
    <2>6. dc[Master] # "ready"
      BY <1>3 DEF IInv, Told
    <2>7. Env' = Env /\ UNCHANGED <<step, target>>
      BY EnvSame
    <2>8. QED
      BY <1>2, <2>1, <2>4, <2>5, <2>6, <2>7 DEF IInv, Stages
  <1>4. CASE ~(emitted /\ stage = "part2")
    <2>1. Sic(s) /\ UNCHANGED <<stage, partThrees>>
      BY <1>4 DEF MountReady
    <2>2. QED
      BY <1>1, <1>2, <2>1, SicInv
  <1>5. QED
    BY <1>3, <1>4

LEMMA BootingIsKnownInv == ASSUME IInv, BootingIsKnown, UNCHANGED updateVars PROVE IInv'
  <1>1. /\ Kept(sic, wire, replied, {}, stage, Env) /\ sic.connected = QueryBooting
        /\ Master \in replied \cap Variable /\ replied' = replied \ {Master}
        /\ dc' = dc /\ retry' = retry /\ retry \subseteq Callback
    BY NamesDiffer DEF BootingIsKnown, Replies, IInv, QueryBooting
  <1>2. Env' = Env /\ UNCHANGED <<step, target>>
    BY <1>1, EnvSame
  <1>3. stage = "booting" /\ sic.later = None /\ partThrees = 0 /\ retry \subseteq {}
    BY <1>1, CallbackNames DEF IInv, Calls
  <1> DEFINE p == Promoted(sic, Master)
  <1>4. Kept(sic, wire, replied, {}, "booting", Env)
    BY <1>1, <1>3
  <1>5. /\ Kept(p, wire, replied', {Master}, "booting", Env) /\ p.current[Master] # Unknown
        /\ p.connected = QueryBooting /\ p.later = None /\ Master \in p.busy
    BY <1>1, <1>3, <1>4, PromotedKept
  <1>6. PICK o \in MountOutcome :
           LET s == MountStates(o, p)
           IN  IF o \in NotMounted
               THEN /\ stage' = "running" /\ partThrees' = partThrees + 1
                    /\ Sic(AfterCallback(Ready(s), Master))
               ELSE /\ stage' = "part2" /\ UNCHANGED partThrees
                    /\ Sic(AfterCallback(s, Master))
    BY DEF BootingIsKnown
  <1> DEFINE s == MountStates(o, p)
  <1>7. s \in {p} \cup {SetState(p, Folder, state) : state \in {"nodevice", "mountedrw", "unmounted"}}
    BY DEF MountStates
  <1> HIDE DEF p, s
  <1>8. /\ Kept(s, wire, replied', {Master}, "booting", Env) /\ s.current[Master] # Unknown
        /\ s.connected = QueryBooting /\ s.later = None /\ Master \in s.busy
    BY <1>5, <1>7, SetFolder DEF FolderSet
  <1>9. dc[Master] # "ready"
    BY <1>3 DEF IInv, Told
  <1>10. CASE o \in NotMounted
    <2> DEFINE r == Ready(s)
               t == AfterCallback(r, Master)
    <2>1. stage' = "running" /\ partThrees' = 1 /\ Sic(t)
      BY <1>3, <1>6, <1>10 DEF s
    <2>2. Kept(s, wire, replied', {Master}, "running", Env)
      BY <1>8, KeptLater
    <2>3. /\ Kept(r, wire, replied', {Master}, "running", Env) /\ r.current = s.current
          /\ r.later \in {None, QueryReady}
      BY <1>8, <2>2, ReadyKept
    <2> HIDE DEF r
    <2>4. r.current[Master] # Unknown
      BY <1>8, <2>3
    <2>5. /\ Kept(t, wire, replied', {}, "running", Env)
          /\ t.later = r.later /\ t.connected \in {None, r.later}
      BY <2>3, <2>4, NamesDiffer, AfterCallbackKept
    <2> HIDE DEF t
    <2>6. /\ Kept(sic', wire', replied', {}, "running", Env) /\ sic'.sends = <<>>
          /\ sic'.connected = t.connected /\ sic'.later = t.later
      BY <2>1, <2>5, SicKept
    <2>7. Calls(sic', retry', stage')
      BY <1>1, <1>3, <2>1, <2>3, <2>5, <2>6, CallbackNames DEF Calls
    <2>8. QED
      BY <1>1, <1>2, <1>9, <2>1, <2>6, <2>7 DEF IInv, Stages
  <1>11. CASE o \notin NotMounted
    <2> DEFINE t == AfterCallback(s, Master)
    <2>1. stage' = "part2" /\ partThrees' = 0 /\ Sic(t)
      BY <1>3, <1>6, <1>11 DEF s
    <2>2. Kept(s, wire, replied', {Master}, "part2", Env)
      BY <1>8, KeptLater
    <2>3. /\ Kept(t, wire, replied', {}, "part2", Env)
          /\ t.later = None /\ t.connected = None
      BY <1>8, <2>2, NamesDiffer, AfterCallbackKept
    <2> HIDE DEF t
    <2>4. /\ Kept(sic', wire', replied', {}, "part2", Env) /\ sic'.sends = <<>>
          /\ sic'.connected = None /\ sic'.later = None
      BY <2>1, <2>3, SicKept
    <2>5. Calls(sic', retry', stage')
      BY <1>1, <1>3, <2>1, <2>4, CallbackNames DEF Calls
    <2>6. QED
      BY <1>1, <1>2, <1>9, <2>1, <2>4, <2>5 DEF IInv, Stages
  <1>12. QED
    BY <1>10, <1>11

LEMMA QuerySucceedsInv ==
    ASSUME IInv, NEW v \in Variable, QuerySucceeds(v), UNCHANGED updateVars PROVE IInv'
  <1>1. /\ Kept(sic, wire, replied, {}, stage, Env) /\ v \in replied \cap Variable
        /\ replied' = replied \ {v} /\ Sic(AfterCallback(Promoted(sic, v), v))
        /\ UNCHANGED <<dc, stage, retry, partThrees>> /\ retry \subseteq Callback
        /\ ~(v = Master /\ sic.connected = QueryBooting)
    BY DEF QuerySucceeds, Replies, IInv, QueryBooting, bootVars
  <1> DEFINE p == Promoted(sic, v)
             s == AfterCallback(p, v)
  <1>2. /\ v \in sic.busy /\ Kept(p, wire, replied', {v}, stage, Env) /\ p.current[v] # Unknown
        /\ p.connected = sic.connected /\ p.later = sic.later /\ p.busy = sic.busy
        /\ \A u \in Variable : sic.current[u] # Unknown => p.current[u] # Unknown
    BY <1>1, PromotedKept
  <1> HIDE DEF p
  <1>4. /\ Kept(s, wire, replied', {}, stage, Env)
        /\ s.later = p.later /\ s.current = p.current
        /\ v = Master => s.connected \in {None, p.later}
        /\ v # Master => s.connected = p.connected
        /\ v # Master /\ stage # "running" /\ Master \in s.busy => Master \in p.busy
    BY <1>2, AfterCallbackKept
  <1>5. Sic(s)
    BY <1>1 DEF p
  <1> HIDE DEF s
  <1>6. v = Master => stage # "booting"
    BY <1>1, <1>2 DEF IInv, Calls
  <1>7. Calls(s, retry, stage)
    <2>1. CASE v = Master
      BY <1>2, <1>4, <1>6, <2>1, CallbackNames DEF IInv, Calls
    <2>2. CASE v # Master
      BY <1>2, <1>4, <2>2 DEF IInv, Calls
    <2>3. QED
      BY <2>1, <2>2
  <1>8. QED
    BY <1>1, <1>2, <1>4, <1>5, <1>7, SicInv

LEMMA QueryFailsInv ==
    ASSUME IInv, NEW v \in Variable, QueryFails(v), UNCHANGED updateVars PROVE IInv'
  <1>1. /\ Kept(sic, wire, replied, {}, stage, Env) /\ v \in sic.busy /\ sic.sends = <<>>
        /\ replied' = replied \ {v} /\ sic' = QueryFailed(sic, v) /\ wire' = WireWithout(v)
        /\ retry' = IF v = Master THEN retry \cup ({sic.connected} \ {None}) ELSE retry
        /\ UNCHANGED <<dc, stage, partThrees>> /\ retry \subseteq Callback
    BY DEF QueryFails, Loses, IInv
  <1>3. /\ Kept(sic', wire', replied', {}, stage, Env)
        /\ sic'.connected = (IF v = Master THEN None ELSE sic.connected)
        /\ sic'.later = sic.later /\ sic'.busy = sic.busy \ {v}
        /\ sic'.current = sic.current /\ sic'.sends = sic.sends
    BY <1>1, QueryFailedKept
  <1>4. retry' \subseteq Callback
    BY <1>1 DEF Kept, Sound, SicType
  <1>5. Calls(sic', retry', stage)
    <2>1. CASE v = Master
      BY <1>1, <1>3, <2>1, CallbackNames DEF IInv, Calls
    <2>2. CASE v # Master
      BY <1>1, <1>3, <2>2 DEF IInv, Calls
    <2>3. QED
      BY <2>1, <2>2
  <1>6. Env' = Env /\ UNCHANGED <<step, target>>
    BY <1>1, EnvSame
  <1>7. QED
    BY <1>1, <1>3, <1>4, <1>5, <1>6 DEF IInv, Told

LEMMA RunQueryInv ==
    ASSUME IInv, RunQueryBooting \/ RunQueryReady, UNCHANGED updateVars PROVE IInv'
  <1>1. PICK c \in Callback, state \in State :
           /\ (c = QueryBooting /\ state = "booting") \/ (c = QueryReady /\ state = "ready")
           /\ RunQuery(c, state)
    BY NamesDiffer DEF RunQueryBooting, RunQueryReady, QueryBooting, QueryReady, Callback
  <1> DEFINE s == SetStateAndCall(sic, state, c)
  <1>2. /\ Kept(sic, wire, replied, {}, stage, Env)
        /\ c \in retry /\ retry' = retry \ {c} /\ Sic(s) /\ retry \subseteq Callback
        /\ UNCHANGED <<replied, dc, stage, partThrees>>
    BY <1>1 DEF RunQuery, IInv
  <1>3. state = "ready" => stage = "running"
    <2>1. "booting" # "ready"
      OBVIOUS
    <2>2. QED
      BY <1>1, <1>2, <2>1 DEF IInv, Calls
  <1>4. /\ Kept(s, wire, replied, {}, stage, Env) /\ s.current = sic.current
        /\ sic.busy \subseteq s.busy /\ s.busy \subseteq sic.busy \cup {Master}
        /\ Master \in sic.busy => s.connected = sic.connected /\ s.later \in {sic.later, c}
        /\ Master \notin sic.busy => s.connected = c /\ s.later = sic.later
    BY <1>2, <1>3, SetStateAndCallKept
  <1> HIDE DEF s
  <1>5. Calls(s, retry', stage)
    <2>1. CASE c = QueryBooting
      <3>1. stage = "booting" /\ Master \notin sic.busy
        BY <1>2, <2>1 DEF IInv, Calls
      <3>2. QED
        BY <1>2, <1>4, <2>1, <3>1, CallbackNames DEF IInv, Calls
    <2>2. CASE c = QueryReady
      <3>1. stage = "running"
        BY <1>2, <2>2 DEF IInv, Calls
      <3>2. QED
        BY <1>2, <1>4, <2>2, <3>1, CallbackNames DEF IInv, Calls
    <2>3. QED
      BY <1>1, <2>1, <2>2
  <1>6. retry' \subseteq Callback
    BY <1>2
  <1>7. QED
    BY <1>2, <1>4, <1>5, <1>6, SicInv

LEMMA MounterInv ==
    ASSUME IInv, NEW p \in procs, MountProcessEnds(p) \/ UmountSucceeds(p) \/ UmountFails(p),
           UNCHANGED updateVars
    PROVE  IInv'
  <1>1. ASSUME NEW ok \in BOOLEAN, MountEnds(p, ok) PROVE IInv'
    <2> DEFINE s == SetState(sic, Folder, IF ok THEN "mountedrw" ELSE "nodevice")
    <2>1. CASE p.watched
      <3>1. MountReady(TRUE, s) /\ UNCHANGED <<replied, dc, retry>>
        BY <1>1, <2>1 DEF MountEnds
      <3>2. s \in {SetState(sic, Folder, state) : state \in {"nodevice", "mountedrw", "unmounted"}}
        OBVIOUS
      <3> HIDE DEF s
      <3>3. Kept(s, wire, replied, {}, stage, Env) /\ FolderSet(sic, s)
        BY <3>2, SetFolder DEF IInv
      <3>4. QED
        BY <3>1, <3>3, MountReadyInv
    <2>2. CASE ~p.watched
      BY <1>1, <2>2, StutterInv DEF MountEnds, core
    <2>3. QED
      BY <2>1, <2>2
  <1>2. ASSUME UmountSucceeds(p) PROVE IInv'
    <2> DEFINE s == IF p.watched THEN SetState(sic, Folder, "unmounted") ELSE sic
    <2>1. Kept(s, wire, replied, {}, stage, Env) /\ FolderSet(sic, s)
      <3>1. s \in {sic} \cup {SetState(sic, Folder, state) : state \in {"nodevice", "mountedrw", "unmounted"}}
        OBVIOUS
      <3> HIDE DEF s
      <3>2. QED
        BY <3>1, SetFolder DEF IInv
    <2>2. UNCHANGED <<replied, dc, retry>>
      BY <1>2 DEF UmountSucceeds
    <2>3. CASE p.watched /\ p.kind = "remount"
      <3>1. PICK o \in MountOutcome : MountReady(o \in NotMounted, MountStates(o, s))
        BY <1>2, <2>3 DEF UmountSucceeds
      <3> DEFINE t == MountStates(o, s)
      <3>2. t \in {s} \cup {SetState(s, Folder, state) : state \in {"nodevice", "mountedrw", "unmounted"}}
        BY DEF MountStates
      <3>3. MountReady(o \in NotMounted, t)
        BY <3>1
      <3> HIDE DEF s, t
      <3>4. Kept(t, wire, replied, {}, stage, Env) /\ FolderSet(sic, t)
        BY <2>1, <3>2, SetFolder DEF FolderSet
      <3>5. QED
        BY <2>2, <3>3, <3>4, MountReadyInv
    <2>4. CASE ~(p.watched /\ p.kind = "remount")
      <3>1. Sic(s) /\ UNCHANGED <<stage, partThrees>>
        BY <1>2, <2>4 DEF UmountSucceeds
      <3>2. MountReady(FALSE, s)
        BY <3>1 DEF MountReady
      <3> HIDE DEF s
      <3>3. QED
        BY <2>1, <2>2, <3>2, MountReadyInv
    <2>5. QED
      BY <2>3, <2>4
  <1>3. CASE UmountFails(p)
    BY <1>3, StutterInv DEF UmountFails, core, link
  <1>4. QED
    BY <1>1, <1>2, <1>3 DEF MountProcessEnds

LEMMA ChangeFolderInv == ASSUME IInv, NEW c, ChangeFolder(c), UNCHANGED updateVars PROVE IInv'
  <1>1. UNCHANGED <<replied, dc, retry>>
    BY DEF ChangeFolder
  <1>2. CASE \E o \in MountOutcome : MountReady(o \in NotMounted, MountStates(o, sic))
    <2>1. PICK o \in MountOutcome : MountReady(o \in NotMounted, MountStates(o, sic))
      BY <1>2
    <2> DEFINE t == MountStates(o, sic)
    <2>2. t \in {sic} \cup {SetState(sic, Folder, state) : state \in {"nodevice", "mountedrw", "unmounted"}}
      BY DEF MountStates
    <2>3. MountReady(o \in NotMounted, t)
      BY <2>1
    <2> HIDE DEF t
    <2>4. Kept(t, wire, replied, {}, stage, Env) /\ FolderSet(sic, t)
      BY <2>2, SetFolder DEF IInv
    <2>5. QED
      BY <1>1, <2>3, <2>4, MountReadyInv
  <1>3. CASE UNCHANGED <<sic, wire, stage, partThrees>>
    BY <1>1, <1>3, StutterInv DEF core
  <1>4. QED
    BY <1>2, <1>3 DEF ChangeFolder

LEMMA BootInv == IInv /\ BootNext /\ UNCHANGED updateVars => IInv'
  <1> SUFFICES ASSUME IInv, BootNext, UNCHANGED updateVars PROVE IInv'
    OBVIOUS
  <1>1. ASSUME NEW v \in Variable, QueryEnds(v) PROVE IInv'
    BY <1>1, QuerySucceedsInv, BootingIsKnownInv, QueryFailsInv DEF QueryEnds
  <1>2. ASSUME NEW v \in Others, NEW state \in Reported, FirstSet(v, state) \/ LaterSet(v, state)
        PROVE  IInv'
    <2>1. v \in Variable \ {Master} /\ state \in State
      BY BootAssumption DEF Others, Reported
    <2>2. Sic(SetState(sic, v, state)) /\ UNCHANGED <<replied, dc, stage, retry, partThrees>>
      BY <1>2 DEF FirstSet, LaterSet, bootVars
    <2>3. QED
      BY <2>1, <2>2, SetInv
  <1>3. CASE Network
    BY <1>3, StutterInv DEF Network, core
  <1>4. QED
    BY <1>1, <1>2, <1>3, RunQueryInv, MounterInv, ChangeFolderInv DEF BootNext

-----------------------------------------------------------------------------
(* The steps of the update and of the DC.                                  *)

\* The members stay, but that the USB device may be closed or opened.
LEMMA LinkInv ==
    ASSUME IInv, Kept(sic, wire', replied', {}, stage, Env'),
           sic' = sic \/ \E b \in BOOLEAN : sic' = [sic EXCEPT !.online = b],
           dc' = dc \/ (dc' \in DcStates /\ (dc'[Master] = "ready" => Told(sic, stage))),
           UNCHANGED <<stage, retry, partThrees>>, step' = "idle" => target' = None
    PROVE  IInv'
  <1>1. sic \in SicType /\ sic.sends = <<>>
    BY DEF IInv, Kept, Sound
  <1>2. /\ sic' \in SicType
        /\ sic'.current = sic.current /\ sic'.queried = sic.queried
        /\ sic'.pending = sic.pending /\ sic'.submitted = sic.submitted
        /\ sic'.busy = sic.busy /\ sic'.sends = sic.sends
        /\ sic'.connected = sic.connected /\ sic'.later = sic.later
        /\ sic'.asked = sic.asked /\ sic'.failed = sic.failed
    BY <1>1 DEF SicType
  <1>3. Kept(sic', wire', replied', {}, stage, Env')
    <2> DEFINE e == Env'
               t == sic'
    <2>1. t \in SicType
      BY <1>2
    <2> HIDE DEF e
    <2>2. Kept(sic, wire', replied', {}, stage, e)
      BY DEF e
    <2>3. Kept(t, wire', replied', {}, stage, e)
      BY <1>2, <2>2, SameKept
    <2>4. QED
      BY <2>3 DEF e
  <1>4. Calls(sic', retry', stage')
    BY <1>2 DEF IInv, Calls
  <1>5. dc'[Master] = "ready" => Told(sic', stage')
    BY <1>2 DEF IInv, Told
  <1>6. dc' \in DcStates
    BY DEF IInv
  <1>7. QED
    BY <1>1, <1>2, <1>3, <1>4, <1>5, <1>6 DEF IInv, DcStates

\* What holds between the steps of the invariant.
LEMMA Resting ==
    ASSUME IInv
    PROVE  /\ sic \in SicType /\ wire \in Seq(Query) /\ sic.sends = <<>> /\ Out(sic, wire) = wire
           /\ Kept(sic, wire, replied, {}, stage, Env)
           /\ Flight(wire, replied, sic.busy \ {}) /\ HeldBack(sic, wire, stage)
           /\ Alone(wire, replied, Env)
           /\ \A v \in Tracked(sic, Env) :
                 /\ Flies(sic, wire, replied, {}, Env, v)
                 /\ Even(sic, v) /\ Fresh(sic, Env, v) /\ Wants(sic, v)
           /\ step \notin {"telling", "sending", "replaying"} =>
                 Updater \notin replied /\ \A i \in DOMAIN wire : wire[i].from # Updater
  <1>1. sic \in SicType /\ wire \in Seq(Query) /\ sic.sends = <<>>
    BY DEF IInv, Kept, Sound
  <1>2. Out(sic, wire) = wire
    BY <1>1, NothingToSend
  <1>3. Alone(wire, replied, Env)
    BY <1>2 DEF IInv, Kept, Tracks, Flying
  <1>4. Env.asking <=> step \in {"telling", "sending", "replaying"}
    BY DEF Env
  <1>5. step \notin {"telling", "sending", "replaying"} =>
           Updater \notin replied /\ \A i \in DOMAIN wire : wire[i].from # Updater
    BY <1>3, <1>4 DEF Alone
  <1>6. Flight(wire, replied, sic.busy \ {}) /\ HeldBack(sic, wire, stage)
    BY <1>2 DEF IInv, Kept, Sound
  <1>7. \A v \in Tracked(sic, Env) :
           /\ Flies(sic, wire, replied, {}, Env, v)
           /\ Even(sic, v) /\ Fresh(sic, Env, v) /\ Wants(sic, v)
    BY <1>2 DEF IInv, Kept, Tracks, Flying
  <1>8. QED
    BY <1>1, <1>2, <1>3, <1>5, <1>6, <1>7 DEF IInv

LEMMA KeptFewer ==
    ASSUME NEW s, NEW W, NEW R, NEW S, NEW st, NEW e, Kept(s, W, R, {}, st, e), S \subseteq R
    PROVE  Kept(s, W, S, {}, st, e)
  <1>1. Sound(s, W, S, {}, st)
    BY SoundFewer DEF Kept
  <1>2. Alone(Out(s, W), S, e)
    BY DEF Kept, Tracks, Flying, Alone
  <1>3. ASSUME NEW u, Flies(s, Out(s, W), R, {}, e, u) PROVE Flies(s, Out(s, W), S, {}, e, u)
    BY <1>3 DEF Flies, Replayed
  <1>4. QED
    BY <1>1, <1>2, <1>3 DEF Kept, Tracks, Flying

\* An update, once started, stays the same, and crossed only grows.
LEMMA LessTracked ==
    ASSUME crossed \subseteq crossed', target' = target \/ target = None
    PROVE  \A s : Tracked(s, Env') \subseteq Tracked(s, Env)
  BY DEF Tracked, Env

\* The update goes on, without a query before and after.
LEMMA QuietInv ==
    ASSUME IInv, NEW S, S \subseteq replied, wire' = wire, replied' = S,
           Updater \notin S, \A i \in DOMAIN wire : wire[i].from # Updater,
           sic' = sic \/ \E b \in BOOLEAN : sic' = [sic EXCEPT !.online = b],
           UNCHANGED <<dc, forgotten, stage, retry, partThrees>>,
           crossed \subseteq crossed', target' = target \/ target = None,
           step' = "idle" => target' = None
    PROVE  IInv'
  <1> DEFINE e2 == Env'
  <1>1. e2.dc = Env.dc /\ e2.forgotten = Env.forgotten /\ Tracked(sic, e2) \subseteq Tracked(sic, Env)
    BY LessTracked DEF Env
  <1> HIDE DEF e2
  <1>2. Kept(sic, wire, S, {}, stage, Env) /\ Out(sic, wire) = wire
    BY Resting, KeptFewer
  <1>3. Kept(sic, wire, S, {}, stage, e2)
    BY <1>1, <1>2, EnvKept
  <1>4. Kept(sic, wire', replied', {}, stage, Env')
    BY <1>3 DEF e2
  <1>5. QED
    BY <1>4, LinkInv

LEMMA UpdateQueries ==
    /\ [from |-> Updater, tells |-> <<>>] \in Query
    /\ ~TellsReady([from |-> Updater, tells |-> <<>>])
    /\ [from |-> Updater, tells |-> [v \in {Master} |-> "restart"]] \in Query
    /\ ~TellsReady([from |-> Updater, tells |-> [v \in {Master} |-> "restart"]])
  <1> DEFINE S == UNION {[V -> State \cup {Unknown, "restart"}] : V \in SUBSET Variable}
  <1>1. DOMAIN <<>> = {}
    OBVIOUS
  <1>2. <<>> \in [{} -> State \cup {Unknown, "restart"}] /\ {} \in SUBSET Variable
    OBVIOUS
  <1>3. /\ [v \in {Master} |-> "restart"] \in [{Master} -> State \cup {Unknown, "restart"}]
        /\ {Master} \in SUBSET Variable
    BY NamesDiffer
  <1>4. <<>> \in S /\ [v \in {Master} |-> "restart"] \in S
    BY <1>2, <1>3
  <1>5. QED
    BY <1>1, <1>4 DEF Query, Sender, TellsReady

LEMMA ReplayQueryIs ==
    ASSUME IInv
    PROVE  LET m == ReplayQuery(sic)
           IN  m \in Query /\ m.from = Updater /\ (TellsReady(m) => Told(sic, stage))
  <1> DEFINE V == sic.submitted \cup {Master}
             f == [v \in V |-> sic.current[v]]
             S == UNION {[U -> State \cup {Unknown, "restart"}] : U \in SUBSET Variable}
  <1>1. sic \in SicType /\ (sic.current[Master] = "ready" => Told(sic, stage))
    BY DEF IInv, Kept, Sound, HeldBack
  <1>2. V \in SUBSET Variable /\ \A v \in V : sic.current[v] \in State \cup {Unknown, "restart"}
    BY <1>1, NamesDiffer DEF SicType
  <1>3. f \in [V -> State \cup {Unknown, "restart"}]
    BY <1>2
  <1>4. f \in S
    BY <1>2, <1>3
  <1>5. [from |-> Updater, tells |-> f] \in Query
    BY <1>4 DEF Query, Sender
  <1>6. f[Master] = sic.current[Master]
    OBVIOUS
  <1>7. ReplayQuery(sic) = [from |-> Updater, tells |-> f]
    BY DEF ReplayQuery
  <1> HIDE DEF f
  <1>8. QED
    BY <1>1, <1>5, <1>6, <1>7 DEF TellsReady

\* The update sends a query, which says "ready" at most where it holds, and
\* tells no state that could be overwritten: the last one when it replays,
\* none of those that are tracked otherwise.
LEMMA SendsInv ==
    ASSUME IInv, NEW m \in Query, m.from = Updater, TellsReady(m) => Told(sic, stage),
           wire' = Append(wire, m),
           UNCHANGED <<sic, replied, dc, forgotten, stage, retry, partThrees>>,
           step \notin {"telling", "sending", "replaying"},
           step' \in {"telling", "sending", "replaying"},
           crossed \subseteq crossed', target' = target \/ target = None,
           \A u \in Tracked(sic, Env') :
              IF step' = "replaying"
              THEN /\ u \notin sic.busy
                   /\ sic.current[u] = IF u \in DOMAIN m.tells THEN m.tells[u] ELSE dc[u]
              ELSE u \notin DOMAIN m.tells
    PROVE  IInv'
  <1> DEFINE e2 == Env'
             p == Append(wire, m)
             n == Len(wire)
  <1>1. /\ e2.dc = Env.dc /\ e2.forgotten = Env.forgotten /\ e2.dc = dc /\ e2.asking
        /\ e2.replaying <=> step' = "replaying"
        /\ Tracked(sic, e2) \subseteq Tracked(sic, Env)
    BY LessTracked DEF Env
  <1>2. \A u \in Tracked(sic, e2) :
           IF e2.replaying
           THEN /\ u \notin sic.busy
                /\ sic.current[u] = IF u \in DOMAIN m.tells THEN m.tells[u] ELSE e2.dc[u]
           ELSE u \notin DOMAIN m.tells
    BY <1>1
  <1> HIDE DEF e2
  <1>3. /\ sic \in SicType /\ wire \in Seq(Query) /\ sic.sends = <<>> /\ Out(sic, wire) = wire
        /\ Flight(wire, replied, sic.busy \ {}) /\ HeldBack(sic, wire, stage)
        /\ Updater \notin replied /\ \A i \in DOMAIN wire : wire[i].from # Updater
        /\ Kept(sic, wire, replied, {}, stage, Env)
    BY Resting
  <1>4. Kept(sic, wire, replied, {}, stage, e2)
    BY <1>1, <1>3, EnvKept
  <1>5. /\ p \in Seq(Query)
        /\ \A i \in DOMAIN p : (i \in DOMAIN wire /\ p[i] = wire[i]) \/ (i = n + 1 /\ p[i] = m)
    BY <1>3, AppendAt
  <1> HIDE DEF p, n
  <1>6. \A i \in DOMAIN p : p[i].from # Updater => i \in DOMAIN wire /\ p[i] = wire[i]
    BY <1>5
  <1>7. \A i \in DOMAIN p : p[i].from = Updater => i = n + 1 /\ p[i] = m
    BY <1>3, <1>5
  <1>8. Out(sic, p) = p
    BY <1>3, <1>5, NothingToSend
  <1>9. Sound(sic, p, replied, {}, stage)
    <2>1. Flight(p, replied, sic.busy \ {})
      BY <1>3, <1>6, NamesDiffer DEF Flight
    <2>2. HeldBack(sic, p, stage)
      BY <1>3, <1>5 DEF HeldBack
    <2>3. QED
      BY <1>3, <1>4, <1>5, <1>8, <2>1, <2>2 DEF Kept, Sound
  <1>10. Alone(p, replied, e2)
    BY <1>1, <1>3, <1>7 DEF Alone
  <1>11. ASSUME NEW u \in Tracked(sic, e2) PROVE Flies(sic, p, replied, {}, e2, u)
    <2>1. Flies(sic, wire, replied, {}, e2, u) /\ u \in Variable /\ u # Updater
      BY <1>3, <1>4, NamesDiffer DEF Kept, Tracks, Flying, Tracked
    <2>2. /\ \A i \in DOMAIN p : p[i].from = u => p[i] = Asks(u, sic.queried[u])
          /\ ~e2.forgotten => /\ u \in replied => e2.dc[u] = sic.queried[u]
                              /\ u \notin sic.busy \ {} => e2.dc[u] = sic.current[u]
      BY <1>6, <2>1 DEF Flies
    <2>3. ASSUME NEW i \in DOMAIN p, p[i].from = Updater
          PROVE  IF e2.replaying THEN Replayed(sic, p, replied, {}, e2, u, i)
                 ELSE u \notin DOMAIN p[i].tells
      <3>1. p[i] = m
        BY <1>7, <2>3
      <3>2. CASE e2.replaying
        <4>1. u \notin sic.busy
          BY <1>2, <3>2
        <4>2. u \notin replied /\ \A j \in DOMAIN p : p[j].from # u
          BY <1>3, <1>6, <2>1, <4>1 DEF Flight
        <4>3. QED
          BY <1>2, <3>1, <3>2, <4>2 DEF Replayed
      <3>3. CASE ~e2.replaying
        BY <1>2, <3>1, <3>3
      <3>4. QED
        BY <3>2, <3>3
    <2>4. QED
      BY <2>2, <2>3 DEF Flies
  <1>12. Kept(sic, p, replied, {}, stage, e2)
    BY <1>4, <1>8, <1>9, <1>10, <1>11 DEF Kept, Tracks, Flying
  <1>13. Kept(sic, wire', replied', {}, stage, Env')
    BY <1>12 DEF e2, p
  <1>14. QED
    BY <1>13, LinkInv

\* The query of the update ends, and the USB device may be closed.
LEMMA QueryOfUpdateEndsInv ==
    ASSUME IInv, Succeeds \/ Fails,
           sic' = sic \/ \E b \in BOOLEAN : sic' = [sic EXCEPT !.online = b],
           UNCHANGED <<forgotten, target, crossed>>, step' # "idle"
    PROVE  IInv'
  <1> DEFINE S == replied \ {Updater}
  <1>1. CASE Succeeds
    <2>1. /\ replied' = S /\ wire' = wire /\ Updater \in replied
          /\ UNCHANGED <<dc, stage, retry, partThrees>>
      BY <1>1 DEF Succeeds, Replies, bootVars
    <2>2. \A i \in DOMAIN wire : wire[i].from # Updater
      BY <2>1, Resting DEF Alone
    <2>3. S \subseteq replied /\ Updater \notin S
      OBVIOUS
    <2> HIDE DEF S
    <2>4. QED
      BY <2>1, <2>2, <2>3, QuietInv
  <1>2. CASE Fails
    <2> DEFINE p == WireWithout(Updater)
               e2 == Env'
    <2>1. /\ replied' = S /\ wire' = p
          /\ UNCHANGED <<dc, stage, retry, partThrees>>
      BY <1>2 DEF Fails, Loses, bootVars
    <2>2. /\ Kept(sic, p, S, {}, stage, Env)
          /\ \A i \in DOMAIN p : p[i].from # Updater
      BY Resting, UpdaterLostKept
    <2>3. e2.dc = Env.dc /\ e2.forgotten = Env.forgotten /\ Tracked(sic, e2) \subseteq Tracked(sic, Env)
      BY <2>1, LessTracked DEF Env
    <2>4. Updater \notin S
      OBVIOUS
    <2> HIDE DEF e2, S, p
    <2>5. p \in Seq(Query) /\ Out(sic, p) = p
      BY <2>2, Resting, NothingToSend DEF Kept, Sound
    <2>6. Kept(sic, p, S, {}, stage, e2)
      BY <2>2, <2>3, <2>4, <2>5, EnvKept
    <2>7. Kept(sic, wire', replied', {}, stage, Env')
      BY <2>1, <2>6 DEF e2
    <2>8. QED
      BY <2>1, <2>7, LinkInv
  <1>3. QED
    BY <1>1, <1>2

LEMMA StartUpdateInv == ASSUME IInv, NEW t \in Targets, StartUpdate(t) PROVE IInv'
  <1>1. /\ UNCHANGED <<sic, replied, dc, stage, retry, partThrees, forgotten, crossed>>
        /\ target = None /\ step = "idle" /\ target' = t
    BY DEF StartUpdate, quiet, bootVars, IInv
  <1>2. Updater \notin replied /\ \A i \in DOMAIN wire : wire[i].from # Updater
    BY <1>1, Resting
  <1>3. CASE t = "DC"
    <2>1. wire' = wire /\ step' = "verifying"
      BY <1>3 DEF StartUpdate, HandleDc
    <2> DEFINE S == replied
    <2>2. S \subseteq replied /\ replied' = S /\ Updater \notin S
      BY <1>1, <1>2
    <2> HIDE DEF S
    <2>3. QED
      BY <1>1, <1>2, <2>1, <2>2, QuietInv
  <1>4. CASE t # "DC"
    <2> DEFINE m == [from |-> Updater, tells |-> [v \in {Master} |-> "restart"]]
    <2>1. wire' = Append(wire, m) /\ step' = "telling"
      BY <1>4 DEF StartUpdate, HandleSic, Sends
    <2>2. m \in Query /\ ~TellsReady(m) /\ m.from = Updater
      BY UpdateQueries
    <2>3. Tracked(sic, Env') = {}
      BY <1>1, <1>4, UpdateAssumption DEF Tracked, Env, None
    <2> HIDE DEF m
    <2>4. QED
      BY <1>1, <2>1, <2>2, <2>3, SendsInv
  <1>5. QED
    BY <1>3, <1>4

LEMMA SignatureVerifiedInv == ASSUME IInv, SignatureVerified PROVE IInv'
  <1>1. /\ UNCHANGED <<sic, replied, dc, stage, retry, partThrees, forgotten, crossed, target>>
        /\ step = "verifying"
    BY DEF SignatureVerified, quiet, bootVars, GoesTo, NotVerified, Answer
  <1>2. Updater \notin replied /\ \A i \in DOMAIN wire : wire[i].from # Updater
    BY <1>1, Resting
  <1>3. CASE GoesTo("sending") /\ Sends(<<>>)
    <2> DEFINE m == [from |-> Updater, tells |-> <<>>]
    <2>1. wire' = Append(wire, m) /\ step' = "sending"
      BY <1>3 DEF Sends, GoesTo
    <2>2. m \in Query /\ ~TellsReady(m) /\ m.from = Updater /\ DOMAIN m.tells = {}
      BY UpdateQueries
    <2> HIDE DEF m
    <2>3. \A u : u \notin DOMAIN m.tells
      BY <2>2
    <2>4. QED
      BY <1>1, <2>1, <2>2, <2>3, SendsInv
  <1>4. CASE UNCHANGED wire /\ step' # "idle"
    <2> DEFINE S == replied
    <2>1. S \subseteq replied /\ replied' = S /\ Updater \notin S
      BY <1>1, <1>2
    <2> HIDE DEF S
    <2>2. QED
      BY <1>1, <1>2, <1>4, <2>1, QuietInv
  <1>5. QED
    BY <1>1, <1>3, <1>4 DEF SignatureVerified, NotVerified, Answer

LEMMA ReplayInv == ASSUME IInv, Replay PROVE IInv'
  <1>1. /\ wire' = Append(wire, ReplayQuery(sic)) /\ step = "waiting" /\ step' = "replaying"
        /\ crossed' = crossed \cup sic.busy
        /\ UNCHANGED <<sic, replied, dc, stage, retry, partThrees, forgotten, target>>
    BY DEF Replay, quiet, bootVars
  <1> DEFINE m == ReplayQuery(sic)
  <1>2. m \in Query /\ m.from = Updater /\ (TellsReady(m) => Told(sic, stage))
    BY ReplayQueryIs
  <1>3. /\ DOMAIN m.tells = sic.submitted \cup {Master}
        /\ \A v \in sic.submitted \cup {Master} : m.tells[v] = sic.current[v]
    BY DEF ReplayQuery
  <1>4. crossed \subseteq crossed'
    BY <1>1
  <1> HIDE DEF m
  <1>5. ASSUME NEW u \in Tracked(sic, Env')
        PROVE  /\ u \notin sic.busy
               /\ sic.current[u] = IF u \in DOMAIN m.tells THEN m.tells[u] ELSE dc[u]
    <2>1. u \notin sic.busy /\ u \in Variable
      BY <1>1 DEF Tracked, Env
    <2>2. u \in Tracked(sic, Env)
      BY <1>1, <1>4, LessTracked
    <2>3. Fresh(sic, Env, u) /\ Env.dc = dc
      BY <2>2, Resting DEF Env
    <2>4. u \notin sic.submitted \cup {Master} => sic.current[u] = Unknown /\ dc[u] = Unknown
      BY <2>1, <2>3 DEF Fresh
    <2>5. QED
      BY <1>3, <2>1, <2>4
  <1>6. wire' = Append(wire, m)
    BY <1>1 DEF m
  <1>7. QED
    BY <1>1, <1>2, <1>4, <1>5, <1>6, SendsInv

LEMMA UpdateStepInv == ASSUME IInv, UpdateStep PROVE IInv'
  <1>1. CASE RebootIsTold \/ RebootIsNotTold \/ ReplayEnds \/ ImageIsNotSent
    <2>1. /\ Succeeds \/ Fails
          /\ sic' = sic /\ step' # "idle" /\ UNCHANGED <<forgotten, target, crossed>>
      BY <1>1 DEF RebootIsTold, RebootIsNotTold, ReplayEnds, ImageIsNotSent, ScriptIsPrepared,
                  GoesTo, Answer
    <2>2. QED
      BY <2>1, QueryOfUpdateEndsInv
  <1>2. CASE ImageIsSent
    <2>1. /\ Succeeds \/ Fails
          /\ sic' = sic \/ sic' = [sic EXCEPT !.online = FALSE]
          /\ step' # "idle" /\ UNCHANGED <<forgotten, target, crossed>>
      BY <1>2 DEF ImageIsSent, Reset, GoesTo
    <2>2. QED
      BY <2>1, QueryOfUpdateEndsInv
  <1>3. CASE ScriptEnds
    <2>1. /\ step = "script" /\ step' # "idle" /\ wire' = wire
          /\ UNCHANGED <<sic, replied, dc, forgotten, stage, retry, partThrees, target, crossed>>
      BY <1>3 DEF ScriptEnds, link, bootVars, GoesTo, Answer
    <2> DEFINE S == replied
    <2>2. /\ S \subseteq replied /\ replied' = S /\ Updater \notin S
          /\ \A i \in DOMAIN wire : wire[i].from # Updater
      BY <2>1, Resting
    <2> HIDE DEF S
    <2>3. QED
      BY <2>1, <2>2, QuietInv
  <1>4. CASE Reconnected
    <2>1. /\ step = "resetting" /\ step' = "waiting" /\ wire' = wire /\ replied' = {}
          /\ sic' = [sic EXCEPT !.online = TRUE]
          /\ UNCHANGED <<dc, forgotten, stage, retry, partThrees, target, crossed>>
      BY <1>4 DEF Reconnected, bootVars, GoesTo
    <2> DEFINE S == {}
    <2>2. /\ S \subseteq replied /\ replied' = S /\ Updater \notin S
          /\ \A i \in DOMAIN wire : wire[i].from # Updater
      BY <2>1, Resting
    <2> HIDE DEF S
    <2>3. QED
      BY <2>1, <2>2, QuietInv
  <1>5. QED
    BY <1>1, <1>2, <1>3, <1>4, SignatureVerifiedInv, ReplayInv DEF UpdateStep

\* The DC reads the first query: of its states, that of the sender is the one
\* it believes it has told, and a replay makes all of them the last ones.
LEMMA DcReadsInv == ASSUME IInv, DcReads PROVE IInv'
  <1> DEFINE q == Head(wire)
             p == Tail(wire)
             R2 == replied \cup {q.from}
             B == sic.busy \ {}
             e == Env
             e2 == Env'
  <1>1. /\ wire # <<>> /\ wire' = p /\ replied' = R2
        /\ dc' = [v \in Variable |-> IF v \in DOMAIN q.tells THEN q.tells[v] ELSE dc[v]]
        /\ UNCHANGED <<sic, stage, retry, partThrees, step, target, crossed>>
    BY DEF DcReads, DcCarriesOut, bootVars
  <1>2. /\ sic \in SicType /\ wire \in Seq(Query) /\ sic.sends = <<>>
        /\ Kept(sic, wire, replied, {}, stage, e)
        /\ Flight(wire, replied, B) /\ HeldBack(sic, wire, stage)
        /\ Alone(wire, replied, e)
        /\ \A v \in Tracked(sic, e) :
              /\ Flies(sic, wire, replied, {}, e, v)
              /\ Even(sic, v) /\ Fresh(sic, e, v) /\ Wants(sic, v)
        /\ step = "idle" => target = None
    BY Resting DEF IInv
  <1>3. /\ p \in Seq(Query) /\ 1 \in DOMAIN wire /\ q = wire[1] /\ q \in Query
        /\ \A i \in DOMAIN p : i + 1 \in DOMAIN wire /\ i \in Nat /\ i + 1 # 1 /\ p[i] = wire[i + 1]
    BY <1>1, <1>2
  <1>4. /\ e2.dc = dc' /\ e.dc = dc
        /\ e2.asking = e.asking /\ e2.replaying = e.replaying /\ e2.untracked = e.untracked
    BY <1>1 DEF Env
  <1>5. /\ q.from # Updater \/ ~e.replaying => (~e2.forgotten => ~e.forgotten)
    BY DEF Env, DcReads
  <1>6. B = sic.busy
    OBVIOUS
  <1> HIDE DEF q, p, R2, B, e, e2
  <1>7. Flight(p, R2, B)
    <2>1. \A i \in DOMAIN p : p[i].from \in Variable =>
             /\ p[i].from \in B /\ p[i].from # q.from
             /\ DOMAIN p[i].tells = {p[i].from}
      BY <1>2, <1>3 DEF Flight
    <2>2. ASSUME NEW i \in DOMAIN p, NEW j \in DOMAIN p, p[i].from \in Variable, p[i].from = p[j].from
          PROVE  i = j
      <3>1. i + 1 = j + 1
        BY <1>2, <1>3, <2>2 DEF Flight
      <3>2. QED
        BY <1>3, <3>1
    <2>3. \A v \in R2 \cap Variable : v \in B /\ \A i \in DOMAIN p : p[i].from # v
      BY <1>2, <1>3, <2>1 DEF Flight, R2
    <2>4. QED
      BY <2>1, <2>2, <2>3 DEF Flight
  <1>8. HeldBack(sic, p, stage)
    BY <1>2, <1>3 DEF HeldBack
  <1>9. Out(sic, p) = p
    BY <1>2, <1>3, NothingToSend
  <1>10. Sound(sic, p, R2, {}, stage)
    BY <1>2, <1>3, <1>7, <1>8, <1>9 DEF Kept, Sound, B
  <1>11. Alone(p, R2, e2)
    <2>1. ASSUME NEW i \in DOMAIN p, NEW j \in DOMAIN p, p[i].from = Updater, p[j].from = Updater
          PROVE  i = j
      <3>1. i + 1 = j + 1
        BY <1>2, <1>3, <2>1 DEF Alone
      <3>2. QED
        BY <1>3, <3>1
    <2>2. q.from = Updater => e.asking /\ \A i \in DOMAIN p : p[i].from # Updater
      BY <1>2, <1>3 DEF Alone
    <2>3. (\E i \in DOMAIN p : p[i].from = Updater) => e.asking /\ Updater \notin R2
      BY <1>2, <1>3, <2>2 DEF Alone, R2
    <2>4. Updater \in R2 => e.asking
      BY <1>2, <2>2 DEF Alone, R2
    <2>5. QED
      BY <1>4, <2>1, <2>3, <2>4 DEF Alone
  <1>12. ASSUME NEW u \in Tracked(sic, e)
         PROVE  Flies(sic, p, R2, {}, e2, u) /\ Fresh(sic, e2, u)
    <2>1. /\ Flies(sic, wire, replied, {}, e, u) /\ Fresh(sic, e, u)
          /\ u \in Variable /\ u # Updater
      BY <1>2, NamesDiffer DEF Tracked
    <2>2. \A i \in DOMAIN p : p[i].from = u => p[i] = Asks(u, sic.queried[u])
      BY <1>3, <2>1 DEF Flies
    <2>3. CASE q.from = u
      <3>1. q = Asks(u, sic.queried[u]) /\ u \in sic.busy
        BY <1>2, <1>3, <1>6, <2>1, <2>3 DEF Flies, Flight
      <3>2. e2.dc[u] = sic.queried[u]
        BY <1>1, <1>4, <2>1, <3>1 DEF Asks
      <3>3. ASSUME NEW i \in DOMAIN p, p[i].from = Updater
            PROVE  IF e2.replaying THEN Replayed(sic, p, R2, {}, e2, u, i)
                   ELSE u \notin DOMAIN p[i].tells
        <4>1. IF e.replaying THEN Replayed(sic, wire, replied, {}, e, u, i + 1)
              ELSE u \notin DOMAIN p[i].tells
          BY <1>3, <2>1, <3>3 DEF Flies
        <4>2. ~Replayed(sic, wire, replied, {}, e, u, i + 1)
          <5>1. ~(i + 1 < 1)
            BY <1>3
          <5>2. QED
            BY <1>3, <2>3, <5>1 DEF Replayed
        <4>3. QED
          BY <1>4, <4>1, <4>2
      <3>4. QED
        BY <2>2, <3>1, <3>2, <3>3 DEF Flies, Fresh
    <2>4. CASE q.from = Updater /\ e.replaying
      <3>1. Replayed(sic, wire, replied, {}, e, u, 1)
        BY <1>3, <2>1, <2>4 DEF Flies
      <3>2. u \notin R2
        BY <2>1, <2>4, <3>1 DEF Replayed, R2
      <3>3. u \notin sic.busy => e2.dc[u] = sic.current[u]
        BY <1>1, <1>3, <1>4, <2>1, <3>1 DEF Replayed
      <3>4. \A i \in DOMAIN p : p[i].from # Updater
        BY <1>2, <1>3, <2>4 DEF Alone
      <3>5. Flies(sic, p, R2, {}, e2, u)
        BY <2>2, <3>2, <3>3, <3>4 DEF Flies
      <3>6. Fresh(sic, e2, u)
        BY <2>1, <3>3 DEF Fresh
      <3>7. QED
        BY <3>5, <3>6
    <2>5. CASE q.from # u /\ ~(q.from = Updater /\ e.replaying)
      <3>1. u \notin DOMAIN q.tells
        <4>1. CASE q.from = Updater
          BY <1>3, <2>1, <2>5, <4>1 DEF Flies
        <4>2. CASE q.from # Updater
          <5>1. q.from \in Variable
            BY <1>3, <4>2 DEF Query, Sender
          <5>2. DOMAIN q.tells = {q.from}
            BY <1>2, <1>3, <5>1 DEF Flight
          <5>3. QED
            BY <2>5, <5>2
        <4>3. QED
          BY <4>1, <4>2
      <3>2. e2.dc[u] = e.dc[u] /\ (~e2.forgotten => ~e.forgotten)
        BY <1>1, <1>4, <1>5, <2>1, <2>5, <3>1
      <3>3. u \in R2 <=> u \in replied
        BY <2>5 DEF R2
      <3>4. ASSUME NEW i \in DOMAIN p, p[i].from = Updater
            PROVE  IF e2.replaying THEN Replayed(sic, p, R2, {}, e2, u, i)
                   ELSE u \notin DOMAIN p[i].tells
        <4>1. i + 1 \in DOMAIN wire /\ p[i] = wire[i + 1] /\ i \in Nat
          BY <1>3
        <4>2. IF e.replaying THEN Replayed(sic, wire, replied, {}, e, u, i + 1)
              ELSE u \notin DOMAIN p[i].tells
          BY <2>1, <3>4, <4>1 DEF Flies
        <4>3. CASE ~e.replaying
          BY <1>4, <4>2, <4>3
        <4>4. CASE e.replaying
          <5>1. Replayed(sic, wire, replied, {}, e, u, i + 1)
            BY <4>2, <4>4
          <5>2. ASSUME NEW j \in DOMAIN p, p[j].from = u PROVE i < j
            <6>1. i + 1 < j + 1 /\ j \in Nat
              BY <1>3, <5>1, <5>2 DEF Replayed
            <6>2. QED
              BY <4>1, <6>1
          <5>3. Replayed(sic, p, R2, {}, e2, u, i)
            BY <3>2, <3>3, <4>1, <5>1, <5>2 DEF Replayed
          <5>4. QED
            BY <1>4, <4>4, <5>3
        <4>5. QED
          BY <4>3, <4>4
      <3>5. Flies(sic, p, R2, {}, e2, u)
        BY <2>1, <2>2, <3>2, <3>3, <3>4 DEF Flies
      <3>6. QED
        BY <2>1, <3>2, <3>5 DEF Fresh
    <2>6. QED
      BY <2>3, <2>4, <2>5
  <1>13. Kept(sic, p, R2, {}, stage, e2)
    BY <1>2, <1>4, <1>9, <1>10, <1>11, <1>12 DEF Kept, Tracks, Flying, Tracked
  <1>14. dc' \in DcStates
    <2>1. q.tells \in UNION {[V -> State \cup {Unknown, "restart"}] : V \in SUBSET Variable}
      BY <1>3 DEF Query
    <2>2. \A v \in DOMAIN q.tells : q.tells[v] \in State \cup {Unknown, "restart"}
      BY <2>1
    <2>3. QED
      BY <1>1, <2>2 DEF IInv, DcStates
  <1>15. dc'[Master] = "ready" => Told(sic, stage)
    <2>1. TellsReady(q) => Told(sic, stage)
      BY <1>2, <1>3 DEF HeldBack
    <2>2. dc'[Master] = "ready" => TellsReady(q) \/ dc[Master] = "ready"
      BY <1>1, NamesDiffer DEF TellsReady
    <2>3. QED
      BY <2>1, <2>2 DEF IInv
  <1>16. Kept(sic, wire', replied', {}, stage, Env')
    BY <1>1, <1>13 DEF e2
  <1>17. QED
    BY <1>1, <1>2, <1>14, <1>15, <1>16, LinkInv

\* A restart of the DC, or its end, empties the wire.
LEMMA EmptyWireInv ==
    ASSUME IInv, wire' = <<>>, replied' \subseteq replied,
           \/ UNCHANGED <<dc, forgotten>>
           \/ dc' = [v \in Variable |-> Unknown] /\ forgotten',
           UNCHANGED <<sic, stage, retry, partThrees, step, target, crossed>>
    PROVE  IInv'
  <1> DEFINE e == Env
             e2 == Env'
             p == <<>>
             R2 == replied'
  <1>1. /\ sic \in SicType /\ sic.sends = <<>>
        /\ Kept(sic, wire, replied, {}, stage, e)
        /\ Flight(wire, replied, sic.busy \ {}) /\ HeldBack(sic, wire, stage)
        /\ Alone(wire, replied, e)
        /\ \A v \in Tracked(sic, e) :
              /\ Flies(sic, wire, replied, {}, e, v)
              /\ Even(sic, v) /\ Fresh(sic, e, v) /\ Wants(sic, v)
        /\ step = "idle" => target = None
    BY Resting DEF IInv
  <1>2. p \in Seq(Query) /\ DOMAIN p = {} /\ R2 \subseteq replied /\ wire' = p
    OBVIOUS
  <1>3. e2.asking = e.asking /\ e2.untracked = e.untracked
    BY DEF Env
  <1>4. \/ e2.dc = e.dc /\ e2.forgotten = e.forgotten
        \/ e2.dc = [v \in Variable |-> Unknown] /\ e2.forgotten
    BY DEF Env
  <1>5. dc' \in DcStates /\ (dc'[Master] = "ready" => dc[Master] = "ready")
    BY NamesDiffer DEF IInv, DcStates, Unknown
  <1> HIDE DEF e, e2, p, R2
  <1>6. Flight(p, R2, sic.busy \ {}) /\ HeldBack(sic, p, stage)
    BY <1>1, <1>2 DEF Flight, HeldBack
  <1>7. Out(sic, p) = p
    BY <1>1, <1>2, NothingToSend
  <1>8. Sound(sic, p, R2, {}, stage)
    BY <1>1, <1>2, <1>6, <1>7 DEF Kept, Sound
  <1>9. Alone(p, R2, e2)
    BY <1>1, <1>2, <1>3 DEF Alone
  <1>10. ASSUME NEW u \in Tracked(sic, e)
         PROVE  Flies(sic, p, R2, {}, e2, u) /\ Fresh(sic, e2, u)
    <2>1. Flies(sic, wire, replied, {}, e, u) /\ Fresh(sic, e, u) /\ u \in Variable
      BY <1>1 DEF Tracked
    <2>2. Flies(sic, p, R2, {}, e2, u)
      BY <1>2, <1>4, <2>1 DEF Flies
    <2>3. Fresh(sic, e2, u)
      BY <1>4, <2>1 DEF Fresh
    <2>4. QED
      BY <2>2, <2>3
  <1>11. Kept(sic, p, R2, {}, stage, e2)
    BY <1>1, <1>3, <1>7, <1>8, <1>9, <1>10 DEF Kept, Tracks, Flying, Tracked
  <1>12. Kept(sic, wire', replied', {}, stage, Env')
    BY <1>2, <1>11 DEF e2, R2
  <1>13. QED
    BY <1>1, <1>5, <1>12, LinkInv DEF IInv

LEMMA NextInv == IInv /\ [Next]_allVars => IInv'
  <1> SUFFICES ASSUME IInv, [Next]_allVars PROVE IInv'
    OBVIOUS
  <1>1. CASE BootNext /\ UNCHANGED updateVars
    BY <1>1, BootInv
  <1>2. CASE \E t \in Targets : StartUpdate(t)
    BY <1>2, StartUpdateInv
  <1>3. CASE Refused
    <2>1. /\ step = "idle" /\ step' = "done" /\ wire' = wire
          /\ UNCHANGED <<sic, replied, dc, forgotten, stage, retry, partThrees, target, crossed>>
      BY <1>3 DEF Refused, quiet, bootVars, Answer
    <2> DEFINE S == replied
    <2>2. /\ S \subseteq replied /\ replied' = S /\ Updater \notin S
          /\ \A i \in DOMAIN wire : wire[i].from # Updater
      BY <2>1, Resting
    <2> HIDE DEF S
    <2>3. QED
      BY <2>1, <2>2, QuietInv
  <1>4. CASE DcRestartsWithImage
    BY <1>4, EmptyWireInv DEF DcRestartsWithImage, DcRestarts, bootVars
  <1>5. CASE DcIsUp /\ UNCHANGED <<bootVars, updateVars>>
    BY <1>5, EmptyWireInv DEF DcIsUp, bootVars, updateVars
  <1>6. CASE UNCHANGED allVars
    BY <1>6, StutterInv DEF allVars, deviceVars, link, bootVars, core
  <1>7. QED
    BY <1>1, <1>2, <1>3, <1>4, <1>5, <1>6, UpdateStepInv, DcReadsInv DEF Next

LEMMA AlwaysIInv == Spec => []IInv
  BY InitInv, NextInv, PTL DEF Spec

-----------------------------------------------------------------------------
(* Types of the other variables.                                           *)

Conf == [enabled: BOOLEAN, share: Share \cup {""}]

\* There are finitely many processes, so that each gets a number.
Processes(P) == P \subseteq Process /\ IsFiniteSet(P)

MounterType ==
    /\ isMounted \in BOOLEAN /\ used \in Share \cup {""} /\ conf \in Conf
    /\ Processes(procs) /\ mounts \in Nat

UpdateType ==
    /\ replied \subseteq Sender
    /\ step \in Steps /\ target \in Targets \cup {None} /\ crossed \subseteq Variable

\* There is a number that no process has.
LEMMA NewNrType == ASSUME NEW P, Processes(P) PROVE NewNr(P) \in Nat
  <1> DEFINE n == Cardinality(P)
             f == [p \in P |-> p.nr]
             T == {p.nr : p \in P}
  <1>1. n \in Nat
    BY FS_CardinalityType DEF Processes
  <1>2. f \in Surjection(P, T)
    BY DEF Surjection
  <1>3. IsFiniteSet(T) /\ Cardinality(T) <= n
    BY <1>2, FS_Surjection DEF Processes
  <1>4. IsFiniteSet(0 .. n) /\ Cardinality(0 .. n) = n + 1
    BY <1>1, FS_Interval
  <1>5. Cardinality(T) \in Nat
    BY <1>3, FS_CardinalityType
  <1> HIDE DEF n, T
  <1>6. ~(0 .. n \subseteq T)
    <2>1. SUFFICES ASSUME 0 .. n \subseteq T PROVE FALSE
      OBVIOUS
    <2>2. Cardinality(0 .. n) <= Cardinality(T)
      BY <1>3, <2>1, FS_Subset
    <2>3. QED
      BY <1>1, <1>3, <1>4, <1>5, <2>2
  <1>7. PICK k \in 0 .. n : k \notin T
    BY <1>6
  <1>8. \E k2 \in 0 .. n : \A p \in P : p.nr # k2
    BY <1>7 DEF T
  <1>9. NewNr(P) \in 0 .. n
    BY <1>8 DEF NewNr, n
  <1>10. QED
    BY <1>1, <1>9

LEMMA UnwatchedType == ASSUME NEW P, Processes(P), NEW kinds PROVE Processes(Unwatched(P, kinds))
  <1> DEFINE u(p) == IF p.kind \in kinds THEN [p EXCEPT !.watched = FALSE] ELSE p
             f == [p \in P |-> u(p)]
             T == {u(p) : p \in P}
  <1>1. f \in Surjection(P, T)
    BY DEF Surjection
  <1>2. IsFiniteSet(T)
    BY <1>1, FS_Surjection DEF Processes
  <1>3. \A p \in Process : u(p) \in Process
    BY DEF Process
  <1>4. T \subseteq Process
    BY <1>3 DEF Processes
  <1>5. QED
    BY <1>2, <1>4 DEF Unwatched, Processes

LEMMA SpawnType ==
    ASSUME NEW P, Processes(P), NEW kind \in {"mount", "umount", "remount"}, NEW kinds,
           Spawn(P, kind, kinds) \/ CannotSpawn(P, kinds) \/ SpawnNothing(P)
    PROVE  Processes(procs')
  <1>1. Processes(Unwatched(P, kinds))
    BY UnwatchedType
  <1> DEFINE p == [kind |-> kind, watched |-> TRUE, nr |-> NewNr(P)]
  <1>2. p \in Process
    BY NewNrType DEF Process
  <1> HIDE DEF p
  <1>3. Processes(Unwatched(P, kinds) \cup {p})
    BY <1>1, <1>2, FS_AddElement DEF Processes
  <1>4. CASE Spawn(P, kind, kinds)
    BY <1>3, <1>4 DEF Spawn, p
  <1>5. CASE CannotSpawn(P, kinds)
    BY <1>1, <1>5 DEF CannotSpawn
  <1>6. CASE SpawnNothing(P)
    BY <1>6 DEF SpawnNothing
  <1>7. QED
    BY <1>4, <1>5, <1>6

LEMMA MountType ==
    ASSUME NEW P, Processes(P), NEW c \in Conf, NEW o \in MountOutcome, Mount(o, c, P), used \in Share \cup {""}
    PROVE  Processes(procs') /\ used' \in Share \cup {""}
  <1>1. SpawnNothing(P) \/ Spawn(P, "mount", {"mount"}) \/ CannotSpawn(P, {"mount"})
    BY DEF Mount, MountOutcome, NotMounted
  <1>2. used' \in Share \cup {""}
    BY DEF Mount, Conf
  <1>3. QED
    BY <1>1, <1>2, SpawnType

LEMMA FewerProcesses == ASSUME NEW P, Processes(P), NEW p PROVE Processes(P \ {p})
  BY FS_RemoveElement DEF Processes

LEMMA MounterTypeInv == MounterType /\ [Next]_allVars => MounterType'
  <1> SUFFICES ASSUME MounterType, [Next]_allVars PROVE MounterType'
    OBVIOUS
  <1>1. /\ isMounted \in BOOLEAN /\ used \in Share \cup {""} /\ conf \in Conf
        /\ Processes(procs)
    BY DEF MounterType
  <1>2. mounts \in Nat
    BY DEF MounterType
  <1>3. ASSUME NEW p \in procs, NEW ok \in BOOLEAN, MountEnds(p, ok) PROVE MounterType'
    <2>2. Processes(procs')
      BY <1>1, <1>3, FewerProcesses DEF MountEnds
    <2>4. mounts' \in Nat
      BY <1>2, <1>3 DEF MountEnds
    <2>5. isMounted' = (isMounted \/ (p.watched /\ ok))
      BY <1>3, Zenon DEF MountEnds
    <2>6. isMounted' \in BOOLEAN
      BY <2>5, Zenon
    <2>7. UNCHANGED <<used, conf>>
      BY <1>3 DEF MountEnds
    <2>8. QED
      BY <1>1, <2>2, <2>4, <2>6, <2>7 DEF MounterType
  <1>4. ASSUME NEW p \in procs, UmountSucceeds(p) PROVE MounterType'
    <2>1. Processes(procs \ {p})
      BY <1>1, FewerProcesses
    <2>2. Processes(procs') /\ used' \in Share \cup {""}
      <3>1. CASE p.watched /\ p.kind = "remount"
        <4>1. PICK o \in MountOutcome : Mount(o, conf, procs \ {p})
          BY <1>4, <3>1 DEF UmountSucceeds
        <4>2. QED
          BY <1>1, <2>1, <4>1, MountType
      <3>2. CASE ~(p.watched /\ p.kind = "remount")
        BY <1>1, <1>4, <2>1, <3>2 DEF UmountSucceeds, SpawnNothing
      <3>3. QED
        BY <3>1, <3>2
    <2>3. mounts' \in Nat /\ conf' = conf
      <3>1. mounts' = mounts - 1 /\ mounts > 0 /\ conf' = conf
        BY <1>4 DEF UmountSucceeds
      <3>2. QED
        BY <1>2, <3>1
    <2>4. isMounted' = (isMounted /\ ~p.watched)
      BY <1>4, Zenon DEF UmountSucceeds
    <2>5. isMounted' \in BOOLEAN
      BY <2>4, Zenon
    <2>6. QED
      BY <1>1, <2>2, <2>3, <2>5 DEF MounterType
  <1>5. ASSUME NEW p \in procs, UmountFails(p) PROVE MounterType'
    BY <1>1, <1>2, <1>5, FewerProcesses DEF UmountFails, MounterType
  <1>6. ASSUME NEW c \in Conf, ChangeFolder(c) PROVE MounterType'
    <2>1. Processes(procs') /\ used' \in Share \cup {""}
      <3>1. ASSUME NEW o \in MountOutcome, Mount(o, c, procs)
            PROVE  Processes(procs') /\ used' \in Share \cup {""}
        BY <1>1, <3>1, MountType
      <3>2. ASSUME NEW kind \in {"umount", "remount"}, Umount(kind), UNCHANGED used
            PROVE  Processes(procs') /\ used' \in Share \cup {""}
        BY <1>1, <3>2, SpawnType DEF Umount
      <3>3. ASSUME SpawnNothing(procs), UNCHANGED used
            PROVE  Processes(procs') /\ used' \in Share \cup {""}
        BY <1>1, <3>3 DEF SpawnNothing
      <3>4. QED
        BY <1>6, <3>1, <3>2, <3>3 DEF ChangeFolder
    <2>2. conf' = c /\ UNCHANGED <<isMounted, mounts>>
      BY <1>6 DEF ChangeFolder
    <2>3. QED
      BY <1>1, <1>2, <2>1, <2>2 DEF MounterType
  <1>7. CASE BootingIsKnown
    <2>1. PICK o \in MountOutcome : Mount(o, conf, procs)
      BY <1>7 DEF BootingIsKnown
    <2>2. QED
      BY <1>1, <1>2, <1>7, <2>1, MountType DEF BootingIsKnown, unmoved, MounterType
  <1>8. CASE UNCHANGED <<isMounted, used, procs, conf, mounts>>
    BY <1>1, <1>2, <1>8 DEF MounterType
  <1>9. CASE BootNext
    <2>1. ASSUME NEW v \in Variable, QuerySucceeds(v) \/ QueryFails(v) PROVE MounterType'
      BY <1>8, <2>1 DEF QuerySucceeds, QueryFails, bootVars, unmoved
    <2>2. CASE RunQueryBooting \/ RunQueryReady
      BY <1>8, <2>2 DEF RunQueryBooting, RunQueryReady, RunQuery, unmoved
    <2>3. ASSUME NEW v, NEW state, FirstSet(v, state) \/ LaterSet(v, state) PROVE MounterType'
      BY <1>8, <2>3 DEF FirstSet, LaterSet, bootVars
    <2>4. CASE Network
      BY <1>1, <1>2, <2>4 DEF Network, mounter, MounterType
    <2>5. QED
      BY <1>3, <1>4, <1>5, <1>6, <1>7, <1>9, <2>1, <2>2, <2>3, <2>4
         DEF BootNext, QueryEnds, MountProcessEnds, Conf
  <1>10. CASE UNCHANGED bootVars
    BY <1>8, <1>10 DEF bootVars
  <1>11. QED
    BY <1>9, <1>10
       DEF Next, StartUpdate, Refused, quiet, UpdateStep, RebootIsTold, RebootIsNotTold, Succeeds, Fails,
           ScriptEnds, SignatureVerified, ImageIsSent, ImageIsNotSent, Reconnected, Replay, ReplayEnds,
           DcReads, DcRestartsWithImage, allVars, deviceVars

LEMMA UpdateTypeInv == IInv /\ UpdateType /\ [Next]_allVars => UpdateType'
  <1> SUFFICES ASSUME IInv, UpdateType, [Next]_allVars PROVE UpdateType'
    OBVIOUS
  <1>1. replied' \subseteq Sender
    <2>1. replied \subseteq Sender
      BY DEF UpdateType
    <2>2. CASE replied' \subseteq replied
      BY <2>1, <2>2
    <2>3. CASE DcReads
      <3>1. wire \in Seq(Query) /\ wire # <<>> /\ replied' = replied \cup {Head(wire).from}
        BY <2>3 DEF DcReads, DcCarriesOut, IInv, Kept, Sound
      <3>2. Head(wire) \in Query
        BY <3>1
      <3>3. QED
        BY <2>1, <3>1, <3>2 DEF Query
    <2>4. CASE BootNext
      <3>1. ASSUME NEW v, QueryEnds(v) PROVE replied' \subseteq replied
        <4>1. Replies(v) \/ Replies(Master) \/ Loses(v)
          BY <3>1 DEF QueryEnds, QuerySucceeds, BootingIsKnown, QueryFails
        <4>2. QED
          BY <4>1 DEF Replies, Loses
      <3>2. CASE UNCHANGED replied
        BY <2>1, <3>2
      <3>3. ASSUME NEW p \in procs, MountProcessEnds(p) \/ UmountSucceeds(p) \/ UmountFails(p)
            PROVE  UNCHANGED replied
        BY <3>3 DEF MountProcessEnds, MountEnds, UmountSucceeds, UmountFails, link
      <3>4. QED
        BY <2>2, <2>4, <3>1, <3>2, <3>3
           DEF BootNext, RunQueryBooting, RunQueryReady, RunQuery, ChangeFolder, FirstSet, LaterSet, Network
    <2>5. CASE UpdateStep
      BY <2>2, <2>5 DEF UpdateStep, RebootIsTold, RebootIsNotTold, Succeeds, Fails, Replies, Loses,
           ScriptEnds, SignatureVerified, ImageIsSent, ImageIsNotSent, Reconnected, Replay,
           ReplayEnds, quiet, link
    <2>6. CASE UNCHANGED allVars
      BY <2>2, <2>6 DEF allVars, deviceVars, link
    <2>7. QED
      BY <2>2, <2>3, <2>4, <2>5, <2>6
         DEF Next, StartUpdate, Refused, quiet, DcRestartsWithImage, DcRestarts, DcIsUp
  <1>2. crossed' \subseteq Variable
    <2>1. crossed \subseteq Variable /\ sic.busy \subseteq Variable
      BY DEF UpdateType, IInv, Kept, Sound, SicType
    <2>2. crossed' \in {crossed, crossed \cup sic.busy}
      BY DEF Next, updateVars, allVars, StartUpdate, Refused, Answer, GoesTo, UpdateStep, RebootIsTold,
             RebootIsNotTold, ScriptIsPrepared, ScriptEnds, SignatureVerified, NotVerified, ImageIsSent,
             Reset, ImageIsNotSent, Reconnected, Replay, ReplayEnds, DcReads, DcRestartsWithImage
    <2>3. QED
      BY <2>1, <2>2
  <1>3. target' \in Targets \cup {None}
    <2>1. target' = target \/ target' \in Targets
      BY DEF Next, updateVars, allVars, StartUpdate, Refused, Answer, GoesTo, UpdateStep, RebootIsTold,
             RebootIsNotTold, ScriptIsPrepared, ScriptEnds, SignatureVerified, NotVerified, ImageIsSent,
             Reset, ImageIsNotSent, Reconnected, Replay, ReplayEnds, DcReads, DcRestartsWithImage
    <2>2. QED
      BY <2>1 DEF UpdateType
  <1>4. step' \in Steps
    <2>1. step' \in Steps \cup {step}
      BY DEF Next, updateVars, allVars, StartUpdate, HandleDc, HandleSic, Refused, Answer, GoesTo, UpdateStep,
             RebootIsTold, RebootIsNotTold, ScriptIsPrepared, ScriptEnds, SignatureVerified, NotVerified,
             ImageIsSent, Reset, ImageIsNotSent, Reconnected, Replay, ReplayEnds, DcReads,
             DcRestartsWithImage, Steps
    <2>2. QED
      BY <2>1 DEF UpdateType
  <1>5. QED
    BY <1>1, <1>2, <1>3, <1>4 DEF UpdateType

LEMMA InitTypes == Init => MounterType /\ UpdateType
  <1> SUFFICES ASSUME Init PROVE MounterType /\ UpdateType
    OBVIOUS
  <1>1. Processes({})
    BY FS_EmptySet DEF Processes
  <1>2. MounterType
    BY <1>1 DEF Init, BootInit, MounterType, Conf
  <1>3. UpdateType
    BY DEF Init, BootInit, InitLink, UpdateType, Steps
  <1>4. QED
    BY <1>2, <1>3

-----------------------------------------------------------------------------
(* What the mounter believes, while one process runs at a time.            *)

Settled ==
    /\ \A p, q \in procs : p = q
    /\ \A p \in procs : p.watched /\ (p.kind = "mount" <=> ~isMounted)
    /\ mounts = IF isMounted THEN 1 ELSE 0

MountSound ==
    /\ stage = "booting" => procs = {} /\ ~isMounted
    /\ ~overlapped => Settled

\* A process that is started alone is watched.
LEMMA SpawnedAlone ==
    ASSUME NEW P, NEW kind, NEW kinds, Spawn(P, kind, kinds) \/ CannotSpawn(P, kinds), ~overlapped'
    PROVE  /\ ~overlapped
           /\ \A p, q \in procs' : p = q
           /\ \A p \in procs' : p.watched /\ p.kind = kind
  <1>1. P = {} /\ ~overlapped
    BY Zenon DEF Spawn, CannotSpawn
  <1>2. Unwatched(P, kinds) = {}
    BY <1>1 DEF Unwatched
  <1>3. CASE Spawn(P, kind, kinds)
    <2> DEFINE r == [kind |-> kind, watched |-> TRUE, nr |-> NewNr(P)]
    <2>1. procs' = {r}
      BY <1>2, <1>3 DEF Spawn
    <2>2. r.watched /\ r.kind = kind
      OBVIOUS
    <2> HIDE DEF r
    <2>3. QED
      BY <1>1, <2>1, <2>2
  <1>4. CASE CannotSpawn(P, kinds)
    BY <1>1, <1>2, <1>4 DEF CannotSpawn
  <1>5. QED
    BY <1>3, <1>4

\* mount() is called when nothing is mounted.
LEMMA MountSettles ==
    ASSUME NEW P, NEW c, NEW o \in MountOutcome, Mount(o, c, P), ~isMounted', mounts' = 0,
           ~overlapped => (\A p, q \in P : p = q) /\ \A p \in P : p.watched /\ p.kind = "mount"
    PROVE  ~overlapped' => Settled'
  <1>1. CASE SpawnNothing(P)
    BY <1>1 DEF SpawnNothing, Settled
  <1>2. CASE Spawn(P, "mount", {"mount"}) \/ CannotSpawn(P, {"mount"})
    BY <1>2, SpawnedAlone DEF Settled
  <1>3. QED
    BY <1>1, <1>2 DEF Mount, MountOutcome, NotMounted

LEMMA MountSoundInv == IInv /\ MounterType /\ MountSound /\ [Next]_allVars => MountSound'
  <1> SUFFICES ASSUME IInv, MounterType, MountSound, [Next]_allVars PROVE MountSound'
    OBVIOUS
  <1>1. ASSUME NEW p \in procs, NEW ok \in BOOLEAN, MountEnds(p, ok) PROVE MountSound'
    <2>1. /\ p.kind = "mount" /\ procs' = procs \ {p} /\ overlapped' = overlapped
          /\ mounts' = mounts + (IF ok THEN 1 ELSE 0)
      BY <1>1 DEF MountEnds
    <2>2. isMounted' = (isMounted \/ (p.watched /\ ok))
      BY <1>1, Zenon DEF MountEnds
    <2>3. ~overlapped => Settled'
      <3>1. SUFFICES ASSUME ~overlapped PROVE Settled'
        OBVIOUS
      <3>2. p.watched /\ ~isMounted /\ mounts = 0 /\ procs' = {}
        BY <2>1, <3>1 DEF MountSound, Settled
      <3>3. isMounted' <=> ok
        BY <2>2, <3>2, Zenon
      <3>4. QED
        BY <2>1, <3>2, <3>3 DEF Settled
    <2>4. stage # "booting" /\ stage' \in {stage, "running"}
      BY <1>1 DEF MountSound, MountEnds, MountReady
    <2>5. QED
      BY <2>1, <2>3, <2>4 DEF MountSound
  <1>2. ASSUME NEW p \in procs, UmountSucceeds(p) PROVE MountSound'
    <2>1. p.kind # "mount" /\ mounts' = mounts - 1
      BY <1>2 DEF UmountSucceeds
    <2>2. isMounted' = (isMounted /\ ~p.watched)
      BY <1>2, Zenon DEF UmountSucceeds
    <2>3. ~overlapped => procs \ {p} = {} /\ mounts' = 0
      BY <2>1 DEF MountSound, Settled
    <2>4. ~overlapped => ~isMounted'
      <3>1. ~overlapped => p.watched
        BY DEF MountSound, Settled
      <3>2. QED
        BY <2>2, <3>1, Zenon
    <2>5. ~overlapped' => Settled'
      <3>1. CASE p.watched /\ p.kind = "remount"
        <4>1. PICK o \in MountOutcome : Mount(o, conf, procs \ {p})
          BY <1>2, <3>1 DEF UmountSucceeds
        <4>2. ~overlapped' => ~overlapped
          BY <4>1, Zenon DEF Mount, MountOutcome, NotMounted, SpawnNothing, Spawn, CannotSpawn
        <4>3. QED
          BY <2>3, <2>4, <4>1, <4>2, MountSettles
      <3>2. CASE ~(p.watched /\ p.kind = "remount")
        BY <1>2, <2>3, <2>4, <3>2 DEF UmountSucceeds, SpawnNothing, Settled
      <3>3. QED
        BY <3>1, <3>2
    <2>6. stage # "booting" /\ stage' \in {stage, "running"}
      BY <1>2 DEF MountSound, UmountSucceeds, MountReady
    <2>7. QED
      BY <2>5, <2>6 DEF MountSound
  <1>3. ASSUME NEW p \in procs, UmountFails(p) PROVE MountSound'
    BY <1>3 DEF UmountFails, MountSound, Settled
  <1>4. ASSUME NEW c \in Conf, ChangeFolder(c) PROVE MountSound'
    <2>1. UNCHANGED <<isMounted, mounts>> /\ stage # "booting" /\ stage' \in {stage, "running"}
      BY <1>4 DEF ChangeFolder, MountReady
    <2>2. ASSUME NEW o \in MountOutcome, ~isMounted, Mount(o, c, procs)
          PROVE  ~overlapped' => Settled'
      <3>1. ~overlapped' => ~overlapped
        BY <2>2, Zenon DEF Mount, MountOutcome, NotMounted, SpawnNothing, Spawn, CannotSpawn
      <3>2. ~overlapped => mounts' = 0 /\ (\A p, q \in procs : p = q)
                           /\ \A p \in procs : p.watched /\ p.kind = "mount"
        BY <2>1, <2>2 DEF MountSound, Settled
      <3>3. QED
        BY <2>1, <2>2, <3>1, <3>2, MountSettles
    <2>3. ASSUME NEW kind \in {"umount", "remount"}, isMounted, Umount(kind)
          PROVE  ~overlapped' => Settled'
      <3>1. SUFFICES ASSUME ~overlapped' PROVE Settled'
        OBVIOUS
      <3>2. /\ ~overlapped
            /\ \A p, q \in procs' : p = q
            /\ \A p \in procs' : p.watched /\ p.kind = kind
        BY <2>3, <3>1, SpawnedAlone DEF Umount
      <3>3. QED
        BY <2>1, <2>3, <3>2 DEF MountSound, Settled
    <2>4. CASE SpawnNothing(procs)
      BY <2>1, <2>4 DEF SpawnNothing, MountSound, Settled
    <2>5. QED
      BY <1>4, <2>1, <2>2, <2>3, <2>4 DEF ChangeFolder, MountSound
  <1>5. CASE BootingIsKnown
    <2>1. stage = "booting" /\ stage' # "booting" /\ UNCHANGED <<isMounted, mounts>>
      BY <1>5 DEF BootingIsKnown, IInv, Calls, QueryBooting, unmoved
    <2>2. procs = {} /\ ~isMounted
      BY <2>1 DEF MountSound
    <2>3. PICK o \in MountOutcome : Mount(o, conf, procs)
      BY <1>5 DEF BootingIsKnown
    <2>4. ~overlapped' => ~overlapped
      BY <2>3, Zenon DEF Mount, MountOutcome, NotMounted, SpawnNothing, Spawn, CannotSpawn
    <2>5. ~overlapped => mounts' = 0
      BY <2>1, <2>2 DEF MountSound, Settled
    <2>6. ~overlapped' => Settled'
      BY <2>1, <2>2, <2>3, <2>4, <2>5, MountSettles
    <2>7. QED
      BY <2>1, <2>6 DEF MountSound
  <1>6. CASE UNCHANGED <<isMounted, procs, mounts, stage, overlapped>>
    BY <1>6 DEF MountSound, Settled
  <1>7. CASE BootNext
    <2>1. ASSUME NEW v \in Variable, QuerySucceeds(v) \/ QueryFails(v) PROVE MountSound'
      BY <1>6, <2>1 DEF QuerySucceeds, QueryFails, bootVars, unmoved
    <2>2. CASE RunQueryBooting \/ RunQueryReady
      BY <1>6, <2>2 DEF RunQueryBooting, RunQueryReady, RunQuery, unmoved
    <2>3. ASSUME NEW v, NEW state, FirstSet(v, state) \/ LaterSet(v, state) PROVE MountSound'
      BY <1>6, <2>3 DEF FirstSet, LaterSet, bootVars
    <2>4. CASE Network
      BY <1>6, <2>4 DEF Network, mounter
    <2>5. QED
      BY <1>1, <1>2, <1>3, <1>4, <1>5, <1>7, <2>1, <2>2, <2>3, <2>4
         DEF BootNext, QueryEnds, MountProcessEnds, Conf
  <1>8. CASE UNCHANGED bootVars
    BY <1>6, <1>8 DEF bootVars
  <1>9. QED
    BY <1>7, <1>8
       DEF Next, StartUpdate, Refused, quiet, UpdateStep, RebootIsTold, RebootIsNotTold, Succeeds, Fails,
           ScriptEnds, SignatureVerified, ImageIsSent, ImageIsNotSent, Reconnected, Replay, ReplayEnds,
           DcReads, DcRestartsWithImage, allVars, deviceVars

-----------------------------------------------------------------------------
(* What a reader should know of.                                           *)

\* The variables keep their types, and a query on the wire or answered is
\* one its variable waits for: an answer is never taken for that to another
\* query of the same variable.
THEOREM TypesAlwaysOK == Spec => []TypeOK
  <1>1. IInv /\ MounterType /\ UpdateType => TypeOK
    <2> SUFFICES ASSUME IInv, MounterType, UpdateType PROVE TypeOK
      OBVIOUS
    <2>1. /\ sic \in SicType /\ wire \in Seq(Query) /\ sic.sends = <<>>
          /\ Flight(Out(sic, wire), replied, sic.busy \ {})
      BY DEF IInv, Kept, Sound
    <2>2. Flight(wire, replied, sic.busy \ {})
      BY <2>1, NothingToSend
    <2>3. \A v \in Variable : OnWire(v) \/ v \in replied => v \in sic.busy
      BY <2>2 DEF Flight, OnWire
    <2>4. procs \subseteq [kind: {"mount", "umount", "remount"}, watched: BOOLEAN, nr: Nat]
      BY DEF MounterType, Processes, Process
    <2>5. QED
      BY <2>1, <2>3, <2>4 DEF TypeOK, IInv, MounterType, UpdateType, DcStates
  <1>2. QED
    BY <1>1, AlwaysIInv, InitTypes, NextInv, InitInv, MounterTypeInv, UpdateTypeInv, PTL DEF Spec

\* Whatever state variables there are, the DC is told "ready" only when the
\* start is over, once, and every other variable has been told: neither lost
\* queries, nor a restart of the DC with its replay, nor states that are set
\* meanwhile change that.
THEOREM ReadyAlwaysAfterAll == Spec => []ReadyAfterAll
  <1>1. IInv => ReadyAfterAll
    BY DEF IInv, ReadyAfterAll, Told
  <1>2. QED
    BY <1>1, AlwaysIInv, PTL

\* Between its queries, the DC knows the state that was set last of every
\* variable none of whose queries has failed, and again after the replay that
\* follows its restart: no replay overwrites a state that was told after it,
\* and no state that was set while a query was on its way is forgotten.
THEOREM StatesAreAlwaysTold == Spec => []StatesAreTold
  <1>1. IInv => StatesAreTold
    <2> SUFFICES ASSUME IInv, ~forgotten, target \in {None, "DC"},
                        NEW v \in Variable \ (sic.busy \cup sic.failed \cup crossed)
                 PROVE  \/ dc[v] = sic.asked[v]
                        \/ v = Master /\ sic.asked[v] = "ready" /\ sic.submitted # Variable
      BY DEF StatesAreTold
    <2>1. Env.dc = dc /\ Env.forgotten = forgotten /\ v \in Tracked(sic, Env)
      BY DEF Tracked, Env
    <2>2. Flies(sic, wire, replied, {}, Env, v) /\ Even(sic, v) /\ Wants(sic, v)
      BY <2>1, Resting
    <2>3. dc[v] = sic.current[v] /\ sic.pending[v] = sic.current[v]
      BY <2>1, <2>2 DEF Flies, Even
    <2>4. QED
      BY <2>2, <2>3 DEF Wants
  <1>2. QED
    BY <1>1, AlwaysIInv, PTL

\* As long as its processes did not run at the same time, the mounter is right
\* about the share being mounted whenever none runs, however often the
\* configuration of the folder changed.
THEOREM MountStateIsAlwaysTrue == Spec => []MountStateIsTrue
  <1>1. Init => MountSound
    BY DEF Init, BootInit, MountSound, Settled
  <1>2. MountSound /\ MounterType => MountStateIsTrue
    <2> SUFFICES ASSUME MountSound, MounterType, procs = {}, ~overlapped
                 PROVE  isMounted = (mounts > 0)
      BY DEF MountStateIsTrue
    <2>1. mounts = IF isMounted THEN 1 ELSE 0
      BY DEF MountSound, Settled
    <2>2. isMounted \in BOOLEAN
      BY DEF MounterType
    <2>3. CASE isMounted
      <3>1. (mounts > 0) = TRUE
        BY <2>1, <2>3
      <3>2. isMounted = TRUE
        BY <2>2, <2>3, Zenon
      <3>3. QED
        BY <3>1, <3>2, Zenon
    <2>4. CASE ~isMounted
      <3>1. (mounts > 0) = FALSE
        BY <2>1, <2>4
      <3>2. isMounted = FALSE
        BY <2>2, <2>4, Zenon
      <3>3. QED
        BY <3>1, <3>2, Zenon
    <2>5. QED
      BY <2>3, <2>4
  <1>3. QED
    BY <1>1, <1>2, AlwaysIInv, InitTypes, MounterTypeInv, MountSoundInv, PTL DEF Spec

=============================================================================
