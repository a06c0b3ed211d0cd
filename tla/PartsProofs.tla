---------------------------- MODULE PartsProofs -----------------------------
(* What the parts of MCServices promise that ServicesProofs does not prove:  *)
(* ConfFile for any number of changes, power failures and full disks,        *)
(* MeasurementIds for any number of requests, Connections for streams of any *)
(* length and reads of any size, and Exports for any call with any folders   *)
(* and files that are told apart; and that the parts keep all of it side by  *)
(* side.                                                                     *)
EXTENDS MCServices, ServicesProofs, SequenceTheorems, FiniteSetTheorems,
        WellFoundedInduction, TLAPS

(* Least numbers, loops that end, and sequences of sequences.                *)

\* Some numbers have a least one.
LEMMA LeastNumber ==
    ASSUME NEW T \in SUBSET Nat, T # {}
    PROVE  \E x \in T : \A y \in T : x <= y
<1> DEFINE R == OpToRel(<, Nat)
<1>1. IsWellFoundedOn(R, Nat)
  BY NatLessThanWellFounded, Zenon
<1>2. \A x, y \in Nat : <<y, x>> \in R <=> y < x
  BY DEF OpToRel
<1> HIDE DEF R
<1>3. PICK x \in T : \A y \in T : ~(<<y, x>> \in R)
  BY <1>1, WFMin, Zenon
<1>4. \A y \in T : x <= y
  <2>1. \A y \in T : ~(y < x)
    BY <1>2, <1>3
  <2> QED BY <2>1
<1> QED BY <1>4

\* Induction over the numbers in a set, which needs no operator.
LEMMA NumberInduction ==
    ASSUME NEW T \in SUBSET Nat, 0 \in T, \A n \in T : n + 1 \in T
    PROVE  T = Nat
<1> SUFFICES ASSUME T # Nat PROVE FALSE
  OBVIOUS
<1>1. Nat \ T # {} /\ Nat \ T \in SUBSET Nat
  OBVIOUS
<1>2. PICK x \in Nat \ T : \A y \in Nat \ T : x <= y
  BY <1>1, LeastNumber
<1>3. x # 0 /\ x - 1 \in Nat /\ (x - 1) + 1 = x
  BY <1>2
<1>4. x - 1 \in T
  BY <1>2, <1>3
<1> QED BY <1>2, <1>3, <1>4

\* A function that follows g until it comes to B, from below n.
Leads(h, D, B, g) == \A p \in D : h[p] = IF p \in B THEN p ELSE h[g[p]]

\* Each step of the loop makes mu smaller.
Loop(D, B, g, mu) ==
    B \in SUBSET D /\ g \in [D -> D] /\ mu \in [D -> Nat] /\ \A p \in D \ B : mu[g[p]] < mu[p]

\* What g keeps, and where it leads.
KeptBy(I, D, B, g) == I \in SUBSET D /\ \A p \in I \ B : g[p] \in I
EndsIn(I, B, r) == \A p \in I : r[p] \in I \cap B

\* A loop that comes to an end is a function.
LEMMA LoopExists ==
    ASSUME NEW D, NEW B, NEW g, NEW mu, Loop(D, B, g, mu)
    PROVE  \E f : f = [p \in D |-> f[p]] /\ Leads(f, D, B, g)
<1>    /\ B \in SUBSET D /\ g \in [D -> D] /\ mu \in [D -> Nat] /\ \A p \in D \ B : mu[g[p]] < mu[p]
  BY DEF Loop
<1> DEFINE Below(n) == {p \in D : mu[p] < n}
           Sol(n) == {h \in [Below(n) -> D] : Leads(h, Below(n), B, g)}
<1>1. \A n \in Nat : \A p \in Below(n) \ B : g[p] \in Below(n)
  OBVIOUS
<1>2. \A n \in Nat : Sol(n) # {}
  <2> DEFINE T == {n \in Nat : Sol(n) # {}}
  <2>1. 0 \in T
    <3>1. Below(0) = {}
      OBVIOUS
    <3>2. [p \in Below(0) |-> p] \in Sol(0)
      BY <3>1 DEF Leads
    <3> QED BY <3>2
  <2>2. ASSUME NEW n \in T PROVE n + 1 \in T
    <3> PICK h \in [Below(n) -> D] : Leads(h, Below(n), B, g)
      OBVIOUS
    <3> DEFINE k == [p \in Below(n + 1) |-> IF p \in B THEN p ELSE h[g[p]]]
    <3>1. \A p \in Below(n + 1) \ B : g[p] \in Below(n)
      OBVIOUS
    <3>2. k \in [Below(n + 1) -> D]
      BY <3>1
    <3>3. ASSUME NEW p \in Below(n + 1) PROVE k[p] = IF p \in B THEN p ELSE k[g[p]]
      <4>1. CASE p \in B
        BY <4>1
      <4>2. CASE p \notin B
        <5> DEFINE q == g[p]
        <5>1. q \in Below(n) /\ q \in Below(n + 1)
          BY <3>1, <4>2
        <5>2. h[q] = IF q \in B THEN q ELSE h[g[q]]
          BY <5>1 DEF Leads
        <5>3. k[q] = h[q]
          BY <5>1, <5>2
        <5> QED BY <4>2, <5>3
      <4> QED BY <4>1, <4>2
    <3> HIDE DEF k
    <3>4. k \in Sol(n + 1)
      BY <3>2, <3>3 DEF Leads
    <3>5. n + 1 \in Nat
      OBVIOUS
    <3> HIDE DEF Sol
    <3> QED BY <3>4, <3>5
  <2> HIDE DEF T, Sol
  <2>3. T = Nat
    <3>1. T \in SUBSET Nat
      BY DEF T
    <3> QED BY <2>1, <2>2, <3>1, NumberInduction
  <2> QED BY <2>3 DEF T
<1>3. ASSUME NEW m \in Nat, NEW n \in Nat, NEW h \in Sol(m), NEW k \in Sol(n)
      PROVE  \A p \in Below(m) \cap Below(n) : h[p] = k[p]
  <2> DEFINE T == {i \in Nat : \A p \in Below(m) \cap Below(n) : mu[p] < i => h[p] = k[p]}
  <2>1. 0 \in T
    OBVIOUS
  <2>2. ASSUME NEW i \in T PROVE i + 1 \in T
    <3> SUFFICES ASSUME NEW p \in Below(m) \cap Below(n), mu[p] < i + 1 PROVE h[p] = k[p]
      OBVIOUS
    <3>1. /\ h[p] = IF p \in B THEN p ELSE h[g[p]]
          /\ k[p] = IF p \in B THEN p ELSE k[g[p]]
      BY DEF Leads
    <3>2. CASE p \notin B
      <4>1. g[p] \in Below(m) \cap Below(n) /\ mu[g[p]] < i
        BY <3>2
      <4>2. h[g[p]] = k[g[p]]
        BY <4>1
      <4> QED BY <3>1, <3>2, <4>2
    <3> QED BY <3>1, <3>2
  <2>3. T = Nat
    <3>1. T \in SUBSET Nat
      BY DEF T
    <3> HIDE DEF T
    <3> QED BY <2>1, <2>2, <3>1, NumberInduction
  <2> SUFFICES ASSUME NEW p \in Below(m) \cap Below(n) PROVE h[p] = k[p]
    OBVIOUS
  <2>4. mu[p] + 1 \in T
    <3>1. mu[p] + 1 \in Nat
      OBVIOUS
    <3> HIDE DEF T
    <3> QED BY <2>3, <3>1
  <2> QED BY <2>4
<1> DEFINE H(n) == CHOOSE h : h \in Sol(n)
           f0 == [p \in D |-> H(mu[p] + 1)[p]]
<1>4. \A n \in Nat : H(n) \in Sol(n)
  <2> HIDE DEF Sol
  <2> QED BY <1>2
<1>5. ASSUME NEW p \in D PROVE f0[p] = IF p \in B THEN p ELSE f0[g[p]]
  <2> DEFINE n == mu[p] + 1
  <2>1. n \in Nat /\ p \in Below(n)
    OBVIOUS
  <2>2. f0[p] = H(n)[p]
    OBVIOUS
  <2>3. H(n)[p] = IF p \in B THEN p ELSE H(n)[g[p]]
    <3>1. H(n) \in Sol(n)
      BY <1>4, <2>1
    <3> HIDE DEF H
    <3> QED BY <2>1, <3>1 DEF Leads
  <2>4. CASE p \notin B
    <3> DEFINE q == g[p]
               i == mu[q] + 1
    <3>1. q \in D /\ i \in Nat /\ q \in Below(i) \cap Below(n)
      BY <2>4
    <3>2. f0[q] = H(i)[q]
      BY <3>1
    <3>3. H(i) \in Sol(i) /\ H(n) \in Sol(n)
      BY <1>4, <2>1, <3>1
    <3> HIDE DEF H, Sol, i, q, n, Below, f0
    <3>4. H(i)[q] = H(n)[q]
      BY <1>3, <2>1, <3>1, <3>3
    <3> QED BY <2>2, <2>3, <2>4, <3>2, <3>4 DEF q
  <2> HIDE DEF H, n, f0
  <2> QED BY <2>2, <2>3, <2>4
<1>6. f0 = [p \in D |-> f0[p]]
  OBVIOUS
<1> HIDE DEF f0
<1>7. Leads(f0, D, B, g)
  BY <1>5 DEF Leads
<1> QED BY <1>6, <1>7

\* What holds from p on holds where the loop ends.
LEMMA LoopKeeps ==
    ASSUME NEW D, NEW B, NEW g, NEW mu, Loop(D, B, g, mu), NEW r, Leads(r, D, B, g),
           NEW I, KeptBy(I, D, B, g)
    PROVE  EndsIn(I, B, r)
<1>    /\ B \in SUBSET D /\ g \in [D -> D] /\ mu \in [D -> Nat] /\ \A p \in D \ B : mu[g[p]] < mu[p]
      /\ I \in SUBSET D /\ \A p \in I \ B : g[p] \in I
  BY DEF Loop, KeptBy
<1> SUFFICES \A p \in I : r[p] \in I \cap B
  BY DEF EndsIn
<1> DEFINE T == {n \in Nat : \A p \in I : mu[p] < n => r[p] \in I \cap B}
<1>1. \A p \in D : r[p] = IF p \in B THEN p ELSE r[g[p]]
  BY DEF Leads
<1>2. 0 \in T
  OBVIOUS
<1>3. ASSUME NEW n \in T PROVE n + 1 \in T
  <2> SUFFICES ASSUME NEW p \in I, mu[p] < n + 1 PROVE r[p] \in I \cap B
    OBVIOUS
  <2>1. CASE p \notin B
    <3>1. g[p] \in I /\ mu[g[p]] < n
      BY <2>1
    <3> QED BY <1>1, <2>1, <3>1
  <2> QED BY <1>1, <2>1
<1>4. T = Nat
  <2>1. T \in SUBSET Nat
    BY DEF T
  <2> HIDE DEF T
  <2> QED BY <1>2, <1>3, <2>1, NumberInduction
<1> SUFFICES ASSUME NEW p \in I PROVE r[p] \in I \cap B
  OBVIOUS
<1>5. mu[p] + 1 \in T
  <2>1. mu[p] + 1 \in Nat
    OBVIOUS
  <2> HIDE DEF T
  <2> QED BY <1>4, <2>1
<1> QED BY <1>5

\* f concatenates the first n sequences of s.
Flattens(f, s, n) == \A i \in 1..n : f[i] = IF i = 1 THEN s[i] ELSE f[i - 1] \o s[i]

\* The recursion of FlattenSeq has a solution.
LEMMA FlattenExists ==
    ASSUME NEW S, NEW s \in Seq(Seq(S))
    PROVE  \E f \in [1..Len(s) -> Seq(S)] : Flattens(f, s, Len(s))
<1> DEFINE T == {n \in Nat : n <= Len(s) => \E f \in [1..n -> Seq(S)] : Flattens(f, s, n)}
<1>0. Len(s) \in Nat
  BY LenProperties
<1>1. 0 \in T
  <2>1. [i \in 1..0 |-> s[i]] \in [1..0 -> Seq(S)]
    OBVIOUS
  <2>2. \A f : Flattens(f, s, 0)
    BY DEF Flattens
  <2> QED BY <2>1, <2>2
<1>2. ASSUME NEW n \in T PROVE n + 1 \in T
  <2> SUFFICES ASSUME n + 1 <= Len(s) PROVE \E f \in [1..(n + 1) -> Seq(S)] : Flattens(f, s, n + 1)
    OBVIOUS
  <2>1. n <= Len(s) /\ n \in Nat /\ n + 1 \in 1..Len(s)
    BY <1>0
  <2> PICK f \in [1..n -> Seq(S)] : Flattens(f, s, n)
    BY <2>1
  <2>2. s[n + 1] \in Seq(S)
    BY <2>1, ElementOfSeq
  <2> DEFINE x == IF n = 0 THEN s[1] ELSE f[n] \o s[n + 1]
             h == [i \in 1..(n + 1) |-> IF i = n + 1 THEN x ELSE f[i]]
  <2>3. x \in Seq(S)
    <3>1. CASE n = 0
      BY <2>2, <3>1
    <3>2. CASE n # 0
      <4>1. n \in 1..n
        BY <2>1, <3>2
      <4>2. f[n] \in Seq(S)
        BY <4>1
      <4>3. f[n] \o s[n + 1] \in Seq(S)
        BY <2>2, <4>2, ConcatProperties
      <4> QED BY <3>2, <4>3
    <3> QED BY <3>1, <3>2
  <2>4. h \in [1..(n + 1) -> Seq(S)]
    <3>1. \A i \in 1..(n + 1) : i # n + 1 => i \in 1..n
      BY <2>1
    <3> HIDE DEF x
    <3> QED BY <2>3, <3>1
  <2>5. ASSUME NEW i \in 1..(n + 1) PROVE h[i] = IF i = 1 THEN s[i] ELSE h[i - 1] \o s[i]
    <3>1. CASE i = n + 1
      <4>1. i # 1 => h[i - 1] = f[n] /\ n # 0
        BY <2>1, <3>1
      <4>2. i = 1 <=> n = 0
        BY <2>1, <3>1
      <4> QED BY <3>1, <4>1, <4>2
    <3>2. CASE i # n + 1
      <4>1. i \in 1..n /\ h[i] = f[i]
        BY <2>1, <3>2
      <4>2. i # 1 => h[i - 1] = f[i - 1]
        BY <2>1, <3>2
      <4> HIDE DEF h
      <4> QED BY <4>1, <4>2 DEF Flattens
    <3> QED BY <3>1, <3>2
  <2> HIDE DEF h
  <2> QED BY <2>4, <2>5 DEF Flattens
<1>3. T = Nat
  <2>1. T \in SUBSET Nat
    BY DEF T
  <2> HIDE DEF T
  <2> QED BY <1>1, <1>2, <2>1, NumberInduction
<1>4. Len(s) \in T
  <2> HIDE DEF T
  <2> QED BY <1>0, <1>3
<1> QED BY <1>0, <1>4

\* Two sequences are the same up to n.
SameUpTo(s, t, n) == \A i \in 1..n : s[i] = t[i]

\* What it is up to n does not depend on what follows.
LEMMA FlattenAgrees ==
    ASSUME NEW f, NEW h, NEW s, NEW t, NEW n \in Nat, Flattens(f, s, n), Flattens(h, t, n),
           SameUpTo(s, t, n)
    PROVE  SameUpTo(f, h, n)
<1> DEFINE T == {m \in Nat : m <= n => \A i \in 1..m : f[i] = h[i]}
<1>1. 0 \in T
  OBVIOUS
<1>2. ASSUME NEW m \in T PROVE m + 1 \in T
  <2> SUFFICES ASSUME m + 1 <= n PROVE \A i \in 1..(m + 1) : f[i] = h[i]
    OBVIOUS
  <2>1. \A i \in 1..m : f[i] = h[i]
    OBVIOUS
  <2>2. m + 1 \in 1..n /\ \A i \in 1..(m + 1) : i \in 1..m \/ i = m + 1
    OBVIOUS
  <2>3. f[m + 1] = h[m + 1]
    <3>1. /\ f[m + 1] = IF m + 1 = 1 THEN s[m + 1] ELSE f[(m + 1) - 1] \o s[m + 1]
          /\ h[m + 1] = IF m + 1 = 1 THEN t[m + 1] ELSE h[(m + 1) - 1] \o t[m + 1]
          /\ s[m + 1] = t[m + 1]
      BY <2>2 DEF Flattens, SameUpTo
    <3>2. m + 1 # 1 => f[(m + 1) - 1] = h[(m + 1) - 1]
      BY <2>1
    <3> QED BY <3>1, <3>2
  <2> QED BY <2>1, <2>2, <2>3
<1>3. T = Nat
  <2>1. T \in SUBSET Nat
    BY DEF T
  <2> HIDE DEF T
  <2> QED BY <1>1, <1>2, <2>1, NumberInduction
<1>4. n \in T
  <2> HIDE DEF T
  <2> QED BY <1>3
<1> QED BY <1>4 DEF SameUpTo

\* FlattenSeq is its last element.
LEMMA FlattenIs ==
    ASSUME NEW S, NEW s \in Seq(Seq(S)), s # <<>>
    PROVE  \E f \in [1..Len(s) -> Seq(S)] : Flattens(f, s, Len(s)) /\ FlattenSeq(s) = f[Len(s)]
<1> DEFINE h == CHOOSE f : f = [i \in 1..Len(s) |-> IF i = 1 THEN s[i] ELSE f[i - 1] \o s[i]]
<1>1. Len(s) \in Nat /\ Len(s) # 0
  BY EmptySeq
<1>2. FlattenSeq(s) = h[Len(s)]
  BY <1>1 DEF FlattenSeq
<1>3. PICK f \in [1..Len(s) -> Seq(S)] : Flattens(f, s, Len(s))
  BY FlattenExists
<1>4. f = [i \in 1..Len(s) |-> IF i = 1 THEN s[i] ELSE f[i - 1] \o s[i]]
  <2>1. f = [i \in 1..Len(s) |-> f[i]]
    OBVIOUS
  <2> QED BY <1>3, <2>1 DEF Flattens
<1>5. h = [i \in 1..Len(s) |-> IF i = 1 THEN s[i] ELSE h[i - 1] \o s[i]]
  BY <1>4
<1> HIDE DEF h
<1>6. Flattens(h, s, Len(s))
  BY <1>5 DEF Flattens
<1>7. f[Len(s)] = h[Len(s)]
  <2>1. Len(s) \in 1..Len(s)
    BY <1>1
  <2>2. SameUpTo(s, s, Len(s))
    BY DEF SameUpTo
  <2>3. SameUpTo(f, h, Len(s))
    BY <1>1, <1>3, <1>6, <2>2, FlattenAgrees
  <2> QED BY <2>1, <2>3 DEF SameUpTo
<1> QED BY <1>2, <1>3, <1>7

\* One more sequence is concatenated at the end.
LEMMA FlattenAppend ==
    ASSUME NEW S, NEW s \in Seq(Seq(S)), NEW x \in Seq(S)
    PROVE  FlattenSeq(s) \in Seq(S) /\ FlattenSeq(Append(s, x)) = FlattenSeq(s) \o x
<1> DEFINE t == Append(s, x)
           n == Len(s)
<1>1. n \in Nat /\ t \in Seq(Seq(S)) /\ t # <<>> /\ Len(t) = n + 1 /\ t[n + 1] = x
      /\ \A i \in 1..n : t[i] = s[i]
  BY LenProperties, AppendProperties
<1> HIDE DEF t
<1>2. PICK f \in [1..(n + 1) -> Seq(S)] : Flattens(f, t, n + 1) /\ FlattenSeq(t) = f[n + 1]
  BY <1>1, FlattenIs
<1>3. n + 1 \in 1..(n + 1)
  BY <1>1
<1>4. f[n + 1] = IF n = 0 THEN x ELSE f[n] \o x
  <2>1. f[n + 1] = IF n + 1 = 1 THEN t[n + 1] ELSE f[(n + 1) - 1] \o t[n + 1]
    BY <1>2, <1>3 DEF Flattens
  <2>2. (n + 1 = 1 <=> n = 0) /\ (n + 1) - 1 = n
    BY <1>1
  <2> QED BY <1>1, <2>1, <2>2
<1>5. CASE n = 0
  <2>1. s = <<>>
    BY <1>5, EmptySeq
  <2>2. FlattenSeq(s) = <<>>
    BY <1>5, <2>1 DEF FlattenSeq
  <2> QED BY <1>2, <1>4, <1>5, <2>2, EmptySeq, ConcatEmptySeq DEF t
<1>6. CASE n # 0
  <2>1. s # <<>>
    BY <1>6, EmptySeq
  <2>2. PICK h \in [1..n -> Seq(S)] : Flattens(h, s, n) /\ FlattenSeq(s) = h[n]
    BY <2>1, FlattenIs
  <2>3. n \in 1..n
    BY <1>1, <1>6
  <2>4. Flattens(f, t, n)
    <3>1. \A i \in 1..n : i \in 1..(n + 1)
      BY <1>1
    <3> QED BY <1>2, <3>1 DEF Flattens
  <2>5. f[n] = h[n]
    <3>1. SameUpTo(t, s, n)
      BY <1>1 DEF SameUpTo
    <3> HIDE DEF n
    <3>2. SameUpTo(f, h, n)
      BY <1>1, <2>2, <2>4, <3>1, FlattenAgrees
    <3> QED BY <2>3, <3>2 DEF SameUpTo
  <2> QED BY <1>2, <1>4, <1>6, <2>2, <2>3, <2>5 DEF t
<1> QED BY <1>5, <1>6

----------------------------------------------------------------------------

----------------------------------------------------------------------------
(* The configuration file.                                                   *)

(***************************************************************************)
(* The inductive invariant.  SettingsSurvive says nothing of the file that *)
(* the next boot reads, and PasswordsKept nothing of how often the file is *)
(* crypted; both need what save() and load() keep between the two.         *)
(***************************************************************************)
\* A document of one of the first n versions, crypted no more than n times;
\* without a key it is not crypted at all.
Sound(d, n) == d \in CfDocument /\ d.v <= n /\ d.pw <= n /\ (~d.key => d.pw = 0)

\* One that save() has written: its own passwords are crypted once.
Written(d, n) ==
    /\ d \in CfDocument /\ d.v <= n /\ d.pw <= n + 1 /\ (~d.key => d.pw = 0)
    /\ d.own /\ d.key => d.pw = 1

Versions ==
    /\ Sound(cfDoc, cfChanges)
    /\ cfConfig = Unreadable \/ Written(cfConfig, cfChanges)
    /\ cfBackup = Unreadable \/ Sound(cfBackup, cfChanges)
    /\ cfSaved <= cfChanges

\* Unless something was lost, the configuration is readable once there was a
\* save, and not older than it.
Latest ==
    ~cfLoss =>
        /\ cfDoc.v >= cfSaved
        /\ IF cfConfig = Unreadable THEN cfSaved = 0 ELSE cfConfig.v >= cfSaved

\* In the middle of a save.
Saving ==
    /\ cfStep \in {"rename", "backup"} /\ cfTorn => cfLoss
    /\ cfStep = "backup" /\ ~cfTorn => cfConfig # Unreadable /\ cfConfig.v = cfDoc.v

CfIInv == CfTypeOK /\ PasswordsKept /\ Versions /\ Latest /\ Saving
----------------------------------------------------------------------------
(* Crypting and loading.                                                    *)

LEMMA CryptedIsWritten ==
    ASSUME NEW n \in 0..ChangeLimit, NEW d, Sound(d, n), d.own => d.pw = 0
    PROVE  Written(Crypted(d), n) /\ Crypted(d).v = d.v /\ Decrypted(Crypted(d)) = d
<1> USE ConfFileLimits
<1>1. d \in CfDocument /\ d.pw \in Crypting /\ d.pw \in Int /\ d.key \in BOOLEAN
  BY DEF Sound, CfDocument, Crypting, Garbled
<1>2. CASE ~d.key \/ d.pw = Garbled
  <2>1. Crypted(d) = d /\ Decrypted(d) = d
    BY <1>1, <1>2 DEF Crypted, Decrypted, CfDocument, Garbled
  <2> QED BY <1>1, <1>2, <2>1 DEF Sound, Written, Garbled
<1>3. CASE d.key /\ d.pw # Garbled
  <2> DEFINE e == [d EXCEPT !.pw = d.pw + 1]
  <2>1. Crypted(d) = e
    BY <1>3 DEF Crypted
  <2>2. d.pw >= 0 /\ d.pw + 1 \in Crypting /\ d.pw + 1 <= n + 1
    BY <1>1, <1>3 DEF Sound, Crypting, Garbled
  <2>3. /\ e \in CfDocument
        /\ e.v = d.v /\ e.key = d.key /\ e.own = d.own /\ e.long = d.long /\ e.pw = d.pw + 1
    BY <1>1, <2>2 DEF CfDocument
  <2>4. Written(e, n)
    BY <1>1, <1>3, <2>2, <2>3 DEF Sound, Written
  <2>5. Decrypted(e) = [e EXCEPT !.pw = e.pw - 1]
    <3>1. e.key /\ e.pw # 0 /\ e.pw # Garbled
      BY <1>1, <1>3, <2>2, <2>3 DEF Garbled
    <3> QED BY <3>1 DEF Decrypted
  <2>6. [e EXCEPT !.pw = e.pw - 1] = d
    <3>1. e.pw - 1 = d.pw
      BY <1>1, <2>3
    <3>2. [e EXCEPT !.pw = d.pw] = d
      BY <1>1 DEF CfDocument
    <3> QED BY <3>1, <3>2
  <2> QED BY <2>1, <2>2, <2>4, <2>5, <2>6
<1> QED BY <1>1, <1>2, <1>3

LEMMA DecryptedIsSound ==
    ASSUME NEW n \in 0..ChangeLimit, NEW d, Written(d, n)
    PROVE  /\ Sound(Decrypted(d), n) /\ Decrypted(d).v = d.v
           /\ Decrypted(d).own => Decrypted(d).pw = 0
<1> USE ConfFileLimits
<1>1. d \in CfDocument /\ d.pw \in Crypting /\ d.pw \in Int /\ d.key \in BOOLEAN
  BY DEF Written, CfDocument, Crypting, Garbled
<1>2. CASE ~d.key
  BY <1>1, <1>2 DEF Sound, Written, Decrypted, CfDocument
<1>3. CASE d.key
  <2> DEFINE p == IF d.pw = 0 THEN Garbled ELSE IF d.pw = Garbled THEN Garbled ELSE d.pw - 1
             e == [d EXCEPT !.pw = p]
  <2>1. Decrypted(d) = e
    BY <1>3 DEF Decrypted
  <2>2. e.v = d.v /\ e.key = d.key /\ e.own = d.own /\ e.long = d.long /\ e.pw = p
    BY <1>1 DEF CfDocument
  <2>3. p \in Crypting /\ p <= n /\ (d.pw = 1 => p = 0)
    BY <1>1, <1>3 DEF Written, Crypting, Garbled
  <2>4. e \in CfDocument
    BY <1>1, <2>2, <2>3 DEF CfDocument
  <2> QED BY <1>3, <2>1, <2>2, <2>3, <2>4 DEF Sound, Written
<1> QED BY <1>1, <1>2, <1>3

\* A backup is decrypted although it is not crypted.
LEMMA BackupIsSound ==
    ASSUME NEW n \in 0..ChangeLimit, NEW d, Sound(d, n)
    PROVE  LET e == FromClearText(Decrypted(d))
           IN Sound(e, n) /\ e.v = d.v /\ (e.own => e.pw = 0)
<1> USE ConfFileLimits
<1>1. d \in CfDocument /\ d.pw \in Crypting /\ d.pw \in Int /\ d.key \in BOOLEAN
  BY DEF Sound, CfDocument, Crypting, Garbled
<1> DEFINE p == IF ~d.key THEN d.pw ELSE IF d.pw = 0 THEN Garbled ELSE IF d.pw = Garbled THEN Garbled ELSE d.pw - 1
           c == [d EXCEPT !.pw = p]
           e == [c EXCEPT !.own = ~c.key]
<1>2. p \in Crypting /\ p <= n /\ (~d.key => p = 0)
  BY <1>1 DEF Sound, Crypting, Garbled
<1>3. /\ c \in CfDocument
      /\ c.v = d.v /\ c.key = d.key /\ c.pw = p
  BY <1>1, <1>2 DEF CfDocument
<1>4. /\ e \in CfDocument
      /\ e.v = d.v /\ e.key = d.key /\ e.pw = p /\ e.own = ~d.key
  BY <1>1, <1>3 DEF CfDocument
<1>5. Decrypted(d) = c
  BY <1>1 DEF Decrypted
<1>6. FromClearText(c) = e
  BY DEF FromClearText
<1> QED BY <1>2, <1>4, <1>5, <1>6 DEF Sound

LEMMA DefaultsAreSound ==
    ASSUME NEW n \in 0..ChangeLimit
    PROVE  /\ Sound(CfDefaults, n) /\ Decrypted(CfDefaults) = CfDefaults
           /\ CfDefaults.pw = 0 /\ CfDefaults.v = 0
BY ConfFileLimits DEF Sound, Decrypted, CfDefaults, CfDocument, Crypting, Garbled

LEMMA UnreadableIsNoDocument == Unreadable \notin CfDocument
BY DEF Unreadable, CfDocument

\* Whatever file a boot reads, its document is sound, and the latest.
LEMMA LoadedIsSound ==
    ASSUME CfIInv
    PROVE  LET d == Loaded(cfConfig, cfBackup)
           IN /\ Sound(d, cfChanges) /\ (d.own => d.pw = 0)
              /\ ~cfLoss => d.v >= cfSaved
<1>1. cfChanges \in 0..ChangeLimit /\ cfSaved \in 0..ChangeLimit
  BY DEF CfIInv, CfTypeOK
<1>2. CASE cfConfig # Unreadable
  <2>1. Written(cfConfig, cfChanges) /\ (~cfLoss => cfConfig.v >= cfSaved)
    BY <1>2 DEF CfIInv, Versions, Latest
  <2> QED BY <1>1, <1>2, <2>1, DecryptedIsSound DEF Loaded
<1>3. CASE cfConfig = Unreadable /\ cfBackup # Unreadable
  <2>1. Sound(cfBackup, cfChanges) /\ (~cfLoss => cfSaved = 0)
    BY <1>3 DEF CfIInv, Versions, Latest
  <2>2. \A d : Sound(d, cfChanges) => d.v \in Nat /\ d.v >= 0
    BY <1>1, ConfFileLimits DEF Sound, CfDocument
  <2> QED BY <1>1, <1>3, <2>1, <2>2, BackupIsSound DEF Loaded
<1>4. CASE cfConfig = Unreadable /\ cfBackup = Unreadable
  <2>1. ~cfLoss => cfSaved = 0
    BY <1>4 DEF CfIInv, Latest
  <2> QED BY <1>1, <1>4, <2>1, DefaultsAreSound DEF Loaded
<1> QED BY <1>2, <1>3, <1>4

\* A change of a sound document keeps the invariant.
LEMMA ChangesKeep ==
    ASSUME CfIInv, NEW d, Changes(d), Sound(d, cfChanges + 1), d.own => d.pw = 0
    PROVE  CfIInv'
<1> DEFINE n == cfChanges + 1
<1>1. cfChanges \in 0..ChangeLimit /\ cfSaved \in 0..ChangeLimit /\ n \in 0..ChangeLimit
  BY ConfFileLimits DEF CfIInv, CfTypeOK, Changes
<1>2. cfDoc' = [d EXCEPT !.v = n] /\ d \in CfDocument
  BY DEF Changes, Sound
<1>3. Sound(cfDoc', n) /\ cfDoc'.v = n /\ (cfDoc'.own => cfDoc'.pw = 0)
  BY <1>1, <1>2 DEF Sound, CfDocument
<1>4. \A e : (Written(e, cfChanges) => Written(e, n)) /\ (Sound(e, cfChanges) => Sound(e, n))
  BY <1>1, ConfFileLimits DEF Sound, Written, CfDocument, Crypting, Garbled
<1>5. CfTypeOK'
  BY <1>1, <1>3 DEF CfIInv, CfTypeOK, Changes, Sound, Steps
<1>6. Versions'
  BY <1>1, <1>3, <1>4 DEF CfIInv, Versions, Changes
<1>7. Latest'
  BY <1>1, <1>3 DEF CfIInv, Latest, Versions, Changes
<1>8. Saving'
  BY DEF Saving, Changes
<1> QED BY <1>3, <1>5, <1>6, <1>7, <1>8 DEF CfIInv, PasswordsKept

----------------------------------------------------------------------------
LEMMA CfInitHolds == CfInit => CfIInv
<1> SUFFICES ASSUME CfInit PROVE CfIInv
  OBVIOUS
<1>1. 0 \in 0..ChangeLimit /\ 0 \in 0..CrashLimit /\ 0 \in 0..FullLimit
  BY ConfFileLimits
<1>2. Sound(CfDefaults, 0) /\ CfDefaults.pw = 0 /\ CfDefaults.v = 0
  BY <1>1, DefaultsAreSound
<1>3. CfTypeOK
  <2>1. cfDoc \in CfDocument /\ cfConfig \in CfFile /\ cfBackup \in CfFile
    BY <1>2 DEF CfInit, CfFile, Sound
  <2>2. cfStep \in Steps /\ cfTorn \in BOOLEAN /\ cfLoss \in BOOLEAN
    BY DEF CfInit, Steps
  <2>3. cfTemp \in 0..2 /\ cfSaved \in 0..ChangeLimit /\ cfChanges \in 0..ChangeLimit
        /\ cfCrashes \in 0..CrashLimit /\ cfFulls \in 0..FullLimit
    BY <1>1 DEF CfInit
  <2> QED BY <2>1, <2>2, <2>3 DEF CfTypeOK
<1> QED BY <1>2, <1>3 DEF CfInit, CfIInv, PasswordsKept, Versions, Latest, Saving

LEMMA CfStepKeeps == CfIInv /\ [CfNext]_cfVars => CfIInv'
<1> SUFFICES ASSUME CfIInv, [CfNext]_cfVars PROVE CfIInv'
  OBVIOUS
<1> USE ConfFileLimits
<1>1. /\ cfChanges \in 0..ChangeLimit /\ cfSaved \in 0..ChangeLimit
      /\ cfDoc \in CfDocument /\ Sound(cfDoc, cfChanges) /\ (cfDoc.own => cfDoc.pw = 0)
  BY DEF CfIInv, CfTypeOK, Versions, PasswordsKept
<1>2. \A e : (Sound(e, cfChanges) /\ cfChanges < ChangeLimit) => Sound(e, cfChanges + 1)
  BY <1>1 DEF Sound, CfDocument, Crypting, Garbled
<1>3. Decrypted(Crypted(cfDoc)) = cfDoc /\ Written(Crypted(cfDoc), cfChanges) /\ Crypted(cfDoc).v = cfDoc.v
  BY <1>1, CryptedIsWritten
<1>4. CASE CfSet
  <2> PICK long \in BOOLEAN : Changes([cfDoc EXCEPT !.long = long])
    BY <1>4 DEF CfSet
  <2>1. LET d == [cfDoc EXCEPT !.long = long]
        IN Sound(d, cfChanges) /\ (d.own => d.pw = 0)
    BY <1>1 DEF Sound, CfDocument
  <2> QED BY <1>2, <2>1, ChangesKeep DEF Changes
<1>5. CASE CfSetPasswords
  <2>1. LET d == [cfDoc EXCEPT !.pw = 0, !.own = TRUE]
        IN Sound(d, cfChanges) /\ (d.own => d.pw = 0)
    <3>1. 0 \in Crypting /\ 0 <= cfChanges
      BY <1>1 DEF Crypting
    <3> QED BY <1>1, <3>1 DEF Sound, CfDocument
  <2> QED BY <1>2, <1>5, <2>1, ChangesKeep DEF Changes, CfSetPasswords
<1>6. CASE CfSetMac
  <2>1. LET d == [cfDoc EXCEPT !.key = TRUE]
        IN Sound(d, cfChanges) /\ (d.own => d.pw = 0)
    BY <1>1, <1>6 DEF Sound, CfDocument, Crypting, CfSetMac
  <2> QED BY <1>2, <1>6, <2>1, ChangesKeep DEF Changes, CfSetMac
<1>7. CASE CfReset
  BY <1>1, <1>2, <1>7, DefaultsAreSound, ChangesKeep DEF Changes, CfReset
<1>8. CASE CfImport
  <2>1. LET d == FromClearText(cfConfig)
        IN cfChanges < ChangeLimit => Sound(d, cfChanges + 1) /\ (d.own => d.pw = 0)
    <3>1. Written(cfConfig, cfChanges)
      BY <1>8 DEF CfIInv, Versions, CfImport
    <3> DEFINE e == [cfConfig EXCEPT !.own = ~cfConfig.key]
    <3>2. /\ e \in CfDocument
          /\ e.v = cfConfig.v /\ e.key = cfConfig.key /\ e.pw = cfConfig.pw /\ e.own = ~cfConfig.key
      BY <3>1 DEF Written, CfDocument
    <3>3. e.v \in Int /\ e.v <= cfChanges + 1
      BY <1>1, <3>1, <3>2 DEF Written, CfDocument
    <3>4. Sound(e, cfChanges + 1) /\ (e.own => e.pw = 0)
      BY <3>1, <3>2, <3>3 DEF Written, Sound
    <3> QED BY <3>4 DEF FromClearText
  <2> QED BY <1>8, <2>1, ChangesKeep DEF Changes, CfImport
<1>9. CASE CfImportFails
  BY <1>2, <1>9, LoadedIsSound, ChangesKeep DEF Changes, CfImportFails
<1>10. CASE CfWrite
  BY <1>1, <1>10 DEF CfWrite, Overwrites, Length, CfIInv, CfTypeOK, PasswordsKept, Versions, Latest, Saving, Steps
<1>11. CASE CfWriteFull
  BY <1>1, <1>11 DEF CfWriteFull, CfIInv, CfTypeOK, PasswordsKept, Versions, Latest, Saving, Steps
<1>12. CASE CfOpenFails
  BY <1>1, <1>12 DEF CfOpenFails, CfIInv, CfTypeOK, PasswordsKept, Versions, Latest, Saving, Steps
<1>13. CASE CfRename
  <2>1. cfDoc' = cfDoc /\ (~cfTorn => cfConfig' = Crypted(cfDoc)) /\ (cfTorn => cfConfig' = Unreadable)
    BY <1>3, <1>13 DEF CfRename
  <2>2. Crypted(cfDoc) \in CfDocument /\ Crypted(cfDoc) # Unreadable
    BY <1>3, UnreadableIsNoDocument DEF Written
  <2>3. CfTypeOK' /\ PasswordsKept'
    BY <1>13, <2>1, <2>2 DEF CfRename, CfIInv, CfTypeOK, PasswordsKept, CfFile, Steps
  <2>4. Versions'
    BY <1>3, <1>13, <2>1 DEF CfRename, CfIInv, Versions
  <2>5. Latest' /\ Saving'
    BY <1>3, <1>13, <2>1, <2>2 DEF CfRename, CfIInv, Latest, Saving
  <2> QED BY <2>3, <2>4, <2>5 DEF CfIInv
<1>14. CASE CfRenameFails
  BY <1>1, <1>3, <1>14 DEF CfRenameFails, CfIInv, CfTypeOK, PasswordsKept, Versions, Latest, Saving, Steps
<1>15. CASE CfBackup
  <2>1. cfDoc \in CfFile /\ Unreadable \in CfFile /\ cfDoc.v \in 0..ChangeLimit /\ cfDoc.v <= cfChanges
    BY <1>1 DEF CfFile, CfDocument, Sound
  <2>2. CfTypeOK' /\ PasswordsKept'
    BY <1>15, <2>1 DEF CfBackup, CfIInv, CfTypeOK, PasswordsKept, Steps
  <2>3. Versions'
    BY <1>15, <2>1 DEF CfBackup, CfIInv, Versions
  <2>4. Latest' /\ Saving'
    BY <1>15, <2>1 DEF CfBackup, CfIInv, Latest, Saving
  <2> QED BY <2>2, <2>3, <2>4 DEF CfIInv
<1>16. CASE CfCrash
  <2>1. cfDoc \in CfFile /\ Unreadable \in CfFile
    BY <1>1 DEF CfFile
  <2>2. CfTypeOK'
    BY <1>16, <2>1 DEF CfCrash, Overwrites, Length, CfIInv, CfTypeOK, Steps
  <2>3. Versions'
    BY <1>16 DEF CfCrash, CfIInv, Versions
  <2> QED BY <1>16, <2>2, <2>3 DEF CfCrash, CfIInv, PasswordsKept, Latest, Saving
<1>17. CASE CfBoot
  <2>1. LET d == Loaded(cfConfig, cfBackup)
        IN Sound(d, cfChanges) /\ (d.own => d.pw = 0) /\ (~cfLoss => d.v >= cfSaved)
    BY LoadedIsSound
  <2>2. CfTypeOK'
    BY <1>17, <2>1 DEF CfBoot, CfIInv, CfTypeOK, Sound, Steps
  <2> QED BY <1>17, <2>1, <2>2 DEF CfBoot, CfIInv, PasswordsKept, Versions, Latest, Saving
<1>18. CASE UNCHANGED cfVars
  BY <1>18 DEF cfVars, CfIInv, CfTypeOK, PasswordsKept, Versions, Latest, Saving
<1> QED
  BY <1>4, <1>5, <1>6, <1>7, <1>8, <1>9, <1>10, <1>11, <1>12, <1>13, <1>14, <1>15, <1>16, <1>17, <1>18 DEF CfNext

LEMMA CfInvariant == CfSpec => []CfIInv
BY CfInitHolds, CfStepKeeps, PTL DEF CfSpec

----------------------------------------------------------------------------
(* The passwords in memory are those that were set (simple_crypt.cc), for    *)
(* any number of saves, crashes and loads.                                   *)
THEOREM PasswordsAreKept == CfSpec => []PasswordsKept
BY CfInvariant, PTL DEF CfIInv

(* No power failure takes the settings back behind the last completed        *)
(* save() (conf_handler.cc).                                                 *)
THEOREM SettingsAlwaysSurvive == CfSpec => []SettingsSurvive
<1>1. CfIInv => SettingsSurvive
  BY DEF CfIInv, Latest, SettingsSurvive
<1> QED BY <1>1, CfInvariant, PTL

(* save() keeps a readable copy that is no older than its last completed run.*)
THEOREM SomeCopyIsAlwaysWhole == CfSpec => []SomeCopyIsWhole
<1>1. CfIInv => SomeCopyIsWhole
  BY DEF CfIInv, CfTypeOK, Latest, SomeCopyIsWhole
<1> QED BY <1>1, CfInvariant, PTL

(* What a boot reads, a change makes and a save writes stays a document, and *)
(* no password is crypted more often than there were changes.                *)
THEOREM ConfigurationTypes == CfSpec => []CfTypeOK
BY CfInvariant, PTL DEF CfIInv

(* save() and load() (conf_handler.cc) lose neither the settings nor the     *)
(* passwords nor the last copy to read them from.                            *)
THEOREM ConfigurationAlwaysSurvives == CfSpec => []ConfigurationSurvives
BY PasswordsAreKept, SettingsAlwaysSurvive, SomeCopyIsAlwaysWhole, PTL DEF ConfigurationSurvives

----------------------------------------------------------------------------
(***************************************************************************)
(* The inductive invariant.  What is being saved is a document with one    *)
(* mapping for each measurement, and differs from the file by no more than *)
(* the request it was changed for.                                         *)
(***************************************************************************)
Distinct(doc) == \A j, k \in DOMAIN doc : doc[j].iid = doc[k].iid => j = k

IdOf(doc, iid) == IF Positions(doc, iid) = {} THEN NoId ELSE doc[First(Positions(doc, iid))].id

\* From the old document to the new one a measurement loses its id only by its
\* own request, and to the id of it.
ChangesOnlyFor(op, old, new) ==
    \A iid \in Iids :
        IdOf(old, iid) # NoId /\ IdOf(new, iid) # IdOf(old, iid) =>
            /\ op.iid = iid
            /\ op.kind = "sync" => op.id # NoId /\ IdOf(new, iid) = op.id

\* From the old document to the new one an id finds another measurement only by a
\* request for the one it found, or by one that gives the id to a measurement that
\* stands before that one.
FindsOnlyFor(op, old, new) ==
    \A id \in AllocatedIds :
        GetIid(old, id) # "none" =>
            \/ GetIid(new, id) = GetIid(old, id)
            \/ op.iid = GetIid(old, id) /\ (op.kind = "free" \/ op.id \notin {NoId, id})
            \/ /\ op.kind = "sync" /\ op.id = id
               /\ \E k \in Positions(old, op.iid), j \in Positions(old, GetIid(old, id)) : k < j

Docs ==
    /\ mlFile \in MlFile /\ mlTmp \in MlFile /\ mpDoc \in Seq(Mapping)
    /\ Distinct(mlFile.doc)

Pending ==
    mpStep # "idle" =>
        /\ Distinct(mpDoc)
        /\ ChangesOnlyFor(mpOp, mlFile.doc, mpDoc) /\ FindsOnlyFor(mpOp, mlFile.doc, mpDoc)

MpIInv ==
    /\ Docs /\ Pending
    /\ mlFile.state # "torn"
    /\ mpStep = "move" => mlTmp = [state |-> "whole", doc |-> mpDoc]
----------------------------------------------------------------------------
(* Documents with one mapping for each measurement.                         *)

LEMMA MappingFields ==
    ASSUME NEW doc \in Seq(Mapping), NEW k \in DOMAIN doc
    PROVE  doc[k] \in Mapping /\ k \in 1..Len(doc) /\ Len(doc) \in Nat /\ DOMAIN doc = 1..Len(doc)
BY ElementOfSeq, LenProperties

LEMMA TheMapping ==
    ASSUME NEW doc \in Seq(Mapping), Distinct(doc), NEW k \in DOMAIN doc
    PROVE  /\ Positions(doc, doc[k].iid) = {k} /\ First(Positions(doc, doc[k].iid)) = k
           /\ IdOf(doc, doc[k].iid) = doc[k].id
<1>1. Positions(doc, doc[k].iid) = {k}
  BY DEF Positions, Distinct
<1>2. k \in Int
  BY MappingFields
<1>3. First({k}) = k
  <2>1. k <= k
    BY <1>2
  <2> QED BY <2>1, Zenon DEF First
<1> QED BY <1>1, <1>3 DEF IdOf

LEMMA NoMapping ==
    ASSUME NEW doc, NEW iid, Positions(doc, iid) = {}
    PROVE  First(Positions(doc, iid)) = 0 /\ IdOf(doc, iid) = NoId
BY DEF First, IdOf

\* Which of the two it is.
LEMMA MappingOrNone ==
    ASSUME NEW doc \in Seq(Mapping), Distinct(doc), NEW iid
    PROVE  \/ Positions(doc, iid) = {} /\ First(Positions(doc, iid)) = 0 /\ IdOf(doc, iid) = NoId
           \/ \E k \in DOMAIN doc : /\ doc[k].iid = iid /\ k # 0
                                   /\ First(Positions(doc, iid)) = k /\ IdOf(doc, iid) = doc[k].id
<1>1. CASE Positions(doc, iid) = {}
  BY <1>1, NoMapping
<1>2. CASE Positions(doc, iid) # {}
  <2> PICK k \in DOMAIN doc : doc[k].iid = iid
    BY <1>2 DEF Positions
  <2>1. k # 0
    BY MappingFields
  <2> QED BY <2>1, TheMapping
<1> QED BY <1>1, <1>2

\* add_mapping changes the id of one measurement, and only to a new one.
LEMMA AddMappingChanges ==
    ASSUME NEW doc \in Seq(Mapping), Distinct(doc), NEW e \in Mapping
    PROVE  /\ AddMapping(doc, e) \in Seq(Mapping) /\ Distinct(AddMapping(doc, e))
           /\ \A iid \in Iids : IdOf(AddMapping(doc, e), iid) =
                                   IF iid = e.iid THEN Kept(IdOf(doc, iid), e.id) ELSE IdOf(doc, iid)
<1> DEFINE new == AddMapping(doc, e)
<1>0. Len(doc) \in Nat /\ DOMAIN doc = 1..Len(doc)
  BY LenProperties
<1>1. CASE Positions(doc, e.iid) = {}
  <2>1. new = Append(doc, e)
    BY <1>1, NoMapping DEF AddMapping
  <2>2. new \in Seq(Mapping) /\ DOMAIN new = 1..(Len(doc) + 1)
    BY <2>1, <1>0, LenProperties
  <2>3. \A k \in DOMAIN new : new[k] = IF k \in DOMAIN doc THEN doc[k] ELSE e
    BY <2>1, <2>2, <1>0
  <2>4. new[Len(doc) + 1] = e /\ Len(doc) + 1 \in DOMAIN new /\ Len(doc) + 1 \notin DOMAIN doc
    BY <2>2, <2>3, <1>0
  <2>5. \A k \in DOMAIN doc : doc[k].iid # e.iid
    BY <1>1 DEF Positions
  <2>6. \A k \in DOMAIN new : k \in DOMAIN doc \/ k = Len(doc) + 1
    BY <2>2, <1>0
  <2>7. Distinct(new)
    BY <2>3, <2>5, <2>6 DEF Distinct
  <2>8. ASSUME NEW iid \in Iids
        PROVE  IdOf(new, iid) = IF iid = e.iid THEN Kept(IdOf(doc, iid), e.id) ELSE IdOf(doc, iid)
    <3>1. CASE iid = e.iid
      <4>1. IdOf(new, iid) = e.id
        BY <3>1, <2>2, <2>4, <2>7, TheMapping
      <4>2. IdOf(doc, iid) = NoId
        BY <3>1, <1>1, NoMapping
      <4> QED BY <3>1, <4>1, <4>2 DEF Kept, NoId
    <3>2. CASE iid # e.iid /\ Positions(doc, iid) = {}
      <4>1. Positions(new, iid) = {}
        BY <3>2, <2>3 DEF Positions
      <4> QED BY <3>2, <4>1, NoMapping
    <3>3. CASE iid # e.iid /\ Positions(doc, iid) # {}
      <4> PICK k \in DOMAIN doc : doc[k].iid = iid
        BY <3>3 DEF Positions
      <4>1. k \in DOMAIN new /\ new[k] = doc[k]
        BY <2>2, <2>3, <1>0
      <4>2. IdOf(new, iid) = new[k].id /\ IdOf(doc, iid) = doc[k].id
        BY <4>1, <2>2, <2>7, TheMapping
      <4> QED BY <3>3, <4>1, <4>2
    <3> QED BY <3>1, <3>2, <3>3
  <2> QED BY <2>2, <2>7, <2>8
<1>2. CASE Positions(doc, e.iid) # {}
  <2> PICK k \in DOMAIN doc : doc[k].iid = e.iid
    BY <1>2 DEF Positions
  <2> DEFINE m == Updated(doc[k], e)
  <2>1. new = [doc EXCEPT ![k] = m]
    <3>1. First(Positions(doc, e.iid)) = k /\ k # 0
      BY TheMapping, MappingFields
    <3> QED BY <3>1 DEF AddMapping
  <2>2. m \in Mapping /\ m.iid = e.iid /\ m.id = Kept(doc[k].id, e.id)
    BY MappingFields DEF Updated, Mapping, Kept
  <2>3. new \in Seq(Mapping) /\ DOMAIN new = DOMAIN doc
    BY <2>1, <2>2, <1>0, ExceptSeq
  <2>4. \A j \in DOMAIN new : new[j] = IF j = k THEN m ELSE doc[j]
    BY <2>1, <2>3
  <2>5. \A j \in DOMAIN new : new[j].iid = doc[j].iid
    BY <2>2, <2>4
  <2>6. Distinct(new)
    BY <2>3, <2>5 DEF Distinct
  <2>7. ASSUME NEW iid \in Iids
        PROVE  IdOf(new, iid) = IF iid = e.iid THEN Kept(IdOf(doc, iid), e.id) ELSE IdOf(doc, iid)
    <3>1. CASE iid = e.iid
      <4>1. IdOf(new, iid) = m.id /\ IdOf(doc, iid) = doc[k].id
        BY <3>1, <2>2, <2>3, <2>4, <2>6, TheMapping
      <4> QED BY <3>1, <4>1, <2>2
    <3>2. CASE iid # e.iid /\ Positions(doc, iid) = {}
      <4>1. Positions(new, iid) = {}
        BY <3>2, <2>3, <2>5 DEF Positions
      <4> QED BY <3>2, <4>1, NoMapping
    <3>3. CASE iid # e.iid /\ Positions(doc, iid) # {}
      <4> PICK j \in DOMAIN doc : doc[j].iid = iid
        BY <3>3 DEF Positions
      <4>1. new[j] = doc[j] /\ j \in DOMAIN new
        BY <3>3, <2>3, <2>4
      <4>2. IdOf(new, iid) = new[j].id /\ IdOf(doc, iid) = doc[j].id
        BY <4>1, <2>3, <2>6, TheMapping
      <4> QED BY <3>3, <4>1, <4>2
    <3> QED BY <3>1, <3>2, <3>3
  <2> QED BY <2>3, <2>6, <2>7
<1> QED BY <1>1, <1>2

\* remove_mapping takes the id of one measurement and leaves the others.
LEMMA RemovedAt ==
    ASSUME NEW doc \in Seq(Mapping), NEW k \in DOMAIN doc
    PROVE  LET new == RemoveAt(doc, k)
           IN /\ new \in Seq(Mapping) /\ DOMAIN new = 1..(Len(doc) - 1)
              /\ \A j \in 1..(Len(doc) - 1) : new[j] = doc[IF j < k THEN j ELSE j + 1]
<1> DEFINE new == RemoveAt(doc, k)
           Spot(j) == IF j < k THEN j ELSE j + 1
           n == Len(doc)
<1>0. n \in Nat /\ DOMAIN doc = 1..n /\ k \in 1..n
  BY LenProperties
<1>1. \A j \in 1..n : doc[j] \in Mapping
  BY ElementOfSeq
<1>2. /\ SubSeq(doc, 1, k - 1) \in Seq(Mapping) /\ Len(SubSeq(doc, 1, k - 1)) = k - 1
      /\ \A j \in 1..(k - 1) : SubSeq(doc, 1, k - 1)[j] = doc[j]
  BY <1>0, <1>1, SubSeqProperties
<1>3. /\ SubSeq(doc, k + 1, n) \in Seq(Mapping) /\ Len(SubSeq(doc, k + 1, n)) = n - k
      /\ \A j \in 1..(n - k) : SubSeq(doc, k + 1, n)[j] = doc[k + j]
  BY <1>0, <1>1, SubSeqProperties
<1>4. /\ new \in Seq(Mapping) /\ DOMAIN new = 1..(n - 1)
      /\ \A j \in 1..(n - 1) : new[j] = doc[Spot(j)]
  <2> DEFINE s == SubSeq(doc, 1, k - 1)
             t == SubSeq(doc, k + 1, n)
  <2>1. new = s \o t
    BY DEF RemoveAt
  <2>2. /\ s \o t \in Seq(Mapping) /\ Len(s \o t) = (k - 1) + (n - k)
        /\ \A j \in 1..((k - 1) + (n - k)) : (s \o t)[j] = IF j <= k - 1 THEN s[j] ELSE t[j - (k - 1)]
    <3>1. s \in Seq(Mapping) /\ t \in Seq(Mapping) /\ Len(s) = k - 1 /\ Len(t) = n - k
      BY <1>2, <1>3
    <3> HIDE DEF s, t
    <3>2. /\ s \o t \in Seq(Mapping) /\ Len(s \o t) = Len(s) + Len(t)
          /\ \A j \in 1..(Len(s) + Len(t)) : (s \o t)[j] = IF j <= Len(s) THEN s[j] ELSE t[j - Len(s)]
      BY <3>1, ConcatProperties
    <3> QED BY <3>1, <3>2
  <2>3. (k - 1) + (n - k) = n - 1
    BY <1>0
  <2>4. ASSUME NEW j \in 1..(n - 1)
        PROVE  (s \o t)[j] = doc[Spot(j)]
    <3>1. CASE j < k
      <4>1. (s \o t)[j] = s[j] /\ j \in 1..(k - 1)
        <5>1. j \in 1..(k - 1) /\ j \in 1..((k - 1) + (n - k)) /\ j <= k - 1
          BY <1>0, <3>1
        <5> HIDE DEF s, t
        <5> QED BY <5>1, <2>2
      <4> QED BY <1>2, <3>1, <4>1
    <3>2. CASE j >= k
      <4>1. (s \o t)[j] = t[j - (k - 1)] /\ j - (k - 1) \in 1..(n - k) /\ k + (j - (k - 1)) = j + 1
        <5>1. /\ j \in 1..((k - 1) + (n - k)) /\ ~(j <= k - 1)
              /\ j - (k - 1) \in 1..(n - k) /\ k + (j - (k - 1)) = j + 1
          BY <1>0, <3>2
        <5> HIDE DEF s, t
        <5> QED BY <5>1, <2>2
      <4>2. t[j - (k - 1)] = doc[j + 1]
        BY <1>3, <4>1
      <4>3. Spot(j) = j + 1
        BY <1>0, <3>2
      <4> QED BY <4>1, <4>2, <4>3
    <3>3. j < k \/ j >= k
      BY <1>0
    <3> HIDE DEF s, t, Spot
    <3> QED BY <3>1, <3>2, <3>3
  <2>5. DOMAIN (s \o t) = 1..(n - 1)
    BY <2>2, <2>3, LenProperties
  <2> HIDE DEF s, t
  <2> QED BY <2>1, <2>2, <2>4, <2>5
<1> QED BY <1>4

LEMMA RemoveChanges ==
    ASSUME NEW doc \in Seq(Mapping), Distinct(doc), NEW k \in DOMAIN doc
    PROVE  LET new == RemoveAt(doc, k)
           IN /\ new \in Seq(Mapping) /\ Distinct(new)
              /\ \A iid \in Iids : iid # doc[k].iid => IdOf(new, iid) = IdOf(doc, iid)
<1> DEFINE new == RemoveAt(doc, k)
           Spot(j) == IF j < k THEN j ELSE j + 1
           n == Len(doc)
<1>0. n \in Nat /\ DOMAIN doc = 1..n /\ k \in 1..n
  BY LenProperties
<1>4. /\ new \in Seq(Mapping) /\ DOMAIN new = 1..(n - 1)
      /\ \A j \in 1..(n - 1) : new[j] = doc[Spot(j)]
  BY RemovedAt
<1>5. \A j \in 1..(n - 1) : Spot(j) \in 1..n /\ Spot(j) # k
  BY <1>0
<1>6. \A i, j \in 1..(n - 1) : Spot(i) = Spot(j) => i = j
  BY <1>0
<1>7. Distinct(new)
  <2> SUFFICES ASSUME NEW i \in DOMAIN new, NEW j \in DOMAIN new, new[i].iid = new[j].iid
               PROVE  i = j
    BY DEF Distinct
  <2>1. new[i] = doc[Spot(i)] /\ new[j] = doc[Spot(j)] /\ i \in 1..(n - 1) /\ j \in 1..(n - 1)
    BY <1>4
  <2>2. Spot(i) \in DOMAIN doc /\ Spot(j) \in DOMAIN doc
    BY <1>0, <1>5, <2>1
  <2> HIDE DEF new, Spot
  <2>3. Spot(i) = Spot(j)
    BY <2>1, <2>2 DEF Distinct
  <2> QED BY <1>6, <2>1, <2>3
<1>8. ASSUME NEW iid \in Iids, iid # doc[k].iid
      PROVE  IdOf(new, iid) = IdOf(doc, iid)
  <2>1. CASE Positions(doc, iid) = {}
    <3>1. Positions(new, iid) = {}
      BY <2>1, <1>0, <1>4, <1>5 DEF Positions
    <3> QED BY <2>1, <3>1, NoMapping
  <2>2. CASE Positions(doc, iid) # {}
    <3> PICK j \in DOMAIN doc : doc[j].iid = iid
      BY <2>2 DEF Positions
    <3> DEFINE i == IF j < k THEN j ELSE j - 1
    <3>1. i \in 1..(n - 1) /\ Spot(i) = j
      BY <1>0, <1>8
    <3>2. i \in DOMAIN new /\ new[i] = doc[j]
      BY <1>4, <3>1
    <3> HIDE DEF i, new
    <3>3. IdOf(new, new[i].iid) = new[i].id /\ IdOf(doc, doc[j].iid) = doc[j].id
      BY <1>4, <1>7, <3>2, TheMapping
    <3> QED BY <3>2, <3>3
  <2> QED BY <2>1, <2>2
<1> QED BY <1>4, <1>7, <1>8

----------------------------------------------------------------------------
(* The measurement that an id finds is that of the first mapping with it.   *)

WithId(doc, id) == {j \in DOMAIN doc : doc[j].id = id}

LEMMA FoundIs ==
    ASSUME NEW doc \in Seq(Mapping), NEW id, NEW k \in WithId(doc, id), \A j \in WithId(doc, id) : k <= j
    PROVE  GetIid(doc, id) = doc[k].iid
<1> DEFINE T == WithId(doc, id)
<1>1. \A j \in T : j \in Int
  BY MappingFields DEF WithId
<1>2. T # {} /\ k # 0
  BY MappingFields DEF WithId
<1> HIDE DEF T
<1>3. First(T) = k
  <2> DEFINE c == CHOOSE x \in T : \A j \in T : x <= j
  <2>1. c \in T /\ \A j \in T : c <= j
    <3>1. \E x \in T : \A j \in T : x <= j
      BY DEF T
    <3> QED BY <3>1
  <2>2. First(T) = c
    BY <1>2 DEF First
  <2> HIDE DEF c
  <2>3. c <= k /\ k <= c /\ c \in Int /\ k \in Int
    BY <1>1, <2>1 DEF T
  <2> QED BY <2>2, <2>3
<1>4. First({j \in DOMAIN doc : doc[j].id = id}) = k
  BY <1>3 DEF T, WithId
<1> QED BY <1>2, <1>4 DEF GetIid

LEMMA Found ==
    ASSUME NEW doc \in Seq(Mapping), NEW id, GetIid(doc, id) # "none"
    PROVE  \E k \in WithId(doc, id) : GetIid(doc, id) = doc[k].iid /\ \A j \in WithId(doc, id) : k <= j
<1> DEFINE T == WithId(doc, id)
<1>1. T # {}
  <2> SUFFICES ASSUME T = {} PROVE GetIid(doc, id) = "none"
    OBVIOUS
  <2>1. First({j \in DOMAIN doc : doc[j].id = id}) = 0
    BY DEF WithId, First
  <2> QED BY <2>1 DEF GetIid
<1>2. T \in SUBSET Nat
  BY MappingFields DEF WithId
<1> HIDE DEF T
<1>3. PICK k \in T : \A j \in T : k <= j
  BY <1>1, <1>2, LeastNumber
<1> QED BY <1>3, FoundIs DEF T

LEMMA AddMappingFinds ==
    ASSUME NEW doc \in Seq(Mapping), Distinct(doc), NEW e \in Mapping, NEW op,
           op.kind = "sync", op.iid = e.iid, op.id = e.id
    PROVE  FindsOnlyFor(op, doc, AddMapping(doc, e))
<1> DEFINE new == AddMapping(doc, e)
<1> SUFFICES ASSUME NEW id \in AllocatedIds, GetIid(doc, id) # "none"
             PROVE  \/ GetIid(new, id) = GetIid(doc, id)
                    \/ op.iid = GetIid(doc, id) /\ op.id \notin {NoId, id}
                    \/ /\ op.id = id
                       /\ \E k \in Positions(doc, op.iid), j \in Positions(doc, GetIid(doc, id)) : k < j
  BY DEF FindsOnlyFor
<1>1. Len(doc) \in Nat /\ DOMAIN doc = 1..Len(doc) /\ id # NoId /\ new \in Seq(Mapping)
  BY LenProperties, AddMappingChanges DEF AllocatedIds, NoId
<1>2. PICK k \in WithId(doc, id) : GetIid(doc, id) = doc[k].iid /\ \A j \in WithId(doc, id) : k <= j
  BY Found
<1>3. k \in DOMAIN doc /\ doc[k].id = id
  BY DEF WithId
<1>4. CASE Positions(doc, e.iid) = {}
  <2>1. new = Append(doc, e)
    BY <1>4, NoMapping DEF AddMapping
  <2>2. DOMAIN new = 1..(Len(doc) + 1) /\ \A j \in DOMAIN new : new[j] = IF j \in DOMAIN doc THEN doc[j] ELSE e
    BY <2>1, <1>1, LenProperties
  <2> HIDE DEF new
  <2>3. k \in WithId(new, id) /\ new[k] = doc[k]
    BY <1>1, <1>3, <2>2 DEF WithId
  <2>4. \A j \in WithId(new, id) : k <= j
    BY <1>1, <1>2, <1>3, <2>2 DEF WithId
  <2>5. GetIid(new, id) = new[k].iid
    BY <1>1, <2>3, <2>4, FoundIs
  <2> QED BY <1>2, <2>3, <2>5
<1>5. CASE Positions(doc, e.iid) # {}
  <2> PICK i \in DOMAIN doc : doc[i].iid = e.iid
    BY <1>5 DEF Positions
  <2> DEFINE m == Updated(doc[i], e)
  <2>1. new = [doc EXCEPT ![i] = m]
    <3>1. First(Positions(doc, e.iid)) = i /\ i # 0
      BY TheMapping, MappingFields
    <3> QED BY <3>1 DEF AddMapping
  <2>2. m.iid = e.iid /\ m.id = Kept(doc[i].id, e.id)
    BY MappingFields DEF Updated, Mapping, Kept
  <2>3. DOMAIN new = DOMAIN doc /\ \A j \in DOMAIN new : new[j] = IF j = i THEN m ELSE doc[j]
    BY <2>1
  <2> HIDE DEF new, m
  <2>4. \A j \in DOMAIN new : new[j].iid = doc[j].iid /\ (j # i => new[j].id = doc[j].id)
    BY <2>2, <2>3
  <2>5. i \in Int /\ k \in Int
    BY <1>1, <1>3
  <2>6. CASE k = i /\ e.id \notin {NoId, id}
    BY <1>2, <2>6
  <2>7. CASE i # k /\ new[i].id = id /\ i < k
    <3>1. i \notin WithId(doc, id)
      BY <1>2, <2>5, <2>7
    <3>2. e.id = id
      BY <2>2, <2>3, <2>7, <3>1 DEF WithId, Kept
    <3> QED BY <1>2, <1>3, <2>7, <3>2 DEF Positions
  <2>8. CASE ~(k = i /\ e.id \notin {NoId, id}) /\ ~(i # k /\ new[i].id = id /\ i < k)
    <3>1. k \in WithId(new, id)
      BY <1>3, <2>2, <2>3, <2>4, <2>8 DEF WithId, Kept, NoId
    <3>2. ASSUME NEW j \in WithId(new, id) PROVE k <= j
      <4>1. CASE j # i
        BY <1>2, <2>3, <2>4, <4>1 DEF WithId
      <4>2. CASE j = i
        BY <2>5, <2>8, <4>2 DEF WithId
      <4> QED BY <4>1, <4>2
    <3>3. GetIid(new, id) = new[k].iid
      BY <1>1, <3>1, <3>2, FoundIs
    <3> QED BY <1>2, <1>3, <2>3, <2>4, <3>3
  <2> QED BY <2>6, <2>7, <2>8
<1> QED BY <1>4, <1>5

LEMMA RemoveFinds ==
    ASSUME NEW doc \in Seq(Mapping), NEW i \in DOMAIN doc, NEW op,
           op.kind = "free", op.iid = doc[i].iid
    PROVE  FindsOnlyFor(op, doc, RemoveAt(doc, i))
<1> DEFINE new == RemoveAt(doc, i)
           Spot(j) == IF j < i THEN j ELSE j + 1
           n == Len(doc)
<1> SUFFICES ASSUME NEW id \in AllocatedIds, GetIid(doc, id) # "none"
             PROVE  GetIid(new, id) = GetIid(doc, id) \/ op.iid = GetIid(doc, id)
  BY DEF FindsOnlyFor
<1>1. n \in Nat /\ DOMAIN doc = 1..n /\ i \in 1..n
  BY LenProperties
<1>2. new \in Seq(Mapping) /\ DOMAIN new = 1..(n - 1) /\ \A j \in 1..(n - 1) : new[j] = doc[Spot(j)]
  BY RemovedAt
<1>3. PICK k \in WithId(doc, id) : GetIid(doc, id) = doc[k].iid /\ \A j \in WithId(doc, id) : k <= j
  BY Found
<1>4. k \in 1..n /\ doc[k].id = id
  BY <1>1 DEF WithId
<1>5. CASE k = i
  BY <1>3, <1>5
<1>6. CASE k # i
  <2> DEFINE p == IF k < i THEN k ELSE k - 1
  <2>1. p \in 1..(n - 1) /\ Spot(p) = k
    BY <1>1, <1>4, <1>6
  <2>2. p \in WithId(new, id) /\ new[p] = doc[k]
    <3> HIDE DEF p, new, Spot
    <3> QED BY <1>2, <1>4, <2>1 DEF WithId
  <2>3. ASSUME NEW j \in WithId(new, id) PROVE p <= j
    <3>1. j \in 1..(n - 1) /\ new[j].id = id
      BY <1>2 DEF WithId
    <3>2. Spot(j) \in 1..n
      BY <1>1, <3>1
    <3>3. doc[Spot(j)].id = id
      <4> HIDE DEF Spot, new
      <4> QED BY <1>2, <3>1
    <3>4. k <= Spot(j)
      <4> HIDE DEF Spot
      <4> QED BY <1>1, <1>3, <3>2, <3>3 DEF WithId
    <3> HIDE DEF new, n
    <3> QED BY <1>1, <1>4, <3>1, <3>4 DEF n
  <2> HIDE DEF p, new
  <2>4. GetIid(new, id) = new[p].iid
    BY <1>2, <2>2, <2>3, FoundIs
  <2> QED BY <1>3, <2>2, <2>4
<1> QED BY <1>5, <1>6

----------------------------------------------------------------------------
LEMMA MpInitHolds == MpInit => MpIInv
<1> SUFFICES ASSUME MpInit PROVE MpIInv
  OBVIOUS
<1>1. <<>> \in Seq(Mapping) /\ DOMAIN <<>> = {}
  BY EmptySeq
<1>2. \A state \in {"none", "damaged"} :
        Without(state) \in MlFile /\ Without(state).doc = <<>> /\ Without(state).state = state
  BY <1>1 DEF Without, MlFile
<1>3. mlFile \in MlFile /\ mlFile.doc = <<>> /\ mlFile.state # "torn" /\ mlTmp \in MlFile
      /\ mpDoc = <<>> /\ mpStep = "idle"
  BY <1>2 DEF MpInit
<1> QED BY <1>1, <1>3 DEF MpIInv, Docs, Pending, Distinct

LEMMA MpStepKeeps == MpIInv /\ [MpNext]_mpVars => MpIInv'
<1> SUFFICES ASSUME MpIInv, [MpNext]_mpVars PROVE MpIInv'
  OBVIOUS
<1>1. /\ mlFile \in MlFile /\ mlTmp \in MlFile /\ mpDoc \in Seq(Mapping)
      /\ mlFile.doc \in Seq(Mapping) /\ Distinct(mlFile.doc)
  BY DEF MpIInv, Docs, MlFile
<1>2. ASSUME NEW iid \in Iids, NEW id \in AllocatedIds \cup {NoId}, NEW stamp \in Stamps,
             MpSync(iid, id, stamp)
      PROVE  MpIInv'
  <2>1. CASE SetupFails
    BY <1>2, <2>1 DEF MpSync, MpRequest, MpIInv, Docs, Pending
  <2>2. CASE ~SetupFails
    <3> DEFINE e == [iid |-> iid, id |-> id, stamp |-> stamp]
    <3>1. e \in Mapping /\ e.iid = iid /\ e.id = id
      BY DEF Mapping
    <3>2. mpDoc' = AddMapping(mlFile.doc, e) /\ mlFile' = mlFile /\ mlTmp' = mlTmp /\ mpStep' = "write"
      BY <1>2, <2>2 DEF MpSync, Parsed
    <3>3. mpOp'.kind = "sync" /\ mpOp'.iid = iid /\ mpOp'.id = id
      BY <1>2, <2>2 DEF MpSync
    <3> HIDE DEF e
    <3>4. /\ mpDoc' \in Seq(Mapping) /\ Distinct(mpDoc')
          /\ \A i \in Iids : IdOf(mpDoc', i) =
                                IF i = iid THEN Kept(IdOf(mlFile.doc, i), id) ELSE IdOf(mlFile.doc, i)
      BY <1>1, <3>1, <3>2, AddMappingChanges
    <3>5. ChangesOnlyFor(mpOp', mlFile.doc, mpDoc')
      BY <3>3, <3>4 DEF ChangesOnlyFor, Kept, NoId
    <3>6. FindsOnlyFor(mpOp', mlFile.doc, mpDoc')
      BY <1>1, <3>1, <3>2, <3>3, AddMappingFinds
    <3> QED BY <1>1, <3>2, <3>4, <3>5, <3>6 DEF MpIInv, Docs, Pending
  <2> QED BY <2>1, <2>2
<1>3. ASSUME NEW iid \in Iids, MpFree(iid)
      PROVE  MpIInv'
  <2> DEFINE k == First(Positions(mlFile.doc, iid))
  <2>1. CASE SetupFails \/ k = 0
    BY <1>3, <2>1 DEF MpFree, MpRequest, Parsed, MpIInv, Docs, Pending
  <2>2. CASE ~SetupFails /\ k # 0
    <3>1. mpDoc' = RemoveAt(mlFile.doc, k) /\ mlFile' = mlFile /\ mlTmp' = mlTmp /\ mpStep' = "write"
      BY <1>3, <2>2 DEF MpFree, Parsed
    <3>2. mpOp'.kind = "free" /\ mpOp'.iid = iid
      BY <1>3, <2>2 DEF MpFree, Parsed
    <3>3. k \in DOMAIN mlFile.doc /\ mlFile.doc[k].iid = iid
      BY <1>1, <2>2, MappingOrNone
    <3> HIDE DEF k
    <3>4. /\ mpDoc' \in Seq(Mapping) /\ Distinct(mpDoc')
          /\ \A i \in Iids : i # iid => IdOf(mpDoc', i) = IdOf(mlFile.doc, i)
      BY <1>1, <3>1, <3>3, RemoveChanges
    <3>5. ChangesOnlyFor(mpOp', mlFile.doc, mpDoc')
      BY <3>2, <3>4 DEF ChangesOnlyFor
    <3>6. FindsOnlyFor(mpOp', mlFile.doc, mpDoc')
      BY <1>1, <3>1, <3>2, <3>3, RemoveFinds
    <3> QED BY <1>1, <3>1, <3>4, <3>5, <3>6 DEF MpIInv, Docs, Pending
  <2> QED BY <2>1, <2>2
<1>4. CASE MpWrite
  <2>1. [state |-> "whole", doc |-> mpDoc] \in MlFile
    BY <1>1 DEF MlFile
  <2> QED BY <1>4, <2>1 DEF MpWrite, MpIInv, Docs, Pending
<1>5. CASE MpWriteFails
  <2>1. Without("torn") \in MlFile
    BY EmptySeq DEF MlFile, Without
  <2> QED BY <1>5, <2>1 DEF MpWriteFails, MpIInv, Docs, Pending
<1>6. CASE MpMove
  <2>1. Without("none") \in MlFile
    BY EmptySeq DEF MlFile, Without
  <2>2. mlFile' = [state |-> "whole", doc |-> mpDoc] /\ Distinct(mpDoc)
    BY <1>6 DEF MpMove, MpIInv, Pending
  <2>3. mlFile'.state = "whole" /\ mlFile'.doc = mpDoc /\ mlFile' \in MlFile
    BY <1>1, <2>2 DEF MlFile
  <2> QED BY <1>1, <1>6, <2>1, <2>2, <2>3 DEF MpMove, MpIInv, Docs, Pending
<1>7. CASE MpCrash
  <2>1. Without("torn") \in MlFile
    BY EmptySeq DEF MlFile, Without
  <2> QED BY <1>1, <1>7, <2>1 DEF MpCrash, MpIInv, Docs, Pending
<1>8. ASSUME NEW target \in Targets, NEW scope \in Scopes, MpGetList(target, scope)
      PROVE  MpIInv'
  BY <1>8 DEF MpGetList, MpRequest, MpIInv, Docs, Pending
<1>9. CASE UNCHANGED mpVars
  BY <1>9 DEF mpVars, MpIInv, Docs, Pending
<1> QED BY <1>2, <1>3, <1>4, <1>5, <1>6, <1>7, <1>8, <1>9 DEF MpNext

LEMMA MpInvariant == MpSpec => []MpIInv
BY MpInitHolds, MpStepKeeps, PTL DEF MpSpec

----------------------------------------------------------------------------
(* ML.xml has one mapping for a measurement, however often it is stored and  *)
(* whatever save (id_mapper.cc) is interrupted by.                           *)
THEOREM OneMappingForEach == MpSpec => []OneMappingEach
<1>1. MpIInv => OneMappingEach
  <2> SUFFICES ASSUME MpIInv, NEW iid \in Iids
               PROVE  Cardinality(Positions(mlFile.doc, iid)) <= 1
    BY DEF OneMappingEach
  <2>1. mlFile.doc \in Seq(Mapping) /\ Distinct(mlFile.doc)
    BY DEF MpIInv, Docs, MlFile
  <2>2. CASE Positions(mlFile.doc, iid) = {}
    BY <2>2, FS_EmptySet
  <2>3. CASE Positions(mlFile.doc, iid) # {}
    <3> PICK k \in DOMAIN mlFile.doc : mlFile.doc[k].iid = iid
      BY <2>3 DEF Positions
    <3>1. Positions(mlFile.doc, iid) = {k}
      BY <2>1, TheMapping
    <3>2. Cardinality({k}) = 1
      BY FS_Singleton
    <3> QED BY <3>1, <3>2
  <2> QED BY <2>2, <2>3
<1> QED BY <1>1, MpInvariant, PTL

(* save (id_mapper.cc) never leaves a torn ML.xml behind.                    *)
THEOREM MappingsAlwaysSurvive == MpSpec => []MappingsSurvive
<1>1. MpIInv => MappingsSurvive
  BY DEF MpIInv, MappingsSurvive
<1> QED BY <1>1, MpInvariant, PTL

(* Only a request for a measurement takes its id, and dataSync without an id *)
(* (core_function_data_sync.cc) does not.                                    *)
THEOREM IdAlwaysStays == MpSpec => IdStays
<1>1. MpIInv /\ [MpNext]_mpVars =>
        [\A iid \in Iids :
            IdIn(mlFile, iid) # NoId /\ IdIn(mlFile', iid) # IdIn(mlFile, iid) =>
                /\ mpOp.iid = iid
                /\ mpOp.kind = "sync" => mpOp.id # NoId /\ IdIn(mlFile', iid) = mpOp.id]_mpVars
  <2> SUFFICES ASSUME MpIInv, [MpNext]_mpVars, NEW iid \in Iids,
                      IdIn(mlFile, iid) # NoId, IdIn(mlFile', iid) # IdIn(mlFile, iid)
               PROVE  /\ mpOp.iid = iid
                      /\ mpOp.kind = "sync" => mpOp.id # NoId /\ IdIn(mlFile', iid) = mpOp.id
    OBVIOUS
  <2>1. mlFile' # mlFile
    OBVIOUS
  <2>2. MpMove
    BY <2>1 DEF MpNext, mpVars, MpSync, MpFree, MpWrite, MpWriteFails, MpCrash, MpGetList
  <2>3. mlFile'.doc = mpDoc /\ ChangesOnlyFor(mpOp, mlFile.doc, mpDoc)
    BY <2>2 DEF MpMove, MpIInv, Pending
  <2>4. IdIn(mlFile, iid) = IdOf(mlFile.doc, iid) /\ IdIn(mlFile', iid) = IdOf(mpDoc, iid)
    BY <2>3 DEF IdIn, IdOf
  <2> QED BY <2>3, <2>4 DEF ChangesOnlyFor
<1> QED BY <1>1, MpInvariant, PTL DEF MpSpec, IdStays

(* Only a request for the measurement that an id finds, or one that gives    *)
(* the id to a measurement before it in the file, makes get_iid              *)
(* (id_mapper.cc) find another one.                                          *)
THEOREM IdAlwaysFindsItsMeasurement == MpSpec => IdKeepsItsMeasurement
<1> DEFINE StaysFound(id) ==
      LET found == GetIid(mlFile.doc, id)
          takes == Positions(mlFile.doc, mpOp.iid)
      IN found # "none" =>
              \/ GetIid(mlFile'.doc, id) = found
              \/ mpOp.iid = found /\ (mpOp.kind = "free" \/ mpOp.id \notin {NoId, id})
              \/ /\ mpOp.kind = "sync" /\ mpOp.id = id
                 /\ \E k \in takes, j \in Positions(mlFile.doc, found) : k < j
<1>1. MpIInv /\ [MpNext]_mpVars => [\A id \in AllocatedIds : StaysFound(id)]_mpVars
  <2> SUFFICES ASSUME MpIInv, [MpNext]_mpVars, NEW id \in AllocatedIds
               PROVE  StaysFound(id)
    OBVIOUS
  <2>1. CASE mlFile' = mlFile
    BY <2>1
  <2>2. CASE mlFile' # mlFile
    <3>1. MpMove
      BY <2>2 DEF MpNext, mpVars, MpSync, MpFree, MpWrite, MpWriteFails, MpCrash, MpGetList
    <3>2. mlFile'.doc = mpDoc /\ FindsOnlyFor(mpOp, mlFile.doc, mpDoc)
      BY <3>1 DEF MpMove, MpIInv, Pending
    <3> QED BY <3>2 DEF FindsOnlyFor
  <2> QED BY <2>1, <2>2
<1> QED BY <1>1, MpInvariant, PTL DEF MpSpec, IdKeepsItsMeasurement

(* ML.xml (id_mapper.cc) is whole and has one mapping for each measurement.  *)
THEOREM MappingsAlwaysHold == MpSpec => []MappingsHold
BY OneMappingForEach, MappingsAlwaysSurvive, PTL DEF MappingsHold

----------------------------------------------------------------------------
(* The pieces of a stream and the requests in them.                          *)

Filled == 1..SendLimit       \* the bytes that are no terminator

\* A piece that waits for its terminator.
Open(piece) == piece \in Seq(Filled) /\ piece # <<>>
OpenPieces(list) == \A k \in 1..Len(list) : Open(list[k])

\* The segments that end with a terminator, up to the one at a.
SegmentsTo(T, a) ==
    {s \in (1..a) \X (1..a) :
        /\ s[1] <= s[2] /\ \A k \in s[1]..s[2] : T[k] # CnZero
        /\ s[1] > 1 => T[s[1] - 1] = CnZero
        /\ s[2] < a /\ T[s[2] + 1] = CnZero}

\* The pieces are what stands behind the terminator at a, the requests what stands
\* before it.
Cut(list, requests, T, a) ==
    /\ a \in 0..Len(T) /\ (a > 0 => T[a] = CnZero)
    /\ FlattenSeq(list) = SubSeq(T, a + 1, Len(T))
    /\ Len(requests) <= a /\ SplitBy(requests, T, SegmentsTo(T, a))

\* The loop of received_bytes: its states, its end, one pass and what is left to do.
Passes == [list : Seq(Seq(CnByte)), requests : Seq(Seq(CnByte))]
Done == {p \in Passes : CheckZero(p.list) = 0}
PassOf(p) == [list |-> Remain(Last(p.list), CheckZero(p.list)),
              requests |-> Emitted(p.requests, Popped(p.list, CheckZero(p.list)))]
BytesLeft(p) == IF p.list = <<>> THEN 0 ELSE Len(Last(p.list))

\* In the loop only the last piece may hold terminators, and no request is lost.
InLoop(p, T, m) ==
    /\ m <= Len(p.requests)
    /\ p.list # <<>> => Last(p.list) # <<>> /\ OpenPieces(Front(p.list))
    /\ \E a \in 0..Len(T) : Cut(p.list, p.requests, T, a)

\* A byte of a request is any byte but the terminator.
LEMMA Bytes == CnZero \in CnByte /\ Filled \subseteq CnByte /\ Filled = CnByte \ {CnZero} /\ CnByte \subseteq Nat
BY ConnectionAssumption DEF CnZero, CnByte, Filled

\* Behind the first of two sequences stands the second.
LEMMA SecondOf ==
    ASSUME NEW S, NEW s \in Seq(S), NEW t \in Seq(S), NEW i \in 1..Len(t)
    PROVE  (s \o t)[Len(s) + i] = t[i]
<1>1. Len(s) \in Nat /\ Len(t) \in Nat
  BY LenProperties
<1>2. Len(s) + i \in 1..(Len(s) + Len(t)) /\ ~(Len(s) + i <= Len(s)) /\ Len(s) + i - Len(s) = i
  BY <1>1
<1> DEFINE j == Len(s) + i
<1>3. (s \o t)[j] = IF j <= Len(s) THEN s[j] ELSE t[j - Len(s)]
  <2> HIDE DEF j
  <2>1. j \in 1..(Len(s) + Len(t))
    BY <1>2 DEF j
  <2> QED BY <2>1, ConcatProperties
<1> QED BY <1>2, <1>3

\* What stands behind the first a elements.
LEMMA BehindIs ==
    ASSUME NEW S, NEW s \in Seq(S), NEW a \in 0..Len(s)
    PROVE  LET t == SubSeq(s, a + 1, Len(s)) IN
           t \in Seq(S) /\ Len(t) = Len(s) - a /\ \A i \in 1..(Len(s) - a) : t[i] = s[a + i]
<1> DEFINE m == Len(s)
           t == SubSeq(s, a + 1, m)
<1>1. m \in Nat /\ a \in Nat /\ a <= m /\ a + 1 \in Int /\ m \in Int
  BY LenProperties
<1>2. \A i \in (a + 1)..m : s[i] \in S
  BY <1>1, ElementOfSeq
<1>3. /\ t \in Seq(S) /\ Len(t) = IF a + 1 <= m THEN m - (a + 1) + 1 ELSE 0
      /\ \A i \in 1..(m - (a + 1) + 1) : t[i] = s[(a + 1) + i - 1]
  <2> HIDE DEF m
  <2> QED BY <1>1, <1>2, SubSeqProperties
<1> HIDE DEF t, m
<1>6. Len(t) = m - a
  BY <1>1, <1>3
<1>4. m - (a + 1) + 1 = m - a /\ \A i \in 1..(m - a) : (a + 1) + i - 1 = a + i
  BY <1>1
<1>5. \A i \in 1..(m - a) : t[i] = s[a + i]
  BY <1>3, <1>4
<1> QED BY <1>3, <1>5, <1>6 DEF t, m

\* The concatenation of one sequence is that sequence.
LEMMA FlattenOne ==
    ASSUME NEW S, NEW x \in Seq(S)
    PROVE  FlattenSeq(<<x>>) = x
<1>1. <<>> \in Seq(Seq(S)) /\ Append(<<>>, x) = <<x>>
  OBVIOUS
<1>2. FlattenSeq(<<>>) = <<>>
  BY DEF FlattenSeq
<1>3. FlattenSeq(Append(<<>>, x)) = FlattenSeq(<<>>) \o x
  BY <1>1, FlattenAppend
<1>4. <<>> \o x = x
  BY ConcatEmptySeq
<1> QED BY <1>1, <1>2, <1>3, <1>4

\* A sequence is its front and its last element.
LEMMA FrontAndLast ==
    ASSUME NEW S, NEW s \in Seq(S), s # <<>>
    PROVE  /\ Front(s) \in Seq(S) /\ Last(s) \in S /\ s = Append(Front(s), Last(s))
           /\ Len(Front(s)) = Len(s) - 1 /\ \A k \in 1..(Len(s) - 1) : Front(s)[k] = s[k]
<1> DEFINE n == Len(s) - 1
<1>1. n \in Nat /\ n + 1 = Len(s) /\ \A i \in 1..Len(s) : s[i] \in S
  BY EmptySeq, ElementOfSeq
<1>2. Front(s) \in Seq(S) /\ Len(Front(s)) = n /\ \A k \in 1..n : Front(s)[k] = s[k]
  BY <1>1, SubSeqProperties DEF Front
<1>3. Last(s) \in S /\ Last(s) = s[n + 1]
  BY <1>1 DEF Last
<1> DEFINE t == Append(Front(s), Last(s))
<1>4. t \in Seq(S) /\ Len(t) = n + 1 /\ (\A i \in 1..n : t[i] = s[i]) /\ t[n + 1] = s[n + 1]
  BY <1>2, <1>3, AppendProperties
<1>5. \A i \in 1..Len(s) : s[i] = t[i]
  <2> HIDE DEF t
  <2> QED BY <1>1, <1>4
<1>6. s = t
  <2> HIDE DEF t
  <2> QED BY <1>1, <1>4, <1>5, SeqEqual
<1> QED BY <1>2, <1>3, <1>6

\* bytes_list_check_zero finds the first terminator of the last piece.
LEMMA CheckZeroIs ==
    ASSUME NEW list \in Seq(Seq(CnByte)), list # <<>>
    PROVE  LET k == CheckZero(list)
               last == Last(list)
           IN IF k = 0 THEN \A i \in 1..Len(last) : last[i] # CnZero
              ELSE k \in 1..Len(last) /\ last[k] = CnZero /\ \A i \in 1..(k - 1) : last[i] # CnZero
<1> DEFINE last == Last(list)
           Z == {i \in 1..Len(last) : last[i] = CnZero}
           k == CheckZero(list)
<1>1. Len(last) \in Nat
  BY FrontAndLast, LenProperties
<1>2. CASE Z = {}
  <2>1. k = 0
    BY <1>2 DEF CheckZero, SelectInSeq
  <2> QED BY <1>2, <2>1
<1>3. CASE Z # {}
  <2>1. k = Min(Z)
    BY <1>3 DEF CheckZero, SelectInSeq
  <2>2. \E x \in Z : \A y \in Z : x <= y
    <3>1. Z \in SUBSET Nat
      BY <1>1
    <3> HIDE DEF Z
    <3> QED BY <1>3, <3>1, LeastNumber
  <2>3. k \in Z /\ \A y \in Z : k <= y
    <3> HIDE DEF Z, k
    <3> QED BY <2>1, <2>2 DEF Min
  <2>4. k \in 1..Len(last) /\ last[k] = CnZero /\ k # 0
    BY <1>1, <2>3
  <2>5. \A i \in 1..(k - 1) : last[i] # CnZero
    <3> SUFFICES ASSUME NEW i \in 1..(k - 1), last[i] = CnZero PROVE FALSE
      OBVIOUS
    <3>1. i \in 1..Len(last)
      BY <1>1, <2>4
    <3>2. i \in Z
      BY <3>1
    <3> HIDE DEF Z, k
    <3> QED BY <1>1, <2>3, <2>4, <3>2
  <2> HIDE DEF k, last
  <2> QED BY <2>4, <2>5 DEF k, last
<1> QED BY <1>2, <1>3

\* A segment that begins behind all the others is the next request.
LEMMA NextRequest ==
    ASSUME NEW S, NEW requests \in Seq(S), NEW T, NEW i \in Nat, NEW j \in Nat,
           NEW segments \in SUBSET (Nat \X Nat), \A s \in segments : s[1] < i,
           SplitBy(requests, T, segments), SubSeq(T, i, j) \in S
    PROVE  SplitBy(Append(requests, SubSeq(T, i, j)), T, segments \cup {<<i, j>>})
<1> DEFINE n == Len(requests)
           new == Append(requests, SubSeq(T, i, j))
<1> PICK at \in [DOMAIN requests -> segments] :
        /\ \A k, l \in DOMAIN requests : k < l => at[k][1] < at[l][1]
        /\ \A segment \in segments : \E k \in DOMAIN requests : at[k] = segment
        /\ \A k \in DOMAIN requests : requests[k] = SubSeq(T, at[k][1], at[k][2])
  BY DEF SplitBy
<1> DEFINE to == [k \in 1..(n + 1) |-> IF k = n + 1 THEN <<i, j>> ELSE at[k]]
<1>1. n \in Nat /\ DOMAIN requests = 1..n
  BY LenProperties
<1>2. /\ new \in Seq(S) /\ Len(new) = n + 1 /\ DOMAIN new = 1..(n + 1)
      /\ new[n + 1] = SubSeq(T, i, j) /\ \A k \in 1..n : new[k] = requests[k]
  BY <1>1, AppendProperties, LenProperties
<1>3. /\ to \in [1..(n + 1) -> segments \cup {<<i, j>>}]
      /\ to[n + 1] = <<i, j>> /\ \A k \in 1..n : to[k] = at[k] /\ at[k] \in segments
  <2>1. \A k \in 1..(n + 1) : k # n + 1 => k \in 1..n
    BY <1>1
  <2>2. \A k \in 1..n : k \in 1..(n + 1) /\ k # n + 1
    BY <1>1
  <2>3. n + 1 \in 1..(n + 1)
    BY <1>1
  <2> QED BY <1>1, <2>1, <2>2, <2>3
<1> HIDE DEF new, to, n
<1>4. ASSUME NEW k \in 1..(n + 1), NEW l \in 1..(n + 1), k < l PROVE to[k][1] < to[l][1]
  <2>1. k \in 1..n
    BY <1>1, <1>4
  <2>2. CASE l = n + 1
    BY <1>3, <2>1, <2>2
  <2>3. CASE l # n + 1
    <3>1. l \in 1..n
      BY <1>1, <2>3
    <3> QED BY <1>1, <1>3, <1>4, <2>1, <3>1
  <2> QED BY <2>2, <2>3
<1>5. ASSUME NEW segment \in segments \cup {<<i, j>>}
      PROVE  \E k \in 1..(n + 1) : to[k] = segment
  <2>1. CASE segment = <<i, j>>
    <3>1. n + 1 \in 1..(n + 1)
      BY <1>1
    <3> QED BY <1>3, <2>1, <3>1
  <2>2. CASE segment \in segments
    <3> PICK k \in 1..n : at[k] = segment
      BY <1>1, <2>2
    <3>1. k \in 1..(n + 1)
      BY <1>1
    <3> QED BY <1>3, <3>1
  <2> QED BY <2>1, <2>2
<1>6. ASSUME NEW k \in 1..(n + 1) PROVE new[k] = SubSeq(T, to[k][1], to[k][2])
  <2>1. CASE k = n + 1
    BY <1>2, <1>3, <2>1
  <2>2. CASE k # n + 1
    <3>1. k \in 1..n
      BY <1>1, <2>2
    <3> QED BY <1>1, <1>2, <1>3, <3>1
  <2> QED BY <2>1, <2>2
<1>7. SplitBy(new, T, segments \cup {<<i, j>>})
  <2>1. DOMAIN new = 1..(n + 1)
    BY <1>2
  <2>2. /\ to \in [DOMAIN new -> segments \cup {<<i, j>>}]
        /\ \A k, l \in DOMAIN new : k < l => to[k][1] < to[l][1]
        /\ \A segment \in segments \cup {<<i, j>>} : \E k \in DOMAIN new : to[k] = segment
        /\ \A k \in DOMAIN new : new[k] = SubSeq(T, to[k][1], to[k][2])
    BY <2>1, <1>3, <1>4, <1>5, <1>6
  <2> QED BY <2>2 DEF SplitBy
<1> QED BY <1>7 DEF new

\* The next terminator at b ends a request, unless nothing stands before it.
LEMMA NextTerminator ==
    ASSUME NEW T \in Seq(CnByte), NEW a \in 0..Len(T), a > 0 => T[a] = CnZero,
           NEW b \in (a + 1)..Len(T), T[b] = CnZero, \A i \in (a + 1)..(b - 1) : T[i] # CnZero
    PROVE  SegmentsTo(T, b) = IF b = a + 1 THEN SegmentsTo(T, a) ELSE SegmentsTo(T, a) \cup {<<a + 1, b - 1>>}
<1>0. Len(T) \in Nat /\ a \in Int /\ b \in Int /\ 0 <= a /\ a < b
  BY LenProperties
<1>1. ASSUME NEW s \in SegmentsTo(T, a) PROVE s \in SegmentsTo(T, b)
  BY <1>0, <1>1 DEF SegmentsTo
<1>2. ASSUME b # a + 1 PROVE <<a + 1, b - 1>> \in SegmentsTo(T, b)
  BY <1>0, <1>2 DEF SegmentsTo
<1>3. ASSUME NEW i \in 1..b, NEW j \in 1..b, <<i, j>> \in SegmentsTo(T, b), <<i, j>> \notin SegmentsTo(T, a)
      PROVE  b # a + 1 /\ i = a + 1 /\ j = b - 1
  <2>1. /\ i <= j /\ \A k \in i..j : T[k] # CnZero
        /\ i > 1 => T[i - 1] = CnZero
        /\ j < b /\ T[j + 1] = CnZero
    BY <1>3 DEF SegmentsTo
  <2>2. ~(j < a)
    <3> SUFFICES ASSUME j < a PROVE FALSE
      OBVIOUS
    <3>1. i \in 1..a /\ j \in 1..a
      BY <1>0, <2>1
    <3> QED BY <1>3, <2>1, <3>1 DEF SegmentsTo
  <2>3. j # a
    <3>1. j \in i..j
      BY <2>1
    <3> QED BY <1>0, <2>1, <3>1
  <2>4. j = b - 1
    <3>1. j + 1 \notin (a + 1)..(b - 1)
      BY <2>1
    <3> QED BY <1>0, <2>1, <2>2, <2>3, <3>1
  <2>5. ~(i <= a)
    <3> SUFFICES ASSUME i <= a PROVE FALSE
      OBVIOUS
    <3>1. a \in i..j /\ a > 0
      BY <1>0, <2>2
    <3> QED BY <2>1, <3>1
  <2>6. ~(i > a + 1)
    <3> SUFFICES ASSUME i > a + 1 PROVE FALSE
      OBVIOUS
    <3>1. i - 1 \in (a + 1)..(b - 1) /\ i > 1
      BY <1>0, <2>1
    <3> QED BY <2>1, <3>1
  <2> QED BY <1>0, <2>1, <2>4, <2>5, <2>6
<1>4. \A s \in SegmentsTo(T, b) : \E i \in 1..b, j \in 1..b : s = <<i, j>>
  BY DEF SegmentsTo
<1> DEFINE A == SegmentsTo(T, a)
           C == SegmentsTo(T, b)
<1>5. ASSUME NEW s \in C PROVE s \in A \/ (b # a + 1 /\ s = <<a + 1, b - 1>>)
  <2> PICK i \in 1..b, j \in 1..b : s = <<i, j>>
    BY <1>4
  <2> QED BY <1>3, <1>5
<1>6. (\A s \in A : s \in C) /\ (b # a + 1 => <<a + 1, b - 1>> \in C)
  BY <1>1, <1>2
<1> HIDE DEF A, C
<1>7. C = IF b = a + 1 THEN A ELSE A \cup {<<a + 1, b - 1>>}
  BY <1>5, <1>6
<1> QED BY <1>7 DEF A, C

\* Pieces without terminators are a stream without one.
LEMMA FlattenOpen ==
    ASSUME NEW list \in Seq(Seq(CnByte)), OpenPieces(list)
    PROVE  list \in Seq(Seq(Filled)) /\ FlattenSeq(list) \in Seq(Filled)
<1>1. Len(list) \in Nat /\ list \in [1..Len(list) -> Seq(CnByte)]
  BY LenProperties
<1>2. \A k \in 1..Len(list) : list[k] \in Seq(Filled)
  BY DEF OpenPieces, Open
<1>3. list \in [1..Len(list) -> Seq(Filled)]
  BY <1>1, <1>2
<1>4. list \in Seq(Seq(Filled))
  <2>1. [1..Len(list) -> Seq(Filled)] \in {[1..n -> Seq(Filled)] : n \in Nat}
    BY <1>1
  <2>2. Seq(Seq(Filled)) = UNION {[1..n -> Seq(Filled)] : n \in Nat}
    BY SeqDef
  <2> QED BY <1>3, <2>1, <2>2, Zenon
<1> QED BY <1>4, EmptySeq, FlattenAppend

\* What is emitted is what stands between the terminators, or nothing.
LEMMA EmittedIs ==
    ASSUME NEW T \in Seq(CnByte), NEW requests \in Seq(Seq(CnByte)), NEW a \in 0..Len(T),
           a > 0 => T[a] = CnZero, Len(requests) <= a, SplitBy(requests, T, SegmentsTo(T, a)),
           NEW b \in (a + 1)..Len(T), T[b] = CnZero, \A i \in (a + 1)..(b - 1) : T[i] # CnZero
    PROVE  LET new == Emitted(requests, SubSeq(T, a + 1, b - 1))
           IN /\ new \in Seq(Seq(CnByte)) /\ Len(new) <= b
              /\ SplitBy(new, T, SegmentsTo(T, b))
<1> DEFINE bytes == SubSeq(T, a + 1, b - 1)
<1>1. Len(T) \in Nat /\ a \in Int /\ b \in Int /\ 0 <= a /\ a < b /\ Len(requests) \in Nat
  BY LenProperties
<1>2. /\ bytes \in Seq(CnByte)
      /\ Len(bytes) = IF a + 1 <= b - 1 THEN (b - 1) - (a + 1) + 1 ELSE 0
  <2>1. \A i \in (a + 1)..(b - 1) : T[i] \in CnByte
    BY <1>1, ElementOfSeq
  <2> QED BY <1>1, <2>1, SubSeqProperties
<1>3. CASE b = a + 1
  <2>1. bytes = <<>>
    BY <1>1, <1>3, SubSeqEmpty
  <2>2. SegmentsTo(T, b) = SegmentsTo(T, a)
    BY <1>3, NextTerminator
  <2>3. Emitted(requests, bytes) = requests
    BY <2>1 DEF Emitted
  <2> HIDE DEF bytes
  <2> QED BY <1>1, <2>2, <2>3 DEF bytes
<1>4. CASE b # a + 1
  <2>1. bytes # <<>>
    <3>1. Len(bytes) # 0
      BY <1>1, <1>2, <1>4
    <3> QED BY <3>1, EmptySeq
  <2>2. SegmentsTo(T, b) = SegmentsTo(T, a) \cup {<<a + 1, b - 1>>}
    BY <1>4, NextTerminator
  <2>3. Emitted(requests, bytes) = Append(requests, bytes)
    BY <2>1 DEF Emitted
  <2>4. SegmentsTo(T, a) \in SUBSET (Nat \X Nat) /\ \A s \in SegmentsTo(T, a) : s[1] < a + 1
    BY <1>1 DEF SegmentsTo
  <2>5. SplitBy(Append(requests, bytes), T, SegmentsTo(T, a) \cup {<<a + 1, b - 1>>})
    <3>1. a + 1 \in Nat /\ b - 1 \in Nat
      BY <1>1
    <3> QED BY <1>2, <2>4, <3>1, NextRequest
  <2>6. Append(requests, bytes) \in Seq(Seq(CnByte)) /\ Len(Append(requests, bytes)) = Len(requests) + 1
    BY <1>2, AppendProperties
  <2>7. Len(requests) + 1 <= b
    BY <1>1
  <2> HIDE DEF bytes
  <2> QED BY <2>2, <2>3, <2>5, <2>6, <2>7 DEF bytes
<1> QED BY <1>3, <1>4

\* What remains in the list stands behind the terminator at b, in a piece shorter
\* than the last one was.
Remains(new, T, b, n) ==
    /\ new \in Seq(Seq(CnByte)) /\ FlattenSeq(new) = SubSeq(T, b + 1, Len(T)) /\ n > 0
    /\ new # <<>> => Last(new) # <<>> /\ OpenPieces(Front(new)) /\ Len(Last(new)) < n

\* Where the next terminator is in the stream of the pieces.
LEMMA NextCut ==
    ASSUME NEW T \in Seq(CnByte), NEW list \in Seq(Seq(CnByte)), list # <<>>, OpenPieces(Front(list)),
           NEW a \in 0..Len(T), FlattenSeq(list) = SubSeq(T, a + 1, Len(T)), CheckZero(list) # 0
    PROVE  \E b \in (a + 1)..Len(T) :
              /\ T[b] = CnZero /\ \A i \in (a + 1)..(b - 1) : T[i] # CnZero
              /\ Popped(list, CheckZero(list)) = SubSeq(T, a + 1, b - 1)
              /\ Remains(Remain(Last(list), CheckZero(list)), T, b, Len(Last(list)))
<1> DEFINE fl == FlattenSeq(Front(list))
           last == Last(list)
           k == CheckZero(list)
           q == Len(fl)
           n == Len(last)
           m == Len(T)
           b == a + q + k
<1>1. Front(list) \in Seq(Seq(CnByte)) /\ last \in Seq(CnByte) /\ list = Append(Front(list), last)
  BY FrontAndLast
<1>2. fl \in Seq(Filled) /\ fl \in Seq(CnByte) /\ FlattenSeq(list) = fl \o last
  BY <1>1, FlattenOpen, FlattenAppend
<1>3. k \in 1..n /\ last[k] = CnZero /\ \A i \in 1..(k - 1) : last[i] # CnZero
  BY CheckZeroIs
<1>4. q \in Nat /\ n \in Nat /\ m \in Nat /\ a \in Nat /\ a <= m /\ k \in Nat /\ 1 <= k /\ k <= n
  BY <1>1, <1>2, <1>3, LenProperties
<1>5. /\ Len(SubSeq(T, a + 1, m)) = m - a
      /\ \A i \in 1..(m - a) : SubSeq(T, a + 1, m)[i] = T[a + i]
  BY BehindIs
<1>6. /\ Len(fl \o last) = q + n
      /\ \A i \in 1..(q + n) : (fl \o last)[i] = IF i <= q THEN fl[i] ELSE last[i - q]
  BY <1>1, <1>2, ConcatProperties
<1> HIDE DEF fl, last, k, q, n, m
<1>7. m - a = q + n /\ b \in (a + 1)..m /\ b - 1 \in Int
  <2>1. fl \o last = SubSeq(T, a + 1, m)
    BY <1>2 DEF m
  <2>2. m - a = q + n
    BY <1>5, <1>6, <2>1
  <2> QED BY <1>4, <2>2
<1>8. /\ \A i \in 1..q : T[a + i] = fl[i]
      /\ \A i \in 1..n : T[a + q + i] = last[i]
  <2>1. \A i \in 1..(q + n) : T[a + i] = IF i <= q THEN fl[i] ELSE last[i - q]
    BY <1>2, <1>5, <1>6, <1>7 DEF m
  <2>2. \A i \in 1..q : i \in 1..(q + n) /\ i <= q
    BY <1>4
  <2>3. \A i \in 1..n : q + i \in 1..(q + n) /\ ~(q + i <= q) /\ (q + i) - q = i /\ a + (q + i) = a + q + i
    BY <1>4
  <2> QED BY <2>1, <2>2, <2>3
<1>9. T[b] = CnZero
  BY <1>3, <1>8
<1>10. \A i \in 1..q : fl[i] # CnZero
  BY <1>2, Bytes, ElementOfSeq DEF q
<1>11. ASSUME NEW i \in (a + 1)..(b - 1) PROVE T[i] # CnZero
  <2>1. CASE i <= a + q
    <3>1. i - a \in 1..q /\ a + (i - a) = i
      BY <1>4, <2>1
    <3> QED BY <1>8, <1>10, <3>1
  <2>2. CASE i > a + q
    <3>1. i - (a + q) \in 1..n /\ i - (a + q) \in 1..(k - 1) /\ a + q + (i - (a + q)) = i
      BY <1>4, <2>2
    <3> QED BY <1>3, <1>8, <3>1
  <2> QED BY <1>4, <2>1, <2>2
<1>12. fl \o SubSeq(last, 1, k - 1) = SubSeq(T, a + 1, b - 1)
  <2> DEFINE s == SubSeq(last, 1, k - 1)
             t == SubSeq(T, a + 1, b - 1)
  <2>1. s \in Seq(CnByte) /\ Len(s) = k - 1 /\ \A i \in 1..(k - 1) : s[i] = last[i]
    <3>1. \A i \in 1..(k - 1) : last[i] \in CnByte
      BY <1>1, <1>4, ElementOfSeq DEF n
    <3> QED BY <1>4, <3>1, SubSeqProperties
  <2>2. t \in Seq(CnByte) /\ Len(t) = q + (k - 1) /\ \A i \in 1..(q + (k - 1)) : t[i] = T[a + i]
    <3>1. \A i \in (a + 1)..(b - 1) : T[i] \in CnByte
      BY <1>4, <1>7, ElementOfSeq DEF m
    <3>2. /\ t \in Seq(CnByte) /\ Len(t) = IF a + 1 <= b - 1 THEN (b - 1) - (a + 1) + 1 ELSE 0
          /\ \A i \in 1..((b - 1) - (a + 1) + 1) : t[i] = T[(a + 1) + i - 1]
      BY <1>4, <1>7, <3>1, SubSeqProperties
    <3>3. (b - 1) - (a + 1) + 1 = q + (k - 1) /\ (~(a + 1 <= b - 1) => q + (k - 1) = 0)
          /\ \A i \in 1..(q + (k - 1)) : (a + 1) + i - 1 = a + i
      BY <1>4
    <3> HIDE DEF t, b
    <3> QED BY <3>2, <3>3
  <2> HIDE DEF s, t
  <2>3. /\ fl \o s \in Seq(CnByte) /\ Len(fl \o s) = q + (k - 1)
        /\ \A i \in 1..(q + (k - 1)) : (fl \o s)[i] = IF i <= q THEN fl[i] ELSE s[i - q]
    <3>1. /\ fl \o s \in Seq(CnByte) /\ Len(fl \o s) = q + Len(s)
          /\ \A i \in 1..(q + Len(s)) : (fl \o s)[i] = IF i <= q THEN fl[i] ELSE s[i - q]
      BY <1>2, <2>1, ConcatProperties DEF q
    <3> QED BY <2>1, <3>1
  <2>4. ASSUME NEW i \in 1..(q + (k - 1)) PROVE (fl \o s)[i] = t[i]
    <3>1. CASE i <= q
      <4>1. i \in 1..q
        BY <3>1
      <4> QED BY <1>8, <2>2, <2>3, <3>1, <4>1
    <3>2. CASE ~(i <= q)
      <4>1. i - q \in 1..(k - 1) /\ i - q \in 1..n /\ a + q + (i - q) = a + i
        BY <1>4, <3>2
      <4>2. (fl \o s)[i] = s[i - q]
        BY <2>3, <3>2
      <4>3. s[i - q] = last[i - q]
        BY <2>1, <4>1
      <4>4. last[i - q] = T[a + i]
        BY <1>8, <4>1
      <4>5. t[i] = T[a + i]
        BY <2>2
      <4> QED BY <4>2, <4>3, <4>4, <4>5
    <3> QED BY <3>1, <3>2
  <2>5. fl \o s = t
    BY <2>2, <2>3, <2>4, SeqEqual
  <2> QED BY <2>5 DEF s, t
<1> DEFINE new == Remain(last, k)
<1>15. Popped(list, k) = SubSeq(T, a + 1, b - 1)
  BY <1>12 DEF Popped, fl, last
<1>13. ASSUME k = n PROVE Remains(new, T, b, n)
  <2>1. new = <<>>
    BY <1>13 DEF Remain, n
  <2>2. b = m
    BY <1>4, <1>7, <1>13
  <2>3. SubSeq(T, b + 1, m) = <<>>
    BY <1>4, <2>2, SubSeqEmpty
  <2>4. FlattenSeq(new) = <<>> /\ new \in Seq(Seq(CnByte))
    BY <2>1 DEF FlattenSeq
  <2>5. n > 0
    BY <1>4
  <2> HIDE DEF new, b
  <2> QED BY <2>1, <2>3, <2>4, <2>5 DEF Remains, m
<1>14. ASSUME k # n PROVE Remains(new, T, b, n)
  <2> DEFINE s == SubSeq(last, k + 1, n)
             t == SubSeq(T, b + 1, m)
  <2>1. new = <<s>>
    BY <1>14 DEF Remain, n
  <2>2. s \in Seq(CnByte) /\ Len(s) = n - k /\ \A i \in 1..(n - k) : s[i] = last[k + i]
    <3>1. k \in 0..n
      BY <1>4
    <3> HIDE DEF k
    <3> QED BY <1>1, <3>1, BehindIs DEF n
  <2>3. t \in Seq(CnByte) /\ Len(t) = n - k /\ \A i \in 1..(n - k) : t[i] = T[b + i]
    <3>1. b \in 0..m /\ m - b = n - k
      BY <1>4, <1>7
    <3> HIDE DEF b, n, k
    <3>2. t \in Seq(CnByte) /\ Len(t) = m - b /\ \A i \in 1..(m - b) : t[i] = T[b + i]
      BY <3>1, BehindIs DEF m
    <3> QED BY <3>1, <3>2
  <2>4. s = t
    <3>1. \A i \in 1..(n - k) : k + i \in 1..n /\ a + q + (k + i) = b + i
      BY <1>4
    <3> HIDE DEF s, t, b
    <3>2. ASSUME NEW i \in 1..(n - k) PROVE s[i] = t[i]
      <4>1. s[i] = last[k + i] /\ t[i] = T[b + i]
        BY <2>2, <2>3
      <4>2. T[a + q + (k + i)] = last[k + i]
        BY <1>8, <3>1
      <4> QED BY <3>1, <4>1, <4>2
    <3> QED BY <2>2, <2>3, <3>2, SeqEqual
  <2>5. s # <<>>
    <3>1. Len(s) # 0
      BY <1>4, <1>14, <2>2
    <3> QED BY <3>1, EmptySeq
  <2> HIDE DEF s, t
  <2>6. new \in Seq(Seq(CnByte)) /\ FlattenSeq(new) = s /\ Last(new) = s /\ Front(new) = <<>>
    BY <2>1, <2>2, FlattenOne, SubSeqEmpty DEF Last, Front
  <2>7. OpenPieces(Front(new))
    BY <2>6 DEF OpenPieces
  <2>8. Len(s) < n
    BY <1>4, <2>2
  <2> HIDE DEF new, b
  <2>9. n > 0
    BY <1>4
  <2> QED BY <2>4, <2>5, <2>6, <2>7, <2>8, <2>9 DEF Remains, m, t
<1>16. Remains(new, T, b, n)
  BY <1>13, <1>14
<1> HIDE DEF new, b
<1>17. T[b] = CnZero /\ \A i \in (a + 1)..(b - 1) : T[i] # CnZero
  BY <1>9, <1>11
<1>18. b \in (a + 1)..Len(T)
  BY <1>7 DEF m
<1>19. Popped(list, CheckZero(list)) = SubSeq(T, a + 1, b - 1)
  BY <1>15 DEF k
<1>20. Remains(Remain(Last(list), CheckZero(list)), T, b, Len(Last(list)))
  BY <1>16 DEF new, last, k, n
<1> QED BY <1>17, <1>18, <1>19, <1>20

\* A pass takes as many bytes from the last piece as come before its terminator.
LEMMA PassType ==
    ASSUME NEW p \in Passes \ Done
    PROVE  PassOf(p) \in Passes /\ BytesLeft(p) \in Nat /\ BytesLeft(PassOf(p)) \in Nat /\ BytesLeft(PassOf(p)) < BytesLeft(p)
<1> DEFINE last == Last(p.list)
           k == CheckZero(p.list)
           n == Len(last)
           bytes == Popped(p.list, k)
           new == Remain(last, k)
<1>1. p.list \in Seq(Seq(CnByte)) /\ p.requests \in Seq(Seq(CnByte)) /\ k # 0
  BY DEF Passes, Done
<1>2. p.list # <<>>
  BY <1>1 DEF CheckZero
<1>3. Front(p.list) \in Seq(Seq(CnByte)) /\ last \in Seq(CnByte)
  BY <1>1, <1>2, FrontAndLast
<1>4. k \in 1..n
  BY <1>1, <1>2, CheckZeroIs
<1>5. n \in Nat /\ k \in Nat /\ 1 <= k /\ k <= n
  BY <1>3, <1>4, LenProperties
<1>6. bytes \in Seq(CnByte)
  <2>1. FlattenSeq(Front(p.list)) \in Seq(CnByte)
    BY <1>3, EmptySeq, FlattenAppend
  <2>2. SubSeq(last, 1, k - 1) \in Seq(CnByte)
    <3>1. \A i \in 1..(k - 1) : last[i] \in CnByte
      BY <1>3, <1>5, ElementOfSeq
    <3> HIDE DEF last, k
    <3> QED BY <1>5, <3>1, SubSeqProperties
  <2> HIDE DEF last, k
  <2>3. FlattenSeq(Front(p.list)) \o SubSeq(last, 1, k - 1) \in Seq(CnByte)
    BY <2>1, <2>2, ConcatProperties
  <2> QED BY <2>3 DEF Popped, last
<1>7. Emitted(p.requests, bytes) \in Seq(Seq(CnByte))
  <2> HIDE DEF bytes
  <2> QED BY <1>1, <1>6, AppendProperties DEF Emitted
<1>8. new \in Seq(Seq(CnByte)) /\ (IF new = <<>> THEN TRUE ELSE Len(Last(new)) = n - k)
  <2>1. CASE k = n
    BY <2>1 DEF Remain
  <2>2. CASE k # n
    <3> DEFINE s == SubSeq(last, k + 1, n)
    <3>1. \A i \in (k + 1)..n : last[i] \in CnByte
      BY <1>3, <1>5, ElementOfSeq
    <3>2. s \in Seq(CnByte) /\ Len(s) = n - k
      <4> HIDE DEF last, k, n
      <4>1. k + 1 <= n /\ n - (k + 1) + 1 = n - k
        BY <1>5, <2>2
      <4> QED BY <1>5, <3>1, <4>1, SubSeqProperties
    <3>3. new = <<s>>
      BY <2>2 DEF Remain
    <3> HIDE DEF s, new
    <3> QED BY <3>2, <3>3 DEF Last
  <2> QED BY <2>1, <2>2
<1>9. PassOf(p) = [list |-> new, requests |-> Emitted(p.requests, bytes)]
  BY DEF PassOf
<1>10. BytesLeft(p) = n
  BY <1>2 DEF BytesLeft
<1>11. BytesLeft(PassOf(p)) = IF new = <<>> THEN 0 ELSE n - k
  <2> HIDE DEF new, bytes, n, k
  <2> QED BY <1>8, <1>9 DEF BytesLeft
<1> HIDE DEF new, bytes, n, k, last
<1> QED BY <1>5, <1>7, <1>8, <1>9, <1>10, <1>11 DEF Passes

\* The size of what is left to do is a number.
LEMMA SizeType ==
    ASSUME NEW p \in Passes
    PROVE  BytesLeft(p) \in Nat
<1>1. p.list \in Seq(Seq(CnByte))
  BY DEF Passes
<1>2. p.list # <<>> => Last(p.list) \in Seq(CnByte)
  BY <1>1, FrontAndLast
<1> QED BY <1>2, LenProperties DEF BytesLeft

\* One pass of the loop moves the cut to the next terminator.
LEMMA PassKeeps ==
    ASSUME NEW T \in Seq(CnByte), NEW p \in Passes \ Done, NEW m \in Nat, InLoop(p, T, m)
    PROVE  InLoop(PassOf(p), T, m)
<1> DEFINE k == CheckZero(p.list)
           new == Remain(Last(p.list), k)
<1>1. p.list \in Seq(Seq(CnByte)) /\ p.requests \in Seq(Seq(CnByte)) /\ k # 0
  BY DEF Passes, Done
<1>2. p.list # <<>>
  BY <1>1 DEF CheckZero
<1>3. OpenPieces(Front(p.list))
  BY <1>2 DEF InLoop
<1> PICK a \in 0..Len(T) : Cut(p.list, p.requests, T, a)
  BY DEF InLoop
<1>4. PICK b \in (a + 1)..Len(T) :
        /\ T[b] = CnZero /\ \A i \in (a + 1)..(b - 1) : T[i] # CnZero
        /\ Popped(p.list, k) = SubSeq(T, a + 1, b - 1)
        /\ Remains(new, T, b, Len(Last(p.list)))
  <2>1. FlattenSeq(p.list) = SubSeq(T, a + 1, Len(T))
    BY DEF Cut
  <2> QED BY <1>1, <1>2, <1>3, <2>1, NextCut
<1> DEFINE emitted == Emitted(p.requests, SubSeq(T, a + 1, b - 1))
<1>5. emitted \in Seq(Seq(CnByte)) /\ Len(emitted) <= b /\ SplitBy(emitted, T, SegmentsTo(T, b))
  BY <1>1, <1>4, EmittedIs DEF Cut
<1>10. m <= Len(emitted)
  <2> DEFINE x == SubSeq(T, a + 1, b - 1)
  <2>1. emitted = p.requests \/ emitted = Append(p.requests, x)
    BY DEF Emitted
  <2>2. m <= Len(p.requests) /\ Len(p.requests) \in Nat
    BY <1>1, LenProperties DEF InLoop
  <2>3. emitted # p.requests => Len(emitted) = Len(p.requests) + 1
    <3>1. \A y : Len(Append(p.requests, y)) = Len(p.requests) + 1
      OBVIOUS
    <3> HIDE DEF emitted, x
    <3> QED BY <2>1, <3>1
  <2> HIDE DEF emitted
  <2> QED BY <2>2, <2>3
<1>6. PassOf(p) = [list |-> new, requests |-> emitted]
  BY <1>4 DEF PassOf
<1>7. b \in 0..Len(T)
  BY <1>4, LenProperties
<1> HIDE DEF new, emitted
<1>8. Cut(new, emitted, T, b)
  BY <1>4, <1>5, <1>7 DEF Cut, Remains
<1>9. new # <<>> => Last(new) # <<>> /\ OpenPieces(Front(new))
  BY <1>4 DEF Remains
<1> QED BY <1>6, <1>7, <1>8, <1>9, <1>10 DEF InLoop

\* What received_bytes keeps and emits: the requests up to the last terminator, and
\* behind it pieces without one.
LEMMA RinseKeeps ==
    ASSUME NEW T \in Seq(CnByte), NEW list \in Seq(Seq(CnByte)), NEW requests \in Seq(Seq(CnByte)),
           NEW m \in Nat, InLoop([list |-> list, requests |-> requests], T, m)
    PROVE  LET rest == Rinse(list, requests)
           IN rest \in Passes /\ OpenPieces(rest.list) /\ m <= Len(rest.requests) /\ \E a \in 0..Len(T) : Cut(rest.list, rest.requests, T, a)
<1> DEFINE D == Passes
           B == Done
           g == [p \in D |-> IF p \in B THEN p ELSE PassOf(p)]
           mu == [p \in D |-> BytesLeft(p)]
           I == {p \in D : InLoop(p, T, m)}
           p0 == [list |-> list, requests |-> requests]
           r == CHOOSE f : f = [p \in [list : Seq(Seq(CnByte)), requests : Seq(Seq(CnByte))] |->
                                   LET k == CheckZero(p.list)
                                   IN IF k = 0 THEN p
                                      ELSE f[[list |-> Remain(Last(p.list), k), requests |-> Emitted(p.requests, Popped(p.list, k))]]]
<1>1. g \in [D -> D] /\ mu \in [D -> Nat] /\ B \in SUBSET D
  BY PassType, SizeType DEF Done
<1>2. Loop(D, B, g, mu)
  BY <1>1, PassType DEF Loop
<1>3. Rinse(list, requests) = r[p0]
  BY DEF Rinse
<1>4. \E f : f = [p \in D |-> f[p]] /\ Leads(f, D, B, g)
  <2> HIDE DEF D, B, g, mu
  <2> QED BY <1>2, LoopExists
<1>5. PICK f : f = [p \in D |-> f[p]] /\ Leads(f, D, B, g)
  BY <1>4
<1> DEFINE Body(h) == [p \in D |-> LET k == CheckZero(p.list)
                                   IN IF k = 0 THEN p
                                      ELSE h[[list |-> Remain(Last(p.list), k), requests |-> Emitted(p.requests, Popped(p.list, k))]]]
<1>6. \A p \in D : (p \in B <=> CheckZero(p.list) = 0)
  BY DEF Done
<1>7. f = Body(f)
  <2>1. \A p \in D : f[p] = IF CheckZero(p.list) = 0 THEN p ELSE f[PassOf(p)]
    <3>1. \A p \in D : f[p] = IF p \in B THEN p ELSE f[g[p]]
      BY <1>5 DEF Leads
    <3>2. \A p \in D : p \notin B => g[p] = PassOf(p)
      OBVIOUS
    <3> HIDE DEF g, D, B
    <3> QED BY <1>6, <3>1, <3>2
  <2> HIDE DEF D
  <2> QED BY <1>5, <2>1 DEF PassOf
<1>8. r = Body(r)
  BY <1>7 DEF Passes
<1>9. Leads(r, D, B, g)
  <2> HIDE DEF r
  <2>1. \A p \in D : r[p] = IF CheckZero(p.list) = 0 THEN p ELSE r[PassOf(p)]
    <3> HIDE DEF D
    <3> QED BY <1>8 DEF PassOf
  <2>2. \A p \in D : p \notin B => g[p] = PassOf(p)
    OBVIOUS
  <2> HIDE DEF g, D, B
  <2> QED BY <1>6, <2>1, <2>2 DEF Leads
<1>10. KeptBy(I, D, B, g)
  BY PassKeeps, PassType DEF KeptBy
<1>11. p0 \in I
  BY DEF Passes
<1>12. r[p0] \in I \cap B
  <2> HIDE DEF D, B, g, mu, I, r, p0
  <2>1. EndsIn(I, B, r)
    BY <1>2, <1>9, <1>10, LoopKeeps
  <2> QED BY <1>11, <2>1 DEF EndsIn
<1> DEFINE rest == r[p0]
<1>13. rest \in Passes /\ CheckZero(rest.list) = 0 /\ InLoop(rest, T, m)
  <2> HIDE DEF r
  <2> QED BY <1>12 DEF Done
<1> HIDE DEF r
<1> HIDE DEF rest
<1>14. PICK a \in 0..Len(T) : Cut(rest.list, rest.requests, T, a)
  BY <1>13 DEF InLoop
<1>15. OpenPieces(rest.list)
  <2> DEFINE s == rest.list
             last == Last(s)
  <2>0. s \in Seq(Seq(CnByte))
    BY <1>13 DEF Passes
  <2>1. CASE s = <<>>
    BY <2>1 DEF OpenPieces
  <2>2. CASE s # <<>>
    <3>1. /\ last \in Seq(CnByte) /\ Len(Front(s)) = Len(s) - 1
          /\ \A k \in 1..(Len(s) - 1) : Front(s)[k] = s[k]
      BY <2>0, <2>2, FrontAndLast
    <3>2. \A i \in 1..Len(last) : last[i] # CnZero
      BY <1>13, <2>0, <2>2, CheckZeroIs
    <3>3. last # <<>> /\ OpenPieces(Front(s))
      BY <1>13, <2>2 DEF InLoop
    <3>4. Open(last)
      <4>1. Len(last) \in Nat /\ last \in [1..Len(last) -> CnByte]
        BY <3>1, LenProperties
      <4>2. last \in [1..Len(last) -> Filled]
        BY <3>2, <4>1, Bytes
      <4>3. [1..Len(last) -> Filled] \in {[1..n -> Filled] : n \in Nat}
        BY <4>1
      <4>4. Seq(Filled) = UNION {[1..n -> Filled] : n \in Nat}
        BY SeqDef
      <4>5. last \in Seq(Filled)
        BY <4>2, <4>3, <4>4, Zenon
      <4> QED BY <3>3, <4>5 DEF Open
    <3>5. Len(s) \in Nat /\ last = s[Len(s)]
      BY <2>0, LenProperties DEF Last
    <3> HIDE DEF s, last
    <3>6. ASSUME NEW k \in 1..Len(s) PROVE Open(s[k])
      <4>1. CASE k = Len(s)
        BY <3>4, <3>5, <4>1
      <4>2. CASE k # Len(s)
        <5>1. k \in 1..(Len(s) - 1)
          BY <3>5, <4>2
        <5> QED BY <3>1, <3>3, <5>1 DEF OpenPieces
      <4> QED BY <4>1, <4>2
    <3> QED BY <3>6 DEF OpenPieces, s
  <2> QED BY <2>1, <2>2
<1>16. m <= Len(rest.requests)
  BY <1>13 DEF InLoop
<1> QED BY <1>3, <1>13, <1>14, <1>15, <1>16 DEF rest

\* What comes before a in a stream is the same however it goes on.
LEMMA SameBefore ==
    ASSUME NEW T \in Seq(CnByte), NEW U \in Seq(CnByte), NEW a \in Nat, a <= Len(T), a <= Len(U),
           SameUpTo(T, U, a), NEW requests, SplitBy(requests, T, SegmentsTo(T, a))
    PROVE  SplitBy(requests, U, SegmentsTo(U, a))
<1>1. \A i \in 1..a : T[i] = U[i]
  BY DEF SameUpTo
<1>2. SegmentsTo(T, a) = SegmentsTo(U, a)
  <2>1. ASSUME NEW i \in 1..a, NEW j \in 1..a, i <= j
        PROVE  /\ (\A k \in i..j : T[k] # CnZero) <=> (\A k \in i..j : U[k] # CnZero)
               /\ i > 1 => (T[i - 1] = CnZero <=> U[i - 1] = CnZero)
               /\ j < a => (T[j + 1] = CnZero <=> U[j + 1] = CnZero)
    <3>1. \A k \in i..j : k \in 1..a
      OBVIOUS
    <3>2. i > 1 => i - 1 \in 1..a
      OBVIOUS
    <3>3. j < a => j + 1 \in 1..a
      OBVIOUS
    <3> QED BY <1>1, <3>1, <3>2, <3>3
  <2>2. ASSUME NEW s \in (1..a) \X (1..a) PROVE s \in SegmentsTo(T, a) <=> s \in SegmentsTo(U, a)
    <3>1. s[1] \in 1..a /\ s[2] \in 1..a
      OBVIOUS
    <3>2. CASE s[1] <= s[2]
      BY <2>1, <3>1, <3>2 DEF SegmentsTo
    <3>3. CASE ~(s[1] <= s[2])
      BY <3>3 DEF SegmentsTo
    <3> QED BY <3>2, <3>3
  <2>3. SegmentsTo(T, a) \subseteq (1..a) \X (1..a) /\ SegmentsTo(U, a) \subseteq (1..a) \X (1..a)
    BY DEF SegmentsTo
  <2> QED BY <2>2, <2>3
<1>3. PICK at \in [DOMAIN requests -> SegmentsTo(T, a)] :
        /\ \A k, l \in DOMAIN requests : k < l => at[k][1] < at[l][1]
        /\ \A segment \in SegmentsTo(T, a) : \E k \in DOMAIN requests : at[k] = segment
        /\ \A k \in DOMAIN requests : requests[k] = SubSeq(T, at[k][1], at[k][2])
  BY DEF SplitBy
<1>4. ASSUME NEW k \in DOMAIN requests PROVE requests[k] = SubSeq(U, at[k][1], at[k][2])
  <2>1. at[k] \in SegmentsTo(T, a)
    OBVIOUS
  <2>2. at[k][1] \in 1..a /\ at[k][2] \in 1..a
    BY <2>1 DEF SegmentsTo
  <2> DEFINE i == at[k][1]
             j == at[k][2]
  <2>3. i \in 1..a /\ j \in 1..a
    BY <2>2
  <2> HIDE DEF i, j
  <2>4. \A n \in 1..(j - i + 1) : T[i + n - 1] = U[i + n - 1]
    <3> SUFFICES ASSUME NEW n \in 1..(j - i + 1) PROVE T[i + n - 1] = U[i + n - 1]
      OBVIOUS
    <3>1. i + n - 1 \in 1..a
      BY <2>3
    <3> QED BY <1>1, <3>1
  <2>5. SubSeq(T, i, j) = [n \in 1..(j - i + 1) |-> T[i + n - 1]]
    BY <2>3 DEF SubSeq
  <2>6. SubSeq(U, i, j) = [n \in 1..(j - i + 1) |-> U[i + n - 1]]
    BY <2>3 DEF SubSeq
  <2>7. SubSeq(T, i, j) = SubSeq(U, i, j)
    BY <2>4, <2>5, <2>6
  <2> QED BY <1>3, <2>7 DEF i, j
<1> QED BY <1>2, <1>3, <1>4 DEF SplitBy

\* After a read the pieces are again what stands behind the last request.
LEMMA ReadExtends ==
    ASSUME NEW T \in Seq(CnByte), NEW chunk \in Seq(CnByte), chunk # <<>>,
           NEW list \in Seq(Seq(CnByte)), OpenPieces(list), NEW requests \in Seq(Seq(CnByte)),
           NEW a \in 0..Len(T), Cut(list, requests, T, a)
    PROVE  InLoop([list |-> Append(list, chunk), requests |-> requests], T \o chunk, Len(requests))
<1> DEFINE U == T \o chunk
           n == Len(T)
           m == Len(chunk)
           new == Append(list, chunk)
<1>1. n \in Nat /\ m \in Nat /\ a \in Nat /\ a <= n
  BY LenProperties
<1>2. U \in Seq(CnByte) /\ Len(U) = n + m
  BY ConcatProperties
<1>3. \A i \in 1..n : U[i] = T[i]
  BY ConcatProperties
<1>4. \A i \in 1..m : U[n + i] = chunk[i]
  BY ConcatProperties
<1>5. FlattenSeq(new) = SubSeq(U, a + 1, n + m)
  <2>1. FlattenSeq(new) = SubSeq(T, a + 1, n) \o chunk
    BY FlattenAppend DEF Cut
  <2>2. SubSeq(T, a + 1, n) \in Seq(CnByte) /\ Len(SubSeq(T, a + 1, n)) = n - a
    <3>1. \A i \in (a + 1)..n : T[i] \in CnByte
      BY <1>1, ElementOfSeq
    <3>2. IF a + 1 <= n THEN Len(SubSeq(T, a + 1, n)) = n - (a + 1) + 1 ELSE SubSeq(T, a + 1, n) = <<>>
      BY <1>1, <3>1, SubSeqProperties
    <3>3. SubSeq(T, a + 1, n) \in Seq(CnByte)
      BY <1>1, <3>1, SubSeqProperties
    <3> QED BY <1>1, <3>2, <3>3
  <2>3. SubSeq(U, a + 1, n + m) \in Seq(CnByte) /\ Len(SubSeq(U, a + 1, n + m)) = n + m - a
    <3> HIDE DEF U, n, m
    <3>1. \A i \in (a + 1)..(n + m) : U[i] \in CnByte
      BY <1>1, <1>2, ElementOfSeq
    <3>2. IF a + 1 <= n + m THEN Len(SubSeq(U, a + 1, n + m)) = n + m - (a + 1) + 1 ELSE SubSeq(U, a + 1, n + m) = <<>>
      BY <1>1, <1>2, <3>1, SubSeqProperties
    <3>3. SubSeq(U, a + 1, n + m) \in Seq(CnByte)
      BY <1>1, <1>2, <3>1, SubSeqProperties
    <3> QED BY <1>1, <3>2, <3>3
  <2> DEFINE x == SubSeq(T, a + 1, n)
             y == SubSeq(U, a + 1, n + m)
  <2>4. x = [i \in 1..(n - a) |-> T[a + i]] /\ y = [i \in 1..(n + m - a) |-> U[a + i]]
    <3> HIDE DEF U, n, m
    <3>1. n - (a + 1) + 1 = n - a /\ n + m - (a + 1) + 1 = n + m - a /\ \A i \in Int : (a + 1) + i - 1 = a + i
      BY <1>1
    <3> QED BY <1>1, <3>1 DEF SubSeq
  <2>5. x \o chunk \in Seq(CnByte) /\ Len(x \o chunk) = n - a + m
    BY <2>2, ConcatProperties
  <2>6. ASSUME NEW i \in 1..(n + m - a) PROVE (x \o chunk)[i] = y[i]
    <3>1. CASE i <= n - a
      <4>1. i \in 1..(n - a)
        BY <1>1, <3>1
      <4>2. (x \o chunk)[i] = x[i]
        BY <2>2, <4>1, ConcatProperties
      <4>3. a + i \in 1..n
        BY <1>1, <4>1
      <4> HIDE DEF U, x, y, n, m
      <4> QED BY <1>3, <2>4, <4>1, <4>2, <4>3
    <3>2. CASE ~(i <= n - a)
      <4> DEFINE j == i - (n - a)
      <4>1. j \in 1..m /\ n + j = a + i /\ i = (n - a) + j
        BY <1>1, <3>2
      <4>2. (x \o chunk)[(n - a) + j] = chunk[j]
        <5>1. x \in Seq(CnByte) /\ Len(x) = n - a
          BY <2>2
        <5>2. j \in 1..Len(chunk)
          BY <4>1
        <5> HIDE DEF j, x
        <5>3. (x \o chunk)[Len(x) + j] = chunk[j]
          BY <5>1, <5>2, SecondOf
        <5> QED BY <5>1, <5>3
      <4> HIDE DEF U, x, y, n, m, j
      <4> QED BY <1>4, <2>4, <4>1, <4>2
    <3> QED BY <3>1, <3>2
  <2>7. x \o chunk = y
    <3> HIDE DEF x, y, n, m, U
    <3>1. Len(x \o chunk) = Len(y) /\ Len(y) = n + m - a
      BY <1>1, <2>3, <2>5 DEF y
    <3>2. x \o chunk \in Seq(CnByte) /\ y \in Seq(CnByte)
      BY <2>3, <2>5 DEF y
    <3> QED BY <2>6, <3>1, <3>2, SeqEqual
  <2> QED BY <2>1, <2>7
<1>6. SplitBy(requests, U, SegmentsTo(U, a))
  <2>1. SameUpTo(T, U, a)
    <3> SUFFICES ASSUME NEW i \in 1..a PROVE T[i] = U[i]
      BY DEF SameUpTo
    <3>1. i \in 1..n
      BY <1>1
    <3> QED BY <1>3, <3>1
  <2>2. a <= Len(U)
    BY <1>1, <1>2
  <2> HIDE DEF U
  <2> QED BY <1>1, <1>2, <2>1, <2>2, SameBefore DEF Cut
<1>7. a > 0 => U[a] = CnZero
  <2>1. a > 0 => a \in 1..n
    BY <1>1
  <2> QED BY <1>3, <2>1 DEF Cut
<1>8. a \in 0..Len(U) /\ Len(requests) <= a
  BY <1>1, <1>2 DEF Cut
<1>9. Cut(new, requests, U, a)
  <2> HIDE DEF U, new
  <2> QED BY <1>2, <1>5, <1>6, <1>7, <1>8 DEF Cut
<1>10. new # <<>> /\ Last(new) = chunk /\ Front(new) = list
  <2>1. new \in Seq(Seq(CnByte)) /\ new # <<>> /\ Len(new) = Len(list) + 1 /\ new[Len(list) + 1] = chunk
    BY AppendProperties
  <2>2. \A i \in 1..Len(list) : new[i] = list[i]
    BY AppendProperties
  <2>3. Len(list) \in Nat /\ Len(list) + 1 - 1 = Len(list)
    BY LenProperties
  <2> HIDE DEF new
  <2>4. Front(new) \in Seq(Seq(CnByte)) /\ Len(Front(new)) = Len(list) /\ \A i \in 1..Len(list) : Front(new)[i] = new[i]
    <3>1. /\ Front(new) \in Seq(Seq(CnByte)) /\ Len(Front(new)) = Len(new) - 1
          /\ \A k \in 1..(Len(new) - 1) : Front(new)[k] = new[k]
      BY <2>1, FrontAndLast
    <3>2. Len(new) - 1 = Len(list)
      BY <2>1, <2>3
    <3> QED BY <3>1, <3>2
  <2>5. Front(new) = list
    BY <2>2, <2>4, SeqEqual
  <2> QED BY <2>1, <2>5 DEF Last
<1> HIDE DEF new, U
<1>11. Last(new) # <<>> /\ OpenPieces(Front(new))
  BY <1>10
<1>12. Len(requests) <= Len(requests)
  <2>1. Len(requests) \in Nat
    BY LenProperties
  <2> QED BY <2>1
<1> QED BY <1>8, <1>9, <1>11, <1>12 DEF InLoop, new, U

\* Behind the last cut no terminator is left.
LEMMA NoneBehind ==
    ASSUME NEW T \in Seq(CnByte), NEW list \in Seq(Seq(CnByte)), OpenPieces(list), NEW requests,
           NEW a \in 0..Len(T), Cut(list, requests, T, a)
    PROVE  \A i \in (a + 1)..Len(T) : T[i] # CnZero
<1> SUFFICES ASSUME NEW i \in (a + 1)..Len(T) PROVE T[i] # CnZero
  OBVIOUS
<1> DEFINE n == Len(T)
           rest == SubSeq(T, a + 1, n)
<1>1. n \in Nat /\ a \in Nat /\ i \in Nat /\ a + 1 <= i /\ i <= n
  BY LenProperties
<1>2. rest \in Seq(Filled)
  BY FlattenOpen DEF Cut
<1>3. rest = [k \in 1..(n - a) |-> T[a + k]]
  <2> HIDE DEF n
  <2>1. n - (a + 1) + 1 = n - a /\ \A k \in Int : (a + 1) + k - 1 = a + k
    BY <1>1
  <2> QED BY <1>1, <2>1 DEF SubSeq
<1> HIDE DEF n
<1>4. i - a \in 1..(n - a) /\ a + (i - a) = i
  BY <1>1
<1>5. Len(rest) = n - a
  <2>1. n - a \in Nat
    BY <1>1
  <2> QED BY <1>2, <1>3, <2>1, LenProperties DEF rest
<1>6. rest[i - a] \in Filled
  <2> HIDE DEF rest
  <2> QED BY <1>2, <1>4, <1>5, ElementOfSeq
<1>7. rest[i - a] = T[i]
  BY <1>3, <1>4
<1> QED BY <1>6, <1>7, Bytes

\* While the stream goes on, the requests are those that are terminated.
LEMMA SplitIsRequests ==
    ASSUME NEW T \in Seq(CnByte), NEW requests, NEW a \in 0..Len(T), SplitBy(requests, T, SegmentsTo(T, a)),
           \A i \in (a + 1)..Len(T) : T[i] # CnZero
    PROVE  AreRequestsIn(requests, T, FALSE)
<1> DEFINE n == Len(T)
<1>1. n \in Nat /\ a \in Nat /\ a <= n
  BY LenProperties
<1>2. Segments(T, FALSE) = SegmentsTo(T, a)
  <2>1. ASSUME NEW s \in SegmentsTo(T, a) PROVE s \in Segments(T, FALSE)
    <3>1. s \in (1..n) \X (1..n)
      <4>1. 1..a \subseteq 1..n
        BY <1>1
      <4> QED BY <4>1 DEF SegmentsTo
    <3>2. s[2] < n /\ T[s[2] + 1] = CnZero
      BY <1>1 DEF SegmentsTo
    <3> QED BY <3>1, <3>2 DEF Segments, SegmentsTo
  <2>2. ASSUME NEW s \in Segments(T, FALSE) PROVE s \in SegmentsTo(T, a)
    <3>1. s \in (1..n) \X (1..n) /\ s[1] \in 1..n /\ s[2] \in 1..n /\ s[1] <= s[2]
      BY DEF Segments
    <3>2. s[2] < n /\ T[s[2] + 1] = CnZero
      BY DEF Segments
    <3>3. s[2] < a
      <4>1. CASE a <= s[2]
        <5>1. s[2] + 1 \in (a + 1)..n
          BY <1>1, <3>1, <3>2, <4>1
        <5> QED BY <3>2, <5>1
      <4> QED BY <1>1, <3>1, <4>1
    <3>4. s[1] \in 1..a /\ s[2] \in 1..a
      BY <1>1, <3>1, <3>3
    <3>5. s \in (1..a) \X (1..a)
      BY <3>1, <3>4
    <3> QED BY <3>2, <3>3, <3>5 DEF Segments, SegmentsTo
  <2> QED BY <2>1, <2>2
<1> QED BY <1>2 DEF AreRequestsIn, SplitBy

\* At its end also what stands behind the last terminator is one.
LEMMA SplitAtEnd ==
    ASSUME NEW T \in Seq(CnByte), NEW requests \in Seq(Seq(CnByte)),
           NEW a \in 0..Len(T), a > 0 => T[a] = CnZero, Len(requests) <= a,
           SplitBy(requests, T, SegmentsTo(T, a)), \A i \in (a + 1)..Len(T) : T[i] # CnZero
    PROVE  LET new == Emitted(requests, SubSeq(T, a + 1, Len(T)))
           IN new \in Seq(Seq(CnByte)) /\ Len(new) <= Len(T) /\ AreRequestsIn(new, T, TRUE)
<1> DEFINE n == Len(T)
           rest == SubSeq(T, a + 1, n)
           new == Emitted(requests, rest)
           end == <<a + 1, n>>
<1> SUFFICES new \in Seq(Seq(CnByte)) /\ Len(new) <= n /\ AreRequestsIn(new, T, TRUE)
  OBVIOUS
<1>1. n \in Nat /\ a \in Nat /\ a <= n /\ Len(requests) \in Nat
  BY LenProperties
<1>2. rest \in Seq(CnByte) /\ (IF a < n THEN Len(rest) = n - a ELSE rest = <<>>)
  <2>1. \A i \in (a + 1)..n : T[i] \in CnByte
    BY <1>1, ElementOfSeq
  <2> HIDE DEF n
  <2>2. rest \in Seq(CnByte) /\ (IF a + 1 <= n THEN Len(rest) = n - (a + 1) + 1 ELSE rest = <<>>)
    BY <1>1, <2>1, SubSeqProperties
  <2> HIDE DEF rest
  <2> QED BY <1>1, <2>2
<1>3. SegmentsTo(T, a) \subseteq Segments(T, TRUE)
  <2> SUFFICES ASSUME NEW s \in SegmentsTo(T, a) PROVE s \in Segments(T, TRUE)
    OBVIOUS
  <2>1. s \in (1..n) \X (1..n)
    <3>1. 1..a \subseteq 1..n
      BY <1>1
    <3> QED BY <3>1 DEF SegmentsTo
  <2>2. s[2] < n /\ T[s[2] + 1] = CnZero
    BY <1>1 DEF SegmentsTo
  <2> QED BY <2>1, <2>2 DEF Segments, SegmentsTo
<1>4. ASSUME NEW s \in Segments(T, TRUE), s \notin SegmentsTo(T, a) PROVE a < n /\ s = end
  <2>1. s \in (1..n) \X (1..n) /\ s[1] \in 1..n /\ s[2] \in 1..n /\ s[1] <= s[2] /\ s = <<s[1], s[2]>>
    BY DEF Segments
  <2>2. \A k \in s[1]..s[2] : T[k] # CnZero
    BY DEF Segments
  <2>3. s[2] >= a
    <3>1. CASE s[2] < a
      <4>1. s[1] \in 1..a /\ s[2] \in 1..a
        BY <1>1, <2>1, <3>1
      <4>2. s \in (1..a) \X (1..a)
        BY <2>1, <4>1
      <4>3. s[2] < n
        BY <1>1, <2>1, <3>1
      <4> QED BY <1>4, <3>1, <4>2, <4>3 DEF Segments, SegmentsTo
    <3> QED BY <1>1, <2>1, <3>1
  <2>4. s[2] = n
    <3>1. CASE s[2] < n
      <4>1. T[s[2] + 1] = CnZero
        BY <3>1 DEF Segments
      <4>2. s[2] + 1 \in (a + 1)..n
        BY <1>1, <2>1, <2>3, <3>1
      <4> QED BY <4>1, <4>2
    <3> QED BY <1>1, <2>1, <3>1
  <2>5. s[1] > a
    <3>1. CASE s[1] <= a
      <4>1. a \in s[1]..s[2] /\ a > 0
        BY <1>1, <2>1, <2>3, <3>1
      <4> QED BY <2>2, <4>1
    <3> QED BY <1>1, <2>1, <3>1
  <2>6. s[1] = a + 1
    <3>1. CASE s[1] > a + 1
      <4>1. T[s[1] - 1] = CnZero
        <5>1. s[1] > 1
          BY <1>1, <2>1, <3>1
        <5> QED BY <5>1 DEF Segments
      <4>2. s[1] - 1 \in (a + 1)..n
        BY <1>1, <2>1, <3>1
      <4> QED BY <4>1, <4>2
    <3> QED BY <1>1, <2>1, <2>5, <3>1
  <2> QED BY <1>1, <2>1, <2>4, <2>6
<1>5. CASE a = n
  <2>1. new = requests
    BY <1>2, <1>5 DEF Emitted
  <2>2. Segments(T, TRUE) = SegmentsTo(T, a)
    <3>1. ASSUME NEW s \in Segments(T, TRUE), s \notin SegmentsTo(T, a) PROVE FALSE
      <4>1. a < n
        BY <1>4, <3>1
      <4> HIDE DEF n
      <4> QED BY <1>1, <1>5, <4>1
    <3> QED BY <1>3, <3>1
  <2>3. AreRequestsIn(requests, T, TRUE)
    BY <2>2 DEF AreRequestsIn, SplitBy
  <2>4. Len(requests) <= n
    BY <1>1, <1>5
  <2> HIDE DEF new, n
  <2> QED BY <1>1, <2>1, <2>3, <2>4
<1>6. CASE a < n
  <2>1. rest # <<>>
    <3> HIDE DEF rest
    <3> QED BY <1>1, <1>2, <1>6
  <2>2. new = Append(requests, rest)
    BY <2>1 DEF Emitted
  <2>3. end \in Segments(T, TRUE)
    <3>1. end \in (1..n) \X (1..n) /\ end[1] = a + 1 /\ end[2] = n
      BY <1>1, <1>6
    <3>2. end[1] > 1 => T[end[1] - 1] = CnZero
      <4>1. a + 1 > 1 => T[a + 1 - 1] = CnZero
        <5>1. a + 1 - 1 = a /\ (a + 1 > 1 => a > 0)
          BY <1>1
        <5> QED BY <5>1
      <4> QED BY <3>1, <4>1
    <3>3. end[1] <= end[2] /\ ~(end[2] < n) /\ \A k \in end[1]..end[2] : T[k] # CnZero
      BY <1>1, <1>6, <3>1
    <3> HIDE DEF end
    <3> QED BY <3>1, <3>2, <3>3 DEF Segments
  <2>4. Segments(T, TRUE) = SegmentsTo(T, a) \cup {end}
    <3> HIDE DEF end
    <3> QED BY <1>3, <1>4, <2>3
  <2>5. SegmentsTo(T, a) \in SUBSET (Nat \X Nat) /\ \A s \in SegmentsTo(T, a) : s[1] < a + 1
    <3>1. 1..a \subseteq Nat
      BY <1>1
    <3>2. \A s \in SegmentsTo(T, a) : s \in (1..a) \X (1..a) /\ s[1] \in 1..a
      BY DEF SegmentsTo
    <3>3. \A x \in 1..a : x < a + 1
      BY <1>1
    <3> QED BY <3>1, <3>2, <3>3
  <2>6. a + 1 \in Nat
    BY <1>1
  <2>7. SplitBy(Append(requests, rest), T, SegmentsTo(T, a) \cup {end})
    <3> HIDE DEF n
    <3> QED BY <1>1, <1>2, <2>5, <2>6, NextRequest
  <2>8. new \in Seq(Seq(CnByte)) /\ Len(new) = Len(requests) + 1
    <3> HIDE DEF rest
    <3> QED BY <1>2, <2>2, AppendProperties
  <2>9. AreRequestsIn(new, T, TRUE)
    <3>1. AreRequestsIn(Append(requests, rest), T, TRUE) <=> SplitBy(Append(requests, rest), T, Segments(T, TRUE))
      BY DEF AreRequestsIn, SplitBy
    <3> HIDE DEF new, rest, end
    <3> QED BY <2>2, <2>4, <2>7, <3>1
  <2>10. Len(requests) + 1 <= n
    <3> HIDE DEF n
    <3> QED BY <1>1, <1>6
  <2> HIDE DEF new, n
  <2> QED BY <2>8, <2>9, <2>10
<1>7. a = n \/ a < n
  <2> HIDE DEF n
  <2> QED BY <1>1
<1> QED BY <1>5, <1>6, <1>7

----------------------------------------------------------------------------
(* The bytes of a result.                                                    *)

Places == (1..2) \X (0..2)     \* a byte of a result: its character and its place in it

\* The bytes of one character, each with its place.
Character(result, i) == [j \in 1..result[i] |-> <<i, j>>]

\* The bytes of n characters from k on.
Characters(result, k, n) == [i \in 1..n |-> Character(result, k + i - 1)]

OneByte(result) == \A k \in DOMAIN result : result[k] = 1

\* A character of a result has one or two bytes.
LEMMA CharacterType ==
    ASSUME NEW r \in CnResults, NEW i \in 1..Len(r)
    PROVE  /\ Len(r) \in {1, 2} /\ DOMAIN r = 1..Len(r) /\ r[i] \in {1, 2}
           /\ Character(r, i) \in Seq(Places) /\ Len(Character(r, i)) = r[i]
<1>1. PICK n \in 1..2 : r \in [1..n -> {1, 2}]
  BY DEF CnResults
<1>2. n \in Nat /\ n \in {1, 2}
  BY <1>1
<1>3. r \in Seq({1, 2}) /\ Len(r) = n
  BY <1>1, <1>2, SeqDef, LenProperties
<1>4. r[i] \in {1, 2} /\ i \in 1..2
  BY <1>1, <1>2, <1>3
<1>5. Character(r, i) \in [1..r[i] -> Places]
  <2>1. \A j \in 1..r[i] : <<i, j>> \in Places
    BY <1>4 DEF Places
  <2> QED BY <2>1 DEF Character
<1>6. Character(r, i) \in Seq(Places) /\ Len(Character(r, i)) = r[i]
  <2>1. r[i] \in Nat
    BY <1>4
  <2>2. Seq(Places) = UNION {[1..k -> Places] : k \in Nat}
    BY SeqDef
  <2>3. Character(r, i) \in Seq(Places)
    BY <1>5, <2>1, <2>2
  <2>4. DOMAIN Character(r, i) = 1..r[i]
    BY <1>5
  <2> QED BY <2>1, <2>3, <2>4, LenProperties
<1> QED BY <1>1, <1>2, <1>3, <1>4, <1>6

\* The bytes of one and of two characters.
LEMMA BytesOf ==
    ASSUME NEW r \in CnResults
    PROVE  \/ Len(r) = 1 /\ BytesFrom(r, 1) = Character(r, 1)
           \/ /\ Len(r) = 2 /\ BytesFrom(r, 2) = Character(r, 2)
              /\ BytesFrom(r, 1) = Character(r, 1) \o Character(r, 2)
<1>1. /\ BytesFrom(r, 1) = FlattenSeq(Characters(r, 1, Len(r) - 1 + 1))
      /\ BytesFrom(r, 2) = FlattenSeq(Characters(r, 2, Len(r) - 2 + 1))
  BY DEF BytesFrom, Characters, Character
<1>2. Len(r) \in {1, 2}
  <2> PICK n \in 1..2 : r \in [1..n -> {1, 2}]
    BY DEF CnResults
  <2>1. r \in Seq({1, 2})
    BY SeqDef
  <2> QED BY <2>1, LenProperties
<1> DEFINE x == Character(r, 1)
           y == Character(r, 2)
<1>4. CASE Len(r) = 1
  <2>1. x \in Seq(Places)
    BY <1>4, CharacterType
  <2>2. Len(r) - 1 + 1 = 1 /\ Characters(r, 1, 1) = <<x>>
    BY <1>4 DEF Characters
  <2> HIDE DEF x
  <2>3. FlattenSeq(<<x>>) = x
    BY <2>1, FlattenOne
  <2> QED BY <1>1, <1>4, <2>2, <2>3 DEF x
<1>5. CASE Len(r) = 2
  <2>1. x \in Seq(Places) /\ y \in Seq(Places)
    BY <1>5, CharacterType
  <2>2. Len(r) - 2 + 1 = 1 /\ Characters(r, 2, 1) = <<y>>
    BY <1>5 DEF Characters
  <2>3. Len(r) - 1 + 1 = 2 /\ Characters(r, 1, 2) = <<x, y>>
    BY <1>5 DEF Characters
  <2> HIDE DEF x, y
  <2>4. FlattenSeq(<<y>>) = y /\ FlattenSeq(<<x>>) = x
    BY <2>1, FlattenOne
  <2>5. <<x>> \in Seq(Seq(Places)) /\ Append(<<x>>, y) = <<x, y>>
    <3>1. <<x>> \in Seq(Seq(Places)) /\ <<x, y>> \in Seq(Seq(Places)) /\ Len(<<x>>) = 1 /\ Len(<<x, y>>) = 2
      BY <2>1
    <3>2. Append(<<x>>, y) \in Seq(Seq(Places)) /\ Len(Append(<<x>>, y)) = 2
      BY <2>1, <3>1, AppendProperties
    <3>3. Append(<<x>>, y)[1] = x /\ Append(<<x>>, y)[2] = y
      BY <2>1, <3>1, AppendProperties
    <3>4. \A i \in 1..2 : Append(<<x>>, y)[i] = <<x, y>>[i]
      BY <3>3
    <3> QED BY <3>1, <3>2, <3>4, SeqEqual
  <2>6. FlattenSeq(<<x, y>>) = x \o y
    BY <2>1, <2>4, <2>5, FlattenAppend
  <2>7. BytesFrom(r, 2) = y /\ BytesFrom(r, 1) = x \o y
    BY <1>1, <2>2, <2>3, <2>4, <2>6
  <2> QED BY <1>5, <2>7 DEF x, y
<1> QED BY <1>2, <1>4, <1>5

\* What was written goes on with what is written next.
Continues(r, w, rest, n) ==
    /\ w + n <= Len(r)
    /\ SubSeq(BytesFrom(r, 1), 1, w) \o SubSeq(rest, 1, n) = SubSeq(BytesFrom(r, 1), 1, w + n)

\* A result is written in one piece, or byte by byte where each character has one.
LEMMA BytesGoOn ==
    ASSUME NEW r \in CnResults, NEW w \in Nat, w < Len(r)
    PROVE  LET all == BytesFrom(r, 1)
               rest == BytesFrom(r, w + 1)
           IN /\ Len(r) \in {1, 2} /\ all \in Seq(Places) /\ rest \in Seq(Places) /\ Len(all) >= Len(r)
              /\ OneByte(r) => Len(all) = Len(r) /\ \A n \in 1..Len(rest) : Continues(r, w, rest, n)
<1> DEFINE all == BytesFrom(r, 1)
           rest == BytesFrom(r, w + 1)
           x == Character(r, 1)
           y == Character(r, 2)
<1> SUFFICES /\ Len(r) \in {1, 2} /\ all \in Seq(Places) /\ rest \in Seq(Places) /\ Len(all) >= Len(r)
             /\ OneByte(r) => Len(all) = Len(r) /\ \A n \in 1..Len(rest) : Continues(r, w, rest, n)
  OBVIOUS
<1>0. (Len(r) = 1 /\ all = x) \/ (Len(r) = 2 /\ BytesFrom(r, 2) = y /\ all = x \o y)
  BY BytesOf
<1>1. Len(r) = 1 \/ Len(r) = 2
  BY BytesOf
<1>2. 1 \in 1..Len(r)
  BY <1>1
<1>3. x \in Seq(Places) /\ Len(x) = r[1] /\ r[1] \in {1, 2} /\ DOMAIN r = 1..Len(r)
  BY <1>2, CharacterType
<1>4. Len(r) = 1 => all = x
  BY BytesOf
<1>5. Len(r) = 2 => all = x \o y /\ BytesFrom(r, 2) = y /\ y \in Seq(Places) /\ Len(y) = r[2] /\ r[2] \in {1, 2}
  <2> SUFFICES ASSUME Len(r) = 2 PROVE all = x \o y /\ BytesFrom(r, 2) = y /\ y \in Seq(Places) /\ Len(y) = r[2] /\ r[2] \in {1, 2}
    OBVIOUS
  <2>1. 2 \in 1..Len(r)
    OBVIOUS
  <2>2. y \in Seq(Places) /\ Len(y) = r[2] /\ r[2] \in {1, 2}
    BY <2>1, CharacterType
  <2>3. all = x \o y /\ BytesFrom(r, 2) = y
    <3> HIDE DEF all, x, y
    <3> QED BY <1>0
  <2> QED BY <2>2, <2>3
<1> HIDE DEF x, y
<1>6. all \in Seq(Places) /\ Len(all) = IF Len(r) = 1 THEN r[1] ELSE r[1] + r[2]
  <2> HIDE DEF all
  <2>1. CASE Len(r) = 1
    BY <1>3, <1>4, <2>1
  <2>2. CASE Len(r) = 2
    BY <1>3, <1>5, <2>2, ConcatProperties
  <2> QED BY <1>1, <2>1, <2>2
<1>7. OneByte(r) => r[1] = 1 /\ (Len(r) = 2 => r[2] = 1)
  BY <1>1, <1>3 DEF OneByte
<1>11. Len(all) >= Len(r) /\ (OneByte(r) => Len(all) = Len(r))
  <2> HIDE DEF all
  <2>1. CASE Len(r) = 1
    <3>1. Len(all) = r[1]
      BY <1>6, <2>1
    <3> QED BY <1>3, <1>7, <2>1, <3>1
  <2>2. CASE Len(r) = 2
    <3> DEFINE r1 == r[1]
               r2 == r[2]
    <3>1. Len(all) = r1 + r2 /\ r1 \in {1, 2} /\ r2 \in {1, 2} /\ (OneByte(r) => r1 = 1 /\ r2 = 1)
      BY <1>3, <1>5, <1>6, <1>7, <2>2
    <3> HIDE DEF r1, r2
    <3>2. r1 + r2 >= 2 /\ (r1 = 1 /\ r2 = 1 => r1 + r2 = 2)
      BY <3>1
    <3> QED BY <2>2, <3>1, <3>2
  <2> QED BY <1>1, <2>1, <2>2
<1>8. CASE w = 0
  <2>1. rest = all
    BY <1>8
  <2>2. ASSUME NEW n \in 1..Len(all), OneByte(r) PROVE Continues(r, w, rest, n)
    <3>1. Len(all) = Len(r)
      BY <1>11, <2>2
    <3>2. SubSeq(all, 1, n) \in Seq(Places)
      <4> HIDE DEF all
      <4>1. Len(all) \in Nat
        BY <1>6, LenProperties
      <4>2. \A i \in 1..n : all[i] \in Places
        BY <1>6, <4>1, ElementOfSeq
      <4> QED BY <4>1, <4>2, SubSeqProperties
    <3> DEFINE s == SubSeq(all, 1, n)
    <3>3. SubSeq(all, 1, 0) \o s = s
      <4> HIDE DEF all, s
      <4>1. SubSeq(all, 1, 0) = <<>>
        BY SubSeqEmpty
      <4>2. <<>> \o s = s
        BY <3>2, ConcatEmptySeq DEF s
      <4> QED BY <4>1, <4>2
    <3>4. w + n = n /\ n <= Len(r)
      BY <1>1, <1>8, <3>1
    <3> QED BY <1>8, <2>1, <3>3, <3>4 DEF Continues
  <2> HIDE DEF all, rest
  <2>4. OneByte(r) => \A n \in 1..Len(rest) : Continues(r, w, rest, n)
    BY <2>1, <2>2
  <2> QED BY <1>1, <1>6, <1>11, <2>1, <2>4
<1>9. CASE w = 1
  <2>1. Len(r) = 2
    BY <1>1, <1>9
  <2>2. rest = y
    BY <1>5, <1>9, <2>1
  <2>3. ASSUME OneByte(r), NEW n \in 1..Len(rest) PROVE Continues(r, w, rest, n)
    <3>1. Len(x) = 1 /\ Len(y) = 1 /\ n = 1
      BY <1>3, <1>5, <1>7, <2>1, <2>2, <2>3
    <3>2. SubSeq(all, 1, 1) = x
      <4>1. SubSeq(x \o y, 1, Len(x)) = x
        BY <1>3, <1>5, <2>1, <3>1, SubSeqOfConcat1, SubSeqFull
      <4> QED BY <1>5, <2>1, <3>1, <4>1
    <3>3. SubSeq(y, 1, 1) = y
      <4>1. SubSeq(y, 1, Len(y)) = y
        BY <1>5, <2>1, SubSeqFull
      <4> QED BY <3>1, <4>1
    <3>4. SubSeq(all, 1, 2) = all
      <4>1. Len(all) = 2
        BY <1>11, <2>1, <2>3
      <4>2. SubSeq(all, 1, Len(all)) = all
        BY <1>6, SubSeqFull
      <4> QED BY <4>1, <4>2
    <3>5. w + n = 2 /\ n = 1
      BY <1>9, <3>1
    <3> QED BY <1>5, <1>9, <2>1, <2>2, <3>2, <3>3, <3>4, <3>5 DEF Continues
  <2> HIDE DEF all, rest
  <2> QED BY <1>1, <1>5, <1>6, <1>11, <2>1, <2>2, <2>3
<1>10. w = 0 \/ w = 1
  <2>1. CASE Len(r) = 1
    BY <2>1
  <2>2. CASE Len(r) = 2
    BY <2>2
  <2> QED BY <1>1, <2>1, <2>2
<1> QED BY <1>8, <1>9, <1>10

----------------------------------------------------------------------------
(* The invariant of the connections.                                         *)

Read == SubSeq(so.sent, 1, so.read)

\* What was read is cut into the requests and what waits for its terminator.
StreamIsCut ==
    /\ so.read <= Len(so.sent) /\ Len(so.sent) <= SendLimit /\ Len(so.requests) <= so.read
    /\ IF so.registered THEN OpenPieces(so.list) /\ \E a \in 0..Len(Read) : Cut(so.list, so.requests, Read, a)
       ELSE AreRequestsIn(so.requests, Read, TRUE)

\* One result for each request.
AnswersFollow ==
    /\ so.answered <= Len(so.requests)
    /\ so.writing => so.answered < Len(so.requests) /\ so.result \in CnResults

\* What the client has got of the result that is written.
WritesGoOn ==
    /\ so.writing /\ ~so.partial =>
          IF so.written = 0 THEN so.got = <<>> ELSE so.written >= Len(so.result) /\ so.got = BytesFrom(so.result, 1)
    /\ so.writing /\ OneByte(so.result) =>
          so.written <= Len(so.result) /\ so.got = SubSeq(BytesFrom(so.result, 1), 1, so.written)
    /\ ResultWhole

\* No more files come than ArrivalLimit.
FilesAreCounted ==
    /\ ListIsTrue
    /\ fi.arrived["request"] + fi.arrived["malformed"] + fi.arrived["empty"] <= ArrivalLimit

CnIInv == CnTypeOK /\ StreamIsCut /\ AnswersFollow /\ WritesGoOn /\ FilesAreCounted

\* What was read is a part of what was sent.
LEMMA ReadType ==
    ASSUME CnTypeOK, StreamIsCut
    PROVE  Read \in Seq(CnByte) /\ Len(Read) = so.read /\ so.read \in 0..SendLimit /\ so.read <= Len(so.sent)
           /\ so.sent \in Seq(CnByte) /\ Len(so.sent) \in Nat /\ so.read \in Nat
<1>1. so.sent \in Seq(CnByte) /\ so.read \in 0..SendLimit /\ so.read <= Len(so.sent)
  BY DEF CnTypeOK, CnSocket, StreamIsCut
<1>2. Len(so.sent) \in Nat
  BY <1>1, LenProperties
<1>3. so.read \in Nat
  BY <1>1, ConnectionAssumption
<1>4. \A i \in 1..so.read : so.sent[i] \in CnByte
  <2> SUFFICES ASSUME NEW i \in 1..so.read PROVE so.sent[i] \in CnByte
    OBVIOUS
  <2>1. i \in 1..Len(so.sent)
    BY <1>1, <1>2, <1>3
  <2> QED BY <1>1, <2>1, ElementOfSeq
<1>5. Read \in Seq(CnByte) /\ Len(Read) = IF 1 <= so.read THEN so.read - 1 + 1 ELSE 0
  BY <1>3, <1>4, SubSeqProperties DEF Read
<1> QED BY <1>1, <1>2, <1>3, <1>5

\* A stream that is cut has the requests that were sent.
LEMMA PiecesAndRequests ==
    ASSUME CnTypeOK, StreamIsCut
    PROVE  RequestsAsSent /\ PiecesAreOpen
<1>1. Read \in Seq(CnByte)
  BY ReadType
<1>2. so.list \in Seq(Seq(CnByte)) /\ so.registered \in BOOLEAN
  BY DEF CnTypeOK, CnSocket
<1>3. CASE so.registered
  <2>1. OpenPieces(so.list)
    BY <1>3 DEF StreamIsCut
  <2> PICK a \in 0..Len(Read) : Cut(so.list, so.requests, Read, a)
    BY <1>3 DEF StreamIsCut
  <2>2. \A i \in (a + 1)..Len(Read) : Read[i] # CnZero
    BY <1>1, <1>2, <2>1, NoneBehind
  <2>3. SplitBy(so.requests, Read, SegmentsTo(Read, a))
    BY DEF Cut
  <2>4. AreRequestsIn(so.requests, Read, FALSE)
    BY <1>1, <2>2, <2>3, SplitIsRequests
  <2>5. ~so.registered <=> FALSE
    BY <1>3
  <2>6. RequestsAsSent
    <3>1. (~so.registered) = FALSE
      BY <1>2, <1>3
    <3> QED BY <2>4, <3>1 DEF RequestsAsSent, Read
  <2>7. PiecesAreOpen
    <3> SUFFICES ASSUME NEW k \in DOMAIN so.list PROVE so.list[k] # <<>> /\ ~Contains(so.list[k], CnZero)
      BY DEF PiecesAreOpen
    <3>1. k \in 1..Len(so.list)
      BY <1>2, LenProperties
    <3>2. so.list[k] \in Seq(Filled) /\ so.list[k] # <<>>
      BY <2>1, <3>1 DEF OpenPieces, Open
    <3>3. \A i \in 1..Len(so.list[k]) : so.list[k][i] \in Filled
      BY <3>2, ElementOfSeq
    <3> QED BY <3>2, <3>3, Bytes DEF Contains
  <2> QED BY <2>6, <2>7
<1>4. CASE ~so.registered
  <2>1. (~so.registered) = TRUE
    BY <1>2, <1>4
  <2> QED BY <1>4, <2>1 DEF StreamIsCut, RequestsAsSent, PiecesAreOpen, Read
<1> QED BY <1>3, <1>4

\* Before the first read nothing is cut.
LEMMA NothingCut ==
    Cut(<<>>, <<>>, <<>>, 0) /\ OpenPieces(<<>>)
<1>1. FlattenSeq(<<>>) = <<>> /\ SubSeq(<<>>, 1, 0) = <<>> /\ Len(<<>>) = 0 /\ DOMAIN <<>> = {}
  BY SubSeqEmpty DEF FlattenSeq
<1>2. SegmentsTo(<<>>, 0) = {}
  BY DEF SegmentsTo
<1>3. SplitBy(<<>>, <<>>, {})
  <2>1. [k \in DOMAIN <<>> |-> 1] \in [DOMAIN <<>> -> {}]
    BY <1>1
  <2> QED BY <1>1, <2>1 DEF SplitBy
<1>4. SubSeq(<<>>, 0 + 1, Len(<<>>)) = <<>> /\ 0 \in 0..Len(<<>>) /\ Len(<<>>) <= 0 /\ ~(0 > 0)
  <2>1. 0 + 1 = 1
    OBVIOUS
  <2> QED BY <1>1, <2>1
<1>5. Cut(<<>>, <<>>, <<>>, 0)
  BY <1>1, <1>2, <1>3, <1>4, Zenon DEF Cut
<1>6. OpenPieces(<<>>)
  BY <1>1 DEF OpenPieces
<1> QED BY <1>5, <1>6

\* The invariant holds of a new connection.
LEMMA InitHolds == CnInit => CnIInv
<1> SUFFICES ASSUME CnInit PROVE CnIInv
  OBVIOUS
<1>1. CnTypeOK
  BY ConnectionAssumption DEF CnInit, CnTypeOK, CnSocket, CnFiles, FileContents
<1>2. Read = <<>>
  BY SubSeqEmpty DEF CnInit, Read
<1>3. StreamIsCut
  <2>1. so.read = 0 /\ so.sent = <<>> /\ so.requests = <<>> /\ so.list = <<>> /\ so.registered
    BY DEF CnInit
  <2>2. \E a \in 0..Len(Read) : Cut(so.list, so.requests, Read, a)
    <3>1. 0 \in 0..Len(Read)
      BY <1>2
    <3> QED BY <1>2, <2>1, <3>1, NothingCut
  <2> QED BY <2>1, <2>2, NothingCut, ConnectionAssumption DEF StreamIsCut
<1>4. AnswersFollow /\ WritesGoOn /\ FilesAreCounted
  BY ConnectionAssumption DEF CnInit, AnswersFollow, WritesGoOn, ResultWhole, FilesAreCounted, ListIsTrue, FileContents
<1> QED BY <1>1, <1>3, <1>4 DEF CnIInv

\* What the client sends is read later.
LEMMA SendKeeps ==
    ASSUME CnIInv, CnSend
    PROVE  CnIInv'
<1>1. PICK b \in {CnZero, Len(so.sent) + 1} : so' = [so EXCEPT !.sent = Append(@, b)]
  BY DEF CnSend
<1>2. CnTypeOK /\ StreamIsCut
  BY DEF CnIInv
<1>3. /\ so.sent \in Seq(CnByte) /\ Len(so.sent) \in Nat /\ so.read \in Nat /\ so.read <= Len(so.sent)
  BY <1>2, ReadType
<1>4. b \in CnByte
  BY <1>3, ConnectionAssumption DEF CnSend, CnByte, CnZero
<1> DEFINE new == Append(so.sent, b)
<1>5. new \in Seq(CnByte) /\ Len(new) = Len(so.sent) + 1 /\ \A i \in 1..Len(so.sent) : new[i] = so.sent[i]
  BY <1>3, <1>4, AppendProperties
<1>6. so' = [so EXCEPT !.sent = new] /\ fi' = fi
  BY <1>1 DEF CnSend
<1> HIDE DEF new
<1>7. CnTypeOK'
  BY <1>2, <1>5, <1>6 DEF CnTypeOK, CnSocket
<1>8. /\ so'.sent = new /\ so'.read = so.read /\ so'.list = so.list /\ so'.requests = so.requests
      /\ so'.registered = so.registered
  BY <1>2, <1>6 DEF CnTypeOK, CnSocket
<1>9. Read' = Read
  <2>1. Read = [i \in 1..so.read |-> so.sent[i]]
    BY <1>3 DEF Read, SubSeq
  <2>2. Read' = [i \in 1..so.read |-> new[i]]
    BY <1>3, <1>8 DEF Read, SubSeq
  <2>3. \A i \in 1..so.read : new[i] = so.sent[i]
    BY <1>3, <1>5
  <2> QED BY <2>1, <2>2, <2>3
<1>10. StreamIsCut'
  <2>1. so.read <= Len(new) /\ Len(new) <= SendLimit
    BY <1>3, <1>5, ConnectionAssumption DEF CnSend
  <2> QED BY <1>2, <1>8, <1>9, <2>1 DEF StreamIsCut
<1>11. AnswersFollow' /\ WritesGoOn' /\ FilesAreCounted'
  BY <1>2, <1>6 DEF CnIInv, CnTypeOK, CnSocket, AnswersFollow, WritesGoOn, ResultWhole, FilesAreCounted, ListIsTrue
<1> QED BY <1>7, <1>10, <1>11 DEF CnIInv

\* A read goes on where the last one ended, and its loop ends with open pieces.
LEMMA ReceivedKeeps ==
    ASSUME CnIInv, CnReceived
    PROVE  CnIInv'
<1>1. PICK n \in 1..ReadMax :
         /\ so.read + n <= Len(so.sent)
         /\ LET chunk == SubSeq(so.sent, so.read + 1, so.read + n)
                rest == Rinse(Append(so.list, chunk), so.requests)
            IN so' = [so EXCEPT !.read = @ + n, !.list = rest.list, !.requests = rest.requests]
  BY DEF CnReceived
<1> DEFINE chunk == SubSeq(so.sent, so.read + 1, so.read + n)
           rest == Rinse(Append(so.list, chunk), so.requests)
<1>2. CnTypeOK /\ StreamIsCut /\ so.registered /\ ~so.writing /\ fi' = fi
  BY DEF CnIInv, CnReceived, CnOpen
<1>3. /\ Read \in Seq(CnByte) /\ so.sent \in Seq(CnByte) /\ Len(so.sent) \in Nat /\ so.read \in Nat
      /\ so.read <= Len(so.sent) /\ Len(Read) = so.read
  BY <1>2, ReadType
<1>4. n \in Nat /\ n > 0 /\ so.read + n <= Len(so.sent) /\ Len(so.sent) <= SendLimit /\ SendLimit \in Nat
  BY <1>1, <1>2, ConnectionAssumption DEF StreamIsCut
<1>5. chunk \in Seq(CnByte) /\ chunk # <<>>
  <2>1. \A i \in (so.read + 1)..(so.read + n) : so.sent[i] \in CnByte
    <3> SUFFICES ASSUME NEW i \in (so.read + 1)..(so.read + n) PROVE so.sent[i] \in CnByte
      OBVIOUS
    <3>1. i \in 1..Len(so.sent)
      BY <1>3, <1>4
    <3> QED BY <1>3, <3>1, ElementOfSeq
  <2>2. chunk \in Seq(CnByte) /\ Len(chunk) = IF so.read + 1 <= so.read + n THEN so.read + n - (so.read + 1) + 1 ELSE 0
    BY <1>3, <1>4, <2>1, SubSeqProperties
  <2> HIDE DEF chunk
  <2>3. Len(chunk) # 0
    BY <1>3, <1>4, <2>2
  <2> QED BY <2>2, <2>3
<1>6. Read \o chunk = SubSeq(so.sent, 1, so.read + n)
  <2>1. 1 \in 1..(Len(so.sent) + 1) /\ so.read \in (1 - 1)..Len(so.sent) /\ so.read + n \in so.read..Len(so.sent)
    BY <1>3, <1>4
  <2> QED BY <1>3, <2>1, ConcatAdjacentSubSeq DEF Read
<1> HIDE DEF chunk
<1>7. so.list \in Seq(Seq(CnByte)) /\ so.requests \in Seq(Seq(CnByte)) /\ OpenPieces(so.list)
  BY <1>2 DEF CnTypeOK, CnSocket, StreamIsCut
<1>8. PICK a \in 0..Len(Read) : Cut(so.list, so.requests, Read, a)
  BY <1>2 DEF StreamIsCut
<1> DEFINE T == Read \o chunk
<1>9. T \in Seq(CnByte) /\ Len(T) = so.read + n
  <2>1. Len(chunk) = n
    <3>1. \A i \in (so.read + 1)..(so.read + n) : so.sent[i] \in CnByte
      <4> SUFFICES ASSUME NEW i \in (so.read + 1)..(so.read + n) PROVE so.sent[i] \in CnByte
        OBVIOUS
      <4>1. i \in 1..Len(so.sent)
        BY <1>3, <1>4
      <4> QED BY <1>3, <4>1, ElementOfSeq
    <3>2. Len(chunk) = IF so.read + 1 <= so.read + n THEN so.read + n - (so.read + 1) + 1 ELSE 0
      BY <1>3, <1>4, <3>1, SubSeqProperties DEF chunk
    <3> QED BY <1>3, <1>4, <3>2
  <2> DEFINE r == Read
  <2>2. r \in Seq(CnByte) /\ Len(r) = so.read
    BY <1>3
  <2> HIDE DEF r
  <2>3. r \o chunk \in Seq(CnByte) /\ Len(r \o chunk) = Len(r) + Len(chunk)
    BY <1>5, <2>2, ConcatProperties
  <2> QED BY <2>1, <2>2, <2>3 DEF r
<1>10. InLoop([list |-> Append(so.list, chunk), requests |-> so.requests], T, Len(so.requests))
  BY <1>3, <1>5, <1>7, <1>8, ReadExtends
<1>11. Append(so.list, chunk) \in Seq(Seq(CnByte))
  BY <1>5, <1>7, AppendProperties
<1> HIDE DEF T
<1>12. /\ rest \in Passes /\ OpenPieces(rest.list) /\ Len(so.requests) <= Len(rest.requests)
       /\ \E c \in 0..Len(T) : Cut(rest.list, rest.requests, T, c)
  <2>1. Len(so.requests) \in Nat
    BY <1>7, LenProperties
  <2> QED BY <1>7, <1>9, <1>10, <1>11, <2>1, RinseKeeps
<1>13. so' = [so EXCEPT !.read = @ + n, !.list = rest.list, !.requests = rest.requests]
  BY <1>1 DEF chunk
<1> HIDE DEF rest
<1>14. rest.list \in Seq(Seq(CnByte)) /\ rest.requests \in Seq(Seq(CnByte))
  BY <1>12 DEF Passes
<1>15. so.read + n \in 0..SendLimit
  BY <1>3, <1>4
<1>16. CnTypeOK'
  BY <1>2, <1>13, <1>14, <1>15 DEF CnTypeOK, CnSocket
<1>17. /\ so'.read = so.read + n /\ so'.list = rest.list /\ so'.requests = rest.requests /\ so'.sent = so.sent
       /\ so'.registered /\ so'.answered = so.answered /\ ~so'.writing
  BY <1>2, <1>13 DEF CnTypeOK, CnSocket
<1>18. Read' = T
  BY <1>6, <1>17 DEF Read, T
<1>19. Len(rest.requests) <= so.read + n
  <2> PICK c \in 0..Len(T) : Cut(rest.list, rest.requests, T, c)
    BY <1>12
  <2>1. Len(rest.requests) <= c /\ Len(rest.requests) \in Nat
    BY <1>14, LenProperties DEF Cut
  <2> QED BY <1>3, <1>4, <1>9, <2>1
<1>20. StreamIsCut'
  BY <1>4, <1>12, <1>17, <1>18, <1>19 DEF StreamIsCut
<1>21. AnswersFollow'
  <2>1. so.answered \in Nat /\ so.answered <= Len(so.requests)
    BY <1>2, ConnectionAssumption DEF CnIInv, AnswersFollow, CnTypeOK, CnSocket
  <2>2. Len(so.requests) \in Nat /\ Len(rest.requests) \in Nat
    BY <1>7, <1>14, LenProperties
  <2>3. so.answered <= Len(rest.requests)
    BY <1>12, <2>1, <2>2
  <2> QED BY <1>17, <2>3 DEF AnswersFollow
<1>22. WritesGoOn' /\ FilesAreCounted'
  BY <1>2, <1>13 DEF CnIInv, CnTypeOK, CnSocket, WritesGoOn, ResultWhole, FilesAreCounted, ListIsTrue
<1> QED BY <1>16, <1>20, <1>21, <1>22 DEF CnIInv

\* The end of the stream ends its last request.
LEMMA EofKeeps ==
    ASSUME CnIInv, CnEof
    PROVE  CnIInv'
<1> DEFINE rest == FlattenSeq(so.list)
           new == Emitted(so.requests, rest)
<1>1. CnTypeOK /\ StreamIsCut /\ so.registered /\ ~so.writing /\ fi' = fi
  BY DEF CnIInv, CnEof, CnOpen
<1>2. Read \in Seq(CnByte) /\ Len(Read) = so.read /\ so.read \in Nat
  BY <1>1, ReadType
<1>3. so.list \in Seq(Seq(CnByte)) /\ so.requests \in Seq(Seq(CnByte)) /\ OpenPieces(so.list)
  BY <1>1 DEF CnTypeOK, CnSocket, StreamIsCut
<1>4. PICK a \in 0..Len(Read) : Cut(so.list, so.requests, Read, a)
  BY <1>1 DEF StreamIsCut
<1>5. \A i \in (a + 1)..Len(Read) : Read[i] # CnZero
  BY <1>2, <1>3, <1>4, NoneBehind
<1>6. rest = SubSeq(Read, a + 1, Len(Read))
  BY <1>4 DEF Cut
<1>7. new \in Seq(Seq(CnByte)) /\ Len(new) <= Len(Read) /\ AreRequestsIn(new, Read, TRUE)
  BY <1>2, <1>3, <1>4, <1>5, <1>6, SplitAtEnd DEF Cut
<1>8. Len(new) \in Nat /\ Len(so.requests) \in Nat /\ Len(so.requests) <= Len(new)
  <2>1. Len(so.requests) \in Nat /\ Len(new) \in Nat
    BY <1>3, <1>7, LenProperties
  <2>2. new = so.requests \/ Len(new) = Len(so.requests) + 1
    BY DEF Emitted
  <2> HIDE DEF new
  <2> QED BY <2>1, <2>2
<1>9. so' = [so EXCEPT !.registered = FALSE, !.requests = new]
  BY DEF CnEof
<1> HIDE DEF new
<1>10. CnTypeOK'
  BY <1>1, <1>7, <1>9 DEF CnTypeOK, CnSocket
<1>11. /\ so'.read = so.read /\ so'.requests = new /\ so'.sent = so.sent /\ ~so'.registered
       /\ so'.answered = so.answered /\ ~so'.writing
  BY <1>1, <1>9 DEF CnTypeOK, CnSocket
<1>12. Read' = Read
  BY <1>11 DEF Read
<1>13. StreamIsCut'
  BY <1>1, <1>2, <1>7, <1>11, <1>12 DEF StreamIsCut
<1>14. AnswersFollow'
  <2>1. so.answered \in Nat /\ so.answered <= Len(so.requests)
    BY <1>1, ConnectionAssumption DEF CnIInv, AnswersFollow, CnTypeOK, CnSocket
  <2>2. so.answered <= Len(new)
    BY <1>8, <2>1
  <2> QED BY <1>11, <2>2 DEF AnswersFollow
<1>15. WritesGoOn' /\ FilesAreCounted'
  BY <1>1, <1>9 DEF CnIInv, CnTypeOK, CnSocket, WritesGoOn, ResultWhole, FilesAreCounted, ListIsTrue
<1> QED BY <1>10, <1>13, <1>14, <1>15 DEF CnIInv

\* The client closes, the connection is reset or a result cannot be written.
LEMMA EndKeeps ==
    ASSUME CnIInv, CnClose \/ CnReset \/ CnWriteFails
    PROVE  CnIInv'
<1>1. (so' = [so EXCEPT !.closed = TRUE] \/ so' = [so EXCEPT !.alive = FALSE]) /\ fi' = fi
  BY DEF CnClose, CnReset, CnWriteFails
<1>2. CnTypeOK /\ StreamIsCut /\ AnswersFollow /\ WritesGoOn /\ FilesAreCounted
  BY DEF CnIInv
<1>3. CnTypeOK'
  BY <1>1, <1>2 DEF CnTypeOK, CnSocket
<1>4. /\ so'.registered = so.registered /\ so'.sent = so.sent /\ so'.read = so.read /\ so'.list = so.list
      /\ so'.requests = so.requests /\ so'.answered = so.answered /\ so'.writing = so.writing
      /\ so'.result = so.result /\ so'.written = so.written /\ so'.partial = so.partial /\ so'.got = so.got
  BY <1>1, <1>2 DEF CnTypeOK, CnSocket
<1>5. StreamIsCut'
  BY <1>2, <1>4 DEF StreamIsCut, Read
<1>6. AnswersFollow' /\ WritesGoOn' /\ FilesAreCounted'
  BY <1>1, <1>2, <1>4 DEF AnswersFollow, WritesGoOn, ResultWhole, FilesAreCounted, ListIsTrue
<1> QED BY <1>3, <1>5, <1>6 DEF CnIInv

\* A result has one or two characters.
LEMMA ResultType ==
    ASSUME NEW r \in CnResults
    PROVE  Len(r) \in {1, 2} /\ DOMAIN r = 1..Len(r) /\ r # <<>>
<1>1. Len(r) \in {1, 2}
  BY BytesOf
<1>2. 1 \in 1..Len(r)
  BY <1>1
<1>3. DOMAIN r = 1..Len(r)
  BY <1>2, CharacterType
<1> QED BY <1>1, <1>2, <1>3

\* A result is written from its beginning.
LEMMA EmitKeeps ==
    ASSUME CnIInv, CnEmitResult
    PROVE  CnIInv'
<1>1. PICK r \in CnResults :
        so' = [so EXCEPT !.writing = TRUE, !.result = r, !.written = 0, !.partial = FALSE, !.got = <<>>]
  BY DEF CnEmitResult
<1>2. CnTypeOK /\ StreamIsCut /\ AnswersFollow /\ FilesAreCounted /\ so.answered < Len(so.requests) /\ fi' = fi
  BY DEF CnIInv, CnEmitResult
<1>3. <<>> \in Seq((1..2) \X (0..2))
  BY EmptySeq
<1>4. CnTypeOK'
  BY <1>1, <1>2, <1>3 DEF CnTypeOK, CnSocket
<1>5. /\ so'.registered = so.registered /\ so'.sent = so.sent /\ so'.read = so.read /\ so'.list = so.list
      /\ so'.requests = so.requests /\ so'.answered = so.answered /\ so'.writing
      /\ so'.result = r /\ so'.written = 0 /\ ~so'.partial /\ so'.got = <<>>
  BY <1>1, <1>2 DEF CnTypeOK, CnSocket
<1>6. StreamIsCut'
  BY <1>2, <1>5 DEF StreamIsCut, Read
<1>7. AnswersFollow' /\ FilesAreCounted'
  BY <1>2, <1>5 DEF AnswersFollow, FilesAreCounted, ListIsTrue
<1>8. WritesGoOn'
  <2>1. Len(r) \in {1, 2}
    BY ResultType
  <2>2. SubSeq(BytesFrom(r, 1), 1, 0) = <<>>
    BY SubSeqEmpty
  <2> QED BY <1>5, <2>1, <2>2 DEF WritesGoOn, ResultWhole
<1> QED BY <1>4, <1>6, <1>7, <1>8 DEF CnIInv

\* What the socket takes goes on with what it has taken.
LEMMA WriteKeeps ==
    ASSUME CnIInv, CnWrite
    PROVE  CnIInv'
<1> DEFINE r == so.result
           w == so.written
           all == BytesFrom(r, 1)
           rest == BytesFrom(r, w + 1)
<1>1. PICK n \in 1..Len(rest) :
        so' = [so EXCEPT !.written = @ + n, !.got = @ \o SubSeq(rest, 1, n), !.partial = @ \/ n < Len(rest)]
  BY DEF CnWrite
<1>2. CnTypeOK /\ StreamIsCut /\ AnswersFollow /\ WritesGoOn /\ FilesAreCounted /\ so.writing /\ w < Len(r) /\ fi' = fi
  BY DEF CnIInv, CnWrite
<1>3. r \in CnResults /\ w \in Nat /\ so.got \in Seq(Places)
  BY <1>2 DEF CnTypeOK, CnSocket, AnswersFollow, Places
<1> HIDE DEF r, w
<1>4. /\ Len(r) \in {1, 2} /\ all \in Seq(Places) /\ rest \in Seq(Places) /\ Len(all) >= Len(r)
      /\ OneByte(r) => Len(all) = Len(r) /\ \A k \in 1..Len(rest) : Continues(r, w, rest, k)
  BY <1>2, <1>3, BytesGoOn
<1>5. w = 0 => rest = all
  BY DEF rest
<1> DEFINE piece == SubSeq(rest, 1, n)
           got == so.got \o piece
<1> HIDE DEF all, rest
<1>6. n \in Nat /\ n > 0 /\ n <= Len(rest) /\ Len(rest) \in Nat /\ Len(all) \in Nat /\ Len(r) \in Nat
  <2>1. Len(rest) \in Nat /\ Len(all) \in Nat
    BY <1>4, LenProperties
  <2> QED BY <1>4, <2>1
<1>7. piece \in Seq(Places)
  <2>1. \A i \in 1..n : rest[i] \in Places
    <3> SUFFICES ASSUME NEW i \in 1..n PROVE rest[i] \in Places
      OBVIOUS
    <3>1. i \in 1..Len(rest)
      BY <1>6
    <3> QED BY <1>4, <3>1, ElementOfSeq
  <2> QED BY <1>6, <2>1, SubSeqProperties
<1>8. got \in Seq(Places)
  <2> HIDE DEF piece
  <2> QED BY <1>3, <1>7, ConcatProperties
<1>9. so' = [so EXCEPT !.written = w + n, !.got = got, !.partial = so.partial \/ n < Len(rest)]
  BY <1>1 DEF w
<1> HIDE DEF got
<1>10. w + n \in Nat
  BY <1>3, <1>6
<1> DEFINE short == so.partial \/ n < Len(rest)
<1>11. short \in BOOLEAN
  BY <1>2 DEF CnTypeOK, CnSocket
<1>12. so' = [so EXCEPT !.written = w + n, !.got = got, !.partial = short]
  BY <1>9
<1>13. ~short => ~so.partial /\ n = Len(rest)
  BY <1>6
<1> HIDE DEF short
<1>14. CnTypeOK'
  BY <1>2, <1>8, <1>10, <1>11, <1>12 DEF CnTypeOK, CnSocket, Places
<1>15. /\ so'.registered = so.registered /\ so'.sent = so.sent /\ so'.read = so.read /\ so'.list = so.list
       /\ so'.requests = so.requests /\ so'.answered = so.answered /\ so'.writing
       /\ so'.result = r /\ so'.written = w + n /\ so'.partial = short /\ so'.got = got
  BY <1>2, <1>12 DEF CnTypeOK, CnSocket, r
<1>16. StreamIsCut'
  BY <1>2, <1>15 DEF StreamIsCut, Read
<1>17. AnswersFollow' /\ FilesAreCounted'
  BY <1>2, <1>3, <1>15 DEF AnswersFollow, FilesAreCounted, ListIsTrue
<1>18. ~short => w + n >= Len(r) /\ got = all /\ w + n # 0
  <2> SUFFICES ASSUME ~short PROVE w + n >= Len(r) /\ got = all /\ w + n # 0
    OBVIOUS
  <2>1. ~so.partial /\ n = Len(rest)
    BY <1>13
  <2>2. w = 0 /\ so.got = <<>>
    BY <1>2, <1>3, <1>4, <2>1 DEF WritesGoOn, r, w
  <2>3. n = Len(all)
    BY <1>5, <2>1, <2>2
  <2>4. SubSeq(all, 1, Len(all)) = all /\ <<>> \o all = all
    BY <1>4, SubSeqFull, ConcatEmptySeq
  <2>5. got = all
    BY <1>5, <2>2, <2>3, <2>4 DEF got
  <2> QED BY <1>4, <1>6, <2>2, <2>3, <2>5
<1>19. OneByte(r) => w + n <= Len(r) /\ got = SubSeq(all, 1, w + n)
  <2> SUFFICES ASSUME OneByte(r) PROVE w + n <= Len(r) /\ got = SubSeq(all, 1, w + n)
    OBVIOUS
  <2>1. so.got = SubSeq(all, 1, w)
    BY <1>2 DEF WritesGoOn, r, w, all
  <2>2. Continues(r, w, rest, n)
    BY <1>4
  <2> QED BY <2>1, <2>2 DEF Continues, got, all
<1>20. WritesGoOn'
  BY <1>15, <1>18, <1>19 DEF WritesGoOn, ResultWhole, all
<1> QED BY <1>14, <1>16, <1>17, <1>20 DEF CnIInv

\* A result ends with a terminator when all of it is written.
LEMMA TerminateKeeps ==
    ASSUME CnIInv, CnTerminate
    PROVE  CnIInv'
<1> DEFINE r == so.result
           all == BytesFrom(r, 1)
           got == Append(so.got, <<1, 0>>)
<1>1. CnTypeOK /\ StreamIsCut /\ AnswersFollow /\ WritesGoOn /\ FilesAreCounted /\ so.writing /\ so.written >= Len(r) /\ fi' = fi
  BY DEF CnIInv, CnTerminate
<1>2. r \in CnResults /\ so.written \in Nat /\ so.got \in Seq((1..2) \X (0..2))
  BY <1>1 DEF CnTypeOK, CnSocket, AnswersFollow
<1>3. so' = [so EXCEPT !.writing = FALSE, !.answered = @ + 1, !.got = got]
  BY DEF CnTerminate
<1>4. got \in Seq((1..2) \X (0..2))
  <2>1. <<1, 0>> \in (1..2) \X (0..2)
    OBVIOUS
  <2> QED BY <1>2, <2>1, AppendProperties
<1>5. so.answered + 1 \in 0..SendLimit /\ so.answered + 1 <= Len(so.requests)
  <2>1. so.answered \in Nat /\ so.answered < Len(so.requests)
    BY <1>1, ConnectionAssumption DEF AnswersFollow, CnTypeOK, CnSocket
  <2>2. Len(so.requests) \in Nat
    <3>1. so.requests \in Seq(Seq(CnByte))
      BY <1>1 DEF CnTypeOK, CnSocket
    <3> QED BY <3>1, LenProperties
  <2>3. Len(so.requests) <= so.read /\ so.read \in 0..SendLimit
    BY <1>1 DEF StreamIsCut, CnTypeOK, CnSocket
  <2> QED BY <2>1, <2>2, <2>3, ConnectionAssumption
<1>6. Len(r) \in Nat /\ Len(r) > 0
  <2> DEFINE n == Len(r)
  <2>1. n \in {1, 2}
    BY <1>2, ResultType
  <2> HIDE DEF n
  <2>2. n \in Nat /\ n > 0
    BY <2>1
  <2> QED BY <2>2 DEF n
<1>7. OneByte(r) \/ ~so.partial => so.got = all
  <2>1. CASE ~so.partial
    <3>1. IF so.written = 0 THEN so.got = <<>> ELSE so.written >= Len(r) /\ so.got = all
      BY <1>1, <2>1 DEF WritesGoOn
    <3>2. so.written # 0
      <4> HIDE DEF r
      <4> QED BY <1>1, <1>2, <1>6
    <3> QED BY <3>1, <3>2
  <2>2. CASE OneByte(r)
    <3>1. so.written <= Len(r) /\ so.got = SubSeq(all, 1, so.written)
      BY <1>1, <2>2 DEF WritesGoOn
    <3>2. so.written = Len(r)
      BY <1>1, <1>2, <1>6, <3>1
    <3>3. 0 \in Nat /\ 0 < Len(r)
      BY <1>6
    <3>4. all \in Seq(Places) /\ Len(all) = Len(r)
      <4> HIDE DEF r
      <4> QED BY <1>2, <2>2, <3>3, BytesGoOn
    <3>5. SubSeq(all, 1, Len(all)) = all
      <4> HIDE DEF all
      <4> QED BY <3>4, SubSeqFull
    <3> HIDE DEF all, r
    <3> QED BY <3>1, <3>2, <3>4, <3>5
  <2> QED BY <2>1, <2>2
<1> HIDE DEF got
<1>8. CnTypeOK'
  BY <1>1, <1>3, <1>4, <1>5 DEF CnTypeOK, CnSocket
<1>9. /\ so'.registered = so.registered /\ so'.sent = so.sent /\ so'.read = so.read /\ so'.list = so.list
      /\ so'.requests = so.requests /\ so'.answered = so.answered + 1 /\ ~so'.writing
      /\ so'.result = r /\ so'.partial = so.partial /\ so'.got = got
  BY <1>1, <1>3 DEF CnTypeOK, CnSocket
<1>10. StreamIsCut'
  BY <1>1, <1>9 DEF StreamIsCut, Read
<1>11. AnswersFollow' /\ FilesAreCounted'
  BY <1>1, <1>5, <1>9 DEF AnswersFollow, FilesAreCounted, ListIsTrue
<1>12. WritesGoOn'
  <2>1. (so.partial => OneByte(r)) => got = Append(all, <<1, 0>>)
    BY <1>7 DEF got
  <2> HIDE DEF all, r
  <2> QED BY <1>9, <2>1 DEF WritesGoOn, ResultWhole, OneByte, all
<1> QED BY <1>8, <1>10, <1>11, <1>12 DEF CnIInv

\* Of files no more come than ArrivalLimit, and each counter counts some of them.
LEMMA FilesKeep ==
    ASSUME CnIInv, FiNext
    PROVE  CnIInv'
<1>1. CnTypeOK /\ StreamIsCut /\ AnswersFollow /\ WritesGoOn /\ FilesAreCounted
  BY DEF CnIInv
<1>2. so' = so
  BY DEF FiNext, FiArrive, FiAnswer
<1>3. (so \in CnSocket)' /\ StreamIsCut' /\ AnswersFollow' /\ WritesGoOn'
  BY <1>1, <1>2 DEF CnTypeOK, StreamIsCut, Read, AnswersFollow, WritesGoOn, ResultWhole
<1>4. /\ fi \in CnFiles /\ fi.waiting \in Nat /\ fi.kept \in Nat /\ fi.list \in Nat /\ fi.results \in Nat
      /\ fi.unwritten \in Nat /\ ArrivalLimit \in Nat /\ fi.arrived \in [FileContents -> Nat]
      /\ fi.arrived["request"] \in Nat /\ fi.arrived["malformed"] \in Nat /\ fi.arrived["empty"] \in Nat
  BY <1>1, ConnectionAssumption DEF CnTypeOK, CnFiles, FileContents
<1>5. CASE FiAnswer
  <2>1. PICK f \in FileAnswered([fi EXCEPT !.waiting = @ - 1]) : fi' = f
    BY <1>5 DEF FiAnswer
  <2>2. fi.waiting > 0
    BY <1>5 DEF FiAnswer
  <2>3. /\ fi'.waiting = fi.waiting - 1 /\ fi'.kept = fi.kept /\ fi'.list = fi.list - 1 /\ fi'.arrived = fi.arrived
        /\ \/ fi'.results = fi.results + 1 /\ fi'.unwritten = fi.unwritten
           \/ fi'.results = fi.results /\ fi'.unwritten = fi.unwritten + 1
        /\ fi' = [waiting |-> fi'.waiting, kept |-> fi'.kept, list |-> fi'.list, results |-> fi'.results,
                  unwritten |-> fi'.unwritten, arrived |-> fi'.arrived]
    BY <1>4, <2>1 DEF FileAnswered, CnFiles
  <2>4. FilesAreCounted'
    BY <1>1, <1>4, <2>2, <2>3 DEF FilesAreCounted, ListIsTrue
  <2>5. fi' \in CnFiles
    <3>1. /\ fi'.waiting \in 0..ArrivalLimit /\ fi'.kept \in 0..ArrivalLimit /\ fi'.list \in 0..ArrivalLimit
          /\ fi'.results \in 0..ArrivalLimit /\ fi'.unwritten \in 0..ArrivalLimit
      BY <1>1, <1>4, <2>2, <2>3 DEF FilesAreCounted, ListIsTrue
    <3>2. fi'.arrived \in [FileContents -> 0..ArrivalLimit]
      BY <1>4, <2>3 DEF CnFiles
    <3> QED BY <2>3, <3>1, <3>2 DEF CnFiles
  <2> QED BY <1>3, <2>4, <2>5 DEF CnIInv, CnTypeOK
<1>6. ASSUME NEW content \in FileContents, FiArrive(content) PROVE CnIInv'
  <2> DEFINE new == [fi EXCEPT !.list = @ + 1, !.arrived[content] = @ + 1]
  <2>1. fi.arrived["request"] + fi.arrived["malformed"] + fi.arrived["empty"] < ArrivalLimit
    BY <1>6 DEF FiArrive
  <2> DEFINE Arrived == [FileContents -> Nat]
             Counters == [waiting : Nat, kept : Nat, list : Nat, results : Nat, unwritten : Nat, arrived : Arrived]
             arrived == [fi.arrived EXCEPT ![content] = @ + 1]
  <2>2. /\ new \in Counters
        /\ new.waiting = fi.waiting /\ new.kept = fi.kept /\ new.list = fi.list + 1 /\ new.results = fi.results
        /\ new.unwritten = fi.unwritten /\ new.arrived = arrived
    <3>1. fi.arrived[content] \in Nat
      BY <1>4
    <3>2. arrived \in Arrived
      BY <1>4, <3>1
    <3>4. fi \in Counters
      <4>1. fi = [waiting |-> fi.waiting, kept |-> fi.kept, list |-> fi.list, results |-> fi.results,
                  unwritten |-> fi.unwritten, arrived |-> fi.arrived]
        BY <1>4 DEF CnFiles
      <4>2. fi.arrived \in Arrived
        BY <1>4
      <4> HIDE DEF Arrived
      <4> QED BY <1>4, <4>1, <4>2
    <3> HIDE DEF arrived, Arrived
    <3>3. new = [fi EXCEPT !.list = @ + 1, !.arrived = arrived]
      BY <1>4 DEF CnFiles, arrived
    <3> HIDE DEF new
    <3>5. fi.list + 1 \in Nat
      BY <1>4
    <3> QED BY <3>2, <3>3, <3>4, <3>5
  <2> HIDE DEF arrived
  <2>9. /\ new.waiting = fi.waiting /\ new.kept = fi.kept /\ new.list = fi.list + 1 /\ new.results = fi.results
        /\ new.unwritten = fi.unwritten /\ new.arrived = arrived
    BY <2>2
  <2>3. \/ content = "empty" /\ fi' = [new EXCEPT !.kept = @ + 1]
        \/ content = "malformed" /\ fi' \in FileAnswered(new)
        \/ content = "request" /\ fi' = [new EXCEPT !.waiting = @ + 1]
    BY <1>6 DEF FiArrive, FileContents
  <2> HIDE DEF new
  <2>4. /\ fi'.arrived = arrived
        /\ fi' = [waiting |-> fi'.waiting, kept |-> fi'.kept, list |-> fi'.list, results |-> fi'.results,
                  unwritten |-> fi'.unwritten, arrived |-> fi'.arrived]
        /\ \/ /\ content = "empty" /\ fi'.kept = fi.kept + 1 /\ fi'.list = fi.list + 1
              /\ fi'.waiting = fi.waiting /\ fi'.results = fi.results /\ fi'.unwritten = fi.unwritten
           \/ /\ content = "malformed" /\ fi'.kept = fi.kept /\ fi'.list = fi.list /\ fi'.waiting = fi.waiting
              /\ \/ fi'.results = fi.results + 1 /\ fi'.unwritten = fi.unwritten
                 \/ fi'.results = fi.results /\ fi'.unwritten = fi.unwritten + 1
           \/ /\ content = "request" /\ fi'.kept = fi.kept /\ fi'.list = fi.list + 1
              /\ fi'.waiting = fi.waiting + 1 /\ fi'.results = fi.results /\ fi'.unwritten = fi.unwritten
    <3>1. CASE content = "empty"
      <4>1. fi' = [new EXCEPT !.kept = @ + 1]
        BY <2>3, <3>1
      <4> QED BY <2>2, <3>1, <4>1
    <3>2. CASE content = "request"
      <4>1. fi' = [new EXCEPT !.waiting = @ + 1]
        BY <2>3, <3>2
      <4> QED BY <2>2, <3>2, <4>1
    <3>3. CASE content = "malformed"
      <4>1. PICK f \in FileAnswered(new) : fi' = f
        BY <2>3, <3>3
      <4>2. \/ fi' = [new EXCEPT !.results = @ + 1, !.list = @ - 1]
            \/ fi' = [new EXCEPT !.unwritten = @ + 1, !.list = @ - 1]
        BY <4>1 DEF FileAnswered
      <4> HIDE DEF Arrived
      <4>3. CASE fi' = [new EXCEPT !.results = @ + 1, !.list = @ - 1]
        <5>1. /\ fi'.arrived = new.arrived /\ fi'.kept = new.kept /\ fi'.list = new.list - 1
              /\ fi'.waiting = new.waiting /\ fi'.results = new.results + 1 /\ fi'.unwritten = new.unwritten
              /\ fi' = [waiting |-> fi'.waiting, kept |-> fi'.kept, list |-> fi'.list, results |-> fi'.results,
                        unwritten |-> fi'.unwritten, arrived |-> fi'.arrived]
          BY <2>2, <4>3
        <5>2. /\ fi'.arrived = arrived /\ fi'.kept = fi.kept /\ fi'.list = fi.list /\ fi'.waiting = fi.waiting
              /\ fi'.results = fi.results + 1 /\ fi'.unwritten = fi.unwritten
          BY <1>4, <2>9, <5>1
        <5>3. content = "malformed"
          BY <3>3
        <5> QED BY <5>1, <5>2, <5>3
      <4>4. CASE fi' = [new EXCEPT !.unwritten = @ + 1, !.list = @ - 1]
        <5>1. /\ fi'.arrived = new.arrived /\ fi'.kept = new.kept /\ fi'.list = new.list - 1
              /\ fi'.waiting = new.waiting /\ fi'.results = new.results /\ fi'.unwritten = new.unwritten + 1
              /\ fi' = [waiting |-> fi'.waiting, kept |-> fi'.kept, list |-> fi'.list, results |-> fi'.results,
                        unwritten |-> fi'.unwritten, arrived |-> fi'.arrived]
          BY <2>2, <4>4
        <5>2. /\ fi'.arrived = arrived /\ fi'.kept = fi.kept /\ fi'.list = fi.list /\ fi'.waiting = fi.waiting
              /\ fi'.results = fi.results /\ fi'.unwritten = fi.unwritten + 1
          BY <1>4, <2>9, <5>1
        <5>3. content = "malformed"
          BY <3>3
        <5> QED BY <5>1, <5>2, <5>3
      <4> QED BY <4>2, <4>3, <4>4
    <3> QED BY <3>1, <3>2, <3>3 DEF FileContents
  <2>5. \A c \in FileContents : fi'.arrived[c] = IF c = content THEN fi.arrived[c] + 1 ELSE fi.arrived[c]
    BY <1>4, <2>4 DEF arrived
  <2>6. /\ fi'.arrived["request"] = IF content = "request" THEN fi.arrived["request"] + 1 ELSE fi.arrived["request"]
        /\ fi'.arrived["malformed"] = IF content = "malformed" THEN fi.arrived["malformed"] + 1 ELSE fi.arrived["malformed"]
        /\ fi'.arrived["empty"] = IF content = "empty" THEN fi.arrived["empty"] + 1 ELSE fi.arrived["empty"]
    BY <2>5 DEF FileContents
  <2>7. FilesAreCounted'
    <3> DEFINE r == fi.arrived["request"]
               m == fi.arrived["malformed"]
               e == fi.arrived["empty"]
               r1 == fi'.arrived["request"]
               m1 == fi'.arrived["malformed"]
               e1 == fi'.arrived["empty"]
    <3>1. /\ r \in Nat /\ m \in Nat /\ e \in Nat /\ r + m + e < ArrivalLimit
          /\ fi.list = fi.waiting + fi.kept /\ fi.kept = e /\ fi.results + fi.unwritten + fi.waiting = r + m
      BY <1>1, <1>4, <2>1 DEF FilesAreCounted, ListIsTrue
    <3>2. /\ r1 = IF content = "request" THEN r + 1 ELSE r
          /\ m1 = IF content = "malformed" THEN m + 1 ELSE m
          /\ e1 = IF content = "empty" THEN e + 1 ELSE e
      BY <2>6
    <3> HIDE DEF r, m, e, r1, m1, e1
    <3>3. r1 + m1 + e1 <= ArrivalLimit
      BY <1>4, <3>1, <3>2
    <3>4. fi'.list = fi'.waiting + fi'.kept /\ fi'.kept = e1
      BY <1>4, <2>4, <3>1, <3>2
    <3>5. fi'.results + fi'.unwritten + fi'.waiting = r1 + m1
      BY <1>4, <2>4, <3>1, <3>2
    <3> QED BY <3>3, <3>4, <3>5 DEF FilesAreCounted, ListIsTrue, r1, m1, e1
  <2>8. fi' \in CnFiles
    <3>1. /\ fi'.arrived["request"] \in Nat /\ fi'.arrived["malformed"] \in Nat /\ fi'.arrived["empty"] \in Nat
          /\ fi'.waiting \in Nat /\ fi'.kept \in Nat /\ fi'.list \in Nat /\ fi'.results \in Nat /\ fi'.unwritten \in Nat
      BY <1>4, <2>4, <2>6
    <3>2. /\ fi'.arrived["request"] <= ArrivalLimit /\ fi'.arrived["malformed"] <= ArrivalLimit /\ fi'.arrived["empty"] <= ArrivalLimit
          /\ fi'.waiting <= ArrivalLimit /\ fi'.kept <= ArrivalLimit /\ fi'.list <= ArrivalLimit
          /\ fi'.results <= ArrivalLimit /\ fi'.unwritten <= ArrivalLimit
      BY <1>4, <2>7, <3>1 DEF FilesAreCounted, ListIsTrue
    <3>3. fi'.arrived \in [FileContents -> Nat]
      BY <1>4, <2>4 DEF arrived
    <3>4. fi'.arrived \in [FileContents -> 0..ArrivalLimit]
      BY <1>4, <3>1, <3>2, <3>3 DEF FileContents
    <3>5. /\ fi'.waiting \in 0..ArrivalLimit /\ fi'.kept \in 0..ArrivalLimit /\ fi'.list \in 0..ArrivalLimit
          /\ fi'.results \in 0..ArrivalLimit /\ fi'.unwritten \in 0..ArrivalLimit
      BY <1>4, <3>1, <3>2
    <3> QED BY <2>4, <3>4, <3>5 DEF CnFiles
  <2> QED BY <1>3, <2>7, <2>8 DEF CnIInv, CnTypeOK
<1> QED BY <1>5, <1>6 DEF FiNext

\* Every step keeps the invariant.
LEMMA StepKeeps == CnIInv /\ [CnNext]_cnVars => CnIInv'
<1> SUFFICES ASSUME CnIInv, [CnNext]_cnVars PROVE CnIInv'
  OBVIOUS
<1>1. CASE CnSend
  BY <1>1, SendKeeps
<1>2. CASE CnClose \/ CnReset \/ CnWriteFails
  BY <1>2, EndKeeps
<1>3. CASE CnReceived
  BY <1>3, ReceivedKeeps
<1>4. CASE CnEof
  BY <1>4, EofKeeps
<1>5. CASE CnEmitResult
  BY <1>5, EmitKeeps
<1>6. CASE CnWrite
  BY <1>6, WriteKeeps
<1>7. CASE CnTerminate
  BY <1>7, TerminateKeeps
<1>8. CASE FiNext
  BY <1>8, FilesKeep
<1>9. CASE UNCHANGED cnVars
  <2>1. so' = so /\ fi' = fi
    BY <1>9 DEF cnVars
  <2> QED BY <2>1 DEF CnIInv, CnTypeOK, StreamIsCut, Read, AnswersFollow, WritesGoOn, ResultWhole, FilesAreCounted, ListIsTrue
<1> QED BY <1>1, <1>2, <1>3, <1>4, <1>5, <1>6, <1>7, <1>8, <1>9 DEF CnNext, SoNext

(* What a client sends reaches the scheduler as the requests it consists of, *)
(* however the reads cut it, and a client gets its results whole: for every  *)
(* length of a stream, every size of a read and every number of files.       *)
THEOREM ConnectionsAlwaysHold == CnSpec => []ConnectionsHold
<1>1. CnIInv => ConnectionsHold
  BY PiecesAndRequests DEF CnIInv, ConnectionsHold, WritesGoOn, FilesAreCounted
<1> QED BY <1>1, InitHolds, StepKeeps, PTL DEF CnSpec

(* The pieces, the results and the counters of files are of their types.     *)
THEOREM ConnectionTypesHold == CnSpec => []CnTypeOK
<1>1. CnIInv => CnTypeOK
  BY DEF CnIInv
<1> QED BY <1>1, InitHolds, StepKeeps, PTL DEF CnSpec

----------------------------------------------------------------------------
(* Exports.                                                                  *)

\* No two folders have the same name, no two files of the measurement the same kind.
NamesOnce ==
    /\ IsInjective(exWorld.files)
    /\ \A i, j \in DOMAIN exWorld.outputs : exWorld.outputs[i].id = exWorld.outputs[j].id => i = j

\* Any call, whatever folders, formats and files it meets.
ExAnyInit ==
    /\ \E type \in {"measurement", "log", "monitor", "conf", "xx"}, dest \in Dests,
          named \in {"iid", "id", "unknown", "none"}, format \in Formats, output \in Outputs,
          protocol \in Protocols, scheme \in BOOLEAN :
          ex = NewExport(type, dest, named, format, output, protocol, scheme)
    /\ exWorld \in Surroundings /\ NamesOnce /\ exMade \subseteq Generated
    /\ exOut = <<>> /\ exConfig = "none" /\ exTemps = 0

ExAnySpec == ExAnyInit /\ [][ExNext]_exVars

\* The call is a record of these fields.
IsCall(c) ==
    c = [phase |-> c.phase, type |-> c.type, dest |-> c.dest, named |-> c.named, format |-> c.format,
         output |-> c.output, protocol |-> c.protocol, scheme |-> c.scheme, queue |-> c.queue,
         at |-> c.at, status |-> c.status, answers |-> c.answers]

\* The first n entries of the queue have arrived.
Arrived(c, out, n) == out = [k \in 1..n |-> Arrival(c.queue[k])]

AllArrived(c, out) == c.queue # <<>> /\ out = [k \in DOMAIN c.queue |-> Arrival(c.queue[k])]

\* An OK.
IsDone(c, out, config, temps) ==
    /\ c.dest \in SocketDests => out = <<<<"none", OutputOfScript>>>>
    /\ c.dest \notin SocketDests /\ c.type = "measurement" => AllArrived(c, out)
    /\ c.dest \notin SocketDests /\ c.type = "conf" => config = "signed" /\ temps = 0
    /\ c.dest \notin SocketDests /\ c.type \notin {"measurement", "conf"} => out = <<<<"none", Archive>>>>

\* What each phase has done.
Progress(c, out, config, temps) ==
    \/ c.phase = "new"
    \/ c.phase = "generate" /\ c.type = "measurement" /\ c.dest # "unknown" /\ c.queue # <<>> /\ out = <<>>
    \/ /\ c.phase = "copy" /\ c.type = "measurement" /\ c.dest \in FolderDests
       /\ c.at \in DOMAIN c.queue /\ Arrived(c, out, c.at - 1)
    \/ c.phase = "print" /\ c.type = "measurement" /\ c.dest = "lanPrinter" /\ c.queue # <<>>
    \/ c.phase = "send" /\ c.dest \in SocketDests
    \/ c.phase = "tar" /\ c.type \in {"log", "monitor"} /\ c.dest \notin SocketDests
    \/ c.phase = "sign" /\ c.type = "conf" /\ c.dest \notin SocketDests /\ config = "unsigned"
    \/ /\ c.phase = "answered"
       /\ c.status = 200 => IsDone(c, out, config, temps)
       /\ c.status # 200 /\ c.type = "conf" => config \in {"none", "torn"}
    \/ c.phase = "dies"

\* A call for the configuration has no script for a socket.
ExFrame ==
    /\ IsCall(ex) /\ ex.dest \in Dests
    /\ ex.phase # "answered" => ex.status = 0
    /\ ex.phase = "new" => ex.queue = <<>> /\ exOut = <<>> /\ exConfig = "none" /\ exTemps = 0
    /\ ex.type = "conf" => ex.phase \in {"new", "sign", "answered", "dies"}
    /\ ex.type = "conf" /\ ex.dest \in SocketDests => ex.phase \in {"new", "answered"} /\ ex.status # 200

\* Only folders have names.
Folderless(c) == c.dest \notin FolderDests => \A k \in DOMAIN c.queue : c.queue[k].folder = "none"

IsQueue(q) == q \in Seq([folder : Outputs, file : Generated])

ExIInv == ExFrame /\ Folderless(ex) /\ (IsQueue(ex.queue) => Progress(ex, exOut, exConfig, exTemps))

LEMMA ExInitHolds == ExAnyInit => ExIInv
<1> SUFFICES ASSUME ExAnyInit PROVE ExIInv
  OBVIOUS
<1>1. PICK type \in {"measurement", "log", "monitor", "conf", "xx"}, dest \in Dests,
          named \in {"iid", "id", "unknown", "none"}, format \in Formats, output \in Outputs,
          protocol \in Protocols, scheme \in BOOLEAN :
          ex = NewExport(type, dest, named, format, output, protocol, scheme)
  BY DEF ExAnyInit
<1>2. IsCall(ex) /\ ex.dest \in Dests /\ ex.phase = "new" /\ ex.status = 0 /\ ex.queue = <<>>
  BY <1>1 DEF NewExport, IsCall
<1>3. exOut = <<>> /\ exConfig = "none" /\ exTemps = 0
  BY DEF ExAnyInit
<1> QED BY <1>2, <1>3 DEF ExIInv, ExFrame, Folderless, Progress

\* The fields that an answer leaves alone.
LEMMA AnsweredIs ==
    ASSUME NEW c, IsCall(c), NEW status
    PROVE  LET a == Answered(c, status) IN
           /\ IsCall(a) /\ a.phase = "answered" /\ a.status = status
           /\ a.type = c.type /\ a.dest = c.dest /\ a.queue = c.queue /\ a.at = c.at
<1> DEFINE a == Answered(c, status)
<1>1. a = [c EXCEPT !.phase = "answered", !.status = status, !.answers = @ + 1]
  BY DEF Answered
<1> HIDE DEF a
<1>2. IsCall(a) /\ a.phase = "answered" /\ a.status = status /\ a.type = c.type /\ a.dest = c.dest
  BY <1>1 DEF IsCall
<1>3. a.queue = c.queue /\ a.at = c.at
  BY <1>1 DEF IsCall
<1> QED BY <1>2, <1>3 DEF a

\* Where the script of a protocol is started, or the call has failed.
LEMMA ScriptIs ==
    ASSUME NEW c, IsCall(c), c.status = 0
    PROVE  LET a == StartScript(c) IN
           /\ IsCall(a) /\ a.type = c.type /\ a.dest = c.dest /\ a.queue = c.queue
           /\ (a.phase = "send" /\ a.status = 0) \/ (a.phase = "answered" /\ a.status = 500)
<1> DEFINE b == [c EXCEPT !.phase = "send"]
           a == StartScript(c)
<1>1. IsCall(b) /\ b.phase = "send" /\ b.status = 0 /\ b.type = c.type /\ b.dest = c.dest /\ b.queue = c.queue
  BY DEF IsCall
<1>2. a = b \/ a = Answered(c, 500)
  BY DEF StartScript
<1> HIDE DEF a, b
<1>3. /\ IsCall(a) /\ a.type = c.type /\ a.dest = c.dest /\ a.queue = c.queue
      /\ (a.phase = "send" /\ a.status = 0) \/ (a.phase = "answered" /\ a.status = 500)
  <2>1. CASE a = b
    BY <1>1, <2>1
  <2>2. CASE a = Answered(c, 500)
    <3> DEFINE d == Answered(c, 500)
    <3>1. IsCall(d) /\ d.phase = "answered" /\ d.status = 500 /\ d.type = c.type /\ d.dest = c.dest /\ d.queue = c.queue
      BY AnsweredIs
    <3> HIDE DEF d
    <3> QED BY <2>2, <3>1 DEF d
  <2> QED BY <1>2, <2>1, <2>2
<1> QED BY <1>3 DEF a

\* The call b goes on as a: it generates a file, or all are there and are
\* brought to where they are to be.
Proceeds(b, a) ==
    /\ IsCall(a) /\ a.type = b.type /\ a.dest = b.dest /\ a.queue = b.queue
    /\ a.phase # "answered" => a.status = 0
    /\ \/ a.phase = "generate"
       \/ b.dest \in FolderDests /\ a.phase = "copy" /\ a.at = 1
       \/ b.dest \in SocketDests /\ (a.phase = "send" \/ (a.phase = "answered" /\ a.status = 500))
       \/ b.dest = "lanPrinter" /\ a.phase = "print"
       \/ b.dest \notin FolderDests \cup SocketDests \cup {"lanPrinter"} /\ a.phase = "answered" /\ a.status \in {200, 500}

LEMMA GenerateProceeds ==
    ASSUME NEW c, IsCall(c), c.status = 0, NEW k
    PROVE  Proceeds(c, Generate(c, k))
<1> DEFINE a == Generate(c, k)
           s == StartScript(c)
           d == Answered(c, IF AllMade(c) THEN 200 ELSE 500)
<1>1. CASE a = StartCopying(c)
  <2>1. CASE c.dest \in FolderDests
    <3>1. a = [c EXCEPT !.phase = "copy", !.at = 1]
      BY <1>1, <2>1 DEF StartCopying, FolderDests, SocketDests
    <3> HIDE DEF a
    <3>2. IsCall(a) /\ a.type = c.type /\ a.dest = c.dest /\ a.queue = c.queue /\ a.status = 0 /\ a.phase = "copy" /\ a.at = 1
      BY <3>1 DEF IsCall
    <3> QED BY <2>1, <3>2 DEF Proceeds, a
  <2>2. CASE c.dest \in SocketDests
    <3>1. a = s
      BY <1>1, <2>2 DEF StartCopying, FolderDests, SocketDests
    <3>2. /\ IsCall(s) /\ s.type = c.type /\ s.dest = c.dest /\ s.queue = c.queue
          /\ (s.phase = "send" /\ s.status = 0) \/ (s.phase = "answered" /\ s.status = 500)
      BY ScriptIs
    <3> HIDE DEF a, s
    <3> QED BY <2>2, <3>1, <3>2 DEF Proceeds, a
  <2>3. CASE c.dest = "lanPrinter"
    <3>1. a = [c EXCEPT !.phase = "print"]
      BY <1>1, <2>3 DEF StartCopying, FolderDests, SocketDests
    <3> HIDE DEF a
    <3>2. IsCall(a) /\ a.type = c.type /\ a.dest = c.dest /\ a.queue = c.queue /\ a.status = 0 /\ a.phase = "print"
      BY <3>1 DEF IsCall
    <3> QED BY <2>3, <3>2 DEF Proceeds, a
  <2>4. CASE c.dest \notin FolderDests \cup SocketDests \cup {"lanPrinter"}
    <3>1. a = d
      BY <1>1, <2>4 DEF StartCopying
    <3> DEFINE t == IF AllMade(c) THEN 200 ELSE 500
    <3>2. t \in {200, 500} /\ d = Answered(c, t)
      OBVIOUS
    <3> HIDE DEF t, d, a
    <3> DEFINE e == Answered(c, t)
    <3>3. IsCall(e) /\ e.type = c.type /\ e.dest = c.dest /\ e.queue = c.queue /\ e.phase = "answered" /\ e.status = t
      BY AnsweredIs
    <3>4. a = e
      BY <3>1, <3>2
    <3> HIDE DEF e
    <3> QED BY <2>4, <3>2, <3>3, <3>4 DEF Proceeds, a
  <2> QED BY <2>1, <2>2, <2>3, <2>4
<1>2. CASE a # StartCopying(c)
  <2>1. PICK j : a = [c EXCEPT !.phase = "generate", !.at = j]
    BY <1>2 DEF Generate
  <2> HIDE DEF a
  <2>2. IsCall(a) /\ a.type = c.type /\ a.dest = c.dest /\ a.queue = c.queue /\ a.status = 0 /\ a.phase = "generate"
    BY <2>1 DEF IsCall
  <2> QED BY <2>2 DEF Proceeds, a
<1> QED BY <1>1, <1>2

\* What is generated is for a destination that is known; a local printer gets
\* all files with the answer.
LEMMA ProceedsWell ==
    ASSUME NEW b, NEW a, Proceeds(b, a), b.type = "measurement", b.dest \in Dests \ {"unknown"},
           Folderless(b),
           b.queue # <<>>, IsQueue(b.queue), exOut = <<>>, NEW config, NEW temps
    PROVE  Progress(a, LocalOut(a), config, temps)
<1>1. a.type = "measurement" /\ a.dest = b.dest /\ a.queue = b.queue /\ a.queue # <<>> /\ a.dest # "unknown"
  BY DEF Proceeds
<1>2. CASE a.phase = "generate"
  BY <1>1, <1>2 DEF Progress, LocalOut
<1>3. CASE b.dest \in FolderDests /\ a.phase = "copy" /\ a.at = 1
  <2> DEFINE Q == a.queue
  <2>1. Q \in Seq([folder : Outputs, file : Generated]) /\ Q # <<>>
    BY <1>1 DEF IsQueue
  <2> HIDE DEF Q
  <2>2. 1 \in DOMAIN Q
    BY <2>1
  <2>3. LocalOut(a) = <<>>
    BY <1>3 DEF LocalOut
  <2>4. <<>> = [k \in 1..(1 - 1) |-> Arrival(a.queue[k])]
    OBVIOUS
  <2> QED BY <1>1, <1>3, <2>2, <2>3, <2>4 DEF Progress, Arrived, Q
<1>4. CASE b.dest \in SocketDests /\ (a.phase = "send" \/ (a.phase = "answered" /\ a.status = 500))
  BY <1>1, <1>4 DEF Progress
<1>5. CASE b.dest = "lanPrinter" /\ a.phase = "print"
  BY <1>1, <1>5 DEF Progress
<1>6. CASE /\ b.dest \notin FolderDests \cup SocketDests \cup {"lanPrinter"}
           /\ a.phase = "answered" /\ a.status \in {200, 500}
  <2>1. a.dest = "localPrinter"
    BY <1>1, <1>6 DEF Dests
  <2>2. CASE a.status = 200
    <3>1. LocalOut(a) = [k \in DOMAIN a.queue |-> Arrival(a.queue[k])]
      <4>1. LocalOut(a) = [k \in DOMAIN a.queue |-> <<"none", a.queue[k].file>>]
        BY <1>6, <2>1, <2>2 DEF LocalOut
      <4>2. \A k \in DOMAIN a.queue : a.queue[k].folder = "none"
        BY <1>1, <1>6 DEF Folderless
      <4> QED BY <4>1, <4>2 DEF Arrival
    <3>2. IsDone(a, LocalOut(a), config, temps)
      BY <1>1, <2>1, <3>1 DEF IsDone, AllArrived, SocketDests
    <3> QED BY <1>6, <2>2, <3>2, <1>1 DEF Progress
  <2>3. CASE a.status = 500
    BY <1>1, <1>6, <2>3 DEF Progress
  <2> QED BY <1>6, <2>2, <2>3
<1> QED BY <1>2, <1>3, <1>4, <1>5, <1>6 DEF Proceeds

LEMMA QueueFolderless ==
    ASSUME NEW c, c.dest \notin FolderDests
    PROVE  \A k \in DOMAIN BuildQueue(c, Formatted(c)) : BuildQueue(c, Formatted(c))[k].folder = "none"
<1>1. BuildQueue(c, Formatted(c)) = Entries(c.dest, c.format, "none")
  BY DEF BuildQueue
<1>2. ASSUME NEW q, q = Entries(c.dest, c.format, "none") PROVE \A k \in DOMAIN q : q[k].folder = "none"
  <2> DEFINE pps == ProcessorsFor[c.dest][c.format]
             files == GeneratedFiles(pps[1], c.format)
  <2>1. q = IF pps = <<>> THEN <<>> ELSE [k \in DOMAIN files |-> [folder |-> "none", file |-> files[k]]]
    BY <1>2 DEF Entries
  <2> HIDE DEF pps, files
  <2> QED BY <2>1
<1> QED BY <1>1, <1>2

\* The status of a call that goes on is that of no answer.
LEMMA StartFrameKept ==
    ASSUME ExIInv, ExStart
    PROVE  ExIInv'
<1> DEFINE b == [ex EXCEPT !.queue = BuildQueue(ex, Formatted(ex))]
<1>1. /\ IsCall(ex) /\ ex.dest \in Dests /\ ex.phase = "new" /\ ex.status = 0 /\ ex.queue = <<>> /\ exOut = <<>> /\ exConfig = "none"
      /\ exTemps = 0 /\ exConfig' = exConfig /\ exTemps' = exTemps /\ exOut' = LocalOut(ex')
  BY DEF ExIInv, ExFrame, ExStart
<1>2. LocalOut(ex') = <<>> \/ ex'.dest = "localPrinter"
  BY <1>1 DEF LocalOut
<1>3. ASSUME NEW status, status \in {400, 500}, ex' = Answered(ex, status) PROVE ExIInv'
  <2> DEFINE a == Answered(ex, status)
  <2>1. IsCall(a) /\ a.phase = "answered" /\ a.status = status /\ a.type = ex.type /\ a.dest = ex.dest /\ a.queue = <<>>
    BY <1>1, AnsweredIs
  <2> HIDE DEF a
  <2>2. ex' = a
    BY <1>3 DEF a
  <2> QED BY <1>1, <1>3, <2>1, <2>2 DEF ExIInv, ExFrame, Folderless, Progress
<1>4. ASSUME ex.type = "measurement", ex.dest # "unknown", ex.dest \in Dests, ex' = StartPostprocessing(ex, BuildQueue(ex, Formatted(ex))) PROVE ExIInv'
  <2>1. CASE ex' = Answered(ex, 500)
    <3>1. 500 \in {400, 500}
      OBVIOUS
    <3> QED BY <1>3, <2>1, <3>1
  <2>2. CASE ex' # Answered(ex, 500)
    <3> DEFINE a == Generate(b, 1)
    <3>1. b.queue # <<>> /\ ex' = a
      BY <1>4, <2>2 DEF StartPostprocessing
    <3>2. IsCall(b) /\ b.status = 0 /\ b.type = ex.type /\ b.dest = ex.dest /\ b.queue = BuildQueue(ex, Formatted(ex))
      <4> DEFINE Q == BuildQueue(ex, Formatted(ex))
      <4> HIDE DEF Q
      <4> SUFFICES [ex EXCEPT !.queue = Q].queue = Q /\ IsCall([ex EXCEPT !.queue = Q])
                     /\ [ex EXCEPT !.queue = Q].status = 0 /\ [ex EXCEPT !.queue = Q].type = ex.type
                     /\ [ex EXCEPT !.queue = Q].dest = ex.dest
        BY DEF Q
      <4> QED BY <1>1 DEF IsCall
    <3> HIDE DEF b
    <3>3. Proceeds(b, a)
      BY <3>2, GenerateProceeds
    <3> HIDE DEF a
    <3>4. Folderless(b)
      BY <3>2, QueueFolderless DEF Folderless
    <3>5. Folderless(ex')
      BY <3>1, <3>3, <3>4 DEF Proceeds, Folderless
    <3>6. ASSUME IsQueue(ex'.queue) PROVE Progress(ex', exOut', exConfig', exTemps')
      <4>1. IsQueue(b.queue) /\ b.type = "measurement" /\ b.dest \in Dests \ {"unknown"}
        BY <1>4, <3>1, <3>2, <3>3, <3>6 DEF Proceeds
      <4>2. Progress(a, LocalOut(a), exConfig', exTemps')
        BY <1>1, <3>1, <3>3, <3>4, <4>1, ProceedsWell
      <4> QED BY <1>1, <3>1, <4>2
    <3>7. ExFrame'
      BY <1>4, <3>1, <3>2, <3>3 DEF Proceeds, ExFrame
    <3> QED BY <3>5, <3>6, <3>7 DEF ExIInv
  <2> QED BY <2>1, <2>2
<1>5. ASSUME ex.dest \in SocketDests, ex.type \in {"log", "monitor"}, ex' = StartScript(ex) PROVE ExIInv'
  <2> DEFINE a == StartScript(ex)
  <2>1. /\ IsCall(a) /\ a.type = ex.type /\ a.dest = ex.dest /\ a.queue = ex.queue
        /\ (a.phase = "send" /\ a.status = 0) \/ (a.phase = "answered" /\ a.status = 500)
    BY <1>1, ScriptIs
  <2> HIDE DEF a
  <2>2. ex' = a
    BY <1>5 DEF a
  <2> QED BY <1>1, <1>5, <2>1, <2>2 DEF ExIInv, ExFrame, Folderless, Progress
<1>6. ASSUME ex.dest \notin SocketDests, ex.type \in {"log", "monitor"}, ex' = [ex EXCEPT !.phase = "tar"] PROVE ExIInv'
  <2>1. /\ IsCall(ex') /\ ex'.phase = "tar" /\ ex'.type = ex.type /\ ex'.dest = ex.dest /\ ex'.queue = ex.queue /\ ex'.status = 0
    BY <1>1, <1>6 DEF IsCall
  <2> QED BY <1>1, <1>6, <2>1 DEF ExIInv, ExFrame, Folderless, Progress
<1>7. \/ ex' = Answered(ex, 400) \/ ex' = Answered(ex, 500)
      \/ CheckValidXml(ex) /\ ex.type = "measurement" /\ ex' = StartPostprocessing(ex, BuildQueue(ex, Formatted(ex)))
      \/ ex.type \in {"log", "monitor"} /\ ex.dest \in SocketDests /\ ex' = StartScript(ex)
      \/ ex.type \in {"log", "monitor"} /\ HasFolder(ex) /\ ex' = [ex EXCEPT !.phase = "tar"]
  BY DEF ExStart
<1>8. CheckValidXml(ex) => ex.dest # "unknown"
  BY DEF CheckValidXml
<1>9. HasFolder(ex) => ex.dest \notin SocketDests
  BY DEF HasFolder, FolderDests, SocketDests
<1>10. 400 \in {400, 500} /\ 500 \in {400, 500}
  OBVIOUS
<1> HIDE DEF b
<1> QED BY <1>1, <1>3, <1>4, <1>5, <1>6, <1>7, <1>8, <1>9, <1>10

\* An answer but the OK.
LEMMA RefusedKeeps ==
    ASSUME ExIInv, NEW status, status # 200, ex' = Answered(ex, status), exConfig' \in {"none", "torn"} \/ ex.type # "conf"
    PROVE  ExIInv'
<1> DEFINE a == Answered(ex, status)
<1>1. IsCall(ex)
  BY DEF ExIInv, ExFrame
<1>2. IsCall(a) /\ a.phase = "answered" /\ a.status = status /\ a.type = ex.type /\ a.dest = ex.dest /\ a.queue = ex.queue
  BY <1>1, AnsweredIs
<1>3. ex' = a
  OBVIOUS
<1> HIDE DEF a
<1> QED BY <1>2, <1>3 DEF ExIInv, ExFrame, Folderless, Progress

\* The OK.
LEMMA DoneKeeps ==
    ASSUME ExIInv, ex' = Answered(ex, 200), ex.type = "conf" => ex.dest \notin SocketDests,
           IsQueue(ex.queue) => IsDone(ex, exOut', exConfig', exTemps')
    PROVE  ExIInv'
<1> DEFINE a == Answered(ex, 200)
<1>1. IsCall(ex)
  BY DEF ExIInv, ExFrame
<1>2. IsCall(a) /\ a.phase = "answered" /\ a.status = 200 /\ a.type = ex.type /\ a.dest = ex.dest /\ a.queue = ex.queue
  BY <1>1, AnsweredIs
<1>3. ex' = a
  OBVIOUS
<1> HIDE DEF a
<1>4. IsQueue(ex'.queue) => IsDone(ex', exOut', exConfig', exTemps')
  BY <1>2, <1>3 DEF IsDone, AllArrived
<1> QED BY <1>2, <1>3, <1>4 DEF ExIInv, ExFrame, Folderless, Progress

\* The daemon has ended.
LEMMA DiesKeeps ==
    ASSUME ExIInv, ex.status = 0, NEW c, ex' = [c EXCEPT !.phase = "dies"],
           IsCall(c), c.type = ex.type, c.dest = ex.dest, c.queue = ex.queue, c.status = 0,
           ex.type = "conf" => ex.dest \notin SocketDests
    PROVE  ExIInv'
<1>1. IsCall(ex') /\ ex'.phase = "dies" /\ ex'.type = c.type /\ ex'.dest = c.dest /\ ex'.queue = c.queue /\ ex'.status = 0
  BY DEF IsCall
<1> QED BY <1>1 DEF ExIInv, ExFrame, Folderless, Progress

LEMMA ConfigKeeps ==
    ASSUME ExIInv, ExStartConfig
    PROVE  ExIInv'
<1>1. /\ IsCall(ex) /\ ex.phase = "new" /\ ex.status = 0 /\ ex.type = "conf" /\ ex.dest \notin SocketDests
      /\ ex.queue = <<>> /\ exOut' = exOut
  BY DEF ExIInv, ExFrame, ExStartConfig, HasFolder, FolderDests, SocketDests
<1>2. CASE ex' = Answered(ex, 500) /\ exConfig' \in {"none", "torn"}
  <2>1. 500 # 200
    OBVIOUS
  <2> QED BY <1>2, <2>1, RefusedKeeps
<1>3. CASE exConfig' = "unsigned" /\ ex' = [ex EXCEPT !.phase = "sign"]
  <2>1. /\ IsCall(ex') /\ ex'.phase = "sign" /\ ex'.type = ex.type /\ ex'.dest = ex.dest /\ ex'.queue = ex.queue
        /\ ex'.status = 0
    BY <1>1, <1>3 DEF IsCall
  <2> QED BY <1>1, <1>3, <2>1 DEF ExIInv, ExFrame, Folderless, Progress
<1> QED BY <1>2, <1>3 DEF ExStartConfig

LEMMA SignedKeeps ==
    ASSUME ExIInv, ExSigned
    PROVE  ExIInv'
<1>1. IsCall(ex) /\ ex.phase = "sign" /\ ex.status = 0 /\ exOut' = exOut
  BY DEF ExIInv, ExFrame, ExSigned
<1>2. CASE exConfig' = "signed" /\ exTemps' = 0 /\ ex' = Answered(ex, 200)
  <2>1. IsQueue(ex.queue) => ex.type = "conf" /\ ex.dest \notin SocketDests
    BY <1>1 DEF ExIInv, Progress
  <2>2. IsQueue(ex.queue) => IsDone(ex, exOut', exConfig', exTemps')
    BY <1>2, <2>1 DEF IsDone
  <2>3. ex.type = "conf" => ex.dest \notin SocketDests
    BY <1>1 DEF ExIInv, ExFrame
  <2> QED BY <1>2, <2>2, <2>3, DoneKeeps
<1>3. CASE SignatureFails(ex)
  <2>1. CASE exWorld.mounted
    <3>1. ex' = Answered(ex, 500) /\ exConfig' \in {"none", "torn"} /\ 500 # 200
      BY <1>3, <2>1 DEF SignatureFails
    <3> QED BY <3>1, RefusedKeeps
  <2>2. CASE ~exWorld.mounted
    <3>1. ex' = [ex EXCEPT !.phase = "dies"]
      BY <1>3, <2>2 DEF SignatureFails
    <3>2. ex.type = "conf" => ex.dest \notin SocketDests
      BY <1>1 DEF ExIInv, ExFrame
    <3> QED BY <1>1, <3>1, <3>2, DiesKeeps
  <2> QED BY <2>1, <2>2
<1> QED BY <1>2, <1>3 DEF ExSigned

LEMMA GeneratedKeeps ==
    ASSUME ExIInv, ExGenerated
    PROVE  ExIInv'
<1> DEFINE a == Generate(ex, ex.at + 1)
<1>1. /\ IsCall(ex) /\ ex.phase = "generate" /\ ex.status = 0 /\ ex.type # "conf" /\ ex.dest \in Dests
      /\ exConfig' = exConfig /\ exTemps' = exTemps /\ exOut' = LocalOut(ex') /\ Folderless(ex)
  BY DEF ExIInv, ExFrame, ExGenerated
<1>2. ex' = a \/ (a.phase = "generate" /\ ex' = [a EXCEPT !.phase = "dies"])
  BY DEF ExGenerated
<1>3. Proceeds(ex, a)
  BY <1>1, GenerateProceeds
<1> HIDE DEF a
<1>4. CASE ex' = a
  <2>1. Folderless(ex')
    BY <1>1, <1>3, <1>4 DEF Proceeds, Folderless
  <2>2. ExFrame'
    BY <1>1, <1>3, <1>4 DEF Proceeds, ExFrame
  <2>3. ASSUME IsQueue(ex'.queue) PROVE Progress(ex', exOut', exConfig', exTemps')
    <3>1. IsQueue(ex.queue)
      BY <1>3, <1>4, <2>3 DEF Proceeds
    <3>2. ex.type = "measurement" /\ ex.dest \in Dests \ {"unknown"} /\ ex.queue # <<>> /\ exOut = <<>>
      BY <1>1, <3>1 DEF ExIInv, Progress
    <3>3. Progress(a, LocalOut(a), exConfig', exTemps')
      BY <1>1, <1>3, <3>1, <3>2, ProceedsWell
    <3> QED BY <1>1, <1>4, <3>3
  <2> QED BY <2>1, <2>2, <2>3 DEF ExIInv
<1>5. CASE a.phase = "generate" /\ ex' = [a EXCEPT !.phase = "dies"]
  <2>1. IsCall(a) /\ a.type = ex.type /\ a.dest = ex.dest /\ a.queue = ex.queue /\ a.status = 0
    BY <1>3, <1>5 DEF Proceeds
  <2> QED BY <1>1, <1>5, <2>1, DiesKeeps
<1> QED BY <1>2, <1>4, <1>5

LEMMA FailureKeeps ==
    ASSUME ExIInv, ExGenerateFails \/ ExTransferFails
    PROVE  ExIInv'
<1>1. /\ IsCall(ex) /\ ex.status = 0 /\ ex.type # "conf"
      /\ ex' = Answered(ex, 500) \/ ex' = [ex EXCEPT !.phase = "dies"]
  BY DEF ExIInv, ExFrame, ExGenerateFails, ExTransferFails
<1>2. 500 # 200
  OBVIOUS
<1> QED BY <1>1, <1>2, RefusedKeeps, DiesKeeps

LEMMA CopiedKeeps ==
    ASSUME ExIInv, ExCopied
    PROVE  ExIInv'
<1> DEFINE Q == ex.queue
           n == ex.at
           out == exOut'
           d == [k \in 1..n |-> Arrival(Q[k])]
<1>1. /\ IsCall(ex) /\ ex.phase = "copy" /\ ex.status = 0 /\ ex.type # "conf"
      /\ out = Append(exOut, Arrival(Q[n]))
      /\ ex' = IF n < Len(Q) THEN [ex EXCEPT !.at = n + 1] ELSE Answered(ex, 200)
  BY DEF ExIInv, ExFrame, ExCopied, Arrival
<1>2. ASSUME IsQueue(Q)
      PROVE  /\ ex.type = "measurement" /\ ex.dest \in FolderDests /\ Q # <<>> /\ out = d
             /\ n \in 1..Len(Q) /\ DOMAIN Q = 1..Len(Q) /\ Len(Q) \in Nat
  <2>1. /\ ex.type = "measurement" /\ ex.dest \in FolderDests
        /\ n \in DOMAIN Q /\ exOut = [k \in 1..n - 1 |-> Arrival(Q[k])]
    BY <1>1, <1>2 DEF ExIInv, Progress, Arrived
  <2> DEFINE z == Arrival(Q[n])
             b == [k \in 1..n - 1 |-> Arrival(Q[k])]
             T == {Arrival(Q[k]) : k \in 1..n}
  <2>2. Q \in Seq([folder : Outputs, file : Generated])
    BY <1>2 DEF IsQueue
  <2> HIDE DEF Q, n
  <2>3. n \in 1..Len(Q) /\ DOMAIN Q = 1..Len(Q) /\ Len(Q) \in Nat /\ Q # <<>> /\ n \in Nat /\ n - 1 \in Nat
    BY <2>1, <2>2
  <2>4. b \in Seq(T) /\ Len(b) = n - 1 /\ z \in T
    <3>1. \A k \in 1..n - 1 : Arrival(Q[k]) \in T
      BY <2>3
    <3>2. z \in T
      BY <2>3
    <3> HIDE DEF T
    <3> QED BY <2>3, <3>1, <3>2
  <2>5. out = Append(b, z)
    BY <1>1, <2>1
  <2>6. Append(b, z) = d
    <3>1. \A k \in 1..n - 1 : b[k] = d[k]
      BY <2>3
    <3>2. d[n] = z
      BY <2>3
    <3> DEFINE y == Append(b, z)
    <3>3. Len(y) = n /\ DOMAIN y = 1..n /\ y[n] = z /\ (\A k \in 1..n - 1 : y[k] = b[k]) /\ y = [k \in 1..n |-> y[k]]
      <4> HIDE DEF z, b, T
      <4>1. y \in Seq(T) /\ Len(y) = Len(b) + 1
        BY <2>4, AppendProperties
      <4>2. Len(y) = n
        BY <2>3, <2>4, <4>1
      <4>3. (\A k \in 1..n - 1 : y[k] = b[k]) /\ y[n] = z
        BY <2>3, <2>4
      <4> HIDE DEF y
      <4>4. DOMAIN y = 1..n /\ y = [k \in 1..n |-> y[k]]
        BY <4>1, <4>2
      <4> QED BY <4>2, <4>3, <4>4
    <3> HIDE DEF y, b, z
    <3>4. \A k \in 1..n : y[k] = d[k]
      <4> SUFFICES ASSUME NEW k \in 1..n PROVE y[k] = d[k]
        OBVIOUS
      <4>1. CASE k = n
        BY <3>2, <3>3, <4>1
      <4>2. CASE k # n
        <5>1. k \in 1..n - 1
          BY <2>3, <4>2
        <5> HIDE DEF d
        <5> QED BY <3>1, <3>3, <5>1
      <4> QED BY <4>1, <4>2
    <3>5. y = d
      BY <3>3, <3>4
    <3> QED BY <3>5 DEF y
  <2> HIDE DEF b, z, d
  <2> QED BY <2>1, <2>3, <2>5, <2>6
<1> HIDE DEF out
<1>3. CASE n < Len(Q)
  <2>1. /\ IsCall(ex') /\ ex'.phase = "copy" /\ ex'.type = ex.type /\ ex'.dest = ex.dest /\ ex'.queue = ex.queue
        /\ ex'.status = 0 /\ ex'.at = n + 1
    BY <1>1, <1>3 DEF IsCall
  <2>2. ASSUME IsQueue(Q) PROVE n + 1 \in DOMAIN Q /\ Arrived(ex', exOut', (n + 1) - 1)
    <3>1. n + 1 \in DOMAIN Q
      BY <1>2, <1>3, <2>2
    <3>2. n \in Int /\ (n + 1) - 1 = n
      BY <1>2, <2>2
    <3>3. out = d
      BY <1>2, <2>2
    <3> QED BY <2>1, <3>1, <3>2, <3>3 DEF Arrived, out
  <2>3. IsQueue(ex'.queue) => Progress(ex', exOut', exConfig', exTemps')
    BY <1>2, <2>1, <2>2 DEF Progress
  <2> QED BY <1>1, <2>1, <2>3 DEF ExIInv, ExFrame, Folderless
<1>4. CASE ~(n < Len(Q))
  <2>1. ex' = Answered(ex, 200)
    BY <1>1, <1>4
  <2>2. ASSUME IsQueue(Q) PROVE IsDone(ex, exOut', exConfig', exTemps')
    <3>1. n = Len(Q)
      BY <1>2, <1>4, <2>2
    <3>2. AllArrived(ex, exOut')
      BY <1>2, <2>2, <3>1 DEF AllArrived, out
    <3>3. ex.type = "measurement" /\ ex.dest \notin SocketDests
      BY <1>2, <2>2 DEF FolderDests, SocketDests
    <3> QED BY <3>2, <3>3 DEF IsDone
  <2> QED BY <1>1, <2>1, <2>2, DoneKeeps
<1> QED BY <1>3, <1>4

LEMMA TransferKeeps ==
    ASSUME ExIInv, ExPrinted \/ ExSent \/ ExArchived
    PROVE  ExIInv'
<1>1. IsCall(ex) /\ ex.status = 0 /\ ex.type # "conf" /\ ex' = Answered(ex, 200)
  BY DEF ExIInv, ExFrame, ExPrinted, ExSent, ExArchived
<1>2. ASSUME IsQueue(ex.queue) PROVE IsDone(ex, exOut', exConfig', exTemps')
  <2>1. Progress(ex, exOut, exConfig, exTemps)
    BY <1>2 DEF ExIInv
  <2>2. CASE ExPrinted
    <3>1. /\ ex.phase = "print" /\ exOut' = [k \in DOMAIN ex.queue |-> <<"none", ex.queue[k].file>>]
          /\ ex.type = "measurement" /\ ex.dest = "lanPrinter" /\ ex.queue # <<>>
      BY <2>1, <2>2 DEF ExPrinted, Progress
    <3>2. ex.dest \notin FolderDests /\ ex.dest \notin SocketDests
      BY <3>1 DEF FolderDests, SocketDests
    <3>3. \A k \in DOMAIN ex.queue : ex.queue[k].folder = "none"
      BY <3>2 DEF ExIInv, Folderless
    <3>4. AllArrived(ex, exOut')
      BY <3>1, <3>3 DEF AllArrived, Arrival
    <3> QED BY <3>1, <3>2, <3>4 DEF IsDone
  <2>3. CASE ExSent
    BY <2>1, <2>3 DEF ExSent, Progress, IsDone
  <2>4. CASE ExArchived
    BY <2>1, <2>4 DEF ExArchived, Progress, IsDone
  <2> QED BY <2>2, <2>3, <2>4
<1> QED BY <1>1, <1>2, DoneKeeps

LEMMA ExStepKeeps == ExIInv /\ [ExNext]_exVars => ExIInv'
<1> SUFFICES ASSUME ExIInv, [ExNext]_exVars PROVE ExIInv'
  OBVIOUS
<1>1. CASE ExOwn
  BY <1>1, StartFrameKept, ConfigKeeps, SignedKeeps, GeneratedKeeps, FailureKeeps, CopiedKeeps, TransferKeeps DEF ExOwn
<1>2. CASE ExOthers
  BY <1>2 DEF ExOthers, ExIInv, ExFrame
<1>3. CASE UNCHANGED exVars
  BY <1>3 DEF exVars, ExIInv, ExFrame
<1> QED BY <1>1, <1>2, <1>3 DEF ExNext

LEMMA ExportsInvariant == ExAnySpec => []ExIInv
<1> QED BY ExInitHolds, ExStepKeeps, PTL DEF ExAnySpec

LEMMA NewExportIsAny ==
    ASSUME NamesOnce, exMade \subseteq Generated, exOut = <<>>, exConfig = "none", exTemps = 0, exWorld \in Surroundings,
           NEW type \in {"measurement", "log", "monitor", "conf", "xx"}, NEW dest \in Dests,
           NEW named \in {"iid", "id", "unknown", "none"}, NEW format \in Formats, NEW output \in Outputs,
           NEW protocol \in Protocols, NEW scheme \in BOOLEAN,
           ex = NewExport(type, dest, named, format, output, protocol, scheme)
    PROVE  ExAnyInit
BY DEF ExAnyInit

LEMMA NewWorldIs ==
    ASSUME NEW outputs \in Seq([id : Outputs, format : Formats]), NEW folders \in 0..2,
           NEW files \in Seq(MeasurementFile), NEW serialNumber \in BOOLEAN, NEW mounted \in BOOLEAN,
           NEW protocols \in SUBSET Protocols, NEW default \in Protocols
    PROVE  NewWorld(outputs, folders, files, serialNumber, mounted, protocols, default) \in Surroundings
<1> DEFINE U == Seq([id : Outputs, format : Formats])
           V == Seq(MeasurementFile)
<1>1. outputs \in U /\ files \in V
  OBVIOUS
<1> HIDE DEF U, V
<1> QED BY <1>1 DEF NewWorld, Surroundings, U, V

LEMMA FileListsAreFiles == \A files \in FileLists : files \in Seq(MeasurementFile)
<1> DEFINE L == BmpFile("_L")
           R == BmpFile("_R")
           N == BmpFile("none")
<1>1. XmlFile \in MeasurementFile /\ L \in MeasurementFile /\ R \in MeasurementFile /\ N \in MeasurementFile
  BY DEF XmlFile, BmpFile, MeasurementFile
<1>2. \A files \in FileLists : files = <<>> \/ files = <<XmlFile>> \/ files = <<L, XmlFile, R>> \/ files = <<N>>
  BY DEF FileLists
<1> HIDE DEF L, R, N
<1>3. <<>> \in Seq(MeasurementFile)
  OBVIOUS
<1>4. <<XmlFile>> \in Seq(MeasurementFile) /\ <<N>> \in Seq(MeasurementFile)
  BY <1>1
<1>5. <<L, XmlFile, R>> \in Seq(MeasurementFile)
  BY <1>1
<1> QED BY <1>2, <1>3, <1>4, <1>5

LEMMA TwoOutputsAreOutputs ==
    ASSUME NEW f \in Formats, NEW g \in Formats
    PROVE  TwoOutputs(f, g) \in Seq([id : Outputs, format : Formats])
<1> DEFINE U == [id : Outputs, format : Formats]
           u == [id |-> "1", format |-> f]
           v == [id |-> "2", format |-> g]
<1>1. u \in U /\ v \in U
  BY DEF Outputs
<1>2. TwoOutputs(f, g) = <<u, v>>
  BY DEF TwoOutputs
<1> HIDE DEF U, u, v
<1>3. <<u, v>> \in Seq(U)
  BY <1>1
<1> QED BY <1>2, <1>3 DEF U

LEMMA OutputListsAreOutputs == \A outputs \in OutputLists : outputs \in Seq([id : Outputs, format : Formats])
<1> DEFINE U == Seq([id : Outputs, format : Formats])
<1>1. <<>> \in U
  OBVIOUS
<1>2. \A g \in {"none", "pdfStandard", "jpg"} : g \in Formats
  BY DEF Formats
<1>3. \A f \in Formats, g \in {"none", "pdfStandard", "jpg"} : TwoOutputs(f, g) \in U
  BY <1>2, TwoOutputsAreOutputs
<1> HIDE DEF U
<1> SUFFICES ASSUME NEW outputs \in OutputLists PROVE outputs \in U
  BY DEF U
<1>4. outputs = <<>> \/ \E f \in Formats, g \in {"none", "pdfStandard", "jpg"} : outputs = TwoOutputs(f, g)
  BY DEF OutputLists
<1> QED BY <1>1, <1>3, <1>4

\* The constants of the initial states are of their sets.
LEMMA ConstantsAreTyped ==
    /\ \A f \in {"none", "pdfStandard", "jpg"} : f \in Formats
    /\ "none" \in Outputs /\ "none" \in Protocols /\ "Listener" \in Protocols
    /\ \A default \in {"none", "Acknowledge"} : default \in Protocols
    /\ {} \in SUBSET Protocols /\ Known \in SUBSET Protocols
    /\ \A dest \in FolderDests : dest \in Dests
BY DEF Formats, Outputs, Protocols, Known, Dests

LEMMA FoldersAreAny ==
    ASSUME NamesOnce, exMade \subseteq Generated, exOut = <<>>, exConfig = "none", exTemps = 0, ExInitFolders
    PROVE  ExAnyInit
<1>1. PICK dest \in FolderDests, format \in Formats, output \in Outputs, files \in FileLists,
           outputs \in OutputLists :
           /\ ex = NewExport("measurement", dest, "iid", format, output, "none", FALSE)
           /\ exWorld = NewWorld(outputs, 1, files, TRUE, TRUE, {}, "none")
  BY DEF ExInitFolders
<1>4. outputs \in Seq([id : Outputs, format : Formats])
  BY <1>1, OutputListsAreOutputs
<1>5. files \in Seq(MeasurementFile)
  BY <1>1, FileListsAreFiles
<1>6. exWorld \in Surroundings
  <2>1. {} \in SUBSET Protocols /\ "none" \in Protocols /\ 1 \in 0..2 /\ TRUE \in BOOLEAN
    BY ConstantsAreTyped
  <2>2. NewWorld(outputs, 1, files, TRUE, TRUE, {}, "none") \in Surroundings
    BY <1>4, <1>5, <2>1, NewWorldIs
  <2> QED BY <1>1, <2>2
<1>7. dest \in Dests /\ "none" \in Protocols
  BY <1>1, ConstantsAreTyped
<1> QED BY <1>1, <1>6, <1>7, NewExportIsAny

LEMMA DestsAreAny ==
    ASSUME NamesOnce, exMade \subseteq Generated, exOut = <<>>, exConfig = "none", exTemps = 0, ExInitDests
    PROVE  ExAnyInit
<1>1. PICK dest \in Dests, named \in {"iid", "id", "unknown", "none"}, format \in Formats,
           protocol \in Protocols, scheme \in BOOLEAN, files \in FileLists :
           /\ ex = NewExport("measurement", dest, named, format, "none", protocol, scheme)
           /\ exWorld = NewWorld(TwoOutputs("jpg", "jpg"), 1, files, TRUE, TRUE, Known, "Listener")
  BY DEF ExInitDests
<1>2. TwoOutputs("jpg", "jpg") \in Seq([id : Outputs, format : Formats])
  BY TwoOutputsAreOutputs, ConstantsAreTyped
<1>3. files \in Seq(MeasurementFile)
  BY <1>1, FileListsAreFiles
<1>4. exWorld \in Surroundings
  <2>1. Known \in SUBSET Protocols /\ "Listener" \in Protocols /\ 1 \in 0..2 /\ TRUE \in BOOLEAN
    BY ConstantsAreTyped
  <2>2. NewWorld(TwoOutputs("jpg", "jpg"), 1, files, TRUE, TRUE, Known, "Listener") \in Surroundings
    BY <1>2, <1>3, <2>1, NewWorldIs
  <2> QED BY <1>1, <2>2
<1>5. "none" \in Outputs
  BY ConstantsAreTyped
<1> QED BY <1>1, <1>4, <1>5, NewExportIsAny

LEMMA TypesAreAny ==
    ASSUME NamesOnce, exMade \subseteq Generated, exOut = <<>>, exConfig = "none", exTemps = 0, ExInitTypes
    PROVE  ExAnyInit
<1>1. PICK type \in {"log", "monitor", "conf", "xx"}, dest \in Dests, protocol \in Protocols, folders \in 0..2,
           scheme \in BOOLEAN, serialNumber \in BOOLEAN, mounted \in BOOLEAN, default \in {"none", "Acknowledge"} :
           /\ ex = NewExport(type, dest, "none", "none", "none", protocol, scheme)
           /\ exWorld = NewWorld(<<>>, folders, <<>>, serialNumber, mounted, Known, default)
  BY DEF ExInitTypes
<1>2. <<>> \in Seq([id : Outputs, format : Formats]) /\ <<>> \in Seq(MeasurementFile)
  OBVIOUS
<1>3. default \in Protocols /\ "none" \in Formats /\ "none" \in Outputs
  BY <1>1, ConstantsAreTyped
<1>4. exWorld \in Surroundings
  BY <1>1, <1>2, <1>3, ConstantsAreTyped, NewWorldIs
<1>5. type \in {"measurement", "log", "monitor", "conf", "xx"}
  OBVIOUS
<1> QED BY <1>1, <1>3, <1>4, <1>5, NewExportIsAny

\* What is in two sequences is in their concatenation, once if they have
\* nothing in common.
LEMMA ConcatOnce ==
    ASSUME NEW S, NEW s \in Seq(S), NEW t \in Seq(S)
    PROVE  /\ s \o t \in Seq(S) /\ Range(s \o t) = Range(s) \cup Range(t)
           /\ IsInjective(s) /\ IsInjective(t) /\ Range(s) \cap Range(t) = {} => IsInjective(s \o t)
<1> DEFINE c == s \o t
           m == Len(s)
           n == Len(t)
<1>1. m \in Nat /\ n \in Nat /\ DOMAIN s = 1..m /\ DOMAIN t = 1..n
  BY LenProperties
<1>2. /\ c \in Seq(S) /\ Len(c) = m + n /\ DOMAIN c = 1..(m + n)
      /\ \A i \in 1..(m + n) : c[i] = IF i <= m THEN s[i] ELSE t[i - m]
  BY ConcatProperties, LenProperties
<1> HIDE DEF c, m, n
<1>3. \A i \in 1..m : i \in 1..(m + n) /\ c[i] = s[i]
  BY <1>1, <1>2
<1>4. \A i \in 1..n : m + i \in 1..(m + n) /\ c[m + i] = t[i]
  BY <1>1, <1>2
<1>5. \A i \in 1..(m + n) : i \in 1..m \/ (i - m \in 1..n /\ i = m + (i - m))
  BY <1>1
<1>6. Range(c) = Range(s) \cup Range(t)
  <2>1. Range(c) = {c[i] : i \in 1..(m + n)} /\ Range(s) = {s[i] : i \in 1..m} /\ Range(t) = {t[i] : i \in 1..n}
    BY <1>1, <1>2 DEF Range
  <2>2. ASSUME NEW x \in Range(c) PROVE x \in Range(s) \cup Range(t)
    BY <1>3, <1>4, <1>5, <2>1
  <2>3. ASSUME NEW x \in Range(s) PROVE x \in Range(c)
    BY <1>3, <2>1
  <2>4. ASSUME NEW x \in Range(t) PROVE x \in Range(c)
    BY <1>4, <2>1
  <2> QED BY <2>2, <2>3, <2>4
<1>7. ASSUME IsInjective(s), IsInjective(t), Range(s) \cap Range(t) = {} PROVE IsInjective(c)
  <2>1. \A i \in 1..m, j \in 1..m : s[i] = s[j] => i = j
    BY <1>1, <1>7 DEF IsInjective
  <2>2. \A i \in 1..n, j \in 1..n : t[i] = t[j] => i = j
    BY <1>1, <1>7 DEF IsInjective
  <2>3. \A i \in 1..m, j \in 1..n : s[i] # t[j]
    <3>1. \A i \in 1..m : s[i] \in Range(s)
      BY <1>1 DEF Range
    <3>2. \A j \in 1..n : t[j] \in Range(t)
      BY <1>1 DEF Range
    <3> QED BY <1>7, <3>1, <3>2
  <2> SUFFICES ASSUME NEW i \in 1..(m + n), NEW j \in 1..(m + n), c[i] = c[j] PROVE i = j
    BY <1>2 DEF IsInjective
  <2>4. CASE i \in 1..m /\ j \in 1..m
    BY <1>3, <2>1, <2>4
  <2>5. CASE i \in 1..m /\ j - m \in 1..n
    <3>1. c[i] = s[i] /\ c[j] = t[j - m]
      <4>1. m + (j - m) = j
        BY <1>1
      <4> QED BY <1>3, <1>4, <2>5, <4>1
    <3> QED BY <2>3, <2>5, <3>1
  <2>6. CASE i - m \in 1..n /\ j \in 1..m
    <3>1. c[j] = s[j] /\ c[i] = t[i - m]
      <4>1. m + (i - m) = i
        BY <1>1
      <4> QED BY <1>3, <1>4, <2>6, <4>1
    <3> QED BY <2>3, <2>6, <3>1
  <2>7. CASE i - m \in 1..n /\ j - m \in 1..n
    <3>1. t[i - m] = t[j - m]
      BY <1>1, <1>4, <2>7
    <3>2. i - m = j - m
      BY <2>2, <2>7, <3>1
    <3> QED BY <1>1, <3>2
  <2> QED BY <1>5, <2>4, <2>5, <2>6, <2>7
<1> QED BY <1>2, <1>6, <1>7 DEF c

\* What is in the first n sequences of s.
Within(s, S, n) == {x \in S : \E i \in 1..n : x \in Range(s[i])}

Apart(s) == /\ \A i \in DOMAIN s : IsInjective(s[i])
            /\ \A i, j \in DOMAIN s : i # j => Range(s[i]) \cap Range(s[j]) = {}

\* What is in a sequence of sequences is in what FlattenSeq makes of it, once
\* if each has it once and no two have it.
LEMMA FlattenOnce ==
    ASSUME NEW S, NEW s \in Seq(Seq(S))
    PROVE  /\ FlattenSeq(s) \in Seq(S) /\ Range(FlattenSeq(s)) = Within(s, S, Len(s))
           /\ Apart(s) => IsInjective(FlattenSeq(s))
<1> DEFINE N == Len(s)
<1>1. N \in Nat /\ DOMAIN s = 1..N /\ \A i \in 1..N : s[i] \in Seq(S)
  BY LenProperties, ElementOfSeq
<1>2. CASE s = <<>>
  <2>1. FlattenSeq(s) = <<>> /\ N = 0
    BY <1>2 DEF FlattenSeq
  <2>2. Range(<<>>) = {} /\ IsInjective(<<>>)
    BY DEF Range, IsInjective
  <2>3. Within(s, S, 0) = {}
    BY DEF Within
  <2> QED BY <2>1, <2>2, <2>3
<1>3. CASE s # <<>>
  <2>1. PICK f \in [1..N -> Seq(S)] : Flattens(f, s, N) /\ FlattenSeq(s) = f[N]
    BY <1>3, FlattenIs
  <2>2. N # 0
    BY <1>3, EmptySeq
  <2> HIDE DEF N
  <2> DEFINE Good(n) == Range(f[n]) = Within(s, S, n) /\ (Apart(s) => IsInjective(f[n]))
             T == {n \in Nat : n \in 1..N => Good(n)}
  <2>3. 0 \in T
    BY <1>1
  <2>4. ASSUME NEW n \in T PROVE n + 1 \in T
    <3> SUFFICES ASSUME n + 1 \in 1..N PROVE Good(n + 1)
      BY <2>4
    <3>1. f[n + 1] = IF n = 0 THEN s[n + 1] ELSE f[n] \o s[n + 1]
      <4>1. f[n + 1] = IF n + 1 = 1 THEN s[n + 1] ELSE f[(n + 1) - 1] \o s[n + 1]
        BY <2>1 DEF Flattens
      <4>2. (n + 1 = 1 <=> n = 0) /\ (n + 1) - 1 = n
        BY <2>4
      <4> QED BY <4>1, <4>2
    <3>2. s[n + 1] \in Seq(S) /\ Range(s[n + 1]) \subseteq S
      <4>1. s[n + 1] \in Seq(S)
        BY <1>1
      <4> DEFINE e == s[n + 1]
      <4>2. e \in Seq(S)
        BY <4>1
      <4> HIDE DEF e
      <4>3. Range(e) \subseteq S
        BY <4>2 DEF Range
      <4> QED BY <4>1, <4>3 DEF e
    <3>3. Apart(s) => IsInjective(s[n + 1])
      BY <1>1 DEF Apart
    <3>4. Within(s, S, n + 1) = Within(s, S, n) \cup Range(s[n + 1])
      <4>1. \A i \in 1..(n + 1) : i \in 1..n \/ i = n + 1
        BY <2>4
      <4>2. (\A i \in 1..n : i \in 1..(n + 1)) /\ n + 1 \in 1..(n + 1)
        BY <2>4
      <4> QED BY <3>2, <4>1, <4>2 DEF Within
    <3>5. CASE n = 0
      <4>1. Within(s, S, n) = {}
        BY <3>5 DEF Within
      <4> QED BY <3>1, <3>3, <3>4, <3>5, <4>1
    <3>6. CASE n # 0
      <4>1. n \in 1..N
        BY <1>1, <2>4, <3>6
      <4>2. Good(n) /\ f[n] \in Seq(S)
        BY <2>1, <2>4, <4>1
      <4>3. Apart(s) => Range(f[n]) \cap Range(s[n + 1]) = {}
        <5>1. ASSUME Apart(s), NEW i \in 1..n PROVE Range(s[i]) \cap Range(s[n + 1]) = {}
          <6>1. i \in DOMAIN s /\ n + 1 \in DOMAIN s /\ i # n + 1
            BY <1>1, <2>4
          <6> QED BY <5>1, <6>1 DEF Apart
        <5> QED BY <4>2, <5>1 DEF Within
      <4> HIDE DEF Good
      <4>4. Range(f[n] \o s[n + 1]) = Range(f[n]) \cup Range(s[n + 1])
        BY <3>2, <4>2, ConcatOnce
      <4>5. Apart(s) => IsInjective(f[n] \o s[n + 1])
        <5>1. Apart(s) => IsInjective(f[n])
          BY <4>2 DEF Good
        <5> QED BY <3>2, <3>3, <4>2, <4>3, <5>1, ConcatOnce
      <4> QED BY <3>1, <3>4, <3>6, <4>2, <4>4, <4>5 DEF Good
    <3> QED BY <3>5, <3>6
  <2>5. T = Nat
    <3> HIDE DEF T
    <3>1. T \in SUBSET Nat
      BY DEF T
    <3> QED BY <2>3, <2>4, <3>1, NumberInduction
  <2>6. N \in 1..N
    BY <1>1, <2>2
  <2>7. Good(N)
    BY <1>1, <2>5, <2>6
  <2> QED BY <2>1, <2>6, <2>7 DEF N
<1> QED BY <1>2, <1>3

\* As many as it has, if it has each once.
LEMMA OnceLen ==
    ASSUME NEW S, NEW s \in Seq(S), IsInjective(s)
    PROVE  IsFiniteSet(Range(s)) /\ Cardinality(Range(s)) = Len(s)
<1> DEFINE n == Len(s)
           R == Range(s)
<1>1. n \in Nat /\ DOMAIN s = 1..n
  BY LenProperties
<1>2. s \in [1..n -> R] /\ \A x \in R : \E i \in 1..n : s[i] = x
  BY <1>1 DEF Range
<1>3. \A i, j \in 1..n : s[i] = s[j] => i = j
  BY <1>1 DEF IsInjective
<1> HIDE DEF n, R
<1>4. s \in Bijection(1..n, R)
  BY <1>2, <1>3 DEF Bijection, Injection, Surjection
<1>5. ExistsBijection(1..n, R)
  BY <1>4 DEF ExistsBijection
<1>6. IsFiniteSet(1..n) /\ Cardinality(1..n) = n
  BY <1>1, FS_Interval
<1> QED BY <1>5, <1>6, FS_Bijection DEF n, R

Entry == [folder : Outputs, file : Generated]
Folder == [id : Outputs, format : Formats]

\* What Those keeps.
LEMMA ThoseAre ==
    ASSUME NEW S, NEW s \in Seq(S), NEW A
    PROVE  /\ Those(s, A) \in Seq(S) /\ Range(Those(s, A)) = Range(s) \cap A
           /\ IsInjective(s) => IsInjective(Those(s, A))
<1> DEFINE p == [k \in DOMAIN s |-> IF s[k] \in A THEN <<s[k]>> ELSE <<>>]
           n == Len(s)
<1>1. n \in Nat /\ DOMAIN s = 1..n /\ \A k \in 1..n : s[k] \in S
  BY LenProperties, ElementOfSeq
<1>2. p = [k \in 1..n |-> IF s[k] \in A THEN <<s[k]>> ELSE <<>>]
  BY <1>1
<1>3. \A k \in 1..n : (IF s[k] \in A THEN <<s[k]>> ELSE <<>>) \in Seq(S)
  <2> SUFFICES ASSUME NEW k \in 1..n PROVE (IF s[k] \in A THEN <<s[k]>> ELSE <<>>) \in Seq(S)
    OBVIOUS
  <2> DEFINE e == s[k]
  <2>1. e \in S
    BY <1>1
  <2> HIDE DEF e
  <2>2. <<e>> \in Seq(S) /\ <<>> \in Seq(S)
    BY <2>1
  <2> QED BY <2>2 DEF e
<1>4. p \in Seq(Seq(S)) /\ Len(p) = n /\ DOMAIN p = 1..n
  <2> DEFINE T == Seq(S)
             e(k) == IF s[k] \in A THEN <<s[k]>> ELSE <<>>
  <2>1. \A k \in 1..n : e(k) \in T
    BY <1>3
  <2> HIDE DEF T, e
  <2>2. [k \in 1..n |-> e(k)] \in Seq(T) /\ Len([k \in 1..n |-> e(k)]) = n
    BY <1>1, <2>1
  <2> QED BY <1>2, <2>2 DEF T, e
<1>5. \A k \in 1..n : p[k] = IF s[k] \in A THEN <<s[k]>> ELSE <<>>
  BY <1>2
<1>6. \A k \in 1..n : Range(p[k]) = {s[k]} \cap A /\ IsInjective(p[k])
  <2> SUFFICES ASSUME NEW k \in 1..n PROVE Range(p[k]) = {s[k]} \cap A /\ IsInjective(p[k])
    OBVIOUS
  <2> HIDE DEF p
  <2>1. CASE s[k] \in A
    <3>1. p[k] = <<s[k]>>
      BY <1>5, <2>1
    <3>2. DOMAIN p[k] = {1} /\ p[k][1] = s[k]
      BY <3>1
    <3> QED BY <2>1, <3>2 DEF Range, IsInjective
  <2>2. CASE s[k] \notin A
    <3>1. p[k] = <<>>
      BY <1>5, <2>2
    <3>2. DOMAIN p[k] = {}
      BY <3>1
    <3> QED BY <2>2, <3>2 DEF Range, IsInjective
  <2> QED BY <2>1, <2>2
<1>7. Those(s, A) = FlattenSeq(p)
  BY DEF Those
<1> HIDE DEF p, n
<1>8. /\ FlattenSeq(p) \in Seq(S) /\ Range(FlattenSeq(p)) = Within(p, S, n)
      /\ Apart(p) => IsInjective(FlattenSeq(p))
  BY <1>4, FlattenOnce
<1>9. Within(p, S, n) = Range(s) \cap A
  <2>1. Within(p, S, n) = {x \in S : \E k \in 1..n : x = s[k] /\ x \in A}
    BY <1>6 DEF Within
  <2>2. Range(s) = {s[k] : k \in 1..n}
    BY <1>1 DEF Range
  <2> QED BY <1>1, <2>1, <2>2
<1>10. IsInjective(s) => Apart(p)
  <2> SUFFICES ASSUME IsInjective(s) PROVE Apart(p)
    OBVIOUS
  <2>1. \A i, j \in 1..n : i # j => s[i] # s[j]
    BY <1>1 DEF IsInjective
  <2>2. \A i \in 1..n : IsInjective(p[i])
    BY <1>6
  <2>3. ASSUME NEW i \in 1..n, NEW j \in 1..n, i # j PROVE Range(p[i]) \cap Range(p[j]) = {}
    <3>1. Range(p[i]) \subseteq {s[i]} /\ Range(p[j]) \subseteq {s[j]}
      BY <1>6
    <3>2. s[i] # s[j]
      BY <2>1, <2>3
    <3> QED BY <3>1, <3>2
  <2> QED BY <1>4, <2>2, <2>3 DEF Apart
<1> QED BY <1>7, <1>8, <1>9, <1>10

\* The postprocessors.
LEMMA ProcessorsAre ==
    /\ PostProcessors \in Seq(Range(PostProcessors))
    /\ \A p, q \in Range(PostProcessors) : \A format :
          Contains(p.formats, format) /\ Contains(q.formats, format) => p = q
    /\ \A p \in Range(PostProcessors) : p.input \in {"xml", "bmp"} => p.ext \in {"pdf", "jpg"}
<1> DEFINE pdf == [id |-> "PDF", input |-> "xml", ext |-> "pdf", formats |-> <<"pdfStandard", "pdfEnhanced">>]
           jpg == [id |-> "JPG", input |-> "bmp", ext |-> "jpg", formats |-> <<"jpg">>]
           odd == [id |-> "ODD", input |-> "odd", ext |-> "odd", formats |-> <<"odd">>]
<1>1. PostProcessors = <<pdf, jpg, odd>>
  BY DEF PostProcessors
<1>2. \A format : /\ Contains(pdf.formats, format) <=> format \in {"pdfStandard", "pdfEnhanced"}
                  /\ Contains(jpg.formats, format) <=> format = "jpg"
                  /\ Contains(odd.formats, format) <=> format = "odd"
  BY DEF Contains
<1>3. pdf.input = "xml" /\ jpg.input = "bmp" /\ odd.input = "odd" /\ pdf.ext = "pdf" /\ jpg.ext = "jpg"
  OBVIOUS
<1> HIDE DEF pdf, jpg, odd
<1>4. Range(PostProcessors) = {pdf, jpg, odd}
  <2>1. DOMAIN PostProcessors = {1, 2, 3} /\ PostProcessors[1] = pdf /\ PostProcessors[2] = jpg /\ PostProcessors[3] = odd
    BY <1>1
  <2> QED BY <2>1 DEF Range
<1>5. PostProcessors \in Seq({pdf, jpg, odd})
  BY <1>1
<1>6. \A p, q \in {pdf, jpg, odd} : \A format :
          Contains(p.formats, format) /\ Contains(q.formats, format) => p = q
  BY <1>2
<1> QED BY <1>3, <1>4, <1>5, <1>6

\* The files of the measurement that p reads.
Inputs(p) == {f \in Range(exWorld.files) : f.kind = p.input}

\* What is generated of them.
FileNames(format) ==
    UNION {{GeneratedName(p, format, f) : f \in Inputs(p)} :
           p \in {q \in Range(PostProcessors) : Contains(q.formats, format)}}

\* The name of a generated file tells the one it is of.
LEMMA NamesDiffer ==
    ASSUME NEW p \in Range(PostProcessors), p.input \in {"xml", "bmp"}, NEW format,
           NEW f \in MeasurementFile, NEW g \in MeasurementFile
    PROVE  /\ GeneratedName(p, format, f) \in Generated
           /\ f.kind = g.kind /\ GeneratedName(p, format, f) = GeneratedName(p, format, g) => f = g
<1>1. p.ext \in {"pdf", "jpg"}
  BY ProcessorsAre
<1>2. FormatTag(format) \in {"_std", "_enh"}
  BY DEF FormatTag
<1>3. f = [kind |-> f.kind, tag |-> f.tag] /\ g = [kind |-> g.kind, tag |-> g.tag]
      /\ f.tag \in {"none", "_L", "_R"} /\ g.tag \in {"none", "_L", "_R"}
  BY DEF MeasurementFile
<1> DEFINE F == IF f.tag # "none" THEN f.tag ELSE FormatTag(format)
           G == IF g.tag # "none" THEN g.tag ELSE FormatTag(format)
<1>4. F \in {"_std", "_enh", "_L", "_R"} /\ (F = G => f.tag = g.tag)
  BY <1>2, <1>3
<1>5. GeneratedName(p, format, f) = <<p.ext, F>> /\ GeneratedName(p, format, g) = <<p.ext, G>>
  BY DEF GeneratedName
<1> HIDE DEF F, G
<1>6. <<p.ext, F>> \in Generated
  BY <1>1, <1>4 DEF Generated
<1>7. <<p.ext, F>> = <<p.ext, G>> => F = G
  OBVIOUS
<1> QED BY <1>3, <1>4, <1>5, <1>6, <1>7

\* The entries of a folder are the files that are generated in its format.
LEMMA EntriesAre ==
    ASSUME exWorld.files \in Seq(MeasurementFile), NEW dest \in Dests, NEW format \in Formats, NEW folder \in Outputs
    PROVE  LET E == Entries(dest, format, folder) IN
           /\ E \in Seq(Entry) /\ \A k \in DOMAIN E : E[k].folder = folder
           /\ IsInjective(exWorld.files) => IsInjective(E)
           /\ E # <<>> => {E[k].file : k \in DOMAIN E} = FileNames(format)
<1> DEFINE pps == ProcessorsFor[dest][format]
           A == {pp \in Range(PostProcessors) : pp.id \in PostProcessorsOf(dest) /\ Contains(pp.formats, format)}
           E == Entries(dest, format, folder)
<1>1. pps \in Seq(Range(PostProcessors)) /\ Range(pps) = Range(PostProcessors) \cap A
  BY ThoseAre, ProcessorsAre DEF ProcessorsFor
<1>2. E = IF pps = <<>> THEN <<>>
          ELSE [k \in DOMAIN GeneratedFiles(pps[1], format) |->
                    [folder |-> folder, file |-> GeneratedFiles(pps[1], format)[k]]]
  BY DEF Entries
<1> HIDE DEF E, pps
<1>3. CASE pps = <<>>
  <2>1. E = <<>>
    BY <1>2, <1>3
  <2>2. <<>> \in Seq(Entry) /\ DOMAIN <<>> = {} /\ IsInjective(<<>>)
    BY DEF IsInjective
  <2> QED BY <2>1, <2>2 DEF E
<1>4. CASE pps # <<>>
  <2> DEFINE p == pps[1]
             F == exWorld.files
             I == Those(F, {f \in MeasurementFile : f.kind = p.input})
             m == Len(I)
  <2>1. p \in Range(PostProcessors) /\ Contains(p.formats, format)
    <3>1. 1 \in DOMAIN pps
      BY <1>1, <1>4, EmptySeq, LenProperties
    <3>2. p \in Range(pps)
      BY <3>1 DEF Range
    <3> QED BY <1>1, <3>2
  <2>2. I \in Seq(MeasurementFile) /\ Range(I) = Range(F) \cap {f \in MeasurementFile : f.kind = p.input}
        /\ (IsInjective(F) => IsInjective(I))
    BY ThoseAre
  <2>3. m \in Nat /\ DOMAIN I = 1..m /\ \A k \in 1..m : I[k] \in MeasurementFile
    BY <2>2, LenProperties, ElementOfSeq
  <2>4. GeneratedFiles(p, format) = [k \in 1..m |-> GeneratedName(p, format, I[k])]
    BY <2>3 DEF GeneratedFiles
  <2>5. E = [k \in 1..m |-> [folder |-> folder, file |-> GeneratedName(p, format, I[k])]]
    <3> HIDE DEF p
    <3>1. E = [k \in DOMAIN GeneratedFiles(p, format) |-> [folder |-> folder, file |-> GeneratedFiles(p, format)[k]]]
      BY <1>2, <1>4 DEF p
    <3> HIDE DEF I, m
    <3> QED BY <2>4, <3>1
  <2> HIDE DEF I, m, p
  <2>6. \A k \in 1..m : I[k] \in Range(F) /\ I[k].kind = p.input
    <3>1. \A k \in 1..m : I[k] \in Range(I)
      BY <2>3 DEF Range
    <3> QED BY <2>2, <3>1
  <2>7. \A f \in Inputs(p) : \E k \in 1..m : I[k] = f
    <3>1. Range(F) \subseteq MeasurementFile
      BY RangeOfSeq
    <3>2. Inputs(p) \subseteq Range(I)
      BY <2>2, <3>1 DEF Inputs
    <3>3. Range(I) = {I[k] : k \in 1..m}
      BY <2>3 DEF Range
    <3> QED BY <3>2, <3>3
  <2>8. \A k \in 1..m : p.input \in {"xml", "bmp"}
    <3>1. \A k \in 1..m : I[k].kind \in {"xml", "bmp"}
      BY <2>3 DEF MeasurementFile
    <3> QED BY <2>6, <3>1
  <2>9. \A k \in 1..m : GeneratedName(p, format, I[k]) \in Generated
    BY <2>1, <2>3, <2>8, NamesDiffer
  <2>10. E \in Seq(Entry) /\ DOMAIN E = 1..m
    <3> DEFINE e(k) == [folder |-> folder, file |-> GeneratedName(p, format, I[k])]
    <3>1. \A k \in 1..m : e(k) \in Entry
      BY <2>9 DEF Entry
    <3> HIDE DEF e
    <3>2. [k \in 1..m |-> e(k)] \in Seq(Entry)
      BY <2>3, <3>1
    <3> QED BY <2>5, <3>2 DEF e
  <2>11. \A k \in 1..m : E[k].folder = folder /\ E[k].file = GeneratedName(p, format, I[k])
    BY <2>5
  <2>12. ASSUME IsInjective(F) PROVE IsInjective(E)
    <3> SUFFICES ASSUME NEW i \in 1..m, NEW j \in 1..m, E[i] = E[j] PROVE i = j
      BY <2>10 DEF IsInjective
    <3>1. GeneratedName(p, format, I[i]) = GeneratedName(p, format, I[j])
      BY <2>11
    <3>2. I[i] = I[j]
      BY <2>1, <2>3, <2>6, <2>8, <3>1, NamesDiffer
    <3> QED BY <2>2, <2>3, <2>12, <3>2 DEF IsInjective
  <2>13. {E[k].file : k \in 1..m} = FileNames(format)
    <3>1. FileNames(format) = {GeneratedName(p, format, f) : f \in Inputs(p)}
      <4>1. {q \in Range(PostProcessors) : Contains(q.formats, format)} = {p}
        BY <2>1, ProcessorsAre
      <4> QED BY <4>1 DEF FileNames
    <3>2. \A k \in 1..m : I[k] \in Inputs(p)
      BY <2>6 DEF Inputs
    <3>3. {E[k].file : k \in 1..m} = {GeneratedName(p, format, I[k]) : k \in 1..m}
      BY <2>11
    <3> QED BY <2>7, <3>1, <3>2, <3>3
  <2> QED BY <2>10, <2>11, <2>12, <2>13 DEF E
<1> QED BY <1>3, <1>4

\* The folders of a call, and what is to arrive in them.
TargetsOf(c) ==
    IF c.dest \in FolderDests
    THEN {o \in Range(exWorld.outputs) : /\ c.output \in {"none", o.id}
                                         /\ c.format \in {"none", o.format} /\ o.format # "none"}
    ELSE {[id |-> "none", format |-> c.format]}

WantedOf(c) == UNION {{<<o.id, x>> : x \in FileNames(o.format)} : o \in TargetsOf(c)}

LEMMA WantedIs == Wanted = WantedOf(ex)
<1> DEFINE tag(o, f) == IF f.tag = "none" THEN FormatTag(o.format) ELSE f.tag
           P == Range(PostProcessors)
           X(pp) == UNION {{<<o.id, <<pp.ext, tag(o, f)>>>> : f \in {g \in Range(exWorld.files) : g.kind = pp.input}} :
                     o \in {t \in TargetsOf(ex) : Contains(pp.formats, t.format)}}
<1>1. Wanted = UNION {X(pp) : pp \in P}
  BY DEF Wanted, TargetsOf
<1>2. \A pp, o, f : <<pp.ext, tag(o, f)>> = GeneratedName(pp, o.format, f)
  BY DEF GeneratedName
<1> HIDE DEF tag, P
<1>3. \A w : w \in Wanted <=> \E pp \in P, o \in TargetsOf(ex) : \E f \in Inputs(pp) :
                Contains(pp.formats, o.format) /\ w = <<o.id, GeneratedName(pp, o.format, f)>>
  <2>1. \A pp : \A w : w \in X(pp) <=> \E o \in TargetsOf(ex) : \E f \in Inputs(pp) :
                Contains(pp.formats, o.format) /\ w = <<o.id, GeneratedName(pp, o.format, f)>>
    <3> SUFFICES ASSUME NEW pp, NEW w
                 PROVE  w \in X(pp) <=> \E o \in TargetsOf(ex) : \E f \in Inputs(pp) :
                           Contains(pp.formats, o.format) /\ w = <<o.id, GeneratedName(pp, o.format, f)>>
      OBVIOUS
    <3> DEFINE Y(o) == {<<o.id, <<pp.ext, tag(o, f)>>>> : f \in {g \in Range(exWorld.files) : g.kind = pp.input}}
               T == {t \in TargetsOf(ex) : Contains(pp.formats, t.format)}
    <3>1. X(pp) = UNION {Y(o) : o \in T}
      OBVIOUS
    <3>2. \A o : w \in Y(o) <=> \E f \in Inputs(pp) : w = <<o.id, GeneratedName(pp, o.format, f)>>
      <4> SUFFICES ASSUME NEW o PROVE w \in Y(o) <=> \E f \in Inputs(pp) : w = <<o.id, GeneratedName(pp, o.format, f)>>
        OBVIOUS
      <4>1. \A f : tag(o, f) = tag(o, f) /\ <<pp.ext, tag(o, f)>> = GeneratedName(pp, o.format, f)
        BY <1>2
      <4> QED BY <4>1 DEF Inputs
    <3> HIDE DEF X, Y
    <3>3. w \in X(pp) <=> \E o \in T : w \in Y(o)
      BY <3>1
    <3> QED BY <3>2, <3>3
  <2> HIDE DEF X
  <2>2. \A w : w \in Wanted <=> \E pp \in P : w \in X(pp)
    BY <1>1
  <2> QED BY <2>1, <2>2
<1>4. \A w : w \in WantedOf(ex) <=> \E pp \in P, o \in TargetsOf(ex) : \E f \in Inputs(pp) :
                Contains(pp.formats, o.format) /\ w = <<o.id, GeneratedName(pp, o.format, f)>>
  <2>1. \A format : \A x : x \in FileNames(format) <=> \E pp \in P : \E f \in Inputs(pp) :
                Contains(pp.formats, format) /\ x = GeneratedName(pp, format, f)
    BY DEF FileNames, P
  <2>2. \A w : w \in WantedOf(ex) <=> \E o \in TargetsOf(ex) : \E x \in FileNames(o.format) : w = <<o.id, x>>
    BY DEF WantedOf
  <2> QED BY <2>1, <2>2
<1> QED BY <1>3, <1>4

\* The queue q names what the call c wants.
Queued(c, q) ==
    /\ q \in Seq(Entry)
    /\ q # <<>> => {Arrival(q[k]) : k \in DOMAIN q} = WantedOf(c)
    /\ NamesOnce => IsInjective(q)

\* One queue for all folders.
LEMMA FolderQueueIs ==
    ASSUME exWorld \in Surroundings, NEW c, c.dest \in FolderDests
    PROVE  Queued(c, FolderQueue(c, Formatted(c)))
<1> DEFINE O == exWorld.outputs
           B == {f \in Matching(c) : f.format # "none"}
           F == Those(O, B)
           n == Len(F)
           qs == [k \in DOMAIN F |-> Entries(c.dest, F[k].format, F[k].id)]
           q == FolderQueue(c, Formatted(c))
<1>1. O \in Seq(Folder) /\ exWorld.files \in Seq(MeasurementFile)
  BY DEF Surroundings, Folder
<1>2. c.dest \in Dests
  BY DEF Dests
<1>3. F \in Seq(Folder) /\ Range(F) = Range(O) \cap B /\ (IsInjective(O) => IsInjective(F))
  BY <1>1, ThoseAre
<1>4. Range(F) = TargetsOf(c)
  BY <1>3 DEF TargetsOf, Matching
<1>5. n \in Nat /\ DOMAIN F = 1..n /\ \A k \in 1..n : F[k] \in Folder /\ F[k].id \in Outputs /\ F[k].format \in Formats
  <2>1. n \in Nat /\ DOMAIN F = 1..n /\ \A k \in 1..n : F[k] \in Folder
    BY <1>3, LenProperties, ElementOfSeq
  <2> QED BY <2>1 DEF Folder
<1>6. q = <<>> \/ (q = FlattenSeq(qs) /\ \A k \in 1..n : qs[k] # <<>>)
  <2>1. DOMAIN qs = DOMAIN F
    OBVIOUS
  <2> QED BY <1>5, <2>1 DEF FolderQueue, Formatted
<1>7. qs = [k \in 1..n |-> Entries(c.dest, F[k].format, F[k].id)]
  BY <1>5
<1> HIDE DEF q, qs, n, F, O, B
<1>8. \A k \in 1..n :
        /\ qs[k] \in Seq(Entry) /\ \A j \in DOMAIN qs[k] : qs[k][j].folder = F[k].id
        /\ IsInjective(exWorld.files) => IsInjective(qs[k])
        /\ qs[k] # <<>> => {qs[k][j].file : j \in DOMAIN qs[k]} = FileNames(F[k].format)
  <2> SUFFICES ASSUME NEW k \in 1..n
               PROVE /\ qs[k] \in Seq(Entry) /\ \A j \in DOMAIN qs[k] : qs[k][j].folder = F[k].id
                     /\ IsInjective(exWorld.files) => IsInjective(qs[k])
                     /\ qs[k] # <<>> => {qs[k][j].file : j \in DOMAIN qs[k]} = FileNames(F[k].format)
    OBVIOUS
  <2> DEFINE E == Entries(c.dest, F[k].format, F[k].id)
  <2>1. qs[k] = E
    BY <1>7
  <2>2. /\ E \in Seq(Entry) /\ \A j \in DOMAIN E : E[j].folder = F[k].id
        /\ IsInjective(exWorld.files) => IsInjective(E)
        /\ E # <<>> => {E[j].file : j \in DOMAIN E} = FileNames(F[k].format)
    BY <1>1, <1>2, <1>5, EntriesAre
  <2> HIDE DEF E
  <2> QED BY <2>1, <2>2
<1>9. qs \in Seq(Seq(Entry)) /\ Len(qs) = n /\ DOMAIN qs = 1..n
  <2> DEFINE T == Seq(Entry)
  <2>1. \A k \in 1..n : Entries(c.dest, F[k].format, F[k].id) \in T
    BY <1>7, <1>8
  <2> HIDE DEF T
  <2>2. qs \in Seq(T) /\ Len(qs) = n /\ DOMAIN qs = 1..n
    BY <1>5, <1>7, <2>1
  <2> QED BY <2>2 DEF T
<1> DEFINE all == FlattenSeq(qs)
<1>10. all \in Seq(Entry) /\ Range(all) = Within(qs, Entry, n) /\ (Apart(qs) => IsInjective(all))
  BY <1>9, FlattenOnce
<1> HIDE DEF all
<1>11. ASSUME NamesOnce PROVE Apart(qs)
  <2>1. IsInjective(O) /\ \A f, g \in Range(O) : f.id = g.id => f = g
    <3>1. \A i, j \in DOMAIN O : O[i].id = O[j].id => i = j
      BY <1>11 DEF NamesOnce, O
    <3>2. IsInjective(O)
      BY <3>1 DEF IsInjective
    <3>3. \A f, g \in Range(O) : f.id = g.id => f = g
      BY <3>1 DEF Range
    <3> QED BY <3>2, <3>3
  <2>2. \A i, j \in 1..n : i # j => F[i].id # F[j].id
    <3> SUFFICES ASSUME NEW i \in 1..n, NEW j \in 1..n, F[i].id = F[j].id PROVE i = j
      OBVIOUS
    <3>1. F[i] \in Range(F) /\ F[j] \in Range(F) /\ Range(F) \subseteq Range(O)
      BY <1>3, <1>5 DEF Range
    <3>2. F[i] = F[j]
      BY <2>1, <3>1
    <3>3. IsInjective(F)
      BY <1>3, <2>1
    <3> QED BY <1>5, <3>2, <3>3 DEF IsInjective
  <2>3. \A i \in 1..n : IsInjective(qs[i])
    BY <1>8, <1>11 DEF NamesOnce
  <2>4. ASSUME NEW i \in 1..n, NEW j \in 1..n, i # j PROVE Range(qs[i]) \cap Range(qs[j]) = {}
    <3>1. \A x \in Range(qs[i]) : x.folder = F[i].id
      BY <1>8 DEF Range
    <3>2. \A x \in Range(qs[j]) : x.folder = F[j].id
      BY <1>8 DEF Range
    <3> QED BY <2>2, <2>4, <3>1, <3>2
  <2> QED BY <1>9, <2>3, <2>4 DEF Apart
<1>12. ASSUME \A k \in 1..n : qs[k] # <<>> PROVE {Arrival(all[k]) : k \in DOMAIN all} = WantedOf(c)
  <2>1. Range(all) = {all[k] : k \in DOMAIN all}
    BY DEF Range
  <2>2. \A w : w \in {Arrival(all[k]) : k \in DOMAIN all} <=> \E x \in Range(all) : w = Arrival(x)
    BY <2>1
  <2>3. \A x : x \in Range(all) <=> \E k \in 1..n : x \in Range(qs[k])
    <3>1. \A k \in 1..n : Range(qs[k]) \subseteq Entry
      BY <1>8, RangeOfSeq
    <3> QED BY <1>10, <3>1 DEF Within
  <2>4. \A k \in 1..n : \A w : (\E x \in Range(qs[k]) : w = Arrival(x)) <=> \E y \in FileNames(F[k].format) : w = <<F[k].id, y>>
    <3> SUFFICES ASSUME NEW k \in 1..n, NEW w
                 PROVE (\E x \in Range(qs[k]) : w = Arrival(x)) <=> \E y \in FileNames(F[k].format) : w = <<F[k].id, y>>
      OBVIOUS
    <3> DEFINE e == qs[k]
               N == FileNames(F[k].format)
    <3>1. (\A j \in DOMAIN e : e[j].folder = F[k].id) /\ {e[j].file : j \in DOMAIN e} = N
      BY <1>8, <1>12
    <3> HIDE DEF e, N
    <3>2. (\E x \in Range(e) : w = Arrival(x)) <=> \E j \in DOMAIN e : w = Arrival(e[j])
      BY DEF Range
    <3>3. \A j \in DOMAIN e : Arrival(e[j]) = <<F[k].id, e[j].file>>
      BY <3>1 DEF Arrival
    <3>4. (\E j \in DOMAIN e : w = <<F[k].id, e[j].file>>) <=> \E y \in N : w = <<F[k].id, y>>
      BY <3>1
    <3> QED BY <3>2, <3>3, <3>4 DEF e, N
  <2>5. \A w : w \in WantedOf(c) <=> \E o \in TargetsOf(c) : \E y \in FileNames(o.format) : w = <<o.id, y>>
    BY DEF WantedOf
  <2>6. \A o : o \in TargetsOf(c) <=> \E k \in 1..n : o = F[k]
    BY <1>4, <1>5 DEF Range
  <2>7. \A w : w \in WantedOf(c) <=> \E k \in 1..n : \E y \in FileNames(F[k].format) : w = <<F[k].id, y>>
    BY <2>5, <2>6
  <2>8. \A w : (\E x \in Range(all) : w = Arrival(x)) <=> \E k \in 1..n : \E x \in Range(qs[k]) : w = Arrival(x)
    BY <2>3
  <2> DEFINE arrivals == {Arrival(all[k]) : k \in DOMAIN all}
             wanted == WantedOf(c)
  <2>9. \A w : w \in arrivals <=> \E k \in 1..n : \E x \in Range(qs[k]) : w = Arrival(x)
    BY <2>2, <2>8
  <2>10. \A w : w \in wanted <=> \E k \in 1..n : \E y \in FileNames(F[k].format) : w = <<F[k].id, y>>
    BY <2>7
  <2> HIDE DEF arrivals, wanted
  <2>11. ASSUME NEW w PROVE w \in arrivals <=> w \in wanted
    <3>1. \A k \in 1..n : (\E x \in Range(qs[k]) : w = Arrival(x)) <=> \E y \in FileNames(F[k].format) : w = <<F[k].id, y>>
      BY <2>4
    <3>2. (\E k \in 1..n : \E x \in Range(qs[k]) : w = Arrival(x))
             <=> \E k \in 1..n : \E y \in FileNames(F[k].format) : w = <<F[k].id, y>>
      BY <3>1, Zenon
    <3>3. w \in arrivals <=> \E k \in 1..n : \E x \in Range(qs[k]) : w = Arrival(x)
      BY <2>9, Zenon
    <3>4. w \in wanted <=> \E k \in 1..n : \E y \in FileNames(F[k].format) : w = <<F[k].id, y>>
      BY <2>10, Zenon
    <3> QED BY <3>2, <3>3, <3>4, Zenon
  <2>12. arrivals = wanted
    BY <2>11
  <2> QED BY <2>12 DEF arrivals, wanted
<1>13. <<>> \in Seq(Entry) /\ IsInjective(<<>>)
  BY DEF IsInjective
<1>14. Queued(c, q)
  BY <1>6, <1>10, <1>11, <1>12, <1>13 DEF Queued, all
<1> QED BY <1>14 DEF q

LEMMA BuildQueueIs ==
    ASSUME exWorld \in Surroundings, NEW c, c.dest \in Dests, c.format \in Formats
    PROVE  Queued(c, BuildQueue(c, Formatted(c)))
<1>1. CASE c.dest \in FolderDests
  BY <1>1, FolderQueueIs DEF BuildQueue
<1>2. CASE c.dest \notin FolderDests
  <2> DEFINE E == Entries(c.dest, c.format, "none")
  <2>1. exWorld.files \in Seq(MeasurementFile) /\ "none" \in Outputs
    BY DEF Surroundings, Outputs
  <2>2. BuildQueue(c, Formatted(c)) = E
    BY <1>2 DEF BuildQueue
  <2>3. /\ E \in Seq(Entry) /\ \A k \in DOMAIN E : E[k].folder = "none"
        /\ IsInjective(exWorld.files) => IsInjective(E)
        /\ E # <<>> => {E[k].file : k \in DOMAIN E} = FileNames(c.format)
    BY <2>1, EntriesAre
  <2> HIDE DEF E
  <2>4. ASSUME E # <<>> PROVE {Arrival(E[k]) : k \in DOMAIN E} = WantedOf(c)
    <3> DEFINE N == FileNames(c.format)
    <3>1. WantedOf(c) = {<<"none", x>> : x \in N}
      <4>1. TargetsOf(c) = {[id |-> "none", format |-> c.format]}
        BY <1>2 DEF TargetsOf
      <4>2. \A o \in TargetsOf(c) : o.id = "none" /\ FileNames(o.format) = N
        BY <4>1
      <4>3. TargetsOf(c) # {}
        BY <4>1
      <4> HIDE DEF N
      <4> QED BY <4>2, <4>3 DEF WantedOf
    <3>2. \A k \in DOMAIN E : Arrival(E[k]) = <<"none", E[k].file>>
      BY <2>3 DEF Arrival
    <3>3. {E[k].file : k \in DOMAIN E} = N
      BY <2>3, <2>4
    <3> HIDE DEF N
    <3> QED BY <3>1, <3>2, <3>3
  <2> QED BY <2>2, <2>3, <2>4 DEF Queued, NamesOnce
<1> QED BY <1>1, <1>2

Phases == {"new", "generate", "copy", "print", "send", "tar", "sign", "answered", "dies"}

\* A call, field by field.
CallFields(c) ==
    /\ IsCall(c) /\ c.phase \in Phases
    /\ c.type \in {"measurement", "log", "monitor", "conf", "xx"} /\ c.dest \in Dests
    /\ c.named \in {"iid", "id", "unknown", "none"} /\ c.format \in Formats /\ c.output \in Outputs
    /\ c.protocol \in Protocols /\ c.scheme \in BOOLEAN /\ c.queue \in Seq(Entry)
    /\ c.at \in Nat /\ c.status \in {0, 200, 400, 500}

\* It is answered once, and at an entry of its queue while it works on one.
CallIsTyped(c) ==
    /\ CallFields(c)
    /\ c.answers = IF c.phase = "answered" THEN 1 ELSE 0
    /\ c.phase \in {"generate", "copy"} => c.at \in DOMAIN c.queue

LEMMA FieldsAreExport ==
    ASSUME NEW c, CallFields(c), c.answers \in 0..2
    PROVE  c \in Export
<1> DEFINE Q == Seq([folder : Outputs, file : Generated])
<1>1. c.queue \in Q
  BY DEF CallFields, Entry
<1> HIDE DEF Q
<1>2. Export = [phase : Phases,
           type : {"measurement", "log", "monitor", "conf", "xx"}, dest : Dests,
           named : {"iid", "id", "unknown", "none"}, format : Formats, output : Outputs,
           protocol : Protocols, scheme : BOOLEAN,
           queue : Q,
           at : Nat, status : {0, 200, 400, 500}, answers : 0..2]
  BY DEF Export, Q, Phases
<1> QED BY <1>1, <1>2 DEF CallFields, IsCall

\* The same call but for the phase, the place in the queue and the answer.
SameExport(c, d) ==
    /\ IsCall(d) /\ d.type = c.type /\ d.dest = c.dest /\ d.named = c.named /\ d.format = c.format
    /\ d.output = c.output /\ d.protocol = c.protocol /\ d.scheme = c.scheme /\ d.queue = c.queue

LEMMA SameCallIsTyped ==
    ASSUME NEW c, CallFields(c), NEW d, SameExport(c, d), d.phase \in Phases, d.at \in Nat,
           d.status \in {0, 200, 400, 500}
    PROVE  CallFields(d)
BY DEF CallFields, SameExport

\* A call that is not answered yet may be answered, go on, and end.
LEMMA AnsweredSame ==
    ASSUME NEW c, IsCall(c), c.answers = 0, NEW status
    PROVE  LET a == Answered(c, status) IN
           SameExport(c, a) /\ a.phase = "answered" /\ a.status = status /\ a.at = c.at /\ a.answers = 1
<1> DEFINE a == Answered(c, status)
<1>1. a = [c EXCEPT !.phase = "answered", !.status = status, !.answers = 1]
  BY DEF Answered
<1> HIDE DEF a
<1> QED BY <1>1 DEF IsCall, SameExport, a

LEMMA PhaseSame ==
    ASSUME NEW c, IsCall(c), NEW phase, NEW a, a = [c EXCEPT !.phase = phase]
    PROVE  SameExport(c, a) /\ a.phase = phase /\ a.status = c.status /\ a.at = c.at /\ a.answers = c.answers
<1>1. a = [phase |-> phase, type |-> c.type, dest |-> c.dest, named |-> c.named, format |-> c.format,
           output |-> c.output, protocol |-> c.protocol, scheme |-> c.scheme, queue |-> c.queue,
           at |-> c.at, status |-> c.status, answers |-> c.answers]
  BY DEF IsCall
<1> QED BY <1>1 DEF IsCall, SameExport

LEMMA AtSame ==
    ASSUME NEW c, IsCall(c), NEW at, NEW a, a = [c EXCEPT !.at = at]
    PROVE  SameExport(c, a) /\ a.phase = c.phase /\ a.status = c.status /\ a.at = at /\ a.answers = c.answers
<1>1. a = [phase |-> c.phase, type |-> c.type, dest |-> c.dest, named |-> c.named, format |-> c.format,
           output |-> c.output, protocol |-> c.protocol, scheme |-> c.scheme, queue |-> c.queue,
           at |-> at, status |-> c.status, answers |-> c.answers]
  BY DEF IsCall
<1> QED BY <1>1 DEF IsCall, SameExport

\* Where a call that is not answered goes on to.
GoesTo(c, d) == SameExport(c, d) /\ CallIsTyped(d) /\ d.phase # "new"

LEMMA AnswerTyped ==
    ASSUME NEW c, CallIsTyped(c), c.phase # "answered", NEW status \in {0, 200, 400, 500}
    PROVE  GoesTo(c, Answered(c, status))
<1> DEFINE a == Answered(c, status)
<1>1. IsCall(c) /\ c.answers = 0 /\ c.at \in Nat /\ CallFields(c)
  BY DEF CallIsTyped, CallFields
<1>2. SameExport(c, a) /\ a.phase = "answered" /\ a.status = status /\ a.at = c.at /\ a.answers = 1
  BY <1>1, AnsweredSame
<1> HIDE DEF a
<1>3. CallFields(a)
  BY <1>1, <1>2, SameCallIsTyped DEF Phases
<1> QED BY <1>2, <1>3 DEF GoesTo, CallIsTyped, a

LEMMA PhaseTyped ==
    ASSUME NEW c, CallIsTyped(c), c.phase # "answered", NEW phase \in Phases \ {"new", "answered", "generate", "copy"}
    PROVE  GoesTo(c, [c EXCEPT !.phase = phase])
<1> DEFINE a == [c EXCEPT !.phase = phase]
<1>0. a = [c EXCEPT !.phase = phase]
  OBVIOUS
<1> HIDE DEF a
<1>1. IsCall(c) /\ c.answers = 0 /\ c.at \in Nat /\ CallFields(c) /\ c.status \in {0, 200, 400, 500}
  BY DEF CallIsTyped, CallFields
<1>2. SameExport(c, a) /\ a.phase = phase /\ a.status = c.status /\ a.at = c.at /\ a.answers = c.answers
  BY <1>0, <1>1, PhaseSame
<1>3. CallFields(a)
  BY <1>1, <1>2, SameCallIsTyped
<1> QED BY <1>1, <1>2, <1>3 DEF GoesTo, CallIsTyped, a

LEMMA PlaceTyped ==
    ASSUME NEW c, CallIsTyped(c), c.phase # "answered", NEW phase \in {"generate", "copy"}, NEW at \in DOMAIN c.queue
    PROVE  GoesTo(c, [c EXCEPT !.phase = phase, !.at = at])
<1> DEFINE a == [c EXCEPT !.phase = phase, !.at = at]
<1>0. a = [c EXCEPT !.phase = phase, !.at = at]
  OBVIOUS
<1> HIDE DEF a
<1>1. IsCall(c) /\ c.answers = 0 /\ CallFields(c) /\ c.status \in {0, 200, 400, 500} /\ c.queue \in Seq(Entry)
  BY DEF CallIsTyped, CallFields
<1>2. at \in Nat
  BY <1>1, LenProperties
<1>3. SameExport(c, a) /\ a.phase = phase /\ a.status = c.status /\ a.at = at /\ a.answers = c.answers
  <2> DEFINE b == [c EXCEPT !.phase = phase]
  <2>1. b = [c EXCEPT !.phase = phase]
    OBVIOUS
  <2>0. a = [b EXCEPT !.at = at]
    BY <1>0
  <2> HIDE DEF b
  <2>2. SameExport(c, b) /\ b.phase = phase /\ b.status = c.status /\ b.answers = c.answers
    <3>1. IsCall(c)
      BY <1>1
    <3> QED BY <2>1, <3>1, PhaseSame
  <2>3. SameExport(b, a) /\ a.phase = b.phase /\ a.status = b.status /\ a.at = at /\ a.answers = b.answers
    <3>1. IsCall(b)
      BY <2>2 DEF SameExport
    <3> QED BY <2>0, <3>1, AtSame
  <2> QED BY <2>2, <2>3 DEF SameExport
<1>4. CallFields(a)
  BY <1>1, <1>2, <1>3, SameCallIsTyped DEF Phases
<1> QED BY <1>1, <1>3, <1>4 DEF GoesTo, CallIsTyped, SameExport, a

LEMMA ScriptTyped ==
    ASSUME NEW c, CallIsTyped(c), c.phase # "answered"
    PROVE  GoesTo(c, StartScript(c))
BY AnswerTyped, PhaseTyped DEF StartScript, Phases

LEMMA CopyingTyped ==
    ASSUME NEW c, CallIsTyped(c), c.phase # "answered", c.queue # <<>>
    PROVE  GoesTo(c, StartCopying(c))
<1>1. 1 \in DOMAIN c.queue
  <2>1. c.queue \in Seq(Entry)
    BY DEF CallIsTyped, CallFields
  <2> QED BY <2>1, EmptySeq, LenProperties
<1>2. GoesTo(c, [c EXCEPT !.phase = "copy", !.at = 1])
  BY <1>1, PlaceTyped
<1>3. GoesTo(c, StartScript(c))
  BY ScriptTyped
<1>4. GoesTo(c, [c EXCEPT !.phase = "print"])
  BY PhaseTyped DEF Phases
<1>5. GoesTo(c, Answered(c, 200)) /\ GoesTo(c, Answered(c, 500))
  BY AnswerTyped
<1>6. StartCopying(c) \in {[c EXCEPT !.phase = "copy", !.at = 1], StartScript(c), [c EXCEPT !.phase = "print"],
                           Answered(c, 200), Answered(c, 500)}
  BY DEF StartCopying
<1> QED BY <1>2, <1>3, <1>4, <1>5, <1>6

LEMMA GenerateTyped ==
    ASSUME NEW c, CallIsTyped(c), c.phase # "answered", c.queue # <<>>, NEW k
    PROVE  GoesTo(c, Generate(c, k))
<1> DEFINE missing == {j \in DOMAIN c.queue : j >= k /\ c.queue[j].file \notin exMade'}
           at == CHOOSE j \in missing : \A i \in missing : j <= i
<1>1. CASE missing = {}
  <2>1. Generate(c, k) = StartCopying(c)
    BY <1>1 DEF Generate
  <2> QED BY <2>1, CopyingTyped
<1>2. CASE missing # {}
  <2>1. c.queue \in Seq(Entry)
    BY DEF CallIsTyped, CallFields
  <2>2. missing \in SUBSET Nat
    BY <2>1, LenProperties
  <2>3. Generate(c, k) = [c EXCEPT !.phase = "generate", !.at = at]
    BY <1>2 DEF Generate
  <2>4. missing \subseteq DOMAIN c.queue
    OBVIOUS
  <2> HIDE DEF missing
  <2>5. at \in missing
    BY <1>2, <2>2, LeastNumber
  <2> HIDE DEF at
  <2>6. at \in DOMAIN c.queue
    BY <2>4, <2>5
  <2>7. GoesTo(c, [c EXCEPT !.phase = "generate", !.at = at])
    BY <2>6, PlaceTyped
  <2> QED BY <2>3, <2>7
<1> QED BY <1>1, <1>2

Outs == Seq(Outputs \X (Generated \cup {Archive, OutputOfScript}))

\* The types, and the queue as it was built.
RestIsTyped ==
    /\ exWorld \in Surroundings /\ exMade \subseteq Generated /\ exOut \in Outs
    /\ exConfig \in {"none", "torn", "unsigned", "signed"} /\ exTemps \in 0..2

QueueStands ==
    /\ ex.phase = "new" => ex.queue = <<>>
    /\ ex.queue = <<>> \/ Queued(ex, ex.queue)

ExTypeIInv == CallIsTyped(ex) /\ RestIsTyped /\ QueueStands

LEMMA TypesFollow == ExTypeIInv => ExTypeOK
<1> SUFFICES ASSUME ExTypeIInv PROVE ExTypeOK
  OBVIOUS
<1>1. CallFields(ex) /\ ex.answers \in 0..2 /\ (ex.phase \in {"generate", "copy"} => ex.at \in DOMAIN ex.queue)
  BY DEF ExTypeIInv, CallIsTyped
<1>2. ex \in Export
  BY <1>1, FieldsAreExport
<1> QED BY <1>1, <1>2 DEF ExTypeOK, ExTypeIInv, RestIsTyped, Outs

LEMMA TypedInitially == ExAnyInit => ExTypeIInv
<1> SUFFICES ASSUME ExAnyInit PROVE ExTypeIInv
  OBVIOUS
<1>1. PICK type \in {"measurement", "log", "monitor", "conf", "xx"}, dest \in Dests,
          named \in {"iid", "id", "unknown", "none"}, format \in Formats, output \in Outputs,
          protocol \in Protocols, scheme \in BOOLEAN :
          ex = NewExport(type, dest, named, format, output, protocol, scheme)
  BY DEF ExAnyInit
<1>2. /\ exWorld \in Surroundings /\ exMade \subseteq Generated
      /\ exOut = <<>> /\ exConfig = "none" /\ exTemps = 0
  BY DEF ExAnyInit
<1> HIDE DEF ExAnyInit
<1>3. ex = [phase |-> "new", type |-> type, dest |-> dest, named |-> named, format |-> format, output |-> output,
     protocol |-> protocol, scheme |-> scheme, queue |-> <<>>, at |-> 1, status |-> 0, answers |-> 0]
  BY <1>1 DEF NewExport
<1>4. IsCall(ex)
  BY <1>3 DEF IsCall
<1>5. <<>> \in Seq(Entry) /\ <<>> \in Outs
  BY DEF Outs
<1>6. CallIsTyped(ex) /\ ex.queue = <<>>
  BY <1>3, <1>4, <1>5 DEF CallIsTyped, CallFields, Phases
<1> QED BY <1>2, <1>5, <1>6 DEF ExTypeIInv, RestIsTyped, QueueStands

\* What is given to a printer.
LEMMA PrintedTyped ==
    ASSUME NEW q \in Seq(Entry)
    PROVE  [k \in DOMAIN q |-> <<"none", q[k].file>>] \in Outs
<1> DEFINE U == Outputs \X (Generated \cup {Archive, OutputOfScript})
           e(k) == <<"none", q[k].file>>
           n == Len(q)
<1>1. n \in Nat /\ DOMAIN q = 1..n /\ \A k \in 1..n : q[k] \in Entry
  BY LenProperties, ElementOfSeq
<1>2. \A k \in 1..n : q[k].file \in Generated
  BY <1>1 DEF Entry
<1>3. \A k \in 1..n : e(k) \in U
  BY <1>2 DEF Outputs
<1> HIDE DEF U, e, n
<1>4. [k \in 1..n |-> e(k)] \in Seq(U)
  BY <1>1, <1>3
<1> QED BY <1>1, <1>4 DEF Outs, U, e

LEMMA LocalOutTyped ==
    ASSUME NEW c, CallFields(c), exOut \in Outs
    PROVE  LocalOut(c) \in Outs
BY PrintedTyped DEF LocalOut, CallFields

\* The queue stays what is wanted while the call and its world stay.
LEMMA QueueStandsStill ==
    ASSUME ExTypeIInv, SameExport(ex, ex'), ex'.phase = "new" => ex'.queue = <<>>,
           exWorld'.files = exWorld.files, exWorld'.outputs = exWorld.outputs
    PROVE  QueueStands'
<1>1. ex'.queue = ex.queue /\ ex'.dest = ex.dest /\ ex'.output = ex.output /\ ex'.format = ex.format
  BY DEF SameExport
<1>2. \A format : FileNames(format)' = FileNames(format)
  BY DEF FileNames, Inputs
<1>3. TargetsOf(ex)' = TargetsOf(ex)
  BY <1>1 DEF TargetsOf
<1>4. WantedOf(ex)' = WantedOf(ex)
  BY <1>2, <1>3 DEF WantedOf
<1>5. NamesOnce' <=> NamesOnce
  BY DEF NamesOnce
<1> QED BY <1>1, <1>4, <1>5 DEF ExTypeIInv, QueueStands, Queued

\* A step of the call that keeps its queue.
LEMMA OwnStepKeeps ==
    ASSUME ExTypeIInv, GoesTo(ex, ex'), exWorld' = exWorld, RestIsTyped'
    PROVE  ExTypeIInv'
BY QueueStandsStill DEF ExTypeIInv, GoesTo

\* The queue is built.
LEMMA PostprocessingTyped ==
    ASSUME ExTypeIInv, ex.phase = "new", ex' = StartPostprocessing(ex, BuildQueue(ex, Formatted(ex))), exWorld' = exWorld,
           exOut' = LocalOut(ex'), exMade' \subseteq Generated, exConfig' = exConfig, exTemps' = exTemps
    PROVE  ExTypeIInv'
<1> DEFINE Q == BuildQueue(ex, Formatted(ex))
           b == [ex EXCEPT !.queue = Q]
<1>1. Queued(ex, Q) /\ Q \in Seq(Entry)
  BY BuildQueueIs DEF ExTypeIInv, RestIsTyped, Queued, CallIsTyped, CallFields
<1>2. IsCall(ex) /\ CallFields(ex) /\ ex.answers = 0 /\ ex.queue = <<>>
  BY DEF ExTypeIInv, CallIsTyped, CallFields, QueueStands
<1>3. b = [ex EXCEPT !.queue = Q]
  OBVIOUS
<1>5. ex' = IF ex.named = "unknown" \/ Q = <<>> THEN Answered(ex, 500) ELSE Generate(b, 1)
  BY DEF StartPostprocessing
<1> HIDE DEF Q
<1>4. b = [phase |-> ex.phase, type |-> ex.type, dest |-> ex.dest, named |-> ex.named, format |-> ex.format,
         output |-> ex.output, protocol |-> ex.protocol, scheme |-> ex.scheme, queue |-> Q,
         at |-> ex.at, status |-> ex.status, answers |-> ex.answers]
  BY <1>2, <1>3 DEF IsCall
<1> HIDE DEF b
<1>6. CallIsTyped(b) /\ b.phase = "new" /\ b.queue = Q
  BY <1>1, <1>2, <1>4 DEF CallIsTyped, CallFields, IsCall
<1>7. CASE ex' = Answered(ex, 500)
  <2>1. GoesTo(ex, ex')
    BY <1>7, AnswerTyped DEF ExTypeIInv
  <2>3. RestIsTyped'
    BY <2>1, LocalOutTyped DEF ExTypeIInv, RestIsTyped, GoesTo, CallIsTyped
  <2> QED BY <2>1, <2>3, OwnStepKeeps
<1>8. CASE ex' = Generate(b, 1) /\ Q # <<>>
  <2>1. GoesTo(b, ex')
    BY <1>6, <1>8, GenerateTyped
  <2>2. ex'.queue = Q /\ ex'.dest = ex.dest /\ ex'.output = ex.output /\ ex'.format = ex.format
    <3>1. b.queue = Q /\ b.dest = ex.dest /\ b.output = ex.output /\ b.format = ex.format
      BY <1>4
    <3> QED BY <2>1, <3>1 DEF GoesTo, SameExport
  <2>3. RestIsTyped'
    BY <2>1, LocalOutTyped DEF ExTypeIInv, RestIsTyped, GoesTo, CallIsTyped
  <2>4. Queued(ex, ex.queue)'
    <3>1. \A format : FileNames(format)' = FileNames(format)
      BY DEF FileNames, Inputs
    <3>2. TargetsOf(ex)' = TargetsOf(ex)
      BY <2>2 DEF TargetsOf
    <3>3. WantedOf(ex)' = WantedOf(ex)
      BY <3>1, <3>2 DEF WantedOf
    <3>4. NamesOnce' <=> NamesOnce
      BY DEF NamesOnce
    <3> QED BY <1>1, <2>2, <3>3, <3>4 DEF Queued
  <2> QED BY <2>1, <2>2, <2>3, <2>4 DEF ExTypeIInv, QueueStands, GoesTo
<1> QED BY <1>5, <1>7, <1>8

LEMMA StartTyped ==
    ASSUME ExTypeIInv, ExStart
    PROVE  ExTypeIInv'
<1>1. CallIsTyped(ex) /\ ex.phase = "new" /\ RestIsTyped
  BY DEF ExTypeIInv, ExStart
<1>2. exWorld' = exWorld /\ exMade' = exMade /\ exConfig' = exConfig /\ exTemps' = exTemps /\ exOut' = LocalOut(ex')
  BY DEF ExStart
<1>3. \/ ex' = Answered(ex, 400) \/ ex' = Answered(ex, 500) \/ ex' = StartScript(ex)
      \/ ex' = [ex EXCEPT !.phase = "tar"] \/ ex' = StartPostprocessing(ex, BuildQueue(ex, Formatted(ex)))
  BY DEF ExStart
<1>4. GoesTo(ex, Answered(ex, 400)) /\ GoesTo(ex, Answered(ex, 500))
  BY <1>1, AnswerTyped
<1>5. GoesTo(ex, StartScript(ex)) /\ GoesTo(ex, [ex EXCEPT !.phase = "tar"])
  BY <1>1, ScriptTyped, PhaseTyped DEF Phases
<1>6. CASE ex' = StartPostprocessing(ex, BuildQueue(ex, Formatted(ex)))
  BY <1>1, <1>2, <1>6, PostprocessingTyped DEF RestIsTyped
<1>7. CASE GoesTo(ex, ex')
  <2>1. RestIsTyped'
    BY <1>1, <1>2, <1>7, LocalOutTyped DEF RestIsTyped, GoesTo, CallIsTyped
  <2> QED BY <1>2, <1>7, <2>1, OwnStepKeeps
<1> QED BY <1>3, <1>4, <1>5, <1>6, <1>7

LEMMA ConfigTyped ==
    ASSUME ExTypeIInv, ExStartConfig \/ ExSigned
    PROVE  ExTypeIInv'
<1>1. CallIsTyped(ex) /\ ex.phase \in {"new", "sign"} /\ RestIsTyped /\ exWorld' = exWorld
  BY DEF ExTypeIInv, ExStartConfig, ExSigned
<1>2. GoesTo(ex, Answered(ex, 200)) /\ GoesTo(ex, Answered(ex, 500))
  BY <1>1, AnswerTyped
<1>3. GoesTo(ex, [ex EXCEPT !.phase = "sign"]) /\ GoesTo(ex, [ex EXCEPT !.phase = "dies"])
  BY <1>1, PhaseTyped DEF Phases
<1>4. /\ ex' \in {Answered(ex, 200), Answered(ex, 500), [ex EXCEPT !.phase = "sign"], [ex EXCEPT !.phase = "dies"]}
      /\ exMade' = exMade /\ exOut' = exOut /\ exTemps' \in 0..2
      /\ exConfig' \in {"none", "torn", "unsigned", "signed"}
  BY <1>1 DEF ExStartConfig, ExSigned, SignatureFails, RestIsTyped
<1>5. GoesTo(ex, ex')
  BY <1>2, <1>3, <1>4
<1>6. RestIsTyped'
  BY <1>1, <1>4 DEF RestIsTyped
<1> QED BY <1>1, <1>5, <1>6, OwnStepKeeps

\* The entry that is worked on.
LEMMA EntryTyped ==
    ASSUME CallIsTyped(ex), ex.phase \in {"generate", "copy"}
    PROVE  /\ ex.queue \in Seq(Entry) /\ ex.queue # <<>> /\ ex.at \in DOMAIN ex.queue
           /\ ex.queue[ex.at].folder \in Outputs /\ ex.queue[ex.at].file \in Generated
<1>1. ex.queue \in Seq(Entry) /\ ex.at \in DOMAIN ex.queue
  BY DEF CallIsTyped, CallFields
<1>2. ex.queue # <<>>
  BY <1>1
<1>3. ex.queue[ex.at] \in Entry
  BY <1>1, ElementOfSeq, LenProperties
<1> QED BY <1>1, <1>2, <1>3 DEF Entry

LEMMA GeneratedTyped ==
    ASSUME ExTypeIInv, ExGenerated \/ ExGenerateFails
    PROVE  ExTypeIInv'
<1>1. CallIsTyped(ex) /\ ex.phase = "generate" /\ RestIsTyped /\ exWorld' = exWorld
  BY DEF ExTypeIInv, ExGenerated, ExGenerateFails
<1>2. ex.queue # <<>> /\ ex.queue[ex.at].file \in Generated
  BY <1>1, EntryTyped
<1>3. CASE ExGenerated
  <2>0. PICK next : next = Generate(ex, ex.at + 1)
    OBVIOUS
  <2>1. GoesTo(ex, next)
    <3>1. GoesTo(ex, Generate(ex, ex.at + 1))
      BY <1>1, <1>2, GenerateTyped
    <3> QED BY <2>0, <3>1
  <2>2. /\ ex' = IF Freed /\ next.phase = "generate" THEN [next EXCEPT !.phase = "dies"] ELSE next
        /\ exMade' \subseteq exMade \cup {ex.queue[ex.at].file} /\ exOut' = LocalOut(ex')
        /\ exConfig' = exConfig /\ exTemps' = exTemps
    BY <1>3, <2>0 DEF ExGenerated
  <2>5. GoesTo(ex, ex')
    <3>1. CASE ex' = next
      BY <2>1, <3>1
    <3>2. CASE next.phase = "generate" /\ ex' = [next EXCEPT !.phase = "dies"]
      <4>1. GoesTo(next, [next EXCEPT !.phase = "dies"])
        BY <2>1, <3>2, PhaseTyped DEF GoesTo, Phases
      <4> QED BY <2>1, <3>2, <4>1 DEF GoesTo, SameExport
    <3> QED BY <2>2, <3>1, <3>2
  <2>6. exOut' \in Outs
    BY <1>1, <2>2, <2>5, LocalOutTyped DEF RestIsTyped, GoesTo, CallIsTyped
  <2>7. RestIsTyped'
    BY <1>1, <1>2, <2>2, <2>6 DEF RestIsTyped
  <2> QED BY <1>1, <2>5, <2>7, OwnStepKeeps
<1>4. CASE ExGenerateFails
  <2>1. GoesTo(ex, Answered(ex, 500)) /\ GoesTo(ex, [ex EXCEPT !.phase = "dies"])
    BY <1>1, AnswerTyped, PhaseTyped DEF Phases
  <2>2. GoesTo(ex, ex') /\ exMade' \subseteq exMade /\ exOut' = exOut /\ exConfig' = exConfig /\ exTemps' = exTemps
    BY <1>4, <2>1 DEF ExGenerateFails
  <2>3. RestIsTyped'
    BY <1>1, <2>2 DEF RestIsTyped
  <2> QED BY <1>1, <2>2, <2>3, OwnStepKeeps
<1> QED BY <1>3, <1>4

LEMMA CopiedTyped ==
    ASSUME ExTypeIInv, ExCopied
    PROVE  ExTypeIInv'
<1>1. CallIsTyped(ex) /\ ex.phase = "copy" /\ RestIsTyped /\ exWorld' = exWorld
  BY DEF ExTypeIInv, ExCopied
<1>2. /\ ex.queue \in Seq(Entry) /\ ex.at \in DOMAIN ex.queue
      /\ ex.queue[ex.at].folder \in Outputs /\ ex.queue[ex.at].file \in Generated
  BY <1>1, EntryTyped
<1>3. /\ exOut' = Append(exOut, <<ex.queue[ex.at].folder, ex.queue[ex.at].file>>)
      /\ ex' = IF ex.at < Len(ex.queue) THEN [ex EXCEPT !.at = @ + 1] ELSE Answered(ex, 200)
      /\ exMade' = exMade /\ exConfig' = exConfig /\ exTemps' = exTemps
  BY DEF ExCopied
<1>4. GoesTo(ex, ex')
  <2>1. CASE ex.at < Len(ex.queue)
    <3> DEFINE n == ex.at + 1
               a == [ex EXCEPT !.at = n]
    <3>1. n \in DOMAIN ex.queue /\ n \in Nat
      BY <1>2, <2>1, LenProperties
    <3>2. IsCall(ex) /\ CallFields(ex) /\ ex.answers = 0 /\ ex.status \in {0, 200, 400, 500}
      BY <1>1 DEF CallIsTyped, CallFields
    <3>3. ex' = a
      BY <1>3, <2>1
    <3>4. a = [ex EXCEPT !.at = n]
      OBVIOUS
    <3> HIDE DEF n, a
    <3>5. SameExport(ex, a) /\ a.phase = ex.phase /\ a.status = ex.status /\ a.at = n /\ a.answers = ex.answers
      BY <3>2, <3>4, AtSame
    <3>6. CallFields(a)
      BY <1>1, <3>1, <3>2, <3>5, SameCallIsTyped DEF Phases
    <3>7. CallIsTyped(a)
      BY <1>1, <3>1, <3>2, <3>5, <3>6 DEF CallIsTyped, SameExport
    <3> QED BY <1>1, <3>3, <3>5, <3>7 DEF GoesTo
  <2>2. CASE ~(ex.at < Len(ex.queue))
    BY <1>1, <1>3, <2>2, AnswerTyped
  <2> QED BY <2>1, <2>2
<1>5. RestIsTyped'
  <2> DEFINE U == Outputs \X (Generated \cup {Archive, OutputOfScript})
             u == <<ex.queue[ex.at].folder, ex.queue[ex.at].file>>
  <2>1. u \in U /\ exOut \in Seq(U)
    BY <1>1, <1>2 DEF RestIsTyped, Outs
  <2>2. exOut' = Append(exOut, u)
    BY <1>3
  <2> HIDE DEF U, u
  <2>3. exOut' \in Seq(U)
    BY <2>1, <2>2, AppendProperties
  <2>4. exOut' \in Outs
    BY <2>3 DEF U, Outs
  <2> QED BY <1>1, <1>3, <2>4 DEF RestIsTyped
<1> QED BY <1>1, <1>4, <1>5, OwnStepKeeps

LEMMA TransferTyped ==
    ASSUME ExTypeIInv, ExPrinted \/ ExSent \/ ExArchived \/ ExTransferFails
    PROVE  ExTypeIInv'
<1>1. /\ CallIsTyped(ex) /\ ex.phase \in {"copy", "print", "send", "tar"} /\ RestIsTyped /\ exWorld' = exWorld
      /\ ex.queue \in Seq(Entry)
  BY DEF ExTypeIInv, ExPrinted, ExSent, ExArchived, ExTransferFails, CallIsTyped, CallFields
<1>2. GoesTo(ex, Answered(ex, 200)) /\ GoesTo(ex, Answered(ex, 500))
  BY <1>1, AnswerTyped
<1>3. GoesTo(ex, ex')
  BY <1>2 DEF ExPrinted, ExSent, ExArchived, ExTransferFails
<1>4. exOut' \in Outs
  <2> DEFINE U == Outputs \X (Generated \cup {Archive, OutputOfScript})
             a == <<"none", Archive>>
             s == <<"none", OutputOfScript>>
  <2>1. a \in U /\ s \in U
    BY DEF Outputs
  <2>2. exOut' \in {exOut, [k \in DOMAIN ex.queue |-> <<"none", ex.queue[k].file>>], <<a>>, <<s>>}
    BY DEF ExPrinted, ExSent, ExArchived, ExTransferFails
  <2>3. [k \in DOMAIN ex.queue |-> <<"none", ex.queue[k].file>>] \in Outs
    BY <1>1, PrintedTyped
  <2> HIDE DEF U, a, s
  <2>4. <<a>> \in Seq(U) /\ <<s>> \in Seq(U)
    BY <2>1
  <2>5. <<a>> \in Outs /\ <<s>> \in Outs
    BY <2>4 DEF Outs, U
  <2> QED BY <1>1, <2>2, <2>3, <2>5 DEF RestIsTyped
<1>5. exMade' = exMade /\ exConfig' = exConfig /\ exTemps' = exTemps
  BY DEF ExPrinted, ExSent, ExArchived, ExTransferFails
<1>6. RestIsTyped'
  BY <1>1, <1>4, <1>5 DEF RestIsTyped
<1> QED BY <1>1, <1>3, <1>6, OwnStepKeeps

LEMMA OthersTyped ==
    ASSUME ExTypeIInv, ExOthers
    PROVE  ExTypeIInv'
<1>1. /\ ex' = ex /\ exOut' = exOut /\ exConfig' = exConfig /\ exTemps' = exTemps /\ exMade' \in {exMade, {}}
      /\ ex.phase # "new"
      /\ \/ exWorld' = [exWorld EXCEPT !.touched = "pulled", !.mounted = FALSE]
         \/ exWorld' = [exWorld EXCEPT !.touched = "freed"]
  BY DEF ExOthers
<1>2. exWorld' \in Surroundings /\ exWorld'.files = exWorld.files /\ exWorld'.outputs = exWorld.outputs
  <2> DEFINE O == Seq([id : Outputs, format : Formats])
             F == Seq(MeasurementFile)
  <2>1. exWorld \in [outputs : O, folders : 0..2, files : F, serialNumber : BOOLEAN, mounted : BOOLEAN,
                     touched : {"no", "pulled", "freed"}, protocols : SUBSET Protocols, defaultProtocol : Protocols]
    BY DEF ExTypeIInv, RestIsTyped, Surroundings
  <2> HIDE DEF O, F
  <2>2. exWorld' \in [outputs : O, folders : 0..2, files : F, serialNumber : BOOLEAN, mounted : BOOLEAN,
                     touched : {"no", "pulled", "freed"}, protocols : SUBSET Protocols, defaultProtocol : Protocols]
    BY <1>1, <2>1
  <2>3. exWorld'.files = exWorld.files /\ exWorld'.outputs = exWorld.outputs
    BY <1>1, <2>1
  <2> QED BY <2>2, <2>3 DEF Surroundings, O, F
<1>3. SameExport(ex, ex')
  BY <1>1 DEF ExTypeIInv, CallIsTyped, CallFields, SameExport
<1>4. QueueStands'
  BY <1>1, <1>2, <1>3, QueueStandsStill
<1>5. RestIsTyped'
  BY <1>1, <1>2 DEF ExTypeIInv, RestIsTyped
<1> QED BY <1>1, <1>4, <1>5 DEF ExTypeIInv

LEMMA TypedAlways == ExAnySpec => []ExTypeIInv
<1>1. ExTypeIInv /\ [ExNext]_exVars => ExTypeIInv'
  <2> SUFFICES ASSUME ExTypeIInv, [ExNext]_exVars PROVE ExTypeIInv'
    OBVIOUS
  <2>1. CASE ExOwn
    BY <2>1, StartTyped, ConfigTyped, GeneratedTyped, CopiedTyped, TransferTyped DEF ExOwn
  <2>2. CASE ExOthers
    BY <2>2, OthersTyped
  <2>3. CASE UNCHANGED exVars
    <3>1. ex' = ex /\ exWorld' = exWorld /\ exMade' = exMade /\ exOut' = exOut /\ exConfig' = exConfig /\ exTemps' = exTemps
      BY <2>3 DEF exVars
    <3>2. SameExport(ex, ex')
      BY <3>1 DEF ExTypeIInv, CallIsTyped, CallFields, SameExport
    <3>3. QueueStands'
      BY <3>1, <3>2, QueueStandsStill DEF ExTypeIInv, QueueStands
    <3>4. RestIsTyped'
      BY <3>1 DEF ExTypeIInv, RestIsTyped
    <3> QED BY <3>1, <3>3, <3>4 DEF ExTypeIInv
  <2> QED BY <2>1, <2>2, <2>3 DEF ExNext
<1> QED BY <1>1, TypedInitially, PTL DEF ExAnySpec

THEOREM ExportTypes == ExAnySpec => []ExTypeOK
BY TypedAlways, TypesFollow, PTL

\* Whose names are known once stay so.
LEMMA NamesStayOnce == ExAnySpec => []NamesOnce
<1>1. NamesOnce /\ [ExNext]_exVars /\ ExTypeIInv => NamesOnce'
  <2> SUFFICES ASSUME NamesOnce, [ExNext]_exVars, ExTypeIInv PROVE NamesOnce'
    OBVIOUS
  <2>1. exWorld'.files = exWorld.files /\ exWorld'.outputs = exWorld.outputs
    <3> DEFINE O == Seq([id : Outputs, format : Formats])
               F == Seq(MeasurementFile)
    <3>1. exWorld \in [outputs : O, folders : 0..2, files : F, serialNumber : BOOLEAN, mounted : BOOLEAN,
                       touched : {"no", "pulled", "freed"}, protocols : SUBSET Protocols, defaultProtocol : Protocols]
      BY DEF ExTypeIInv, RestIsTyped, Surroundings
    <3> HIDE DEF O, F
    <3>2. CASE exWorld' = exWorld
      BY <3>2
    <3>3. CASE ExOthers
      BY <3>1, <3>3 DEF ExOthers
    <3>4. exWorld' = exWorld \/ ExOthers
      BY DEF ExNext, ExOwn, exVars, ExStart, ExStartConfig, ExSigned, ExGenerated, ExGenerateFails, ExCopied,
             ExPrinted, ExSent, ExArchived, ExTransferFails
    <3> QED BY <3>2, <3>3, <3>4
  <2> QED BY <2>1 DEF NamesOnce
<1>2. ExAnyInit => NamesOnce
  BY DEF ExAnyInit
<1> QED BY <1>1, <1>2, TypedAlways, PTL DEF ExAnySpec

LEMMA FilesOnce == \A files \in FileLists : IsInjective(files)
<1> DEFINE L == BmpFile("_L")
           R == BmpFile("_R")
           N == BmpFile("none")
<1>1. L # R /\ L # XmlFile /\ R # XmlFile
  BY DEF XmlFile, BmpFile
<1>2. \A files \in FileLists : files = <<>> \/ files = <<XmlFile>> \/ files = <<L, XmlFile, R>> \/ files = <<N>>
  BY DEF FileLists
<1> HIDE DEF L, R, N
<1>3. IsInjective(<<>>) /\ IsInjective(<<XmlFile>>) /\ IsInjective(<<N>>)
  BY DEF IsInjective
<1>4. IsInjective(<<L, XmlFile, R>>)
  BY <1>1 DEF IsInjective
<1> QED BY <1>2, <1>3, <1>4

IdsOnce(outputs) == \A i, j \in DOMAIN outputs : outputs[i].id = outputs[j].id => i = j

LEMMA OutputsOnce ==
    /\ \A f, g : IdsOnce(TwoOutputs(f, g))
    /\ \A outputs \in OutputLists : IdsOnce(outputs)
<1>1. ASSUME NEW f, NEW g PROVE IdsOnce(TwoOutputs(f, g))
  <2> DEFINE u == [id |-> "1", format |-> f]
             v == [id |-> "2", format |-> g]
  <2>1. TwoOutputs(f, g) = <<u, v>> /\ u.id # v.id
    BY DEF TwoOutputs
  <2> HIDE DEF u, v
  <2> QED BY <2>1 DEF IdsOnce
<1>2. IdsOnce(<<>>)
  BY DEF IdsOnce
<1>3. \A outputs \in OutputLists : outputs = <<>> \/ \E f, g : outputs = TwoOutputs(f, g)
  BY DEF OutputLists
<1> QED BY <1>1, <1>2, <1>3

LEMMA InitNamesOnce == ExInit => NamesOnce
<1> SUFFICES ASSUME ExInit PROVE NamesOnce
  OBVIOUS
<1>1. exWorld.files \in FileLists /\ (exWorld.outputs \in OutputLists \/ \E f, g : exWorld.outputs = TwoOutputs(f, g))
  <2>1. CASE ExInitFolders
    BY <2>1 DEF ExInitFolders, NewWorld
  <2>2. CASE ExInitDests
    BY <2>2 DEF ExInitDests, NewWorld
  <2>3. CASE ExInitTypes
    <3>1. <<>> \in FileLists /\ <<>> \in OutputLists
      BY DEF FileLists, OutputLists
    <3> QED BY <2>3, <3>1 DEF ExInitTypes, NewWorld
  <2> QED BY <2>1, <2>2, <2>3 DEF ExInit
<1> QED BY <1>1, FilesOnce, OutputsOnce DEF NamesOnce, IdsOnce

LEMMA ExInitIsAny == ExInit => ExAnyInit
<1> SUFFICES ASSUME ExInit PROVE ExAnyInit
  OBVIOUS
<1>1. exMade \in IF ex.type = "measurement" THEN {{}, {<<"pdf", "_std">>}} ELSE {{}}
  BY DEF ExInit
<1>2. <<"pdf", "_std">> \in Generated
  BY DEF Generated
<1>3. (ExInitFolders \/ ExInitDests \/ ExInitTypes) /\ exOut = <<>> /\ exConfig = "none" /\ exTemps = 0
  BY DEF ExInit
<1>9. NamesOnce
  BY InitNamesOnce
<1> HIDE DEF ExInit
<1>4. exMade \subseteq Generated
  BY <1>1, <1>2
<1> QED BY <1>3, <1>4, <1>9, FoldersAreAny, DestsAreAny, TypesAreAny


\* The queue is the one that is wanted.
LEMMA QueueFollows == ExTypeIInv /\ NamesOnce => QueueIsWanted
<1> SUFFICES ASSUME ExTypeIInv, NamesOnce PROVE QueueIsWanted
  OBVIOUS
<1> DEFINE q == ex.queue
           a == [k \in DOMAIN q |-> Arrival(q[k])]
           n == Len(q)
<1>1. q \in Seq(Entry)
  BY DEF ExTypeIInv, CallIsTyped, CallFields
<1>2. ASSUME q # <<>> PROVE {Arrival(q[k]) : k \in DOMAIN q} = Wanted /\ n = Cardinality(Wanted)
  <2>1. {Arrival(q[k]) : k \in DOMAIN q} = WantedOf(ex) /\ IsInjective(q)
    BY <1>2 DEF ExTypeIInv, QueueStands, Queued
  <2>2. n \in Nat /\ DOMAIN q = 1..n /\ \A k \in 1..n : q[k] \in Entry
    BY <1>1, LenProperties, ElementOfSeq
  <2>3. a = [k \in 1..n |-> Arrival(q[k])]
    BY <2>2
  <2> HIDE DEF q, a, n
  <2>4. DOMAIN a = 1..n /\ \A k \in 1..n : a[k] = Arrival(q[k])
    BY <2>3
  <2>5. Range(a) = WantedOf(ex)
    BY <2>1, <2>2, <2>4 DEF Range
  <2>6. a \in Seq(WantedOf(ex)) /\ Len(a) = n
    <3> DEFINE T == WantedOf(ex)
               e(k) == Arrival(q[k])
    <3>1. \A k \in 1..n : e(k) \in T
      BY <2>1, <2>2
    <3> HIDE DEF T, e
    <3>2. [k \in 1..n |-> e(k)] \in Seq(T) /\ Len([k \in 1..n |-> e(k)]) = n
      BY <2>2, <3>1
    <3> QED BY <2>3, <3>2 DEF T, e
  <2>7. IsInjective(a)
    <3> SUFFICES ASSUME NEW i \in 1..n, NEW j \in 1..n, a[i] = a[j] PROVE i = j
      BY <2>4 DEF IsInjective
    <3>1. q[i].folder = q[j].folder /\ q[i].file = q[j].file
      BY <2>4 DEF Arrival
    <3>2. q[i] = q[j]
      <4>1. q[i] = [folder |-> q[i].folder, file |-> q[i].file] /\ q[j] = [folder |-> q[j].folder, file |-> q[j].file]
        BY <2>2 DEF Entry
      <4> QED BY <3>1, <4>1
    <3> QED BY <2>1, <2>2, <3>2 DEF IsInjective
  <2>8. Cardinality(WantedOf(ex)) = n
    BY <2>5, <2>6, <2>7, OnceLen
  <2> QED BY <2>1, <2>8, WantedIs
<1> QED BY <1>1, <1>2 DEF QueueIsWanted, Entry

(* Exporting measurement data (core_function_data_out.cc, with the queue of  *)
(* post_processing_builder.cc): whatever the processes of a call do, and      *)
(* whatever is taken away meanwhile, the queue names the wanted files, each   *)
(* once; an OK says that each of them has arrived, in order, and of a         *)
(* configuration that it was signed.  The call may meet any list of folders   *)
(* and files with the ids, formats, kinds and tags of the module, as long as  *)
(* the ids of the folders differ and the files differ in their kind or tag.   *)
THEOREM AnyExportHolds == ExAnySpec => []ExportsHold
<1>1. ExIInv /\ ExTypeIInv /\ NamesOnce => ExportsHold
  <2> SUFFICES ASSUME ExIInv, QueueIsWanted PROVE OkMeansDelivered /\ ConfigIsSigned
    BY QueueFollows DEF ExportsHold
  <2>1. Progress(ex, exOut, exConfig, exTemps) /\ ExFrame
    BY DEF ExIInv, QueueIsWanted, IsQueue
  <2>2. ASSUME ex.status = 200 PROVE IsDone(ex, exOut, exConfig, exTemps) /\ (ex.type = "conf" => ex.dest \notin SocketDests)
    BY <2>1, <2>2 DEF Progress, ExFrame
  <2>3. ASSUME ex.status = 200, ex.type = "measurement", ex.dest \notin SocketDests
        PROVE  Range(exOut) = Wanted /\ Len(exOut) = Cardinality(Wanted) /\ Wanted # {}
    <3> DEFINE Q == ex.queue
               W == Wanted
    <3>1. Q # <<>> /\ exOut = [k \in DOMAIN Q |-> Arrival(Q[k])]
      BY <2>2, <2>3 DEF IsDone, AllArrived
    <3>2. /\ Q \in Seq([folder : Outputs, file : Generated])
          /\ {Arrival(Q[k]) : k \in DOMAIN Q} = W /\ Len(Q) = Cardinality(W)
      BY <3>1 DEF QueueIsWanted
    <3> HIDE DEF Q, W
    <3>3. Range(exOut) = W
      BY <3>1, <3>2 DEF Range
    <3>4. DOMAIN Q = 1..Len(Q) /\ Len(Q) \in Nat /\ 1 \in DOMAIN Q
      BY <3>1, <3>2
    <3>5. Len(exOut) = Len(Q)
      <4> DEFINE n == Len(Q)
                 T == {Arrival(Q[k]) : k \in 1..n}
      <4>1. exOut = [k \in 1..n |-> Arrival(Q[k])] /\ \A k \in 1..n : Arrival(Q[k]) \in T
        BY <3>1, <3>4
      <4>2. n \in Nat
        BY <3>4
      <4> HIDE DEF n, T
      <4>3. exOut \in Seq(T) /\ Len(exOut) = n
        BY <4>1, <4>2
      <4> QED BY <4>3 DEF n
    <3>6. W # {}
      BY <3>2, <3>4
    <3> QED BY <3>2, <3>3, <3>5, <3>6 DEF W
  <2>4. OkMeansDelivered
    <3> DEFINE Delivered == Range(exOut) = Wanted /\ Len(exOut) = Cardinality(Wanted) /\ Wanted # {}
    <3>1. ASSUME ex.status = 200, ex.type = "measurement", ex.dest \notin SocketDests PROVE Delivered
      BY <2>3, <3>1
    <3> HIDE DEF Delivered
    <3> SUFFICES ASSUME ex.status = 200
                 PROVE  CASE ex.dest \in SocketDests -> exOut = <<<<"none", OutputOfScript>>>>
                          [] ex.type = "measurement" /\ ex.dest \notin SocketDests -> Delivered
                          [] ex.type = "conf" -> exConfig = "signed"
                          [] OTHER -> exOut = <<<<"none", Archive>>>>
      BY DEF OkMeansDelivered, Delivered
    <3> QED BY <2>2, <3>1 DEF IsDone
  <2>5. ConfigIsSigned
    <3> SUFFICES ASSUME ex.phase = "answered", ex.type = "conf"
                 PROVE  IF ex.status = 200 THEN exConfig = "signed" /\ exTemps = 0 ELSE exConfig \in {"none", "torn"}
      BY DEF ConfigIsSigned
    <3> QED BY <2>1, <2>2 DEF Progress, IsDone
  <2> QED BY <2>4, <2>5
<1> QED BY <1>1, ExportsInvariant, TypedAlways, NamesStayOnce, PTL

\* The same for the calls of the run.
THEOREM ExportsAlwaysHold == ExSpec => []ExportsHold
<1>1. ExSpec => ExAnySpec
  BY ExInitIsAny DEF ExSpec, ExAnySpec
<1> QED BY <1>1, AnyExportHolds, PTL

----------------------------------------------------------------------------
(* The monitors.                                                             *)

States == {"unset", "nodevice", "synchronized", "unsynchronized", "notconnected", "idle", "busy", "error", "connected"}

LEMMA FoundState ==
    ASSUME MnTypeOK, NEW d \in Devices
    PROVE  Finds(d) \in States /\ StateUnasked(d) \in States
<1>1. mnWorld.job \in {"idle", "busy", "disabled"}
  BY DEF MnTypeOK, World, Jobs
<1>2. CASE d = "ntp"
  BY <1>2 DEF Finds, StateUnasked, States
<1>3. CASE d = "printer"
  BY <1>1, <1>3 DEF Finds, StateUnasked, States
<1>4. CASE d = "socket"
  BY <1>4 DEF Finds, StateUnasked, States
<1> QED BY <1>2, <1>3, <1>4 DEF Devices

LEMMA LookTyped ==
    ASSUME MnTypeOK, NEW d \in Devices, Look(d), mnPrinters' = mnPrinters, mnWorld' = mnWorld,
           mnChanges' = mnChanges, mnNtp' \in {"query", "starts", "timer", "aborted"}
    PROVE  MnTypeOK'
<1>1. mnProc' \subseteq Devices
  BY DEF Look, MnTypeOK
<1>2. mnState' \in [Devices -> States]
  BY FoundState DEF Look, MnTypeOK, States
<1> QED BY <1>1, <1>2 DEF MnTypeOK, States

LEMMA WorldTyped ==
    ASSUME MnTypeOK, MnWorldChanges
    PROVE  MnTypeOK'
<1>1. mnChanges' \in 0..WorldLimit
  <2>1. mnChanges < WorldLimit /\ mnChanges' = mnChanges + 1
    BY DEF MnWorldChanges
  <2>2. mnChanges \in 0..WorldLimit
    BY DEF MnTypeOK
  <2> QED BY <2>1, <2>2, MonitorsConstant
<1>2. mnWorld \in World
  BY DEF MnTypeOK
<1>3. mnWorld' \in World
  <2>1. CASE \E s \in NtpStatus : mnWorld' = [mnWorld EXCEPT !.ntpstat = s]
    BY <1>2, <2>1 DEF World
  <2>2. CASE \E p \in SUBSET LanPrinters, j \in Jobs : mnWorld' = [mnWorld EXCEPT !.printers = p, !.job = j]
    BY <1>2, <2>2 DEF World
  <2>3. CASE mnWorld' = [mnWorld EXCEPT !.online = ~@]
    BY <1>2, <2>3 DEF World
  <2>4. CASE mnWorld' = [mnWorld EXCEPT !.answers = ~@]
    BY <1>2, <2>4 DEF World
  <2>5. CASE \E p \in Peers : mnWorld' = [mnWorld EXCEPT !.peer = p]
    BY <1>2, <2>5 DEF World
  <2> QED BY <2>1, <2>2, <2>3, <2>4, <2>5 DEF MnWorldChanges
<1> QED BY <1>1, <1>3 DEF MnTypeOK, MnWorldChanges

(* The states of the network's services are states of the device             *)
(* (ntp_monitor.cc, printer_monitor.cc, lan_socket_monitor.cc), whatever the *)
(* processes find and however often the network changes.                     *)
THEOREM MonitorTypes == MnSpec => []MnTypeOK
<1>1. MnInit => MnTypeOK
  <2> SUFFICES ASSUME MnInit PROVE MnTypeOK
    OBVIOUS
  <2>1. mnWorld \in World
    BY DEF MnInit, World, NtpStatus, Jobs
  <2>2. \A d \in Devices : StateUnasked(d) \in States /\ "unset" \in States
    BY DEF StateUnasked, States
  <2>3. mnState \in [Devices -> States]
    BY <2>2 DEF MnInit
  <2> QED BY <2>1, <2>3, MonitorsConstant DEF MnInit, MnTypeOK, States
<1>2. MnTypeOK /\ [MnNext]_mnVars => MnTypeOK'
  <2> SUFFICES ASSUME MnTypeOK, [MnNext]_mnVars PROVE MnTypeOK'
    OBVIOUS
  <2>1. ASSUME NEW d \in Devices, MnTimeout(d) PROVE MnTypeOK'
    <3>1. Look(d) /\ mnPrinters' = mnPrinters /\ mnWorld' = mnWorld /\ mnChanges' = mnChanges /\ mnNtp' = mnNtp
      BY <2>1 DEF MnTimeout
    <3>2. mnNtp' \in {"query", "starts", "timer", "aborted"}
      BY <3>1 DEF MnTypeOK
    <3> QED BY <2>1, <3>1, <3>2, LookTyped
  <2>2. ASSUME NEW d \in Devices, MnFinished(d) PROVE MnTypeOK'
    <3>1. mnState' \in [Devices -> States]
      <4>1. mnState \in [Devices -> States] /\ mnState' = [mnState EXCEPT ![d] = Finds(d)]
        BY <2>2 DEF MnFinished, MnTypeOK, States
      <4> QED BY <4>1, FoundState
    <3>2. mnWorld \in World /\ mnWorld.printers \subseteq LanPrinters
      BY DEF MnTypeOK, World
    <3>3. mnPrinters' \subseteq LanPrinters /\ mnProc' \subseteq Devices
      BY <2>2, <3>2 DEF MnFinished, MnTypeOK
    <3> QED BY <2>2, <3>1, <3>2, <3>3 DEF MnFinished, MnTypeOK, States
  <2>3. ASSUME NEW ok \in BOOLEAN, NtpTimeQuery(ok) PROVE MnTypeOK'
    BY <2>3 DEF NtpTimeQuery, MnTypeOK
  <2>4. CASE NtpStarted
    <3>1. Look("ntp") /\ mnPrinters' = mnPrinters /\ mnWorld' = mnWorld /\ mnChanges' = mnChanges
          /\ mnNtp' \in {"query", "starts", "timer", "aborted"} /\ "ntp" \in Devices
      BY <2>4 DEF NtpStarted, Devices
    <3> QED BY <3>1, LookTyped
  <2>5. CASE MnWorldChanges
    BY <2>5, WorldTyped
  <2>6. CASE UNCHANGED mnVars
    BY <2>6 DEF mnVars, MnTypeOK
  <2> QED BY <2>1, <2>2, <2>3, <2>4, <2>5, <2>6 DEF MnNext
<1> QED BY <1>1, <1>2, PTL DEF MnSpec

----------------------------------------------------------------------------
(***************************************************************************)
(* The parts side by side: each step of MCServices is one of a single part *)
(* and leaves the others alone, so that a behaviour of MCServices is one   *)
(* of each part.                                                           *)
(***************************************************************************)
\* A step of the part p.
StepOf(p) ==
    \/ p = "file" /\ CfNext
    \/ p = "configuration" /\ CgNext
    \/ p = "log" /\ LgNext
    \/ p = "alarms" /\ AlNext
    \/ p = "lan" /\ WlNext
    \/ p = "usb" /\ WuNext
    \/ p = "monitors" /\ MnNext
    \/ p = "web" /\ WsNext
    \/ p = "call" /\ CaNext
    \/ p = "ids" /\ MpNext
    \/ p = "export" /\ ExNext
    \/ p = "socket" /\ CnNext

\* What the step of a part leaves alone.
StaysBut(p) ==
    /\ p # "file" => UNCHANGED cfVars
    /\ p # "configuration" => UNCHANGED cgVars
    /\ p # "log" => UNCHANGED lg
    /\ p \notin {"log", "alarms"} => UNCHANGED <<lgWaiting, lgFailed>>
    /\ p # "alarms" => UNCHANGED alOwn
    /\ p # "lan" => UNCHANGED wlVars
    /\ p # "usb" => UNCHANGED wuVars
    /\ p # "monitors" => UNCHANGED mnVars
    /\ p # "web" => UNCHANGED wsVars
    /\ p # "call" => UNCHANGED caVars
    /\ p # "ids" => UNCHANGED mpVars
    /\ p # "export" => UNCHANGED exVars
    /\ p # "socket" => UNCHANGED cnVars

LEMMA OnePartSteps ==
    ASSUME [MCNext]_mcVars
    PROVE  \E p \in Parts \cup {"none"} : (p # "none" => StepOf(p)) /\ StaysBut(p)
<1> USE DEF ConfParts, LogParts, DogParts, WebParts, CallParts, CnRest
<1>1. CASE FileStep
  BY <1>1 DEF FileStep, StepOf, StaysBut, Parts
<1>2. CASE ConfigurationStep
  BY <1>2 DEF ConfigurationStep, StepOf, StaysBut, Parts
<1>3. CASE LogStep
  BY <1>3 DEF LogStep, StepOf, StaysBut, Parts
<1>4. CASE AlarmStep
  BY <1>4 DEF AlarmStep, StepOf, StaysBut, Parts
<1>5. CASE LanStep
  BY <1>5 DEF LanStep, StepOf, StaysBut, Parts
<1>6. CASE UsbStep
  BY <1>6 DEF UsbStep, StepOf, StaysBut, Parts
<1>7. CASE MonitorStep
  BY <1>7 DEF MonitorStep, StepOf, StaysBut, Parts
<1>8. CASE WebStep
  BY <1>8 DEF WebStep, StepOf, StaysBut, Parts
<1>9. CASE CallStep
  BY <1>9 DEF CallStep, StepOf, StaysBut, Parts
<1>10. CASE IdsStep
  BY <1>10 DEF IdsStep, StepOf, StaysBut, Parts
<1>11. CASE ExportStep
  BY <1>11 DEF ExportStep, StepOf, StaysBut, Parts
<1>12. CASE SocketStep \/ FileAnswerStep
  BY <1>12 DEF SocketStep, FileAnswerStep, CnNext, StepOf, StaysBut, Parts
<1>13. CASE UNCHANGED mcVars
  BY <1>13 DEF mcVars, StaysBut, Parts
<1> QED BY <1>1, <1>2, <1>3, <1>4, <1>5, <1>6, <1>7, <1>8, <1>9, <1>10, <1>11, <1>12, <1>13 DEF MCNext

----------------------------------------------------------------------------
(* What getMeasurementsList gives.                                           *)

LEMMA ListedTyped ==
    ASSUME NEW doc \in Seq(Mapping), NEW scope
    PROVE  Listed(doc, scope) \in Seq(Mapping)
<1> DEFINE n == Len(doc)
           T == Seq(Mapping)
           e(k) == IF doc[k].id = NoId THEN <<>> ELSE <<doc[k]>>
           p == [k \in 1..n |-> e(k)]
<1>1. n \in Nat /\ DOMAIN doc = 1..n /\ \A k \in 1..n : doc[k] \in Mapping
  BY LenProperties, ElementOfSeq
<1>2. \A k \in 1..n : e(k) \in T
  <2> SUFFICES ASSUME NEW k \in 1..n PROVE e(k) \in T
    OBVIOUS
  <2> DEFINE m == doc[k]
  <2>1. m \in Mapping
    BY <1>1
  <2> HIDE DEF m
  <2>2. <<m>> \in Seq(Mapping) /\ <<>> \in Seq(Mapping)
    BY <2>1
  <2> QED BY <2>2 DEF m
<1> HIDE DEF T, e, n
<1>3. p \in Seq(T)
  BY <1>1, <1>2
<1>4. FlattenSeq(p) \in Seq(Mapping)
  BY <1>3, FlattenOnce DEF T
<1>5. Listed(doc, scope) = IF scope = "allocated" THEN FlattenSeq(p) ELSE doc
  BY <1>1 DEF Listed, e
<1> QED BY <1>4, <1>5

\* A list as it is kept.
MpListTyped(list) ==
    /\ list.target \in Targets /\ list.scope \in Scopes
    /\ list.content \in Seq(Mapping) /\ list.answers \in Seq({200, 400, 408, 500})

MpAnswers == Seq({200, 400, 408, 500})
MpAsked(target, scope) == [target |-> target, scope |-> scope, content |-> <<>>, answers |-> <<>>]

LEMMA GivenTyped ==
    ASSUME NEW target \in Targets, NEW scope \in Scopes, NEW content \in Seq(Mapping), NEW answers \in MpAnswers
    PROVE  MpListTyped([target |-> target, scope |-> scope, content |-> content, answers |-> answers])
BY DEF MpListTyped, MpAnswers

LEMMA AnswersTyped ==
    ASSUME NEW target \in Targets, NEW scope \in Scopes, NEW answers \in MpAnswers, NEW list,
           list = [MpAsked(target, scope) EXCEPT !.answers = answers]
    PROVE  MpListTyped(list)
<1>1. list = [target |-> target, scope |-> scope, content |-> <<>>, answers |-> answers]
  BY DEF MpAsked
<1>2. <<>> \in Seq(Mapping)
  OBVIOUS
<1> QED BY <1>1, <1>2, GivenTyped

LEMMA ContentTyped ==
    ASSUME NEW target \in Targets, NEW scope \in Scopes, NEW answers \in MpAnswers, NEW content \in Seq(Mapping),
           NEW list, list = [MpAsked(target, scope) EXCEPT !.answers = answers, !.content = content]
    PROVE  MpListTyped(list)
<1> DEFINE one == [MpAsked(target, scope) EXCEPT !.answers = answers]
<1>1. one = [target |-> target, scope |-> scope, content |-> <<>>, answers |-> answers]
  BY DEF MpAsked
<1>2. list = [one EXCEPT !.content = content]
  OBVIOUS
<1> HIDE DEF one
<1>3. list = [target |-> target, scope |-> scope, content |-> content, answers |-> answers]
  BY <1>1, <1>2
<1>4. MpListTyped([target |-> target, scope |-> scope, content |-> content, answers |-> answers])
  BY GivenTyped
<1> QED BY <1>3, <1>4

LEMMA GetListTyped ==
    ASSUME mlFile \in MlFile, NEW target \in Targets, NEW scope \in Scopes, MpGetList(target, scope)
    PROVE  MpListTyped(mpList')
<1> DEFINE content == Listed(Parsed, ScopeOf(target, scope))
<1>1. content \in Seq(Mapping)
  BY ListedTyped DEF Parsed, MlFile
<1>2. <<400>> \in MpAnswers /\ <<500, 200>> \in MpAnswers /\ <<200>> \in MpAnswers /\ <<408>> \in MpAnswers
  BY DEF MpAnswers
<1>3. PICK list : list = mpList'
  OBVIOUS
<1>4. \/ list = [MpAsked(target, scope) EXCEPT !.answers = <<400>>]
      \/ list = [MpAsked(target, scope) EXCEPT !.answers = <<200>>]
      \/ list = [MpAsked(target, scope) EXCEPT !.answers = <<408>>]
      \/ list = [MpAsked(target, scope) EXCEPT !.answers = <<500, 200>>]
      \/ list = [MpAsked(target, scope) EXCEPT !.answers = <<200>>, !.content = content]
  BY <1>3 DEF MpGetList, MpAsked
<1> HIDE DEF content
<1>5. \A a \in MpAnswers : list = [MpAsked(target, scope) EXCEPT !.answers = a] => MpListTyped(list)
  BY AnswersTyped
<1>6. PICK ok \in MpAnswers : ok = <<200>>
  BY <1>2
<1>7. ASSUME list = [MpAsked(target, scope) EXCEPT !.answers = ok, !.content = content] PROVE MpListTyped(list)
  BY <1>1, <1>7, ContentTyped
<1>8. MpListTyped(list)
  BY <1>2, <1>4, <1>5, <1>6, <1>7
<1> QED BY <1>3, <1>8 DEF MpListTyped

(* ML.xml, the document in memory, the request and the list that was given   *)
(* last (id_mapper.cc, core_function_get_measurements_list.cc) stay what     *)
(* they are.                                                                 *)
THEOREM MappingTypes == MpSpec => []MpTypeOK
<1> DEFINE I == MpListTyped(mpList) /\ mpOp \in ChangedFor /\ mpCount \in 0..MappingLimit
                  /\ mpStep \in {"idle", "write", "move"}
<1>1. MpInit => I
  <2> SUFFICES ASSUME MpInit PROVE I
    OBVIOUS
  <2>1. "" \in Targets /\ "" \in Scopes /\ <<>> \in Seq(Mapping) /\ <<>> \in Seq({200, 400, 408, 500})
    BY DEF Targets, Scopes
  <2>2. MpListTyped(mpList)
    BY <2>1 DEF MpInit, NoList, MpListTyped
  <2> QED BY <2>2, MappingAssumption DEF MpInit, ChangedFor, Iids
<1>2. MpIInv /\ I /\ [MpNext]_mpVars => I'
  <2> SUFFICES ASSUME MpIInv, I, [MpNext]_mpVars PROVE I'
    OBVIOUS
  <2>1. MpListTyped(NoList)
    <3>1. "" \in Targets /\ "" \in Scopes /\ <<>> \in Seq(Mapping) /\ <<>> \in Seq({200, 400, 408, 500})
      BY DEF Targets, Scopes
    <3> QED BY <3>1 DEF NoList, MpListTyped
  <2>2. ASSUME MpRequest PROVE mpCount' \in 0..MappingLimit
    BY <2>2, MappingAssumption DEF MpRequest
  <2>3. ASSUME NEW iid \in Iids, NEW id \in AllocatedIds \cup {NoId}, NEW stamp \in Stamps, MpSync(iid, id, stamp)
        PROVE  I'
    <3>1. mpOp' \in ChangedFor /\ mpStep' \in {"idle", "write", "move"}
      BY <2>3 DEF MpSync, ChangedFor
    <3> QED BY <2>1, <2>2, <2>3, <3>1 DEF MpSync
  <2>4. ASSUME NEW iid \in Iids, MpFree(iid) PROVE I'
    <3>1. mpOp' \in ChangedFor /\ mpStep' \in {"idle", "write", "move"}
      BY <2>4 DEF MpFree, ChangedFor
    <3> QED BY <2>1, <2>2, <2>4, <3>1 DEF MpFree
  <2>5. CASE MpWrite \/ MpWriteFails \/ MpMove \/ MpCrash
    BY <2>5 DEF MpWrite, MpWriteFails, MpMove, MpCrash
  <2>6. ASSUME NEW target \in Targets, NEW scope \in Scopes, MpGetList(target, scope) PROVE I'
    <3>1. MpListTyped(mpList')
      BY <2>6, GetListTyped DEF MpIInv, Docs
    <3>2. MpRequest /\ mpOp' = mpOp /\ mpStep' = mpStep
      BY <2>6 DEF MpGetList
    <3> QED BY <2>2, <3>1, <3>2
  <2>7. CASE UNCHANGED mpVars
    BY <2>7 DEF mpVars
  <2> QED BY <2>3, <2>4, <2>5, <2>6, <2>7 DEF MpNext
<1>3. MpIInv /\ I => MpTypeOK
  BY DEF MpIInv, Docs, MpTypeOK, MpListTyped
<1> HIDE DEF I
<1> QED BY <1>1, <1>2, <1>3, MpInvariant, PTL DEF MpSpec

----------------------------------------------------------------------------
\* Where the parts begin that are not chosen is where they might have begun.
LEMMA CallBegins == MCInit => CaAnyInit
<1> SUFFICES ASSUME MCInit PROVE CaAnyInit
  OBVIOUS
<1>1. CASE CaInit
  BY <1>1, CaInitIsAny
<1>2. CASE ca = NewCall("getParameter", "Debug", <<>>, "none", "none", <<>>, "none")
  <2>1. "getParameter" \in Fids /\ "Debug" \in Channels /\ "none" \in Hosts
    BY DEF Fids, PassedToDc, ReadAtDc, Channels, Hosts
  <2>2. <<>> \in Seq(Seq(Ids)) /\ <<>> \in Seq(Hosts)
    OBVIOUS
  <2> QED BY <1>2, <2>1, <2>2 DEF CaAnyInit
<1> QED BY <1>1, <1>2 DEF MCInit

LEMMA ExportBegins == MCInit => ExAnyInit
<1> SUFFICES ASSUME MCInit PROVE ExAnyInit
  OBVIOUS
<1>1. CASE ExInit
  BY <1>1, ExInitIsAny
<1>2. CASE /\ ex = NewExport("conf", "unknown", "none", "none", "none", "none", FALSE)
           /\ exWorld = NewWorld(<<>>, 0, <<>>, TRUE, TRUE, {}, "none")
           /\ exMade = {} /\ exOut = <<>> /\ exConfig = "none" /\ exTemps = 0
  <2>1. /\ <<>> \in Seq([id : Outputs, format : Formats]) /\ <<>> \in Seq(MeasurementFile)
        /\ 0 \in 0..2 /\ TRUE \in BOOLEAN /\ FALSE \in BOOLEAN /\ {} \in SUBSET Protocols
    OBVIOUS
  <2>2. "none" \in Protocols /\ "none" \in Formats /\ "none" \in Outputs /\ "unknown" \in Dests
    BY ConstantsAreTyped DEF Dests
  <2>3. exWorld \in Surroundings
    BY <1>2, <2>1, <2>2, NewWorldIs
  <2>4. NamesOnce
    BY <1>2 DEF NamesOnce, NewWorld, IsInjective
  <2>5. "conf" \in {"measurement", "log", "monitor", "conf", "xx"} /\ "none" \in {"iid", "id", "unknown", "none"}
    OBVIOUS
  <2> QED BY <1>2, <2>1, <2>2, <2>3, <2>4, <2>5 DEF ExAnyInit
<1> QED BY <1>1, <1>2 DEF MCInit

LEMMA PartsBegin ==
    MCInit => /\ CfInit /\ CgInit /\ LgInit /\ AlInit /\ WlInit /\ WuInit /\ MnInit /\ WsInit /\ CaAnyInit
              /\ MpInit /\ ExAnyInit /\ CnInit
BY CallBegins, ExportBegins DEF MCInit

LEMMA PartsStep ==
    [MCNext]_mcVars => /\ [CfNext]_cfVars /\ [CgNext]_cgVars /\ [LgNext]_lgVars /\ [AlNext]_alOwn
                       /\ [WlNext]_wlVars /\ [WuNext]_wuVars /\ [MnNext]_mnVars /\ [WsNext]_wsVars
                       /\ [CaNext]_caVars /\ [MpNext]_mpVars /\ [ExNext]_exVars /\ [CnNext]_cnVars
<1> SUFFICES ASSUME [MCNext]_mcVars
             PROVE  /\ [CfNext]_cfVars /\ [CgNext]_cgVars /\ [LgNext]_lgVars /\ [AlNext]_alOwn
                    /\ [WlNext]_wlVars /\ [WuNext]_wuVars /\ [MnNext]_mnVars /\ [WsNext]_wsVars
                    /\ [CaNext]_caVars /\ [MpNext]_mpVars /\ [ExNext]_exVars /\ [CnNext]_cnVars
  OBVIOUS
<1>1. PICK p \in Parts \cup {"none"} : (p # "none" => StepOf(p)) /\ StaysBut(p)
  BY OnePartSteps
<1>2. p = "alarms" => lgWaiting' = lgWaiting /\ lgFailed' = lgFailed
  BY <1>1 DEF StepOf, AlNext, AlTick, AlMeasure, AlFlag, AlConfigure
<1>3. [LgNext]_lgVars
  BY <1>1, <1>2 DEF StepOf, StaysBut, lgVars
<1> QED BY <1>1, <1>3 DEF StepOf, StaysBut

LEMMA PartsRun ==
    MCSpec => /\ CfSpec /\ CgSpec /\ LgSpec /\ AlSpec /\ WlSpec /\ WuSpec /\ MnSpec /\ WsSpec /\ CaAnySpec
              /\ MpSpec /\ ExAnySpec /\ CnSpec
BY PartsBegin, PartsStep, PTL
   DEF MCSpec, CfSpec, CgSpec, LgSpec, AlSpec, WlSpec, WuSpec, MnSpec, WsSpec, CaAnySpec, MpSpec, ExAnySpec, CnSpec

\* The watchdogs and the server by their invariants.
LEMMA WatchdogsTyped == WlIInv /\ WuIInv => WlTypeOK /\ WuTypeOK
<1> SUFFICES ASSUME WlIInv, WuIInv PROVE WlTypeOK /\ WuTypeOK
  OBVIOUS
<1>1. wlan.running \in BOOLEAN /\ wlan.progress \in BOOLEAN
  BY DEF WlIInv, WatchdogState
<1>2. WlTypeOK
  BY <1>1 DEF WlIInv, LanFilesOK, WlTypeOK
<1>3. wusb.mounted \in BOOLEAN
  BY DEF WuIInv, UsbOK, Usb
<1>4. WuTypeOK
  BY <1>3 DEF WuIInv, UsbOK, Plugged, WuTypeOK
<1> QED BY <1>2, <1>4

(* The variables of every part of the daemon keep their types, whichever of  *)
(* the parts runs (the components that MCServices puts side by side).        *)
THEOREM PartsKeepTypes == MCSpec => []PartsTypeOK
<1>1. WsIInv => WsTypeOK
  BY DEF WsIInv
<1>2. CfTypeOK /\ CgTypeOK /\ LgTypeOK /\ AlTypeOK /\ WlTypeOK /\ WuTypeOK /\ MnTypeOK /\ WsTypeOK
         /\ (CallsAreChecked /\ CaTypeOK) /\ MpTypeOK /\ ExTypeOK /\ CnTypeOK => PartsTypeOK
  BY DEF PartsTypeOK
<1> QED BY <1>1, <1>2, WatchdogsTyped, PartsRun, ConfigurationTypes, CgTypes, LgTypes, AlTypes,
           WlInvariant, WuInvariant, MonitorTypes, WsInvariant, AnyCallIsChecked, MappingTypes, ExportTypes,
           ConnectionTypesHold, PTL

(* What no step does (disk_usage_manager.cc, the watchdogs, id_mapper.cc),   *)
(* whichever of the parts takes it: the alarms free no measurement that is   *)
(* not flagged, a watchdog moves no file that was not read, and an id is     *)
(* taken from its measurement by a request for that one only.                *)
THEOREM StepsAlwaysKeep == MCSpec => StepsKeep
BY PartsRun, OnlyFlaggedRemoved, MovedAlwaysTaken, IdAlwaysStays, IdAlwaysFindsItsMeasurement, PTL DEF StepsKeep

(* What each part promises holds of all of them together.                    *)
THEOREM PartsKeepPromises ==
    MCSpec => [](/\ ConfigurationSurvives /\ ChangesReachAll /\ LogIsTrue /\ WatchdogsAgree /\ ServerFollows
                 /\ CallsAreChecked /\ MappingsHold /\ ExportsHold /\ ConnectionsHold)
BY PartsRun, ConfigurationAlwaysSurvives, ChangesAlwaysReachAll, LogAlwaysTrue, WatchdogsAlwaysAgree,
   ServerAlwaysFollows, AnyCallIsChecked, MappingsAlwaysHold, AnyExportHolds, ConnectionsAlwaysHold, PTL
=============================================================================
