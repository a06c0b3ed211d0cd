------------------------- MODULE MeasurementsProofs -------------------------
(***************************************************************************)
(* Proofs about Measurements, for any slots, files, requests and number of *)
(* versions of the measurement.                                            *)
(***************************************************************************)
EXTENDS Measurements, TLAPS

(***************************************************************************)
(* The inductive invariant.  It is stated about jobs and files given as    *)
(* arguments, because a callback goes through several of them before it    *)
(* returns; `v' is the version that is still delivered, `d' says whether   *)
(* the directory exists.                                                   *)
(***************************************************************************)

\* The file or temporary file of a generator is still in the directory.
Attached(j) == j.pc = "gen" /\ j.out \notin {"gone", "lost"}

\* A generator that has read an old measurement is detached; an attached one
\* that writes in place has its file, unfinished; only dataSync replaces files.
JobInv(j, files, v, d) ==
    /\ j.pc \in {"gen", "copy", "copied"} => j.i \in 1 .. Len(j.queue)
    /\ j.pc \in {"open", "write", "written", "dap"} => j.fn = "dataSync"
    /\ j.pc = "write" /\ j.out \in {"place", "temp"} => d
    /\ j.since <= v
    /\ \A c \in j.got : c = Part \/ c >= j.since
    /\ Attached(j) =>
          /\ d
          /\ j.out # "none"
          /\ j.ver # 0 => j.ver >= v
          /\ j.out = "place" => files[Target(j)] = Part
          /\ j.fn # "dataSync" => j.out = "place"

InPlace(j) == j.pc = "gen" /\ j.out = "place"

Apart(j, k) ==
    InPlace(j) /\ InPlace(k) => Target(j) # Target(k)

\* The jobs of the slots S.
JobsInv(S, jobs, files, v, d) ==
    /\ \A s \in S : JobInv(jobs[s], files, v, d)
    /\ \A s, t \in S : s # t => Apart(jobs[s], jobs[t])

FilesInv(files, v) == \A f \in File : files[f] \in Version => files[f] >= v

\* What a callback keeps; `up' says whether the daemon is alive.
Good(jobs, files, up, v, d) ==
    /\ jobs \in [Slot -> Job]
    /\ files \in [File -> Content]
    /\ up \in BOOLEAN
    /\ FilesInv(files, v)
    /\ JobsInv(Slot, jobs, files, v, d)
    /\ ~up => \E s \in Slot :
          \/ jobs[s].pc = "gen" /\ jobs[s].out \in {"gone", "lost"}
          \/ jobs[s].pc = "message" /\ jobs[s].fn = "dataOut" /\ jobs[s].i > 1

Inv ==
    /\ TypeOK
    /\ synced <= writes
    /\ raw \in Version => raw = writes
    /\ raw # Absent => dir
    /\ Good(job, cache, alive, synced, dir)

-----------------------------------------------------------------------------
\* What every queue consists of.
LEMMA QueueType ==
    ASSUME NEW j \in Job
    PROVE  /\ j.queue \in Seq(File)
           /\ j.queue # <<>> => 1 \in 1 .. Len(j.queue) /\ Len(j.queue) \in 1 .. Len(j.queue)
           /\ \A i \in 1 .. Len(j.queue) : j.queue[i] \in File
<1>1. \A f \in Car : <<f>> \in Seq(File)
  BY FilesAssumption
<1>2. <<>> \in Seq(File)
  OBVIOUS
<1>3. j.queue \in Queue \cup {<<f>> : f \in Car} \cup {<<>>}
  BY DEF Job
<1>4. j.queue \in Seq(File)
  BY <1>1, <1>2, <1>3, FilesAssumption
<1> QED BY <1>4

\* An idle slot is compatible with any files.
LEMMA NoJobInv ==
    ASSUME NEW v \in Nat, NEW files, NEW d
    PROVE  NoJob \in Job /\ JobInv(NoJob, files, v, d) /\ ~InPlace(NoJob)
BY DEF NoJob, Job, JobInv, Attached, InPlace, Version, Content

\* One slot gets a new job, the others keep theirs.
LEMMA NewJob ==
    ASSUME NEW s \in Slot, NEW jobs \in [Slot -> Job], NEW j \in Job,
           NEW files, NEW v, NEW d,
           JobsInv(Slot \ {s}, jobs, files, v, d), JobInv(j, files, v, d),
           \A t \in Slot \ {s} : Apart(j, jobs[t])
    PROVE  /\ [jobs EXCEPT ![s] = j] \in [Slot -> Job]
           /\ JobsInv(Slot, [jobs EXCEPT ![s] = j], files, v, d)
<1> DEFINE new == [jobs EXCEPT ![s] = j]
<1>1. new[s] = j /\ \A t \in Slot \ {s} : new[t] = jobs[t]
  OBVIOUS
<1>2. \A t \in Slot : JobInv(new[t], files, v, d)
  BY <1>1 DEF JobsInv
<1>3. ASSUME NEW t \in Slot, NEW u \in Slot, t # u PROVE Apart(new[t], new[u])
  <2>1. CASE t = s
    BY <1>1, <1>3, <2>1
  <2>2. CASE u = s
    <3>1. Apart(j, jobs[t])
      BY <1>3, <2>2
    <3> QED BY <1>1, <1>3, <2>2, <3>1 DEF Apart
  <2>3. CASE t # s /\ u # s
    BY <1>1, <1>3, <2>3 DEF JobsInv
  <2> QED BY <2>1, <2>2, <2>3
<1> HIDE DEF new
<1>4. JobsInv(Slot, new, files, v, d)
  BY <1>2, <1>3 DEF JobsInv
<1> QED BY <1>4 DEF new

\* What holds of all slots holds of all but one.
LEMMA OtherSlots ==
    ASSUME NEW s \in Slot, NEW jobs, NEW files, NEW v, NEW d,
           JobsInv(Slot, jobs, files, v, d)
    PROVE  JobsInv(Slot \ {s}, jobs, files, v, d)
BY DEF JobsInv

\* A slot is done, or goes on to something else than generating.
LEMMA AnswerInv ==
    ASSUME NEW s \in Slot, NEW jobs \in [Slot -> Job], NEW files, NEW v \in Nat, NEW d,
           JobsInv(Slot \ {s}, jobs, files, v, d), Answer(s, jobs)
    PROVE  job' \in [Slot -> Job] /\ JobsInv(Slot, job', files, v, d)
BY NoJobInv, NewJob DEF Answer, Apart

-----------------------------------------------------------------------------
(***************************************************************************)
(* Files that are removed or replaced.                                     *)
(***************************************************************************)

\* A job whose file is gone keeps its part of the invariant.
LEMMA DetachedInv ==
    ASSUME NEW j \in Job, NEW files, NEW v \in Nat, NEW d, JobInv(j, files, v, d),
           j.pc = "gen", NEW out \in {"gone", "lost"}, NEW k,
           k = [j EXCEPT !.out = out], NEW files2, NEW w \in Nat, NEW d2, v <= w
    PROVE  k \in Job /\ JobInv(k, files2, w, d2) /\ ~InPlace(k)
<1>1. k \in Job
  BY DEF Job
<1>2. k.out = out /\ k.pc = "gen" /\ k.i = j.i /\ k.queue = j.queue
      /\ k.since = j.since /\ k.got = j.got
  BY DEF Job
<1>3. ~Attached(k) /\ ~InPlace(k)
  BY <1>2 DEF Attached, InPlace
<1>4. j.since \in Nat
  BY DEF Job, Version
<1>5. JobInv(k, files2, w, d2)
  BY <1>2, <1>3, <1>4 DEF JobInv
<1> QED BY <1>1, <1>3, <1>5

\* f is written by slot s: no other slot writes it in place any more, and the
\* others keep their files.
LEMMA WithoutFileInv ==
    ASSUME NEW s \in Slot, NEW jobs \in [Slot -> Job],
           NEW files \in [File -> Content], NEW v \in Nat, NEW d,
           NEW f \in File, NEW c \in Content,
           JobsInv(Slot \ {s}, jobs, files, v, d)
    PROVE  LET new == WithoutFile(jobs, f, s)
           IN  /\ new \in [Slot -> Job]
               /\ new[s] = jobs[s]
               /\ JobsInv(Slot \ {s}, new, [files EXCEPT ![f] = c], v, d)
               /\ \A t \in Slot \ {s} : InPlace(new[t]) => Target(new[t]) # f
<1> DEFINE new == WithoutFile(jobs, f, s)
           files2 == [files EXCEPT ![f] = c]
           Hit(t) == t # s /\ InPlace(jobs[t]) /\ Target(jobs[t]) = f
<1>1. \A t \in Slot : new[t] = IF Hit(t) THEN [jobs[t] EXCEPT !.out = "gone"] ELSE jobs[t]
  BY DEF WithoutFile, InPlace
<1>2. DOMAIN new = Slot
  BY DEF WithoutFile
<1>3. ASSUME NEW t \in Slot \ {s}
      PROVE  /\ new[t] \in Job
             /\ JobInv(new[t], files2, v, d)
             /\ InPlace(new[t]) => new[t] = jobs[t] /\ Target(new[t]) # f
  <2>1. JobInv(jobs[t], files, v, d)
    BY DEF JobsInv
  <2>2. CASE Hit(t)
    <3>1. new[t] = [jobs[t] EXCEPT !.out = "gone"] /\ jobs[t].pc = "gen"
      BY <1>1, <2>2 DEF InPlace
    <3> HIDE DEF new, files2
    <3>2. JobInv(new[t], files2, v, d) /\ new[t] \in Job /\ ~InPlace(new[t])
      <4>1. jobs[t] \in Job /\ v <= v /\ "gone" \in {"gone", "lost"}
        OBVIOUS
      <4> QED BY <2>1, <3>1, <4>1, DetachedInv
    <3> QED BY <3>2
  <2>3. CASE ~Hit(t)
    <3>1. new[t] = jobs[t]
      BY <1>1, <2>3
    <3>2. Attached(jobs[t]) /\ jobs[t].out = "place" => files2[Target(jobs[t])] = Part
      <4>1. SUFFICES ASSUME Attached(jobs[t]), jobs[t].out = "place"
                     PROVE  files2[Target(jobs[t])] = Part
        OBVIOUS
      <4>2. jobs[t].i \in 1 .. Len(jobs[t].queue)
        BY <2>1, <4>1 DEF JobInv, Attached
      <4>3. Target(jobs[t]) \in File
        BY <4>2, QueueType DEF Target
      <4>4. Target(jobs[t]) # f
        BY <2>3, <4>1 DEF Attached, InPlace
      <4> QED BY <2>1, <4>1, <4>3, <4>4 DEF JobInv
    <3>3. JobInv(jobs[t], files2, v, d)
      BY <2>1, <3>2 DEF JobInv
    <3> QED BY <2>3, <3>1, <3>3
  <2> QED BY <2>2, <2>3
<1>4. new[s] = jobs[s]
  BY <1>1
<1>5. new \in [Slot -> Job]
  <2> HIDE DEF new
  <2>1. \A t \in Slot : new[t] \in Job
    BY <1>3, <1>4
  <2>2. new = [t \in Slot |-> new[t]]
    BY DEF new, WithoutFile
  <2> QED BY <2>1, <2>2
<1>6. ASSUME NEW t \in Slot \ {s}, NEW u \in Slot \ {s}, t # u
      PROVE  Apart(new[t], new[u])
  <2>1. Apart(jobs[t], jobs[u])
    BY <1>6 DEF JobsInv
  <2> HIDE DEF new
  <2> QED BY <1>3, <2>1 DEF Apart
<1>7. JobsInv(Slot \ {s}, new, files2, v, d)
  <2> HIDE DEF new, files2
  <2> QED BY <1>3, <1>6 DEF JobsInv
<1> HIDE DEF new, files2
<1>8. \A t \in Slot \ {s} : InPlace(new[t]) => Target(new[t]) # f
  BY <1>3
<1> QED BY <1>4, <1>5, <1>7, <1>8 DEF new, files2

\* All files are removed: no generator is attached any more, so that the version
\* delivered may be a later one.
LEMMA WithoutFilesInv ==
    ASSUME NEW jobs \in [Slot -> Job], NEW files, NEW files2, NEW d, NEW d2,
           NEW v \in Nat, NEW w \in Nat, v <= w, JobsInv(Slot, jobs, files, v, d),
           \/ d = d2
           \/ \A t \in Slot : ~(jobs[t].pc = "write" /\ jobs[t].out = "place")
    PROVE  LET new == WithoutFiles(jobs)
           IN  /\ new \in [Slot -> Job]
               /\ JobsInv(Slot, new, files2, w, d2)
               /\ \A t \in Slot : /\ ~InPlace(new[t])
                                  /\ jobs[t].pc \notin {"gen", "write"} => new[t] = jobs[t]
<1> DEFINE new == WithoutFiles(jobs)
<1>1. ASSUME NEW t \in Slot
      PROVE  /\ new[t] \in Job
             /\ JobInv(new[t], files2, w, d2)
             /\ ~InPlace(new[t])
             /\ jobs[t].pc \notin {"gen", "write"} => new[t] = jobs[t]
  <2>1. JobInv(jobs[t], files, v, d) /\ jobs[t] \in Job
    BY DEF JobsInv
  <2>2. CASE jobs[t].pc = "gen" /\ jobs[t].out = "place"
    <3>1. new[t] = [jobs[t] EXCEPT !.out = "gone"]
      BY <2>2 DEF WithoutFiles
    <3> HIDE DEF new
    <3> QED BY <2>1, <2>2, <3>1, DetachedInv
  <2>3. CASE jobs[t].pc = "gen" /\ jobs[t].out = "temp"
    <3>1. new[t] = [jobs[t] EXCEPT !.out = "lost"]
      BY <2>3 DEF WithoutFiles
    <3> HIDE DEF new
    <3> QED BY <2>1, <2>3, <3>1, DetachedInv
  <2>4. CASE jobs[t].pc = "write" /\ jobs[t].out = "temp"
    <3>1. new[t] = [jobs[t] EXCEPT !.out = "lost"]
      BY <2>4 DEF WithoutFiles
    <3> HIDE DEF new
    <3>2. new[t] \in Job
      BY <2>1, <3>1 DEF Job
    <3>3. /\ new[t].pc = "write" /\ new[t].out # "place" /\ new[t].out # "temp"
          /\ new[t].fn = jobs[t].fn
          /\ new[t].since = jobs[t].since /\ new[t].got = jobs[t].got
      BY <2>1, <2>4, <3>1 DEF Job
    <3>4. jobs[t].since \in Nat
      BY <2>1 DEF Job, Version
    <3> QED BY <2>1, <2>4, <3>2, <3>3, <3>4 DEF JobInv, Attached, InPlace
  <2>5. CASE ~ \/ jobs[t].pc = "gen" /\ jobs[t].out = "place"
               \/ jobs[t].pc \in {"gen", "write"} /\ jobs[t].out = "temp"
    <3>1. new[t] = jobs[t]
      BY <2>5 DEF WithoutFiles
    <3>2. ~Attached(jobs[t])
      BY <2>1, <2>5 DEF JobInv, Attached, Job
    <3>3. jobs[t].since \in Nat
      BY <2>1 DEF Job, Version
    <3> HIDE DEF new
    <3> QED BY <2>1, <2>5, <3>1, <3>2, <3>3 DEF JobInv, InPlace
  <2> QED BY <2>2, <2>3, <2>4, <2>5
<1>2. new \in [Slot -> Job]
  <2>1. new = [t \in Slot |-> new[t]]
    BY DEF WithoutFiles
  <2> HIDE DEF new
  <2> QED BY <1>1, <2>1
<1> HIDE DEF new
<1>3. JobsInv(Slot, new, files2, w, d2)
  BY <1>1 DEF JobsInv, Apart
<1> QED BY <1>1, <1>2, <1>3 DEF new

\* The measurement is replaced or removed.
LEMMA WithoutMeasurementInv ==
    ASSUME NEW jobs \in [Slot -> Job], NEW files, NEW d, NEW v \in Nat,
           JobsInv(Slot, jobs, files, v, d)
    PROVE  LET new == WithoutMeasurement(jobs)
           IN  /\ new \in [Slot -> Job]
               /\ JobsInv(Slot, new, files, v, d)
               /\ \A t \in Slot : ~(new[t].pc = "write" /\ new[t].out = "place")
<1> DEFINE new == WithoutMeasurement(jobs)
<1>1. ASSUME NEW t \in Slot
      PROVE  /\ new[t] \in Job
             /\ JobInv(new[t], files, v, d)
             /\ InPlace(new[t]) => new[t] = jobs[t]
             /\ ~(new[t].pc = "write" /\ new[t].out = "place")
  <2>1. JobInv(jobs[t], files, v, d) /\ jobs[t] \in Job
    BY DEF JobsInv
  <2>2. CASE jobs[t].pc = "write" /\ jobs[t].out = "place"
    <3>1. new[t] = [jobs[t] EXCEPT !.out = "gone"]
      BY <2>2 DEF WithoutMeasurement
    <3> HIDE DEF new
    <3>2. new[t] \in Job
      BY <2>1, <3>1 DEF Job
    <3>3. /\ new[t].pc = "write" /\ new[t].out # "place" /\ new[t].out # "temp"
          /\ new[t].fn = jobs[t].fn
          /\ new[t].since = jobs[t].since /\ new[t].got = jobs[t].got
      BY <2>1, <2>2, <3>1 DEF Job
    <3> QED BY <2>1, <2>2, <3>2, <3>3 DEF JobInv, Attached, InPlace
  <2>3. CASE ~(jobs[t].pc = "write" /\ jobs[t].out = "place")
    <3>1. new[t] = jobs[t]
      BY <2>3 DEF WithoutMeasurement
    <3> HIDE DEF new
    <3> QED BY <2>1, <2>3, <3>1
  <2> QED BY <2>2, <2>3
<1>2. new \in [Slot -> Job]
  <2>1. new = [t \in Slot |-> new[t]]
    BY DEF WithoutMeasurement
  <2> HIDE DEF new
  <2> QED BY <1>1, <2>1
<1>3. ASSUME NEW t \in Slot, NEW u \in Slot, t # u PROVE Apart(new[t], new[u])
  <2>1. Apart(jobs[t], jobs[u])
    BY <1>3 DEF JobsInv
  <2> HIDE DEF new
  <2> QED BY <1>1, <2>1 DEF Apart
<1> HIDE DEF new
<1>4. JobsInv(Slot, new, files, v, d)
  BY <1>1, <1>3 DEF JobsInv
<1> QED BY <1>1, <1>2, <1>4 DEF new

-----------------------------------------------------------------------------
(***************************************************************************)
(* The steps of Proceed.                                                   *)
(***************************************************************************)

\* A complete file that is read is not older than v.
LEMMA ContentsFresh ==
    ASSUME NEW q \in Seq(File), NEW files \in [File -> Content], NEW v \in Nat,
           FilesInv(files, v), Absent \notin Contents(q, files)
    PROVE  /\ Contents(q, files) \subseteq Content
           /\ \A c \in Contents(q, files) : c = Part \/ c >= v
<1>1. SUFFICES ASSUME NEW k \in DOMAIN q
               PROVE  /\ files[q[k]] \in Content
                      /\ files[q[k]] # Absent => files[q[k]] = Part \/ files[q[k]] >= v
  BY DEF Contents
<1>2. q[k] \in File
  OBVIOUS
<1> QED BY <1>2 DEF FilesInv, Content

\* Whoever delivers files has no generator.
LEMMA DeliverInv ==
    ASSUME NEW s \in Slot, NEW j \in Job, NEW others \in [Slot -> Job],
           NEW files \in [File -> Content], NEW v \in Nat, alive = TRUE,
           FilesInv(files, v), JobsInv(Slot \ {s}, others, files, v, dir),
           j.since <= v, \A c \in j.got : c = Part \/ c >= j.since,
           j.queue # <<>>, Deliver(s, j, files, others)
    PROVE  Good(job', cache', alive', v, dir)
<1> DEFINE jd(d) == [j EXCEPT !.dest = d, !.out = "none", !.ver = 0]
           copying(d) == [jd(d) EXCEPT !.pc = "copy", !.i = 1]
           copied(d) == [jd(d) EXCEPT !.pc = "copied", !.i = Len(j.queue),
                                      !.got = Contents(j.queue, files)]
<1>0. PICK d \in (IF j.fn = "dataOut" THEN Dest ELSE {"file"}) :
        IF d # "localPrinter"
          THEN job' = [others EXCEPT ![s] = copying(d)]
        ELSE IF Absent \in Contents(j.queue, files)
          THEN Answer(s, others)
          ELSE job' = [others EXCEPT ![s] = copied(d)]
  BY DEF Deliver
<1>1. d \in {"file", "printer", "localPrinter"}
  BY FilesAssumption
<1>2. jd(d) \in Job
  BY <1>1 DEF Job
<1>3. cache' = files /\ alive' = TRUE
  BY DEF Deliver
<1>4. job' \in [Slot -> Job] /\ JobsInv(Slot, job', files, v, dir)
  <2>1. CASE job' = [others EXCEPT ![s] = copying(d)]
    <3>1. copying(d) \in Job
      <4> HIDE DEF jd
      <4> QED BY <1>2, ZenonT(30) DEF Job
    <3>2. copying(d).pc = "copy" /\ copying(d).i = 1 /\ copying(d).queue = j.queue
          /\ copying(d).since = j.since /\ copying(d).got = j.got
      BY DEF Job
    <3> HIDE DEF copying
    <3>3. JobInv(copying(d), files, v, dir) /\ ~InPlace(copying(d))
      BY <3>2, QueueType DEF JobInv, Attached, InPlace
    <3> QED BY <2>1, <3>1, <3>3, NewJob DEF Apart
  <2>2. CASE Answer(s, others)
    BY <2>2, AnswerInv
  <2>3. CASE job' = [others EXCEPT ![s] = copied(d)] /\ Absent \notin Contents(j.queue, files)
    <3>1. /\ Contents(j.queue, files) \subseteq Content
          /\ \A c \in Contents(j.queue, files) : c = Part \/ c >= v
      BY <2>3, ContentsFresh, QueueType
    <3>2. copied(d) \in Job
      <4>1. Len(j.queue) \in Nat
        BY QueueType
      <4> HIDE DEF jd
      <4> QED BY <1>2, <3>1, <4>1, ZenonT(30) DEF Job
    <3>3. copied(d).pc = "copied" /\ copied(d).i = Len(j.queue) /\ copied(d).queue = j.queue
          /\ copied(d).since = j.since /\ copied(d).got = Contents(j.queue, files)
      BY DEF Job
    <3>4. j.since \in Nat /\ \A c \in Content : c \in Int
      BY DEF Job, Version, Content, Absent, Part
    <3> HIDE DEF copied
    <3>5. JobInv(copied(d), files, v, dir) /\ ~InPlace(copied(d))
      BY <3>1, <3>3, <3>4, QueueType DEF JobInv, Attached, InPlace
    <3> QED BY <2>3, <3>2, <3>5, NewJob DEF Apart
  <2> QED BY <1>0, <2>1, <2>2, <2>3
<1> QED BY <1>3, <1>4 DEF Good

\* A generator gets the file f of its own, or replaces it.
LEMMA StartGeneratorInv ==
    ASSUME NEW s \in Slot, NEW j \in Job, NEW others \in [Slot -> Job],
           NEW files \in [File -> Content], NEW v \in Nat, alive = TRUE,
           FilesInv(files, v), JobsInv(Slot \ {s}, others, files, v, dir),
           j.since <= v, \A c \in j.got : c = Part \/ c >= j.since,
           j.i \in 1 .. Len(j.queue), NEW f, f = Target(j),
           j.fn # "dataSync" => files[f] = Absent,
           StartGenerator(s, j, f, files, others)
    PROVE  Good(job', cache', alive', v, dir)
<1> DEFINE k == [j EXCEPT !.pc = "gen", !.ver = 0,
                          !.out = IF files[f] = Absent THEN "place" ELSE "temp"]
           files2 == [files EXCEPT ![f] = IF files[f] = Absent THEN Part ELSE files[f]]
<1>1. f \in File
  BY QueueType DEF Target
<1>2. dir /\ alive' = TRUE /\ job' = [others EXCEPT ![s] = k] /\ cache' = files2
  BY DEF StartGenerator
<1>3. k \in Job
  BY ZenonT(30) DEF Job
<1>4. k.pc = "gen" /\ k.ver = 0 /\ k.i = j.i /\ k.queue = j.queue /\ k.fn = j.fn
      /\ k.since = j.since /\ k.got = j.got
      /\ k.out = IF files[f] = Absent THEN "place" ELSE "temp"
  BY DEF Job
<1> HIDE DEF k
<1>5. Target(k) = f
  BY <1>4 DEF Target
<1>6. Part \in Content /\ Part \notin Version /\ Part # Absent
  BY DEF Content, Part, Version, Absent
<1>7. files2 \in [File -> Content] /\ FilesInv(files2, v)
  BY <1>1, <1>6 DEF FilesInv
<1>8. k.out = "place" => files2[Target(k)] = Part
  BY <1>1, <1>4, <1>5
<1>9. JobInv(k, files2, v, dir)
  <2> HIDE DEF files2
  <2> QED BY <1>2, <1>4, <1>8 DEF JobInv, Attached
<1>10. ASSUME NEW t \in Slot \ {s}
       PROVE  JobInv(others[t], files2, v, dir) /\ Apart(k, others[t])
  <2>1. JobInv(others[t], files, v, dir) /\ others[t] \in Job
    BY DEF JobsInv
  <2>2. Attached(others[t]) /\ others[t].out = "place"
          => files2[Target(others[t])] = Part /\ files[Target(others[t])] = Part
    <3>1. SUFFICES ASSUME Attached(others[t]), others[t].out = "place"
                   PROVE  files2[Target(others[t])] = Part /\ files[Target(others[t])] = Part
      OBVIOUS
    <3>2. Target(others[t]) \in File
      BY <2>1, <3>1, QueueType DEF JobInv, Attached, Target
    <3>3. files[Target(others[t])] = Part
      BY <2>1, <3>1 DEF JobInv
    <3> QED BY <1>1, <1>6, <3>2, <3>3
  <2> HIDE DEF files2
  <2>3. JobInv(others[t], files2, v, dir)
    BY <2>1, <2>2 DEF JobInv
  <2>4. Apart(k, others[t])
    BY <1>4, <1>5, <1>6, <2>2 DEF Apart, InPlace, Attached
  <2> QED BY <2>3, <2>4
<1> HIDE DEF files2
<1>11. JobsInv(Slot \ {s}, others, files2, v, dir)
  BY <1>10 DEF JobsInv
<1>12. job' \in [Slot -> Job] /\ JobsInv(Slot, job', files2, v, dir)
  BY <1>2, <1>3, <1>9, <1>10, <1>11, NewJob
<1> QED BY <1>2, <1>7, <1>12 DEF Good

\* The file f was opened and is deleted or left with a part of its output.
LEMMA CannotSpawnInv ==
    ASSUME NEW s \in Slot, NEW j \in Job, NEW others \in [Slot -> Job],
           NEW files \in [File -> Content], NEW v \in Nat, alive = TRUE,
           FilesInv(files, v), JobsInv(Slot \ {s}, others, files, v, dir),
           NEW f \in File, CannotSpawn(s, j, f, files, others)
    PROVE  Good(job', cache', alive', v, dir)
<1> DEFINE c == IF j.fn = "dataOut" THEN Absent ELSE Part
           new == WithoutFile(others, f, s)
           files2 == [files EXCEPT ![f] = c]
<1>1. c \in Content /\ c \notin Version
  BY DEF Content, Version, Absent, Part
<1>2. files2 \in [File -> Content] /\ FilesInv(files2, v)
  BY <1>1 DEF FilesInv
<1>3. new \in [Slot -> Job] /\ JobsInv(Slot \ {s}, new, files2, v, dir)
  BY <1>1, WithoutFileInv
<1>4. Answer(s, new) /\ cache' = files2 /\ alive' = TRUE
  BY DEF CannotSpawn
<1> HIDE DEF new, files2
<1>5. job' \in [Slot -> Job] /\ JobsInv(Slot, job', files2, v, dir)
  BY <1>3, <1>4, AnswerInv
<1> QED BY <1>2, <1>4, <1>5 DEF Good

\* The file of a postprocessor that cannot be run stays, and the daemon ends or
\* the file of an earlier entry is deleted.
LEMMA MessageFailsInv ==
    ASSUME NEW s \in Slot, NEW j \in Job, NEW others \in [Slot -> Job],
           NEW files \in [File -> Content], NEW v \in Nat, alive = TRUE,
           FilesInv(files, v), JobsInv(Slot \ {s}, others, files, v, dir),
           j.since <= v, \A c \in j.got : c = Part \/ c >= j.since,
           j.i \in Nat \ {0}, NEW k \in 1 .. Len(j.queue), files[j.queue[k]] = Absent,
           MessageFails(s, j, k, files, others)
    PROVE  Good(job', cache', alive', v, dir)
<1> DEFINE f == j.queue[k]
           left == [files EXCEPT ![f] = Part]
           m == [j EXCEPT !.pc = "message", !.i = k, !.out = "none", !.ver = 0]
<1>1. f \in File /\ k \in Nat /\ k > 1 /\ j.fn = "dataOut" /\ Len(j.queue) \in Nat
  BY QueueType DEF MessageFails
<1>2. Part \in Content /\ Part \notin Version /\ Part # Absent
      /\ Absent \in Content /\ Absent \notin Version
  BY DEF Content, Part, Version, Absent
<1>3. left \in [File -> Content] /\ FilesInv(left, v)
  BY <1>1, <1>2 DEF FilesInv
<1>4. \/ job' = [others EXCEPT ![s] = m] /\ cache' = left /\ alive' = FALSE
      \/ \E l \in j.i .. k - 1 :
            /\ Answer(s, WithoutFile(others, j.queue[l], s))
            /\ cache' = [left EXCEPT ![j.queue[l]] = Absent]
            /\ alive' = TRUE
  BY DEF MessageFails
<1>5. ASSUME NEW t \in Slot \ {s} PROVE JobInv(others[t], left, v, dir)
  <2>1. JobInv(others[t], files, v, dir) /\ others[t] \in Job
    BY DEF JobsInv
  <2>2. ASSUME Attached(others[t]), others[t].out = "place"
        PROVE  left[Target(others[t])] = Part
    <3>1. Target(others[t]) \in File
      BY <2>1, <2>2, QueueType DEF JobInv, Attached, Target
    <3>2. files[Target(others[t])] = Part
      BY <2>1, <2>2 DEF JobInv
    <3> QED BY <1>1, <3>1, <3>2
  <2> HIDE DEF left
  <2> QED BY <2>1, <2>2 DEF JobInv
<1>6. JobsInv(Slot \ {s}, others, left, v, dir)
  <2> HIDE DEF left
  <2> QED BY <1>5 DEF JobsInv
<1>7. CASE job' = [others EXCEPT ![s] = m] /\ cache' = left /\ alive' = FALSE
  <2>1. m \in Job
    BY <1>1, ZenonT(30) DEF Job
  <2>2. m.pc = "message" /\ m.fn = j.fn /\ m.i = k /\ m.since = j.since /\ m.got = j.got
    BY DEF Job
  <2> HIDE DEF m, left, f
  <2>3. JobInv(m, left, v, dir) /\ ~InPlace(m)
    BY <2>2 DEF JobInv, Attached, InPlace
  <2>4. job' \in [Slot -> Job] /\ JobsInv(Slot, job', left, v, dir)
    BY <1>6, <1>7, <2>1, <2>3, NewJob DEF Apart
  <2>5. job'[s] = m
    BY <1>7
  <2>6. job'[s].pc = "message" /\ job'[s].fn = "dataOut" /\ job'[s].i > 1
    BY <1>1, <2>2, <2>5
  <2> QED BY <1>3, <1>7, <2>4, <2>6 DEF Good
<1>8. ASSUME NEW l \in j.i .. k - 1,
             Answer(s, WithoutFile(others, j.queue[l], s)),
             cache' = [left EXCEPT ![j.queue[l]] = Absent], alive' = TRUE
      PROVE  Good(job', cache', alive', v, dir)
  <2> DEFINE g == j.queue[l]
             new == WithoutFile(others, g, s)
             files2 == [left EXCEPT ![g] = Absent]
  <2>1. l \in 1 .. Len(j.queue)
    BY <1>1
  <2>2. g \in File
    BY <2>1, QueueType
  <2> HIDE DEF left, f, g
  <2>3. files2 \in [File -> Content] /\ FilesInv(files2, v)
    BY <1>2, <1>3, <2>2 DEF FilesInv
  <2>4. new \in [Slot -> Job] /\ JobsInv(Slot \ {s}, new, files2, v, dir)
    BY <1>2, <1>3, <1>6, <2>2, WithoutFileInv
  <2>5. Answer(s, new) /\ cache' = files2
    BY <1>8 DEF g
  <2> HIDE DEF new, files2
  <2>6. job' \in [Slot -> Job] /\ JobsInv(Slot, job', files2, v, dir)
    BY <2>4, <2>5, AnswerInv
  <2> QED BY <1>8, <2>3, <2>5, <2>6 DEF Good
<1> QED BY <1>4, <1>7, <1>8

\* A generator whose file was taken away.
Detached(j) == j.pc = "gen" /\ j.out \in {"gone", "lost"}

\* The next missing file is generated, or all are delivered.
LEMMA ProceedInv ==
    ASSUME NEW s \in Slot, NEW j \in Job, NEW others \in [Slot -> Job],
           NEW files \in [File -> Content], NEW v \in Nat, alive = TRUE,
           FilesInv(files, v), JobsInv(Slot \ {s}, others, files, v, dir),
           ~dir => JobInv(others[s], files, v, dir) /\ Detached(others[s]),
           j.since <= v, \A c \in j.got : c = Part \/ c >= j.since,
           j.i \in Nat \ {0}, j.queue # <<>>, Proceed(s, j, files, others)
    PROVE  Good(job', cache', alive', v, dir)
<1>1. PICK k \in j.i .. Len(j.queue) + 1 :
        /\ NextMissing(k, j, files)
        /\ IF k > Len(j.queue)
             THEN Deliver(s, j, files, others)
             ELSE LET f == j.queue[k]
                      jk == [j EXCEPT !.i = k]
                  IN  \/ StartGenerator(s, jk, f, files, others)
                      \/ CannotOpen(s, jk, files, others)
                      \/ CannotSpawn(s, jk, f, files, others)
                      \/ MessageFails(s, j, k, files, others)
  BY DEF Proceed
<1>2. CASE k > Len(j.queue)
  BY <1>1, <1>2, DeliverInv
<1>3. CASE k <= Len(j.queue)
  <2> DEFINE f == j.queue[k]
             jk == [j EXCEPT !.i = k]
  <2>1. Len(j.queue) \in Nat
    BY QueueType
  <2>2. k \in 1 .. Len(j.queue) /\ k \in Nat
    BY <1>1, <1>3, <2>1
  <2>3. jk \in Job
    BY <2>2 DEF Job
  <2>4. jk.i = k /\ jk.queue = j.queue /\ jk.since = j.since /\ jk.got = j.got /\ jk.fn = j.fn
    BY DEF Job
  <2>5. f \in File /\ files[f] = Absent
    BY <1>1, <1>3, <2>2, QueueType DEF NextMissing
  <2>6. \/ StartGenerator(s, jk, f, files, others)
        \/ CannotOpen(s, jk, files, others)
        \/ CannotSpawn(s, jk, f, files, others)
        \/ MessageFails(s, j, k, files, others)
    BY <1>1, <1>3, <2>1
  <2>7. Target(jk) = f
    BY <2>4 DEF Target
  <2>11. CASE MessageFails(s, j, k, files, others)
    BY <2>2, <2>5, <2>11, MessageFailsInv
  <2> HIDE DEF f, jk
  <2>8. CASE StartGenerator(s, jk, f, files, others)
    BY <2>2, <2>3, <2>4, <2>5, <2>7, <2>8, StartGeneratorInv
  <2>9. CASE CannotSpawn(s, jk, f, files, others)
    BY <2>3, <2>5, <2>9, CannotSpawnInv
  <2>10. CASE CannotOpen(s, jk, files, others)
    <3>1. ~dir /\ cache' = files /\ JobInv(others[s], files, v, dir) /\ Detached(others[s])
      BY <2>10 DEF CannotOpen
    <3>2. CASE alive' = FALSE /\ job' = others
      <4>1. \A t \in Slot \ {s} : Apart(others[s], others[t])
        BY <3>1 DEF Apart, InPlace, Detached
      <4>2. [others EXCEPT ![s] = others[s]] = others
        OBVIOUS
      <4>3. JobsInv(Slot, others, files, v, dir)
        BY <3>1, <4>1, <4>2, NewJob
      <4> QED BY <3>1, <3>2, <4>3 DEF Good, Detached
    <3>3. CASE Answer(s, others) /\ alive' = TRUE
      BY <3>1, <3>3, AnswerInv DEF Good
    <3> QED BY <2>10, <3>2, <3>3 DEF CannotOpen
  <2> QED BY <2>6, <2>8, <2>9, <2>10, <2>11
<1> QED
  <2>1. Len(j.queue) \in Nat
    BY QueueType
  <2> QED BY <1>1, <1>2, <1>3, <2>1

\* start_car_proc, whose file may be there.
LEMMA StartCarInv ==
    ASSUME NEW s \in Slot, NEW others \in [Slot -> Job],
           NEW files \in [File -> Content], NEW v \in Nat, alive = TRUE,
           FilesInv(files, v), JobsInv(Slot, others, files, v, dir),
           others[s].queue # <<>>, others[s].fn = "dataSync",
           StartCar(s, files, others)
    PROVE  Good(job', cache', alive', v, dir)
<1> DEFINE j == [others[s] EXCEPT !.i = 1]
<1>1. others[s] \in Job /\ JobInv(others[s], files, v, dir)
  BY DEF JobsInv
<1>2. j \in Job
  BY <1>1 DEF Job
<1>3. j.i = 1 /\ j.fn = "dataSync" /\ j.queue = others[s].queue
      /\ j.since = others[s].since /\ j.got = others[s].got
  BY <1>1 DEF Job
<1>4. \/ Answer(s, others) /\ cache' = files /\ alive' = alive
      \/ StartGenerator(s, j, j.queue[1], files, others)
      \/ CannotSpawn(s, j, j.queue[1], files, others)
  BY DEF StartCar
<1> HIDE DEF j
<1>5. j.i \in 1 .. Len(j.queue) /\ Target(j) = j.queue[1] /\ j.queue[1] \in File
  BY <1>2, <1>3, QueueType DEF Target
<1>6. JobsInv(Slot \ {s}, others, files, v, dir)
  BY OtherSlots
<1>7. j.since <= v /\ \A c \in j.got : c = Part \/ c >= j.since
  BY <1>1, <1>3 DEF JobInv
<1>8. CASE Answer(s, others) /\ cache' = files /\ alive' = alive
  BY <1>6, <1>8, AnswerInv DEF Good
<1>9. CASE StartGenerator(s, j, j.queue[1], files, others)
  BY <1>2, <1>3, <1>5, <1>6, <1>7, <1>9, StartGeneratorInv
<1>10. CASE CannotSpawn(s, j, j.queue[1], files, others)
  BY <1>2, <1>5, <1>6, <1>10, CannotSpawnInv
<1> QED BY <1>4, <1>8, <1>9, <1>10

\* on_write_finish after the files were removed.
LEMMA AfterWriteInv ==
    ASSUME NEW s \in Slot, NEW others \in [Slot -> Job],
           NEW files \in [File -> Content], NEW v \in Nat, alive = TRUE,
           FilesInv(files, v), JobsInv(Slot, others, files, v, dir),
           others[s] = job[s], job[s].pc = "written", AfterWrite(s, files, others)
    PROVE  Good(job', cache', alive', v, dir)
<1>1. others[s] \in Job /\ JobInv(others[s], files, v, dir) /\ others[s].fn = "dataSync"
  BY DEF JobsInv, JobInv
<1>2. JobsInv(Slot \ {s}, others, files, v, dir)
  BY OtherSlots
<1>3. CASE job' = [others EXCEPT ![s].pc = "dap", ![s].dap = FALSE]
           /\ cache' = files /\ alive' = alive
  <2> DEFINE j == [others[s] EXCEPT !.pc = "dap", !.dap = FALSE]
  <2>1. job' = [others EXCEPT ![s] = j]
    BY <1>3
  <2>2. j \in Job
    BY <1>1 DEF Job
  <2>3. j.pc = "dap" /\ j.fn = "dataSync" /\ j.since = others[s].since
        /\ j.got = others[s].got
    BY <1>1 DEF Job
  <2> HIDE DEF j
  <2>4. JobInv(j, files, v, dir) /\ ~InPlace(j)
    BY <1>1, <2>3 DEF JobInv, Attached, InPlace
  <2>5. job' \in [Slot -> Job] /\ JobsInv(Slot, job', files, v, dir)
    BY <1>2, <2>1, <2>2, <2>4, NewJob DEF Apart
  <2> QED BY <1>3, <2>5 DEF Good
<1>4. CASE Answer(s, others) /\ cache' = files /\ alive' = alive
  BY <1>2, <1>4, AnswerInv DEF Good
<1>5. CASE job[s].queue # <<>> /\ StartCar(s, files, others)
  BY <1>1, <1>5, StartCarInv
<1> QED BY <1>3, <1>4, <1>5 DEF AfterWrite

-----------------------------------------------------------------------------
(***************************************************************************)
(* Steps of a generator.                                                   *)
(***************************************************************************)

\* The other slots after the stream of slot s was closed.
LEMMA ClosedInv ==
    ASSUME Inv, NEW s \in Slot, job[s].pc = "gen", job[s].out # "lost",
           NEW content \in Content \ {Absent},
           content \in Version => content = job[s].ver
    PROVE  LET files == Closed(s, content)
               jobs == OthersAfterClose(s)
           IN  /\ files \in [File -> Content] /\ FilesInv(files, synced)
               /\ jobs \in [Slot -> Job]
               /\ JobsInv(Slot \ {s}, jobs, files, synced, dir)
<1> DEFINE files == Closed(s, content)
           jobs == OthersAfterClose(s)
           f == Target(job[s])
<1>1. /\ job \in [Slot -> Job] /\ cache \in [File -> Content] /\ synced \in Nat
      /\ FilesInv(cache, synced) /\ JobsInv(Slot, job, cache, synced, dir)
  BY DEF Inv, Good, TypeOK, Version
<1>2. job[s] \in Job /\ JobInv(job[s], cache, synced, dir)
  BY <1>1 DEF JobsInv
<1>3. f \in File
  BY <1>2, QueueType DEF JobInv, Target
<1>4. JobsInv(Slot \ {s}, job, cache, synced, dir)
  BY <1>1, OtherSlots
<1>5. CASE job[s].out = "gone"
  BY <1>1, <1>4, <1>5 DEF Closed, OthersAfterClose
<1>6. CASE job[s].out \in {"place", "temp"}
  <2>1. Attached(job[s])
    BY <1>6 DEF Attached
  <2>2. content \in Version => content >= synced
    BY <1>2, <2>1 DEF JobInv, Version
  <2>3. files = [cache EXCEPT ![f] = content]
    BY <1>6 DEF Closed
  <2>4. files \in [File -> Content] /\ FilesInv(files, synced)
    BY <1>1, <1>3, <2>2, <2>3 DEF FilesInv
  <2>5. jobs = WithoutFile(job, f, s)
    <3>1. CASE job[s].out = "temp"
      BY <3>1 DEF OthersAfterClose
    <3>2. CASE job[s].out = "place"
      <4>1. \A t \in Slot : ~(t # s /\ job[t].pc = "gen" /\ Target(job[t]) = f
                              /\ job[t].out = "place")
        BY <1>1, <3>2 DEF JobsInv, Apart, InPlace
      <4>2. WithoutFile(job, f, s) = [t \in Slot |-> job[t]]
        BY <4>1 DEF WithoutFile
      <4> QED BY <1>1, <3>2, <4>2 DEF OthersAfterClose
    <3> QED BY <1>6, <3>1, <3>2
  <2> HIDE DEF files, jobs, f
  <2>6. jobs \in [Slot -> Job] /\ JobsInv(Slot \ {s}, jobs, files, synced, dir)
    BY <1>1, <1>3, <1>4, <2>3, <2>5, WithoutFileInv
  <2> QED BY <2>4, <2>6 DEF files, jobs
<1> QED BY <1>2, <1>5, <1>6 DEF Job, JobInv, Attached

\* A postprocessor that exits with 0, in either call or in dataSync's car.
LEMMA GeneratorSucceedsInv ==
    ASSUME Inv, NEW s \in Slot, GeneratorSucceeds(s)
    PROVE  Good(job', cache', alive', synced, dir)
<1> DEFINE files == Closed(s, job[s].ver)
<1>1. /\ job \in [Slot -> Job] /\ cache \in [File -> Content] /\ synced \in Nat
      /\ FilesInv(cache, synced) /\ JobsInv(Slot, job, cache, synced, dir)
      /\ alive = TRUE /\ Good(job, cache, alive, synced, dir)
  BY DEF Inv, Good, TypeOK, Version, GeneratorSucceeds
<1>2. job[s] \in Job /\ JobInv(job[s], cache, synced, dir)
  BY <1>1 DEF JobsInv
<1>3. job[s].pc = "gen" /\ job[s].ver # 0
  BY DEF GeneratorSucceeds
<1>4. CASE job[s].out = "lost"
  BY <1>1, <1>3, <1>4 DEF GeneratorSucceeds, CloseThrows, Good
<1>5. CASE job[s].out # "lost"
  <2>1. job[s].ver \in Content \ {Absent}
    BY <1>2, <1>3 DEF Job, Content, Version, Absent
  <2>2. /\ files \in [File -> Content] /\ FilesInv(files, synced)
        /\ OthersAfterClose(s) \in [Slot -> Job]
        /\ JobsInv(Slot \ {s}, OthersAfterClose(s), files, synced, dir)
    BY <1>3, <1>5, <2>1, ClosedInv
  <2>3. CASE job[s].fn = "dataSync"
    <3>1. Answer(s, OthersAfterClose(s)) /\ cache' = files /\ alive' = TRUE
      BY <1>1, <1>5, <2>3 DEF GeneratorSucceeds
    <3> HIDE DEF files
    <3> QED BY <1>1, <2>2, <3>1, AnswerInv DEF Good
  <2>4. CASE job[s].fn # "dataSync"
    <3> DEFINE j == [job[s] EXCEPT !.i = job[s].i + 1]
    <3>1. Proceed(s, j, files, job)
      BY <1>5, <2>4 DEF GeneratorSucceeds
    <3>2. OthersAfterClose(s) = job
      BY <1>2, <1>3, <1>5, <2>4 DEF OthersAfterClose, JobInv, Attached
    <3>3. job[s].i \in 1 .. Len(job[s].queue) /\ Len(job[s].queue) \in Nat
      BY <1>2, <1>3, QueueType DEF JobInv
    <3>4. j \in Job
      BY <1>2, <3>3 DEF Job
    <3>5. j.i = job[s].i + 1 /\ j.queue = job[s].queue /\ j.since = job[s].since
          /\ j.got = job[s].got
      BY <1>2 DEF Job
    <3>6. j.i \in Nat \ {0} /\ j.queue # <<>>
      BY <3>3, <3>5
    <3>7. j.since <= synced /\ \A c \in j.got : c = Part \/ c >= j.since
      BY <1>2, <3>5 DEF JobInv
    <3>8. ASSUME ~dir PROVE JobInv(job[s], files, synced, dir) /\ Detached(job[s])
      <4>1. Detached(job[s])
        BY <1>2, <1>3, <3>8 DEF JobInv, Attached, Detached
      <4> HIDE DEF files
      <4> QED BY <1>2, <4>1 DEF JobInv, Attached, Detached
    <3> HIDE DEF j, files
    <3> QED BY <1>1, <2>2, <3>1, <3>2, <3>4, <3>6, <3>7, <3>8, ProceedInv
  <2> QED BY <2>3, <2>4
<1> QED BY <1>4, <1>5

\* A postprocessor that fails: its file is deleted or left.
LEMMA GeneratorFailsInv ==
    ASSUME Inv, NEW s \in Slot, GeneratorFails(s)
    PROVE  Good(job', cache', alive', synced, dir)
<1>1. /\ job \in [Slot -> Job] /\ cache \in [File -> Content] /\ synced \in Nat
      /\ FilesInv(cache, synced) /\ JobsInv(Slot, job, cache, synced, dir)
      /\ alive = TRUE /\ Good(job, cache, alive, synced, dir)
      /\ job[s].pc = "gen"
  BY DEF Inv, Good, TypeOK, Version, GeneratorFails
<1>2. job[s] \in Job /\ JobInv(job[s], cache, synced, dir)
  BY <1>1 DEF JobsInv
<1>3. CASE job[s].out = "lost"
  BY <1>1, <1>3 DEF GeneratorFails, CloseThrows, Good
<1>4. CASE job[s].out # "lost" /\ job[s].fn = "dataSync"
  <2> DEFINE files == Closed(s, Part)
  <2>1. Part \in Content \ {Absent} /\ Part \notin Version
    BY DEF Part, Content, Absent, Version
  <2>2. /\ files \in [File -> Content] /\ FilesInv(files, synced)
        /\ OthersAfterClose(s) \in [Slot -> Job]
        /\ JobsInv(Slot \ {s}, OthersAfterClose(s), files, synced, dir)
    BY <1>1, <1>4, <2>1, ClosedInv
  <2>3. Answer(s, OthersAfterClose(s)) /\ cache' = files /\ alive' = TRUE
    BY <1>1, <1>4 DEF GeneratorFails
  <2> HIDE DEF files
  <2> QED BY <1>1, <2>2, <2>3, AnswerInv DEF Good
<1>5. CASE job[s].out # "lost" /\ job[s].fn # "dataSync"
  <2> DEFINE f == Target(job[s])
             files == [cache EXCEPT ![f] = Absent]
  <2>1. RemoveFailed(s)
    BY <1>5 DEF GeneratorFails
  <2>2. f \in File
    BY <1>1, <1>2, QueueType DEF JobInv, Target
  <2>3. CASE cache[f] = Absent
    <3>1. alive' = FALSE /\ UNCHANGED <<cache, job>>
      BY <2>1, <2>3 DEF RemoveFailed
    <3>2. job[s].out \in {"gone", "lost"}
      BY <1>1, <1>2, <1>5, <2>3 DEF JobInv, Attached, Part, Absent
    <3> QED BY <1>1, <3>1, <3>2 DEF Good
  <2>4. CASE cache[f] # Absent
    <3>1. Answer(s, WithoutFile(job, f, s)) /\ cache' = files /\ alive' = TRUE
      BY <1>1, <2>1, <2>4 DEF RemoveFailed
    <3>2. Absent \in Content /\ Absent \notin Version
      BY DEF Content, Absent, Version
    <3>3. JobsInv(Slot \ {s}, job, cache, synced, dir)
      BY <1>1, OtherSlots
    <3> DEFINE jobs == WithoutFile(job, f, s)
    <3>4. files \in [File -> Content] /\ FilesInv(files, synced)
      BY <1>1, <3>2 DEF FilesInv
    <3> HIDE DEF f
    <3>5. jobs \in [Slot -> Job] /\ JobsInv(Slot \ {s}, jobs, files, synced, dir)
      BY <1>1, <2>2, <3>2, <3>3, WithoutFileInv
    <3> HIDE DEF files, jobs
    <3> QED BY <1>1, <3>1, <3>4, <3>5, AnswerInv DEF Good, jobs
  <2> QED BY <2>3, <2>4
<1> QED BY <1>3, <1>4, <1>5

-----------------------------------------------------------------------------
(***************************************************************************)
(* The other steps.                                                        *)
(***************************************************************************)

\* What Inv says about jobs and files.
LEMMA Parts ==
    ASSUME Inv
    PROVE  /\ job \in [Slot -> Job] /\ cache \in [File -> Content] /\ synced \in Nat
           /\ FilesInv(cache, synced) /\ JobsInv(Slot, job, cache, synced, dir)
           /\ Good(job, cache, alive, synced, dir)
           /\ \A s \in Slot : job[s] \in Job /\ JobInv(job[s], cache, synced, dir)
           /\ \A s \in Slot : JobsInv(Slot \ {s}, job, cache, synced, dir)
<1>1. /\ job \in [Slot -> Job] /\ cache \in [File -> Content] /\ synced \in Nat
      /\ FilesInv(cache, synced) /\ JobsInv(Slot, job, cache, synced, dir)
      /\ Good(job, cache, alive, synced, dir)
  BY DEF Inv, Good, TypeOK, Version
<1> QED BY <1>1 DEF JobsInv

\* A step that only changes the job of slot s, to one without a generator.
LEMMA OneJobInv ==
    ASSUME Inv, alive, NEW s \in Slot, NEW j \in Job, j.pc # "gen",
           JobInv(j, cache, synced, dir), job' = [job EXCEPT ![s] = j],
           cache' = cache, alive' = alive
    PROVE  Good(job', cache', alive', synced, dir)
<1>1. \A t \in Slot \ {s} : Apart(j, job[t])
  BY DEF Apart, InPlace
<1>2. job' \in [Slot -> Job] /\ JobsInv(Slot, job', cache, synced, dir)
  BY <1>1, Parts, NewJob
<1>3. alive' = TRUE
  BY DEF Inv, TypeOK
<1> QED BY <1>2, <1>3, Parts DEF Good

\* A slot that had no generator, or whose files stay, answers its call.
LEMMA AnsweredInv ==
    ASSUME Inv, alive, NEW s \in Slot, Answer(s, job), cache' = cache, alive' = alive
    PROVE  Good(job', cache', alive', synced, dir)
<1>1. NoJob \in Job /\ JobInv(NoJob, cache, synced, dir) /\ NoJob.pc # "gen"
  BY Parts, NoJobInv DEF NoJob
<1> QED BY <1>1, OneJobInv DEF Answer

\* A new call of dataOut or getMeasurement.
LEMMA RequestInv ==
    ASSUME Inv, alive, NEW s \in Slot, raw # Absent, NEW q \in Queue,
           NEW fn \in {"dataOut", "getMeasurement"},
           Proceed(s, Request(fn, q), cache, job)
    PROVE  Good(job', cache', alive', synced, dir)
<1> DEFINE j == Request(fn, q)
<1>1. dir /\ alive = TRUE /\ synced \in Version \cup {0}
  BY DEF Inv, TypeOK
<1>2. NoJob \in Job
  BY NoJobInv, Parts
<1>3. j \in Job
  BY <1>1, <1>2 DEF Request, Job
<1>4. j.i = 1 /\ j.queue = q /\ j.since = synced /\ j.got = {}
  BY DEF Request, NoJob
<1>5. j.queue # <<>> /\ j.i \in Nat \ {0}
  BY <1>4, FilesAssumption
<1>6. j.since <= synced
  BY <1>4, Parts
<1> HIDE DEF j
<1>7. Proceed(s, j, cache, job)
  BY DEF j
<1> QED BY <1>1, <1>3, <1>4, <1>5, <1>6, <1>7, Parts, ProceedInv

\* What is read is complete and fresh, or a part.
LEMMA CopyReadsInv ==
    ASSUME Inv, NEW s \in Slot, CopyReads(s)
    PROVE  Good(job', cache', alive', synced, dir)
<1> DEFINE got == Contents(Batch(s), cache)
           k == IF job[s].dest = "printer" THEN Len(job[s].queue) ELSE job[s].i
           j == [job[s] EXCEPT !.pc = "copied", !.got = job[s].got \cup got, !.i = k]
<1>1. job[s] \in Job /\ JobInv(job[s], cache, synced, dir)
  BY Parts
<1>2. job[s].pc = "copy" /\ job' = [job EXCEPT ![s] = j] /\ cache' = cache
      /\ alive /\ alive' = alive /\ Absent \notin got
  BY DEF CopyReads
<1>3. job[s].queue \in Seq(File) /\ job[s].i \in 1 .. Len(job[s].queue)
  BY <1>1, <1>2, QueueType DEF JobInv
<1>4. Batch(s) \in Seq(File)
  <2>1. Target(job[s]) \in File
    BY <1>3 DEF Target
  <2> QED BY <1>3, <2>1 DEF Batch
<1>5. got \subseteq Content /\ \A c \in got : c = Part \/ c >= synced
  BY <1>2, <1>4, Parts, ContentsFresh
<1>6. k \in 1 .. Len(job[s].queue) /\ k \in Nat
  BY <1>3
<1> HIDE DEF got, k
<1>7. j \in Job
  BY <1>1, <1>5, <1>6 DEF Job
<1>8. j.pc = "copied" /\ j.i = k /\ j.queue = job[s].queue
      /\ j.since = job[s].since /\ j.got = job[s].got \cup got
  BY <1>1 DEF Job
<1>9. job[s].since \in Nat /\ synced \in Nat /\ \A c \in Content : c \in Int
  BY <1>1, Parts DEF Job, Version, Content, Absent, Part
<1> HIDE DEF j
<1>10. JobInv(j, cache, synced, dir)
  BY <1>1, <1>5, <1>6, <1>8, <1>9 DEF JobInv, Attached
<1> QED BY <1>2, <1>7, <1>8, <1>10, OneJobInv

\* The next file, or the answer.
LEMMA CopyFinishedInv ==
    ASSUME Inv, NEW s \in Slot, CopyFinished(s)
    PROVE  Good(job', cache', alive', synced, dir)
<1>1. job[s] \in Job /\ JobInv(job[s], cache, synced, dir)
  BY Parts
<1>2. CASE Answer(s, job)
  BY <1>2, AnsweredInv DEF CopyFinished
<1>3. CASE job[s].i < Len(job[s].queue)
           /\ job' = [job EXCEPT ![s].pc = "copy", ![s].i = @ + 1]
  <2> DEFINE j == [job[s] EXCEPT !.pc = "copy", !.i = job[s].i + 1]
  <2>1. job' = [job EXCEPT ![s] = j]
    BY <1>3
  <2>2. job[s].i \in 1 .. Len(job[s].queue) /\ Len(job[s].queue) \in Nat
    BY <1>1, QueueType DEF JobInv, CopyFinished
  <2>3. j \in Job
    <3>1. job[s].i + 1 \in Nat /\ "copy" \in {"idle", "gen", "copy", "copied", "open",
                                               "write", "written", "dap"}
      BY <2>2
    <3> QED BY <1>1, <3>1 DEF Job
  <2>4. j.pc = "copy" /\ j.i = job[s].i + 1 /\ j.queue = job[s].queue
        /\ j.since = job[s].since /\ j.got = job[s].got
    BY <1>1 DEF Job
  <2> HIDE DEF j
  <2>5. JobInv(j, cache, synced, dir)
    BY <1>1, <1>3, <2>2, <2>4 DEF JobInv, Attached
  <2> QED BY <2>1, <2>3, <2>4, <2>5, OneJobInv DEF CopyFinished
<1> QED BY <1>2, <1>3 DEF CopyFinished

\* A postprocessor that reads now reads no old measurement.
LEMMA GeneratorReadsInv ==
    ASSUME Inv, NEW s \in Slot, GeneratorReads(s)
    PROVE  Good(job', cache', alive', synced, dir)
<1> DEFINE j == [job[s] EXCEPT !.ver = raw]
<1>1. job[s] \in Job /\ JobInv(job[s], cache, synced, dir)
  BY Parts
<1>2. raw \in Version /\ raw >= synced /\ alive = TRUE
  BY DEF GeneratorReads, Inv, TypeOK
<1>3. job' = [job EXCEPT ![s] = j] /\ cache' = cache /\ alive' = alive
  BY DEF GeneratorReads
<1>4. j \in Job
  BY <1>1, <1>2 DEF Job
<1>5. j.pc = job[s].pc /\ j.i = job[s].i /\ j.queue = job[s].queue /\ j.ver = raw
      /\ j.since = job[s].since /\ j.got = job[s].got /\ j.out = job[s].out
      /\ j.fn = job[s].fn
  BY <1>1 DEF Job
<1> HIDE DEF j
<1>6. JobInv(j, cache, synced, dir)
  BY <1>1, <1>2, <1>5 DEF JobInv, Attached, Target
<1>7. \A t \in Slot \ {s} : Apart(j, job[t])
  <2>1. \A t \in Slot \ {s} : Apart(job[s], job[t])
    <3> JobsInv(Slot, job, cache, synced, dir)
      BY Parts
    <3> QED BY DEF JobsInv
  <2> QED BY <1>5, <2>1 DEF Apart, InPlace, Target
<1>8. job' \in [Slot -> Job] /\ JobsInv(Slot, job', cache, synced, dir)
  BY <1>3, <1>4, <1>6, <1>7, Parts, NewJob
<1> QED BY <1>2, <1>3, <1>8, Parts DEF Good

\* Good says what Inv needs of the jobs, the files and the daemon.
LEMMA GoodInv ==
    ASSUME dir' \in BOOLEAN, raw' \in Content, writes' \in Nat, flag' \in BOOLEAN,
           synced' \in Nat, synced' <= writes',
           raw' \in Version => raw' = writes', raw' # Absent => dir',
           Good(job', cache', alive', synced', dir')
    PROVE  Inv'
<1>1. synced' \in Version \cup {0}
  BY DEF Version
<1> QED BY <1>1 DEF Inv, TypeOK, Good

\* Steps that leave the measurement alone.
LEMMA SameMeasurementInv ==
    ASSUME Inv, Good(job', cache', alive', synced, dir),
           UNCHANGED <<dir, raw, writes, flag, synced>>
    PROVE  Inv'
<1>1. synced \in Nat
  BY Parts
<1> QED BY <1>1, GoodInv DEF Inv, TypeOK

\* dataSync creates the directory and begins to write.
LEMMA StartDataSyncInv ==
    ASSUME Inv, NEW s \in Slot, StartDataSync(s)
    PROVE  Inv'
<1>1. PICK dap \in BOOLEAN, car \in {<<f>> : f \in Car} \cup {<<>>} :
        job' = [job EXCEPT ![s] = [NoJob EXCEPT !.fn = "dataSync", !.pc = "open",
                                                !.queue = car, !.dap = dap]]
  BY DEF StartDataSync
<1> DEFINE j == [NoJob EXCEPT !.fn = "dataSync", !.pc = "open", !.queue = car, !.dap = dap]
<1>2. NoJob \in Job
  BY NoJobInv, Parts
<1>3. j \in Job
  BY <1>2 DEF Job
<1>4. j.pc = "open" /\ j.fn = "dataSync" /\ j.since = 0 /\ j.got = {}
  BY DEF NoJob
<1>5. job' = [job EXCEPT ![s] = j]
  BY <1>1
<1> HIDE DEF j
<1>6. ASSUME NEW t \in Slot PROVE JobInv(job[t], cache, synced, TRUE)
  <2>1. JobInv(job[t], cache, synced, dir)
    BY Parts
  <2> QED BY <2>1 DEF JobInv
<1>7. JobsInv(Slot \ {s}, job, cache, synced, TRUE)
  BY <1>6, Parts DEF JobsInv
<1>8. JobInv(j, cache, synced, TRUE)
  BY <1>4, Parts DEF JobInv, Attached
<1>9. \A t \in Slot \ {s} : Apart(j, job[t])
  BY <1>4 DEF Apart, InPlace
<1>10. job' \in [Slot -> Job] /\ JobsInv(Slot, job', cache, synced, TRUE)
  BY <1>3, <1>5, <1>7, <1>8, <1>9, Parts, NewJob
<1>11. alive = TRUE /\ dir' = TRUE /\ UNCHANGED <<raw, writes, cache, flag, synced, alive>>
  BY DEF StartDataSync, Inv, TypeOK
<1>12. Good(job', cache', alive', synced', dir')
  BY <1>10, <1>11, Parts DEF Good
<1> QED BY <1>11, <1>12, Parts, GoodInv DEF Inv, TypeOK

\* The thread opens the measurement, in place or as a temporary file.
LEMMA WriteOpensInv ==
    ASSUME Inv, NEW s \in Slot, WriteOpens(s)
    PROVE  Inv'
<1>1. job[s] \in Job /\ JobInv(job[s], cache, synced, dir)
  BY Parts
<1>2. alive /\ job[s].pc = "open"
      /\ UNCHANGED <<dir, writes, cache, flag, synced, alive>>
  BY DEF WriteOpens
<1>3. CASE dir
  <2> DEFINE o == IF raw = Absent THEN "place" ELSE "temp"
             j == [job[s] EXCEPT !.pc = "write", !.out = o]
  <2>1. job' = [job EXCEPT ![s] = j] /\ raw' = IF raw = Absent THEN Part ELSE raw
    BY <1>3 DEF WriteOpens
  <2>2. o \in {"place", "temp"}
    OBVIOUS
  <2> HIDE DEF o
  <2>3. j \in Job
    BY <1>1, <2>2, ZenonT(30) DEF Job
  <2>4. j.pc = "write" /\ j.fn = job[s].fn /\ j.since = job[s].since /\ j.got = job[s].got
    BY <1>1 DEF Job
  <2> HIDE DEF j
  <2>5. JobInv(j, cache, synced, dir)
    BY <1>1, <1>2, <1>3, <2>4 DEF JobInv, Attached
  <2>6. Good(job', cache', alive', synced, dir)
    BY <1>2, <2>1, <2>3, <2>4, <2>5, OneJobInv
  <2>7. Part \in Content /\ Part \notin Version
    BY DEF Part, Content, Version
  <2> QED BY <1>2, <1>3, <2>1, <2>6, <2>7, Parts, GoodInv DEF Inv, TypeOK
<1>4. CASE ~dir
  <2>1. Answer(s, job) /\ UNCHANGED raw
    BY <1>4 DEF WriteOpens
  <2>2. Good(job', cache', alive', synced, dir)
    BY <1>2, <2>1, AnsweredInv
  <2> QED BY <1>2, <2>1, <2>2, SameMeasurementInv DEF Inv, TypeOK
<1> QED BY <1>3, <1>4

\* The slot's write is over; other writes in place lose their file, or not.
LEMMA WrittenInv ==
    ASSUME Inv, alive, NEW s \in Slot, job[s].pc = "write", NEW jobs,
           jobs \in {job, WithoutMeasurement(job)},
           job' = [jobs EXCEPT ![s].pc = "written", ![s].out = "none"],
           UNCHANGED <<cache, alive>>
    PROVE  Good(job', cache', alive', synced, dir)
<1> DEFINE j == [jobs[s] EXCEPT !.pc = "written", !.out = "none"]
<1>1. jobs \in [Slot -> Job] /\ JobsInv(Slot, jobs, cache, synced, dir)
  BY Parts, WithoutMeasurementInv
<1>2. jobs[s] \in Job /\ JobInv(jobs[s], cache, synced, dir)
  BY <1>1 DEF JobsInv
<1>3. jobs[s].pc = "write"
  <2>1. job[s] \in Job
    BY Parts
  <2>2. CASE jobs = WithoutMeasurement(job)
    BY <2>1, <2>2 DEF WithoutMeasurement, Job
  <2> QED BY <2>2
<1>4. j \in Job
  <2> DEFINE k == [jobs[s] EXCEPT !.pc = "written"]
  <2>1. k \in Job
    BY <1>2 DEF Job
  <2>2. j = [k EXCEPT !.out = "none"]
    OBVIOUS
  <2> HIDE DEF k, j
  <2> QED BY <2>1, <2>2 DEF Job
<1>5. j.pc = "written" /\ j.fn = jobs[s].fn /\ j.since = jobs[s].since
      /\ j.got = jobs[s].got
  BY <1>2 DEF Job
<1>6. job' = [jobs EXCEPT ![s] = j]
  BY <1>1
<1> HIDE DEF j
<1>7. JobInv(j, cache, synced, dir)
  BY <1>2, <1>3, <1>5 DEF JobInv, Attached
<1>8. \A t \in Slot \ {s} : Apart(j, jobs[t])
  BY <1>5 DEF Apart, InPlace
<1>9. JobsInv(Slot \ {s}, jobs, cache, synced, dir)
  BY <1>1, OtherSlots
<1>10. job' \in [Slot -> Job] /\ JobsInv(Slot, job', cache, synced, dir)
  <2>1. /\ [jobs EXCEPT ![s] = j] \in [Slot -> Job]
        /\ JobsInv(Slot, [jobs EXCEPT ![s] = j], cache, synced, dir)
    BY <1>1, <1>4, <1>7, <1>8, <1>9, NewJob
  <2> QED BY <1>6, <2>1
<1>11. alive' = TRUE
  BY DEF Inv, TypeOK
<1> QED BY <1>10, <1>11, Parts DEF Good

\* The measurement has a new version.
LEMMA WriteClosesInv ==
    ASSUME Inv, NEW s \in Slot, WriteCloses(s)
    PROVE  Inv'
<1>1. Good(job', cache', alive', synced, dir)
  BY WrittenInv DEF WriteCloses
<1>2. dir
  BY Parts DEF WriteCloses, JobInv
<1>3. writes \in Nat /\ writes + 1 \in Version /\ synced <= writes /\ synced \in Nat
  BY Parts DEF Inv, TypeOK, Version
<1>4. synced <= writes + 1 /\ writes + 1 \in Content /\ writes + 1 \in Nat
  BY <1>3 DEF Content
<1>5. writes' = writes + 1 /\ raw' = writes + 1 /\ UNCHANGED <<dir, flag, synced>>
  BY DEF WriteCloses
<1> QED BY <1>1, <1>2, <1>3, <1>4, <1>5, GoodInv DEF Inv, TypeOK

\* The callback detaches all generators, so that the new version counts.
LEMMA WriteFinishedInv ==
    ASSUME Inv, NEW s \in Slot, WriteFinished(s)
    PROVE  Inv'
<1> DEFINE jobs == WithoutFiles(job)
<1>1. /\ alive = TRUE /\ job[s].pc = "written" /\ synced' = writes
      /\ flag' = FALSE /\ UNCHANGED <<dir, raw, writes>>
      /\ AfterWrite(s, NoFiles, jobs)
  BY DEF WriteFinished, Inv, TypeOK
<1>2. synced <= writes /\ writes \in Nat
  BY DEF Inv, TypeOK
<1>3. /\ jobs \in [Slot -> Job] /\ JobsInv(Slot, jobs, NoFiles, writes, dir)
      /\ jobs[s] = job[s]
  BY <1>1, <1>2, Parts, WithoutFilesInv
<1>4. NoFiles \in [File -> Content] /\ FilesInv(NoFiles, writes)
  BY DEF NoFiles, FilesInv, Content, Version, Absent
<1> HIDE DEF jobs
<1>5. Good(job', cache', alive', writes, dir)
  BY <1>1, <1>2, <1>3, <1>4, AfterWriteInv
<1>6. Good(job', cache', alive', synced', dir') /\ synced' <= writes'
  BY <1>1, <1>2, <1>5
<1> QED BY <1>1, <1>2, <1>6, GoodInv DEF Inv, TypeOK

\* The database script is over.
LEMMA DapFinishedInv ==
    ASSUME Inv, NEW s \in Slot, DapFinished(s)
    PROVE  Inv'
<1>1. alive = TRUE /\ UNCHANGED <<dir, raw, writes, flag, synced>>
  BY DEF DapFinished, Inv, TypeOK
<1>2. CASE job[s].queue # <<>> /\ StartCar(s, cache, job)
  <2>1. job[s].fn = "dataSync"
    BY Parts DEF JobInv, DapFinished
  <2>2. Good(job', cache', alive', synced, dir)
    BY <1>1, <1>2, <2>1, Parts, StartCarInv
  <2> QED BY <1>1, <2>2, SameMeasurementInv
<1>3. CASE Answer(s, job) /\ UNCHANGED <<cache, alive>>
  <2>1. Good(job', cache', alive', synced, dir)
    BY <1>1, <1>3, AnsweredInv
  <2> QED BY <1>1, <2>1, SameMeasurementInv
<1> QED BY <1>2, <1>3 DEF DapFinished

\* The directory is removed, by dataFree or by the DiskUsageManager.
LEMMA RemoveInv ==
    ASSUME Inv, alive, Remove
    PROVE  Inv'
<1> DEFINE written == WithoutMeasurement(job)
           jobs == WithoutFiles(written)
<1>1. /\ alive' = TRUE /\ dir' = FALSE /\ raw' = Absent /\ cache' = NoFiles
      /\ flag' = FALSE /\ job' = jobs /\ UNCHANGED <<writes, synced>>
  BY DEF Remove, Inv, TypeOK
<1>2. /\ written \in [Slot -> Job] /\ JobsInv(Slot, written, cache, synced, dir)
      /\ \A t \in Slot : ~(written[t].pc = "write" /\ written[t].out = "place")
  BY Parts, WithoutMeasurementInv
<1>3. synced \in Nat /\ synced <= synced
  BY Parts
<1> HIDE DEF written
<1>4. jobs \in [Slot -> Job] /\ JobsInv(Slot, jobs, NoFiles, synced, FALSE)
  BY <1>2, <1>3, WithoutFilesInv
<1>5. NoFiles \in [File -> Content] /\ FilesInv(NoFiles, synced)
  BY DEF NoFiles, FilesInv, Content, Version, Absent
<1> HIDE DEF jobs
<1>6. Good(job', cache', alive', synced', dir')
  BY <1>1, <1>4, <1>5 DEF Good
<1>7. Absent \in Content /\ Absent \notin Version
  BY DEF Absent, Content, Version
<1> QED BY <1>1, <1>3, <1>6, <1>7, GoodInv DEF Inv, TypeOK

\* The daemon is started again.
LEMMA RestartInv ==
    ASSUME Inv, Restart
    PROVE  Inv'
<1> DEFINE jobs == [s \in Slot |-> NoJob]
<1>1. synced \in Nat
  BY Parts
<1>2. NoJob \in Job /\ JobInv(NoJob, cache, synced, dir) /\ ~InPlace(NoJob)
  BY <1>1, NoJobInv
<1>3. jobs \in [Slot -> Job] /\ JobsInv(Slot, jobs, cache, synced, dir)
  BY <1>2 DEF JobsInv, Apart
<1>4. /\ alive' = TRUE /\ job' = jobs
      /\ UNCHANGED <<dir, raw, writes, cache, flag, synced>>
  BY DEF Restart
<1> HIDE DEF jobs
<1>5. Good(job', cache', alive', synced, dir)
  BY <1>3, <1>4, Parts DEF Good
<1> QED BY <1>4, <1>5, SameMeasurementInv DEF Inv, TypeOK

-----------------------------------------------------------------------------
\* The initial state satisfies the invariant.
LEMMA InitInv == Init => Inv
<1> SUFFICES ASSUME Init PROVE Inv
  OBVIOUS
<1>1. NoJob \in Job /\ JobInv(NoJob, cache, 0, FALSE) /\ ~InPlace(NoJob)
  BY NoJobInv
<1>2. Absent \in Content /\ Absent \notin Version
  BY DEF Absent, Content, Version
<1>3. job \in [Slot -> Job] /\ JobsInv(Slot, job, cache, 0, FALSE)
  BY <1>1 DEF Init, JobsInv, Apart
<1>4. cache \in [File -> Content] /\ FilesInv(cache, 0)
  BY <1>2 DEF Init, FilesInv
<1>5. Good(job, cache, alive, synced, dir)
  BY <1>3, <1>4 DEF Good, Init
<1>6. synced = 0 /\ writes = 0 /\ raw = Absent /\ 0 <= 0
  BY DEF Init
<1>7. TypeOK
  BY <1>2, <1>3, <1>4 DEF Init, TypeOK
<1> QED BY <1>2, <1>5, <1>6, <1>7 DEF Inv

\* Every step preserves the invariant.
LEMMA NextInv ==
    ASSUME Inv, [Next]_vars
    PROVE  Inv'
<1>1. ASSUME NEW s \in Slot, StartDataOut(s) PROVE Inv'
  <2>1. Good(job', cache', alive', synced, dir)
    BY <1>1, RequestInv DEF StartDataOut
  <2> QED BY <1>1, <2>1, SameMeasurementInv DEF StartDataOut, Inv, TypeOK
<1>2. ASSUME NEW s \in Slot, StartGetMeasurement(s) PROVE Inv'
  <2>1. Good(job', cache', alive', synced, dir)
    BY <1>2, RequestInv DEF StartGetMeasurement
  <2> QED BY <1>2, <2>1, SameMeasurementInv DEF StartGetMeasurement, Inv, TypeOK
<1>3. ASSUME NEW s \in Slot, StartDataSync(s) PROVE Inv'
  BY <1>3, StartDataSyncInv
<1>4. ASSUME NEW s \in Slot, SlotStep(s) PROVE Inv'
  <2>1. CASE GeneratorReads(s)
    BY <2>1, GeneratorReadsInv, SameMeasurementInv DEF GeneratorReads, Inv, TypeOK
  <2>2. CASE GeneratorSucceeds(s)
    BY <2>2, GeneratorSucceedsInv, SameMeasurementInv DEF GeneratorSucceeds, Inv, TypeOK
  <2>3. CASE GeneratorFails(s)
    BY <2>3, GeneratorFailsInv, SameMeasurementInv DEF GeneratorFails, Inv, TypeOK
  <2>4. CASE CopyReads(s)
    BY <2>4, CopyReadsInv, SameMeasurementInv DEF CopyReads, Inv, TypeOK
  <2>5. CASE CopyFails(s)
    BY <2>5, AnsweredInv, SameMeasurementInv DEF CopyFails, Inv, TypeOK
  <2>6. CASE CopyFinished(s)
    BY <2>6, CopyFinishedInv, SameMeasurementInv DEF CopyFinished, Inv, TypeOK
  <2>7. CASE WriteOpens(s)
    BY <2>7, WriteOpensInv
  <2>8. CASE WriteCloses(s)
    BY <2>8, WriteClosesInv
  <2>9. CASE WriteClosesNothing(s)
    BY <2>9, WrittenInv, SameMeasurementInv DEF WriteClosesNothing, Inv, TypeOK
  <2>10. CASE WriteFails(s)
    BY <2>10, AnsweredInv, SameMeasurementInv DEF WriteFails, Inv, TypeOK
  <2>11. CASE WriteFinished(s)
    BY <2>11, WriteFinishedInv
  <2>12. CASE DapFinished(s)
    BY <2>12, DapFinishedInv
  <2> QED BY <1>4, <2>1, <2>2, <2>3, <2>4, <2>5, <2>6, <2>7, <2>8, <2>9, <2>10,
             <2>11, <2>12 DEF SlotStep
<1>5. CASE FreeNow
  BY <1>5, RemoveInv DEF FreeNow
<1>6. CASE FlagForDeletion
  <2>1. Good(job', cache', alive', synced', dir')
    BY <1>6, Parts DEF FlagForDeletion
  <2> QED BY <1>6, <2>1, Parts, GoodInv DEF FlagForDeletion, Inv, TypeOK
<1>7. CASE RemoveFlagged
  BY <1>7, RemoveInv DEF RemoveFlagged
<1>8. CASE Restart
  BY <1>8, RestartInv
<1>9. CASE UNCHANGED vars
  <2>1. Good(job', cache', alive', synced', dir')
    BY <1>9, Parts DEF vars
  <2> QED BY <1>9, <2>1, Parts, GoodInv DEF vars, Inv, TypeOK
<1> QED BY <1>1, <1>2, <1>3, <1>4, <1>5, <1>6, <1>7, <1>8, <1>9 DEF Next

\* The invariant holds for every set of slots, files and requests.
THEOREM Invariance == Spec => []Inv
<1>1. Init => Inv
  BY InitInv
<1>2. Inv /\ [Next]_vars => Inv'
  BY NextInv
<1> QED BY <1>1, <1>2, PTL DEF Spec

\* Every variable keeps its type.
THEOREM TypeCorrect == Spec => []TypeOK
<1>1. Inv => TypeOK
  BY DEF Inv
<1> QED BY <1>1, Invariance, PTL

\* Whatever other calls store, generate or free meanwhile, what a call delivers
\* was complete in no older version than that of the last acknowledged dataSync.
THEOREM DeliveryIsFresh == Spec => []FreshDelivery
<1>1. Inv => FreshDelivery
  BY Parts DEF JobInv, FreshDelivery
<1> QED BY <1>1, Invariance, PTL

\* No file is ever written in place by two postprocessors.
THEOREM WritersAreApart == Spec => []OneWriter
<1>1. Inv => OneWriter
  BY Parts DEF JobsInv, Apart, InPlace, OneWriter
<1> QED BY <1>1, Invariance, PTL

\* The measurement functions terminate the daemon only by a generator whose
\* file was taken away.
THEOREM TerminationIsCaused == Spec => []TerminationHasCause
<1>1. Inv => TerminationHasCause
  BY Parts DEF Good, TerminationHasCause
<1> QED BY <1>1, Invariance, PTL

-----------------------------------------------------------------------------
(***************************************************************************)
(* Parts of files that nobody is writing.                                  *)
(***************************************************************************)

\* The file f holds a part of its output that none of the slots S is writing.
Left(f, files, jobs, S) ==
    files[f] = Part /\ \A t \in S : ~(InPlace(jobs[t]) /\ Target(jobs[t]) = f)

LEMMA OrphansAreLeft == Orphans = {f \in File : Left(f, cache, job, Slot)}
BY DEF Orphans, Left, InPlace

\* A slot that gets a job without a generator leaves what the others leave.
LEMMA LeftByOthers ==
    ASSUME NEW s \in Slot, NEW jobs \in [Slot -> Job], NEW j, NEW files, NEW f,
           Left(f, files, [jobs EXCEPT ![s] = j], Slot)
    PROVE  Left(f, files, jobs, Slot \ {s})
BY DEF Left

\* No file is left by slots that stop writing another file only.
LEMMA LeftWithoutFile ==
    ASSUME NEW s \in Slot, NEW jobs \in [Slot -> Job], NEW j, NEW files, NEW f, NEW g, f # g,
           Left(f, files, [WithoutFile(jobs, g, s) EXCEPT ![s] = j], Slot)
    PROVE  Left(f, files, jobs, Slot \ {s})
<1> DEFINE new == [WithoutFile(jobs, g, s) EXCEPT ![s] = j]
<1>1. ASSUME NEW t \in Slot \ {s}, InPlace(jobs[t]), Target(jobs[t]) = f
      PROVE  FALSE
  <2>1. new[t] = jobs[t]
    BY <1>1 DEF WithoutFile, InPlace
  <2> HIDE DEF new
  <2>2. Left(f, files, new, Slot)
    BY DEF new
  <2> QED BY <1>1, <2>1, <2>2 DEF Left
<1>2. files[f] = Part
  BY DEF Left
<1> QED BY <1>1, <1>2 DEF Left

\* The file g was not there, and either the daemon ended or another file was
\* deleted: what a message of dataOut that fails leaves behind.
Lost(g, files) ==
    /\ files[g] = Absent
    /\ ~alive' \/ \E h \in File : files[h] # Absent /\ cache'[h] = Absent

LEMMA MessageFailsLeaves ==
    ASSUME NEW s \in Slot, NEW j \in Job, NEW others \in [Slot -> Job],
           NEW files \in [File -> Content], j.i \in Nat \ {0},
           NEW k \in 1 .. Len(j.queue), NextMissing(k, j, files),
           MessageFails(s, j, k, files, others),
           NEW f \in File, Left(f, cache', job', Slot)
    PROVE  Left(f, files, others, Slot \ {s}) \/ Lost(f, files)
<1> DEFINE g == j.queue[k]
           left == [files EXCEPT ![g] = Part]
<1>1. g \in File /\ files[g] = Absent /\ Len(j.queue) \in Nat /\ k \in Nat
  BY QueueType DEF NextMissing
<1>2. \/ /\ \E new : job' = [others EXCEPT ![s] = new]
         /\ cache' = left /\ alive' = FALSE
      \/ \E l \in j.i .. k - 1 :
            /\ job' = [WithoutFile(others, j.queue[l], s) EXCEPT ![s] = NoJob]
            /\ cache' = [left EXCEPT ![j.queue[l]] = Absent]
  BY DEF MessageFails, Answer
<1>3. CASE (\E new : job' = [others EXCEPT ![s] = new]) /\ cache' = left /\ alive' = FALSE
  <2>1. CASE f = g
    BY <1>1, <1>3, <2>1 DEF Lost
  <2>2. CASE f # g
    <3>1. cache'[f] = files[f]
      BY <1>3, <2>2
    <3>2. Left(f, files, job', Slot)
      BY <3>1 DEF Left
    <3> QED BY <1>3, <3>2, LeftByOthers
  <2> QED BY <2>1, <2>2
<1>4. ASSUME NEW l \in j.i .. k - 1,
             job' = [WithoutFile(others, j.queue[l], s) EXCEPT ![s] = NoJob],
             cache' = [left EXCEPT ![j.queue[l]] = Absent]
      PROVE  Left(f, files, others, Slot \ {s}) \/ Lost(f, files)
  <2> DEFINE h == j.queue[l]
  <2>1. l \in 1 .. Len(j.queue)
    BY <1>1
  <2>2. h \in File /\ files[h] # Absent
    BY <2>1, QueueType DEF NextMissing
  <2>3. h # g
    BY <1>1, <2>2
  <2> HIDE DEF h, g
  <2>4. cache'[h] = Absent
    BY <1>4, <2>2 DEF h
  <2>5. f # h
    BY <2>4 DEF Left, Absent, Part
  <2>6. CASE f = g
    BY <1>1, <2>2, <2>4, <2>6 DEF Lost
  <2>7. CASE f # g
    <3>1. cache'[f] = files[f]
      BY <1>4, <2>5, <2>7 DEF h
    <3>2. Left(f, files, job', Slot)
      BY <3>1 DEF Left
    <3>3. job' = [WithoutFile(others, h, s) EXCEPT ![s] = NoJob]
      BY <1>4 DEF h
    <3> QED BY <2>5, <3>2, <3>3, LeftWithoutFile
  <2> QED BY <2>6, <2>7
<1> QED BY <1>2, <1>3, <1>4

\* Before it delivers its files, or generates the next one, dataOut leaves
\* nothing, unless a message fails.
LEMMA ProceedLeaves ==
    ASSUME NEW s \in Slot, NEW j \in Job, NEW others \in [Slot -> Job],
           NEW files \in [File -> Content], j.fn = "dataOut", j.i \in Nat \ {0},
           Proceed(s, j, files, others),
           NEW f \in File, Left(f, cache', job', Slot)
    PROVE  Left(f, files, others, Slot \ {s}) \/ Lost(f, files)
<1>1. PICK k \in j.i .. Len(j.queue) + 1 :
        /\ NextMissing(k, j, files)
        /\ IF k > Len(j.queue)
             THEN Deliver(s, j, files, others)
             ELSE LET g == j.queue[k]
                      jk == [j EXCEPT !.i = k]
                  IN  \/ StartGenerator(s, jk, g, files, others)
                      \/ CannotOpen(s, jk, files, others)
                      \/ CannotSpawn(s, jk, g, files, others)
                      \/ MessageFails(s, j, k, files, others)
  BY DEF Proceed
<1>2. CASE k > Len(j.queue)
  <2>1. cache' = files /\ \E new : job' = [others EXCEPT ![s] = new]
    BY <1>1, <1>2 DEF Deliver, Answer
  <2> QED BY <2>1, LeftByOthers
<1>3. CASE k <= Len(j.queue)
  <2> DEFINE g == j.queue[k]
             jk == [j EXCEPT !.i = k]
  <2>1. Len(j.queue) \in Nat
    BY QueueType
  <2>2. k \in 1 .. Len(j.queue) /\ k \in Nat
    BY <1>1, <1>3, <2>1
  <2>3. jk \in Job
    BY <2>2 DEF Job
  <2>4. jk.i = k /\ jk.queue = j.queue /\ jk.fn = "dataOut"
    BY DEF Job
  <2>5. g \in File /\ files[g] = Absent
    BY <1>1, <1>3, <2>2, QueueType DEF NextMissing
  <2>6. \/ StartGenerator(s, jk, g, files, others)
        \/ CannotOpen(s, jk, files, others)
        \/ CannotSpawn(s, jk, g, files, others)
        \/ MessageFails(s, j, k, files, others)
    BY <1>1, <1>3, <2>1
  <2>7. Target(jk) = g
    BY <2>4 DEF Target
  <2>11. CASE MessageFails(s, j, k, files, others)
    BY <1>1, <2>2, <2>11, MessageFailsLeaves
  <2> HIDE DEF g, jk
  <2>8. CASE StartGenerator(s, jk, g, files, others)
    <3> DEFINE new == [jk EXCEPT !.pc = "gen", !.ver = 0, !.out = "place"]
    <3>1. job' = [others EXCEPT ![s] = new] /\ cache' = [files EXCEPT ![g] = Part]
      BY <2>5, <2>8 DEF StartGenerator
    <3>2. InPlace(new) /\ Target(new) = g
      BY <2>3, <2>7 DEF Job, InPlace, Target
    <3> HIDE DEF new
    <3>3. job'[s] = new
      BY <3>1
    <3>4. f # g
      BY <3>2, <3>3 DEF Left
    <3>5. cache'[f] = files[f]
      BY <3>1, <3>4
    <3>6. Left(f, files, job', Slot)
      BY <3>5 DEF Left
    <3> QED BY <3>1, <3>6, LeftByOthers
  <2>9. CASE CannotSpawn(s, jk, g, files, others)
    <3>1. cache' = [files EXCEPT ![g] = Absent]
          /\ job' = [WithoutFile(others, g, s) EXCEPT ![s] = NoJob]
      BY <2>4, <2>9 DEF CannotSpawn, Answer
    <3>2. f # g
      BY <3>1 DEF Left, Absent, Part
    <3>3. Left(f, files, job', Slot)
      BY <3>1, <3>2 DEF Left
    <3> QED BY <3>1, <3>2, <3>3, LeftWithoutFile
  <2>10. CASE CannotOpen(s, jk, files, others)
    BY <2>4, <2>10 DEF CannotOpen, Left
  <2> QED BY <2>6, <2>8, <2>9, <2>10, <2>11
<1> QED
  <2>1. Len(j.queue) \in Nat
    BY QueueType
  <2> QED BY <1>1, <1>2, <1>3, <2>1

LEMMA StartLeaves ==
    ASSUME Inv, NEW s \in Slot, StartDataOut(s), NEW f \in File, Left(f, cache', job', Slot)
    PROVE  Left(f, cache, job, Slot) \/ Lost(f, cache)
<1> PICK q \in Queue : Proceed(s, Request("dataOut", q), cache, job)
  BY DEF StartDataOut
<1> DEFINE j == Request("dataOut", q)
<1>1. NoJob \in Job /\ synced \in Version \cup {0}
  BY NoJobInv, Parts DEF Inv, TypeOK
<1>2. j \in Job
  BY <1>1 DEF Request, Job
<1>3. j.i = 1 /\ j.fn = "dataOut"
  BY DEF Request, NoJob
<1> HIDE DEF j
<1>4. Proceed(s, j, cache, job)
  BY DEF j
<1>5. Left(f, cache, job, Slot \ {s}) \/ Lost(f, cache)
  BY <1>2, <1>3, <1>4, Parts, ProceedLeaves
<1>6. ~InPlace(job[s])
  BY DEF StartDataOut, Busy, InPlace
<1> QED BY <1>5, <1>6 DEF Left

\* A file that is finished is not a part; one that is gone was left before.
LEMMA GeneratorSucceedsLeaves ==
    ASSUME Inv, NEW s \in Slot, job[s].fn = "dataOut", GeneratorSucceeds(s),
           NEW f \in File, Left(f, cache', job', Slot)
    PROVE  Left(f, cache, job, Slot) \/ Lost(f, cache)
<1>1. job[s] \in Job /\ JobInv(job[s], cache, synced, dir) /\ job[s].pc = "gen"
      /\ job \in [Slot -> Job] /\ cache \in [File -> Content]
  BY Parts DEF GeneratorSucceeds
<1>2. CASE job[s].out = "lost"
  BY <1>2 DEF GeneratorSucceeds, CloseThrows, Left
<1>3. CASE job[s].out # "lost"
  <2> DEFINE files == Closed(s, job[s].ver)
             j == [job[s] EXCEPT !.i = job[s].i + 1]
  <2>1. Proceed(s, j, files, job)
    BY <1>3 DEF GeneratorSucceeds
  <2>2. job[s].i \in Nat \ {0} /\ Target(job[s]) \in File
    BY <1>1, QueueType DEF JobInv, Target
  <2>3. job[s].ver \in Version
    BY <1>1 DEF GeneratorSucceeds, Job
  <2>4. files \in [File -> Content]
    BY <1>1, <2>2, <2>3 DEF Closed, Content
  <2>5. j \in Job /\ j.i \in Nat \ {0} /\ j.fn = "dataOut"
    <3>1. job[s].i + 1 \in Nat \ {0}
      BY <2>2
    <3>2. j.i = job[s].i + 1 /\ j.fn = job[s].fn
      BY <1>1 DEF Job
    <3>3. j \in Job
      BY <1>1, <3>1 DEF Job
    <3> QED BY <3>1, <3>2, <3>3
  <2> HIDE DEF j, files
  <2>6. Left(f, files, job, Slot \ {s}) \/ Lost(f, files)
    BY <1>1, <2>1, <2>4, <2>5, ProceedLeaves
  <2>7. CASE job[s].out = "gone"
    <3>1. files = cache /\ ~InPlace(job[s])
      BY <2>7 DEF files, Closed, InPlace
    <3> QED BY <2>6, <3>1 DEF Left
  <2>8. CASE job[s].out # "gone"
    <3>1. files = [cache EXCEPT ![Target(job[s])] = job[s].ver]
      BY <2>8 DEF files, Closed
    <3>2. job[s].ver # Absent /\ job[s].ver # Part /\ Part # Absent
      BY <2>3 DEF Part, Version, Absent
    <3>3. CASE Left(f, files, job, Slot \ {s})
      <4>1. f # Target(job[s])
        BY <1>1, <2>2, <3>1, <3>2, <3>3 DEF Left
      <4> QED BY <1>1, <3>1, <3>3, <4>1 DEF Left
    <3>4. CASE Lost(f, files)
      <4>1. f # Target(job[s])
        BY <1>1, <2>2, <3>1, <3>2, <3>4 DEF Lost
      <4>2. cache[f] = Absent
        BY <1>1, <3>1, <3>4, <4>1 DEF Lost
      <4>3. cache[Target(job[s])] # Absent
        BY <1>1, <1>3, <2>8, <3>2 DEF JobInv, Attached
      <4>4. ASSUME NEW h \in File, files[h] # Absent PROVE cache[h] # Absent
        BY <1>1, <3>1, <4>3, <4>4
      <4> QED BY <3>4, <4>2, <4>4 DEF Lost
    <3> QED BY <2>6, <3>3, <3>4
  <2> QED BY <2>7, <2>8
<1> QED BY <1>2, <1>3

\* The file of a generator that fails is deleted.
LEMMA GeneratorFailsLeaves ==
    ASSUME Inv, NEW s \in Slot, job[s].fn = "dataOut", GeneratorFails(s),
           NEW f \in File, Left(f, cache', job', Slot)
    PROVE  Left(f, cache, job, Slot)
<1> DEFINE g == Target(job[s])
<1>1. job[s] \in Job /\ JobInv(job[s], cache, synced, dir) /\ job[s].pc = "gen"
      /\ job \in [Slot -> Job] /\ cache \in [File -> Content]
  BY Parts DEF GeneratorFails
<1>2. CASE job' = job /\ cache' = cache
  BY <1>2
<1>3. CASE Answer(s, WithoutFile(job, g, s)) /\ cache' = [cache EXCEPT ![g] = Absent]
  <2>1. g \in File
    BY <1>1, QueueType DEF JobInv, Target
  <2> HIDE DEF g
  <2>2. f # g
    BY <1>1, <1>3, <2>1 DEF Left, Absent, Part
  <2>3. Left(f, cache, job', Slot)
    BY <1>1, <1>3, <2>2 DEF Left
  <2>4. Left(f, cache, job, Slot \ {s})
    BY <1>1, <1>3, <2>2, <2>3, LeftWithoutFile DEF Answer
  <2> QED BY <2>2, <2>4 DEF Left, g
<1> QED BY <1>2, <1>3 DEF GeneratorFails, RemoveFailed, CloseThrows

\* Neither does a step that is not one of a generator.
LEMMA CopyLeaves ==
    ASSUME Inv, NEW s \in Slot, CopyReads(s) \/ CopyFails(s) \/ CopyFinished(s),
           NEW f \in File, Left(f, cache', job', Slot)
    PROVE  Left(f, cache, job, Slot)
<1>1. cache' = cache /\ ~InPlace(job[s]) /\ job \in [Slot -> Job]
  BY Parts DEF CopyReads, CopyFails, CopyFinished, InPlace
<1>2. \E new : job' = [job EXCEPT ![s] = new]
  BY DEF CopyReads, CopyFails, CopyFinished, Answer
<1>3. Left(f, cache, job, Slot \ {s})
  BY <1>1, <1>2, LeftByOthers
<1> QED BY <1>1, <1>3 DEF Left

LEMMA GeneratorReadsLeaves ==
    ASSUME Inv, NEW s \in Slot, GeneratorReads(s),
           NEW f \in File, Left(f, cache', job', Slot)
    PROVE  Left(f, cache, job, Slot)
<1>1. job \in [Slot -> Job]
  BY Parts
<1>2. cache' = cache /\ job' = [job EXCEPT ![s] = [job[s] EXCEPT !.ver = raw]]
  BY DEF GeneratorReads
<1>3. \A t \in Slot : InPlace(job'[t]) <=> InPlace(job[t])
  BY <1>1, <1>2 DEF InPlace, Job
<1>4. \A t \in Slot : Target(job'[t]) = Target(job[t])
  BY <1>1, <1>2 DEF Target, Job
<1> QED BY <1>2, <1>3, <1>4 DEF Left

\* dataOut deletes the file of a postprocessor that fails or cannot be run
\* (core_function_data_out.cc), and no step of it strands a file of another call;
\* only when its message fails does the file of that postprocessor stay.
THEOREM NoOrphanOfDataOut == Spec => DataOutLeavesNoOrphan
<1>1. ASSUME Inv, NEW s \in Slot, StartDataOut(s) \/ (job[s].fn = "dataOut" /\ SlotStep(s)),
             NEW f \in File, Left(f, cache', job', Slot)
      PROVE  Left(f, cache, job, Slot) \/ Lost(f, cache)
  <2>1. CASE StartDataOut(s)
    BY <1>1, <2>1, StartLeaves
  <2>2. CASE job[s].fn = "dataOut" /\ SlotStep(s)
    <3>1. job[s].pc \notin {"open", "write", "written", "dap"}
      BY <1>1, <2>2, Parts DEF JobInv
    <3>2. \/ GeneratorReads(s) \/ GeneratorSucceeds(s) \/ GeneratorFails(s)
          \/ CopyReads(s) \/ CopyFails(s) \/ CopyFinished(s)
      BY <2>2, <3>1 DEF SlotStep, WriteOpens, WriteCloses, WriteClosesNothing, WriteFails,
                        WriteFinished, DapFinished
    <3>3. CASE CopyReads(s) \/ CopyFails(s) \/ CopyFinished(s)
      BY <1>1, <3>3, CopyLeaves
    <3> QED BY <1>1, <2>2, <3>2, <3>3, GeneratorReadsLeaves, GeneratorSucceedsLeaves,
               GeneratorFailsLeaves
  <2> QED BY <1>1, <2>1, <2>2
<1>2. Orphans' = {f \in File : Left(f, cache', job', Slot)}
  BY DEF Orphans, Left, InPlace, Target
<1>4. ASSUME Inv, NEW s \in Slot, StartDataOut(s) \/ (job[s].fn = "dataOut" /\ SlotStep(s)),
             NEW f \in Orphans' \ Orphans
      PROVE  MessageFailed
  <2>1. f \in File /\ Lost(f, cache)
    BY <1>1, <1>2, <1>4, OrphansAreLeft
  <2>2. \A g \in Orphans' \ Orphans : Lost(g, cache)
    BY <1>1, <1>2, <1>4, OrphansAreLeft
  <2> QED BY <2>1, <2>2 DEF Lost, MessageFailed
<1>3. Inv /\ [Next]_vars =>
        [\A s \in Slot :
            (StartDataOut(s) \/ (job[s].fn = "dataOut" /\ SlotStep(s)))
                => Orphans' \subseteq Orphans \/ MessageFailed]_vars
  BY <1>4
<1> QED BY <1>3, Invariance, PTL DEF Spec, DataOutLeavesNoOrphan
=============================================================================
