-------------------------- MODULE PromiseJobsProofs --------------------------
(***************************************************************************)
(* Proofs about promises and the job queue for every number of promises,   *)
(* thenables, reactions, frames and interrupts.                            *)
(*                                                                         *)
(* An action first moves frames and then settles a promise, registers a    *)
(* reaction or enqueues a job; the parts of the invariant are stated for   *)
(* the frames in between, fs.                                              *)
(***************************************************************************)
EXTENDS PromiseJobs, SequenceTheorems, TLAPS

\* ReactionRunsOnce for the frames fs.
RunsOnce(fs) ==
    /\ QueuedIn(fs) \intersect ran = {}
    /\ \A p \in Promise : /\ Registered(p) \intersect (QueuedIn(fs) \union ran) = {}
                          /\ state[p] \in Settled => Registered(p) = {}

\* ProgramDrainsAlone for fs.
DrainsAlone(fs) ==
    \A d, e \in 1..Len(fs) : fs[d].kind = "program" /\ d + 1 < e => fs[e].kind # "drain"

\* Everything but who decides a promise.
Core(fs) ==
    /\ TypeOK /\ FramesOK(fs) /\ JobsOK(fs) /\ PairsOK(fs) /\ JobsDistinct(jobQueue, fs) /\ ReactionsApart(fs)
    /\ TrackerAgrees /\ RunsOnce(fs) /\ DrainsAlone(fs)

\* The invariant for fs.
Inv(fs) == Core(fs) /\ OneDecider(fs)

\* The invariants of the run together are inductive.
IndInv == Inv(frames) /\ NoJobLeftBehind

\* The inductive invariant is the conjunction of the invariants of the run.
LEMMA IndInvIs ==
    IndInv <=> Consistent /\ ReactionRunsOnce /\ TrackerAgrees /\ NoJobLeftBehind /\ ProgramDrainsAlone
BY DEF IndInv, Inv, Core, Consistent, ReactionRunsOnce, RunsOnce, ProgramDrainsAlone, DrainsAlone, Queued, Depth

-----------------------------------------------------------------------------
(* The jobs that wait *)

\* A job waits in the queue or in a batch.
LEMMA WaitingPlaces ==
    ASSUME NEW q, NEW fs, NEW j
    PROVE  j \in Waiting(q, fs) <=>
             \/ \E n \in 1..Len(q) : j = q[n]
             \/ \E d \in 1..Len(fs) : \E n \in 1..Len(fs[d].jobs) : j = fs[d].jobs[n]
BY DEF Waiting, Elements

\* A job that waits is a job record.
LEMMA WaitingType ==
    ASSUME NEW q \in Seq(JobRecord), NEW fs \in Seq(FrameRecord), NEW j \in Waiting(q, fs)
    PROVE  j \in JobRecord
<1>1. ASSUME NEW d \in 1..Len(fs) PROVE fs[d].jobs \in Seq(JobRecord)
  <2>1. fs[d] \in FrameRecord
    BY ElementOfSeq
  <2> QED
    BY <2>1 DEF FrameRecord
<1>2. CASE \E n \in 1..Len(q) : j = q[n]
  BY <1>2, ElementOfSeq
<1>3. CASE \E d \in 1..Len(fs) : \E n \in 1..Len(fs[d].jobs) : j = fs[d].jobs[n]
  BY <1>1, <1>3, ElementOfSeq
<1> QED
  BY <1>2, <1>3, WaitingPlaces

\* Two different places hold jobs with different keys, so a job that is taken from
\* its place waits no more.
LEMMA KeyPlaces ==
    ASSUME NEW q, NEW fs, JobsDistinct(q, fs), NEW d \in 0..Len(fs), NEW m \in 1..Len(Batch(q, fs, d)),
           NEW e \in 0..Len(fs), NEW n \in 1..Len(Batch(q, fs, e)),
           Key(Batch(q, fs, d)[m]) = Key(Batch(q, fs, e)[n])
    PROVE  d = e /\ m = n
BY DEF JobsDistinct

\* Batches that are cut off or left as they are keep jobs in one place each.
LEMMA BatchesKept ==
    ASSUME NEW q, NEW fs \in Seq(FrameRecord), NEW gs \in Seq(FrameRecord), JobsDistinct(q, fs),
           \A d \in 1..Len(gs) : \/ gs[d].jobs = <<>>
                                 \/ d <= Len(fs) /\ gs[d].jobs = fs[d].jobs
    PROVE  JobsDistinct(q, gs) /\ Waiting(q, gs) \subseteq Waiting(q, fs)
<1>0. Len(fs) \in Nat /\ Len(gs) \in Nat /\ Len(<<>>) = 0
  BY LenProperties, EmptySeq
<1>1. ASSUME NEW d \in 0..Len(gs), NEW m \in 1..Len(Batch(q, gs, d))
      PROVE  d \in 0..Len(fs) /\ Batch(q, gs, d) = Batch(q, fs, d)
  BY <1>0, <1>1 DEF Batch
<1>2. JobsDistinct(q, gs)
  <2> SUFFICES ASSUME NEW d \in 0..Len(gs), NEW e \in 0..Len(gs),
                      NEW m \in 1..Len(Batch(q, gs, d)), NEW n \in 1..Len(Batch(q, gs, e)),
                      Key(Batch(q, gs, d)[m]) = Key(Batch(q, gs, e)[n])
               PROVE  d = e /\ m = n
    BY DEF JobsDistinct
  <2>1. /\ d \in 0..Len(fs) /\ Batch(q, gs, d) = Batch(q, fs, d)
        /\ e \in 0..Len(fs) /\ Batch(q, gs, e) = Batch(q, fs, e)
    BY <1>1
  <2> QED
    BY <2>1, KeyPlaces
<1>3. ASSUME NEW j \in Waiting(q, gs) PROVE j \in Waiting(q, fs)
  <2>1. CASE \E n \in 1..Len(q) : j = q[n]
    BY <2>1, WaitingPlaces
  <2>2. CASE \E d \in 1..Len(gs) : \E n \in 1..Len(gs[d].jobs) : j = gs[d].jobs[n]
    <3>1. PICK d \in 1..Len(gs) : \E n \in 1..Len(gs[d].jobs) : j = gs[d].jobs[n]
      BY <2>2
    <3>2. d \in 1..Len(fs) /\ gs[d].jobs = fs[d].jobs
      BY <1>0, <3>1
    <3> QED
      BY <3>1, <3>2, WaitingPlaces
  <2> QED
    BY <2>1, <2>2, WaitingPlaces
<1> QED
  BY <1>2, <1>3

\* When no batch that held jobs is cut off, the same jobs wait.
LEMMA WaitingKept ==
    ASSUME NEW q, NEW fs \in Seq(FrameRecord), NEW gs \in Seq(FrameRecord),
           \A d \in 1..Len(fs) : \/ fs[d].jobs = <<>>
                                 \/ d <= Len(gs) /\ gs[d].jobs = fs[d].jobs
    PROVE  Waiting(q, fs) \subseteq Waiting(q, gs)
<1>0. Len(fs) \in Nat /\ Len(gs) \in Nat /\ Len(<<>>) = 0
  BY LenProperties, EmptySeq
<1>1. ASSUME NEW j \in Waiting(q, fs) PROVE j \in Waiting(q, gs)
  <2>1. CASE \E n \in 1..Len(q) : j = q[n]
    BY <2>1, WaitingPlaces
  <2>2. CASE \E d \in 1..Len(fs) : \E n \in 1..Len(fs[d].jobs) : j = fs[d].jobs[n]
    <3>1. PICK d \in 1..Len(fs) : \E n \in 1..Len(fs[d].jobs) : j = fs[d].jobs[n]
      BY <2>2
    <3>2. d \in 1..Len(gs) /\ gs[d].jobs = fs[d].jobs
      BY <1>0, <3>1
    <3> QED
      BY <3>1, <3>2, WaitingPlaces
  <2> QED
    BY <2>1, <2>2, WaitingPlaces
<1> QED
  BY <1>1

\* Jobs are enqueued whose keys are new.
LEMMA QueueGrows ==
    ASSUME NEW q \in Seq(JobRecord), NEW fs \in Seq(FrameRecord), JobsDistinct(q, fs),
           NEW new \in Seq(JobRecord),
           \A m, n \in 1..Len(new) : Key(new[m]) = Key(new[n]) => m = n,
           \A m \in 1..Len(new) : \A j \in Waiting(q, fs) : Key(new[m]) # Key(j)
    PROVE  /\ q \o new \in Seq(JobRecord)
           /\ JobsDistinct(q \o new, fs)
           /\ \A j : j \in Waiting(q \o new, fs) <=> j \in Waiting(q, fs) \/ \E m \in 1..Len(new) : j = new[m]
<1> DEFINE r == q \o new
<1>0. Len(q) \in Nat /\ Len(new) \in Nat /\ Len(fs) \in Nat
  BY LenProperties
<1>1. /\ r \in Seq(JobRecord) /\ Len(r) = Len(q) + Len(new)
      /\ \A n \in 1..(Len(q) + Len(new)) : r[n] = IF n <= Len(q) THEN q[n] ELSE new[n - Len(q)]
  BY ConcatProperties
<1> HIDE DEF r
<1>2. JobsDistinct(r, fs)
  <2>0. ASSUME NEW d \in 0..Len(fs), NEW m \in 1..Len(Batch(r, fs, d))
        PROVE  \/ /\ m \in 1..Len(Batch(q, fs, d)) /\ Batch(r, fs, d)[m] = Batch(q, fs, d)[m]
                  /\ Batch(r, fs, d)[m] \in Waiting(q, fs)
               \/ /\ d = 0 /\ m - Len(q) \in 1..Len(new) /\ Batch(r, fs, d)[m] = new[m - Len(q)]
                  /\ m \in Nat
    <3>1. CASE d # 0
      <4>1. Batch(r, fs, d) = fs[d].jobs /\ Batch(q, fs, d) = fs[d].jobs /\ d \in 1..Len(fs)
        BY <1>0, <3>1 DEF Batch
      <4> QED
        BY <4>1, WaitingPlaces
    <3>2. CASE d = 0 /\ m <= Len(q)
      <4>1. Batch(r, fs, d) = r /\ Batch(q, fs, d) = q
        BY <3>2 DEF Batch
      <4>2. m \in 1..Len(q) /\ r[m] = q[m]
        BY <1>0, <1>1, <3>2, <4>1
      <4> QED
        BY <4>1, <4>2, WaitingPlaces
    <3>3. CASE d = 0 /\ ~(m <= Len(q))
      <4>1. Batch(r, fs, d) = r
        BY <3>3 DEF Batch
      <4> QED
        BY <1>0, <1>1, <3>3, <4>1
    <3> QED
      BY <3>1, <3>2, <3>3
  <2> SUFFICES ASSUME NEW d \in 0..Len(fs), NEW e \in 0..Len(fs),
                      NEW m \in 1..Len(Batch(r, fs, d)), NEW n \in 1..Len(Batch(r, fs, e)),
                      Key(Batch(r, fs, d)[m]) = Key(Batch(r, fs, e)[n])
               PROVE  d = e /\ m = n
    BY DEF JobsDistinct
  <2>1. CASE /\ m \in 1..Len(Batch(q, fs, d)) /\ Batch(r, fs, d)[m] = Batch(q, fs, d)[m]
             /\ n \in 1..Len(Batch(q, fs, e)) /\ Batch(r, fs, e)[n] = Batch(q, fs, e)[n]
    BY <2>1, KeyPlaces
  <2>2. CASE /\ d = 0 /\ m - Len(q) \in 1..Len(new) /\ Batch(r, fs, d)[m] = new[m - Len(q)] /\ m \in Nat
             /\ e = 0 /\ n - Len(q) \in 1..Len(new) /\ Batch(r, fs, e)[n] = new[n - Len(q)] /\ n \in Nat
    <3>1. m - Len(q) = n - Len(q)
      BY <2>2
    <3> QED
      BY <1>0, <2>2, <3>1
  <2>3. CASE Batch(r, fs, d)[m] \in Waiting(q, fs) /\ n - Len(q) \in 1..Len(new) /\ Batch(r, fs, e)[n] = new[n - Len(q)]
    BY <2>3
  <2>4. CASE Batch(r, fs, e)[n] \in Waiting(q, fs) /\ m - Len(q) \in 1..Len(new) /\ Batch(r, fs, d)[m] = new[m - Len(q)]
    BY <2>4
  <2>5. \/ /\ m \in 1..Len(Batch(q, fs, d)) /\ Batch(r, fs, d)[m] = Batch(q, fs, d)[m]
           /\ Batch(r, fs, d)[m] \in Waiting(q, fs)
        \/ d = 0 /\ m - Len(q) \in 1..Len(new) /\ Batch(r, fs, d)[m] = new[m - Len(q)] /\ m \in Nat
    BY <2>0
  <2>6. \/ /\ n \in 1..Len(Batch(q, fs, e)) /\ Batch(r, fs, e)[n] = Batch(q, fs, e)[n]
           /\ Batch(r, fs, e)[n] \in Waiting(q, fs)
        \/ e = 0 /\ n - Len(q) \in 1..Len(new) /\ Batch(r, fs, e)[n] = new[n - Len(q)] /\ n \in Nat
    BY <2>0
  <2> QED
    BY <2>1, <2>2, <2>3, <2>4, <2>5, <2>6 
<1>3. ASSUME NEW j
      PROVE  j \in Waiting(r, fs) <=> j \in Waiting(q, fs) \/ \E m \in 1..Len(new) : j = new[m]
  <2>1. (\E n \in 1..Len(r) : j = r[n]) <=> (\E n \in 1..Len(q) : j = q[n]) \/ (\E m \in 1..Len(new) : j = new[m])
    <3>1. ASSUME NEW n \in 1..Len(q), j = q[n] PROVE \E k \in 1..Len(r) : j = r[k]
      <4>1. n \in 1..Len(r) /\ r[n] = q[n]
        BY <1>0, <1>1
      <4> QED
        BY <3>1, <4>1
    <3>2. ASSUME NEW m \in 1..Len(new), j = new[m] PROVE \E k \in 1..Len(r) : j = r[k]
      <4>0. PICK k \in Nat : k = Len(q) + m
        BY <1>0
      <4>1. k \in 1..Len(r) /\ ~(k <= Len(q)) /\ k - Len(q) = m
        BY <1>0, <1>1, <4>0
      <4>2. r[k] = new[m]
        BY <1>1, <4>1
      <4> QED
        BY <3>2, <4>1, <4>2
    <3>3. ASSUME NEW n \in 1..Len(r), j = r[n]
          PROVE  (\E k \in 1..Len(q) : j = q[k]) \/ (\E m \in 1..Len(new) : j = new[m])
      <4>1. CASE n <= Len(q)
        BY <1>0, <1>1, <3>3, <4>1
      <4>2. CASE ~(n <= Len(q))
        <5>1. n - Len(q) \in 1..Len(new) /\ r[n] = new[n - Len(q)]
          BY <1>0, <1>1, <4>2
        <5> QED
          BY <3>3, <5>1
      <4> QED
        BY <4>1, <4>2
    <3> QED
      BY <3>1, <3>2, <3>3
  <2>2. j \in Waiting(r, fs) <=> \/ \E n \in 1..Len(r) : j = r[n]
                                 \/ \E d \in 1..Len(fs) : \E n \in 1..Len(fs[d].jobs) : j = fs[d].jobs[n]
    BY WaitingPlaces
  <2>3. j \in Waiting(q, fs) <=> \/ \E n \in 1..Len(q) : j = q[n]
                                 \/ \E d \in 1..Len(fs) : \E n \in 1..Len(fs[d].jobs) : j = fs[d].jobs[n]
    BY WaitingPlaces
  <2> QED
    BY <2>1, <2>2, <2>3
<1> QED
  BY <1>1, <1>2, <1>3 DEF r

\* One job is enqueued.
LEMMA QueueAppends ==
    ASSUME NEW q \in Seq(JobRecord), NEW fs \in Seq(FrameRecord), JobsDistinct(q, fs),
           NEW new \in JobRecord, \A j \in Waiting(q, fs) : Key(new) # Key(j)
    PROVE  /\ Append(q, new) \in Seq(JobRecord)
           /\ JobsDistinct(Append(q, new), fs)
           /\ Waiting(Append(q, new), fs) = Waiting(q, fs) \union {new}
<1> DEFINE ns == <<new>>
<1>1. ns \in Seq(JobRecord) /\ Len(ns) = 1 /\ ns[1] = new /\ Append(q, new) = q \o ns
  BY AppendIsConcat
<1> HIDE DEF ns
<1>2. \A m \in 1..Len(ns) : ns[m] = new /\ m = 1
  BY <1>1
<1>3. /\ q \o ns \in Seq(JobRecord)
      /\ JobsDistinct(q \o ns, fs)
      /\ \A j : j \in Waiting(q \o ns, fs) <=> j \in Waiting(q, fs) \/ \E m \in 1..Len(ns) : j = ns[m]
  BY <1>1, <1>2, QueueGrows
<1> QED
  BY <1>1, <1>2, <1>3

-----------------------------------------------------------------------------
(* Frames come and go *)

\* The rest of the invariant depends on the frames by the jobs that wait and the
\* then properties that are being read.
LEMMA CoreMoves ==
    ASSUME NEW fs, Core(fs), NEW gs, FramesOK(gs), DrainsAlone(gs), JobsDistinct(jobQueue, gs),
           WaitingIn(gs) \subseteq WaitingIn(fs)
    PROVE  Core(gs)
<1>1. JobsOK(gs) /\ PairsOK(gs)
  BY DEF Core, JobsOK, PairsOK
<1>2. QueuedIn(gs) \subseteq QueuedIn(fs)
  BY DEF QueuedIn
<1>3. ReactionsApart(gs)
  BY <1>2 DEF Core, ReactionsApart
<1>4. RunsOnce(gs)
  BY <1>2 DEF Core, RunsOnce
<1> QED
  BY <1>1, <1>3, <1>4 DEF Core

\* Likewise with who decides.
LEMMA FramesMove ==
    ASSUME NEW fs, Inv(fs), NEW gs, FramesOK(gs), DrainsAlone(gs), JobsDistinct(jobQueue, gs),
           WaitingIn(gs) \subseteq WaitingIn(fs),
           \A p \in Promise : DecidingGetters(gs, p) \subseteq DecidingGetters(fs, p),
           \/ interrupts > 0
           \/ /\ \A j \in WaitingIn(fs) : j.kind = "thenable" => j \in WaitingIn(gs)
              /\ \A p \in Promise : DecidingGetters(gs, p) = DecidingGetters(fs, p)
    PROVE  Inv(gs)
<1>1. Core(gs)
  BY CoreMoves DEF Inv
<1>5. OneDecider(gs)
  <2>1. ASSUME NEW p \in Promise PROVE Deciders(gs, p) \subseteq Deciders(fs, p)
    BY DEF Deciders, DecidingJobs
  <2>2. ASSUME NEW p \in Promise, ~(interrupts > 0) PROVE Deciders(gs, p) = Deciders(fs, p)
    BY <2>2 DEF Deciders, DecidingJobs
  <2>3. interrupts \in Nat
    BY DEF Inv, Core, TypeOK
  <2> QED
    BY <2>1, <2>2, <2>3 DEF Inv, Core, OneDecider
<1> QED
  BY <1>1, <1>5 DEF Inv, Core

\* A callback or an entry is pushed.
LEMMA Push ==
    ASSUME NEW fs, Inv(fs), NEW fr \in FrameRecord, FrameOK(fr), fr.kind \notin {"drain", "getter"},
           fr.kind \in Entry \/ fs # <<>>,
           fr.kind = "program" => \A d \in 1..Len(fs) : fs[d].kind # "program"
    PROVE  Inv(Append(fs, fr)) /\ WaitingIn(Append(fs, fr)) \subseteq WaitingIn(fs)
<1> DEFINE gs == Append(fs, fr)
<1>0. fs \in Seq(FrameRecord) /\ Len(fs) \in Nat /\ fr.jobs = <<>>
  BY LenProperties DEF Inv, Core, FramesOK, FrameOK
<1>1. /\ gs \in Seq(FrameRecord) /\ Len(gs) = Len(fs) + 1
      /\ \A d \in 1..Len(fs) : gs[d] = fs[d]
      /\ gs[Len(fs) + 1] = fr
  BY <1>0, AppendProperties
<1> HIDE DEF gs
<1>2. FramesOK(gs)
  <2>1. gs[1].kind \in Entry
    <3>1. CASE fs = <<>>
      BY <1>1, <3>1, EmptySeq
    <3>2. CASE fs # <<>>
      BY <1>0, <1>1, <3>2, EmptySeq DEF Inv, Core, FramesOK
    <3> QED
      BY <3>1, <3>2
  <2>2. ASSUME NEW d \in 1..Len(gs)
        PROVE  /\ FrameOK(gs[d])
               /\ gs[d].kind = "drain" => d > 1 /\ gs[d - 1].kind \in Entry
    BY <1>0, <1>1 DEF Inv, Core, FramesOK
  <2>3. ASSUME NEW d \in 1..Len(gs), NEW e \in 1..Len(gs), gs[d].kind = "program", gs[e].kind = "program"
        PROVE  d = e
    BY <1>0, <1>1, <2>3 DEF Inv, Core, FramesOK
  <2> QED
    BY <1>1, <2>1, <2>2, <2>3 DEF FramesOK
<1>3. DrainsAlone(gs)
  BY <1>0, <1>1, SMTT(30) DEF Inv, Core, DrainsAlone
<1>4. JobsDistinct(jobQueue, gs) /\ WaitingIn(gs) \subseteq WaitingIn(fs)
  BY <1>0, <1>1, BatchesKept DEF Inv, Core, WaitingIn
<1>5. WaitingIn(fs) \subseteq WaitingIn(gs)
  BY <1>0, <1>1, WaitingKept DEF WaitingIn
<1>6. \A p \in Promise : DecidingGetters(gs, p) = DecidingGetters(fs, p)
  BY <1>0, <1>1 DEF DecidingGetters
<1> QED
  BY <1>2, <1>3, <1>4, <1>5, <1>6, FramesMove DEF gs

\* leave() begins on behalf of the entry on top.
LEMMA PushDrain ==
    ASSUME NEW fs, Inv(fs), fs # <<>>, fs[Len(fs)].kind \in Entry,
           \A d \in 1..(Len(fs) - 1) : fs[d].kind # "program"
    PROVE  Inv(Append(fs, Drain))
<1> DEFINE gs == Append(fs, Drain)
<1>0. fs \in Seq(FrameRecord) /\ Len(fs) \in Nat \ {0}
  BY LenProperties, EmptySeq DEF Inv, Core, FramesOK
<1>d. Drain \in FrameRecord /\ Drain.jobs = <<>> /\ Drain.kind = "drain"
  <2>1. NoJob \in JobRecord
    BY PromiseJobsAssumption DEF NoJob, JobRecord
  <2>2. <<>> \in Seq(JobRecord)
    BY EmptySeq
  <2> QED
    BY <2>1, <2>2, PromiseJobsAssumption DEF Drain, Frame, FrameRecord
<1>1. /\ gs \in Seq(FrameRecord) /\ Len(gs) = Len(fs) + 1
      /\ \A d \in 1..Len(fs) : gs[d] = fs[d]
      /\ gs[Len(fs) + 1] = Drain
  BY <1>0, <1>d, AppendProperties
<1> HIDE DEF gs
<1>2. FramesOK(gs)
  <2>1. gs[1].kind \in Entry
    BY <1>0, <1>1 DEF Inv, Core, FramesOK
  <2>2. ASSUME NEW d \in 1..Len(gs)
        PROVE  /\ FrameOK(gs[d])
               /\ gs[d].kind = "drain" => d > 1 /\ gs[d - 1].kind \in Entry
    <3>1. CASE d = Len(fs) + 1
      BY <1>0, <1>1, <1>d, <3>1 DEF FrameOK
    <3>2. CASE d # Len(fs) + 1
      BY <1>0, <1>1, <3>2 DEF Inv, Core, FramesOK
    <3> QED
      BY <3>1, <3>2
  <2>3. ASSUME NEW d \in 1..Len(gs), NEW e \in 1..Len(gs), gs[d].kind = "program", gs[e].kind = "program"
        PROVE  d = e
    BY <1>0, <1>1, <1>d, <2>3 DEF Inv, Core, FramesOK
  <2> QED
    BY <1>1, <2>1, <2>2, <2>3 DEF FramesOK
<1>3. DrainsAlone(gs)
  BY <1>0, <1>1, <1>d DEF Inv, Core, DrainsAlone
<1>4. JobsDistinct(jobQueue, gs) /\ WaitingIn(gs) \subseteq WaitingIn(fs)
  BY <1>0, <1>1, <1>d, BatchesKept DEF Inv, Core, WaitingIn
<1>5. WaitingIn(fs) \subseteq WaitingIn(gs)
  BY <1>0, <1>1, WaitingKept DEF WaitingIn
<1>6. \A p \in Promise : DecidingGetters(gs, p) = DecidingGetters(fs, p)
  BY <1>0, <1>1, <1>d DEF DecidingGetters
<1> QED
  BY <1>2, <1>3, <1>4, <1>5, <1>6, FramesMove DEF gs

\* The first frames of a stack.
LEMMA PrefixIs ==
    ASSUME NEW fs \in Seq(FrameRecord), NEW k \in 0..Len(fs)
    PROVE  /\ SubSeq(fs, 1, k) \in Seq(FrameRecord) /\ Len(SubSeq(fs, 1, k)) = k
           /\ \A d \in 1..k : SubSeq(fs, 1, k)[d] = fs[d]
<1>0. Len(fs) \in Nat /\ k \in Nat
  BY LenProperties
<1>1. \A d \in 1..k : fs[d] \in FrameRecord
  BY <1>0, ElementOfSeq
<1> QED
  BY <1>0, <1>1, SubSeqProperties

\* Frames are popped.
LEMMA TruncateCore ==
    ASSUME NEW fs, Core(fs), NEW k \in 0..Len(fs),
           NEW gs \in Seq(FrameRecord), Len(gs) = k, \A d \in 1..k : gs[d] = fs[d]
    PROVE  /\ Core(gs) /\ WaitingIn(gs) \subseteq WaitingIn(fs)
           /\ (\A d \in (k + 1)..Len(fs) : fs[d].jobs = <<>>) => WaitingIn(fs) \subseteq WaitingIn(gs)
           /\ \A p \in Promise : \A d : d \in DecidingGetters(gs, p) <=> d \in DecidingGetters(fs, p) /\ d <= k
<1>0. fs \in Seq(FrameRecord) /\ Len(fs) \in Nat /\ k \in Nat
  BY LenProperties DEF Core, FramesOK
<1>1. /\ gs \in Seq(FrameRecord) /\ Len(gs) = k
      /\ \A d \in 1..k : gs[d] = fs[d]
  OBVIOUS
<1>2. FramesOK(gs)
  <2>1. gs # <<>> => gs[1].kind \in Entry
    <3>1. gs # <<>> => k > 0
      BY <1>0, <1>1, EmptySeq
    <3> QED
      BY <1>0, <1>1, <3>1, EmptySeq DEF Core, FramesOK
  <2>2. ASSUME NEW d \in 1..Len(gs)
        PROVE  /\ FrameOK(gs[d])
               /\ gs[d].kind = "drain" => d > 1 /\ gs[d - 1].kind \in Entry
    BY <1>0, <1>1 DEF Core, FramesOK
  <2>3. ASSUME NEW d \in 1..Len(gs), NEW e \in 1..Len(gs), gs[d].kind = "program", gs[e].kind = "program"
        PROVE  d = e
    BY <1>0, <1>1, <2>3 DEF Core, FramesOK
  <2> QED
    BY <1>1, <2>1, <2>2, <2>3 DEF FramesOK
<1>3. DrainsAlone(gs)
  BY <1>0, <1>1 DEF Core, DrainsAlone
<1>4. JobsDistinct(jobQueue, gs) /\ WaitingIn(gs) \subseteq WaitingIn(fs)
  BY <1>0, <1>1, BatchesKept DEF Core, WaitingIn
<1>5. \A p \in Promise : \A d : d \in DecidingGetters(gs, p) <=> d \in DecidingGetters(fs, p) /\ d <= k
  BY <1>0, <1>1 DEF DecidingGetters
<1>6. ASSUME \A d \in (k + 1)..Len(fs) : fs[d].jobs = <<>>
      PROVE  WaitingIn(fs) \subseteq WaitingIn(gs)
  <2>1. \A d \in 1..Len(fs) : fs[d].jobs = <<>> \/ (d <= Len(gs) /\ gs[d].jobs = fs[d].jobs)
    BY <1>0, <1>1, <1>6
  <2> QED
    BY ONLY <1>0, <1>1, <2>1, WaitingKept DEF WaitingIn
<1>7. Core(gs)
  BY <1>2, <1>3, <1>4, CoreMoves
<1> QED
  BY <1>1, <1>4, <1>5, <1>6, <1>7

\* Frames that hold no job and read no then property are popped; after an
\* interrupt, any.
LEMMA Truncate ==
    ASSUME NEW fs, Inv(fs), NEW k \in 0..Len(fs),
           NEW gs \in Seq(FrameRecord), Len(gs) = k, \A d \in 1..k : gs[d] = fs[d],
           interrupts > 0 \/ \A d \in (k + 1)..Len(fs) : fs[d].jobs = <<>> /\ fs[d].kind # "getter"
    PROVE  Inv(gs) /\ WaitingIn(gs) \subseteq WaitingIn(fs)
<1>0. fs \in Seq(FrameRecord) /\ Len(fs) \in Nat /\ k \in Nat /\ Core(fs)
  BY LenProperties DEF Inv, Core, FramesOK
<1>1. /\ Core(gs) /\ WaitingIn(gs) \subseteq WaitingIn(fs)
      /\ (\A d \in (k + 1)..Len(fs) : fs[d].jobs = <<>>) => WaitingIn(fs) \subseteq WaitingIn(gs)
      /\ \A p \in Promise : \A d : d \in DecidingGetters(gs, p) <=> d \in DecidingGetters(fs, p) /\ d <= k
  BY <1>0, TruncateCore
<1>2. ASSUME ~(interrupts > 0) PROVE \A p \in Promise : DecidingGetters(gs, p) = DecidingGetters(fs, p)
  <2>1. \A d \in (k + 1)..Len(fs) : fs[d].kind # "getter"
    BY <1>2
  <2>2. \A p \in Promise : \A d \in DecidingGetters(fs, p) : d <= k
    BY <1>0, <2>1 DEF DecidingGetters
  <2> QED
    BY <1>1, <2>2
<1>3. FramesOK(gs) /\ DrainsAlone(gs) /\ JobsDistinct(jobQueue, gs)
  BY <1>1 DEF Core
<1>4. \A p \in Promise : DecidingGetters(gs, p) \subseteq DecidingGetters(fs, p)
  BY <1>1
<1>5. interrupts > 0 \/ (\A j \in WaitingIn(fs) : j.kind = "thenable" => j \in WaitingIn(gs))
  BY <1>1
<1> QED
  BY <1>1, <1>2, <1>3, <1>4, <1>5, FramesMove

\* The frame on top changes, not what it is nor its batch nor its functions.
LEMMA SetTop ==
    ASSUME NEW fs, Inv(fs), fs # <<>>, NEW fr \in FrameRecord, FrameOK(fr),
           fr.kind = fs[Len(fs)].kind, fr.jobs = fs[Len(fs)].jobs, fr.fn = fs[Len(fs)].fn
    PROVE  Inv([fs EXCEPT ![Len(fs)] = fr])
<1> DEFINE gs == [fs EXCEPT ![Len(fs)] = fr]
<1>0. fs \in Seq(FrameRecord) /\ Len(fs) \in Nat \ {0}
  BY LenProperties, EmptySeq DEF Inv, Core, FramesOK
<1>1. /\ gs \in Seq(FrameRecord) /\ Len(gs) = Len(fs)
      /\ \A d \in 1..Len(fs) : gs[d] = IF d = Len(fs) THEN fr ELSE fs[d]
  BY <1>0, ExceptSeq
<1> HIDE DEF gs
<1>2. \A d \in 1..Len(fs) : gs[d].kind = fs[d].kind /\ gs[d].jobs = fs[d].jobs /\ gs[d].fn = fs[d].fn
  BY <1>0, <1>1
<1>3. FramesOK(gs)
  <2>1. gs[1].kind \in Entry
    BY <1>0, <1>1, <1>2 DEF Inv, Core, FramesOK
  <2>2. ASSUME NEW d \in 1..Len(gs)
        PROVE  /\ FrameOK(gs[d])
               /\ gs[d].kind = "drain" => d > 1 /\ gs[d - 1].kind \in Entry
    <3>1. FrameOK(gs[d])
      BY <1>0, <1>1 DEF Inv, Core, FramesOK
    <3>2. fs[d].kind = "drain" => d > 1 /\ fs[d - 1].kind \in Entry
      BY <1>0, <1>1 DEF Inv, Core, FramesOK
    <3> QED
      BY <1>0, <1>1, <1>2, <3>1, <3>2
  <2>3. ASSUME NEW d \in 1..Len(gs), NEW e \in 1..Len(gs), gs[d].kind = "program", gs[e].kind = "program"
        PROVE  d = e
    BY <1>0, <1>1, <1>2, <2>3 DEF Inv, Core, FramesOK
  <2> QED
    BY <1>1, <2>1, <2>2, <2>3 DEF FramesOK
<1>4. DrainsAlone(gs)
  BY <1>0, <1>1, <1>2 DEF Inv, Core, DrainsAlone
<1>5. JobsDistinct(jobQueue, gs) /\ WaitingIn(gs) \subseteq WaitingIn(fs)
  BY <1>0, <1>1, <1>2, BatchesKept DEF Inv, Core, WaitingIn
<1>6. WaitingIn(fs) \subseteq WaitingIn(gs)
  BY <1>0, <1>1, <1>2, WaitingKept DEF WaitingIn
<1>7. \A p \in Promise : DecidingGetters(gs, p) = DecidingGetters(fs, p)
  BY <1>0, <1>1, <1>2 DEF DecidingGetters
<1> QED
  BY <1>3, <1>4, <1>5, <1>6, <1>7, FramesMove DEF gs


\* The loop of leave() takes the next job of its batch: it waits no more.
LEMMA PopJob ==
    ASSUME NEW fs, Inv(fs), fs # <<>>, fs[Len(fs)].kind = "drain", fs[Len(fs)].jobs # <<>>,
           NEW j, j = Head(fs[Len(fs)].jobs),
           NEW gs, gs = [fs EXCEPT ![Len(fs)] = [fs[Len(fs)] EXCEPT !.jobs = Tail(fs[Len(fs)].jobs)]]
    PROVE  /\ FramesOK(gs) /\ DrainsAlone(gs) /\ JobsDistinct(jobQueue, gs) /\ gs # <<>>
           /\ \A p \in Promise : DecidingGetters(gs, p) = DecidingGetters(fs, p)
           /\ WaitingIn(gs) \subseteq WaitingIn(fs)
           /\ \A w \in WaitingIn(fs) : w = j \/ w \in WaitingIn(gs)
           /\ j \in WaitingIn(fs)
           /\ \A w \in WaitingIn(gs) : Key(w) # Key(j)
<1> DEFINE top == fs[Len(fs)]
           fr == [top EXCEPT !.jobs = Tail(top.jobs)]
           D == Len(fs)
<1>0. fs \in Seq(FrameRecord) /\ D \in Nat \ {0} /\ top \in FrameRecord
  <2>1. fs \in Seq(FrameRecord) /\ Len(fs) \in Nat \ {0}
    BY LenProperties, EmptySeq DEF Inv, Core, FramesOK
  <2> QED
    BY <2>1, ElementOfSeq
<1>1. /\ top.jobs \in Seq(JobRecord) /\ Len(top.jobs) \in Nat \ {0}
      /\ Tail(top.jobs) \in Seq(JobRecord) /\ Len(Tail(top.jobs)) = Len(top.jobs) - 1
      /\ \A n \in 1..Len(Tail(top.jobs)) : Tail(top.jobs)[n] = top.jobs[n + 1]
      /\ j = top.jobs[1]
  <2>1. top.jobs \in Seq(JobRecord) /\ top.jobs # <<>>
    BY <1>0 DEF FrameRecord
  <2>2. Len(top.jobs) \in Nat \ {0}
    BY <2>1, EmptySeq
  <2>3. j = top.jobs[1]
    BY <2>1, <2>2
  <2> QED
    BY <2>1, <2>2, <2>3, HeadTailProperties
<1>2. fr \in FrameRecord /\ fr.kind = "drain" /\ fr.jobs = Tail(top.jobs)
  BY <1>0, <1>1 DEF FrameRecord
<1>3. /\ gs \in Seq(FrameRecord) /\ Len(gs) = D
      /\ \A d \in 1..D : gs[d] = IF d = D THEN fr ELSE fs[d]
  BY <1>0, <1>2, ExceptSeq
<1>x. top.kind = "drain" /\ gs # <<>>
  BY <1>0, <1>3, EmptySeq
<1> HIDE DEF fr
<1>4. \A d \in 1..D : gs[d].kind = fs[d].kind
  BY <1>0, <1>2, <1>3, <1>x
<1>5. FramesOK(gs)
  <2>1. gs[1].kind \in Entry
    BY <1>0, <1>3, <1>4 DEF Inv, Core, FramesOK
  <2>2. ASSUME NEW d \in 1..Len(gs)
        PROVE  /\ FrameOK(gs[d])
               /\ gs[d].kind = "drain" => d > 1 /\ gs[d - 1].kind \in Entry
    <3>1. FrameOK(gs[d])
      <4>1. FrameOK(fr)
        BY <1>2 DEF FrameOK
      <4> QED
        BY <1>0, <1>3, <4>1 DEF Inv, Core, FramesOK
    <3>2. fs[d].kind = "drain" => d > 1 /\ fs[d - 1].kind \in Entry
      BY <1>0, <1>3 DEF Inv, Core, FramesOK
    <3> QED
      BY <1>0, <1>3, <1>4, <3>1, <3>2
  <2>3. ASSUME NEW d \in 1..Len(gs), NEW e \in 1..Len(gs), gs[d].kind = "program", gs[e].kind = "program"
        PROVE  d = e
    BY <1>0, <1>3, <1>4, <2>3 DEF Inv, Core, FramesOK
  <2> QED
    BY <1>3, <2>1, <2>2, <2>3 DEF FramesOK
<1>6. DrainsAlone(gs)
  BY <1>0, <1>3, <1>4 DEF Inv, Core, DrainsAlone
<1>7. \A p \in Promise : DecidingGetters(gs, p) = DecidingGetters(fs, p)
  <2>1. \A d \in 1..D : fs[d].kind = "getter" => gs[d] = fs[d]
    BY <1>0, <1>3, <1>x
  <2> QED
    BY <1>0, <1>3, <1>4, <2>1 DEF DecidingGetters
\* Each place of gs is a place of fs, and not the first one of the top batch.
<1> DEFINE B(d) == Batch(jobQueue, fs, d)
           C(d) == Batch(jobQueue, gs, d)
           At(d, n) == IF d = D THEN n + 1 ELSE n
<1>8. ASSUME NEW d \in 0..D, NEW n \in 1..Len(C(d))
      PROVE  At(d, n) \in 1..Len(B(d)) /\ C(d)[n] = B(d)[At(d, n)] /\ ~(d = D /\ At(d, n) = 1) /\ n \in Nat
  <2>1. CASE d = D
    <3>1. C(d) = Tail(top.jobs) /\ B(d) = top.jobs
      BY <1>0, <1>2, <1>3, <2>1 DEF Batch
    <3> QED
      BY <1>1, <2>1, <3>1
  <2>2. CASE d # D
    <3>1. C(d) = B(d)
      BY <1>0, <1>3, <2>2 DEF Batch
    <3> QED
      BY <2>2, <3>1
  <2> QED
    BY <2>1, <2>2
<1>9. B(D) = top.jobs /\ 1 \in 1..Len(B(D)) /\ D \in 0..Len(fs)
  BY <1>0, <1>1 DEF Batch
<1>10. JobsDistinct(jobQueue, fs)
  BY DEF Inv, Core
<1> HIDE DEF B, C, At
<1>11. JobsDistinct(jobQueue, gs)
  <2> SUFFICES ASSUME NEW d \in 0..D, NEW e \in 0..D, NEW m \in 1..Len(C(d)), NEW n \in 1..Len(C(e)),
                      Key(C(d)[m]) = Key(C(e)[n])
               PROVE  d = e /\ m = n
    BY <1>3 DEF JobsDistinct, C
  <2>1. /\ At(d, m) \in 1..Len(B(d)) /\ C(d)[m] = B(d)[At(d, m)] /\ m \in Nat
        /\ At(e, n) \in 1..Len(B(e)) /\ C(e)[n] = B(e)[At(e, n)] /\ n \in Nat
    BY <1>8
  <2>2. d = e /\ At(d, m) = At(e, n)
    BY <1>10, <2>1, KeyPlaces DEF B
  <2> QED
    BY <2>1, <2>2 DEF At
<1>12. ASSUME NEW w \in WaitingIn(gs)
       PROVE  \E d \in 0..D : \E n \in 1..Len(C(d)) : w = C(d)[n]
  <2>1. CASE \E n \in 1..Len(jobQueue) : w = jobQueue[n]
    <3>1. 0 \in 0..D /\ C(0) = jobQueue
      BY <1>0 DEF C, Batch
    <3> QED
      BY <2>1, <3>1
  <2>2. CASE \E d \in 1..Len(gs) : \E n \in 1..Len(gs[d].jobs) : w = gs[d].jobs[n]
    <3>1. PICK d \in 1..Len(gs) : \E n \in 1..Len(gs[d].jobs) : w = gs[d].jobs[n]
      BY <2>2
    <3>2. d \in 0..D /\ C(d) = gs[d].jobs
      BY <1>0, <1>3 DEF C, Batch
    <3> QED
      BY <3>1, <3>2
  <2>3. w \in Waiting(jobQueue, gs)
    BY DEF WaitingIn
  <2>4. \/ \E n \in 1..Len(jobQueue) : w = jobQueue[n]
        \/ \E d \in 1..Len(gs) : \E n \in 1..Len(gs[d].jobs) : w = gs[d].jobs[n]
    BY ONLY <2>3, WaitingPlaces
  <2> QED
    BY <2>1, <2>2, <2>4
<1>13. ASSUME NEW d \in 0..D, NEW n \in 1..Len(B(d)) PROVE B(d)[n] \in WaitingIn(fs)
  BY <1>0, WaitingPlaces DEF WaitingIn, B, Batch
<1>14. ASSUME NEW w \in WaitingIn(gs) PROVE w \in WaitingIn(fs) /\ Key(w) # Key(j)
  <2>1. PICK d \in 0..D : \E n \in 1..Len(C(d)) : w = C(d)[n]
    BY <1>12
  <2>2. PICK n \in 1..Len(C(d)) : w = C(d)[n]
    BY <2>1
  <2>3. At(d, n) \in 1..Len(B(d)) /\ w = B(d)[At(d, n)] /\ ~(d = D /\ At(d, n) = 1)
    BY <1>8, <2>2
  <2>4. w \in WaitingIn(fs)
    BY <1>13, <2>3
  <2>5. ASSUME Key(w) = Key(j) PROVE FALSE
    <3>1. Key(B(d)[At(d, n)]) = Key(B(D)[1])
      BY <1>1, <1>9, <2>3, <2>5
    <3>2. d = D /\ At(d, n) = 1
      BY <1>9, <1>10, <2>3, <3>1, KeyPlaces, SMTT(30) DEF B
    <3> QED
      BY <2>3, <3>2
  <2> QED
    BY <2>4, <2>5
<1>15. j \in WaitingIn(fs)
  BY <1>0, <1>1, <1>9, <1>13
<1>16. ASSUME NEW w \in WaitingIn(fs), w # j PROVE w \in WaitingIn(gs)
  <2>1. CASE \E n \in 1..Len(jobQueue) : w = jobQueue[n]
    BY <2>1, WaitingPlaces DEF WaitingIn
  <2>2. CASE \E d \in 1..Len(fs) : \E n \in 1..Len(fs[d].jobs) : w = fs[d].jobs[n]
    <3>1. PICK d \in 1..Len(fs) : \E n \in 1..Len(fs[d].jobs) : w = fs[d].jobs[n]
      BY <2>2
    <3>2. PICK n \in 1..Len(fs[d].jobs) : w = fs[d].jobs[n]
      BY <3>1
    <3>3. CASE d = D
      <4>1. n # 1 /\ n \in 1..Len(top.jobs)
        BY <1>1, <1>16, <3>2, <3>3
      <4>2. n - 1 \in 1..Len(Tail(top.jobs)) /\ Tail(top.jobs)[n - 1] = w
        BY <1>1, <3>2, <3>3, <4>1
      <4>3. gs[d].jobs = Tail(top.jobs) /\ d \in 1..Len(gs)
        BY <1>0, <1>2, <1>3, <3>3
      <4> QED
        BY <4>2, <4>3, WaitingPlaces DEF WaitingIn
    <3>4. CASE d # D
      <4>1. gs[d] = fs[d] /\ d \in 1..Len(gs)
        BY <1>0, <1>3, <3>4
      <4> QED
        BY <3>2, <4>1, WaitingPlaces DEF WaitingIn
    <3> QED
      BY <3>3, <3>4
  <2> QED
    BY <2>1, <2>2, WaitingPlaces DEF WaitingIn
<1> QED
  BY <1>x, <1>5, <1>6, <1>7, <1>11, <1>14, <1>15, <1>16
-----------------------------------------------------------------------------
(* Settling a promise, following a thenable, registering a reaction *)

\* What else such a step may do: move the frames, set flags of resolving
\* functions, and count reactions that wait no more as run.
FlagsGrow ==
    /\ alreadyResolved' \in [Fn -> BOOLEAN]
    /\ \A f \in Fn : alreadyResolved'[f] # alreadyResolved[f] => Usable(f)

\* A reaction number that a then, an await or a thenable job has given out.
Bounded(id) == id <= reactions \/ (id > MaxReactions /\ fnPromise[MaxPromises + (id - MaxReactions)] # 0)

\* Only reactions that were given out, and neither wait nor are registered, are added to ran.
RanGrows(fs) ==
    /\ resumed' \subseteq ran'
    /\ \A id \in ran' : \/ id \in ran
                        \/ /\ id \in 1..(MaxReactions + MaxThenables) /\ Bounded(id)
                           /\ id \notin QueuedIn(fs) /\ \A p \in Promise : id \notin Registered(p)

\* The reactions registered for a promise.
LEMMA ReactionsAre ==
    ASSUME TypeOK, NEW p \in Promise, NEW res \in {fulfillReactions[p], rejectReactions[p]}
    PROVE  /\ res \in Seq(Reaction) /\ Len(res) \in Nat
           /\ \A n \in 1..Len(res) : /\ res[n] \in Reaction /\ res[n].id \in Registered(p)
                                     /\ res[n].id \in 1..(MaxReactions + MaxThenables)
                                     /\ res[n] \in Elements(fulfillReactions[p]) \union Elements(rejectReactions[p])
<1>1. res \in Seq(Reaction)
  BY DEF TypeOK
<1>2. ASSUME NEW n \in 1..Len(res)
      PROVE /\ res[n] \in Reaction /\ res[n].id \in Registered(p)
            /\ res[n].id \in 1..(MaxReactions + MaxThenables)
            /\ res[n] \in Elements(fulfillReactions[p]) \union Elements(rejectReactions[p])
  <2>1. res[n] \in Reaction
    BY <1>1, ElementOfSeq
  <2>2. res[n] \in Elements(fulfillReactions[p]) \union Elements(rejectReactions[p])
    BY DEF Elements
  <2> QED
    BY <2>1, <2>2 DEF Registered, Reaction
<1> QED
  BY <1>1, <1>2, LenProperties

\* The job of a reaction.
LEMMA ReactionJobIs ==
    ASSUME NEW re \in Reaction, NEW ok \in BOOLEAN, NEW x \in {Primitive, AnObject}
    PROVE  /\ ReactionJob(re, ok, x) \in JobRecord
           /\ ReactionJob(re, ok, x).kind = "reaction" /\ ReactionJob(re, ok, x).reaction = re
           /\ Key(ReactionJob(re, ok, x)) = re.id
<1>1. x \in 0..(MaxPromises + 2)
  BY PromiseJobsAssumption DEF Primitive, AnObject
<1>2. ReactionJob(re, ok, x) = [kind |-> "reaction", reaction |-> re, ok |-> ok, arg |-> x, promise |-> 0, n |-> 0]
  BY DEF ReactionJob
<1> QED
  BY <1>1, <1>2, PromiseJobsAssumption DEF JobRecord, Key

\* triggerPromiseReactions makes one job for each reaction.
LEMMA JobsAre ==
    ASSUME NEW res \in Seq(Reaction), NEW ok \in BOOLEAN, NEW x \in {Primitive, AnObject}
    PROVE  /\ Jobs(res, ok, x) \in Seq(JobRecord) /\ Len(Jobs(res, ok, x)) = Len(res)
           /\ \A n \in 1..Len(res) : /\ Jobs(res, ok, x)[n].kind = "reaction"
                                     /\ Jobs(res, ok, x)[n].reaction = res[n]
                                     /\ Key(Jobs(res, ok, x)[n]) = res[n].id
<1> DEFINE js == Jobs(res, ok, x)
<1>1. \A n \in 1..Len(res) : js[n] = ReactionJob(res[n], ok, x) /\ res[n] \in Reaction
  BY ElementOfSeq DEF Jobs
<1>2. \A n \in 1..Len(res) : js[n] \in JobRecord /\ js[n].kind = "reaction" /\ js[n].reaction = res[n] /\ Key(js[n]) = res[n].id
  BY <1>1, ReactionJobIs
<1>3. js \in Seq(JobRecord) /\ Len(js) = Len(res)
  <2>1. js = [n \in 1..Len(res) |-> ReactionJob(res[n], ok, x)]
    BY DEF Jobs
  <2>2. Len(res) \in Nat
    BY LenProperties
  <2>3. \A n \in 1..Len(res) : ReactionJob(res[n], ok, x) \in JobRecord
    BY <1>1, <1>2
  <2> QED
    BY ONLY <2>1, <2>2, <2>3
<1> QED
  BY <1>2, <1>3

\* What makes no new pair leaves what is usable.
LEMMA PairsKept ==
    ASSUME NEW fs, FramesOK(fs), DrainsAlone(fs), fnPromise' = fnPromise, frames' = fs
    PROVE  /\ FramesOK(frames)' /\ DrainsAlone(frames)'
           /\ \A re : ReactionOK(re)' <=> ReactionOK(re)
           /\ \A f : Usable(f)' <=> Usable(f)
<1>1. \A f : Usable(f)' <=> Usable(f)
  BY DEF Usable
<1>2. \A re : ReactionOK(re)' <=> ReactionOK(re)
  BY <1>1 DEF ReactionOK
<1>3. \A fr : FrameOK(fr)' <=> FrameOK(fr)
  BY <1>1, <1>2 DEF FrameOK
<1>4. FramesOK(frames)'
  BY <1>3 DEF FramesOK
<1>5. DrainsAlone(frames)'
  BY DEF DrainsAlone
<1> QED
  BY <1>1, <1>2, <1>4, <1>5
\* A pending promise is settled: each of its reactions of one type becomes a job,
\* the others are dropped.
LEMMA SettleCore ==
    ASSUME NEW fs, Core(fs), NEW p \in Promise, state[p] = "pending", NEW st \in Settled,
           NEW res \in {fulfillReactions[p], rejectReactions[p]}, NEW ok \in BOOLEAN,
           NEW x \in {Primitive, AnObject},
           state' = [state EXCEPT ![p] = st], result' = [result EXCEPT ![p] = x],
           jobQueue' = jobQueue \o Jobs(res, ok, x),
           fulfillReactions' = [fulfillReactions EXCEPT ![p] = <<>>],
           rejectReactions' = [rejectReactions EXCEPT ![p] = <<>>],
           unhandled' = IF st = "rejected" /\ ~handled[p] THEN unhandled \union {p} ELSE unhandled,
           UNCHANGED <<handled, thenables, fnPromise, fnHeld, reactions, interrupted, interrupts>>,
           frames' = fs, FlagsGrow, RanGrows(fs)
    PROVE  /\ Core(frames)'
           /\ \A j : j.kind = "thenable" => (j \in WaitingIn(frames)' <=> j \in WaitingIn(fs))
<1> DEFINE js == Jobs(res, ok, x)
<1>0. TypeOK /\ fs \in Seq(FrameRecord) /\ jobQueue \in Seq(JobRecord)
  BY DEF Core, TypeOK, FramesOK
<1>1. /\ res \in Seq(Reaction) /\ Len(res) \in Nat
      /\ \A n \in 1..Len(res) : /\ res[n] \in Reaction /\ res[n].id \in Registered(p)
                                /\ res[n].id \in 1..(MaxReactions + MaxThenables)
                                /\ res[n] \in Elements(fulfillReactions[p]) \union Elements(rejectReactions[p])
  BY <1>0, ReactionsAre
<1>2. /\ js \in Seq(JobRecord) /\ Len(js) = Len(res)
      /\ \A n \in 1..Len(res) : js[n].kind = "reaction" /\ js[n].reaction = res[n] /\ Key(js[n]) = res[n].id
  BY <1>1, JobsAre
<1>3. jobQueue' = jobQueue \o js
  OBVIOUS
<1> HIDE DEF js
<1>4. ASSUME NEW m \in 1..Len(js), NEW n \in 1..Len(js), Key(js[m]) = Key(js[n]) PROVE m = n
  BY <1>1, <1>2, <1>4, SMTT(30) DEF Core, ReactionsApart
<1>5. ASSUME NEW m \in 1..Len(js), NEW j \in WaitingIn(fs) PROVE Key(js[m]) # Key(j)
  <2>1. JobOK(j)
    BY DEF Core, JobsOK
  <2>2. Key(js[m]) = res[m].id /\ res[m].id \in 1..(MaxReactions + MaxThenables) /\ res[m].id \in Registered(p)
    BY <1>1, <1>2
  <2>3. CASE j.kind = "reaction"
    <3>1. j.reaction.id \in QueuedIn(fs) /\ Key(j) = j.reaction.id
      BY <2>3 DEF QueuedIn, Key
    <3> QED
      BY <2>2, <3>1 DEF Core, RunsOnce
  <2>4. CASE j.kind = "thenable"
    <3>1. Key(j) = MaxReactions + MaxThenables + j.n /\ j.n \in 1..MaxThenables
      BY <1>0, <2>1, <2>4, PromiseJobsAssumption DEF JobOK, Key, TypeOK
    <3> QED
      BY <2>2, <3>1, PromiseJobsAssumption
  <2> QED
    BY <2>1, <2>3, <2>4 DEF JobOK
<1>6. /\ jobQueue' \in Seq(JobRecord) /\ JobsDistinct(jobQueue', fs)
      /\ \A j : j \in Waiting(jobQueue', fs) <=> j \in WaitingIn(fs) \/ \E m \in 1..Len(js) : j = js[m]
  <2>1. JobsDistinct(jobQueue, fs)
    BY DEF Core
  <2>2. \A m \in 1..Len(js) : \A j \in Waiting(jobQueue, fs) : Key(js[m]) # Key(j)
    BY <1>5 DEF WaitingIn
  <2>3. /\ jobQueue \o js \in Seq(JobRecord) /\ JobsDistinct(jobQueue \o js, fs)
        /\ \A j : j \in Waiting(jobQueue \o js, fs) <=> j \in Waiting(jobQueue, fs) \/ \E m \in 1..Len(js) : j = js[m]
    BY <1>0, <1>2, <1>4, <2>1, <2>2, QueueGrows
  <2> QED
    BY <1>3, <2>3 DEF WaitingIn
<1>7. \A j : j \in WaitingIn(frames)' <=> j \in WaitingIn(fs) \/ \E m \in 1..Len(js) : j = js[m]
  BY <1>6 DEF WaitingIn
<1>8. /\ FramesOK(frames)' /\ DrainsAlone(frames)'
      /\ \A re : ReactionOK(re)' <=> ReactionOK(re)
      /\ \A f : Usable(f)' <=> Usable(f)
  BY PairsKept DEF Core
<1>9. /\ \A q \in Promise : state'[q] = IF q = p THEN st ELSE state[q]
      /\ Made' = Made /\ p \in Made
  BY <1>0 DEF TypeOK, Made, Settled
<1>10. \A q \in Promise : /\ fulfillReactions'[q] = IF q = p THEN <<>> ELSE fulfillReactions[q]
                          /\ rejectReactions'[q] = IF q = p THEN <<>> ELSE rejectReactions[q]
  BY <1>0 DEF TypeOK
<1>11. Elements(<<>>) = {} /\ Len(<<>>) = 0
  BY EmptySeq DEF Elements
<1>12. Registered(p)' = {} /\ \A q \in Promise : q # p => Registered(q)' = Registered(q)
  BY <1>10, <1>11 DEF Registered
<1>13. QueuedIn(frames)' \subseteq QueuedIn(fs) \union Registered(p)
  <2> SUFFICES ASSUME NEW j, j \in WaitingIn(frames)', j.kind = "reaction"
               PROVE  j.reaction.id \in QueuedIn(fs) \union Registered(p)
    BY DEF QueuedIn
  <2>1. CASE j \in WaitingIn(fs)
    BY <2>1 DEF QueuedIn
  <2>2. CASE \E m \in 1..Len(js) : j = js[m]
    BY <1>1, <1>2, <2>2
  <2> QED
    BY <1>7, <2>1, <2>2
<1>14. TypeOK'
  <2>1. state' \in [Promise -> {"none", "pending"} \union Settled] /\ result' \in [Promise -> {Primitive, AnObject}]
    BY <1>0 DEF TypeOK
  <2>2. fulfillReactions' \in [Promise -> Seq(Reaction)] /\ rejectReactions' \in [Promise -> Seq(Reaction)]
    BY <1>0, EmptySeq DEF TypeOK
  <2>3. unhandled' \subseteq Promise
    BY <1>0 DEF TypeOK
  <2>4. resumed' \subseteq ran' /\ ran' \subseteq 1..(MaxReactions + MaxThenables)
    BY <1>0 DEF TypeOK, RanGrows
  <2>5. alreadyResolved' \in [Fn -> BOOLEAN]
    BY DEF FlagsGrow
  <2> QED
    BY <1>0, <1>6, <2>1, <2>2, <2>3, <2>4, <2>5 DEF TypeOK, Promise, Fn, Primitive, AnObject, Reaction, JobRecord, Settled, NoReaction
<1>15. JobsOK(frames)'
  <2>1. ASSUME NEW q \in Promise,
               NEW re \in Elements(fulfillReactions'[q]) \union Elements(rejectReactions'[q])
        PROVE  ReactionOK(re)'
    <3>1. re \in Elements(fulfillReactions[q]) \union Elements(rejectReactions[q])
      BY <1>10, <1>11
    <3> QED
      BY <1>8, <3>1 DEF Core, JobsOK
  <2>2. ASSUME NEW j, j \in WaitingIn(frames)' PROVE JobOK(j)'
    <3>1. CASE j \in WaitingIn(fs)
      <4>1. JobOK(j)
        BY <3>1 DEF Core, JobsOK
      <4> QED
        BY <1>8, <1>9, <4>1 DEF JobOK
    <3>2. CASE \E m \in 1..Len(js) : j = js[m]
      <4>1. PICK m \in 1..Len(js) : j = js[m]
        BY <3>2
      <4>2. ReactionOK(res[m])
        BY <1>1, <1>2 DEF Core, JobsOK
      <4> QED
        BY <1>1, <1>2, <1>8, <4>1, <4>2 DEF JobOK
    <3> QED
      BY <1>7, <2>2, <3>1, <3>2
  <2> QED
    BY <2>1, <2>2 DEF JobsOK, Promise
<1>16. \A j : j.kind = "thenable" => (j \in WaitingIn(frames)' <=> j \in WaitingIn(fs))
  BY <1>2, <1>7
<1>17. PairsOK(frames)'
  <2>1. \A q \in Promise : fnPromise'[q] = IF state'[q] = "none" THEN 0 ELSE q
    BY <1>9 DEF Core, PairsOK, Settled
  <2>2. ASSUME NEW f \in Fn
        PROVE  IF fnPromise'[f] = 0 THEN ~alreadyResolved'[f] /\ ~fnHeld'[f] ELSE fnPromise'[f] \in Made'
    <3>1. CASE fnPromise[f] = 0
      <4>1. ~alreadyResolved[f] /\ ~fnHeld[f]
        BY <3>1 DEF Core, PairsOK
      <4>2. ~Usable(f)
        BY <3>1 DEF Usable
      <4> QED
        BY <3>1, <4>1, <4>2 DEF FlagsGrow
    <3>2. CASE fnPromise[f] # 0
      BY <1>9, <3>2 DEF Core, PairsOK
    <3> QED
      BY <3>1, <3>2
  <2>3. \A n \in (thenables' + 1)..MaxThenables : fnPromise'[MaxPromises + n] = 0
    BY DEF Core, PairsOK
  <2>4. \A j : j \in WaitingIn(frames)' /\ j.kind = "thenable" => fnPromise'[MaxPromises + j.n] = 0
    BY <1>16 DEF Core, PairsOK
  <2> QED
    BY <2>1, <2>2, <2>3, <2>4 DEF PairsOK, Promise, Fn
<1>18. ReactionsApart(frames)'
  <2>1. ASSUME NEW id, id \in (UNION {Registered(q)' : q \in Promise}) \union QueuedIn(frames)' \union ran'
        PROVE  Bounded(id)
    <3>1. id \in (UNION {Registered(q) : q \in Promise}) \union QueuedIn(fs) \union ran \/ Bounded(id)
      BY <1>12, <1>13, <2>1 DEF RanGrows
    <3> QED
      BY <3>1 DEF Core, ReactionsApart, Bounded
  <2>2. \A q, r \in Promise : q # r => Registered(q)' \intersect Registered(r)' = {}
    BY <1>12 DEF Core, ReactionsApart
  <2>3. \A q \in Promise : \A rs \in {fulfillReactions'[q], rejectReactions'[q]} :
          \A m, n \in 1..Len(rs) : rs[m].id = rs[n].id => m = n
    BY <1>10, <1>11 DEF Core, ReactionsApart
  <2> QED
    BY <2>1, <2>2, <2>3 DEF ReactionsApart, Bounded, Promise
<1>19. RunsOnce(frames)'
  <2>1. \A id \in ran' : id \in ran \/ (id \notin QueuedIn(fs) /\ \A q \in Promise : id \notin Registered(q))
    BY DEF RanGrows
  <2>2. QueuedIn(frames)' \intersect ran' = {}
    BY <1>13, <2>1 DEF Core, RunsOnce
  <2>3. ASSUME NEW q \in Promise PROVE Registered(q)' \intersect (QueuedIn(frames)' \union ran') = {}
    BY <1>12, <1>13, <2>1 DEF Core, RunsOnce, ReactionsApart
  <2>4. \A q \in Promise : state'[q] \in Settled => Registered(q)' = {}
    BY <1>9, <1>12 DEF Core, RunsOnce
  <2> QED
    BY <2>2, <2>3, <2>4 DEF RunsOnce, Promise, Settled
<1>20. TrackerAgrees'
  BY <1>9, <1>0 DEF Core, TrackerAgrees, Settled, TypeOK, Promise
<1>21. JobsDistinct(jobQueue, frames)'
  BY <1>6
<1> QED
  BY <1>8, <1>14, <1>15, <1>16, <1>17, <1>18, <1>19, <1>20, <1>21 DEF Core
\* The job that follows a thenable.
LEMMA ThenableJobIs ==
    ASSUME TypeOK, thenables < MaxThenables, NEW p \in Promise, NEW x \in Promise \union {AnObject}
    PROVE  /\ ThenableJob(p, x, thenables + 1) \in JobRecord
           /\ ThenableJob(p, x, thenables + 1).kind = "thenable" /\ ThenableJob(p, x, thenables + 1).promise = p
           /\ ThenableJob(p, x, thenables + 1).arg = x /\ ThenableJob(p, x, thenables + 1).n = thenables + 1
           /\ Key(ThenableJob(p, x, thenables + 1)) = MaxReactions + MaxThenables + thenables + 1
<1>1. x \in 0..(MaxPromises + 2) /\ p \in 0..MaxPromises /\ thenables + 1 \in 0..MaxThenables
  BY PromiseJobsAssumption DEF Primitive, AnObject, Promise, TypeOK
<1>2. Key(ThenableJob(p, x, thenables + 1)) = MaxReactions + MaxThenables + (thenables + 1)
  BY DEF ThenableJob, Key
<1>3. thenables \in Nat
  BY PromiseJobsAssumption DEF TypeOK
<1> QED
  BY <1>1, <1>2, <1>3, PromiseJobsAssumption DEF JobRecord, ThenableJob

\* The reactions that waiting jobs run have the type of reactions.
LEMMA QueuedType ==
    ASSUME NEW fs, Core(fs)
    PROVE  QueuedIn(fs) \subseteq 1..(MaxReactions + MaxThenables)
<1> SUFFICES ASSUME NEW j \in WaitingIn(fs), j.kind = "reaction" PROVE j.reaction.id \in 1..(MaxReactions + MaxThenables)
  BY DEF QueuedIn
<1>1. j.reaction \in Reaction
  BY DEF Core, JobsOK, JobOK
<1> QED
  BY <1>1 DEF Reaction

\* A promise is to follow a thenable: a job for it is enqueued.
LEMMA EnqueueCore ==
    ASSUME NEW fs, Core(fs), NEW p \in Made, NEW x \in Made \union {AnObject},
           enqueueThenable(p, x),
           UNCHANGED <<fnPromise, fnHeld, reactions, interrupted, interrupts>>,
           frames' = fs, FlagsGrow, RanGrows(fs)
    PROVE  /\ Core(frames)'
           /\ WaitingIn(frames)' = WaitingIn(fs) \union {ThenableJob(p, x, thenables + 1)}
<1> DEFINE nj == ThenableJob(p, x, thenables + 1)
<1>0. TypeOK /\ fs \in Seq(FrameRecord) /\ jobQueue \in Seq(JobRecord) /\ p \in Promise /\ x \in Promise \union {AnObject}
      /\ thenables < MaxThenables /\ thenables' = thenables + 1
  BY DEF Core, TypeOK, FramesOK, Made, enqueueThenable
<1>1. /\ nj \in JobRecord /\ nj.kind = "thenable" /\ nj.promise = p /\ nj.arg = x /\ nj.n = thenables + 1
      /\ Key(nj) = MaxReactions + MaxThenables + thenables + 1
  BY <1>0, ThenableJobIs
<1>2. jobQueue' = Append(jobQueue, nj)
  BY DEF enqueueThenable
<1>3. UNCHANGED <<state, result, handled, fulfillReactions, rejectReactions, unhandled>>
  BY DEF enqueueThenable
<1> HIDE DEF nj
<1>4. ASSUME NEW j \in WaitingIn(fs) PROVE Key(nj) # Key(j)
  <2>1. JobOK(j)
    BY DEF Core, JobsOK
  <2>2. thenables \in Nat
    BY <1>0, PromiseJobsAssumption DEF TypeOK
  <2>3. CASE j.kind = "reaction"
    <3>1. j.reaction.id \in QueuedIn(fs) /\ Key(j) = j.reaction.id
      BY <2>3 DEF QueuedIn, Key
    <3> QED
      BY <1>1, <2>2, <3>1, QueuedType, PromiseJobsAssumption
  <2>4. CASE j.kind = "thenable"
    <3>1. Key(j) = MaxReactions + MaxThenables + j.n /\ j.n \in 1..thenables
      BY <2>1, <2>4 DEF JobOK, Key
    <3> QED
      BY <1>1, <2>2, <3>1, PromiseJobsAssumption
  <2> QED
    BY <2>1, <2>3, <2>4 DEF JobOK
<1>5. /\ jobQueue' \in Seq(JobRecord) /\ JobsDistinct(jobQueue', fs)
      /\ Waiting(jobQueue', fs) = WaitingIn(fs) \union {nj}
  <2>1. JobsDistinct(jobQueue, fs)
    BY DEF Core
  <2>2. \A j \in Waiting(jobQueue, fs) : Key(nj) # Key(j)
    BY <1>4 DEF WaitingIn
  <2>3. /\ Append(jobQueue, nj) \in Seq(JobRecord) /\ JobsDistinct(Append(jobQueue, nj), fs)
        /\ Waiting(Append(jobQueue, nj), fs) = Waiting(jobQueue, fs) \union {nj}
    BY <1>0, <1>1, <2>1, <2>2, QueueAppends
  <2> QED
    BY <1>2, <2>3 DEF WaitingIn
<1>6. WaitingIn(frames)' = WaitingIn(fs) \union {nj}
  BY <1>5 DEF WaitingIn
<1>7. /\ FramesOK(frames)' /\ DrainsAlone(frames)'
      /\ \A re : ReactionOK(re)' <=> ReactionOK(re)
      /\ \A f : Usable(f)' <=> Usable(f)
  BY PairsKept DEF Core
<1>8. Made' = Made /\ \A q \in Promise : Registered(q)' = Registered(q)
  BY <1>3 DEF Made, Registered
<1>9. QueuedIn(frames)' = QueuedIn(fs)
  <2>1. {w \in WaitingIn(frames)' : w.kind = "reaction"} = {w \in WaitingIn(fs) : w.kind = "reaction"}
    BY <1>1, <1>6
  <2> QED
    BY <2>1 DEF QueuedIn
<1>10. TypeOK'
  <2>1. thenables' \in 0..MaxThenables
    BY <1>0, PromiseJobsAssumption DEF TypeOK
  <2>2. resumed' \subseteq ran' /\ ran' \subseteq 1..(MaxReactions + MaxThenables)
    BY <1>0 DEF TypeOK, RanGrows
  <2>3. alreadyResolved' \in [Fn -> BOOLEAN]
    BY DEF FlagsGrow
  <2> QED
    BY <1>0, <1>3, <1>5, <2>1, <2>2, <2>3 DEF TypeOK, Promise, Fn, Primitive, AnObject, Reaction, JobRecord, Settled, NoReaction
<1>11. JobsOK(frames)'
  <2>1. ASSUME NEW q \in Promise,
               NEW re \in Elements(fulfillReactions'[q]) \union Elements(rejectReactions'[q])
        PROVE  ReactionOK(re)'
    BY <1>3, <1>7 DEF Core, JobsOK
  <2>2. ASSUME NEW j, j \in WaitingIn(frames)' PROVE JobOK(j)'
    <3>0. thenables \in Nat
      BY <1>0, PromiseJobsAssumption DEF TypeOK
    <3>1. CASE j \in WaitingIn(fs)
      <4>1. JobOK(j)
        BY <3>1 DEF Core, JobsOK
      <4>2. CASE j.kind = "reaction"
        BY <1>7, <4>1, <4>2 DEF JobOK
      <4>3. CASE j.kind = "thenable"
        <5>1. j.n \in 1..thenables'
          BY <1>0, <3>0, <4>1, <4>3 DEF JobOK
        <5> QED
          BY <1>8, <4>1, <4>3, <5>1 DEF JobOK, AnObject
      <4> QED
        BY <4>1, <4>2, <4>3 DEF JobOK
    <3>2. CASE j = nj
      <4>1. j.n \in 1..thenables'
        BY <1>0, <1>1, <3>0, <3>2
      <4> QED
        BY <1>1, <1>8, <3>2, <4>1 DEF JobOK, AnObject
    <3> QED
      BY <1>6, <2>2, <3>1, <3>2
  <2> QED
    BY <2>1, <2>2 DEF JobsOK, Promise
<1>12. PairsOK(frames)'
  <2>1. \A q \in Promise : fnPromise'[q] = IF state'[q] = "none" THEN 0 ELSE q
    BY <1>3 DEF Core, PairsOK
  <2>2. ASSUME NEW f \in Fn
        PROVE  IF fnPromise'[f] = 0 THEN ~alreadyResolved'[f] /\ ~fnHeld'[f] ELSE fnPromise'[f] \in Made'
    <3>1. CASE fnPromise[f] = 0
      <4>1. ~alreadyResolved[f] /\ ~fnHeld[f]
        BY <3>1 DEF Core, PairsOK
      <4>2. ~Usable(f)
        BY <3>1 DEF Usable
      <4> QED
        BY <3>1, <4>1, <4>2 DEF FlagsGrow
    <3>2. CASE fnPromise[f] # 0
      BY <1>8, <3>2 DEF Core, PairsOK
    <3> QED
      BY <3>1, <3>2
  <2>3. \A n \in (thenables + 1)..MaxThenables : fnPromise[MaxPromises + n] = 0
    BY DEF Core, PairsOK
  <2>4. thenables \in Nat /\ thenables + 1 \in (thenables + 1)..MaxThenables
    BY <1>0, PromiseJobsAssumption DEF TypeOK
  <2>5. \A n \in (thenables' + 1)..MaxThenables : fnPromise'[MaxPromises + n] = 0
    BY <1>0, <2>3, <2>4
  <2>6. \A j : j \in WaitingIn(frames)' /\ j.kind = "thenable" => fnPromise'[MaxPromises + j.n] = 0
    BY <1>1, <1>6, <2>3, <2>4 DEF Core, PairsOK
  <2> QED
    BY <2>1, <2>2, <2>5, <2>6 DEF PairsOK, Promise, Fn
<1>13. ReactionsApart(frames)'
  <2>1. ASSUME NEW id, id \in (UNION {Registered(q)' : q \in Promise}) \union QueuedIn(frames)' \union ran'
        PROVE  Bounded(id)
    <3>1. id \in (UNION {Registered(q) : q \in Promise}) \union QueuedIn(fs) \union ran \/ Bounded(id)
      BY <1>8, <1>9, <2>1 DEF RanGrows
    <3> QED
      BY <3>1 DEF Core, ReactionsApart, Bounded
  <2>2. \A q, r \in Promise : q # r => Registered(q)' \intersect Registered(r)' = {}
    BY <1>8 DEF Core, ReactionsApart
  <2>3. \A q \in Promise : \A rs \in {fulfillReactions'[q], rejectReactions'[q]} :
          \A m, n \in 1..Len(rs) : rs[m].id = rs[n].id => m = n
    BY <1>3 DEF Core, ReactionsApart
  <2> QED
    BY <2>1, <2>2, <2>3 DEF ReactionsApart, Bounded, Promise
<1>14. RunsOnce(frames)'
  <2>1. \A id \in ran' : id \in ran \/ (id \notin QueuedIn(fs) /\ \A q \in Promise : id \notin Registered(q))
    BY DEF RanGrows
  <2> QED
    BY <1>3, <1>8, <1>9, <2>1 DEF Core, RunsOnce, Promise, Settled
<1>15. TrackerAgrees'
  BY <1>3 DEF Core, TrackerAgrees, Promise
<1>16. JobsDistinct(jobQueue, frames)'
  BY <1>5
<1> QED
  BY <1>6, <1>7, <1>10, <1>11, <1>12, <1>13, <1>14, <1>15, <1>16 DEF Core, nj
\* An element is added to a sequence of reactions.
LEMMA AppendedReaction ==
    ASSUME NEW res \in Seq(Reaction), NEW re \in Reaction,
           \A m, n \in 1..Len(res) : res[m].id = res[n].id => m = n,
           \A n \in 1..Len(res) : res[n].id # re.id
    PROVE  /\ Append(res, re) \in Seq(Reaction)
           /\ Elements(Append(res, re)) = Elements(res) \union {re}
           /\ \A m, n \in 1..Len(Append(res, re)) : Append(res, re)[m].id = Append(res, re)[n].id => m = n
<1> DEFINE rs == Append(res, re)
<1>1. /\ rs \in Seq(Reaction) /\ Len(rs) = Len(res) + 1 /\ Len(res) \in Nat
      /\ \A n \in 1..Len(res) : rs[n] = res[n]
      /\ rs[Len(res) + 1] = re
  BY AppendProperties, LenProperties
<1> HIDE DEF rs
<1>2. \A n \in 1..Len(rs) : n \in 1..Len(res) \/ n = Len(res) + 1
  BY <1>1
<1>3. Len(res) + 1 \in 1..Len(rs) /\ \A n \in 1..Len(res) : n \in 1..Len(rs)
  BY <1>1
<1>4. Elements(rs) = Elements(res) \union {re}
  <2>1. \A y \in Elements(rs) : y \in Elements(res) \union {re}
    BY <1>1, <1>2 DEF Elements
  <2>2. \A y \in Elements(res) \union {re} : y \in Elements(rs)
    BY <1>1, <1>3 DEF Elements
  <2> QED
    BY <2>1, <2>2
<1>5. ASSUME NEW m \in 1..Len(rs), NEW n \in 1..Len(rs), rs[m].id = rs[n].id PROVE m = n
  BY <1>1, <1>2, <1>5
<1> QED
  BY <1>1, <1>4, <1>5 DEF rs

\* addReactions puts the reactions of a new number with the promise, or the job of
\* one of them in the queue.
LEMMA AddPlaces ==
    ASSUME NEW fs, Core(fs), NEW r \in Made, NEW fr \in Reaction, NEW rr \in Reaction, fr.id = rr.id,
           fr.id \notin QueuedIn(fs), \A q \in Promise : fr.id \notin Registered(q),
           addReactions(r, fr, rr), frames' = fs
    PROVE  /\ jobQueue' \in Seq(JobRecord) /\ JobsDistinct(jobQueue', fs)
           /\ fulfillReactions' \in [Promise -> Seq(Reaction)] /\ rejectReactions' \in [Promise -> Seq(Reaction)]
           /\ \A j \in WaitingIn(fs) : j \in WaitingIn(frames)'
           /\ \A j : j \in WaitingIn(frames)' => j \in WaitingIn(fs) \/ (j.kind = "reaction" /\ j.reaction \in {fr, rr})
           /\ \A q \in Promise :
                /\ Elements(fulfillReactions'[q]) \subseteq Elements(fulfillReactions[q]) \union {fr}
                /\ Elements(rejectReactions'[q]) \subseteq Elements(rejectReactions[q]) \union {rr}
                /\ q # r \/ state[q] # "pending" => Registered(q)' = Registered(q)
           /\ \A q \in Promise : \A rs \in {fulfillReactions'[q], rejectReactions'[q]} :
                \A m, n \in 1..Len(rs) : rs[m].id = rs[n].id => m = n
           /\ state[r] = "pending" => WaitingIn(frames)' = WaitingIn(fs)
<1>0. /\ TypeOK /\ fs \in Seq(FrameRecord) /\ jobQueue \in Seq(JobRecord) /\ r \in Promise
      /\ JobsDistinct(jobQueue, fs)
  BY DEF Core, TypeOK, FramesOK, Made
<1>1. \A q \in Promise : \A rs \in {fulfillReactions[q], rejectReactions[q]} :
         \A m, n \in 1..Len(rs) : rs[m].id = rs[n].id => m = n
  BY DEF Core, ReactionsApart
<1>2. CASE state[r] = "pending"
  <2>0. UNCHANGED jobQueue
    BY <1>2 DEF addReactions
  <2>1. WaitingIn(frames)' = WaitingIn(fs)
    BY <2>0 DEF WaitingIn
  <2>2. /\ fulfillReactions' = [fulfillReactions EXCEPT ![r] = Append(fulfillReactions[r], fr)]
        /\ rejectReactions' = [rejectReactions EXCEPT ![r] = Append(rejectReactions[r], rr)]
    BY <1>2 DEF addReactions
  <2>3. /\ fulfillReactions[r] \in Seq(Reaction) /\ rejectReactions[r] \in Seq(Reaction)
        /\ \A n \in 1..Len(fulfillReactions[r]) : fulfillReactions[r][n].id # fr.id
        /\ \A n \in 1..Len(rejectReactions[r]) : rejectReactions[r][n].id # rr.id
    BY <1>0, ReactionsAre
  <2>4. /\ Append(fulfillReactions[r], fr) \in Seq(Reaction)
        /\ Elements(Append(fulfillReactions[r], fr)) = Elements(fulfillReactions[r]) \union {fr}
        /\ \A m, n \in 1..Len(Append(fulfillReactions[r], fr)) :
             Append(fulfillReactions[r], fr)[m].id = Append(fulfillReactions[r], fr)[n].id => m = n
    BY <1>0, <1>1, <2>3, AppendedReaction
  <2>5. /\ Append(rejectReactions[r], rr) \in Seq(Reaction)
        /\ Elements(Append(rejectReactions[r], rr)) = Elements(rejectReactions[r]) \union {rr}
        /\ \A m, n \in 1..Len(Append(rejectReactions[r], rr)) :
             Append(rejectReactions[r], rr)[m].id = Append(rejectReactions[r], rr)[n].id => m = n
    BY <1>0, <1>1, <2>3, AppendedReaction
  <2>6. \A q \in Promise : /\ fulfillReactions'[q] = IF q = r THEN Append(fulfillReactions[r], fr) ELSE fulfillReactions[q]
                           /\ rejectReactions'[q] = IF q = r THEN Append(rejectReactions[r], rr) ELSE rejectReactions[q]
    BY <1>0, <2>2 DEF TypeOK
  <2>7. fulfillReactions' \in [Promise -> Seq(Reaction)] /\ rejectReactions' \in [Promise -> Seq(Reaction)]
    BY <1>0, <2>2, <2>4, <2>5 DEF TypeOK
  <2>8. \A q \in Promise :
           /\ Elements(fulfillReactions'[q]) \subseteq Elements(fulfillReactions[q]) \union {fr}
           /\ Elements(rejectReactions'[q]) \subseteq Elements(rejectReactions[q]) \union {rr}
    BY <2>4, <2>5, <2>6
  <2>9. \A q \in Promise : \A rs \in {fulfillReactions'[q], rejectReactions'[q]} :
           \A m, n \in 1..Len(rs) : rs[m].id = rs[n].id => m = n
    <3>1. ASSUME NEW q \in Promise, q # r
          PROVE  \A rs \in {fulfillReactions'[q], rejectReactions'[q]} :
                   \A m, n \in 1..Len(rs) : rs[m].id = rs[n].id => m = n
      <4>1. fulfillReactions'[q] = fulfillReactions[q] /\ rejectReactions'[q] = rejectReactions[q]
        BY <2>6, <3>1
      <4> QED
        BY <1>1, <4>1
    <3>2. \A rs \in {fulfillReactions'[r], rejectReactions'[r]} :
             \A m, n \in 1..Len(rs) : rs[m].id = rs[n].id => m = n
      <4>1. fulfillReactions'[r] = Append(fulfillReactions[r], fr) /\ rejectReactions'[r] = Append(rejectReactions[r], rr)
        BY <1>0, <2>6
      <4> QED
        BY <2>4, <2>5, <4>1
    <3> QED
      BY <3>1, <3>2
  <2>10. \A q \in Promise : q # r \/ state[q] # "pending" => Registered(q)' = Registered(q)
    BY <1>2, <2>6 DEF Registered
  <2> QED
    BY <1>0, <2>0, <2>1, <2>7, <2>8, <2>9, <2>10
<1>3. CASE state[r] # "pending"
  <2>1. UNCHANGED <<fulfillReactions, rejectReactions>>
    BY <1>3 DEF addReactions
  <2>2. PICK re \in {fr, rr}, ok \in BOOLEAN : jobQueue' = Append(jobQueue, ReactionJob(re, ok, result[r]))
    BY <1>3 DEF addReactions
  <2> DEFINE nj == ReactionJob(re, ok, result[r])
  <2>3. nj \in JobRecord /\ nj.kind = "reaction" /\ nj.reaction = re /\ Key(nj) = re.id
    <3>1. re \in Reaction /\ result[r] \in {Primitive, AnObject}
      BY <1>0 DEF TypeOK
    <3> QED
      BY <3>1, ReactionJobIs
  <2>4. jobQueue' = Append(jobQueue, nj)
    BY <2>2
  <2>5. re.id = fr.id /\ re \in Reaction
    OBVIOUS
  <2> HIDE DEF nj
  <2>6. ASSUME NEW j \in WaitingIn(fs) PROVE Key(nj) # Key(j)
    <3>1. JobOK(j)
      BY DEF Core, JobsOK
    <3>2. CASE j.kind = "reaction"
      <4>1. j.reaction.id \in QueuedIn(fs) /\ Key(j) = j.reaction.id
        BY <3>2 DEF QueuedIn, Key
      <4> QED
        BY <2>3, <2>5, <4>1
    <3>3. CASE j.kind = "thenable"
      <4>1. Key(j) = MaxReactions + MaxThenables + j.n /\ j.n \in 1..MaxThenables
        BY <1>0, <3>1, <3>3, PromiseJobsAssumption DEF JobOK, Key, TypeOK
      <4>2. Key(nj) \in 1..(MaxReactions + MaxThenables)
        BY <2>3, <2>5 DEF Reaction
      <4> QED
        BY <4>1, <4>2, PromiseJobsAssumption
    <3> QED
      BY <3>1, <3>2, <3>3 DEF JobOK
  <2>7. \A j \in Waiting(jobQueue, fs) : Key(nj) # Key(j)
    BY <2>6 DEF WaitingIn
  <2>8. /\ Append(jobQueue, nj) \in Seq(JobRecord) /\ JobsDistinct(Append(jobQueue, nj), fs)
        /\ Waiting(Append(jobQueue, nj), fs) = Waiting(jobQueue, fs) \union {nj}
    BY <1>0, <2>3, <2>7, QueueAppends
  <2>9. jobQueue' \in Seq(JobRecord) /\ JobsDistinct(jobQueue', fs) /\ WaitingIn(frames)' = WaitingIn(fs) \union {nj}
    BY <2>4, <2>8 DEF WaitingIn
  <2>10. \A q \in Promise : Registered(q)' = Registered(q)
    BY <2>1 DEF Registered
  <2> QED
    BY <1>0, <1>1, <1>3, <2>1, <2>3, <2>9, <2>10 DEF TypeOK
<1> QED
  BY <1>2, <1>3
\* Making promises and pairs of functions: what was usable stays so.
Grows ==
    /\ state' \in [Promise -> {"none", "pending"} \union Settled]
    /\ \A q \in Promise : state'[q] = state[q] \/ (state[q] = "none" /\ state'[q] = "pending")
    /\ fnPromise' \in [Fn -> 0..MaxPromises]
    /\ \A f \in Fn : fnPromise[f] # 0 => fnPromise'[f] = fnPromise[f]
    /\ fnHeld' \in [Fn -> BOOLEAN]
    /\ reactions' \in 0..MaxReactions /\ reactions <= reactions'
    /\ UNCHANGED <<result, alreadyResolved, thenables, runVars>>

\* State that only grows leaves frames, reactions and jobs usable.
LEMMA GrowthKeeps ==
    ASSUME NEW fs, Core(fs), Grows
    PROVE  /\ FramesOK(fs)'
           /\ \A re : ReactionOK(re) => ReactionOK(re)'
           /\ \A j : JobOK(j) => JobOK(j)'
           /\ \A id \in 1..(MaxReactions + MaxThenables) : Bounded(id) => Bounded(id)'
<1>0. TypeOK /\ FramesOK(fs)
  BY DEF Core
<1>1. \A f : Usable(f) => Usable(f)'
  BY DEF Usable, Grows, Fn
<1>2. \A re : ReactionOK(re) => ReactionOK(re)'
  BY <1>1 DEF ReactionOK
<1>3. \A fr : FrameOK(fr) => FrameOK(fr)'
  BY <1>1, <1>2 DEF FrameOK, Reaction
<1>4. FramesOK(fs)'
  BY <1>0, <1>3 DEF FramesOK, FrameRecord, JobRecord, Reaction, NoReaction, Entry
<1>6. \A q \in Made : q \in Made'
  BY DEF Made, Grows, Promise
<1>7. ASSUME NEW j, JobOK(j) PROVE JobOK(j)'
  <2>1. CASE j.kind = "reaction"
    BY <1>2, <1>7, <2>1 DEF JobOK, Reaction
  <2>2. CASE j.kind = "thenable"
    BY <1>6, <1>7, <2>2 DEF JobOK, AnObject, Grows
  <2> QED
    BY <1>7, <2>1, <2>2 DEF JobOK
<1>8. ASSUME NEW id \in 1..(MaxReactions + MaxThenables), Bounded(id) PROVE Bounded(id)'
  <2>1. CASE id <= reactions
    <3>1. id <= reactions'
      BY <1>0, <2>1, PromiseJobsAssumption DEF Grows, TypeOK
    <3> QED
      BY <3>1 DEF Bounded
  <2>2. CASE id > MaxReactions /\ fnPromise[MaxPromises + (id - MaxReactions)] # 0
    <3>1. MaxPromises + (id - MaxReactions) \in Fn
      BY <2>2, PromiseJobsAssumption DEF Fn
    <3>2. fnPromise'[MaxPromises + (id - MaxReactions)] # 0
      BY <2>2, <3>1 DEF Grows
    <3> QED
      BY <2>2, <3>2 DEF Bounded
  <2> QED
    BY <1>8, <2>1, <2>2 DEF Bounded
<1> QED
  BY <1>2, <1>4, <1>7, <1>8

\* The reaction numbers in use have the type of numbers.
LEMMA InUse ==
    ASSUME NEW fs, Core(fs), NEW id \in (UNION {Registered(q) : q \in Promise}) \union QueuedIn(fs) \union ran
    PROVE  id \in 1..(MaxReactions + MaxThenables) /\ Bounded(id)
<1>1. Bounded(id)
  BY DEF Core, ReactionsApart, Bounded
<1>2. ASSUME NEW q \in Promise, id \in Registered(q) PROVE id \in 1..(MaxReactions + MaxThenables)
  <2>1. PICK re \in Elements(fulfillReactions[q]) \union Elements(rejectReactions[q]) : id = re.id
    BY <1>2 DEF Registered
  <2>2. PICK res \in {fulfillReactions[q], rejectReactions[q]} : \E n \in 1..Len(res) : re = res[n]
    BY <2>1 DEF Elements
  <2>3. TypeOK
    BY DEF Core
  <2> QED
    BY <2>1, <2>2, <2>3, ReactionsAre
<1>3. id \in ran => id \in 1..(MaxReactions + MaxThenables)
  BY DEF Core, TypeOK
<1> QED
  BY <1>1, <1>2, <1>3, QueuedType

\* The reactions of a new then or await are registered; the pairs of functions are
\* another matter.
LEMMA AddCore ==
    ASSUME NEW fs, Core(fs), Grows, frames' = fs,
           NEW r \in Made, NEW fr \in Reaction, NEW rr \in Reaction, fr.id = rr.id, addReactions(r, fr, rr),
           ~Bounded(fr.id), Bounded(fr.id)', ReactionOK(fr)', ReactionOK(rr)'
    PROVE  /\ PairsOK(frames)' => Core(frames)'
           /\ \A j : j.kind = "thenable" => (j \in WaitingIn(frames)' <=> j \in WaitingIn(fs))
<1>0. TypeOK /\ r \in Promise
  BY DEF Core, Made
<1>1. /\ fr.id \notin QueuedIn(fs) /\ \A q \in Promise : fr.id \notin Registered(q)
      /\ fr.id \notin ran /\ fr.id \in 1..(MaxReactions + MaxThenables)
  BY InUse DEF Reaction
<1>2. /\ jobQueue' \in Seq(JobRecord) /\ JobsDistinct(jobQueue', fs)
      /\ fulfillReactions' \in [Promise -> Seq(Reaction)] /\ rejectReactions' \in [Promise -> Seq(Reaction)]
      /\ \A j \in WaitingIn(fs) : j \in WaitingIn(frames)'
      /\ \A j : j \in WaitingIn(frames)' => j \in WaitingIn(fs) \/ (j.kind = "reaction" /\ j.reaction \in {fr, rr})
      /\ \A q \in Promise :
           /\ Elements(fulfillReactions'[q]) \subseteq Elements(fulfillReactions[q]) \union {fr}
           /\ Elements(rejectReactions'[q]) \subseteq Elements(rejectReactions[q]) \union {rr}
           /\ q # r \/ state[q] # "pending" => Registered(q)' = Registered(q)
      /\ \A q \in Promise : \A rs \in {fulfillReactions'[q], rejectReactions'[q]} :
           \A m, n \in 1..Len(rs) : rs[m].id = rs[n].id => m = n
      /\ state[r] = "pending" => WaitingIn(frames)' = WaitingIn(fs)
  BY <1>1, AddPlaces
<1>3. /\ FramesOK(fs)'
      /\ \A re : ReactionOK(re) => ReactionOK(re)'
      /\ \A j : JobOK(j) => JobOK(j)'
      /\ \A id \in 1..(MaxReactions + MaxThenables) : Bounded(id) => Bounded(id)'
  BY GrowthKeeps
<1>f. FramesOK(frames)' /\ DrainsAlone(frames)'
  BY <1>3 DEF FramesOK, DrainsAlone, Core
<1>4. handled' = [handled EXCEPT ![r] = TRUE] /\ thenables' = thenables
  BY DEF addReactions
<1>5. \A q \in Promise : Registered(q)' \subseteq Registered(q) \union {fr.id}
  <2> SUFFICES ASSUME NEW q \in Promise, NEW re \in Elements(fulfillReactions'[q]) \union Elements(rejectReactions'[q])
               PROVE  re.id \in Registered(q) \union {fr.id}
    BY DEF Registered
  <2>1. re \in Elements(fulfillReactions[q]) \union Elements(rejectReactions[q]) \/ re \in {fr, rr}
    BY <1>2
  <2> QED
    BY <2>1 DEF Registered
<1>6. QueuedIn(frames)' \subseteq QueuedIn(fs) \union {fr.id} /\ (state[r] = "pending" => QueuedIn(frames)' = QueuedIn(fs))
  <2>1. ASSUME NEW j, j \in WaitingIn(frames)', j.kind = "reaction"
        PROVE  j.reaction.id \in QueuedIn(fs) \union {fr.id}
    <3>1. CASE j \in WaitingIn(fs)
      BY <2>1, <3>1 DEF QueuedIn
    <3>2. CASE j.reaction \in {fr, rr}
      BY <3>2
    <3> QED
      BY <1>2, <2>1, <3>1, <3>2
  <2> QED
    BY <1>2, <2>1 DEF QueuedIn
<1>7. TypeOK'
  <2>1. handled' \in [Promise -> BOOLEAN]
    BY <1>0, <1>4 DEF TypeOK
  <2>2. unhandled' \subseteq Promise
    BY <1>0 DEF TypeOK, addReactions
  <2> QED
    BY <1>0, <1>2, <1>4, <2>1, <2>2 DEF TypeOK, Grows, runVars, Promise, Fn, Primitive, AnObject, Reaction, JobRecord, Settled, NoReaction
<1>8. JobsOK(frames)'
  <2>1. ASSUME NEW q \in Promise,
               NEW re \in Elements(fulfillReactions'[q]) \union Elements(rejectReactions'[q])
        PROVE  ReactionOK(re)'
    <3>1. re \in Elements(fulfillReactions[q]) \union Elements(rejectReactions[q]) \/ re \in {fr, rr}
      BY <1>2
    <3> QED
      BY <1>3, <3>1 DEF Core, JobsOK
  <2>2. ASSUME NEW j, j \in WaitingIn(frames)' PROVE JobOK(j)'
    <3>1. CASE j \in WaitingIn(fs)
      BY <1>3, <3>1 DEF Core, JobsOK
    <3>2. CASE j.kind = "reaction" /\ j.reaction \in {fr, rr}
      BY <3>2 DEF JobOK, Reaction
    <3> QED
      BY <1>2, <2>2, <3>1, <3>2
  <2> QED
    BY <2>1, <2>2 DEF JobsOK, Promise
<1>9. ReactionsApart(frames)'
  <2>1. ASSUME NEW id, id \in (UNION {Registered(q)' : q \in Promise}) \union QueuedIn(frames)' \union ran'
        PROVE  Bounded(id)'
    <3>1. id = fr.id \/ id \in (UNION {Registered(q) : q \in Promise}) \union QueuedIn(fs) \union ran
      BY <1>5, <1>6, <2>1 DEF Grows, runVars
    <3> QED
      BY <1>3, <3>1, InUse
  <2>2. ASSUME NEW q \in Promise, NEW s \in Promise, q # s PROVE Registered(q)' \intersect Registered(s)' = {}
    <3>1. /\ Registered(q) \intersect Registered(s) = {} /\ fr.id \notin Registered(q) /\ fr.id \notin Registered(s)
          /\ Registered(q)' \subseteq Registered(q) \union {fr.id} /\ Registered(s)' \subseteq Registered(s) \union {fr.id}
      BY <1>1, <1>5, <2>2 DEF Core, ReactionsApart
    <3>2. Registered(q)' = Registered(q) \/ Registered(s)' = Registered(s)
      BY <1>2, <2>2
    <3> QED
      BY <3>1, <3>2
  <2> QED
    BY <1>2, <2>1, <2>2 DEF ReactionsApart, Bounded, Promise
<1>10. RunsOnce(frames)'
  <2>1. ran' = ran
    BY DEF Grows, runVars
  <2>2. QueuedIn(frames)' \intersect ran' = {}
    BY <1>1, <1>6, <2>1 DEF Core, RunsOnce
  <2>3. ASSUME NEW q \in Promise PROVE Registered(q)' \intersect (QueuedIn(frames)' \union ran') = {}
    <3>1. CASE q = r /\ state[r] = "pending"
      BY <1>1, <1>5, <1>6, <2>1, <3>1 DEF Core, RunsOnce
    <3>2. CASE ~(q = r /\ state[r] = "pending")
      BY <1>1, <1>2, <1>6, <2>1, <3>2 DEF Core, RunsOnce
    <3> QED
      BY <3>1, <3>2
  <2>4. ASSUME NEW q \in Promise, state'[q] \in Settled PROVE Registered(q)' = {}
    <3>1. state[q] \in Settled /\ state[q] # "pending"
      BY <2>4 DEF Grows, Settled
    <3> QED
      BY <1>2, <3>1 DEF Core, RunsOnce
  <2> QED
    BY <2>2, <2>3, <2>4 DEF RunsOnce, Promise, Settled
<1>11. TrackerAgrees'
  <2>1. \A q \in Promise : state'[q] = "rejected" <=> state[q] = "rejected"
    BY DEF Grows
  <2>2. \A q \in Promise : handled'[q] = IF q = r THEN TRUE ELSE handled[q]
    BY <1>0, <1>4 DEF TypeOK
  <2>3. unhandled' = unhandled \ {r}
    BY <1>0 DEF addReactions, Core, TrackerAgrees, Made
  <2> QED
    BY <2>1, <2>2, <2>3 DEF Core, TrackerAgrees, Promise
<1>12. JobsDistinct(jobQueue, frames)'
  BY <1>2
<1>13. \A j : j.kind = "thenable" => (j \in WaitingIn(frames)' <=> j \in WaitingIn(fs))
  BY <1>2
<1> QED
  BY <1>f, <1>7, <1>8, <1>9, <1>10, <1>11, <1>12, <1>13 DEF Core

\* A pair of functions is made, for a new promise or for a thenable.
LEMMA GrowCore ==
    ASSUME NEW fs, Core(fs), Grows, FramesOK(frames)', DrainsAlone(frames)', PairsOK(frames)',
           JobsDistinct(jobQueue, frames)', WaitingIn(frames)' = WaitingIn(fs),
           UNCHANGED <<handled, fulfillReactions, rejectReactions, unhandled>>, jobQueue' = jobQueue
    PROVE  Core(frames)'
<1>0. TypeOK
  BY DEF Core
<1>1. QueuedIn(frames)' = QueuedIn(fs) /\ ran' = ran
  BY DEF QueuedIn, Grows, runVars
<1>2. \A q \in Promise : Registered(q)' = Registered(q)
  BY DEF Registered
<1>3. /\ \A re : ReactionOK(re) => ReactionOK(re)'
      /\ \A j : JobOK(j) => JobOK(j)'
      /\ \A id \in 1..(MaxReactions + MaxThenables) : Bounded(id) => Bounded(id)'
  BY GrowthKeeps
<1>4. TypeOK'
  BY <1>0 DEF TypeOK, Grows, runVars, Promise, Fn, Primitive, AnObject, Reaction, JobRecord, Settled, NoReaction
<1>5. JobsOK(frames)'
  BY <1>1, <1>3 DEF Core, JobsOK, Promise
<1>6. ReactionsApart(frames)'
  <2>1. ASSUME NEW id, id \in (UNION {Registered(q)' : q \in Promise}) \union QueuedIn(frames)' \union ran'
        PROVE  Bounded(id)'
    BY <1>1, <1>2, <1>3, <2>1, InUse
  <2>2. \A q, s \in Promise : q # s => Registered(q)' \intersect Registered(s)' = {}
    BY <1>2 DEF Core, ReactionsApart
  <2> QED
    BY <2>1, <2>2 DEF Core, ReactionsApart, Bounded, Promise
<1>7. RunsOnce(frames)'
  <2>1. \A q \in Promise : state'[q] \in Settled => state[q] \in Settled
    BY DEF Grows, Settled
  <2> QED
    BY <1>1, <1>2, <2>1 DEF Core, RunsOnce, Promise, Settled
<1>8. TrackerAgrees'
  BY DEF Grows, Core, TrackerAgrees, Promise
<1> QED
  BY <1>4, <1>5, <1>6, <1>7, <1>8 DEF Core
\* Nothing but flags and the record of what has run changes.
LEMMA StillCore ==
    ASSUME NEW fs, Core(fs), frames' = fs, FlagsGrow, RanGrows(fs),
           UNCHANGED <<promiseVars, fnPromise, fnHeld, reactions, jobQueue, interrupted, interrupts>>
    PROVE  Core(frames)' /\ WaitingIn(frames)' = WaitingIn(fs)
<1>0. /\ TypeOK
      /\ UNCHANGED <<state, result, handled, fulfillReactions, rejectReactions, thenables, unhandled>>
  BY DEF Core, promiseVars
<1>1. WaitingIn(frames)' = WaitingIn(fs) /\ QueuedIn(frames)' = QueuedIn(fs)
  BY DEF WaitingIn, QueuedIn
<1>2. Made' = Made /\ \A q \in Promise : Registered(q)' = Registered(q)
  BY <1>0 DEF Registered, Made
<1>3. /\ FramesOK(frames)' /\ DrainsAlone(frames)'
      /\ \A re : ReactionOK(re)' <=> ReactionOK(re)
      /\ \A f : Usable(f)' <=> Usable(f)
  BY PairsKept DEF Core
<1>4. TypeOK'
  <2>1. resumed' \subseteq ran' /\ ran' \subseteq 1..(MaxReactions + MaxThenables)
    BY <1>0 DEF TypeOK, RanGrows
  <2>2. alreadyResolved' \in [Fn -> BOOLEAN]
    BY DEF FlagsGrow
  <2> QED
    BY <1>0, <2>1, <2>2 DEF TypeOK, Promise, Fn, Primitive, AnObject, Reaction, JobRecord, Settled, NoReaction
<1>5. JobsOK(frames)'
  <2>1. \A j : JobOK(j) => JobOK(j)'
    BY <1>0, <1>2, <1>3 DEF JobOK
  <2> QED
    BY <1>0, <1>1, <1>3, <2>1 DEF Core, JobsOK, Promise
<1>6. PairsOK(frames)'
  <2>1. ASSUME NEW f \in Fn, fnPromise[f] = 0 PROVE ~alreadyResolved'[f]
    BY <2>1 DEF Core, PairsOK, FlagsGrow, Usable
  <2>2. ASSUME NEW f \in Fn
        PROVE  IF fnPromise'[f] = 0 THEN ~alreadyResolved'[f] /\ ~fnHeld'[f] ELSE fnPromise'[f] \in Made'
    BY <1>2, <2>1 DEF Core, PairsOK
  <2>3. /\ \A q \in Promise : fnPromise'[q] = IF state'[q] = "none" THEN 0 ELSE q
        /\ \A n \in (thenables' + 1)..MaxThenables : fnPromise'[MaxPromises + n] = 0
    BY <1>0 DEF Core, PairsOK
  <2>4. \A j : j \in WaitingIn(frames)' /\ j.kind = "thenable" => fnPromise'[MaxPromises + j.n] = 0
    BY <1>1 DEF Core, PairsOK
  <2> QED
    BY <2>2, <2>3, <2>4 DEF PairsOK, Promise, Fn
<1>7. ReactionsApart(frames)'
  <2>1. ASSUME NEW id, id \in (UNION {Registered(q)' : q \in Promise}) \union QueuedIn(frames)' \union ran'
        PROVE  Bounded(id)
    <3>1. id \in (UNION {Registered(q) : q \in Promise}) \union QueuedIn(fs) \union ran \/ Bounded(id)
      BY <1>1, <1>2, <2>1 DEF RanGrows
    <3> QED
      BY <3>1 DEF Core, ReactionsApart, Bounded
  <2>2. \A q, r \in Promise : q # r => Registered(q)' \intersect Registered(r)' = {}
    BY <1>2 DEF Core, ReactionsApart
  <2>3. \A q \in Promise : \A rs \in {fulfillReactions'[q], rejectReactions'[q]} :
          \A m, n \in 1..Len(rs) : rs[m].id = rs[n].id => m = n
    BY <1>0 DEF Core, ReactionsApart
  <2> QED
    BY <2>1, <2>2, <2>3 DEF ReactionsApart, Bounded, Promise
<1>8. RunsOnce(frames)'
  <2>1. \A id \in ran' : id \in ran \/ (id \notin QueuedIn(fs) /\ \A q \in Promise : id \notin Registered(q))
    BY DEF RanGrows
  <2> QED
    BY <1>0, <1>1, <1>2, <2>1 DEF Core, RunsOnce, Promise, Settled
<1>9. TrackerAgrees'
  BY <1>0 DEF Core, TrackerAgrees, Promise
<1>10. JobsDistinct(jobQueue, frames)'
  BY DEF Core
<1> QED
  BY <1>1, <1>3, <1>4, <1>5, <1>6, <1>7, <1>8, <1>9, <1>10 DEF Core

-----------------------------------------------------------------------------
(* Who decides a promise *)

\* One who may decide a promise is the only one, and it is pending.
LEMMA SoleDecider ==
    ASSUME NEW fs, Inv(fs), NEW p \in Promise, NEW t \in Deciders(fs, p)
    PROVE  Deciders(fs, p) = {t} /\ state[p] = "pending"
<1>1. state[p] \notin Settled /\ \A s \in Deciders(fs, p) : s = t
  BY DEF Inv, OneDecider
<1>2. p \in Made
  <2>0. fs \in Seq(FrameRecord) /\ 0 \notin Promise
    BY DEF Inv, Core, FramesOK, Promise
  <2>1. CASE \E f \in DecidingPairs(p) : t = <<"pair", f>>
    BY <2>0, <2>1 DEF DecidingPairs, Inv, Core, PairsOK
  <2>2. CASE \E j \in DecidingJobs(fs, p) : t = <<"job", j>>
    <3>1. PICK j \in WaitingIn(fs) : j.kind = "thenable" /\ j.promise = p
      BY <2>2 DEF DecidingJobs
    <3> QED
      BY <3>1 DEF Inv, Core, JobsOK, JobOK
  <2>3. CASE \E d \in DecidingGetters(fs, p) : t = <<"getter", d>>
    <3>1. PICK d \in 1..Len(fs) : fs[d].kind = "getter" /\ fnPromise[fs[d].fn] = p
      BY <2>3 DEF DecidingGetters
    <3>2. Usable(fs[d].fn)
      BY <3>1 DEF Inv, Core, FramesOK, FrameOK
    <3> QED
      BY <3>1, <3>2 DEF Usable, Inv, Core, PairsOK
  <2> QED
    BY <2>1, <2>2, <2>3 DEF Deciders
<1>3. state[p] \in {"none", "pending"} \union Settled
  BY DEF Inv, Core, TypeOK
<1> QED
  BY <1>1, <1>2, <1>3 DEF Made

\* An unused pair of resolving functions alone decides its promise.
LEMMA PairDecides ==
    ASSUME NEW fs, Inv(fs), NEW f \in Fn, fnPromise[f] # 0, ~alreadyResolved[f]
    PROVE  /\ fnPromise[f] \in Promise /\ state[fnPromise[f]] = "pending"
           /\ DecidingPairs(fnPromise[f]) = {f} /\ DecidingJobs(fs, fnPromise[f]) = {}
           /\ DecidingGetters(fs, fnPromise[f]) = {}
<1> DEFINE p == fnPromise[f]
<1>1. p \in Promise
  BY DEF Inv, Core, PairsOK, Made
<1>2. <<"pair", f>> \in Deciders(fs, p) /\ f \in DecidingPairs(p)
  BY DEF Deciders, DecidingPairs
<1> HIDE DEF p
<1>3. Deciders(fs, p) = {<<"pair", f>>} /\ state[p] = "pending"
  BY <1>1, <1>2, SoleDecider
<1>4. ASSUME NEW g \in DecidingPairs(p) PROVE g = f
  <2>1. <<"pair", g>> \in Deciders(fs, p)
    BY DEF Deciders
  <2> QED
    BY <1>3, <2>1
<1>5. ASSUME NEW j \in DecidingJobs(fs, p) PROVE FALSE
  <2>1. <<"job", j>> \in Deciders(fs, p)
    BY DEF Deciders
  <2> QED
    BY <1>3, <2>1
<1>6. ASSUME NEW d \in DecidingGetters(fs, p) PROVE FALSE
  <2>1. <<"getter", d>> \in Deciders(fs, p)
    BY DEF Deciders
  <2> QED
    BY <1>3, <2>1
<1>7. DecidingPairs(p) = {f} /\ DecidingJobs(fs, p) = {} /\ DecidingGetters(fs, p) = {}
  BY <1>2, <1>4, <1>5, <1>6
<1> QED
  BY <1>1, <1>3, <1>7 DEF p

\* A thenable job that waits alone decides its promise.
LEMMA JobDecides ==
    ASSUME NEW fs, Inv(fs), NEW j \in WaitingIn(fs), j.kind = "thenable"
    PROVE  /\ j.promise \in Promise /\ state[j.promise] = "pending"
           /\ DecidingPairs(j.promise) = {} /\ DecidingJobs(fs, j.promise) = {j}
           /\ DecidingGetters(fs, j.promise) = {}
<1> DEFINE p == j.promise
<1>1. p \in Promise
  BY DEF Inv, Core, JobsOK, JobOK, Made
<1>2. <<"job", j>> \in Deciders(fs, p) /\ j \in DecidingJobs(fs, p)
  BY DEF Deciders, DecidingJobs
<1> HIDE DEF p
<1>3. Deciders(fs, p) = {<<"job", j>>} /\ state[p] = "pending"
  BY <1>1, <1>2, SoleDecider
<1>4. ASSUME NEW g \in DecidingPairs(p) PROVE FALSE
  <2>1. <<"pair", g>> \in Deciders(fs, p)
    BY DEF Deciders
  <2> QED
    BY <1>3, <2>1
<1>5. ASSUME NEW i \in DecidingJobs(fs, p) PROVE i = j
  <2>1. <<"job", i>> \in Deciders(fs, p)
    BY DEF Deciders
  <2> QED
    BY <1>3, <2>1
<1>6. ASSUME NEW d \in DecidingGetters(fs, p) PROVE FALSE
  <2>1. <<"getter", d>> \in Deciders(fs, p)
    BY DEF Deciders
  <2> QED
    BY <1>3, <2>1
<1>7. DecidingPairs(p) = {} /\ DecidingJobs(fs, p) = {j} /\ DecidingGetters(fs, p) = {}
  BY <1>2, <1>4, <1>5, <1>6
<1> QED
  BY <1>1, <1>3, <1>7 DEF p

\* A resolve function that reads a then property alone decides its promise.
LEMMA GetterDecides ==
    ASSUME NEW fs, Inv(fs), NEW d \in 1..Len(fs), fs[d].kind = "getter"
    PROVE  /\ fnPromise[fs[d].fn] \in Promise /\ state[fnPromise[fs[d].fn]] = "pending"
           /\ DecidingPairs(fnPromise[fs[d].fn]) = {} /\ DecidingJobs(fs, fnPromise[fs[d].fn]) = {}
           /\ DecidingGetters(fs, fnPromise[fs[d].fn]) = {d}
<1> DEFINE p == fnPromise[fs[d].fn]
<1>1. p \in Promise
  <2>1. Usable(fs[d].fn)
    BY DEF Inv, Core, FramesOK, FrameOK
  <2> QED
    BY <2>1 DEF Inv, Core, PairsOK, Made, Usable
<1>2. <<"getter", d>> \in Deciders(fs, p) /\ d \in DecidingGetters(fs, p)
  BY DEF Deciders, DecidingGetters
<1> HIDE DEF p
<1>3. Deciders(fs, p) = {<<"getter", d>>} /\ state[p] = "pending"
  BY <1>1, <1>2, SoleDecider
<1>4. ASSUME NEW g \in DecidingPairs(p) PROVE FALSE
  <2>1. <<"pair", g>> \in Deciders(fs, p)
    BY DEF Deciders
  <2> QED
    BY <1>3, <2>1
<1>5. ASSUME NEW i \in DecidingJobs(fs, p) PROVE FALSE
  <2>1. <<"job", i>> \in Deciders(fs, p)
    BY DEF Deciders
  <2> QED
    BY <1>3, <2>1
<1>6. ASSUME NEW e \in DecidingGetters(fs, p) PROVE e = d
  <2>1. <<"getter", e>> \in Deciders(fs, p)
    BY DEF Deciders
  <2> QED
    BY <1>3, <2>1
<1>7. DecidingPairs(p) = {} /\ DecidingJobs(fs, p) = {} /\ DecidingGetters(fs, p) = {d}
  BY <1>2, <1>4, <1>5, <1>6
<1> QED
  BY <1>1, <1>3, <1>7 DEF p

\* The promises for which nothing changes.
Untouched(fs, q) ==
    /\ state'[q] = state[q]
    /\ DecidingPairs(q)' = DecidingPairs(q)
    /\ DecidingJobs(frames, q)' = DecidingJobs(fs, q)
    /\ DecidingGetters(frames, q)' = DecidingGetters(fs, q)

\* A step that concerns one promise only, and leaves it settled or with one decider.
LEMMA DecidedOnce ==
    ASSUME NEW fs, OneDecider(fs), NEW p \in Promise, interrupts' = interrupts,
           \A q \in Promise : q # p => Untouched(fs, q),
           \/ /\ DecidingPairs(p)' = {} /\ DecidingJobs(frames, p)' = {} /\ DecidingGetters(frames, p)' = {}
              /\ state'[p] \in Settled
           \/ /\ \E t : \/ DecidingPairs(p)' = {t} /\ DecidingJobs(frames, p)' = {} /\ DecidingGetters(frames, p)' = {}
                        \/ DecidingPairs(p)' = {} /\ DecidingJobs(frames, p)' = {t} /\ DecidingGetters(frames, p)' = {}
                        \/ DecidingPairs(p)' = {} /\ DecidingJobs(frames, p)' = {} /\ DecidingGetters(frames, p)' = {t}
              /\ state'[p] \notin Settled
    PROVE  OneDecider(frames)'
<1>1. ASSUME NEW q \in Promise, q # p PROVE state'[q] = state[q] /\ Deciders(frames, q)' = Deciders(fs, q)
  BY <1>1 DEF Untouched, Deciders
<1>2. CASE DecidingPairs(p)' = {} /\ DecidingJobs(frames, p)' = {} /\ DecidingGetters(frames, p)' = {} /\ state'[p] \in Settled
  <2>1. Deciders(frames, p)' = {}
    BY <1>2 DEF Deciders
  <2>2. state'[p] # "pending"
    BY <1>2 DEF Settled
  <2> QED
    BY <1>1, <1>2, <2>1, <2>2 DEF OneDecider, Promise, Settled
<1>3. CASE state'[p] \notin Settled
  <2>1. PICK t : \/ DecidingPairs(p)' = {t} /\ DecidingJobs(frames, p)' = {} /\ DecidingGetters(frames, p)' = {}
                 \/ DecidingPairs(p)' = {} /\ DecidingJobs(frames, p)' = {t} /\ DecidingGetters(frames, p)' = {}
                 \/ DecidingPairs(p)' = {} /\ DecidingJobs(frames, p)' = {} /\ DecidingGetters(frames, p)' = {t}
    BY <1>3
  <2>2. \/ Deciders(frames, p)' = {<<"pair", t>>} \/ Deciders(frames, p)' = {<<"job", t>>}
        \/ Deciders(frames, p)' = {<<"getter", t>>}
    BY <2>1 DEF Deciders
  <2>3. PICK s : Deciders(frames, p)' = {s}
    BY <2>2
  <2>4. ASSUME NEW q \in Promise
        PROVE  /\ \A a, b \in Deciders(frames, q)' : a = b
               /\ state'[q] \in Settled => Deciders(frames, q)' = {}
               /\ state'[q] = "pending" /\ interrupts' = 0 => Deciders(frames, q)' # {}
    <3>1. CASE q = p
      BY <1>3, <2>3, <3>1
    <3>2. CASE q # p
      BY <1>1, <3>2 DEF OneDecider
    <3> QED
      BY <3>1, <3>2
  <2> QED
    BY <2>4 DEF OneDecider, Promise, Settled
<1> QED
  BY <1>2, <1>3

\* A step that concerns no promise.
LEMMA NoneDecided ==
    ASSUME NEW fs, OneDecider(fs), interrupts' = interrupts, \A q \in Promise : Untouched(fs, q)
    PROVE  OneDecider(frames)'
<1>1. ASSUME NEW q \in Promise PROVE state'[q] = state[q] /\ Deciders(frames, q)' = Deciders(fs, q)
  BY <1>1 DEF Untouched, Deciders
<1> QED
  BY <1>1 DEF OneDecider, Promise, Settled
\* fulfill and reject settle a pending promise and touch no other.
LEMMA FulfillCore ==
    ASSUME NEW fs, Core(fs), NEW p \in Promise, state[p] = "pending", NEW x \in {Primitive, AnObject},
           fulfill(p, x), UNCHANGED <<fnPromise, fnHeld, reactions, interrupted, interrupts>>,
           frames' = fs, FlagsGrow, RanGrows(fs)
    PROVE  /\ Core(frames)' /\ state'[p] \in Settled
           /\ \A q \in Promise : /\ q # p => state'[q] = state[q]
                                 /\ DecidingJobs(frames, q)' = DecidingJobs(fs, q)
                                 /\ DecidingGetters(frames, q)' = DecidingGetters(fs, q)
<1>1. /\ state' = [state EXCEPT ![p] = "fulfilled"] /\ result' = [result EXCEPT ![p] = x]
      /\ jobQueue' = jobQueue \o Jobs(fulfillReactions[p], TRUE, x)
      /\ fulfillReactions' = [fulfillReactions EXCEPT ![p] = <<>>]
      /\ rejectReactions' = [rejectReactions EXCEPT ![p] = <<>>]
      /\ UNCHANGED <<handled, thenables, unhandled>>
  BY DEF fulfill
<1>2. unhandled' = IF "fulfilled" = "rejected" /\ ~handled[p] THEN unhandled \union {p} ELSE unhandled
  BY <1>1
<1>3. "fulfilled" \in Settled
  BY DEF Settled
<1>4. /\ Core(frames)'
      /\ \A j : j.kind = "thenable" => (j \in WaitingIn(frames)' <=> j \in WaitingIn(fs))
  BY <1>1, <1>2, <1>3, SettleCore
<1>5. state'[p] \in Settled /\ \A q \in Promise : q # p => state'[q] = state[q]
  BY <1>1, <1>3 DEF Core, TypeOK
<1> QED
  BY <1>4, <1>5 DEF DecidingJobs, DecidingGetters

\* reject keeps the core, and leaves every other promise and all thenable jobs alone.
LEMMA RejectCore ==
    ASSUME NEW fs, Core(fs), NEW p \in Promise, state[p] = "pending",
           reject(p), UNCHANGED <<fnPromise, fnHeld, reactions, interrupted, interrupts>>,
           frames' = fs, FlagsGrow, RanGrows(fs)
    PROVE  /\ Core(frames)' /\ state'[p] \in Settled
           /\ \A q \in Promise : /\ q # p => state'[q] = state[q]
                                 /\ DecidingJobs(frames, q)' = DecidingJobs(fs, q)
                                 /\ DecidingGetters(frames, q)' = DecidingGetters(fs, q)
<1>1. /\ state' = [state EXCEPT ![p] = "rejected"] /\ result' = [result EXCEPT ![p] = Primitive]
      /\ jobQueue' = jobQueue \o Jobs(rejectReactions[p], FALSE, Primitive)
      /\ fulfillReactions' = [fulfillReactions EXCEPT ![p] = <<>>]
      /\ rejectReactions' = [rejectReactions EXCEPT ![p] = <<>>]
      /\ unhandled' = IF handled[p] THEN unhandled ELSE unhandled \union {p}
      /\ UNCHANGED <<handled, thenables>>
  BY DEF reject
<1>2. unhandled' = IF "rejected" = "rejected" /\ ~handled[p] THEN unhandled \union {p} ELSE unhandled
  BY <1>1
<1>3. "rejected" \in Settled
  BY DEF Settled
<1>4. /\ Core(frames)'
      /\ \A j : j.kind = "thenable" => (j \in WaitingIn(frames)' <=> j \in WaitingIn(fs))
  BY <1>1, <1>2, <1>3, SettleCore
<1>5. state'[p] \in Settled /\ \A q \in Promise : q # p => state'[q] = state[q]
  BY <1>1, <1>3 DEF Core, TypeOK
<1> QED
  BY <1>4, <1>5 DEF DecidingJobs, DecidingGetters

\* A promise that is to follow a thenable is decided by the job.
LEMMA EnqueueDecides ==
    ASSUME NEW fs, Core(fs), NEW p \in Made, NEW x \in Made \union {AnObject},
           enqueueThenable(p, x),
           UNCHANGED <<fnPromise, fnHeld, reactions, interrupted, interrupts>>,
           frames' = fs, FlagsGrow, RanGrows(fs), DecidingJobs(fs, p) = {}
    PROVE  /\ Core(frames)' /\ state' = state
           /\ \E t : DecidingJobs(frames, p)' = {t}
           /\ \A q \in Promise : /\ q # p => DecidingJobs(frames, q)' = DecidingJobs(fs, q)
                                 /\ DecidingGetters(frames, q)' = DecidingGetters(fs, q)
<1> DEFINE nj == ThenableJob(p, x, thenables + 1)
<1>1. Core(frames)' /\ WaitingIn(frames)' = WaitingIn(fs) \union {nj}
  BY EnqueueCore
<1>2. TypeOK /\ thenables < MaxThenables /\ p \in Promise /\ x \in Promise \union {AnObject} /\ state' = state
  BY DEF Core, enqueueThenable, Made
<1>3. nj.kind = "thenable" /\ nj.promise = p
  BY <1>2, ThenableJobIs
<1> HIDE DEF nj
<1>4. DecidingJobs(frames, p)' = {nj}
  BY <1>1, <1>3 DEF DecidingJobs
<1>5. \A q \in Promise : q # p => DecidingJobs(frames, q)' = DecidingJobs(fs, q)
  BY <1>1, <1>3 DEF DecidingJobs
<1> QED
  BY <1>1, <1>2, <1>4, <1>5 DEF DecidingGetters

\* The flag of a pair of resolving functions is set.
LEMMA PairUsed ==
    ASSUME NEW fs, Inv(fs), NEW f \in Fn, fnPromise[f] # 0, ~alreadyResolved[f], fnPromise' = fnPromise, NEW p, p = fnPromise[f],
           alreadyResolved' = [alreadyResolved EXCEPT ![f] = TRUE]
    PROVE  /\ FlagsGrow
           /\ DecidingPairs(p)' = {}
           /\ \A q \in Promise : q # p => DecidingPairs(q)' = DecidingPairs(q)
<1>1. alreadyResolved \in [Fn -> BOOLEAN]
  BY DEF Inv, Core, TypeOK
<1>2. \A g \in Fn : alreadyResolved'[g] = IF g = f THEN TRUE ELSE alreadyResolved[g]
  BY <1>1
<1>3. FlagsGrow
  BY <1>1, <1>2 DEF FlagsGrow, Usable
<1>4. \A q \in Promise : q # p => DecidingPairs(q)' = DecidingPairs(q)
  BY <1>2 DEF DecidingPairs, Fn
<1>5. DecidingPairs(p) = {f}
  BY PairDecides
<1>6. ASSUME NEW g, g \in DecidingPairs(p)' PROVE FALSE
  <2>1. g \in Fn /\ fnPromise[g] = p /\ ~alreadyResolved'[g]
    BY <1>6 DEF DecidingPairs, Fn
  <2>2. g \in DecidingPairs(p) /\ g # f
    BY <1>2, <2>1 DEF DecidingPairs
  <2> QED
    BY <1>5, <2>2
<1> QED
  BY <1>3, <1>4, <1>6

\* The frame of a then getter is pushed.
LEMMA PushGetter ==
    ASSUME NEW fs, Core(fs), fs # <<>>, NEW fr \in FrameRecord, fr.kind = "getter", Usable(fr.fn), fr.jobs = <<>>
    PROVE  Core(Append(fs, fr)) /\ \A j : j \in WaitingIn(Append(fs, fr)) <=> j \in WaitingIn(fs)
<1> DEFINE gs == Append(fs, fr)
<1>0. fs \in Seq(FrameRecord) /\ Len(fs) \in Nat \ {0}
  BY LenProperties, EmptySeq DEF Core, FramesOK
<1>1. /\ gs \in Seq(FrameRecord) /\ Len(gs) = Len(fs) + 1
      /\ \A d \in 1..Len(fs) : gs[d] = fs[d]
      /\ gs[Len(fs) + 1] = fr
  BY <1>0, AppendProperties
<1> HIDE DEF gs
<1>2. FramesOK(gs)
  <2>1. gs[1].kind \in Entry
    BY <1>0, <1>1 DEF Core, FramesOK
  <2>2. ASSUME NEW d \in 1..Len(gs)
        PROVE  /\ FrameOK(gs[d])
               /\ gs[d].kind = "drain" => d > 1 /\ gs[d - 1].kind \in Entry
    <3>1. CASE d = Len(fs) + 1
      BY <1>0, <1>1, <3>1 DEF FrameOK
    <3>2. CASE d # Len(fs) + 1
      BY <1>0, <1>1, <3>2 DEF Core, FramesOK
    <3> QED
      BY <3>1, <3>2
  <2>3. ASSUME NEW d \in 1..Len(gs), NEW e \in 1..Len(gs), gs[d].kind = "program", gs[e].kind = "program"
        PROVE  d = e
    BY <1>0, <1>1, <2>3 DEF Core, FramesOK
  <2> QED
    BY <1>1, <2>1, <2>2, <2>3 DEF FramesOK
<1>3. DrainsAlone(gs)
  BY <1>0, <1>1 DEF Core, DrainsAlone
<1>b. /\ \A d \in 1..Len(gs) : gs[d].jobs = <<>> \/ (d <= Len(fs) /\ gs[d].jobs = fs[d].jobs)
      /\ \A d \in 1..Len(fs) : fs[d].jobs = <<>> \/ (d <= Len(gs) /\ gs[d].jobs = fs[d].jobs)
  BY <1>0, <1>1
<1>j. JobsDistinct(jobQueue, fs)
  BY DEF Core
<1>4. JobsDistinct(jobQueue, gs) /\ WaitingIn(gs) \subseteq WaitingIn(fs)
  BY ONLY <1>0, <1>1, <1>b, <1>j, BatchesKept DEF WaitingIn
<1>5. WaitingIn(fs) \subseteq WaitingIn(gs)
  BY ONLY <1>0, <1>1, <1>b, WaitingKept DEF WaitingIn
<1>6. Core(gs)
  BY <1>2, <1>3, <1>4, CoreMoves
<1>7. WaitingIn(gs) = WaitingIn(fs)
  BY <1>4, <1>5
<1> QED
  BY <1>6, <1>7 DEF gs
\* The job of a frame that runs none.
LEMMA NoJobIs == NoJob \in JobRecord
BY PromiseJobsAssumption DEF NoJob, JobRecord

\* What the rest of a step that calls a resolving function leaves alone.
CallFrame(fs) == UNCHANGED <<fnPromise, fnHeld, reactions, interrupted, interrupts>> /\ RanGrows(fs)

\* A resolving function that was called before does nothing.
LEMMA UsedPair ==
    ASSUME NEW fs, Inv(fs), CallFrame(fs), frames' = fs, UNCHANGED <<promiseVars, alreadyResolved, jobQueue>>
    PROVE  Inv(frames)'
<1>1. FlagsGrow
  BY DEF FlagsGrow, Inv, Core, TypeOK
<1>2. Core(frames)' /\ WaitingIn(frames)' = WaitingIn(fs)
  BY <1>1, StillCore DEF Inv, CallFrame
<1>3. \A q \in Promise : Untouched(fs, q)
  BY <1>2 DEF Untouched, DecidingPairs, DecidingJobs, DecidingGetters, promiseVars, CallFrame, Fn
<1>4. OneDecider(frames)'
  BY <1>3, NoneDecided DEF Inv, CallFrame
<1> QED
  BY <1>2, <1>4 DEF Inv

\* An unused pair rejects its promise.
LEMMA PairRejects ==
    ASSUME NEW fs, Inv(fs), CallFrame(fs), frames' = fs, NEW f \in Fn, fnPromise[f] # 0, ~alreadyResolved[f],
           alreadyResolved' = [alreadyResolved EXCEPT ![f] = TRUE], reject(fnPromise[f])
    PROVE  Inv(frames)'
<1>p. PICK p : p = fnPromise[f]
  OBVIOUS
<1>0. UNCHANGED <<fnPromise, fnHeld, reactions, interrupted, interrupts>> /\ RanGrows(fs)
  BY DEF CallFrame
<1>1. /\ p \in Promise /\ state[p] = "pending" /\ DecidingJobs(fs, p) = {} /\ DecidingGetters(fs, p) = {}
  BY <1>p, PairDecides
<1>2. FlagsGrow /\ DecidingPairs(p)' = {} /\ \A q \in Promise : q # p => DecidingPairs(q)' = DecidingPairs(q)
  BY <1>p, <1>0, PairUsed
<1>3. reject(p) /\ Core(fs) /\ OneDecider(fs)
  BY <1>p DEF Inv
<1>4. /\ Core(frames)' /\ state'[p] \in Settled
      /\ \A q \in Promise : /\ q # p => state'[q] = state[q]
                            /\ DecidingJobs(frames, q)' = DecidingJobs(fs, q)
                            /\ DecidingGetters(frames, q)' = DecidingGetters(fs, q)
  BY <1>0, <1>1, <1>2, <1>3, RejectCore
<1>5. OneDecider(frames)'
  <2>1. \A q \in Promise : q # p => Untouched(fs, q)
    BY <1>2, <1>4 DEF Untouched
  <2>2. DecidingPairs(p)' = {} /\ DecidingJobs(frames, p)' = {} /\ DecidingGetters(frames, p)' = {}
    BY <1>1, <1>2, <1>4
  <2> QED
    BY <1>0, <1>1, <1>3, <1>4, <2>1, <2>2, DecidedOnce
<1> QED
  BY <1>4, <1>5 DEF Inv

\* An unused pair fulfills its promise.
LEMMA PairFulfills ==
    ASSUME NEW fs, Inv(fs), CallFrame(fs), frames' = fs, NEW f \in Fn, fnPromise[f] # 0, ~alreadyResolved[f],
           alreadyResolved' = [alreadyResolved EXCEPT ![f] = TRUE], fulfill(fnPromise[f], Primitive)
    PROVE  Inv(frames)'
<1>p. PICK p : p = fnPromise[f]
  OBVIOUS
<1>0. UNCHANGED <<fnPromise, fnHeld, reactions, interrupted, interrupts>> /\ RanGrows(fs)
  BY DEF CallFrame
<1>1. /\ p \in Promise /\ state[p] = "pending" /\ DecidingJobs(fs, p) = {} /\ DecidingGetters(fs, p) = {}
  BY <1>p, PairDecides
<1>2. FlagsGrow /\ DecidingPairs(p)' = {} /\ \A q \in Promise : q # p => DecidingPairs(q)' = DecidingPairs(q)
  BY <1>p, <1>0, PairUsed
<1>3. fulfill(p, Primitive) /\ Core(fs) /\ OneDecider(fs)
  BY <1>p DEF Inv
<1>4. /\ Core(frames)' /\ state'[p] \in Settled
      /\ \A q \in Promise : /\ q # p => state'[q] = state[q]
                            /\ DecidingJobs(frames, q)' = DecidingJobs(fs, q)
                            /\ DecidingGetters(frames, q)' = DecidingGetters(fs, q)
  BY <1>0, <1>1, <1>2, <1>3, FulfillCore
<1>5. OneDecider(frames)'
  <2>1. \A q \in Promise : q # p => Untouched(fs, q)
    BY <1>2, <1>4 DEF Untouched
  <2>2. DecidingPairs(p)' = {} /\ DecidingJobs(frames, p)' = {} /\ DecidingGetters(frames, p)' = {}
    BY <1>1, <1>2, <1>4
  <2> QED
    BY <1>0, <1>1, <1>3, <1>4, <2>1, <2>2, DecidedOnce
<1> QED
  BY <1>4, <1>5 DEF Inv

\* An unused pair makes its promise follow a thenable.
LEMMA PairFollows ==
    ASSUME NEW fs, Inv(fs), CallFrame(fs), frames' = fs, NEW f \in Fn, fnPromise[f] # 0, ~alreadyResolved[f],
           alreadyResolved' = [alreadyResolved EXCEPT ![f] = TRUE], NEW x \in Made \union {AnObject},
           enqueueThenable(fnPromise[f], x)
    PROVE  Inv(frames)'
<1>p. PICK p : p = fnPromise[f]
  OBVIOUS
<1>0. UNCHANGED <<fnPromise, fnHeld, reactions, interrupted, interrupts>> /\ RanGrows(fs)
  BY DEF CallFrame
<1>1. /\ p \in Promise /\ state[p] = "pending" /\ DecidingJobs(fs, p) = {} /\ DecidingGetters(fs, p) = {}
  BY <1>p, PairDecides
<1>2. FlagsGrow /\ DecidingPairs(p)' = {} /\ \A q \in Promise : q # p => DecidingPairs(q)' = DecidingPairs(q)
  BY <1>p, <1>0, PairUsed
<1>3. enqueueThenable(p, x) /\ Core(fs) /\ OneDecider(fs)
  BY <1>p DEF Inv
<1>m. p \in Made
  BY <1>1 DEF Made
<1>4. /\ Core(frames)' /\ state' = state
      /\ \E t : DecidingJobs(frames, p)' = {t}
      /\ \A q \in Promise : /\ q # p => DecidingJobs(frames, q)' = DecidingJobs(fs, q)
                            /\ DecidingGetters(frames, q)' = DecidingGetters(fs, q)
  BY <1>0, <1>1, <1>2, <1>3, <1>m, EnqueueDecides
<1>5. OneDecider(frames)'
  <2>1. \A q \in Promise : q # p => Untouched(fs, q)
    BY <1>2, <1>4 DEF Untouched
  <2>2. \E t : DecidingPairs(p)' = {} /\ DecidingJobs(frames, p)' = {t} /\ DecidingGetters(frames, p)' = {}
    BY <1>1, <1>2, <1>4
  <2>3. state'[p] \notin Settled
    BY <1>1, <1>4 DEF Settled
  <2> QED
    BY <1>0, <1>1, <1>3, <2>1, <2>2, <2>3, DecidedOnce
<1> QED
  BY <1>4, <1>5 DEF Inv

\* A resolve function goes to read the then property of its argument.
LEMMA PairReads ==
    ASSUME NEW fs, Inv(fs), CallFrame(fs), fs # <<>>, NEW f \in Fn, fnPromise[f] # 0, ~alreadyResolved[f],
           alreadyResolved' = [alreadyResolved EXCEPT ![f] = TRUE],
           frames' = Append(fs, Frame("getter", TRUE, f, NoJob)), UNCHANGED <<promiseVars, jobQueue>>
    PROVE  Inv(frames)'
<1>p. PICK p : p = fnPromise[f]
  OBVIOUS
<1>0. UNCHANGED <<fnPromise, fnHeld, reactions, interrupted, interrupts>> /\ RanGrows(fs)
  BY DEF CallFrame
<1>1. /\ p \in Promise /\ state[p] = "pending" /\ DecidingJobs(fs, p) = {} /\ DecidingGetters(fs, p) = {}
  BY <1>p, PairDecides
<1>2. FlagsGrow /\ DecidingPairs(p)' = {} /\ \A q \in Promise : q # p => DecidingPairs(q)' = DecidingPairs(q)
  BY <1>p, <1>0, PairUsed
<1>3. PICK fr \in FrameRecord : fr.kind = "getter" /\ fr.fn = f /\ fr.jobs = <<>> /\ frames' = Append(fs, fr)
  <2>1. f \in 0..(MaxPromises + MaxThenables) /\ <<>> \in Seq(JobRecord)
    BY PromiseJobsAssumption, EmptySeq DEF Fn
  <2> QED
    BY <2>1, NoJobIs DEF Frame, FrameRecord
<1>4. PICK gs : gs = frames' /\ gs = Append(fs, fr)
  BY <1>3
<1>x. gs = Append(fs, fr)
  BY <1>4
<1>5. Usable(f) /\ Core(fs) /\ OneDecider(fs)
  BY DEF Usable, Inv
<1>6. /\ Core(gs) /\ WaitingIn(gs) = WaitingIn(fs) /\ QueuedIn(gs) = QueuedIn(fs)
      /\ gs \in Seq(FrameRecord) /\ Len(fs) \in Nat /\ Len(gs) = Len(fs) + 1
      /\ \A d \in 1..Len(fs) : gs[d] = fs[d]
      /\ gs[Len(fs) + 1].kind = "getter" /\ gs[Len(fs) + 1].fn = f
  <2>0. fs \in Seq(FrameRecord) /\ fs # <<>>
    BY <1>5 DEF Core, FramesOK
  <2>1. Core(Append(fs, fr)) /\ \A j : j \in WaitingIn(Append(fs, fr)) <=> j \in WaitingIn(fs)
    BY ONLY <1>3, <1>5, <2>0, PushGetter
  <2>2. /\ gs \in Seq(FrameRecord) /\ Len(fs) \in Nat /\ Len(gs) = Len(fs) + 1
        /\ \A d \in 1..Len(fs) : gs[d] = fs[d]
        /\ gs[Len(fs) + 1] = fr
    BY ONLY <1>x, <2>0, AppendProperties, LenProperties
  <2>3. WaitingIn(gs) = WaitingIn(fs)
    BY ONLY <1>x, <2>1
  <2> QED
    BY ONLY <1>3, <1>x, <2>1, <2>2, <2>3 DEF QueuedIn
<1>7. RanGrows(gs)
  BY <1>0, <1>6 DEF RanGrows
<1>8. Core(frames)' /\ WaitingIn(frames)' = WaitingIn(gs)
  BY <1>0, <1>2, <1>4, <1>6, <1>7, StillCore
<1>9. \A q \in Promise : DecidingJobs(frames, q)' = DecidingJobs(fs, q)
  BY <1>6, <1>8 DEF DecidingJobs
<1>10. ASSUME NEW q \in Promise
       PROVE  DecidingGetters(frames, q)' = DecidingGetters(fs, q) \union (IF q = p THEN {Len(fs) + 1} ELSE {})
  <2>1. DecidingGetters(frames, q)' = {d \in 1..Len(gs) : gs[d].kind = "getter" /\ fnPromise[gs[d].fn] = q}
    BY <1>0, <1>4 DEF DecidingGetters
  <2>2. 1..Len(gs) = (1..Len(fs)) \union {Len(fs) + 1}
    BY <1>6
  <2> QED
    BY <1>p, <1>6, <2>1, <2>2 DEF DecidingGetters
<1>11. OneDecider(frames)'
  <2>1. \A q \in Promise : q # p => Untouched(fs, q)
    BY <1>2, <1>9, <1>10 DEF Untouched, promiseVars
  <2>2. DecidingPairs(p)' = {} /\ DecidingJobs(frames, p)' = {} /\ DecidingGetters(frames, p)' = {Len(fs) + 1}
    BY <1>1, <1>2, <1>9, <1>10
  <2>3. state'[p] \notin Settled
    BY <1>1 DEF Settled, promiseVars
  <2> QED
    BY <1>0, <1>1, <1>5, <2>1, <2>2, <2>3, DecidedOnce
<1> QED
  BY <1>8, <1>11 DEF Inv

\* A resolve function keeps the invariant.
LEMMA ResolveKeeps ==
    ASSUME NEW fs, Inv(fs), CallFrame(fs), fs # <<>>, NEW f, f = 0 \/ Usable(f), NEW x, resolveFn(f, x, fs)
    PROVE  Inv(frames)'
<1>1. CASE (f # 0 => alreadyResolved[f]) /\ frames' = fs /\ UNCHANGED <<promiseVars, alreadyResolved, jobQueue>>
  BY <1>1, UsedPair
<1>2. CASE f # 0 /\ ~alreadyResolved[f] /\ alreadyResolved' = [alreadyResolved EXCEPT ![f] = TRUE]
  <2>0. f \in Fn /\ fnPromise[f] # 0
    BY <1>2 DEF Usable
  <2>1. CASE x = Primitive /\ fulfill(fnPromise[f], x) /\ frames' = fs
    BY <1>2, <2>0, <2>1, PairFulfills
  <2>2. CASE frames' = Append(fs, Frame("getter", TRUE, f, NoJob)) /\ UNCHANGED <<promiseVars, jobQueue>>
    BY <1>2, <2>0, <2>2, PairReads
  <2>3. CASE x = fnPromise[f] /\ reject(x) /\ frames' = fs
    BY <1>2, <2>0, <2>3, PairRejects
  <2>4. CASE x \in Made \ {fnPromise[f]} /\ enqueueThenable(fnPromise[f], x) /\ frames' = fs
    BY <1>2, <2>0, <2>4, PairFollows
  <2> QED
    BY <1>2, <2>1, <2>2, <2>3, <2>4 DEF resolveFn
<1> QED
  BY <1>1, <1>2 DEF resolveFn

\* A reject function keeps the invariant.
LEMMA RejectKeeps ==
    ASSUME NEW fs, Inv(fs), CallFrame(fs), NEW f, f = 0 \/ Usable(f), rejectFn(f, fs)
    PROVE  Inv(frames)'
<1>1. CASE UNCHANGED <<promiseVars, alreadyResolved, jobQueue>>
  BY <1>1, UsedPair DEF rejectFn
<1>2. CASE f # 0 /\ ~alreadyResolved[f] /\ alreadyResolved' = [alreadyResolved EXCEPT ![f] = TRUE] /\ reject(fnPromise[f])
  <2>0. f \in Fn /\ fnPromise[f] # 0 /\ frames' = fs
    BY <1>2 DEF Usable, rejectFn
  <2> QED
    BY <1>2, <2>0, PairRejects
<1> QED
  BY <1>1, <1>2 DEF rejectFn
-----------------------------------------------------------------------------
(* The actions *)

\* The frame on top.
LEMMA TopIs ==
    ASSUME NEW fs, Inv(fs), fs # <<>>
    PROVE  /\ fs \in Seq(FrameRecord) /\ Len(fs) \in Nat \ {0} /\ Len(fs) \in 1..Len(fs)
           /\ fs[Len(fs)] \in FrameRecord /\ FrameOK(fs[Len(fs)])
           /\ fs[Len(fs)].kind \notin Entry => Len(fs) > 1
<1>1. fs \in Seq(FrameRecord) /\ Len(fs) \in Nat \ {0}
  BY LenProperties, EmptySeq DEF Inv, Core, FramesOK
<1>2. Len(fs) \in 1..Len(fs)
  BY <1>1
<1>3. fs[Len(fs)] \in FrameRecord
  BY <1>1, <1>2, ElementOfSeq
<1> QED
  BY <1>1, <1>2, <1>3 DEF Inv, Core, FramesOK

\* A stack that a frame was pushed on is not empty.
LEMMA AppendNotEmpty ==
    ASSUME NEW fs \in Seq(FrameRecord), NEW fr
    PROVE  Append(fs, fr) # <<>>
BY EmptySeq

\* Code runs on a frame.
LEMMA RunningOn ==
    ASSUME IndInv, Running \/ Draining
    PROVE  \E fs : fs = frames /\ Inv(fs) /\ fs # <<>> /\ Depth = Len(fs) /\ Top = fs[Len(fs)]
<1>1. frames \in Seq(FrameRecord)
  BY DEF IndInv, Inv, Core, FramesOK
<1>2. frames # <<>>
  BY <1>1, EmptySeq DEF Running, Draining, Depth
<1> QED
  BY <1>2 DEF IndInv, Depth, Top

\* Only the frames change.
Still == UNCHANGED <<promiseVars, fnVars, reactions, jobQueue, runVars>>

\* A step that moves frames only keeps the invariant.
LEMMA StillKeeps ==
    ASSUME NEW fs, Inv(fs), frames' = fs, Still
    PROVE  Inv(frames)'
<1>1. CallFrame(fs)
  BY DEF CallFrame, RanGrows, Still, fnVars, runVars, Inv, Core, TypeOK
<1> QED
  BY <1>1, UsedPair DEF Still, fnVars

\* A step that calls a resolving function and records nothing as run.
LEMMA CallsFn ==
    ASSUME NEW fs, Inv(fs), UNCHANGED <<fnPromise, fnHeld, reactions, runVars>>
    PROVE  CallFrame(fs)
BY DEF CallFrame, RanGrows, runVars, Inv, Core, TypeOK

\* A function that a script or Go holds is usable.
LEMMA HeldUsable ==
    ASSUME NEW fs, Inv(fs), NEW f \in Fn, fnHeld[f]
    PROVE  Usable(f)
BY DEF Inv, Core, PairsOK, Usable

\* Resolving functions leave frames on the stack.
LEMMA ResolveStays ==
    ASSUME NEW fs \in Seq(FrameRecord), fs # <<>>, NEW f, NEW x, resolveFn(f, x, fs) \/ rejectFn(f, fs)
    PROVE  frames' # <<>>
<1>1. ASSUME NEW fr PROVE Append(fs, fr) # <<>>
  BY EmptySeq
<1> QED
  BY <1>1 DEF resolveFn, rejectFn

\* callResolve
LEMMA callResolveKeeps ==
    ASSUME IndInv, NEW f \in Fn, NEW x \in Values, callResolve(f, x)
    PROVE  Inv(frames)' /\ frames' # <<>>
<1>1. Running /\ fnHeld[f] /\ resolveFn(f, x, frames) /\ UNCHANGED <<fnPromise, fnHeld, reactions, runVars>>
  BY DEF callResolve, InJS
<1>2. PICK fs : fs = frames /\ Inv(fs) /\ fs # <<>>
  BY <1>1, RunningOn
<1>3. Usable(f) /\ CallFrame(fs) /\ fs \in Seq(FrameRecord)
  BY <1>1, <1>2, HeldUsable, CallsFn, TopIs
<1>4. resolveFn(f, x, fs)
  BY <1>1, <1>2
<1> QED
  BY <1>2, <1>3, <1>4, ResolveKeeps, ResolveStays

\* callReject
LEMMA callRejectKeeps ==
    ASSUME IndInv, NEW f \in Fn, callReject(f)
    PROVE  Inv(frames)' /\ frames' # <<>>
<1>1. Running /\ fnHeld[f] /\ rejectFn(f, frames) /\ UNCHANGED <<fnPromise, fnHeld, reactions, runVars>>
  BY DEF callReject, InJS
<1>2. PICK fs : fs = frames /\ Inv(fs) /\ fs # <<>>
  BY <1>1, RunningOn
<1>3. Usable(f) /\ CallFrame(fs) /\ fs \in Seq(FrameRecord)
  BY <1>1, <1>2, HeldUsable, CallsFn, TopIs
<1>4. rejectFn(f, fs)
  BY <1>1, <1>2
<1> QED
  BY <1>2, <1>3, <1>4, RejectKeeps, ResolveStays

\* An entry is pushed on the stack.
LEMMA EntryIs ==
    ASSUME NEW kind \in Entry
    PROVE  /\ Frame(kind, TRUE, 0, NoJob) \in FrameRecord /\ FrameOK(Frame(kind, TRUE, 0, NoJob))
           /\ Frame(kind, TRUE, 0, NoJob).kind = kind
           /\ Frame(kind, FALSE, 0, NoJob) \in FrameRecord /\ FrameOK(Frame(kind, FALSE, 0, NoJob))
           /\ Frame(kind, FALSE, 0, NoJob).kind = kind
<1>1. <<>> \in Seq(JobRecord) /\ 0 \in 0..(MaxPromises + MaxThenables)
  BY EmptySeq, PromiseJobsAssumption
<1> QED
  BY <1>1, NoJobIs DEF Frame, FrameRecord, FrameOK, Entry

\* A call into the runtime pushes an entry, a program only where no script runs.
LEMMA EntryPushed ==
    ASSUME NEW fs, Inv(fs), NEW kind \in Entry, NEW fr \in FrameRecord, FrameOK(fr), fr.kind = kind,
           kind = "program" => ~InScript(fs)
    PROVE  Inv(Append(fs, fr)) /\ Append(fs, fr) # <<>>
<1>1. kind = "program" => \A d \in 1..Len(fs) : fs[d].kind # "program"
  BY DEF InScript
<1>2. fs \in Seq(FrameRecord)
  BY DEF Inv, Core, FramesOK
<1>3. Append(fs, fr) # <<>>
  BY <1>2, EmptySeq
<1> QED
  BY <1>1, <1>3, Push DEF Entry

\* RunProgram
LEMMA RunProgramKeeps ==
    ASSUME IndInv, RunProgram
    PROVE  Inv(frames)' /\ frames' # <<>>
<1>1. PICK fs : fs = frames /\ Inv(fs)
  BY DEF IndInv
<1>2. PICK kind \in Entry : kind = IF InScript(fs) THEN "call" ELSE "program"
  BY DEF Entry
<1>3. PICK fr \in FrameRecord : FrameOK(fr) /\ fr.kind = kind /\ frames' = Append(fs, fr)
  <2>1. frames' = Append(fs, Frame(kind, TRUE, 0, NoJob))
    BY <1>1, <1>2 DEF RunProgram
  <2> QED
    BY <2>1, EntryIs
<1>4. Inv(Append(fs, fr)) /\ Append(fs, fr) # <<>>
  BY <1>1, <1>2, <1>3, EntryPushed
<1> QED
  BY <1>3, <1>4, StillKeeps DEF RunProgram, Still

\* runWrapped of a script function.
LEMMA runWrappedKeeps ==
    ASSUME IndInv, runWrapped
    PROVE  Inv(frames)' /\ frames' # <<>>
<1>1. PICK fs : fs = frames /\ Inv(fs)
  BY DEF IndInv
<1>2. PICK kind \in Entry : kind = "call"
  BY DEF Entry
<1>3. PICK fr \in FrameRecord : FrameOK(fr) /\ fr.kind = kind /\ frames' = Append(fs, fr)
  <2>1. frames' = Append(fs, Frame(kind, TRUE, 0, NoJob))
    BY <1>1, <1>2 DEF runWrapped
  <2> QED
    BY <2>1, EntryIs
<1>4. Inv(Append(fs, fr)) /\ Append(fs, fr) # <<>>
  BY <1>1, <1>2, <1>3, EntryPushed
<1> QED
  BY <1>3, <1>4, StillKeeps DEF runWrapped, Still

\* runWrapped of a resolving function.
LEMMA runWrappedFnKeeps ==
    ASSUME IndInv, NEW f \in Fn, NEW x \in Values, runWrappedFn(f, x)
    PROVE  Inv(frames)' /\ frames' # <<>>
<1>1. PICK fs : fs = frames /\ Inv(fs)
  BY DEF IndInv
<1>2. PICK kind \in Entry : kind = "call"
  BY DEF Entry
<1>3. PICK fr \in FrameRecord : FrameOK(fr) /\ fr.kind = kind /\ fr = Frame("call", FALSE, 0, NoJob)
  BY <1>2, EntryIs
<1>4. PICK gs : gs = Append(fs, fr) /\ Inv(gs) /\ gs # <<>>
  BY <1>1, <1>2, <1>3, EntryPushed
<1>5. fnHeld[f] /\ UNCHANGED <<fnPromise, fnHeld, reactions, runVars>> /\ (resolveFn(f, x, gs) \/ rejectFn(f, gs))
  BY <1>1, <1>3, <1>4 DEF runWrappedFn
<1>6. Usable(f) /\ CallFrame(gs) /\ gs \in Seq(FrameRecord)
  BY <1>4, <1>5, HeldUsable, CallsFn, TopIs
<1> QED
  BY <1>4, <1>5, <1>6, ResolveKeeps, RejectKeeps, ResolveStays
\* The frames below the one on top, which reads no then property.
LEMMA UnderKeeps ==
    ASSUME NEW fs, Inv(fs), fs # <<>>, fs[Len(fs)].kind \notin {"drain", "getter"}
    PROVE  /\ Inv(Under(fs)) /\ (fs[Len(fs)].kind \notin Entry => Under(fs) # <<>>)
           /\ Under(fs) \in Seq(FrameRecord) /\ Len(Under(fs)) = Len(fs) - 1
           /\ \A d \in 1..(Len(fs) - 1) : Under(fs)[d] = fs[d]
<1>1. /\ fs \in Seq(FrameRecord) /\ Len(fs) \in Nat \ {0} /\ FrameOK(fs[Len(fs)])
      /\ fs[Len(fs)].kind \notin Entry => Len(fs) > 1
  BY TopIs
<1>k. Len(fs) - 1 \in 0..Len(fs)
  BY <1>1
<1>2. PICK k \in 0..Len(fs) : k = Len(fs) - 1
  BY <1>k
<1>3. PICK gs : gs = Under(fs) /\ gs = SubSeq(fs, 1, k)
  BY <1>2 DEF Under
<1>4. gs \in Seq(FrameRecord) /\ Len(gs) = k /\ \A d \in 1..k : gs[d] = fs[d]
  BY <1>1, <1>3, PrefixIs
<1>5. \A d \in (k + 1)..Len(fs) : fs[d].jobs = <<>> /\ fs[d].kind # "getter"
  BY <1>1, <1>2 DEF FrameOK
<1>6. Inv(gs)
  BY <1>4, <1>5, Truncate
<1>7. fs[Len(fs)].kind \notin Entry => gs # <<>>
  BY <1>1, <1>2, <1>4, EmptySeq
<1> QED
  BY <1>2, <1>3, <1>4, <1>6, <1>7

\* return: an entry below a script is popped, any other begins its leave().
LEMMA returnKeeps ==
    ASSUME IndInv, return
    PROVE  Inv(frames)' /\ frames' # <<>>
<1>0. Running /\ Top.kind \in {"program", "call"} /\ Still
  BY DEF return, Still
<1>1. PICK fs : fs = frames /\ Inv(fs) /\ fs # <<>> /\ Depth = Len(fs) /\ Top = fs[Len(fs)]
  BY <1>0, RunningOn
<1>2. /\ fs \in Seq(FrameRecord) /\ Len(fs) \in Nat \ {0} /\ Len(fs) \in 1..Len(fs)
      /\ fs[Len(fs)] \in FrameRecord /\ FrameOK(fs[Len(fs)])
  BY <1>1, TopIs
<1>3. CASE Top.kind = "call" /\ InScript(Under(frames))
  <2>1. frames' = Under(fs)
    BY <1>1, <1>3 DEF return
  <2>2. Inv(Under(fs)) /\ Under(fs) \in Seq(FrameRecord)
    BY <1>0, <1>1, UnderKeeps
  <2>3. Under(fs) # <<>>
    <3>1. InScript(Under(fs))
      BY <1>1, <1>3
    <3>2. Len(<<>>) = 0
      BY EmptySeq
    <3> QED
      BY <3>1, <3>2 DEF InScript
  <2> QED
    BY <1>0, <2>1, <2>2, <2>3, StillKeeps
<1>4. CASE ~(Top.kind = "call" /\ InScript(Under(frames)))
  <2> DEFINE fr == [fs[Len(fs)] EXCEPT !.js = FALSE]
             hs == [fs EXCEPT ![Len(fs)] = fr]
  <2>1. fr \in FrameRecord /\ FrameOK(fr) /\ fr.kind = fs[Len(fs)].kind /\ fr.jobs = fs[Len(fs)].jobs /\ fr.fn = fs[Len(fs)].fn
    <3>1. fr \in FrameRecord /\ fr.kind = fs[Len(fs)].kind /\ fr.jobs = fs[Len(fs)].jobs /\ fr.fn = fs[Len(fs)].fn
      BY <1>2 DEF FrameRecord
    <3>2. fr.kind \in {"program", "call"} /\ fr.jobs = <<>>
      BY <1>0, <1>1, <1>2, <3>1 DEF FrameOK
    <3> QED
      BY <3>1, <3>2 DEF FrameOK
  <2>2. frames' = Append(hs, Drain)
    BY <1>1, <1>4 DEF return
  <2> HIDE DEF fr
  <2>3. Inv(hs)
    BY <1>1, <2>1, SetTop
  <2>4. /\ Len(hs) = Len(fs) /\ hs \in Seq(FrameRecord)
        /\ \A d \in 1..Len(fs) : hs[d] = IF d = Len(fs) THEN fr ELSE fs[d]
    BY <1>2, <2>1, ExceptSeq
  <2> HIDE DEF hs
  <2>5. hs # <<>> /\ hs[Len(hs)].kind \in Entry
    BY <1>0, <1>1, <1>2, <2>1, <2>4, EmptySeq DEF Entry
  <2>6. ASSUME NEW d \in 1..(Len(hs) - 1) PROVE hs[d].kind # "program"
    <3>0. d \in 1..Len(fs) /\ d # Len(fs) /\ hs[d] = fs[d]
      BY <1>2, <2>4
    <3>1. CASE Top.kind = "program"
      BY <1>1, <1>2, <3>0, <3>1 DEF Inv, Core, FramesOK
    <3>2. CASE Top.kind = "call"
      <4>1. ~InScript(Under(fs))
        BY <1>1, <1>4, <3>2
      <4>2. Len(Under(fs)) = Len(fs) - 1 /\ Under(fs)[d] = fs[d]
        BY <1>0, <1>1, <2>4, UnderKeeps
      <4> QED
        BY <2>4, <3>0, <4>1, <4>2 DEF InScript
    <3> QED
      BY <1>0, <3>1, <3>2
  <2>7. Inv(Append(hs, Drain))
    BY <2>3, <2>5, <2>6, PushDrain
  <2>8. Append(hs, Drain) # <<>>
    BY <2>4, AppendNotEmpty
  <2> QED
    BY <1>0, <2>2, <2>7, <2>8, StillKeeps
<1> QED
  BY <1>3, <1>4

\* The queue is emptied, or its jobs go to the batch of leave(), and an interrupt is
\* taken back.
LEMMA QueueMoves ==
    ASSUME NEW fs, Inv(fs), NEW gs, frames' = gs, FramesOK(gs), DrainsAlone(gs), JobsDistinct(jobQueue', gs),
           jobQueue' \in Seq(JobRecord), Waiting(jobQueue', gs) \subseteq WaitingIn(fs),
           \A p \in Promise : DecidingGetters(gs, p) = DecidingGetters(fs, p),
           interrupts > 0 \/ WaitingIn(fs) \subseteq Waiting(jobQueue', gs),
           UNCHANGED <<promiseVars, fnVars, reactions, interrupts, ran, resumed>>,
           interrupted' = interrupted \/ interrupted' = FALSE
    PROVE  Inv(frames)'
<1>0. /\ TypeOK
      /\ UNCHANGED <<state, result, handled, fulfillReactions, rejectReactions, thenables, unhandled>>
      /\ UNCHANGED <<fnPromise, alreadyResolved, fnHeld>>
  BY DEF Inv, Core, promiseVars, fnVars
<1>1. WaitingIn(frames)' \subseteq WaitingIn(fs)
  BY DEF WaitingIn
<1>2. QueuedIn(frames)' \subseteq QueuedIn(fs)
  BY <1>1 DEF QueuedIn
<1>3. Made' = Made /\ \A q \in Promise : Registered(q)' = Registered(q)
  BY <1>0 DEF Registered, Made
<1>4. /\ FramesOK(frames)' /\ DrainsAlone(frames)'
      /\ \A re : ReactionOK(re)' <=> ReactionOK(re)
      /\ \A f : Usable(f)' <=> Usable(f)
  BY <1>0, PairsKept
<1>5. TypeOK'
  <2>1. interrupted' \in BOOLEAN
    BY <1>0 DEF TypeOK
  <2>2. interrupted' => interrupts' > 0
    BY <1>0 DEF TypeOK
  <2> QED
    BY <1>0, <2>1, <2>2 DEF TypeOK, Promise, Fn, Primitive, AnObject, Reaction, JobRecord, Settled, NoReaction
<1>6. JobsOK(frames)'
  <2>1. \A j : JobOK(j) => JobOK(j)'
    BY <1>0, <1>3, <1>4 DEF JobOK
  <2> QED
    BY <1>0, <1>1, <1>4, <2>1 DEF Inv, Core, JobsOK, Promise
<1>7. PairsOK(frames)'
  BY <1>0, <1>1, <1>3 DEF Inv, Core, PairsOK, Promise, Fn
<1>8. ReactionsApart(frames)'
  <2>1. ASSUME NEW id, id \in (UNION {Registered(q)' : q \in Promise}) \union QueuedIn(frames)' \union ran'
        PROVE  Bounded(id)
    <3>1. id \in (UNION {Registered(q) : q \in Promise}) \union QueuedIn(fs) \union ran
      BY <1>2, <1>3, <2>1
    <3> QED
      BY <3>1 DEF Inv, Core, ReactionsApart, Bounded
  <2>2. \A q, r \in Promise : q # r => Registered(q)' \intersect Registered(r)' = {}
    BY <1>3 DEF Inv, Core, ReactionsApart
  <2>3. \A q \in Promise : \A rs \in {fulfillReactions'[q], rejectReactions'[q]} :
          \A m, n \in 1..Len(rs) : rs[m].id = rs[n].id => m = n
    BY <1>0 DEF Inv, Core, ReactionsApart
  <2> QED
    BY <1>0, <2>1, <2>2, <2>3 DEF ReactionsApart, Bounded, Promise
<1>9. RunsOnce(frames)'
  BY <1>0, <1>2, <1>3 DEF Inv, Core, RunsOnce, Promise, Settled
<1>10. TrackerAgrees'
  BY <1>0 DEF Inv, Core, TrackerAgrees, Promise
<1>11. JobsDistinct(jobQueue, frames)'
  OBVIOUS
<1>12. OneDecider(frames)'
  <2>0. interrupts \in Nat
    BY <1>0 DEF TypeOK
  <2>1. ASSUME NEW q \in Promise PROVE Deciders(frames, q)' \subseteq Deciders(fs, q)
    <3>1. DecidingJobs(frames, q)' \subseteq DecidingJobs(fs, q)
      BY <1>1 DEF DecidingJobs
    <3>2. DecidingPairs(q)' = DecidingPairs(q) /\ DecidingGetters(frames, q)' = DecidingGetters(fs, q)
      BY <1>0 DEF DecidingPairs, DecidingGetters, Fn
    <3> QED
      BY <3>1, <3>2 DEF Deciders
  <2>2. ASSUME NEW q \in Promise, interrupts = 0 PROVE Deciders(frames, q)' = Deciders(fs, q)
    <3>1. DecidingJobs(frames, q)' = DecidingJobs(fs, q)
      BY <1>1, <2>0, <2>2 DEF DecidingJobs, WaitingIn
    <3>2. DecidingPairs(q)' = DecidingPairs(q) /\ DecidingGetters(frames, q)' = DecidingGetters(fs, q)
      BY <1>0 DEF DecidingPairs, DecidingGetters, Fn
    <3> QED
      BY <3>1, <3>2 DEF Deciders
  <2> QED
    BY <1>0, <2>1, <2>2 DEF Inv, OneDecider, Promise, Settled
<1> QED
  BY <1>4, <1>5, <1>6, <1>7, <1>8, <1>9, <1>10, <1>11, <1>12 DEF Inv, Core
\* leave() takes the queue as its batch: the same jobs wait, in one place each.
LEMMA SwapQueue ==
    ASSUME NEW q \in Seq(JobRecord), NEW fs \in Seq(FrameRecord), JobsDistinct(q, fs), fs # <<>>,
           fs[Len(fs)].jobs = <<>>,
           NEW gs \in Seq(FrameRecord), Len(gs) = Len(fs), gs[Len(fs)].jobs = q,
           \A d \in 1..Len(fs) : d # Len(fs) => gs[d] = fs[d]
    PROVE  JobsDistinct(<<>>, gs) /\ \A j : j \in Waiting(<<>>, gs) <=> j \in Waiting(q, fs)
<1>0. Len(fs) \in Nat \ {0} /\ Len(<<>>) = 0
  BY EmptySeq, LenProperties
<1> DEFINE At(d) == IF d = Len(fs) THEN 0 ELSE d
<1>1. ASSUME NEW d \in 0..Len(fs), NEW m \in 1..Len(Batch(<<>>, gs, d))
      PROVE  d # 0 /\ At(d) \in 0..Len(fs) /\ Batch(<<>>, gs, d) = Batch(q, fs, At(d))
  <2>1. d # 0
    BY <1>0 DEF Batch
  <2> QED
    BY <1>0, <2>1 DEF Batch
<1>2. JobsDistinct(<<>>, gs)
  <2> SUFFICES ASSUME NEW d \in 0..Len(fs), NEW e \in 0..Len(fs),
                      NEW m \in 1..Len(Batch(<<>>, gs, d)), NEW n \in 1..Len(Batch(<<>>, gs, e)),
                      Key(Batch(<<>>, gs, d)[m]) = Key(Batch(<<>>, gs, e)[n])
               PROVE  d = e /\ m = n
    BY DEF JobsDistinct
  <2>1. /\ d # 0 /\ At(d) \in 0..Len(fs) /\ Batch(<<>>, gs, d) = Batch(q, fs, At(d))
        /\ e # 0 /\ At(e) \in 0..Len(fs) /\ Batch(<<>>, gs, e) = Batch(q, fs, At(e))
    BY <1>1
  <2>2. At(d) = At(e) /\ m = n
    <3> HIDE DEF At
    <3> QED
      BY <2>1, KeyPlaces
  <2> QED
    BY <2>1, <2>2
<1>3. ASSUME NEW j, j \in Waiting(<<>>, gs) PROVE j \in Waiting(q, fs)
  <2>1. \E d \in 1..Len(gs) : \E n \in 1..Len(gs[d].jobs) : j = gs[d].jobs[n]
    BY <1>0, <1>3, WaitingPlaces, SMTT(30)
  <2>2. PICK d \in 1..Len(gs) : \E n \in 1..Len(gs[d].jobs) : j = gs[d].jobs[n]
    BY <2>1
  <2>3. CASE d = Len(fs)
    BY <2>2, <2>3, WaitingPlaces
  <2>4. CASE d # Len(fs)
    BY <2>2, <2>4, WaitingPlaces
  <2> QED
    BY <2>3, <2>4
<1>4. ASSUME NEW j, j \in Waiting(q, fs) PROVE j \in Waiting(<<>>, gs)
  <2>1. CASE \E n \in 1..Len(q) : j = q[n]
    <3>1. Len(fs) \in 1..Len(gs)
      BY <1>0
    <3> QED
      BY <2>1, <3>1, WaitingPlaces
  <2>2. CASE \E d \in 1..Len(fs) : \E n \in 1..Len(fs[d].jobs) : j = fs[d].jobs[n]
    <3>1. PICK d \in 1..Len(fs) : \E n \in 1..Len(fs[d].jobs) : j = fs[d].jobs[n]
      BY <2>2
    <3>2. d # Len(fs)
      BY <1>0, <3>1
    <3> QED
      BY <3>1, <3>2, WaitingPlaces
  <2>3. \/ \E n \in 1..Len(q) : j = q[n]
        \/ \E d \in 1..Len(fs) : \E n \in 1..Len(fs[d].jobs) : j = fs[d].jobs[n]
    BY <1>4, WaitingPlaces
  <2> QED
    BY <2>1, <2>2, <2>3
<1> QED
  BY <1>2, <1>3, <1>4

\* leaveSwap: every job moves from the queue to the batch, in one place each.
LEMMA leaveSwapKeeps ==
    ASSUME IndInv, leaveSwap
    PROVE  Inv(frames)' /\ frames' # <<>>
<1>0. Draining /\ Top.jobs = <<>> /\ jobQueue' = <<>> /\ UNCHANGED <<promiseVars, fnVars, reactions, runVars>>
  BY DEF leaveSwap
<1>1. PICK fs : fs = frames /\ Inv(fs) /\ fs # <<>> /\ Depth = Len(fs) /\ Top = fs[Len(fs)]
  BY <1>0, RunningOn
<1>2. /\ fs \in Seq(FrameRecord) /\ Len(fs) \in Nat \ {0} /\ Len(fs) \in 1..Len(fs)
      /\ fs[Len(fs)] \in FrameRecord /\ jobQueue \in Seq(JobRecord) /\ JobsDistinct(jobQueue, fs)
  BY <1>1, TopIs DEF Inv, Core, TypeOK
<1>3. PICK q : q = jobQueue
  OBVIOUS
<1> DEFINE fr == [fs[Len(fs)] EXCEPT !.jobs = q]
<1>4. fr \in FrameRecord /\ fr.kind = "drain" /\ fr.jobs = q
  BY <1>0, <1>1, <1>2, <1>3 DEF FrameRecord, Draining
<1>5. frames' = [fs EXCEPT ![Len(fs)] = fr]
  BY <1>1, <1>3 DEF leaveSwap
<1> HIDE DEF fr
<1>6. PICK gs \in Seq(FrameRecord) : /\ gs = frames' /\ Len(gs) = Len(fs)
                                     /\ \A d \in 1..Len(fs) : gs[d] = IF d = Len(fs) THEN fr ELSE fs[d]
  BY <1>2, <1>4, <1>5, ExceptSeq
<1>7. \A d \in 1..Len(fs) : gs[d].kind = fs[d].kind /\ (d # Len(fs) => gs[d] = fs[d])
  BY <1>0, <1>1, <1>2, <1>4, <1>6 DEF Draining
<1>8. JobsDistinct(<<>>, gs) /\ \A j : j \in Waiting(<<>>, gs) <=> j \in Waiting(q, fs)
  <2>1. q \in Seq(JobRecord) /\ JobsDistinct(q, fs) /\ fs[Len(fs)].jobs = <<>> /\ gs[Len(fs)].jobs = q
    BY <1>0, <1>1, <1>2, <1>3, <1>4, <1>6
  <2> QED
    BY <1>1, <1>2, <1>6, <1>7, <2>1, SwapQueue
<1>9. FramesOK(gs)
  <2>1. gs[1].kind \in Entry
    BY <1>1, <1>2, <1>7 DEF Inv, Core, FramesOK
  <2>2. ASSUME NEW d \in 1..Len(gs)
        PROVE  /\ FrameOK(gs[d])
               /\ gs[d].kind = "drain" => d > 1 /\ gs[d - 1].kind \in Entry
    <3>1. FrameOK(gs[d])
      <4>1. FrameOK(fr)
        BY <1>4 DEF FrameOK
      <4> QED
        BY <1>1, <1>2, <1>6, <4>1 DEF Inv, Core, FramesOK
    <3>2. fs[d].kind = "drain" => d > 1 /\ fs[d - 1].kind \in Entry
      BY <1>1, <1>2, <1>6 DEF Inv, Core, FramesOK
    <3> QED
      BY <1>2, <1>6, <1>7, <3>1, <3>2
  <2>3. ASSUME NEW d \in 1..Len(gs), NEW e \in 1..Len(gs), gs[d].kind = "program", gs[e].kind = "program"
        PROVE  d = e
    BY <1>1, <1>6, <1>7, <2>3 DEF Inv, Core, FramesOK
  <2> QED
    BY <1>6, <2>1, <2>2, <2>3 DEF FramesOK
<1>10. DrainsAlone(gs)
  BY <1>1, <1>2, <1>6, <1>7 DEF Inv, Core, DrainsAlone
<1>11. \A p \in Promise : DecidingGetters(gs, p) = DecidingGetters(fs, p)
  <2>1. fs[Len(fs)].kind = "drain" /\ gs[Len(fs)].kind = "drain"
    BY <1>0, <1>1, <1>2, <1>4, <1>6 DEF Draining
  <2> QED
    BY <1>2, <1>6, <1>7, <2>1 DEF DecidingGetters
<1>12. /\ JobsDistinct(jobQueue', gs) /\ jobQueue' \in Seq(JobRecord)
       /\ Waiting(jobQueue', gs) \subseteq WaitingIn(fs) /\ WaitingIn(fs) \subseteq Waiting(jobQueue', gs)
  <2>1. jobQueue' = <<>> /\ <<>> \in Seq(JobRecord) /\ \A j : j \in WaitingIn(fs) <=> j \in Waiting(q, fs)
    BY <1>0, <1>3, EmptySeq DEF WaitingIn
  <2> QED
    BY ONLY <1>8, <2>1
<1>13. Inv(frames)'
  BY <1>0, <1>1, <1>6, <1>9, <1>10, <1>11, <1>12, QueueMoves DEF runVars
<1> QED
  BY <1>2, <1>6, <1>13, EmptySeq

\* leaveEnd: the entry and its leave() go, and neither has a job or decides a promise.
LEMMA leaveEndKeeps ==
    ASSUME IndInv, leaveEnd
    PROVE  Inv(frames)' /\ jobQueue' = <<>>
<1>0. Draining /\ Top.jobs = <<>> /\ Still /\ jobQueue' = <<>>
  BY DEF leaveEnd, Still
<1>1. PICK fs : fs = frames /\ Inv(fs) /\ fs # <<>> /\ Depth = Len(fs) /\ Top = fs[Len(fs)]
  BY <1>0, RunningOn
<1>2. /\ fs \in Seq(FrameRecord) /\ Len(fs) \in Nat \ {0} /\ Len(fs) \in 1..Len(fs)
      /\ fs[Len(fs)].kind \notin Entry => Len(fs) > 1
  BY <1>1, TopIs
<1>3. Len(fs) > 1 /\ fs[Len(fs) - 1].kind \in Entry
  BY <1>0, <1>1, <1>2 DEF Draining, Entry, Inv, Core, FramesOK
<1>k. Len(fs) - 2 \in 0..Len(fs)
  BY <1>2, <1>3
<1>4. PICK k \in 0..Len(fs) : k = Len(fs) - 2
  BY <1>k
<1>5. PICK gs : gs = frames' /\ gs = SubSeq(fs, 1, k)
  BY <1>1, <1>4 DEF leaveEnd
<1>6. gs \in Seq(FrameRecord) /\ Len(gs) = k /\ \A d \in 1..k : gs[d] = fs[d]
  BY <1>2, <1>5, PrefixIs
<1>7. ASSUME NEW d \in (k + 1)..Len(fs) PROVE fs[d].jobs = <<>> /\ fs[d].kind # "getter"
  <2>1. CASE d = Len(fs)
    BY <1>0, <1>1, <2>1 DEF Draining
  <2>2. CASE d = Len(fs) - 1
    <3>1. d \in 1..Len(fs)
      BY <1>2, <1>3, <2>2
    <3>2. FrameOK(fs[d])
      BY <1>1, <3>1 DEF Inv, Core, FramesOK
    <3> QED
      BY <1>3, <2>2, <3>2 DEF FrameOK, Entry
  <2> QED
    BY <1>2, <1>4, <2>1, <2>2
<1>8. Inv(gs)
  BY <1>1, <1>6, <1>7, Truncate
<1> QED
  BY <1>0, <1>5, <1>8, StillKeeps

\* abort: what the interrupt cuts off may have been the decider of a promise, which is why
\* OneDecider asks for one only while interrupts = 0.
LEMMA abortKeeps ==
    ASSUME IndInv, abort
    PROVE  Inv(frames)' /\ (frames' = <<>> => jobQueue' = <<>>)
<1>0. Running /\ interrupted /\ UNCHANGED <<promiseVars, fnVars, reactions, interrupts, ran, resumed>>
  BY DEF abort
<1>1. PICK fs : fs = frames /\ Inv(fs) /\ fs # <<>> /\ Depth = Len(fs) /\ Top = fs[Len(fs)]
  BY <1>0, RunningOn
<1>2. fs \in Seq(FrameRecord) /\ Len(fs) \in Nat \ {0} /\ interrupts > 0
  <2>1. TypeOK /\ interrupted
    BY <1>0, <1>1 DEF Inv, Core
  <2>2. interrupts > 0
    BY ONLY <2>1 DEF TypeOK
  <2> QED
    BY <1>1, <2>2, TopIs
<1>3. PICK n \in 1..Len(fs) : /\ frames' = SubSeq(fs, 1, n - 1)
                              /\ IF InScript(SubSeq(fs, 1, n - 1)) THEN UNCHANGED <<jobQueue, interrupted>>
                                 ELSE jobQueue' = <<>> /\ interrupted' = FALSE
  BY <1>1 DEF abort
<1>k. n - 1 \in 0..Len(fs)
  BY <1>2
<1>4. PICK k \in 0..Len(fs) : k = n - 1
  BY <1>k
<1>5. PICK gs : gs = frames' /\ gs = SubSeq(fs, 1, k)
  BY <1>3, <1>4
<1>6. gs \in Seq(FrameRecord) /\ Len(gs) = k /\ \A d \in 1..k : gs[d] = fs[d]
  BY <1>2, <1>5, PrefixIs
<1>7. Inv(gs)
  BY <1>1, <1>2, <1>6, Truncate
<1>8. \/ InScript(gs) /\ UNCHANGED <<jobQueue, interrupted>>
      \/ jobQueue' = <<>> /\ interrupted' = FALSE
  BY <1>3, <1>4, <1>5
<1>9. /\ FramesOK(gs) /\ DrainsAlone(gs) /\ JobsDistinct(jobQueue, gs) /\ jobQueue \in Seq(JobRecord)
  BY <1>7 DEF Inv, Core, TypeOK
<1>10. JobsDistinct(<<>>, gs) /\ Waiting(<<>>, gs) \subseteq Waiting(jobQueue, gs) /\ <<>> \in Seq(JobRecord)
  <2>0. Len(<<>>) = 0 /\ <<>> \in Seq(JobRecord)
    BY EmptySeq
  <2>1. ASSUME NEW d \in 0..Len(gs), NEW m \in 1..Len(Batch(<<>>, gs, d))
        PROVE  Batch(<<>>, gs, d) = Batch(jobQueue, gs, d)
    BY <2>0 DEF Batch
  <2>2. ASSUME NEW d \in 0..Len(gs), NEW e \in 0..Len(gs),
               NEW m \in 1..Len(Batch(<<>>, gs, d)), NEW l \in 1..Len(Batch(<<>>, gs, e)),
               Key(Batch(<<>>, gs, d)[m]) = Key(Batch(<<>>, gs, e)[l])
        PROVE  d = e /\ m = l
    <3>1. Batch(<<>>, gs, d) = Batch(jobQueue, gs, d) /\ Batch(<<>>, gs, e) = Batch(jobQueue, gs, e)
      BY <2>1
    <3> QED
      BY <1>9, <2>2, <3>1, KeyPlaces
  <2>3. JobsDistinct(<<>>, gs)
    BY <2>2 DEF JobsDistinct
  <2>4. Waiting(<<>>, gs) \subseteq Waiting(jobQueue, gs)
    BY <2>0 DEF Waiting, Elements
  <2> QED
    BY <2>0, <2>3, <2>4
<1>11. /\ JobsDistinct(jobQueue', gs) /\ jobQueue' \in Seq(JobRecord) /\ Waiting(jobQueue', gs) \subseteq WaitingIn(gs)
  BY <1>8, <1>9, <1>10 DEF WaitingIn
<1>12. \A p \in Promise : DecidingGetters(gs, p) = DecidingGetters(gs, p)
  OBVIOUS
<1>13. interrupted' = interrupted \/ interrupted' = FALSE
  BY <1>8
<1>14. Inv(frames)'
  BY <1>0, <1>2, <1>5, <1>7, <1>9, <1>11, <1>12, <1>13, QueueMoves
<1>15. frames' = <<>> => jobQueue' = <<>>
  <2>1. gs = <<>> => ~InScript(gs)
    BY EmptySeq DEF InScript
  <2> QED
    BY <1>5, <1>8, <2>1
<1> QED
  BY <1>14, <1>15

\* Interrupt
LEMMA InterruptKeeps ==
    ASSUME IndInv, Interrupt
    PROVE  Inv(frames)' /\ UNCHANGED <<frames, jobQueue>>
<1>0. /\ TypeOK /\ UNCHANGED <<frames, jobQueue>>
      /\ UNCHANGED <<state, result, handled, fulfillReactions, rejectReactions, thenables, unhandled>>
      /\ UNCHANGED <<fnPromise, alreadyResolved, fnHeld, ran, resumed, reactions>>
      /\ interrupted' = TRUE /\ interrupts < MaxInterrupts /\ interrupts' = interrupts + 1
  BY DEF IndInv, Inv, Core, promiseVars, fnVars, Interrupt
<1>1. interrupts \in Nat /\ interrupts' \in 0..MaxInterrupts /\ interrupts' > 0
  BY <1>0, PromiseJobsAssumption DEF TypeOK
<1>2. TypeOK'
  BY <1>0, <1>1 DEF TypeOK, Promise, Fn, Primitive, AnObject, Reaction, JobRecord, Settled, NoReaction
<1>3. WaitingIn(frames)' = WaitingIn(frames) /\ Made' = Made /\ QueuedIn(frames)' = QueuedIn(frames)
  BY <1>0 DEF WaitingIn, Made, QueuedIn
<1>4. \A q \in Promise : Registered(q)' = Registered(q)
  BY <1>0 DEF Registered
<1>5. FramesOK(frames)' /\ DrainsAlone(frames)' /\ TrackerAgrees' /\ JobsDistinct(jobQueue, frames)'
  BY <1>0 DEF IndInv, Inv, Core, FramesOK, FrameOK, ReactionOK, Usable, DrainsAlone, TrackerAgrees, Promise
<1>6. JobsOK(frames)' /\ PairsOK(frames)'
  BY <1>0, <1>3 DEF IndInv, Inv, Core, JobsOK, JobOK, ReactionOK, Usable, PairsOK, Promise, Fn
<1>7. ReactionsApart(frames)' /\ RunsOnce(frames)'
  BY <1>0, <1>3, <1>4 DEF IndInv, Inv, Core, ReactionsApart, RunsOnce, Promise
<1>8. \A q \in Promise : Deciders(frames, q)' = Deciders(frames, q)
  BY <1>0, <1>3 DEF Deciders, DecidingPairs, DecidingJobs, DecidingGetters, Fn
<1>9. OneDecider(frames)'
  BY <1>0, <1>1, <1>8 DEF IndInv, Inv, OneDecider, Promise, Settled
<1> QED
  BY <1>0, <1>2, <1>5, <1>6, <1>7, <1>9 DEF Inv, Core

-----------------------------------------------------------------------------
(* The jobs *)

\* leave() takes the job j from its batch on the frames fs, which leaves gs: j waits
\* no more, everything else does.
Takes(fs, gs, j) ==
    /\ fs = frames /\ gs = Popped /\ j = Job /\ Inv(fs) /\ Core(gs) /\ gs # <<>>
    /\ \A p \in Promise : DecidingGetters(gs, p) = DecidingGetters(fs, p)
    /\ WaitingIn(gs) \subseteq WaitingIn(fs)
    /\ \A w \in WaitingIn(fs) : w = j \/ w \in WaitingIn(gs)
    /\ j \in WaitingIn(fs) /\ j \in JobRecord /\ JobOK(j)
    /\ \A w \in WaitingIn(gs) : Key(w) # Key(j)

\* That is what becomes of the first job of a batch.
LEMMA PoppedIs ==
    ASSUME IndInv, Draining, Top.jobs # <<>>
    PROVE  \E fs, gs, j : Takes(fs, gs, j)
<1>1. PICK fs : fs = frames /\ Inv(fs) /\ fs # <<>> /\ Depth = Len(fs) /\ Top = fs[Len(fs)]
  BY RunningOn
<1>2. fs[Len(fs)].kind = "drain" /\ fs[Len(fs)].jobs # <<>>
  BY <1>1 DEF Draining
<1>3. PICK j : j = Job /\ j = Head(fs[Len(fs)].jobs)
  BY <1>1 DEF Job
<1>4. PICK gs : /\ gs = Popped
                /\ gs = [fs EXCEPT ![Len(fs)] = [fs[Len(fs)] EXCEPT !.jobs = Tail(fs[Len(fs)].jobs)]]
  BY <1>1 DEF Popped
<1>5. /\ FramesOK(gs) /\ DrainsAlone(gs) /\ JobsDistinct(jobQueue, gs) /\ gs # <<>>
      /\ \A p \in Promise : DecidingGetters(gs, p) = DecidingGetters(fs, p)
      /\ WaitingIn(gs) \subseteq WaitingIn(fs)
      /\ \A w \in WaitingIn(fs) : w = j \/ w \in WaitingIn(gs)
      /\ j \in WaitingIn(fs)
      /\ \A w \in WaitingIn(gs) : Key(w) # Key(j)
  BY ONLY <1>1, <1>2, <1>3, <1>4, PopJob, ZenonT(60)
<1>6. Core(gs)
  BY ONLY <1>1, <1>5, CoreMoves DEF Inv
<1>7. fs \in Seq(FrameRecord) /\ jobQueue \in Seq(JobRecord)
  BY <1>1 DEF Inv, Core, TypeOK, FramesOK
<1>8. j \in JobRecord /\ JobOK(j)
  <2>1. j \in JobRecord
    BY ONLY <1>5, <1>7, WaitingType DEF WaitingIn
  <2>2. JobOK(j)
    BY <1>1, <1>5 DEF Inv, Core, JobsOK
  <2> QED
    BY <2>1, <2>2
<1> QED
  <2>1. Takes(fs, gs, j)
    BY ONLY <1>1, <1>3, <1>4, <1>5, <1>6, <1>8 DEF Takes
  <2> QED
    BY ONLY <2>1

\* A frame that runs the handler of a job.
LEMMA HandlerIs ==
    ASSUME NEW j \in JobRecord, j.reaction \in Reaction, ReactionOK(j.reaction), NEW js \in BOOLEAN
    PROVE  /\ Frame("handler", js, 0, j) \in FrameRecord /\ FrameOK(Frame("handler", js, 0, j))
           /\ Frame("handler", js, 0, j).kind = "handler"
<1>1. <<>> \in Seq(JobRecord)
  BY EmptySeq
<1>2. 0 \in 0..(MaxPromises + MaxThenables)
  BY PromiseJobsAssumption
<1>3. Frame("handler", js, 0, j) \in FrameRecord
  BY <1>1, <1>2 DEF Frame, FrameRecord
<1> QED
  BY <1>3 DEF Frame, FrameOK

\* runReactionJob: the reaction has not run before, and nothing of it waits any more.
LEMMA runReactionJobKeeps ==
    ASSUME IndInv, runReactionJob
    PROVE  Inv(frames)' /\ frames' # <<>>
<1>0. Draining /\ Top.jobs # <<>> /\ Job.kind = "reaction" /\ UNCHANGED <<fnPromise, fnHeld, reactions, interrupted, interrupts>>
  BY DEF runReactionJob
<1>t. PICK fs, gs, j : Takes(fs, gs, j)
  BY ONLY <1>0, IndInv, PoppedIs
<1>1. /\ fs = frames /\ gs = Popped /\ j = Job /\ Inv(fs) /\ Core(gs) /\ gs # <<>>
      /\ \A p \in Promise : DecidingGetters(gs, p) = DecidingGetters(fs, p)
      /\ WaitingIn(gs) \subseteq WaitingIn(fs)
      /\ \A w \in WaitingIn(fs) : w = j \/ w \in WaitingIn(gs)
      /\ j \in WaitingIn(fs) /\ j \in JobRecord /\ JobOK(j)
      /\ \A w \in WaitingIn(gs) : Key(w) # Key(j)
  BY ONLY <1>t DEF Takes
<1>2. j.kind = "reaction" /\ j.reaction \in Reaction /\ ReactionOK(j.reaction)
  BY <1>0, <1>1 DEF JobOK
<1>3. Inv(gs)
  <2>1. FramesOK(gs) /\ DrainsAlone(gs) /\ JobsDistinct(jobQueue, gs)
    BY <1>1 DEF Core
  <2>2. \A w \in WaitingIn(fs) : w.kind = "thenable" => w \in WaitingIn(gs)
    BY <1>1, <1>2
  <2> QED
    BY ONLY <1>1, <2>1, <2>2, FramesMove
<1>4. PICK re : re = j.reaction
  OBVIOUS
<1>5. /\ ran' = ran \union {re.id}
      /\ \/ /\ re.handler = "none" /\ resumed' = resumed
            /\ \/ resolveFn(re.cap, j.arg, gs)
               \/ rejectFn(re.cap, gs)
         \/ /\ resumed' = resumed \union {re.id}
            /\ frames' = Append(gs, Frame("handler", re.handler = "js", 0, j))
            /\ UNCHANGED <<promiseVars, alreadyResolved, jobQueue>>
  BY <1>1, <1>4 DEF runReactionJob
<1>6. RanGrows(gs)
  <2>1. re.id \in QueuedIn(fs)
    BY <1>1, <1>2, <1>4 DEF QueuedIn
  <2>2. re.id \in 1..(MaxReactions + MaxThenables) /\ Bounded(re.id)
    BY <1>1, <2>1, InUse DEF Inv
  <2>3. \A p \in Promise : re.id \notin Registered(p)
    BY <1>1, <2>1 DEF Inv, Core, RunsOnce
  <2>4. re.id \notin QueuedIn(gs)
    BY <1>1, <1>2, <1>4 DEF QueuedIn, Key
  <2>5. resumed \subseteq ran
    BY <1>1 DEF Inv, Core, TypeOK
  <2> QED
    BY <1>5, <2>2, <2>3, <2>4, <2>5 DEF RanGrows
<1>7. CallFrame(gs)
  BY <1>0, <1>6 DEF CallFrame
<1>8. (re.cap = 0 \/ Usable(re.cap)) /\ gs \in Seq(FrameRecord)
  BY <1>1, <1>2, <1>4 DEF ReactionOK, Core, FramesOK
<1>9. CASE resolveFn(re.cap, j.arg, gs)
  BY <1>1, <1>3, <1>7, <1>8, <1>9, ResolveKeeps, ResolveStays
<1>10. CASE rejectFn(re.cap, gs)
  BY <1>1, <1>3, <1>7, <1>8, <1>10, RejectKeeps, ResolveStays
<1>11. CASE /\ frames' = Append(gs, Frame("handler", re.handler = "js", 0, j))
            /\ UNCHANGED <<promiseVars, alreadyResolved, jobQueue>>
  <2>2. PICK fr : fr = Frame("handler", re.handler = "js", 0, j)
    OBVIOUS
  <2>3. fr \in FrameRecord /\ FrameOK(fr) /\ fr.kind = "handler"
    BY <1>1, <1>2, <2>2, HandlerIs
  <2>4. Inv(Append(gs, fr)) /\ WaitingIn(Append(gs, fr)) \subseteq WaitingIn(gs)
    BY <1>1, <1>3, <2>3, Push
  <2>5. PICK hs : hs = Append(gs, fr)
    OBVIOUS
  <2>6. CallFrame(hs)
    <3>1. QueuedIn(hs) \subseteq QueuedIn(gs)
      BY <2>4, <2>5 DEF QueuedIn
    <3> QED
      BY <1>7, <3>1 DEF CallFrame, RanGrows
  <2>7. frames' = hs /\ Inv(hs)
    BY <1>11, <2>2, <2>4, <2>5
  <2>8. Inv(frames)'
    BY <1>11, <2>6, <2>7, UsedPair
  <2>9. frames' # <<>>
    BY <1>8, <2>5, <2>7, AppendNotEmpty
  <2> QED
    BY <2>8, <2>9
<1> QED
  BY <1>5, <1>9, <1>10, <1>11

-----------------------------------------------------------------------------
(* The end of a callback *)

\* handlerFn: the frame keeps what the handler's end needs.
LEMMA handlerFnKeeps ==
    ASSUME IndInv, handlerFn
    PROVE  Inv(frames)' /\ frames' # <<>>
<1>0. Running /\ Top.kind = "handler" /\ UNCHANGED <<fnPromise, fnHeld, reactions, runVars>>
  BY DEF handlerFn
<1>1. PICK fs : fs = frames /\ Inv(fs) /\ fs # <<>> /\ Depth = Len(fs) /\ Top = fs[Len(fs)]
  BY <1>0, RunningOn
<1>2. PICK fr : fr = fs[Len(fs)] /\ fr \in FrameRecord /\ FrameOK(fr) /\ fr.kind = "handler"
  BY <1>0, <1>1, TopIs
<1>3. PICK re : re = fr.job.reaction /\ re \in Reaction /\ ReactionOK(re)
  BY <1>2 DEF FrameOK
<1>4. PICK hr : hr = [fr EXCEPT !.job.reaction.handler = "done"]
  OBVIOUS
<1>5. /\ hr \in FrameRecord /\ hr.kind = fr.kind /\ hr.jobs = fr.jobs /\ hr.fn = fr.fn
      /\ hr.job.reaction = [re EXCEPT !.handler = "done"]
  <2>1. [re EXCEPT !.handler = "done"] \in Reaction
    BY <1>3 DEF Reaction
  <2>2. hr.job = [fr.job EXCEPT !.reaction = [re EXCEPT !.handler = "done"]]
    BY <1>2, <1>3, <1>4 DEF FrameRecord
  <2>3. fr.job \in JobRecord
    BY <1>2 DEF FrameRecord
  <2>4. hr.job \in JobRecord /\ hr.job.reaction = [re EXCEPT !.handler = "done"]
    BY ONLY <2>1, <2>2, <2>3 DEF JobRecord
  <2>5. hr = [fr EXCEPT !.job = hr.job]
    BY <1>2, <1>4, <2>2, <1>3 DEF FrameRecord
  <2> QED
    BY ONLY <1>2, <2>4, <2>5 DEF FrameRecord
<1>6. FrameOK(hr)
  <2>1. ReactionOK([re EXCEPT !.handler = "done"]) /\ [re EXCEPT !.handler = "done"] \in Reaction
    BY <1>3 DEF Reaction, ReactionOK
  <2> QED
    BY <1>2, <1>5, <2>1 DEF FrameOK
<1>7. PICK gs : gs = [fs EXCEPT ![Len(fs)] = hr]
  OBVIOUS
<1>8. Inv(gs)
  BY <1>1, <1>2, <1>5, <1>6, <1>7, SetTop
<1>9. gs \in Seq(FrameRecord) /\ gs # <<>>
  <2>1. fs \in Seq(FrameRecord) /\ Len(fs) \in Nat \ {0}
    BY <1>1, TopIs
  <2> QED
    BY <1>5, <1>7, <2>1, ExceptSeq, EmptySeq
<1>10. gs = [frames EXCEPT ![Depth].job.reaction.handler = "done"]
  BY <1>1, <1>2, <1>4, <1>7
<1>11. \/ re.handler = "resolve" /\ resolveFn(re.fn, fr.job.arg, gs)
       \/ re.handler = "reject" /\ rejectFn(re.fn, gs)
  BY <1>1, <1>2, <1>3, <1>10 DEF handlerFn
<1>12. Usable(re.fn)
  BY <1>3, <1>11 DEF ReactionOK
<1>13. CallFrame(gs)
  BY <1>0, <1>8, CallsFn
<1>14. resolveFn(re.fn, fr.job.arg, gs) \/ rejectFn(re.fn, gs)
  BY <1>11
<1> QED
  BY <1>8, <1>9, <1>12, <1>13, <1>14, ResolveKeeps, RejectKeeps, ResolveStays

\* The frames when a handler is done, and its reaction.
LEMMA HandlerDone ==
    ASSUME IndInv, Running, Top.kind \in {"handler", "thenCall"}, UNCHANGED <<fnPromise, fnHeld, reactions, runVars>>
    PROVE  \E gs : /\ gs = Under(frames) /\ Inv(gs) /\ gs # <<>> /\ gs \in Seq(FrameRecord) /\ CallFrame(gs)
                   /\ Top.kind = "handler" => Top.job.reaction.cap = 0 \/ Usable(Top.job.reaction.cap)
                   /\ Top.kind = "thenCall" => Usable(Top.fn)
<1>1. PICK fs : fs = frames /\ Inv(fs) /\ fs # <<>> /\ Depth = Len(fs) /\ Top = fs[Len(fs)]
  BY RunningOn
<1>2. FrameOK(Top)
  BY <1>1, TopIs
<1>3. PICK gs : gs = Under(fs)
  OBVIOUS
<1>4. Inv(gs) /\ gs # <<>> /\ gs \in Seq(FrameRecord)
  BY <1>1, <1>3, UnderKeeps DEF Entry
<1>5. CallFrame(gs)
  BY <1>4, CallsFn
<1>6. /\ Top.kind = "handler" => Top.job.reaction.cap = 0 \/ Usable(Top.job.reaction.cap)
      /\ Top.kind = "thenCall" => Usable(Top.fn)
  BY <1>2 DEF FrameOK, ReactionOK
<1> QED
  BY ONLY <1>1, <1>3, <1>4, <1>5, <1>6

\* handlerReturns: the capability is resolved under the frame of the handler.
LEMMA handlerReturnsKeeps ==
    ASSUME IndInv, NEW x \in Values, handlerReturns(x)
    PROVE  Inv(frames)' /\ frames' # <<>>
<1>0. Running /\ Top.kind = "handler" /\ UNCHANGED <<fnPromise, fnHeld, reactions, runVars>>
  BY DEF handlerReturns
<1>1. PICK gs : /\ gs = Under(frames) /\ Inv(gs) /\ gs # <<>> /\ gs \in Seq(FrameRecord) /\ CallFrame(gs)
                /\ Top.job.reaction.cap = 0 \/ Usable(Top.job.reaction.cap)
  BY <1>0, HandlerDone
<1>2. PICK f : f = Top.job.reaction.cap
  OBVIOUS
<1>3. resolveFn(f, x, gs)
  BY <1>1, <1>2 DEF handlerReturns
<1> QED
  BY <1>1, <1>2, <1>3, ResolveKeeps, ResolveStays

\* handlerThrows: the capability is rejected.
LEMMA handlerThrowsKeeps ==
    ASSUME IndInv, handlerThrows
    PROVE  Inv(frames)' /\ frames' # <<>>
<1>0. Running /\ Top.kind = "handler" /\ UNCHANGED <<fnPromise, fnHeld, reactions, runVars>>
  BY DEF handlerThrows
<1>1. PICK gs : /\ gs = Under(frames) /\ Inv(gs) /\ gs # <<>> /\ gs \in Seq(FrameRecord) /\ CallFrame(gs)
                /\ Top.job.reaction.cap = 0 \/ Usable(Top.job.reaction.cap)
  BY <1>0, HandlerDone
<1>2. PICK f : f = Top.job.reaction.cap
  OBVIOUS
<1>3. rejectFn(f, gs)
  BY <1>1, <1>2 DEF handlerThrows
<1> QED
  BY <1>1, <1>2, <1>3, RejectKeeps, ResolveStays

\* thenCallEnds: a throw rejects the promise unless the thenable resolved it.
LEMMA thenCallEndsKeeps ==
    ASSUME IndInv, thenCallEnds
    PROVE  Inv(frames)' /\ frames' # <<>>
<1>0. Running /\ Top.kind = "thenCall" /\ UNCHANGED <<fnPromise, fnHeld, reactions, runVars>>
  BY DEF thenCallEnds, InJS
<1>1. PICK gs : /\ gs = Under(frames) /\ Inv(gs) /\ gs # <<>> /\ gs \in Seq(FrameRecord) /\ CallFrame(gs)
                /\ Usable(Top.fn)
  BY <1>0, HandlerDone
<1>2. PICK f : f = Top.fn
  OBVIOUS
<1>3. \/ frames' = gs /\ UNCHANGED <<promiseVars, alreadyResolved, jobQueue>>
      \/ rejectFn(f, gs)
  BY <1>1, <1>2 DEF thenCallEnds
<1> QED
  BY <1>1, <1>2, <1>3, RejectKeeps, ResolveStays, UsedPair

\* getterEnds: the resolve function that read the then property was the one to
\* decide the promise, and now settles it or hands it to a thenable job.
LEMMA getterEndsKeeps ==
    ASSUME IndInv, NEW t \in {"callable", "other", "threw"}, getterEnds(t)
    PROVE  Inv(frames)' /\ frames' # <<>>
<1>0. Running /\ Top.kind = "getter" /\ UNCHANGED <<fnPromise, alreadyResolved, fnHeld, reactions, runVars>>
  BY DEF getterEnds, InJS, fnVars
<1>1. PICK fs : fs = frames /\ Inv(fs) /\ fs # <<>> /\ Depth = Len(fs) /\ Top = fs[Len(fs)]
  BY <1>0, RunningOn
<1>2. /\ fs \in Seq(FrameRecord) /\ Len(fs) \in Nat \ {0} /\ Len(fs) \in 1..Len(fs)
      /\ Len(fs) > 1 /\ fs[Len(fs)].kind = "getter" /\ fs[Len(fs)].jobs = <<>>
  BY <1>0, <1>1, TopIs DEF Entry, FrameOK
<1>3. PICK p : p = fnPromise[fs[Len(fs)].fn]
  OBVIOUS
<1>4. /\ p \in Promise /\ state[p] = "pending" /\ DecidingPairs(p) = {} /\ DecidingJobs(fs, p) = {}
      /\ DecidingGetters(fs, p) = {Len(fs)}
  BY <1>1, <1>2, <1>3, GetterDecides
<1>k. Len(fs) - 1 \in 0..Len(fs)
  BY <1>2
<1>5. PICK k \in 0..Len(fs) : k = Len(fs) - 1
  BY <1>k
<1>6. PICK gs : gs = frames' /\ gs = SubSeq(fs, 1, k)
  BY <1>1, <1>5 DEF getterEnds, Under
<1>7. gs \in Seq(FrameRecord) /\ Len(gs) = k /\ \A d \in 1..k : gs[d] = fs[d]
  BY <1>2, <1>6, PrefixIs
<1>8. /\ Core(gs) /\ WaitingIn(gs) \subseteq WaitingIn(fs) /\ WaitingIn(fs) \subseteq WaitingIn(gs)
      /\ \A q \in Promise : \A d : d \in DecidingGetters(gs, q) <=> d \in DecidingGetters(fs, q) /\ d <= k
  <2>1. \A d \in (k + 1)..Len(fs) : fs[d].jobs = <<>>
    BY <1>2, <1>5
  <2>2. Core(fs)
    BY <1>1 DEF Inv
  <2> QED
    BY ONLY <1>5, <1>7, <2>1, <2>2, TruncateCore
<1>9. \A q \in Promise : DecidingJobs(gs, q) = DecidingJobs(fs, q)
  <2>1. WaitingIn(gs) = WaitingIn(fs)
    BY <1>8
  <2> QED
    BY <2>1 DEF DecidingJobs
<1>10. DecidingGetters(gs, p) = {}
  BY <1>2, <1>4, <1>5, <1>8
<1>11. ASSUME NEW q \in Promise, q # p PROVE DecidingGetters(gs, q) = DecidingGetters(fs, q)
  <2>1. ASSUME NEW d \in DecidingGetters(fs, q) PROVE d <= k
    <3>1. d \in 1..Len(fs) /\ d # Len(fs)
      BY <1>3, <1>11, <2>1 DEF DecidingGetters
    <3> QED
      BY <1>2, <1>5, <3>1
  <2>2. \A d : d \in DecidingGetters(gs, q) <=> d \in DecidingGetters(fs, q)
    BY <1>8, <2>1
  <2> QED
    BY <2>2
<1>12. FlagsGrow /\ RanGrows(gs) /\ UNCHANGED <<fnPromise, fnHeld, reactions, interrupted, interrupts>> /\ OneDecider(fs)
  BY <1>0, <1>1 DEF FlagsGrow, RanGrows, runVars, Inv, Core, TypeOK
<1>13. \A q \in Promise : DecidingPairs(q)' = DecidingPairs(q)
  BY <1>0 DEF DecidingPairs
<1>14. frames' = gs /\ resolveObject(p, t)
  BY <1>1, <1>3, <1>6 DEF getterEnds
<1>17. frames' # <<>>
  BY <1>2, <1>5, <1>7, <1>14, EmptySeq
<1>15. CASE enqueueThenable(p, AnObject)
  <2>1. p \in Made
    BY <1>4 DEF Made
  <2>2. /\ Core(frames)' /\ state' = state
        /\ \E w : DecidingJobs(frames, p)' = {w}
        /\ \A q \in Promise : /\ q # p => DecidingJobs(frames, q)' = DecidingJobs(gs, q)
                              /\ DecidingGetters(frames, q)' = DecidingGetters(gs, q)
    BY <1>4, <1>8, <1>9, <1>12, <1>14, <1>15, <2>1, EnqueueDecides
  <2>3. \A q \in Promise : q # p => Untouched(fs, q)
    BY <1>9, <1>11, <1>13, <2>2 DEF Untouched
  <2>4. \E w : DecidingPairs(p)' = {} /\ DecidingJobs(frames, p)' = {w} /\ DecidingGetters(frames, p)' = {}
    BY <1>4, <1>10, <1>13, <2>2
  <2>5. state'[p] \notin Settled
    BY <1>4, <2>2 DEF Settled
  <2>6. OneDecider(frames)'
    BY <1>4, <1>12, <2>3, <2>4, <2>5, DecidedOnce
  <2> QED
    BY <1>17, <2>2, <2>6 DEF Inv
<1>16. CASE fulfill(p, AnObject) \/ reject(p)
  <2>1. /\ Core(frames)' /\ state'[p] \in Settled
        /\ \A q \in Promise : /\ q # p => state'[q] = state[q]
                              /\ DecidingJobs(frames, q)' = DecidingJobs(gs, q)
                              /\ DecidingGetters(frames, q)' = DecidingGetters(gs, q)
    BY <1>4, <1>8, <1>12, <1>14, <1>16, FulfillCore, RejectCore
  <2>2. \A q \in Promise : q # p => Untouched(fs, q)
    BY <1>9, <1>11, <1>13, <2>1 DEF Untouched
  <2>3. DecidingPairs(p)' = {} /\ DecidingJobs(frames, p)' = {} /\ DecidingGetters(frames, p)' = {}
    BY <1>4, <1>9, <1>10, <1>13, <2>1
  <2>4. OneDecider(frames)'
    BY <1>4, <1>12, <2>1, <2>2, <2>3, DecidedOnce
  <2> QED
    BY <1>17, <2>1, <2>4 DEF Inv
<1> QED
  BY <1>14, <1>15, <1>16 DEF resolveObject

-----------------------------------------------------------------------------
(* New promises and reactions *)

\* A new pair of resolving functions decides its promise, and no other promise.
LEMMA NewPair ==
    ASSUME NEW fs, Core(fs), NEW f \in Fn, fnPromise[f] = 0, NEW p \in Promise, NEW held \in BOOLEAN,
           newFns(f, p, held)
    PROVE  /\ fnPromise' \in [Fn -> 0..MaxPromises] /\ fnHeld' \in [Fn -> BOOLEAN] /\ alreadyResolved' = alreadyResolved
           /\ fnPromise'[f] = p /\ p # 0 /\ \A g \in Fn : g # f => fnPromise'[g] = fnPromise[g] /\ fnHeld'[g] = fnHeld[g]
           /\ \A q \in Promise : \A g : g \in DecidingPairs(q)' <=> g \in DecidingPairs(q) \/ (q = p /\ g = f)
           /\ \A q \in Promise : \A d : d \in DecidingGetters(fs, q)' <=> d \in DecidingGetters(fs, q)
<1>1. /\ fnPromise \in [Fn -> 0..MaxPromises] /\ fnHeld \in [Fn -> BOOLEAN] /\ ~alreadyResolved[f]
      /\ p \in 0..MaxPromises /\ p # 0
  BY PromiseJobsAssumption DEF Core, TypeOK, PairsOK, Promise
<1>2. /\ fnPromise' \in [Fn -> 0..MaxPromises] /\ alreadyResolved' = alreadyResolved
      /\ fnPromise'[f] = p /\ \A g \in Fn : g # f => fnPromise'[g] = fnPromise[g]
  BY <1>1 DEF newFns
<1>3. fnHeld' \in [Fn -> BOOLEAN] /\ \A g \in Fn : g # f => fnHeld'[g] = fnHeld[g]
  BY <1>1 DEF newFns
<1>4. \A q \in Promise : \A g : g \in DecidingPairs(q)' <=> g \in DecidingPairs(q) \/ (q = p /\ g = f)
  <2>1. \A q \in Promise : q # 0
    BY DEF Promise
  <2> QED
    BY <1>1, <1>2, <2>1 DEF DecidingPairs, Fn
<1>5. \A q \in Promise : \A d : d \in DecidingGetters(fs, q)' <=> d \in DecidingGetters(fs, q)
  <2>1. ASSUME NEW d \in 1..Len(fs), fs[d].kind = "getter" PROVE fnPromise'[fs[d].fn] = fnPromise[fs[d].fn]
    <3>1. Usable(fs[d].fn)
      BY <2>1 DEF Core, FramesOK, FrameOK
    <3> QED
      BY <1>2, <3>1 DEF Usable
  <2> QED
    BY <2>1 DEF DecidingGetters
<1> QED
  BY <1>1, <1>2, <1>3, <1>4, <1>5

\* What a new promise leaves to the lemmas on growing state.
LEMMA FreshGrows ==
    ASSUME NEW fs, Core(fs), NEW p \in NextFresh, NEW held \in BOOLEAN,
           state' = [state EXCEPT ![p] = "pending"], newFns(p, p, held),
           reactions' \in 0..MaxReactions, reactions <= reactions', UNCHANGED <<result, thenables, runVars>>
    PROVE  /\ Grows /\ p \in Promise /\ p \in Fn /\ state[p] = "none" /\ fnPromise[p] = 0
           /\ state'[p] = "pending" /\ \A q \in Promise : q # p => state'[q] = state[q]
<1>1. p \in Promise /\ state[p] = "none"
  BY DEF NextFresh, Fresh
<1>2. p \in Fn
  BY <1>1, PromiseJobsAssumption DEF Promise, Fn
<1>3. fnPromise[p] = 0
  BY <1>1 DEF Core, PairsOK
<1>4. state \in [Promise -> {"none", "pending"} \union Settled]
  BY DEF Core, TypeOK
<1>5. /\ fnPromise' \in [Fn -> 0..MaxPromises] /\ fnHeld' \in [Fn -> BOOLEAN] /\ alreadyResolved' = alreadyResolved
      /\ \A g \in Fn : g # p => fnPromise'[g] = fnPromise[g]
  BY <1>1, <1>2, <1>3, NewPair
<1>6. /\ state' \in [Promise -> {"none", "pending"} \union Settled]
      /\ state'[p] = "pending" /\ \A q \in Promise : q # p => state'[q] = state[q]
  BY <1>1, <1>4
<1>7. Grows
  BY <1>1, <1>3, <1>5, <1>6 DEF Grows
<1> QED
  BY <1>1, <1>2, <1>3, <1>6, <1>7

\* A new promise has its own pair of resolving functions to decide it and nobody else.
LEMMA FreshPair ==
    ASSUME NEW fs, Inv(fs), NEW p \in NextFresh, NEW held \in BOOLEAN,
           state' = [state EXCEPT ![p] = "pending"], newFns(p, p, held), frames' = fs,
           reactions' \in 0..MaxReactions, reactions <= reactions', UNCHANGED <<result, thenables, runVars>>,
           \A j : j.kind = "thenable" => (j \in WaitingIn(frames)' <=> j \in WaitingIn(fs))
    PROVE  PairsOK(frames)' /\ OneDecider(frames)'
<1>1. /\ Grows /\ p \in Promise /\ p \in Fn /\ state[p] = "none" /\ fnPromise[p] = 0
      /\ state'[p] = "pending" /\ \A q \in Promise : q # p => state'[q] = state[q]
  BY FreshGrows DEF Inv
<1>2. /\ alreadyResolved' = alreadyResolved /\ fnPromise'[p] = p /\ p # 0
      /\ \A g \in Fn : g # p => fnPromise'[g] = fnPromise[g] /\ fnHeld'[g] = fnHeld[g]
      /\ \A q \in Promise : \A g : g \in DecidingPairs(q)' <=> g \in DecidingPairs(q) \/ (q = p /\ g = p)
      /\ \A q \in Promise : \A d : d \in DecidingGetters(fs, q)' <=> d \in DecidingGetters(fs, q)
  BY <1>1, NewPair DEF Inv
<1>3. PairsOK(fs) /\ JobsOK(fs) /\ FramesOK(fs) /\ thenables \in 0..MaxThenables /\ OneDecider(fs)
  BY DEF Inv, Core, TypeOK
<1>4. \A n \in 1..MaxThenables : MaxPromises + n \in Fn /\ MaxPromises + n # p
  BY <1>1, PromiseJobsAssumption DEF Promise, Fn
<1>5. \A q \in Promise : q \in Fn
  BY PromiseJobsAssumption DEF Promise, Fn
<1>6. Made' = Made \union {p} /\ p \notin Made
  BY <1>1 DEF Made, Promise
<1>7. PairsOK(frames)'
  <2>1. \A q \in Promise : fnPromise'[q] = IF state'[q] = "none" THEN 0 ELSE q
    BY <1>1, <1>2, <1>3, <1>5 DEF PairsOK
  <2>2. ASSUME NEW g \in Fn
        PROVE  IF fnPromise'[g] = 0 THEN ~alreadyResolved'[g] /\ ~fnHeld'[g] ELSE fnPromise'[g] \in Made'
    <3>1. CASE g = p
      BY <1>2, <1>6, <3>1
    <3>2. CASE g # p
      <4>1. IF fnPromise[g] = 0 THEN ~alreadyResolved[g] /\ ~fnHeld[g] ELSE fnPromise[g] \in Made
        BY <1>3 DEF PairsOK
      <4> QED
        BY <1>2, <1>6, <3>2, <4>1
    <3> QED
      BY <3>1, <3>2
  <2>3. \A n \in (thenables' + 1)..MaxThenables : fnPromise'[MaxPromises + n] = 0
    <3>1. \A n \in (thenables + 1)..MaxThenables : n \in 1..MaxThenables
      BY <1>3, PromiseJobsAssumption
    <3> QED
      BY <1>2, <1>3, <1>4, <3>1 DEF PairsOK
  <2>4. ASSUME NEW j \in WaitingIn(frames)', j.kind = "thenable" PROVE fnPromise'[MaxPromises + j.n] = 0
    <3>1. j \in WaitingIn(fs)
      BY <2>4
    <3>2. fnPromise[MaxPromises + j.n] = 0 /\ j.n \in 1..thenables
      BY <1>3, <2>4, <3>1 DEF PairsOK, JobsOK, JobOK
    <3>3. j.n \in 1..MaxThenables
      BY <1>3, <3>2, PromiseJobsAssumption
    <3> QED
      BY <1>2, <1>4, <3>2, <3>3
  <2> QED
    BY <2>1, <2>2, <2>3, <2>4 DEF PairsOK, Promise, Fn
<1>8. OneDecider(frames)'
  <2>1. DecidingPairs(p) = {}
    <3>1. ASSUME NEW g \in Fn, fnPromise[g] = p PROVE FALSE
      BY <1>2, <1>3, <1>6, <3>1 DEF PairsOK
    <3> QED
      BY <3>1 DEF DecidingPairs
  <2>2. DecidingJobs(fs, p) = {}
    BY <1>3, <1>6 DEF DecidingJobs, JobsOK, JobOK
  <2>3. DecidingGetters(fs, p) = {}
    <3>1. ASSUME NEW d \in 1..Len(fs), fs[d].kind = "getter" PROVE fnPromise[fs[d].fn] # p
      <4>1. Usable(fs[d].fn)
        BY <1>3, <3>1 DEF FramesOK, FrameOK
      <4> QED
        BY <1>3, <1>6, <4>1 DEF Usable, PairsOK
    <3> QED
      BY <3>1 DEF DecidingGetters
  <2>4. \A q \in Promise : /\ DecidingJobs(frames, q)' = DecidingJobs(fs, q)
                           /\ DecidingGetters(frames, q)' = DecidingGetters(fs, q)
    <3>1. \A q \in Promise : \A j : j \in DecidingJobs(frames, q)' <=> j \in DecidingJobs(fs, q)
      BY DEF DecidingJobs
    <3>2. \A q \in Promise : DecidingGetters(frames, q)' = DecidingGetters(fs, q)'
      BY DEF DecidingGetters
    <3>3. \A q \in Promise : \A d : d \in DecidingGetters(frames, q)' <=> d \in DecidingGetters(fs, q)
      BY <1>2, <3>2
    <3> QED
      BY ONLY <3>1, <3>3
  <2>5. DecidingPairs(p)' = {p} /\ DecidingJobs(frames, p)' = {} /\ DecidingGetters(frames, p)' = {}
    BY <1>1, <1>2, <2>1, <2>2, <2>3, <2>4
  <2>6. ASSUME NEW q \in Promise, q # p PROVE Untouched(fs, q)
    <3>1. DecidingPairs(q)' = DecidingPairs(q)
      BY <1>2, <2>6
    <3> QED
      BY <1>1, <2>4, <2>6, <3>1 DEF Untouched
  <2>7. state'[p] \notin Settled /\ interrupts' = interrupts
    BY <1>1 DEF Settled, runVars
  <2> QED
    BY <1>1, <1>3, <2>5, <2>6, <2>7, DecidedOnce
<1> QED
  BY <1>7, <1>8

\* newPromise
LEMMA newPromiseKeeps ==
    ASSUME IndInv, newPromise
    PROVE  Inv(frames)' /\ frames' # <<>>
<1>0. /\ Running /\ UNCHANGED <<result, handled, fulfillReactions, rejectReactions, thenables, unhandled>>
      /\ reactions' = reactions /\ jobQueue' = jobQueue /\ frames' = frames /\ UNCHANGED runVars
  BY DEF newPromise, InJS
<1>1. PICK fs : fs = frames /\ Inv(fs) /\ fs # <<>> /\ Depth = Len(fs) /\ Top = fs[Len(fs)]
  BY <1>0, RunningOn
<1>2. PICK p \in NextFresh : state' = [state EXCEPT ![p] = "pending"] /\ newFns(p, p, TRUE)
  BY DEF newPromise
<1>3. frames' = fs /\ WaitingIn(frames)' = WaitingIn(fs)
  BY <1>0, <1>1 DEF WaitingIn
<1>4. reactions' \in 0..MaxReactions /\ reactions <= reactions' /\ Core(fs)
  BY <1>0, <1>1, PromiseJobsAssumption DEF Inv, Core, TypeOK
<1>5. Grows
  BY <1>0, <1>2, <1>4, FreshGrows
<1>6. PairsOK(frames)' /\ OneDecider(frames)'
  BY <1>0, <1>1, <1>2, <1>3, <1>4, FreshPair
<1>7. FramesOK(frames)'
  <2>1. FramesOK(fs)'
    BY <1>4, <1>5, GrowthKeeps
  <2> QED
    BY <1>3, <2>1 DEF FramesOK
<1>8. DrainsAlone(frames)' /\ JobsDistinct(jobQueue, frames)'
  BY <1>0, <1>1, <1>3, <1>4 DEF Core, DrainsAlone
<1>9. Core(frames)'
  BY <1>0, <1>3, <1>4, <1>5, <1>6, <1>7, <1>8, GrowCore
<1> QED
  BY <1>1, <1>3, <1>6, <1>9 DEF Inv

\* The reactions of the next then or await are new.
LEMMA NewIds ==
    ASSUME TypeOK, reactions < MaxReactions, reactions' = reactions + 1
    PROVE  /\ reactions' \in 0..MaxReactions /\ reactions <= reactions'
           /\ reactions + 1 \in 1..(MaxReactions + MaxThenables)
           /\ ~Bounded(reactions + 1) /\ (reactions + 1) <= reactions'
<1>1. reactions \in Nat /\ MaxReactions \in Nat /\ MaxThenables \in Nat
  BY PromiseJobsAssumption DEF TypeOK
<1> QED
  BY <1>1 DEF Bounded

\* await
LEMMA awaitKeeps ==
    ASSUME IndInv, NEW p \in Made, await(p)
    PROVE  Inv(frames)' /\ frames' # <<>>
<1>0. /\ Running /\ reactions < MaxReactions /\ reactions' = reactions + 1
      /\ addReactions(p, NewReaction(reactions + 1, 0, "js", 0), NewReaction(reactions + 1, 0, "js", 0))
      /\ UNCHANGED <<state, result, fnPromise, alreadyResolved, fnHeld, frames, runVars>>
  BY DEF await, InJS, fnVars
<1>1. PICK fs : fs = frames /\ Inv(fs) /\ fs # <<>> /\ Depth = Len(fs) /\ Top = fs[Len(fs)]
  BY <1>0, RunningOn
<1>2. frames' = fs /\ Core(fs) /\ TypeOK /\ OneDecider(fs) /\ PairsOK(fs)
  BY <1>0, <1>1 DEF Inv, Core
<1>3. /\ reactions' \in 0..MaxReactions /\ reactions <= reactions'
      /\ reactions + 1 \in 1..(MaxReactions + MaxThenables)
      /\ ~Bounded(reactions + 1) /\ (reactions + 1) <= reactions'
  BY <1>0, <1>2, NewIds
<1>4. PICK id : id = reactions + 1
  OBVIOUS
<1>5. PICK re : re = NewReaction(id, 0, "js", 0)
  OBVIOUS
<1>6. re \in Reaction /\ re.id = id /\ re.cap = 0 /\ re.handler = "js"
  BY <1>3, <1>4, <1>5, PromiseJobsAssumption DEF NewReaction, Reaction
<1>7. thenables' = thenables /\ addReactions(p, re, re)
  BY <1>0, <1>4, <1>5 DEF addReactions
<1>8. Grows
  <2>1. /\ state \in [Promise -> {"none", "pending"} \union Settled] /\ fnPromise \in [Fn -> 0..MaxPromises]
        /\ fnHeld \in [Fn -> BOOLEAN]
    BY <1>2 DEF TypeOK
  <2> QED
    BY <1>0, <1>3, <1>7, <2>1 DEF Grows
<1>9. Bounded(re.id)' /\ ~Bounded(re.id) /\ ReactionOK(re)'
  BY <1>3, <1>4, <1>6 DEF Bounded, ReactionOK
<1>10. /\ PairsOK(frames)' => Core(frames)'
       /\ \A j : j.kind = "thenable" => (j \in WaitingIn(frames)' <=> j \in WaitingIn(fs))
  BY <1>2, <1>6, <1>7, <1>8, <1>9, AddCore
<1>11. PairsOK(frames)'
  <2>1. Made' = Made
    BY <1>0 DEF Made
  <2>2. \A j \in WaitingIn(frames)' : j.kind = "thenable" => fnPromise[MaxPromises + j.n] = 0
    BY <1>2, <1>10 DEF PairsOK
  <2> QED
    BY <1>0, <1>2, <1>7, <2>1, <2>2 DEF PairsOK, Promise, Fn
<1>12. \A q \in Promise : Untouched(fs, q)
  <2>1. ASSUME NEW q \in Promise PROVE DecidingJobs(frames, q)' = DecidingJobs(fs, q)
    <3>1. \A j : j \in DecidingJobs(frames, q)' <=> j \in DecidingJobs(fs, q)
      BY <1>10 DEF DecidingJobs
    <3> QED
      BY ONLY <3>1
  <2>2. ASSUME NEW q \in Promise
        PROVE  DecidingPairs(q)' = DecidingPairs(q) /\ DecidingGetters(frames, q)' = DecidingGetters(fs, q)
    BY <1>0, <1>1 DEF DecidingPairs, DecidingGetters, Fn
  <2> QED
    BY <1>0, <2>1, <2>2 DEF Untouched
<1>13. OneDecider(frames)'
  BY <1>0, <1>2, <1>12, NoneDecided DEF runVars
<1> QED
  BY <1>1, <1>2, <1>10, <1>11, <1>13 DEF Inv

\* then
LEMMA thenKeeps ==
    ASSUME IndInv, NEW p \in Made, NEW hs \in HandlerPairs, then(p, hs)
    PROVE  Inv(frames)' /\ frames' # <<>>
<1>0. Running /\ reactions < MaxReactions /\ reactions' = reactions + 1 /\ UNCHANGED <<result, frames, runVars>>
  BY DEF then, InJS
<1>1. PICK fs : fs = frames /\ Inv(fs) /\ fs # <<>> /\ Depth = Len(fs) /\ Top = fs[Len(fs)]
  BY <1>0, RunningOn
<1>2. frames' = fs /\ Core(fs) /\ TypeOK
  BY <1>0, <1>1 DEF Inv, Core
<1>3. PICK q \in NextFresh :
        /\ newFns(q, q, FALSE) /\ state' = [state EXCEPT ![q] = "pending"]
        /\ addReactions(p, NewReaction(reactions + 1, q, hs[1], 0), NewReaction(reactions + 1, q, hs[2], 0))
  BY DEF then
<1>4. /\ reactions' \in 0..MaxReactions /\ reactions <= reactions'
      /\ reactions + 1 \in 1..(MaxReactions + MaxThenables)
      /\ ~Bounded(reactions + 1) /\ (reactions + 1) <= reactions'
  BY <1>0, <1>2, NewIds
<1>5. thenables' = thenables
  BY <1>3 DEF addReactions
<1>6. Grows /\ q \in Promise /\ q \in Fn /\ fnPromise[q] = 0
  BY <1>0, <1>2, <1>3, <1>4, <1>5, FreshGrows
<1>7. fnPromise'[q] = q /\ q # 0
  BY <1>2, <1>3, <1>6, NewPair
<1>8. PICK id : id = reactions + 1
  OBVIOUS
<1>9. PICK fr, rr : fr = NewReaction(id, q, hs[1], 0) /\ rr = NewReaction(id, q, hs[2], 0)
  OBVIOUS
<1>10. /\ fr \in Reaction /\ fr.id = id /\ fr.cap = q /\ fr.handler \notin {"resolve", "reject"}
       /\ rr \in Reaction /\ rr.id = id /\ rr.cap = q /\ rr.handler \notin {"resolve", "reject"}
  <2>1. hs[1] \in {"none", "js", "go"} /\ hs[2] \in {"none", "js", "go"}
    BY PromiseJobsAssumption
  <2>2. q \in 0..MaxPromises /\ 0 \in 0..(MaxPromises + MaxThenables) /\ id \in 1..(MaxReactions + MaxThenables)
    BY <1>4, <1>6, <1>8, PromiseJobsAssumption DEF Promise
  <2> QED
    BY ONLY <1>9, <2>1, <2>2 DEF NewReaction, Reaction
<1>11. addReactions(p, fr, rr)
  BY <1>3, <1>8, <1>9
<1>12. Bounded(fr.id)' /\ ~Bounded(fr.id)
  BY <1>4, <1>8, <1>10 DEF Bounded
<1>13. ReactionOK(fr)' /\ ReactionOK(rr)'
  BY <1>6, <1>7, <1>10 DEF ReactionOK, Usable, Fn
<1>14. /\ PairsOK(frames)' => Core(frames)'
       /\ \A j : j.kind = "thenable" => (j \in WaitingIn(frames)' <=> j \in WaitingIn(fs))
  BY <1>2, <1>6, <1>10, <1>11, <1>12, <1>13, AddCore
<1>15. PairsOK(frames)' /\ OneDecider(frames)'
  BY <1>0, <1>1, <1>2, <1>3, <1>4, <1>5, <1>14, FreshPair
<1> QED
  BY <1>1, <1>2, <1>14, <1>15 DEF Inv

\* runThenableJob: the new pair of functions takes over from the job.
LEMMA runThenableJobKeeps ==
    ASSUME IndInv, runThenableJob
    PROVE  Inv(frames)' /\ frames' # <<>>
<1>0. Draining /\ Top.jobs # <<>> /\ Job.kind = "thenable" /\ UNCHANGED <<reactions, runVars>>
  BY DEF runThenableJob
<1>t. PICK fs, gs, j : Takes(fs, gs, j)
  BY ONLY <1>0, IndInv, PoppedIs
<1>1. /\ fs = frames /\ gs = Popped /\ j = Job /\ Inv(fs) /\ Core(gs) /\ gs # <<>>
      /\ \A p \in Promise : DecidingGetters(gs, p) = DecidingGetters(fs, p)
      /\ WaitingIn(gs) \subseteq WaitingIn(fs)
      /\ \A w \in WaitingIn(fs) : w = j \/ w \in WaitingIn(gs)
      /\ j \in WaitingIn(fs) /\ j \in JobRecord /\ JobOK(j)
      /\ \A w \in WaitingIn(gs) : Key(w) # Key(j)
  BY ONLY <1>t DEF Takes
<1>2. /\ j.kind = "thenable" /\ j.promise \in Made /\ j.arg \in Made \union {AnObject} /\ j.n \in 1..thenables
  BY <1>0, <1>1 DEF JobOK
<1>3. PICK f, p : f = MaxPromises + j.n /\ p = j.promise
  OBVIOUS
<1>4. /\ p \in Promise /\ state[p] = "pending" /\ DecidingPairs(p) = {} /\ DecidingJobs(fs, p) = {j}
      /\ DecidingGetters(fs, p) = {}
  BY <1>1, <1>2, <1>3, JobDecides
<1>5. TypeOK /\ PairsOK(gs) /\ JobsOK(gs) /\ FramesOK(gs) /\ thenables \in 0..MaxThenables /\ OneDecider(fs)
  BY <1>1 DEF Inv, Core, TypeOK
<1>6. f \in Fn /\ j.n \in 1..MaxThenables
  BY <1>2, <1>3, <1>5, PromiseJobsAssumption DEF Fn
<1>7. fnPromise[f] = 0
  BY <1>1, <1>2, <1>3 DEF Inv, Core, PairsOK
<1>8. PICK held \in BOOLEAN : newFns(f, p, held)
  <2>1. newFns(MaxPromises + Job.n, Job.promise, Job.arg = AnObject)
    BY DEF runThenableJob
  <2>2. newFns(f, p, j.arg = AnObject)
    BY <1>1, <1>3, <2>1
  <2> QED
    BY <2>2
<1>9. /\ fnPromise' \in [Fn -> 0..MaxPromises] /\ fnHeld' \in [Fn -> BOOLEAN] /\ alreadyResolved' = alreadyResolved
      /\ fnPromise'[f] = p /\ p # 0 /\ \A g \in Fn : g # f => fnPromise'[g] = fnPromise[g] /\ fnHeld'[g] = fnHeld[g]
      /\ \A q \in Promise : \A g : g \in DecidingPairs(q)' <=> g \in DecidingPairs(q) \/ (q = p /\ g = f)
      /\ \A q \in Promise : \A d : d \in DecidingGetters(gs, q)' <=> d \in DecidingGetters(gs, q)
  BY <1>1, <1>4, <1>6, <1>7, <1>8, NewPair
<1>10. UNCHANGED <<state, result, thenables>>
  BY DEF runThenableJob, addReactions, promiseVars
<1>11. Grows
  <2>1. /\ state \in [Promise -> {"none", "pending"} \union Settled]
        /\ reactions' \in 0..MaxReactions /\ reactions <= reactions'
    BY <1>0, <1>5, PromiseJobsAssumption DEF TypeOK
  <2> QED
    BY <1>0, <1>7, <1>9, <1>10, <2>1 DEF Grows
<1>12. DecidingJobs(gs, p) = {} /\ \A q \in Promise : q # p => DecidingJobs(gs, q) = DecidingJobs(fs, q)
  BY <1>1, <1>3, <1>4 DEF DecidingJobs
<1>13. ASSUME \A w : w.kind = "thenable" => (w \in WaitingIn(frames)' <=> w \in WaitingIn(gs))
       PROVE  PairsOK(frames)' /\ \A q \in Promise : DecidingJobs(frames, q)' = DecidingJobs(gs, q)
  <2>1. Made' = Made /\ p \in Made
    BY <1>2, <1>3, <1>10 DEF Made
  <2>2. \A q \in Promise : fnPromise'[q] = IF state'[q] = "none" THEN 0 ELSE q
    <3>1. \A q \in Promise : q \in Fn /\ q # f
      BY <1>3, <1>6, PromiseJobsAssumption DEF Promise, Fn
    <3> QED
      BY <1>5, <1>9, <1>10, <3>1 DEF PairsOK
  <2>3. ASSUME NEW g \in Fn
        PROVE  IF fnPromise'[g] = 0 THEN ~alreadyResolved'[g] /\ ~fnHeld'[g] ELSE fnPromise'[g] \in Made'
    <3>1. CASE g = f
      BY <1>9, <2>1, <3>1
    <3>2. CASE g # f
      <4>1. IF fnPromise[g] = 0 THEN ~alreadyResolved[g] /\ ~fnHeld[g] ELSE fnPromise[g] \in Made
        BY <1>5 DEF PairsOK
      <4> QED
        BY <1>9, <2>1, <3>2, <4>1
    <3> QED
      BY <3>1, <3>2
  <2>4. \A n \in (thenables' + 1)..MaxThenables : fnPromise'[MaxPromises + n] = 0
    <3>1. \A n \in (thenables + 1)..MaxThenables : MaxPromises + n \in Fn /\ MaxPromises + n # f
      BY <1>2, <1>3, <1>5, PromiseJobsAssumption DEF Fn
    <3> QED
      BY <1>5, <1>9, <1>10, <3>1 DEF PairsOK
  <2>5. ASSUME NEW w \in WaitingIn(frames)', w.kind = "thenable" PROVE fnPromise'[MaxPromises + w.n] = 0
    <3>1. w \in WaitingIn(gs)
      BY <1>13, <2>5
    <3>2. fnPromise[MaxPromises + w.n] = 0 /\ w.n \in 1..thenables
      BY <1>5, <2>5, <3>1 DEF PairsOK, JobsOK, JobOK
    <3>3. w.n # j.n
      BY <1>1, <1>2, <2>5, <3>1 DEF Key
    <3>4. MaxPromises + w.n \in Fn /\ MaxPromises + w.n # f
      BY <1>3, <1>5, <1>6, <3>2, <3>3, PromiseJobsAssumption DEF Fn
    <3> QED
      BY <1>9, <3>2, <3>4
  <2>6. ASSUME NEW q \in Promise PROVE DecidingJobs(frames, q)' = DecidingJobs(gs, q)
    <3>1. \A w : w \in DecidingJobs(frames, q)' <=> w \in DecidingJobs(gs, q)
      BY <1>13 DEF DecidingJobs
    <3> QED
      BY ONLY <3>1
  <2> QED
    BY <2>2, <2>3, <2>4, <2>5, <2>6 DEF PairsOK, Promise, Fn
<1>14. ASSUME \A q \in Promise : /\ DecidingJobs(frames, q)' = DecidingJobs(gs, q)
                                 /\ DecidingGetters(frames, q)' = DecidingGetters(gs, q)'
       PROVE  OneDecider(frames)'
  <2>1. \A q \in Promise : DecidingGetters(frames, q)' = DecidingGetters(fs, q)
    <3>1. \A q \in Promise : \A d : d \in DecidingGetters(frames, q)' <=> d \in DecidingGetters(gs, q)
      BY <1>9, <1>14
    <3> QED
      BY ONLY <1>1, <3>1
  <2>2. DecidingPairs(p)' = {f} /\ DecidingJobs(frames, p)' = {} /\ DecidingGetters(frames, p)' = {}
    BY <1>4, <1>9, <1>12, <1>14, <2>1
  <2>3. ASSUME NEW q \in Promise, q # p PROVE Untouched(fs, q)
    <3>1. DecidingPairs(q)' = DecidingPairs(q)
      BY <1>9, <2>3
    <3> QED
      BY <1>10, <1>12, <1>14, <2>1, <2>3, <3>1 DEF Untouched
  <2>4. state'[p] \notin Settled /\ interrupts' = interrupts
    BY <1>0, <1>4, <1>10 DEF Settled, runVars
  <2> QED
    BY <1>4, <1>5, <2>2, <2>3, <2>4, DecidedOnce
<1>15. FramesOK(gs)' /\ gs \in Seq(FrameRecord)
  BY <1>1, <1>5, <1>11, GrowthKeeps DEF FramesOK
<1>16. CASE /\ frames' = Append(gs, Frame("thenCall", TRUE, f, NoJob))
            /\ UNCHANGED <<promiseVars, jobQueue>>
  <2>1. PICK fr \in FrameRecord : fr.kind = "thenCall" /\ fr.fn = f /\ fr.jobs = <<>> /\ frames' = Append(gs, fr)
    <3>1. f \in 0..(MaxPromises + MaxThenables) /\ <<>> \in Seq(JobRecord)
      BY <1>6, PromiseJobsAssumption, EmptySeq DEF Fn
    <3> QED
      BY <1>16, <3>1, NoJobIs DEF Frame, FrameRecord
  <2>2. PICK hs : hs = frames' /\ hs = Append(gs, fr)
    BY <2>1
  <2>3. /\ hs \in Seq(FrameRecord) /\ Len(gs) \in Nat \ {0} /\ Len(hs) = Len(gs) + 1 /\ hs # <<>>
        /\ \A d \in 1..Len(gs) : hs[d] = gs[d]
        /\ hs[Len(gs) + 1] = fr
    BY ONLY <1>1, <1>15, <2>1, <2>2, AppendProperties, LenProperties, EmptySeq
  <2>4. jobQueue' = jobQueue /\ JobsDistinct(jobQueue, gs) /\ DrainsAlone(gs)
    BY <1>1, <1>16 DEF Core
  <2>5. JobsDistinct(jobQueue, hs) /\ Waiting(jobQueue, hs) \subseteq Waiting(jobQueue, gs)
    BY <1>15, <2>1, <2>3, <2>4, BatchesKept
  <2>6. Waiting(jobQueue, gs) \subseteq Waiting(jobQueue, hs)
    BY <1>15, <2>3, WaitingKept
  <2>7. WaitingIn(frames)' = WaitingIn(gs) /\ JobsDistinct(jobQueue, frames)'
    BY <2>2, <2>4, <2>5, <2>6 DEF WaitingIn
  <2>8. DrainsAlone(frames)'
    <3>1. DrainsAlone(hs)
      BY <2>1, <2>3, <2>4 DEF DrainsAlone
    <3> QED
      BY <2>2, <3>1 DEF DrainsAlone
  <2>9. FramesOK(frames)'
    <3>1. hs[1].kind \in Entry
      BY <1>1, <1>15, <2>3 DEF FramesOK
    <3>2. ASSUME NEW d \in 1..Len(hs)
          PROVE  FrameOK(hs[d])' /\ (hs[d].kind = "drain" => d > 1 /\ hs[d - 1].kind \in Entry)
      <4>1. CASE d \in 1..Len(gs)
        <5>1. FrameOK(gs[d])' /\ (gs[d].kind = "drain" => d > 1 /\ gs[d - 1].kind \in Entry)
          BY <1>15, <4>1 DEF FramesOK
        <5> QED
          BY <2>3, <4>1, <5>1
      <4>2. CASE d = Len(gs) + 1
        <5>1. FrameOK(fr)'
          BY <1>6, <1>9, <2>1 DEF FrameOK, Usable, Fn
        <5> QED
          BY <2>1, <2>3, <4>2, <5>1
      <4> QED
        BY <2>3, <4>1, <4>2
    <3>3. ASSUME NEW d \in 1..Len(hs), NEW e \in 1..Len(hs), hs[d].kind = "program", hs[e].kind = "program"
          PROVE  d = e
      BY <1>15, <2>1, <2>3, <3>3 DEF FramesOK
    <3>4. FramesOK(hs)'
      BY <2>3, <3>1, <3>2, <3>3 DEF FramesOK
    <3> QED
      BY <2>2, <3>4 DEF FramesOK
  <2>10. PairsOK(frames)' /\ \A q \in Promise : DecidingJobs(frames, q)' = DecidingJobs(gs, q)
    BY <1>13, <2>7
  <2>11. Core(frames)'
    BY <1>1, <1>11, <1>16, <2>4, <2>7, <2>8, <2>9, <2>10, GrowCore DEF promiseVars
  <2>12. \A q \in Promise : DecidingGetters(frames, q)' = DecidingGetters(gs, q)'
    BY <2>1, <2>2, <2>3 DEF DecidingGetters
  <2>13. OneDecider(frames)'
    BY <1>14, <2>10, <2>12
  <2> QED
    BY <2>2, <2>3, <2>11, <2>13 DEF Inv
<1>17. CASE /\ j.arg # AnObject /\ frames' = gs
            /\ addReactions(j.arg, NewReaction(MaxReactions + j.n, 0, "resolve", f),
                                   NewReaction(MaxReactions + j.n, 0, "reject", f))
  <2>1. PICK fr, rr : /\ fr = NewReaction(MaxReactions + j.n, 0, "resolve", f)
                      /\ rr = NewReaction(MaxReactions + j.n, 0, "reject", f)
    OBVIOUS
  <2>2. fr \in Reaction /\ rr \in Reaction
    <3>1. /\ MaxReactions + j.n \in 1..(MaxReactions + MaxThenables)
          /\ f \in 0..(MaxPromises + MaxThenables) /\ 0 \in 0..MaxPromises
      BY <1>6, PromiseJobsAssumption DEF Fn
    <3> QED
      BY <2>1, <3>1 DEF NewReaction, Reaction
  <2>3. fr.id = rr.id /\ fr.id = MaxReactions + j.n /\ fr.cap = 0 /\ fr.fn = f /\ rr.cap = 0 /\ rr.fn = f
    BY <2>1 DEF NewReaction
  <2>4. ~Bounded(fr.id) /\ Bounded(fr.id)'
    <3>1. /\ ~(MaxReactions + j.n <= reactions) /\ MaxReactions + j.n > MaxReactions
          /\ MaxPromises + ((MaxReactions + j.n) - MaxReactions) = f
      BY <1>3, <1>5, <1>6, PromiseJobsAssumption DEF TypeOK
    <3> QED
      BY <1>7, <1>9, <2>3, <3>1 DEF Bounded
  <2>5. ReactionOK(fr)' /\ ReactionOK(rr)'
    BY <1>6, <1>9, <2>3 DEF ReactionOK, Usable, Fn
  <2>6. j.arg \in Made /\ addReactions(j.arg, fr, rr)
    BY <1>2, <1>17, <2>1
  <2>7. /\ PairsOK(frames)' => Core(frames)'
        /\ \A w : w.kind = "thenable" => (w \in WaitingIn(frames)' <=> w \in WaitingIn(gs))
    BY <1>1, <1>11, <1>17, <2>2, <2>3, <2>4, <2>5, <2>6, AddCore
  <2>8. PairsOK(frames)' /\ \A q \in Promise : DecidingJobs(frames, q)' = DecidingJobs(gs, q)
    BY <1>13, <2>7
  <2>9. \A q \in Promise : DecidingGetters(frames, q)' = DecidingGetters(gs, q)'
    BY <1>17 DEF DecidingGetters
  <2>10. OneDecider(frames)'
    BY <1>14, <2>8, <2>9
  <2> QED
    BY <1>1, <1>17, <2>7, <2>8, <2>10 DEF Inv
<1> QED
  BY <1>1, <1>3, <1>16, <1>17 DEF runThenableJob

-----------------------------------------------------------------------------
(* The theorems *)

\* The invariant holds before the first call into the runtime.
LEMMA InitInv ==
    ASSUME Init
    PROVE  IndInv
<1> USE DEF Init
<1>0. <<>> \in Seq(Reaction) /\ <<>> \in Seq(JobRecord) /\ <<>> \in Seq(FrameRecord) /\ Len(<<>>) = 0
  BY EmptySeq
<1>1. Made = {}
  BY DEF Made
<1>2. \A j : j \notin WaitingIn(<<>>)
  BY <1>0 DEF WaitingIn, Waiting, Elements
<1>3. \A p \in Promise : Elements(fulfillReactions[p]) = {} /\ Elements(rejectReactions[p]) = {} /\ Registered(p) = {}
  BY <1>0 DEF Elements, Registered
<1>4. QueuedIn(<<>>) = {}
  BY <1>2 DEF QueuedIn
<1>5. TypeOK
  <2>1. /\ state \in [Promise -> {"none", "pending"} \union Settled] /\ result \in [Promise -> {Primitive, AnObject}]
        /\ fulfillReactions \in [Promise -> Seq(Reaction)] /\ rejectReactions \in [Promise -> Seq(Reaction)]
    BY <1>0
  <2>2. handled \in [Promise -> BOOLEAN] /\ alreadyResolved \in [Fn -> BOOLEAN] /\ fnHeld \in [Fn -> BOOLEAN]
    OBVIOUS
  <2>3. /\ fnPromise \in [Fn -> 0..MaxPromises] /\ reactions \in 0..MaxReactions /\ thenables \in 0..MaxThenables
        /\ interrupts \in 0..MaxInterrupts
    BY PromiseJobsAssumption
  <2> QED
    BY <1>0, <2>1, <2>2, <2>3 DEF TypeOK
<1>6. FramesOK(<<>>) /\ DrainsAlone(<<>>)
  BY <1>0 DEF FramesOK, DrainsAlone
<1>7. JobsOK(<<>>) /\ RunsOnce(<<>>) /\ TrackerAgrees
  BY <1>2, <1>3, <1>4 DEF JobsOK, RunsOnce, TrackerAgrees
<1>8. PairsOK(<<>>)
  <2>1. (\A p \in Promise : p \in Fn) /\ \A n \in (thenables + 1)..MaxThenables : MaxPromises + n \in Fn
    BY PromiseJobsAssumption DEF Promise, Fn
  <2> QED
    BY <1>2, <2>1 DEF PairsOK
<1>9. JobsDistinct(jobQueue, <<>>)
  BY <1>0 DEF JobsDistinct, Batch
<1>10. ReactionsApart(<<>>)
  BY <1>0, <1>3, <1>4 DEF ReactionsApart
<1>11. OneDecider(<<>>)
  <2>1. ASSUME NEW p \in Promise PROVE Deciders(<<>>, p) = {}
    <3>1. p # 0
      BY DEF Promise
    <3> QED
      BY <1>0, <1>2, <3>1 DEF Deciders, DecidingPairs, DecidingJobs, DecidingGetters
  <2> QED
    BY <2>1 DEF OneDecider, Settled
<1> QED
  BY <1>5, <1>6, <1>7, <1>8, <1>9, <1>10, <1>11 DEF IndInv, Inv, Core, NoJobLeftBehind

\* Every step keeps the invariant.
LEMMA NextInv ==
    ASSUME IndInv, [Next]_vars
    PROVE  IndInv'
<1>1. CASE UNCHANGED vars
  <2>1. PICK fs : fs = frames /\ Inv(fs)
    BY DEF IndInv
  <2>2. Still /\ frames' = fs /\ jobQueue' = jobQueue /\ frames' = frames
    BY <1>1, <2>1 DEF vars, Still
  <2>3. Inv(frames)'
    BY <2>1, <2>2, StillKeeps
  <2> QED
    BY <2>2, <2>3 DEF IndInv, NoJobLeftBehind
<1>2. ASSUME Inv(frames)', frames' # <<>> \/ jobQueue' = <<>>
      PROVE  IndInv'
  BY <1>2 DEF IndInv, NoJobLeftBehind
<1>3. CASE Script
  <2>1. Inv(frames)' /\ frames' # <<>>
    BY <1>3, newPromiseKeeps, callResolveKeeps, callRejectKeeps, awaitKeeps, thenKeeps DEF Script
  <2> QED
    BY <1>2, <2>1
<1>4. CASE Enter
  <2>1. Inv(frames)' /\ frames' # <<>>
    BY <1>4, RunProgramKeeps, runWrappedKeeps, runWrappedFnKeeps DEF Enter
  <2> QED
    BY <1>2, <2>1
<1>5. CASE Proceed
  <2>1. CASE abort
    BY <1>2, <2>1, abortKeeps
  <2>2. CASE leaveEnd
    BY <1>2, <2>2, leaveEndKeeps
  <2>3. CASE return \/ leaveSwap \/ runReactionJob \/ runThenableJob
    <3>1. Inv(frames)' /\ frames' # <<>>
      BY <2>3, returnKeeps, leaveSwapKeeps, runReactionJobKeeps, runThenableJobKeeps
    <3> QED
      BY <1>2, <3>1
  <2>4. CASE \/ handlerFn \/ handlerThrows \/ thenCallEnds
             \/ \E x \in Values : handlerReturns(x)
             \/ \E t \in {"callable", "other", "threw"} : getterEnds(t)
    <3>1. Inv(frames)' /\ frames' # <<>>
      BY <2>4, handlerFnKeeps, handlerThrowsKeeps, thenCallEndsKeeps, handlerReturnsKeeps, getterEndsKeeps
    <3> QED
      BY <1>2, <3>1
  <2> QED
    BY <1>5, <2>1, <2>2, <2>3, <2>4 DEF Proceed
<1>6. CASE Interrupt
  <2>1. Inv(frames)' /\ frames' = frames /\ jobQueue' = jobQueue
    BY <1>6, InterruptKeeps
  <2>2. frames = <<>> => jobQueue = <<>>
    BY DEF IndInv, NoJobLeftBehind
  <2> QED
    BY <1>2, <2>1, <2>2
<1> QED
  BY <1>1, <1>3, <1>4, <1>5, <1>6 DEF Next

\* The invariants of the run, together.
THEOREM IndInvAlways == Spec => []IndInv
<1>1. Init => IndInv
  BY InitInv
<1>2. IndInv /\ [Next]_vars => IndInv'
  BY NextInv
<1> QED
  BY <1>1, <1>2, PTL DEF Spec

\* The state of the promise machinery is well formed, and every pending promise has
\* exactly one party left that can settle it unless an interrupt dropped it: a pair
\* of createResolvingFunctions, a thenable job or a resolve reading a then getter.
THEOREM ConsistentAlways == Spec => []Consistent
<1>1. IndInv => Consistent
  BY IndInvIs
<1> QED
  BY <1>1, IndInvAlways, PTL

\* No reaction of then or await runs twice, and not after its twin ran.
THEOREM ReactionsRunOnce == Spec => []ReactionRunsOnce
<1>1. IndInv => ReactionRunsOnce
  BY IndInvIs
<1> QED
  BY <1>1, IndInvAlways, PTL

\* The rejection tracker hears exactly of what nobody handles.
THEOREM TrackerAlwaysAgrees == Spec => []TrackerAgrees
<1>1. IndInv => TrackerAgrees
  BY IndInvIs
<1> QED
  BY <1>1, IndInvAlways, PTL

\* leave and leaveAbrupt leave no job behind for a later call into the runtime.
THEOREM NoJobEverLeftBehind == Spec => []NoJobLeftBehind
<1>1. IndInv => NoJobLeftBehind
  BY IndInvIs
<1> QED
  BY <1>1, IndInvAlways, PTL

\* Nobody but a program's own leave() runs jobs while the program is on the stack.
THEOREM ProgramsDrainAlone == Spec => []ProgramDrainsAlone
<1>1. IndInv => ProgramDrainsAlone
  BY IndInvIs
<1> QED
  BY <1>1, IndInvAlways, PTL

-----------------------------------------------------------------------------
(* A settled promise stays as it is *)

\* What a step leaves of the promises that are settled.
SettledKept == \A p \in Promise : state[p] \in Settled => state'[p] = state[p] /\ result'[p] = result[p]

\* A step that settles a promise settles a pending one.
LEMMA SettlesPending ==
    ASSUME TypeOK, NEW p \in Promise, state[p] = "pending",
           \/ \E x : fulfill(p, x)
           \/ reject(p)
    PROVE  SettledKept
<1>1. \A q \in Promise : q # p => state'[q] = state[q] /\ result'[q] = result[q]
  BY DEF TypeOK, fulfill, reject
<1>2. state[p] \notin Settled
  BY DEF Settled
<1> QED
  BY <1>1, <1>2 DEF SettledKept

\* A call of resolve or reject settles a pending promise or none: the flag that the
\* two functions share, and OneDecider, keep a second call from a settled one.
LEMMA FnKeepsSettled ==
    ASSUME NEW fs, Inv(fs), NEW f, f = 0 \/ Usable(f), NEW x, NEW gs, resolveFn(f, x, gs) \/ rejectFn(f, gs)
    PROVE  SettledKept
<1>1. CASE UNCHANGED <<state, result>>
  BY <1>1 DEF SettledKept
<1>2. CASE f # 0 /\ ~alreadyResolved[f] /\ (fulfill(fnPromise[f], x) \/ reject(fnPromise[f]))
  <2>1. PICK p : p = fnPromise[f]
    OBVIOUS
  <2>2. p \in Promise /\ state[p] = "pending"
    BY <1>2, <2>1, PairDecides DEF Usable
  <2>3. TypeOK
    BY DEF Inv, Core
  <2> QED
    BY <1>2, <2>1, <2>2, <2>3, SettlesPending
<1> QED
  BY <1>1, <1>2 DEF resolveFn, rejectFn, promiseVars, enqueueThenable

\* Every step keeps the settled promises.
LEMMA NextKeepsSettled ==
    ASSUME IndInv, [Next]_vars
    PROVE  SettledKept
<1>1. CASE UNCHANGED <<state, result>>
  BY <1>1 DEF SettledKept
<1>2. PICK fs : fs = frames /\ Inv(fs) /\ TypeOK
  BY DEF IndInv, Inv, Core
<1>3. ASSUME NEW p \in NextFresh, state' = [state EXCEPT ![p] = "pending"], result' = result
      PROVE  SettledKept
  <2>1. state[p] = "none" /\ p \in Promise
    BY <1>3 DEF NextFresh, Fresh
  <2>2. \A q \in Promise : q # p => state'[q] = state[q]
    BY <1>2, <1>3 DEF TypeOK
  <2> QED
    BY <1>3, <2>1, <2>2 DEF SettledKept, Settled
<1>4. CASE Script
  <2>1. CASE newPromise
    BY <1>3, <2>1 DEF newPromise
  <2>2. CASE \E f \in Fn : callReject(f) \/ \E x \in Values : callResolve(f, x)
    <3>1. PICK f \in Fn : callReject(f) \/ \E x \in Values : callResolve(f, x)
      BY <2>2
    <3>2. fnHeld[f] /\ \E x : resolveFn(f, x, frames) \/ rejectFn(f, frames)
      BY <3>1 DEF callReject, callResolve
    <3>3. Usable(f)
      BY <1>2, <3>2, HeldUsable
    <3> QED
      BY <1>2, <3>2, <3>3, FnKeepsSettled
  <2>3. CASE \E p \in Made : await(p)
    BY <1>1, <2>3 DEF await
  <2>4. CASE \E p \in Made : \E hs \in HandlerPairs : then(p, hs)
    BY <1>3, <2>4 DEF then
  <2> QED
    BY <1>4, <2>1, <2>2, <2>3, <2>4 DEF Script
<1>5. CASE Enter
  <2>1. CASE RunProgram \/ runWrapped
    BY <1>1, <2>1 DEF RunProgram, runWrapped, promiseVars
  <2>2. CASE \E f \in Fn, x \in Values : runWrappedFn(f, x)
    <3>1. PICK f \in Fn, x \in Values : runWrappedFn(f, x)
      BY <2>2
    <3>2. fnHeld[f] /\ \E gs : resolveFn(f, x, gs) \/ rejectFn(f, gs)
      BY <3>1 DEF runWrappedFn
    <3>3. Usable(f)
      BY <1>2, <3>2, HeldUsable
    <3> QED
      BY <1>2, <3>2, <3>3, FnKeepsSettled
  <2> QED
    BY <1>5, <2>1, <2>2 DEF Enter
<1>6. CASE Proceed
  <2>1. CASE return \/ leaveSwap \/ leaveEnd \/ abort \/ runThenableJob
    BY <1>1, <2>1 DEF return, leaveSwap, leaveEnd, abort, runThenableJob, promiseVars
  <2>2. CASE runReactionJob
    <3>0. Draining /\ Top.jobs # <<>> /\ Job.kind = "reaction"
      BY <2>2 DEF runReactionJob
    <3>1. PICK fr, gs, j : Takes(fr, gs, j)
      BY ONLY <3>0, IndInv, PoppedIs
    <3>2. j = Job /\ JobOK(j)
      BY ONLY <3>1 DEF Takes
    <3>3. PICK f : f = Job.reaction.cap
      OBVIOUS
    <3>4. f = 0 \/ Usable(f)
      BY <3>0, <3>2, <3>3 DEF JobOK, ReactionOK
    <3>5. \/ \E x, hs : resolveFn(f, x, hs) \/ rejectFn(f, hs)
          \/ UNCHANGED <<state, result>>
      BY <2>2, <3>3 DEF runReactionJob, promiseVars
    <3> QED
      BY <1>1, <1>2, <3>4, <3>5, FnKeepsSettled
  <2>3. CASE handlerFn
    <3>0. Running /\ Top.kind = "handler"
      BY <2>3 DEF handlerFn
    <3>1. PICK re : re = Top.job.reaction
      OBVIOUS
    <3>2. FrameOK(Top)
      BY <3>0, RunningOn, TopIs
    <3>3. re.handler \in {"resolve", "reject"} /\ \E x, gs : resolveFn(re.fn, x, gs) \/ rejectFn(re.fn, gs)
      BY <2>3, <3>1 DEF handlerFn
    <3>4. Usable(re.fn)
      BY <3>0, <3>1, <3>2, <3>3 DEF FrameOK, ReactionOK
    <3> QED
      BY <1>2, <3>3, <3>4, FnKeepsSettled
  <2>4. CASE handlerThrows \/ thenCallEnds \/ \E x \in Values : handlerReturns(x)
    <3>0. Running /\ Top.kind \in {"handler", "thenCall"}
      BY <2>4 DEF handlerThrows, thenCallEnds, handlerReturns, InJS
    <3>1. FrameOK(Top)
      BY <3>0, RunningOn, TopIs
    <3>2. PICK f : /\ f = 0 \/ Usable(f)
                   /\ \/ \E x, gs : resolveFn(f, x, gs) \/ rejectFn(f, gs)
                      \/ UNCHANGED <<state, result>>
      <4>1. CASE handlerThrows \/ \E x \in Values : handlerReturns(x)
        <5>1. Top.job.reaction.cap = 0 \/ Usable(Top.job.reaction.cap)
          BY <3>1, <4>1 DEF FrameOK, ReactionOK, handlerThrows, handlerReturns
        <5> QED
          BY <4>1, <5>1 DEF handlerThrows, handlerReturns
      <4>2. CASE thenCallEnds
        <5>1. Usable(Top.fn)
          BY <3>1, <4>2 DEF FrameOK, thenCallEnds
        <5> QED
          BY <4>2, <5>1 DEF thenCallEnds, promiseVars
      <4> QED
        BY <2>4, <4>1, <4>2
    <3> QED
      BY <1>1, <1>2, <3>2, FnKeepsSettled
  <2>5. CASE \E t \in {"callable", "other", "threw"} : getterEnds(t)
    <3>1. PICK t \in {"callable", "other", "threw"} : getterEnds(t)
      BY <2>5
    <3>2. Running /\ Top.kind = "getter"
      BY <3>1 DEF getterEnds, InJS
    <3>3. fs # <<>> /\ Top = fs[Len(fs)] /\ Len(fs) \in 1..Len(fs)
      BY <1>2, <3>2, RunningOn, TopIs
    <3>4. PICK p : p = fnPromise[Top.fn]
      OBVIOUS
    <3>5. p \in Promise /\ state[p] = "pending"
      BY <1>2, <3>2, <3>3, <3>4, GetterDecides
    <3>6. UNCHANGED <<state, result>> \/ fulfill(p, AnObject) \/ reject(p)
      BY <3>1, <3>4 DEF getterEnds, resolveObject, enqueueThenable
    <3> QED
      BY <1>1, <1>2, <3>5, <3>6, SettlesPending
  <2> QED
    BY <1>6, <2>1, <2>2, <2>3, <2>4, <2>5 DEF Proceed
<1>7. CASE Interrupt \/ UNCHANGED vars
  BY <1>1, <1>7 DEF Interrupt, vars, promiseVars
<1> QED
  BY <1>4, <1>5, <1>6, <1>7 DEF Next

\* A settled promise keeps its state and its result, whoever calls its resolving
\* functions afterwards.
THEOREM SettledStays == Spec => SettledForever
<1>1. IndInv /\ [Next]_vars => [\A p \in Promise : state[p] \in Settled => state'[p] = state[p] /\ result'[p] = result[p]]_vars
  BY NextKeepsSettled DEF SettledKept
<1> QED
  BY <1>1, IndInvAlways, PTL DEF Spec, SettledForever
=============================================================================
