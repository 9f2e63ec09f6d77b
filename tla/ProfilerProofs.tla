--------------------------- MODULE ProfilerProofs ----------------------------
(***************************************************************************)
(* Proofs about the sampling profiler (profiler.go) for every set of VMs   *)
(* and every number of trackers and sessions.                              *)
(***************************************************************************)
EXTENDS Profiler, FiniteSetTheorems, SequenceTheorems, TLAPS

\* The three invariants of the run together are inductive.
IndInv == Consistent /\ FramesNotTorn /\ SamplesInOwnProfile

-----------------------------------------------------------------------------
(* What a step does to the state of one goroutine *)

VMState == [pc : {"plain", "register", "tracing", "sampling"}, t : 0..MaxTrackers]
RunnerState == [pc : {"off", "sleep", "scan", "add", "check"},
                counter : Nat \ {0}, left : Nat, seen : Reqs]

\* Go(v, pc, t) moves the VM v and no other.
LEMMA GoMoves ==
    ASSUME vm \in [VMs -> VMState], NEW v \in VMs,
           NEW pc \in {"plain", "register", "tracing", "sampling"},
           NEW t \in 0..MaxTrackers, Go(v, pc, t)
    PROVE  /\ vm' \in [VMs -> VMState]
           /\ vm'[v].pc = pc /\ vm'[v].t = t
           /\ \A w \in VMs \ {v} : vm'[w] = vm[w]
           /\ Registering' = IF pc = "register" THEN Registering \union {v}
                             ELSE Registering \ {v}
           /\ Traced' = IF pc \in {"tracing", "sampling"} THEN Traced \union {v}
                        ELSE Traced \ {v}
<1>1. vm'[v] = [pc |-> pc, t |-> t] /\ \A w \in VMs \ {v} : vm'[w] = vm[w]
  BY DEF Go
<1>2. vm' \in [VMs -> VMState]
  BY DEF Go, VMState
<1>3. vm'[v].pc = pc /\ vm'[v].t = t
  BY <1>1
<1>4. Registering' = IF pc = "register" THEN Registering \union {v} ELSE Registering \ {v}
  BY <1>1, <1>3 DEF Registering
<1>5. Traced' = IF pc \in {"tracing", "sampling"} THEN Traced \union {v} ELSE Traced \ {v}
  BY <1>1, <1>3 DEF Traced
<1> QED
  BY <1>1, <1>2, <1>3, <1>4, <1>5

\* The VMs that are about to register are counted.
LEMMA RegisteringCounts ==
    ASSUME NEW v \in VMs
    PROVE  /\ Cardinality(Registering) \in Nat
           /\ v \notin Registering => /\ Registering \ {v} = Registering
                                      /\ Cardinality(Registering \union {v}) = Cardinality(Registering) + 1
           /\ v \in Registering => Cardinality(Registering \ {v}) = Cardinality(Registering) - 1
<1>1. IsFiniteSet(Registering)
  BY ProfilerAssumption, FS_Subset DEF Registering
<1> QED
  BY <1>1, FS_CardinalityType, FS_AddElement, FS_RemoveElement

\* Between two ticks run() keeps nothing but its place in the list.
LEMMA AsleepSleeps ==
    /\ NoRunner \in RunnerState /\ NoRunner.pc = "off"
    /\ \A c \in Nat \ {0} : Asleep(c) \in RunnerState /\ Asleep(c).pc = "sleep"
    /\ Asleep(1) \in RunnerState /\ Asleep(1).pc = "sleep"
<1>1. NoRunner \in RunnerState /\ NoRunner.pc = "off"
  BY DEF NoRunner, RunnerState, Reqs
<1>2. ASSUME NEW c \in Nat \ {0}
      PROVE  Asleep(c) \in RunnerState /\ Asleep(c).pc = "sleep"
  BY <1>1 DEF Asleep, NoRunner, RunnerState, Reqs
<1> QED
  BY <1>1, <1>2

\* Dropping place i of a list moves its last element there.
LEMMA DropsPlace ==
    ASSUME NEW S, NEW s \in Seq(S), NEW i \in 1..Len(s)
    PROVE  /\ DropAt(s, i) \in Seq(S) /\ Len(DropAt(s, i)) = Len(s) - 1
           /\ \A j \in 1..(Len(s) - 1) : \E k \in 1..Len(s) : DropAt(s, i)[j] = s[k]
<1> DEFINE r == DropAt(s, i)
           e == [s EXCEPT ![i] = s[Len(s)]]
<1>0. Len(s) \in Nat /\ s[Len(s)] \in S /\ Len(s) >= 1
  BY ElementOfSeq, LenProperties
<1>1. /\ e \in Seq(S) /\ Len(e) = Len(s)
      /\ \A j \in 1..Len(s) : e[j] = IF j = i THEN s[Len(s)] ELSE s[j]
  BY <1>0, ExceptSeq
<1> HIDE DEF e
<1>2. \A j \in 1..(Len(s) - 1) : e[j] \in S
  BY <1>0, <1>1, ElementOfSeq
<1>3. /\ r \in Seq(S)
      /\ Len(r) = IF 1 <= Len(s) - 1 THEN Len(s) - 1 - 1 + 1 ELSE 0
      /\ \A j \in 1..(Len(s) - 1 - 1 + 1) : r[j] = e[1 + j - 1]
  BY <1>0, <1>2, SubSeqProperties DEF e, DropAt
<1> QED
  BY <1>0, <1>1, <1>3

\* A stuttering step keeps everything.
LEMMA StutterPreserves ==
    ASSUME IndInv, UNCHANGED vars
    PROVE  IndInv'
BY DEF IndInv, Consistent, vars, listVars, trackVars, TypeOK, PlacesInLists, OneRunner,
   TrackersApart, SampleHandedOver, FramesNotTorn, SamplesInOwnProfile, Unlocked, Current,
   StopAt, Registering, Traced

-----------------------------------------------------------------------------
(* The VMs *)

\* run() sees that the profiler is enabled and is about to register.
LEMMA LooksAtEnabledPreserves ==
    ASSUME IndInv, NEW v \in VMs, LooksAtEnabled(v)
    PROVE  IndInv'
<1> USE DEF IndInv, Consistent
<1>1. CASE UNCHANGED vm
  <2>1. UNCHANGED vars
    BY <1>1 DEF LooksAtEnabled, vars, listVars, trackVars
  <2> QED
    BY <2>1, StutterPreserves
<1>2. CASE Go(v, "register", 0) /\ vm[v].pc = "plain"
           /\ made + Cardinality(Registering) < MaxTrackers
  <2>0. UNCHANGED <<enabled, listVars, trackVars, sessions, runner, stopper, cleaner>>
    BY DEF LooksAtEnabled
  <2>1. v \notin Registering /\ v \notin Traced
    BY <1>2 DEF Registering, Traced
  <2>2. /\ vm' \in [VMs -> VMState] /\ vm'[v].pc = "register"
        /\ \A w \in VMs \ {v} : vm'[w] = vm[w]
        /\ Registering' = Registering \union {v} /\ Traced' = Traced
    <3>1. vm \in [VMs -> VMState] /\ 0 \in 0..MaxTrackers
      BY ProfilerAssumption DEF TypeOK, VMState
    <3> QED
      BY <1>2, <2>1, <3>1, GoMoves
  <2>3. TypeOK' /\ PlacesInLists' /\ OneRunner' /\ SamplesInOwnProfile'
    BY <2>0, <2>2 DEF TypeOK, VMState, PlacesInLists, OneRunner, SamplesInOwnProfile,
       listVars, trackVars, Unlocked
  <2>4. \A w \in Traced : w \in VMs /\ vm'[w] = vm[w]
    BY <2>1, <2>2 DEF Traced
  <2>5. TrackersApart'
    <3>1. made' + Cardinality(Registering') <= MaxTrackers
      BY <1>2, <2>0, <2>1, <2>2, RegisteringCounts, ProfilerAssumption DEF TypeOK, trackVars
    <3> QED
      BY <3>1, <2>0, <2>2, <2>4 DEF TrackersApart, listVars, trackVars
  <2>6. SampleHandedOver'
    BY <2>0, <2>2, <2>4 DEF SampleHandedOver, listVars, trackVars, Current, StopAt
  <2>7. FramesNotTorn'
    BY <2>0, <2>2 DEF FramesNotTorn, listVars, Current, StopAt
  <2> QED
    BY <2>3, <2>5, <2>6, <2>7
<1> QED
  BY <1>1, <1>2 DEF LooksAtEnabled, Registering

\* registerVm makes a tracker and puts it on the list, or tells it to stop.
LEMMA registerVmPreserves ==
    ASSUME IndInv, NEW v \in VMs, registerVm(v)
    PROVE  IndInv'
<1> USE DEF IndInv, Consistent
<1> DEFINE t == made + 1
<1>0. /\ vm[v].pc = "register" /\ Unlocked /\ made' = t
      /\ session' = [session EXCEPT ![t] = buf] /\ Go(v, "tracing", t)
      /\ UNCHANGED <<enabled, buf, finished, sessions, stopper, cleaner>>
  BY DEF registerVm
<1>1. v \in Registering /\ v \notin Traced
  BY <1>0 DEF Registering, Traced
<1>2. /\ made \in Nat /\ t \in Nat /\ t \in 1..MaxTrackers /\ t \in Tracker
      /\ t + Cardinality(Registering \ {v}) <= MaxTrackers
  <2>1. Cardinality(Registering \ {v}) = Cardinality(Registering) - 1 /\ Cardinality(Registering) \in Nat
    BY <1>1, RegisteringCounts
  <2>2. Cardinality(Registering \ {v}) \in Nat
    BY ProfilerAssumption, FS_Subset, FS_CardinalityType DEF Registering
  <2> QED
    BY <2>1, <2>2, ProfilerAssumption DEF TypeOK, TrackersApart, Tracker
<1>3. /\ vm' \in [VMs -> VMState] /\ vm'[v].pc = "tracing" /\ vm'[v].t = t
      /\ \A w \in VMs \ {v} : vm'[w] = vm[w]
      /\ Registering' = Registering \ {v} /\ Traced' = Traced \union {v}
  <2>1. vm \in [VMs -> VMState] /\ t \in 0..MaxTrackers
    BY <1>2, ProfilerAssumption DEF TypeOK, VMState
  <2> QED
    BY <1>0, <2>1, GoMoves
<1> HIDE DEF t
<1>4. /\ session' \in [Tracker -> 0..MaxSessions] /\ session'[t] = buf
      /\ \A u \in Tracker \ {t} : session'[u] = session[u]
  BY <1>0, <1>2 DEF TypeOK
<1>5. /\ trackers \in Seq(Tracker) /\ Len(trackers) \in Nat
      /\ \A i \in 1..Len(trackers) : trackers[i] \in Tracker /\ trackers[i] # t
  BY <1>2, ElementOfSeq, LenProperties DEF TypeOK, TrackersApart, t
<1>6. /\ stopper.list \in Seq(Tracker) /\ Len(stopper.list) \in Nat
      /\ \A j \in 1..Len(stopper.list) : stopper.list[j] \in Tracker /\ stopper.list[j] # t
  BY <1>2, ElementOfSeq, LenProperties DEF TypeOK, TrackersApart, Passes, t
<1>7. \A w \in Traced : w \in VMs \ {v} /\ vm'[w] = vm[w] /\ vm[w].t \in 1..t /\ vm[w].t \in Tracker \ {t}
  BY <1>1, <1>2, <1>3, ProfilerAssumption DEF Traced, TrackersApart, Tracker, t
<1>8. CASE buf # 0
  <2>0. /\ trackers' = Append(trackers, t) /\ running' = TRUE /\ req' = req
        /\ IF running THEN UNCHANGED <<runners, runner>>
           ELSE runners' = runners + 1 /\ runner' = Asleep(1)
    BY <1>8 DEF registerVm, t
  <2>1. /\ trackers' \in Seq(Tracker) /\ Len(trackers') = Len(trackers) + 1
        /\ \A i \in 1..Len(trackers) : trackers'[i] = trackers[i]
        /\ trackers'[Len(trackers) + 1] = t
    BY <1>2, <1>5, <2>0, AppendProperties
  <2>2. /\ runner' \in RunnerState
        /\ runner'.pc = "sleep" /\ runners' = 1
    <3>1. CASE running
      BY <1>0, <2>0, <3>1 DEF TypeOK, OneRunner, Unlocked, RunnerState
    <3>2. CASE ~running
      BY <2>0, <3>2, AsleepSleeps DEF OneRunner
    <3> QED
      BY <3>1, <3>2 DEF TypeOK
  <2>3. TypeOK'
    BY <1>0, <1>2, <1>3, <1>4, <2>0, <2>1, <2>2 DEF TypeOK, VMState, RunnerState
  <2>4. PlacesInLists' /\ OneRunner'
    BY <1>0, <1>8, <2>0, <2>2 DEF PlacesInLists, OneRunner, Unlocked
  <2>5. TrackersApart'
    <3>1. made' + Cardinality(Registering') <= MaxTrackers
      BY <1>0, <1>2, <1>3 DEF t
    <3>2. \A w \in Traced' : vm'[w].t \in 1..made'
      BY <1>0, <1>2, <1>3, <1>7 DEF t
    <3>3. \A w, x \in Traced' : vm'[w].t = vm'[x].t => w = x
      BY <1>3, <1>7 DEF TrackersApart
    <3>4. \A i \in 1..Len(trackers') : trackers'[i] <= made'
      <4>1. \A i \in 1..Len(trackers) : trackers[i] <= t
        BY <1>2, <1>5, ProfilerAssumption DEF TrackersApart, Tracker, t
      <4> QED
        BY <1>0, <1>2, <1>5, <2>1, <4>1 DEF t
    <3>5. \A j \in 1..Len(stopper'.list) : stopper'.list[j] <= made'
      BY <1>0, <1>2, <1>6, ProfilerAssumption DEF TrackersApart, Tracker, t
    <3>6. \A i \in 1..Len(trackers'), j \in 1..Len(stopper'.list) : trackers'[i] # stopper'.list[j]
      BY <1>0, <1>5, <1>6, <2>1 DEF TrackersApart
    <3> QED
      BY <3>1, <3>2, <3>3, <3>4, <3>5, <3>6 DEF TrackersApart
  <2>6. SampleHandedOver'
    BY <1>0, <1>3, <1>7, <2>0, <2>2 DEF SampleHandedOver, StopAt
  <2>7. FramesNotTorn'
    BY <1>0, <1>3, <2>2 DEF FramesNotTorn, StopAt
  <2>8. SamplesInOwnProfile'
    BY <1>0, <1>4, <1>5, <2>1, <2>2 DEF SamplesInOwnProfile
  <2> QED
    BY <2>3, <2>4, <2>5, <2>6, <2>7, <2>8
<1>9. CASE buf = 0
  <2>0. /\ req' = [req EXCEPT ![t] = "Stop"]
        /\ UNCHANGED <<trackers, running, runners, runner>>
    BY <1>9 DEF registerVm, t
  <2>1. /\ req' \in [Tracker -> Reqs] /\ req'[t] = "Stop"
        /\ \A u \in Tracker \ {t} : req'[u] = req[u]
    BY <1>2, <2>0 DEF TypeOK, Reqs
  <2>2. TypeOK'
    BY <1>0, <1>2, <1>3, <1>4, <2>0, <2>1 DEF TypeOK, VMState
  <2>3. PlacesInLists' /\ OneRunner'
    BY <1>0, <2>0 DEF PlacesInLists, OneRunner, Unlocked
  <2>4. TrackersApart'
    <3>1. made' + Cardinality(Registering') <= MaxTrackers
      BY <1>0, <1>2, <1>3 DEF t
    <3>2. \A w \in Traced' : vm'[w].t \in 1..made'
      BY <1>0, <1>2, <1>3, <1>7 DEF t
    <3>3. \A w, x \in Traced' : vm'[w].t = vm'[x].t => w = x
      BY <1>3, <1>7 DEF TrackersApart
    <3>4. \A i \in 1..Len(trackers') : trackers'[i] <= made'
      BY <1>0, <1>2, <1>5, <2>0, ProfilerAssumption DEF TrackersApart, Tracker, t
    <3>5. \A j \in 1..Len(stopper'.list) : stopper'.list[j] <= made'
      BY <1>0, <1>2, <1>6, ProfilerAssumption DEF TrackersApart, Tracker, t
    <3> QED
      BY <1>0, <2>0, <3>1, <3>2, <3>3, <3>4, <3>5 DEF TrackersApart
  <2>5. SampleHandedOver'
    <3>1. runner'.pc # "add"
      BY <1>0, <2>0 DEF Unlocked
    <3>2. \A w \in Traced' : vm'[w].pc = "sampling" => req'[vm'[w].t] \in {"DoSample", "Stop"}
      BY <1>3, <1>7, <2>1 DEF SampleHandedOver
    <3>3. stopper'.pc = "add" => req'[StopAt'] \in {"SampleReady", "Stop"}
      <4>1. stopper.pc = "add" => stopper.i \in 1..Len(stopper.list)
        BY <1>6 DEF PlacesInLists, TypeOK, Passes
      <4>2. stopper.pc = "add" => StopAt \in Tracker \ {t}
        BY <1>6, <4>1 DEF StopAt
      <4> QED
        BY <1>0, <2>1, <4>2 DEF SampleHandedOver, StopAt
    <3> QED
      BY <3>1, <3>2, <3>3 DEF SampleHandedOver
  <2>6. FramesNotTorn'
    BY <1>0, <1>3, <2>0 DEF FramesNotTorn, StopAt, Unlocked
  <2>7. SamplesInOwnProfile'
    BY <1>0, <1>4, <1>5, <2>0 DEF SamplesInOwnProfile
  <2> QED
    BY <2>2, <2>3, <2>4, <2>5, <2>6, <2>7
<1> QED
  BY <1>8, <1>9

\* A VM that is traced has a tracker of its own, and it is not about to register.
LEMMA TracedOwns ==
    ASSUME IndInv, NEW v \in Traced
    PROVE  /\ v \in VMs /\ vm[v].t \in Tracker /\ vm[v].t \in 0..MaxTrackers
           /\ v \notin Registering /\ Registering \ {v} = Registering
           /\ vm \in [VMs -> VMState]
           /\ \A w \in Traced \ {v} : w \in VMs /\ vm[w].t \in Tracker /\ vm[w].t # vm[v].t
BY ProfilerAssumption DEF IndInv, Consistent, TypeOK, VMState, TrackersApart, Traced, Registering, Tracker

\* A VM that stops being traced, told to or because its program ends.
LEMMA FinishPreserves ==
    ASSUME IndInv, NEW v \in VMs, vm[v].pc = "tracing", Finish(v), Go(v, "plain", 0),
           UNCHANGED <<enabled, listVars, req, session, made, sessions, runner, stopper, cleaner>>
    PROVE  IndInv'
<1> USE DEF IndInv, Consistent
<1>1. v \in Traced
  BY DEF Traced
<1>2. /\ vm' \in [VMs -> VMState] /\ vm'[v].pc = "plain"
      /\ \A w \in VMs \ {v} : vm'[w] = vm[w]
      /\ Registering' = Registering /\ Traced' = Traced \ {v}
  <2>1. vm \in [VMs -> VMState] /\ 0 \in 0..MaxTrackers
    BY ProfilerAssumption DEF TypeOK, VMState
  <2> QED
    BY <1>1, <2>1, GoMoves, TracedOwns
<1>3. finished' \in [Tracker -> BOOLEAN]
  BY <1>1, TracedOwns DEF Finish, TypeOK
<1>4. \A w \in Traced' : w \in Traced /\ w \in VMs /\ vm'[w] = vm[w]
  BY <1>2 DEF Traced
<1>5. TypeOK'
  BY <1>2, <1>3 DEF TypeOK, VMState, listVars
<1>6. PlacesInLists' /\ OneRunner' /\ SamplesInOwnProfile'
  BY DEF PlacesInLists, OneRunner, SamplesInOwnProfile, listVars, Unlocked
<1>7. TrackersApart'
  BY <1>2, <1>4 DEF TrackersApart, listVars
<1>8. SampleHandedOver'
  BY <1>4 DEF SampleHandedOver, Current, StopAt, listVars
<1>9. FramesNotTorn'
  BY <1>2 DEF FramesNotTorn, Current, StopAt, listVars
<1> QED
  BY <1>5, <1>6, <1>7, <1>8, <1>9

\* The VM is told to stop, or begins to write the frames it was asked for.
LEMMA LoadReqPreserves ==
    ASSUME IndInv, NEW v \in VMs, LoadReq(v)
    PROVE  IndInv'
<1> USE DEF IndInv, Consistent
<1>1. v \in Traced /\ vm[v].pc = "tracing"
  BY DEF LoadReq, Traced
<1>2. CASE Finish(v) /\ Go(v, "plain", 0)
  BY <1>1, <1>2, FinishPreserves DEF LoadReq
<1>3. CASE req[vm[v].t] = "DoSample" /\ Go(v, "sampling", vm[v].t) /\ UNCHANGED finished
  <2>0. UNCHANGED <<enabled, listVars, trackVars, sessions, runner, stopper, cleaner>>
    BY <1>3 DEF LoadReq, trackVars
  <2>1. /\ vm' \in [VMs -> VMState] /\ vm'[v].pc = "sampling" /\ vm'[v].t = vm[v].t
        /\ \A w \in VMs \ {v} : vm'[w] = vm[w]
        /\ Registering' = Registering /\ Traced' = Traced
    <3>1. vm \in [VMs -> VMState] /\ vm[v].t \in 0..MaxTrackers /\ Registering \ {v} = Registering
      BY <1>1, TracedOwns
    <3>2. Traced \union {v} = Traced
      BY <1>1
    <3> QED
      BY <1>1, <1>3, <3>1, <3>2, GoMoves
  <2>2. TypeOK' /\ PlacesInLists' /\ OneRunner' /\ SamplesInOwnProfile'
    BY <2>0, <2>1 DEF TypeOK, VMState, PlacesInLists, OneRunner, SamplesInOwnProfile,
       listVars, trackVars, Unlocked
  <2>3. \A w \in Traced : w \in VMs /\ vm'[w].t = vm[w].t
    BY <2>1 DEF Traced
  <2>4. TrackersApart'
    BY <2>0, <2>1, <2>3 DEF TrackersApart, listVars, trackVars
  <2>5. SampleHandedOver'
    BY <1>3, <2>0, <2>1, <2>3 DEF SampleHandedOver, Current, StopAt, listVars, trackVars
  <2>6. FramesNotTorn'
    BY <1>3, <2>0, <2>1 DEF FramesNotTorn, SampleHandedOver, Current, StopAt, listVars
  <2> QED
    BY <2>2, <2>4, <2>5, <2>6
<1> QED
  BY <1>2, <1>3 DEF LoadReq

\* The frames are written and the sample is offered.
LEMMA StoreReadyPreserves ==
    ASSUME IndInv, NEW v \in VMs, StoreReady(v)
    PROVE  IndInv'
<1> USE DEF IndInv, Consistent
<1>0. /\ req' = [req EXCEPT ![vm[v].t] = "SampleReady"] /\ Go(v, "tracing", vm[v].t)
      /\ UNCHANGED <<enabled, listVars, finished, session, made, sessions, runner, stopper, cleaner>>
  BY DEF StoreReady
<1>1. v \in Traced /\ vm[v].pc = "sampling"
  BY DEF StoreReady, Traced
<1>2. /\ vm' \in [VMs -> VMState] /\ vm'[v].pc = "tracing" /\ vm'[v].t = vm[v].t
      /\ \A w \in VMs \ {v} : vm'[w] = vm[w]
      /\ Registering' = Registering /\ Traced' = Traced
  <2>1. vm \in [VMs -> VMState] /\ vm[v].t \in 0..MaxTrackers /\ Registering \ {v} = Registering
    BY <1>1, TracedOwns
  <2>2. Traced \union {v} = Traced
    BY <1>1
  <2> QED
    BY <1>0, <1>1, <2>1, <2>2, GoMoves
<1>3. /\ req' \in [Tracker -> Reqs] /\ req'[vm[v].t] = "SampleReady"
      /\ \A u \in Tracker \ {vm[v].t} : req'[u] = req[u]
  BY <1>0, <1>1, TracedOwns DEF TypeOK, Reqs
<1>4. TypeOK'
  BY <1>0, <1>2, <1>3 DEF TypeOK, VMState, listVars
<1>5. PlacesInLists' /\ OneRunner' /\ SamplesInOwnProfile'
  BY <1>0 DEF PlacesInLists, OneRunner, SamplesInOwnProfile, listVars, Unlocked
<1>6. \A w \in Traced : w \in VMs /\ vm'[w].t = vm[w].t
  BY <1>2 DEF Traced
<1>7. TrackersApart'
  BY <1>0, <1>2, <1>6 DEF TrackersApart, listVars
<1>8. SampleHandedOver'
  <2>1. \A w \in Traced' : vm'[w].pc = "sampling" => req'[vm'[w].t] \in {"DoSample", "Stop"}
    BY <1>1, <1>2, <1>3, <1>6, TracedOwns DEF SampleHandedOver
  <2>2. runner'.pc = "add" => req'[Current'] \in {"SampleReady", "Stop"}
    <3>1. runner.pc = "add" => Current \in Tracker
      BY ElementOfSeq, LenProperties DEF PlacesInLists, TypeOK, Current
    <3> QED
      BY <1>0, <1>3, <3>1 DEF SampleHandedOver, Current, listVars
  <2>3. stopper'.pc = "add" => req'[StopAt'] \in {"SampleReady", "Stop"}
    <3>1. stopper.pc = "add" => StopAt \in Tracker
      BY ElementOfSeq, LenProperties DEF PlacesInLists, TypeOK, Passes, StopAt
    <3> QED
      BY <1>0, <1>3, <3>1 DEF SampleHandedOver, StopAt
  <2> QED
    BY <2>1, <2>2, <2>3 DEF SampleHandedOver
<1>9. FramesNotTorn'
  BY <1>0, <1>2 DEF FramesNotTorn, Current, StopAt, listVars
<1> QED
  BY <1>4, <1>5, <1>7, <1>8, <1>9

-----------------------------------------------------------------------------
(* profiler.run *)

\* The ticker fires.
LEMMA TickPreserves ==
    ASSUME IndInv, Tick
    PROVE  IndInv'
<1> USE DEF IndInv, Consistent
<1>0. UNCHANGED <<enabled, buf, trackers, trackVars, sessions, vm, stopper, cleaner>> /\ running
  BY DEF Tick, OneRunner
<1>1. /\ runner' \in RunnerState /\ runner'.pc \in {"off", "scan"}
      /\ running' \in BOOLEAN /\ runners' \in Nat
      /\ runners' = (IF running' THEN 1 ELSE 0)
      /\ running' <=> runner'.pc # "off"
      /\ runner'.pc = "off" => trackers = <<>>
      /\ runner'.pc = "scan" => trackers # <<>> /\ runner'.left \in 1..Len(trackers)
  <2>1. CASE trackers = <<>> /\ running' = FALSE /\ runners' = runners - 1 /\ runner' = NoRunner
    <3>1. runners' = 0 /\ runners' \in Nat
      BY <1>0, <2>1 DEF OneRunner
    <3>2. runner' \in RunnerState /\ runner'.pc = "off"
      BY <2>1, AsleepSleeps
    <3>3. ~running' /\ running' \in BOOLEAN
      BY <2>1
    <3>4. runners' = (IF running' THEN 1 ELSE 0)
      BY <3>1, <3>3
    <3>5. (running' <=> runner'.pc # "off") /\ runner'.pc # "scan"
      BY <3>2, <3>3
    <3> QED
      BY <2>1, <3>1, <3>2, <3>3, <3>4, <3>5
  <2>2. CASE /\ trackers # <<>> /\ UNCHANGED <<running, runners>>
             /\ runner' = [runner EXCEPT !.pc = "scan", !.left = Len(trackers)]
    <3>1. Len(trackers) \in Nat \ {0}
      BY <2>2, EmptySeq DEF TypeOK
    <3>2. runner' \in RunnerState /\ runner'.pc = "scan" /\ runner'.left = Len(trackers)
      BY <2>2, <3>1 DEF TypeOK, RunnerState
    <3> QED
      BY <1>0, <2>2, <3>1, <3>2 DEF OneRunner, TypeOK
  <2> QED
    BY <2>1, <2>2 DEF Tick
<1>2. TypeOK'
  BY <1>0, <1>1 DEF TypeOK, RunnerState, trackVars
<1>3. PlacesInLists' /\ OneRunner'
  BY <1>0, <1>1 DEF PlacesInLists, OneRunner, Unlocked
<1>4. TrackersApart'
  BY <1>0 DEF TrackersApart, Registering, Traced, trackVars
<1>5. SampleHandedOver' /\ FramesNotTorn'
  BY <1>0, <1>1 DEF SampleHandedOver, FramesNotTorn, Traced, StopAt, trackVars
<1>6. SamplesInOwnProfile'
  BY <1>0, <1>1 DEF SamplesInOwnProfile, OneRunner, trackVars
<1> QED
  BY <1>2, <1>3, <1>4, <1>5, <1>6

\* run() loads req of the tracker at its place.
LEMMA ScanReqPreserves ==
    ASSUME IndInv, ScanReq
    PROVE  IndInv'
<1> USE DEF IndInv, Consistent
<1> DEFINE t == trackers[Place]
<1>0. UNCHANGED <<enabled, listVars, trackVars, sessions, vm, stopper, cleaner>> /\ runner.pc = "scan"
  BY DEF ScanReq
<1>1. Len(trackers) \in Nat \ {0} /\ Place \in 1..Len(trackers) /\ t \in Tracker /\ req[t] \in Reqs
  <2>1. Len(trackers) \in Nat \ {0} /\ Place \in 1..Len(trackers)
    BY <1>0, LenProperties DEF TypeOK, PlacesInLists, Unlocked, Place
  <2> QED
    BY <2>1, ElementOfSeq DEF TypeOK
<1>2. /\ runner' \in RunnerState /\ runner'.counter = Place /\ runner'.left = runner.left
      /\ runner'.pc = IF req[t] = "SampleReady" THEN "add" ELSE "check"
  <2> DEFINE pc == IF req[t] = "SampleReady" THEN "add" ELSE "check"
  <2>1. runner' = [runner EXCEPT !.counter = Place, !.seen = req[t], !.pc = pc]
    BY DEF ScanReq
  <2>2. pc \in {"add", "check"} /\ Place \in Nat \ {0} /\ runner \in RunnerState
    BY <1>1 DEF TypeOK, RunnerState
  <2> HIDE DEF pc
  <2>3. /\ runner' \in RunnerState /\ runner'.counter = Place /\ runner'.left = runner.left
        /\ runner'.pc = pc
    BY <1>1, <2>1, <2>2 DEF RunnerState
  <2> QED
    BY <2>3 DEF pc
<1> HIDE DEF t
<1>3. TypeOK'
  BY <1>0, <1>2 DEF TypeOK, RunnerState, listVars, trackVars
<1>4. PlacesInLists' /\ OneRunner'
  BY <1>0, <1>1, <1>2 DEF PlacesInLists, OneRunner, Unlocked, listVars
<1>5. TrackersApart'
  BY <1>0 DEF TrackersApart, Registering, Traced, listVars, trackVars
<1>6. SampleHandedOver' /\ FramesNotTorn'
  <2>1. Current' = t
    BY <1>0, <1>2 DEF Current, listVars, t
  <2>2. runner'.pc = "add" => req[t] = "SampleReady" /\ \A v \in VMs : vm[v].pc = "sampling" => vm[v].t # t
    BY <1>2 DEF SampleHandedOver, Traced
  <2> QED
    BY <1>0, <2>1, <2>2 DEF SampleHandedOver, FramesNotTorn, Traced, StopAt, trackVars
<1>7. SamplesInOwnProfile'
  BY <1>0, <1>2 DEF SamplesInOwnProfile, listVars, trackVars
<1> QED
  BY <1>3, <1>4, <1>5, <1>6, <1>7

\* The sample is added.
LEMMA AddSamplePreserves ==
    ASSUME IndInv, AddSample
    PROVE  IndInv'
<1> USE DEF IndInv, Consistent
<1>0. UNCHANGED <<enabled, listVars, trackVars, sessions, vm, stopper, cleaner>> /\ runner.pc = "add"
  BY DEF AddSample
<1>1. /\ runner' \in RunnerState /\ runner'.pc = "check"
      /\ runner'.counter = runner.counter /\ runner'.left = runner.left
  BY DEF AddSample, TypeOK, RunnerState
<1>2. TypeOK'
  BY <1>0, <1>1 DEF TypeOK, RunnerState, listVars, trackVars
<1>3. PlacesInLists' /\ OneRunner' /\ SamplesInOwnProfile'
  BY <1>0, <1>1 DEF PlacesInLists, OneRunner, SamplesInOwnProfile, Unlocked, listVars, trackVars
<1>4. TrackersApart'
  BY <1>0 DEF TrackersApart, Registering, Traced, listVars, trackVars
<1>5. SampleHandedOver' /\ FramesNotTorn'
  BY <1>0, <1>1 DEF SampleHandedOver, FramesNotTorn, Traced, StopAt, trackVars
<1> QED
  BY <1>2, <1>3, <1>4, <1>5

\* The next turn of run(): there are trackers left to look at, or it sleeps.
LEMMA TurnTurns ==
    ASSUME IndInv, runner.pc = "check", NEW c \in Nat \ {0}, Turn(c)
    PROVE  /\ runner' \in RunnerState /\ runner'.pc \in {"sleep", "scan"}
           /\ runner'.pc = "scan" => runner'.left = runner.left - 1 /\ runner.left > 1
<1>0. runner \in RunnerState
  BY DEF IndInv, Consistent, TypeOK, RunnerState
<1>1. CASE runner.left > 1
  <2>1. runner' = [runner EXCEPT !.counter = c, !.left = runner.left - 1, !.pc = "scan", !.seen = "None"]
    BY <1>1 DEF Turn
  <2>2. runner.left - 1 \in Nat
    BY <1>0, <1>1 DEF RunnerState
  <2> QED
    BY <1>0, <1>1, <2>1, <2>2 DEF RunnerState, Reqs
<1>2. CASE ~(runner.left > 1)
  BY <1>2, AsleepSleeps DEF Turn
<1> QED
  BY <1>1, <1>2

\* run() drops a finished tracker, asks for a sample or goes on.
LEMMA ScanFinishedPreserves ==
    ASSUME IndInv, ScanFinished
    PROVE  IndInv'
<1> USE DEF IndInv, Consistent
<1>0. /\ UNCHANGED <<enabled, buf, running, runners, finished, session, made, sessions, vm, stopper, cleaner>>
      /\ runner.pc = "check"
  BY DEF ScanFinished
<1>1. /\ trackers \in Seq(Tracker) /\ Len(trackers) \in Nat
      /\ runner.counter \in 1..Len(trackers) /\ runner.counter \in Nat \ {0}
      /\ runner.counter + 1 \in Nat \ {0} /\ runner.left \in 1..Len(trackers)
      /\ Current \in Tracker
  <2>1. /\ trackers \in Seq(Tracker) /\ Len(trackers) \in Nat
        /\ runner.counter \in 1..Len(trackers) /\ runner.left \in 1..Len(trackers)
    BY <1>0, LenProperties DEF TypeOK, PlacesInLists, Unlocked
  <2> QED
    BY <2>1, ElementOfSeq DEF Current
\* What all alternatives have in common.
<1>2. /\ trackers' \in Seq(Tracker) /\ req' \in [Tracker -> Reqs]
      /\ runner' \in RunnerState /\ runner'.pc \in {"sleep", "scan"}
      /\ runner'.pc = "scan" => runner'.left \in 1..Len(trackers')
      /\ \A j \in 1..Len(trackers') : \E k \in 1..Len(trackers) : trackers'[j] = trackers[k]
      /\ \A u \in Tracker : \/ req'[u] = req[u]
                            \/ req'[u] = "DoSample" /\ u = Current
  <2>1. CASE /\ trackers' = DropAt(trackers, runner.counter)
             /\ Turn(runner.counter) /\ UNCHANGED req
    <3>1. /\ trackers' \in Seq(Tracker) /\ Len(trackers') = Len(trackers) - 1
          /\ \A j \in 1..Len(trackers') : \E k \in 1..Len(trackers) : trackers'[j] = trackers[k]
      <4> DEFINE r == DropAt(trackers, runner.counter)
      <4>1. /\ r \in Seq(Tracker) /\ Len(r) = Len(trackers) - 1
            /\ \A j \in 1..(Len(trackers) - 1) : \E k \in 1..Len(trackers) : r[j] = trackers[k]
        <5>1. trackers \in Seq(Tracker) /\ runner.counter \in 1..Len(trackers)
          BY <1>1
        <5> HIDE DEF r
        <5>2. \A i \in 1..Len(trackers) :
                /\ DropAt(trackers, i) \in Seq(Tracker) /\ Len(DropAt(trackers, i)) = Len(trackers) - 1
                /\ \A j \in 1..(Len(trackers) - 1) : \E k \in 1..Len(trackers) : DropAt(trackers, i)[j] = trackers[k]
          BY <5>1, DropsPlace
        <5> QED
          BY <5>1, <5>2 DEF r
      <4>2. trackers' = r
        BY <2>1
      <4> QED
        BY <4>1, <4>2
    <3>2. /\ runner' \in RunnerState /\ runner'.pc \in {"sleep", "scan"}
          /\ runner'.pc = "scan" => runner'.left = runner.left - 1 /\ runner.left > 1
      BY <1>0, <1>1, <2>1, TurnTurns
    <3>3. runner'.pc = "scan" => runner'.left \in 1..Len(trackers')
      BY <1>1, <3>1, <3>2
    <3> QED
      BY <2>1, <3>1, <3>2, <3>3 DEF TypeOK
  <2>2. CASE /\ req' = [req EXCEPT ![Current] = "DoSample"]
             /\ runner' = Asleep(runner.counter + 1) /\ UNCHANGED trackers
    <3>1. runner' \in RunnerState /\ runner'.pc = "sleep"
      BY <1>1, <2>2, AsleepSleeps
    <3>2. /\ req' \in [Tracker -> Reqs]
          /\ \A u \in Tracker : req'[u] = req[u] \/ (req'[u] = "DoSample" /\ u = Current)
      BY <1>1, <2>2 DEF TypeOK, Reqs
    <3> QED
      BY <1>1, <2>2, <3>1, <3>2
  <2>3. CASE Turn(runner.counter + 1) /\ UNCHANGED <<trackers, req>>
    <3>1. /\ runner' \in RunnerState /\ runner'.pc \in {"sleep", "scan"}
          /\ runner'.pc = "scan" => runner'.left = runner.left - 1 /\ runner.left > 1
      BY <1>0, <1>1, <2>3, TurnTurns
    <3>2. runner'.pc = "scan" => runner'.left \in 1..Len(trackers')
      BY <1>1, <2>3, <3>1
    <3> QED
      BY <1>1, <2>3, <3>1, <3>2 DEF TypeOK
  <2> QED
    BY <2>1, <2>2, <2>3 DEF ScanFinished
<1>3. TypeOK'
  BY <1>0, <1>2 DEF TypeOK, RunnerState
<1>4. PlacesInLists' /\ OneRunner'
  <2>1. trackers # <<>> /\ running /\ buf # 0
    BY <1>0, <1>1, EmptySeq DEF OneRunner
  <2> QED
    BY <1>0, <1>2, <2>1 DEF PlacesInLists, OneRunner, Unlocked
<1>5. TrackersApart'
  BY <1>0, <1>2, SMTT(30) DEF TrackersApart, Registering, Traced
<1>6. SampleHandedOver'
  <2>1. \A v \in Traced : vm[v].t \in Tracker
    BY TracedOwns DEF IndInv, Consistent
  <2>2. \A v \in Traced' : vm'[v].pc = "sampling" => req'[vm'[v].t] \in {"DoSample", "Stop"}
    BY <1>0, <1>2, <2>1 DEF SampleHandedOver, Traced
  <2>3. stopper.pc = "add" => StopAt \in Tracker /\ StopAt # Current
    <3>0. stopper.i \in Nat \ {0} /\ stopper.list \in Seq(Tracker) /\ Len(stopper.list) \in Nat
      <4>1. stopper \in Passes({"off", "take", "load", "add", "store"})
        BY DEF TypeOK
      <4>2. stopper.i \in Nat \ {0} /\ stopper.list \in Seq(Tracker)
        BY <4>1 DEF Passes
      <4> QED
        BY <4>2, LenProperties
    <3>1. stopper.pc = "add" => stopper.i \in 1..Len(stopper.list)
      BY <3>0 DEF PlacesInLists
    <3>2. stopper.pc = "add" => StopAt \in Tracker
      BY <3>0, <3>1, ElementOfSeq DEF StopAt
    <3> QED
      BY <1>1, <3>1, <3>2 DEF TrackersApart, StopAt, Current
  <2>4. stopper'.pc = "add" => req'[StopAt'] \in {"SampleReady", "Stop"}
    BY <1>0, <1>2, <2>3 DEF SampleHandedOver, StopAt
  <2> QED
    BY <1>2, <2>2, <2>4 DEF SampleHandedOver
<1>7. FramesNotTorn'
  BY <1>0, <1>2 DEF FramesNotTorn, StopAt
<1>8. SamplesInOwnProfile'
  BY <1>0, <1>2 DEF SamplesInOwnProfile
<1> QED
  BY <1>3, <1>4, <1>5, <1>6, <1>7, <1>8

-----------------------------------------------------------------------------
(* StartProfile and StopProfile *)

\* A new session begins with no tracker on the list.
LEMMA StartProfilePreserves ==
    ASSUME IndInv, StartProfile
    PROVE  IndInv'
<1> USE DEF IndInv, Consistent
<1>0. /\ UNCHANGED <<trackers, running, runners, trackVars, vm, runner, stopper, cleaner>>
      /\ buf = 0 /\ Unlocked
  BY DEF StartProfile
<1>1. /\ enabled' = TRUE /\ sessions' \in 0..MaxSessions /\ buf' \in 0..MaxSessions /\ buf' # 0
  BY ProfilerAssumption DEF StartProfile, TypeOK
<1>2. TypeOK'
  BY <1>0, <1>1 DEF TypeOK, trackVars
<1>3. PlacesInLists' /\ OneRunner'
  BY <1>0, <1>1 DEF PlacesInLists, OneRunner, Unlocked
<1>4. TrackersApart'
  BY <1>0 DEF TrackersApart, Registering, Traced, trackVars
<1>5. SampleHandedOver' /\ FramesNotTorn'
  BY <1>0 DEF SampleHandedOver, FramesNotTorn, Traced, Current, StopAt, trackVars
<1>6. SamplesInOwnProfile'
  <2>1. Len(trackers) = 0
    BY <1>0, EmptySeq DEF OneRunner
  <2> QED
    BY <1>0, <1>1, <2>1 DEF SamplesInOwnProfile
<1> QED
  BY <1>2, <1>3, <1>4, <1>5, <1>6

StopPcs == {"off", "take", "load", "add", "store"}
CleanPcs == {"off", "load", "store", "done"}

\* A pass begins at the first place of its list.
LEMMA PassBegins ==
    ASSUME NEW pcs, NEW pc \in pcs, NEW list \in Seq(Tracker)
    PROVE  /\ Pass(pc, list) \in Passes(pcs)
           /\ Pass(pc, list).pc = pc /\ Pass(pc, list).list = list
<1>1. <<>> \in Seq(Tracker)
  BY EmptySeq
<1> QED
  BY <1>1 DEF Pass, Passes

\* A step of StopProfile that changes neither the list of run() nor a tracker
\* keeps the invariant if its own list and place are right.
LEMMA StopperMovesPreserves ==
    ASSUME IndInv, UNCHANGED <<listVars, trackVars, sessions, vm, runner>>,
           enabled' \in BOOLEAN,
           stopper' \in Passes(StopPcs),
           stopper'.list \in {<<>>, stopper.list},
           stopper'.pc \in {"add", "store"} => stopper'.i <= Len(stopper'.list),
           stopper'.pc = "add" => req[StopAt'] = "SampleReady",
           cleaner' \in [Session -> Passes(CleanPcs)],
           \A s \in Session : cleaner'[s] = cleaner[s] \/ cleaner'[s].pc # "store"
    PROVE  IndInv'
<1> USE DEF IndInv, Consistent
<1>1. TypeOK'
  BY DEF TypeOK, StopPcs, CleanPcs, listVars, trackVars
<1>2. PlacesInLists'
  BY DEF PlacesInLists, Unlocked, listVars
<1>3. OneRunner' /\ SamplesInOwnProfile'
  BY DEF OneRunner, SamplesInOwnProfile, listVars, trackVars
<1>4. TrackersApart'
  <2>1. \A j \in 1..Len(stopper'.list) : j \in 1..Len(stopper.list) /\ stopper'.list[j] = stopper.list[j]
    <3>1. CASE stopper'.list = <<>>
      BY <3>1, EmptySeq
    <3> QED
      BY <3>1
  <2> QED
    BY <2>1 DEF TrackersApart, Registering, Traced, listVars, trackVars
<1>5. SampleHandedOver'
  BY DEF SampleHandedOver, Traced, Current, listVars, trackVars
<1>6. FramesNotTorn'
  BY DEF FramesNotTorn, SampleHandedOver, Traced, Current, listVars, trackVars
<1> QED
  BY <1>1, <1>2, <1>3, <1>4, <1>5, <1>6

\* StopProfile is called.
LEMMA StopProfilePreserves ==
    ASSUME IndInv, StopProfile
    PROVE  IndInv'
<1> USE DEF IndInv, Consistent
<1>1. /\ stopper' \in Passes(StopPcs) /\ stopper'.pc = "take" /\ stopper'.list = <<>>
  BY PassBegins, EmptySeq DEF StopProfile, StopPcs
<1>2. /\ UNCHANGED <<listVars, trackVars, sessions, vm, runner, cleaner>> /\ enabled' \in BOOLEAN
  BY DEF StopProfile
<1> QED
  BY <1>1, <1>2, StopperMovesPreserves DEF TypeOK, CleanPcs

\* stop() takes the list of trackers.
LEMMA stopTakesPreserves ==
    ASSUME IndInv, stopTakes
    PROVE  IndInv'
<1> USE DEF IndInv, Consistent
<1>0. /\ UNCHANGED <<enabled, running, runners, trackVars, sessions, vm, runner, cleaner>>
      /\ Unlocked /\ trackers' = <<>> /\ buf' = 0
  BY DEF stopTakes
<1>1. stopper' \in Passes(StopPcs) /\ stopper'.pc = "load" /\ stopper'.list = trackers
  <2>1. "load" \in StopPcs /\ trackers \in Seq(Tracker) /\ stopper' = Pass("load", trackers)
    BY DEF stopTakes, StopPcs, TypeOK
  <2> QED
    BY <2>1, PassBegins
<1>2. trackers' \in Seq(Tracker) /\ Len(trackers') = 0
  BY <1>0, EmptySeq
<1>3. TypeOK'
  BY <1>0, <1>1, <1>2, ProfilerAssumption DEF TypeOK, StopPcs, trackVars
<1>4. PlacesInLists' /\ OneRunner'
  BY <1>0, <1>1 DEF PlacesInLists, OneRunner, Unlocked
<1>5. TrackersApart'
  BY <1>0, <1>1, <1>2 DEF TrackersApart, Registering, Traced, trackVars
<1>6. SampleHandedOver' /\ FramesNotTorn'
  BY <1>0, <1>1 DEF SampleHandedOver, FramesNotTorn, Traced, Unlocked, trackVars
<1>7. SamplesInOwnProfile'
  <2>1. runner'.pc \notin {"scan", "add", "check"}
    BY <1>0 DEF Unlocked
  <2>2. \A i \in 1..Len(trackers') : FALSE
    BY <1>2
  <2> QED
    BY <2>1, <2>2 DEF SamplesInOwnProfile
<1> QED
  BY <1>3, <1>4, <1>5, <1>6, <1>7

\* The list of StopProfile, and its place.
LEMMA StopperPlace ==
    ASSUME IndInv
    PROVE  /\ stopper \in Passes(StopPcs)
           /\ stopper.i \in Nat \ {0} /\ stopper.list \in Seq(Tracker) /\ stopper.kept \in Seq(Tracker)
           /\ Len(stopper.list) \in Nat
           /\ stopper.i <= Len(stopper.list) => StopAt \in Tracker
<1>1. stopper \in Passes(StopPcs)
  BY DEF IndInv, Consistent, TypeOK, StopPcs
<1>2. stopper.i \in Nat \ {0} /\ stopper.list \in Seq(Tracker) /\ stopper.kept \in Seq(Tracker)
  BY <1>1 DEF Passes
<1>3. Len(stopper.list) \in Nat
  BY <1>2, LenProperties
<1> QED
  BY <1>1, <1>2, <1>3, ElementOfSeq DEF StopAt

\* stop() loads req of a tracker it took.
LEMMA stopLoadsPreserves ==
    ASSUME IndInv, stopLoads
    PROVE  IndInv'
<1> USE DEF IndInv, Consistent
<1>0. /\ UNCHANGED <<enabled, listVars, trackVars, sessions, vm, runner, cleaner>>
      /\ stopper.i <= Len(stopper.list)
  BY DEF stopLoads
<1> DEFINE pc == IF req[StopAt] = "SampleReady" THEN "add" ELSE "store"
           kept == IF req[StopAt] = "DoSample" THEN Append(stopper.kept, StopAt) ELSE stopper.kept
<1>1. stopper' = [stopper EXCEPT !.pc = pc, !.kept = kept]
  BY DEF stopLoads
<1>2. pc \in {"add", "store"} /\ (pc = "add" => req[StopAt] = "SampleReady") /\ pc \in StopPcs
  BY DEF StopPcs
<1>3. kept \in Seq(Tracker)
  BY <1>0, StopperPlace, AppendProperties
<1> HIDE DEF pc, kept
<1>4. /\ stopper' \in Passes(StopPcs) /\ stopper'.pc = pc
      /\ stopper'.list = stopper.list /\ stopper'.i = stopper.i
  BY <1>1, <1>2, <1>3, StopperPlace DEF Passes
<1>5. StopAt' = StopAt
  BY <1>4 DEF StopAt
<1> QED
  BY <1>0, <1>2, <1>4, <1>5, StopperMovesPreserves DEF TypeOK, CleanPcs

\* stop() adds the sample.
LEMMA stopAddsPreserves ==
    ASSUME IndInv, stopAdds
    PROVE  IndInv'
<1> USE DEF IndInv, Consistent
<1>0. /\ UNCHANGED <<enabled, listVars, trackVars, sessions, vm, runner, cleaner>>
      /\ stopper.pc = "add" /\ stopper' = [stopper EXCEPT !.pc = "store"]
  BY DEF stopAdds
<1>1. /\ stopper' \in Passes(StopPcs) /\ stopper'.pc = "store"
      /\ stopper'.list = stopper.list /\ stopper'.i = stopper.i
  BY <1>0, StopperPlace DEF Passes, StopPcs
<1> QED
  BY <1>0, <1>1, StopperMovesPreserves DEF TypeOK, CleanPcs, PlacesInLists

\* Storing Stop in a tracker hands no sample over.
LEMMA StopStored ==
    ASSUME IndInv, NEW t \in Tracker, req' = [req EXCEPT ![t] = "Stop"],
           UNCHANGED <<listVars, vm, runner>>
    PROVE  /\ req' \in [Tracker -> Reqs]
           /\ \A u \in Tracker : req'[u] \in {req[u], "Stop"}
           /\ \A v \in Traced' : vm'[v].pc = "sampling" => req'[vm'[v].t] \in {"DoSample", "Stop"}
           /\ runner'.pc = "add" => req'[Current'] \in {"SampleReady", "Stop"}
<1> USE DEF IndInv, Consistent
<1>1. req' \in [Tracker -> Reqs] /\ \A u \in Tracker : req'[u] \in {req[u], "Stop"}
  BY DEF TypeOK, Reqs
<1>2. \A v \in Traced : vm[v].t \in Tracker
  BY TracedOwns
<1>3. \A v \in Traced' : vm'[v].pc = "sampling" => req'[vm'[v].t] \in {"DoSample", "Stop"}
  BY <1>1, <1>2 DEF SampleHandedOver, Traced
<1>4. runner.pc = "add" => Current \in Tracker
  BY ElementOfSeq, LenProperties DEF PlacesInLists, TypeOK, Current
<1>5. runner'.pc = "add" => req'[Current'] \in {"SampleReady", "Stop"}
  BY <1>1, <1>4 DEF SampleHandedOver, Current, listVars
<1> QED
  BY <1>1, <1>3, <1>5

\* stop() stores Stop and goes on.
LEMMA stopStoresPreserves ==
    ASSUME IndInv, stopStores
    PROVE  IndInv'
<1> USE DEF IndInv, Consistent
<1>0. /\ UNCHANGED <<enabled, listVars, finished, session, made, sessions, vm, runner, cleaner>>
      /\ stopper.pc = "store" /\ req' = [req EXCEPT ![StopAt] = "Stop"]
      /\ stopper' = [stopper EXCEPT !.pc = "load", !.i = stopper.i + 1]
  BY DEF stopStores
<1>1. StopAt \in Tracker
  BY <1>0, StopperPlace DEF PlacesInLists
<1>2. stopper' \in Passes(StopPcs) /\ stopper'.pc = "load" /\ stopper'.list = stopper.list
  <2>1. stopper.i + 1 \in Nat \ {0}
    BY StopperPlace
  <2> QED
    BY <1>0, <2>1, StopperPlace DEF Passes, StopPcs
<1>3. TypeOK'
  BY <1>0, <1>1, <1>2, StopStored DEF TypeOK, StopPcs, listVars
<1>4. PlacesInLists' /\ OneRunner' /\ SamplesInOwnProfile'
  BY <1>0, <1>2 DEF PlacesInLists, OneRunner, SamplesInOwnProfile, Unlocked, listVars
<1>5. TrackersApart'
  BY <1>0, <1>2 DEF TrackersApart, Registering, Traced, listVars
<1>6. SampleHandedOver' /\ FramesNotTorn'
  BY <1>0, <1>1, <1>2, StopStored DEF SampleHandedOver, FramesNotTorn, Current, listVars
<1> QED
  BY <1>3, <1>4, <1>5, <1>6

\* StopProfile returns and leaves the trackers it kept to its goroutine.
LEMMA stopReturnsPreserves ==
    ASSUME IndInv, stopReturns
    PROVE  IndInv'
<1> USE DEF IndInv, Consistent
<1> DEFINE pc == IF stopper.kept = <<>> THEN "done" ELSE "load"
           left == Pass(pc, stopper.kept)
<1>0. /\ UNCHANGED <<enabled, listVars, trackVars, sessions, vm, runner>>
      /\ stopper' = Pass("off", <<>>) /\ cleaner' = [cleaner EXCEPT ![sessions] = left]
  BY DEF stopReturns
<1>1. left \in Passes(CleanPcs) /\ left.pc # "store"
  <2>1. pc \in CleanPcs /\ pc # "store"
    BY DEF CleanPcs
  <2> QED
    BY <2>1, StopperPlace, PassBegins
<1> HIDE DEF left
<1>2. /\ cleaner' \in [Session -> Passes(CleanPcs)]
      /\ \A s \in Session : cleaner'[s] = cleaner[s] \/ cleaner'[s].pc # "store"
  BY <1>0, <1>1 DEF TypeOK, CleanPcs
<1>3. stopper' \in Passes(StopPcs) /\ stopper'.pc = "off" /\ stopper'.list = <<>>
  BY <1>0, PassBegins, EmptySeq DEF StopPcs
<1> QED
  BY <1>0, <1>2, <1>3, StopperMovesPreserves DEF TypeOK

-----------------------------------------------------------------------------
(* The goroutines that StopProfile leaves behind *)

\* A step of such a goroutine disturbs no one, whatever it stores.
LEMMA CleanerMovesPreserves ==
    ASSUME IndInv, NEW s \in Session, NEW c \in Passes(CleanPcs),
           cleaner' = [cleaner EXCEPT ![s] = c], c.pc = "store" => c.i <= Len(c.list),
           UNCHANGED <<enabled, listVars, finished, session, made, sessions, vm, runner, stopper>>,
           req' = req \/ \E t \in Tracker : req' = [req EXCEPT ![t] = "Stop"]
    PROVE  IndInv'
<1> USE DEF IndInv, Consistent
<1>1. CASE req' = req
  BY <1>1 DEF TypeOK, CleanPcs, PlacesInLists, OneRunner, SamplesInOwnProfile, TrackersApart,
     SampleHandedOver, FramesNotTorn, Unlocked, Registering, Traced, Current, StopAt, listVars
<1>2. ASSUME NEW t \in Tracker, req' = [req EXCEPT ![t] = "Stop"] PROVE IndInv'
  <2>1. TypeOK'
    BY <1>2, StopStored DEF TypeOK, CleanPcs, listVars
  <2>2. PlacesInLists' /\ OneRunner' /\ SamplesInOwnProfile'
    BY DEF TypeOK, PlacesInLists, OneRunner, SamplesInOwnProfile, Unlocked, listVars
  <2>3. TrackersApart' /\ FramesNotTorn'
    BY DEF TrackersApart, FramesNotTorn, Registering, Traced, Current, StopAt, listVars
  <2>4. stopper.pc = "add" => StopAt \in Tracker
    BY StopperPlace DEF PlacesInLists
  <2>5. SampleHandedOver'
    BY <1>2, <2>4, StopStored DEF SampleHandedOver, StopAt
  <2> QED
    BY <2>1, <2>2, <2>3, <2>5
<1> QED
  BY <1>1, <1>2

\* The state of one such goroutine.
LEMMA CleanerPlace ==
    ASSUME IndInv, NEW s \in Session
    PROVE  /\ cleaner[s] \in Passes(CleanPcs)
           /\ cleaner[s].i \in Nat \ {0} /\ cleaner[s].i + 1 \in Nat \ {0}
           /\ cleaner[s].list \in Seq(Tracker) /\ cleaner[s].kept \in Seq(Tracker)
           /\ Len(cleaner[s].list) \in Nat
           /\ cleaner[s].i <= Len(cleaner[s].list) =>
                 CleanAt(s) \in Tracker /\ Append(cleaner[s].kept, CleanAt(s)) \in Seq(Tracker)
<1>1. cleaner[s] \in Passes(CleanPcs)
  BY DEF IndInv, Consistent, TypeOK, CleanPcs
<1>2. cleaner[s].i \in Nat \ {0} /\ cleaner[s].list \in Seq(Tracker) /\ cleaner[s].kept \in Seq(Tracker)
  BY <1>1 DEF Passes
<1>3. Len(cleaner[s].list) \in Nat /\ cleaner[s].i + 1 \in Nat \ {0}
  BY <1>2, LenProperties
<1>4. cleaner[s].i <= Len(cleaner[s].list) => CleanAt(s) \in Tracker
  BY <1>2, <1>3, ElementOfSeq DEF CleanAt
<1> QED
  BY <1>1, <1>2, <1>3, <1>4, AppendProperties

\* The goroutine looks at a tracker: it is done with it or keeps it.
LEMMA cleanLoadsPreserves ==
    ASSUME IndInv, NEW s \in Session, cleanLoads(s)
    PROVE  IndInv'
<1> DEFINE old == cleaner[s]
           next == [old EXCEPT !.i = old.i + 1]
           keep == [old EXCEPT !.pc = "store", !.kept = Append(old.kept, CleanAt(s))]
           new == IF req[CleanAt(s)] = "Stop" THEN next ELSE keep
<1>0. /\ old.i <= Len(old.list) /\ cleaner' = [cleaner EXCEPT ![s] = new]
      /\ UNCHANGED <<enabled, listVars, trackVars, sessions, vm, runner, stopper>> /\ old.pc = "load"
  <2>1. CASE cleaner' = [cleaner EXCEPT ![s].i = @ + 1] /\ req[CleanAt(s)] = "Stop"
    BY <2>1 DEF cleanLoads
  <2>2. CASE /\ cleaner' = [cleaner EXCEPT ![s].pc = "store", ![s].kept = Append(@, CleanAt(s))]
             /\ req[CleanAt(s)] # "Stop"
    BY <2>2 DEF cleanLoads
  <2> QED
    BY <2>1, <2>2 DEF cleanLoads
<1>1. next \in Passes(CleanPcs) /\ next.pc = "load"
  BY <1>0, CleanerPlace DEF Passes, CleanPcs
<1>2. keep \in Passes(CleanPcs) /\ keep.i = old.i /\ keep.list = old.list
  BY <1>0, CleanerPlace DEF Passes, CleanPcs
<1> HIDE DEF next, keep
<1>3. new \in Passes(CleanPcs) /\ (new.pc = "store" => new.i <= Len(new.list))
  BY <1>0, <1>1, <1>2
<1> HIDE DEF new
<1> QED
  BY <1>0, <1>3, CleanerMovesPreserves DEF trackVars

\* It stores Stop.
LEMMA cleanStoresPreserves ==
    ASSUME IndInv, NEW s \in Session, cleanStores(s)
    PROVE  IndInv'
<1> DEFINE old == cleaner[s]
           new == [old EXCEPT !.pc = "load", !.i = old.i + 1]
<1>0. /\ cleaner' = [cleaner EXCEPT ![s] = new] /\ old.pc = "store"
      /\ req' = [req EXCEPT ![CleanAt(s)] = "Stop"]
      /\ UNCHANGED <<enabled, listVars, finished, session, made, sessions, vm, runner, stopper>>
  BY DEF cleanStores, IndInv, Consistent, TypeOK
<1>1. CleanAt(s) \in Tracker
  BY <1>0, CleanerPlace DEF IndInv, Consistent, PlacesInLists
<1>2. new \in Passes(CleanPcs) /\ new.pc = "load"
  BY CleanerPlace DEF Passes, CleanPcs
<1> HIDE DEF new
<1> QED
  BY <1>0, <1>1, <1>2, CleanerMovesPreserves

\* It goes round again with the trackers it kept, or ends.
LEMMA cleanTurnPreserves ==
    ASSUME IndInv, NEW s \in Session, cleanTurn(s)
    PROVE  IndInv'
<1> DEFINE pc == IF cleaner[s].kept = <<>> THEN "done" ELSE "load"
           new == Pass(pc, cleaner[s].kept)
<1>0. /\ cleaner' = [cleaner EXCEPT ![s] = new]
      /\ UNCHANGED <<enabled, listVars, trackVars, sessions, vm, runner, stopper>>
  BY DEF cleanTurn
<1>1. pc \in CleanPcs /\ pc # "store"
  BY DEF CleanPcs
<1> HIDE DEF pc
<1>2. new \in Passes(CleanPcs) /\ new.pc # "store"
  BY <1>1, CleanerPlace, PassBegins
<1> HIDE DEF new
<1> QED
  BY <1>0, <1>2, CleanerMovesPreserves DEF trackVars

-----------------------------------------------------------------------------
\* Every step of the profiler's goroutines and of the VMs keeps the inductive
\* invariant.
LEMMA NextPreserves ==
    ASSUME IndInv, [Next]_vars
    PROVE  IndInv'
<1>1. ASSUME NEW v \in VMs, VMStep(v) PROVE IndInv'
  <2>1. CASE TracedEnds(v)
    BY <2>1, <1>1, FinishPreserves DEF TracedEnds
  <2> QED
    BY <1>1, <2>1, LooksAtEnabledPreserves, registerVmPreserves, LoadReqPreserves, StoreReadyPreserves
       DEF VMStep, TraceStep
<1>2. CASE RunnerStep
  BY <1>2, TickPreserves, ScanReqPreserves, AddSamplePreserves, ScanFinishedPreserves DEF RunnerStep
<1>3. CASE StartProfile
  BY <1>3, StartProfilePreserves
<1>4. CASE StopProfile
  BY <1>4, StopProfilePreserves
<1>5. CASE StopStep
  BY <1>5, stopTakesPreserves, stopLoadsPreserves, stopAddsPreserves, stopStoresPreserves,
     stopReturnsPreserves DEF StopStep
<1>6. ASSUME NEW s \in Session, CleanStep(s) PROVE IndInv'
  BY <1>6, cleanLoadsPreserves, cleanStoresPreserves, cleanTurnPreserves DEF CleanStep
<1>7. CASE UNCHANGED vars
  BY <1>7, StutterPreserves
<1> QED
  BY <1>1, <1>2, <1>3, <1>4, <1>5, <1>6, <1>7 DEF Next

\* A program starts with no profile and no tracker.
LEMMA InitHolds ==
    ASSUME Init
    PROVE  IndInv
<1>0. <<>> \in Seq(Tracker) /\ Len(<<>>) = 0
  BY EmptySeq
<1>1. runner \in RunnerState /\ runner.pc = "off"
  BY AsleepSleeps DEF Init
<1>2. stopper \in Passes(StopPcs) /\ stopper.pc = "off" /\ stopper.list = <<>>
  BY <1>0, PassBegins DEF Init, StopPcs
<1>3. /\ cleaner \in [Session -> Passes(CleanPcs)]
      /\ \A s \in Session : cleaner[s].pc = "off"
  <2>1. Pass("off", <<>>) \in Passes(CleanPcs) /\ Pass("off", <<>>).pc = "off"
    BY <1>0, PassBegins DEF CleanPcs
  <2> QED
    BY <2>1 DEF Init
<1>4. TypeOK
  <2>1. vm \in [VMs -> VMState]
    <3>1. [pc |-> "plain", t |-> 0] \in VMState
      BY ProfilerAssumption DEF VMState
    <3> QED
      BY <3>1 DEF Init
  <2>2. /\ req \in [Tracker -> Reqs] /\ finished \in [Tracker -> BOOLEAN]
        /\ session \in [Tracker -> 0..MaxSessions]
    BY ProfilerAssumption DEF Init, Reqs
  <2>3. enabled \in BOOLEAN /\ running \in BOOLEAN /\ trackers \in Seq(Tracker)
    BY <1>0 DEF Init
  <2>4. /\ runners \in Nat /\ buf \in 0..MaxSessions /\ sessions \in 0..MaxSessions /\ made \in 0..MaxTrackers
    BY ProfilerAssumption DEF Init
  <2> QED
    BY <1>1, <1>2, <1>3, <2>1, <2>2, <2>3, <2>4 DEF TypeOK, VMState, RunnerState, StopPcs, CleanPcs
<1>5. PlacesInLists /\ OneRunner /\ SampleHandedOver /\ FramesNotTorn /\ SamplesInOwnProfile
  BY <1>0, <1>1, <1>2, <1>3 DEF Init, PlacesInLists, OneRunner, SampleHandedOver, FramesNotTorn,
     SamplesInOwnProfile, Unlocked, Traced
<1>6. TrackersApart
  <2>1. Registering = {} /\ Traced = {}
    BY DEF Init, Registering, Traced
  <2> QED
    BY <1>0, <1>2, <2>1, FS_EmptySet, ProfilerAssumption DEF Init, TrackersApart
<1> QED
  BY <1>4, <1>5, <1>6 DEF IndInv, Consistent

\* The profiler's lists, goroutines and requests stay consistent however the VMs,
\* run(), StartProfile, StopProfile and its goroutines interleave.
THEOREM ConsistentAlways == Spec => []Consistent
<1>1. Init => IndInv
  BY InitHolds
<1>2. IndInv /\ [Next]_vars => IndInv'
  BY NextPreserves
<1>3. IndInv => Consistent
  BY DEF IndInv
<1> QED
  BY <1>1, <1>2, <1>3, PTL DEF Spec

\* Frames that a VM writes are never read meanwhile, by run() or by stop(),
\* although no lock protects them.
THEOREM FramesNeverTorn == Spec => []FramesNotTorn
<1>1. Init => IndInv
  BY InitHolds
<1>2. IndInv /\ [Next]_vars => IndInv'
  BY NextPreserves
<1>3. IndInv => FramesNotTorn
  BY DEF IndInv
<1> QED
  BY <1>1, <1>2, <1>3, PTL DEF Spec

\* run() adds each sample to the profile of the session its tracker was made in.
THEOREM SamplesStayInProfile == Spec => []SamplesInOwnProfile
<1>1. Init => IndInv
  BY InitHolds
<1>2. IndInv /\ [Next]_vars => IndInv'
  BY NextPreserves
<1>3. IndInv => SamplesInOwnProfile
  BY DEF IndInv
<1> QED
  BY <1>1, <1>2, <1>3, PTL DEF Spec
=============================================================================
