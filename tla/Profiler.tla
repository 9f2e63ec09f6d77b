------------------------------ MODULE Profiler -------------------------------
(***************************************************************************)
(* The sampling profiler (profiler.go) and the run loops of the VMs it     *)
(* samples (vm.runWithProfiler).  A profTracker is shared by a VM, the     *)
(* goroutine of profiler.run, StopProfile and the goroutine that StopProfile *)
(* starts; they synchronise by the atomic field req, and by p.mu for the   *)
(* list of trackers.                                                       *)
(*                                                                         *)
(* Only the run goroutine holds p.mu over more than one step: it is locked *)
(* exactly while that goroutine scans.  Start and Stop are called by one   *)
(* goroutine, one after the other.                                         *)
(***************************************************************************)
EXTENDS Naturals, Sequences, FiniteSets

CONSTANTS VMs,
          MaxTrackers,    \* bound on the trackers made
          MaxSessions     \* bound on the calls of StartProfile

ASSUME ProfilerAssumption ==
    MaxTrackers \in Nat /\ MaxSessions \in Nat /\ IsFiniteSet(VMs)

VARIABLES enabled,         \* globalProfiler.enabled
          buf,             \* p.buf: the number of the session it is for, 0 for nil
          trackers,        \* p.trackers
          running,         \* p.running
          req, finished,   \* per profTracker
          session,         \* per profTracker: the session it was made in
          made,            \* trackers made so far
          sessions,        \* calls of StartProfile so far
          vm,              \* per VM: where it is and its vm.profTracker
          runner,          \* the goroutine of profiler.run
          runners,         \* how many there are
          stopper,         \* the call of StopProfile
          cleaner          \* per session: the goroutine that its StopProfile started

trackVars == <<req, finished, session, made>>
listVars  == <<buf, trackers, running, runners>>
vars == <<enabled, listVars, trackVars, sessions, vm, runner, stopper, cleaner>>

Tracker == 1..MaxTrackers
Session == 1..MaxSessions

\* A pass over a list of trackers: i is the next one, kept those to look at again.
Pass(pc, list) == [pc |-> pc, list |-> list, i |-> 1, kept |-> <<>>]

\* The locals of run() when there is no such goroutine, and between two ticks.
NoRunner == [pc |-> "off", counter |-> 1, left |-> 0, seen |-> "None"]
Asleep(counter) == [NoRunner EXCEPT !.pc = "sleep", !.counter = counter]

Unlocked == runner.pc \in {"off", "sleep"}

Init ==
    /\ enabled = FALSE /\ buf = 0 /\ trackers = <<>> /\ running = FALSE
    /\ req = [t \in Tracker |-> "None"]
    /\ finished = [t \in Tracker |-> FALSE]
    /\ session = [t \in Tracker |-> 0]
    /\ made = 0 /\ sessions = 0
    /\ vm = [v \in VMs |-> [pc |-> "plain", t |-> 0]]
    /\ runner = NoRunner
    /\ runners = 0
    /\ stopper = Pass("off", <<>>)
    /\ cleaner = [s \in Session |-> Pass("off", <<>>)]

-----------------------------------------------------------------------------
(* A VM *)

Go(v, pc, t) == vm' = [vm EXCEPT ![v] = [pc |-> pc, t |-> t]]

\* The plain loop of run() looks at enabled when it begins and once in a while.
\* A VM at "plain" executes that loop or does not execute at all.
LooksAtEnabled(v) ==
    /\ vm[v].pc = "plain"
    /\ \/ ~enabled /\ UNCHANGED vm
       \/ /\ enabled
          /\ made + Cardinality({w \in VMs : vm[w].pc = "register"}) < MaxTrackers
          /\ Go(v, "register", 0)
    /\ UNCHANGED <<enabled, listVars, trackVars, sessions, runner, stopper, cleaner>>

\* The profile may have been stopped meanwhile.
registerVm(v) ==
    LET t == made + 1 IN
    /\ vm[v].pc = "register" /\ Unlocked
    /\ made' = t
    /\ session' = [session EXCEPT ![t] = buf]
    /\ Go(v, "tracing", t)
    /\ IF buf # 0
       THEN /\ trackers' = Append(trackers, t)
            /\ running' = TRUE
            /\ IF running THEN UNCHANGED <<runners, runner>>
               ELSE /\ runners' = runners + 1
                    /\ runner' = Asleep(1)
            /\ UNCHANGED req
       ELSE /\ req' = [req EXCEPT ![t] = "Stop"]
            /\ UNCHANGED <<trackers, running, runners, runner>>
    /\ UNCHANGED <<enabled, buf, finished, sessions, stopper, cleaner>>

\* The deferred function of runWithProfiler.
Finish(v) == finished' = [finished EXCEPT ![vm[v].t] = TRUE]

\* runWithProfiler: an instruction has run and req is loaded.
LoadReq(v) ==
    /\ vm[v].pc = "tracing"
    /\ \/ /\ req[vm[v].t] = "Stop" /\ Finish(v) /\ Go(v, "plain", 0)
       \/ /\ req[vm[v].t] = "DoSample" /\ Go(v, "sampling", vm[v].t) /\ UNCHANGED finished
    /\ UNCHANGED <<enabled, listVars, req, session, made, sessions, runner, stopper, cleaner>>

\* The frames are written; then req is stored, whatever it is by now.
StoreReady(v) ==
    /\ vm[v].pc = "sampling"
    /\ req' = [req EXCEPT ![vm[v].t] = "SampleReady"]
    /\ Go(v, "tracing", vm[v].t)
    /\ UNCHANGED <<enabled, listVars, finished, session, made, sessions, runner, stopper, cleaner>>

\* The program ends or is interrupted while it is traced.
TracedEnds(v) ==
    /\ vm[v].pc = "tracing"
    /\ Finish(v)
    /\ Go(v, "plain", 0)
    /\ UNCHANGED <<enabled, listVars, req, session, made, sessions, runner, stopper, cleaner>>

-----------------------------------------------------------------------------
(* profiler.run *)

\* Mutant of Tick: running stays set when the goroutine ends.
TickKeepsRunning ==
    /\ runner.pc = "sleep"
    /\ \/ /\ trackers = <<>>
          /\ runners' = runners - 1
          /\ runner' = NoRunner
       \/ /\ trackers # <<>>
          /\ runner' = [runner EXCEPT !.pc = "scan", !.left = Len(trackers)]
          /\ UNCHANGED runners
    /\ UNCHANGED <<enabled, buf, trackers, running, trackVars, sessions, vm, stopper, cleaner>>

\* Mutant of Tick: without trackers the goroutine waits for the next tick.
TickNeverEnds ==
    /\ runner.pc = "sleep" /\ trackers # <<>>
    /\ runner' = [runner EXCEPT !.pc = "scan", !.left = Len(trackers)]
    /\ UNCHANGED <<enabled, listVars, trackVars, sessions, vm, stopper, cleaner>>

\* The ticker fires: the goroutine ends if there is no tracker, or locks p.mu
\* and scans.
Tick ==
    /\ runner.pc = "sleep"
    /\ \/ /\ trackers = <<>>
          /\ running' = FALSE /\ runners' = runners - 1
          /\ runner' = NoRunner
       \/ /\ trackers # <<>>
          /\ runner' = [runner EXCEPT !.pc = "scan", !.left = Len(trackers)]
          /\ UNCHANGED <<running, runners>>
    /\ UNCHANGED <<enabled, buf, trackers, trackVars, sessions, vm, stopper, cleaner>>

Place == IF runner.counter > Len(trackers) THEN 1 ELSE runner.counter
Current == trackers[runner.counter]

\* One turn of the inner loop: load req, and add the sample if it is ready ...
ScanReq ==
    /\ runner.pc = "scan"
    /\ runner' = [runner EXCEPT !.counter = Place, !.seen = req[trackers[Place]],
                     !.pc = IF req[trackers[Place]] = "SampleReady" THEN "add" ELSE "check"]
    /\ UNCHANGED <<enabled, listVars, trackVars, sessions, vm, stopper, cleaner>>

AddSample ==
    /\ runner.pc = "add"
    /\ runner' = [runner EXCEPT !.pc = "check"]
    /\ UNCHANGED <<enabled, listVars, trackVars, sessions, vm, stopper, cleaner>>

\* The next turn, or p.mu is unlocked when every tracker had its turn.
Turn(counter) ==
    runner' = IF runner.left > 1
              THEN [runner EXCEPT !.counter = counter, !.left = @ - 1, !.pc = "scan", !.seen = "None"]
              ELSE Asleep(counter)

\* The last element takes the place of the one that is dropped.
DropAt(list, i) == SubSeq([list EXCEPT ![i] = list[Len(list)]], 1, Len(list) - 1)

\* ... then look at finished: drop the tracker, or ask for a sample unless it
\* was asked before.
ScanFinished ==
    /\ runner.pc = "check"
    /\ \/ /\ finished[Current]
          /\ trackers' = DropAt(trackers, runner.counter)
          /\ Turn(runner.counter)
          /\ UNCHANGED req
       \/ /\ ~finished[Current] /\ runner.seen # "DoSample"
          /\ req' = [req EXCEPT ![Current] = "DoSample"]
          /\ runner' = Asleep(runner.counter + 1)
          /\ UNCHANGED trackers
       \/ /\ ~finished[Current] /\ runner.seen = "DoSample"
          /\ Turn(runner.counter + 1)
          /\ UNCHANGED <<trackers, req>>
    /\ UNCHANGED <<enabled, buf, running, runners, finished, session, made, sessions, vm, stopper, cleaner>>

-----------------------------------------------------------------------------
(* StartProfile and StopProfile *)

StartProfile ==
    /\ stopper.pc = "off" /\ buf = 0 /\ sessions < MaxSessions /\ Unlocked
    /\ sessions' = sessions + 1
    /\ buf' = sessions + 1
    /\ enabled' = TRUE
    /\ UNCHANGED <<trackers, running, runners, trackVars, vm, runner, stopper, cleaner>>

StopProfile ==
    /\ stopper.pc = "off" /\ buf # 0
    /\ enabled' = FALSE
    /\ stopper' = Pass("take", <<>>)
    /\ UNCHANGED <<listVars, trackVars, sessions, vm, runner, cleaner>>

\* Mutants of stopTakes: the list is taken without locking p.mu, or it is left
\* to the next session.
stopTakesUnlocked ==
    /\ stopper.pc = "take"
    /\ stopper' = Pass("load", trackers)
    /\ trackers' = <<>> /\ buf' = 0
    /\ UNCHANGED <<enabled, running, runners, trackVars, sessions, vm, runner, cleaner>>
stopTakesCopy ==
    /\ stopper.pc = "take" /\ Unlocked
    /\ stopper' = Pass("load", trackers)
    /\ buf' = 0
    /\ UNCHANGED <<enabled, trackers, running, runners, trackVars, sessions, vm, runner, cleaner>>

\* stop() takes the list and the buffer.
stopTakes ==
    /\ stopper.pc = "take" /\ Unlocked
    /\ stopper' = Pass("load", trackers)
    /\ trackers' = <<>> /\ buf' = 0
    /\ UNCHANGED <<enabled, running, runners, trackVars, sessions, vm, runner, cleaner>>

StopAt == stopper.list[stopper.i]

\* For every tracker: load req, and add a sample that is ready or keep a tracker
\* that was asked for one ...
stopLoads ==
    /\ stopper.pc = "load" /\ stopper.i <= Len(stopper.list)
    /\ stopper' = [stopper EXCEPT
                     !.pc = IF req[StopAt] = "SampleReady" THEN "add" ELSE "store",
                     !.kept = IF req[StopAt] = "DoSample" THEN Append(@, StopAt) ELSE @]
    /\ UNCHANGED <<enabled, listVars, trackVars, sessions, vm, runner, cleaner>>

stopAdds ==
    /\ stopper.pc = "add"
    /\ stopper' = [stopper EXCEPT !.pc = "store"]
    /\ UNCHANGED <<enabled, listVars, trackVars, sessions, vm, runner, cleaner>>

\* ... then store Stop.
stopStores ==
    /\ stopper.pc = "store"
    /\ req' = [req EXCEPT ![StopAt] = "Stop"]
    /\ stopper' = [stopper EXCEPT !.pc = "load", !.i = @ + 1]
    /\ UNCHANGED <<enabled, listVars, finished, session, made, sessions, vm, runner, cleaner>>

\* StopProfile returns; a goroutine sees to the trackers that were kept.
stopReturns ==
    /\ stopper.pc = "load" /\ stopper.i > Len(stopper.list)
    /\ stopper' = Pass("off", <<>>)
    /\ cleaner' = [cleaner EXCEPT ![sessions] =
                      Pass(IF stopper.kept = <<>> THEN "done" ELSE "load", stopper.kept)]
    /\ UNCHANGED <<enabled, listVars, trackVars, sessions, vm, runner>>

CleanAt(s) == cleaner[s].list[cleaner[s].i]

\* The goroutine stores Stop in every tracker that it finds otherwise ...
cleanLoads(s) ==
    /\ cleaner[s].pc = "load" /\ cleaner[s].i <= Len(cleaner[s].list)
    /\ \/ /\ req[CleanAt(s)] = "Stop"
          /\ cleaner' = [cleaner EXCEPT ![s].i = @ + 1]
       \/ /\ req[CleanAt(s)] # "Stop"
          /\ cleaner' = [cleaner EXCEPT ![s].pc = "store", ![s].kept = Append(@, CleanAt(s))]
    /\ UNCHANGED <<enabled, listVars, trackVars, sessions, vm, runner, stopper>>

cleanStores(s) ==
    /\ cleaner[s].pc = "store"
    /\ req' = [req EXCEPT ![CleanAt(s)] = "Stop"]
    /\ cleaner' = [cleaner EXCEPT ![s].pc = "load", ![s].i = @ + 1]
    /\ UNCHANGED <<enabled, listVars, finished, session, made, sessions, vm, runner, stopper>>

\* Mutant of cleanTurn: every tracker is looked at again and again.
cleanTurnKeepsAll(s) ==
    /\ cleaner[s].pc = "load" /\ cleaner[s].i > Len(cleaner[s].list)
    /\ cleaner' = [cleaner EXCEPT ![s] = Pass("load", cleaner[s].list)]
    /\ UNCHANGED <<enabled, listVars, trackVars, sessions, vm, runner, stopper>>

\* ... and goes on with those after a while, until there are none.
cleanTurn(s) ==
    /\ cleaner[s].pc = "load" /\ cleaner[s].i > Len(cleaner[s].list)
    /\ cleaner' = [cleaner EXCEPT ![s] =
                      Pass(IF cleaner[s].kept = <<>> THEN "done" ELSE "load", cleaner[s].kept)]
    /\ UNCHANGED <<enabled, listVars, trackVars, sessions, vm, runner, stopper>>

-----------------------------------------------------------------------------
TraceStep(v) == LoadReq(v) \/ StoreReady(v)
VMStep(v) == LooksAtEnabled(v) \/ registerVm(v) \/ TraceStep(v) \/ TracedEnds(v)
RunnerStep == Tick \/ ScanReq \/ AddSample \/ ScanFinished
StopStep == stopTakes \/ stopLoads \/ stopAdds \/ stopStores \/ stopReturns
CleanStep(s) == cleanLoads(s) \/ cleanStores(s) \/ cleanTurn(s)

Next ==
    \/ \E v \in VMs : VMStep(v)
    \/ RunnerStep \/ StartProfile \/ StopProfile \/ StopStep
    \/ \E s \in Session : CleanStep(s)

Spec == Init /\ [][Next]_vars

\* The goroutines run; the lock is free again and again, and sync.Mutex is
\* starvation-free.  A VM that is traced goes on executing instructions.
FairSpec ==
    /\ Spec
    /\ WF_vars(RunnerStep) /\ SF_vars(StopStep)
    /\ \A v \in VMs : WF_vars(TraceStep(v))
    /\ \A s \in Session : WF_vars(CleanStep(s))

-----------------------------------------------------------------------------
Reqs == {"None", "DoSample", "SampleReady", "Stop"}

Passes(pcs) == [pc : pcs, list : Seq(Tracker), i : Nat \ {0}, kept : Seq(Tracker)]

\* Type invariant.
TypeOK ==
    /\ enabled \in BOOLEAN /\ running \in BOOLEAN
    /\ buf \in 0..MaxSessions /\ sessions \in 0..MaxSessions
    /\ trackers \in Seq(Tracker) /\ made \in 0..MaxTrackers /\ runners \in Nat
    /\ req \in [Tracker -> Reqs] /\ finished \in [Tracker -> BOOLEAN]
    /\ session \in [Tracker -> 0..MaxSessions]
    /\ vm \in [VMs -> [pc : {"plain", "register", "tracing", "sampling"}, t : 0..MaxTrackers]]
    /\ runner \in [pc : {"off", "sleep", "scan", "add", "check"},
                   counter : Nat \ {0}, left : Nat, seen : Reqs]
    /\ stopper \in Passes({"off", "take", "load", "add", "store"})
    /\ cleaner \in [Session -> Passes({"off", "load", "store", "done"})]

\* Nobody looks past the end of a list: run() has as many turns left as there
\* are trackers, at most, and a pass that holds a tracker is at a place of its list.
PlacesInLists ==
    /\ ~Unlocked => runner.left \in 1..Len(trackers)
    /\ runner.pc \in {"add", "check"} => runner.counter <= Len(trackers)
    /\ stopper.pc \in {"add", "store"} => stopper.i <= Len(stopper.list)
    /\ \A s \in Session : cleaner[s].pc = "store" => cleaner[s].i <= Len(cleaner[s].list)

\* There is one run goroutine if p.running says so and none otherwise, and
\* nobody is traced without one: a tracker in the list will be looked at.
OneRunner ==
    /\ runners = (IF running THEN 1 ELSE 0)
    /\ running <=> runner.pc # "off"
    /\ trackers # <<>> => running /\ buf # 0

\* A tracker is of one VM, and it is in the list of run() or in the one that
\* StopProfile took, not in both.
Registering == {v \in VMs : vm[v].pc = "register"}
Traced == {v \in VMs : vm[v].pc \in {"tracing", "sampling"}}
TrackersApart ==
    /\ made + Cardinality(Registering) <= MaxTrackers
    /\ \A v \in Traced : vm[v].t \in 1..made
    /\ \A v, w \in Traced : vm[v].t = vm[w].t => v = w
    /\ \A i \in 1..Len(trackers) : trackers[i] <= made
    /\ \A j \in 1..Len(stopper.list) : stopper.list[j] <= made
    /\ \A i \in 1..Len(trackers), j \in 1..Len(stopper.list) : trackers[i] # stopper.list[j]

\* While a VM writes the frames it was asked for, its req is not SampleReady;
\* while a sample is added, the VM is not asked for another one.
SampleHandedOver ==
    /\ \A v \in Traced : vm[v].pc = "sampling" => req[vm[v].t] \in {"DoSample", "Stop"}
    /\ runner.pc = "add" => req[Current] \in {"SampleReady", "Stop"}
    /\ stopper.pc = "add" => req[StopAt] \in {"SampleReady", "Stop"}

\* The profiler's state is well formed, run() serves whoever is traced, exactly
\* once, and every tracker is handed from one goroutine to the next.
Consistent ==
    TypeOK /\ PlacesInLists /\ OneRunner /\ TrackersApart /\ SampleHandedOver

\* The frames of a tracker are not protected by a lock: nobody reads them while
\* the VM writes them, whichever of run() and stop() adds the sample.
FramesNotTorn ==
    \A v \in VMs : vm[v].pc = "sampling" =>
       /\ runner.pc = "add" => Current # vm[v].t
       /\ stopper.pc = "add" => StopAt # vm[v].t

\* A sample goes to the profile of the session that its tracker was made in;
\* run() finds a buffer to add it to.
SamplesInOwnProfile ==
    /\ runner.pc \in {"scan", "add", "check"} => buf # 0
    /\ \A i \in 1..Len(trackers) : session[trackers[i]] = buf

\* Once the profile is stopped, the run goroutine ends, or another profile begins.
RunnerEnds == (buf = 0 /\ running) ~> (~running \/ buf # 0)

\* StopProfile returns, and the goroutine it leaves behind ends.
StopEnds == \A s \in Session : (sessions = s /\ stopper.pc = "take") ~> cleaner[s].pc = "done"
=============================================================================
