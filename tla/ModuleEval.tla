------------------------------ MODULE ModuleEval ------------------------------
(***************************************************************************)
(* Evaluation of a graph of modules (modules.go): the depth-first walk of  *)
(* innerModuleEvaluation, and what happens when the body of a module with  *)
(* top-level await settles.  The modules are linked; a record and its      *)
(* instance are one here, and 0 stands for the nil instance.               *)
(*                                                                         *)
(* go is the Go stack of the walk, an activation per module with the next  *)
(* of its requested modules.  Settled bodies are reported by promise jobs, *)
(* which do not run inside a walk: Instantiate and a body that runs keep   *)
(* contexts on the call stack, and leave() is called after the walk.       *)
(***************************************************************************)
EXTENDS Integers, Sequences, FiniteSets

CONSTANTS Modules,         \* 1..n
          Graphs,          \* RequestedModules of every module
          MaxEvaluations,  \* bound on the modules the host evaluates
          MaxThrows        \* bound on the bodies that throw

ASSUME ModuleEvalAssumption ==
    /\ Modules \subseteq Nat \ {0}
    /\ Graphs \subseteq [Modules -> Seq(Modules)]
    /\ MaxEvaluations \in Nat /\ MaxThrows \in Nat

VARIABLES graph, tla,       \* what the modules request, and which have top-level await
          instances,        \* r.modules
          status, dfsIndex, dfsAncestorIndex,
          pending,          \* pendingAsyncDependancies
          cycleRoot,
          asyncEvaluation,  \* 0, or when the module became asynchronous
          counter,          \* asyncEvaluationCounter
          asyncParents,     \* asyncParentModules
          failed,           \* the modules that have an evaluationError
          capability,       \* topLevelCapability: the state of its promise
          go, stack, index, \* of the walk: Go stack, stackInstance, next dfs index
          gather, exec,     \* of a job: gatherAvailableAncestors' Go stack, execList
          body              \* per module: what became of its body, and how often it began

graphVars == <<graph, tla>>
stateVars == <<instances, status, dfsIndex, dfsAncestorIndex, pending, cycleRoot,
               asyncEvaluation, counter, asyncParents, failed, capability, body>>
walkVars  == <<go, stack, index>>
jobVars   == <<gather, exec>>
vars == <<graphVars, stateVars, walkVars, jobVars>>

Top(s) == s[Len(s)]
Pop(s) == SubSeq(s, 1, Len(s) - 1)
Elements(s) == {s[i] : i \in 1..Len(s)}

\* No walk and no job is running.
Quiet == go = <<>> /\ gather = <<>> /\ exec = {}

NoBody == [at |-> "none", began |-> 0]

Init ==
    /\ graph \in Graphs /\ tla \in SUBSET Modules
    /\ instances = {} /\ failed = {} /\ counter = 0
    /\ status = [m \in Modules |-> "new"]
    /\ dfsIndex = [m \in Modules |-> 0] /\ dfsAncestorIndex = dfsIndex
    /\ pending = [m \in Modules |-> 0] /\ asyncEvaluation = pending
    /\ cycleRoot = [m \in Modules |-> 0]
    /\ asyncParents = [m \in Modules |-> <<>>]
    /\ capability = [m \in Modules |-> "none"]
    /\ body = [m \in Modules |-> NoBody]
    /\ go = <<>> /\ stack = <<>> /\ index = 0
    /\ gather = <<>> /\ exec = {}

Thrown == Cardinality({m \in Modules : body[m].at = "threw"})

\* What a body that runs now may do.
Outcomes == {"done"} \union (IF Thrown < MaxThrows THEN {"threw"} ELSE {})

Ran(m, at) == [body EXCEPT ![m] = [at |-> at, began |-> body[m].began + 1]]

Settle(cap, ms, outcome) ==
    [m \in Modules |-> IF m \in ms /\ cap[m] = "pending" THEN outcome ELSE cap[m]]

-----------------------------------------------------------------------------
(* CyclicModuleRecordEvaluate *)

Evaluations == Cardinality({m \in Modules : capability[m] # "none"})

\* innerModuleEvaluation(m): instantiate it and begin with what it requests.
enter(m, gs, st, ix) ==
    /\ instances' = instances \union {m}
    /\ status' = [status EXCEPT ![m] = "evaluating"]
    /\ dfsIndex' = [dfsIndex EXCEPT ![m] = ix]
    /\ dfsAncestorIndex' = [dfsAncestorIndex EXCEPT ![m] = ix]
    /\ pending' = [pending EXCEPT ![m] = 0]
    /\ index' = ix + 1
    /\ stack' = Append(st, m)
    /\ go' = Append(gs, [m |-> m, next |-> 1])

\* Mutant of Instantiated: a module that failed is tried again.
InstantiatedUnlessFailed(m) == m \in instances \ failed

\* A module that has an instance is not walked again, whatever became of it.
Instantiated(m) == m \in instances

\* Mutant of Answer: the promise of a module that was walked is resolved.
AnswerFulfilled(c) == "fulfilled"

\* The promise is resolved unless the module is marked as asynchronous.
Answer(c) == IF asyncEvaluation[c] = 0 THEN "fulfilled" ELSE "pending"

Evaluate(c) ==
    /\ Quiet /\ capability[c] = "none" /\ Evaluations < MaxEvaluations
    /\ \/ /\ ~Instantiated(c)
          /\ capability' = [capability EXCEPT ![c] = "pending"]
          /\ enter(c, <<>>, <<>>, 0)
       \/ /\ Instantiated(c)
          /\ capability' = [capability EXCEPT ![c] = Answer(c)]
          /\ UNCHANGED <<walkVars, instances, status, dfsIndex, dfsAncestorIndex, pending>>
    /\ UNCHANGED <<graphVars, cycleRoot, asyncEvaluation, counter, asyncParents, failed, body, jobVars>>

Here == Top(go).m
ToRequire == go # <<>> /\ Top(go).next <= Len(graph[Here])
Required == graph[Here][Top(go).next]

\* The next requested module has no instance yet.
RequireNew ==
    /\ ToRequire /\ ~Instantiated(Required)
    /\ enter(Required, go, stack, index)
    /\ UNCHANGED <<graphVars, cycleRoot, asyncEvaluation, counter, asyncParents, failed, capability,
                   body, jobVars>>

\* Mutant of WaitsFor: nothing is waited for.
WaitsForNothing(r) == 0

\* What a module that requires r has to wait for, if that is asynchronous.
WaitsFor(r) == IF status[r] = "evaluating" THEN r ELSE cycleRoot[r]

Asynchronous == {m \in Modules : asyncEvaluation[m] # 0}

\* innerModuleEvaluation of the next requested module has returned.
Require ==
    LET c == Here  r == Required  w == WaitsFor(r)
    IN
    /\ ToRequire /\ Instantiated(r)
    /\ dfsAncestorIndex' =
          IF status[r] = "evaluating" /\ dfsAncestorIndex[r] > dfsAncestorIndex[c]
          THEN [dfsAncestorIndex EXCEPT ![r] = dfsAncestorIndex[c]] ELSE dfsAncestorIndex
    /\ \/ /\ w \in Asynchronous
          /\ pending' = [pending EXCEPT ![c] = @ + 1]
          /\ asyncParents' = [asyncParents EXCEPT ![w] = Append(@, c)]
       \/ /\ w \notin Asynchronous
          /\ UNCHANGED <<pending, asyncParents>>
    /\ go' = [go EXCEPT ![Len(go)].next = @ + 1]
    /\ UNCHANGED <<graphVars, instances, status, dfsIndex, cycleRoot, asyncEvaluation, counter,
                   failed, capability, body, stack, index, jobVars>>

\* If c is taken for the root of its cycle the stack is cut to n modules, up to c.
Cut(c, n) ==
    IF dfsAncestorIndex[c] # dfsIndex[c] THEN n = Len(stack)
    ELSE n < Len(stack) /\ stack[n + 1] = c /\ \A i \in (n + 2)..Len(stack) : stack[i] # c

\* The end of innerModuleEvaluation(c); at the end of the walk the promise is
\* resolved unless the module is asynchronous.
finish(c, async) ==
    /\ asyncEvaluation' = async
    /\ \E n \in 0..Len(stack) :
          LET ms == {stack[i] : i \in (n + 1)..Len(stack)} IN
          /\ Cut(c, n)
          /\ status' = [m \in Modules |-> IF m \notin ms THEN status[m]
                                          ELSE IF async[m] = 0 THEN "evaluated" ELSE "evaluating-async"]
          /\ cycleRoot' = [m \in Modules |-> IF m \in ms THEN c ELSE cycleRoot[m]]
          /\ stack' = IF Len(go) = 1 THEN <<>> ELSE SubSeq(stack, 1, n)
    /\ go' = Pop(go)
    /\ capability' = IF Len(go) = 1 /\ async[c] = 0
                     THEN Settle(capability, {c}, "fulfilled") ELSE capability
    /\ UNCHANGED <<graphVars, instances, dfsIndex, dfsAncestorIndex, pending, asyncParents, failed,
                   index, jobVars>>

Complete == go # <<>> /\ Top(go).next > Len(graph[Here])

\* The module is asynchronous; executeAsyncModule begins its body if nothing is
\* pending.
ExecuteAsync ==
    LET c == Here IN
    /\ Complete /\ (pending[c] > 0 \/ c \in tla)
    /\ counter' = counter + 1
    /\ body' = IF pending[c] = 0 THEN Ran(c, "running") ELSE body
    /\ finish(c, [asyncEvaluation EXCEPT ![c] = counter + 1])

\* ExecuteModule runs a body without await; it may throw, which ends the walk.
Execute(outcome) ==
    LET c == Here IN
    /\ Complete /\ pending[c] = 0 /\ c \notin tla
    /\ body' = Ran(c, outcome)
    /\ UNCHANGED counter
    /\ \/ outcome = "done" /\ finish(c, asyncEvaluation)
       \/ /\ outcome = "threw"
          /\ failed' = failed \union Elements(stack)
          /\ status' = [m \in Modules |-> IF m \in Elements(stack) THEN "evaluated" ELSE status[m]]
          /\ capability' = Settle(capability, {go[1].m}, "rejected")
          /\ go' = <<>> /\ stack' = <<>>
          /\ UNCHANGED <<graphVars, instances, dfsIndex, dfsAncestorIndex, pending, cycleRoot,
                         asyncEvaluation, asyncParents, index, jobVars>>

-----------------------------------------------------------------------------
(* The jobs *)

\* The modules that asyncModuleExecutionRejected(c) reaches along asyncParents;
\* it returns at once from one that is evaluated.
Rejected(c) ==
    {m \in Modules :
        /\ status[m] # "evaluated"
        /\ \A ms \in SUBSET Modules :
              /\ c \in ms
              /\ \A x \in ms : status[x] # "evaluated" => Elements(asyncParents[x]) \subseteq ms
              => m \in ms}

\* Mutant of asyncModuleExecutionRejected: the parents are not told.
asyncModuleExecutionRejectedAlone(c) ==
    /\ failed' = failed \union {c}
    /\ status' = [status EXCEPT ![c] = "evaluated"]
    /\ capability' = Settle(capability, {c}, "rejected")

asyncModuleExecutionRejected(c) ==
    LET ms == Rejected(c) IN
    /\ failed' = failed \union ms
    /\ status' = [m \in Modules |-> IF m \in ms THEN "evaluated" ELSE status[m]]
    /\ capability' = Settle(capability, ms, "rejected")

\* A body with top-level await throws.
BodyThrows(c) ==
    /\ Quiet /\ body[c].at = "running" /\ "threw" \in Outcomes
    /\ body' = [body EXCEPT ![c].at = "threw"]
    /\ asyncModuleExecutionRejected(c)
    /\ UNCHANGED <<graphVars, instances, dfsIndex, dfsAncestorIndex, pending, cycleRoot,
                   asyncEvaluation, counter, asyncParents, walkVars, jobVars>>

\* A body with top-level await ends: asyncModuleExecutionFulfilled.
BodyEnds(c) ==
    /\ Quiet /\ body[c].at = "running"
    /\ body' = [body EXCEPT ![c].at = "done"]
    /\ \/ /\ status[c] # "evaluated"
          /\ asyncEvaluation' = [asyncEvaluation EXCEPT ![c] = 0]
          /\ capability' = Settle(capability, {c}, "fulfilled")
          /\ gather' = <<[m |-> c, next |-> 1]>>
       \/ /\ status[c] = "evaluated"
          /\ UNCHANGED <<asyncEvaluation, capability, gather>>
    /\ UNCHANGED <<graphVars, instances, status, dfsIndex, dfsAncestorIndex, pending, cycleRoot,
                   counter, asyncParents, failed, walkVars, exec>>

Gathering == gather # <<>>
GatherAt  == Top(gather)
Parents   == asyncParents[GatherAt.m]
Next1     == [gather EXCEPT ![Len(gather)].next = @ + 1]

\* Mutant of Ready: one dependency that is left is taken for none.
ReadyEarly(n) == n <= 1

\* Nothing is pending any more.
Ready(n) == n = 0

\* Mutant of gatherParent: the parents of a parent without await are left out.
gatherParentOnly ==
    LET m == Parents[GatherAt.next] IN
    /\ Gathering /\ GatherAt.next <= Len(Parents)
    /\ gather' = Next1
    /\ IF m \in exec \/ m \in failed
       THEN UNCHANGED <<pending, exec>>
       ELSE /\ pending' = [pending EXCEPT ![m] = @ - 1]
            /\ exec' = IF Ready(pending'[m]) THEN exec \union {m} ELSE exec
    /\ UNCHANGED <<graphVars, walkVars, instances, status, dfsIndex, dfsAncestorIndex, cycleRoot,
                   asyncEvaluation, counter, asyncParents, failed, capability, body>>

\* One turn of gatherAvailableAncestors: a parent has one dependency less to wait
\* for; with none left it is to be executed, and without top-level await its own
\* parents are next.
gatherParent ==
    LET m == Parents[GatherAt.next] IN
    /\ Gathering /\ GatherAt.next <= Len(Parents)
    /\ IF m \in exec \/ m \in failed
       THEN gather' = Next1 /\ UNCHANGED <<pending, exec>>
       ELSE /\ pending' = [pending EXCEPT ![m] = @ - 1]
            /\ exec' = IF Ready(pending'[m]) THEN exec \union {m} ELSE exec
            /\ gather' = IF Ready(pending'[m]) /\ m \notin tla
                         THEN Append(Next1, [m |-> m, next |-> 1]) ELSE Next1
    /\ UNCHANGED <<graphVars, walkVars, instances, status, dfsIndex, dfsAncestorIndex, cycleRoot,
                   asyncEvaluation, counter, asyncParents, failed, capability, body>>

gatherReturns ==
    /\ Gathering /\ GatherAt.next > Len(Parents)
    /\ gather' = Pop(gather)
    /\ UNCHANGED <<graphVars, stateVars, walkVars, exec>>

\* Next in the order in which the modules became asynchronous.
First == {m \in exec : \A n \in exec : asyncEvaluation[m] <= asyncEvaluation[n]}

\* A module of execList that is evaluated meanwhile is passed over; one with
\* top-level await begins.
ExecAsync ==
    /\ ~Gathering
    /\ \E m \in First :
          /\ status[m] = "evaluated" \/ m \in tla
          /\ exec' = exec \ {m}
          /\ body' = IF status[m] = "evaluated" THEN body ELSE Ran(m, "running")
    /\ UNCHANGED <<graphVars, walkVars, gather, instances, status, dfsIndex, dfsAncestorIndex, pending,
                   cycleRoot, asyncEvaluation, counter, asyncParents, failed, capability>>

\* Another runs to its end.
Exec(outcome) ==
    /\ ~Gathering
    /\ \E m \in First :
          /\ status[m] # "evaluated" /\ m \notin tla
          /\ exec' = exec \ {m}
          /\ body' = Ran(m, outcome)
          /\ \/ /\ outcome = "done"
                /\ status' = [status EXCEPT ![m] = "evaluated"]
                /\ capability' = Settle(capability, {m}, "fulfilled")
                /\ UNCHANGED failed
             \/ outcome = "threw" /\ asyncModuleExecutionRejected(m)
    /\ UNCHANGED <<graphVars, walkVars, gather, instances, dfsIndex, dfsAncestorIndex, pending,
                   cycleRoot, asyncEvaluation, counter, asyncParents>>

-----------------------------------------------------------------------------
WalkStep == RequireNew \/ Require \/ ExecuteAsync \/ \E o \in Outcomes : Execute(o)
JobStep == gatherParent \/ gatherReturns \/ ExecAsync \/ \E o \in Outcomes : Exec(o)
BodySettles(c) == BodyEnds(c) \/ BodyThrows(c)

Next ==
    \/ \E c \in Modules : Evaluate(c) \/ BodySettles(c)
    \/ WalkStep \/ JobStep

Spec == Init /\ [][Next]_vars

\* Go code goes on, and what a module's body awaits comes about.
FairSpec ==
    /\ Spec /\ WF_vars(WalkStep) /\ WF_vars(JobStep)
    /\ \A c \in Modules : WF_vars(BodySettles(c))
-----------------------------------------------------------------------------
(* Properties *)

Activation == [m : Modules, next : Nat \ {0}]

\* The state is well-formed; in particular pendingAsyncDependancies, a uint, is
\* never decremented below zero (modules.go:372), however bodies settle.
TypeOK ==
    /\ graph \in Graphs /\ tla \subseteq Modules /\ instances \subseteq Modules
    /\ failed \subseteq instances /\ exec \subseteq instances
    /\ status \in [Modules -> {"new", "evaluating", "evaluating-async", "evaluated"}]
    /\ pending \in [Modules -> Nat] /\ \A m \in Modules : pending[m] <= Len(graph[m])
    /\ cycleRoot \in [Modules -> {0} \union instances]
    /\ counter \in Nat /\ asyncEvaluation \in [Modules -> 0..counter]
    /\ asyncParents \in [Modules -> Seq(Modules)]
    /\ capability \in [Modules -> {"none", "pending", "fulfilled", "rejected"}]
    /\ body \in [Modules -> [at : {"none", "running", "done", "threw"}, began : Nat]]
    /\ go \in Seq(Activation) /\ stack \in Seq(Modules) /\ gather \in Seq(Activation)

Walking == {go[i].m : i \in 1..Len(go)}

\* The walk and its stack: the modules that the walk is in are there in the order
\* in which they were entered, and have yet to begin; and no job runs.
WalkOK ==
    /\ IF go = <<>> THEN stack = <<>> ELSE gather = <<>> /\ exec = {}
    /\ Elements(stack) \subseteq instances \ failed
    /\ \A a, b \in 1..Len(stack) : stack[a] = stack[b] => a = b
    /\ \A i \in 1..Len(go) :
          /\ go[i].m \in Elements(stack)
          /\ body[go[i].m].began = 0 /\ asyncEvaluation[go[i].m] = 0
          /\ pending[go[i].m] < go[i].next /\ go[i].next <= Len(graph[go[i].m]) + 1
    /\ \A i, j \in 1..Len(go) : \A a, b \in 1..Len(stack) :
          stack[a] = go[i].m /\ stack[b] = go[j].m /\ i < j => a < b

\* What the status, the error and the body of a module say of each other.
RecordsOK ==
    /\ \A m \in Modules : Elements(asyncParents[m]) \subseteq instances
    /\ \A m \in Modules \ instances : body[m].began = 0 /\ asyncEvaluation[m] = 0
    /\ \A m \in Modules : body[m].began = 0 <=> body[m].at = "none"
    /\ \A m \in failed : status[m] = "evaluated"
    /\ \A m \in Modules : status[m] = "evaluated" => m \in failed \/ body[m].at = "done"
    /\ \A m \in instances \ Walking : asyncEvaluation[m] = 0 => m \in failed \/ body[m].at = "done"

\* d is still to tell its asyncParents that it is done.
ToTell(d) == /\ d \notin failed
             /\ \/ body[d].at = "running"
                \/ body[d].at = "none" /\ (d \in exec => d \in tla)

\* gatherAvailableAncestors has yet to meet entry i of d's asyncParents.
Telling(d, i) ==
    ToTell(d) \/ \E g \in 1..Len(gather) : gather[g].m = d /\ gather[g].next <= i

\* The entries of m in the asyncParents of any module, and those among them that
\* it has yet to meet.
Entries(m) ==
    {e \in UNION {{d} \X (1..Len(asyncParents[d])) : d \in Modules} : asyncParents[e[1]][e[2]] = m}
Unheard(m) == {e \in Entries(m) : Telling(e[1], e[2])}

\* m begins or has begun.
Begins(m) == body[m].began > 0 \/ m \in exec

\* A job gathers from modules that are done or will be executed, from each once;
\* what it is to execute has not begun.  And pendingAsyncDependancies counts all
\* that a module is still to hear of: one that begins, or is to, has heard of all.
JobsOK ==
    /\ \A m \in exec : body[m].began = 0
    /\ \A g \in 1..Len(gather) : gather[g].m \in exec \ tla \/ body[gather[g].m].at = "done"
    /\ \A g, h \in 1..Len(gather) : gather[g].m = gather[h].m => g = h
    /\ \A m \in Modules \ failed :
          /\ IsFiniteSet(Unheard(m))
          /\ IF Begins(m) THEN Unheard(m) = {}
             ELSE Cardinality(Unheard(m)) <= pending[m]

\* The modules that m reaches through requests.
Reaches(m) ==
    {x \in Modules :
        \A ms \in SUBSET Modules :
            /\ Elements(graph[m]) \subseteq ms
            /\ \A y \in ms : Elements(graph[y]) \subseteq ms
            => x \in ms}

\* No module's body is executed twice, whichever of the walk, a job's execList
\* (modules.go:338) or a later Evaluate comes to it.
ExecutesOnce == \A m \in Modules : body[m].began <= 1

Settled(m) == body[m].at \in {"done", "threw"}

\* The entries of m in asyncParentModules of modules that have not settled.
Outstanding(m) == {e \in Entries(m) : ~Settled(e[1])}

\* Between jobs, a module that has yet to begin counts at least its outstanding
\* dependencies in pendingAsyncDependancies, or it would begin too early; within
\* a single evaluation it counts no more, or it would never begin.
PendingExact ==
    Quiet => \A m \in Modules \ failed : body[m].began = 0 =>
        /\ pending[m] >= Cardinality(Outstanding(m))
        /\ Evaluations = 1 => pending[m] = Cardinality(Outstanding(m))

\* The module records, the walk and the jobs agree with each other; in particular
\* pendingAsyncDependancies covers every entry of asyncParentModules that its module
\* is still to hear of, in the middle of a walk or a job and between them.
Consistent == TypeOK /\ WalkOK /\ RecordsOK /\ JobsOK

\* A body begins only when the bodies of the modules it requires, those of its
\* own cycle excepted, are done, or have failed in an earlier evaluation.
DependenciesFirst ==
    \A m \in Modules : body[m].began > 0 =>
        \A d \in Elements(graph[m]) : m \in Reaches(d) \/ body[d].at = "done" \/ d \in failed

\* The promise of Evaluate is fulfilled only for a module whose body is done, or
\* that failed in an earlier evaluation (modules.go:221 does not look at that).
FulfilledMeansDone ==
    \A m \in Modules : capability[m] = "fulfilled" => body[m].at = "done" \/ m \in failed

\* Settled modules that are still marked as asynchronous: asyncEvaluation is reset
\* only when a body with top-level await ends (modules.go:323).
Stale == {m \in Asynchronous : Settled(m) \/ m \in failed}

\* The promise that Evaluate returns is settled in the end, provided that no
\* earlier evaluation left a module that this one meets marked as asynchronous.
EvaluateSettles ==
    \A m \in Modules :
        capability[m] = "pending" /\ (Reaches(m) \union {m}) \intersect Stale = {}
            ~> capability[m] # "pending"
=============================================================================
