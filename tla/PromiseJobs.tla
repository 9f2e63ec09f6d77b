----------------------------- MODULE PromiseJobs -----------------------------
(***************************************************************************)
(* Promises (builtin_promise.go) and the job queue that runs their         *)
(* reactions when control leaves the runtime (Runtime.leave).              *)
(*                                                                         *)
(* Go calls into the runtime with RunProgram or with a Callable            *)
(* (runWrapped); frames is the stack of what is running: such entries, the *)
(* loop of leave(), and the callbacks it runs.  A callback is JavaScript   *)
(* (js), which may use any promise operation, or a Go function, which may  *)
(* only enter the runtime again.                                           *)
(***************************************************************************)
EXTENDS Naturals, Sequences, FiniteSets

CONSTANTS MaxPromises, MaxThenables, MaxReactions,  \* bounds on the objects made
          MaxFrames,       \* bound on the depth of frames
          MaxInterrupts,   \* bound on the calls of Interrupt
          HandlerPairs     \* the <<onFulfilled, onRejected>> that then() is given

ASSUME PromiseJobsAssumption ==
    /\ MaxPromises \in Nat /\ MaxThenables \in Nat /\ MaxReactions \in Nat
    /\ MaxFrames \in Nat /\ MaxInterrupts \in Nat
    /\ HandlerPairs \subseteq {"none", "js", "go"} \X {"none", "js", "go"}

VARIABLES state, result, handled,             \* per promise
          fulfillReactions, rejectReactions,
          fnPromise,         \* per pair of resolving functions: its promise
          alreadyResolved,   \* and the flag the two functions share
          fnHeld,            \* may a script call them, or only the runtime
          reactions,         \* number of then and await so far
          thenables,         \* number of thenable jobs made so far
          jobQueue,          \* Runtime.jobQueue
          frames,
          interrupted,       \* vm.interrupted
          interrupts,        \* calls of Interrupt so far
          ran,               \* reactions whose job has run
          resumed,           \* reactions an AsyncContextTracker saw Resumed for
          unhandled          \* what a rejection tracker knows: Reject adds, Handle removes

promiseVars == <<state, result, handled, fulfillReactions, rejectReactions, thenables, unhandled>>
fnVars == <<fnPromise, alreadyResolved, fnHeld>>
runVars == <<interrupted, interrupts, ran, resumed>>
vars == <<promiseVars, fnVars, reactions, jobQueue, frames, runVars>>

Promise == 1..MaxPromises
Made    == {p \in Promise : state[p] # "none"}
Fresh   == {p \in Promise : state[p] = "none"}
NextFresh == {p \in Fresh : \A q \in Fresh : p <= q}

\* A pair of resolving functions; 0 is none.  Promise p is made with the pair p,
\* the thenable job number n makes the pair MaxPromises + n.
Fn == 1..(MaxPromises + MaxThenables)

\* A value is a promise, a primitive or any other object, which has a "then"
\* property to read.
Primitive == MaxPromises + 1
AnObject  == MaxPromises + 2
Values    == 1..(MaxPromises + 2)

\* A reaction with the capability cap; f are the functions of the handlers resolve
\* and reject.
NewReaction(id, cap, handler, f) == [id |-> id, cap |-> cap, handler |-> handler, fn |-> f]
NoReaction == NewReaction(0, 0, "none", 0)
NoJob == [kind |-> "none", reaction |-> NoReaction, ok |-> FALSE, arg |-> 0, promise |-> 0, n |-> 0]
ReactionJob(re, ok, x) == [kind |-> "reaction", reaction |-> re, ok |-> ok, arg |-> x, promise |-> 0, n |-> 0]
ThenableJob(p, x, n) == [kind |-> "thenable", reaction |-> NoReaction, ok |-> FALSE, arg |-> x, promise |-> p, n |-> n]

Frame(kind, js, f, job) == [kind |-> kind, js |-> js, fn |-> f, job |-> job, jobs |-> <<>>]
Drain == Frame("drain", FALSE, 0, NoJob)

Depth == Len(frames)
Top   == frames[Depth]
Under(fs) == SubSeq(fs, 1, Len(fs) - 1)

\* len(vm.callStack) # 0 with the frames fs
InScript(fs) == \E n \in 1..Len(fs) : fs[n].js \/ fs[n].kind = "program"

\* A callback or a program is running its own code.
Running == Depth > 0 /\ Top.kind # "drain"

\* Script code runs; run() stops it before an instruction once interrupted.
InJS == Running /\ Top.js /\ ~interrupted

-----------------------------------------------------------------------------
Init ==
    /\ state = [p \in Promise |-> "none"]
    /\ result = [p \in Promise |-> Primitive]
    /\ handled = [p \in Promise |-> FALSE]
    /\ fulfillReactions = [p \in Promise |-> <<>>]
    /\ rejectReactions = [p \in Promise |-> <<>>]
    /\ fnPromise = [f \in Fn |-> 0]
    /\ alreadyResolved = [f \in Fn |-> FALSE]
    /\ fnHeld = [f \in Fn |-> FALSE]
    /\ reactions = 0 /\ thenables = 0
    /\ jobQueue = <<>>
    /\ frames = <<>>
    /\ interrupted = FALSE
    /\ interrupts = 0
    /\ ran = {} /\ resumed = {}
    /\ unhandled = {}

\* triggerPromiseReactions
Jobs(res, ok, x) == [n \in 1..Len(res) |-> ReactionJob(res[n], ok, x)]

\* Mutant of fulfill: the reactions stay registered.
fulfillKeepsReactions(p, x) ==
    /\ state' = [state EXCEPT ![p] = "fulfilled"]
    /\ result' = [result EXCEPT ![p] = x]
    /\ jobQueue' = jobQueue \o Jobs(fulfillReactions[p], TRUE, x)
    /\ UNCHANGED <<handled, fulfillReactions, rejectReactions, thenables, unhandled>>

fulfill(p, x) ==
    /\ state' = [state EXCEPT ![p] = "fulfilled"]
    /\ result' = [result EXCEPT ![p] = x]
    /\ jobQueue' = jobQueue \o Jobs(fulfillReactions[p], TRUE, x)
    /\ fulfillReactions' = [fulfillReactions EXCEPT ![p] = <<>>]
    /\ rejectReactions' = [rejectReactions EXCEPT ![p] = <<>>]
    /\ UNCHANGED <<handled, thenables, unhandled>>

reject(p) ==
    /\ state' = [state EXCEPT ![p] = "rejected"]
    /\ result' = [result EXCEPT ![p] = Primitive]
    /\ jobQueue' = jobQueue \o Jobs(rejectReactions[p], FALSE, Primitive)
    /\ fulfillReactions' = [fulfillReactions EXCEPT ![p] = <<>>]
    /\ rejectReactions' = [rejectReactions EXCEPT ![p] = <<>>]
    /\ unhandled' = IF handled[p] THEN unhandled ELSE unhandled \union {p}
    /\ UNCHANGED <<handled, thenables>>

\* p is to follow the thenable x.
enqueueThenable(p, x) ==
    /\ thenables < MaxThenables
    /\ thenables' = thenables + 1
    /\ jobQueue' = Append(jobQueue, ThenableJob(p, x, thenables + 1))
    /\ UNCHANGED <<state, result, handled, fulfillReactions, rejectReactions, unhandled>>

\* The rest of a resolve function once it has read the then property t of an
\* object: t is callable, is not, or reading it threw.
resolveObject(p, t) ==
    \/ t = "callable" /\ enqueueThenable(p, AnObject)
    \/ t = "other" /\ fulfill(p, AnObject)
    \/ t = "threw" /\ reject(p)

\* Mutant of resolveFn: the flag is set only after the then property was read.
resolveFnFlagsLate(f, x, fs) ==
    \/ /\ f # 0 => alreadyResolved[f]
       /\ frames' = fs
       /\ UNCHANGED <<promiseVars, alreadyResolved, jobQueue>>
    \/ /\ f # 0 /\ ~alreadyResolved[f]
       /\ \/ /\ x = Primitive /\ fulfill(fnPromise[f], x) /\ frames' = fs
             /\ alreadyResolved' = [alreadyResolved EXCEPT ![f] = TRUE]
          \/ /\ x = AnObject
             /\ frames' = Append(fs, Frame("getter", TRUE, f, NoJob))
             /\ UNCHANGED <<promiseVars, alreadyResolved, jobQueue>>

\* A resolve function called with x on the frames fs.  Without a function (a
\* reaction of await) there is nothing to call.
resolveFn(f, x, fs) ==
    \/ /\ f # 0 => alreadyResolved[f]
       /\ frames' = fs
       /\ UNCHANGED <<promiseVars, alreadyResolved, jobQueue>>
    \/ /\ f # 0 /\ ~alreadyResolved[f]
       /\ alreadyResolved' = [alreadyResolved EXCEPT ![f] = TRUE]
       /\ \/ x = Primitive /\ fulfill(fnPromise[f], x) /\ frames' = fs
          \/ /\ x = AnObject
             /\ frames' = Append(fs, Frame("getter", TRUE, f, NoJob))
             /\ UNCHANGED <<promiseVars, jobQueue>>
          \/ x = fnPromise[f] /\ reject(x) /\ frames' = fs    \* self-resolution
          \/ x \in Made \ {fnPromise[f]} /\ enqueueThenable(fnPromise[f], x) /\ frames' = fs

\* Mutant of rejectFn: it does not look at the flag that resolve has set.
rejectFnUnchecked(f, fs) ==
    /\ frames' = fs
    /\ IF f = 0 THEN UNCHANGED <<promiseVars, alreadyResolved, jobQueue>>
       ELSE alreadyResolved' = [alreadyResolved EXCEPT ![f] = TRUE] /\ reject(fnPromise[f])

\* A reject function called on the frames fs.
rejectFn(f, fs) ==
    /\ frames' = fs
    /\ \/ /\ f # 0 => alreadyResolved[f]
          /\ UNCHANGED <<promiseVars, alreadyResolved, jobQueue>>
       \/ /\ f # 0 /\ ~alreadyResolved[f]
          /\ alreadyResolved' = [alreadyResolved EXCEPT ![f] = TRUE]
          /\ reject(fnPromise[f])

\* Mutant of addReactions: handled is only set while the promise is pending.
addReactionsForgetsHandled(p, fr, rr) ==
    /\ \/ /\ state[p] = "pending"
          /\ fulfillReactions' = [fulfillReactions EXCEPT ![p] = Append(@, fr)]
          /\ rejectReactions' = [rejectReactions EXCEPT ![p] = Append(@, rr)]
          /\ handled' = [handled EXCEPT ![p] = TRUE]
          /\ UNCHANGED <<jobQueue, unhandled>>
       \/ /\ state[p] = "rejected"
          /\ unhandled' = unhandled \ {p}
          /\ jobQueue' = Append(jobQueue, ReactionJob(rr, FALSE, result[p]))
          /\ UNCHANGED <<handled, fulfillReactions, rejectReactions>>
    /\ UNCHANGED thenables

\* Registers one reaction of each type; a tracker hears of the first handler
\* that a rejected promise gets.
addReactions(p, fr, rr) ==
    /\ \/ /\ state[p] = "pending"
          /\ fulfillReactions' = [fulfillReactions EXCEPT ![p] = Append(@, fr)]
          /\ rejectReactions' = [rejectReactions EXCEPT ![p] = Append(@, rr)]
          /\ UNCHANGED <<jobQueue, unhandled>>
       \/ /\ state[p] = "fulfilled"
          /\ jobQueue' = Append(jobQueue, ReactionJob(fr, TRUE, result[p]))
          /\ UNCHANGED <<fulfillReactions, rejectReactions, unhandled>>
       \/ /\ state[p] = "rejected"
          /\ unhandled' = IF handled[p] THEN unhandled ELSE unhandled \ {p}
          /\ jobQueue' = Append(jobQueue, ReactionJob(rr, FALSE, result[p]))
          /\ UNCHANGED <<fulfillReactions, rejectReactions>>
    /\ handled' = [handled EXCEPT ![p] = TRUE]
    /\ UNCHANGED thenables

-----------------------------------------------------------------------------
(* Operations of script code.                                              *)

\* createResolvingFunctions
newFns(f, p, held) ==
    /\ fnPromise' = [fnPromise EXCEPT ![f] = p]
    /\ fnHeld' = [fnHeld EXCEPT ![f] = held]
    /\ UNCHANGED alreadyResolved

\* new Promise(executor), withResolvers: the script gets hold of the functions.
newPromise ==
    /\ InJS
    /\ \E p \in NextFresh : state' = [state EXCEPT ![p] = "pending"] /\ newFns(p, p, TRUE)
    /\ UNCHANGED <<result, handled, fulfillReactions, rejectReactions, thenables, unhandled,
                   reactions, jobQueue, frames, runVars>>

callResolve(f, x) ==
    /\ InJS /\ fnHeld[f] /\ Depth < MaxFrames
    /\ resolveFn(f, x, frames)
    /\ UNCHANGED <<fnPromise, fnHeld, reactions, runVars>>

callReject(f) ==
    /\ InJS /\ fnHeld[f]
    /\ rejectFn(f, frames)
    /\ UNCHANGED <<fnPromise, fnHeld, reactions, runVars>>

\* then: the new promise is settled by the reactions only.
then(p, hs) ==
    /\ InJS /\ reactions < MaxReactions
    /\ reactions' = reactions + 1
    /\ \E q \in NextFresh :
          /\ newFns(q, q, FALSE)
          /\ state' = [state EXCEPT ![q] = "pending"]
          /\ addReactions(p, NewReaction(reactions + 1, q, hs[1], 0), NewReaction(reactions + 1, q, hs[2], 0))
    /\ UNCHANGED <<result, frames, runVars>>

\* await p: asyncRunner.step's reactions have no capability.
await(p) ==
    LET re == NewReaction(reactions + 1, 0, "js", 0) IN
    /\ InJS /\ reactions < MaxReactions
    /\ reactions' = reactions + 1
    /\ addReactions(p, re, re)
    /\ UNCHANGED <<state, result, fnVars, frames, runVars>>

-----------------------------------------------------------------------------
(* Entering and leaving the runtime.                                       *)

\* The host, or a Go callback, enters the runtime.
GoCode == Depth = 0 \/ (Running /\ Top.kind = "handler" /\ ~Top.js /\ Top.job.reaction.handler = "go")

\* RunProgram; a recursive one, from Go code below a script, is a plain call.
RunProgram ==
    /\ GoCode /\ Depth < MaxFrames
    /\ frames' = Append(frames, Frame(IF InScript(frames) THEN "call" ELSE "program", TRUE, 0, NoJob))
    /\ UNCHANGED <<promiseVars, fnVars, reactions, jobQueue, runVars>>

\* runWrapped: a Callable that is a script function.
runWrapped ==
    /\ GoCode /\ Depth < MaxFrames
    /\ frames' = Append(frames, Frame("call", TRUE, 0, NoJob))
    /\ UNCHANGED <<promiseVars, fnVars, reactions, jobQueue, runVars>>

\* runWrapped: a resolving function that Go got from NewPromise or a script.
runWrappedFn(f, x) ==
    /\ GoCode /\ Depth < MaxFrames - 1 /\ fnHeld[f]
    /\ LET fs == Append(frames, Frame("call", FALSE, 0, NoJob)) IN
       resolveFn(f, x, fs) \/ (x = Primitive /\ rejectFn(f, fs))
    /\ UNCHANGED <<fnPromise, fnHeld, reactions, runVars>>

\* Mutant of return: a call within another call runs the jobs too.
returnAlwaysLeaves ==
    /\ Running /\ Top.kind \in {"program", "call"} /\ (Top.js => ~interrupted)
    /\ frames' = Append([frames EXCEPT ![Depth].js = FALSE], Drain)
    /\ UNCHANGED <<promiseVars, fnVars, reactions, jobQueue, runVars>>

\* The entry's own code is over: leave() unless it was called from a script.
return ==
    /\ Running /\ Top.kind \in {"program", "call"} /\ (Top.js => ~interrupted)
    /\ frames' = IF Top.kind = "call" /\ InScript(Under(frames)) THEN Under(frames)
                 ELSE Append([frames EXCEPT ![Depth].js = FALSE], Drain)
    /\ UNCHANGED <<promiseVars, fnVars, reactions, jobQueue, runVars>>

Draining == Depth > 0 /\ Top.kind = "drain"

\* Mutant of leaveSwap: the queue is not reset.
leaveSwapKeepsQueue ==
    /\ Draining /\ Top.jobs = <<>> /\ jobQueue # <<>>
    /\ frames' = [frames EXCEPT ![Depth].jobs = jobQueue]
    /\ UNCHANGED <<promiseVars, fnVars, reactions, jobQueue, runVars>>

\* leave(): the loop takes the whole queue.
leaveSwap ==
    /\ Draining /\ Top.jobs = <<>> /\ jobQueue # <<>>
    /\ frames' = [frames EXCEPT ![Depth].jobs = jobQueue]
    /\ jobQueue' = <<>>
    /\ UNCHANGED <<promiseVars, fnVars, reactions, runVars>>

\* Mutant of leaveEnd: one batch only, what it enqueued is dropped.
leaveEndOneBatch ==
    /\ Draining /\ Top.jobs = <<>>
    /\ frames' = SubSeq(frames, 1, Depth - 2)
    /\ jobQueue' = <<>>
    /\ UNCHANGED <<promiseVars, fnVars, reactions, runVars>>

\* leave() is done and so is the entry.
leaveEnd ==
    /\ Draining /\ Top.jobs = <<>> /\ jobQueue = <<>>
    /\ frames' = SubSeq(frames, 1, Depth - 2)
    /\ UNCHANGED <<promiseVars, fnVars, reactions, jobQueue, runVars>>

Job    == Head(Top.jobs)
Popped == [frames EXCEPT ![Depth].jobs = Tail(Top.jobs)]

\* A reaction without a handler passes the outcome on; one with a handler
\* calls it (Resumed is called first).
runReactionJob ==
    /\ Draining /\ Top.jobs # <<>> /\ Job.kind = "reaction"
    /\ ran' = ran \union {Job.reaction.id}
    /\ \/ /\ Job.reaction.handler = "none"
          /\ UNCHANGED resumed
          /\ \/ Job.ok /\ resolveFn(Job.reaction.cap, Job.arg, Popped)
             \/ ~Job.ok /\ rejectFn(Job.reaction.cap, Popped)
       \/ /\ Job.reaction.handler # "none"
          /\ resumed' = resumed \union {Job.reaction.id}
          /\ frames' = Append(Popped, Frame("handler", Job.reaction.handler = "js", 0, Job))
          /\ UNCHANGED <<promiseVars, alreadyResolved, jobQueue>>
    /\ UNCHANGED <<fnPromise, fnHeld, reactions, interrupted, interrupts>>

\* newPromiseResolveThenableJob: a new pair of functions goes to the thenable's
\* then.  For a promise that is Promise.prototype.then; the promise it returns
\* is out of everyone's reach, so that the reactions get no capability.
runThenableJob ==
    LET f == MaxPromises + Job.n
        re(handler) == NewReaction(MaxReactions + Job.n, 0, handler, f)
    IN
    /\ Draining /\ Top.jobs # <<>> /\ Job.kind = "thenable"
    /\ newFns(f, Job.promise, Job.arg = AnObject)
    /\ \/ /\ Job.arg = AnObject
          /\ frames' = Append(Popped, Frame("thenCall", TRUE, f, NoJob))
          /\ UNCHANGED <<promiseVars, jobQueue>>
       \/ /\ Job.arg # AnObject
          /\ addReactions(Job.arg, re("resolve"), re("reject"))
          /\ frames' = Popped
          /\ UNCHANGED <<state, result>>
    /\ UNCHANGED <<reactions, runVars>>

-----------------------------------------------------------------------------
(* The end of a callback.                                                  *)

\* A handler that is a resolving function does its work.
handlerFn ==
    LET re == Top.job.reaction
        fs == [frames EXCEPT ![Depth].job.reaction.handler = "done"]
    IN
    /\ Running /\ Top.kind = "handler"
    /\ \/ re.handler = "resolve" /\ resolveFn(re.fn, Top.job.arg, fs)
       \/ re.handler = "reject" /\ rejectFn(re.fn, fs)
    /\ UNCHANGED <<fnPromise, fnHeld, reactions, runVars>>

\* A handler returns x (Exited is called): the capability is resolved with it.
handlerReturns(x) ==
    LET re == Top.job.reaction IN
    /\ Running /\ Top.kind = "handler"
    /\ \/ re.handler = "js" /\ InJS
       \/ re.handler = "go"
       \/ re.handler = "done" /\ x = Primitive
    /\ resolveFn(re.cap, x, Under(frames))
    /\ UNCHANGED <<fnPromise, fnHeld, reactions, runVars>>

\* A handler throws: the capability is rejected.
handlerThrows ==
    LET re == Top.job.reaction IN
    /\ Running /\ Top.kind = "handler"
    /\ (re.handler = "js" /\ InJS) \/ re.handler = "go"
    /\ rejectFn(re.cap, Under(frames))
    /\ UNCHANGED <<fnPromise, fnHeld, reactions, runVars>>

\* The then getter of a resolution ends with t.
getterEnds(t) ==
    /\ InJS /\ Top.kind = "getter"
    /\ resolveObject(fnPromise[Top.fn], t)
    /\ frames' = Under(frames)
    /\ UNCHANGED <<fnVars, reactions, runVars>>

\* The then of a thenable returns, or throws and the promise is rejected.
thenCallEnds ==
    /\ InJS /\ Top.kind = "thenCall"
    /\ \/ frames' = Under(frames) /\ UNCHANGED <<promiseVars, alreadyResolved, jobQueue>>
       \/ rejectFn(Top.fn, Under(frames))
    /\ UNCHANGED <<fnPromise, fnHeld, reactions, runVars>>

\* Interrupt, from another goroutine.
Interrupt ==
    /\ interrupts < MaxInterrupts
    /\ interrupted' = TRUE
    /\ interrupts' = interrupts + 1
    /\ UNCHANGED <<promiseVars, fnVars, reactions, jobQueue, frames, ran, resumed>>

\* Mutant of abort: the jobs of the interrupted call stay in the queue.
abortKeepsQueue ==
    /\ Running /\ Top.js /\ interrupted
    /\ frames' = <<>>
    /\ interrupted' = FALSE
    /\ UNCHANGED <<promiseVars, fnVars, reactions, jobQueue, interrupts, ran, resumed>>

\* The InterruptedError unwinds to the nearest entry, which returns it to its
\* caller; with no script below, leaveAbrupt drops the queue.  The unwinding is
\* assumed to be clean here: TryStack shows when it is not.
abort ==
    /\ Running /\ Top.js /\ interrupted
    /\ \E entry \in 1..Depth :
          /\ frames[entry].kind \in {"program", "call"}
          /\ \A n \in (entry + 1)..Depth : frames[n].kind \notin {"program", "call"}
          /\ frames' = SubSeq(frames, 1, entry - 1)
          /\ IF InScript(SubSeq(frames, 1, entry - 1)) THEN UNCHANGED <<jobQueue, interrupted>>
             ELSE jobQueue' = <<>> /\ interrupted' = FALSE
    /\ UNCHANGED <<promiseVars, fnVars, reactions, interrupts, ran, resumed>>

Script ==
    \/ newPromise
    \/ \E f \in Fn : callReject(f) \/ \E x \in Values : callResolve(f, x)
    \/ \E p \in Made : await(p) \/ \E hs \in HandlerPairs : then(p, hs)

Enter == RunProgram \/ runWrapped \/ \E f \in Fn, x \in Values : runWrappedFn(f, x)

\* What goes on by itself once it is begun.
Proceed ==
    \/ return \/ leaveSwap \/ leaveEnd \/ runReactionJob \/ runThenableJob
    \/ handlerFn \/ handlerThrows \/ thenCallEnds \/ abort
    \/ \E x \in Values : handlerReturns(x)
    \/ \E t \in {"callable", "other", "threw"} : getterEnds(t)

Next == Script \/ Enter \/ Proceed \/ Interrupt

Spec == Init /\ [][Next]_vars
\* A handler in Go that calls the runtime again and again ends at last.
handlerEnds == handlerThrows \/ \E x \in Values : handlerReturns(x)

FairSpec == Spec /\ WF_vars(Proceed) /\ SF_vars(handlerEnds)
-----------------------------------------------------------------------------
Settled == {"fulfilled", "rejected"}

Elements(q) == {q[n] : n \in 1..Len(q)}

\* Every job that waits when the frames are fs: in the queue q, or in the batch
\* of some leave().
Waiting(q, fs) == Elements(q) \union UNION {Elements(fs[d].jobs) : d \in 1..Len(fs)}
WaitingIn(fs) == Waiting(jobQueue, fs)

Reaction ==
    [id : 1..(MaxReactions + MaxThenables), cap : 0..MaxPromises,
     handler : {"none", "js", "go", "resolve", "reject", "done"}, fn : 0..(MaxPromises + MaxThenables)]
JobRecord ==
    [kind : {"none", "reaction", "thenable"}, reaction : Reaction \union {NoReaction}, ok : BOOLEAN,
     arg : 0..(MaxPromises + 2), promise : 0..MaxPromises, n : 0..MaxThenables]
FrameRecord ==
    [kind : {"program", "call", "drain", "handler", "getter", "thenCall"}, js : BOOLEAN,
     fn : 0..(MaxPromises + MaxThenables), job : JobRecord, jobs : Seq(JobRecord)]

\* Type correctness.
TypeOK ==
    /\ state \in [Promise -> {"none", "pending"} \union Settled]
    /\ result \in [Promise -> {Primitive, AnObject}]
    /\ handled \in [Promise -> BOOLEAN]
    /\ fulfillReactions \in [Promise -> Seq(Reaction)]
    /\ rejectReactions \in [Promise -> Seq(Reaction)]
    /\ fnPromise \in [Fn -> 0..MaxPromises]
    /\ alreadyResolved \in [Fn -> BOOLEAN] /\ fnHeld \in [Fn -> BOOLEAN]
    /\ reactions \in 0..MaxReactions /\ thenables \in 0..MaxThenables
    /\ jobQueue \in Seq(JobRecord)
    /\ interrupted \in BOOLEAN /\ interrupts \in 0..MaxInterrupts
    /\ interrupted => interrupts > 0
    /\ resumed \subseteq ran /\ ran \subseteq 1..(MaxReactions + MaxThenables)
    /\ unhandled \subseteq Promise

\* A pair of resolving functions that was made.
Usable(f) == f \in Fn /\ fnPromise[f] # 0

ReactionOK(re) ==
    /\ re.cap = 0 \/ Usable(re.cap)
    /\ re.handler \in {"resolve", "reject"} => Usable(re.fn)

JobOK(j) ==
    \/ j.kind = "reaction" /\ j.reaction \in Reaction /\ ReactionOK(j.reaction)
    \/ /\ j.kind = "thenable" /\ j.promise \in Made /\ j.arg \in Made \union {AnObject}
       /\ j.n \in 1..thenables

\* Only a callback that is called with a job, a reaction or a resolving function
\* looks at it; only leave() has a batch.
FrameOK(fr) ==
    /\ fr.kind \in {"getter", "thenCall"} => Usable(fr.fn)
    /\ fr.kind = "handler" => fr.job.reaction \in Reaction /\ ReactionOK(fr.job.reaction)
    /\ fr.kind # "drain" => fr.jobs = <<>>

Entry == {"program", "call"}

\* The stack of frames begins with an entry, leave() runs on behalf of an entry,
\* and there is one RunProgram at most: one below it is a plain call.
FramesOK(fs) ==
    /\ fs \in Seq(FrameRecord)
    /\ fs # <<>> => fs[1].kind \in Entry
    /\ \A d \in 1..Len(fs) : /\ FrameOK(fs[d])
                             /\ fs[d].kind = "drain" => d > 1 /\ fs[d - 1].kind \in Entry
    /\ \A d, e \in 1..Len(fs) : fs[d].kind = "program" /\ fs[e].kind = "program" => d = e

\* The functions that promises were made with, and those that thenable jobs made
\* or are still to make.
PairsOK(fs) ==
    /\ \A p \in Promise : fnPromise[p] = IF state[p] = "none" THEN 0 ELSE p
    /\ \A f \in Fn : IF fnPromise[f] = 0 THEN ~alreadyResolved[f] /\ ~fnHeld[f]
                     ELSE fnPromise[f] \in Made
    /\ \A n \in (thenables + 1)..MaxThenables : fnPromise[MaxPromises + n] = 0
    /\ \A j \in WaitingIn(fs) : j.kind = "thenable" => fnPromise[MaxPromises + j.n] = 0

\* The reactions that wait for promise p.
Registered(p) == {re.id : re \in Elements(fulfillReactions[p]) \union Elements(rejectReactions[p])}

\* The reactions whose job waits.
QueuedIn(fs) == {j.reaction.id : j \in {w \in WaitingIn(fs) : w.kind = "reaction"}}
Queued == QueuedIn(frames)

\* The batches of jobs, the queue as number 0; no job is in two places.
Batch(q, fs, d) == IF d = 0 THEN q ELSE fs[d].jobs
Key(j) == IF j.kind = "reaction" THEN j.reaction.id ELSE MaxReactions + MaxThenables + j.n
JobsDistinct(q, fs) ==
    \A d, e \in 0..Len(fs) : \A m \in 1..Len(Batch(q, fs, d)), n \in 1..Len(Batch(q, fs, e)) :
       Key(Batch(q, fs, d)[m]) = Key(Batch(q, fs, e)[n]) => d = e /\ m = n

\* What is registered or waits can be run.
JobsOK(fs) ==
    /\ \A p \in Promise : \A re \in Elements(fulfillReactions[p]) \union Elements(rejectReactions[p]) :
          ReactionOK(re)
    /\ \A j \in WaitingIn(fs) : JobOK(j)

\* Every then, await and thenable job registers reactions of its own.
ReactionsApart(fs) ==
    /\ \A id \in (UNION {Registered(p) : p \in Promise}) \union QueuedIn(fs) \union ran :
          \/ id <= reactions
          \/ id > MaxReactions /\ fnPromise[MaxPromises + (id - MaxReactions)] # 0
    /\ \A p, q \in Promise : p # q => Registered(p) \intersect Registered(q) = {}
    /\ \A p \in Promise : \A res \in {fulfillReactions[p], rejectReactions[p]} :
          \A m, n \in 1..Len(res) : res[m].id = res[n].id => m = n

\* Who may still decide what becomes of promise p: an unused pair of resolving
\* functions, a thenable job that will make such a pair, or a resolve function
\* that is reading the then property of its argument.
DecidingPairs(p) == {f \in Fn : fnPromise[f] = p /\ ~alreadyResolved[f]}
DecidingJobs(fs, p) == {j \in WaitingIn(fs) : j.kind = "thenable" /\ j.promise = p}
DecidingGetters(fs, p) == {d \in 1..Len(fs) : fs[d].kind = "getter" /\ fnPromise[fs[d].fn] = p}
Deciders(fs, p) ==
    ({"pair"} \X DecidingPairs(p)) \union ({"job"} \X DecidingJobs(fs, p))
    \union ({"getter"} \X DecidingGetters(fs, p))

\* Nobody decides a promise twice, however resolve and reject are called, from a
\* then getter or a thenable too; and unless an interrupt dropped jobs, a pending
\* promise has somebody left to decide it.
OneDecider(fs) ==
    \A p \in Promise :
       /\ \A a, b \in Deciders(fs, p) : a = b
       /\ state[p] \in Settled => Deciders(fs, p) = {}
       /\ state[p] = "pending" /\ interrupts = 0 => Deciders(fs, p) # {}

\* The state is well formed, and every pending promise has exactly one party left
\* that can settle it (promise.resolve and reject are reached once).
Consistent ==
    /\ TypeOK /\ FramesOK(frames) /\ JobsOK(frames) /\ PairsOK(frames) /\ JobsDistinct(jobQueue, frames)
    /\ ReactionsApart(frames) /\ OneDecider(frames)

\* A settled promise keeps its state and its result.
SettledForever ==
    [][\A p \in Promise : state[p] \in Settled => state'[p] = state[p] /\ result'[p] = result[p]]_vars

\* Of the two reactions of one then or await at most one runs, and only once:
\* it is registered, or its job waits, or the job has run.
ReactionRunsOnce ==
    /\ Queued \intersect ran = {}
    /\ \A p \in Promise : /\ Registered(p) \intersect (Queued \union ran) = {}
                          /\ state[p] \in Settled => Registered(p) = {}

\* A host that follows the rejection tracker (Reject: remember, Handle: forget)
\* knows exactly the rejected promises that nobody handles.
TrackerAgrees == unhandled = {p \in Promise : state[p] = "rejected" /\ ~handled[p]}

\* When control is back outside the runtime no job is left, after an interrupt
\* too: a later call cannot run jobs of an earlier one.
NoJobLeftBehind == frames = <<>> => jobQueue = <<>>

\* The jobs of a RunProgram are run by its own leave() only: its context stays on
\* the call stack meanwhile, so that whatever a Go handler calls into the runtime
\* runs no other job in the middle of this one.
ProgramDrainsAlone ==
    \A d, e \in 1..Depth : frames[d].kind = "program" /\ d + 1 < e => frames[e].kind # "drain"

\* Every job that is enqueued runs, unless an interrupt drops it.
JobsRun == \A id \in 1..(MaxReactions + MaxThenables) : id \in Queued ~> (id \in ran \/ interrupts > 0)

\* A call into the runtime comes back, interrupted or not.
CallsReturn == Depth > 0 ~> Depth = 0
=============================================================================
