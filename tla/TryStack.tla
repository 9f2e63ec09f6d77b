------------------------------ MODULE TryStack -------------------------------
(***************************************************************************)
(* Exceptions in the virtual machine (vm.go): the stack of try frames, how *)
(* handleThrow unwinds it, and the iterators that it closes on the way.    *)
(*                                                                         *)
(* ctl is the nest of what is running, innermost last: it stands for the   *)
(* program counter and for the Go stack.  A region of it is                *)
(*   run     RunProgram and its run loop (runTry)                          *)
(*   fn      a function called by the run loop (callStack grows)           *)
(*   gofn    a Go function called by the run loop                          *)
(*   call    a function Go code calls, with a run loop of its own (__call) *)
(*   native  Go code under vm.try: an iterator's next() or return()        *)
(*   try     a try statement, in its body, catch or finally block          *)
(*   loop    a for-of or for-in loop                                       *)
(*   unwind  handleThrow, while restoreStacks closes iterators             *)
(*   panic   an uncatchable panic that is on its way up the Go stack       *)
(***************************************************************************)
EXTENDS Naturals, Sequences, FiniteSets

CONSTANTS Exceptions,      \* what a script may throw
          MaxDepth,        \* bound on the depth of ctl, closing of iterators apart
          InitCap,         \* cap(vm.tryStack) when the host gets the runtime
          MaxInterrupts    \* bound on the calls of Interrupt

ASSUME TryStackAssumption ==
    /\ Exceptions \subseteq Nat \ {0}
    /\ MaxDepth \in Nat /\ InitCap \in Nat /\ MaxInterrupts \in Nat

VARIABLES ctl,
          tryStack,      \* vm.tryStack
          cap,           \* and its capacity
          iterStack,     \* vm.iterStack: "iter" has an iterator to close, "none" has not
          callStack,     \* len(vm.callStack)
          interrupted,   \* vm.interrupted
          interrupts     \* calls of Interrupt so far

vars == <<ctl, tryStack, cap, iterStack, callStack, interrupted, interrupts>>

Depth == Len(ctl)
Top   == ctl[Depth]
Cut(s, n) == SubSeq(s, 1, n)
Pop(s)    == Cut(s, Len(s) - 1)

\* pending: of an unwind region the exception it carries, of a try region in its
\* finally block the one that brought control there.  exit: the region that a
\* break, continue or return is on its way to, 0 if none.  deferred: handleThrow
\* was called by a deferred function.  stale: the array that its tf points into
\* is no longer the one of vm.tryStack.
Region(kind, phase) ==
    [kind |-> kind, phase |-> phase, catch |-> FALSE, finally |-> FALSE,
     pending |-> 0, exit |-> 0, deferred |-> FALSE, stale |-> FALSE]

TryRegion(c, f) == [Region("try", "body") EXCEPT !.catch = c, !.finally = f]
Unwind(ex, d)   == [Region("unwind", "body") EXCEPT !.pending = ex, !.deferred = d]

GoKinds == {"run", "native", "call"}    \* have a frame with tryPanicMarker
FnKinds == {"run", "fn", "call"}        \* a break or return never leaves these

\* A script runs: its code is the innermost region, and the run loop has not
\* seen an interrupt.
InJS == /\ Depth > 0
        /\ Top.kind \in {"run", "fn", "call", "try", "loop"}
        /\ Top.phase # "head"

\* Mutant of Running: the run loop does not look at the flag.
RunningUnchecked == InJS

Running == InJS /\ ~interrupted
JS == Running /\ Top.exit = 0
InGo == Depth > 0 /\ Top.kind \in {"gofn", "native"}

\* catchPos and finallyPos are addresses in the code of the region at.
\* finallyRet, 0 for -1, is the region that leaveFinally goes on to leave for.
tryFrame(catchPos, finallyPos, at, calls, iters) ==
    [at |-> at, catchPos |-> catchPos, finallyPos |-> finallyPos,
     finallyRet |-> 0, exception |-> 0, callStackLen |-> calls, iterLen |-> iters]

Pos(b) == IF b THEN "armed" ELSE "off"

-----------------------------------------------------------------------------
Init ==
    /\ ctl = <<>> /\ tryStack = <<>> /\ cap = InitCap
    /\ iterStack = <<>> /\ callStack = 0
    /\ interrupted = FALSE /\ interrupts = 0

\* Go code that is in the regions c pushes a frame and goes on in a new region.
\* append() moves vm.tryStack to a new array when it is full: every tf that a
\* handleThrow in progress has taken the address of stays in the old one.
pushTryFrame(c, region, catchPos, finallyPos, calls, iters) ==
    LET full == Len(tryStack) = cap
    IN  /\ tryStack' = Append(tryStack, tryFrame(catchPos, finallyPos, Len(c) + 1, calls, iters))
        /\ cap' = IF full THEN (IF cap = 0 THEN 1 ELSE 2 * cap) ELSE cap
        /\ ctl' = Append([i \in 1..Len(c) |-> [c[i] EXCEPT
                              !.stale = @ \/ (full /\ c[i].kind = "unwind")]], region)

pushMarker(c, region, calls, iters) == pushTryFrame(c, region, "marker", "off", calls, iters)

\* The contexts a function called from Go pushes: vm.prg is nil in a Go function.
CallContexts(under) == IF under.kind = "gofn" THEN 1 ELSE 2

\* Innermost region with a run loop or a vm.try, whose deferred functions run
\* when Go code above it panics.
GoLevel(c) == CHOOSE i \in 1..Len(c) : /\ c[i].kind \in GoKinds
                                       /\ \A j \in (i + 1)..Len(c) : c[j].kind \notin GoKinds

\* Mutant of Handles: a frame that has caught is skipped, its finally block too.
HandlesCatchOnly(tf, ex) == tf.catchPos = "marker" \/ (ex # 0 /\ tf.catchPos = "armed")

\* handleThrow stops at this frame; the uncatchable exception 0 passes those of
\* try statements.
Handles(tf, ex) ==
    \/ tf.catchPos = "marker"
    \/ ex # 0 /\ (tf.catchPos = "armed" \/ tf.finallyPos = "armed")

\* handleThrow, called from the regions c, up to its call of restoreStacks.
handleThrow(ex, d, c, ts) ==
    \E n \in 1..Len(ts) :
        /\ Handles(ts[n], ex) /\ \A m \in (n + 1)..Len(ts) : ~Handles(ts[m], ex)
        /\ tryStack' = Cut(ts, n)
        /\ callStack' = IF ts[n].callStackLen < callStack THEN ts[n].callStackLen ELSE callStack
        /\ ctl' = Append(Cut(c, IF ts[n].catchPos = "marker" THEN GoLevel(c) ELSE ts[n].at),
                         Unwind(ex, d))

-----------------------------------------------------------------------------
(* Calls and returns *)

RunProgram ==
    /\ ctl = <<>>
    /\ callStack' = callStack + 1
    /\ pushMarker(ctl, Region("run", "body"), callStack + 1, Len(iterStack))
    /\ UNCHANGED <<iterStack, interrupted, interrupts>>

\* The run loop calls a function (vmCall).
Call(kind) ==
    /\ JS /\ Depth < MaxDepth
    /\ ctl' = Append(ctl, Region(kind, "body"))
    /\ callStack' = callStack + 1
    /\ UNCHANGED <<tryStack, cap, iterStack, interrupted, interrupts>>

\* Go code calls a function.
__call ==
    /\ InGo /\ (Depth < MaxDepth \/ Top.phase = "close")
    /\ pushMarker(ctl, Region("call", "body"), callStack, Len(iterStack))
    /\ callStack' = callStack + CallContexts(Top)
    /\ UNCHANGED <<iterStack, interrupted, interrupts>>

Ret ==
    /\ \/ JS /\ Top.kind = "fn"
       \/ InGo /\ Top.kind = "gofn"
    /\ ctl' = Pop(ctl)
    /\ callStack' = callStack - 1
    /\ UNCHANGED <<tryStack, cap, iterStack, interrupted, interrupts>>

\* A function that Go code called returns to it, or the program ends.
RetToGo ==
    /\ JS /\ Top.kind \in {"run", "call"}
    /\ ctl' = Pop(ctl)
    /\ tryStack' = Pop(tryStack)
    /\ callStack' = callStack - (IF Top.kind = "run" THEN 1 ELSE CallContexts(ctl[Depth - 1]))
    /\ UNCHANGED <<cap, iterStack, interrupted, interrupts>>

\* The throw instruction.
Throw(ex) ==
    /\ JS
    /\ handleThrow(ex, FALSE, ctl, tryStack)
    /\ UNCHANGED <<cap, iterStack, interrupted, interrupts>>

\* Go code, an instruction's or a function's, panics with an exception.
Panic(ex) ==
    /\ Running \/ InGo
    /\ handleThrow(ex, TRUE, ctl, tryStack)
    /\ UNCHANGED <<cap, iterStack, interrupted, interrupts>>

-----------------------------------------------------------------------------
(* Try statements *)

Try(c, f) ==
    /\ JS /\ Depth < MaxDepth /\ (c \/ f)
    /\ pushTryFrame(ctl, TryRegion(c, f), Pos(c), Pos(f), callStack, Len(iterStack))
    /\ UNCHANGED <<iterStack, callStack, interrupted, interrupts>>

SetFrame(frame) == [tryStack EXCEPT ![Len(tryStack)] = frame]
Disarmed(tf)    == [tf EXCEPT !.catchPos = "off", !.finallyPos = "off"]
TopFrame        == tryStack[Len(tryStack)]

\* The body or the catch block ends, and a finally block follows.
enterFinally ==
    /\ JS /\ Top.kind = "try" /\ Top.phase # "finally" /\ Top.finally
    /\ tryStack' = SetFrame(Disarmed(TopFrame))
    /\ ctl' = [ctl EXCEPT ![Depth].phase = "finally"]
    /\ UNCHANGED <<cap, iterStack, callStack, interrupted, interrupts>>

\* With the region above it left, the region at the top goes on leaving for t.
LeaveFor(c, t) == [c EXCEPT ![Len(c)].exit = IF t = Len(c) THEN 0 ELSE t]

\* The end of a statement that has no finally block, or a break, continue or
\* return that leaves a try statement.
leaveTry ==
    /\ Running /\ Top.kind = "try" /\ (Top.exit # 0 \/ (Top.phase # "finally" /\ ~Top.finally))
    /\ IF TopFrame.finallyPos = "armed"
       THEN /\ tryStack' = SetFrame([Disarmed(TopFrame) EXCEPT !.finallyRet = Top.exit])
            /\ ctl' = [ctl EXCEPT ![Depth].phase = "finally", ![Depth].exit = 0]
       ELSE /\ tryStack' = Pop(tryStack)
            /\ ctl' = LeaveFor(Pop(ctl), Top.exit)
    /\ UNCHANGED <<cap, iterStack, callStack, interrupted, interrupts>>

leaveFinally ==
    /\ JS /\ Top.kind = "try" /\ Top.phase = "finally"
    /\ \/ /\ TopFrame.exception # 0
          /\ handleThrow(TopFrame.exception, FALSE, Pop(ctl), Pop(tryStack))
       \/ /\ TopFrame.exception = 0
          /\ tryStack' = Pop(tryStack)
          /\ ctl' = LeaveFor(Pop(ctl), TopFrame.finallyRet)
          /\ UNCHANGED callStack
    /\ UNCHANGED <<cap, iterStack, interrupted, interrupts>>

\* break, continue or return: from here on the compiled exit code runs, which
\* leaves the regions above t one by one.
Exit(t) ==
    /\ JS /\ t < Depth /\ \A i \in (t + 1)..Depth : ctl[i].kind \notin FnKinds
    /\ ctl' = [ctl EXCEPT ![Depth].exit = t]
    /\ UNCHANGED <<tryStack, cap, iterStack, callStack, interrupted, interrupts>>

-----------------------------------------------------------------------------
(* Loops *)

\* iterateP pushes an iterator, enumerate the keys of an object.
iterate(item) ==
    /\ JS /\ Depth < MaxDepth
    /\ iterStack' = Append(iterStack, item)
    /\ ctl' = Append(ctl, Region("loop", "head"))
    /\ UNCHANGED <<tryStack, cap, callStack, interrupted, interrupts>>

AtHead == Depth > 0 /\ Top.kind = "loop" /\ Top.phase = "head" /\ ~interrupted

\* iter.step() calls next() under vm.try.
iterNext ==
    /\ AtHead /\ iterStack[Len(iterStack)] = "iter"
    /\ pushMarker(ctl, Region("native", "next"), callStack, Len(iterStack))
    /\ UNCHANGED <<iterStack, callStack, interrupted, interrupts>>

enumNext ==
    /\ AtHead /\ iterStack[Len(iterStack)] = "none"
    /\ \/ ctl' = [ctl EXCEPT ![Depth].phase = "body"] /\ UNCHANGED iterStack
       \/ ctl' = Pop(ctl) /\ iterStack' = Pop(iterStack)
    /\ UNCHANGED <<tryStack, cap, callStack, interrupted, interrupts>>

\* next() returned a value, or the iterator is done.
stepReturns ==
    /\ InGo /\ Top.kind = "native" /\ Top.phase = "next"
    /\ tryStack' = Pop(tryStack)
    /\ \/ ctl' = [Pop(ctl) EXCEPT ![Depth - 1].phase = "body"] /\ UNCHANGED iterStack
       \/ ctl' = Pop(Pop(ctl)) /\ iterStack' = Pop(iterStack)
    /\ UNCHANGED <<cap, callStack, interrupted, interrupts>>

NextIteration ==
    /\ JS /\ Top.kind = "loop"
    /\ ctl' = [ctl EXCEPT ![Depth].phase = "head"]
    /\ UNCHANGED <<tryStack, cap, iterStack, callStack, interrupted, interrupts>>

\* Mutant of enumPopClose: the iterator is closed but stays on the stack.
enumPopCloseKeepsItem ==
    LET left == LeaveFor(Pop(ctl), Top.exit)
    IN  /\ Running /\ Top.kind = "loop" /\ Top.exit # 0
        /\ ctl' = left
        /\ UNCHANGED <<tryStack, cap, iterStack, callStack, interrupted, interrupts>>

\* A break or return leaves a loop.  The item is popped first; then a return()
\* method, if there is one, is called, in Go code of the instruction.
enumPopClose ==
    LET left == LeaveFor(Pop(ctl), Top.exit)
    IN  /\ Running /\ Top.kind = "loop" /\ Top.exit # 0
        /\ iterStack' = Pop(iterStack)
        /\ \/ /\ ctl' = left
              /\ UNCHANGED <<tryStack, cap, callStack>>
           \/ /\ iterStack[Len(iterStack)] = "iter"
              /\ pushMarker(left, Region("call", "body"), callStack, Len(iterStack) - 1)
              /\ callStack' = callStack + 2
        /\ UNCHANGED <<interrupted, interrupts>>

-----------------------------------------------------------------------------
(* Unwinding *)

Unwinding == Depth > 0 /\ Top.kind = "unwind"

\* Mutant of ToClose: only the innermost iterator is closed.
ToCloseLast == {i \in (TopFrame.iterLen + 1)..Len(iterStack) : i = Len(iterStack) /\ iterStack[i] = "iter"}

\* The items that restoreStacks has still to close.
ToClose == {i \in (TopFrame.iterLen + 1)..Len(iterStack) : iterStack[i] = "iter"}

\* restoreStacks calls returnIter under vm.try for the last of them.
CloseIterator ==
    /\ Unwinding /\ ToClose # {}
    /\ pushMarker(ctl, Region("native", "close"), callStack, Len(iterStack))
    /\ UNCHANGED <<iterStack, callStack, interrupted, interrupts>>

\* The native region over an unwind region is done with the last open item.
Closed(s) ==
    LET last == CHOOSE i \in 1..Len(s) : s[i] = "iter" /\ \A j \in (i + 1)..Len(s) : s[j] # "iter"
    IN  [s EXCEPT ![last] = "none"]

closeReturns ==
    /\ InGo /\ Top.kind = "native" /\ Top.phase = "close"
    /\ ctl' = Pop(ctl)
    /\ tryStack' = Pop(tryStack)
    /\ iterStack' = Closed(iterStack)
    /\ UNCHANGED <<cap, callStack, interrupted, interrupts>>

\* Everything is closed; restoreStacks truncates the stack and returns.
Restored == Unwinding /\ ToClose = {}
Truncated == Cut(iterStack, TopFrame.iterLen)

\* The catch block gets the exception.  A stale tf is written to in vain.
catches ==
    /\ Restored /\ TopFrame.catchPos = "armed"
    /\ tryStack' = IF Top.stale THEN tryStack ELSE SetFrame([TopFrame EXCEPT !.catchPos = "off"])
    /\ ctl' = [Pop(ctl) EXCEPT ![Depth - 1].phase = "catch", ![Depth - 1].exit = 0]
    /\ iterStack' = Truncated
    /\ UNCHANGED <<cap, callStack, interrupted, interrupts>>

\* Mutant of entersFinally: the exception is not kept.
entersFinallyForgets ==
    /\ Restored /\ TopFrame.catchPos = "off"
    /\ tryStack' = SetFrame([TopFrame EXCEPT !.finallyPos = "off"])
    /\ ctl' = [Pop(ctl) EXCEPT ![Depth - 1].phase = "finally", ![Depth - 1].exit = 0,
                               ![Depth - 1].pending = Top.pending]
    /\ iterStack' = Truncated
    /\ UNCHANGED <<cap, callStack, interrupted, interrupts>>

\* There is only a finally block; its frame keeps the exception.
entersFinally ==
    /\ Restored /\ TopFrame.catchPos = "off"
    /\ tryStack' = IF Top.stale THEN tryStack
                   ELSE SetFrame([TopFrame EXCEPT !.exception = Top.pending,
                                                  !.finallyPos = "off", !.finallyRet = 0])
    /\ ctl' = [Pop(ctl) EXCEPT ![Depth - 1].phase = "finally", ![Depth - 1].exit = 0,
                               ![Depth - 1].pending = Top.pending]
    /\ iterStack' = Truncated
    /\ UNCHANGED <<cap, callStack, interrupted, interrupts>>

\* The exception ends a run loop or a vm.try, and Go code gets it.
reachesGo ==
    LET go == ctl[Depth - 1]
    IN  /\ Restored /\ TopFrame.catchPos = "marker" /\ Top.pending # 0
        /\ \/ /\ go.kind = "run"
              /\ ctl' = <<>> /\ callStack' = callStack - 1
              /\ tryStack' = Pop(tryStack) /\ iterStack' = Truncated
           \* restoreStacks ignores it
           \/ /\ go.phase = "close"
              /\ ctl' = Cut(ctl, Depth - 2)
              /\ tryStack' = Pop(tryStack) /\ iterStack' = Closed(Truncated)
              /\ UNCHANGED callStack
           \* iterNext drops the iterator and throws it
           \/ /\ go.phase = "next"
              /\ handleThrow(Top.pending, FALSE, Cut(ctl, Depth - 3), Pop(tryStack))
              /\ iterStack' = Pop(Truncated)
           \* _call panics with it
           \/ /\ go.kind = "call"
              /\ handleThrow(Top.pending, TRUE, Cut(ctl, Depth - 2), Pop(tryStack))
              /\ iterStack' = Truncated
        /\ UNCHANGED <<cap, interrupted, interrupts>>

-----------------------------------------------------------------------------
(* Interrupts *)

Interrupt ==
    /\ interrupts < MaxInterrupts
    /\ interrupts' = interrupts + 1
    /\ interrupted' = TRUE
    /\ UNCHANGED <<ctl, tryStack, cap, iterStack, callStack>>

\* The run loop finds the flag set, before an instruction, and panics.
StopScript ==
    /\ interrupted
    /\ InJS \/ (Depth > 0 /\ Top.kind = "loop")
    /\ handleThrow(0, TRUE, ctl, tryStack)
    /\ UNCHANGED <<cap, iterStack, interrupted, interrupts>>

\* An uncatchable panic leaves the Go code of region g.  The deferred
\* popTryFrame pops whichever frame is the last; RunProgram calls leaveAbrupt
\* when that leaves the call stack empty.
panicsOut(g) ==
    /\ tryStack' = Pop(tryStack)
    /\ \/ /\ ctl[g].kind = "run"
          /\ ctl' = <<>>
          /\ callStack' = callStack - 1
          /\ interrupted' = (interrupted /\ callStack # 1)
       \/ /\ ctl[g].kind # "run"
          /\ ctl' = Append(Cut(ctl, g - 1), Region("panic", "body"))
          /\ UNCHANGED <<callStack, interrupted>>

\* handleThrow panics again once it has unwound to a marker.
panicsAgain ==
    /\ Restored /\ TopFrame.catchPos = "marker" /\ Top.pending = 0
    /\ panicsOut(Depth - 1)
    /\ iterStack' = Truncated
    /\ UNCHANGED <<cap, interrupts>>

\* The panic reaches Go code that is not in a deferred function, and is
\* recovered from; or it reaches the handleThrow of a deferred function, and
\* goes through it.
Propagate ==
    /\ Depth > 0 /\ Top.kind = "panic"
    /\ LET under == ctl[Depth - 1]
       IN  \/ /\ under.kind = "unwind" /\ under.deferred
              /\ panicsOut(GoLevel(Cut(ctl, Depth - 2)))
           \/ /\ under.kind = "unwind" /\ ~under.deferred
              /\ handleThrow(0, TRUE, Cut(ctl, Depth - 2), tryStack)
              /\ UNCHANGED interrupted
           \/ /\ under.kind # "unwind"
              /\ handleThrow(0, TRUE, Pop(ctl), tryStack)
              /\ UNCHANGED interrupted
    /\ UNCHANGED <<cap, iterStack, interrupts>>

-----------------------------------------------------------------------------
ScriptStep ==
    \/ Call("fn") \/ Call("gofn") \/ Ret \/ RetToGo
    \/ \E ex \in Exceptions : Throw(ex)
    \/ \E c, f \in BOOLEAN : Try(c, f)
    \/ enterFinally \/ leaveTry \/ leaveFinally
    \/ \E t \in 1..MaxDepth : Exit(t)
    \/ \E item \in {"iter", "none"} : iterate(item)
    \/ iterNext \/ enumNext \/ NextIteration \/ enumPopClose

GoStep ==
    \/ __call \/ stepReturns \/ closeReturns
    \/ \E ex \in Exceptions : Panic(ex)
    \/ CloseIterator \/ catches \/ entersFinally \/ reachesGo
    \/ StopScript \/ panicsAgain \/ Propagate

VMStep == ScriptStep \/ GoStep
Next == RunProgram \/ Interrupt \/ VMStep
Spec == Init /\ [][Next]_vars

\* The goroutine that runs the VM keeps running, and Go functions return.
FairSpec == Spec /\ WF_vars(VMStep)

-----------------------------------------------------------------------------
(* Properties *)

Regions ==
    [kind : {"run", "fn", "gofn", "call", "native", "try", "loop", "unwind", "panic"},
     phase : {"body", "catch", "finally", "head", "next", "close"},
     catch : BOOLEAN, finally : BOOLEAN, pending : Exceptions \union {0},
     exit : 0..MaxDepth, deferred : BOOLEAN, stale : BOOLEAN]

Frames ==
    [at : Nat, catchPos : {"marker", "armed", "off"}, finallyPos : {"armed", "off"},
     finallyRet : 0..MaxDepth, exception : Exceptions \union {0},
     callStackLen : Nat, iterLen : Nat]

\* Type invariant: the stacks of the VM and the regions that run are well
\* formed, and vm.tryStack never outgrows its array.
TypeOK ==
    /\ ctl \in Seq(Regions) /\ tryStack \in Seq(Frames) /\ Len(tryStack) <= cap
    /\ cap \in Nat /\ callStack \in Nat /\ interrupts \in Nat
    /\ iterStack \in Seq({"iter", "none"}) /\ interrupted \in BOOLEAN

HasFrame(i) == ctl[i].kind \in GoKinds \union {"try"}
FrameOf(i)  == tryStack[Cardinality({j \in 1..i : HasFrame(j)})]
LoopsIn(i, j) == Cardinality({k \in i..j : ctl[k].kind = "loop"})

\* The items under region i: those of the loops around it, and in code that
\* restoreStacks calls those it was about to close.
Items(i) ==
    LET closers == {j \in 1..i : ctl[j].phase = "close"}
        last    == CHOOSE j \in closers : \A k \in closers : k <= j
    IN  IF closers = {} THEN LoopsIn(1, i) ELSE FrameOf(last).iterLen + LoopsIn(last, i)
Contexts(i) == CASE ctl[i].kind \in {"run", "fn", "gofn"} -> 1
                 [] ctl[i].kind = "call" /\ ~(i < Depth /\ ctl[i + 1].kind = "unwind")
                        -> CallContexts(ctl[i - 1])
                 [] OTHER -> 0
CallsUpTo(i) == LET C[j \in 0..i] == IF j = 0 THEN 0 ELSE C[j - 1] + Contexts(j)
                IN  C[i]

\* tryStack has a frame for every try statement and every Go level on the way.
FramesMatchCode ==
    /\ Len(tryStack) = Cardinality({i \in 1..Depth : HasFrame(i)})
    /\ \A i \in 1..Depth : HasFrame(i) => FrameOf(i).at = i

\* iterStack has the items of the loops, above which handleThrow finds only what
\* it has to close, and every frame remembers as many as were there.
ItemsMatchCode ==
    /\ \A i \in 1..Depth : HasFrame(i) => FrameOf(i).iterLen = Items(i)
    /\ IF Unwinding THEN Len(iterStack) >= Items(Depth) ELSE Len(iterStack) = Items(Depth)

\* The VM's stacks are those of the code that runs, callStack with the contexts
\* of the calls, whatever was thrown, broken out of or returned from so far.
StacksMatchCode == FramesMatchCode /\ ItemsMatchCode /\ callStack = CallsUpTo(Depth)

\* A try statement can catch only in its body, and run its finally block only
\* once: the frame has the handlers of the block that runs, so an exception
\* thrown by a catch or finally block is never handled by its own statement.
HandlersMatchBlock ==
    \A i \in 1..Depth : ctl[i].kind = "try" =>
        /\ FrameOf(i).catchPos = Pos(ctl[i].phase = "body" /\ ctl[i].catch)
        /\ FrameOf(i).finallyPos = Pos(ctl[i].phase # "finally" /\ ctl[i].finally)

\* The stacks of the VM are well formed and agree with the code that runs, and
\* every frame of tryStack offers the handlers of the block that runs.
Consistent == TypeOK /\ StacksMatchCode /\ HandlersMatchBlock

\* The exception that brought control to a finally block is kept in its frame,
\* whatever runs meanwhile, for leaveFinally to throw again.
PendingKept ==
    \A i \in 1..Depth : ctl[i].kind = "try" => FrameOf(i).exception = ctl[i].pending

\* Where a script's exception may be handled.
Handler(r) == r.kind = "try" /\ (r.phase = "body" \/ (r.phase = "catch" /\ r.finally))

\* A step that abandons regions because of an exception abandons no try
\* statement with a handler for it: control goes to the innermost one.
NoHandlerSkipped ==
    [][Len(ctl') > 0 /\ Len(ctl') <= Depth /\ ctl'[Len(ctl')].kind = "unwind" =>
           \A i \in Len(ctl')..Depth : ~Handler(ctl[i])]_vars

\* Unwinding cuts off iterStack only items that it has closed, however many
\* loops the exception leaves and whatever their return() methods do; but for
\* the iterator whose next() threw, which iterNext drops.
UnwindingClosesAll ==
    [][Unwinding => \A i \in (Len(iterStack') + 1)..Len(iterStack) :
           \/ iterStack[i] = "none"
           \/ ctl[Depth - 1].phase = "next" /\ i = Len(iterStack') + 1]_vars

\* An interrupted script stops: no catch, finally or return() of its keeps the
\* call of RunProgram from returning.
InterruptStops == interrupted ~> (ctl = <<>>)
=============================================================================
