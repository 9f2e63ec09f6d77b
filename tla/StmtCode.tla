------------------------------ MODULE StmtCode ------------------------------
(***************************************************************************)
(* The code compiler_stmt.go emits for statements.                         *)
(*                                                                         *)
(* The compiler is a record c: the code so far and the enclosing blocks,   *)
(* innermost last; a pointer to a block is its index, 0 if nil.  need says *)
(* whether the completion value is wanted (needResult).  x tells where the *)
(* variables of a scope are: "let" on the stack, "stash" in a stash,       *)
(* "none" if it has none.                                                  *)
(***************************************************************************)
EXTENDS ExprCode

Empty == [code |-> <<>>, blocks |-> <<>>]

Here(c)         == Len(c.code) + 1
Emit(c, code)   == [c EXCEPT !.code = @ \o code]
EmitIf(b, c, op) == IF b THEN Emit(c, <<Do(op)>>) ELSE c
Patch(c, at, i) == [c EXCEPT !.code = [@ EXCEPT ![at] = i]]
JumpTo(c, op, at, to) == Patch(c, at, Instr(op, to - at))
JumpHere(c, op, at)  == JumpTo(c, op, at, Here(c))
JumpBack(c, op, to)  == Emit(c, <<Instr(op, to - Here(c))>>)
Hole(c)         == Emit(c, <<Do("nil")>>)
None            == Node("none", "", <<>>)

Block(typ, label, need) ==
    [typ |-> typ, label |-> label, need |-> need, cont |-> 0, breaks |-> {}, conts |-> {}, breaking |-> 0,
     async |-> FALSE]
Enter(c, block) == [c EXCEPT !.blocks = Append(@, block)]
Inmost(c)       == Last(c.blocks)
SetCont(c, at)  == [c EXCEPT !.blocks[Len(c.blocks)].cont = at]

Loops == {"loop", "enum"}

leaveBlock(c) ==
    LET b   == Inmost(c)
        lbl == Here(c)
    IN  [code   |-> [i \in DOMAIN c.code |->
                        CASE b.typ \in Loops /\ i \in b.conts -> Instr("jump", b.cont - i)
                          [] i \in b.breaks                   -> Instr("jump", lbl - i)
                          [] OTHER                            -> c.code[i]] \o <<>>,
         blocks |-> Front(c.blocks)]

\* slots is how many variables the block has on the stack when it is left.
Stashed(x) == IF x = "stash" THEN True ELSE Nil
OnStack(x) == IF x = "let" THEN 1 ELSE 0
enterBlock(x, slots) == [Instr("enterBlock", slots) EXCEPT !.v = Stashed(x)]

leaveScopeBlock(c, x, slots) ==
    LET leave == [Instr("leaveBlock", slots) EXCEPT !.v = Stashed(x)]
        b     == Inmost(c)
        left  == Emit(c, <<leave>>)
    IN  leaveBlock([code   |-> [i \in DOMAIN left.code |-> IF i \in b.breaks THEN leave ELSE left.code[i]],
                    blocks |-> [c.blocks EXCEPT ![Len(c.blocks)].breaks = {}]])

\* Code that is never run is compiled for its errors, with a copy of the innermost
\* block but the same outer ones, and dropped.
enterDummyMode(c) ==
    LET n    == Len(c.blocks)
        copy == [typ |-> Inmost(c).typ, label |-> Inmost(c).label, need |-> FALSE, cont |-> 0,
                 breaks |-> {}, conts |-> {}, breaking |-> Inmost(c).breaking, async |-> FALSE]
    IN  [code |-> <<>>, blocks |-> IF n = 0 THEN <<>> ELSE [c.blocks EXCEPT ![n] = copy]]

leaveDummyMode(c, dummy) ==
    [c EXCEPT !.blocks = [i \in DOMAIN @ |-> IF i = Len(@) THEN @[i] ELSE dummy.blocks[i]]]

-----------------------------------------------------------------------------
(* break, continue and return.                                             *)

findBreakBlock(c, label, isBreak) ==
    LET at       == DOMAIN c.blocks
        breaking == {i \in at : c.blocks[i].breaking # 0}
        found    == {i \in at : IF label # "" THEN c.blocks[i].label = label
                                ELSE \/ c.blocks[i].typ \in Loops
                                     \/ isBreak /\ c.blocks[i].typ = "switch"}
        all      == breaking \union found
    IN  IF all = {} THEN 0
        ELSE IF Max(all) \in breaking THEN c.blocks[Max(all)].breaking ELSE Max(all)

\* A break from a scope becomes the leaveBlock of that scope.
Breaks(c, i) == Hole([c EXCEPT !.blocks[i].breaks = @ \union {Here(c)}])

\* emitIterClose
iterClose(async) ==
    IF async THEN <<Instr("asyncIterClose", 2), Do("checkObjectP"), Do("enumPop")>> ELSE <<Do("enumPopClose")>>

RECURSIVE exitCode(_, _, _, _)
exitCode(c, i, target, contForLoop) ==
    LET b == c.blocks[i]
    IN  IF i = target \/ (b.typ = "iterscope" /\ contForLoop /\ i - 1 = target) THEN c
        ELSE exitCode(CASE b.typ \in {"iterscope", "scope"} -> Breaks(c, i)
                        [] b.typ = "try"  -> Emit(c, <<Do("leaveTry")>>)
                        [] b.typ = "with" -> Emit(c, <<Do("leaveWith")>>)
                        [] b.typ = "enum" -> Emit(c, iterClose(b.async))
                        [] OTHER          -> c,
                      i - 1, target, contForLoop)

emitBlockExitCode(c, target, isBreak) ==
    exitCode(c, Len(c.blocks), target, ~isBreak /\ c.blocks[target].typ = "loop")

compileBreak(c, label) ==
    LET target == findBreakBlock(c, label, TRUE)
    IN  Breaks(emitBlockExitCode(c, target, TRUE), target)

compileContinue(c, label) ==
    LET target == findBreakBlock(c, label, FALSE)
        out1   == emitBlockExitCode(c, target, FALSE)
    IN  Hole([out1 EXCEPT !.blocks[target].conts = @ \union {Here(out1)}])

\* A mutant: the value returned is left on the stack, which leaveTry cuts.
compileReturnStatementUnsaved(c, v) ==
    LET value == IF v.k = <<>> THEN <<loadVal(Undefined)>> ELSE emitExpr(v.k[1], TRUE)
        exits == Concat(Reverse(c.blocks),
                        LAMBDA b : CASE b.typ = "try"  -> <<Do("leaveTry")>>
                                     [] b.typ = "enum" -> iterClose(b.async)
                                     [] OTHER          -> <<>>)
    IN  Emit(c, value \o exits \o <<Do("ret")>>)

compileReturnStatement(c, v) ==
    LET value == IF v.k = <<>> THEN <<loadVal(Undefined)>> ELSE emitExpr(v.k[1], TRUE)
        exits == Concat(Reverse(c.blocks),
                        LAMBDA b : CASE b.typ = "try"  -> <<Do("saveResult"), Do("leaveTry"), Do("loadResult")>>
                                     [] b.typ = "enum" -> iterClose(b.async)
                                     [] OTHER          -> <<>>)
    IN  Emit(c, value \o exits \o <<Do("ret")>>)

-----------------------------------------------------------------------------
(* Which statement of a list leaves its completion value.                  *)

Branches == {"break", "continue"}

RECURSIVE isEmptyResult(_)
isEmptyResult(st) ==
    \/ st.t \in {"empty", "var", "let"} \union Branches
    \/ st.t = "label" /\ isEmptyResult(st.k[1])
    \/ st.t = "block" /\ LET stop == {i \in DOMAIN st.k : st.k[i].t \in Branches \/ ~isEmptyResult(st.k[i])}
                         IN  stop = {} \/ st.k[Min(stop)].t \in Branches

scanStatements(c, list) ==
    LET branches == {i \in DOMAIN list : list[i].t \in Branches}
        first    == IF branches = {} THEN Len(list) + 1 ELSE Min(branches)
        produce  == {i \in 1..(first - 1) : ~isEmptyResult(list[i])}
    IN  [last     |-> IF produce = {} THEN 0 ELSE Max(produce),
         breaking |-> IF branches = {} THEN 0 ELSE findBreakBlock(c, list[first].x, list[first].t = "break")]

RECURSIVE compileStatement(_, _, _), compileEach(_, _, _), compileAll(_, _), compileCases(_, _, _, _)

\* The last statement that leaves a value is compiled for it; after a break or a
\* continue nothing is reached.
compileEach(c, list, last) ==
    IF list = <<>> THEN c
    ELSE LET st   == compileStatement(c, Head(list), last = 1)
             dead == last < 1 /\ Head(list).t \in Branches
         IN  IF dead THEN leaveDummyMode(st, compileAll(enterDummyMode(st), Tail(list))) ELSE compileEach(st, Tail(list), last - 1)

compileAll(c, list) == IF list = <<>> THEN c ELSE compileAll(compileStatement(c, Head(list), FALSE), Tail(list))

compileStatements(c, list, need) ==
    LET scan  == scanStatements(c, list)
        wants == IF scan.breaking # 0 THEN c.blocks[scan.breaking].need ELSE need
    IN  IF wants THEN compileEach(c, list, scan.last) ELSE compileAll(c, list)

-----------------------------------------------------------------------------
(* Blocks, declarations and simple statements.                             *)

compileBlockStatement(c, v, need) ==
    IF v.x = "none" THEN compileStatements(c, v.k, need)
    ELSE LET in   == Emit(Enter(c, Block("scope", "", need)), <<enterBlock(v.x, OnStack(v.x))>>)
             body == compileStatements(in, v.k, need)
         IN  leaveScopeBlock(body, v.x, OnStack(v.x))

\* A declaration: a target and its initializer.
compileVarBinding(c, v) ==
    LET target == v.k[1]
        init   == emitExpr(v.k[2], TRUE)
    IN  Emit(c, CASE target.t # "id"   -> emitGetter(v.k[2], TRUE) \o emitPattern(target, FALSE)
                  [] Static(target)    -> init \o <<Do("initStackP")>>
                  [] OTHER             -> emitVarRef(target) \o init \o <<Do("initValueP")>>)

compileLexicalBinding(c, v) ==
    LET target == v.k[1]
    IN  Emit(c, IF target.t = "decl"
                THEN (IF Len(v.k) = 1 THEN <<loadVal(Undefined)>> ELSE emitExpr(v.k[2], TRUE)) \o <<Do("initStackP")>>
                ELSE emitGetter(v.k[2], TRUE) \o emitPattern(target, FALSE))

compileExpressionStatement(c, v, need) ==
    EmitIf(need, Emit(c, emitExpr(v.k[1], need)), "saveResult")

compileThrowStatement(c, v) == Emit(c, emitGetter(v.k[1], TRUE) \o <<Do("throw")>>)

compileIfStatement(c, v, need) ==
    LET test  == v.k[1]
        start == EmitIf(need, c, "clearResult")
        alt   == Len(v.k) = 3
        value == evalConst(test)
        IfTrue  == LET then == compileStatement(start, v.k[2], need)
                   IN  IF alt THEN leaveDummyMode(then, compileStatement(enterDummyMode(then), v.k[3], FALSE)) ELSE then
        IfFalse == LET skip == leaveDummyMode(start, compileStatement(enterDummyMode(start), v.k[2], FALSE))
                   IN  IF alt THEN compileStatement(skip, v.k[3], need) ELSE EmitIf(need, skip, "clearResult")
        jmp   == Hole(Emit(start, emitGetter(test, TRUE)))
        then1 == compileStatement(jmp, v.k[2], need)
        Otherwise(d) == IF alt THEN compileStatement(d, v.k[3], need) ELSE EmitIf(need, d, "clearResult")
    IN  IF constant(test)
        THEN IF value = TypeError THEN Emit(start, emitThrow) ELSE IF Truthy(value) THEN IfTrue ELSE IfFalse
        ELSE IF alt \/ need
             THEN JumpHere(Otherwise(JumpHere(Hole(then1), "jneP", Here(jmp) - 1)), "jump", Here(then1))
             ELSE JumpHere(then1, "jneP", Here(jmp) - 1)

compileWithStatement(c, v, need) ==
    LET in   == Enter(Emit(c, emitGetter(v.k[1], TRUE) \o <<Do("enterWith")>>), Block("with", "", need))
        body == compileStatement(in, v.k[2], need)
    IN  leaveBlock(Emit(body, <<Do("leaveWith")>>))

-----------------------------------------------------------------------------
(* Loops.                                                                  *)

compileLabeledDoWhileStatement(c, v, need, label) ==
    LET in   == Enter(c, Block("loop", label, need))
        body == compileStatement(in, v.k[1], need)
        test == Emit(SetCont(body, Here(body)), emitExpr(v.k[2], TRUE))
    IN  leaveBlock(JumpBack(test, "jeqP", Here(in)))

\* The test of a while or for loop, the body and what runs after it, and the
\* jump back.
Loop(c, test, body, need, After(_)) ==
    LET start == Here(c)
        value == evalConst(test)
        const == test.t # "none" /\ constant(test)
        always == test.t = "none" \/ const
        jmp   == IF always THEN c ELSE Hole(Emit(c, emitGetter(test, TRUE)))
        in    == EmitIf(need, jmp, "clearResult")
        back  == JumpBack(After(compileStatement(in, body, need)), "jump", start)
    IN  IF const /\ value = TypeError THEN Emit(c, emitThrow)
        ELSE IF const /\ ~Truthy(value) THEN leaveDummyMode(c, compileStatement(enterDummyMode(c), body, FALSE))
        ELSE IF always THEN back ELSE JumpHere(back, "jneP", Here(jmp) - 1)

compileLabeledWhileStatement(c, v, need, label) ==
    LET in == EmitIf(need, Enter(c, Block("loop", label, need)), "clearResult")
    IN  leaveBlock(Loop(SetCont(in, Here(in)), v.k[1], v.k[2], need, LAMBDA d : d))

\* The parts are the initializer, the test, the update and the body.  A loop with its own
\* variables copies them for each iteration if they are in a stash.
compileLabeledForStatement(c, v, need, label) ==
    LET lexical == v.x # "none"
        loopAt  == Len(c.blocks) + 1
        loop    == Enter(c, Block("loop", label, need))
        scope   == Emit(Enter(loop, Block("iterscope", "", need)), <<enterBlock(v.x, OnStack(v.x))>>)
        init    == CASE lexical          -> compileLexicalBinding(scope, v.k[1])
                     [] v.k[1].t = "var" -> compileVarBinding(loop, v.k[1])
                     [] v.k[1].t = "none" -> loop
                     [] OTHER            -> Emit(loop, emitGetter(v.k[1], FALSE))
        first   == EmitIf(need, init, "clearResult")
        copy    == IF v.x = "stash" THEN Do("copyStash") ELSE Instr("jump", 1)
        Start1(d) == IF lexical THEN Emit(d, <<copy>>) ELSE d
        update  == IF v.k[3].t = "none" THEN <<>> ELSE emitGetter(v.k[3], FALSE)
        After(d) == [Emit(d, (IF lexical THEN <<copy>> ELSE <<>>) \o update)
                        EXCEPT !.blocks[loopAt].cont = Here(d) + OnStack(v.x)]     \* past the jump that stands for the copy
        Left1(d) == IF lexical THEN leaveScopeBlock(d, v.x, OnStack(v.x)) ELSE d
    IN  leaveBlock(Left1(Loop(Start1(first), v.k[2], v.k[4], need, After)))

\* The variable, target or pattern of a for-in or for-of loop takes the next value.
compileForInto(c, into, need) ==
    LET scope == Emit(Enter(c, Block("iterscope", "", need)), <<enterBlock(into.x, OnStack(into.x)), Do("enumGet")>>)
    IN  CASE into.t = "decl"    -> Emit(scope, <<Do("initStackP")>>)
          [] into.t = "declpat" -> Emit(scope, emitPattern(into.k[1], FALSE))
          [] OTHER              -> Emit(c, assign(into, Node("enumget", "", <<>>), FALSE))

\* What the exception handler of an asynchronous loop does: it closes the iterator,
\* ignoring what that throws, and throws again.
asyncRethrow == <<Instr("try", 5), Instr("asyncIterClose", 2), Do("pop"), Do("leaveTry"), Instr("jump", 2),
                  Do("pop"), Do("enumPop"), Do("throw")>>

\* The parts are the target, the source and the body; x tells whether the source uses
\* the variables of the loop.
compileLabeledForInOfStatement(c, v, need, label) ==
    LET into   == v.k[1]
        async  == v.t = "forawait"
        scoped == into.t \in {"decl", "declpat"}
        loop   == Enter(c, [Block("enum", label, need) EXCEPT !.async = async])
        source == emitGetter(v.k[2], TRUE)
        src    == CASE ~scoped      -> Emit(loop, source)
                    [] v.x = "used" -> leaveScopeBlock(Emit(Enter(loop, Block("scope", "", FALSE)),
                                                            <<enterBlock("stash", 0)>> \o source), "stash", 0)
                    [] OTHER        -> Emit(loop, <<Instr("jump", 1)>> \o source)
        open   == CASE v.t = "forof" -> "iterateP" [] v.t = "forin" -> "enumerate" [] async -> "iterateAsyncP"
        begin  == EmitIf(need, Emit(src, <<Do(open)>>), "clearResult")
        Continues1(d) == SetCont(d, Here(d))
        next   == EmitIf(async, Continues1(begin), "asyncIterNext")
        Try1(d) == IF async THEN Hole(Enter(d, Block("try", "", FALSE))) ELSE d
        in     == compileForInto(Try1(Hole(next)), into, need)
        body   == compileStatement(EmitIf(need, in, "clearResult"), v.k[3], need)
        Left1(d) == IF scoped THEN leaveScopeBlock(d, into.x, OnStack(into.x)) ELSE d
        Out1(d)  == IF async THEN [Emit(d, <<Do("leaveTry")>>) EXCEPT !.blocks = Front(@)] ELSE d
        Catch1(d, at) == IF async THEN Emit(JumpHere(d, "try", at), asyncRethrow) ELSE d
        step   == CASE v.t = "forof" -> "iterNext" [] v.t = "forin" -> "enumNext" [] async -> "asyncIterStep"
        Pop1(d, at) == Hole(Emit(JumpHere(Catch1(d, at + 1), step, at), <<Do("enumPop")>>))
        Close1(d) == JumpHere(Emit(leaveBlock(d), iterClose(async)), "jump", Here(d) - 1)
    IN  Close1(Pop1(JumpBack(Out1(Left1(body)), "jump", Here(begin)), Here(next)))

compileLabeledStatement(c, v, need, label) ==
    CASE v.t = "dowhile" -> compileLabeledDoWhileStatement(c, v, need, label)
      [] v.t = "while"   -> compileLabeledWhileStatement(c, v, need, label)
      [] v.t = "for"     -> compileLabeledForStatement(c, v, need, label)
      [] v.t \in {"forin", "forof", "forawait"} -> compileLabeledForInOfStatement(c, v, need, label)
      [] OTHER -> leaveBlock(compileStatement(Enter(c, Block("label", label, need)), v, need))

-----------------------------------------------------------------------------
(* switch.  With variables of its own the value is the first of them,      *)
(* otherwise it is copied for each test.                                   *)

SwitchTest(scoped, x, test) ==
    <<IF scoped THEN Instr("loadSlot", OnStack(x)) ELSE Do("dup")>> \o emitGetter(test, TRUE) \o <<Do("op_strict_eq")>>
    \o (IF scoped THEN <<Instr("jneP", 2)>> ELSE <<Instr("jneP", 3), Do("pop")>>) \o <<Do("nil")>>

\* jumps gives the position of the jump to a case, 0 if none is needed.
compileCases(c, cases, jumps, need) ==
    IF cases = <<>> THEN c
    ELSE LET at == Head(jumps)
             in == IF at = 0 THEN c ELSE JumpHere(c, "jump", at)
         IN  compileCases(compileStatements(in, Head(cases).k[2].k, need), Tail(cases), Tail(jumps), need)

compileSwitchStatement(c, v, need) ==
    LET scoped  == v.x # "none"
        cases   == Tail(v.k)
        value   == Emit(Enter(c, Block("switch", "", need)), emitGetter(v.k[1], TRUE))
        scope   == Emit(Enter(value, Block("scope", "", need)), <<enterBlock(v.x, OnStack(v.x))>>)
        start   == EmitIf(need, IF scoped THEN scope ELSE value, "clearResult")
        CaseTest(i) == IF cases[i].t = "default" THEN <<>> ELSE SwitchTest(scoped, v.x, cases[i].k[1])
        tests   == [i \in DOMAIN cases |-> CaseTest(i)]
        tested  == EmitIf(~scoped, Emit(start, FlattenSeq(tests)), "pop")
        default == {i \in DOMAIN cases : cases[i].t = "default"}
        last    == IF default = {1} THEN tested ELSE Hole(tested)
        At(i)   == CASE default # {i} -> Here(start) + Len(FlattenSeq(SubSeq(tests, 1, i))) - 1
                     [] i = 1         -> 0
                     [] OTHER         -> Here(tested)
        body    == compileCases(last, cases, [i \in DOMAIN cases |-> At(i)], need)
        End1(d) == IF default = {} THEN JumpHere(d, "jump", Here(tested)) ELSE d
        Left1(d) == IF scoped THEN leaveScopeBlock(d, v.x, OnStack(v.x) + 1) ELSE d
    IN  leaveBlock(Left1(End1(body)))

-----------------------------------------------------------------------------
(* try.  The parts are the body, the catch clause and the finally block,   *)
(* None where there is none.  A finally block that only breaks decides     *)
(* where any break out of the statement goes.                              *)

\* The value thrown is on the stack: it is the first variable of the catch scope.
compileCatch(c, v, need) ==
    LET slots  == OnStack(v.x)
        bound == v.k[1].t # "none"                       \* the parameter is a pattern
        scope == Enter(c, Block("scope", "", FALSE))
        in    == CASE v.x = "stash" -> Emit(scope, <<Instr("enterCatchBlock", 0)>>)
                   [] bound -> Emit(scope, <<Instr("enterBlock", 1), Instr("loadSlot", 1)>> \o emitPattern(v.k[1], FALSE))
                   [] OTHER -> Emit(scope, <<Instr("enterBlock", 0)>>)
        body  == compileStatements(in, v.k[2].k, need)
    IN  IF v.x = "none" THEN compileBlockStatement(Emit(c, <<Do("pop")>>), v.k[2], need)
        ELSE leaveScopeBlock(body, v.x, slots + (IF bound THEN 1 ELSE 0))

compileTryStatement(c, v, need) ==
    LET catch    == v.k[2].t # "none"
        finally  == v.k[3].t # "none"
        entered  == Enter(c, Block("try", "", FALSE))
        scan     == IF finally THEN scanStatements(entered, v.k[3].k) ELSE [last |-> 0, breaking |-> 0]
        breaking == scan.breaking
        bodyNeed == IF breaking = 0 THEN need ELSE scan.last = 0 /\ c.blocks[breaking].need
        lbl      == Here(c)
        start    == EmitIf(need, Hole([entered EXCEPT !.blocks[Len(entered.blocks)].breaking = breaking]), "clearResult")
        body     == compileBlockStatement(start, v.k[1], bodyNeed)
        Caught(d) == IF catch THEN JumpHere(compileCatch(Hole(d), v.k[2], bodyNeed), "jump", Here(d)) ELSE d
        Finally(d) == Emit(compileBlockStatement(
                               EmitIf(bodyNeed /\ breaking # 0 /\ scan.last = 0, Emit(d, <<Do("enterFinally")>>), "clearResult"),
                               v.k[3], FALSE), <<Do("leaveFinally")>>)
        Done(d)  == IF finally THEN Finally(d) ELSE Emit(d, <<Do("leaveTry")>>)
        Try1(d, over, tried) == Patch(Done(d), lbl, [Instr("try", IF catch THEN over - lbl ELSE 0)
                                                        EXCEPT !.m = IF finally THEN tried - lbl ELSE 0])
        Tried(d, over) == Try1(d, over, Here(d) + 1)
    IN  leaveBlock(Tried(Caught(body), Here(body) + 1))

-----------------------------------------------------------------------------

compileStatement(c, v, need) ==
    CASE v.t = "block"    -> compileBlockStatement(c, v, need)
      [] v.t = "expr"     -> compileExpressionStatement(c, v, need)
      [] v.t = "var"      -> compileVarBinding(c, v)
      [] v.t = "let"      -> compileLexicalBinding(c, v)
      [] v.t = "return"   -> compileReturnStatement(c, v)
      [] v.t = "if"       -> compileIfStatement(c, v, need)
      [] v.t = "break"    -> compileBreak(c, v.x)
      [] v.t = "continue" -> compileContinue(c, v.x)
      [] v.t = "try"      -> compileTryStatement(c, v, need)
      [] v.t = "throw"    -> compileThrowStatement(c, v)
      [] v.t = "switch"   -> compileSwitchStatement(c, v, need)
      [] v.t = "label"    -> compileLabeledStatement(c, v.k[1], need, v.x)
      [] v.t = "empty"    -> EmitIf(need, c, "clearResult")
      [] v.t = "with"     -> compileWithStatement(c, v, need)
      [] OTHER            -> compileLabeledStatement(c, v, need, "")

\* A script leaves its completion value in vm.result; a function returns.
compileScript(list)   == compileStatements(Empty, list, TRUE).code
compileFunction(list) ==
    LET body == compileStatements(Empty, list, FALSE)
    IN  IF list # <<>> /\ Last(list).t = "return" THEN body.code
        ELSE Emit(body, <<loadVal(Undefined), Do("ret")>>).code
=============================================================================
