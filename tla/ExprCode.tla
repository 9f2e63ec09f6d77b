------------------------------ MODULE ExprCode ------------------------------
(***************************************************************************)
(* The code compiler_expr.go emits for an expression.                      *)
(*                                                                         *)
(* An expression is a node: its type t, a word x that tells variants       *)
(* apart, and its parts k.  put says whether the value is wanted on the    *)
(* stack (putOnStack).  An instruction the compiler leaves nil and fills   *)
(* in later is written with the length of the code it jumps over.          *)
(***************************************************************************)
EXTENDS Bytecode

Node(t, x, k) == [t |-> t, x |-> x, k |-> k]
Lit(v) == Node("lit", v.k, <<>>)

Unless(put, code) == IF put THEN <<>> ELSE code
Pop(put) == Unless(put, <<Do("pop")>>)
If(put, op) == IF put THEN <<Do(op)>> ELSE <<Do(op \o "P")>>

RECURSIVE constant(_), evalConst(_), emitGetter(_, _), emitRef(_), emitUnary(_, _, _, _),
          emitDelete(_, _), emitCallee(_), emitPattern(_, _), emitPatternAssign(_, _)

Concat(k, F(_)) == FlattenSeq([i \in DOMAIN k |-> F(k[i])])

-----------------------------------------------------------------------------
(* Constant expressions are run by the compiler.                           *)

Truthy(v)   == KindOf(v) = "truthy"
IsNull(v)   == v \in {Undefined, Null}
Literal(e)  == Const(e.x)

\* Whether the left operand decides and the right one is not evaluated.
Decides(e, v) == CASE e.t = "or"       -> Truthy(v)
                   [] e.t = "and"      -> ~Truthy(v)
                   [] e.t = "coalesce" -> ~IsNull(v)

constant(e) ==
    CASE e.t = "lit" -> TRUE
      [] e.t \in {"not", "typeof", "delete", "void", "unary"} -> constant(e.k[1])
      [] e.t = "binary" -> constant(e.k[1]) /\ constant(e.k[2])
      [] e.t \in {"or", "and", "coalesce"} ->
            constant(e.k[1]) /\ LET l == evalConst(e.k[1])
                                IN  l = TypeError \/ Decides(e, l) \/ constant(e.k[2])
      [] OTHER -> FALSE

\* The value, or TypeError if the code of the expression throws it.
evalConst(e) ==
    IF e.t = "lit" THEN Literal(e)
    ELSE LET l == evalConst(e.k[1])
             r == evalConst(e.k[2])
             Op(op, args) == IF TypeError \in Range(args) \/ Fails(op, args) THEN TypeError ELSE Fold(op, args)
         IN  IF e.t = "delete" THEN True ELSE IF l = TypeError THEN TypeError
             ELSE CASE e.t = "not"    -> IF Truthy(l) THEN False ELSE True
                    [] e.t = "typeof" -> String
                    [] e.t = "void"   -> Undefined
                    [] e.t = "unary"  -> Op(Table[e.x].event, <<l>>)
                    [] e.t = "binary" -> Op(Table[e.x].event, <<l, r>>)
                    [] OTHER          -> IF Decides(e, l) THEN l ELSE r

emitThrow == <<Do("throwConst")>>

emitConst(e, put) ==
    LET v == evalConst(e)
    IN  IF v = TypeError THEN emitThrow ELSE IF put THEN <<loadVal(v)>> ELSE <<>>

emitExpr(e, put) == IF constant(e) THEN emitConst(e, put) ELSE emitGetter(e, put)

-----------------------------------------------------------------------------
(* Identifiers: a var or a lexical binding on the stack, a captured one in *)
(* a stash, a constant, the name of a function expression inside it        *)
(* ("self"), a binding that an eval or a with may hide ("mixed"), or a     *)
(* name that is looked up at run time ("dynamic").                         *)

Static(e) == e.x \notin {"mixed", "dynamic"}

emitGet(e) ==
    Do(CASE e.x = "var"      -> "loadStack"
         [] e.x = "captured" -> "loadStashLex"
         [] e.x = "mixed"    -> "loadMixed"
         [] e.x = "dynamic"  -> "loadDynamic"
         [] OTHER            -> "loadStackLex")

emitSet(e, put) ==
    CASE e.x = "const"    -> <<Do("throwAssignToConst")>>
      [] e.x = "self"     -> <<>>
      [] e.x = "var"      -> If(put, "storeStack")
      [] e.x = "captured" -> If(put, "storeStashLex")
      [] OTHER            -> If(put, "storeStackLex")

identifierGetter(e, put) == IF e.x = "var" /\ ~put THEN <<>> ELSE <<emitGet(e)>> \o Pop(put)

emitGetterOrRef(e) == IF e.x = "dynamic" THEN <<Do("loadDynamicRef")>> ELSE <<emitGet(e)>>

emitGetterAndCallee(e) ==
    CASE e.x = "mixed"   -> <<Do("loadMixedCallee")>>
      [] e.x = "dynamic" -> <<Do("loadDynamicCallee")>>
      [] OTHER           -> <<loadVal(Undefined), emitGet(e)>>

emitVarRef(e) == <<Do(IF e.x = "dynamic" THEN "resolveVar" ELSE "resolveMixed")>>

\* right is the code of the value, with and without a reference below it.
emitVarSetter(e, right, put) ==
    IF Static(e) THEN right[FALSE] \o emitSet(e, put)
    ELSE emitVarRef(e) \o right[TRUE] \o If(put, "putValue")

identifierUnary(e, prepare, body, postfix, put) ==
    LET Get(isRef) == IF isRef THEN <<Do("getValue")>> ELSE identifierGetter(e, TRUE)
        kept == [isRef \in BOOLEAN |->
                    <<loadVal(Undefined)>> \o Get(isRef) \o prepare
                    \o (IF postfix THEN <<>> ELSE body) \o <<Instr("rdupN", 1)>>
                    \o (IF postfix THEN body ELSE <<>>)]
        lost == [isRef \in BOOLEAN |-> Get(isRef) \o body]
    IN  IF put THEN emitVarSetter(e, kept, TRUE) \o <<Do("pop")>> ELSE emitVarSetter(e, lost, FALSE)

identifierDelete(e, put) ==
    IF Static(e) THEN IF put THEN <<loadVal(False)>> ELSE <<>>
    ELSE <<Do("deleteVar")>> \o Pop(put)

-----------------------------------------------------------------------------
(* Members: o.p, o.#p, o[k], super.p and super[k].                         *)

emitLoadThis == <<Do("loadThis")>>
loadSuper == <<loadVal(Super)>>

\* What a member expression leaves on the stack before it is read or written.
memberBase(e) ==
    CASE e.t \in {"dot", "private"} -> emitGetter(e.k[1], TRUE)
      [] e.t = "index"      -> emitGetter(e.k[1], TRUE) \o emitGetter(e.k[2], TRUE)
      [] e.t = "superdot"   -> emitLoadThis \o loadSuper
      [] e.t = "superindex" -> emitLoadThis \o emitGetter(e.k[1], TRUE) \o loadSuper

\* size is how many values that is; then the instructions that read the member, read it
\* as a callee, write it, make a reference to it and delete it.
Member(size, get, callee, set, ref, delete) ==
    [size |-> size, get |-> get, callee |-> callee, set |-> set, ref |-> ref, delete |-> delete]

dotExpr       == Member(1, "getProp", "getPropCallee", "setProp", "getPropRef", "deleteProp")
privateExpr   == Member(1, "getPrivateProp", "getPrivatePropCallee", "setPrivateProp", "getPrivateRef", "none")
bracketExpr   == Member(2, "getElem", "getElemCallee", "setElem", "getElemRef", "deleteElem")
superDotExpr  == Member(2, "getPropRecv", "getPropRecvCallee", "setPropRecv", "getPropRefRecv", "none")
superBracketExpr == Member(3, "getElemRecv", "getElemRecvCallee", "setElemRecv", "getElemRefRecv", "none")

MemberKinds == [dot |-> dotExpr, private |-> privateExpr, index |-> bracketExpr,
                superdot |-> superDotExpr, superindex |-> superBracketExpr]
Members == DOMAIN MemberKinds

memberGetter(e, put) == memberBase(e) \o <<Do(MemberKinds[e.t].get)>> \o Pop(put)

memberSetter(e, right, put) == memberBase(e) \o right \o If(put, MemberKinds[e.t].set)

memberUnary(e, prepare, body, postfix, put) ==
    LET m   == MemberKinds[e.t]
        dup == IF m.size = 1 THEN Do("dup") ELSE Instr("dupLast", m.size)
        get == memberBase(e) \o <<dup, Do(m.get)>>
        lost == IF e.t = "index" THEN <<Do("setElem"), Do("pop")>> ELSE If(FALSE, m.set)
    IN  CASE ~put -> get \o body \o lost
          [] put /\ ~postfix -> get \o prepare \o body \o If(TRUE, m.set)
          [] put /\ postfix ->
                <<loadVal(Undefined)>> \o get \o prepare \o <<Instr("rdupN", m.size + 1)>> \o body \o lost

memberDelete(e, put) ==
    LET delete == MemberKinds[e.t].delete
    IN  IF delete = "none" THEN emitThrow     \* super: a ReferenceError
        ELSE memberBase(e) \o <<Do(delete)>> \o Pop(put)

emitRef(e) == IF e.t = "id" THEN emitVarRef(e) ELSE memberBase(e) \o <<Do(MemberKinds[e.t].ref)>>

emitUnary(e, steps, postfix, put) ==
    IF e.t = "id" THEN identifierUnary(e, steps.prepare, steps.body, postfix, put)
                  ELSE memberUnary(e, steps.prepare, steps.body, postfix, put)

-----------------------------------------------------------------------------
(* Assignment.                                                             *)

\* emitSetter of a target; the value is an expression.
assign(target, right, put) ==
    CASE target.t = "id" -> emitVarSetter(target, [isRef \in BOOLEAN |-> emitExpr(right, TRUE)], put)
      [] target.t \in Members -> memberSetter(target, emitGetter(right, TRUE), put)
      [] OTHER -> emitGetter(right, TRUE) \o emitPattern(target, put)

opAssign(op, target, right, put) ==
    emitUnary(target, [prepare |-> <<>>, body |-> emitGetter(right, TRUE) \o <<Do(op)>>], FALSE, put)

ShortJump(x) == CASE x = "and" -> "jne" [] x = "or" -> "jeq" [] x = "coalesce" -> "jcoalesc"

logicalAssign(e, put) ==
    LET target == e.k[1]
        right  == IF target.t = "id" THEN emitExpr(e.k[2], TRUE) ELSE emitGetter(e.k[2], TRUE)
        body   == right \o If(put, "putValue") \o <<Instr("jump", 2)>>
        op     == IF put THEN ShortJump(e.x) ELSE ShortJump(e.x) \o "P"
    IN  emitRef(target) \o <<Do("getValue"), Instr(op, Len(body) + 1)>> \o body \o <<Do("popRef")>>

increment(e, put) ==
    emitUnary(e.k[1], [prepare |-> <<Do("toNumber")>>, body |-> <<Do("inc")>>], e.x = "postfix", put)

-----------------------------------------------------------------------------
(* Operators and control.                                                  *)

unary(e, put) ==
    LET operand == e.k[1]
    IN  CASE e.t = "not"    -> emitGetter(operand, TRUE) \o <<Do("not")>> \o Pop(put)
          [] e.t = "typeof" -> (IF operand.t = "id" THEN emitGetterOrRef(operand) ELSE emitGetter(operand, TRUE))
                               \o <<Do("typeof")>> \o Pop(put)
          [] e.t = "delete" -> emitDelete(operand, put)
          [] e.t = "void"   -> emitExpr(operand, FALSE) \o (IF put THEN <<loadVal(Undefined)>> ELSE <<>>)
          [] e.t = "unary"  -> emitExpr(operand, TRUE) \o <<Do(e.x)>> \o Pop(put)

conditional(e, put) ==
    LET yes == emitGetter(e.k[2], put)
        no  == emitGetter(e.k[3], put)
    IN  emitGetter(e.k[1], TRUE) \o <<Instr("jneP", Len(yes) + 2)>> \o yes \o <<Instr("jump", Len(no) + 1)>> \o no

logical(e, put) ==
    LET left == e.k[1]
        l    == evalConst(left)
        r    == emitExpr(e.k[2], TRUE)
    IN  IF constant(left)
        THEN IF l = TypeError THEN emitThrow
             ELSE IF Decides(e, l) THEN (IF put THEN <<loadVal(l)>> ELSE <<>>) ELSE emitExpr(e.k[2], put)
        ELSE emitExpr(left, TRUE) \o <<Instr(ShortJump(e.t), Len(r) + 1)>> \o r \o Pop(put)

binary(e, put) == emitExpr(e.k[1], TRUE) \o emitExpr(e.k[2], TRUE) \o <<Do(e.x)>> \o Pop(put)

sequence(e, put) ==
    Concat(Front(e.k), LAMBDA s : emitGetter(s, FALSE)) \o emitGetter(Last(e.k), put)

suspend(e, put) ==
    emitGetter(e.k[1], TRUE)
    \o (IF e.t = "await" THEN <<Do("await")>> \o Pop(put) ELSE <<Do(IF put THEN "yieldRes" ELSE "yield")>>)

-----------------------------------------------------------------------------
(* Object, array and template literals.                                    *)

\* A key is computed unless it is a constant (processKey).
Computed(key) == key.t \notin {"none", "privatename"}

\* A method, getter or setter of an object or class literal.
Definer(p, method, getter, setter) == Do(CASE p.t = "method" -> method [] p.t = "getter" -> getter [] p.t = "setter" -> setter)
method(p) ==
    IF Computed(p.k[1])
    THEN emitGetter(p.k[1], TRUE) \o <<Do("toPropertyKey"), Do("newMethod"), Definer(p, "defineMethod", "defineGetter", "defineSetter")>>
    ELSE <<Do("newMethod"), Definer(p, "defineMethodKeyed", "defineGetterKeyed", "defineSetterKeyed")>>

property(p) ==
    CASE p.t = "prop"     -> emitExpr(p.k[1], TRUE) \o <<Do("putProp")>>
      [] p.t = "proto"    -> emitExpr(p.k[1], TRUE) \o <<Do("setProto")>>
      [] p.t = "computed" -> emitGetter(p.k[1], TRUE) \o <<Do("toPropertyKey")>>
                             \o emitExpr(p.k[2], TRUE) \o <<Do("setElem1")>>
      [] p.t = "spread"   -> emitGetter(p.k[1], TRUE) \o <<Do("copySpread")>>
      [] OTHER            -> method(p)

objectLiteral(e, put) == <<Do("newObject")>> \o Concat(e.k, property) \o Pop(put)

arrayItem(v) ==
    CASE v.t = "spread" -> emitGetter(v.k[1], TRUE) \o <<Do("pushArraySpread")>>
      [] v.t = "hole"   -> <<loadVal(Nil), Do("pushArrayItem")>>
      [] OTHER          -> emitExpr(v, TRUE) \o <<Do("pushArrayItem")>>

arrayLiteral(e, put) == <<Do("newArray")>> \o Concat(e.k, arrayItem) \o Pop(put)

\* x tells whether the strings around the expressions are empty.
templateLiteral(e, put) ==
    LET str    == IF e.x = "text" THEN <<loadVal(String)>> ELSE <<>>
        n      == Len(e.k) + (IF e.x = "text" THEN Len(e.k) + 1 ELSE 0)
        joined == Concat(e.k, LAMBDA x : str \o emitGetter(x, TRUE) \o <<Do("toString")>>) \o str
    IN  (IF e.k = <<>> THEN <<loadVal(String)>> ELSE joined \o <<Instr("concatStrings", n)>>) \o Pop(put)

taggedTemplate(e, put) ==
    emitCallee(e.k[1]) \o <<Do("taggedTmplObject")>>
    \o Concat(Tail(e.k), LAMBDA x : emitGetter(x, TRUE)) \o <<Instr("call", Len(e.k))>> \o Pop(put)

-----------------------------------------------------------------------------
(* Calls.  Inside an optional chain, the instructions that leave it are    *)
(* filled in at its end: "break" after a value, "cont" after a callee,     *)
(* which lies above its this value.                                        *)

argument(a) == IF a.t = "spread" THEN emitGetter(a.k[1], TRUE) \o <<Do("pushSpread")>> ELSE emitGetter(a, TRUE)
isVariadic(args) == \E i \in DOMAIN args : args[i].t = "spread"

endOptChain(code, brk, cont) ==
    [i \in DOMAIN code |->
        CASE code[i].op = "break" -> Instr(brk, Len(code) + 1 - i)
          [] code[i].op = "cont"  -> Instr(cont, Len(code) + 1 - i)
          [] OTHER                -> code[i]]

emitCallee(e) ==
    CASE e.t = "superindex" -> emitLoadThis \o loadSuper \o emitGetter(e.k[1], TRUE) \o <<Do("getElemRecvCallee")>>
      [] e.t \in Members \ {"superindex"} -> memberBase(e) \o <<Do(MemberKinds[e.t].callee)>>
      [] e.t = "id"         -> emitGetterAndCallee(e)
      [] e.t = "chain"      -> endOptChain(emitCallee(e.k[1]), "jopt", "joptc")
      [] e.t = "opt"        -> emitCallee(e.k[1]) \o <<Do("cont")>>
      [] OTHER              -> <<loadVal(Undefined)>> \o emitGetter(e, TRUE)

\* callee is its code, op the instruction that calls.
callWith(callee, args, op, put) ==
    LET values == Concat(args, argument)
    IN  (IF isVariadic(args) THEN <<Do("startVariadic")>> \o callee \o values \o <<Do(op \o "Variadic"), Do("endVariadic")>>
         ELSE callee \o values \o <<Instr(op, Len(args))>>)
        \o Pop(put)

callExpr(e, put) == callWith(emitCallee(e.k[1]), Tail(e.k), "call", put)
newExpr(e, put)  == callWith(emitGetter(e.k[1], TRUE), Tail(e.k), "new", put)

superCallExpr(e, put) ==
    LET values == Concat(e.k, argument)
    IN  (IF isVariadic(e.k)
         THEN <<Do("startVariadic")>> \o values \o <<Do("resolveThis"), Do("superCallVariadic"), Do("endVariadic")>>
         ELSE values \o <<Do("resolveThis"), Instr("superCall", Len(e.k))>>) \o Pop(put)

optionalChain(e, put) == endOptChain(emitGetter(e.k[1], TRUE), "jopt", "joptc") \o Pop(put)
optional(e) == emitGetter(e.k[1], TRUE) \o <<Do("break")>>

emitDelete(e, put) ==
    CASE e.t = "id" -> identifierDelete(e, put)
      [] e.t \in Members -> memberDelete(e, put)
      [] e.t = "chain" ->
            IF put THEN endOptChain(emitDelete(e.k[1], TRUE), "joptdel", "joptdelc")
                   ELSE endOptChain(emitDelete(e.k[1], FALSE), "joptdelP", "joptdelcP")
      [] e.t \in {"call", "new"} -> callExpr(e, FALSE) \o (IF put THEN <<loadVal(True)>> ELSE <<>>)
      [] OTHER -> IF put THEN <<loadVal(True)>> ELSE <<>>

-----------------------------------------------------------------------------
(* Destructuring.  The parts of a pattern are properties (a key and an     *)
(* element, or a shorthand), elements (a target and perhaps a default),    *)
(* holes and a last rest element.                                          *)

patternInit(src, elt) ==
    IF Len(elt.k) = 1 THEN src
    ELSE LET def == emitExpr(elt.k[2], TRUE) IN src \o <<Instr("jdef", Len(def) + 1)>> \o def

\* value is the code that leaves the value to assign.
emitPatternAssign(target, value) ==
    CASE target.t = "id" -> emitVarSetter(target, [isRef \in BOOLEAN |-> value], FALSE)
      [] target.t = "decl" -> value \o <<Do("initStackP")>>      \* a name that is being declared
      [] target.t \in Members -> emitRef(target) \o value \o <<Do("putValueP")>>
      [] OTHER -> value \o emitPattern(target, FALSE)

patternProperty(p) ==
    CASE p.t = "shorthand" -> <<Do("dup")>> \o emitPatternAssign(p.k[1], patternInit(<<Do("getProp")>>, p))
      [] p.t = "keyed" -> <<Do("dup")>> \o emitGetter(p.k[1], TRUE) \o <<Do("toPropertyKey")>>
                          \o emitPatternAssign(p.k[2].k[1], patternInit(<<Do("getKey")>>, p.k[2]))
      [] p.t = "rest" -> emitPatternAssign(p.k[1], <<Do("copyRest")>>) \o <<Do("pop")>>

patternElement(elt) ==
    CASE elt.t = "hole" -> <<Do("iterGetNextOrUndef"), Do("pop")>>
      [] elt.t = "elt"  -> emitPatternAssign(elt.k[1], patternInit(<<Do("iterGetNextOrUndef")>>, elt))
      [] elt.t = "rest" -> emitPatternAssign(elt.k[1], <<Do("newArrayFromIter")>>)

HasRest(k) == k # <<>> /\ Last(k).t = "rest"

emitObjectPattern(e, put) ==
    <<Do(IF HasRest(e.k) THEN "createDestructSrc" ELSE "checkObjectCoercible")>>
    \o Concat(e.k, patternProperty) \o Pop(put)

emitArrayPattern(e, put) ==
    <<Do("iterate")>> \o Concat(e.k, patternElement)
    \o (IF HasRest(e.k) THEN <<>> ELSE <<Do("enumPopClose")>>) \o Pop(put)

emitPattern(e, put) == IF e.t = "objpat" THEN emitObjectPattern(e, put) ELSE emitArrayPattern(e, put)

-----------------------------------------------------------------------------
(* Classes.  The parts are the superclass or none, then the elements: x    *)
(* tells whether one is static; the first part of a field or method is its *)
(* key, the second the initializer of a field.  proto tells whether a copy *)
(* of the prototype is on top of the stack (curIsPrototype).               *)

IsStatic(m)  == m.x = "static"
IsPrivate(m) == m.t # "block" /\ m.k[1].t = "privatename"
IsField(m)   == m.t \in {"field", "block"}
HasStatics(elements) == \E i \in DOMAIN elements :
                            IsStatic(elements[i]) /\ (IsField(elements[i]) \/ IsPrivate(elements[i]))

fieldElement(acc, m) ==
    LET offset == (IF IsStatic(m) THEN 4 ELSE 2) + (IF acc.proto THEN 1 ELSE 0)
    IN  IF m.t = "field" /\ Computed(m.k[1])
        THEN [acc EXCEPT !.code = @ \o emitGetter(m.k[1], TRUE) \o <<Instr("defineComputedKey", offset)>>]
        ELSE acc

methodElement(acc, m) ==
    LET target == CASE IsStatic(m) /\ acc.proto   -> <<Do("pop")>>
                    [] ~IsStatic(m) /\ ~acc.proto -> <<Instr("dupN", 1)>>
                    [] OTHER                      -> <<>>
        define == IF IsPrivate(m) THEN <<Do("newMethod"), Instr("definePrivateMethod", IF IsStatic(m) THEN 4 ELSE 3)>>
                                  ELSE method(m)
    IN  [code |-> acc.code \o target \o define, proto |-> ~IsStatic(m)]

When(b, op) == IF b THEN <<Do(op)>> ELSE <<>>
InScope(named, op) == IF named THEN <<[Do(op) EXCEPT !.v = True]>> ELSE <<>>   \* that of the name of the class

\* A mutant: the private environment of the class stays open.
classEndKeepsEnv(named, statics, private, put) ==
    When(named, "initStash") \o <<Do(IF statics THEN "initStaticElements" ELSE "endVariadic")>> \o Pop(put)
    \o InScope(named, "leaveBlock")

\* The prototype, and the initializer of the static fields if there is one, are dropped.
classEnd(named, statics, private, put) ==
    When(named, "initStash") \o <<Do(IF statics THEN "initStaticElements" ELSE "endVariadic")>> \o Pop(put)
    \o InScope(named, "leaveBlock") \o When(private, "popPrivateEnv")

classLiteral(e, put) ==
    LET elements == Tail(e.k)
        heritage == Head(e.k)
        statics  == HasStatics(elements)
        private  == \E i \in DOMAIN elements : IsPrivate(elements[i])
        named    == e.x = "named"
        Flagged(op) == [Do(op) EXCEPT !.v = IF private THEN True ELSE Nil]
        body     == FoldLeft(LAMBDA acc, m : IF IsField(m) THEN fieldElement(acc, m) ELSE methodElement(acc, m),
                             [code |-> <<>>, proto |-> FALSE], elements)
    IN  (IF named THEN InScope(TRUE, "enterBlock") ELSE <<Instr("jump", 1)>>)
        \o When(statics, "newStaticFieldInit")
        \o (IF heritage.t = "none" THEN <<Flagged("newClass")>> ELSE emitGetter(heritage, TRUE) \o <<Flagged("newDerivedClass")>>)
        \o body.code \o When(body.proto, "pop") \o classEnd(named, statics, private, put)

\* The code that initializes the fields of an object, which is on top of the stack.
compileFieldsAndStaticBlocks(elements) ==
    LET field(m, n) ==
            LET key  == m.k[1]
                init == IF Len(m.k) = 2 THEN emitExpr(m.k[2], TRUE) ELSE <<loadVal(Undefined)>>
            IN  CASE m.t = "block" -> <<Do("dup"), Do("newMethod"), Instr("call", 0), Do("pop")>>
                  [] m.t = "field" /\ IsPrivate(m)  -> init \o <<Do("definePrivateProp")>>
                  [] m.t = "field" /\ Computed(key) -> <<Instr("loadComputedKey", n)>> \o init \o <<Do("defineProp")>>
                  [] OTHER -> init \o <<Do("definePropKeyed")>>
        KeysBefore(i) == Cardinality({j \in 1..(i - 1) : elements[j].t = "field" /\ Computed(elements[j].k[1])})
    IN  FlattenSeq([i \in DOMAIN elements |-> field(elements[i], KeysBefore(i))])

-----------------------------------------------------------------------------
(* The parameters of a function that have patterns or initializers.  A     *)
(* part is a target and perhaps its default; x of a reference to one is    *)
(* its number.  fwd is the first parameter that some initializer uses      *)
(* before it is initialized (firstForwardRef), 0 if there is none.         *)

RECURSIVE Mentions(_, _)
Mentions(e, n) == \/ e.t = "param" /\ e.x = n
                  \/ e.t # "param" /\ \E i \in DOMAIN e.k : Mentions(e.k[i], n)

compileParameters(items) ==
    LET rest == items # <<>> /\ Last(items).t = "rest"
        n == IF rest THEN Len(items) - 1 ELSE Len(items)
        Used(i) == \E j \in 1..i : Len(items[j].k) = 2 /\ Mentions(items[j].k[2], i)
        Arg1(fwd, i) == <<Instr(IF fwd = 0 THEN "loadParam" ELSE "loadArg", i)>>
        Next1(acc, i) ==
            LET item  == items[i]
                fwd   == IF acc.fwd = 0 /\ Used(i) THEN i ELSE acc.fwd
                def   == emitExpr(item.k[2], TRUE) \o <<Instr("initParam", i)>>
                plain == IF fwd = 0 THEN <<>> ELSE <<Instr("loadArg", i), Instr("initParam", i)>>
            IN  IF item.k[1].t \in {"objpat", "arrpat"}
                THEN [acc EXCEPT !.code = @ \o patternInit(Arg1(acc.fwd, i), item) \o emitPattern(item.k[1], FALSE)]
                ELSE [fwd  |-> fwd,
                      code |-> acc.code \o (IF Len(item.k) = 2 THEN Arg1(fwd, i) \o <<Instr("jdefP", Len(def) + 1)>> \o def ELSE plain)]
        all   == FoldLeft(Next1, [code |-> <<>>, fwd |-> 0], [i \in 1..n |-> i])
        Enter1(op, copied) == [Instr(op, copied) EXCEPT !.m = n]
    IN  (IF all.fwd = 0 THEN <<Enter1("enterFunc", n)>> ELSE <<Enter1("enterFunc1", all.fwd - 1)>>)
        \o all.code
        \o (IF rest THEN emitPatternAssign(Last(items).k[1], <<Do("createArgsRest")>>) ELSE <<>>)
        \o <<Instr("enterFuncBody", IF all.fwd = 0 THEN 0 ELSE n)>>

-----------------------------------------------------------------------------

emitGetter(e, put) ==
    CASE e.t = "lit"        -> IF put THEN <<loadVal(Literal(e))>> ELSE <<>>
      [] e.t = "id"         -> identifierGetter(e, put)
      [] e.t = "this"       -> emitLoadThis \o Pop(put)
      [] e.t \in Members    -> memberGetter(e, put)
      [] e.t = "assign"     -> assign(e.k[1], e.k[2], put)
      [] e.t = "opassign"   -> opAssign(e.x, e.k[1], e.k[2], put)
      [] e.t = "logassign"  -> logicalAssign(e, put)
      [] e.t = "increment"  -> increment(e, put)
      [] e.t \in {"not", "typeof", "delete", "void", "unary"} -> unary(e, put)
      [] e.t = "conditional" -> conditional(e, put)
      [] e.t \in {"or", "and", "coalesce"} -> logical(e, put)
      [] e.t = "binary"     -> binary(e, put)
      [] e.t = "privatein"  -> emitGetter(e.k[1], TRUE) \o <<Do("privateIn")>> \o Pop(put)
      [] e.t = "sequence"   -> sequence(e, put)
      [] e.t \in {"await", "yield"} -> suspend(e, put)
      [] e.t = "object"     -> objectLiteral(e, put)
      [] e.t = "array"      -> arrayLiteral(e, put)
      [] e.t = "template"   -> templateLiteral(e, put)
      [] e.t = "tagged"     -> taggedTemplate(e, put)
      [] e.t = "function"   -> <<Do("newFunc")>> \o Pop(put)
      [] e.t = "class"      -> classLiteral(e, put)
      [] e.t = "param"      -> <<Instr("loadParam", e.x)>> \o Pop(put)
      [] e.t = "call"       -> callExpr(e, put)
      [] e.t = "new"        -> newExpr(e, put)
      [] e.t = "supercall"  -> superCallExpr(e, put)
      [] e.t = "chain"      -> optionalChain(e, put)
      [] e.t = "opt"        -> optional(e)
      [] e.t = "enumget"    -> <<Do("enumGet")>>
=============================================================================
