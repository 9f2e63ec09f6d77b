------------------------------ MODULE Bytecode ------------------------------
(***************************************************************************)
(* The instructions of vm.go that compiled expressions and statements are  *)
(* made of, and the virtual machine that runs them.                        *)
(*                                                                         *)
(* What a script can observe is a sequence of events: reads and writes of  *)
(* variables and properties, calls, operators on operands that are not     *)
(* constants, steps of iterators.  An event may throw; its result is a     *)
(* value of which nothing is known until the code tests it, and kinds      *)
(* records what the tests found.  Strict and sloppy variants of an         *)
(* instruction move the same values and are one instruction here.          *)
(***************************************************************************)
EXTENDS Integers, Sequences, SequencesExt, FiniteSetsExt, TLC

CONSTANTS Programs,  \* families of programs: records with the code and what it was compiled from
          Meaning(_, _, _),  \* what the language says a program does, given its events and kinds
          MaxEvents  \* bounds the length of a run

VARIABLES prog,    \* which program runs
          pc, stack, refs, iters, tries,
          stash, priv,  \* how many stashes and private environments are open
          params,  \* the parameters of a function, Nil until they are initialized
          result,  \* vm.result
          out,     \* what is thrown or returned
          trace, kinds,
          status   \* "run", "throw" (handleThrow), or how the program ended

vars == <<prog, pc, stack, refs, iters, tries, stash, priv, params, result, out, trace, kinds, status>>

\* What few instructions change.
Frames == <<tries, stash, priv, params, result>>

-----------------------------------------------------------------------------
(* Values: constants, the results of events (j tells the values of one     *)
(* spread apart), the value of a var after so many assignments, arguments  *)
(* and computed keys, and the marker of a call with spread arguments.      *)

Const(c) == [k |-> c, i |-> 0, j |-> 0]
Of(n)    == [k |-> "event", i |-> n, j |-> 0]
Var(n)   == [k |-> "var", i |-> n, j |-> 0]
Arg(n)   == [k |-> "arg", i |-> n, j |-> 0]
Key(n)   == [k |-> "key", i |-> n, j |-> 0]

Undefined == Const("undefined")
Null      == Const("null")
True      == Const("true")
False     == Const("false")
Num       == Const("number")
BigInt    == Const("bigint")
TypeError == Const("TypeError")
ReferenceError == Const("ReferenceError")
Nil       == Const("nil")
Marker    == Const("marker")

Super     == Const("super")
String    == Const("string")
StaticInit == Const("static")   \* the function that initializes the static fields

Constants == {Undefined, Null, True, False, Num, BigInt, String}

Kinds == {"undefined", "null", "falsy", "truthy"}

KindOf(v) == CASE v.k \in {"undefined", "null"} -> v.k
               [] v.k = "false"                 -> "falsy"
               [] OTHER                         -> "truthy"

\* What the results of some events can be at all.
Operators == {"add", "arith", "bits", "shr", "less", "eq", "stricteq", "in"}
Outcomes(v, events) == CASE v.k # "event" -> Kinds
                 [] events[v.i].event = "new" -> {"truthy"}
                 [] events[v.i].event \in Operators \union {"unary", "plus", "tonumber", "delete"} -> {"falsy", "truthy"}
                 [] OTHER -> Kinds

Unknown     == {"event", "var", "arg"}
PossibleIn(v, events, found) == CASE v.k \notin Unknown -> {KindOf(v)}
                                  [] v \in DOMAIN found -> {found[v]}
                                  [] OTHER -> Outcomes(v, events)
Possible(v) == PossibleIn(v, trace, kinds)

Learn(v, kind) == kinds' = IF v.k \in Unknown THEN (v :> kind) @@ kinds ELSE kinds

\* An operator applied to constants runs no code of the script: whether it throws a
\* TypeError, and otherwise its value.
NumberOf(v) == CASE v \in {Null, False} -> 0 [] v \in {True, Num, BigInt} -> 1 [] OTHER -> 2   \* 2: NaN
LooselyEqual(l, r) == \/ l = r
                      \/ {l, r} = {Undefined, Null}
                      \/ {l, r} \subseteq {True, False, Num, BigInt} /\ NumberOf(l) = NumberOf(r)
Truth(b) == IF b THEN True ELSE False
Fails(op, args) ==
    \/ op = "add" /\ String \notin Range(args) /\ (args[1] = BigInt) # (args[2] = BigInt)
    \/ op \in {"arith", "bits"} /\ (args[1] = BigInt) # (args[2] = BigInt)
    \/ op \in {"plus", "shr"} /\ BigInt \in Range(args)
    \/ op = "in"
Fold(op, args) ==
    CASE op = "add" /\ String \in Range(args) -> String
      [] op = "less"     -> Truth(2 \notin {NumberOf(args[1]), NumberOf(args[2])} /\ NumberOf(args[1]) < NumberOf(args[2]))
      [] op = "eq"       -> Truth(LooselyEqual(args[1], args[2]))
      [] op = "stricteq" -> Truth(args[1] = args[2])
      [] OTHER           -> IF BigInt \in Range(args) THEN BigInt ELSE Num
Folds(op, args) == op \in Operators \union {"unary", "plus"} /\ Range(args) \subseteq Constants

-----------------------------------------------------------------------------
(* Instructions.                                                           *)

\* n is a count or the offset of a jump; a try instruction has two offsets, of its
\* catch block in n and of its finally block in m, 0 where there is none.
Instr(op, n) == [op |-> op, n |-> n, m |-> 0, v |-> Nil]
Do(op)       == Instr(op, 0)
loadVal(v)   == [Do("loadVal") EXCEPT !.v = v]

\* How an instruction that is one event moves values: it takes the last take
\* values, of which it puts the first keep back, then what put says: the result,
\* the last of the values it took, or nothing.
Moves(event, take, keep, put) == [event |-> event, take |-> take, keep |-> keep, put |-> put]

GetInstrs ==
    [getProp           |-> Moves("get", 1, 0, "result"),
     getPropRecv       |-> Moves("superget", 2, 0, "result"),
     getPropCallee     |-> Moves("get", 1, 1, "result"),
     getPropRecvCallee |-> Moves("superget", 2, 1, "result"),
     getElem           |-> Moves("get", 2, 0, "result")]

GetElemInstrs ==
    [getElemRecv       |-> Moves("superget", 3, 0, "result"),
     getKey            |-> Moves("get", 2, 0, "result"),
     getElemCallee     |-> Moves("get", 2, 1, "result"),
     getElemRecvCallee |-> Moves("superget", 3, 1, "result")]

SetPropInstrs ==
    [setProp      |-> Moves("set", 2, 0, "last"),
     setPropP     |-> Moves("set", 2, 0, "none"),
     setPropRecv  |-> Moves("superset", 3, 0, "last"),
     setPropRecvP |-> Moves("superset", 3, 0, "none"),
     putProp      |-> Moves("define", 2, 1, "none")]

SetElemInstrs ==
    [setElem      |-> Moves("set", 3, 0, "last"),
     setElemP     |-> Moves("set", 3, 0, "none"),
     setElemRecv  |-> Moves("superset", 4, 0, "last"),
     setElemRecvP |-> Moves("superset", 4, 0, "none"),
     setElem1     |-> Moves("define", 3, 1, "none")]

DeleteInstrs ==
    [deleteProp |-> Moves("delete", 1, 0, "result"),
     deleteElem |-> Moves("delete", 2, 0, "result"),
     deleteVar  |-> Moves("deletevar", 0, 0, "result")]

PrivateGetInstrs ==
    [getPrivateProp       |-> Moves("getprivate", 1, 0, "result"),
     getPrivatePropCallee |-> Moves("getprivate", 1, 1, "result")]

PrivateSetInstrs ==
    [setPrivateProp       |-> Moves("setprivate", 2, 0, "last"),
     setPrivatePropP      |-> Moves("setprivate", 2, 0, "none")]

PrivateInInstrs == [privateIn |-> Moves("privatein", 1, 0, "result")]
PrivateInstrs   == PrivateGetInstrs @@ PrivateSetInstrs @@ PrivateInInstrs

AdditiveInstrs ==
    [add |-> Moves("add", 2, 0, "result"),
     sub |-> Moves("arith", 2, 0, "result")]

MultiplicativeInstrs ==
    [mul |-> Moves("arith", 2, 0, "result"),
     exp |-> Moves("arith", 2, 0, "result")]

DivisionInstrs ==
    [div |-> Moves("arith", 2, 0, "result"),
     mod |-> Moves("arith", 2, 0, "result")]

UnaryInstrs ==
    [neg      |-> Moves("unary", 1, 0, "result"),
     plus     |-> Moves("plus", 1, 0, "result"),
     toNumber |-> Moves("tonumber", 1, 0, "result")]

BitInstrs ==
    [and  |-> Moves("bits", 2, 0, "result"),
     or   |-> Moves("bits", 2, 0, "result"),
     xor  |-> Moves("bits", 2, 0, "result"),
     bnot |-> Moves("unary", 1, 0, "result")]

ShiftInstrs ==
    [sal |-> Moves("bits", 2, 0, "result"),
     sar |-> Moves("bits", 2, 0, "result"),
     shr |-> Moves("shr", 2, 0, "result")]

CompareInstrs ==
    [op_lt  |-> Moves("less", 2, 0, "result"),
     op_lte |-> Moves("less", 2, 0, "result"),
     op_gt  |-> Moves("less", 2, 0, "result"),
     op_gte |-> Moves("less", 2, 0, "result")]

EqualsInstrs ==
    [op_eq         |-> Moves("eq", 2, 0, "result"),
     op_neq        |-> Moves("eq", 2, 0, "result"),
     op_strict_eq  |-> Moves("stricteq", 2, 0, "result"),
     op_strict_neq |-> Moves("stricteq", 2, 0, "result")]

InInstrs ==
    [op_instanceof |-> Moves("in", 2, 0, "result"),
     op_in         |-> Moves("in", 2, 0, "result")]

OperatorInstrs == AdditiveInstrs @@ MultiplicativeInstrs @@ DivisionInstrs @@ UnaryInstrs @@ BitInstrs
                  @@ ShiftInstrs @@ CompareInstrs @@ EqualsInstrs @@ InInstrs

ConversionInstrs ==
    [toPropertyKey        |-> Moves("tokey", 1, 0, "result"),
     toString             |-> Moves("tostring", 1, 0, "result"),
     checkObjectCoercible |-> Moves("coercible", 1, 1, "none"),
     createDestructSrc    |-> Moves("coercible", 1, 1, "result"),
     copyRest             |-> Moves("copyrest", 1, 1, "result"),
     copySpread           |-> Moves("copyspread", 2, 1, "none"),
     setProto             |-> Moves("setproto", 2, 1, "none"),
     checkObjectP         |-> Moves("isobject", 1, 0, "none")]

\* Variables: stack slots, where only a lexical one can be uninitialized, stash slots,
\* and names looked up at run time, of which a mixed one may be a static binding.
StackInstrs ==
    [loadStackLex   |-> Moves("load", 0, 0, "result"),
     storeStack     |-> Moves("setvar", 1, 0, "last"),
     storeStackP    |-> Moves("setvar", 1, 0, "none"),
     storeStackLex  |-> Moves("store", 1, 0, "last"),
     storeStackLexP |-> Moves("store", 1, 0, "none"),
     initStackP     |-> Moves("init", 1, 0, "none")]

StashInstrs ==
    [storeStashLex  |-> Moves("store", 1, 0, "last"),
     storeStashLexP |-> Moves("store", 1, 0, "none"),
     initStash      |-> Moves("init", 1, 0, "last")]

StashLoads == [loadStashLex |-> Moves("load", 0, 0, "result")]

MixedInstrs   == [loadMixed |-> Moves("lookup", 0, 0, "result")]
DynamicInstrs == [loadDynamic    |-> Moves("lookup", 0, 0, "result"),
                  loadDynamicRef |-> Moves("lookuptype", 0, 0, "result")]
ThisInstrs    == [loadThis |-> Moves("this", 0, 0, "result")]

VariableInstrs == StackInstrs @@ StashInstrs @@ StashLoads @@ MixedInstrs @@ DynamicInstrs @@ ThisInstrs

\* Methods, accessors and fields of object and class literals; one with a computed key
\* may be refused.
MethodInstrs ==
    [defineMethod      |-> Moves("method", 3, 1, "none"),
     defineMethodKeyed |-> Moves("define", 2, 1, "none")]

AccessorInstrs ==
    [defineGetterKeyed |-> Moves("define", 2, 1, "none"),
     defineSetterKeyed |-> Moves("define", 2, 1, "none"),
     defineGetter      |-> Moves("getter", 3, 1, "none"),
     defineSetter      |-> Moves("setter", 3, 1, "none")]

FieldInstrs ==
    [definePropKeyed   |-> Moves("field", 2, 1, "none"),
     defineProp        |-> Moves("field", 3, 1, "none"),
     definePrivateProp |-> Moves("privatefield", 2, 1, "none")]

NewInstrs ==
    [newObject        |-> Moves("new", 0, 0, "result"),
     newArray         |-> Moves("new", 0, 0, "result"),
     pushArrayItem    |-> Moves("push", 2, 1, "none"),
     pushArraySpread  |-> Moves("pushall", 2, 1, "none")]

FunctionInstrs ==
    [newFunc   |-> Moves("new", 0, 0, "result"),
     newMethod |-> Moves("new", 0, 0, "result")]

RestInstrs     == [createArgsRest |-> Moves("new", 0, 0, "result")]
TemplateInstrs == [taggedTmplObject |-> Moves("new", 0, 0, "result")]

SuspendInstrs ==
    [await    |-> Moves("await", 1, 0, "result"),
     yieldRes |-> Moves("yield", 1, 0, "result"),
     yield    |-> Moves("yield", 1, 0, "none")]

Table == GetInstrs @@ GetElemInstrs @@ SetPropInstrs @@ SetElemInstrs @@ DeleteInstrs
         @@ PrivateInstrs @@ OperatorInstrs @@ ConversionInstrs @@ VariableInstrs @@ NewInstrs
         @@ FunctionInstrs @@ RestInstrs @@ TemplateInstrs @@ SuspendInstrs
         @@ MethodInstrs @@ AccessorInstrs @@ FieldInstrs

\* No code of the script runs in these, and they do not fail.
Silent == {"new", "define", "push", "stricteq", "concat", "setvar", "private", "class"}

-----------------------------------------------------------------------------
(* The machine.  Below the values of the program are those of its caller.  *)

Callers == <<Const("caller1"), Const("caller2"), Const("caller3"), Const("caller4")>>

\* The frame of vm.try in runTryInner: what is thrown ends the program.
GoFrame == [sp |-> Len(Callers), refs |-> 0, iters |-> 0, stash |-> 0, priv |-> 0,
            catch |-> 0, finally |-> 0, ret |-> 0, ex |-> Nil, go |-> TRUE]

Init ==
    /\ \E family \in Programs : prog \in family
    /\ pc = 1 /\ stack = Callers /\ refs = <<>> /\ iters = <<>> /\ tries = <<GoFrame>>
    /\ stash = 0 /\ priv = 0 /\ params = <<>> /\ result = Undefined /\ out = Nil
    /\ trace = <<>> /\ kinds = <<>> /\ status = "run"

Code    == prog.code
Running == status = "run" /\ pc <= Len(Code)
In  == Code[pc]
Is(ops) == Running /\ In.op \in ops

Top     == stack[Len(stack)]
Tail_(s, n) == SubSeq(s, Len(s) - n + 1, Len(s))
Cut(s, n)   == SubSeq(s, 1, Len(s) - n)
Jump(n) == pc' = pc + n
Next_   == Jump(1)
Raise(v) == status' = "throw" /\ out' = v /\ pc' = pc
Nullish(kind) == kind \in {"undefined", "null"}

\* The object super properties are looked up in is no operand a script can tell.
Event(event, args, how, n) ==
    /\ Len(trace) < MaxEvents
    /\ trace' = Append(trace, [event |-> event, how |-> how, n |-> n,
                               args |-> SelectSeq(args, LAMBDA v : v # Super)])
New == Of(Len(trace) + 1)

Quiet == UNCHANGED <<prog, trace, kinds, status, out>>
Rest  == UNCHANGED <<prog, kinds>>

\* An event that ends normally, after which the machine goes on as Then says, or throws.
Happens(event, args, Then) ==
    \/ Event(event, args, "ok", 0) /\ UNCHANGED <<status, out>> /\ Then /\ Next_
    \/ event \notin Silent /\ Event(event, args, "throw", 0) /\ Raise(New) /\ UNCHANGED <<stack, refs, iters>>

Effect ==
    /\ Is(DOMAIN Table)
    /\ LET m    == Table[In.op]
           args == Tail_(stack, m.take)
           left == Cut(stack, m.take - m.keep)
       IN  IF Folds(m.event, args)
           THEN /\ IF Fails(m.event, args) THEN Raise(TypeError) /\ stack' = stack
                   ELSE stack' = Append(left, Fold(m.event, args)) /\ Next_ /\ UNCHANGED <<status, out>>
                /\ UNCHANGED <<trace, refs, iters>>
           ELSE Happens(m.event, args,
                    /\ stack' = left \o (CASE m.put = "result" -> <<New>>
                                          [] m.put = "last"   -> <<Top>>
                                          [] m.put = "none"   -> <<>>)
                    /\ UNCHANGED <<refs, iters>>)
    /\ Rest /\ UNCHANGED Frames

\* Adds one to a number; another value is converted first.
Numeric(v) == v.k = "event" /\ v.j = 0 /\ trace[v.i].event = "tonumber"
inc ==
    /\ Is({"inc"})
    /\ \/ /\ Numeric(Top) /\ stack' = Append(Cut(stack, 1), [Top EXCEPT !.j = 1])
          /\ Next_ /\ UNCHANGED <<trace, status, out, refs, iters>>
       \/ /\ ~Numeric(Top)
          /\ Happens("tonumber", <<Top>>, /\ stack' = Append(Cut(stack, 1), [New EXCEPT !.j = 1])
                                         /\ UNCHANGED <<refs, iters>>)
    /\ Rest /\ UNCHANGED Frames

VariadicArgs == Len(stack) - Max({i \in DOMAIN stack : stack[i] = Marker})

\* The callee and its this value lie below the arguments.
call ==
    /\ Is({"call", "callVariadic"})
    /\ LET n == IF In.op = "call" THEN In.n + 2 ELSE VariadicArgs
       IN  Happens("call", Tail_(stack, n), stack' = Append(Cut(stack, n), New) /\ UNCHANGED <<refs, iters>>)
    /\ Rest /\ UNCHANGED Frames

\* A call of super takes the reference to this that it initializes.
construct ==
    /\ Is({"new", "superCall", "newVariadic", "superCallVariadic"})
    /\ LET super == In.op \in {"superCall", "superCallVariadic"}
           n == CASE In.op = "new"       -> In.n + 1
                  [] In.op = "superCall" -> In.n
                  [] OTHER               -> VariadicArgs
       IN  Happens(IF super THEN "supercall" ELSE "construct", Tail_(stack, n),
                   /\ stack' = Append(Cut(stack, n), New)
                   /\ refs' = IF super THEN Cut(refs, 1) ELSE refs
                   /\ UNCHANGED iters)
    /\ Rest /\ UNCHANGED Frames

concatStrings ==
    /\ Is({"concatStrings"})
    /\ Happens("concat", Tail_(stack, In.n), stack' = Append(Cut(stack, In.n), New) /\ UNCHANGED <<refs, iters>>)
    /\ Rest /\ UNCHANGED Frames

loadDynamicCallee ==
    /\ Is({"loadDynamicCallee", "loadMixedCallee"})
    /\ Happens("lookup", <<>>, stack' = stack \o <<[New EXCEPT !.j = 1], New>> /\ UNCHANGED <<refs, iters>>)
    /\ Rest /\ UNCHANGED Frames

SpreadSizes == {0, 2}
pushSpread ==
    /\ Is({"pushSpread"})
    /\ \/ \E n \in SpreadSizes :
            /\ Event("spread", <<Top>>, "ok", n)
            /\ stack' = Cut(stack, 1) \o [i \in 1..n |-> [New EXCEPT !.j = i]]
            /\ Next_ /\ UNCHANGED <<status, out>>
       \/ Event("spread", <<Top>>, "throw", 0) /\ Raise(New) /\ UNCHANGED stack
    /\ Rest /\ UNCHANGED <<refs, iters, Frames>>

\* Moves of values that no script sees.
Shuffle ==
    /\ Is({"loadVal", "loadStack", "loadComputedKey", "dup", "pop", "dupLast", "rdupN", "dupN", "loadSlot", "typeof",
           "startVariadic", "endVariadic"})
    /\ stack' = CASE In.op = "loadVal" -> Append(stack, In.v)
                  [] In.op = "loadStack" -> Append(stack, Var(Len(SelectSeq(trace, LAMBDA t : t.event = "setvar"))))
                  [] In.op = "loadComputedKey" -> Append(stack, Key(In.n))
                  [] In.op = "dup"     -> Append(stack, Top)
                  [] In.op = "pop"     -> Cut(stack, 1)
                  [] In.op = "dupLast" -> stack \o Tail_(stack, In.n)
                  [] In.op = "rdupN"   -> [stack EXCEPT ![Len(stack) - In.n] = Top]
                  [] In.op \in {"dupN", "loadSlot"} -> Append(stack, stack[Len(stack) - In.n])
                  [] In.op = "typeof"    -> Append(Cut(stack, 1), String)
                  [] In.op = "startVariadic" -> Append(stack, Marker)
                  [] In.op = "endVariadic"   -> Append(Cut(stack, 2), Top)
    /\ Next_ /\ Quiet /\ UNCHANGED <<refs, iters, Frames>>

Result ==
    /\ Is({"saveResult", "loadResult", "clearResult"})
    /\ stack' = CASE In.op = "saveResult" -> Cut(stack, 1)
                  [] In.op = "loadResult" -> Append(stack, result)
                  [] OTHER -> stack
    /\ result' = CASE In.op = "saveResult" -> Top [] In.op = "clearResult" -> Undefined [] OTHER -> result
    /\ Next_ /\ Quiet /\ UNCHANGED <<refs, iters, tries, stash, priv, params>>

-----------------------------------------------------------------------------
(* Jumps.  A conditional jump looks at the last value: for the kinds in on *)
(* it drops so many values, puts some and jumps; otherwise it drops stay   *)
(* values and goes on.                                                     *)

Test(on, drop, put, stay) == [on |-> on, drop |-> drop, put |-> put, stay |-> stay]

NotTrue    == {"undefined", "null", "falsy"}
IsTrue     == {"truthy"}
IsNullish  == {"undefined", "null"}
NotNullish == {"falsy", "truthy"}

JumpInstrs ==
    [jneP      |-> Test(NotTrue, 1, <<>>, 1),
     jeqP      |-> Test(IsTrue, 1, <<>>, 1),
     jeq       |-> Test(IsTrue, 0, <<>>, 1),
     jne       |-> Test(NotTrue, 0, <<>>, 1),
     jdef      |-> Test(Kinds \ {"undefined"}, 0, <<>>, 1),
     jdefP     |-> Test(Kinds \ {"undefined"}, 1, <<>>, 1),
     jcoalesc  |-> Test(NotNullish, 0, <<>>, 1),
     jcoalescP |-> Test(NotNullish, 1, <<>>, 1)]

OptionalInstrs ==
    [jopt      |-> Test(IsNullish, 1, <<Undefined>>, 0),
     joptc     |-> Test(IsNullish, 2, <<Undefined>>, 0),
     joptdel   |-> Test(IsNullish, 1, <<True>>, 0),
     joptdelc  |-> Test(IsNullish, 2, <<True>>, 0),
     joptdelP  |-> Test(IsNullish, 1, <<>>, 0),
     joptdelcP |-> Test(IsNullish, 2, <<>>, 0)]

jump == Is({"jump"}) /\ Jump(In.n) /\ Quiet /\ UNCHANGED <<stack, refs, iters, Frames>>

Branch ==
    /\ Is(DOMAIN JumpInstrs \union DOMAIN OptionalInstrs)
    /\ LET t == (JumpInstrs @@ OptionalInstrs)[In.op]
       IN  \E kind \in Possible(Top) :
             /\ Learn(Top, kind)
             /\ IF kind \in t.on THEN Jump(In.n) /\ stack' = Cut(stack, t.drop) \o t.put
                ELSE Next_ /\ stack' = Cut(stack, t.stay)
    /\ UNCHANGED <<prog, trace, status, out, refs, iters, Frames>>

not ==
    /\ Is({"not"})
    /\ \E kind \in Possible(Top) :
         /\ Learn(Top, kind)
         /\ stack' = Append(Cut(stack, 1), IF kind \in IsTrue THEN False ELSE True)
    /\ Next_ /\ UNCHANGED <<prog, trace, status, out, refs, iters, Frames>>

-----------------------------------------------------------------------------
(* References: a property of an object, a private one, a variable.         *)

Ref(get, set, args) == [get |-> get, set |-> set, args |-> args]

\* The base of a property reference is converted to an object at once.  It is the
\* last of n values, or the one before the key.
Base == IF In.op = "getElemRef" THEN stack[Len(stack) - 1] ELSE Top
RefValues == CASE In.op \in {"getPropRef", "getPrivateRef"} -> 1
               [] In.op \in {"getPropRefRecv", "getElemRef"} -> 2
               [] In.op = "getElemRefRecv" -> 3
PropRef ==
    /\ Is({"getPropRef", "getPrivateRef", "getPropRefRecv", "getElemRef", "getElemRefRecv"})
    /\ \E kind \in Possible(Base) :
         /\ Learn(Base, kind)
         /\ IF Nullish(kind) THEN Raise(TypeError) /\ UNCHANGED <<stack, refs>>
            ELSE /\ refs' = Append(refs, IF In.op = "getPrivateRef"
                                         THEN Ref("getprivate", "setprivate", Tail_(stack, 1))
                                         ELSE IF In.op \in {"getPropRefRecv", "getElemRefRecv"}
                                         THEN Ref("superget", "superset", Tail_(stack, RefValues))
                                         ELSE Ref("get", "set", Tail_(stack, RefValues)))
                 /\ stack' = Cut(stack, RefValues)
                 /\ Next_ /\ UNCHANGED <<status, out>>
    /\ UNCHANGED <<prog, trace, iters, Frames>>

Resolve == Happens("resolve", <<>>, refs' = Append(refs, Ref("getref", "putref", <<New>>)) /\ UNCHANGED <<stack, iters>>)

resolveVar   == Is({"resolveVar"}) /\ Resolve /\ Rest /\ UNCHANGED Frames
resolveMixed == Is({"resolveMixed"}) /\ Resolve /\ Rest /\ UNCHANGED Frames

resolveThis ==
    /\ Is({"resolveThis"})
    /\ refs' = Append(refs, Ref("getthis", "setthis", <<>>))
    /\ Next_ /\ Quiet /\ UNCHANGED <<stack, iters, Frames>>

getValue ==
    /\ Is({"getValue"})
    /\ LET r == refs[Len(refs)]
       IN  Happens(r.get, r.args, stack' = Append(stack, New) /\ UNCHANGED <<refs, iters>>)
    /\ Rest /\ UNCHANGED Frames

putValue ==
    /\ Is({"putValue", "putValueP", "initValueP"})
    /\ LET r == refs[Len(refs)]
       IN  Happens(r.set, Append(r.args, Top),
                   /\ refs' = Cut(refs, 1)
                   /\ stack' = IF In.op = "putValue" THEN stack ELSE Cut(stack, 1)
                   /\ UNCHANGED iters)
    /\ Rest /\ UNCHANGED Frames

popRef ==
    /\ Is({"popRef"})
    /\ refs' = Cut(refs, 1)
    /\ Next_ /\ Quiet /\ UNCHANGED <<stack, iters, Frames>>

-----------------------------------------------------------------------------
(* Iterators.                                                              *)

\* Only an iterator of typ "iter" is closed by the machine: an enumeration has nothing to
\* close, and for an asynchronous iterator the code does it.
Iterator(typ, it) == [typ |-> typ, it |-> it, done |-> FALSE, val |-> Undefined]
LastIter == iters[Len(iters)]

iterate ==
    /\ Is({"iterate", "iterateP", "iterateAsyncP", "enumerate"})
    /\ LET typ == CASE In.op = "enumerate" -> "enum" [] In.op = "iterateAsyncP" -> "async" [] OTHER -> "iter"
       IN  Happens(typ, <<Top>>,
                /\ iters' = Append(iters, Iterator(typ, New))
                /\ stack' = IF In.op = "iterate" THEN stack ELSE Cut(stack, 1)
                /\ UNCHANGED refs)
    /\ Rest /\ UNCHANGED Frames

\* A step that throws takes the iterator off first, for an enumeration handleThrow does.
iterNext ==
    /\ Is({"iterNext", "enumNext"})
    /\ LET Step(how) == Event("next", <<LastIter.it>>, how, 0)
       IN  \/ /\ Step("ok") /\ iters' = [iters EXCEPT ![Len(iters)].val = New]
              /\ Next_ /\ UNCHANGED <<status, out>>
           \/ /\ Step("done") /\ iters' = [iters EXCEPT ![Len(iters)].done = TRUE]
              /\ Jump(In.n) /\ UNCHANGED <<status, out>>
           \/ /\ Step("throw") /\ Raise(New)
              /\ iters' = IF In.op = "iterNext" THEN Cut(iters, 1) ELSE iters
    /\ Rest /\ UNCHANGED <<stack, refs, Frames>>

iterGetNextOrUndef ==
    /\ Is({"iterGetNextOrUndef"})
    /\ LET Step(how) == ~LastIter.done /\ Event("next", <<LastIter.it>>, how, 0)
       IN  \/ /\ Step("ok") /\ stack' = Append(stack, New)
              /\ Next_ /\ UNCHANGED <<status, out, iters>>
           \/ /\ Step("done") /\ iters' = [iters EXCEPT ![Len(iters)].done = TRUE]
              /\ stack' = Append(stack, Undefined)
              /\ Next_ /\ UNCHANGED <<status, out>>
           \/ Step("throw") /\ Raise(New) /\ iters' = Cut(iters, 1) /\ UNCHANGED stack
           \/ /\ LastIter.done /\ stack' = Append(stack, Undefined)
              /\ Next_ /\ UNCHANGED <<trace, status, out, iters>>
    /\ Rest /\ UNCHANGED <<refs, Frames>>

newArrayFromIter ==
    /\ Is({"newArrayFromIter"})
    /\ iters' = Cut(iters, 1)
    /\ \/ /\ ~LastIter.done /\ Event("collect", <<LastIter.it>>, "throw", 0)
          /\ Raise(New) /\ UNCHANGED stack
       \/ /\ Event(IF LastIter.done THEN "new" ELSE "collect",
                   IF LastIter.done THEN <<>> ELSE <<LastIter.it>>, "ok", 0)
          /\ stack' = Append(stack, New) /\ Next_ /\ UNCHANGED <<status, out>>
    /\ Rest /\ UNCHANGED <<refs, Frames>>

\* The next step of an asynchronous iterator, awaited, and what it gave.
asyncIterNext ==
    /\ Is({"asyncIterNext"})
    /\ Happens("anext", <<LastIter.it>>, stack' = Append(stack, New) /\ UNCHANGED <<refs, iters>>)
    /\ Rest /\ UNCHANGED Frames

asyncIterStep ==
    /\ Is({"asyncIterStep"})
    /\ LET Step(how) == Event("astep", <<Top>>, how, 0)
       IN  \/ /\ Step("ok") /\ iters' = [iters EXCEPT ![Len(iters)].val = New]
              /\ stack' = Cut(stack, 1) /\ Next_ /\ UNCHANGED <<status, out>>
           \/ Step("done") /\ stack' = Cut(stack, 1) /\ Jump(In.n) /\ UNCHANGED <<status, out, iters>>
           \/ Step("throw") /\ stack' = Cut(stack, 1) /\ Raise(New) /\ UNCHANGED iters
    /\ Rest /\ UNCHANGED <<refs, Frames>>

\* Calls return() and awaits its result; it jumps if there is no such method.
asyncIterClose ==
    /\ Is({"asyncIterClose"})
    /\ LET Step(how) == Event("areturn", <<LastIter.it>>, how, 0)
       IN  \/ Step("ok") /\ stack' = Append(stack, New) /\ Next_ /\ UNCHANGED <<status, out>>
           \/ Step("absent") /\ Jump(In.n) /\ UNCHANGED <<stack, status, out>>
           \/ Step("throw") /\ Raise(New) /\ UNCHANGED stack
    /\ Rest /\ UNCHANGED <<refs, iters, Frames>>

enumGet ==
    /\ Is({"enumGet"})
    /\ stack' = Append(stack, LastIter.val)
    /\ Next_ /\ Quiet /\ UNCHANGED <<refs, iters, Frames>>

Closing(it) == it.typ = "iter" /\ ~it.done

enumPop ==
    /\ Is({"enumPop", "enumPopClose"})
    /\ iters' = Cut(iters, 1)
    /\ \/ /\ Closing(LastIter) /\ In.op = "enumPopClose"
          /\ \/ Event("return", <<LastIter.it>>, "ok", 0) /\ Next_ /\ UNCHANGED <<status, out>>
             \/ Event("return", <<LastIter.it>>, "throw", 0) /\ Raise(New)
       \/ /\ ~(Closing(LastIter) /\ In.op = "enumPopClose")
          /\ Next_ /\ UNCHANGED <<trace, status, out>>
    /\ Rest /\ UNCHANGED <<stack, refs, Frames>>

-----------------------------------------------------------------------------
(* Scopes.  enterBlock makes room for the variables of a block on the      *)
(* stack and, if some are captured (v is True), a stash.                   *)

Scope ==
    /\ Is({"enterBlock", "leaveBlock", "leaveWith", "copyStash"})
    /\ stack' = CASE In.op = "enterBlock" -> stack \o [i \in 1..In.n |-> Nil]
                  [] In.op = "leaveBlock" -> Cut(stack, In.n)
                  [] OTHER -> stack
    /\ stash' = CASE In.op = "enterBlock" /\ In.v = True -> stash + 1
                  [] (In.op = "leaveBlock" /\ In.v = True) \/ In.op = "leaveWith" -> stash - 1
                  [] OTHER -> stash
    /\ Next_ /\ Quiet /\ UNCHANGED <<refs, iters, tries, priv, params, result>>

enterCatchBlock ==
    /\ Is({"enterCatchBlock"})
    /\ stack' = Cut(stack, 1) \o [i \in 1..In.n |-> Nil]
    /\ stash' = stash + 1
    /\ Next_ /\ Quiet /\ UNCHANGED <<refs, iters, tries, priv, params, result>>

enterWith ==
    /\ Is({"enterWith"})
    /\ \E kind \in Possible(Top) :
         /\ Learn(Top, kind)
         /\ IF Nullish(kind) THEN Raise(TypeError) /\ UNCHANGED <<stack, stash>>
            ELSE stack' = Cut(stack, 1) /\ stash' = stash + 1 /\ Next_ /\ UNCHANGED <<status, out>>
    /\ UNCHANGED <<prog, trace, refs, iters, tries, priv, params, result>>

-----------------------------------------------------------------------------
(* Classes.  Their prototype and constructor lie on the stack, below them  *)
(* the function that will initialize the static fields.                    *)

ClassOf(v)  == [v EXCEPT !.j = 1]
Private(in) == IF in.v = True THEN 1 ELSE 0      \* whether the class has private names

newClass ==
    /\ Is({"newStaticFieldInit", "newClass", "newDerivedClass"})
    /\ CASE In.op = "newStaticFieldInit" ->
              stack' = Append(stack, StaticInit) /\ Next_ /\ UNCHANGED <<trace, status, out, refs, iters>>
         [] In.op = "newClass" ->
              Happens("class", <<>>, stack' = stack \o <<New, ClassOf(New)>> /\ UNCHANGED <<refs, iters>>)
         [] In.op = "newDerivedClass" ->
              Happens("extends", <<Top>>, stack' = Cut(stack, 1) \o <<New, ClassOf(New)>> /\ UNCHANGED <<refs, iters>>)
    /\ priv' = IF status' = "run" THEN priv + Private(In) ELSE priv
    /\ Rest /\ UNCHANGED <<tries, stash, params, result>>

\* The function at offset n takes the key of a field or a private method.
defineInClass ==
    /\ Is({"defineComputedKey", "definePrivateMethod"})
    /\ Happens(IF In.op = "defineComputedKey" THEN "fieldkey" ELSE "private", <<stack[Len(stack) - In.n + 1], Top>>,
               stack' = Cut(stack, 1) /\ UNCHANGED <<refs, iters>>)
    /\ Rest /\ UNCHANGED Frames

initStaticElements ==
    /\ Is({"initStaticElements"})
    /\ Happens("statics", <<stack[Len(stack) - 2], Top>>, stack' = Append(Cut(stack, 3), Top) /\ UNCHANGED <<refs, iters>>)
    /\ Rest /\ UNCHANGED Frames

popPrivateEnv ==
    /\ Is({"popPrivateEnv"})
    /\ priv' = priv - 1
    /\ Next_ /\ Quiet /\ UNCHANGED <<stack, refs, iters, tries, stash, params, result>>

-----------------------------------------------------------------------------
(* Parameters.  Their bindings get the first n of the m arguments; if that *)
(* is not all of them, the arguments stay on the stack.                    *)

enterFunc ==
    /\ Is({"enterFunc", "enterFunc1"})
    /\ params' = [i \in 1..In.m |-> IF i <= In.n THEN Arg(i) ELSE Nil]
    /\ stack' = IF In.op = "enterFunc1" THEN stack \o [i \in 1..In.m |-> Arg(i)] ELSE stack
    /\ Next_ /\ Quiet /\ UNCHANGED <<refs, iters, tries, stash, priv, result>>

enterFuncBody ==
    /\ Is({"enterFuncBody"})
    /\ stack' = Cut(stack, In.n)
    /\ Next_ /\ Quiet /\ UNCHANGED <<refs, iters, Frames>>

loadParam ==
    /\ Is({"loadArg", "loadParam"})
    /\ LET v == IF In.op = "loadArg" THEN Arg(In.n) ELSE params[In.n]
       IN  IF v = Nil THEN Raise(ReferenceError) /\ stack' = stack
           ELSE stack' = Append(stack, v) /\ Next_ /\ UNCHANGED <<status, out>>
    /\ UNCHANGED <<prog, trace, kinds, refs, iters, Frames>>

initParam ==
    /\ Is({"initParam"})
    /\ params' = [params EXCEPT ![In.n] = Top] /\ stack' = Cut(stack, 1)
    /\ Next_ /\ Quiet /\ UNCHANGED <<refs, iters, tries, stash, priv, result>>

-----------------------------------------------------------------------------
(* Exceptions.                                                             *)

Frame == tries[Len(tries)]

try ==
    /\ Is({"try"})
    /\ LET At(offset) == IF offset > 0 THEN pc + offset ELSE 0
       IN  tries' = Append(tries, [sp |-> Len(stack), refs |-> Len(refs), iters |-> Len(iters), stash |-> stash, priv |-> priv,
                                   catch |-> At(In.n), finally |-> At(In.m),
                                   ret |-> 0, ex |-> Nil, go |-> FALSE])
    /\ Next_ /\ Quiet /\ UNCHANGED <<stack, refs, iters, stash, priv, params, result>>

leaveTry ==
    /\ Is({"leaveTry"})
    /\ IF Frame.finally > 0
       THEN /\ tries' = [tries EXCEPT ![Len(tries)] = [@ EXCEPT !.ret = pc + 1, !.finally = 0, !.catch = 0]]
            /\ pc' = Frame.finally
            /\ stack' = SubSeq(stack, 1, Frame.sp) /\ stash' = Frame.stash
       ELSE tries' = Cut(tries, 1) /\ Next_ /\ UNCHANGED <<stack, stash>>
    /\ Quiet /\ UNCHANGED <<refs, iters, priv, params, result>>

enterFinally ==
    /\ Is({"enterFinally"})
    /\ tries' = [tries EXCEPT ![Len(tries)] = [@ EXCEPT !.finally = 0, !.catch = 0]]
    /\ Next_ /\ Quiet /\ UNCHANGED <<stack, refs, iters, stash, priv, params, result>>

leaveFinally ==
    /\ Is({"leaveFinally"})
    /\ tries' = Cut(tries, 1)
    /\ IF Frame.ex # Nil THEN Raise(Frame.ex)
       ELSE pc' = (IF Frame.ret > 0 THEN Frame.ret ELSE pc + 1) /\ UNCHANGED <<status, out>>
    /\ UNCHANGED <<prog, trace, kinds, stack, refs, iters, stash, priv, params, result>>

throw ==
    /\ Is({"throw", "throwConst", "throwAssignToConst"})
    /\ Raise(IF In.op = "throw" THEN Top ELSE TypeError)
    /\ UNCHANGED <<prog, trace, kinds, stack, refs, iters, Frames>>

\* restoreStacks closes the iterators above the frame, ignoring what that throws.
Throwing == status = "throw"
Dead == ~Frame.go /\ Frame.catch = 0 /\ Frame.finally = 0

PopFrame ==
    /\ Throwing /\ Dead
    /\ tries' = Cut(tries, 1)
    /\ UNCHANGED <<prog, pc, stack, refs, iters, stash, priv, params, result, out, trace, kinds, status>>

CloseIterator ==
    /\ Throwing /\ ~Dead /\ Len(iters) > Frame.iters
    /\ iters' = Cut(iters, 1)
    /\ \/ Closing(LastIter) /\ \E how \in {"ok", "throw"} : Event("return", <<LastIter.it>>, how, 0)
       \/ ~Closing(LastIter) /\ trace' = trace
    /\ UNCHANGED <<prog, pc, stack, refs, Frames, out, kinds, status>>

handleThrow ==
    /\ Throwing /\ ~Dead /\ Len(iters) <= Frame.iters
    /\ refs' = SubSeq(refs, 1, Frame.refs) /\ stash' = Frame.stash /\ priv' = Frame.priv
    /\ LET kept == SubSeq(stack, 1, Frame.sp)
           Goto(p, f) == pc' = p /\ tries' = [tries EXCEPT ![Len(tries)] = f]
       IN  \/ /\ Frame.catch > 0
              /\ stack' = Append(kept, out) /\ out' = Nil /\ status' = "run"
              /\ Goto(Frame.catch, [Frame EXCEPT !.catch = 0])
           \/ /\ Frame.catch = 0 /\ Frame.finally > 0
              /\ stack' = kept /\ out' = Nil /\ status' = "run"
              /\ Goto(Frame.finally, [Frame EXCEPT !.finally = 0, !.ret = 0, !.ex = out])
           \/ /\ Frame.go
              /\ stack' = kept /\ status' = "thrown" /\ UNCHANGED <<pc, tries, out>>
    /\ UNCHANGED <<prog, iters, params, result, trace, kinds>>

ret ==
    /\ Is({"ret"})
    /\ out' = Top /\ status' = "returned"
    /\ UNCHANGED <<prog, pc, stack, refs, iters, Frames, trace, kinds>>

Halt ==
    /\ status = "run" /\ pc > Len(Code)
    /\ status' = "done"
    /\ UNCHANGED <<prog, pc, stack, refs, iters, Frames, out, trace, kinds>>

Ended == status \in {"done", "returned", "thrown"}

\* The program has ended, or its run is not followed further.
Stop == (Ended \/ Len(trace) = MaxEvents) /\ UNCHANGED vars

Next == \/ Effect \/ inc \/ call \/ construct \/ concatStrings \/ loadDynamicCallee \/ pushSpread \/ Shuffle \/ Result \/ jump \/ Branch \/ not
        \/ PropRef \/ resolveVar \/ resolveMixed \/ resolveThis \/ getValue \/ putValue \/ popRef
        \/ newClass \/ defineInClass \/ initStaticElements \/ popPrivateEnv
        \/ enterFunc \/ enterFuncBody \/ loadParam \/ initParam
        \/ asyncIterNext \/ asyncIterStep \/ asyncIterClose
        \/ iterate \/ iterNext \/ iterGetNextOrUndef \/ newArrayFromIter \/ enumGet \/ enumPop
        \/ Scope \/ enterCatchBlock \/ enterWith
        \/ try \/ leaveTry \/ enterFinally \/ leaveFinally \/ throw \/ PopFrame \/ CloseIterator \/ handleThrow
        \/ ret \/ Halt \/ Stop

Spec == Init /\ [][Next]_vars

-----------------------------------------------------------------------------
(* Compiled code does what its source means.  A program is an expression   *)
(* (put tells whether its value is wanted), a script, a function, the      *)
(* initialization of the fields of a class or of the parameters.           *)

\* What is left on the stack, and the value of the program.
Left  == IF prog.kind = "expr" /\ prog.put THEN Tail_(stack, 1) ELSE <<>>
ValueLeft == CASE prog.kind = "expr" -> IF prog.put THEN Top ELSE Nil
               [] prog.kind = "script" -> result
               [] prog.kind = "function" -> out
               [] OTHER -> Nil

\* When a program ends the stacks are as before, the value of an expression on top of them
\* if it is wanted: no operand, reference, iterator, scope or try frame is left behind
\* or taken from below, whichever jump or exception led there.  A return restores the
\* value stack and the scopes by itself, but not the others.
StacksRestored ==
    Ended => /\ refs = <<>> /\ iters = <<>> /\ tries = <<GoFrame>>
             /\ status # "returned" => stash = 0 /\ priv = 0
             /\ CASE status = "done"     -> stack = Callers \o Left
                  [] status = "thrown"   -> stack = Callers
                  [] status = "returned" -> SubSeq(stack, 1, Len(Callers)) = Callers

\* The parameters that are names.
NamedParameters(items) == {i \in DOMAIN items : items[i].t # "rest" /\ items[i].k[1].t \notin {"objpat", "arrpat"}}

\* The code has performed the events the language prescribes, in its order and on
\* the same operands, and ends the same way with the same value or exception; the
\* parameters of a function end with the values of their arguments or defaults.
Evaluates ==
    Ended => LET s == Meaning(prog, trace, kinds)
             IN  /\ s.n = Len(trace)
                 /\ CASE status = "thrown"   -> s.c = "throw" /\ s.v = out
                      [] status = "returned" -> s.c = "return" /\ s.v = out
                      [] status = "done"     -> /\ s.c = "normal"
                                                /\ ValueLeft # Nil => s.v = ValueLeft
                                                /\ prog.kind = "params" =>
                                                       \A i \in NamedParameters(prog.ast.k) : s.env[i] = params[i]
=============================================================================
