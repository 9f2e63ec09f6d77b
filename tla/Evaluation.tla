----------------------------- MODULE Evaluation -----------------------------
(***************************************************************************)
(* What ECMAScript says a program does, to compare with what its code did: *)
(* the events in the order the language prescribes, each answered the way  *)
(* the trace says, and how the program ends.                               *)
(*                                                                         *)
(* A state is the number of events so far, a completion c and its value v  *)
(* (for a statement Nil if it has none), with l the label of a jump and    *)
(* env the values of the parameters; trace and kinds are those of the run. *)
(* c is "short" inside an optional chain that is left early and "bad" when *)
(* the trace has another event than the language wants.                    *)
(***************************************************************************)
EXTENDS Bytecode

Bad(s) == [s EXCEPT !.c = "bad"]

Ok(s)         == s.c = "normal"
Give(s, v)    == IF Ok(s) THEN [s EXCEPT !.v = v] ELSE s
End(s, c, v)  == IF Ok(s) THEN [s EXCEPT !.c = c, !.v = v] ELSE s

\* The next event of the trace, which has to be this one.
Perform(s, event, args) ==
    IF ~Ok(s) THEN s
    ELSE IF s.n = Len(s.trace) \/ s.trace[s.n + 1].event # event \/ s.trace[s.n + 1].args # args THEN Bad(s)
    ELSE [s EXCEPT !.n = @ + 1, !.v = Of(s.n + 1), !.c = IF s.trace[s.n + 1].how = "throw" THEN "throw" ELSE "normal"]

\* How the last event went.
How(s) == s.trace[s.n].how

Operate(s, event, args) ==
    IF Ok(s) /\ Folds(event, args)
    THEN IF Fails(event, args) THEN End(s, "throw", TypeError) ELSE Give(s, Fold(event, args))
    ELSE Perform(s, event, args)

\* What the test of a value finds: a value the code never tested has no kind.
Kind(s)    == LET possible == PossibleIn(s.v, s.trace, s.kinds)
              IN  IF Cardinality(possible) = 1 THEN CHOOSE kind \in possible : TRUE ELSE "unknown"
Tested(s)  == IF Ok(s) /\ Kind(s) = "unknown" THEN Bad(s) ELSE s
Tests(s, kinds1) == Kind(s) \in kinds1

RECURSIVE Eval(_, _), Class(_, _), Callee(_, _), Arguments(_, _, _), Destructure(_, _, _), Elements(_, _, _, _)

-----------------------------------------------------------------------------
(* References.                                                             *)

Resolved == {"var", "lex", "captured", "const", "self"}

Reference(e, s) ==
    LET R(t, args, get, set) == [s |-> t, args |-> args, get |-> get, set |-> set]
        a == IF e.k # <<>> THEN Eval(e.k[1], s) ELSE s
        b == Eval(e.k[2], a)
        this  == Perform(s, "this", <<>>)
        key   == Eval(e.k[1], this)
        named == Perform(s, "resolve", <<>>)
    IN  CASE e.t = "id" /\ e.x \in Resolved -> R(s, <<>>, IF e.x = "var" THEN "getvar" ELSE "load",
                                                    CASE e.x = "var" -> "setvar" [] e.x \in {"const", "self"} -> e.x [] OTHER -> "store")
          [] e.t = "id" /\ e.x \notin Resolved -> R(named, <<named.v>>, "getref", "putref")
          [] e.t = "decl"       -> R(s, <<>>, "load", "init")
          [] e.t = "dot"        -> R(a, <<a.v>>, "get", "set")
          [] e.t = "private"    -> R(a, <<a.v>>, "getprivate", "setprivate")
          [] e.t = "index"      -> R(b, <<a.v, b.v>>, "get", "set")
          [] e.t = "superdot"   -> R(this, <<this.v>>, "superget", "superset")
          [] e.t = "superindex" -> R(key, <<this.v, key.v>>, "superget", "superset")

\* A var has the value it was last assigned; a constant is not assigned to, and the name
\* of a function expression keeps its value without an error.
Assigned(s) == Var(Cardinality({i \in 1..s.n : s.trace[i].event = "setvar"}))
Get(r)       == IF r.get = "getvar" THEN Give(r.s, Assigned(r.s)) ELSE Perform(r.s, r.get, r.args)
Put(r, s, v) == CASE r.set = "const" -> End(s, "throw", TypeError)
                  [] r.set = "self"  -> Give(s, v)
                  [] OTHER           -> Give(Perform(s, r.set, Append(r.args, v)), v)

\* The reference of a logical assignment is read first: its base must be an object.
Checked(e, s) ==
    LET r     == Reference(IF e.t = "id" THEN [e EXCEPT !.x = "dynamic"] ELSE e, s)
        based == Tested(Give(r.s, r.args[1]))
    IN  IF e.t \in {"id", "superdot", "superindex"} THEN r
        ELSE [r EXCEPT !.s = IF Ok(based) /\ Tests(based, IsNullish) THEN End(based, "throw", TypeError) ELSE based]

-----------------------------------------------------------------------------
(* Calls.                                                                  *)

Leaves(s) == IF Ok(s) /\ Tests(s, IsNullish) THEN End(s, "short", Undefined) ELSE s
ChainEnd(s, v) == IF s.c = "short" THEN [s EXCEPT !.c = "normal", !.v = v] ELSE s

\* The function and its this value.
Callee(e, s) ==
    LET C(t, this) == [s |-> t, this |-> this]
        r     == Reference(e, s)
        got   == Get(r)
        named == Perform(s, "lookup", <<>>)
        inner == Callee(e.k[1], s)
    IN  CASE e.t = "id" /\ e.x \in Resolved -> C(got, Undefined)
          [] e.t = "id" /\ e.x \notin Resolved -> C(named, [named.v EXCEPT !.j = 1])
          [] e.t \in {"dot", "private", "index", "superdot", "superindex"} -> C(got, IF r.args = <<>> THEN Nil ELSE r.args[1])
          [] e.t = "opt"   -> C(Leaves(Tested(inner.s)), inner.this)
          [] e.t = "chain" -> C(ChainEnd(inner.s, Undefined), IF inner.s.c = "short" THEN Undefined ELSE inner.this)
          [] OTHER         -> C(Eval(e, s), Undefined)

\* The values of arguments, those of a spread one by one.
Arguments(k, s, vs) ==
    IF k = <<>> \/ ~Ok(s) THEN [s |-> s, vs |-> vs]
    ELSE LET a  == Head(k)
             v  == Eval(IF a.t = "spread" THEN a.k[1] ELSE a, s)
             sp == Perform(v, "spread", <<v.v>>)
         IN  IF a.t = "spread"
             THEN Arguments(Tail(k), sp, vs \o (IF Ok(sp) THEN [i \in 1..sp.trace[sp.n].n |-> [sp.v EXCEPT !.j = i]] ELSE <<>>))
             ELSE Arguments(Tail(k), v, Append(vs, v.v))

Invoke(event, first, k, s) == LET a == Arguments(k, s, <<>>) IN Perform(a.s, event, first \o a.vs)

-----------------------------------------------------------------------------
(* Destructuring.                                                          *)

Default(elt, s) ==
    IF Len(elt.k) = 1 THEN s
    ELSE LET t == Tested(s) IN IF Ok(t) /\ Tests(t, {"undefined"}) THEN Eval(elt.k[2], t) ELSE t

Patterns == {"objpat", "arrpat"}

\* Value gives the value to assign; the target is evaluated before, a pattern after.
AssignTo(target, s, Value(_)) ==
    IF target.t \in Patterns THEN LET v == Value(s) IN Destructure(target, v.v, v)
    ELSE LET r == Reference(target, s)
             v == Value(r.s)
         IN  Put(r, v, v.v)

Property(p, src, s) ==
    CASE p.t = "shorthand" -> AssignTo(p.k[1], s, LAMBDA t : Default(p, Perform(t, "get", <<src>>)))
      [] p.t = "keyed" -> LET k   == Eval(p.k[1], s)
                              key == Perform(k, "tokey", <<k.v>>)
                          IN  AssignTo(p.k[2].k[1], key,
                                       LAMBDA t : Default(p.k[2], Perform(t, "get", <<src, key.v>>)))
      [] p.t = "rest" -> AssignTo(p.k[1], s, LAMBDA t : Perform(t, "copyrest", <<src>>))

\* A step of an iterator, unless it is done.
Step(it, s, done) ==
    LET t == Perform(s, "next", <<it>>)
    IN  CASE ~Ok(s)   -> [s |-> s, done |-> done]
          [] Ok(s) /\ done -> [s |-> Give(s, Undefined), done |-> TRUE]
          [] OTHER    -> IF Ok(t) /\ How(t) = "done" THEN [s |-> Give(t, Undefined), done |-> TRUE]
                         ELSE [s |-> t, done |-> ~Ok(t)]

\* Closing an iterator on the way out; what that throws is dropped if something is thrown.
Close(it, s) ==
    LET t == Perform([s EXCEPT !.c = "normal"], "return", <<it>>)
    IN  IF s.c = "bad" THEN s
        ELSE IF t.c = "bad" \/ (t.c = "throw" /\ s.c # "throw") THEN t ELSE [s EXCEPT !.n = t.n]

Elements(k, it, s, done) ==
    IF k = <<>> \/ ~Ok(s) THEN IF done THEN s ELSE Close(it, s)
    ELSE LET elt    == Head(k)
             target == elt.k[1]
             nested == target.t \in Patterns
             r      == Reference(target, s)
             at     == IF nested THEN s ELSE r.s
             step   == Step(it, IF elt.t = "hole" THEN s ELSE at, done)
             v      == Default(elt, step.s)
             rest   == IF done THEN Perform(at, "new", <<>>) ELSE Perform(at, "collect", <<it>>)
             Assign(t) == IF nested THEN Destructure(target, t.v, t) ELSE Put(r, t, t.v)
         IN  CASE elt.t = "hole" -> Elements(Tail(k), it, step.s, step.done)
               [] elt.t = "elt"  -> Elements(Tail(k), it, Assign(v), step.done)
               [] elt.t = "rest" -> IF Ok(at) THEN Elements(<<>>, it, Assign(rest), TRUE)
                                    ELSE Elements(<<>>, it, at, done)

Destructure(p, v, s) ==
    LET src == Perform(s, "coercible", <<v>>)
        rest == p.k # <<>> /\ Last(p.k).t = "rest"
        it  == Perform(s, "iter", <<v>>)
    IN  IF p.t = "objpat"
        THEN FoldLeft(LAMBDA t, q : IF Ok(t) THEN Property(q, IF rest THEN src.v ELSE v, t) ELSE t, src, p.k)
        ELSE IF Ok(it) THEN Elements(p.k, it.v, it, FALSE) ELSE it

-----------------------------------------------------------------------------
(* Literals.                                                               *)

\* A method or accessor with its key.
HasKey(m) == m.k[1].t \notin {"none", "privatename"}
Method(m, o, s) ==
    LET a == Eval(m.k[1], s)
        k == Perform(a, "tokey", <<a.v>>)
        f == Perform(IF HasKey(m) THEN k ELSE s, "new", <<>>)
    IN  IF HasKey(m) THEN Perform(f, m.t, <<o, k.v, f.v>>) ELSE Perform(f, "define", <<o, f.v>>)

Define(p, o, s) ==
    LET a == Eval(p.k[1], s)
        k == Perform(a, "tokey", <<a.v>>)
        b == Eval(p.k[2], k)
    IN  CASE p.t = "prop"     -> Perform(a, "define", <<o, a.v>>)
          [] p.t = "proto"    -> Perform(a, "setproto", <<o, a.v>>)
          [] p.t = "computed" -> Perform(b, "define", <<o, k.v, b.v>>)
          [] p.t = "spread"   -> Perform(a, "copyspread", <<o, a.v>>)
          [] OTHER            -> Method(p, o, s)

Item(i, o, s) ==
    LET a == Eval(IF i.t = "spread" THEN i.k[1] ELSE i, s)
    IN  CASE i.t = "hole"   -> Perform(s, "push", <<o, Nil>>)
          [] i.t = "spread" -> Perform(a, "pushall", <<o, a.v>>)
          [] OTHER          -> Perform(a, "push", <<o, a.v>>)

\* An object that Fill fills in, one part after the other.
Build(parts, s, Fill(_, _, _)) ==
    LET o == Perform(s, "new", <<>>)
    IN  Give(FoldLeft(LAMBDA t, p : IF Ok(t) THEN Fill(p, o.v, t) ELSE t, o, parts), o.v)

Join(e, s) ==
    LET text == IF e.x = "text" THEN <<String>> ELSE <<>>
        Next1(a, x) == LET v == Eval(x, a.s)
                           t == Perform(v, "tostring", <<v.v>>)
                       IN  [s |-> t, vs |-> a.vs \o text \o <<t.v>>]
        all  == FoldLeft(Next1, [s |-> s, vs |-> <<>>], e.k)
    IN  IF e.k = <<>> THEN Give(s, String) ELSE Perform(all.s, "concat", all.vs \o text)

-----------------------------------------------------------------------------
(* Classes: the superclass, the elements in their order, then the name is  *)
(* bound and the static fields and blocks run.                             *)

Element(m, proto, cls, s) ==
    LET k      == Eval(m.k[1], s)
        f      == Perform(s, "new", <<>>)
        static == m.x = "static"
    IN  CASE m.t = "block" -> s
          [] m.t = "field" -> IF HasKey(m) THEN Perform(k, "fieldkey", <<IF static THEN StaticInit ELSE cls, k.v>>) ELSE s
          [] m.k[1].t = "privatename" -> Perform(f, "private", <<IF static THEN StaticInit ELSE cls, f.v>>)
          [] OTHER -> Method(m, IF static THEN cls ELSE proto, s)

Class(e, s) ==
    LET elements == Tail(e.k)
        super == Eval(e.k[1], s)
        made  == IF e.k[1].t = "none" THEN Perform(s, "class", <<>>) ELSE Perform(super, "extends", <<super.v>>)
        cls   == ClassOf(made.v)
        body  == FoldLeft(LAMBDA t, m : IF Ok(t) THEN Element(m, made.v, cls, t) ELSE t, made, elements)
        named == IF e.x = "named" THEN Perform(body, "init", <<cls>>) ELSE body
        late  == \E i \in DOMAIN elements : LET m == elements[i] IN
                    m.x = "static" /\ (m.t \in {"field", "block"} \/ m.k[1].t = "privatename")
    IN  Give(IF late THEN Perform(named, "statics", <<StaticInit, cls>>) ELSE named, cls)

\* The fields of an object, with the keys computed before.
Fields(elements, object, start) ==
    LET Next1(a, m) ==
            LET init == IF m.t = "field" /\ Len(m.k) = 2 THEN Eval(m.k[2], a.s) ELSE Give(a.s, Undefined)
                f    == Perform(a.s, "new", <<>>)
                keyed == m.t = "field" /\ HasKey(m)
            IN  [keys |-> a.keys + (IF keyed THEN 1 ELSE 0),
                 s |-> CASE ~Ok(a.s) -> a.s
                         [] m.t = "block" -> Perform(f, "call", <<object, f.v>>)
                         [] keyed -> Perform(init, "field", <<object, Key(a.keys), init.v>>)
                         [] m.k[1].t = "privatename" -> Perform(init, "privatefield", <<object, init.v>>)
                         [] OTHER -> Perform(init, "field", <<object, init.v>>)]
    IN  FoldLeft(Next1, [s |-> start, keys |-> 0], elements).s

\* Parameters are initialized from left to right, each from its argument or its default.
Parameters(items, start) ==
    LET n == Cardinality({i \in DOMAIN items : items[i].t # "rest"})
        Next1(s, i) ==
            LET item == items[i]
                v    == IF item.t = "rest" THEN Perform(s, "new", <<>>) ELSE Default(item, Give(s, Arg(i)))
            IN  IF ~Ok(v) THEN v
                ELSE CASE item.k[1].t \in Patterns -> Destructure(item.k[1], v.v, v)
                       [] item.t = "rest" -> Perform(v, "init", <<v.v>>)
                       [] OTHER -> [v EXCEPT !.env[i] = v.v]
    IN  FoldLeft(Next1, [start EXCEPT !.env = [i \in 1..n |-> Nil]], [i \in 1..Len(items) |-> i])

-----------------------------------------------------------------------------

Delete(e, s) ==
    LET r == Reference(e, s)
        a == Eval(e, s)
    IN  CASE e.t = "id" -> IF e.x \in Resolved THEN Give(s, False) ELSE Perform(s, "deletevar", <<>>)
          [] e.t \in {"dot", "index"} -> Perform(r.s, "delete", r.args)
          [] OTHER -> Give(a, True)

Eval(e, s) ==
    LET a  == Eval(e.k[1], s)       \* the parts in order
        b  == Eval(e.k[2], a)
        t  == Tested(a)
        r  == Reference(e.k[1], s)
        g  == Get(r)
        c  == Callee(e.k[1], s)
    IN
    IF ~Ok(s) THEN s
    ELSE CASE e.t = "lit"      -> Give(s, Const(e.x))
           [] e.t = "id"       -> IF e.x \in Resolved THEN Get(Reference(e, s)) ELSE Perform(s, "lookup", <<>>)
           [] e.t = "param"    -> IF s.env[e.x] = Nil THEN End(s, "throw", ReferenceError) ELSE Give(s, s.env[e.x])
           [] e.t = "class"    -> Class(e, s)
           [] e.t = "this"     -> Perform(s, "this", <<>>)
           [] e.t = "function" -> Perform(s, "new", <<>>)
           [] e.t \in {"dot", "private", "index", "superdot", "superindex"} -> Get(Reference(e, s))
           [] e.t = "assign" ->
                 IF e.k[1].t \in Patterns THEN LET v == Eval(e.k[2], s) IN Give(Destructure(e.k[1], v.v, v), v.v)
                 ELSE LET v == Eval(e.k[2], r.s) IN Put(r, v, v.v)
           [] e.t = "opassign" -> LET v == Eval(e.k[2], g)
                                      w == Operate(v, Table[e.x].event, <<g.v, v.v>>)
                                  IN  Put(r, w, w.v)
           [] e.t = "logassign" ->
                 LET ref == Checked(e.k[1], s)
                     old == Tested(Get(ref))
                     v   == Eval(e.k[2], old)
                     stays == Tests(old, CASE e.x = "or" -> IsTrue [] e.x = "and" -> NotTrue [] OTHER -> NotNullish)
                 IN  IF ~Ok(old) \/ stays THEN old ELSE Put(ref, v, v.v)
           [] e.t = "increment" -> LET num == Perform(g, "tonumber", <<g.v>>)
                                       new == [num.v EXCEPT !.j = 1]
                                   IN  Give(Put(r, num, new), IF e.x = "postfix" THEN num.v ELSE new)
           [] e.t = "not"      -> Give(t, IF Tests(t, IsTrue) THEN False ELSE True)
           [] e.t = "typeof"   -> Give(IF e.k[1].t = "id" /\ e.k[1].x = "dynamic" THEN Perform(s, "lookuptype", <<>>)
                                       ELSE a, String)
           [] e.t = "delete"   -> IF e.k[1].t = "chain" THEN ChainEnd(Delete(e.k[1].k[1], s), True) ELSE Delete(e.k[1], s)
           [] e.t = "void"     -> Give(a, Undefined)
           [] e.t = "unary"    -> Operate(a, Table[e.x].event, <<a.v>>)
           [] e.t = "binary"   -> Operate(b, Table[e.x].event, <<a.v, b.v>>)
           [] e.t = "privatein" -> Perform(a, "privatein", <<a.v>>)
           [] e.t = "conditional" -> Eval(IF Ok(t) /\ Tests(t, NotTrue) THEN e.k[3] ELSE e.k[2], t)
           [] e.t = "or"       -> IF Ok(t) /\ Tests(t, IsTrue) THEN t ELSE Eval(e.k[2], t)
           [] e.t = "and"      -> IF Ok(t) /\ Tests(t, NotTrue) THEN t ELSE Eval(e.k[2], t)
           [] e.t = "coalesce" -> IF Ok(t) /\ Tests(t, NotNullish) THEN t ELSE Eval(e.k[2], t)
           [] e.t = "sequence" -> FoldLeft(LAMBDA u, x : Eval(x, u), s, e.k)
           [] e.t \in {"await", "yield"} -> Perform(a, e.t, <<a.v>>)
           [] e.t = "object"   -> Build(e.k, s, Define)
           [] e.t = "array"    -> Build(e.k, s, Item)
           [] e.t = "template" -> Join(e, s)
           [] e.t = "tagged"   -> LET tmpl == Perform(c.s, "new", <<>>)
                                  IN  Invoke("call", <<c.this, c.s.v, tmpl.v>>, Tail(e.k), tmpl)
           [] e.t = "call"     -> Invoke("call", <<c.this, c.s.v>>, Tail(e.k), c.s)
           [] e.t = "new"      -> Invoke("construct", <<a.v>>, Tail(e.k), a)
           [] e.t = "supercall" -> Invoke("supercall", <<>>, e.k, s)
           [] e.t = "chain"    -> ChainEnd(a, Undefined)
           [] e.t = "opt"      -> Leaves(t)

-----------------------------------------------------------------------------
(* Statements.  labels are those of the statement itself.                  *)

UpdateEmpty(s, v) == IF s.v = Nil THEN [s EXCEPT !.v = v] ELSE s

RECURSIVE Exec(_, _, _), List(_, _, _), Iterate(_, _, _, _, _), Enumerate(_, _, _, _, _), Cases(_, _, _, _), Selects(_, _, _, _)

List(k, s, v) ==
    IF k = <<>> \/ ~Ok(s) THEN UpdateEmpty(s, v)
    ELSE LET t == Exec(Head(k), Give(s, Nil), {}) IN List(Tail(k), t, IF t.v = Nil THEN v ELSE t.v)

Continues(s, labels) == Ok(s) \/ (s.c = "continue" /\ s.l \in labels \union {""})

\* A statement that an unlabelled break leaves.
Broken(s) == IF s.c = "break" /\ s.l = "" THEN [s EXCEPT !.c = "normal"] ELSE s

\* A loop: its test, body and update, the value so far, and whether the test comes first.
Iterate(parts, s, labels, v, testing) ==
    LET t    == IF parts.test.t = "none" \/ ~testing THEN s ELSE Tested(Eval(parts.test, s))
        over == testing /\ parts.test.t # "none" /\ Tests(t, NotTrue)
        b    == Exec(parts.body, Give(t, Nil), labels)
        w    == IF b.v = Nil THEN v ELSE b.v
        next == [b EXCEPT !.c = "normal", !.l = ""]
        up   == IF parts.update.t = "none" THEN next ELSE Eval(parts.update, next)
    IN  IF ~Ok(t) THEN t
        ELSE IF over THEN Give(t, v)
        ELSE IF ~Continues(b, labels) THEN UpdateEmpty(b, v)
        ELSE IF Ok(up) THEN Iterate(parts, up, labels, w, TRUE) ELSE up

\* A step of an asynchronous iterator, and its closing.
AsyncStep(it, s) ==
    LET t == Perform(s, "anext", <<it>>)
        u == Perform(t, "astep", <<t.v>>)
    IN  [s |-> u, done |-> Ok(u) /\ How(u) = "done"]

AsyncClose(it, s) ==
    LET t == Perform([s EXCEPT !.c = "normal"], "areturn", <<it>>)
        u == IF Ok(t) /\ How(t) = "ok" /\ s.c # "throw" THEN Perform(t, "isobject", <<t.v>>) ELSE t
    IN  IF s.c = "bad" THEN s
        ELSE IF u.c = "bad" \/ (u.c = "throw" /\ s.c # "throw") THEN u ELSE [s EXCEPT !.n = u.n]

Enumerate(v, it, s, labels, val) ==
    LET step  == IF v.t = "forawait" THEN AsyncStep(it, s) ELSE Step(it, s, FALSE)
        into  == v.k[1]
        value == step.s.v
        bound == CASE into.t = "declpat" -> Destructure(into.k[1], value, step.s)
                   [] into.t \in Patterns -> Destructure(into, value, step.s)
                   [] OTHER -> LET r == Reference(into, step.s) IN Put(r, r.s, value)
        b     == IF Ok(bound) THEN Exec(v.k[3], Give(bound, Nil), labels) ELSE bound
        closed == CASE v.t = "forof" -> Close(it, b) [] v.t = "forawait" -> AsyncClose(it, b) [] OTHER -> b
    IN  IF ~Ok(step.s) THEN step.s
        ELSE IF step.done THEN Give(step.s, val)
        ELSE IF ~Continues(b, labels) THEN UpdateEmpty(closed, val)
        ELSE Enumerate(v, it, [b EXCEPT !.c = "normal", !.l = ""], labels, IF b.v = Nil THEN val ELSE b.v)

\* The first case that the value selects, 0 if none does.
Selects(cases, i, d, s) ==
    LET test == Eval(cases[i].k[1], s)
        eq   == Tested(Perform(test, "stricteq", <<d, test.v>>))
    IN  IF i > Len(cases) THEN [s |-> s, at |-> 0]
        ELSE IF cases[i].t = "default" THEN Selects(cases, i + 1, d, s)
        ELSE IF ~Ok(eq) \/ Tests(eq, IsTrue) THEN [s |-> eq, at |-> i] ELSE Selects(cases, i + 1, d, eq)

Cases(cases, i, s, v) ==
    IF i > Len(cases) THEN Give(s, v)
    ELSE LET t == List(cases[i].k[2].k, Give(s, Nil), v)
         IN  IF Ok(t) THEN Cases(cases, i + 1, t, t.v) ELSE UpdateEmpty(t, v)

Switch(v, s) ==
    LET d       == Eval(v.k[1], s)
        cases   == Tail(v.k)
        found   == Selects(cases, 1, d.v, d)
        default == {i \in DOMAIN cases : cases[i].t = "default"}
        from    == IF found.at # 0 THEN found.at ELSE IF default = {} THEN Len(cases) + 1 ELSE Max(default)
    IN  IF ~Ok(d) THEN d ELSE IF ~Ok(found.s) THEN found.s ELSE Cases(cases, from, found.s, Undefined)

Try(v, s) ==
    LET b == Exec(v.k[1], s, {})
        catch == v.k[2]
        param == IF catch.k[1].t = "none" THEN [b EXCEPT !.c = "normal"]
                 ELSE Destructure(catch.k[1], b.v, [b EXCEPT !.c = "normal"])
        c == IF b.c = "throw" /\ catch.t # "none"
             THEN IF Ok(param) THEN Exec(catch.k[2], Give(param, Nil), {}) ELSE param
             ELSE b
        f == Exec(v.k[3], [c EXCEPT !.c = "normal", !.v = Nil, !.l = ""], {})
        r == IF v.k[3].t = "none" \/ c.c = "bad" THEN c ELSE IF Ok(f) THEN [c EXCEPT !.n = f.n] ELSE f
    IN  UpdateEmpty(r, Undefined)

Declare(v, s) ==
    LET target == v.k[1]
        r == IF target.t = "decl" \/ (target.t = "id" /\ target.x \in Resolved)
             THEN Reference([target EXCEPT !.t = "decl"], s) ELSE Reference(target, s)
        a == IF Len(v.k) = 1 THEN Give(s, Undefined) ELSE Eval(v.k[2], IF target.t \in Patterns THEN s ELSE r.s)
    IN  Give(IF target.t \in Patterns THEN Destructure(target, a.v, a) ELSE Put(r, a, a.v), Nil)

Exec(v, s, labels) ==
    LET a == Eval(v.k[1], s)
        t == Tested(a)
        loop(test, body, update) == [test |-> test, body |-> body, update |-> update]
        none == [t |-> "none"]
    IN  CASE v.t = "block"  -> List(v.k, s, Nil)
          [] v.t = "expr"   -> a
          [] v.t \in {"var", "let"} -> Declare(v, s)
          [] v.t = "return" -> IF v.k = <<>> THEN End(s, "return", Undefined) ELSE End(a, "return", a.v)
          [] v.t = "throw"  -> End(a, "throw", a.v)
          [] v.t \in {"break", "continue"} -> [s EXCEPT !.c = v.t, !.v = Nil, !.l = v.x]
          [] v.t = "empty"  -> Give(s, Nil)
          [] v.t = "if" ->
                IF ~Ok(t) THEN t
                ELSE UpdateEmpty(IF Tests(t, IsTrue) THEN Exec(v.k[2], Give(t, Nil), {})
                                 ELSE IF Len(v.k) = 3 THEN Exec(v.k[3], Give(t, Nil), {}) ELSE Give(t, Nil), Undefined)
          [] v.t = "with" ->
                IF ~Ok(t) THEN t ELSE IF Tests(t, IsNullish) THEN End(t, "throw", TypeError)
                ELSE UpdateEmpty(Exec(v.k[2], Give(t, Nil), {}), Undefined)
          [] v.t = "while"   -> Broken(Iterate(loop(v.k[1], v.k[2], none), s, labels, Undefined, TRUE))
          [] v.t = "dowhile" -> Broken(Iterate(loop(v.k[2], v.k[1], none), s, labels, Undefined, FALSE))
          [] v.t = "for" ->
                LET init == CASE v.k[1].t = "none" -> s
                              [] v.k[1].t \in {"var", "let"} -> Declare(v.k[1], s)
                              [] OTHER -> a
                IN  IF Ok(init) THEN Broken(Iterate(loop(v.k[2], v.k[4], v.k[3]), init, labels, Undefined, TRUE)) ELSE init
          [] v.t \in {"forin", "forof", "forawait"} ->
                LET src == Eval(v.k[2], s)
                    it  == Perform(src, CASE v.t = "forof" -> "iter" [] v.t = "forin" -> "enum" [] OTHER -> "async", <<src.v>>)
                IN  IF Ok(it) THEN Broken(Enumerate(v, it.v, it, labels, Undefined)) ELSE it
          [] v.t = "switch"  -> Broken(UpdateEmpty(Switch(v, s), Undefined))
          [] v.t = "try"     -> Try(v, s)
          [] v.t = "label"   -> LET b == Exec(v.k[1], s, labels \union {v.x})
                                IN  IF b.c = "break" /\ b.l = v.x THEN [b EXCEPT !.c = "normal", !.l = ""] ELSE b

-----------------------------------------------------------------------------

\* What the program does when its events go as the trace says.
MeaningOf(program, events, found) ==
    LET start == [n |-> 0, c |-> "normal", v |-> Nil, l |-> "", env |-> <<>>, trace |-> events, kinds |-> found]
        body  == List(program.ast.k, start, Nil)
    IN  CASE program.kind = "expr"   -> Eval(program.ast, start)
          [] program.kind = "script" -> List(program.ast.k, start, Undefined)
          [] program.kind = "fields" -> Fields(program.ast.k, Last(Callers), start)
          [] program.kind = "params" -> Parameters(program.ast.k, start)
          [] OTHER -> IF Ok(body) THEN [body EXCEPT !.c = "return", !.v = Undefined] ELSE body
=============================================================================
