----------------------------- MODULE MCCompiler -----------------------------
(***************************************************************************)
(* Programs for the compiler: expressions in which one construct is a part *)
(* of another, and scripts and functions in which statements contain each  *)
(* other inside a loop that they may leave or continue.                    *)
(***************************************************************************)
EXTENDS StmtCode, Evaluation

N(t, k) == Node(t, "", k)
a == Node("id", "dynamic", <<>>)
b == Node("id", "lex", <<>>)
obj == N("object", <<>>)
Each(k, F(_)) == [i \in DOMAIN k |-> F(k[i])]

Targets(h) == <<N("dot", <<h>>), N("private", <<h>>), N("index", <<h, a>>), N("index", <<b, h>>),
                N("superdot", <<>>), N("superindex", <<h>>), a, b>>

Writes(h) ==
    Each(Targets(h), LAMBDA t : N("assign", <<t, a>>))
    \o Each(Targets(b), LAMBDA t : N("assign", <<t, h>>))
    \o Each(Targets(h), LAMBDA t : Node("opassign", "add", <<t, a>>))
    \o <<Node("opassign", "sub", <<a, h>>), Node("opassign", "shr", <<b, h>>)>>
    \o Each(Targets(h), LAMBDA t : Node("logassign", "and", <<t, a>>))
    \o Each(Targets(b), LAMBDA t : Node("logassign", "or", <<t, h>>))
    \o Each(Targets(b), LAMBDA t : Node("logassign", "coalesce", <<t, h>>))
    \o Each(Targets(h), LAMBDA t : Node("increment", "prefix", <<t>>))
    \o Each(Targets(h), LAMBDA t : Node("increment", "postfix", <<t>>))

Operations(h) ==
    Each(<<"not", "typeof", "void", "await", "yield", "privatein">>, LAMBDA t : N(t, <<h>>))
    \o Each(<<"neg", "plus">>, LAMBDA x : Node("unary", x, <<h>>))
    \o Each(<<N("dot", <<h>>), N("index", <<a, h>>), N("call", <<a, h>>), a, b>>, LAMBDA t : N("delete", <<t>>))
    \o Each(<<"or", "and", "coalesce", "sequence">>, LAMBDA t : N(t, <<h, a>>))
    \o Each(<<"or", "and", "coalesce", "sequence">>, LAMBDA t : N(t, <<b, h>>))
    \o Each(<<"or", "and", "coalesce", "sequence">>, LAMBDA t : N(t, <<Lit(Num), h>>))
    \o Each(<<<<h, a>>, <<b, h>>, <<Lit(Num), h>>>>, LAMBDA k : Node("binary", "add", k))
    \o Each(<<<<h, a, b>>, <<a, h, b>>, <<a, b, h>>>>, LAMBDA k : N("conditional", k))
    \o Each(<<N("prop", <<h>>), N("proto", <<h>>), N("computed", <<h, a>>), N("computed", <<b, h>>), N("spread", <<h>>),
              N("method", <<h>>), N("getter", <<h>>), N("setter", <<h>>)>>,
            LAMBDA p : N("object", <<N("prop", <<b>>), p>>))
    \o Each(<<h, N("spread", <<h>>), N("hole", <<>>)>>, LAMBDA p : N("array", <<p, a>>))
    \o <<Node("template", "text", <<h, a>>), Node("template", "none", <<h, a>>), Node("template", "text", <<>>)>>

Callees(h) == <<a, b, N("dot", <<h>>), N("private", <<h>>), N("index", <<h, a>>), N("superdot", <<>>), N("superindex", <<h>>),
                IF h.t = "chain" THEN a ELSE h>>     \* a chain that is called: see Divergences in the README

Calls(h) ==
    Each(Callees(h), LAMBDA c : N("call", <<c, a>>))
    \o Each(Callees(b), LAMBDA c : N("call", <<c, N("spread", <<h>>), b>>))
    \o <<N("call", <<b, h>>), N("tagged", <<b, h>>), N("tagged", <<N("dot", <<h>>), b>>)>>
    \o Each(<<<<h>>, <<a, h>>, <<h, N("spread", <<a>>)>>, <<b, b, N("spread", <<h>>)>>>>, LAMBDA k : N("new", k))
    \o Each(<<<<h, a>>, <<b, N("spread", <<h>>)>>>>, LAMBDA k : N("supercall", k))

Chains(h) ==
    LET o == N("opt", <<h>>)
        links == <<N("dot", <<o>>), N("index", <<o, a>>), N("private", <<o>>),
                   N("call", <<N("dot", <<o>>), a>>), N("dot", <<N("call", <<N("dot", <<o>>)>>)>>),
                   N("dot", <<N("opt", <<N("dot", <<o>>)>>)>>),
                   N("call", <<N("opt", <<N("dot", <<h>>)>>), a>>),
                   N("call", <<IF h.t = "chain" THEN a ELSE o, a>>)>>
        deleted == <<N("dot", <<o>>), N("index", <<o, a>>), N("dot", <<N("call", <<N("opt", <<N("dot", <<h>>)>>)>>)>>)>>
    IN  Each(links, LAMBDA l : N("chain", <<l>>)) \o Each(deleted, LAMBDA l : N("delete", <<N("chain", <<l>>)>>))

\* The base of a member that is the target of a pattern is an object: it is converted
\* to one before the value to assign is read.
Elt(k)   == N("elt", k)
Rest1(t) == N("rest", <<t>>)
PatternTargets == <<a, b, N("dot", <<obj>>), N("index", <<obj, a>>)>>
Patterns1(h) ==
    Each(PatternTargets, LAMBDA t : N("arrpat", <<Elt(<<t, h>>), Elt(<<b>>)>>))
    \o Each(PatternTargets, LAMBDA t : N("arrpat", <<N("hole", <<>>), Elt(<<b>>), Rest1(t)>>))
    \o <<N("arrpat", <<Elt(<<N("index", <<obj, h>>)>>)>>), N("arrpat", <<Elt(<<N("arrpat", <<Elt(<<b, h>>)>>), a>>)>>),
         N("arrpat", <<Elt(<<b>>), Rest1(N("objpat", <<N("shorthand", <<b>>)>>))>>)>>
    \o Each(<<a, b>>, LAMBDA t : N("objpat", <<N("shorthand", <<t, h>>)>>))
    \o Each(PatternTargets, LAMBDA t : N("objpat", <<N("keyed", <<h, Elt(<<t, b>>)>>)>>))
    \o Each(PatternTargets, LAMBDA t : N("objpat", <<N("keyed", <<b, Elt(<<N("arrpat", <<Elt(<<b>>)>>), h>>)>>), Rest1(t)>>))

Contexts(h) == Writes(h) \o Operations(h) \o Calls(h) \o Chains(h) \o Each(Patterns1(h), LAMBDA p : N("assign", <<p, a>>))

\* One expression for every kind of result, effect and jump.
Inner == <<a, b, N("this", <<>>), N("function", <<>>), Lit(Num), Lit(BigInt), Lit(Undefined), Lit(False),
           N("dot", <<a>>), N("superindex", <<a>>), N("assign", <<N("index", <<a, b>>), b>>), Node("logassign", "or", <<N("dot", <<a>>), b>>),
           Node("increment", "postfix", <<a>>), Node("increment", "postfix", <<N("index", <<b, b>>)>>), N("not", <<a>>),
           Node("binary", "mul", <<Lit(Num), Lit(BigInt)>>), N("or", <<a, b>>), N("coalesce", <<Lit(Undefined), b>>), N("conditional", <<a, Lit(Num), b>>),
           N("object", <<N("prop", <<a>>)>>), N("array", <<N("spread", <<a>>)>>),
           N("call", <<N("dot", <<a>>), N("spread", <<b>>)>>), N("new", <<a, N("spread", <<b>>)>>),
           N("chain", <<N("dot", <<N("opt", <<a>>)>>)>>), N("chain", <<N("call", <<N("opt", <<N("dot", <<b>>)>>)>>)>>),
           N("assign", <<N("arrpat", <<Elt(<<b, a>>), Elt(<<a>>)>>), b>>),
           N("assign", <<N("objpat", <<N("keyed", <<b, Elt(<<a, b>>)>>), Rest1(b)>>), b>>)>>

\* Every operator, on constants and on others.
Binaries == {"add", "sub", "mul", "exp", "div", "mod", "and", "or", "xor", "sal", "sar", "shr", "op_lt", "op_lte", "op_gt", "op_gte",
             "op_eq", "op_neq", "op_strict_eq", "op_strict_neq", "op_instanceof", "op_in"}
Arithmetic ==
    {Node("binary", x, <<l, r>>) : x \in {"add", "sub", "shr", "op_lt", "op_eq", "op_strict_eq", "op_in"},
                                   l, r \in {Lit(v) : v \in Constants} \union {a}}
    \union {Node("binary", x, <<a, b>>) : x \in Binaries} \union {Node("unary", x, <<a>>) : x \in {"neg", "plus", "bnot"}}
    \union {Node("opassign", x, <<b, a>>) : x \in {"mul", "and", "sar"}}
    \union {Node("unary", x, <<Lit(v)>>) : x \in {"neg", "plus", "bnot"}, v \in Constants}

\* Every kind of name.  The name of a function expression is assigned to where the
\* value of the assignment is used.
Named(x) == Node("id", x, <<>>)
Uses(v) == {N("assign", <<v, a>>), Node("opassign", "add", <<v, v>>), Node("increment", "prefix", <<v>>), Node("increment", "postfix", <<v>>),
            Node("logassign", "or", <<v, a>>), N("call", <<v, v>>), N("typeof", <<v>>), N("delete", <<v>>), N("and", <<v, v>>),
            N("sequence", <<v, N("assign", <<v, N("dot", <<v>>)>>), v>>), N("not", <<v>>),
            N("assign", <<N("arrpat", <<Elt(<<v, v>>), Elt(<<v>>)>>), v>>)}
Names == UNION {Uses(Named(x)) : x \in {"var", "captured", "const", "mixed"}}
OwnName == {N("assign", <<Named("self"), a>>), Node("opassign", "add", <<Named("self"), Named("self")>>), N("call", <<Named("self"), a>>)}

Decl1   == Node("decl", "", <<>>)
Public  == None
Private1 == N("privatename", <<>>)
Members1(x) ==
    {Node(t, x, <<key>>) : t \in {"method", "getter", "setter"}, key \in {Public, a}}
    \union {Node("method", x, <<Private1>>)}
    \union {Node("field", x, k) : k \in {<<Public>>, <<a, b>>, <<Private1, b>>}}
Elements1 == Members1("static") \union Members1("proto") \union {Node("block", "static", <<>>)}
Classes == {Node("class", x, <<super>> \o k) : x \in {"named", ""}, super \in {None, b},
                                               k \in {<<>>} \union {<<m>> : m \in Elements1} \union {<<m, n>> : m, n \in Elements1}}
FieldLists == {<<m, n>> : m, n \in {e \in Elements1 : e.t \in {"field", "block"}}}

Param(i) == Node("param", i, <<>>)
Item1(k) == N("item", k)
\* Initializers use parameters before their own.
Second == {<<Decl1>>, <<Decl1, a>>, <<Decl1, N("call", <<a, Param(1)>>)>>,
           <<N("arrpat", <<Elt(<<b, Param(1)>>)>>), a>>, <<N("objpat", <<N("shorthand", <<b>>)>>)>>}
ParameterLists ==
    {<<Item1(<<Decl1>>), Item1(k)>> \o rest :
        k \in Second, rest \in {<<>>, <<Item1(<<Decl1, Param(1)>>)>>, <<Rest1(Decl1)>>}}
    \union {<<Item1(<<Decl1, a>>), Item1(k), Item1(<<Decl1, N("call", <<Param(1), Param(2)>>)>>)>> : k \in {<<Decl1>>, <<Decl1, a>>}}

Expression(e, p) == [kind |-> "expr", ast |-> e, put |-> p, code |-> emitExpr(e, p)]
Each1(es, puts) == {Expression(e, p) : e \in es, p \in puts}
Expressions(puts) ==
    {Each1(Range(Contexts(h)), puts) : h \in Range(Inner)}
    \union {Each1(Arithmetic, puts), Each1(Names, puts), Each1(Classes, puts), Each1(OwnName, {TRUE})}

Initializers ==
    {[kind |-> "fields", ast |-> N("class", k), code |-> compileFieldsAndStaticBlocks(k)] : k \in FieldLists}
    \union {[kind |-> "params", ast |-> N("params", k), code |-> compileParameters(k)] : k \in ParameterLists}

\* (a = () => b, b = 2)
ForwardParameters == {<<Item1(<<Decl1, N("function", <<Param(2)>>)>>), Item1(<<Decl1, a>>)>>}
ForwardReference == {{[kind |-> "params", ast |-> N("params", k), code |-> compileParameters(k)] : k \in ForwardParameters}}

-----------------------------------------------------------------------------
S    == N("expr", <<b>>)
Let  == N("let", <<N("decl", <<>>), b>>)
Blk(k) == Node("block", "none", k)
Decl(x) == Node("decl", x, <<>>)
Label(s) == Node("label", "L", <<s>>)
Case(k) == N("case", <<b, Blk(k)>>)
Catch(x, k) == Node("catch", x, <<None, Blk(k)>>)
ArrayPattern == N("arrpat", <<N("elt", <<Decl("")>>)>>)

\* What may be inside a loop labelled L.
Leaf == {<<S>>, <<>>, <<S, N("break", <<>>)>>, <<N("continue", <<>>)>>, <<S, N("continue", <<>>), S>>,
         <<Node("break", "L", <<>>)>>, <<S, Node("continue", "L", <<>>)>>, <<N("throw", <<b>>)>>}
Return == {<<N("return", <<b>>)>>, <<N("return", <<>>)>>}

Around(h) ==
    {Node("block", "let", <<Let>> \o h), Node("block", "stash", <<Let>> \o h), Blk(h),
     N("if", <<b, Blk(h)>>), N("if", <<b, Blk(h), S>>), N("if", <<b, S, Blk(h)>>), N("if", <<Lit(True), Blk(h)>>),
     N("if", <<Lit(Undefined), S, Blk(h)>>),
     N("while", <<b, Blk(h)>>), N("dowhile", <<Blk(h), b>>),
     Node("for", "none", <<None, b, b, Blk(h)>>), Node("for", "let", <<Let, b, b, Blk(h)>>), Node("for", "stash", <<Let, b, None, Blk(h)>>),
     N("forof", <<b, b, Blk(h)>>), N("forof", <<Decl("let"), b, Blk(h)>>), Node("forof", "used", <<Decl("stash"), b, Blk(h)>>),
     N("forin", <<b, b, Blk(h)>>), N("forawait", <<b, b, Blk(h)>>), N("forawait", <<Decl("let"), b, Blk(h)>>),
     Node("forawait", "used", <<Decl("stash"), b, Blk(h)>>), N("forof", <<Node("declpat", "let", <<ArrayPattern>>), b, Blk(h)>>),
     N("with", <<b, Blk(h)>>),
     Node("switch", "none", <<b, Case(h), Case(<<S>>)>>), Node("switch", "none", <<b, N("default", <<None, Blk(<<S>>)>>), Case(h)>>),
     Node("switch", "let", <<b, Case(<<Let>>), N("default", <<None, Blk(h)>>)>>), Node("switch", "stash", <<b, Case(<<Let>> \o h)>>)}

Tries(h) ==
    {N("try", <<Blk(h), Catch("none", <<S>>), None>>), N("try", <<Blk(<<S>>), Catch("let", h), None>>),
     N("try", <<Blk(<<S>>), Catch("stash", h), None>>),
     N("try", <<Blk(<<S>>), Node("catch", "let", <<ArrayPattern, Blk(h)>>), None>>),
     N("try", <<Blk(h), None, Blk(<<S>>)>>), N("try", <<Blk(<<S>>), None, Blk(h)>>),
     N("try", <<Blk(h), None, Blk(h)>>), N("try", <<Blk(<<S>>), Catch("let", h), Blk(<<S>>)>>)}

Loops1(h) == {Label(N("while", <<b, Blk(h)>>)), Label(N("forof", <<Decl("let"), b, Blk(h)>>)),
              Label(Node("for", "let", <<Let, b, b, Blk(h)>>))}

Bodies(leaf) == UNION {Around(h) \union Tries(h) : h \in leaf}
Deeper(leaf) == UNION {Tries(<<t>>) \union Around(<<t>>) : t \in UNION {Tries(h) : h \in leaf}}

Script(s) == [kind |-> "script", ast |-> Blk(<<S, s>>), code |-> compileScript(<<S, s>>)]
Function(s) == [kind |-> "function", ast |-> Blk(<<s, S>>), code |-> compileFunction(<<s, S>>)]

Declarations == {N("var", <<b, a>>), N("var", <<a, b>>), N("let", <<Decl("")>>), N("let", <<ArrayPattern, b>>),
                 N("var", <<N("objpat", <<N("shorthand", <<Decl(""), a>>)>>), b>>)}

\* A break that is never reached, from a scope inside the loop.
DeadCode == {{Script(N("while", <<b, Node("block", "let", <<Let, N("if", <<Lit(False), Blk(<<N("break", <<>>)>>)>>), S>>)>>))}}

\* f?.(...a)
OptionalSpread == {{Expression(N("chain", <<N("call", <<N("opt", <<a>>), N("spread", <<b>>)>>)>>), TRUE)}}

Statements(leaves) ==
    {{Script(s) : s \in UNION {Loops1(<<S, t>>) : t \in Bodies(leaves)}},
     {Function(s) : s \in UNION {Loops1(<<t, S>>) : t \in Bodies(leaves \union Return)}},
     {Function(Label(N("while", <<b, Node("block", "let", <<d, S>>)>>))) : d \in Declarations},
     {Function(Label(N("forof", <<Decl("let"), b, Blk(<<t>>)>>))) : t \in Deeper(leaves \union Return)}}

MCPrograms == LET families == Expressions(BOOLEAN) \union Statements(Leaf) \union {Initializers} IN families
=============================================================================
