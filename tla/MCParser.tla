------------------------------ MODULE MCParser ------------------------------
(***************************************************************************)
(* Programs for the parser: every construct in every operand and statement *)
(* position of another.                                                    *)
(***************************************************************************)
EXTENDS Parser, Grammar, Parsing

N(t, k)  == Node(t, "", k)
a == Id("a")
b == Id("b")
c == Id("c")
one == Node("number", "1", <<>>)

Expr(e)  == N("expr", <<e>>)
Blk(k)   == N("block", k)
Bind(t, init) == N("bind", <<t, init>>)
Par(binds, rest) == N("params", <<List(binds), rest>>)
NoParams == Par(<<>>, Nil)
Func(x, name, params, body) == Node("func", x, <<name, params, Blk(body), List(VarDeclarations(Blk(body)))>>)
ArrowBlock(x, params, body) == Node("arrow", x, <<params, Blk(body), List(VarDeclarations(Blk(body)))>>)
ArrowExpr(x, params, e)     == Node("arrow", x, <<params, N("exprbody", <<e>>), List(<<>>)>>)
OneA     == Par(<<Bind(a, Nil)>>, Nil)
Class(super, els) == N("class", <<Nil, super, List(els)>>)
Key1(x)  == Node("string", x, <<>>)
Computed(e) == N("computed", <<e>>)
MethodOf(x, key, fx, params, body) == Node("method", x, <<key, Func(fx, Nil, params, body)>>)
Field(x, key, init) == Node("field", x, <<key, init>>)
StaticBlock(body) == N("static", <<Blk(body), List(VarDeclarations(Blk(body)))>>)
Bin(op, l, r) == Node("binary", op, <<l, r>>)
Asg(op, l, r) == Node("assign", op, <<l, r>>)
Dot(e)   == Node("dot", "b", <<e>>)
Chain(e) == N("chain", <<e>>)
Maybe(e) == N("optional", <<e>>)
Spread(e) == N("spread", <<e>>)
Bare(e)  == N("bare", <<e>>)
ArrPat(k, rest) == N("arrpat", <<List(k), rest>>)
ObjPat(k, rest) == N("objpat", <<List(k), rest>>)
Value(key, v) == Node("keyed", "value", <<key, v>>)
Short(x, init) == Node("short", x, <<init>>)
Super    == N("super", <<>>)

-----------------------------------------------------------------------------
(* Expressions                                                             *)

BinaryOps == <<"??", "||", "&&", "|", "^", "&", "==", "!==", "<", "in", "instanceof", "<<", ">>>", "+", "-", "*", "/", "%", "**">>

Patterns1(h) == <<ArrPat(<<a, Nil, Asg("=", b, h)>>, c), ArrPat(<<Dot(h), N("bracket", <<a, h>>)>>, ObjPat(<<Short("a", h)>>, Nil)),
                  ObjPat(<<Short("a", h), Value(Computed(h), Asg("=", Dot(b), h)), Value(Key1("if"), ArrPat(<<>>, Nil))>>, c)>>

\* With the operand h.
Contexts(h) ==
    All(BinaryOps, LAMBDA op : Bin(op, h, a)) \o All(BinaryOps, LAMBDA op : Bin(op, a, h))
    \o All(<<"-", "!", "delete", "typeof">>, LAMBDA op : Node("unary", op, <<h>>))
    \o <<N("await", <<h>>), N("yield", <<h>>), Node("yield", "*", <<h>>)>>
    \o All(<<<<h, a, b>>, <<a, h, b>>, <<a, b, h>>>>, LAMBDA k : N("cond", k))
    \o <<N("seq", <<h, a>>), N("seq", <<a, h>>)>>
    \o All(<<"=", "+", "**", "&&", "??">>, LAMBDA op : Asg(op, a, h))
    \o <<Node("passign", "=", <<a, h>>), Asg("=", Dot(h), a), Asg("-", N("bracket", <<h, h>>), a), Node("postfix", "--", <<Dot(h)>>)>>
    \o All(Patterns1(h), LAMBDA pattern : Asg("=", pattern, a))
    \o <<N("call", <<h, a>>), N("call", <<a, h, Spread(h)>>), Node("new", "()", <<h, a>>), Node("new", "()", <<a, h>>), Node("new", "", <<h>>),
         Dot(h), Node("dot", "if", <<h>>), Node("pdot", "#p", <<h>>), N("bracket", <<h, a>>), N("bracket", <<a, h>>)>>
    \o All(<<Dot(Maybe(h)), N("call", <<Maybe(h), a>>), N("bracket", <<Maybe(h), h>>), Node("pdot", "#p", <<Maybe(h)>>),
              N("call", <<Dot(Maybe(h))>>), Dot(Maybe(Dot(Maybe(h)))), Dot(N("call", <<Maybe(Dot(h)), h>>))>>, Chain)
    \o <<N("template", <<Nil, h, a>>), N("template", <<h>>), N("template", <<a, h>>),
         Bin("in", Node("private", "#p", <<>>), h), N("call", <<Import, h>>), N("call", <<Super, h>>), N("bracket", <<Super, h>>),
         N("array", <<h, Nil, a>>), Node("array", ",", <<h, Nil, a>>), N("array", <<Spread(h), Nil>>), N("array", <<a, Nil, h>>)>>
    \o All(<<<<Value(Key1("a"), h), Short("b", Nil)>>, <<Value(Computed(h), a), Spread(h)>>,
              <<Node("keyed", "get", <<Computed(h), Func("", Nil, NoParams, <<Expr(a)>>)>>)>>,
              <<Node("keyed", "method", <<Computed(h), Func("async*", Nil, NoParams, <<Expr(h)>>)>>)>>>>, LAMBDA k : N("object", k))
    \o <<ArrowExpr("", OneA, h), ArrowExpr("async", OneA, h), ArrowExpr("", Par(<<Bind(a, h)>>, Nil), b),
         ArrowExpr("async", Par(<<Bind(a, h), Bind(b, Nil)>>, Nil), b), Func("*", a, Par(<<Bind(a, Nil), Bind(b, h)>>, Nil), <<>>),
         Class(h, <<>>), Class(Nil, <<Field("", Key1("a"), h), Field("static ", Computed(h), Nil)>>),
         Class(a, <<MethodOf("static method", Computed(h), "async", NoParams, <<Expr(a)>>)>>)>>

\* One for each level of precedence, each way to begin and each way to end.
Operands ==
    <<a, one, N("seq", <<a, b>>), Asg("=", a, b), Asg("**", Dot(a), b), ArrowExpr("", OneA, b), ArrowExpr("async", OneA, b),
      ArrowExpr("", NoParams, N("object", <<>>)), ArrowBlock("", Par(<<Bind(a, Nil), Bind(b, one)>>, Nil), <<Expr(a)>>),
      N("yield", <<a>>), N("yield", <<Nil>>), N("cond", <<a, b, c>>)>>
    \o All(<<"??", "||", "&&", "|", "^", "&", "===", "in", ">>", "+", "/", "**">>, LAMBDA op : Bin(op, a, b))
    \o <<Node("unary", "-", <<a>>), N("await", <<a>>), Node("unary", "++", <<Dot(a)>>), Node("postfix", "++", <<a>>),
         N("call", <<a>>), Chain(Dot(Maybe(a))), Chain(N("call", <<Maybe(a)>>)), Node("new", "", <<a>>), Node("new", "()", <<Dot(a)>>),
         Node("new", "", <<N("new", <<a>>)>>), Dot(N("call", <<a>>)), Dot(Super), Node("meta", "new.target", <<>>),
         N("template", <<Nil, a>>), N("template", <<N("call", <<a>>)>>), N("regexp", <<>>), Node("this", "this", <<>>),
         Func("", Nil, OneA, <<Node("var", "var", <<Bind(b, Nil)>>)>>), Func("async", a, NoParams, <<>>), Class(Nil, <<>>),
         N("object", <<Short("a", Nil)>>), N("array", <<a>>), Asg("=", ArrPat(<<a>>, Nil), b), Asg("=", ObjPat(<<Short("a", Nil)>>, Nil), b)>>

\* What the parser is known to take although the grammar does not: yield in the body of
\* an arrow function, await and yield in the initializer of a field.
RECURSIVE Has(_, _), Known(_)
Has(n, ts) == n.t \in ts \/ (n.t \notin {"func"} /\ \E i \in DOMAIN n.k : Has(n.k[i], ts))
Known(n) == \/ n.t = "exprbody" /\ Has(n, {"yield"})
            \/ n.t = "field" /\ Has(n.k[2], {"await", "yield"})
            \/ \E i \in DOMAIN n.k : Known(n.k[i])

InGenerator(e) == [body |-> <<N("funcdecl", <<Func("async*", Id("f"), NoParams, <<Expr(e)>>)>>)>>, module |-> FALSE]
Expressions1 == All(SelectSeq(FlattenSeq(All(Operands, Contexts)), LAMBDA e : ~Known(e)), InGenerator)

-----------------------------------------------------------------------------
(* Statements                                                              *)

L(s)    == Node("label", "L", <<s>>)
Var(k)  == Node("var", "var", k)
Let(x, k) == Node("lexical", x, k)
Branch1(x, label) == Node("branch", x, <<label>>)
For(init, test, step, s) == N("for", <<init, test, step, s>>)
Decl1(x, k) == Node("initdecl", x, k)
Case(test, k) == N("case", <<test>> \o k)
Try(body, catch, final) == N("try", <<body, catch, final>>)
Catch(param, k) == N("catch", <<param, Blk(k)>>)
FuncDecl(f) == N("funcdecl", <<f>>)
BindPattern == ArrPat(<<a, Asg("=", b, one)>>, c)

Leaves == <<Expr(a), N("empty", <<>>), N("debugger", <<>>), N("return", <<Nil>>), N("return", <<N("seq", <<a, b>>)>>), N("throw", <<a>>),
            Branch1("break", Nil), Branch1("continue", Nil), Branch1("break", Id("L")), Branch1("continue", Id("L")),
            Var(<<Bind(a, Nil), Bind(BindPattern, b)>>), Let("let", <<Bind(a, one)>>), Let("const", <<Bind(ObjPat(<<Short("a", one)>>, b), c)>>),
            Let("let", <<Bind(BindPattern, Nil)>>), N("classdecl", <<N("class", <<a, Nil, List(<<>>)>>)>>),
            Expr(N("await", <<a>>)), Expr(N("yield", <<a>>)), Expr(Asg("=", a, b)), Expr(Node("postfix", "++", <<a>>)), Expr(Asg("=", Id("await"), b)),
            Expr(N("object", <<>>)), Expr(Func("", Nil, NoParams, <<>>)), L(Expr(a)),
            Expr(ArrowExpr("", OneA, b)), Try(Blk(<<>>), Nil, Nil)>>

\* Those whose legality depends on what is around them.
Jumps == <<N("return", <<a>>), Branch1("break", Nil), Branch1("continue", Nil), Branch1("break", Id("L")), Branch1("continue", Id("L")),
           Let("let", <<Bind(a, one)>>), Expr(N("await", <<a>>)), Expr(N("yield", <<a>>)), L(Expr(a))>>

\* Statements around s; the last ones start a function.
Nests(s) ==
    <<Blk(<<s, s>>), N("if", <<a, s, Nil>>), N("if", <<a, s, Expr(b)>>), N("if", <<a, Blk(<<>>), s>>), N("while", <<a, s>>), N("dowhile", <<s, a>>),
      N("with", <<a, s>>), L(s), L(N("while", <<a, s>>)),
      For(Nil, Nil, Nil, s), For(N("initexpr", <<a>>), b, c, s), For(Decl1("var", <<Bind(a, one), Bind(b, Nil)>>), a, Nil, s),
      For(Decl1("let", <<Bind(BindPattern, c)>>), Nil, b, s),
      N("forin", <<N("intovar", <<Bind(a, Nil)>>), N("seq", <<b, c>>), s>>), N("forin", <<Node("intodecl", "let", <<a>>), b, s>>),
      N("forin", <<N("intoexpr", <<Dot(a)>>), b, s>>), N("forof", <<Node("intodecl", "const", <<BindPattern>>), b, s>>),
      N("forof", <<N("intovar", <<Bind(BindPattern, Nil)>>), b, s>>), N("forof", <<N("intoexpr", <<ObjPat(<<Short("a", one)>>, Nil)>>), b, s>>),
      N("switch", <<a, Case(one, <<s, s>>), Case(Nil, <<>>)>>), N("switch", <<a, Case(Nil, <<s>>), Case(b, <<Expr(b)>>)>>),
      Try(Blk(<<s>>), Catch(Nil, <<>>), Nil), Try(Blk(<<>>), Catch(BindPattern, <<s>>), Blk(<<>>)), Try(Blk(<<>>), Nil, Blk(<<s>>)),
      FuncDecl(Func("", Id("f"), NoParams, <<s>>)), FuncDecl(Func("async", Id("f"), OneA, <<s>>)), FuncDecl(Func("*", Id("f"), NoParams, <<s>>)),
      Expr(ArrowBlock("async", OneA, <<s>>)),
      Expr(Class(Nil, <<MethodOf("get", Key1("a"), "", NoParams, <<s>>), MethodOf("set", Key1("a"), "", OneA, <<s>>), StaticBlock(<<s>>)>>)),
      Expr(N("object", <<Node("keyed", "method", <<Key1("a"), Func("async*", Nil, NoParams, <<s>>)>>)>>))>>

RECURSIVE OpenIf(_), Avoided(_, _)
\* An else after it would be its own.
OpenIf(n) == \/ n.t = "if" /\ (n.k[3] = Nil \/ OpenIf(n.k[3]))
             \/ n.t \in {"while", "with", "label", "for", "forin", "forof"} /\ OpenIf(Last(n.k))

\* No text has this tree, or the parser leaves the rule to the compiler (functions and
\* return where they may not be, continue to a label that is not a loop's).
Avoided(n, labels) ==
    \/ n.t = "if" /\ n.k[3] # Nil /\ OpenIf(n.k[2])
    \/ n.t \in {"if", "while", "dowhile", "with", "label", "for", "forin", "forof"} /\ \E i \in DOMAIN n.k : n.k[i].t = "funcdecl"
    \/ n.t = "static" /\ Has(n, {"return"})
    \/ n.t = "branch" /\ n.x = "continue" /\ n.k[1] # Nil /\ n.k[1].x \in labels
    \/ \E i \in DOMAIN n.k :
          Avoided(n.k[i], IF n.t \in {"func", "arrow", "static"} THEN {}
                          ELSE IF n.t = "label" /\ n.k[1].t # "while" THEN labels \union {n.x}
                          ELSE IF n.t = "label" THEN labels \ {n.x} ELSE labels)

InScript(s) == [body |-> <<s, Expr(a)>>, module |-> FALSE]
InModule(s) == [body |-> <<Expr(a), s>>, module |-> TRUE]
Nested(leaves) == FlattenSeq(All(leaves, Nests))
Kept(ss) == SelectSeq(ss, LAMBDA s : ~Avoided(s, {}))
\* The parser takes await for a name in the functions of a module.
ModuleLeaves == SelectSeq(Leaves, LAMBDA s : s # Expr(Asg("=", Id("await"), b)))
Statements1 == All(Kept(Leaves \o Nested(Leaves)), InScript) \o All(Kept(ModuleLeaves \o Nested(ModuleLeaves)), InModule)
DeepStatements == All(Jumps, LAMBDA s : All(Kept(Nested(Nests(s))), InScript))

-----------------------------------------------------------------------------
(* Members, parameters, targets and module items                           *)

Keys == <<Key1("a"), Key1("get"), Key1("set"), Key1("static"), Key1("async"), Key1("constructor"), Key1("prototype"), Key1("if"), Key1("'s'"),
          Node("number", "1", <<>>), Node("private", "#p", <<>>), Computed(a)>>
TwoParams == Par(<<Bind(a, Nil), Bind(b, Nil)>>, Nil)
RestParam == Par(<<>>, a)

Methods(static, key) ==
    All(<<"", "async", "*", "async*">>, LAMBDA fx : MethodOf(Static(static, "method"), key, fx, TwoParams, <<>>))
    \o All(<<NoParams, OneA>>, LAMBDA params : MethodOf(Static(static, "get"), key, "", params, <<>>))
    \o All(<<NoParams, OneA, TwoParams, RestParam>>, LAMBDA params : MethodOf(Static(static, "set"), key, "", params, <<>>))
    \o <<Field(Static(static, ""), key, Nil), Field(Static(static, ""), key, b)>>
ClassOf(el) == Expr(Class(Nil, <<el, MethodOf("method", Key1("b"), "", NoParams, <<>>), el, Field("", Key1("a"), Nil)>>))
\* A field called get, set or static on a line of its own is a modifier of the next, and
\* the line break after a keyword is lost.
Members == SelectSeq(FlattenSeq(All(Keys, LAMBDA key : Methods(FALSE, key) \o Methods(TRUE, key))),
                     LAMBDA el : ~(el.t = "field" /\ el.k[2] = Nil /\ el.k[1].x \in {"get", "set", "static", "async", "if"}))

Properties(key) ==
    All(<<"", "async", "*", "async*">>, LAMBDA fx : Node("keyed", "method", <<key, Func(fx, Nil, TwoParams, <<>>)>>))
    \o All(<<NoParams, OneA>>, LAMBDA params : Node("keyed", "get", <<key, Func("", Nil, params, <<>>)>>))
    \o All(<<OneA, RestParam>>, LAMBDA params : Node("keyed", "set", <<key, Func("", Nil, params, <<>>)>>))
    \o <<Value(key, b)>>
ObjectOf(prop) == Expr(Asg("=", a, N("object", <<prop, Short("b", Nil), prop>>)))
ObjectKeys == SelectSeq(Keys, LAMBDA key : key.t # "private")

Lists == <<NoParams, OneA, TwoParams, RestParam, Par(<<Bind(a, one)>>, Nil), Par(<<Bind(BindPattern, Nil)>>, Nil),
           Par(<<Bind(a, Nil), Bind(ObjPat(<<Short("b", one), Value(Key1("c"), Asg("=", ArrPat(<<a>>, Nil), b))>>, Nil), one)>>, BindPattern),
           Par(<<Bind(BindPattern, N("array", <<>>))>>, Nil), Par(<<Bind(a, Nil)>>, Asg("=", b, one)),
           Par(<<Bind(Id("await"), Nil)>>, Nil), Par(<<Bind(a, ArrowExpr("", TwoParams, a)), Bind(b, Nil)>>, Nil),
           Par(<<Bind(ObjPat(<<>>, b), Nil), Bind(ArrPat(<<Nil, a>>, Nil), Nil)>>, Nil)>>
Functions1(params) ==
    All(<<"", "async">>, LAMBDA x : Expr(ArrowExpr(x, params, b))) \o All(<<"", "async">>, LAMBDA x : Expr(ArrowBlock(x, params, <<Expr(a)>>)))
    \o All(<<"", "async", "*">>, LAMBDA x : FuncDecl(Func(x, Id("f"), params, <<Expr(a)>>)))
    \o All(<<"async", "async*">>, LAMBDA x : Expr(Asg("=", a, Func(x, Id("f"), params, <<Expr(a)>>))))

NotTargets == <<N("call", <<a>>), one, Chain(Dot(Maybe(a))), Bin("+", a, b), Node("this", "this", <<>>), Node("new", "()", <<a>>), Id("if"), Id("@if"),
                Id("@let"), Id("let"), Id("@await"), Id("async"), Id("static"), Id("of"), Id("enum"), Node("meta", "new.target", <<>>), Dot(a)>>
\* What would need parentheses.
Unparenthesised ==
    <<Bin("**", Bare(Node("unary", "-", <<a>>)), b), Bin("??", Bare(Bin("||", a, b)), c), Bin("??", Bare(Bin("&&", a, b)), c), Bin("||", Bare(Bin("??", a, b)), c),
      Bin("??", a, Bare(Bin("&&", b, c))), Bin("||", a, Bare(ArrowExpr("", OneA, b))), N("call", <<Bare(ArrowBlock("", NoParams, <<>>))>>),
      Bin("+", a, Bare(ArrowExpr("async", OneA, b))), Node("postfix", "++", <<Bare(Node("postfix", "++", <<a>>))>>),
      Node("unary", "++", <<Bare(Node("postfix", "++", <<a>>))>>), Bin("+", one, Bare(Asg("=", a, b))), Dot(Bare(ArrowBlock("", OneA, <<>>))),
      Asg("=", Bare(Bin("||", a, b)), one), Asg("+", Bare(ArrPat(<<a>>, Nil)), b), Chain(N("template", <<Dot(Maybe(a)), b>>)),
      N("call", <<Import>>), N("call", <<Import, a, b>>), N("call", <<Import, Spread(a)>>), Node("meta", "import.meta", <<>>), Asg("=", a, Bare(ObjPat(<<>>, Id("if")))),
      Bin("+", Super, a), Asg("=", a, Super), Node("pdot", "#p", <<Super>>), Chain(Dot(Maybe(Super))), N("template", <<Super, a>>)>>

Targets == FlattenSeq(All(NotTargets, LAMBDA t :
    <<Asg("=", t, a), Asg("+", t, a), Node("unary", "++", <<t>>), Node("postfix", "--", <<t>>), Asg("=", ArrPat(<<t>>, Nil), b),
      Asg("=", ObjPat(<<Value(Key1("a"), t)>>, Nil), b)>>))
Heads == FlattenSeq(All(NotTargets \o <<BindPattern>>, LAMBDA t :
    <<N("forof", <<N("intoexpr", <<t>>), a, Expr(b)>>), N("forin", <<N("intoexpr", <<t>>), a, Expr(b)>>)>>))
    \o FlattenSeq(All(<<a, BindPattern>>, LAMBDA t :
        <<N("forof", <<N("intovar", <<Bind(t, one)>>), a, Expr(b)>>), N("forin", <<N("intovar", <<Bind(t, one)>>), a, Expr(b)>>),
          Node("forin", "await", <<N("intovar", <<Bind(t, Nil)>>), a, Expr(b)>>), Node("forof", "await", <<N("intovar", <<Bind(t, Nil)>>), a, Expr(b)>>),
          Node("for", "await", <<Decl1("let", <<Bind(t, one)>>), a, Nil, Expr(b)>>), For(Decl1("const", <<Bind(t, Nil)>>), a, Nil, Expr(b)),
          Node("forof", "await", <<N("intoexpr", <<t>>), a, Expr(b)>>)>>))
    \o <<Node("for", "await", <<Nil, Nil, Nil, Expr(b)>>), Node("forof", "await", <<N("intoexpr", <<Id("async")>>), a, Expr(b)>>)>>

Spec1(x, alias) == Node("specifier", x, <<alias>>)
Str == Node("string", "'s'", <<>>)
Clause1(x, k) == Node("clause", x, k)
Names1 == List(<<Spec1("a", Nil), Spec1("if", b)>>)
ModuleItems ==
    <<N("import", <<Nil, Str>>), N("import", <<Clause1("a", <<>>), Str>>), N("import", <<Clause1("a", <<Names1>>), Str>>), N("import", <<Clause1("", <<Names1>>), Str>>),
      N("import", <<Clause1("", <<Node("namespace", "c", <<>>)>>), Str>>), N("import", <<Clause1("a", <<Node("namespace", "c", <<>>)>>), Str>>),
      Node("export", "from", <<Node("all", "", <<>>), Str>>), Node("export", "from", <<Node("all", "c", <<>>), Str>>),
      Node("export", "from", <<Names1, Str>>), Node("export", "from", <<List(<<Spec1("a", Id("default"))>>), Nil>>), Node("export", "decl", <<Var(<<Bind(a, one)>>)>>),
      Node("export", "decl", <<Let("let", <<Bind(BindPattern, a)>>)>>), Node("export", "decl", <<Let("const", <<Bind(BindPattern, Nil)>>)>>),
      Node("export", "decl", <<FuncDecl(Func("async*", a, NoParams, <<>>))>>), Node("export", "decl", <<FuncDecl(Func("", a, NoParams, <<>>))>>),
      Node("export", "decl", <<N("classdecl", <<N("class", <<a, b, List(<<>>)>>)>>)>>), Node("export", "default", <<Asg("=", a, N("object", <<>>))>>),
      Node("export", "default", <<FuncDecl(Func("", Id("default"), NoParams, <<>>))>>), Node("export", "default", <<FuncDecl(Func("async", a, NoParams, <<>>))>>),
      Node("export", "default", <<N("classdecl", <<Class(Nil, <<>>)>>)>>), Node("export", "default", <<Dot(Func("", Nil, NoParams, <<>>))>>),
      Node("export", "decl", <<Expr(a)>>), Node("export", "decl", <<Expr(ArrowExpr("", OneA, b))>>), Node("export", "decl", <<N("return", <<a>>)>>),
      Expr(Dot(Node("meta", "import.meta", <<>>))), Expr(N("call", <<Import, a>>)), Expr(Asg("=", a, N("await", <<b>>))),
      Expr(ArrowBlock("async", NoParams, <<Expr(N("await", <<a>>))>>)), FuncDecl(Func("async", a, NoParams, <<Expr(N("await", <<b>>))>>))>>

Small == All(Members, ClassOf) \o All(FlattenSeq(All(ObjectKeys, Properties)), ObjectOf) \o FlattenSeq(All(Lists, Functions1))
         \o All(Targets \o Unparenthesised, Expr) \o Heads \o Nested(SubSeq(Heads, Len(Heads) - 8, Len(Heads)))
Modules1 == All(ModuleItems, InModule) \o All(ModuleItems, InScript) \o All(Kept(Nested(ModuleItems)), InModule)
Small1 == All(Small, InScript)

-----------------------------------------------------------------------------

\* The short programs have a line break between any two words too.  (The parser takes
\* a semicolon after export async, as it takes anything but a function there.)
LayoutsOf(p) ==
    LET s  == Lexemes(FlattenSeq(All(p.body, Text)), "")
        At1(line, i) == [line |-> line, i |-> i, gap |-> IF i % 2 = 0 \/ s[i - 1].w = "async" THEN "NL" ELSE "CM"]
        ls == {[line |-> "harmless", i |-> 0, gap |-> gap] : gap \in {"", "NL"}}
              \union (IF Len(s) > 16 THEN {}
                      ELSE {At1("harmless", i) : i \in {j \in 2..Len(s) : Harmless(s, j)}}
                           \union {At1("restricted", i) : i \in {j \in 2..Len(s) : Restricted(s, j) /\ ~(s[j - 1].w = "async" /\ j > 2 /\ s[j - 2].w = "export")}})
    IN  ls

ParseOf(p, l) ==
    LET words == FlattenSeq(All(p.body, Text))
        s     == Lexemes(words, IF l.i = 0 THEN l.gap ELSE "")
        text  == CASE l.i = 0 -> s
                   [] l.i # 0 /\ l.line = "semicolon" -> Semicolon(s, l.i)
                   [] OTHER -> Break(s, l.i, l.gap)
        r     == parse(text, p.module)
    IN  IF r.errs THEN [errs |-> TRUE] ELSE r

ExpectedOf(p) ==
    LET ctx   == IF p.module THEN Module ELSE Script
        tree  == All(p.body, Spelled)
    IN  [legal   |-> \A i \in DOMAIN p.body : Legal(p.body[i], ctx),
         outcome |-> [errs |-> FALSE, body |-> tree, declarationList |-> VarDeclarations(List(tree)),
                      entries |-> SelectSeq(tree, LAMBDA n : n.t \in {"import", "export"}),
                      hasTLA |-> p.module /\ HasAwait(List(tree))]]

MCPrograms == LET families == <<Expressions1, Statements1, Small1, Modules1>> \o DeepStatements IN families
=============================================================================
