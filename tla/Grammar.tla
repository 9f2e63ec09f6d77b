------------------------------ MODULE Grammar ------------------------------
(***************************************************************************)
(* What the parser is measured by: how a syntax tree is written (Text) and *)
(* which trees a program may have (Legal).  Text has parentheses where the *)
(* precedences of the language need them and nowhere else, and "EOS" where *)
(* a statement ends that needs a semicolon or what stands for one.         *)
(***************************************************************************)
EXTENDS Lexer

Commas(parts)      == FlattenSeq([i \in DOMAIN parts |-> IF i = 1 THEN parts[i] ELSE <<",">> \o parts[i]])
In(open, s, close) == <<open>> \o s \o <<close>>
Opt(b, s)          == IF b THEN s ELSE <<>>
All(k, F(_))       == [i \in DOMAIN k |-> F(k[i])]

-----------------------------------------------------------------------------
(* Precedence                                                              *)

BinaryLevel(op) ==
    CASE op \in {"??", "||"} -> 3
      [] op = "&&" -> 4  [] op = "|" -> 5  [] op = "^" -> 6  [] op = "&" -> 7
      [] op \in {"==", "!=", "===", "!=="} -> 8
      [] op \in {"<", "<=", ">", ">=", "instanceof", "in"} -> 9
      [] op \in {"<<", ">>", ">>>"} -> 10
      [] op \in {"+", "-"} -> 11
      [] op \in {"*", "/", "%"} -> 12
      [] op = "**" -> 13

Sequence   == 0
Assignment == 1
Unary      == 14
Update     == 15
Call       == 16
New        == 17
Member     == 18
Primary    == 19

RECURSIVE Level(_), Text(_)

IsPrefixed(n) == n.t \in {"dot", "pdot", "bracket", "call"} \/ (n.t = "template" /\ n.k[1] # Nil)

\* Whether n is written without parentheses in front of a member or an argument list.
IsBase(n) == Level(n) >= Call /\ Level(n) # New /\ n.t # "chain"

\* How tightly an expression binds.
Level(n) ==
    CASE n.t = "seq" -> Sequence
      [] n.t \in {"assign", "passign", "arrow", "yield"} -> Assignment
      [] n.t = "cond"   -> 2
      [] n.t = "binary" -> BinaryLevel(n.x)
      [] n.t = "await" \/ (n.t = "unary" /\ n.x \notin {"++", "--"}) -> Unary
      [] n.t = "postfix" \/ (n.t = "unary" /\ n.x \in {"++", "--"})  -> Update
      [] n.t \in {"call", "chain", "optional"} -> Call
      [] n.t = "new"    -> IF n.x = "" THEN New ELSE Member
      [] n.t # "call" /\ IsPrefixed(n) -> IF IsBase(n.k[1]) /\ Level(n.k[1]) = Call THEN Call ELSE Member
      [] OTHER -> Primary

Write(n, level)  == IF Level(n) >= level THEN Text(n) ELSE In("(", Text(n), ")")
WriteBase(n)     == CASE n.t = "optional" -> (IF IsBase(n.k[1]) THEN Text(n.k[1]) ELSE In("(", Text(n.k[1]), ")")) \o <<"?.">>
                      [] n.t # "optional" -> IF IsBase(n) THEN Text(n) ELSE In("(", Text(n), ")")
\* ?? is not mixed with || and &&.
WriteOperand(n, op, level) ==
    IF n.t = "binary" /\ {op, n.x} \in {{"??", "||"}, {"??", "&&"}} THEN In("(", Text(n), ")") ELSE Write(n, level)

\* An expression where some first words would mean something else.
Guarded(n, level, firsts) ==
    LET s == Write(n, level)
    IN  IF \E first \in firsts : IsPrefix(first, s) THEN In("(", s, ")") ELSE s

-----------------------------------------------------------------------------
(* Expressions                                                             *)

Bound(n)  == Text(n.k[1]) \o Opt(n.k[2] # Nil, <<"=">> \o Write(n.k[2], Assignment))
Bounds(k) == Commas(All(k, Bound))
Params(n) == Commas(All(n.k[1].k, Bound) \o Opt(n.k[2] # Nil, <<<<"...">> \o Text(n.k[2])>>))

Comma(n) == IF n = Nil THEN <<",">> ELSE Write(n, Assignment) \o <<",">>
Elements(n) ==
    LET s == FlattenSeq(All(n.k, Comma))
    IN  IF n.k # <<>> /\ Last(n.k) # Nil /\ n.x = "" THEN Front(s) ELSE s
PatternElements(n) == IF n.k[2] = Nil THEN Elements(Node("array", "", n.k[1].k))
                      ELSE FlattenSeq(All(n.k[1].k, Comma)) \o <<"...">> \o Text(n.k[2])
PatternProperties(n) == Commas(All(n.k[1].k, Text) \o Opt(n.k[2] # Nil, <<<<"...">> \o Text(n.k[2])>>))

Async(x)  == x \in {"async", "async*"}
Star(x)   == x \in {"*", "async*"}
Block(n)  == In("{", FlattenSeq(All(n.k, Text)), "}")
Rest(f)   == In("(", Params(f.k[2]), ")") \o Block(f.k[3])
Function(f) == Opt(Async(f.x), <<"async">>) \o <<"function">> \o Opt(Star(f.x), <<"*">>)
               \o Opt(f.k[1] \notin {Nil, Id("default")}, Text(f.k[1])) \o Rest(f)
Key(n)    == IF n.t = "computed" THEN In("[", Write(n.k[1], Assignment), "]") ELSE <<n.x>>
\* A method, getter or setter, in a class or in an object.
Method(kind, key, f) == Opt(kind \in {"get", "set"}, <<kind>>) \o Opt(Async(f.x), <<"async">>) \o Opt(Star(f.x), <<"*">>)
                        \o Key(key) \o Rest(f)
ArrowParams(n) ==
    LET binds == n.k[1].k
    IN  IF Len(binds) = 1 /\ n.k[2] = Nil /\ binds[1].k[1].t = "id" /\ binds[1].k[2] = Nil
        THEN Text(binds[1].k[1]) ELSE In("(", Params(n), ")")

IsStatic(n) == n.x \in {"static ", "static method", "static get", "static set"}
ClassElement(n) ==
    LET static == IsStatic(n)
        kind   == CASE n.x = "static get" -> "get" [] n.x = "static set" -> "set" [] OTHER -> n.x
    IN  CASE n.t = "static" -> <<"static">> \o Block(n.k[1])
          [] n.t = "method" -> Opt(static, <<"static">>) \o Method(kind, n.k[1], n.k[2])
          [] n.t = "field"  -> Opt(static, <<"static">>) \o Key(n.k[1])
                               \o Opt(n.k[2] # Nil, <<"=">> \o Write(n.k[2], Assignment)) \o <<"EOS">>

Expression(n) ==
    LET A(i) == Write(n.k[i], Assignment)
        Args == In("(", Commas([i \in 1..Len(n.k) - 1 |-> A(i + 1)]), ")")
        level == BinaryLevel(n.x)
    IN  CASE n.t \in {"id", "number", "string", "boolean", "null", "this", "private"} -> <<n.x>>
          [] n.t = "bare"   -> Text(n.k[1])
          [] n.t = "seq"    -> Commas([i \in DOMAIN n.k |-> A(i)])
          [] n.t = "assign" -> Write(n.k[1], Call) \o <<IF n.x = "=" THEN "=" ELSE n.x \o "=">> \o A(2)
          [] n.t = "passign" -> In("(", Text(n.k[1]), ")") \o <<IF n.x = "=" THEN "=" ELSE n.x \o "=">> \o A(2)
          [] n.t = "yield"  -> <<"yield">> \o Opt(n.x = "*", <<"*">>) \o Opt(n.k[1] # Nil, A(1))
          [] n.t = "arrow"  -> Opt(Async(n.x), <<"async">>) \o ArrowParams(n.k[1]) \o <<"=>">>
                               \o (IF n.k[2].t = "block" THEN Block(n.k[2]) ELSE Guarded(n.k[2].k[1], Assignment, {<<"{">>}))
          [] n.t = "cond"   -> Write(n.k[1], 3) \o <<"?">> \o A(2) \o <<":">> \o A(3)
          [] n.t = "binary" -> WriteOperand(n.k[1], n.x, IF n.x = "**" THEN Update ELSE level) \o <<n.x>>
                               \o WriteOperand(n.k[2], n.x, IF n.x = "**" THEN level ELSE level + 1)
          [] n.t = "await"  -> <<"await">> \o Write(n.k[1], Unary)
          [] n.t = "unary"  -> <<n.x>> \o Write(n.k[1], IF n.x \in {"++", "--"} THEN Call ELSE Unary)
          [] n.t = "postfix" -> Write(n.k[1], Call) \o <<n.x>>
          [] n.t = "chain"  -> Text(n.k[1])
          [] n.t = "dot"    -> WriteBase(n.k[1]) \o Opt(n.k[1].t # "optional", <<".">>) \o <<n.x>>
          [] n.t = "pdot"   -> WriteBase(n.k[1]) \o Opt(n.k[1].t # "optional", <<".">>) \o <<n.x>>
          [] n.t = "bracket" -> WriteBase(n.k[1]) \o In("[", Write(n.k[2], Sequence), "]")
          [] n.t = "call"   -> WriteBase(n.k[1]) \o Args
          [] n.t = "new"    -> <<"new">> \o Write(n.k[1], IF n.x = "" THEN New ELSE Member) \o Opt(n.x = "()", Args)
          [] n.t = "meta"   -> IF n.x = "new.target" THEN <<"new", ".", "target">> ELSE <<"import", ".", "meta">>
          [] n.t = "super"  -> <<"super">>
          [] n.t = "import()" -> <<"import">>
          [] n.t = "spread" -> <<"...">> \o A(1)
          [] n.t = "regexp" -> <<"/", "a", "/">>
          [] n.t = "template" ->
                Opt(n.k[1] # Nil, WriteBase(n.k[1])) \o <<"tick">>
                \o FlattenSeq([i \in 1..Len(n.k) - 1 |-> In("piece${", Write(n.k[i + 1], Sequence), "}")]) \o <<"piece">>
          [] n.t = "array"  -> In("[", Elements(n), "]")
          [] n.t = "arrpat" -> In("[", PatternElements(n), "]")
          [] n.t = "object" -> In("{", Commas(All(n.k, Text)), "}")
          [] n.t = "objpat" -> In("{", PatternProperties(n), "}")
          [] n.t = "short"  -> <<n.x>> \o Opt(n.k[1] # Nil, <<"=">> \o A(1))
          [] n.t = "keyed"  -> IF n.x = "value" THEN Key(n.k[1]) \o <<":">> \o A(2) ELSE Method(n.x, n.k[1], n.k[2])
          [] n.t = "func"   -> Function(n)
          [] n.t = "class"  -> <<"class">> \o Opt(n.k[1] # Nil, Text(n.k[1]))
                               \o Opt(n.k[2] # Nil, <<"extends">> \o Write(n.k[2], Call))
                               \o In("{", FlattenSeq(All(n.k[3].k, ClassElement)), "}")

-----------------------------------------------------------------------------
(* Statements                                                              *)

Declaration == {<<"{">>, <<"function">>, <<"class">>, <<"async", "function">>, <<"let", "[">>}

Specifier(n) == <<n.x>> \o Opt(n.k[1] # Nil, <<"as">> \o Text(n.k[1]))
Named(n)     == In("{", Commas(All(n.k, Specifier)), "}")
Clause(n)    == CASE n.t = "list" -> Named(n)
                  [] n.t = "namespace" -> <<"*", "as", n.x>>
                  [] n.t = "all" -> <<"*">> \o Opt(n.x # "", <<"as", n.x>>)
                  [] n.t = "clause" -> Commas(Opt(n.x # "", <<<<n.x>>>>) \o All(n.k, LAMBDA m : IF m.t = "list" THEN Named(m) ELSE <<"*", "as", m.x>>))

\* What is in the parentheses of a for statement before in, of or the first semicolon.
ForHead(n) ==
    CASE n = Nil -> <<>>
      [] n.t = "initdecl" -> <<n.x>> \o Bounds(n.k)
      [] n.t = "initexpr" -> Text(n.k[1])
      [] n.t = "intovar"  -> <<"var">> \o Bound(n.k[1])
      [] n.t = "intodecl" -> <<n.x>> \o Text(n.k[1])
      [] n.t = "intoexpr" -> Text(n.k[1])

Statement(n) ==
    LET E(i) == Text(n.k[i])
        P(i) == In("(", Text(n.k[i]), ")")
        S == FlattenSeq(All(Tail(n.k), Text))
        For(s) == <<"for">> \o Opt(n.x = "await", <<"await">>) \o In("(", s, ")")
    IN  CASE n.t = "expr"     -> Guarded(n.k[1], Sequence, Declaration) \o <<"EOS">>
          [] n.t = "empty"    -> <<";">>
          [] n.t = "block"    -> Block(n)
          [] n.t = "label"    -> <<n.x, ":">> \o E(1)
          [] n.t = "if"       -> <<"if">> \o P(1) \o E(2) \o Opt(n.k[3] # Nil, <<"else">> \o E(3))
          [] n.t = "while"    -> <<"while">> \o P(1) \o E(2)
          [] n.t = "with"     -> <<"with">> \o P(1) \o E(2)
          [] n.t = "dowhile"  -> <<"do">> \o E(1) \o <<"while">> \o P(2) \o <<"EOS">>
          [] n.t = "for"      -> For(ForHead(n.k[1]) \o <<";">> \o Opt(n.k[2] # Nil, E(2)) \o <<";">> \o Opt(n.k[3] # Nil, E(3))) \o E(4)
          [] n.t = "forin"    -> For(ForHead(n.k[1]) \o <<"in">> \o E(2)) \o E(3)
          [] n.t = "forof"    -> For(ForHead(n.k[1]) \o <<"of">> \o Write(n.k[2], Assignment)) \o E(3)
          [] n.t \in {"var", "lexical"} -> <<n.x>> \o Bounds(n.k) \o <<"EOS">>
          [] n.t \in {"funcdecl", "classdecl"} -> E(1)
          [] n.t \in {"return", "throw"} -> <<n.t>> \o Opt(n.k[1] # Nil, E(1)) \o <<"EOS">>
          [] n.t = "branch"   -> <<n.x>> \o Opt(n.k[1] # Nil, E(1)) \o <<"EOS">>
          [] n.t = "debugger" -> <<"debugger", "EOS">>
          [] n.t = "switch"   -> <<"switch">> \o P(1) \o In("{", S, "}")
          [] n.t = "case"     -> (IF n.k[1] = Nil THEN <<"default">> ELSE <<"case">> \o E(1)) \o <<":">> \o S
          [] n.t = "try"      -> <<"try">> \o E(1) \o Opt(n.k[2] # Nil, E(2)) \o Opt(n.k[3] # Nil, <<"finally">> \o E(3))
          [] n.t = "catch"    -> <<"catch">> \o Opt(n.k[1] # Nil, P(1)) \o E(2)
          [] n.t = "import"   -> <<"import">> \o (IF n.k[1] = Nil THEN E(2) \o <<"EOS">>
                                                   ELSE Clause(n.k[1]) \o <<"from">> \o E(2) \o <<"BREAK">>)
          [] n.t = "export"   ->
                CASE n.x = "default" -> <<"export", "default">> \o
                                        (IF n.k[1].t \in {"funcdecl", "classdecl"} THEN E(1)
                                         ELSE Guarded(n.k[1], Assignment, Declaration) \o <<"EOS">>)
                  [] n.x = "decl"    -> <<"export">> \o E(1)
                  [] n.x = "from"    -> <<"export">> \o Clause(n.k[1]) \o Opt(n.k[2] # Nil, <<"from">> \o E(2)) \o <<"EOS">>

Statements == {"expr", "empty", "block", "label", "if", "while", "with", "dowhile", "for", "forin", "forof", "var", "lexical",
               "funcdecl", "classdecl", "return", "throw", "branch", "debugger", "switch", "case", "try", "catch", "import", "export"}
Text(n) == IF n.t \in Statements THEN Statement(n) ELSE Expression(n)

-----------------------------------------------------------------------------
(* Which trees are programs                                                *)

\* The var declarations of a function, in the order of the source.
RECURSIVE VarDeclarations(_)
VarDeclarations(n) ==
    CASE n.t \in {"func", "arrow", "static"} -> <<>>
      [] n.t = "var" \/ (n.t = "initdecl" /\ n.x = "var") -> <<List(n.k)>>
      [] n.t = "intovar" -> <<List(n.k)>>
      [] OTHER -> FlattenSeq(All(n.k, VarDeclarations))

\* Whether await is used outside functions.
RECURSIVE HasAwait(_)
HasAwait(n) == n.t = "await" \/ (n.t \notin {"func", "arrow", "static"} /\ \E i \in DOMAIN n.k : HasAwait(n.k[i]))

\* Where a statement or an expression is.
Script == [module |-> FALSE, top |-> TRUE, list |-> TRUE, fn |-> FALSE, async |-> FALSE, generator |-> FALSE,
           static |-> FALSE, params |-> FALSE, iteration |-> FALSE, switch |-> FALSE, labels |-> {}]
Module == [Script EXCEPT !.module = TRUE, !.async = TRUE]

InFunction(c, x) == [Script EXCEPT !.module = c.module, !.top = FALSE, !.fn = TRUE, !.async = Async(x), !.generator = Star(x)]

Inside(n, i, c) ==
    CASE n.t \in {"func", "arrow"} -> [InFunction(c, n.x) EXCEPT !.params = n.k[i].t = "params"]
      [] n.t = "static" -> [InFunction(c, "") EXCEPT !.static = TRUE]
      [] n.t \in {"while", "dowhile", "for", "forin", "forof"} -> [c EXCEPT !.top = FALSE, !.list = FALSE, !.iteration = TRUE]
      [] n.t \in {"if", "with"} -> [c EXCEPT !.top = FALSE, !.list = FALSE]
      [] n.t = "label"  -> [c EXCEPT !.top = FALSE, !.list = FALSE, !.labels = @ \union {n.x}]
      [] n.t = "switch" -> [c EXCEPT !.top = FALSE, !.list = TRUE, !.switch = TRUE]
      [] OTHER          -> [c EXCEPT !.top = FALSE, !.list = TRUE]

IsSimpleTarget(n) == n.t \in {"id", "dot", "pdot", "bracket"}
IsBindingPattern(n) == n.t \in {"arrpat", "objpat"}
IsTarget(n) == n = Nil \/ IsSimpleTarget(n) \/ IsBindingPattern(n) \/ (n.t = "assign" /\ n.x = "=")
IsName(x, c) == /\ x \notin Reserved \union {"@if", "enum"}
                /\ x \in {"await", "@await"} => ~c.async /\ ~c.static /\ ~c.module
                /\ x = "yield" => ~c.generator

Accessor(kind, f) ==
    LET params == f.k[2].k IN  CASE kind \in {"get", "static get"} -> params[1].k = <<>> /\ params[2] = Nil
                                 [] kind \in {"set", "static set"} -> Len(params[1].k) = 1 /\ params[2] = Nil
                                 [] OTHER -> TRUE

ElementName(n) ==
    LET key == n.k[1]
    IN  /\ IsStatic(n) => key # Node("string", "prototype", <<>>)
        /\ key = Node("string", "constructor", <<>>) => n.t = "method" /\ (IsStatic(n) \/ (n.x = "method" /\ n.k[2].x = ""))
        /\ n.t = "field" => key # Node("private", "#constructor", <<>>)

RECURSIVE InChain(_)
InChain(n) == n.t = "optional" \/ (IsPrefixed(n) /\ InChain(n.k[1]))

Here(n, c) ==
    CASE n.t = "id"     -> IsName(n.x, c)
      [] n.t = "label"  -> IsName(n.x, c) /\ n.x \notin c.labels
      [] n.t = "return" -> c.fn
      [] n.t = "throw"  -> n.k[1] # Nil
      [] n.t = "branch" -> IF n.k[1] # Nil THEN n.k[1].x \in c.labels /\ (n.x = "continue" => c.iteration)
                           ELSE c.iteration \/ (c.switch /\ n.x = "break")
      [] n.t = "await"  -> c.async /\ ~c.params
      [] n.t = "yield"  -> c.generator /\ ~c.params
      [] n.t \in {"lexical", "classdecl"} /\ ~c.list -> FALSE
      [] n.t \in {"var", "lexical", "initdecl"} -> \A i \in DOMAIN n.k : IsBindingPattern(n.k[i].k[1]) => n.k[i].k[2] # Nil
      [] n.t = "for"    -> n.x # "await"
      [] n.t = "forin"  -> /\ n.x # "await"
                           /\ n.k[1].t = "intovar" /\ n.k[1].k[1].k[2] # Nil => n.k[1].k[1].k[1].t = "id"
      [] n.t = "forof"  -> /\ n.x = "await" => c.async
                           /\ n.k[1].t = "intoexpr" => n.k[1].k[1] # Id("let") /\ (n.k[1].k[1] = Id("async") => n.x = "await")
                           /\ n.k[1].t = "intovar" => n.k[1].k[1].k[2] = Nil
      [] n.t = "intoexpr" -> IsSimpleTarget(n.k[1]) \/ IsBindingPattern(n.k[1])
      [] n.t = "switch" -> \A i, j \in 2..Len(n.k) : n.k[i].k[1] = Nil /\ n.k[j].k[1] = Nil => i = j
      [] n.t = "try"    -> n.k[2] # Nil \/ n.k[3] # Nil
      [] n.t = "params" -> n.k[2] \in {Nil} \/ n.k[2].t = "id" \/ IsBindingPattern(n.k[2])
      [] n.t = "keyed" /\ n.x # "value" -> Accessor(n.x, n.k[2])
      [] n.t = "method" -> Accessor(n.x, n.k[2]) /\ ElementName(n)
      [] n.t = "field"  -> ElementName(n)
      [] n.t = "postfix" \/ (n.t = "unary" /\ n.x \in {"++", "--"}) -> IsSimpleTarget(n.k[1])
      [] n.t = "assign" -> IsSimpleTarget(n.k[1]) \/ (n.x = "=" /\ IsBindingPattern(n.k[1]))
      [] n.t = "arrpat" -> \A i \in DOMAIN n.k[1].k : IsTarget(n.k[1].k[i])
      [] n.t = "objpat" -> \A i \in DOMAIN n.k[1].k : n.k[1].k[i].t = "keyed" => IsTarget(n.k[1].k[i].k[2])
      [] n.t = "template" -> ~InChain(n.k[1])
      [] n.t = "meta"   -> n.x = "import.meta" => c.module
      [] n.t = "call" /\ n.k[1].t = "import()" -> Len(n.k) = 2 /\ n.k[2].t # "spread"
      [] n.t \in {"import", "export"} -> /\ c.module /\ c.top
                                         /\ n.x = "decl" => n.k[1].t \in {"var", "lexical", "funcdecl", "classdecl"}
      [] n.t \in {"bare", "super"} -> FALSE
      [] OTHER -> TRUE

\* The last parts of a function and of a static block are their declarations; export
\* default names a function that has no name; super is what a member or an argument
\* list follows (and where functions may use it, the compiler's concern).
Parts(n) == DOMAIN n.k \ (CASE n.t = "func" -> IF n.k[1] = Id("default") THEN {1, 4} ELSE {4}
                            [] n.t = "arrow" -> {3} [] n.t = "static" -> {2} [] n.t = "specifier" -> {1}
                            [] n.t \in {"dot", "bracket", "call"} -> IF n.k[1].t = "super" THEN {1} ELSE {}
                            [] OTHER -> {})
RECURSIVE Legal(_, _)
Legal(n, c) == Here(n, c) /\ \A i \in Parts(n) : Legal(n.k[i], Inside(n, i, c))

\* The tree with its words as the lexer reads them.
RECURSIVE Spelled(_)
Spelled(n) == Node(n.t, Word(n.x), All(n.k, Spelled))

-----------------------------------------------------------------------------
(* Layout                                                                  *)

\* Words that continue the statement before them.
Continues == {";", "(", "[", "tick", "+", "-", "*", "/"}

\* With semicolons, or with line breaks (gap) where they will do and nothing before } or the end.
Lexemes(words, gap) ==
    LET After(i) == IF i = Len(words) THEN "}" ELSE words[i + 1]
        Add(acc, i) ==
            CASE words[i] = "EOS" /\ (gap = "" \/ After(i) \in Continues) ->
                    [out |-> Append(acc.out, [w |-> ";", gap |-> ""]), gap |-> ""]
              [] words[i] = "EOS" /\ gap # "" /\ After(i) \notin Continues -> [acc EXCEPT !.gap = IF After(i) = "}" THEN "" ELSE gap]
              [] words[i] = "BREAK" -> [acc EXCEPT !.gap = "NL"]
              [] OTHER -> [out |-> Append(acc.out, [w |-> words[i], gap |-> acc.gap]), gap |-> ""]
    IN  FoldLeft(Add, [out |-> <<>>, gap |-> ""], [i \in DOMAIN words |-> i]).out

Break(s, i, gap) == [s EXCEPT ![i].gap = gap]

EndsOperand == Names \union {")", "]"}
IsPostfix(s, i) == s[i].w \in {"++", "--"} /\ s[i - 1].w \in EndsOperand

\* A line break here is only white space.
Harmless(s, i) ==
    /\ s[i].gap = ""
    /\ s[i - 1].w \notin {"return", "break", "continue", "throw", "yield", "async", "tick", "/"}
    /\ s[i].w \notin {"=>", ";", "/", "piece", "piece${"}
    /\ ~(s[i].w \in {"++", "--"} /\ s[i - 1].w \in EndsOperand \union IsUnreservedWord \union Escaped)

\* A line break here is a semicolon.
Restricted(s, i) ==
    /\ s[i].gap = "" /\ s[i].w \notin {";", ")", "]", "}", ",", ":"}
    /\ \/ s[i - 1].w \in {"return", "break", "continue", "throw", "yield"}
       \/ s[i - 1].w = "async" /\ s[i].w \in (Names \ {"of"}) \union {"function"}
       \/ s[i].w = "=>" /\ s[i - 1].w \in EndsOperand
       \/ IsPostfix(s, i)
Semicolon(s, i) == SubSeq(s, 1, i - 1) \o <<[w |-> ";", gap |-> ""]>> \o SubSeq(s, i, Len(s))
=============================================================================
