------------------------------- MODULE Parser -------------------------------
(***************************************************************************)
(* The recursive descent parser: parser/expression.go, parser/statement.go.*)
(* A parse function takes the parser p and returns it with the node in v.  *)
(* Positions, source texts and the nesting limit are left out.             *)
(***************************************************************************)
EXTENDS Patterns

RECURSIVE parseAssignmentExpression(_), parseUnaryExpression(_), parseExponentiationExpression(_),
          parsePrimaryExpression(_), parseNewExpression(_), parseStatement(_), parseClass(_, _),
          parseFunction(_, _, _)

\* Loops of the parser.
RECURSIVE arrayItems(_, _, _), properties(_, _), arguments(_, _), parenthesised(_, _), templateParts(_, _),
          parameters(_, _), declarations(_, _), classBody(_, _), cases(_, _, _), specifiers(_, _, _), sequence(_, _),
          members(_), calls(_, _), exponents(_), operators(_, _), relations(_, _), disjuncts(_), coalesced(_),
          statements(_, _, _)

Flags(async, generator) == (IF async THEN "async" ELSE "") \o (IF generator THEN "*" ELSE "")

-----------------------------------------------------------------------------
(* Literals                                                                *)

parseExpression(p) ==
    LET q == parseAssignmentExpression(p)
    IN  IF q.tok = "," THEN sequence(q, <<q.v>>) ELSE q
sequence(p, list) ==
    IF p.tok # "," THEN Ret(p, Node("seq", "", list))
    ELSE LET q == parseAssignmentExpression(next(p)) IN sequence(q, Append(list, q.v))

\* The lexemes up to the closing slash.
parseRegExpLiteral(p) ==
    LET closing == {j \in p.i + 1..Len(p.src) :
                      /\ p.src[j].w = "/"
                      /\ \A k \in p.i + 1..j : p.src[k].gap = "" /\ (k < j => p.src[k].w # "/")}
        end     == IF closing = {} THEN error(p) ELSE [p EXCEPT !.i = CHOOSE j \in closing : TRUE]
    IN  Ret(next(end), Node("regexp", "", <<>>))

\* After a backtick, or the } of a substitution, the next piece is read raw.
templateParts(p, exprs) ==
    LET piece == At(p, p.i + 1).w
        p1    == next([p EXCEPT !.i = @ + 1, !.ins = TRUE])
        p2    == parseExpression(p1)
    IN  CASE piece = "piece"   -> Ret(p1, List(exprs))
          [] piece = "piece${" -> templateParts(errorIf(p2.tok # "}", p2), Append(exprs, p2.v))
          [] OTHER             -> Ret(error(p), List(exprs))

parseTemplateLiteral(p) == LET q == templateParts(p, <<>>) IN Ret(q, Node("template", "", <<Nil>> \o q.v.k))
parseTaggedTemplateLiteral(p) == LET q == parseTemplateLiteral(p) IN Ret(q, [q.v EXCEPT !.k[1] = p.v])

SpreadOrAssignment(p) ==
    IF p.tok # "..." THEN parseAssignmentExpression(p)
    ELSE LET q == parseAssignmentExpression(next(p)) IN Ret(q, Node("spread", "", <<q.v>>))

arrayItems(p, items, comma) ==
    IF p.tok \in {"]", "EOF"} THEN Ret(expect(p, "]"), Node("array", comma, items))
    ELSE IF p.tok = "," THEN arrayItems(next(p), Append(items, Nil), "")
    ELSE LET q == SpreadOrAssignment(p)
         IN  IF q.tok = "]" THEN arrayItems(q, Append(items, q.v), "")
             ELSE arrayItems(expect(q, ","), Append(items, q.v), ",")
parseArrayLiteral(p) == arrayItems(expect(p, "["), <<>>, "")

\* No value if the token cannot be a key.
parseObjectPropertyKey(p) ==
    IF p.tok = "["
    THEN LET q == parseAssignmentExpression(next(p)) IN Ret(expect(q, "]"), Node("computed", "", <<q.v>>))
    ELSE LET q == next(p)
         IN  CASE p.tok = "string" \/ IsId(p.tok) -> Ret(q, Node("string", p.lit, <<>>))
               [] p.tok \in {"number", "private"} -> Ret(q, Node(p.tok, p.lit, <<>>))
               [] OTHER -> Ret(error(q), Nil)

-----------------------------------------------------------------------------
(* Functions                                                               *)

parseBlockStatement(p) == LET q == statements(expect(p, "{"), {"}", "EOF"}, <<>>)
                          IN  Ret(expect(q, "}"), Node("block", "", q.v.k))

\* The block and the var declarations in it.
parseFunctionBlock(p, async, allowAwait, allowYield) ==
    LET scope == [NewScope EXCEPT !.inFunction = TRUE, !.inAsync = async, !.allowAwait = allowAwait,
                                  !.allowYield = allowYield]
        q     == parseBlockStatement([p EXCEPT !.sc = Append(@, scope)])
    IN  Ret(closeScope(q), List(<<q.v, List(Scope(q).declarationList)>>))

parseBindingTarget(p) ==
    LET q == tokenToBindingId(p)
        r == parsePrimaryExpression(q)
    IN  CASE q.tok = "identifier" -> parseIdentifier(q)
          [] q.tok = "[" -> reinterpretAsArrayBindingPattern(r, r.v)
          [] q.tok = "{" -> reinterpretAsObjectBindingPattern(r, r.v)
          [] OTHER       -> Ret(nextStatement(expect(q, "identifier")), Bad)

parseVariableDeclaration(p) ==
    LET p1 == parseBindingTarget(p)
        p2 == IF p1.tok = "=" THEN parseAssignmentExpression(next(p1)) ELSE Ret(p1, Nil)
    IN  Ret(p2, Node("bind", "", <<p1.v, p2.v>>))

parameters(p, list) ==
    IF p.tok \in {")", "EOF"} THEN Ret(expect(p, ")"), Node("params", "", <<List(list), Nil>>))
    ELSE IF p.tok = "..."
    THEN LET q == parseAssignmentExpression(next(p))
             r == bindingTarget(q, q.v)
         IN  Ret(expect(r, ")"), Node("params", "", <<List(list), r.v>>))
    ELSE LET q == parseVariableDeclaration(p)
         IN  parameters(IF q.tok = ")" THEN q ELSE expect(q, ","), Append(list, q.v))

parseFunctionParameterList(p) == While(expect(p, "("), "inFuncParams", TRUE, LAMBDA q : parameters(q, <<>>))

\* The parameters and the body of a function, with yield and await as it has them.
ParametersAndBody(p, name, async, generator) ==
    LET p1 == parseFunctionParameterList(p)
        p2 == parseFunctionBlock(p1, async, async, generator)
    IN  Ret(p2, Node("func", Flags(async, generator), <<name, p1.v>> \o p2.v.k))

AsFunction(p, async, generator, F(_)) ==
    While(p, "allowYield", generator, LAMBDA q : While(q, "allowAwait", async, F))

parseMethodDefinition(p, kind, generator, async) ==
    LET q      == AsFunction(p, async, generator, LAMBDA r : ParametersAndBody(r, Nil, async, generator))
        list   == q.v.k[2].k[1].k
        rest   == q.v.k[2].k[2]
    IN  errorIf(\/ kind = "get" /\ (list # <<>> \/ rest # Nil)
                \/ kind = "set" /\ (Len(list) # 1 \/ rest # Nil), q)

Name(p, required) ==
    LET q == tokenToBindingId(p)
    IN  CASE q.tok = "identifier" -> parseIdentifier(q)
          [] q.tok # "identifier" /\ required -> Ret(expect(q, "identifier"), Nil)
          [] OTHER -> Ret(q, Nil)

\* A declaration has its name outside, the name of an expression is inside.
parseFunction(p, declaration, async) ==
    LET p1        == expect(p, "function")
        generator == p1.tok = "*"
        p2        == IF generator THEN next(p1) ELSE p1
        Rest(q)   == ParametersAndBody(q, q.v, async, generator)
    IN  IF declaration THEN AsFunction(Name(p2, TRUE), async, generator, Rest)
        ELSE AsFunction(p2, async, generator, LAMBDA q : Rest(Name(q, FALSE)))

\* async has been read; where it begins no function, nothing is parsed.
parseMaybeAsyncFunction(p, declaration) ==
    IF peek(p) = "function" THEN parseFunction(next(p), declaration, TRUE) ELSE Ret(p, Nil)
IsAsyncFunction(p) == p.tok = "async" /\ peek(p) = "function"

parseArrowFunctionBody(p, async) ==
    LET Body(q) == LET r == parseAssignmentExpression(q) IN Ret(r, List(<<Node("exprbody", "", <<r.v>>), List(<<>>)>>))
    IN  IF p.tok = "{" THEN parseFunctionBlock(p, async, async, FALSE)
        ELSE IF async = Scope(p).inAsync /\ async = Scope(p).allowAwait THEN Body(p)
        ELSE While(p, "inAsync", async, LAMBDA q : AsFunction(q, async, FALSE, Body))

parseArrowFunction(p, params, async) ==
    LET q == parseArrowFunctionBody(expect(p, "=>"), async)
    IN  Ret(q, Node("arrow", Flags(async, FALSE), <<params>> \o q.v.k))

OneParameter(id) == Node("params", "", <<List(<<Node("bind", "", <<id, Nil>>)>>), Nil>>)

parseSingleArgArrowFunction(p, async) ==
    While(p, "allowAwait", async,
          LAMBDA q : LET r == tokenToBindingId(q)
                     IN  IF r.tok # "identifier" THEN Ret(next(error(r)), Bad)
                         ELSE parseArrowFunction(next(r), OneParameter(Id(r.lit)), async))

-----------------------------------------------------------------------------
(* Objects and classes                                                     *)

Keyed(p, kind, key) == Ret(p, Node("keyed", kind, <<key, p.v>>))

\* Without a value if there is no key.
parseObjectProperty(p) ==
    LET generator == p.tok = "*"
        p0   == IF generator THEN next(p) ELSE p
        p1   == parseObjectPropertyKey(p0)
        tkn  == p0.tok
        star == tkn = "async" /\ p1.tok = "*"
        p2   == parseObjectPropertyKey(IF star THEN next(p1) ELSE p1)
        kind == IF tkn = "async" THEN "method" ELSE p0.lit
        Method(q, knd, gen, async) == Keyed(parseMethodDefinition(q, knd, gen, async), knd, q.v)
        Value(q) == Keyed(parseAssignmentExpression(expect(q, ":")), "value", p1.v)
        init == IF p1.tok = "=" THEN parseAssignmentExpression(next(p1)) ELSE Ret(p1, Nil)
    IN  CASE p.tok = "..."  -> SpreadOrAssignment(p)
          [] p.tok # "..." /\ p1.v = Nil -> p1
          [] OTHER ->
             IF tkn = "private" THEN Value(p1)
             ELSE IF generator \/ p1.tok = "(" THEN Method(p1, "method", generator, FALSE)
             ELSE IF p1.tok \in {",", "}", "="}
             THEN IF isBindingId(p0, tkn) THEN Ret(init, Node("short", p0.lit, <<init.v>>)) ELSE Value(error(p1))
             ELSE IF (p0.lit \in {"get", "set"} \/ tkn = "async") /\ p1.tok # ":"
             THEN IF p2.v = Nil THEN p2 ELSE Method(p2, kind, star, tkn = "async")
             ELSE Value(p1)

properties(p, props) ==
    IF p.tok \in {"}", "EOF"} THEN Ret(expect(p, "}"), Node("object", "", props))
    ELSE LET q    == parseObjectProperty(p)
             more == IF q.v = Nil THEN props ELSE Append(props, q.v)
         IN  properties(IF q.tok = "}" THEN q ELSE expect(q, ","), more)
parseObjectLiteral(p) == properties(expect(p, "{"), <<>>)

KeyStart(tok) == tok \in {"[", "string", "number", "private"} \/ IsId(tok)

\* static, get, set, async and * in front of a key, unless they are the key.
Modifiers(p) ==
    LET static == p.tok = "static" /\ peek(p) \notin {"=", ";", "}", "("}
        p1     == IF static THEN next(p) ELSE p
        acc    == p1.lit \in {"get", "set"} /\ KeyStart(peek(p1))
        async  == p1.tok = "async" /\ (peek(p1) = "*" \/ KeyStart(peek(p1)))
        p2     == IF acc \/ async THEN next(p1) ELSE p1
        star   == p2.tok = "*" /\ ~acc
        kind   == CASE acc -> p1.lit [] async \/ star -> "method" [] OTHER -> ""
    IN  [p |-> IF star THEN next(p2) ELSE p2, block |-> static /\ p1.tok = "{", static |-> static,
         kind |-> kind, async |-> async, generator |-> star]

Static(static, kind) == IF static THEN "static " \o kind ELSE kind

IsConstructorError(key, name, m) ==
    /\ name = "constructor" /\ key.t # "computed"
    /\ IF m.static THEN key.t = "private" ELSE m.kind # "method" \/ m.async \/ m.generator

parseMethod(p, key, name, m) ==
    LET q == parseMethodDefinition(errorIf(IsConstructorError(key, name, m), p), m.kind, m.generator, m.async)
    IN  Ret(q, Node("method", Static(m.static, m.kind), <<key, q.v>>))

parseField(p, key, name, m) ==
    LET p1 == errorIf(name = "constructor" /\ key.t # "computed", p)
        p2 == IF p1.tok = "=" THEN parseExpression(next(p1)) ELSE Ret(p1, Nil)
    IN  Ret(p2, Node("field", Static(m.static, ""), <<key, p2.v>>))

classBody(p, elements) ==
    LET m    == Modifiers(p)
        q    == parseObjectPropertyKey(m.p)
        key  == q.v
        name == m.p.lit
        q1   == errorIf(m.static /\ key.t \notin {"private", "computed"} /\ name = "prototype", q)
        mth  == IF m.kind = "" /\ q.tok = "(" THEN [m EXCEPT !.kind = "method"] ELSE m
        blk  == parseFunctionBlock(m.p, FALSE, TRUE, FALSE)
        el   == IF mth.kind # "" THEN parseMethod(q1, key, name, mth) ELSE parseField(q1, key, name, m)
        Ends == el.impl \/ el.tok \in {";", "}"}
    IN  CASE p.tok \in {"}", "EOF"} -> Ret(p, List(elements))
          [] p.tok = ";" -> classBody(next(p), elements)
          [] OTHER -> IF m.block THEN classBody(blk, Append(elements, Node("static", "", blk.v.k)))
                      ELSE IF key = Nil THEN classBody(q, elements)
                      ELSE IF mth.kind = "" /\ ~Ends THEN Ret(error(el), List(elements))
                      ELSE classBody(el, Append(elements, el.v))

-----------------------------------------------------------------------------
(* Calls and members                                                       *)

arguments(p, list) ==
    IF p.tok = ")" THEN Ret(expect(p, ")"), List(list))
    ELSE LET q == SpreadOrAssignment(p)
         IN  IF q.tok = "," THEN arguments(next(q), Append(list, q.v))
             ELSE Ret(expect(q, ")"), List(Append(list, q.v)))
parseArgumentList(p) == arguments(expect(p, "("), <<>>)
parseCallExpression(p, left) == LET q == parseArgumentList(p) IN Ret(q, Node("call", "", <<left>> \o q.v.k))

\* A member name can end a statement even if it is a keyword.
parseDotMember(p, left) ==
    LET q == next(p)
    IN  CASE q.tok = "private" -> Ret(next(q), Node("pdot", q.lit, <<left>>))
          [] IsId(q.tok)       -> Ret(next([q EXCEPT !.ins = TRUE]), Node("dot", q.lit, <<left>>))
          [] OTHER             -> Ret(nextStatement(expect(q, "identifier")), Bad)

parseBracketMember(p, left) ==
    LET q == parseExpression(expect(p, "[")) IN Ret(expect(q, "]"), Node("bracket", "", <<left, q.v>>))

parseSuperProperty(p) ==
    LET q     == next(p)
        Super == Node("super", "", <<>>)
        id    == next(q)
    IN  CASE q.tok = "." -> IF IsId(id.tok) THEN Ret(next(id), Node("dot", id.lit, <<Super>>))
                            ELSE Ret(nextStatement(expect(id, "identifier")), Bad)
          [] q.tok = "[" -> parseBracketMember(q, Super)
          [] q.tok = "(" -> parseCallExpression(q, Super)
          [] OTHER       -> badFrom(q)

Import == Node("import()", "", <<>>)

parseImportMeta(p) ==
    LET q == expect(expect(p, "import"), ".")
    IN  IF q.lit = "meta" THEN Ret(next(q), Node("meta", "import.meta", <<>>))
        ELSE Ret(error(q), Node("meta", "import", <<>>))

parseImportExpression(p) ==
    LET q == parseCallExpression(expect(p, "import"), Import)
    IN  IF peek(p) = "("
        THEN IF Len(q.v.k) # 2 \/ IsSpread(q.v.k[2]) THEN Ret(error(q), Bad) ELSE q
        ELSE IF p.module THEN parseImportMeta(p) ELSE Ret(next(error(p)), Bad)

Base(p) == CASE p.tok = "new"    -> parseNewExpression(p)
             [] p.tok = "import" -> parseImportExpression(p)
             [] OTHER            -> parsePrimaryExpression(p)

members(p) == CASE p.tok = "."    -> members(parseDotMember(p, p.v))
                [] p.tok = "["    -> members(parseBracketMember(p, p.v))
                [] p.tok = "tick" -> members(parseTaggedTemplateLiteral(p))
                [] OTHER          -> p
parseLeftHandSideExpression(p) == members(Base(p))

parseNewExpression(p) ==
    LET p1     == expect(p, "new")
        p2     == next(p1)
        target == p1.tok = "." /\ p2.lit = "target"
        q      == parseLeftHandSideExpression(IF p1.tok = "." THEN error(p2) ELSE p1)
        args   == parseArgumentList(q)
    IN  IF target THEN Ret(next(errorIf(p.module /\ Len(p.sc) = 1, p2)), Node("meta", "new.target", <<>>))
        ELSE IF q.v = Bad THEN q
        ELSE IF q.v.t = "call" /\ q.v.k[1] = Import THEN Ret(error(q), Bad)
        ELSE IF q.tok = "(" THEN Ret(args, Node("new", "()", <<q.v>> \o args.v.k))
        ELSE Ret(q, Node("new", "", <<q.v>>))

calls(p, optional) ==
    LET left == Node("optional", "", <<p.v>>)
    IN  CASE p.tok = "."    -> calls(parseDotMember(p, p.v), optional)
          [] p.tok = "["    -> calls(parseBracketMember(p, p.v), optional)
          [] p.tok = "("    -> calls(parseCallExpression(p, p.v), optional)
          [] p.tok = "tick" -> IF optional THEN badFrom(p) ELSE calls(parseTaggedTemplateLiteral(p), FALSE)
          [] p.tok = "?."   -> calls(IF peek(p) \in {"[", "(", "tick"} THEN Ret(next(p), left) ELSE parseDotMember(p, left), TRUE)
          [] OTHER          -> IF optional THEN Ret(p, Node("chain", "", <<p.v>>)) ELSE p
parseLeftHandSideExpressionAllowCall(p) == While(p, "allowIn", TRUE, LAMBDA q : calls(Base(q), FALSE))

\* ... and a trailing comma are errors, which parseAssignmentExpression takes back
\* when it finds the arrow.  Parentheses leave no trace in the tree.
parenthesised(p, list) ==
    LET q    == IF p.tok = "..." THEN Ret(parseAssignmentExpression(next(error(p))), Bad)
                ELSE parseAssignmentExpression(p)
        all  == Append(list, q.v)
    IN  IF q.tok # "," THEN Ret(q, List(all))
        ELSE IF next(q).tok = ")" THEN Ret(error(next(q)), List(all))
        ELSE parenthesised(next(q), all)

parseParenthesisedExpression(p) ==
    LET p1 == expect(p, "(")
        p2 == expect(IF p1.tok = ")" THEN Ret(p1, List(<<>>)) ELSE parenthesised(p1, <<>>), ")")
        list == p2.v.k
    IN  CASE Len(list) = 1 /\ ~p2.errs -> Ret(p2, list[1])
          [] list = <<>>               -> Ret(error(p2), Bad)
          [] OTHER                     -> Ret(p2, Node("seq", "", list))

parsePrimaryExpression(p) ==
    LET Leaf(t) == Ret(next(p), Node(t, p.lit, <<>>))
    IN  CASE p.tok \in {"boolean", "string", "number", "null", "this"} -> Leaf(p.tok)
          [] p.tok \in {"/", "/="} -> parseRegExpLiteral(p)
          [] p.tok = "{"           -> parseObjectLiteral(p)
          [] p.tok = "["           -> parseArrayLiteral(p)
          [] p.tok = "("           -> parseParenthesisedExpression(p)
          [] p.tok = "tick"        -> parseTemplateLiteral(p)
          [] p.tok = "super"       -> parseSuperProperty(p)
          [] p.tok = "function"    -> parseFunction(p, FALSE, FALSE)
          [] p.tok = "class"       -> parseClass(p, FALSE)
          [] IsAsyncFunction(p)    -> parseMaybeAsyncFunction(p, FALSE)
          [] OTHER -> IF isBindingId(p, p.tok) THEN parseIdentifier(p) ELSE badFrom(p)

-----------------------------------------------------------------------------
(* Operators                                                               *)

IsUpdatable(n) == IsReference(n)

\* Mutant of parseUpdateExpression: the operator may be on the next line.
parseUpdateExpressionNextLine(p) ==
    LET pre  == parseUnaryExpression(next(p))
        post == parseLeftHandSideExpressionAllowCall(p)
    IN  IF p.tok \in {"++", "--"}
        THEN IF IsUpdatable(pre.v) THEN Ret(pre, Node("unary", p.tok, <<pre.v>>)) ELSE badFrom(pre)
        ELSE IF post.tok \notin {"++", "--"} THEN post
        ELSE IF IsUpdatable(post.v) THEN Ret(next(post), Node("postfix", post.tok, <<post.v>>)) ELSE badFrom(next(post))

parseUpdateExpression(p) ==
    LET pre  == parseUnaryExpression(next(p))
        post == parseLeftHandSideExpressionAllowCall(p)
    IN  IF p.tok \in {"++", "--"}
        THEN IF IsUpdatable(pre.v) THEN Ret(pre, Node("unary", p.tok, <<pre.v>>)) ELSE badFrom(pre)
        ELSE IF post.tok \notin {"++", "--"} \/ post.impl THEN post
        ELSE IF IsUpdatable(post.v) THEN Ret(next(post), Node("postfix", post.tok, <<post.v>>)) ELSE badFrom(next(post))

parseUnaryExpression(p) ==
    LET q     == parseUnaryExpression(next(p))
        await == parseUnaryExpression(noteAwait(errorIf(Scope(p).inFuncParams, next(p))))
    IN  IF p.tok \in {"+", "-", "!", "~", "delete", "void", "typeof"} THEN Ret(q, Node("unary", p.tok, <<q.v>>))
        ELSE IF p.tok = "await" /\ Scope(p).allowAwait
        THEN IF Scope(p).inAsync THEN Ret(await, Node("await", "", <<await.v>>)) ELSE Ret(error(next(p)), Bad)
        ELSE parseUpdateExpression(p)

exponents(p) ==
    LET q == parseExponentiationExpression(next(p))
        r == Ret(q, Node("binary", "**", <<p.v, q.v>>))
    IN  IF q.tok = "**" THEN exponents(r) ELSE r
parseExponentiationExpression(p) ==
    LET q == parseUnaryExpression(p)
    IN  IF q.tok # "**" THEN q
        ELSE exponents(errorIf(p.tok # "(" /\ q.v.t = "unary" /\ q.v.x \notin {"++", "--"}, q))

\* The operators of a level, and what they take on their right.
Operators == <<{"&&"}, {"|"}, {"^"}, {"&"}, {"==", "!=", "===", "!=="}, {"<", "<=", ">", ">=", "instanceof", "in"},
               {"<<", ">>", ">>>"}, {"+", "-"}, {"*", "/", "%"}>>
Binary(p, op, left) == Ret(p, Node("binary", op, <<left, p.v>>))

parseMultiplicativeExpression(p) == operators(parseExponentiationExpression(p), 9)
parseAdditiveExpression(p)       == operators(parseMultiplicativeExpression(p), 8)
parseShiftExpression(p)          == operators(parseAdditiveExpression(p), 7)

relations(p, allowIn) ==
    IF p.tok \notin Operators[6] \/ (p.tok = "in" /\ ~allowIn) THEN p
    ELSE relations(Binary(parseShiftExpression(next(p)), p.tok, p.v), allowIn)

parseRelationalExpression(p) ==
    LET allowIn == Scope(p).allowIn
        private == Ret(next(p), Node("private", p.lit, <<>>))
        left    == IF allowIn /\ p.tok = "private" THEN private ELSE parseShiftExpression(p)
    IN  IF allowIn /\ p.tok = "private" /\ private.tok # "in" THEN private
        ELSE While(left, "allowIn", TRUE, LAMBDA q : relations(q, allowIn))

parseEqualityExpression(p)           == operators(parseRelationalExpression(p), 5)
parseBitwiseAndExpression(p)         == operators(parseEqualityExpression(p), 4)
parseBitwiseExclusiveOrExpression(p) == operators(parseBitwiseAndExpression(p), 3)
parseBitwiseOrExpression(p)          == operators(parseBitwiseExclusiveOrExpression(p), 2)
parseLogicalAndExpression(p)         == operators(parseBitwiseOrExpression(p), 1)

Operand(p, level) ==
    CASE level = 1 -> parseBitwiseOrExpression(p)
      [] level = 2 -> parseBitwiseExclusiveOrExpression(p)
      [] level = 3 -> parseBitwiseAndExpression(p)
      [] level = 4 -> parseEqualityExpression(p)
      [] level = 5 -> parseRelationalExpression(p)
      [] level = 7 -> parseAdditiveExpression(p)
      [] level = 8 -> parseMultiplicativeExpression(p)
      [] level = 9 -> parseExponentiationExpression(p)
operators(p, level) ==
    IF p.tok \notin Operators[level] THEN p
    ELSE operators(Binary(Operand(next(p), level), p.tok, p.v), level)

isLogicalAndExpr(n) == n.t = "binary" /\ n.x = "&&"

\* || and ?? are not mixed, with each other or with &&, unless there are parentheses.
disjuncts(p) ==
    CASE p.tok = "||" -> disjuncts(Binary(parseLogicalAndExpression(next(p)), "||", p.v))
      [] p.tok = "??" -> error(p)
      [] OTHER        -> p
coalesced(p) ==
    LET p1    == next(p)
        right == parseLogicalAndExpression(p1)
    IN  CASE p.tok = "??" -> IF p1.tok # "(" /\ isLogicalAndExpr(right.v) THEN Ret(error(right), p.v)
                             ELSE coalesced(Binary(right, "??", p.v))
          [] p.tok = "||" -> error(p)
          [] OTHER        -> p
parseLogicalOrExpression(p) ==
    LET left == parseLogicalAndExpression(p)
    IN  IF left.tok = "||" \/ (p.tok # "(" /\ isLogicalAndExpr(left.v)) THEN disjuncts(left) ELSE coalesced(left)

parseConditionalExpression(p) ==
    LET test == parseLogicalOrExpression(p)
        yes  == While(next(test), "allowIn", TRUE, parseAssignmentExpression)
        no   == parseAssignmentExpression(expect(yes, ":"))
    IN  IF test.tok = "?" THEN Ret(no, Node("cond", "", <<test.v, yes.v, no.v>>)) ELSE test

parseYieldExpression(p) ==
    LET p1   == errorIf(Scope(p).inFuncParams, expect(p, "yield"))
        star == ~p1.impl /\ p1.tok = "*"
        p2   == IF star THEN next(p1) ELSE p1
        arg  == parseAssignmentExpression(p2)
        x    == IF star THEN "*" ELSE ""
    IN  IF p2.impl \/ p2.tok \in {";", "}", "EOF"} THEN Ret(p2, Node("yield", x, <<Nil>>))
        ELSE IF arg.v = Bad THEN Ret(restore(arg, p2), Node("yield", x, <<Nil>>))
        ELSE Ret(arg, Node("yield", x, <<arg.v>>))

AssignOperators == ("=" :> "=" @@ "+=" :> "+" @@ "-=" :> "-" @@ "*=" :> "*" @@ "**=" :> "**" @@ "/=" :> "/" @@ "%=" :> "%"
                    @@ "&=" :> "&" @@ "|=" :> "|" @@ "^=" :> "^" @@ "<<=" :> "<<" @@ ">>=" :> ">>" @@ ">>>=" :> ">>>"
                    @@ "&&=" :> "&&" @@ "||=" :> "||" @@ "??=" :> "??")

\* left is followed by =>.  The parameters are read again unless left is an
\* identifier or a list in which no error was found.
Arrow(p, left, async) ==
    LET parenthesis == p.tok = "("
        params == parseFunctionParameterList(restore(left, p))
        seq    == reinterpretSequenceAsArrowFuncParams(left, left.v.k)
        Async(q) == LET r == parseFunctionParameterList(next(restore(q, p))) IN parseArrowFunction(r, r.v, TRUE)
    IN  IF left.v.t = "id" THEN parseArrowFunction(left, OneParameter(left.v), async)
        ELSE IF parenthesis
        THEN IF left.v.t = "seq" /\ ~left.errs THEN parseArrowFunction(seq, seq.v, FALSE)
             ELSE parseArrowFunction(params, params.v, FALSE)
        ELSE IF async /\ left.v.t = "call" THEN While(left, "allowAwait", TRUE, Async)
        ELSE Ret(error(left), Bad)

AssignmentTarget(p, n, op, parenthesis) ==
    CASE IsReference(n) -> Ret(p, n)
      [] n.t = "array" /\ ~parenthesis /\ op = "="  -> reinterpretAsArrayAssignmentPattern(p, n)
      [] n.t = "object" /\ ~parenthesis /\ op = "=" -> reinterpretAsObjectAssignmentPattern(p, n)
      [] OTHER -> Ret(p, Nil)

parseAssignmentExpression(p) ==
    LET after  == IF p.tok = "async" THEN peek(p) ELSE ""
        async  == after = "("
        p0     == IF p.tok \in {"(", "async"} THEN p ELSE tokenToBindingId(p)
        left   == parseConditionalExpression(p0)
        op     == AssignOperators[left.tok]
        target == AssignmentTarget(next(left), left.v, op, p.tok = "(")
        right  == parseAssignmentExpression(target)
        type   == IF left.v.t = "id" /\ p.tok = "(" THEN "passign" ELSE "assign"
    IN  IF after # "" /\ isBindingId(p, after) THEN parseSingleArgArrowFunction(next(p), TRUE)
        ELSE IF p.tok = "yield" /\ Scope(p).allowYield THEN parseYieldExpression(p)
        ELSE IF left.tok = "=>" THEN Arrow(p, left, async)
        ELSE IF left.tok \notin DOMAIN AssignOperators THEN left
        ELSE IF target.v = Nil THEN badFrom(target)
        ELSE Ret(right, Node(type, op, <<target.v, right.v>>))

parseClass(p, declaration) ==
    LET p1   == Name(expect(errorIf(declaration /\ ~Scope(p).allowLet, p), "class"), declaration)
        p2   == IF p1.tok = "{" THEN Ret(p1, Nil) ELSE parseLeftHandSideExpressionAllowCall(expect(p1, "extends"))
        body == classBody(expect(p2, "{"), <<>>)
    IN  Ret(expect(body, "}"), Node("class", "", <<p1.v, p2.v, body.v>>))


-----------------------------------------------------------------------------
(* Statements                                                              *)

\* Up to a token in ends.
statements(p, ends, list) ==
    IF p.tok \in ends THEN Ret(p, List(list))
    ELSE LET q == parseStatement(Set(p, "allowLet", TRUE)) IN statements(q, ends, Append(list, q.v))
Single(p) == parseStatement(Set(p, "allowLet", FALSE))
BlockOrSingle(p) == IF p.tok = "{" THEN parseBlockStatement(p) ELSE Single(p)
Parenthesis(p) == LET q == parseExpression(expect(p, "(")) IN expect(q, ")")

parseEmptyStatement(p) == Ret(expect(p, ";"), Node("empty", "", <<>>))

parseTryStatement(p) ==
    LET body  == parseBlockStatement(expect(p, "try"))
        c     == next(body)
        param == IF c.tok = "(" THEN parseBindingTarget(next(c)) ELSE Ret(c, Nil)
        block == parseBlockStatement(IF c.tok = "(" THEN expect(param, ")") ELSE c)
        catch == IF body.tok = "catch" THEN Ret(block, Node("catch", "", <<param.v, block.v>>)) ELSE Ret(body, Nil)
        final == IF catch.tok = "finally" THEN parseBlockStatement(next(catch)) ELSE Ret(catch, Nil)
    IN  IF catch.v = Nil /\ final.v = Nil THEN Ret(error(final), Bad)
        ELSE Ret(final, Node("try", "", <<body.v, catch.v, final.v>>))

parseDebuggerStatement(p) == Ret(semicolon(expect(p, "debugger")), Node("debugger", "", <<>>))

parseReturnStatement(p) ==
    LET q   == expect(p, "return")
        arg == IF q.impl \/ q.tok \in {";", "}", "EOF"} THEN Ret(q, Nil) ELSE parseExpression(q)
    IN  IF ~Scope(p).inFunction THEN badFrom(q) ELSE Ret(semicolon(arg), Node("return", "", <<arg.v>>))

parseThrowStatement(p) ==
    LET q   == expect(p, "throw")
        arg == parseExpression(q)
    IN  IF q.impl THEN badFrom(q) ELSE Ret(semicolon(arg), Node("throw", "", <<arg.v>>))

parseCaseStatement(p) ==
    LET test == IF p.tok = "default" THEN Ret(next(p), Nil) ELSE parseExpression(expect(p, "case"))
        list == statements(expect(test, ":"), {"EOF", "}", "case", "default"}, <<>>)
    IN  Ret(list, Node("case", "", <<test.v>> \o list.v.k))

cases(p, list, default) ==
    LET q     == parseCaseStatement(p)
        again == q.v.k[1] = Nil /\ default
    IN  CASE p.tok = "EOF" -> Ret(p, List(list))
          [] p.tok = "}"   -> Ret(next(p), List(list))
          [] OTHER         -> cases(errorIf(again, q), Append(list, q.v), default \/ q.v.k[1] = Nil)
parseSwitchStatement(p) ==
    LET disc == Parenthesis(expect(p, "switch"))
        body == While(expect(disc, "{"), "inSwitch", TRUE, LAMBDA q : cases(q, <<>>, FALSE))
    IN  Ret(body, Node("switch", "", <<disc.v>> \o body.v.k))

parseWithStatement(p) ==
    LET object == Parenthesis(expect(p, "with"))
        body   == Single(object)
    IN  Ret(body, Node("with", "", <<object.v, body.v>>))

parseIterationStatement(p) == While(p, "inIteration", TRUE, Single)

parseWhileStatement(p) ==
    LET test == Parenthesis(expect(p, "while"))
        body == parseIterationStatement(test)
    IN  Ret(body, Node("while", "", <<test.v, body.v>>))

parseDoWhileStatement(p) ==
    LET Do(q) == LET body == BlockOrSingle(expect(q, "do"))
                     test == Parenthesis(expect(body, "while"))
                 IN  Ret(IF test.tok = ";" THEN next(test) ELSE test, Node("dowhile", "", <<body.v, test.v>>))
    IN  While(p, "inIteration", TRUE, Do)

parseIfStatement(p) ==
    LET test == Parenthesis(expect(p, "if"))
        yes  == BlockOrSingle(test)
        no   == IF yes.tok = "else" THEN Single(next(yes)) ELSE Ret(yes, Nil)
    IN  Ret(no, Node("if", "", <<test.v, yes.v, no.v>>))

declarations(p, list) ==
    LET q == parseVariableDeclaration(p)
    IN  IF q.tok = "," THEN declarations(next(q), Append(list, q.v)) ELSE Ret(q, List(Append(list, q.v)))
parseVariableDeclarationList(p) == declarations(p, <<>>)
parseVarDeclarationList(p) == LET q == parseVariableDeclarationList(p) IN declare(q, q.v)

ensurePatternInit(p) ==
    errorIf(\E i \in DOMAIN p.v.k : IsPattern(p.v.k[i].k[1]) /\ p.v.k[i].k[2] = Nil, p)

parseVariableStatement(p) ==
    LET q == ensurePatternInit(parseVarDeclarationList(expect(p, "var")))
    IN  Ret(semicolon(q), Node("var", "var", q.v.k))

parseLexicalDeclaration(p) ==
    LET q == ensurePatternInit(parseVariableDeclarationList(errorIf(~Scope(p).allowLet, expect(p, p.tok))))
    IN  Ret(semicolon(q), Node("lexical", p.tok, q.v.k))

IsOf(p) == p.tok = "identifier" /\ p.lit = "of"
\* The word after the target of a loop, if it is one of these.
Iterates(p) == CASE p.tok = "in" -> "in" [] IsOf(p) -> "of" [] OTHER -> ""

\* What is before "in", "of" or the first semicolon, as [p, how]: p.v is the target or
\* the initializer and how is "in", "of", "" or "bad".
ForDeclaration(p) ==
    LET tok  == p.tok
        q    == IF tok = "var" THEN parseVarDeclarationList(next(p)) ELSE parseVariableDeclarationList(next(p))
        list == q.v.k
        how  == IF Len(list) = 1 THEN Iterates(q) ELSE ""
        b    == list[1]
        init == b.k[2] # Nil /\ (b.k[1].t # "id" \/ how # "in" \/ tok # "var")
        into == IF tok = "var" THEN Node("intovar", "", <<b>>) ELSE Node("intodecl", tok, <<b.k[1]>>)
    IN  IF how # "" THEN [p |-> Ret(errorIf(init, next(q)), into), how |-> how]
        ELSE [p |-> Ret(ensurePatternInit(q), Node("initdecl", tok, list)), how |-> how]

\* 'async of' is only a valid head in for await.
ForExpression(p, forAwait) ==
    LET isAsync == forAwait /\ p.tok = "async" /\ IsOf(next(p))
        q    == IF isAsync THEN Ret(next(p), Id("async")) ELSE parseExpression(p)
        how  == Iterates(q)
        r    == next(q)
        into == CASE IsReference(q.v)  -> Ret(r, q.v)
                  [] q.v.t = "object"  -> reinterpretAsObjectAssignmentPattern(r, q.v)
                  [] q.v.t = "array"   -> reinterpretAsArrayAssignmentPattern(r, q.v)
                  [] OTHER             -> Ret(r, Bad)
    IN  IF how = "" THEN [p |-> Ret(q, Node("initexpr", "", <<q.v>>)), how |-> how]
        ELSE IF ~IsReference(q.v) /\ q.v.t \notin {"object", "array"} THEN [p |-> badFrom(r), how |-> "bad"]
        ELSE [p |-> Ret(into, Node("intoexpr", "", <<into.v>>)), how |-> how]

parseForIn(p, into) ==
    LET source == expect(parseExpression(p), ")")
        body   == parseIterationStatement(source)
    IN  Ret(body, Node("forin", "", <<into, source.v, body.v>>))

parseForOf(p, into, forAwait) ==
    LET source == expect(parseAssignmentExpression(p), ")")
        body   == parseIterationStatement(source)
    IN  Ret(body, Node("forof", IF forAwait THEN "await" ELSE "", <<into, source.v, body.v>>))

parseFor(p, init) ==
    LET test == IF p.tok = ";" THEN Ret(p, Nil) ELSE parseExpression(p)
        p1   == expect(test, ";")
        step == IF p1.tok = ")" THEN Ret(p1, Nil) ELSE parseExpression(p1)
        body == parseIterationStatement(expect(step, ")"))
    IN  Ret(body, Node("for", "", <<init, test.v, step.v, body.v>>))

parseForOrForInStatement(p) ==
    LET p1       == expect(p, "for")
        forAwait == p1.tok = "await" /\ Scope(p).inAsync
        p2       == Set(expect(IF forAwait THEN next(p1) ELSE p1, "("), "allowIn", FALSE)
        isLet    == p2.tok = "let" /\ peek(p2) \in {"identifier", "[", "{"}
        head     == IF p2.tok \in {"var", "const"} \/ isLet THEN ForDeclaration(p2) ELSE ForExpression(p2, forAwait)
        p3       == Set(head.p, "allowIn", Scope(p).allowIn)
        p4       == errorIf(forAwait /\ head.how # "of", p3)
        none     == expect(Set(p2, "allowIn", Scope(p).allowIn), ";")
    IN  IF p2.tok = ";" THEN parseFor(errorIf(forAwait, none), Nil)
        ELSE CASE head.how = "bad" -> head.p
               [] head.how = "in"  -> parseForIn(p4, p4.v)
               [] head.how = "of"  -> parseForOf(p4, p4.v, forAwait)
               [] head.how = ""    -> parseFor(expect(p4, ";"), p4.v)

\* break and continue: inside says whether there is something to leave, needed
\* whether it must be there for a label too.
Branch(p, inside, needed) ==
    LET q     == expect(p, p.tok)
        ended == q.impl \/ q.tok = ";"
        q1    == IF q.tok = ";" THEN next(q) ELSE q
        id    == tokenToBindingId(q)
        label == next(id)
    IN  IF ended \/ q.tok = "}"
        THEN IF inside THEN Ret([q1 EXCEPT !.impl = FALSE], Node("branch", p.tok, <<Nil>>)) ELSE badFrom(q1)
        ELSE IF id.tok # "identifier" THEN badFrom(expect(q, "identifier"))
        ELSE IF ~hasLabel(p, id.lit) THEN Ret(error(label), Bad)
        ELSE IF needed /\ ~inside THEN badFrom(label)
        ELSE Ret(semicolon(label), Node("branch", p.tok, <<Id(id.lit)>>))
parseBreakStatement(p)    == Branch(p, Scope(p).inIteration \/ Scope(p).inSwitch, FALSE)
parseContinueStatement(p) == Branch(p, Scope(p).inIteration, TRUE)

\* An identifier and a colon have been read.
parseLabelled(p, label) ==
    LET labels == Scope(p).labels
        body   == Single(Set(errorIf(Contains(labels, label.x), p), "labels", Append(labels, label.x)))
    IN  Ret(Set(body, "labels", labels), Node("label", label.x, <<body.v>>))

-----------------------------------------------------------------------------
(* Modules                                                                 *)

parseModuleSpecifier(p) == LET q == parsePrimaryExpression(p) IN errorIf(q.v.t # "string", q)
parseFromClause(p) == IF p.lit = "from" THEN parseModuleSpecifier(next(p)) ELSE Ret(p, Nil)

parseExportSpecifier(p) ==
    LET q     == next(p)
        alias == next(errorIf(q.lit # "as", q))
    IN  IF q.tok # "identifier" THEN Ret(q, Node("specifier", p.lit, <<Nil>>))
        ELSE Ret(next(alias), Node("specifier", p.lit, <<Id(alias.lit)>>))
parseImportSpecifier(p) ==
    LET q     == next(p)
        alias == next(q)
    IN  IF q.tok = "identifier" /\ q.lit = "as" THEN Ret(next(alias), Node("specifier", p.lit, <<Id(alias.lit)>>))
        ELSE Ret(q, Node("specifier", p.lit, <<Nil>>))
specifiers(p, list, export) ==
    LET q == IF export THEN parseExportSpecifier(p) ELSE parseImportSpecifier(p)
    IN  IF p.tok = "}" THEN Ret(p, List(list))
        ELSE IF q.tok # "," THEN Ret(q, List(Append(list, q.v)))
        ELSE specifiers(next(q), Append(list, q.v), export)
parseNamedExports(p) == expect(specifiers(expect(p, "{"), <<>>, TRUE), "}")
parseNamedImports(p) == expect(specifiers(expect(p, "{"), <<>>, FALSE), "}")

\* export * from, export * as a from
parseExportFromClause(p) ==
    LET q     == next(p)
        alias == next(q)
    IN  IF q.tok = "identifier" /\ q.lit = "as" THEN Ret(next(alias), Node("all", alias.lit, <<>>))
        ELSE Ret(q, Node("all", "", <<>>))

ExportDefault(p) ==
    LET fn == IF p.tok = "async" THEN parseMaybeAsyncFunction(p, FALSE) ELSE parseFunction(p, FALSE, FALSE)
        named == IF fn.v.k[1] = Nil THEN [fn.v EXCEPT !.k[1] = Id("default")] ELSE fn.v
        class == parseClass(p, FALSE)
        expr  == parseAssignmentExpression(p)
    IN  CASE IsAsyncFunction(p) \/ p.tok = "function" -> Ret(fn, Node("export", "default", <<Node("funcdecl", "", <<named>>)>>))
          [] p.tok = "class" -> Ret([class EXCEPT !.ins = TRUE], Node("export", "default", <<Node("classdecl", "", <<class.v>>)>>))
          [] OTHER -> Ret(semicolon(expr), Node("export", "default", <<expr.v>>))

parseExportDeclaration(p) ==
    LET q     == expect(p, "export")
        all   == parseExportFromClause(q)
        named == parseNamedExports(q)
        what  == IF q.tok = "*" THEN all ELSE named
        from  == parseFromClause(what)
        decl  == CASE q.tok = "var" -> parseVariableStatement(q)
                   [] q.tok \in {"let", "const"} -> parseLexicalDeclaration(q)
                   [] q.tok = "class" -> LET c == parseClass(q, TRUE) IN Ret(c, Node("classdecl", "", <<c.v>>))
                   [] q.tok = "async" -> LET f == parseMaybeAsyncFunction(q, TRUE) IN Ret(f, Node("funcdecl", "", <<f.v>>))
                   [] OTHER -> LET f == parseFunction(q, TRUE, FALSE) IN Ret(f, Node("funcdecl", "", <<f.v>>))
    IN  CASE q.tok \in {"*", "{"} -> Ret(semicolon(from), Node("export", "from", <<what.v, from.v>>))
          [] q.tok = "default"    -> ExportDefault(next(q))
          [] q.tok \in {"var", "let", "const", "async", "function", "class"} ->
                Ret([decl EXCEPT !.ins = @ \/ q.tok = "class"], Node("export", "decl", <<decl.v>>))
          [] OTHER -> Ret(semicolon(named), Node("export", "from", <<named.v, Nil>>))

parseNameSpaceImport(p) ==
    LET q     == expect(p, "*")
        local == next(errorIf(q.lit # "as", q))
    IN  Ret(next(local), Node("namespace", local.lit, <<>>))

parseImportClause(p) ==
    LET default == next(p)
        more    == next(default)
        ns      == parseNameSpaceImport(more)
        named   == parseNamedImports(more)
        Clause(q, x, k) == Ret(q, Node("clause", x, k))
    IN  CASE p.tok = "{" -> LET q == parseNamedImports(p) IN Clause(q, "", <<q.v>>)
          [] p.tok = "*" -> LET q == parseNameSpaceImport(p) IN Clause(q, "", <<q.v>>)
          [] p.tok = "identifier" ->
                IF default.tok # "," THEN Clause(default, p.lit, <<>>)
                ELSE IF more.tok = "*" THEN Clause(ns, p.lit, <<ns.v>>)
                ELSE IF more.tok = "}" THEN Clause(next(more), p.lit, <<>>)
                ELSE Clause(named, p.lit, <<named.v>>)
          [] OTHER -> Ret(p, Nil)

parseImportDeclaration(p) ==
    LET q    == expect(p, "import")
        spec == parseModuleSpecifier(q)
        what == parseImportClause(q)
        from == parseFromClause(what)
    IN  IF q.tok = "string" THEN Ret(semicolon(spec), Node("import", "", <<Nil, spec.v>>))
        ELSE Ret(from, Node("import", "", <<what.v, from.v>>))

-----------------------------------------------------------------------------

Entry(p) == Set(p, "entries", Append(Scope(p).entries, p.v))

\* A statement that begins with an expression.
parseExpressionStatement(p) ==
    LET q == parseExpression(p)
    IN  IF q.v.t = "id" /\ q.tok = ":" THEN parseLabelled(next(q), q.v)
        ELSE Ret(optionalSemicolon(q), Node("expr", "", <<q.v>>))

Declares(p) == LET tok == peek(p) IN tok = "[" \/ (Scope(p).allowLet /\ (IsId(tok) \/ tok = "{"))

parseStatement(p0) ==
    LET allow == Scope(p0).allowImportExport
        p     == Set(p0, "allowImportExport", FALSE)
        Decl(t, q) == Ret(q, Node(t, "", <<q.v>>))
        Module(F(_)) == IF p.module /\ allow THEN Entry(F(p)) ELSE Ret(next(error(p)), Bad)
    IN  CASE p.tok = "EOF"      -> Ret(error(p0), Bad)
          [] p.tok = ";"        -> parseEmptyStatement(p)
          [] p.tok = "{"        -> parseBlockStatement(p)
          [] p.tok = "if"       -> parseIfStatement(p)
          [] p.tok = "do"       -> parseDoWhileStatement(p)
          [] p.tok = "while"    -> parseWhileStatement(p)
          [] p.tok = "for"      -> parseForOrForInStatement(p)
          [] p.tok = "break"    -> parseBreakStatement(p)
          [] p.tok = "continue" -> parseContinueStatement(p)
          [] p.tok = "debugger" -> parseDebuggerStatement(p)
          [] p.tok = "with"     -> parseWithStatement(p)
          [] p.tok = "var"      -> parseVariableStatement(p)
          [] p.tok = "let"      -> IF Declares(p) THEN parseLexicalDeclaration(p)
                                   ELSE parseExpressionStatement([p EXCEPT !.ins = TRUE])
          [] p.tok = "const"    -> parseLexicalDeclaration(p)
          [] p.tok = "function" -> Decl("funcdecl", parseFunction(p, TRUE, FALSE))
          [] p.tok = "class"    -> Decl("classdecl", parseClass(p, TRUE))
          [] p.tok = "switch"   -> parseSwitchStatement(p)
          [] p.tok = "return"   -> parseReturnStatement(p)
          [] p.tok = "throw"    -> parseThrowStatement(p)
          [] p.tok = "try"      -> parseTryStatement(p)
          [] p.tok = "export"   -> Module(parseExportDeclaration)
          [] p.tok = "import" /\ peek(p) \notin {"(", "."} -> Module(parseImportDeclaration)
          [] p.tok = "import" /\ peek(p) = "." /\ ~p.module -> Ret(next(error(p)), Bad)
          [] OTHER -> IF IsAsyncFunction(p) THEN Decl("funcdecl", parseMaybeAsyncFunction(p, TRUE))
                      ELSE parseExpressionStatement(p)

RECURSIVE sourceElements(_, _)
sourceElements(p, body) ==
    LET q == Set(p, "allowLet", TRUE)
        m == [q EXCEPT !.sc[1].allowImportExport = TRUE, !.sc[1].allowAwait = TRUE, !.sc[1].inAsync = TRUE]
        s == parseStatement(IF p.module THEN m ELSE q)
    IN  IF p.tok = "EOF" THEN Ret(p, List(body)) ELSE sourceElements(s, Append(body, s.v))
parseSourceElements(p) == sourceElements(p, <<>>)

\* The program, or that there were errors.
parse(src, module) ==
    LET p0 == [src |-> src, i |-> 0, tok |-> "", lit |-> "", ins |-> FALSE, impl |-> FALSE, errs |-> FALSE,
               rec |-> [idx |-> 0, count |-> 0], sc |-> <<NewScope>>, v |-> Nil,
               module |-> module]
        p  == parseSourceElements(next(p0))
    IN  [errs |-> p.errs, body |-> p.v.k, declarationList |-> Scope(p).declarationList,
         entries |-> Scope(p).entries, hasTLA |-> Scope(p).hasTLA]
=============================================================================
