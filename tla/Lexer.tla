------------------------------- MODULE Lexer -------------------------------
(***************************************************************************)
(* The parser's view of the source: scan() and what surrounds it           *)
(* (lexer.go, parser.go, scope.go).                                        *)
(*                                                                         *)
(* The source is a sequence of lexemes [w, gap]: the word and what is in   *)
(* front of it, nothing, "NL" (a line break) or "CM" (a comment with one). *)
(* White space and the spelling of words are left out.  A backtick         *)
(* is "tick"; the pieces of the template follow, "piece${" or "piece".     *)
(* A regular expression is the lexemes from one "/" to the next.           *)
(*                                                                         *)
(* A parser is a record p:                                                 *)
(*    src, i      the source and the index of the current lexeme           *)
(*    tok, lit    token and literal                                        *)
(*    ins, impl   insertSemicolon and implicitSemicolon                    *)
(*    errs        whether an error has been reported                       *)
(*    rec         recover: the index and the count                         *)
(*    sc          the scopes, innermost last                               *)
(*    v           the node that the last parse function returned           *)
(***************************************************************************)
EXTENDS Naturals, Sequences, SequencesExt

Node(t, x, k) == [t |-> t, x |-> x, k |-> k]
Nil           == Node("nil", "", <<>>)
Bad           == Node("bad", "", <<>>)
List(s)       == Node("list", "", s)
Id(name)      == Node("id", name, <<>>)

-----------------------------------------------------------------------------
(* Tokens                                                                  *)

Names    == {"a", "b", "c", "f", "L", "get", "set", "of", "as", "from", "target", "meta", "constructor", "prototype"}
Numbers  == {"1"}
Strings  == {"'s'"}
Privates == {"#p", "#constructor"}
Booleans == {"true", "false"}

\* Words with their own token that may not be identifiers.
Reserved == {"if", "in", "do", "var", "for", "new", "try", "this", "else", "case", "void", "with", "const", "while",
             "break", "catch", "throw", "class", "super", "return", "typeof", "delete", "switch", "default", "finally",
             "extends", "function", "continue", "debugger", "instanceof", "export", "import", "null"}
IsUnreservedWord == {"let", "static", "async", "await", "yield"}
\* Words written with an escape sequence, marked with @ here.
Escaped  == {"@if", "@let", "@await"}

Word(w) == CASE w = "@if" -> "if" [] w = "@let" -> "let" [] w = "@await" -> "await"
             [] w = "#p" -> "p" [] w = "#constructor" -> "constructor"
             [] OTHER -> w
IsId(tok) == tok \in {"identifier", "boolean", "keyword", "escaped"} \union Reserved \union IsUnreservedWord

Scope(p) == Last(p.sc)

isBindingId(p, tok) ==
    \/ tok = "identifier"
    \/ tok = "await" /\ ~Scope(p).allowAwait
    \/ tok = "yield" /\ ~Scope(p).allowYield
    \/ tok \in IsUnreservedWord \ {"await", "yield"}

-----------------------------------------------------------------------------
(* Scanning.  A line break counts as a semicolon only if the token before  *)
(* it may end a statement: that is insertSemicolon, which keywords other   *)
(* than those below leave as it was.                                       *)

At(p, i) == IF i <= Len(p.src) THEN p.src[i] ELSE [w |-> "EOF", gap |-> ""]

SetInsertSemicolon ==
    Names \union Numbers \union Strings \union Privates \union Booleans \union Escaped
    \union {"null", "this", "break", "throw", "yield", "return", "continue", "debugger"}
    \union {")", "]", "}", "++", "--", "/", "/="}
KeepInsertSemicolon == (Reserved \union IsUnreservedWord \union {"enum"}) \ SetInsertSemicolon

skipWhiteSpaceCheckLineTerminator(p, i) == At(p, i + 1).gap = "NL"

TokenOf(p, i, impl) ==
    LET w == At(p, i).w
    IN  CASE w \in Names    -> "identifier"
          [] w \in Numbers  -> "number"
          [] w \in Strings  -> "string"
          [] w \in Privates -> "private"
          [] w \in Booleans -> "boolean"
          [] w = "enum"     -> "keyword"
          [] w \in Escaped  -> IF isBindingId(p, Word(w)) THEN "identifier" ELSE "escaped"
          [] w = "async"    -> IF skipWhiteSpaceCheckLineTerminator(p, i) THEN "identifier" ELSE "async"
          [] w = "=>"       -> IF impl THEN "illegal" ELSE "=>"
          [] OTHER          -> w

scan(p) ==
    LET l     == At(p, p.i + 1)
        ins   == p.ins /\ l.gap = ""
        broke == l.gap = "CM" \/ (l.gap = "NL" /\ p.ins)
        impl  == broke \/ (l.w = "EOF" /\ ins)
    IN  [p EXCEPT !.i = @ + 1, !.impl = impl, !.tok = TokenOf(p, p.i + 1, impl), !.lit = Word(l.w),
                  !.ins = \/ l.w \in SetInsertSemicolon
                          \/ l.w \in KeepInsertSemicolon /\ ins
                          \/ l.w = "async" /\ skipWhiteSpaceCheckLineTerminator(p, p.i + 1)]

next(p) == IF p.tok = "EOF" THEN [p EXCEPT !.impl = FALSE] ELSE scan(p)
peek(p) == scan(p).tok

\* Mutant of restore: going back does not take the errors back.
restoreKeepsErrors(p, s) == [p EXCEPT !.i = s.i, !.tok = s.tok, !.lit = s.lit, !.ins = s.ins, !.impl = s.impl]

\* mark keeps p; restore(p, s) goes back to s, with the scopes as they are now.
restore(p, s) == [p EXCEPT !.i = s.i, !.tok = s.tok, !.lit = s.lit, !.ins = s.ins, !.impl = s.impl, !.errs = s.errs]

-----------------------------------------------------------------------------
(* Errors and recovery                                                     *)

error(p)    == [p EXCEPT !.errs = TRUE]
errorIf(b, p) == IF b THEN error(p) ELSE p
Ret(p, n)   == [p EXCEPT !.v = n]

StatementStarts == {"break", "continue", "for", "if", "return", "switch", "var", "do", "try", "with", "while", "throw",
                    "catch", "finally"}

RECURSIVE nextStatement(_)
nextStatement(p) ==
    IF p.tok = "EOF" THEN p
    ELSE IF p.tok \in StatementStarts /\ p.i = p.rec.idx /\ p.rec.count < 10
         THEN [p EXCEPT !.rec.count = @ + 1]
    ELSE IF p.tok \in StatementStarts /\ p.i > p.rec.idx
         THEN [p EXCEPT !.rec = [idx |-> p.i, count |-> 0]]
    ELSE nextStatement(next(p))

badFrom(p) == Ret(nextStatement(error(p)), Bad)

expect(p, tok) == next(errorIf(p.tok # tok, p))

optionalSemicolon(p) ==
    CASE p.tok = ";"           -> next(p)
      [] p.tok # ";" /\ p.impl -> [p EXCEPT !.impl = FALSE]
      [] OTHER                 -> IF p.tok \in {"EOF", "}"} THEN p ELSE expect(p, ";")

semicolon(p) ==
    CASE p.tok \in {")", "}"} -> p
      [] p.tok \notin {")", "}"} /\ p.impl -> [p EXCEPT !.impl = FALSE]
      [] OTHER -> expect(p, ";")

tokenToBindingId(p) == IF isBindingId(p, p.tok) THEN [p EXCEPT !.tok = "identifier"] ELSE p
parseIdentifier(p)  == Ret(next(p), Id(p.lit))

-----------------------------------------------------------------------------
(* Scopes                                                                  *)

NewScope == [allowIn |-> TRUE, allowLet |-> FALSE, allowImportExport |-> FALSE, inIteration |-> FALSE,
             inSwitch |-> FALSE, inFuncParams |-> FALSE, inFunction |-> FALSE, inAsync |-> FALSE,
             allowAwait |-> FALSE, allowYield |-> FALSE, declarationList |-> <<>>, entries |-> <<>>,
             hasTLA |-> FALSE, labels |-> <<>>]

openScope(p)  == [p EXCEPT !.sc = Append(@, NewScope)]
closeScope(p) == [p EXCEPT !.sc = Front(@)]

Set(p, field, value) == [p EXCEPT !.sc[Len(p.sc)] = [@ EXCEPT ![field] = value]]
\* A field is set for the duration of a call, as the deferred functions do.
While(p, field, value, F(_)) == Set(F(Set(p, field, value)), field, Scope(p)[field])

declare(p, list) == Set(p, "declarationList", Append(Scope(p).declarationList, list))

\* Mutant of hasLabel: labels outside of the function count.
hasLabelAnywhere(p, name) == \E s \in DOMAIN p.sc : Contains(p.sc[s].labels, name)

\* The scope that hasLabel ends its search in: that of the innermost function.
hasLabel(p, name) ==
    \E s \in DOMAIN p.sc : /\ Contains(p.sc[s].labels, name)
                           /\ \A inner \in s + 1..Len(p.sc) : ~p.sc[inner].inFunction

\* await outside of functions: the outermost scope is that of a module with top-level await.
noteAwait(p) == IF \E s \in DOMAIN p.sc : p.sc[s].inFunction THEN p ELSE [p EXCEPT !.sc[1].hasTLA = TRUE]
=============================================================================
