------------------------------ MODULE Patterns ------------------------------
(***************************************************************************)
(* Literals that turn out to be patterns: the reinterpretAs functions of   *)
(* parser/expression.go.                                                   *)
(*                                                                         *)
(* An array literal has x = "," if a comma follows its last element.  A    *)
(* pattern has the list of its elements or properties and its rest.        *)
(***************************************************************************)
EXTENDS Lexer

IsPattern(n)   == n.t \in {"arrpat", "objpat"}
IsReference(n) == n.t \in {"id", "dot", "pdot", "bracket"}
IsAssign(n)    == n.t \in {"assign", "passign"}
IsSpread(n)    == n.t = "spread"

\* F for one item after the other; the results are in v.
Each(p, items, F(_, _)) ==
    LET done == FoldLeft(LAMBDA acc, item : LET q == F(acc.p, item) IN [p |-> q, out |-> Append(acc.out, q.v)],
                         [p |-> p, out |-> <<>>], items)
    IN  Ret(done.p, List(done.out))

RECURSIVE assignTarget(_, _), bindingTarget(_, _), arrayPattern(_, _, _), objectPattern(_, _, _)

Target(p, n, mode) == IF mode = "assign" THEN assignTarget(p, n) ELSE bindingTarget(p, n)

\* With an initializer or without.
Element(p, n, mode) ==
    IF ~IsAssign(n) THEN Target(p, n, mode)
    ELSE IF n.x # "=" THEN Ret(error(p), Bad)
    ELSE LET q == Target(p, n.k[1], mode) IN Ret(q, [n EXCEPT !.k[1] = q.v])

reinterpretAsAssignmentElement(p, n) == Element(p, n, "assign")
reinterpretAsBindingElement(p, n)    == Element(p, n, "bind")

reinterpretAsBindingRestElement(p, n) == IF n.t = "id" THEN Ret(p, n) ELSE Ret(error(p), Bad)

checkComma(p, left) == errorIf(left.x = ",", p)

\* Elements are taken as assignment elements in a binding pattern too.
arrayPattern(p, left, mode) ==
    LET n     == Len(left.k)
        rest  == n > 0 /\ IsSpread(left.k[n])
        elems == IF rest THEN Front(left.k) ELSE left.k
        p1    == Each(p, elems, reinterpretAsAssignmentElement)
        p2    == IF rest THEN Target(checkComma(p1, left), left.k[n].k[1], mode) ELSE Ret(p1, Nil)
    IN  IF \E i \in 1..n - 1 : IsSpread(left.k[i])
        THEN Ret(error(p), Bad)
        ELSE Ret(p2, Node("arrpat", "", <<p1.v, p2.v>>))

objectPattern(p, expr, mode) ==
    LET n     == Len(expr.k)
        rest  == n > 0 /\ IsSpread(expr.k[n])
        props == IF rest THEN Front(expr.k) ELSE expr.k
        Prop(q, prop) == IF prop.t # "keyed" THEN Ret(q, prop)
                         ELSE LET r == Element(q, prop.k[2], mode) IN Ret(r, [prop EXCEPT !.k[2] = r.v])
        p1    == Each(p, props, Prop)
        p2    == CASE ~rest -> Ret(p1, Nil)
                   [] rest /\ mode = "assign" -> Ret(p1, expr.k[n].k[1])
                   [] rest /\ mode = "bind"   -> reinterpretAsBindingRestElement(p1, expr.k[n].k[1])
    IN  IF \E i \in DOMAIN props : IsSpread(props[i]) \/ (props[i].t = "keyed" /\ props[i].x # "value")
        THEN Ret(error(p), Bad)
        ELSE Ret(p2, Node("objpat", "", <<p1.v, p2.v>>))

reinterpretAsArrayAssignmentPattern(p, n)  == arrayPattern(p, n, "assign")
reinterpretAsObjectAssignmentPattern(p, n) == objectPattern(p, n, "assign")
reinterpretAsArrayBindingPattern(p, n)     == arrayPattern(p, n, "bind")
reinterpretAsObjectBindingPattern(p, n)    == objectPattern(p, n, "bind")

\* Patterns in it have been made for an assignment already.
reinterpretArrayAssignPatternAsBinding(p, n) ==
    LET p1 == Each(p, n.k[1].k, bindingTarget)
        p2 == IF n.k[2] = Nil THEN Ret(p1, Nil) ELSE bindingTarget(p1, n.k[2])
    IN  Ret(p2, [n EXCEPT !.k = <<p1.v, p2.v>>])

reinterpretArrayObjectPatternAsBinding(p, n) ==
    LET Prop(q, prop) == IF prop.t # "keyed" THEN Ret(q, prop)
                         ELSE LET r == reinterpretAsBindingElement(q, prop.k[2]) IN Ret(r, [prop EXCEPT !.k[2] = r.v])
        p1 == Each(p, n.k[1].k, Prop)
        p2 == IF n.k[2] = Nil THEN Ret(p1, Nil) ELSE reinterpretAsBindingRestElement(p1, n.k[2])
    IN  Ret(p2, [n EXCEPT !.k = <<p1.v, p2.v>>])

\* reinterpretAsDestructAssignTarget
assignTarget(p, n) ==
    CASE n.t = "array"  -> reinterpretAsArrayAssignmentPattern(p, n)
      [] n.t = "object" -> reinterpretAsObjectAssignmentPattern(p, n)
      [] n = Nil \/ IsPattern(n) \/ IsReference(n) -> Ret(p, n)
      [] OTHER -> Ret(error(p), Bad)

\* reinterpretAsDestructBindingTarget
bindingTarget(p, n) ==
    CASE n = Nil        -> Ret(p, n)
      [] n.t = "arrpat" -> reinterpretArrayAssignPatternAsBinding(p, n)
      [] n.t = "objpat" -> reinterpretArrayObjectPatternAsBinding(p, n)
      [] n.t = "array"  -> reinterpretAsArrayBindingPattern(p, n)
      [] n.t = "object" -> reinterpretAsObjectBindingPattern(p, n)
      [] n.t = "id" /\ ~(Scope(p).allowAwait /\ n.x = "await") -> Ret(p, n)
      [] OTHER -> Ret(error(p), Bad)

reinterpretAsBinding(p, n) ==
    IF ~IsAssign(n) THEN LET q == bindingTarget(p, n) IN Ret(q, Node("bind", "", <<q.v, Nil>>))
    ELSE IF n.x # "=" THEN Ret(error(p), Node("bind", "", <<Bad, Nil>>))
    ELSE LET q == bindingTarget(p, n.k[1]) IN Ret(q, Node("bind", "", <<q.v, n.k[2]>>))

\* A list with ... in it has been reported as an error and does not get here.
reinterpretSequenceAsArrowFuncParams(p, list) ==
    LET q == Each(p, list, reinterpretAsBinding) IN Ret(q, Node("params", "", <<q.v, Nil>>))
=============================================================================
