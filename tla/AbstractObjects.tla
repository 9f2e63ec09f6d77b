--------------------------- MODULE AbstractObjects ---------------------------
(***************************************************************************)
(* Ordinary objects as the language has them.  An object keeps its string  *)
(* names and its symbols in the order of their creation; its indices come  *)
(* first, in ascending order.  A for-in loop goes through the names that   *)
(* an object had when the loop came to it, without those deleted meanwhile *)
(* and without those seen before, and then through its prototype's.        *)
(***************************************************************************)
EXTENDS Properties, Sequences, SequencesExt, FiniteSetsExt

CONSTANTS Objects,    \* numbers from 1 on
          Calls       \* the calls that a program makes

VARIABLES objs, loops, said

Null == 0

\* Names are numbers: indices, then strings, then symbols.
IsIndex(n)  == n < 10
IsSymbol(n) == n >= 20
Ascending(S) == SelectSeq([i \in 1..9 |-> i], LAMBDA i : i \in S)

\* o, its prototype, the prototype of that, and so on.
Chain(Proto(_), o) ==
    LET at[k \in 1..Cardinality(Objects)] ==
            IF k = 1 THEN o ELSE IF at[k - 1] = Null THEN Null ELSE Proto(at[k - 1])
    IN  SelectSeq([k \in 1..Cardinality(Objects) |-> at[k]], LAMBDA x : x # Null)

Owners(os, o, n) == SelectSeq(Chain(LAMBDA x : os[x].proto, o), LAMBDA x : n \in DOMAIN os[x].props)
Own(os, o, n)    == IF n \in DOMAIN os[o].props THEN os[o].props[n] ELSE Absent
Found(os, o, n)  == LET w == Owners(os, o, n) IN IF w = <<>> THEN Absent ELSE Own(os, w[1], n)

StringKeys(x) == Ascending(DOMAIN x.props) \o x.strs
OwnKeys(x)    == StringKeys(x) \o x.syms

\* What an operation makes of the objects, whether it succeeds, and the setter it calls.
Result(os, ok, setter) == [os |-> os, ok |-> ok, setter |-> setter]

Define(os, o, n, d) ==
    LET old   == Own(os, o, n)
        added == [os[o] EXCEPT !.props = [k \in DOMAIN @ \union {n} |-> IF k = n THEN Applied(old, d) ELSE @[k]],
                               !.strs = IF old # Absent \/ IsIndex(n) \/ IsSymbol(n) THEN @ ELSE Append(@, n),
                               !.syms = IF old # Absent \/ ~IsSymbol(n) THEN @ ELSE Append(@, n)]
    IN  IF isCompatiblePropertyDescriptor(os[o].extensible, d, old) THEN Result([os EXCEPT ![o] = added], TRUE, NoFunc)
        ELSE Result(os, FALSE, NoFunc)

Set(os, o, n, v, receiver) ==
    LET found == Found(os, o, n)
        own   == Own(os, receiver, n)
    IN  CASE found.acc -> Result(os, found.set # NoFunc, found.set)
          [] ~found.acc /\ found # Absent /\ ~found.w -> Result(os, FALSE, NoFunc)
          [] OTHER -> IF own = Absent THEN Define(os, receiver, n, FullValue(v))
                      ELSE IF own.acc \/ ~own.w THEN Result(os, FALSE, NoFunc)
                      ELSE Define(os, receiver, n, JustValue(v))

Delete(os, o, n) ==
    LET gone == [os[o] EXCEPT !.props = [k \in DOMAIN @ \ {n} |-> @[k]],
                              !.strs = SelectSeq(@, LAMBDA k : k # n), !.syms = SelectSeq(@, LAMBDA k : k # n)]
    IN  IF Own(os, o, n) # Absent /\ ~Own(os, o, n).c THEN Result(os, FALSE, NoFunc)
        ELSE Result([os EXCEPT ![o] = gone], TRUE, NoFunc)

SetProto(os, o, p) ==
    LET cyclic == p # Null /\ o \in {Chain(LAMBDA x : os[x].proto, p)[k] : k \in 1..Len(Chain(LAMBDA x : os[x].proto, p))}
    IN  CASE os[o].proto = p -> Result(os, TRUE, NoFunc)
          [] os[o].proto # p /\ (~os[o].extensible \/ cyclic) -> Result(os, FALSE, NoFunc)
          [] OTHER -> Result([os EXCEPT ![o].proto = p], TRUE, NoFunc)

\* Object.seal and Object.freeze: lock also makes data read-only.
Locked(os, o, lock) ==
    [os EXCEPT ![o].extensible = FALSE,
               ![o].props = [k \in DOMAIN @ |-> [@[k] EXCEPT !.c = FALSE, !.w = @ /\ ~lock]]]

Assign(os, to, from) ==
    LET Step(r, n) == LET p == Own(r.os, from, n)
                      IN  IF ~r.ok \/ p = Absent \/ ~p.e THEN r ELSE Set(r.os, to, n, Got(p), to)
        r          == FoldLeft(Step, Result(os, TRUE, NoFunc), OwnKeys(os[from]))
    IN  Result(r.os, r.ok, NoFunc)

-----------------------------------------------------------------------------
(* for-in                                                                  *)

NoLoop       == [cur |-> Null, left |-> <<>>, seen |-> {}]
Loop(os, o)  == [cur |-> o, left |-> StringKeys(os[o]), seen |-> {}]

\* One object's turn: a name to get, or on to the prototype.
Turn(os, l) ==
    LET props == os[l.cur].props
        hits  == {j \in 1..Len(l.left) : l.left[j] \in DOMAIN props \ l.seen /\ props[l.left[j]].e}
        upTo  == IF hits = {} THEN Len(l.left) ELSE Min(hits)
        seen  == l.seen \union ({l.left[j] : j \in 1..upTo} \intersect DOMAIN props)
        proto == os[l.cur].proto
    IN  CASE hits # {} -> [l |-> [l EXCEPT !.left = SubSeq(@, upTo + 1, Len(@)), !.seen = seen], out |-> <<l.left[upTo]>>]
          [] hits = {} /\ proto = Null -> [l |-> NoLoop, out |-> <<>>]
          [] OTHER -> [l |-> [Loop(os, proto) EXCEPT !.seen = seen], out |-> <<>>]

\* The loop after its next step, and the name it gets, or none.
Advance(os, l) ==
    FoldLeft(LAMBDA a, k : IF a.out = <<>> /\ a.l # NoLoop THEN Turn(os, a.l) ELSE a,
             [l |-> l, out |-> <<>>], [k \in 1..Cardinality(Objects) |-> k])

-----------------------------------------------------------------------------
Said(c, ok, setter, out) == [c |-> c, ok |-> ok, setter |-> setter, out |-> out]

Changed(os, c) ==
    CASE c.m = "set"      -> Set(os, c.o, c.n, c.v, c.r)
      [] c.m = "define"   -> Define(os, c.o, c.n, c.d)
      [] c.m = "delete"   -> Delete(os, c.o, c.n)
      [] c.m = "setProto" -> SetProto(os, c.o, c.p)
      [] c.m = "preventExtensions" -> Result([os EXCEPT ![c.o].extensible = FALSE], TRUE, NoFunc)
      [] c.m = "seal"     -> Result(Locked(os, c.o, FALSE), TRUE, NoFunc)
      [] c.m = "freeze"   -> Result(Locked(os, c.o, TRUE), TRUE, NoFunc)
      [] c.m = "assign"   -> Assign(os, c.o, c.r)

Init ==
    /\ \A o \in Objects : /\ Range(OwnKeys(objs[o])) = DOMAIN objs[o].props
                          /\ Len(OwnKeys(objs[o])) = Cardinality(DOMAIN objs[o].props)
    /\ \A i \in DOMAIN loops : loops[i] = NoLoop

\* said names the call, so that a step of an implementation determines it.
Call ==
    LET c == said'.c
    IN  \/ /\ c.m \notin {"keys", "get", "forIn", "next"}
           /\ LET r == Changed(objs, c)
              IN  objs' = r.os /\ said' = Said(c, r.ok, r.setter, <<>>) /\ UNCHANGED loops
        \/ /\ c.m = "keys" /\ said' = Said(c, TRUE, NoFunc, OwnKeys(objs[c.o])) /\ UNCHANGED <<objs, loops>>
        \/ /\ c.m = "get" /\ UNCHANGED <<objs, loops>>
           /\ LET p == Found(objs, c.o, c.n) IN said' = Said(c, p # Absent, NoFunc, <<Got(p)>>)
        \/ /\ c.m \in {"forIn", "next"} /\ (c.m = "next" => loops[c.i] # NoLoop)
           /\ LET a == Advance(objs, IF c.m = "forIn" THEN Loop(objs, c.o) ELSE loops[c.i])
              IN  loops' = [loops EXCEPT ![c.i] = a.l] /\ said' = Said(c, TRUE, NoFunc, a.out)
           /\ UNCHANGED objs

Next == said'.c \in Calls /\ Call
Spec == Init /\ [][Next]_<<objs, loops, said>>
=============================================================================
