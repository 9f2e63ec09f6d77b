---------------------------- MODULE AbstractArray ----------------------------
(***************************************************************************)
(* What an array is for the language: elements with attributes, a length   *)
(* above all their indices, and whether length may change and elements may *)
(* be added.  arr is a record of these, walk the call that is going        *)
(* through it, ret what the last call was, whether it threw, and what it   *)
(* returned.                                                               *)
(***************************************************************************)
EXTENDS ArraySteps

CONSTANTS Values,      \* the values elements are given
          Calls,       \* the calls a program makes
          Walks,       \* the methods that call back
          Literals     \* the values of the array at first

VARIABLES arr, walk, ret

NewArray(l) == [elems |-> <<>>, length |-> l, lengthWritable |-> TRUE, extensible |-> TRUE]
Plain(v)    == [v |-> v, w |-> TRUE, c |-> TRUE]

Has(a, i) == i \in DOMAIN a.elems
Get(a, i) == IF Has(a, i) THEN a.elems[i].v ELSE Undefined

With(f, i, e) == (i :> e) @@ f
Without(f, S) == [j \in DOMAIN f \ S |-> f[j]]

\* Truncation stops above the last element that is not configurable.
SetLength(a, l) ==
    LET fixed == {i \in DOMAIN a.elems : i >= l /\ ~a.elems[i].c}
        stop  == IF fixed = {} THEN l ELSE Max(fixed) + 1
        cut   == [a EXCEPT !.elems = Without(@, {i \in DOMAIN a.elems : i >= stop}), !.length = stop]
    IN  IF ~a.lengthWritable THEN Fails(a) ELSE [a |-> cut, ok |-> fixed = {}]

CanAdd(a, i)        == a.extensible /\ (i < a.length \/ a.lengthWritable)
AddElement(a, i, e) == Ok([a EXCEPT !.elems = With(@, i, e), !.length = Max({@, i + 1})])

SetElement(a, i, v) ==
    CASE Has(a, i) -> IF a.elems[i].w THEN Ok([a EXCEPT !.elems[i].v = v]) ELSE Fails(a)
      [] ~Has(a, i) /\ CanAdd(a, i)  -> AddElement(a, i, Plain(v))
      [] ~Has(a, i) /\ ~CanAdd(a, i) -> Fails(a)

DeleteElement(a, i) ==
    IF Has(a, i) /\ ~a.elems[i].c THEN Fails(a) ELSE Ok([a EXCEPT !.elems = Without(@, {i})])

\* A descriptor gives both attributes, and a value or none.
NoValue == -1
Compatible(e, d) == e.c \/ (~d.c /\ (e.w \/ (~d.w /\ d.v \in {NoValue, e.v})))
Defined(d, old)  == [v |-> IF d.v = NoValue THEN old ELSE d.v, w |-> d.w, c |-> d.c]

DefineElement(a, i, d) ==
    CASE Has(a, i) -> IF Compatible(a.elems[i], d) THEN Ok([a EXCEPT !.elems[i] = Defined(d, @.v)]) ELSE Fails(a)
      [] ~Has(a, i) /\ CanAdd(a, i)  -> AddElement(a, i, Defined(d, Undefined))
      [] ~Has(a, i) /\ ~CanAdd(a, i) -> Fails(a)

Do(a, s) == Access(a, s, Has, Get, SetElement, DeleteElement, SetLength, DefineElement)

-----------------------------------------------------------------------------
Made(plan) ==
    LET a == FoldLeft(LAMBDA x, s : AddElement(x, s.i, Plain(s.v)).a, NewArray(plan.l), plan.puts)
    IN  IF plan.end = NoLength THEN a ELSE [a EXCEPT !.length = plan.end]

Changes == {"set", "delete", "length", "define", "push", "pop", "shift", "unshift", "splice", "reverse", "fill",
            "copyWithin", "sort"}
Creates == {"concat", "slice", "flat", "with", "toReversed", "toSpliced", "toSorted", "from"}

\* The array after a call, whether it threw and what it returned.
Outcome(a, c) ==
    LET H(i) == Has(a, i)
        G(i) == Get(a, i)
        r    == Perform(a, Steps(c, a.length, H, G), Do)
    IN  CASE c.m \in Changes -> [a |-> r.a, ok |-> r.ok, v |-> IF r.ok THEN Returned(c, a.length, H, G) ELSE <<>>]
          [] c.m \in Creates -> [a |-> Made(Makes(c, a.length, Listing(a.length, H, G), All(a.length, G))), ok |-> TRUE, v |-> <<>>]
          [] c.m = "preventExtensions" -> [a |-> [a EXCEPT !.extensible = FALSE], ok |-> TRUE, v |-> <<>>]
          [] c.m = "lockLength" -> [a |-> [a EXCEPT !.lengthWritable = FALSE], ok |-> TRUE, v |-> <<>>]

\* What a call that only reads returns now.
Seen(c) ==
    LET H(i) == Has(arr, i)
        G(i) == Get(arr, i)
    IN  Answer(c, arr.length, Listing(arr.length, H, G), All(arr.length, G))

NoCall  == [m |-> ""]
Said(c, ok, v) == [c |-> c, ok |-> ok, v |-> v]

Init == arr \in {Made(Plan(0, s, NoLength)) : s \in Literals} /\ walk = NoWalk /\ ret = Said(NoCall, TRUE, <<>>)

\* ret names the call, so that a step of an implementation determines it.
Call ==
    LET c == ret'.c
        o == Outcome(arr, c)
    IN  /\ c \in Calls /\ arr' = o.a /\ ret' = Said(c, o.ok, o.v) /\ UNCHANGED walk

BeginWalk ==
    /\ walk = NoWalk /\ walk'.m \in Walks /\ walk' = Begun(walk'.m, arr.length)
    /\ ret' = Said(NoCall, TRUE, <<>>) /\ UNCHANGED arr

StepWalk ==
    /\ walk # NoWalk /\ ~Done(walk, arr.length)
    /\ LET visited == ~SkipsHoles(walk.m) \/ Has(arr, walk.k)
       IN  /\ \E v \in Values, keeps \in BOOLEAN :
                walk' = Walked(walk, visited, IF walk.m = "filter" THEN Get(arr, walk.k) ELSE v, keeps)
           /\ ret' = Said(NoCall, TRUE, IF visited THEN <<walk.k, Get(arr, walk.k)>> ELSE <<>>)
    /\ UNCHANGED arr

\* map and filter return an array; the others may end at any element.
EndWalk ==
    /\ walk # NoWalk /\ (Done(walk, arr.length) \/ walk.m \notin {"map", "filter"})
    /\ arr' = IF walk.m \in {"map", "filter"} THEN Made(Plan(Len(walk.kept), walk.kept, NoLength)) ELSE arr
    /\ walk' = NoWalk /\ ret' = Said(NoCall, TRUE, <<>>)

Next == Call \/ BeginWalk \/ StepWalk \/ EndWalk
Spec == Init /\ [][Next]_<<arr, walk, ret>>
=============================================================================
