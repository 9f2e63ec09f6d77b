----------------------------- MODULE ArraySteps -----------------------------
(***************************************************************************)
(* The methods of Array.prototype as builtin_array.go writes them for any  *)
(* object: lists of accesses to elements, which the method makes one after *)
(* the other and which end with the first that throws.  Whoever performs   *)
(* them says what an access does.                                          *)
(*                                                                         *)
(* A call is a record: m is the method, i and d its numbers (an index and  *)
(* a count or a second index), v a value and vs its items.                 *)
(***************************************************************************)
EXTENDS Integers, Sequences, SequencesExt, FiniteSets, FiniteSetsExt, TLC

Undefined == 0       \* the other values are numbers, which sort compares
Hole      == -1      \* in a listing, where there is no element

\* The accesses: o[i] = v, delete o[i], o.length = l, defineProperty(o, i, d);
\* o[to] = o[from] if o has from, else delete o[to]; a step of reverse.
Put(i, v)      == [op |-> "put", i |-> i, v |-> v]
Delete(i)      == [op |-> "delete", i |-> i]
Length(l)      == [op |-> "length", i |-> l]
Define(i, d)   == [op |-> "define", i |-> i, d |-> d]
Move(from, to) == [op |-> "move", i |-> to, from |-> from]
Exchange(lower, upper) == [op |-> "exchange", i |-> lower, from |-> upper]

Up(from, to, Op(_))   == [k \in 1..(IF to < from THEN 0 ELSE to - from + 1) |-> Op(from + k - 1)]
Down(from, to, Op(_)) == [k \in 1..(IF from < to THEN 0 ELSE from - to + 1) |-> Op(from - k + 1)]
PutAll(at, vs)        == [k \in 1..Len(vs) |-> Put(at + k - 1, vs[k])]

relToIdx(rel, l) == IF rel >= 0 THEN Min({rel, l}) ELSE Max({l + rel, 0})

\* s, whose elements are in order, with x behind those that are not to come after x.
Insert(s, x, Before(_, _)) == InsertAt(s, Cardinality({k \in 1..Len(s) : ~Before(x, s[k])}) + 1, x)
InOrder(s, Before(_, _))   == FoldLeft(LAMBDA sorted, x : Insert(sorted, x, Before), <<>>, s)
\* The values in the order of sort, which has undefined at the end.
Sorted(vs) == InOrder(vs, LAMBDA x, y : x # Undefined /\ (y = Undefined \/ x < y))

-----------------------------------------------------------------------------
(* Methods that change the array, l elements long                          *)

generic_push(l, vs) == PutAll(l, vs) \o <<Length(l + Len(vs))>>

arrayproto_pop_generic(l) == IF l = 0 THEN <<Length(0)>> ELSE <<Delete(l - 1), Length(l - 1)>>

arrayproto_shift(l) ==
    IF l = 0 THEN <<Length(0)>>
    ELSE Up(1, l - 1, LAMBDA k : Move(k, k - 1)) \o <<Delete(l - 1), Length(l - 1)>>

arrayproto_unshift(l, vs) ==
    (IF vs = <<>> THEN <<>> ELSE Down(l - 1, 0, LAMBDA k : Move(k, k + Len(vs))) \o PutAll(0, vs))
    \o <<Length(l + Len(vs))>>

arrayproto_splice(l, start, del, vs) ==
    LET shrinks == Up(start, l - del - 1, LAMBDA k : Move(k + del, k + Len(vs)))
                   \o Down(l, l - del + Len(vs) + 1, LAMBDA k : Delete(k - 1))
        grows   == Down(l - del, start + 1, LAMBDA k : Move(k + del - 1, k + Len(vs) - 1))
    IN  (CASE Len(vs) < del -> shrinks [] Len(vs) > del -> grows [] OTHER -> <<>>)
        \o PutAll(start, vs) \o <<Length(l - del + Len(vs))>>

arrayproto_reverse_generic(l) == Up(0, (l \div 2) - 1, LAMBDA k : Exchange(k, l - k - 1))

arrayproto_fill(from, to, v) == Up(from, to - 1, LAMBDA k : Put(k, v))

arrayproto_copyWithin(to, from, count) ==
    IF from < to /\ to < from + count
    THEN Down(count - 1, 0, LAMBDA k : Move(from + k, to + k))
    ELSE Up(0, count - 1, LAMBDA k : Move(from + k, to + k))

\* sort puts back the sorted values of the elements that there are.
arrayproto_sort(l, vs) == PutAll(0, Sorted(vs)) \o Up(Len(vs), l - 1, LAMBDA k : Delete(k))

\* The numbers of a call: where splice starts and how many it deletes, the
\* range of fill, and what copyWithin copies.
Start(c, l)   == relToIdx(c.i, l)
Count(c, l)   == Min({Max({c.d, 0}), l - Start(c, l)})
End(c, l)     == relToIdx(c.d, l)
Copied(c, l)  == Min({l - End(c, l), l - Start(c, l)})

All(l, Get(_)) == [k \in 1..l |-> Get(k - 1)]
Listing(l, Has(_), Get(_)) == [k \in 1..l |-> IF Has(k - 1) THEN Get(k - 1) ELSE Hole]
\* A listing without its holes: as elements to put from an index on, their values, their indices.
Created(from, list) == FoldLeft(LAMBDA puts, p : IF p.v = Hole THEN puts ELSE Append(puts, p), <<>>, PutAll(from, list))
Present(list)       == LET puts == Created(0, list) IN [k \in 1..Len(puts) |-> puts[k].v]
PresentAt(list)     == LET puts == Created(0, list) IN [k \in 1..Len(puts) |-> puts[k].i]

Steps(c, l, Has(_), Get(_)) ==
    CASE c.m = "set"     -> <<Put(c.i, c.v)>>
      [] c.m = "delete"  -> <<Delete(c.i)>>
      [] c.m = "length"  -> <<Length(c.i)>>
      [] c.m = "define"  -> <<Define(c.i, c.d)>>
      [] c.m = "push"    -> generic_push(l, c.vs)
      [] c.m = "pop"     -> arrayproto_pop_generic(l)
      [] c.m = "shift"   -> arrayproto_shift(l)
      [] c.m = "unshift" -> arrayproto_unshift(l, c.vs)
      [] c.m = "splice"  -> arrayproto_splice(l, Start(c, l), Count(c, l), c.vs)
      [] c.m = "reverse" -> arrayproto_reverse_generic(l)
      [] c.m = "fill"    -> arrayproto_fill(Start(c, l), End(c, l), c.v)
      [] c.m = "copyWithin" -> arrayproto_copyWithin(Start(c, l), End(c, l), Copied(c, l))
      [] c.m = "sort"    -> arrayproto_sort(l, Present(Listing(l, Has, Get)))

\* What such a call returns, as a sequence.
Returned(c, l, Has(_), Get(_)) ==
    CASE c.m \in {"push", "unshift"} -> <<l + Len(c.vs)>>
      [] c.m = "pop"    -> <<IF l = 0 THEN Undefined ELSE Get(l - 1)>>
      [] c.m = "shift"  -> <<IF l = 0 THEN Undefined ELSE Get(0)>>
      [] c.m = "splice" -> LET s == Start(c, l)
                           IN  Listing(Count(c, l), LAMBDA k : Has(s + k), LAMBDA k : Get(s + k))
      [] OTHER -> <<>>

-----------------------------------------------------------------------------
(* Methods that make an array: its length at first, what is created in it, *)
(* and the length that is set at the end, if one is                        *)

NoLength == -1
Plan(l, vs, end)  == [l |-> l, puts |-> Created(0, vs), end |-> end]

arrayproto_concat(l, vs, list)   == Plan(0, list \o vs, l + Len(vs))
arrayproto_slice(list, from, to) == Plan(Max({to - from, 0}), SubSeq(list, from + 1, to), NoLength)
flattenIntoArray(present)        == Plan(0, present, NoLength)
arrayproto_with(l, i, v, all)    == Plan(l, [all EXCEPT ![i + 1] = v], NoLength)
arrayproto_toReversed(l, all)    == Plan(l, Reverse(all), NoLength)
arrayproto_toSpliced(l, start, skip, vs, all) ==
    Plan(l - skip + Len(vs), SubSeq(all, 1, start) \o vs \o SubSeq(all, start + skip + 1, l), NoLength)

\* list is the array's Listing and all the values that reading each index gives.
Makes(c, l, list, all) ==
    CASE c.m = "concat"     -> arrayproto_concat(l, c.vs, list)
      [] c.m = "slice"      -> arrayproto_slice(list, Start(c, l), End(c, l))
      [] c.m = "flat"       -> flattenIntoArray(Present(list))
      [] c.m = "with"       -> arrayproto_with(l, c.i, c.v, all)
      [] c.m = "toReversed" -> arrayproto_toReversed(l, all)
      [] c.m = "toSpliced"  -> arrayproto_toSpliced(l, Start(c, l), Count(c, l), c.vs, all)
      [] c.m = "toSorted"   -> Plan(l, Sorted(all), NoLength)
      [] c.m = "from"       -> Plan(0, all, l)

-----------------------------------------------------------------------------
(* Methods that only read                                                  *)

First(S) == IF S = {} THEN -1 ELSE Min(S)
Final(S) == IF S = {} THEN -1 ELSE Max(S)

Answer(c, l, list, all) ==
    LET from == Start(c, l)
        at   == IF c.i < 0 THEN l + c.i ELSE c.i
        Is(k) == list[k + 1] = c.v
    IN  CASE c.m = "at"       -> <<IF at \in 0..l - 1 THEN all[at + 1] ELSE Undefined>>
          [] c.m = "indexOf"  -> <<First({k \in from..l - 1 : Is(k)})>>
          [] c.m = "lastIndexOf" -> <<Final({k \in 0..(IF c.i < 0 THEN l + c.i ELSE Min({c.i, l - 1})) : Is(k)})>>
          [] c.m = "includes" -> <<IF \E k \in from..l - 1 : all[k + 1] = c.v THEN 1 ELSE 0>>
          [] c.m = "join"     -> all
          [] c.m = "export"   -> list
          [] c.m = "keys"     -> PresentAt(list)

-----------------------------------------------------------------------------
(* Performing the steps                                                    *)

Ok(a)    == [a |-> a, ok |-> TRUE]
Fails(a) == [a |-> a, ok |-> FALSE]
Then(r, Op(_)) == IF r.ok THEN Op(r.a) ELSE r

arrayproto_reverse_generic_step(a, lower, upper, Has(_, _), Get(_, _), Set(_, _, _), Del(_, _)) ==
    CASE Has(a, lower) /\ Has(a, upper)  -> Then(Set(a, lower, Get(a, upper)), LAMBDA x : Set(x, upper, Get(a, lower)))
      [] ~Has(a, lower) /\ Has(a, upper) -> Then(Set(a, lower, Get(a, upper)), LAMBDA x : Del(x, upper))
      [] Has(a, lower) /\ ~Has(a, upper) -> Then(Del(a, lower), LAMBDA x : Set(x, upper, Get(a, lower)))
      [] OTHER -> Ok(a)

Access(a, s, Has(_, _), Get(_, _), Set(_, _, _), Del(_, _), Resize(_, _), Def(_, _, _)) ==
    CASE s.op = "put"      -> Set(a, s.i, s.v)
      [] s.op = "delete"   -> Del(a, s.i)
      [] s.op = "length"   -> Resize(a, s.i)
      [] s.op = "define"   -> Def(a, s.i, s.d)
      [] s.op = "move"     -> IF Has(a, s.from) THEN Set(a, s.i, Get(a, s.from)) ELSE Del(a, s.i)
      [] s.op = "exchange" -> arrayproto_reverse_generic_step(a, s.i, s.from, Has, Get, Set, Del)

Perform(a, steps, Do(_, _)) == FoldLeft(LAMBDA r, s : Then(r, LAMBDA x : Do(x, s)), Ok(a), steps)

-----------------------------------------------------------------------------
(* Walks: methods that call back for one element after the other, and the  *)
(* iterator of for-of.  k is the next index, l the length when the walk    *)
(* began, which the iterator reads again; kept are the results of map, by  *)
(* index, or what filter keeps.                                            *)

NoWalk == [m |-> "", k |-> 0, l |-> 0, kept |-> <<>>]
SkipsHoles(m) == m \in {"forEach", "map", "filter", "reduceRight"}
Backwards(m)  == m \in {"reduceRight", "findLast"}
Begun(m, l)   == [m |-> m, k |-> IF Backwards(m) THEN l - 1 ELSE 0, l |-> l,
                  kept |-> IF m = "map" THEN [i \in 1..l |-> Hole] ELSE <<>>]
Done(w, l)    == IF Backwards(w.m) THEN w.k < 0 ELSE w.k >= (IF w.m = "values" THEN l ELSE w.l)
Walked(w, visited, v, keeps) ==
    [w EXCEPT !.k = IF Backwards(w.m) THEN @ - 1 ELSE @ + 1,
              !.kept = CASE ~visited \/ w.m \notin {"map", "filter"} -> @
                         [] visited /\ w.m = "map"    -> [@ EXCEPT ![w.k + 1] = v]
                         [] visited /\ w.m = "filter" -> IF keeps THEN Append(@, v) ELSE @]
=============================================================================
