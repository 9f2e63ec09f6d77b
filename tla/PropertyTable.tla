---------------------------- MODULE PropertyTable ----------------------------
(***************************************************************************)
(* baseObject of object.go: a map of values and a slice of names.  Names   *)
(* are appended as they come; they are put in order, indices first, when   *)
(* somebody asks for them.  An iterator shares the slice of names with its *)
(* object until one of them is about to change it: a marker in the last    *)
(* slot of the slice's capacity says that somebody else is reading.        *)
(*                                                                         *)
(* heap.arr are the arrays behind the slices, by number; a slice is the    *)
(* number of its array and a length.  heap.objs are the objects, heap.its  *)
(* the iterators of for-in loops.                                          *)
(***************************************************************************)
EXTENDS Properties, Sequences, SequencesExt, FiniteSetsExt

CONSTANTS Objects, Calls,
          Loops,       \* how many for-in loops there are at a time
          Tables,      \* the objects at first: name, prototype and values in the order of creation
          MaxCalls,    \* how many calls a program makes
          Everything   \* FALSE leaves out the calls that Diverges lists

ASSUME PropertyTableAssumption ==
    /\ Loops \in Nat /\ MaxCalls \in Nat /\ Everything \in BOOLEAN
    /\ IsFiniteSet(Objects) /\ Objects = 1..Cardinality(Objects)

\* The names, objects, values and loops that calls and tables are about.
ASSUME CallsAssumption ==
    /\ \A c \in Calls :
         /\ c.m \in {"set", "define", "delete", "setProto", "preventExtensions", "seal", "freeze", "assign", "keys", "get", "forIn"}
              => c.o \in Objects
         /\ c.m \in {"set", "define", "delete"} => c.n \in Nat
         /\ c.m \in {"set", "assign"} => c.r \in Objects
         /\ c.m = "set" => c.v \in Int
         /\ c.m = "define" => c.d \in Descs
         /\ c.m = "setProto" => c.p \in Objects \union {0}
         /\ c.m \in {"forIn", "next"} => c.i \in 1..Loops
    /\ \A t \in Tables : \A o \in Objects : t[o].names \in Seq(Nat) /\ t[o].proto \in Objects \union {0}

VARIABLES heap, said, calls
vars == <<heap, said, calls>>

Null   == 0
Marker == -1     \* copyMarker
Blank  == 0      \* ""

IsIndex(n)  == n < 10
IsSymbol(n) == n >= 20

-----------------------------------------------------------------------------
(* Slices of names                                                         *)

Slice(id, len)  == [id |-> id, len |-> len]
NamesIn(h, s)   == SubSeq(h.arr[s.id], 1, s.len)
Cap(h, s)       == Len(h.arr[s.id])
Names(h, o)     == h.objs[o].names

\* Arrays nobody has a slice of any more are collected.
Live(h)  == {0} \union {h.objs[o].names.id : o \in Objects} \union {h.its[i].s.id : i \in DOMAIN h.its}
Fresh(h) == CHOOSE id \in 1..Cardinality(Live(h)) + 1 : id \notin Live(h)
Collected(h) == [h EXCEPT !.arr = [id \in Live(h) |-> @[id]]]

\* The names of o are the first len of an array that has the number id; o gets a
\* copy of names in a new one.
useArray(h, o, id, array, len) ==
    [h EXCEPT !.arr = [k \in DOMAIN @ \union {id} |-> IF k = id THEN array ELSE @[k]], !.objs[o].names = Slice(id, len)]
copyNames(h, o, names, cap) ==
    useArray(h, o, Fresh(h), names \o [i \in 1..cap - Len(names) |-> Blank], Len(names))

\* Other names, not more of them, in the array that there is; the slots that become
\* free are blank.
overwrite(h, o, names) ==
    LET s == Names(h, o)
    IN  useArray(h, o, s.id, [j \in DOMAIN h.arr[s.id] |-> CASE j <= Len(names) -> names[j]
                                                            [] j > Len(names) /\ j <= s.len -> Blank
                                                            [] OTHER -> h.arr[s.id][j]], Len(names))

growCap(newSize, oldCap)   == IF newSize > 2 * oldCap THEN newSize ELSE 2 * oldCap
shrinkCap(newSize, oldCap) == IF oldCap > 8 /\ oldCap \div 2 >= newSize THEN oldCap \div 2 ELSE oldCap

namesMarkedForCopy(h, s) == Cap(h, s) > s.len /\ h.arr[s.id][Cap(h, s)] = Marker

prepareNamesForCopy(h, o, s) ==
    CASE s.len = 0 -> h
      [] s.len # 0 /\ Cap(h, s) > s.len /\ ~namesMarkedForCopy(h, s) ->
             useArray(h, o, s.id, [h.arr[s.id] EXCEPT ![Cap(h, s)] = Marker], s.len)
      [] OTHER -> LET cap == IF Cap(h, s) = s.len THEN growCap(s.len + 1, s.len) ELSE Cap(h, s)
                  IN  useArray(h, o, Fresh(h), NamesIn(h, s) \o [i \in 1..cap - s.len |-> IF i = cap - s.len THEN Marker ELSE Blank], s.len)

clearNamesCopyMarker(h, s) == IF Cap(h, s) > s.len THEN [h EXCEPT !.arr[s.id][Cap(h, s)] = Blank] ELSE h

\* Mutant of copyNamesIfNeeded: the slot of the marker counts as free.
copyNamesIfNeededLate(h, o) ==
    LET s == Names(h, o)
    IN  IF namesMarkedForCopy(h, s) /\ s.len + 1 > Cap(h, s)
        THEN copyNames(h, o, NamesIn(h, s), growCap(s.len + 2, Cap(h, s))) ELSE h

copyNamesIfNeeded(h, o) ==
    LET s       == Names(h, o)
        newsize == s.len + 2
    IN  IF namesMarkedForCopy(h, s) /\ s.len + 1 >= Cap(h, s)
        THEN copyNames(h, o, NamesIn(h, s), IF newsize > Cap(h, s) THEN growCap(newsize, Cap(h, s)) ELSE Cap(h, s))
        ELSE h

\* append: in place if there is room, else in a larger array.
append(h, o, s, n) ==
    IF s.len < Cap(h, s) THEN useArray(h, o, s.id, [h.arr[s.id] EXCEPT ![s.len + 1] = n], s.len + 1)
    ELSE copyNames(h, o, Append(NamesIn(h, s), n), growCap(s.len + 1, Cap(h, s)))
appendNow(h, o, n)  == append(h, o, Names(h, o), n)
appendName(h, o, n) == appendNow(copyNamesIfNeeded(h, o), o, n)

-----------------------------------------------------------------------------
(* The order of names                                                      *)

\* The i-th name moves to place k; its place is among the indices before it.
moveTo(names, i, k) ==
    [j \in 1..Len(names) |-> CASE j = k -> names[i] [] j > k /\ j <= i -> names[j - 1] [] OTHER -> names[j]]
placeOf(names, indices, i) == Min({j \in 1..indices : names[j] >= names[i]} \union {indices + 1})

placeName(h, o, i) ==
    LET s     == Names(h, o)
        names == NamesIn(h, s)
        k     == placeOf(names, h.objs[o].idxPropCount, i)
        moved == moveTo(names, i, k)
        g     == IF k = i THEN h
                 ELSE IF namesMarkedForCopy(h, s) THEN copyNames(h, o, moved, Cap(h, s))
                 ELSE overwrite(h, o, moved)
    IN  IF IsIndex(names[i]) THEN [g EXCEPT !.objs[o].idxPropCount = @ + 1] ELSE h

fixPropOrder(h, o) ==
    LET len  == Names(h, o).len
        todo == [k \in 1..len - h.objs[o].lastSortedPropLen |-> h.objs[o].lastSortedPropLen + k]
    IN  [FoldLeft(LAMBDA g, i : placeName(g, o, i), h, todo) EXCEPT !.objs[o].lastSortedPropLen = len]

ensurePropOrder(h, o) == IF h.objs[o].lastSortedPropLen < Names(h, o).len THEN fixPropOrder(h, o) ELSE h

-----------------------------------------------------------------------------
(* Own properties                                                          *)

getOwnProp(h, o, n) == IF n \in DOMAIN h.objs[o].values THEN h.objs[o].values[n] ELSE Absent

\* A map of values with another value or without a name.
Put(values, n, p)  == [k \in DOMAIN values \union {n} |-> IF k = n THEN p ELSE values[k]]
Lacking(values, n) == [k \in DOMAIN values \ {n} |-> values[k]]

\* The value is put in the map, and a new name into the slice or, for a symbol,
\* into the ordered map of symbols.
_put(h, o, n, p) ==
    LET g == [h EXCEPT !.objs[o].values = Put(@, n, p)]
    IN  CASE getOwnProp(h, o, n) # Absent -> g
          [] getOwnProp(h, o, n) = Absent /\ IsSymbol(n) -> [g EXCEPT !.objs[o].syms = Append(@, n)]
          [] OTHER -> appendName(g, o, n)

\* Mutant of _delete: the counts of the sorted names stay as they were.
_deleteKeepsCounts(h, o, n) ==
    LET names == NamesIn(h, Names(h, o))
    IN  copyNames([h EXCEPT !.objs[o].values = Lacking(@, n)], o,
                  SelectSeq(names, LAMBDA k : k # n), Cap(h, Names(h, o)))

\* A count of names, among the sorted ones, without the i-th.
lowered(count, i, sorted) == IF i <= sorted /\ i <= count THEN count - 1 ELSE count

_delete(h, o, n) ==
    LET x     == h.objs[o]
        s     == Names(h, o)
        names == NamesIn(h, s)
        i     == CHOOSE j \in 1..s.len : names[j] = n
        rest  == RemoveAt(names, i)
        g     == IF namesMarkedForCopy(h, s) THEN copyNames(h, o, rest, shrinkCap(s.len, Cap(h, s)))
                 ELSE overwrite(h, o, rest)
    IN  [g EXCEPT !.objs[o] = [@ EXCEPT !.values = Lacking(x.values, n),
                                        !.lastSortedPropLen = lowered(x.lastSortedPropLen, i, x.lastSortedPropLen),
                                        !.idxPropCount = lowered(x.idxPropCount, i, x.lastSortedPropLen)]]

Result(h, ok, setter, out) == [h |-> h, ok |-> ok, setter |-> setter, out |-> out]
Done(h)                    == Result(h, TRUE, NoFunc, <<>>)
Refused(h)                 == Result(h, FALSE, NoFunc, <<>>)

\* orderedMap.remove
without(q, n) == LET at == {j \in DOMAIN q : q[j] = n} IN IF at = {} THEN q ELSE RemoveAt(q, Min(at))

deleteName(h, o, n) ==
    LET p == getOwnProp(h, o, n)
    IN  CASE p = Absent -> Done(h)
          [] p # Absent /\ ~p.c -> Refused(h)
          [] OTHER -> Done(IF ~IsSymbol(n) THEN _delete(h, o, n)
                           ELSE [h EXCEPT !.objs[o] = [@ EXCEPT !.values = Lacking(h.objs[o].values, n),
                                                                !.syms = without(h.objs[o].syms, n)]])

defineOwnProperty(h, o, n, d) ==
    LET p == getOwnProp(h, o, n)
    IN  IF isCompatiblePropertyDescriptor(h.objs[o].extensible, d, p) THEN Done(_put(h, o, n, _defineOwnProperty(p, d)))
        ELSE Refused(h)

\* Writing to a property that there is: through its setter, in it, or in its place.
assignTo(h, o, n, p, v) ==
    CASE ~p.plain /\ ~isWritable(p) -> Refused(h)
      [] ~p.plain /\ isWritable(p)  -> IF p.set # NoFunc THEN Result(h, TRUE, p.set, <<>>) ELSE Done(_put(h, o, n, [p EXCEPT !.v = v]))
      [] OTHER -> Done(_put(h, o, n, PlainValue(v)))

-----------------------------------------------------------------------------
(* Assignment along the prototypes                                         *)

\* A walk up the prototypes: setForeign is to be called on the object at, for the
\* sake of receiver, whose setOwn (own) or Object.set is waiting for the result r
\* and whether that is the end of it (handled).  idx: the name is passed as a number
\* (setForeignIdx), and not as a string or a symbol.
Climb(h, at, receiver, idx, own, goes, handled, r) ==
    [h |-> h, at |-> at, receiver |-> receiver, idx |-> idx, own |-> own, goes |-> goes, handled |-> handled, r |-> r]
Unhandled(w)  == [w EXCEPT !.goes = FALSE]
Handled(w, r) == Climb(r.h, w.at, w.receiver, w.idx, w.own, FALSE, TRUE, r)

\* setOwn, up to what it asks of its prototype.
asked(h, o, n, v) ==
    LET p == getOwnProp(h, o, n)
        w == Climb(h, h.objs[o].proto, o, FALSE, TRUE, h.objs[o].proto # Null, FALSE, Refused(h))
    IN  IF p # Absent THEN Handled(w, assignTo(h, o, n, p, v)) ELSE w

foreign(w, n, v, p) ==
    LET proto == w.h.objs[w.at].proto
        self  == IF IsSymbol(n) THEN w.at ELSE proto
    IN  CASE p # Absent -> CASE p.plain -> Unhandled(w)
                             [] ~p.plain /\ ~isWritable(p) -> Handled(w, Refused(w.h))
                             [] OTHER -> IF p.set # NoFunc THEN Handled(w, Result(w.h, TRUE, p.set, <<>>)) ELSE Unhandled(w)
          [] p = Absent /\ proto # Null -> IF w.receiver # self THEN [w EXCEPT !.at = proto] ELSE asked(w.h, proto, n, v)
          [] OTHER -> Unhandled(w)

\* setForeignIdx puts the names in order and passes over an object that has no index;
\* from one that has, the walk goes on with the name as a string.
setForeign(w, n, v) ==
    LET sorted == [w EXCEPT !.h = ensurePropOrder(w.h, w.at)]
        named  == [sorted EXCEPT !.idx = FALSE]
    IN  CASE ~w.idx -> foreign(w, n, v, getOwnProp(w.h, w.at, n))
          [] w.idx /\ sorted.h.objs[w.at].idxPropCount = 0 -> foreign(sorted, n, v, Absent)
          [] OTHER -> foreign(named, n, v, getOwnProp(sorted.h, w.at, n))

\* The call returns when an object handles it, or at the end of the prototypes.
climbed(w, n, v) == FoldLeft(LAMBDA x, k : IF x.goes THEN setForeign(x, n, v) ELSE x, w, [k \in 1..Cardinality(Objects) |-> k])

\* Object.set: with another receiver, the property is defined there.
setOn(h, receiver, n, p, v) ==
    IF ~p.plain /\ (p.acc \/ ~p.w) THEN Refused(h)
    ELSE defineOwnProperty(h, receiver, n, IF p = Absent THEN FullValue(v) ELSE JustValue(v))
settled(w, n, v) ==
    CASE w.handled -> w.r
      [] ~w.handled /\ w.own -> IF w.h.objs[w.receiver].extensible THEN Done(_put(w.h, w.receiver, n, PlainValue(v))) ELSE Refused(w.h)
      [] OTHER -> setOn(w.h, w.receiver, n, getOwnProp(w.h, w.receiver, n), v)
setOwn(h, o, n, v) == settled(climbed(asked(h, o, n, v), n, v), n, v)
set(h, o, n, v, receiver) ==
    IF receiver = o THEN setOwn(h, o, n, v)
    ELSE settled(climbed(Climb(h, o, receiver, IsIndex(n), FALSE, TRUE, FALSE, Refused(h)), n, v), n, v)

setProto(h, o, proto) ==
    LET at[k \in 1..Cardinality(Objects)] == IF k = 1 THEN proto ELSE IF at[k - 1] = Null THEN Null ELSE h.objs[at[k - 1]].proto
    IN  CASE h.objs[o].proto = proto -> Done(h)
          [] h.objs[o].proto # proto /\ (~h.objs[o].extensible \/ \E k \in DOMAIN at : at[k] = o) -> Refused(h)
          [] OTHER -> Done([h EXCEPT !.objs[o].proto = proto])

-----------------------------------------------------------------------------
(* Iterators                                                               *)

NoIter == [cur |-> Null, s |-> Slice(0, 0), idx |-> 0, seen |-> {}]
Walk   == 0      \* the iterator of a method of Object

\* The names of o are put in order, marked and shared with the i-th iterator.
shared(h, o)               == prepareNamesForCopy(h, o, Names(h, o))
iterator(h, o, i, seen)    == [h EXCEPT !.its[i] = [cur |-> o, s |-> Names(h, o), idx |-> 0, seen |-> seen]]
iterateStringKeys(h, o, i, seen) == iterator(shared(ensurePropOrder(h, o), o), o, i, seen)

\* objectPropIter.next: the names to come that have a value.
alive(h, it) == {j \in it.idx + 1..it.s.len : NamesIn(h, it.s)[j] \in DOMAIN h.objs[it.cur].values}

\* The names seen when the j-th is reached.
passed(h, it, j) == it.seen \union {NamesIn(h, it.s)[k] : k \in {k \in alive(h, it) : k <= j}}

\* enumerableIter around recursivePropIter, at one object: the first name not seen
\* yet, of a property that is enumerable, or else on to the prototype.
enumerateHere(h, i) ==
    LET it      == h.its[i]
        names   == NamesIn(h, it.s)
        hits    == {j \in alive(h, it) : names[j] \notin it.seen /\ getOwnProp(h, it.cur, names[j]).e}
        proto   == h.objs[it.cur].proto
        At(j)   == [h |-> [h EXCEPT !.its[i] = [it EXCEPT !.idx = j, !.seen = passed(h, it, j)]], out |-> <<names[j]>>, up |-> FALSE]
        Left(g) == [h |-> IF proto = Null THEN g ELSE iterateStringKeys(g, proto, i, passed(h, it, it.s.len)), out |-> <<>>, up |-> proto # Null]
    IN  IF hits # {} THEN At(Min(hits)) ELSE Left(clearNamesCopyMarker(h, it.s))

\* A loop that finds no more names is over.
enumerateNext(h, i) ==
    LET Over(r) == [r EXCEPT !.h = IF r.out = <<>> THEN [@ EXCEPT !.its[i] = NoIter] ELSE @]
    IN  Over(FoldLeft(LAMBDA r, k : IF r.up THEN enumerateHere(r.h, i) ELSE r,
                      [h |-> h, out |-> <<>>, up |-> TRUE], [k \in 1..Cardinality(Objects) |-> k]))

\* What Object.assign, seal and freeze do for one property of an object.
visit(h, o, n, how, to) ==
    LET p == getOwnProp(h, o, n)
        w == IF how = "freeze" /\ ~p.acc THEN {FALSE} ELSE {}
    IN  CASE how = "assign" -> IF p.e THEN setOwn(h, to, n, Got(p)) ELSE Done(h)
          [] how = "seal" /\ ~p.plain -> Done(_put(h, to, n, [p EXCEPT !.c = FALSE]))
          [] OTHER -> defineOwnProperty(h, to, n, Descriptor({}, w, {}, {FALSE}, {}, {}))

\* The names of s that still have a value are visited; the symbols are.
visitNames(h, o, s, how, to) ==
    FoldLeft(LAMBDA y, j : IF y.ok /\ NamesIn(y.h, s)[j] \in DOMAIN y.h.objs[o].values
                           THEN visit(y.h, o, NamesIn(y.h, s)[j], how, to) ELSE y,
             Done(h), [j \in 1..s.len |-> j])
visitSymbols(h, o, how, to) ==
    FoldLeft(LAMBDA y, n : IF y.ok THEN visit(y.h, o, n, how, to) ELSE y, Done(h), h.objs[o].syms)

\* A walk of iterateKeys: the names are shared while it goes on, and remain
\* marked if it is left; then come the symbols.
iterateKeys(h, o, how, to) ==
    LET start == iterateStringKeys(h, o, Walk, {})
        s     == Names(start, o)
        y     == visitNames(start, o, s, how, to)
        z     == IF y.ok THEN visitSymbols(clearNamesCopyMarker(y.h, s), o, how, to) ELSE y
    IN  [z EXCEPT !.setter = NoFunc, !.h.its[Walk] = NoIter]

preventExtensions(h, o) == [h EXCEPT !.objs[o].extensible = FALSE]

-----------------------------------------------------------------------------
\* The property that a lookup finds, along the prototypes.
getStr(h, o, n) ==
    LET Up(x, k) == IF getOwnProp(h, x, n) # Absent \/ h.objs[x].proto = Null THEN x ELSE h.objs[x].proto
    IN  getOwnProp(h, FoldLeft(Up, o, [k \in 1..Cardinality(Objects) |-> k]), n)

Said(c, ok, setter, out) == [c |-> c, ok |-> ok, setter |-> setter, out |-> out]

\* Calls for which the tables are known not to do what the language says.
Diverges(h, c) ==
    \/ c.m = "define" /\ TurnsBadly(getOwnProp(h, c.o, c.n), c.d)
    \/ c.m = "set" /\ IsSymbol(c.n) /\ c.r # c.o /\ getOwnProp(h, c.r, c.n) = Absent /\ h.objs[c.r].proto # Null

\* One call, and what it leaves of the heap.
Step(c, r) == heap' = Collected(r.h) /\ said' = Said(c, r.ok, r.setter, r.out)

Change(c) ==
    \/ c.m = "set"      /\ Step(c, set(heap, c.o, c.n, c.v, c.r))
    \/ c.m = "define"   /\ Step(c, defineOwnProperty(heap, c.o, c.n, c.d))
    \/ c.m = "delete"   /\ Step(c, deleteName(heap, c.o, c.n))
    \/ c.m = "setProto" /\ Step(c, setProto(heap, c.o, c.p))
    \/ c.m = "preventExtensions" /\ Step(c, Done(preventExtensions(heap, c.o)))
    \/ c.m \in {"seal", "freeze"} /\ Step(c, iterateKeys(preventExtensions(heap, c.o), c.o, c.m, c.o))
    \/ c.m = "assign"   /\ Step(c, iterateKeys(heap, c.r, "assign", c.o))

\* Object.getOwnPropertyNames and getOwnPropertySymbols.
listed(h, o) == Result(h, TRUE, NoFunc, NamesIn(h, Names(h, o)) \o h.objs[o].syms)
Keys(c)      == c.m = "keys" /\ Step(c, listed(ensurePropOrder(heap, c.o), c.o))

found(h, p) == Result(h, p # Absent, NoFunc, <<Got(p)>>)
Get(c)      == c.m = "get" /\ Step(c, found(heap, getStr(heap, c.o, c.n)))

\* enumerate and the first enumNext, with nothing in between; later enumNexts.
advanced(r) == Result(r.h, TRUE, NoFunc, r.out)
ForIn(c)    == c.m = "forIn" /\ Step(c, advanced(enumerateNext(iterateStringKeys(heap, c.o, c.i, {}), c.i)))
EnumNext(c) == c.m = "next" /\ heap.its[c.i] # NoIter /\ Step(c, advanced(enumerateNext(heap, c.i)))

\* A table with its properties in the order of their creation.
Bare(t) == [arr |-> [id \in {0} |-> <<>>], its |-> [i \in Walk..Loops |-> NoIter],
            objs |-> [o \in Objects |-> [values |-> <<>>, names |-> Slice(0, 0), syms |-> <<>>, lastSortedPropLen |-> 0,
                                         idxPropCount |-> 0, extensible |-> TRUE, proto |-> t[o].proto]]]
filled(h, o, names) == FoldLeft(LAMBDA g, n : _put(g, o, n, PlainValue(1)), h, names)
Built(t) == Collected(FoldLeft(LAMBDA h, o : filled(h, o, t[o].names), Bare(t), [o \in 1..Cardinality(Objects) |-> o]))

Init == /\ \E t \in Tables : heap = Built(t)
        /\ calls = 0 /\ said = Said([m |-> "none"], TRUE, NoFunc, <<>>)

Next == /\ calls < MaxCalls /\ calls' = calls + 1
        /\ \E c \in Calls : /\ Everything \/ ~Diverges(heap, c)
                            /\ Change(c) \/ Keys(c) \/ Get(c) \/ ForIn(c) \/ EnumNext(c)

Spec == Init /\ [][Next]_vars

-----------------------------------------------------------------------------
(* What the tables stand for                                               *)

AnObject(o) ==
    LET x     == heap.objs[o]
        names == NamesIn(heap, x.names)
    IN  [props |-> [n \in DOMAIN x.values |-> Meant(x.values[n])], strs |-> SelectSeq(names, LAMBDA n : ~IsIndex(n)),
         syms |-> x.syms, extensible |-> x.extensible, proto |-> x.proto]
ALoop(it) == [cur |-> it.cur, left |-> SubSeq(heap.arr[it.s.id], it.idx + 1, it.s.len), seen |-> it.seen]

Abstract == INSTANCE AbstractObjects WITH objs <- [o \in Objects |-> AnObject(o)], loops <- [i \in 1..Loops |-> ALoop(heap.its[i])]

\* Reordering, sharing and copying of names never shows: every call answers
\* what it answers on ordinary objects, keys and for-in loops that other calls
\* interrupt included, and leaves the same properties in the same order.
ImplementsObjects == Abstract!Spec

\* The names are those of the values, symbols apart, each once.
Lists(names, values) == Range(names) = {n \in DOMAIN values : ~IsSymbol(n)} /\ IsInjective(names)

\* The first of the names that were put in order are the indices, ascending, and
\* no other of them is one.
InOrder(names, indices, sorted) ==
    /\ indices <= sorted /\ sorted <= Len(names)
    /\ \A i \in 1..sorted : IsIndex(names[i]) <=> i <= indices
    /\ \A i \in 2..indices : names[i - 1] < names[i]

\* The slice has the names of the values, each once; the first of those that
\* were put in order are the indices, ascending and as many as counted, and no
\* other sorted name is one.
TableConsistent ==
    \A o \in Objects :
      LET x     == heap.objs[o]
          names == NamesIn(heap, x.names)
      IN  Lists(names, x.values) /\ InOrder(names, x.idxPropCount, x.lastSortedPropLen)
=============================================================================
