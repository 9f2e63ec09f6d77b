----------------------------- MODULE ArrayStore -----------------------------
(***************************************************************************)
(* Arrays as array.go, array_sparse.go and builtin_array.go store them: a  *)
(* slice of slots, or, when the indices are far apart, the items there     *)
(* are.  An array changes from one to the other while it is used.  Methods *)
(* work on the slice itself if the counters kept beside it say that it is  *)
(* full of plain values, and otherwise access element by element.          *)
(*                                                                         *)
(* store is the array: mem is the slice with its spare capacity and n its  *)
(* length; items holds the elements of a sparse array; objCount counts     *)
(* elements, props (propValueCount) those with attributes.                 *)
(***************************************************************************)
EXTENDS ArraySteps

CONSTANTS Values, Calls, Walks, Literals,
          Questions,                 \* the calls that only read
          SparseFrom, SparseRatio,   \* expand: above this index, if it is this many times objCount
          DenseFrom, DenseRatio,     \* expand of a sparse array: from this many items, if not above this many times
          ReallocFrom, ReallocRatio, \* _setLengthInt: from this length, if the capacity is this many times larger
          MaxCalls,                  \* how many calls a program makes
          Everything                 \* FALSE leaves out the calls that Diverges lists

ASSUME ArrayStoreAssumption ==
    /\ {SparseFrom, SparseRatio, DenseFrom, ReallocFrom, MaxCalls} \subseteq Nat
    /\ {DenseRatio, ReallocRatio} \subseteq Nat \ {0}
    /\ Everything \in BOOLEAN

\* Values are numbers.  A call has the arguments that its method takes: an index is a
\* number from 0 on, what relToIdx counts from an end is any.
ASSUME CallsAssumption ==
    /\ Values \subseteq Nat /\ \A s \in Literals : s \in Seq(Nat)
    /\ \A c \in Calls :
        /\ c.m \in {"set", "delete", "length", "define", "with"} => c.i \in Nat
        /\ c.m \in {"splice", "toSpliced", "fill", "copyWithin", "slice"} => c.i \in Int /\ c.d \in Int
        /\ c.m = "define" => c.d \in [v : Nat \union {Hole}, w : BOOLEAN, c : BOOLEAN]
        /\ c.m \in {"set", "fill", "with"} => c.v \in Nat
        /\ c.m \in {"push", "unshift", "splice", "toSpliced", "concat"} => c.vs \in Seq(Nat)

VARIABLES store, walk, ret, fast, calls
vars == <<store, walk, ret, fast, calls>>

\* A slot holds a plain value, a *valueProperty (p), or nothing.
Slot(v, w, c, p) == [v |-> v, w |-> w, c |-> c, p |-> p]
Nil              == Slot(Hole, FALSE, FALSE, FALSE)
PlainSlot(v)     == IF v = Hole THEN Nil ELSE Slot(v, TRUE, TRUE, FALSE)

Function0(seq) == [i \in 0..Len(seq) - 1 |-> seq[i + 1]]
Cap(a)         == Cardinality(DOMAIN a.mem)
ValuesOf(a)    == [k \in 1..a.n |-> a.mem[k - 1]]
Dense(a)       == a.kind = "dense"

\* The slice s as the values of a, in memory of its own.
setValues(a, s, cap) == [a EXCEPT !.mem = [i \in 0..cap - 1 |-> IF i < Len(s) THEN s[i + 1] ELSE Nil], !.n = Len(s)]

newArrayObject ==
    [kind |-> "dense", mem |-> <<>>, n |-> 0, items |-> <<>>, length |-> 0, objCount |-> 0, props |-> 0,
     lengthWritable |-> TRUE, extensible |-> TRUE]
setArrayValues(a, s) == [setValues(a, s, Len(s)) EXCEPT !.length = Len(s), !.objCount = Len(s)]
newArrayValues(s)    == setArrayValues(newArrayObject, s)
newArrayLength(l)    == [newArrayObject EXCEPT !.length = l]

getSlot(a, i) == IF i < a.n THEN a.mem[i] ELSE Nil
getItem(a, i) == IF i \in DOMAIN a.items THEN a.items[i] ELSE Nil
getOwnPropIdx(a, i) == IF Dense(a) THEN getSlot(a, i) ELSE getItem(a, i)
Indices(a) == IF Dense(a) THEN {i \in 0..a.n - 1 : a.mem[i] # Nil} ELSE DOMAIN a.items

hasOwnPropertyIdx(a, i) == getOwnPropIdx(a, i) # Nil
getIdx(a, i) == IF hasOwnPropertyIdx(a, i) THEN getOwnPropIdx(a, i).v ELSE Undefined

-----------------------------------------------------------------------------
(* length                                                                  *)

\* The indices from l on, downwards, are dropped until one is not configurable.
stopsAt(a, l) ==
    LET fixed == {i \in Indices(a) : i >= l /\ a.props > 0 /\ getOwnPropIdx(a, i).p /\ ~getOwnPropIdx(a, i).c}
    IN  IF fixed = {} THEN l ELSE Max(fixed) + 1

\* Mutant of truncate: the slots behind the new length keep their values.
truncateKeepsSlots(a, l) == IF l > a.n THEN a ELSE [a EXCEPT !.n = l]

truncate(a, l) ==
    CASE l > a.n -> a
      [] l <= a.n /\ l >= ReallocFrom /\ l < Cap(a) \div ReallocRatio -> setValues(a, SubSeq(ValuesOf(a), 1, l), l)
      [] OTHER -> [a EXCEPT !.mem = [i \in DOMAIN @ |-> IF i >= l /\ i < a.n THEN Nil ELSE @[i]], !.n = l]

cutItems(a, l) == [a EXCEPT !.items = [i \in {j \in DOMAIN @ : j < l} |-> @[i]]]

_setLengthInt(a, l) ==
    LET stop    == IF l <= a.length THEN stopsAt(a, l) ELSE l
        dropped == Cardinality({i \in Indices(a) : i >= stop /\ getOwnPropIdx(a, i).p})
        counted == [a EXCEPT !.props = IF l <= a.length /\ @ > 0 THEN @ - dropped ELSE @]
        cut     == IF Dense(a) THEN truncate(counted, stop) ELSE cutItems(counted, stop)
    IN  [a |-> [cut EXCEPT !.length = stop], ok |-> stop = l]

setLengthInt(a, l) ==
    CASE l = a.length -> Ok(a)
      [] l # a.length /\ ~a.lengthWritable -> Fails(a)
      [] OTHER -> _setLengthInt(a, l)

setLength(a, l) == IF a.lengthWritable THEN _setLengthInt(a, l) ELSE Fails(a)

-----------------------------------------------------------------------------
(* One representation and the other                                        *)

growCap(newSize, oldCap) == IF newSize > 2 * oldCap THEN newSize ELSE 2 * oldCap

toSparse(a) ==
    [a EXCEPT !.kind = "sparse", !.items = [i \in Indices(a) |-> a.mem[i]], !.mem = <<>>, !.n = 0, !.objCount = 0]

toDense(a, idx) ==
    [a EXCEPT !.kind = "dense", !.mem = [i \in 0..idx |-> getOwnPropIdx(a, i)], !.n = idx + 1,
              !.objCount = Cardinality(DOMAIN a.items), !.items = <<>>]

\* Room for idx in the slice, or a sparse array.
expandDense(a, idx) ==
    LET targetLen == idx + 1
    IN  CASE targetLen <= a.n -> a
          [] targetLen > a.n /\ targetLen < Cap(a) -> [a EXCEPT !.n = targetLen]
          [] OTHER -> IF idx > SparseFrom /\ (a.objCount = 0 \/ idx \div a.objCount > SparseRatio) THEN toSparse(a)
                      ELSE [setValues(a, ValuesOf(a), growCap(targetLen, Cap(a))) EXCEPT !.n = targetLen]

expandSparse(a, idx) ==
    LET l    == Cardinality(DOMAIN a.items)
        last == Max(DOMAIN a.items \union {idx})
    IN  IF l >= DenseFrom /\ last \div DenseRatio < l THEN toDense(a, last) ELSE a

expand(a, idx) == IF Dense(a) THEN expandDense(a, idx) ELSE expandSparse(a, idx)

\* The slot at idx is stored, in the slice or as an item.
putItem(a, idx, slot) == [a EXCEPT !.items = [i \in DOMAIN @ \union {idx} |-> IF i = idx THEN slot ELSE @[i]]]
assign(a, idx, slot)  == IF Dense(a) THEN [a EXCEPT !.mem[idx] = slot] ELSE putItem(a, idx, slot)
counted(a) == IF Dense(a) THEN [a EXCEPT !.objCount = @ + 1] ELSE a

_setOwnIdx(a, idx, v) ==
    LET prop == getOwnPropIdx(a, idx)
        r    == IF idx >= a.length THEN setLengthInt(a, idx + 1) ELSE Ok(a)
        x    == expand(r.a, idx)
    IN  CASE prop # Nil /\ prop.p  -> IF prop.w THEN Ok(assign(a, idx, [prop EXCEPT !.v = v])) ELSE Fails(a)
          [] prop # Nil /\ ~prop.p -> Ok(assign(a, idx, PlainSlot(v)))
          [] OTHER -> IF ~a.extensible \/ ~r.ok THEN Fails(a) ELSE Ok(counted(assign(x, idx, PlainSlot(v))))

isCompatiblePropertyDescriptor(a, slot, d) ==
    CASE slot = Nil -> a.extensible
      [] slot # Nil -> slot.c \/ (~d.c /\ (slot.w \/ (~d.w /\ d.v \in {Hole, slot.v})))

_defineOwnProperty(slot, d) ==
    IF d.w /\ d.c /\ d.v # Hole THEN PlainSlot(d.v)
    ELSE Slot(CASE d.v # Hole -> d.v [] d.v = Hole /\ slot # Nil -> slot.v [] OTHER -> Undefined, d.w, d.c, TRUE)

\* A property put into an array that changes its representation for it is not
\* counted, and neither is the element when a sparse array becomes dense.
definedSlot(a, slot) == IF ~Dense(a) THEN a ELSE [a EXCEPT !.props = IF slot.p THEN @ + 1 ELSE @, !.objCount = @ + 1]
definedItem(a, slot) == IF Dense(a) THEN a ELSE [a EXCEPT !.props = IF slot.p THEN @ + 1 ELSE @]

_defineIdxProperty(a, idx, d) ==
    LET old  == getOwnPropIdx(a, idx)
        slot == _defineOwnProperty(old, d)
        r    == IF idx >= a.length THEN setLengthInt(a, idx + 1) ELSE Ok(a)
        x    == IF ~Dense(a) /\ old # Nil THEN r.a ELSE expand(r.a, idx)
        y    == assign(x, idx, slot)
    IN  IF ~isCompatiblePropertyDescriptor(a, old, d) \/ ~r.ok THEN Fails(a)
        ELSE Ok(IF Dense(a) THEN definedSlot(y, slot) ELSE definedItem(y, slot))

deleteSlot(a, idx) == [a EXCEPT !.mem[idx] = Nil, !.objCount = @ - 1]
deleteItem(a, idx) == [a EXCEPT !.items = [i \in DOMAIN @ \ {idx} |-> @[i]]]

_deleteIdxProp(a, idx) ==
    LET slot == getOwnPropIdx(a, idx)
        b    == [a EXCEPT !.props = IF slot.p THEN @ - 1 ELSE @]
    IN  CASE slot = Nil -> Ok(a)
          [] slot # Nil /\ ~slot.c -> Fails(a)
          [] OTHER -> Ok(IF Dense(a) THEN deleteSlot(b, idx) ELSE deleteItem(b, idx))

Do(a, s) == Access(a, s, hasOwnPropertyIdx, getIdx, _setOwnIdx, _deleteIdxProp, setLength, _defineIdxProperty)

createDataPropertyOrThrow(a, i, v) == _defineIdxProperty(a, i, [v |-> v, w |-> TRUE, c |-> TRUE])

-----------------------------------------------------------------------------
(* Fast paths                                                              *)

\* Mutant of checkStdArrayObj: elements with attributes do not matter.
checkStdArrayObjAttributes(a) == Dense(a) /\ a.length = a.n /\ a.objCount = a.length

checkStdArrayObj(a) == Dense(a) /\ a.props = 0 /\ a.length = a.n /\ a.objCount = a.length

Result(r, v) == [a |-> r.a, ok |-> r.ok, v |-> IF r.ok THEN v ELSE <<>>]

Generic(a, c) ==
    LET H(i) == hasOwnPropertyIdx(a, i)
        G(i) == getIdx(a, i)
    IN  Result(Perform(a, Steps(c, a.length, H, G), Do), Returned(c, a.length, H, G))

\* Only a plain last element is taken off the slice.
pops(a) == Dense(a) /\ (a.length = 0 \/ (a.length <= a.n /\ a.mem[a.length - 1] # Nil /\ ~a.mem[a.length - 1].p))
fastPop(a) ==
    LET l   == a.length - 1
        cut == [a EXCEPT !.mem[l] = Nil, !.n = l]
    IN  IF a.length = 0 THEN Result(setLength(a, 0), <<Undefined>>)
        ELSE Result(IF a.lengthWritable THEN Ok([cut EXCEPT !.length = l]) ELSE Fails(cut), <<a.mem[l].v>>)

fastShift(a) ==
    LET moved == [i \in DOMAIN a.mem |-> CASE i < a.n - 1 -> a.mem[i + 1] [] i = a.n - 1 -> Nil [] OTHER -> a.mem[i]]
    IN  IF a.n = 0 THEN Result(IF a.lengthWritable THEN Ok(a) ELSE Fails(a), <<Undefined>>)
        ELSE Result(Ok([a EXCEPT !.mem = moved, !.n = @ - 1, !.length = @ - 1]), <<getIdx(a, 0)>>)

\* s takes the place of the slice, in the same memory if there is room.
replace(a, s) ==
    IF Cap(a) < Len(s) THEN setValues(a, s, Len(s))
    ELSE [a EXCEPT !.mem = [i \in DOMAIN @ |-> IF i < Len(s) THEN s[i + 1] ELSE IF i < a.n THEN Nil ELSE @[i]],
                   !.n = Len(s)]

PlainSlots(vs) == [k \in 1..Len(vs) |-> PlainSlot(vs[k])]

fastUnshift(a, vs) ==
    LET b == [replace(a, PlainSlots(vs) \o ValuesOf(a)) EXCEPT !.objCount = a.length]
    IN  Result(setLength(b, a.length + Len(vs)), <<a.length + Len(vs)>>)

fastSplice(a, c) ==
    LET start == Start(c, a.length)
        del   == Count(c, a.length)
        s     == ValuesOf(a)
        b     == replace(a, SubSeq(s, 1, start) \o PlainSlots(c.vs) \o SubSeq(s, start + del + 1, a.n))
    IN  Result(setLength([b EXCEPT !.objCount = b.n], b.n), [k \in 1..del |-> getIdx(a, start + k - 1)])

inPlace(a, F(_)) == Result(Ok([a EXCEPT !.mem = [i \in DOMAIN @ |-> IF i < a.n THEN F(i) ELSE @[i]]]), <<>>)
\* Nothing is after undefined, and undefined is after the others.
sortStable(s) == InOrder(s, LAMBDA x, y : x # Nil /\ (y = Nil \/ (x.v # Undefined /\ (y.v = Undefined \/ x.v < y.v))))

Fast(a, c) ==
    LET l     == a.length
        to    == Start(c, l)
        from  == End(c, l)
        count == Copied(c, l)
    IN  CASE c.m = "shift"   -> fastShift(a)
          [] c.m = "unshift" -> IF c.vs = <<>> THEN Generic(a, c) ELSE fastUnshift(a, c.vs)
          [] c.m = "splice"  -> fastSplice(a, c)
          [] c.m = "reverse" -> inPlace(a, LAMBDA i : a.mem[l - i - 1])
          [] c.m = "fill"    -> inPlace(a, LAMBDA i : IF i >= to /\ i < from THEN PlainSlot(c.v) ELSE a.mem[i])
          [] c.m = "copyWithin" -> inPlace(a, LAMBDA i : IF i >= to /\ i < to + count THEN a.mem[i - to + from] ELSE a.mem[i])
          [] c.m = "sort"    -> inPlace(a, LAMBDA i : sortStable(ValuesOf(a))[i + 1])

HasFast == {"shift", "unshift", "splice", "reverse", "fill", "copyWithin", "sort"}

Change(a, c) ==
    CASE c.m = "pop" /\ pops(a) -> fastPop(a)
      [] c.m \in HasFast /\ checkStdArrayObj(a) -> Fast(a, c)
      [] OTHER -> Generic(a, c)

-----------------------------------------------------------------------------
(* New arrays                                                              *)

build(plan) ==
    LET a == FoldLeft(LAMBDA x, s : createDataPropertyOrThrow(x, s.i, s.v).a, newArrayLength(plan.l), plan.puts)
    IN  IF plan.end = NoLength THEN a ELSE setLength(a, plan.end).a

Create(a, c) ==
    LET l    == a.length
        s    == ValuesOf(a)
        std  == checkStdArrayObj(a)
        H(i) == hasOwnPropertyIdx(a, i)
        G(i) == getIdx(a, i)
        all  == PlainSlots(All(l, G))
        start == Start(c, l)
    IN  CASE c.m = "with" /\ std       -> newArrayValues([s EXCEPT ![c.i + 1] = PlainSlot(c.v)])
          [] c.m = "toReversed" /\ std -> newArrayValues(Reverse(s))
          [] c.m = "toSpliced" /\ std  -> newArrayValues(SubSeq(s, 1, start) \o PlainSlots(c.vs)
                                                         \o SubSeq(s, start + Count(c, l) + 1, l))
          [] c.m = "toSorted" -> newArrayValues(sortStable(IF std THEN s ELSE all))
          [] c.m = "from"     -> newArrayValues(IF std THEN s ELSE all)
          [] OTHER -> build(Makes(c, l, Listing(l, H, G), All(l, G)))

\* On the slice, what is not there is equal to nothing, not even to undefined.
Read(a, c) ==
    LET H(i) == hasOwnPropertyIdx(a, i)
        G(i) == getIdx(a, i)
    IN  IF c.m = "includes" /\ checkStdArrayObj(a)
        THEN <<IF \E k \in Start(c, a.length)..a.n - 1 : a.mem[k].v = c.v THEN 1 ELSE 0>>
        ELSE Answer(c, a.length, Listing(a.length, H, G), All(a.length, G))

-----------------------------------------------------------------------------
Abstract == INSTANCE AbstractArray WITH
    arr <- [elems |-> [i \in Indices(store) |-> LET s == getOwnPropIdx(store, i) IN [v |-> s.v, w |-> s.w, c |-> s.c]],
            length |-> store.length, lengthWritable |-> store.lengthWritable, extensible |-> store.extensible]

\* Calls for which the fast paths or the counters are known not to do what the
\* language says: a slice that is counted full has a hole; length cannot be
\* written; elements cannot be added; the representation changes in defineProperty.
Diverges(a, c) ==
    \/ /\ c.m = "define" /\ ~(c.d.w /\ c.d.c /\ c.d.v # Hole)
       /\ getOwnPropIdx(a, c.i) = Nil /\ expand(a, c.i).kind # a.kind
    \/ /\ checkStdArrayObj(a) /\ Cardinality(Indices(a)) < a.length
       /\ \/ c.m \in {"with", "toReversed", "toSorted", "toSpliced", "from", "includes", "splice"}
          \/ ~a.extensible /\ c.m \in HasFast
    \/ /\ checkStdArrayObj(a) /\ ~(a.lengthWritable /\ a.extensible)
       /\ c.m \in {"shift", "unshift", "splice"}

Init ==
    /\ store \in {newArrayValues(PlainSlots(s)) : s \in Literals} /\ walk = NoWalk /\ fast = FALSE /\ calls = 0
    /\ ret = Abstract!Said(Abstract!NoCall, TRUE, <<>>)

Makeable(c) == c.m = "with" => c.i < store.length

Counted == calls < MaxCalls /\ calls' = calls + 1

CallChange(c) ==
    /\ c.m \in Abstract!Changes
    /\ LET r == Change(store, c) IN store' = r.a /\ ret' = Abstract!Said(c, r.ok, r.v)

CallCreate(c) ==
    /\ c.m \in Abstract!Creates /\ Makeable(c)
    /\ store' = Create(store, c) /\ ret' = Abstract!Said(c, TRUE, <<>>)

CallRestrict(c) ==
    /\ \/ c.m = "preventExtensions" /\ store' = [store EXCEPT !.extensible = FALSE]
       \/ c.m = "lockLength" /\ store' = [store EXCEPT !.lengthWritable = FALSE]
    /\ ret' = Abstract!Said(c, TRUE, <<>>)

Call ==
    \E c \in Calls :
        /\ Counted /\ (Everything \/ ~Diverges(store, c))
        /\ CallChange(c) \/ CallCreate(c) \/ CallRestrict(c)
        /\ UNCHANGED <<walk, fast>>

BeginWalk ==
    /\ walk = NoWalk /\ Counted
    /\ \E m \in Walks : walk' = Begun(m, store.length)
    /\ fast' = Dense(store) /\ ret' = Abstract!Said(Abstract!NoCall, TRUE, <<>>) /\ UNCHANGED store

StepWalk ==
    /\ walk # NoWalk /\ ~Done(walk, store.length)
    /\ LET visited == ~SkipsHoles(walk.m) \/ hasOwnPropertyIdx(store, walk.k)
           v       == getIdx(store, walk.k)
       IN  /\ \E x \in IF walk.m = "map" /\ visited THEN Values ELSE {v}, keeps \in BOOLEAN :
                /\ walk.m # "filter" \/ ~visited => keeps
                /\ walk' = Walked(walk, visited, x, keeps)
           /\ ret' = Abstract!Said(Abstract!NoCall, TRUE, IF visited THEN <<walk.k, v>> ELSE <<>>)
    /\ UNCHANGED <<store, fast, calls>>

\* map of a dense array stores the slice with its holes and counts all of it.
EndWalk ==
    /\ walk # NoWalk /\ (Done(walk, store.length) \/ walk.m \notin {"map", "filter"})
    /\ store' = CASE walk.m \notin {"map", "filter"} -> store
                  [] walk.m \in {"map", "filter"} /\ fast  -> newArrayValues(PlainSlots(walk.kept))
                  [] walk.m \in {"map", "filter"} /\ ~fast -> build(Plan(Len(walk.kept), walk.kept, NoLength))
    /\ walk' = NoWalk /\ fast' = FALSE /\ ret' = Abstract!Said(Abstract!NoCall, TRUE, <<>>) /\ UNCHANGED calls

Next == Call \/ BeginWalk \/ StepWalk \/ EndWalk
Spec == Init /\ [][Next]_vars

-----------------------------------------------------------------------------
\* Whatever methods are called, in whichever order and from whichever callback,
\* on the slice or element by element, dense or sparse, the array has the
\* elements, the attributes and the length that the language prescribes, and
\* every call returns or throws what it should, those that only read included.
ImplementsArray ==
    /\ Abstract!Spec
    /\ [](\A c \in Questions : Everything \/ ~Diverges(store, c) => Read(store, c) = Abstract!Seen(c))

\* What the shortcuts rely on.  propValueCount is never less than the number of
\* elements with attributes: when it is 0, _setLengthInt and checkStdArrayObj look
\* no further.  The capacity behind the slice is empty, so that expand, unshift and
\* splice may take it back without bringing deleted elements to life.  No element
\* is at or above length.
ShortcutsSound ==
    /\ Cardinality({i \in Indices(store) : getOwnPropIdx(store, i).p}) <= store.props
    /\ \A i \in DOMAIN store.mem : i >= store.n => store.mem[i] = Nil
    /\ \A i \in Indices(store) : i < store.length
=============================================================================
