---------------------------- MODULE TypedArrays ----------------------------
(***************************************************************************)
(* Array buffers, typed arrays and data views: typedarrays.go and          *)
(* builtin_typedarrays.go.  A method reads and writes memory without a     *)
(* bounds check, and between its checks it converts arguments and calls    *)
(* callbacks and constructors, in which the program may detach buffers.    *)
(*                                                                         *)
(* block[b] is the memory that buffer b holds (arrayBufferObject.data), 0  *)
(* when it is detached; bytes are the contents.  view[1] is the array that *)
(* a method is called on, view[2] its source, view[3] and buffer 3 are     *)
(* what the call made.  A method is a sequence of instructions: the steps  *)
(* at which it looks at a buffer, touches memory or runs a script.         *)
(***************************************************************************)
EXTENDS Integers, Sequences, SequencesExt

CONSTANTS Pairs,      \* pairs of view[1] and view[2], to begin with
          Starts(_),  \* the calls to make on such a pair
          BufferLen,  \* bytes of buffers 1 and 2
          MaxUses,    \* how many calls a program makes
          Everything  \* whether scripts detach what the code does not look at again,
                      \* and methods are called where they leave their view (Diverges)

VARIABLES block, bytes, view, call, uses
vars == <<block, bytes, view, call, uses>>

Buffers == 1..3
Size(type)  == CASE type \in {"u8", "i8"} -> 1 [] type = "u16" -> 2 [] type = "u32" -> 4
View(buf, type, offset, length) == [buf |-> buf, type |-> type, offset |-> offset, length |-> length]
NoView == View(0, "u8", 0, 0)
Zeros(n) == [p \in 1..n |-> 0]
Lesser(x, y)  == IF x < y THEN x ELSE y
Abs(x)        == IF x < 0 THEN -x ELSE x
Greater(x, y) == IF x > y THEN x ELSE y

ensureNotDetached(b) == block[b] # 0

\* The bytes of memory mem that element i of view w occupies, and what they hold.
At(w, i) == (w.offset + i) * Size(w.type)
Element(mem, w, i) == SubSeq(mem, At(w, i) + 1, At(w, i) + Size(w.type))

\* An element converted to type t: the low bytes, little end first.
Converted(e, t) == [p \in 1..Size(t) |-> IF p <= Len(e) THEN e[p] ELSE 0]

\* Memory mem with the elements f (by index) of view w.
Overlay(mem, w, f) ==
    [p \in 1..Len(mem) |->
        LET i == (p - 1) \div Size(w.type) - w.offset
        IN  IF i \in DOMAIN f THEN f[i][1 + ((p - 1) % Size(w.type))] ELSE mem[p]]

relToIdx(rel, l) == IF rel >= 0 THEN Lesser(rel, l) ELSE Greater(l + rel, 0)

-----------------------------------------------------------------------------
(* The instructions                                                        *)

Instr(op, v, i, w, j, n) == [op |-> op, v |-> v, i |-> i, w |-> w, j |-> j, n |-> n, made |-> NoView, spare |-> {}]
Do(op, v)       == <<Instr(op, v, 0, 0, 0, 0)>>
Check(v)        == Do("check", v)                          \* ensureNotDetached(true)
Leave(v)        == Do("leave", v)                          \* returns if ensureNotDetached(false) fails
Throw           == Do("throw", 1)
Refuse(p)       == IF p THEN Throw ELSE <<>>
Skip(n)         == <<Instr("skip", 0, 0, 0, 0, n)>>        \* may leave out the next n
IfValid(v, k, body) == <<Instr("valid", v, k, 0, 0, Len(body))>> \o body    \* isValidIntegerIndex
IfNot(v, k)     == <<Instr("valid", v, k, 0, 0, 1), Instr("skip1", 0, 0, 0, 0, 1)>> \o Throw  \* throws if it is not valid
Touch(v, i, n)  == IF n > 0 THEN <<Instr("touch", v, i, 0, 0, n)>> ELSE <<>>
Get(v, k)       == IfValid(v, k, Touch(v, k, 1))
Move(v, i, w, j)    == <<Instr("move", v, i, w, j, 1)>>    \* v.set(i, w.get(j))
Copy(v, i, w, j, n) == IF n > 0 THEN <<Instr("copy", v, i, w, j, n)>> ELSE <<>>   \* copy() of n elements
Creep(v, i, w, j, n) == <<Instr("creep", v, i, w, j, n)>>  \* the same, upwards byte by byte
Swap(v, i, j)   == <<Instr("swap", v, i, v, j, 1)>>
Fill(v, i, n)   == IF n > 0 THEN <<Instr("fill", v, i, 0, 0, n)>> ELSE <<>>
Make(w, fresh)  == <<[Instr("make", 3, 0, 0, 0, IF fresh THEN At(w, w.length) ELSE -1) EXCEPT !.made = w]>>
Script          == Do("script", 1)
\* A script after which the code does not look at views vs again.
ScriptSparing(vs) == <<[Script[1] EXCEPT !.spare = vs]>>

Each(ks, Body(_)) == FlattenSeq([n \in 1..Len(ks) |-> Body(ks[n])])
Upwards(from, n)   == [x \in 1..Greater(n - from, 0) |-> from + x - 1]
Downwards(n, to)   == [x \in 1..Greater(n - to, 0) |-> n - x]

\* set() of a value that is yet to be converted: the address is taken first.
Put(v, i) == ScriptSparing({v}) \o Touch(v, i, 1)

\* The conversion comes first, then the check.
_putIdx(v, i) == Script \o IfValid(v, i, Touch(v, i, 1))
_getIdx(v, i) == Get(v, i)
_defineIdxProperty(v, i) == Get(v, i) \o IfNot(v, i) \o _putIdx(v, i)

-----------------------------------------------------------------------------
(* Making arrays.  ctor is the type of a default constructor, or the view  *)
(* that a constructor of the program returns.                              *)

allocateTypedArray(type, n) == Script \o Make(View(3, type, 0, n), TRUE)

typedArrayCreate(c, type, n) ==
    IF c.ctor = NoView THEN Make(View(3, type, 0, n), TRUE)
    ELSE Script \o Make(c.ctor, c.ctor.buf = 3) \o Check(3) \o Refuse(c.ctor.length < n)
typedArraySpeciesCreate(c, type, n) == Script \o typedArrayCreate(c, type, n)

Created(c, type, n) == IF c.ctor = NoView THEN View(3, type, 0, n) ELSE c.ctor

\* new T(buffer, a, b), b < 0 for none.
_newTypedArrayFromArrayBuffer(buf, type, a, b) ==
    Script \o Script
    \o Refuse(a % Size(type) # 0)
    \o (IF b >= 0 THEN Script \o Check(1) \o Refuse(a + b * Size(type) > BufferLen)
        ELSE Check(1) \o Refuse(BufferLen % Size(type) # 0 \/ a > BufferLen))
    \o Make(View(buf, type, a \div Size(type), IF b >= 0 THEN b ELSE (BufferLen - a) \div Size(type)), FALSE)

\* The names of two constructors are read, properties that may have getters; what
\* views vs show is not looked at again.  It may throw, as any script.
checkTypedArrayMixBigInt(vs) == ScriptSparing(vs)

\* new T(view[2])
_newTypedArrayFromTypedArray(type) ==
    LET S == view[2] IN
    allocateTypedArray(type, 0) \o Check(2) \o Check(2) \o Make(View(3, type, 0, S.length), TRUE)
    \o (IF type = S.type THEN Copy(3, 0, 2, 0, S.length)
        ELSE checkTypedArrayMixBigInt({2, 3}) \o Each(Upwards(0, S.length), LAMBDA i : Move(3, i, 2, i)))

\* new T(array-like of n values)
typedArrayFrom(type, n) ==
    Script \o allocateTypedArray(type, n) \o Each(Upwards(0, n), LAMBDA i : Script \o Touch(3, i, 1))

\* T.from, of an iterable that is read first or of an array-like, and T.of.  Only
\* what an iterable is mapped to goes through _putIdx; the others give set() an
\* index without the offset of the view, as if it began where its buffer does.
PutUnmoved(c, i) == Put(3, i - c.ctor.offset)
typedArray_from(c, n, iterable, mapped) ==
    Script \o typedArrayCreate(c, "u8", n)
    \o Each(Upwards(0, n), LAMBDA i : IF iterable /\ mapped THEN Script \o _putIdx(3, i)
                                      ELSE (IF iterable THEN <<>> ELSE ScriptSparing({3})) \o PutUnmoved(c, i))
typedArray_of(c, n) == typedArrayCreate(c, "u8", n) \o Each(Upwards(0, n), LAMBDA i : PutUnmoved(c, i))

\* new DataView(buffer, a, b), b < 0 for none.
newDataView(buf, a, b) ==
    Script \o Check(1) \o Refuse(a > BufferLen)
    \o (IF b >= 0 THEN Script \o Refuse(a + b > BufferLen) ELSE <<>>)
    \o Script \o Check(1)
    \o Make(View(buf, "u8", a, IF b >= 0 THEN b ELSE BufferLen - a), FALSE)

-----------------------------------------------------------------------------
(* Buffers and data views                                                  *)

builtin_newArrayBuffer(n) == Script \o Script \o Make(View(3, "u8", 0, n), TRUE)
arrayBufferProto_getByteLength == Leave(1)

arrayBufferProto_slice(c, a, b) ==
    LET start == relToIdx(a, BufferLen)
        stop  == relToIdx(b, BufferLen)
        n     == Greater(stop - start, 0)
    IN  Check(1) \o Script \o Script
        \o Script \o Make(Created(c, "u8", n), Created(c, "u8", n).buf = 3)
        \o Check(1) \o Refuse(c.ctor.buf = view[1].buf \/ (c.ctor # NoView /\ c.ctor.length < n)) \o Check(3)
        \o Copy(3, 0, 1, start, n)

\* transfer(a): the bytes go to a new buffer; a < 0 for their number.
arrayBufferCopyAndDetach(a) ==
    Script \o Check(1) \o <<Instr("handover", 1, 0, 0, 0, IF a < 0 THEN BufferLen ELSE a)>>

\* Reads and writes of n bytes at k.
getIdxAndByteOrder(c, k, n) == Check(c.this) \o Refuse(k + n > view[c.this].length) \o Touch(c.this, k, n)
dataViewProto_get(c, k, n) == Script \o getIdxAndByteOrder(c, k, n)
dataViewProto_set(c, k, n) == Script \o Script \o getIdxAndByteOrder(c, k, n)

-----------------------------------------------------------------------------
(* Methods of typed arrays; n is the length of the array                   *)

\* every, find and their like: the callback may end the loop.
Visit(v, ks, ends) ==
    Check(v) \o Each(ks, LAMBDA k : Get(v, k) \o Script \o (IF ends THEN Do("mayEnd", v) ELSE <<>>))
typedArrayProto_every(v, n)         == Visit(v, Upwards(0, n), TRUE)
typedArrayProto_some(v, n)          == Visit(v, Upwards(0, n), TRUE)
typedArrayProto_find(v, n)          == Visit(v, Upwards(0, n), TRUE)
typedArrayProto_findIndex(v, n)     == Visit(v, Upwards(0, n), TRUE)
typedArrayProto_findLast(v, n)      == Visit(v, Downwards(n, 0), TRUE)
typedArrayProto_findLastIndex(v, n) == Visit(v, Downwards(n, 0), TRUE)
typedArrayProto_forEach(v, n)       == Visit(v, Upwards(0, n), FALSE)

\* init: whether there is an initial value.
typedArrayProto_reduce(v, n, init) ==
    Check(v) \o (IF init THEN <<>> ELSE Refuse(n = 0) \o Touch(v, 0, 1))
    \o Each(Upwards(IF init THEN 0 ELSE 1, n), LAMBDA k : Get(v, k) \o Script)
typedArrayProto_reduceRight(v, n, init) ==
    Check(v) \o (IF init THEN <<>> ELSE Refuse(n = 0) \o Touch(v, n - 1, 1))
    \o Each(Downwards(IF init THEN n ELSE n - 1, 0), LAMBDA k : Get(v, k) \o Script)

typedArrayProto_at(v, n, a) ==
    LET k == IF a < 0 THEN n + a ELSE a
    IN  Check(v) \o Script \o (IF k \in 0..n - 1 THEN Leave(v) \o Touch(v, k, 1) ELSE <<>>)

SearchFrom(v, n, a) ==
    Check(v) \o (IF n = 0 THEN <<>>
                 ELSE Script \o (IF a >= n THEN <<>>
                                 ELSE Leave(v) \o Touch(v, relToIdx(a, n), n - relToIdx(a, n))))
typedArrayProto_includes(v, n, a) == SearchFrom(v, n, a)
typedArrayProto_indexOf(v, n, a)  == SearchFrom(v, n, a)
typedArrayProto_lastIndexOf(v, n, a) ==
    LET from == IF a >= 0 THEN Lesser(a, n - 1) ELSE Greater(n + a, -1)
    IN  Check(v) \o (IF n = 0 THEN <<>> ELSE Script \o Leave(v) \o Touch(v, 0, from + 1))

typedArrayProto_join(v, n) == Check(v) \o Script \o Each(Upwards(0, n), LAMBDA k : Get(v, k))
typedArrayProto_toLocaleString(v, n) ==
    Each(Upwards(0, n), LAMBDA k : Check(v) \o Touch(v, k, 1) \o Script)

\* copy() stops at the end of the buffer, not at that of the view.
typedArrayProto_copyWithin(v, n, a, b) ==
    LET to    == relToIdx(a, n)
        from  == relToIdx(b, n)
        count == Lesser(n - from, (BufferLen - At(view[v], to)) \div Size(view[v].type))
    IN  Check(v) \o Script \o Script \o Script \o (IF n > from THEN Check(v) \o Copy(v, to, v, from, count) ELSE <<>>)

\* Mutant of fill: the buffer is not looked at again after the conversions.
typedArrayProto_fillUnchecked(v, n, a, b) ==
    Check(v) \o Script \o Script \o Script \o Fill(v, relToIdx(a, n), relToIdx(b, n) - relToIdx(a, n))
typedArrayProto_fill(v, n, a, b) ==
    Check(v) \o Script \o Script \o Script \o Check(v) \o Fill(v, relToIdx(a, n), relToIdx(b, n) - relToIdx(a, n))

typedArrayProto_reverse(v, n) == Check(v) \o Each(Upwards(0, n \div 2), LAMBDA k : Swap(v, k, n - k - 1))

\* sort.Stable inserts the elements one by one; typedArraySortCtx looks at the
\* buffer again after each call of the comparison function.
Less(v, j) == Touch(v, j - 1, 2) \o Script \o Leave(v)
typedArrayProto_sort(v, n) ==
    Check(v) \o Each(Upwards(1, n), LAMBDA i :
        Each(Downwards(i, 0), LAMBDA j : Less(v, j + 1) \o Skip(1 + 5 * j) \o Swap(v, j, j + 1)))

\* The callback may detach what dst views: see ScriptSparing.
typedArrayProto_map(c, n) ==
    Check(1) \o typedArraySpeciesCreate(c, view[1].type, n)
    \o Each(Upwards(0, n), LAMBDA k : Get(1, k) \o ScriptSparing({3}) \o Put(3, k))

\* The first a elements are kept.
typedArrayProto_filter(c, n, a) ==
    Check(1) \o Each(Upwards(0, n), LAMBDA k : Get(1, k) \o Get(1, k) \o Script)
    \o Script \o typedArrayCreate(c, view[1].type, Lesser(a, n)) \o Touch(3, 0, Lesser(a, n))

typedArrayProto_with(n, a) ==
    LET k == IF a >= 0 THEN a ELSE n + a
    IN  Check(1) \o Script \o Script \o IfNot(1, k)
        \o Make(View(3, view[1].type, 0, n), TRUE) \o Copy(3, 0, 1, 0, n) \o Fill(3, k, 1)

typedArrayProto_toReversed(n) ==
    Check(1) \o Make(View(3, view[1].type, 0, n), TRUE) \o Each(Upwards(0, n), LAMBDA k : Move(3, k, 1, n - k - 1))

typedArrayProto_toSorted(n) ==
    Check(1) \o Make(View(3, view[1].type, 0, n), TRUE) \o Copy(3, 0, 1, 0, n) \o typedArrayProto_sort(3, n)

typedArrayProto_subarray(c, n, a, b) ==
    LET from == relToIdx(a, n)
        len  == Greater(relToIdx(b, n) - from, 0)
    IN  Script \o Script \o Script
        \o (IF c.ctor = NoView
            THEN Check(1) \o Make(View(view[1].buf, view[1].type, view[1].offset + from, len), FALSE)
            ELSE Script \o Make(c.ctor, c.ctor.buf = 3) \o Check(3))

\* What view w shares with view v, and where: addresses of the first elements.
Address(w, i) == 100 * w.buf + At(w, i)

slice(c, n, start, count) ==
    LET D  == Created(c, view[1].type, count)
        to == Address(D, 0)
        from == Address(view[1], start)
    IN  IF D.type = view[1].type
        THEN IF count = 0 THEN <<>>
             ELSE Check(1) \o (IF to <= from \/ to >= from + count * Size(D.type) THEN Copy(3, 0, 1, start, count)
                               ELSE Creep(3, 0, 1, start, count))
        ELSE Each(Upwards(0, count), LAMBDA i : Check(1) \o Move(3, i, 1, start + i))
typedArrayProto_slice(c, n, a, b) ==
    LET start == relToIdx(a, n)
        count == Greater(relToIdx(b, n) - start, 0)
    IN  Check(1) \o Script \o Script \o typedArraySpeciesCreate(c, view[1].type, count) \o slice(c, n, start, count)

\* Mutant of moveOrder: always upwards.
moveOrderUpwards(T, S, a, n) == Upwards(0, n)

\* The order in which set(source) moves elements 0..n-1 between arrays with
\* elements of different sizes, so that it reads none that it has overwritten.
moveOrder(T, S, a, n) ==
    LET gap  == Address(T, a) - Address(S, 0)
        step == Size(S.type) - Size(T.type)
        x    == IF gap * step <= 0 THEN 0 ELSE Lesser(n, Abs(gap) \div Abs(step))
    IN  IF step = 0 THEN IF gap <= 0 \/ gap >= n * Size(S.type) THEN Upwards(0, n) ELSE Downwards(n, 0)
        ELSE IF step > 0 THEN Upwards(x, n) \o Downwards(x, 0)
        ELSE Upwards(0, x) \o Downwards(n, x)

\* set(view[2], a), and set(array-like of b values, a).
typedArrayProto_set(n, a) ==
    LET S == view[2] IN
    Script \o Refuse(a < 0) \o Check(1) \o Check(2) \o Refuse(S.length + a > n)
    \o (IF S.type = view[1].type THEN Copy(1, a, 2, 0, S.length)
        ELSE checkTypedArrayMixBigInt({1, 2})
             \o Each(moveOrder(view[1], S, a, S.length), LAMBDA i : Move(1, a + i, 2, i)))
typedArrayProto_setValues(n, a, b) ==
    Script \o Refuse(a < 0) \o Check(1) \o Script \o Refuse(b + a > n)
    \o Each(Upwards(0, b), LAMBDA i : Script \o IfValid(1, a + i, Put(1, a + i)))

\* Uint8Array only.  The options are read before the buffer is looked at.
getUint8ArrayBytes(v, n)           == Check(v) \o Touch(v, 0, n)
uint8ArrayProto_toBase64(v, n)     == Script \o getUint8ArrayBytes(v, n)
uint8ArrayProto_setFromBase64(v, n) == Script \o getUint8ArrayBytes(v, n)
uint8ArrayProto_toHex(v, n)        == getUint8ArrayBytes(v, n)
uint8ArrayProto_setFromHex(v, n)   == getUint8ArrayBytes(v, n)

Program(c, v, n, a, b) ==
    CASE c.m = "every" -> typedArrayProto_every(v, n) [] c.m = "some" -> typedArrayProto_some(v, n)
      [] c.m = "find" -> typedArrayProto_find(v, n) [] c.m = "findIndex" -> typedArrayProto_findIndex(v, n)
      [] c.m = "findLast" -> typedArrayProto_findLast(v, n) [] c.m = "findLastIndex" -> typedArrayProto_findLastIndex(v, n)
      [] c.m = "forEach" -> typedArrayProto_forEach(v, n) [] c.m = "reduce" -> typedArrayProto_reduce(v, n, a = 1)
      [] c.m = "reduceRight" -> typedArrayProto_reduceRight(v, n, a = 1) [] c.m = "at" -> typedArrayProto_at(v, n, a)
      [] c.m = "includes" -> typedArrayProto_includes(v, n, a) [] c.m = "indexOf" -> typedArrayProto_indexOf(v, n, a)
      [] c.m = "lastIndexOf" -> typedArrayProto_lastIndexOf(v, n, a) [] c.m = "join" -> typedArrayProto_join(v, n)
      [] c.m = "toLocaleString" -> typedArrayProto_toLocaleString(v, n)
      [] c.m = "copyWithin" -> typedArrayProto_copyWithin(v, n, a, b) [] c.m = "fill" -> typedArrayProto_fill(v, n, a, b)
      [] c.m = "reverse" -> typedArrayProto_reverse(v, n) [] c.m = "sort" -> typedArrayProto_sort(v, n)
      [] c.m = "map" -> typedArrayProto_map(c, n) [] c.m = "filter" -> typedArrayProto_filter(c, n, a)
      [] c.m = "with" -> typedArrayProto_with(n, a) [] c.m = "toReversed" -> typedArrayProto_toReversed(n)
      [] c.m = "toSorted" -> typedArrayProto_toSorted(n) [] c.m = "subarray" -> typedArrayProto_subarray(c, n, a, b)
      [] c.m = "slice" -> typedArrayProto_slice(c, n, a, b) [] c.m = "set" -> typedArrayProto_set(n, a)
      [] c.m = "setValues" -> typedArrayProto_setValues(n, a, b) [] c.m = "toBase64" -> uint8ArrayProto_toBase64(v, n)
      [] c.m = "setFromBase64" -> uint8ArrayProto_setFromBase64(v, n) [] c.m = "toHex" -> uint8ArrayProto_toHex(v, n)
      [] c.m = "setFromHex" -> uint8ArrayProto_setFromHex(v, n) [] c.m = "get" -> _getIdx(v, a) [] c.m = "put" -> _putIdx(v, a)
      [] c.m = "define" -> _defineIdxProperty(v, a) [] c.m = "from" -> typedArray_from(c, a, b > 0, b = 2)
      [] c.m = "of" -> typedArray_of(c, a) [] c.m = "newLength" -> allocateTypedArray("u16", a)
      [] c.m = "newFromBuffer" -> _newTypedArrayFromArrayBuffer(view[1].buf, "u16", a, b)
      [] c.m = "newFromTyped" -> _newTypedArrayFromTypedArray(view[1].type) [] c.m = "newFromArray" -> typedArrayFrom("u16", a)
      [] c.m = "newDataView" -> newDataView(view[1].buf, a, b) [] c.m = "newBuffer" -> builtin_newArrayBuffer(a)
      [] c.m = "byteLength" -> arrayBufferProto_getByteLength [] c.m = "bufferSlice" -> arrayBufferProto_slice(c, a, b)
      [] c.m = "transfer" -> arrayBufferCopyAndDetach(a) [] c.m = "dataViewGet" -> dataViewProto_get(c, a, b)
      [] c.m = "dataViewSet" -> dataViewProto_set(c, a, b)

-----------------------------------------------------------------------------
(* Running a call                                                          *)

NoCall == [m |-> "none", this |-> 0, a |-> 0, b |-> 0, ctor |-> NoView]
Idle   == [c |-> NoCall, todo |-> <<>>, end |-> "done", quiet |-> TRUE, before |-> <<>>]

Init ==
    /\ \E p \in Pairs, attached \in {{1, 2}, {1}, {}} :
         /\ block = [b \in Buffers |-> IF b \in attached THEN b ELSE 0]
         /\ view = <<p[1], p[2], NoView>>
    /\ bytes = <<[p \in 1..BufferLen |-> 10 + p], [p \in 1..BufferLen |-> 20 + p], <<>>>>
    /\ call = Idle /\ uses = 0

\* copyWithin that writes past its view, and T.from and T.of that write before the
\* view that a constructor of the program returned: see the README.
Diverges(c, w) ==
    \/ c.m = "copyWithin" /\ relToIdx(c.a, w.length) > relToIdx(c.b, w.length) /\ At(w, w.length) < BufferLen
    \/ c.m \in {"from", "of"} /\ c.ctor.offset # 0 /\ ~(c.m = "from" /\ c.b = 2)

Start(c) ==
    /\ Everything \/ ~Diverges(c, view[c.this])
    /\ call = Idle /\ uses < MaxUses /\ (c.this = 3 => view[3] # NoView) /\ (uses > 0 => c.this = 3)
    /\ call' = [c |-> c, todo |-> Program(c, c.this, view[c.this].length, c.a, c.b), end |-> "done",
                quiet |-> TRUE, before |-> bytes]
    /\ uses' = uses + 1
    /\ UNCHANGED <<block, bytes, view>>

Now == Head(call.todo)
Doing(op) == call.todo # <<>> /\ Now.op = op
Memory(v) == block[view[v].buf]

Skipping(n) == call' = [call EXCEPT !.todo = SubSeq(@, n + 2, Len(@))]
Ends(how)   == call' = [call EXCEPT !.todo = <<>>, !.end = how]

isValidIntegerIndex(v, k) == ensureNotDetached(view[v].buf) /\ k \in 0..view[v].length - 1

Look ==
    /\ \/ Doing("check") /\ IF ensureNotDetached(view[Now.v].buf) THEN Skipping(0) ELSE Ends("throws")
       \/ Doing("leave") /\ IF ensureNotDetached(view[Now.v].buf) THEN Skipping(0) ELSE Ends("returns")
       \/ Doing("throw") /\ Ends("throws")
       \/ Doing("valid") /\ Skipping(IF isValidIntegerIndex(Now.v, Now.i) THEN 0 ELSE Now.n)
       \/ Doing("skip1") /\ Skipping(1)
       \/ Doing("skip") /\ \E n \in {0, Now.n} : Skipping(n)
       \/ Doing("mayEnd") /\ (Skipping(0) \/ Ends("returns"))
       \/ Doing("script") /\ (Skipping(0) \/ Ends("throws"))
       \/ Doing("touch") /\ Skipping(0)
    /\ UNCHANGED <<block, bytes, view, uses>>

\* A script detaches buffer b; one that the call made is out of its reach unless
\* the program's own constructor made it.
detach(b) ==
    /\ Doing("script") /\ block[b] # 0
    /\ b = 3 => call.c.ctor # NoView \/ call.c.this = 3
    /\ Everything \/ \A v \in Now.spare : view[v].buf # b
    /\ block' = [block EXCEPT ![b] = 0]
    /\ call' = [call EXCEPT !.quiet = FALSE]
    /\ UNCHANGED <<bytes, view, uses>>

\* The n elements of view w from j on, one by one.
Elements(w, j, n) == [i \in 0..n - 1 |-> Element(bytes[block[w.buf]], w, j + i)]
Shifted(f, i, t) == [k \in {i + x : x \in DOMAIN f} |-> Converted(f[k - i], t)]

\* Copying upwards reads what it has written.
Crept(T, i, S, j, n) ==
    LET d == At(T, i) - At(S, j)
        F[p \in 0..n * Size(S.type) - 1] ==
            IF T.buf = S.buf /\ d > 0 /\ p >= d THEN F[p - d] ELSE bytes[block[S.buf]][At(S, j) + p + 1]
    IN  [k \in i..i + n - 1 |-> [q \in 1..Size(T.type) |-> F[(k - i) * Size(T.type) + q - 1]]]

Written ==
    LET T == view[Now.v]
        S == view[Now.w]
    IN  CASE Now.op \in {"move", "copy"} -> Shifted(Elements(S, Now.j, Now.n), Now.i, T.type)
          [] Now.op = "creep" -> Crept(T, Now.i, S, Now.j, Now.n)
          [] Now.op = "swap"  -> (Now.i :> Elements(T, Now.j, 1)[0]) @@ (Now.j :> Elements(T, Now.i, 1)[0])
          [] Now.op = "fill"  -> [k \in Now.i..Now.i + Now.n - 1 |-> Converted(<<7>>, T.type)]

Holds(v, i, n) == Memory(v) # 0 /\ At(view[v], i) >= 0 /\ At(view[v], i + n) <= Len(bytes[Memory(v)])

\* What the instruction at hand touches is there.
Writes == {"move", "copy", "creep", "swap", "fill"}
InReach ==
    /\ Now.op \in Writes \union {"touch"} => Holds(Now.v, Now.i, Now.n)
    /\ Now.op \in {"move", "copy", "creep", "swap"} => Holds(Now.w, Now.j, Now.n)

Store ==
    /\ call.todo # <<>> /\ Now.op \in Writes /\ InReach
    /\ bytes' = [bytes EXCEPT ![Memory(Now.v)] = Overlay(@, view[Now.v], Written)]
    /\ Skipping(0) /\ UNCHANGED <<block, view, uses>>

make ==
    /\ Doing("make")
    /\ view' = [view EXCEPT ![3] = Now.made]
    /\ block' = IF Now.n >= 0 THEN [block EXCEPT ![3] = 3] ELSE block
    /\ bytes' = IF Now.n >= 0 THEN [bytes EXCEPT ![3] = Zeros(Now.n)] ELSE bytes
    /\ Skipping(0) /\ UNCHANGED uses

handover ==
    /\ Doing("handover")
    /\ LET b == view[1].buf IN
       /\ block' = [block EXCEPT ![b] = 0, ![3] = block[b]]
       /\ bytes' = [bytes EXCEPT ![block[b]] = [p \in 1..Now.n |-> IF p <= Len(@) THEN @[p] ELSE 0]]
    /\ view' = [view EXCEPT ![3] = View(3, "u8", 0, Now.n)]
    /\ Skipping(0) /\ UNCHANGED uses

Return ==
    /\ call # Idle /\ call.todo = <<>> /\ call' = Idle
    /\ UNCHANGED <<block, bytes, view, uses>>

Next ==
    \/ \E c \in Starts(<<view[1], view[2]>>) : Start(c)
    \/ Look \/ Store \/ make \/ handover \/ Return
    \/ \E b \in Buffers : detach(b)
Spec == Init /\ [][Next]_vars

-----------------------------------------------------------------------------
(* What may be given as Pairs and Starts                                   *)

Types     == {"u8", "i8", "u16", "u32"}
SomeViews == [buf : 0..3, type : Types, offset : Nat, length : Nat]
Fits(w)   == w.buf \in {1, 2} /\ At(w, w.length) <= BufferLen

\* A constructor of the program returns a view within its buffer.
MayMake(w) == w = NoView \/ (w \in SomeViews /\ w.buf \in Buffers /\ (w.buf # 3 => Fits(w)))

\* Methods of any array, and those that are modelled for view[1] only.
OfAny  == {"every", "some", "find", "findIndex", "findLast", "findLastIndex", "forEach", "reduce", "reduceRight", "at",
           "includes", "indexOf", "lastIndexOf", "join", "toLocaleString", "fill", "reverse", "sort", "toBase64",
           "setFromBase64", "toHex", "setFromHex", "get", "put", "define", "dataViewGet", "dataViewSet"}
OfFirst == {"copyWithin", "map", "filter", "with", "toReversed", "toSorted", "subarray", "slice", "set", "setValues",
            "from", "of", "newLength", "newFromBuffer", "newFromTyped", "newFromArray", "newDataView", "newBuffer",
            "byteLength", "bufferSlice", "transfer"}

\* c.a is a number of elements, or was converted by toIndex.
Counts == {"filter", "from", "of", "newLength", "newFromBuffer", "newFromArray", "newDataView", "newBuffer",
           "dataViewGet", "dataViewSet"}

May(c, p) ==
    /\ (c.this = 1 /\ c.m \in OfAny \union OfFirst) \/ (c.this = 3 /\ c.m \in OfAny)
    /\ c.a \in Int /\ c.b \in Int /\ MayMake(c.ctor)
    /\ c.m \in Counts => c.a \in Nat
    /\ c.m \in {"dataViewGet", "dataViewSet"} => c.b \in Nat
    /\ c.m = "bufferSlice" => p[1].length = BufferLen
    /\ c.m = "newFromArray" => c.ctor = NoView

Given ==
    /\ BufferLen \in Nat
    /\ \A p \in Pairs : /\ p \in SomeViews \X SomeViews /\ Fits(p[1]) /\ Fits(p[2])
                        /\ \A c \in Starts(p) : May(c, p)

-----------------------------------------------------------------------------
\* The n elements from i on are elements of view w.
Inside(w, i, n) == 0 <= i /\ i + n <= w.length

\* What the instruction at hand touches are elements of its views.
InView ==
    /\ Now.op \in Writes \union {"touch"} => Inside(view[Now.v], Now.i, Now.n)
    /\ Now.op \in {"move", "copy", "creep", "swap"} => Inside(view[Now.w], Now.j, Now.n)

\* Whatever scripts do while a method runs, every view of a buffer that is
\* attached lies within its bytes, and a method never reads or writes memory
\* that its view's buffer does not hold, or that is outside the view.
AccessesInBounds ==
    /\ \A v \in DOMAIN view : view[v] # NoView /\ Memory(v) # 0 => Holds(v, 0, view[v].length)
    /\ call.todo # <<>> => InReach /\ InView

\* The elements that call c is to leave in the view that it fills, given the
\* memory before it, if no script interferes.
Old(w, i) == Element(call.before[block[w.buf]], w, i)
Filled(T) == Converted(<<7>>, T.type)
Result(c, T, S, n) ==
    CASE c.m = "copyWithin" ->
            LET to == relToIdx(c.a, n)
                from == relToIdx(c.b, n)
            IN  [i \in to..to + Lesser(n - from, n - to) - 1 |-> Old(T, from + i - to)]
      [] c.m = "fill" -> [i \in relToIdx(c.a, n)..relToIdx(c.b, n) - 1 |-> Filled(T)]
      [] c.m = "reverse" -> [i \in 0..n - 1 |-> Old(T, n - 1 - i)]
      [] c.m = "toReversed" -> [i \in 0..n - 1 |-> Old(T, n - 1 - i)]
      [] c.m = "with" -> [i \in 0..n - 1 |-> IF i = (IF c.a < 0 THEN n + c.a ELSE c.a) THEN Filled(T) ELSE Old(T, i)]
      [] c.m = "set" -> [i \in c.a..c.a + S.length - 1 |-> Converted(Old(S, i - c.a), T.type)]
      [] c.m = "newFromTyped" -> [i \in 0..S.length - 1 |-> Converted(Old(S, i), T.type)]
      [] c.m = "bufferSlice" -> [i \in 0..Greater(relToIdx(c.b, n) - relToIdx(c.a, n), 0) - 1 |-> Old(T, relToIdx(c.a, n) + i)]
      [] c.m = "slice" ->
            LET start == relToIdx(c.a, n)
                d     == view[3].offset - T.offset - start
                F[i \in 0..Greater(relToIdx(c.b, n) - start, 0) - 1] ==
                    IF view[3].buf = T.buf /\ d > 0 /\ i >= d THEN F[i - d] ELSE Converted(Old(T, start + i), view[3].type)
            IN  F
      [] OTHER -> <<>>

\* slice into a view of another type over the same memory goes element by element.
ConvertsInPlace == call.c.m = "slice" /\ view[3].type # view[1].type /\ view[3].buf = view[1].buf

InPlace == {"copyWithin", "fill", "reverse", "set"}
Makes   == {"toReversed", "with", "newFromTyped", "bufferSlice", "slice"}

\* A method that moves elements about leaves exactly those that the language
\* prescribes, and all other memory as it was: set and slice between views that
\* overlap, with elements of any sizes, read nothing that they have overwritten,
\* or what the language says they overwrite; transfer keeps the bytes.
Delivers ==
    call # Idle /\ call.todo = <<>> /\ call.end = "done" /\ call.quiet /\ ~ConvertsInPlace =>
        LET c == call.c
            into == IF c.m \in InPlace THEN c.this ELSE IF c.m \in Makes THEN 3 ELSE 0
            Base(b) == IF b = 3 /\ c.m \in Makes THEN Zeros(Len(bytes[3])) ELSE call.before[block[b]]
        IN  /\ into # 0 => bytes[Memory(into)] =
                 Overlay(Base(view[into].buf), view[into], Result(c, view[c.this], view[2], view[c.this].length))
            /\ \A b \in 1..2 : c.m \in InPlace \union Makes /\ Memory(into) # b => bytes[b] = call.before[b]
            /\ c.m = "transfer" => /\ ~ensureNotDetached(view[1].buf)
                                    /\ \A p \in 1..view[3].length :
                                         bytes[block[3]][p] = IF p <= BufferLen THEN call.before[view[1].buf][p] ELSE 0
=============================================================================
