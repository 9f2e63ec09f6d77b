--------------------------- MODULE MCTypedArrays ---------------------------
\* Views of a buffer of BufferLen bytes.
EXTENDS TypedArrays

Whole == View(1, "u8", 0, BufferLen)
Within(type, size) ==
    {w \in {View(1, type, o, l) : o \in 0..BufferLen \div size, l \in 1..BufferLen \div size} :
        (w.offset + w.length) * size <= BufferLen}
Sizes == Within("u8", 1) \union Within("u16", 2) \union Within("u32", 4)

\* One array to call every method on, with a source that lies elsewhere, and all
\* pairs of overlapping arrays for set().
Simple == {View(1, "u8", 5, 3), View(1, "u8", 1, 3), View(1, "u16", 1, 2), View(1, "u16", 0, 0), Whole}
Overlap == {p \in Sizes \X Sizes : p[1].type # p[2].type}
           \union {p \in Within("u8", 1) \X Within("i8", 1) : p[2].length <= 3}
MCPairs == {<<v, View(2, "u8", 1, 2)>> : v \in Simple} \union {p \in Overlap : p[2].length <= p[1].length}

\* What constructors of the program return: arrays with memory of their own, of
\* another type, over the same buffer, too short.
Ctors == {NoView, View(3, "u8", 0, 3), View(3, "u16", 1, 2), View(1, "u8", 2, 3), View(1, "u16", 1, 2), View(2, "u8", 1, 1)}

Use(m, a, b, ctor) == [m |-> m, this |-> 1, a |-> a, b |-> b, ctor |-> ctor]
Plain(ms, as, bs)  == {Use(m, a, b, NoView) : m \in ms, a \in as, b \in bs}
Later == {[u EXCEPT !.this = 3] : u \in Plain({"fill"}, {0}, {9}) \union Plain({"at"}, {-1}, {0})
                                         \union Plain({"dataViewSet"}, {1}, {2}) \union Plain({"reverse"}, {0}, {0})}
OfBuffer ==
    {Use("bufferSlice", 2, 5, k) : k \in {w \in Ctors : w.type = "u8"}}
    \union Plain({"transfer"}, {-1, 2, BufferLen + 1}, {0})
    \union Plain({"newDataView"}, {1, BufferLen + 1}, {-1, 3, BufferLen})
    \union Plain({"newFromBuffer"}, {1, 2, BufferLen + 2}, {-1, 1, 4})
    \union Plain({"newBuffer"}, {2}, {0}) \union Plain({"byteLength"}, {0}, {0})
    \union Plain({"dataViewGet"}, {0, BufferLen - 1}, {2})
OfArray ==
    Plain({"every", "some", "find", "findIndex", "findLast", "findLastIndex", "forEach", "join", "toLocaleString",
           "reverse", "sort", "toReversed", "toSorted"}, {0}, {0})
    \union Plain({"reduce", "reduceRight"}, {0, 1}, {0})
    \union Plain({"at", "includes", "indexOf", "lastIndexOf", "with", "get", "put", "define"}, {-1, 1, 3}, {0})
    \union Plain({"copyWithin", "fill"}, {0, 1}, {0, 1, 9})
    \union {Use(m, a, 9, k) : m \in {"map", "filter", "slice", "subarray"}, a \in {0, 1}, k \in Ctors}
    \union Plain({"set"}, {-1, 0, 1, 2}, {0}) \union Plain({"setValues"}, {0, 1, 2}, {2})
    \union {Use(m, 2, b, k) : m \in {"from", "of"}, b \in {0, 1, 2},
                              k \in {NoView, View(3, "u8", 0, 3), View(1, "u16", 0, 2), View(1, "u8", 2, 3)}}
    \union Plain({"newLength", "newFromTyped", "newFromArray"}, {2}, {0})
OfBytes == Plain({"toBase64", "setFromBase64", "toHex", "setFromHex"}, {0}, {0})

MCStarts(p) ==
    IF p[2].buf = 1 THEN Plain({"set"}, 0..p[1].length - p[2].length, {0})
    ELSE Later \union (IF p[1] = Whole THEN OfBuffer ELSE OfArray \union (IF p[1].type = "u8" THEN OfBytes ELSE {}))

\* The views and calls are such as the proofs ask for.
ASSUME TypedArraysGiven == Given
=============================================================================
