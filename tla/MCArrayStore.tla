---------------------------- MODULE MCArrayStore ----------------------------
EXTENDS ArrayStore

Idx  == 0..4
Descriptors == {[v |-> 1, w |-> FALSE, c |-> FALSE], [v |-> Hole, w |-> TRUE, c |-> FALSE],
                [v |-> 2, w |-> FALSE, c |-> TRUE], [v |-> 2, w |-> TRUE, c |-> TRUE]}

MCLiterals == {<<>>, <<1, 2, 1>>}

C(m) == [m |-> m]
MCCalls ==
    {[m |-> "set", i |-> i, v |-> v] : i \in Idx, v \in {1}}
    \union {[m |-> "delete", i |-> i] : i \in Idx}
    \union {[m |-> "length", i |-> i] : i \in {0, 1, 2, 4}}
    \union {[m |-> "define", i |-> i, d |-> d] : i \in {0, 1, 4}, d \in Descriptors}
    \union {[m |-> "push", vs |-> vs] : vs \in {<<2>>, <<1, 2>>}}
    \union {C(m) : m \in {"pop", "shift", "reverse", "sort", "flat", "toReversed", "toSorted", "from", "preventExtensions",
                          "lockLength"}}
    \union {[m |-> "unshift", vs |-> vs] : vs \in {<<>>, <<2>>}}
    \union {[m |-> m, i |-> i, d |-> d, vs |-> vs] :
                m \in {"splice", "toSpliced"}, i \in {0, 1}, d \in {0, 1, 5}, vs \in {<<>>, <<2>>}}
    \union {[m |-> "fill", i |-> 1, d |-> -1, v |-> 2], [m |-> "copyWithin", i |-> 1, d |-> 0],
            [m |-> "copyWithin", i |-> 0, d |-> 1], [m |-> "concat", vs |-> <<2>>],
            [m |-> "slice", i |-> 1, d |-> 5], [m |-> "with", i |-> 0, v |-> 2]}

MCQuestions == {[m |-> "at", i |-> -1], [m |-> "indexOf", i |-> 0, v |-> Undefined], [m |-> "lastIndexOf", i |-> -1, v |-> 2],
                [m |-> "includes", i |-> 0, v |-> Undefined], C("join"), C("export"), C("keys")}
=============================================================================
