------------------------------ MODULE MCObjects ------------------------------
(***************************************************************************)
(* Programs that use a few objects with property tables, and programs that *)
(* use a proxy: two systems that do not meet, each checked from its own    *)
(* initial states.                                                         *)
(***************************************************************************)
EXTENDS PropertyTable, Proxy

Data(v, w, c) == Property(v, NoFunc, NoFunc, w, TRUE, c, FALSE, FALSE)
Accessor(get) == Property(Nil, get, NoFunc, FALSE, TRUE, FALSE, TRUE, FALSE)
MCShapes == {Data(1, FALSE, FALSE), Data(2, FALSE, FALSE), Data(1, TRUE, FALSE), Data(1, TRUE, TRUE), Data(Nil, FALSE, FALSE),
             Accessor(1), Accessor(NoFunc)}
MCDefs   == {FullValue(1), Descriptor({1}, {FALSE}, {TRUE}, {FALSE}, {}, {}), Descriptor({}, {FALSE}, {}, {}, {}, {}),
             Descriptor({}, {}, {}, {FALSE}, {}, {}), Descriptor({}, {}, {TRUE}, {FALSE}, {NoFunc}, {NoFunc}),
             Descriptor({}, {}, {}, {}, {1}, {})}
MCBases  == {[props |-> <<Data(1, TRUE, TRUE)>>, ext |-> TRUE, proto |-> 0],
             [props |-> <<Data(1, TRUE, TRUE)>>, ext |-> FALSE, proto |-> 0],
             [props |-> <<>>, ext |-> FALSE, proto |-> 0]}

Obj(proto, names) == [proto |-> proto, names |-> names]
MCTables ==
    { <<Obj(2, <<11, 2>>), Obj(3, <<1, 12>>), Obj(Null, <<>>)>>,
      <<Obj(2, <<12, 11, 21>>), Obj(Null, <<>>), Obj(1, <<11>>)>> }

SetCall(o, n, r)    == [m |-> "set", o |-> o, n |-> n, v |-> 3, r |-> r]
DefineCall(o, n, d) == [m |-> "define", o |-> o, n |-> n, d |-> d]
MCCalls ==
    {SetCall(1, n, 1) : n \in {1, 12, 21}} \union {SetCall(2, 11, 2), SetCall(1, 1, 2), SetCall(1, 21, 3)}
    \union {[m |-> "delete", o |-> 1, n |-> n] : n \in {2, 11}} \union {[m |-> "delete", o |-> 2, n |-> n] : n \in {1, 12}}
    \union {DefineCall(1, 11, Descriptor({}, {FALSE}, {FALSE}, {FALSE}, {}, {})),
            DefineCall(2, 1, Descriptor({}, {}, {}, {}, {}, {5})),
            DefineCall(2, 12, Descriptor({}, {}, {TRUE}, {}, {4}, {})), DefineCall(2, 1, Descriptor({}, {FALSE}, {}, {}, {}, {}))}
    \union {[m |-> m, o |-> 1] : m \in {"preventExtensions", "seal", "freeze", "keys"}}
    \union {[m |-> "assign", o |-> 1, r |-> 2], [m |-> "assign", o |-> 2, r |-> 1]}
    \union {[m |-> "setProto", o |-> 1, p |-> Null], [m |-> "setProto", o |-> 2, p |-> 1]}
    \union {[m |-> "get", o |-> 1, n |-> 1], [m |-> "forIn", o |-> 1, i |-> 1], [m |-> "forIn", o |-> 2, i |-> 2]}
    \union {[m |-> "next", i |-> i] : i \in {1, 2}}

NoProxy   == /\ base = [props |-> <<>>, ext |-> TRUE, proto |-> 0] /\ op = NoOp /\ facts = NoFacts
             /\ answer = Answer("none", 0, 0, TRUE, facts) /\ handler = FALSE /\ ops = 0 /\ changes = MaxChanges
NoTables  == /\ heap = Built([o \in Objects |-> Obj(Null, <<>>)])
             /\ said = Said([m |-> "none"], TRUE, NoFunc, <<>>) /\ calls = MaxCalls

MCInit == (Init /\ NoProxy) \/ (NoTables /\ ProxyInit)
MCNext == (Next /\ UNCHANGED proxyVars) \/ (ProxyNext /\ UNCHANGED vars)
MCSpec == MCInit /\ [][MCNext]_<<vars, proxyVars>>
=============================================================================
