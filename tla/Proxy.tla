-------------------------------- MODULE Proxy --------------------------------
(***************************************************************************)
(* proxyObject of proxy.go.  A trap may answer anything; the proxy then    *)
(* reads its target and throws if the answer cannot be true.  The target   *)
(* may be a proxy too: reading it calls traps, in which the program may    *)
(* change the object at the end, between two reads of one check.           *)
(*                                                                         *)
(* base is the object at the end; op is the operation in progress and what *)
(* it has read so far; facts is what the client of the proxy has been told *)
(* and is entitled to rely on for ever; answer is the last answer.         *)
(***************************************************************************)
EXTENDS Properties

CONSTANTS PropNames,        \* property names
          Vals,        \* values
          Protos,      \* prototypes
          Bases,       \* the object at the end, at first
          Shapes,      \* the properties that a trap may report
          AnyResult,   \* whether the objects that traps return may be read as any of
                       \* them; if not, they are candid
          Defs,        \* the descriptors that clients and programs use
          MaxOps,      \* how many operations a client does
          MaxChanges   \* how many times the program changes the object at the end

\* What the constants are: the properties of ordinary objects, and objects with
\* named properties.
Kept    == [v : Int, get : {NoFunc}, set : {NoFunc}, w : BOOLEAN, e : BOOLEAN, c : BOOLEAN, acc : {FALSE}, plain : {FALSE}]
           \union [v : Int, get : Int, set : Int, w : BOOLEAN, e : BOOLEAN, c : BOOLEAN, acc : {TRUE}, plain : {FALSE}]
IsObject(b) == /\ DOMAIN b.props \subseteq PropNames
               /\ b \in [props : [DOMAIN b.props -> Kept], ext : BOOLEAN, proto : Protos]
ASSUME ProxyAssumption == /\ Shapes \subseteq Kept /\ Defs \subseteq Descs /\ AnyResult \in BOOLEAN
                          /\ \A b \in Bases : IsObject(b)

VARIABLES base, op, facts, answer, handler, ops, changes
proxyVars == <<base, op, facts, answer, handler, ops, changes>>

Own(n) == IF n \in DOMAIN base.props THEN base.props[n] ELSE Absent
AsDescriptor(p) == IF p.acc THEN Descriptor({}, {}, {p.e}, {p.c}, {p.get}, {p.set})
                   ELSE Descriptor({p.v} \ {Nil}, {p.w}, {p.e}, {p.c}, {}, {})

-----------------------------------------------------------------------------
(* What a trap may answer, given what was read of the target               *)

proxyDefineOwnPropertyPostCheck(p, extensible, d) ==
    IF p = Absent THEN extensible /\ d.c # {FALSE}
    ELSE /\ isCompatiblePropertyDescriptor(extensible, d, p)
         /\ ~(d.c = {FALSE} /\ p.c)
         /\ ~(p.v # Nil /\ ~p.c /\ p.w /\ d.w = {FALSE})

proxyHasChecks(p, extensible) == p = Absent \/ (p.c /\ extensible)

\* Mutant of proxyDeleteCheck: that the target is not extensible does not matter.
proxyDeleteCheckConfigurable(p, extensible) == p = Absent \/ p.c
proxyDeleteCheck(p, extensible) == p = Absent \/ (p.c /\ extensible)

proxyGetOwnPropertyDescriptor(p, extensible, result) ==
    LET d == complete(AsDescriptor(result))
    IN  IF result = Absent THEN p = Absent \/ (p.c /\ extensible)
        ELSE /\ isCompatiblePropertyDescriptor(extensible, d, p)
             /\ d.c = {FALSE} => p # Absent /\ ~p.c /\ ~(d.w = {FALSE} /\ p.w)

proxyGetChecks(p, v) ==
    p # Absent /\ ~p.c => IF p.acc THEN p.get # NoFunc \/ v = Undefined ELSE p.w \/ v = p.v

proxySetPostCheck(p, v) ==
    p # Absent /\ ~p.c => IF p.acc THEN p.set # NoFunc ELSE p.w \/ v = p.v

\* held are the target's keys, firm those of them that are not configurable.
proxyOwnKeys(held, firm, extensible, keys) ==
    IF extensible THEN firm \subseteq keys ELSE held = keys

-----------------------------------------------------------------------------
(* Reading the target                                                      *)

\* A candid object is read as the same each time, and gives a function if it is
\* an accessor and a value if it is not.
Candid(q) == IF q.acc THEN q.get # NoFunc \/ q.set # NoFunc ELSE q.v # Nil
Results   == {q \in Shapes : AnyResult \/ Candid(q)} \union {Absent}

\* Only a function makes an accessor of what is read.
toValueProp(q) == IF q.acc /\ q.get = NoFunc /\ q.set = NoFunc
                  THEN Property(Nil, NoFunc, NoFunc, FALSE, q.e, q.c, FALSE, FALSE) ELSE q

\* What is told once the result q has passed the check: nothing, a bare value, or
\* what a second reading of the trap's object makes of it, which nothing checks.
Returned(q) == CASE q = Absent                       -> {Absent}
                 [] q # Absent /\ ~q.acc /\ q.w /\ q.e /\ q.c -> {[q EXCEPT !.v = IF @ = Nil THEN Undefined ELSE @]}
                 [] OTHER -> {toValueProp(again) : again \in IF AnyResult THEN Shapes ELSE {q}}

\* A proxy in between reports what passes its own checks.
targetGetOwnProp(n) ==
    {Own(n)} \union UNION {Returned(q) : q \in {r \in Results : proxyGetOwnPropertyDescriptor(Own(n), base.ext, r)}}
Firm(ps)      == {n \in DOMAIN ps : ~ps[n].c}
ownKeys       == {ks \in SUBSET PropNames : proxyOwnKeys(DOMAIN base.props, Firm(base.props), base.ext, ks)}

-----------------------------------------------------------------------------
(* The client                                                              *)

NoOp       == [m |-> "none", stage |-> "none"]
\* A name is stuck if its property was said not to be configurable, and firm if
\* the whole property is known, too.
NoFacts    == [nonExt |-> FALSE, stuck |-> {}, firm |-> <<>>, absent |-> {}, proto |-> {}]
Answer(m, n, x, r, known) == [m |-> m, n |-> n, x |-> x, r |-> r, known |-> known]

\* Begin: an operation m on the name n with the argument x; the handler has a
\* trap for it, which answers r.
Ops(m) ==
    CASE m = "define"   -> Defs \X BOOLEAN
      [] m = "has"      -> {0} \X BOOLEAN
      [] m = "getOwn"   -> {0} \X (Shapes \union {Absent})
      [] m = "get"      -> {0} \X (Vals \union {Undefined})
      [] m = "set"      -> Vals \X BOOLEAN
      [] m = "delete"   -> {0} \X BOOLEAN
      [] m = "keys"     -> {0} \X SUBSET PropNames
      [] m = "proto"    -> {0} \X Protos
      [] m = "setProto" -> Protos \X BOOLEAN
      [] m \in {"isExtensible", "preventExtensions"} -> {0} \X BOOLEAN
Named  == {"define", "has", "getOwn", "get", "set", "delete"}
Whole  == {"keys", "proto", "setProto", "isExtensible", "preventExtensions"}

\* Facts that an answer adds.
Told(f, a) ==
    LET firm == IF a.m = "getOwn" /\ a.r # Absent /\ ~a.r.c THEN {a.n} ELSE {}
        none == IF (a.m = "getOwn" /\ a.r = Absent) \/ (a.m = "delete" /\ a.r) THEN {a.n}
                ELSE IF a.m = "keys" THEN PropNames \ a.r ELSE {}
    IN  [nonExt |-> f.nonExt \/ (a.m = "isExtensible" /\ ~a.r) \/ (a.m = "preventExtensions" /\ a.r),
         stuck  |-> f.stuck \union firm \union (IF a.m = "define" /\ a.r /\ a.x.c = {FALSE} THEN {a.n} ELSE {}),
         firm   |-> [n \in DOMAIN f.firm \union firm |-> IF n \in firm THEN a.r ELSE f.firm[n]],
         absent |-> IF f.nonExt THEN f.absent \union none ELSE {},
         proto  |-> CASE f.nonExt /\ a.m = "proto" -> {a.r}
                      [] f.nonExt /\ a.m = "setProto" /\ a.r -> {a.x}
                      [] OTHER -> f.proto]

\* The operation ends: with an answer, or with an exception.
Answered(r) ==
    /\ answer' = Answer(op.m, op.n, op.x, r, facts) /\ facts' = Told(facts, answer')
    /\ op' = NoOp /\ UNCHANGED <<handler, ops, changes>>
Throws == op' = NoOp /\ UNCHANGED <<base, facts, answer, handler, ops, changes>>
Checked(ok) == IF ok THEN Answered(op.r) /\ UNCHANGED base ELSE Throws
CheckedResult(ok) == IF ok THEN \E r \in Returned(op.r) : Answered(r) /\ UNCHANGED base ELSE Throws
Reads(o)    == op' = o /\ UNCHANGED <<base, facts, answer, handler, ops, changes>>

Begin ==
    /\ op = NoOp /\ handler /\ ops < MaxOps /\ ops' = ops + 1
    /\ \/ \E m \in Named, n \in PropNames : \E xr \in Ops(m) :
             op' = [m |-> m, n |-> n, x |-> xr[1], r |-> xr[2], stage |-> "trapped", p |-> Absent, ext |-> TRUE]
       \/ \E m \in Whole : \E xr \in Ops(m) :
             op' = [m |-> m, n |-> 0, x |-> xr[1], r |-> xr[2], stage |-> "trapped", p |-> Absent, ext |-> TRUE]
    /\ UNCHANGED <<base, facts, answer, handler, changes>>

\* Falsish answers of define, set, setProto, preventExtensions and delete stand
\* as they are; so does a truish answer of has.
Falsish == /\ op.stage = "trapped"
           /\ \/ op.m \in {"define", "set", "setProto", "preventExtensions", "delete"} /\ ~op.r
              \/ op.m = "has" /\ op.r
           /\ Answered(op.r) /\ UNCHANGED base
Unsettled(m) == op.m = m /\ op.stage = "trapped" /\ (m = "has" => ~op.r)
                /\ (m \in {"define", "set", "setProto", "preventExtensions", "delete"} => op.r)

\* target.getOwnProp: all that get and set need.
ReadProp ==
    \/ \E m \in {"define", "has", "getOwn", "delete"} :
          /\ Unsettled(m) /\ (m = "getOwn" => op.r \in Results)
          /\ \E p \in targetGetOwnProp(op.n) : Reads([op EXCEPT !.p = p, !.stage = "prop"])
    \/ Unsettled("get") /\ \E p \in targetGetOwnProp(op.n) : Checked(proxyGetChecks(p, op.r))
    \/ Unsettled("set") /\ \E p \in targetGetOwnProp(op.n) : Checked(proxySetPostCheck(p, op.x))

\* target.isExtensible, which no trap can misreport.
ReadExtensible ==
    \/ /\ op.stage = "prop" /\ op.m # "getOwn"
       /\ Checked(CASE op.m = "define" -> proxyDefineOwnPropertyPostCheck(op.p, base.ext, op.x)
                    [] op.m = "has"    -> proxyHasChecks(op.p, base.ext)
                    [] op.m = "delete" -> proxyDeleteCheck(op.p, base.ext))
    \/ op.stage = "prop" /\ op.m = "getOwn" /\ CheckedResult(proxyGetOwnPropertyDescriptor(op.p, base.ext, op.r))
    \/ Unsettled("isExtensible") /\ Checked(op.r = base.ext)
    \/ Unsettled("preventExtensions") /\ Checked(~base.ext)
    \/ \E m \in {"proto", "setProto"} :
          Unsettled(m) /\ IF base.ext THEN Checked(TRUE) ELSE Reads([op EXCEPT !.stage = "closed"])
    \/ Unsettled("keys") /\ Reads([op EXCEPT !.ext = base.ext, !.stage = "ext"])

\* target.proto, of a target that is not extensible.
ReadProto == op.stage = "closed" /\ Checked(base.proto = IF op.m = "proto" THEN op.r ELSE op.x)

\* target.iterateKeys, and the property of each key that the trap left out.
ReadKeys ==
    op.stage = "ext" /\ \E held \in ownKeys :
        Reads([op EXCEPT !.stage = "keys", !.p = held, !.x = held \ op.r])
ReadMissing ==
    /\ op.stage = "keys" /\ op.x = {}
    /\ Checked(op.ext \/ op.r \subseteq op.p)
ReadNextMissing ==
    /\ op.stage = "keys" /\ op.x # {}
    /\ LET n == CHOOSE k \in op.x : \A j \in op.x : k <= j
       IN  IF ~op.ext THEN Throws
           ELSE \E p \in targetGetOwnProp(n) : IF p = Absent \/ p.c THEN Reads([op EXCEPT !.x = @ \ {n}]) ELSE Throws

-----------------------------------------------------------------------------
\* Without a trap the operation is the target's.
Defined(n, d) == [base EXCEPT !.props = [k \in DOMAIN @ \union {n} |-> IF k = n THEN Applied(Own(k), d) ELSE @[k]]]
Deleted(n)    == [base EXCEPT !.props = [k \in DOMAIN @ \ {n} |-> @[k]]]
Directly(r, b) == op.r = r /\ Answered(r) /\ base' = IF r THEN b ELSE base
Asked(r)       == op.r = r /\ Answered(r) /\ UNCHANGED base
Untrapped ==
    /\ op.stage = "trapped"
    /\ \/ op.m = "getOwn" /\ Asked(Own(op.n))
       \/ op.m = "has" /\ Asked(Own(op.n) # Absent)
       \/ op.m = "get" /\ Asked(Got(Own(op.n)))
       \/ op.m = "keys" /\ Asked(DOMAIN base.props)
       \/ op.m = "proto" /\ Asked(base.proto)
       \/ op.m = "isExtensible" /\ Asked(base.ext)
       \/ op.m = "define" /\ Directly(isCompatiblePropertyDescriptor(base.ext, op.x, Own(op.n)), Defined(op.n, op.x))
       \/ op.m = "delete" /\ Directly(Own(op.n) = Absent \/ Own(op.n).c, Deleted(op.n))
       \/ op.m = "setProto" /\ Directly(base.ext \/ base.proto = op.x, [base EXCEPT !.proto = op.x])
       \/ op.m = "preventExtensions" /\ Directly(TRUE, [base EXCEPT !.ext = FALSE])

\* The program, in a trap or between two operations, changes the object at the end.
Changes ==
    /\ changes < MaxChanges /\ changes' = changes + 1
    /\ \/ \E n \in PropNames, d \in Defs :
            /\ isCompatiblePropertyDescriptor(base.ext, d, Own(n))
            /\ base' = Defined(n, d)
       \/ \E n \in DOMAIN base.props : base.props[n].c /\ base' = Deleted(n)
       \/ base.ext /\ base' = [base EXCEPT !.ext = FALSE]
       \/ base.ext /\ \E q \in Protos \ {base.proto} : base' = [base EXCEPT !.proto = q]
    /\ UNCHANGED <<op, facts, answer, handler, ops>>

\* revoke: an operation in progress has its target already.
Revoke == handler /\ handler' = FALSE /\ UNCHANGED <<base, op, facts, answer, ops, changes>>

\* Of an object that is not extensible, the client has been told so.
ProxyInit ==
    /\ base \in Bases
    /\ op = NoOp /\ facts = [NoFacts EXCEPT !.nonExt = ~base.ext] /\ answer = Answer("none", 0, 0, TRUE, facts)
    /\ handler = TRUE /\ ops = 0 /\ changes = 0

ProxyNext ==
    \/ Begin \/ Falsish \/ ReadProp \/ ReadExtensible \/ ReadProto \/ ReadKeys \/ ReadMissing \/ ReadNextMissing
    \/ Untrapped \/ Changes \/ Revoke

ProxySpec == ProxyInit /\ [][ProxyNext]_proxyVars

-----------------------------------------------------------------------------
\* q may be reported after the property p, which is not configurable.
Later(p, q) == /\ ~q.c /\ q.e = p.e /\ q.acc = p.acc
               /\ IF p.acc THEN q.get = p.get /\ q.set = p.set ELSE p.w \/ (~q.w /\ q.v = p.v)

Agrees(f, a) ==
    LET p == f.firm[a.n]
    IN  CASE a.m = "getOwn" -> /\ a.n \in f.absent => a.r = Absent
                               /\ a.n \in f.stuck => a.r # Absent /\ ~a.r.c
                               /\ a.n \in DOMAIN f.firm => Later(p, a.r)
          [] a.m = "has"    -> a.n \in f.stuck => a.r
          [] a.m = "delete" -> a.n \in f.stuck => ~a.r
          [] a.m = "keys"   -> f.stuck \subseteq a.r /\ f.absent \intersect a.r = {}
          [] a.m = "get"    -> a.n \in DOMAIN f.firm =>
                                 IF p.acc THEN p.get # NoFunc \/ a.r = Undefined ELSE p.w \/ a.r = p.v
          [] a.m = "set"    -> a.r /\ a.n \in DOMAIN f.firm => IF p.acc THEN p.set # NoFunc ELSE p.w \/ a.x = p.v
          [] a.m = "define" -> a.r => /\ a.n \notin f.absent /\ (a.n \in f.stuck => a.x.c # {TRUE})
                                      /\ a.n \in DOMAIN f.firm => isCompatiblePropertyDescriptor(TRUE, a.x, p)
          [] a.m = "isExtensible" -> f.nonExt => ~a.r
          [] a.m = "proto"  -> f.proto # {} => a.r \in f.proto
          [] a.m = "setProto" -> a.r /\ f.proto # {} => a.x \in f.proto
          [] OTHER -> TRUE

\* Whatever the traps answer, as long as the objects that they return are candid,
\* and whatever the program does to the object meanwhile, no answer that a client
\* gets contradicts what it was told before:
\* a property that is not configurable stays as reported, an object that is not
\* extensible gets no property and keeps its prototype.  (Were it not so, the
\* checks of proxy.go would let a handler lie.)
NeverContradicted == Agrees(answer.known, answer)
=============================================================================
