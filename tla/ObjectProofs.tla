----------------------------- MODULE ObjectProofs -----------------------------
(***************************************************************************)
(* Proofs about the properties of objects, of those that keep them in a    *)
(* table and of proxies.                                                   *)
(*                                                                         *)
(* Proxies: whatever traps answer and a program does to the object at the  *)
(* end, no client is told two things that contradict each other.  The      *)
(* argument: every fact that a client relies on is true of the object at   *)
(* the end (Holds), objects change only in ways that keep such facts true  *)
(* (Evolves), and a property that was read earlier in a check still agrees *)
(* with the facts and with the object (Reported) when the check is done.   *)
(*                                                                         *)
(* Tables: whatever calls come, the names of an object are those of its    *)
(* values and the first of them are in order.  The argument: an array of   *)
(* names belongs to one object, and one that an iterator reads as well is  *)
(* marked, so that nobody writes to it in place (Memory); what an          *)
(* operation does to the names of one object therefore leaves those of all *)
(* others (Only, StaysGood), and an operation, whatever it calls, leaves a *)
(* heap that is good (Good).                                               *)
(***************************************************************************)
EXTENDS PropertyTable, Proxy, FiniteSetTheorems, SequenceTheorems, WellFoundedInduction, TLAPS

-----------------------------------------------------------------------------
(* Proxies: facts and objects                                              *)

IsFacts(f) == /\ DOMAIN f.firm \subseteq PropNames
              /\ f \in [nonExt : BOOLEAN, stuck : SUBSET PropNames, firm : [DOMAIN f.firm -> Kept],
                        absent : SUBSET PropNames, proto : SUBSET Protos]

\* The property of b with the name n.
OwnOf(b, n) == IF n \in DOMAIN b.props THEN b.props[n] ELSE Absent

\* What a client relies on is true of the object b.
Holds(f, b) ==
    /\ f.nonExt => ~b.ext
    /\ \A n \in f.stuck : n \in DOMAIN b.props /\ ~b.props[n].c
    /\ \A n \in DOMAIN f.firm : n \in f.stuck /\ Later(f.firm[n], b.props[n])
    /\ \A n \in f.absent : f.nonExt /\ n \notin DOMAIN b.props
    /\ f.proto # {} => f.nonExt
    /\ f.proto \subseteq {b.proto}

\* An object b may become c: the essential internal methods' invariants.
Evolves(b, c) ==
    /\ IsObject(c)
    /\ ~b.ext => ~c.ext /\ c.proto = b.proto /\ DOMAIN c.props \subseteq DOMAIN b.props
    /\ \A n \in DOMAIN b.props : ~b.props[n].c => n \in DOMAIN c.props /\ Later(b.props[n], c.props[n])

\* p was read for the name n, and may be reported to a client that knows f.
Reported(f, b, n, p) ==
    /\ p \in AnyProp
    /\ n \in f.stuck => p # Absent /\ ~p.c
    /\ n \in f.absent => p = Absent
    /\ n \in DOMAIN f.firm => Later(f.firm[n], p)
    /\ p = Absent /\ f.nonExt => n \notin DOMAIN b.props
    /\ p # Absent => p \in Kept
    /\ p # Absent /\ ~p.c => n \in DOMAIN b.props /\ Later(p, b.props[n])

\* The keys read for "keys", and those whose properties are still to be read.
KeysRead ==
    /\ facts.stuck \subseteq op.p /\ facts.absent \intersect op.p = {}
    /\ facts.nonExt => ~op.ext /\ DOMAIN base.props \subseteq op.p
    /\ op.ext => facts.stuck \subseteq op.r \union op.x
    /\ ~op.ext => op.p \subseteq op.r \union op.x

OpInputs ==
    /\ op = [m |-> op.m, n |-> op.n, x |-> op.x, r |-> op.r, stage |-> op.stage, p |-> op.p, ext |-> op.ext]
    /\ op.m \in Named \union Whole /\ op.ext \in BOOLEAN
    /\ op.m \in Named => op.n \in PropNames
    /\ op.m \in {"define", "has", "set", "delete", "setProto", "isExtensible", "preventExtensions"} => op.r \in BOOLEAN
    /\ op.m = "define" => op.x \in Descs
    /\ op.m = "getOwn" => op.r \in Kept \union {Absent}
    /\ op.m = "keys" => op.r \subseteq PropNames
    /\ op.m = "proto" => op.r \in Protos
    /\ op.m = "setProto" => op.x \in Protos

OpOK ==
    /\ OpInputs
    /\ op.stage \in {"trapped", "prop", "closed", "ext", "keys"}
    /\ op.stage = "prop" => /\ op.m \in {"define", "has", "getOwn", "delete"} /\ Reported(facts, base, op.n, op.p)
                            /\ op.m = "getOwn" => op.r \in Results
    /\ op.stage = "closed" => op.m \in {"proto", "setProto"} /\ ~base.ext
    /\ op.stage = "ext" => op.m = "keys" /\ (facts.nonExt => ~op.ext)
    /\ op.stage = "keys" => op.m = "keys" /\ KeysRead

IndInv ==
    /\ IsObject(base) /\ IsFacts(facts) /\ Holds(facts, base)
    /\ op = NoOp \/ OpOK
    /\ NeverContradicted

-----------------------------------------------------------------------------
(* Properties and reports of them                                          *)

\* What stands for a missing property is no property.
LEMMA AbsentIsNotKept == Absent \in AnyProp /\ Absent \notin Kept /\ Kept \subseteq AnyProp
<1>1. Nil \in Int /\ NoFunc \in Int
  BY DEF Nil, NoFunc
<1>2. Absent \in AnyProp
  BY <1>1 DEF Absent, AnyProp, Property
<1>3. Absent.plain /\ \A p \in Kept : ~p.plain
  BY DEF Absent, Property, Kept
<1>4. \A p \in Kept : p \in AnyProp
  BY <1>1 DEF Kept, AnyProp
<1> QED BY <1>2, <1>3, <1>4

\* What may be reported after what was reported before may be reported at all.
LEMMA LaterTransitive ==
    ASSUME NEW p \in AnyProp, NEW q \in AnyProp, NEW r \in AnyProp, Later(p, q), Later(q, r)
    PROVE  Later(p, r)
  BY DEF Later, AnyProp

\* What proxyGetOwnPropertyDescriptor lets a trap say of a property q: that it
\* is not there, if it could be deleted; else what agrees with it, if it is not
\* configurable; and that it is not configurable only if it is not.
LEMMA CheckedReport ==
    ASSUME NEW q \in AnyProp, q # Absent => q \in Kept, NEW ext \in BOOLEAN,
           NEW r \in AnyProp, r # Absent => r \in Kept /\ Candid(r),
           proxyGetOwnPropertyDescriptor(q, ext, r)
    PROVE  /\ r = Absent => q = Absent \/ (q.c /\ ext)
           /\ r # Absent /\ q = Absent => ext
           /\ r # Absent /\ q # Absent /\ ~q.c => Later(q, r)
           /\ r # Absent /\ ~r.c => q # Absent /\ ~q.c /\ Later(r, q)
<1>1. CASE r = Absent
  BY <1>1 DEF proxyGetOwnPropertyDescriptor
<1>2. CASE r # Absent
  <2> DEFINE d == complete(AsDescriptor(r))
  <2>1. /\ isCompatiblePropertyDescriptor(ext, d, q)
        /\ d.c = {FALSE} => q # Absent /\ ~q.c /\ ~(d.w = {FALSE} /\ q.w)
    BY <1>2 DEF proxyGetOwnPropertyDescriptor
  <2>2. r.acc \in BOOLEAN /\ r.w \in BOOLEAN /\ r.e \in BOOLEAN /\ r.c \in BOOLEAN
    BY DEF AnyProp
  <2>3. \A y : Given({y}, FALSE) = y /\ Given({y}, NoFunc) = y /\ Given({y}, Undefined) = y
    BY DEF Given
  <2>4. d.e = {r.e} /\ d.c = {r.c}
    <3>1. AsDescriptor(r).e = {r.e} /\ AsDescriptor(r).c = {r.c}
      BY DEF AsDescriptor, Descriptor
    <3> QED BY <3>1, <2>3 DEF complete
  <2>5. CASE r.acc
    <3>1. AsDescriptor(r).v = {} /\ AsDescriptor(r).w = {} /\ AsDescriptor(r).get = {r.get} /\ AsDescriptor(r).set = {r.set}
      BY <2>5 DEF AsDescriptor, Descriptor
    <3>2. IsAccessor(AsDescriptor(r))
      BY <3>1 DEF IsAccessor
    <3>3. d.v = {} /\ d.w = {} /\ d.get = {r.get} /\ d.set = {r.set}
      BY <3>1, <3>2, <2>3 DEF complete
    <3>4. IsAccessor(d) /\ ~IsGeneric(d)
      BY <3>3 DEF IsAccessor, IsGeneric
    <3> HIDE DEF d
    <3> QED
      BY <1>2, <2>1, <2>2, <2>4, <2>5, <3>3, <3>4 DEF isCompatiblePropertyDescriptor, Differs, Later, AnyProp
  <2>6. CASE ~r.acc
    <3>0. {r.v} \ {Nil} = {r.v}
      BY <1>2, <2>6 DEF Candid
    <3>1. AsDescriptor(r).v = {r.v} /\ AsDescriptor(r).w = {r.w} /\ AsDescriptor(r).get = {} /\ AsDescriptor(r).set = {}
      BY <2>6, <3>0 DEF AsDescriptor, Descriptor
    <3>2. ~IsAccessor(AsDescriptor(r))
      BY <3>1 DEF IsAccessor
    <3>3. d.v = {r.v} /\ d.w = {r.w} /\ d.get = {} /\ d.set = {}
      BY <3>1, <3>2, <2>3 DEF complete
    <3>4. ~IsAccessor(d) /\ ~IsGeneric(d)
      BY <3>3 DEF IsAccessor, IsGeneric, IsData
    <3> HIDE DEF d
    <3> QED
      BY <1>2, <2>1, <2>2, <2>4, <2>6, <3>3, <3>4 DEF isCompatiblePropertyDescriptor, Differs, Later, AnyProp
  <2> QED BY <2>5, <2>6
<1> QED BY <1>1, <1>2

\* What passes the check against something that may be reported may be
\* reported itself.
LEMMA ReportsChain ==
    ASSUME NEW f, NEW b, IsFacts(f), IsObject(b), Holds(f, b), NEW n, NEW p, Reported(f, b, n, p),
           NEW r \in AnyProp, r # Absent => r \in Kept /\ Candid(r), proxyGetOwnPropertyDescriptor(p, b.ext, r)
    PROVE  Reported(f, b, n, r)
<1>1. p \in AnyProp /\ (p # Absent => p \in Kept) /\ b.ext \in BOOLEAN
  BY DEF Reported, IsObject
<1>2. /\ r = Absent => p = Absent \/ (p.c /\ b.ext)
      /\ r # Absent /\ p = Absent => b.ext
      /\ r # Absent /\ p # Absent /\ ~p.c => Later(p, r)
      /\ r # Absent /\ ~r.c => p # Absent /\ ~p.c /\ Later(r, p)
  BY <1>1, CheckedReport
<1>3. f.nonExt => ~b.ext
  BY DEF Holds
<1>4. n \in f.stuck => r # Absent /\ ~r.c
  BY <1>2 DEF Reported, Later
<1>5. n \in f.absent => r = Absent
  BY <1>2, <1>3 DEF Reported, Holds
<1>6. n \in DOMAIN f.firm => Later(f.firm[n], r)
  <2> SUFFICES ASSUME n \in DOMAIN f.firm PROVE Later(f.firm[n], r)
    OBVIOUS
  <2>1. n \in f.stuck /\ f.firm[n] \in AnyProp
    BY AbsentIsNotKept DEF Holds, IsFacts
  <2>2. Later(f.firm[n], p) /\ p # Absent /\ ~p.c
    BY <2>1 DEF Reported
  <2>3. Later(p, r)
    BY <2>1, <2>2, <1>2, <1>4
  <2> QED BY <2>1, <2>2, <2>3, <1>1, LaterTransitive
<1>7. r = Absent /\ f.nonExt => n \notin DOMAIN b.props
  BY <1>2, <1>3 DEF Reported
<1>8. r # Absent /\ ~r.c => n \in DOMAIN b.props /\ Later(r, b.props[n])
  <2> SUFFICES ASSUME r # Absent, ~r.c PROVE n \in DOMAIN b.props /\ Later(r, b.props[n])
    OBVIOUS
  <2>1. p # Absent /\ ~p.c /\ Later(r, p)
    BY <1>2
  <2>2. n \in DOMAIN b.props /\ Later(p, b.props[n])
    BY <2>1 DEF Reported
  <2>3. b.props[n] \in AnyProp
    BY <2>2, AbsentIsNotKept DEF IsObject
  <2> QED BY <2>1, <2>2, <2>3, <1>1, LaterTransitive
<1> QED BY <1>4, <1>5, <1>6, <1>7, <1>8 DEF Reported

\* The object's own property may be reported.
LEMMA OwnReported ==
    ASSUME NEW f, NEW b, IsFacts(f), IsObject(b), Holds(f, b), NEW n
    PROVE  Reported(f, b, n, OwnOf(b, n))
<1>1. CASE n \in DOMAIN b.props
  <2>1. OwnOf(b, n) = b.props[n] /\ b.props[n] \in Kept /\ b.props[n] \in AnyProp /\ b.props[n] # Absent
    BY <1>1, AbsentIsNotKept DEF OwnOf, IsObject
  <2>2. ~b.props[n].c => Later(b.props[n], b.props[n])
    BY <2>1 DEF Later, AnyProp
  <2> QED BY <1>1, <2>1, <2>2 DEF Reported, Holds
<1>2. CASE n \notin DOMAIN b.props
  <2>1. OwnOf(b, n) = Absent
    BY <1>2 DEF OwnOf
  <2> QED BY <1>2, <2>1, AbsentIsNotKept DEF Reported, Holds
<1> QED BY <1>1, <1>2

\* What candid objects give: properties, which are told as they were checked.
LEMMA ResultsAre ==
    ASSUME ~AnyResult, NEW r \in Results
    PROVE  r \in AnyProp /\ (r # Absent => r \in Kept /\ Candid(r)) /\ Returned(r) = {r}
<1>1. r = Absent \/ (r \in Kept /\ Candid(r))
  BY ProxyAssumption DEF Results
<1>2. CASE r = Absent
  BY <1>2, AbsentIsNotKept DEF Returned
<1>3. CASE r # Absent
  <2>1. r \in Kept /\ Candid(r) /\ r \in AnyProp
    BY <1>1, <1>3, AbsentIsNotKept
  <2>2. ~r.acc => r.v # Nil /\ [r EXCEPT !.v = IF @ = Nil THEN Undefined ELSE @] = r
    BY <2>1 DEF Candid, AnyProp
  <2>3. toValueProp(r) = r
    BY <2>1 DEF toValueProp, Candid
  <2>4. {toValueProp(again) : again \in IF AnyResult THEN Shapes ELSE {r}} = {r}
    BY <2>3
  <2>5. Returned(r) = {r}
    <3>1. CASE ~r.acc /\ r.w /\ r.e /\ r.c
      BY <1>3, <2>2, <3>1 DEF Returned
    <3>2. CASE ~(~r.acc /\ r.w /\ r.e /\ r.c)
      BY <1>3, <2>4, <3>2 DEF Returned
    <3> QED BY <3>1, <3>2
  <2> QED BY <2>1, <2>5
<1> QED BY <1>2, <1>3

\* Whatever is read of the target may be reported.
LEMMA ReadReported ==
    ASSUME ~AnyResult, IsFacts(facts), IsObject(base), Holds(facts, base), NEW n, NEW p \in targetGetOwnProp(n)
    PROVE  Reported(facts, base, n, p)
<1>1. Own(n) = OwnOf(base, n) /\ Reported(facts, base, n, Own(n))
  BY OwnReported DEF Own, OwnOf
<1>2. CASE p = Own(n)
  BY <1>1, <1>2
<1>3. ASSUME NEW q \in Results, proxyGetOwnPropertyDescriptor(Own(n), base.ext, q), p \in Returned(q)
      PROVE  Reported(facts, base, n, p)
  <2>1. p = q /\ p \in AnyProp /\ (p # Absent => p \in Kept /\ Candid(p))
    BY <1>3, ResultsAre
  <2> QED BY <1>1, <1>3, <2>1, ReportsChain
<1> QED BY <1>2, <1>3 DEF targetGetOwnProp

-----------------------------------------------------------------------------
(* How an object changes                                                   *)

\* A field that a descriptor gives or leaves as it was.
LEMMA GivenTypes ==
    /\ \A s \in SUBSET Int, y \in Int : Given(s, y) \in Int
    /\ \A s \in Flags, y \in BOOLEAN : Given(s, y) \in BOOLEAN
    /\ \A y : Given({}, y) = y
    /\ \A x, y : Given({x}, y) = x
<1>1. \A s : s # {} => (CHOOSE x \in s : TRUE) \in s
  OBVIOUS
<1>2. \A s \in SUBSET Int, y \in Int : Given(s, y) \in Int
  BY <1>1 DEF Given
<1>3. \A s \in Flags, y \in BOOLEAN : Given(s, y) \in BOOLEAN
  BY <1>1 DEF Given, Flags
<1>4. \A y : Given({}, y) = y
  BY DEF Given
<1>5. \A x, y : Given({x}, y) = x
  BY DEF Given
<1> QED BY <1>2, <1>3, <1>4, <1>5

\* A field that a descriptor does not change stays.
LEMMA GivenSame == ASSUME NEW s, NEW y, ~Differs(s, y) PROVE Given(s, y) = y
<1>1. s = {} \/ s = {y}
  BY DEF Differs
<1>2. Given({}, y) = y /\ Given({y}, y) = y
  BY GivenTypes
<1> QED BY <1>1, <1>2

\* A descriptor that is applied leaves a property.
LEMMA AppliedKept ==
    ASSUME NEW q \in AnyProp, NEW d \in Descs
    PROVE  Applied(q, d) \in Kept
<1>1. /\ d.v \in SUBSET Int /\ d.get \in SUBSET Int /\ d.set \in SUBSET Int
      /\ d.w \in Flags /\ d.e \in Flags /\ d.c \in Flags
  BY DEF Descs
<1>2. /\ q.v \in Int /\ q.get \in Int /\ q.set \in Int
      /\ q.w \in BOOLEAN /\ q.e \in BOOLEAN /\ q.c \in BOOLEAN /\ q.acc \in BOOLEAN
  BY DEF AnyProp
<1>3. Nil \in Int /\ NoFunc \in Int /\ Undefined \in Int
  BY DEF Nil, NoFunc, Undefined
<1>4. Given(d.e, q.e) \in BOOLEAN /\ Given(d.c, q.c) \in BOOLEAN
  BY <1>1, <1>2, GivenTypes
<1> DEFINE acc  == IsAccessor(d) \/ (q.acc /\ ~IsData(d))
           same == q # Absent /\ q.acc = acc
<1>5. /\ Given(d.get, IF same THEN q.get ELSE NoFunc) \in Int
      /\ Given(d.set, IF same THEN q.set ELSE NoFunc) \in Int
      /\ Given(d.v, IF same THEN q.v ELSE Undefined) \in Int
  BY <1>1, <1>2, <1>3, GivenTypes
<1>6. Given(d.w, same /\ q.w) \in BOOLEAN
  BY <1>1, <1>2, GivenTypes
<1> QED BY <1>3, <1>4, <1>5, <1>6 DEF Applied, Kept, Property

\* A compatible descriptor makes of a property that is not configurable one that
\* may be reported after it.
LEMMA AppliedLater ==
    ASSUME NEW q \in AnyProp, q # Absent, ~q.c, NEW d \in Descs, NEW ext \in BOOLEAN,
           isCompatiblePropertyDescriptor(ext, d, q)
    PROVE  Later(q, Applied(q, d))
<1>1. /\ d.c # {TRUE} /\ ~Differs(d.e, q.e)
      /\ IsGeneric(d) \/ IsAccessor(d) = q.acc
      /\ q.acc => ~Differs(d.get, q.get) /\ ~Differs(d.set, q.set)
      /\ ~q.acc /\ ~q.w => d.w # {TRUE} /\ ~Differs(d.v, q.v)
  BY DEF isCompatiblePropertyDescriptor
<1>2. d.w \in Flags /\ d.e \in Flags /\ d.c \in Flags
  BY DEF Descs
<1>3. q.w \in BOOLEAN /\ q.e \in BOOLEAN /\ q.c \in BOOLEAN /\ q.acc \in BOOLEAN
  BY DEF AnyProp
<1>4. ~Given(d.c, q.c) /\ Given(d.e, q.e) = q.e
  BY <1>1, <1>2, <1>3, GivenTypes DEF Differs, Flags
<1>5. CASE q.acc
  <2>1. IsAccessor(d) \/ (q.acc /\ ~IsData(d))
    BY <1>1, <1>5 DEF IsGeneric
  <2>2. Given(d.get, q.get) = q.get /\ Given(d.set, q.set) = q.set
    BY <1>1, <1>5, GivenSame
  <2>3. Applied(q, d) = Property(Nil, q.get, q.set, FALSE, Given(d.e, q.e), Given(d.c, q.c), TRUE, FALSE)
    BY <1>5, <2>1, <2>2 DEF Applied
  <2> QED BY <1>3, <1>4, <1>5, <2>3 DEF Later, Property
<1>6. CASE ~q.acc
  <2>1. ~(IsAccessor(d) \/ (q.acc /\ ~IsData(d)))
    BY <1>1, <1>6 DEF IsGeneric, IsAccessor
  <2>2. Applied(q, d) = Property(Given(d.v, q.v), NoFunc, NoFunc, Given(d.w, q.w), Given(d.e, q.e), Given(d.c, q.c), FALSE, FALSE)
    BY <1>3, <1>6, <2>1 DEF Applied
  <2>3. ~q.w => Given(d.v, q.v) = q.v
    BY <1>1, <1>6, GivenSame
  <2>4. ~q.w => Given(d.w, q.w) = FALSE
    BY <1>1, <1>2, <1>3, <1>6, GivenTypes DEF Flags
  <2>5. PICK a : a = Applied(q, d)
    OBVIOUS
  <2>6. /\ a.v = Given(d.v, q.v) /\ a.w = Given(d.w, q.w) /\ a.e = Given(d.e, q.e)
        /\ a.c = Given(d.c, q.c) /\ a.acc = FALSE
    BY <2>2, <2>5 DEF Property
  <2>7. Later(q, a)
    BY <1>3, <1>4, <1>6, <2>3, <2>4, <2>6 DEF Later
  <2> QED BY <2>5, <2>7
<1> QED BY <1>3, <1>5, <1>6

\* An object may stay as it is.
LEMMA EvolvesToItself == ASSUME NEW b, IsObject(b) PROVE Evolves(b, b)
<1>1. \A n \in DOMAIN b.props : b.props[n] \in AnyProp
  BY AbsentIsNotKept DEF IsObject
<1>2. \A n \in DOMAIN b.props : ~b.props[n].c => Later(b.props[n], b.props[n])
  BY <1>1 DEF Later, AnyProp
<1> QED BY <1>2 DEF Evolves

\* defineProperty.
LEMMA DefinedEvolves ==
    ASSUME IsObject(base), NEW n \in PropNames, NEW d \in Descs,
           isCompatiblePropertyDescriptor(base.ext, d, Own(n))
    PROVE  /\ Evolves(base, Defined(n, d))
           /\ n \in DOMAIN Defined(n, d).props
           /\ Defined(n, d).props[n] = Applied(Own(n), d)
<1> DEFINE t == [k \in DOMAIN base.props \union {n} |-> IF k = n THEN Applied(Own(k), d) ELSE base.props[k]]
<1>1. base = [props |-> base.props, ext |-> base.ext, proto |-> base.proto] /\ base.ext \in BOOLEAN /\ base.proto \in Protos
  BY DEF IsObject
<1>2. Defined(n, d) = [props |-> t, ext |-> base.ext, proto |-> base.proto]
  BY <1>1 DEF Defined
<1>3. Own(n) \in AnyProp /\ (n \in DOMAIN base.props => Own(n) = base.props[n] /\ Own(n) # Absent)
  BY AbsentIsNotKept DEF Own, IsObject
<1>4. Applied(Own(n), d) \in Kept
  BY <1>3, AppliedKept
<1>5. \A k \in DOMAIN t : t[k] \in Kept
  BY <1>4 DEF IsObject
<1>6. DOMAIN t \subseteq PropNames
  BY DEF IsObject
<1>7. IsObject(Defined(n, d))
  <2>1. t \in [DOMAIN t -> Kept]
    BY <1>5
  <2> HIDE DEF t
  <2> QED BY <2>1, <1>1, <1>2, <1>6 DEF IsObject
<1>8. ~base.ext => n \in DOMAIN base.props
  BY DEF isCompatiblePropertyDescriptor, Own
<1>9. \A k \in DOMAIN base.props : ~base.props[k].c => k \in DOMAIN t /\ Later(base.props[k], t[k])
  <2> TAKE k \in DOMAIN base.props
  <2> HAVE ~base.props[k].c
  <2>1. CASE k = n
    BY <2>1, <1>1, <1>3, AppliedLater
  <2>2. CASE k # n
    BY <2>2, EvolvesToItself DEF Evolves
  <2> QED BY <2>1, <2>2
<1>10. DOMAIN t = DOMAIN base.props \union {n} /\ t[n] = Applied(Own(n), d)
  OBVIOUS
<1> HIDE DEF t
<1> QED BY <1>2, <1>7, <1>8, <1>9, <1>10 DEF Evolves

\* delete.
LEMMA DeletedEvolves ==
    ASSUME IsObject(base), NEW n, n \in DOMAIN base.props => base.props[n].c
    PROVE  Evolves(base, Deleted(n)) /\ DOMAIN Deleted(n).props = DOMAIN base.props \ {n}
<1> DEFINE t == [k \in DOMAIN base.props \ {n} |-> base.props[k]]
<1>1. base = [props |-> base.props, ext |-> base.ext, proto |-> base.proto] /\ base.ext \in BOOLEAN /\ base.proto \in Protos
  BY DEF IsObject
<1>2. Deleted(n) = [props |-> t, ext |-> base.ext, proto |-> base.proto]
  BY <1>1 DEF Deleted
<1>3. t \in [DOMAIN t -> Kept] /\ DOMAIN t \subseteq PropNames
  BY DEF IsObject
<1>4. \A k \in DOMAIN base.props : ~base.props[k].c => k \in DOMAIN t /\ Later(base.props[k], t[k])
  BY EvolvesToItself DEF Evolves
<1>5. DOMAIN t = DOMAIN base.props \ {n}
  OBVIOUS
<1> HIDE DEF t
<1>6. IsObject(Deleted(n))
  BY <1>1, <1>2, <1>3 DEF IsObject
<1> QED BY <1>2, <1>4, <1>5, <1>6 DEF Evolves

\* preventExtensions, and setPrototypeOf an extensible object.
LEMMA RestEvolves ==
    ASSUME IsObject(base)
    PROVE  /\ Evolves(base, [base EXCEPT !.ext = FALSE])
           /\ \A q \in Protos : base.ext \/ base.proto = q => Evolves(base, [base EXCEPT !.proto = q])
<1>1. base = [props |-> base.props, ext |-> base.ext, proto |-> base.proto] /\ base.ext \in BOOLEAN /\ base.proto \in Protos
  BY DEF IsObject
<1>2. [base EXCEPT !.ext = FALSE] = [props |-> base.props, ext |-> FALSE, proto |-> base.proto]
  <2>1. \A y : [base EXCEPT !.ext = y] = [props |-> base.props, ext |-> y, proto |-> base.proto]
    BY <1>1
  <2> QED BY <2>1
<1>3. \A q : [base EXCEPT !.proto = q] = [props |-> base.props, ext |-> base.ext, proto |-> q]
  BY <1>1
<1>4. \A k \in DOMAIN base.props : ~base.props[k].c => Later(base.props[k], base.props[k])
  BY EvolvesToItself DEF Evolves
<1>5. Evolves(base, [base EXCEPT !.ext = FALSE])
  <2>1. IsObject([base EXCEPT !.ext = FALSE])
    BY <1>1, <1>2 DEF IsObject
  <2> QED BY <2>1, <1>2, <1>4 DEF Evolves
<1>6. ASSUME NEW q \in Protos, base.ext \/ base.proto = q
      PROVE  Evolves(base, [base EXCEPT !.proto = q])
  <2>1. IsObject([base EXCEPT !.proto = q])
    BY <1>1, <1>3 DEF IsObject
  <2> QED BY <2>1, <1>3, <1>4, <1>6 DEF Evolves
<1> QED BY <1>5, <1>6

\* The facts stay true, and what was read can still be reported.
LEMMA HoldsEvolves ==
    ASSUME NEW f, NEW b, NEW c, IsFacts(f), IsObject(b), Holds(f, b), Evolves(b, c)
    PROVE  /\ Holds(f, c)
           /\ \A n, p : Reported(f, b, n, p) => Reported(f, c, n, p)
<1>1. /\ \A n \in DOMAIN b.props : b.props[n] \in AnyProp
      /\ \A n \in DOMAIN c.props : c.props[n] \in AnyProp
      /\ \A n \in DOMAIN f.firm : f.firm[n] \in AnyProp
  BY AbsentIsNotKept DEF IsObject, IsFacts, Evolves
<1>2. \A n \in f.stuck : n \in DOMAIN c.props /\ ~c.props[n].c
  BY DEF Holds, Evolves, Later
<1>3. \A n \in DOMAIN f.firm : n \in f.stuck /\ Later(f.firm[n], c.props[n])
  <2> TAKE n \in DOMAIN f.firm
  <2>1. n \in f.stuck /\ Later(f.firm[n], b.props[n]) /\ n \in DOMAIN b.props /\ ~b.props[n].c
    BY DEF Holds
  <2>2. n \in DOMAIN c.props /\ Later(b.props[n], c.props[n])
    BY <2>1 DEF Evolves
  <2> QED BY <2>1, <2>2, <1>1, LaterTransitive
<1>4. Holds(f, c)
  BY <1>2, <1>3 DEF Holds, Evolves
<1>5. ASSUME NEW n, NEW p, Reported(f, b, n, p)
      PROVE  Reported(f, c, n, p)
  <2>1. p # Absent /\ ~p.c => n \in DOMAIN c.props /\ Later(p, c.props[n])
    <3> SUFFICES ASSUME p # Absent, ~p.c PROVE n \in DOMAIN c.props /\ Later(p, c.props[n])
      OBVIOUS
    <3>1. n \in DOMAIN b.props /\ Later(p, b.props[n]) /\ p \in AnyProp
      BY <1>5 DEF Reported
    <3>2. ~b.props[n].c
      BY <3>1 DEF Later
    <3>3. n \in DOMAIN c.props /\ Later(b.props[n], c.props[n])
      BY <3>1, <3>2 DEF Evolves
    <3> QED BY <3>1, <3>3, <1>1, LaterTransitive
  <2>2. p = Absent /\ f.nonExt => n \notin DOMAIN c.props
    BY <1>5 DEF Reported, Holds, Evolves
  <2> QED BY <1>5, <2>1, <2>2 DEF Reported
<1> QED BY <1>4, <1>5

-----------------------------------------------------------------------------
(* Answers                                                                 *)

\* The object b bears out what the answer a adds to the facts f.
Supported(f, b, a) ==
    /\ a.m = "getOwn" => a.n \in PropNames /\ Reported(f, b, a.n, a.r)
    /\ a.m = "delete" /\ a.r => a.n \in PropNames /\ (f.nonExt => a.n \notin DOMAIN b.props)
    /\ a.m = "keys" /\ f.nonExt => DOMAIN b.props \subseteq a.r
    /\ a.m = "isExtensible" => a.r \in BOOLEAN /\ (~a.r => ~b.ext)
    /\ a.m = "preventExtensions" => a.r \in BOOLEAN /\ (a.r => ~b.ext)
    /\ a.m = "define" /\ a.r /\ a.x.c = {FALSE} => a.n \in PropNames /\ a.n \in DOMAIN b.props /\ ~b.props[a.n].c
    /\ a.m = "proto" /\ f.nonExt => a.r = b.proto
    /\ a.m = "setProto" /\ a.r /\ f.nonExt => a.x = b.proto

\* What a client relies on after such an answer is true again.
LEMMA ToldHolds ==
    ASSUME NEW f, NEW b, NEW a, IsFacts(f), IsObject(b), Holds(f, b), Supported(f, b, a)
    PROVE  IsFacts(Told(f, a)) /\ Holds(Told(f, a), b)
<1> DEFINE new == IF a.m = "getOwn" /\ a.r # Absent /\ ~a.r.c THEN {a.n} ELSE {}
           def == IF a.m = "define" /\ a.r /\ a.x.c = {FALSE} THEN {a.n} ELSE {}
           none == IF (a.m = "getOwn" /\ a.r = Absent) \/ (a.m = "delete" /\ a.r) THEN {a.n}
                   ELSE IF a.m = "keys" THEN PropNames \ a.r ELSE {}
           firm == [n \in DOMAIN f.firm \union new |-> IF n \in new THEN a.r ELSE f.firm[n]]
           nonExt == f.nonExt \/ (a.m = "isExtensible" /\ ~a.r) \/ (a.m = "preventExtensions" /\ a.r)
           absent == IF f.nonExt THEN f.absent \union none ELSE {}
           proto == CASE f.nonExt /\ a.m = "proto" -> {a.r}
                      [] f.nonExt /\ a.m = "setProto" /\ a.r -> {a.x}
                      [] OTHER -> f.proto
<1>1. Told(f, a) = [nonExt |-> nonExt, stuck |-> f.stuck \union new \union def, firm |-> firm,
                    absent |-> absent, proto |-> proto]
  BY DEF Told
<1>2. \A n \in new : n \in PropNames /\ n \in DOMAIN b.props /\ ~b.props[n].c /\ a.r \in Kept /\ Later(a.r, b.props[n])
  BY DEF Supported, Reported, Later
<1>3. \A n \in def : n \in PropNames /\ n \in DOMAIN b.props /\ ~b.props[n].c
  BY DEF Supported
<1>4. none \subseteq PropNames /\ (f.nonExt => \A n \in none : n \notin DOMAIN b.props)
  BY DEF Supported, Reported
<1>5. nonExt \in BOOLEAN /\ (nonExt => ~b.ext) /\ (f.nonExt => nonExt)
  BY DEF Supported, Holds, IsFacts
<1>6. proto \subseteq {b.proto} /\ (proto # {} => nonExt) /\ proto \subseteq Protos
  <2>1. b.proto \in Protos /\ f.proto \subseteq {b.proto} /\ (f.proto # {} => f.nonExt)
    BY DEF Holds, IsObject
  <2>2. CASE f.nonExt /\ a.m = "proto"
    <3>1. proto = {a.r} /\ a.r = b.proto
      BY <2>2 DEF Supported
    <3> QED BY <2>1, <2>2, <3>1, <1>5
  <2>3. CASE f.nonExt /\ a.m = "setProto" /\ a.r
    <3>1. proto = {a.x} /\ a.x = b.proto
      BY <2>3 DEF Supported
    <3> QED BY <2>1, <2>3, <3>1, <1>5
  <2>4. CASE ~(f.nonExt /\ a.m = "proto") /\ ~(f.nonExt /\ a.m = "setProto" /\ a.r)
    <3>1. proto = f.proto
      BY <2>4
    <3> QED BY <2>1, <3>1, <1>5
  <2> QED BY <2>2, <2>3, <2>4
<1>7. absent \subseteq PropNames /\ \A n \in absent : nonExt /\ n \notin DOMAIN b.props
  BY <1>4, <1>5 DEF Holds, IsFacts
<1>8. /\ DOMAIN firm = DOMAIN f.firm \union new
      /\ \A n \in DOMAIN firm : firm[n] = IF n \in new THEN a.r ELSE f.firm[n]
  OBVIOUS
<1>9. /\ DOMAIN f.firm \subseteq PropNames /\ f.stuck \subseteq PropNames
      /\ \A n \in DOMAIN f.firm : f.firm[n] \in Kept
  BY DEF IsFacts
<1>10. firm \in [DOMAIN firm -> Kept]
  BY <1>2, <1>8, <1>9
<1>11. \A n \in DOMAIN firm : n \in f.stuck \union new /\ Later(firm[n], b.props[n])
  <2> TAKE n \in DOMAIN firm
  <2>1. CASE n \in new
    BY <2>1, <1>2, <1>8
  <2>2. CASE n \notin new
    BY <2>2, <1>8 DEF Holds
  <2> QED BY <2>1, <2>2
<1>12. \A n \in f.stuck : n \in DOMAIN b.props /\ ~b.props[n].c
  BY DEF Holds
<1> HIDE DEF new, def, none, firm, nonExt, absent, proto
<1>13. PICK t : t = Told(f, a)
  OBVIOUS
<1>14. /\ t.nonExt = nonExt /\ t.stuck = f.stuck \union new \union def /\ t.firm = firm
       /\ t.absent = absent /\ t.proto = proto
       /\ t = [nonExt |-> t.nonExt, stuck |-> t.stuck, firm |-> t.firm, absent |-> t.absent, proto |-> t.proto]
  BY <1>1, <1>13
<1>15. /\ t.nonExt \in BOOLEAN /\ t.stuck \in SUBSET PropNames /\ t.firm \in [DOMAIN t.firm -> Kept]
       /\ t.absent \in SUBSET PropNames /\ t.proto \in SUBSET Protos /\ DOMAIN t.firm \subseteq PropNames
  BY <1>2, <1>3, <1>5, <1>6, <1>7, <1>8, <1>9, <1>10, <1>14
<1>16. IsFacts(t)
  BY <1>14, <1>15 DEF IsFacts
<1>17. Holds(t, b)
  BY <1>2, <1>3, <1>5, <1>6, <1>7, <1>11, <1>12, <1>14 DEF Holds
<1> QED BY <1>13, <1>16, <1>17

\* An answer that agrees with what the client knows, and that the object bears out.
TheAnswer(r) == Answer(op.m, op.n, op.x, r, facts)
Sound(b, r)  == Agrees(facts, TheAnswer(r)) /\ Supported(facts, b, TheAnswer(r))

\* An answer that is true of the object preserves the invariant.
LEMMA AnsweredSound ==
    ASSUME IndInv, NEW r, Answered(r), Evolves(base, base'), Sound(base', r)
    PROVE  IndInv'
<1>1. answer' = TheAnswer(r) /\ facts' = Told(facts, TheAnswer(r)) /\ op' = NoOp
  BY DEF Answered, TheAnswer
<1>2. IsFacts(facts) /\ IsObject(base) /\ Holds(facts, base)
  BY DEF IndInv
<1>3. IsObject(base') /\ Holds(facts, base')
  BY <1>2, HoldsEvolves DEF Evolves
<1>4. IsFacts(facts') /\ Holds(facts', base')
  BY <1>1, <1>2, <1>3, ToldHolds DEF Sound
<1>5. TheAnswer(r).known = facts
  BY DEF TheAnswer, Answer
<1>6. NeverContradicted'
  BY <1>1, <1>5 DEF NeverContradicted, Sound
<1> QED BY <1>1, <1>3, <1>4, <1>6 DEF IndInv, IsObject, IsFacts, Holds

\* An exception tells the client nothing.
LEMMA CheckedSound ==
    ASSUME IndInv, NEW ok \in BOOLEAN, Checked(ok), ok => Sound(base, op.r)
    PROVE  IndInv'
<1>1. CASE ok
  <2>1. Answered(op.r) /\ base' = base
    BY <1>1 DEF Checked
  <2>2. Evolves(base, base')
    BY <2>1, EvolvesToItself DEF IndInv
  <2> QED BY <1>1, <2>1, <2>2, AnsweredSound
<1>2. CASE ~ok
  <2>1. op' = NoOp /\ UNCHANGED <<base, facts, answer>>
    BY <1>2 DEF Checked, Throws
  <2> QED BY <2>1 DEF IndInv, NeverContradicted, Holds, IsFacts, IsObject
<1> QED BY <1>1, <1>2

\* What an answer records.
LEMMA AnswerFields ==
    ASSUME NEW r
    PROVE  /\ TheAnswer(r).m = op.m /\ TheAnswer(r).n = op.n /\ TheAnswer(r).x = op.x
           /\ TheAnswer(r).r = r /\ TheAnswer(r).known = facts
  BY DEF TheAnswer, Answer

\* getOwnPropertyDescriptor: what may be reported.
LEMMA GetOwnSound ==
    ASSUME op.m = "getOwn", op.n \in PropNames, NEW b, NEW r, Reported(facts, b, op.n, r)
    PROVE  Sound(b, r)
<1>1. Agrees(facts, TheAnswer(r))
  BY AnswerFields DEF Agrees, Reported
<1>2. Supported(facts, b, TheAnswer(r))
  BY AnswerFields DEF Supported
<1> QED BY <1>1, <1>2 DEF Sound

\* A descriptor that is compatible with what may be reported is compatible with
\* what a client knows.
LEMMA FirmCompatible ==
    ASSUME IsFacts(facts), Holds(facts, base), op.n \in DOMAIN facts.firm,
           NEW p, Reported(facts, base, op.n, p), isCompatiblePropertyDescriptor(base.ext, op.x, p)
    PROVE  isCompatiblePropertyDescriptor(TRUE, op.x, facts.firm[op.n])
<1>1. PICK q \in AnyProp : q = facts.firm[op.n]
  BY AbsentIsNotKept DEF IsFacts
<1>2. p \in AnyProp /\ p # Absent /\ ~p.c /\ Later(q, p)
  BY <1>1 DEF Reported, Holds
<1>3. PICK d : d = op.x
  OBVIOUS
<1>4. isCompatiblePropertyDescriptor(base.ext, d, p)
  BY <1>3
<1>5. /\ d.c # {TRUE} /\ ~Differs(d.e, p.e)
      /\ IsGeneric(d) \/ IsAccessor(d) = p.acc
      /\ p.acc => ~Differs(d.get, p.get) /\ ~Differs(d.set, p.set)
      /\ ~p.acc /\ ~p.w => d.w # {TRUE} /\ ~Differs(d.v, p.v)
  BY <1>2, <1>4 DEF isCompatiblePropertyDescriptor
<1>6. isCompatiblePropertyDescriptor(TRUE, d, q)
  BY <1>1, <1>2, <1>5 DEF Later, AnyProp, isCompatiblePropertyDescriptor
<1> QED BY <1>1, <1>3, <1>6

\* defineProperty, allowed by a property that may be reported.
LEMMA DefineSound ==
    ASSUME op.m = "define", op.n \in PropNames, op.x \in Descs, op.r \in BOOLEAN,
           IsFacts(facts), IsObject(base), Holds(facts, base),
           NEW p, Reported(facts, base, op.n, p),
           proxyDefineOwnPropertyPostCheck(p, base.ext, op.x)
    PROVE  Sound(base, op.r)
<1>1. op.n \notin facts.absent
  <2>1. p = Absent => base.ext
    BY DEF proxyDefineOwnPropertyPostCheck
  <2> QED BY <2>1 DEF Reported, Holds
<1>2. p # Absent => isCompatiblePropertyDescriptor(base.ext, op.x, p) /\ ~(op.x.c = {FALSE} /\ p.c)
  BY DEF proxyDefineOwnPropertyPostCheck
<1>3. op.n \in facts.stuck => op.x.c # {TRUE}
  BY <1>2 DEF Reported, isCompatiblePropertyDescriptor
<1>4. op.n \in DOMAIN facts.firm => isCompatiblePropertyDescriptor(TRUE, op.x, facts.firm[op.n])
  BY <1>2, FirmCompatible DEF Reported, Holds
<1>5. op.x.c = {FALSE} => op.n \in DOMAIN base.props /\ ~base.props[op.n].c
  <2>1. op.x.c = {FALSE} => p # Absent
    BY DEF proxyDefineOwnPropertyPostCheck
  <2> QED BY <1>2, <2>1 DEF Reported, Later
<1>6. Agrees(facts, TheAnswer(op.r))
  BY <1>1, <1>3, <1>4, AnswerFields DEF Agrees
<1>7. Supported(facts, base, TheAnswer(op.r))
  BY <1>5, AnswerFields DEF Supported
<1> QED BY <1>6, <1>7 DEF Sound

\* has and delete deny a property that may be reported.
LEMMA DenialSound ==
    ASSUME op.m \in {"has", "delete"}, op.n \in PropNames, Holds(facts, base),
           NEW p, Reported(facts, base, op.n, p), p = Absent \/ (p.c /\ base.ext)
    PROVE  Sound(base, op.r)
<1>1. op.n \notin facts.stuck
  BY DEF Reported
<1>2. facts.nonExt => op.n \notin DOMAIN base.props
  BY DEF Reported, Holds
<1>3. Agrees(facts, TheAnswer(op.r))
  BY <1>1, AnswerFields DEF Agrees
<1>4. Supported(facts, base, TheAnswer(op.r))
  BY <1>2, AnswerFields DEF Supported
<1> QED BY <1>3, <1>4 DEF Sound

\* get and set, allowed by a property that may be reported.
LEMMA GetSetSound ==
    ASSUME op.m \in {"get", "set"}, IsFacts(facts), Holds(facts, base),
           NEW b, NEW p, Reported(facts, base, op.n, p),
           op.m = "get" => proxyGetChecks(p, op.r), op.m = "set" => proxySetPostCheck(p, op.x)
    PROVE  Sound(b, op.r)
<1>1. Supported(facts, b, TheAnswer(op.r))
  BY AnswerFields DEF Supported
<1>2. Agrees(facts, TheAnswer(op.r))
  <2>1. CASE op.n \notin DOMAIN facts.firm
    BY <2>1, AnswerFields DEF Agrees
  <2>2. CASE op.n \in DOMAIN facts.firm
    <3>1. PICK q \in AnyProp : q = facts.firm[op.n]
      BY <2>2, AbsentIsNotKept DEF IsFacts
    <3>2. p \in AnyProp /\ p # Absent /\ ~p.c /\ Later(q, p)
      BY <2>2, <3>1 DEF Reported, Holds
    <3>3. CASE op.m = "get"
      <4>1. IF q.acc THEN q.get # NoFunc \/ op.r = Undefined ELSE q.w \/ op.r = q.v
        BY <3>1, <3>2, <3>3 DEF Later, AnyProp, proxyGetChecks
      <4> QED BY <3>1, <3>3, <4>1, AnswerFields DEF Agrees
    <3>4. CASE op.m = "set"
      <4>1. IF q.acc THEN q.set # NoFunc ELSE q.w \/ op.x = q.v
        BY <3>1, <3>2, <3>4 DEF Later, AnyProp, proxySetPostCheck
      <4> QED BY <3>1, <3>4, <4>1, AnswerFields DEF Agrees
    <3> QED BY <3>3, <3>4
  <2> QED BY <2>1, <2>2
<1> QED BY <1>1, <1>2 DEF Sound

\* ownKeys, of an object that has them.
LEMMA KeysSound ==
    ASSUME op.m = "keys", facts.stuck \subseteq op.r, facts.absent \intersect op.r = {},
           NEW b, facts.nonExt => DOMAIN b.props \subseteq op.r
    PROVE  Sound(b, op.r)
  BY AnswerFields DEF Sound, Agrees, Supported

\* A refusal, and the other answers that stand as they are.
LEMMA RefusalSound ==
    ASSUME op.r \in BOOLEAN, NEW b,
           \/ op.m \in {"define", "set", "setProto", "preventExtensions", "delete"} /\ ~op.r
           \/ op.m = "has" /\ op.r
    PROVE  Sound(b, op.r)
<1>1. Agrees(facts, TheAnswer(op.r))
  BY AnswerFields DEF Agrees
<1>2. Supported(facts, b, TheAnswer(op.r))
  BY AnswerFields DEF Supported
<1> QED BY <1>1, <1>2 DEF Sound

\* The prototype and extensibility, as the object has them.
LEMMA WholeSound ==
    ASSUME NEW b, Holds(facts, b), op.m \in {"proto", "setProto", "isExtensible", "preventExtensions"},
           op.m = "proto" => b.ext \/ b.proto = op.r,
           op.m = "setProto" => op.r \in BOOLEAN /\ (b.ext \/ b.proto = op.x),
           op.m = "isExtensible" => op.r \in BOOLEAN /\ op.r = b.ext,
           op.m = "preventExtensions" => op.r \in BOOLEAN /\ ~b.ext
    PROVE  Sound(b, op.r)
<1>1. /\ facts.nonExt => ~b.ext
      /\ facts.proto # {} => facts.nonExt
      /\ facts.proto \subseteq {b.proto}
  BY DEF Holds
<1>2. Supported(facts, b, TheAnswer(op.r))
  BY <1>1, AnswerFields DEF Supported
<1>3. facts.proto # {} => b.proto \in facts.proto
  BY <1>1
<1>4. Agrees(facts, TheAnswer(op.r))
  BY <1>1, <1>3, AnswerFields DEF Agrees
<1> QED BY <1>2, <1>4 DEF Sound

-----------------------------------------------------------------------------
(* The steps of an operation                                               *)

\* An operation in progress is as the invariant says.
LEMMA InProgress == ASSUME IndInv, op.stage # "none" PROVE OpOK
<1>1. NoOp.stage = "none"
  BY DEF NoOp
<1> QED BY <1>1 DEF IndInv

\* A step that reads changes op only.
LEMMA ReadsStep ==
    ASSUME IndInv, NEW o, Reads(o), OpOK'
    PROVE  IndInv'
<1>1. UNCHANGED <<base, facts, answer>>
  BY DEF Reads
<1> QED BY <1>1 DEF IndInv, NeverContradicted, Holds, IsFacts, IsObject

\* An operation begins.
LEMMA BeginStep == ASSUME IndInv, Begin PROVE IndInv'
<1>1. UNCHANGED <<base, facts, answer>>
  BY DEF Begin
<1>2. ASSUME NEW m \in Named \union Whole, NEW n, m \in Named => n \in PropNames, NEW xr \in Ops(m),
             op' = [m |-> m, n |-> n, x |-> xr[1], r |-> xr[2], stage |-> "trapped", p |-> Absent, ext |-> TRUE]
      PROVE  OpOK'
  <2>1. /\ op'.m = m /\ op'.n = n /\ op'.x = xr[1] /\ op'.r = xr[2] /\ op'.stage = "trapped"
        /\ op'.p = Absent /\ op'.ext = TRUE
    BY <1>2
  <2>2. m \in {"define", "has", "set", "delete", "setProto", "isExtensible", "preventExtensions"} => xr[2] \in BOOLEAN
    <3>1. CASE m = "define"
      BY <3>1 DEF Ops
    <3>2. CASE m = "has"
      BY <3>2 DEF Ops
    <3>3. CASE m = "set"
      BY <3>3 DEF Ops
    <3>4. CASE m = "delete"
      BY <3>4 DEF Ops
    <3>5. CASE m = "setProto"
      BY <3>5 DEF Ops
    <3>6. CASE m \in {"isExtensible", "preventExtensions"}
      <4>1. Ops(m) = {0} \X BOOLEAN
        BY <3>6 DEF Ops
      <4> QED BY <4>1
    <3> QED BY <3>1, <3>2, <3>3, <3>4, <3>5, <3>6
  <2>3. m = "define" => xr[1] \in Descs
    <3>1. m = "define" => xr \in Defs \X BOOLEAN
      BY DEF Ops
    <3> QED BY <3>1, ProxyAssumption
  <2>4. m = "getOwn" => xr[2] \in Kept \union {Absent}
    <3>1. m = "getOwn" => xr \in {0} \X (Shapes \union {Absent})
      BY DEF Ops
    <3> QED BY <3>1, ProxyAssumption
  <2>5. m = "keys" => xr[2] \subseteq PropNames
    BY DEF Ops
  <2>6. m = "proto" => xr[2] \in Protos
    BY DEF Ops
  <2>7. m = "setProto" => xr[1] \in Protos
    BY DEF Ops
  <2>8. OpInputs'
    BY <1>2, <2>1, <2>2, <2>3, <2>4, <2>5, <2>6, <2>7 DEF OpInputs
  <2> QED BY <2>1, <2>8 DEF OpOK
<1>3. OpOK'
  BY <1>2 DEF Begin, Named, Whole
<1> QED BY <1>1, <1>3 DEF IndInv, NeverContradicted, Holds, IsFacts, IsObject

\* The trap refused, and the operation ends.
LEMMA FalsishStep == ASSUME IndInv, Falsish PROVE IndInv'
<1>1. OpOK
  BY InProgress DEF Falsish
<1>2. op.r \in BOOLEAN
  BY <1>1 DEF Falsish, OpOK, OpInputs
<1>3. Answered(op.r) /\ base' = base
  BY DEF Falsish
<1>4. Sound(base', op.r)
  BY <1>2, RefusalSound DEF Falsish
<1>5. Evolves(base, base')
  BY <1>3, EvolvesToItself DEF IndInv
<1> QED BY <1>3, <1>4, <1>5, AnsweredSound

\* A check reads a property of the target.
LEMMA ReadPropStep == ASSUME ~AnyResult, IndInv, ReadProp PROVE IndInv'
<1>1. IsObject(base) /\ IsFacts(facts) /\ Holds(facts, base)
  BY DEF IndInv
<1>2. ASSUME NEW m \in {"define", "has", "getOwn", "delete"}, Unsettled(m), m = "getOwn" => op.r \in Results,
             NEW p \in targetGetOwnProp(op.n), Reads([op EXCEPT !.p = p, !.stage = "prop"])
      PROVE  IndInv'
  <2>1. OpOK /\ op.m = m
    BY <1>2, InProgress DEF Unsettled
  <2>2. Reported(facts, base, op.n, p)
    BY <1>1, ReadReported
  <2>3. op' = [op EXCEPT !.p = p, !.stage = "prop"] /\ UNCHANGED <<base, facts>>
    BY <1>2 DEF Reads
  <2>4. op = [m |-> op.m, n |-> op.n, x |-> op.x, r |-> op.r, stage |-> op.stage, p |-> op.p, ext |-> op.ext]
    BY <2>1 DEF OpOK, OpInputs
  <2>5. /\ op' = [m |-> op.m, n |-> op.n, x |-> op.x, r |-> op.r, stage |-> "prop", p |-> p, ext |-> op.ext]
        /\ op'.m = op.m /\ op'.n = op.n /\ op'.x = op.x /\ op'.r = op.r /\ op'.stage = "prop" /\ op'.p = p /\ op'.ext = op.ext
    BY <2>3, <2>4
  <2>6. OpInputs'
    BY <2>1, <2>5 DEF OpOK, OpInputs
  <2>7. OpOK'
    BY <1>2, <2>1, <2>2, <2>3, <2>5, <2>6 DEF OpOK
  <2> QED BY <1>2, <2>7, ReadsStep
<1>3. ASSUME Unsettled("get"), NEW p \in targetGetOwnProp(op.n), Checked(proxyGetChecks(p, op.r))
      PROVE  IndInv'
  <2>1. Reported(facts, base, op.n, p) /\ op.m = "get"
    BY <1>1, <1>3, ReadReported DEF Unsettled
  <2>2. proxyGetChecks(p, op.r) \in BOOLEAN
    BY DEF proxyGetChecks
  <2>3. proxyGetChecks(p, op.r) => Sound(base, op.r)
    BY <1>1, <2>1, GetSetSound
  <2> QED BY <1>3, <2>2, <2>3, CheckedSound
<1>4. ASSUME Unsettled("set"), NEW p \in targetGetOwnProp(op.n), Checked(proxySetPostCheck(p, op.x))
      PROVE  IndInv'
  <2>1. Reported(facts, base, op.n, p) /\ op.m = "set"
    BY <1>1, <1>4, ReadReported DEF Unsettled
  <2>2. proxySetPostCheck(p, op.x) \in BOOLEAN
    BY DEF proxySetPostCheck
  <2>3. proxySetPostCheck(p, op.x) => Sound(base, op.r)
    BY <1>1, <2>1, GetSetSound
  <2> QED BY <1>4, <2>2, <2>3, CheckedSound
<1> QED BY <1>2, <1>3, <1>4, Zenon DEF ReadProp

\* A check reads whether the target is extensible.
LEMMA ReadExtensibleStep == ASSUME ~AnyResult, IndInv, ReadExtensible PROVE IndInv'
<1>1. IsObject(base) /\ IsFacts(facts) /\ Holds(facts, base) /\ base.ext \in BOOLEAN
  BY DEF IndInv, IsObject
<1>2. CASE /\ op.stage = "prop" /\ op.m # "getOwn"
           /\ Checked(CASE op.m = "define" -> proxyDefineOwnPropertyPostCheck(op.p, base.ext, op.x)
                    [] op.m = "has"    -> proxyHasChecks(op.p, base.ext)
                    [] op.m = "delete" -> proxyDeleteCheck(op.p, base.ext))
  <2>1. OpOK
    BY <1>2, InProgress
  <2>2. Reported(facts, base, op.n, op.p) /\ op.m \in {"define", "has", "getOwn", "delete"} /\ op.n \in PropNames
    BY <1>2, <2>1 DEF OpOK, OpInputs, Named
  <2>3. CASE op.m = "define"
    <3>1. Checked(proxyDefineOwnPropertyPostCheck(op.p, base.ext, op.x))
      BY <1>2, <2>3
    <3>2. proxyDefineOwnPropertyPostCheck(op.p, base.ext, op.x) \in BOOLEAN
      BY <1>1 DEF proxyDefineOwnPropertyPostCheck
    <3>3. op.x \in Descs /\ op.r \in BOOLEAN
      BY <2>1, <2>3 DEF OpOK, OpInputs
    <3>4. proxyDefineOwnPropertyPostCheck(op.p, base.ext, op.x) => Sound(base, op.r)
      BY <1>1, <2>2, <2>3, <3>3, DefineSound
    <3> QED BY <3>1, <3>2, <3>4, CheckedSound
  <2>4. CASE op.m = "has"
    <3>1. Checked(proxyHasChecks(op.p, base.ext))
      BY <1>2, <2>4
    <3>2. proxyHasChecks(op.p, base.ext) => Sound(base, op.r)
      BY <1>1, <2>2, <2>4, DenialSound DEF proxyHasChecks
    <3>3. proxyHasChecks(op.p, base.ext) \in BOOLEAN
      BY DEF proxyHasChecks
    <3> QED BY <3>1, <3>2, <3>3, CheckedSound
  <2>6. CASE op.m = "delete"
    <3>1. Checked(proxyDeleteCheck(op.p, base.ext))
      BY <1>2, <2>6
    <3>2. proxyDeleteCheck(op.p, base.ext) => Sound(base, op.r)
      BY <1>1, <2>2, <2>6, DenialSound DEF proxyDeleteCheck
    <3>3. proxyDeleteCheck(op.p, base.ext) \in BOOLEAN
      BY DEF proxyDeleteCheck
    <3> QED BY <3>1, <3>2, <3>3, CheckedSound
  <2> QED BY <1>2, <2>2, <2>3, <2>4, <2>6
<1>7. CASE op.stage = "prop" /\ op.m = "getOwn" /\ CheckedResult(proxyGetOwnPropertyDescriptor(op.p, base.ext, op.r))
  <2>1. OpOK
    BY <1>7, InProgress
  <2>2. Reported(facts, base, op.n, op.p) /\ op.n \in PropNames /\ op.r \in Results
    BY <1>7, <2>1 DEF OpOK, OpInputs, Named
  <2>3. op.r \in AnyProp /\ (op.r # Absent => op.r \in Kept /\ Candid(op.r)) /\ Returned(op.r) = {op.r}
    BY <2>2, ResultsAre
  <2>4. proxyGetOwnPropertyDescriptor(op.p, base.ext, op.r) => Sound(base, op.r)
    <3>1. proxyGetOwnPropertyDescriptor(op.p, base.ext, op.r) => Reported(facts, base, op.n, op.r)
      BY <1>1, <2>2, <2>3, ReportsChain
    <3> QED BY <1>7, <2>2, <3>1, GetOwnSound
  <2>5. proxyGetOwnPropertyDescriptor(op.p, base.ext, op.r) \in BOOLEAN
    BY <1>1 DEF proxyGetOwnPropertyDescriptor
  <2>6. Checked(proxyGetOwnPropertyDescriptor(op.p, base.ext, op.r))
    BY <1>7, <2>3 DEF CheckedResult, Checked
  <2> QED BY <2>4, <2>5, <2>6, CheckedSound
<1>3. CASE Unsettled("isExtensible") /\ Checked(op.r = base.ext)
  <2>1. OpOK /\ op.m = "isExtensible"
    BY <1>3, InProgress DEF Unsettled
  <2>2. op.r \in BOOLEAN
    BY <2>1 DEF OpOK, OpInputs
  <2>3. op.r = base.ext => Sound(base, op.r)
    BY <1>1, <2>1, <2>2, WholeSound
  <2> QED BY <1>3, <2>3, CheckedSound
<1>4. CASE Unsettled("preventExtensions") /\ Checked(~base.ext)
  <2>1. OpOK /\ op.m = "preventExtensions"
    BY <1>4, InProgress DEF Unsettled
  <2>2. op.r \in BOOLEAN
    BY <2>1 DEF OpOK, OpInputs
  <2>3. ~base.ext => Sound(base, op.r)
    BY <1>1, <2>1, <2>2, WholeSound
  <2> QED BY <1>1, <1>4, <2>3, CheckedSound
<1>5. ASSUME NEW m \in {"proto", "setProto"}, Unsettled(m),
             IF base.ext THEN Checked(TRUE) ELSE Reads([op EXCEPT !.stage = "closed"])
      PROVE  IndInv'
  <2>1. OpOK /\ op.m = m
    BY <1>5, InProgress DEF Unsettled
  <2>2. CASE base.ext
    <3>1. op.m = "setProto" => op.r \in BOOLEAN
      BY <2>1 DEF OpOK, OpInputs
    <3>2. Sound(base, op.r)
      BY <1>1, <1>5, <2>1, <2>2, <3>1, WholeSound
    <3> QED BY <1>5, <2>2, <3>2, CheckedSound
  <2>3. CASE ~base.ext
    <3>1. Reads([op EXCEPT !.stage = "closed"])
      BY <1>5, <2>3
    <3>2. op' = [op EXCEPT !.stage = "closed"] /\ UNCHANGED <<base, facts>>
      BY <3>1 DEF Reads
    <3>3. op = [m |-> op.m, n |-> op.n, x |-> op.x, r |-> op.r, stage |-> op.stage, p |-> op.p, ext |-> op.ext]
      BY <2>1 DEF OpOK, OpInputs
    <3>4. /\ op' = [m |-> op.m, n |-> op.n, x |-> op.x, r |-> op.r, stage |-> "closed", p |-> op.p, ext |-> op.ext]
          /\ op'.m = op.m /\ op'.n = op.n /\ op'.x = op.x /\ op'.r = op.r /\ op'.stage = "closed" /\ op'.p = op.p /\ op'.ext = op.ext
      BY <3>2, <3>3
    <3>5. OpInputs'
      BY <2>1, <3>4 DEF OpOK, OpInputs
    <3>6. OpOK'
      BY <1>5, <2>1, <2>3, <3>2, <3>4, <3>5 DEF OpOK
    <3> QED BY <3>1, <3>6, ReadsStep
  <2> QED BY <2>2, <2>3
<1>6. CASE Unsettled("keys") /\ Reads([op EXCEPT !.ext = base.ext, !.stage = "ext"])
  <2>1. OpOK /\ op.m = "keys"
    BY <1>6, InProgress DEF Unsettled
  <2>2. op' = [op EXCEPT !.ext = base.ext, !.stage = "ext"] /\ UNCHANGED <<base, facts>>
    BY <1>6 DEF Reads
  <2>3. op = [m |-> op.m, n |-> op.n, x |-> op.x, r |-> op.r, stage |-> op.stage, p |-> op.p, ext |-> op.ext]
    BY <2>1 DEF OpOK, OpInputs
  <2>4. /\ op' = [m |-> op.m, n |-> op.n, x |-> op.x, r |-> op.r, stage |-> "ext", p |-> op.p, ext |-> base.ext]
        /\ op'.m = op.m /\ op'.n = op.n /\ op'.x = op.x /\ op'.r = op.r /\ op'.stage = "ext" /\ op'.p = op.p /\ op'.ext = base.ext
    BY <2>2, <2>3
  <2>5. OpInputs'
    BY <1>1, <2>1, <2>4 DEF OpOK, OpInputs
  <2>6. OpOK'
    BY <1>1, <2>1, <2>2, <2>4, <2>5 DEF OpOK, Holds
  <2> QED BY <1>6, <2>6, ReadsStep
<1> QED BY <1>2, <1>3, <1>4, <1>5, <1>6, <1>7 DEF ReadExtensible

\* A check reads the target's prototype.
LEMMA ReadProtoStep == ASSUME IndInv, ReadProto PROVE IndInv'
<1>1. OpOK /\ op.m \in {"proto", "setProto"} /\ Holds(facts, base)
  <2>1. OpOK
    BY InProgress DEF ReadProto
  <2> QED BY <2>1 DEF ReadProto, OpOK, IndInv
<1>2. op.m = "setProto" => op.r \in BOOLEAN
  BY <1>1 DEF OpOK, OpInputs
<1>3. CASE op.m = "proto"
  <2>1. Checked(base.proto = op.r)
    BY <1>3 DEF ReadProto
  <2>2. base.proto = op.r => Sound(base, op.r)
    BY <1>1, <1>3, WholeSound
  <2> QED BY <2>1, <2>2, CheckedSound
<1>4. CASE op.m = "setProto"
  <2>1. Checked(base.proto = op.x)
    BY <1>4 DEF ReadProto
  <2>2. base.proto = op.x => Sound(base, op.r)
    BY <1>1, <1>2, <1>4, WholeSound
  <2> QED BY <2>1, <2>2, CheckedSound
<1> QED BY <1>1, <1>3, <1>4

\* A check reads the target's keys.
LEMMA ReadKeysStep == ASSUME IndInv, ReadKeys PROVE IndInv'
<1>1. OpOK
  BY InProgress DEF ReadKeys
<1>2. op.m = "keys" /\ (facts.nonExt => ~op.ext) /\ Holds(facts, base) /\ IsObject(base)
  BY <1>1 DEF ReadKeys, OpOK, IndInv
<1>3. PICK held \in ownKeys : Reads([op EXCEPT !.stage = "keys", !.p = held, !.x = held \ op.r])
  BY Zenon DEF ReadKeys
<1>4. op' = [op EXCEPT !.stage = "keys", !.p = held, !.x = held \ op.r] /\ UNCHANGED <<base, facts>>
  BY <1>3 DEF Reads
<1>5. op = [m |-> op.m, n |-> op.n, x |-> op.x, r |-> op.r, stage |-> op.stage, p |-> op.p, ext |-> op.ext] /\ op.ext \in BOOLEAN
  BY <1>1 DEF OpOK, OpInputs
<1>6. /\ op' = [m |-> op.m, n |-> op.n, x |-> held \ op.r, r |-> op.r, stage |-> "keys", p |-> held, ext |-> op.ext]
      /\ op'.m = op.m /\ op'.n = op.n /\ op'.x = held \ op.r /\ op'.r = op.r /\ op'.stage = "keys" /\ op'.p = held /\ op'.ext = op.ext
  BY <1>4, <1>5
<1>7. OpInputs'
  BY <1>1, <1>2, <1>6 DEF OpOK, OpInputs
<1>8. /\ Firm(base.props) \subseteq held
      /\ ~base.ext => held = DOMAIN base.props
  BY <1>2 DEF ownKeys, proxyOwnKeys, Firm
<1>9. /\ facts.stuck \subseteq held
      /\ facts.nonExt => held = DOMAIN base.props
      /\ facts.absent \intersect held = {}
  <2>1. facts.stuck \subseteq Firm(base.props)
    BY <1>2 DEF Holds, Firm
  <2>2. facts.nonExt => held = DOMAIN base.props
    BY <1>2, <1>8 DEF Holds
  <2>3. facts.absent \intersect held = {}
    BY <1>2, <2>2 DEF Holds
  <2> QED BY <1>8, <2>1, <2>2, <2>3
<1>10. KeysRead'
  BY <1>2, <1>4, <1>6, <1>9 DEF KeysRead
<1>11. OpOK'
  BY <1>2, <1>6, <1>7, <1>10 DEF OpOK
<1> QED BY <1>3, <1>11, ReadsStep

\* The keys that the trap left out have all been read, and the check ends.
LEMMA ReadMissingStep == ASSUME IndInv, ReadMissing PROVE IndInv'
<1>1. OpOK
  BY InProgress DEF ReadMissing
<1>2. op.m = "keys" /\ KeysRead /\ op.x = {} /\ op.ext \in BOOLEAN /\ Holds(facts, base)
  BY <1>1 DEF ReadMissing, OpOK, OpInputs, IndInv
<1>3. Checked(op.ext \/ op.r \subseteq op.p)
  BY DEF ReadMissing
<1>4. op.ext \/ op.r \subseteq op.p => Sound(base, op.r)
  <2> SUFFICES ASSUME op.ext \/ op.r \subseteq op.p PROVE Sound(base, op.r)
    OBVIOUS
  <2>1. facts.stuck \subseteq op.r
    BY <1>2 DEF KeysRead
  <2>2. facts.nonExt => op.r \subseteq op.p /\ DOMAIN base.props \subseteq op.r
    BY <1>2 DEF KeysRead
  <2>3. facts.absent \intersect op.r = {}
    BY <1>2, <2>2 DEF KeysRead, Holds
  <2> QED BY <1>2, <2>1, <2>2, <2>3, KeysSound
<1> QED BY <1>2, <1>3, <1>4, CheckedSound

\* A name that the client relies on is never among those let pass.
LEMMA ReadNextMissingStep == ASSUME ~AnyResult, IndInv, ReadNextMissing PROVE IndInv'
<1>1. OpOK
  BY InProgress DEF ReadNextMissing
<1>2. op.m = "keys" /\ KeysRead /\ op.ext \in BOOLEAN /\ Holds(facts, base) /\ IsObject(base) /\ IsFacts(facts)
  BY <1>1 DEF ReadNextMissing, OpOK, OpInputs, IndInv
<1>3. PICK n : IF ~op.ext THEN Throws
               ELSE \E p \in targetGetOwnProp(n) : IF p = Absent \/ p.c THEN Reads([op EXCEPT !.x = @ \ {n}]) ELSE Throws
  BY DEF ReadNextMissing
<1>4. CASE Throws
  BY <1>4 DEF Throws, IndInv, NeverContradicted, Holds, IsFacts, IsObject
<1>5. CASE op.ext /\ \E p \in targetGetOwnProp(n) : (p = Absent \/ p.c) /\ Reads([op EXCEPT !.x = @ \ {n}])
  <2>1. PICK p \in targetGetOwnProp(n) : (p = Absent \/ p.c) /\ Reads([op EXCEPT !.x = @ \ {n}])
    BY <1>5
  <2>2. n \notin facts.stuck
    BY <1>2, <2>1, ReadReported DEF Reported
  <2>3. op' = [op EXCEPT !.x = @ \ {n}] /\ UNCHANGED <<base, facts>>
    BY <2>1 DEF Reads
  <2>4. op = [m |-> op.m, n |-> op.n, x |-> op.x, r |-> op.r, stage |-> op.stage, p |-> op.p, ext |-> op.ext] /\ op.stage = "keys"
    BY <1>1 DEF OpOK, OpInputs, ReadNextMissing
  <2>5. /\ op' = [m |-> op.m, n |-> op.n, x |-> op.x \ {n}, r |-> op.r, stage |-> op.stage, p |-> op.p, ext |-> op.ext]
        /\ op'.m = op.m /\ op'.n = op.n /\ op'.x = op.x \ {n} /\ op'.r = op.r /\ op'.stage = "keys" /\ op'.p = op.p /\ op'.ext = op.ext
    BY <2>3, <2>4
  <2>6. OpInputs'
    BY <1>1, <1>2, <2>5 DEF OpOK, OpInputs
  <2>7. KeysRead'
    BY <1>2, <1>5, <2>2, <2>3, <2>5 DEF KeysRead
  <2>8. OpOK'
    BY <1>2, <2>5, <2>6, <2>7 DEF OpOK
  <2> QED BY <2>1, <2>8, ReadsStep
<1> QED BY <1>2, <1>3, <1>4, <1>5

\* An operation without a trap goes to the target.
LEMMA UntrappedStep == ASSUME IndInv, Untrapped PROVE IndInv'
<1>1. OpOK
  BY InProgress DEF Untrapped
<1>2. IsObject(base) /\ IsFacts(facts) /\ Holds(facts, base) /\ base.ext \in BOOLEAN
  BY DEF IndInv, IsObject
<1>3. Own(op.n) = OwnOf(base, op.n) /\ Reported(facts, base, op.n, Own(op.n)) /\ Own(op.n) \in AnyProp
  <2>1. Own(op.n) = OwnOf(base, op.n)
    BY DEF Own, OwnOf
  <2> QED BY <1>2, <2>1, OwnReported DEF Reported
<1>4. ASSUME NEW r, Asked(r), Sound(base, op.r)
      PROVE  IndInv'
  <2>1. op.r = r /\ Answered(r) /\ base' = base
    BY <1>4 DEF Asked
  <2> QED BY <1>2, <1>4, <2>1, EvolvesToItself, AnsweredSound
<1>5. ASSUME NEW r \in BOOLEAN, NEW b, Directly(r, b), op.r \in BOOLEAN,
             op.m \in {"define", "setProto", "preventExtensions", "delete"},
             r => Evolves(base, b) /\ Sound(b, op.r)
      PROVE  IndInv'
  <2>1. op.r = r /\ Answered(r) /\ base' = IF r THEN b ELSE base
    BY <1>5 DEF Directly
  <2>2. CASE r
    BY <1>5, <2>1, <2>2, AnsweredSound
  <2>3. CASE ~r
    <3>1. Sound(base, op.r)
      BY <1>5, <2>1, <2>3, RefusalSound
    <3> QED BY <1>2, <2>1, <2>3, <3>1, EvolvesToItself, AnsweredSound
  <2> QED BY <2>2, <2>3
<1>6. op.m \in Named => op.n \in PropNames
  BY <1>1 DEF OpOK, OpInputs
<1>7. CASE op.m = "getOwn" /\ Asked(Own(op.n))
  <2>1. op.r = Own(op.n)
    BY <1>7 DEF Asked
  <2>2. Sound(base, op.r)
    BY <1>3, <1>6, <1>7, <2>1, GetOwnSound DEF Named
  <2> QED BY <1>4, <1>7, <2>2
<1>8. CASE op.m = "has" /\ Asked(Own(op.n) # Absent)
  <2>1. op.r = (Own(op.n) # Absent) /\ op.r \in BOOLEAN
    BY <1>1, <1>8 DEF Asked, OpOK, OpInputs
  <2>2. CASE op.r
    <3>1. Sound(base, op.r)
      BY <1>8, <2>1, <2>2, RefusalSound
    <3> QED BY <1>4, <1>8, <3>1
  <2>3. CASE ~op.r
    <3>1. Own(op.n) = Absent
      BY <2>1, <2>3
    <3>2. Sound(base, op.r)
      BY <1>2, <1>3, <1>6, <1>8, <3>1, DenialSound DEF Named
    <3> QED BY <1>4, <1>8, <3>2
  <2> QED BY <2>1, <2>2, <2>3
<1>9. CASE op.m = "get" /\ Asked(Got(Own(op.n)))
  <2>1. op.r = Got(Own(op.n))
    BY <1>9 DEF Asked
  <2>2. proxyGetChecks(Own(op.n), op.r)
    <3>1. Own(op.n) # Absent => Own(op.n) \in Kept
      BY <1>3 DEF Reported
    <3>2. Own(op.n) # Absent /\ ~Own(op.n).acc => Own(op.n).get = NoFunc
      BY <3>1 DEF Kept
    <3> QED BY <1>3, <2>1, <3>2 DEF proxyGetChecks, Got, AnyProp
  <2> QED BY <1>2, <1>3, <1>4, <1>9, <2>2, GetSetSound
<1>10. CASE op.m = "keys" /\ Asked(DOMAIN base.props)
  <2>1. op.r = DOMAIN base.props
    BY <1>10 DEF Asked
  <2>2. facts.stuck \subseteq op.r /\ facts.absent \intersect op.r = {}
    BY <1>2, <2>1 DEF Holds
  <2> QED BY <1>4, <1>10, <2>1, <2>2, KeysSound
<1>11. CASE op.m = "proto" /\ Asked(base.proto)
  <2>1. base.proto = op.r
    BY <1>11 DEF Asked
  <2>2. Sound(base, op.r)
    BY <1>2, <1>11, <2>1, WholeSound
  <2> QED BY <1>4, <1>11, <2>2
<1>12. CASE op.m = "isExtensible" /\ Asked(base.ext)
  <2>1. base.ext = op.r
    BY <1>12 DEF Asked
  <2>2. Sound(base, op.r)
    BY <1>2, <1>12, <2>1, WholeSound
  <2> QED BY <1>4, <1>12, <2>2
<1>13. CASE op.m = "define" /\ Directly(isCompatiblePropertyDescriptor(base.ext, op.x, Own(op.n)), Defined(op.n, op.x))
  <2> DEFINE ok == isCompatiblePropertyDescriptor(base.ext, op.x, Own(op.n))
  <2>1. op.n \in PropNames /\ op.x \in Descs /\ op.r \in BOOLEAN
    BY <1>1, <1>6, <1>13 DEF OpOK, OpInputs, Named
  <2>2. ok \in BOOLEAN
    BY <1>2 DEF isCompatiblePropertyDescriptor
  <2>3. ASSUME ok PROVE Evolves(base, Defined(op.n, op.x)) /\ Sound(Defined(op.n, op.x), op.r)
    <3>1. /\ Evolves(base, Defined(op.n, op.x)) /\ op.n \in DOMAIN Defined(op.n, op.x).props
          /\ Defined(op.n, op.x).props[op.n] = Applied(Own(op.n), op.x)
      BY <1>2, <2>1, <2>3, DefinedEvolves
    <3>2. op.x.c = {FALSE} => ~Applied(Own(op.n), op.x).c
      <4>1. op.x.c = {FALSE} => Given(op.x.c, Own(op.n).c) = FALSE
        BY GivenTypes
      <4>2. Applied(Own(op.n), op.x).c = Given(op.x.c, Own(op.n).c)
        BY DEF Applied, Property
      <4> QED BY <4>1, <4>2
    <3>3. Supported(facts, Defined(op.n, op.x), TheAnswer(op.r))
      <4>1. PICK b : b = Defined(op.n, op.x)
        OBVIOUS
      <4>2. op.x.c = {FALSE} => op.n \in DOMAIN b.props /\ ~b.props[op.n].c
        BY <3>1, <3>2, <4>1
      <4>3. Supported(facts, b, TheAnswer(op.r))
        BY <1>13, <2>1, <4>2, AnswerFields DEF Supported
      <4> QED BY <4>1, <4>3
    <3>4. op.n \notin facts.absent
      BY <1>2, <1>3, <2>3 DEF Reported, Holds, isCompatiblePropertyDescriptor
    <3>5. op.n \in facts.stuck => op.x.c # {TRUE}
      BY <1>3, <2>3 DEF Reported, isCompatiblePropertyDescriptor
    <3>6. op.n \in DOMAIN facts.firm => isCompatiblePropertyDescriptor(TRUE, op.x, facts.firm[op.n])
      BY <1>2, <1>3, <2>1, <2>3, FirmCompatible
    <3>7. Agrees(facts, TheAnswer(op.r))
      BY <1>13, <3>4, <3>5, <3>6, AnswerFields DEF Agrees
    <3> QED BY <3>1, <3>3, <3>7 DEF Sound
  <2> HIDE DEF ok
  <2>4. Directly(ok, Defined(op.n, op.x))
    BY <1>13 DEF ok
  <2> QED BY <1>5, <1>13, <2>1, <2>2, <2>3, <2>4
<1>14. CASE op.m = "delete" /\ Directly(Own(op.n) = Absent \/ Own(op.n).c, Deleted(op.n))
  <2>1. op.n \in PropNames /\ op.r \in BOOLEAN
    BY <1>1, <1>6, <1>14 DEF OpOK, OpInputs, Named
  <2>2. ASSUME Own(op.n) = Absent \/ Own(op.n).c
        PROVE  Evolves(base, Deleted(op.n)) /\ Sound(Deleted(op.n), op.r)
    <3>1. op.n \in DOMAIN base.props => base.props[op.n].c
      <4>1. op.n \in DOMAIN base.props => Own(op.n) = base.props[op.n] /\ base.props[op.n] # Absent
        BY <1>2, AbsentIsNotKept DEF Own, IsObject
      <4> QED BY <2>2, <4>1
    <3>2. Evolves(base, Deleted(op.n)) /\ op.n \notin DOMAIN Deleted(op.n).props
      BY <1>2, <3>1, DeletedEvolves
    <3>3. op.n \notin facts.stuck
      BY <1>3, <2>2 DEF Reported
    <3>4. Agrees(facts, TheAnswer(op.r))
      BY <1>14, <3>3, AnswerFields DEF Agrees
    <3>5. Supported(facts, Deleted(op.n), TheAnswer(op.r))
      BY <1>14, <2>1, <3>2, AnswerFields DEF Supported
    <3> QED BY <3>2, <3>4, <3>5 DEF Sound
  <2>3. (Own(op.n) = Absent \/ Own(op.n).c) \in BOOLEAN
    OBVIOUS
  <2> QED BY <1>5, <1>14, <2>1, <2>2, <2>3
<1>15. CASE op.m = "setProto" /\ Directly(base.ext \/ base.proto = op.x, [base EXCEPT !.proto = op.x])
  <2>1. op.r \in BOOLEAN /\ op.x \in Protos
    BY <1>1, <1>15 DEF OpOK, OpInputs
  <2>2. ASSUME base.ext \/ base.proto = op.x
        PROVE  Evolves(base, [base EXCEPT !.proto = op.x]) /\ Sound([base EXCEPT !.proto = op.x], op.r)
    <3>1. PICK b : b = [base EXCEPT !.proto = op.x]
      OBVIOUS
    <3>2. Evolves(base, b)
      BY <1>2, <2>1, <2>2, <3>1, RestEvolves
    <3>3. Holds(facts, b)
      BY <1>2, <3>2, HoldsEvolves
    <3>4. b.proto = op.x
      BY <1>2, <3>1 DEF IsObject
    <3>5. Sound(b, op.r)
      BY <1>15, <2>1, <3>3, <3>4, WholeSound
    <3> QED BY <3>1, <3>2, <3>5
  <2>3. (base.ext \/ base.proto = op.x) \in BOOLEAN
    OBVIOUS
  <2> QED BY <1>5, <1>15, <2>1, <2>2, <2>3
<1>16. CASE op.m = "preventExtensions" /\ Directly(TRUE, [base EXCEPT !.ext = FALSE])
  <2>1. op.r \in BOOLEAN
    BY <1>1, <1>16 DEF OpOK, OpInputs
  <2>2. PICK b : b = [base EXCEPT !.ext = FALSE]
    OBVIOUS
  <2>3. Evolves(base, b)
    BY <1>2, <2>2, RestEvolves
  <2>4. Holds(facts, b)
    BY <1>2, <2>3, HoldsEvolves
  <2>5. ~b.ext
    BY <1>2, <2>2 DEF IsObject
  <2>6. Sound(b, op.r)
    BY <1>16, <2>1, <2>4, <2>5, WholeSound
  <2> QED BY <1>5, <1>16, <2>1, <2>2, <2>3, <2>6
<1> QED BY <1>7, <1>8, <1>9, <1>10, <1>11, <1>12, <1>13, <1>14, <1>15, <1>16 DEF Untrapped

\* The program changes the object at the end while a check is in progress.
LEMMA ChangesStep == ASSUME IndInv, Changes PROVE IndInv'
<1>1. IsObject(base) /\ IsFacts(facts) /\ Holds(facts, base)
  BY DEF IndInv
<1>2. UNCHANGED <<op, facts, answer>>
  BY DEF Changes
<1>3. Evolves(base, base')
  <2>1. ASSUME NEW n \in PropNames, NEW d \in Defs, isCompatiblePropertyDescriptor(base.ext, d, Own(n)), base' = Defined(n, d)
        PROVE  Evolves(base, base')
    BY <1>1, <2>1, DefinedEvolves, ProxyAssumption
  <2>2. ASSUME NEW n \in DOMAIN base.props, base.props[n].c, base' = Deleted(n)
        PROVE  Evolves(base, base')
    BY <1>1, <2>2, DeletedEvolves
  <2>3. CASE base.ext /\ base' = [base EXCEPT !.ext = FALSE]
    BY <1>1, <2>3, RestEvolves
  <2>4. ASSUME base.ext, NEW q \in Protos \ {base.proto}, base' = [base EXCEPT !.proto = q]
        PROVE  Evolves(base, base')
    BY <1>1, <2>4, RestEvolves
  <2> QED BY <2>1, <2>2, <2>3, <2>4 DEF Changes
<1>4. IsObject(base') /\ Holds(facts, base') /\ \A n, p : Reported(facts, base, n, p) => Reported(facts, base', n, p)
  BY <1>1, <1>3, HoldsEvolves DEF Evolves
<1>5. ASSUME OpOK PROVE OpOK'
  <2>1. OpInputs'
    BY <1>2, <1>5 DEF OpOK, OpInputs
  <2>2. op.stage = "prop" => op.m \in {"define", "has", "getOwn", "delete"} /\ Reported(facts, base', op.n, op.p)
    BY <1>4, <1>5 DEF OpOK
  <2>3. op.stage = "closed" => op.m \in {"proto", "setProto"} /\ ~base'.ext
    BY <1>3, <1>5 DEF OpOK, Evolves
  <2>4. op.stage = "keys" => KeysRead'
    <3> SUFFICES ASSUME op.stage = "keys" PROVE KeysRead'
      OBVIOUS
    <3>1. KeysRead
      BY <1>5 DEF OpOK
    <3>2. facts.nonExt => DOMAIN base'.props \subseteq DOMAIN base.props
      BY <1>1, <1>3 DEF Holds, Evolves
    <3> QED BY <1>2, <3>1, <3>2 DEF KeysRead
  <2> QED BY <1>2, <1>5, <2>1, <2>2, <2>3, <2>4 DEF OpOK, Reported
<1>6. op' = NoOp \/ OpOK'
  BY <1>2, <1>5 DEF IndInv
<1>7. IsFacts(facts') /\ Holds(facts', base') /\ NeverContradicted'
  BY <1>1, <1>2, <1>4 DEF IndInv, NeverContradicted
<1> QED BY <1>4, <1>6, <1>7 DEF IndInv, IsObject, IsFacts, Holds

\* IndInv is about base, op, facts and answer only.
LEMMA Unmoved == ASSUME IndInv, UNCHANGED <<base, op, facts, answer>> PROVE IndInv'
<1>1. /\ IsObject(base)' /\ IsFacts(facts)' /\ Holds(facts, base)' /\ NeverContradicted'
  BY DEF IndInv, IsObject, IsFacts, Holds, NeverContradicted
<1>2. OpOK => OpOK'
  BY DEF OpOK, OpInputs, KeysRead, Reported
<1> QED BY <1>1, <1>2 DEF IndInv

\* The invariant holds before the first operation.
LEMMA InitHolds == ASSUME ProxyInit PROVE IndInv
<1>1. IsObject(base) /\ op = NoOp /\ answer = Answer("none", 0, 0, TRUE, facts)
  BY ProxyAssumption DEF ProxyInit
<1>2. PICK e \in BOOLEAN : e = ~base.ext
  OBVIOUS
<1>3. facts = [nonExt |-> e, stuck |-> {}, firm |-> <<>>, absent |-> {}, proto |-> {}]
  BY <1>2 DEF ProxyInit, NoFacts
<1>4. DOMAIN <<>> = {} /\ <<>> \in [{} -> Kept]
  OBVIOUS
<1>5. IsFacts(facts)
  BY <1>3, <1>4 DEF IsFacts
<1>6. Holds(facts, base)
  BY <1>2, <1>3, <1>4 DEF Holds
<1>7. NeverContradicted
  <2>1. answer.m = "none"
    BY <1>1 DEF Answer
  <2> QED BY <2>1 DEF NeverContradicted, Agrees
<1> QED BY <1>1, <1>5, <1>6, <1>7 DEF IndInv

\* Every step preserves the invariant.
LEMMA NextHolds == ASSUME ~AnyResult, IndInv, [ProxyNext]_proxyVars PROVE IndInv'
<1>1. CASE Revoke
  <2>1. UNCHANGED <<base, op, facts, answer>>
    BY <1>1 DEF Revoke
  <2> QED BY <2>1, Unmoved
<1>2. CASE UNCHANGED proxyVars
  <2>1. UNCHANGED <<base, op, facts, answer>>
    BY <1>2 DEF proxyVars
  <2> QED BY <2>1, Unmoved
<1> QED
  BY <1>1, <1>2, BeginStep, FalsishStep, ReadPropStep, ReadExtensibleStep, ReadProtoStep, ReadKeysStep,
     ReadMissingStep, ReadNextMissingStep, UntrappedStep, ChangesStep DEF ProxyNext

-----------------------------------------------------------------------------
(* Theorems                                                                *)

\* The facts that a client relies on are true of the object at the end of the
\* chain of proxies, in every state, also while the checks of proxy.go are half
\* done and the program changes that object.  The objects that traps return are
\* candid.
THEOREM FactsAlwaysHold ==
    ASSUME ~AnyResult
    PROVE  ProxySpec => []Holds(facts, base)
<1>1. ProxyInit => IndInv
  BY InitHolds
<1>2. IndInv /\ [ProxyNext]_proxyVars => IndInv'
  BY NextHolds
<1>3. IndInv => Holds(facts, base)
  BY DEF IndInv
<1> QED BY <1>1, <1>2, <1>3, PTL DEF ProxySpec

\* Whatever the traps of a handler answer, as long as the objects that they return
\* are candid, no operation of proxyObject lets through an answer that contradicts
\* an earlier one: for any names, values, reports and descriptors, and however often
\* the program changes the object.
THEOREM NeverContradictedAlways ==
    ASSUME ~AnyResult
    PROVE  ProxySpec => []NeverContradicted
<1>1. ProxyInit => IndInv
  BY InitHolds
<1>2. IndInv /\ [ProxyNext]_proxyVars => IndInv'
  BY NextHolds
<1>3. IndInv => NeverContradicted
  BY DEF IndInv
<1> QED BY <1>1, <1>2, <1>3, PTL DEF ProxySpec

-----------------------------------------------------------------------------
(* Numbers and sets                                                        *)

\* A set of numbers that is not empty has a least one.
LEMMA Least ==
    ASSUME NEW S \in SUBSET Nat, NEW n \in S
    PROVE  \E m \in S : \A k \in S : m <= k
<1>1. PICK m \in S : \A k \in S : ~(<<k, m>> \in OpToRel(<, Nat))
  BY NatLessThanWellFounded, WFMin
<1>2. ASSUME NEW k \in S PROVE m <= k
  <2>1. ~(<<k, m>> \in OpToRel(<, Nat))
    BY <1>1
  <2> QED
    BY <2>1 DEF OpToRel
<1> QED
  BY <1>2

\* What Max returns.
LEMMA MaxIs ==
    ASSUME NEW S \in SUBSET Int, NEW m \in S, \A k \in S : k <= m
    PROVE  Max(S) = m
<1>1. m \in Int /\ \A k \in S : m >= k
  OBVIOUS
<1>2. ASSUME NEW x \in S, \A k \in S : x >= k PROVE x = m
  <2>1. x >= m /\ m >= x /\ x \in Int
    BY <1>1, <1>2
  <2> QED
    BY <1>1, <2>1
<1> QED
  BY <1>1, <1>2 DEF Max

\* What Min returns.
LEMMA MinIs ==
    ASSUME NEW S \in SUBSET Int, NEW m \in S, \A k \in S : m <= k
    PROVE  Min(S) = m
<1>1. m \in Int /\ \A k \in S : m <= k
  OBVIOUS
<1>2. ASSUME NEW x \in S, \A k \in S : x <= k PROVE x = m
  <2>1. x <= m /\ m <= x /\ x \in Int
    BY <1>1, <1>2
  <2> QED
    BY <1>1, <2>1
<1> QED
  BY <1>1, <1>2 DEF Min

\* Numbers that have a bound have a greatest.
LEMMA MaxOf ==
    ASSUME NEW S \in SUBSET Nat, NEW e \in S, NEW b \in Nat, \A k \in S : k <= b
    PROVE  Max(S) \in S /\ \A k \in S : k <= Max(S)
<1> DEFINE U == {u \in Nat : \A k \in S : k <= u}
<1>1. PICK m \in U : \A u \in U : m <= u
  <2>1. U \in SUBSET Nat /\ b \in U
    OBVIOUS
  <2> HIDE DEF U
  <2> QED
    BY <2>1, Least
<1>2. m \in S
  <2>1. SUFFICES ASSUME m \notin S PROVE FALSE
    OBVIOUS
  <2>2. \A k \in S : k <= m - 1
    BY <2>1
  <2>3. m - 1 \in Nat
    BY <2>2
  <2>4. m - 1 \in U
    BY <2>2, <2>3
  <2> QED
    BY <2>4, <1>1
<1>3. Max(S) = m
  BY <1>2, MaxIs
<1> QED
  BY <1>2, <1>3

\* f is what MapThenFoldSet defines for FoldLeft over n elements: F is the operator,
\* with what it is applied to at each index.
Folds(f, n, S, first, F) ==
    /\ f \in [SUBSET (1..n) -> S]
    /\ \A s \in SUBSET (1..n) : f[s] = IF s = {} THEN first ELSE F[<<Max(s), f[s \ {Max(s)}]>>]

\* There is such a function.
LEMMA FoldExists ==
    ASSUME NEW n \in Nat, NEW S, NEW first \in S, NEW F \in [(1..n) \X S -> S]
    PROVE  \E f : Folds(f, n, S, first, F)
<1> DEFINE Is(f, m) == \A s \in SUBSET (1..m) : f[s] = IF s = {} THEN first ELSE F[<<Max(s), f[s \ {Max(s)}]>>]
           Has(m) == \E f \in [SUBSET (1..m) -> S] : Is(f, m)
           B == {m \in 0..n : ~Has(m)}
<1>1. \A m \in 0..n : m \in B <=> ~Has(m)
  OBVIOUS
<1>2. SUFFICES ASSUME ~Has(n) PROVE FALSE
  BY <1>2 DEF Folds
<1>3. PICK m \in B : \A k \in B : m <= k
  <2>1. B \in SUBSET Nat
    OBVIOUS
  <2> HIDE DEF B, Has
  <2>2. n \in B
    BY <1>1, <1>2
  <2> QED
    BY <2>1, <2>2, Least
<1>4. m # 0
  <2>1. SUFFICES ASSUME m = 0 PROVE FALSE
    OBVIOUS
  <2>2. SUBSET (1..m) = {{}}
    BY <2>1
  <2>3. Is([s \in SUBSET (1..m) |-> first], m) /\ [s \in SUBSET (1..m) |-> first] \in [SUBSET (1..m) -> S]
    BY <2>2
  <2> QED
    BY <2>3
<1>5. m \in 1..n /\ m - 1 \in 0..n /\ m - 1 \notin B
  <2>1. m \in 0..n
    OBVIOUS
  <2> HIDE DEF B
  <2> QED
    BY <1>3, <1>4, <2>1
<1>6. PICK f \in [SUBSET (1..m - 1) -> S] : Is(f, m - 1)
  <2>1. Has(m - 1)
    <3> HIDE DEF B, Has
    <3> QED
      BY <1>1, <1>5
  <2> HIDE DEF Is
  <2> QED
    BY <2>1
<1> DEFINE g == [s \in SUBSET (1..m) |-> IF m \in s THEN F[<<m, f[s \ {m}]>>] ELSE f[s]]
<1>7. \A s \in SUBSET (1..m) : (m \in s => s \ {m} \in SUBSET (1..m - 1)) /\ (m \notin s => s \in SUBSET (1..m - 1))
  BY <1>5
<1>8. g \in [SUBSET (1..m) -> S]
  <2>1. ASSUME NEW s \in SUBSET (1..m) PROVE (IF m \in s THEN F[<<m, f[s \ {m}]>>] ELSE f[s]) \in S
    BY <1>5, <1>7
  <2> QED
    BY <2>1
<1>9. ASSUME NEW s \in SUBSET (1..m) PROVE g[s] = IF s = {} THEN first ELSE F[<<Max(s), g[s \ {Max(s)}]>>]
  <2>1. CASE m \in s
    <3>1. Max(s) = m
      <4>1. s \in SUBSET Int /\ \A k \in s : k <= m
        BY <1>5
      <4> QED
        BY <2>1, <4>1, MaxIs
    <3>2. g[s \ {m}] = f[s \ {m}]
      BY <2>1, <1>7
    <3> QED
      BY <2>1, <3>1, <3>2
  <2>2. CASE m \notin s
    <3>1. s \in SUBSET (1..m - 1) /\ g[s] = f[s]
      BY <1>7, <2>2
    <3>2. f[s] = IF s = {} THEN first ELSE F[<<Max(s), f[s \ {Max(s)}]>>]
      BY <3>1, <1>6
    <3>3. s \ {Max(s)} \in SUBSET (1..m) /\ m \notin s \ {Max(s)}
      BY <2>2
    <3>4. g[s \ {Max(s)}] = f[s \ {Max(s)}]
      BY <3>3
    <3> QED
      BY <3>1, <3>2, <3>4
  <2> QED
    BY <2>1, <2>2
<1>10. Is(g, m)
  BY <1>9
<1> HIDE DEF g
<1> QED
  BY <1>8, <1>10, <1>3

\* The same for sets that depend on how many elements were applied.
LEMMA FoldFamily ==
    ASSUME NEW n \in Nat, NEW K, NEW g, g[1..0] \in K[0],
           \A m \in 1..n : g[1..m - 1] \in K[m - 1] => g[1..m] \in K[m]
    PROVE  g[1..n] \in K[n]
<1> DEFINE B == {m \in 0..n : g[1..m] \notin K[m]}
<1>1. SUFFICES ASSUME n \in B PROVE FALSE
  OBVIOUS
<1>2. PICK m \in B : \A k \in B : m <= k
  <2>1. B \in SUBSET Nat
    OBVIOUS
  <2> HIDE DEF B
  <2> QED
    BY <1>1, <2>1, Least
<1>3. m \in 1..n /\ m - 1 \in 0..n /\ m - 1 \notin B
  BY <1>2
<1>4. g[1..m - 1] \in K[m - 1]
  BY <1>3
<1> QED
  BY <1>2, <1>3, <1>4

\* Indices from 1 on.
LEMMA Initial ==
    ASSUME NEW n \in Nat, NEW m \in 1..n
    PROVE  /\ 1..m \in SUBSET (1..n) /\ 1..m # {} /\ Max(1..m) = m
           /\ (1..m) \ {Max(1..m)} = 1..m - 1
<1>1. m \in 1..m /\ (\A k \in 1..m : k <= m) /\ 1..m \in SUBSET Int
  OBVIOUS
<1>2. Max(1..m) = m
  BY <1>1, MaxIs
<1> QED
  BY <1>1, <1>2

\* The greatest of indices.
LEMMA MaxWithin ==
    ASSUME NEW n \in Nat, NEW s \in SUBSET (1..n), s # {}
    PROVE  Max(s) \in 1..n /\ s \ {Max(s)} \in SUBSET (1..n)
<1>1. PICK e : e \in s
  OBVIOUS
<1>2. s \in SUBSET Nat /\ \A k \in s : k <= n
  OBVIOUS
<1>3. Max(s) \in s
  BY <1>1, <1>2, MaxOf
<1> QED
  BY <1>3

-----------------------------------------------------------------------------
(* Heaps                                                                   *)

Slices   == [id : Nat, len : Nat]
AnyTable == [values : UNION {[D -> AnyProp \ {Absent}] : D \in SUBSET Nat}, names : Slices, syms : Seq(Nat),
             lastSortedPropLen : Nat, idxPropCount : Nat, extensible : BOOLEAN, proto : Objects \union {Null}]
AnyIter  == [cur : Objects, s : Slices, idx : Nat, seen : SUBSET Int] \union {NoIter}
Iters    == Walk..Loops
Heaps    == [arr : UNION {[D -> Seq(Int)] : D \in SUBSET Nat}, objs : [Objects -> AnyTable], its : [Iters -> AnyIter]]

\* Every slice is within its array, and no two objects have the same one.  An array
\* that an iterator shares with an object is marked, and is shared with no other
\* iterator.  Of iterator x, which is about to be replaced, only that it has a slice
\* is known.
Memory(h, x) ==
    /\ 0 \in DOMAIN h.arr /\ h.arr[0] = <<>>
    /\ \A o \in Objects : Names(h, o).id \in DOMAIN h.arr /\ Names(h, o).len <= Cap(h, Names(h, o))
    /\ \A i \in Iters : h.its[i].s.id \in DOMAIN h.arr /\ h.its[i].s.len <= Cap(h, h.its[i].s)
    /\ \A o, q \in Objects : o # q /\ Names(h, o).id = Names(h, q).id => Names(h, o).id = 0
    /\ \A i \in Iters \ {x} : \A o \in Objects :
         h.its[i].s.id = Names(h, o).id /\ Names(h, o).id # 0 => namesMarkedForCopy(h, Names(h, o)) /\ Names(h, o).len > 0
    /\ \A i, j \in Iters \ {x} : i # j /\ h.its[i].s.id = h.its[j].s.id => h.its[i].s.id = 0

\* An iterator that is none of them, so that Memory(h, Nobody) is about all.
Nobody == -1

\* An object and its names are in g what they are in h.
Same(h, g, q) == g.objs[q] = h.objs[q] /\ Names(g, q) = Names(h, q) /\ NamesIn(g, Names(g, q)) = NamesIn(h, Names(h, q))

\* Only the names of o are others in g than in h.
Renamed(h, g, o) ==
    /\ g \in Heaps /\ g.its = h.its
    /\ g.objs = [h.objs EXCEPT ![o] = [@ EXCEPT !.names = Names(g, o)]]
    /\ \A q \in Objects \ {o} : Same(h, g, q)

\* Only o is another in g than in h.
Only(h, g, x, o) ==
    /\ g \in Heaps /\ Memory(g, x) /\ g.its = h.its
    /\ \A q \in Objects \ {o} : Same(h, g, q)

\* The parts of a heap.
LEMMA Parts ==
    ASSUME NEW h \in Heaps
    PROVE  /\ h = [arr |-> h.arr, objs |-> h.objs, its |-> h.its]
           /\ DOMAIN h.arr \in SUBSET Nat /\ h.arr \in [DOMAIN h.arr -> Seq(Int)]
           /\ h.objs \in [Objects -> AnyTable] /\ h.its \in [Iters -> AnyIter]
           /\ \A o \in Objects : h.objs[o] \in AnyTable /\ Names(h, o) \in Slices
           /\ \A i \in Iters : h.its[i] \in AnyIter /\ h.its[i].s \in Slices
<1>1. h = [arr |-> h.arr, objs |-> h.objs, its |-> h.its] /\ DOMAIN h.arr \in SUBSET Nat /\ h.arr \in [DOMAIN h.arr -> Seq(Int)]
      /\ h.objs \in [Objects -> AnyTable] /\ h.its \in [Iters -> AnyIter]
  BY DEF Heaps
<1>2. \A o \in Objects : h.objs[o] \in AnyTable /\ Names(h, o) \in Slices
  BY <1>1 DEF AnyTable, Names
<1>3. NoIter.s \in Slices
  BY DEF NoIter, Slice, Slices
<1>4. \A i \in Iters : h.its[i] \in AnyIter /\ h.its[i].s \in Slices
  BY <1>1, <1>3 DEF AnyIter
<1> QED
  BY <1>1, <1>2, <1>4

\* A heap of such parts.
LEMMA WholeHeap ==
    ASSUME NEW D \in SUBSET Nat, NEW arr \in [D -> Seq(Int)], NEW objs \in [Objects -> AnyTable], NEW its \in [Iters -> AnyIter]
    PROVE  [arr |-> arr, objs |-> objs, its |-> its] \in Heaps
  BY DEF Heaps

\* Other parts in a heap.
LEMMA Replaced ==
    ASSUME NEW h \in Heaps, NEW arr, NEW objs, NEW its
    PROVE  /\ [h EXCEPT !.arr = arr, !.objs = objs] = [arr |-> arr, objs |-> objs, its |-> h.its]
           /\ [h EXCEPT !.arr = arr]   = [arr |-> arr, objs |-> h.objs, its |-> h.its]
           /\ [h EXCEPT !.objs = objs] = [arr |-> h.arr, objs |-> objs, its |-> h.its]
           /\ [h EXCEPT !.its = its]   = [arr |-> h.arr, objs |-> h.objs, its |-> its]
<1>1. PICK A, B, C : h = [arr |-> A, objs |-> B, its |-> C] /\ A = h.arr /\ B = h.objs /\ C = h.its
  BY Parts
<1> DEFINE g == [h EXCEPT !.arr = arr, !.objs = objs]
<1>2. g.arr = arr /\ g.objs = objs /\ g.its = C /\ g = [k \in {"arr", "objs", "its"} |-> g[k]]
  BY <1>1
<1>3. g \in [arr : {arr}, objs : {objs}, its : {C}]
  BY <1>2
<1> HIDE DEF g
<1>4. g = [arr |-> arr, objs |-> objs, its |-> C]
  BY <1>2, <1>3
<1>5. [h EXCEPT !.arr = arr] = [arr |-> arr, objs |-> B, its |-> C]
  BY <1>1
<1>6. [h EXCEPT !.objs = objs] = [arr |-> A, objs |-> objs, its |-> C]
  BY <1>1
<1>7. [h EXCEPT !.its = its] = [arr |-> A, objs |-> B, its |-> its]
  BY <1>1
<1> QED
  BY <1>1, <1>4, <1>5, <1>6, <1>7 DEF g

\* An object with other names.
LEMMA OtherNames ==
    ASSUME NEW y \in AnyTable, NEW s \in Slices, NEW z, z = [y EXCEPT !.names = s]
    PROVE  z \in AnyTable /\ z.names = s /\ z.values = y.values /\ z.idxPropCount = y.idxPropCount
           /\ z.lastSortedPropLen = y.lastSortedPropLen
  BY DEF AnyTable

\* A fresh number is that of no slice.
LEMMA FreshIs ==
    ASSUME NEW h \in Heaps
    PROVE  /\ Fresh(h) \in Nat \ {0}
           /\ \A o \in Objects : Names(h, o).id # Fresh(h)
           /\ \A i \in Iters : h.its[i].s.id # Fresh(h)
<1>1. IsFiniteSet(Objects) /\ IsFiniteSet(Iters)
  BY PropertyTableAssumption, FS_Interval DEF Iters, Walk
<1>2. PICK A, B : A = {h.objs[o].names.id : o \in Objects} /\ B = {h.its[i].s.id : i \in Iters}
  OBVIOUS
<1>3. IsFiniteSet(A) /\ IsFiniteSet(B)
  <2>1. [o \in Objects |-> h.objs[o].names.id] \in Surjection(Objects, A)
    BY <1>2 DEF Surjection
  <2>2. [i \in Iters |-> h.its[i].s.id] \in Surjection(Iters, B)
    BY <1>2 DEF Surjection
  <2> QED
    BY <1>1, <2>1, <2>2, FS_Surjection
<1>4. Live(h) = {0} \union A \union B
  BY <1>2, Parts DEF Live
<1>5. IsFiniteSet(Live(h))
  <2>1. IsFiniteSet({0})
    BY FS_Singleton
  <2>2. IsFiniteSet({0} \union A)
    BY <1>3, <2>1, FS_Union
  <2>3. IsFiniteSet(({0} \union A) \union B)
    BY <1>3, <2>2, FS_Union
  <2> QED
    BY <1>4, <2>3
<1>6. PICK k \in Nat : k = Cardinality(Live(h))
  BY <1>5, FS_CardinalityType
<1>7. \E id \in 1..k + 1 : id \notin Live(h)
  <2>1. SUFFICES ASSUME 1..k + 1 \subseteq Live(h) PROVE FALSE
    OBVIOUS
  <2>2. Cardinality(1..k + 1) = k + 1
    BY FS_Interval
  <2>3. Cardinality(1..k + 1) <= k
    BY <1>5, <1>6, <2>1, FS_Subset
  <2> QED
    BY <2>2, <2>3
<1>8. Fresh(h) \in 1..k + 1 /\ Fresh(h) \notin Live(h)
  BY <1>6, <1>7 DEF Fresh
<1> QED
  BY <1>2, <1>4, <1>8 DEF Names

\* What a slice holds.
LEMMA SliceIs ==
    ASSUME NEW h \in Heaps, NEW s \in Slices, s.id \in DOMAIN h.arr, s.len <= Cap(h, s)
    PROVE  /\ Cap(h, s) \in Nat
           /\ NamesIn(h, s) \in Seq(Int) /\ Len(NamesIn(h, s)) = s.len
           /\ \A j \in 1..s.len : NamesIn(h, s)[j] = h.arr[s.id][j]
<1>1. h.arr[s.id] \in Seq(Int) /\ s.len \in Nat
  BY Parts DEF Slices
<1> QED
  BY <1>1 DEF NamesIn, Cap

\* Sequences that agree up to n begin with the same n elements.
LEMMA SameStart ==
    ASSUME NEW a \in Seq(Int), NEW b \in Seq(Int), NEW n \in Nat, n <= Len(a), n <= Len(b), \A j \in 1..n : a[j] = b[j]
    PROVE  SubSeq(a, 1, n) = SubSeq(b, 1, n)
  OBVIOUS
\* No other object uses array id, and if iterators do, it is marked.
Suits(h, x, o, id, array, len) ==
    /\ id \in Nat \ {0} /\ array \in Seq(Int) /\ len \in 0..Len(array)
    /\ \A q \in Objects \ {o} : Names(h, q).id # id
    /\ \A i \in Iters : h.its[i].s.id = id => h.its[i].s.len <= Len(array)
    /\ \A i \in Iters \ {x} : h.its[i].s.id = id => 0 < len /\ len < Len(array) /\ array[Len(array)] = Marker

\* The names of o are in such an array.
LEMMA UseArray ==
    ASSUME NEW h \in Heaps, NEW x, Memory(h, x), NEW o \in Objects, NEW id, NEW array, NEW len, Suits(h, x, o, id, array, len),
           NEW g, g = useArray(h, o, id, array, len)
    PROVE  /\ Memory(g, x) /\ Renamed(h, g, o)
           /\ NamesIn(g, Names(g, o)) = SubSeq(array, 1, len)
           /\ Names(g, o).len = len /\ Names(g, o).id = id /\ g.arr[id] = array /\ Cap(g, Names(g, o)) = Len(array)
<1>1. /\ id \in Nat \ {0} /\ array \in Seq(Int) /\ len \in 0..Len(array)
      /\ \A q \in Objects \ {o} : Names(h, q).id # id
      /\ \A i \in Iters : h.its[i].s.id = id => h.its[i].s.len <= Len(array)
      /\ \A i \in Iters \ {x} : h.its[i].s.id = id => 0 < len /\ len < Len(array) /\ array[Len(array)] = Marker
  BY DEF Suits
<1>2. PICK D, arr, objs : D = DOMAIN h.arr \union {id} /\ arr = [k \in D |-> IF k = id THEN array ELSE h.arr[k]]
                          /\ objs = [h.objs EXCEPT ![o] = [@ EXCEPT !.names = Slice(id, len)]]
  OBVIOUS
<1>3. g = [arr |-> arr, objs |-> objs, its |-> h.its]
  <2>1. g = [h EXCEPT !.arr = arr, !.objs = objs]
    BY <1>1, <1>2, Zenon DEF useArray
  <2> QED
    BY <1>1, <2>1, Replaced, ZenonT(60)
<1>4. D \in SUBSET Nat /\ arr \in [D -> Seq(Int)]
  BY <1>1, <1>2, Parts
<1>5. Slice(id, len) \in Slices /\ Slice(id, len).id = id /\ Slice(id, len).len = len
  BY <1>1 DEF Slice, Slices
<1>6. objs \in [Objects -> AnyTable] /\ objs[o] = [h.objs[o] EXCEPT !.names = Slice(id, len)]
      /\ objs[o].names = Slice(id, len) /\ \A q \in Objects \ {o} : objs[q] = h.objs[q]
  <2>1. PICK z : z = [h.objs[o] EXCEPT !.names = Slice(id, len)]
    OBVIOUS
  <2>2. h.objs \in [Objects -> AnyTable] /\ h.objs[o] \in AnyTable
    BY Parts
  <2>3. z \in AnyTable /\ z.names = Slice(id, len)
    BY <1>1, <1>5, <2>1, <2>2, OtherNames
  <2>4. objs = [h.objs EXCEPT ![o] = z]
    BY <1>1, <1>2, <2>1
  <2> QED
    BY <1>1, <2>1, <2>2, <2>3, <2>4
<1>7. g \in Heaps
  <2>1. h.its \in [Iters -> AnyIter] /\ objs \in [Objects -> AnyTable]
    BY <1>1, <1>6, Parts
  <2> QED
    BY <1>1, <1>3, <1>4, <2>1, WholeHeap, ZenonT(60)
<1>8. g.arr = arr /\ g.objs = objs /\ g.its = h.its
  BY <1>1, <1>3
<1>9. arr[id] = array /\ \A k \in DOMAIN h.arr : k # id => arr[k] = h.arr[k] /\ k \in DOMAIN arr
  BY <1>1, <1>2
<1>10. Names(g, o) = Slice(id, len) /\ \A q \in Objects \ {o} : Names(g, q) = Names(h, q)
  BY <1>1, <1>6, <1>8 DEF Names
<1>11. \A q \in Objects \ {o} : NamesIn(g, Names(g, q)) = NamesIn(h, Names(h, q)) /\ Cap(g, Names(g, q)) = Cap(h, Names(h, q))
                                /\ namesMarkedForCopy(g, Names(g, q)) = namesMarkedForCopy(h, Names(h, q))
  <2>1. \A q \in Objects \ {o} : Names(g, q) = Names(h, q) /\ g.arr[Names(g, q).id] = h.arr[Names(h, q).id]
    BY <1>1, <1>8, <1>9, <1>10 DEF Memory
  <2> QED
    BY <1>1, <2>1 DEF NamesIn, Cap, namesMarkedForCopy
<1>12. \A i \in Iters : g.its[i].s.id \in DOMAIN arr /\ g.its[i].s.len <= Cap(g, g.its[i].s)
  BY <1>1, <1>2, <1>8, <1>9 DEF Memory, Cap
<1>13. Memory(g, x)
  <2>1. 0 \in DOMAIN g.arr /\ g.arr[0] = <<>>
    BY <1>1, <1>8, <1>9 DEF Memory
  <2>2. \A q \in Objects : Names(g, q).id \in DOMAIN g.arr /\ Names(g, q).len <= Cap(g, Names(g, q))
    <3>1. id \in DOMAIN arr /\ len <= Len(array)
      BY <1>1, <1>2
    <3> QED
      BY <1>1, <1>5, <1>8, <1>9, <1>10, <1>11, <3>1 DEF Memory, Cap
  <2>3. \A i \in Iters : g.its[i].s.id \in DOMAIN g.arr /\ g.its[i].s.len <= Cap(g, g.its[i].s)
    BY <1>1, <1>8, <1>12 DEF Memory
  <2>4. \A p, q \in Objects : p # q /\ Names(g, p).id = Names(g, q).id => Names(g, p).id = 0
    BY <1>1, <1>5, <1>10 DEF Memory
  <2>5. \A i \in Iters \ {x} : \A q \in Objects :
          g.its[i].s.id = Names(g, q).id /\ Names(g, q).id # 0
             => namesMarkedForCopy(g, Names(g, q)) /\ Names(g, q).len > 0
    <3>1. ASSUME NEW i \in Iters \ {x}, g.its[i].s.id = id PROVE namesMarkedForCopy(g, Slice(id, len)) /\ len > 0
      BY <1>1, <1>5, <1>8, <1>9, <3>1 DEF namesMarkedForCopy, Cap
    <3> QED
      BY <1>1, <1>5, <1>8, <1>10, <1>11, <3>1 DEF Memory
  <2> QED
    BY <1>1, <1>8, <2>1, <2>2, <2>3, <2>4, <2>5 DEF Memory
<1>14. Renamed(h, g, o)
  <2>1. \A q \in Objects \ {o} : Same(h, g, q)
    BY <1>6, <1>8, <1>10, <1>11 DEF Same
  <2> QED
    BY <1>1, <1>2, <1>7, <1>8, <1>10, <2>1 DEF Renamed
<1> QED
  BY <1>1, <1>5, <1>8, <1>9, <1>10, <1>13, <1>14 DEF NamesIn, Cap

\* The rest of the record of o changes.
WithTable(h, o, y) == [h EXCEPT !.objs[o] = y]

\* Another record for an object, with the same names.
LEMMA OtherFields ==
    ASSUME NEW h \in Heaps, NEW x, Memory(h, x), NEW o \in Objects, NEW y \in AnyTable, y.names = h.objs[o].names,
           NEW g, g = WithTable(h, o, y)
    PROVE  /\ Only(h, g, x, o) /\ g.objs[o] = y
           /\ Names(g, o) = Names(h, o) /\ NamesIn(g, Names(g, o)) = NamesIn(h, Names(h, o))
<1>1. PICK arr, objs, its : arr = h.arr /\ objs = [h.objs EXCEPT ![o] = y] /\ its = h.its
  OBVIOUS
<1>2. g = [arr |-> arr, objs |-> objs, its |-> its]
  <2>1. g = [h EXCEPT !.objs = objs]
    BY <1>1, Zenon DEF WithTable
  <2> QED
    BY <1>1, <2>1, Replaced, ZenonT(60)
<1>3. g \in Heaps
  <2>1. PICK D : D = DOMAIN arr
    OBVIOUS
  <2>2. D \in SUBSET Nat /\ arr \in [D -> Seq(Int)] /\ objs \in [Objects -> AnyTable] /\ its \in [Iters -> AnyIter]
    BY <1>1, <2>1, Parts
  <2> QED
    BY <1>2, <2>2 DEF Heaps
<1>4. g.its = h.its /\ g.arr = h.arr /\ g.objs = objs /\ objs[o] = y /\ \A q \in Objects \ {o} : objs[q] = h.objs[q]
  BY <1>1, <1>2, Parts
<1>5. \A q \in Objects : Names(g, q) = Names(h, q)
  BY <1>4 DEF Names
<1>6. Memory(g, x)
  BY <1>4, <1>5 DEF Memory, Cap, namesMarkedForCopy
<1>7. \A q \in Objects : NamesIn(g, Names(g, q)) = NamesIn(h, Names(h, q))
  BY <1>4, <1>5 DEF NamesIn
<1>8. \A q \in Objects \ {o} : Same(h, g, q)
  BY <1>4, <1>5, <1>7 DEF Same
<1> QED
  BY <1>3, <1>4, <1>5, <1>6, <1>7, <1>8 DEF Only

\* What stays as it is when names are replaced.
LEMMA Others ==
    ASSUME NEW h \in Heaps, NEW o \in Objects, NEW g, Renamed(h, g, o)
    PROVE  /\ g \in Heaps /\ g.its = h.its
           /\ g.objs[o].values = h.objs[o].values /\ g.objs[o].idxPropCount = h.objs[o].idxPropCount
           /\ g.objs[o].lastSortedPropLen = h.objs[o].lastSortedPropLen
<1>1. h.objs \in [Objects -> AnyTable] /\ h.objs[o] \in AnyTable
  BY Parts
<1>2. g \in Heaps /\ Names(g, o) \in Slices
  BY Parts DEF Renamed
<1>3. PICK z : z = [h.objs[o] EXCEPT !.names = Names(g, o)]
  OBVIOUS
<1>4. g.objs = [h.objs EXCEPT ![o] = z]
  BY <1>3 DEF Renamed
<1>5. z.values = h.objs[o].values /\ z.idxPropCount = h.objs[o].idxPropCount /\ z.lastSortedPropLen = h.objs[o].lastSortedPropLen
  BY <1>1, <1>2, <1>3, OtherNames
<1> QED
  BY <1>1, <1>2, <1>3, <1>4, <1>5 DEF Renamed

\* Names replaced twice.
LEMMA Twice ==
    ASSUME NEW h \in Heaps, NEW o \in Objects, NEW g, Renamed(h, g, o), NEW f, Renamed(g, f, o)
    PROVE  Renamed(h, f, o)
<1>1. h.objs \in [Objects -> AnyTable] /\ h.objs[o] \in AnyTable /\ Names(f, o) \in Slices /\ Names(g, o) \in Slices
  BY Parts DEF Renamed
<1>2. PICK y, z : y = [h.objs[o] EXCEPT !.names = Names(g, o)] /\ z = [h.objs[o] EXCEPT !.names = Names(f, o)]
  OBVIOUS
<1>3. [y EXCEPT !.names = Names(f, o)] = z
  BY <1>1, <1>2 DEF AnyTable
<1>4. g.objs = [h.objs EXCEPT ![o] = y] /\ f.objs = [g.objs EXCEPT ![o] = [@ EXCEPT !.names = Names(f, o)]]
  BY <1>2 DEF Renamed
<1>5. g.objs[o] = y
  BY <1>1, <1>4
<1>6. f.objs = [h.objs EXCEPT ![o] = z]
  BY <1>1, <1>3, <1>4, <1>5
<1>7. g.its = h.its /\ f.its = g.its /\ f \in Heaps
  BY DEF Renamed
<1>8. \A q \in Objects \ {o} : Same(h, f, q)
  BY DEF Renamed, Same
<1> QED
  BY <1>2, <1>6, <1>7, <1>8 DEF Renamed

\* Names in a new array, with blanks after them.
LEMMA Copied ==
    ASSUME NEW h \in Heaps, NEW x, Memory(h, x), NEW o \in Objects, NEW names \in Seq(Int), NEW cap \in Nat,
           NEW g, g = copyNames(h, o, names, cap)
    PROVE  /\ Memory(g, x) /\ Renamed(h, g, o)
           /\ NamesIn(g, Names(g, o)) = names /\ Names(g, o).len = Len(names)
           /\ ~namesMarkedForCopy(g, Names(g, o))
<1>1. PICK m \in Nat : m = IF cap > Len(names) THEN cap - Len(names) ELSE 0
  <2>1. (IF cap > Len(names) THEN cap - Len(names) ELSE 0) \in Nat
    OBVIOUS
  <2> QED
    BY <2>1
<1>2. PICK blanks : blanks = [i \in 1..m |-> Blank]
  OBVIOUS
<1>3. blanks \in Seq(Int) /\ Len(blanks) = m /\ blanks = [i \in 1..cap - Len(names) |-> Blank]
  <2>1. 1..m = 1..cap - Len(names)
    BY <1>1
  <2> QED
    BY <1>1, <1>2, <2>1 DEF Blank
<1>4. PICK array : array = names \o blanks
  OBVIOUS
<1>5. array \in Seq(Int) /\ Len(names) \in 0..Len(array) /\ Len(array) = Len(names) + m
      /\ \A j \in 1..Len(array) : array[j] = IF j <= Len(names) THEN names[j] ELSE Blank
  <2>1. blanks \in Seq(Int) /\ Len(blanks) = m /\ \A j \in 1..m : blanks[j] = Blank
    BY <1>2, <1>3
  <2>2. blanks \in Seq(Int)
    BY <2>1
  <2>3. array \in Seq(Int) /\ Len(array) = Len(names) + Len(blanks)
    BY <1>4, <2>2
  <2>4. \A j \in 1..Len(array) : array[j] = IF j <= Len(names) THEN names[j] ELSE blanks[j - Len(names)]
    BY <1>4, <2>2
  <2>5. ASSUME NEW j \in 1..Len(array) PROVE array[j] = IF j <= Len(names) THEN names[j] ELSE Blank
    <3>1. j > Len(names) => j - Len(names) \in 1..m
      BY <1>1, <2>1, <2>3
    <3> QED
      BY <2>1, <2>4, <3>1
  <2> QED
    BY <1>1, <2>1, <2>3, <2>5
<1>6. PICK id, len : id = Fresh(h) /\ len = Len(names)
  OBVIOUS
<1>7. id \in Nat \ {0} /\ (\A q \in Objects : Names(h, q).id # id) /\ (\A i \in Iters : h.its[i].s.id # id)
  BY <1>6, FreshIs
<1>8. g = useArray(h, o, id, array, len) /\ len \in 0..Len(array)
  BY <1>3, <1>4, <1>5, <1>6 DEF copyNames
<1>12. Suits(h, x, o, id, array, len)
  BY <1>5, <1>7, <1>8 DEF Suits
<1>9. /\ Memory(g, x) /\ Renamed(h, g, o) /\ NamesIn(g, Names(g, o)) = SubSeq(array, 1, len)
      /\ Names(g, o).len = len /\ Names(g, o).id = id /\ g.arr[id] = array /\ Cap(g, Names(g, o)) = Len(array)
  <2>1. g = useArray(h, o, id, array, len)
    BY <1>8
  <2>2. Memory(g, x) /\ Renamed(h, g, o) /\ NamesIn(g, Names(g, o)) = SubSeq(array, 1, len)
    BY <1>12, <2>1, UseArray
  <2>3. Names(g, o).len = len /\ Names(g, o).id = id /\ g.arr[id] = array /\ Cap(g, Names(g, o)) = Len(array)
    BY <1>12, <2>1, UseArray
  <2> QED
    BY <2>2, <2>3
<1>10. SubSeq(array, 1, len) = names
  BY <1>5, <1>6
<1>11. ~namesMarkedForCopy(g, Names(g, o))
  <2>1. SUFFICES ASSUME namesMarkedForCopy(g, Names(g, o)) PROVE FALSE
    OBVIOUS
  <2>2. Len(array) > len /\ array[Len(array)] = Marker
    BY <1>9, <2>1 DEF namesMarkedForCopy
  <2> QED
    BY <1>5, <1>6, <2>2 DEF Marker, Blank
<1> QED
  BY <1>6, <1>9, <1>10, <1>11

\* Names in the array that there is, which no iterator shares unless the marker remains.
LEMMA InPlace ==
    ASSUME NEW h \in Heaps, NEW x, Memory(h, x), NEW o \in Objects, Cap(h, Names(h, o)) > 0,
           NEW array \in Seq(Int), Len(array) = Cap(h, Names(h, o)), NEW len \in 0..Len(array),
           namesMarkedForCopy(h, Names(h, o)) => 0 < len /\ len < Len(array) /\ array[Len(array)] = Marker,
           NEW g, g = useArray(h, o, Names(h, o).id, array, len)
    PROVE  /\ Memory(g, x) /\ Renamed(h, g, o)
           /\ NamesIn(g, Names(g, o)) = SubSeq(array, 1, len)
           /\ Names(g, o).len = len /\ Cap(g, Names(g, o)) = Len(array) /\ Names(g, o).id = Names(h, o).id
           /\ g.arr[Names(g, o).id] = array
<1>1. PICK id : id = Names(h, o).id
  OBVIOUS
<1>2. id \in Nat \ {0}
  <2>1. id \in Nat
    BY <1>1, Parts DEF Slices
  <2>2. id # 0
    BY <1>1 DEF Cap, Memory
  <2> QED
    BY <2>1, <2>2
<1>3. \A q \in Objects \ {o} : Names(h, q).id # id
  BY <1>1, <1>2 DEF Memory
<1>4. \A i \in Iters : h.its[i].s.id = id => h.its[i].s.len <= Len(array)
  BY <1>1 DEF Memory, Cap
<1>5. \A i \in Iters \ {x} : h.its[i].s.id = id => 0 < len /\ len < Len(array) /\ array[Len(array)] = Marker
  BY <1>1, <1>2 DEF Memory
<1>6. g = useArray(h, o, id, array, len)
  BY <1>1
<1>7. Suits(h, x, o, id, array, len)
  BY <1>2, <1>3, <1>4, <1>5 DEF Suits
<1>8. Memory(g, x) /\ Renamed(h, g, o) /\ NamesIn(g, Names(g, o)) = SubSeq(array, 1, len)
  BY <1>6, <1>7, UseArray
<1>9. Names(g, o).len = len /\ Names(g, o).id = id /\ g.arr[id] = array /\ Cap(g, Names(g, o)) = Len(array)
  BY <1>6, <1>7, UseArray
<1> QED
  BY <1>1, <1>8, <1>9

\* The last slot of the array of o is taken only when nobody else reads.
LEMMA CopiedIfNeeded ==
    ASSUME NEW h \in Heaps, NEW x, Memory(h, x), NEW o \in Objects, NEW g, g = copyNamesIfNeeded(h, o)
    PROVE  /\ Memory(g, x) /\ Renamed(h, g, o) /\ Names(g, o).len = Names(h, o).len
           /\ NamesIn(g, Names(g, o)) = NamesIn(h, Names(h, o))
           /\ namesMarkedForCopy(g, Names(g, o)) => Names(g, o).len + 1 < Cap(g, Names(g, o))
<1>1. PICK s : s = Names(h, o)
  OBVIOUS
<1>2. s \in Slices /\ s.len \in Nat /\ s.id \in DOMAIN h.arr /\ s.len <= Cap(h, s)
  BY <1>1, Parts DEF Slices, Memory
<1>3. Cap(h, s) \in Nat /\ NamesIn(h, s) \in Seq(Int) /\ Len(NamesIn(h, s)) = s.len
  BY <1>2, SliceIs
<1>4. CASE namesMarkedForCopy(h, s) /\ s.len + 1 >= Cap(h, s)
  <2>1. PICK cap : cap = IF s.len + 2 > Cap(h, s) THEN growCap(s.len + 2, Cap(h, s)) ELSE Cap(h, s)
    OBVIOUS
  <2>2. cap \in Nat
    BY <1>2, <1>3, <2>1 DEF growCap
  <2>3. g = copyNames(h, o, NamesIn(h, s), cap)
    BY <1>1, <1>4, <2>1 DEF copyNamesIfNeeded
  <2>4. Memory(g, x) /\ Renamed(h, g, o) /\ NamesIn(g, Names(g, o)) = NamesIn(h, s)
    BY <1>3, <2>2, <2>3, Copied
  <2>5. Names(g, o).len = s.len /\ ~namesMarkedForCopy(g, Names(g, o))
    BY <1>3, <2>2, <2>3, Copied
  <2> QED
    BY <1>1, <2>4, <2>5
<1>5. CASE ~(namesMarkedForCopy(h, s) /\ s.len + 1 >= Cap(h, s))
  <2>1. g = h
    BY <1>1, <1>5 DEF copyNamesIfNeeded
  <2>2. h.objs = [h.objs EXCEPT ![o] = [@ EXCEPT !.names = Names(h, o)]]
    <3>1. h.objs[o] \in AnyTable /\ h.objs \in [Objects -> AnyTable]
      BY Parts
    <3>2. [h.objs[o] EXCEPT !.names = h.objs[o].names] = h.objs[o]
      BY <3>1 DEF AnyTable
    <3> QED
      BY <3>1, <3>2 DEF Names
  <2>3. Renamed(h, g, o)
    BY <2>1, <2>2 DEF Renamed, Same
  <2> QED
    BY <1>1, <1>2, <1>3, <1>5, <2>1, <2>3
<1> QED
  BY <1>4, <1>5

\* append adds a name.
LEMMA Appended ==
    ASSUME NEW h \in Heaps, NEW x, Memory(h, x), NEW o \in Objects, NEW n \in Nat,
           namesMarkedForCopy(h, Names(h, o)) => Names(h, o).len + 1 < Cap(h, Names(h, o)),
           NEW g, g = appendNow(h, o, n)
    PROVE  Memory(g, x) /\ Renamed(h, g, o) /\ NamesIn(g, Names(g, o)) = Append(NamesIn(h, Names(h, o)), n)
<1>1. PICK s : s = Names(h, o)
  OBVIOUS
<1>2. s \in Slices /\ s.len \in Nat /\ s.id \in DOMAIN h.arr /\ s.len <= Cap(h, s)
  BY <1>1, Parts DEF Slices, Memory
<1>3. Cap(h, s) \in Nat /\ NamesIn(h, s) \in Seq(Int) /\ Len(NamesIn(h, s)) = s.len
      /\ \A j \in 1..s.len : NamesIn(h, s)[j] = h.arr[s.id][j]
  BY <1>2, SliceIs
<1>4. g = append(h, o, s, n)
  BY <1>1 DEF appendNow
<1>5. CASE s.len < Cap(h, s)
  <2>1. PICK old, array : old = h.arr[s.id] /\ array = [old EXCEPT ![s.len + 1] = n]
    OBVIOUS
  <2>2. old \in Seq(Int) /\ Len(old) = Cap(h, s)
    BY <1>2, <2>1, Parts DEF Cap
  <2>3. array \in Seq(Int) /\ Len(array) = Cap(h, s) /\ array[s.len + 1] = n
        /\ \A j \in 1..Len(array) : j # s.len + 1 => array[j] = old[j]
    BY <1>2, <1>5, <2>1, <2>2
  <2>4. g = useArray(h, o, s.id, array, s.len + 1)
    BY <1>4, <1>5, <2>1 DEF append
  <2>5. ASSUME namesMarkedForCopy(h, s) PROVE 0 < s.len + 1 /\ s.len + 1 < Len(array) /\ array[Len(array)] = Marker
    <3>1. s.len + 1 < Len(array)
      BY <1>1, <2>3, <2>5
    <3>2. old[Len(array)] = Marker
      BY <2>1, <2>3, <2>5 DEF namesMarkedForCopy
    <3> QED
      BY <1>2, <1>3, <2>3, <3>1, <3>2
  <2>6. Cap(h, s) > 0 /\ s.len + 1 \in 0..Len(array)
    BY <1>2, <1>3, <1>5, <2>3
  <2>7. Memory(g, x) /\ Renamed(h, g, o) /\ NamesIn(g, Names(g, o)) = SubSeq(array, 1, s.len + 1)
    BY <1>1, <2>3, <2>4, <2>5, <2>6, InPlace, SMTT(30)
  <2>8. SubSeq(array, 1, s.len + 1) = Append(NamesIn(h, s), n)
    <3>1. \A j \in 1..s.len : array[j] = NamesIn(h, s)[j]
      BY <1>2, <1>3, <1>5, <2>1, <2>3
    <3> QED
      <4>1. PICK len, names : len = s.len /\ names = NamesIn(h, s)
        OBVIOUS
      <4>2. /\ len \in Nat /\ names \in Seq(Int) /\ Len(names) = len /\ len + 1 <= Len(array) /\ array[len + 1] = n
            /\ \A j \in 1..len : array[j] = names[j]
        BY <1>2, <1>3, <1>5, <2>3, <3>1, <4>1
      <4>3. SubSeq(array, 1, len + 1) \in Seq(Int) /\ Len(SubSeq(array, 1, len + 1)) = len + 1
            /\ \A j \in 1..len + 1 : SubSeq(array, 1, len + 1)[j] = array[j]
        BY <2>3, <4>2
      <4>4. Append(names, n) \in Seq(Int) /\ Len(Append(names, n)) = len + 1
            /\ \A j \in 1..len + 1 : Append(names, n)[j] = IF j <= len THEN names[j] ELSE n
        BY <4>2
      <4>5. \A j \in 1..len + 1 : SubSeq(array, 1, len + 1)[j] = Append(names, n)[j]
        BY <4>2, <4>3, <4>4
      <4>6. SubSeq(array, 1, len + 1) = Append(names, n)
        BY <4>2, <4>3, <4>4, <4>5
      <4> QED
        BY <4>1, <4>6
  <2> QED
    BY <1>1, <2>7, <2>8
<1>6. CASE ~(s.len < Cap(h, s))
  <2>1. PICK names, cap : names = Append(NamesIn(h, s), n) /\ cap = growCap(s.len + 1, Cap(h, s))
    OBVIOUS
  <2>2. names \in Seq(Int) /\ cap \in Nat
    BY <1>2, <1>3, <2>1 DEF growCap
  <2>3. g = copyNames(h, o, names, cap)
    BY <1>4, <1>6, <2>1 DEF append
  <2>4. Memory(g, x) /\ Renamed(h, g, o) /\ NamesIn(g, Names(g, o)) = names
    BY <2>2, <2>3, Copied
  <2> QED
    BY <1>1, <2>1, <2>4
<1> QED
  BY <1>5, <1>6

\* A name is added, whoever else reads the names.
LEMMA NameAppended ==
    ASSUME NEW h \in Heaps, NEW x, Memory(h, x), NEW o \in Objects, NEW n \in Nat, NEW g, g = appendName(h, o, n)
    PROVE  Memory(g, x) /\ Renamed(h, g, o) /\ NamesIn(g, Names(g, o)) = Append(NamesIn(h, Names(h, o)), n)
<1>1. PICK f : f = copyNamesIfNeeded(h, o)
  OBVIOUS
<1>2. /\ Memory(f, x) /\ Renamed(h, f, o) /\ NamesIn(f, Names(f, o)) = NamesIn(h, Names(h, o))
      /\ namesMarkedForCopy(f, Names(f, o)) => Names(f, o).len + 1 < Cap(f, Names(f, o))
  BY <1>1, CopiedIfNeeded
<1>3. f \in Heaps /\ g = appendNow(f, o, n)
  BY <1>1, <1>2 DEF appendName, Renamed
<1>4. Memory(g, x) /\ Renamed(f, g, o) /\ NamesIn(g, Names(g, o)) = Append(NamesIn(f, Names(f, o)), n)
  BY <1>2, <1>3, Appended
<1>5. Renamed(h, g, o)
  BY <1>2, <1>4, Twice
<1> QED
  BY <1>2, <1>4, <1>5

-----------------------------------------------------------------------------
(* The order of names                                                      *)

\* Where a name belongs: before it are smaller indices, and after it none.
LEMMA PlaceIs ==
    ASSUME NEW names \in Seq(Int), NEW c \in Nat, NEW i \in 1..Len(names), c < i, NEW k, k = placeOf(names, c, i)
    PROVE  /\ k \in 1..c + 1 /\ \A j \in 1..k - 1 : names[j] < names[i]
           /\ k <= c => names[k] >= names[i]
<1>1. PICK S : S = {j \in 1..c : names[j] >= names[i]} \union {c + 1}
  OBVIOUS
<1>2. S \in SUBSET Nat /\ S \in SUBSET Int /\ c + 1 \in S
  BY <1>1
<1>3. PICK m \in S : \A j \in S : m <= j
  BY <1>2, Least
<1>4. k = m
  BY <1>1, <1>2, <1>3, MinIs DEF placeOf
<1>5. m \in 1..c + 1 /\ (m <= c => names[m] >= names[i])
  BY <1>1, <1>3
<1>6. ASSUME NEW j \in 1..m - 1 PROVE names[j] < names[i]
  <2>1. j \in 1..c /\ j \notin S
    BY <1>3, <1>5
  <2>2. names[j] \in Int /\ names[i] \in Int
    BY <2>1
  <2> QED
    BY <1>1, <2>1, <2>2
<1> QED
  BY <1>4, <1>5, <1>6

\* What names are after one has moved.
IsMoved(m, names, len, i, k) ==
    /\ m \in [1..len -> Int] /\ m[k] = names[i]
    /\ \A j \in 1..len : j < k \/ i < j => m[j] = names[j]
    /\ \A j \in 1..len : k < j /\ j <= i => m[j] = names[j - 1]

\* What moveTo returns.
LEMMA MovedIs ==
    ASSUME NEW names \in Seq(Int), NEW len \in Nat, len = Len(names), NEW i \in 1..len, NEW k \in 1..i, NEW m, m = moveTo(names, i, k)
    PROVE  IsMoved(m, names, len, i, k) /\ m \in Seq(Int) /\ Len(m) = len
<1>1. \A j \in 1..len : (CASE j = k -> names[i] [] j > k /\ j <= i -> names[j - 1] [] OTHER -> names[j]) \in Int
  OBVIOUS
<1>2. m = [j \in 1..len |-> CASE j = k -> names[i] [] j > k /\ j <= i -> names[j - 1] [] OTHER -> names[j]]
  BY DEF moveTo
<1>3. m \in [1..len -> Int] /\ k \in 1..len
  BY <1>1, <1>2
<1>4. m \in Seq(Int) /\ Len(m) = len
  BY <1>3
<1>5. IsMoved(m, names, len, i, k)
  BY <1>2, <1>3 DEF IsMoved
<1> QED
  BY <1>4, <1>5

\* They are the same names.
LEMMA MovedKeeps ==
    ASSUME NEW len \in Nat, NEW names \in [1..len -> Int], NEW i \in 1..len, NEW k \in 1..i, NEW m, IsMoved(m, names, len, i, k),
           IsInjective(names)
    PROVE  Range(m) = Range(names) /\ IsInjective(m)
<1> DEFINE from(j) == IF j = k THEN i ELSE IF k < j /\ j <= i THEN j - 1 ELSE j
           to(j)   == IF j = i THEN k ELSE IF k <= j /\ j < i THEN j + 1 ELSE j
<1>1. ASSUME NEW j \in 1..len PROVE from(j) \in 1..len /\ m[j] = names[from(j)] /\ to(from(j)) = j
  <2>1. CASE j = k
    BY <2>1 DEF IsMoved
  <2>2. CASE k < j /\ j <= i
    BY <2>2 DEF IsMoved
  <2>3. CASE j < k \/ i < j
    BY <2>3 DEF IsMoved
  <2> QED
    BY <2>1, <2>2, <2>3
<1>2. \A j \in 1..len : to(j) \in 1..len /\ from(to(j)) = j
  OBVIOUS
<1>3. DOMAIN m = 1..len /\ DOMAIN names = 1..len
  BY DEF IsMoved
<1> HIDE DEF from, to
<1>4. \A j \in 1..len : m[to(j)] = names[j]
  BY <1>1, <1>2
<1>5. Range(m) \subseteq Range(names)
  BY <1>1, <1>3 DEF Range
<1>6. Range(names) \subseteq Range(m)
  BY <1>2, <1>3, <1>4 DEF Range
<1>7. ASSUME NEW a \in DOMAIN m, NEW b \in DOMAIN m, m[a] = m[b] PROVE a = b
  <2>1. names[from(a)] = names[from(b)] /\ from(a) \in DOMAIN names /\ from(b) \in DOMAIN names
    BY <1>1, <1>3, <1>7
  <2>2. from(a) = from(b)
    BY <2>1 DEF IsInjective
  <2> QED
    BY <1>1, <1>3, <2>2
<1> QED
  BY <1>5, <1>6, <1>7 DEF IsInjective

\* A name that is an index goes to its place among those in order.
LEMMA IndexPlaced ==
    ASSUME NEW len \in Nat, NEW names \in [1..len -> Int], IsInjective(names), NEW c \in Nat, NEW i \in 1..len, c < i,
           \A j \in 1..i - 1 : IsIndex(names[j]) <=> j <= c, \A j \in 2..c : names[j - 1] < names[j], IsIndex(names[i]),
           NEW k \in 1..c + 1, \A j \in 1..k - 1 : names[j] < names[i], k <= c => names[k] >= names[i],
           NEW m, IsMoved(m, names, len, i, k)
    PROVE  /\ \A j \in 1..i : IsIndex(m[j]) <=> j <= c + 1
           /\ \A j \in 2..c + 1 : m[j - 1] < m[j]
<1>1. k \in 1..i /\ k \in 1..len /\ c + 1 <= len
  OBVIOUS
<1>2. m[k] = names[i] /\ m \in [1..len -> Int]
  BY DEF IsMoved
<1>3. ASSUME NEW j \in 1..len, j < k \/ i < j PROVE m[j] = names[j]
  BY <1>3 DEF IsMoved
<1>4. ASSUME NEW j \in 1..len, k < j, j <= i PROVE m[j] = names[j - 1]
  BY <1>4 DEF IsMoved
<1>5. k <= c => names[i] < names[k]
  <2>1. SUFFICES ASSUME k <= c PROVE names[i] < names[k]
    OBVIOUS
  <2>2. k \in DOMAIN names /\ i \in DOMAIN names /\ k # i
    BY <2>1
  <2>3. names[k] # names[i] /\ names[k] \in Int /\ names[i] \in Int
    BY <2>2 DEF IsInjective
  <2> QED
    BY <2>1, <2>3
<1>6. ASSUME NEW j \in 1..i PROVE IsIndex(m[j]) <=> j <= c + 1
  <2>1. CASE j < k
    <3>1. m[j] = names[j] /\ j \in 1..i - 1 /\ j <= c
      BY <1>1, <1>3, <2>1
    <3> QED
      BY <3>1
  <2>2. CASE j = k
    BY <1>2, <2>2
  <2>3. CASE j > k
    <3>1. m[j] = names[j - 1] /\ j - 1 \in 1..i - 1
      BY <1>1, <1>4, <2>3
    <3>2. j <= c + 1 <=> j - 1 <= c
      OBVIOUS
    <3> QED
      BY <3>1, <3>2
  <2> QED
    BY <2>1, <2>2, <2>3
<1>7. ASSUME NEW j \in 2..c + 1 PROVE m[j - 1] < m[j]
  <2>0. j \in 1..len /\ j - 1 \in 1..len /\ j <= i
    BY <1>1
  <2>1. CASE j < k
    <3>1. m[j - 1] = names[j - 1] /\ m[j] = names[j] /\ j \in 2..c
      BY <1>3, <2>0, <2>1
    <3> QED
      BY <3>1
  <2>2. CASE j = k
    <3>1. m[j - 1] = names[j - 1] /\ j - 1 \in 1..k - 1
      BY <1>3, <2>0, <2>2
    <3> QED
      BY <1>2, <2>2, <3>1
  <2>3. CASE j = k + 1
    <3>1. m[j] = names[j - 1] /\ j - 1 = k /\ k <= c
      BY <1>4, <2>0, <2>3
    <3> QED
      BY <1>2, <1>5, <3>1
  <2>4. CASE j > k + 1
    <3>1. m[j - 1] = names[j - 1 - 1] /\ m[j] = names[j - 1] /\ j - 1 \in 2..c
      BY <1>4, <2>0, <2>4
    <3> QED
      BY <3>1
  <2> QED
    BY <2>1, <2>2, <2>3, <2>4
<1> QED
  BY <1>6, <1>7

\* What names are after one is removed.
IsWithout(rest, names, len, i) ==
    /\ rest \in [1..len - 1 -> Int]
    /\ \A j \in 1..len - 1 : j < i => rest[j] = names[j]
    /\ \A j \in 1..len - 1 : i <= j => rest[j] = names[j + 1]

\* What RemoveAt returns.
LEMMA RemovedIs ==
    ASSUME NEW names \in Seq(Int), NEW len \in Nat, len = Len(names), NEW i \in 1..len, NEW rest, rest = RemoveAt(names, i)
    PROVE  IsWithout(rest, names, len, i) /\ rest \in Seq(Int) /\ Len(rest) = len - 1
<1>1. PICK a, b : a = SubSeq(names, 1, i - 1) /\ b = SubSeq(names, i + 1, len)
  OBVIOUS
<1>2. a \in Seq(Int) /\ Len(a) = i - 1 /\ \A j \in 1..i - 1 : a[j] = names[j]
  BY <1>1
<1>3. b \in Seq(Int) /\ Len(b) = len - i /\ \A j \in 1..len - i : b[j] = names[i + j]
  BY <1>1
<1>4. rest = a \o b
  BY <1>1 DEF RemoveAt
<1>5. rest \in Seq(Int) /\ Len(rest) = len - 1
  BY <1>2, <1>3, <1>4
<1>6. ASSUME NEW j \in 1..len - 1, j < i PROVE rest[j] = names[j]
  <2>1. rest[j] = a[j]
    BY <1>2, <1>3, <1>4, <1>6
  <2> QED
    BY <1>2, <1>6, <2>1
<1>7. ASSUME NEW j \in 1..len - 1, i <= j PROVE rest[j] = names[j + 1]
  <2>1. PICK l \in 1..len - i : l = j - (i - 1)
    BY <1>7
  <2>2. rest[j] = b[l]
    <3>1. j \in 1..Len(a) + Len(b) /\ ~(j <= Len(a)) /\ j - Len(a) = l
      BY <1>2, <1>3, <1>7, <2>1
    <3>2. a \in Seq(Int) /\ b \in Seq(Int)
      BY <1>2, <1>3
    <3>3. (a \o b)[j] = b[j - Len(a)]
      BY <3>1, <3>2
    <3> QED
      BY <1>4, <3>1, <3>3
  <2>3. i + l = j + 1
    BY <2>1
  <2> QED
    BY <1>3, <2>2, <2>3
<1>8. rest \in [1..len - 1 -> Int]
  BY <1>5
<1> QED
  BY <1>5, <1>6, <1>7, <1>8 DEF IsWithout

\* The others are still there.
LEMMA RemovedKeeps ==
    ASSUME NEW len \in Nat, NEW names \in [1..len -> Int], IsInjective(names), NEW i \in 1..len, NEW rest, IsWithout(rest, names, len, i)
    PROVE  Range(rest) = Range(names) \ {names[i]} /\ IsInjective(rest)
<1> DEFINE from(j) == IF j < i THEN j ELSE j + 1
           to(j)   == IF j < i THEN j ELSE j - 1
<1>1. ASSUME NEW j \in 1..len - 1 PROVE from(j) \in 1..len /\ from(j) # i /\ rest[j] = names[from(j)] /\ to(from(j)) = j
  <2>1. CASE j < i
    BY <2>1 DEF IsWithout
  <2>2. CASE i <= j
    BY <2>2 DEF IsWithout
  <2> QED
    BY <2>1, <2>2
<1>2. \A j \in 1..len : j # i => to(j) \in 1..len - 1 /\ from(to(j)) = j
  OBVIOUS
<1>3. DOMAIN rest = 1..len - 1 /\ DOMAIN names = 1..len
  BY DEF IsWithout
<1> HIDE DEF from, to
<1>4. ASSUME NEW j \in DOMAIN rest PROVE rest[j] \in Range(names) \ {names[i]}
  <2>1. from(j) \in DOMAIN names /\ i \in DOMAIN names /\ from(j) # i /\ rest[j] = names[from(j)]
    BY <1>1, <1>3
  <2> QED
    BY <2>1 DEF Range, IsInjective
<1>5. ASSUME NEW j \in DOMAIN names, names[j] # names[i] PROVE names[j] \in Range(rest)
  <2>1. to(j) \in DOMAIN rest /\ from(to(j)) = j
    BY <1>2, <1>3, <1>5
  <2>2. rest[to(j)] = names[j]
    BY <1>1, <1>3, <2>1
  <2> QED
    BY <2>1, <2>2 DEF Range
<1>6. Range(rest) = Range(names) \ {names[i]}
  BY <1>4, <1>5 DEF Range
<1>7. ASSUME NEW a \in DOMAIN rest, NEW b \in DOMAIN rest, rest[a] = rest[b] PROVE a = b
  <2>1. names[from(a)] = names[from(b)] /\ from(a) \in DOMAIN names /\ from(b) \in DOMAIN names
    BY <1>1, <1>3, <1>7
  <2>2. from(a) = from(b)
    BY <2>1 DEF IsInjective
  <2> QED
    BY <1>1, <1>3, <2>2
<1> QED
  BY <1>6, <1>7 DEF IsInjective

\* The first of names are c indices, ascending.
Sorts(names, c, sorted) ==
    /\ \A j \in 1..sorted : IsIndex(names[j]) <=> j <= c
    /\ \A j \in 2..c : names[j - 1] < names[j]

\* The order of the names that remain.
LEMMA RemovedInOrder ==
    ASSUME NEW len \in Nat, NEW names \in [1..len -> Int], NEW i \in 1..len, NEW rest, IsWithout(rest, names, len, i),
           NEW c \in Nat, NEW sorted \in c..len, Sorts(names, c, sorted),
           NEW d, d = lowered(c, i, sorted), NEW e, e = lowered(sorted, i, sorted)
    PROVE  d \in Nat /\ e \in Nat /\ d <= e /\ e <= len - 1 /\ Sorts(rest, d, e)
<1>1. (\A j \in 1..sorted : IsIndex(names[j]) <=> j <= c) /\ \A j \in 2..c : names[j - 1] < names[j]
  BY DEF Sorts
<1>2. d <= e /\ e <= len - 1 /\ d \in Nat /\ e \in Nat /\ d = (IF i <= sorted /\ i <= c THEN c - 1 ELSE c)
      /\ e = (IF i <= sorted THEN sorted - 1 ELSE sorted)
  BY DEF lowered
<1>3. ASSUME NEW j \in 1..len - 1, j < i PROVE rest[j] = names[j]
  BY <1>3 DEF IsWithout
<1>4. ASSUME NEW j \in 1..len - 1, i <= j PROVE rest[j] = names[j + 1]
  BY <1>4 DEF IsWithout
<1>5. ASSUME NEW j \in 1..e PROVE IsIndex(rest[j]) <=> j <= d
  <2>1. CASE j < i
    <3>1. rest[j] = names[j] /\ j \in 1..sorted
      BY <1>2, <1>3, <2>1
    <3>2. j <= d <=> j <= c
      BY <1>2, <2>1, <3>1
    <3> QED
      BY <1>1, <3>1, <3>2
  <2>2. CASE i <= j
    <3>1. rest[j] = names[j + 1] /\ j + 1 \in 1..sorted /\ i <= sorted
      BY <1>2, <1>4, <2>2
    <3>2. j <= d <=> j + 1 <= c
      BY <1>2, <2>2, <3>1
    <3> QED
      BY <1>1, <3>1, <3>2
  <2> QED
    BY <2>1, <2>2
<1>6. ASSUME NEW j \in 2..d PROVE rest[j - 1] < rest[j]
  <2>0. j \in 1..len - 1 /\ j - 1 \in 1..len - 1 /\ j \in 2..c
    BY <1>2
  <2>1. CASE j < i
    <3>1. rest[j - 1] = names[j - 1] /\ rest[j] = names[j]
      BY <1>3, <2>0, <2>1
    <3> QED
      BY <1>1, <2>0, <3>1
  <2>2. CASE j = i
    <3>1. rest[j - 1] = names[j - 1] /\ rest[j] = names[j + 1] /\ j + 1 \in 2..c
      BY <1>2, <1>3, <1>4, <2>0, <2>2
    <3>2. names[j - 1] < names[j] /\ names[j] < names[j + 1]
      BY <1>1, <2>0, <3>1
    <3>3. names[j - 1] \in Int /\ names[j] \in Int /\ names[j + 1] \in Int
      BY <2>0
    <3> QED
      BY <3>1, <3>2, <3>3
  <2>3. CASE j > i
    <3>1. i <= j - 1 /\ i <= j /\ (j - 1) + 1 = j
      BY <2>0, <2>3
    <3>2. rest[j - 1] = names[j] /\ rest[j] = names[j + 1]
      BY <1>4, <2>0, <3>1
    <3>3. j + 1 \in 2..c /\ (j + 1) - 1 = j
      <4>1. j <= d /\ i <= d /\ d <= e
        BY <1>2, <2>3
      <4>2. c = d + 1
        BY <1>2, <4>1
      <4> QED
        BY <1>2, <4>1, <4>2
    <3> QED
      BY <1>1, <3>2, <3>3
  <2> QED
    BY <2>1, <2>2, <2>3
<1> QED
  BY <1>2, <1>5, <1>6 DEF Sorts

-----------------------------------------------------------------------------
(* Tables                                                                  *)

\* The names of o are those of its values, and the first of them are in order.
Ordered(h, o, sorted) ==
    LET names == NamesIn(h, Names(h, o))
    IN  Lists(names, h.objs[o].values) /\ InOrder(names, h.objs[o].idxPropCount, sorted)

Good(h, x) == h \in Heaps /\ Memory(h, x) /\ \A o \in Objects : Ordered(h, o, h.objs[o].lastSortedPropLen)

StaysGood(h, g, x) == Good(g, x) /\ g.its = h.its

\* A heap stays good if only one object changes, and is in order.
LEMMA KeptIf ==
    ASSUME NEW h, NEW x, Good(h, x), NEW o \in Objects, NEW g, Only(h, g, x, o), Ordered(g, o, g.objs[o].lastSortedPropLen)
    PROVE  StaysGood(h, g, x)
  BY DEF Good, Only, StaysGood, Ordered, Same

\* Two changes of one object.
LEMMA OnlyTwice ==
    ASSUME NEW h, NEW x, NEW o \in Objects, NEW g, Only(h, g, x, o), NEW f, Only(g, f, x, o)
    PROVE  Only(h, f, x, o)
  BY DEF Only, Same

\* To change the names of an object is to change only that object.
LEMMA OnlyRenamed ==
    ASSUME NEW h \in Heaps, NEW x, NEW o \in Objects, NEW g, Memory(g, x), Renamed(h, g, o)
    PROVE  Only(h, g, x, o)
<1>1. g \in Heaps /\ g.its = h.its
  BY Others
<1>2. \A q \in Objects \ {o} : Same(h, g, q)
  BY DEF Renamed
<1> QED
  BY <1>1, <1>2 DEF Only

\* What an object is made of.
LEMMA TableIs ==
    ASSUME NEW h \in Heaps, NEW x, Memory(h, x), NEW o \in Objects
    PROVE  /\ Names(h, o) \in Slices /\ Names(h, o).len \in Nat /\ Names(h, o).id \in DOMAIN h.arr /\ Names(h, o).len <= Cap(h, Names(h, o))
           /\ Cap(h, Names(h, o)) \in Nat
           /\ NamesIn(h, Names(h, o)) \in Seq(Int) /\ Len(NamesIn(h, Names(h, o))) = Names(h, o).len
           /\ \A j \in 1..Names(h, o).len : NamesIn(h, Names(h, o))[j] = h.arr[Names(h, o).id][j]
           /\ h.objs[o] \in AnyTable /\ h.objs[o].idxPropCount \in Nat /\ h.objs[o].lastSortedPropLen \in Nat
<1>1. PICK s : s = Names(h, o)
  OBVIOUS
<1>2. s \in Slices /\ s.len \in Nat /\ s.id \in DOMAIN h.arr /\ s.len <= Cap(h, s)
  BY <1>1, Parts DEF Slices, Memory
<1>3. Cap(h, s) \in Nat /\ NamesIn(h, s) \in Seq(Int) /\ Len(NamesIn(h, s)) = s.len
      /\ \A j \in 1..s.len : NamesIn(h, s)[j] = h.arr[s.id][j]
  BY <1>2, SliceIs
<1>4. h.objs[o] \in AnyTable /\ h.objs[o].idxPropCount \in Nat /\ h.objs[o].lastSortedPropLen \in Nat
  BY Parts DEF AnyTable
<1> QED
  BY <1>1, <1>2, <1>3, <1>4

\* The names of o are written over if nobody else reads them.
LEMMA Rewritten ==
    ASSUME NEW h \in Heaps, NEW x, Memory(h, x), NEW o \in Objects, NEW names \in Seq(Int), Len(names) <= Names(h, o).len,
           Names(h, o).len > 0, ~namesMarkedForCopy(h, Names(h, o)), NEW g, g = overwrite(h, o, names)
    PROVE  Memory(g, x) /\ Renamed(h, g, o) /\ NamesIn(g, Names(g, o)) = names /\ Names(g, o).len = Len(names)
<1>1. PICK s, old, cap, len, n : s = Names(h, o) /\ old = h.arr[s.id] /\ cap = Cap(h, s) /\ len = s.len /\ n = Len(names)
  OBVIOUS
<1>2. s.id \in DOMAIN h.arr /\ cap \in Nat /\ len \in Nat /\ len <= cap /\ n \in Nat /\ n <= len /\ cap > 0
  BY <1>1, TableIs
<1>3. old \in Seq(Int) /\ Len(old) = cap
  BY <1>1, <1>2, Parts DEF Cap
<1>4. PICK array : array = [j \in DOMAIN old |-> CASE j <= n -> names[j] [] j > n /\ j <= len -> Blank [] OTHER -> old[j]]
  OBVIOUS
<1>5. array \in [1..cap -> Int] /\ \A j \in 1..n : array[j] = names[j]
  <2>1. DOMAIN old = 1..cap
    BY <1>3
  <2>2. ASSUME NEW j \in 1..cap
        PROVE  /\ (CASE j <= n -> names[j] [] j > n /\ j <= len -> Blank [] OTHER -> old[j]) \in Int
               /\ j <= n => (CASE j <= n -> names[j] [] j > n /\ j <= len -> Blank [] OTHER -> old[j]) = names[j]
    <3>1. old[j] \in Int /\ (j <= n => names[j] \in Int)
      BY <1>1, <1>2, <1>3
    <3>2. CASE j <= n
      BY <1>2, <3>1, <3>2
    <3>3. CASE j > n /\ j <= len
      BY <1>2, <3>3 DEF Blank
    <3>4. CASE j > len
      BY <1>2, <3>1, <3>4
    <3> QED
      BY <1>2, <3>2, <3>3, <3>4
  <2>3. \A j \in 1..n : j \in 1..cap /\ j <= n
    BY <1>2
  <2> QED
    BY <1>4, <2>1, <2>2, <2>3
<1>6. array \in Seq(Int) /\ Len(array) = cap /\ n \in 0..Len(array)
  BY <1>2, <1>5
<1>7. g = useArray(h, o, Names(h, o).id, array, n)
  BY <1>1, <1>4 DEF overwrite
<1>8. Cap(h, Names(h, o)) > 0 /\ Len(array) = Cap(h, Names(h, o))
  BY <1>1, <1>2, <1>6
<1>9. Memory(g, x) /\ Renamed(h, g, o) /\ NamesIn(g, Names(g, o)) = SubSeq(array, 1, n)
  BY <1>6, <1>7, <1>8, InPlace
<1>10. Names(g, o).len = n
  BY <1>6, <1>7, <1>8, InPlace
<1>11. SubSeq(array, 1, n) = names
  <2>1. n <= Len(array) /\ n = Len(names) /\ n \in Nat /\ \A j \in 1..n : array[j] = names[j]
    BY <1>1, <1>2, <1>5, <1>6
  <2>2. SubSeq(array, 1, n) \in Seq(Int) /\ Len(SubSeq(array, 1, n)) = n /\ \A j \in 1..n : SubSeq(array, 1, n)[j] = array[j]
    BY <1>6, <2>1
  <2> QED
    BY <2>1, <2>2
<1> QED
  BY <1>1, <1>9, <1>10, <1>11

\* Names after any move.
LEMMA MovedType ==
    ASSUME NEW names \in Seq(Int), NEW len \in Nat, len = Len(names), NEW i \in 1..len, NEW k \in Nat \ {0}, NEW m, m = moveTo(names, i, k)
    PROVE  m \in Seq(Int) /\ Len(m) = len /\ m \in [1..len -> Int]
<1>1. \A j \in 1..len : (CASE j = k -> names[i] [] j > k /\ j <= i -> names[j - 1] [] OTHER -> names[j]) \in Int
  OBVIOUS
<1>2. m = [j \in 1..len |-> CASE j = k -> names[i] [] j > k /\ j <= i -> names[j - 1] [] OTHER -> names[j]]
  BY DEF moveTo
<1>3. m \in [1..len -> Int]
  BY <1>1, <1>2
<1> QED
  BY <1>3

\* The place of a name is a number, in any order of the others.
LEMMA PlaceType ==
    ASSUME NEW names, NEW c \in Nat, NEW i
    PROVE  placeOf(names, c, i) \in Nat \ {0}
<1>1. PICK S : S = {j \in 1..c : names[j] >= names[i]} \union {c + 1}
  OBVIOUS
<1>2. S \in SUBSET Nat /\ S \in SUBSET Int /\ c + 1 \in S
  BY <1>1
<1>3. PICK m \in S : \A j \in S : m <= j
  BY <1>2, Least
<1>4. placeOf(names, c, i) = m
  BY <1>1, <1>2, <1>3, MinIs DEF placeOf
<1> QED
  BY <1>1, <1>3, <1>4

\* What placing a name does to the heap.
LEMMA NameMoved ==
    ASSUME NEW h \in Heaps, NEW x, Memory(h, x), NEW o \in Objects, NEW i \in 1..Names(h, o).len, NEW g, g = placeName(h, o, i),
           NEW names, names = NamesIn(h, Names(h, o)), NEW c, c = h.objs[o].idxPropCount
    PROVE  /\ Only(h, g, x, o) /\ Names(g, o).len = Names(h, o).len
           /\ ~IsIndex(names[i]) => g = h
           /\ IsIndex(names[i]) => NamesIn(g, Names(g, o)) = moveTo(names, i, placeOf(names, c, i)) /\ g.objs[o].idxPropCount = c + 1
                                   /\ g.objs[o].values = h.objs[o].values
<1>1. PICK s, len : s = Names(h, o) /\ len = s.len
  OBVIOUS
<1>2. /\ s \in Slices /\ len \in Nat /\ s.id \in DOMAIN h.arr /\ len <= Cap(h, s) /\ Cap(h, s) \in Nat
      /\ names \in Seq(Int) /\ Len(names) = len /\ \A j \in 1..len : names[j] = h.arr[s.id][j]
  BY <1>1, TableIs
<1>3. h.objs[o] \in AnyTable /\ c \in Nat /\ i \in 1..len
  BY <1>1, TableIs
<1>4. PICK k, m : k = placeOf(names, c, i) /\ m = moveTo(names, i, k)
  OBVIOUS
<1>5. k \in Nat \ {0}
  BY <1>3, <1>4, PlaceType
<1>6. m \in Seq(Int) /\ Len(m) = len /\ m \in [1..len -> Int]
  <2>1. names \in Seq(Int) /\ len = Len(names) /\ len \in Nat /\ i \in 1..len /\ k \in Nat \ {0} /\ m = moveTo(names, i, k)
    BY <1>2, <1>3, <1>4, <1>5
  <2>2. m \in Seq(Int) /\ Len(m) = len
    BY <2>1, MovedType
  <2> QED
    BY <2>1, <2>2
<1>7. PICK g1 : g1 = IF k = i THEN h
                 ELSE IF namesMarkedForCopy(h, s) THEN copyNames(h, o, m, Cap(h, s))
                 ELSE overwrite(h, o, m)
  OBVIOUS
<1>8. g = IF IsIndex(names[i]) THEN [g1 EXCEPT !.objs[o].idxPropCount = g1.objs[o].idxPropCount + 1] ELSE h
  BY <1>1, <1>4, <1>7 DEF placeName
<1>9. CASE ~IsIndex(names[i])
  <2>1. g = h
    BY <1>8, <1>9
  <2> QED
    BY <1>9, <2>1 DEF Only, Same
<1>10. CASE IsIndex(names[i])
  <2>2. Memory(g1, x) /\ Renamed(h, g1, o) /\ NamesIn(g1, Names(g1, o)) = m /\ Names(g1, o).len = len
    <3>1. CASE k = i
      <4>1. g1 = h
        BY <1>7, <3>1
      <4>2. \A j \in 1..len : m[j] = names[j]
        <5>1. k \in 1..i /\ names \in Seq(Int) /\ len = Len(names) /\ m = moveTo(names, i, k)
          BY <1>2, <1>3, <1>4, <3>1
        <5>2. IsMoved(m, names, len, i, k)
          BY <1>2, <1>3, <5>1, MovedIs
        <5> QED
          BY <1>3, <3>1, <5>2 DEF IsMoved
      <4>3. m = names
        <5>1. names \in [1..len -> Int] /\ m \in [1..len -> Int]
          BY <1>2, <1>6
        <5>2. m = [j \in 1..len |-> m[j]] /\ names = [j \in 1..len |-> names[j]]
          BY <5>1
        <5> QED
          BY <4>2, <5>2
      <4>4. h.objs \in [Objects -> AnyTable] /\ [h.objs[o] EXCEPT !.names = h.objs[o].names] = h.objs[o]
        BY <1>3, Parts DEF AnyTable
      <4>5. Renamed(h, g1, o)
        BY <4>1, <4>4 DEF Renamed, Same, Names
      <4> QED
        BY <1>1, <4>1, <4>3, <4>5
    <3>2. CASE k # i /\ namesMarkedForCopy(h, s)
      <4>1. g1 = copyNames(h, o, m, Cap(h, s))
        BY <1>7, <3>2
      <4> QED
        BY <1>2, <1>6, <4>1, Copied
    <3>3. CASE k # i /\ ~namesMarkedForCopy(h, s)
      <4>1. g1 = overwrite(h, o, m)
        BY <1>1, <1>7, <3>3
      <4>2. Len(m) <= Names(h, o).len /\ Names(h, o).len > 0 /\ ~namesMarkedForCopy(h, Names(h, o))
        BY <1>1, <1>2, <1>3, <1>6, <3>3
      <4> QED
        BY <1>6, <4>1, <4>2, Rewritten
    <3> QED
      BY <3>1, <3>2, <3>3
  <2>3. g1 \in Heaps /\ Only(h, g1, x, o)
    BY <2>2, OnlyRenamed DEF Renamed
  <2>4. g1.objs[o] \in AnyTable /\ g1.objs[o].idxPropCount = c /\ g1.objs[o].values = h.objs[o].values
    <3>1. g1.objs[o] \in AnyTable
      BY <2>3, Parts
    <3> QED
      BY <1>1, <2>2, <3>1, Others
  <2>5. PICK y : y = [g1.objs[o] EXCEPT !.idxPropCount = c + 1]
    OBVIOUS
  <2>6. y \in AnyTable /\ y.names = g1.objs[o].names /\ y.values = h.objs[o].values /\ y.idxPropCount = c + 1
    <3>1. PICK z : z = g1.objs[o]
      OBVIOUS
    <3>2. z \in AnyTable /\ z.values = h.objs[o].values /\ y = [z EXCEPT !.idxPropCount = c + 1] /\ c + 1 \in Nat
      BY <1>3, <2>4, <2>5, <3>1
    <3>3. y \in AnyTable /\ y.names = z.names /\ y.values = z.values /\ y.idxPropCount = c + 1
      BY <3>2 DEF AnyTable
    <3> QED
      BY <3>1, <3>2, <3>3
  <2>7. g = WithTable(g1, o, y)
    <3>1. g = [g1 EXCEPT !.objs[o].idxPropCount = c + 1]
      BY <1>8, <1>10, <2>4
    <3> QED
      BY <2>5, <3>1, Zenon DEF WithTable
  <2>8. Only(g1, g, x, o) /\ g.objs[o] = y /\ Names(g, o) = Names(g1, o) /\ NamesIn(g, Names(g, o)) = NamesIn(g1, Names(g1, o))
    BY <2>2, <2>3, <2>6, <2>7, OtherFields
  <2>9. Only(h, g, x, o)
    BY <2>3, <2>8, OnlyTwice
  <2> QED
    BY <1>1, <1>4, <1>10, <2>2, <2>6, <2>8, <2>9
<1> QED
  BY <1>9, <1>10

\* One name takes its place.
LEMMA NamePlaced ==
    ASSUME NEW h \in Heaps, NEW x, Memory(h, x), NEW o \in Objects, NEW i \in 1..Names(h, o).len, Ordered(h, o, i - 1),
           NEW g, g = placeName(h, o, i)
    PROVE  Ordered(g, o, i)
<1>1. PICK names, len, c : names = NamesIn(h, Names(h, o)) /\ len = Names(h, o).len /\ c = h.objs[o].idxPropCount
  OBVIOUS
<1>2. names \in Seq(Int) /\ Len(names) = len /\ len \in Nat /\ c \in Nat /\ i \in 1..len
  BY <1>1, TableIs
<1>3. /\ Lists(names, h.objs[o].values) /\ IsInjective(names) /\ names \in [1..len -> Int]
      /\ c < i /\ \A j \in 1..i - 1 : IsIndex(names[j]) <=> j <= c
      /\ \A j \in 2..c : names[j - 1] < names[j]
  BY <1>1, <1>2 DEF Ordered, InOrder, Lists
<1>4. CASE ~IsIndex(names[i])
  <2>1. g = h
    BY <1>1, <1>4, NameMoved
  <2>2. \A j \in 1..i : IsIndex(names[j]) <=> j <= c
    BY <1>2, <1>3, <1>4
  <2>3. Ordered(h, o, i)
    BY <1>1, <1>2, <1>3, <2>2 DEF Ordered, InOrder
  <2> QED
    BY <2>1, <2>3
<1>5. CASE IsIndex(names[i])
  <2>1. PICK k, m : k = placeOf(names, c, i) /\ m = moveTo(names, i, k)
    OBVIOUS
  <2>2. k \in 1..c + 1 /\ (\A j \in 1..k - 1 : names[j] < names[i]) /\ (k <= c => names[k] >= names[i])
    BY <1>2, <1>3, <2>1, PlaceIs
  <2>3. k \in 1..i
    BY <1>2, <1>3, <2>2
  <2>4. IsMoved(m, names, len, i, k) /\ m \in Seq(Int) /\ Len(m) = len
    BY <1>2, <2>1, <2>3, MovedIs
  <2>5. Range(m) = Range(names) /\ IsInjective(m)
    BY <1>2, <1>3, <2>3, <2>4, MovedKeeps
  <2>6. /\ \A j \in 1..i : IsIndex(m[j]) <=> j <= c + 1
        /\ \A j \in 2..c + 1 : m[j - 1] < m[j]
    BY <1>2, <1>3, <1>5, <2>2, <2>4, IndexPlaced
  <2>7. NamesIn(g, Names(g, o)) = m /\ g.objs[o].idxPropCount = c + 1 /\ g.objs[o].values = h.objs[o].values
    BY <1>1, <1>5, <2>1, NameMoved
  <2>8. Lists(m, h.objs[o].values)
    BY <1>3, <2>5 DEF Lists
  <2>9. InOrder(m, c + 1, i)
    BY <1>2, <1>3, <2>4, <2>6 DEF InOrder
  <2> QED
    BY <2>7, <2>8, <2>9 DEF Ordered
<1> QED
  BY <1>4, <1>5

\* All names that are not in order take their places, one after the other.
LEMMA OrderFixed ==
    ASSUME NEW h, NEW x, Good(h, x), NEW o \in Objects, NEW g, g = fixPropOrder(h, o)
    PROVE  StaysGood(h, g, x)
<1>1. h \in Heaps /\ Memory(h, x) /\ Ordered(h, o, h.objs[o].lastSortedPropLen)
  BY DEF Good
<1>2. PICK len, old : len = Names(h, o).len /\ old = h.objs[o].lastSortedPropLen
  OBVIOUS
<1>3. len \in Nat /\ old \in Nat /\ old <= len
  <2>1. len \in Nat /\ old \in Nat /\ Len(NamesIn(h, Names(h, o))) = len
    BY <1>1, <1>2, TableIs
  <2> QED
    BY <1>1, <1>2, <2>1 DEF Ordered, InOrder
<1>4. PICK n \in Nat : n = len - old
  BY <1>3
<1>5. PICK todo : todo = [k \in 1..n |-> old + k]
  OBVIOUS
<1> DEFINE S     == {f \in Heaps : Only(h, f, x, o) /\ Names(f, o).len = len}
           Op(f, k) == placeName(f, o, todo[k])
           F     == [z \in (1..n) \X S |-> Op(z[2], z[1])]
           Is(f) == f = [s \in SUBSET (1..n) |-> IF s = {} THEN h ELSE Op(f[s \ {Max(s)}], Max(s))]
           e     == CHOOSE f : Is(f)
<1>6. FoldLeft(LAMBDA f, i : placeName(f, o, i), h, todo) = e[1..n]
  BY <1>5 DEF FoldLeft, MapThenFoldSet
<1>7. h \in S
  BY <1>1, <1>2 DEF Only, Same
<1>8. ASSUME NEW f \in S, NEW k \in 1..n PROVE Op(f, k) \in S
  <2>1. f \in Heaps /\ Only(h, f, x, o) /\ Memory(f, x) /\ Names(f, o).len = len
    BY DEF Only
  <2>2. todo[k] \in 1..Names(f, o).len
    BY <1>3, <1>4, <1>5, <2>1
  <2>3. Only(f, Op(f, k), x, o) /\ Names(Op(f, k), o).len = len
    BY <2>1, <2>2, NameMoved
  <2>4. Only(h, Op(f, k), x, o)
    BY <2>1, <2>3, OnlyTwice
  <2> QED
    BY <2>3, <2>4 DEF Only
<1> HIDE DEF S, Op
<1>9. F \in [(1..n) \X S -> S]
  BY <1>8
<1>10. \A s \in SUBSET (1..n) : s # {} => Max(s) \in 1..n /\ s \ {Max(s)} \in SUBSET (1..n)
  BY MaxWithin
<1>11. \E f : Is(f) /\ f \in [SUBSET (1..n) -> S]
  <2>1. PICK f : Folds(f, n, S, h, F)
    <3> HIDE DEF F
    <3> QED
      BY <1>7, <1>9, FoldExists
  <2>2. /\ f \in [SUBSET (1..n) -> S]
        /\ \A s \in SUBSET (1..n) : f[s] = IF s = {} THEN h ELSE F[<<Max(s), f[s \ {Max(s)}]>>]
    BY <2>1 DEF Folds
  <2>3. ASSUME NEW s \in SUBSET (1..n), s # {} PROVE f[s] = Op(f[s \ {Max(s)}], Max(s))
    <3>1. <<Max(s), f[s \ {Max(s)}]>> \in (1..n) \X S
      BY <1>10, <2>2, <2>3
    <3> QED
      BY <2>2, <2>3, <3>1
  <2> QED
    BY <2>2, <2>3, ZenonT(60)
<1>12. Is(e)
  <2> HIDE DEF Is
  <2> QED
    BY <1>11
<1> DEFINE K == [m \in 0..n |-> {f \in S : Ordered(f, o, old + m)}]
<1>13. e[1..0] \in K[0]
  <2>1. e[1..0] = h
    <3>1. 1..0 = {} /\ {} \in SUBSET (1..n)
      OBVIOUS
    <3> QED
      BY <1>12, <3>1
  <2> QED
    BY <1>1, <1>2, <1>3, <1>7, <2>1
<1>14. ASSUME NEW m \in 1..n, e[1..m - 1] \in K[m - 1] PROVE e[1..m] \in K[m]
  <2>1. PICK f : f = e[1..m - 1]
    OBVIOUS
  <2>2. e[1..m] = Op(f, m)
    <3>1. 1..m \in SUBSET (1..n) /\ 1..m # {} /\ Max(1..m) = m /\ (1..m) \ {Max(1..m)} = 1..m - 1
      BY Initial
    <3> QED
      BY <1>12, <2>1, <3>1
  <2> HIDE DEF e
  <2>3. f \in S /\ Ordered(f, o, old + (m - 1))
    BY <1>14, <2>1
  <2>4. f \in Heaps /\ Memory(f, x) /\ Names(f, o).len = len
    BY <2>3 DEF S, Only
  <2>5. Op(f, m) = placeName(f, o, old + m) /\ old + m \in 1..Names(f, o).len /\ old + m - 1 = old + (m - 1)
    BY <1>3, <1>4, <1>5, <2>4 DEF Op
  <2>6. Ordered(Op(f, m), o, old + m)
    <3>1. PICK i, f1 : i = old + m /\ f1 = placeName(f, o, i)
      OBVIOUS
    <3>2. i \in 1..Names(f, o).len /\ i - 1 = old + (m - 1)
      <4>1. i \in 1..Names(f, o).len
        BY <2>5, <3>1
      <4>2. i - 1 = old + (m - 1)
        BY <1>3, <3>1
      <4> QED
        BY <4>1, <4>2
    <3>3. Ordered(f, o, i - 1)
      BY <2>3, <3>2
    <3>4. Ordered(f1, o, i)
      BY <2>4, <3>1, <3>2, <3>3, NamePlaced
    <3> QED
      BY <2>5, <3>1, <3>4
  <2> QED
    BY <1>8, <2>2, <2>3, <2>6
<1>15. e[1..n] \in K[n]
  <2> HIDE DEF e, K
  <2> QED
    BY <1>13, <1>14, FoldFamily
<1>16. PICK f : f = e[1..n] /\ f \in S /\ Ordered(f, o, len)
  <2>1. n \in 0..n /\ old + n = len
    BY <1>3, <1>4
  <2> HIDE DEF e
  <2> QED
    BY <1>15, <2>1
<1> HIDE DEF e
<1>17. f \in Heaps /\ Memory(f, x) /\ Only(h, f, x, o) /\ f.objs[o] \in AnyTable
  BY <1>16, Parts DEF S, Only
<1>18. PICK y : y = [f.objs[o] EXCEPT !.lastSortedPropLen = len]
  OBVIOUS
<1>19. y \in AnyTable /\ y.names = f.objs[o].names /\ y.values = f.objs[o].values /\ y.idxPropCount = f.objs[o].idxPropCount
       /\ y.lastSortedPropLen = len
  <2>1. PICK z : z = f.objs[o]
    OBVIOUS
  <2>2. z \in AnyTable /\ y = [z EXCEPT !.lastSortedPropLen = len]
    BY <1>17, <1>18, <2>1
  <2>3. y \in AnyTable /\ y.names = z.names /\ y.values = z.values /\ y.idxPropCount = z.idxPropCount /\ y.lastSortedPropLen = len
    BY <1>3, <2>2 DEF AnyTable
  <2> QED
    BY <2>1, <2>3
<1>20. g = WithTable(f, o, y)
  <2>1. g = [f EXCEPT !.objs[o].lastSortedPropLen = len]
    <3>1. todo = [k \in 1..len - h.objs[o].lastSortedPropLen |-> h.objs[o].lastSortedPropLen + k]
      BY <1>2, <1>4, <1>5
    <3> QED
      BY <1>2, <1>6, <1>16, <3>1 DEF fixPropOrder
  <2> QED
    BY <1>18, <2>1, Zenon DEF WithTable
<1>21. Only(f, g, x, o) /\ g.objs[o] = y /\ Names(g, o) = Names(f, o) /\ NamesIn(g, Names(g, o)) = NamesIn(f, Names(f, o))
  BY <1>17, <1>19, <1>20, OtherFields
<1>22. Only(h, g, x, o)
  BY <1>17, <1>21, OnlyTwice
<1>23. Ordered(g, o, g.objs[o].lastSortedPropLen)
  BY <1>16, <1>19, <1>21 DEF Ordered
<1> QED
  BY <1>22, <1>23, KeptIf

\* Names are put in order if they are not.
LEMMA OrderEnsured ==
    ASSUME NEW h, NEW x, Good(h, x), NEW o \in Objects, NEW g, g = ensurePropOrder(h, o)
    PROVE  StaysGood(h, g, x)
<1>1. CASE g = h
  BY <1>1 DEF StaysGood
<1>2. CASE g = fixPropOrder(h, o)
  BY <1>2, OrderFixed
<1> QED
  BY <1>1, <1>2 DEF ensurePropOrder

\* Values are properties, at numbers.
LEMMA ValuesAre ==
    ASSUME NEW h \in Heaps, NEW o \in Objects, NEW n
    PROVE  /\ h.objs[o].values \in [DOMAIN h.objs[o].values -> AnyProp \ {Absent}] /\ DOMAIN h.objs[o].values \in SUBSET Nat
           /\ getOwnProp(h, o, n) # Absent <=> n \in DOMAIN h.objs[o].values
           /\ getOwnProp(h, o, n) \in AnyProp
<1>1. PICK v : v = h.objs[o].values
  OBVIOUS
<1>2. v \in UNION {[D -> AnyProp \ {Absent}] : D \in SUBSET Nat}
  BY <1>1, Parts DEF AnyTable
<1>3. v \in [DOMAIN v -> AnyProp \ {Absent}] /\ DOMAIN v \in SUBSET Nat
  BY <1>2
<1>4. Absent \in AnyProp
  BY DEF Absent, Property, AnyProp, Nil, NoFunc
<1> QED
  BY <1>1, <1>3, <1>4 DEF getOwnProp

\* An object with other values.
LEMMA OtherValues ==
    ASSUME NEW y \in AnyTable, NEW D \in SUBSET Nat, NEW v \in [D -> AnyProp \ {Absent}], NEW z, z = [y EXCEPT !.values = v]
    PROVE  z \in AnyTable /\ z.values = v /\ z.names = y.names /\ z.idxPropCount = y.idxPropCount
           /\ z.lastSortedPropLen = y.lastSortedPropLen /\ z.syms = y.syms
  BY ZenonT(60) DEF AnyTable

\* One name more.
LEMMA AppendIs ==
    ASSUME NEW names \in Seq(Int), NEW n \in Int, n \notin Range(names), IsInjective(names), NEW c \in Nat, NEW sorted \in Nat,
           InOrder(names, c, sorted), NEW more, more = Append(names, n)
    PROVE  Range(more) = Range(names) \union {n} /\ IsInjective(more) /\ InOrder(more, c, sorted)
<1>1. PICK len \in Nat : len = Len(names)
  OBVIOUS
<1>2. /\ more \in Seq(Int) /\ Len(more) = len + 1 /\ more[len + 1] = n
      /\ \A j \in 1..len : more[j] = names[j]
  BY <1>1
<1>3. DOMAIN more = 1..len + 1 /\ DOMAIN names = 1..len
  BY <1>1, <1>2
<1>4. \A j \in 1..len + 1 : j \in 1..len \/ j = len + 1
  BY <1>1
<1>5. \A j \in 1..len : j \in 1..len + 1 /\ j # len + 1
  BY <1>1
<1>6. len + 1 \in 1..len + 1
  BY <1>1
<1>7. Range(more) = Range(names) \union {n}
  BY <1>2, <1>3, <1>4, <1>5, <1>6 DEF Range
<1>8. \A j \in 1..len : names[j] # n
  BY <1>3 DEF Range
<1>9. IsInjective(more)
  BY <1>2, <1>3, <1>4, <1>8 DEF IsInjective
<1>10. c <= sorted /\ sorted <= len
  BY <1>1 DEF InOrder
<1>11. \A j \in 1..sorted : more[j] = names[j]
  BY <1>1, <1>2, <1>10
<1>12. \A j \in 2..c : j \in 1..sorted /\ j - 1 \in 1..sorted
  BY <1>1, <1>10
<1>13. InOrder(more, c, sorted)
  <2>1. sorted <= Len(more)
    BY <1>1, <1>2, <1>10
  <2>2. \A j \in 1..sorted : IsIndex(more[j]) <=> j <= c
    BY <1>11 DEF InOrder
  <2>3. \A j \in 2..c : more[j - 1] < more[j]
    BY <1>11, <1>12 DEF InOrder
  <2> QED
    BY <1>10, <2>1, <2>2, <2>3 DEF InOrder
<1> QED
  BY <1>7, <1>9, <1>13

\* A value is put into the table.
LEMMA ValuePut ==
    ASSUME NEW h, NEW x, Good(h, x), NEW o \in Objects, NEW n \in Nat, NEW p \in AnyProp \ {Absent}, NEW g, g = _put(h, o, n, p)
    PROVE  StaysGood(h, g, x)
<1>1. h \in Heaps /\ Memory(h, x) /\ Ordered(h, o, h.objs[o].lastSortedPropLen)
  BY DEF Good
<1>2. PICK t, old : t = h.objs[o] /\ old = t.values
  OBVIOUS
<1>3. t \in AnyTable /\ old \in [DOMAIN old -> AnyProp \ {Absent}] /\ DOMAIN old \in SUBSET Nat
      /\ (getOwnProp(h, o, n) # Absent <=> n \in DOMAIN old)
  BY <1>1, <1>2, ValuesAre, Parts
<1>4. PICK D, v, y : D = DOMAIN old \union {n} /\ v = Put(old, n, p) /\ y = [t EXCEPT !.values = v]
  OBVIOUS
<1>5. D \in SUBSET Nat /\ v \in [D -> AnyProp \ {Absent}]
  BY <1>3, <1>4 DEF Put
<1>6. y \in AnyTable /\ y.values = v /\ y.names = t.names /\ y.idxPropCount = t.idxPropCount
      /\ y.lastSortedPropLen = t.lastSortedPropLen /\ y.syms = t.syms
  BY <1>3, <1>4, <1>5, OtherValues
<1>7. PICK f : f = WithTable(h, o, y)
  OBVIOUS
<1>8. f = [h EXCEPT !.objs[o].values = Put(@, n, p)]
  BY <1>2, <1>4, <1>7, Zenon DEF WithTable
<1>9. Only(h, f, x, o) /\ f.objs[o] = y /\ Names(f, o) = Names(h, o) /\ NamesIn(f, Names(f, o)) = NamesIn(h, Names(h, o))
  <2>1. y.names = h.objs[o].names
    BY <1>2, <1>6
  <2> QED
    BY <1>1, <1>6, <1>7, <2>1, OtherFields
<1>10. f \in Heaps /\ Memory(f, x)
  BY <1>9 DEF Only
<1>11. PICK names : names = NamesIn(h, Names(h, o))
  OBVIOUS
<1>12. Range(names) = {k \in DOMAIN old : ~IsSymbol(k)} /\ IsInjective(names) /\ InOrder(names, t.idxPropCount, t.lastSortedPropLen)
       /\ names \in Seq(Int) /\ t.idxPropCount \in Nat /\ t.lastSortedPropLen \in Nat
  <2>1. Lists(names, old) /\ InOrder(names, t.idxPropCount, t.lastSortedPropLen)
    BY <1>1, <1>2, <1>11 DEF Ordered
  <2>2. names \in Seq(Int) /\ t.idxPropCount \in Nat /\ t.lastSortedPropLen \in Nat
    BY <1>1, <1>2, <1>11, TableIs
  <2> QED
    BY <2>1, <2>2 DEF Lists
<1>13. DOMAIN v = D
  BY <1>4 DEF Put
<1>14. CASE n \in DOMAIN old
  <2>1. g = f
    BY <1>3, <1>8, <1>14 DEF _put
  <2>2. D = DOMAIN old
    BY <1>4, <1>14
  <2>3. Lists(names, v)
    BY <1>12, <1>13, <2>2 DEF Lists
  <2>4. Ordered(f, o, f.objs[o].lastSortedPropLen)
    BY <1>6, <1>9, <1>11, <1>12, <2>3 DEF Ordered
  <2> QED
    BY <1>9, <2>1, <2>4, KeptIf
<1>15. CASE n \notin DOMAIN old /\ IsSymbol(n)
  <2>1. PICK z : z = [y EXCEPT !.syms = Append(y.syms, n)]
    OBVIOUS
  <2>2. z \in AnyTable /\ z.values = v /\ z.names = y.names /\ z.idxPropCount = t.idxPropCount
        /\ z.lastSortedPropLen = t.lastSortedPropLen
    <3>1. y.syms \in Seq(Nat)
      BY <1>6 DEF AnyTable
    <3>2. PICK q \in Seq(Nat) : q = Append(y.syms, n)
      <4>1. PICK s \in Seq(Nat) : s = y.syms
        BY <3>1
      <4>2. Append(s, n) \in Seq(Nat)
        OBVIOUS
      <4> QED
        BY <4>1, <4>2
    <3>3. z = [y EXCEPT !.syms = q]
      BY <2>1, <3>2
    <3>4. z \in AnyTable /\ z.values = y.values /\ z.names = y.names /\ z.idxPropCount = y.idxPropCount
          /\ z.lastSortedPropLen = y.lastSortedPropLen
      BY <1>6, <3>2, <3>3 DEF AnyTable
    <3> QED
      BY <1>6, <3>4
  <2>3. g = [f EXCEPT !.objs[o].syms = Append(@, n)]
    BY <1>3, <1>8, <1>15 DEF _put
  <2>4. g = WithTable(f, o, z)
    BY <1>9, <2>1, <2>3, Zenon DEF WithTable
  <2>5. Only(f, g, x, o) /\ g.objs[o] = z /\ Names(g, o) = Names(f, o) /\ NamesIn(g, Names(g, o)) = NamesIn(f, Names(f, o))
    <3>1. z.names = f.objs[o].names
      BY <1>9, <2>2
    <3> QED
      BY <1>10, <2>2, <2>4, <3>1, OtherFields
  <2>6. {k \in D : ~IsSymbol(k)} = {k \in DOMAIN old : ~IsSymbol(k)}
    BY <1>4, <1>15
  <2>7. Lists(names, v)
    BY <1>12, <1>13, <2>6 DEF Lists
  <2>8. Ordered(g, o, g.objs[o].lastSortedPropLen)
    BY <1>9, <1>11, <1>12, <2>2, <2>5, <2>7 DEF Ordered
  <2>9. Only(h, g, x, o)
    BY <1>9, <2>5, OnlyTwice
  <2> QED
    BY <2>8, <2>9, KeptIf
<1>16. CASE n \notin DOMAIN old /\ ~IsSymbol(n)
  <2>1. g = appendName(f, o, n)
    BY <1>3, <1>8, <1>16 DEF _put
  <2>2. Memory(g, x) /\ Renamed(f, g, o) /\ NamesIn(g, Names(g, o)) = Append(names, n)
    BY <1>9, <1>10, <1>11, <2>1, NameAppended
  <2>3. PICK more : more = Append(names, n)
    OBVIOUS
  <2>4. Range(more) = Range(names) \union {n} /\ IsInjective(more) /\ InOrder(more, t.idxPropCount, t.lastSortedPropLen)
    <3>1. n \notin Range(names) /\ n \in Int
      BY <1>12, <1>16
    <3> QED
      BY <1>12, <2>3, <3>1, AppendIs
  <2>5. {k \in D : ~IsSymbol(k)} = {k \in DOMAIN old : ~IsSymbol(k)} \union {n}
    BY <1>4, <1>16
  <2>6. Lists(more, v)
    BY <1>12, <1>13, <2>4, <2>5 DEF Lists
  <2>7. g.objs[o].values = v /\ g.objs[o].idxPropCount = t.idxPropCount /\ g.objs[o].lastSortedPropLen = t.lastSortedPropLen
    BY <1>6, <1>9, <1>10, <2>2, Others
  <2>8. Ordered(g, o, g.objs[o].lastSortedPropLen)
    BY <2>2, <2>3, <2>4, <2>6, <2>7 DEF Ordered
  <2>9. Only(f, g, x, o)
    BY <1>10, <2>2, OnlyRenamed
  <2>10. Only(h, g, x, o)
    BY <1>9, <2>9, OnlyTwice
  <2> QED
    BY <2>8, <2>10, KeptIf
<1> QED
  BY <1>14, <1>15, <1>16

\* A name and its value are deleted.
LEMMA NameDeleted ==
    ASSUME NEW h, NEW x, Good(h, x), NEW o \in Objects, NEW n \in Nat, ~IsSymbol(n), n \in DOMAIN h.objs[o].values,
           NEW g, g = _delete(h, o, n)
    PROVE  StaysGood(h, g, x)
<1>1. h \in Heaps /\ Memory(h, x) /\ Ordered(h, o, h.objs[o].lastSortedPropLen)
  BY DEF Good
<1>2. PICK t, old, s, names, len : t = h.objs[o] /\ old = t.values /\ s = Names(h, o) /\ names = NamesIn(h, s) /\ len = s.len
  OBVIOUS
<1>3. t \in AnyTable /\ old \in [DOMAIN old -> AnyProp \ {Absent}] /\ DOMAIN old \in SUBSET Nat
  BY <1>1, <1>2, ValuesAre, Parts
<1>4. /\ s \in Slices /\ len \in Nat /\ s.id \in DOMAIN h.arr /\ len <= Cap(h, s) /\ Cap(h, s) \in Nat
      /\ names \in Seq(Int) /\ Len(names) = len /\ \A j \in 1..len : names[j] = h.arr[s.id][j]
  BY <1>1, <1>2, TableIs
<1>5. PICK c, sorted : c = t.idxPropCount /\ sorted = t.lastSortedPropLen
  OBVIOUS
<1>6. /\ Range(names) = {k \in DOMAIN old : ~IsSymbol(k)} /\ IsInjective(names) /\ c \in Nat /\ sorted \in Nat
      /\ c <= sorted /\ sorted <= len /\ \A j \in 1..sorted : IsIndex(names[j]) <=> j <= c
      /\ \A j \in 2..c : names[j - 1] < names[j]
  <2>1. Lists(names, old) /\ InOrder(names, c, sorted)
    BY <1>1, <1>2, <1>5 DEF Ordered
  <2>2. c \in Nat /\ sorted \in Nat
    BY <1>1, <1>2, <1>5, TableIs
  <2> QED
    BY <1>4, <2>1, <2>2 DEF Lists, InOrder
<1>7. PICK i : i = CHOOSE j \in 1..s.len : names[j] = n
  OBVIOUS
<1>8. i \in 1..len /\ names[i] = n
  <2>1. n \in Range(names)
    BY <1>2, <1>6
  <2>2. DOMAIN names = 1..len
    BY <1>4
  <2>3. \E j \in 1..len : names[j] = n
    BY <2>1, <2>2 DEF Range
  <2> QED
    BY <1>2, <1>7, <2>3
<1>9. PICK rest : rest = RemoveAt(names, i)
  OBVIOUS
<1>10. IsWithout(rest, names, len, i) /\ rest \in Seq(Int) /\ Len(rest) = len - 1
  BY <1>4, <1>8, <1>9, RemovedIs
<1>11. names \in [1..len -> Int]
  BY <1>4
<1>12. Range(rest) = Range(names) \ {n} /\ IsInjective(rest)
  BY <1>4, <1>6, <1>8, <1>10, <1>11, RemovedKeeps
<1>13. PICK d, e : d = lowered(c, i, sorted) /\ e = lowered(sorted, i, sorted)
  OBVIOUS
<1>14. d \in Nat /\ e \in Nat /\ d <= e /\ e <= len - 1 /\ Sorts(rest, d, e)
  <2>1. sorted \in c..len
    BY <1>4, <1>6
  <2>2. Sorts(names, c, sorted)
    BY <1>6 DEF Sorts
  <2> QED
    <3>1. c \in Nat /\ len \in Nat /\ i \in 1..len /\ IsWithout(rest, names, len, i)
      BY <1>4, <1>6, <1>8, <1>10
    <3>2. \A d1, e1 : d1 = lowered(c, i, sorted) /\ e1 = lowered(sorted, i, sorted)
             => d1 \in Nat /\ e1 \in Nat /\ d1 <= e1 /\ e1 <= len - 1 /\ Sorts(rest, d1, e1)
      BY <1>11, <2>1, <2>2, <3>1, RemovedInOrder
    <3> QED
      BY <1>13, <3>2
<1>15. PICK f : f = IF namesMarkedForCopy(h, s) THEN copyNames(h, o, rest, shrinkCap(s.len, Cap(h, s)))
                    ELSE overwrite(h, o, rest)
  OBVIOUS
<1>16. Memory(f, x) /\ Renamed(h, f, o) /\ NamesIn(f, Names(f, o)) = rest
  <2>1. CASE namesMarkedForCopy(h, s)
    <3>1. PICK cap : cap = shrinkCap(s.len, Cap(h, s))
      OBVIOUS
    <3>2. cap \in Nat
      BY <1>4, <3>1 DEF shrinkCap
    <3>3. f = copyNames(h, o, rest, cap)
      BY <1>15, <2>1, <3>1
    <3> QED
      BY <1>1, <1>10, <3>2, <3>3, Copied
  <2>2. CASE ~namesMarkedForCopy(h, s)
    <3>1. f = overwrite(h, o, rest)
      BY <1>15, <2>2
    <3>2. Len(rest) <= Names(h, o).len /\ Names(h, o).len > 0 /\ ~namesMarkedForCopy(h, Names(h, o))
      BY <1>2, <1>4, <1>8, <1>10, <2>2
    <3> QED
      BY <1>1, <1>10, <3>1, <3>2, Rewritten
  <2> QED
    BY <2>1, <2>2
<1>17. f \in Heaps /\ Only(h, f, x, o)
  BY <1>1, <1>16, OnlyRenamed DEF Renamed
<1>18. PICK u : u = f.objs[o]
  OBVIOUS
<1>19. u \in AnyTable /\ u.values = old /\ u.idxPropCount = c /\ u.lastSortedPropLen = sorted
  <2>1. u \in AnyTable
    BY <1>17, <1>18, Parts
  <2> QED
    BY <1>1, <1>2, <1>5, <1>16, <1>18, <2>1, Others
<1>20. PICK D, v, y : D = DOMAIN old \ {n} /\ v = Lacking(old, n)
                      /\ y = [u EXCEPT !.values = v, !.lastSortedPropLen = e, !.idxPropCount = d]
  BY Zenon
<1>21. D \in SUBSET Nat /\ v \in [D -> AnyProp \ {Absent}] /\ DOMAIN v = D
  BY <1>3, <1>20 DEF Lacking
<1>22. y \in AnyTable /\ y.values = v /\ y.names = u.names /\ y.idxPropCount = d /\ y.lastSortedPropLen = e
  <2>1. PICK z : z = [u EXCEPT !.values = v]
    OBVIOUS
  <2>2. z \in AnyTable /\ z.values = v /\ z.names = u.names
    BY <1>19, <1>21, <2>1, OtherValues
  <2>3. y = [z EXCEPT !.lastSortedPropLen = e, !.idxPropCount = d]
    BY <1>20, <2>1
  <2>4. y \in AnyTable /\ y.values = z.values /\ y.names = z.names /\ y.idxPropCount = d /\ y.lastSortedPropLen = e
    BY <1>14, <2>2, <2>3 DEF AnyTable
  <2> QED
    BY <2>2, <2>4
<1>23. g = WithTable(f, o, y)
  <2>1. g = [f EXCEPT !.objs[o] = [@ EXCEPT !.values = v, !.lastSortedPropLen = e, !.idxPropCount = d]]
    <3>1. /\ s = Names(h, o) /\ names = NamesIn(h, s) /\ rest = RemoveAt(names, i)
          /\ i = CHOOSE j \in 1..s.len : names[j] = n
      BY <1>2, <1>7, <1>9
    <3>2. /\ v = Lacking(h.objs[o].values, n)
          /\ e = lowered(h.objs[o].lastSortedPropLen, i, h.objs[o].lastSortedPropLen)
          /\ d = lowered(h.objs[o].idxPropCount, i, h.objs[o].lastSortedPropLen)
      BY <1>2, <1>5, <1>13, <1>20
    <3> QED
      BY <1>15, <3>1, <3>2, SMTT(60) DEF _delete
  <2> QED
    BY <1>18, <1>20, <2>1, Zenon DEF WithTable
<1>24. Only(f, g, x, o) /\ g.objs[o] = y /\ Names(g, o) = Names(f, o) /\ NamesIn(g, Names(g, o)) = NamesIn(f, Names(f, o))
  <2>1. y.names = f.objs[o].names
    BY <1>18, <1>22
  <2> QED
    BY <1>16, <1>17, <1>22, <1>23, <2>1, OtherFields
<1>25. {k \in D : ~IsSymbol(k)} = {k \in DOMAIN old : ~IsSymbol(k)} \ {n}
  BY <1>20
<1>26. Lists(rest, v)
  BY <1>6, <1>12, <1>21, <1>25 DEF Lists
<1>27. InOrder(rest, d, e)
  BY <1>4, <1>10, <1>14 DEF InOrder, Sorts
<1>28. Ordered(g, o, g.objs[o].lastSortedPropLen)
  BY <1>16, <1>22, <1>24, <1>26, <1>27 DEF Ordered
<1>29. Only(h, g, x, o)
  BY <1>17, <1>24, OnlyTwice
<1> QED
  BY <1>28, <1>29, KeptIf

-----------------------------------------------------------------------------
(* Operations on one object                                                *)

\* Objects are finitely many numbers, and Null is none of them.
LEMMA ObjectsAre ==
    /\ \E c \in Nat : c = Cardinality(Objects)
    /\ Objects = 1..Cardinality(Objects) /\ Null \notin Objects
<1>1. PICK c \in Nat : c = Cardinality(Objects)
  BY PropertyTableAssumption, FS_CardinalityType
<1>2. Objects = 1..c
  BY <1>1, PropertyTableAssumption
<1>3. Null \notin 1..c
  BY DEF Null
<1> QED
  BY <1>1, <1>2, <1>3

\* Heaps that are good, with the iterators its, and what an operation that leaves
\* such a heap answers.
Keeps(its, x)   == {g \in Heaps : Good(g, x) /\ g.its = its}
Answers(its, x) == [h : Keeps(its, x), ok : BOOLEAN, setter : Int, out : {<<>>}]

\* Heaps that stay good, as a set.
LEMMA KeepsIs ==
    ASSUME NEW h, NEW x, Good(h, x), NEW g, StaysGood(h, g, x)
    PROVE  g \in Keeps(h.its, x) /\ h \in Keeps(h.its, x)
  BY DEF Keeps, StaysGood, Good

\* What is answered without a change.
LEMMA AnswerIs ==
    ASSUME NEW its, NEW x, NEW g \in Keeps(its, x)
    PROVE  /\ Done(g) \in Answers(its, x) /\ Refused(g) \in Answers(its, x)
           /\ \A f \in Int : Result(g, TRUE, f, <<>>) \in Answers(its, x)
           /\ Good(g, x) /\ g \in Heaps /\ g.its = its
  BY DEF Keeps, Answers, Done, Refused, Result, NoFunc

\* Properties that are there.
LEMMA SomeProps ==
    ASSUME NEW v \in Int, NEW p \in AnyProp, ~p.plain
    PROVE  /\ PlainValue(v) \in AnyProp \ {Absent} /\ [p EXCEPT !.v = v] \in AnyProp \ {Absent}
           /\ [p EXCEPT !.c = FALSE] \in AnyProp \ {Absent} /\ Got(p) \in Int
<1>1. PlainValue(v) \in AnyProp /\ PlainValue(v).w = TRUE /\ Absent.w = FALSE /\ Absent.plain = TRUE
  BY DEF PlainValue, Property, AnyProp, NoFunc, Absent
<1>2. [p EXCEPT !.v = v] \in AnyProp /\ [p EXCEPT !.v = v].plain = FALSE
  BY DEF AnyProp
<1>3. [p EXCEPT !.c = FALSE] \in AnyProp /\ [p EXCEPT !.c = FALSE].plain = FALSE
  BY DEF AnyProp
<1>4. Got(p) \in Int
  BY DEF Got, AnyProp, FromGetter, Undefined
<1> QED
  BY <1>1, <1>2, <1>3, <1>4

\* The value of a property.
LEMMA GotIs ==
    ASSUME NEW p \in AnyProp
    PROVE  Got(p) \in Int
  BY DEF Got, AnyProp, FromGetter, Undefined

\* A plain value is a property that is there.
LEMMA PlainIs ==
    ASSUME NEW v \in Int
    PROVE  PlainValue(v) \in AnyProp \ {Absent}
<1>1. PlainValue(v) \in AnyProp /\ PlainValue(v).w = TRUE /\ Absent.w = FALSE
  BY DEF PlainValue, Property, AnyProp, NoFunc, Absent
<1> QED
  BY <1>1

\* The descriptors that assignments, seal and freeze use.
LEMMA SomeDescs ==
    ASSUME NEW v \in Int, NEW w \in Flags
    PROVE  JustValue(v) \in Descs /\ FullValue(v) \in Descs /\ Descriptor({}, w, {}, {FALSE}, {}, {}) \in Descs
  BY DEF JustValue, FullValue, Descriptor, Descs, Flags

\* What a field gives, if not the default.
LEMMA GivenIs ==
    ASSUME NEW T, NEW field \in SUBSET T, NEW default \in T
    PROVE  Given(field, default) \in T
  BY DEF Given

\* What a descriptor makes of a property.
LEMMA DefinedIs ==
    ASSUME NEW p \in AnyProp, NEW d \in Descs
    PROVE  _defineOwnProperty(p, d) \in AnyProp \ {Absent}
<1>1. PICK old : old = IF p = Absent THEN Empty ELSE p
  OBVIOUS
<1>2. old \in AnyProp
  BY <1>1 DEF Empty, Property, AnyProp, Nil, NoFunc
<1>3. old.v \in Int /\ old.get \in Int /\ old.set \in Int /\ old.w \in BOOLEAN /\ old.e \in BOOLEAN /\ old.c \in BOOLEAN /\ old.acc \in BOOLEAN
  BY <1>2 DEF AnyProp
<1>4. /\ d.v \in SUBSET Int /\ d.get \in SUBSET Int /\ d.set \in SUBSET Int
      /\ d.w \in SUBSET BOOLEAN /\ d.e \in SUBSET BOOLEAN /\ d.c \in SUBSET BOOLEAN
  BY DEF Descs, Flags
<1>5. Nil \in Int /\ NoFunc \in Int /\ Undefined \in Int
  BY DEF Nil, NoFunc, Undefined
<1>6. PICK acc : acc = (IsAccessor(d) \/ (old.acc /\ ~IsData(d)))
  OBVIOUS
<1>7. acc \in BOOLEAN
  BY <1>3, <1>6 DEF IsAccessor, IsData
<1>8. PICK v : v = IF IsAccessor(d) THEN Nil ELSE Given(d.v, old.v)
  OBVIOUS
<1>9. v \in Int /\ (IF ~acc /\ v = Nil THEN Undefined ELSE v) \in Int
  <2>1. Given(d.v, old.v) \in Int
    BY <1>3, <1>4, GivenIs
  <2> QED
    BY <1>5, <1>8, <2>1
<1>10. Given(d.v, Nil) \in Int
  BY <1>4, <1>5, GivenIs
<1>11. Given(d.get, IF d.v # {} THEN NoFunc ELSE old.get) \in Int /\ Given(d.set, IF d.v # {} THEN NoFunc ELSE old.set) \in Int
  <2>1. PICK a, b : a = (IF d.v # {} THEN NoFunc ELSE old.get) /\ b = (IF d.v # {} THEN NoFunc ELSE old.set)
    OBVIOUS
  <2>2. a \in Int /\ b \in Int
    BY <1>3, <1>5, <2>1
  <2>3. Given(d.get, a) \in Int /\ Given(d.set, b) \in Int
    BY <1>4, <2>2, GivenIs
  <2> QED
    BY <2>1, <2>3
<1>12. Given(d.w, old.w) \in BOOLEAN /\ Given(d.e, old.e) \in BOOLEAN /\ Given(d.c, old.c) \in BOOLEAN
  BY <1>3, <1>4, GivenIs
<1>13. PICK v1, get, set1, w, e, c : /\ v1 = (IF ~acc /\ v = Nil THEN Undefined ELSE v)
                                    /\ get = Given(d.get, IF d.v # {} THEN NoFunc ELSE old.get)
                                    /\ set1 = Given(d.set, IF d.v # {} THEN NoFunc ELSE old.set)
                                    /\ w = Given(d.w, old.w) /\ e = Given(d.e, old.e) /\ c = Given(d.c, old.c)
  OBVIOUS
<1>14. v1 \in Int /\ get \in Int /\ set1 \in Int /\ w \in BOOLEAN /\ e \in BOOLEAN /\ c \in BOOLEAN
  BY <1>9, <1>11, <1>12, <1>13
<1>15. \/ _defineOwnProperty(p, d) = PlainValue(Given(d.v, Nil))
       \/ _defineOwnProperty(p, d) = Property(v1, get, set1, w, e, c, acc, FALSE)
  BY <1>1, <1>6, <1>8, <1>13, Zenon DEF _defineOwnProperty
<1>16. Property(v1, get, set1, w, e, c, acc, FALSE) \in AnyProp /\ Property(v1, get, set1, w, e, c, acc, FALSE).plain = FALSE
  BY <1>7, <1>14 DEF Property, AnyProp
<1>17. Absent.plain = TRUE
  BY DEF Absent, Property
<1>18. PlainValue(Given(d.v, Nil)) \in AnyProp \ {Absent}
  BY <1>10, PlainIs
<1> QED
  BY <1>15, <1>16, <1>17, <1>18

\* A value is put.
LEMMA Puts ==
    ASSUME NEW its, NEW x, NEW h \in Keeps(its, x), NEW o \in Objects, NEW n \in Nat, NEW p \in AnyProp \ {Absent}
    PROVE  _put(h, o, n, p) \in Keeps(its, x) /\ Done(_put(h, o, n, p)) \in Answers(its, x)
<1>1. Good(h, x) /\ h.its = its
  BY DEF Keeps
<1>2. StaysGood(h, _put(h, o, n, p), x)
  BY <1>1, ValuePut
<1>3. _put(h, o, n, p) \in Keeps(its, x)
  BY <1>1, <1>2, KeepsIs
<1> QED
  BY <1>3, AnswerIs

\* A property is defined.
LEMMA Defines ==
    ASSUME NEW its, NEW x, NEW h \in Keeps(its, x), NEW o \in Objects, NEW n \in Nat, NEW d \in Descs
    PROVE  defineOwnProperty(h, o, n, d) \in Answers(its, x)
<1>1. PICK p : p = getOwnProp(h, o, n)
  OBVIOUS
<1>2. p \in AnyProp
  BY <1>1, ValuesAre DEF Keeps
<1>3. _defineOwnProperty(p, d) \in AnyProp \ {Absent}
  BY <1>2, DefinedIs
<1>4. Done(_put(h, o, n, _defineOwnProperty(p, d))) \in Answers(its, x)
  BY <1>3, Puts
<1>5. Refused(h) \in Answers(its, x)
  BY AnswerIs
<1> QED
  BY <1>1, <1>4, <1>5 DEF defineOwnProperty

\* A property that there is gets a value.
LEMMA Assigns ==
    ASSUME NEW its, NEW x, NEW h \in Keeps(its, x), NEW o \in Objects, NEW n \in Nat, NEW p \in AnyProp, NEW v \in Int
    PROVE  assignTo(h, o, n, p, v) \in Answers(its, x)
<1>1. Refused(h) \in Answers(its, x) /\ Result(h, TRUE, p.set, <<>>) \in Answers(its, x)
  <2>1. p.set \in Int
    BY DEF AnyProp
  <2> QED
    BY <2>1, AnswerIs
<1>2. Done(_put(h, o, n, PlainValue(v))) \in Answers(its, x)
  BY PlainIs, Puts
<1>3. ASSUME ~p.plain PROVE Done(_put(h, o, n, [p EXCEPT !.v = v])) \in Answers(its, x)
  <2>1. [p EXCEPT !.v = v] \in AnyProp \ {Absent}
    BY <1>3, SomeProps
  <2> QED
    BY <2>1, Puts
<1>4. CASE ~p.plain /\ ~isWritable(p)
  BY <1>1, <1>4 DEF assignTo
<1>5. CASE ~p.plain /\ isWritable(p)
  BY <1>1, <1>3, <1>5 DEF assignTo
<1>6. CASE p.plain
  BY <1>2, <1>6 DEF assignTo
<1> QED
  BY <1>4, <1>5, <1>6

\* A property is set on a receiver.
LEMMA SetsOn ==
    ASSUME NEW its, NEW x, NEW h \in Keeps(its, x), NEW o \in Objects, NEW n \in Nat, NEW p, NEW v \in Int
    PROVE  setOn(h, o, n, p, v) \in Answers(its, x)
<1>1. Refused(h) \in Answers(its, x)
  BY AnswerIs
<1>2. JustValue(v) \in Descs /\ FullValue(v) \in Descs
  BY SomeDescs DEF Flags
<1>3. defineOwnProperty(h, o, n, JustValue(v)) \in Answers(its, x) /\ defineOwnProperty(h, o, n, FullValue(v)) \in Answers(its, x)
  BY <1>2, Defines
<1> QED
  BY <1>1, <1>3 DEF setOn

\* The rest of the record of o changes, and neither its names nor their values.
LEMMA FieldsChanged ==
    ASSUME NEW its, NEW x, NEW h \in Keeps(its, x), NEW o \in Objects, NEW y \in AnyTable, y.names = h.objs[o].names,
           {k \in DOMAIN y.values : ~IsSymbol(k)} = {k \in DOMAIN h.objs[o].values : ~IsSymbol(k)},
           y.idxPropCount = h.objs[o].idxPropCount, y.lastSortedPropLen = h.objs[o].lastSortedPropLen
    PROVE  WithTable(h, o, y) \in Keeps(its, x)
<1>1. h \in Heaps /\ Good(h, x) /\ Memory(h, x) /\ h.its = its /\ Ordered(h, o, h.objs[o].lastSortedPropLen)
  BY DEF Keeps, Good
<1>2. PICK g : g = WithTable(h, o, y)
  OBVIOUS
<1>3. Only(h, g, x, o) /\ g.objs[o] = y /\ Names(g, o) = Names(h, o) /\ NamesIn(g, Names(g, o)) = NamesIn(h, Names(h, o))
  BY <1>1, <1>2, OtherFields
<1>4. Ordered(g, o, g.objs[o].lastSortedPropLen)
  BY <1>1, <1>3 DEF Ordered, Lists
<1>5. StaysGood(h, g, x)
  BY <1>1, <1>3, <1>4, KeptIf
<1> QED
  BY <1>1, <1>2, <1>5, KeepsIs

\* The symbols that remain.
LEMMA WithoutIs ==
    ASSUME NEW q \in Seq(Nat), NEW n
    PROVE  without(q, n) \in Seq(Nat)
<1>1. PICK at : at = {j \in DOMAIN q : q[j] = n}
  OBVIOUS
<1>2. CASE at = {}
  BY <1>1, <1>2 DEF without
<1>3. CASE at # {}
  <2>1. PICK j : j \in at
    BY <1>3
  <2>2. at \in SUBSET Nat /\ at \in SUBSET Int /\ at \in SUBSET (1..Len(q))
    BY <1>1
  <2>3. PICK m \in at : \A k \in at : m <= k
    BY <2>1, <2>2, Least
  <2>4. Min(at) = m /\ m \in 1..Len(q)
    BY <2>2, <2>3, MinIs
  <2>5. RemoveAt(q, m) \in Seq(Nat)
    BY <2>4 DEF RemoveAt
  <2> QED
    BY <1>1, <1>3, <2>4, <2>5 DEF without
<1> QED
  BY <1>2, <1>3

\* A property is deleted.
LEMMA Deletes ==
    ASSUME NEW its, NEW x, NEW h \in Keeps(its, x), NEW o \in Objects, NEW n \in Nat
    PROVE  deleteName(h, o, n) \in Answers(its, x)
<1>1. h \in Heaps /\ Good(h, x) /\ h.its = its
  BY DEF Keeps
<1>2. PICK p, t : p = getOwnProp(h, o, n) /\ t = h.objs[o]
  OBVIOUS
<1>3. Done(h) \in Answers(its, x) /\ Refused(h) \in Answers(its, x)
  BY AnswerIs
<1>4. ASSUME p # Absent, ~IsSymbol(n) PROVE Done(_delete(h, o, n)) \in Answers(its, x)
  <2>1. n \in DOMAIN h.objs[o].values
    BY <1>1, <1>2, <1>4, ValuesAre
  <2>2. StaysGood(h, _delete(h, o, n), x)
    BY <1>1, <1>4, <2>1, NameDeleted
  <2>3. _delete(h, o, n) \in Keeps(its, x)
    BY <1>1, <2>2, KeepsIs
  <2> QED
    BY <2>3, AnswerIs
<1>5. ASSUME p # Absent, IsSymbol(n), NEW g, g = [h EXCEPT !.objs[o] = [@ EXCEPT !.values = Lacking(t.values, n), !.syms = without(t.syms, n)]]
      PROVE  Done(g) \in Answers(its, x)
  <2>1. PICK v, q, y : v = Lacking(t.values, n) /\ q = without(t.syms, n) /\ y = [t EXCEPT !.values = v, !.syms = q]
    BY Zenon
  <2>2. t \in AnyTable /\ t.values \in [DOMAIN t.values -> AnyProp \ {Absent}] /\ DOMAIN t.values \in SUBSET Nat
    BY <1>1, <1>2, ValuesAre, Parts
  <2>3. PICK D : D = DOMAIN t.values \ {n}
    OBVIOUS
  <2>4. D \in SUBSET Nat /\ v \in [D -> AnyProp \ {Absent}] /\ DOMAIN v = D
    BY <2>1, <2>2, <2>3 DEF Lacking
  <2>5. q \in Seq(Nat)
    BY <2>1, <2>2, WithoutIs DEF AnyTable
  <2>6. y \in AnyTable /\ y.names = t.names /\ y.values = v /\ y.idxPropCount = t.idxPropCount /\ y.lastSortedPropLen = t.lastSortedPropLen
    <3>1. PICK z : z = [t EXCEPT !.values = v]
      OBVIOUS
    <3>2. z \in AnyTable /\ z.values = v /\ z.names = t.names /\ z.idxPropCount = t.idxPropCount /\ z.lastSortedPropLen = t.lastSortedPropLen
      BY <2>2, <2>4, <3>1, OtherValues
    <3>3. y = [z EXCEPT !.syms = q]
      BY <2>1, <3>1
    <3>4. y \in AnyTable /\ y.names = z.names /\ y.values = z.values /\ y.idxPropCount = z.idxPropCount /\ y.lastSortedPropLen = z.lastSortedPropLen
      BY <2>5, <3>2, <3>3 DEF AnyTable
    <3> QED
      BY <3>2, <3>4
  <2>7. {k \in DOMAIN v : ~IsSymbol(k)} = {k \in DOMAIN t.values : ~IsSymbol(k)}
    BY <1>5, <2>3, <2>4
  <2>8. g = WithTable(h, o, y)
    BY <1>2, <1>5, <2>1, Zenon DEF WithTable
  <2>9. WithTable(h, o, y) \in Keeps(its, x)
    BY <1>2, <2>6, <2>7, FieldsChanged
  <2>10. g \in Keeps(its, x)
    BY <2>8, <2>9
  <2> QED
    BY <2>10, AnswerIs
<1>6. CASE p = Absent
  BY <1>2, <1>3, <1>6 DEF deleteName
<1>7. CASE p # Absent /\ ~p.c
  BY <1>2, <1>3, <1>7 DEF deleteName
<1>8. CASE p # Absent /\ p.c
  <2>1. CASE ~IsSymbol(n)
    BY <1>2, <1>4, <1>8, <2>1 DEF deleteName
  <2>2. CASE IsSymbol(n)
    <3>1. PICK g : g = [h EXCEPT !.objs[o] = [@ EXCEPT !.values = Lacking(t.values, n), !.syms = without(t.syms, n)]]
      OBVIOUS
    <3>2. deleteName(h, o, n) = Done(g)
      BY <1>2, <1>8, <2>2, <3>1 DEF deleteName
    <3> QED
      BY <1>5, <1>8, <2>2, <3>1, <3>2
  <2> QED
    BY <2>1, <2>2
<1> QED
  BY <1>6, <1>7, <1>8

\* The prototype changes, or the object is not extensible any more.
LEMMA ProtoSet ==
    ASSUME NEW its, NEW x, NEW h \in Keeps(its, x), NEW o \in Objects, NEW proto \in Objects \union {Null}
    PROVE  setProto(h, o, proto) \in Answers(its, x)
<1>1. PICK t, y : t = h.objs[o] /\ y = [t EXCEPT !.proto = proto]
  OBVIOUS
<1>2. t \in AnyTable
  BY <1>1, Parts DEF Keeps
<1>3. y \in AnyTable /\ y.names = t.names /\ y.values = t.values /\ y.idxPropCount = t.idxPropCount /\ y.lastSortedPropLen = t.lastSortedPropLen
  BY <1>1, <1>2 DEF AnyTable
<1>4. WithTable(h, o, y) \in Keeps(its, x)
  BY <1>1, <1>3, FieldsChanged
<1>5. [h EXCEPT !.objs[o].proto = proto] = WithTable(h, o, y)
  BY <1>1, Zenon DEF WithTable
<1>6. Done(h) \in Answers(its, x) /\ Refused(h) \in Answers(its, x) /\ Done(WithTable(h, o, y)) \in Answers(its, x)
  BY <1>4, AnswerIs
<1>7. setProto(h, o, proto) \in {Done(h), Refused(h), Done([h EXCEPT !.objs[o].proto = proto])}
  BY DEF setProto
<1> QED
  BY <1>5, <1>6, <1>7

\* The same of preventExtensions.
LEMMA ExtensionsPrevented ==
    ASSUME NEW its, NEW x, NEW h \in Keeps(its, x), NEW o \in Objects
    PROVE  preventExtensions(h, o) \in Keeps(its, x)
<1>1. PICK t, y : t = h.objs[o] /\ y = [t EXCEPT !.extensible = FALSE]
  OBVIOUS
<1>2. t \in AnyTable
  BY <1>1, Parts DEF Keeps
<1>3. y \in AnyTable /\ y.names = t.names /\ y.values = t.values /\ y.idxPropCount = t.idxPropCount /\ y.lastSortedPropLen = t.lastSortedPropLen
  BY <1>1, <1>2 DEF AnyTable
<1>4. WithTable(h, o, y) \in Keeps(its, x)
  BY <1>1, <1>3, FieldsChanged
<1>5. preventExtensions(h, o) = WithTable(h, o, y)
  BY <1>1, Zenon DEF WithTable, preventExtensions
<1> QED
  BY <1>4, <1>5

\* Where such a function starts in S and stays in S, it ends in S.
LEMMA FoldStays ==
    ASSUME NEW n \in Nat, NEW S, NEW g, g[{}] \in S,
           \A s \in SUBSET (1..n) : s # {} /\ g[s \ {Max(s)}] \in S => g[s] \in S
    PROVE  g[1..n] \in S
<1> DEFINE B == {m \in 0..n : g[1..m] \notin S}
<1>1. SUFFICES ASSUME n \in B PROVE FALSE
  OBVIOUS
<1>2. PICK m \in B : \A k \in B : m <= k
  <2>1. B \in SUBSET Nat
    OBVIOUS
  <2> HIDE DEF B
  <2> QED
    BY <1>1, <2>1, Least
<1>3. m # 0
  <2>1. 1..0 = {}
    OBVIOUS
  <2> QED
    BY <2>1
<1>4. m - 1 \in 0..n /\ m - 1 \notin B
  BY <1>2, <1>3
<1>5. g[1..m - 1] \in S
  BY <1>4
<1>6. 1..m \in SUBSET (1..n) /\ m \in 1..m /\ \A k \in 1..m : k <= m
  BY <1>3
<1>7. Max(1..m) = m
  <2>1. 1..m \in SUBSET Int
    OBVIOUS
  <2> QED
    BY <1>6, <2>1, MaxIs
<1>8. (1..m) \ {m} = 1..m - 1
  BY <1>3
<1>9. g[1..m] \in S
  <2>1. (1..m) # {} /\ g[(1..m) \ {Max(1..m)}] \in S
    BY <1>5, <1>6, <1>7, <1>8
  <2> QED
    BY <1>6, <2>1
<1> QED
  BY <1>9, <1>2

-----------------------------------------------------------------------------
(* Assignment along the prototypes                                         *)

\* Walks up the prototypes, with the answer that a walk comes to.
Climbs(its, x) ==
    {w \in [h : Keeps(its, x), at : Objects \union {Null}, receiver : Objects, idx : BOOLEAN, own : BOOLEAN, goes : BOOLEAN, handled : BOOLEAN,
            r : Answers(its, x)] : w.goes => w.at # Null}

\* A walk that starts.
LEMMA ClimbIs ==
    ASSUME NEW its, NEW x, NEW h \in Keeps(its, x), NEW at \in Objects \union {Null}, NEW receiver \in Objects, NEW idx \in BOOLEAN,
           NEW own \in BOOLEAN, NEW goes \in BOOLEAN, goes => at # Null, NEW handled \in BOOLEAN, NEW r \in Answers(its, x)
    PROVE  Climb(h, at, receiver, idx, own, goes, handled, r) \in Climbs(its, x)
  BY DEF Climb, Climbs

\* A walk is over.
LEMMA ClimbEnds ==
    ASSUME NEW its, NEW x, NEW w \in Climbs(its, x)
    PROVE  /\ Unhandled(w) \in Climbs(its, x)
           /\ \A r \in Answers(its, x) : Handled(w, r) \in Climbs(its, x)
           /\ \A at \in Objects : [w EXCEPT !.at = at] \in Climbs(its, x)
           /\ \A h \in Keeps(its, x) : [w EXCEPT !.h = h] \in Climbs(its, x)
           /\ [w EXCEPT !.idx = FALSE] \in Climbs(its, x)
<1>1. Unhandled(w) \in Climbs(its, x)
  BY DEF Climbs, Unhandled
<1>2. ASSUME NEW r \in Answers(its, x) PROVE Handled(w, r) \in Climbs(its, x)
  BY DEF Climbs, Climb, Handled, Answers
<1>3. ASSUME NEW at \in Objects PROVE [w EXCEPT !.at = at] \in Climbs(its, x)
  <2>1. at # Null
    BY ObjectsAre
  <2> QED
    BY <2>1 DEF Climbs
<1>4. ASSUME NEW h \in Keeps(its, x) PROVE [w EXCEPT !.h = h] \in Climbs(its, x)
  BY DEF Climbs
<1>5. [w EXCEPT !.idx = FALSE] \in Climbs(its, x)
  BY DEF Climbs
<1> QED
  BY <1>1, <1>2, <1>3, <1>4, <1>5

\* setOwn answers itself, or asks its prototype.
LEMMA AskedIs ==
    ASSUME NEW its, NEW x, NEW h \in Keeps(its, x), NEW o \in Objects, NEW n \in Nat, NEW v \in Int
    PROVE  asked(h, o, n, v) \in Climbs(its, x)
<1>1. PICK p, proto, w : p = getOwnProp(h, o, n) /\ proto = h.objs[o].proto
                         /\ w = Climb(h, proto, o, FALSE, TRUE, proto # Null, FALSE, Refused(h))
  OBVIOUS
<1>2. p \in AnyProp /\ proto \in Objects \union {Null}
  <2>1. h \in Heaps
    BY DEF Keeps
  <2> QED
    BY <1>1, <2>1, ValuesAre, Parts DEF AnyTable
<1>3. w \in Climbs(its, x)
  <2>1. Refused(h) \in Answers(its, x) /\ (proto # Null) \in BOOLEAN
    BY AnswerIs
  <2>2. Climb(h, proto, o, FALSE, TRUE, proto # Null, FALSE, Refused(h)) \in Climbs(its, x)
    BY <1>2, <2>1, ClimbIs
  <2> QED
    BY <1>1, <2>2
<1>4. Handled(w, assignTo(h, o, n, p, v)) \in Climbs(its, x)
  <2>1. assignTo(h, o, n, p, v) \in Answers(its, x)
    BY <1>2, Assigns
  <2> QED
    BY <1>3, <2>1, ClimbEnds
<1> QED
  BY <1>1, <1>3, <1>4 DEF asked

\* What an object does for the sake of a receiver.
LEMMA ForeignIs ==
    ASSUME NEW its, NEW x, NEW w \in Climbs(its, x), w.goes, NEW n \in Nat, NEW v \in Int, NEW p \in AnyProp
    PROVE  foreign(w, n, v, p) \in Climbs(its, x)
<1>1. PICK h, proto : h = w.h /\ proto = h.objs[w.at].proto
  OBVIOUS
<1>2. h \in Keeps(its, x) /\ w.at \in Objects
  BY <1>1 DEF Climbs
<1>3. proto \in Objects \union {Null}
  BY <1>1, <1>2, Parts DEF Keeps, AnyTable
<1>4. Unhandled(w) \in Climbs(its, x)
  BY ClimbEnds
<1>5. Handled(w, Refused(w.h)) \in Climbs(its, x)
  BY <1>1, <1>2, AnswerIs, ClimbEnds
<1>6. Handled(w, Result(w.h, TRUE, p.set, <<>>)) \in Climbs(its, x)
  <2>1. p.set \in Int
    BY DEF AnyProp
  <2>2. Result(w.h, TRUE, p.set, <<>>) \in Answers(its, x)
    BY <1>1, <1>2, <2>1, AnswerIs
  <2> QED
    BY <2>2, ClimbEnds
<1>7. CASE p # Absent /\ p.plain
  BY <1>4, <1>7 DEF foreign
<1>8. CASE p # Absent /\ ~p.plain /\ ~isWritable(p)
  BY <1>5, <1>8 DEF foreign
<1>9. CASE p # Absent /\ ~p.plain /\ isWritable(p)
  BY <1>4, <1>6, <1>9 DEF foreign
<1>10. CASE p = Absent /\ proto # Null
  <2>1. proto \in Objects
    BY <1>3, <1>10
  <2>2. [w EXCEPT !.at = proto] \in Climbs(its, x)
    BY <2>1, ClimbEnds
  <2>3. asked(w.h, proto, n, v) \in Climbs(its, x)
    BY <1>1, <1>2, <2>1, AskedIs
  <2>4. foreign(w, n, v, p) \in {[w EXCEPT !.at = proto], asked(w.h, proto, n, v)}
    BY <1>1, <1>10 DEF foreign
  <2> QED
    BY <2>2, <2>3, <2>4
<1>11. CASE p = Absent /\ proto = Null
  BY <1>1, <1>4, <1>11 DEF foreign
<1> QED
  BY <1>7, <1>8, <1>9, <1>10, <1>11

\* setForeign, for an index after the names are in order.
LEMMA ForeignSet ==
    ASSUME NEW its, NEW x, NEW w \in Climbs(its, x), w.goes, NEW n \in Nat, NEW v \in Int
    PROVE  setForeign(w, n, v) \in Climbs(its, x)
<1>1. PICK u : u = [w EXCEPT !.h = ensurePropOrder(w.h, w.at)]
  OBVIOUS
<1>2. PICK t : t = [u EXCEPT !.idx = FALSE]
  OBVIOUS
<1>3. w.h \in Keeps(its, x) /\ w.at \in Objects
  BY DEF Climbs
<1>4. u \in Climbs(its, x) /\ u.goes
  <2>1. StaysGood(w.h, ensurePropOrder(w.h, w.at), x)
    BY <1>3, OrderEnsured DEF Keeps
  <2>2. ensurePropOrder(w.h, w.at) \in Keeps(its, x)
    BY <1>3, <2>1, KeepsIs DEF Keeps
  <2>3. u.goes = w.goes
    BY <1>1 DEF Climbs
  <2> QED
    BY <1>1, <2>2, <2>3, ClimbEnds
<1>5. t \in Climbs(its, x) /\ t.goes
  <2>1. t.goes = u.goes
    BY <1>2, <1>4 DEF Climbs
  <2> QED
    BY <1>2, <1>4, <2>1, ClimbEnds
<1>6. /\ getOwnProp(w.h, w.at, n) \in AnyProp
      /\ getOwnProp(u.h, w.at, n) \in AnyProp
      /\ Absent \in AnyProp
  <2>1. w.h \in Heaps /\ u.h \in Heaps
    BY <1>3, <1>4 DEF Climbs, Keeps
  <2> QED
    BY <1>3, <2>1, ValuesAre DEF Absent, Property, AnyProp, Nil, NoFunc
<1>7. /\ foreign(w, n, v, getOwnProp(w.h, w.at, n)) \in Climbs(its, x)
      /\ foreign(u, n, v, Absent) \in Climbs(its, x)
      /\ foreign(t, n, v, getOwnProp(u.h, w.at, n)) \in Climbs(its, x)
  BY <1>4, <1>5, <1>6, ForeignIs
<1>8. setForeign(w, n, v)
      \in {foreign(w, n, v, getOwnProp(w.h, w.at, n)), foreign(u, n, v, Absent), foreign(t, n, v, getOwnProp(u.h, w.at, n))}
  BY <1>1, <1>2 DEF setForeign
<1> QED
  BY <1>7, <1>8

\* A walk to its end.
LEMMA Climbed ==
    ASSUME NEW its, NEW x, NEW w \in Climbs(its, x), NEW n \in Nat, NEW v \in Int, NEW c \in Nat, c = Cardinality(Objects)
    PROVE  climbed(w, n, v) \in Climbs(its, x)
<1> DEFINE S        == Climbs(its, x)
           Op(f, k) == IF f.goes THEN setForeign(f, n, v) ELSE f
           F        == [z \in (1..c) \X S |-> Op(z[2], z[1])]
           Is(f)    == f = [s \in SUBSET (1..c) |-> IF s = {} THEN w ELSE Op(f[s \ {Max(s)}], Max(s))]
           e        == CHOOSE f : Is(f)
<1>1. climbed(w, n, v) = e[1..c]
  BY DEF climbed, FoldLeft, MapThenFoldSet
<1>2. w \in S
  OBVIOUS
<1>3. ASSUME NEW f \in S, NEW k \in 1..c PROVE Op(f, k) \in S
  BY ForeignSet
<1> HIDE DEF S, Op
<1>4. F \in [(1..c) \X S -> S]
  BY <1>3
<1>5. \A s \in SUBSET (1..c) : s # {} => Max(s) \in 1..c /\ s \ {Max(s)} \in SUBSET (1..c)
  BY MaxWithin
<1>6. \E f : Is(f)
  <2>1. PICK f : Folds(f, c, S, w, F)
    <3> HIDE DEF F
    <3> QED
      BY <1>2, <1>4, FoldExists
  <2>2. /\ f \in [SUBSET (1..c) -> S]
        /\ \A s \in SUBSET (1..c) : f[s] = IF s = {} THEN w ELSE F[<<Max(s), f[s \ {Max(s)}]>>]
    BY <2>1 DEF Folds
  <2>3. ASSUME NEW s \in SUBSET (1..c), s # {} PROVE f[s] = Op(f[s \ {Max(s)}], Max(s))
    <3>1. <<Max(s), f[s \ {Max(s)}]>> \in (1..c) \X S
      BY <1>5, <2>2, <2>3
    <3> QED
      BY <2>2, <2>3, <3>1
  <2> QED
    BY <2>2, <2>3, ZenonT(60)
<1>7. Is(e)
  <2> HIDE DEF Is
  <2> QED
    BY <1>6
<1>8. e[{}] \in S
  BY <1>2, <1>7
<1>9. ASSUME NEW s \in SUBSET (1..c), s # {}, e[s \ {Max(s)}] \in S PROVE e[s] \in S
  <2>1. e[s] = Op(e[s \ {Max(s)}], Max(s)) /\ Max(s) \in 1..c
    BY <1>5, <1>7, <1>9
  <2> HIDE DEF e
  <2> QED
    BY <1>3, <1>9, <2>1
<1>10. e[1..c] \in S
  <2> HIDE DEF e
  <2> QED
    BY <1>8, <1>9, FoldStays
<1> QED
  BY <1>1, <1>10 DEF S

\* What a walk comes to.
LEMMA Settles ==
    ASSUME NEW its, NEW x, NEW w \in Climbs(its, x), NEW n \in Nat, NEW v \in Int
    PROVE  settled(w, n, v) \in Answers(its, x)
<1>1. w.h \in Keeps(its, x) /\ w.receiver \in Objects /\ w.r \in Answers(its, x) /\ w.own \in BOOLEAN /\ w.handled \in BOOLEAN
  BY DEF Climbs
<1>2. Done(_put(w.h, w.receiver, n, PlainValue(v))) \in Answers(its, x)
  BY <1>1, PlainIs, Puts
<1>3. Refused(w.h) \in Answers(its, x)
  BY <1>1, AnswerIs
<1>4. setOn(w.h, w.receiver, n, getOwnProp(w.h, w.receiver, n), v) \in Answers(its, x)
  BY <1>1, SetsOn
<1> QED
  BY <1>1, <1>2, <1>3, <1>4 DEF settled

\* An assignment to the receiver itself.
LEMMA SetsOwn ==
    ASSUME NEW its, NEW x, NEW h \in Keeps(its, x), NEW o \in Objects, NEW n \in Nat, NEW v \in Int
    PROVE  setOwn(h, o, n, v) \in Answers(its, x)
<1>1. asked(h, o, n, v) \in Climbs(its, x)
  BY AskedIs
<1>2. climbed(asked(h, o, n, v), n, v) \in Climbs(its, x)
  BY <1>1, ObjectsAre, Climbed
<1> QED
  BY <1>2, Settles DEF setOwn

\* An assignment, to the object that it starts from or to another.
LEMMA Sets ==
    ASSUME NEW its, NEW x, NEW h \in Keeps(its, x), NEW o \in Objects, NEW n \in Nat, NEW v \in Int, NEW receiver \in Objects
    PROVE  set(h, o, n, v, receiver) \in Answers(its, x)
<1>1. setOwn(h, o, n, v) \in Answers(its, x)
  BY SetsOwn
<1>2. PICK w : w = Climb(h, o, receiver, IsIndex(n), FALSE, TRUE, FALSE, Refused(h))
  OBVIOUS
<1>3. w \in Climbs(its, x)
  <2>1. o # Null /\ o \in Objects \union {Null} /\ Refused(h) \in Answers(its, x)
    BY AnswerIs, ObjectsAre
  <2>2. IsIndex(n) \in BOOLEAN
    BY DEF IsIndex
  <2>3. Climb(h, o, receiver, IsIndex(n), FALSE, TRUE, FALSE, Refused(h)) \in Climbs(its, x)
    BY <2>1, <2>2, ClimbIs
  <2> QED
    BY <1>2, <2>3
<1>4. climbed(w, n, v) \in Climbs(its, x)
  BY <1>3, ObjectsAre, Climbed
<1>5. settled(climbed(w, n, v), n, v) \in Answers(its, x)
  BY <1>4, Settles
<1> QED
  BY <1>1, <1>2, <1>5 DEF set

-----------------------------------------------------------------------------
(* Iterators                                                               *)

\* The i-th iterator becomes another.
WithIter(h, i, it) == [h EXCEPT !.its[i] = it]

\* No other iterator has the array of slice s, and an object that has it is marked.
Apart(h, i, s) ==
    /\ \A j \in Iters \ {i} : h.its[j].s.id = s.id => s.id = 0
    /\ \A o \in Objects : s.id = Names(h, o).id /\ s.id # 0 => namesMarkedForCopy(h, Names(h, o)) /\ Names(h, o).len > 0

\* What is good about all iterators is good about all but one.
LEMMA NobodyIs ==
    ASSUME NEW h, NEW i, Good(h, Nobody)
    PROVE  Good(h, i) /\ Iters \ {Nobody} = Iters /\ \A j \in Iters : Apart(h, j, h.its[j].s)
<1>1. Nobody \notin Iters
  BY PropertyTableAssumption DEF Iters, Nobody, Walk
<1>2. Iters \ {Nobody} = Iters
  BY <1>1
<1>3. Memory(h, Nobody)
  BY DEF Good
<1>4. /\ \A k \in Iters : \A o \in Objects :
           h.its[k].s.id = Names(h, o).id /\ Names(h, o).id # 0 => namesMarkedForCopy(h, Names(h, o)) /\ Names(h, o).len > 0
      /\ \A k, j \in Iters : k # j /\ h.its[k].s.id = h.its[j].s.id => h.its[k].s.id = 0
  BY <1>2, <1>3 DEF Memory
<1>5. Memory(h, i)
  BY <1>3, <1>4 DEF Memory
<1>6. \A j \in Iters : Apart(h, j, h.its[j].s)
  BY <1>4 DEF Apart
<1> QED
  BY <1>2, <1>5, <1>6 DEF Good

\* An iterator with a slice within its array; one that nobody else reads, unless it is marked, is as good as the others.
LEMMA IterSet ==
    ASSUME NEW h, NEW i \in Iters, Good(h, i), NEW it \in AnyIter, it.s.id \in DOMAIN h.arr, it.s.len <= Cap(h, it.s),
           NEW g, g = WithIter(h, i, it)
    PROVE  /\ Good(g, i) /\ g.arr = h.arr /\ g.objs = h.objs /\ g.its[i] = it /\ \A j \in Iters \ {i} : g.its[j] = h.its[j]
           /\ \A o \in Objects : Names(g, o) = Names(h, o)
           /\ Apart(h, i, it.s) => Good(g, Nobody)
<1>1. h \in Heaps /\ Memory(h, i)
  BY DEF Good
<1>2. PICK its : its = [h.its EXCEPT ![i] = it]
  OBVIOUS
<1>3. h.its \in [Iters -> AnyIter] /\ its \in [Iters -> AnyIter] /\ its[i] = it /\ \A j \in Iters \ {i} : its[j] = h.its[j]
  BY <1>1, <1>2, Parts
<1>4. g = [arr |-> h.arr, objs |-> h.objs, its |-> its]
  <2>1. g = [h EXCEPT !.its = its]
    BY <1>2, Zenon DEF WithIter
  <2> QED
    BY <1>1, <2>1, Replaced, ZenonT(60)
<1>5. g.arr = h.arr /\ g.objs = h.objs /\ g.its = its
  BY <1>4
<1>6. g \in Heaps
  <2>1. PICK D, arr, objs : D = DOMAIN h.arr /\ arr = h.arr /\ objs = h.objs
    OBVIOUS
  <2>2. D \in SUBSET Nat /\ arr \in [D -> Seq(Int)] /\ objs \in [Objects -> AnyTable]
    BY <1>1, <2>1, Parts
  <2>3. [arr |-> arr, objs |-> objs, its |-> its] \in Heaps
    BY <1>3, <2>2, WholeHeap
  <2> QED
    BY <1>4, <2>1, <2>3
<1>7. \A o \in Objects : Names(g, o) = Names(h, o) /\ NamesIn(g, Names(g, o)) = NamesIn(h, Names(h, o))
  BY <1>5 DEF Names, NamesIn
<1>8. \A o \in Objects : namesMarkedForCopy(g, Names(g, o)) <=> namesMarkedForCopy(h, Names(h, o))
  BY <1>5, <1>7 DEF namesMarkedForCopy, Cap
<1>9. /\ 0 \in DOMAIN g.arr /\ g.arr[0] = <<>>
      /\ \A o \in Objects : Names(g, o).id \in DOMAIN g.arr /\ Names(g, o).len <= Cap(g, Names(g, o))
      /\ \A j \in Iters : g.its[j].s.id \in DOMAIN g.arr /\ g.its[j].s.len <= Cap(g, g.its[j].s)
      /\ \A o, q \in Objects : o # q /\ Names(g, o).id = Names(g, q).id => Names(g, o).id = 0
  BY <1>1, <1>3, <1>5, <1>7 DEF Memory, Cap
<1>10. /\ \A k \in Iters \ {i} : \A o \in Objects :
            g.its[k].s.id = Names(g, o).id /\ Names(g, o).id # 0 => namesMarkedForCopy(g, Names(g, o)) /\ Names(g, o).len > 0
       /\ \A k, j \in Iters \ {i} : k # j /\ g.its[k].s.id = g.its[j].s.id => g.its[k].s.id = 0
  BY <1>1, <1>3, <1>5, <1>7, <1>8 DEF Memory
<1>11. Memory(g, i)
  BY <1>9, <1>10 DEF Memory
<1>12. ASSUME NEW o \in Objects PROVE Ordered(g, o, g.objs[o].lastSortedPropLen)
  BY <1>5, <1>7 DEF Good, Ordered
<1>13. ASSUME Apart(h, i, it.s) PROVE Memory(g, Nobody)
  <2>1. \A k \in Iters : \A o \in Objects :
            g.its[k].s.id = Names(g, o).id /\ Names(g, o).id # 0 => namesMarkedForCopy(g, Names(g, o)) /\ Names(g, o).len > 0
    BY <1>3, <1>5, <1>7, <1>8, <1>10, <1>13 DEF Apart
  <2>2. \A k, j \in Iters : k # j /\ g.its[k].s.id = g.its[j].s.id => g.its[k].s.id = 0
    BY <1>3, <1>5, <1>10, <1>13 DEF Apart
  <2> QED
    BY <1>9, <2>1, <2>2 DEF Memory
<1> QED
  BY <1>3, <1>5, <1>6, <1>7, <1>11, <1>12, <1>13 DEF Good

\* An iterator that nobody uses any more.
LEMMA Freed ==
    ASSUME NEW h, NEW i \in Iters, Good(h, i), NEW g, g = WithIter(h, i, NoIter)
    PROVE  Good(g, Nobody)
<1>1. NoIter \in AnyIter /\ NoIter.s.id = 0 /\ NoIter.s.len = 0
  BY DEF NoIter, AnyIter, Slice
<1>2. 0 \in DOMAIN h.arr /\ Cap(h, NoIter.s) = 0
  BY <1>1 DEF Good, Memory, Cap
<1>3. Apart(h, i, NoIter.s)
  BY <1>1 DEF Apart
<1> QED
  BY <1>1, <1>2, <1>3, IterSet

\* Other names in the same order.
LEMMA RenamedKept ==
    ASSUME NEW h, NEW x, Good(h, x), NEW o \in Objects, NEW g, Memory(g, x), Renamed(h, g, o),
           NamesIn(g, Names(g, o)) = NamesIn(h, Names(h, o))
    PROVE  StaysGood(h, g, x)
<1>1. h \in Heaps
  BY DEF Good
<1>2. Only(h, g, x, o)
  BY <1>1, OnlyRenamed
<1>3. g.objs[o].values = h.objs[o].values /\ g.objs[o].idxPropCount = h.objs[o].idxPropCount
      /\ g.objs[o].lastSortedPropLen = h.objs[o].lastSortedPropLen
  BY <1>1, Others
<1>4. Ordered(h, o, h.objs[o].lastSortedPropLen)
  BY DEF Good
<1>5. Ordered(g, o, g.objs[o].lastSortedPropLen)
  BY <1>3, <1>4 DEF Ordered
<1> QED
  BY <1>2, <1>5, KeptIf

\* The names of o are marked, unless there are none, in an array that no other iterator has.
LEMMA Shares ==
    ASSUME NEW h, NEW i, Good(h, i), NEW o \in Objects, NEW g, g = shared(h, o)
    PROVE  /\ StaysGood(h, g, i)
           /\ \A j \in Iters \ {i} : h.its[j].s.id = Names(g, o).id => Names(g, o).id = 0
           /\ Names(g, o).len > 0 => namesMarkedForCopy(g, Names(g, o))
<1>1. h \in Heaps /\ Memory(h, i)
  BY DEF Good
<1>2. PICK s, len, cap, old : s = Names(h, o) /\ len = s.len /\ cap = Cap(h, s) /\ old = h.arr[s.id]
  OBVIOUS
<1>3. /\ s \in Slices /\ len \in Nat /\ s.id \in DOMAIN h.arr /\ len <= cap /\ cap \in Nat
      /\ NamesIn(h, s) \in Seq(Int) /\ Len(NamesIn(h, s)) = len /\ \A j \in 1..len : NamesIn(h, s)[j] = old[j]
  BY <1>1, <1>2, TableIs
<1>4. old \in Seq(Int) /\ Len(old) = cap
  BY <1>1, <1>2, <1>3, Parts DEF Cap
<1>5. g = prepareNamesForCopy(h, o, s)
  BY <1>2 DEF shared
<1>6. CASE len = 0
  <2>1. g = h
    BY <1>2, <1>5, <1>6 DEF prepareNamesForCopy
  <2>2. \A j \in Iters \ {i} : h.its[j].s.id = Names(h, o).id /\ Names(h, o).id # 0 => Names(h, o).len > 0
    BY <1>1 DEF Memory
  <2>3. ~(Names(h, o).len > 0)
    BY <1>2, <1>6
  <2> QED
    BY <2>1, <2>2, <2>3 DEF StaysGood
<1>7. CASE len # 0 /\ cap > len /\ ~namesMarkedForCopy(h, s)
  <2>1. PICK array : array = [old EXCEPT ![cap] = Marker]
    OBVIOUS
  <2>2. array \in Seq(Int) /\ Len(array) = cap /\ array[cap] = Marker /\ \A j \in 1..len : array[j] = old[j]
    BY <1>3, <1>4, <1>7, <2>1 DEF Marker
  <2>3. g = useArray(h, o, s.id, array, len)
    BY <1>2, <1>5, <1>7, <2>1 DEF prepareNamesForCopy
  <2>4. cap > 0 /\ len \in 0..Len(array)
    BY <1>3, <1>7, <2>2
  <2>5. Memory(g, i) /\ Renamed(h, g, o) /\ NamesIn(g, Names(g, o)) = SubSeq(array, 1, len)
    BY <1>1, <1>2, <1>7, <2>2, <2>3, <2>4, InPlace, SMTT(30)
  <2>6. Names(g, o).len = len /\ Cap(g, Names(g, o)) = cap /\ Names(g, o).id = s.id /\ g.arr[s.id] = array
    BY <1>1, <1>2, <1>7, <2>2, <2>3, <2>4, InPlace, SMTT(30)
  <2>7. SubSeq(array, 1, len) = SubSeq(old, 1, len)
    BY <1>3, <1>4, <2>2, SameStart
  <2>8. StaysGood(h, g, i)
    BY <1>2, <2>5, <2>7, RenamedKept DEF NamesIn
  <2>9. namesMarkedForCopy(g, Names(g, o))
    BY <1>7, <2>2, <2>6 DEF namesMarkedForCopy
  <2>10. \A j \in Iters \ {i} : h.its[j].s.id = s.id => s.id = 0
    BY <1>1, <1>2, <1>7 DEF Memory
  <2> QED
    BY <2>6, <2>8, <2>9, <2>10
<1>8. CASE len # 0 /\ ~(cap > len /\ ~namesMarkedForCopy(h, s))
  <2>1. PICK c : c = IF cap = len THEN growCap(len + 1, len) ELSE cap
    OBVIOUS
  <2>2. c \in Nat /\ c > len
    BY <1>3, <2>1 DEF growCap
  <2>3. PICK more, array, id : /\ more = [j \in 1..c - len |-> IF j = c - len THEN Marker ELSE Blank]
                               /\ array = NamesIn(h, s) \o more /\ id = Fresh(h)
    OBVIOUS
  <2>4. more \in Seq(Int) /\ Len(more) = c - len /\ more[c - len] = Marker
    BY <1>3, <2>2, <2>3 DEF Marker, Blank
  <2>5. array \in Seq(Int) /\ Len(array) = c /\ array[c] = Marker /\ \A j \in 1..len : array[j] = NamesIn(h, s)[j]
    <3>1. PICK names \in Seq(Int) : names = NamesIn(h, s)
      BY <1>3
    <3>2. Len(names) = len /\ array = names \o more
      BY <1>3, <2>3, <3>1
    <3>3. /\ array \in Seq(Int) /\ Len(array) = Len(names) + Len(more)
          /\ \A j \in 1..Len(array) : array[j] = IF j <= Len(names) THEN names[j] ELSE more[j - Len(names)]
      <4>1. more \in Seq(Int)
        BY <2>4
      <4> QED
        BY <3>2, <4>1, ConcatProperties, ZenonT(60)
    <3>4. Len(array) = c /\ c \in 1..Len(array) /\ ~(c <= len)
      BY <1>3, <2>2, <2>4, <3>2, <3>3
    <3>5. array[c] = Marker
      BY <2>4, <3>2, <3>3, <3>4
    <3>6. \A j \in 1..len : array[j] = names[j]
      BY <1>3, <2>2, <3>2, <3>3, <3>4
    <3> QED
      BY <3>1, <3>3, <3>4, <3>5, <3>6
  <2>6. g = useArray(h, o, id, array, len)
    BY <1>2, <1>5, <1>8, <2>1, <2>3 DEF prepareNamesForCopy
  <2>7. id \in Nat \ {0} /\ (\A q \in Objects : Names(h, q).id # id) /\ (\A j \in Iters : h.its[j].s.id # id)
    BY <1>1, <2>3, FreshIs
  <2>8. Suits(h, i, o, id, array, len)
    BY <1>3, <2>2, <2>5, <2>7 DEF Suits
  <2>9. Memory(g, i) /\ Renamed(h, g, o) /\ NamesIn(g, Names(g, o)) = SubSeq(array, 1, len)
    BY <1>1, <2>6, <2>8, UseArray
  <2>10. Names(g, o).len = len /\ Names(g, o).id = id /\ g.arr[id] = array /\ Cap(g, Names(g, o)) = Len(array)
    BY <1>1, <2>6, <2>8, UseArray
  <2>11. SubSeq(array, 1, len) = NamesIn(h, s)
    <3>1. SubSeq(array, 1, len) = SubSeq(NamesIn(h, s), 1, len)
      BY <1>3, <2>2, <2>5, SameStart
    <3>2. SubSeq(NamesIn(h, s), 1, len) = NamesIn(h, s)
      BY <1>3
    <3> QED
      BY <3>1, <3>2
  <2>12. StaysGood(h, g, i)
    BY <1>2, <2>9, <2>11, RenamedKept
  <2>13. namesMarkedForCopy(g, Names(g, o))
    BY <2>2, <2>5, <2>10 DEF namesMarkedForCopy
  <2> QED
    BY <2>7, <2>10, <2>12, <2>13
<1> QED
  BY <1>6, <1>7, <1>8

\* What the i-th iterator does to the marker harms nobody else.
Clearable(h, i) ==
    Cap(h, h.its[i].s) > h.its[i].s.len =>
        /\ \A o \in Objects : Names(h, o).id = h.its[i].s.id => Names(h, o).len < Cap(h, h.its[i].s)
        /\ \A j \in Iters \ {i} : h.its[j].s.id # h.its[i].s.id

\* The i-th iterator is at an object; unless it has no names, it is as good as the others.
Started(h, i) ==
    /\ Good(h, i) /\ Clearable(h, i) /\ h.its[i].cur \in Objects /\ h.its[i].idx \in Nat /\ h.its[i].s.len \in Nat
    /\ h.its[i].seen \in SUBSET Int /\ (h.its[i].s.len > 0 => Good(h, Nobody))

\* In a good heap any iterator may clear its marker and go on.
LEMMA GoodClears ==
    ASSUME NEW h, NEW i \in Iters, Good(h, Nobody)
    PROVE  Clearable(h, i) /\ (h.its[i] # NoIter => Started(h, i))
<1>1. h \in Heaps /\ Memory(h, Nobody) /\ Good(h, i)
  BY NobodyIs DEF Good
<1>2. PICK s, cap : s = h.its[i].s /\ cap = Cap(h, s)
  OBVIOUS
<1>3. s \in Slices /\ s.len \in Nat /\ s.id \in DOMAIN h.arr /\ s.len <= cap /\ cap \in Nat
  BY <1>1, <1>2, Parts, SliceIs DEF Slices, Memory
<1>4. ASSUME cap > s.len PROVE s.id # 0
  BY <1>1, <1>2, <1>3, <1>4 DEF Memory, Cap
<1>5. Apart(h, i, s)
  BY <1>2, NobodyIs
<1>6. ASSUME cap > s.len, NEW o \in Objects, Names(h, o).id = s.id PROVE Names(h, o).len < cap
  <2>1. namesMarkedForCopy(h, Names(h, o))
    BY <1>4, <1>5, <1>6 DEF Apart
  <2>2. Cap(h, Names(h, o)) = cap
    BY <1>2, <1>6 DEF Cap
  <2>3. Names(h, o).len \in Nat
    BY <1>1, TableIs
  <2> QED
    BY <1>3, <2>1, <2>2, <2>3 DEF namesMarkedForCopy
<1>7. Clearable(h, i)
  BY <1>2, <1>4, <1>5, <1>6 DEF Clearable, Apart
<1>8. ASSUME h.its[i] # NoIter PROVE h.its[i].cur \in Objects /\ h.its[i].idx \in Nat /\ h.its[i].seen \in SUBSET Int
  <2>1. h.its[i] \in [cur : Objects, s : Slices, idx : Nat, seen : SUBSET Int]
    BY <1>1, <1>8, Parts DEF AnyIter
  <2> QED
    BY <2>1
<1> QED
  BY <1>1, <1>2, <1>3, <1>7, <1>8 DEF Started

\* The i-th iterator starts at an object.
LEMMA Starts ==
    ASSUME NEW h, NEW i \in Iters, Good(h, i), NEW o \in Objects, NEW seen \in SUBSET Int, NEW g, g = iterateStringKeys(h, o, i, seen)
    PROVE  Started(g, i) /\ g.its[i].s = Names(g, o)
<1>1. PICK e, f : e = ensurePropOrder(h, o) /\ f = shared(e, o)
  OBVIOUS
<1>2. Good(e, i)
  BY <1>1, OrderEnsured DEF StaysGood
<1>3. /\ Good(f, i)
      /\ \A j \in Iters \ {i} : f.its[j].s.id = Names(f, o).id => Names(f, o).id = 0
      /\ Names(f, o).len > 0 => namesMarkedForCopy(f, Names(f, o))
  BY <1>1, <1>2, Shares DEF StaysGood
<1>4. f \in Heaps /\ Memory(f, i)
  BY <1>3 DEF Good
<1>5. PICK s, it : s = Names(f, o) /\ it = [cur |-> o, s |-> s, idx |-> 0, seen |-> seen]
  OBVIOUS
<1>6. s \in Slices /\ s.len \in Nat /\ s.id \in DOMAIN f.arr /\ s.len <= Cap(f, s) /\ Cap(f, s) \in Nat
  BY <1>4, <1>5, TableIs
<1>7. it \in AnyIter /\ it.s = s /\ it.cur = o /\ it.idx = 0 /\ it.seen = seen
  BY <1>5, <1>6 DEF AnyIter
<1>8. g = WithIter(f, i, it)
  BY <1>1, <1>5 DEF iterateStringKeys, iterator, WithIter
<1>9. /\ Good(g, i) /\ g.arr = f.arr /\ g.objs = f.objs /\ g.its[i] = it /\ \A j \in Iters \ {i} : g.its[j] = f.its[j]
      /\ \A q \in Objects : Names(g, q) = Names(f, q)
  BY <1>3, <1>6, <1>7, <1>8, IterSet
<1>10. Cap(f, s) > s.len => s.id # 0
  BY <1>4, <1>6 DEF Memory, Cap
<1>11. \A q \in Objects : q # o /\ Names(f, q).id = s.id => s.id = 0
  BY <1>4, <1>5 DEF Memory
<1>12. Clearable(g, i)
  <2>1. Cap(g, s) = Cap(f, s)
    BY <1>9 DEF Cap
  <2>2. ASSUME Cap(f, s) > s.len, NEW q \in Objects, Names(f, q).id = s.id PROVE Names(f, q).len < Cap(f, s)
    BY <1>5, <1>6, <1>10, <1>11, <2>2
  <2>3. ASSUME Cap(f, s) > s.len, NEW j \in Iters \ {i} PROVE f.its[j].s.id # s.id
    BY <1>3, <1>5, <1>10, <2>3
  <2> QED
    BY <1>7, <1>9, <2>1, <2>2, <2>3 DEF Clearable
<1>13. ASSUME s.len > 0 PROVE Good(g, Nobody)
  <2>1. Apart(f, i, s)
    BY <1>3, <1>5, <1>11, <1>13 DEF Apart
  <2> QED
    BY <1>3, <1>6, <1>7, <1>8, <2>1, IterSet
<1>14. Started(g, i)
  BY <1>6, <1>7, <1>9, <1>12, <1>13 DEF Started
<1> QED
  BY <1>5, <1>7, <1>9, <1>14

\* The marker is cleared.
LEMMA Clears ==
    ASSUME NEW h, NEW i \in Iters, Good(h, i), Clearable(h, i), NEW g, g = clearNamesCopyMarker(h, h.its[i].s)
    PROVE  StaysGood(h, g, i) /\ g.objs = h.objs
<1>1. h \in Heaps /\ Memory(h, i)
  BY DEF Good
<1>2. PICK s, id, cap, old : s = h.its[i].s /\ id = s.id /\ cap = Cap(h, s) /\ old = h.arr[id]
  OBVIOUS
<1>3. s \in Slices /\ s.len \in Nat /\ id \in DOMAIN h.arr /\ s.len <= cap /\ cap \in Nat /\ id \in Nat
  BY <1>1, <1>2, Parts, SliceIs DEF Slices, Memory
<1>4. old \in Seq(Int) /\ Len(old) = cap
  BY <1>1, <1>2, <1>3, Parts DEF Cap
<1>5. CASE ~(cap > s.len)
  <2>1. g = h
    BY <1>2, <1>5 DEF clearNamesCopyMarker
  <2> QED
    BY <2>1 DEF StaysGood
<1>6. CASE cap > s.len
  <2>1. PICK array, arr : array = [old EXCEPT ![cap] = Blank] /\ arr = [h.arr EXCEPT ![id] = array]
    OBVIOUS
  <2>2. array \in Seq(Int) /\ Len(array) = cap /\ \A j \in 1..cap - 1 : array[j] = old[j]
    BY <1>3, <1>4, <1>6, <2>1 DEF Blank
  <2>3. DOMAIN h.arr \in SUBSET Nat /\ arr \in [DOMAIN h.arr -> Seq(Int)] /\ arr[id] = array /\ \A k \in DOMAIN h.arr : k # id => arr[k] = h.arr[k]
    BY <1>1, <1>3, <2>1, <2>2, Parts
  <2>4. g = [arr |-> arr, objs |-> h.objs, its |-> h.its]
    <3>1. g = [h EXCEPT !.arr[id][cap] = Blank]
      BY <1>2, <1>6 DEF clearNamesCopyMarker
    <3>2. g = [h EXCEPT !.arr = arr]
      BY <1>2, <2>1, <3>1, Zenon
    <3> QED
      BY <1>1, <3>2, Replaced, ZenonT(60)
  <2>5. g.arr = arr /\ g.objs = h.objs /\ g.its = h.its
    BY <2>4
  <2>6. g \in Heaps
    <3>1. PICK D : D = DOMAIN h.arr
      OBVIOUS
    <3>2. D \in SUBSET Nat /\ arr \in [D -> Seq(Int)] /\ h.objs \in [Objects -> AnyTable] /\ h.its \in [Iters -> AnyIter]
      BY <1>1, <2>3, <3>1, Parts
    <3> QED
      BY <2>4, <3>2, WholeHeap
  <2>7. id # 0
    <3>1. h.arr[0] = <<>>
      BY <1>1 DEF Memory
    <3>2. cap > 0
      BY <1>3, <1>6
    <3> QED
      BY <1>2, <1>4, <3>1, <3>2
  <2>8. /\ \A o \in Objects : Names(h, o).id = id => Names(h, o).len < cap
        /\ \A j \in Iters \ {i} : h.its[j].s.id # id
    BY <1>2, <1>6 DEF Clearable
  <2>9. \A o \in Objects : Names(g, o) = Names(h, o)
    BY <2>5 DEF Names
  <2>10. \A t : t.id \in DOMAIN h.arr => Cap(g, t) = Cap(h, t)
    BY <1>2, <1>4, <2>2, <2>3, <2>5 DEF Cap
  <2>11. ASSUME NEW o \in Objects PROVE NamesIn(g, Names(g, o)) = NamesIn(h, Names(h, o))
    <3>1. PICK t : t = Names(h, o)
      OBVIOUS
    <3>2. t \in Slices /\ t.len \in Nat /\ t.id \in DOMAIN h.arr
      BY <1>1, <3>1, TableIs
    <3>3. CASE t.id # id
      BY <2>3, <2>5, <2>9, <3>1, <3>2, <3>3 DEF NamesIn
    <3>4. CASE t.id = id
      <4>1. t.len < cap
        BY <2>8, <3>1, <3>4
      <4>2. SubSeq(array, 1, t.len) = SubSeq(old, 1, t.len)
        BY <1>3, <1>4, <2>2, <3>2, <4>1, SameStart
      <4>3. NamesIn(g, t) = SubSeq(array, 1, t.len) /\ NamesIn(h, t) = SubSeq(old, 1, t.len)
        BY <1>2, <2>3, <2>5, <3>4 DEF NamesIn
      <4> QED
        BY <2>9, <3>1, <4>2, <4>3
    <3> QED
      BY <3>3, <3>4
  <2>12. ASSUME NEW o \in Objects, Names(h, o).id # id, namesMarkedForCopy(h, Names(h, o)) PROVE namesMarkedForCopy(g, Names(h, o))
    <3>1. Names(h, o).id \in DOMAIN h.arr
      BY <1>1, TableIs
    <3>2. g.arr[Names(h, o).id] = h.arr[Names(h, o).id]
      BY <2>3, <2>5, <2>12, <3>1
    <3> QED
      BY <2>12, <3>2 DEF namesMarkedForCopy, Cap
  <2>13. Memory(g, i)
    <3>1. DOMAIN g.arr = DOMAIN h.arr
      BY <2>3, <2>5
    <3>2. 0 \in DOMAIN g.arr /\ g.arr[0] = <<>>
      BY <1>1, <2>3, <2>5, <2>7, <3>1 DEF Memory
    <3>3. \A o \in Objects : Names(g, o).id \in DOMAIN g.arr /\ Names(g, o).len <= Cap(g, Names(g, o))
      BY <1>1, <2>9, <2>10, <3>1 DEF Memory
    <3>4. \A j \in Iters : g.its[j].s.id \in DOMAIN g.arr /\ g.its[j].s.len <= Cap(g, g.its[j].s)
      BY <1>1, <2>5, <2>10, <3>1 DEF Memory
    <3>5. \A o, q \in Objects : o # q /\ Names(g, o).id = Names(g, q).id => Names(g, o).id = 0
      BY <1>1, <2>9 DEF Memory
    <3>6. \A k \in Iters \ {i} : \A o \in Objects :
            g.its[k].s.id = Names(g, o).id /\ Names(g, o).id # 0 => namesMarkedForCopy(g, Names(g, o)) /\ Names(g, o).len > 0
      BY <1>1, <2>5, <2>8, <2>9, <2>12 DEF Memory
    <3>7. \A k, j \in Iters \ {i} : k # j /\ g.its[k].s.id = g.its[j].s.id => g.its[k].s.id = 0
      BY <1>1, <2>5 DEF Memory
    <3> QED
      BY <3>2, <3>3, <3>4, <3>5, <3>6, <3>7 DEF Memory
  <2>14. \A o \in Objects : Ordered(g, o, g.objs[o].lastSortedPropLen)
    BY <2>5, <2>11 DEF Good, Ordered
  <2> QED
    BY <2>5, <2>6, <2>13, <2>14 DEF StaysGood, Good
<1> QED
  BY <1>5, <1>6

-----------------------------------------------------------------------------
(* For-in loops                                                            *)

\* What a loop has come to: it goes on at the next prototype, or it has a name, or it is over.
Stages(i) ==
    {r \in [h : Heaps, out : Seq(Int), up : BOOLEAN] :
        Good(r.h, i) /\ (r.up => Started(r.h, i)) /\ (r.out # <<>> => Good(r.h, Nobody))}

\* What it takes to be a stage.
LEMMA StageIs ==
    ASSUME NEW i, NEW h, Good(h, i), NEW out \in Seq(Int), NEW up \in BOOLEAN, up => Started(h, i), out # <<>> => Good(h, Nobody)
    PROVE  [h |-> h, out |-> out, up |-> up] \in Stages(i)
  BY DEF Stages, Good

\* The next name at one object, or on to its prototype.
LEMMA Here ==
    ASSUME NEW h, NEW i \in Iters, Started(h, i)
    PROVE  enumerateHere(h, i) \in Stages(i)
<1>1. Good(h, i) /\ Clearable(h, i) /\ h \in Heaps /\ Memory(h, i)
  BY DEF Started, Good
<1>2. PICK it, names, live, hits, proto :
        /\ it = h.its[i] /\ names = NamesIn(h, it.s) /\ live = alive(h, it) /\ proto = h.objs[it.cur].proto
        /\ hits = {j \in live : names[j] \notin it.seen /\ getOwnProp(h, it.cur, names[j]).e}
  OBVIOUS
<1>3. it \in [cur : Objects, s : Slices, idx : Nat, seen : SUBSET Int]
  <2>1. it.cur \in Objects
    BY <1>2 DEF Started
  <2>2. it # NoIter
    BY <2>1, ObjectsAre DEF NoIter
  <2> QED
    BY <1>1, <1>2, <2>2, Parts DEF AnyIter
<1>4. it.s \in Slices /\ it.s.len \in Nat /\ it.s.id \in DOMAIN h.arr /\ it.s.len <= Cap(h, it.s)
  BY <1>1, <1>2, <1>3 DEF Memory, Slices
<1>5. names \in Seq(Int) /\ Len(names) = it.s.len
  BY <1>1, <1>2, <1>4, SliceIs
<1>6. live \in SUBSET (1..it.s.len)
  <2>1. it.idx \in Nat
    BY <1>3
  <2> QED
    BY <1>2, <1>4, <2>1 DEF alive
<1>7. proto \in Objects \union {Null}
  <2>1. h.objs[it.cur] \in AnyTable
    BY <1>1, <1>3, Parts
  <2> QED
    BY <1>2, <2>1 DEF AnyTable
<1>8. \A j : passed(h, it, j) \in SUBSET Int
  <2>1. it.seen \in SUBSET Int /\ \A k \in live : names[k] \in Int
    BY <1>3, <1>5, <1>6
  <2> QED
    BY <1>2, <2>1 DEF passed
<1>9. CASE hits # {}
  <2>1. PICK m, seen, next, g : /\ m = Min(hits) /\ seen = passed(h, it, m)
                                /\ next = [it EXCEPT !.idx = m, !.seen = seen] /\ g = WithIter(h, i, next)
    BY Zenon
  <2>2. m \in hits
    <3>1. hits \in SUBSET Nat /\ hits \in SUBSET Int
      BY <1>2, <1>4, <1>6
    <3>2. PICK k \in hits : \A j \in hits : k <= j
      BY <1>9, <3>1, Least
    <3> QED
      BY <2>1, <3>1, <3>2, MinIs
  <2>3. m \in 1..it.s.len
    BY <1>2, <1>6, <2>2
  <2>4. m \in Nat /\ it.s.len > 0 /\ names[m] \in Int
    BY <1>4, <1>5, <2>3
  <2>5. next \in AnyIter /\ next.s = it.s
    <3>1. seen \in SUBSET Int
      BY <1>8, <2>1
    <3>2. next = [it EXCEPT !.idx = m, !.seen = seen]
      BY <2>1
    <3>3. next \in [cur : Objects, s : Slices, idx : Nat, seen : SUBSET Int] /\ next.s = it.s
      BY <1>3, <2>4, <3>1, <3>2
    <3> QED
      BY <3>3 DEF AnyIter
  <2>6. Good(h, Nobody)
    BY <1>2, <2>4 DEF Started
  <2>7. Apart(h, i, it.s)
    BY <1>2, <2>6, NobodyIs
  <2>8. Good(g, i) /\ Good(g, Nobody)
    <3>1. g = WithIter(h, i, next)
      BY <2>1, Zenon
    <3> QED
      BY <1>1, <1>4, <2>5, <2>7, <3>1, IterSet
  <2>9. enumerateHere(h, i) = [h |-> g, out |-> <<names[m]>>, up |-> FALSE]
    BY <1>2, <1>9, <2>1, ZenonT(60) DEF enumerateHere, WithIter
  <2>10. <<names[m]>> \in Seq(Int)
    BY <2>4
  <2> QED
    BY <2>8, <2>9, <2>10, StageIs
<1>10. CASE hits = {}
  <2>1. PICK f, g, seen : /\ f = clearNamesCopyMarker(h, it.s) /\ g = iterateStringKeys(f, proto, i, seen)
                          /\ seen = passed(h, it, it.s.len)
    OBVIOUS
  <2>2. Good(f, i)
    BY <1>1, <1>2, <2>1, Clears DEF StaysGood
  <2>3. seen \in SUBSET Int /\ <<>> \in Seq(Int)
    <3>1. seen \in SUBSET Int
      BY <1>8, <2>1, Zenon
    <3> QED
      BY <3>1
  <2>4. enumerateHere(h, i) = [h |-> IF proto = Null THEN f ELSE g, out |-> <<>>, up |-> proto # Null]
    BY <1>2, <1>10, <2>1, ZenonT(60) DEF enumerateHere
  <2>5. CASE proto = Null
    BY <2>2, <2>3, <2>4, <2>5, StageIs
  <2>6. CASE proto # Null
    <3>1. Started(g, i)
      BY <1>7, <2>1, <2>2, <2>3, <2>6, Starts
    <3>2. Good(g, i)
      BY <3>1 DEF Started
    <3> QED
      BY <2>3, <2>4, <2>6, <3>1, <3>2, StageIs
  <2> QED
    BY <2>5, <2>6
<1> QED
  BY <1>9, <1>10

\* The loop, up the prototypes.
LEMMA Enumerates ==
    ASSUME NEW h, NEW i \in Iters, Started(h, i), NEW c \in Nat, c = Cardinality(Objects)
    PROVE  FoldLeft(LAMBDA r, k : IF r.up THEN enumerateHere(r.h, i) ELSE r,
                    [h |-> h, out |-> <<>>, up |-> TRUE], [k \in 1..Cardinality(Objects) |-> k]) \in Stages(i)
<1> DEFINE S        == Stages(i)
           Op(f, k) == IF f.up THEN enumerateHere(f.h, i) ELSE f
           F        == [z \in (1..c) \X S |-> Op(z[2], z[1])]
           Is(f)    == f = [s \in SUBSET (1..c) |-> IF s = {} THEN [h |-> h, out |-> <<>>, up |-> TRUE] ELSE Op(f[s \ {Max(s)}], Max(s))]
           e        == CHOOSE f : Is(f)
<1>1. FoldLeft(LAMBDA r, k : IF r.up THEN enumerateHere(r.h, i) ELSE r,
               [h |-> h, out |-> <<>>, up |-> TRUE], [k \in 1..Cardinality(Objects) |-> k]) = e[1..c]
  BY DEF FoldLeft, MapThenFoldSet
<1>2. [h |-> h, out |-> <<>>, up |-> TRUE] \in S
  <2>1. Good(h, i) /\ <<>> \in Seq(Int)
    BY DEF Started
  <2>2. [h |-> h, out |-> <<>>, up |-> TRUE] \in Stages(i)
    BY <2>1, StageIs
  <2> QED
    BY <2>2
<1>3. ASSUME NEW f \in S, NEW k \in 1..c PROVE Op(f, k) \in S
  BY <1>3, Here DEF Stages
<1> HIDE DEF S, Op
<1>4. F \in [(1..c) \X S -> S]
  BY <1>3
<1>5. \A s \in SUBSET (1..c) : s # {} => Max(s) \in 1..c /\ s \ {Max(s)} \in SUBSET (1..c)
  BY MaxWithin
<1>6. \E f : Is(f)
  <2>1. PICK f : Folds(f, c, S, [h |-> h, out |-> <<>>, up |-> TRUE], F)
    <3> HIDE DEF F
    <3> QED
      BY <1>2, <1>4, FoldExists
  <2>2. /\ f \in [SUBSET (1..c) -> S]
        /\ \A s \in SUBSET (1..c) : f[s] = IF s = {} THEN [h |-> h, out |-> <<>>, up |-> TRUE] ELSE F[<<Max(s), f[s \ {Max(s)}]>>]
    BY <2>1 DEF Folds
  <2>3. ASSUME NEW s \in SUBSET (1..c), s # {} PROVE f[s] = Op(f[s \ {Max(s)}], Max(s))
    <3>1. <<Max(s), f[s \ {Max(s)}]>> \in (1..c) \X S
      BY <1>5, <2>2, <2>3
    <3> QED
      BY <2>2, <2>3, <3>1
  <2> QED
    BY <2>2, <2>3, ZenonT(60)
<1>7. Is(e)
  <2> HIDE DEF Is
  <2> QED
    BY <1>6
<1>8. e[{}] \in S
  BY <1>2, <1>7
<1>9. ASSUME NEW s \in SUBSET (1..c), s # {}, e[s \ {Max(s)}] \in S PROVE e[s] \in S
  <2>1. e[s] = Op(e[s \ {Max(s)}], Max(s)) /\ Max(s) \in 1..c
    BY <1>5, <1>7, <1>9
  <2> HIDE DEF e
  <2> QED
    BY <1>3, <1>9, <2>1
<1>10. e[1..c] \in S
  <2> HIDE DEF e
  <2> QED
    BY <1>8, <1>9, FoldStays
<1> QED
  BY <1>1, <1>10 DEF S

\* The next name of a loop, or its end.
LEMMA EnumeratesNext ==
    ASSUME NEW h, NEW i \in Iters, Started(h, i)
    PROVE  Good(enumerateNext(h, i).h, Nobody)
<1>1. PICK r : r = FoldLeft(LAMBDA f, k : IF f.up THEN enumerateHere(f.h, i) ELSE f,
                            [h |-> h, out |-> <<>>, up |-> TRUE], [k \in 1..Cardinality(Objects) |-> k])
  OBVIOUS
<1>2. r \in Stages(i)
  BY <1>1, ObjectsAre, Enumerates
<1>3. enumerateNext(h, i) = [r EXCEPT !.h = IF r.out = <<>> THEN [r.h EXCEPT !.its[i] = NoIter] ELSE r.h]
  BY <1>1 DEF enumerateNext
<1>4. r \in [h : Heaps, out : Seq(Int), up : BOOLEAN] /\ Good(r.h, i) /\ (r.out # <<>> => Good(r.h, Nobody))
  BY <1>2 DEF Stages
<1>5. PICK g : g = WithIter(r.h, i, NoIter)
  OBVIOUS
<1>6. Good(g, Nobody)
  BY <1>4, <1>5, Freed
<1>7. enumerateNext(h, i).h = IF r.out = <<>> THEN g ELSE r.h
  BY <1>3, <1>4, <1>5 DEF WithIter
<1> QED
  BY <1>4, <1>6, <1>7

-----------------------------------------------------------------------------
(* Walks over the properties of an object                                  *)

\* One property, sealed, frozen or assigned.
LEMMA Visits ==
    ASSUME NEW its, NEW x, NEW h \in Keeps(its, x), NEW o \in Objects, NEW n \in Nat, NEW how, NEW to \in Objects
    PROVE  visit(h, o, n, how, to) \in Answers(its, x)
<1>1. PICK p, w : p = getOwnProp(h, o, n) /\ w = IF how = "freeze" /\ ~p.acc THEN {FALSE} ELSE {}
  OBVIOUS
<1>2. p \in AnyProp
  BY <1>1, ValuesAre DEF Keeps
<1>3. w \in Flags
  BY <1>1 DEF Flags
<1>4. setOwn(h, to, n, Got(p)) \in Answers(its, x)
  BY <1>2, GotIs, SetsOwn
<1>5. Done(h) \in Answers(its, x)
  BY AnswerIs
<1>6. ASSUME ~p.plain PROVE Done(_put(h, to, n, [p EXCEPT !.c = FALSE])) \in Answers(its, x)
  <2>1. [p EXCEPT !.c = FALSE] \in AnyProp \ {Absent}
    <3>1. [p EXCEPT !.c = FALSE] \in AnyProp /\ [p EXCEPT !.c = FALSE].plain = FALSE
      BY <1>2, <1>6 DEF AnyProp
    <3>2. Absent.plain = TRUE
      BY DEF Absent, Property
    <3> QED
      BY <3>1, <3>2
  <2> QED
    BY <2>1, Puts
<1>7. defineOwnProperty(h, to, n, Descriptor({}, w, {}, {FALSE}, {}, {})) \in Answers(its, x)
  <2>1. Descriptor({}, w, {}, {FALSE}, {}, {}) \in Descs
    BY <1>3, SomeDescs
  <2> QED
    BY <2>1, Defines
<1>8. CASE how = "assign"
  BY <1>1, <1>4, <1>5, <1>8 DEF visit
<1>9. CASE how = "seal" /\ ~p.plain
  BY <1>1, <1>6, <1>9 DEF visit
<1>10. CASE how # "assign" /\ ~(how = "seal" /\ ~p.plain)
  BY <1>1, <1>7, <1>10 DEF visit
<1> QED
  BY <1>8, <1>9, <1>10

\* The names of a walk.
LEMMA NamesVisited ==
    ASSUME NEW h, NEW o \in Objects, NEW how, NEW to \in Objects, NEW sl, NEW n \in Nat, n = sl.len,
           NEW x, Good(h, x), Clearable(h, Walk), n > 0 => x = Nobody
    PROVE  visitNames(h, o, sl, how, to) \in {y \in Answers(h.its, x) : Clearable(y.h, Walk)}
<1>0. PICK q : q = [j \in 1..sl.len |-> j]
  OBVIOUS
<1>11. DOMAIN q = 1..n
  BY <1>0
<1> DEFINE S        == {y \in Answers(h.its, x) : Clearable(y.h, Walk)}
           Op(f, k) == IF f.ok /\ NamesIn(f.h, sl)[q[k]] \in DOMAIN f.h.objs[o].values THEN visit(f.h, o, NamesIn(f.h, sl)[q[k]], how, to) ELSE f
           F        == [z \in (1..n) \X S |-> Op(z[2], z[1])]
           Is(f)    == f = [s \in SUBSET (1..n) |-> IF s = {} THEN Done(h) ELSE Op(f[s \ {Max(s)}], Max(s))]
           e        == CHOOSE f : Is(f)
<1>1. visitNames(h, o, sl, how, to) = e[1..n]
  BY <1>0, <1>11 DEF visitNames, FoldLeft, MapThenFoldSet
<1>2. Done(h) \in S
  <2>1. h \in Keeps(h.its, x)
    BY DEF Keeps, Good
  <2>2. Done(h) \in Answers(h.its, x) /\ Done(h).h = h
    BY <2>1, AnswerIs DEF Done, Result
  <2> QED
    BY <2>2
<1>3. ASSUME NEW f \in S, NEW k \in 1..n PROVE Op(f, k) \in S
  <2>1. x = Nobody /\ f \in Answers(h.its, x) /\ Walk \in Iters
    BY <1>3, PropertyTableAssumption DEF Iters, Walk
  <2>2. f.h \in Keeps(h.its, x)
    BY <2>1 DEF Answers
  <2>3. PICK name : name = NamesIn(f.h, sl)[q[k]]
    OBVIOUS
  <2>4. ASSUME name \in DOMAIN f.h.objs[o].values PROVE visit(f.h, o, name, how, to) \in Answers(h.its, x)
    <3>1. name \in Nat
      BY <2>2, <2>4, ValuesAre DEF Keeps
    <3> QED
      BY <2>2, <3>1, Visits
  <2>5. Op(f, k) \in Answers(h.its, x)
    BY <2>1, <2>3, <2>4
  <2> HIDE DEF Op
  <2>6. Good(Op(f, k).h, Nobody)
    BY <2>1, <2>5 DEF Answers, Keeps
  <2>7. Clearable(Op(f, k).h, Walk)
    BY <2>1, <2>6, GoodClears
  <2> QED
    BY <2>5, <2>7
<1> HIDE DEF S, Op
<1>4. F \in [(1..n) \X S -> S]
  BY <1>3
<1>5. \A s \in SUBSET (1..n) : s # {} => Max(s) \in 1..n /\ s \ {Max(s)} \in SUBSET (1..n)
  BY MaxWithin
<1>6. \E f : Is(f)
  <2>1. PICK f : Folds(f, n, S, Done(h), F)
    <3> HIDE DEF F
    <3> QED
      BY <1>2, <1>4, FoldExists
  <2>2. /\ f \in [SUBSET (1..n) -> S]
        /\ \A s \in SUBSET (1..n) : f[s] = IF s = {} THEN Done(h) ELSE F[<<Max(s), f[s \ {Max(s)}]>>]
    BY <2>1 DEF Folds
  <2>3. ASSUME NEW s \in SUBSET (1..n), s # {} PROVE f[s] = Op(f[s \ {Max(s)}], Max(s))
    <3>1. <<Max(s), f[s \ {Max(s)}]>> \in (1..n) \X S
      BY <1>5, <2>2, <2>3
    <3> QED
      BY <2>2, <2>3, <3>1
  <2> QED
    BY <2>2, <2>3, ZenonT(60)
<1>7. Is(e)
  <2> HIDE DEF Is
  <2> QED
    BY <1>6
<1>8. e[{}] \in S
  BY <1>2, <1>7
<1>9. ASSUME NEW s \in SUBSET (1..n), s # {}, e[s \ {Max(s)}] \in S PROVE e[s] \in S
  <2>1. e[s] = Op(e[s \ {Max(s)}], Max(s)) /\ Max(s) \in 1..n
    BY <1>5, <1>7, <1>9
  <2> HIDE DEF e
  <2> QED
    BY <1>3, <1>9, <2>1
<1>10. e[1..n] \in S
  <2> HIDE DEF e
  <2> QED
    BY <1>8, <1>9, FoldStays
<1> QED
  BY <1>1, <1>10 DEF S

\* Then the symbols.
LEMMA SymbolsVisited ==
    ASSUME NEW its, NEW x, NEW h \in Keeps(its, x), NEW o \in Objects, NEW how, NEW to \in Objects, NEW n \in Nat, n = Len(h.objs[o].syms)
    PROVE  visitSymbols(h, o, how, to) \in Answers(its, x)
<1>0. PICK syms \in Seq(Nat) : syms = h.objs[o].syms
  BY Parts DEF Keeps, AnyTable
<1>11. DOMAIN syms = 1..n
  BY <1>0
<1> DEFINE S        == Answers(its, x)
           Op(f, k) == IF f.ok THEN visit(f.h, o, syms[k], how, to) ELSE f
           F        == [z \in (1..n) \X S |-> Op(z[2], z[1])]
           Is(f)    == f = [s \in SUBSET (1..n) |-> IF s = {} THEN Done(h) ELSE Op(f[s \ {Max(s)}], Max(s))]
           e        == CHOOSE f : Is(f)
<1>1. visitSymbols(h, o, how, to) = e[1..n]
  BY <1>0, <1>11 DEF visitSymbols, FoldLeft, MapThenFoldSet
<1>2. Done(h) \in S
  BY AnswerIs
<1>3. ASSUME NEW f \in S, NEW k \in 1..n PROVE Op(f, k) \in S
  <2>1. f.h \in Keeps(its, x)
    BY <1>3 DEF Answers
  <2>2. syms[k] \in Nat
    BY <1>11, <1>3
  <2>3. visit(f.h, o, syms[k], how, to) \in Answers(its, x)
    BY <2>1, <2>2, Visits
  <2> QED
    BY <1>3, <2>3
<1> HIDE DEF S, Op
<1>4. F \in [(1..n) \X S -> S]
  BY <1>3
<1>5. \A s \in SUBSET (1..n) : s # {} => Max(s) \in 1..n /\ s \ {Max(s)} \in SUBSET (1..n)
  BY MaxWithin
<1>6. \E f : Is(f)
  <2>1. PICK f : Folds(f, n, S, Done(h), F)
    <3> HIDE DEF F
    <3> QED
      BY <1>2, <1>4, FoldExists
  <2>2. /\ f \in [SUBSET (1..n) -> S]
        /\ \A s \in SUBSET (1..n) : f[s] = IF s = {} THEN Done(h) ELSE F[<<Max(s), f[s \ {Max(s)}]>>]
    BY <2>1 DEF Folds
  <2>3. ASSUME NEW s \in SUBSET (1..n), s # {} PROVE f[s] = Op(f[s \ {Max(s)}], Max(s))
    <3>1. <<Max(s), f[s \ {Max(s)}]>> \in (1..n) \X S
      BY <1>5, <2>2, <2>3
    <3> QED
      BY <2>2, <2>3, <3>1
  <2> QED
    BY <2>2, <2>3, ZenonT(60)
<1>7. Is(e)
  <2> HIDE DEF Is
  <2> QED
    BY <1>6
<1>8. e[{}] \in S
  BY <1>2, <1>7
<1>9. ASSUME NEW s \in SUBSET (1..n), s # {}, e[s \ {Max(s)}] \in S PROVE e[s] \in S
  <2>1. e[s] = Op(e[s \ {Max(s)}], Max(s)) /\ Max(s) \in 1..n
    BY <1>5, <1>7, <1>9
  <2> HIDE DEF e
  <2> QED
    BY <1>3, <1>9, <2>1
<1>10. e[1..n] \in S
  <2> HIDE DEF e
  <2> QED
    BY <1>8, <1>9, FoldStays
<1> QED
  BY <1>1, <1>10 DEF S

\* A walk over all properties.
LEMMA KeysIterated ==
    ASSUME NEW h, Good(h, Nobody), NEW o \in Objects, NEW how, NEW to \in Objects
    PROVE  Good(iterateKeys(h, o, how, to).h, Nobody)
<1>1. PICK start, s, n : start = iterateStringKeys(h, o, Walk, {}) /\ s = Names(start, o) /\ n = s.len
  OBVIOUS
<1>2. Walk \in Iters
  BY PropertyTableAssumption DEF Iters, Walk
<1>3. Started(start, Walk) /\ start.its[Walk].s = s
  <2>1. Good(h, Walk) /\ {} \in SUBSET Int
    BY NobodyIs
  <2>2. start = iterateStringKeys(h, o, Walk, {}) /\ s = Names(start, o)
    BY <1>1
  <2> QED
    BY <1>2, <2>1, <2>2, Starts
<1>4. PICK x : x = IF n > 0 THEN Nobody ELSE Walk
  OBVIOUS
<1>5. PICK y : y = visitNames(start, o, s, how, to)
  OBVIOUS
<1>6. y \in Answers(start.its, x) /\ Clearable(y.h, Walk)
  <2>1. n \in Nat /\ n = s.len /\ Clearable(start, Walk)
    BY <1>1, <1>3 DEF Started
  <2>2. Good(start, x) /\ (n > 0 => x = Nobody)
    BY <1>1, <1>3, <1>4 DEF Started
  <2>3. visitNames(start, o, s, how, to) \in {f \in Answers(start.its, x) : Clearable(f.h, Walk)}
    BY <2>1, <2>2, NamesVisited
  <2> QED
    BY <1>5, <2>3
<1>7. y.h \in Keeps(start.its, Walk) /\ y \in Answers(start.its, Walk)
  <2>1. Good(y.h, x) /\ y.h \in Heaps /\ y.h.its = start.its
    BY <1>6 DEF Answers, Keeps
  <2>2. Good(y.h, Walk)
    BY <1>4, <2>1, NobodyIs
  <2>3. y.h \in Keeps(start.its, Walk)
    BY <2>1, <2>2 DEF Keeps
  <2> QED
    BY <1>6, <2>3 DEF Answers
<1>8. PICK g, z : g = clearNamesCopyMarker(y.h, s) /\ z = visitSymbols(g, o, how, to)
  OBVIOUS
<1>9. g \in Keeps(start.its, Walk)
  <2>1. Good(y.h, Walk) /\ y.h.its = start.its
    BY <1>7 DEF Keeps
  <2>2. y.h.its[Walk].s = s
    BY <1>3, <2>1
  <2>3. g = clearNamesCopyMarker(y.h, y.h.its[Walk].s)
    BY <1>8, <2>2
  <2>4. StaysGood(y.h, g, Walk)
    BY <1>2, <1>6, <2>1, <2>3, Clears
  <2> QED
    BY <2>1, <2>4, KeepsIs
<1>10. z \in Answers(start.its, Walk)
  <2>1. g.objs[o].syms \in Seq(Nat)
    BY <1>9, Parts DEF Keeps, AnyTable
  <2>2. PICK m \in Nat : m = Len(g.objs[o].syms)
    BY <2>1
  <2>3. visitSymbols(g, o, how, to) \in Answers(start.its, Walk)
    BY <1>9, <2>2, SymbolsVisited
  <2> QED
    BY <1>8, <2>3
<1>11. PICK r : r = IF y.ok THEN z ELSE y
  OBVIOUS
<1>12. iterateKeys(h, o, how, to) = [r EXCEPT !.setter = NoFunc, !.h.its[Walk] = NoIter]
  BY <1>1, <1>5, <1>8, <1>11 DEF iterateKeys
<1>13. r \in Answers(start.its, Walk)
  BY <1>7, <1>10, <1>11
<1>14. Good(r.h, Walk)
  BY <1>13 DEF Answers, Keeps
<1>15. iterateKeys(h, o, how, to).h = WithIter(r.h, Walk, NoIter)
  BY <1>12, <1>13 DEF WithIter, Answers
<1> QED
  BY <1>2, <1>14, <1>15, Freed

-----------------------------------------------------------------------------
(* Programs                                                                *)

\* Arrays that nobody has are of no importance.
LEMMA CollectedIs ==
    ASSUME NEW h, Good(h, Nobody)
    PROVE  Good(Collected(h), Nobody)
<1>1. h \in Heaps /\ Memory(h, Nobody)
  BY DEF Good
<1>2. PICK live, arr : live = Live(h) /\ arr = [id \in live |-> h.arr[id]]
  OBVIOUS
<1>3. h.its \in [Iters -> AnyIter] /\ DOMAIN h.its = Iters
  BY <1>1, Parts
<1>4. /\ 0 \in live /\ (\A o \in Objects : Names(h, o).id \in live) /\ (\A i \in Iters : h.its[i].s.id \in live)
      /\ live \in SUBSET DOMAIN h.arr
  BY <1>1, <1>2, <1>3 DEF Live, Memory, Names
<1>5. live \in SUBSET Nat /\ arr \in [live -> Seq(Int)] /\ \A id \in live : arr[id] = h.arr[id]
  <2>1. DOMAIN h.arr \in SUBSET Nat /\ h.arr \in [DOMAIN h.arr -> Seq(Int)]
    BY <1>1, Parts
  <2> QED
    BY <1>2, <1>4, <2>1
<1>6. PICK g : g = Collected(h)
  OBVIOUS
<1>7. g = [arr |-> arr, objs |-> h.objs, its |-> h.its]
  <2>1. g = [h EXCEPT !.arr = arr]
    BY <1>2, <1>6, Zenon DEF Collected
  <2> QED
    BY <1>1, <2>1, Replaced, ZenonT(60)
<1>8. g.arr = arr /\ g.objs = h.objs /\ g.its = h.its /\ DOMAIN g.arr = live
  BY <1>5, <1>7
<1>9. g \in Heaps
  <2>1. h.objs \in [Objects -> AnyTable] /\ h.its \in [Iters -> AnyIter]
    BY <1>1, Parts
  <2> QED
    BY <1>5, <1>7, <2>1, WholeHeap
<1>10. \A o \in Objects : Names(g, o) = Names(h, o)
  BY <1>8 DEF Names
<1>11. \A o \in Objects : g.arr[Names(h, o).id] = h.arr[Names(h, o).id]
  BY <1>4, <1>5, <1>8
<1>12. \A i \in Iters : g.arr[h.its[i].s.id] = h.arr[h.its[i].s.id]
  BY <1>4, <1>5, <1>8
<1>13. \A o \in Objects : /\ NamesIn(g, Names(g, o)) = NamesIn(h, Names(h, o)) /\ Cap(g, Names(g, o)) = Cap(h, Names(h, o))
                          /\ namesMarkedForCopy(g, Names(g, o)) = namesMarkedForCopy(h, Names(h, o))
  BY <1>10, <1>11 DEF NamesIn, Cap, namesMarkedForCopy
<1>14. Memory(g, Nobody)
  <2>1. 0 \in DOMAIN g.arr /\ g.arr[0] = <<>>
    BY <1>1, <1>4, <1>5, <1>8 DEF Memory
  <2>2. \A o \in Objects : Names(g, o).id \in DOMAIN g.arr /\ Names(g, o).len <= Cap(g, Names(g, o))
    BY <1>1, <1>4, <1>8, <1>10, <1>13 DEF Memory
  <2>3. \A i \in Iters : g.its[i].s.id \in DOMAIN g.arr /\ g.its[i].s.len <= Cap(g, g.its[i].s)
    BY <1>1, <1>4, <1>8, <1>12 DEF Memory, Cap
  <2>4. \A o, q \in Objects : o # q /\ Names(g, o).id = Names(g, q).id => Names(g, o).id = 0
    BY <1>1, <1>10 DEF Memory
  <2>5. \A i \in Iters \ {Nobody} : \A o \in Objects :
          g.its[i].s.id = Names(g, o).id /\ Names(g, o).id # 0 => namesMarkedForCopy(g, Names(g, o)) /\ Names(g, o).len > 0
    BY <1>1, <1>8, <1>10, <1>13 DEF Memory
  <2>6. \A i, j \in Iters \ {Nobody} : i # j /\ g.its[i].s.id = g.its[j].s.id => g.its[i].s.id = 0
    BY <1>1, <1>8 DEF Memory
  <2> QED
    BY <2>1, <2>2, <2>3, <2>4, <2>5, <2>6 DEF Memory
<1>15. \A o \in Objects : Ordered(g, o, g.objs[o].lastSortedPropLen)
  BY <1>8, <1>13 DEF Good, Ordered
<1> QED
  BY <1>6, <1>9, <1>14, <1>15 DEF Good

\* Objects without properties.
LEMMA BareIs ==
    ASSUME NEW t \in Tables
    PROVE  Bare(t) \in Keeps(Bare(t).its, Nobody)
<1>1. PICK h, none : h = Bare(t) /\ none = Slice(0, 0)
  OBVIOUS
<1>2. PICK arr : arr = [id \in {0} |-> <<>>]
  OBVIOUS
<1>3. DOMAIN arr = {0} /\ arr[0] = <<>> /\ arr \in [{0} -> Seq(Int)] /\ {0} \in SUBSET Nat
  BY <1>2
<1>4. NoIter \in AnyIter /\ NoIter.s = none /\ none \in Slices /\ none.id = 0 /\ none.len = 0
  BY <1>1 DEF AnyIter, NoIter, Slice, Slices
<1>5. PICK its : its = [i \in Iters |-> NoIter]
  OBVIOUS
<1>6. its \in [Iters -> AnyIter] /\ \A i \in Iters : its[i] = NoIter
  BY <1>4, <1>5
<1>7. PICK objs : objs = [o \in Objects |-> [values |-> <<>>, names |-> none, syms |-> <<>>, lastSortedPropLen |-> 0,
                                             idxPropCount |-> 0, extensible |-> TRUE, proto |-> t[o].proto]]
  OBVIOUS
<1>8. h = [arr |-> arr, objs |-> objs, its |-> its]
  BY <1>1, <1>2, <1>5, <1>7 DEF Bare, Iters
<1>9. ASSUME NEW o \in Objects PROVE objs[o] \in AnyTable
  <2>1. t[o].proto \in Objects \union {Null}
    BY CallsAssumption DEF Null
  <2>2. <<>> \in UNION {[D -> AnyProp \ {Absent}] : D \in SUBSET Nat}
    <3>1. <<>> \in [{} -> AnyProp \ {Absent}] /\ {} \in SUBSET Nat
      OBVIOUS
    <3> QED
      BY <3>1
  <2>3. <<>> \in Seq(Nat)
    OBVIOUS
  <2> QED
    BY <1>4, <1>7, <2>1, <2>2, <2>3 DEF AnyTable
<1>10. h.arr = arr /\ h.objs = objs /\ h.its = its
  BY <1>8
<1>11. h \in Heaps
  <2>1. objs \in [Objects -> AnyTable]
    BY <1>7, <1>9
  <2> QED
    BY <1>3, <1>6, <1>8, <2>1, WholeHeap
<1>12. \A o \in Objects : /\ Names(h, o) = none /\ DOMAIN h.objs[o].values = {} /\ h.objs[o].idxPropCount = 0
                          /\ h.objs[o].lastSortedPropLen = 0
  BY <1>7, <1>10 DEF Names
<1>13. \A i \in Iters : h.its[i].s = none
  BY <1>4, <1>6, <1>10
<1>14. Cap(h, none) = 0 /\ NamesIn(h, none) = <<>>
  BY <1>3, <1>4, <1>10 DEF Cap, NamesIn
<1>15. Memory(h, Nobody)
  BY <1>3, <1>4, <1>10, <1>12, <1>13, <1>14 DEF Memory
<1>16. ASSUME NEW o \in Objects PROVE Ordered(h, o, h.objs[o].lastSortedPropLen)
  <2>1. PICK names : names = NamesIn(h, Names(h, o))
    OBVIOUS
  <2>2. names = <<>> /\ DOMAIN names = {} /\ Len(names) = 0
    BY <1>12, <1>14, <2>1
  <2>3. Lists(names, h.objs[o].values)
    BY <1>12, <2>2 DEF Lists, Range, IsInjective
  <2>4. InOrder(names, 0, 0)
    BY <2>2 DEF InOrder
  <2> QED
    BY <1>12, <2>1, <2>3, <2>4 DEF Ordered
<1> QED
  BY <1>1, <1>11, <1>15, <1>16 DEF Keeps, Good

\* An object gets properties.
LEMMA FilledIs ==
    ASSUME NEW its, NEW x, NEW h \in Keeps(its, x), NEW o \in Objects, NEW names \in Seq(Nat), NEW c \in Nat, c = Len(names)
    PROVE  filled(h, o, names) \in Keeps(its, x)
<1>0. DOMAIN names = 1..c
  OBVIOUS
<1> DEFINE S        == Keeps(its, x)
           Op(f, k) == _put(f, o, names[k], PlainValue(1))
           F        == [z \in (1..c) \X S |-> Op(z[2], z[1])]
           Is(f)    == f = [s \in SUBSET (1..c) |-> IF s = {} THEN h ELSE Op(f[s \ {Max(s)}], Max(s))]
           e        == CHOOSE f : Is(f)
<1>1. filled(h, o, names) = e[1..c]
  BY <1>0 DEF filled, FoldLeft, MapThenFoldSet
<1>2. h \in S
  OBVIOUS
<1>3. ASSUME NEW f \in S, NEW k \in 1..c PROVE Op(f, k) \in S
  <2>1. names[k] \in Nat /\ PlainValue(1) \in AnyProp \ {Absent}
    BY <1>3, PlainIs
  <2> QED
    BY <1>3, <2>1, Puts
<1> HIDE DEF S, Op
<1>4. F \in [(1..c) \X S -> S]
  BY <1>3
<1>5. \A s \in SUBSET (1..c) : s # {} => Max(s) \in 1..c /\ s \ {Max(s)} \in SUBSET (1..c)
  BY MaxWithin
<1>6. \E f : Is(f)
  <2>1. PICK f : Folds(f, c, S, h, F)
    <3> HIDE DEF F
    <3> QED
      BY <1>2, <1>4, FoldExists
  <2>2. /\ f \in [SUBSET (1..c) -> S]
        /\ \A s \in SUBSET (1..c) : f[s] = IF s = {} THEN h ELSE F[<<Max(s), f[s \ {Max(s)}]>>]
    BY <2>1 DEF Folds
  <2>3. ASSUME NEW s \in SUBSET (1..c), s # {} PROVE f[s] = Op(f[s \ {Max(s)}], Max(s))
    <3>1. <<Max(s), f[s \ {Max(s)}]>> \in (1..c) \X S
      BY <1>5, <2>2, <2>3
    <3> QED
      BY <2>2, <2>3, <3>1
  <2> QED
    BY <2>2, <2>3, ZenonT(60)
<1>7. Is(e)
  <2> HIDE DEF Is
  <2> QED
    BY <1>6
<1>8. e[{}] \in S
  BY <1>2, <1>7
<1>9. ASSUME NEW s \in SUBSET (1..c), s # {}, e[s \ {Max(s)}] \in S PROVE e[s] \in S
  <2>1. e[s] = Op(e[s \ {Max(s)}], Max(s)) /\ Max(s) \in 1..c
    BY <1>5, <1>7, <1>9
  <2> HIDE DEF e
  <2> QED
    BY <1>3, <1>9, <2>1
<1>10. e[1..c] \in S
  <2> HIDE DEF e
  <2> QED
    BY <1>8, <1>9, FoldStays
<1> QED
  BY <1>1, <1>10 DEF S

\* So do all of them.
LEMMA BuiltIs ==
    ASSUME NEW t \in Tables, NEW c \in Nat, c = Cardinality(Objects)
    PROVE  Good(Built(t), Nobody)
<1>0. PICK q : q = [o \in 1..Cardinality(Objects) |-> o]
  OBVIOUS
<1>11. DOMAIN q = 1..c /\ \A k \in 1..c : q[k] \in Objects
  BY <1>0, PropertyTableAssumption
<1>12. PICK g : g = FoldLeft(LAMBDA h, o : filled(h, o, t[o].names), Bare(t), q)
  BY Zenon
<1>13. g \in Keeps(Bare(t).its, Nobody)
  <2> DEFINE S        == Keeps(Bare(t).its, Nobody)
             Op(f, k) == filled(f, q[k], t[q[k]].names)
             F        == [z \in (1..c) \X S |-> Op(z[2], z[1])]
             Is(f)    == f = [s \in SUBSET (1..c) |-> IF s = {} THEN Bare(t) ELSE Op(f[s \ {Max(s)}], Max(s))]
             e        == CHOOSE f : Is(f)
  <2>1. g = e[1..c]
    BY <1>11, <1>12 DEF FoldLeft, MapThenFoldSet
  <2>2. Bare(t) \in S
    BY BareIs
  <2>3. ASSUME NEW f \in S, NEW k \in 1..c PROVE Op(f, k) \in S
    <3>1. t[q[k]].names \in Seq(Nat) /\ q[k] \in Objects
      BY <2>3, <1>11, CallsAssumption
    <3>2. PICK n \in Nat : n = Len(t[q[k]].names)
      BY <3>1
    <3> QED
      BY <2>3, <3>1, <3>2, FilledIs
  <2> HIDE DEF S, Op
  <2>4. F \in [(1..c) \X S -> S]
    BY <2>3
  <2>5. \A s \in SUBSET (1..c) : s # {} => Max(s) \in 1..c /\ s \ {Max(s)} \in SUBSET (1..c)
    BY MaxWithin
  <2>6. \E f : Is(f)
    <3>1. PICK f : Folds(f, c, S, Bare(t), F)
      <4> HIDE DEF F
      <4> QED
        BY <2>2, <2>4, FoldExists
    <3>2. /\ f \in [SUBSET (1..c) -> S]
          /\ \A s \in SUBSET (1..c) : f[s] = IF s = {} THEN Bare(t) ELSE F[<<Max(s), f[s \ {Max(s)}]>>]
      BY <3>1 DEF Folds
    <3>3. ASSUME NEW s \in SUBSET (1..c), s # {} PROVE f[s] = Op(f[s \ {Max(s)}], Max(s))
      <4>1. <<Max(s), f[s \ {Max(s)}]>> \in (1..c) \X S
        BY <2>5, <3>2, <3>3
      <4> QED
        BY <3>2, <3>3, <4>1
    <3> QED
      BY <3>2, <3>3, ZenonT(60)
  <2>7. Is(e)
    <3> HIDE DEF Is
    <3> QED
      BY <2>6
  <2>8. e[{}] \in S
    BY <2>2, <2>7
  <2>9. ASSUME NEW s \in SUBSET (1..c), s # {}, e[s \ {Max(s)}] \in S PROVE e[s] \in S
    <3>1. e[s] = Op(e[s \ {Max(s)}], Max(s)) /\ Max(s) \in 1..c
      BY <2>5, <2>7, <2>9
    <3> HIDE DEF e
    <3> QED
      BY <2>3, <2>9, <3>1
  <2>10. e[1..c] \in S
    <3> HIDE DEF e
    <3> QED
      BY <2>8, <2>9, FoldStays
  <2> QED
    BY <2>1, <2>10 DEF S
<1>14. Built(t) = Collected(g)
  BY <1>0, <1>12, Zenon DEF Built
<1> QED
  BY <1>13, <1>14, CollectedIs DEF Keeps

\* One call.
LEMMA StepIs ==
    ASSUME NEW c, NEW r, Good(r.h, Nobody), Step(c, r)
    PROVE  Good(heap, Nobody)'
<1>1. heap' = Collected(r.h)
  BY DEF Step
<1>2. Good(Collected(r.h), Nobody)
  BY CollectedIs
<1>3. Good(heap', Nobody)
  BY <1>1, <1>2, Zenon
<1>4. Good(heap', Nobody) => Good(heap, Nobody)'
  BY ZenonT(60) DEF Good, Memory, Ordered, Heaps, AnyTable, AnyIter, Iters, Names, NamesIn, Cap, namesMarkedForCopy, InOrder, Lists
<1> QED
  BY <1>3, <1>4

\* A call that answers leaves a good heap.
LEMMA ChangeIs ==
    ASSUME Good(heap, Nobody), NEW c \in Calls, Change(c)
    PROVE  \E r : Good(r.h, Nobody) /\ Step(c, r)
<1>1. PICK its : its = heap.its
  OBVIOUS
<1>2. heap \in Keeps(its, Nobody)
  BY <1>1 DEF Keeps, Good
<1>3. ASSUME NEW r \in Answers(its, Nobody) PROVE Good(r.h, Nobody)
  BY <1>3 DEF Answers, Keeps
<1>4. CASE c.m = "set" /\ Step(c, set(heap, c.o, c.n, c.v, c.r))
  <2>1. c.o \in Objects /\ c.n \in Nat /\ c.v \in Int /\ c.r \in Objects
    BY <1>4, CallsAssumption
  <2>2. set(heap, c.o, c.n, c.v, c.r) \in Answers(its, Nobody)
    BY <1>2, <2>1, Sets
  <2> QED
    BY <1>3, <1>4, <2>2
<1>5. CASE c.m = "define" /\ Step(c, defineOwnProperty(heap, c.o, c.n, c.d))
  <2>1. c.o \in Objects /\ c.n \in Nat /\ c.d \in Descs
    BY <1>5, CallsAssumption
  <2>2. defineOwnProperty(heap, c.o, c.n, c.d) \in Answers(its, Nobody)
    BY <1>2, <2>1, Defines
  <2> QED
    BY <1>3, <1>5, <2>2
<1>6. CASE c.m = "delete" /\ Step(c, deleteName(heap, c.o, c.n))
  <2>1. c.o \in Objects /\ c.n \in Nat
    BY <1>6, CallsAssumption
  <2>2. deleteName(heap, c.o, c.n) \in Answers(its, Nobody)
    BY <1>2, <2>1, Deletes
  <2> QED
    BY <1>3, <1>6, <2>2
<1>7. CASE c.m = "setProto" /\ Step(c, setProto(heap, c.o, c.p))
  <2>1. c.o \in Objects /\ c.p \in Objects \union {Null}
    BY <1>7, CallsAssumption DEF Null
  <2>2. setProto(heap, c.o, c.p) \in Answers(its, Nobody)
    BY <1>2, <2>1, ProtoSet
  <2> QED
    BY <1>3, <1>7, <2>2
<1>8. CASE c.m = "preventExtensions" /\ Step(c, Done(preventExtensions(heap, c.o)))
  <2>1. c.o \in Objects
    BY <1>8, CallsAssumption
  <2>2. preventExtensions(heap, c.o) \in Keeps(its, Nobody)
    BY <1>2, <2>1, ExtensionsPrevented
  <2>3. Done(preventExtensions(heap, c.o)) \in Answers(its, Nobody)
    BY <2>2, AnswerIs
  <2> QED
    BY <1>3, <1>8, <2>3
<1>9. CASE c.m \in {"seal", "freeze"} /\ Step(c, iterateKeys(preventExtensions(heap, c.o), c.o, c.m, c.o))
  <2>1. c.o \in Objects
    BY <1>9, CallsAssumption
  <2>2. Good(preventExtensions(heap, c.o), Nobody)
    BY <1>2, <2>1, ExtensionsPrevented DEF Keeps
  <2>3. Good(iterateKeys(preventExtensions(heap, c.o), c.o, c.m, c.o).h, Nobody)
    BY <2>1, <2>2, KeysIterated
  <2> QED
    BY <1>9, <2>3
<1>10. CASE c.m = "assign" /\ Step(c, iterateKeys(heap, c.r, "assign", c.o))
  <2>1. c.o \in Objects /\ c.r \in Objects
    BY <1>10, CallsAssumption
  <2>2. Good(iterateKeys(heap, c.r, "assign", c.o).h, Nobody)
    BY <2>1, KeysIterated
  <2> QED
    BY <1>10, <2>2
<1> QED
  BY <1>4, <1>5, <1>6, <1>7, <1>8, <1>9, <1>10 DEF Change

\* Every step leaves a good heap.
LEMMA NextKeeps ==
    ASSUME Good(heap, Nobody), Next
    PROVE  Good(heap, Nobody)'
<1>1. PICK c \in Calls : Change(c) \/ Keys(c) \/ Get(c) \/ ForIn(c) \/ EnumNext(c)
  BY DEF Next
<1>2. SUFFICES \E r : Good(r.h, Nobody) /\ Step(c, r)
  BY StepIs
<1>3. CASE Change(c)
  BY <1>3, ChangeIs
<1>4. CASE Keys(c)
  <2>1. PICK g : g = ensurePropOrder(heap, c.o)
    OBVIOUS
  <2>2. c.o \in Objects /\ Step(c, listed(g, c.o))
    BY <1>4, <2>1, CallsAssumption DEF Keys
  <2>3. Good(g, Nobody)
    BY <2>1, <2>2, OrderEnsured DEF StaysGood
  <2>4. listed(g, c.o).h = g
    BY DEF listed, Result
  <2> QED
    BY <2>2, <2>3, <2>4
<1>5. CASE Get(c)
  <2>1. PICK p : p = getStr(heap, c.o, c.n)
    OBVIOUS
  <2>2. Step(c, found(heap, p)) /\ found(heap, p).h = heap
    BY <1>5, <2>1 DEF Get, found, Result
  <2> QED
    BY <2>2
<1>6. ASSUME NEW h, NEW i \in Iters, Started(h, i), Step(c, advanced(enumerateNext(h, i)))
      PROVE  \E r : Good(r.h, Nobody) /\ Step(c, r)
  <2>1. advanced(enumerateNext(h, i)).h = enumerateNext(h, i).h
    BY DEF advanced, Result
  <2>2. Good(enumerateNext(h, i).h, Nobody)
    BY <1>6, EnumeratesNext
  <2> QED
    BY <1>6, <2>1, <2>2
<1>7. \A i \in 1..Loops : i \in Iters
  BY PropertyTableAssumption DEF Iters, Walk
<1>8. CASE ForIn(c)
  <2>1. PICK g : g = iterateStringKeys(heap, c.o, c.i, {})
    OBVIOUS
  <2>2. c.o \in Objects /\ c.i \in Iters /\ Step(c, advanced(enumerateNext(g, c.i)))
    BY <1>7, <1>8, <2>1, CallsAssumption DEF ForIn
  <2>3. Good(heap, c.i) /\ {} \in SUBSET Int
    BY NobodyIs
  <2>4. Started(g, c.i)
    BY <2>1, <2>2, <2>3, Starts
  <2> QED
    BY <1>6, <2>2, <2>4
<1>9. CASE EnumNext(c)
  <2>1. c.i \in Iters /\ heap.its[c.i] # NoIter /\ Step(c, advanced(enumerateNext(heap, c.i)))
    BY <1>7, <1>9, CallsAssumption DEF EnumNext
  <2>2. Started(heap, c.i)
    BY <2>1, GoodClears
  <2> QED
    BY <1>6, <2>1, <2>2
<1> QED
  BY <1>1, <1>3, <1>4, <1>5, <1>8, <1>9

\* Whatever calls come in whatever order, the slice of names of an object has the
\* names of its values, each once, and its sorted part is sorted and counted:
\* deletions, copies of shared slices and loops in progress included (object.go:
\* _put, _delete, fixPropOrder, prepareNamesForCopy, copyNamesIfNeeded).
THEOREM AlwaysTableConsistent == Spec => []TableConsistent
<1>1. Init => Good(heap, Nobody)
  <2>1. SUFFICES ASSUME Init PROVE Good(heap, Nobody)
    OBVIOUS
  <2>2. PICK t \in Tables : heap = Built(t)
    BY <2>1 DEF Init
  <2>3. Good(Built(t), Nobody)
    BY ObjectsAre, BuiltIs
  <2> QED
    BY <2>2, <2>3
<1>2. Good(heap, Nobody) /\ [Next]_vars => Good(heap, Nobody)'
  <2>1. SUFFICES ASSUME Good(heap, Nobody), [Next]_vars PROVE Good(heap, Nobody)'
    OBVIOUS
  <2>2. CASE Next
    BY <2>1, <2>2, NextKeeps
  <2>3. CASE UNCHANGED vars
    BY <2>1, <2>3 DEF vars, Good, Memory, Ordered, Heaps, AnyTable, AnyIter, Iters, Names, NamesIn, Cap, namesMarkedForCopy, InOrder, Lists
  <2> QED
    BY <2>1, <2>2, <2>3
<1>3. Good(heap, Nobody) => TableConsistent
  BY DEF Good, Ordered, Names, TableConsistent
<1> QED
  BY <1>1, <1>2, <1>3, PTL DEF Spec
=============================================================================
