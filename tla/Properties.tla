----------------------------- MODULE Properties -----------------------------
(***************************************************************************)
(* Properties and property descriptors, as object.go keeps and checks      *)
(* them.  Values and functions are numbers; a descriptor has for each      *)
(* field the set of what it gives, which is empty or a singleton.          *)
(***************************************************************************)
EXTENDS Integers, FiniteSets

Nil       == -1     \* in a *valueProperty that has no value
Undefined == 0
NoFunc    == 0

\* What the map of values holds for a name: the bare value (plain), or a
\* *valueProperty.
Property(v, get, set, w, e, c, acc, plain) ==
    [v |-> v, get |-> get, set |-> set, w |-> w, e |-> e, c |-> c, acc |-> acc, plain |-> plain]
PlainValue(v) == Property(v, NoFunc, NoFunc, TRUE, TRUE, TRUE, FALSE, TRUE)
Empty         == Property(Nil, NoFunc, NoFunc, FALSE, FALSE, FALSE, FALSE, FALSE)   \* &valueProperty{}
Absent        == Property(Nil, NoFunc, NoFunc, FALSE, FALSE, FALSE, FALSE, TRUE)    \* nil

Descriptor(v, w, e, c, get, set) == [v |-> v, w |-> w, e |-> e, c |-> c, get |-> get, set |-> set]
JustValue(v)                     == Descriptor({v}, {}, {}, {}, {}, {})
FullValue(v)                     == Descriptor({v}, {TRUE}, {TRUE}, {TRUE}, {}, {})

IsAccessor(d) == d.set # {} \/ d.get # {}
IsData(d)     == d.v # {} \/ d.w # {}
IsGeneric(d)  == ~IsAccessor(d) /\ ~IsData(d)

Given(field, default) == IF field = {} THEN default ELSE CHOOSE x \in field : TRUE
Differs(field, x)     == field # {} /\ field # {x}

\* The fields that a descriptor leaves out get their defaults.
complete(d) ==
    [v |-> IF IsAccessor(d) THEN d.v ELSE {Given(d.v, Undefined)},
     w |-> IF IsAccessor(d) THEN d.w ELSE {Given(d.w, FALSE)},
     e |-> {Given(d.e, FALSE)}, c |-> {Given(d.c, FALSE)},
     get |-> IF IsAccessor(d) THEN {Given(d.get, NoFunc)} ELSE {},
     set |-> IF IsAccessor(d) THEN {Given(d.set, NoFunc)} ELSE {}]

isCompatiblePropertyDescriptor(extensible, d, current) ==
    CASE current = Absent -> extensible
      [] current # Absent ->
           \/ current.c
           \/ /\ d.c # {TRUE} /\ ~Differs(d.e, current.e)
              /\ IsGeneric(d) \/ IsAccessor(d) = current.acc
              /\ current.acc => ~Differs(d.get, current.get) /\ ~Differs(d.set, current.set)
              /\ ~current.acc /\ ~current.w => d.w # {TRUE} /\ ~Differs(d.v, current.v)

\* What a compatible descriptor makes of the property that there was.
_defineOwnProperty(existing, d) ==
    LET old == IF existing = Absent THEN Empty ELSE existing
        acc == IsAccessor(d) \/ (old.acc /\ ~IsData(d))
        v   == IF IsAccessor(d) THEN Nil ELSE Given(d.v, old.v)
    IN  IF {d.w, d.e, d.c} = {{TRUE}} /\ d.v # {} THEN PlainValue(Given(d.v, Nil))
        ELSE Property(IF ~acc /\ v = Nil THEN Undefined ELSE v,
                      Given(d.get, IF d.v # {} THEN NoFunc ELSE old.get),
                      Given(d.set, IF d.v # {} THEN NoFunc ELSE old.set),
                      Given(d.w, old.w), Given(d.e, old.e), Given(d.c, old.c), acc, FALSE)

isWritable(p) == p.w \/ p.set # NoFunc

\* What reading a property gives; every getter returns the same value.
FromGetter == 2
Got(p)     == IF p.get # NoFunc THEN FromGetter ELSE IF p.acc \/ p = Absent THEN Undefined ELSE p.v

\* Properties with all their fields, and descriptors that give each field once or
\* not at all.
AnyProp == [v : Int, get : Int, set : Int, w : BOOLEAN, e : BOOLEAN, c : BOOLEAN, acc : BOOLEAN, plain : BOOLEAN]
Flags   == {{}, {TRUE}, {FALSE}}
Descs   == [v : SUBSET Int, w : Flags, e : Flags, c : Flags, get : SUBSET Int, set : SUBSET Int]

-----------------------------------------------------------------------------
(* Properties as the language has them: value and writable for data, get   *)
(* and set for accessors                                                   *)

Meant(p) == IF p = Absent THEN p
            ELSE IF p.acc THEN Property(Nil, p.get, p.set, FALSE, p.e, p.c, TRUE, FALSE)
            ELSE Property(IF p.v = Nil THEN Undefined ELSE p.v, NoFunc, NoFunc, p.w, p.e, p.c, FALSE, FALSE)

\* A property that a descriptor adds or changes; one of the other kind starts
\* from the defaults.
Applied(existing, d) ==
    LET acc  == IsAccessor(d) \/ (existing.acc /\ ~IsData(d))
        same == existing # Absent /\ existing.acc = acc
    IN  IF acc THEN Property(Nil, Given(d.get, IF same THEN existing.get ELSE NoFunc),
                             Given(d.set, IF same THEN existing.set ELSE NoFunc),
                             FALSE, Given(d.e, existing.e), Given(d.c, existing.c), TRUE, FALSE)
        ELSE Property(Given(d.v, IF same THEN existing.v ELSE Undefined), NoFunc, NoFunc,
                      Given(d.w, same /\ existing.w), Given(d.e, existing.e), Given(d.c, existing.c), FALSE, FALSE)

\* A descriptor that turns data into an accessor leaves writable as it was, and
\* one that turns an accessor into data leaves what it does not give.
TurnsBadly(existing, d) ==
    \/ existing # Absent /\ ~existing.acc /\ existing.w /\ IsAccessor(d)
    \/ existing.acc /\ IsData(d) /\ (d.v = {} \/ d.w = {})
=============================================================================
