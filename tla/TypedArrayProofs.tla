-------------------------- MODULE TypedArrayProofs --------------------------
(***************************************************************************)
(* Methods of typed arrays, data views and buffers stay within the memory  *)
(* that they hold (AccessesInBounds of TypedArrays), for views and buffers *)
(* of any length, any arguments, constructors and callbacks.               *)
(*                                                                         *)
(* A method is a program of instructions with jumps, so the argument is    *)
(* one about programs.  What a method may rely on at an instruction is a   *)
(* set of situations: which buffers are attached, and what view[3] is.     *)
(* Labels attaches such a set to each instruction so that, in all of its   *)
(* situations, the instruction does no harm (Fine) and leads into the set  *)
(* of the one that comes next (Leads); Safe says that a program has labels *)
(* from X at its beginning to Y at its end.  There is a lemma for each way *)
(* to put programs together (Join, Branch, Loop, Chain), one for each kind *)
(* of instruction, and one for each method, out of these.                  *)
(*                                                                         *)
(* Knows(t, B) are the situations in which view[3] is t and the buffers B  *)
(* are attached.  A check adds a buffer to B, a script takes all away that *)
(* it can reach, and an access needs the buffer of its view in B.          *)
(*                                                                         *)
(* The invariant of a run (Harmless) is that what is left of the program   *)
(* is Safe from the situation at hand, and that what is attached has the   *)
(* length that the views were made for.                                    *)
(***************************************************************************)
EXTENDS TypedArrays, SequenceTheorems, NaturalsInduction, WellFoundedInduction, TLAPS

AnyViews  == [buf : Int, type : Types, offset : Int, length : Int]
Ops       == {"check", "leave", "throw", "skip", "valid", "skip1", "mayEnd", "script", "touch", "make", "handover"} \union Writes
Instrs    == [op : Ops, v : 0..3, i : Int, w : 0..3, j : Int, n : Int,
              made : AnyViews, spare : SUBSET (1..3)]

-----------------------------------------------------------------------------
(* What instructions do to what a method knows                             *)

\* What a method may rely on: which buffers are attached, and view[3].
Situations == [live : SUBSET Buffers, third : SomeViews]

\* A call: view[1] and view[2], which do not change, and whether scripts can reach
\* buffer 3.
Contexts == [first : {w \in SomeViews : Fits(w)}, second : {w \in SomeViews : Fits(w)}, open : BOOLEAN]

Seen(e, s, v) == IF v = 1 THEN e.first ELSE IF v = 2 THEN e.second ELSE s.third
Reaches(e, s, v, i, n) == v \in 1..3 /\ Seen(e, s, v).buf \in s.live /\ Inside(Seen(e, s, v), i, n)
Valid(e, s, v, k) == Seen(e, s, v).buf \in s.live /\ k \in 0..Seen(e, s, v).length - 1

\* Instruction i does no harm in situation s.
Fine(e, i, s) ==
    /\ i.op \in {"check", "leave", "valid"} => i.v \in 1..3 /\ Seen(e, s, i.v).buf \in Buffers
    /\ i.op \in Writes \union {"touch"} => Reaches(e, s, i.v, i.i, i.n)
    /\ i.op \in {"move", "copy", "creep", "swap"} => Reaches(e, s, i.w, i.j, i.n)
    /\ i.op = "make" => /\ i.made \in SomeViews
                        /\ IF i.n >= 0 THEN i.made.buf = 3 /\ i.n = At(i.made, i.made.length) ELSE Fits(i.made)
    /\ i.op = "handover" => e.first.buf \in s.live /\ i.n \in Nat
    /\ i.op \in {"valid", "skip"} => i.n \in Nat

\* It may leave out the next n and lead to situation t; with n = -1 it goes on itself.
Leads(e, i, s, n, t) ==
    \/ i.op \in {"check", "leave"} /\ Seen(e, s, i.v).buf \in s.live /\ n = 0 /\ t = s
    \/ i.op = "valid" /\ n = (IF Valid(e, s, i.v, i.i) THEN 0 ELSE i.n) /\ t = s
    \/ i.op = "skip1" /\ n = 1 /\ t = s
    \/ i.op = "skip" /\ n \in {0, i.n} /\ t = s
    \/ i.op \in {"mayEnd", "script", "touch"} \union Writes /\ n = 0 /\ t = s
    \/ /\ i.op = "script" /\ n = -1
       /\ \E b \in s.live : /\ b = 3 => e.open
                            /\ \A v \in i.spare : Seen(e, s, v).buf # b
                            /\ t = [s EXCEPT !.live = @ \ {b}]
    \/ i.op = "make" /\ n = 0 /\ t = [live |-> IF i.n >= 0 THEN s.live \union {3} ELSE s.live, third |-> i.made]
    \/ /\ i.op = "handover" /\ n = 0
       /\ t = [live |-> (s.live \ {e.first.buf}) \union {3}, third |-> View(3, "u8", 0, i.n)]

\* A is what may be the case at each instruction of P, and in the end.
Labels(e, P, A) ==
    /\ A \in [1..Len(P) + 1 -> SUBSET Situations]
    /\ \A k \in 1..Len(P) : \A s \in A[k] :
        /\ Fine(e, P[k], s)
        /\ \A n \in Int : \A t : Leads(e, P[k], s, n, t) => k + n + 1 \in 1..Len(P) + 1 /\ t \in A[k + n + 1]

\* P, begun in one of the situations X, does no harm, and ends in one of Y if it ends.
Safe(e, X, P, Y) ==
    /\ P \in Seq(Instrs) /\ X \subseteq Situations /\ Y \subseteq Situations
    /\ \E A : Labels(e, P, A) /\ X \subseteq A[1] /\ A[Len(P) + 1] = Y

\* A set of numbers that is not empty has a least one.
LEMMA Least ==
    ASSUME NEW S \in SUBSET Nat, NEW n \in S
    PROVE  \E m \in S : \A k \in S : m <= k
<1>1. PICK m \in S : \A k \in S : ~(<<k, m>> \in OpToRel(<, Nat))
  BY NatLessThanWellFounded, WFMin
<1>2. ASSUME NEW k \in S PROVE m <= k
  <2>1. ~(<<k, m>> \in OpToRel(<, Nat))
    BY <1>1
  <2> QED
    BY <2>1 DEF OpToRel
<1> QED
  BY <1>2

-----------------------------------------------------------------------------
(* Putting programs together                                               *)

\* The fields of an instruction.
LEMMA InstrIs ==
    ASSUME NEW op \in Ops, NEW v \in 0..3, NEW i \in Int, NEW w \in 0..3, NEW j \in Int, NEW n \in Int,
           NEW I, I = Instr(op, v, i, w, j, n)
    PROVE  /\ I \in Instrs /\ I.op = op /\ I.v = v /\ I.i = i /\ I.w = w /\ I.j = j /\ I.n = n
           /\ I.made = NoView /\ I.spare = {}
<1>1. NoView \in AnyViews
  BY DEF NoView, View, AnyViews, Types
<1>2. {} \in SUBSET (1..3)
  OBVIOUS
<1>3. I = [op |-> op, v |-> v, i |-> i, w |-> w, j |-> j, n |-> n, made |-> NoView, spare |-> {}]
  BY DEF Instr
<1>4. I \in Instrs
  BY <1>1, <1>2, <1>3 DEF Instrs
<1> QED
  BY <1>3, <1>4

LEMMA InstrIn ==
    ASSUME NEW op \in Ops, NEW v \in 0..3, NEW i \in Int, NEW w \in 0..3, NEW j \in Int, NEW n \in Int
    PROVE  Instr(op, v, i, w, j, n) \in Instrs
<1>1. PICK I : I = Instr(op, v, i, w, j, n)
  OBVIOUS
<1> QED
  BY <1>1, InstrIs

\* Nothing.
LEMMA Nothing ==
    ASSUME NEW e, NEW X \in SUBSET Situations
    PROVE  Safe(e, X, <<>>, X)
<1> DEFINE A == [k \in 1..1 |-> X]
<1>1. Len(<<>>) = 0 /\ <<>> \in Seq(Instrs)
  OBVIOUS
<1>2. A \in [1..0 + 1 -> SUBSET Situations] /\ A[1] = X /\ A[0 + 1] = X
  OBVIOUS
<1>3. Labels(e, <<>>, A)
  <2>1. \A k \in 1..0 : FALSE
    OBVIOUS
  <2> HIDE DEF A
  <2> QED
    BY <1>1, <1>2, <2>1 DEF Labels
<1> HIDE DEF A
<1> QED
  BY <1>1, <1>2, <1>3 DEF Safe

\* One instruction.
LEMMA One ==
    ASSUME NEW e, NEW i \in Instrs, NEW X \in SUBSET Situations, NEW Y \in SUBSET Situations,
           \A s \in X : /\ Fine(e, i, s)
                        /\ \A n \in Int : \A t : Leads(e, i, s, n, t) => (n = 0 /\ t \in Y) \/ (n = -1 /\ t \in X)
    PROVE  Safe(e, X, <<i>>, Y)
<1> DEFINE P == <<i>>
           A == [k \in 1..2 |-> IF k = 1 THEN X ELSE Y]
<1>1. P \in Seq(Instrs) /\ Len(P) = 1 /\ P[1] = i
  OBVIOUS
<1>2. A \in [1..1 + 1 -> SUBSET Situations] /\ A[1] = X /\ A[1 + 1] = Y
  OBVIOUS
<1> HIDE DEF A, P
<1>3. ASSUME NEW k \in 1..1, NEW s \in A[k], NEW n \in Int, NEW t, Leads(e, P[k], s, n, t)
      PROVE  k + n + 1 \in 1..2 /\ t \in A[k + n + 1]
  <2>1. k = 1 /\ s \in X /\ P[k] = i
    BY <1>1, <1>2
  <2>2. (n = 0 /\ t \in Y) \/ (n = -1 /\ t \in X)
    BY <1>3, <2>1
  <2>3. CASE n = 0 /\ t \in Y
    BY <1>2, <2>1, <2>3
  <2>4. CASE n = -1 /\ t \in X
    BY <1>2, <2>1, <2>4
  <2> QED
    BY <2>2, <2>3, <2>4
<1>4. Labels(e, P, A)
  <2>1. \A k \in 1..1 : k = 1
    OBVIOUS
  <2> QED
    BY <1>1, <1>2, <1>3, <2>1 DEF Labels
<1>5. Safe(e, X, P, Y)
  BY <1>1, <1>2, <1>4 DEF Safe
<1> QED
  BY <1>5 DEF P

\* One after the other.
LEMMA Join ==
    ASSUME NEW e, NEW X, NEW P, NEW Y, NEW Q, NEW Z, Safe(e, X, P, Y), Safe(e, Y, Q, Z)
    PROVE  Safe(e, X, P \o Q, Z)
<1>1. P \in Seq(Instrs) /\ Q \in Seq(Instrs) /\ X \subseteq Situations /\ Z \subseteq Situations
  BY DEF Safe
<1>2. PICK A : Labels(e, P, A) /\ X \subseteq A[1] /\ A[Len(P) + 1] = Y
  BY DEF Safe
<1>3. PICK B : Labels(e, Q, B) /\ Y \subseteq B[1] /\ B[Len(Q) + 1] = Z
  BY DEF Safe
<1> DEFINE R == P \o Q
           C == [k \in 1..Len(P) + Len(Q) + 1 |-> IF k <= Len(P) THEN A[k] ELSE B[k - Len(P)]]
<1>4. /\ R \in Seq(Instrs) /\ Len(R) = Len(P) + Len(Q) /\ Len(P) \in Nat /\ Len(Q) \in Nat
      /\ \A k \in 1..Len(P) : R[k] = P[k]
      /\ \A k \in Len(P) + 1..Len(P) + Len(Q) : R[k] = Q[k - Len(P)]
  BY <1>1
<1>5. A \in [1..Len(P) + 1 -> SUBSET Situations] /\ B \in [1..Len(Q) + 1 -> SUBSET Situations]
  BY <1>2, <1>3 DEF Labels
<1>6. /\ C \in [1..Len(R) + 1 -> SUBSET Situations]
      /\ \A k \in 1..Len(P) : C[k] = A[k]
      /\ \A k \in Len(P) + 1..Len(R) + 1 : C[k] = B[k - Len(P)]
  BY <1>4, <1>5
<1> HIDE DEF C, R
<1>7. \A k \in 1..Len(P) + 1 : A[k] \subseteq C[k]
  <2> TAKE k \in 1..Len(P) + 1
  <2>1. CASE k <= Len(P)
    BY <1>4, <1>6, <2>1
  <2>2. CASE k = Len(P) + 1
    <3>1. k \in Len(P) + 1..Len(R) + 1 /\ k - Len(P) = 1
      BY <1>4, <2>2
    <3> QED
      BY <1>2, <1>3, <1>6, <2>2, <3>1
  <2> QED
    BY <1>4, <2>1, <2>2
<1>8. ASSUME NEW k \in 1..Len(R), NEW s \in C[k]
      PROVE  /\ Fine(e, R[k], s)
             /\ \A n \in Int : \A t : Leads(e, R[k], s, n, t) => k + n + 1 \in 1..Len(R) + 1 /\ t \in C[k + n + 1]
  <2>1. CASE k <= Len(P)
    <3>1. k \in 1..Len(P) /\ R[k] = P[k] /\ s \in A[k]
      BY <1>4, <1>6, <1>8, <2>1
    <3>2. Fine(e, P[k], s)
      BY <1>2, <3>1 DEF Labels
    <3>3. ASSUME NEW n \in Int, NEW t, Leads(e, P[k], s, n, t)
          PROVE  k + n + 1 \in 1..Len(R) + 1 /\ t \in C[k + n + 1]
      <4>1. k + n + 1 \in 1..Len(P) + 1 /\ t \in A[k + n + 1]
        BY <1>2, <3>1, <3>3 DEF Labels
      <4> QED
        BY <1>4, <1>7, <4>1, SMTT(30)
    <3> QED
      BY <3>1, <3>2, <3>3
  <2>2. CASE k > Len(P)
    <3> DEFINE j == k - Len(P)
    <3>1. j \in 1..Len(Q) /\ R[k] = Q[j] /\ s \in B[j] /\ k = j + Len(P)
      BY <1>4, <1>6, <1>8, <2>2
    <3> HIDE DEF j
    <3>2. Fine(e, Q[j], s)
      BY <1>3, <3>1 DEF Labels
    <3>3. ASSUME NEW n \in Int, NEW t, Leads(e, Q[j], s, n, t)
          PROVE  k + n + 1 \in 1..Len(R) + 1 /\ t \in C[k + n + 1]
      <4>1. j + n + 1 \in 1..Len(Q) + 1 /\ t \in B[j + n + 1]
        BY <1>3, <3>1, <3>3 DEF Labels
      <4>2. k + n + 1 \in Len(P) + 1..Len(R) + 1 /\ (k + n + 1) - Len(P) = j + n + 1
        BY <1>4, <3>1, <4>1
      <4> QED
        BY <1>4, <1>6, <4>1, <4>2
    <3> QED
      BY <3>1, <3>2, <3>3
  <2> QED
    BY <1>4, <2>1, <2>2
<1>9. Labels(e, R, C)
  BY <1>6, <1>8 DEF Labels
<1>10. X \subseteq C[1]
  <2>1. 1 \in 1..Len(P) + 1
    BY <1>4
  <2> QED
    BY <1>2, <1>7, <2>1
<1>11. C[Len(R) + 1] = Z
  <2>1. Len(R) + 1 \in Len(P) + 1..Len(R) + 1 /\ Len(R) + 1 - Len(P) = Len(Q) + 1
    BY <1>4
  <2> QED
    BY <1>3, <1>6, <2>1
<1>12. Safe(e, X, R, Z)
  BY <1>1, <1>4, <1>9, <1>10, <1>11 DEF Safe
<1> QED
  BY <1>12 DEF R

\* Less to begin with, more in the end.
LEMMA Wider ==
    ASSUME NEW e, NEW X, NEW P, NEW Y, Safe(e, X, P, Y), NEW V, V \subseteq X, NEW Z \in SUBSET Situations, Y \subseteq Z
    PROVE  Safe(e, V, P, Z)
<1>1. P \in Seq(Instrs) /\ X \subseteq Situations /\ Len(P) \in Nat
  BY DEF Safe
<1>2. PICK A : Labels(e, P, A) /\ X \subseteq A[1] /\ A[Len(P) + 1] = Y
  BY DEF Safe
<1> DEFINE B == [A EXCEPT ![Len(P) + 1] = Z]
<1>3. A \in [1..Len(P) + 1 -> SUBSET Situations]
  BY <1>2 DEF Labels
<1>4. /\ B \in [1..Len(P) + 1 -> SUBSET Situations] /\ B[Len(P) + 1] = Z
      /\ \A k \in 1..Len(P) : B[k] = A[k]
      /\ \A k \in 1..Len(P) + 1 : A[k] \subseteq B[k]
  BY <1>1, <1>2, <1>3
<1> HIDE DEF B
<1>5. Labels(e, P, B)
  <2>1. ASSUME NEW k \in 1..Len(P), NEW s \in B[k]
        PROVE  /\ Fine(e, P[k], s)
               /\ \A n \in Int : \A t : Leads(e, P[k], s, n, t) => k + n + 1 \in 1..Len(P) + 1 /\ t \in B[k + n + 1]
    <3>1. s \in A[k]
      BY <1>4, <2>1
    <3>2. /\ Fine(e, P[k], s)
          /\ \A n \in Int : \A t : Leads(e, P[k], s, n, t) => k + n + 1 \in 1..Len(P) + 1 /\ t \in A[k + n + 1]
      BY <1>2, <3>1 DEF Labels
    <3> QED
      BY <1>4, <3>2
  <2> QED
    BY <1>4, <2>1 DEF Labels
<1>6. V \subseteq B[1]
  <2>1. 1 \in 1..Len(P) + 1
    BY <1>1
  <2> QED
    BY <1>2, <1>4, <2>1
<1> QED
  BY <1>1, <1>4, <1>5, <1>6 DEF Safe

\* Code that is never reached.
LEMMA Dead ==
    ASSUME NEW e, NEW P \in Seq(Instrs), NEW Y \in SUBSET Situations
    PROVE  Safe(e, {}, P, Y)
<1> DEFINE A == [k \in 1..Len(P) + 1 |-> IF k = Len(P) + 1 THEN Y ELSE {}]
<1>1. Len(P) \in Nat
  OBVIOUS
<1>2. A \in [1..Len(P) + 1 -> SUBSET Situations] /\ A[Len(P) + 1] = Y /\ \A k \in 1..Len(P) : A[k] = {}
  BY <1>1
<1> HIDE DEF A
<1>3. Labels(e, P, A)
  BY <1>2 DEF Labels
<1> QED
  BY <1>2, <1>3 DEF Safe

\* isValidIntegerIndex and what is done only then.
LEMMA Branch ==
    ASSUME NEW e, NEW X \in SUBSET Situations, NEW v \in 1..3, NEW k \in Int, NEW body, NEW Y \in SUBSET Situations,
           \A s \in X : Seen(e, s, v).buf \in Buffers,
           Safe(e, {s \in X : Valid(e, s, v, k)}, body, Y),
           \A s \in X : ~Valid(e, s, v, k) => s \in Y
    PROVE  Safe(e, X, IfValid(v, k, body), Y)
<1> DEFINE i == Instr("valid", v, k, 0, 0, Len(body))
           P == <<i>> \o body
<1>1. body \in Seq(Instrs) /\ Len(body) \in Nat
  BY DEF Safe
<1>2. PICK A : Labels(e, body, A) /\ {s \in X : Valid(e, s, v, k)} \subseteq A[1] /\ A[Len(body) + 1] = Y
  BY DEF Safe
<1>4. i \in Instrs /\ i.op = "valid" /\ i.v = v /\ i.i = k /\ i.n = Len(body)
  <2>1. "valid" \in Ops /\ v \in 0..3 /\ 0 \in 0..3 /\ 0 \in Int /\ Len(body) \in Int
    BY <1>1 DEF Ops
  <2>2. PICK I : I = i
    OBVIOUS
  <2> QED
    BY <2>1, <2>2, InstrIs
<1> HIDE DEF i
<1>5. /\ P \in Seq(Instrs) /\ Len(P) = Len(body) + 1 /\ P[1] = i
      /\ \A m \in 2..Len(P) : P[m] = body[m - 1]
  <2>1. <<i>> \in Seq(Instrs) /\ Len(<<i>>) = 1
    BY <1>4
  <2> QED
    BY <1>1, <2>1
<1> DEFINE B == [m \in 1..Len(P) + 1 |-> IF m = 1 THEN X ELSE A[m - 1]]
<1>6. A \in [1..Len(body) + 1 -> SUBSET Situations]
  BY <1>2 DEF Labels
<1>7. /\ B \in [1..Len(P) + 1 -> SUBSET Situations] /\ B[1] = X
      /\ \A m \in 2..Len(P) + 1 : B[m] = A[m - 1]
  BY <1>1, <1>5, <1>6
<1> HIDE DEF B, P
<1>8. ASSUME NEW m \in 1..Len(P), NEW s \in B[m]
      PROVE  /\ Fine(e, P[m], s)
             /\ \A n \in Int : \A t : Leads(e, P[m], s, n, t) => m + n + 1 \in 1..Len(P) + 1 /\ t \in B[m + n + 1]
  <2>1. CASE m = 1
    <3>1. P[m] = i /\ s \in X
      BY <1>5, <1>7, <1>8, <2>1
    <3>2. Fine(e, i, s)
      BY <1>1, <1>4, <3>1 DEF Fine, Writes
    <3>3. ASSUME NEW n \in Int, NEW t, Leads(e, i, s, n, t)
          PROVE  m + n + 1 \in 1..Len(P) + 1 /\ t \in B[m + n + 1]
      <4>1. n = (IF Valid(e, s, v, k) THEN 0 ELSE Len(body)) /\ t = s
        BY <1>4, <3>3 DEF Leads, Writes
      <4>2. CASE Valid(e, s, v, k)
        <5>1. n = 0 /\ s \in A[1]
          BY <1>2, <3>1, <4>1, <4>2
        <5>2. 2 \in 2..Len(P) + 1 /\ 2 \in 1..Len(P) + 1 /\ m + n + 1 = 2
          BY <1>1, <1>5, <2>1, <5>1
        <5> QED
          BY <1>7, <4>1, <5>1, <5>2
      <4>3. CASE ~Valid(e, s, v, k)
        <5>1. n = Len(body) /\ s \in Y
          BY <3>1, <4>1, <4>3
        <5>2. m + n + 1 = Len(P) + 1 /\ Len(P) + 1 \in 2..Len(P) + 1 /\ Len(P) + 1 - 1 = Len(body) + 1
          BY <1>1, <1>5, <2>1, <5>1
        <5>3. m + n + 1 \in 1..Len(P) + 1 /\ B[m + n + 1] = Y
          BY <1>2, <1>7, <5>2
        <5> QED
          BY <4>1, <5>1, <5>3
      <4> QED
        BY <4>2, <4>3
    <3> QED
      BY <3>1, <3>2, <3>3
  <2>2. CASE m > 1
    <3> DEFINE j == m - 1
    <3>1. j \in 1..Len(body) /\ P[m] = body[j] /\ s \in A[j] /\ m = j + 1
      BY <1>1, <1>5, <1>7, <1>8, <2>2
    <3> HIDE DEF j
    <3>2. Fine(e, body[j], s)
      BY <1>2, <3>1 DEF Labels
    <3>3. ASSUME NEW n \in Int, NEW t, Leads(e, body[j], s, n, t)
          PROVE  m + n + 1 \in 1..Len(P) + 1 /\ t \in B[m + n + 1]
      <4>1. j + n + 1 \in 1..Len(body) + 1 /\ t \in A[j + n + 1]
        BY <1>2, <3>1, <3>3 DEF Labels
      <4>2. m + n + 1 \in 2..Len(P) + 1 /\ (m + n + 1) - 1 = j + n + 1
        BY <1>1, <1>5, <3>1, <4>1
      <4> QED
        BY <1>1, <1>5, <1>7, <4>1, <4>2
    <3> QED
      BY <3>1, <3>2, <3>3
  <2> QED
    BY <1>1, <1>5, <2>1, <2>2
<1>9. Labels(e, P, B)
  BY <1>7, <1>8 DEF Labels
<1>10. B[Len(P) + 1] = Y
  <2>1. Len(P) + 1 \in 2..Len(P) + 1 /\ Len(P) + 1 - 1 = Len(body) + 1
    BY <1>1, <1>5
  <2> QED
    BY <1>2, <1>7, <2>1
<1>11. Safe(e, X, P, Y)
  BY <1>5, <1>7, <1>9, <1>10 DEF Safe
<1> QED
  BY <1>11 DEF P, i, IfValid

\* The sequences of a list of sequences, one after the other, belong to K[n] if each
\* one leads from K[m - 1] to K[m].
LEMMA FlattenStays ==
    ASSUME NEW n \in Nat, NEW s \in [1..n -> Seq(Instrs)], NEW K, <<>> \in K[0],
           \A m \in 1..n : \A p \in Seq(Instrs) : p \in K[m - 1] => p \o s[m] \in K[m]
    PROVE  FlattenSeq(s) \in Seq(Instrs) /\ FlattenSeq(s) \in K[n]
<1>1. Len(s) = n
  OBVIOUS
<1>2. CASE n = 0
  <2>1. s = <<>>
    BY <1>2
  <2>2. FlattenSeq(s) = s
    BY <1>1, <1>2 DEF FlattenSeq
  <2>3. <<>> \in Seq(Instrs)
    OBVIOUS
  <2> QED
    BY <1>2, <2>1, <2>2, <2>3
<1>3. CASE n > 0
  <2> DEFINE Is(f, m) == \A i \in 1..m : f[i] = IF i = 1 THEN s[i] ELSE f[i - 1] \o s[i]
             Has(m) == \E f \in [1..m -> Seq(Instrs)] : Is(f, m)
             F == CHOOSE f : f = [i \in 1..Len(s) |-> IF i = 1 THEN s[i] ELSE f[i - 1] \o s[i]]
  <2>1. Has(n)
    <3> DEFINE B == {m \in 0..n : ~Has(m)}
    <3>1. \A m \in 0..n : m \in B <=> ~Has(m)
      OBVIOUS
    <3>2. SUFFICES ASSUME ~Has(n) PROVE FALSE
      OBVIOUS
    <3> HIDE DEF Has
    <3>3. B \in SUBSET Nat /\ n \in B
      BY <3>1, <3>2
    <3> HIDE DEF B
    <3>4. PICK m \in B : \A k \in B : m <= k
      BY <3>3, Least
    <3>5. m \in 0..n /\ ~Has(m)
      <4>1. \A k \in B : k \in 0..n
        BY DEF B
      <4> QED
        BY <3>1, <4>1
    <3>6. m # 0
      <4>1. SUFFICES ASSUME m = 0 PROVE FALSE
        OBVIOUS
      <4>2. PICK f : f = [i \in 1..0 |-> <<>>]
        OBVIOUS
      <4>3. 1..0 = {}
        OBVIOUS
      <4>4. f \in [1..0 -> Seq(Instrs)] /\ Is(f, 0)
        BY <4>2, <4>3
      <4>5. Has(0)
        BY <4>4 DEF Has
      <4> QED
        BY <3>5, <4>1, <4>5
    <3>7. m \in 1..n /\ m - 1 \in 0..n
      BY <3>5, <3>6
    <3>8. Has(m - 1)
      <4>1. ~(m <= m - 1)
        BY <3>7
      <4> QED
        BY <3>1, <3>4, <3>7, <4>1
    <3>9. PICK f \in [1..m - 1 -> Seq(Instrs)] : Is(f, m - 1)
      BY <3>8 DEF Has
    <3> DEFINE g == [i \in 1..m |-> IF i < m THEN f[i] ELSE IF m = 1 THEN s[m] ELSE f[m - 1] \o s[m]]
    <3>10. s[m] \in Seq(Instrs) /\ (m # 1 => m - 1 \in 1..m - 1 /\ f[m - 1] \in Seq(Instrs) /\ f[m - 1] \o s[m] \in Seq(Instrs))
      BY <3>7
    <3>11. g \in [1..m -> Seq(Instrs)]
      BY <3>7, <3>10
    <3>12. ASSUME NEW i \in 1..m PROVE g[i] = IF i = 1 THEN s[i] ELSE g[i - 1] \o s[i]
      <4>1. CASE i < m
        <5>1. i \in 1..m - 1 /\ g[i] = f[i] /\ (i # 1 => i - 1 \in 1..m /\ i - 1 < m /\ g[i - 1] = f[i - 1])
          BY <3>7, <4>1
        <5> QED
          BY <3>9, <5>1
      <4>2. CASE i = m
        <5>1. m # 1 => m - 1 \in 1..m /\ m - 1 < m /\ g[m - 1] = f[m - 1]
          BY <3>7
        <5> QED
          BY <3>7, <4>2, <5>1
      <4> QED
        BY <3>7, <4>1, <4>2
    <3> HIDE DEF g
    <3>13. Is(g, m)
      BY <3>12
    <3>14. Has(m)
      BY <3>11, <3>13 DEF Has
    <3> QED
      BY <3>5, <3>14
  <2>2. PICK f \in [1..n -> Seq(Instrs)] : Is(f, n)
    BY <2>1
  <2>3. f = [i \in 1..Len(s) |-> IF i = 1 THEN s[i] ELSE f[i - 1] \o s[i]]
    BY <1>1, <2>2
  <2>4. F = [i \in 1..Len(s) |-> IF i = 1 THEN s[i] ELSE F[i - 1] \o s[i]]
    BY <2>3
  <2>5. FlattenSeq(s) = F[Len(s)]
    BY <1>1, <1>3 DEF FlattenSeq
  <2> HIDE DEF F, Has, Is
  <2>6. \A i \in 1..n : F[i] = IF i = 1 THEN s[i] ELSE F[i - 1] \o s[i]
    BY <1>1, <2>4
  <2> DEFINE C == {i \in 1..n : ~(F[i] \in Seq(Instrs) /\ F[i] \in K[i])}
  <2>7. SUFFICES ASSUME n \in C PROVE FALSE
    BY <1>1, <1>3, <2>5
  <2>8. C \in SUBSET Nat
    OBVIOUS
  <2>9. PICK m \in C : \A k \in C : m <= k
    <3> HIDE DEF C
    <3> QED
      BY <2>7, <2>8, Least
  <2>10. m \in 1..n /\ s[m] \in Seq(Instrs)
    OBVIOUS
  <2>11. CASE m = 1
    <3>1. F[1] = s[1] /\ <<>> \o s[1] = s[1] /\ <<>> \in Seq(Instrs)
      BY <2>6, <2>10, <2>11
    <3>2. 1 \in 1..n /\ 1 - 1 = 0
      BY <2>10, <2>11
    <3>3. <<>> \o s[1] \in K[1]
      BY <3>1, <3>2
    <3>4. F[m] \in Seq(Instrs) /\ F[m] \in K[m]
      BY <2>10, <2>11, <3>1, <3>3
    <3> QED
      BY <3>4
  <2>12. CASE m # 1
    <3>1. m - 1 \in 1..n /\ m - 1 \notin C
      BY <2>9, <2>10, <2>12
    <3>2. F[m - 1] \in Seq(Instrs) /\ F[m - 1] \in K[m - 1]
      BY <3>1
    <3>3. F[m] = F[m - 1] \o s[m]
      BY <2>6, <2>10, <2>12
    <3>4. F[m - 1] \o s[m] \in K[m]
      BY <2>10, <3>2
    <3>5. F[m - 1] \o s[m] \in Seq(Instrs)
      BY <2>10, <3>2
    <3> QED
      BY <3>3, <3>4, <3>5
  <2> QED
    BY <2>11, <2>12
<1> QED
  BY <1>2, <1>3

\* A loop.
LEMMA Loop ==
    ASSUME NEW e, NEW X \in SUBSET Situations, NEW n \in Nat, NEW s, s = [m \in 1..n |-> s[m]],
           \A m \in 1..n : Safe(e, X, s[m], X)
    PROVE  Safe(e, X, FlattenSeq(s), X)
<1> DEFINE S == {p \in Seq(Instrs) : Safe(e, X, p, X)}
           K == [m \in 0..n |-> S]
<1>1. s \in [1..n -> Seq(Instrs)]
  <2>1. \A m \in 1..n : s[m] \in Seq(Instrs)
    BY DEF Safe
  <2> QED
    BY <2>1
<1>2. <<>> \in Seq(Instrs) /\ Safe(e, X, <<>>, X)
  BY Nothing
<1>3. \A m \in 0..n : K[m] = S
  OBVIOUS
<1> HIDE DEF K
<1>4. <<>> \in K[0]
  <2>1. 0 \in 0..n /\ <<>> \in S
    BY <1>2
  <2> QED
    BY <1>3, <2>1
<1>5. ASSUME NEW m \in 1..n, NEW p \in Seq(Instrs), p \in K[m - 1] PROVE p \o s[m] \in K[m]
  <2>1. m \in 0..n /\ m - 1 \in 0..n
    OBVIOUS
  <2>2. Safe(e, X, p, X)
    BY <1>3, <1>5, <2>1
  <2>3. Safe(e, X, p \o s[m], X)
    BY <2>2, Join
  <2>4. p \o s[m] \in Seq(Instrs)
    BY <2>3 DEF Safe
  <2> QED
    BY <1>3, <2>1, <2>3, <2>4
<1>6. FlattenSeq(s) \in K[n]
  BY <1>1, <1>4, <1>5, FlattenStays
<1> QED
  BY <1>3, <1>6

-----------------------------------------------------------------------------
(* What a method knows                                                     *)

\* view[3] is t, and the buffers B are attached.
Knows(t, B) == {s \in Situations : s.third = t /\ B \subseteq s.live}

\* View v of such a situation.
Shown(e, t, v) == IF v = 1 THEN e.first ELSE IF v = 2 THEN e.second ELSE t

\* What is in a situation.
LEMMA KnowsIs ==
    ASSUME NEW e, NEW t, NEW B
    PROVE  /\ Knows(t, B) \in SUBSET Situations
           /\ \A s \in Knows(t, B) : /\ s \in Situations /\ s.live \subseteq Buffers /\ s.third = t /\ B \subseteq s.live
                                     /\ \A v : Seen(e, s, v) = Shown(e, t, v)
BY DEF Knows, Situations, Seen, Shown

\* To know less.
LEMMA Forgets ==
    ASSUME NEW t, NEW B, NEW C, C \subseteq B
    PROVE  Knows(t, B) \subseteq Knows(t, C) /\ Knows(t, C) \in SUBSET Situations
BY DEF Knows

\* An instruction of a simple kind.
LEMMA Plainly ==
    ASSUME NEW e, NEW i \in Instrs, NEW t, NEW B, NEW C,
           i.op \in {"check", "leave", "throw", "mayEnd", "touch"} \union Writes,
           i.op \in {"check", "leave"} => i.v \in 1..3 /\ Shown(e, t, i.v).buf \in Buffers /\ C \subseteq B \union {Shown(e, t, i.v).buf},
           i.op \notin {"check", "leave"} => C \subseteq B,
           i.op \in Writes \union {"touch"} => i.v \in 1..3 /\ Shown(e, t, i.v).buf \in B /\ Inside(Shown(e, t, i.v), i.i, i.n),
           i.op \in {"move", "copy", "creep", "swap"} => i.w \in 1..3 /\ Shown(e, t, i.w).buf \in B /\ Inside(Shown(e, t, i.w), i.j, i.n)
    PROVE  Safe(e, Knows(t, B), <<i>>, Knows(t, C))
<1>1. Knows(t, B) \in SUBSET Situations /\ Knows(t, C) \in SUBSET Situations
  BY KnowsIs
<1>2. ASSUME NEW s \in Knows(t, B) PROVE Fine(e, i, s)
  <2>1. s \in Situations /\ s.live \subseteq Buffers /\ s.third = t /\ B \subseteq s.live /\ \A v : Seen(e, s, v) = Shown(e, t, v)
    BY KnowsIs
  <2> QED
    BY <2>1 DEF Fine, Reaches, Writes
<1>3. ASSUME NEW s \in Knows(t, B), NEW n \in Int, NEW u, Leads(e, i, s, n, u) PROVE n = 0 /\ u \in Knows(t, C)
  <2>1. s \in Situations /\ s.live \subseteq Buffers /\ s.third = t /\ B \subseteq s.live /\ \A v : Seen(e, s, v) = Shown(e, t, v)
    BY KnowsIs
  <2>2. n = 0 /\ u = s /\ (i.op \in {"check", "leave"} => Seen(e, s, i.v).buf \in s.live)
    BY <1>3 DEF Leads, Writes
  <2>3. C \subseteq s.live
    BY <2>1, <2>2
  <2> QED
    BY <2>1, <2>2, <2>3 DEF Knows
<1>4. \A s \in Knows(t, B) : Fine(e, i, s) /\ \A m \in Int : \A u : Leads(e, i, s, m, u) =>
           (m = 0 /\ u \in Knows(t, C)) \/ (m = -1 /\ u \in Knows(t, B))
  BY <1>2, <1>3
<1> QED
  BY <1>1, <1>4, One

\* ensureNotDetached(true), and what returns if the buffer is detached.
LEMMA Checks ==
    ASSUME NEW e, NEW t, NEW B, NEW v \in 1..3, Shown(e, t, v).buf \in Buffers
    PROVE  /\ Safe(e, Knows(t, B), Check(v), Knows(t, B \union {Shown(e, t, v).buf}))
           /\ Safe(e, Knows(t, B), Leave(v), Knows(t, B \union {Shown(e, t, v).buf}))
<1>1. ASSUME NEW op \in {"check", "leave"} PROVE Safe(e, Knows(t, B), Do(op, v), Knows(t, B \union {Shown(e, t, v).buf}))
  <2>1. PICK i : i = Instr(op, v, 0, 0, 0, 0)
    OBVIOUS
  <2>2. op \in Ops /\ v \in 0..3 /\ 0 \in 0..3
    BY DEF Ops
  <2>3. i \in Instrs /\ i.op = op /\ i.v = v
    BY <2>1, <2>2, InstrIs
  <2>4. op \notin Writes \union {"touch", "move", "copy", "creep", "swap"}
    BY DEF Writes
  <2>5. Safe(e, Knows(t, B), <<i>>, Knows(t, B \union {Shown(e, t, v).buf}))
    BY <2>3, <2>4, Plainly
  <2> QED
    BY <2>1, <2>5 DEF Do
<1> QED
  BY <1>1 DEF Check, Leave

\* A step that may end the method.
LEMMA MayEnds ==
    ASSUME NEW e, NEW t, NEW B, NEW v \in 1..3
    PROVE  Safe(e, Knows(t, B), Do("mayEnd", v), Knows(t, B))
<1>1. PICK i : i = Instr("mayEnd", v, 0, 0, 0, 0)
  OBVIOUS
<1>2. "mayEnd" \in Ops /\ v \in 0..3 /\ 0 \in 0..3
  BY DEF Ops
<1>3. i \in Instrs /\ i.op = "mayEnd"
  BY <1>1, <1>2, InstrIs
<1>4. "mayEnd" \notin Writes \union {"touch", "move", "copy", "creep", "swap"}
  BY DEF Writes
<1>5. Safe(e, Knows(t, B), <<i>>, Knows(t, B))
  BY <1>3, <1>4, Plainly
<1> QED
  BY <1>1, <1>5 DEF Do

\* What does not go on.
LEMMA Throws ==
    ASSUME NEW e, NEW X \in SUBSET Situations, NEW Y \in SUBSET Situations
    PROVE  Safe(e, X, Throw, Y)
<1>1. PICK i : i = Instr("throw", 1, 0, 0, 0, 0)
  OBVIOUS
<1>2. "throw" \in Ops /\ 1 \in 0..3 /\ 0 \in 0..3
  BY DEF Ops
<1>3. i \in Instrs /\ i.op = "throw"
  BY <1>1, <1>2, InstrIs
<1>4. \A s \in X : Fine(e, i, s) /\ \A n \in Int : \A u : ~Leads(e, i, s, n, u)
  BY <1>3 DEF Fine, Leads, Writes
<1>5. Safe(e, X, <<i>>, Y)
  BY <1>3, <1>4, One
<1> QED
  BY <1>1, <1>5 DEF Throw, Do

\* What throws if p.
LEMMA Refuses ==
    ASSUME NEW e, NEW X \in SUBSET Situations, NEW p \in BOOLEAN
    PROVE  Safe(e, X, Refuse(p), IF p THEN {} ELSE X)
<1>1. CASE p
  BY <1>1, Throws DEF Refuse
<1>2. CASE ~p
  BY <1>2, Nothing DEF Refuse
<1> QED
  BY <1>1, <1>2

\* A script may detach what it can reach, and what the code looks at again.
LEMMA Scripts ==
    ASSUME NEW e, NEW t, NEW vs \in SUBSET (1..3), NEW B, NEW C, C \subseteq B,
           \A b \in C : (b = 3 /\ ~e.open) \/ \E v \in vs : Shown(e, t, v).buf = b
    PROVE  Safe(e, Knows(t, B), ScriptSparing(vs), Knows(t, C))
<1>1. PICK i : i = [Script[1] EXCEPT !.spare = vs]
  OBVIOUS
<1>2. i \in Instrs /\ i.op = "script" /\ i.spare = vs
  <2>1. PICK I : I = Instr("script", 1, 0, 0, 0, 0)
    OBVIOUS
  <2>2. "script" \in Ops /\ 1 \in 0..3 /\ 0 \in 0..3
    BY DEF Ops
  <2>3. I \in Instrs /\ I.op = "script"
    BY <2>1, <2>2, InstrIs
  <2>4. i = [I EXCEPT !.spare = vs]
    BY <1>1, <2>1 DEF Script, Do
  <2> QED
    BY <2>3, <2>4 DEF Instrs
<1>3. Knows(t, C) \in SUBSET Situations
  BY KnowsIs
<1>4. ASSUME NEW s \in Knows(t, C) PROVE Fine(e, i, s)
  BY <1>2 DEF Fine, Writes
<1>5. ASSUME NEW s \in Knows(t, C), NEW n \in Int, NEW u, Leads(e, i, s, n, u)
      PROVE  (n = 0 /\ u \in Knows(t, C)) \/ (n = -1 /\ u \in Knows(t, C))
  <2>1. s \in Situations /\ s.live \subseteq Buffers /\ s.third = t /\ C \subseteq s.live /\ \A v : Seen(e, s, v) = Shown(e, t, v)
    BY KnowsIs
  <2>2. \/ n = 0 /\ u = s
        \/ n = -1 /\ \E b \in s.live : /\ b = 3 => e.open
                                       /\ \A v \in vs : Seen(e, s, v).buf # b
                                       /\ u = [s EXCEPT !.live = @ \ {b}]
    BY <1>2, <1>5 DEF Leads, Writes
  <2>3. CASE n = -1 /\ \E b \in s.live : /\ b = 3 => e.open
                                         /\ \A v \in vs : Seen(e, s, v).buf # b
                                         /\ u = [s EXCEPT !.live = @ \ {b}]
    <3>1. PICK b \in s.live : /\ b = 3 => e.open
                              /\ \A v \in vs : Seen(e, s, v).buf # b
                              /\ u = [s EXCEPT !.live = @ \ {b}]
      BY <2>3
    <3>2. b \notin C
      BY <2>1, <3>1
    <3>3. u \in Situations /\ u.third = t /\ C \subseteq u.live
      BY <2>1, <3>1, <3>2 DEF Situations
    <3> QED
      BY <2>3, <3>3 DEF Knows
  <2> QED
    BY <2>2, <2>3
<1>6. Safe(e, Knows(t, C), <<i>>, Knows(t, C))
  BY <1>2, <1>3, <1>4, <1>5, One
<1>7. Safe(e, Knows(t, B), <<i>>, Knows(t, C))
  BY <1>3, <1>6, Forgets, Wider
<1> QED
  BY <1>1, <1>7 DEF ScriptSparing

\* A script that may detach all it can reach.
LEMMA ScriptsAny ==
    ASSUME NEW e, NEW t, NEW B, NEW C, C \subseteq B, \A b \in C : b = 3 /\ ~e.open
    PROVE  Safe(e, Knows(t, B), Script, Knows(t, C))
<1>1. PICK I : I = Instr("script", 1, 0, 0, 0, 0)
  OBVIOUS
<1>2. I = [I EXCEPT !.spare = {}]
  BY <1>1 DEF Instr
<1>3. Script = ScriptSparing({})
  BY <1>1, <1>2 DEF Script, Do, ScriptSparing
<1>4. Safe(e, Knows(t, B), ScriptSparing({}), Knows(t, C))
  BY Scripts
<1> QED
  BY <1>3, <1>4

\* Touching memory within a view.
LEMMA Touches ==
    ASSUME NEW e, NEW t, NEW B, NEW v \in 1..3, NEW i \in Int, NEW n \in Int,
           n > 0 => Shown(e, t, v).buf \in B /\ Inside(Shown(e, t, v), i, n)
    PROVE  /\ Safe(e, Knows(t, B), Touch(v, i, n), Knows(t, B))
           /\ Safe(e, Knows(t, B), Fill(v, i, n), Knows(t, B))
<1>1. Safe(e, Knows(t, B), <<>>, Knows(t, B))
  BY KnowsIs, Nothing
<1>2. ASSUME NEW op \in Ops, op \in {"touch", "fill"}, n > 0 PROVE Safe(e, Knows(t, B), <<Instr(op, v, i, 0, 0, n)>>, Knows(t, B))
  <2>1. PICK I : I = Instr(op, v, i, 0, 0, n)
    OBVIOUS
  <2>2. op \in Ops /\ v \in 0..3 /\ 0 \in 0..3
    BY DEF Ops, Writes
  <2>3. I \in Instrs /\ I.op = op /\ I.v = v /\ I.i = i /\ I.n = n
    <3>1. i \in Int /\ n \in Int /\ 0 \in Int
      OBVIOUS
    <3> QED
      BY ONLY <2>1, <2>2, <3>1, InstrIs
  <2>4. op \notin {"check", "leave", "move", "copy", "creep", "swap"} /\ op \in {"touch"} \union Writes
    BY <1>2 DEF Writes
  <2>5. Safe(e, Knows(t, B), <<I>>, Knows(t, B))
    BY <1>2, <2>3, <2>4, Plainly
  <2> QED
    BY <2>1, <2>5
<1>3. {"touch", "fill"} \subseteq Ops
  BY DEF Ops, Writes
<1> QED
  BY <1>1, <1>2, <1>3 DEF Touch, Fill

\* Moving elements between views.
LEMMA Moves ==
    ASSUME NEW e, NEW t, NEW B, NEW v \in 1..3, NEW i \in Int, NEW w \in 1..3, NEW j \in Int, NEW n \in Int,
           n > 0 => Shown(e, t, v).buf \in B /\ Inside(Shown(e, t, v), i, n),
           n > 0 => Shown(e, t, w).buf \in B /\ Inside(Shown(e, t, w), j, n)
    PROVE  /\ Safe(e, Knows(t, B), Copy(v, i, w, j, n), Knows(t, B))
           /\ n > 0 => Safe(e, Knows(t, B), Creep(v, i, w, j, n), Knows(t, B))
           /\ n = 1 => Safe(e, Knows(t, B), Move(v, i, w, j), Knows(t, B))
           /\ n = 1 /\ v = w => Safe(e, Knows(t, B), Swap(v, i, j), Knows(t, B))
<1>1. Safe(e, Knows(t, B), <<>>, Knows(t, B))
  BY KnowsIs, Nothing
<1>2. ASSUME NEW op \in Ops, op \in {"move", "copy", "creep", "swap"}, n > 0
      PROVE  Safe(e, Knows(t, B), <<Instr(op, v, i, w, j, n)>>, Knows(t, B))
  <2>1. PICK I : I = Instr(op, v, i, w, j, n)
    OBVIOUS
  <2>2. op \in Ops /\ v \in 0..3 /\ w \in 0..3
    BY DEF Ops, Writes
  <2>3. I \in Instrs /\ I.op = op /\ I.v = v /\ I.i = i /\ I.w = w /\ I.j = j /\ I.n = n
    <3>1. i \in Int /\ n \in Int /\ j \in Int
      OBVIOUS
    <3> QED
      BY ONLY <2>1, <2>2, <3>1, InstrIs
  <2>4. op \notin {"check", "leave", "touch"} /\ op \in Writes
    BY <1>2 DEF Writes
  <2>5. Safe(e, Knows(t, B), <<I>>, Knows(t, B))
    BY <1>2, <2>3, <2>4, Plainly
  <2> QED
    BY <2>1, <2>5
<1>3. {"move", "copy", "creep", "swap"} \subseteq Ops
  BY DEF Ops, Writes
<1> QED
  BY <1>1, <1>2, <1>3 DEF Copy, Creep, Move, Swap

\* Addresses in a view.
LEMMA AtIs ==
    ASSUME NEW w \in SomeViews, NEW i \in Nat
    PROVE  At(w, i) \in Nat /\ \A k \in Nat : i <= k => At(w, i) <= At(w, k)
<1>1. w.offset \in Nat /\ w.type \in Types
  BY DEF SomeViews
<1>2. Size(w.type) \in {1, 2, 4}
  BY <1>1 DEF Size, Types
<1>3. CASE Size(w.type) = 1
  BY <1>1, <1>3 DEF At
<1>4. CASE Size(w.type) = 2
  BY <1>1, <1>4 DEF At
<1>5. CASE Size(w.type) = 4
  BY <1>1, <1>5 DEF At
<1> QED
  BY <1>2, <1>3, <1>4, <1>5

\* A new array, in memory of its own or over that of another.
LEMMA Creates ==
    ASSUME NEW e, NEW t, NEW B, NEW w \in SomeViews, NEW fresh \in BOOLEAN,
           IF fresh THEN w.buf = 3 ELSE Fits(w)
    PROVE  Safe(e, Knows(t, B), Make(w, fresh), Knows(w, IF fresh THEN B \union {3} ELSE B))
<1> DEFINE n == IF fresh THEN At(w, w.length) ELSE -1
           C == IF fresh THEN B \union {3} ELSE B
<1>1. n \in Int /\ (fresh <=> n >= 0)
  <2>1. w.length \in Nat
    BY DEF SomeViews
  <2> QED
    BY <2>1, AtIs
<1>2. PICK i : i = [Instr("make", 3, 0, 0, 0, n) EXCEPT !.made = w]
  OBVIOUS
<1>3. i \in Instrs /\ i.op = "make" /\ i.made = w /\ i.n = n
  <2>1. PICK I : I = Instr("make", 3, 0, 0, 0, n)
    OBVIOUS
  <2>2. "make" \in Ops /\ 3 \in 0..3 /\ 0 \in 0..3
    BY DEF Ops
  <2>3. I \in Instrs /\ I.op = "make" /\ I.n = n
    BY <1>1, <2>1, <2>2, InstrIs
  <2>4. w \in AnyViews
    BY DEF SomeViews, AnyViews
  <2> QED
    BY <1>2, <2>1, <2>3, <2>4 DEF Instrs
<1>4. Knows(t, B) \in SUBSET Situations /\ Knows(w, C) \in SUBSET Situations
  BY KnowsIs
<1>5. fresh => n = At(w, w.length)
  OBVIOUS
<1> HIDE DEF n
<1>6. ASSUME NEW s \in Knows(t, B) PROVE Fine(e, i, s)
  BY <1>1, <1>3, <1>5 DEF Fine, Writes
<1>7. ASSUME NEW s \in Knows(t, B), NEW m \in Int, NEW u, Leads(e, i, s, m, u) PROVE m = 0 /\ u \in Knows(w, C)
  <2>1. s \in Situations /\ s.live \subseteq Buffers /\ B \subseteq s.live
    BY KnowsIs
  <2>2. m = 0 /\ u = [live |-> IF i.n >= 0 THEN s.live \union {3} ELSE s.live, third |-> i.made]
    BY <1>3, <1>7 DEF Leads, Writes
  <2>3. u = [live |-> IF fresh THEN s.live \union {3} ELSE s.live, third |-> w]
    BY <1>1, <1>3, <2>2
  <2>4. u \in Situations /\ u.third = w /\ C \subseteq u.live
    <3>1. 3 \in Buffers
      BY DEF Buffers
    <3> QED
      BY <2>1, <2>3, <3>1 DEF Situations
  <2> QED
    BY <2>2, <2>4 DEF Knows
<1> HIDE DEF C
<1>8. Safe(e, Knows(t, B), <<i>>, Knows(w, C))
  <2>1. \A s \in Knows(t, B) : Fine(e, i, s) /\ \A m \in Int : \A u : Leads(e, i, s, m, u) =>
           (m = 0 /\ u \in Knows(w, C)) \/ (m = -1 /\ u \in Knows(t, B))
    BY <1>6, <1>7
  <2> QED
    BY <1>3, <1>4, <2>1, One
<1> QED
  BY <1>2, <1>8 DEF Make, n, C

\* The bytes of a buffer go to a new one.
LEMMA HandsOver ==
    ASSUME NEW e, NEW t, NEW B, NEW n \in Nat, e.first.buf \in B
    PROVE  Safe(e, Knows(t, B), <<Instr("handover", 1, 0, 0, 0, n)>>, Knows(View(3, "u8", 0, n), {}))
<1> DEFINE w == View(3, "u8", 0, n)
<1>1. PICK i : i = Instr("handover", 1, 0, 0, 0, n)
  OBVIOUS
<1>2. i \in Instrs /\ i.op = "handover" /\ i.n = n
  <2>1. "handover" \in Ops /\ 1 \in 0..3 /\ 0 \in 0..3
    BY DEF Ops
  <2> QED
    BY <1>1, <2>1, InstrIs
<1>3. Knows(t, B) \in SUBSET Situations /\ Knows(w, {}) \in SUBSET Situations
  BY KnowsIs
<1>4. w \in SomeViews
  BY DEF SomeViews, View, Types
<1>5. ASSUME NEW s \in Knows(t, B) PROVE Fine(e, i, s)
  <2>1. B \subseteq s.live
    BY KnowsIs
  <2> QED
    BY <1>2, <2>1 DEF Fine, Writes
<1>6. ASSUME NEW s \in Knows(t, B), NEW m \in Int, NEW u, Leads(e, i, s, m, u) PROVE m = 0 /\ u \in Knows(w, {})
  <2>1. s \in Situations /\ s.live \subseteq Buffers
    BY KnowsIs
  <2>2. m = 0 /\ u = [live |-> (s.live \ {e.first.buf}) \union {3}, third |-> w]
    BY <1>2, <1>6 DEF Leads, Writes
  <2>3. 3 \in Buffers
    BY DEF Buffers
  <2> HIDE DEF w
  <2>4. u \in Situations /\ u.third = w
    BY <1>4, <2>1, <2>2, <2>3 DEF Situations
  <2> QED
    BY <2>2, <2>4 DEF Knows
<1> HIDE DEF w
<1>7. Safe(e, Knows(t, B), <<i>>, Knows(w, {}))
  <2>1. \A s \in Knows(t, B) : Fine(e, i, s) /\ \A m \in Int : \A u : Leads(e, i, s, m, u) =>
           (m = 0 /\ u \in Knows(w, {})) \/ (m = -1 /\ u \in Knows(t, B))
    BY <1>5, <1>6
  <2> QED
    BY <1>2, <1>3, <2>1, One
<1> QED
  BY <1>1, <1>7 DEF w

\* What is done only if an index is valid.
LEMMA IfValids ==
    ASSUME NEW e, NEW t, NEW B, NEW C, C \subseteq B, NEW v \in 1..3, Shown(e, t, v).buf \in Buffers,
           NEW k \in Int, NEW body \in Seq(Instrs),
           k \in 0..Shown(e, t, v).length - 1 => Safe(e, Knows(t, B \union {Shown(e, t, v).buf}), body, Knows(t, C))
    PROVE  Safe(e, Knows(t, B), IfValid(v, k, body), Knows(t, C))
<1> DEFINE w == Shown(e, t, v)
           X == Knows(t, B)
           V == {s \in X : Valid(e, s, v, k)}
<1>1. X \in SUBSET Situations /\ Knows(t, C) \in SUBSET Situations /\ X \subseteq Knows(t, C)
  BY KnowsIs, Forgets
<1>2. \A s \in X : Seen(e, s, v) = w /\ s \in Situations /\ s.third = t /\ B \subseteq s.live
  BY KnowsIs
<1>3. Safe(e, V, body, Knows(t, C))
  <2>1. CASE k \in 0..w.length - 1
    <3>1. V \subseteq Knows(t, B \union {w.buf})
      BY <1>2 DEF Valid, Knows
    <3>2. Safe(e, Knows(t, B \union {w.buf}), body, Knows(t, C))
      BY <2>1
    <3> HIDE DEF V, w
    <3> QED
      BY <1>1, <3>1, <3>2, Wider
  <2>2. CASE k \notin 0..w.length - 1
    <3>1. V = {}
      BY <1>2, <2>2 DEF Valid
    <3> HIDE DEF V
    <3> QED
      BY <1>1, <3>1, Dead
  <2> QED
    BY <2>1, <2>2
<1>4. \A s \in X : Seen(e, s, v).buf \in Buffers
  BY <1>2
<1>5. \A s \in X : ~Valid(e, s, v, k) => s \in Knows(t, C)
  BY <1>1
<1> HIDE DEF X, w
<1>6. Safe(e, {s \in X : Valid(e, s, v, k)}, body, Knows(t, C))
  BY <1>3
<1>7. Safe(e, X, IfValid(v, k, body), Knows(t, C))
  BY <1>1, <1>4, <1>5, <1>6, Branch
<1> QED
  BY <1>7 DEF X

\* What throws if an index is not valid.
LEMMA IfNots ==
    ASSUME NEW e, NEW t, NEW B, NEW v \in 1..3, Shown(e, t, v).buf \in Buffers, NEW k \in Int
    PROVE  Safe(e, Knows(t, B), IfNot(v, k),
                IF k \in 0..Shown(e, t, v).length - 1 THEN Knows(t, B \union {Shown(e, t, v).buf}) ELSE {})
<1> DEFINE w == Shown(e, t, v)
           X == Knows(t, B)
           V == {s \in X : Valid(e, s, v, k)}
           Y == IF k \in 0..w.length - 1 THEN Knows(t, B \union {w.buf}) ELSE {}
           P == IfNot(v, k)
           A == [m \in 1..4 |-> IF m \in {1, 3} THEN X ELSE IF m = 2 THEN V ELSE Y]
<1>1. X \in SUBSET Situations /\ Knows(t, B \union {w.buf}) \in SUBSET Situations
  BY KnowsIs
<1>2. \A s \in X : Seen(e, s, v) = w /\ s \in Situations /\ s.third = t /\ B \subseteq s.live
  BY KnowsIs
<1>3. V \subseteq Y /\ Y \in SUBSET Situations
  BY <1>1, <1>2 DEF Valid, Knows
<1>4. PICK i : i = Instr("valid", v, k, 0, 0, 1)
  OBVIOUS
<1>5. PICK j : j = Instr("skip1", 0, 0, 0, 0, 1)
  OBVIOUS
<1>6. PICK h : h = Instr("throw", 1, 0, 0, 0, 0)
  OBVIOUS
<1>7. {"valid", "skip1", "throw"} \subseteq Ops /\ v \in 0..3 /\ 0 \in 0..3 /\ 1 \in 0..3 /\ 0 \in Int /\ 1 \in Int
  BY DEF Ops
<1>8. i \in Instrs /\ i.op = "valid" /\ i.v = v /\ i.i = k /\ i.n = 1
  BY <1>4, <1>7, InstrIs
<1>9. j \in Instrs /\ j.op = "skip1"
  BY <1>5, <1>7, InstrIs
<1>10. h \in Instrs /\ h.op = "throw"
  BY <1>6, <1>7, InstrIs
<1>11. P = <<i, j>> \o <<h>>
  BY <1>4, <1>5, <1>6 DEF IfNot, Throw, Do
<1> HIDE DEF P
<1>12. P \in Seq(Instrs) /\ Len(P) = 3 /\ P[1] = i /\ P[2] = j /\ P[3] = h
  <2> DEFINE Q == <<i, j>>
             R == <<h>>
  <2>1. Q \in Seq(Instrs) /\ Len(Q) = 2 /\ Q[1] = i /\ Q[2] = j
    BY <1>8, <1>9
  <2>2. R \in Seq(Instrs) /\ Len(R) = 1 /\ R[1] = h
    BY <1>10
  <2>3. P = Q \o R
    BY <1>11
  <2> HIDE DEF Q, R
  <2>4. /\ P \in Seq(Instrs) /\ Len(P) = Len(Q) + Len(R)
        /\ \A m \in 1..Len(P) : P[m] = IF m <= Len(Q) THEN Q[m] ELSE R[m - Len(Q)]
    BY <2>1, <2>2, <2>3, ConcatProperties, SMTT(30)
  <2>5. Len(P) = 3 /\ 1 \in 1..3 /\ 2 \in 1..3 /\ 3 \in 1..3 /\ 3 - 2 = 1
    BY <2>1, <2>2, <2>4
  <2> QED
    BY <2>1, <2>2, <2>4, <2>5
<1> HIDE DEF X, Y, w
<1>13. A \in [1..4 -> SUBSET Situations] /\ A[1] = X /\ A[2] = V /\ A[3] = X /\ A[4] = Y
  BY <1>1, <1>3
<1> HIDE DEF A
<1>14. ASSUME NEW m \in 1..3, NEW s \in A[m]
       PROVE  /\ Fine(e, P[m], s)
              /\ \A n \in Int : \A u : Leads(e, P[m], s, n, u) => m + n + 1 \in 1..4 /\ u \in A[m + n + 1]
  <2>1. CASE m = 1
    <3>1. P[m] = i /\ s \in X
      BY <1>12, <1>13, <1>14, <2>1
    <3>2. Fine(e, i, s)
      BY <1>2, <1>8, <3>1 DEF Fine, Writes, w
    <3>3. ASSUME NEW n \in Int, NEW u, Leads(e, i, s, n, u) PROVE m + n + 1 \in 1..4 /\ u \in A[m + n + 1]
      <4>1. n = (IF Valid(e, s, v, k) THEN 0 ELSE 1) /\ u = s
        BY <1>8, <3>3 DEF Leads, Writes
      <4> QED
        BY <1>13, <2>1, <3>1, <4>1
    <3> QED
      BY <3>1, <3>2, <3>3
  <2>2. CASE m = 2
    <3>1. P[m] = j /\ s \in V
      BY <1>12, <1>13, <1>14, <2>2
    <3>2. Fine(e, j, s)
      BY <1>9 DEF Fine, Writes
    <3>3. ASSUME NEW n \in Int, NEW u, Leads(e, j, s, n, u) PROVE m + n + 1 \in 1..4 /\ u \in A[m + n + 1]
      <4>1. n = 1 /\ u = s
        BY <1>9, <3>3 DEF Leads, Writes
      <4> QED
        BY <1>3, <1>13, <2>2, <3>1, <4>1
    <3> QED
      BY <3>1, <3>2, <3>3
  <2>3. CASE m = 3
    <3>1. P[m] = h
      BY <1>12, <2>3
    <3>2. Fine(e, h, s) /\ \A n \in Int : \A u : ~Leads(e, h, s, n, u)
      BY <1>10 DEF Fine, Leads, Writes
    <3> QED
      BY <3>1, <3>2
  <2> QED
    BY <2>1, <2>2, <2>3
<1>15. Labels(e, P, A)
  BY <1>12, <1>13, <1>14 DEF Labels
<1>16. Safe(e, X, P, Y)
  BY <1>1, <1>3, <1>12, <1>13, <1>15 DEF Safe
<1> QED
  BY <1>16 DEF X, Y, P, w

\* The instructions of a write are instructions.
LEMMA PutsAre ==
    ASSUME NEW v \in 1..3, NEW i \in Int
    PROVE  Put(v, i) \in Seq(Instrs) /\ Touch(v, i, 1) \in Seq(Instrs)
<1>1. PICK I : I = Instr("touch", v, i, 0, 0, 1)
  OBVIOUS
<1>2. "touch" \in Ops /\ v \in 0..3 /\ 0 \in 0..3 /\ 0 \in Int /\ 1 \in Int
  BY DEF Ops
<1>3. I \in Instrs
  BY <1>1, <1>2, InstrIs
<1>4. Touch(v, i, 1) = <<I>>
  BY <1>1 DEF Touch
<1>5. ScriptSparing({v}) \in Seq(Instrs)
  <2>1. {v} \in SUBSET (1..3)
    OBVIOUS
  <2>2. \A e, t : Safe(e, Knows(t, {}), ScriptSparing({v}), Knows(t, {}))
    BY <2>1, Scripts
  <2> QED
    BY <2>2 DEF Safe
<1>6. <<I>> \in Seq(Instrs)
  BY <1>3
<1>7. Touch(v, i, 1) \in Seq(Instrs)
  BY <1>4, <1>6
<1>8. ScriptSparing({v}) \o Touch(v, i, 1) \in Seq(Instrs)
  BY <1>5, <1>7
<1> QED
  BY <1>7, <1>8 DEF Put

\* Reading and writing an element.
LEMMA Gets ==
    ASSUME NEW e, NEW t, NEW B, NEW v \in 1..3, Shown(e, t, v) \in SomeViews, Shown(e, t, v).buf \in Buffers, NEW k \in Int
    PROVE  Safe(e, Knows(t, B), Get(v, k), Knows(t, B))
<1> DEFINE w == Shown(e, t, v)
<1>1. Touch(v, k, 1) \in Seq(Instrs)
  BY PutsAre
<1>2. ASSUME k \in 0..w.length - 1 PROVE Safe(e, Knows(t, B \union {w.buf}), Touch(v, k, 1), Knows(t, B))
  <2>1. w.length \in Nat
    BY DEF SomeViews
  <2>2. w.buf \in B \union {w.buf} /\ Inside(w, k, 1)
    BY <1>2, <2>1 DEF Inside
  <2>3. Safe(e, Knows(t, B \union {w.buf}), Touch(v, k, 1), Knows(t, B \union {w.buf}))
    BY <2>2, Touches
  <2>4. Knows(t, B \union {w.buf}) \subseteq Knows(t, B) /\ Knows(t, B) \in SUBSET Situations
    BY Forgets
  <2> HIDE DEF w
  <2> QED
    BY <2>3, <2>4, Wider
<1> QED
  BY <1>1, <1>2, IfValids DEF Get

\* Writing where the address was taken before the value is converted.
LEMMA Puts ==
    ASSUME NEW e, NEW t, NEW v \in 1..3, NEW i \in Int, NEW B, Shown(e, t, v).buf \in B, Inside(Shown(e, t, v), i, 1)
    PROVE  Safe(e, Knows(t, B), Put(v, i), Knows(t, {Shown(e, t, v).buf}))
<1> DEFINE b == Shown(e, t, v).buf
<1>1. Safe(e, Knows(t, B), ScriptSparing({v}), Knows(t, {b}))
  <2>1. {v} \in SUBSET (1..3) /\ {b} \subseteq B /\ \A x \in {b} : \E u \in {v} : Shown(e, t, u).buf = x
    OBVIOUS
  <2> QED
    BY <2>1, Scripts
<1>2. Safe(e, Knows(t, {b}), Touch(v, i, 1), Knows(t, {b}))
  BY Touches
<1> QED
  BY <1>1, <1>2, Join DEF Put

-----------------------------------------------------------------------------
(* Methods that only read                                                  *)

\* View v is one that a method may be called on.
Can(e, t, v) == v \in 1..3 /\ Shown(e, t, v) \in SomeViews /\ Shown(e, t, v).buf \in Buffers

\* To be content with less.
LEMMA Weaker ==
    ASSUME NEW e, NEW X, NEW P, NEW t, NEW B, NEW C, Safe(e, X, P, Knows(t, B)), C \subseteq B
    PROVE  Safe(e, X, P, Knows(t, C)) /\ Safe(e, X, P, Situations)
<1>1. Knows(t, B) \subseteq Knows(t, C) /\ Knows(t, C) \in SUBSET Situations /\ Knows(t, B) \subseteq Situations
  BY Forgets, KnowsIs
<1>2. X \subseteq X /\ Situations \in SUBSET Situations
  OBVIOUS
<1> QED
  BY <1>1, <1>2, Wider

\* Several programs, one after the other.
LEMMA Chain ==
    ASSUME NEW e, NEW A, NEW P, NEW B, NEW Q, NEW C, NEW R, NEW D,
           Safe(e, A, P, B), Safe(e, B, Q, C), Safe(e, C, R, D)
    PROVE  Safe(e, A, P \o Q \o R, D)
<1>1. Safe(e, A, P \o Q, C)
  BY Join
<1> QED
  BY <1>1, Join

\* The steps that may come at any time.
LEMMA Steady ==
    ASSUME NEW e, NEW t, NEW K, K = Knows(t, {})
    PROVE  /\ K \in SUBSET Situations /\ Safe(e, K, <<>>, K) /\ Safe(e, K, <<>>, Situations)
           /\ Safe(e, K, Script, K) /\ Safe(e, K, Throw, K)
           /\ \A p \in BOOLEAN : Safe(e, K, Refuse(p), K)
           /\ \A v : Can(e, t, v) => /\ Safe(e, K, Check(v), K) /\ Safe(e, K, Leave(v), K) /\ Safe(e, K, Do("mayEnd", v), K)
                                     /\ Safe(e, K, Check(v), Knows(t, {Shown(e, t, v).buf}))
                                     /\ Safe(e, K, Leave(v), Knows(t, {Shown(e, t, v).buf}))
                                     /\ \A k \in Int : Safe(e, K, Get(v, k), K)
<1>1. K \in SUBSET Situations
  BY KnowsIs
<1>2. Safe(e, K, <<>>, K) /\ Safe(e, K, <<>>, Situations)
  BY <1>1, Nothing, Weaker
<1>3. Safe(e, K, Script, K) /\ Safe(e, K, Throw, K)
  BY <1>1, ScriptsAny, Throws
<1>4. ASSUME NEW p \in BOOLEAN PROVE Safe(e, K, Refuse(p), K)
  BY <1>2, <1>3 DEF Refuse
<1>5. ASSUME NEW v, Can(e, t, v)
      PROVE  /\ Safe(e, K, Check(v), K) /\ Safe(e, K, Leave(v), K) /\ Safe(e, K, Do("mayEnd", v), K)
             /\ Safe(e, K, Check(v), Knows(t, {Shown(e, t, v).buf}))
             /\ Safe(e, K, Leave(v), Knows(t, {Shown(e, t, v).buf}))
             /\ \A k \in Int : Safe(e, K, Get(v, k), K)
  <2>1. v \in 1..3 /\ Shown(e, t, v) \in SomeViews /\ Shown(e, t, v).buf \in Buffers
    BY <1>5 DEF Can
  <2>2. PICK b : b = Shown(e, t, v).buf
    OBVIOUS
  <2>3. Safe(e, K, Check(v), Knows(t, {} \union {b})) /\ Safe(e, K, Leave(v), Knows(t, {} \union {b}))
    BY <2>1, <2>2, Checks
  <2>4. {} \union {b} = {b} /\ {} \subseteq {b}
    OBVIOUS
  <2>5. Safe(e, K, Check(v), Knows(t, {b})) /\ Safe(e, K, Leave(v), Knows(t, {b}))
    BY <2>3, <2>4
  <2>6. Safe(e, K, Check(v), K) /\ Safe(e, K, Leave(v), K)
    BY <2>4, <2>5, Weaker
  <2>7. Safe(e, K, Do("mayEnd", v), K)
    BY <2>1, MayEnds
  <2>8. \A k \in Int : Safe(e, K, Get(v, k), K)
    BY <2>1, Gets
  <2> QED
    BY <2>2, <2>5, <2>6, <2>7, <2>8
<1> QED
  BY <1>1, <1>2, <1>3, <1>4, <1>5

\* The indices that a loop goes through.
LEMMA UpwardsIs ==
    ASSUME NEW from \in Int, NEW n \in Int
    PROVE  Upwards(from, n) \in Seq(Int) /\ \A m \in 1..Len(Upwards(from, n)) : Upwards(from, n)[m] \in from..n - 1
<1> DEFINE k == Greater(n - from, 0)
           s == [x \in 1..k |-> from + x - 1]
<1>1. k \in Nat /\ (k > 0 => k = n - from)
  BY DEF Greater
<1> HIDE DEF k
<1>2. s \in Seq(Int) /\ Len(s) = k
  BY <1>1
<1>3. \A m \in 1..k : s[m] \in from..n - 1
  BY <1>1
<1>4. Upwards(from, n) = s
  BY DEF Upwards, k
<1> HIDE DEF s
<1> QED
  BY <1>2, <1>3, <1>4

LEMMA DownwardsIs ==
    ASSUME NEW n \in Int, NEW to \in Int
    PROVE  Downwards(n, to) \in Seq(Int) /\ \A m \in 1..Len(Downwards(n, to)) : Downwards(n, to)[m] \in to..n - 1
<1> DEFINE k == Greater(n - to, 0)
           s == [x \in 1..k |-> n - x]
<1>1. k \in Nat /\ (k > 0 => k = n - to)
  BY DEF Greater
<1> HIDE DEF k
<1>2. s \in Seq(Int) /\ Len(s) = k
  BY <1>1
<1>3. \A m \in 1..k : s[m] \in to..n - 1
  BY <1>1
<1>4. Downwards(n, to) = s
  BY DEF Downwards, k
<1> HIDE DEF s
<1> QED
  BY <1>2, <1>3, <1>4

\* every, find and their like.
LEMMA Visits ==
    ASSUME NEW e, NEW t, NEW v, Can(e, t, v), NEW ks \in Seq(Int), NEW ends \in BOOLEAN
    PROVE  Safe(e, Knows(t, {}), Visit(v, ks, ends), Situations)
<1>0. PICK K : K = Knows(t, {})
  OBVIOUS
<1>1. /\ K \in SUBSET Situations /\ Safe(e, K, <<>>, K) /\ Safe(e, K, Script, K)
      /\ Safe(e, K, Check(v), K) /\ Safe(e, K, Do("mayEnd", v), K)
      /\ \A k \in Int : Safe(e, K, Get(v, k), K)
  BY <1>0, Steady
<1>2. Len(ks) \in Nat /\ \A m \in 1..Len(ks) : ks[m] \in Int
  OBVIOUS
<1>3. Safe(e, K, Each(ks, LAMBDA k : Get(v, k) \o Script \o (IF ends THEN Do("mayEnd", v) ELSE <<>>)), K)
  <2> DEFINE s == [m \in 1..Len(ks) |-> Get(v, ks[m]) \o Script \o (IF ends THEN Do("mayEnd", v) ELSE <<>>)]
  <2>1. ASSUME NEW m \in 1..Len(ks) PROVE Safe(e, K, s[m], K)
    <3>1. Safe(e, K, Get(v, ks[m]), K)
      BY <1>1, <1>2
    <3>2. Safe(e, K, IF ends THEN Do("mayEnd", v) ELSE <<>>, K)
      BY <1>1
    <3>3. Safe(e, K, Get(v, ks[m]) \o Script \o (IF ends THEN Do("mayEnd", v) ELSE <<>>), K)
      BY <1>1, <3>1, <3>2, Chain
    <3> QED
      BY <3>3
  <2>2. s = [m \in 1..Len(ks) |-> s[m]]
    OBVIOUS
  <2>3. Each(ks, LAMBDA k : Get(v, k) \o Script \o (IF ends THEN Do("mayEnd", v) ELSE <<>>)) = FlattenSeq(s)
    BY DEF Each
  <2> HIDE DEF s
  <2>4. Safe(e, K, FlattenSeq(s), K)
    BY <1>1, <1>2, <2>1, <2>2, Loop
  <2> QED
    BY <2>3, <2>4
<1>4. Safe(e, K, Visit(v, ks, ends), K)
  BY <1>1, <1>3, Join DEF Visit
<1> QED
  BY <1>0, <1>4, Weaker

\* Where a search or a copy begins.
LEMMA IndexIs ==
    ASSUME NEW rel \in Int, NEW l \in Nat
    PROVE  relToIdx(rel, l) \in 0..l
BY DEF relToIdx, Lesser, Greater

\* Memory touched right after the buffer was looked at, or never reached.
LEMMA Reads ==
    ASSUME NEW e, NEW t, NEW v, Can(e, t, v), NEW i \in Int, NEW n \in Int,
           n > 0 => Inside(Shown(e, t, v), i, n)
    PROVE  /\ Safe(e, Knows(t, {Shown(e, t, v).buf}), Touch(v, i, n), Knows(t, {}))
           /\ Safe(e, Knows(t, {Shown(e, t, v).buf}), Touch(v, i, n), Situations)
           /\ Safe(e, Knows(t, {Shown(e, t, v).buf}), Fill(v, i, n), Situations)
<1>1. v \in 1..3
  BY DEF Can
<1>2. PICK b : b = Shown(e, t, v).buf
  OBVIOUS
<1>3. /\ Safe(e, Knows(t, {b}), Touch(v, i, n), Knows(t, {b}))
      /\ Safe(e, Knows(t, {b}), Fill(v, i, n), Knows(t, {b}))
  BY <1>1, <1>2, Touches
<1>4. {} \subseteq {b}
  OBVIOUS
<1> QED
  BY <1>2, <1>3, <1>4, Weaker

LEMMA Reduces ==
    ASSUME NEW e, NEW t, NEW v, Can(e, t, v), NEW n, n = Shown(e, t, v).length, NEW init \in BOOLEAN
    PROVE  /\ Safe(e, Knows(t, {}), typedArrayProto_reduce(v, n, init), Situations)
           /\ Safe(e, Knows(t, {}), typedArrayProto_reduceRight(v, n, init), Situations)
<1>0. PICK K, H : K = Knows(t, {}) /\ H = Knows(t, {Shown(e, t, v).buf})
  OBVIOUS
<1>1. /\ K \in SUBSET Situations /\ Safe(e, K, <<>>, K) /\ Safe(e, K, Check(v), K) /\ Safe(e, K, Check(v), H)
      /\ Safe(e, K, Script, K) /\ \A k \in Int : Safe(e, K, Get(v, k), K)
  BY <1>0, Steady
<1>2. n \in Nat /\ v \in 1..3
  BY DEF Can, SomeViews
<1>3. ASSUME NEW i \in Int, n # 0 => Inside(Shown(e, t, v), i, 1)
      PROVE  Safe(e, H, Refuse(n = 0) \o Touch(v, i, 1), K)
  <2>1. H \in SUBSET Situations /\ Touch(v, i, 1) \in Seq(Instrs)
    BY <1>0, <1>2, KnowsIs, PutsAre
  <2>2. (n = 0) \in BOOLEAN
    OBVIOUS
  <2>3. Safe(e, H, Refuse(n = 0), IF n = 0 THEN {} ELSE H)
    BY <2>1, <2>2, Refuses
  <2>4. Safe(e, IF n = 0 THEN {} ELSE H, Touch(v, i, 1), K)
    <3>1. CASE n = 0
      BY <1>1, <2>1, <3>1, Dead
    <3>2. CASE n # 0
      <4>1. Safe(e, H, Touch(v, i, 1), K)
        BY <1>0, <1>3, <3>2, Reads
      <4> QED
        BY <3>2, <4>1
    <3> QED
      BY <3>1, <3>2
  <2> QED
    BY <2>3, <2>4, Join
<1>4. ASSUME NEW i \in Int, n # 0 => Inside(Shown(e, t, v), i, 1), NEW ks \in Seq(Int)
      PROVE  Safe(e, K, Check(v) \o (IF init THEN <<>> ELSE Refuse(n = 0) \o Touch(v, i, 1))
                              \o Each(ks, LAMBDA k : Get(v, k) \o Script), Situations)
  <2>1. PICK M : M = IF init THEN K ELSE H
    OBVIOUS
  <2>2. Safe(e, K, Check(v), M)
    BY <1>1, <2>1
  <2>3. Safe(e, M, IF init THEN <<>> ELSE Refuse(n = 0) \o Touch(v, i, 1), K)
    BY <1>1, <1>3, <1>4, <2>1
  <2>4. Safe(e, K, Each(ks, LAMBDA k : Get(v, k) \o Script), K)
    <3> DEFINE s == [m \in 1..Len(ks) |-> Get(v, ks[m]) \o Script]
    <3>1. ASSUME NEW m \in 1..Len(ks) PROVE Safe(e, K, s[m], K)
      <4>1. Safe(e, K, Get(v, ks[m]), K)
        BY <1>1, <1>2
      <4>2. Safe(e, K, Get(v, ks[m]) \o Script, K)
        BY <1>1, <4>1, Join
      <4> QED
        BY <4>2
    <3>2. s = [m \in 1..Len(ks) |-> s[m]] /\ Len(ks) \in Nat
      OBVIOUS
    <3>3. Each(ks, LAMBDA k : Get(v, k) \o Script) = FlattenSeq(s)
      BY DEF Each
    <3> HIDE DEF s
    <3>4. Safe(e, K, FlattenSeq(s), K)
      BY <1>1, <3>1, <3>2, Loop
    <3> QED
      BY <3>3, <3>4
  <2>5. Safe(e, K, Each(ks, LAMBDA k : Get(v, k) \o Script), Situations)
    BY <1>0, <2>4, Weaker
  <2> QED
    BY <2>2, <2>3, <2>5, Chain
<1>5. Safe(e, K, typedArrayProto_reduce(v, n, init), Situations)
  <2>1. n # 0 => Inside(Shown(e, t, v), 0, 1)
    BY <1>2 DEF Inside
  <2> DEFINE from == IF init THEN 0 ELSE 1
  <2>2. from \in Int /\ n \in Int
    BY <1>2
  <2> HIDE DEF from
  <2>3. Upwards(from, n) \in Seq(Int)
    BY <2>2, UpwardsIs
  <2>4. PICK ks \in Seq(Int) : ks = Upwards(from, n)
    BY <2>3
  <2>5. PICK i \in Int : i = 0
    OBVIOUS
  <2>6. Safe(e, K, Check(v) \o (IF init THEN <<>> ELSE Refuse(n = 0) \o Touch(v, i, 1))
                          \o Each(ks, LAMBDA k : Get(v, k) \o Script), Situations)
    BY <1>4, <2>1, <2>5
  <2> QED
    BY <2>4, <2>5, <2>6 DEF typedArrayProto_reduce, from
<1>6. Safe(e, K, typedArrayProto_reduceRight(v, n, init), Situations)
  <2>1. n # 0 => Inside(Shown(e, t, v), n - 1, 1)
    BY <1>2 DEF Inside
  <2>2. (IF init THEN n ELSE n - 1) \in Int /\ n - 1 \in Int
    BY <1>2
  <2> DEFINE to == IF init THEN n ELSE n - 1
  <2>3. to \in Int /\ 0 \in Int
    BY <2>2
  <2> HIDE DEF to
  <2>6. Downwards(to, 0) \in Seq(Int)
    BY <2>3, DownwardsIs
  <2>4. PICK ks \in Seq(Int) : ks = Downwards(to, 0)
    BY <2>6
  <2>5. Safe(e, K, Check(v) \o (IF init THEN <<>> ELSE Refuse(n = 0) \o Touch(v, n - 1, 1))
                          \o Each(ks, LAMBDA k : Get(v, k) \o Script), Situations)
    BY <1>4, <2>1, <2>2
  <2> QED
    BY <2>4, <2>5 DEF typedArrayProto_reduceRight, to
<1> QED
  BY <1>0, <1>5, <1>6

LEMMA Finds ==
    ASSUME NEW e, NEW t, NEW v, Can(e, t, v), NEW n, n = Shown(e, t, v).length, NEW a \in Int
    PROVE  /\ Safe(e, Knows(t, {}), typedArrayProto_at(v, n, a), Situations)
           /\ Safe(e, Knows(t, {}), SearchFrom(v, n, a), Situations)
           /\ Safe(e, Knows(t, {}), typedArrayProto_lastIndexOf(v, n, a), Situations)
<1>0. PICK K, H : K = Knows(t, {}) /\ H = Knows(t, {Shown(e, t, v).buf})
  OBVIOUS
<1>1. /\ K \in SUBSET Situations /\ Safe(e, K, <<>>, Situations) /\ Safe(e, K, Script, K) /\ Safe(e, K, Check(v), K)
      /\ Safe(e, K, Check(v), Situations) /\ Safe(e, K, Leave(v), H)
  <2>1. /\ K \in SUBSET Situations /\ Safe(e, K, <<>>, Situations) /\ Safe(e, K, Script, K) /\ Safe(e, K, Check(v), K)
        /\ Safe(e, K, Leave(v), H)
    BY <1>0, Steady
  <2>2. {} \subseteq {}
    OBVIOUS
  <2> QED
    BY <1>0, <2>1, <2>2, Weaker
<1>2. n \in Nat /\ v \in 1..3
  BY DEF Can, SomeViews
<1>3. ASSUME NEW i \in Int, NEW l \in Int, l > 0 => Inside(Shown(e, t, v), i, l)
      PROVE  Safe(e, K, Leave(v) \o Touch(v, i, l), Situations)
  <2>1. Safe(e, H, Touch(v, i, l), Situations)
    BY <1>0, <1>3, Reads
  <2> QED
    BY <1>1, <2>1, Join
<1>4. Safe(e, K, typedArrayProto_at(v, n, a), Situations)
  <2> DEFINE k == IF a < 0 THEN n + a ELSE a
  <2>1. k \in Int
    BY <1>2
  <2>2. k \in 0..n - 1 => Inside(Shown(e, t, v), k, 1)
    BY <1>2 DEF Inside
  <2> HIDE DEF k
  <2>3. Safe(e, K, IF k \in 0..n - 1 THEN Leave(v) \o Touch(v, k, 1) ELSE <<>>, Situations)
    BY <1>1, <1>3, <2>1, <2>2
  <2>4. Safe(e, K, Check(v) \o Script \o (IF k \in 0..n - 1 THEN Leave(v) \o Touch(v, k, 1) ELSE <<>>), Situations)
    BY <1>1, <2>3, Chain
  <2> QED
    BY <2>4 DEF typedArrayProto_at, k
<1>5. Safe(e, K, SearchFrom(v, n, a), Situations)
  <2> DEFINE i == relToIdx(a, n)
  <2>1. i \in 0..n
    BY <1>2, IndexIs
  <2> HIDE DEF i
  <2>2. i \in Int /\ n - i \in Int /\ (n - i > 0 => Inside(Shown(e, t, v), i, n - i))
    BY <1>2, <2>1 DEF Inside
  <2>3. Safe(e, K, Leave(v) \o Touch(v, i, n - i), Situations)
    BY <1>3, <2>2
  <2>4. Safe(e, K, IF a >= n THEN <<>> ELSE Leave(v) \o Touch(v, i, n - i), Situations)
    BY <1>1, <2>3
  <2>5. Safe(e, K, IF n = 0 THEN <<>> ELSE Script \o (IF a >= n THEN <<>> ELSE Leave(v) \o Touch(v, i, n - i)), Situations)
    <3>1. Safe(e, K, Script \o (IF a >= n THEN <<>> ELSE Leave(v) \o Touch(v, i, n - i)), Situations)
      BY <1>1, <2>4, Join
    <3> QED
      BY <1>1, <3>1
  <2>6. Safe(e, K, Check(v) \o (IF n = 0 THEN <<>> ELSE Script \o (IF a >= n THEN <<>> ELSE Leave(v) \o Touch(v, i, n - i))), Situations)
    BY <1>1, <2>5, Join
  <2> QED
    BY <2>6 DEF SearchFrom, i
<1>6. Safe(e, K, typedArrayProto_lastIndexOf(v, n, a), Situations)
  <2> DEFINE from == IF a >= 0 THEN Lesser(a, n - 1) ELSE Greater(n + a, -1)
  <2>1. from \in -1..n - 1
    BY <1>2 DEF Lesser, Greater
  <2> HIDE DEF from
  <2>2. 0 \in Int /\ from + 1 \in Int /\ (from + 1 > 0 => Inside(Shown(e, t, v), 0, from + 1))
    BY <1>2, <2>1 DEF Inside
  <2>5. Safe(e, H, Touch(v, 0, from + 1), Situations)
    BY <1>0, <2>2, Reads
  <2>6. Safe(e, K, Script \o Leave(v) \o Touch(v, 0, from + 1), Situations)
    BY <1>1, <2>5, Chain
  <2>7. Safe(e, K, IF n = 0 THEN <<>> ELSE Script \o Leave(v) \o Touch(v, 0, from + 1), Situations)
    BY <1>1, <2>6
  <2>8. Safe(e, K, Check(v) \o (IF n = 0 THEN <<>> ELSE Script \o Leave(v) \o Touch(v, 0, from + 1)), Situations)
    BY <1>1, <2>7, Join
  <2> QED
    BY <2>8 DEF typedArrayProto_lastIndexOf, from
<1> QED
  BY <1>0, <1>4, <1>5, <1>6

-----------------------------------------------------------------------------
(* Methods that read and write one array                                   *)

LEMMA JoinsAndStrings ==
    ASSUME NEW e, NEW t, NEW v, Can(e, t, v), NEW n, n = Shown(e, t, v).length
    PROVE  /\ Safe(e, Knows(t, {}), typedArrayProto_join(v, n), Situations)
           /\ Safe(e, Knows(t, {}), typedArrayProto_toLocaleString(v, n), Situations)
<1>0. PICK K, H : K = Knows(t, {}) /\ H = Knows(t, {Shown(e, t, v).buf})
  OBVIOUS
<1>1. /\ K \in SUBSET Situations /\ Safe(e, K, Check(v), K) /\ Safe(e, K, Check(v), H) /\ Safe(e, K, Script, K)
      /\ \A k \in Int : Safe(e, K, Get(v, k), K)
  BY <1>0, Steady
<1>2. n \in Nat /\ v \in 1..3
  BY DEF Can, SomeViews
<1>3. PICK ks \in Seq(Int) : ks = Upwards(0, n) /\ Len(ks) \in Nat /\ \A m \in 1..Len(ks) : ks[m] \in 0..n - 1
  <2>1. 0 \in Int /\ n \in Int
    BY <1>2
  <2>2. Upwards(0, n) \in Seq(Int) /\ \A m \in 1..Len(Upwards(0, n)) : Upwards(0, n)[m] \in 0..n - 1
    BY <2>1, UpwardsIs
  <2>3. \A ks \in Seq(Int) : Len(ks) \in Nat
    OBVIOUS
  <2> QED
    BY <2>2, <2>3
<1>4. Safe(e, K, Each(ks, LAMBDA k : Get(v, k)), K)
  <2> DEFINE s == [m \in 1..Len(ks) |-> Get(v, ks[m])]
  <2>1. ASSUME NEW m \in 1..Len(ks) PROVE Safe(e, K, s[m], K)
    BY <1>1, <1>3
  <2>2. s = [m \in 1..Len(ks) |-> s[m]]
    OBVIOUS
  <2>3. Each(ks, LAMBDA k : Get(v, k)) = FlattenSeq(s)
    BY DEF Each
  <2> HIDE DEF s
  <2>4. Safe(e, K, FlattenSeq(s), K)
    BY <1>1, <1>3, <2>1, <2>2, Loop
  <2> QED
    BY <2>3, <2>4
<1>5. Safe(e, K, Each(ks, LAMBDA k : Check(v) \o Touch(v, k, 1) \o Script), K)
  <2> DEFINE s == [m \in 1..Len(ks) |-> Check(v) \o Touch(v, ks[m], 1) \o Script]
  <2>1. ASSUME NEW m \in 1..Len(ks) PROVE Safe(e, K, s[m], K)
    <3>1. ks[m] \in Int /\ 1 \in Int /\ Inside(Shown(e, t, v), ks[m], 1)
      BY <1>2, <1>3 DEF Inside
    <3>2. Safe(e, H, Touch(v, ks[m], 1), K)
      BY <1>0, <3>1, Reads
    <3>3. Safe(e, K, Check(v) \o Touch(v, ks[m], 1) \o Script, K)
      BY <1>1, <3>2, Chain
    <3> QED
      BY <3>3
  <2>2. s = [m \in 1..Len(ks) |-> s[m]]
    OBVIOUS
  <2>3. Each(ks, LAMBDA k : Check(v) \o Touch(v, k, 1) \o Script) = FlattenSeq(s)
    BY DEF Each
  <2> HIDE DEF s
  <2>4. Safe(e, K, FlattenSeq(s), K)
    BY <1>1, <1>3, <2>1, <2>2, Loop
  <2> QED
    BY <2>3, <2>4
<1>6. Safe(e, K, Check(v) \o Script \o Each(ks, LAMBDA k : Get(v, k)), K)
  BY <1>1, <1>4, Chain
<1>7. Safe(e, K, typedArrayProto_join(v, n), K)
  BY <1>3, <1>6 DEF typedArrayProto_join
<1>8. Safe(e, K, typedArrayProto_toLocaleString(v, n), K)
  BY <1>3, <1>5 DEF typedArrayProto_toLocaleString
<1> QED
  BY <1>0, <1>7, <1>8, Weaker

\* a[k], a[k] = x and defineProperty.
LEMMA Elementwise ==
    ASSUME NEW e, NEW t, NEW v, Can(e, t, v), NEW k \in Int
    PROVE  /\ Safe(e, Knows(t, {}), _getIdx(v, k), Situations)
           /\ Safe(e, Knows(t, {}), _putIdx(v, k), Knows(t, {}))
           /\ Safe(e, Knows(t, {}), _putIdx(v, k), Situations)
           /\ Safe(e, Knows(t, {}), _defineIdxProperty(v, k), Situations)
<1>0. PICK K : K = Knows(t, {})
  OBVIOUS
<1>1. K \in SUBSET Situations /\ Safe(e, K, Script, K) /\ Safe(e, K, Get(v, k), K)
  BY <1>0, Steady
<1>2. Safe(e, K, _putIdx(v, k), K)
  <2>1. Safe(e, K, IfValid(v, k, Touch(v, k, 1)), K)
    BY <1>1 DEF Get
  <2> QED
    BY <1>1, <2>1, Join DEF _putIdx
<1>3. Safe(e, K, IfNot(v, k), K)
  <2>1. PICK w, b : w = Shown(e, t, v) /\ b = w.buf
    OBVIOUS
  <2>2. v \in 1..3 /\ b \in Buffers
    BY <2>1 DEF Can
  <2>3. Safe(e, K, IfNot(v, k), IF k \in 0..w.length - 1 THEN Knows(t, {} \union {b}) ELSE {})
    BY <1>0, <2>1, <2>2, IfNots
  <2>4. (IF k \in 0..w.length - 1 THEN Knows(t, {} \union {b}) ELSE {}) \subseteq K
    BY <1>0, Forgets
  <2>5. K \subseteq K
    OBVIOUS
  <2> QED
    BY <1>1, <2>3, <2>4, <2>5, Wider
<1>4. Safe(e, K, _defineIdxProperty(v, k), K)
  BY <1>1, <1>2, <1>3, Chain DEF _defineIdxProperty
<1> QED
  BY <1>0, <1>1, <1>2, <1>4, Weaker DEF _getIdx

\* Uint8Array to and from base64 and hex.
LEMMA Encodes ==
    ASSUME NEW e, NEW t, NEW v, Can(e, t, v), NEW n, n = Shown(e, t, v).length
    PROVE  /\ Safe(e, Knows(t, {}), getUint8ArrayBytes(v, n), Situations)
           /\ Safe(e, Knows(t, {}), Script \o getUint8ArrayBytes(v, n), Situations)
<1>0. PICK K, H : K = Knows(t, {}) /\ H = Knows(t, {Shown(e, t, v).buf})
  OBVIOUS
<1>1. Safe(e, K, Check(v), H) /\ Safe(e, K, Script, K)
  BY <1>0, Steady
<1>2. n \in Nat /\ 0 \in Int /\ n \in Int /\ Inside(Shown(e, t, v), 0, n)
  BY DEF Can, SomeViews, Inside
<1>3. Safe(e, H, Touch(v, 0, n), Situations)
  BY <1>0, <1>2, Reads
<1>4. Safe(e, K, getUint8ArrayBytes(v, n), Situations)
  BY <1>1, <1>3, Join DEF getUint8ArrayBytes
<1> QED
  BY <1>0, <1>1, <1>4, Join

\* Three arguments are converted, then the buffer is looked at.
LEMMA Fills ==
    ASSUME NEW e, NEW t, NEW v, Can(e, t, v), NEW n, n = Shown(e, t, v).length, NEW a \in Int, NEW b \in Int
    PROVE  Safe(e, Knows(t, {}), typedArrayProto_fill(v, n, a, b), Situations)
<1>0. PICK K, H : K = Knows(t, {}) /\ H = Knows(t, {Shown(e, t, v).buf})
  OBVIOUS
<1>1. Safe(e, K, Check(v), K) /\ Safe(e, K, Check(v), H) /\ Safe(e, K, Script, K)
  BY <1>0, Steady
<1>2. n \in Nat
  BY DEF Can, SomeViews
<1>3. PICK i, j : i = relToIdx(a, n) /\ j = relToIdx(b, n)
  OBVIOUS
<1>4. i \in 0..n /\ j \in 0..n
  BY <1>2, <1>3, IndexIs
<1>5. i \in Int /\ j - i \in Int /\ (j - i > 0 => Inside(Shown(e, t, v), i, j - i))
  BY <1>2, <1>4 DEF Inside
<1>6. Safe(e, H, Fill(v, i, j - i), Situations)
  BY <1>0, <1>5, Reads
<1>7. Safe(e, K, Check(v) \o Script \o Script, K)
  BY <1>1, Chain
<1>8. Safe(e, K, Check(v) \o Script \o Script \o Script, K)
  BY <1>1, <1>7, Join
<1>9. Safe(e, K, Check(v) \o Script \o Script \o Script \o Check(v) \o Fill(v, i, j - i), Situations)
  BY <1>1, <1>6, <1>8, Chain
<1> QED
  BY <1>0, <1>3, <1>9 DEF typedArrayProto_fill

LEMMA Reverses ==
    ASSUME NEW e, NEW t, NEW v, Can(e, t, v), NEW n, n = Shown(e, t, v).length
    PROVE  Safe(e, Knows(t, {}), typedArrayProto_reverse(v, n), Situations)
<1>0. PICK K, H, w : K = Knows(t, {}) /\ w = Shown(e, t, v) /\ H = Knows(t, {w.buf})
  OBVIOUS
<1>1. Safe(e, K, Check(v), H) /\ H \in SUBSET Situations
  <2>1. Safe(e, K, Check(v), H)
    BY <1>0, Steady
  <2>2. H \in SUBSET Situations
    BY <1>0, KnowsIs
  <2> QED
    BY <2>1, <2>2
<1>2. n \in Nat /\ v \in 1..3 /\ n = w.length
  BY <1>0 DEF Can, SomeViews
<1>7. PICK h \in Nat : h = n \div 2 /\ h <= n
  BY <1>2
<1>3. PICK ks \in Seq(Int) : ks = Upwards(0, h) /\ Len(ks) \in Nat /\ \A m \in 1..Len(ks) : ks[m] \in 0..h - 1
  <2>1. 0 \in Int /\ h \in Int
    OBVIOUS
  <2>2. Upwards(0, h) \in Seq(Int) /\ \A m \in 1..Len(Upwards(0, h)) : Upwards(0, h)[m] \in 0..h - 1
    BY <2>1, UpwardsIs
  <2>3. \A ks \in Seq(Int) : Len(ks) \in Nat
    OBVIOUS
  <2> QED
    BY <2>2, <2>3
<1>4. Safe(e, H, Each(ks, LAMBDA k : Swap(v, k, n - k - 1)), H)
  <2> DEFINE s == [m \in 1..Len(ks) |-> Swap(v, ks[m], n - ks[m] - 1)]
  <2>1. ASSUME NEW m \in 1..Len(ks) PROVE Safe(e, H, s[m], H)
    <3>1. PICK k \in Int : k = ks[m] /\ k \in 0..h - 1
      BY <1>3
    <3>4. 0 <= k /\ k + 1 <= n /\ 0 <= n - k - 1 /\ n - k - 1 + 1 <= n /\ n - k - 1 \in Int
      <4>1. \A x \in Nat : x <= n /\ k \in 0..x - 1 => 0 <= k /\ k + 1 <= n /\ 0 <= n - k - 1 /\ n - k - 1 + 1 <= n /\ n - k - 1 \in Int
        BY <1>2
      <4> QED
        BY <1>7, <3>1, <4>1
    <3>2. n - k - 1 \in Int /\ Inside(w, k, 1) /\ Inside(w, n - k - 1, 1)
      BY <1>2, <3>4 DEF Inside
    <3>3. Safe(e, H, Swap(v, k, n - k - 1), H)
      <4>1. w.buf \in {w.buf} /\ 1 \in Int
        OBVIOUS
      <4> QED
        BY <1>0, <1>2, <3>2, <4>1, Moves
    <3> QED
      BY <3>1, <3>3
  <2>2. s = [m \in 1..Len(ks) |-> s[m]]
    OBVIOUS
  <2>3. Each(ks, LAMBDA k : Swap(v, k, n - k - 1)) = FlattenSeq(s)
    BY DEF Each
  <2> HIDE DEF s
  <2>4. Safe(e, H, FlattenSeq(s), H)
    BY <1>1, <1>3, <2>1, <2>2, Loop
  <2> QED
    BY <2>3, <2>4
<1>5. Safe(e, K, typedArrayProto_reverse(v, n), H)
  BY <1>1, <1>3, <1>4, <1>7, Join DEF typedArrayProto_reverse
<1>6. {} \subseteq {w.buf}
  OBVIOUS
<1> QED
  BY <1>0, <1>5, <1>6, Weaker

\* What a program is made of.
LEMMA AtomsAre ==
    ASSUME NEW v \in 1..3, NEW i \in Int, NEW w \in 1..3, NEW j \in Int, NEW n \in Int
    PROVE  /\ Copy(v, i, w, j, n) \in Seq(Instrs) /\ Creep(v, i, w, j, n) \in Seq(Instrs)
           /\ Move(v, i, w, j) \in Seq(Instrs) /\ Fill(v, i, n) \in Seq(Instrs) /\ Check(v) \in Seq(Instrs)
<1>1. ASSUME NEW op \in Ops, NEW x \in 0..3, NEW y \in Int, NEW z \in Int PROVE <<Instr(op, v, i, x, y, z)>> \in Seq(Instrs)
  <2>1. PICK I : I = Instr(op, v, i, x, y, z)
    OBVIOUS
  <2>2. v \in 0..3 /\ i \in Int
    OBVIOUS
  <2>3. I \in Instrs
    BY <2>1, <2>2, InstrIn
  <2>4. <<I>> \in Seq(Instrs)
    BY <2>3
  <2> QED
    BY <2>1, <2>4
<1>2. {"copy", "creep", "move", "fill"} \subseteq Ops /\ w \in 0..3 /\ 0 \in 0..3 /\ 0 \in Int /\ 1 \in Int
  BY DEF Ops, Writes
<1>3. <<>> \in Seq(Instrs)
  OBVIOUS
<1>4. Copy(v, i, w, j, n) \in Seq(Instrs) /\ Creep(v, i, w, j, n) \in Seq(Instrs)
  BY <1>1, <1>2, <1>3 DEF Copy, Creep
<1>5. Move(v, i, w, j) \in Seq(Instrs) /\ Fill(v, i, n) \in Seq(Instrs)
  BY <1>1, <1>2, <1>3 DEF Move, Fill
<1>6. Check(v) \in Seq(Instrs)
  <2>1. PICK I : I = Instr("check", v, 0, 0, 0, 0)
    OBVIOUS
  <2>2. "check" \in Ops /\ v \in 0..3 /\ 0 \in 0..3 /\ 0 \in Int
    BY DEF Ops
  <2>3. I \in Instrs
    BY <2>1, <2>2, InstrIs
  <2>4. <<I>> \in Seq(Instrs)
    BY <2>3
  <2> QED
    BY <2>1, <2>4 DEF Check, Do
<1> QED
  BY <1>4, <1>5, <1>6

\* What follows a throw.
LEMMA DeadEnd ==
    ASSUME NEW e, NEW X, NEW P, Safe(e, X, P, {}), NEW Q \in Seq(Instrs), NEW Y \in SUBSET Situations
    PROVE  Safe(e, X, P \o Q, Y)
<1>1. Safe(e, {}, Q, Y)
  BY Dead
<1> QED
  BY <1>1, Join

\* copyWithin, where it stays within its view.
LEMMA CopiesWithin ==
    ASSUME NEW e, NEW t, NEW v, Can(e, t, v), NEW n, n = Shown(e, t, v).length, NEW a \in Int, NEW b \in Int,
           view[v] = Shown(e, t, v), BufferLen \in Nat, At(view[v], n) <= BufferLen,
           relToIdx(a, n) <= relToIdx(b, n) \/ At(view[v], n) >= BufferLen
    PROVE  Safe(e, Knows(t, {}), typedArrayProto_copyWithin(v, n, a, b), Situations)
<1>0. PICK K, H, w : K = Knows(t, {}) /\ w = Shown(e, t, v) /\ H = Knows(t, {w.buf})
  OBVIOUS
<1>1. Safe(e, K, Check(v), K) /\ Safe(e, K, Check(v), H) /\ Safe(e, K, Script, K) /\ Safe(e, K, <<>>, Situations)
  BY <1>0, Steady
<1>2. n \in Nat /\ n = w.length /\ w \in SomeViews /\ v \in 1..3 /\ view[v] = w
  BY <1>0 DEF Can, SomeViews
<1>3. PICK to, from : to = relToIdx(a, n) /\ from = relToIdx(b, n)
  OBVIOUS
<1>4. to \in 0..n /\ from \in 0..n
  BY <1>2, <1>3, IndexIs
<1>5. PICK room : room = (BufferLen - At(w, to)) \div Size(w.type)
  OBVIOUS
<1>6. room \in Int /\ (to <= from \/ to + room <= n)
  <2>1. w.offset \in Nat /\ w.type \in Types
    BY <1>2 DEF SomeViews
  <2>2. Size(w.type) \in {1, 2, 4}
    BY <2>1 DEF Size, Types
  <2>3. At(w, to) = (w.offset + to) * Size(w.type) /\ At(w, n) = (w.offset + n) * Size(w.type)
    BY DEF At
  <2>4. CASE Size(w.type) = 1
    <3>1. room = BufferLen - (w.offset + to)
      BY <1>4, <1>5, <2>1, <2>3, <2>4
    <3> QED
      BY <1>2, <1>3, <1>4, <2>1, <2>3, <2>4, <3>1
  <2>5. CASE Size(w.type) = 2
    <3>1. room = (BufferLen - (w.offset + to) * 2) \div 2
      BY <1>5, <2>3, <2>5
    <3>2. to <= from \/ BufferLen = (w.offset + n) * 2
      BY <1>2, <1>3, <2>1, <2>3, <2>5
    <3> QED
      BY <1>2, <1>4, <2>1, <3>1, <3>2
  <2>6. CASE Size(w.type) = 4
    <3>1. room = (BufferLen - (w.offset + to) * 4) \div 4
      BY <1>5, <2>3, <2>6
    <3>2. to <= from \/ BufferLen = (w.offset + n) * 4
      BY <1>2, <1>3, <2>1, <2>3, <2>6
    <3> QED
      BY <1>2, <1>4, <2>1, <3>1, <3>2
  <2> QED
    BY <2>2, <2>4, <2>5, <2>6
<1>7. PICK count : count = Lesser(n - from, room)
  OBVIOUS
<1>8. count \in Int /\ to \in Int /\ from \in Int /\ (count > 0 => Inside(w, to, count) /\ Inside(w, from, count))
  BY <1>2, <1>4, <1>6, <1>7 DEF Lesser, Inside
<1>9. Safe(e, H, Copy(v, to, v, from, count), Situations)
  <2>1. w.buf \in {w.buf}
    OBVIOUS
  <2>2. Safe(e, H, Copy(v, to, v, from, count), H)
    BY <1>0, <1>2, <1>8, <2>1, Moves
  <2>3. {} \subseteq {w.buf}
    OBVIOUS
  <2> QED
    BY <1>0, <2>2, <2>3, Weaker
<1>10. Safe(e, K, Check(v) \o Script \o Script, K)
  BY <1>1, Chain
<1>11. Safe(e, K, IF n > from THEN Check(v) \o Copy(v, to, v, from, count) ELSE <<>>, Situations)
  <2>1. Safe(e, K, Check(v) \o Copy(v, to, v, from, count), Situations)
    BY <1>1, <1>9, Join
  <2> QED
    BY <1>1, <2>1
<1>12. Safe(e, K, Check(v) \o Script \o Script \o Script
                \o (IF n > from THEN Check(v) \o Copy(v, to, v, from, count) ELSE <<>>), Situations)
  BY <1>1, <1>10, <1>11, Chain
<1>13. typedArrayProto_copyWithin(v, n, a, b) =
         Check(v) \o Script \o Script \o Script \o (IF n > from THEN Check(v) \o Copy(v, to, v, from, count) ELSE <<>>)
  BY <1>2, <1>3, <1>5, <1>7 DEF typedArrayProto_copyWithin
<1> QED
  BY <1>0, <1>12, <1>13

-----------------------------------------------------------------------------
(* Methods with a source                                                   *)

\* The order in which set moves elements is one of the elements that there are.
LEMMA MoveOrderIs ==
    ASSUME NEW T \in SomeViews, NEW S \in SomeViews, NEW a \in Int, NEW n \in Nat
    PROVE  moveOrder(T, S, a, n) \in Seq(0..n - 1)
<1>1. ASSUME NEW ks \in Seq(Int), \A m \in 1..Len(ks) : ks[m] \in 0..n - 1 PROVE ks \in Seq(0..n - 1)
  <2>1. Len(ks) \in Nat /\ ks \in [1..Len(ks) -> Int]
    OBVIOUS
  <2>2. ks \in [1..Len(ks) -> 0..n - 1]
    BY <1>1, <2>1
  <2> QED
    BY <2>1, <2>2
<1>2. ASSUME NEW x \in 0..n PROVE Upwards(x, n) \in Seq(0..n - 1) /\ Upwards(0, x) \in Seq(0..n - 1)
  <2>1. x \in Int /\ n \in Int /\ 0 \in Int
    OBVIOUS
  <2>2. Upwards(x, n) \in Seq(Int) /\ \A m \in 1..Len(Upwards(x, n)) : Upwards(x, n)[m] \in x..n - 1
    BY <2>1, UpwardsIs
  <2>3. Upwards(0, x) \in Seq(Int) /\ \A m \in 1..Len(Upwards(0, x)) : Upwards(0, x)[m] \in 0..x - 1
    BY <2>1, UpwardsIs
  <2>4. x..n - 1 \subseteq 0..n - 1 /\ 0..x - 1 \subseteq 0..n - 1
    OBVIOUS
  <2> QED
    BY <1>1, <2>2, <2>3, <2>4
<1>3. ASSUME NEW x \in 0..n PROVE Downwards(x, 0) \in Seq(0..n - 1) /\ Downwards(n, x) \in Seq(0..n - 1)
  <2>1. x \in Int /\ n \in Int /\ 0 \in Int
    OBVIOUS
  <2>2. Downwards(n, x) \in Seq(Int) /\ \A m \in 1..Len(Downwards(n, x)) : Downwards(n, x)[m] \in x..n - 1
    BY <2>1, DownwardsIs
  <2>3. Downwards(x, 0) \in Seq(Int) /\ \A m \in 1..Len(Downwards(x, 0)) : Downwards(x, 0)[m] \in 0..x - 1
    BY <2>1, DownwardsIs
  <2>4. x..n - 1 \subseteq 0..n - 1 /\ 0..x - 1 \subseteq 0..n - 1
    OBVIOUS
  <2> QED
    BY <1>1, <2>2, <2>3, <2>4
<1> DEFINE gap  == Address(T, a) - Address(S, 0)
           step == Size(S.type) - Size(T.type)
           x    == IF gap * step <= 0 THEN 0 ELSE Lesser(n, Abs(gap) \div Abs(step))
<1>4. Size(S.type) \in {1, 2, 4} /\ Size(T.type) \in {1, 2, 4}
  BY DEF SomeViews, Size, Types
<1>5. step \in {-3, -2, -1, 0, 1, 2, 3}
  BY <1>4
<1>6. gap \in Int
  <2>1. T.offset \in Int /\ S.offset \in Int /\ T.buf \in Int /\ S.buf \in Int
    BY DEF SomeViews
  <2>2. PICK s, r : s = Size(S.type) /\ r = Size(T.type)
    OBVIOUS
  <2>3. s \in Int /\ r \in Int
    BY <1>4, <2>2
  <2>4. (T.offset + a) * r \in Int /\ (S.offset + 0) * s \in Int
    BY <2>1, <2>3
  <2> QED
    BY <2>1, <2>2, <2>4 DEF Address, At
<1> HIDE DEF gap, step
<1>7. step # 0 => x \in 0..n
  <2>1. Abs(gap) \in Nat
    BY <1>6 DEF Abs
  <2>2. SUFFICES ASSUME step # 0 PROVE x \in 0..n
    OBVIOUS
  <2>3. Abs(step) \in {1, 2, 3}
    BY <1>5, <2>2 DEF Abs
  <2>4. PICK p : p = Abs(gap) \div Abs(step)
    OBVIOUS
  <2>5. p \in Nat
    <3>1. CASE Abs(step) = 1
      BY <2>1, <2>4, <3>1
    <3>2. CASE Abs(step) = 2
      BY <2>1, <2>4, <3>2
    <3>3. CASE Abs(step) = 3
      BY <2>1, <2>4, <3>3
    <3> QED
      BY <2>3, <3>1, <3>2, <3>3
  <2>6. Lesser(n, p) \in 0..n
    BY <2>5 DEF Lesser
  <2>7. 0 \in 0..n
    OBVIOUS
  <2> QED
    BY <2>4, <2>6, <2>7
<1>8. moveOrder(T, S, a, n) =
        IF step = 0 THEN IF gap <= 0 \/ gap >= n * Size(S.type) THEN Upwards(0, n) ELSE Downwards(n, 0)
        ELSE IF step > 0 THEN Upwards(x, n) \o Downwards(x, 0)
        ELSE Upwards(0, x) \o Downwards(n, x)
  BY DEF moveOrder, gap, step
<1> HIDE DEF x
<1>9. CASE step = 0
  <2>1. n \in 0..n
    OBVIOUS
  <2>2. Upwards(0, n) \in Seq(0..n - 1) /\ Downwards(n, 0) \in Seq(0..n - 1)
    BY <1>2, <1>3, <2>1
  <2> QED
    BY <1>8, <1>9, <2>2
<1>10. CASE step # 0
  <2>1. /\ Upwards(x, n) \in Seq(0..n - 1) /\ Downwards(x, 0) \in Seq(0..n - 1)
        /\ Upwards(0, x) \in Seq(0..n - 1) /\ Downwards(n, x) \in Seq(0..n - 1)
    BY <1>2, <1>3, <1>7, <1>10
  <2>2. /\ Upwards(x, n) \o Downwards(x, 0) \in Seq(0..n - 1)
        /\ Upwards(0, x) \o Downwards(n, x) \in Seq(0..n - 1)
    BY <2>1, ConcatProperties
  <2> QED
    BY <1>8, <1>10, <2>2
<1> QED
  BY <1>9, <1>10

\* set(view[2], a).
LEMMA Sets ==
    ASSUME NEW e \in Contexts, NEW t, NEW n, n = e.first.length, NEW a \in Int,
           view[1] = e.first, view[2] = e.second
    PROVE  Safe(e, Knows(t, {}), typedArrayProto_set(n, a), Situations)
<1>0. PICK T, S, l, b, c, K, J, H :
        /\ T = view[1] /\ T = e.first /\ S = view[2] /\ S = e.second /\ l = S.length /\ b = T.buf /\ c = S.buf
        /\ K = Knows(t, {}) /\ J = Knows(t, {b}) /\ H = Knows(t, {b, c})
  OBVIOUS
<1> DEFINE p == a < 0
           q == l + a > n
           D == IF p \/ q THEN {} ELSE H
           order == moveOrder(T, S, a, l)
           Rest == IF S.type = T.type THEN Copy(1, a, 2, 0, l)
                   ELSE checkTypedArrayMixBigInt({1, 2}) \o Each(order, LAMBDA i : Move(1, a + i, 2, i))
<1>1. /\ T \in SomeViews /\ S \in SomeViews /\ b \in Buffers /\ c \in Buffers /\ n = T.length
      /\ n \in Nat /\ l \in Nat /\ Shown(e, t, 1) = T /\ Shown(e, t, 2) = S
      /\ 1 \in 1..3 /\ 2 \in 1..3 /\ 0 \in Int /\ 1 \in Int /\ l \in Int
  BY <1>0 DEF Contexts, SomeViews, Fits, Buffers, Shown
<1>2. K \in SUBSET Situations /\ J \in SUBSET Situations /\ H \in SUBSET Situations /\ D \in SUBSET Situations /\ {} \in SUBSET Situations
  <2>1. H \in SUBSET Situations
    BY <1>0, KnowsIs
  <2> QED
    BY <1>0, <2>1, KnowsIs
<1>3. Safe(e, K, Script, K)
  BY <1>0, Steady
<1>4. Safe(e, K, Check(1), J)
  <2>1. Safe(e, K, Check(1), Knows(t, {} \union {b}))
    BY <1>0, <1>1, Checks
  <2>2. {} \union {b} = {b}
    OBVIOUS
  <2> QED
    BY <1>0, <2>1, <2>2
<1>5. Safe(e, J, Check(2), H)
  <2>1. Safe(e, J, Check(2), Knows(t, {b} \union {c}))
    BY <1>0, <1>1, Checks
  <2>2. {b} \union {c} = {b, c}
    OBVIOUS
  <2> QED
    BY <1>0, <2>1, <2>2
<1>6. p \in BOOLEAN /\ q \in BOOLEAN
  BY <1>1
<1>7. order \in Seq(0..l - 1)
  BY <1>1, MoveOrderIs
<1>15. /\ \A m \in Int : a + m \in Int => Move(1, a + m, 2, m) \in Seq(Instrs)
       /\ Copy(1, a, 2, 0, l) \in Seq(Instrs)
       /\ \A m \in Int : a + m \in Int /\ Inside(T, a + m, 1) /\ Inside(S, m, 1) => Safe(e, H, Move(1, a + m, 2, m), H)
       /\ Inside(T, a, l) /\ Inside(S, 0, l) => Safe(e, H, Copy(1, a, 2, 0, l), H)
  <2>1. b \in {b, c} /\ c \in {b, c}
    OBVIOUS
  <2>2. ASSUME NEW m \in Int, a + m \in Int PROVE Move(1, a + m, 2, m) \in Seq(Instrs)
    BY <1>1, <2>2, AtomsAre
  <2>3. Copy(1, a, 2, 0, l) \in Seq(Instrs)
    BY <1>1, AtomsAre
  <2>4. ASSUME NEW m \in Int, a + m \in Int, Inside(T, a + m, 1), Inside(S, m, 1) PROVE Safe(e, H, Move(1, a + m, 2, m), H)
    <3>1. PICK k \in Int : k = a + m
      BY <2>4
    <3>2. Safe(e, Knows(t, {b, c}), Move(1, k, 2, m), Knows(t, {b, c}))
      BY <1>0, <1>1, <2>1, <2>4, <3>1, Moves, ZenonT(60)
    <3> QED
      BY <1>0, <3>1, <3>2
  <2>5. ASSUME Inside(T, a, l), Inside(S, 0, l) PROVE Safe(e, H, Copy(1, a, 2, 0, l), H)
    <3>1. Safe(e, Knows(t, {b, c}), Copy(1, a, 2, 0, l), Knows(t, {b, c}))
      BY <1>0, <1>1, <2>1, <2>5, Moves
    <3> QED
      BY <1>0, <3>1
  <2> QED
    BY <2>2, <2>3, <2>4, <2>5
<1>8. a >= 0 /\ l + a <= n => Inside(T, a, l) /\ Inside(S, 0, l)
  BY <1>0, <1>1 DEF Inside
<1> HIDE DEF D, order
<1>9. Safe(e, D, Rest, D)
  <2>1. CASE S.type = T.type
    <3>1. Rest = Copy(1, a, 2, 0, l)
      BY <2>1
    <3>2. CASE p \/ q
      <4>1. D = {}
        BY <3>2 DEF D
      <4>2. Copy(1, a, 2, 0, l) \in Seq(Instrs)
        BY <1>15
      <4> QED
        BY <1>2, <3>1, <4>1, <4>2, Dead
    <3>3. CASE ~(p \/ q)
      <4>1. D = H /\ a >= 0 /\ l + a <= n
        BY <1>1, <3>3 DEF D
      <4>2. Inside(T, a, l) /\ Inside(S, 0, l)
        BY <1>8, <4>1
      <4>3. Safe(e, H, Copy(1, a, 2, 0, l), H)
        BY <1>15, <4>2
      <4> QED
        BY <3>1, <4>1, <4>3
    <3> QED
      BY <3>2, <3>3
  <2>2. CASE S.type # T.type
    <3> DEFINE s == [m \in 1..Len(order) |-> Move(1, a + order[m], 2, order[m])]
    <3>1. Rest = checkTypedArrayMixBigInt({1, 2}) \o FlattenSeq(s)
      BY <2>2 DEF Each
    <3>2. s = [m \in 1..Len(order) |-> s[m]] /\ Len(order) \in Nat
      BY <1>7
    <3>3. ASSUME NEW m \in 1..Len(order) PROVE Safe(e, D, s[m], D)
      <4>1. PICK i : i = order[m]
        OBVIOUS
      <4>2. i \in 0..l - 1 /\ i \in Int /\ a + i \in Int
        <5>1. i \in 0..l - 1
          BY <1>7, <4>1, ElementOfSeq
        <5> QED
          BY <1>1, <5>1
      <4>3. s[m] = Move(1, a + i, 2, i)
        BY <4>1
      <4> HIDE DEF s
      <4>4. CASE p \/ q
        <5>1. D = {}
          BY <4>4 DEF D
        <5>2. Move(1, a + i, 2, i) \in Seq(Instrs)
          BY <1>15, <4>2
        <5> QED
          BY <1>2, <4>3, <5>1, <5>2, Dead
      <4>5. CASE ~(p \/ q)
        <5>1. D = H /\ a >= 0 /\ l + a <= n
          BY <1>1, <4>5 DEF D
        <5>2. Inside(T, a + i, 1) /\ Inside(S, i, 1)
          BY <1>0, <1>1, <4>2, <5>1, SMTT(30) DEF Inside
        <5>3. Safe(e, H, Move(1, a + i, 2, i), H)
          BY <1>15, <4>2, <5>2
        <5> QED
          BY <4>3, <5>1, <5>3
      <4> QED
        BY <4>4, <4>5
    <3> HIDE DEF s
    <3>4. Safe(e, D, FlattenSeq(s), D)
      BY <1>2, <3>2, <3>3, Loop
    <3>5. Safe(e, H, checkTypedArrayMixBigInt({1, 2}), H)
      <4>1. {1, 2} \in SUBSET (1..3) /\ {b, c} \subseteq {b, c} /\ \A x \in {b, c} : \E u \in {1, 2} : Shown(e, t, u).buf = x
        BY <1>0, <1>1
      <4>2. Safe(e, Knows(t, {b, c}), ScriptSparing({1, 2}), Knows(t, {b, c}))
        BY <4>1, Scripts
      <4> QED
        BY <1>0, <4>2 DEF checkTypedArrayMixBigInt
    <3>6. Safe(e, D, checkTypedArrayMixBigInt({1, 2}), D)
      <4>1. CASE D = H
        BY <3>5, <4>1
      <4>2. CASE D = {}
        <5>1. checkTypedArrayMixBigInt({1, 2}) \in Seq(Instrs)
          BY <3>5 DEF Safe
        <5> QED
          BY <1>2, <4>2, <5>1, Dead
      <4> QED
        BY <4>1, <4>2 DEF D
    <3> QED
      BY <3>1, <3>4, <3>6, Join
  <2> QED
    BY <2>1, <2>2
<1>10. typedArrayProto_set(n, a) = Script \o Refuse(p) \o Check(1) \o Check(2) \o Refuse(q) \o Rest
  BY <1>0 DEF typedArrayProto_set, order
<1> HIDE DEF Rest
<1>11. Rest \in Seq(Instrs)
  BY <1>9 DEF Safe
<1>12. Safe(e, K, Script \o Refuse(p) \o Check(1) \o Check(2) \o Refuse(q) \o Rest, D)
  <2>1. CASE p
    <3>1. Safe(e, K, Refuse(p), IF p THEN {} ELSE K)
      BY <1>2, <1>6, Refuses
    <3>2. Safe(e, K, Refuse(p), {})
      BY <2>1, <3>1
    <3>3. Safe(e, K, Script \o Refuse(p), {})
      BY <1>3, <3>2, Join
    <3>4. Check(1) \in Seq(Instrs) /\ Check(2) \in Seq(Instrs) /\ Refuse(q) \in Seq(Instrs)
      <4>1. Safe(e, K, Refuse(q), IF q THEN {} ELSE K)
        BY <1>2, <1>6, Refuses
      <4> QED
        BY <1>4, <1>5, <4>1 DEF Safe
    <3>5. Safe(e, K, Script \o Refuse(p) \o Check(1), {})
      BY <1>2, <3>3, <3>4, DeadEnd
    <3>6. Safe(e, K, Script \o Refuse(p) \o Check(1) \o Check(2), {})
      BY <1>2, <3>5, <3>4, DeadEnd
    <3>7. Safe(e, K, Script \o Refuse(p) \o Check(1) \o Check(2) \o Refuse(q), {})
      BY <1>2, <3>6, <3>4, DeadEnd
    <3> QED
      BY <1>2, <1>11, <3>7, DeadEnd
  <2>2. CASE ~p
    <3>1. Safe(e, K, Refuse(p), IF p THEN {} ELSE K)
      BY <1>2, <1>6, Refuses
    <3>2. Safe(e, K, Refuse(p), K)
      BY <2>2, <3>1
    <3>3. Safe(e, K, Script \o Refuse(p) \o Check(1), J)
      BY <1>3, <1>4, <3>2, Chain
    <3>4. Safe(e, H, Refuse(q), IF q THEN {} ELSE H)
      BY <1>2, <1>6, Refuses
    <3>5. D = IF q THEN {} ELSE H
      BY <2>2 DEF D
    <3>6. Safe(e, K, Script \o Refuse(p) \o Check(1) \o Check(2) \o Refuse(q), D)
      BY <1>5, <3>3, <3>4, <3>5, Chain
    <3> QED
      BY <1>9, <3>6, Join
  <2> QED
    BY <2>1, <2>2
<1>13. K \subseteq K /\ D \subseteq Situations /\ Situations \in SUBSET Situations
  BY <1>2
<1>14. Safe(e, K, typedArrayProto_set(n, a), Situations)
  BY <1>10, <1>12, <1>13, Wider
<1> QED
  BY <1>0, <1>14

-----------------------------------------------------------------------------
(* Buffers, data views and constructors                                    *)

\* set(array-like, a): every index is checked after its value is converted.
LEMMA SetsValues ==
    ASSUME NEW e, NEW t, Can(e, t, 1), NEW n \in Int, NEW a \in Int, NEW b \in Int
    PROVE  Safe(e, Knows(t, {}), typedArrayProto_setValues(n, a, b), Situations)
<1>0. PICK K, c, w : K = Knows(t, {}) /\ w = Shown(e, t, 1) /\ c = w.buf
  OBVIOUS
<1>1. /\ K \in SUBSET Situations /\ Safe(e, K, Script, K) /\ Safe(e, K, Check(1), K)
      /\ \A p \in BOOLEAN : Safe(e, K, Refuse(p), K)
  BY <1>0, Steady
<1>2. w \in SomeViews /\ c \in Buffers /\ 1 \in 1..3
  BY <1>0 DEF Can
<1>3. PICK ks \in Seq(Int) : ks = Upwards(0, b) /\ Len(ks) \in Nat /\ \A m \in 1..Len(ks) : ks[m] \in Int
  <2>1. 0 \in Int
    OBVIOUS
  <2>2. Upwards(0, b) \in Seq(Int)
    BY <2>1, UpwardsIs
  <2>3. \A ks \in Seq(Int) : Len(ks) \in Nat /\ \A m \in 1..Len(ks) : ks[m] \in Int
    OBVIOUS
  <2> QED
    BY <2>2, <2>3
<1>4. ASSUME NEW k \in Int PROVE Safe(e, K, IfValid(1, k, Put(1, k)), K)
  <2>1. Put(1, k) \in Seq(Instrs)
    BY <1>2, PutsAre
  <2>2. {} \union {c} = {c} /\ {} \subseteq {c} /\ {} \subseteq {} /\ c \in {c}
    OBVIOUS
  <2>3. ASSUME k \in 0..w.length - 1 PROVE Safe(e, Knows(t, {} \union {c}), Put(1, k), Knows(t, {}))
    <3>1. Inside(w, k, 1)
      BY <1>2, <2>3 DEF Inside, SomeViews
    <3>2. Safe(e, Knows(t, {c}), Put(1, k), Knows(t, {c}))
      BY <1>0, <1>2, <2>2, <3>1, Puts
    <3> QED
      BY <2>2, <3>2, Weaker
  <2> QED
    BY <1>0, <1>2, <2>1, <2>2, <2>3, IfValids
<1>5. Safe(e, K, Each(ks, LAMBDA i : Script \o IfValid(1, a + i, Put(1, a + i))), K)
  <2> DEFINE s == [m \in 1..Len(ks) |-> Script \o IfValid(1, a + ks[m], Put(1, a + ks[m]))]
  <2>1. ASSUME NEW m \in 1..Len(ks) PROVE Safe(e, K, s[m], K)
    <3>1. PICK k \in Int : k = a + ks[m]
      BY <1>3
    <3>2. Safe(e, K, Script \o IfValid(1, k, Put(1, k)), K)
      BY <1>1, <1>4, Join
    <3> QED
      BY <3>1, <3>2
  <2>2. s = [m \in 1..Len(ks) |-> s[m]]
    OBVIOUS
  <2>3. Each(ks, LAMBDA i : Script \o IfValid(1, a + i, Put(1, a + i))) = FlattenSeq(s)
    BY DEF Each
  <2> HIDE DEF s
  <2>4. Safe(e, K, FlattenSeq(s), K)
    BY <1>1, <1>3, <2>1, <2>2, Loop
  <2> QED
    BY <2>3, <2>4
<1> DEFINE p == a < 0
           q == b + a > n
<1>6. p \in BOOLEAN /\ q \in BOOLEAN
  OBVIOUS
<1>10. Safe(e, K, Refuse(p), K) /\ Safe(e, K, Refuse(q), K)
  BY <1>1, <1>6
<1>7. Safe(e, K, Script \o Refuse(p) \o Check(1), K)
  BY <1>1, <1>10, Chain
<1>8. Safe(e, K, Script \o Refuse(p) \o Check(1) \o Script \o Refuse(q), K)
  BY <1>1, <1>7, <1>10, Chain
<1>9. Safe(e, K, typedArrayProto_setValues(n, a, b), K)
  <2>1. typedArrayProto_setValues(n, a, b) =
          Script \o Refuse(p) \o Check(1) \o Script \o Refuse(q)
          \o Each(ks, LAMBDA i : Script \o IfValid(1, a + i, Put(1, a + i)))
    BY <1>3 DEF typedArrayProto_setValues
  <2> QED
    BY <1>5, <1>8, <2>1, Join
<1> QED
  BY <1>0, <1>9, Weaker

\* Code behind a check of its arguments.
LEMMA Guarded ==
    ASSUME NEW e, NEW X, NEW P, NEW Y, Safe(e, X, P, Y), NEW p \in BOOLEAN, NEW Q \in Seq(Instrs), NEW Z \in SUBSET Situations,
           ~p => Safe(e, Y, Q, Z)
    PROVE  Safe(e, X, P \o Refuse(p) \o Q, Z)
<1>1. Y \in SUBSET Situations
  BY DEF Safe
<1>2. Safe(e, Y, Refuse(p), IF p THEN {} ELSE Y)
  BY <1>1, Refuses
<1>3. Safe(e, X, P \o Refuse(p), IF p THEN {} ELSE Y)
  BY <1>2, Join
<1>4. CASE p
  <2>1. Safe(e, X, P \o Refuse(p), {})
    BY <1>3, <1>4
  <2> QED
    BY <2>1, DeadEnd
<1>5. CASE ~p
  <2>1. Safe(e, X, P \o Refuse(p), Y)
    BY <1>3, <1>5
  <2> QED
    BY <1>5, <2>1, Join
<1> QED
  BY <1>4, <1>5

\* Reads and writes through data views.
LEMMA DataViews ==
    ASSUME NEW e, NEW t, NEW v, Can(e, t, v), NEW c, c.this = v, view[v] = Shown(e, t, v), NEW k \in Nat, NEW n \in Nat
    PROVE  /\ Safe(e, Knows(t, {}), dataViewProto_get(c, k, n), Situations)
           /\ Safe(e, Knows(t, {}), dataViewProto_set(c, k, n), Situations)
<1>0. PICK K, w, H : K = Knows(t, {}) /\ w = Shown(e, t, v) /\ H = Knows(t, {w.buf})
  OBVIOUS
<1>1. Safe(e, K, Script, K) /\ Safe(e, K, Check(v), H)
  BY <1>0, Steady
<1>2. w.length \in Nat /\ v \in 1..3 /\ k \in Int /\ n \in Int
  BY <1>0 DEF Can, SomeViews
<1> DEFINE p == k + n > w.length
<1>3. p \in BOOLEAN
  BY <1>2
<1>4. Touch(v, k, n) \in Seq(Instrs)
  <2>1. PICK I : I = Instr("touch", v, k, 0, 0, n)
    OBVIOUS
  <2>2. "touch" \in Ops /\ v \in 0..3 /\ 0 \in 0..3 /\ 0 \in Int
    BY <1>2 DEF Ops
  <2>3. I \in Instrs
    BY <1>2, <2>1, <2>2, InstrIn
  <2>4. <<I>> \in Seq(Instrs) /\ <<>> \in Seq(Instrs)
    BY <2>3
  <2> QED
    BY <2>1, <2>4 DEF Touch
<1>5. ~p => Safe(e, H, Touch(v, k, n), Situations)
  <2>1. ~p => Inside(w, k, n)
    BY <1>2 DEF Inside
  <2> HIDE DEF p
  <2> QED
    BY <1>0, <1>2, <2>1, Reads
<1>6. Safe(e, K, Check(v) \o Refuse(p) \o Touch(v, k, n), Situations)
  <2>1. Situations \in SUBSET Situations
    OBVIOUS
  <2> HIDE DEF p
  <2> QED
    BY <1>1, <1>3, <1>4, <1>5, <2>1, Guarded
<1>7. Safe(e, K, getIdxAndByteOrder(c, k, n), Situations)
  BY <1>0, <1>6 DEF getIdxAndByteOrder
<1>8. Safe(e, K, dataViewProto_get(c, k, n), Situations)
  BY <1>1, <1>7, Join DEF dataViewProto_get
<1>9. Safe(e, K, dataViewProto_set(c, k, n), Situations)
  BY <1>1, <1>7, Chain DEF dataViewProto_set
<1> QED
  BY <1>0, <1>8, <1>9

\* byteLength and transfer.
LEMMA BufferMethods ==
    ASSUME NEW e, NEW t, Can(e, t, 1), NEW a \in Int, BufferLen \in Nat
    PROVE  /\ Safe(e, Knows(t, {}), arrayBufferProto_getByteLength, Situations)
           /\ Safe(e, Knows(t, {}), arrayBufferCopyAndDetach(a), Situations)
<1>0. PICK K, w, H : K = Knows(t, {}) /\ w = Shown(e, t, 1) /\ H = Knows(t, {w.buf})
  OBVIOUS
<1>1. Safe(e, K, Script, K) /\ Safe(e, K, Check(1), H) /\ Safe(e, K, Leave(1), K)
  BY <1>0, Steady
<1>2. PICK n \in Nat : n = IF a < 0 THEN BufferLen ELSE a
  OBVIOUS
<1>3. e.first.buf \in {w.buf}
  BY <1>0 DEF Shown
<1>4. Safe(e, H, <<Instr("handover", 1, 0, 0, 0, n)>>, Situations)
  <2>1. Safe(e, H, <<Instr("handover", 1, 0, 0, 0, n)>>, Knows(View(3, "u8", 0, n), {}))
    BY <1>0, <1>3, HandsOver
  <2>2. {} \subseteq {}
    OBVIOUS
  <2> QED
    BY <2>1, <2>2, Weaker
<1>5. Safe(e, K, Script \o Check(1) \o <<Instr("handover", 1, 0, 0, 0, n)>>, Situations)
  BY <1>1, <1>4, Chain
<1>6. Safe(e, K, arrayBufferCopyAndDetach(a), Situations)
  BY <1>2, <1>5 DEF arrayBufferCopyAndDetach
<1>7. Safe(e, K, arrayBufferProto_getByteLength, Situations)
  BY <1>0, <1>1, Weaker DEF arrayBufferProto_getByteLength
<1> QED
  BY <1>0, <1>6, <1>7

\* A new array is an instruction, whether it fits or not.
LEMMA MakesAre ==
    ASSUME NEW w \in AnyViews, NEW fresh \in BOOLEAN, fresh => w \in SomeViews
    PROVE  Make(w, fresh) \in Seq(Instrs)
<1> DEFINE n == IF fresh THEN At(w, w.length) ELSE -1
<1>1. n \in Int
  <2>1. ASSUME fresh PROVE At(w, w.length) \in Int
    <3>1. w.length \in Nat
      BY <2>1 DEF SomeViews
    <3> QED
      BY <2>1, <3>1, AtIs
  <2> QED
    BY <2>1
<1> HIDE DEF n
<1>2. PICK i : i = [Instr("make", 3, 0, 0, 0, n) EXCEPT !.made = w]
  OBVIOUS
<1>3. i \in Instrs
  <2>1. PICK I : I = Instr("make", 3, 0, 0, 0, n)
    OBVIOUS
  <2>2. "make" \in Ops /\ 3 \in 0..3 /\ 0 \in 0..3 /\ 0 \in Int
    BY DEF Ops
  <2>3. I \in Instrs
    BY ONLY <1>1, <2>1, <2>2, InstrIs
  <2> QED
    BY <1>2, <2>1, <2>3 DEF Instrs
<1>4. <<i>> \in Seq(Instrs)
  BY <1>3
<1>5. Make(w, fresh) = <<i>>
  BY <1>2 DEF Make, n
<1> QED
  BY <1>4, <1>5

\* A view of memory of its own.
LEMMA OwnIs ==
    ASSUME NEW type \in Types, NEW n \in Nat
    PROVE  /\ View(3, type, 0, n) \in SomeViews /\ View(3, type, 0, n).buf = 3 /\ View(3, type, 0, n).length = n
           /\ View(3, type, 0, n).type = type
BY DEF View, SomeViews

LEMMA Allocates ==
    ASSUME NEW e, NEW t, NEW type \in Types, NEW n \in Nat
    PROVE  /\ Safe(e, Knows(t, {}), allocateTypedArray(type, n), Knows(View(3, type, 0, n), {3}))
           /\ Safe(e, Knows(t, {}), allocateTypedArray(type, n), Situations)
           /\ Safe(e, Knows(t, {}), builtin_newArrayBuffer(n), Situations)
<1>0. PICK K : K = Knows(t, {})
  OBVIOUS
<1>1. Safe(e, K, Script, K)
  BY <1>0, Steady
<1>2. ASSUME NEW u \in Types
      PROVE  /\ Safe(e, K, Make(View(3, u, 0, n), TRUE), Knows(View(3, u, 0, n), {3}))
             /\ Safe(e, K, Make(View(3, u, 0, n), TRUE), Situations)
  <2>1. PICK w \in SomeViews : w = View(3, u, 0, n) /\ w.buf = 3
    BY OwnIs
  <2>2. TRUE \in BOOLEAN /\ {} \union {3} = {3} /\ {} \subseteq {3}
    OBVIOUS
  <2>3. Safe(e, K, Make(w, TRUE), Knows(w, {} \union {3}))
    BY <1>0, <2>1, <2>2, Creates
  <2>4. Safe(e, K, Make(w, TRUE), Knows(w, {3}))
    BY <2>2, <2>3
  <2> QED
    BY <2>1, <2>2, <2>4, Weaker
<1>3. Safe(e, K, allocateTypedArray(type, n), Knows(View(3, type, 0, n), {3}))
  BY <1>1, <1>2, Join DEF allocateTypedArray
<1>4. Safe(e, K, allocateTypedArray(type, n), Situations)
  BY <1>1, <1>2, Join DEF allocateTypedArray
<1>5. Safe(e, K, builtin_newArrayBuffer(n), Situations)
  <2>1. "u8" \in Types
    BY DEF Types
  <2> QED
    BY <1>1, <1>2, <2>1, Chain DEF builtin_newArrayBuffer
<1> QED
  BY <1>0, <1>3, <1>4, <1>5

\* new T(buffer, a, b).
LEMMA OverBuffers ==
    ASSUME NEW e, NEW t, Can(e, t, 1), NEW buf \in {1, 2}, NEW type \in Types, NEW a \in Nat, NEW b \in Int, BufferLen \in Nat
    PROVE  Safe(e, Knows(t, {}), _newTypedArrayFromArrayBuffer(buf, type, a, b), Situations)
<1>0. PICK K, z, w : /\ K = Knows(t, {}) /\ z = Size(type)
                     /\ w = View(buf, type, a \div z, IF b >= 0 THEN b ELSE (BufferLen - a) \div z)
  OBVIOUS
<1>1. Safe(e, K, Script, K) /\ Safe(e, K, Check(1), K) /\ K \in SUBSET Situations
  BY <1>0, Steady
<1>2. z \in {1, 2, 4}
  BY <1>0 DEF Size, Types
<1> DEFINE p == a % z # 0
           q == a + b * z > BufferLen
           r == BufferLen % z # 0 \/ a > BufferLen
           M == IF b >= 0 THEN Script \o Check(1) \o Refuse(q) ELSE Check(1) \o Refuse(r)
           bad == IF b >= 0 THEN q ELSE r
<1>3. p \in BOOLEAN /\ q \in BOOLEAN /\ r \in BOOLEAN
  <2>1. b * z \in Int
    BY <1>2
  <2> QED
    BY <2>1
<1>4. a \div z \in Nat /\ (BufferLen - a) \div z \in Int
  <2>1. CASE z = 1
    BY <2>1
  <2>2. CASE z = 2
    BY <2>2
  <2>3. CASE z = 4
    BY <2>3
  <2> QED
    BY <1>2, <2>1, <2>2, <2>3
<1>5. w \in AnyViews /\ w.buf = buf /\ w.type = type /\ w.offset = a \div z /\ w.length = IF b >= 0 THEN b ELSE (BufferLen - a) \div z
  BY <1>0, <1>4 DEF View, AnyViews
<1>6. ~p /\ ~bad => w \in SomeViews /\ Fits(w)
  <2>1. SUFFICES ASSUME ~p, ~bad PROVE w \in SomeViews /\ Fits(w)
    OBVIOUS
  <2>2. At(w, w.length) = (w.offset + w.length) * z
    BY <1>0, <1>5 DEF At
  <2>3. w.length \in Nat /\ (w.offset + w.length) * z <= BufferLen
    <3>1. CASE z = 1
      BY <1>5, <2>1, <3>1
    <3>2. CASE z = 2
      BY <1>5, <2>1, <3>2
    <3>3. CASE z = 4
      BY <1>5, <2>1, <3>3
    <3> QED
      BY <1>2, <3>1, <3>2, <3>3
  <2>4. w = [buf |-> w.buf, type |-> w.type, offset |-> w.offset, length |-> w.length]
    BY <1>0 DEF View
  <2> QED
    BY <1>4, <1>5, <2>2, <2>3, <2>4 DEF SomeViews, Fits
<1>7. Make(w, FALSE) \in Seq(Instrs)
  BY <1>5, MakesAre
<1>8. w \in SomeViews /\ Fits(w) => Safe(e, K, Make(w, FALSE), Situations)
  <2>1. SUFFICES ASSUME w \in SomeViews, Fits(w) PROVE Safe(e, K, Make(w, FALSE), Situations)
    OBVIOUS
  <2>2. FALSE \in BOOLEAN /\ {} \subseteq {}
    OBVIOUS
  <2>3. Safe(e, K, Make(w, FALSE), Knows(w, {}))
    BY <1>0, <2>1, <2>2, Creates
  <2> QED
    BY <2>2, <2>3, Weaker
<1> HIDE DEF p, q, r
<1>9. Safe(e, K, M, IF bad THEN {} ELSE K)
  <2>1. CASE b >= 0
    <3>1. Safe(e, K, Refuse(q), IF q THEN {} ELSE K)
      BY <1>1, <1>3, Refuses
    <3> QED
      BY <1>1, <2>1, <3>1, Chain
  <2>2. CASE ~(b >= 0)
    <3>1. Safe(e, K, Refuse(r), IF r THEN {} ELSE K)
      BY <1>1, <1>3, Refuses
    <3> QED
      BY <1>1, <2>2, <3>1, Join
  <2> QED
    BY <2>1, <2>2
<1> HIDE DEF M, bad
<1>10. M \in Seq(Instrs) /\ {} \in SUBSET Situations /\ Situations \in SUBSET Situations
  BY <1>9 DEF Safe
<1>11. Safe(e, K, Script \o Script, K)
  BY <1>1, Join
<1>12. Safe(e, K, Script \o Script \o Refuse(p) \o M, IF p \/ bad THEN {} ELSE K)
  <2>1. ~p => Safe(e, K, M, IF p \/ bad THEN {} ELSE K)
    BY <1>9
  <2>2. (IF p \/ bad THEN {} ELSE K) \in SUBSET Situations
    BY <1>1
  <2> QED
    BY <1>3, <1>10, <1>11, <2>1, <2>2, Guarded
<1>13. Safe(e, K, Script \o Script \o Refuse(p) \o M \o Make(w, FALSE), Situations)
  <2>1. CASE p \/ bad
    <3>1. Safe(e, K, Script \o Script \o Refuse(p) \o M, {})
      BY <1>12, <2>1
    <3> QED
      BY <1>7, <1>10, <3>1, DeadEnd
  <2>2. CASE ~(p \/ bad)
    <3>1. Safe(e, K, Script \o Script \o Refuse(p) \o M, K)
      BY <1>12, <2>2
    <3>2. Safe(e, K, Make(w, FALSE), Situations)
      BY <1>6, <1>8, <2>2
    <3> QED
      BY <3>1, <3>2, Join
  <2> QED
    BY <2>1, <2>2
<1>14. _newTypedArrayFromArrayBuffer(buf, type, a, b) = Script \o Script \o Refuse(p) \o M \o Make(w, FALSE)
  BY <1>0 DEF _newTypedArrayFromArrayBuffer, p, q, r, M
<1> QED
  BY <1>0, <1>13, <1>14

LEMMA MakesDataViews ==
    ASSUME NEW e, NEW t, Can(e, t, 1), NEW buf \in {1, 2}, NEW a \in Nat, NEW b \in Int, BufferLen \in Nat
    PROVE  Safe(e, Knows(t, {}), newDataView(buf, a, b), Situations)
<1>0. PICK K, w : K = Knows(t, {}) /\ w = View(buf, "u8", a, IF b >= 0 THEN b ELSE BufferLen - a)
  OBVIOUS
<1>1. Safe(e, K, Script, K) /\ Safe(e, K, Check(1), K) /\ K \in SUBSET Situations /\ Safe(e, K, <<>>, K)
  BY <1>0, Steady
<1> DEFINE p == a > BufferLen
           q == a + b > BufferLen
           M == IF b >= 0 THEN Script \o Refuse(q) ELSE <<>>
           bad == b >= 0 /\ q
<1>2. p \in BOOLEAN /\ q \in BOOLEAN
  OBVIOUS
<1>3. w \in AnyViews
  BY <1>0 DEF View, AnyViews, Types
<1>4. ~p /\ ~bad => w \in SomeViews /\ Fits(w)
  <2>1. SUFFICES ASSUME ~p, ~bad PROVE w \in SomeViews /\ Fits(w)
    OBVIOUS
  <2>2. PICK l : l = IF b >= 0 THEN b ELSE BufferLen - a
    OBVIOUS
  <2>3. l \in Nat /\ a + l <= BufferLen
    BY <2>1, <2>2
  <2>4. w = [buf |-> buf, type |-> "u8", offset |-> a, length |-> l]
    BY <1>0, <2>2 DEF View
  <2>5. At(w, w.length) = (a + l) * 1
    BY <2>4 DEF At, Size
  <2> QED
    BY <2>3, <2>4, <2>5 DEF SomeViews, Fits, Types
<1>5. Make(w, FALSE) \in Seq(Instrs)
  BY <1>3, MakesAre
<1>6. w \in SomeViews /\ Fits(w) => Safe(e, K, Make(w, FALSE), Situations)
  <2>1. SUFFICES ASSUME w \in SomeViews, Fits(w) PROVE Safe(e, K, Make(w, FALSE), Situations)
    OBVIOUS
  <2>2. FALSE \in BOOLEAN /\ {} \subseteq {}
    OBVIOUS
  <2>3. Safe(e, K, Make(w, FALSE), Knows(w, {}))
    BY <1>0, <2>1, <2>2, Creates
  <2> QED
    BY <2>2, <2>3, Weaker
<1> HIDE DEF p, q
<1>7. Safe(e, K, M, IF bad THEN {} ELSE K)
  <2>1. CASE b >= 0
    <3>1. Safe(e, K, Refuse(q), IF q THEN {} ELSE K)
      BY <1>1, <1>2, Refuses
    <3> QED
      BY <1>1, <2>1, <3>1, Join
  <2>2. CASE ~(b >= 0)
    BY <1>1, <2>2
  <2> QED
    BY <2>1, <2>2
<1> HIDE DEF M, bad
<1>8. /\ M \in Seq(Instrs) /\ Script \in Seq(Instrs) /\ Check(1) \in Seq(Instrs)
      /\ {} \in SUBSET Situations /\ Situations \in SUBSET Situations
  BY <1>1, <1>7 DEF Safe
<1>9. Safe(e, K, Script \o Check(1), K)
  BY <1>1, Join
<1>10. Safe(e, K, Script \o Check(1) \o Refuse(p) \o M, IF p \/ bad THEN {} ELSE K)
  <2>1. ~p => Safe(e, K, M, IF p \/ bad THEN {} ELSE K)
    BY <1>7
  <2>2. (IF p \/ bad THEN {} ELSE K) \in SUBSET Situations
    BY <1>1
  <2> QED
    BY <1>2, <1>8, <1>9, <2>1, <2>2, Guarded
<1>11. Safe(e, K, Script \o Check(1) \o Refuse(p) \o M \o Script \o Check(1) \o Make(w, FALSE), Situations)
  <2>1. CASE p \/ bad
    <3>1. Safe(e, K, Script \o Check(1) \o Refuse(p) \o M, {})
      BY <1>10, <2>1
    <3>2. Safe(e, K, Script \o Check(1) \o Refuse(p) \o M \o Script, {})
      BY <1>8, <3>1, DeadEnd
    <3>3. Safe(e, K, Script \o Check(1) \o Refuse(p) \o M \o Script \o Check(1), {})
      BY <1>8, <3>2, DeadEnd
    <3> QED
      BY <1>5, <1>8, <3>3, DeadEnd
  <2>2. CASE ~(p \/ bad)
    <3>1. Safe(e, K, Script \o Check(1) \o Refuse(p) \o M, K)
      BY <1>10, <2>2
    <3>2. Safe(e, K, Script \o Check(1) \o Refuse(p) \o M \o Script \o Check(1), K)
      BY <1>1, <3>1, Chain
    <3>3. Safe(e, K, Make(w, FALSE), Situations)
      BY <1>4, <1>6, <2>2
    <3> QED
      BY <3>2, <3>3, Join
  <2> QED
    BY <2>1, <2>2
<1>12. newDataView(buf, a, b) = Script \o Check(1) \o Refuse(p) \o M \o Script \o Check(1) \o Make(w, FALSE)
  BY <1>0 DEF newDataView, p, q, M
<1> QED
  BY <1>0, <1>11, <1>12

-----------------------------------------------------------------------------
(* Methods that make an array                                              *)

\* After typedArrayCreate: nothing comes after an array that is too short.
Outcome(c, type, n) ==
    IF Created(c, type, n).length >= n THEN Knows(Created(c, type, n), {Created(c, type, n).buf}) ELSE {}

LEMMA CreatedIs ==
    ASSUME NEW c, MayMake(c.ctor), NEW type \in Types, NEW n \in Nat, NEW D, D = Created(c, type, n)
    PROVE  /\ D \in SomeViews /\ D.buf \in Buffers /\ (c.ctor = NoView => D.length = n)
           /\ (D.buf # 3 => Fits(D)) /\ \A e : Can(e, D, 3) /\ Shown(e, D, 3) = D
<1>1. D \in SomeViews /\ D.buf \in Buffers /\ (c.ctor = NoView => D.length = n) /\ (D.buf # 3 => Fits(D))
  <2>1. CASE c.ctor = NoView
    <3>1. D = View(3, type, 0, n)
      BY <2>1 DEF Created
    <3>2. 3 \in Buffers
      BY DEF Buffers
    <3> QED
      BY <3>1, <3>2, OwnIs
  <2>2. CASE c.ctor # NoView
    BY <2>2 DEF Created, MayMake
  <2> QED
    BY <2>1, <2>2
<1>2. \A e : Shown(e, D, 3) = D
  BY DEF Shown
<1> QED
  BY <1>1, <1>2 DEF Can

LEMMA CreatesTyped ==
    ASSUME NEW e, NEW t, NEW c, MayMake(c.ctor), NEW type \in Types, NEW n \in Nat
    PROVE  /\ Safe(e, Knows(t, {}), typedArrayCreate(c, type, n), Outcome(c, type, n))
           /\ Safe(e, Knows(t, {}), typedArraySpeciesCreate(c, type, n), Outcome(c, type, n))
<1>0. PICK K, D, H : K = Knows(t, {}) /\ D = Created(c, type, n) /\ H = Knows(D, {D.buf})
  OBVIOUS
<1>1. Safe(e, K, Script, K)
  BY <1>0, Steady
<1>2. D \in SomeViews /\ D.buf \in Buffers /\ (c.ctor = NoView => D.length = n) /\ (D.buf # 3 => Fits(D)) /\ Can(e, D, 3)
      /\ Shown(e, D, 3) = D
  BY <1>0, CreatedIs
<1>3. Outcome(c, type, n) = IF D.length >= n THEN H ELSE {}
  BY <1>0 DEF Outcome
<1>4. Safe(e, K, typedArrayCreate(c, type, n), Outcome(c, type, n))
  <2>1. CASE c.ctor = NoView
    <3>1. D = View(3, type, 0, n) /\ D.buf = 3 /\ typedArrayCreate(c, type, n) = Make(D, TRUE)
      BY <1>0, <2>1, OwnIs DEF Created, typedArrayCreate
    <3>2. TRUE \in BOOLEAN /\ {} \union {3} = {3}
      OBVIOUS
    <3>3. Safe(e, K, Make(D, TRUE), Knows(D, {} \union {3}))
      BY <1>0, <1>2, <3>1, <3>2, Creates
    <3>4. Safe(e, K, Make(D, TRUE), H)
      BY <1>0, <3>1, <3>2, <3>3
    <3>5. Outcome(c, type, n) = H
      BY <1>2, <1>3, <2>1
    <3> QED
      BY <3>1, <3>4, <3>5
  <2>2. CASE c.ctor # NoView
    <3>1. D = c.ctor
      BY <1>0, <2>2 DEF Created
    <3> DEFINE own == D.buf = 3
               p == D.length < n
    <3>2. own \in BOOLEAN /\ p \in BOOLEAN /\ (p <=> ~(D.length >= n))
      BY <1>2 DEF SomeViews
    <3>3. typedArrayCreate(c, type, n) = Script \o Make(D, own) \o Check(3) \o Refuse(p)
      BY <2>2, <3>1 DEF typedArrayCreate
    <3>4. own => D.buf = 3
      OBVIOUS
    <3>5. ~own => Fits(D)
      BY <1>2
    <3> HIDE DEF own, p
    <3>6. Safe(e, K, Make(D, own), Knows(D, IF own THEN {} \union {3} ELSE {}))
      BY <1>0, <1>2, <3>2, <3>4, <3>5, Creates
    <3>7. Safe(e, K, Make(D, own), Knows(D, {}))
      <4>1. {} \subseteq (IF own THEN {} \union {3} ELSE {})
        OBVIOUS
      <4> QED
        BY <3>6, <4>1, Weaker
    <3>8. Safe(e, Knows(D, {}), Check(3), H)
      BY <1>0, <1>2, Steady
    <3>9. Safe(e, H, Refuse(p), IF p THEN {} ELSE H)
      <4>1. H \in SUBSET Situations
        BY <1>0, KnowsIs
      <4> QED
        BY <3>2, <4>1, Refuses
    <3>10. Safe(e, K, Script \o Make(D, own) \o Check(3), H)
      BY <1>1, <3>7, <3>8, Chain
    <3>11. Safe(e, K, Script \o Make(D, own) \o Check(3) \o Refuse(p), IF p THEN {} ELSE H)
      BY <3>9, <3>10, Join
    <3>12. (IF p THEN {} ELSE H) = Outcome(c, type, n)
      BY <1>3, <3>2
    <3> QED
      BY <3>3, <3>11, <3>12
  <2> QED
    BY <2>1, <2>2
<1>5. Safe(e, K, typedArraySpeciesCreate(c, type, n), Outcome(c, type, n))
  BY <1>1, <1>4, Join DEF typedArraySpeciesCreate
<1> QED
  BY <1>0, <1>4, <1>5

\* What a method does with the array that it made.
LEMMA AfterCreation ==
    ASSUME NEW e, NEW c, NEW type, NEW n, NEW D, D = Created(c, type, n), NEW Q \in Seq(Instrs),
           D.length >= n => Safe(e, Knows(D, {D.buf}), Q, Situations)
    PROVE  Safe(e, Outcome(c, type, n), Q, Situations)
<1>1. CASE D.length >= n
  BY <1>1 DEF Outcome
<1>2. CASE ~(D.length >= n)
  <2>1. Outcome(c, type, n) = {}
    BY <1>2 DEF Outcome
  <2>2. Situations \in SUBSET Situations
    OBVIOUS
  <2> QED
    BY <2>1, <2>2, Dead
<1> QED
  BY <1>1, <1>2

\* T.from and T.of: the loops, for an array that has n elements and begins at o.
FromLoop(n, iterable, mapped, o) ==
    Each(Upwards(0, n), LAMBDA i : IF iterable /\ mapped THEN Script \o _putIdx(3, i)
                                   ELSE (IF iterable THEN <<>> ELSE ScriptSparing({3})) \o Put(3, i - o))
OfLoop(n, o) == Each(Upwards(0, n), LAMBDA i : Put(3, i - o))

LEMMA FillsNew ==
    ASSUME NEW e, NEW D \in SomeViews, D.buf \in Buffers, NEW n \in Nat, n <= D.length,
           NEW iterable \in BOOLEAN, NEW mapped \in BOOLEAN, NEW o
    PROVE  /\ o = 0 \/ (iterable /\ mapped) => /\ Safe(e, Knows(D, {D.buf}), FromLoop(n, iterable, mapped, o), Situations)
                                              /\ FromLoop(n, iterable, mapped, o) \in Seq(Instrs)
           /\ o = 0 => Safe(e, Knows(D, {D.buf}), OfLoop(n, o), Situations) /\ OfLoop(n, o) \in Seq(Instrs)
<1>0. PICK K, H, b : b = D.buf /\ K = Knows(D, {}) /\ H = Knows(D, {b})
  OBVIOUS
<1>1. Shown(e, D, 3) = D /\ Can(e, D, 3) /\ 3 \in 1..3
  BY DEF Shown, Can
<1>2. Safe(e, K, Script, K) /\ K \in SUBSET Situations /\ H \in SUBSET Situations /\ H \subseteq K
  <2>1. {} \subseteq {b}
    OBVIOUS
  <2>2. H \subseteq K
    BY <1>0, <2>1, Forgets
  <2>3. Safe(e, K, Script, K) /\ K \in SUBSET Situations
    BY <1>0, Steady
  <2> QED
    BY <2>2, <2>3
<1>3. PICK ks \in Seq(Int) : ks = Upwards(0, n) /\ Len(ks) \in Nat /\ \A m \in 1..Len(ks) : ks[m] \in 0..n - 1
  <2>1. 0 \in Int /\ n \in Int
    OBVIOUS
  <2>2. Upwards(0, n) \in Seq(Int) /\ \A m \in 1..Len(Upwards(0, n)) : Upwards(0, n)[m] \in 0..n - 1
    BY <2>1, UpwardsIs
  <2>3. \A ks \in Seq(Int) : Len(ks) \in Nat
    OBVIOUS
  <2> QED
    BY <2>2, <2>3
<1>4. ASSUME NEW i \in 0..n - 1 PROVE Safe(e, H, Put(3, i), H)
  <2>1. Inside(D, i, 1) /\ b \in {b} /\ i \in Int
    BY <1>3 DEF Inside, SomeViews
  <2> QED
    BY <1>0, <1>1, <2>1, Puts
<1>5. Safe(e, H, ScriptSparing({3}), H)
  <2>1. {3} \in SUBSET (1..3) /\ {b} \subseteq {b} /\ \A x \in {b} : \E u \in {3} : Shown(e, D, u).buf = x
    BY <1>0, <1>1
  <2> QED
    BY <1>0, <2>1, Scripts
<1>6. ASSUME o = 0 PROVE Safe(e, H, OfLoop(n, o), Situations)
  <2> DEFINE s == [m \in 1..Len(ks) |-> Put(3, ks[m] - o)]
  <2>1. ASSUME NEW m \in 1..Len(ks) PROVE Safe(e, H, s[m], H)
    <3>1. PICK i \in 0..n - 1 : i = ks[m]
      BY <1>3
    <3>2. i - o = i
      BY <1>6
    <3>3. s[m] = Put(3, i)
      BY <3>1, <3>2
    <3> QED
      BY <1>4, <3>3
  <2>2. s = [m \in 1..Len(ks) |-> s[m]]
    OBVIOUS
  <2>3. OfLoop(n, o) = FlattenSeq(s)
    BY <1>3 DEF Each, OfLoop
  <2> HIDE DEF s
  <2>4. Safe(e, H, FlattenSeq(s), H)
    BY <1>2, <1>3, <2>1, <2>2, Loop
  <2>5. H \subseteq H /\ H \subseteq Situations /\ Situations \in SUBSET Situations
    BY <1>2
  <2> QED
    BY <2>3, <2>4, <2>5, Wider
<1>7. PICK checked, X : checked \in BOOLEAN /\ checked = (iterable /\ mapped) /\ X = IF checked THEN K ELSE H
  OBVIOUS
<1>8. ASSUME o = 0 \/ checked PROVE Safe(e, H, FromLoop(n, iterable, mapped, o), Situations)
  <2> DEFINE Before == IF iterable THEN <<>> ELSE ScriptSparing({3})
             s == [m \in 1..Len(ks) |-> IF iterable /\ mapped THEN Script \o _putIdx(3, ks[m]) ELSE Before \o Put(3, ks[m] - o)]
  <2>1. ASSUME NEW m \in 1..Len(ks) PROVE Safe(e, X, s[m], X)
    <3>1. PICK i \in 0..n - 1 : i = ks[m]
      BY <1>3
    <3>2. CASE checked
      <4>1. i \in Int
        OBVIOUS
      <4>2. Safe(e, K, _putIdx(3, i), K)
        BY <1>0, <1>1, <4>1, Elementwise
      <4>3. Safe(e, K, Script \o _putIdx(3, i), K)
        BY <1>2, <4>2, Join
      <4> QED
        BY <1>7, <3>1, <3>2, <4>3
    <3>3. CASE ~checked
      <4>1. i - o = i
        BY <1>8, <3>3
      <4>2. s[m] = Before \o Put(3, i)
        BY <1>7, <3>1, <3>3, <4>1
      <4>3. Safe(e, H, Before, H)
        <5>1. Safe(e, H, <<>>, H)
          BY <1>2, Nothing
        <5> QED
          BY <1>5, <5>1
      <4> HIDE DEF Before, s
      <4>4. Safe(e, H, Before \o Put(3, i), H)
        BY <1>4, <4>3, Join
      <4> QED
        BY <1>7, <3>3, <4>2, <4>4
    <3> QED
      BY <3>2, <3>3
  <2>2. s = [m \in 1..Len(ks) |-> s[m]] /\ X \in SUBSET Situations
    BY <1>2, <1>7
  <2>3. FromLoop(n, iterable, mapped, o) = FlattenSeq(s)
    BY <1>3 DEF Each, FromLoop
  <2> HIDE DEF s
  <2>4. Safe(e, X, FlattenSeq(s), X)
    BY <1>3, <2>1, <2>2, Loop
  <2>5. H \subseteq X /\ X \subseteq Situations /\ Situations \in SUBSET Situations
    BY <1>2, <1>7
  <2> QED
    BY <2>3, <2>4, <2>5, Wider
<1> QED
  BY <1>0, <1>6, <1>7, <1>8 DEF Safe

\* The loops are instructions, whatever array there is.
LEMMA LoopsAre ==
    ASSUME NEW n \in Nat, NEW iterable \in BOOLEAN, NEW mapped \in BOOLEAN, NEW o
    PROVE  /\ o = 0 \/ (iterable /\ mapped) => FromLoop(n, iterable, mapped, o) \in Seq(Instrs)
           /\ o = 0 => OfLoop(n, o) \in Seq(Instrs)
<1>1. PICK D \in SomeViews : D.buf = 3 /\ D.length = n
  <2>1. "u8" \in Types
    BY DEF Types
  <2> QED
    BY <2>1, OwnIs
<1>2. D.buf \in Buffers /\ n <= D.length
  BY <1>1 DEF Buffers
<1> QED
  BY <1>2, FillsNew

LEMMA Froms ==
    ASSUME NEW e, NEW t, NEW c, MayMake(c.ctor), NEW n \in Nat, NEW iterable \in BOOLEAN, NEW mapped \in BOOLEAN
    PROVE  /\ c.ctor.offset = 0 \/ (iterable /\ mapped) => Safe(e, Knows(t, {}), typedArray_from(c, n, iterable, mapped), Situations)
           /\ c.ctor.offset = 0 => Safe(e, Knows(t, {}), typedArray_of(c, n), Situations)
<1>0. PICK K, D, Y, o : K = Knows(t, {}) /\ D = Created(c, "u8", n) /\ Y = Outcome(c, "u8", n) /\ o = c.ctor.offset
  OBVIOUS
<1>1. "u8" \in Types
  BY DEF Types
<1>2. D \in SomeViews /\ D.buf \in Buffers
  BY <1>0, <1>1, CreatedIs
<1>3. Safe(e, K, Script, K)
  BY <1>0, Steady
<1>4. Safe(e, K, typedArrayCreate(c, "u8", n), Y)
  BY <1>0, <1>1, CreatesTyped
<1>5. D.length >= n => n <= D.length
  BY <1>2 DEF SomeViews
<1>6. PICK F, G : F = FromLoop(n, iterable, mapped, o) /\ G = OfLoop(n, o)
  OBVIOUS
<1>7. ASSUME o = 0 \/ (iterable /\ mapped) PROVE Safe(e, Y, F, Situations)
  <2>1. F \in Seq(Instrs)
    BY <1>6, <1>7, LoopsAre
  <2>2. D.length >= n => Safe(e, Knows(D, {D.buf}), F, Situations)
    BY <1>2, <1>5, <1>6, <1>7, FillsNew
  <2> QED
    BY <1>0, <2>1, <2>2, AfterCreation
<1>8. ASSUME o = 0 PROVE Safe(e, Y, G, Situations)
  <2>1. G \in Seq(Instrs)
    BY <1>6, <1>8, LoopsAre
  <2>2. D.length >= n => Safe(e, Knows(D, {D.buf}), G, Situations)
    BY <1>2, <1>5, <1>6, <1>8, FillsNew
  <2> QED
    BY <1>0, <2>1, <2>2, AfterCreation
<1>9. o = 0 \/ (iterable /\ mapped) => Safe(e, K, Script \o typedArrayCreate(c, "u8", n) \o F, Situations)
  BY <1>3, <1>4, <1>7, Chain
<1>10. o = 0 => Safe(e, K, typedArrayCreate(c, "u8", n) \o G, Situations)
  BY <1>4, <1>8, Join
<1>11. typedArray_from(c, n, iterable, mapped) = Script \o typedArrayCreate(c, "u8", n) \o F
  <2>1. F = FromLoop(n, iterable, mapped, c.ctor.offset)
    BY <1>0, <1>6
  <2>2. typedArray_from(c, n, iterable, mapped)
        = Script \o typedArrayCreate(c, "u8", n) \o FromLoop(n, iterable, mapped, c.ctor.offset)
    BY Zenon DEF typedArray_from, FromLoop, PutUnmoved
  <2> QED
    BY <2>1, <2>2
<1>12. typedArray_of(c, n) = typedArrayCreate(c, "u8", n) \o G
  BY <1>0, <1>6 DEF typedArray_of, OfLoop, PutUnmoved
<1> QED
  BY <1>0, <1>9, <1>10, <1>11, <1>12

\* map: what the callback returns is converted and written into the new array.
MapLoop(n) == Each(Upwards(0, n), LAMBDA k : Get(1, k) \o ScriptSparing({3}) \o Put(3, k))

LEMMA MapLoops ==
    ASSUME NEW e, NEW D \in SomeViews, D.buf \in Buffers, Can(e, D, 1), NEW n \in Nat, n <= D.length
    PROVE  Safe(e, Knows(D, {D.buf}), MapLoop(n), Situations)
<1>0. PICK H, b : b = D.buf /\ H = Knows(D, {b})
  OBVIOUS
<1>1. Shown(e, D, 3) = D /\ 3 \in 1..3 /\ H \in SUBSET Situations
  <2>1. H \in SUBSET Situations
    BY <1>0, KnowsIs
  <2> QED
    BY <2>1 DEF Shown
<1>2. PICK ks \in Seq(Int) : ks = Upwards(0, n) /\ Len(ks) \in Nat /\ \A m \in 1..Len(ks) : ks[m] \in 0..n - 1
  <2>1. 0 \in Int /\ n \in Int
    OBVIOUS
  <2>2. Upwards(0, n) \in Seq(Int) /\ \A m \in 1..Len(Upwards(0, n)) : Upwards(0, n)[m] \in 0..n - 1
    BY <2>1, UpwardsIs
  <2>3. \A ks \in Seq(Int) : Len(ks) \in Nat
    OBVIOUS
  <2> QED
    BY <2>2, <2>3
<1>3. ASSUME NEW k \in 0..n - 1 PROVE Safe(e, H, Get(1, k) \o ScriptSparing({3}) \o Put(3, k), H)
  <2>1. Inside(D, k, 1) /\ b \in {b} /\ k \in Int
    BY DEF Inside, SomeViews
  <2>2. Safe(e, H, Put(3, k), H)
    BY <1>0, <1>1, <2>1, Puts
  <2>3. Safe(e, H, ScriptSparing({3}), H)
    <3>1. {3} \in SUBSET (1..3) /\ {b} \subseteq {b} /\ \A x \in {b} : \E u \in {3} : Shown(e, D, u).buf = x
      BY <1>0, <1>1
    <3> QED
      BY <1>0, <3>1, Scripts
  <2>4. Safe(e, H, Get(1, k), H)
    <3>1. 1 \in 1..3 /\ Shown(e, D, 1) \in SomeViews /\ Shown(e, D, 1).buf \in Buffers
      BY DEF Can
    <3> QED
      BY <1>0, <2>1, <3>1, Gets
  <2> QED
    BY <2>2, <2>3, <2>4, Chain
<1>4. Safe(e, H, Each(ks, LAMBDA k : Get(1, k) \o ScriptSparing({3}) \o Put(3, k)), H)
  <2> DEFINE s == [m \in 1..Len(ks) |-> Get(1, ks[m]) \o ScriptSparing({3}) \o Put(3, ks[m])]
  <2>1. ASSUME NEW m \in 1..Len(ks) PROVE Safe(e, H, s[m], H)
    BY <1>2, <1>3
  <2>2. s = [m \in 1..Len(ks) |-> s[m]]
    OBVIOUS
  <2>3. Each(ks, LAMBDA k : Get(1, k) \o ScriptSparing({3}) \o Put(3, k)) = FlattenSeq(s)
    BY DEF Each
  <2> HIDE DEF s
  <2>4. Safe(e, H, FlattenSeq(s), H)
    BY <1>1, <1>2, <2>1, <2>2, Loop
  <2> QED
    BY <2>3, <2>4
<1>5. Safe(e, H, MapLoop(n), H)
  BY <1>2, <1>4 DEF MapLoop
<1>6. {b} \subseteq {b}
  OBVIOUS
<1> QED
  BY <1>0, <1>5, <1>6, Weaker

LEMMA Maps ==
    ASSUME NEW e, NEW t, Can(e, t, 1), NEW c, MayMake(c.ctor), view[1] = Shown(e, t, 1), NEW n, n = view[1].length
    PROVE  Safe(e, Knows(t, {}), typedArrayProto_map(c, n), Situations)
<1>0. PICK K, u, D, Y : K = Knows(t, {}) /\ u = view[1].type /\ D = Created(c, u, n) /\ Y = Outcome(c, u, n)
  OBVIOUS
<1>1. n \in Nat /\ u \in Types
  BY <1>0 DEF Can, SomeViews
<1>2. D \in SomeViews /\ D.buf \in Buffers
  BY <1>0, <1>1, CreatedIs
<1>3. Safe(e, K, Check(1), K)
  BY <1>0, Steady
<1>4. Safe(e, K, typedArraySpeciesCreate(c, u, n), Y)
  BY <1>0, <1>1, CreatesTyped
<1>5. Can(e, D, 1)
  BY DEF Can, Shown
<1>6. D.length >= n => n <= D.length
  BY <1>1, <1>2 DEF SomeViews
<1>7. D.length >= n => Safe(e, Knows(D, {D.buf}), MapLoop(n), Situations)
  BY <1>1, <1>2, <1>5, <1>6, MapLoops
<1>8. MapLoop(n) \in Seq(Instrs)
  <2>1. PICK W \in SomeViews : W.buf = 3 /\ W.length = n
    BY <1>1, OwnIs
  <2>2. W.buf \in Buffers /\ n <= W.length /\ Can(e, W, 1)
    BY <1>1, <2>1 DEF Buffers, Can, Shown
  <2>3. Safe(e, Knows(W, {W.buf}), MapLoop(n), Situations)
    BY <1>1, <2>2, MapLoops
  <2> QED
    BY <2>3 DEF Safe
<1>9. Safe(e, Y, MapLoop(n), Situations)
  BY <1>0, <1>7, <1>8, AfterCreation
<1>10. Safe(e, K, Check(1) \o typedArraySpeciesCreate(c, u, n) \o MapLoop(n), Situations)
  BY <1>3, <1>4, <1>9, Chain
<1>11. typedArrayProto_map(c, n) = Check(1) \o typedArraySpeciesCreate(c, u, n) \o MapLoop(n)
  BY <1>0 DEF typedArrayProto_map, MapLoop
<1> QED
  BY <1>0, <1>10, <1>11

LEMMA Filters ==
    ASSUME NEW e, NEW t, Can(e, t, 1), NEW c, MayMake(c.ctor), view[1] = Shown(e, t, 1), NEW n, n = view[1].length, NEW a \in Nat
    PROVE  Safe(e, Knows(t, {}), typedArrayProto_filter(c, n, a), Situations)
<1>0. PICK K, u, l, D, Y : /\ K = Knows(t, {}) /\ u = view[1].type /\ l = Lesser(a, n) /\ D = Created(c, u, l)
                           /\ Y = Outcome(c, u, l)
  OBVIOUS
<1>1. n \in Nat /\ u \in Types
  BY <1>0 DEF Can, SomeViews
<1>2. l \in Nat
  BY <1>0, <1>1 DEF Lesser
<1>3. D \in SomeViews /\ D.buf \in Buffers /\ Can(e, D, 3) /\ Shown(e, D, 3) = D
  BY <1>0, <1>1, <1>2, CreatedIs
<1>4. /\ Safe(e, K, Check(1), K) /\ Safe(e, K, Script, K) /\ K \in SUBSET Situations
      /\ \A k \in Int : Safe(e, K, Get(1, k), K)
  BY <1>0, Steady
<1>5. PICK ks \in Seq(Int) : ks = Upwards(0, n) /\ Len(ks) \in Nat /\ \A m \in 1..Len(ks) : ks[m] \in Int
  <2>1. 0 \in Int /\ n \in Int
    BY <1>1
  <2>2. Upwards(0, n) \in Seq(Int)
    BY <2>1, UpwardsIs
  <2>3. \A ks \in Seq(Int) : Len(ks) \in Nat /\ \A m \in 1..Len(ks) : ks[m] \in Int
    OBVIOUS
  <2> QED
    BY <2>2, <2>3
<1>6. Safe(e, K, Each(ks, LAMBDA k : Get(1, k) \o Get(1, k) \o Script), K)
  <2> DEFINE s == [m \in 1..Len(ks) |-> Get(1, ks[m]) \o Get(1, ks[m]) \o Script]
  <2>1. ASSUME NEW m \in 1..Len(ks) PROVE Safe(e, K, s[m], K)
    <3>1. Safe(e, K, Get(1, ks[m]), K)
      BY <1>4, <1>5
    <3>2. Safe(e, K, Get(1, ks[m]) \o Get(1, ks[m]) \o Script, K)
      BY <1>4, <3>1, Chain
    <3> QED
      BY <3>2
  <2>2. s = [m \in 1..Len(ks) |-> s[m]]
    OBVIOUS
  <2>3. Each(ks, LAMBDA k : Get(1, k) \o Get(1, k) \o Script) = FlattenSeq(s)
    BY DEF Each
  <2> HIDE DEF s
  <2>4. Safe(e, K, FlattenSeq(s), K)
    BY <1>4, <1>5, <2>1, <2>2, Loop
  <2> QED
    BY <2>3, <2>4
<1>7. Safe(e, K, typedArrayCreate(c, u, l), Y)
  BY <1>0, <1>1, <1>2, CreatesTyped
<1>8. Safe(e, Y, Touch(3, 0, l), Situations)
  <2>1. 0 \in Int /\ l \in Int
    BY <1>2
  <2>2. \A T : Can(e, T, 3) /\ l <= Shown(e, T, 3).length => Safe(e, Knows(T, {Shown(e, T, 3).buf}), Touch(3, 0, l), Situations)
    <3>1. SUFFICES ASSUME NEW T, Can(e, T, 3), l <= Shown(e, T, 3).length
                   PROVE  Safe(e, Knows(T, {Shown(e, T, 3).buf}), Touch(3, 0, l), Situations)
      OBVIOUS
    <3>2. Inside(Shown(e, T, 3), 0, l)
      BY <1>2, <3>1 DEF Inside
    <3> QED
      BY <2>1, <3>1, <3>2, Reads
  <2>3. Touch(3, 0, l) \in Seq(Instrs)
    <3>1. PICK W \in SomeViews : W.buf = 3 /\ W.length = l
      BY <1>1, <1>2, OwnIs
    <3>2. Can(e, W, 3) /\ l <= Shown(e, W, 3).length
      BY <1>2, <3>1 DEF Can, Shown, Buffers
    <3>3. Safe(e, Knows(W, {Shown(e, W, 3).buf}), Touch(3, 0, l), Situations)
      BY <2>2, <3>2
    <3> QED
      BY <3>3 DEF Safe
  <2>4. D.length >= l => l <= Shown(e, D, 3).length
    BY <1>2, <1>3 DEF SomeViews
  <2>5. D.length >= l => Safe(e, Knows(D, {D.buf}), Touch(3, 0, l), Situations)
    BY <1>3, <2>2, <2>4
  <2> QED
    BY <1>0, <2>3, <2>5, AfterCreation
<1>9. Safe(e, K, Check(1) \o Each(ks, LAMBDA k : Get(1, k) \o Get(1, k) \o Script) \o Script, K)
  BY <1>4, <1>6, Chain
<1>10. Safe(e, K, Check(1) \o Each(ks, LAMBDA k : Get(1, k) \o Get(1, k) \o Script) \o Script
                  \o typedArrayCreate(c, u, l) \o Touch(3, 0, l), Situations)
  BY <1>7, <1>8, <1>9, Chain
<1>11. typedArrayProto_filter(c, n, a) =
         Check(1) \o Each(ks, LAMBDA k : Get(1, k) \o Get(1, k) \o Script) \o Script
         \o typedArrayCreate(c, u, l) \o Touch(3, 0, l)
  BY <1>0, <1>5 DEF typedArrayProto_filter
<1> QED
  BY <1>0, <1>10, <1>11

-----------------------------------------------------------------------------
(* Methods that copy into an array that they make                          *)

LEMMA FreshIs ==
    ASSUME NEW e, NEW t, NEW type \in Types, NEW n \in Nat, NEW N, N = View(3, type, 0, n)
    PROVE  /\ N \in SomeViews /\ N.buf = 3 /\ N.length = n /\ Can(e, N, 3) /\ Shown(e, N, 3) = N
           /\ (Can(e, t, 1) => Can(e, N, 1)) /\ Shown(e, N, 1) = Shown(e, t, 1) /\ Shown(e, N, 2) = Shown(e, t, 2)
<1>1. N \in SomeViews /\ N.buf = 3 /\ N.length = n
  BY OwnIs
<1> QED
  BY <1>1 DEF Can, Shown, Buffers

LEMMA Fresh ==
    ASSUME NEW e, NEW t, NEW B, NEW N \in SomeViews, N.buf = 3
    PROVE  Safe(e, Knows(t, B), Make(N, TRUE), Knows(N, B \union {3})) /\ Make(N, TRUE) \in Seq(Instrs)
<1>1. TRUE \in BOOLEAN
  OBVIOUS
<1>2. Safe(e, Knows(t, B), Make(N, TRUE), Knows(N, B \union {3}))
  BY <1>1, Creates
<1> QED
  BY <1>2 DEF Safe

LEMMA Withs ==
    ASSUME NEW e, NEW t, Can(e, t, 1), view[1] = Shown(e, t, 1), NEW n, n = view[1].length, NEW a \in Int
    PROVE  Safe(e, Knows(t, {}), typedArrayProto_with(n, a), Situations)
<1>0. PICK K, w, b, N, k : /\ K = Knows(t, {}) /\ w = view[1] /\ b = w.buf /\ N = View(3, w.type, 0, n)
                           /\ k = IF a >= 0 THEN a ELSE n + a
  OBVIOUS
<1>1. n \in Nat /\ w.type \in Types /\ w \in SomeViews /\ b \in Buffers /\ k \in Int /\ n = w.length
  <2>1. n \in Nat /\ w.type \in Types /\ w \in SomeViews /\ b \in Buffers
    BY <1>0 DEF Can, SomeViews
  <2> QED
    BY <1>0, <2>1
<1>2. Safe(e, K, Script, K) /\ Safe(e, K, Check(1), K) /\ K \in SUBSET Situations
  BY <1>0, Steady
<1>3. Shown(e, t, 1) = w /\ 1 \in 1..3 /\ 3 \in 1..3 /\ 0 \in Int /\ n \in Int /\ 1 \in Int
  BY <1>0, <1>1
<1>14. PICK u : u \in Types /\ u = w.type /\ N = View(3, u, 0, n)
  BY <1>0, <1>1
<1>4. /\ N \in SomeViews /\ N.buf = 3 /\ N.length = n /\ Shown(e, N, 3) = N /\ Shown(e, N, 1) = w
      /\ Safe(e, Knows(t, {b}), Make(N, TRUE), Knows(N, {b} \union {3})) /\ Make(N, TRUE) \in Seq(Instrs)
  <2>1. /\ N \in SomeViews /\ N.buf = 3 /\ N.length = n /\ Shown(e, N, 3) = N /\ Shown(e, N, 1) = Shown(e, t, 1)
    <3>1. n \in Nat /\ u \in Types /\ N = View(3, u, 0, n)
      BY ONLY <1>1, <1>14
    <3>2. N \in SomeViews /\ N.buf = 3 /\ N.length = n
      BY ONLY <3>1, FreshIs
    <3>3. Shown(e, N, 3) = N /\ Shown(e, N, 1) = Shown(e, t, 1)
      BY <3>2 DEF Shown
    <3> QED
      BY ONLY <3>2, <3>3
  <2>2. Safe(e, Knows(t, {b}), Make(N, TRUE), Knows(N, {b} \union {3})) /\ Make(N, TRUE) \in Seq(Instrs)
    BY ONLY <2>1, Fresh
  <2> QED
    BY <1>3, <2>1, <2>2
<1>5. PICK G : G = Knows(N, {b} \union {3})
  OBVIOUS
<1>6. Copy(3, 0, 1, 0, n) \in Seq(Instrs) /\ Fill(3, k, 1) \in Seq(Instrs)
  BY <1>1, <1>3, AtomsAre
<1>7. Safe(e, G, Copy(3, 0, 1, 0, n), G)
  <2>1. /\ Inside(Shown(e, N, 3), 0, n) /\ Inside(Shown(e, N, 1), 0, n)
        /\ Shown(e, N, 3).buf \in {b} \union {3} /\ Shown(e, N, 1).buf \in {b} \union {3}
    BY <1>0, <1>1, <1>4 DEF Inside
  <2> QED
    BY ONLY <1>3, <1>5, <2>1, Moves
<1>8. k \in 0..n - 1 => Safe(e, G, Fill(3, k, 1), Situations)
  <2>1. SUFFICES ASSUME k \in 0..n - 1 PROVE Safe(e, G, Fill(3, k, 1), Situations)
    OBVIOUS
  <2>2. Inside(N, k, 1) /\ 3 \in {b} \union {3}
    BY <1>1, <1>4, <2>1 DEF Inside
  <2>3. Safe(e, G, Fill(3, k, 1), G)
    BY <1>1, <1>3, <1>4, <1>5, <2>2, Touches
  <2>4. {} \subseteq {b} \union {3}
    OBVIOUS
  <2> QED
    BY <1>5, <2>3, <2>4, Weaker
<1>9. Safe(e, K, IfNot(1, k), IF k \in 0..n - 1 THEN Knows(t, {b}) ELSE {})
  <2>1. Safe(e, Knows(t, {}), IfNot(1, k), IF k \in 0..w.length - 1 THEN Knows(t, {} \union {b}) ELSE {})
    BY <1>0, <1>1, <1>3, IfNots
  <2>2. {} \union {b} = {b}
    OBVIOUS
  <2> QED
    BY <1>0, <1>1, <2>1, <2>2
<1>10. Safe(e, K, Check(1) \o Script \o Script, K)
  BY <1>2, Chain
<1>11. Safe(e, K, Check(1) \o Script \o Script \o IfNot(1, k), IF k \in 0..n - 1 THEN Knows(t, {b}) ELSE {})
  BY <1>9, <1>10, Join
<1>12. Safe(e, K, Check(1) \o Script \o Script \o IfNot(1, k) \o Make(N, TRUE) \o Copy(3, 0, 1, 0, n) \o Fill(3, k, 1), Situations)
  <2>1. CASE k \in 0..n - 1
    <3>1. Safe(e, K, Check(1) \o Script \o Script \o IfNot(1, k), Knows(t, {b}))
      BY <1>11, <2>1
    <3>3. Safe(e, Knows(t, {b}), Make(N, TRUE), G)
      BY <1>4, <1>5
    <3>2. Safe(e, K, Check(1) \o Script \o Script \o IfNot(1, k) \o Make(N, TRUE) \o Copy(3, 0, 1, 0, n), G)
      BY <1>7, <3>1, <3>3, Chain
    <3> QED
      BY <1>8, <2>1, <3>2, Join
  <2>2. CASE k \notin 0..n - 1
    <3>1. Safe(e, K, Check(1) \o Script \o Script \o IfNot(1, k), {})
      BY <1>11, <2>2
    <3>2. {} \in SUBSET Situations /\ Situations \in SUBSET Situations
      OBVIOUS
    <3>3. Safe(e, K, Check(1) \o Script \o Script \o IfNot(1, k) \o Make(N, TRUE), {})
      BY <1>4, <3>1, <3>2, DeadEnd
    <3>4. Safe(e, K, Check(1) \o Script \o Script \o IfNot(1, k) \o Make(N, TRUE) \o Copy(3, 0, 1, 0, n), {})
      BY <1>6, <3>2, <3>3, DeadEnd
    <3> QED
      BY <1>6, <3>2, <3>4, DeadEnd
  <2> QED
    BY <2>1, <2>2
<1>13. typedArrayProto_with(n, a) =
         Check(1) \o Script \o Script \o IfNot(1, k) \o Make(N, TRUE) \o Copy(3, 0, 1, 0, n) \o Fill(3, k, 1)
  BY <1>0 DEF typedArrayProto_with
<1> QED
  BY <1>0, <1>12, <1>13

\* Elements moved into view 3, whatever their order.
LEMMA MovesAll ==
    ASSUME NEW e, NEW N, Can(e, N, 3), NEW v \in {1, 2}, Can(e, N, v), NEW n \in Nat, NEW s, s = [m \in 1..n |-> s[m]],
           NEW B, N.buf \in B, Shown(e, N, v).buf \in B,
           \A m \in 1..n : \E i, j \in Int : s[m] = Move(3, i, v, j) /\ Inside(N, i, 1) /\ Inside(Shown(e, N, v), j, 1)
    PROVE  Safe(e, Knows(N, B), FlattenSeq(s), Knows(N, B))
<1>0. PICK G : G = Knows(N, B)
  OBVIOUS
<1>1. G \in SUBSET Situations /\ Shown(e, N, 3) = N /\ 3 \in 1..3 /\ v \in 1..3 /\ 1 \in Int
  <2>1. G \in SUBSET Situations
    BY <1>0, KnowsIs
  <2> QED
    BY <2>1 DEF Shown
<1>2. ASSUME NEW m \in 1..n PROVE Safe(e, G, s[m], G)
  <2>1. PICK i \in Int, j \in Int : s[m] = Move(3, i, v, j) /\ Inside(N, i, 1) /\ Inside(Shown(e, N, v), j, 1)
    OBVIOUS
  <2>2. Safe(e, G, Move(3, i, v, j), G)
    BY <1>0, <1>1, <2>1, Moves
  <2> QED
    BY <2>1, <2>2
<1>3. Safe(e, G, FlattenSeq(s), G)
  BY <1>1, <1>2, Loop
<1> QED
  BY <1>0, <1>3

LEMMA ToReversed ==
    ASSUME NEW e, NEW t, Can(e, t, 1), view[1] = Shown(e, t, 1), NEW n, n = view[1].length
    PROVE  Safe(e, Knows(t, {}), typedArrayProto_toReversed(n), Situations)
<1>0. PICK K, w, b, N : K = Knows(t, {}) /\ w = view[1] /\ b = w.buf /\ N = View(3, w.type, 0, n)
  OBVIOUS
<1>1. n \in Nat /\ w.type \in Types /\ n = w.length /\ w = Shown(e, t, 1)
  BY <1>0 DEF Can, SomeViews
<1>2. Safe(e, K, Check(1), Knows(t, {b}))
  BY <1>0, Steady
<1>10. PICK u : u \in Types /\ u = w.type /\ N = View(3, u, 0, n) /\ n \in Nat
  BY <1>0, <1>1
<1>3. /\ N \in SomeViews /\ N.buf = 3 /\ N.length = n /\ Shown(e, N, 1) = w /\ Can(e, N, 3) /\ Can(e, N, 1)
      /\ Safe(e, Knows(t, {b}), Make(N, TRUE), Knows(N, {b} \union {3}))
  <2>3. N \in SomeViews /\ N.buf = 3 /\ N.length = n /\ Shown(e, N, 1) = Shown(e, t, 1)
    BY ONLY <1>10, FreshIs
  <2>4. Can(e, N, 3)
    BY ONLY <1>10, FreshIs
  <2>5. Can(e, t, 1) => Can(e, N, 1)
    BY ONLY <1>10, FreshIs
  <2>1. /\ N \in SomeViews /\ N.buf = 3 /\ N.length = n /\ Can(e, N, 3) /\ (Can(e, t, 1) => Can(e, N, 1))
        /\ Shown(e, N, 1) = Shown(e, t, 1)
    BY ONLY <2>3, <2>4, <2>5
  <2>2. Safe(e, Knows(t, {b}), Make(N, TRUE), Knows(N, {b} \union {3}))
    BY ONLY <2>1, Fresh
  <2> QED
    BY <1>1, <2>1, <2>2
<1>4. PICK G : G = Knows(N, {b} \union {3})
  OBVIOUS
<1>5. PICK ks \in Seq(Int) : ks = Upwards(0, n) /\ Len(ks) \in Nat /\ \A m \in 1..Len(ks) : ks[m] \in 0..n - 1
  <2>1. 0 \in Int /\ n \in Int
    BY <1>1
  <2>2. Upwards(0, n) \in Seq(Int) /\ \A m \in 1..Len(Upwards(0, n)) : Upwards(0, n)[m] \in 0..n - 1
    BY <2>1, UpwardsIs
  <2>3. \A ks \in Seq(Int) : Len(ks) \in Nat
    OBVIOUS
  <2> QED
    BY <2>2, <2>3
<1>6. Safe(e, G, Each(ks, LAMBDA k : Move(3, k, 1, n - k - 1)), G)
  <2> DEFINE s == [m \in 1..Len(ks) |-> Move(3, ks[m], 1, n - ks[m] - 1)]
  <2>1. ASSUME NEW m \in 1..Len(ks)
        PROVE  \E i, j \in Int : s[m] = Move(3, i, 1, j) /\ Inside(N, i, 1) /\ Inside(Shown(e, N, 1), j, 1)
    <3>1. PICK i \in Int : i = ks[m] /\ i \in 0..n - 1
      BY <1>5
    <3>2. PICK j \in Int : j = n - i - 1
      BY <1>1
    <3>3. Inside(N, i, 1) /\ Inside(w, j, 1)
      BY <1>1, <1>3, <3>1, <3>2, SMTT(30) DEF Inside
    <3>4. s[m] = Move(3, i, 1, j)
      BY <3>1, <3>2
    <3> HIDE DEF s
    <3> QED
      BY <1>3, <3>3, <3>4
  <2>2. s = [m \in 1..Len(ks) |-> s[m]]
    OBVIOUS
  <2>3. Each(ks, LAMBDA k : Move(3, k, 1, n - k - 1)) = FlattenSeq(s)
    BY DEF Each
  <2> HIDE DEF s
  <2>4. 1 \in {1, 2} /\ N.buf \in {b} \union {3} /\ Shown(e, N, 1).buf \in {b} \union {3}
    BY <1>0, <1>3
  <2>5. Safe(e, Knows(N, {b} \union {3}), FlattenSeq(s), Knows(N, {b} \union {3}))
    BY <1>3, <1>5, <2>1, <2>2, <2>4, MovesAll
  <2> QED
    BY <1>4, <2>3, <2>5
<1>7. Safe(e, K, Check(1) \o Make(N, TRUE) \o Each(ks, LAMBDA k : Move(3, k, 1, n - k - 1)), G)
  BY <1>2, <1>3, <1>4, <1>6, Chain
<1>8. typedArrayProto_toReversed(n) = Check(1) \o Make(N, TRUE) \o Each(ks, LAMBDA k : Move(3, k, 1, n - k - 1))
  BY <1>0, <1>5 DEF typedArrayProto_toReversed
<1>9. {} \subseteq {b} \union {3}
  OBVIOUS
<1> QED
  BY <1>0, <1>4, <1>7, <1>8, <1>9, Weaker

LEMMA Subarrays ==
    ASSUME NEW e \in Contexts, NEW t, NEW c, MayMake(c.ctor), view[1] = e.first, NEW n, n = view[1].length,
           NEW a \in Int, NEW b \in Int, BufferLen \in Nat
    PROVE  Safe(e, Knows(t, {}), typedArrayProto_subarray(c, n, a, b), Situations)
<1>0. PICK K, w, from, to, len : /\ K = Knows(t, {}) /\ w = view[1] /\ from = relToIdx(a, n) /\ to = relToIdx(b, n)
                                 /\ len = Greater(to - from, 0)
  OBVIOUS
<1>1. n \in Nat /\ n = w.length /\ w \in SomeViews /\ Fits(w) /\ w.buf \in Buffers
  BY <1>0 DEF Contexts, SomeViews, Fits, Buffers
<1>2. Can(e, t, 1)
  BY <1>0, <1>1 DEF Can, Shown
<1>3. Safe(e, K, Script, K) /\ Safe(e, K, Check(1), K)
  BY <1>0, <1>2, Steady
<1>4. from \in 0..n /\ to \in 0..n
  BY <1>0, <1>1, IndexIs
<1>5. len \in Nat /\ from + len <= n
  BY <1>0, <1>1, <1>4 DEF Greater
<1>6. Safe(e, K, Script \o Script \o Script, K)
  BY <1>3, Chain
<1>7. CASE c.ctor = NoView
  <2>1. PICK D : D = View(w.buf, w.type, w.offset + from, len)
    OBVIOUS
  <2>2. D \in SomeViews /\ D.buf = w.buf /\ D.type = w.type /\ D.offset = w.offset + from /\ D.length = len
    <3>1. w.offset + from \in Nat /\ w.buf \in 0..3 /\ w.type \in Types
      BY <1>1, <1>4 DEF SomeViews
    <3> QED
      BY <1>5, <2>1, <3>1 DEF View, SomeViews
  <2>3. Fits(D)
    <3>1. (D.offset + D.length) <= w.offset + w.length /\ D.offset \in Nat /\ D.length \in Nat /\ w.offset \in Nat /\ w.length \in Nat
      BY <1>1, <1>4, <1>5, <2>2 DEF SomeViews
    <3>2. Size(w.type) \in {1, 2, 4}
      BY <1>1 DEF SomeViews, Size, Types
    <3>3. At(D, D.length) <= At(w, w.length)
      <4>1. CASE Size(w.type) = 1
        BY <2>2, <3>1, <4>1 DEF At
      <4>2. CASE Size(w.type) = 2
        BY <2>2, <3>1, <4>2 DEF At
      <4>3. CASE Size(w.type) = 4
        BY <2>2, <3>1, <4>3 DEF At
      <4> QED
        BY <3>2, <4>1, <4>2, <4>3
    <3>4. At(D, D.length) \in Nat /\ At(w, w.length) \in Nat
      BY <1>1, <2>2, <3>1, AtIs
    <3>5. At(w, w.length) <= BufferLen /\ w.buf \in {1, 2}
      BY <1>1 DEF Fits
    <3>6. At(D, D.length) <= BufferLen
      BY <3>3, <3>4, <3>5
    <3> QED
      BY <2>2, <3>5, <3>6 DEF Fits
  <2>4. Safe(e, K, Make(D, FALSE), Situations)
    <3>1. FALSE \in BOOLEAN /\ {} \subseteq {}
      OBVIOUS
    <3>2. Safe(e, Knows(t, {}), Make(D, FALSE), Knows(D, {}))
      BY <2>2, <2>3, <3>1, Creates
    <3> QED
      BY <1>0, <3>1, <3>2, Weaker
  <2>5. Safe(e, K, Check(1) \o Make(D, FALSE), Situations)
    BY <1>3, <2>4, Join
  <2>6. typedArrayProto_subarray(c, n, a, b) = Script \o Script \o Script \o (Check(1) \o Make(D, FALSE))
    BY <1>0, <1>7, <2>1 DEF typedArrayProto_subarray
  <2>7. Safe(e, K, Script \o Script \o Script \o (Check(1) \o Make(D, FALSE)), Situations)
    BY <1>6, <2>5, Join
  <2> QED
    BY <1>0, <2>6, <2>7
<1>8. CASE c.ctor # NoView
  <2>1. PICK D : D = c.ctor
    OBVIOUS
  <2> DEFINE own == D.buf = 3
  <2>2. own \in BOOLEAN
    OBVIOUS
  <2>3. D \in SomeViews /\ D.buf \in Buffers /\ (IF own THEN D.buf = 3 ELSE Fits(D)) /\ Can(e, D, 3) /\ Shown(e, D, 3) = D
    BY <1>8, <2>1 DEF MayMake, Can, Shown
  <2>4. typedArrayProto_subarray(c, n, a, b) = Script \o Script \o Script \o (Script \o Make(D, own) \o Check(3))
    BY <1>0, <1>8, <2>1 DEF typedArrayProto_subarray
  <2> HIDE DEF own
  <2>5. Safe(e, K, Make(D, own), Knows(D, {}))
    <3>1. Safe(e, Knows(t, {}), Make(D, own), Knows(D, IF own THEN {} \union {3} ELSE {}))
      BY <2>2, <2>3, Creates
    <3>2. {} \subseteq (IF own THEN {} \union {3} ELSE {})
      OBVIOUS
    <3> QED
      BY <1>0, <3>1, <3>2, Weaker
  <2>6. Safe(e, Knows(D, {}), Check(3), Situations)
    <3>1. Safe(e, Knows(D, {}), Check(3), Knows(D, {}))
      BY <2>3, Steady
    <3>2. {} \subseteq {}
      OBVIOUS
    <3> QED
      BY <3>1, <3>2, Weaker
  <2>7. Safe(e, K, Script \o Make(D, own) \o Check(3), Situations)
    BY <1>3, <2>5, <2>6, Chain
  <2>8. Safe(e, K, Script \o Script \o Script \o (Script \o Make(D, own) \o Check(3)), Situations)
    BY <1>6, <2>7, Join
  <2> QED
    BY <1>0, <2>4, <2>8
<1> QED
  BY <1>7, <1>8

-----------------------------------------------------------------------------
(* Sorting                                                                 *)

\* One comparison of sort, and what depends on it.
SortBody(v, j) == Less(v, j + 1) \o Skip(1 + 5 * j) \o Swap(v, j, j + 1)

\* The insertion of element i.
Insertion(v, i) == Each(Downwards(i, 0), LAMBDA j : Less(v, j + 1) \o Skip(1 + 5 * j) \o Swap(v, j, j + 1))

\* The five instructions of SortBody(v, j).
Compares(B, v, j) ==
    /\ B \in Seq(Instrs) /\ Len(B) = 5
    /\ B[1].op = "touch" /\ B[1].v = v /\ B[1].i = j /\ B[1].n = 2
    /\ B[2].op = "script"
    /\ B[3].op = "leave" /\ B[3].v = v
    /\ B[4].op = "skip" /\ B[4].n = 1 + 5 * j
    /\ B[5].op = "swap" /\ B[5].v = v /\ B[5].i = j /\ B[5].w = v /\ B[5].j = j + 1 /\ B[5].n = 1

\* One more instruction.
LEMMA Further ==
    ASSUME NEW P \in Seq(Instrs), NEW x \in Instrs, NEW R, R = P \o <<x>>
    PROVE  R \in Seq(Instrs) /\ Len(R) = Len(P) + 1 /\ R[Len(P) + 1] = x /\ \A m \in 1..Len(P) : R[m] = P[m]
<1>1. <<x>> \in Seq(Instrs) /\ Len(<<x>>) = 1 /\ <<x>>[1] = x /\ Len(P) \in Nat
  OBVIOUS
<1>2. /\ R \in Seq(Instrs) /\ Len(R) = Len(P) + Len(<<x>>)
      /\ \A m \in 1..Len(R) : R[m] = IF m <= Len(P) THEN P[m] ELSE <<x>>[m - Len(P)]
  BY <1>1, ConcatProperties
<1>3. Len(P) + 1 \in 1..Len(R) /\ ~(Len(P) + 1 <= Len(P)) /\ Len(P) + 1 - Len(P) = 1
  BY <1>1, <1>2
<1>4. \A m \in 1..Len(P) : m \in 1..Len(R) /\ m <= Len(P)
  BY <1>1, <1>2
<1> QED
  BY <1>1, <1>2, <1>3, <1>4

LEMMA SortBodyIs ==
    ASSUME NEW v \in 1..3, NEW j \in Nat, NEW B, B = SortBody(v, j)
    PROVE  Compares(B, v, j)
<1>1. /\ {"touch", "script", "leave", "skip", "swap"} \subseteq Ops /\ v \in 0..3 /\ 0 \in 0..3 /\ 1 \in 0..3
      /\ 0 \in Int /\ 1 \in Int /\ 2 \in Int /\ j \in Int /\ j + 1 \in Int /\ 1 + 5 * j \in Int
  BY DEF Ops, Writes
<1>2. PICK a : a = Instr("touch", v, j, 0, 0, 2)
  OBVIOUS
<1>3. PICK b : b = Instr("script", 1, 0, 0, 0, 0)
  OBVIOUS
<1>4. PICK c : c = Instr("leave", v, 0, 0, 0, 0)
  OBVIOUS
<1>5. PICK l \in Int : l = 1 + 5 * j
  BY <1>1
<1>6. PICK d : d = Instr("skip", 0, 0, 0, 0, l)
  OBVIOUS
<1>7. PICK k \in Int : k = j + 1
  BY <1>1
<1>8. PICK f : f = Instr("swap", v, j, v, k, 1)
  OBVIOUS
<1>9. a \in Instrs /\ a.op = "touch" /\ a.v = v /\ a.i = j /\ a.n = 2
  BY <1>1, <1>2, InstrIs
<1>10. b \in Instrs /\ b.op = "script"
  BY <1>1, <1>3, InstrIs
<1>11. c \in Instrs /\ c.op = "leave" /\ c.v = v
  BY <1>1, <1>4, InstrIs
<1>12. d \in Instrs /\ d.op = "skip" /\ d.n = l
  BY <1>1, <1>6, InstrIs
<1>13. f \in Instrs /\ f.op = "swap" /\ f.v = v /\ f.i = j /\ f.w = v /\ f.j = k /\ f.n = 1
  BY <1>1, <1>8, InstrIs
<1>14. B = <<a>> \o <<b>> \o <<c>> \o <<d>> \o <<f>>
  <2>1. Touch(v, (j + 1) - 1, 2) = <<a>>
    <3>1. (j + 1) - 1 = j
      OBVIOUS
    <3> QED
      BY <1>2, <3>1 DEF Touch
  <2>2. Less(v, j + 1) = <<a>> \o <<b>> \o <<c>>
    BY <1>3, <1>4, <2>1 DEF Less, Script, Leave, Do
  <2> QED
    BY <1>5, <1>6, <1>7, <1>8, <2>2 DEF SortBody, Skip, Swap
<1>15. PICK P1, P2, P3, P4 : P1 = <<a>> /\ P2 = P1 \o <<b>> /\ P3 = P2 \o <<c>> /\ P4 = P3 \o <<d>> /\ B = P4 \o <<f>>
  BY <1>14
<1>16. P1 \in Seq(Instrs) /\ Len(P1) = 1 /\ P1[1] = a
  BY <1>9, <1>15
<1>17. P2 \in Seq(Instrs) /\ Len(P2) = 2 /\ P2[1] = a /\ P2[2] = b
  <2>1. P2 \in Seq(Instrs) /\ Len(P2) = Len(P1) + 1 /\ P2[Len(P1) + 1] = b /\ \A m \in 1..Len(P1) : P2[m] = P1[m]
    BY <1>10, <1>15, <1>16, Further
  <2> QED
    BY <1>16, <2>1
<1>18. P3 \in Seq(Instrs) /\ Len(P3) = 3 /\ P3[1] = a /\ P3[2] = b /\ P3[3] = c
  <2>1. P3 \in Seq(Instrs) /\ Len(P3) = Len(P2) + 1 /\ P3[Len(P2) + 1] = c /\ \A m \in 1..Len(P2) : P3[m] = P2[m]
    BY <1>11, <1>15, <1>17, Further
  <2> QED
    BY <1>17, <2>1
<1>19. P4 \in Seq(Instrs) /\ Len(P4) = 4 /\ P4[1] = a /\ P4[2] = b /\ P4[3] = c /\ P4[4] = d
  <2>1. P4 \in Seq(Instrs) /\ Len(P4) = Len(P3) + 1 /\ P4[Len(P3) + 1] = d /\ \A m \in 1..Len(P3) : P4[m] = P3[m]
    BY <1>12, <1>15, <1>18, Further
  <2> QED
    BY <1>18, <2>1
<1>20. B \in Seq(Instrs) /\ Len(B) = 5 /\ B[1] = a /\ B[2] = b /\ B[3] = c /\ B[4] = d /\ B[5] = f
  <2>1. B \in Seq(Instrs) /\ Len(B) = Len(P4) + 1 /\ B[Len(P4) + 1] = f /\ \A m \in 1..Len(P4) : B[m] = P4[m]
    BY <1>13, <1>15, <1>19, Further
  <2> QED
    BY <1>19, <2>1
<1> QED
  BY <1>5, <1>7, <1>9, <1>10, <1>11, <1>12, <1>13, <1>20 DEF Compares

LEMMA SortBodyLen ==
    ASSUME NEW v \in 1..3, NEW j \in Nat
    PROVE  SortBody(v, j) \in Seq(Instrs) /\ Len(SortBody(v, j)) = 5
<1>1. PICK B : B = SortBody(v, j)
  OBVIOUS
<1>2. Compares(B, v, j)
  BY <1>1, SortBodyIs
<1> QED
  BY <1>1, <1>2 DEF Compares

\* The instructions of an insertion, by the comparison that they belong to.
Inserted(P, v, i) ==
    /\ P \in Seq(Instrs) /\ Len(P) = 5 * i
    /\ \A q \in 1..i : \A r \in 1..5 : P[5 * (q - 1) + r] = SortBody(v, i - q)[r]

LEMMA InsertionIs ==
    ASSUME NEW v \in 1..3, NEW i \in Nat, NEW P, P = Insertion(v, i)
    PROVE  Inserted(P, v, i)
<1> DEFINE s == [q \in 1..i |-> SortBody(v, i - q)]
           Has(m) == {p \in Seq(Instrs) : /\ Len(p) = 5 * m
                                          /\ \A q \in 1..m : \A r \in 1..5 : p[5 * (q - 1) + r] = s[q][r]}
           K == [m \in 0..i |-> Has(m)]
<1>1. P = FlattenSeq(s)
  <2>1. Greater(i - 0, 0) = i
    BY DEF Greater
  <2>2. PICK ks : ks = [x \in 1..i |-> i - x]
    OBVIOUS
  <2>3. Downwards(i, 0) = ks
    BY <2>1, <2>2 DEF Downwards
  <2>4. Len(ks) = i /\ \A q \in 1..i : ks[q] = i - q
    BY <2>2
  <2>5. P = FlattenSeq([q \in 1..Len(ks) |-> SortBody(v, ks[q])])
    BY <2>3 DEF Insertion, Each, SortBody
  <2>6. [q \in 1..Len(ks) |-> SortBody(v, ks[q])] = s
    BY <2>4
  <2> QED
    BY <2>5, <2>6
<1>2. ASSUME NEW q \in 1..i PROVE s[q] = SortBody(v, i - q) /\ s[q] \in Seq(Instrs) /\ Len(s[q]) = 5
  <2>1. PICK j : j \in Nat /\ j = i - q /\ v \in 1..3
    OBVIOUS
  <2> HIDE DEF s, Has, K
  <2>2. s[q] = SortBody(v, j)
    BY <2>1 DEF s
  <2>4. PICK B : B = SortBody(v, j)
    OBVIOUS
  <2>5. B \in Seq(Instrs) /\ Len(B) = 5
    BY <2>1, <2>4, SortBodyLen
  <2>3. s[q] \in Seq(Instrs) /\ Len(s[q]) = 5
    BY <2>2, <2>4, <2>5
  <2> QED
    BY <2>1, <2>2, <2>3
<1>3. s \in [1..i -> Seq(Instrs)]
  BY <1>2
<1> HIDE DEF s
<1>4. \A m \in 0..i : K[m] = Has(m)
  OBVIOUS
<1> HIDE DEF K
<1>5. <<>> \in K[0]
  <2>1. <<>> \in Seq(Instrs) /\ Len(<<>>) = 5 * 0 /\ \A q \in 1..0 : FALSE
    OBVIOUS
  <2>2. <<>> \in Has(0)
    BY <2>1
  <2>3. 0 \in 0..i
    OBVIOUS
  <2> HIDE DEF Has
  <2> QED
    BY <1>4, <2>2, <2>3
<1>6. ASSUME NEW m \in 1..i, NEW p \in Seq(Instrs), p \in K[m - 1] PROVE p \o s[m] \in K[m]
  <2>1. m - 1 \in 0..i /\ m \in 0..i
    OBVIOUS
  <2>2. p \in Has(m - 1)
    BY <1>4, <1>6, <2>1
  <2>3. Len(p) = 5 * (m - 1) /\ \A q \in 1..m - 1 : \A r \in 1..5 : p[5 * (q - 1) + r] = s[q][r]
    BY <2>2
  <2>4. PICK t : t = s[m] /\ t \in Seq(Instrs) /\ Len(t) = 5
    BY <1>2
  <2>5. PICK R : R = p \o t
    OBVIOUS
  <2>6. R \in Seq(Instrs) /\ Len(R) = Len(p) + Len(t) /\ \A k \in 1..Len(R) : R[k] = IF k <= Len(p) THEN p[k] ELSE t[k - Len(p)]
    <3>1. p \in Seq(Instrs)
      OBVIOUS
    <3> HIDE DEF Has
    <3>2. t \in Seq(Instrs)
      BY <2>4
    <3>3. /\ p \o t \in Seq(Instrs) /\ Len(p \o t) = Len(p) + Len(t)
          /\ \A k \in 1..Len(p) + Len(t) : (p \o t)[k] = IF k <= Len(p) THEN p[k] ELSE t[k - Len(p)]
      BY ONLY <3>1, <3>2
    <3> QED
      BY ONLY <2>5, <3>3
  <2>7. Len(R) = 5 * m
    BY <2>3, <2>4, <2>6
  <2>8. ASSUME NEW q \in 1..m, NEW r \in 1..5 PROVE R[5 * (q - 1) + r] = s[q][r]
    <3>1. PICK k \in Int : k = 5 * (q - 1) + r
      OBVIOUS
    <3>2. k \in 1..Len(R)
      BY <2>7, <3>1
    <3>3. CASE q < m
      <4>1. q \in 1..m - 1 /\ k <= Len(p)
        BY <2>3, <3>1, <3>3
      <4>2. R[k] = p[k]
        BY <2>6, <3>2, <4>1
      <4>3. p[5 * (q - 1) + r] = s[q][r]
        BY <2>3, <4>1
      <4> QED
        BY <3>1, <4>2, <4>3
    <3>4. CASE q = m
      <4>1. ~(k <= Len(p)) /\ k - Len(p) = r
        BY <2>3, <3>1, <3>4
      <4>2. R[k] = t[r]
        BY <2>6, <3>2, <4>1
      <4> QED
        BY <2>4, <3>1, <3>4, <4>2
    <3> QED
      BY <3>3, <3>4
  <2>9. R \in Has(m)
    BY <2>6, <2>7, <2>8
  <2> HIDE DEF Has
  <2> QED
    BY <1>4, <2>1, <2>4, <2>5, <2>9
<1>7. FlattenSeq(s) \in K[i]
  BY <1>3, <1>5, <1>6, FlattenStays
<1>8. P \in Has(i)
  <2>1. i \in 0..i
    OBVIOUS
  <2> HIDE DEF Has
  <2> QED
    BY <1>1, <1>4, <1>7, <2>1
<1>9. \A q \in 1..i : s[q] = SortBody(v, i - q)
  BY <1>2
<1> QED
  BY <1>8, <1>9 DEF Inserted

\* The comparison function may detach the buffer: the buffer is looked at again
\* before elements are swapped, and before the next ones are read.
LEMMA Inserts ==
    ASSUME NEW e, NEW t, NEW v, Can(e, t, v), NEW i \in Nat, i < Shown(e, t, v).length, NEW H,
           H = Knows(t, {Shown(e, t, v).buf})
    PROVE  Safe(e, H, Insertion(v, i), H)
<1>0. PICK w, b, K, P : w = Shown(e, t, v) /\ b = w.buf /\ K = Knows(t, {}) /\ P = Insertion(v, i)
  OBVIOUS
<1> DEFINE Scripted(k) == \E q \in 1..i : k \in {5 * q - 3, 5 * q - 2}
           A == [k \in 1..5 * i + 1 |-> IF Scripted(k) THEN K ELSE H]
<1>1. w.length \in Nat /\ v \in 1..3 /\ b \in Buffers /\ i < w.length
  BY <1>0 DEF Can, SomeViews
<1>2. H \in SUBSET Situations /\ K \in SUBSET Situations /\ H \subseteq K
  <2>1. {} \subseteq {b}
    OBVIOUS
  <2>2. H \in SUBSET Situations
    BY KnowsIs
  <2> QED
    BY <1>0, <2>1, <2>2, Forgets
<1>3. P \in Seq(Instrs) /\ Len(P) = 5 * i /\ \A q \in 1..i : \A r \in 1..5 : P[5 * (q - 1) + r] = SortBody(v, i - q)[r]
  <2>1. Inserted(P, v, i)
    BY <1>0, <1>1, InsertionIs
  <2> HIDE DEF A, Scripted
  <2> QED
    BY <2>1 DEF Inserted
<1>4. A \in [1..5 * i + 1 -> SUBSET Situations] /\ \A k \in 1..5 * i + 1 : A[k] = IF Scripted(k) THEN K ELSE H
  BY <1>2
<1>5. \A q \in 1..i : /\ A[5 * (q - 1) + 1] = H /\ A[5 * (q - 1) + 2] = K /\ A[5 * (q - 1) + 3] = K
                      /\ A[5 * (q - 1) + 4] = H /\ A[5 * (q - 1) + 5] = H /\ A[5 * q + 1] = H
  <2> TAKE q \in 1..i
  <2>1. /\ 5 * (q - 1) + 1 \in 1..5 * i + 1 /\ 5 * (q - 1) + 2 \in 1..5 * i + 1 /\ 5 * (q - 1) + 3 \in 1..5 * i + 1
        /\ 5 * (q - 1) + 4 \in 1..5 * i + 1 /\ 5 * (q - 1) + 5 \in 1..5 * i + 1 /\ 5 * q + 1 \in 1..5 * i + 1
    OBVIOUS
  <2>2. Scripted(5 * (q - 1) + 2) /\ Scripted(5 * (q - 1) + 3)
    <3>1. 5 * (q - 1) + 2 = 5 * q - 3 /\ 5 * (q - 1) + 3 = 5 * q - 2
      OBVIOUS
    <3> QED
      BY <3>1
  <2>3. \A p \in 1..i : \A r \in {1, 4, 5, 6} : 5 * (q - 1) + r # 5 * p - 3 /\ 5 * (q - 1) + r # 5 * p - 2
    OBVIOUS
  <2>4. ~Scripted(5 * (q - 1) + 1) /\ ~Scripted(5 * (q - 1) + 4) /\ ~Scripted(5 * (q - 1) + 5) /\ ~Scripted(5 * (q - 1) + 6)
    BY <2>3
  <2>5. 5 * (q - 1) + 6 = 5 * q + 1
    OBVIOUS
  <2> HIDE DEF Scripted, A
  <2> QED
    BY <1>4, <2>1, <2>2, <2>4, <2>5
<1>6. A[1] = H /\ A[5 * i + 1] = H
  <2>1. \A p \in 1..i : 1 # 5 * p - 3 /\ 1 # 5 * p - 2 /\ 5 * i + 1 # 5 * p - 3 /\ 5 * i + 1 # 5 * p - 2
    OBVIOUS
  <2>2. ~Scripted(1) /\ ~Scripted(5 * i + 1)
    BY <2>1
  <2>3. 1 \in 1..5 * i + 1 /\ 5 * i + 1 \in 1..5 * i + 1
    OBVIOUS
  <2> HIDE DEF Scripted, A
  <2> QED
    BY <1>4, <2>2, <2>3
<1> HIDE DEF A, Scripted
<1>7. \A s \in K : s \in Situations /\ s.live \subseteq Buffers /\ s.third = t /\ Seen(e, s, v) = w
  BY <1>0, KnowsIs
<1>8. \A s \in H : s \in K /\ b \in s.live
  BY <1>0, <1>2 DEF Knows
<1>9. \A s \in K : b \in s.live => s \in H
  BY <1>0 DEF Knows
<1>10. \A s \in K : \A x : [s EXCEPT !.live = @ \ {x}] \in K
  BY <1>0 DEF Knows, Situations
<1>11. ASSUME NEW k \in 1..5 * i, NEW s \in A[k]
       PROVE  /\ Fine(e, P[k], s)
              /\ \A n \in Int : \A u : Leads(e, P[k], s, n, u) => k + n + 1 \in 1..5 * i + 1 /\ u \in A[k + n + 1]
  <2>1. PICK q \in 1..i, r \in 1..5 : k = 5 * (q - 1) + r
    <3>1. (k - 1) \div 5 + 1 \in 1..i /\ ((k - 1) % 5) + 1 \in 1..5 /\ k = 5 * (((k - 1) \div 5 + 1) - 1) + (((k - 1) % 5) + 1)
      OBVIOUS
    <3> QED
      BY <3>1
  <2>2. PICK j \in Nat : j = i - q
    OBVIOUS
  <2>B. PICK B : B = SortBody(v, j)
    OBVIOUS
  <2>3. Compares(B, v, j)
    BY <1>1, <2>2, <2>B, SortBodyIs
  <2>4. P[k] = B[r]
    BY <1>3, <2>1, <2>2, <2>B
  <2>5. j + 2 <= w.length
    BY <1>1, <2>2
  <2>6. /\ A[5 * (q - 1) + 1] = H /\ A[5 * (q - 1) + 2] = K /\ A[5 * (q - 1) + 3] = K
        /\ A[5 * (q - 1) + 4] = H /\ A[5 * (q - 1) + 5] = H /\ A[5 * q + 1] = H
    BY <1>5
  <2>7. CASE r = 1
    <3>1. s \in H
      BY <2>1, <2>6, <2>7
    <3>2. B[1].op = "touch" /\ B[1].v = v /\ B[1].i = j /\ B[1].n = 2
      BY <2>3 DEF Compares
    <3>3. Fine(e, B[1], s)
      <4>1. Inside(w, j, 2)
        BY <2>5 DEF Inside
      <4> QED
        BY <1>0, <1>1, <1>7, <1>8, <3>1, <3>2, <4>1 DEF Fine, Reaches, Writes
    <3>4. \A n \in Int : \A u : Leads(e, B[1], s, n, u) => n = 0 /\ u = s
      BY <3>2 DEF Leads, Writes
    <3>5. k + 0 + 1 \in 1..5 * i + 1 /\ s \in A[k + 0 + 1]
      <4>1. k + 0 + 1 = 5 * (q - 1) + 2 /\ k + 0 + 1 \in 1..5 * i + 1
        BY <2>1, <2>7
      <4> QED
        BY <1>8, <2>6, <3>1, <4>1
    <3> QED
      BY <2>4, <2>7, <3>3, <3>4, <3>5
  <2>8. CASE r = 2
    <3>1. s \in K
      BY <2>1, <2>6, <2>8
    <3>2. B[2].op = "script"
      BY <2>3 DEF Compares
    <3>3. Fine(e, B[2], s)
      BY <3>2 DEF Fine, Writes
    <3>4. ASSUME NEW n \in Int, NEW u, Leads(e, B[2], s, n, u) PROVE k + n + 1 \in 1..5 * i + 1 /\ u \in A[k + n + 1]
      <4>1. (n = 0 /\ u = s) \/ (n = -1 /\ \E x : u = [s EXCEPT !.live = @ \ {x}])
        BY <3>2, <3>4 DEF Leads, Writes
      <4>2. u \in K
        BY <1>10, <3>1, <4>1
      <4>3. (n = 0 => k + n + 1 = 5 * (q - 1) + 3) /\ (n = -1 => k + n + 1 = 5 * (q - 1) + 2) /\ k + n + 1 \in 1..5 * i + 1
        BY <2>1, <2>8, <4>1
      <4> QED
        BY <2>6, <4>1, <4>2, <4>3
    <3> QED
      BY <2>4, <2>8, <3>3, <3>4
  <2>9. CASE r = 3
    <3>1. s \in K
      BY <2>1, <2>6, <2>9
    <3>2. B[3].op = "leave" /\ B[3].v = v
      BY <2>3 DEF Compares
    <3>3. Fine(e, B[3], s)
      BY <1>0, <1>1, <1>7, <3>1, <3>2 DEF Fine, Writes
    <3>4. \A n \in Int : \A u : Leads(e, B[3], s, n, u) => n = 0 /\ u = s /\ Seen(e, s, v).buf \in s.live
      BY <3>2 DEF Leads, Writes
    <3>5. \A n \in Int : \A u : Leads(e, B[3], s, n, u) => n = 0 /\ u = s /\ s \in H
      <4>1. Seen(e, s, v).buf = b
        BY <1>0, <1>7, <3>1
      <4>2. b \in s.live => s \in H
        BY <1>9, <3>1
      <4> QED
        BY ONLY <3>4, <4>1, <4>2
    <3>6. k + 0 + 1 = 5 * (q - 1) + 4 /\ k + 0 + 1 \in 1..5 * i + 1
      BY <2>1, <2>9
    <3> QED
      BY <2>4, <2>6, <2>9, <3>3, <3>5, <3>6
  <2>10. CASE r = 4
    <3>1. s \in H
      BY <2>1, <2>6, <2>10
    <3>2. B[4].op = "skip" /\ B[4].n = 1 + 5 * j
      BY <2>3 DEF Compares
    <3>3. Fine(e, B[4], s)
      <4>1. B[4].n \in Nat
        BY <3>2
      <4> QED
        BY <3>2, <4>1 DEF Fine, Writes
    <3>4. \A n \in Int : \A u : Leads(e, B[4], s, n, u) => n \in {0, 1 + 5 * j} /\ u = s
      BY <3>2 DEF Leads, Writes
    <3>5. ASSUME NEW n \in Int, n \in {0, 1 + 5 * j} PROVE k + n + 1 \in 1..5 * i + 1 /\ s \in A[k + n + 1]
      <4>1. CASE n = 0
        <5>1. k + n + 1 = 5 * (q - 1) + 5 /\ k + n + 1 \in 1..5 * i + 1
          BY <2>1, <2>10, <4>1
        <5> QED
          BY <2>6, <3>1, <5>1
      <4>2. CASE n = 1 + 5 * j
        <5>1. k + n + 1 = 5 * i + 1 /\ k + n + 1 \in 1..5 * i + 1
          BY <2>1, <2>2, <2>10, <4>2
        <5> QED
          BY <1>6, <3>1, <5>1
      <4> QED
        BY <3>5, <4>1, <4>2
    <3> QED
      BY <2>4, <2>10, <3>3, <3>4, <3>5
  <2>11. CASE r = 5
    <3>1. s \in H
      BY <2>1, <2>6, <2>11
    <3>2. B[5].op = "swap" /\ B[5].v = v /\ B[5].i = j /\ B[5].w = v /\ B[5].j = j + 1 /\ B[5].n = 1
      BY <2>3 DEF Compares
    <3>3. Fine(e, B[5], s)
      <4>1. Inside(w, j, 1) /\ Inside(w, j + 1, 1)
        BY <1>1, <2>5 DEF Inside
      <4> QED
        BY <1>1, <1>7, <1>8, <1>0, <3>1, <3>2, <4>1 DEF Fine, Reaches, Writes
    <3>4. \A n \in Int : \A u : Leads(e, B[5], s, n, u) => n = 0 /\ u = s
      BY <3>2 DEF Leads, Writes
    <3>5. k + 0 + 1 = 5 * q + 1 /\ k + 0 + 1 \in 1..5 * i + 1
      BY <2>1, <2>11
    <3> QED
      BY <2>4, <2>6, <2>11, <3>1, <3>3, <3>4, <3>5
  <2> QED
    BY <2>7, <2>8, <2>9, <2>10, <2>11
<1>12. Labels(e, P, A)
  BY <1>3, <1>4, <1>11 DEF Labels
<1>13. Safe(e, H, P, H)
  BY <1>2, <1>3, <1>6, <1>12 DEF Safe
<1> QED
  BY <1>0, <1>13

LEMMA Sorts ==
    ASSUME NEW e, NEW t, NEW v, Can(e, t, v), NEW n, n = Shown(e, t, v).length
    PROVE  Safe(e, Knows(t, {}), typedArrayProto_sort(v, n), Situations)
<1>0. PICK K, H, b : b = Shown(e, t, v).buf /\ K = Knows(t, {}) /\ H = Knows(t, {b})
  OBVIOUS
<1>1. Safe(e, K, Check(v), H) /\ H \in SUBSET Situations
  <2>1. H \in SUBSET Situations
    BY <1>0, KnowsIs
  <2>2. Safe(e, K, Check(v), H)
    BY <1>0, Steady
  <2> QED
    BY <2>1, <2>2
<1>2. n \in Nat
  BY DEF Can, SomeViews
<1>3. PICK ks \in Seq(Int) : ks = Upwards(1, n) /\ Len(ks) \in Nat /\ \A m \in 1..Len(ks) : ks[m] \in 1..n - 1
  <2>1. 1 \in Int /\ n \in Int
    BY <1>2
  <2>2. Upwards(1, n) \in Seq(Int) /\ \A m \in 1..Len(Upwards(1, n)) : Upwards(1, n)[m] \in 1..n - 1
    BY <2>1, UpwardsIs
  <2>3. \A ks \in Seq(Int) : Len(ks) \in Nat
    OBVIOUS
  <2> QED
    BY <2>2, <2>3
<1> DEFINE s == [m \in 1..Len(ks) |-> Insertion(v, ks[m])]
<1>4. ASSUME NEW m \in 1..Len(ks) PROVE Safe(e, H, s[m], H)
  <2>1. PICK i \in Nat : i = ks[m] /\ i < Shown(e, t, v).length
    BY <1>2, <1>3
  <2>2. Safe(e, H, Insertion(v, i), H)
    BY <1>0, <2>1, Inserts
  <2> QED
    BY <2>1, <2>2
<1>5. s = [m \in 1..Len(ks) |-> s[m]]
  OBVIOUS
<1>6. typedArrayProto_sort(v, n) = Check(v) \o FlattenSeq(s)
  BY <1>3 DEF typedArrayProto_sort, Each, Insertion
<1> HIDE DEF s
<1>7. Safe(e, H, FlattenSeq(s), H)
  BY <1>1, <1>3, <1>4, <1>5, Loop
<1>8. Safe(e, K, typedArrayProto_sort(v, n), H)
  BY <1>1, <1>6, <1>7, Join
<1>9. {} \subseteq {b}
  OBVIOUS
<1> QED
  BY <1>0, <1>8, <1>9, Weaker

LEMMA ToSorted ==
    ASSUME NEW e, NEW t, Can(e, t, 1), view[1] = Shown(e, t, 1), NEW n, n = view[1].length
    PROVE  Safe(e, Knows(t, {}), typedArrayProto_toSorted(n), Situations)
<1>0. PICK K, w, b, N : K = Knows(t, {}) /\ w = view[1] /\ b = w.buf /\ N = View(3, w.type, 0, n)
  OBVIOUS
<1>1. n \in Nat /\ w.type \in Types /\ n = w.length /\ w = Shown(e, t, 1)
  BY <1>0 DEF Can, SomeViews
<1>2. Safe(e, K, Check(1), Knows(t, {b}))
  BY <1>0, Steady
<1>3. PICK u : u \in Types /\ u = w.type /\ N = View(3, u, 0, n) /\ n \in Nat
  BY <1>0, <1>1
<1>4. /\ N \in SomeViews /\ N.buf = 3 /\ N.length = n /\ Shown(e, N, 1) = w /\ Can(e, N, 3) /\ Shown(e, N, 3) = N
      /\ Safe(e, Knows(t, {b}), Make(N, TRUE), Knows(N, {b} \union {3}))
  <2>1. N \in SomeViews /\ N.buf = 3 /\ N.length = n /\ Shown(e, N, 1) = Shown(e, t, 1)
    BY ONLY <1>3, FreshIs
  <2>2. Can(e, N, 3) /\ Shown(e, N, 3) = N
    BY ONLY <1>3, FreshIs
  <2>3. Safe(e, Knows(t, {b}), Make(N, TRUE), Knows(N, {b} \union {3}))
    BY ONLY <2>1, Fresh
  <2> QED
    BY <1>1, <2>1, <2>2, <2>3
<1>5. PICK G : G = Knows(N, {b} \union {3})
  OBVIOUS
<1>6. Safe(e, G, Copy(3, 0, 1, 0, n), Knows(N, {}))
  <2>1. /\ Inside(Shown(e, N, 3), 0, n) /\ Inside(Shown(e, N, 1), 0, n) /\ {} \subseteq {b} \union {3}
        /\ Shown(e, N, 3).buf \in {b} \union {3} /\ Shown(e, N, 1).buf \in {b} \union {3}
    BY <1>0, <1>1, <1>4 DEF Inside
  <2>2. 1 \in 1..3 /\ 3 \in 1..3 /\ 0 \in Int /\ n \in Int
    BY <1>1
  <2>3. Safe(e, G, Copy(3, 0, 1, 0, n), G)
    BY ONLY <1>5, <2>1, <2>2, Moves
  <2> QED
    BY <1>5, <2>1, <2>3, Weaker
<1>7. Safe(e, Knows(N, {}), typedArrayProto_sort(3, n), Situations)
  BY <1>4, Sorts
<1>8. Safe(e, K, Check(1) \o Make(N, TRUE) \o Copy(3, 0, 1, 0, n), Knows(N, {}))
  BY <1>2, <1>4, <1>5, <1>6, Chain
<1>9. Safe(e, K, Check(1) \o Make(N, TRUE) \o Copy(3, 0, 1, 0, n) \o typedArrayProto_sort(3, n), Situations)
  BY <1>7, <1>8, Join
<1>10. typedArrayProto_toSorted(n) = Check(1) \o Make(N, TRUE) \o Copy(3, 0, 1, 0, n) \o typedArrayProto_sort(3, n)
  BY <1>0 DEF typedArrayProto_toSorted
<1> QED
  BY <1>0, <1>9, <1>10

\* new T(view[2]).
LEMMA FromTyped ==
    ASSUME NEW e \in Contexts, NEW t, NEW type \in Types, view[2] = e.second
    PROVE  Safe(e, Knows(t, {}), _newTypedArrayFromTypedArray(type), Situations)
<1>0. PICK K, S, b, l, M, N : /\ K = Knows(t, {}) /\ S = view[2] /\ b = S.buf /\ l = S.length
                              /\ M = View(3, type, 0, 0) /\ N = View(3, type, 0, l)
  OBVIOUS
<1>1. S \in SomeViews /\ b \in Buffers /\ l \in Nat
  BY <1>0 DEF Contexts, SomeViews, Fits, Buffers
<1>2. M \in SomeViews /\ N \in SomeViews /\ N.buf = 3 /\ N.length = l
  BY <1>0, <1>1, OwnIs
<1>3. Can(e, M, 2) /\ Shown(e, M, 2) = S /\ Can(e, N, 2) /\ Shown(e, N, 2) = S /\ Can(e, N, 3) /\ Shown(e, N, 3) = N
  BY <1>0, <1>1, <1>2 DEF Can, Shown, Buffers
<1>4. PICK J : J = Knows(M, {b})
  OBVIOUS
<1>5. PICK G : G = Knows(N, {b} \union {3})
  OBVIOUS
<1>6. Safe(e, K, allocateTypedArray(type, 0), Knows(M, {}))
  <2>1. Safe(e, K, allocateTypedArray(type, 0), Knows(M, {3})) /\ {} \subseteq {3}
    BY <1>0, Allocates
  <2> QED
    BY <2>1, Weaker
<1>7. Safe(e, Knows(M, {}), Check(2), Knows(M, {})) /\ Safe(e, Knows(M, {}), Check(2), J)
  BY <1>0, <1>3, <1>4, Steady
<1>8. Safe(e, J, Make(N, TRUE), G)
  BY <1>2, <1>4, <1>5, Fresh
<1> DEFINE Rest == IF type = S.type THEN Copy(3, 0, 2, 0, l)
                   ELSE checkTypedArrayMixBigInt({2, 3}) \o Each(Upwards(0, l), LAMBDA i : Move(3, i, 2, i))
<1>9. Safe(e, G, Rest, G)
  <2>1. CASE type = S.type
    <3>1. /\ Inside(Shown(e, N, 3), 0, l) /\ Inside(Shown(e, N, 2), 0, l)
          /\ Shown(e, N, 3).buf \in {b} \union {3} /\ Shown(e, N, 2).buf \in {b} \union {3}
      BY <1>0, <1>1, <1>2, <1>3 DEF Inside
    <3>2. 2 \in 1..3 /\ 3 \in 1..3 /\ 0 \in Int /\ l \in Int
      BY <1>1
    <3>3. Safe(e, G, Copy(3, 0, 2, 0, l), G)
      BY ONLY <1>5, <3>1, <3>2, Moves
    <3> QED
      BY <2>1, <3>3
  <2>2. CASE type # S.type
    <3>1. PICK ks \in Seq(Int) : ks = Upwards(0, l) /\ Len(ks) \in Nat /\ \A m \in 1..Len(ks) : ks[m] \in 0..l - 1
      <4>1. 0 \in Int /\ l \in Int
        BY <1>1
      <4>2. Upwards(0, l) \in Seq(Int) /\ \A m \in 1..Len(Upwards(0, l)) : Upwards(0, l)[m] \in 0..l - 1
        BY <4>1, UpwardsIs
      <4>3. \A ks \in Seq(Int) : Len(ks) \in Nat
        OBVIOUS
      <4> QED
        BY <4>2, <4>3
    <3> DEFINE s == [m \in 1..Len(ks) |-> Move(3, ks[m], 2, ks[m])]
    <3>2. Rest = checkTypedArrayMixBigInt({2, 3}) \o FlattenSeq(s)
      BY <2>2, <3>1 DEF Each
    <3>3. ASSUME NEW m \in 1..Len(ks)
          PROVE  \E i, j \in Int : s[m] = Move(3, i, 2, j) /\ Inside(N, i, 1) /\ Inside(Shown(e, N, 2), j, 1)
      <4>1. PICK i \in Int : i = ks[m] /\ i \in 0..l - 1
        BY <3>1
      <4>2. Inside(N, i, 1) /\ Inside(S, i, 1)
        BY <1>0, <1>1, <1>2, <4>1 DEF Inside
      <4>3. s[m] = Move(3, i, 2, i)
        BY <4>1
      <4> HIDE DEF s
      <4> QED
        BY <1>3, <4>2, <4>3
    <3>4. s = [m \in 1..Len(ks) |-> s[m]]
      OBVIOUS
    <3> HIDE DEF s, Rest
    <3>5. 2 \in {1, 2} /\ N.buf \in {b} \union {3} /\ Shown(e, N, 2).buf \in {b} \union {3}
      BY <1>0, <1>2, <1>3
    <3>6. Safe(e, Knows(N, {b} \union {3}), FlattenSeq(s), Knows(N, {b} \union {3}))
      BY <1>3, <3>1, <3>3, <3>4, <3>5, MovesAll
    <3>7. Safe(e, G, checkTypedArrayMixBigInt({2, 3}), G)
      <4>1. \A x \in {b} \union {3} : \E u \in {2, 3} : Shown(e, N, u).buf = x
        BY <1>0, <1>2, <1>3
      <4>2. {2, 3} \in SUBSET (1..3) /\ {b} \union {3} \subseteq {b} \union {3}
        OBVIOUS
      <4>3. Safe(e, Knows(N, {b} \union {3}), ScriptSparing({2, 3}), Knows(N, {b} \union {3}))
        BY <4>1, <4>2, Scripts
      <4> QED
        BY <1>5, <4>3 DEF checkTypedArrayMixBigInt
    <3>8. Safe(e, G, FlattenSeq(s), G)
      BY <1>5, <3>6
    <3> QED
      BY <3>2, <3>7, <3>8, Join
  <2> QED
    BY <2>1, <2>2
<1>10. _newTypedArrayFromTypedArray(type) = allocateTypedArray(type, 0) \o Check(2) \o Check(2) \o Make(N, TRUE) \o Rest
  BY <1>0 DEF _newTypedArrayFromTypedArray
<1> HIDE DEF Rest
<1>11. Safe(e, K, allocateTypedArray(type, 0) \o Check(2) \o Check(2), J)
  BY <1>6, <1>7, Chain
<1>12. Safe(e, K, allocateTypedArray(type, 0) \o Check(2) \o Check(2) \o Make(N, TRUE) \o Rest, G)
  BY <1>8, <1>9, <1>11, Chain
<1>13. {} \subseteq {b} \union {3}
  OBVIOUS
<1> QED
  BY <1>0, <1>5, <1>10, <1>12, <1>13, Weaker

\* new T(array-like): no script reaches the new array.
LEMMA FromArray ==
    ASSUME NEW e, ~e.open, NEW t, NEW type \in Types, NEW n \in Nat
    PROVE  Safe(e, Knows(t, {}), typedArrayFrom(type, n), Situations)
<1>0. PICK K, N, H : K = Knows(t, {}) /\ N = View(3, type, 0, n) /\ H = Knows(N, {3})
  OBVIOUS
<1>1. Safe(e, K, Script, K)
  BY <1>0, Steady
<1>2. Safe(e, K, allocateTypedArray(type, n), H)
  BY <1>0, Allocates
<1>3. N \in SomeViews /\ N.buf = 3 /\ N.length = n /\ Shown(e, N, 3) = N /\ 3 \in 1..3 /\ H \in SUBSET Situations
  <2>1. H \in SUBSET Situations
    BY <1>0, KnowsIs
  <2> QED
    BY <1>0, <2>1, OwnIs DEF Shown
<1>4. Safe(e, H, Script, H)
  <2>1. {3} \subseteq {3} /\ \A b \in {3} : b = 3 /\ ~e.open
    OBVIOUS
  <2> QED
    BY <1>0, <2>1, ScriptsAny
<1>5. PICK ks \in Seq(Int) : ks = Upwards(0, n) /\ Len(ks) \in Nat /\ \A m \in 1..Len(ks) : ks[m] \in 0..n - 1
  <2>1. 0 \in Int /\ n \in Int
    OBVIOUS
  <2>2. Upwards(0, n) \in Seq(Int) /\ \A m \in 1..Len(Upwards(0, n)) : Upwards(0, n)[m] \in 0..n - 1
    BY <2>1, UpwardsIs
  <2>3. \A ks \in Seq(Int) : Len(ks) \in Nat
    OBVIOUS
  <2> QED
    BY <2>2, <2>3
<1> DEFINE s == [m \in 1..Len(ks) |-> Script \o Touch(3, ks[m], 1)]
<1>6. ASSUME NEW m \in 1..Len(ks) PROVE Safe(e, H, s[m], H)
  <2>1. PICK i \in Int : i = ks[m] /\ i \in 0..n - 1
    BY <1>5
  <2>2. Inside(N, i, 1) /\ 3 \in {3} /\ 1 \in Int
    BY <1>3, <2>1 DEF Inside
  <2>3. Safe(e, H, Touch(3, i, 1), H)
    BY <1>0, <1>3, <2>1, <2>2, Touches
  <2>4. Safe(e, H, Script \o Touch(3, i, 1), H)
    BY <1>4, <2>3, Join
  <2> QED
    BY <2>1, <2>4
<1>7. s = [m \in 1..Len(ks) |-> s[m]]
  OBVIOUS
<1>8. typedArrayFrom(type, n) = Script \o allocateTypedArray(type, n) \o FlattenSeq(s)
  BY <1>5 DEF typedArrayFrom, Each
<1> HIDE DEF s
<1>9. Safe(e, H, FlattenSeq(s), H)
  BY <1>3, <1>5, <1>6, <1>7, Loop
<1>10. Safe(e, K, typedArrayFrom(type, n), H)
  BY <1>1, <1>2, <1>8, <1>9, Chain
<1>11. {} \subseteq {3}
  OBVIOUS
<1> QED
  BY <1>0, <1>10, <1>11, Weaker

-----------------------------------------------------------------------------
(* slice                                                                   *)

\* Elements copied into the array that was made, if it is long enough.
LEMMA SliceBodies ==
    ASSUME NEW e \in Contexts, NEW c, MayMake(c.ctor), view[1] = e.first, NEW w, w = view[1],
           NEW start \in Nat, NEW count \in Nat, start + count <= w.length
    PROVE  Safe(e, Outcome(c, w.type, count), slice(c, w.length, start, count), Situations)
<1>0. PICK D, b, X, H, G : /\ D = Created(c, w.type, count) /\ b = w.buf /\ X = Outcome(c, w.type, count)
                           /\ H = Knows(D, {D.buf}) /\ G = Knows(D, {D.buf} \union {b})
  OBVIOUS
<1>1. w \in SomeViews /\ w.type \in Types /\ b \in Buffers /\ w.length \in Nat
  BY <1>0 DEF Contexts, SomeViews, Fits, Buffers
<1>2. D \in SomeViews /\ D.buf \in Buffers /\ Can(e, D, 3) /\ Shown(e, D, 3) = D
  BY <1>0, <1>1, CreatedIs
<1>3. Shown(e, D, 1) = w /\ D.length \in Nat
  BY <1>2 DEF Shown, SomeViews
<1>4. X = IF D.length >= count THEN H ELSE {}
  BY <1>0 DEF Outcome
<1>5. H \in SUBSET Situations /\ G \in SUBSET Situations /\ X \in SUBSET Situations /\ G \subseteq H
  <2>1. H \in SUBSET Situations /\ G \in SUBSET Situations
    BY <1>0, KnowsIs
  <2>2. G \subseteq H
    <3>1. {D.buf} \subseteq {D.buf} \union {b}
      OBVIOUS
    <3> QED
      BY <1>0, <3>1, Forgets
  <2> QED
    BY <1>4, <2>1, <2>2
<1>6. 1 \in 1..3 /\ 3 \in 1..3 /\ 0 \in Int /\ 1 \in Int /\ start \in Int /\ count \in Int
  OBVIOUS
<1>7. Safe(e, H, Check(1), G)
  BY <1>0, <1>1, <1>3, <1>6, Checks
<1>8. ASSUME NEW P \in Seq(Instrs), D.length >= count => Safe(e, G, P, G)
      PROVE  Safe(e, X, Check(1) \o P, X)
  <2>1. Check(1) \o P \in Seq(Instrs)
    <3>1. Check(1) \in Seq(Instrs)
      BY <1>7 DEF Safe
    <3> QED
      BY <3>1
  <2>2. CASE D.length >= count
    <3>1. Safe(e, H, Check(1) \o P, G)
      BY <1>7, <1>8, <2>2, Join
    <3>2. H \subseteq H
      OBVIOUS
    <3>3. Safe(e, H, Check(1) \o P, H)
      BY <1>5, <3>1, <3>2, Wider
    <3> QED
      BY <1>4, <2>2, <3>3
  <2>3. CASE ~(D.length >= count)
    <3>1. X = {}
      BY <1>4, <2>3
    <3> QED
      BY <1>5, <2>1, <3>1, Dead
  <2> QED
    BY <2>2, <2>3
<1>9. ASSUME NEW i \in Int, NEW j \in Int, NEW m \in Int, m > 0,
             D.length >= count => Inside(D, i, m) /\ Inside(w, j, m)
      PROVE  /\ Safe(e, X, Check(1) \o Copy(3, i, 1, j, m), X)
             /\ Safe(e, X, Check(1) \o Creep(3, i, 1, j, m), X)
             /\ m = 1 => Safe(e, X, Check(1) \o Move(3, i, 1, j), X)
  <2>1. Copy(3, i, 1, j, m) \in Seq(Instrs) /\ Creep(3, i, 1, j, m) \in Seq(Instrs) /\ Move(3, i, 1, j) \in Seq(Instrs)
    BY <1>6, AtomsAre
  <2>2. D.buf \in {D.buf} \union {b} /\ b \in {D.buf} \union {b}
    OBVIOUS
  <2>3. D.length >= count => /\ Safe(e, G, Copy(3, i, 1, j, m), G) /\ Safe(e, G, Creep(3, i, 1, j, m), G)
                             /\ (m = 1 => Safe(e, G, Move(3, i, 1, j), G))
    <3>1. SUFFICES ASSUME D.length >= count
                   PROVE  /\ Safe(e, G, Copy(3, i, 1, j, m), G) /\ Safe(e, G, Creep(3, i, 1, j, m), G)
                          /\ (m = 1 => Safe(e, G, Move(3, i, 1, j), G))
      OBVIOUS
    <3>2. Inside(D, i, m) /\ Inside(w, j, m)
      BY <1>9, <3>1
    <3>3. /\ Inside(Shown(e, D, 3), i, m) /\ Inside(Shown(e, D, 1), j, m)
          /\ Shown(e, D, 3).buf \in {D.buf} \union {b} /\ Shown(e, D, 1).buf \in {D.buf} \union {b}
      BY <1>0, <1>2, <1>3, <2>2, <3>2
    <3>4. i \in Int /\ j \in Int /\ m \in Int /\ m > 0
      BY <1>9
    <3>5. Safe(e, G, Copy(3, i, 1, j, m), G)
      BY ONLY <1>0, <1>6, <3>3, <3>4, Moves
    <3>6. Safe(e, G, Creep(3, i, 1, j, m), G)
      BY ONLY <1>0, <1>6, <3>3, <3>4, Moves
    <3>7. m = 1 => Safe(e, G, Move(3, i, 1, j), G)
      BY ONLY <1>0, <1>6, <3>3, <3>4, Moves
    <3> QED
      BY <3>5, <3>6, <3>7
  <2> QED
    BY <1>8, <2>1, <2>3
<1>9a. ASSUME NEW i \in Int, NEW j \in Int, D.length >= count => Inside(D, i, 1) /\ Inside(w, j, 1)
       PROVE  Safe(e, X, Check(1) \o Move(3, i, 1, j), X)
  <2>1. PICK m \in Int : m = 1
    OBVIOUS
  <2>2. m > 0
    BY <2>1
  <2>3. D.length >= count => Inside(D, i, m) /\ Inside(w, j, m)
    BY <1>9a, <2>1
  <2>4. m = 1 => Safe(e, X, Check(1) \o Move(3, i, 1, j), X)
    BY <1>9, <2>2, <2>3
  <2> QED
    BY <2>1, <2>4
<1>10. Safe(e, X, <<>>, X)
  BY <1>5, Nothing
<1>11. Safe(e, X, slice(c, w.length, start, count), X)
  <2>1. CASE D.type = w.type
    <3> DEFINE p == Address(D, 0) <= Address(w, start) \/ Address(D, 0) >= Address(w, start) + count * Size(D.type)
    <3>1. slice(c, w.length, start, count) =
            IF count = 0 THEN <<>> ELSE Check(1) \o (IF p THEN Copy(3, 0, 1, start, count) ELSE Creep(3, 0, 1, start, count))
      BY <1>0, <2>1 DEF slice
    <3> HIDE DEF p
    <3>2. CASE count = 0
      BY <1>10, <3>1, <3>2
    <3>3. CASE count # 0
      <4>1. count > 0
        BY <3>3
      <4>2. D.length >= count => Inside(D, 0, count) /\ Inside(w, start, count)
        BY <1>1, <1>3 DEF Inside
      <4>3. Safe(e, X, Check(1) \o Copy(3, 0, 1, start, count), X) /\ Safe(e, X, Check(1) \o Creep(3, 0, 1, start, count), X)
        BY <1>6, <1>9, <4>1, <4>2
      <4>4. slice(c, w.length, start, count) = Check(1) \o (IF p THEN Copy(3, 0, 1, start, count) ELSE Creep(3, 0, 1, start, count))
        BY <3>1, <3>3
      <4> QED
        BY <4>3, <4>4
    <3> QED
      BY <3>2, <3>3
  <2>2. CASE D.type # w.type
    <3>1. PICK ks \in Seq(Int) : ks = Upwards(0, count) /\ Len(ks) \in Nat /\ \A m \in 1..Len(ks) : ks[m] \in 0..count - 1
      <4>1. Upwards(0, count) \in Seq(Int) /\ \A m \in 1..Len(Upwards(0, count)) : Upwards(0, count)[m] \in 0..count - 1
        BY <1>6, UpwardsIs
      <4>2. \A ks \in Seq(Int) : Len(ks) \in Nat
        OBVIOUS
      <4> QED
        BY <4>1, <4>2
    <3> DEFINE s == [m \in 1..Len(ks) |-> Check(1) \o Move(3, ks[m], 1, start + ks[m])]
    <3>2. slice(c, w.length, start, count) = FlattenSeq(s)
      BY <1>0, <2>2, <3>1 DEF slice, Each
    <3>3. ASSUME NEW m \in 1..Len(ks) PROVE Safe(e, X, s[m], X)
      <4>1. PICK i \in Int : i = ks[m] /\ i \in 0..count - 1
        BY <3>1
      <4>2. PICK j \in Int : j = start + i
        OBVIOUS
      <4>3. s[m] = Check(1) \o Move(3, i, 1, j)
        BY <4>1, <4>2
      <4> HIDE DEF s
      <4>4. D.length >= count => Inside(D, i, 1) /\ Inside(w, j, 1)
        <5>1. PICK l \in Nat, k \in Nat : l = D.length /\ k = w.length /\ start + count <= k
          BY <1>1, <1>3
        <5>2. 0 <= i /\ i + 1 <= count
          BY ONLY <4>1, count \in Nat, i \in Int
        <5>3. l >= count => i + 1 <= l
          BY ONLY <5>2, count \in Nat, i \in Int, l \in Nat
        <5>4. 0 <= j /\ j + 1 <= k
          BY ONLY <4>2, <5>1, <5>2, count \in Nat, start \in Nat, i \in Int, j \in Int, k \in Nat
        <5> QED
          BY ONLY <5>1, <5>2, <5>3, <5>4 DEF Inside
      <4>5. Safe(e, X, Check(1) \o Move(3, i, 1, j), X)
        BY <1>9a, <4>4
      <4> QED
        BY <4>3, <4>5
    <3>4. s = [m \in 1..Len(ks) |-> s[m]]
      OBVIOUS
    <3> HIDE DEF s
    <3>5. Safe(e, X, FlattenSeq(s), X)
      BY <1>5, <3>1, <3>3, <3>4, Loop
    <3> QED
      BY <3>2, <3>5
  <2> QED
    BY <2>1, <2>2
<1>12. X \subseteq X /\ X \subseteq Situations /\ Situations \in SUBSET Situations
  BY <1>5
<1>13. Safe(e, X, slice(c, w.length, start, count), Situations)
  BY <1>11, <1>12, Wider
<1> QED
  BY <1>0, <1>13

LEMMA Slices ==
    ASSUME NEW e \in Contexts, NEW t, NEW c, MayMake(c.ctor), view[1] = e.first, NEW n, n = view[1].length,
           NEW a \in Int, NEW b \in Int
    PROVE  Safe(e, Knows(t, {}), typedArrayProto_slice(c, n, a, b), Situations)
<1>0. PICK K, w, start, count : /\ K = Knows(t, {}) /\ w = view[1] /\ start = relToIdx(a, n)
                                /\ count = Greater(relToIdx(b, n) - start, 0)
  OBVIOUS
<1>1. n \in Nat /\ n = w.length /\ w \in SomeViews /\ w.type \in Types /\ Can(e, t, 1)
  BY <1>0 DEF Contexts, SomeViews, Fits, Buffers, Can, Shown
<1>2. Safe(e, K, Script, K) /\ Safe(e, K, Check(1), K)
  BY <1>0, <1>1, Steady
<1>3. start \in Nat /\ count \in Nat /\ start + count <= w.length
  <2>1. start \in 0..n /\ relToIdx(b, n) \in 0..n
    BY <1>0, <1>1, IndexIs
  <2> QED
    BY <1>0, <1>1, <2>1 DEF Greater
<1>4. Safe(e, K, typedArraySpeciesCreate(c, w.type, count), Outcome(c, w.type, count))
  BY <1>0, <1>1, <1>3, CreatesTyped
<1>5. Safe(e, Outcome(c, w.type, count), slice(c, n, start, count), Situations)
  BY <1>0, <1>1, <1>3, SliceBodies
<1>6. Safe(e, K, Check(1) \o Script \o Script, K)
  BY <1>2, Chain
<1>7. Safe(e, K, Check(1) \o Script \o Script \o typedArraySpeciesCreate(c, w.type, count) \o slice(c, n, start, count), Situations)
  BY <1>4, <1>5, <1>6, Chain
<1>8. typedArrayProto_slice(c, n, a, b) =
        Check(1) \o Script \o Script \o typedArraySpeciesCreate(c, w.type, count) \o slice(c, n, start, count)
  BY <1>0 DEF typedArrayProto_slice
<1> QED
  BY <1>0, <1>7, <1>8

\* slice of an array buffer; view[1] is the whole of it.
LEMMA BufferSlices ==
    ASSUME NEW e \in Contexts, NEW t, NEW c, MayMake(c.ctor), view[1] = e.first, NEW a \in Int, NEW b \in Int,
           BufferLen \in Nat, e.first.length = BufferLen
    PROVE  Safe(e, Knows(t, {}), arrayBufferProto_slice(c, a, b), Situations)
<1>0. PICK K, w, start, n, D : /\ K = Knows(t, {}) /\ w = view[1] /\ start = relToIdx(a, BufferLen)
                               /\ n = Greater(relToIdx(b, BufferLen) - start, 0) /\ D = Created(c, "u8", n)
  OBVIOUS
<1>1. w.length = BufferLen /\ w \in SomeViews /\ w.buf \in Buffers /\ Can(e, t, 1)
  BY <1>0 DEF Contexts, SomeViews, Fits, Buffers, Can, Shown
<1>2. Safe(e, K, Script, K) /\ Safe(e, K, Check(1), K) /\ K \in SUBSET Situations
  BY <1>0, <1>1, Steady
<1>3. start \in Nat /\ n \in Nat /\ start + n <= w.length
  <2>1. start \in 0..BufferLen /\ relToIdx(b, BufferLen) \in 0..BufferLen
    BY <1>0, IndexIs
  <2> QED
    BY <1>0, <1>1, <2>1 DEF Greater
<1>4. D \in SomeViews /\ D.buf \in Buffers /\ (c.ctor = NoView => D.length = n) /\ (D.buf # 3 => Fits(D)) /\ Can(e, D, 3)
      /\ Shown(e, D, 3) = D /\ D.length \in Nat
  <2>1. "u8" \in Types
    BY DEF Types
  <2>2. D \in SomeViews /\ D.buf \in Buffers /\ (c.ctor = NoView => D.length = n) /\ (D.buf # 3 => Fits(D)) /\ Can(e, D, 3)
        /\ Shown(e, D, 3) = D
    BY <1>0, <1>3, <2>1, CreatedIs
  <2> QED
    BY <2>2 DEF SomeViews
<1>5. Shown(e, D, 1) = w /\ Can(e, D, 1)
  BY <1>0, <1>1 DEF Shown, Can
<1> DEFINE own == D.buf = 3
           p == c.ctor.buf = view[1].buf \/ (c.ctor # NoView /\ c.ctor.length < n)
<1>6. own \in BOOLEAN /\ p \in BOOLEAN /\ (~p => n <= D.length)
  <2>1. own \in BOOLEAN
    OBVIOUS
  <2>2. CASE c.ctor = NoView
    BY <1>3, <1>4, <2>2
  <2>3. CASE c.ctor # NoView
    <3>1. D = c.ctor
      BY <1>0, <2>3 DEF Created
    <3> QED
      BY <1>3, <1>4, <2>3, <3>1
  <2> QED
    BY <2>1, <2>2, <2>3
<1> HIDE DEF p
<1>7. Safe(e, K, Make(D, own), Knows(D, {}))
  <2>1. own => D.buf = 3
    OBVIOUS
  <2>2. ~own => Fits(D)
    BY <1>4
  <2> HIDE DEF own
  <2>3. Safe(e, Knows(t, {}), Make(D, own), Knows(D, IF own THEN {} \union {3} ELSE {}))
    BY <1>4, <1>6, <2>1, <2>2, Creates
  <2>4. {} \subseteq (IF own THEN {} \union {3} ELSE {})
    OBVIOUS
  <2> QED
    BY <1>0, <2>3, <2>4, Weaker
<1> HIDE DEF own
<1>8. PICK J, G : J = Knows(D, {w.buf}) /\ G = Knows(D, {w.buf} \union {D.buf})
  OBVIOUS
<1>9. J \in SUBSET Situations /\ G \in SUBSET Situations /\ Safe(e, Knows(D, {}), Check(1), J)
  <2>1. J \in SUBSET Situations /\ G \in SUBSET Situations
    BY <1>8, KnowsIs
  <2>2. Safe(e, Knows(D, {}), Check(1), J)
    BY <1>5, <1>8, Steady
  <2> QED
    BY <2>1, <2>2
<1>10. Safe(e, J, Check(3), G)
  <2>1. 3 \in 1..3
    OBVIOUS
  <2> QED
    BY <1>4, <1>8, <2>1, Checks
<1>11. Copy(3, 0, 1, start, n) \in Seq(Instrs) /\ (n <= D.length => Safe(e, G, Copy(3, 0, 1, start, n), Situations))
  <2>1. 1 \in 1..3 /\ 3 \in 1..3 /\ 0 \in Int /\ start \in Int /\ n \in Int
    BY <1>3
  <2>2. Copy(3, 0, 1, start, n) \in Seq(Instrs)
    BY <2>1, AtomsAre
  <2>3. SUFFICES ASSUME n <= D.length PROVE Safe(e, G, Copy(3, 0, 1, start, n), Situations)
    BY <2>2
  <2>4. /\ Inside(Shown(e, D, 3), 0, n) /\ Inside(Shown(e, D, 1), start, n)
        /\ Shown(e, D, 3).buf \in {w.buf} \union {D.buf} /\ Shown(e, D, 1).buf \in {w.buf} \union {D.buf}
    BY <1>3, <1>4, <1>5, <2>3 DEF Inside
  <2>5. Safe(e, G, Copy(3, 0, 1, start, n), G)
    BY ONLY <1>8, <2>1, <2>4, Moves
  <2>6. {} \subseteq {w.buf} \union {D.buf}
    OBVIOUS
  <2> QED
    BY <1>8, <2>5, <2>6, Weaker
<1>13. Safe(e, K, Check(1) \o Script \o Script, K)
  BY <1>2, Chain
<1>14. Safe(e, K, Check(1) \o Script \o Script \o Script \o Make(D, own), Knows(D, {}))
  BY <1>2, <1>7, <1>13, Chain
<1>15. Safe(e, K, Check(1) \o Script \o Script \o Script \o Make(D, own) \o Check(1), J)
  BY <1>9, <1>14, Join
<1>16. Safe(e, K, Check(1) \o Script \o Script \o Script \o Make(D, own) \o Check(1) \o Refuse(p) \o Check(3), IF p THEN {} ELSE G)
  <2>1. Check(3) \in Seq(Instrs) /\ (IF p THEN {} ELSE G) \in SUBSET Situations
    BY <1>9, <1>10 DEF Safe
  <2>2. ~p => Safe(e, J, Check(3), IF p THEN {} ELSE G)
    BY <1>10
  <2> QED
    BY <1>6, <1>15, <2>1, <2>2, Guarded
<1>17. Safe(e, IF p THEN {} ELSE G, Copy(3, 0, 1, start, n), Situations)
  <2>1. CASE p
    <3>1. Situations \in SUBSET Situations
      OBVIOUS
    <3>2. Safe(e, {}, Copy(3, 0, 1, start, n), Situations)
      BY <1>11, <3>1, Dead
    <3> QED
      BY <2>1, <3>2
  <2>2. CASE ~p
    BY <1>6, <1>11, <2>2
  <2> QED
    BY <2>1, <2>2
<1>18. arrayBufferProto_slice(c, a, b) =
         Check(1) \o Script \o Script \o Script \o Make(D, own) \o Check(1) \o Refuse(p) \o Check(3) \o Copy(3, 0, 1, start, n)
  BY <1>0 DEF arrayBufferProto_slice, own, p
<1> QED
  BY <1>0, <1>16, <1>17, <1>18, Join

-----------------------------------------------------------------------------
(* Every method                                                            *)

\* Methods that only visit elements in order.
VisitsAll == {"every", "some", "find", "findIndex", "findLast", "findLastIndex", "forEach"}

LEMMA AllVisit ==
    ASSUME NEW e, NEW t, NEW v, Can(e, t, v), NEW n \in Int, NEW c, c.m \in VisitsAll, NEW a, NEW b
    PROVE  Safe(e, Knows(t, {}), Program(c, v, n, a, b), Situations)
<1>1. PICK up, down : up = Upwards(0, n) /\ down = Downwards(n, 0)
  OBVIOUS
<1>2. up \in Seq(Int) /\ down \in Seq(Int)
  BY <1>1, UpwardsIs, DownwardsIs
<1>3. PICK m : m = c.m
  OBVIOUS
<1>4. Program(c, v, n, a, b) = Visit(v, IF m \in {"findLast", "findLastIndex"} THEN down ELSE up, m # "forEach")
  BY <1>1, <1>3
     DEF Program, VisitsAll, typedArrayProto_every, typedArrayProto_some, typedArrayProto_find, typedArrayProto_findIndex,
         typedArrayProto_findLast, typedArrayProto_findLastIndex, typedArrayProto_forEach
<1>5. (IF m \in {"findLast", "findLastIndex"} THEN down ELSE up) \in Seq(Int) /\ (m # "forEach") \in BOOLEAN
  BY <1>2
<1> QED
  BY <1>4, <1>5, Visits

\* The other methods of any array.
LEMMA AnyMethod ==
    ASSUME NEW e, NEW t, NEW v, Can(e, t, v), view[v] = Shown(e, t, v), NEW n, n = Shown(e, t, v).length,
           NEW c, c.this = v, c.m \in OfAny, NEW a \in Int, NEW b \in Int,
           c.m \in {"dataViewGet", "dataViewSet"} => a \in Nat /\ b \in Nat
    PROVE  Safe(e, Knows(t, {}), Program(c, v, n, a, b), Situations)
<1>1. n \in Int
  BY DEF Can, SomeViews
<1>2. PICK init \in BOOLEAN : init = (a = 1)
  OBVIOUS
<1>3. PICK m : m = c.m
  OBVIOUS
<1>4. CASE m \in VisitsAll
  BY <1>1, <1>3, <1>4, AllVisit
<1>5. CASE m = "reduce"
  <2>1. Program(c, v, n, a, b) = typedArrayProto_reduce(v, n, init)
    BY <1>3, <1>2, <1>5 DEF Program
  <2> QED
    BY <2>1, Reduces
<1>6. CASE m = "reduceRight"
  <2>1. Program(c, v, n, a, b) = typedArrayProto_reduceRight(v, n, init)
    BY <1>3, <1>2, <1>6 DEF Program
  <2> QED
    BY <2>1, Reduces
<1>7. CASE m = "at"
  <2>1. Program(c, v, n, a, b) = typedArrayProto_at(v, n, a)
    BY <1>3, <1>7 DEF Program
  <2> QED
    BY <2>1, Finds
<1>8. CASE m = "includes"
  <2>1. Program(c, v, n, a, b) = SearchFrom(v, n, a)
    BY <1>3, <1>8 DEF Program, typedArrayProto_includes
  <2> QED
    BY <2>1, Finds
<1>9. CASE m = "indexOf"
  <2>1. Program(c, v, n, a, b) = SearchFrom(v, n, a)
    BY <1>3, <1>9 DEF Program, typedArrayProto_indexOf
  <2> QED
    BY <2>1, Finds
<1>10. CASE m = "lastIndexOf"
  <2>1. Program(c, v, n, a, b) = typedArrayProto_lastIndexOf(v, n, a)
    BY <1>3, <1>10 DEF Program
  <2> QED
    BY <2>1, Finds
<1>11. CASE m = "join"
  <2>1. Program(c, v, n, a, b) = typedArrayProto_join(v, n)
    BY <1>3, <1>11 DEF Program
  <2> QED
    BY <2>1, JoinsAndStrings
<1>12. CASE m = "toLocaleString"
  <2>1. Program(c, v, n, a, b) = typedArrayProto_toLocaleString(v, n)
    BY <1>3, <1>12 DEF Program
  <2> QED
    BY <2>1, JoinsAndStrings
<1>13. CASE m = "fill"
  <2>1. Program(c, v, n, a, b) = typedArrayProto_fill(v, n, a, b)
    BY <1>3, <1>13 DEF Program
  <2> QED
    BY <2>1, Fills
<1>14. CASE m = "reverse"
  <2>1. Program(c, v, n, a, b) = typedArrayProto_reverse(v, n)
    BY <1>3, <1>14 DEF Program
  <2> QED
    BY <2>1, Reverses
<1>15. CASE m = "sort"
  <2>1. Program(c, v, n, a, b) = typedArrayProto_sort(v, n)
    BY <1>3, <1>15 DEF Program
  <2> QED
    BY <2>1, Sorts
<1>16. CASE m = "toBase64"
  <2>1. Program(c, v, n, a, b) = Script \o getUint8ArrayBytes(v, n)
    BY <1>3, <1>16 DEF Program, uint8ArrayProto_toBase64
  <2> QED
    BY <2>1, Encodes
<1>17. CASE m = "setFromBase64"
  <2>1. Program(c, v, n, a, b) = Script \o getUint8ArrayBytes(v, n)
    BY <1>3, <1>17 DEF Program, uint8ArrayProto_setFromBase64
  <2> QED
    BY <2>1, Encodes
<1>18. CASE m = "toHex"
  <2>1. Program(c, v, n, a, b) = getUint8ArrayBytes(v, n)
    BY <1>3, <1>18 DEF Program, uint8ArrayProto_toHex
  <2> QED
    BY <2>1, Encodes
<1>19. CASE m = "setFromHex"
  <2>1. Program(c, v, n, a, b) = getUint8ArrayBytes(v, n)
    BY <1>3, <1>19 DEF Program, uint8ArrayProto_setFromHex
  <2> QED
    BY <2>1, Encodes
<1>20. CASE m = "get"
  <2>1. Program(c, v, n, a, b) = _getIdx(v, a)
    BY <1>3, <1>20 DEF Program
  <2> QED
    BY <2>1, Elementwise
<1>21. CASE m = "put"
  <2>1. Program(c, v, n, a, b) = _putIdx(v, a)
    BY <1>3, <1>21 DEF Program
  <2> QED
    BY <2>1, Elementwise
<1>22. CASE m = "define"
  <2>1. Program(c, v, n, a, b) = _defineIdxProperty(v, a)
    BY <1>3, <1>22 DEF Program
  <2> QED
    BY <2>1, Elementwise
<1>23. CASE m = "dataViewGet"
  <2>1. Program(c, v, n, a, b) = dataViewProto_get(c, a, b)
    BY <1>3, <1>23 DEF Program
  <2>2. a \in Nat /\ b \in Nat
    BY <1>3, <1>23
  <2> QED
    BY <2>1, <2>2, DataViews
<1>24. CASE m = "dataViewSet"
  <2>1. Program(c, v, n, a, b) = dataViewProto_set(c, a, b)
    BY <1>3, <1>24 DEF Program
  <2>2. a \in Nat /\ b \in Nat
    BY <1>3, <1>24
  <2> QED
    BY <2>1, <2>2, DataViews
<1> QED
  BY <1>3, <1>4, <1>5, <1>6, <1>7, <1>8, <1>9, <1>10, <1>11, <1>12, <1>13, <1>14, <1>15, <1>16, <1>17, <1>18, <1>19, <1>20, <1>21, <1>22, <1>23, <1>24 DEF OfAny, VisitsAll

\* The methods that are modelled for view[1] only.
LEMMA FirstMethod ==
    ASSUME NEW e \in Contexts, NEW t, view[1] = e.first, view[2] = e.second, NEW n, n = e.first.length, BufferLen \in Nat,
           NEW c, c.m \in OfFirst, MayMake(c.ctor), NEW a \in Int, NEW b \in Int,
           c.m \in Counts => a \in Nat,
           c.m = "copyWithin" => relToIdx(a, n) <= relToIdx(b, n) \/ At(e.first, n) >= BufferLen,
           c.m = "bufferSlice" => n = BufferLen,
           c.m = "newFromArray" => ~e.open,
           c.m \in {"from", "of"} => c.ctor.offset = 0 \/ (c.m = "from" /\ b = 2)
    PROVE  Safe(e, Knows(t, {}), Program(c, 1, n, a, b), Situations)
<1>1. /\ e.first \in SomeViews /\ Fits(e.first) /\ e.first.buf \in {1, 2} /\ e.first.type \in Types
      /\ n \in Int /\ At(e.first, n) <= BufferLen
  BY DEF Contexts, Fits, SomeViews
<1>2. Can(e, t, 1) /\ Shown(e, t, 1) = e.first /\ view[1] = Shown(e, t, 1) /\ n = view[1].length /\ n = Shown(e, t, 1).length
  BY <1>1 DEF Can, Shown, Buffers
<1>3. PICK m : m = c.m
  OBVIOUS
<1>4. "u16" \in Types /\ FALSE \in BOOLEAN
  BY DEF Types
<1>5. CASE m = "copyWithin"
  <2>1. Program(c, 1, n, a, b) = typedArrayProto_copyWithin(1, n, a, b)
    BY <1>3, <1>5 DEF Program
  <2>2. relToIdx(a, n) <= relToIdx(b, n) \/ At(e.first, n) >= BufferLen
    BY <1>3, <1>5
  <2> QED
    BY <1>1, <1>2, <1>4, <2>1, <2>2, CopiesWithin
<1>6. CASE m = "map"
  <2>1. Program(c, 1, n, a, b) = typedArrayProto_map(c, n)
    BY <1>3, <1>6 DEF Program
  <2> QED
    BY <1>1, <1>2, <1>4, <2>1, Maps
<1>7. CASE m = "filter"
  <2>1. Program(c, 1, n, a, b) = typedArrayProto_filter(c, n, a)
    BY <1>3, <1>7 DEF Program
  <2>2. a \in Nat
    BY <1>3, <1>7 DEF Counts
  <2> QED
    BY <1>1, <1>2, <1>4, <2>1, <2>2, Filters
<1>8. CASE m = "with"
  <2>1. Program(c, 1, n, a, b) = typedArrayProto_with(n, a)
    BY <1>3, <1>8 DEF Program
  <2> QED
    BY <1>1, <1>2, <1>4, <2>1, Withs
<1>9. CASE m = "toReversed"
  <2>1. Program(c, 1, n, a, b) = typedArrayProto_toReversed(n)
    BY <1>3, <1>9 DEF Program
  <2> QED
    BY <1>1, <1>2, <1>4, <2>1, ToReversed
<1>10. CASE m = "toSorted"
  <2>1. Program(c, 1, n, a, b) = typedArrayProto_toSorted(n)
    BY <1>3, <1>10 DEF Program
  <2> QED
    BY <1>1, <1>2, <1>4, <2>1, ToSorted
<1>11. CASE m = "subarray"
  <2>1. Program(c, 1, n, a, b) = typedArrayProto_subarray(c, n, a, b)
    BY <1>3, <1>11 DEF Program
  <2> QED
    BY <1>1, <1>2, <1>4, <2>1, Subarrays
<1>12. CASE m = "slice"
  <2>1. Program(c, 1, n, a, b) = typedArrayProto_slice(c, n, a, b)
    BY <1>3, <1>12 DEF Program
  <2> QED
    BY <1>1, <1>2, <1>4, <2>1, Slices
<1>13. CASE m = "set"
  <2>1. Program(c, 1, n, a, b) = typedArrayProto_set(n, a)
    BY <1>3, <1>13 DEF Program
  <2> QED
    BY <1>1, <1>2, <1>4, <2>1, Sets
<1>14. CASE m = "setValues"
  <2>1. Program(c, 1, n, a, b) = typedArrayProto_setValues(n, a, b)
    BY <1>3, <1>14 DEF Program
  <2> QED
    BY <1>1, <1>2, <1>4, <2>1, SetsValues
<1>15. CASE m = "from"
  <2>1. PICK iterable : iterable = (b > 0)
    OBVIOUS
  <2>2. PICK mapped : mapped = (b = 2)
    OBVIOUS
  <2>3. iterable \in BOOLEAN /\ mapped \in BOOLEAN
    BY <2>1, <2>2
  <2>4. Program(c, 1, n, a, b) = typedArray_from(c, a, iterable, mapped)
    BY <1>3, <1>15, <2>1, <2>2 DEF Program
  <2>5. a \in Nat
    BY <1>3, <1>15 DEF Counts
  <2>6. CASE b = 2
    <3>1. (b = 2) = TRUE /\ (b > 0) = TRUE
      BY <2>6
    <3>2. iterable = TRUE /\ mapped = TRUE
      BY <2>1, <2>2, <3>1
    <3>3. Safe(e, Knows(t, {}), typedArray_from(c, a, iterable, mapped), Situations)
      BY <2>3, <2>5, <3>2, Froms
    <3> QED
      BY <2>4, <3>3
  <2>7. CASE b # 2
    <3>1. c.ctor.offset = 0
      BY <1>3, <1>15, <2>7
    <3> QED
      BY <2>3, <2>4, <2>5, <3>1, Froms
  <2> QED
    BY <2>6, <2>7
<1>16. CASE m = "of"
  <2>1. Program(c, 1, n, a, b) = typedArray_of(c, a)
    BY <1>3, <1>16 DEF Program
  <2>2. a \in Nat
    BY <1>3, <1>16 DEF Counts
  <2>3. c.ctor.offset = 0
    BY <1>3, <1>16
  <2> QED
    BY <1>4, <2>1, <2>2, <2>3, Froms
<1>17. CASE m = "newLength"
  <2>1. Program(c, 1, n, a, b) = allocateTypedArray("u16", a)
    BY <1>3, <1>17 DEF Program
  <2>2. a \in Nat
    BY <1>3, <1>17 DEF Counts
  <2> QED
    BY <1>1, <1>2, <1>4, <2>1, <2>2, Allocates
<1>18. CASE m = "newFromBuffer"
  <2>1. Program(c, 1, n, a, b) = _newTypedArrayFromArrayBuffer(e.first.buf, "u16", a, b)
    BY <1>3, <1>18 DEF Program
  <2>2. a \in Nat
    BY <1>3, <1>18 DEF Counts
  <2> QED
    BY <1>1, <1>2, <1>4, <2>1, <2>2, OverBuffers
<1>19. CASE m = "newFromTyped"
  <2>1. Program(c, 1, n, a, b) = _newTypedArrayFromTypedArray(e.first.type)
    BY <1>3, <1>19 DEF Program
  <2> QED
    BY <1>1, <1>2, <1>4, <2>1, FromTyped
<1>20. CASE m = "newFromArray"
  <2>1. Program(c, 1, n, a, b) = typedArrayFrom("u16", a)
    BY <1>3, <1>20 DEF Program
  <2>2. a \in Nat
    BY <1>3, <1>20 DEF Counts
  <2>3. ~e.open
    BY <1>3, <1>20
  <2> QED
    BY <1>1, <1>2, <1>4, <2>1, <2>2, <2>3, FromArray
<1>21. CASE m = "newDataView"
  <2>1. Program(c, 1, n, a, b) = newDataView(e.first.buf, a, b)
    BY <1>3, <1>21 DEF Program
  <2>2. a \in Nat
    BY <1>3, <1>21 DEF Counts
  <2> QED
    BY <1>1, <1>2, <1>4, <2>1, <2>2, MakesDataViews
<1>22. CASE m = "newBuffer"
  <2>1. Program(c, 1, n, a, b) = builtin_newArrayBuffer(a)
    BY <1>3, <1>22 DEF Program
  <2>2. a \in Nat
    BY <1>3, <1>22 DEF Counts
  <2> QED
    BY <1>1, <1>2, <1>4, <2>1, <2>2, Allocates
<1>23. CASE m = "byteLength"
  <2>1. Program(c, 1, n, a, b) = arrayBufferProto_getByteLength
    BY <1>3, <1>23 DEF Program
  <2> QED
    BY <1>1, <1>2, <1>4, <2>1, BufferMethods
<1>24. CASE m = "bufferSlice"
  <2>1. Program(c, 1, n, a, b) = arrayBufferProto_slice(c, a, b)
    BY <1>3, <1>24 DEF Program
  <2>2. e.first.length = BufferLen
    BY <1>3, <1>24
  <2> QED
    BY <1>1, <1>2, <1>4, <2>1, <2>2, BufferSlices
<1>25. CASE m = "transfer"
  <2>1. Program(c, 1, n, a, b) = arrayBufferCopyAndDetach(a)
    BY <1>3, <1>25 DEF Program
  <2> QED
    BY <1>1, <1>2, <1>4, <2>1, BufferMethods
<1> QED
  BY <1>3, <1>5, <1>6, <1>7, <1>8, <1>9, <1>10, <1>11, <1>12, <1>13, <1>14, <1>15, <1>16, <1>17, <1>18, <1>19, <1>20, <1>21, <1>22, <1>23, <1>24, <1>25 DEF OfFirst

-----------------------------------------------------------------------------
(* Running a program                                                       *)

\* An instruction of a program that does no harm does none, and neither does what
\* is left of it.
LEMMA Advance ==
    ASSUME NEW e, NEW s, NEW P, NEW Y, Safe(e, {s}, P, Y), P # <<>>, NEW i, i = Head(P)
    PROVE  /\ i \in Instrs /\ Fine(e, i, s) /\ s \in Situations
           /\ \A n \in Int : \A t : Leads(e, i, s, n, t) => t \in Situations /\ Safe(e, {t}, SubSeq(P, n + 2, Len(P)), Y)
<1>1. P \in Seq(Instrs) /\ Len(P) \in Nat /\ Len(P) > 0 /\ i = P[1] /\ i \in Instrs /\ Y \subseteq Situations /\ s \in Situations
  BY DEF Safe
<1>2. PICK A : Labels(e, P, A) /\ s \in A[1] /\ A[Len(P) + 1] = Y
  BY DEF Safe
<1>3. /\ A \in [1..Len(P) + 1 -> SUBSET Situations] /\ 1 \in 1..Len(P)
      /\ \A k \in 1..Len(P) : \A u \in A[k] :
           /\ Fine(e, P[k], u)
           /\ \A n \in Int : \A t : Leads(e, P[k], u, n, t) => k + n + 1 \in 1..Len(P) + 1 /\ t \in A[k + n + 1]
  <2>1. A \in [1..Len(P) + 1 -> SUBSET Situations]
    BY <1>2 DEF Labels
  <2>2. \A k \in 1..Len(P) : \A u \in A[k] :
          /\ Fine(e, P[k], u)
          /\ \A n \in Int : \A t : Leads(e, P[k], u, n, t) => k + n + 1 \in 1..Len(P) + 1 /\ t \in A[k + n + 1]
    BY <1>2 DEF Labels
  <2>3. 1 \in 1..Len(P)
    BY <1>1
  <2> QED
    BY <2>1, <2>2, <2>3
<1>4. Fine(e, i, s)
  BY <1>1, <1>2, <1>3
<1>5. ASSUME NEW n \in Int, NEW t, Leads(e, i, s, n, t)
      PROVE  t \in Situations /\ Safe(e, {t}, SubSeq(P, n + 2, Len(P)), Y)
  <2>1. n + 2 \in 1..Len(P) + 1 /\ t \in A[n + 2]
    <3>1. 1 + n + 1 \in 1..Len(P) + 1 /\ t \in A[1 + n + 1]
      BY <1>1, <1>2, <1>3, <1>5
    <3>2. 1 + n + 1 = n + 2
      OBVIOUS
    <3> QED
      BY <3>1, <3>2
  <2>2. t \in Situations
    BY <1>3, <2>1
  <2>3. PICK R, l : R = SubSeq(P, n + 2, Len(P)) /\ l = Len(P) - (n + 1)
    OBVIOUS
  <2>4. l \in Nat /\ R \in Seq(Instrs) /\ Len(R) = l /\ \A k \in 1..l : R[k] = P[k + n + 1]
    <3>1. n + 2 \in Int /\ n + 2 >= 1 /\ n + 2 <= Len(P) + 1
      BY <1>1, <2>1
    <3>2. \A k \in n + 2..Len(P) : P[k] \in Instrs
      BY <1>1, <3>1
    <3>3. R = [k \in 1..l |-> P[k + n + 1]]
      BY <1>1, <2>3, <3>1
    <3>4. l \in Nat /\ \A k \in 1..l : P[k + n + 1] \in Instrs
      BY <1>1, <2>3, <3>1, <3>2
    <3> QED
      BY <3>3, <3>4
  <2> DEFINE B == [k \in 1..l + 1 |-> A[k + n + 1]]
  <2>5. B \in [1..l + 1 -> SUBSET Situations] /\ B[1] = A[n + 2] /\ B[l + 1] = Y
    <3>1. \A k \in 1..l + 1 : k + n + 1 \in 1..Len(P) + 1
      BY <1>1, <2>1, <2>3
    <3>2. B \in [1..l + 1 -> SUBSET Situations]
      BY <1>3, <3>1
    <3>3. 1 + n + 1 = n + 2 /\ (l + 1) + n + 1 = Len(P) + 1 /\ 1 \in 1..l + 1 /\ l + 1 \in 1..l + 1
      BY <1>1, <2>3, <2>4
    <3> QED
      BY <1>2, <3>2, <3>3
  <2>6. \A k \in 1..l + 1 : B[k] = A[k + n + 1]
    OBVIOUS
  <2> HIDE DEF B
  <2>7. ASSUME NEW k \in 1..l, NEW u \in B[k]
        PROVE  /\ Fine(e, R[k], u)
               /\ \A m \in Int : \A q : Leads(e, R[k], u, m, q) => k + m + 1 \in 1..l + 1 /\ q \in B[k + m + 1]
    <3>1. k + n + 1 \in 1..Len(P) /\ R[k] = P[k + n + 1] /\ u \in A[k + n + 1] /\ k \in 1..l + 1
      BY <1>1, <2>1, <2>3, <2>4, <2>6, <2>7
    <3>2. Fine(e, R[k], u)
      BY <1>3, <3>1
    <3>3. ASSUME NEW m \in Int, NEW q, Leads(e, R[k], u, m, q)
          PROVE  k + m + 1 \in 1..l + 1 /\ q \in B[k + m + 1]
      <4>1. m >= -1
        <5>1. PICK x : x = R[k]
          OBVIOUS
        <5>2. x.op \in {"valid", "skip"} => x.n \in Nat
          BY <3>2, <5>1 DEF Fine
        <5>3. m \in {0, 1, -1} \/ (x.op \in {"valid", "skip"} /\ m \in {0, x.n})
          BY <3>3, <5>1 DEF Leads
        <5> QED
          BY <5>2, <5>3
      <4>2. (k + n + 1) + m + 1 \in 1..Len(P) + 1 /\ q \in A[(k + n + 1) + m + 1]
        BY <1>3, <3>1, <3>3
      <4>3. k + m + 1 \in 1..l + 1 /\ (k + m + 1) + n + 1 = (k + n + 1) + m + 1
        BY <1>1, <2>1, <2>3, <2>4, <4>1, <4>2
      <4> QED
        BY <2>6, <4>2, <4>3
    <3> QED
      BY <3>2, <3>3
  <2>8. Labels(e, R, B)
    BY <2>4, <2>5, <2>7 DEF Labels
  <2>9. {t} \subseteq Situations /\ t \in B[1]
    BY <2>1, <2>2, <2>5
  <2> QED
    BY <1>1, <2>2, <2>3, <2>4, <2>5, <2>8, <2>9 DEF Safe
<1> QED
  BY <1>1, <1>4, <1>5

-----------------------------------------------------------------------------
(* What is always so                                                       *)

Blocks ==
    /\ block = [b \in Buffers |-> block[b]]
    /\ block[1] \in {0, 1} /\ block[2] \in {0, 2} /\ block[3] \in 0..3

Contents ==
    /\ bytes = [m \in 1..3 |-> bytes[m]]
    /\ \A m \in 1..3 : Len(bytes[m]) \in Nat
    /\ \A b \in 1..2 : block[b] # 0 => Len(bytes[b]) = BufferLen

\* What view[3] may be.
Viewed ==
    /\ view = [v \in 1..3 |-> view[v]] /\ <<view[1], view[2]>> \in Pairs
    /\ view[3] \in SomeViews /\ (view[3].buf = 0 => view[3] = NoView)
    /\ view[3].buf \in {1, 2} => Fits(view[3])
    /\ view[3].buf = 3 /\ block[3] # 0 => At(view[3], view[3].length) <= Len(bytes[block[3]])

Calls == call = [c |-> call.c, todo |-> call.todo, end |-> call.end, quiet |-> call.quiet, before |-> call.before]

Context   == [first |-> view[1], second |-> view[2], open |-> call.c.ctor # NoView \/ call.c.this = 3]
Situation == [live |-> {b \in Buffers : block[b] # 0}, third |-> view[3]]

\* What is left of the call does no harm.
Harmless == Blocks /\ Contents /\ Viewed /\ Calls /\ Safe(Context, {Situation}, call.todo, Situations)

\* The arrays that a call is given.
LEMMA Arrays ==
    ASSUME Given, Viewed
    PROVE  /\ view[1] \in SomeViews /\ view[2] \in SomeViews /\ Fits(view[1]) /\ Fits(view[2])
           /\ \A c \in Starts(<<view[1], view[2]>>) : May(c, <<view[1], view[2]>>)
           /\ Situation \in Situations
<1>1. PICK p \in Pairs : p = <<view[1], view[2]>>
  BY DEF Viewed
<1>2. p \in SomeViews \X SomeViews /\ Fits(p[1]) /\ Fits(p[2]) /\ \A c \in Starts(p) : May(c, p)
  BY DEF Given
<1>3. p[1] = view[1] /\ p[2] = view[2]
  BY <1>1
<1>4. {b \in Buffers : block[b] # 0} \in SUBSET Buffers
  OBVIOUS
<1>5. Situation \in Situations
  BY <1>4 DEF Situation, Situations, Viewed
<1> QED
  BY <1>1, <1>2, <1>3, <1>5

\* The end of a call.
LEMMA Ended ==
    ASSUME NEW e, NEW s \in Situations
    PROVE  Safe(e, {s}, <<>>, Situations)
<1>1. {s} \in SUBSET Situations /\ Situations \in SUBSET Situations
  OBVIOUS
<1>2. Safe(e, {s}, <<>>, {s})
  BY <1>1, Nothing
<1>3. PICK X : X = {s}
  OBVIOUS
<1> QED
  BY <1>1, <1>2, <1>3, Wider

\* In the beginning nothing runs.
LEMMA StartsHarmless ==
    ASSUME Given, Init
    PROVE  Harmless
<1>1. PICK p \in Pairs, a \in {{1, 2}, {1}, {}} : block = [b \in Buffers |-> IF b \in a THEN b ELSE 0] /\ view = <<p[1], p[2], NoView>>
  BY DEF Init
<1>2. bytes = <<[q \in 1..BufferLen |-> 10 + q], [q \in 1..BufferLen |-> 20 + q], <<>>>> /\ call = Idle
  BY DEF Init
<1>3. BufferLen \in Nat /\ p \in SomeViews \X SomeViews
  BY DEF Given
<1>4. Blocks
  BY <1>1 DEF Blocks, Buffers
<1>5. Len(bytes[1]) = BufferLen /\ Len(bytes[2]) = BufferLen /\ Len(bytes[3]) = 0 /\ bytes = [m \in 1..3 |-> bytes[m]]
  BY <1>2, <1>3
<1>6. Contents
  BY <1>3, <1>5 DEF Contents
<1>7. p = <<p[1], p[2]>> /\ view[1] = p[1] /\ view[2] = p[2] /\ view[3] = NoView /\ view = [v \in 1..3 |-> view[v]]
  BY <1>1, <1>3
<1>8. NoView \in SomeViews /\ NoView.buf = 0
  BY DEF NoView, View, SomeViews, Types
<1>9. Viewed
  BY <1>7, <1>8 DEF Viewed
<1>10. Calls /\ call.todo = <<>>
  BY <1>2 DEF Calls, Idle
<1>11. Situation \in Situations
  BY <1>9, Arrays
<1>12. Safe(Context, {Situation}, call.todo, Situations)
  BY <1>10, <1>11, Ended
<1> QED
  BY <1>4, <1>6, <1>9, <1>10, <1>12 DEF Harmless

\* A call begins.
LEMMA StartKeeps ==
    ASSUME Given, ~Everything, Harmless, NEW c \in Starts(<<view[1], view[2]>>), Start(c)
    PROVE  Harmless'
<1>1. /\ view[1] \in SomeViews /\ view[2] \in SomeViews /\ Fits(view[1]) /\ Fits(view[2])
      /\ May(c, <<view[1], view[2]>>) /\ Situation \in Situations /\ BufferLen \in Nat
  BY Arrays DEF Harmless, Given
<1>2. /\ ~Diverges(c, view[c.this]) /\ (c.this = 3 => view[3] # NoView) /\ view[3] \in SomeViews
      /\ block' = block /\ bytes' = bytes /\ view' = view
  BY DEF Start, Harmless, Viewed
<1>3. PICK P : P = Program(c, c.this, view[c.this].length, c.a, c.b)
  OBVIOUS
<1>4. call' = [c |-> c, todo |-> P, end |-> "done", quiet |-> TRUE, before |-> bytes]
  BY <1>3 DEF Start
<1>5. PICK e, s, t : e = [first |-> view[1], second |-> view[2], open |-> c.ctor # NoView \/ c.this = 3] /\ s = Situation /\ t = view[3]
  OBVIOUS
<1>6. e.first = view[1] /\ e.second = view[2] /\ e.open = (c.ctor # NoView \/ c.this = 3)
  BY <1>5
<1>7. e \in Contexts
  <2>1. view[1] \in {w \in SomeViews : Fits(w)} /\ view[2] \in {w \in SomeViews : Fits(w)}
    BY <1>1
  <2>2. (c.ctor # NoView \/ c.this = 3) \in BOOLEAN
    OBVIOUS
  <2> QED
    BY <1>5, <2>1, <2>2 DEF Contexts
<1>8. s \in Knows(t, {})
  <2>1. s \in Situations /\ s.third = t
    BY <1>1, <1>5 DEF Situation
  <2> QED
    BY <2>1 DEF Knows
<1>9. Safe(e, Knows(t, {}), P, Situations)
  <2>1. c.a \in Int /\ c.b \in Int /\ MayMake(c.ctor) /\ (c.m \in Counts => c.a \in Nat)
    BY <1>1 DEF May
  <2>2. c.m \in {"dataViewGet", "dataViewSet"} => c.a \in Nat /\ c.b \in Nat
    BY <1>1 DEF May, Counts
  <2>3. CASE c.m \in OfAny
    <3>1. c.this \in {1, 3}
      BY <1>1 DEF May
    <3>2. Shown(e, t, c.this) = view[c.this]
      BY <1>5, <1>6, <3>1 DEF Shown
    <3>3. Can(e, t, c.this)
      <4>1. view[1].buf \in Buffers
        BY <1>1 DEF Fits, Buffers
      <4>2. c.this = 3 => view[3].buf \in Buffers
        BY <1>2 DEF Harmless, Viewed, SomeViews, Buffers
      <4> QED
        BY <1>1, <1>2, <3>1, <3>2, <4>1, <4>2 DEF Can
    <3>4. PICK v, n, a, b : v = c.this /\ n = view[v].length /\ a = c.a /\ b = c.b
      OBVIOUS
    <3> QED
      BY <1>3, <2>1, <2>2, <2>3, <3>2, <3>3, <3>4, AnyMethod
  <2>4. CASE c.m \in OfFirst /\ c.m \notin OfAny
    <3>1. c.this = 1
      BY <1>1, <2>4 DEF May
    <3>2. PICK n, a, b : n = view[1].length /\ a = c.a /\ b = c.b
      OBVIOUS
    <3>3. c.m = "copyWithin" => relToIdx(a, n) <= relToIdx(b, n) \/ At(e.first, n) >= BufferLen
      <4>1. PICK x, y, z : x = relToIdx(a, n) /\ y = relToIdx(b, n) /\ z = At(view[1], n)
        OBVIOUS
      <4>2. x \in Int /\ y \in Int /\ z \in Int
        <5>1. n \in Nat
          BY <1>1, <3>2 DEF SomeViews
        <5>2. a \in Int /\ b \in Int
          BY <2>1, <3>2
        <5>3. relToIdx(a, n) \in 0..n /\ relToIdx(b, n) \in 0..n
          BY <5>1, <5>2, IndexIs
        <5>4. At(view[1], n) \in Nat
          BY <1>1, <5>1, AtIs
        <5> QED
          BY <4>1, <5>1, <5>3, <5>4
      <4>3. c.m = "copyWithin" => ~(x > y /\ z < BufferLen)
        BY <1>2, <3>1, <3>2, <4>1 DEF Diverges
      <4> QED
        BY <1>1, <1>6, <4>1, <4>2, <4>3
    <3>4. c.m = "bufferSlice" => n = BufferLen
      BY <1>1, <3>2 DEF May
    <3>5. c.m = "newFromArray" => ~e.open
      <4>1. c.m = "newFromArray" => c.ctor = NoView
        BY <1>1 DEF May
      <4>2. ASSUME c.ctor = NoView PROVE ~e.open
        <5>1. (c.ctor # NoView \/ c.this = 3) = FALSE
          BY <3>1, <4>2
        <5>2. e = [first |-> view[1], second |-> view[2], open |-> FALSE]
          BY <1>5, <5>1
        <5> QED
          BY <5>2
      <4> QED
        BY <4>1, <4>2
    <3>7. c.m \in {"from", "of"} => c.ctor.offset = 0 \/ (c.m = "from" /\ b = 2)
      BY <1>2, <3>2 DEF Diverges
    <3>6. Safe(e, Knows(t, {}), Program(c, 1, n, a, b), Situations)
      BY <1>1, <1>6, <1>7, <2>1, <2>4, <3>2, <3>3, <3>4, <3>5, <3>7, FirstMethod
    <3> QED
      BY <1>3, <3>1, <3>2, <3>6
  <2> QED
    BY <1>1, <2>3, <2>4 DEF May
<1>10. Safe(e, {s}, P, Situations)
  <2>1. {s} \subseteq Knows(t, {}) /\ Situations \in SUBSET Situations /\ Situations \subseteq Situations
    BY <1>8
  <2>2. PICK V, X : V = {s} /\ X = Knows(t, {})
    OBVIOUS
  <2> QED
    BY <1>9, <2>1, <2>2, Wider
<1>11. call.c' = c /\ call.todo' = P /\ Calls'
  BY <1>4 DEF Calls
<1>12. Context' = e /\ Situation' = s
  BY <1>2, <1>5, <1>11 DEF Context, Situation
<1>13. Blocks' /\ Contents' /\ Viewed'
  BY <1>2 DEF Harmless, Blocks, Contents, Viewed
<1> QED
  BY <1>10, <1>11, <1>12, <1>13 DEF Harmless

\* The instruction at hand.
LEMMA AtHand ==
    ASSUME Given, Harmless, call.todo # <<>>, NEW i, i = Now
    PROVE  /\ i \in Instrs /\ Fine(Context, i, Situation) /\ Situation \in Situations
           /\ \A n \in Int : \A t : Leads(Context, i, Situation, n, t) =>
                t \in Situations /\ Safe(Context, {t}, SubSeq(call.todo, n + 2, Len(call.todo)), Situations)
           /\ \A v \in 1..3 : Seen(Context, Situation, v) = view[v]
           /\ \A b \in Buffers : b \in Situation.live <=> block[b] # 0
<1>1. PICK e, s, P, Y : e = Context /\ s = Situation /\ P = call.todo /\ Y = Situations
  OBVIOUS
<1>2. Safe(e, {s}, P, Y) /\ P # <<>> /\ i = Head(P)
  BY <1>1 DEF Harmless, Now
<1>3. /\ i \in Instrs /\ Fine(e, i, s) /\ s \in Situations
      /\ \A n \in Int : \A t : Leads(e, i, s, n, t) => t \in Situations /\ Safe(e, {t}, SubSeq(P, n + 2, Len(P)), Y)
  BY <1>2, Advance
<1>4. e.first = view[1] /\ e.second = view[2] /\ s.third = view[3]
  BY <1>1 DEF Context, Situation
<1>5. \A v \in 1..3 : Seen(e, s, v) = view[v]
  BY <1>4 DEF Seen
<1>6. \A b \in Buffers : b \in Situation.live <=> block[b] # 0
  BY DEF Situation
<1> QED
  BY <1>1, <1>3, <1>5, <1>6

\* The rest of the program, in another situation or in the same one.
LEMMA GoesOn ==
    ASSUME Given, Harmless, call.todo # <<>>, NEW n \in Int, Leads(Context, Now, Situation, n, Situation'),
           \/ Skipping(n)
           \/ n = -1 /\ call' = [call EXCEPT !.quiet = FALSE],
           view'[1] = view[1], view'[2] = view[2], Blocks', Contents', Viewed'
    PROVE  Harmless'
<1>1. PICK t : t = Situation'
  OBVIOUS
<1>2. Safe(Context, {t}, SubSeq(call.todo, n + 2, Len(call.todo)), Situations)
  BY <1>1, AtHand
<1>3. PICK P, R : P = call.todo /\ R = SubSeq(P, n + 2, Len(P))
  OBVIOUS
<1>4. call = [c |-> call.c, todo |-> call.todo, end |-> call.end, quiet |-> call.quiet, before |-> call.before]
  BY DEF Harmless, Calls
<1>5. n = -1 => R = P
  <2>1. P \in Seq(Instrs)
    BY <1>3 DEF Harmless, Safe
  <2>2. SubSeq(P, 1, Len(P)) = P
    BY <2>1
  <2> QED
    BY <1>3, <2>2
<1>6. Calls' /\ call'.c = call.c /\ call'.todo = R
  <2>1. CASE Skipping(n)
    BY <1>3, <1>4, <2>1 DEF Skipping, Calls
  <2>2. CASE n = -1 /\ call' = [call EXCEPT !.quiet = FALSE]
    BY <1>3, <1>4, <1>5, <2>2 DEF Calls
  <2> QED
    BY <2>1, <2>2
<1>7. Context' = Context
  BY <1>6 DEF Context
<1> QED
  BY <1>1, <1>2, <1>3, <1>6, <1>7 DEF Harmless

\* The call returns, or throws.
LEMMA Stops ==
    ASSUME Given, Harmless, call'.todo = <<>>, Calls', block' = block, bytes' = bytes, view' = view
    PROVE  Harmless'
<1>1. Situation \in Situations
  BY Arrays DEF Harmless
<1>2. Situation' = Situation
  BY DEF Situation
<1>3. PICK e, s : e = Context' /\ s = Situation
  OBVIOUS
<1>4. Safe(e, {s}, <<>>, Situations)
  BY <1>1, <1>3, Ended
<1>5. Blocks' /\ Contents' /\ Viewed'
  BY DEF Harmless, Blocks, Contents, Viewed
<1> QED
  BY <1>2, <1>3, <1>4, <1>5 DEF Harmless

\* Looking at buffers, scripts that leave them alone, and reads.
LEMMA LookKeeps ==
    ASSUME Given, Harmless, Look
    PROVE  Harmless'
<1>1. block' = block /\ bytes' = bytes /\ view' = view
  BY DEF Look
<1>2. call.todo # <<>>
  BY DEF Look, Doing
<1>3. PICK i : i = Now
  OBVIOUS
<1>4. /\ i \in Instrs /\ Fine(Context, i, Situation)
      /\ \A v \in 1..3 : Seen(Context, Situation, v) = view[v]
      /\ \A b \in Buffers : b \in Situation.live <=> block[b] # 0
  BY <1>2, <1>3, AtHand
<1>5. Situation' = Situation /\ Blocks' /\ Contents' /\ Viewed' /\ view'[1] = view[1] /\ view'[2] = view[2]
  BY <1>1 DEF Situation, Harmless, Blocks, Contents, Viewed
<1>6. call = [c |-> call.c, todo |-> call.todo, end |-> call.end, quiet |-> call.quiet, before |-> call.before]
  BY DEF Harmless, Calls
<1>7. \A how : Ends(how) => Harmless'
  <2> TAKE how
  <2>1. SUFFICES ASSUME Ends(how) PROVE Harmless'
    OBVIOUS
  <2>2. call'.todo = <<>> /\ Calls'
    BY <1>6, <2>1 DEF Ends, Calls
  <2> QED
    BY <1>1, <2>2, Stops
<1>8. \A n \in Int : Leads(Context, i, Situation, n, Situation) /\ Skipping(n) => Harmless'
  BY <1>2, <1>3, <1>5, GoesOn
<1>9. CASE i.op \in {"check", "leave"}
  <2>1. i.v \in 1..3 /\ view[i.v].buf \in Buffers
    BY <1>4, <1>9 DEF Fine
  <2>2. CASE block[view[i.v].buf] # 0
    <3>1. Leads(Context, i, Situation, 0, Situation)
      BY <1>4, <1>9, <2>1, <2>2 DEF Leads
    <3>2. Skipping(0)
      BY <1>3, <1>9, <2>2 DEF Look, Doing, ensureNotDetached
    <3> QED
      BY <1>8, <3>1, <3>2
  <2>3. CASE block[view[i.v].buf] = 0
    <3>1. Ends("throws") \/ Ends("returns")
      BY <1>3, <1>9, <2>3 DEF Look, Doing, ensureNotDetached
    <3> QED
      BY <1>7, <3>1
  <2> QED
    BY <2>2, <2>3
<1>10. CASE i.op = "throw"
  <2>1. Ends("throws")
    BY <1>3, <1>10 DEF Look, Doing
  <2> QED
    BY <1>7, <2>1
<1>11. CASE i.op = "valid"
  <2>1. i.v \in 1..3 /\ view[i.v].buf \in Buffers /\ i.n \in Nat
    BY <1>4, <1>11 DEF Fine
  <2>2. PICK n : n = IF isValidIntegerIndex(i.v, i.i) THEN 0 ELSE i.n
    OBVIOUS
  <2>3. Skipping(n)
    BY <1>3, <1>11, <2>2 DEF Look, Doing
  <2>4. isValidIntegerIndex(i.v, i.i) <=> Valid(Context, Situation, i.v, i.i)
    BY <1>4, <2>1 DEF isValidIntegerIndex, ensureNotDetached, Valid
  <2>5. n = IF Valid(Context, Situation, i.v, i.i) THEN 0 ELSE i.n
    BY <2>2, <2>4
  <2>6. Leads(Context, i, Situation, n, Situation) /\ n \in Int
    BY <1>11, <2>1, <2>5 DEF Leads
  <2> QED
    BY <1>8, <2>3, <2>6
<1>12. CASE i.op = "skip1"
  <2>1. Skipping(1) /\ Leads(Context, i, Situation, 1, Situation)
    BY <1>3, <1>12 DEF Look, Doing, Leads
  <2> QED
    BY <1>8, <2>1
<1>13. CASE i.op = "skip"
  <2>1. i.n \in Nat
    BY <1>4, <1>13 DEF Fine
  <2>2. \E n \in {0, i.n} : Skipping(n)
    BY <1>3, <1>13 DEF Look, Doing
  <2>3. \A n \in {0, i.n} : Leads(Context, i, Situation, n, Situation) /\ n \in Int
    BY <1>13, <2>1 DEF Leads
  <2> QED
    BY <1>8, <2>2, <2>3
<1>14. CASE i.op \in {"mayEnd", "script", "touch"}
  <2>1. Skipping(0) \/ Ends("returns") \/ Ends("throws")
    BY <1>3, <1>14 DEF Look, Doing
  <2>2. Leads(Context, i, Situation, 0, Situation)
    BY <1>14 DEF Leads
  <2> QED
    BY <1>7, <1>8, <2>1, <2>2
<1> QED
  BY <1>3, <1>9, <1>10, <1>11, <1>12, <1>13, <1>14 DEF Look, Doing

\* A script detaches a buffer.
LEMMA DetachKeeps ==
    ASSUME Given, ~Everything, Harmless, NEW b \in Buffers, detach(b)
    PROVE  Harmless'
<1>1. /\ call.todo # <<>> /\ Now.op = "script" /\ block[b] # 0 /\ (b = 3 => call.c.ctor # NoView \/ call.c.this = 3)
      /\ \A v \in Now.spare : view[v].buf # b
      /\ bytes' = bytes /\ view' = view /\ call' = [call EXCEPT !.quiet = FALSE] /\ block' = [block EXCEPT ![b] = 0]
  BY DEF detach, Doing
<1>2. PICK i, e, s : i = Now /\ e = Context /\ s = Situation
  OBVIOUS
<1>3. /\ i \in Instrs /\ s \in Situations /\ \A v \in 1..3 : Seen(e, s, v) = view[v]
      /\ \A x \in Buffers : x \in s.live <=> block[x] # 0
  BY <1>1, <1>2, AtHand
<1>4. Blocks /\ Contents /\ Viewed
  BY DEF Harmless
<1>5. block'[b] = 0 /\ (\A x \in Buffers : x # b => block'[x] = block[x]) /\ block' = [x \in Buffers |-> block'[x]]
  BY <1>1, <1>4 DEF Blocks
<1>6. Blocks'
  BY <1>4, <1>5 DEF Blocks, Buffers
<1>7. Contents'
  BY <1>1, <1>4, <1>5 DEF Contents, Buffers
<1>8. Viewed'
  BY <1>1, <1>4, <1>5 DEF Viewed, Buffers
<1>9. Leads(e, i, s, -1, Situation')
  <2>1. s.live = {x \in Buffers : block[x] # 0} /\ s = [live |-> s.live, third |-> view[3]]
    BY <1>2 DEF Situation
  <2>2. {x \in Buffers : block'[x] # 0} = s.live \ {b}
    BY <1>5, <2>1
  <2>3. Situation' = [live |-> s.live \ {b}, third |-> view[3]]
    BY <1>1, <2>2 DEF Situation
  <2>4. Situation' = [s EXCEPT !.live = @ \ {b}]
    BY <2>1, <2>3
  <2>5. b \in s.live
    BY <1>1, <1>3
  <2>6. b = 3 => e.open
    BY <1>1, <1>2 DEF Context
  <2>7. \A v \in i.spare : Seen(e, s, v).buf # b
    <3>1. i.spare \subseteq 1..3
      BY <1>3 DEF Instrs
    <3> QED
      BY <1>1, <1>2, <1>3, <3>1
  <2> QED
    BY <1>1, <1>2, <2>4, <2>5, <2>6, <2>7 DEF Leads
<1> QED
  BY <1>1, <1>2, <1>6, <1>7, <1>8, <1>9, GoesOn

\* What an instruction touches is there.
LEMMA ReachedHolds ==
    ASSUME Given, Blocks, Contents, Viewed, NEW v \in 1..3, view[v].buf \in Buffers, block[view[v].buf] # 0,
           NEW i \in Int, NEW n \in Int, Inside(view[v], i, n)
    PROVE  /\ Holds(v, i, n) /\ Memory(v) \in 1..3 /\ view[v] \in SomeViews
<1>1. /\ view[1] \in SomeViews /\ view[2] \in SomeViews /\ Fits(view[1]) /\ Fits(view[2])
  BY Arrays
<1>2. PICK w, m : w = view[v] /\ m = Memory(v)
  OBVIOUS
<1>3. w \in SomeViews /\ w.length \in Nat /\ BufferLen \in Nat
  BY <1>1, <1>2 DEF Viewed, SomeViews, Given
<1>4. m \in 1..3 /\ m = block[w.buf]
  BY <1>2 DEF Memory, Blocks, Buffers
<1>5. At(w, w.length) <= Len(bytes[m])
  <2>1. CASE w.buf \in {1, 2}
    <3>1. Fits(w)
      BY <1>1, <1>2, <2>1 DEF Viewed
    <3>2. m = w.buf
      BY <1>2, <1>4, <2>1 DEF Blocks
    <3>3. Len(bytes[m]) = BufferLen
      <4>1. m \in 1..2 /\ block[m] # 0
        BY <1>2, <2>1, <3>2
      <4> QED
        BY <4>1 DEF Contents
    <3> QED
      BY <3>1, <3>3 DEF Fits
  <2>2. CASE w.buf = 3
    <3>1. v = 3
      BY <1>1, <1>2, <2>2 DEF Fits
    <3> QED
      BY <1>2, <1>4, <2>2, <3>1 DEF Viewed
  <2> QED
    BY <1>2, <2>1, <2>2 DEF Buffers
<1>6. i \in Nat /\ i + n \in Int /\ i + n <= w.length
  BY <1>2 DEF Inside
<1>7. At(w, i) \in Nat /\ At(w, w.length) \in Nat /\ At(w, i + n) \in Int /\ At(w, i + n) <= At(w, w.length)
  <2>1. At(w, i) \in Nat /\ At(w, w.length) \in Nat
    BY <1>3, <1>6, AtIs
  <2>2. PICK k, o : k = Size(w.type) /\ o = w.offset
    OBVIOUS
  <2>3. k \in {1, 2, 4} /\ o \in Nat
    BY <1>3, <2>2 DEF SomeViews, Types, Size
  <2>4. (o + (i + n)) * k \in Int /\ (o + (i + n)) * k <= (o + w.length) * k
    BY <1>3, <1>6, <2>3
  <2>5. At(w, i + n) \in Int /\ At(w, i + n) <= At(w, w.length)
    BY <2>2, <2>4 DEF At
  <2> QED
    BY <2>1, <2>5
<1>8. Len(bytes[m]) \in Nat
  BY <1>4 DEF Contents
<1>9. At(w, i + n) <= Len(bytes[m])
  BY <1>5, <1>7, <1>8
<1> QED
  BY <1>2, <1>3, <1>4, <1>7, <1>9 DEF Holds

\* So what it touches is there, and belongs to its views.
LEMMA HandIsInReach ==
    ASSUME Given, Harmless, call.todo # <<>>
    PROVE  InReach /\ InView
<1>1. PICK i : i = Now
  OBVIOUS
<1>2. /\ i \in Instrs /\ Fine(Context, i, Situation)
      /\ \A v \in 1..3 : Seen(Context, Situation, v) = view[v]
      /\ \A b \in Buffers : b \in Situation.live <=> block[b] # 0
      /\ Situation.live \subseteq Buffers
  BY <1>1, AtHand DEF Situations
<1>3. i.i \in Int /\ i.j \in Int /\ i.n \in Int
  BY <1>2 DEF Instrs
<1>4. ASSUME NEW v, NEW k \in Int, Reaches(Context, Situation, v, k, i.n)
      PROVE  Holds(v, k, i.n) /\ Inside(view[v], k, i.n)
  <2>1. v \in 1..3 /\ view[v].buf \in Buffers /\ block[view[v].buf] # 0 /\ Inside(view[v], k, i.n)
    BY <1>2, <1>4 DEF Reaches
  <2>2. Blocks /\ Contents /\ Viewed
    BY DEF Harmless
  <2>3. Holds(v, k, i.n)
    BY <1>3, <2>1, <2>2, ReachedHolds
  <2> QED
    BY <2>1, <2>3
<1>5. InReach
  BY <1>1, <1>2, <1>3, <1>4 DEF Fine, InReach
<1>6. InView
  BY <1>1, <1>2, <1>3, <1>4 DEF Fine, InView
<1> QED
  BY <1>5, <1>6

\* One value replaced.
LEMMA Replaced ==
    ASSUME NEW S, NEW f, f = [x \in S |-> f[x]], NEW k \in S, NEW y, NEW g, g = [f EXCEPT ![k] = y]
    PROVE  g = [x \in S |-> g[x]] /\ g[k] = y /\ \A x \in S : x # k => g[x] = f[x]
<1>1. g = [x \in S |-> IF x = k THEN y ELSE f[x]]
  OBVIOUS
<1>2. \A x \in S : g[x] = IF x = k THEN y ELSE f[x]
  BY <1>1
<1>3. [x \in S |-> g[x]] = [x \in S |-> IF x = k THEN y ELSE f[x]]
  BY <1>2
<1> QED
  BY <1>1, <1>2, <1>3

\* An instruction writes.
LEMMA StoreKeeps ==
    ASSUME Given, Harmless, Store
    PROVE  Harmless'
<1>1. PICK m, w, f : m = Memory(Now.v) /\ w = view[Now.v] /\ f = Written
  OBVIOUS
<1>2. /\ call.todo # <<>> /\ Now.op \in Writes /\ block' = block /\ view' = view /\ Skipping(0)
      /\ bytes' = [bytes EXCEPT ![m] = Overlay(@, w, f)]
  BY <1>1 DEF Store
<1>3. Blocks /\ Contents /\ Viewed
  BY DEF Harmless
<1>4. PICK g : g = Overlay(bytes[m], w, f)
  OBVIOUS
<1>5. Len(bytes[m]) \in Nat => Len(g) = Len(bytes[m])
  BY <1>4 DEF Overlay
<1>6. bytes' = [k \in 1..3 |-> bytes'[k]] /\ \A k \in 1..3 : Len(bytes'[k]) = Len(bytes[k])
  BY <1>2, <1>3, <1>4, <1>5 DEF Contents
<1>7. Blocks'
  BY <1>2, <1>3 DEF Blocks
<1>8. Contents'
  BY <1>2, <1>3, <1>6 DEF Contents
<1>9. Viewed'
  <2>1. view[3].buf = 3 /\ block[3] # 0 => block[3] \in 1..3
    BY <1>3 DEF Blocks
  <2> QED
    BY <1>2, <1>3, <1>6, <2>1 DEF Viewed
<1>10. Situation' = Situation
  BY <1>2 DEF Situation
<1>11. Leads(Context, Now, Situation, 0, Situation)
  BY <1>2 DEF Leads
<1> QED
  BY <1>2, <1>7, <1>8, <1>9, <1>10, <1>11, GoesOn

\* An array is made.
LEMMA makeKeeps ==
    ASSUME Given, Harmless, make
    PROVE  Harmless'
<1>1. PICK i, w : i = Now /\ w = i.made
  OBVIOUS
<1>2. /\ call.todo # <<>> /\ i.op = "make" /\ Skipping(0) /\ view' = [view EXCEPT ![3] = w]
      /\ block' = IF i.n >= 0 THEN [block EXCEPT ![3] = 3] ELSE block
      /\ bytes' = IF i.n >= 0 THEN [bytes EXCEPT ![3] = Zeros(i.n)] ELSE bytes
  BY <1>1 DEF make, Doing
<1>3. Blocks /\ Contents /\ Viewed
  BY DEF Harmless
<1>4. i \in Instrs /\ Fine(Context, i, Situation)
  BY <1>1, <1>2, AtHand
<1>5. w \in SomeViews /\ IF i.n >= 0 THEN w.buf = 3 /\ i.n = At(w, w.length) ELSE Fits(w)
  BY <1>1, <1>2, <1>4 DEF Fine
<1>6. i.n \in Int
  BY <1>4 DEF Instrs
<1>7. view' = [v \in 1..3 |-> view'[v]] /\ view'[3] = w /\ view'[1] = view[1] /\ view'[2] = view[2]
  <2>1. PICK f, g, S : f = view /\ g = view' /\ S = 1..3
    OBVIOUS
  <2>2. f = [v \in S |-> f[v]] /\ g = [f EXCEPT ![3] = w] /\ 3 \in S
    <3>1. view = [v \in 1..3 |-> view[v]]
      BY <1>3 DEF Viewed
    <3>2. f = [v \in S |-> f[v]]
      BY ONLY <2>1, <3>1
    <3>3. g = [f EXCEPT ![3] = w]
      BY <1>2, <2>1
    <3> QED
      BY <2>1, <3>2, <3>3
  <2>3. g = [v \in S |-> g[v]] /\ g[3] = w /\ \A v \in S : v # 3 => g[v] = f[v]
    BY ONLY <2>2, Replaced
  <2> QED
    BY <2>1, <2>3
<1>8. Blocks' /\ (\A b \in 1..2 : block'[b] = block[b]) /\ (i.n >= 0 => block'[3] = 3) /\ (i.n < 0 => block' = block)
  BY <1>2, <1>3, <1>6 DEF Blocks, Buffers
<1>9. Contents' /\ (i.n >= 0 => Len(bytes'[3]) = i.n)
  <2>1. CASE i.n >= 0
    <3>1. PICK z : z = Zeros(i.n)
      OBVIOUS
    <3>2. Len(z) = i.n /\ i.n \in Nat
      BY <1>6, <2>1, <3>1 DEF Zeros
    <3>3. bytes' = [bytes EXCEPT ![3] = z]
      BY <1>2, <2>1, <3>1
    <3>4. bytes' = [m \in 1..3 |-> bytes'[m]] /\ bytes'[1] = bytes[1] /\ bytes'[2] = bytes[2] /\ bytes'[3] = z
      <4>1. PICK f, g, S : f = bytes /\ g = bytes' /\ S = 1..3
        OBVIOUS
      <4>2. f = [m \in S |-> f[m]] /\ g = [f EXCEPT ![3] = z] /\ 3 \in S
        BY <1>3, <3>3, <4>1 DEF Contents
      <4>3. g = [m \in S |-> g[m]] /\ g[3] = z /\ \A m \in S : m # 3 => g[m] = f[m]
        BY ONLY <4>2, Replaced
      <4> QED
        BY <4>1, <4>3
    <3> QED
      BY <1>3, <1>8, <3>2, <3>4 DEF Contents
  <2>2. CASE i.n < 0
    <3>1. bytes' = bytes /\ block' = block
      BY <1>2, <1>6, <1>8, <2>2
    <3> QED
      BY <1>3, <1>6, <2>2, <3>1 DEF Contents
  <2> QED
    BY <1>6, <2>1, <2>2
<1>10. Viewed'
  <2>1. w.buf # 0 /\ (w.buf \in {1, 2} => Fits(w))
    BY <1>5 DEF Fits
  <2>2. w.buf = 3 => At(w, w.length) <= Len(bytes'[3]) /\ block'[3] = 3
    <3>1. ASSUME w.buf = 3 PROVE i.n >= 0
      BY <1>5, <3>1 DEF Fits
    <3>2. i.n >= 0 => At(w, w.length) <= Len(bytes'[3])
      BY <1>5, <1>6, <1>9
    <3> QED
      BY <1>8, <3>1, <3>2
  <2> QED
    BY <1>3, <1>5, <1>7, <2>1, <2>2 DEF Viewed
<1>11. Leads(Context, i, Situation, 0, Situation')
  <2>1. {b \in Buffers : block'[b] # 0} = IF i.n >= 0 THEN {b \in Buffers : block[b] # 0} \union {3} ELSE {b \in Buffers : block[b] # 0}
    BY <1>6, <1>8 DEF Buffers
  <2>2. Situation' = [live |-> IF i.n >= 0 THEN Situation.live \union {3} ELSE Situation.live, third |-> i.made]
    BY <1>1, <1>7, <2>1 DEF Situation
  <2> QED
    BY <1>2, <2>2 DEF Leads
<1> QED
  BY <1>1, <1>2, <1>7, <1>8, <1>9, <1>10, <1>11, GoesOn

\* The bytes go to a new buffer.
LEMMA handoverKeeps ==
    ASSUME Given, Harmless, handover
    PROVE  Harmless'
<1>1. PICK i, b, m, w : i = Now /\ b = view[1].buf /\ m = block[b] /\ w = View(3, "u8", 0, i.n)
  OBVIOUS
<1>2. PICK g : g = [p \in 1..i.n |-> IF p <= Len(bytes[m]) THEN bytes[m][p] ELSE 0]
  OBVIOUS
<1>3. /\ call.todo # <<>> /\ i.op = "handover" /\ Skipping(0) /\ view' = [view EXCEPT ![3] = w]
      /\ block' = [block EXCEPT ![b] = 0, ![3] = m] /\ bytes' = [bytes EXCEPT ![m] = g]
  BY <1>1, <1>2 DEF handover, Doing
<1>4. Blocks /\ Contents /\ Viewed
  BY DEF Harmless
<1>5. /\ i \in Instrs /\ Fine(Context, i, Situation)
      /\ \A x \in Buffers : x \in Situation.live <=> block[x] # 0
      /\ Situation.live \subseteq Buffers
  BY <1>1, <1>3, AtHand DEF Situations
<1>6. i.n \in Nat /\ b \in Situation.live /\ b \in {1, 2}
  <2>1. Context.first.buf = b
    BY <1>1 DEF Context
  <2>2. i.n \in Nat /\ b \in Situation.live
    BY <1>3, <1>5, <2>1 DEF Fine
  <2>3. b \in {1, 2}
    BY <1>1, <1>4, Arrays DEF Fits
  <2> QED
    BY <2>2, <2>3
<1>7. m = b /\ block[b] # 0
  BY <1>1, <1>4, <1>5, <1>6 DEF Blocks, Buffers
<1>8. /\ block' = [x \in Buffers |-> block'[x]] /\ block'[b] = 0 /\ block'[3] = b
      /\ \A x \in {1, 2} : x # b => block'[x] = block[x]
  <2>1. PICK h : h = [block EXCEPT ![b] = 0]
    OBVIOUS
  <2>2. block' = [h EXCEPT ![3] = b] /\ block = [x \in Buffers |-> block[x]] /\ b \in Buffers /\ 3 \in Buffers /\ b # 3
    BY <1>3, <1>4, <1>6, <1>7, <2>1 DEF Blocks, Buffers
  <2>3. h = [x \in Buffers |-> h[x]] /\ h[b] = 0 /\ \A x \in Buffers : x # b => h[x] = block[x]
    BY <2>1, <2>2, Replaced
  <2>4. block' = [x \in Buffers |-> block'[x]] /\ block'[3] = b /\ \A x \in Buffers : x # 3 => block'[x] = h[x]
    BY <2>2, <2>3, Replaced
  <2> QED
    BY <2>2, <2>3, <2>4 DEF Buffers
<1>9. Blocks'
  BY <1>4, <1>6, <1>8 DEF Blocks
<1>10. Len(g) = i.n
  BY <1>2, <1>6
<1>11. bytes' = [k \in 1..3 |-> bytes'[k]] /\ bytes'[b] = g /\ \A k \in 1..3 : k # b => bytes'[k] = bytes[k]
  <2>1. PICK f, h, S : f = bytes /\ h = bytes' /\ S = 1..3
    OBVIOUS
  <2>2. f = [k \in S |-> f[k]] /\ h = [f EXCEPT ![b] = g] /\ b \in S
    <3>1. bytes = [k \in 1..3 |-> bytes[k]]
      BY <1>4 DEF Contents
    <3>2. f = [k \in S |-> f[k]]
      BY ONLY <2>1, <3>1
    <3>3. h = [f EXCEPT ![b] = g]
      BY <1>3, <1>7, <2>1
    <3> QED
      BY <1>6, <2>1, <3>2, <3>3
  <2>3. h = [k \in S |-> h[k]] /\ h[b] = g /\ \A k \in S : k # b => h[k] = f[k]
    BY ONLY <2>2, Replaced
  <2> QED
    BY <2>1, <2>3
<1>12. Contents'
  BY <1>4, <1>6, <1>8, <1>10, <1>11 DEF Contents
<1>13. view' = [v \in 1..3 |-> view'[v]] /\ view'[3] = w /\ view'[1] = view[1] /\ view'[2] = view[2]
  <2>1. PICK f, h, S : f = view /\ h = view' /\ S = 1..3
    OBVIOUS
  <2>2. f = [v \in S |-> f[v]] /\ h = [f EXCEPT ![3] = w] /\ 3 \in S
    <3>1. view = [v \in 1..3 |-> view[v]]
      BY <1>4 DEF Viewed
    <3>2. f = [v \in S |-> f[v]]
      BY ONLY <2>1, <3>1
    <3>3. h = [f EXCEPT ![3] = w]
      BY <1>3, <2>1
    <3> QED
      BY <2>1, <3>2, <3>3
  <2>3. h = [v \in S |-> h[v]] /\ h[3] = w /\ \A v \in S : v # 3 => h[v] = f[v]
    BY ONLY <2>2, Replaced
  <2> QED
    BY <2>1, <2>3
<1>14. w \in SomeViews /\ w.buf = 3 /\ At(w, w.length) = i.n
  BY <1>1, <1>6 DEF View, SomeViews, Types, At, Size
<1>15. Viewed'
  BY <1>4, <1>6, <1>8, <1>10, <1>11, <1>13, <1>14 DEF Viewed
<1>16. Leads(Context, i, Situation, 0, Situation')
  <2>1. Situation.live = {x \in Buffers : block[x] # 0} /\ Context.first.buf = b
    BY <1>1 DEF Situation, Context
  <2>2. {x \in Buffers : block'[x] # 0} = ({x \in Buffers : block[x] # 0} \ {b}) \union {3}
    BY <1>6, <1>8 DEF Buffers
  <2>3. Situation' = [live |-> (Situation.live \ {Context.first.buf}) \union {3}, third |-> View(3, "u8", 0, i.n)]
    BY <1>1, <1>13, <2>1, <2>2 DEF Situation
  <2> QED
    BY <1>3, <2>3 DEF Leads
<1> QED
  BY <1>1, <1>3, <1>9, <1>12, <1>13, <1>15, <1>16, GoesOn

LEMMA ReturnKeeps ==
    ASSUME Given, Harmless, Return
    PROVE  Harmless'
<1>1. block' = block /\ bytes' = bytes /\ view' = view /\ call' = Idle
  BY DEF Return
<1>2. call'.todo = <<>> /\ Calls'
  BY <1>1 DEF Idle, Calls
<1> QED
  BY <1>1, <1>2, Stops

\* Every step leaves the call harmless.
LEMMA StaysHarmless ==
    ASSUME Given, ~Everything, Harmless, [Next]_vars
    PROVE  Harmless'
<1>1. CASE UNCHANGED vars
  BY <1>1 DEF vars, Harmless, Blocks, Contents, Viewed, Calls, Context, Situation
<1> QED
  BY <1>1, StartKeeps, LookKeeps, StoreKeeps, makeKeeps, handoverKeeps, ReturnKeeps, DetachKeeps DEF Next

\* A call that does no harm stays within bounds.
LEMMA HarmlessIsWithin ==
    ASSUME Given, Harmless
    PROVE  AccessesInBounds
<1>1. Blocks /\ Contents /\ Viewed
  BY DEF Harmless
<1>2. DOMAIN view = 1..3 /\ view[1] \in SomeViews /\ view[2] \in SomeViews /\ view[3] \in SomeViews
  BY <1>1, Arrays DEF Viewed
<1>3. ASSUME NEW v \in 1..3, view[v] # NoView, Memory(v) # 0
      PROVE  Holds(v, 0, view[v].length)
  <2>1. view[v] \in SomeViews
    BY <1>2
  <2>2. view[v].buf \in Buffers
    BY <1>1, <1>3, <2>1, Arrays DEF Viewed, Fits, Buffers, SomeViews
  <2>3. PICK n : n = view[v].length
    OBVIOUS
  <2>4. n \in Int /\ Inside(view[v], 0, n)
    BY <2>1, <2>3 DEF Inside, SomeViews
  <2>5. block[view[v].buf] # 0
    BY <1>3 DEF Memory
  <2>6. 0 \in Int
    OBVIOUS
  <2>7. Holds(v, 0, n)
    BY <1>1, <2>2, <2>4, <2>5, <2>6, ReachedHolds
  <2> QED
    BY <2>3, <2>7
<1>4. call.todo # <<>> => InReach /\ InView
  BY HandIsInReach
<1> QED
  BY <1>2, <1>3, <1>4 DEF AccessesInBounds

\* For all arrays and calls that a program can make (Given), except that scripts
\* detach nothing that the code does not look at again, and that copyWithin, T.from
\* and T.of are not called where they write outside their view (Everything): a
\* method of a typed array, data view or buffer touches only elements of its views,
\* and only while the buffer holds them, whatever scripts detach while it runs.
THEOREM AlwaysInBounds ==
    ASSUME Given, ~Everything
    PROVE  Spec => []AccessesInBounds
<1>1. Init => Harmless
  BY StartsHarmless
<1>2. Harmless /\ [Next]_vars => Harmless'
  BY StaysHarmless
<1>3. Harmless => AccessesInBounds
  BY HarmlessIsWithin
<1> QED
  BY <1>1, <1>2, <1>3, PTL DEF Spec
=============================================================================
