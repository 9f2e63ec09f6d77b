-------------------------- MODULE ArrayStoreProofs --------------------------
(***************************************************************************)
(* What the shortcuts of arrays rely on (ShortcutsSound of ArrayStore),    *)
(* for arrays of any length, any values, calls and thresholds: propValue-  *)
(* Count is not too small, the spare capacity is empty, no element is at   *)
(* or above length.                                                        *)
(*                                                                         *)
(* The invariant is that the array is one of SoundArrays: records of the   *)
(* right types (Arrays) with these three properties, the slice within its  *)
(* memory, and finitely many items, without which counting them would say  *)
(* nothing.  Each access keeps an array among them, and so do all that a   *)
(* method makes one after the other (PerformStays), each fast path, and    *)
(* each method that makes an array.  A walk adds that it is at an index    *)
(* (WalkOK).                                                               *)
(*                                                                         *)
(* The steps of a method are applied by FoldLeft, whose library definition *)
(* is a recursive function on the subsets of the indices.  That there is   *)
(* such a function (FoldExists), and that it stays where each step stays   *)
(* (FoldStays), are shown from the least prefix that would be an exception.*)
(*                                                                         *)
(* ~Everything leaves out the calls that Diverges lists: two of its        *)
(* disjuncts are needed, defineProperty where the representation changes,  *)
(* which does not count the property, and unshift and splice of an array   *)
(* whose length cannot be written, which change the slice before they find *)
(* that out.                                                               *)
(***************************************************************************)
EXTENDS ArrayStore, FiniteSetTheorems, SequenceTheorems, WellFoundedInduction, TLAPS

\* A set of numbers that is not empty has a least one.
LEMMA Least ==
    ASSUME NEW S \in SUBSET Nat, NEW n \in S
    PROVE  \E m \in S : \A k \in S : m <= k
<1>1. PICK m \in S : \A k \in S : ~(<<k, m>> \in OpToRel(<, Nat))
  BY NatLessThanWellFounded, WFMin
<1>2. ASSUME NEW k \in S PROVE m <= k
  <2>1. ~(<<k, m>> \in OpToRel(<, Nat))
    BY <1>1
  <2> QED
    BY <2>1 DEF OpToRel
<1> QED
  BY <1>2

\* What Max returns.
LEMMA MaxIs ==
    ASSUME NEW S \in SUBSET Int, NEW m \in S, \A k \in S : k <= m
    PROVE  Max(S) = m
<1>1. m \in Int /\ \A k \in S : m >= k
  OBVIOUS
<1>2. ASSUME NEW x \in S, \A k \in S : x >= k PROVE x = m
  <2>1. x >= m /\ m >= x /\ x \in Int
    BY <1>1, <1>2
  <2> QED
    BY <1>1, <2>1
<1> QED
  BY <1>1, <1>2 DEF Max

\* What Min returns.
LEMMA MinIs ==
    ASSUME NEW S \in SUBSET Int, NEW m \in S, \A k \in S : m <= k
    PROVE  Min(S) = m
<1>1. m \in Int /\ \A k \in S : m <= k
  OBVIOUS
<1>2. ASSUME NEW x \in S, \A k \in S : x <= k PROVE x = m
  <2>1. x <= m /\ m <= x /\ x \in Int
    BY <1>1, <1>2
  <2> QED
    BY <1>1, <2>1
<1> QED
  BY <1>1, <1>2 DEF Min

\* Numbers that have a bound have a greatest.
LEMMA MaxOf ==
    ASSUME NEW S \in SUBSET Nat, NEW e \in S, NEW b \in Nat, \A k \in S : k <= b
    PROVE  Max(S) \in S /\ \A k \in S : k <= Max(S)
<1> DEFINE U == {u \in Nat : \A k \in S : k <= u}
<1>1. PICK m \in U : \A u \in U : m <= u
  <2>1. U \in SUBSET Nat /\ b \in U
    OBVIOUS
  <2> HIDE DEF U
  <2> QED
    BY <2>1, Least
<1>2. m \in S
  <2>1. SUFFICES ASSUME m \notin S PROVE FALSE
    OBVIOUS
  <2>2. \A k \in S : k <= m - 1
    BY <2>1
  <2>3. m - 1 \in Nat
    BY <2>2
  <2>4. m - 1 \in U
    BY <2>2, <2>3
  <2> QED
    BY <2>4, <1>1
<1>3. Max(S) = m
  BY <1>2, MaxIs
<1> QED
  BY <1>2, <1>3

\* f is what MapThenFoldSet defines for FoldLeft over n elements: F is the operator,
\* with what it is applied to at each index.
Folds(f, n, S, base, F) ==
    /\ f \in [SUBSET (1..n) -> S]
    /\ \A s \in SUBSET (1..n) : f[s] = IF s = {} THEN base ELSE F[<<Max(s), f[s \ {Max(s)}]>>]

\* There is such a function.
LEMMA FoldExists ==
    ASSUME NEW n \in Nat, NEW S, NEW base \in S, NEW F \in [(1..n) \X S -> S]
    PROVE  \E f : Folds(f, n, S, base, F)
<1> DEFINE Is(f, m) == \A s \in SUBSET (1..m) : f[s] = IF s = {} THEN base ELSE F[<<Max(s), f[s \ {Max(s)}]>>]
           Has(m) == \E f \in [SUBSET (1..m) -> S] : Is(f, m)
           B == {m \in 0..n : ~Has(m)}
<1>1. \A m \in 0..n : m \in B <=> ~Has(m)
  OBVIOUS
<1>2. SUFFICES ASSUME ~Has(n) PROVE FALSE
  BY <1>2 DEF Folds
<1>3. PICK m \in B : \A k \in B : m <= k
  <2>1. B \in SUBSET Nat
    OBVIOUS
  <2> HIDE DEF B, Has
  <2>2. n \in B
    BY <1>1, <1>2
  <2> QED
    BY <2>1, <2>2, Least
<1>4. m # 0
  <2>1. SUFFICES ASSUME m = 0 PROVE FALSE
    OBVIOUS
  <2>2. SUBSET (1..m) = {{}}
    BY <2>1
  <2>3. Is([s \in SUBSET (1..m) |-> base], m) /\ [s \in SUBSET (1..m) |-> base] \in [SUBSET (1..m) -> S]
    BY <2>2
  <2> QED
    BY <2>3
<1>5. m \in 1..n /\ m - 1 \in 0..n /\ m - 1 \notin B
  <2>1. m \in 0..n
    OBVIOUS
  <2> HIDE DEF B
  <2> QED
    BY <1>3, <1>4, <2>1
<1>6. PICK f \in [SUBSET (1..m - 1) -> S] : Is(f, m - 1)
  <2>1. Has(m - 1)
    <3> HIDE DEF B, Has
    <3> QED
      BY <1>1, <1>5
  <2> HIDE DEF Is
  <2> QED
    BY <2>1
<1> DEFINE g == [s \in SUBSET (1..m) |-> IF m \in s THEN F[<<m, f[s \ {m}]>>] ELSE f[s]]
<1>7. \A s \in SUBSET (1..m) : (m \in s => s \ {m} \in SUBSET (1..m - 1)) /\ (m \notin s => s \in SUBSET (1..m - 1))
  BY <1>5
<1>8. g \in [SUBSET (1..m) -> S]
  <2>1. ASSUME NEW s \in SUBSET (1..m) PROVE (IF m \in s THEN F[<<m, f[s \ {m}]>>] ELSE f[s]) \in S
    BY <1>5, <1>7
  <2> QED
    BY <2>1
<1>9. ASSUME NEW s \in SUBSET (1..m) PROVE g[s] = IF s = {} THEN base ELSE F[<<Max(s), g[s \ {Max(s)}]>>]
  <2>1. CASE m \in s
    <3>1. Max(s) = m
      <4>1. s \in SUBSET Int /\ \A k \in s : k <= m
        BY <1>5
      <4> QED
        BY <2>1, <4>1, MaxIs
    <3>2. g[s \ {m}] = f[s \ {m}]
      BY <2>1, <1>7
    <3> QED
      BY <2>1, <3>1, <3>2
  <2>2. CASE m \notin s
    <3>1. s \in SUBSET (1..m - 1) /\ g[s] = f[s]
      BY <1>7, <2>2
    <3>2. f[s] = IF s = {} THEN base ELSE F[<<Max(s), f[s \ {Max(s)}]>>]
      BY <3>1, <1>6
    <3>3. s \ {Max(s)} \in SUBSET (1..m) /\ m \notin s \ {Max(s)}
      BY <2>2
    <3>4. g[s \ {Max(s)}] = f[s \ {Max(s)}]
      BY <3>3
    <3> QED
      BY <3>1, <3>2, <3>4
  <2> QED
    BY <2>1, <2>2
<1>10. Is(g, m)
  BY <1>9
<1> HIDE DEF g
<1> QED
  BY <1>8, <1>10, <1>3

\* Where such a function starts in S and stays in S, it ends in S.
LEMMA FoldStays ==
    ASSUME NEW n \in Nat, NEW S, NEW g, g[{}] \in S,
           \A s \in SUBSET (1..n) : s # {} /\ g[s \ {Max(s)}] \in S => g[s] \in S
    PROVE  g[1..n] \in S
<1> DEFINE B == {m \in 0..n : g[1..m] \notin S}
<1>1. SUFFICES ASSUME n \in B PROVE FALSE
  OBVIOUS
<1>2. PICK m \in B : \A k \in B : m <= k
  <2>1. B \in SUBSET Nat
    OBVIOUS
  <2> HIDE DEF B
  <2> QED
    BY <1>1, <2>1, Least
<1>3. m # 0
  <2>1. 1..0 = {}
    OBVIOUS
  <2> QED
    BY <2>1
<1>4. m - 1 \in 0..n /\ m - 1 \notin B
  BY <1>2, <1>3
<1>5. g[1..m - 1] \in S
  BY <1>4
<1>6. 1..m \in SUBSET (1..n) /\ m \in 1..m /\ \A k \in 1..m : k <= m
  BY <1>3
<1>7. Max(1..m) = m
  <2>1. 1..m \in SUBSET Int
    OBVIOUS
  <2> QED
    BY <1>6, <2>1, MaxIs
<1>8. (1..m) \ {m} = 1..m - 1
  BY <1>3
<1>9. g[1..m] \in S
  <2>1. (1..m) # {} /\ g[(1..m) \ {Max(1..m)}] \in S
    BY <1>5, <1>6, <1>7, <1>8
  <2> QED
    BY <1>6, <2>1
<1> QED
  BY <1>9, <1>2

\* What an index may hold.
Slots == [v : Int, w : BOOLEAN, c : BOOLEAN, p : BOOLEAN]

\* The same for sets that depend on how many elements were applied.
LEMMA FoldFamily ==
    ASSUME NEW n \in Nat, NEW K, NEW g, g[1..0] \in K[0],
           \A m \in 1..n : g[1..m - 1] \in K[m - 1] => g[1..m] \in K[m]
    PROVE  g[1..n] \in K[n]
<1> DEFINE B == {m \in 0..n : g[1..m] \notin K[m]}
<1>1. SUFFICES ASSUME n \in B PROVE FALSE
  OBVIOUS
<1>2. PICK m \in B : \A k \in B : m <= k
  <2>1. B \in SUBSET Nat
    OBVIOUS
  <2> HIDE DEF B
  <2> QED
    BY <1>1, <2>1, Least
<1>3. m \in 1..n /\ m - 1 \in 0..n /\ m - 1 \notin B
  BY <1>2
<1>4. g[1..m - 1] \in K[m - 1]
  BY <1>3
<1> QED
  BY <1>2, <1>3, <1>4

\* Indices from 1 on.
LEMMA Initial ==
    ASSUME NEW n \in Nat, NEW m \in 1..n
    PROVE  /\ 1..m \in SUBSET (1..n) /\ 1..m # {} /\ Max(1..m) = m
           /\ (1..m) \ {Max(1..m)} = 1..m - 1
<1>1. m \in 1..m /\ (\A k \in 1..m : k <= m) /\ 1..m \in SUBSET Int
  OBVIOUS
<1>2. Max(1..m) = m
  BY <1>1, MaxIs
<1> QED
  BY <1>1, <1>2

\* The greatest of indices.
LEMMA MaxWithin ==
    ASSUME NEW n \in Nat, NEW s \in SUBSET (1..n), s # {}
    PROVE  Max(s) \in 1..n /\ s \ {Max(s)} \in SUBSET (1..n)
<1>1. PICK e : e \in s
  OBVIOUS
<1>2. s \in SUBSET Nat /\ \A k \in s : k <= n
  OBVIOUS
<1>3. Max(s) \in s
  BY <1>1, <1>2, MaxOf
<1> QED
  BY <1>3

\* Steps that keep an array in G, each of them, keep it there together.
LEMMA PerformStays ==
    ASSUME NEW G, NEW a \in G, NEW n \in Nat, NEW steps, DOMAIN steps = 1..n,
           \A x \in G : \A k \in 1..n : Do(x, steps[k]) \in [a : G, ok : BOOLEAN]
    PROVE  Perform(a, steps, Do) \in [a : G, ok : BOOLEAN]
<1> DEFINE S     == [a : G, ok : BOOLEAN]
           Op(x, k) == IF x.ok THEN Do(x.a, steps[k]) ELSE x
           F     == [z \in (1..n) \X S |-> Op(z[2], z[1])]
           Is(f) == f = [s \in SUBSET (1..n) |-> IF s = {} THEN Ok(a) ELSE Op(f[s \ {Max(s)}], Max(s))]
           g     == CHOOSE f : Is(f)
<1>1. Perform(a, steps, Do) = g[1..n]
  BY DEF Perform, FoldLeft, MapThenFoldSet, Then
<1>2. Ok(a) \in S
  BY DEF Ok
<1>3. ASSUME NEW x \in S, NEW k \in 1..n PROVE Op(x, k) \in S
  OBVIOUS
<1> HIDE DEF S, Op
<1>4. F \in [(1..n) \X S -> S]
  BY <1>3
<1>5. \A s \in SUBSET (1..n) : s # {} => Max(s) \in 1..n /\ s \ {Max(s)} \in SUBSET (1..n)
  BY MaxWithin
<1>6. \E f : Is(f)
  <2>1. PICK f : Folds(f, n, S, Ok(a), F)
    <3> HIDE DEF F
    <3> QED
      BY <1>2, <1>4, FoldExists
  <2>2. /\ f \in [SUBSET (1..n) -> S]
        /\ \A s \in SUBSET (1..n) : f[s] = IF s = {} THEN Ok(a) ELSE F[<<Max(s), f[s \ {Max(s)}]>>]
    BY <2>1 DEF Folds
  <2>3. ASSUME NEW s \in SUBSET (1..n), s # {} PROVE f[s] = Op(f[s \ {Max(s)}], Max(s))
    <3>1. <<Max(s), f[s \ {Max(s)}]>> \in (1..n) \X S
      BY <1>5, <2>2, <2>3
    <3> QED
      BY <2>2, <2>3, <3>1
  <2> QED
    BY <2>2, <2>3
<1>7. Is(g)
  <2> HIDE DEF Is
  <2> QED
    BY <1>6
<1>8. g[{}] \in S
  BY <1>2, <1>7
<1>9. ASSUME NEW s \in SUBSET (1..n), s # {}, g[s \ {Max(s)}] \in S PROVE g[s] \in S
  <2>1. g[s] = Op(g[s \ {Max(s)}], Max(s)) /\ Max(s) \in 1..n
    BY <1>5, <1>7, <1>9
  <2> HIDE DEF g
  <2> QED
    BY <1>3, <1>9, <2>1
<1>10. g[1..n] \in S
  <2> HIDE DEF g
  <2> QED
    BY <1>8, <1>9, FoldStays
<1> QED
  BY <1>1, <1>10 DEF S

\* o[i] = v as a step, with a value that is not Hole.
Puts == [op : {"put"}, i : Nat, v : Int \ {Hole}]

\* A listing without its holes, as elements to put.
LEMMA CreatedType ==
    ASSUME NEW from \in Nat, NEW n \in Nat, NEW list \in [1..n -> Int]
    PROVE  Created(from, list) \in Seq(Puts)
<1> DEFINE S     == Seq(Puts)
           Op(x, k) == IF PutAll(from, list)[k].v = Hole THEN x ELSE Append(x, PutAll(from, list)[k])
           F     == [z \in (1..n) \X S |-> Op(z[2], z[1])]
           Is(f) == f = [s \in SUBSET (1..n) |-> IF s = {} THEN <<>> ELSE Op(f[s \ {Max(s)}], Max(s))]
           g     == CHOOSE f : Is(f)
<1>1. Created(from, list) = g[1..n]
  <2>1. DOMAIN PutAll(from, list) = 1..n
    <3>1. Len(list) = n
      OBVIOUS
    <3> QED
      BY <3>1 DEF PutAll
  <2> QED
    BY <2>1 DEF Created, FoldLeft, MapThenFoldSet
<1>2. <<>> \in S
  OBVIOUS
<1>3. ASSUME NEW x \in S, NEW k \in 1..n PROVE Op(x, k) \in S
  <2>1. PutAll(from, list)[k] = Put(from + k - 1, list[k])
    BY DEF PutAll
  <2>2. from + k - 1 \in Nat /\ list[k] \in Int
    OBVIOUS
  <2>3. Put(from + k - 1, list[k]).v = list[k]
    BY DEF Put
  <2>4. list[k] # Hole => Put(from + k - 1, list[k]) \in Puts
    BY <2>2 DEF Put, Puts
  <2> QED
    BY <2>1, <2>3, <2>4
<1> HIDE DEF S, Op
<1>4. F \in [(1..n) \X S -> S]
  BY <1>3
<1>5. \A s \in SUBSET (1..n) : s # {} => Max(s) \in 1..n /\ s \ {Max(s)} \in SUBSET (1..n)
  BY MaxWithin
<1>6. \E f : Is(f)
  <2>1. PICK f : Folds(f, n, S, <<>>, F)
    <3> HIDE DEF F
    <3> QED
      BY <1>2, <1>4, FoldExists
  <2>2. /\ f \in [SUBSET (1..n) -> S]
        /\ \A s \in SUBSET (1..n) : f[s] = IF s = {} THEN <<>> ELSE F[<<Max(s), f[s \ {Max(s)}]>>]
    BY <2>1 DEF Folds
  <2>3. ASSUME NEW s \in SUBSET (1..n), s # {} PROVE f[s] = Op(f[s \ {Max(s)}], Max(s))
    <3>1. <<Max(s), f[s \ {Max(s)}]>> \in (1..n) \X S
      BY <1>5, <2>2, <2>3
    <3> QED
      BY <2>2, <2>3, <3>1
  <2> QED
    BY <2>2, <2>3
<1>7. Is(g)
  <2> HIDE DEF Is
  <2> QED
    BY <1>6
<1>8. g[{}] \in S
  BY <1>2, <1>7
<1>9. ASSUME NEW s \in SUBSET (1..n), s # {}, g[s \ {Max(s)}] \in S PROVE g[s] \in S
  <2>1. g[s] = Op(g[s \ {Max(s)}], Max(s)) /\ Max(s) \in 1..n
    BY <1>5, <1>7, <1>9
  <2> HIDE DEF g
  <2> QED
    BY <1>3, <1>9, <2>1
<1>10. g[1..n] \in S
  <2> HIDE DEF g
  <2> QED
    BY <1>8, <1>9, FoldStays
<1> QED
  BY <1>1, <1>10 DEF S

\* A part of a sequence.
LEMMA Slice ==
    ASSUME NEW T, NEW s \in Seq(T), NEW i \in Nat, i >= 1, NEW j \in Nat, j <= Len(s), i <= j + 1
    PROVE  SubSeq(s, i, j) \in Seq(T) /\ Len(SubSeq(s, i, j)) = j - i + 1
<1>1. \A k \in i..j : s[k] \in T
  OBVIOUS
<1>2. i \in Int /\ j \in Int
  OBVIOUS
<1>3. /\ SubSeq(s, i, j) \in Seq(T)
      /\ Len(SubSeq(s, i, j)) = IF i <= j THEN j - i + 1 ELSE 0
  BY <1>1, <1>2, SubSeqProperties
<1> QED
  BY <1>3

\* An element that is inserted behind some others.
LEMMA Inserted ==
    ASSUME NEW T, NEW s \in Seq(T), NEW x \in T, NEW U \in SUBSET (1..Len(s))
    PROVE  /\ InsertAt(s, Cardinality(U) + 1, x) \in Seq(T)
           /\ Len(InsertAt(s, Cardinality(U) + 1, x)) = Len(s) + 1
<1>1. PICK n \in Nat : n = Len(s)
  OBVIOUS
<1>2. IsFiniteSet(1..n) /\ Cardinality(1..n) = n
  <2>1. 1 \in Int /\ n \in Int
    OBVIOUS
  <2> QED
    BY <2>1, FS_Interval
<1>3. PICK k \in Nat : k = Cardinality(U) /\ k <= n
  <2>1. U \in SUBSET (1..n)
    BY <1>1
  <2>2. IsFiniteSet(U) /\ Cardinality(U) <= n
    BY <1>2, <2>1, FS_Subset
  <2> QED
    BY <2>2, FS_CardinalityType
<1>4. PICK u \in Seq(T) : u = SubSeq(s, 1, k) /\ Len(u) = k
  <2>1. 1 \in Nat /\ 1 >= 1 /\ k <= Len(s) /\ 1 <= k + 1
    BY <1>1, <1>3
  <2>2. SubSeq(s, 1, k) \in Seq(T) /\ Len(SubSeq(s, 1, k)) = k - 1 + 1
    BY <2>1, Slice
  <2>3. Len(SubSeq(s, 1, k)) = k
    BY <2>2
  <2> QED
    BY <2>2, <2>3, Zenon
<1>5. PICK w \in Seq(T) : w = SubSeq(s, k + 1, n) /\ Len(w) = n - k
  <2>1. k + 1 \in Nat /\ k + 1 >= 1 /\ n <= Len(s) /\ k + 1 <= n + 1
    BY <1>1, <1>3
  <2>2. SubSeq(s, k + 1, n) \in Seq(T) /\ Len(SubSeq(s, k + 1, n)) = n - (k + 1) + 1
    BY <2>1, Slice
  <2>3. Len(SubSeq(s, k + 1, n)) = n - k
    BY <1>3, <2>2
  <2> QED
    BY <2>2, <2>3, Zenon
<1>6. <<x>> \in Seq(T) /\ Len(<<x>>) = 1
  OBVIOUS
<1>7. u \o <<x>> \in Seq(T) /\ Len(u \o <<x>>) = k + 1
  BY <1>4, <1>6
<1>8. (u \o <<x>>) \o w \in Seq(T) /\ Len((u \o <<x>>) \o w) = n + 1
  <2>1. PICK y \in Seq(T) : y = u \o <<x>> /\ Len(y) = k + 1
    BY <1>7
  <2>2. y \o w \in Seq(T) /\ Len(y \o w) = n + 1
    BY <1>3, <1>5, <2>1, ConcatProperties, SMTT(30)
  <2> QED
    BY <2>1, <2>2
<1>9. InsertAt(s, Cardinality(U) + 1, x) = (u \o <<x>>) \o w
  <2>1. (k + 1) - 1 = k
    OBVIOUS
  <2> QED
    BY <1>1, <1>3, <1>4, <1>5, <2>1 DEF InsertAt
<1> QED
  BY <1>1, <1>8, <1>9

\* Values that sort has put in order.
LEMMA SortedType ==
    ASSUME NEW n \in Nat, NEW vs \in [1..n -> Int]
    PROVE  Sorted(vs) \in Seq(Int) /\ Len(Sorted(vs)) = n
<1> DEFINE S     == Seq(Int)
           Op(x, k) == Insert(x, vs[k], LAMBDA y, z : y # Undefined /\ (z = Undefined \/ y < z))
           F     == [z \in (1..n) \X S |-> Op(z[2], z[1])]
           Is(f) == f = [s \in SUBSET (1..n) |-> IF s = {} THEN <<>> ELSE Op(f[s \ {Max(s)}], Max(s))]
           g     == CHOOSE f : Is(f)
<1>1. Sorted(vs) = g[1..n]
  <2>1. DOMAIN vs = 1..n
    OBVIOUS
  <2> QED
    BY <2>1 DEF Sorted, InOrder, FoldLeft, MapThenFoldSet
<1>2. <<>> \in S
  OBVIOUS
<1>3. ASSUME NEW x \in S, NEW k \in 1..n PROVE Op(x, k) \in S
  <2>1. PICK y \in Int : y = vs[k]
    OBVIOUS
  <2>2. {j \in 1..Len(x) : ~(y # Undefined /\ (x[j] = Undefined \/ y < x[j]))} \in SUBSET (1..Len(x))
    OBVIOUS
  <2> QED
    BY <2>1, <2>2, Inserted DEF Insert
<1> HIDE DEF S, Op
<1>4. F \in [(1..n) \X S -> S]
  BY <1>3
<1>5. \A s \in SUBSET (1..n) : s # {} => Max(s) \in 1..n /\ s \ {Max(s)} \in SUBSET (1..n)
  BY MaxWithin
<1>6. \E f : Is(f)
  <2>1. PICK f : Folds(f, n, S, <<>>, F)
    <3> HIDE DEF F
    <3> QED
      BY <1>2, <1>4, FoldExists
  <2>2. /\ f \in [SUBSET (1..n) -> S]
        /\ \A s \in SUBSET (1..n) : f[s] = IF s = {} THEN <<>> ELSE F[<<Max(s), f[s \ {Max(s)}]>>]
    BY <2>1 DEF Folds
  <2>3. ASSUME NEW s \in SUBSET (1..n), s # {} PROVE f[s] = Op(f[s \ {Max(s)}], Max(s))
    <3>1. <<Max(s), f[s \ {Max(s)}]>> \in (1..n) \X S
      BY <1>5, <2>2, <2>3
    <3> QED
      BY <2>2, <2>3, <3>1
  <2> QED
    BY <2>2, <2>3
<1>7. Is(g)
  <2> HIDE DEF Is
  <2> QED
    BY <1>6
<1>8. \A m \in 1..n : g[1..m] = Op(g[1..m - 1], m)
  BY <1>7, Initial
<1>9. ASSUME NEW x \in S, NEW k \in 1..n PROVE Len(Op(x, k)) = Len(x) + 1
  <2>1. PICK y \in Int : y = vs[k]
    OBVIOUS
  <2>2. {j \in 1..Len(x) : ~(y # Undefined /\ (x[j] = Undefined \/ y < x[j]))} \in SUBSET (1..Len(x))
    OBVIOUS
  <2> QED
    BY <2>1, <2>2, Inserted DEF Insert, Op, S
<1> DEFINE K == [m \in 0..n |-> {x \in S : Len(x) = m}]
<1>10. g[1..0] \in K[0]
  <2>1. 1..0 = {} /\ {} \in SUBSET (1..n) /\ Len(<<>>) = 0
    OBVIOUS
  <2>2. g[{}] = <<>>
    BY <1>7, <2>1
  <2> HIDE DEF g
  <2> QED
    BY <1>2, <2>1, <2>2
<1>11. ASSUME NEW m \in 1..n, g[1..m - 1] \in K[m - 1] PROVE g[1..m] \in K[m]
  <2> HIDE DEF g
  <2>1. PICK x \in S : x = g[1..m - 1] /\ Len(x) = m - 1
    BY <1>11
  <2>2. g[1..m] = Op(x, m) /\ Op(x, m) \in S /\ Len(Op(x, m)) = m
    BY <1>3, <1>8, <1>9, <2>1
  <2> QED
    BY <2>2
<1>12. g[1..n] \in K[n]
  <2> HIDE DEF g, K
  <2> QED
    BY <1>10, <1>11, FoldFamily
<1> QED
  BY <1>1, <1>12 DEF S

\* Slots without attributes.
Plains == {s \in Slots : ~s.p}

\* Slots that sort has put in order.
LEMMA SortStableType ==
    ASSUME NEW n \in Nat, NEW vs \in [1..n -> Plains]
    PROVE  sortStable(vs) \in Seq(Plains) /\ Len(sortStable(vs)) = n
<1> DEFINE S     == Seq(Plains)
           Op(x, k) == Insert(x, vs[k], LAMBDA y, z : y # Nil /\ (z = Nil \/ (y.v # Undefined /\ (z.v = Undefined \/ y.v < z.v))))
           F     == [z \in (1..n) \X S |-> Op(z[2], z[1])]
           Is(f) == f = [s \in SUBSET (1..n) |-> IF s = {} THEN <<>> ELSE Op(f[s \ {Max(s)}], Max(s))]
           g     == CHOOSE f : Is(f)
<1>1. sortStable(vs) = g[1..n]
  <2>1. DOMAIN vs = 1..n
    OBVIOUS
  <2> QED
    BY <2>1 DEF sortStable, InOrder, FoldLeft, MapThenFoldSet
<1>2. <<>> \in S
  OBVIOUS
<1>3. ASSUME NEW x \in S, NEW k \in 1..n PROVE Op(x, k) \in S
  <2>1. PICK y \in Plains : y = vs[k]
    OBVIOUS
  <2>2. {j \in 1..Len(x) : ~(y # Nil /\ (x[j] = Nil \/ (y.v # Undefined /\ (x[j].v = Undefined \/ y.v < x[j].v))))} \in SUBSET (1..Len(x))
    OBVIOUS
  <2> QED
    BY <2>1, <2>2, Inserted DEF Insert
<1> HIDE DEF S, Op
<1>4. F \in [(1..n) \X S -> S]
  BY <1>3
<1>5. \A s \in SUBSET (1..n) : s # {} => Max(s) \in 1..n /\ s \ {Max(s)} \in SUBSET (1..n)
  BY MaxWithin
<1>6. \E f : Is(f)
  <2>1. PICK f : Folds(f, n, S, <<>>, F)
    <3> HIDE DEF F
    <3> QED
      BY <1>2, <1>4, FoldExists
  <2>2. /\ f \in [SUBSET (1..n) -> S]
        /\ \A s \in SUBSET (1..n) : f[s] = IF s = {} THEN <<>> ELSE F[<<Max(s), f[s \ {Max(s)}]>>]
    BY <2>1 DEF Folds
  <2>3. ASSUME NEW s \in SUBSET (1..n), s # {} PROVE f[s] = Op(f[s \ {Max(s)}], Max(s))
    <3>1. <<Max(s), f[s \ {Max(s)}]>> \in (1..n) \X S
      BY <1>5, <2>2, <2>3
    <3> QED
      BY <2>2, <2>3, <3>1
  <2> QED
    BY <2>2, <2>3
<1>7. Is(g)
  <2> HIDE DEF Is
  <2> QED
    BY <1>6
<1>8. \A m \in 1..n : g[1..m] = Op(g[1..m - 1], m)
  BY <1>7, Initial
<1>9. ASSUME NEW x \in S, NEW k \in 1..n PROVE Len(Op(x, k)) = Len(x) + 1
  <2>1. PICK y \in Plains : y = vs[k]
    OBVIOUS
  <2>2. {j \in 1..Len(x) : ~(y # Nil /\ (x[j] = Nil \/ (y.v # Undefined /\ (x[j].v = Undefined \/ y.v < x[j].v))))} \in SUBSET (1..Len(x))
    OBVIOUS
  <2> QED
    BY <2>1, <2>2, Inserted DEF Insert, Op, S
<1> DEFINE K == [m \in 0..n |-> {x \in S : Len(x) = m}]
<1>10. g[1..0] \in K[0]
  <2>1. 1..0 = {} /\ {} \in SUBSET (1..n) /\ Len(<<>>) = 0
    OBVIOUS
  <2>2. g[{}] = <<>>
    BY <1>7, <2>1
  <2> HIDE DEF g
  <2> QED
    BY <1>2, <2>1, <2>2
<1>11. ASSUME NEW m \in 1..n, g[1..m - 1] \in K[m - 1] PROVE g[1..m] \in K[m]
  <2> HIDE DEF g
  <2>1. PICK x \in S : x = g[1..m - 1] /\ Len(x) = m - 1
    BY <1>11
  <2>2. g[1..m] = Op(x, m) /\ Op(x, m) \in S /\ Len(Op(x, m)) = m
    BY <1>3, <1>8, <1>9, <2>1
  <2> QED
    BY <2>2
<1>12. g[1..n] \in K[n]
  <2> HIDE DEF g, K
  <2> QED
    BY <1>10, <1>11, FoldFamily
<1> QED
  BY <1>1, <1>12 DEF S

-----------------------------------------------------------------------------
(* Sound arrays                                                            *)

\* Slices with their spare capacity, and the items of sparse arrays.
Memories == UNION {[0..k - 1 -> Slots] : k \in Nat}
ItemMaps == UNION {[D -> Slots] : D \in SUBSET Nat}

\* Arrays by the types of their fields.
Arrays ==
    [kind : {"dense", "sparse"}, mem : Memories, n : Nat,
     items : ItemMaps, length : Nat, objCount : Int, props : Int,
     lengthWritable : BOOLEAN, extensible : BOOLEAN]

\* The elements with attributes.
Attributed(a) == {i \in Indices(a) : getOwnPropIdx(a, i).p}

\* ShortcutsSound of an array but for its length, with the slice within its memory
\* and the items finite.
Tidy(a) ==
    /\ 0..a.n - 1 \subseteq DOMAIN a.mem
    /\ IsFiniteSet(DOMAIN a.items)
    /\ \A i \in DOMAIN a.mem : i >= a.n => a.mem[i] = Nil
    /\ Cardinality(Attributed(a)) <= a.props

\* The elements of a are below l.
Below(a, l) == \A i \in Indices(a) : i < l

\* Arrays whose shortcuts are sound.
SoundArrays == {a \in Arrays : Tidy(a) /\ Below(a, a.length)}

\* What an access returns.
Results == [a : SoundArrays, ok : BOOLEAN]

\* The slots that are nothing, and plain ones.
LEMMA SlotTypes ==
    /\ Nil \in Slots /\ ~Nil.p
    /\ \A v \in Int : PlainSlot(v) \in Slots /\ ~PlainSlot(v).p
BY DEF Nil, PlainSlot, Slots, Slot, Hole

\* The fields of an array.
LEMMA Fields ==
    ASSUME NEW a \in Arrays
    PROVE  /\ a.kind \in {"dense", "sparse"} /\ a.n \in Nat /\ a.length \in Nat
           /\ a.objCount \in Int /\ a.props \in Int
           /\ a.lengthWritable \in BOOLEAN /\ a.extensible \in BOOLEAN
           /\ a.mem \in [DOMAIN a.mem -> Slots] /\ a.items \in [DOMAIN a.items -> Slots]
           /\ DOMAIN a.items \in SUBSET Nat
           /\ Cap(a) \in Nat /\ DOMAIN a.mem = 0..Cap(a) - 1
<1>1. PICK k \in Nat : a.mem \in [0..k - 1 -> Slots]
  BY DEF Arrays, Memories
<1>2. PICK D \in SUBSET Nat : a.items \in [D -> Slots]
  BY DEF Arrays, ItemMaps
<1>3. DOMAIN a.mem = 0..k - 1 /\ DOMAIN a.items = D
  BY <1>1, <1>2
<1>4. Cardinality(0..k - 1) = k
  <2>1. 0 \in Int /\ k - 1 \in Int
    OBVIOUS
  <2> QED
    BY <2>1, FS_Interval
<1>5. Cap(a) = k
  BY <1>3, <1>4 DEF Cap
<1> QED
  BY <1>1, <1>2, <1>3, <1>5 DEF Arrays

\* The attributed elements of either kind of array.
LEMMA AttributedIs ==
    ASSUME NEW a \in Arrays, 0..a.n - 1 \subseteq DOMAIN a.mem
    PROVE  /\ Dense(a) => Attributed(a) = {i \in 0..a.n - 1 : a.mem[i].p}
           /\ ~Dense(a) => Attributed(a) = {i \in DOMAIN a.items : a.items[i].p}
<1>1. ASSUME Dense(a), NEW i \in 0..a.n - 1 PROVE getOwnPropIdx(a, i) = a.mem[i]
  BY <1>1, Fields DEF getOwnPropIdx, getSlot
<1>2. ASSUME Dense(a), NEW i \in 0..a.n - 1, a.mem[i].p PROVE a.mem[i] # Nil
  BY <1>2, SlotTypes
<1>3. ASSUME ~Dense(a), NEW i \in DOMAIN a.items PROVE getOwnPropIdx(a, i) = a.items[i]
  BY <1>3 DEF getOwnPropIdx, getItem
<1> QED
  BY <1>1, <1>2, <1>3 DEF Attributed, Indices

\* The elements of an array are finitely many.
LEMMA Finite ==
    ASSUME NEW a \in Arrays, Tidy(a)
    PROVE  /\ Indices(a) \subseteq Nat
           /\ IsFiniteSet(Indices(a)) /\ IsFiniteSet(Attributed(a))
           /\ Cardinality(Attributed(a)) \in Nat
<1>1. a \in Arrays /\ Tidy(a)
  OBVIOUS
<1>2. IsFiniteSet(0..a.n - 1)
  <2>1. 0 \in Int /\ a.n - 1 \in Int
    BY <1>1, Fields
  <2> QED
    BY <2>1, FS_Interval
<1>3. Indices(a) \subseteq 0..a.n - 1 \/ Indices(a) = DOMAIN a.items
  BY DEF Indices
<1>4. IsFiniteSet(Indices(a))
  BY <1>1, <1>2, <1>3, FS_Subset DEF Tidy
<1>5. Attributed(a) \subseteq Indices(a)
  BY DEF Attributed
<1>6. IsFiniteSet(Attributed(a))
  BY <1>4, <1>5, FS_Subset
<1>7. Indices(a) \subseteq Nat
  BY <1>3, Fields
<1> QED
  BY <1>4, <1>6, <1>7, FS_CardinalityType

\* An array b with no more attributed elements than a, and counting no fewer.
LEMMA NoMore ==
    ASSUME NEW a \in Arrays, Tidy(a), NEW b, b.props \in Int, a.props <= b.props, Attributed(b) \subseteq Attributed(a)
    PROVE  Cardinality(Attributed(b)) <= b.props
<1>1. PICK A : A = Attributed(a)
  OBVIOUS
<1>2. PICK B : B = Attributed(b)
  OBVIOUS
<1>3. IsFiniteSet(A) /\ Cardinality(A) \in Nat /\ B \subseteq A
  BY <1>1, <1>2, Finite
<1>4. IsFiniteSet(B) /\ Cardinality(B) <= Cardinality(A)
  BY <1>3, FS_Subset
<1>5. Cardinality(B) \in Nat
  BY <1>4, FS_CardinalityType
<1>6. a.props \in Int /\ Cardinality(A) <= a.props
  BY <1>1, Fields DEF Tidy
<1> QED
  BY <1>2, <1>3, <1>4, <1>5, <1>6

\* What an array is sound by: the memory of a, counters that are no less.
LEMMA SameSound ==
    ASSUME NEW a \in SoundArrays, NEW b \in Arrays,
           b.kind = a.kind, b.mem = a.mem, b.n = a.n, b.items = a.items,
           a.length <= b.length, a.props <= b.props
    PROVE  b \in SoundArrays
<1>1. a \in Arrays /\ Tidy(a) /\ Below(a, a.length)
  BY DEF SoundArrays
<1>2. Indices(b) = Indices(a)
  BY DEF Indices, Dense
<1>3. \A i : getOwnPropIdx(b, i) = getOwnPropIdx(a, i)
  BY DEF getOwnPropIdx, getSlot, getItem, Dense
<1>4. Attributed(b) = Attributed(a)
  BY <1>2, <1>3 DEF Attributed
<1>5. Cardinality(Attributed(b)) <= b.props
  BY <1>1, <1>4, NoMore, Fields
<1>6. Below(b, b.length)
  BY <1>1, <1>2, Fields, Finite DEF Below
<1> QED
  BY <1>1, <1>5, <1>6 DEF SoundArrays, Tidy

\* setValues puts s at the beginning of memory that is otherwise empty.
LEMMA SetValues ==
    ASSUME NEW a \in Arrays, NEW s \in Seq(Slots), NEW cap \in Nat, Len(s) <= cap
    PROVE  LET b == setValues(a, s, cap)
           IN  /\ b \in Arrays /\ b.kind = a.kind /\ b.items = a.items /\ b.length = a.length /\ b.props = a.props
               /\ b.lengthWritable = a.lengthWritable /\ b.extensible = a.extensible
               /\ b.n = Len(s) /\ DOMAIN b.mem = 0..cap - 1
               /\ \A i \in 0..cap - 1 : b.mem[i] = IF i < Len(s) THEN s[i + 1] ELSE Nil
<1> DEFINE m == [i \in 0..cap - 1 |-> IF i < Len(s) THEN s[i + 1] ELSE Nil]
<1>1. Len(s) \in Nat
  OBVIOUS
<1>2. m \in [0..cap - 1 -> Slots]
  <2>1. ASSUME NEW i \in 0..cap - 1 PROVE (IF i < Len(s) THEN s[i + 1] ELSE Nil) \in Slots
    BY SlotTypes
  <2> QED
    BY <2>1
<1> HIDE DEF m
<1>3. setValues(a, s, cap) = [a EXCEPT !.mem = m, !.n = Len(s)]
  BY DEF setValues, m
<1>4. m \in Memories
  BY <1>2 DEF Memories
<1>5. [a EXCEPT !.mem = m, !.n = Len(s)] \in Arrays
  BY <1>1, <1>4 DEF Arrays
<1>6. PICK b : b = [a EXCEPT !.mem = m, !.n = Len(s)]
  OBVIOUS
<1>7. /\ b.kind = a.kind /\ b.items = a.items /\ b.length = a.length /\ b.props = a.props
      /\ b.lengthWritable = a.lengthWritable /\ b.extensible = a.extensible /\ b.n = Len(s) /\ b.mem = m
  BY <1>6 DEF Arrays
<1>8. DOMAIN m = 0..cap - 1 /\ \A i \in 0..cap - 1 : m[i] = IF i < Len(s) THEN s[i + 1] ELSE Nil
  BY DEF m
<1> QED
  BY <1>3, <1>5, <1>6, <1>7, <1>8

\* The slice of an array.
LEMMA ValuesType ==
    ASSUME NEW a \in Arrays, 0..a.n - 1 \subseteq DOMAIN a.mem
    PROVE  /\ ValuesOf(a) \in Seq(Slots) /\ Len(ValuesOf(a)) = a.n
           /\ \A k \in 1..a.n : ValuesOf(a)[k] = a.mem[k - 1]
<1>1. ASSUME NEW k \in 1..a.n PROVE a.mem[k - 1] \in Slots
  <2>1. k - 1 \in 0..a.n - 1
    BY Fields
  <2> QED
    BY <2>1, Fields
<1> QED
  BY <1>1, Fields, SMTT(30) DEF ValuesOf

\* truncate leaves the slots below l, and empties those that it cuts off.
LEMMA Truncate ==
    ASSUME NEW a \in Arrays, 0..a.n - 1 \subseteq DOMAIN a.mem, NEW l \in Nat,
           \A i \in DOMAIN a.mem : i >= a.n => a.mem[i] = Nil
    PROVE  LET b == truncate(a, l)
           IN  /\ b \in Arrays /\ b.kind = a.kind /\ b.items = a.items /\ b.length = a.length /\ b.props = a.props
               /\ b.lengthWritable = a.lengthWritable /\ b.extensible = a.extensible
               /\ b.n = (IF l > a.n THEN a.n ELSE l)
               /\ 0..b.n - 1 \subseteq DOMAIN b.mem
               /\ \A i \in 0..b.n - 1 : b.mem[i] = a.mem[i]
               /\ \A i \in DOMAIN b.mem : i >= b.n => b.mem[i] = Nil
               /\ l > a.n => b = a
<1>1. CASE l > a.n
  <2>1. truncate(a, l) = a
    BY <1>1, Fields DEF truncate
  <2> QED
    BY <1>1, <2>1
<1>2. CASE l <= a.n /\ l >= ReallocFrom /\ l < Cap(a) \div ReallocRatio
  <2>1. a.n \in Nat
    BY Fields
  <2>2. truncate(a, l) = setValues(a, SubSeq(ValuesOf(a), 1, l), l)
    BY <1>2, <2>1 DEF truncate
  <2> DEFINE s == SubSeq(ValuesOf(a), 1, l)
  <2>3. s \in Seq(Slots) /\ Len(s) = l /\ \A k \in 1..l : s[k] = a.mem[k - 1]
    <3>1. \A k \in 1..l : k \in 1..a.n
      BY <1>2, <2>1
    <3> QED
      BY <1>2, <2>1, <3>1, ValuesType
  <2> HIDE DEF s
  <2>4. PICK b : b = setValues(a, s, l)
    OBVIOUS
  <2>5. /\ b \in Arrays /\ b.kind = a.kind /\ b.items = a.items /\ b.length = a.length /\ b.props = a.props
        /\ b.lengthWritable = a.lengthWritable /\ b.extensible = a.extensible
        /\ b.n = l /\ DOMAIN b.mem = 0..l - 1
        /\ \A i \in 0..l - 1 : b.mem[i] = IF i < l THEN s[i + 1] ELSE Nil
    <3>1. Len(s) <= l
      BY <2>3
    <3> QED
      BY <2>3, <2>4, <3>1, SetValues, ZenonT(60)
  <2>6. \A i \in 0..l - 1 : b.mem[i] = a.mem[i]
    BY <2>3, <2>5
  <2>7. truncate(a, l) = b
    BY <2>2, <2>4 DEF s
  <2> QED
    BY <1>2, <2>1, <2>5, <2>6, <2>7
<1>3. CASE ~(l > a.n) /\ ~(l <= a.n /\ l >= ReallocFrom /\ l < Cap(a) \div ReallocRatio)
  <2>1. a.n \in Nat /\ Cap(a) \in Nat /\ DOMAIN a.mem = 0..Cap(a) - 1 /\ a.mem \in [DOMAIN a.mem -> Slots]
    BY Fields
  <2> DEFINE m == [i \in DOMAIN a.mem |-> IF i >= l /\ i < a.n THEN Nil ELSE a.mem[i]]
  <2>2. m \in [0..Cap(a) - 1 -> Slots]
    BY <2>1, SlotTypes
  <2>3. truncate(a, l) = [a EXCEPT !.mem = m, !.n = l]
    BY <1>3 DEF truncate
  <2>4. DOMAIN m = DOMAIN a.mem /\ \A i \in DOMAIN a.mem : m[i] = IF i >= l /\ i < a.n THEN Nil ELSE a.mem[i]
    OBVIOUS
  <2> HIDE DEF m
  <2>5. m \in Memories
    BY <2>1, <2>2 DEF Memories
  <2>6. PICK b : b = [a EXCEPT !.mem = m, !.n = l]
    OBVIOUS
  <2>7. /\ b \in Arrays /\ b.kind = a.kind /\ b.items = a.items /\ b.length = a.length /\ b.props = a.props
        /\ b.lengthWritable = a.lengthWritable /\ b.extensible = a.extensible /\ b.n = l /\ b.mem = m
    BY <2>5, <2>6 DEF Arrays
  <2>8. \A i \in 0..l - 1 : i \in 0..a.n - 1 /\ i \in DOMAIN a.mem /\ b.mem[i] = a.mem[i]
    BY <1>3, <2>1, <2>4, <2>7
  <2>9. ASSUME NEW i \in DOMAIN b.mem, i >= l PROVE b.mem[i] = Nil
    BY <2>1, <2>4, <2>7, <2>9
  <2> QED
    BY <1>3, <2>1, <2>3, <2>4, <2>6, <2>7, <2>8, <2>9
<1> QED
  BY <1>1, <1>2, <1>3

\* Where a truncation stops.
LEMMA StopsAt ==
    ASSUME NEW a \in Arrays, Tidy(a), NEW l \in Nat, NEW b \in Nat, Below(a, b)
    PROVE  stopsAt(a, l) \in Nat /\ stopsAt(a, l) >= l /\ (stopsAt(a, l) = l \/ stopsAt(a, l) - 1 \in Indices(a))
<1> DEFINE fixed == {i \in Indices(a) : i >= l /\ a.props > 0 /\ getOwnPropIdx(a, i).p /\ ~getOwnPropIdx(a, i).c}
<1>1. stopsAt(a, l) = IF fixed = {} THEN l ELSE Max(fixed) + 1
  BY DEF stopsAt
<1>2. fixed \subseteq Indices(a) /\ fixed \in SUBSET Nat /\ \A i \in fixed : i >= l
  BY Finite
<1> HIDE DEF fixed
<1>3. fixed # {} => Max(fixed) \in fixed
  <2>1. \A k \in fixed : k <= b
    BY <1>2 DEF Below
  <2> QED
    BY <1>2, <2>1, MaxOf
<1>4. CASE fixed = {}
  BY <1>1, <1>4
<1>5. CASE fixed # {}
  <2>1. PICK m \in fixed : m = Max(fixed)
    BY <1>3, <1>5
  <2>2. m \in Nat /\ m >= l /\ m \in Indices(a)
    BY <1>2
  <2>3. stopsAt(a, l) = m + 1
    BY <1>1, <1>5, <2>1
  <2> QED
    BY <2>2, <2>3
<1> QED
  BY <1>4, <1>5

\* _setLengthInt of an array that is sound but for elements between its length and
\* the new one, which unshift and splice have put there.
LEMMA SetLengthInt ==
    ASSUME NEW a \in Arrays, Tidy(a), NEW l \in Nat, \A i \in Indices(a) : i < a.length \/ i < l
    PROVE  LET r == _setLengthInt(a, l)
           IN  /\ r \in Results /\ r.a.kind = a.kind
               /\ r.a.lengthWritable = a.lengthWritable /\ r.a.extensible = a.extensible
               /\ l > a.length => /\ r.ok /\ r.a.length = l
                                  /\ (Dense(a) /\ l <= a.n /\ r.a.n = l) \/ r.a = [a EXCEPT !.length = l]
<1> DEFINE stop    == IF l <= a.length THEN stopsAt(a, l) ELSE l
           dropped == Cardinality({i \in Indices(a) : i >= stop /\ getOwnPropIdx(a, i).p})
           props   == IF l <= a.length /\ a.props > 0 THEN a.props - dropped ELSE a.props
           d       == [a EXCEPT !.props = props]
           cut     == IF Dense(a) THEN truncate(d, stop) ELSE cutItems(d, stop)
<1>1. _setLengthInt(a, l) = [a |-> [cut EXCEPT !.length = stop], ok |-> stop = l]
  BY DEF _setLengthInt
<1>2. a.length \in Nat /\ a.props \in Int /\ a.n \in Nat
  BY Fields
<1>3. Below(a, a.length + l)
  BY <1>2, Finite DEF Below
<1>4. stop \in Nat /\ stop >= l /\ (l > a.length => stop = l)
  BY <1>2, <1>3, StopsAt
<1> HIDE DEF stop
<1>5. \A i \in Indices(a) : i >= stop => i < a.length
  BY <1>2, <1>4, Finite
\* What is cut off, and what is counted then.
<1>6. PICK U : U = Attributed(a)
  OBVIOUS
<1>7. IsFiniteSet(U) /\ Cardinality(U) \in Nat /\ Cardinality(U) <= a.props /\ U \subseteq Nat
  BY <1>6, Finite DEF Tidy, Attributed
<1>8. PICK W : W = {i \in U : i >= stop}
  OBVIOUS
<1>9. dropped = Cardinality(W)
  <2>1. {i \in Indices(a) : i >= stop /\ getOwnPropIdx(a, i).p} = W
    BY <1>6, <1>8 DEF Attributed
  <2> QED
    BY <2>1
<1>10. IsFiniteSet(W) /\ Cardinality(W) \in Nat /\ U \intersect W = W
  BY <1>7, <1>8, FS_Subset, FS_CardinalityType
<1>11. IsFiniteSet(U \ W) /\ Cardinality(U \ W) = Cardinality(U) - Cardinality(W)
  BY <1>7, <1>10, FS_Difference
<1>12. props \in Int /\ Cardinality(U \ W) <= props
  <2>1. CASE l <= a.length /\ a.props > 0
    BY <1>2, <1>7, <1>9, <1>10, <1>11, <2>1
  <2>2. CASE ~(l <= a.length /\ a.props > 0)
    BY <1>2, <1>7, <1>10, <1>11, <2>2
  <2> QED
    BY <2>1, <2>2
<1> HIDE DEF dropped, props
\* The array that is cut.
<1>13. /\ d \in Arrays /\ d.kind = a.kind /\ d.items = a.items /\ d.mem = a.mem /\ d.n = a.n /\ d.props = props
       /\ d.length = a.length /\ d.lengthWritable = a.lengthWritable /\ d.extensible = a.extensible
  BY <1>12 DEF Arrays
<1>14. l > a.length => d = a
  <2>1. l > a.length => props = a.props
    BY <1>2 DEF props
  <2> QED
    BY <2>1 DEF Arrays
<1> HIDE DEF d
<1>15. /\ cut \in Arrays /\ cut.kind = a.kind /\ cut.props = props /\ cut.length = a.length
       /\ cut.lengthWritable = a.lengthWritable /\ cut.extensible = a.extensible
       /\ 0..cut.n - 1 \subseteq DOMAIN cut.mem /\ IsFiniteSet(DOMAIN cut.items)
       /\ \A i \in DOMAIN cut.mem : i >= cut.n => cut.mem[i] = Nil
       /\ \A i \in Indices(cut) : i < stop
       /\ Attributed(cut) = U \ W
       /\ (Dense(a) /\ stop <= a.n /\ cut.n = stop) \/ cut = [d EXCEPT !.items = cut.items]
       /\ cut.items = a.items \/ (~Dense(a) /\ cut.items = [i \in {j \in DOMAIN a.items : j < stop} |-> a.items[i]])
  <2>1. CASE Dense(a)
    <3>1. cut = truncate(d, stop)
      BY <2>1
    <3> HIDE DEF cut
    <3>2. /\ cut \in Arrays /\ cut.kind = a.kind /\ cut.items = a.items /\ cut.length = a.length /\ cut.props = props
          /\ cut.lengthWritable = a.lengthWritable /\ cut.extensible = a.extensible
          /\ cut.n = (IF stop > a.n THEN a.n ELSE stop)
          /\ 0..cut.n - 1 \subseteq DOMAIN cut.mem
          /\ \A i \in 0..cut.n - 1 : cut.mem[i] = a.mem[i]
          /\ \A i \in DOMAIN cut.mem : i >= cut.n => cut.mem[i] = Nil
          /\ stop > a.n => cut = d
      BY <1>4, <1>13, <3>1, Truncate DEF Tidy
    <3>3. Dense(cut) /\ cut.n \in Nat
      BY <2>1, <3>2, Fields DEF Dense
    <3>4. ASSUME NEW i \in Indices(cut) PROVE i < stop
      BY <3>2, <3>3, <1>2, <1>4 DEF Indices
    <3>5. Attributed(cut) = {i \in 0..cut.n - 1 : cut.mem[i].p} /\ U = {i \in 0..a.n - 1 : a.mem[i].p}
      BY <1>6, <2>1, <3>2, <3>3, AttributedIs DEF Tidy
    <3>6. Attributed(cut) = U \ W
      BY <1>2, <1>4, <1>8, <3>2, <3>3, <3>5
    <3>7. cut = d => cut = [d EXCEPT !.items = cut.items]
      BY <1>13 DEF Arrays
    <3>8. IsFiniteSet(DOMAIN cut.items)
      BY <3>2 DEF Tidy
    <3>9. (Dense(a) /\ stop <= a.n /\ cut.n = stop) \/ cut = [d EXCEPT !.items = cut.items]
      BY <2>1, <1>2, <1>4, <3>2, <3>7
    <3> QED
      BY <3>2, <3>4, <3>6, <3>8, <3>9
  <2>2. CASE ~Dense(a)
    <3> DEFINE f == [i \in {j \in DOMAIN a.items : j < stop} |-> a.items[i]]
    <3>1. cut = [d EXCEPT !.items = f]
      BY <2>2, <1>13 DEF cutItems
    <3>2. f \in [{j \in DOMAIN a.items : j < stop} -> Slots] /\ DOMAIN f = {j \in DOMAIN a.items : j < stop}
      BY Fields
    <3>3. f \in ItemMaps
      BY <3>2, Fields DEF ItemMaps
    <3>4. \A i \in DOMAIN f : f[i] = a.items[i]
      OBVIOUS
    <3>5. IsFiniteSet(DOMAIN f)
      BY <3>2, FS_Subset DEF Tidy
    <3> HIDE DEF f, cut
    <3>6. /\ cut \in Arrays /\ cut.kind = a.kind /\ cut.items = f /\ cut.length = a.length /\ cut.props = props
          /\ cut.lengthWritable = a.lengthWritable /\ cut.extensible = a.extensible
          /\ cut.n = a.n /\ cut.mem = a.mem
      BY <1>13, <3>1, <3>3 DEF Arrays
    <3>7. ~Dense(cut)
      BY <2>2, <3>6 DEF Dense
    <3>8. ASSUME NEW i \in Indices(cut) PROVE i < stop
      BY <3>2, <3>6, <3>7 DEF Indices
    <3>9. Attributed(cut) = {i \in DOMAIN f : f[i].p} /\ U = {i \in DOMAIN a.items : a.items[i].p}
      BY <1>6, <2>2, <3>6, <3>7, AttributedIs DEF Tidy
    <3>10. Attributed(cut) = U \ W
      BY <1>4, <1>7, <1>8, <3>2, <3>4, <3>9
    <3> QED
      BY <2>2, <3>1, <3>5, <3>6, <3>8, <3>10 DEF Tidy, f
  <2> QED
    BY <2>1, <2>2
<1> HIDE DEF cut
<1>16. PICK b : b = [cut EXCEPT !.length = stop]
  OBVIOUS
<1>17. /\ b \in Arrays /\ b.kind = cut.kind /\ b.items = cut.items /\ b.mem = cut.mem /\ b.n = cut.n /\ b.props = props
       /\ b.length = stop /\ b.lengthWritable = a.lengthWritable /\ b.extensible = a.extensible
  BY <1>4, <1>15, <1>16 DEF Arrays
<1>18. Indices(b) = Indices(cut) /\ Attributed(b) = Attributed(cut)
  BY <1>17 DEF Indices, Attributed, getOwnPropIdx, getSlot, getItem, Dense
<1>19. Tidy(b) /\ Below(b, b.length)
  BY <1>12, <1>15, <1>17, <1>18 DEF Tidy, Below
<1>20. ASSUME l > a.length, ~(Dense(a) /\ l <= a.n /\ b.n = l) PROVE b = [a EXCEPT !.length = l]
  <2>1. stop = l /\ d = a
    BY <1>4, <1>14, <1>20
  <2>2. cut = [a EXCEPT !.items = cut.items]
    BY <1>15, <1>17, <1>20, <2>1
  <2>3. cut.items = a.items
    <3>1. CASE ~Dense(a) /\ cut.items = [i \in {j \in DOMAIN a.items : j < stop} |-> a.items[i]]
      <4>1. {j \in DOMAIN a.items : j < stop} = DOMAIN a.items
        BY <1>2, <1>4, <1>5, <1>20, <2>1, <3>1, Fields DEF Indices
      <4> QED
        BY <3>1, <4>1, Fields
    <3> QED
      BY <1>15, <3>1
  <2>4. cut = a
    BY <2>2, <2>3 DEF Arrays
  <2> QED
    BY <1>16, <2>1, <2>4
<1>21. _setLengthInt(a, l) = [a |-> b, ok |-> stop = l]
  BY <1>1, <1>16
<1>22. b \in SoundArrays
  BY <1>17, <1>19 DEF SoundArrays
<1>23. PICK r : r = _setLengthInt(a, l)
  OBVIOUS
<1>24. r.a = b /\ r.ok = (stop = l)
  BY <1>21, <1>23
<1>25. r \in Results
  BY <1>21, <1>22, <1>23 DEF Results
<1>26. l > a.length => /\ r.ok /\ r.a.length = l
                       /\ (Dense(a) /\ l <= a.n /\ r.a.n = l) \/ r.a = [a EXCEPT !.length = l]
  BY <1>4, <1>17, <1>20, <1>24
<1> QED
  BY <1>15, <1>17, <1>23, <1>24, <1>25, <1>26

\* An access that does nothing, or only throws.
LEMMA OkFails ==
    ASSUME NEW a
    PROVE  /\ Ok(a).a = a /\ Ok(a).ok /\ Fails(a).a = a /\ ~Fails(a).ok
           /\ a \in SoundArrays => Ok(a) \in Results /\ Fails(a) \in Results
BY DEF Ok, Fails, Results

\* o.length = l.
LEMMA SetLength ==
    ASSUME NEW a \in SoundArrays, NEW l \in Nat
    PROVE  setLength(a, l) \in Results /\ setLengthInt(a, l) \in Results
<1>1. a \in Arrays /\ Tidy(a) /\ \A i \in Indices(a) : i < a.length \/ i < l
  BY DEF SoundArrays, Below
<1>2. _setLengthInt(a, l) \in Results
  BY <1>1, SetLengthInt
<1> QED
  BY <1>2, OkFails DEF setLength, setLengthInt

\* Room in length for an index, which an access makes first.
LEMMA Lengthen ==
    ASSUME NEW a \in SoundArrays, NEW idx \in Nat, NEW r,
           r = IF idx >= a.length THEN setLengthInt(a, idx + 1) ELSE Ok(a)
    PROVE  /\ r \in Results
           /\ r.ok => /\ r.a \in SoundArrays /\ r.a.kind = a.kind /\ idx < r.a.length
                      /\ (Dense(a) /\ idx < a.n /\ r.a.n = idx + 1) \/ r.a = a \/ r.a = [a EXCEPT !.length = idx + 1]
<1>1. a \in Arrays /\ Tidy(a) /\ \A i \in Indices(a) : i < a.length \/ i < idx + 1
  BY DEF SoundArrays, Below
<1>2. a.length \in Nat /\ a.n \in Nat
  BY <1>1, Fields
<1>3. CASE idx < a.length
  <2>1. r = Ok(a)
    BY <1>2, <1>3
  <2>2. r.a = a /\ r.ok /\ r \in Results
    BY <2>1, OkFails
  <2> QED
    BY <1>3, <2>2
<1>4. CASE idx >= a.length
  <2>1. PICK l \in Nat : l = idx + 1
    OBVIOUS
  <2>2. l > a.length /\ r = setLengthInt(a, l)
    BY <1>2, <1>4, <2>1
  <2>3. CASE a.lengthWritable
    <3>1. r = _setLengthInt(a, l)
      BY <1>2, <2>2, <2>3 DEF setLengthInt
    <3>2. \A i \in Indices(a) : i < a.length \/ i < l
      BY <1>1, <2>1
    <3>3. /\ r \in Results /\ r.a.kind = a.kind
          /\ l > a.length => /\ r.ok /\ r.a.length = l
                             /\ (Dense(a) /\ l <= a.n /\ r.a.n = l) \/ r.a = [a EXCEPT !.length = l]
      BY <1>1, <3>1, <3>2, SetLengthInt
    <3>4. r.a \in SoundArrays
      BY <3>3 DEF Results
    <3> QED
      BY <1>2, <2>1, <2>2, <3>3, <3>4
  <2>4. CASE ~a.lengthWritable
    <3>1. r = Fails(a)
      BY <1>2, <2>2, <2>4 DEF setLengthInt
    <3>2. ~r.ok /\ r \in Results
      BY <3>1, OkFails
    <3> QED
      BY <3>2
  <2> QED
    BY <2>3, <2>4
<1> QED
  BY <1>2, <1>3, <1>4

\* An empty function, as memory and as items.
LEMMA NoSlots ==
    /\ <<>> \in Memories
    /\ <<>> \in ItemMaps
    /\ DOMAIN <<>> = {} /\ IsFiniteSet({})
<1>1. <<>> \in [{} -> Slots] /\ DOMAIN <<>> = {}
  OBVIOUS
<1>2. 0..0 - 1 = {}
  OBVIOUS
<1>3. <<>> \in Memories
  BY <1>1, <1>2 DEF Memories
<1>4. {} \in SUBSET Nat
  OBVIOUS
<1> QED
  BY <1>1, <1>3, <1>4, FS_EmptySet DEF ItemMaps

\* A dense array that becomes sparse.
LEMMA ToSparse ==
    ASSUME NEW a \in SoundArrays, Dense(a)
    PROVE  LET x == toSparse(a)
           IN  x \in SoundArrays /\ x.kind = "sparse" /\ x.length = a.length /\ x.props = a.props
<1>1. a \in Arrays /\ Tidy(a) /\ Below(a, a.length)
  BY DEF SoundArrays
<1> DEFINE f == [i \in Indices(a) |-> a.mem[i]]
<1>2. Indices(a) = {i \in 0..a.n - 1 : a.mem[i] # Nil} /\ Indices(a) \in SUBSET Nat
  BY <1>1, Finite DEF Indices
<1>3. f \in [Indices(a) -> Slots] /\ DOMAIN f = Indices(a) /\ \A i \in Indices(a) : f[i] = a.mem[i]
  BY <1>1, <1>2, Fields DEF Tidy
<1>4. f \in ItemMaps
  BY <1>2, <1>3 DEF ItemMaps
<1>5. toSparse(a) = [a EXCEPT !.kind = "sparse", !.items = f, !.mem = <<>>, !.n = 0, !.objCount = 0]
  BY DEF toSparse
<1> HIDE DEF f
<1>6. PICK x : x = toSparse(a)
  OBVIOUS
<1>7. /\ x \in Arrays /\ x.kind = "sparse" /\ x.items = f /\ x.mem = <<>> /\ x.n = 0
      /\ x.length = a.length /\ x.props = a.props
  <2>1. PICK e : e = <<>>
    OBVIOUS
  <2>2. x = [a EXCEPT !.kind = "sparse", !.items = f, !.mem = e, !.n = 0, !.objCount = 0]
    BY <1>5, <1>6, <2>1
  <2>3. e \in Memories
    BY <2>1, NoSlots
  <2>4. x \in Arrays
    <3>1. x = [kind |-> "sparse", mem |-> e, n |-> 0, items |-> f, length |-> a.length, objCount |-> 0, props |-> a.props,
               lengthWritable |-> a.lengthWritable, extensible |-> a.extensible]
      BY <1>1, <2>2 DEF Arrays
    <3> QED
      BY <1>1, <1>4, <2>3, <3>1, Fields DEF Arrays
  <2>5. x.kind = "sparse" /\ x.items = f /\ x.mem = e /\ x.n = 0 /\ x.length = a.length /\ x.props = a.props
    BY <1>1, <2>2 DEF Arrays
  <2> QED
    BY <2>1, <2>4, <2>5
<1>8. ~Dense(x)
  BY <1>7 DEF Dense
<1>9. 0..x.n - 1 \subseteq DOMAIN x.mem
  BY <1>7
<1>10. Indices(x) = Indices(a)
  BY <1>3, <1>7, <1>8 DEF Indices
<1>11. Attributed(x) = {i \in Indices(a) : a.mem[i].p}
  BY <1>3, <1>7, <1>8, <1>9, AttributedIs
<1>12. Attributed(x) = Attributed(a)
  BY <1>1, <1>2, <1>11, AttributedIs, SlotTypes DEF Tidy
<1>13. Cardinality(Attributed(x)) <= x.props
  BY <1>1, <1>7, <1>12, NoMore, Fields
<1>14. Tidy(x)
  BY <1>1, <1>3, <1>7, <1>9, <1>13, Finite, NoSlots DEF Tidy
<1> QED
  BY <1>1, <1>6, <1>7, <1>10, <1>14 DEF SoundArrays, Below

\* A sparse array that becomes dense.
LEMMA ToDense ==
    ASSUME NEW a \in SoundArrays, ~Dense(a), NEW last \in Nat, \A i \in DOMAIN a.items : i <= last
    PROVE  LET x == toDense(a, last)
           IN  /\ x \in SoundArrays /\ x.kind = "dense" /\ x.length = a.length /\ x.props = a.props
               /\ x.n = last + 1
<1>1. a \in Arrays /\ Tidy(a) /\ Below(a, a.length)
  BY DEF SoundArrays
<1> DEFINE m == [i \in 0..last |-> getOwnPropIdx(a, i)]
<1>2. \A i \in DOMAIN a.items : i \in 0..last
  BY <1>1, Fields
<1>3. \A i : getOwnPropIdx(a, i) = IF i \in DOMAIN a.items THEN a.items[i] ELSE Nil
  BY DEF getOwnPropIdx, getItem
<1>4. m \in [0..last -> Slots]
  BY <1>1, <1>3, Fields, SlotTypes
<1>5. m \in Memories
  <2>1. last + 1 \in Nat /\ 0..(last + 1) - 1 = 0..last
    OBVIOUS
  <2> QED
    BY <1>4, <2>1 DEF Memories
<1>6. PICK q : q = Cardinality(DOMAIN a.items)
  OBVIOUS
<1>7. q \in Int
  BY <1>1, <1>6, FS_CardinalityType DEF Tidy
<1>8. toDense(a, last) = [a EXCEPT !.kind = "dense", !.mem = m, !.n = last + 1, !.objCount = q, !.items = <<>>]
  BY <1>6 DEF toDense
<1>9. DOMAIN m = 0..last /\ \A i \in 0..last : m[i] = getOwnPropIdx(a, i)
  OBVIOUS
<1> HIDE DEF m
<1>10. PICK x : x = toDense(a, last)
  OBVIOUS
<1>11. /\ x \in Arrays /\ x.kind = "dense" /\ x.items = <<>> /\ x.mem = m /\ x.n = last + 1
       /\ x.length = a.length /\ x.props = a.props
  <2>1. PICK e : e = <<>>
    OBVIOUS
  <2>2. x = [a EXCEPT !.kind = "dense", !.mem = m, !.n = last + 1, !.objCount = q, !.items = e]
    BY <1>8, <1>10, <2>1
  <2>3. e \in ItemMaps
    BY <2>1, NoSlots
  <2>4. x \in Arrays
    <3>1. x = [kind |-> "dense", mem |-> m, n |-> last + 1, items |-> e, length |-> a.length, objCount |-> q, props |-> a.props,
               lengthWritable |-> a.lengthWritable, extensible |-> a.extensible]
      BY <1>1, <2>2 DEF Arrays
    <3> QED
      BY <1>1, <1>5, <1>7, <2>3, <3>1, Fields DEF Arrays
  <2>5. x.kind = "dense" /\ x.items = e /\ x.mem = m /\ x.n = last + 1 /\ x.length = a.length /\ x.props = a.props
    BY <1>1, <2>2 DEF Arrays
  <2> QED
    BY <2>1, <2>4, <2>5
<1>12. Dense(x)
  BY <1>11 DEF Dense
<1>13. 0..x.n - 1 = 0..last
  BY <1>11
<1>14. ASSUME NEW i \in Indices(x) PROVE i \in Indices(a)
  BY <1>3, <1>9, <1>11, <1>12, <1>13 DEF Indices
<1>15. Attributed(x) = {i \in 0..last : m[i].p}
  BY <1>9, <1>11, <1>12, <1>13, AttributedIs
<1>16. Attributed(a) = {i \in DOMAIN a.items : a.items[i].p}
  BY <1>1, AttributedIs DEF Tidy
<1>17. Attributed(x) \subseteq Attributed(a)
  BY <1>3, <1>9, <1>15, <1>16, SlotTypes
<1>18. Cardinality(Attributed(x)) <= x.props
  BY <1>1, <1>11, <1>17, NoMore, Fields
<1>19. Tidy(x)
  BY <1>9, <1>11, <1>13, <1>18, NoSlots DEF Tidy
<1> QED
  BY <1>1, <1>10, <1>11, <1>14, <1>19 DEF SoundArrays, Below

\* expand of a dense array: the slice is longer, with nothing in its new slots, or
\* the array is sparse.
LEMMA ExpandDense ==
    ASSUME NEW a \in SoundArrays, Dense(a), NEW idx \in Nat
    PROVE  LET x == expandDense(a, idx)
           IN  /\ x \in SoundArrays /\ x.length = a.length /\ x.props = a.props
               /\ Dense(x) => idx < x.n
<1>1. a \in Arrays /\ Tidy(a) /\ Below(a, a.length)
  BY DEF SoundArrays
<1>2. a.n \in Nat /\ Cap(a) \in Nat /\ DOMAIN a.mem = 0..Cap(a) - 1 /\ a.length \in Nat /\ a.props \in Int
  BY <1>1, Fields
<1>3. PICK l \in Nat : l = idx + 1
  OBVIOUS
\* Any longer slice, in the same memory or with more that is empty.
<1>4. ASSUME NEW x \in Arrays, x.kind = a.kind, x.items = a.items, x.length = a.length, x.props = a.props,
             l > a.n, x.n = l, 0..l - 1 \subseteq DOMAIN x.mem,
             \A i \in DOMAIN x.mem : x.mem[i] = IF i < a.n THEN a.mem[i] ELSE Nil
      PROVE  x \in SoundArrays /\ x.length = a.length /\ x.props = a.props /\ idx < x.n
  <2>1. Dense(x)
    BY <1>4 DEF Dense
  <2>2. Indices(x) = Indices(a)
    BY <1>2, <1>4, <2>1 DEF Indices
  <2>3. Attributed(x) = {i \in 0..l - 1 : x.mem[i].p} /\ Attributed(a) = {i \in 0..a.n - 1 : a.mem[i].p}
    BY <1>1, <1>4, <2>1, AttributedIs DEF Tidy
  <2>4. Attributed(x) \subseteq Attributed(a)
    BY <1>2, <1>4, <2>3, SlotTypes
  <2>5. Cardinality(Attributed(x)) <= x.props
    BY <1>1, <1>2, <1>4, <2>4, NoMore
  <2>6. \A i \in DOMAIN x.mem : i \in Nat
    BY <1>4, Fields
  <2>7. \A i \in DOMAIN x.mem : i >= x.n => x.mem[i] = Nil
    BY <1>2, <1>4, <2>6
  <2>8. Tidy(x)
    BY <1>1, <1>4, <2>5, <2>7 DEF Tidy
  <2> QED
    BY <1>1, <1>3, <1>4, <2>2, <2>8 DEF SoundArrays, Below
<1>5. CASE l <= a.n
  <2>1. expandDense(a, idx) = a
    BY <1>2, <1>3, <1>5 DEF expandDense
  <2> QED
    BY <1>2, <1>3, <1>5, <2>1
<1>6. CASE l > a.n /\ l < Cap(a)
  <2>1. expandDense(a, idx) = [a EXCEPT !.n = l]
    BY <1>2, <1>3, <1>6 DEF expandDense
  <2>2. PICK x : x = [a EXCEPT !.n = l]
    OBVIOUS
  <2>3. /\ x \in Arrays /\ x.kind = a.kind /\ x.items = a.items /\ x.length = a.length /\ x.props = a.props
        /\ x.n = l /\ x.mem = a.mem
    BY <1>1, <2>2 DEF Arrays
  <2>4. 0..l - 1 \subseteq DOMAIN x.mem
    BY <1>2, <1>6, <2>3
  <2>5. \A i \in DOMAIN x.mem : x.mem[i] = IF i < a.n THEN a.mem[i] ELSE Nil
    BY <1>1, <1>2, <2>3, SMTT(30) DEF Tidy
  <2> QED
    BY <1>4, <1>6, <2>1, <2>2, <2>3, <2>4, <2>5
<1>7. CASE l > a.n /\ ~(l < Cap(a)) /\ idx > SparseFrom /\ (a.objCount = 0 \/ idx \div a.objCount > SparseRatio)
  <2>1. expandDense(a, idx) = toSparse(a)
    BY <1>2, <1>3, <1>7 DEF expandDense
  <2> QED
    BY <2>1, ToSparse DEF Dense
<1>8. CASE l > a.n /\ ~(l < Cap(a)) /\ ~(idx > SparseFrom /\ (a.objCount = 0 \/ idx \div a.objCount > SparseRatio))
  <2>1. expandDense(a, idx) = [setValues(a, ValuesOf(a), growCap(l, Cap(a))) EXCEPT !.n = l]
    BY <1>2, <1>3, <1>8 DEF expandDense
  <2>2. PICK cap \in Nat : cap = growCap(l, Cap(a)) /\ cap >= l
    BY <1>2 DEF growCap
  <2>3. PICK s \in Seq(Slots) : s = ValuesOf(a) /\ Len(s) = a.n /\ \A k \in 1..a.n : s[k] = a.mem[k - 1]
    BY <1>1, ValuesType DEF Tidy
  <2>4. PICK b : b = setValues(a, s, cap)
    OBVIOUS
  <2>5. /\ b \in Arrays /\ b.kind = a.kind /\ b.items = a.items /\ b.length = a.length /\ b.props = a.props
        /\ DOMAIN b.mem = 0..cap - 1
        /\ \A i \in 0..cap - 1 : b.mem[i] = IF i < Len(s) THEN s[i + 1] ELSE Nil
    <3>1. Len(s) <= cap
      BY <1>2, <1>8, <2>2, <2>3
    <3> QED
      BY <1>1, <2>4, <3>1, SetValues
  <2>6. PICK x : x = [b EXCEPT !.n = l]
    OBVIOUS
  <2>7. /\ x \in Arrays /\ x.kind = a.kind /\ x.items = a.items /\ x.length = a.length /\ x.props = a.props
        /\ x.n = l /\ x.mem = b.mem
    BY <2>5, <2>6 DEF Arrays
  <2>8. 0..l - 1 \subseteq DOMAIN x.mem
    BY <2>2, <2>5, <2>7
  <2>9. ASSUME NEW i \in DOMAIN x.mem PROVE x.mem[i] = IF i < a.n THEN a.mem[i] ELSE Nil
    <3>1. CASE i < a.n
      <4>1. i + 1 \in 1..a.n /\ (i + 1) - 1 = i
        BY <1>2, <2>5, <2>7, <3>1
      <4> QED
        BY <2>3, <2>5, <2>7, <3>1, <4>1
    <3> QED
      BY <2>3, <2>5, <2>7, <3>1
  <2> QED
    BY <1>4, <1>8, <2>1, <2>2, <2>3, <2>4, <2>6, <2>7, <2>8, <2>9
<1> QED
  BY <1>2, <1>5, <1>6, <1>7, <1>8

\* expand, for an index below length.
LEMMA Expand ==
    ASSUME NEW a \in SoundArrays, NEW idx \in Nat, idx < a.length
    PROVE  LET x == expand(a, idx)
           IN  /\ x \in SoundArrays /\ x.length = a.length /\ x.props = a.props
               /\ Dense(x) => idx < x.n
<1>1. CASE Dense(a)
  BY <1>1, ExpandDense DEF expand
<1>2. CASE ~Dense(a)
  <2>1. a \in Arrays /\ Tidy(a) /\ Below(a, a.length) /\ a.length \in Nat
    BY Fields DEF SoundArrays
  <2>2. PICK last : last = Max(DOMAIN a.items \union {idx})
    OBVIOUS
  <2>3. last \in Nat /\ idx <= last /\ \A i \in DOMAIN a.items : i <= last
    <3>1. PICK S : S = DOMAIN a.items \union {idx}
      OBVIOUS
    <3>2. S \in SUBSET Nat /\ idx \in S /\ \A i \in S : i <= a.length
      BY <1>2, <2>1, <3>1, Fields DEF Below, Indices
    <3>3. Max(S) \in S /\ \A i \in S : i <= Max(S)
      BY <2>1, <3>2, MaxOf
    <3> QED
      BY <2>2, <3>1, <3>2, <3>3
  <2>4. expand(a, idx) \in {a, toDense(a, last)}
    BY <1>2, <2>2 DEF expand, expandSparse
  <2>5. CASE expand(a, idx) = a
    BY <1>2, <2>5
  <2>6. CASE expand(a, idx) = toDense(a, last)
    <3>1. PICK x : x = toDense(a, last)
      OBVIOUS
    <3>2. x \in SoundArrays /\ x.length = a.length /\ x.props = a.props /\ x.n = last + 1
      BY <1>2, <2>3, <3>1, ToDense
    <3> QED
      BY <2>3, <2>6, <3>1, <3>2
  <2> QED
    BY <2>4, <2>5, <2>6
<1> QED
  BY <1>1, <1>2

\* A slot that is stored, without attributes, or with attributes and counted.
LEMMA Assign ==
    ASSUME NEW a \in SoundArrays, NEW idx \in Nat, idx < a.length, Dense(a) => idx < a.n, NEW slot \in Slots,
           NEW props \in Int, a.props <= props, slot.p => getOwnPropIdx(a, idx).p \/ a.props + 1 <= props,
           NEW count \in Int
    PROVE  LET x == [assign(a, idx, slot) EXCEPT !.props = props, !.objCount = count]
           IN  x \in SoundArrays
<1>1. a \in Arrays /\ Tidy(a) /\ Below(a, a.length)
  BY DEF SoundArrays
<1>2. /\ a.n \in Nat /\ Cap(a) \in Nat /\ DOMAIN a.mem = 0..Cap(a) - 1 /\ a.length \in Nat /\ a.props \in Int
      /\ a.mem \in [DOMAIN a.mem -> Slots] /\ a.items \in [DOMAIN a.items -> Slots] /\ DOMAIN a.items \in SUBSET Nat
  BY <1>1, Fields
<1> DEFINE x == [assign(a, idx, slot) EXCEPT !.props = props, !.objCount = count]
\* The attributed elements.
<1>3. ASSUME Attributed(x) \subseteq Attributed(a) \union {idx},
             idx \in Attributed(x) => slot.p, x.props = props,
             idx \in Attributed(a) <=> getOwnPropIdx(a, idx).p
      PROVE  Cardinality(Attributed(x)) <= x.props
  <2>1. PICK U : U = Attributed(a)
    OBVIOUS
  <2>2. PICK W : W = Attributed(x)
    OBVIOUS
  <2>3. IsFiniteSet(U) /\ Cardinality(U) \in Nat /\ Cardinality(U) <= a.props
    BY <1>1, <2>1, Finite DEF Tidy
  <2>4. CASE W \subseteq U
    <3>1. Cardinality(W) <= Cardinality(U) /\ IsFiniteSet(W)
      BY <2>3, <2>4, FS_Subset
    <3>2. Cardinality(W) \in Nat
      BY <3>1, FS_CardinalityType
    <3> QED
      BY <1>2, <1>3, <2>2, <2>3, <3>1, <3>2
  <2>5. CASE ~(W \subseteq U)
    <3>1. idx \in W /\ idx \notin U /\ W \subseteq U \union {idx}
      BY <1>3, <2>1, <2>2, <2>5
    <3>2. a.props + 1 <= props
      BY <1>3, <2>1, <2>2, <3>1
    <3>3. IsFiniteSet(U \union {idx}) /\ Cardinality(U \union {idx}) = Cardinality(U) + 1
      BY <2>3, <3>1, FS_AddElement
    <3>4. IsFiniteSet(W) /\ Cardinality(W) <= Cardinality(U \union {idx})
      BY <3>1, <3>3, FS_Subset
    <3>5. Cardinality(W) \in Nat
      BY <3>4, FS_CardinalityType
    <3> QED
      BY <1>2, <1>3, <2>2, <2>3, <3>2, <3>3, <3>4, <3>5
  <2> QED
    BY <2>4, <2>5
<1>4. CASE Dense(a)
  <2> DEFINE m == [a.mem EXCEPT ![idx] = slot]
  <2>1. x = [a EXCEPT !.mem = m, !.props = props, !.objCount = count]
    BY <1>1, <1>4 DEF assign, Arrays
  <2>2. m \in [0..Cap(a) - 1 -> Slots] /\ DOMAIN m = DOMAIN a.mem
    BY <1>2
  <2>3. idx \in DOMAIN a.mem /\ \A i \in DOMAIN a.mem : m[i] = IF i = idx THEN slot ELSE a.mem[i]
    BY <1>1, <1>2, <1>4 DEF Tidy
  <2>4. m \in Memories
    BY <1>2, <2>2 DEF Memories
  <2> HIDE DEF m
  <2>5. /\ x \in Arrays /\ x.kind = a.kind /\ x.items = a.items /\ x.length = a.length /\ x.props = props
        /\ x.n = a.n /\ x.mem = m
    BY <1>1, <2>1, <2>4 DEF Arrays
  <2> HIDE DEF x
  <2>6. Dense(x)
    BY <1>4, <2>5 DEF Dense
  <2>7. Indices(x) \subseteq Indices(a) \union {idx}
    BY <1>1, <1>2, <2>3, <2>5, <2>6, <1>4 DEF Indices, Tidy
  <2>8. Attributed(x) = {i \in 0..a.n - 1 : m[i].p} /\ Attributed(a) = {i \in 0..a.n - 1 : a.mem[i].p}
    BY <1>1, <1>4, <2>2, <2>5, <2>6, AttributedIs DEF Tidy
  <2>9. /\ Attributed(x) \subseteq Attributed(a) \union {idx}
        /\ idx \in Attributed(x) => slot.p
    BY <1>1, <1>2, <2>3, <2>8 DEF Tidy
  <2>10. idx \in Attributed(a) <=> getOwnPropIdx(a, idx).p
    BY <1>2, <1>4, <2>8 DEF getOwnPropIdx, getSlot
  <2>11. Cardinality(Attributed(x)) <= x.props
    BY <1>3, <2>5, <2>9, <2>10 DEF x
  <2>12. \A i \in DOMAIN x.mem : i >= x.n => x.mem[i] = Nil
    BY <1>1, <1>2, <1>4, <2>2, <2>3, <2>5 DEF Tidy
  <2>13. Tidy(x)
    BY <1>1, <2>2, <2>5, <2>11, <2>12 DEF Tidy
  <2>14. x \in SoundArrays
    BY <1>1, <2>5, <2>7, <2>13 DEF SoundArrays, Below
  <2> QED
    BY <2>14 DEF x
<1>5. CASE ~Dense(a)
  <2> DEFINE f == [i \in DOMAIN a.items \union {idx} |-> IF i = idx THEN slot ELSE a.items[i]]
  <2>1. x = [a EXCEPT !.items = f, !.props = props, !.objCount = count]
    BY <1>1, <1>5 DEF assign, putItem, Arrays
  <2>2. f \in [DOMAIN a.items \union {idx} -> Slots] /\ DOMAIN f = DOMAIN a.items \union {idx}
    BY <1>2
  <2>3. \A i \in DOMAIN f : f[i] = IF i = idx THEN slot ELSE a.items[i]
    OBVIOUS
  <2>4. f \in ItemMaps
    BY <1>2, <2>2 DEF ItemMaps
  <2> HIDE DEF f
  <2>5. /\ x \in Arrays /\ x.kind = a.kind /\ x.items = f /\ x.length = a.length /\ x.props = props
        /\ x.n = a.n /\ x.mem = a.mem
    BY <1>1, <2>1, <2>4 DEF Arrays
  <2> HIDE DEF x
  <2>6. ~Dense(x)
    BY <1>5, <2>5 DEF Dense
  <2>7. Indices(x) \subseteq Indices(a) \union {idx}
    BY <1>5, <2>2, <2>5, <2>6 DEF Indices
  <2>8. Attributed(x) = {i \in DOMAIN f : f[i].p} /\ Attributed(a) = {i \in DOMAIN a.items : a.items[i].p}
    BY <1>1, <1>5, <2>5, <2>6, AttributedIs DEF Tidy
  <2>9. /\ Attributed(x) \subseteq Attributed(a) \union {idx}
        /\ idx \in Attributed(x) => slot.p
    BY <2>2, <2>3, <2>8
  <2>10. idx \in Attributed(a) <=> getOwnPropIdx(a, idx).p
    BY <1>5, <2>8, SlotTypes DEF getOwnPropIdx, getItem
  <2>11. Cardinality(Attributed(x)) <= x.props
    BY <1>3, <2>5, <2>9, <2>10 DEF x
  <2>12. IsFiniteSet(DOMAIN f)
    BY <1>1, <2>2, FS_AddElement DEF Tidy
  <2>13. Tidy(x)
    BY <1>1, <2>5, <2>11, <2>12 DEF Tidy
  <2>14. x \in SoundArrays
    BY <1>1, <2>5, <2>7, <2>13 DEF SoundArrays, Below
  <2> QED
    BY <2>14 DEF x
<1> QED
  BY <1>4, <1>5

\* The same for what each access stores.
LEMMA Stored ==
    ASSUME NEW a \in SoundArrays, NEW idx \in Nat, idx < a.length, Dense(a) => idx < a.n, NEW slot \in Slots
    PROVE  LET y == assign(a, idx, slot)
           IN  /\ (slot.p => getOwnPropIdx(a, idx).p) => y \in SoundArrays /\ counted(y) \in SoundArrays
               /\ Dense(a) => definedSlot(y, slot) \in SoundArrays
               /\ ~Dense(a) => definedItem(y, slot) \in SoundArrays
<1>1. a \in Arrays /\ a.props \in Int /\ a.objCount \in Int
  BY Fields DEF SoundArrays
<1>2. PICK y : y = assign(a, idx, slot)
  OBVIOUS
<1>3. /\ y.props = a.props /\ y.objCount = a.objCount /\ (Dense(y) <=> Dense(a))
      /\ y = [y EXCEPT !.props = a.props, !.objCount = a.objCount]
      /\ \A k : [y EXCEPT !.objCount = k] = [y EXCEPT !.props = a.props, !.objCount = k]
      /\ \A k : [y EXCEPT !.props = k] = [y EXCEPT !.props = k, !.objCount = a.objCount]
  <2>1. CASE Dense(a)
    <3>1. y = [a EXCEPT !.mem[idx] = slot]
      BY <1>2, <2>1 DEF assign
    <3> QED
      BY <1>1, <3>1 DEF Arrays, Dense
  <2>2. CASE ~Dense(a)
    <3>1. PICK f : y = [a EXCEPT !.items = f]
      BY <1>2, <2>2 DEF assign, putItem
    <3> QED
      BY <1>1, <3>1 DEF Arrays, Dense
  <2> QED
    BY <2>1, <2>2
<1>4. ASSUME slot.p => getOwnPropIdx(a, idx).p PROVE y \in SoundArrays /\ counted(y) \in SoundArrays
  <2>1. \A k \in Int : [y EXCEPT !.props = a.props, !.objCount = k] \in SoundArrays
    <3>1. a.props <= a.props
      BY <1>1
    <3>2. ASSUME NEW k \in Int
          PROVE  [assign(a, idx, slot) EXCEPT !.props = a.props, !.objCount = k] \in SoundArrays
      BY <1>1, <1>4, <3>1, Assign
    <3> QED
      BY <1>2, <3>2
  <2>2. a.objCount + 1 \in Int
    BY <1>1
  <2> QED
    BY <1>1, <1>3, <2>1, <2>2 DEF counted
<1>5. PICK k \in Int : k = IF slot.p THEN a.props + 1 ELSE a.props
  BY <1>1
<1>6. \A j \in Int : [y EXCEPT !.props = k, !.objCount = j] \in SoundArrays
  <2>1. a.props <= k /\ (slot.p => a.props + 1 <= k)
    BY <1>1, <1>5
  <2>2. ASSUME NEW j \in Int
        PROVE  [assign(a, idx, slot) EXCEPT !.props = k, !.objCount = j] \in SoundArrays
    BY <2>1, Assign
  <2> QED
    BY <1>2, <2>2
<1>7. ASSUME Dense(a) PROVE definedSlot(y, slot) \in SoundArrays
  <2>1. definedSlot(y, slot) = [y EXCEPT !.props = k, !.objCount = a.objCount + 1]
    BY <1>3, <1>5, <1>7 DEF definedSlot
  <2>2. a.objCount + 1 \in Int
    BY <1>1
  <2> QED
    BY <1>6, <2>1, <2>2
<1>8. ASSUME ~Dense(a) PROVE definedItem(y, slot) \in SoundArrays
  <2>1. definedItem(y, slot) = [y EXCEPT !.props = k]
    BY <1>3, <1>5, <1>8 DEF definedItem
  <2>2. PICK n \in Int : n = y.objCount
    BY <1>1, <1>3
  <2>3. [y EXCEPT !.props = k] = [y EXCEPT !.props = k, !.objCount = n]
    BY <1>3, <2>2 DEF Arrays
  <2>4. [y EXCEPT !.props = k, !.objCount = n] \in SoundArrays
    BY <1>6
  <2> QED
    BY <2>1, <2>3, <2>4
<1> QED
  BY <1>2, <1>4, <1>7, <1>8

\* What an index holds.
LEMMA OwnProp ==
    ASSUME NEW a \in SoundArrays, NEW idx \in Nat
    PROVE  /\ getOwnPropIdx(a, idx) \in Slots
           /\ getOwnPropIdx(a, idx) # Nil => idx < a.length /\ (Dense(a) => idx < a.n)
           /\ getOwnPropIdx(a, idx) # Nil <=> idx \in Indices(a) /\ getOwnPropIdx(a, idx) # Nil
           /\ getIdx(a, idx) \in Int
<1>1. a \in Arrays /\ Tidy(a) /\ Below(a, a.length)
  BY DEF SoundArrays
<1>2. a.n \in Nat /\ a.mem \in [DOMAIN a.mem -> Slots] /\ a.items \in [DOMAIN a.items -> Slots]
  BY <1>1, Fields
<1>3. getOwnPropIdx(a, idx) \in Slots
  BY <1>1, <1>2, SlotTypes DEF getOwnPropIdx, getSlot, getItem, Tidy
<1>4. getOwnPropIdx(a, idx) # Nil => idx \in Indices(a) /\ (Dense(a) => idx < a.n)
  BY <1>1, <1>2 DEF getOwnPropIdx, getSlot, getItem, Indices
<1>5. getIdx(a, idx) \in Int
  BY <1>3 DEF getIdx, Slots, Undefined
<1> QED
  BY <1>1, <1>3, <1>4, <1>5 DEF Below

\* o[idx] = v.
LEMMA SetOwn ==
    ASSUME NEW a \in SoundArrays, NEW idx \in Nat, NEW v \in Int
    PROVE  _setOwnIdx(a, idx, v) \in Results
<1> DEFINE prop == getOwnPropIdx(a, idx)
           r    == IF idx >= a.length THEN setLengthInt(a, idx + 1) ELSE Ok(a)
<1>1. CASE prop # Nil /\ prop.p
  <2>1. PICK q \in Slots : q = prop /\ idx < a.length /\ (Dense(a) => idx < a.n)
    BY <1>1, OwnProp
  <2>2. PICK slot \in Slots : slot = [q EXCEPT !.v = v]
    BY DEF Slots
  <2>3. assign(a, idx, slot) \in SoundArrays
    BY <1>1, <2>1, Stored
  <2>4. _setOwnIdx(a, idx, v) = IF q.w THEN Ok(assign(a, idx, slot)) ELSE Fails(a)
    BY <1>1, <2>1, <2>2 DEF _setOwnIdx
  <2> QED
    BY <2>3, <2>4, OkFails
<1>2. CASE prop # Nil /\ ~prop.p
  <2>1. idx < a.length /\ (Dense(a) => idx < a.n)
    BY <1>2, OwnProp
  <2>2. PICK slot \in Slots : slot = PlainSlot(v) /\ ~slot.p
    BY SlotTypes
  <2>3. assign(a, idx, slot) \in SoundArrays
    BY <2>1, <2>2, Stored
  <2>4. _setOwnIdx(a, idx, v) = Ok(assign(a, idx, slot))
    BY <1>2, <2>2 DEF _setOwnIdx
  <2> QED
    BY <2>3, <2>4, OkFails
<1>3. CASE prop = Nil
  <2>1. PICK s : s = r
    OBVIOUS
  <2>2. PICK x : x = expand(s.a, idx)
    OBVIOUS
  <2>3. PICK slot \in Slots : slot = PlainSlot(v) /\ ~slot.p
    BY SlotTypes
  <2>4. _setOwnIdx(a, idx, v) = IF ~a.extensible \/ ~s.ok THEN Fails(a) ELSE Ok(counted(assign(x, idx, slot)))
    BY <1>3, <2>1, <2>2, <2>3 DEF _setOwnIdx
  <2>5. ASSUME s.ok PROVE counted(assign(x, idx, slot)) \in SoundArrays
    <3>1. s.a \in SoundArrays /\ idx < s.a.length
      BY <2>1, <2>5, Lengthen
    <3>2. x \in SoundArrays /\ x.length = s.a.length /\ (Dense(x) => idx < x.n)
      BY <2>2, <3>1, Expand
    <3> QED
      BY <2>3, <3>1, <3>2, Stored
  <2> QED
    BY <2>4, <2>5, OkFails
<1> QED
  BY <1>1, <1>2, <1>3

\* delete o[idx].
LEMMA DeleteIdx ==
    ASSUME NEW a \in SoundArrays, NEW idx \in Nat
    PROVE  _deleteIdxProp(a, idx) \in Results
<1>1. a \in Arrays /\ Tidy(a) /\ Below(a, a.length)
  BY DEF SoundArrays
<1>2. /\ a.n \in Nat /\ Cap(a) \in Nat /\ DOMAIN a.mem = 0..Cap(a) - 1 /\ a.length \in Nat /\ a.props \in Int
      /\ a.mem \in [DOMAIN a.mem -> Slots] /\ a.items \in [DOMAIN a.items -> Slots] /\ DOMAIN a.items \in SUBSET Nat
      /\ a.objCount \in Int
  BY <1>1, Fields
<1>3. PICK slot \in Slots : slot = getOwnPropIdx(a, idx)
  BY OwnProp
<1>4. PICK props \in Int : props = IF slot.p THEN a.props - 1 ELSE a.props
  BY <1>2
<1>5. PICK b : b = [a EXCEPT !.props = props]
  OBVIOUS
<1>6. CASE slot = Nil
  <2>1. _deleteIdxProp(a, idx) = Ok(a)
    BY <1>3, <1>6 DEF _deleteIdxProp
  <2> QED
    BY <2>1, OkFails
<1>7. CASE slot # Nil /\ ~slot.c
  <2>1. _deleteIdxProp(a, idx) = Fails(a)
    BY <1>3, <1>7 DEF _deleteIdxProp
  <2> QED
    BY <2>1, OkFails
<1>8. CASE slot # Nil /\ slot.c
  <2>1. _deleteIdxProp(a, idx) = Ok(IF Dense(a) THEN deleteSlot(b, idx) ELSE deleteItem(b, idx))
    BY <1>3, <1>4, <1>5, <1>8 DEF _deleteIdxProp
  <2>2. PICK U : U = Attributed(a)
    OBVIOUS
  <2>3. IsFiniteSet(U) /\ Cardinality(U) \in Nat /\ Cardinality(U) <= a.props /\ (idx \in U <=> slot.p)
    <3>1. idx \in Indices(a)
      BY <1>3, <1>8, OwnProp
    <3> QED
      BY <1>1, <1>3, <2>2, <3>1, Finite DEF Tidy, Attributed
  <2>4. IsFiniteSet(U \ {idx}) /\ Cardinality(U \ {idx}) <= props
    <3>1. CASE idx \in U
      <4>1. IsFiniteSet(U \ {idx}) /\ Cardinality(U \ {idx}) = Cardinality(U) - 1
        BY <2>3, <3>1, FS_RemoveElement
      <4> QED
        BY <1>2, <1>4, <2>3, <3>1, <4>1
    <3>2. CASE idx \notin U
      <4>1. U \ {idx} = U
        BY <3>2
      <4> QED
        BY <1>2, <1>4, <2>3, <3>2, <4>1
    <3> QED
      BY <3>1, <3>2
  <2>5. CASE Dense(a)
    <3> DEFINE m == [a.mem EXCEPT ![idx] = Nil]
    <3>1. PICK x : x = deleteSlot(b, idx)
      OBVIOUS
    <3>2. PICK count \in Int : count = a.objCount - 1
      BY <1>2
    <3>3. x = [a EXCEPT !.mem = m, !.props = props, !.objCount = count]
      BY <1>1, <1>5, <3>2, <3>1 DEF deleteSlot, Arrays
    <3>4. m \in [0..Cap(a) - 1 -> Slots] /\ DOMAIN m = DOMAIN a.mem
      BY <1>2, SlotTypes
    <3>5. \A i \in DOMAIN a.mem : m[i] = IF i = idx THEN Nil ELSE a.mem[i]
      OBVIOUS
    <3>6. m \in Memories
      BY <1>2, <3>4 DEF Memories
    <3> HIDE DEF m
    <3>7. /\ x \in Arrays /\ x.kind = a.kind /\ x.items = a.items /\ x.length = a.length /\ x.props = props
          /\ x.n = a.n /\ x.mem = m
      BY <1>1, <1>2, <3>3, <3>6 DEF Arrays
    <3>8. Dense(x)
      BY <2>5, <3>7 DEF Dense
    <3>9. Indices(x) \subseteq Indices(a)
      BY <1>1, <2>5, <3>5, <3>7, <3>8 DEF Indices, Tidy
    <3>10. Attributed(x) = {i \in 0..a.n - 1 : m[i].p} /\ U = {i \in 0..a.n - 1 : a.mem[i].p}
      BY <1>1, <2>2, <2>5, <3>4, <3>7, <3>8, AttributedIs DEF Tidy
    <3>11. Attributed(x) = U \ {idx}
      BY <1>1, <3>5, <3>10, SlotTypes DEF Tidy
    <3>12. \A i \in DOMAIN x.mem : i >= x.n => x.mem[i] = Nil
      BY <1>1, <3>4, <3>5, <3>7 DEF Tidy
    <3>13. Tidy(x)
      BY <1>1, <2>4, <3>4, <3>7, <3>11, <3>12 DEF Tidy
    <3>14. x \in SoundArrays
      BY <1>1, <3>7, <3>9, <3>13 DEF SoundArrays, Below
    <3> QED
      BY <2>1, <2>5, <3>1, <3>14, OkFails
  <2>6. CASE ~Dense(a)
    <3> DEFINE f == [i \in DOMAIN a.items \ {idx} |-> a.items[i]]
    <3>1. PICK x : x = deleteItem(b, idx)
      OBVIOUS
    <3>2. x = [a EXCEPT !.items = f, !.props = props]
      BY <1>1, <1>5, <3>1 DEF deleteItem, Arrays
    <3>3. f \in [DOMAIN a.items \ {idx} -> Slots] /\ DOMAIN f = DOMAIN a.items \ {idx}
      BY <1>2
    <3>4. \A i \in DOMAIN f : f[i] = a.items[i]
      OBVIOUS
    <3>5. f \in ItemMaps
      BY <1>2, <3>3 DEF ItemMaps
    <3> HIDE DEF f
    <3>6. /\ x \in Arrays /\ x.kind = a.kind /\ x.items = f /\ x.length = a.length /\ x.props = props
          /\ x.n = a.n /\ x.mem = a.mem
      BY <1>1, <1>2, <3>2, <3>5 DEF Arrays
    <3>7. ~Dense(x)
      BY <2>6, <3>6 DEF Dense
    <3>8. Indices(x) \subseteq Indices(a)
      BY <2>6, <3>3, <3>6, <3>7 DEF Indices
    <3>9. Attributed(x) = {i \in DOMAIN f : f[i].p} /\ U = {i \in DOMAIN a.items : a.items[i].p}
      BY <1>1, <2>2, <2>6, <3>6, <3>7, AttributedIs DEF Tidy
    <3>10. Attributed(x) = U \ {idx}
      BY <3>3, <3>4, <3>9
    <3>11. IsFiniteSet(DOMAIN f)
      BY <1>1, <3>3, FS_Subset DEF Tidy
    <3>12. Tidy(x)
      BY <1>1, <2>4, <3>6, <3>10, <3>11 DEF Tidy
    <3>13. x \in SoundArrays
      BY <1>1, <3>6, <3>8, <3>12 DEF SoundArrays, Below
    <3> QED
      BY <2>1, <2>6, <3>1, <3>13, OkFails
  <2> QED
    BY <2>5, <2>6
<1> QED
  BY <1>6, <1>7, <1>8

\* Whether expand changes the representation does not depend on length.
LEMMA ExpandKind ==
    ASSUME NEW a \in Arrays, NEW l, NEW b, b = [a EXCEPT !.length = l], NEW idx
    PROVE  expand(b, idx).kind = expand(a, idx).kind
<1>1. /\ b.kind = a.kind /\ b.n = a.n /\ b.mem = a.mem /\ b.objCount = a.objCount /\ b.items = a.items
      /\ DOMAIN b = DOMAIN a /\ {"kind", "mem", "n", "items", "objCount"} \subseteq DOMAIN a
  BY DEF Arrays
<1>2. Cap(b) = Cap(a) /\ (Dense(b) <=> Dense(a))
  BY <1>1 DEF Cap, Dense
<1>3. ASSUME NEW x, DOMAIN x = DOMAIN a
      PROVE  /\ toSparse(x).kind = "sparse" /\ \A last : toDense(x, last).kind = "dense"
             /\ \A s, cap, n : [setValues(x, s, cap) EXCEPT !.n = n].kind = x.kind
             /\ \A n : [x EXCEPT !.n = n].kind = x.kind
  BY <1>1, <1>3 DEF toSparse, toDense, setValues
<1>4. CASE Dense(a)
  <2>1. expandDense(b, idx).kind = expandDense(a, idx).kind
    BY <1>1, <1>2, <1>3 DEF expandDense
  <2> QED
    BY <1>2, <1>4, <2>1 DEF expand
<1>5. CASE ~Dense(a)
  <2>1. expandSparse(b, idx).kind = expandSparse(a, idx).kind
    BY <1>1, <1>3 DEF expandSparse
  <2> QED
    BY <1>2, <1>5, <2>1 DEF expand
<1> QED
  BY <1>4, <1>5

\* What defineProperty is given: a value or Hole, and both attributes.
Descriptors == [v : Int, w : BOOLEAN, c : BOOLEAN]

\* A descriptor that stores a plain value.
IsPlain(d) == d.w /\ d.c /\ d.v # Hole

\* defineProperty, which does not count a property when it changes the
\* representation for it.
LEMMA DefineIdx ==
    ASSUME NEW a \in SoundArrays, NEW idx \in Nat, NEW d \in Descriptors,
           IsPlain(d) \/ getOwnPropIdx(a, idx) # Nil \/ expand(a, idx).kind = a.kind
    PROVE  _defineIdxProperty(a, idx, d) \in Results
<1>1. a \in Arrays /\ a.length \in Nat /\ a.n \in Nat
  BY Fields DEF SoundArrays
<1>2. PICK old \in Slots : old = getOwnPropIdx(a, idx)
  BY OwnProp
<1>3. PICK slot \in Slots : slot = _defineOwnProperty(old, d) /\ (IsPlain(d) => ~slot.p)
  <2>1. CASE IsPlain(d)
    <3>1. _defineOwnProperty(old, d) = PlainSlot(d.v) /\ d.v \in Int
      BY <2>1 DEF _defineOwnProperty, IsPlain, Descriptors
    <3> QED
      BY <3>1, SlotTypes
  <2>2. CASE ~IsPlain(d)
    <3>1. PICK v \in Int : v = CASE d.v # Hole -> d.v [] d.v = Hole /\ old # Nil -> old.v [] OTHER -> Undefined
      BY DEF Descriptors, Slots, Undefined
    <3>2. _defineOwnProperty(old, d) = Slot(v, d.w, d.c, TRUE)
      BY <2>2, <3>1 DEF _defineOwnProperty, IsPlain
    <3>3. Slot(v, d.w, d.c, TRUE) \in Slots
      BY DEF Slot, Slots, Descriptors
    <3> QED
      BY <2>2, <3>2, <3>3
  <2> QED
    BY <2>1, <2>2
<1>4. PICK r : r = IF idx >= a.length THEN setLengthInt(a, idx + 1) ELSE Ok(a)
  OBVIOUS
<1>5. PICK x : x = IF ~Dense(a) /\ old # Nil THEN r.a ELSE expand(r.a, idx)
  OBVIOUS
<1>6. PICK y : y = assign(x, idx, slot)
  OBVIOUS
<1>7. _defineIdxProperty(a, idx, d) =
        IF ~isCompatiblePropertyDescriptor(a, old, d) \/ ~r.ok THEN Fails(a)
        ELSE Ok(IF Dense(a) THEN definedSlot(y, slot) ELSE definedItem(y, slot))
  BY <1>2, <1>3, <1>4, <1>5, <1>6 DEF _defineIdxProperty
<1>8. ASSUME r.ok PROVE (IF Dense(a) THEN definedSlot(y, slot) ELSE definedItem(y, slot)) \in SoundArrays
  <2>1. /\ r.a \in SoundArrays /\ r.a.kind = a.kind /\ idx < r.a.length
        /\ (Dense(a) /\ idx < a.n /\ r.a.n = idx + 1) \/ r.a = a \/ r.a = [a EXCEPT !.length = idx + 1]
    BY <1>4, <1>8, Lengthen
  <2>2. old # Nil => r.a = a /\ (Dense(a) => idx < a.n)
    <3>1. old # Nil => idx < a.length /\ (Dense(a) => idx < a.n)
      BY <1>2, OwnProp
    <3>2. old # Nil => r = Ok(a)
      BY <1>1, <1>4, <3>1
    <3> QED
      BY <3>1, <3>2, OkFails
  <2>3. x \in SoundArrays /\ idx < x.length /\ (Dense(x) => idx < x.n)
    <3>1. PICK z : z = expand(r.a, idx)
      OBVIOUS
    <3>2. z \in SoundArrays /\ z.length = r.a.length /\ (Dense(z) => idx < z.n)
      BY <2>1, <3>1, Expand
    <3>3. ~Dense(a) => ~Dense(r.a)
      BY <2>1 DEF Dense
    <3> QED
      BY <1>5, <2>1, <3>1, <3>2, <3>3
  <2>4. \A i \in Nat : Dense(a) /\ i < a.n => expand(a, i) = a
    BY <1>1 DEF expand, expandDense
  <2>5. (Dense(x) <=> Dense(a)) \/ ~slot.p
    <3>1. CASE ~Dense(a) /\ old # Nil
      BY <1>5, <2>2, <3>1
    <3>2. CASE Dense(a) /\ old # Nil
      BY <1>5, <2>2, <2>4, <3>2
    <3>3. CASE old = Nil
      <4>1. x = expand(r.a, idx)
        BY <1>5, <3>3
      <4>2. expand(a, idx).kind = a.kind \/ ~slot.p
        BY <1>2, <1>3, <3>3
      <4>3. CASE Dense(a) /\ idx < a.n /\ r.a.n = idx + 1
        <5>1. Dense(r.a) /\ idx + 1 <= r.a.n
          BY <2>1, <4>3 DEF Dense
        <5>2. expand(r.a, idx) = r.a
          BY <4>3, <5>1 DEF expand, expandDense
        <5> QED
          BY <4>1, <4>3, <5>1, <5>2
      <4>4. CASE r.a = a
        BY <4>1, <4>2, <4>4 DEF Dense
      <4>5. CASE r.a = [a EXCEPT !.length = idx + 1]
        <5>1. x.kind = expand(a, idx).kind
          BY <1>1, <4>1, <4>5, ExpandKind
        <5> QED
          BY <4>2, <5>1 DEF Dense
      <4> QED
        BY <2>1, <4>3, <4>4, <4>5
    <3> QED
      BY <3>1, <3>2, <3>3
  <2>6. /\ ~slot.p => y \in SoundArrays
        /\ Dense(x) => definedSlot(y, slot) \in SoundArrays
        /\ ~Dense(x) => definedItem(y, slot) \in SoundArrays
    BY <1>6, <2>3, Stored
  <2>7. Dense(y) <=> Dense(x)
    <3>1. x \in Arrays
      BY <2>3 DEF SoundArrays
    <3> QED
      BY <1>6, <3>1 DEF assign, putItem, Dense, Arrays
  <2>8. CASE Dense(x) <=> Dense(a)
    BY <2>6, <2>8
  <2>9. CASE ~(Dense(x) <=> Dense(a))
    <3>1. (IF Dense(a) THEN definedSlot(y, slot) ELSE definedItem(y, slot)) = y
      BY <2>7, <2>9 DEF definedSlot, definedItem
    <3> QED
      BY <2>5, <2>6, <2>9, <3>1
  <2> QED
    BY <2>8, <2>9
<1> QED
  BY <1>7, <1>8, OkFails

\* The steps that a method may take on an array, defineProperty apart.
StepOK(s) ==
    /\ s.op \in {"put", "delete", "length", "move", "exchange"} /\ s.i \in Nat
    /\ s.op = "put" => s.v \in Int
    /\ s.op \in {"move", "exchange"} => s.from \in Nat

\* One step.
LEMMA DoSound ==
    ASSUME NEW a \in SoundArrays, NEW s, StepOK(s)
    PROVE  Do(a, s) \in Results
<1>1. CASE s.op \in {"put", "delete", "length", "move"}
  <2>1. s.i \in Nat /\ (s.op = "put" => s.v \in Int) /\ (s.op = "move" => s.from \in Nat)
    BY DEF StepOK
  <2>2. s.op = "move" => getIdx(a, s.from) \in Int
    BY <2>1, OwnProp
  <2>3. _deleteIdxProp(a, s.i) \in Results /\ setLength(a, s.i) \in Results
    BY <2>1, DeleteIdx, SetLength
  <2>4. \A v \in Int : _setOwnIdx(a, s.i, v) \in Results
    BY <2>1, SetOwn
  <2> QED
    BY <1>1, <2>1, <2>2, <2>3, <2>4 DEF Do, Access
<1>2. CASE s.op = "exchange"
  <2>1. PICK i \in Nat, j \in Nat : i = s.i /\ j = s.from
    BY <1>2 DEF StepOK
  <2>2. getIdx(a, i) \in Int /\ getIdx(a, j) \in Int
    BY OwnProp
  <2>3. PICK p : p = _setOwnIdx(a, i, getIdx(a, j))
    OBVIOUS
  <2>4. PICK q : q = _deleteIdxProp(a, i)
    OBVIOUS
  <2>5. p \in Results /\ q \in Results
    BY <2>2, <2>3, <2>4, SetOwn, DeleteIdx
  <2>6. p.a \in SoundArrays /\ q.a \in SoundArrays
    BY <2>5 DEF Results
  <2>7. /\ _setOwnIdx(p.a, j, getIdx(a, i)) \in Results /\ _deleteIdxProp(p.a, j) \in Results
        /\ _setOwnIdx(q.a, j, getIdx(a, i)) \in Results
    BY <2>2, <2>6, SetOwn, DeleteIdx
  <2>8. Do(a, s) = arrayproto_reverse_generic_step(a, i, j, hasOwnPropertyIdx, getIdx, _setOwnIdx, _deleteIdxProp)
    BY <1>2, <2>1 DEF Do, Access
  <2>9. Do(a, s) \in {IF p.ok THEN _setOwnIdx(p.a, j, getIdx(a, i)) ELSE p,
                      IF p.ok THEN _deleteIdxProp(p.a, j) ELSE p,
                      IF q.ok THEN _setOwnIdx(q.a, j, getIdx(a, i)) ELSE q, Ok(a)}
    BY <2>3, <2>4, <2>8 DEF arrayproto_reverse_generic_step, Then
  <2> QED
    BY <2>5, <2>7, <2>9, OkFails
<1> QED
  BY <1>1, <1>2 DEF StepOK

\* An array of a length, with no elements.
LEMMA NewLength ==
    ASSUME NEW l \in Nat
    PROVE  newArrayObject \in Arrays /\ newArrayLength(l) \in SoundArrays
<1>1. PICK e : e = <<>>
  OBVIOUS
<1>2. e \in Memories /\ e \in ItemMaps /\ DOMAIN e = {} /\ IsFiniteSet({}) /\ Cardinality({}) = 0
  BY <1>1, NoSlots, FS_EmptySet
<1>3. newArrayObject = [kind |-> "dense", mem |-> e, n |-> 0, items |-> e, length |-> 0, objCount |-> 0, props |-> 0,
                        lengthWritable |-> TRUE, extensible |-> TRUE]
  BY <1>1 DEF newArrayObject
<1>4. newArrayObject \in Arrays
  BY <1>2, <1>3 DEF Arrays
<1>5. PICK x : x = newArrayLength(l)
  OBVIOUS
<1>6. /\ x \in Arrays /\ x.kind = "dense" /\ x.mem = e /\ x.n = 0 /\ x.items = e /\ x.length = l /\ x.props = 0
  BY <1>3, <1>4, <1>5 DEF newArrayLength, Arrays
<1>7. 0..x.n - 1 = {} /\ Dense(x)
  BY <1>6 DEF Dense
<1>8. Indices(x) = {}
  BY <1>7 DEF Indices
<1>9. Attributed(x) = {}
  BY <1>8 DEF Attributed
<1>10. Tidy(x)
  BY <1>2, <1>6, <1>7, <1>9 DEF Tidy
<1> QED
  BY <1>4, <1>5, <1>6, <1>8, <1>10 DEF SoundArrays, Below

\* The elements of a plan, created one after the other.
LEMMA Built ==
    ASSUME NEW l \in Nat, NEW n \in Nat, NEW puts, DOMAIN puts = 1..n, \A k \in 1..n : puts[k] \in Puts
    PROVE  FoldLeft(LAMBDA x, s : createDataPropertyOrThrow(x, s.i, s.v).a, newArrayLength(l), puts) \in SoundArrays
<1> DEFINE S     == SoundArrays
           Op(x, k) == createDataPropertyOrThrow(x, puts[k].i, puts[k].v).a
           F     == [z \in (1..n) \X S |-> Op(z[2], z[1])]
           Is(f) == f = [s \in SUBSET (1..n) |-> IF s = {} THEN newArrayLength(l) ELSE Op(f[s \ {Max(s)}], Max(s))]
           g     == CHOOSE f : Is(f)
<1>1. FoldLeft(LAMBDA x, s : createDataPropertyOrThrow(x, s.i, s.v).a, newArrayLength(l), puts) = g[1..n]
  BY DEF FoldLeft, MapThenFoldSet
<1>2. newArrayLength(l) \in S
  BY NewLength
<1>3. ASSUME NEW x \in S, NEW k \in 1..n PROVE Op(x, k) \in S
  <2>1. puts[k].i \in Nat /\ puts[k].v \in Int /\ puts[k].v # Hole
    BY DEF Puts
  <2>2. PICK d \in Descriptors : d = [v |-> puts[k].v, w |-> TRUE, c |-> TRUE]
    BY <2>1 DEF Descriptors
  <2>3. IsPlain(d)
    BY <2>1, <2>2 DEF IsPlain
  <2>4. _defineIdxProperty(x, puts[k].i, d) \in Results
    BY <2>1, <2>3, DefineIdx
  <2> QED
    BY <2>2, <2>4 DEF createDataPropertyOrThrow, Results
<1> HIDE DEF S, Op
<1>4. F \in [(1..n) \X S -> S]
  BY <1>3
<1>5. \A s \in SUBSET (1..n) : s # {} => Max(s) \in 1..n /\ s \ {Max(s)} \in SUBSET (1..n)
  BY MaxWithin
<1>6. \E f : Is(f)
  <2>1. PICK f : Folds(f, n, S, newArrayLength(l), F)
    <3> HIDE DEF F
    <3> QED
      BY <1>2, <1>4, FoldExists
  <2>2. /\ f \in [SUBSET (1..n) -> S]
        /\ \A s \in SUBSET (1..n) : f[s] = IF s = {} THEN newArrayLength(l) ELSE F[<<Max(s), f[s \ {Max(s)}]>>]
    BY <2>1 DEF Folds
  <2>3. ASSUME NEW s \in SUBSET (1..n), s # {} PROVE f[s] = Op(f[s \ {Max(s)}], Max(s))
    <3>1. <<Max(s), f[s \ {Max(s)}]>> \in (1..n) \X S
      BY <1>5, <2>2, <2>3
    <3> QED
      BY <2>2, <2>3, <3>1
  <2> QED
    BY <2>2, <2>3
<1>7. Is(g)
  <2> HIDE DEF Is
  <2> QED
    BY <1>6
<1>8. g[{}] \in S
  BY <1>2, <1>7
<1>9. ASSUME NEW s \in SUBSET (1..n), s # {}, g[s \ {Max(s)}] \in S PROVE g[s] \in S
  <2>1. g[s] = Op(g[s \ {Max(s)}], Max(s)) /\ Max(s) \in 1..n
    BY <1>5, <1>7, <1>9
  <2> HIDE DEF g
  <2> QED
    BY <1>3, <1>9, <2>1
<1>10. g[1..n] \in S
  <2> HIDE DEF g
  <2> QED
    BY <1>8, <1>9, FoldStays
<1> QED
  BY <1>1, <1>10 DEF S

\* A plan is carried out.
LEMMA BuildSound ==
    ASSUME NEW l \in Nat, NEW puts \in Seq(Puts), NEW end \in Int, end = NoLength \/ end \in Nat,
           NEW plan, plan = [l |-> l, puts |-> puts, end |-> end]
    PROVE  build(plan) \in SoundArrays
<1>1. PICK a : a = FoldLeft(LAMBDA x, s : createDataPropertyOrThrow(x, s.i, s.v).a, newArrayLength(l), puts)
  OBVIOUS
<1>2. a \in SoundArrays
  <2>1. PICK n \in Nat : n = Len(puts)
    OBVIOUS
  <2>2. DOMAIN puts = 1..n /\ \A k \in 1..n : puts[k] \in Puts
    BY <2>1
  <2> QED
    BY <1>1, <2>2, Built
<1>3. build(plan) = IF end = NoLength THEN a ELSE setLength(a, end).a
  BY <1>1 DEF build
<1>4. end # NoLength => setLength(a, end).a \in SoundArrays
  BY <1>2, SetLength DEF Results
<1> QED
  BY <1>2, <1>3, <1>4

\* An array of plain slots, in memory of its own.
LEMMA NewValues ==
    ASSUME NEW s \in Seq(Plains)
    PROVE  newArrayValues(s) \in SoundArrays
<1>1. newArrayObject \in Arrays
  BY NewLength
<1>2. s \in Seq(Slots) /\ Len(s) \in Nat /\ \A k \in 1..Len(s) : s[k] \in Slots /\ ~s[k].p
  BY DEF Plains
<1>3. PICK e : e = <<>>
  OBVIOUS
<1>4. PICK b : b = setValues(newArrayObject, s, Len(s))
  OBVIOUS
<1>5. /\ b \in Arrays /\ b.kind = "dense" /\ b.items = e /\ b.props = 0
      /\ b.n = Len(s) /\ DOMAIN b.mem = 0..Len(s) - 1
      /\ \A i \in 0..Len(s) - 1 : b.mem[i] = IF i < Len(s) THEN s[i + 1] ELSE Nil
  <2>1. newArrayObject.kind = "dense" /\ newArrayObject.items = e /\ newArrayObject.props = 0
    BY <1>3 DEF newArrayObject
  <2>2. Len(s) <= Len(s)
    BY <1>2
  <2> QED
    BY <1>1, <1>2, <1>4, <2>1, <2>2, SetValues
<1>6. PICK x : x = newArrayValues(s)
  OBVIOUS
<1>7. PICK n \in Nat : n = Len(s) /\ n \in Int
  BY <1>2
<1>8. x = [b EXCEPT !.length = n, !.objCount = n]
  BY <1>4, <1>6, <1>7 DEF newArrayValues, setArrayValues
<1>9. /\ x \in Arrays /\ x.kind = "dense" /\ x.items = e /\ x.props = 0 /\ x.length = Len(s)
      /\ x.n = Len(s) /\ x.mem = b.mem
  BY <1>5, <1>8, <1>7 DEF Arrays
<1>10. Dense(x) /\ 0..x.n - 1 = DOMAIN x.mem
  BY <1>5, <1>9 DEF Dense
<1>11. \A i \in 0..x.n - 1 : ~x.mem[i].p
  BY <1>2, <1>5, <1>9
<1>12. Attributed(x) = {}
  BY <1>9, <1>10, <1>11, AttributedIs
<1>13. IsFiniteSet(DOMAIN x.items) /\ Cardinality({}) = 0
  BY <1>3, <1>9, NoSlots, FS_EmptySet
<1>14. Tidy(x)
  BY <1>2, <1>9, <1>10, <1>12, <1>13 DEF Tidy
<1>15. Below(x, x.length)
  BY <1>2, <1>9, <1>10 DEF Below, Indices
<1> QED
  BY <1>6, <1>9, <1>14, <1>15 DEF SoundArrays

\* Plain slots of values.
LEMMA PlainSlotsType ==
    ASSUME NEW n \in Nat, NEW vs \in [1..n -> Int]
    PROVE  PlainSlots(vs) \in Seq(Plains) /\ Len(PlainSlots(vs)) = n
<1>1. \A k \in 1..n : PlainSlot(vs[k]) \in Plains
  BY SlotTypes DEF Plains
<1>2. Len(vs) = n
  OBVIOUS
<1>3. PlainSlots(vs) = [k \in 1..n |-> PlainSlot(vs[k])]
  BY <1>2 DEF PlainSlots
<1> QED
  BY <1>1, <1>3

-----------------------------------------------------------------------------
(* Methods                                                                 *)

\* The accesses but defineProperty, with arguments of their types.
StepSet ==
    [op : {"put"}, i : Nat, v : Int] \union [op : {"delete", "length"}, i : Nat]
    \union [op : {"move", "exchange"}, i : Nat, from : Nat]

\* How steps are made.
LEMMA StepTypes ==
    /\ \A i \in Nat : \A v \in Int : Put(i, v) \in StepSet
    /\ \A i \in Nat : Delete(i) \in StepSet /\ Length(i) \in StepSet
    /\ \A i \in Nat : \A j \in Nat : Move(i, j) \in StepSet /\ Exchange(i, j) \in StepSet
    /\ \A s \in StepSet : StepOK(s)
<1>1. \A i \in Nat : \A v \in Int : Put(i, v) \in StepSet
  BY DEF Put, StepSet
<1>2. \A i \in Nat : Delete(i) \in StepSet /\ Length(i) \in StepSet
  BY DEF Delete, Length, StepSet
<1>3. \A i \in Nat : \A j \in Nat : Move(i, j) \in StepSet /\ Exchange(i, j) \in StepSet
  BY DEF Move, Exchange, StepSet
<1>4. \A s \in StepSet : StepOK(s)
  BY DEF StepOK, StepSet
<1> QED
  BY <1>1, <1>2, <1>3, <1>4

\* What relToIdx and the numbers of a call are.
LEMMA Numbers ==
    ASSUME NEW l \in Nat
    PROVE  /\ \A i \in Int : relToIdx(i, l) \in 0..l
           /\ \A c : c.i \in Int => Start(c, l) \in 0..l
           /\ \A c : c.d \in Int => End(c, l) \in 0..l
           /\ \A c : c.i \in Int /\ c.d \in Int => Count(c, l) \in 0..l - Start(c, l)
           /\ \A c : c.i \in Int /\ c.d \in Int =>
                        Copied(c, l) \in Nat /\ Copied(c, l) <= l - End(c, l) /\ Copied(c, l) <= l - Start(c, l)
<1>1. ASSUME NEW x \in Int, NEW y \in Int
      PROVE  /\ Min({x, y}) = IF x <= y THEN x ELSE y
             /\ Max({x, y}) = IF x <= y THEN y ELSE x
  <2>1. CASE x <= y
    <3>1. {x, y} \in SUBSET Int /\ x \in {x, y} /\ y \in {x, y}
          /\ (\A k \in {x, y} : x <= k) /\ (\A k \in {x, y} : k <= y)
      BY <2>1
    <3>2. PICK S : S = {x, y}
      OBVIOUS
    <3>3. Min(S) = x /\ Max(S) = y
      BY <3>1, <3>2, MinIs, MaxIs
    <3> QED
      BY <2>1, <3>2, <3>3
  <2>2. CASE ~(x <= y)
    <3>1. {x, y} \in SUBSET Int /\ x \in {x, y} /\ y \in {x, y}
          /\ (\A k \in {x, y} : y <= k) /\ (\A k \in {x, y} : k <= x)
      BY <2>2
    <3>2. PICK S : S = {x, y}
      OBVIOUS
    <3>3. Min(S) = y /\ Max(S) = x
      BY <3>1, <3>2, MinIs, MaxIs
    <3> QED
      BY <2>2, <3>2, <3>3
  <2> QED
    BY <2>1, <2>2
<1>2. ASSUME NEW i \in Int PROVE relToIdx(i, l) \in 0..l
  <2>1. l + i \in Int /\ l \in Int /\ 0 \in Int
    OBVIOUS
  <2>2. Min({i, l}) = (IF i <= l THEN i ELSE l) /\ Max({l + i, 0}) = (IF l + i <= 0 THEN 0 ELSE l + i)
    BY <2>1, <1>1
  <2> QED
    BY <2>2 DEF relToIdx
<1>3. ASSUME NEW c, c.i \in Int PROVE Start(c, l) \in 0..l
  BY <1>2, <1>3 DEF Start
<1>4. ASSUME NEW c, c.d \in Int PROVE End(c, l) \in 0..l
  BY <1>2, <1>4 DEF End
<1>5. ASSUME NEW c, c.i \in Int, c.d \in Int PROVE Count(c, l) \in 0..l - Start(c, l)
  <2>1. PICK s \in 0..l : s = Start(c, l)
    BY <1>3, <1>5
  <2>2. PICK m \in Int : m = Max({c.d, 0}) /\ m >= 0
    <3>1. 0 \in Int /\ c.d \in Int
      BY <1>5
    <3>2. Max({c.d, 0}) = IF c.d <= 0 THEN 0 ELSE c.d
      BY <1>1, <3>1
    <3> QED
      BY <3>1, <3>2
  <2>3. Min({m, l - s}) = IF m <= l - s THEN m ELSE l - s
    BY <1>1
  <2> QED
    BY <2>1, <2>2, <2>3 DEF Count
<1>6. ASSUME NEW c, c.i \in Int, c.d \in Int
      PROVE  Copied(c, l) \in Nat /\ Copied(c, l) <= l - End(c, l) /\ Copied(c, l) <= l - Start(c, l)
  <2>1. PICK s \in 0..l : s = Start(c, l)
    BY <1>3, <1>6
  <2>2. PICK e \in 0..l : e = End(c, l)
    BY <1>4, <1>6
  <2>3. Min({l - e, l - s}) = IF l - e <= l - s THEN l - e ELSE l - s
    BY <1>1
  <2> QED
    BY <2>1, <2>2, <2>3 DEF Copied
<1> QED
  BY <1>2, <1>3, <1>4, <1>5, <1>6

\* Elements that are put one behind the other.
LEMMA PutAllType ==
    ASSUME NEW at \in Nat, NEW vs \in Seq(Int)
    PROVE  PutAll(at, vs) \in Seq(StepSet)
<1>1. ASSUME NEW k \in 1..Len(vs) PROVE Put(at + k - 1, vs[k]) \in StepSet
  <2>1. at + k - 1 \in Nat /\ vs[k] \in Int
    OBVIOUS
  <2> QED
    BY <2>1, StepTypes
<1>2. [k \in 1..Len(vs) |-> Put(at + k - 1, vs[k])] \in Seq(StepSet)
  <2>1. Len(vs) \in Nat
    OBVIOUS
  <2> QED
    BY <1>1, <2>1
<1> QED
  BY <1>2 DEF PutAll

\* Two lists of steps.
LEMMA Both ==
    ASSUME NEW T, NEW p \in Seq(T), NEW q \in Seq(T)
    PROVE  p \o q \in Seq(T) /\ Len(p \o q) = Len(p) + Len(q)
BY ConcatProperties

\* One step is a list.
LEMMA One ==
    ASSUME NEW T, NEW s \in T
    PROVE  <<s>> \in Seq(T) /\ Len(<<s>>) = 1
OBVIOUS

\* The steps of the methods.
LEMMA PushSteps ==
    ASSUME NEW l \in Nat, NEW vs \in Seq(Int)
    PROVE  generic_push(l, vs) \in Seq(StepSet)
<1>1. PutAll(l, vs) \in Seq(StepSet)
  BY PutAllType
<1>2. Length(l + Len(vs)) \in StepSet
  <2>1. l + Len(vs) \in Nat
    OBVIOUS
  <2> QED
    BY <2>1, StepTypes
<1> QED
  BY <1>1, <1>2, Both, One DEF generic_push

\* pop and shift.
LEMMA PopSteps ==
    ASSUME NEW l \in Nat
    PROVE  arrayproto_pop_generic(l) \in Seq(StepSet) /\ arrayproto_shift(l) \in Seq(StepSet)
<1>1. Length(0) \in StepSet
  BY StepTypes
<1>2. CASE l = 0
  BY <1>1, <1>2, One DEF arrayproto_pop_generic, arrayproto_shift
<1>3. CASE l # 0
  <2>1. PICK d \in StepSet : d = Delete(l - 1)
    BY <1>3, StepTypes
  <2>2. PICK e \in StepSet : e = Length(l - 1)
    BY <1>3, StepTypes
  <2>3. <<d, e>> \in Seq(StepSet)
    OBVIOUS
  <2>4. Up(1, l - 1, LAMBDA k : Move(k, k - 1)) \in Seq(StepSet)
    <3>1. PICK n \in Nat : n = (IF l - 1 < 1 THEN 0 ELSE (l - 1) - 1 + 1)
      BY <1>3
    <3>2. ASSUME NEW k \in 1..n PROVE Move(1 + k - 1, (1 + k - 1) - 1) \in StepSet
      <4>1. 1 + k - 1 \in Nat /\ (1 + k - 1) - 1 \in Nat
        OBVIOUS
      <4> QED
        BY <4>1, StepTypes
    <3>3. [k \in 1..n |-> Move(1 + k - 1, (1 + k - 1) - 1)] \in Seq(StepSet)
      BY <3>2
    <3> QED
      BY <3>1, <3>3 DEF Up
  <2>5. Up(1, l - 1, LAMBDA k : Move(k, k - 1)) \o <<d, e>> \in Seq(StepSet)
    BY <2>3, <2>4, Both
  <2> QED
    BY <1>3, <2>1, <2>2, <2>3, <2>5 DEF arrayproto_pop_generic, arrayproto_shift
<1> QED
  BY <1>2, <1>3

\* unshift.
LEMMA UnshiftSteps ==
    ASSUME NEW l \in Nat, NEW vs \in Seq(Int)
    PROVE  arrayproto_unshift(l, vs) \in Seq(StepSet)
<1>1. PICK e \in StepSet : e = Length(l + Len(vs))
  <2>1. l + Len(vs) \in Nat
    OBVIOUS
  <2> QED
    BY <2>1, StepTypes
<1>2. PICK u : u = Down(l - 1, 0, LAMBDA k : Move(k, k + Len(vs)))
  OBVIOUS
<1>3. u \in Seq(StepSet)
  <2>1. PICK n \in Nat : n = (IF l - 1 < 0 THEN 0 ELSE (l - 1) - 0 + 1) /\ n <= l
    OBVIOUS
  <2>2. ASSUME NEW k \in 1..n PROVE Move((l - 1) - k + 1, ((l - 1) - k + 1) + Len(vs)) \in StepSet
    <3>1. (l - 1) - k + 1 \in Nat /\ ((l - 1) - k + 1) + Len(vs) \in Nat
      BY <2>1
    <3> QED
      BY <3>1, StepTypes
  <2>3. [k \in 1..n |-> Move((l - 1) - k + 1, ((l - 1) - k + 1) + Len(vs))] \in Seq(StepSet)
    BY <2>2
  <2> QED
    BY <1>2, <2>1, <2>3 DEF Down
<1>4. PutAll(0, vs) \in Seq(StepSet)
  BY PutAllType
<1>5. u \o PutAll(0, vs) \in Seq(StepSet) /\ <<e>> \in Seq(StepSet) /\ <<>> \in Seq(StepSet)
  BY <1>3, <1>4, Both, One
<1>6. (u \o PutAll(0, vs)) \o <<e>> \in Seq(StepSet) /\ <<>> \o <<e>> \in Seq(StepSet)
  BY <1>5, Both
<1> QED
  BY <1>1, <1>2, <1>6 DEF arrayproto_unshift

\* How many steps Up and Down make.
LEMMA HowMany ==
    ASSUME NEW x \in Int, NEW y \in Int
    PROVE  \E n \in Nat : /\ n = (IF y < x THEN 0 ELSE y - x + 1)
                          /\ n = 0 \/ n = y - x + 1
<1>1. CASE y < x
  <2>1. 0 \in Nat /\ 0 = (IF y < x THEN 0 ELSE y - x + 1)
    BY <1>1
  <2> QED
    BY <2>1
<1>2. CASE ~(y < x)
  <2>1. y - x + 1 \in Nat /\ y - x + 1 = (IF y < x THEN 0 ELSE y - x + 1)
    BY <1>2
  <2> QED
    BY <2>1
<1> QED
  BY <1>1, <1>2

\* splice, of del elements from start on.
LEMMA SpliceSteps ==
    ASSUME NEW l \in Nat, NEW start \in 0..l, NEW del \in 0..l - start, NEW vs \in Seq(Int)
    PROVE  arrayproto_splice(l, start, del, vs) \in Seq(StepSet)
<1>1. PICK m \in Nat : m = Len(vs)
  OBVIOUS
<1>2. l \in Nat /\ start \in Nat /\ del \in Nat /\ start + del <= l
  OBVIOUS
<1>3. PICK u : u = Up(start, l - del - 1, LAMBDA k : Move(k + del, k + m))
  OBVIOUS
<1>4. u \in Seq(StepSet)
  <2>1. l - del - 1 \in Int /\ start \in Int
    BY <1>2
  <2>2. PICK n \in Nat : n = (IF l - del - 1 < start THEN 0 ELSE (l - del - 1) - start + 1)
    BY <2>1, HowMany
  <2>3. ASSUME NEW k \in 1..n PROVE Move((start + k - 1) + del, (start + k - 1) + m) \in StepSet
    <3>1. (start + k - 1) + del \in Nat /\ (start + k - 1) + m \in Nat
      OBVIOUS
    <3> QED
      BY <3>1, StepTypes
  <2>4. [k \in 1..n |-> Move((start + k - 1) + del, (start + k - 1) + m)] \in Seq(StepSet)
    BY <2>3
  <2> QED
    BY <1>3, <2>2, <2>4 DEF Up
<1>5. PICK d : d = Down(l, l - del + m + 1, LAMBDA k : Delete(k - 1))
  OBVIOUS
<1>6. d \in Seq(StepSet)
  <2>1. l - del + m + 1 \in Int /\ l \in Int
    BY <1>2
  <2>2. PICK n \in Nat : /\ n = (IF l < l - del + m + 1 THEN 0 ELSE l - (l - del + m + 1) + 1)
                         /\ n = 0 \/ n = l - (l - del + m + 1) + 1
    BY <2>1, HowMany
  <2>3. n = (IF l < l - del + m + 1 THEN 0 ELSE l - (l - del + m + 1) + 1) /\ n <= l
    BY <1>2, <2>2
  <2>4. ASSUME NEW k \in 1..n PROVE Delete((l - k + 1) - 1) \in StepSet
    <3>1. (l - k + 1) - 1 \in Nat
      BY <2>3
    <3> QED
      BY <3>1, StepTypes
  <2>5. [k \in 1..n |-> Delete((l - k + 1) - 1)] \in Seq(StepSet)
    BY <2>4
  <2> QED
    BY <1>5, <2>3, <2>5 DEF Down
<1>7. PICK g : g = Down(l - del, start + 1, LAMBDA k : Move(k + del - 1, k + m - 1))
  OBVIOUS
<1>8. g \in Seq(StepSet)
  <2>1. l - del \in Int /\ start + 1 \in Int
    BY <1>2
  <2>2. PICK n \in Nat : /\ n = (IF l - del < start + 1 THEN 0 ELSE (l - del) - (start + 1) + 1)
                         /\ n = 0 \/ n = (l - del) - (start + 1) + 1
    BY <2>1, HowMany
  <2>3. n = (IF l - del < start + 1 THEN 0 ELSE (l - del) - (start + 1) + 1) /\ n <= l - del
    BY <1>2, <2>2
  <2>4. ASSUME NEW k \in 1..n
        PROVE  Move(((l - del) - k + 1) + del - 1, ((l - del) - k + 1) + m - 1) \in StepSet
    <3>1. ((l - del) - k + 1) + del - 1 \in Nat /\ ((l - del) - k + 1) + m - 1 \in Nat
      BY <2>3
    <3> QED
      BY <3>1, StepTypes
  <2>5. [k \in 1..n |-> Move(((l - del) - k + 1) + del - 1, ((l - del) - k + 1) + m - 1)] \in Seq(StepSet)
    BY <2>4
  <2> QED
    BY <1>7, <2>3, <2>5 DEF Down
<1>9. PICK p : p = PutAll(start, vs)
  OBVIOUS
<1>10. p \in Seq(StepSet)
  BY <1>9, PutAllType
<1>11. PICK e \in StepSet : e = Length(l - del + m)
  <2>1. l - del + m \in Nat
    OBVIOUS
  <2> QED
    BY <2>1, StepTypes
<1>12. PICK q : q = CASE m < del -> u \o d [] m > del -> g [] OTHER -> <<>>
  OBVIOUS
<1>13. q \in Seq(StepSet)
  <2>1. u \o d \in Seq(StepSet)
    BY <1>4, <1>6, Both
  <2>2. <<>> \in Seq(StepSet)
    OBVIOUS
  <2> QED
    BY <1>8, <1>12, <2>1, <2>2
<1>14. (q \o p) \o <<e>> \in Seq(StepSet)
  <2>1. q \o p \in Seq(StepSet)
    BY <1>10, <1>13, Both
  <2>2. <<e>> \in Seq(StepSet)
    BY One
  <2> QED
    BY <2>1, <2>2, Both
<1>15. arrayproto_splice(l, start, del, vs) = (q \o p) \o <<e>>
  BY <1>1, <1>3, <1>5, <1>7, <1>9, <1>11, <1>12 DEF arrayproto_splice
<1> QED
  BY <1>14, <1>15

\* reverse and fill.
LEMMA ReverseSteps ==
    ASSUME NEW l \in Nat, NEW from \in Nat, NEW to \in Nat, NEW v \in Int
    PROVE  arrayproto_reverse_generic(l) \in Seq(StepSet) /\ arrayproto_fill(from, to, v) \in Seq(StepSet)
<1>1. PICK h \in Nat : h = l \div 2 /\ h <= l
  OBVIOUS
<1>2. PICK n \in Nat : n = (IF h - 1 < 0 THEN 0 ELSE (h - 1) - 0 + 1) /\ n <= l
  BY <1>1
<1>3. ASSUME NEW k \in 1..n PROVE Exchange(0 + k - 1, l - (0 + k - 1) - 1) \in StepSet
  <2>1. 0 + k - 1 \in Nat /\ l - (0 + k - 1) - 1 \in Nat
    BY <1>2
  <2> QED
    BY <2>1, StepTypes
<1>4. [k \in 1..n |-> Exchange(0 + k - 1, l - (0 + k - 1) - 1)] \in Seq(StepSet)
  BY <1>3
<1>5. arrayproto_reverse_generic(l) \in Seq(StepSet)
  BY <1>1, <1>2, <1>4 DEF arrayproto_reverse_generic, Up
<1>6. PICK m \in Nat : m = (IF to - 1 < from THEN 0 ELSE (to - 1) - from + 1)
  OBVIOUS
<1>7. ASSUME NEW k \in 1..m PROVE Put(from + k - 1, v) \in StepSet
  <2>1. from + k - 1 \in Nat
    OBVIOUS
  <2> QED
    BY <2>1, StepTypes
<1>8. [k \in 1..m |-> Put(from + k - 1, v)] \in Seq(StepSet)
  BY <1>7
<1>9. arrayproto_fill(from, to, v) \in Seq(StepSet)
  BY <1>6, <1>8 DEF arrayproto_fill, Up
<1> QED
  BY <1>5, <1>9

\* copyWithin.
LEMMA CopySteps ==
    ASSUME NEW to \in Nat, NEW from \in Nat, NEW count \in Nat
    PROVE  arrayproto_copyWithin(to, from, count) \in Seq(StepSet)
<1>1. PICK n \in Nat : n = (IF count - 1 < 0 THEN 0 ELSE (count - 1) - 0 + 1) /\ n <= count
  OBVIOUS
<1>2. ASSUME NEW k \in 1..n
      PROVE  /\ Move(from + ((count - 1) - k + 1), to + ((count - 1) - k + 1)) \in StepSet
             /\ Move(from + (0 + k - 1), to + (0 + k - 1)) \in StepSet
  <2>1. /\ from + ((count - 1) - k + 1) \in Nat /\ to + ((count - 1) - k + 1) \in Nat
        /\ from + (0 + k - 1) \in Nat /\ to + (0 + k - 1) \in Nat
    BY <1>1
  <2> QED
    BY <2>1, StepTypes
<1>3. /\ [k \in 1..n |-> Move(from + ((count - 1) - k + 1), to + ((count - 1) - k + 1))] \in Seq(StepSet)
      /\ [k \in 1..n |-> Move(from + (0 + k - 1), to + (0 + k - 1))] \in Seq(StepSet)
  BY <1>2
<1>4. /\ Down(count - 1, 0, LAMBDA k : Move(from + k, to + k)) \in Seq(StepSet)
      /\ Up(0, count - 1, LAMBDA k : Move(from + k, to + k)) \in Seq(StepSet)
  BY <1>1, <1>3 DEF Down, Up
<1> QED
  BY <1>4 DEF arrayproto_copyWithin

\* sort, of vs.
LEMMA SortSteps ==
    ASSUME NEW l \in Nat, NEW m \in Nat, NEW vs \in [1..m -> Int]
    PROVE  arrayproto_sort(l, vs) \in Seq(StepSet)
<1>1. PICK s : s = Sorted(vs)
  OBVIOUS
<1>2. s \in Seq(Int)
  BY <1>1, SortedType
<1>3. PutAll(0, s) \in Seq(StepSet)
  BY <1>2, PutAllType
<1>4. PICK n \in Nat : n = (IF l - 1 < m THEN 0 ELSE (l - 1) - m + 1)
  <2>1. l - 1 \in Int /\ m \in Int
    OBVIOUS
  <2> QED
    BY <2>1, HowMany
<1>5. ASSUME NEW k \in 1..n PROVE Delete(m + k - 1) \in StepSet
  <2>1. m + k - 1 \in Nat
    OBVIOUS
  <2> QED
    BY <2>1, StepTypes
<1>6. [k \in 1..n |-> Delete(m + k - 1)] \in Seq(StepSet)
  BY <1>5
<1>7. Len(vs) = m
  OBVIOUS
<1>8. Up(Len(vs), l - 1, LAMBDA k : Delete(k)) \in Seq(StepSet)
  BY <1>4, <1>6, <1>7 DEF Up
<1>9. PutAll(0, s) \o Up(Len(vs), l - 1, LAMBDA k : Delete(k)) \in Seq(StepSet)
  BY <1>3, <1>8, Both
<1> QED
  BY <1>1, <1>9 DEF arrayproto_sort

\* The elements that there are, of an array's listing.
LEMMA PresentType ==
    ASSUME NEW n \in Nat, NEW list \in [1..n -> Int]
    PROVE  \E m \in Nat : Present(list) \in [1..m -> Int \ {Hole}]
<1>1. PICK puts : puts = Created(0, list)
  OBVIOUS
<1>2. puts \in Seq(Puts)
  BY <1>1, CreatedType
<1>3. PICK m \in Nat : m = Len(puts)
  BY <1>2
<1>4. ASSUME NEW k \in 1..m PROVE puts[k].v \in Int \ {Hole}
  <2>1. puts[k] \in Puts
    BY <1>2, <1>3
  <2> QED
    BY <2>1 DEF Puts
<1>5. Present(list) = [k \in 1..m |-> puts[k].v]
  BY <1>1, <1>3 DEF Present
<1> QED
  BY <1>4, <1>5

\* One step alone.
LEMMA PerformOne ==
    ASSUME NEW a, NEW s
    PROVE  Perform(a, <<s>>, Do) = Do(a, s)
<1> DEFINE Op(x, k) == IF x.ok THEN Do(x.a, <<s>>[k]) ELSE x
           Is(f) == f = [t \in SUBSET (1..1) |-> IF t = {} THEN Ok(a) ELSE Op(f[t \ {Max(t)}], Max(t))]
           g     == CHOOSE f : Is(f)
           h     == [t \in SUBSET (1..1) |-> IF t = {} THEN Ok(a) ELSE Op(Ok(a), 1)]
<1>1. Perform(a, <<s>>, Do) = g[1..1]
  BY DEF Perform, FoldLeft, MapThenFoldSet, Then
<1>2. Op(Ok(a), 1) = Do(a, s)
  BY DEF Ok
<1> HIDE DEF Op
<1>3. SUBSET (1..1) = {{}, {1}} /\ 1..1 = {1}
  OBVIOUS
<1>4. Max({1}) = 1 /\ {1} \ {Max({1})} = {}
  <2>1. {1} \in SUBSET Int /\ 1 \in {1} /\ \A k \in {1} : k <= 1
    OBVIOUS
  <2> QED
    BY <2>1, MaxIs
<1>5. Is(h)
  BY <1>3, <1>4
<1>6. Is(g)
  <2> HIDE DEF Is, h
  <2> QED
    BY <1>5
<1>7. g[{}] = Ok(a) /\ g[{1}] = Op(g[{}], 1)
  <2> HIDE DEF g
  <2> QED
    BY <1>3, <1>4, <1>6
<1> QED
  BY <1>1, <1>2, <1>3, <1>7

\* What an array's indices hold.
LEMMA ListingType ==
    ASSUME NEW a \in SoundArrays
    PROVE  /\ Listing(a.length, LAMBDA i : hasOwnPropertyIdx(a, i), LAMBDA i : getIdx(a, i)) \in [1..a.length -> Int]
           /\ All(a.length, LAMBDA i : getIdx(a, i)) \in [1..a.length -> Int]
<1>1. a.length \in Nat
  BY Fields DEF SoundArrays
<1>2. ASSUME NEW k \in 1..a.length PROVE getIdx(a, k - 1) \in Int /\ Hole \in Int
  <2>1. k - 1 \in Nat
    BY <1>1
  <2> QED
    BY <2>1, OwnProp DEF Hole
<1> QED
  BY <1>2 DEF Listing, All

\* The steps of every method but defineProperty.
LEMMA StepsType ==
    ASSUME NEW a \in SoundArrays, NEW c \in Calls, c.m \in Abstract!Changes, c.m # "define"
    PROVE  Steps(c, a.length, LAMBDA i : hasOwnPropertyIdx(a, i), LAMBDA i : getIdx(a, i)) \in Seq(StepSet)
<1>1. PICK l \in Nat : l = a.length
  BY Fields DEF SoundArrays
<1>2. PICK st : st = Steps(c, l, LAMBDA i : hasOwnPropertyIdx(a, i), LAMBDA i : getIdx(a, i))
  OBVIOUS
<1>3. CASE c.m \in {"set", "delete", "length"}
  <2>1. c.i \in Nat /\ (c.m = "set" => c.v \in Int)
    BY <1>3, CallsAssumption
  <2>2. PICK s : st = <<s>> /\ s \in StepSet
    BY <1>2, <1>3, <2>1, StepTypes DEF Steps
  <2> QED
    BY <1>1, <1>2, <2>2, One
<1>4. CASE c.m \in {"pop", "shift"}
  BY <1>1, <1>4, PopSteps DEF Steps
<1>5. CASE c.m \in {"push", "unshift"}
  <2>1. c.vs \in Seq(Int)
    BY <1>5, CallsAssumption
  <2> QED
    BY <1>1, <1>5, <2>1, PushSteps, UnshiftSteps DEF Steps
<1>6. CASE c.m = "splice"
  <2>1. c.vs \in Seq(Int) /\ c.i \in Int /\ c.d \in Int
    BY <1>6, CallsAssumption
  <2>2. PICK i \in 0..l : i = Start(c, l)
    BY <2>1, Numbers
  <2>3. PICK d \in 0..l - i : d = Count(c, l)
    BY <2>1, <2>2, Numbers
  <2>4. arrayproto_splice(l, i, d, c.vs) \in Seq(StepSet)
    BY <2>1, SpliceSteps
  <2> QED
    BY <1>1, <1>6, <2>2, <2>3, <2>4 DEF Steps
<1>7. CASE c.m = "reverse"
  BY <1>1, <1>7, ReverseSteps DEF Steps
<1>8. CASE c.m = "fill"
  <2>1. c.v \in Int /\ c.i \in Int /\ c.d \in Int
    BY <1>8, CallsAssumption
  <2>2. PICK i \in Nat, e \in Nat : i = Start(c, l) /\ e = End(c, l)
    <3>1. Start(c, l) \in 0..l /\ End(c, l) \in 0..l
      BY <2>1, Numbers
    <3> QED
      BY <3>1
  <2>3. arrayproto_fill(i, e, c.v) \in Seq(StepSet)
    BY <2>1, ReverseSteps
  <2> QED
    BY <1>1, <1>8, <2>2, <2>3 DEF Steps
<1>9. CASE c.m = "copyWithin"
  <2>1. c.i \in Int /\ c.d \in Int
    BY <1>9, CallsAssumption
  <2>2. PICK i \in Nat, e \in Nat : i = Start(c, l) /\ e = End(c, l)
    <3>1. Start(c, l) \in 0..l /\ End(c, l) \in 0..l
      BY <2>1, Numbers
    <3> QED
      BY <3>1
  <2>3. PICK n \in Nat : n = Copied(c, l)
    BY <2>1, Numbers
  <2>4. arrayproto_copyWithin(i, e, n) \in Seq(StepSet)
    BY CopySteps
  <2> QED
    BY <1>1, <1>9, <2>2, <2>3, <2>4 DEF Steps
<1>10. CASE c.m = "sort"
  <2>1. PICK list \in [1..l -> Int] : list = Listing(l, LAMBDA i : hasOwnPropertyIdx(a, i), LAMBDA i : getIdx(a, i))
    BY <1>1, ListingType
  <2>2. PICK m \in Nat : Present(list) \in [1..m -> Int]
    BY PresentType
  <2>3. arrayproto_sort(l, Present(list)) \in Seq(StepSet)
    BY <2>2, SortSteps
  <2> QED
    BY <1>1, <1>10, <2>1, <2>3 DEF Steps
<1> QED
  BY <1>3, <1>4, <1>5, <1>6, <1>7, <1>8, <1>9, <1>10 DEF Abstract!Changes

\* Element by element.
LEMMA GenericSound ==
    ASSUME NEW a \in SoundArrays, NEW c \in Calls, c.m \in Abstract!Changes,
           c.m = "define" => \/ IsPlain(c.d) \/ getOwnPropIdx(a, c.i) # Nil
                             \/ expand(a, c.i).kind = a.kind
    PROVE  Generic(a, c).a \in SoundArrays
<1>1. PICK st : st = Steps(c, a.length, LAMBDA i : hasOwnPropertyIdx(a, i), LAMBDA i : getIdx(a, i))
  OBVIOUS
<1>2. Generic(a, c).a = Perform(a, st, Do).a
  BY <1>1 DEF Generic, Result
<1>3. CASE c.m # "define"
  <2>1. st \in Seq(StepSet)
    BY <1>1, <1>3, StepsType
  <2>2. PICK n \in Nat : DOMAIN st = 1..n
    BY <2>1
  <2>3. ASSUME NEW x \in SoundArrays, NEW k \in 1..n PROVE Do(x, st[k]) \in [a : SoundArrays, ok : BOOLEAN]
    <3>1. st[k] \in StepSet
      BY <2>1, <2>2
    <3>2. StepOK(st[k])
      BY <3>1, StepTypes
    <3> QED
      BY <3>2, DoSound DEF Results
  <2>4. Perform(a, st, Do) \in [a : SoundArrays, ok : BOOLEAN]
    BY <2>2, <2>3, PerformStays
  <2> QED
    BY <1>2, <2>4
<1>4. CASE c.m = "define"
  <2>1. c.i \in Nat /\ c.d \in Descriptors
    BY <1>4, CallsAssumption DEF Descriptors, Hole
  <2>2. st = <<Define(c.i, c.d)>>
    BY <1>1, <1>4 DEF Steps
  <2>3. Do(a, Define(c.i, c.d)) = _defineIdxProperty(a, c.i, c.d)
    BY DEF Do, Access, Define
  <2>4. _defineIdxProperty(a, c.i, c.d) \in Results
    BY <1>4, <2>1, DefineIdx
  <2>5. Perform(a, st, Do) = _defineIdxProperty(a, c.i, c.d)
    BY <2>2, <2>3, PerformOne
  <2> QED
    BY <1>2, <2>4, <2>5 DEF Results
<1> QED
  BY <1>3, <1>4

-----------------------------------------------------------------------------
(* The slice itself                                                        *)

\* A slice of plain slots, with nothing behind it.
LEMMA PlainSound ==
    ASSUME NEW b \in Arrays, Dense(b), 0..b.n - 1 \subseteq DOMAIN b.mem, \A i \in 0..b.n - 1 : b.mem[i] \in Plains,
           \A i \in DOMAIN b.mem : i >= b.n => b.mem[i] = Nil, IsFiniteSet(DOMAIN b.items), b.props >= 0
    PROVE  Tidy(b) /\ Below(b, b.n) /\ (b.n <= b.length => b \in SoundArrays)
<1>1. b.n \in Nat /\ b.length \in Nat /\ b.props \in Int
  BY Fields
<1>2. Attributed(b) = {}
  BY AttributedIs DEF Plains
<1>3. Cardinality({}) = 0
  BY FS_EmptySet
<1>4. Tidy(b)
  BY <1>1, <1>2, <1>3 DEF Tidy
<1>5. Below(b, b.n)
  BY <1>1 DEF Below, Indices
<1>6. ASSUME b.n <= b.length PROVE Below(b, b.length)
  <2>1. \A i \in Indices(b) : i \in 0..b.n - 1
    BY DEF Indices
  <2> QED
    BY <1>1, <1>6, <2>1 DEF Below
<1> QED
  BY <1>4, <1>5, <1>6 DEF SoundArrays

\* What checkStdArrayObj says of an array.
LEMMA Full ==
    ASSUME NEW a \in SoundArrays, checkStdArrayObj(a)
    PROVE  /\ a \in Arrays /\ Dense(a) /\ a.kind = "dense" /\ a.n \in Nat /\ a.length = a.n /\ a.props = 0
           /\ 0..a.n - 1 \subseteq DOMAIN a.mem /\ IsFiniteSet(DOMAIN a.items)
           /\ \A i \in 0..a.n - 1 : a.mem[i] \in Plains
           /\ \A i \in DOMAIN a.mem : i >= a.n => a.mem[i] = Nil
           /\ ValuesOf(a) \in Seq(Plains) /\ Len(ValuesOf(a)) = a.n
<1>1. a \in Arrays /\ Tidy(a)
  BY DEF SoundArrays
<1>2. Dense(a) /\ a.kind = "dense" /\ a.n \in Nat /\ a.length = a.n /\ a.props = 0
  BY <1>1, Fields DEF checkStdArrayObj, Dense
<1>3. 0..a.n - 1 \subseteq DOMAIN a.mem /\ IsFiniteSet(DOMAIN a.items)
      /\ \A i \in DOMAIN a.mem : i >= a.n => a.mem[i] = Nil
  BY <1>1 DEF Tidy
<1>4. Attributed(a) = {}
  <2>1. PICK A : A = Attributed(a)
    OBVIOUS
  <2>2. IsFiniteSet(A) /\ Cardinality(A) \in Nat /\ Cardinality(A) <= 0
    BY <1>1, <1>2, <2>1, Finite DEF Tidy
  <2>3. Cardinality(A) = 0
    BY <2>2
  <2> QED
    BY <2>1, <2>2, <2>3, FS_EmptySet
<1>5. ASSUME NEW i \in 0..a.n - 1 PROVE a.mem[i] \in Plains
  <2>1. ~a.mem[i].p
    BY <1>1, <1>2, <1>3, <1>4, AttributedIs
  <2>2. a.mem[i] \in Slots
    BY <1>1, <1>3, Fields
  <2> QED
    BY <2>1, <2>2 DEF Plains
<1>6. ValuesOf(a) \in Seq(Plains) /\ Len(ValuesOf(a)) = a.n
  <2>1. ASSUME NEW k \in 1..a.n PROVE a.mem[k - 1] \in Plains
    <3>1. k - 1 \in 0..a.n - 1
      BY <1>2
    <3> QED
      BY <1>5, <3>1
  <2> QED
    BY <1>2, <2>1 DEF ValuesOf
<1> QED
  BY <1>1, <1>2, <1>3, <1>5, <1>6

\* pop of the slice.
LEMMA FastPop ==
    ASSUME NEW a \in SoundArrays, pops(a)
    PROVE  fastPop(a).a \in SoundArrays
<1>1. /\ a \in Arrays /\ Tidy(a) /\ Below(a, a.length) /\ Dense(a)
      /\ a.n \in Nat /\ a.length \in Nat /\ a.props \in Int /\ a.mem \in [DOMAIN a.mem -> Slots]
      /\ DOMAIN a.mem = 0..Cap(a) - 1 /\ Cap(a) \in Nat
  BY Fields DEF SoundArrays, pops
<1>2. CASE a.length = 0
  <2>1. fastPop(a).a = setLength(a, 0).a
    BY <1>2 DEF fastPop, Result
  <2> QED
    BY <2>1, SetLength DEF Results
<1>3. CASE a.length # 0
  <2>1. PICK l \in Nat : l = a.length - 1
    BY <1>1, <1>3
  <2>2. a.length <= a.n /\ l \in DOMAIN a.mem /\ l < a.n
    BY <1>1, <1>3, <2>1 DEF pops, Tidy
  <2>3. PICK m : m = [a.mem EXCEPT ![l] = Nil]
    OBVIOUS
  <2>4. /\ m \in [0..Cap(a) - 1 -> Slots] /\ DOMAIN m = DOMAIN a.mem
        /\ \A i \in DOMAIN m : m[i] = IF i = l THEN Nil ELSE a.mem[i]
    BY <1>1, <2>3, SlotTypes
  <2>5. m \in Memories
    BY <1>1, <2>4 DEF Memories
  <2>6. PICK cut : cut = [a EXCEPT !.mem = m, !.n = l]
    OBVIOUS
  <2>7. PICK x : x = IF a.lengthWritable THEN [cut EXCEPT !.length = l] ELSE cut
    OBVIOUS
  <2>8. fastPop(a).a = x
    BY <1>3, <2>1, <2>3, <2>6, <2>7 DEF fastPop, Result, Ok, Fails
  <2>9. /\ x \in Arrays /\ x.kind = a.kind /\ x.mem = m /\ x.n = l /\ x.items = a.items /\ x.props = a.props
        /\ x.length \in {l, l + 1}
    <3>1. PICK k \in Nat : k = (IF a.lengthWritable THEN l ELSE l + 1) /\ k \in {l, l + 1}
      OBVIOUS
    <3>2. a.length = l + 1 /\ a.objCount \in Int
      BY <1>1, <2>1, Fields
    <3>3. x = [a EXCEPT !.mem = m, !.n = l, !.length = k, !.objCount = a.objCount]
      <4>1. cut = [a EXCEPT !.mem = m, !.n = l, !.length = l + 1, !.objCount = a.objCount]
        BY <1>1, <2>6, <3>2 DEF Arrays
      <4>2. [cut EXCEPT !.length = l] = [a EXCEPT !.mem = m, !.n = l, !.length = l, !.objCount = a.objCount]
        BY <1>1, <4>1 DEF Arrays
      <4> QED
        BY <2>7, <3>1, <4>1, <4>2
    <3>4. a \in Arrays
      BY <1>1
    <3>5. /\ x \in Arrays /\ x.kind = a.kind /\ x.mem = m /\ x.n = l /\ x.items = a.items /\ x.props = a.props
          /\ x.length = k
      BY <2>5, <3>1, <3>2, <3>3, <3>4 DEF Arrays
    <3> QED
      BY <3>1, <3>5
  <2>10. Dense(x) /\ 0..x.n - 1 \subseteq DOMAIN x.mem /\ x.n <= x.length
    BY <1>1, <2>2, <2>4, <2>9 DEF Dense
  <2>11. Attributed(x) \subseteq Attributed(a)
    <3>1. Attributed(x) = {i \in 0..l - 1 : m[i].p}
      BY <2>9, <2>10, AttributedIs
    <3>2. Attributed(a) = {i \in 0..a.n - 1 : a.mem[i].p}
      BY <1>1, AttributedIs DEF Tidy
    <3>3. ASSUME NEW i \in 0..l - 1 PROVE i \in 0..a.n - 1 /\ m[i] = a.mem[i]
      BY <1>1, <2>2, <2>4, <2>9, <2>10
    <3> QED
      BY <3>1, <3>2, <3>3
  <2>12. Cardinality(Attributed(x)) <= x.props
    BY <1>1, <2>9, <2>11, NoMore
  <2>13. ASSUME NEW i \in DOMAIN x.mem, i >= x.n PROVE x.mem[i] = Nil
    <3>1. i \in Nat /\ (i = l \/ i >= a.length)
      BY <1>1, <2>1, <2>4, <2>9, <2>13
    <3>2. CASE i # l
      <4>1. i \notin Indices(a)
        BY <1>1, <3>1, <3>2 DEF Below
      <4>2. i < a.n => a.mem[i] = Nil
        BY <1>1, <3>1, <4>1 DEF Indices
      <4> QED
        BY <1>1, <2>4, <2>9, <3>1, <3>2, <4>2 DEF Tidy
    <3> QED
      BY <2>4, <2>9, <3>2
  <2>14. Tidy(x)
    BY <1>1, <2>9, <2>10, <2>12, <2>13 DEF Tidy
  <2>15. Below(x, x.length)
    <3>1. \A i \in Indices(x) : i \in 0..l - 1
      BY <2>9, <2>10 DEF Indices
    <3> QED
      BY <2>1, <2>9, <3>1 DEF Below
  <2> QED
    BY <2>8, <2>9, <2>14, <2>15 DEF SoundArrays
<1> QED
  BY <1>2, <1>3

\* shift of the slice.
LEMMA FastShift ==
    ASSUME NEW a \in SoundArrays, checkStdArrayObj(a)
    PROVE  fastShift(a).a \in SoundArrays
<1>1. /\ a \in Arrays /\ Dense(a) /\ a.kind = "dense" /\ a.n \in Nat /\ a.length = a.n /\ a.props = 0
      /\ 0..a.n - 1 \subseteq DOMAIN a.mem /\ IsFiniteSet(DOMAIN a.items)
      /\ \A i \in 0..a.n - 1 : a.mem[i] \in Plains
      /\ \A i \in DOMAIN a.mem : i >= a.n => a.mem[i] = Nil
  BY Full
<1>2. a.mem \in [DOMAIN a.mem -> Slots] /\ DOMAIN a.mem = 0..Cap(a) - 1 /\ Cap(a) \in Nat
  BY <1>1, Fields
<1>3. CASE a.n = 0
  <2>1. fastShift(a).a = a
    BY <1>3 DEF fastShift, Result, Ok, Fails
  <2> QED
    BY <2>1
<1>4. CASE a.n # 0
  <2>1. PICK l \in Nat : l = a.n - 1
    BY <1>1, <1>4
  <2>2. PICK m : m = [i \in DOMAIN a.mem |-> CASE i < a.n - 1 -> a.mem[i + 1] [] i = a.n - 1 -> Nil [] OTHER -> a.mem[i]]
    OBVIOUS
  <2>3. ASSUME NEW i \in DOMAIN a.mem
        PROVE  /\ m[i] = IF i < l THEN a.mem[i + 1] ELSE IF i = l THEN Nil ELSE a.mem[i]
               /\ i < l => i + 1 \in 0..a.n - 1
    BY <1>1, <1>2, <2>1, <2>2
  <2>4. m \in [0..Cap(a) - 1 -> Slots] /\ DOMAIN m = DOMAIN a.mem
    <3>1. \A i \in DOMAIN a.mem : m[i] \in Slots
      BY <1>1, <1>2, <2>3, SlotTypes
    <3> QED
      BY <1>2, <2>2, <3>1
  <2>5. m \in Memories
    BY <1>2, <2>4 DEF Memories
  <2>6. PICK x : x = [a EXCEPT !.mem = m, !.n = l, !.length = l]
    OBVIOUS
  <2>7. fastShift(a).a = x
    BY <1>1, <1>4, <2>1, <2>2, <2>6 DEF fastShift, Result, Ok, Arrays
  <2>8. /\ x \in Arrays /\ x.kind = "dense" /\ x.mem = m /\ x.n = l /\ x.items = a.items /\ x.props = 0
        /\ x.length = l
    <3>1. x = [a EXCEPT !.mem = m, !.n = l, !.length = l, !.objCount = a.objCount] /\ a.objCount \in Int
      BY <1>1, <2>6, Fields DEF Arrays
    <3>2. a \in Arrays
      BY <1>1
    <3>3. /\ x \in Arrays /\ x.kind = a.kind /\ x.mem = m /\ x.n = l /\ x.items = a.items /\ x.props = a.props
          /\ x.length = l
      BY <2>5, <3>1, <3>2 DEF Arrays
    <3> QED
      BY <1>1, <3>3
  <2>9. 0..l - 1 \subseteq DOMAIN m /\ l < a.n
    BY <1>1, <2>1, <2>4
  <2>10. ASSUME NEW i \in 0..l - 1 PROVE m[i] \in Plains
    <3>1. i \in DOMAIN a.mem /\ i < l
      BY <2>4, <2>9
    <3> QED
      BY <1>1, <2>3, <3>1
  <2>11. ASSUME NEW i \in DOMAIN m, i >= l PROVE m[i] = Nil
    <3>1. i \in DOMAIN a.mem /\ i \in Nat /\ (i = l \/ i >= a.n)
      BY <1>1, <1>2, <2>1, <2>4, <2>11
    <3> QED
      BY <1>1, <2>1, <2>3, <2>9, <3>1
  <2> QED
    BY <1>1, <2>7, <2>8, <2>9, <2>10, <2>11, PlainSound DEF Dense
<1> QED
  BY <1>3, <1>4

\* Other plain slots in the same memory.
LEMMA InPlaceSound ==
    ASSUME NEW a \in SoundArrays, checkStdArrayObj(a), NEW m, m = [i \in DOMAIN a.mem |-> m[i]],
           \A i \in DOMAIN a.mem : IF i < a.n THEN m[i] \in Plains ELSE m[i] = a.mem[i],
           NEW x, x = [a EXCEPT !.mem = m]
    PROVE  x \in SoundArrays
<1>1. /\ a \in Arrays /\ Dense(a) /\ a.kind = "dense" /\ a.n \in Nat /\ a.length = a.n /\ a.props = 0
      /\ 0..a.n - 1 \subseteq DOMAIN a.mem /\ IsFiniteSet(DOMAIN a.items)
      /\ \A i \in DOMAIN a.mem : i >= a.n => a.mem[i] = Nil
  BY Full
<1>2. a.mem \in [DOMAIN a.mem -> Slots] /\ DOMAIN a.mem = 0..Cap(a) - 1 /\ Cap(a) \in Nat
  BY <1>1, Fields
<1>3. DOMAIN m = DOMAIN a.mem
  OBVIOUS
<1>4. \A i \in DOMAIN a.mem : m[i] \in Slots
  BY <1>2 DEF Plains
<1>5. m \in [0..Cap(a) - 1 -> Slots]
  BY <1>2, <1>4
<1>6. m \in Memories
  BY <1>2, <1>5 DEF Memories
<1>7. a \in Arrays
  BY <1>1
<1>8. x \in Arrays /\ x.kind = a.kind /\ x.mem = m /\ x.n = a.n /\ x.items = a.items /\ x.props = a.props /\ x.length = a.length
  BY <1>6, <1>7 DEF Arrays
<1>9. ASSUME NEW i \in 0..a.n - 1 PROVE m[i] \in Plains
  <2>1. i \in DOMAIN a.mem /\ i < a.n
    BY <1>1
  <2> QED
    BY <2>1
<1>10. ASSUME NEW i \in DOMAIN a.mem, i >= a.n PROVE m[i] = Nil
  <2>1. ~(i < a.n)
    BY <1>1, <1>2, <1>10
  <2> QED
    BY <1>1, <1>10, <2>1
<1>11. Dense(x) /\ 0..x.n - 1 \subseteq DOMAIN x.mem /\ IsFiniteSet(DOMAIN x.items) /\ x.props >= 0 /\ x.n <= x.length
  BY <1>1, <1>3, <1>8 DEF Dense
<1>12. \A i \in 0..x.n - 1 : x.mem[i] \in Plains
  BY <1>8, <1>9
<1>13. \A i \in DOMAIN x.mem : i >= x.n => x.mem[i] = Nil
  BY <1>3, <1>8, <1>10
<1> QED
  BY <1>8, <1>11, <1>12, <1>13, PlainSound

\* s in place of the slice.
LEMMA ReplaceSound ==
    ASSUME NEW a \in SoundArrays, checkStdArrayObj(a), NEW s \in Seq(Plains), NEW k \in Int,
           NEW b, b = [replace(a, s) EXCEPT !.objCount = k]
    PROVE  /\ b \in Arrays /\ Tidy(b) /\ Below(b, Len(s)) /\ b.n = Len(s) /\ replace(a, s).n = Len(s)
           /\ b.length = a.length /\ b.lengthWritable = a.lengthWritable
<1>1. /\ a \in Arrays /\ Dense(a) /\ a.kind = "dense" /\ a.n \in Nat /\ a.length = a.n /\ a.props = 0
      /\ 0..a.n - 1 \subseteq DOMAIN a.mem /\ IsFiniteSet(DOMAIN a.items)
      /\ \A i \in DOMAIN a.mem : i >= a.n => a.mem[i] = Nil
  BY Full
<1>2. a.mem \in [DOMAIN a.mem -> Slots] /\ DOMAIN a.mem = 0..Cap(a) - 1 /\ Cap(a) \in Nat
  BY <1>1, Fields
<1>3. PICK n \in Nat : n = Len(s)
  OBVIOUS
<1>4. s \in Seq(Slots) /\ \A j \in 1..n : s[j] \in Plains
  BY <1>3 DEF Plains
<1>5. PICK x : x = replace(a, s)
  OBVIOUS
<1>6. /\ x \in Arrays /\ x.kind = "dense" /\ x.items = a.items /\ x.length = a.length /\ x.props = 0 /\ x.n = n
      /\ x.lengthWritable = a.lengthWritable
      /\ 0..n - 1 \subseteq DOMAIN x.mem
      /\ \A i \in 0..n - 1 : x.mem[i] = s[i + 1]
      /\ \A i \in DOMAIN x.mem : i >= n => x.mem[i] = Nil
  <2>1. CASE Cap(a) < n
    <3>1. x = setValues(a, s, n)
      BY <1>3, <1>5, <2>1 DEF replace
    <3>2. /\ x \in Arrays /\ x.kind = a.kind /\ x.items = a.items /\ x.length = a.length /\ x.props = a.props
          /\ x.lengthWritable = a.lengthWritable
          /\ x.n = Len(s) /\ DOMAIN x.mem = 0..n - 1
          /\ \A i \in 0..n - 1 : x.mem[i] = IF i < Len(s) THEN s[i + 1] ELSE Nil
      <4>1. Len(s) <= n
        BY <1>3
      <4> QED
        BY <1>1, <1>4, <3>1, <4>1, SetValues
    <3> QED
      BY <1>1, <1>3, <3>2
  <2>2. CASE ~(Cap(a) < n)
    <3>1. PICK m : m = [i \in DOMAIN a.mem |-> IF i < n THEN s[i + 1] ELSE IF i < a.n THEN Nil ELSE a.mem[i]]
      OBVIOUS
    <3>2. x = [a EXCEPT !.mem = m, !.n = n]
      BY <1>3, <1>5, <2>2, <3>1 DEF replace
    <3>3. DOMAIN m = DOMAIN a.mem /\ \A i \in DOMAIN a.mem : m[i] = IF i < n THEN s[i + 1] ELSE Nil
      <4>1. ASSUME NEW i \in DOMAIN a.mem PROVE m[i] = IF i < n THEN s[i + 1] ELSE Nil
        <5>1. i < a.n \/ i >= a.n
          BY <1>1, <1>2
        <5> QED
          BY <1>1, <3>1, <5>1
      <4> QED
        BY <3>1, <4>1
    <3>4. ASSUME NEW i \in DOMAIN a.mem PROVE m[i] \in Slots
      <4>1. i \in Nat
        BY <1>2
      <4>2. i < n => i + 1 \in 1..n
        BY <4>1
      <4> QED
        BY <1>4, <3>3, <4>2, SlotTypes DEF Plains
    <3>5. m \in [0..Cap(a) - 1 -> Slots]
      <4>1. m = [i \in DOMAIN a.mem |-> m[i]]
        BY <3>1
      <4> QED
        BY <1>2, <3>4, <4>1
    <3>6. m \in Memories
      BY <1>2, <3>5 DEF Memories
    <3>7. a \in Arrays
      BY <1>1
    <3>8. /\ x \in Arrays /\ x.kind = a.kind /\ x.items = a.items /\ x.length = a.length /\ x.props = a.props /\ x.n = n
          /\ x.lengthWritable = a.lengthWritable /\ x.mem = m
      BY <3>2, <3>6, <3>7 DEF Arrays
    <3>9. 0..n - 1 \subseteq DOMAIN a.mem
      BY <1>2, <2>2
    <3>10. \A i \in 0..n - 1 : m[i] = s[i + 1]
      BY <3>3, <3>9
    <3>11. \A i \in DOMAIN m : i >= n => m[i] = Nil
      BY <1>2, <3>3
    <3> QED
      BY <1>1, <3>3, <3>8, <3>9, <3>10, <3>11
  <2> QED
    BY <2>1, <2>2
<1>7. /\ b \in Arrays /\ b.kind = x.kind /\ b.mem = x.mem /\ b.n = x.n /\ b.items = x.items /\ b.props = x.props
      /\ b.length = x.length /\ b.lengthWritable = x.lengthWritable
  <2>1. b = [x EXCEPT !.objCount = k] /\ x \in Arrays
    BY <1>5, <1>6
  <2> QED
    BY <2>1 DEF Arrays
<1>8. ASSUME NEW i \in 0..n - 1 PROVE b.mem[i] \in Plains
  <2>1. i + 1 \in 1..n
    OBVIOUS
  <2> QED
    BY <1>4, <1>6, <1>7, <2>1
<1>9. Tidy(b) /\ Below(b, b.n)
  <2>1. Dense(b) /\ 0..b.n - 1 \subseteq DOMAIN b.mem /\ IsFiniteSet(DOMAIN b.items) /\ b.props >= 0
    BY <1>1, <1>6, <1>7 DEF Dense
  <2>2. \A i \in 0..b.n - 1 : b.mem[i] \in Plains
    BY <1>6, <1>7, <1>8
  <2>3. \A i \in DOMAIN b.mem : i >= b.n => b.mem[i] = Nil
    BY <1>6, <1>7
  <2> QED
    BY <1>7, <2>1, <2>2, <2>3, PlainSound
<1> QED
  BY <1>3, <1>5, <1>6, <1>7, <1>9

\* length of an array after its slice was replaced.
LEMMA Relength ==
    ASSUME NEW b \in Arrays, Tidy(b), NEW l \in Nat, Below(b, l), b.lengthWritable
    PROVE  setLength(b, l).a \in SoundArrays
<1>1. \A i \in Indices(b) : i < b.length \/ i < l
  BY DEF Below
<1>2. _setLengthInt(b, l) \in Results
  BY <1>1, SetLengthInt
<1> QED
  BY <1>2 DEF setLength, Results

\* unshift of the slice.
LEMMA FastUnshift ==
    ASSUME NEW a \in SoundArrays, checkStdArrayObj(a), a.lengthWritable, NEW vs \in Seq(Int)
    PROVE  fastUnshift(a, vs).a \in SoundArrays
<1>1. ValuesOf(a) \in Seq(Plains) /\ Len(ValuesOf(a)) = a.n /\ a.n \in Nat /\ a.length = a.n
  BY Full
<1>2. PICK n \in Nat : n = Len(vs)
  OBVIOUS
<1>3. PlainSlots(vs) \in Seq(Plains) /\ Len(PlainSlots(vs)) = n
  <2>1. vs \in [1..n -> Int]
    BY <1>2
  <2> QED
    BY <2>1, PlainSlotsType
<1>4. PICK s : s = PlainSlots(vs) \o ValuesOf(a)
  OBVIOUS
<1>5. s \in Seq(Plains) /\ Len(s) = n + a.n
  <2>1. PICK p \in Seq(Plains), q \in Seq(Plains) : p = PlainSlots(vs) /\ q = ValuesOf(a) /\ Len(p) = n /\ Len(q) = a.n
    BY <1>1, <1>3
  <2>2. p \o q \in Seq(Plains) /\ Len(p \o q) = Len(p) + Len(q)
    BY Both
  <2> QED
    BY <1>4, <2>1, <2>2
<1>6. PICK b : b = [replace(a, s) EXCEPT !.objCount = a.length]
  OBVIOUS
<1>7. b \in Arrays /\ Tidy(b) /\ Below(b, Len(s)) /\ b.lengthWritable = a.lengthWritable
  <2>1. a.length \in Int
    BY <1>1
  <2> QED
    BY <1>5, <1>6, <2>1, ReplaceSound
<1>8. PICK l \in Nat : l = a.length + n
  BY <1>1
<1>9. l = Len(s)
  BY <1>1, <1>5, <1>8
<1>10. setLength(b, l).a \in SoundArrays
  BY <1>7, <1>9, Relength
<1>11. fastUnshift(a, vs).a = setLength(b, l).a
  BY <1>2, <1>4, <1>6, <1>8 DEF fastUnshift, Result
<1> QED
  BY <1>10, <1>11

\* splice of the slice.
LEMMA FastSplice ==
    ASSUME NEW a \in SoundArrays, checkStdArrayObj(a), a.lengthWritable,
           NEW c, c.i \in Int, c.d \in Int, c.vs \in Seq(Int)
    PROVE  fastSplice(a, c).a \in SoundArrays
<1>1. ValuesOf(a) \in Seq(Plains) /\ Len(ValuesOf(a)) = a.n /\ a.n \in Nat /\ a.length = a.n
  BY Full
<1>2. PICK start \in 0..a.n : start = Start(c, a.length)
  BY <1>1, Numbers
<1>3. PICK del \in 0..a.n - start : del = Count(c, a.length)
  BY <1>1, <1>2, Numbers
<1>4. PlainSlots(c.vs) \in Seq(Plains)
  <2>1. PICK n \in Nat : c.vs \in [1..n -> Int]
    OBVIOUS
  <2> QED
    BY <2>1, PlainSlotsType
<1>5. PICK v \in Seq(Plains) : v = ValuesOf(a) /\ Len(v) = a.n
  BY <1>1
<1>6. SubSeq(v, 1, start) \in Seq(Plains)
  <2>1. 1 \in Nat /\ 1 >= 1 /\ start \in Nat /\ start <= Len(v) /\ 1 <= start + 1
    BY <1>1, <1>5
  <2> QED
    BY <2>1, Slice
<1>7. SubSeq(v, start + del + 1, a.n) \in Seq(Plains)
  <2>1. PICK i \in Nat : i = start + del + 1 /\ i >= 1 /\ i <= a.n + 1
    BY <1>1
  <2>2. a.n <= Len(v)
    BY <1>1, <1>5
  <2>3. SubSeq(v, i, a.n) \in Seq(Plains)
    BY <1>1, <2>1, <2>2, Slice
  <2> QED
    BY <2>1, <2>3
<1>8. PICK s : s = (SubSeq(v, 1, start) \o PlainSlots(c.vs)) \o SubSeq(v, start + del + 1, a.n)
  OBVIOUS
<1>9. s \in Seq(Plains)
  <2>1. SubSeq(v, 1, start) \o PlainSlots(c.vs) \in Seq(Plains)
    BY <1>4, <1>6, Both
  <2> QED
    BY <1>7, <1>8, <2>1, Both
<1>10. PICK l \in Nat : l = Len(s)
  BY <1>9
<1>11. PICK b : b = [replace(a, s) EXCEPT !.objCount = l]
  OBVIOUS
<1>12. b \in Arrays /\ Tidy(b) /\ Below(b, Len(s)) /\ b.lengthWritable = a.lengthWritable /\ replace(a, s).n = l
  <2>1. l \in Int
    OBVIOUS
  <2> QED
    BY <1>9, <1>10, <1>11, <2>1, ReplaceSound
<1>13. setLength(b, l).a \in SoundArrays
  BY <1>10, <1>12, Relength
<1>14. fastSplice(a, c).a = setLength(b, l).a
  <2>1. fastSplice(a, c).a = setLength([replace(a, s) EXCEPT !.objCount = replace(a, s).n], replace(a, s).n).a
    BY <1>2, <1>3, <1>5, <1>8 DEF fastSplice, Result
  <2> QED
    BY <1>11, <1>12, <2>1
<1> QED
  BY <1>13, <1>14

\* The methods that work on the slice.
LEMMA FastSound ==
    ASSUME NEW a \in SoundArrays, checkStdArrayObj(a), NEW c \in Calls, c.m \in HasFast, ~Diverges(a, c)
    PROVE  Fast(a, c).a \in SoundArrays
<1>1. /\ a \in Arrays /\ a.n \in Nat /\ a.length = a.n
      /\ \A i \in 0..a.n - 1 : a.mem[i] \in Plains
      /\ ValuesOf(a) \in Seq(Plains) /\ Len(ValuesOf(a)) = a.n
  BY Full
<1>2. DOMAIN a.mem \subseteq Nat
  BY <1>1, Fields
<1>3. ASSUME NEW i \in DOMAIN a.mem, i < a.n PROVE i \in 0..a.n - 1 /\ a.mem[i] \in Plains
  BY <1>1, <1>2, <1>3
<1>4. CASE c.m = "shift"
  BY <1>4, FastShift DEF Fast
<1>5. CASE c.m = "unshift"
  <2>1. c.vs \in Seq(Int)
    BY <1>5, CallsAssumption
  <2>2. a.lengthWritable
    BY <1>5 DEF Diverges
  <2>3. fastUnshift(a, c.vs).a \in SoundArrays
    BY <2>1, <2>2, FastUnshift
  <2>4. Generic(a, c).a \in SoundArrays
    BY <1>5, GenericSound DEF Abstract!Changes
  <2> QED
    BY <1>5, <2>3, <2>4 DEF Fast
<1>6. CASE c.m = "splice"
  <2>1. c.vs \in Seq(Int) /\ c.i \in Int /\ c.d \in Int
    BY <1>6, CallsAssumption
  <2>2. a.lengthWritable
    BY <1>6 DEF Diverges
  <2>3. fastSplice(a, c).a \in SoundArrays
    BY <2>1, <2>2, FastSplice
  <2> QED
    BY <1>6, <2>3 DEF Fast
<1>7. CASE c.m = "reverse"
  <2>1. PICK m : m = [i \in DOMAIN a.mem |-> IF i < a.n THEN a.mem[a.length - i - 1] ELSE a.mem[i]]
    OBVIOUS
  <2>2. ASSUME NEW i \in DOMAIN a.mem PROVE IF i < a.n THEN m[i] \in Plains ELSE m[i] = a.mem[i]
    <3>1. i < a.n => a.length - i - 1 \in 0..a.n - 1
      BY <1>1, <1>3
    <3> QED
      BY <1>1, <2>1, <3>1
  <2>3. m = [i \in DOMAIN a.mem |-> m[i]]
    BY <2>1
  <2>4. [a EXCEPT !.mem = m] \in SoundArrays
    BY <2>2, <2>3, InPlaceSound
  <2>5. Fast(a, c).a = [a EXCEPT !.mem = m]
    BY <1>7, <2>1 DEF Fast, inPlace, Result, Ok
  <2> QED
    BY <2>4, <2>5
<1>8. CASE c.m = "fill"
  <2>1. c.v \in Int
    BY <1>8, CallsAssumption
  <2>2. PICK p \in Plains : p = PlainSlot(c.v)
    BY <2>1, SlotTypes DEF Plains
  <2>3. PICK m : m = [i \in DOMAIN a.mem |-> IF i < a.n THEN (IF i >= Start(c, a.length) /\ i < End(c, a.length) THEN p ELSE a.mem[i])
                                             ELSE a.mem[i]]
    OBVIOUS
  <2>4. ASSUME NEW i \in DOMAIN a.mem PROVE IF i < a.n THEN m[i] \in Plains ELSE m[i] = a.mem[i]
    BY <1>3, <2>3
  <2>5. m = [i \in DOMAIN a.mem |-> m[i]]
    BY <2>3
  <2>6. [a EXCEPT !.mem = m] \in SoundArrays
    BY <2>4, <2>5, InPlaceSound
  <2>7. Fast(a, c).a = [a EXCEPT !.mem = m]
    BY <1>8, <2>2, <2>3 DEF Fast, inPlace, Result, Ok
  <2> QED
    BY <2>6, <2>7
<1>9. CASE c.m = "copyWithin"
  <2>1. c.i \in Int /\ c.d \in Int
    BY <1>9, CallsAssumption
  <2>2. PICK to \in 0..a.n : to = Start(c, a.length)
    BY <1>1, <2>1, Numbers
  <2>3. PICK from \in 0..a.n : from = End(c, a.length)
    BY <1>1, <2>1, Numbers
  <2>4. PICK count \in Nat : count = Copied(c, a.length) /\ count <= a.n - from /\ count <= a.n - to
    BY <1>1, <2>1, <2>2, <2>3, Numbers
  <2>5. PICK m : m = [i \in DOMAIN a.mem |-> IF i < a.n THEN (IF i >= to /\ i < to + count THEN a.mem[i - to + from] ELSE a.mem[i])
                                             ELSE a.mem[i]]
    OBVIOUS
  <2>6. ASSUME NEW i \in DOMAIN a.mem PROVE IF i < a.n THEN m[i] \in Plains ELSE m[i] = a.mem[i]
    <3>1. i \in Nat
      BY <1>2
    <3>2. i >= to /\ i < to + count => i - to + from \in 0..a.n - 1
      BY <1>1, <2>4, <3>1
    <3> QED
      BY <1>1, <1>3, <2>5, <3>2
  <2>7. m = [i \in DOMAIN a.mem |-> m[i]]
    BY <2>5
  <2>8. [a EXCEPT !.mem = m] \in SoundArrays
    BY <2>6, <2>7, InPlaceSound
  <2>9. Fast(a, c).a = [a EXCEPT !.mem = m]
    BY <1>9, <2>2, <2>3, <2>4, <2>5 DEF Fast, inPlace, Result, Ok
  <2> QED
    BY <2>8, <2>9
<1>10. CASE c.m = "sort"
  <2>1. PICK s : s = sortStable(ValuesOf(a))
    OBVIOUS
  <2>2. s \in Seq(Plains) /\ Len(s) = a.n
    <3>1. ValuesOf(a) \in [1..a.n -> Plains]
      <4>1. PICK v \in Seq(Plains) : v = ValuesOf(a) /\ Len(v) = a.n
        BY <1>1
      <4>2. v \in [1..a.n -> Plains]
        BY <4>1
      <4> QED
        BY <4>1, <4>2
    <3> QED
      BY <1>1, <2>1, <3>1, SortStableType
  <2>3. PICK m : m = [i \in DOMAIN a.mem |-> IF i < a.n THEN s[i + 1] ELSE a.mem[i]]
    OBVIOUS
  <2>4. ASSUME NEW i \in DOMAIN a.mem PROVE IF i < a.n THEN m[i] \in Plains ELSE m[i] = a.mem[i]
    <3>1. i < a.n => i + 1 \in 1..a.n
      BY <1>1, <1>3
    <3> QED
      BY <2>2, <2>3, <3>1
  <2>5. m = [i \in DOMAIN a.mem |-> m[i]]
    BY <2>3
  <2>6. [a EXCEPT !.mem = m] \in SoundArrays
    BY <2>4, <2>5, InPlaceSound
  <2>7. Fast(a, c).a = [a EXCEPT !.mem = m]
    BY <1>10, <2>1, <2>3 DEF Fast, inPlace, Result, Ok
  <2> QED
    BY <2>6, <2>7
<1> QED
  BY <1>4, <1>5, <1>6, <1>7, <1>8, <1>9, <1>10 DEF HasFast

\* A call that changes the array.
LEMMA ChangeSound ==
    ASSUME NEW a \in SoundArrays, NEW c \in Calls, c.m \in Abstract!Changes, ~Diverges(a, c)
    PROVE  Change(a, c).a \in SoundArrays
<1>1. pops(a) => fastPop(a).a \in SoundArrays
  BY FastPop
<1>2. c.m \in HasFast /\ checkStdArrayObj(a) => Fast(a, c).a \in SoundArrays
  BY FastSound
<1>3. Generic(a, c).a \in SoundArrays
  <2>1. c.m = "define" => \/ IsPlain(c.d) \/ getOwnPropIdx(a, c.i) # Nil
                          \/ expand(a, c.i).kind = a.kind
    BY DEF Diverges, IsPlain
  <2> QED
    BY <2>1, GenericSound
<1> QED
  BY <1>1, <1>2, <1>3 DEF Change

-----------------------------------------------------------------------------
(* New arrays                                                              *)

\* A sequence of values, as a function.
LEMMA AsFunction ==
    ASSUME NEW T, NEW s \in Seq(T)
    PROVE  Len(s) \in Nat /\ s \in [1..Len(s) -> T]
OBVIOUS

\* A part of a sequence, which may be nothing.
LEMMA SliceAny ==
    ASSUME NEW T, NEW s \in Seq(T), NEW i \in Int, i >= 1, NEW j \in Int, j <= Len(s)
    PROVE  SubSeq(s, i, j) \in Seq(T)
<1>1. \A k \in i..j : s[k] \in T
  OBVIOUS
<1> QED
  BY <1>1, SubSeqProperties

\* A plan for values at the indices from 0 on.
LEMMA PlanSound ==
    ASSUME NEW l \in Nat, NEW vs \in Seq(Int), NEW end \in Int, end = NoLength \/ end \in Nat
    PROVE  build(Plan(l, vs, end)) \in SoundArrays
<1>1. PICK puts : puts = Created(0, vs)
  OBVIOUS
<1>2. puts \in Seq(Puts)
  <2>1. Len(vs) \in Nat /\ vs \in [1..Len(vs) -> Int] /\ 0 \in Nat
    BY AsFunction
  <2> QED
    BY <1>1, <2>1, CreatedType
<1>3. Plan(l, vs, end) = [l |-> l, puts |-> puts, end |-> end]
  BY <1>1 DEF Plan
<1> QED
  BY <1>2, <1>3, BuildSound

\* Methods that make an array element by element.
LEMMA MakesSound ==
    ASSUME NEW l \in Nat, NEW list \in [1..l -> Int], NEW all \in [1..l -> Int], NEW c \in Calls,
           c.m \in {"concat", "slice", "flat", "with", "toReversed", "toSpliced"}
    PROVE  build(Makes(c, l, list, all)) \in SoundArrays
<1>1. list \in Seq(Int) /\ Len(list) = l /\ all \in Seq(Int) /\ Len(all) = l
  OBVIOUS
<1>2. NoLength \in Int
  BY DEF NoLength
<1>3. CASE c.m = "concat"
  <2>1. c.vs \in Seq(Int)
    BY <1>3, CallsAssumption
  <2>2. PICK s \in Seq(Int) : s = list \o c.vs
    BY <1>1, <2>1, Both
  <2>3. PICK e \in Nat : e = l + Len(c.vs)
    BY <2>1
  <2>4. build(Plan(0, s, e)) \in SoundArrays
    <3>1. 0 \in Nat /\ e \in Int /\ e \in Nat
      OBVIOUS
    <3> QED
      BY <3>1, PlanSound
  <2>5. Makes(c, l, list, all) = Plan(0, s, e)
    BY <1>3, <2>2, <2>3 DEF Makes, arrayproto_concat
  <2> QED
    BY <2>4, <2>5
<1>4. CASE c.m = "slice"
  <2>1. c.i \in Int /\ c.d \in Int
    BY <1>4, CallsAssumption
  <2>2. PICK from \in 0..l, to \in 0..l : from = Start(c, l) /\ to = End(c, l)
    BY <2>1, Numbers
  <2>3. PICK n \in Nat : n = Max({to - from, 0})
    <3>1. PICK x \in Int : x = to - from
      OBVIOUS
    <3>2. CASE x >= 0
      <4>1. {x, 0} \in SUBSET Int /\ x \in {x, 0} /\ \A k \in {x, 0} : k <= x
        BY <3>2
      <4>2. Max({x, 0}) = x
        BY <4>1, MaxIs
      <4> QED
        BY <3>1, <3>2, <4>2
    <3>3. CASE ~(x >= 0)
      <4>1. {x, 0} \in SUBSET Int /\ 0 \in {x, 0} /\ \A k \in {x, 0} : k <= 0
        BY <3>3
      <4>2. Max({x, 0}) = 0
        BY <4>1, MaxIs
      <4> QED
        BY <3>1, <4>2
    <3> QED
      BY <3>2, <3>3
  <2>4. PICK s \in Seq(Int) : s = SubSeq(list, from + 1, to)
    <3>1. from + 1 \in Int /\ from + 1 >= 1 /\ to \in Int /\ to <= Len(list)
      BY <1>1
    <3> QED
      BY <1>1, <3>1, SliceAny
  <2>5. build(Plan(n, s, NoLength)) \in SoundArrays
    BY <1>2, PlanSound
  <2>6. Makes(c, l, list, all) = Plan(n, s, NoLength)
    BY <1>4, <2>2, <2>3, <2>4 DEF Makes, arrayproto_slice
  <2> QED
    BY <2>5, <2>6
<1>5. CASE c.m = "flat"
  <2>1. PICK m \in Nat : Present(list) \in [1..m -> Int \ {Hole}]
    BY PresentType
  <2>2. PICK s \in Seq(Int) : s = Present(list)
    BY <2>1
  <2>3. build(Plan(0, s, NoLength)) \in SoundArrays
    BY <1>2, PlanSound
  <2>4. Makes(c, l, list, all) = Plan(0, s, NoLength)
    BY <1>5, <2>2 DEF Makes, flattenIntoArray
  <2> QED
    BY <2>3, <2>4
<1>6. CASE c.m = "with"
  <2>1. c.v \in Int
    BY <1>6, CallsAssumption
  <2>2. PICK s \in [1..l -> Int] : s = [all EXCEPT ![c.i + 1] = c.v]
    BY <2>1
  <2>3. s \in Seq(Int)
    OBVIOUS
  <2>4. build(Plan(l, s, NoLength)) \in SoundArrays
    BY <1>2, <2>3, PlanSound
  <2>5. Makes(c, l, list, all) = Plan(l, s, NoLength)
    BY <1>6, <2>2 DEF Makes, arrayproto_with
  <2> QED
    BY <2>4, <2>5
<1>7. CASE c.m = "toReversed"
  <2>1. PICK s \in Seq(Int) : s = Reverse(all)
    <3>1. ASSUME NEW i \in 1..l PROVE all[(l - i) + 1] \in Int
      <4>1. (l - i) + 1 \in 1..l
        OBVIOUS
      <4> QED
        BY <4>1
    <3>2. [i \in 1..l |-> all[(l - i) + 1]] \in Seq(Int)
      BY <3>1
    <3> QED
      BY <1>1, <3>2 DEF Reverse
  <2>2. build(Plan(l, s, NoLength)) \in SoundArrays
    BY <1>2, PlanSound
  <2>3. Makes(c, l, list, all) = Plan(l, s, NoLength)
    BY <1>7, <2>1 DEF Makes, arrayproto_toReversed
  <2> QED
    BY <2>2, <2>3
<1>8. CASE c.m = "toSpliced"
  <2>1. c.vs \in Seq(Int) /\ c.i \in Int /\ c.d \in Int
    BY <1>8, CallsAssumption
  <2>2. PICK start \in 0..l : start = Start(c, l)
    BY <2>1, Numbers
  <2>3. PICK skip \in 0..l - start : skip = Count(c, l)
    BY <2>1, <2>2, Numbers
  <2>4. PICK p \in Seq(Int) : p = SubSeq(all, 1, start)
    <3>1. 1 \in Int /\ 1 >= 1 /\ start \in Int /\ start <= Len(all)
      BY <1>1
    <3> QED
      BY <1>1, <3>1, SliceAny
  <2>5. PICK q \in Seq(Int) : q = SubSeq(all, start + skip + 1, l)
    <3>1. start + skip + 1 \in Int /\ start + skip + 1 >= 1 /\ l \in Int /\ l <= Len(all)
      BY <1>1
    <3> QED
      BY <1>1, <3>1, SliceAny
  <2>6. PICK s \in Seq(Int) : s = (p \o c.vs) \o q
    <3>1. p \o c.vs \in Seq(Int)
      BY <2>1, Both
    <3> QED
      BY <3>1, Both
  <2>7. PICK n \in Nat : n = l - skip + Len(c.vs)
    <3>1. PICK m \in Nat : m = Len(c.vs)
      BY <2>1
    <3>2. l - skip + m \in Nat
      OBVIOUS
    <3> QED
      BY <3>1, <3>2
  <2>8. build(Plan(n, s, NoLength)) \in SoundArrays
    BY <1>2, PlanSound
  <2>9. Makes(c, l, list, all) = Plan(n, s, NoLength)
    BY <1>8, <2>2, <2>3, <2>4, <2>5, <2>6, <2>7 DEF Makes, arrayproto_toSpliced
  <2> QED
    BY <2>8, <2>9
<1> QED
  BY <1>3, <1>4, <1>5, <1>6, <1>7, <1>8

\* The call of a method that makes an array, in whose place the program then
\* uses the new one.
LEMMA CreateSound ==
    ASSUME NEW a \in SoundArrays, NEW c \in Calls, c.m \in Abstract!Creates
    PROVE  Create(a, c) \in SoundArrays
<1>1. PICK l \in Nat : l = a.length
  BY Fields DEF SoundArrays
<1>2. PICK list \in [1..l -> Int] : list = Listing(l, LAMBDA i : hasOwnPropertyIdx(a, i), LAMBDA i : getIdx(a, i))
  BY <1>1, ListingType
<1>3. PICK all \in [1..l -> Int] : all = All(l, LAMBDA i : getIdx(a, i))
  BY <1>1, ListingType
<1>4. PICK slots \in Seq(Plains) : slots = PlainSlots(all) /\ Len(slots) = l
  BY PlainSlotsType
<1>5. PICK s : s = ValuesOf(a)
  OBVIOUS
<1>6. checkStdArrayObj(a) => s \in Seq(Plains) /\ Len(s) = l
  BY <1>1, <1>5, Full
<1>7. CASE c.m = "with" /\ checkStdArrayObj(a)
  <2>1. c.v \in Int
    BY <1>7, CallsAssumption
  <2>2. PlainSlot(c.v) \in Plains
    BY <2>1, SlotTypes DEF Plains
  <2>3. [s EXCEPT ![c.i + 1] = PlainSlot(c.v)] \in Seq(Plains)
    <3>1. s \in [1..l -> Plains]
      BY <1>6, <1>7, AsFunction
    <3>2. PICK x \in [1..l -> Plains] : x = [s EXCEPT ![c.i + 1] = PlainSlot(c.v)]
      BY <2>2, <3>1
    <3>3. x \in Seq(Plains)
      OBVIOUS
    <3> QED
      BY <3>2, <3>3
  <2>4. Create(a, c) = newArrayValues([s EXCEPT ![c.i + 1] = PlainSlot(c.v)])
    BY <1>5, <1>7 DEF Create
  <2> QED
    BY <2>3, <2>4, NewValues
<1>8. CASE c.m = "toReversed" /\ checkStdArrayObj(a)
  <2>1. Reverse(s) \in Seq(Plains)
    <3>1. s \in Seq(Plains) /\ Len(s) = l
      BY <1>6, <1>8
    <3>2. ASSUME NEW i \in 1..l PROVE s[(l - i) + 1] \in Plains
      <4>1. (l - i) + 1 \in 1..l
        OBVIOUS
      <4> QED
        BY <3>1, <4>1
    <3>3. [i \in 1..l |-> s[(l - i) + 1]] \in Seq(Plains)
      BY <3>2
    <3> QED
      BY <3>1, <3>3 DEF Reverse
  <2>2. Create(a, c) = newArrayValues(Reverse(s))
    BY <1>5, <1>8 DEF Create
  <2> QED
    BY <2>1, <2>2, NewValues
<1>9. CASE c.m = "toSpliced" /\ checkStdArrayObj(a)
  <2>1. c.vs \in Seq(Int) /\ c.i \in Int /\ c.d \in Int
    BY <1>9, CallsAssumption
  <2>2. PICK start \in 0..l : start = Start(c, l)
    BY <2>1, Numbers
  <2>3. PICK skip \in 0..l - start : skip = Count(c, l)
    BY <2>1, <2>2, Numbers
  <2>4. s \in Seq(Plains) /\ Len(s) = l
    BY <1>6, <1>9
  <2>5. PICK p \in Seq(Plains) : p = SubSeq(s, 1, start)
    <3>1. 1 \in Int /\ 1 >= 1 /\ start \in Int /\ start <= Len(s)
      BY <2>4
    <3> QED
      BY <2>4, <3>1, SliceAny
  <2>6. PICK q \in Seq(Plains) : q = SubSeq(s, start + skip + 1, l)
    <3>1. start + skip + 1 \in Int /\ start + skip + 1 >= 1 /\ l \in Int /\ l <= Len(s)
      BY <2>4
    <3> QED
      BY <2>4, <3>1, SliceAny
  <2>7. PICK v \in Seq(Plains) : v = PlainSlots(c.vs)
    <3>1. Len(c.vs) \in Nat /\ c.vs \in [1..Len(c.vs) -> Int]
      BY <2>1, AsFunction
    <3> QED
      BY <3>1, PlainSlotsType
  <2>8. (p \o v) \o q \in Seq(Plains)
    <3>1. p \o v \in Seq(Plains)
      BY Both
    <3> QED
      BY <3>1, Both
  <2>9. Create(a, c) = newArrayValues((p \o v) \o q)
    BY <1>1, <1>5, <1>9, <2>2, <2>3, <2>5, <2>6, <2>7 DEF Create
  <2> QED
    BY <2>8, <2>9, NewValues
<1>10. CASE c.m \in {"toSorted", "from"}
  <2>1. PICK v \in Seq(Plains) : v = (IF checkStdArrayObj(a) THEN s ELSE slots)
    BY <1>4, <1>6
  <2>2. sortStable(v) \in Seq(Plains)
    <3>1. Len(v) \in Nat /\ v \in [1..Len(v) -> Plains]
      BY AsFunction
    <3> QED
      BY <3>1, SortStableType
  <2>3. newArrayValues(v) \in SoundArrays /\ newArrayValues(sortStable(v)) \in SoundArrays
    BY <2>2, NewValues
  <2>4. Create(a, c) = IF c.m = "toSorted" THEN newArrayValues(sortStable(v)) ELSE newArrayValues(v)
    BY <1>1, <1>3, <1>4, <1>5, <1>10, <2>1 DEF Create
  <2> QED
    BY <2>3, <2>4
<1>11. CASE /\ c.m \in {"concat", "slice", "flat", "with", "toReversed", "toSpliced"}
            /\ c.m \in {"with", "toReversed", "toSpliced"} => ~checkStdArrayObj(a)
  <2>1. build(Makes(c, l, list, all)) \in SoundArrays
    BY <1>11, MakesSound
  <2>2. Create(a, c) = build(Makes(c, l, list, all))
    BY <1>1, <1>2, <1>3, <1>11 DEF Create
  <2> QED
    BY <2>1, <2>2
<1> QED
  BY <1>7, <1>8, <1>9, <1>10, <1>11 DEF Abstract!Creates

-----------------------------------------------------------------------------
(* The invariant                                                           *)

\* A walk and what it keeps.
WalkOK(w) ==
    /\ w = [m |-> w.m, k |-> w.k, l |-> w.l, kept |-> w.kept]
    /\ w.k \in Int /\ w.l \in Nat /\ w.kept \in Seq(Int)
    /\ Backwards(w.m) \/ w.k >= 0

\* The inductive invariant.
StoreInv == store \in SoundArrays /\ WalkOK(walk)

\* Plain slots of a sequence of values.
LEMMA SlotsOf ==
    ASSUME NEW s \in Seq(Int)
    PROVE  newArrayValues(PlainSlots(s)) \in SoundArrays
<1>1. Len(s) \in Nat /\ s \in [1..Len(s) -> Int]
  BY AsFunction
<1>2. PlainSlots(s) \in Seq(Plains)
  BY <1>1, PlainSlotsType
<1> QED
  BY <1>2, NewValues

\* The array of a literal is sound.
LEMMA InitSound == Init => StoreInv
<1> SUFFICES ASSUME Init PROVE StoreInv
  OBVIOUS
<1>1. PICK s \in Literals : store = newArrayValues(PlainSlots(s))
  BY DEF Init
<1>2. s \in Seq(Int)
  BY CallsAssumption
<1>3. store \in SoundArrays
  BY <1>1, <1>2, SlotsOf
<1>4. WalkOK(walk)
  <2>1. PICK e : e = <<>>
    OBVIOUS
  <2>2. e \in Seq(Int)
    BY <2>1
  <2>3. PICK w : w = walk
    OBVIOUS
  <2>4. w = [m |-> "", k |-> 0, l |-> 0, kept |-> e]
    BY <2>1, <2>3 DEF Init, NoWalk
  <2>5. w = [m |-> w.m, k |-> w.k, l |-> w.l, kept |-> w.kept] /\ w.k = 0 /\ w.l = 0 /\ w.kept = e
    BY <2>4
  <2>6. w.k >= 0 /\ w.k \in Int /\ w.l \in Nat
    BY <2>5
  <2>7. WalkOK(w)
    BY <2>2, <2>5, <2>6 DEF WalkOK
  <2> QED
    BY <2>3, <2>7
<1> QED
  BY <1>3, <1>4 DEF StoreInv

\* Every call leaves a sound array, unless it is one of those that Diverges lists.
LEMMA CallSound ==
    ASSUME ~Everything, StoreInv, Call
    PROVE  StoreInv'
<1>1. store \in SoundArrays /\ WalkOK(walk)
  BY DEF StoreInv
<1>2. PICK c \in Calls : /\ ~Diverges(store, c) /\ UNCHANGED <<walk, fast>>
                         /\ CallChange(c) \/ CallCreate(c) \/ CallRestrict(c)
  BY DEF Call
<1>3. CASE CallChange(c)
  <2>1. c.m \in Abstract!Changes /\ store' = Change(store, c).a
    BY <1>3 DEF CallChange
  <2>2. store' \in SoundArrays
    BY <1>1, <1>2, <2>1, ChangeSound
  <2> QED
    BY <1>1, <1>2, <2>2 DEF StoreInv
<1>4. CASE CallCreate(c)
  <2>1. store' \in SoundArrays
    BY <1>1, <1>4, CreateSound DEF CallCreate
  <2> QED
    BY <1>1, <1>2, <2>1 DEF StoreInv
<1>5. CASE CallRestrict(c)
  <2>1. store' = [store EXCEPT !.extensible = FALSE] \/ store' = [store EXCEPT !.lengthWritable = FALSE]
    BY <1>5 DEF CallRestrict
  <2>2. store \in Arrays
    BY <1>1 DEF SoundArrays
  <2>3. PICK b : b = store'
    OBVIOUS
  <2>4. /\ b \in Arrays /\ b.kind = store.kind /\ b.mem = store.mem /\ b.n = store.n /\ b.items = store.items
        /\ b.length = store.length /\ b.props = store.props /\ b.length \in Nat /\ b.props \in Int
    BY <2>1, <2>2, <2>3 DEF Arrays
  <2>5. b \in SoundArrays
    <3>1. store.length <= b.length /\ store.props <= b.props
      BY <2>4
    <3> QED
      BY <1>1, <2>4, <3>1, SameSound
  <2> QED
    BY <1>1, <1>2, <2>3, <2>5 DEF StoreInv
<1> QED
  BY <1>2, <1>3, <1>4, <1>5

\* A walk begins, at the first element or the last.
LEMMA BeginSound ==
    ASSUME StoreInv, BeginWalk
    PROVE  StoreInv'
<1>1. store \in SoundArrays /\ store' = store
  BY DEF StoreInv, BeginWalk
<1>2. PICK l \in Nat : l = store.length
  BY <1>1, Fields DEF SoundArrays
<1>3. PICK m \in Walks : walk' = Begun(m, l)
  BY <1>2 DEF BeginWalk
<1>4. PICK kept : kept = IF m = "map" THEN [i \in 1..l |-> Hole] ELSE <<>>
  OBVIOUS
<1>5. kept \in Seq(Int)
  <2>1. [i \in 1..l |-> Hole] \in Seq(Int)
    BY DEF Hole
  <2>2. <<>> \in Seq(Int)
    OBVIOUS
  <2> QED
    BY <1>4, <2>1, <2>2
<1>6. PICK k \in Int : k = (IF Backwards(m) THEN l - 1 ELSE 0) /\ (Backwards(m) \/ k >= 0)
  <2>1. CASE Backwards(m)
    <3>1. l - 1 \in Int
      OBVIOUS
    <3> QED
      BY <2>1, <3>1
  <2>2. CASE ~Backwards(m)
    BY <2>2
  <2> QED
    BY <2>1, <2>2
<1>7. walk' = [m |-> m, k |-> k, l |-> l, kept |-> kept]
  BY <1>3, <1>4, <1>6 DEF Begun
<1>8. WalkOK(walk')
  BY <1>5, <1>6, <1>7 DEF WalkOK
<1> QED
  BY <1>1, <1>8 DEF StoreInv

\* A walk goes on to the next element.
LEMMA StepSound ==
    ASSUME StoreInv, StepWalk
    PROVE  StoreInv'
<1>1. store \in SoundArrays /\ WalkOK(walk) /\ store' = store
  BY DEF StoreInv, StepWalk
<1>2. walk.k \in Nat
  <2>1. walk.k \in Int /\ (Backwards(walk.m) \/ walk.k >= 0)
    BY <1>1 DEF WalkOK
  <2>2. Backwards(walk.m) => ~(walk.k < 0)
    BY DEF StepWalk, Done
  <2> QED
    BY <2>1, <2>2
<1>3. PICK v \in Int : v = getIdx(store, walk.k)
  BY <1>1, <1>2, OwnProp
<1>4. PICK visited \in BOOLEAN : visited = (~SkipsHoles(walk.m) \/ hasOwnPropertyIdx(store, walk.k))
  OBVIOUS
<1>5. PICK x \in (IF walk.m = "map" /\ visited THEN Values ELSE {v}), keeps \in BOOLEAN : walk' = Walked(walk, visited, x, keeps)
  BY <1>3, <1>4 DEF StepWalk
<1>6. x \in Int
  BY <1>3, <1>5, CallsAssumption
<1>7. PICK k \in Int : k = (IF Backwards(walk.m) THEN walk.k - 1 ELSE walk.k + 1) /\ (Backwards(walk.m) \/ k >= 0)
  <2>1. walk.k - 1 \in Int /\ walk.k + 1 \in Int /\ walk.k + 1 >= 0
    BY <1>2
  <2> QED
    BY <2>1
<1>8. PICK old \in Seq(Int) : old = walk.kept
  BY <1>1 DEF WalkOK
<1>9. PICK kept : kept = CASE ~visited \/ walk.m \notin {"map", "filter"} -> old
                           [] visited /\ walk.m = "map"    -> [old EXCEPT ![walk.k + 1] = x]
                           [] visited /\ walk.m = "filter" -> IF keeps THEN Append(old, x) ELSE old
  OBVIOUS
<1>10. kept \in Seq(Int)
  <2>1. [old EXCEPT ![walk.k + 1] = x] \in Seq(Int)
    <3>1. Len(old) \in Nat /\ old \in [1..Len(old) -> Int]
      BY AsFunction
    <3>2. PICK n \in Nat : old \in [1..n -> Int]
      BY <3>1
    <3>3. PICK y \in [1..n -> Int] : y = [old EXCEPT ![walk.k + 1] = x]
      BY <1>6, <3>2
    <3>4. y \in Seq(Int)
      OBVIOUS
    <3> QED
      BY <3>3, <3>4
  <2>2. Append(old, x) \in Seq(Int)
    BY <1>6, AppendProperties
  <2> QED
    BY <1>4, <1>9, <2>1, <2>2
<1>11. walk' = [walk EXCEPT !.k = k, !.kept = kept]
  BY <1>1, <1>5, <1>7, <1>8, <1>9 DEF Walked, WalkOK
<1>12. walk' = [m |-> walk.m, k |-> k, l |-> walk.l, kept |-> kept]
  BY <1>1, <1>11 DEF WalkOK
<1>13. WalkOK(walk')
  BY <1>1, <1>7, <1>10, <1>12 DEF WalkOK
<1> QED
  BY <1>1, <1>13 DEF StoreInv

\* A walk ends, with the array that map and filter return.
LEMMA EndSound ==
    ASSUME StoreInv, EndWalk
    PROVE  StoreInv'
<1>1. store \in SoundArrays /\ WalkOK(walk) /\ walk' = NoWalk
  BY DEF StoreInv, EndWalk
<1>2. PICK kept \in Seq(Int) : kept = walk.kept
  BY <1>1 DEF WalkOK
<1>3. newArrayValues(PlainSlots(kept)) \in SoundArrays
  BY SlotsOf
<1>4. build(Plan(Len(kept), kept, NoLength)) \in SoundArrays
  <2>1. Len(kept) \in Nat /\ NoLength \in Int
    BY DEF NoLength
  <2> QED
    BY <2>1, PlanSound
<1>5. store' \in SoundArrays
  BY <1>1, <1>2, <1>3, <1>4 DEF EndWalk
<1>6. WalkOK(NoWalk)
  <2>1. PICK e : e = <<>>
    OBVIOUS
  <2>2. e \in Seq(Int)
    BY <2>1
  <2>3. PICK w : w = NoWalk
    OBVIOUS
  <2>4. w = [m |-> "", k |-> 0, l |-> 0, kept |-> e]
    BY <2>1, <2>3 DEF NoWalk
  <2>5. w = [m |-> w.m, k |-> w.k, l |-> w.l, kept |-> w.kept] /\ w.k = 0 /\ w.l = 0 /\ w.kept = e
    BY <2>4
  <2>6. w.k >= 0 /\ w.k \in Int /\ w.l \in Nat
    BY <2>5
  <2>7. WalkOK(w)
    BY <2>2, <2>5, <2>6 DEF WalkOK
  <2> QED
    BY <2>3, <2>7
<1> QED
  BY <1>1, <1>5, <1>6 DEF StoreInv

\* What is true of a sound array.
LEMMA SoundShortcuts == StoreInv => ShortcutsSound
<1> SUFFICES ASSUME StoreInv PROVE ShortcutsSound
  OBVIOUS
<1>1. store \in Arrays /\ Tidy(store) /\ Below(store, store.length)
  BY DEF StoreInv, SoundArrays
<1> QED
  BY <1>1 DEF ShortcutsSound, Tidy, Below, Attributed

\* Whatever a program does with an array, short of the calls in Diverges: the
\* counter of elements with attributes is never too small, the spare capacity is
\* empty, and no element is at or above length.
THEOREM ShortcutsAlwaysSound ==
    ASSUME ~Everything
    PROVE  Spec => []ShortcutsSound
<1>1. StoreInv /\ [Next]_vars => StoreInv'
  <2> SUFFICES ASSUME StoreInv, [Next]_vars PROVE StoreInv'
    OBVIOUS
  <2>1. CASE Call
    BY <2>1, CallSound
  <2>2. CASE BeginWalk
    BY <2>2, BeginSound
  <2>3. CASE StepWalk
    BY <2>3, StepSound
  <2>4. CASE EndWalk
    BY <2>4, EndSound
  <2>5. CASE UNCHANGED vars
    BY <2>5 DEF vars, StoreInv
  <2> QED
    BY <2>1, <2>2, <2>3, <2>4, <2>5 DEF Next
<1> QED
  BY <1>1, InitSound, SoundShortcuts, PTL DEF Spec
=============================================================================
