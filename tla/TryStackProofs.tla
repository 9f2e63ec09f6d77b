--------------------------- MODULE TryStackProofs ----------------------------
(***************************************************************************)
(* What the virtual machine keeps about exceptions agrees with the code    *)
(* that runs, for every nest of calls, try statements and loops and every  *)
(* exception: shown for scripts that are not interrupted, and, as far as   *)
(* the contents of frames are concerned, while no handleThrow in progress  *)
(* holds a pointer into an array that vm.tryStack has left.                *)
(*                                                                         *)
(* The invariant, Sound, is about three values that may be taken from any  *)
(* moment of a step: a nest of regions, a stack of frames and a number of  *)
(* items.  Lemmas say what a push, a pop, a change of the top and the cut  *)
(* of an exception do to it; every action is a few of these.  Called does  *)
(* the same for the contexts of calls, over nests that Sound describes.    *)
(***************************************************************************)
EXTENDS TryStack, FiniteSetTheorems, SequenceTheorems, WellFoundedInduction, TLAPS

\* The region has a frame of its own; how many have among the first i, and how
\* many are loops.
Framed(r)   == r.kind \in GoKinds \union {"try"}
Rank(c, i)  == Cardinality({j \in 1..i : Framed(c[j])})
Loops(c, i) == Cardinality({j \in 1..i : c[j].kind = "loop"})

\* The frames, with what callStackLen is left open.
TryFrames ==
    [at : Nat, catchPos : {"marker", "armed", "off"}, finallyPos : {"armed", "off"},
     finallyRet : 0..MaxDepth, exception : Exceptions \union {0},
     callStackLen : Int, iterLen : Nat]

Typed(c, ts, m) == c \in Seq(Regions) /\ ts \in Seq(TryFrames) /\ m \in Nat

\* How regions nest while nothing is interrupted.  A region with no frame is
\* never under an unwind region, and restoreStacks calls only return() methods.
NestAt(c, i) ==
    /\ c[i].kind # "panic"
    /\ c[i].kind = "run" <=> i = 1
    /\ c[i].kind = "unwind" => c[i].pending # 0 /\ i > 1 /\ Framed(c[i - 1])
    /\ c[i].kind = "native" <=> c[i].phase \in {"next", "close"}
    /\ c[i].phase = "next" => i > 1 /\ c[i - 1].kind = "loop"
    /\ i > 1 => (c[i].phase = "close" <=> c[i - 1].kind = "unwind")
    /\ c[i].kind = "try" => c[i].catch \/ c[i].finally
Nest(c) == \A i \in 1..Len(c) : NestAt(c, i)

\* The frame of a try statement has the handlers of the block that runs, and the
\* exception that it is to throw again.
KeptFor(r, tf) ==
    /\ tf.catchPos = Pos(r.phase = "body" /\ r.catch)
    /\ tf.finallyPos = Pos(r.phase # "finally" /\ r.finally)
    /\ tf.exception = r.pending

\* tf is the frame of region r, which is the i-th.  Here and below, w says whether
\* the writes of every handleThrow have reached vm.tryStack.
FrameFor(w, r, tf, i) ==
    /\ tf.at = i
    /\ r.kind = "try" <=> tf.catchPos # "marker"
    /\ w /\ r.kind = "try" => KeptFor(r, tf)

\* The frames of ts are those of the regions of c, in the same order.
Matched(w, c, ts) ==
    /\ Len(ts) = Rank(c, Len(c))
    /\ \A i \in 1..Len(c) : Framed(c[i]) => FrameFor(w, c[i], ts[Rank(c, i)], i)
    /\ \A n \in 1..Len(ts) : \E i \in 1..Len(c) : Framed(c[i]) /\ Rank(c, i) = n

\* The items that the frame of region i remembers beside those of the loops
\* around it: they were on the stack for restoreStacks to close.
Extra(c, ts, i) == ts[Rank(c, i)].iterLen - Loops(c, i)
Quiet(c, i, k)  == \A j \in (i + 1)..k : c[j].phase # "close"
Unwinds(c)      == Len(c) > 0 /\ c[Len(c)].kind = "unwind"

\* m items are on iterStack.
Counted(c, ts, m) ==
    /\ c = <<>> => m = 0
    /\ Len(c) > 0 => Extra(c, ts, 1) = 0
    /\ \A i \in 1..Len(c) : Framed(c[i]) =>
           /\ Extra(c, ts, i) <= m - Loops(c, Len(c))
           /\ Quiet(c, i, Len(c)) /\ ~Unwinds(c) => Extra(c, ts, i) = m - Loops(c, Len(c))
    /\ \A i, k \in 1..Len(c) : i < k /\ Framed(c[i]) /\ Framed(c[k]) =>
           /\ Extra(c, ts, i) <= Extra(c, ts, k)
           /\ Quiet(c, i, k) => Extra(c, ts, i) = Extra(c, ts, k)

Sound(w, c, ts, m) == Typed(c, ts, m) /\ Nest(c) /\ Matched(w, c, ts) /\ Counted(c, ts, m)

-----------------------------------------------------------------------------
(* Sequences and counts                                                    *)

\* What a prefix of a sequence is.
LEMMA CutFacts ==
    ASSUME NEW S, NEW s \in Seq(S), NEW n \in 0..Len(s)
    PROVE  /\ Cut(s, n) \in Seq(S) /\ Len(Cut(s, n)) = n
           /\ \A i \in 1..n : Cut(s, n)[i] = s[i]
<1>1. \A i \in 1..n : s[i] \in S
  OBVIOUS
<1>2. n \in Int /\ n >= 0
  OBVIOUS
<1> QED  BY <1>1, <1>2, SubSeqProperties DEF Cut

\* What the sequence without its last element is.
LEMMA PopFacts ==
    ASSUME NEW S, NEW s \in Seq(S), Len(s) > 0
    PROVE  /\ Pop(s) \in Seq(S) /\ Len(Pop(s)) = Len(s) - 1
           /\ \A i \in 1..Len(s) - 1 : Pop(s)[i] = s[i]
           /\ Pop(s) = Cut(s, Len(s) - 1)
<1>1. Len(s) - 1 \in 0..Len(s)
  OBVIOUS
<1> QED  BY <1>1, CutFacts DEF Pop

\* A prefix of a prefix is a prefix.
LEMMA CutOfCut ==
    ASSUME NEW S, NEW s \in Seq(S), NEW n \in 0..Len(s), NEW m \in 0..n
    PROVE  Cut(Cut(s, n), m) = Cut(s, m)
<1>1. Cut(s, n) \in Seq(S) /\ Len(Cut(s, n)) = n /\ \A i \in 1..n : Cut(s, n)[i] = s[i]
  BY CutFacts
<1>2. /\ Cut(Cut(s, n), m) \in Seq(S) /\ Len(Cut(Cut(s, n), m)) = m
      /\ \A i \in 1..m : Cut(Cut(s, n), m)[i] = Cut(s, n)[i]
  <2>1. m \in 0..Len(Cut(s, n))
    BY <1>1
  <2> QED  BY <1>1, <2>1, CutFacts
<1>3. m \in 0..Len(s)
  OBVIOUS
<1>4. Cut(s, m) \in Seq(S) /\ Len(Cut(s, m)) = m /\ \A i \in 1..m : Cut(s, m)[i] = s[i]
  BY <1>3, CutFacts
<1> HIDE DEF Cut
<1>5. \A i \in 1..m : Cut(Cut(s, n), m)[i] = Cut(s, m)[i]
  BY <1>1, <1>2, <1>4
<1> QED  BY <1>2, <1>4, <1>5, SeqEqual

\* How many of the numbers up to i a set has.
Count(S, i) == Cardinality({j \in 1..i : j \in S})

\* A number more adds one to the count if the set has it.
LEMMA CountFacts ==
    ASSUME NEW S, NEW i \in Nat
    PROVE  Count(S, i) \in Nat /\ Count(S, i + 1) = Count(S, i) + (IF i + 1 \in S THEN 1 ELSE 0)
<1> DEFINE A == {j \in 1..i : j \in S}
           B == {j \in 1..i + 1 : j \in S}
<1>1. IsFiniteSet(1..i)
  BY FS_Interval
<1>2. IsFiniteSet(A) /\ Cardinality(A) \in Nat
  <2>1. A \subseteq 1..i
    OBVIOUS
  <2> QED  BY <1>1, <2>1, FS_Subset, FS_CardinalityType
<1>3. CASE i + 1 \in S
  <2>1. B = A \union {i + 1} /\ i + 1 \notin A
    BY <1>3
  <2> HIDE DEF A, B
  <2>2. Cardinality(B) = Cardinality(A) + 1
    BY <1>2, <2>1, FS_AddElement
  <2> QED  BY <1>2, <1>3, <2>2 DEF A, B, Count
<1>4. CASE i + 1 \notin S
  <2>1. B = A
    BY <1>4
  <2> QED  BY <1>2, <1>4, <2>1 DEF Count
<1> QED  BY <1>3, <1>4

\* A count grows with the numbers it looks at.
LEMMA CountGrows ==
    ASSUME NEW S, NEW i \in Nat, NEW k \in Nat, i <= k
    PROVE  Count(S, i) <= Count(S, k)
<1>1. {j \in 1..i : j \in S} \subseteq {j \in 1..k : j \in S}
  OBVIOUS
<1>2. {j \in 1..k : j \in S} \subseteq 1..k /\ IsFiniteSet(1..k)
  BY FS_Interval
<1>3. IsFiniteSet({j \in 1..k : j \in S})
  BY <1>2, FS_Subset
<1> QED  BY <1>1, <1>3, FS_Subset DEF Count

\* How many of the first i regions have frames, and how many are loops.
LEMMA RankFacts ==
    ASSUME NEW c, NEW i \in Nat
    PROVE  /\ Rank(c, i) \in Nat /\ Loops(c, i) \in Nat
           /\ Rank(c, 0) = 0 /\ Loops(c, 0) = 0
           /\ Rank(c, i + 1) = Rank(c, i) + (IF Framed(c[i + 1]) THEN 1 ELSE 0)
           /\ Loops(c, i + 1) = Loops(c, i) + (IF c[i + 1].kind = "loop" THEN 1 ELSE 0)
           /\ \A k \in Nat : i <= k => Rank(c, i) <= Rank(c, k) /\ Loops(c, i) <= Loops(c, k)
<1> DEFINE F == {j \in Nat : Framed(c[j])}
           L == {j \in Nat : c[j].kind = "loop"}
<1>1. \A k \in Nat : /\ {j \in 1..k : Framed(c[j])} = {j \in 1..k : j \in F}
                     /\ {j \in 1..k : c[j].kind = "loop"} = {j \in 1..k : j \in L}
  OBVIOUS
<1>2. i + 1 \in F <=> Framed(c[i + 1])
  OBVIOUS
<1>3. i + 1 \in L <=> c[i + 1].kind = "loop"
  OBVIOUS
<1> HIDE DEF F, L
<1>4. \A k \in Nat : Rank(c, k) = Count(F, k) /\ Loops(c, k) = Count(L, k)
  BY <1>1 DEF Rank, Loops, Count
<1>5. Rank(c, i) \in Nat /\ Loops(c, i) \in Nat
  BY <1>4, CountFacts
<1>6. Rank(c, 0) = 0 /\ Loops(c, 0) = 0
  <2>1. {j \in 1..0 : Framed(c[j])} = {} /\ {j \in 1..0 : c[j].kind = "loop"} = {}
    OBVIOUS
  <2> QED  BY <2>1, FS_EmptySet DEF Rank, Loops
<1>7. i + 1 \in Nat
  OBVIOUS
<1>8. Rank(c, i + 1) = Rank(c, i) + (IF Framed(c[i + 1]) THEN 1 ELSE 0)
  BY <1>2, <1>4, <1>7, CountFacts
<1>9. Loops(c, i + 1) = Loops(c, i) + (IF c[i + 1].kind = "loop" THEN 1 ELSE 0)
  BY <1>3, <1>4, <1>7, CountFacts
<1>10. \A k \in Nat : i <= k => Rank(c, i) <= Rank(c, k) /\ Loops(c, i) <= Loops(c, k)
  BY <1>4, CountGrows
<1> QED  BY <1>5, <1>6, <1>8, <1>9, <1>10

\* The counts depend on the kinds of the regions only.
LEMMA RankSame ==
    ASSUME NEW c, NEW d, NEW i \in Nat, \A j \in 1..i : c[j].kind = d[j].kind
    PROVE  Rank(c, i) = Rank(d, i) /\ Loops(c, i) = Loops(d, i)
<1>1. {j \in 1..i : Framed(c[j])} = {j \in 1..i : Framed(d[j])}
  BY DEF Framed
<1>2. {j \in 1..i : c[j].kind = "loop"} = {j \in 1..i : d[j].kind = "loop"}
  OBVIOUS
<1> QED  BY <1>1, <1>2 DEF Rank, Loops

\* A region with a frame has a larger rank than the regions under it.
LEMMA RankOrder ==
    ASSUME NEW c, NEW i \in Nat, NEW k \in Nat, i < k, Framed(c[k])
    PROVE  Rank(c, i) < Rank(c, k)
<1>1. k - 1 \in Nat /\ i <= k - 1 /\ (k - 1) + 1 = k
  OBVIOUS
<1>2. Rank(c, i) <= Rank(c, k - 1)
  BY <1>1, RankFacts
<1>3. Rank(c, (k - 1) + 1) = Rank(c, k - 1) + 1
  BY <1>1, RankFacts
<1>4. Rank(c, i) \in Nat /\ Rank(c, k - 1) \in Nat
  BY <1>1, RankFacts
<1> QED  BY <1>1, <1>2, <1>3, <1>4

-----------------------------------------------------------------------------
(* What Sound says of a nest one region longer or shorter                  *)

\* A nest with one more region.
LEMMA AppendFacts ==
    ASSUME NEW c \in Seq(Regions), NEW r \in Regions
    PROVE  LET d == Append(c, r)
           IN  /\ d \in Seq(Regions) /\ Len(d) = Len(c) + 1 /\ d[Len(d)] = r
               /\ \A i \in 1..Len(c) : d[i] = c[i]
               /\ \A i \in 0..Len(c) : Rank(d, i) = Rank(c, i) /\ Loops(d, i) = Loops(c, i)
               /\ Rank(d, Len(d)) = Rank(c, Len(c)) + (IF Framed(r) THEN 1 ELSE 0)
               /\ Loops(d, Len(d)) = Loops(c, Len(c)) + (IF r.kind = "loop" THEN 1 ELSE 0)
<1> DEFINE d == Append(c, r)
<1>1. d \in Seq(Regions) /\ Len(d) = Len(c) + 1 /\ d[Len(c) + 1] = r /\ Len(c) \in Nat
  OBVIOUS
<1>2. \A i \in 1..Len(c) : d[i] = c[i]
  OBVIOUS
<1> HIDE DEF d
<1>3. \A i \in 0..Len(c) : Rank(d, i) = Rank(c, i) /\ Loops(d, i) = Loops(c, i)
  <2> TAKE i \in 0..Len(c)
  <2>1. i \in Nat /\ \A j \in 1..i : d[j].kind = c[j].kind
    BY <1>1, <1>2
  <2> QED  BY <2>1, RankSame
<1>4. /\ Rank(d, Len(c) + 1) = Rank(d, Len(c)) + (IF Framed(r) THEN 1 ELSE 0)
      /\ Loops(d, Len(c) + 1) = Loops(d, Len(c)) + (IF r.kind = "loop" THEN 1 ELSE 0)
  BY <1>1, RankFacts
<1>5. Len(c) \in 0..Len(c)
  BY <1>1
<1>6. QED  BY <1>1, <1>2, <1>3, <1>4, <1>5 DEF d

\* A prefix of a nest.
LEMMA CutNest ==
    ASSUME NEW c \in Seq(Regions), NEW k \in 0..Len(c)
    PROVE  LET d == Cut(c, k)
           IN  /\ d \in Seq(Regions) /\ Len(d) = k
               /\ \A i \in 1..k : d[i] = c[i]
               /\ \A i \in 0..k : Rank(d, i) = Rank(c, i) /\ Loops(d, i) = Loops(c, i)
<1> DEFINE d == Cut(c, k)
<1>1. d \in Seq(Regions) /\ Len(d) = k /\ \A i \in 1..k : d[i] = c[i]
  BY CutFacts
<1> HIDE DEF d
<1>2. \A i \in 0..k : Rank(d, i) = Rank(c, i) /\ Loops(d, i) = Loops(c, i)
  <2> TAKE i \in 0..k
  <2>1. i \in Nat /\ \A j \in 1..i : d[j].kind = c[j].kind
    BY <1>1
  <2> QED  BY <2>1, RankSame
<1> QED  BY <1>1, <1>2 DEF d

\* The frame of a region is on the stack.
LEMMA RankInRange ==
    ASSUME NEW c \in Seq(Regions), NEW i \in 1..Len(c), Framed(c[i])
    PROVE  Rank(c, i) \in 1..Rank(c, Len(c))
<1>1. 0 \in Nat /\ i \in Nat /\ 0 < i /\ Len(c) \in Nat /\ i <= Len(c)
  OBVIOUS
<1>2. Rank(c, 0) = 0 /\ Rank(c, i) \in Nat /\ Rank(c, Len(c)) \in Nat /\ Rank(c, i) <= Rank(c, Len(c))
  BY <1>1, RankFacts
<1>3. Rank(c, 0) < Rank(c, i)
  BY <1>1, RankOrder
<1> QED  BY <1>2, <1>3

\* What a prefix inherits of the nest.
LEMMA NestPrefix ==
    ASSUME NEW c \in Seq(Regions), NEW d \in Seq(Regions), Nest(c), Len(d) <= Len(c),
           \A i \in 1..Len(d) : d[i] = c[i]
    PROVE  Nest(d)
<1> SUFFICES ASSUME NEW i \in 1..Len(d) PROVE NestAt(d, i)
  BY DEF Nest
<1>1. i \in 1..Len(c) /\ d[i] = c[i] /\ NestAt(c, i)
  BY DEF Nest
<1>2. i > 1 => i - 1 \in 1..Len(d) /\ d[i - 1] = c[i - 1]
  OBVIOUS
<1> QED  BY <1>1, <1>2 DEF NestAt

\* A region with a frame is pushed, and its frame: pushTryFrame.
LEMMA PushFrame ==
    ASSUME NEW w \in BOOLEAN, NEW c, NEW ts, NEW m, Sound(w, c, ts, m),
           NEW r \in Regions, NEW tf \in TryFrames, Framed(r), FrameFor(w, r, tf, Len(c) + 1),
           tf.iterLen = m, NestAt(Append(c, r), Len(c) + 1)
    PROVE  Sound(w, Append(c, r), Append(ts, tf), m)
<1> DEFINE d  == Append(c, r)
           us == Append(ts, tf)
<1>1. /\ c \in Seq(Regions) /\ ts \in Seq(TryFrames) /\ m \in Nat /\ Len(c) \in Nat
      /\ Nest(c) /\ Matched(w, c, ts) /\ Counted(c, ts, m)
  BY DEF Sound, Typed
<1>2. /\ d \in Seq(Regions) /\ Len(d) = Len(c) + 1 /\ d[Len(d)] = r
      /\ \A i \in 1..Len(c) : d[i] = c[i]
      /\ \A i \in 0..Len(c) : Rank(d, i) = Rank(c, i) /\ Loops(d, i) = Loops(c, i)
      /\ Rank(d, Len(d)) = Rank(c, Len(c)) + 1 /\ Loops(d, Len(d)) = Loops(c, Len(c))
  <2>1. r.kind # "loop"
    BY DEF Framed, GoKinds
  <2>2. Loops(c, Len(c)) \in Nat
    BY <1>1, RankFacts
  <2> QED  BY <1>1, <2>1, <2>2, AppendFacts
<1>3. /\ us \in Seq(TryFrames) /\ Len(us) = Len(ts) + 1 /\ us[Len(us)] = tf
      /\ \A n \in 1..Len(ts) : us[n] = ts[n]
  BY <1>1
<1>4. Len(ts) = Rank(c, Len(c)) /\ Len(ts) \in Nat
  BY <1>1 DEF Matched
<1>5. \A i \in 1..Len(c) : Framed(c[i]) => /\ Rank(c, i) \in 1..Len(ts) /\ Rank(d, i) = Rank(c, i)
                                           /\ us[Rank(d, i)] = ts[Rank(c, i)]
  <2> SUFFICES ASSUME NEW i \in 1..Len(c), Framed(c[i])
               PROVE  /\ Rank(c, i) \in 1..Len(ts) /\ Rank(d, i) = Rank(c, i)
                      /\ us[Rank(d, i)] = ts[Rank(c, i)]
    OBVIOUS
  <2>1. Rank(c, i) \in 1..Len(ts)
    BY <1>1, <1>4, RankInRange
  <2>2. Rank(d, i) = Rank(c, i)
    BY <1>1, <1>2
  <2> QED  BY <1>3, <2>1, <2>2
<1>6. us[Rank(d, Len(d))] = tf /\ Rank(d, Len(d)) = Len(us)
  BY <1>2, <1>3, <1>4
<1>7. NestAt(d, Len(d))
  BY <1>2
<1> HIDE DEF d, us
<1>8. Nest(d)
  <2> SUFFICES ASSUME NEW i \in 1..Len(c) PROVE NestAt(d, i)
    BY <1>1, <1>2, <1>7 DEF Nest
  <2>1. NestAt(c, i) /\ d[i] = c[i]
    BY <1>1, <1>2 DEF Nest
  <2>2. i > 1 => d[i - 1] = c[i - 1]
    BY <1>2
  <2> QED  BY <2>1, <2>2 DEF NestAt
<1>9. Matched(w, d, us)
  <2>1. Len(us) = Rank(d, Len(d))
    BY <1>6
  <2>2. ASSUME NEW i \in 1..Len(d), Framed(d[i]) PROVE FrameFor(w, d[i], us[Rank(d, i)], i)
    <3>1. CASE i = Len(d)
      BY <1>2, <1>6, <3>1
    <3>2. CASE i \in 1..Len(c)
      BY <1>1, <1>2, <1>5, <2>2, <3>2 DEF Matched
    <3> QED  BY <1>1, <1>2, <3>1, <3>2
  <2>3. ASSUME NEW n \in 1..Len(us) PROVE \E i \in 1..Len(d) : Framed(d[i]) /\ Rank(d, i) = n
    <3>1. CASE n = Len(us)
      BY <1>1, <1>2, <1>6, <3>1
    <3>2. CASE n \in 1..Len(ts)
      <4>1. PICK i \in 1..Len(c) : Framed(c[i]) /\ Rank(c, i) = n
        BY <1>1, <3>2 DEF Matched
      <4> QED  BY <1>1, <1>2, <1>5, <4>1
    <3> QED  BY <1>3, <1>4, <3>1, <3>2
  <2> QED  BY <2>1, <2>2, <2>3 DEF Matched
<1>10. \A i \in 1..Len(c) : Framed(c[i]) => Extra(d, us, i) = Extra(c, ts, i) /\ Extra(c, ts, i) \in Int
  <2> SUFFICES ASSUME NEW i \in 1..Len(c), Framed(c[i])
               PROVE  Extra(d, us, i) = Extra(c, ts, i) /\ Extra(c, ts, i) \in Int
    OBVIOUS
  <2>1. us[Rank(d, i)] = ts[Rank(c, i)] /\ ts[Rank(c, i)] \in TryFrames
    BY <1>1, <1>5
  <2>2. Loops(d, i) = Loops(c, i) /\ i \in Nat /\ Loops(c, i) \in Nat
    BY <1>1, <1>2, RankFacts
  <2> QED  BY <2>1, <2>2 DEF Extra, TryFrames
<1>11. Extra(d, us, Len(d)) = m - Loops(d, Len(d)) /\ Loops(d, Len(d)) = Loops(c, Len(c)) /\ Loops(c, Len(c)) \in Nat
  BY <1>1, <1>2, <1>6, RankFacts DEF Extra
<1>12. ASSUME NEW i \in 1..Len(c), Framed(c[i])
       PROVE  /\ Extra(d, us, i) <= Extra(d, us, Len(d))
              /\ Quiet(d, i, Len(d)) => Extra(d, us, i) = Extra(d, us, Len(d))
  <2>1. Extra(c, ts, i) <= m - Loops(c, Len(c))
    BY <1>1, <1>12 DEF Counted
  <2>2. Quiet(d, i, Len(d)) => Quiet(c, i, Len(c)) /\ ~Unwinds(c)
    <3>1. Len(c) \in 1..Len(c) /\ Len(d) > 1 /\ Len(d) - 1 = Len(c) /\ d[Len(c)] = c[Len(c)]
      BY <1>1, <1>2
    <3>2. d[Len(d)].phase = "close" <=> c[Len(c)].kind = "unwind"
      BY <1>7, <3>1 DEF NestAt
    <3>3. Quiet(d, i, Len(d)) => d[Len(d)].phase # "close"
      BY <1>1, <1>2 DEF Quiet
    <3>4. Quiet(d, i, Len(d)) => Quiet(c, i, Len(c))
      BY <1>1, <1>2 DEF Quiet
    <3> QED  BY <3>2, <3>3, <3>4 DEF Unwinds
  <2>3. Quiet(d, i, Len(d)) => Extra(c, ts, i) = m - Loops(c, Len(c))
    BY <1>1, <1>12, <2>2 DEF Counted
  <2> QED  BY <1>10, <1>11, <1>12, <2>1, <2>3
<1>13. ASSUME NEW i \in 1..Len(c), NEW k \in 1..Len(c), i < k, Framed(c[i]), Framed(c[k])
       PROVE  /\ Extra(d, us, i) <= Extra(d, us, k)
              /\ Quiet(d, i, k) => Extra(d, us, i) = Extra(d, us, k)
  <2>1. Quiet(d, i, k) => Quiet(c, i, k)
    BY <1>1, <1>2 DEF Quiet
  <2>2. /\ Extra(c, ts, i) <= Extra(c, ts, k)
        /\ Quiet(c, i, k) => Extra(c, ts, i) = Extra(c, ts, k)
    BY <1>1, <1>13 DEF Counted
  <2> QED  BY <1>10, <1>13, <2>1, <2>2
<1>14. Extra(d, us, 1) = 0
  <2>1. CASE Len(c) = 0
    <3>1. Len(d) = 1 /\ m = 0 /\ Loops(c, 0) = 0
      BY <1>1, <1>2, <2>1, RankFacts DEF Counted
    <3> QED  BY <1>11, <2>1, <3>1
  <2>2. CASE Len(c) > 0
    <3>1. 1 \in 1..Len(c) /\ Extra(c, ts, 1) = 0 /\ NestAt(c, 1)
      BY <1>1, <2>2 DEF Counted, Nest
    <3>2. Framed(c[1])
      BY <3>1 DEF NestAt, Framed, GoKinds
    <3> QED  BY <1>10, <3>1, <3>2
  <2> QED  BY <1>1, <2>1, <2>2
<1>15. Counted(d, us, m)
  <2>1. d # <<>>
    BY <1>1, <1>2
  <2>2. ASSUME NEW i \in 1..Len(d), Framed(d[i])
        PROVE  /\ Extra(d, us, i) <= m - Loops(d, Len(d))
               /\ Quiet(d, i, Len(d)) => Extra(d, us, i) = m - Loops(d, Len(d))
    <3>1. CASE i = Len(d)
      BY <1>1, <1>11, <3>1
    <3>2. CASE i \in 1..Len(c)
      BY <1>2, <1>11, <1>12, <2>2, <3>2
    <3> QED  BY <1>1, <1>2, <3>1, <3>2
  <2>3. ASSUME NEW i \in 1..Len(d), NEW k \in 1..Len(d), i < k, Framed(d[i]), Framed(d[k])
        PROVE  /\ Extra(d, us, i) <= Extra(d, us, k)
               /\ Quiet(d, i, k) => Extra(d, us, i) = Extra(d, us, k)
    <3>1. i \in 1..Len(c) /\ d[i] = c[i]
      BY <1>1, <1>2, <2>3
    <3>2. CASE k = Len(d)
      BY <1>12, <2>3, <3>1, <3>2
    <3>3. CASE k \in 1..Len(c)
      BY <1>2, <1>13, <2>3, <3>1, <3>3
    <3> QED  BY <1>1, <1>2, <3>2, <3>3
  <2> QED  BY <1>14, <2>1, <2>2, <2>3 DEF Counted
<1> QED  BY <1>1, <1>2, <1>3, <1>8, <1>9, <1>15 DEF Sound, Typed, d, us

\* A region without a frame is pushed: a call, a loop with its item, or an unwind
\* region, over which there may be items to close.
LEMMA PushOther ==
    ASSUME NEW w \in BOOLEAN, NEW c, NEW ts, NEW m, Sound(w, c, ts, m), Len(c) > 0,
           NEW r \in Regions, ~Framed(r), NestAt(Append(c, r), Len(c) + 1), NEW m2 \in Nat,
           r.kind = "unwind" => m2 >= m,
           r.kind # "unwind" => m2 = m + (IF r.kind = "loop" THEN 1 ELSE 0)
    PROVE  Sound(w, Append(c, r), ts, m2)
<1> DEFINE d == Append(c, r)
<1>1. /\ c \in Seq(Regions) /\ ts \in Seq(TryFrames) /\ m \in Nat /\ Len(c) \in Nat
      /\ Nest(c) /\ Matched(w, c, ts) /\ Counted(c, ts, m)
  BY DEF Sound, Typed
<1>2. /\ d \in Seq(Regions) /\ Len(d) = Len(c) + 1 /\ d[Len(d)] = r
      /\ \A i \in 1..Len(c) : d[i] = c[i]
      /\ \A i \in 0..Len(c) : Rank(d, i) = Rank(c, i) /\ Loops(d, i) = Loops(c, i)
      /\ Rank(d, Len(d)) = Rank(c, Len(c))
      /\ Loops(d, Len(d)) = Loops(c, Len(c)) + (IF r.kind = "loop" THEN 1 ELSE 0)
      /\ Loops(c, Len(c)) \in Nat
  <2>1. Loops(c, Len(c)) \in Nat /\ Rank(c, Len(c)) \in Nat
    BY <1>1, RankFacts
  <2> QED  BY <1>1, <2>1, AppendFacts
<1>3. NestAt(d, Len(d))
  BY <1>2
<1> HIDE DEF d
<1>4. Nest(d)
  <2> SUFFICES ASSUME NEW i \in 1..Len(c) PROVE NestAt(d, i)
    BY <1>1, <1>2, <1>3 DEF Nest
  <2>1. NestAt(c, i) /\ d[i] = c[i]
    BY <1>1, <1>2 DEF Nest
  <2>2. i > 1 => d[i - 1] = c[i - 1]
    BY <1>2
  <2> QED  BY <2>1, <2>2 DEF NestAt
<1>5. \A i \in 1..Len(d) : Framed(d[i]) => i \in 1..Len(c) /\ d[i] = c[i] /\ Rank(d, i) = Rank(c, i)
  BY <1>1, <1>2
<1>6. Matched(w, d, ts)
  <2>1. Len(ts) = Rank(d, Len(d))
    BY <1>1, <1>2 DEF Matched
  <2>2. \A i \in 1..Len(d) : Framed(d[i]) => FrameFor(w, d[i], ts[Rank(d, i)], i)
    BY <1>1, <1>5 DEF Matched
  <2>3. ASSUME NEW n \in 1..Len(ts) PROVE \E i \in 1..Len(d) : Framed(d[i]) /\ Rank(d, i) = n
    <3>1. PICK i \in 1..Len(c) : Framed(c[i]) /\ Rank(c, i) = n
      BY <1>1 DEF Matched
    <3> QED  BY <1>1, <1>2, <3>1
  <2> QED  BY <2>1, <2>2, <2>3 DEF Matched
<1>7. \A i \in 1..Len(c) : Framed(c[i]) => Extra(d, ts, i) = Extra(c, ts, i) /\ Extra(c, ts, i) \in Int
  <2> SUFFICES ASSUME NEW i \in 1..Len(c), Framed(c[i])
               PROVE  Extra(d, ts, i) = Extra(c, ts, i) /\ Extra(c, ts, i) \in Int
    OBVIOUS
  <2>1. Rank(c, i) \in 1..Len(ts) /\ Rank(d, i) = Rank(c, i)
    BY <1>1, <1>2, RankInRange DEF Matched
  <2>2. Loops(d, i) = Loops(c, i) /\ Loops(c, i) \in Nat
    BY <1>1, <1>2, RankFacts
  <2>3. ts[Rank(c, i)] \in TryFrames
    BY <1>1, <2>1
  <2> QED  BY <2>1, <2>2, <2>3 DEF Extra, TryFrames
<1>8. Counted(d, ts, m2)
  <2>1. d # <<>>
    BY <1>1, <1>2
  <2>2. Extra(d, ts, 1) = 0
    <3>1. 1 \in 1..Len(c) /\ Extra(c, ts, 1) = 0 /\ NestAt(c, 1)
      BY <1>1 DEF Counted, Nest
    <3>2. Framed(c[1])
      BY <3>1 DEF NestAt, Framed, GoKinds
    <3> QED  BY <1>7, <3>1, <3>2
  <2>3. ASSUME NEW i \in 1..Len(d), Framed(d[i])
        PROVE  /\ Extra(d, ts, i) <= m2 - Loops(d, Len(d))
               /\ Quiet(d, i, Len(d)) /\ ~Unwinds(d) => Extra(d, ts, i) = m2 - Loops(d, Len(d))
    <3>1. i \in 1..Len(c) /\ Framed(c[i])
      BY <1>5, <2>3
    <3>2. /\ Extra(c, ts, i) <= m - Loops(c, Len(c))
          /\ Quiet(c, i, Len(c)) /\ ~Unwinds(c) => Extra(c, ts, i) = m - Loops(c, Len(c))
      BY <1>1, <3>1 DEF Counted
    <3>3. Extra(d, ts, i) = Extra(c, ts, i) /\ Extra(c, ts, i) \in Int
      BY <1>7, <3>1
    <3>4. m - Loops(c, Len(c)) <= m2 - Loops(d, Len(d))
      BY <1>1, <1>2
    <3>5. ~Unwinds(d) => m - Loops(c, Len(c)) = m2 - Loops(d, Len(d))
      BY <1>1, <1>2 DEF Unwinds
    <3>6. Quiet(d, i, Len(d)) => Quiet(c, i, Len(c)) /\ ~Unwinds(c)
      <4>1. Len(d) > 1 /\ Len(d) - 1 = Len(c) /\ d[Len(c)] = c[Len(c)]
        BY <1>1, <1>2
      <4>2. d[Len(d)].phase = "close" <=> c[Len(c)].kind = "unwind"
        BY <1>3, <4>1 DEF NestAt
      <4>3. Quiet(d, i, Len(d)) => d[Len(d)].phase # "close" /\ Quiet(c, i, Len(c))
        BY <1>1, <1>2, <3>1 DEF Quiet
      <4> QED  BY <4>2, <4>3 DEF Unwinds
    <3> QED  BY <1>1, <1>2, <3>2, <3>3, <3>4, <3>5, <3>6
  <2>4. ASSUME NEW i \in 1..Len(d), NEW k \in 1..Len(d), i < k, Framed(d[i]), Framed(d[k])
        PROVE  /\ Extra(d, ts, i) <= Extra(d, ts, k)
               /\ Quiet(d, i, k) => Extra(d, ts, i) = Extra(d, ts, k)
    <3>1. i \in 1..Len(c) /\ k \in 1..Len(c) /\ Framed(c[i]) /\ Framed(c[k])
      BY <1>5, <2>4
    <3>2. Quiet(d, i, k) => Quiet(c, i, k)
      BY <1>1, <1>2, <3>1, SMTT(30) DEF Quiet
    <3>3. /\ Extra(c, ts, i) <= Extra(c, ts, k)
          /\ Quiet(c, i, k) => Extra(c, ts, i) = Extra(c, ts, k)
      BY <1>1, <2>4, <3>1 DEF Counted
    <3> QED  BY <1>7, <3>1, <3>2, <3>3
  <2> QED  BY <2>1, <2>2, <2>3, <2>4 DEF Counted
<1> QED  BY <1>1, <1>2, <1>4, <1>6, <1>8 DEF Sound, Typed, d

\* The regions above the k-th are left, and their frames popped, with m2 items
\* left on iterStack.
LEMMA Shorten ==
    ASSUME NEW w \in BOOLEAN, NEW c, NEW ts, NEW m, Sound(w, c, ts, m),
           NEW k \in 0..Len(c), NEW m2 \in Nat, k = 0 => m2 = 0,
           \A i \in 1..k : Framed(c[i]) =>
               /\ Extra(c, ts, i) <= m2 - Loops(c, k)
               /\ Quiet(c, i, k) /\ c[k].kind # "unwind" => Extra(c, ts, i) = m2 - Loops(c, k)
    PROVE  Rank(c, k) \in 0..Len(ts) /\ Sound(w, Cut(c, k), Cut(ts, Rank(c, k)), m2)
<1> DEFINE d  == Cut(c, k)
           us == Cut(ts, Rank(c, k))
<1>1. /\ c \in Seq(Regions) /\ ts \in Seq(TryFrames) /\ m \in Nat /\ Len(c) \in Nat
      /\ Nest(c) /\ Matched(w, c, ts) /\ Counted(c, ts, m)
  BY DEF Sound, Typed
<1>2. /\ d \in Seq(Regions) /\ Len(d) = k /\ \A i \in 1..k : d[i] = c[i]
      /\ \A i \in 0..k : Rank(d, i) = Rank(c, i) /\ Loops(d, i) = Loops(c, i)
  BY <1>1, CutNest
<1>3. Rank(c, k) \in 0..Len(ts)
  <2>1. k \in Nat /\ k <= Len(c)
    BY <1>1
  <2>2. Rank(c, k) \in Nat /\ Rank(c, k) <= Rank(c, Len(c)) /\ Rank(c, Len(c)) = Len(ts)
    BY <1>1, <2>1, RankFacts DEF Matched
  <2> QED  BY <2>2
<1>4. us \in Seq(TryFrames) /\ Len(us) = Rank(c, k) /\ \A n \in 1..Rank(c, k) : us[n] = ts[n]
  BY <1>1, <1>3, CutFacts
<1> HIDE DEF d, us
<1>5. \A i \in 1..k : /\ i \in 1..Len(c) /\ d[i] = c[i] /\ Rank(d, i) = Rank(c, i)
                      /\ Framed(c[i]) => Rank(c, i) \in 1..Rank(c, k) /\ us[Rank(c, i)] = ts[Rank(c, i)]
  <2> SUFFICES ASSUME NEW i \in 1..k
               PROVE  /\ i \in 1..Len(c) /\ d[i] = c[i] /\ Rank(d, i) = Rank(c, i)
                      /\ Framed(c[i]) => Rank(c, i) \in 1..Rank(c, k) /\ us[Rank(c, i)] = ts[Rank(c, i)]
    OBVIOUS
  <2>1. i \in 1..Len(d)
    BY <1>2
  <2>2. Framed(d[i]) => Rank(d, i) \in 1..Rank(d, Len(d))
    BY <1>2, <2>1, RankInRange
  <2>3. Rank(d, k) = Rank(c, k) /\ Rank(d, i) = Rank(c, i) /\ d[i] = c[i]
    BY <1>2
  <2> QED  BY <1>1, <1>2, <1>4, <2>2, <2>3
<1>6. Nest(d)
  <2>1. Len(d) <= Len(c) /\ \A i \in 1..Len(d) : d[i] = c[i]
    BY <1>1, <1>2
  <2> QED  BY <1>1, <1>2, <2>1, NestPrefix
<1>7. Matched(w, d, us)
  <2>1. Len(us) = Rank(d, Len(d))
    BY <1>2, <1>4
  <2>2. ASSUME NEW i \in 1..Len(d), Framed(d[i]) PROVE FrameFor(w, d[i], us[Rank(d, i)], i)
    BY <1>1, <1>2, <1>5, <2>2 DEF Matched
  <2>3. ASSUME NEW n \in 1..Len(us) PROVE \E i \in 1..Len(d) : Framed(d[i]) /\ Rank(d, i) = n
    <3>1. n \in 1..Len(ts)
      BY <1>1, <1>3, <1>4
    <3>2. PICK i \in 1..Len(c) : Framed(c[i]) /\ Rank(c, i) = n
      BY <1>1, <3>1 DEF Matched
    <3>3. i <= k
      <4>1. SUFFICES ASSUME k < i PROVE FALSE
        BY <1>1, <3>2
      <4>2. k \in Nat /\ i \in Nat
        BY <1>1
      <4>3. Rank(c, k) < Rank(c, i)
        BY <3>2, <4>1, <4>2, RankOrder
      <4> QED  BY <1>3, <1>4, <3>2, <4>3
    <3> QED  BY <1>2, <1>5, <3>2, <3>3
  <2> QED  BY <2>1, <2>2, <2>3 DEF Matched
<1>8. \A i \in 1..k : Framed(c[i]) => Extra(d, us, i) = Extra(c, ts, i)
  BY <1>2, <1>5 DEF Extra
<1>9. Counted(d, us, m2)
  <2>1. d = <<>> => m2 = 0
    BY <1>2
  <2>2. Len(d) > 0 => Extra(d, us, 1) = 0
    <3> SUFFICES ASSUME Len(d) > 0 PROVE Extra(d, us, 1) = 0
      OBVIOUS
    <3>1. 1 \in 1..k /\ 1 \in 1..Len(c) /\ Len(c) > 0
      BY <1>1, <1>2
    <3>2. Extra(c, ts, 1) = 0 /\ NestAt(c, 1)
      BY <1>1, <3>1 DEF Counted, Nest
    <3>3. Framed(c[1])
      BY <3>2 DEF NestAt, Framed, GoKinds
    <3> QED  BY <1>8, <3>1, <3>2, <3>3
  <2>3. ASSUME NEW i \in 1..Len(d), Framed(d[i])
        PROVE  /\ Extra(d, us, i) <= m2 - Loops(d, Len(d))
               /\ Quiet(d, i, Len(d)) /\ ~Unwinds(d) => Extra(d, us, i) = m2 - Loops(d, Len(d))
    <3>1. i \in 1..k /\ Framed(c[i]) /\ Extra(d, us, i) = Extra(c, ts, i) /\ Loops(d, Len(d)) = Loops(c, k)
      BY <1>2, <1>8, <2>3
    <3>2. Quiet(d, i, Len(d)) /\ ~Unwinds(d) => Quiet(c, i, k) /\ c[k].kind # "unwind"
      BY <1>2, <3>1 DEF Quiet, Unwinds
    <3> QED  BY <3>1, <3>2
  <2>4. ASSUME NEW i \in 1..Len(d), NEW j \in 1..Len(d), i < j, Framed(d[i]), Framed(d[j])
        PROVE  /\ Extra(d, us, i) <= Extra(d, us, j)
               /\ Quiet(d, i, j) => Extra(d, us, i) = Extra(d, us, j)
    <3>1. i \in 1..k /\ j \in 1..k /\ i \in 1..Len(c) /\ j \in 1..Len(c) /\ Framed(c[i]) /\ Framed(c[j])
      BY <1>2, <1>5, <2>4
    <3>2. Quiet(d, i, j) => Quiet(c, i, j)
      BY <1>2, <3>1 DEF Quiet
    <3>3. /\ Extra(c, ts, i) <= Extra(c, ts, j)
          /\ Quiet(c, i, j) => Extra(c, ts, i) = Extra(c, ts, j)
      BY <1>1, <2>4, <3>1 DEF Counted
    <3> QED  BY <1>8, <3>1, <3>2, <3>3
  <2> QED  BY <2>1, <2>2, <2>3, <2>4 DEF Counted
<1> QED  BY <1>2, <1>3, <1>4, <1>6, <1>7, <1>9 DEF Sound, Typed, d, us

\* An exception leaves the regions above the k-th, whose frame is found, and the
\* items above those that the frame remembers are dropped.
LEMMA CutToFrame ==
    ASSUME NEW w \in BOOLEAN, NEW c, NEW ts, NEW m, Sound(w, c, ts, m),
           NEW k \in 1..Len(c), Framed(c[k]), NEW n, n = Rank(c, k)
    PROVE  /\ n \in 1..Len(ts) /\ FrameFor(w, c[k], ts[n], k)
           /\ ts[n] \in TryFrames /\ ts[n].iterLen \in Nat /\ ts[n].iterLen <= m
           /\ Sound(w, Cut(c, k), Cut(ts, n), ts[n].iterLen)
<1>1. /\ c \in Seq(Regions) /\ ts \in Seq(TryFrames) /\ m \in Nat /\ Len(c) \in Nat
      /\ Nest(c) /\ Matched(w, c, ts) /\ Counted(c, ts, m)
  BY DEF Sound, Typed
<1>2. n \in 1..Len(ts) /\ FrameFor(w, c[k], ts[n], k)
  BY <1>1, RankInRange DEF Matched
<1>3. ts[n] \in TryFrames /\ ts[n].iterLen \in Nat
  <2>1. ts[n] \in TryFrames
    BY <1>1, <1>2
  <2> QED  BY <2>1 DEF TryFrames
<1>4. Extra(c, ts, k) = ts[n].iterLen - Loops(c, k) /\ k \in Nat /\ k \in 0..Len(c) /\ k # 0
  BY <1>1 DEF Extra
<1>5. Loops(c, k) \in Nat /\ Loops(c, Len(c)) \in Nat /\ Loops(c, k) <= Loops(c, Len(c))
  BY <1>1, <1>4, RankFacts
<1>6. Extra(c, ts, k) <= m - Loops(c, Len(c))
  BY <1>1 DEF Counted
<1>7. ts[n].iterLen <= m
  BY <1>1, <1>3, <1>4, <1>5, <1>6
<1>8. ASSUME NEW i \in 1..k, Framed(c[i])
      PROVE  /\ Extra(c, ts, i) <= Extra(c, ts, k)
             /\ Quiet(c, i, k) => Extra(c, ts, i) = Extra(c, ts, k)
  <2>1. CASE i = k
    BY <1>3, <1>4, <1>5, <2>1
  <2>2. CASE i < k
    BY <1>1, <1>8, <2>2 DEF Counted
  <2> QED  BY <1>4, <2>1, <2>2
<1>9. Rank(c, k) \in 0..Len(ts) /\ Sound(w, Cut(c, k), Cut(ts, Rank(c, k)), ts[n].iterLen)
  BY <1>3, <1>4, <1>8, Shorten
<1> QED  BY <1>2, <1>3, <1>7, <1>9

\* The region at the top, which has a frame, is left, and its frame popped.
LEMMA PopFrame ==
    ASSUME NEW w \in BOOLEAN, NEW c, NEW ts, NEW m, Sound(w, c, ts, m),
           Len(c) > 0, Framed(c[Len(c)])
    PROVE  /\ Len(ts) > 0 /\ ts[Len(ts)] \in TryFrames /\ FrameFor(w, c[Len(c)], ts[Len(ts)], Len(c))
           /\ Rank(c, Len(c)) = Len(ts)
           /\ Sound(w, Pop(c), Pop(ts), m)
<1>1. /\ c \in Seq(Regions) /\ ts \in Seq(TryFrames) /\ m \in Nat /\ Len(c) \in Nat
      /\ Nest(c) /\ Matched(w, c, ts) /\ Counted(c, ts, m)
  BY DEF Sound, Typed
<1> DEFINE k == Len(c) - 1
<1>2. k \in Nat /\ k \in 0..Len(c) /\ k + 1 = Len(c) /\ Len(c) \in 1..Len(c)
  BY <1>1
<1>3. Rank(c, Len(c)) = Len(ts) /\ Rank(c, Len(c)) \in 1..Len(ts)
  BY <1>1, <1>2, RankInRange DEF Matched
<1>4. ts[Len(ts)] \in TryFrames /\ FrameFor(w, c[Len(c)], ts[Len(ts)], Len(c)) /\ Len(ts) > 0
  BY <1>1, <1>2, <1>3 DEF Matched
<1>5. Rank(c, k + 1) = Rank(c, k) + 1 /\ Loops(c, k + 1) = Loops(c, k) /\ Rank(c, k) \in Nat /\ Loops(c, k) \in Nat
  <2>1. c[k + 1].kind # "loop" /\ Framed(c[k + 1])
    BY <1>2 DEF Framed, GoKinds
  <2>2. /\ Rank(c, k) \in Nat /\ Loops(c, k) \in Nat
        /\ Rank(c, k + 1) = Rank(c, k) + (IF Framed(c[k + 1]) THEN 1 ELSE 0)
        /\ Loops(c, k + 1) = Loops(c, k) + (IF c[k + 1].kind = "loop" THEN 1 ELSE 0)
    BY <1>2, RankFacts
  <2> QED  BY <2>1, <2>2
<1>6. Rank(c, k) = Len(ts) - 1 /\ Loops(c, k) = Loops(c, Len(c))
  BY <1>1, <1>2, <1>3, <1>5
<1>7. c[Len(c)].kind # "unwind"
  BY DEF Framed, GoKinds
<1>8. k = 0 => m = 0
  <2> SUFFICES ASSUME k = 0 PROVE m = 0
    OBVIOUS
  <2>1. Len(c) = 1 /\ Loops(c, 1) = 0 /\ Extra(c, ts, 1) = 0
    <3>1. Loops(c, 0) = 0
      BY <1>2, RankFacts
    <3> QED  BY <1>1, <1>2, <1>6, <3>1 DEF Counted
  <2>2. Quiet(c, 1, Len(c)) /\ ~Unwinds(c)
    BY <1>7, <2>1 DEF Quiet, Unwinds
  <2>3. Extra(c, ts, 1) = m - Loops(c, Len(c))
    BY <1>1, <1>2, <2>1, <2>2 DEF Counted
  <2> QED  BY <1>1, <2>1, <2>3
<1>9. ASSUME NEW i \in 1..k, Framed(c[i])
      PROVE  /\ Extra(c, ts, i) <= m - Loops(c, k)
             /\ Quiet(c, i, k) /\ c[k].kind # "unwind" => Extra(c, ts, i) = m - Loops(c, k)
  <2>1. /\ Extra(c, ts, i) <= m - Loops(c, Len(c))
        /\ Quiet(c, i, Len(c)) /\ ~Unwinds(c) => Extra(c, ts, i) = m - Loops(c, Len(c))
    BY <1>1, <1>2, <1>9 DEF Counted
  <2>2. NestAt(c, Len(c)) /\ Len(c) > 1 /\ Len(c) - 1 = k
    BY <1>1, <1>2 DEF Nest
  <2>3. c[k].kind # "unwind" => c[Len(c)].phase # "close"
    BY <2>2 DEF NestAt
  <2>4. Quiet(c, i, k) /\ c[k].kind # "unwind" => Quiet(c, i, Len(c)) /\ ~Unwinds(c)
    BY <1>2, <1>7, <2>3 DEF Quiet, Unwinds
  <2> QED  BY <1>6, <2>1, <2>4
<1>10. Sound(w, Cut(c, k), Cut(ts, Rank(c, k)), m)
  BY <1>1, <1>2, <1>8, <1>9, Shorten
<1> QED  BY <1>3, <1>4, <1>6, <1>10 DEF Pop

\* The region at the top, which has no frame, is left: a loop with its item.
LEMMA PopOther ==
    ASSUME NEW w \in BOOLEAN, NEW c, NEW ts, NEW m, Sound(w, c, ts, m),
           Len(c) > 0, ~Framed(c[Len(c)]), c[Len(c)].kind # "unwind",
           NEW m2, m2 = m - (IF c[Len(c)].kind = "loop" THEN 1 ELSE 0)
    PROVE  Len(c) > 1 /\ m2 \in Nat /\ Sound(w, Pop(c), ts, m2)
<1>1. /\ c \in Seq(Regions) /\ ts \in Seq(TryFrames) /\ m \in Nat /\ Len(c) \in Nat
      /\ Nest(c) /\ Matched(w, c, ts) /\ Counted(c, ts, m)
  BY DEF Sound, Typed
<1> DEFINE k == Len(c) - 1
<1>2. NestAt(c, Len(c)) /\ NestAt(c, 1)
  BY <1>1 DEF Nest
<1>3. Len(c) > 1 /\ Framed(c[1])
  <2>1. c[Len(c)].kind # "run" /\ Framed(c[1])
    BY <1>2 DEF NestAt, Framed, GoKinds
  <2> QED  BY <1>1, <1>2, <2>1 DEF NestAt
<1>4. k \in Nat /\ k \in 0..Len(c) /\ k + 1 = Len(c) /\ k # 0 /\ 1 \in 1..Len(c)
  BY <1>1, <1>3
<1>5. c[Len(c)].phase # "close" /\ c[k].kind # "unwind"
  BY <1>2, <1>3 DEF NestAt, Framed, GoKinds
<1>6. /\ Rank(c, k) = Len(ts) /\ Loops(c, k) \in Nat /\ Loops(c, Len(c)) \in Nat
      /\ Loops(c, Len(c)) = Loops(c, k) + (IF c[Len(c)].kind = "loop" THEN 1 ELSE 0)
  <2>1. /\ Rank(c, k) \in Nat /\ Loops(c, k) \in Nat
        /\ Rank(c, k + 1) = Rank(c, k) + (IF Framed(c[k + 1]) THEN 1 ELSE 0)
        /\ Loops(c, k + 1) = Loops(c, k) + (IF c[k + 1].kind = "loop" THEN 1 ELSE 0)
    BY <1>4, RankFacts
  <2>2. Rank(c, Len(c)) = Len(ts)
    BY <1>1 DEF Matched
  <2> QED  BY <1>4, <2>1, <2>2
<1>7. m2 \in Nat /\ m2 - Loops(c, k) = m - Loops(c, Len(c))
  <2>1. Extra(c, ts, 1) = 0 /\ Extra(c, ts, 1) <= m - Loops(c, Len(c))
    BY <1>1, <1>3, <1>4 DEF Counted
  <2> QED  BY <1>1, <1>6, <2>1
<1>8. ASSUME NEW i \in 1..k, Framed(c[i])
      PROVE  /\ Extra(c, ts, i) <= m2 - Loops(c, k)
             /\ Quiet(c, i, k) /\ c[k].kind # "unwind" => Extra(c, ts, i) = m2 - Loops(c, k)
  <2>1. /\ Extra(c, ts, i) <= m - Loops(c, Len(c))
        /\ Quiet(c, i, Len(c)) /\ ~Unwinds(c) => Extra(c, ts, i) = m - Loops(c, Len(c))
    BY <1>1, <1>4, <1>8 DEF Counted
  <2>2. Quiet(c, i, k) => Quiet(c, i, Len(c)) /\ ~Unwinds(c)
    BY <1>4, <1>5 DEF Quiet, Unwinds
  <2> QED  BY <1>7, <2>1, <2>2
<1>9. Sound(w, Cut(c, k), Cut(ts, Rank(c, k)), m2)
  BY <1>4, <1>7, <1>8, Shorten
<1>10. Cut(ts, Len(ts)) = ts
  BY <1>1, SubSeqFull DEF Cut
<1> QED  BY <1>3, <1>6, <1>7, <1>9, <1>10 DEF Pop

\* Regions and frames change, but neither which there are nor how they nest.
LEMMA Change ==
    ASSUME NEW w \in BOOLEAN, NEW c, NEW ts, NEW m, Sound(w, c, ts, m),
           NEW d \in Seq(Regions), NEW us \in Seq(TryFrames), Len(d) = Len(c), Len(us) = Len(ts),
           \A i \in 1..Len(c) :
               /\ d[i].kind = c[i].kind /\ d[i].catch = c[i].catch /\ d[i].finally = c[i].finally
               /\ d[i].pending = c[i].pending \/ c[i].kind = "try"
               /\ d[i].phase = c[i].phase \/ (c[i].kind \in {"try", "loop"} /\ d[i].phase \notin {"next", "close"}),
           \A n \in 1..Len(ts) : us[n].iterLen = ts[n].iterLen,
           \A i \in 1..Len(c) : Framed(c[i]) => FrameFor(w, d[i], us[Rank(c, i)], i)
    PROVE  Sound(w, d, us, m)
<1>1. /\ c \in Seq(Regions) /\ ts \in Seq(TryFrames) /\ m \in Nat /\ Len(c) \in Nat
      /\ Nest(c) /\ Matched(w, c, ts) /\ Counted(c, ts, m)
  BY DEF Sound, Typed
<1>2. \A i \in 1..Len(c) : (Framed(d[i]) <=> Framed(c[i])) /\ (d[i].phase = "close" <=> c[i].phase = "close")
  <2> SUFFICES ASSUME NEW i \in 1..Len(c)
               PROVE  (Framed(d[i]) <=> Framed(c[i])) /\ (d[i].phase = "close" <=> c[i].phase = "close")
    OBVIOUS
  <2>1. NestAt(c, i)
    BY <1>1 DEF Nest
  <2> QED  BY <2>1 DEF NestAt, Framed
<1>3. \A i \in 0..Len(c) : Rank(d, i) = Rank(c, i) /\ Loops(d, i) = Loops(c, i)
  <2> TAKE i \in 0..Len(c)
  <2>1. i \in Nat /\ \A j \in 1..i : d[j].kind = c[j].kind
    BY <1>1
  <2> QED  BY <2>1, RankSame
<1>4. Nest(d)
  <2> SUFFICES ASSUME NEW i \in 1..Len(c) PROVE NestAt(d, i)
    BY DEF Nest
  <2>1. NestAt(c, i)
    BY <1>1 DEF Nest
  <2>2. i > 1 => i - 1 \in 1..Len(c)
    BY <1>1
  <2>3. i > 1 => d[i - 1].kind = c[i - 1].kind
    BY <2>2
  <2> QED  BY <2>1, <2>3 DEF NestAt, Framed
<1>5. Matched(w, d, us)
  <2>1. Len(us) = Rank(d, Len(d))
    BY <1>1, <1>3 DEF Matched
  <2>2. ASSUME NEW i \in 1..Len(d), Framed(d[i]) PROVE FrameFor(w, d[i], us[Rank(d, i)], i)
    BY <1>1, <1>2, <1>3, <2>2
  <2>3. ASSUME NEW n \in 1..Len(us) PROVE \E i \in 1..Len(d) : Framed(d[i]) /\ Rank(d, i) = n
    <3>1. PICK i \in 1..Len(c) : Framed(c[i]) /\ Rank(c, i) = n
      BY <1>1 DEF Matched
    <3> QED  BY <1>1, <1>2, <1>3, <3>1
  <2> QED  BY <2>1, <2>2, <2>3 DEF Matched
<1>6. \A i \in 1..Len(c) : Framed(c[i]) => Extra(d, us, i) = Extra(c, ts, i)
  <2> SUFFICES ASSUME NEW i \in 1..Len(c), Framed(c[i]) PROVE Extra(d, us, i) = Extra(c, ts, i)
    OBVIOUS
  <2>1. Rank(c, i) \in 1..Len(ts)
    BY <1>1, RankInRange DEF Matched
  <2> QED  BY <1>1, <1>3, <2>1 DEF Extra
<1>7. \A i, k \in 1..Len(c) : Quiet(d, i, k) => Quiet(c, i, k)
  <2> TAKE i, k \in 1..Len(c)
  <2>1. \A j \in (i + 1)..k : j \in 1..Len(c)
    BY <1>1
  <2> QED  BY <1>2, <2>1 DEF Quiet
<1>8. ~Unwinds(d) => ~Unwinds(c)
  BY <1>1 DEF Unwinds
<1>9. Counted(d, us, m)
  <2>1. d = <<>> => m = 0
    BY <1>1 DEF Counted
  <2>2. Len(d) > 0 => Extra(d, us, 1) = 0
    <3>1. Len(c) > 0 => Extra(c, ts, 1) = 0 /\ NestAt(c, 1) /\ 1 \in 1..Len(c)
      BY <1>1 DEF Counted, Nest
    <3>2. Len(c) > 0 => Framed(c[1])
      BY <3>1 DEF NestAt, Framed, GoKinds
    <3> QED  BY <1>6, <3>1, <3>2
  <2>3. ASSUME NEW i \in 1..Len(d), Framed(d[i])
        PROVE  /\ Extra(d, us, i) <= m - Loops(d, Len(d))
               /\ Quiet(d, i, Len(d)) /\ ~Unwinds(d) => Extra(d, us, i) = m - Loops(d, Len(d))
    <3>1. Framed(c[i]) /\ Extra(d, us, i) = Extra(c, ts, i) /\ Loops(d, Len(d)) = Loops(c, Len(c)) /\ Len(c) \in 1..Len(c)
      BY <1>1, <1>2, <1>3, <1>6, <2>3
    <3>2. /\ Extra(c, ts, i) <= m - Loops(c, Len(c))
          /\ Quiet(c, i, Len(c)) /\ ~Unwinds(c) => Extra(c, ts, i) = m - Loops(c, Len(c))
      BY <1>1, <3>1 DEF Counted
    <3> QED  BY <1>7, <1>8, <3>1, <3>2
  <2>4. ASSUME NEW i \in 1..Len(d), NEW k \in 1..Len(d), i < k, Framed(d[i]), Framed(d[k])
        PROVE  /\ Extra(d, us, i) <= Extra(d, us, k)
               /\ Quiet(d, i, k) => Extra(d, us, i) = Extra(d, us, k)
    <3>1. /\ Extra(c, ts, i) <= Extra(c, ts, k)
          /\ Quiet(c, i, k) => Extra(c, ts, i) = Extra(c, ts, k)
      BY <1>1, <1>2, <2>4 DEF Counted
    <3> QED  BY <1>2, <1>6, <1>7, <2>4, <3>1
  <2> QED  BY <2>1, <2>2, <2>3, <2>4 DEF Counted
<1> QED  BY <1>1, <1>4, <1>5, <1>9 DEF Sound, Typed

-----------------------------------------------------------------------------
(* handleThrow                                                             *)

\* The frame at which handleThrow stops belongs to the region that it goes to:
\* for a marker the innermost one with a run loop or a vm.try.
LEMMA HandlerIs ==
    ASSUME NEW w \in BOOLEAN, NEW c, NEW ts, NEW m, Sound(w, c, ts, m),
           NEW n \in 1..Len(ts), \A p \in (n + 1)..Len(ts) : ts[p].catchPos # "marker",
           NEW k, k = IF ts[n].catchPos = "marker" THEN GoLevel(c) ELSE ts[n].at
    PROVE  k \in 1..Len(c) /\ Framed(c[k]) /\ Rank(c, k) = n
<1>1. c \in Seq(Regions) /\ ts \in Seq(TryFrames) /\ Len(c) \in Nat /\ Matched(w, c, ts)
  BY DEF Sound, Typed
<1>2. PICK i \in 1..Len(c) : Framed(c[i]) /\ Rank(c, i) = n
  BY <1>1 DEF Matched
<1>3. FrameFor(w, c[i], ts[n], i)
  BY <1>1, <1>2 DEF Matched
<1>4. CASE ts[n].catchPos # "marker"
  BY <1>2, <1>3, <1>4 DEF FrameFor
<1>5. CASE ts[n].catchPos = "marker"
  <2>1. c[i].kind \in GoKinds
    BY <1>2, <1>3, <1>5 DEF FrameFor, Framed
  <2>2. ASSUME NEW j \in (i + 1)..Len(c), c[j].kind \in GoKinds PROVE FALSE
    <3>1. j \in 1..Len(c) /\ i \in Nat /\ j \in Nat /\ i < j /\ Framed(c[j]) /\ c[j].kind # "try"
      BY <1>1, <2>2 DEF Framed, GoKinds
    <3>2. Rank(c, i) < Rank(c, j)
      BY <3>1, RankOrder
    <3>3. Rank(c, j) \in 1..Len(ts) /\ FrameFor(w, c[j], ts[Rank(c, j)], j)
      BY <1>1, <3>1, RankInRange DEF Matched
    <3>4. Rank(c, j) \in (n + 1)..Len(ts)
      BY <1>2, <3>2, <3>3
    <3> QED  BY <3>1, <3>3, <3>4 DEF FrameFor
  <2> DEFINE Q(x) == /\ c[x].kind \in GoKinds
                     /\ \A j \in (x + 1)..Len(c) : c[j].kind \notin GoKinds
  <2>3. Q(i)
    BY <2>1, <2>2
  <2>4. \A x \in 1..Len(c) : Q(x) => x = i
    <3> SUFFICES ASSUME NEW x \in 1..Len(c), Q(x) PROVE x = i
      OBVIOUS
    <3>1. CASE x < i
      <4>1. i \in (x + 1)..Len(c)
        BY <1>1, <3>1
      <4> QED  BY <2>1, <4>1
    <3>2. CASE x > i
      <4>1. x \in (i + 1)..Len(c)
        BY <1>1, <3>2
      <4> QED  BY <2>3, <4>1
    <3> QED  BY <1>1, <3>1, <3>2
  <2>5. GoLevel(c) = CHOOSE x \in 1..Len(c) : Q(x)
    BY DEF GoLevel
  <2> HIDE DEF Q
  <2>6. GoLevel(c) = i
    BY <2>3, <2>4, <2>5
  <2> QED  BY <1>2, <1>5, <2>6
<1> QED  BY <1>4, <1>5

\* The region of a handleThrow in progress.
LEMMA UnwindIs ==
    ASSUME NEW ex \in Exceptions, NEW dd \in BOOLEAN
    PROVE  /\ Unwind(ex, dd) \in Regions /\ ~Framed(Unwind(ex, dd)) /\ Unwind(ex, dd).kind = "unwind"
           /\ Unwind(ex, dd).pending = ex /\ ex # 0 /\ Unwind(ex, dd).phase = "body"
<1>1. Region("unwind", "body") \in Regions
  BY TryStackAssumption DEF Region, Regions
<1>2. Unwind(ex, dd) \in Regions
  BY <1>1 DEF Unwind, Regions
<1>3. /\ Unwind(ex, dd).kind = "unwind" /\ Unwind(ex, dd).pending = ex /\ Unwind(ex, dd).phase = "body"
  BY DEF Unwind, Region
<1> QED  BY <1>2, <1>3, TryStackAssumption DEF Framed, GoKinds

\* handleThrow leaves the stacks sound, with the exception on its way in a region
\* over the one that handles it, and skips no try statement that would.
LEMMA Throws ==
    ASSUME NEW w \in BOOLEAN, NEW c, NEW ts, NEW m, Sound(w, c, ts, m), callStack \in Int,
           NEW ex \in Exceptions, NEW dd \in BOOLEAN, handleThrow(ex, dd, c, ts)
    PROVE  /\ Sound(w, ctl', tryStack', m) /\ callStack' \in Int
           /\ w => \A i \in Len(ctl')..Len(c) : ~Handler(c[i])
<1>1. /\ c \in Seq(Regions) /\ ts \in Seq(TryFrames) /\ m \in Nat /\ Len(c) \in Nat /\ Len(ts) \in Nat
      /\ Nest(c) /\ Matched(w, c, ts)
  BY DEF Sound, Typed
<1>2. PICK n \in 1..Len(ts) :
          /\ Handles(ts[n], ex) /\ \A p \in (n + 1)..Len(ts) : ~Handles(ts[p], ex)
          /\ tryStack' = Cut(ts, n)
          /\ callStack' = IF ts[n].callStackLen < callStack THEN ts[n].callStackLen ELSE callStack
          /\ ctl' = Append(Cut(c, IF ts[n].catchPos = "marker" THEN GoLevel(c) ELSE ts[n].at), Unwind(ex, dd))
  BY DEF handleThrow
<1> DEFINE k == IF ts[n].catchPos = "marker" THEN GoLevel(c) ELSE ts[n].at
<1>3. k \in 1..Len(c) /\ Framed(c[k]) /\ Rank(c, k) = n
  <2>1. \A p \in (n + 1)..Len(ts) : ts[p].catchPos # "marker"
    BY <1>2 DEF Handles
  <2> QED  BY <2>1, HandlerIs
<1>4. ctl' = Append(Cut(c, k), Unwind(ex, dd))
  BY <1>2
<1> HIDE DEF k
<1>5. /\ ts[n] \in TryFrames /\ ts[n].iterLen \in Nat /\ ts[n].iterLen <= m
      /\ Sound(w, Cut(c, k), Cut(ts, n), ts[n].iterLen)
  BY <1>3, CutToFrame
<1>6. Cut(c, k) \in Seq(Regions) /\ Len(Cut(c, k)) = k /\ Cut(c, k)[k] = c[k]
  BY <1>1, <1>3, CutNest
<1>7. /\ Unwind(ex, dd) \in Regions /\ ~Framed(Unwind(ex, dd)) /\ Unwind(ex, dd).kind = "unwind"
      /\ Unwind(ex, dd).pending = ex /\ ex # 0 /\ Unwind(ex, dd).phase = "body"
  BY UnwindIs
<1>8. /\ Append(Cut(c, k), Unwind(ex, dd)) \in Seq(Regions)
      /\ Len(Append(Cut(c, k), Unwind(ex, dd))) = k + 1
      /\ Append(Cut(c, k), Unwind(ex, dd))[k + 1] = Unwind(ex, dd)
      /\ Append(Cut(c, k), Unwind(ex, dd))[k] = c[k]
  BY <1>3, <1>6, <1>7
<1>9. NestAt(Append(Cut(c, k), Unwind(ex, dd)), k + 1)
  <2>1. k + 1 > 1 /\ (k + 1) - 1 = k /\ k + 1 # 1
    BY <1>3
  <2>2. c[k].kind # "unwind"
    BY <1>3 DEF Framed, GoKinds
  <2> QED  BY <1>3, <1>7, <1>8, <2>1, <2>2 DEF NestAt
<1>10. Sound(w, ctl', tryStack', m)
  <2>1. Len(Cut(c, k)) > 0 /\ Len(Cut(c, k)) + 1 = k + 1
    BY <1>3, <1>6
  <2>2. Sound(w, Append(Cut(c, k), Unwind(ex, dd)), Cut(ts, n), m)
    BY <1>1, <1>5, <1>6, <1>7, <1>9, <2>1, PushOther
  <2> QED  BY <1>2, <1>4, <2>2
<1>11. callStack' \in Int
  BY <1>2, <1>5 DEF TryFrames
<1>12. ASSUME w, NEW i \in Len(ctl')..Len(c), Handler(c[i]) PROVE FALSE
  <2>1. i \in 1..Len(c) /\ k \in Nat /\ i \in Nat /\ k < i /\ c[i].kind = "try" /\ Framed(c[i])
    BY <1>1, <1>3, <1>4, <1>8, <1>12 DEF Handler, Framed
  <2>2. Rank(c, i) \in (n + 1)..Len(ts)
    <3>1. Rank(c, k) < Rank(c, i)
      BY <2>1, RankOrder
    <3>2. Rank(c, i) \in 1..Len(ts)
      BY <1>1, <2>1, RankInRange DEF Matched
    <3> QED  BY <1>3, <3>1, <3>2
  <2>3. KeptFor(c[i], ts[Rank(c, i)])
    BY <1>1, <1>12, <2>1 DEF Matched, FrameFor
  <2>4. NestAt(c, i)
    BY <1>1, <2>1 DEF Nest
  <2>5. c[i] \in Regions
    BY <1>1, <2>1
  <2>6. ts[Rank(c, i)].catchPos = "armed" \/ ts[Rank(c, i)].finallyPos = "armed"
    <3>1. c[i].catch \/ c[i].finally
      BY <2>1, <2>4 DEF NestAt
    <3>2. c[i].phase = "body" \/ (c[i].phase = "catch" /\ c[i].finally)
      BY <1>12 DEF Handler
    <3> QED  BY <2>3, <3>1, <3>2 DEF KeptFor, Pos
  <2> QED  BY <1>2, <1>7, <2>2, <2>6 DEF Handles
<1> QED  BY <1>10, <1>11, <1>12

-----------------------------------------------------------------------------
(* Changes of the regions that keep their frames                           *)

\* Nothing changes that a frame is about: where a loop is in its iteration, what
\* a region is leaving for, whether a tf is stale.
LEMMA ChangePlain ==
    ASSUME NEW w \in BOOLEAN, NEW c, NEW ts, NEW m, Sound(w, c, ts, m),
           NEW d \in Seq(Regions), Len(d) = Len(c),
           \A i \in 1..Len(c) :
               /\ d[i].kind = c[i].kind /\ d[i].catch = c[i].catch /\ d[i].finally = c[i].finally
               /\ d[i].pending = c[i].pending
               /\ d[i].phase = c[i].phase \/ (c[i].kind = "loop" /\ d[i].phase \notin {"next", "close"})
    PROVE  Sound(w, d, ts, m)
<1>1. ts \in Seq(TryFrames) /\ Matched(w, c, ts)
  BY DEF Sound, Typed
<1>2. ASSUME NEW i \in 1..Len(c), Framed(c[i]) PROVE FrameFor(w, d[i], ts[Rank(c, i)], i)
  <2>1. FrameFor(w, c[i], ts[Rank(c, i)], i)
    BY <1>1, <1>2 DEF Matched
  <2>2. d[i].phase = c[i].phase
    BY <1>2 DEF Framed, GoKinds
  <2> QED  BY <2>1, <2>2 DEF FrameFor, KeptFor
<1> QED  BY <1>1, <1>2, Change

\* The try statement at the top goes on to another block, and its frame with it.
LEMMA ChangeTry ==
    ASSUME NEW w \in BOOLEAN, NEW c, NEW ts, NEW m, Sound(w, c, ts, m), Len(c) > 0, c[Len(c)].kind = "try",
           NEW d \in Seq(Regions), Len(d) = Len(c), \A i \in 1..Len(c) - 1 : d[i] = c[i],
           d[Len(c)].kind = "try", d[Len(c)].catch = c[Len(c)].catch, d[Len(c)].finally = c[Len(c)].finally,
           d[Len(c)].phase \notin {"next", "close"},
           NEW us \in Seq(TryFrames), Len(us) = Len(ts), \A n \in 1..Len(ts) - 1 : us[n] = ts[n],
           us[Len(ts)].iterLen = ts[Len(ts)].iterLen,
           FrameFor(w, d[Len(c)], us[Len(ts)], Len(c))
    PROVE  Sound(w, d, us, m)
<1>1. c \in Seq(Regions) /\ ts \in Seq(TryFrames) /\ Len(c) \in Nat /\ Len(ts) \in Nat /\ Matched(w, c, ts)
  BY DEF Sound, Typed
<1>2. Rank(c, Len(c)) = Len(ts)
  BY <1>1 DEF Matched
<1>3. ASSUME NEW i \in 1..Len(c), Framed(c[i]) PROVE FrameFor(w, d[i], us[Rank(c, i)], i)
  <2>1. CASE i = Len(c)
    BY <1>2, <2>1
  <2>2. CASE i < Len(c)
    <3>1. i \in Nat /\ d[i] = c[i] /\ FrameFor(w, c[i], ts[Rank(c, i)], i)
      BY <1>1, <1>3, <2>2 DEF Matched
    <3>2. Framed(c[Len(c)])
      BY DEF Framed
    <3>3. Rank(c, i) < Rank(c, Len(c))
      BY <1>1, <2>2, <3>1, <3>2, RankOrder
    <3>4. Rank(c, i) \in 1..Rank(c, Len(c))
      BY <1>1, <1>3, RankInRange
    <3>5. Rank(c, i) \in 1..Len(ts) - 1
      BY <1>1, <1>2, <3>3, <3>4
    <3>6. us[Rank(c, i)] = ts[Rank(c, i)]
      BY <3>5
    <3> QED  BY <3>1, <3>6
  <2> QED  BY <1>1, <2>1, <2>2
<1>4. \A n \in 1..Len(ts) : us[n].iterLen = ts[n].iterLen
  <2> TAKE n \in 1..Len(ts)
  <2>1. n = Len(ts) \/ n \in 1..Len(ts) - 1
    BY <1>1
  <2> QED  BY <2>1
<1>5. \A i \in 1..Len(c) :
          /\ d[i].kind = c[i].kind /\ d[i].catch = c[i].catch /\ d[i].finally = c[i].finally
          /\ d[i].pending = c[i].pending \/ c[i].kind = "try"
          /\ d[i].phase = c[i].phase \/ (c[i].kind \in {"try", "loop"} /\ d[i].phase \notin {"next", "close"})
  <2> TAKE i \in 1..Len(c)
  <2>1. CASE i = Len(c)
    BY <2>1
  <2>2. CASE i \in 1..Len(c) - 1
    BY <2>2
  <2> QED  BY <1>1, <2>1, <2>2
<1> QED  BY <1>3, <1>4, <1>5, Change

\* The region at the top goes on leaving for t.
LEMMA Leaves ==
    ASSUME NEW w \in BOOLEAN, NEW c, NEW ts, NEW m, Sound(w, c, ts, m), NEW t \in 0..MaxDepth
    PROVE  Sound(w, LeaveFor(c, t), ts, m) /\ Len(LeaveFor(c, t)) = Len(c)
           /\ \A i \in 1..Len(c) : LeaveFor(c, t)[i].kind = c[i].kind
<1>1. c \in Seq(Regions) /\ Len(c) \in Nat
  BY DEF Sound, Typed
<1> DEFINE d == LeaveFor(c, t)
           x == IF t = Len(c) THEN 0 ELSE t
<1>2. x \in 0..MaxDepth
  BY TryStackAssumption
<1>3. d = [c EXCEPT ![Len(c)].exit = x]
  BY DEF LeaveFor
<1> HIDE DEF x, d
<1>4. ASSUME NEW i \in 1..Len(c)
      PROVE  /\ d[i] \in Regions
             /\ d[i].kind = c[i].kind /\ d[i].catch = c[i].catch /\ d[i].finally = c[i].finally
             /\ d[i].pending = c[i].pending /\ d[i].phase = c[i].phase
  <2>1. c[i] \in Regions
    BY <1>1
  <2>2. d[i] = IF i = Len(c) THEN [c[i] EXCEPT !.exit = x] ELSE c[i]
    BY <1>1, <1>3
  <2>3. [c[i] EXCEPT !.exit = x] \in Regions
    BY <1>2, <2>1 DEF Regions
  <2> QED  BY <2>1, <2>2, <2>3 DEF Regions
<1>5. d \in Seq(Regions) /\ Len(d) = Len(c)
  <2> DEFINE e == [c EXCEPT ![Len(c)].exit = x]
  <2>1. e = [i \in 1..Len(c) |-> e[i]]
    BY <1>1, SMTT(30)
  <2>2. d = [i \in 1..Len(c) |-> d[i]]
    BY <1>3, <2>1
  <2> QED  BY <1>1, <1>4, <2>2
<1>6. Sound(w, d, ts, m)
  BY <1>4, <1>5, ChangePlain
<1> QED  BY <1>4, <1>5, <1>6 DEF d

\* The loop at the top goes on to the other part of its iteration.
LEMMA Iterates ==
    ASSUME NEW w \in BOOLEAN, NEW c, NEW ts, NEW m, Sound(w, c, ts, m),
           Len(c) > 0, c[Len(c)].kind = "loop", NEW p \in {"head", "body"}
    PROVE  Sound(w, [c EXCEPT ![Len(c)].phase = p], ts, m)
<1>1. c \in Seq(Regions) /\ Len(c) \in Nat
  BY DEF Sound, Typed
<1> DEFINE d == [c EXCEPT ![Len(c)].phase = p]
<1>2. ASSUME NEW i \in 1..Len(c)
      PROVE  /\ d[i] \in Regions
             /\ d[i].kind = c[i].kind /\ d[i].catch = c[i].catch /\ d[i].finally = c[i].finally
             /\ d[i].pending = c[i].pending
             /\ d[i].phase = c[i].phase \/ (c[i].kind = "loop" /\ d[i].phase \notin {"next", "close"})
  <2>1. c[i] \in Regions
    BY <1>1
  <2>2. d[i] = IF i = Len(c) THEN [c[i] EXCEPT !.phase = p] ELSE c[i]
    BY <1>1
  <2>3. [c[i] EXCEPT !.phase = p] \in Regions
    BY <2>1 DEF Regions
  <2> HIDE DEF d
  <2> QED  BY <2>1, <2>2, <2>3 DEF Regions
<1>3. d \in Seq(Regions) /\ Len(d) = Len(c)
  <2>1. d = [i \in 1..Len(c) |-> d[i]]
    BY <1>1
  <2> HIDE DEF d
  <2> QED  BY <1>1, <1>2, <2>1
<1> HIDE DEF d
<1>4. Sound(w, d, ts, m)
  BY <1>2, <1>3, ChangePlain
<1> QED  BY <1>4 DEF d

-----------------------------------------------------------------------------
(* pushTryFrame                                                            *)

\* The tf of every handleThrow in progress is left behind when the array moves.
Moved(c, full) == [i \in 1..Len(c) |-> [c[i] EXCEPT !.stale = @ \/ (full /\ c[i].kind = "unwind")]]

\* That says nothing about what frames there are.
LEMMA Moves ==
    ASSUME NEW w \in BOOLEAN, NEW c, NEW ts, NEW m, Sound(w, c, ts, m), NEW full \in BOOLEAN
    PROVE  /\ Sound(w, Moved(c, full), ts, m) /\ Len(Moved(c, full)) = Len(c)
           /\ \A i \in 1..Len(c) : Moved(c, full)[i].kind = c[i].kind
<1>1. c \in Seq(Regions) /\ Len(c) \in Nat
  BY DEF Sound, Typed
<1> DEFINE d == Moved(c, full)
<1>2. ASSUME NEW i \in 1..Len(c)
      PROVE  /\ d[i] \in Regions
             /\ d[i].kind = c[i].kind /\ d[i].catch = c[i].catch /\ d[i].finally = c[i].finally
             /\ d[i].pending = c[i].pending /\ d[i].phase = c[i].phase
  <2>1. c[i] \in Regions
    BY <1>1
  <2> DEFINE b == c[i].stale \/ (full /\ c[i].kind = "unwind")
  <2>2. d[i] = [c[i] EXCEPT !.stale = b]
    BY DEF Moved
  <2>3. b \in BOOLEAN
    OBVIOUS
  <2> HIDE DEF b, d
  <2>4. [c[i] EXCEPT !.stale = b] \in Regions
    BY <2>1, <2>3 DEF Regions
  <2> QED  BY <2>1, <2>2, <2>4 DEF Regions
<1>3. d \in Seq(Regions) /\ Len(d) = Len(c)
  <2>1. d = [i \in 1..Len(c) |-> d[i]]
    BY DEF Moved
  <2> HIDE DEF d
  <2> QED  BY <1>1, <1>2, <2>1
<1> HIDE DEF d
<1>4. Sound(w, d, ts, m)
  BY <1>2, <1>3, ChangePlain
<1> QED  BY <1>2, <1>3, <1>4 DEF d

\* A region fits over a nest by what it is and what the top of the nest is.
Fits(c, r) ==
    /\ r.kind \notin {"panic", "unwind"}
    /\ r.kind = "run" <=> Len(c) = 0
    /\ r.kind = "native" <=> r.phase \in {"next", "close"}
    /\ r.phase = "next" => Len(c) > 0 /\ c[Len(c)].kind = "loop"
    /\ Len(c) > 0 => (r.phase = "close" <=> c[Len(c)].kind = "unwind")
    /\ r.kind = "try" => r.catch \/ r.finally

\* Such a region nests as it should.
LEMMA FitsNest ==
    ASSUME NEW c \in Seq(Regions), NEW r \in Regions, Fits(c, r)
    PROVE  NestAt(Append(c, r), Len(c) + 1)
<1> DEFINE d == Append(c, r)
<1>1. Len(c) \in Nat /\ d[Len(c) + 1] = r /\ (Len(c) + 1) - 1 = Len(c) /\ (Len(c) > 0 <=> Len(c) + 1 > 1)
  OBVIOUS
<1>2. Len(c) > 0 => d[Len(c)] = c[Len(c)]
  OBVIOUS
<1>3. Len(c) + 1 = 1 <=> Len(c) = 0
  BY <1>1
<1> HIDE DEF d
<1>4. NestAt(d, Len(c) + 1)
  BY <1>1, <1>2, <1>3 DEF NestAt, Fits
<1> QED  BY <1>4 DEF d

\* pushTryFrame, called from the regions c, leaves the stacks sound.
LEMMA Pushes ==
    ASSUME NEW w \in BOOLEAN, NEW c, NEW m, Sound(w, c, tryStack, m),
           NEW r \in Regions, Framed(r), Fits(c, r),
           NEW cp \in {"marker", "armed", "off"}, NEW fp \in {"armed", "off"}, NEW calls \in Int,
           r.kind = "try" <=> cp # "marker",
           r.kind = "try" => /\ cp = Pos(r.phase = "body" /\ r.catch) /\ r.pending = 0
                             /\ fp = Pos(r.phase # "finally" /\ r.finally),
           pushTryFrame(c, r, cp, fp, calls, m)
    PROVE  Sound(w, ctl', tryStack', m)
<1> DEFINE full == Len(tryStack) = cap
           d    == Moved(c, full)
           tf   == tryFrame(cp, fp, Len(c) + 1, calls, m)
<1>1. c \in Seq(Regions) /\ Len(c) \in Nat /\ m \in Nat
  BY DEF Sound, Typed
<1>2. ctl' = Append(d, r) /\ tryStack' = Append(tryStack, tf)
  BY DEF pushTryFrame, Moved
<1>3. full \in BOOLEAN
  OBVIOUS
<1>4. tf \in TryFrames /\ tf.at = Len(c) + 1 /\ tf.catchPos = cp /\ tf.finallyPos = fp /\ tf.exception = 0 /\ tf.iterLen = m
  BY <1>1, TryStackAssumption DEF tryFrame, TryFrames
<1> HIDE DEF full
<1>5. Sound(w, d, tryStack, m) /\ Len(d) = Len(c) /\ \A i \in 1..Len(c) : d[i].kind = c[i].kind
  BY <1>3, Moves
<1> HIDE DEF d, tf
<1>6. d \in Seq(Regions)
  BY <1>5 DEF Sound, Typed
<1>7. Fits(d, r)
  <2>1. Len(c) > 0 => d[Len(c)].kind = c[Len(c)].kind
    BY <1>1, <1>5
  <2> QED  BY <1>5, <2>1 DEF Fits
<1>8. NestAt(Append(d, r), Len(d) + 1)
  BY <1>6, <1>7, FitsNest
<1>9. FrameFor(w, r, tf, Len(d) + 1)
  BY <1>4, <1>5 DEF FrameFor, KeptFor
<1>10. Sound(w, Append(d, r), Append(tryStack, tf), m)
  BY <1>4, <1>5, <1>8, <1>9, PushFrame
<1> QED  BY <1>2, <1>10

\* The same for a Go level, whose frame is a marker.
LEMMA PushesMarker ==
    ASSUME NEW w \in BOOLEAN, NEW c, NEW m, Sound(w, c, tryStack, m), NEW calls \in Int,
           NEW kind \in GoKinds, NEW phase \in {"body", "next", "close"},
           Fits(c, Region(kind, phase)), pushMarker(c, Region(kind, phase), calls, m)
    PROVE  Sound(w, ctl', tryStack', m)
<1> DEFINE r == Region(kind, phase)
<1>1. r \in Regions /\ r.kind = kind
  BY TryStackAssumption DEF Region, Regions, GoKinds
<1>2. Framed(r) /\ r.kind # "try"
  BY <1>1 DEF Framed, GoKinds
<1> HIDE DEF r
<1>3. pushTryFrame(c, r, "marker", "off", calls, m) /\ Fits(c, r)
  BY DEF pushMarker, r
<1> QED  BY <1>1, <1>2, <1>3, Pushes

-----------------------------------------------------------------------------
(* The inductive invariant, and the actions                                *)

IndInv(w) ==
    /\ Sound(w, ctl, tryStack, Len(iterStack))
    /\ iterStack \in Seq({"iter", "none"}) /\ callStack \in Int

\* No handleThrow in progress points into an array that vm.tryStack has left.
NoneStale == \A i \in 1..Depth : ~ctl[i].stale

\* What the invariant says of the state.
LEMMA Here ==
    ASSUME NEW w \in BOOLEAN, IndInv(w)
    PROVE  /\ ctl \in Seq(Regions) /\ Depth \in Nat /\ Depth = Len(ctl) /\ tryStack \in Seq(TryFrames)
           /\ Len(iterStack) \in Nat /\ iterStack \in Seq({"iter", "none"}) /\ callStack \in Int
           /\ Sound(w, ctl, tryStack, Len(iterStack)) /\ Nest(ctl)
           /\ Depth > 0 => Top = ctl[Len(ctl)] /\ Top \in Regions /\ NestAt(ctl, Depth)
<1>1. /\ ctl \in Seq(Regions) /\ tryStack \in Seq(TryFrames) /\ Nest(ctl) /\ Len(ctl) \in Nat
      /\ Len(iterStack) \in Nat /\ iterStack \in Seq({"iter", "none"}) /\ callStack \in Int
      /\ Sound(w, ctl, tryStack, Len(iterStack))
  BY DEF IndInv, Sound, Typed
<1>2. Len(ctl) > 0 => ctl[Len(ctl)] \in Regions /\ NestAt(ctl, Len(ctl))
  BY <1>1 DEF Nest
<1> QED  BY <1>1, <1>2 DEF Depth, Top

\* What a new region is.
LEMMA RegionIs ==
    ASSUME NEW kind \in {"run", "fn", "gofn", "call", "native", "loop"}, NEW phase \in {"body", "head", "next", "close"}
    PROVE  Region(kind, phase) \in Regions /\ Region(kind, phase).kind = kind /\ Region(kind, phase).phase = phase
BY TryStackAssumption DEF Region, Regions

\* The program is entered.
LEMMA RunProgramSound ==
    ASSUME NEW w \in BOOLEAN, IndInv(w), RunProgram PROVE IndInv(w)'
<1>1. Region("run", "body").kind = "run" /\ Region("run", "body").phase = "body"
  BY RegionIs
<1>2. Fits(ctl, Region("run", "body"))
  BY <1>1 DEF Fits, RunProgram
<1>3. pushMarker(ctl, Region("run", "body"), callStack + 1, Len(iterStack)) /\ callStack + 1 \in Int
  BY Here DEF RunProgram
<1>4. Sound(w, ctl', tryStack', Len(iterStack))
  <2>1. "run" \in GoKinds
    BY DEF GoKinds
  <2> QED  BY <1>2, <1>3, <2>1, Here, PushesMarker
<1> QED  BY <1>4, Here DEF IndInv, RunProgram

\* The run loop calls a function, which has no frame.
LEMMA CallSound ==
    ASSUME NEW w \in BOOLEAN, IndInv(w), NEW kind \in {"fn", "gofn"}, Call(kind) PROVE IndInv(w)'
<1> DEFINE r == Region(kind, "body")
<1>1. r \in Regions /\ r.kind = kind /\ r.phase = "body"
  BY RegionIs
<1>2. Depth > 0 /\ Top.kind # "unwind"
  BY DEF Call, JS, Running, InJS
<1>3. ctl' = Append(ctl, r) /\ UNCHANGED <<tryStack, iterStack>> /\ callStack' = callStack + 1
  BY DEF Call
<1> HIDE DEF r
<1>4. Fits(ctl, r) /\ ~Framed(r)
  BY <1>1, <1>2, Here DEF Fits, Framed, GoKinds
<1>5. NestAt(Append(ctl, r), Len(ctl) + 1)
  BY <1>1, <1>4, Here, FitsNest
<1>6. Sound(w, Append(ctl, r), tryStack, Len(iterStack))
  <2>1. r.kind # "unwind" /\ r.kind # "loop" /\ Len(ctl) > 0 /\ Len(iterStack) = Len(iterStack) + 0
    BY <1>1, <1>2, Here
  <2> QED  BY <1>1, <1>4, <1>5, <2>1, Here, PushOther
<1> QED  BY <1>3, <1>6, Here DEF IndInv

\* Go code calls a function, over a marker.
LEMMA GoCallSound ==
    ASSUME NEW w \in BOOLEAN, IndInv(w), __call PROVE IndInv(w)'
<1>1. Region("call", "body").kind = "call" /\ Region("call", "body").phase = "body"
  BY RegionIs
<1>2. Depth > 0 /\ Top.kind # "unwind"
  BY DEF __call, InGo
<1>3. Fits(ctl, Region("call", "body"))
  BY <1>1, <1>2, Here DEF Fits
<1>4. Sound(w, ctl', tryStack', Len(iterStack))
  <2>1. "call" \in GoKinds
    BY DEF GoKinds
  <2> QED  BY <1>3, <2>1, Here, PushesMarker DEF __call
<1>5. callStack' \in Int
  BY Here DEF __call, CallContexts
<1> QED  BY <1>4, <1>5, Here DEF IndInv, __call

\* A function returns to the run loop.
LEMMA RetSound ==
    ASSUME NEW w \in BOOLEAN, IndInv(w), Ret PROVE IndInv(w)'
<1>1. Depth > 0 /\ Top.kind \in {"fn", "gofn"}
  BY DEF Ret, JS, Running, InJS, InGo
<1>2. Len(ctl) > 0 /\ ~Framed(ctl[Len(ctl)]) /\ ctl[Len(ctl)].kind # "unwind" /\ ctl[Len(ctl)].kind # "loop"
  BY <1>1, Here DEF Framed, GoKinds
<1>3. Len(iterStack) = Len(iterStack) - 0
  BY Here
<1>4. Sound(w, Pop(ctl), tryStack, Len(iterStack))
  BY <1>2, <1>3, Here, PopOther
<1> QED  BY <1>4, Here DEF IndInv, Ret

\* A function returns to Go code, or the program ends.
LEMMA RetToGoSound ==
    ASSUME NEW w \in BOOLEAN, IndInv(w), RetToGo PROVE IndInv(w)'
<1>1. Len(ctl) > 0 /\ Framed(ctl[Len(ctl)])
  BY Here DEF RetToGo, JS, Running, InJS, Framed, GoKinds
<1>2. Sound(w, Pop(ctl), Pop(tryStack), Len(iterStack))
  BY <1>1, Here, PopFrame
<1>3. callStack' \in Int
  BY Here DEF RetToGo, CallContexts
<1> QED  BY <1>2, <1>3, Here DEF IndInv, RetToGo

\* An exception is thrown.
LEMMA ThrowSound ==
    ASSUME NEW w \in BOOLEAN, IndInv(w), NEW ex \in Exceptions, Throw(ex) \/ Panic(ex) PROVE IndInv(w)'
<1>1. PICK dd \in BOOLEAN : handleThrow(ex, dd, ctl, tryStack)
  BY DEF Throw, Panic
<1>2. Sound(w, ctl', tryStack', Len(iterStack)) /\ callStack' \in Int
  BY <1>1, Here, Throws
<1>3. iterStack' = iterStack
  BY DEF Throw, Panic
<1> QED  BY <1>2, <1>3, Here DEF IndInv

\* A try statement is entered, with a frame.
LEMMA TrySound ==
    ASSUME NEW w \in BOOLEAN, IndInv(w), NEW ct \in BOOLEAN, NEW f \in BOOLEAN, Try(ct, f) PROVE IndInv(w)'
<1> DEFINE r == TryRegion(ct, f)
<1>1. /\ r \in Regions /\ r.kind = "try" /\ r.phase = "body" /\ r.catch = ct /\ r.finally = f /\ r.pending = 0
  <2>1. Region("try", "body") \in Regions
    BY TryStackAssumption DEF Region, Regions
  <2>2. TryRegion(ct, f) \in Regions
    BY <2>1 DEF TryRegion, Regions
  <2>3. /\ TryRegion(ct, f).kind = "try" /\ TryRegion(ct, f).phase = "body" /\ TryRegion(ct, f).pending = 0
        /\ TryRegion(ct, f).catch = ct /\ TryRegion(ct, f).finally = f
    BY DEF TryRegion, Region
  <2> QED  BY <2>2, <2>3
<1>2. Depth > 0 /\ Top.kind # "unwind" /\ (ct \/ f)
  BY DEF Try, JS, Running, InJS
<1>3. pushTryFrame(ctl, r, Pos(ct), Pos(f), callStack, Len(iterStack)) /\ UNCHANGED <<iterStack, callStack>>
  BY DEF Try
<1> HIDE DEF r
<1>4. Fits(ctl, r) /\ Framed(r)
  BY <1>1, <1>2, Here DEF Fits, Framed
<1>5. /\ Pos(ct) \in {"armed", "off"} /\ Pos(f) \in {"armed", "off"}
      /\ Pos(ct) = Pos(r.phase = "body" /\ r.catch) /\ Pos(f) = Pos(r.phase # "finally" /\ r.finally)
  BY <1>1 DEF Pos
<1>6. Pos(ct) \in {"marker", "armed", "off"} /\ Pos(ct) # "marker"
  BY <1>5
<1>7. Sound(w, ctl', tryStack', Len(iterStack))
  BY <1>1, <1>3, <1>4, <1>5, <1>6, Here, Pushes
<1> QED  BY <1>3, <1>7, Here DEF IndInv

\* The try statement at the top becomes r, and its frame tf.
LEMMA EntersBlock ==
    ASSUME NEW w \in BOOLEAN, NEW c, NEW ts, NEW m, Sound(w, c, ts, m), Len(c) > 0, c[Len(c)].kind = "try",
           NEW r \in Regions, r.kind = "try", r.catch = c[Len(c)].catch, r.finally = c[Len(c)].finally,
           r.phase \notin {"next", "close"},
           NEW tf \in TryFrames, tf.iterLen = ts[Len(ts)].iterLen, FrameFor(w, r, tf, Len(c))
    PROVE  Sound(w, [c EXCEPT ![Len(c)] = r], [ts EXCEPT ![Len(ts)] = tf], m)
<1> DEFINE d  == [c EXCEPT ![Len(c)] = r]
           us == [ts EXCEPT ![Len(ts)] = tf]
<1>1. c \in Seq(Regions) /\ ts \in Seq(TryFrames) /\ Len(c) \in Nat /\ Len(ts) \in Nat
  BY DEF Sound, Typed
<1>2. Len(ts) > 0
  <2>1. Framed(c[Len(c)])
    BY DEF Framed
  <2> QED  BY <2>1, PopFrame
<1>3. d \in Seq(Regions) /\ Len(d) = Len(c) /\ d[Len(c)] = r /\ \A i \in 1..Len(c) - 1 : d[i] = c[i]
  BY <1>1
<1>4. us \in Seq(TryFrames) /\ Len(us) = Len(ts) /\ us[Len(ts)] = tf /\ \A n \in 1..Len(ts) - 1 : us[n] = ts[n]
  BY <1>1, <1>2
<1> HIDE DEF d, us
<1>5. Sound(w, d, us, m)
  BY <1>3, <1>4, ChangeTry
<1> QED  BY <1>5 DEF d, us

\* A frame without its handlers.
LEMMA DisarmedIs ==
    ASSUME NEW tf \in TryFrames
    PROVE  /\ Disarmed(tf) \in TryFrames /\ Disarmed(tf).catchPos = "off" /\ Disarmed(tf).finallyPos = "off"
           /\ Disarmed(tf).at = tf.at /\ Disarmed(tf).iterLen = tf.iterLen /\ Disarmed(tf).exception = tf.exception
<1>1. Disarmed(tf) \in TryFrames
  BY DEF Disarmed, TryFrames
<1> QED  BY <1>1 DEF Disarmed, TryFrames

\* The action enterFinally preserves the invariant.
LEMMA enterFinallySound ==
    ASSUME NEW w \in BOOLEAN, IndInv(w), enterFinally PROVE IndInv(w)'
<1> DEFINE r  == [Top EXCEPT !.phase = "finally"]
           tf == Disarmed(TopFrame)
<1>1. Len(ctl) > 0 /\ Top.kind = "try" /\ Top = ctl[Len(ctl)] /\ Top \in Regions /\ Depth = Len(ctl)
  BY Here DEF enterFinally, JS, Running, InJS
<1>2. r \in Regions /\ r.kind = "try" /\ r.catch = Top.catch /\ r.finally = Top.finally /\ r.phase = "finally" /\ r.pending = Top.pending
  <2>1. r \in Regions
    BY <1>1 DEF Regions
  <2> QED  BY <1>1, <2>1 DEF Regions
<1>3. TopFrame = tryStack[Len(tryStack)] /\ TopFrame \in TryFrames /\ FrameFor(w, Top, TopFrame, Len(ctl))
  BY <1>1, Here, PopFrame DEF Framed, TopFrame
<1>4. /\ tf \in TryFrames /\ tf.catchPos = "off" /\ tf.finallyPos = "off"
      /\ tf.at = TopFrame.at /\ tf.iterLen = TopFrame.iterLen /\ tf.exception = TopFrame.exception
  BY <1>3, DisarmedIs
<1>5. ctl' = [ctl EXCEPT ![Len(ctl)] = r] /\ tryStack' = [tryStack EXCEPT ![Len(tryStack)] = tf]
      /\ UNCHANGED <<iterStack, callStack>>
  BY <1>1 DEF enterFinally, SetFrame
<1> HIDE DEF r, tf
<1>6. FrameFor(w, r, tf, Len(ctl))
  BY <1>1, <1>2, <1>3, <1>4 DEF FrameFor, KeptFor, Pos
<1>7. Sound(w, ctl', tryStack', Len(iterStack))
  BY <1>1, <1>2, <1>3, <1>4, <1>5, <1>6, Here, EntersBlock
<1> QED  BY <1>5, <1>7, Here DEF IndInv

\* A region that goes on to another block, and does not leave.
LEMMA BlockIs ==
    ASSUME NEW q \in Regions, NEW p \in {"body", "catch", "finally"}
    PROVE  LET r == [q EXCEPT !.phase = p, !.exit = 0]
           IN  /\ r \in Regions /\ r.kind = q.kind /\ r.catch = q.catch /\ r.finally = q.finally
               /\ r.phase = p /\ r.pending = q.pending
<1> DEFINE r == [q EXCEPT !.phase = p, !.exit = 0]
<1>1. 0 \in 0..MaxDepth
  BY TryStackAssumption
<1>2. [q EXCEPT !.phase = p] \in Regions
  BY DEF Regions
<1>3. r \in Regions
  BY <1>1, <1>2 DEF Regions
<1>4. /\ r.kind = q.kind /\ r.catch = q.catch /\ r.finally = q.finally
      /\ r.phase = p /\ r.pending = q.pending
  BY DEF Regions
<1> QED  BY <1>3, <1>4

\* The action leaveTry preserves the invariant.
LEMMA leaveTrySound ==
    ASSUME NEW w \in BOOLEAN, IndInv(w), leaveTry PROVE IndInv(w)'
<1>1. Len(ctl) > 0 /\ Top.kind = "try" /\ Top = ctl[Len(ctl)] /\ Top \in Regions /\ Depth = Len(ctl)
  BY Here DEF leaveTry, Running, InJS
<1>2. /\ TopFrame = tryStack[Len(tryStack)] /\ TopFrame \in TryFrames /\ FrameFor(w, Top, TopFrame, Len(ctl))
      /\ Sound(w, Pop(ctl), Pop(tryStack), Len(iterStack))
  BY <1>1, Here, PopFrame DEF Framed, TopFrame
<1>3. Top.exit \in 0..MaxDepth
  BY <1>1 DEF Regions
<1>4. UNCHANGED <<iterStack, callStack>>
  BY DEF leaveTry
<1>5. CASE TopFrame.finallyPos = "armed"
  <2> DEFINE r  == [Top EXCEPT !.phase = "finally", !.exit = 0]
             tf == [Disarmed(TopFrame) EXCEPT !.finallyRet = Top.exit]
  <2>1. /\ r \in Regions /\ r.kind = "try" /\ r.catch = Top.catch /\ r.finally = Top.finally
        /\ r.phase = "finally" /\ r.pending = Top.pending
    BY <1>1, BlockIs
  <2>2. /\ tf \in TryFrames /\ tf.catchPos = "off" /\ tf.finallyPos = "off"
        /\ tf.at = TopFrame.at /\ tf.iterLen = TopFrame.iterLen /\ tf.exception = TopFrame.exception
    <3>1. /\ Disarmed(TopFrame) \in TryFrames
          /\ Disarmed(TopFrame).catchPos = "off" /\ Disarmed(TopFrame).finallyPos = "off"
          /\ Disarmed(TopFrame).at = TopFrame.at /\ Disarmed(TopFrame).iterLen = TopFrame.iterLen
          /\ Disarmed(TopFrame).exception = TopFrame.exception
      BY <1>2, DisarmedIs
    <3>2. tf \in TryFrames
      BY <1>3, <3>1 DEF TryFrames
    <3> QED  BY <3>1, <3>2 DEF TryFrames
  <2>3. ctl' = [ctl EXCEPT ![Len(ctl)] = r] /\ tryStack' = [tryStack EXCEPT ![Len(tryStack)] = tf]
    <3>1. /\ tryStack' = SetFrame([Disarmed(TopFrame) EXCEPT !.finallyRet = Top.exit])
          /\ ctl' = [ctl EXCEPT ![Depth].phase = "finally", ![Depth].exit = 0]
      BY <1>5 DEF leaveTry
    <3>2. [ctl EXCEPT ![Depth].phase = "finally", ![Depth].exit = 0] = [ctl EXCEPT ![Len(ctl)] = r]
      BY <1>1, Here
    <3> QED  BY <3>1, <3>2 DEF SetFrame
  <2> HIDE DEF r, tf
  <2>4. FrameFor(w, r, tf, Len(ctl))
    BY <1>1, <1>2, <2>1, <2>2 DEF FrameFor, KeptFor, Pos
  <2>5. Sound(w, ctl', tryStack', Len(iterStack))
    BY <1>1, <1>2, <2>1, <2>2, <2>3, <2>4, Here, EntersBlock
  <2> QED  BY <1>4, <2>5, Here DEF IndInv
<1>6. CASE TopFrame.finallyPos # "armed"
  <2>1. tryStack' = Pop(tryStack) /\ ctl' = LeaveFor(Pop(ctl), Top.exit)
    BY <1>6 DEF leaveTry
  <2>2. Sound(w, ctl', tryStack', Len(iterStack))
    BY <1>2, <1>3, <2>1, Leaves
  <2> QED  BY <1>4, <2>2, Here DEF IndInv
<1> QED  BY <1>5, <1>6

\* The action leaveFinally preserves the invariant.
LEMMA leaveFinallySound ==
    ASSUME NEW w \in BOOLEAN, IndInv(w), leaveFinally PROVE IndInv(w)'
<1>1. Len(ctl) > 0 /\ Top.kind = "try" /\ Top = ctl[Len(ctl)]
  BY Here DEF leaveFinally, JS, Running, InJS
<1>2. /\ TopFrame \in TryFrames /\ Sound(w, Pop(ctl), Pop(tryStack), Len(iterStack))
  BY <1>1, Here, PopFrame DEF Framed, TopFrame
<1>3. TopFrame.finallyRet \in 0..MaxDepth /\ TopFrame.exception \in Exceptions \union {0}
  BY <1>2 DEF TryFrames
<1>4. iterStack' = iterStack
  BY DEF leaveFinally
<1>5. CASE TopFrame.exception # 0 /\ handleThrow(TopFrame.exception, FALSE, Pop(ctl), Pop(tryStack))
  <2>1. Sound(w, ctl', tryStack', Len(iterStack)) /\ callStack' \in Int
    BY <1>2, <1>3, <1>5, Here, Throws
  <2> QED  BY <1>4, <2>1, Here DEF IndInv
<1>6. CASE tryStack' = Pop(tryStack) /\ ctl' = LeaveFor(Pop(ctl), TopFrame.finallyRet) /\ UNCHANGED callStack
  <2>1. Sound(w, ctl', tryStack', Len(iterStack))
    BY <1>2, <1>3, <1>6, Leaves
  <2> QED  BY <1>4, <1>6, <2>1, Here DEF IndInv
<1> QED  BY <1>5, <1>6 DEF leaveFinally

\* The action Exit preserves the invariant.
LEMMA ExitSound ==
    ASSUME NEW w \in BOOLEAN, IndInv(w), NEW t \in 1..MaxDepth, Exit(t) PROVE IndInv(w)'
<1>1. t < Len(ctl) /\ Depth = Len(ctl) /\ t \in 0..MaxDepth
  BY Here, TryStackAssumption DEF Exit
<1>2. ctl' = LeaveFor(ctl, t) /\ UNCHANGED <<tryStack, iterStack, callStack>>
  <2>1. t = IF t = Len(ctl) THEN 0 ELSE t
    BY <1>1
  <2>2. ctl' = [ctl EXCEPT ![Len(ctl)].exit = t] /\ UNCHANGED <<tryStack, iterStack, callStack>>
    BY <1>1 DEF Exit
  <2> QED  BY <2>1, <2>2 DEF LeaveFor
<1>3. Sound(w, LeaveFor(ctl, t), tryStack, Len(iterStack))
  BY <1>1, Here, Leaves
<1> QED  BY <1>2, <1>3, Here DEF IndInv

\* The action iterate preserves the invariant.
LEMMA iterateSound ==
    ASSUME NEW w \in BOOLEAN, IndInv(w), NEW item \in {"iter", "none"}, iterate(item) PROVE IndInv(w)'
<1> DEFINE r == Region("loop", "head")
<1>1. r \in Regions /\ r.kind = "loop" /\ r.phase = "head"
  BY RegionIs
<1>2. Depth > 0 /\ Top.kind # "unwind"
  BY DEF iterate, JS, Running, InJS
<1>3. ctl' = Append(ctl, r) /\ iterStack' = Append(iterStack, item) /\ UNCHANGED <<tryStack, callStack>>
  BY DEF iterate
<1> HIDE DEF r
<1>4. Fits(ctl, r) /\ ~Framed(r)
  BY <1>1, <1>2, Here DEF Fits, Framed, GoKinds
<1>5. NestAt(Append(ctl, r), Len(ctl) + 1)
  BY <1>1, <1>4, Here, FitsNest
<1>6. iterStack' \in Seq({"iter", "none"}) /\ Len(iterStack') = Len(iterStack) + 1 /\ Len(iterStack) + 1 \in Nat
  BY <1>3, Here
<1>7. Sound(w, Append(ctl, r), tryStack, Len(iterStack) + 1)
  <2>1. Len(ctl) > 0
    BY <1>2, Here
  <2> QED  BY <1>1, <1>4, <1>5, <1>6, <2>1, Here, PushOther
<1> QED  BY <1>3, <1>6, <1>7, Here DEF IndInv

\* The action iterNext preserves the invariant.
LEMMA iterNextSound ==
    ASSUME NEW w \in BOOLEAN, IndInv(w), iterNext PROVE IndInv(w)'
<1>1. Region("native", "next").kind = "native" /\ Region("native", "next").phase = "next"
  BY RegionIs
<1>2. Fits(ctl, Region("native", "next"))
  BY <1>1, Here DEF Fits, iterNext, AtHead
<1>3. Sound(w, ctl', tryStack', Len(iterStack))
  <2>1. "native" \in GoKinds
    BY DEF GoKinds
  <2> QED  BY <1>2, <2>1, Here, PushesMarker DEF iterNext
<1> QED  BY <1>3, Here DEF IndInv, iterNext

\* A loop at the top is left, and its item popped.
LEMMA LeavesLoop ==
    ASSUME NEW w \in BOOLEAN, NEW c, NEW ts, NEW s \in Seq({"iter", "none"}), Sound(w, c, ts, Len(s)),
           Len(c) > 0, c[Len(c)].kind = "loop"
    PROVE  /\ Len(c) > 1 /\ Len(s) > 0 /\ Pop(s) \in Seq({"iter", "none"}) /\ Len(Pop(s)) = Len(s) - 1
           /\ Sound(w, Pop(c), ts, Len(Pop(s)))
<1>1. Len(s) \in Nat /\ ~Framed(c[Len(c)])
  BY DEF Framed, GoKinds
<1>2. Len(c) > 1 /\ Len(s) - 1 \in Nat /\ Sound(w, Pop(c), ts, Len(s) - 1)
  BY <1>1, PopOther
<1>3. Len(s) > 0
  BY <1>1, <1>2
<1>4. Pop(s) \in Seq({"iter", "none"}) /\ Len(Pop(s)) = Len(s) - 1
  BY <1>3, PopFacts
<1> QED  BY <1>2, <1>3, <1>4

\* The action enumNext preserves the invariant.
LEMMA enumNextSound ==
    ASSUME NEW w \in BOOLEAN, IndInv(w), enumNext PROVE IndInv(w)'
<1>1. Len(ctl) > 0 /\ ctl[Len(ctl)].kind = "loop" /\ Depth = Len(ctl)
  BY Here DEF enumNext, AtHead
<1>2. CASE ctl' = [ctl EXCEPT ![Depth].phase = "body"] /\ UNCHANGED iterStack
  <2>1. Sound(w, [ctl EXCEPT ![Len(ctl)].phase = "body"], tryStack, Len(iterStack))
    BY <1>1, Here, Iterates
  <2> QED  BY <1>1, <1>2, <2>1, Here DEF IndInv, enumNext
<1>3. CASE ctl' = Pop(ctl) /\ iterStack' = Pop(iterStack)
  <2>1. Pop(iterStack) \in Seq({"iter", "none"}) /\ Sound(w, Pop(ctl), tryStack, Len(Pop(iterStack)))
    BY <1>1, Here, LeavesLoop
  <2> QED  BY <1>3, <2>1, Here DEF IndInv, enumNext
<1> QED  BY <1>2, <1>3 DEF enumNext

\* The action stepReturns preserves the invariant.
LEMMA stepReturnsSound ==
    ASSUME NEW w \in BOOLEAN, IndInv(w), stepReturns PROVE IndInv(w)'
<1>1. Len(ctl) > 0 /\ Framed(ctl[Len(ctl)]) /\ ctl[Len(ctl)].phase = "next" /\ Depth = Len(ctl) /\ NestAt(ctl, Len(ctl))
  BY Here DEF stepReturns, InGo, Framed, GoKinds
<1>2. Sound(w, Pop(ctl), Pop(tryStack), Len(iterStack))
  BY <1>1, Here, PopFrame
<1>3. Len(ctl) > 1 /\ ctl[Len(ctl) - 1].kind = "loop"
  BY <1>1 DEF NestAt
<1>4. Len(Pop(ctl)) = Len(ctl) - 1 /\ Len(Pop(ctl)) > 0 /\ Pop(ctl)[Len(Pop(ctl))].kind = "loop"
  <2>1. Len(Pop(ctl)) = Len(ctl) - 1 /\ \A i \in 1..Len(ctl) - 1 : Pop(ctl)[i] = ctl[i]
    BY <1>1, Here, PopFacts
  <2>2. Len(ctl) - 1 \in 1..Len(ctl) - 1
    BY <1>3, Here
  <2> QED  BY <1>3, <2>1, <2>2
<1>5. CASE ctl' = [Pop(ctl) EXCEPT ![Depth - 1].phase = "body"] /\ UNCHANGED iterStack
  <2>1. Sound(w, [Pop(ctl) EXCEPT ![Len(Pop(ctl))].phase = "body"], Pop(tryStack), Len(iterStack))
    BY <1>2, <1>4, Iterates
  <2> QED  BY <1>1, <1>4, <1>5, <2>1, Here DEF IndInv, stepReturns
<1>6. CASE ctl' = Pop(Pop(ctl)) /\ iterStack' = Pop(iterStack)
  <2>1. Pop(iterStack) \in Seq({"iter", "none"}) /\ Sound(w, Pop(Pop(ctl)), Pop(tryStack), Len(Pop(iterStack)))
    BY <1>2, <1>4, Here, LeavesLoop
  <2> QED  BY <1>6, <2>1, Here DEF IndInv, stepReturns
<1> QED  BY <1>5, <1>6 DEF stepReturns

\* The action NextIteration preserves the invariant.
LEMMA NextIterationSound ==
    ASSUME NEW w \in BOOLEAN, IndInv(w), NextIteration PROVE IndInv(w)'
<1>1. Len(ctl) > 0 /\ ctl[Len(ctl)].kind = "loop" /\ Depth = Len(ctl)
  BY Here DEF NextIteration, JS, Running, InJS
<1>2. Sound(w, [ctl EXCEPT ![Len(ctl)].phase = "head"], tryStack, Len(iterStack))
  BY <1>1, Here, Iterates
<1> QED  BY <1>1, <1>2, Here DEF IndInv, NextIteration

\* The action enumPopClose preserves the invariant.
LEMMA enumPopCloseSound ==
    ASSUME NEW w \in BOOLEAN, IndInv(w), enumPopClose PROVE IndInv(w)'
<1> DEFINE left == LeaveFor(Pop(ctl), Top.exit)
<1>1. /\ Len(ctl) > 0 /\ ctl[Len(ctl)].kind = "loop" /\ Top = ctl[Len(ctl)] /\ Top.exit \in 0..MaxDepth
      /\ Top.phase # "close" /\ NestAt(ctl, Len(ctl))
  <2>1. Depth > 0 /\ Top.kind = "loop"
    BY DEF enumPopClose, Running, InJS
  <2>2. Len(ctl) > 0 /\ Top = ctl[Len(ctl)] /\ Top \in Regions /\ NestAt(ctl, Len(ctl))
    BY <2>1, Here
  <2> QED  BY <2>1, <2>2 DEF Regions, NestAt
<1>2. /\ Len(ctl) > 1 /\ Pop(iterStack) \in Seq({"iter", "none"}) /\ Len(Pop(iterStack)) = Len(iterStack) - 1
      /\ Sound(w, Pop(ctl), tryStack, Len(Pop(iterStack)))
  BY <1>1, Here, LeavesLoop
<1>3. /\ Sound(w, left, tryStack, Len(Pop(iterStack))) /\ Len(left) = Len(Pop(ctl))
      /\ \A i \in 1..Len(Pop(ctl)) : left[i].kind = Pop(ctl)[i].kind
  BY <1>1, <1>2, Leaves
<1>4. Len(left) > 0 /\ left[Len(left)].kind # "unwind"
  <2>1. Len(Pop(ctl)) = Len(ctl) - 1 /\ \A i \in 1..Len(ctl) - 1 : Pop(ctl)[i] = ctl[i]
    BY <1>1, Here, PopFacts
  <2>2. Len(ctl) - 1 \in 1..Len(ctl) - 1
    BY <1>2, Here
  <2>3. ctl[Len(ctl) - 1].kind # "unwind"
    BY <1>1, <1>2 DEF NestAt
  <2> QED  BY <1>3, <2>1, <2>2, <2>3
<1>5. iterStack' = Pop(iterStack)
  BY DEF enumPopClose
<1>6. CASE ctl' = left /\ UNCHANGED <<tryStack, callStack>>
  BY <1>2, <1>3, <1>5, <1>6, Here DEF IndInv
<1>7. CASE /\ pushMarker(left, Region("call", "body"), callStack, Len(iterStack) - 1)
           /\ callStack' = callStack + 2
  <2> HIDE DEF left
  <2>1. Region("call", "body").kind = "call" /\ Region("call", "body").phase = "body" /\ "call" \in GoKinds
    BY RegionIs DEF GoKinds
  <2>2. Fits(left, Region("call", "body"))
    BY <1>4, <2>1 DEF Fits
  <2>3. pushMarker(left, Region("call", "body"), callStack, Len(Pop(iterStack)))
    BY <1>2, <1>7
  <2>4. Sound(w, ctl', tryStack', Len(Pop(iterStack)))
    BY <1>3, <2>1, <2>2, <2>3, Here, PushesMarker
  <2> QED  BY <1>2, <1>5, <1>7, <2>4, Here, SMTT(30) DEF IndInv
<1> QED  BY <1>6, <1>7 DEF enumPopClose

\* What is closed stays on the stack.
LEMMA ClosedIs ==
    ASSUME NEW s \in Seq({"iter", "none"})
    PROVE  Closed(s) \in Seq({"iter", "none"}) /\ Len(Closed(s)) = Len(s)
<1> DEFINE last == CHOOSE i \in 1..Len(s) : s[i] = "iter" /\ \A j \in (i + 1)..Len(s) : s[j] # "iter"
<1>1. Closed(s) = [s EXCEPT ![last] = "none"]
  BY DEF Closed
<1> HIDE DEF last
<1>2. [s EXCEPT ![last] = "none"] \in Seq({"iter", "none"}) /\ Len([s EXCEPT ![last] = "none"]) = Len(s)
  <2> DEFINE e == [s EXCEPT ![last] = "none"]
  <2>1. e = [i \in 1..Len(s) |-> e[i]]
    OBVIOUS
  <2>2. \A i \in 1..Len(s) : e[i] \in {s[i], "none"}
    OBVIOUS
  <2>3. \A i \in 1..Len(s) : e[i] \in {"iter", "none"}
    <3>1. \A i \in 1..Len(s) : s[i] \in {"iter", "none"}
      OBVIOUS
    <3> HIDE DEF e
    <3> QED  BY <2>2, <3>1
  <2> HIDE DEF e
  <2>4. e \in Seq({"iter", "none"}) /\ Len(e) = Len(s)
    BY <2>1, <2>3
  <2> QED  BY <2>4 DEF e
<1> QED  BY <1>1, <1>2

\* While restoreStacks runs, the last frame is the one that handleThrow found.
LEMMA RestoredIs ==
    ASSUME NEW w \in BOOLEAN, IndInv(w), Unwinding
    PROVE  /\ Depth > 1 /\ Framed(ctl[Depth - 1]) /\ NestAt(ctl, Depth - 1)
           /\ Top.pending \in Exceptions
           /\ Len(tryStack) > 0 /\ TopFrame = tryStack[Len(tryStack)] /\ TopFrame \in TryFrames
           /\ FrameFor(w, ctl[Depth - 1], TopFrame, Depth - 1)
           /\ TopFrame.iterLen \in 0..Len(iterStack)
           /\ Truncated \in Seq({"iter", "none"}) /\ Len(Truncated) = TopFrame.iterLen
           /\ Sound(w, Pop(ctl), tryStack, TopFrame.iterLen)
           /\ Len(Pop(ctl)) = Depth - 1 /\ \A i \in 1..Depth - 1 : Pop(ctl)[i] = ctl[i]
<1>1. Depth > 0 /\ Top.kind = "unwind" /\ Top = ctl[Depth] /\ Top \in Regions /\ NestAt(ctl, Depth) /\ Nest(ctl)
  BY Here DEF Unwinding
<1>2. Depth > 1 /\ Framed(ctl[Depth - 1]) /\ Top.pending # 0
  BY <1>1 DEF NestAt
<1>3. Top.pending \in Exceptions
  BY <1>1, <1>2 DEF Regions
<1>4. Depth - 1 \in Nat /\ Depth - 1 \in 1..Len(ctl) /\ (Depth - 1) + 1 = Depth /\ NestAt(ctl, Depth - 1)
  <2>1. Depth - 1 \in Nat /\ Depth - 1 \in 1..Len(ctl) /\ (Depth - 1) + 1 = Depth
    BY <1>2, Here
  <2> QED  BY <1>1, <2>1 DEF Nest
<1>5. Rank(ctl, Depth - 1) = Len(tryStack)
  <2>1. ~Framed(ctl[Depth])
    BY <1>1 DEF Framed, GoKinds
  <2>2. Rank(ctl, (Depth - 1) + 1) = Rank(ctl, Depth - 1) + (IF Framed(ctl[(Depth - 1) + 1]) THEN 1 ELSE 0)
        /\ Rank(ctl, Depth - 1) \in Nat
    BY <1>4, RankFacts
  <2>3. Rank(ctl, Depth) = Len(tryStack)
    BY Here DEF Sound, Matched
  <2> QED  BY <1>4, <2>1, <2>2, <2>3
<1>6. /\ Len(tryStack) \in 1..Len(tryStack) /\ FrameFor(w, ctl[Depth - 1], tryStack[Len(tryStack)], Depth - 1)
      /\ tryStack[Len(tryStack)] \in TryFrames /\ tryStack[Len(tryStack)].iterLen \in Nat
      /\ tryStack[Len(tryStack)].iterLen <= Len(iterStack)
      /\ Sound(w, Cut(ctl, Depth - 1), Cut(tryStack, Len(tryStack)), tryStack[Len(tryStack)].iterLen)
  BY <1>2, <1>4, <1>5, Here, CutToFrame
<1>7. Cut(tryStack, Len(tryStack)) = tryStack
  BY Here, SubSeqFull DEF Cut
<1>8. Pop(ctl) = Cut(ctl, Depth - 1) /\ Len(Pop(ctl)) = Depth - 1 /\ \A i \in 1..Depth - 1 : Pop(ctl)[i] = ctl[i]
  BY <1>1, Here, PopFacts
<1>9. TopFrame = tryStack[Len(tryStack)] /\ TopFrame.iterLen \in 0..Len(iterStack)
  BY <1>6, Here DEF TopFrame
<1>10. Truncated \in Seq({"iter", "none"}) /\ Len(Truncated) = TopFrame.iterLen
  BY <1>9, Here, CutFacts DEF Truncated
<1> QED  BY <1>2, <1>3, <1>4, <1>6, <1>7, <1>8, <1>9, <1>10

\* The action CloseIterator preserves the invariant.
LEMMA CloseIteratorSound ==
    ASSUME NEW w \in BOOLEAN, IndInv(w), CloseIterator PROVE IndInv(w)'
<1>1. Region("native", "close").kind = "native" /\ Region("native", "close").phase = "close" /\ "native" \in GoKinds
  BY RegionIs DEF GoKinds
<1>2. Fits(ctl, Region("native", "close"))
  BY <1>1, Here DEF Fits, CloseIterator, Unwinding
<1>3. Sound(w, ctl', tryStack', Len(iterStack))
  BY <1>1, <1>2, Here, PushesMarker DEF CloseIterator
<1> QED  BY <1>3, Here DEF IndInv, CloseIterator

\* The action closeReturns preserves the invariant.
LEMMA closeReturnsSound ==
    ASSUME NEW w \in BOOLEAN, IndInv(w), closeReturns PROVE IndInv(w)'
<1>1. Len(ctl) > 0 /\ Framed(ctl[Len(ctl)])
  BY Here DEF closeReturns, InGo, Framed, GoKinds
<1>2. Sound(w, Pop(ctl), Pop(tryStack), Len(iterStack))
  BY <1>1, Here, PopFrame
<1>3. Closed(iterStack) \in Seq({"iter", "none"}) /\ Len(Closed(iterStack)) = Len(iterStack)
  BY Here, ClosedIs
<1> QED  BY <1>2, <1>3, Here DEF IndInv, closeReturns

\* The action catches preserves the invariant.
LEMMA catchesSound ==
    ASSUME NEW w \in BOOLEAN, IndInv(w), w => NoneStale, catches PROVE IndInv(w)'
<1> DEFINE q  == ctl[Depth - 1]
           r  == [q EXCEPT !.phase = "catch", !.exit = 0]
           tf == IF Top.stale THEN TopFrame ELSE [TopFrame EXCEPT !.catchPos = "off"]
<1>1. Unwinding /\ TopFrame.catchPos = "armed" /\ iterStack' = Truncated /\ UNCHANGED callStack
  BY DEF catches, Restored
<1>2. /\ Depth > 1 /\ Framed(q) /\ Len(tryStack) > 0 /\ TopFrame = tryStack[Len(tryStack)] /\ TopFrame \in TryFrames
      /\ FrameFor(w, q, TopFrame, Depth - 1)
      /\ Truncated \in Seq({"iter", "none"}) /\ Len(Truncated) = TopFrame.iterLen
      /\ Sound(w, Pop(ctl), tryStack, TopFrame.iterLen)
      /\ Len(Pop(ctl)) = Depth - 1 /\ \A i \in 1..Depth - 1 : Pop(ctl)[i] = ctl[i]
  BY <1>1, RestoredIs
<1>3. Depth - 1 \in 1..Depth - 1 /\ Depth - 1 \in 1..Len(ctl) /\ q \in Regions /\ Pop(ctl)[Depth - 1] = q
  <2>1. Depth - 1 \in 1..Depth - 1 /\ Depth - 1 \in 1..Len(ctl)
    BY <1>2, Here
  <2> QED  BY <1>2, <2>1, Here
<1>4. q.kind = "try"
  BY <1>1, <1>2 DEF FrameFor
<1>5. /\ r \in Regions /\ r.kind = q.kind /\ r.catch = q.catch /\ r.finally = q.finally
      /\ r.phase = "catch" /\ r.pending = q.pending
  BY <1>3, BlockIs
<1>6. /\ tf \in TryFrames /\ tf.at = TopFrame.at /\ tf.finallyPos = TopFrame.finallyPos
      /\ tf.exception = TopFrame.exception /\ tf.iterLen = TopFrame.iterLen /\ tf.catchPos # "marker"
      /\ w => tf.catchPos = "off"
  <2> DEFINE off == [TopFrame EXCEPT !.catchPos = "off"]
  <2>1. off \in TryFrames
    BY <1>2 DEF TryFrames
  <2>2. /\ off.at = TopFrame.at /\ off.finallyPos = TopFrame.finallyPos /\ off.catchPos = "off"
        /\ off.exception = TopFrame.exception /\ off.iterLen = TopFrame.iterLen
    BY <1>2 DEF TryFrames
  <2>3. w => ~Top.stale
    <3>1. Depth \in 1..Depth
      BY <1>2, Here
    <3> QED  BY <3>1 DEF NoneStale, Top
  <2> HIDE DEF off
  <2>4. tf = IF Top.stale THEN TopFrame ELSE off
    BY DEF off
  <2> HIDE DEF tf
  <2> QED  BY <1>1, <1>2, <2>1, <2>2, <2>3, <2>4
<1>7. tryStack' = [tryStack EXCEPT ![Len(tryStack)] = tf]
  <2>1. CASE Top.stale
    <3>1. tf = tryStack[Len(tryStack)] /\ tryStack' = tryStack
      BY <1>2, <2>1 DEF catches
    <3> QED  BY <3>1, Here
  <2>2. CASE ~Top.stale
    BY <2>2 DEF catches, SetFrame
  <2> QED  BY <2>1, <2>2
<1>8. ctl' = [Pop(ctl) EXCEPT ![Len(Pop(ctl))] = r]
  <2>1. ctl' = [Pop(ctl) EXCEPT ![Depth - 1].phase = "catch", ![Depth - 1].exit = 0]
    BY DEF catches
  <2>2. [Pop(ctl) EXCEPT ![Depth - 1].phase = "catch", ![Depth - 1].exit = 0] = [Pop(ctl) EXCEPT ![Depth - 1] = r]
    <3>1. Pop(ctl) \in Seq(Regions)
      BY <1>2 DEF Sound, Typed
    <3> QED  BY <1>2, <1>3, <3>1
  <2> QED  BY <1>2, <2>1, <2>2
<1> HIDE DEF q, r, tf
<1>9. FrameFor(w, r, tf, Depth - 1)
  <2>1. /\ tf.at = Depth - 1 /\ r.kind = "try" /\ tf.catchPos # "marker"
    BY <1>2, <1>4, <1>5, <1>6 DEF FrameFor
  <2>2. w => KeptFor(r, tf)
    <3> SUFFICES ASSUME w PROVE KeptFor(r, tf)
      OBVIOUS
    <3>1. KeptFor(q, TopFrame)
      BY <1>2, <1>4 DEF FrameFor
    <3>2. q.phase = "body"
      BY <1>1, <3>1 DEF KeptFor, Pos
    <3> QED  BY <1>5, <1>6, <3>1, <3>2 DEF KeptFor, Pos
  <2> QED  BY <2>1, <2>2 DEF FrameFor
<1>10. Sound(w, ctl', tryStack', TopFrame.iterLen)
  <2>1. /\ Len(Pop(ctl)) > 0 /\ Pop(ctl)[Len(Pop(ctl))] = q /\ FrameFor(w, r, tf, Len(Pop(ctl)))
        /\ tf.iterLen = tryStack[Len(tryStack)].iterLen
    BY <1>2, <1>3, <1>6, <1>9
  <2>2. Sound(w, [Pop(ctl) EXCEPT ![Len(Pop(ctl))] = r], [tryStack EXCEPT ![Len(tryStack)] = tf], TopFrame.iterLen)
    BY <1>2, <1>4, <1>5, <1>6, <2>1, EntersBlock
  <2> QED  BY <1>7, <1>8, <2>2
<1> QED  BY <1>1, <1>2, <1>10, Here DEF IndInv

\* The action entersFinally preserves the invariant.
LEMMA entersFinallySound ==
    ASSUME NEW w \in BOOLEAN, IndInv(w), w => NoneStale, entersFinally PROVE IndInv(w)'
<1> DEFINE q   == ctl[Depth - 1]
           b   == [q EXCEPT !.phase = "finally", !.exit = 0]
           r   == [b EXCEPT !.pending = Top.pending]
           new == [TopFrame EXCEPT !.exception = Top.pending, !.finallyPos = "off", !.finallyRet = 0]
           tf  == IF Top.stale THEN TopFrame ELSE new
<1>1. Unwinding /\ TopFrame.catchPos = "off" /\ iterStack' = Truncated /\ UNCHANGED callStack
  BY DEF entersFinally, Restored
<1>2. /\ Depth > 1 /\ Framed(q) /\ Len(tryStack) > 0 /\ TopFrame = tryStack[Len(tryStack)] /\ TopFrame \in TryFrames
      /\ FrameFor(w, q, TopFrame, Depth - 1) /\ Top.pending \in Exceptions
      /\ Truncated \in Seq({"iter", "none"}) /\ Len(Truncated) = TopFrame.iterLen
      /\ Sound(w, Pop(ctl), tryStack, TopFrame.iterLen)
      /\ Len(Pop(ctl)) = Depth - 1 /\ \A i \in 1..Depth - 1 : Pop(ctl)[i] = ctl[i]
  BY <1>1, RestoredIs
<1>3. Depth - 1 \in 1..Depth - 1 /\ Depth - 1 \in 1..Len(ctl) /\ q \in Regions /\ Pop(ctl)[Depth - 1] = q
  <2>1. Depth - 1 \in 1..Depth - 1 /\ Depth - 1 \in 1..Len(ctl)
    BY <1>2, Here
  <2> QED  BY <1>2, <2>1, Here
<1>4. q.kind = "try"
  BY <1>1, <1>2 DEF FrameFor
<1>5. /\ r \in Regions /\ r.kind = q.kind /\ r.catch = q.catch /\ r.finally = q.finally
      /\ r.phase = "finally" /\ r.pending = Top.pending
  <2>1. /\ b \in Regions /\ b.kind = q.kind /\ b.catch = q.catch /\ b.finally = q.finally
        /\ b.phase = "finally"
    BY <1>3, BlockIs
  <2> HIDE DEF b
  <2>2. r \in Regions
    BY <1>2, <2>1 DEF Regions
  <2>3. r.kind = b.kind /\ r.catch = b.catch /\ r.finally = b.finally /\ r.phase = b.phase /\ r.pending = Top.pending
    BY <2>1 DEF Regions
  <2> QED  BY <2>1, <2>2, <2>3
<1>6. /\ tf \in TryFrames /\ tf.at = TopFrame.at /\ tf.catchPos = "off" /\ tf.iterLen = TopFrame.iterLen
      /\ w => tf.finallyPos = "off" /\ tf.exception = Top.pending
  <2>1. new \in TryFrames
    <3>1. 0 \in 0..MaxDepth
      BY TryStackAssumption
    <3>2. [TopFrame EXCEPT !.exception = Top.pending] \in TryFrames
      BY <1>2 DEF TryFrames
    <3> QED  BY <3>1, <3>2 DEF TryFrames
  <2>2. /\ new.at = TopFrame.at /\ new.catchPos = TopFrame.catchPos /\ new.iterLen = TopFrame.iterLen
        /\ new.exception = Top.pending /\ new.finallyPos = "off"
    BY <1>2 DEF TryFrames
  <2>3. w => ~Top.stale
    <3>1. Depth \in 1..Depth
      BY <1>2, Here
    <3> QED  BY <3>1 DEF NoneStale, Top
  <2> HIDE DEF new
  <2>4. tf = IF Top.stale THEN TopFrame ELSE new
    OBVIOUS
  <2> HIDE DEF tf
  <2> QED  BY <1>1, <1>2, <2>1, <2>2, <2>3, <2>4
<1>7. tryStack' = [tryStack EXCEPT ![Len(tryStack)] = tf]
  <2>1. CASE Top.stale
    <3>1. tf = tryStack[Len(tryStack)] /\ tryStack' = tryStack
      BY <1>2, <2>1 DEF entersFinally
    <3> QED  BY <3>1, Here
  <2>2. CASE ~Top.stale
    BY <2>2 DEF entersFinally, SetFrame
  <2> QED  BY <2>1, <2>2
<1>8. ctl' = [Pop(ctl) EXCEPT ![Len(Pop(ctl))] = r]
  <2>1. ctl' = [Pop(ctl) EXCEPT ![Depth - 1].phase = "finally", ![Depth - 1].exit = 0, ![Depth - 1].pending = Top.pending]
    BY DEF entersFinally
  <2>2. [Pop(ctl) EXCEPT ![Depth - 1].phase = "finally", ![Depth - 1].exit = 0, ![Depth - 1].pending = Top.pending]
          = [Pop(ctl) EXCEPT ![Depth - 1] = r]
    <3>1. Pop(ctl) \in Seq(Regions)
      BY <1>2 DEF Sound, Typed
    <3> QED  BY <1>2, <1>3, <3>1
  <2> QED  BY <1>2, <2>1, <2>2
<1> HIDE DEF q, b, r, new, tf
<1>9. FrameFor(w, r, tf, Depth - 1)
  <2>1. tf.at = Depth - 1 /\ r.kind = "try" /\ tf.catchPos # "marker"
    BY <1>2, <1>4, <1>5, <1>6 DEF FrameFor
  <2>2. w => KeptFor(r, tf)
    BY <1>5, <1>6 DEF KeptFor, Pos
  <2> QED  BY <2>1, <2>2 DEF FrameFor
<1>10. Sound(w, ctl', tryStack', TopFrame.iterLen)
  <2>1. /\ Len(Pop(ctl)) > 0 /\ Pop(ctl)[Len(Pop(ctl))] = q /\ FrameFor(w, r, tf, Len(Pop(ctl)))
        /\ tf.iterLen = tryStack[Len(tryStack)].iterLen
    BY <1>2, <1>3, <1>6, <1>9
  <2>2. Sound(w, [Pop(ctl) EXCEPT ![Len(Pop(ctl))] = r], [tryStack EXCEPT ![Len(tryStack)] = tf], TopFrame.iterLen)
    BY <1>2, <1>4, <1>5, <1>6, <2>1, EntersBlock
  <2> QED  BY <1>7, <1>8, <2>2
<1> QED  BY <1>1, <1>2, <1>10, Here DEF IndInv

\* Where an exception that handleThrow brought to a Go level comes from there:
\* the level is left, and under it is the unwind region whose restoreStacks
\* called it, the loop whose next() it is, or the code that called it.
LEMMA GoLevelIs ==
    ASSUME NEW w \in BOOLEAN, IndInv(w), Restored, TopFrame.catchPos = "marker"
    PROVE  /\ Sound(w, Cut(ctl, Depth - 2), Pop(tryStack), Len(Truncated))
           /\ ctl[Depth - 1].kind \in GoKinds
           /\ ctl[Depth - 1].kind = "run" <=> Depth = 2
           /\ ctl[Depth - 1].phase = "next" => Depth > 2 /\ ctl[Depth - 2].kind = "loop"
           /\ ctl[Depth - 1].phase = "close" => Depth > 2 /\ ctl[Depth - 2].kind = "unwind"
<1>1. /\ Depth > 1 /\ Framed(ctl[Depth - 1]) /\ NestAt(ctl, Depth - 1) /\ FrameFor(w, ctl[Depth - 1], TopFrame, Depth - 1)
      /\ Len(Truncated) = TopFrame.iterLen /\ Sound(w, Pop(ctl), tryStack, TopFrame.iterLen)
      /\ Len(Pop(ctl)) = Depth - 1 /\ \A i \in 1..Depth - 1 : Pop(ctl)[i] = ctl[i]
  BY RestoredIs DEF Restored
<1>2. ctl[Depth - 1].kind \in GoKinds
  BY <1>1 DEF FrameFor, Framed
<1>3. Depth - 1 = 1 <=> Depth = 2
  BY Here
<1>4. Depth - 1 > 1 <=> Depth > 2
  BY Here
<1>5. (Depth - 1) - 1 = Depth - 2
  BY Here
<1>6. /\ ctl[Depth - 1].kind = "run" <=> Depth = 2
      /\ ctl[Depth - 1].phase = "next" => Depth > 2 /\ ctl[Depth - 2].kind = "loop"
      /\ ctl[Depth - 1].phase = "close" => Depth > 2 /\ ctl[Depth - 2].kind = "unwind"
  <2>1. ctl[Depth - 1].phase = "close" => Depth > 2
    BY <1>1, <1>3, <1>4, Here DEF NestAt
  <2> QED  BY <1>1, <1>3, <1>4, <1>5, <2>1 DEF NestAt
<1>7. Sound(w, Pop(Pop(ctl)), Pop(tryStack), TopFrame.iterLen)
  <2>1. Depth - 1 \in 1..Depth - 1
    BY <1>1, Here
  <2>2. Len(Pop(ctl)) > 0 /\ Framed(Pop(ctl)[Len(Pop(ctl))])
    BY <1>1, <2>1
  <2> QED  BY <1>1, <2>2, PopFrame
<1>8. Pop(Pop(ctl)) = Cut(ctl, Depth - 2)
  <2>1. Pop(ctl) = Cut(ctl, Depth - 1) /\ Pop(Pop(ctl)) = Cut(Pop(ctl), Depth - 2)
    BY <1>1, <1>5, Here DEF Pop
  <2>2. Depth - 1 \in 0..Len(ctl) /\ Depth - 2 \in 0..Depth - 1
    BY <1>1, Here
  <2> QED  BY <2>1, <2>2, Here, CutOfCut
<1> QED  BY <1>1, <1>2, <1>6, <1>7, <1>8

\* The action reachesGo preserves the invariant.
LEMMA reachesGoSound ==
    ASSUME NEW w \in BOOLEAN, IndInv(w), reachesGo PROVE IndInv(w)'
<1> DEFINE go == ctl[Depth - 1]
<1>1. Restored /\ Unwinding /\ TopFrame.catchPos = "marker"
  BY DEF reachesGo, Restored
<1>2. /\ Sound(w, Cut(ctl, Depth - 2), Pop(tryStack), Len(Truncated)) /\ go.kind \in GoKinds
      /\ go.kind = "run" <=> Depth = 2
      /\ go.phase = "next" => Depth > 2 /\ ctl[Depth - 2].kind = "loop"
  BY <1>1, GoLevelIs
<1>3. Top.pending \in Exceptions /\ Truncated \in Seq({"iter", "none"}) /\ Depth > 1
  BY <1>1, RestoredIs
<1>4. CASE /\ go.kind = "run" /\ ctl' = <<>> /\ callStack' = callStack - 1
           /\ tryStack' = Pop(tryStack) /\ iterStack' = Truncated
  <2>1. Cut(ctl, Depth - 2) = <<>>
    BY <1>2, <1>4, SubSeqEmpty DEF Cut
  <2> QED  BY <1>2, <1>3, <1>4, <2>1, Here DEF IndInv
<1>5. CASE /\ ctl' = Cut(ctl, Depth - 2) /\ tryStack' = Pop(tryStack)
           /\ iterStack' = Closed(Truncated) /\ UNCHANGED callStack
  <2>1. Closed(Truncated) \in Seq({"iter", "none"}) /\ Len(Closed(Truncated)) = Len(Truncated)
    BY <1>3, ClosedIs
  <2> QED  BY <1>2, <1>5, <2>1, Here DEF IndInv
<1>6. CASE /\ go.phase = "next" /\ handleThrow(Top.pending, FALSE, Cut(ctl, Depth - 3), Pop(tryStack))
           /\ iterStack' = Pop(Truncated)
  <2>1. Depth > 2 /\ ctl[Depth - 2].kind = "loop" /\ Depth - 2 \in 1..Depth - 2 /\ Depth - 2 \in 0..Len(ctl)
    BY <1>2, <1>6, Here
  <2>2. Len(Cut(ctl, Depth - 2)) = Depth - 2 /\ \A i \in 1..Depth - 2 : Cut(ctl, Depth - 2)[i] = ctl[i]
    BY <2>1, Here, CutFacts
  <2>3. Pop(Truncated) \in Seq({"iter", "none"}) /\ Sound(w, Pop(Cut(ctl, Depth - 2)), Pop(tryStack), Len(Pop(Truncated)))
    <3>1. Len(Cut(ctl, Depth - 2)) > 0 /\ Cut(ctl, Depth - 2)[Len(Cut(ctl, Depth - 2))].kind = "loop"
      BY <2>1, <2>2
    <3> QED  BY <1>2, <1>3, <3>1, LeavesLoop
  <2>4. Pop(Cut(ctl, Depth - 2)) = Cut(ctl, Depth - 3)
    <3>1. (Depth - 2) - 1 = Depth - 3 /\ Depth - 3 \in 0..Depth - 2
      BY <2>1, Here
    <3> QED  BY <2>1, <2>2, <3>1, Here, CutOfCut DEF Pop
  <2>5. Sound(w, ctl', tryStack', Len(Pop(Truncated))) /\ callStack' \in Int
    BY <1>3, <1>6, <2>3, <2>4, Here, Throws
  <2> QED  BY <1>6, <2>3, <2>5 DEF IndInv
<1>7. CASE /\ handleThrow(Top.pending, TRUE, Cut(ctl, Depth - 2), Pop(tryStack))
           /\ iterStack' = Truncated
  <2>1. Sound(w, ctl', tryStack', Len(Truncated)) /\ callStack' \in Int
    BY <1>2, <1>3, <1>7, Here, Throws
  <2> QED  BY <1>3, <1>7, <2>1 DEF IndInv
<1> QED  BY <1>4, <1>5, <1>6, <1>7 DEF reachesGo

-----------------------------------------------------------------------------
(* The invariant holds                                                     *)

\* The invariant holds when the host gets the runtime.
LEMMA InitSound ==
    ASSUME NEW w \in BOOLEAN, Init PROVE IndInv(w)
<1>1. ctl = <<>> /\ tryStack = <<>> /\ iterStack = <<>> /\ callStack = 0
  BY DEF Init
<1>2. Len(ctl) = 0 /\ Len(tryStack) = 0 /\ Len(iterStack) = 0 /\ Rank(ctl, 0) = 0
  BY <1>1, RankFacts
<1>3. Typed(ctl, tryStack, Len(iterStack))
  BY <1>1, <1>2 DEF Typed
<1>4. Nest(ctl) /\ Matched(w, ctl, tryStack) /\ Counted(ctl, tryStack, Len(iterStack))
  BY <1>2 DEF Nest, Matched, Counted
<1> QED  BY <1>1, <1>3, <1>4 DEF IndInv, Sound

\* What an interrupt would bring about does not happen without one.
LEMMA NothingInterrupted ==
    ASSUME NEW w \in BOOLEAN, IndInv(w), ~interrupted PROVE ~StopScript /\ ~panicsAgain /\ ~Propagate
<1>1. ~StopScript
  BY DEF StopScript
<1>2. ~panicsAgain
  <2> SUFFICES ASSUME panicsAgain PROVE FALSE
    OBVIOUS
  <2>1. Unwinding /\ Top.pending = 0
    BY DEF panicsAgain, Restored
  <2> QED  BY <2>1, RestoredIs, TryStackAssumption
<1>3. ~Propagate
  BY Here DEF Propagate, NestAt
<1> QED  BY <1>1, <1>2, <1>3

\* Every step of an uninterrupted script preserves the invariant.
LEMMA NextSound ==
    ASSUME NEW w \in BOOLEAN, IndInv(w), w => NoneStale, ~interrupted, [Next]_vars PROVE IndInv(w)'
<1>1. CASE UNCHANGED vars
  BY <1>1 DEF IndInv, vars
<1>2. CASE RunProgram
  BY <1>2, RunProgramSound
<1>3. CASE Interrupt
  BY <1>3 DEF IndInv, Interrupt
<1>4. CASE ScriptStep
  <2>1. CASE Call("fn") \/ Call("gofn") \/ Ret \/ RetToGo
    BY <2>1, CallSound, RetSound, RetToGoSound
  <2>2. CASE \E ex \in Exceptions : Throw(ex)
    BY <2>2, ThrowSound
  <2>3. CASE \E c, f \in BOOLEAN : Try(c, f)
    BY <2>3, TrySound
  <2>4. CASE enterFinally \/ leaveTry \/ leaveFinally
    BY <2>4, enterFinallySound, leaveTrySound, leaveFinallySound
  <2>5. CASE \E t \in 1..MaxDepth : Exit(t)
    BY <2>5, ExitSound
  <2>6. CASE \E item \in {"iter", "none"} : iterate(item)
    BY <2>6, iterateSound
  <2>7. CASE iterNext \/ enumNext \/ NextIteration \/ enumPopClose
    BY <2>7, iterNextSound, enumNextSound, NextIterationSound, enumPopCloseSound
  <2> QED  BY <1>4, <2>1, <2>2, <2>3, <2>4, <2>5, <2>6, <2>7 DEF ScriptStep
<1>5. CASE GoStep
  <2>1. CASE __call \/ stepReturns \/ closeReturns
    BY <2>1, GoCallSound, stepReturnsSound, closeReturnsSound
  <2>2. CASE \E ex \in Exceptions : Panic(ex)
    BY <2>2, ThrowSound
  <2>3. CASE CloseIterator \/ catches \/ entersFinally \/ reachesGo
    BY <2>3, CloseIteratorSound, catchesSound, entersFinallySound, reachesGoSound
  <2>4. CASE StopScript \/ panicsAgain \/ Propagate
    BY <2>4, NothingInterrupted
  <2> QED  BY <1>5, <2>1, <2>2, <2>3, <2>4 DEF GoStep
<1> QED  BY <1>1, <1>2, <1>3, <1>4, <1>5 DEF Next, VMStep

\* A nonempty set of bounded numbers has a largest one.
LEMMA Largest ==
    ASSUME NEW n \in Nat, NEW S, S \subseteq 1..n, S # {}
    PROVE  \E x \in S : \A y \in S : y <= x
<1> DEFINE T == {u \in Nat : \A y \in S : y <= u}
           R == OpToRel(<, Nat)
<1>1. T \subseteq Nat /\ n \in T
  OBVIOUS
<1>2. \A a, b \in Nat : a < b => <<a, b>> \in R
  BY DEF OpToRel
<1>3. IsWellFoundedOn(R, Nat)
  BY NatLessThanWellFounded
<1> HIDE DEF R
<1>4. PICK a \in T : \A b \in T : ~(<<b, a>> \in R)
  <2> HIDE DEF T
  <2>1. T # {}
    BY <1>1
  <2> QED  BY <1>1, <1>3, <2>1, WFMin
<1>5. a \in Nat /\ \A y \in S : y <= a
  OBVIOUS
<1>6. ASSUME a \notin S PROVE FALSE
  <2>1. PICK y \in S : y \in 1..n
    OBVIOUS
  <2>2. a - 1 \in Nat /\ a - 1 < a
    BY <1>5, <2>1
  <2>3. \A z \in S : z <= a - 1
    BY <1>5, <1>6
  <2>4. a - 1 \in T
    BY <2>2, <2>3
  <2>5. <<a - 1, a>> \in R
    BY <1>2, <1>5, <2>2
  <2> QED  BY <1>4, <2>4, <2>5
<1> QED  BY <1>5, <1>6

\* The loops from region l on, which is none.
LEMMA LoopsFrom ==
    ASSUME NEW i \in Nat, NEW l \in 1..i, ctl[l].kind # "loop"
    PROVE  LoopsIn(l, i) \in Nat /\ Loops(ctl, i) = Loops(ctl, l) + LoopsIn(l, i)
<1> DEFINE A == {k \in 1..l : ctl[k].kind = "loop"}
           B == {k \in l..i : ctl[k].kind = "loop"}
           C == {k \in 1..i : ctl[k].kind = "loop"}
<1>1. A \union B = C
  OBVIOUS
<1>2. A \intersect B = {}
  OBVIOUS
<1>3. A \subseteq 1..i /\ B \subseteq 1..i /\ IsFiniteSet(1..i)
  BY FS_Interval
<1> HIDE DEF A, B, C
<1>4. IsFiniteSet(A) /\ IsFiniteSet(B)
  BY <1>3, FS_Subset
<1>5. Cardinality(C) = Cardinality(A) + Cardinality(B) - Cardinality({})
  BY <1>1, <1>2, <1>4, FS_Union
<1>6. Cardinality(A) \in Nat /\ Cardinality(B) \in Nat /\ Cardinality({}) = 0
  BY <1>4, FS_CardinalityType, FS_EmptySet
<1>7. Loops(ctl, i) = Cardinality(C) /\ Loops(ctl, l) = Cardinality(A) /\ LoopsIn(l, i) = Cardinality(B)
  BY DEF Loops, LoopsIn, A, B, C
<1> QED  BY <1>5, <1>6, <1>7

\* The items under region i, counted from the innermost region that restoreStacks
\* called, or from the program.
LEMMA ItemsIs ==
    ASSUME NEW w \in BOOLEAN, IndInv(w), NEW i \in 1..Depth
    PROVE  \E l \in 1..i : /\ Framed(ctl[l]) /\ Quiet(ctl, l, i)
                           /\ Items(i) = Extra(ctl, tryStack, l) + Loops(ctl, i)
<1> DEFINE closers == {j \in 1..i : ctl[j].phase = "close"}
           last    == CHOOSE j \in closers : \A k \in closers : k <= j
<1>1. /\ i \in Nat /\ ctl \in Seq(Regions) /\ tryStack \in Seq(TryFrames) /\ Nest(ctl) /\ Depth = Len(ctl)
      /\ Matched(w, ctl, tryStack) /\ Counted(ctl, tryStack, Len(iterStack))
  BY Here DEF Sound
<1>2. Items(i) = IF closers = {} THEN LoopsIn(1, i) ELSE FrameOf(last).iterLen + LoopsIn(last, i)
  BY DEF Items
<1>3. \A l \in 1..i : /\ l \in 1..Len(ctl) /\ NestAt(ctl, l) /\ Loops(ctl, l) \in Nat /\ Loops(ctl, i) \in Nat
                      /\ Framed(ctl[l]) => FrameOf(l) \in TryFrames /\ FrameOf(l) = tryStack[Rank(ctl, l)]
  <2> TAKE l \in 1..i
  <2>1. l \in 1..Len(ctl) /\ l \in Nat
    BY <1>1
  <2>2. NestAt(ctl, l) /\ Loops(ctl, l) \in Nat /\ Loops(ctl, i) \in Nat
    BY <1>1, <2>1, RankFacts DEF Nest
  <2>3. FrameOf(l) = tryStack[Rank(ctl, l)]
    BY DEF FrameOf, HasFrame, Rank, Framed
  <2>4. Framed(ctl[l]) => Rank(ctl, l) \in 1..Len(tryStack)
    BY <1>1, <2>1, RankInRange DEF Matched
  <2> QED  BY <1>1, <2>1, <2>2, <2>3, <2>4
<1>4. CASE closers = {}
  <2>1. 1 \in 1..i /\ Quiet(ctl, 1, i)
    BY <1>1, <1>4 DEF Quiet
  <2>2. Framed(ctl[1])
    BY <1>3, <2>1 DEF NestAt, Framed, GoKinds
  <2>3. Extra(ctl, tryStack, 1) = 0
    BY <1>1, <2>1 DEF Counted
  <2>4. Items(i) = Loops(ctl, i)
    BY <1>2, <1>4 DEF LoopsIn, Loops
  <2> QED  BY <1>3, <2>1, <2>2, <2>3, <2>4
<1>5. CASE closers # {}
  <2>1. closers \subseteq 1..i
    OBVIOUS
  <2>2. last \in closers /\ \A k \in closers : k <= last
    <3>1. \E x \in closers : \A y \in closers : y <= x
      <4> HIDE DEF closers
      <4> QED  BY <1>1, <1>5, <2>1, Largest
    <3> HIDE DEF closers
    <3> QED  BY <3>1
  <2> HIDE DEF last
  <2>3. last \in 1..i /\ ctl[last].phase = "close" /\ Quiet(ctl, last, i)
    BY <1>1, <2>2 DEF Quiet
  <2>4. ctl[last].kind = "native"
    BY <1>3, <2>3 DEF NestAt
  <2>5. Framed(ctl[last])
    BY <2>4 DEF Framed, GoKinds
  <2>6. LoopsIn(last, i) \in Nat /\ Loops(ctl, i) = Loops(ctl, last) + LoopsIn(last, i)
    BY <1>1, <2>3, <2>4, LoopsFrom
  <2>7. Items(i) = FrameOf(last).iterLen + LoopsIn(last, i)
    BY <1>2, <1>5
  <2>8. FrameOf(last).iterLen \in Nat /\ Extra(ctl, tryStack, last) = FrameOf(last).iterLen - Loops(ctl, last)
        /\ Loops(ctl, last) \in Nat
    BY <1>3, <2>3, <2>5 DEF Extra, TryFrames
  <2>9. Items(i) = Extra(ctl, tryStack, last) + Loops(ctl, i)
    BY <2>6, <2>7, <2>8
  <2> QED  BY <2>3, <2>5, <2>9
<1> QED  BY <1>4, <1>5

-----------------------------------------------------------------------------
(* What the invariant says of the stacks                                   *)

\* The frame of a region, and the items that it remembers.
LEMMA FrameIs ==
    ASSUME NEW w \in BOOLEAN, IndInv(w), NEW i \in 1..Depth, HasFrame(i)
    PROVE  /\ Framed(ctl[i]) /\ FrameOf(i) = tryStack[Rank(ctl, i)]
           /\ FrameFor(w, ctl[i], FrameOf(i), i) /\ FrameOf(i).iterLen = Items(i)
<1>1. /\ Framed(ctl[i]) /\ FrameOf(i) = tryStack[Rank(ctl, i)]
  BY DEF FrameOf, HasFrame, Rank, Framed
<1>2. /\ i \in 1..Len(ctl) /\ i \in Nat /\ ctl \in Seq(Regions) /\ tryStack \in Seq(TryFrames)
      /\ Matched(w, ctl, tryStack) /\ Counted(ctl, tryStack, Len(iterStack))
  BY Here DEF Sound
<1>3. FrameFor(w, ctl[i], FrameOf(i), i)
  BY <1>1, <1>2 DEF Matched
<1>4. PICK l \in 1..i : /\ Framed(ctl[l]) /\ Quiet(ctl, l, i)
                        /\ Items(i) = Extra(ctl, tryStack, l) + Loops(ctl, i)
  BY ItemsIs
<1>5. Extra(ctl, tryStack, l) = Extra(ctl, tryStack, i)
  <2>1. l \in 1..Len(ctl) /\ (l < i \/ l = i)
    BY <1>2
  <2> QED  BY <1>1, <1>2, <1>4, <2>1 DEF Counted
<1>6. FrameOf(i).iterLen \in Nat /\ Loops(ctl, i) \in Nat
  <2>1. Rank(ctl, i) \in 1..Len(tryStack)
    BY <1>1, <1>2, RankInRange DEF Matched
  <2>2. FrameOf(i) \in TryFrames
    BY <1>1, <1>2, <2>1
  <2> QED  BY <1>2, <2>2, RankFacts DEF TryFrames
<1>7. Extra(ctl, tryStack, i) = FrameOf(i).iterLen - Loops(ctl, i)
  BY <1>1 DEF Extra
<1> QED  BY <1>1, <1>3, <1>4, <1>5, <1>6, <1>7

\* tryStack and iterStack are those of the code that runs.
LEMMA StacksAgree ==
    ASSUME NEW w \in BOOLEAN, IndInv(w)
    PROVE  FramesMatchCode /\ ItemsMatchCode
<1>1. /\ ctl \in Seq(Regions) /\ Depth = Len(ctl) /\ Depth \in Nat /\ tryStack \in Seq(TryFrames)
      /\ Matched(w, ctl, tryStack) /\ Counted(ctl, tryStack, Len(iterStack)) /\ Len(iterStack) \in Nat
  BY Here DEF Sound
<1>2. FramesMatchCode
  <2>1. Len(tryStack) = Cardinality({i \in 1..Depth : HasFrame(i)})
    BY <1>1 DEF Matched, Rank, HasFrame, Framed
  <2>2. \A i \in 1..Depth : HasFrame(i) => FrameOf(i).at = i
    BY FrameIs DEF FrameFor
  <2> QED  BY <2>1, <2>2 DEF FramesMatchCode
<1>3. \A i \in 1..Depth : HasFrame(i) => FrameOf(i).iterLen = Items(i)
  BY FrameIs
<1>4. Items(Depth) \in Int /\ IF Unwinding THEN Len(iterStack) >= Items(Depth) ELSE Len(iterStack) = Items(Depth)
  <2>1. CASE Depth = 0
    <3>1. {j \in 1..Depth : ctl[j].phase = "close"} = {} /\ {k \in 1..Depth : ctl[k].kind = "loop"} = {}
      BY <2>1
    <3>2. Items(Depth) = LoopsIn(1, Depth)
      BY <3>1 DEF Items
    <3>3. Items(Depth) = 0
      BY <3>1, <3>2, FS_EmptySet DEF LoopsIn
    <3>4. ctl = <<>>
      BY <1>1, <2>1, EmptySeq
    <3> QED  BY <1>1, <2>1, <3>3, <3>4 DEF Counted, Unwinding
  <2>2. CASE Depth > 0
    <3>1. Depth \in 1..Depth
      BY <1>1, <2>2
    <3>2. PICK l \in 1..Depth : /\ Framed(ctl[l]) /\ Quiet(ctl, l, Depth)
                                /\ Items(Depth) = Extra(ctl, tryStack, l) + Loops(ctl, Depth)
      BY <3>1, ItemsIs
    <3>3. /\ Extra(ctl, tryStack, l) <= Len(iterStack) - Loops(ctl, Depth)
          /\ ~Unwinding => Extra(ctl, tryStack, l) = Len(iterStack) - Loops(ctl, Depth)
      BY <1>1, <3>2 DEF Counted, Unwinds, Unwinding, Top
    <3>4. Extra(ctl, tryStack, l) \in Int /\ Loops(ctl, Depth) \in Nat
      <4>1. l \in Nat /\ l \in 1..Len(ctl)
        BY <1>1
      <4>2. Rank(ctl, l) \in 1..Len(tryStack)
        BY <1>1, <3>2, <4>1, RankInRange DEF Matched
      <4>3. tryStack[Rank(ctl, l)].iterLen \in Nat
        <5>1. tryStack[Rank(ctl, l)] \in TryFrames
          BY <1>1, <4>2
        <5> QED  BY <5>1 DEF TryFrames
      <4>4. Loops(ctl, l) \in Nat /\ Loops(ctl, Depth) \in Nat
        BY <1>1, <4>1, RankFacts
      <4> QED  BY <4>3, <4>4 DEF Extra
    <3> QED  BY <1>1, <3>2, <3>3, <3>4
  <2> QED  BY <1>1, <2>1, <2>2
<1> QED  BY <1>2, <1>3, <1>4 DEF ItemsMatchCode

\* The frames of try statements have their handlers and their exceptions.
LEMMA FramesAgree ==
    ASSUME IndInv(TRUE)
    PROVE  HandlersMatchBlock /\ PendingKept
<1>1. ASSUME NEW i \in 1..Depth, ctl[i].kind = "try" PROVE KeptFor(ctl[i], FrameOf(i))
  <2>1. HasFrame(i)
    BY <1>1 DEF HasFrame
  <2>2. FrameFor(TRUE, ctl[i], FrameOf(i), i)
    BY <2>1, FrameIs
  <2> QED  BY <1>1, <2>2 DEF FrameFor
<1> QED  BY <1>1 DEF HandlersMatchBlock, PendingKept, KeptFor

-----------------------------------------------------------------------------
(* Steps                                                                   *)

\* While handleThrow runs restoreStacks, these are the steps there are.
LEMMA UnwindingSteps ==
    ASSUME NEW w \in BOOLEAN, IndInv(w), ~interrupted, Unwinding, Next
    PROVE  Interrupt \/ CloseIterator \/ catches \/ entersFinally \/ reachesGo
<1>1. Depth > 0 /\ Top.kind = "unwind"
  BY DEF Unwinding
<1>2. ~RunProgram
  BY <1>1, Here DEF RunProgram, Unwinding
<1>3. ~InJS /\ ~Running /\ ~JS /\ ~InGo /\ ~AtHead
  BY <1>1 DEF InJS, Running, JS, InGo, AtHead
<1>4. ~ScriptStep
  BY <1>3 DEF ScriptStep, Call, Ret, RetToGo, Throw, Try, enterFinally, leaveTry, leaveFinally, Exit,
              iterate, iterNext, enumNext, NextIteration, enumPopClose, Running
<1>5. /\ ~__call /\ ~stepReturns /\ ~closeReturns /\ \A ex \in Exceptions : ~Panic(ex)
  BY <1>3 DEF __call, stepReturns, closeReturns, Panic
<1> QED  BY <1>2, <1>4, <1>5, NothingInterrupted DEF Next, VMStep, GoStep

\* What restoreStacks cuts off is closed.
LEMMA NothingToClose ==
    ASSUME NEW w \in BOOLEAN, IndInv(w), Restored
    PROVE  \A i \in (TopFrame.iterLen + 1)..Len(iterStack) : iterStack[i] = "none"
<1> TAKE i \in (TopFrame.iterLen + 1)..Len(iterStack)
<1>1. TopFrame.iterLen \in Nat /\ ToClose = {}
  BY RestoredIs DEF Restored
<1>2. iterStack[i] \in {"iter", "none"}
  <2>1. i \in 1..Len(iterStack)
    BY <1>1, Here
  <2> QED  BY <2>1, Here
<1>3. iterStack[i] # "iter"
  BY <1>1 DEF ToClose
<1> QED  BY <1>2, <1>3

\* Every step of an uninterrupted script closes what it unwinds.
LEMMA StepClosesAll ==
    ASSUME NEW w \in BOOLEAN, IndInv(w), ~interrupted, Next, Unwinding,
           NEW i \in (Len(iterStack') + 1)..Len(iterStack)
    PROVE  iterStack[i] = "none" \/ (ctl[Depth - 1].phase = "next" /\ i = Len(iterStack') + 1)
<1>1. Len(iterStack) \in Nat
  BY Here
<1>2. CASE UNCHANGED iterStack
  BY <1>1, <1>2
<1>3. CASE Restored /\ Len(iterStack') = TopFrame.iterLen
  BY <1>3, NothingToClose
<1>4. CASE Restored /\ iterStack' = Pop(Truncated) /\ ctl[Depth - 1].phase = "next" /\ reachesGo
  <2>1. Truncated \in Seq({"iter", "none"}) /\ Len(Truncated) = TopFrame.iterLen /\ TopFrame.iterLen \in Nat
    BY RestoredIs
  <2>2. Len(Truncated) > 0
    <3>1. TopFrame.catchPos = "marker"
      BY <1>4 DEF reachesGo
    <3>2. /\ Sound(w, Cut(ctl, Depth - 2), Pop(tryStack), Len(Truncated))
          /\ Depth > 2 /\ ctl[Depth - 2].kind = "loop"
      BY <1>4, <3>1, GoLevelIs
    <3>3. Depth - 2 \in 0..Len(ctl) /\ Depth - 2 \in 1..Depth - 2
      BY <3>2, Here
    <3>4. Len(Cut(ctl, Depth - 2)) = Depth - 2 /\ Cut(ctl, Depth - 2)[Depth - 2] = ctl[Depth - 2]
      BY <3>3, Here, CutFacts
    <3>5. Len(Cut(ctl, Depth - 2)) > 0 /\ Cut(ctl, Depth - 2)[Len(Cut(ctl, Depth - 2))].kind = "loop"
      BY <3>2, <3>3, <3>4
    <3>6. Sound(w, Cut(ctl, Depth - 2), Pop(tryStack), Len(Truncated))
      BY <3>2
    <3>7. ~Framed(Cut(ctl, Depth - 2)[Len(Cut(ctl, Depth - 2))])
      BY <3>5 DEF Framed, GoKinds
    <3>8. Len(Truncated) - 1 \in Nat
      BY <3>5, <3>6, <3>7, PopOther
    <3> QED  BY <2>1, <3>8
  <2>3. Len(iterStack') = TopFrame.iterLen - 1
    BY <1>4, <2>1, <2>2, PopFacts
  <2>4. i = Len(iterStack') + 1 \/ i \in (TopFrame.iterLen + 1)..Len(iterStack)
    BY <1>1, <2>1, <2>3
  <2> QED  BY <1>4, <2>4, NothingToClose
<1>5. Truncated \in Seq({"iter", "none"}) /\ Len(Truncated) = TopFrame.iterLen /\ Len(Closed(Truncated)) = TopFrame.iterLen
  BY RestoredIs, ClosedIs
<1>6. CASE Interrupt \/ CloseIterator
  BY <1>2, <1>6 DEF Interrupt, CloseIterator
<1>7. CASE catches \/ entersFinally
  BY <1>3, <1>5, <1>7 DEF catches, entersFinally
<1>8. CASE reachesGo
  BY <1>3, <1>4, <1>5, <1>8 DEF reachesGo
<1> QED  BY <1>6, <1>7, <1>8, UnwindingSteps

\* Control is, after the step, in code that is not a handleThrow, or nowhere.
Resumes == Len(ctl') = 0 \/ ctl'[Len(ctl')].kind # "unwind"

\* pushTryFrame goes on in the new region.
LEMMA PushResumes ==
    ASSUME NEW w \in BOOLEAN, NEW c, NEW ts, NEW m, Sound(w, c, ts, m), NEW r, r.kind # "unwind",
           NEW cp, NEW fp, NEW calls, NEW iters, pushTryFrame(c, r, cp, fp, calls, iters)
    PROVE  Resumes
<1> DEFINE full == Len(tryStack) = cap
           d    == Moved(c, full)
<1>1. ctl' = Append(d, r)
  BY DEF pushTryFrame, Moved
<1>2. full \in BOOLEAN
  OBVIOUS
<1> HIDE DEF full
<1>3. d \in Seq(Regions)
  BY <1>2, Moves DEF Sound, Typed
<1> HIDE DEF d
<1>4. Append(d, r)[Len(Append(d, r))] = r
  BY <1>3
<1> QED  BY <1>1, <1>4 DEF Resumes

\* So does a call or a loop that is entered.
LEMMA AppendResumes ==
    ASSUME NEW w \in BOOLEAN, IndInv(w), NEW r, r.kind # "unwind", ctl' = Append(ctl, r)
    PROVE  Resumes
<1>1. Append(ctl, r)[Len(Append(ctl, r))] = r
  BY Here
<1> QED  BY <1>1 DEF Resumes

\* Under code that restoreStacks did not call there is no handleThrow.
LEMMA PopResumes ==
    ASSUME NEW w \in BOOLEAN, IndInv(w), Depth > 0, Top.phase # "close",
           Len(ctl') = Depth - 1, Depth > 1 => ctl'[Depth - 1].kind = ctl[Depth - 1].kind
    PROVE  Resumes
<1>1. NestAt(ctl, Depth) /\ Top = ctl[Depth] /\ Depth \in Nat
  BY Here
<1>2. Depth > 1 => ctl[Depth - 1].kind # "unwind"
  BY <1>1 DEF NestAt
<1> QED  BY <1>1, <1>2 DEF Resumes

\* What the top region is while a script or Go code runs.
LEMMA RunningTop ==
    ASSUME NEW w \in BOOLEAN, IndInv(w), InJS \/ InGo \/ AtHead
    PROVE  /\ Depth > 0 /\ Top.kind # "unwind"
           /\ Top.phase = "close" => Top.kind = "native"
           /\ Len(Pop(ctl)) = Depth - 1 /\ \A i \in 1..Depth - 1 : Pop(ctl)[i] = ctl[i]
<1>1. Depth > 0 /\ Top.kind # "unwind"
  BY DEF InJS, InGo, AtHead
<1>2. Top.phase = "close" => Top.kind = "native"
  BY <1>1, Here DEF NestAt
<1> QED  BY <1>1, <1>2, Here, PopFacts

\* A pop of the region at the top, with an exit to go on with or without.
LEMMA LeaveResumes ==
    ASSUME NEW w \in BOOLEAN, IndInv(w), InJS \/ InGo \/ AtHead, Top.phase # "close",
           \/ ctl' = Pop(ctl)
           \/ \E ts, m : Sound(w, Pop(ctl), ts, m) /\ \E t \in 0..MaxDepth : ctl' = LeaveFor(Pop(ctl), t)
    PROVE  Resumes
<1>1. /\ Depth > 0 /\ Depth \in Nat /\ Len(Pop(ctl)) = Depth - 1 /\ \A i \in 1..Depth - 1 : Pop(ctl)[i] = ctl[i]
  BY Here, RunningTop
<1>2. Len(ctl') = Depth - 1 /\ \A i \in 1..Depth - 1 : ctl'[i].kind = Pop(ctl)[i].kind
  <2>1. CASE ctl' = Pop(ctl)
    BY <1>1, <2>1
  <2>2. CASE \E ts, m : Sound(w, Pop(ctl), ts, m) /\ \E t \in 0..MaxDepth : ctl' = LeaveFor(Pop(ctl), t)
    <3>1. PICK ts, m : Sound(w, Pop(ctl), ts, m) /\ \E t \in 0..MaxDepth : ctl' = LeaveFor(Pop(ctl), t)
      BY <2>2
    <3>2. PICK t \in 0..MaxDepth : ctl' = LeaveFor(Pop(ctl), t)
      BY <3>1
    <3>3. /\ Len(LeaveFor(Pop(ctl), t)) = Len(Pop(ctl))
          /\ \A i \in 1..Len(Pop(ctl)) : LeaveFor(Pop(ctl), t)[i].kind = Pop(ctl)[i].kind
      BY <3>1, Leaves
    <3> QED  BY <1>1, <3>2, <3>3
  <2> QED  BY <2>1, <2>2
<1>3. Depth > 1 => Depth - 1 \in 1..Depth - 1
  BY <1>1
<1> QED  BY <1>1, <1>2, <1>3, PopResumes

\* A change of a region at the top is none of its kind.
LEMMA SameTop ==
    ASSUME NEW w \in BOOLEAN, IndInv(w), InJS \/ AtHead, Len(ctl') = Depth, ctl'[Depth].kind = Top.kind
    PROVE  Resumes
<1>1. Top.kind # "unwind"
  BY DEF InJS, AtHead
<1> QED  BY <1>1 DEF Resumes

\* The steps that neither throw nor end the closing of an iterator resume code.
LEMMA StepResumes ==
    ASSUME NEW w \in BOOLEAN, IndInv(w),
           \/ RunProgram \/ Call("fn") \/ Call("gofn") \/ Ret \/ RetToGo
           \/ \E c, f \in BOOLEAN : Try(c, f)
           \/ enterFinally \/ leaveTry
           \/ \E t \in 1..MaxDepth : Exit(t)
           \/ \E item \in {"iter", "none"} : iterate(item)
           \/ iterNext \/ enumNext \/ NextIteration \/ enumPopClose
           \/ __call \/ stepReturns \/ CloseIterator
    PROVE  Resumes
<1>1. Sound(w, ctl, tryStack, Len(iterStack)) /\ ctl \in Seq(Regions) /\ Depth = Len(ctl) /\ Depth \in Nat
  BY Here
<1>2. CASE RunProgram \/ __call \/ iterNext \/ CloseIterator
  <2>1. PICK r, calls, iters : r.kind # "unwind" /\ pushMarker(ctl, r, calls, iters)
    BY <1>2 DEF RunProgram, __call, iterNext, CloseIterator, Region
  <2> QED  BY <1>1, <2>1, PushResumes DEF pushMarker
<1>3. CASE \E c, f \in BOOLEAN : Try(c, f)
  <2>1. PICK c, f \in BOOLEAN :
            pushTryFrame(ctl, TryRegion(c, f), Pos(c), Pos(f), callStack, Len(iterStack))
    BY <1>3 DEF Try
  <2>2. TryRegion(c, f).kind # "unwind"
    BY DEF TryRegion, Region
  <2> QED  BY <1>1, <2>1, <2>2, PushResumes
<1>4. CASE Call("fn") \/ Call("gofn") \/ \E item \in {"iter", "none"} : iterate(item)
  <2>1. PICK kind \in {"fn", "gofn", "loop"}, phase \in {"body", "head"} : ctl' = Append(ctl, Region(kind, phase))
    BY <1>4 DEF Call, iterate
  <2>2. Region(kind, phase).kind # "unwind"
    BY DEF Region
  <2> QED  BY <2>1, <2>2, AppendResumes
<1>5. CASE Ret \/ RetToGo
  <2>1. (InJS \/ InGo) /\ Top.kind # "native" /\ ctl' = Pop(ctl)
    BY <1>5 DEF Ret, RetToGo, JS, Running
  <2>2. Top.phase # "close"
    BY <2>1, RunningTop
  <2> QED  BY <2>1, <2>2, LeaveResumes
<1>6. CASE enterFinally \/ (\E t \in 1..MaxDepth : Exit(t)) \/ NextIteration
  <2>1. InJS /\ Depth > 0
    BY <1>6 DEF enterFinally, Exit, NextIteration, JS, Running, InJS
  <2>2. PICK p, x : \/ ctl' = [ctl EXCEPT ![Depth].phase = p]
                    \/ ctl' = [ctl EXCEPT ![Depth].exit = x]
    BY <1>6 DEF enterFinally, Exit, NextIteration
  <2>3. CASE ctl' = [ctl EXCEPT ![Depth].phase = p]
    <3>1. Len(ctl') = Depth /\ ctl'[Depth].kind = Top.kind
      BY <1>1, <2>1, <2>3 DEF Top
    <3> QED  BY <2>1, <3>1, SameTop
  <2>4. CASE ctl' = [ctl EXCEPT ![Depth].exit = x]
    <3>1. Len(ctl') = Depth /\ ctl'[Depth].kind = Top.kind
      BY <1>1, <2>1, <2>4 DEF Top
    <3> QED  BY <2>1, <3>1, SameTop
  <2> QED  BY <2>2, <2>3, <2>4
<1>7. CASE leaveTry
  <2>1. InJS /\ Depth > 0 /\ Top.kind = "try" /\ Top.phase # "close"
    BY <1>7, RunningTop DEF leaveTry, Running, InJS
  <2>2. Top = ctl[Len(ctl)] /\ Top.exit \in 0..MaxDepth
    BY <2>1, Here DEF Regions
  <2>3. CASE ctl' = [ctl EXCEPT ![Depth].phase = "finally", ![Depth].exit = 0]
    <3>1. Len(ctl') = Depth /\ ctl'[Depth].kind = Top.kind
      BY <1>1, <2>1, <2>3 DEF Top
    <3> QED  BY <2>1, <3>1, SameTop
  <2>4. CASE ctl' = LeaveFor(Pop(ctl), Top.exit)
    <3>1. Sound(w, Pop(ctl), Pop(tryStack), Len(iterStack))
      BY <1>1, <2>1, <2>2, PopFrame DEF Framed
    <3> QED  BY <2>1, <2>2, <2>4, <3>1, LeaveResumes
  <2> QED  BY <1>7, <2>3, <2>4 DEF leaveTry
<1>8. CASE enumNext
  <2>1. AtHead /\ Depth > 0 /\ Top.kind = "loop" /\ Top.phase # "close"
    BY <1>8, RunningTop DEF enumNext, AtHead
  <2>2. CASE ctl' = [ctl EXCEPT ![Depth].phase = "body"]
    <3>1. Len(ctl') = Depth /\ ctl'[Depth].kind = Top.kind
      BY <1>1, <2>1, <2>2 DEF Top
    <3> QED  BY <2>1, <3>1, SameTop
  <2>3. CASE ctl' = Pop(ctl)
    BY <2>1, <2>3, LeaveResumes
  <2> QED  BY <1>8, <2>2, <2>3 DEF enumNext
<1>9. CASE enumPopClose
  <2>1. InJS /\ Depth > 0 /\ Top.kind = "loop" /\ Top.phase # "close"
    BY <1>9, RunningTop DEF enumPopClose, Running, InJS
  <2>2. Top = ctl[Len(ctl)] /\ Top.exit \in 0..MaxDepth
    BY <2>1, Here DEF Regions
  <2>3. Sound(w, Pop(ctl), tryStack, Len(Pop(iterStack)))
    BY <1>1, <2>1, <2>2, Here, LeavesLoop
  <2>4. CASE ctl' = LeaveFor(Pop(ctl), Top.exit)
    BY <2>1, <2>2, <2>3, <2>4, LeaveResumes
  <2>5. CASE pushMarker(LeaveFor(Pop(ctl), Top.exit), Region("call", "body"), callStack, Len(iterStack) - 1)
    <3>1. Sound(w, LeaveFor(Pop(ctl), Top.exit), tryStack, Len(Pop(iterStack)))
      BY <2>2, <2>3, Leaves
    <3>2. Region("call", "body").kind # "unwind"
      BY DEF Region
    <3> QED  BY <2>5, <3>1, <3>2, PushResumes DEF pushMarker
  <2> QED  BY <1>9, <2>4, <2>5 DEF enumPopClose
<1>10. CASE stepReturns
  <2>1. InGo /\ Depth > 0 /\ Top.phase = "next" /\ Top = ctl[Depth]
    BY <1>10, Here DEF stepReturns, InGo
  <2>2. Depth > 1 /\ ctl[Depth - 1].kind = "loop"
    BY <2>1, Here DEF NestAt
  <2>3. Pop(ctl) \in Seq(Regions) /\ Len(Pop(ctl)) = Depth - 1 /\ \A i \in 1..Depth - 1 : Pop(ctl)[i] = ctl[i]
    BY <1>1, <2>1, PopFacts
  <2>4. CASE ctl' = [Pop(ctl) EXCEPT ![Depth - 1].phase = "body"]
    <3>1. Depth - 1 \in 1..Depth - 1
      BY <1>1, <2>2
    <3>2. Len(ctl') = Depth - 1 /\ ctl'[Depth - 1].kind = Pop(ctl)[Depth - 1].kind
      BY <2>3, <2>4, <3>1
    <3> QED  BY <2>2, <2>3, <3>1, <3>2 DEF Resumes
  <2>5. CASE ctl' = Pop(Pop(ctl))
    <3>1. Len(ctl') = Depth - 2 /\ \A i \in 1..Depth - 2 : ctl'[i] = Pop(ctl)[i]
      <4>1. Len(Pop(ctl)) > 0 /\ Len(Pop(ctl)) - 1 = Depth - 2
        BY <1>1, <2>2, <2>3
      <4> QED  BY <2>3, <2>5, <4>1, PopFacts
    <3>2. Depth > 2 => Depth - 2 \in 1..Depth - 2 /\ Depth - 2 \in 1..Depth - 1
      BY <1>1
    <3>3. Depth > 2 => ctl[Depth - 2].kind # "unwind"
      <4>1. Depth - 1 \in 1..Len(ctl) /\ (Depth - 1) - 1 = Depth - 2 /\ (Depth > 2 => Depth - 1 > 1)
        BY <1>1, <2>2
      <4>2. NestAt(ctl, Depth - 1)
        BY <4>1, Here DEF Nest
      <4> QED  BY <2>2, <4>1, <4>2 DEF NestAt
    <3>4. Depth > 2 => ctl'[Depth - 2].kind # "unwind"
      BY <2>3, <3>1, <3>2, <3>3
    <3> QED  BY <1>1, <2>2, <3>1, <3>4 DEF Resumes
  <2> QED  BY <1>10, <2>4, <2>5 DEF stepReturns
<1> QED  BY <1>2, <1>3, <1>4, <1>5, <1>6, <1>7, <1>8, <1>9, <1>10

\* An exception that is thrown where the regions above k have been left, none of
\* which could handle it, skips no handler.
LEMMA ThrowSkipsNone ==
    ASSUME NEW k \in 0..Depth, ctl \in Seq(Regions), NEW ts, NEW m, Sound(TRUE, Cut(ctl, k), ts, m), callStack \in Int,
           \A i \in k + 1..Depth : ~Handler(ctl[i]),
           NEW ex \in Exceptions, NEW dd \in BOOLEAN, handleThrow(ex, dd, Cut(ctl, k), ts)
    PROVE  \A i \in Len(ctl')..Depth : ~Handler(ctl[i])
<1>1. Depth = Len(ctl) /\ Depth \in Nat
  BY DEF Depth
<1>2. Len(Cut(ctl, k)) = k /\ \A i \in 1..k : Cut(ctl, k)[i] = ctl[i]
  BY <1>1, CutFacts
<1>3. \A i \in Len(ctl')..k : ~Handler(Cut(ctl, k)[i])
  <2>1. \A i \in Len(ctl')..Len(Cut(ctl, k)) : ~Handler(Cut(ctl, k)[i])
    BY Throws
  <2> QED  BY <1>2, <2>1
<1>4. Len(ctl') \in Nat /\ Len(ctl') > 0
  <2>1. PICK n \in 1..Len(ts) : ctl' = Append(Cut(Cut(ctl, k), IF ts[n].catchPos = "marker" THEN GoLevel(Cut(ctl, k)) ELSE ts[n].at),
                                              Unwind(ex, dd))
    BY DEF handleThrow
  <2>2. Sound(TRUE, ctl', tryStack', m)
    BY Throws
  <2>3. ctl' \in Seq(Regions)
    BY <2>2 DEF Sound, Typed
  <2>4. ctl' # <<>>
    BY <2>1
  <2> QED  BY <2>3, <2>4, EmptySeq
<1> TAKE i \in Len(ctl')..Depth
<1>5. CASE i > k
  <2>1. i \in k + 1..Depth
    BY <1>1, <1>4, <1>5
  <2> QED  BY <2>1
<1>6. CASE i <= k
  <2>1. i \in Len(ctl')..k /\ i \in 1..k
    BY <1>1, <1>4, <1>6
  <2> QED  BY <1>2, <1>3, <2>1
<1> QED  BY <1>1, <1>4, <1>5, <1>6

\* Every step of an uninterrupted script that brings control to a handleThrow
\* leaves behind only regions that could not handle the exception.
LEMMA StepSkipsNone ==
    ASSUME IndInv(TRUE), ~interrupted, Next, ~Resumes
    PROVE  \A i \in Len(ctl')..Depth : ~Handler(ctl[i])
<1>1. /\ ctl \in Seq(Regions) /\ Depth \in Nat /\ Depth = Len(ctl) /\ callStack \in Int
      /\ Sound(TRUE, ctl, tryStack, Len(iterStack))
  BY Here
<1>2. CASE Interrupt
  <2>1. ctl' = ctl
    BY <1>2 DEF Interrupt
  <2>2. ctl[Depth].kind = "unwind"
    BY <1>1, <2>1 DEF Resumes
  <2> QED  BY <1>1, <2>1, <2>2 DEF Handler
<1>3. CASE \E ex \in Exceptions : Throw(ex) \/ Panic(ex)
  <2>1. PICK ex \in Exceptions, dd \in BOOLEAN : handleThrow(ex, dd, ctl, tryStack)
    BY <1>3 DEF Throw, Panic
  <2> QED  BY <1>1, <2>1, Throws
<1>4. CASE leaveFinally
  <2>1. InJS /\ Depth > 0 /\ Top.kind = "try" /\ Top.phase = "finally" /\ Top = ctl[Depth]
    BY <1>4, Here DEF leaveFinally, JS, Running, InJS
  <2>2. TopFrame \in TryFrames /\ Sound(TRUE, Pop(ctl), Pop(tryStack), Len(iterStack))
    BY <1>1, <2>1, PopFrame DEF Framed, TopFrame
  <2>3. TopFrame.finallyRet \in 0..MaxDepth /\ TopFrame.exception \in Exceptions \union {0}
    BY <2>2 DEF TryFrames
  <2>4. Pop(ctl) = Cut(ctl, Depth - 1) /\ Depth - 1 \in 0..Depth
    BY <1>1, <2>1 DEF Pop
  <2>5. \A i \in (Depth - 1) + 1..Depth : ~Handler(ctl[i])
    BY <1>1, <2>1 DEF Handler
  <2>6. CASE TopFrame.exception # 0 /\ handleThrow(TopFrame.exception, FALSE, Pop(ctl), Pop(tryStack))
    BY <1>1, <2>2, <2>3, <2>4, <2>5, <2>6, ThrowSkipsNone
  <2>7. CASE ctl' = LeaveFor(Pop(ctl), TopFrame.finallyRet)
    BY <2>1, <2>2, <2>3, <2>7, LeaveResumes
  <2> QED  BY <1>4, <2>6, <2>7 DEF leaveFinally
<1>5. CASE closeReturns
  <2>1. Depth > 0 /\ Top.phase = "close" /\ Top.kind = "native" /\ Top = ctl[Depth] /\ NestAt(ctl, Depth)
    BY <1>5, Here DEF closeReturns, InGo
  <2>2. Depth > 1 /\ ctl[Depth - 1].kind = "unwind"
    BY <1>1, <2>1 DEF NestAt
  <2>3. Len(ctl') = Depth - 1
    BY <1>1, <1>5, <2>1, PopFacts DEF closeReturns
  <2>4. \A i \in Depth - 1..Depth : i = Depth - 1 \/ i = Depth
    BY <1>1
  <2> QED  BY <2>1, <2>2, <2>3, <2>4 DEF Handler
<1>6. CASE catches \/ entersFinally
  <2>1. Unwinding
    BY <1>6 DEF catches, entersFinally, Restored
  <2>2. /\ Depth > 1 /\ Framed(ctl[Depth - 1]) /\ Sound(TRUE, Pop(ctl), tryStack, TopFrame.iterLen)
        /\ Len(Pop(ctl)) = Depth - 1 /\ Pop(ctl)[Depth - 1] = ctl[Depth - 1]
    <3>1. /\ Depth > 1 /\ Framed(ctl[Depth - 1]) /\ Sound(TRUE, Pop(ctl), tryStack, TopFrame.iterLen)
          /\ Len(Pop(ctl)) = Depth - 1 /\ \A i \in 1..Depth - 1 : Pop(ctl)[i] = ctl[i]
      BY <2>1, RestoredIs
    <3>2. Depth - 1 \in 1..Depth - 1
      BY <1>1, <3>1
    <3> QED  BY <3>1, <3>2
  <2>3. Pop(ctl) \in Seq(Regions)
    BY <2>2 DEF Sound, Typed
  <2>4. PICK p, x : \/ ctl' = [Pop(ctl) EXCEPT ![Depth - 1].phase = p, ![Depth - 1].exit = 0]
                    \/ ctl' = [Pop(ctl) EXCEPT ![Depth - 1].phase = p, ![Depth - 1].exit = 0, ![Depth - 1].pending = x]
    BY <1>6 DEF catches, entersFinally
  <2>5. Depth - 1 \in 1..Len(Pop(ctl))
    BY <1>1, <2>2
  <2>6. CASE ctl' = [Pop(ctl) EXCEPT ![Depth - 1].phase = p, ![Depth - 1].exit = 0]
    <3>1. Len(ctl') = Depth - 1 /\ ctl'[Depth - 1].kind = Pop(ctl)[Depth - 1].kind
      BY <2>2, <2>3, <2>5, <2>6
    <3> QED  BY <2>2, <3>1 DEF Resumes, Framed, GoKinds
  <2>7. CASE ctl' = [Pop(ctl) EXCEPT ![Depth - 1].phase = p, ![Depth - 1].exit = 0, ![Depth - 1].pending = x]
    <3>1. Len(ctl') = Depth - 1 /\ ctl'[Depth - 1].kind = Pop(ctl)[Depth - 1].kind
      BY <2>2, <2>3, <2>5, <2>7
    <3> QED  BY <2>2, <3>1 DEF Resumes, Framed, GoKinds
  <2> QED  BY <2>4, <2>6, <2>7
<1>7. CASE reachesGo
  <2> DEFINE go == ctl[Depth - 1]
  <2>1. Restored /\ Unwinding /\ TopFrame.catchPos = "marker"
    BY <1>7 DEF reachesGo, Restored
  <2>2. /\ Sound(TRUE, Cut(ctl, Depth - 2), Pop(tryStack), Len(Truncated)) /\ go.kind \in GoKinds
        /\ go.phase = "next" => Depth > 2 /\ ctl[Depth - 2].kind = "loop"
        /\ go.phase = "close" => Depth > 2 /\ ctl[Depth - 2].kind = "unwind"
    BY <2>1, GoLevelIs
  <2>3. Top.pending \in Exceptions /\ Truncated \in Seq({"iter", "none"}) /\ Depth > 1
    BY <2>1, RestoredIs
  <2>4. ~Handler(ctl[Depth]) /\ ~Handler(ctl[Depth - 1])
    BY <2>1, <2>2 DEF Handler, GoKinds, Unwinding, Top
  <2>5. Depth - 2 \in 0..Depth /\ \A i \in (Depth - 2) + 1..Depth : i = Depth - 1 \/ i = Depth
    BY <1>1, <2>3
  <2>6. \A i \in (Depth - 2) + 1..Depth : ~Handler(ctl[i])
    BY <2>4, <2>5
  <2>7. CASE ctl' = <<>>
    BY <2>7 DEF Resumes
  <2>8. CASE go.phase = "close" /\ ctl' = Cut(ctl, Depth - 2)
    <3>1. Len(ctl') = Depth - 2
      BY <1>1, <2>5, <2>8, CutFacts, ZenonT(60)
    <3>2. ~Handler(ctl[Depth - 2])
      BY <2>2, <2>8 DEF Handler
    <3>3. \A i \in Depth - 2..Depth : i = Depth - 2 \/ i \in (Depth - 2) + 1..Depth
      BY <1>1, <2>3
    <3> QED  BY <2>6, <3>1, <3>2, <3>3
  <2>9. CASE go.phase = "next" /\ handleThrow(Top.pending, FALSE, Cut(ctl, Depth - 3), Pop(tryStack))
    <3>1. Depth > 2 /\ ctl[Depth - 2].kind = "loop" /\ Depth - 2 \in 1..Depth - 2 /\ Depth - 2 \in 0..Len(ctl)
      BY <1>1, <2>2, <2>9
    <3>2. Len(Cut(ctl, Depth - 2)) = Depth - 2 /\ \A i \in 1..Depth - 2 : Cut(ctl, Depth - 2)[i] = ctl[i]
      BY <1>1, <3>1, CutFacts
    <3>3. Sound(TRUE, Pop(Cut(ctl, Depth - 2)), Pop(tryStack), Len(Pop(Truncated)))
      <4>1. Len(Cut(ctl, Depth - 2)) > 0 /\ Cut(ctl, Depth - 2)[Len(Cut(ctl, Depth - 2))].kind = "loop"
        BY <3>1, <3>2
      <4>2. TRUE \in BOOLEAN
        OBVIOUS
      <4> QED  BY <2>2, <2>3, <4>1, <4>2, LeavesLoop
    <3>4. Pop(Cut(ctl, Depth - 2)) = Cut(ctl, Depth - 3)
      <4>1. (Depth - 2) - 1 = Depth - 3 /\ Depth - 3 \in 0..Depth - 2
        BY <1>1, <3>1
      <4> QED  BY <1>1, <3>1, <3>2, <4>1, CutOfCut DEF Pop
    <3>5. Depth - 3 \in 0..Depth /\ \A i \in (Depth - 3) + 1..Depth : i = Depth - 2 \/ i \in (Depth - 2) + 1..Depth
      BY <1>1, <3>1
    <3>6. \A i \in (Depth - 3) + 1..Depth : ~Handler(ctl[i])
      BY <2>6, <3>1, <3>5 DEF Handler
    <3> QED  BY <1>1, <2>3, <2>9, <3>3, <3>4, <3>5, <3>6, ThrowSkipsNone
  <2>10. CASE handleThrow(Top.pending, TRUE, Cut(ctl, Depth - 2), Pop(tryStack))
    BY <1>1, <2>2, <2>3, <2>5, <2>6, <2>10, ThrowSkipsNone
  <2> QED  BY <1>7, <2>7, <2>8, <2>9, <2>10 DEF reachesGo
<1> QED  BY <1>2, <1>3, <1>4, <1>5, <1>6, <1>7, StepResumes, NothingInterrupted DEF Next, VMStep, ScriptStep, GoStep

-----------------------------------------------------------------------------
(* The contexts of calls                                                   *)

\* The contexts that the call of region i has on callStack: none once handleThrow
\* has taken those of a function that Go code called, and how many there are of
\* the first i regions.
Ctx(c, i) ==
    IF c[i].kind \in {"run", "fn", "gofn"} THEN 1
    ELSE IF c[i].kind = "call" /\ ~(i < Len(c) /\ c[i + 1].kind = "unwind") THEN CallContexts(c[i - 1])
    ELSE 0
Calls(c, i) == Cardinality({j \in 1..i : Ctx(c, j) >= 1}) + Cardinality({j \in 1..i : Ctx(c, j) = 2})

\* A call has one context, two or none.
LEMMA CtxIs ==
    ASSUME NEW c, NEW i PROVE Ctx(c, i) \in {0, 1, 2}
BY DEF Ctx, CallContexts

\* A region more adds its contexts.
LEMMA CallsFacts ==
    ASSUME NEW c, NEW i \in Nat
    PROVE  /\ Calls(c, i) \in Nat /\ Calls(c, 0) = 0
           /\ Calls(c, i + 1) = Calls(c, i) + Ctx(c, i + 1)
           /\ \A k \in Nat : i <= k => Calls(c, i) <= Calls(c, k)
<1> DEFINE A == {j \in Nat : Ctx(c, j) >= 1}
           B == {j \in Nat : Ctx(c, j) = 2}
<1>1. \A k \in Nat : /\ {j \in 1..k : Ctx(c, j) >= 1} = {j \in 1..k : j \in A}
                     /\ {j \in 1..k : Ctx(c, j) = 2} = {j \in 1..k : j \in B}
  OBVIOUS
<1>2. i + 1 \in A <=> Ctx(c, i + 1) >= 1
  OBVIOUS
<1>3. i + 1 \in B <=> Ctx(c, i + 1) = 2
  OBVIOUS
<1> HIDE DEF A, B
<1>4. \A k \in Nat : Calls(c, k) = Count(A, k) + Count(B, k)
  BY <1>1 DEF Calls, Count
<1>5. i + 1 \in Nat /\ Count(A, i) \in Nat /\ Count(B, i) \in Nat
  BY CountFacts
<1>6. Calls(c, 0) = 0
  <2>1. {j \in 1..0 : Ctx(c, j) >= 1} = {} /\ {j \in 1..0 : Ctx(c, j) = 2} = {}
    OBVIOUS
  <2> QED  BY <2>1, FS_EmptySet DEF Calls
<1>7. Calls(c, i + 1) = Calls(c, i) + Ctx(c, i + 1)
  <2>1. /\ Count(A, i + 1) = Count(A, i) + (IF Ctx(c, i + 1) >= 1 THEN 1 ELSE 0)
        /\ Count(B, i + 1) = Count(B, i) + (IF Ctx(c, i + 1) = 2 THEN 1 ELSE 0)
    BY <1>2, <1>3, CountFacts
  <2> QED  BY <1>4, <1>5, <2>1, CtxIs
<1>8. \A k \in Nat : i <= k => Calls(c, i) <= Calls(c, k)
  <2> SUFFICES ASSUME NEW k \in Nat, i <= k PROVE Calls(c, i) <= Calls(c, k)
    OBVIOUS
  <2>1. /\ Count(A, i) <= Count(A, k) /\ Count(B, i) <= Count(B, k)
        /\ Count(A, k) \in Nat /\ Count(B, k) \in Nat
    BY CountGrows, CountFacts
  <2> QED  BY <1>4, <1>5, <2>1
<1> QED  BY <1>4, <1>5, <1>6, <1>7, <1>8

\* The number depends on the contexts of the regions only.
LEMMA CallsSame ==
    ASSUME NEW c, NEW d, NEW i \in Nat, \A j \in 1..i : Ctx(c, j) = Ctx(d, j)
    PROVE  Calls(c, i) = Calls(d, i)
<1>1. {j \in 1..i : Ctx(c, j) >= 1} = {j \in 1..i : Ctx(d, j) >= 1}
  OBVIOUS
<1>2. {j \in 1..i : Ctx(c, j) = 2} = {j \in 1..i : Ctx(d, j) = 2}
  OBVIOUS
<1> QED  BY <1>1, <1>2 DEF Calls

\* A nonempty set of numbers has a smallest one.
LEMMA Smallest ==
    ASSUME NEW S, S \subseteq Nat, S # {}
    PROVE  \E x \in S : \A y \in S : x <= y
<1> DEFINE R == OpToRel(<, Nat)
<1>1. \A a, b \in Nat : a < b => <<a, b>> \in R
  BY DEF OpToRel
<1>2. IsWellFoundedOn(R, Nat)
  BY NatLessThanWellFounded
<1> HIDE DEF R
<1>3. PICK a \in S : \A b \in S : ~(<<b, a>> \in R)
  BY <1>2, WFMin
<1>4. ASSUME NEW y \in S PROVE a <= y
  <2>1. a \in Nat /\ y \in Nat /\ ~(<<y, a>> \in R)
    BY <1>3
  <2>2. ~(y < a)
    BY <1>1, <2>1
  <2> QED  BY <2>1, <2>2
<1> QED  BY <1>4

\* CallsUpTo adds up the same contexts.
LEMMA CallsUpToIs ==
    ASSUME NEW i \in Nat PROVE CallsUpTo(i) = Calls(ctl, i)
<1> DEFINE F(g) == [j \in 0..i |-> IF j = 0 THEN 0 ELSE g[j - 1] + Contexts(j)]
           C    == CHOOSE g : g = F(g)
           w    == [j \in 0..i |-> Calls(ctl, j)]
<1>1. \A j \in Nat : Contexts(j) = Ctx(ctl, j)
  BY DEF Contexts, Ctx, Depth
<1>2. w = F(w)
  <2>1. ASSUME NEW j \in 0..i PROVE w[j] = IF j = 0 THEN 0 ELSE w[j - 1] + Contexts(j)
    <3>1. CASE j = 0
      BY <3>1, CallsFacts
    <3>2. CASE j # 0
      <4>1. j - 1 \in Nat /\ (j - 1) + 1 = j /\ j - 1 \in 0..i /\ j \in Nat
        BY <3>2
      <4>2. Calls(ctl, (j - 1) + 1) = Calls(ctl, j - 1) + Ctx(ctl, (j - 1) + 1)
        BY <4>1, CallsFacts
      <4>3. w[j] = Calls(ctl, j) /\ w[j - 1] = Calls(ctl, j - 1)
        BY <4>1
      <4> HIDE DEF w
      <4> QED  BY <1>1, <3>2, <4>1, <4>2, <4>3
    <3> QED  BY <3>1, <3>2
  <2>2. w = [j \in 0..i |-> w[j]]
    OBVIOUS
  <2> HIDE DEF w
  <2> QED  BY <2>1, <2>2
<1>3. C = F(C)
  <2> HIDE DEF w, F
  <2> QED  BY <1>2
<1>4. \A j \in 0..i : C[j] = Calls(ctl, j)
  <2> DEFINE S == {j \in 0..i : C[j] # Calls(ctl, j)}
  <2> SUFFICES ASSUME S # {} PROVE FALSE
    OBVIOUS
  <2>1. C = [j \in 0..i |-> IF j = 0 THEN 0 ELSE C[j - 1] + Contexts(j)]
    BY <1>3
  <2> HIDE DEF C
  <2>2. PICK j \in S : \A y \in S : j <= y
    <3>1. S \subseteq Nat
      OBVIOUS
    <3> HIDE DEF S
    <3> QED  BY <3>1, Smallest
  <2>3. j \in 0..i /\ C[j] = (IF j = 0 THEN 0 ELSE C[j - 1] + Contexts(j)) /\ C[j] # Calls(ctl, j)
    BY <2>1
  <2>4. CASE j = 0
    BY <2>3, <2>4, CallsFacts
  <2>5. CASE j # 0
    <3>1. j - 1 \in Nat /\ (j - 1) + 1 = j /\ j - 1 \in 0..i /\ j \in Nat /\ ~(j <= j - 1)
      BY <2>3, <2>5
    <3>2. C[j - 1] = Calls(ctl, j - 1)
      BY <2>2, <3>1
    <3>3. Calls(ctl, (j - 1) + 1) = Calls(ctl, j - 1) + Ctx(ctl, (j - 1) + 1)
      BY <3>1, CallsFacts
    <3> QED  BY <1>1, <2>3, <2>5, <3>1, <3>2, <3>3
  <2> QED  BY <2>4, <2>5
<1>5. CallsUpTo(i) = C[i]
  BY DEF CallsUpTo
<1> HIDE DEF C
<1> QED  BY <1>4, <1>5

\* k contexts are on callStack.  A frame remembers those of the calls around its
\* region, that of the program's own with the program's one; a Go function has no
\* loop of its own.
Called(c, ts, k) ==
    /\ k = Calls(c, Len(c))
    /\ \A i \in 1..Len(c) : Framed(c[i]) =>
           ts[Rank(c, i)].callStackLen = IF c[i].kind = "run" THEN 1 ELSE Calls(c, i - 1)
    /\ \A i \in 2..Len(c) : c[i].kind = "loop" => c[i - 1].kind # "gofn"

\* The kinds of the regions are the same in both nests, up to the n-th.
Alike(c, d, n) ==
    /\ c \in Seq(Regions) /\ d \in Seq(Regions) /\ n \in 0..Len(c) /\ n \in 0..Len(d)
    /\ \A j \in 1..n : d[j].kind = c[j].kind
    /\ n > 0 => c[1].kind = "run"

\* Then the same contexts are under the n-th.
LEMMA CallsUnder ==
    ASSUME NEW c, NEW d, NEW n, Alike(c, d, n), NEW i \in 0..n, i < n
    PROVE  Calls(d, i) = Calls(c, i)
<1>1. i \in Nat /\ n \in Nat /\ Len(c) \in Nat /\ Len(d) \in Nat
  BY DEF Alike
<1>2. ASSUME NEW j \in 1..i PROVE Ctx(d, j) = Ctx(c, j)
  <2>1. j \in 1..n /\ j + 1 \in 1..n /\ j < Len(c) /\ j < Len(d) /\ d[j].kind = c[j].kind /\ d[j + 1].kind = c[j + 1].kind
    BY <1>1 DEF Alike
  <2>2. CASE j = 1
    BY <2>1, <2>2 DEF Alike, Ctx
  <2>3. CASE j # 1
    <3>1. j - 1 \in 1..n
      BY <1>1, <2>3
    <3>2. d[j - 1].kind = c[j - 1].kind
      BY <3>1 DEF Alike
    <3> QED  BY <2>1, <3>2 DEF Ctx, CallContexts
  <2> QED  BY <2>2, <2>3
<1> QED  BY <1>1, <1>2, CallsSame

\* And up to it, unless it is the call that handleThrow has gone to in only one.
LEMMA CallsAlike ==
    ASSUME NEW c, NEW d, NEW n, Alike(c, d, n), n > 0,
           c[n].kind = "call" => ~(n < Len(c) /\ c[n + 1].kind = "unwind") /\ ~(n < Len(d) /\ d[n + 1].kind = "unwind")
    PROVE  Calls(d, n) = Calls(c, n)
<1>1. n - 1 \in 0..n /\ n - 1 < n /\ n - 1 \in Nat /\ (n - 1) + 1 = n
  BY DEF Alike
<1>2. Calls(d, n - 1) = Calls(c, n - 1)
  BY <1>1, CallsUnder
<1>3. Ctx(d, n) = Ctx(c, n)
  <2>1. n \in 1..n /\ d[n].kind = c[n].kind /\ n \in Nat
    BY DEF Alike
  <2>2. CASE n = 1
    BY <2>1, <2>2 DEF Alike, Ctx
  <2>3. CASE n # 1
    <3>1. n - 1 \in 1..n
      BY <2>1, <2>3
    <3>2. d[n - 1].kind = c[n - 1].kind
      BY <3>1 DEF Alike
    <3> QED  BY <2>1, <3>2 DEF Ctx, CallContexts
  <2> QED  BY <2>2, <2>3
<1>4. /\ Calls(c, (n - 1) + 1) = Calls(c, n - 1) + Ctx(c, (n - 1) + 1)
      /\ Calls(d, (n - 1) + 1) = Calls(d, n - 1) + Ctx(d, (n - 1) + 1)
  BY <1>1, CallsFacts
<1> QED  BY <1>1, <1>2, <1>3, <1>4

\* Regions that have no contexts do not count.
LEMMA CallsDrop ==
    ASSUME NEW c, NEW n \in Nat, NEW p \in 0..n, \A j \in (p + 1)..n : Ctx(c, j) = 0
    PROVE  Calls(c, n) = Calls(c, p)
<1>1. {j \in 1..n : Ctx(c, j) >= 1} = {j \in 1..p : Ctx(c, j) >= 1}
  OBVIOUS
<1>2. {j \in 1..n : Ctx(c, j) = 2} = {j \in 1..p : Ctx(c, j) = 2}
  OBVIOUS
<1> QED  BY <1>1, <1>2 DEF Calls

\* What is left of the stacks after regions were left remembers what it did.
LEMMA CalledTrim ==
    ASSUME NEW c, NEW ts, NEW k, Called(c, ts, k), NEW d, Alike(c, d, Len(d)),
           NEW us, \A n \in 1..Rank(d, Len(d)) : us[n].callStackLen = ts[n].callStackLen
    PROVE  Called(d, us, Calls(d, Len(d)))
<1>1. c \in Seq(Regions) /\ d \in Seq(Regions) /\ Len(c) \in Nat /\ Len(d) \in Nat /\ Len(d) <= Len(c)
  BY DEF Alike
<1>2. ASSUME NEW i \in 1..Len(d), Framed(d[i])
      PROVE  us[Rank(d, i)].callStackLen = IF d[i].kind = "run" THEN 1 ELSE Calls(d, i - 1)
  <2>1. i \in 1..Len(c) /\ i \in Nat /\ d[i].kind = c[i].kind /\ Framed(c[i])
    BY <1>1, <1>2 DEF Alike, Framed
  <2>2. \A j \in 1..i : c[j].kind = d[j].kind
    BY <1>1, <1>2 DEF Alike
  <2>3. Rank(c, i) = Rank(d, i)
    BY <2>1, <2>2, RankSame
  <2>4. Rank(d, i) \in 1..Rank(d, Len(d))
    BY <1>1, <1>2, RankInRange
  <2>5. i - 1 \in 0..Len(d) /\ i - 1 < Len(d)
    BY <1>1
  <2>6. Calls(d, i - 1) = Calls(c, i - 1)
    BY <2>5, CallsUnder
  <2>7. ts[Rank(c, i)].callStackLen = IF c[i].kind = "run" THEN 1 ELSE Calls(c, i - 1)
    BY <2>1 DEF Called
  <2> QED  BY <2>1, <2>3, <2>4, <2>6, <2>7
<1>3. ASSUME NEW i \in 2..Len(d), d[i].kind = "loop" PROVE d[i - 1].kind # "gofn"
  <2>1. i \in 2..Len(c) /\ i \in 1..Len(d) /\ i - 1 \in 1..Len(d)
    BY <1>1
  <2>2. c[i].kind = "loop" /\ d[i - 1].kind = c[i - 1].kind
    BY <1>3, <2>1 DEF Alike
  <2> QED  BY <2>1, <2>2 DEF Called
<1> QED  BY <1>2, <1>3 DEF Called

\* Regions without contexts are left.
LEMMA CalledDrop ==
    ASSUME NEW c, NEW ts, NEW k, Called(c, ts, k), NEW d, Alike(c, d, Len(d)), Len(d) > 0,
           NEW us, \A n \in 1..Rank(d, Len(d)) : us[n].callStackLen = ts[n].callStackLen,
           Len(d) < Len(c) /\ c[Len(d)].kind = "call" => c[Len(d) + 1].kind # "unwind",
           \A j \in (Len(d) + 1)..Len(c) : Ctx(c, j) = 0
    PROVE  Called(d, us, k)
<1>1. Called(d, us, Calls(d, Len(d)))
  BY CalledTrim
<1>2. Len(d) \in Nat /\ Len(c) \in Nat /\ Len(d) \in 0..Len(c) /\ ~(Len(d) < Len(d))
  BY DEF Alike
<1>3. Calls(d, Len(d)) = Calls(c, Len(d))
  BY <1>2, CallsAlike
<1>4. Calls(c, Len(c)) = Calls(c, Len(d))
  BY <1>2, CallsDrop
<1> QED  BY <1>1, <1>3, <1>4 DEF Called

\* A region is pushed, with its contexts, and with its frame if it has one.
LEMMA CalledPush ==
    ASSUME NEW c, NEW ts, NEW k, Called(c, ts, k), NEW d, Alike(c, d, Len(c)), Len(d) = Len(c) + 1,
           d[Len(d)].kind # "unwind", d[1].kind = "run",
           NEW us, \A n \in 1..Rank(c, Len(c)) : us[n].callStackLen = ts[n].callStackLen,
           Framed(d[Len(d)]) => us[Rank(c, Len(c)) + 1].callStackLen = IF d[Len(d)].kind = "run" THEN 1 ELSE k,
           Len(c) > 0 /\ d[Len(d)].kind = "loop" => c[Len(c)].kind # "gofn",
           NEW k2, k2 = k + Ctx(d, Len(d))
    PROVE  Called(d, us, k2)
<1>1. c \in Seq(Regions) /\ d \in Seq(Regions) /\ Len(c) \in Nat /\ Len(d) \in Nat
  BY DEF Alike
<1>2. Calls(d, Len(c)) = Calls(c, Len(c))
  <2>1. CASE Len(c) = 0
    BY <2>1, CallsFacts
  <2>2. CASE Len(c) > 0
    BY <1>1, <2>2, CallsAlike
  <2> QED  BY <1>1, <2>1, <2>2
<1>3. k2 = Calls(d, Len(d))
  <2>1. Calls(d, Len(c) + 1) = Calls(d, Len(c)) + Ctx(d, Len(c) + 1)
    BY <1>1, CallsFacts
  <2> QED  BY <1>2, <2>1 DEF Called
<1>4. ASSUME NEW i \in 0..Len(c) PROVE Rank(d, i) = Rank(c, i)
  <2>1. i \in Nat /\ \A j \in 1..i : d[j].kind = c[j].kind
    BY <1>1 DEF Alike
  <2> QED  BY <2>1, RankSame
<1>5. ASSUME NEW i \in 1..Len(d), Framed(d[i])
      PROVE  us[Rank(d, i)].callStackLen = IF d[i].kind = "run" THEN 1 ELSE Calls(d, i - 1)
  <2>1. CASE i \in 1..Len(c)
    <3>1. i \in 0..Len(c) /\ d[i].kind = c[i].kind /\ Framed(c[i])
      BY <1>1, <1>5, <2>1 DEF Alike, Framed
    <3>2. Rank(c, i) \in 1..Rank(c, Len(c)) /\ Rank(d, i) = Rank(c, i)
      BY <1>1, <1>4, <2>1, <3>1, RankInRange
    <3>3. i - 1 \in 0..Len(c) /\ i - 1 < Len(c)
      BY <1>1, <2>1
    <3>4. Calls(d, i - 1) = Calls(c, i - 1)
      BY <3>3, CallsUnder
    <3>5. ts[Rank(c, i)].callStackLen = IF c[i].kind = "run" THEN 1 ELSE Calls(c, i - 1)
      BY <2>1, <3>1 DEF Called
    <3> QED  BY <3>1, <3>2, <3>4, <3>5
  <2>2. CASE i = Len(d)
    <3>1. Rank(d, Len(c) + 1) = Rank(d, Len(c)) + 1 /\ Rank(d, Len(c)) = Rank(c, Len(c))
      <4>1. Len(c) \in 0..Len(c) /\ Framed(d[Len(c) + 1])
        BY <1>1, <1>5, <2>2
      <4>2. Rank(d, Len(c) + 1) = Rank(d, Len(c)) + (IF Framed(d[Len(c) + 1]) THEN 1 ELSE 0)
        BY <1>1, RankFacts
      <4> QED  BY <1>4, <4>1, <4>2
    <3>2. i - 1 = Len(c) /\ k = Calls(d, Len(c))
      BY <1>1, <1>2, <2>2 DEF Called
    <3> QED  BY <1>5, <2>2, <3>1, <3>2
  <2> QED  BY <1>1, <2>1, <2>2
<1>6. ASSUME NEW i \in 2..Len(d), d[i].kind = "loop" PROVE d[i - 1].kind # "gofn"
  <2>1. i - 1 \in 1..Len(c) /\ d[i - 1].kind = c[i - 1].kind
    <3>1. i - 1 \in 1..Len(c)
      BY <1>1
    <3> QED  BY <3>1 DEF Alike
  <2>2. CASE i \in 2..Len(c)
    <3>1. d[i].kind = c[i].kind
      BY <1>1, <2>2 DEF Alike
    <3> QED  BY <1>6, <2>1, <2>2, <3>1 DEF Called
  <2>3. CASE i = Len(d)
    BY <1>1, <1>6, <2>1, <2>3
  <2> QED  BY <1>1, <2>2, <2>3
<1> QED  BY <1>3, <1>5, <1>6 DEF Called

\* handleThrow takes the contexts of the calls that it leaves.
LEMMA CalledThrow ==
    ASSUME NEW w \in BOOLEAN, NEW c, NEW ts, NEW m, Sound(w, c, ts, m), Called(c, ts, callStack),
           NEW ex \in Exceptions, NEW dd \in BOOLEAN, handleThrow(ex, dd, c, ts)
    PROVE  Called(ctl', tryStack', callStack') /\ Len(tryStack') <= Len(ts)
<1>1. /\ c \in Seq(Regions) /\ ts \in Seq(TryFrames) /\ Len(c) \in Nat /\ Len(ts) \in Nat
      /\ Nest(c) /\ Matched(w, c, ts)
  BY DEF Sound, Typed
<1>2. PICK n \in 1..Len(ts) :
          /\ Handles(ts[n], ex) /\ \A p \in (n + 1)..Len(ts) : ~Handles(ts[p], ex)
          /\ tryStack' = Cut(ts, n)
          /\ callStack' = IF ts[n].callStackLen < callStack THEN ts[n].callStackLen ELSE callStack
          /\ ctl' = Append(Cut(c, IF ts[n].catchPos = "marker" THEN GoLevel(c) ELSE ts[n].at), Unwind(ex, dd))
  BY DEF handleThrow
<1> DEFINE k == IF ts[n].catchPos = "marker" THEN GoLevel(c) ELSE ts[n].at
           e == Cut(c, k)
           d == Append(e, Unwind(ex, dd))
           us == Cut(ts, n)
<1>3. k \in 1..Len(c) /\ Framed(c[k]) /\ Rank(c, k) = n
  <2>1. \A p \in (n + 1)..Len(ts) : ts[p].catchPos # "marker"
    BY <1>2 DEF Handles
  <2> QED  BY <2>1, HandlerIs
<1>4. ctl' = d /\ tryStack' = us
  BY <1>2
<1> HIDE DEF k
<1>5. k \in Nat /\ k \in 0..Len(c) /\ k - 1 \in Nat /\ (k - 1) + 1 = k /\ k > 0
  BY <1>1, <1>3
<1>6. Unwind(ex, dd) \in Regions /\ ~Framed(Unwind(ex, dd)) /\ Unwind(ex, dd).kind = "unwind"
  BY UnwindIs
<1>7. /\ e \in Seq(Regions) /\ Len(e) = k /\ \A i \in 1..k : e[i] = c[i]
      /\ \A i \in 0..k : Rank(e, i) = Rank(c, i)
  BY <1>1, <1>5, CutNest
<1>8. Len(us) = n /\ \A i \in 1..n : us[i] = ts[i]
  <2>1. n \in 0..Len(ts)
    OBVIOUS
  <2> QED  BY <1>1, <2>1, CutFacts
<1> HIDE DEF e, us
<1>9. /\ d \in Seq(Regions) /\ Len(d) = k + 1 /\ d[k + 1].kind = "unwind"
      /\ \A i \in 1..k : d[i] = c[i]
      /\ \A i \in 0..k : Rank(d, i) = Rank(c, i)
  BY <1>6, <1>7, AppendFacts
<1> HIDE DEF d
<1>10. c[1].kind = "run" /\ Alike(c, d, k)
  <2>1. 1 \in 1..Len(c) /\ NestAt(c, 1)
    BY <1>1, <1>3 DEF Nest
  <2>2. c[1].kind = "run"
    BY <2>1 DEF NestAt
  <2> QED  BY <1>1, <1>5, <1>9, <2>2 DEF Alike
<1>11. \A i \in 0..k : i < k => Calls(d, i) = Calls(c, i)
  BY <1>10, CallsUnder
<1>12. /\ Calls(d, (k - 1) + 1) = Calls(d, k - 1) + Ctx(d, (k - 1) + 1)
       /\ Calls(d, k + 1) = Calls(d, k) + Ctx(d, k + 1)
       /\ Calls(c, (k - 1) + 1) = Calls(c, k - 1) + Ctx(c, (k - 1) + 1)
       /\ Calls(c, k - 1) \in Nat /\ Calls(c, k) \in Nat /\ Calls(c, Len(c)) \in Nat
       /\ Calls(c, k) <= Calls(c, Len(c)) /\ Calls(c, k - 1) <= Calls(c, Len(c))
       /\ Calls(c, 0) = 0
  <2>1. k - 1 <= Len(c) /\ k <= Len(c)
    BY <1>1, <1>3
  <2>2. /\ Calls(d, (k - 1) + 1) = Calls(d, k - 1) + Ctx(d, (k - 1) + 1)
        /\ Calls(d, k + 1) = Calls(d, k) + Ctx(d, k + 1)
        /\ Calls(c, (k - 1) + 1) = Calls(c, k - 1) + Ctx(c, (k - 1) + 1)
    BY <1>5, CallsFacts
  <2>3. /\ Calls(c, k - 1) \in Nat /\ Calls(c, k) \in Nat /\ Calls(c, Len(c)) \in Nat
        /\ Calls(c, k) <= Calls(c, Len(c)) /\ Calls(c, k - 1) <= Calls(c, Len(c))
        /\ Calls(c, 0) = 0
    BY <1>1, <1>5, <2>1, CallsFacts
  <2> QED  BY <2>2, <2>3
<1>13. d[k].kind = c[k].kind /\ k \in 1..k
  BY <1>5, <1>9
<1>14. Ctx(d, k + 1) = 0
  BY <1>9 DEF Ctx
<1>15. Calls(d, Len(d)) = Calls(c, k - 1) + (IF c[k].kind = "run" THEN 1 ELSE 0)
  <2>1. Calls(d, k - 1) = Calls(c, k - 1)
    BY <1>5, <1>11
  <2>2. Ctx(d, k) = IF c[k].kind = "run" THEN 1 ELSE 0
    <3>1. k < Len(d)
      BY <1>5, <1>9
    <3> QED  BY <1>3, <1>9, <1>13, <3>1 DEF Ctx, Framed, GoKinds
  <2> QED  BY <1>5, <1>9, <1>12, <1>14, <2>1, <2>2
<1>16. ts[n].callStackLen = (IF c[k].kind = "run" THEN 1 ELSE Calls(c, k - 1)) /\ callStack = Calls(c, Len(c))
  BY <1>3 DEF Called
<1>17. callStack' = Calls(d, Len(d))
  <2>1. CASE c[k].kind = "run"
    <3>1. k = 1
      <4>1. NestAt(c, k)
        BY <1>1, <1>3 DEF Nest
      <4> QED  BY <2>1, <4>1 DEF NestAt
    <3>2. Ctx(c, k) = 1
      BY <2>1 DEF Ctx
    <3> QED  BY <1>2, <1>5, <1>12, <1>15, <1>16, <2>1, <3>1, <3>2
  <2>2. CASE c[k].kind # "run"
    BY <1>2, <1>12, <1>15, <1>16, <2>2
  <2> QED  BY <2>1, <2>2
<1>18. ASSUME NEW i \in 1..Len(d), Framed(d[i])
       PROVE  us[Rank(d, i)].callStackLen = IF d[i].kind = "run" THEN 1 ELSE Calls(d, i - 1)
  <2>1. i \in 1..k
    <3>1. i # k + 1
      BY <1>9, <1>18 DEF Framed, GoKinds
    <3> QED  BY <1>5, <1>9, <3>1
  <2>2. i \in 0..k /\ i - 1 \in 0..k /\ i - 1 < k /\ i \in 1..Len(c) /\ d[i] = c[i] /\ i \in Nat /\ i <= k
    BY <1>5, <1>9, <2>1
  <2>3. Rank(d, i) = Rank(c, i) /\ Rank(c, i) \in 1..n
    <3>1. Rank(c, i) \in 1..Rank(c, Len(c)) /\ Rank(c, i) <= Rank(c, k)
      BY <1>1, <1>5, <1>18, <2>2, RankInRange, RankFacts
    <3> QED  BY <1>3, <1>9, <2>2, <3>1
  <2>4. ts[Rank(c, i)].callStackLen = IF c[i].kind = "run" THEN 1 ELSE Calls(c, i - 1)
    BY <1>18, <2>2 DEF Called
  <2> QED  BY <1>8, <1>11, <2>2, <2>3, <2>4
<1>19. ASSUME NEW i \in 2..Len(d), d[i].kind = "loop" PROVE d[i - 1].kind # "gofn"
  <2>1. i # k + 1
    BY <1>9, <1>19
  <2>2. i \in 2..Len(c) /\ i \in 1..k /\ i - 1 \in 1..k
    BY <1>5, <1>9, <2>1
  <2> QED  BY <1>9, <1>19, <2>2 DEF Called
<1>20. Called(d, us, callStack')
  BY <1>17, <1>18, <1>19 DEF Called
<1> QED  BY <1>1, <1>4, <1>8, <1>20

\* The regions of d are among those of c, and the frames of us among those of ts.
Under(c, d) == Len(d) <= Len(c) /\ \A j \in 1..Len(d) : d[j].kind = c[j].kind
SameCalls(ts, us) == Len(us) <= Len(ts) /\ \A n \in 1..Len(us) : us[n].callStackLen = ts[n].callStackLen

\* Regions without contexts are left, with their frames.
LEMMA CalledLeaves ==
    ASSUME NEW w \in BOOLEAN, NEW c, NEW ts, NEW m, Sound(w, c, ts, m), NEW k, Called(c, ts, k),
           NEW d, NEW us, NEW m2, Sound(w, d, us, m2), Under(c, d), SameCalls(ts, us), Len(d) > 0,
           Len(d) < Len(c) => c[Len(d) + 1].kind # "unwind" \/ c[Len(d)].kind # "call",
           \A j \in (Len(d) + 1)..Len(c) : Ctx(c, j) = 0
    PROVE  Called(d, us, k)
<1>1. /\ c \in Seq(Regions) /\ d \in Seq(Regions) /\ Len(c) \in Nat /\ Len(d) \in Nat
      /\ Nest(c) /\ Len(us) = Rank(d, Len(d))
  BY DEF Sound, Typed, Matched
<1>2. c[1].kind = "run"
  <2>1. 1 \in 1..Len(c) /\ NestAt(c, 1)
    BY <1>1 DEF Under, Nest
  <2> QED  BY <2>1 DEF NestAt
<1>3. Alike(c, d, Len(d))
  BY <1>1, <1>2 DEF Alike, Under
<1>4. \A n \in 1..Rank(d, Len(d)) : us[n].callStackLen = ts[n].callStackLen
  BY <1>1 DEF SameCalls
<1> QED  BY <1>3, <1>4, CalledDrop

\* The region at the top changes, or it is left and has no contexts.
LEMMA CalledTop ==
    ASSUME NEW w \in BOOLEAN, NEW c, NEW ts, NEW m, Sound(w, c, ts, m), NEW k, Called(c, ts, k),
           NEW d, NEW us, NEW m2, Sound(w, d, us, m2), Under(c, d), SameCalls(ts, us), Len(d) > 0,
           \/ Len(d) = Len(c)
           \/ Len(d) = Len(c) - 1 /\ c[Len(c)].kind \in {"native", "try", "loop"}
           \/ Len(d) = Len(c) - 1 /\ c[Len(c)].kind = "unwind" /\ c[Len(c) - 1].kind = "try"
    PROVE  Called(d, us, k)
<1>1. Len(c) \in Nat /\ Len(d) \in Nat
  BY DEF Sound, Typed
<1>2. Len(d) < Len(c) => c[Len(d) + 1].kind # "unwind" \/ c[Len(d)].kind # "call"
  BY <1>1
<1>3. \A j \in (Len(d) + 1)..Len(c) : Ctx(c, j) = 0
  BY <1>1 DEF Ctx
<1> QED  BY <1>2, <1>3, CalledLeaves

\* pushTryFrame, and the contexts of the call if the region is one.
LEMMA CalledPushes ==
    ASSUME NEW w \in BOOLEAN, NEW c, NEW m, Sound(w, c, tryStack, m), NEW k, Called(c, tryStack, k),
           NEW r \in Regions, Framed(r), r.kind = "run" <=> Len(c) = 0,
           NEW cp, NEW fp, NEW calls, NEW iters, pushTryFrame(c, r, cp, fp, calls, iters),
           calls = IF r.kind = "run" THEN 1 ELSE k,
           NEW k2, k2 = k + (IF r.kind = "run" THEN 1 ELSE IF r.kind = "call" THEN CallContexts(c[Len(c)]) ELSE 0)
    PROVE  Called(ctl', tryStack', k2)
<1> DEFINE full == Len(tryStack) = cap
           e    == Moved(c, full)
           d    == Append(e, r)
           tf   == tryFrame(cp, fp, Len(c) + 1, calls, iters)
           us   == Append(tryStack, tf)
<1>1. c \in Seq(Regions) /\ Len(c) \in Nat /\ tryStack \in Seq(TryFrames) /\ Len(tryStack) = Rank(c, Len(c)) /\ Nest(c)
  BY DEF Sound, Typed, Matched
<1>2. ctl' = d /\ tryStack' = us
  BY DEF pushTryFrame, Moved
<1>3. full \in BOOLEAN
  OBVIOUS
<1> HIDE DEF full
<1>4. Sound(w, e, tryStack, m) /\ Len(e) = Len(c) /\ \A i \in 1..Len(c) : e[i].kind = c[i].kind
  BY <1>3, Moves
<1>5. e \in Seq(Regions)
  BY <1>4 DEF Sound, Typed
<1> HIDE DEF e
<1>6. d \in Seq(Regions) /\ Len(d) = Len(c) + 1 /\ d[Len(d)] = r /\ \A i \in 1..Len(c) : d[i].kind = c[i].kind
  BY <1>4, <1>5
<1>7. tf.callStackLen = calls
  BY DEF tryFrame
<1> HIDE DEF tf
<1>8. /\ us[Rank(c, Len(c)) + 1] = tf /\ \A n \in 1..Rank(c, Len(c)) : us[n] = tryStack[n]
  BY <1>1
<1> HIDE DEF d, us
<1>9. d[1].kind = "run" /\ (Len(c) > 0 => c[1].kind = "run")
  <2>1. CASE Len(c) = 0
    BY <1>6, <2>1
  <2>2. CASE Len(c) > 0
    <3>1. 1 \in 1..Len(c) /\ NestAt(c, 1)
      BY <1>1, <2>2 DEF Nest
    <3> QED  BY <1>6, <3>1 DEF NestAt
  <2> QED  BY <1>1, <2>1, <2>2
<1>10. Alike(c, d, Len(c))
  BY <1>1, <1>6, <1>9 DEF Alike
<1>11. Ctx(d, Len(d)) = IF r.kind = "run" THEN 1 ELSE IF r.kind = "call" THEN CallContexts(c[Len(c)]) ELSE 0
  <2>1. ~(Len(d) < Len(d)) /\ Len(d) - 1 = Len(c) /\ (Len(c) > 0 => d[Len(c)].kind = c[Len(c)].kind)
    BY <1>1, <1>6
  <2>2. r.kind \in GoKinds \union {"try"}
    BY DEF Framed
  <2>3. Len(c) > 0 => CallContexts(d[Len(c)]) = CallContexts(c[Len(c)])
    BY <2>1 DEF CallContexts
  <2>4. r.kind # "run" => Len(c) > 0
    BY <1>1
  <2> QED  BY <1>6, <2>1, <2>2, <2>3, <2>4 DEF Ctx, GoKinds
<1>12. r.kind # "unwind" /\ r.kind # "loop"
  BY DEF Framed, GoKinds
<1>13. Called(d, us, k2)
  BY <1>1, <1>6, <1>7, <1>8, <1>9, <1>10, <1>11, <1>12, CalledPush
<1> QED  BY <1>2, <1>13

\* callStack has the contexts of the code that runs.
CallsNow == Called(ctl, tryStack, callStack)

\* What a pop leaves of both stacks.
LEMMA PopUnder ==
    ASSUME NEW c \in Seq(Regions), Len(c) > 0 PROVE Under(c, Pop(c)) /\ Len(Pop(c)) = Len(c) - 1
<1>1. Len(Pop(c)) = Len(c) - 1 /\ \A i \in 1..Len(c) - 1 : Pop(c)[i] = c[i]
  BY PopFacts
<1> QED  BY <1>1 DEF Under

\* What a pop of the frames leaves remembers what it did.
LEMMA PopCalls ==
    ASSUME NEW ts \in Seq(TryFrames), Len(ts) > 0 PROVE SameCalls(ts, Pop(ts)) /\ Len(Pop(ts)) = Len(ts) - 1
<1>1. Len(Pop(ts)) = Len(ts) - 1 /\ \A i \in 1..Len(ts) - 1 : Pop(ts)[i] = ts[i]
  BY PopFacts
<1> QED  BY <1>1 DEF SameCalls

\* So do the frames when the last is written to.
LEMMA SetCalls ==
    ASSUME NEW ts \in Seq(TryFrames), Len(ts) > 0, NEW tf, tf.callStackLen = ts[Len(ts)].callStackLen
    PROVE  SameCalls(ts, [ts EXCEPT ![Len(ts)] = tf]) /\ Len([ts EXCEPT ![Len(ts)] = tf]) = Len(ts)
BY DEF SameCalls

\* And when none is.
LEMMA KeepCalls ==
    ASSUME NEW ts \in Seq(TryFrames) PROVE SameCalls(ts, ts)
BY DEF SameCalls

\* The program has one context, which its frame counts.
LEMMA RunProgramCalls ==
    ASSUME NEW w \in BOOLEAN, IndInv(w), CallsNow, RunProgram PROVE CallsNow'
<1> DEFINE r == Region("run", "body")
<1>1. r \in Regions /\ r.kind = "run"
  BY RegionIs
<1>2. Len(ctl) = 0 /\ callStack = 0
  BY CallsFacts DEF RunProgram, CallsNow, Called
<1>3. callStack' = callStack + 1 /\ pushTryFrame(ctl, r, "marker", "off", callStack + 1, Len(iterStack))
  BY DEF RunProgram, pushMarker
<1> HIDE DEF r
<1>4. Framed(r)
  BY <1>1 DEF Framed, GoKinds
<1>5. Called(ctl', tryStack', callStack + 1)
  BY <1>1, <1>2, <1>3, <1>4, Here, CalledPushes DEF CallsNow
<1> QED  BY <1>3, <1>5 DEF CallsNow

\* A call adds a context.
LEMMA CallCalls ==
    ASSUME NEW w \in BOOLEAN, IndInv(w), CallsNow, NEW kind \in {"fn", "gofn"}, Call(kind) PROVE CallsNow'
<1> DEFINE r == Region(kind, "body")
           d == Append(ctl, r)
<1>1. r \in Regions /\ r.kind = kind
  BY RegionIs
<1>2. Depth > 0 /\ ctl' = d /\ UNCHANGED tryStack /\ callStack' = callStack + 1
  BY DEF Call, JS, Running, InJS
<1> HIDE DEF r
<1>3. Len(ctl) > 0 /\ Len(ctl) \in Nat /\ 1 \in 1..Len(ctl) /\ ctl[1].kind = "run"
  <2>1. Len(ctl) > 0 /\ Len(ctl) \in Nat /\ 1 \in 1..Len(ctl) /\ Nest(ctl)
    BY <1>2, Here
  <2> QED  BY <2>1 DEF Nest, NestAt
<1>4. /\ d \in Seq(Regions) /\ Len(d) = Len(ctl) + 1 /\ d[Len(d)] = r
      /\ \A i \in 1..Len(ctl) : d[i] = ctl[i]
  BY <1>1, Here, AppendFacts
<1> HIDE DEF d
<1>5. Alike(ctl, d, Len(ctl)) /\ d[1].kind = "run"
  BY <1>3, <1>4, Here DEF Alike
<1>6. Ctx(d, Len(d)) = 1 /\ ~Framed(r) /\ r.kind # "unwind" /\ r.kind # "loop"
  BY <1>1, <1>4 DEF Ctx, Framed, GoKinds
<1>7. Called(d, tryStack, callStack + 1)
  BY <1>4, <1>5, <1>6, CalledPush DEF CallsNow
<1> QED  BY <1>2, <1>7 DEF CallsNow

\* A call from Go code adds one or two, above those its frame remembers.
LEMMA GoCallCalls ==
    ASSUME NEW w \in BOOLEAN, IndInv(w), CallsNow, __call PROVE CallsNow'
<1> DEFINE r == Region("call", "body")
<1>1. r \in Regions /\ r.kind = "call"
  BY RegionIs
<1>2. Len(ctl) # 0 /\ Top = ctl[Len(ctl)]
  BY Here DEF __call, InGo
<1>3. callStack' = callStack + CallContexts(Top) /\ pushTryFrame(ctl, r, "marker", "off", callStack, Len(iterStack))
  BY DEF __call, pushMarker
<1> HIDE DEF r
<1>4. Framed(r)
  BY <1>1 DEF Framed, GoKinds
<1>5. Called(ctl', tryStack', callStack + CallContexts(ctl[Len(ctl)]))
  BY <1>1, <1>2, <1>3, <1>4, Here, CalledPushes DEF CallsNow
<1> QED  BY <1>2, <1>3, <1>5 DEF CallsNow

\* A region with contexts is left.
LEMMA CalledReturn ==
    ASSUME NEW w \in BOOLEAN, NEW c, NEW ts, NEW m, Sound(w, c, ts, m), NEW k, Called(c, ts, k),
           Len(c) > 0, c[Len(c)].kind # "unwind", NEW us, NEW m2, Sound(w, Pop(c), us, m2), SameCalls(ts, us)
    PROVE  Called(Pop(c), us, k - Ctx(c, Len(c)))
<1> DEFINE d == Pop(c)
<1>1. /\ c \in Seq(Regions) /\ Len(c) \in Nat /\ Nest(c) /\ d \in Seq(Regions)
      /\ Len(us) = Rank(d, Len(d))
  BY DEF Sound, Typed, Matched
<1>2. Under(c, d) /\ Len(d) = Len(c) - 1
  BY <1>1, PopUnder
<1> HIDE DEF d
<1>3. c[1].kind = "run"
  <2>1. 1 \in 1..Len(c) /\ NestAt(c, 1)
    BY <1>1 DEF Nest
  <2> QED  BY <2>1 DEF NestAt
<1>4. Alike(c, d, Len(d))
  BY <1>1, <1>2, <1>3 DEF Alike, Under
<1>5. \A n \in 1..Rank(d, Len(d)) : us[n].callStackLen = ts[n].callStackLen
  BY <1>1 DEF SameCalls
<1>6. Called(d, us, Calls(d, Len(d)))
  BY <1>4, <1>5, CalledTrim
<1>7. Len(d) \in Nat /\ Len(d) + 1 = Len(c) /\ ~(Len(d) < Len(d))
  BY <1>1, <1>2
<1>8. Calls(d, Len(d)) = Calls(c, Len(d))
  <2>1. CASE Len(d) = 0
    BY <2>1, CallsFacts
  <2>2. CASE Len(d) > 0
    BY <1>4, <1>7, <2>2, CallsAlike
  <2> QED  BY <1>7, <2>1, <2>2
<1>9. Calls(c, Len(d) + 1) = Calls(c, Len(d)) + Ctx(c, Len(d) + 1) /\ Calls(c, Len(d)) \in Nat
  BY <1>7, CallsFacts
<1>10. Calls(d, Len(d)) = k - Ctx(c, Len(c))
  BY <1>7, <1>8, <1>9, CtxIs DEF Called
<1>11. Called(d, us, k - Ctx(c, Len(c)))
  BY <1>6, <1>10
<1> QED  BY <1>11 DEF d

\* A return takes the contexts of the call.
LEMMA RetCalls ==
    ASSUME NEW w \in BOOLEAN, IndInv(w), IndInv(w)', CallsNow, Ret \/ RetToGo PROVE CallsNow'
<1>1. /\ Len(ctl) > 0 /\ Top = ctl[Len(ctl)] /\ Depth = Len(ctl) /\ ctl' = Pop(ctl)
      /\ Top.kind \in {"run", "fn", "gofn", "call"}
  BY Here DEF Ret, RetToGo, JS, Running, InJS, InGo
<1>2. Sound(w, ctl', tryStack', Len(iterStack')) /\ Sound(w, Pop(ctl), tryStack', Len(iterStack'))
  BY <1>1 DEF IndInv
<1>3. SameCalls(tryStack, tryStack')
  <2>1. CASE Ret
    BY <2>1, Here, KeepCalls DEF Ret
  <2>2. CASE RetToGo
    <3>1. Len(tryStack) > 0
      BY <1>1, <2>2, Here, PopFrame DEF RetToGo, Framed, GoKinds
    <3> QED  BY <2>2, <3>1, Here, PopCalls DEF RetToGo
  <2> QED  BY <2>1, <2>2
<1>4. Called(Pop(ctl), tryStack', callStack - Ctx(ctl, Len(ctl)))
  BY <1>1, <1>2, <1>3, Here, CalledReturn DEF CallsNow
<1>5. callStack' = callStack - Ctx(ctl, Len(ctl))
  <2>1. ~(Len(ctl) < Len(ctl))
    BY Here
  <2>2. CASE Ret
    <3>1. Ctx(ctl, Len(ctl)) = 1
      BY <1>1, <2>2 DEF Ret, Ctx
    <3> QED  BY <2>2, <3>1 DEF Ret
  <2>3. CASE RetToGo
    <3>1. Ctx(ctl, Len(ctl)) = IF Top.kind = "run" THEN 1 ELSE CallContexts(ctl[Depth - 1])
      BY <1>1, <2>1, <2>3 DEF RetToGo, Ctx
    <3> QED  BY <2>3, <3>1 DEF RetToGo
  <2> QED  BY <2>2, <2>3
<1> QED  BY <1>1, <1>4, <1>5 DEF CallsNow

\* An exception takes those of the calls it leaves.
LEMMA ThrowCalls ==
    ASSUME NEW w \in BOOLEAN, IndInv(w), CallsNow, NEW ex \in Exceptions, Throw(ex) \/ Panic(ex) PROVE CallsNow'
<1>1. PICK dd \in BOOLEAN : handleThrow(ex, dd, ctl, tryStack)
  BY DEF Throw, Panic
<1> QED  BY <1>1, Here, CalledThrow DEF CallsNow

\* A try statement remembers the contexts around it.
LEMMA TryCalls ==
    ASSUME NEW w \in BOOLEAN, IndInv(w), CallsNow, NEW ct \in BOOLEAN, NEW f \in BOOLEAN, Try(ct, f) PROVE CallsNow'
<1> DEFINE r == TryRegion(ct, f)
<1>1. r \in Regions /\ r.kind = "try"
  <2>1. Region("try", "body") \in Regions
    BY TryStackAssumption DEF Region, Regions
  <2>2. r \in Regions
    BY <2>1 DEF TryRegion, Regions
  <2>3. r.kind = "try"
    BY DEF TryRegion, Region
  <2> QED  BY <2>2, <2>3
<1>2. /\ Len(ctl) # 0 /\ callStack' = callStack /\ callStack \in Int
      /\ pushTryFrame(ctl, r, Pos(ct), Pos(f), callStack, Len(iterStack))
  BY Here DEF Try, JS, Running, InJS
<1> HIDE DEF r
<1>3. Framed(r)
  BY <1>1 DEF Framed
<1>4. Called(ctl', tryStack', callStack + 0)
  BY <1>1, <1>2, <1>3, Here, CalledPushes DEF CallsNow
<1> QED  BY <1>2, <1>4 DEF CallsNow

\* So does a call of next() or return() under vm.try.
LEMMA NativeCalls ==
    ASSUME NEW w \in BOOLEAN, IndInv(w), CallsNow, iterNext \/ CloseIterator PROVE CallsNow'
<1>1. PICK p \in {"next", "close"} : pushMarker(ctl, Region("native", p), callStack, Len(iterStack))
  BY DEF iterNext, CloseIterator
<1> DEFINE r == Region("native", p)
<1>2. r \in Regions /\ r.kind = "native"
  BY RegionIs
<1>3. /\ Len(ctl) # 0 /\ callStack' = callStack /\ callStack \in Int
      /\ pushTryFrame(ctl, r, "marker", "off", callStack, Len(iterStack))
  BY <1>1, Here DEF iterNext, AtHead, CloseIterator, Unwinding, pushMarker
<1> HIDE DEF r
<1>4. Framed(r)
  BY <1>2 DEF Framed, GoKinds
<1>5. Called(ctl', tryStack', callStack + 0)
  BY <1>2, <1>3, <1>4, Here, CalledPushes DEF CallsNow
<1> QED  BY <1>3, <1>5 DEF CallsNow

\* A region that changes but for its kind.
LEMMA SetUnder ==
    ASSUME NEW c \in Seq(Regions), NEW n \in 1..Len(c), NEW r, r.kind = c[n].kind
    PROVE  Under(c, [c EXCEPT ![n] = r]) /\ Len([c EXCEPT ![n] = r]) = Len(c)
BY DEF Under

\* The region at the top goes on to another block or leaves for another region.
LEMMA TopUnder ==
    ASSUME NEW c \in Seq(Regions), Len(c) > 0, NEW p, NEW x, NEW d,
           \/ d = [c EXCEPT ![Len(c)].phase = p]
           \/ d = [c EXCEPT ![Len(c)].exit = x]
    PROVE  Under(c, d) /\ Len(d) = Len(c)
<1> DEFINE q == c[Len(c)]
<1>1. q \in Regions /\ Len(c) \in 1..Len(c)
  OBVIOUS
<1>2. PICK r : r.kind = q.kind /\ d = [c EXCEPT ![Len(c)] = r]
  <2>1. CASE d = [c EXCEPT ![Len(c)].phase = p]
    <3>1. [q EXCEPT !.phase = p].kind = q.kind
      BY <1>1 DEF Regions
    <3>2. d = [c EXCEPT ![Len(c)] = [q EXCEPT !.phase = p]]
      BY <1>1, <2>1
    <3> QED  BY <3>1, <3>2
  <2>2. CASE d = [c EXCEPT ![Len(c)].exit = x]
    <3>1. [q EXCEPT !.exit = x].kind = q.kind
      BY <1>1 DEF Regions
    <3>2. d = [c EXCEPT ![Len(c)] = [q EXCEPT !.exit = x]]
      BY <1>1, <2>2
    <3> QED  BY <3>1, <3>2
  <2> QED  BY <2>1, <2>2
<1> QED  BY <1>1, <1>2, SetUnder

\* A region that leaves for another is the same.
LEMMA LeaveUnder ==
    ASSUME NEW c \in Seq(Regions), Len(c) > 0, NEW t
    PROVE  Under(c, LeaveFor(c, t)) /\ Len(LeaveFor(c, t)) = Len(c)
BY TopUnder DEF LeaveFor

\* An action that leaves callStack alone and no region with contexts.
LEMMA CallsKept ==
    ASSUME NEW w \in BOOLEAN, IndInv(w), IndInv(w)', CallsNow, UNCHANGED callStack,
           Under(ctl, ctl'), SameCalls(tryStack, tryStack'), Len(ctl') > 0,
           \/ Len(ctl') = Len(ctl)
           \/ Len(ctl') = Len(ctl) - 1 /\ ctl[Len(ctl)].kind \in {"native", "try", "loop"}
           \/ Len(ctl') = Len(ctl) - 1 /\ ctl[Len(ctl)].kind = "unwind" /\ ctl[Len(ctl) - 1].kind = "try"
    PROVE  CallsNow'
<1>1. Sound(w, ctl, tryStack, Len(iterStack)) /\ Sound(w, ctl', tryStack', Len(iterStack'))
  BY DEF IndInv
<1>2. Called(ctl', tryStack', callStack)
  BY <1>1, CalledTop DEF CallsNow
<1> QED  BY <1>2 DEF CallsNow

\* The program's region is the first, and no statement or loop.
LEMMA PopsUnder ==
    ASSUME NEW w \in BOOLEAN, IndInv(w), Len(ctl) > 0, ctl[Len(ctl)].kind # "run"
    PROVE  /\ Under(ctl, Pop(ctl)) /\ Len(Pop(ctl)) = Len(ctl) - 1 /\ Len(Pop(ctl)) > 0
           /\ Pop(ctl) \in Seq(Regions)
<1>1. ctl \in Seq(Regions) /\ Len(ctl) \in Nat /\ NestAt(ctl, Len(ctl))
  BY Here
<1>2. Len(ctl) # 1
  BY <1>1 DEF NestAt
<1>3. Under(ctl, Pop(ctl)) /\ Len(Pop(ctl)) = Len(ctl) - 1
  BY <1>1, PopUnder
<1> QED  BY <1>1, <1>2, <1>3, PopFacts

\* The same with an exit to go on with.
LEMMA LeavesUnder ==
    ASSUME NEW w \in BOOLEAN, IndInv(w), Len(ctl) > 0, ctl[Len(ctl)].kind # "run", NEW t
    PROVE  LET d == LeaveFor(Pop(ctl), t)
           IN  Under(ctl, d) /\ Len(d) = Len(ctl) - 1 /\ Len(d) > 0
<1>1. /\ Under(ctl, Pop(ctl)) /\ Len(Pop(ctl)) = Len(ctl) - 1 /\ Len(Pop(ctl)) > 0
      /\ Pop(ctl) \in Seq(Regions)
  BY PopsUnder
<1>2. Under(Pop(ctl), LeaveFor(Pop(ctl), t)) /\ Len(LeaveFor(Pop(ctl), t)) = Len(Pop(ctl))
  BY <1>1, LeaveUnder
<1> QED  BY <1>1, <1>2 DEF Under

\* The action enterFinally leaves the contexts as they are.
LEMMA enterFinallyCalls ==
    ASSUME NEW w \in BOOLEAN, IndInv(w), IndInv(w)', CallsNow, enterFinally PROVE CallsNow'
<1>1. Len(ctl) > 0 /\ ctl[Len(ctl)].kind = "try" /\ Depth = Len(ctl)
  BY Here DEF enterFinally, JS, Running, InJS
<1>2. Len(tryStack) > 0 /\ TopFrame \in TryFrames /\ TopFrame = tryStack[Len(tryStack)]
  BY <1>1, Here, PopFrame DEF Framed, TopFrame
<1>3. Disarmed(TopFrame).callStackLen = TopFrame.callStackLen
  BY <1>2 DEF Disarmed, TryFrames
<1>4. SameCalls(tryStack, tryStack')
  BY <1>2, <1>3, Here, SetCalls DEF enterFinally, SetFrame
<1>5. Under(ctl, ctl') /\ Len(ctl') = Len(ctl)
  BY <1>1, Here, TopUnder DEF enterFinally
<1> QED  BY <1>1, <1>4, <1>5, CallsKept DEF enterFinally

\* So does leaveTry.
LEMMA leaveTryCalls ==
    ASSUME NEW w \in BOOLEAN, IndInv(w), IndInv(w)', CallsNow, leaveTry PROVE CallsNow'
<1>1. Len(ctl) > 0 /\ ctl[Len(ctl)].kind = "try" /\ Depth = Len(ctl)
  BY Here DEF leaveTry, Running, InJS
<1>2. Len(tryStack) > 0 /\ TopFrame \in TryFrames /\ TopFrame = tryStack[Len(tryStack)]
  BY <1>1, Here, PopFrame DEF Framed, TopFrame
<1>3. CASE TopFrame.finallyPos = "armed"
  <2>1. /\ tryStack' = SetFrame([Disarmed(TopFrame) EXCEPT !.finallyRet = Top.exit])
        /\ ctl' = [ctl EXCEPT ![Depth].phase = "finally", ![Depth].exit = 0]
    BY <1>3 DEF leaveTry
  <2>2. [Disarmed(TopFrame) EXCEPT !.finallyRet = Top.exit].callStackLen = TopFrame.callStackLen
    BY <1>2 DEF Disarmed, TryFrames
  <2>3. SameCalls(tryStack, tryStack')
    BY <1>2, <2>1, <2>2, Here, SetCalls DEF SetFrame
  <2>4. Under(ctl, ctl') /\ Len(ctl') = Len(ctl)
    <3> DEFINE r == [ctl[Len(ctl)] EXCEPT !.phase = "finally", !.exit = 0]
    <3>1. ctl[Len(ctl)] \in Regions /\ Len(ctl) \in 1..Len(ctl) /\ ctl \in Seq(Regions)
      BY <1>1, Here
    <3>2. r.kind = ctl[Len(ctl)].kind
      BY <3>1 DEF Regions
    <3>3. ctl' = [ctl EXCEPT ![Len(ctl)] = r]
      BY <1>1, <2>1, <3>1
    <3> HIDE DEF r
    <3> QED  BY <3>1, <3>2, <3>3, SetUnder
  <2> QED  BY <1>1, <2>3, <2>4, CallsKept DEF leaveTry
<1>4. CASE TopFrame.finallyPos # "armed"
  <2>1. tryStack' = Pop(tryStack) /\ ctl' = LeaveFor(Pop(ctl), Top.exit)
    BY <1>4 DEF leaveTry
  <2>2. Under(ctl, ctl') /\ Len(ctl') = Len(ctl) - 1 /\ Len(ctl') > 0
    BY <1>1, <2>1, LeavesUnder
  <2>3. SameCalls(tryStack, tryStack')
    BY <1>2, <2>1, Here, PopCalls
  <2> QED  BY <1>1, <2>2, <2>3, CallsKept DEF leaveTry
<1> QED  BY <1>3, <1>4

\* leaveFinally does, or throws again what its frame keeps.
LEMMA leaveFinallyCalls ==
    ASSUME NEW w \in BOOLEAN, IndInv(w), IndInv(w)', CallsNow, leaveFinally PROVE CallsNow'
<1>1. Len(ctl) > 0 /\ ctl[Len(ctl)].kind = "try" /\ Depth = Len(ctl)
  BY Here DEF leaveFinally, JS, Running, InJS
<1>2. /\ Len(tryStack) > 0 /\ TopFrame \in TryFrames /\ TopFrame = tryStack[Len(tryStack)]
      /\ Sound(w, Pop(ctl), Pop(tryStack), Len(iterStack))
  BY <1>1, Here, PopFrame DEF Framed, TopFrame
<1>3. SameCalls(tryStack, Pop(tryStack))
  BY <1>2, Here, PopCalls
<1>4. Under(ctl, Pop(ctl)) /\ Len(Pop(ctl)) = Len(ctl) - 1 /\ Len(Pop(ctl)) > 0
  BY <1>1, PopsUnder
<1>5. Called(Pop(ctl), Pop(tryStack), callStack)
  BY <1>1, <1>2, <1>3, <1>4, Here, CalledTop DEF CallsNow
<1>6. TopFrame.exception \in Exceptions \union {0}
  BY <1>2 DEF TryFrames
<1>7. CASE TopFrame.exception # 0 /\ handleThrow(TopFrame.exception, FALSE, Pop(ctl), Pop(tryStack))
  BY <1>2, <1>5, <1>6, <1>7, CalledThrow DEF CallsNow
<1>8. CASE tryStack' = Pop(tryStack) /\ ctl' = LeaveFor(Pop(ctl), TopFrame.finallyRet) /\ UNCHANGED callStack
  <2>1. Under(ctl, ctl') /\ Len(ctl') = Len(ctl) - 1 /\ Len(ctl') > 0
    BY <1>1, <1>8, LeavesUnder
  <2> QED  BY <1>1, <1>3, <1>8, <2>1, CallsKept
<1> QED  BY <1>7, <1>8 DEF leaveFinally

\* A break, continue or return has the contexts it started with.
LEMMA ExitCalls ==
    ASSUME NEW w \in BOOLEAN, IndInv(w), IndInv(w)', CallsNow, NEW t \in 1..MaxDepth, Exit(t) PROVE CallsNow'
<1>1. Len(ctl) > 0 /\ Depth = Len(ctl)
  BY Here DEF Exit, JS, Running, InJS
<1>2. Under(ctl, ctl') /\ Len(ctl') = Len(ctl)
  BY <1>1, Here, TopUnder DEF Exit
<1>3. SameCalls(tryStack, tryStack')
  BY Here, KeepCalls DEF Exit
<1> QED  BY <1>1, <1>2, <1>3, CallsKept DEF Exit

\* A loop has no context of its own, and is not in a Go function.
LEMMA iterateCalls ==
    ASSUME NEW w \in BOOLEAN, IndInv(w), CallsNow, NEW item \in {"iter", "none"}, iterate(item) PROVE CallsNow'
<1> DEFINE r == Region("loop", "head")
           d == Append(ctl, r)
<1>1. r \in Regions /\ r.kind = "loop"
  BY RegionIs
<1>2. Depth > 0 /\ ctl' = d /\ UNCHANGED <<tryStack, callStack>> /\ Top.kind # "gofn"
  BY DEF iterate, JS, Running, InJS
<1> HIDE DEF r
<1>3. Len(ctl) > 0 /\ Len(ctl) \in Nat /\ 1 \in 1..Len(ctl) /\ ctl[1].kind = "run" /\ ctl[Len(ctl)].kind # "gofn"
  <2>1. Len(ctl) > 0 /\ Len(ctl) \in Nat /\ 1 \in 1..Len(ctl) /\ Nest(ctl) /\ ctl[Len(ctl)].kind # "gofn"
    BY <1>2, Here
  <2> QED  BY <2>1 DEF Nest, NestAt
<1>4. /\ d \in Seq(Regions) /\ Len(d) = Len(ctl) + 1 /\ d[Len(d)] = r
      /\ \A i \in 1..Len(ctl) : d[i] = ctl[i]
  BY <1>1, Here, AppendFacts
<1> HIDE DEF d
<1>5. Alike(ctl, d, Len(ctl)) /\ d[1].kind = "run"
  BY <1>3, <1>4, Here DEF Alike
<1>6. Ctx(d, Len(d)) = 0 /\ ~Framed(r) /\ r.kind # "unwind"
  BY <1>1, <1>4 DEF Ctx, Framed, GoKinds
<1>7. callStack = callStack + 0
  BY Here
<1>8. Called(d, tryStack, callStack)
  BY <1>3, <1>4, <1>5, <1>6, <1>7, CalledPush DEF CallsNow
<1> QED  BY <1>2, <1>8 DEF CallsNow

\* The action enumNext leaves the contexts as they are.
LEMMA enumNextCalls ==
    ASSUME NEW w \in BOOLEAN, IndInv(w), IndInv(w)', CallsNow, enumNext PROVE CallsNow'
<1>1. Len(ctl) > 0 /\ ctl[Len(ctl)].kind = "loop" /\ Depth = Len(ctl) /\ UNCHANGED <<tryStack, callStack>>
  BY Here DEF enumNext, AtHead
<1>2. SameCalls(tryStack, tryStack')
  BY <1>1, Here, KeepCalls
<1>3. CASE ctl' = [ctl EXCEPT ![Depth].phase = "body"]
  <2>1. Under(ctl, ctl') /\ Len(ctl') = Len(ctl)
    BY <1>1, <1>3, Here, TopUnder
  <2> QED  BY <1>1, <1>2, <2>1, CallsKept
<1>4. CASE ctl' = Pop(ctl)
  <2>1. Under(ctl, ctl') /\ Len(ctl') = Len(ctl) - 1 /\ Len(ctl') > 0
    BY <1>1, <1>4, PopsUnder
  <2> QED  BY <1>1, <1>2, <2>1, CallsKept
<1> QED  BY <1>3, <1>4 DEF enumNext

\* So does NextIteration.
LEMMA NextIterationCalls ==
    ASSUME NEW w \in BOOLEAN, IndInv(w), IndInv(w)', CallsNow, NextIteration PROVE CallsNow'
<1>1. Len(ctl) > 0 /\ Depth = Len(ctl) /\ UNCHANGED <<tryStack, callStack>>
  BY Here DEF NextIteration, JS, Running, InJS
<1>2. Under(ctl, ctl') /\ Len(ctl') = Len(ctl)
  BY <1>1, Here, TopUnder DEF NextIteration
<1>3. SameCalls(tryStack, tryStack')
  BY <1>1, Here, KeepCalls
<1> QED  BY <1>1, <1>2, <1>3, CallsKept

\* So does stepReturns.
LEMMA stepReturnsCalls ==
    ASSUME NEW w \in BOOLEAN, IndInv(w), IndInv(w)', CallsNow, stepReturns PROVE CallsNow'
<1>1. /\ Len(ctl) > 0 /\ ctl[Len(ctl)].kind = "native" /\ ctl[Len(ctl)].phase = "next" /\ Depth = Len(ctl)
      /\ NestAt(ctl, Len(ctl)) /\ tryStack' = Pop(tryStack) /\ UNCHANGED callStack
  BY Here DEF stepReturns, InGo
<1>2. Len(ctl) > 1 /\ ctl[Len(ctl) - 1].kind = "loop" /\ Len(ctl) \in Nat
  BY <1>1, Here DEF NestAt
<1>3. Len(tryStack) > 0 /\ Sound(w, Pop(ctl), Pop(tryStack), Len(iterStack))
  BY <1>1, Here, PopFrame DEF Framed, GoKinds
<1>4. SameCalls(tryStack, tryStack')
  BY <1>1, <1>3, Here, PopCalls
<1>5. /\ Under(ctl, Pop(ctl)) /\ Len(Pop(ctl)) = Len(ctl) - 1 /\ Len(Pop(ctl)) > 0 /\ Pop(ctl) \in Seq(Regions)
  BY <1>1, PopsUnder
<1>6. CASE ctl' = [Pop(ctl) EXCEPT ![Depth - 1].phase = "body"]
  <2>1. Under(Pop(ctl), ctl') /\ Len(ctl') = Len(Pop(ctl))
    BY <1>1, <1>5, <1>6, TopUnder
  <2>2. Under(ctl, ctl')
    BY <1>5, <2>1 DEF Under
  <2> QED  BY <1>1, <1>4, <1>5, <2>1, <2>2, CallsKept
<1>7. CASE ctl' = Pop(Pop(ctl))
  <2>1. Pop(ctl)[Len(Pop(ctl))].kind = "loop"
    BY <1>2, <1>5 DEF Under
  <2>2. Called(Pop(ctl), tryStack', callStack)
    BY <1>1, <1>3, <1>4, <1>5, Here, CalledTop DEF CallsNow
  <2>3. Under(Pop(ctl), ctl') /\ Len(ctl') = Len(Pop(ctl)) - 1
    BY <1>5, <1>7, PopUnder
  <2>4. Len(ctl') > 0
    <3>1. Pop(ctl)[1].kind = "run"
      <4>1. 1 \in 1..Len(ctl) /\ NestAt(ctl, 1)
        BY <1>2, Here DEF Nest
      <4> QED  BY <1>5, <4>1 DEF Under, NestAt
    <3>2. Len(Pop(ctl)) # 1
      BY <2>1, <3>1
    <3> QED  BY <1>2, <1>5, <2>3, <3>2
  <2>5. Sound(w, Pop(ctl), tryStack', Len(iterStack)) /\ Sound(w, ctl', tryStack', Len(iterStack'))
    BY <1>1, <1>3 DEF IndInv
  <2>6. SameCalls(tryStack', tryStack')
    BY <2>5 DEF SameCalls, Sound, Typed
  <2>7. Called(ctl', tryStack', callStack)
    BY <2>1, <2>2, <2>3, <2>4, <2>5, <2>6, CalledTop
  <2> QED  BY <1>1, <2>7 DEF CallsNow
<1> QED  BY <1>6, <1>7 DEF stepReturns

\* The return() method that a break calls has two contexts.
LEMMA enumPopCloseCalls ==
    ASSUME NEW w \in BOOLEAN, IndInv(w), IndInv(w)', CallsNow, enumPopClose PROVE CallsNow'
<1> DEFINE left == LeaveFor(Pop(ctl), Top.exit)
<1>1. Len(ctl) > 0 /\ ctl[Len(ctl)].kind = "loop" /\ Depth = Len(ctl)
  BY Here DEF enumPopClose, Running, InJS
<1>2. Under(ctl, left) /\ Len(left) = Len(ctl) - 1 /\ Len(left) > 0
  BY <1>1, LeavesUnder
<1>3. CASE ctl' = left /\ UNCHANGED <<tryStack, callStack>>
  <2>1. SameCalls(tryStack, tryStack')
    BY <1>3, Here, KeepCalls
  <2> QED  BY <1>1, <1>2, <1>3, <2>1, CallsKept
<1>4. CASE /\ pushMarker(left, Region("call", "body"), callStack, Len(iterStack) - 1)
           /\ callStack' = callStack + 2
  <2> DEFINE r == Region("call", "body")
  <2>1. r \in Regions /\ r.kind = "call"
    BY RegionIs
  <2>2. /\ Sound(w, Pop(ctl), tryStack, Len(Pop(iterStack)))
    BY <1>1, Here, LeavesLoop
  <2>3. Top.exit \in 0..MaxDepth
    <3>1. Top \in Regions
      BY <1>1, Here
    <3> QED  BY <3>1 DEF Regions
  <2>4. Sound(w, left, tryStack, Len(Pop(iterStack)))
    BY <2>2, <2>3, Leaves
  <2>5. pushTryFrame(left, r, "marker", "off", callStack, Len(iterStack) - 1)
    BY <1>4 DEF pushMarker
  <2> HIDE DEF left, r
  <2>6. SameCalls(tryStack, tryStack)
    BY Here, KeepCalls
  <2>7. Called(left, tryStack, callStack)
    BY <1>1, <1>2, <2>4, <2>6, Here, CalledTop DEF CallsNow
  <2>8. left[Len(left)].kind # "gofn"
    <3>1. Len(ctl) \in Nat
      BY Here
    <3>2. Len(ctl) \in 2..Len(ctl) /\ Len(left) \in 1..Len(left)
      BY <1>2, <3>1
    <3>3. ctl[Len(ctl) - 1].kind # "gofn"
      BY <1>1, <3>2 DEF CallsNow, Called
    <3> QED  BY <1>2, <3>2, <3>3 DEF Under
  <2>9. CallContexts(left[Len(left)]) = 2 /\ Framed(r) /\ Len(left) # 0
    BY <1>2, <2>1, <2>8, SMTT(30) DEF CallContexts, Framed, GoKinds
  <2>10. Called(ctl', tryStack', callStack + 2)
    BY <2>1, <2>4, <2>5, <2>7, <2>9, CalledPushes
  <2> QED  BY <1>4, <2>10 DEF CallsNow
<1> QED  BY <1>3, <1>4 DEF enumPopClose

\* The action closeReturns leaves the contexts as they are.
LEMMA closeReturnsCalls ==
    ASSUME NEW w \in BOOLEAN, IndInv(w), IndInv(w)', CallsNow, closeReturns PROVE CallsNow'
<1>1. /\ Len(ctl) > 0 /\ ctl[Len(ctl)].kind = "native" /\ ctl' = Pop(ctl)
      /\ tryStack' = Pop(tryStack) /\ UNCHANGED callStack
  BY Here DEF closeReturns, InGo
<1>2. Under(ctl, ctl') /\ Len(ctl') = Len(ctl) - 1 /\ Len(ctl') > 0
  BY <1>1, PopsUnder
<1>3. Len(tryStack) > 0
  BY <1>1, Here, PopFrame DEF Framed, GoKinds
<1>4. SameCalls(tryStack, tryStack')
  BY <1>1, <1>3, Here, PopCalls
<1> QED  BY <1>1, <1>2, <1>4, CallsKept

\* The block that handles an exception has the contexts of its statement.
LEMMA HandledCalls ==
    ASSUME NEW w \in BOOLEAN, IndInv(w), IndInv(w)', CallsNow, catches \/ entersFinally PROVE CallsNow'
<1> DEFINE q == ctl[Depth - 1]
<1>1. Unwinding /\ TopFrame.catchPos # "marker" /\ UNCHANGED callStack /\ Depth = Len(ctl)
  BY Here DEF catches, entersFinally, Restored
<1>2. /\ Depth > 1 /\ Len(tryStack) > 0 /\ TopFrame = tryStack[Len(tryStack)] /\ TopFrame \in TryFrames
      /\ FrameFor(w, q, TopFrame, Depth - 1)
      /\ Len(Pop(ctl)) = Depth - 1 /\ \A i \in 1..Depth - 1 : Pop(ctl)[i] = ctl[i]
      /\ Sound(w, Pop(ctl), tryStack, TopFrame.iterLen)
  BY <1>1, RestoredIs
<1>3. Pop(ctl) \in Seq(Regions) /\ Depth \in Nat /\ ctl[Len(ctl)].kind = "unwind" /\ ctl \in Seq(Regions)
  BY <1>1, <1>2, Here DEF Sound, Typed, Unwinding
<1>4. q.kind = "try"
  BY <1>1, <1>2 DEF FrameFor
<1>5. Depth - 1 \in 1..Len(Pop(ctl)) /\ Pop(ctl)[Depth - 1] = q /\ q \in Regions
  <2>1. Depth - 1 \in 1..Len(Pop(ctl)) /\ Depth - 1 \in 1..Depth - 1
    BY <1>2, <1>3
  <2> QED  BY <1>2, <1>3, <2>1
<1>6. PICK r : r.kind = q.kind /\ ctl' = [Pop(ctl) EXCEPT ![Depth - 1] = r]
  <2>1. CASE catches
    <3>1. [q EXCEPT !.phase = "catch", !.exit = 0].kind = q.kind
      BY <1>5 DEF Regions
    <3>2. ctl' = [Pop(ctl) EXCEPT ![Depth - 1].phase = "catch", ![Depth - 1].exit = 0]
      BY <2>1 DEF catches
    <3>3. ctl' = [Pop(ctl) EXCEPT ![Depth - 1] = [q EXCEPT !.phase = "catch", !.exit = 0]]
      BY <1>3, <1>5, <3>2
    <3> QED  BY <3>1, <3>3
  <2>2. CASE entersFinally
    <3>1. [q EXCEPT !.phase = "finally", !.exit = 0, !.pending = Top.pending].kind = q.kind
      BY <1>5 DEF Regions
    <3>2. ctl' = [Pop(ctl) EXCEPT ![Depth - 1].phase = "finally", ![Depth - 1].exit = 0, ![Depth - 1].pending = Top.pending]
      BY <2>2 DEF entersFinally
    <3>3. ctl' = [Pop(ctl) EXCEPT ![Depth - 1] = [q EXCEPT !.phase = "finally", !.exit = 0, !.pending = Top.pending]]
      BY <1>3, <1>5, <3>2
    <3> QED  BY <3>1, <3>3
  <2> QED  BY <2>1, <2>2
<1>7. Under(Pop(ctl), ctl') /\ Len(ctl') = Len(Pop(ctl))
  BY <1>3, <1>5, <1>6, SetUnder
<1>8. Under(ctl, ctl') /\ Len(ctl') = Len(ctl) - 1 /\ Len(ctl') > 0
  <2>1. Under(ctl, Pop(ctl))
    BY <1>1, <1>2, <1>3, PopUnder
  <2> QED  BY <1>1, <1>2, <1>3, <1>7, <2>1 DEF Under
<1>9. SameCalls(tryStack, tryStack')
  <2>1. /\ [TopFrame EXCEPT !.catchPos = "off"].callStackLen = TopFrame.callStackLen
        /\ [TopFrame EXCEPT !.exception = Top.pending, !.finallyPos = "off", !.finallyRet = 0].callStackLen = TopFrame.callStackLen
    BY <1>2 DEF TryFrames
  <2>2. CASE tryStack' = tryStack
    BY <2>2, Here, KeepCalls
  <2>3. CASE tryStack' = SetFrame([TopFrame EXCEPT !.catchPos = "off"])
    BY <1>2, <2>1, <2>3, Here, SetCalls DEF SetFrame
  <2>4. CASE tryStack' = SetFrame([TopFrame EXCEPT !.exception = Top.pending, !.finallyPos = "off", !.finallyRet = 0])
    BY <1>2, <2>1, <2>4, Here, SetCalls DEF SetFrame
  <2> QED  BY <2>2, <2>3, <2>4 DEF catches, entersFinally
<1> QED  BY <1>1, <1>3, <1>4, <1>8, <1>9, CallsKept

\* Go code that gets an exception has the contexts it called with, and what it throws on takes its own.
LEMMA reachesGoCalls ==
    ASSUME NEW w \in BOOLEAN, IndInv(w), IndInv(w)', CallsNow, reachesGo PROVE CallsNow'
<1> DEFINE go == ctl[Depth - 1]
           c  == Cut(ctl, Depth - 2)
<1>1. Restored /\ Unwinding /\ TopFrame.catchPos = "marker" /\ Depth = Len(ctl) /\ Depth \in Nat
  BY Here DEF reachesGo, Restored
<1>2. /\ Sound(w, c, Pop(tryStack), Len(Truncated)) /\ go.kind \in GoKinds
      /\ go.kind = "run" <=> Depth = 2
      /\ go.phase = "next" => Depth > 2 /\ ctl[Depth - 2].kind = "loop"
  BY <1>1, GoLevelIs
<1>3. /\ Top.pending \in Exceptions /\ Truncated \in Seq({"iter", "none"}) /\ Depth > 1 /\ Len(tryStack) > 0
      /\ NestAt(ctl, Depth - 1)
  BY <1>1, RestoredIs
<1>4. ctl[Depth].kind = "unwind" /\ Ctx(ctl, Depth) = 0
  BY <1>1 DEF Unwinding, Top, Ctx
<1>5. SameCalls(tryStack, Pop(tryStack))
  BY <1>3, Here, PopCalls
<1>6. CASE go.kind = "run" /\ ctl' = <<>> /\ callStack' = callStack - 1
  <2>1. Depth = 2 /\ ctl[1].kind = "run"
    BY <1>2, <1>6
  <2>2. /\ Calls(ctl, 0) = 0 /\ Calls(ctl, 0 + 1) = Calls(ctl, 0) + Ctx(ctl, 0 + 1)
        /\ Calls(ctl, 1 + 1) = Calls(ctl, 1) + Ctx(ctl, 1 + 1) /\ Calls(ctl', 0) = 0
    BY CallsFacts
  <2>3. callStack' = 0
    <3>1. Ctx(ctl, 1) = 1 /\ callStack = Calls(ctl, 2)
      BY <1>1, <2>1 DEF Ctx, CallsNow, Called
    <3> QED  BY <1>4, <1>6, <2>1, <2>2, <3>1
  <2>4. Len(ctl') = 0
    BY <1>6
  <2>5. Called(ctl', tryStack', callStack')
    BY <2>2, <2>3, <2>4 DEF Called
  <2> QED  BY <2>5 DEF CallsNow
<1>7. ASSUME go.kind # "run"
      PROVE  Called(c, Pop(tryStack), callStack) /\ Depth > 2 /\ Len(c) = Depth - 2 /\ \A i \in 1..Depth - 2 : c[i] = ctl[i]
  <2>1. Depth > 2 /\ Depth - 2 \in 0..Len(ctl)
    BY <1>1, <1>2, <1>3, <1>7
  <2>2. Len(c) = Depth - 2 /\ \A i \in 1..Depth - 2 : c[i] = ctl[i]
    BY <2>1, Here, CutFacts
  <2> HIDE DEF c
  <2>3. Under(ctl, c) /\ Len(c) > 0
    BY <1>1, <2>1, <2>2 DEF Under
  <2>4. Ctx(ctl, Depth - 1) = 0
    <3>1. (Depth - 1) + 1 = Depth /\ Depth - 1 < Len(ctl)
      BY <1>1
    <3> QED  BY <1>2, <1>4, <1>7, <3>1 DEF Ctx, GoKinds
  <2>5. \A j \in (Len(c) + 1)..Len(ctl) : Ctx(ctl, j) = 0
    BY <1>1, <1>4, <2>2, <2>4
  <2>6. Len(c) + 1 = Depth - 1 /\ ctl[Depth - 1].kind # "unwind"
    BY <1>1, <1>2, <2>2 DEF GoKinds
  <2>7. Called(c, Pop(tryStack), callStack)
    BY <1>2, <1>5, <2>3, <2>5, <2>6, Here, CalledLeaves DEF CallsNow
  <2> QED  BY <2>1, <2>2, <2>7
<1>8. CASE /\ go.phase = "close" /\ ctl' = c /\ tryStack' = Pop(tryStack) /\ UNCHANGED callStack
  <2>1. go.kind # "run"
    BY <1>3, <1>8 DEF NestAt
  <2> QED  BY <1>7, <1>8, <2>1 DEF CallsNow
<1>9. CASE go.phase = "next" /\ handleThrow(Top.pending, FALSE, Cut(ctl, Depth - 3), Pop(tryStack))
  <2>1. go.kind # "run"
    BY <1>3, <1>9 DEF NestAt
  <2>2. Called(c, Pop(tryStack), callStack) /\ Depth > 2 /\ Len(c) = Depth - 2 /\ \A i \in 1..Depth - 2 : c[i] = ctl[i]
    BY <1>7, <2>1
  <2>3. Len(c) > 0 /\ c[Len(c)].kind = "loop" /\ c \in Seq(Regions)
    <3>1. Depth - 2 \in 1..Depth - 2
      BY <1>1, <2>2
    <3> QED  BY <1>2, <1>9, <2>2, <3>1 DEF Sound, Typed
  <2>4. Sound(w, Pop(c), Pop(tryStack), Len(Pop(Truncated))) /\ Len(c) > 1
    BY <1>2, <1>3, <2>3, LeavesLoop
  <2>5. Pop(c) = Cut(ctl, Depth - 3)
    <3>1. (Depth - 2) - 1 = Depth - 3 /\ Depth - 3 \in 0..Depth - 2 /\ Depth - 2 \in 0..Len(ctl)
      BY <1>1, <2>2
    <3> QED  BY <2>2, <3>1, Here, CutOfCut DEF Pop
  <2> HIDE DEF c
  <2>6. Under(c, Pop(c)) /\ Len(Pop(c)) = Len(c) - 1 /\ Len(Pop(c)) > 0
    BY <1>1, <2>2, <2>3, <2>4, PopUnder
  <2>7. SameCalls(Pop(tryStack), Pop(tryStack))
    BY <1>2, KeepCalls DEF Sound, Typed
  <2>8. Called(Pop(c), Pop(tryStack), callStack)
    BY <1>2, <2>2, <2>3, <2>4, <2>6, <2>7, CalledTop
  <2>9. handleThrow(Top.pending, FALSE, Pop(c), Pop(tryStack))
    BY <1>9, <2>5
  <2> QED  BY <1>3, <2>4, <2>8, <2>9, CalledThrow DEF CallsNow
<1>10. CASE go.kind = "call" /\ handleThrow(Top.pending, TRUE, c, Pop(tryStack))
  <2>1. Called(c, Pop(tryStack), callStack)
    BY <1>7, <1>10
  <2> HIDE DEF c
  <2> QED  BY <1>2, <1>3, <1>10, <2>1, CalledThrow DEF CallsNow
<1> QED  BY <1>6, <1>8, <1>9, <1>10 DEF reachesGo

\* No call has been made when the host gets the runtime.
LEMMA InitCalls ==
    ASSUME Init PROVE CallsNow
<1>1. Len(ctl) = 0 /\ callStack = 0 /\ Calls(ctl, 0) = 0
  BY CallsFacts DEF Init
<1> QED  BY <1>1 DEF CallsNow, Called

\* Every step of an uninterrupted script keeps callStack in agreement with the nest.
LEMMA NextCalls ==
    ASSUME NEW w \in BOOLEAN, IndInv(w), IndInv(w)', CallsNow, ~interrupted, [Next]_vars PROVE CallsNow'
<1>1. CASE UNCHANGED vars
  BY <1>1 DEF CallsNow, vars
<1>2. CASE RunProgram
  BY <1>2, RunProgramCalls
<1>3. CASE Interrupt
  BY <1>3 DEF CallsNow, Interrupt
<1>4. CASE ScriptStep
  <2>1. CASE Call("fn") \/ Call("gofn") \/ Ret \/ RetToGo
    BY <2>1, CallCalls, RetCalls
  <2>2. CASE \E ex \in Exceptions : Throw(ex)
    BY <2>2, ThrowCalls
  <2>3. CASE \E c, f \in BOOLEAN : Try(c, f)
    BY <2>3, TryCalls
  <2>4. CASE enterFinally \/ leaveTry \/ leaveFinally
    BY <2>4, enterFinallyCalls, leaveTryCalls, leaveFinallyCalls
  <2>5. CASE \E t \in 1..MaxDepth : Exit(t)
    BY <2>5, ExitCalls
  <2>6. CASE \E item \in {"iter", "none"} : iterate(item)
    BY <2>6, iterateCalls
  <2>7. CASE iterNext \/ enumNext \/ NextIteration \/ enumPopClose
    BY <2>7, NativeCalls, enumNextCalls, NextIterationCalls, enumPopCloseCalls
  <2> QED  BY <1>4, <2>1, <2>2, <2>3, <2>4, <2>5, <2>6, <2>7 DEF ScriptStep
<1>5. CASE GoStep
  <2>1. CASE __call \/ stepReturns \/ closeReturns
    BY <2>1, GoCallCalls, stepReturnsCalls, closeReturnsCalls
  <2>2. CASE \E ex \in Exceptions : Panic(ex)
    BY <2>2, ThrowCalls
  <2>3. CASE CloseIterator \/ catches \/ entersFinally \/ reachesGo
    BY <2>3, NativeCalls, HandledCalls, reachesGoCalls
  <2>4. CASE StopScript \/ panicsAgain \/ Propagate
    BY <2>4, NothingInterrupted
  <2> QED  BY <1>5, <2>1, <2>2, <2>3, <2>4 DEF GoStep
<1> QED  BY <1>1, <1>2, <1>3, <1>4, <1>5 DEF Next, VMStep

\* vm.tryStack is within its array.
Room == cap \in Nat /\ Len(tryStack) <= cap /\ interrupts \in Nat /\ interrupted \in BOOLEAN

\* A push takes a larger array if it has to.
LEMMA PushRoom ==
    ASSUME NEW w \in BOOLEAN, IndInv(w), Room, NEW c, NEW r, NEW cp, NEW fp, NEW calls, NEW iters,
           pushTryFrame(c, r, cp, fp, calls, iters)
    PROVE  cap' \in Nat /\ Len(tryStack') <= cap'
<1>1. tryStack \in Seq(TryFrames) /\ Len(tryStack) \in Nat
  BY Here
<1>2. Len(tryStack') = Len(tryStack) + 1
  BY <1>1 DEF pushTryFrame
<1>3. cap' = IF Len(tryStack) = cap THEN (IF cap = 0 THEN 1 ELSE 2 * cap) ELSE cap
  BY DEF pushTryFrame
<1> QED  BY <1>1, <1>2, <1>3 DEF Room

\* Every other step leaves no more frames than there were.
LEMMA StaysShort ==
    ASSUME NEW w \in BOOLEAN, IndInv(w), Room, UNCHANGED cap,
           \/ UNCHANGED tryStack
           \/ tryStack' = Pop(tryStack)
           \/ \E tf : tryStack' = SetFrame(tf)
           \/ \E ex, dd, c : handleThrow(ex, dd, c, tryStack) \/ handleThrow(ex, dd, c, Pop(tryStack))
    PROVE  cap' \in Nat /\ Len(tryStack') <= cap'
<1>1. tryStack \in Seq(TryFrames) /\ Len(tryStack) \in Nat
  BY Here
<1>2. Pop(tryStack) \in Seq(TryFrames) /\ Len(Pop(tryStack)) <= Len(tryStack)
  <2>1. CASE Len(tryStack) > 0
    BY <1>1, <2>1, PopFacts
  <2>2. CASE Len(tryStack) = 0
    <3>1. Pop(tryStack) = <<>>
      BY <2>2, SubSeqEmpty DEF Pop, Cut
    <3> QED  BY <2>2, <3>1
  <2> QED  BY <1>1, <2>1, <2>2
<1>3. \A tf : Len(SetFrame(tf)) = Len(tryStack)
  BY <1>1 DEF SetFrame
<1>4. Len(tryStack') <= Len(tryStack) /\ Len(tryStack') \in Nat
  <2>1. CASE UNCHANGED tryStack
    BY <1>1, <2>1
  <2>2. CASE tryStack' = Pop(tryStack)
    BY <1>2, <2>2
  <2>3. CASE \E tf : tryStack' = SetFrame(tf)
    BY <1>1, <1>3, <2>3
  <2>4. CASE \E ex, dd, c : handleThrow(ex, dd, c, tryStack) \/ handleThrow(ex, dd, c, Pop(tryStack))
    <3>1. PICK ex, dd, c : handleThrow(ex, dd, c, tryStack) \/ handleThrow(ex, dd, c, Pop(tryStack))
      BY <2>4
    <3>2. PICK ts \in Seq(TryFrames) : handleThrow(ex, dd, c, ts) /\ Len(ts) <= Len(tryStack)
      BY <1>1, <1>2, <3>1
    <3>3. PICK n \in 1..Len(ts) : tryStack' = Cut(ts, n)
      BY <3>2 DEF handleThrow
    <3>4. n \in 0..Len(ts)
      BY <3>3
    <3>5. Len(Cut(ts, n)) = n
      BY <3>4, CutFacts
    <3> QED  BY <1>1, <3>2, <3>3, <3>4, <3>5
  <2> QED  BY <2>1, <2>2, <2>3, <2>4
<1> QED  BY <1>1, <1>4 DEF Room

\* vm.tryStack stays within its array.
LEMMA NextRoom ==
    ASSUME NEW w \in BOOLEAN, IndInv(w), Room, ~interrupted, [Next]_vars PROVE Room'
<1>1. CASE UNCHANGED vars
  BY <1>1 DEF Room, vars
<1>2. CASE Interrupt
  BY <1>2 DEF Room, Interrupt
<1>3. CASE \/ RunProgram \/ __call \/ iterNext \/ CloseIterator
           \/ \E c, f \in BOOLEAN : Try(c, f)
  <2>1. UNCHANGED <<interrupts, interrupted>>
    BY <1>3 DEF RunProgram, __call, iterNext, CloseIterator, Try
  <2>2. \E c, r, cp, fp, calls, iters : pushTryFrame(c, r, cp, fp, calls, iters)
    BY <1>3 DEF RunProgram, __call, iterNext, CloseIterator, Try, pushMarker
  <2>3. cap' \in Nat /\ Len(tryStack') <= cap'
    BY <2>2, PushRoom
  <2> QED  BY <2>1, <2>3 DEF Room
<1>4. CASE enumPopClose
  <2>1. UNCHANGED <<interrupts, interrupted>>
    BY <1>4 DEF enumPopClose
  <2>2. \/ UNCHANGED <<tryStack, cap>>
        \/ \E c, r, cp, fp, calls, iters : pushTryFrame(c, r, cp, fp, calls, iters)
    BY <1>4 DEF enumPopClose, pushMarker
  <2>3. cap' \in Nat /\ Len(tryStack') <= cap'
    BY <2>2, PushRoom, StaysShort
  <2> QED  BY <2>1, <2>3 DEF Room
<1>5. CASE \/ Call("fn") \/ Call("gofn") \/ Ret \/ RetToGo
           \/ \E ex \in Exceptions : Throw(ex) \/ Panic(ex)
           \/ \E t \in 1..MaxDepth : Exit(t)
           \/ \E item \in {"iter", "none"} : iterate(item)
           \/ enumNext \/ NextIteration \/ stepReturns \/ closeReturns
  <2>1. UNCHANGED <<cap, interrupts, interrupted>>
    BY <1>5 DEF Call, Ret, RetToGo, Throw, Panic, Exit, iterate, enumNext, NextIteration, stepReturns, closeReturns
  <2>2. \/ UNCHANGED tryStack
        \/ tryStack' = Pop(tryStack)
        \/ \E ex, dd, c : handleThrow(ex, dd, c, tryStack) \/ handleThrow(ex, dd, c, Pop(tryStack))
    BY <1>5 DEF Call, Ret, RetToGo, Throw, Panic, Exit, iterate, enumNext, NextIteration, stepReturns, closeReturns
  <2>3. cap' \in Nat /\ Len(tryStack') <= cap'
    BY <2>1, <2>2, StaysShort
  <2> QED  BY <2>1, <2>3 DEF Room
<1>6. CASE enterFinally \/ leaveTry \/ leaveFinally \/ catches \/ entersFinally \/ reachesGo
  <2>1. UNCHANGED <<cap, interrupts, interrupted>>
    BY <1>6 DEF enterFinally, leaveTry, leaveFinally, catches, entersFinally, reachesGo
  <2>2. \/ UNCHANGED tryStack
        \/ tryStack' = Pop(tryStack)
        \/ \E tf : tryStack' = SetFrame(tf)
        \/ \E ex, dd, c : handleThrow(ex, dd, c, tryStack) \/ handleThrow(ex, dd, c, Pop(tryStack))
    BY <1>6 DEF enterFinally, leaveTry, leaveFinally, catches, entersFinally, reachesGo
  <2>3. cap' \in Nat /\ Len(tryStack') <= cap'
    BY <2>1, <2>2, StaysShort
  <2> QED  BY <2>1, <2>3 DEF Room
<1>7. CASE StopScript \/ panicsAgain \/ Propagate
  BY <1>7, NothingInterrupted
<1> QED  BY <1>1, <1>2, <1>3, <1>4, <1>5, <1>6, <1>7 DEF Next, VMStep, ScriptStep, GoStep

\* The contexts on callStack are those of the calls on the way, and no frame
\* remembers a number of them that is not one.
LEMMA CallsAgree ==
    ASSUME NEW w \in BOOLEAN, IndInv(w), CallsNow
    PROVE  callStack = CallsUpTo(Depth) /\ callStack \in Nat /\ tryStack \in Seq(Frames)
<1>1. /\ Depth = Len(ctl) /\ Depth \in Nat /\ tryStack \in Seq(TryFrames) /\ Matched(w, ctl, tryStack)
  BY Here DEF Sound
<1>2. callStack = CallsUpTo(Depth) /\ callStack \in Nat
  BY <1>1, CallsUpToIs, CallsFacts DEF CallsNow, Called
<1>3. ASSUME NEW n \in 1..Len(tryStack) PROVE tryStack[n] \in Frames
  <2>1. PICK i \in 1..Len(ctl) : Framed(ctl[i]) /\ Rank(ctl, i) = n
    BY <1>1 DEF Matched
  <2>2. tryStack[n].callStackLen = IF ctl[i].kind = "run" THEN 1 ELSE Calls(ctl, i - 1)
    BY <2>1 DEF CallsNow, Called
  <2>3. i - 1 \in Nat
    BY <1>1
  <2>4. tryStack[n].callStackLen \in Nat
    BY <2>2, <2>3, CallsFacts
  <2>5. tryStack[n] \in TryFrames
    BY <1>1
  <2> QED  BY <2>4, <2>5 DEF TryFrames, Frames
<1>4. tryStack \in Seq(Frames)
  BY <1>1, <1>3
<1> QED  BY <1>2, <1>4

-----------------------------------------------------------------------------
(* The theorems                                                            *)

\* The invariant, with the contexts of calls and the room for frames.
Agreement(w) == IndInv(w) /\ CallsNow /\ Room

\* It holds when the host gets the runtime.
LEMMA InitAgrees ==
    ASSUME NEW w \in BOOLEAN, Init PROVE Agreement(w)
<1>1. Len(tryStack) = 0 /\ cap = InitCap /\ interrupts = 0
  BY DEF Init
<1>2. interrupted \in BOOLEAN
  BY DEF Init
<1>3. Room
  BY <1>1, <1>2, TryStackAssumption DEF Room
<1> QED  BY <1>3, InitSound, InitCalls DEF Agreement

\* Every step of an uninterrupted script preserves it.
LEMMA NextAgrees ==
    ASSUME NEW w \in BOOLEAN, Agreement(w), w => NoneStale, ~interrupted, [Next]_vars PROVE Agreement(w)'
<1>1. IndInv(w) /\ CallsNow /\ Room
  BY DEF Agreement
<1>2. IndInv(w)'
  BY <1>1, NextSound
<1>3. CallsNow' /\ Room'
  BY <1>1, <1>2, NextCalls, NextRoom
<1> QED  BY <1>2, <1>3 DEF Agreement

\* The three stacks are those of the code that runs.
LEMMA AllStacksAgree ==
    ASSUME NEW w \in BOOLEAN, Agreement(w) PROVE TypeOK /\ StacksMatchCode
<1>1. IndInv(w) /\ CallsNow /\ Room
  BY DEF Agreement
<1>2. callStack = CallsUpTo(Depth) /\ callStack \in Nat /\ tryStack \in Seq(Frames)
  BY <1>1, CallsAgree
<1>3. TypeOK
  BY <1>1, <1>2, Here DEF TypeOK, Room
<1>4. StacksMatchCode
  BY <1>1, <1>2, StacksAgree DEF StacksMatchCode
<1> QED  BY <1>3, <1>4

\* vm.tryStack, vm.iterStack and vm.callStack agree with the code that runs,
\* whatever an uninterrupted script throws, catches, breaks out of or returns
\* from, and whatever its iterators do: there is a frame for every try statement
\* and every Go level, in their order, an item for every loop and every iterator
\* that restoreStacks has still to close, and the contexts of exactly the calls
\* that have not returned.
THEOREM StacksAlwaysMatch == Spec /\ []~interrupted => [](TypeOK /\ StacksMatchCode)
<1>1. Init => Agreement(FALSE)
  BY InitAgrees
<1>2. Agreement(FALSE) /\ ~interrupted /\ [Next]_vars => Agreement(FALSE)'
  BY NextAgrees
<1>3. Agreement(FALSE) => TypeOK /\ StacksMatchCode
  BY AllStacksAgree
<1> QED  BY <1>1, <1>2, <1>3, PTL DEF Spec

\* The stacks agree with the code that runs and every frame has the handlers of
\* the block that runs, as long as handleThrow writes them where vm.tryStack is.
THEOREM AlwaysConsistent == Spec /\ []~interrupted /\ []NoneStale => []Consistent
<1>1. Init => Agreement(TRUE)
  BY InitAgrees
<1>2. Agreement(TRUE) /\ NoneStale /\ ~interrupted /\ [Next]_vars => Agreement(TRUE)'
  BY NextAgrees
<1>3. Agreement(TRUE) => Consistent
  <2> SUFFICES ASSUME Agreement(TRUE) PROVE Consistent
    OBVIOUS
  <2>1. TypeOK /\ StacksMatchCode
    BY AllStacksAgree
  <2>2. IndInv(TRUE)
    BY DEF Agreement
  <2> QED  BY <2>1, <2>2, FramesAgree DEF Consistent
<1> QED  BY <1>1, <1>2, <1>3, PTL DEF Spec

\* Every frame offers the handlers of the block that runs and keeps the exception
\* that leaveFinally is to throw again, as long as handleThrow writes them where
\* vm.tryStack is.
THEOREM FramesAlwaysKept ==
    Spec /\ []~interrupted /\ []NoneStale => [](HandlersMatchBlock /\ PendingKept)
<1>1. Init => IndInv(TRUE)
  BY InitSound
<1>2. IndInv(TRUE) /\ NoneStale /\ ~interrupted /\ [Next]_vars => IndInv(TRUE)'
  BY NextSound
<1>3. IndInv(TRUE) => HandlersMatchBlock /\ PendingKept
  BY FramesAgree
<1> QED  BY <1>1, <1>2, <1>3, PTL DEF Spec

\* Under the same conditions an exception goes to the innermost try statement
\* that can handle it, through all the Go code on the way.
THEOREM NoHandlerEverSkipped == Spec /\ []~interrupted /\ []NoneStale => NoHandlerSkipped
<1> DEFINE A == Len(ctl') > 0 /\ Len(ctl') <= Depth /\ ctl'[Len(ctl')].kind = "unwind" =>
                    \A i \in Len(ctl')..Depth : ~Handler(ctl[i])
<1>1. Init => IndInv(TRUE)
  BY InitSound
<1>2. IndInv(TRUE) /\ NoneStale /\ ~interrupted /\ [Next]_vars => IndInv(TRUE)'
  BY NextSound
<1>3. IndInv(TRUE) /\ ~interrupted /\ [Next]_vars => [A]_vars
  <2> SUFFICES ASSUME IndInv(TRUE), ~interrupted, Next, Len(ctl') > 0, ctl'[Len(ctl')].kind = "unwind"
               PROVE  \A i \in Len(ctl')..Depth : ~Handler(ctl[i])
    OBVIOUS
  <2>1. ~Resumes
    BY DEF Resumes
  <2> QED  BY <2>1, StepSkipsNone
<1>4. [][A]_vars <=> NoHandlerSkipped
  BY DEF NoHandlerSkipped
<1> HIDE DEF A
<1> QED  BY <1>1, <1>2, <1>3, <1>4, PTL DEF Spec

\* restoreStacks leaves no iterator open that an exception of an uninterrupted
\* script takes control out of.
THEOREM UnwindingAlwaysCloses == Spec /\ []~interrupted => UnwindingClosesAll
<1> DEFINE A == Unwinding => \A i \in (Len(iterStack') + 1)..Len(iterStack) :
                    \/ iterStack[i] = "none"
                    \/ ctl[Depth - 1].phase = "next" /\ i = Len(iterStack') + 1
<1>1. Init => IndInv(FALSE)
  BY InitSound
<1>2. IndInv(FALSE) /\ ~interrupted /\ [Next]_vars => IndInv(FALSE)'
  BY NextSound
<1>3. IndInv(FALSE) /\ ~interrupted /\ [Next]_vars => [A]_vars
  BY StepClosesAll
<1>4. [][A]_vars <=> UnwindingClosesAll
  BY DEF UnwindingClosesAll
<1> HIDE DEF A
<1> QED  BY <1>1, <1>2, <1>3, <1>4, PTL DEF Spec
=============================================================================
