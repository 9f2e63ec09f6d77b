-------------------------- MODULE OrderedMapProofs --------------------------
(***************************************************************************)
(* Proofs about orderedMap (map.go) for every set of keys, every hash      *)
(* function and every number of iterators and entries.                     *)
(***************************************************************************)
EXTENDS OrderedMap, FiniteSetTheorems, SequenceTheorems, WellFoundedInduction, TLAPS

\* The bounds of allocation numbers and of pointers.
LEMMA EntryBounds ==
    /\ \A e \in Entry : e \in Nat /\ e # 0 /\ e \in Ptr
    /\ \A p \in Ptr : p \in Nat /\ (p # 0 => p \in Entry)
    /\ 0 \in Ptr
BY OrderedMapAssumption DEF Entry, Ptr

\* A nonempty set of naturals has a least element.
LEMMA LeastElement ==
    ASSUME NEW S \in SUBSET Nat, S # {}
    PROVE  \E n \in S : \A m \in S : n <= m
<1>1. PICK n \in S : \A m \in S : ~(<<m, n>> \in OpToRel(<, Nat))
  BY NatLessThanWellFounded, WFMin
<1>2. ASSUME NEW m \in S PROVE n <= m
  <2>1. ~(<<m, n>> \in OpToRel(<, Nat))
    BY <1>1
  <2>2. ~(m < n)
    BY <2>1 DEF OpToRel
  <2> QED
    BY <2>2
<1> QED
  BY <1>2

\* -0 becomes +0, any other key stays: the result is a key and not -0.
LEMMA CanonIsKey ==
    ASSUME NEW k \in Keys
    PROVE  Canon(k) \in Keys \ {NegZero} /\ Canon(k) # NoKey
BY OrderedMapAssumption DEF Canon

\* lookup stops at the first place of the chain that holds the key.
LEMMA FoundAtFinds ==
    ASSUME TypeOK, NEW k \in Keys, Found(k) # {}
    PROVE  FoundAt(k) \in Found(k)
<1>1. Found(k) \in SUBSET Nat
  BY DEF Found
<1>2. \E n \in Found(k) : \A m \in Found(k) : n <= m
  BY <1>1, LeastElement
<1> QED
  BY <1>2 DEF FoundAt

\* What lookup promises its callers.
LEMMA LookupResult ==
    ASSUME IndInv, NEW k \in Keys
    PROVE  /\ lookup(k) # 0 => /\ lookup(k) \in Live
                               /\ key[lookup(k)] = Canon(k)
                               /\ FoundAt(k) \in 1..Len(Chain(k))
                               /\ Chain(k)[FoundAt(k)] = lookup(k)
           /\ lookup(k) = 0 => \A e \in Live : key[e] # Canon(k)
<1> USE DEF IndInv
<1>0. Canon(k) \in Keys \ {NegZero} /\ Canon(k) # NoKey
  BY CanonIsKey
<1>1. Chain(k) \in Seq(Entry)
  BY <1>0, OrderedMapAssumption DEF Chain, TypeOK
<1>2. CASE Found(k) # {}
  <2>1. FoundAt(k) \in Found(k)
    BY <1>2, FoundAtFinds
  <2>2. lookup(k) = Chain(k)[FoundAt(k)]
    BY <1>2 DEF lookup
  <2>3. FoundAt(k) \in 1..Len(Chain(k)) /\ key[Chain(k)[FoundAt(k)]] = Canon(k)
    BY <2>1 DEF Found
  <2>4. lookup(k) \in Entry
    BY <1>1, <2>2, <2>3, ElementOfSeq
  <2>5. lookup(k) \in Live
    BY <1>0, <2>2, <2>3, <2>4, EntryBounds, OrderedMapAssumption DEF Live, FreshIsBlank, TypeOK
  <2> QED
    BY <2>2, <2>3, <2>4, <2>5, EntryBounds
<1>3. CASE Found(k) = {}
  <2>1. lookup(k) = 0
    BY <1>3 DEF lookup
  <2>2. ASSUME NEW e \in Live, key[e] = Canon(k) PROVE FALSE
    <3>1. PICK n \in 1..Len(hashTable[Hash[key[e]]]) : hashTable[Hash[key[e]]][n] = e
      BY DEF ChainsComplete
    <3>2. n \in Found(k)
      BY <3>1, <2>2 DEF Found, Chain
    <3> QED
      BY <3>2, <1>3
  <2> QED
    BY <2>1, <2>2
<1> QED
  BY <1>2, <1>3

-----------------------------------------------------------------------------
\* insert() keeps the inductive invariant when the key is not in the map.
LEMMA InsertPreserves ==
    ASSUME IndInv, NEW k \in Keys, NEW v \in Vals, lookup(k) = 0,
           insert(k, v), UNCHANGED <<iter, scan>>
    PROVE  IndInv'
<1> USE DEF IndInv
<1> DEFINE e == alloc + 1
<1>1. Canon(k) \in Keys \ {NegZero} /\ Canon(k) # NoKey
  BY CanonIsKey
<1>2. e \in Entry /\ e \in Ptr /\ e \notin Live
  BY OrderedMapAssumption DEF insert, TypeOK, Live, Entry, Ptr
<1>3. \A d \in Live : key[d] # Canon(k)
  BY LookupResult
<1>4. /\ alloc' = e /\ iterLast' = e /\ iterPrev' = [iterPrev EXCEPT ![e] = iterLast]
      /\ \/ iterLast # 0 /\ iterNext' = [iterNext EXCEPT ![iterLast] = e] /\ iterFirst' = iterFirst
         \/ iterLast = 0 /\ iterNext' = iterNext /\ iterFirst' = e
  BY DEF insert
<1>5. Live' = Live \union {e}
  BY <1>1, <1>2 DEF Live, insert, TypeOK
<1>6. iterLast # 0 => iterLast \in Live
  BY DEF ListInOrder
<1>7. /\ alloc \in Nat /\ e \in Nat
      /\ \A d \in Live : d \in Entry /\ d \in Nat /\ d # 0 /\ d <= alloc /\ d < e
  BY OrderedMapAssumption DEF TypeOK, Live, Entry
<1>p. \A d \in Entry : /\ key'[d] = IF d = e THEN Canon(k) ELSE key[d]
                       /\ iterNext'[d] = IF d = iterLast THEN e ELSE iterNext[d]
                       /\ iterPrev'[d] = IF d = e THEN iterLast ELSE iterPrev[d]
                       /\ iterNext[d] \in Nat /\ iterPrev[d] \in Nat /\ d \in Nat
  <2>1. \A d \in Entry : key'[d] = IF d = e THEN Canon(k) ELSE key[d]
    BY <1>2 DEF insert, TypeOK
  <2> QED
    BY <1>2, <1>4, <2>1, EntryBounds DEF TypeOK
<1>8. TypeOK'
  <2>1. hashTable' \in [Hashes -> Seq(Entry)]
    BY <1>1, <1>2, OrderedMapAssumption DEF insert, TypeOK
  <2>2. iterNext' \in [Entry -> Ptr] /\ iterPrev' \in [Entry -> Ptr]
    BY <1>2, <1>4, EntryBounds DEF TypeOK
  <2>3. /\ key' \in [Entry -> (Keys \ {NegZero}) \union {NoKey}]
        /\ val' \in [Entry -> Vals \union {NoVal}]
    BY <1>1, <1>2 DEF insert, TypeOK
  <2>4. iterFirst' \in Ptr /\ iterLast' \in Ptr /\ alloc' \in 0..MaxEntries /\ size' \in Int
    BY <1>2, OrderedMapAssumption DEF insert, TypeOK, Ptr
  <2> QED
    BY <2>1, <2>2, <2>3, <2>4 DEF TypeOK
<1>9. FreshIsBlank'
  <2>1. ASSUME NEW d \in Entry, d > alloc' PROVE key'[d] = NoKey /\ iterNext'[d] = 0
    <3>1. key'[d] = key[d]
      BY <1>2, <2>1, <1>7, <1>4 DEF insert, TypeOK
    <3>2. iterNext'[d] = iterNext[d]
      BY <2>1, <1>4, <1>6, <1>7, EntryBounds DEF TypeOK
    <3> QED
      BY <2>1, <3>1, <3>2, <1>4, <1>7, EntryBounds DEF FreshIsBlank
  <2>2. ASSUME NEW d \in 1..alloc' PROVE iterNext'[d] <= alloc'
    <3>1. d \in Entry /\ iterNext[d] <= alloc
      BY <1>2, <1>4, <1>7, OrderedMapAssumption DEF FreshIsBlank, TypeOK, Entry
    <3> QED
      BY <3>1, <1>4, <1>7, <1>p
  <2>3. \A i \in Iters : iter'[i].cur <= alloc'
    BY <1>4, <1>7, EntryBounds DEF FreshIsBlank, TypeOK
  <2> QED
    BY <2>1, <2>2, <2>3 DEF FreshIsBlank
<1>10. ListInOrder'
  <2>0. iterNext[e] = 0
    BY <1>2, <1>7 DEF FreshIsBlank
  <2>1. CASE iterLast # 0
    <3>1. \A d \in Live : d # iterLast => d < iterLast
      BY <1>6, <1>7, <2>1 DEF ListInOrder
    <3>2. \A d \in Live : iterNext'[d] = IF d = iterLast THEN e ELSE iterNext[d]
      BY <1>4, <2>1, <1>7, <1>2 DEF TypeOK
    <3>3. iterNext'[e] = 0 /\ iterPrev'[e] = iterLast
      BY <1>4, <1>2, <1>6, <2>0, <2>1 DEF TypeOK
    <3>4. \A d \in Live : iterPrev'[d] = iterPrev[d]
      BY <1>4, <1>2, <1>7 DEF TypeOK
    <3>5. iterFirst' = iterFirst /\ iterLast' = e /\ iterFirst \in Live
      BY <1>4, <2>1, <1>6 DEF ListInOrder
    <3>6. iterLast \in Live /\ e > iterLast
      BY <1>6, <1>7, <2>1
    <3>7. ASSUME NEW d \in Live PROVE /\ iterNext'[d] \in Live' /\ iterNext'[d] > d
                                      /\ \A c \in Live' : c > d => c >= iterNext'[d]
      <4>1. CASE d = iterLast
        BY <3>1, <3>2, <3>6, <4>1, <1>5, <1>7
      <4>2. CASE d # iterLast
        <5>1. iterNext'[d] = iterNext[d] /\ iterLast > d
          BY <4>2, <3>1, <3>2, <1>7, <3>6
        <5>2. iterNext[d] \in Live /\ iterNext[d] > d
          BY <3>6, <5>1, <1>7 DEF ListInOrder
        <5> QED
          BY <5>1, <5>2, <1>5, <1>7 DEF ListInOrder
      <4> QED
        BY <4>1, <4>2
    <3>8. \A d \in Live' : d > e => FALSE
      BY <1>5, <1>7
    <3>9. \A d \in Live' : iterFirst' # 0 /\ iterFirst' <= d /\ d <= iterLast'
      BY <1>5, <1>7, <3>5, <3>6 DEF ListInOrder
    <3>10. \A d \in Live' : iterPrev'[d] = 0 \/ iterPrev'[d] \in Live'
      BY <1>5, <3>3, <3>4, <3>6 DEF ListInOrder
    <3>11. \A d \in Live' : iterNext'[d] = 0 \/ (iterNext'[d] \in Live' /\ iterNext'[d] > d)
      BY <1>5, <3>3, <3>7
    <3>12. \A d \in Live' : \A c \in Live' : c > d => iterNext'[d] # 0 /\ c >= iterNext'[d]
      BY <1>5, <3>7, <3>8, <1>7
    <3> QED
      BY <3>5, <3>9, <3>10, <3>11, <3>12, <1>5 DEF ListInOrder
  <2>2. CASE iterLast = 0
    <3>1. Live = {}
      BY <2>2, <1>7 DEF ListInOrder
    <3>2. Live' = {e}
      BY <3>1, <1>5
    <3>3. iterNext'[e] = 0 /\ iterPrev'[e] = 0 /\ iterFirst' = e /\ iterLast' = e
      BY <1>2, <1>4, <2>0, <2>2 DEF TypeOK
    <3> QED
      BY <3>2, <3>3, <1>7 DEF ListInOrder
  <2> QED
    BY <2>1, <2>2
<1>11. BackPointersSkipNothing'
  <2>1. ASSUME NEW d \in 1..alloc' PROVE iterPrev'[d] < d /\ \A c \in Live' : c < d => c <= iterPrev'[d]
    <3>1. CASE d = e
      <4>1. iterPrev'[d] = iterLast /\ iterLast < e
        BY <3>1, <1>2, <1>p, <1>6, <1>7
      <4>2. \A c \in Live : c <= iterLast
        BY DEF ListInOrder
      <4> QED
        BY <3>1, <4>1, <4>2, <1>5, <1>7
    <3>2. CASE d # e
      <4>1. d \in 1..alloc /\ d \in Entry
        BY <3>2, <1>4, <1>7, <1>2, OrderedMapAssumption DEF Entry
      <4>2. iterPrev'[d] = iterPrev[d]
        BY <3>2, <4>1, <1>p
      <4> QED
        BY <4>1, <4>2, <1>5, <1>7, <1>p DEF BackPointersSkipNothing
    <3> QED
      BY <3>1, <3>2
  <2> QED
    BY <2>1 DEF BackPointersSkipNothing
<1>12. ScanSkipsNothing'
  <2>1. ASSUME NEW i \in Iters, scan[i].active PROVE \A d \in Live' : d <= iter[i].cur => d <= scan[i].cur
    BY <2>1, <1>5, <1>7, EntryBounds DEF ScanSkipsNothing, FreshIsBlank, TypeOK
  <2> QED
    BY <2>1 DEF ScanSkipsNothing
<1>13. KeysUnique'
  BY <1>1, <1>2, <1>3, <1>5 DEF KeysUnique, TypeOK, insert, Live
<1>14. ChainsComplete'
  <2> SUFFICES ASSUME NEW d \in Live'
               PROVE  \E n \in 1..Len(hashTable'[Hash[key'[d]]]) : hashTable'[Hash[key'[d]]][n] = d
    BY DEF ChainsComplete
  <2> DEFINE h == Hash[Canon(k)]
  <2>1. h \in Hashes /\ hashTable[h] \in Seq(Entry) /\ hashTable' = [hashTable EXCEPT ![h] = Append(hashTable[h], e)]
    BY <1>1, OrderedMapAssumption DEF TypeOK, insert
  <2>2. CASE d = e
    <3>1. key'[d] = Canon(k)
      BY <1>2, <2>2 DEF insert, TypeOK
    <3>2. hashTable'[h] = Append(hashTable[h], e)
      BY <2>1 DEF TypeOK
    <3> QED
      BY <2>1, <2>2, <3>1, <3>2, <1>2, AppendProperties
  <2>3. CASE d # e
    <3>1. d \in Live /\ key'[d] = key[d]
      BY <1>5, <1>7, <1>p, <2>3
    <3>2. PICK n \in 1..Len(hashTable[Hash[key[d]]]) : hashTable[Hash[key[d]]][n] = d
      BY <3>1 DEF ChainsComplete
    <3>3. Hash[key[d]] \in Hashes
      BY <3>1, <1>7, OrderedMapAssumption DEF TypeOK, Live
    <3>4. CASE Hash[key[d]] = h
      <4>1. hashTable'[h] = Append(hashTable[h], e)
        BY <2>1 DEF TypeOK
      <4>2. n \in 1..Len(hashTable'[h]) /\ hashTable'[h][n] = d
        BY <4>1, <3>2, <3>4, <2>1, <1>2, AppendProperties
      <4> QED
        BY <4>2, <3>4, <3>1
    <3>5. CASE Hash[key[d]] # h
      BY <3>1, <3>2, <3>3, <3>5, <2>1 DEF TypeOK
    <3> QED
      BY <3>4, <3>5
  <2> QED
    BY <2>2, <2>3
<1> QED
  BY <1>8, <1>9, <1>10, <1>11, <1>12, <1>13, <1>14

-----------------------------------------------------------------------------
\* Taking one place out of a sequence leaves a sequence of the same elements.
LEMMA DropOneType ==
    ASSUME NEW S, NEW c \in Seq(S), NEW n \in 1..Len(c)
    PROVE  SubSeq(c, 1, n - 1) \o SubSeq(c, n + 1, Len(c)) \in Seq(S)
OBVIOUS

\* A chain without its place n.
Drop(c, n) == SubSeq(c, 1, n - 1) \o SubSeq(c, n + 1, Len(c))

\* Taking one place out of a chain keeps every other element.
LEMMA DropOne ==
    ASSUME NEW c \in Seq(Entry), NEW n \in 1..Len(c), NEW m \in 1..Len(c), m # n
    PROVE  \E j \in 1..Len(Drop(c, n)) : Drop(c, n)[j] = c[m]
<1> DEFINE d == Drop(c, n)
           a == SubSeq(c, 1, n - 1)
           b == SubSeq(c, n + 1, Len(c))
<1>1. Len(c) \in Nat /\ n \in Nat /\ 1 <= n /\ n <= Len(c)
  BY LenProperties
<1>2. \A i \in 1..Len(c) : c[i] \in Entry
  BY ElementOfSeq
<1>3. /\ a \in Seq(Entry) /\ Len(a) = n - 1
      /\ \A i \in 1..(n - 1) : a[i] = c[i]
  <2>1. \A i \in 1..(n - 1) : c[i] \in Entry
    BY <1>1, <1>2
  <2>2. /\ a \in Seq(Entry)
        /\ Len(a) = IF 1 <= n - 1 THEN (n - 1) - 1 + 1 ELSE 0
        /\ \A i \in 1..((n - 1) - 1 + 1) : a[i] = c[1 + i - 1]
    BY <1>1, <2>1, SubSeqProperties
  <2> QED
    BY <1>1, <2>2
<1>4. /\ b \in Seq(Entry) /\ Len(b) = Len(c) - n
      /\ \A i \in 1..(Len(c) - n) : b[i] = c[n + i]
  <2>1. \A i \in (n + 1)..Len(c) : c[i] \in Entry
    BY <1>1, <1>2
  <2>2. /\ b \in Seq(Entry)
        /\ Len(b) = IF n + 1 <= Len(c) THEN Len(c) - (n + 1) + 1 ELSE 0
        /\ \A i \in 1..(Len(c) - (n + 1) + 1) : b[i] = c[(n + 1) + i - 1]
    BY <1>1, <2>1, SubSeqProperties
  <2> QED
    BY <1>1, <2>2
<1>0. d = a \o b
  BY DEF Drop
<1> HIDE DEF a, b, d
<1>5. /\ a \o b \in Seq(Entry) /\ Len(a \o b) = Len(a) + Len(b)
      /\ \A i \in 1..(Len(a) + Len(b)) : (a \o b)[i] = IF i <= Len(a) THEN a[i] ELSE b[i - Len(a)]
  BY <1>3, <1>4, ConcatProperties, Zenon
<1>6. /\ d \in Seq(Entry) /\ Len(d) = Len(a) + Len(b)
      /\ \A i \in 1..(Len(a) + Len(b)) : d[i] = IF i <= Len(a) THEN a[i] ELSE b[i - Len(a)]
  BY <1>0, <1>5, Zenon
<1>7. \A i \in 1..(n - 1) : a[i] = c[i]
  BY <1>3
<1>8. \A i \in 1..(Len(c) - n) : b[i] = c[n + i]
  BY <1>4
<1>9. /\ Len(d) = Len(c) - 1
      /\ \A i \in 1..(Len(c) - 1) : d[i] = IF i <= n - 1 THEN a[i] ELSE b[i - (n - 1)]
  <2>1. Len(a) = n - 1 /\ Len(a) + Len(b) = Len(c) - 1
    BY <1>1, <1>3, <1>4
  <2> QED
    BY <1>6, <2>1
<1>10. m \in Nat
  BY <1>1
<1>11. CASE m < n
  <2>1. m \in 1..(Len(c) - 1) /\ m \in 1..(n - 1) /\ m <= n - 1
    BY <1>10, <1>11, <1>1
  <2>2. d[m] = c[m]
    BY <2>1, <1>7, <1>9
  <2> QED
    BY <2>1, <2>2, <1>9 DEF d
<1>12. CASE m > n
  <2>1. m - 1 \in 1..(Len(c) - 1) /\ ~(m - 1 <= n - 1) /\ (m - 1) - (n - 1) = m - n
    BY <1>10, <1>12, <1>1
  <2>2. m - n \in 1..(Len(c) - n) /\ n + (m - n) = m
    BY <1>10, <1>12, <1>1
  <2>3. d[m - 1] = b[m - n]
    BY <2>1, <1>9
  <2>4. b[m - n] = c[m]
    BY <2>2, <1>8
  <2> QED
    BY <2>1, <2>3, <2>4, <1>9 DEF d
<1>13. m < n \/ m > n
  BY <1>10, <1>1
<1> QED
  BY <1>11, <1>12, <1>13 DEF d

\* Live entries are allocated entries.
LEMMA LiveBounds ==
    ASSUME TypeOK
    PROVE  /\ alloc \in Nat
           /\ \A d \in Live : d \in Entry /\ d \in Nat /\ d # 0 /\ d <= alloc
           /\ \A d \in 1..alloc : d \in Entry /\ d \in Nat /\ iterNext[d] \in Nat /\ iterPrev[d] \in Nat
<1>1. alloc \in Nat /\ \A d \in 1..alloc : d \in Entry /\ d \in Nat /\ d # 0 /\ d <= alloc
  BY OrderedMapAssumption DEF TypeOK, Entry
<1> QED
  BY <1>1, EntryBounds DEF TypeOK, Live

\* remove() keeps the inductive invariant.
LEMMA RemovePreserves ==
    ASSUME IndInv, NEW k \in Keys, remove(k)
    PROVE  IndInv'
<1> USE DEF IndInv
<1> DEFINE e == lookup(k)
           p == iterPrev[e]
           s == iterNext[e]
<1>1. CASE e = 0
  <2>1. UNCHANGED <<listVars, hashTable, iter, scan>>
    BY <1>1 DEF remove
  <2> QED
    BY <2>1 DEF listVars, TypeOK, FreshIsBlank, ListInOrder, BackPointersSkipNothing,
       ScanSkipsNothing, ChainsComplete, KeysUnique, Live
<1>2. CASE e # 0
  <2>1. /\ e \in Live /\ key[e] = Canon(k)
        /\ FoundAt(k) \in 1..Len(Chain(k)) /\ Chain(k)[FoundAt(k)] = e
    BY <1>2, LookupResult
  <2>2. e \in Entry /\ e \in 1..alloc
    BY <2>1, LiveBounds DEF Live
  <2>3. /\ key' = [key EXCEPT ![e] = NoKey] /\ val' = [val EXCEPT ![e] = NoVal]
        /\ size' = size - 1 /\ alloc' = alloc /\ iter' = iter /\ scan' = scan
        /\ unlink(e)
    BY <1>2 DEF remove
  <2>4. \A d \in Entry : /\ key'[d] = IF d = e THEN NoKey ELSE key[d]
                         /\ iterNext'[d] = IF d = p THEN s ELSE iterNext[d]
                         /\ iterPrev'[d] = IF d = s THEN p ELSE iterPrev[d]
    <3>1. p \in Ptr /\ s \in Ptr
      BY <2>2 DEF TypeOK
    <3>2. \A d \in Entry : key'[d] = IF d = e THEN NoKey ELSE key[d]
      BY <2>2, <2>3 DEF TypeOK
    <3>3. \A d \in Entry : iterNext'[d] = IF d = p THEN s ELSE iterNext[d]
      BY <2>3, <3>1, EntryBounds DEF TypeOK, unlink
    <3>4. \A d \in Entry : iterPrev'[d] = IF d = s THEN p ELSE iterPrev[d]
      BY <2>3, <3>1, EntryBounds DEF TypeOK, unlink
    <3> QED
      BY <3>2, <3>3, <3>4
  <2>5. /\ iterFirst' = IF p = 0 THEN s ELSE iterFirst
        /\ iterLast' = IF s = 0 THEN p ELSE iterLast
    BY <2>3 DEF unlink
  <2>6. Live' = Live \ {e}
    BY <2>1, <2>3, <2>4, LiveBounds DEF Live
  <2>7. /\ p \in Nat /\ p < e /\ \A d \in Live : d < e => d <= p
        /\ p # 0 => p \in Live /\ p \in Live'
    <3>1. p \in Nat /\ p < e /\ \A d \in Live : d < e => d <= p
      BY <2>2, LiveBounds DEF BackPointersSkipNothing
    <3> QED
      BY <3>1, <2>1, <2>6, LiveBounds DEF ListInOrder
  <2>8. /\ s \in Nat /\ \A d \in Live : d > e => s # 0 /\ d >= s
        /\ s # 0 => s > e /\ s \in Live /\ s \in Live'
    <3>1. s \in Nat
      BY <2>2, LiveBounds
    <3>2. \A d \in Live : d > e => s # 0 /\ d >= s
      BY <2>1 DEF ListInOrder
    <3>3. s # 0 => s > e /\ s \in Live
      BY <2>1 DEF ListInOrder
    <3> QED
      BY <3>1, <3>2, <3>3, <2>6, LiveBounds, <2>1
  <2>9. Chain(k) \in Seq(Entry) /\ Hash[Canon(k)] \in Hashes
    BY CanonIsKey, OrderedMapAssumption DEF TypeOK, Chain
  <2>10. hashTable' = [hashTable EXCEPT ![Hash[Canon(k)]] =
             SubSeq(Chain(k), 1, FoundAt(k) - 1) \o SubSeq(Chain(k), FoundAt(k) + 1, Len(Chain(k)))]
    BY <1>2 DEF remove
  <2>11. TypeOK'
    <3>1. hashTable' \in [Hashes -> Seq(Entry)]
      BY <2>1, <2>9, <2>10, DropOneType DEF TypeOK
    <3>2. key' \in [Entry -> (Keys \ {NegZero}) \union {NoKey}] /\ val' \in [Entry -> Vals \union {NoVal}]
      BY <2>2, <2>3 DEF TypeOK
    <3>3. p \in Ptr /\ s \in Ptr
      BY <2>2 DEF TypeOK
    <3>4. iterNext' \in [Entry -> Ptr] /\ iterPrev' \in [Entry -> Ptr]
      BY <3>3, <2>3, EntryBounds DEF TypeOK, unlink
    <3>5. iterFirst' \in Ptr /\ iterLast' \in Ptr
      BY <3>3, <2>5 DEF TypeOK
    <3> QED
      BY <2>3, <3>1, <3>2, <3>4, <3>5 DEF TypeOK
  <2>12. FreshIsBlank'
    <3>1. p <= alloc /\ s <= alloc
      BY <2>7, <2>8, LiveBounds
    <3>2. ASSUME NEW d \in Entry, d > alloc PROVE key'[d] = NoKey /\ iterNext'[d] = 0
      BY <3>1, <3>2, <2>4, <2>7, <2>2, LiveBounds, EntryBounds DEF FreshIsBlank
    <3>3. ASSUME NEW d \in 1..alloc PROVE iterNext'[d] <= alloc
      BY <3>1, <2>4, LiveBounds DEF FreshIsBlank
    <3> QED
      BY <2>3, <3>2, <3>3 DEF FreshIsBlank
  <2>13. BackPointersSkipNothing'
    <3>1. ASSUME NEW d \in 1..alloc PROVE iterPrev'[d] < d /\ \A c \in Live' : c < d => c <= iterPrev'[d]
      <4>1. CASE d = s
        BY <4>1, <2>1, <2>4, <2>6, <2>7, <2>8, LiveBounds
      <4>2. CASE d # s
        BY <4>2, <2>4, <2>6, LiveBounds DEF BackPointersSkipNothing
      <4> QED
        BY <4>1, <4>2
    <3> QED
      BY <2>3, <3>1 DEF BackPointersSkipNothing
  <2>14. ListInOrder'
    <3>1. ASSUME NEW d \in Live'
          PROVE  /\ iterNext'[d] = 0 \/ (iterNext'[d] \in Live' /\ iterNext'[d] > d)
                 /\ \A c \in Live' : c > d => iterNext'[d] # 0 /\ c >= iterNext'[d]
      <4>0. d \in Live /\ d # e /\ d \in Entry /\ d \in Nat /\ e \in Nat
        BY <2>1, <2>6, LiveBounds
      <4>1. CASE d = p
        BY <4>0, <4>1, <2>4, <2>6, <2>7, <2>8, LiveBounds
      <4>2. CASE d # p
        <5>1. iterNext'[d] = iterNext[d]
          BY <4>0, <4>2, <2>4
        <5>2. iterNext[d] # e
          <6>1. SUFFICES ASSUME iterNext[d] = e PROVE FALSE
            OBVIOUS
          <6>2. d < e
            BY <6>1, <4>0, <2>2, <2>1, LiveBounds DEF ListInOrder
          <6>3. d < p /\ p \in Live
            BY <6>2, <4>0, <4>2, <2>7, LiveBounds
          <6>4. p >= iterNext[d]
            BY <6>3, <4>0 DEF ListInOrder
          <6> QED
            BY <6>1, <6>4, <2>7, <4>0
        <5>3. iterNext[d] = 0 \/ (iterNext[d] \in Live' /\ iterNext[d] > d)
          BY <5>2, <4>0, <2>6 DEF ListInOrder
        <5>4. \A c \in Live' : c > d => iterNext[d] # 0 /\ c >= iterNext[d]
          BY <4>0, <2>6 DEF ListInOrder
        <5> QED
          BY <5>1, <5>3, <5>4
      <4> QED
        BY <4>1, <4>2
    <3>2. ASSUME NEW d \in Live' PROVE iterPrev'[d] = 0 \/ iterPrev'[d] \in Live'
      <4>0. d \in Live /\ d # e /\ d \in 1..alloc /\ d \in Entry /\ d \in Nat /\ e \in Nat
        BY <2>1, <2>6, LiveBounds DEF Live
      <4>1. CASE d = s
        BY <4>0, <4>1, <2>4, <2>7
      <4>2. CASE d # s
        <5>1. iterPrev'[d] = iterPrev[d] /\ (iterPrev[d] = 0 \/ iterPrev[d] \in Live)
          BY <4>0, <4>2, <2>4 DEF ListInOrder
        <5>2. iterPrev[d] # e
          <6>1. SUFFICES ASSUME iterPrev[d] = e PROVE FALSE
            OBVIOUS
          <6>2. e < d
            BY <6>1, <4>0 DEF BackPointersSkipNothing
          <6>3. s # 0 /\ d > s /\ s \in Live /\ s > e
            BY <6>2, <4>0, <4>2, <2>8
          <6>4. s <= iterPrev[d]
            BY <6>3, <4>0 DEF BackPointersSkipNothing
          <6> QED
            BY <6>1, <6>3, <6>4, <4>0, <2>8
        <5> QED
          BY <5>1, <5>2, <2>6
      <4> QED
        BY <4>1, <4>2
    <3>3. iterFirst' = 0 \/ iterFirst' \in Live'
      BY <2>1, <2>5, <2>6, <2>7, <2>8, LiveBounds DEF ListInOrder
    <3>4. iterLast' = 0 \/ iterLast' \in Live'
      <4>1. CASE s = 0
        BY <4>1, <2>5, <2>7
      <4>2. CASE s # 0
        <5>1. iterLast' = iterLast /\ iterLast >= s
          BY <4>2, <2>5, <2>8 DEF ListInOrder
        <5>2. iterLast = 0 \/ iterLast \in Live
          BY DEF ListInOrder
        <5> QED
          BY <5>1, <5>2, <4>2, <2>6, <2>8, <2>1, LiveBounds
      <4> QED
        BY <4>1, <4>2
    <3>5. ASSUME NEW d \in Live' PROVE iterFirst' # 0 /\ iterFirst' <= d /\ d <= iterLast'
      <4>0. d \in Live /\ d # e /\ d \in Nat /\ e \in Nat /\ d # 0
        BY <2>1, <2>6, LiveBounds
      <4>1. iterFirst # 0 /\ iterFirst <= d /\ d <= iterLast
        BY <4>0 DEF ListInOrder
      <4>2. iterFirst' # 0 /\ iterFirst' <= d
        BY <4>0, <4>1, <2>5, <2>7, <2>8
      <4>3. d <= iterLast'
        BY <4>0, <4>1, <2>5, <2>7, <2>8
      <4> QED
        BY <4>2, <4>3
    <3> QED
      BY <3>1, <3>2, <3>3, <3>4, <3>5 DEF ListInOrder
  <2>15. ScanSkipsNothing'
    BY <2>3, <2>6 DEF ScanSkipsNothing
  <2>16. KeysUnique'
    BY <2>4, <2>6, LiveBounds DEF KeysUnique
  <2>17. ChainsComplete'
    <3> SUFFICES ASSUME NEW d \in Live'
                 PROVE  \E n \in 1..Len(hashTable'[Hash[key'[d]]]) : hashTable'[Hash[key'[d]]][n] = d
      BY DEF ChainsComplete
    <3> DEFINE h == Hash[Canon(k)]
    <3>1. d \in Live /\ d # e /\ key'[d] = key[d] /\ Hash[key[d]] \in Hashes
      <4>1. d \in Live /\ d # e /\ key'[d] = key[d] /\ d \in Entry
        BY <2>4, <2>6, LiveBounds
      <4> QED
        BY <4>1, OrderedMapAssumption DEF TypeOK, Live
    <3>2. PICK n \in 1..Len(hashTable[Hash[key[d]]]) : hashTable[Hash[key[d]]][n] = d
      BY <3>1 DEF ChainsComplete
    <3>3. CASE Hash[key[d]] # h
      <4>1. hashTable'[Hash[key[d]]] = hashTable[Hash[key[d]]]
        BY <3>1, <3>3, <2>9, <2>10 DEF TypeOK
      <4> QED
        BY <4>1, <3>1, <3>2
    <3>4. CASE Hash[key[d]] = h
      <4>1. hashTable[h] = Chain(k)
        BY DEF Chain
      <4>2. n \in 1..Len(Chain(k)) /\ n # FoundAt(k) /\ Chain(k)[n] = d
        BY <3>1, <3>2, <3>4, <4>1, <2>1
      <4>3. \E j \in 1..Len(hashTable'[h]) : hashTable'[h][j] = d
        <5>1. hashTable'[h] = SubSeq(Chain(k), 1, FoundAt(k) - 1) \o
                              SubSeq(Chain(k), FoundAt(k) + 1, Len(Chain(k)))
          BY <2>9, <2>10 DEF TypeOK
        <5> DEFINE c == Chain(k)
                   f == FoundAt(k)
                   t == hashTable'[h]
        <5>2. c \in Seq(Entry) /\ f \in 1..Len(c) /\ t = Drop(c, f)
          BY <5>1, <2>1, <2>9 DEF Drop
        <5> HIDE DEF c, f, t
        <5>3. n \in 1..Len(c) /\ n # f /\ c[n] = d
          BY <4>2 DEF c, f
        <5>4. \E j \in 1..Len(Drop(c, f)) : Drop(c, f)[j] = c[n]
          BY <5>2, <5>3, DropOne
        <5> QED
          BY <5>2, <5>3, <5>4 DEF t
      <4> QED
        BY <4>3, <3>1, <3>4
    <3> QED
      BY <3>3, <3>4
  <2> QED
    BY <2>11, <2>12, <2>13, <2>14, <2>15, <2>16, <2>17
<1> QED
  BY <1>1, <1>2

\* clear() keeps the inductive invariant.
LEMMA ClearPreserves ==
    ASSUME IndInv, clear
    PROVE  IndInv'
<1> USE DEF IndInv
<1>1. Live' = {}
  BY LiveBounds DEF Live, clear
<1>2. TypeOK'
  BY EntryBounds DEF TypeOK, clear
<1>3. FreshIsBlank'
  BY LiveBounds DEF FreshIsBlank, clear, TypeOK
<1>4. BackPointersSkipNothing'
  BY <1>1 DEF BackPointersSkipNothing, clear
<1>5. ListInOrder' /\ ScanSkipsNothing' /\ ChainsComplete' /\ KeysUnique'
  BY <1>1 DEF ListInOrder, ScanSkipsNothing, ChainsComplete, KeysUnique, clear
<1> QED
  BY <1>2, <1>3, <1>4, <1>5

\* The part of the invariant that does not speak of the iterators.
LEMMA MapUnchanged ==
    ASSUME IndInv, UNCHANGED <<listVars, hashTable>>,
           iter' \in [Iters -> [open : BOOLEAN, cur : Ptr]],
           scan' \in [Iters -> [active : BOOLEAN, cur : Ptr]],
           \A i \in Iters : iter'[i].cur <= alloc,
           \A i \in Iters : scan'[i].active =>
              /\ iter'[i].open
              /\ scan'[i].cur <= iter'[i].cur
              /\ \A d \in Live : d <= iter'[i].cur => d <= scan'[i].cur
    PROVE  IndInv'
<1> USE DEF IndInv, listVars
<1>1. Live' = Live
  BY DEF Live
<1>2. TypeOK'
  BY DEF TypeOK
<1>3. FreshIsBlank'
  BY DEF FreshIsBlank
<1>4. ListInOrder' /\ BackPointersSkipNothing' /\ ChainsComplete' /\ KeysUnique'
  BY <1>1 DEF ListInOrder, BackPointersSkipNothing, ChainsComplete, KeysUnique
<1>5. ScanSkipsNothing'
  BY <1>1 DEF ScanSkipsNothing
<1> QED
  BY <1>2, <1>3, <1>4, <1>5

\* An operation that only reads the map.
LEMMA ReadOnlyPreserves ==
    ASSUME IndInv, UNCHANGED <<listVars, hashTable, iter, scan>>
    PROVE  IndInv'
<1>1. /\ iter' \in [Iters -> [open : BOOLEAN, cur : Ptr]]
      /\ scan' \in [Iters -> [active : BOOLEAN, cur : Ptr]]
      /\ \A i \in Iters : iter'[i].cur <= alloc
      /\ \A i \in Iters : scan'[i].active =>
              /\ iter'[i].open
              /\ scan'[i].cur <= iter'[i].cur
              /\ \A d \in Live : d <= iter'[i].cur => d <= scan'[i].cur
  BY DEF IndInv, TypeOK, FreshIsBlank, ScanSkipsNothing
<1> QED
  BY <1>1, MapUnchanged

\* A step of an iterator.
LEMMA IterPreserves ==
    ASSUME IndInv, NEW i \in Iters, newIter(i) \/ nextBegin(i) \/ nextTrackBack(i) \/ nextAdvance(i)
    PROVE  IndInv'
<1> USE DEF IndInv
<1>0. /\ iter[i].cur \in Ptr /\ iter[i].cur \in Nat /\ scan[i].cur \in Ptr /\ scan[i].cur \in Nat
      /\ iter[i].open \in BOOLEAN
  BY EntryBounds DEF TypeOK
<1>u. UNCHANGED <<listVars, hashTable>>
  BY DEF newIter, nextBegin, nextTrackBack, nextAdvance
<1>1. CASE newIter(i)
  <2>1. scan' = scan /\ iter' = [iter EXCEPT ![i] = [open |-> TRUE, cur |-> 0]] /\ ~scan[i].active
    BY <1>1 DEF newIter, Quiet
  <2>2. iter' \in [Iters -> [open : BOOLEAN, cur : Ptr]] /\ \A j \in Iters : iter'[j].cur <= alloc
    BY <2>1, EntryBounds, LiveBounds DEF TypeOK, FreshIsBlank
  <2>3. \A j \in Iters : scan[j].active => iter'[j] = iter[j]
    BY <2>1 DEF TypeOK
  <2> QED
    BY <2>1, <2>2, <2>3, <1>u, MapUnchanged DEF TypeOK, ScanSkipsNothing
<1>2. CASE nextBegin(i)
  <2>1. iter' = iter /\ scan' = [scan EXCEPT ![i] = [active |-> TRUE, cur |-> iter[i].cur]] /\ iter[i].open
    BY <1>2 DEF nextBegin
  <2>2. scan' \in [Iters -> [active : BOOLEAN, cur : Ptr]]
    BY <2>1, <1>0 DEF TypeOK
  <2>3. \A j \in Iters : scan'[j].active =>
              /\ iter[j].open
              /\ scan'[j].cur <= iter[j].cur
              /\ \A d \in Live : d <= iter[j].cur => d <= scan'[j].cur
    BY <2>1, <1>0 DEF TypeOK, ScanSkipsNothing
  <2> QED
    BY <2>1, <2>2, <2>3, <1>u, MapUnchanged DEF TypeOK, FreshIsBlank
<1>3. CASE nextTrackBack(i)
  <2> DEFINE c == scan[i].cur
  <2>1. /\ iter' = iter /\ scan' = [scan EXCEPT ![i].cur = iterPrev[c]]
        /\ scan[i].active /\ c # 0 /\ key[c] = NoKey
    BY <1>3 DEF nextTrackBack
  <2>2. c \in 1..alloc /\ c <= iter[i].cur /\ iter[i].open /\ \A d \in Live : d <= iter[i].cur => d <= c
    BY <2>1, <1>0, LiveBounds DEF ScanSkipsNothing, FreshIsBlank
  <2>3. iterPrev[c] \in Ptr /\ iterPrev[c] \in Nat /\ iterPrev[c] < c /\ \A d \in Live : d < c => d <= iterPrev[c]
    BY <2>2, LiveBounds DEF BackPointersSkipNothing, TypeOK
  <2>4. c \notin Live
    BY <2>1 DEF Live
  <2>5. scan' \in [Iters -> [active : BOOLEAN, cur : Ptr]]
    BY <2>1, <2>3 DEF TypeOK
  <2>6. iterPrev[c] <= iter[i].cur /\ \A d \in Live : d <= iter[i].cur => d <= iterPrev[c]
    BY <2>2, <2>3, <2>4, <1>0, LiveBounds
  <2>7. \A j \in Iters : scan'[j].active =>
              /\ iter[j].open
              /\ scan'[j].cur <= iter[j].cur
              /\ \A d \in Live : d <= iter[j].cur => d <= scan'[j].cur
    BY <2>1, <2>2, <2>6 DEF TypeOK, ScanSkipsNothing
  <2> QED
    BY <2>1, <2>5, <2>7, <1>u, MapUnchanged DEF TypeOK, FreshIsBlank
<1>4. CASE nextAdvance(i)
  <2> DEFINE c == scan[i].cur
             t == IF c # 0 THEN iterNext[c] ELSE iterFirst
  <2>1. /\ scan' = [scan EXCEPT ![i] = Idle]
        /\ \/ iter' = [iter EXCEPT ![i] = [open |-> FALSE, cur |-> 0]]
           \/ iter' = [iter EXCEPT ![i].cur = t]
        /\ scan[i].active
    BY <1>4 DEF nextAdvance
  <2>2. c <= alloc
    BY <2>1, <1>0, LiveBounds DEF ScanSkipsNothing, FreshIsBlank
  <2>3. t \in Ptr /\ t <= alloc
    <3>1. CASE c # 0
      BY <3>1, <2>2, <1>0, LiveBounds DEF FreshIsBlank, TypeOK
    <3>2. CASE c = 0
      BY <3>2, <1>0, LiveBounds DEF ListInOrder, TypeOK
    <3> QED
      BY <3>1, <3>2
  <2> HIDE DEF t
  <2>4. /\ iter' \in [Iters -> [open : BOOLEAN, cur : Ptr]]
        /\ \A j \in Iters : iter'[j].cur <= alloc
        /\ \A j \in Iters : j # i => iter'[j] = iter[j]
    <3>1. CASE iter' = [iter EXCEPT ![i] = [open |-> FALSE, cur |-> 0]]
      BY <3>1, EntryBounds, LiveBounds DEF TypeOK, FreshIsBlank
    <3>2. CASE iter' = [iter EXCEPT ![i].cur = t]
      BY <3>2, <2>3 DEF TypeOK, FreshIsBlank
    <3> QED
      BY <2>1, <3>1, <3>2
  <2>5. /\ scan' \in [Iters -> [active : BOOLEAN, cur : Ptr]]
        /\ \A j \in Iters : scan'[j].active => j # i /\ scan'[j] = scan[j]
    BY <2>1, EntryBounds DEF TypeOK, Idle
  <2>6. \A j \in Iters : scan'[j].active =>
              /\ iter'[j].open
              /\ scan'[j].cur <= iter'[j].cur
              /\ \A d \in Live : d <= iter'[j].cur => d <= scan'[j].cur
    BY <2>4, <2>5 DEF ScanSkipsNothing
  <2> QED
    BY <2>4, <2>5, <2>6, <1>u, MapUnchanged
<1> QED
  BY <1>1, <1>2, <1>3, <1>4

\* The inductive invariant holds initially and every step keeps it.
THEOREM Inductive == Spec => []IndInv
<1>1. Init => IndInv
  BY OrderedMapAssumption, EntryBounds DEF Init, IndInv, TypeOK, FreshIsBlank, ListInOrder,
     BackPointersSkipNothing, ScanSkipsNothing, ChainsComplete, KeysUnique, Live, Idle
<1>2. IndInv /\ [Next]_vars => IndInv'
  <2> SUFFICES ASSUME IndInv, [Next]_vars PROVE IndInv'
    OBVIOUS
  <2>1. ASSUME NEW k \in Keys, NEW v \in Vals, set(k, v) PROVE IndInv'
    <3>1. CASE lookup(k) = 0
      BY <2>1, <3>1, InsertPreserves DEF set
    <3>2. CASE lookup(k) # 0
      <4>1. lookup(k) \in Entry
        BY <3>2, LookupResult, LiveBounds DEF IndInv
      <4>2. /\ val' = [val EXCEPT ![lookup(k)] = v]
            /\ UNCHANGED <<key, iterPrev, iterNext, iterFirst, iterLast, size, alloc, hashTable, iter, scan>>
        BY <2>1, <3>2 DEF set
      <4>3. TypeOK' /\ Live' = Live
        BY <4>1, <4>2 DEF IndInv, TypeOK, Live
      <4> QED
        BY <4>2, <4>3 DEF IndInv, FreshIsBlank, ListInOrder,
           BackPointersSkipNothing, ScanSkipsNothing, ChainsComplete, KeysUnique
    <3> QED
      BY <3>1, <3>2
  <2>2. ASSUME NEW k \in Keys, NEW v \in Vals, getOrInsert(k, v) PROVE IndInv'
    <3>1. CASE lookup(k) = 0
      BY <2>2, <3>1, InsertPreserves DEF getOrInsert
    <3>2. CASE lookup(k) # 0
      BY <2>2, <3>2, ReadOnlyPreserves DEF getOrInsert
    <3> QED
      BY <3>1, <3>2
  <2>3. ASSUME NEW k \in Keys, remove(k) PROVE IndInv'
    BY <2>3, RemovePreserves
  <2>4. ASSUME NEW k \in Keys, get(k) PROVE IndInv'
    BY <2>4, ReadOnlyPreserves DEF get
  <2>5. CASE clear
    BY <2>5, ClearPreserves
  <2>6. ASSUME NEW i \in Iters, newIter(i) \/ nextBegin(i) \/ nextTrackBack(i) \/ nextAdvance(i) PROVE IndInv'
    BY <2>6, IterPreserves
  <2>7. CASE UNCHANGED vars
    BY <2>7, ReadOnlyPreserves DEF vars
  <2> QED
    BY <2>1, <2>2, <2>3, <2>4, <2>5, <2>6, <2>7 DEF Next
<1> QED
  BY <1>1, <1>2, PTL DEF Spec

-----------------------------------------------------------------------------
\* What the state functions of MapData are under the refinement mapping.
LEMMA Mapping ==
    ASSUME TypeOK
    PROVE  /\ MD!Present = Live
           /\ \A k \in Keys : MD!Holding(k) = {e \in Live : key[e] = Canon(k)}
           /\ \A i \in Iters : MD!Ahead(i) = {e \in Live : e > iter[i].cur}
<1>1. MD!Present = Live
  BY DEF MD!Present, Live
<1>2. \A k \in Keys : MD!Holding(k) = {e \in Live : key[e] = Canon(k)}
  BY <1>1 DEF MD!Holding, MD!Canon, Canon, Live
<1>3. \A i \in Iters : MD!Ahead(i) = {e \in Live : e > iter[i].cur}
  BY <1>1 DEF MD!Ahead, Live
<1> QED
  BY <1>1, <1>2, <1>3

\* The records that the entries stand for.
Records == [e \in 1..alloc |-> [key |-> key[e], val |-> val[e]]]

\* insert() appends one record.
LEMMA InsertAppends ==
    ASSUME IndInv, NEW k \in Keys, NEW v \in Vals, insert(k, v)
    PROVE  Records' = Append(Records, [key |-> Canon(k), val |-> v])
<1>1. alloc \in Nat /\ alloc' = alloc + 1 /\ alloc + 1 \in Entry
  BY OrderedMapAssumption DEF insert, IndInv, TypeOK, Entry
<1>2. \A e \in 1..alloc : e \in Entry /\ key'[e] = key[e] /\ val'[e] = val[e]
  BY <1>1, LiveBounds DEF insert, IndInv, TypeOK
<1>3. key'[alloc + 1] = Canon(k) /\ val'[alloc + 1] = v
  BY <1>1 DEF insert, IndInv, TypeOK
<1> DEFINE r == [key |-> Canon(k), val |-> v]
           S == {Records[e] : e \in 1..alloc} \union {r}
<1>4. Records \in Seq(S) /\ Len(Records) = alloc /\ r \in S
  BY <1>1 DEF Records
<1> HIDE DEF S, r
<1>5. /\ Append(Records, r) \in Seq(S) /\ Len(Append(Records, r)) = alloc + 1
      /\ \A e \in 1..alloc : Append(Records, r)[e] = Records[e]
      /\ Append(Records, r)[alloc + 1] = r
  BY <1>4, AppendProperties
<1>6. Records' = [e \in 1..(alloc + 1) |-> [key |-> key'[e], val |-> val'[e]]]
  BY <1>1 DEF Records
<1>7. \A e \in 1..(alloc + 1) : Records'[e] = Append(Records, r)[e]
  BY <1>1, <1>2, <1>3, <1>5, <1>6 DEF Records, r
<1>8. Records' \in Seq(S) /\ Len(Records') = alloc + 1
  <2>1. \A e \in 1..(alloc + 1) : Append(Records, r)[e] \in S
    BY <1>1, <1>5, ElementOfSeq
  <2>2. Records' \in [1..(alloc + 1) -> S]
    BY <1>6, <1>7, <2>1
  <2>3. alloc + 1 \in Nat
    BY <1>1
  <2> QED
    BY <2>2, <2>3
<1>9. Records' = Append(Records, r)
  BY <1>5, <1>7, <1>8, SeqEqual
<1> QED
  BY <1>9 DEF r

\* Every operation of orderedMap is one operation of the list that the
\* language promises: the theorem behind ImplementsMapData.
THEOREM Refinement == Spec => ImplementsMapData
<1>1. Init => MD!Init
  <2> SUFFICES ASSUME Init PROVE MD!Init
    OBVIOUS
  <2>1. 1..alloc = {}
    BY DEF Init
  <2>2. Records = <<>>
    BY <2>1 DEF Records
  <2> QED
    BY <2>2 DEF Init, MD!Init, Records, Result, MD!Result
<1>2. IndInv /\ [Next]_vars => [MD!Next]_(MD!vars)
  <2> SUFFICES ASSUME IndInv, [Next]_vars PROVE [MD!Next]_(MD!vars)
    OBVIOUS
  <2> USE DEF IndInv
  <2> DEFINE Pos == [i \in Iters |-> [open |-> iter[i].open, at |-> iter[i].cur]]
  <2>m. /\ \A k \in Keys : MD!Holding(k) = {e \in Live : key[e] = Canon(k)}
        /\ \A i \in Iters : MD!Ahead(i) = {e \in Live : e > iter[i].cur}
    BY Mapping
  <2>h. ASSUME NEW k \in Keys
        PROVE  /\ lookup(k) = 0 => MD!Holding(k) = {}
               /\ lookup(k) # 0 => lookup(k) \in MD!Holding(k) /\ lookup(k) \in 1..alloc /\ lookup(k) \in Entry
    BY <2>m, LookupResult, LiveBounds DEF Live
  <2>1. ASSUME NEW k \in Keys, NEW v \in Vals, set(k, v) PROVE MD!Set(k, v)
    <3>1. ret' = Result(NoVal) /\ Pos' = Pos
      BY <2>1 DEF set
    <3>2. CASE lookup(k) = 0
      <4>1. Records' = Append(Records, [key |-> Canon(k), val |-> v])
        BY <2>1, <3>2, InsertAppends DEF set
      <4> QED
        BY <3>1, <3>2, <4>1, <2>h DEF MD!Set, MD!Add, MD!Canon, Canon, Records, Result, MD!Result
    <3>3. CASE lookup(k) # 0
      <4>1. /\ lookup(k) \in MD!Holding(k) /\ lookup(k) \in 1..alloc /\ lookup(k) \in Entry
            /\ val' = [val EXCEPT ![lookup(k)] = v] /\ key' = key /\ alloc' = alloc
        BY <2>1, <3>3, <2>h DEF set
      <4>2. \A e \in 1..alloc : val'[e] = IF e = lookup(k) THEN v ELSE val[e]
        BY <4>1, LiveBounds DEF TypeOK
      <4>3. Records' = [Records EXCEPT ![lookup(k)].val = v]
        BY <4>1, <4>2 DEF Records
      <4> QED
        BY <3>1, <4>1, <4>3 DEF MD!Set, Records, Result, MD!Result
    <3> QED
      BY <3>2, <3>3
  <2>2. ASSUME NEW k \in Keys, NEW v \in Vals, getOrInsert(k, v) PROVE MD!GetOrInsert(k, v)
    <3>1. Pos' = Pos
      BY <2>2 DEF getOrInsert
    <3>2. CASE lookup(k) = 0
      <4>1. Records' = Append(Records, [key |-> Canon(k), val |-> v]) /\ ret' = Result(v)
        BY <2>2, <3>2, InsertAppends DEF getOrInsert
      <4> QED
        BY <3>1, <3>2, <4>1, <2>h DEF MD!GetOrInsert, MD!Add, MD!Canon, Canon, Records, Result, MD!Result
    <3>3. CASE lookup(k) # 0
      <4>1. lookup(k) \in MD!Holding(k) /\ lookup(k) \in 1..alloc
        BY <3>3, <2>h
      <4>2. ret' = Result(val[lookup(k)]) /\ key' = key /\ val' = val /\ alloc' = alloc
        BY <2>2, <3>3 DEF getOrInsert, listVars
      <4> QED
        BY <3>1, <4>1, <4>2 DEF MD!GetOrInsert, Result, MD!Result
    <3> QED
      BY <3>2, <3>3
  <2>3. ASSUME NEW k \in Keys, remove(k) PROVE MD!Delete(k)
    <3>1. Pos' = Pos
      BY <2>3 DEF remove
    <3>2. CASE lookup(k) = 0
      <4>1. ret' = Result(FALSE) /\ key' = key /\ val' = val /\ alloc' = alloc
        BY <2>3, <3>2 DEF remove, listVars
      <4> QED
        BY <3>1, <3>2, <4>1, <2>h DEF MD!Delete, Result, MD!Result
    <3>3. CASE lookup(k) # 0
      <4>1. /\ lookup(k) \in MD!Holding(k) /\ lookup(k) \in 1..alloc /\ lookup(k) \in Entry
            /\ val' = [val EXCEPT ![lookup(k)] = NoVal] /\ key' = [key EXCEPT ![lookup(k)] = NoKey]
            /\ alloc' = alloc /\ ret' = Result(TRUE)
        BY <2>3, <3>3, <2>h DEF remove
      <4>2. \A e \in 1..alloc : /\ val'[e] = IF e = lookup(k) THEN NoVal ELSE val[e]
                                /\ key'[e] = IF e = lookup(k) THEN NoKey ELSE key[e]
        BY <4>1, LiveBounds DEF TypeOK
      <4>3. Records' = [Records EXCEPT ![lookup(k)] = [key |-> NoKey, val |-> NoVal]]
        BY <4>1, <4>2 DEF Records
      <4> QED
        BY <3>1, <4>1, <4>3 DEF MD!Delete, Records, Result, MD!Result
    <3> QED
      BY <3>2, <3>3
  <2>4. ASSUME NEW k \in Keys, get(k) PROVE MD!Get(k)
    <3>1. /\ key' = key /\ val' = val /\ alloc' = alloc /\ iter' = iter
          /\ ret' = Result(IF lookup(k) # 0 THEN val[lookup(k)] ELSE NoVal)
      BY <2>4 DEF get, listVars
    <3>2. CASE lookup(k) = 0
      BY <3>1, <3>2, <2>h DEF MD!Get, Result, MD!Result
    <3>3. CASE lookup(k) # 0
      BY <3>1, <3>3, <2>h DEF MD!Get, Result, MD!Result
    <3> QED
      BY <3>2, <3>3
  <2>5. ASSUME clear PROVE MD!Clear
    <3>1. /\ \A e \in 1..alloc : key'[e] = NoKey /\ val'[e] = NoVal
          /\ alloc' = alloc /\ iter' = iter /\ ret' = Result(NoVal)
      BY <2>5, LiveBounds DEF clear
    <3>2. Records' = [n \in DOMAIN Records |-> [key |-> NoKey, val |-> NoVal]]
      BY <3>1 DEF Records
    <3>3. Pos' = Pos
      BY <3>1
    <3>4. ret' = MD!Result(NoVal)
      BY <3>1 DEF Result, MD!Result
    <3> QED
      BY <3>2, <3>3, <3>4 DEF MD!Clear, Records
  <2>6. ASSUME NEW i \in Iters, newIter(i) PROVE MD!NewIterator(i)
    <3>1. /\ key' = key /\ val' = val /\ alloc' = alloc /\ ~iter[i].open /\ ret' = Result(NoVal)
          /\ iter' = [iter EXCEPT ![i] = [open |-> TRUE, cur |-> 0]]
      BY <2>6 DEF newIter, listVars
    <3>2. Pos' = [Pos EXCEPT ![i] = [open |-> TRUE, at |-> 0]]
      BY <3>1 DEF TypeOK
    <3> QED
      BY <3>1, <3>2 DEF MD!NewIterator, Result, MD!Result
  <2>7. ASSUME NEW i \in Iters, nextBegin(i) \/ nextTrackBack(i) PROVE UNCHANGED MD!vars
    BY <2>7 DEF nextBegin, nextTrackBack, listVars, MD!vars
  <2>8. ASSUME NEW i \in Iters, nextAdvance(i) PROVE MD!IterNext(i)
    <3> DEFINE c == scan[i].cur
               t == IF c # 0 THEN iterNext[c] ELSE iterFirst
    <3>1. /\ key' = key /\ val' = val /\ alloc' = alloc
          /\ scan[i].active /\ (c # 0 => key[c] # NoKey)
      BY <2>8 DEF nextAdvance, listVars
    <3>2. /\ iter[i].open /\ c <= iter[i].cur /\ \A d \in Live : d <= iter[i].cur => d <= c
          /\ c \in Nat /\ iter[i].cur \in Nat /\ iter[i].cur <= alloc
      BY <3>1, EntryBounds DEF ScanSkipsNothing, FreshIsBlank, TypeOK
    <3>3. c # 0 => c \in Live
      BY <3>1, <3>2, LiveBounds DEF Live
    <3>4. MD!Ahead(i) = {d \in Live : d > c}
      BY <3>2, <2>m, LiveBounds
    <3>5. /\ t = 0 => MD!Ahead(i) = {}
          /\ t # 0 => t \in MD!Ahead(i) /\ (\A m \in MD!Ahead(i) : t <= m) /\ t \in 1..alloc
      <4>1. CASE c # 0
        BY <4>1, <3>2, <3>3, <3>4, LiveBounds DEF ListInOrder
      <4>2. CASE c = 0
        BY <4>2, <3>2, <3>4, LiveBounds DEF ListInOrder
      <4> QED
        BY <4>1, <4>2
    <3>6. \/ /\ t = 0
             /\ iter' = [iter EXCEPT ![i] = [open |-> FALSE, cur |-> 0]]
             /\ ret' = Result(NoVal)
          \/ /\ t # 0
             /\ iter' = [iter EXCEPT ![i].cur = t]
             /\ ret' = [key |-> key[t], val |-> val[t]]
      BY <2>8 DEF nextAdvance
    <3> HIDE DEF t
    <3>7. CASE t = 0
      <4>0. iter' = [iter EXCEPT ![i] = [open |-> FALSE, cur |-> 0]]
        BY <3>6, <3>7
      <4>1. Pos' = [Pos EXCEPT ![i] = [open |-> FALSE, at |-> 0]]
        BY <4>0 DEF TypeOK
      <4> QED
        <5>1. Records' = Records /\ ret' = MD!Result(NoVal) /\ MD!Ahead(i) = {}
          BY <3>1, <3>5, <3>6, <3>7 DEF Records, Result, MD!Result
        <5> QED
          BY <5>1, <3>2, <4>1 DEF MD!IterNext, Records
    <3>8. CASE t # 0
      <4>1. Pos' = [Pos EXCEPT ![i].at = t]
        BY <3>6, <3>8, ZenonT(60) DEF TypeOK
      <4> QED
        <5>1. Records[t] = ret' /\ Records' = Records
          BY <3>1, <3>5, <3>6, <3>8 DEF Records
        <5> QED
          BY <5>1, <3>2, <3>5, <3>8, <4>1 DEF MD!IterNext, Records
    <3> QED
      BY <3>7, <3>8
  <2>9. CASE UNCHANGED vars
    BY <2>9 DEF vars, listVars, MD!vars
  <2> QED
    BY <2>1, <2>2, <2>3, <2>4, <2>5, <2>6, <2>7, <2>8, <2>9 DEF Next, MD!Next
<1>3. Spec => []IndInv
  BY Inductive
<1> QED
  BY <1>1, <1>2, <1>3, PTL DEF Spec, ImplementsMapData, MD!Spec

\* The list and the hash chains stay well formed, for every hash function.
THEOREM Safety == Spec => [](TypeOK /\ ListInOrder /\ BackPointersSkipNothing /\
                             ChainsComplete /\ KeysUnique /\ ScanSkipsNothing)
<1>1. IndInv => TypeOK /\ ListInOrder /\ BackPointersSkipNothing /\
                ChainsComplete /\ KeysUnique /\ ScanSkipsNothing
  BY DEF IndInv
<1> QED
  BY <1>1, Inductive, PTL

\* The live entries are finitely many.
LEMMA LiveIsFinite ==
    ASSUME TypeOK
    PROVE  IsFiniteSet(Live) /\ Cardinality(Live) \in Nat
<1>1. IsFiniteSet(1..alloc) /\ Live \in SUBSET (1..alloc)
  BY LiveBounds, FS_Interval DEF Live
<1>2. IsFiniteSet(Live)
  BY <1>1, FS_Subset
<1> QED
  BY <1>2, FS_CardinalityType

\* A new entry is one more to count.
LEMMA InsertCounts ==
    ASSUME IndInv, SizeIsLive, NEW k \in Keys, NEW v \in Vals, insert(k, v)
    PROVE  SizeIsLive'
<1>1. PICK e : e = alloc + 1
  OBVIOUS
<1>2. /\ alloc' = e /\ key' = [key EXCEPT ![e] = Canon(k)] /\ size' = size + 1 /\ alloc < MaxEntries
  BY <1>1 DEF insert
<1>3. e \in Entry /\ e \notin Live /\ alloc \in Nat
  BY <1>1, <1>2, LiveBounds, OrderedMapAssumption DEF IndInv, Entry, Live
<1>4. Canon(k) # NoKey
  BY CanonIsKey
<1>5. Live' = Live \union {e}
  BY <1>1, <1>2, <1>3, <1>4 DEF Live, IndInv, TypeOK
<1>6. PICK L : L = Live
  OBVIOUS
<1>7. IsFiniteSet(L) /\ Cardinality(L) \in Nat
  BY <1>6, LiveIsFinite DEF IndInv
<1>8. Cardinality(L \union {e}) = Cardinality(L) + 1
  BY <1>3, <1>6, <1>7, FS_AddElement
<1>9. Live' = L \union {e} /\ size' = Cardinality(L) + 1
  BY <1>2, <1>5, <1>6 DEF SizeIsLive
<1> QED
  BY <1>8, <1>9 DEF SizeIsLive

\* A removed entry is one less.
LEMMA RemoveCounts ==
    ASSUME IndInv, SizeIsLive, NEW k \in Keys, remove(k)
    PROVE  SizeIsLive'
<1>1. PICK e : e = lookup(k)
  OBVIOUS
<1>2. CASE e = 0
  <2>1. key' = key /\ alloc' = alloc /\ size' = size
    BY <1>1, <1>2 DEF remove, listVars
  <2> QED
    BY <2>1 DEF SizeIsLive, Live
<1>3. CASE e # 0
  <2>1. e \in Live /\ e \in Entry
    BY <1>1, <1>3, LookupResult, LiveBounds DEF IndInv
  <2>2. key' = [key EXCEPT ![e] = NoKey] /\ alloc' = alloc /\ size' = size - 1
    BY <1>1, <1>3 DEF remove
  <2>3. Live' = Live \ {e}
    BY <2>1, <2>2, LiveBounds DEF Live, IndInv, TypeOK
  <2>4. PICK L : L = Live
    OBVIOUS
  <2>5. IsFiniteSet(L) /\ Cardinality(L) \in Nat
    BY <2>4, LiveIsFinite DEF IndInv
  <2>6. Cardinality(L \ {e}) = Cardinality(L) - 1
    BY <2>1, <2>4, <2>5, FS_RemoveElement
  <2>7. Live' = L \ {e} /\ size' = Cardinality(L) - 1
    BY <2>2, <2>3, <2>4 DEF SizeIsLive
  <2> QED
    BY <2>6, <2>7 DEF SizeIsLive
<1> QED
  BY <1>2, <1>3

\* size, which Map.prototype.size reports, is always the number of entries that
\* have a key.
THEOREM SizeAlwaysLive == Spec => []SizeIsLive
<1>1. Init => SizeIsLive
  <2> SUFFICES ASSUME Init PROVE SizeIsLive
    OBVIOUS
  <2>1. alloc = 0 /\ size = 0
    BY DEF Init
  <2>2. Live = {}
    BY <2>1 DEF Live
  <2> QED
    BY <2>1, <2>2, FS_EmptySet DEF SizeIsLive
<1>2. IndInv /\ SizeIsLive /\ [Next]_vars => SizeIsLive'
  <2> SUFFICES ASSUME IndInv, SizeIsLive, [Next]_vars PROVE SizeIsLive'
    OBVIOUS
  <2>0. ASSUME UNCHANGED <<key, alloc, size>> PROVE SizeIsLive'
    BY <2>0 DEF SizeIsLive, Live
  <2>1. ASSUME NEW k \in Keys, NEW v \in Vals, set(k, v) PROVE SizeIsLive'
    <3>1. CASE lookup(k) = 0
      BY <2>1, <3>1, InsertCounts DEF set
    <3>2. CASE lookup(k) # 0
      BY <2>0, <2>1, <3>2 DEF set
    <3> QED
      BY <3>1, <3>2
  <2>2. ASSUME NEW k \in Keys, NEW v \in Vals, getOrInsert(k, v) PROVE SizeIsLive'
    <3>1. CASE lookup(k) = 0
      BY <2>2, <3>1, InsertCounts DEF getOrInsert
    <3>2. CASE lookup(k) # 0
      BY <2>0, <2>2, <3>2 DEF getOrInsert, listVars
    <3> QED
      BY <3>1, <3>2
  <2>3. ASSUME NEW k \in Keys, remove(k) PROVE SizeIsLive'
    BY <2>3, RemoveCounts
  <2>4. ASSUME NEW k \in Keys, get(k) PROVE SizeIsLive'
    BY <2>0, <2>4 DEF get, listVars
  <2>5. CASE clear
    <3>1. size' = 0 /\ key' = [e \in Entry |-> NoKey] /\ alloc' = alloc
      BY <2>5 DEF clear
    <3>2. Live' = {}
      BY <3>1, LiveBounds DEF Live, IndInv
    <3> QED
      BY <3>1, <3>2, FS_EmptySet DEF SizeIsLive
  <2>6. ASSUME NEW i \in Iters, newIter(i) \/ nextBegin(i) \/ nextTrackBack(i) \/ nextAdvance(i)
        PROVE  SizeIsLive'
    BY <2>0, <2>6 DEF newIter, nextBegin, nextTrackBack, nextAdvance, listVars
  <2>7. CASE UNCHANGED vars
    BY <2>0, <2>7 DEF vars, listVars
  <2> QED
    BY <2>1, <2>2, <2>3, <2>4, <2>5, <2>6, <2>7 DEF Next
<1> QED
  BY <1>1, <1>2, Inductive, PTL DEF Spec
=============================================================================
