----------------------------- MODULE OrderedMap -----------------------------
(***************************************************************************)
(* orderedMap (map.go): the hash table behind Map, Set and an object's     *)
(* symbol properties.  Entries are chained in their hash bucket and in a   *)
(* doubly-linked list in insertion order.  An iterator points at the last  *)
(* entry it returned, which may be removed, or the map cleared, before the *)
(* iterator is advanced again.                                             *)
(*                                                                         *)
(* An entry is its allocation number; 0 stands for the nil pointer.  A     *)
(* removed entry has the key NoKey, as the code sets entry.key = nil.      *)
(***************************************************************************)
EXTENDS Integers, Sequences, FiniteSets

CONSTANTS Keys, Vals, Iters,
          NegZero, Zero,  \* -0 and +0
          NoKey, NoVal,   \* nil as a key and as a value
          Hashes, Hash,   \* key.hash(m.hash): it may send two keys to one bucket
          MaxEntries      \* bound on the entries ever allocated

ASSUME OrderedMapAssumption ==
    /\ Zero \in Keys \ {NegZero}
    /\ NoKey \notin Keys
    /\ Hash \in [Keys -> Hashes]
    /\ MaxEntries \in Nat

VARIABLES key, val,             \* mapEntry.key and .value
          iterPrev, iterNext,   \* mapEntry.iterPrev and .iterNext
          hashTable,            \* per bucket: the chain of entries along hNext
          iterFirst, iterLast,  \* ends of the list
          size,
          alloc,                \* entries allocated so far
          iter,                 \* per orderedMapIter: open (m # nil) and cur
          scan,                 \* the iterator inside next()'s loop and the loop's cur
          ret                   \* what the last operation returned

listVars == <<key, val, iterPrev, iterNext, iterFirst, iterLast, size, alloc>>
vars == <<listVars, hashTable, iter, scan, ret>>

Ptr   == 0..MaxEntries          \* a *mapEntry
Entry == 1..MaxEntries

\* A result that is not an entry: the value of get, the boolean of remove.
Result(x) == [key |-> NoKey, val |-> x]

Idle == [active |-> FALSE, cur |-> 0]

\* Keys are stored and looked up with -0 replaced by +0.
Canon(k) == IF k = NegZero THEN Zero ELSE k

Chain(k) == hashTable[Hash[Canon(k)]]

\* The places in the chain of k where the walk along hNext stops.
Found(k) == {n \in 1..Len(Chain(k)) : key[Chain(k)[n]] = Canon(k)}

\* The place it stops first.
FoundAt(k) == CHOOSE n \in Found(k) : \A m \in Found(k) : n <= m

lookup(k) == IF Found(k) = {} THEN 0 ELSE Chain(k)[FoundAt(k)]

Init ==
    /\ key = [e \in Entry |-> NoKey]
    /\ val = [e \in Entry |-> NoVal]
    /\ iterPrev = [e \in Entry |-> 0]
    /\ iterNext = [e \in Entry |-> 0]
    /\ hashTable = [h \in Hashes |-> <<>>]
    /\ iterFirst = 0 /\ iterLast = 0
    /\ size = 0
    /\ alloc = 0
    /\ iter = [i \in Iters |-> [open |-> FALSE, cur |-> 0]]
    /\ scan = [i \in Iters |-> Idle]
    /\ ret = Result(NoVal)

\* Go code runs to completion: nothing happens while next() is in its loop.
Quiet == \A i \in Iters : ~scan[i].active

insert(k, v) ==
    LET e == alloc + 1 IN
    /\ alloc < MaxEntries
    /\ alloc' = e
    /\ key' = [key EXCEPT ![e] = Canon(k)]
    /\ val' = [val EXCEPT ![e] = v]
    /\ hashTable' = [hashTable EXCEPT ![Hash[Canon(k)]] = Append(@, e)]
    /\ iterPrev' = [iterPrev EXCEPT ![e] = iterLast]
    /\ IF iterLast # 0
       THEN iterNext' = [iterNext EXCEPT ![iterLast] = e] /\ UNCHANGED iterFirst
       ELSE iterFirst' = e /\ UNCHANGED iterNext
    /\ iterLast' = e
    /\ size' = size + 1

set(k, v) ==
    /\ Quiet
    /\ IF lookup(k) # 0
       THEN /\ val' = [val EXCEPT ![lookup(k)] = v]
            /\ UNCHANGED <<key, iterPrev, iterNext, iterFirst, iterLast, size, alloc, hashTable>>
       ELSE insert(k, v)
    /\ ret' = Result(NoVal)
    /\ UNCHANGED <<iter, scan>>

getOrInsert(k, v) ==
    /\ Quiet
    /\ IF lookup(k) # 0
       THEN ret' = Result(val[lookup(k)]) /\ UNCHANGED <<listVars, hashTable>>
       ELSE ret' = Result(v) /\ insert(k, v)
    /\ UNCHANGED <<iter, scan>>

get(k) ==
    /\ Quiet
    /\ ret' = Result(IF lookup(k) # 0 THEN val[lookup(k)] ELSE NoVal)
    /\ UNCHANGED <<listVars, hashTable, iter, scan>>

\* Mutant of unlink: removing the last entry leaves iterLast behind.
unlinkKeepsLast(e) ==
    /\ IF iterPrev[e] # 0
       THEN iterNext' = [iterNext EXCEPT ![iterPrev[e]] = iterNext[e]] /\ UNCHANGED iterFirst
       ELSE iterFirst' = iterNext[e] /\ UNCHANGED iterNext
    /\ IF iterNext[e] # 0
       THEN iterPrev' = [iterPrev EXCEPT ![iterNext[e]] = iterPrev[e]] /\ UNCHANGED iterLast
       ELSE UNCHANGED <<iterPrev, iterLast>>

\* Mutant of unlink: the removed entry's own iterPrev is reset to x.
unlinkResets(e, x) ==
    /\ IF iterPrev[e] # 0
       THEN iterNext' = [iterNext EXCEPT ![iterPrev[e]] = iterNext[e]] /\ UNCHANGED iterFirst
       ELSE iterFirst' = iterNext[e] /\ UNCHANGED iterNext
    /\ iterPrev' = [d \in Entry |-> IF d = e THEN x
                                    ELSE IF d = iterNext[e] THEN iterPrev[e] ELSE iterPrev[d]]
    /\ iterLast' = IF iterNext[e] = 0 THEN iterPrev[e] ELSE iterLast

\* Mutant of unlink: a removed entry points back to itself.
unlinkSelfLoop(e) == unlinkResets(e, e)

\* Takes entry e out of the doubly-linked list; e keeps its own pointers.
unlink(e) ==
    /\ IF iterPrev[e] # 0
       THEN iterNext' = [iterNext EXCEPT ![iterPrev[e]] = iterNext[e]] /\ UNCHANGED iterFirst
       ELSE iterFirst' = iterNext[e] /\ UNCHANGED iterNext
    /\ IF iterNext[e] # 0
       THEN iterPrev' = [iterPrev EXCEPT ![iterNext[e]] = iterPrev[e]] /\ UNCHANGED iterLast
       ELSE iterLast' = iterPrev[e] /\ UNCHANGED iterPrev

remove(k) ==
    LET e == lookup(k)
        c == Chain(k)
        n == FoundAt(k)
    IN
    /\ Quiet
    /\ \/ /\ e # 0
          /\ key' = [key EXCEPT ![e] = NoKey]
          /\ val' = [val EXCEPT ![e] = NoVal]
          /\ unlink(e)
          /\ hashTable' = [hashTable EXCEPT ![Hash[Canon(k)]] =
                               SubSeq(c, 1, n - 1) \o SubSeq(c, n + 1, Len(c))]
          /\ size' = size - 1
          /\ ret' = Result(TRUE)
          /\ UNCHANGED alloc
       \/ /\ e = 0
          /\ ret' = Result(FALSE)
          /\ UNCHANGED <<listVars, hashTable>>
    /\ UNCHANGED <<iter, scan>>

\* Mutants of clear: the table is replaced but the entries keep their keys,
\* or size is not reset.
clearKeepsKeys ==
    /\ Quiet
    /\ iterFirst' = 0 /\ iterLast' = 0
    /\ hashTable' = [h \in Hashes |-> <<>>]
    /\ size' = 0
    /\ ret' = Result(NoVal)
    /\ UNCHANGED <<key, val, iterPrev, iterNext, alloc, iter, scan>>
clearKeepsSize ==
    /\ Quiet
    /\ key' = [e \in Entry |-> NoKey]
    /\ val' = [e \in Entry |-> NoVal]
    /\ iterNext' = [e \in Entry |-> 0]
    /\ iterFirst' = 0 /\ iterLast' = 0
    /\ hashTable' = [h \in Hashes |-> <<>>]
    /\ ret' = Result(NoVal)
    /\ UNCHANGED <<iterPrev, size, alloc, iter, scan>>

\* The loop visits the list and cuts the iterNext of each visited entry's
\* predecessor.  The entries it visits are those that have a key: ListInOrder.
clear ==
    /\ Quiet
    /\ key' = [e \in Entry |-> NoKey]
    /\ val' = [e \in Entry |-> NoVal]
    /\ iterNext' = [e \in Entry |->
                      IF \E d \in Entry : key[d] # NoKey /\ iterPrev[d] = e
                      THEN 0 ELSE iterNext[e]]
    /\ iterFirst' = 0 /\ iterLast' = 0
    /\ hashTable' = [h \in Hashes |-> <<>>]
    /\ size' = 0
    /\ ret' = Result(NoVal)
    /\ UNCHANGED <<iterPrev, alloc, iter, scan>>

\* A closed or finished iterator's place is taken by a new iterator object.
newIter(i) ==
    /\ Quiet
    /\ ~iter[i].open
    /\ iter' = [iter EXCEPT ![i] = [open |-> TRUE, cur |-> 0]]
    /\ ret' = Result(NoVal)
    /\ UNCHANGED <<listVars, hashTable, scan>>

\* next() on an open iterator, up to its loop.
nextBegin(i) ==
    /\ Quiet
    /\ iter[i].open
    /\ scan' = [scan EXCEPT ![i] = [active |-> TRUE, cur |-> iter[i].cur]]
    /\ UNCHANGED <<listVars, hashTable, iter, ret>>

\* One turn of the loop: the current item was deleted, track back.
nextTrackBack(i) ==
    /\ scan[i].active
    /\ scan[i].cur # 0 /\ key[scan[i].cur] = NoKey
    /\ scan' = [scan EXCEPT ![i].cur = iterPrev[scan[i].cur]]
    /\ UNCHANGED <<listVars, hashTable, iter, ret>>

\* The rest of next(), after the loop; at the end of the list it closes.
nextAdvance(i) ==
    LET cur  == scan[i].cur
        succ == IF cur # 0 THEN iterNext[cur] ELSE iterFirst
    IN
    /\ scan[i].active
    /\ cur # 0 => key[cur] # NoKey
    /\ scan' = [scan EXCEPT ![i] = Idle]
    /\ \/ /\ succ = 0
          /\ iter' = [iter EXCEPT ![i] = [open |-> FALSE, cur |-> 0]]
          /\ ret' = Result(NoVal)
       \/ /\ succ # 0
          /\ iter' = [iter EXCEPT ![i].cur = succ]
          /\ ret' = [key |-> key[succ], val |-> val[succ]]
    /\ UNCHANGED <<listVars, hashTable>>

Next ==
    \/ \E k \in Keys, v \in Vals : set(k, v) \/ getOrInsert(k, v)
    \/ \E k \in Keys : remove(k) \/ get(k)
    \/ clear
    \/ \E i \in Iters : newIter(i) \/ nextBegin(i) \/ nextTrackBack(i) \/ nextAdvance(i)

\* next()'s loop is straight-line Go code: once begun it goes on.
Fairness == \A i \in Iters : WF_vars(nextTrackBack(i) \/ nextAdvance(i))

Spec == Init /\ [][Next]_vars
FairSpec == Spec /\ Fairness

-----------------------------------------------------------------------------
Live == {e \in 1..alloc : key[e] # NoKey}

\* Type correctness; -0 is never stored as a key.
TypeOK ==
    /\ alloc \in 0..MaxEntries
    /\ key \in [Entry -> (Keys \ {NegZero}) \union {NoKey}]
    /\ val \in [Entry -> Vals \union {NoVal}]
    /\ iterPrev \in [Entry -> Ptr]
    /\ iterNext \in [Entry -> Ptr]
    /\ hashTable \in [Hashes -> Seq(Entry)]
    /\ iterFirst \in Ptr /\ iterLast \in Ptr
    /\ size \in Int
    /\ iter \in [Iters -> [open : BOOLEAN, cur : Ptr]]
    /\ scan \in [Iters -> [active : BOOLEAN, cur : Ptr]]

\* The doubly-linked list runs through exactly the entries that have a key,
\* in insertion order, both ways; clear() and insert() rely on it.
ListInOrder ==
    /\ \A e \in Live :
         /\ iterNext[e] = 0 \/ (iterNext[e] \in Live /\ iterNext[e] > e)
         /\ \A d \in Live : d > e => iterNext[e] # 0 /\ d >= iterNext[e]
         /\ iterPrev[e] = 0 \/ iterPrev[e] \in Live
    /\ iterFirst = 0 \/ iterFirst \in Live
    /\ iterLast = 0 \/ iterLast \in Live
    /\ \A d \in Live : iterFirst # 0 /\ iterFirst <= d /\ d <= iterLast

\* What next() relies on when its entry was deleted behind its back: between
\* an entry, removed or not, and its iterPrev no entry has a key.
BackPointersSkipNothing ==
    \A e \in 1..alloc :
       /\ iterPrev[e] < e
       /\ \A d \in Live : d < e => d <= iterPrev[e]

\* Every entry with a key is in its bucket's chain, so lookup finds it.
ChainsComplete ==
    \A e \in Live : \E n \in 1..Len(hashTable[Hash[key[e]]]) : hashTable[Hash[key[e]]][n] = e

\* No two entries hold one key: +0 and -0, or a key set again after removal
\* or a rehash collision, never appear twice in an iteration.
KeysUnique == \A d, e \in Live : key[d] = key[e] => d = e

\* The loop in next() never steps over an entry that iteration still owes.
ScanSkipsNothing ==
    \A i \in Iters : scan[i].active =>
       /\ iter[i].open
       /\ scan[i].cur <= iter[i].cur
       /\ \A d \in Live : d <= iter[i].cur => d <= scan[i].cur

\* Entries not yet allocated are blank and no iterator points at them.
FreshIsBlank ==
    /\ \A e \in Entry : e > alloc => key[e] = NoKey /\ iterNext[e] = 0
    /\ \A e \in 1..alloc : iterNext[e] <= alloc
    /\ \A i \in Iters : iter[i].cur <= alloc

\* The map's links agree whatever set, remove, clear and the iterators did: the
\* list runs over the live entries in the order of insertion, back pointers (those
\* of removed entries too) lead an iterator past no live entry, every hash chain
\* holds exactly the live entries of its hash, and no key is there twice. This is
\* the inductive invariant behind the theorems of OrderedMapProofs.
IndInv ==
    /\ TypeOK /\ FreshIsBlank
    /\ ListInOrder /\ BackPointersSkipNothing /\ ScanSkipsNothing
    /\ ChainsComplete /\ KeysUnique

\* size is the number of entries that have a key, whatever was removed or cleared.
SizeIsLive == size = Cardinality(Live)

\* The map is the list of records that the language promises.
MD == INSTANCE MapData WITH
        records <- [e \in 1..alloc |-> [key |-> key[e], val |-> val[e]]],
        pos     <- [i \in Iters |-> [open |-> iter[i].open, at |-> iter[i].cur]]

\* Every operation of orderedMap and its iterators is one operation of
\* MapData: in particular next() returns the first entry not yet passed.
ImplementsMapData == MD!Spec

\* next() returns: its loop over removed entries ends.
NextReturns == \A i \in Iters : scan[i].active ~> ~scan[i].active
=============================================================================
