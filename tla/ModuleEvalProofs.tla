-------------------------- MODULE ModuleEvalProofs --------------------------
(***************************************************************************)
(* Proofs about the evaluation of module graphs (ModuleEval), for every    *)
(* graph of any size: no body runs twice, a fulfilled promise means that   *)
(* the body is done, and pendingAsyncDependancies never goes below zero.   *)
(* The second part is about the order in which bodies begin, and what the  *)
(* counts amount to.                                                       *)
(***************************************************************************)
EXTENDS ModuleEval, FiniteSetTheorems, SequenceTheorems, TLAPS

\* pendingAsyncDependancies of m covers all that m is still to hear of, and once
\* m begins, or is in execList, there is nothing left to hear of.
Counts(m) ==
    /\ IsFiniteSet(Unheard(m))
    /\ IF Begins(m) THEN Unheard(m) = {} ELSE Cardinality(Unheard(m)) <= pending[m]

\* Jobs without the counting.
JobList ==
    /\ \A m \in exec : body[m].began = 0
    /\ \A g \in 1..Len(gather) : gather[g].m \in exec \ tla \/ body[gather[g].m].at = "done"
    /\ \A g, h \in 1..Len(gather) : gather[g].m = gather[h].m => g = h

\* The inductive invariant: the records, the walk, the jobs and the counting
\* support each other, and the two properties follow the bodies.
IndInv == Consistent /\ ExecutesOnce /\ FulfilledMeansDone

-----------------------------------------------------------------------------
(* Sequences *)

\* An element appended to a sequence: the Go stacks grow at the end.
LEMMA Appended ==
    ASSUME NEW S, NEW s \in Seq(S), NEW e \in S
    PROVE  /\ Append(s, e) \in Seq(S) /\ Len(Append(s, e)) = Len(s) + 1
           /\ Len(s) \in Nat /\ Append(s, e) # <<>>
           /\ \A i \in 1..Len(s) : Append(s, e)[i] = s[i]
           /\ Append(s, e)[Len(s) + 1] = e
           /\ Elements(Append(s, e)) = Elements(s) \union {e}
<1> DEFINE t == Append(s, e)
<1>1. /\ t \in Seq(S) /\ Len(t) = Len(s) + 1 /\ Len(s) \in Nat
      /\ \A i \in 1..Len(s) : t[i] = s[i]
      /\ t[Len(s) + 1] = e
  BY AppendProperties, LenProperties
<1>2. t # <<>>
  BY <1>1, EmptySeq
<1> HIDE DEF t
<1>3. Elements(t) \subseteq Elements(s) \union {e}
  <2> SUFFICES ASSUME NEW i \in 1..(Len(s) + 1) PROVE t[i] \in Elements(s) \union {e}
    BY <1>1 DEF Elements
  <2>1. i \in 1..Len(s) \/ i = Len(s) + 1
    BY <1>1
  <2> QED
    BY <2>1, <1>1 DEF Elements
<1>4. Elements(s) \union {e} \subseteq Elements(t)
  <2>1. \A i \in 1..Len(s) : i \in 1..(Len(s) + 1)
    BY <1>1
  <2>2. Len(s) + 1 \in 1..(Len(s) + 1)
    BY <1>1
  <2> QED
    BY <2>1, <2>2, <1>1 DEF Elements
<1> QED
  BY <1>1, <1>2, <1>3, <1>4 DEF t

\* A stack cut to n elements, as finish leaves stackInstance.
LEMMA Kept ==
    ASSUME NEW S, NEW s \in Seq(S), NEW n \in 0..Len(s)
    PROVE  /\ SubSeq(s, 1, n) \in Seq(S) /\ Len(SubSeq(s, 1, n)) = n
           /\ \A i \in 1..n : SubSeq(s, 1, n)[i] = s[i]
           /\ Elements(SubSeq(s, 1, n)) \subseteq Elements(s)
<1>1. Len(s) \in Nat /\ \A i \in 1..Len(s) : s[i] \in S
  BY LenProperties, ElementOfSeq
<1>2. 1 \in Int /\ n \in Int /\ \A i \in 1..n : s[i] \in S
  BY <1>1
<1>3. /\ SubSeq(s, 1, n) \in Seq(S)
      /\ Len(SubSeq(s, 1, n)) = IF 1 <= n THEN n - 1 + 1 ELSE 0
      /\ \A i \in 1..(n - 1 + 1) : SubSeq(s, 1, n)[i] = s[1 + i - 1]
  BY <1>2, SubSeqProperties
<1>4. Len(SubSeq(s, 1, n)) = n
  BY <1>1, <1>3
<1>5. \A i \in 1..n : SubSeq(s, 1, n)[i] = s[i]
  BY <1>1, <1>3
<1>6. Elements(SubSeq(s, 1, n)) \subseteq Elements(s)
  BY <1>1, <1>4, <1>5 DEF Elements
<1> QED
  BY <1>3, <1>4, <1>5, <1>6

\* The last element and the rest of a stack, as Top and Pop take them.
LEMMA Popped ==
    ASSUME NEW S, NEW s \in Seq(S), s # <<>>
    PROVE  /\ Len(s) \in Nat \ {0} /\ Len(s) \in 1..Len(s) /\ Top(s) = s[Len(s)] /\ Top(s) \in S
           /\ Pop(s) \in Seq(S) /\ Len(Pop(s)) = Len(s) - 1
           /\ \A i \in 1..(Len(s) - 1) : Pop(s)[i] = s[i]
<1>1. Len(s) \in Nat \ {0} /\ \A i \in 1..Len(s) : s[i] \in S
  BY EmptySeq, LenProperties, ElementOfSeq
<1>2. Len(s) \in 1..Len(s) /\ Len(s) - 1 \in 0..Len(s)
  BY <1>1
<1> QED
  BY <1>1, <1>2, Kept DEF Top, Pop

\* The activation on top goes on to its next entry.
LEMMA Advanced ==
    ASSUME NEW s \in Seq(Activation), s # <<>>,
           NEW t, t = [s EXCEPT ![Len(s)].next = @ + 1]
    PROVE  /\ t \in Seq(Activation) /\ Len(t) = Len(s) /\ t # <<>>
           /\ \A i \in 1..Len(s) : t[i].m = s[i].m
           /\ \A i \in 1..Len(s) : t[i].next = IF i = Len(s) THEN s[i].next + 1 ELSE s[i].next
<1>1. Len(s) \in Nat \ {0} /\ Len(s) \in 1..Len(s) /\ Top(s) = s[Len(s)] /\ Top(s) \in Activation
  BY Popped
<1> DEFINE e == [s[Len(s)] EXCEPT !.next = @ + 1]
<1>2. e \in Activation /\ e.m = s[Len(s)].m /\ e.next = s[Len(s)].next + 1
  BY <1>1 DEF Activation
<1>3. t = [s EXCEPT ![Len(s)] = e]
  BY <1>1
<1> HIDE DEF e
<1>4. /\ t \in Seq(Activation) /\ Len(t) = Len(s)
      /\ \A j \in 1..Len(s) : t[j] = IF j = Len(s) THEN e ELSE s[j]
  BY <1>1, <1>2, <1>3, ExceptSeq
<1>5. t # <<>>
  BY <1>1, <1>4, EmptySeq
<1> QED
  BY <1>1, <1>2, <1>4, <1>5

-----------------------------------------------------------------------------
(* Counting *)

\* What Unheard holds: entries of m whose owner has yet to tell it.
LEMMA UnheardIs ==
    ASSUME NEW m
    PROVE  \A e : e \in Unheard(m) <=>
              \E d \in Modules : \E i \in 1..Len(asyncParents[d]) :
                 e = <<d, i>> /\ asyncParents[d][i] = m /\ Telling(d, i)
BY DEF Unheard, Entries

\* The same after a step.
LEMMA UnheardIsThen ==
    ASSUME NEW m
    PROVE  \A e : e \in Unheard(m)' <=>
              \E d \in Modules : \E i \in 1..Len(asyncParents'[d]) :
                 e = <<d, i>> /\ asyncParents'[d][i] = m /\ Telling(d, i)'
BY DEF Unheard, Entries

\* If no entry of m comes to be told anew, m has no more to hear of.
LEMMA UnheardShrinks ==
    ASSUME NEW m,
           \A d \in Modules : \A i \in 1..Len(asyncParents'[d]) :
              asyncParents'[d][i] = m /\ Telling(d, i)'
              => i \in 1..Len(asyncParents[d]) /\ asyncParents[d][i] = m /\ Telling(d, i)
    PROVE  Unheard(m)' \subseteq Unheard(m)
<1> SUFFICES ASSUME NEW e, e \in Unheard(m)' PROVE e \in Unheard(m)
  OBVIOUS
<1>1. PICK d \in Modules : \E i \in 1..Len(asyncParents'[d]) :
         e = <<d, i>> /\ asyncParents'[d][i] = m /\ Telling(d, i)'
  BY UnheardIsThen
<1>2. PICK i \in 1..Len(asyncParents'[d]) :
         e = <<d, i>> /\ asyncParents'[d][i] = m /\ Telling(d, i)'
  BY <1>1
<1>3. i \in 1..Len(asyncParents[d]) /\ asyncParents[d][i] = m /\ Telling(d, i)
  BY <1>2
<1> QED
  BY <1>2, <1>3, UnheardIs

\* Then the count of m still holds, if m begins only when nothing is pending.
LEMMA CountKept ==
    ASSUME NEW m, Counts(m), Unheard(m)' \subseteq Unheard(m),
           pending[m] \in Nat, pending'[m] = pending[m],
           Begins(m) => Begins(m)', Begins(m)' => Begins(m) \/ pending[m] = 0
    PROVE  Counts(m)'
<1>1. PICK U : U = Unheard(m)
  OBVIOUS
<1>2. PICK V : V = Unheard(m)'
  OBVIOUS
<1>3. IsFiniteSet(U) /\ V \in SUBSET U
  BY <1>1, <1>2 DEF Counts
<1>4. IsFiniteSet(V) /\ Cardinality(V) <= Cardinality(U)
  BY <1>3, FS_Subset
<1>5. Cardinality(U) \in Nat /\ Cardinality(V) \in Nat
  BY <1>3, <1>4, FS_CardinalityType
<1>6. CASE Begins(m)
  <2>1. U = {} /\ V = {}
    BY <1>1, <1>3, <1>6 DEF Counts
  <2> QED
    BY <2>1, <1>2, <1>4, <1>6 DEF Counts
<1>7. CASE ~Begins(m)
  <2>1. Cardinality(U) <= pending[m]
    BY <1>1, <1>7 DEF Counts
  <2>2. CASE Begins(m)'
    <3>1. pending[m] = 0
      BY <1>7, <2>2
    <3>2. Cardinality(V) = 0
      BY <3>1, <2>1, <1>4, <1>5
    <3>3. V = {}
      BY <3>2, <1>4, FS_EmptySet
    <3> QED
      BY <3>3, <1>2, <1>4, <2>2 DEF Counts
  <2>3. CASE ~Begins(m)'
    <3>1. Cardinality(V) <= pending'[m]
      BY <2>1, <1>4, <1>5
    <3> QED
      BY <3>1, <1>2, <1>4, <2>3 DEF Counts
  <2> QED
    BY <2>2, <2>3
<1> QED
  BY <1>6, <1>7

\* JobsOK in its two parts, now and after a step.
LEMMA JobsSplit ==
    /\ JobsOK <=> JobList /\ \A m \in Modules \ failed : Counts(m)
    /\ JobsOK' <=> JobList' /\ \A m \in Modules \ failed' : Counts(m)'
BY DEF JobsOK, JobList, Counts

\* A step that adds no entry, lets no module tell anew and changes no count.
LEMMA CountsKept ==
    ASSUME TypeOK, JobsOK, UNCHANGED asyncParents, failed \subseteq failed',
           \A d \in Modules : \A i \in 1..Len(asyncParents[d]) : Telling(d, i)' => Telling(d, i),
           \A m \in Modules \ failed' :
              /\ pending'[m] = pending[m]
              /\ Begins(m) => Begins(m)'
              /\ Begins(m)' => Begins(m) \/ pending[m] = 0
    PROVE  \A m \in Modules \ failed' : Counts(m)'
<1> SUFFICES ASSUME NEW m \in Modules, m \notin failed' PROVE Counts(m)'
  OBVIOUS
<1>1. Counts(m)
  BY JobsSplit
<1>2. Unheard(m)' \subseteq Unheard(m)
  BY UnheardShrinks
<1>3. pending[m] \in Nat
  BY DEF TypeOK
<1> QED
  BY <1>1, <1>2, <1>3, CountKept

\* The types of what a module record holds.
LEMMA Types ==
    ASSUME TypeOK
    PROVE  /\ \A m \in Modules : graph[m] \in Seq(Modules) /\ Len(graph[m]) \in Nat
           /\ \A m \in Modules : asyncParents[m] \in Seq(Modules) /\ Len(asyncParents[m]) \in Nat
           /\ \A m \in Modules : pending[m] \in Nat /\ pending[m] <= Len(graph[m])
           /\ \A m \in Modules : body[m] \in [at : {"none", "running", "done", "threw"}, began : Nat]
           /\ Len(go) \in Nat /\ Len(stack) \in Nat /\ Len(gather) \in Nat
           /\ \A i \in 1..Len(go) : go[i] \in Activation
           /\ \A i \in 1..Len(stack) : stack[i] \in Modules
           /\ \A i \in 1..Len(gather) : gather[i] \in Activation
<1>1. graph \in [Modules -> Seq(Modules)]
  BY ModuleEvalAssumption DEF TypeOK
<1> QED
  BY <1>1, LenProperties, ElementOfSeq DEF TypeOK

-----------------------------------------------------------------------------
(* The walk *)

\* Entering a module that has no instance (innerModuleEvaluation up to its loop):
\* nobody has it among its asyncParents yet, so its count may start from zero.
LEMMA EnterKeeps ==
    ASSUME IndInv, NEW c \in Modules, c \notin instances, NEW ix,
           gather = <<>>, exec = {}, enter(c, go, stack, ix),
           capability' = capability \/ capability' = [capability EXCEPT ![c] = "pending"],
           UNCHANGED <<graphVars, cycleRoot, asyncEvaluation, counter, asyncParents, failed, body,
                       jobVars>>
    PROVE  IndInv'
<1>1. /\ instances' = instances \union {c}
      /\ status' = [status EXCEPT ![c] = "evaluating"]
      /\ pending' = [pending EXCEPT ![c] = 0]
      /\ stack' = Append(stack, c) /\ go' = Append(go, [m |-> c, next |-> 1])
  BY DEF enter
<1>2. /\ graph' = graph /\ tla' = tla /\ cycleRoot' = cycleRoot
      /\ asyncEvaluation' = asyncEvaluation /\ counter' = counter /\ asyncParents' = asyncParents
      /\ failed' = failed /\ body' = body /\ gather' = gather /\ exec' = exec
  BY DEF graphVars, jobVars
<1>a. TypeOK /\ WalkOK /\ RecordsOK /\ JobsOK /\ ExecutesOnce /\ FulfilledMeansDone
  BY DEF IndInv, Consistent
<1>3. [m |-> c, next |-> 1] \in Activation
  BY DEF Activation
<1>4. /\ stack' \in Seq(Modules) /\ Len(stack') = Len(stack) + 1 /\ Len(stack) \in Nat
      /\ \A i \in 1..Len(stack) : stack'[i] = stack[i]
      /\ stack'[Len(stack) + 1] = c
      /\ Elements(stack') = Elements(stack) \union {c}
  BY <1>1, <1>a, Appended DEF TypeOK
<1>5. /\ go' \in Seq(Activation) /\ Len(go') = Len(go) + 1 /\ Len(go) \in Nat /\ go' # <<>>
      /\ \A i \in 1..Len(go) : go'[i] = go[i]
      /\ go'[Len(go) + 1] = [m |-> c, next |-> 1]
  <2>1. go \in Seq(Activation)
    BY <1>a DEF TypeOK
  <2>2. PICK e \in Activation : e = [m |-> c, next |-> 1]
    BY <1>3
  <2>3. go' = Append(go, e)
    BY <1>1, <2>2
  <2> QED
    BY <2>1, <2>2, <2>3, Appended
<1>6. \A i \in 1..Len(go') : i \in 1..Len(go) \/ i = Len(go) + 1
  BY <1>5
<1>7. \A i \in 1..Len(stack') : i \in 1..Len(stack) \/ i = Len(stack) + 1
  BY <1>4
<1>8. c \notin Elements(stack) /\ c \notin failed
  BY <1>a DEF WalkOK, TypeOK
<1>9. \A i \in 1..Len(go) : go[i].m \in Elements(stack) /\ go[i].m # c /\ go[i].m \in Modules
  <2>1. \A i \in 1..Len(go) : go[i] \in Activation
    BY <1>a, Types
  <2>2. \A i \in 1..Len(go) : go[i].m \in Modules
    BY <2>1 DEF Activation
  <2>3. \A i \in 1..Len(go) : go[i].m \in Elements(stack)
    BY <1>a DEF WalkOK
  <2> QED
    BY <2>2, <2>3, <1>8
<1>10. TypeOK'
  <2>1. graph' \in Graphs /\ tla' \subseteq Modules /\ instances' \subseteq Modules
        /\ failed' \subseteq instances' /\ exec' \subseteq instances'
    BY <1>1, <1>2, <1>a DEF TypeOK
  <2>2. status' \in [Modules -> {"new", "evaluating", "evaluating-async", "evaluated"}]
    BY <1>1, <1>a DEF TypeOK
  <2>3. pending' \in [Modules -> Nat] /\ \A m \in Modules : pending'[m] <= Len(graph'[m])
    BY <1>1, <1>2, <1>a, Types, SMTT(30) DEF TypeOK
  <2>4. cycleRoot' \in [Modules -> {0} \union instances']
    BY <1>1, <1>2, <1>a DEF TypeOK
  <2>5. capability' \in [Modules -> {"none", "pending", "fulfilled", "rejected"}]
    BY <1>a DEF TypeOK
  <2> QED
    BY <2>1, <2>2, <2>3, <2>4, <2>5, <1>2, <1>4, <1>5, <1>a, ZenonT(60) DEF TypeOK
<1>11. WalkOK'
  <2>1. Elements(stack)' \subseteq instances' \ failed'
    BY <1>1, <1>2, <1>4, <1>8, <1>a DEF WalkOK, Elements
  <2>2. \A a, b \in 1..Len(stack') : stack'[a] = stack'[b] => a = b
    <3>1. \A a \in 1..Len(stack) : stack'[a] # c
      BY <1>4, <1>8 DEF Elements
    <3> QED
      BY <3>1, <1>4, <1>7, <1>a DEF WalkOK
  <2>3. ASSUME NEW i \in 1..Len(go')
        PROVE  /\ go'[i].m \in Elements(stack)'
               /\ body'[go'[i].m].began = 0 /\ asyncEvaluation'[go'[i].m] = 0
               /\ pending'[go'[i].m] < go'[i].next /\ go'[i].next <= Len(graph'[go'[i].m]) + 1
    <3>1. CASE i \in 1..Len(go)
      BY <3>1, <1>1, <1>2, <1>4, <1>5, <1>9, <1>a, ZenonT(60) DEF WalkOK, TypeOK, Elements
    <3>2. CASE i = Len(go) + 1
      <4>1. go'[i].m = c /\ go'[i].next = 1
        BY <3>2, <1>5
      <4>2. pending'[c] = 0 /\ body'[c].began = 0 /\ asyncEvaluation'[c] = 0
        BY <1>1, <1>2, <1>a DEF TypeOK, RecordsOK
      <4>3. Len(graph'[c]) \in Nat
        BY <1>2, <1>a, Types
      <4>4. c \in Elements(stack)'
        BY <1>4 DEF Elements
      <4> QED
        BY <4>1, <4>2, <4>3, <4>4
    <3> QED
      BY <3>1, <3>2, <1>6
  <2>4. ASSUME NEW i \in 1..Len(go'), NEW j \in 1..Len(go'),
               NEW a \in 1..Len(stack'), NEW b \in 1..Len(stack'),
               stack'[a] = go'[i].m, stack'[b] = go'[j].m, i < j
        PROVE  a < b
    <3>1. i \in 1..Len(go) /\ go'[i] = go[i]
      BY <1>5, <2>4
    <3>2. a \in 1..Len(stack) /\ stack'[a] = stack[a]
      BY <3>1, <1>4, <1>7, <1>9, <2>4
    <3>3. CASE j \in 1..Len(go)
      <4>1. go'[j] = go[j]
        BY <3>3, <1>5
      <4>2. b \in 1..Len(stack) /\ stack'[b] = stack[b]
        BY <4>1, <3>3, <1>4, <1>7, <1>9, <2>4
      <4> QED
        BY <3>1, <3>2, <3>3, <4>1, <4>2, <2>4, <1>a, ZenonT(60) DEF WalkOK
    <3>4. CASE j = Len(go) + 1
      <4>1. stack'[b] = c
        BY <3>4, <1>5, <2>4
      <4>2. b \notin 1..Len(stack)
        BY <4>1, <1>4, <1>8 DEF Elements
      <4> QED
        BY <4>2, <3>2, <1>4, <1>7
    <3> QED
      BY <3>3, <3>4, <1>6
  <2> QED
    BY <2>1, <2>2, <2>3, <2>4, <1>2, <1>5 DEF WalkOK
<1>12. RecordsOK'
  <2>1. \A m \in Walking : m \in Walking'
    BY <1>5 DEF Walking
  <2>2. c \in Walking'
    <3>1. Len(go) + 1 \in 1..Len(go') /\ go'[Len(go) + 1].m = c
      BY <1>5
    <3> QED
      BY <3>1 DEF Walking
  <2>3. \A m \in Modules : m # c => status'[m] = status[m]
    BY <1>1, <1>a DEF TypeOK
  <2>4. status'[c] = "evaluating"
    BY <1>1, <1>a DEF TypeOK
  <2>5. \A m \in Modules : Elements(asyncParents'[m]) \subseteq instances'
    BY <1>1, <1>2, <1>a DEF RecordsOK
  <2>6. \A m \in Modules \ instances' : body'[m].began = 0 /\ asyncEvaluation'[m] = 0
    BY <1>1, <1>2, <1>a DEF RecordsOK
  <2>7. \A m \in failed' : status'[m] = "evaluated"
    BY <2>3, <1>2, <1>8, <1>a DEF RecordsOK, TypeOK
  <2>8. \A m \in Modules : status'[m] = "evaluated" => m \in failed' \/ body'[m].at = "done"
    BY <2>3, <2>4, <1>2, <1>a DEF RecordsOK
  <2>9. \A m \in instances' \ Walking' : asyncEvaluation'[m] = 0 => m \in failed' \/ body'[m].at = "done"
    BY <2>1, <2>2, <1>1, <1>2, <1>a DEF RecordsOK
  <2> QED
    BY <2>5, <2>6, <2>7, <2>8, <2>9, <1>2, <1>a DEF RecordsOK, Elements
<1>13. JobsOK'
  <2>1. \A d \in Modules : \A i \in 1..Len(asyncParents[d]) : Telling(d, i)' => Telling(d, i)
    BY <1>2 DEF Telling, ToTell
  <2>2. ASSUME NEW m \in Modules, m \notin failed' PROVE Counts(m)'
    <3>1. Counts(m) /\ (Begins(m)' <=> Begins(m))
      BY <2>2, <1>2, <1>a, JobsSplit DEF Begins
    <3>2. Unheard(m)' \subseteq Unheard(m)
      BY <2>1, <1>2, UnheardShrinks
    <3>3. pending[m] \in Nat
      BY <1>a, Types
    <3>4. CASE m # c
      <4>1. pending'[m] = pending[m]
        BY <3>4, <1>1, <1>a DEF TypeOK
      <4> QED
        BY <3>1, <3>2, <3>3, <4>1, CountKept
    <3>5. CASE m = c
      <4>1. \A d \in Modules : \A i \in 1..Len(asyncParents[d]) : asyncParents[d][i] # c
        BY <1>a DEF RecordsOK, Elements
      <4>2. Unheard(c)' = {}
        BY <4>1, <1>2, UnheardIsThen
      <4>3. PICK V : V = Unheard(c)'
        OBVIOUS
      <4>4. IsFiniteSet(V) /\ V = {} /\ Cardinality(V) = 0
        BY <4>2, <4>3, FS_EmptySet
      <4>5. Cardinality(V) <= pending'[c]
        BY <4>4, <1>1, <1>a DEF TypeOK
      <4> QED
        BY <3>5, <4>3, <4>4, <4>5 DEF Counts
    <3> QED
      BY <3>4, <3>5
  <2>3. JobList'
    BY <1>2, <1>a, JobsSplit DEF JobList
  <2> QED
    BY <2>2, <2>3, JobsSplit
<1>14. ExecutesOnce' /\ FulfilledMeansDone'
  <2>1. \A m \in Modules : capability'[m] = "fulfilled" => capability[m] = "fulfilled"
    BY <1>a DEF TypeOK
  <2> QED
    BY <2>1, <1>2, <1>a DEF ExecutesOnce, FulfilledMeansDone
<1> QED
  BY <1>10, <1>11, <1>12, <1>13, <1>14 DEF IndInv, Consistent

\* Between walks and jobs nothing is on a stack.
LEMMA QuietMeans ==
    ASSUME WalkOK, Quiet
    PROVE  go = <<>> /\ stack = <<>> /\ gather = <<>> /\ exec = {} /\ Walking = {} /\ Elements(stack) = {}
<1>1. go = <<>> /\ stack = <<>> /\ gather = <<>> /\ exec = {}
  BY DEF WalkOK, Quiet
<1>2. Len(<<>>) = 0
  BY EmptySeq
<1> QED
  BY <1>1, <1>2 DEF Walking, Elements

\* CyclicModuleRecordEvaluate of a module that was walked before answers at once:
\* one that is not asynchronous is done or has failed.
LEMMA EvaluateAgainKeeps ==
    ASSUME IndInv, NEW c \in Modules, Quiet, c \in instances,
           capability' = [capability EXCEPT ![c] = Answer(c)],
           UNCHANGED <<walkVars, instances, status, dfsIndex, dfsAncestorIndex, pending>>,
           UNCHANGED <<graphVars, cycleRoot, asyncEvaluation, counter, asyncParents, failed, body,
                       jobVars>>
    PROVE  IndInv'
<1>1. /\ go' = go /\ stack' = stack /\ instances' = instances /\ status' = status
      /\ pending' = pending /\ graph' = graph /\ tla' = tla /\ cycleRoot' = cycleRoot
      /\ asyncEvaluation' = asyncEvaluation /\ counter' = counter /\ asyncParents' = asyncParents
      /\ failed' = failed /\ body' = body /\ gather' = gather /\ exec' = exec
  BY DEF graphVars, jobVars, walkVars
<1>a. TypeOK /\ WalkOK /\ RecordsOK /\ JobsOK /\ ExecutesOnce /\ FulfilledMeansDone
  BY DEF IndInv, Consistent
<1>2. Answer(c) \in {"pending", "fulfilled"} /\ (Answer(c) = "fulfilled" => asyncEvaluation[c] = 0)
  BY DEF Answer
<1>3. TypeOK'
  <2>1. capability' \in [Modules -> {"none", "pending", "fulfilled", "rejected"}]
    BY <1>2, <1>a DEF TypeOK
  <2> QED
    BY <2>1, <1>1, <1>a DEF TypeOK
<1>4. WalkOK' /\ RecordsOK'
  BY <1>1, <1>a DEF WalkOK, RecordsOK, Elements, Walking
<1>5. JobsOK'
  <2>1. \A d \in Modules : \A i \in 1..Len(asyncParents[d]) : Telling(d, i)' => Telling(d, i)
    BY <1>1 DEF Telling, ToTell
  <2>2. \A m \in Modules : Begins(m)' <=> Begins(m)
    BY <1>1 DEF Begins
  <2>3. \A m \in Modules \ failed' : Counts(m)'
    BY <2>1, <2>2, <1>1, <1>a, CountsKept
  <2>4. JobList'
    BY <1>1, <1>a, JobsSplit DEF JobList
  <2> QED
    BY <2>3, <2>4, JobsSplit
<1>6. FulfilledMeansDone'
  <2>1. c \in instances \ Walking
    BY <1>a, QuietMeans
  <2>2. asyncEvaluation[c] = 0 => c \in failed \/ body[c].at = "done"
    BY <2>1, <1>a DEF RecordsOK
  <2>3. capability'[c] = "fulfilled" => c \in failed \/ body[c].at = "done"
    BY <2>2, <1>2, <1>a DEF TypeOK
  <2>4. \A m \in Modules : m # c => capability'[m] = capability[m]
    BY <1>a DEF TypeOK
  <2> QED
    BY <2>3, <2>4, <1>1, <1>a DEF FulfilledMeansDone
<1> QED
  BY <1>1, <1>3, <1>4, <1>5, <1>6, <1>a DEF IndInv, Consistent, ExecutesOnce

\* CyclicModuleRecordEvaluate.
LEMMA EvaluateKeeps ==
    ASSUME IndInv, NEW c \in Modules, Evaluate(c)
    PROVE  IndInv'
<1>1. Quiet /\ WalkOK
  BY DEF Evaluate, IndInv, Consistent
<1>2. go = <<>> /\ stack = <<>> /\ gather = <<>> /\ exec = {}
  BY <1>1, QuietMeans
<1>3. CASE /\ ~Instantiated(c)
           /\ capability' = [capability EXCEPT ![c] = "pending"]
           /\ enter(c, <<>>, <<>>, 0)
  <2>1. c \notin instances /\ enter(c, go, stack, 0)
    BY <1>2, <1>3 DEF Instantiated
  <2>2. UNCHANGED <<graphVars, cycleRoot, asyncEvaluation, counter, asyncParents, failed, body,
                    jobVars>>
    BY DEF Evaluate
  <2> QED
    BY <2>1, <2>2, <1>2, <1>3, EnterKeeps
<1>4. CASE /\ Instantiated(c)
           /\ capability' = [capability EXCEPT ![c] = Answer(c)]
           /\ UNCHANGED <<walkVars, instances, status, dfsIndex, dfsAncestorIndex, pending>>
  <2>1. c \in instances
    BY <1>4 DEF Instantiated
  <2>2. UNCHANGED <<graphVars, cycleRoot, asyncEvaluation, counter, asyncParents, failed, body,
                    jobVars>>
    BY DEF Evaluate
  <2> QED
    BY <2>1, <2>2, <1>1, <1>4, EvaluateAgainKeeps
<1> QED
  BY <1>3, <1>4 DEF Evaluate

\* Where the walk is: its module is on the stack and has not begun, and no other
\* activation is of the same module.
LEMMA HereIs ==
    ASSUME TypeOK, WalkOK, go # <<>>
    PROVE  /\ Len(go) \in Nat \ {0} /\ Len(go) \in 1..Len(go)
           /\ Here = go[Len(go)].m /\ Here \in Modules /\ Top(go) = go[Len(go)]
           /\ Top(go).next \in Nat \ {0}
           /\ gather = <<>> /\ exec = {}
           /\ Here \in Elements(stack) /\ Here \in instances /\ Here \notin failed
           /\ Here \in Walking
           /\ body[Here].began = 0 /\ asyncEvaluation[Here] = 0
           /\ pending[Here] < Top(go).next /\ Top(go).next <= Len(graph[Here]) + 1
           /\ \A i \in 1..Len(go) : go[i].m = Here => i = Len(go)
<1>1. /\ Len(go) \in Nat \ {0} /\ Len(go) \in 1..Len(go) /\ Top(go) = go[Len(go)]
      /\ Top(go) \in Activation
  BY Popped DEF TypeOK
<1>2. Here = go[Len(go)].m /\ Here \in Modules /\ Top(go).next \in Nat \ {0}
  BY <1>1 DEF Here, Activation
<1>3. /\ Here \in Elements(stack) /\ body[Here].began = 0 /\ asyncEvaluation[Here] = 0
      /\ pending[Here] < Top(go).next /\ Top(go).next <= Len(graph[Here]) + 1
  BY <1>1, <1>2 DEF WalkOK
<1>4. Here \in instances /\ Here \notin failed /\ gather = <<>> /\ exec = {}
  BY <1>3 DEF WalkOK
<1>5. ASSUME NEW i \in 1..Len(go), go[i].m = Here PROVE i = Len(go)
  <2>1. PICK a \in 1..Len(stack) : stack[a] = Here
    BY <1>3 DEF Elements
  <2>2. ~(i < Len(go))
    <3> SUFFICES ASSUME i < Len(go) PROVE FALSE
      OBVIOUS
    <3>1. a < a
      BY <2>1, <1>1, <1>2, <1>5 DEF WalkOK
    <3>2. a \in Nat
      BY Types
    <3> QED
      BY <3>1, <3>2
  <2> QED
    BY <2>2, <1>1
<1>6. Here \in Walking
  BY <1>1, <1>2 DEF Walking
<1> QED
  BY <1>1, <1>2, <1>3, <1>4, <1>5, <1>6

\* The next requested module is a module.
LEMMA RequiredIs ==
    ASSUME TypeOK, WalkOK, ToRequire
    PROVE  Required \in Modules
<1>1. go # <<>> /\ Top(go).next <= Len(graph[Here])
  BY DEF ToRequire
<1>2. Here \in Modules /\ Top(go).next \in Nat \ {0}
  BY <1>1, HereIs
<1>3. graph[Here] \in Seq(Modules) /\ Len(graph[Here]) \in Nat
  BY <1>2, Types
<1>4. Top(go).next \in 1..Len(graph[Here])
  BY <1>1, <1>2, <1>3
<1> QED
  BY <1>3, <1>4, ElementOfSeq DEF Required

\* A request for a module that has no instance.
LEMMA RequireNewKeeps ==
    ASSUME IndInv, RequireNew
    PROVE  IndInv'
<1>1. TypeOK /\ WalkOK /\ ToRequire /\ go # <<>>
  BY DEF IndInv, Consistent, RequireNew, ToRequire
<1>2. PICK c : c = Required
  OBVIOUS
<1>3. c \in Modules /\ c \notin instances /\ enter(c, go, stack, index)
  BY <1>1, <1>2, RequiredIs DEF RequireNew, Instantiated
<1>4. gather = <<>> /\ exec = {}
  BY <1>1, HereIs
<1>5. PICK ix : ix = index
  OBVIOUS
<1>6. enter(c, go, stack, ix)
  BY <1>3, <1>5
<1> QED
  BY <1>3, <1>4, <1>6, EnterKeeps DEF RequireNew

\* A request for a module that has an instance: if that is asynchronous, one more
\* is pending, and one entry more is there to hear of.
LEMMA RequireKeeps ==
    ASSUME IndInv, Require
    PROVE  IndInv'
<1>a. TypeOK /\ WalkOK /\ RecordsOK /\ JobsOK /\ ExecutesOnce /\ FulfilledMeansDone
  BY DEF IndInv, Consistent
<1>b. /\ instances' = instances /\ status' = status /\ graph' = graph /\ tla' = tla
      /\ cycleRoot' = cycleRoot /\ asyncEvaluation' = asyncEvaluation /\ counter' = counter
      /\ failed' = failed /\ capability' = capability /\ body' = body /\ stack' = stack
      /\ gather' = gather /\ exec' = exec
  BY DEF Require, graphVars, jobVars
<1>1. go # <<>> /\ Top(go).next <= Len(graph[Here])
  BY DEF Require, ToRequire
<1>2. PICK c : c = Here
  OBVIOUS
<1>3. PICK w : w = WaitsFor(Required)
  OBVIOUS
<1>4. PICK k : k = Top(go).next
  OBVIOUS
<1>5. /\ Len(go) \in Nat \ {0} /\ Len(go) \in 1..Len(go) /\ go[Len(go)].m = c /\ c \in Modules
      /\ k \in Nat \ {0} /\ go[Len(go)].next = k /\ gather = <<>> /\ exec = {}
      /\ c \in Elements(stack) /\ c \in instances /\ c \notin failed
      /\ body[c].began = 0 /\ pending[c] < k /\ k <= Len(graph[c])
      /\ \A i \in 1..Len(go) : go[i].m = c => i = Len(go)
  BY <1>1, <1>2, <1>4, <1>a, HereIs
<1>6. /\ go' \in Seq(Activation) /\ Len(go') = Len(go) /\ go' # <<>>
      /\ \A i \in 1..Len(go) : go'[i].m = go[i].m
      /\ \A i \in 1..Len(go) : go'[i].next = IF i = Len(go) THEN go[i].next + 1 ELSE go[i].next
  <2>1. PICK t : t = [go EXCEPT ![Len(go)].next = @ + 1]
    OBVIOUS
  <2>2. PICK s : s = go
    OBVIOUS
  <2>3. s \in Seq(Activation) /\ s # <<>> /\ t = [s EXCEPT ![Len(s)].next = @ + 1]
    BY <2>1, <2>2, <1>1, <1>a DEF TypeOK
  <2>4. /\ t \in Seq(Activation) /\ Len(t) = Len(s) /\ t # <<>>
        /\ \A i \in 1..Len(s) : t[i].m = s[i].m
        /\ \A i \in 1..Len(s) : t[i].next = IF i = Len(s) THEN s[i].next + 1 ELSE s[i].next
    BY <2>3, Advanced
  <2>5. go' = t
    BY <2>1 DEF Require
  <2> QED
    BY <2>2, <2>4, <2>5
<1>7. \/ /\ w \in Modules
         /\ pending' = [pending EXCEPT ![c] = @ + 1]
         /\ asyncParents' = [asyncParents EXCEPT ![w] = Append(@, c)]
      \/ pending' = pending /\ asyncParents' = asyncParents
  BY <1>2, <1>3 DEF Require, Asynchronous
<1>8. \A m \in Modules : pending[m] \in Nat /\ Len(graph[m]) \in Nat /\ pending[m] <= Len(graph[m])
  BY <1>a, Types
<1>9. /\ pending' \in [Modules -> Nat] /\ pending'[c] <= pending[c] + 1 /\ pending'[c] \in Nat
      /\ \A m \in Modules : m # c => pending'[m] = pending[m]
  <2>1. pending \in [Modules -> Nat] /\ c \in Modules /\ pending[c] \in Nat
    BY <1>5, <1>8, <1>a DEF TypeOK
  <2>2. CASE pending' = pending
    BY <2>1, <2>2
  <2>3. CASE pending' = [pending EXCEPT ![c] = @ + 1]
    BY <2>1, <2>3
  <2> QED
    BY <2>2, <2>3, <1>7
<1>10. /\ asyncParents' \in [Modules -> Seq(Modules)]
       /\ \A m \in Modules : Elements(asyncParents'[m]) \subseteq instances
  <2>1. CASE asyncParents' = asyncParents
    BY <2>1, <1>a DEF TypeOK, RecordsOK
  <2>2. CASE w \in Modules /\ asyncParents' = [asyncParents EXCEPT ![w] = Append(@, c)]
    <3>1. asyncParents[w] \in Seq(Modules)
      BY <2>2, <1>a DEF TypeOK
    <3>2. PICK s \in Seq(Modules) : s = Append(asyncParents[w], c)
      BY <3>1, <1>5, Appended
    <3>3. Elements(s) \subseteq instances
      BY <2>2, <3>1, <3>2, <1>5, <1>a, Appended DEF RecordsOK
    <3>4. asyncParents' = [asyncParents EXCEPT ![w] = s]
      BY <2>2, <3>2
    <3> QED
      <4>1. /\ asyncParents' \in [Modules -> Seq(Modules)] /\ asyncParents'[w] = s
            /\ \A m \in Modules : m # w => asyncParents'[m] = asyncParents[m]
        BY <2>2, <3>2, <3>4, <1>a DEF TypeOK
      <4>2. \A m \in Modules : Elements(asyncParents[m]) \subseteq instances
        BY <1>a DEF RecordsOK
      <4> QED
        BY <4>1, <4>2, <3>3
  <2> QED
    BY <2>1, <2>2, <1>7
<1>11. TypeOK'
  <2>1. \A m \in Modules : pending'[m] <= Len(graph'[m])
    <3>1. pending'[c] <= Len(graph[c])
      BY <1>5, <1>8, <1>9
    <3> QED
      BY <3>1, <1>b, <1>8, <1>9
  <2> QED
    BY <2>1, <1>b, <1>6, <1>9, <1>10, <1>a DEF TypeOK
<1>12. WalkOK'
  <2>1. ASSUME NEW i \in 1..Len(go')
        PROVE  /\ go'[i].m \in Elements(stack)'
               /\ body'[go'[i].m].began = 0 /\ asyncEvaluation'[go'[i].m] = 0
               /\ pending'[go'[i].m] < go'[i].next /\ go'[i].next <= Len(graph'[go'[i].m]) + 1
    <3>1. i \in 1..Len(go) /\ go'[i].m = go[i].m
      BY <1>6
    <3>2. /\ go[i].m \in Elements(stack)
          /\ body[go[i].m].began = 0 /\ asyncEvaluation[go[i].m] = 0
          /\ pending[go[i].m] < go[i].next /\ go[i].next <= Len(graph[go[i].m]) + 1
      BY <3>1, <1>a DEF WalkOK
    <3>3. CASE i = Len(go)
      <4>1. go'[i].m = c /\ go'[i].next = k + 1
        BY <3>3, <1>5, <1>6
      <4>2. pending'[c] < k + 1 /\ k + 1 <= Len(graph'[c]) + 1
        BY <1>b, <1>5, <1>8, <1>9
      <4> QED
        BY <4>1, <4>2, <3>1, <3>2, <1>b DEF Elements
    <3>4. CASE i # Len(go)
      <4>1. go'[i].next = go[i].next /\ go[i].m # c
        BY <3>1, <3>4, <1>5, <1>6
      <4>2. go[i].m \in Modules
        <5>1. go[i] \in Activation
          BY <3>1, <1>a, Types
        <5> QED
          BY <5>1 DEF Activation
      <4>3. pending'[go[i].m] = pending[go[i].m]
        BY <4>1, <4>2, <1>9
      <4> QED
        BY <4>1, <4>3, <3>1, <3>2, <1>b DEF Elements
    <3> QED
      BY <3>3, <3>4
  <2>2. \A i, j \in 1..Len(go') : \A a, b \in 1..Len(stack') :
           stack'[a] = go'[i].m /\ stack'[b] = go'[j].m /\ i < j => a < b
    BY <1>b, <1>6, <1>a DEF WalkOK
  <2>3. /\ Elements(stack)' \subseteq instances' \ failed'
        /\ \A a, b \in 1..Len(stack') : stack'[a] = stack'[b] => a = b
    BY <1>b, <1>a, SMTT(30) DEF WalkOK, Elements
  <2> QED
    BY <2>1, <2>2, <2>3, <1>b, <1>5, <1>6 DEF WalkOK
<1>13. RecordsOK'
  <2>1. Walking' = Walking
    BY <1>6 DEF Walking
  <2>2. \A m \in Modules : Elements(asyncParents'[m]) \subseteq instances'
    BY <1>b, <1>10
  <2> QED
    BY <2>1, <2>2, <1>b, <1>a DEF RecordsOK, Elements
<1>14. JobsOK'
  <2>1. \A d \in Modules : \A i : Telling(d, i)' <=> Telling(d, i)
    BY <1>b DEF Telling, ToTell
  <2>2. \A m \in Modules : Begins(m)' <=> Begins(m)
    BY <1>b DEF Begins
  <2>3. CASE pending' = pending /\ asyncParents' = asyncParents
    <3>1. \A m \in Modules \ failed' : Counts(m)'
      BY <2>1, <2>2, <2>3, <1>b, <1>a, CountsKept
    <3> QED
      BY <3>1, <1>b, <1>a, JobsSplit DEF JobList
  <2>4. CASE /\ w \in Modules
             /\ pending' = [pending EXCEPT ![c] = @ + 1]
             /\ asyncParents' = [asyncParents EXCEPT ![w] = Append(@, c)]
    <3>1. asyncParents[w] \in Seq(Modules)
      BY <2>4, <1>a DEF TypeOK
    <3>2. PICK n : n = Len(asyncParents[w]) + 1
      OBVIOUS
    <3>3. /\ asyncParents'[w] = Append(asyncParents[w], c)
          /\ \A d \in Modules : d # w => asyncParents'[d] = asyncParents[d]
      BY <2>4, <1>a DEF TypeOK
    <3>4. /\ Len(asyncParents'[w]) = n /\ n \in Nat \ {0} /\ asyncParents'[w][n] = c
          /\ Len(asyncParents[w]) = n - 1
          /\ \A i \in 1..(n - 1) : asyncParents'[w][i] = asyncParents[w][i]
      <4>1. Len(asyncParents[w]) \in Nat
        BY <2>4, <1>a, Types
      <4>2. n - 1 = Len(asyncParents[w]) /\ n \in Nat \ {0}
        BY <3>2, <4>1
      <4> QED
        BY <3>1, <3>2, <3>3, <4>2, <1>5, Appended
    <3>5. ASSUME NEW m \in Modules, NEW e, e \in Unheard(m)', ~(m = c /\ e = <<w, n>>)
          PROVE  e \in Unheard(m)
      <4>1. PICK d \in Modules : \E i \in 1..Len(asyncParents'[d]) :
               e = <<d, i>> /\ asyncParents'[d][i] = m /\ Telling(d, i)'
        BY <3>5, UnheardIsThen
      <4>2. PICK i \in 1..Len(asyncParents'[d]) :
               e = <<d, i>> /\ asyncParents'[d][i] = m /\ Telling(d, i)'
        BY <4>1
      <4>3. ~(d = w /\ i = n)
        BY <4>2, <3>4, <3>5
      <4>4. i \in 1..Len(asyncParents[d]) /\ asyncParents[d][i] = m
        <5>1. CASE d # w
          BY <5>1, <4>2, <3>3
        <5>2. CASE d = w
          <6>1. i \in 1..(n - 1)
            BY <5>2, <4>2, <4>3, <3>4
          <6> QED
            BY <6>1, <5>2, <4>2, <3>4
        <5> QED
          BY <5>1, <5>2
      <4> QED
        BY <4>2, <4>4, <2>1, UnheardIs
    <3>6. ASSUME NEW m \in Modules, m \notin failed' PROVE Counts(m)'
      <4>1. Counts(m)
        BY <3>6, <1>b, <1>a, JobsSplit
      <4>2. CASE m # c
        <5>1. Unheard(m)' \subseteq Unheard(m)
          BY <3>5, <4>2
        <5>2. pending'[m] = pending[m] /\ pending[m] \in Nat
          BY <4>2, <1>8, <1>9
        <5> QED
          BY <4>1, <5>1, <5>2, <2>2, CountKept
      <4>3. CASE m = c
        <5>1. ~Begins(c) /\ ~Begins(c)'
          BY <1>b, <1>5 DEF Begins
        <5>2. PICK U : U = Unheard(c)
          OBVIOUS
        <5>3. PICK V : V = Unheard(c)'
          OBVIOUS
        <5>4. IsFiniteSet(U) /\ Cardinality(U) <= pending[c]
          BY <4>1, <4>3, <5>1, <5>2 DEF Counts
        <5>5. V \in SUBSET (U \union {<<w, n>>})
          BY <3>5, <5>2, <5>3, <1>5
        <5>6. /\ IsFiniteSet(U \union {<<w, n>>})
              /\ Cardinality(U \union {<<w, n>>}) <= Cardinality(U) + 1
          <6>1. Cardinality(U) \in Nat
            BY <5>4, FS_CardinalityType
          <6>2. PICK x : x = <<w, n>>
            OBVIOUS
          <6>3. /\ IsFiniteSet(U \union {x})
                /\ Cardinality(U \union {x}) = IF x \in U THEN Cardinality(U) ELSE Cardinality(U) + 1
            BY <5>4, FS_AddElement
          <6>4. Cardinality(U \union {x}) <= Cardinality(U) + 1
            BY <6>1, <6>3
          <6> QED
            BY <6>2, <6>3, <6>4
        <5>7. IsFiniteSet(V) /\ Cardinality(V) <= Cardinality(U \union {<<w, n>>})
          BY <5>5, <5>6, FS_Subset
        <5>8. /\ Cardinality(V) \in Nat /\ Cardinality(U) \in Nat
              /\ Cardinality(U \union {<<w, n>>}) \in Nat
          BY <5>4, <5>6, <5>7, FS_CardinalityType
        <5>9. pending'[c] = pending[c] + 1
          BY <2>4, <1>5, <1>a DEF TypeOK
        <5>10. Cardinality(V) <= pending'[c]
          BY <5>4, <5>6, <5>7, <5>8, <5>9, <1>5, <1>8
        <5> QED
          BY <4>3, <5>1, <5>3, <5>7, <5>10 DEF Counts
      <4> QED
        BY <4>2, <4>3
    <3> QED
      BY <3>6, <1>b, <1>a, JobsSplit DEF JobList
  <2> QED
    BY <2>3, <2>4, <1>7
<1> QED
  BY <1>b, <1>11, <1>12, <1>13, <1>14, <1>a DEF IndInv, Consistent, ExecutesOnce, FulfilledMeansDone

\* The modules that finish takes off the stack when it cuts it to n.
Above(n) == {stack[i] : i \in (n + 1)..Len(stack)}

\* What finish does, with the modules it takes off the stack by name.
LEMMA FinishIs ==
    ASSUME NEW c, NEW async, finish(c, async)
    PROVE  \E n \in 0..Len(stack) :
              /\ Cut(c, n)
              /\ status' = [m \in Modules |-> IF m \notin Above(n) THEN status[m]
                               ELSE IF async[m] = 0 THEN "evaluated" ELSE "evaluating-async"]
              /\ cycleRoot' = [m \in Modules |-> IF m \in Above(n) THEN c ELSE cycleRoot[m]]
              /\ stack' = IF Len(go) = 1 THEN <<>> ELSE SubSeq(stack, 1, n)
BY DEF finish, Above

\* Of the modules that finish takes off the stack, the walk is in c only; the
\* others it is in are below the cut.
LEMMA CutIs ==
    ASSUME TypeOK, WalkOK, go # <<>>, NEW c, c = Here, NEW n \in 0..Len(stack), Cut(c, n)
    PROVE  /\ Above(n) \subseteq Elements(stack)
           /\ \A m \in Above(n) : m \in Walking => m = c
           /\ \A i \in 1..(Len(go) - 1) : \A a \in 1..Len(stack) : stack[a] = go[i].m => a \in 1..n
<1>1. Len(stack) \in Nat /\ Len(go) \in Nat \ {0} /\ Len(go) \in 1..Len(go) /\ go[Len(go)].m = c
  BY HereIs, Types
<1>2. Above(n) \subseteq Elements(stack)
  BY <1>1 DEF Above, Elements
<1>3. ASSUME NEW i \in 1..(Len(go) - 1), NEW a \in 1..Len(stack), stack[a] = go[i].m
      PROVE  a \in 1..n
  <2>1. CASE n = Len(stack)
    BY <2>1
  <2>2. CASE n < Len(stack) /\ stack[n + 1] = c
    <3>1. n + 1 \in 1..Len(stack) /\ i \in 1..Len(go) /\ i < Len(go)
      BY <2>2, <1>1
    <3>2. a < n + 1
      BY <3>1, <2>2, <1>1, <1>3 DEF WalkOK
    <3> QED
      BY <3>2, <1>1
  <2> QED
    BY <2>1, <2>2 DEF Cut
<1>4. ASSUME NEW m \in Above(n), m \in Walking, m # c PROVE FALSE
  <2>1. PICK i \in 1..Len(go) : go[i].m = m
    BY <1>4 DEF Walking
  <2>2. PICK a \in (n + 1)..Len(stack) : stack[a] = m
    BY DEF Above
  <2>3. i \in 1..(Len(go) - 1)
    BY <2>1, <1>1, <1>4
  <2>4. a \in 1..Len(stack) /\ a \notin 1..n
    BY <2>2, <1>1
  <2> QED
    BY <2>1, <2>2, <2>3, <2>4, <1>3
<1> QED
  BY <1>2, <1>3, <1>4

\* The end of innerModuleEvaluation of c, whether its body has run, begins to run
\* or waits: the modules of its cycle are done, have failed or are asynchronous.
LEMMA FinishKeeps ==
    ASSUME IndInv, go # <<>>, NEW c, c = Here, NEW async, finish(c, async),
           counter' \in Nat, async \in [Modules -> 0..counter'],
           \A m \in Modules : m # c => async[m] = asyncEvaluation[m] /\ body'[m] = body[m],
           body' \in [Modules -> [at : {"none", "running", "done", "threw"}, began : Nat]],
           body'[c].at = "done" \/ async[c] # 0,
           \/ body'[c] = body[c]
           \/ pending[c] = 0 /\ body'[c].began = 1 /\ body'[c].at \in {"running", "done"}
    PROVE  IndInv'
<1>a. TypeOK /\ WalkOK /\ RecordsOK /\ JobsOK /\ ExecutesOnce /\ FulfilledMeansDone
  BY DEF IndInv, Consistent
<1>b. /\ asyncEvaluation' = async /\ go' = Pop(go)
      /\ capability' = IF Len(go) = 1 /\ async[c] = 0
                       THEN Settle(capability, {c}, "fulfilled") ELSE capability
      /\ instances' = instances /\ pending' = pending /\ asyncParents' = asyncParents
      /\ failed' = failed /\ graph' = graph /\ tla' = tla /\ gather' = gather /\ exec' = exec
  BY DEF finish, graphVars, jobVars
<1>1. PICK n \in 0..Len(stack) :
         /\ Cut(c, n)
         /\ status' = [m \in Modules |-> IF m \notin Above(n) THEN status[m]
                          ELSE IF async[m] = 0 THEN "evaluated" ELSE "evaluating-async"]
         /\ cycleRoot' = [m \in Modules |-> IF m \in Above(n) THEN c ELSE cycleRoot[m]]
         /\ stack' = IF Len(go) = 1 THEN <<>> ELSE SubSeq(stack, 1, n)
  <2>1. finish(c, async)
    OBVIOUS
  <2> QED
    BY ONLY <2>1, FinishIs
<1>2. PICK ms : ms = Above(n)
  OBVIOUS
<1>3. /\ Len(go) \in Nat \ {0} /\ Len(go) \in 1..Len(go) /\ go[Len(go)].m = c /\ c \in Modules
      /\ gather = <<>> /\ exec = {} /\ c \in Walking
      /\ c \in Elements(stack) /\ c \in instances /\ c \notin failed
      /\ body[c].began = 0 /\ asyncEvaluation[c] = 0
      /\ \A i \in 1..Len(go) : go[i].m = c => i = Len(go)
  BY <1>a, HereIs
<1>4. /\ ms \subseteq Elements(stack)
      /\ \A m \in ms : m \in Walking => m = c
      /\ \A i \in 1..(Len(go) - 1) : \A a \in 1..Len(stack) : stack[a] = go[i].m => a \in 1..n
  BY <1>1, <1>2, <1>a, CutIs
<1>5. Elements(stack) \subseteq instances /\ Elements(stack) \intersect failed = {}
  BY <1>a DEF WalkOK
<1>6. /\ go' \in Seq(Activation) /\ Len(go') = Len(go) - 1
      /\ \A i \in 1..(Len(go) - 1) : go'[i] = go[i]
  <2>1. go \in Seq(Activation) /\ go # <<>> /\ go' = Pop(go)
    BY <1>b, <1>a DEF TypeOK
  <2> QED
    BY ONLY <2>1, Popped
<1>7. /\ SubSeq(stack, 1, n) \in Seq(Modules) /\ Len(SubSeq(stack, 1, n)) = n
      /\ \A i \in 1..n : SubSeq(stack, 1, n)[i] = stack[i]
      /\ Elements(SubSeq(stack, 1, n)) \subseteq Elements(stack)
  BY <1>a, Kept DEF TypeOK
<1>8. <<>> \in Seq(Modules) /\ Len(<<>>) = 0 /\ Elements(<<>>) = {}
  BY EmptySeq DEF Elements
<1>9. stack' \in Seq(Modules) /\ Elements(stack') \subseteq Elements(stack)
  BY <1>1, <1>7, <1>8
<1>10. body[c].at = "none" /\ body[c] \in [at : {"none", "running", "done", "threw"}, began : Nat]
  BY <1>3, <1>a, Types DEF RecordsOK
<1>11. \A m \in Modules : body[m].at = "done" => body'[m].at = "done"
  BY <1>10
<1>12. TypeOK'
  <2>1. status' \in [Modules -> {"new", "evaluating", "evaluating-async", "evaluated"}]
    BY <1>1, <1>a DEF TypeOK
  <2>2. cycleRoot' \in [Modules -> {0} \union instances']
    BY <1>1, <1>3, <1>b, <1>a DEF TypeOK
  <2>3. capability' \in [Modules -> {"none", "pending", "fulfilled", "rejected"}]
    BY <1>b, <1>a DEF TypeOK, Settle
  <2> QED
    BY <2>1, <2>2, <2>3, <1>b, <1>6, <1>9, <1>a DEF TypeOK
<1>13. WalkOK'
  <2>1. CASE Len(go) = 1
    <3>1. stack' = <<>> /\ Len(go') = 0
      BY <2>1, <1>1, <1>6
    <3>2. go' = <<>>
      BY <3>1, <1>6, EmptySeq
    <3>3. 1..0 = {} /\ Len(stack') = 0
      BY <3>1, <1>8
    <3>4. Elements(stack)' = {}
      BY <3>3 DEF Elements
    <3> QED
      BY <3>1, <3>2, <3>3, <3>4 DEF WalkOK
  <2>2. CASE Len(go) # 1
    <3>1. /\ Len(stack') = n /\ Elements(stack') \subseteq Elements(stack)
          /\ \A i \in 1..n : stack'[i] = stack[i] /\ i \in 1..Len(stack)
      <4>1. \A i \in 1..n : i \in 1..Len(stack)
        BY <1>a, Types
      <4> QED
        BY <4>1, <2>2, <1>1, <1>7
    <3>2. Elements(stack)' \subseteq instances' \ failed'
      BY <3>1, <1>5, <1>b DEF Elements
    <3>3. \A a, b \in 1..Len(stack') : stack'[a] = stack'[b] => a = b
      BY <3>1, <1>a, SMTT(30) DEF WalkOK
    <3>4. ASSUME NEW i \in 1..Len(go')
          PROVE  /\ go'[i].m \in Elements(stack)'
                 /\ body'[go'[i].m].began = 0 /\ asyncEvaluation'[go'[i].m] = 0
                 /\ pending'[go'[i].m] < go'[i].next /\ go'[i].next <= Len(graph'[go'[i].m]) + 1
      <4>0. Len(go) \in Nat \ {0} /\ i \in 1..(Len(go) - 1)
        BY <1>3, <1>6
      <4>1. i \in 1..(Len(go) - 1) /\ i \in 1..Len(go) /\ i # Len(go) /\ go'[i] = go[i]
        <5>1. i \in 1..Len(go) /\ i # Len(go)
          BY ONLY <4>0
        <5> QED
          BY <4>0, <5>1, <1>6
      <4>2. /\ go[i].m \in Elements(stack) /\ go[i].m # c
            /\ body[go[i].m].began = 0 /\ asyncEvaluation[go[i].m] = 0
            /\ pending[go[i].m] < go[i].next /\ go[i].next <= Len(graph[go[i].m]) + 1
        BY <4>1, <1>3, <1>a DEF WalkOK
      <4>3. PICK a \in 1..Len(stack) : stack[a] = go[i].m
        BY <4>2 DEF Elements
      <4>4. a \in 1..n
        BY <4>1, <4>3, <1>4
      <4>5. go[i].m \in Elements(stack)'
        BY <4>3, <4>4, <3>1 DEF Elements
      <4>6. go[i].m \in Modules
        BY <4>2, <1>5, <1>a DEF TypeOK
      <4> QED
        BY <4>1, <4>2, <4>5, <4>6, <1>b
    <3>5. \A i, j \in 1..Len(go') : \A a, b \in 1..Len(stack') :
             stack'[a] = go'[i].m /\ stack'[b] = go'[j].m /\ i < j => a < b
      <4>1. \A i \in 1..Len(go') : i \in 1..Len(go) /\ go'[i] = go[i]
        BY <1>3, <1>6
      <4>2. \A i, j \in 1..Len(go) : \A a, b \in 1..Len(stack) :
               stack[a] = go[i].m /\ stack[b] = go[j].m /\ i < j => a < b
        BY <1>a DEF WalkOK
      <4> QED
        BY ONLY <4>1, <4>2, <3>1
    <3>6. go' # <<>>
      BY <2>2, <1>3, <1>6, <1>8
    <3> QED
      BY <3>2, <3>3, <3>4, <3>5, <3>6, <1>3, <1>b DEF WalkOK
  <2> QED
    BY <2>1, <2>2
<1>14. RecordsOK'
  <2>1. \A m \in Walking : m = c \/ m \in Walking'
    <3>1. \A i \in 1..Len(go) : i = Len(go) \/ (i \in 1..Len(go') /\ go'[i] = go[i])
      BY <1>3, <1>6
    <3> QED
      BY <3>1, <1>3 DEF Walking
  <2>2. \A m \in Modules \ instances' : body'[m].began = 0 /\ asyncEvaluation'[m] = 0
    BY <1>3, <1>b, <1>a DEF RecordsOK
  <2>3. \A m \in Modules : body'[m].began = 0 <=> body'[m].at = "none"
    <3>1. body'[c].began = 0 <=> body'[c].at = "none"
      BY <1>3, <1>10
    <3> QED
      BY <3>1, <1>a DEF RecordsOK
  <2>4. \A m \in failed' : status'[m] = "evaluated"
    <3>1. \A m \in failed : m \in Modules /\ m \notin Above(n) /\ status[m] = "evaluated"
      BY <1>2, <1>4, <1>5, <1>a DEF TypeOK, RecordsOK
    <3> QED
      BY <3>1, <1>1, <1>b
  <2>5. ASSUME NEW m \in Modules, status'[m] = "evaluated"
        PROVE  m \in failed' \/ body'[m].at = "done"
    <3>1. CASE m \notin ms
      <4>1. status[m] = "evaluated"
        BY <3>1, <2>5, <1>1, <1>2
      <4> QED
        BY <4>1, <1>11, <1>b, <1>a DEF RecordsOK
    <3>2. CASE m \in ms
      <4>1. async[m] = 0
        BY <3>2, <2>5, <1>1, <1>2
      <4>2. CASE m = c
        BY <4>1, <4>2
      <4>3. CASE m # c
        <5>1. m \in instances \ Walking /\ asyncEvaluation[m] = 0
          BY <4>1, <4>3, <3>2, <1>4, <1>5
        <5> QED
          BY <5>1, <1>11, <1>b, <1>a DEF RecordsOK
      <4> QED
        BY <4>2, <4>3
    <3> QED
      BY <3>1, <3>2
  <2>6. ASSUME NEW m \in instances' \ Walking', asyncEvaluation'[m] = 0
        PROVE  m \in failed' \/ body'[m].at = "done"
    <3>1. CASE m = c
      BY <3>1, <2>6, <1>b
    <3>2. CASE m # c
      <4>1. m \in instances \ Walking /\ asyncEvaluation[m] = 0 /\ m \in Modules
        BY <3>2, <2>1, <2>6, <1>b, <1>a DEF TypeOK
      <4> QED
        BY <4>1, <1>11, <1>b, <1>a DEF RecordsOK
    <3> QED
      BY <3>1, <3>2
  <2>7. \A m \in Modules : Elements(asyncParents'[m]) \subseteq instances'
    BY <1>b, <1>a DEF RecordsOK
  <2> QED
    BY <2>2, <2>3, <2>4, <2>5, <2>6, <2>7 DEF RecordsOK, Elements
<1>15. JobsOK'
  <2>1. \A d \in Modules : \A i \in 1..Len(asyncParents[d]) : Telling(d, i)' => Telling(d, i)
    <3>1. ToTell(c)
      BY <1>3, <1>10 DEF ToTell
    <3> QED
      BY <3>1, <1>b DEF Telling, ToTell
  <2>2. \A m \in Modules \ failed' :
           /\ pending'[m] = pending[m]
           /\ Begins(m) => Begins(m)'
           /\ Begins(m)' => Begins(m) \/ pending[m] = 0
    <3>1. ~Begins(c) /\ (Begins(c)' => pending[c] = 0)
      BY <1>3, <1>b DEF Begins
    <3>2. \A m \in Modules : m # c => (Begins(m)' <=> Begins(m))
      BY <1>b DEF Begins
    <3> QED
      BY <3>1, <3>2, <1>b
  <2>3. \A m \in Modules \ failed' : Counts(m)'
    BY <2>1, <2>2, <1>b, <1>a, CountsKept
  <2>4. JobList'
    BY <1>3, <1>8, <1>b DEF JobList
  <2> QED
    BY <2>3, <2>4, JobsSplit
<1>16. ExecutesOnce'
  BY <1>3, <1>a DEF ExecutesOnce
<1>17. FulfilledMeansDone'
  <2>1. \A m \in Modules : capability'[m] = "fulfilled"
           => capability[m] = "fulfilled" \/ (m = c /\ async[c] = 0)
    BY <1>b, <1>a DEF Settle
  <2> QED
    BY <2>1, <1>11, <1>b, <1>a DEF FulfilledMeansDone
<1> QED
  BY <1>12, <1>13, <1>14, <1>15, <1>16, <1>17 DEF IndInv, Consistent

\* Running a body counts it once more.
LEMMA RanIs ==
    ASSUME TypeOK, NEW m \in Modules, NEW at \in {"running", "done", "threw"}, body' = Ran(m, at)
    PROVE  /\ body' \in [Modules -> [at : {"none", "running", "done", "threw"}, began : Nat]]
           /\ body'[m].at = at /\ body'[m].began = body[m].began + 1
           /\ \A x \in Modules : x # m => body'[x] = body[x]
<1>1. body[m] \in [at : {"none", "running", "done", "threw"}, began : Nat]
  BY Types
<1>2. [at |-> at, began |-> body[m].began + 1]
         \in [at : {"none", "running", "done", "threw"}, began : Nat]
  BY <1>1
<1>3. body' = [body EXCEPT ![m] = [at |-> at, began |-> body[m].began + 1]]
  BY DEF Ran
<1> QED
  BY <1>2, <1>3 DEF TypeOK

\* A module with something pending or with top-level await is left to a job, or
\* its body begins (executeAsyncModule).
LEMMA ExecuteAsyncKeeps ==
    ASSUME IndInv, ExecuteAsync
    PROVE  IndInv'
<1>a. TypeOK /\ WalkOK
  BY DEF IndInv, Consistent
<1>1. go # <<>>
  BY DEF ExecuteAsync, Complete
<1>2. PICK c : c = Here
  OBVIOUS
<1>3. PICK async : async = [asyncEvaluation EXCEPT ![c] = counter + 1]
  OBVIOUS
<1>4. finish(c, async)
  BY <1>2, <1>3 DEF ExecuteAsync
<1>5. c \in Modules /\ body[c].began = 0 /\ pending[c] \in Nat
  BY <1>1, <1>2, <1>a, HereIs, Types
<1>6. counter' = counter + 1 /\ counter \in Nat /\ asyncEvaluation \in [Modules -> 0..counter]
  BY <1>a DEF ExecuteAsync, TypeOK
<1>7. async \in [Modules -> 0..counter'] /\ counter' \in Nat
  <2>1. \A k \in 0..counter : k \in 0..counter'
    BY <1>6
  <2>2. counter + 1 \in 0..counter'
    BY <1>6
  <2> QED
    BY <2>1, <2>2, <1>3, <1>5, <1>6
<1>8. async[c] # 0 /\ \A m \in Modules : m # c => async[m] = asyncEvaluation[m]
  BY <1>3, <1>5, <1>6
<1>9. CASE pending[c] = 0
  <2>1. body' = Ran(c, "running")
    BY <1>9, <1>2 DEF ExecuteAsync
  <2>2. /\ body' \in [Modules -> [at : {"none", "running", "done", "threw"}, began : Nat]]
        /\ body'[c].at = "running" /\ body'[c].began = 1
        /\ \A x \in Modules : x # c => body'[x] = body[x]
    BY <2>1, <1>5, <1>a, RanIs
  <2> QED
    BY <2>2, <1>1, <1>2, <1>4, <1>7, <1>8, <1>9, FinishKeeps
<1>10. CASE pending[c] # 0
  <2>1. body' = body
    BY <1>10, <1>2 DEF ExecuteAsync
  <2>2. body' \in [Modules -> [at : {"none", "running", "done", "threw"}, began : Nat]]
    BY <2>1, <1>a DEF TypeOK
  <2> QED
    BY <2>1, <2>2, <1>1, <1>2, <1>4, <1>7, <1>8, FinishKeeps
<1> QED
  BY <1>9, <1>10

\* What an error does to the promises: none becomes fulfilled.
LEMMA RejectedPromises ==
    ASSUME TypeOK, NEW ms, capability' = Settle(capability, ms, "rejected")
    PROVE  /\ capability' \in [Modules -> {"none", "pending", "fulfilled", "rejected"}]
           /\ \A m \in Modules : capability'[m] = "fulfilled" => capability[m] = "fulfilled"
BY DEF TypeOK, Settle

\* A body that throws in the walk fails all the modules on the stack, and so all
\* that the walk is in.
LEMMA ExecuteThrowsKeeps ==
    ASSUME IndInv, go # <<>>, NEW c, c = Here, body' = Ran(c, "threw"), UNCHANGED counter,
           failed' = failed \union Elements(stack),
           status' = [m \in Modules |-> IF m \in Elements(stack) THEN "evaluated" ELSE status[m]],
           capability' = Settle(capability, {go[1].m}, "rejected"),
           go' = <<>>, stack' = <<>>,
           UNCHANGED <<graphVars, instances, dfsIndex, dfsAncestorIndex, pending, cycleRoot,
                       asyncEvaluation, asyncParents, index, jobVars>>
    PROVE  IndInv'
<1>a. TypeOK /\ WalkOK /\ RecordsOK /\ JobsOK /\ ExecutesOnce /\ FulfilledMeansDone
  BY DEF IndInv, Consistent
<1>b. /\ graph' = graph /\ tla' = tla /\ instances' = instances /\ pending' = pending
      /\ cycleRoot' = cycleRoot /\ asyncEvaluation' = asyncEvaluation /\ counter' = counter
      /\ asyncParents' = asyncParents /\ gather' = gather /\ exec' = exec
  BY DEF graphVars, jobVars
<1>1. /\ c \in Modules /\ gather = <<>> /\ exec = {} /\ c \in Elements(stack) /\ c \in instances
      /\ c \notin failed /\ body[c].began = 0
  BY <1>a, HereIs
<1>2. /\ body' \in [Modules -> [at : {"none", "running", "done", "threw"}, began : Nat]]
      /\ body'[c].at = "threw" /\ body'[c].began = 1
      /\ \A x \in Modules : x # c => body'[x] = body[x]
  BY <1>1, <1>a, RanIs
<1>3. PICK ms : ms = Elements(stack)
  OBVIOUS
<1>4. /\ failed' = failed \union ms /\ ms \subseteq instances /\ c \in ms
      /\ \A m \in Modules : status'[m] = IF m \in ms THEN "evaluated" ELSE status[m]
  BY <1>1, <1>3, <1>a DEF WalkOK
<1>5. body[c].at = "none"
  BY <1>1, <1>a DEF RecordsOK
<1>6. <<>> \in Seq(Modules) /\ <<>> \in Seq(Activation) /\ Len(<<>>) = 0
  BY EmptySeq
<1>c. /\ capability' \in [Modules -> {"none", "pending", "fulfilled", "rejected"}]
      /\ \A m \in Modules : capability'[m] = "fulfilled" => capability[m] = "fulfilled"
  <2>1. PICK x : x = {go[1].m}
    OBVIOUS
  <2> QED
    BY <2>1, <1>a, RejectedPromises
<1>7. TypeOK'
  <2>1. status' \in [Modules -> {"new", "evaluating", "evaluating-async", "evaluated"}]
    BY <1>a DEF TypeOK
  <2>2. failed' \subseteq instances'
    BY <1>4, <1>b, <1>a DEF TypeOK
  <2> QED
    BY <2>1, <2>2, <1>2, <1>6, <1>b, <1>c, <1>a, ZenonT(60) DEF TypeOK
<1>8. WalkOK'
  <2>1. 1..0 = {} /\ Len(go') = 0 /\ Len(stack') = 0
    BY <1>6
  <2>2. Elements(stack)' = {}
    BY <2>1 DEF Elements
  <2> QED
    BY <2>1, <2>2 DEF WalkOK
<1>9. RecordsOK'
  <2>1. \A m \in Walking : m \in ms
    BY <1>3, <1>a DEF Walking, WalkOK
  <2>2. \A m \in Modules \ instances' : body'[m].began = 0 /\ asyncEvaluation'[m] = 0
    BY <1>1, <1>2, <1>b, <1>a DEF RecordsOK
  <2>3. \A m \in Modules : body'[m].began = 0 <=> body'[m].at = "none"
    BY <1>2, <1>a DEF RecordsOK
  <2>4. \A m \in failed' : status'[m] = "evaluated"
    BY <1>4, <1>a DEF RecordsOK, TypeOK
  <2>5. \A m \in Modules : status'[m] = "evaluated" => m \in failed' \/ body'[m].at = "done"
    BY <1>2, <1>4, <1>a DEF RecordsOK
  <2>6. \A m \in instances' \ Walking' : asyncEvaluation'[m] = 0 => m \in failed' \/ body'[m].at = "done"
    <3>1. \A m \in instances : m \in ms \/ (m \in instances \ Walking /\ m # c /\ m \in Modules)
      BY <2>1, <1>4, <1>a DEF TypeOK
    <3> QED
      BY <3>1, <1>2, <1>4, <1>b, <1>a DEF RecordsOK
  <2>7. \A m \in Modules : Elements(asyncParents'[m]) \subseteq instances'
    BY <1>b, <1>a DEF RecordsOK
  <2> QED
    BY <2>2, <2>3, <2>4, <2>5, <2>6, <2>7 DEF RecordsOK, Elements
<1>10. JobsOK'
  <2>1. \A d \in Modules : \A i \in 1..Len(asyncParents[d]) : Telling(d, i)' => Telling(d, i)
    BY <1>2, <1>4, <1>b DEF Telling, ToTell
  <2>2. \A m \in Modules \ failed' : Begins(m)' <=> Begins(m)
    BY <1>2, <1>4, <1>b DEF Begins
  <2>3. \A m \in Modules \ failed' : Counts(m)'
    BY <2>1, <2>2, <1>4, <1>b, <1>a, CountsKept
  <2>4. JobList'
    BY <1>1, <1>6, <1>b DEF JobList
  <2> QED
    BY <2>3, <2>4, JobsSplit
<1>11. ExecutesOnce'
  BY <1>2, <1>a DEF ExecutesOnce
<1>12. FulfilledMeansDone'
  <2>1. \A m \in Modules : body[m].at = "done" => body'[m].at = "done"
    BY <1>2, <1>5
  <2> QED
    BY <2>1, <1>4, <1>c, <1>a DEF FulfilledMeansDone
<1> QED
  BY <1>7, <1>8, <1>9, <1>10, <1>11, <1>12 DEF IndInv, Consistent

\* ExecuteModule in the walk.
LEMMA ExecuteKeeps ==
    ASSUME IndInv, NEW outcome, Execute(outcome)
    PROVE  IndInv'
<1>a. TypeOK /\ WalkOK
  BY DEF IndInv, Consistent
<1>1. PICK c : c = Here
  OBVIOUS
<1>2. go # <<>> /\ pending[c] = 0 /\ body' = Ran(c, outcome) /\ counter' = counter
  BY <1>1 DEF Execute, Complete
<1>3. c \in Modules /\ body[c].began = 0
  BY <1>1, <1>2, <1>a, HereIs
<1>4. CASE outcome = "done" /\ finish(c, asyncEvaluation)
  <2>1. PICK async : async = asyncEvaluation
    OBVIOUS
  <2>2. finish(c, async)
    BY <2>1, <1>4
  <2>3. counter' \in Nat /\ async \in [Modules -> 0..counter']
    BY <2>1, <1>2, <1>a DEF TypeOK
  <2>4. /\ body' \in [Modules -> [at : {"none", "running", "done", "threw"}, began : Nat]]
        /\ body'[c].at = "done" /\ body'[c].began = 1
        /\ \A x \in Modules : x # c => body'[x] = body[x]
    BY <1>2, <1>3, <1>4, <1>a, RanIs
  <2> QED
    BY <2>1, <2>2, <2>3, <2>4, <1>1, <1>2, FinishKeeps
<1>5. CASE ~(outcome = "done" /\ finish(c, asyncEvaluation))
  <2>1. /\ outcome = "threw"
        /\ failed' = failed \union Elements(stack)
        /\ status' = [m \in Modules |-> IF m \in Elements(stack) THEN "evaluated" ELSE status[m]]
        /\ capability' = Settle(capability, {go[1].m}, "rejected")
        /\ go' = <<>> /\ stack' = <<>>
        /\ UNCHANGED <<graphVars, instances, dfsIndex, dfsAncestorIndex, pending, cycleRoot,
                       asyncEvaluation, asyncParents, index, jobVars>>
    BY <1>1, <1>5 DEF Execute
  <2> QED
    BY <2>1, <1>1, <1>2, ExecuteThrowsKeeps
<1> QED
  BY <1>4, <1>5

-----------------------------------------------------------------------------
(* The jobs *)

\* asyncModuleExecutionRejected reaches only modules that have an instance, and
\* it fails the module it is called with, unless that is evaluated.
LEMMA RejectedIs ==
    ASSUME TypeOK, RecordsOK, NEW c \in instances
    PROVE  Rejected(c) \subseteq instances /\ (status[c] # "evaluated" => c \in Rejected(c))
<1>1. PICK ms : ms = instances
  OBVIOUS
<1>2. ms \in SUBSET Modules /\ c \in ms /\ c \in Modules
  BY <1>1 DEF TypeOK
<1>3. \A x \in ms : status[x] # "evaluated" => Elements(asyncParents[x]) \subseteq ms
  BY <1>1, <1>2 DEF RecordsOK
<1>4. \A m \in Rejected(c) : m \in ms
  BY <1>2, <1>3 DEF Rejected
<1> QED
  BY <1>1, <1>2, <1>4 DEF Rejected

\* With no walk there is nothing to say of it.
LEMMA WalkAtRest ==
    ASSUME WalkOK, go = <<>>, UNCHANGED walkVars
    PROVE  WalkOK' /\ go' = <<>> /\ stack' = <<>> /\ stack = <<>> /\ Walking = {} /\ Walking' = {}
<1>1. go' = <<>> /\ stack' = <<>> /\ stack = <<>>
  BY DEF WalkOK, walkVars
<1>2. Len(<<>>) = 0 /\ 1..0 = {}
  BY EmptySeq
<1>3. Elements(stack)' = {} /\ Walking = {} /\ Walking' = {}
  BY <1>1, <1>2 DEF Elements, Walking
<1> QED
  BY <1>1, <1>2, <1>3 DEF WalkOK

\* asyncModuleExecutionRejected, after the body of c threw: c is among the modules
\* that have failed afterwards.
LEMMA RejectKeeps ==
    ASSUME IndInv, go = <<>>, gather = <<>>, NEW c \in instances,
           asyncModuleExecutionRejected(c),
           body' \in [Modules -> [at : {"none", "running", "done", "threw"}, began : Nat]],
           body[c].at # "done", body'[c].at = "threw", body'[c].began = 1,
           \A x \in Modules : x # c => body'[x] = body[x],
           exec' = exec \ {c}, gather' = gather,
           UNCHANGED <<graphVars, instances, pending, cycleRoot, asyncEvaluation, counter,
                       asyncParents, walkVars>>
    PROVE  IndInv'
<1>a. TypeOK /\ WalkOK /\ RecordsOK /\ JobsOK /\ ExecutesOnce /\ FulfilledMeansDone
  BY DEF IndInv, Consistent
<1>b. /\ graph' = graph /\ tla' = tla /\ instances' = instances /\ pending' = pending
      /\ cycleRoot' = cycleRoot /\ asyncEvaluation' = asyncEvaluation /\ counter' = counter
      /\ asyncParents' = asyncParents /\ go' = go /\ stack' = stack
  BY DEF graphVars, walkVars
<1>1. PICK ms : ms = Rejected(c)
  OBVIOUS
<1>2. /\ failed' = failed \union ms
      /\ status' = [m \in Modules |-> IF m \in ms THEN "evaluated" ELSE status[m]]
      /\ capability' = Settle(capability, ms, "rejected")
  BY <1>1 DEF asyncModuleExecutionRejected
<1>3. ms \subseteq instances /\ (status[c] # "evaluated" => c \in ms) /\ c \in Modules
  BY <1>1, <1>a, RejectedIs DEF TypeOK
<1>4. c \in failed'
  BY <1>2, <1>3, <1>a DEF RecordsOK
<1>5. WalkOK' /\ Walking = {} /\ Walking' = {}
  BY <1>a, WalkAtRest
<1>6. \A m \in Modules : body[m].at = "done" => body'[m].at = "done"
  OBVIOUS
<1>c. /\ capability' \in [Modules -> {"none", "pending", "fulfilled", "rejected"}]
      /\ \A m \in Modules : capability'[m] = "fulfilled" => capability[m] = "fulfilled"
  BY <1>2, <1>a, RejectedPromises
<1>7. TypeOK'
  <2>1. status' \in [Modules -> {"new", "evaluating", "evaluating-async", "evaluated"}]
    BY <1>2, <1>a DEF TypeOK
  <2>2. failed' \subseteq instances' /\ exec' \subseteq instances'
    BY <1>2, <1>3, <1>b, <1>a DEF TypeOK
  <2> QED
    BY <2>1, <2>2, <1>b, <1>c, <1>a DEF TypeOK
<1>8. RecordsOK'
  <2>1. \A m \in Modules \ instances' : body'[m].began = 0 /\ asyncEvaluation'[m] = 0
    BY <1>b, <1>a DEF RecordsOK
  <2>2. \A m \in Modules : body'[m].began = 0 <=> body'[m].at = "none"
    BY <1>a DEF RecordsOK
  <2>3. \A m \in failed' : status'[m] = "evaluated"
    BY <1>2, <1>3, <1>a DEF RecordsOK, TypeOK
  <2>4. \A m \in Modules : status'[m] = "evaluated" => m \in failed' \/ body'[m].at = "done"
    BY <1>2, <1>6, <1>a DEF RecordsOK
  <2>5. \A m \in instances' \ Walking' : asyncEvaluation'[m] = 0 => m \in failed' \/ body'[m].at = "done"
    BY <1>2, <1>5, <1>6, <1>b, <1>a DEF RecordsOK, TypeOK
  <2>6. \A m \in Modules : Elements(asyncParents'[m]) \subseteq instances'
    BY <1>b, <1>a DEF RecordsOK
  <2> QED
    BY <2>1, <2>2, <2>3, <2>4, <2>5, <2>6 DEF RecordsOK, Elements
<1>9. JobsOK'
  <2>1. \A d \in Modules : \A i \in 1..Len(asyncParents[d]) : Telling(d, i)' => Telling(d, i)
    BY <1>2, <1>b DEF Telling, ToTell
  <2>2. \A m \in Modules \ failed' : Begins(m)' <=> Begins(m)
    BY <1>4 DEF Begins
  <2>3. \A m \in Modules \ failed' : Counts(m)'
    BY <2>1, <2>2, <1>2, <1>b, <1>a, CountsKept
  <2>4. Len(gather') = 0
    BY EmptySeq
  <2>5. \A m \in exec' : body'[m].began = 0
    BY <1>a DEF JobsOK, TypeOK
  <2>6. JobList'
    BY <2>4, <2>5 DEF JobList
  <2> QED
    BY <2>3, <2>6, JobsSplit
<1>10. ExecutesOnce'
  BY <1>a DEF ExecutesOnce
<1>11. FulfilledMeansDone'
  BY <1>2, <1>6, <1>c, <1>a DEF FulfilledMeansDone
<1> QED
  BY <1>5, <1>7, <1>8, <1>9, <1>10, <1>11 DEF IndInv, Consistent

\* Of a body that runs: it began once, and its module has an instance.
LEMMA RunningIs ==
    ASSUME IndInv, NEW c \in Modules, body[c].at = "running", NEW at \in {"done", "threw"},
           body' = [body EXCEPT ![c].at = at]
    PROVE  /\ c \in instances /\ body[c].began = 1
           /\ body' \in [Modules -> [at : {"none", "running", "done", "threw"}, began : Nat]]
           /\ body'[c].at = at /\ body'[c].began = 1
           /\ \A x \in Modules : x # c => body'[x] = body[x]
<1>a. TypeOK /\ RecordsOK /\ ExecutesOnce
  BY DEF IndInv, Consistent
<1>1. body[c] \in [at : {"none", "running", "done", "threw"}, began : Nat]
  BY <1>a, Types
<1>2. body[c].began # 0
  BY <1>a DEF RecordsOK
<1>3. body[c].began = 1
  BY <1>1, <1>2, <1>a DEF ExecutesOnce
<1>4. c \in instances
  BY <1>2, <1>a DEF RecordsOK
<1>5. PICK e : e = [body[c] EXCEPT !.at = at]
  OBVIOUS
<1>6. /\ e \in [at : {"none", "running", "done", "threw"}, began : Nat]
      /\ e.at = at /\ e.began = body[c].began
  BY <1>1, <1>5
<1>7. body' = [body EXCEPT ![c] = e]
  BY <1>5
<1>8. /\ body' \in [Modules -> [at : {"none", "running", "done", "threw"}, began : Nat]]
      /\ body'[c] = e /\ \A x \in Modules : x # c => body'[x] = body[x]
  <2>1. body \in [Modules -> [at : {"none", "running", "done", "threw"}, began : Nat]]
    BY <1>a DEF TypeOK
  <2> QED
    BY ONLY <2>1, <1>6, <1>7, c \in Modules
<1> QED
  BY <1>3, <1>4, <1>6, <1>8

\* A body with top-level await throws.
LEMMA BodyThrowsKeeps ==
    ASSUME IndInv, NEW c \in Modules, BodyThrows(c)
    PROVE  IndInv'
<1>1. /\ Quiet /\ body[c].at = "running" /\ body' = [body EXCEPT ![c].at = "threw"]
      /\ asyncModuleExecutionRejected(c)
      /\ UNCHANGED <<graphVars, instances, pending, cycleRoot, asyncEvaluation, counter,
                     asyncParents, walkVars>>
      /\ UNCHANGED jobVars
  BY DEF BodyThrows
<1>2. /\ c \in instances
      /\ body' \in [Modules -> [at : {"none", "running", "done", "threw"}, began : Nat]]
      /\ body'[c].at = "threw" /\ body'[c].began = 1
      /\ \A x \in Modules : x # c => body'[x] = body[x]
  BY <1>1, RunningIs
<1>3. go = <<>> /\ gather = <<>> /\ gather' = gather /\ exec' = exec \ {c}
  BY <1>1 DEF Quiet, jobVars
<1>4. body[c].at # "done"
  BY <1>1
<1> QED
  BY <1>1, <1>2, <1>3, <1>4, RejectKeeps

\* A body with top-level await ends (asyncModuleExecutionFulfilled): the gathering
\* begins with the parents of its module, which had yet to hear of it.
LEMMA BodyEndsKeeps ==
    ASSUME IndInv, NEW c \in Modules, BodyEnds(c)
    PROVE  IndInv'
<1>a. TypeOK /\ WalkOK /\ RecordsOK /\ JobsOK /\ ExecutesOnce /\ FulfilledMeansDone
  BY DEF IndInv, Consistent
<1>b. /\ graph' = graph /\ tla' = tla /\ instances' = instances /\ status' = status
      /\ pending' = pending /\ cycleRoot' = cycleRoot /\ counter' = counter
      /\ asyncParents' = asyncParents /\ failed' = failed /\ UNCHANGED walkVars /\ exec' = exec
      /\ Quiet /\ body[c].at = "running" /\ body' = [body EXCEPT ![c].at = "done"]
  BY DEF BodyEnds, graphVars
<1>1. go = <<>> /\ gather = <<>> /\ exec = {}
  BY <1>b DEF Quiet
<1>2. /\ c \in instances
      /\ body' \in [Modules -> [at : {"none", "running", "done", "threw"}, began : Nat]]
      /\ body'[c].at = "done" /\ body'[c].began = 1 /\ body[c].began = 1
      /\ \A x \in Modules : x # c => body'[x] = body[x]
  BY <1>b, RunningIs
<1>3. WalkOK' /\ Walking = {} /\ Walking' = {} /\ go' = <<>> /\ stack' = <<>>
  BY <1>1, <1>b, <1>a, WalkAtRest
<1>4. \A m \in Modules : body[m].at = "done" => body'[m].at = "done"
  BY <1>2
<1>5. \/ /\ status[c] # "evaluated"
         /\ asyncEvaluation' = [asyncEvaluation EXCEPT ![c] = 0]
         /\ capability' = Settle(capability, {c}, "fulfilled")
         /\ gather' = <<[m |-> c, next |-> 1]>>
      \/ /\ status[c] = "evaluated" /\ asyncEvaluation' = asyncEvaluation
         /\ capability' = capability /\ gather' = <<>>
  BY <1>1 DEF BodyEnds
<1>6. \/ /\ c \notin failed /\ Len(gather') = 1 /\ gather'[1].m = c
      \/ c \in failed /\ Len(gather') = 0
  <2>1. CASE status[c] # "evaluated"
    <3>1. c \notin failed
      BY <2>1, <1>a DEF RecordsOK
    <3> QED
      BY <3>1, <2>1, <1>5
  <2>2. CASE status[c] = "evaluated"
    <3>1. c \in failed
      BY <2>2, <1>b, <1>a DEF RecordsOK
    <3> QED
      BY <3>1, <2>2, <1>5, EmptySeq
  <2> QED
    BY <2>1, <2>2
<1>7. gather' \in Seq(Activation)
  <2>0. [m |-> c, next |-> 1] \in Activation
    BY DEF Activation
  <2>1. PICK e \in Activation : e = [m |-> c, next |-> 1]
    BY <2>0
  <2>2. gather' = <<e>> \/ gather' = <<>>
    BY ONLY <2>1, <1>5
  <2>3. <<e>> \in Seq(Activation) /\ <<>> \in Seq(Activation)
    BY EmptySeq
  <2> QED
    BY <2>2, <2>3
<1>8. /\ asyncEvaluation' \in [Modules -> 0..counter']
      /\ \A m \in Modules : m # c => asyncEvaluation'[m] = asyncEvaluation[m]
  <2>1. counter \in Nat /\ asyncEvaluation \in [Modules -> 0..counter]
    BY <1>a DEF TypeOK
  <2>2. 0 \in 0..counter
    BY <2>1
  <2> QED
    BY <2>1, <2>2, <1>5, <1>b
<1>9. /\ capability' \in [Modules -> {"none", "pending", "fulfilled", "rejected"}]
      /\ \A m \in Modules : capability'[m] = "fulfilled" => m = c \/ capability[m] = "fulfilled"
  BY <1>5, <1>a DEF TypeOK, Settle
<1>10. TypeOK'
  <2>1. stack' \in Seq(Modules) /\ go' \in Seq(Activation)
    BY <1>3, EmptySeq
  <2> QED
    BY <2>1, <1>2, <1>7, <1>8, <1>9, <1>b, <1>a DEF TypeOK
<1>11. RecordsOK'
  <2>1. \A m \in Modules \ instances' : body'[m].began = 0 /\ asyncEvaluation'[m] = 0
    BY <1>2, <1>8, <1>b, <1>a DEF RecordsOK
  <2>2. \A m \in Modules : body'[m].began = 0 <=> body'[m].at = "none"
    BY <1>2, <1>a DEF RecordsOK
  <2>3. \A m \in failed' : status'[m] = "evaluated"
    BY <1>b, <1>a DEF RecordsOK
  <2>4. \A m \in Modules : status'[m] = "evaluated" => m \in failed' \/ body'[m].at = "done"
    BY <1>4, <1>b, <1>a DEF RecordsOK
  <2>5. ASSUME NEW m \in instances' \ Walking', asyncEvaluation'[m] = 0
        PROVE  m \in failed' \/ body'[m].at = "done"
    <3>1. m \in Modules /\ m \in instances \ Walking
      BY <1>3, <1>b, <1>a DEF TypeOK
    <3> QED
      BY <3>1, <2>5, <1>2, <1>4, <1>8, <1>b, <1>a DEF RecordsOK
  <2>6. \A m \in Modules : Elements(asyncParents'[m]) \subseteq instances'
    BY <1>b, <1>a DEF RecordsOK
  <2> QED
    BY <2>1, <2>2, <2>3, <2>4, <2>5, <2>6 DEF RecordsOK, Elements
<1>12. JobsOK'
  <2>1. ASSUME NEW d \in Modules, NEW i \in 1..Len(asyncParents[d]), Telling(d, i)'
        PROVE  Telling(d, i)
    <3>1. CASE ToTell(d)'
      <4>1. d # c
        BY <3>1, <1>2 DEF ToTell
      <4> QED
        BY <3>1, <4>1, <1>2, <1>b DEF ToTell, Telling
    <3>2. CASE ~ToTell(d)'
      <4>1. PICK g \in 1..Len(gather') : gather'[g].m = d
        BY <2>1, <3>2 DEF Telling
      <4>2. c \notin failed /\ d = c
        <5>1. Len(gather') # 0
          BY <4>1
        <5>2. Len(gather') = 1 /\ c \notin failed /\ gather'[1].m = c
          BY <5>1, <1>6
        <5>3. g = 1
          BY <4>1, <5>2
        <5> QED
          BY <4>1, <5>2, <5>3
      <4> QED
        BY <4>2, <1>b DEF Telling, ToTell
    <3> QED
      BY <3>1, <3>2
  <2>2. \A m \in Modules : Begins(m)' <=> Begins(m)
    BY <1>2, <1>b DEF Begins
  <2>3. \A m \in Modules \ failed' : Counts(m)'
    BY <2>1, <2>2, <1>b, <1>a, CountsKept
  <2>4. ASSUME NEW g \in 1..Len(gather') PROVE g = 1 /\ gather'[g].m = c
    <3>1. Len(gather') # 0
      OBVIOUS
    <3>2. Len(gather') = 1 /\ gather'[1].m = c
      BY <3>1, <1>6
    <3>3. g = 1
      BY <3>2
    <3> QED
      BY <3>2, <3>3
  <2>5. JobList'
    BY <2>4, <1>1, <1>2, <1>b DEF JobList
  <2> QED
    BY <2>3, <2>5, JobsSplit
<1>13. ExecutesOnce'
  BY <1>2, <1>a DEF ExecutesOnce
<1>14. FulfilledMeansDone'
  BY <1>2, <1>4, <1>9, <1>b, <1>a DEF FulfilledMeansDone
<1> QED
  BY <1>3, <1>10, <1>11, <1>12, <1>13, <1>14 DEF IndInv, Consistent

\* While a job gathers, there is no walk.
LEMMA GatherIs ==
    ASSUME TypeOK, WalkOK, JobsOK, Gathering
    PROVE  /\ go = <<>> /\ Len(gather) \in Nat \ {0} /\ Len(gather) \in 1..Len(gather)
           /\ GatherAt = gather[Len(gather)] /\ GatherAt.m \in Modules /\ GatherAt.next \in Nat \ {0}
           /\ Parents = asyncParents[GatherAt.m]
           /\ Parents \in Seq(Modules) /\ Len(Parents) \in Nat
<1>1. gather # <<>> /\ go = <<>> /\ gather \in Seq(Activation)
  BY DEF Gathering, WalkOK, TypeOK
<1>2. /\ Len(gather) \in Nat \ {0} /\ Len(gather) \in 1..Len(gather) /\ Top(gather) = gather[Len(gather)]
      /\ Top(gather) \in Activation
  BY ONLY <1>1, Popped
<1>3. GatherAt.m \in Modules /\ GatherAt.next \in Nat \ {0} /\ GatherAt = gather[Len(gather)]
  BY <1>2 DEF GatherAt, Activation
<1>4. Parents \in Seq(Modules) /\ Len(Parents) \in Nat
  BY <1>3, Types DEF Parents
<1> QED
  BY <1>1, <1>2, <1>3, <1>4 DEF Parents

\* A step of the gathering leaves the records, the bodies and the promises alone.
LEMMA GatherLeaves ==
    ASSUME IndInv, go = <<>>, gather' \in Seq(Activation), exec' \subseteq instances,
           pending' \in [Modules -> Nat], \A m \in Modules : pending'[m] <= pending[m],
           UNCHANGED <<graphVars, walkVars, instances, status, cycleRoot, asyncEvaluation, counter,
                       asyncParents, failed, capability, body>>
    PROVE  TypeOK' /\ WalkOK' /\ RecordsOK' /\ ExecutesOnce' /\ FulfilledMeansDone'
<1>a. TypeOK /\ WalkOK /\ RecordsOK /\ ExecutesOnce /\ FulfilledMeansDone
  BY DEF IndInv, Consistent
<1>b. /\ graph' = graph /\ tla' = tla /\ instances' = instances /\ status' = status
      /\ cycleRoot' = cycleRoot /\ asyncEvaluation' = asyncEvaluation /\ counter' = counter
      /\ asyncParents' = asyncParents /\ failed' = failed /\ capability' = capability
      /\ body' = body /\ UNCHANGED walkVars
  BY DEF graphVars
<1>1. WalkOK' /\ Walking = {} /\ Walking' = {} /\ go' = <<>> /\ stack' = <<>>
  BY <1>b, <1>a, WalkAtRest
<1>2. \A m \in Modules : pending'[m] <= Len(graph'[m])
  <2>1. \A m \in Modules : pending[m] \in Nat /\ Len(graph[m]) \in Nat /\ pending[m] <= Len(graph[m])
    BY <1>a, Types
  <2> QED
    BY <2>1, <1>b
<1>3. go' \in Seq(Activation) /\ stack' \in Seq(Modules)
  BY <1>1, EmptySeq
<1>4. TypeOK'
  BY <1>2, <1>3, <1>b, <1>a DEF TypeOK
<1>5. RecordsOK'
  BY <1>1, <1>b, <1>a DEF RecordsOK, Elements
<1> QED
  BY <1>1, <1>4, <1>5, <1>b, <1>a DEF ExecutesOnce, FulfilledMeansDone

\* The gathering from a module is over.
LEMMA GatherReturnsKeeps ==
    ASSUME IndInv, gatherReturns
    PROVE  IndInv'
<1>a. TypeOK /\ WalkOK /\ JobsOK
  BY DEF IndInv, Consistent
<1>b. /\ gather' = Pop(gather) /\ gather # <<>> /\ graph' = graph /\ tla' = tla
      /\ instances' = instances /\ status' = status /\ pending' = pending
      /\ cycleRoot' = cycleRoot /\ asyncEvaluation' = asyncEvaluation /\ counter' = counter
      /\ asyncParents' = asyncParents /\ failed' = failed /\ capability' = capability
      /\ body' = body /\ UNCHANGED walkVars /\ exec' = exec
  BY DEF gatherReturns, graphVars, stateVars, Gathering
<1>1. go = <<>>
  BY <1>a, GatherIs DEF gatherReturns
<1>2. /\ gather' \in Seq(Activation) /\ Len(gather') = Len(gather) - 1 /\ Len(gather) \in Nat \ {0}
      /\ \A i \in 1..(Len(gather) - 1) : gather'[i] = gather[i]
  <2>1. gather \in Seq(Activation) /\ gather # <<>> /\ gather' = Pop(gather)
    BY <1>b, <1>a DEF TypeOK
  <2> QED
    BY ONLY <2>1, Popped
<1>3. \A g \in 1..Len(gather') : g \in 1..Len(gather) /\ gather'[g] = gather[g]
  BY ONLY <1>2
<1>4. TypeOK' /\ WalkOK' /\ RecordsOK' /\ ExecutesOnce' /\ FulfilledMeansDone'
  <2>1. /\ exec' \subseteq instances /\ pending' \in [Modules -> Nat]
        /\ \A m \in Modules : pending'[m] <= pending[m]
    BY <1>b, <1>a DEF TypeOK
  <2>2. UNCHANGED <<graphVars, walkVars, instances, status, cycleRoot, asyncEvaluation, counter,
                    asyncParents, failed, capability, body>>
    BY <1>b DEF graphVars
  <2> QED
    BY <2>1, <2>2, <1>1, <1>2, GatherLeaves
<1>5. \A d \in Modules : \A i \in 1..Len(asyncParents[d]) : Telling(d, i)' => Telling(d, i)
  BY <1>3, <1>b DEF Telling, ToTell
<1>6. \A m \in Modules : Begins(m)' <=> Begins(m)
  BY <1>b DEF Begins
<1>7. \A m \in Modules \ failed' : Counts(m)'
  BY <1>5, <1>6, <1>b, <1>a, CountsKept
<1>8. JobList'
  <2>1. JobList
    BY <1>a, JobsSplit
  <2> QED
    BY <2>1, <1>3, <1>b DEF JobList
<1> QED
  BY <1>4, <1>7, <1>8, JobsSplit DEF IndInv, Consistent

\* One turn of gatherAvailableAncestors.  The entry it meets is one that its parent
\* had yet to hear of, so pendingAsyncDependancies is not zero before the decrement
\* and still covers the rest after it.
LEMMA GatherParentKeeps ==
    ASSUME IndInv, gatherParent
    PROVE  IndInv'
<1>a. TypeOK /\ WalkOK /\ RecordsOK /\ JobsOK
  BY DEF IndInv, Consistent
<1>b. /\ graph' = graph /\ tla' = tla /\ instances' = instances /\ status' = status
      /\ cycleRoot' = cycleRoot /\ asyncEvaluation' = asyncEvaluation /\ counter' = counter
      /\ asyncParents' = asyncParents /\ failed' = failed /\ capability' = capability
      /\ body' = body /\ UNCHANGED walkVars
  BY DEF gatherParent, graphVars
<1>c. UNCHANGED <<graphVars, walkVars, instances, status, cycleRoot, asyncEvaluation, counter,
                  asyncParents, failed, capability, body>>
  BY <1>b DEF graphVars
<1>0. Gathering /\ GatherAt.next <= Len(Parents)
  BY DEF gatherParent
<1>1. PICK d : d = GatherAt.m
  OBVIOUS
<1>2. PICK k : k = GatherAt.next
  OBVIOUS
<1>3. PICK m : m = Parents[GatherAt.next]
  OBVIOUS
<1>4. /\ go = <<>> /\ Len(gather) \in Nat \ {0} /\ Len(gather) \in 1..Len(gather)
      /\ gather[Len(gather)].m = d /\ gather[Len(gather)].next = k
      /\ d \in Modules /\ k \in 1..Len(asyncParents[d]) /\ asyncParents[d][k] = m /\ k \in Nat
      /\ asyncParents[d] \in Seq(Modules)
  BY <1>0, <1>1, <1>2, <1>3, <1>a, GatherIs
<1>5. m \in Modules /\ m \in instances
  <2>1. m \in Modules
    BY <1>4, ElementOfSeq
  <2>2. m \in Elements(asyncParents[d])
    BY <1>4 DEF Elements
  <2> QED
    BY <2>1, <2>2, <1>4, <1>a DEF RecordsOK
<1>6. PICK t : t = Next1
  OBVIOUS
<1>7. /\ t \in Seq(Activation) /\ Len(t) = Len(gather) /\ t # <<>>
      /\ \A g \in 1..Len(gather) : t[g].m = gather[g].m
      /\ \A g \in 1..Len(gather) :
            t[g].next = IF g = Len(gather) THEN gather[g].next + 1 ELSE gather[g].next
  <2>1. PICK s : s = gather
    OBVIOUS
  <2>2. s \in Seq(Activation) /\ s # <<>> /\ t = [s EXCEPT ![Len(s)].next = @ + 1]
    BY <2>1, <1>0, <1>6, <1>a DEF TypeOK, Gathering, Next1
  <2>3. /\ t \in Seq(Activation) /\ Len(t) = Len(s) /\ t # <<>>
        /\ \A i \in 1..Len(s) : t[i].m = s[i].m
        /\ \A i \in 1..Len(s) : t[i].next = IF i = Len(s) THEN s[i].next + 1 ELSE s[i].next
    BY ONLY <2>2, Advanced
  <2> QED
    BY <2>1, <2>3
<1>8. \A g \in 1..Len(gather) : gather[g].next \in Nat /\ gather[g].m \in Modules
  <2>1. \A g \in 1..Len(gather) : gather[g] \in Activation
    BY <1>a, Types
  <2> QED
    BY <2>1 DEF Activation
<1>9. \A g \in 1..Len(gather) : \A i \in Nat : t[g].next <= i => gather[g].next <= i
  BY <1>7, <1>8
<1>d. JobList
  BY <1>a, JobsSplit
<1>e. \A x \in Modules : Len(asyncParents[x]) \in Nat
  BY <1>a, Types
<1>10. CASE m \in exec \/ m \in failed
  <2>1. gather' = t /\ pending' = pending /\ exec' = exec
    BY <1>10, <1>3, <1>6 DEF gatherParent
  <2>2. TypeOK' /\ WalkOK' /\ RecordsOK' /\ ExecutesOnce' /\ FulfilledMeansDone'
    <3>1. /\ exec' \subseteq instances /\ pending' \in [Modules -> Nat] /\ gather' \in Seq(Activation)
          /\ \A x \in Modules : pending'[x] <= pending[x]
      BY <2>1, <1>7, <1>a DEF TypeOK
    <3> QED
      BY <3>1, <1>4, <1>c, GatherLeaves
  <2>3. ASSUME NEW x \in Modules, NEW i \in 1..Len(asyncParents[x]), Telling(x, i)'
        PROVE  Telling(x, i)
    <3>1. ToTell(x)' => ToTell(x)
      BY <2>1, <1>b DEF ToTell
    <3>2. i \in Nat
      BY <1>e
    <3> QED
      BY <2>1, <2>3, <3>1, <3>2, <1>7, <1>9 DEF Telling
  <2>4. \A x \in Modules : Begins(x)' <=> Begins(x)
    BY <2>1, <1>b DEF Begins
  <2>5. \A x \in Modules \ failed' : Counts(x)'
    BY <2>1, <2>3, <2>4, <1>b, <1>a, CountsKept
  <2>6. JobList'
    BY <2>1, <1>7, <1>b, <1>d DEF JobList
  <2> QED
    BY <2>2, <2>5, <2>6, JobsSplit DEF IndInv, Consistent
<1>11. CASE m \notin exec /\ m \notin failed
  <2>1. PICK q : q = pending[m] - 1
    OBVIOUS
  <2>2. PICK U : U = Unheard(m)
    OBVIOUS
  <2>3. <<d, k>> \in U
    <3>1. Telling(d, k)
      BY <1>4 DEF Telling
    <3> QED
      BY <2>2, <3>1, <1>4, UnheardIs
  <2>4. IsFiniteSet(U) /\ ~Begins(m) /\ Cardinality(U) <= pending[m]
    BY <2>2, <2>3, <1>5, <1>11, <1>a, JobsSplit DEF Counts
  <2>5. pending[m] \in Nat /\ Cardinality(U) \in Nat /\ Cardinality(U) # 0
    BY <2>3, <2>4, <1>5, <1>a, Types, FS_CardinalityType, FS_EmptySet
  <2>6. q \in Nat /\ q + 1 = pending[m]
    BY <2>1, <2>4, <2>5
  <2>7. body[m].began = 0 /\ body[m].at = "none" /\ ToTell(m)
    <3>1. body[m] \in [at : {"none", "running", "done", "threw"}, began : Nat]
      BY <1>5, <1>a, Types
    <3>2. body[m].began = 0
      BY <2>4, <3>1 DEF Begins
    <3>3. body[m].at = "none"
      BY <3>2, <1>5, <1>a DEF RecordsOK
    <3> QED
      BY <3>2, <3>3, <1>11 DEF ToTell
  <2>8. /\ pending' = [pending EXCEPT ![m] = q]
        /\ exec' = IF q = 0 THEN exec \union {m} ELSE exec
        /\ gather' = IF q = 0 /\ m \notin tla THEN Append(t, [m |-> m, next |-> 1]) ELSE t
    <3>1. /\ pending' = [pending EXCEPT ![m] = @ - 1]
          /\ exec' = IF pending'[m] = 0 THEN exec \union {m} ELSE exec
          /\ gather' = IF pending'[m] = 0 /\ m \notin tla
                       THEN Append(t, [m |-> m, next |-> 1]) ELSE t
      BY <1>3, <1>6, <1>11 DEF gatherParent, Ready
    <3>2. pending' = [pending EXCEPT ![m] = q]
      BY <3>1, <2>1
    <3>3. pending'[m] = q
      BY <3>2, <1>5, <1>a DEF TypeOK
    <3> QED
      BY <3>1, <3>2, <3>3
  <2>9. /\ pending' \in [Modules -> Nat] /\ pending'[m] = q
        /\ \A x \in Modules : x # m => pending'[x] = pending[x]
    BY <2>6, <2>8, <1>5, <1>a DEF TypeOK
  <2>10. PICK e \in Activation : e = [m |-> m, next |-> 1]
    <3>1. [m |-> m, next |-> 1] \in Activation
      BY <1>5 DEF Activation
    <3> QED
      BY <3>1
  <2>11. /\ Append(t, e) \in Seq(Activation) /\ Len(Append(t, e)) = Len(gather) + 1
         /\ \A g \in 1..Len(gather) : Append(t, e)[g] = t[g]
         /\ Append(t, e)[Len(gather) + 1] = e
    BY <1>7, Appended
  <2>12. /\ gather' \in Seq(Activation)
         /\ \A g \in 1..Len(gather) : g \in 1..Len(gather') /\ gather'[g] = t[g]
         /\ \A g \in 1..Len(gather') :
               g \in 1..Len(gather) \/ (gather'[g].m = m /\ q = 0 /\ m \notin tla /\ g = Len(gather) + 1)
    <3>1. CASE q = 0 /\ m \notin tla
      <4>1. gather' = Append(t, e)
        BY <3>1, <2>8, <2>10
      <4>2. e.m = m
        BY <2>10
      <4>3. \A g \in 1..(Len(gather) + 1) : g \in 1..Len(gather) \/ g = Len(gather) + 1
        BY <1>4
      <4>4. \A g \in 1..Len(gather) : g \in 1..(Len(gather) + 1)
        BY <1>4
      <4> QED
        BY <4>1, <4>2, <4>3, <4>4, <3>1, <2>11
    <3>2. CASE ~(q = 0 /\ m \notin tla)
      <4>1. gather' = t
        BY <3>2, <2>8
      <4> QED
        BY <4>1, <1>7
    <3> QED
      BY <3>1, <3>2
  <2>13. m # d /\ \A g \in 1..Len(gather) : gather[g].m # m
    BY <2>7, <1>4, <1>11, <1>d DEF JobList
  <2>14. exec \subseteq exec' /\ exec' \subseteq exec \union {m} /\ (m \in exec' <=> q = 0)
    BY <2>8, <1>11
  <2>15. TypeOK' /\ WalkOK' /\ RecordsOK' /\ ExecutesOnce' /\ FulfilledMeansDone'
    <3>1. exec' \subseteq instances
      BY <2>14, <1>5, <1>a DEF TypeOK
    <3>2. \A x \in Modules : pending[x] \in Nat
      BY <1>a DEF TypeOK
    <3>3. \A x \in Modules : pending'[x] <= pending[x]
      BY <3>2, <2>6, <2>9
    <3> QED
      BY <3>1, <3>3, <2>9, <2>12, <1>4, <1>c, GatherLeaves
  <2>16. \A x \in Modules : ToTell(x)' => ToTell(x)
    BY <2>7, <2>14, <1>b DEF ToTell
  <2>17. ASSUME NEW x \in Modules, NEW i \in 1..Len(asyncParents[x]), Telling(x, i)'
         PROVE  Telling(x, i)
    <3>1. CASE ToTell(x)'
      BY <3>1, <2>16 DEF Telling
    <3>2. CASE ~ToTell(x)'
      <4>1. PICK g \in 1..Len(gather') : gather'[g].m = x /\ gather'[g].next <= i
        BY <2>17, <3>2 DEF Telling
      <4>2. CASE g \in 1..Len(gather)
        <5>1. gather[g].m = x /\ t[g].next <= i /\ i \in Nat
          BY <4>1, <4>2, <2>12, <1>7, <1>e
        <5>2. gather[g].next <= i
          BY <4>2, <5>1, <1>9
        <5> QED
          BY <4>2, <5>1, <5>2 DEF Telling
      <4>3. CASE g \notin 1..Len(gather)
        <5>1. x = m
          BY <4>1, <4>3, <2>12
        <5> QED
          BY <5>1, <2>7 DEF Telling
      <4> QED
        BY <4>2, <4>3
    <3> QED
      BY <3>1, <3>2
  <2>18. ~Telling(d, k)'
    <3>1. ~ToTell(d)
      <4>1. d \in exec \ tla \/ body[d].at = "done"
        BY <1>4, <1>d DEF JobList
      <4>2. d \in exec => body[d].began = 0
        BY <1>d DEF JobList
      <4> QED
        BY <4>1, <4>2, <1>4, <1>a DEF ToTell, RecordsOK
    <3>2. ASSUME NEW g \in 1..Len(gather'), gather'[g].m = d, gather'[g].next <= k PROVE FALSE
      <4>1. g \in 1..Len(gather)
        BY <3>2, <2>12, <2>13
      <4>2. gather[g].m = d /\ t[g].next <= k
        BY <4>1, <3>2, <2>12, <1>7
      <4>3. g = Len(gather)
        BY <4>1, <4>2, <1>4, <1>d DEF JobList
      <4>4. t[g].next = k + 1
        BY <4>1, <4>3, <1>4, <1>7
      <4> QED
        BY <4>2, <4>4, <1>4
    <3> QED
      BY <3>1, <3>2, <2>16, <1>4 DEF Telling
  <2>19. ASSUME NEW x \in Modules, x \notin failed' PROVE Counts(x)'
    <3>1. Counts(x)
      BY <2>19, <1>b, <1>a, JobsSplit
    <3>2. Unheard(x)' \subseteq Unheard(x)
      BY <2>17, <1>b, UnheardShrinks
    <3>3. CASE x # m
      <4>1. Begins(x)' <=> Begins(x)
        BY <3>3, <2>14, <1>b DEF Begins
      <4>2. pending'[x] = pending[x] /\ pending[x] \in Nat
        BY <3>3, <2>9, <1>a DEF TypeOK
      <4> QED
        BY <3>1, <3>2, <4>1, <4>2, CountKept
    <3>4. CASE x = m
      <4>1. PICK V : V = Unheard(m)'
        OBVIOUS
      <4>2. PICK p : p = <<d, k>>
        OBVIOUS
      <4>3. p \notin V
        <5> SUFFICES ASSUME p \in V PROVE FALSE
          OBVIOUS
        <5>1. PICK y \in Modules : \E i \in 1..Len(asyncParents'[y]) :
                 p = <<y, i>> /\ asyncParents'[y][i] = m /\ Telling(y, i)'
          BY <4>1, UnheardIsThen
        <5>2. PICK i \in 1..Len(asyncParents'[y]) : p = <<y, i>> /\ Telling(y, i)'
          BY <5>1
        <5>3. y = d /\ i = k
          BY <5>2, <4>2
        <5> QED
          BY <5>2, <5>3, <2>18
      <4>4. V \in SUBSET (U \ {p}) /\ p \in U
        BY <4>1, <4>2, <4>3, <3>2, <3>4, <2>2, <2>3
      <4>5. IsFiniteSet(U \ {p}) /\ Cardinality(U \ {p}) = Cardinality(U) - 1
        BY <4>4, <2>4, FS_RemoveElement
      <4>6. IsFiniteSet(V) /\ Cardinality(V) <= Cardinality(U \ {p}) /\ Cardinality(V) \in Nat
        BY <4>4, <4>5, FS_Subset, FS_CardinalityType
      <4>7. Cardinality(V) <= q
        BY <4>5, <4>6, <2>4, <2>5, <2>6
      <4>8. q = 0 => V = {}
        BY <4>6, <4>7, FS_EmptySet
      <4>9. Begins(m)' <=> q = 0
        <5>1. ~(body'[m].began > 0)
          BY <2>7, <1>b
        <5> QED
          BY <5>1, <2>14 DEF Begins
      <4> QED
        BY <3>4, <4>1, <4>6, <4>7, <4>8, <4>9, <2>9 DEF Counts
    <3> QED
      BY <3>3, <3>4
  <2>20. JobList'
    <3>1. \A x \in exec' : body'[x].began = 0
      BY <2>7, <2>14, <1>b, <1>d DEF JobList
    <3>2. \A g \in 1..Len(gather') :
             gather'[g].m \in exec' \ tla' \/ body'[gather'[g].m].at = "done"
      BY <2>12, <2>14, <1>7, <1>b, <1>d DEF JobList
    <3>3. \A g, h \in 1..Len(gather') : gather'[g].m = gather'[h].m => g = h
      BY <2>12, <2>13, <1>7, <1>d DEF JobList
    <3> QED
      BY <3>1, <3>2, <3>3 DEF JobList
  <2> QED
    BY <2>15, <2>19, <2>20, JobsSplit DEF IndInv, Consistent
<1> QED
  BY <1>10, <1>11

\* execList goes on only when the gathering is over, and there is no walk then.
LEMMA ExecIs ==
    ASSUME IndInv, ~Gathering, NEW m \in First
    PROVE  /\ go = <<>> /\ gather = <<>> /\ m \in exec /\ m \in Modules /\ m \in instances
           /\ body[m].began = 0 /\ body[m].at = "none"
           /\ status[m] = "evaluated" <=> m \in failed
<1>a. TypeOK /\ WalkOK /\ RecordsOK /\ JobsOK
  BY DEF IndInv, Consistent
<1>1. m \in exec /\ gather = <<>> /\ go = <<>> /\ m \in instances /\ m \in Modules
  BY <1>a DEF First, Gathering, WalkOK, TypeOK
<1>2. body[m].began = 0
  BY <1>1, <1>a DEF JobsOK
<1>3. body[m].at = "none"
  BY <1>1, <1>2, <1>a DEF RecordsOK
<1>4. status[m] = "evaluated" <=> m \in failed
  BY <1>1, <1>3, <1>a DEF RecordsOK
<1> QED
  BY <1>1, <1>2, <1>3, <1>4

\* A module of execList with top-level await begins, or one that has failed
\* meanwhile is passed over.
LEMMA ExecAsyncKeeps ==
    ASSUME IndInv, ExecAsync
    PROVE  IndInv'
<1>a. TypeOK /\ WalkOK /\ RecordsOK /\ JobsOK /\ ExecutesOnce /\ FulfilledMeansDone
  BY DEF IndInv, Consistent
<1>b. /\ graph' = graph /\ tla' = tla /\ instances' = instances /\ status' = status
      /\ pending' = pending /\ cycleRoot' = cycleRoot /\ asyncEvaluation' = asyncEvaluation
      /\ counter' = counter /\ asyncParents' = asyncParents /\ failed' = failed
      /\ capability' = capability /\ UNCHANGED walkVars /\ gather' = gather /\ ~Gathering
  BY DEF ExecAsync, graphVars
<1>1. PICK m \in First :
         /\ status[m] = "evaluated" \/ m \in tla
         /\ exec' = exec \ {m}
         /\ body' = IF status[m] = "evaluated" THEN body ELSE Ran(m, "running")
  BY DEF ExecAsync
<1>2. /\ go = <<>> /\ gather = <<>> /\ m \in exec /\ m \in Modules /\ m \in instances
      /\ body[m].began = 0 /\ body[m].at = "none"
      /\ status[m] = "evaluated" <=> m \in failed
  BY <1>b, ExecIs
<1>3. /\ body' \in [Modules -> [at : {"none", "running", "done", "threw"}, began : Nat]]
      /\ \A x \in Modules : x # m => body'[x] = body[x]
      /\ \/ m \in failed /\ body' = body
         \/ m \in tla /\ m \notin failed /\ body'[m].at = "running" /\ body'[m].began = 1
  <2>1. CASE status[m] = "evaluated"
    BY <2>1, <1>1, <1>2, <1>a DEF TypeOK
  <2>2. CASE status[m] # "evaluated"
    <3>1. body' = Ran(m, "running") /\ m \in tla /\ m \notin failed
      BY <2>2, <1>1, <1>2
    <3>2. /\ body' \in [Modules -> [at : {"none", "running", "done", "threw"}, began : Nat]]
          /\ body'[m].at = "running" /\ body'[m].began = body[m].began + 1
          /\ \A x \in Modules : x # m => body'[x] = body[x]
      BY <3>1, <1>2, <1>a, RanIs
    <3> QED
      BY <3>1, <3>2, <1>2
  <2> QED
    BY <2>1, <2>2
<1>4. WalkOK' /\ Walking = {} /\ Walking' = {} /\ go' = <<>> /\ stack' = <<>>
  BY <1>2, <1>b, <1>a, WalkAtRest
<1>5. \A x \in Modules : body[x].at = "done" => body'[x].at = "done"
  BY <1>2, <1>3
<1>6. TypeOK'
  <2>1. stack' \in Seq(Modules) /\ go' \in Seq(Activation) /\ exec' \subseteq instances
    BY <1>1, <1>4, <1>a, EmptySeq DEF TypeOK
  <2> QED
    BY <2>1, <1>3, <1>b, <1>a DEF TypeOK
<1>7. RecordsOK'
  <2>1. \A x \in Modules \ instances' : body'[x].began = 0 /\ asyncEvaluation'[x] = 0
    BY <1>2, <1>3, <1>b, <1>a DEF RecordsOK
  <2>2. \A x \in Modules : body'[x].began = 0 <=> body'[x].at = "none"
    BY <1>3, <1>a DEF RecordsOK
  <2>3. \A x \in Modules : status'[x] = "evaluated" => x \in failed' \/ body'[x].at = "done"
    BY <1>5, <1>b, <1>a DEF RecordsOK
  <2>4. \A x \in instances' \ Walking' : asyncEvaluation'[x] = 0 => x \in failed' \/ body'[x].at = "done"
    BY <1>4, <1>5, <1>b, <1>a DEF RecordsOK, TypeOK
  <2>5. /\ \A x \in Modules : Elements(asyncParents'[x]) \subseteq instances'
        /\ \A x \in failed' : status'[x] = "evaluated"
    BY <1>b, <1>a DEF RecordsOK
  <2> QED
    BY <2>1, <2>2, <2>3, <2>4, <2>5 DEF RecordsOK, Elements
<1>8. JobsOK'
  <2>1. \A x \in Modules : ToTell(x)' => ToTell(x)
    BY <1>1, <1>2, <1>3, <1>b DEF ToTell
  <2>2. \A d \in Modules : \A i \in 1..Len(asyncParents[d]) : Telling(d, i)' => Telling(d, i)
    BY <2>1, <1>b DEF Telling
  <2>3. \A x \in Modules \ failed' : Begins(x)' <=> Begins(x)
    BY <1>1, <1>2, <1>3, <1>b DEF Begins
  <2>4. \A x \in Modules \ failed' : Counts(x)'
    BY <2>2, <2>3, <1>b, <1>a, CountsKept
  <2>5. \A x \in exec' : body'[x].began = 0
    BY <1>1, <1>3, <1>a DEF JobsOK, TypeOK
  <2>6. Len(gather') = 0
    BY <1>2, <1>b, EmptySeq
  <2>7. JobList'
    BY <2>5, <2>6 DEF JobList
  <2> QED
    BY <2>4, <2>7, JobsSplit
<1>9. ExecutesOnce'
  BY <1>3, <1>a DEF ExecutesOnce
<1>10. FulfilledMeansDone'
  BY <1>5, <1>b, <1>a DEF FulfilledMeansDone
<1> QED
  BY <1>4, <1>6, <1>7, <1>8, <1>9, <1>10 DEF IndInv, Consistent

\* A module of execList without top-level await runs to its end.
LEMMA ExecKeeps ==
    ASSUME IndInv, NEW outcome, Exec(outcome)
    PROVE  IndInv'
<1>a. TypeOK /\ WalkOK /\ RecordsOK /\ JobsOK /\ ExecutesOnce /\ FulfilledMeansDone
  BY DEF IndInv, Consistent
<1>b. /\ graph' = graph /\ tla' = tla /\ instances' = instances
      /\ pending' = pending /\ cycleRoot' = cycleRoot /\ asyncEvaluation' = asyncEvaluation
      /\ counter' = counter /\ asyncParents' = asyncParents
      /\ UNCHANGED walkVars /\ gather' = gather /\ ~Gathering /\ UNCHANGED graphVars
  BY DEF Exec, graphVars
<1>1. PICK m \in First :
         /\ status[m] # "evaluated" /\ m \notin tla
         /\ exec' = exec \ {m}
         /\ body' = Ran(m, outcome)
         /\ \/ /\ outcome = "done"
               /\ status' = [status EXCEPT ![m] = "evaluated"]
               /\ capability' = Settle(capability, {m}, "fulfilled")
               /\ failed' = failed
            \/ outcome = "threw" /\ asyncModuleExecutionRejected(m)
  BY DEF Exec
<1>2. /\ go = <<>> /\ gather = <<>> /\ m \in exec /\ m \in Modules /\ m \in instances
      /\ body[m].began = 0 /\ body[m].at = "none" /\ m \notin failed
  BY <1>1, <1>b, ExecIs
<1>3. /\ body' \in [Modules -> [at : {"none", "running", "done", "threw"}, began : Nat]]
      /\ body'[m].at = outcome /\ body'[m].began = 1
      /\ \A x \in Modules : x # m => body'[x] = body[x]
  <2>1. outcome \in {"running", "done", "threw"} /\ body' = Ran(m, outcome)
    BY <1>1
  <2>2. /\ body' \in [Modules -> [at : {"none", "running", "done", "threw"}, began : Nat]]
        /\ body'[m].at = outcome /\ body'[m].began = body[m].began + 1
        /\ \A x \in Modules : x # m => body'[x] = body[x]
    BY <2>1, <1>2, <1>a, RanIs
  <2> QED
    BY <2>2, <1>2
<1>4. CASE outcome = "threw" /\ asyncModuleExecutionRejected(m)
  <2>1. UNCHANGED <<graphVars, instances, pending, cycleRoot, asyncEvaluation, counter,
                    asyncParents, walkVars>>
    BY <1>b
  <2>2. body[m].at # "done" /\ body'[m].at = "threw" /\ exec' = exec \ {m} /\ gather' = gather
    BY <1>1, <1>2, <1>3, <1>4, <1>b
  <2> QED
    BY <2>1, <2>2, <1>2, <1>3, <1>4, RejectKeeps
<1>5. CASE /\ outcome = "done"
           /\ status' = [status EXCEPT ![m] = "evaluated"]
           /\ capability' = Settle(capability, {m}, "fulfilled")
           /\ failed' = failed
  <2>1. WalkOK' /\ Walking = {} /\ Walking' = {} /\ go' = <<>> /\ stack' = <<>>
    BY <1>2, <1>b, <1>a, WalkAtRest
  <2>2. \A x \in Modules : body[x].at = "done" => body'[x].at = "done"
    BY <1>2, <1>3
  <2>3. /\ capability' \in [Modules -> {"none", "pending", "fulfilled", "rejected"}]
        /\ \A x \in Modules : capability'[x] = "fulfilled" => x = m \/ capability[x] = "fulfilled"
    BY <1>5, <1>a DEF TypeOK, Settle
  <2>4. TypeOK'
    <3>1. stack' \in Seq(Modules) /\ go' \in Seq(Activation) /\ exec' \subseteq instances
      BY <2>1, <1>1, <1>a, EmptySeq DEF TypeOK
    <3>2. status' \in [Modules -> {"new", "evaluating", "evaluating-async", "evaluated"}]
      BY <1>5, <1>a DEF TypeOK
    <3> QED
      BY <3>1, <3>2, <2>3, <1>3, <1>5, <1>b, <1>a DEF TypeOK
  <2>5. RecordsOK'
    <3>1. \A x \in Modules \ instances' : body'[x].began = 0 /\ asyncEvaluation'[x] = 0
      BY <1>2, <1>3, <1>b, <1>a DEF RecordsOK
    <3>2. \A x \in Modules : body'[x].began = 0 <=> body'[x].at = "none"
      BY <1>3, <1>5, <1>a DEF RecordsOK
    <3>3. \A x \in failed' : status'[x] = "evaluated"
      BY <1>5, <1>a DEF RecordsOK, TypeOK
    <3>4. \A x \in Modules : status'[x] = "evaluated" => x \in failed' \/ body'[x].at = "done"
      BY <2>2, <1>3, <1>5, <1>a DEF RecordsOK, TypeOK
    <3>5. \A x \in instances' \ Walking' :
             asyncEvaluation'[x] = 0 => x \in failed' \/ body'[x].at = "done"
      BY <2>1, <2>2, <1>5, <1>b, <1>a DEF RecordsOK, TypeOK
    <3>6. \A x \in Modules : Elements(asyncParents'[x]) \subseteq instances'
      BY <1>b, <1>a DEF RecordsOK
    <3> QED
      BY <3>1, <3>2, <3>3, <3>4, <3>5, <3>6 DEF RecordsOK, Elements
  <2>6. JobsOK'
    <3>1. \A x \in Modules : ToTell(x)' => ToTell(x)
      BY <1>1, <1>3, <1>5, <1>b DEF ToTell
    <3>2. \A d \in Modules : \A i \in 1..Len(asyncParents[d]) : Telling(d, i)' => Telling(d, i)
      BY <3>1, <1>b DEF Telling
    <3>3. \A x \in Modules \ failed' : Begins(x)' <=> Begins(x)
      BY <1>1, <1>2, <1>3, <1>b DEF Begins
    <3>4. \A x \in Modules \ failed' : Counts(x)'
      BY <3>2, <3>3, <1>5, <1>b, <1>a, CountsKept
    <3>5. \A x \in exec' : body'[x].began = 0
      BY <1>1, <1>3, <1>a DEF JobsOK, TypeOK
    <3>6. Len(gather') = 0
      BY <1>2, <1>b, EmptySeq
    <3>7. JobList'
      BY <3>5, <3>6 DEF JobList
    <3> QED
      BY <3>4, <3>7, JobsSplit
  <2>7. ExecutesOnce'
    BY <1>3, <1>a DEF ExecutesOnce
  <2>8. FulfilledMeansDone'
    BY <2>2, <2>3, <1>3, <1>5, <1>a DEF FulfilledMeansDone
  <2> QED
    BY <2>1, <2>4, <2>5, <2>6, <2>7, <2>8 DEF IndInv, Consistent
<1> QED
  BY <1>1, <1>4, <1>5

-----------------------------------------------------------------------------
(* The theorems *)

\* The invariant holds before any module is evaluated.
LEMMA InitHolds ==
    ASSUME Init
    PROVE  IndInv
<1>1. /\ graph \in Graphs /\ tla \subseteq Modules /\ instances = {} /\ failed = {} /\ counter = 0
      /\ status = [m \in Modules |-> "new"] /\ pending = [m \in Modules |-> 0]
      /\ asyncEvaluation = [m \in Modules |-> 0] /\ cycleRoot = [m \in Modules |-> 0]
      /\ asyncParents = [m \in Modules |-> <<>>] /\ capability = [m \in Modules |-> "none"]
      /\ body = [m \in Modules |-> [at |-> "none", began |-> 0]]
      /\ go = <<>> /\ stack = <<>> /\ gather = <<>> /\ exec = {}
  BY DEF Init, NoBody
<1>2. Len(<<>>) = 0 /\ 1..0 = {} /\ <<>> \in Seq(Modules) /\ <<>> \in Seq(Activation)
  BY EmptySeq
<1>3. Elements(<<>>) = {}
  BY <1>2 DEF Elements
<1>4. TypeOK
  <2>1. \A m \in Modules : Len(graph[m]) \in Nat
    <3>1. graph \in [Modules -> Seq(Modules)]
      BY <1>1, ModuleEvalAssumption
    <3> QED
      BY <3>1, LenProperties
  <2>2. pending \in [Modules -> Nat] /\ \A m \in Modules : pending[m] <= Len(graph[m])
    BY <2>1, <1>1
  <2>3. counter \in Nat /\ 0 \in 0..counter
    BY <1>1
  <2>4. body \in [Modules -> [at : {"none", "running", "done", "threw"}, began : Nat]]
    BY <1>1
  <2>5. asyncEvaluation \in [Modules -> 0..counter] /\ cycleRoot \in [Modules -> {0} \union instances]
    BY <2>3, <1>1
  <2>6. asyncParents \in [Modules -> Seq(Modules)]
    BY <1>1, <1>2
  <2>7. /\ status \in [Modules -> {"new", "evaluating", "evaluating-async", "evaluated"}]
        /\ capability \in [Modules -> {"none", "pending", "fulfilled", "rejected"}]
    BY <1>1
  <2> QED
    BY <2>2, <2>3, <2>4, <2>5, <2>6, <2>7, <1>1, <1>2 DEF TypeOK
<1>5. WalkOK
  BY <1>1, <1>2, <1>3 DEF WalkOK
<1>6. RecordsOK
  BY <1>1, <1>3 DEF RecordsOK
<1>7. JobsOK
  <2>1. ASSUME NEW m \in Modules PROVE Counts(m)
    <3>1. \A d \in Modules : Len(asyncParents[d]) = 0
      BY <1>1, <1>2
    <3>2. Unheard(m) = {}
      BY <3>1, UnheardIs
    <3>3. Cardinality({}) <= pending[m] /\ IsFiniteSet({})
      BY <1>1, FS_EmptySet
    <3> QED
      BY <3>2, <3>3 DEF Counts
  <2>2. JobList
    BY <1>1, <1>2 DEF JobList
  <2> QED
    BY <2>1, <2>2, JobsSplit
<1>8. ExecutesOnce /\ FulfilledMeansDone
  BY <1>1 DEF ExecutesOnce, FulfilledMeansDone
<1> QED
  BY <1>4, <1>5, <1>6, <1>7, <1>8 DEF IndInv, Consistent

\* Every step keeps it.
LEMMA NextKeeps ==
    ASSUME IndInv, [Next]_vars
    PROVE  IndInv'
<1>1. CASE \E c \in Modules : Evaluate(c)
  BY <1>1, EvaluateKeeps
<1>2. CASE \E c \in Modules : BodyEnds(c)
  BY <1>2, BodyEndsKeeps
<1>3. CASE \E c \in Modules : BodyThrows(c)
  BY <1>3, BodyThrowsKeeps
<1>4. CASE RequireNew
  BY <1>4, RequireNewKeeps
<1>5. CASE Require
  BY <1>5, RequireKeeps
<1>6. CASE ExecuteAsync
  BY <1>6, ExecuteAsyncKeeps
<1>7. CASE \E o \in Outcomes : Execute(o)
  BY <1>7, ExecuteKeeps
<1>8. CASE gatherParent
  BY <1>8, GatherParentKeeps
<1>9. CASE gatherReturns
  BY <1>9, GatherReturnsKeeps
<1>10. CASE ExecAsync
  BY <1>10, ExecAsyncKeeps
<1>11. CASE \E o \in Outcomes : Exec(o)
  BY <1>11, ExecKeeps
<1>12. CASE UNCHANGED vars
  <2>a. TypeOK /\ WalkOK /\ RecordsOK /\ JobsOK /\ ExecutesOnce /\ FulfilledMeansDone
    BY DEF IndInv, Consistent
  <2>1. /\ go' = go /\ stack' = stack /\ instances' = instances /\ status' = status
        /\ pending' = pending /\ graph' = graph /\ tla' = tla /\ cycleRoot' = cycleRoot
        /\ asyncEvaluation' = asyncEvaluation /\ counter' = counter /\ asyncParents' = asyncParents
        /\ failed' = failed /\ body' = body /\ gather' = gather /\ exec' = exec
        /\ capability' = capability
    BY <1>12 DEF vars, graphVars, stateVars, walkVars, jobVars
  <2>2. TypeOK'
    BY <2>1, <2>a DEF TypeOK
  <2>3. WalkOK' /\ RecordsOK'
    BY <2>1, <2>a DEF WalkOK, RecordsOK, Elements, Walking
  <2>4. \A d \in Modules : \A i \in 1..Len(asyncParents[d]) : Telling(d, i)' => Telling(d, i)
    BY <2>1 DEF Telling, ToTell
  <2>5. \A m \in Modules : Begins(m)' <=> Begins(m)
    BY <2>1 DEF Begins
  <2>6. \A m \in Modules \ failed' : Counts(m)'
    BY <2>1, <2>4, <2>5, <2>a, CountsKept
  <2>7. JobsOK'
    BY <2>1, <2>6, <2>a, JobsSplit DEF JobList
  <2> QED
    BY <2>1, <2>2, <2>3, <2>7, <2>a DEF IndInv, Consistent, ExecutesOnce, FulfilledMeansDone
<1> QED
  BY <1>1, <1>2, <1>3, <1>4, <1>5, <1>6, <1>7, <1>8, <1>9, <1>10, <1>11, <1>12
  DEF Next, WalkStep, JobStep, BodySettles

\* The records of every module, the walk and the jobs agree with each other in every
\* reachable state; pendingAsyncDependancies (modules.go:372), a uint, is never
\* decremented at zero, and covers all that its module is still to hear of.
THEOREM ConsistentAlways == Spec => []Consistent
<1>1. IndInv => Consistent
  BY DEF IndInv, Consistent
<1> QED
  BY <1>1, InitHolds, NextKeeps, PTL DEF Spec

\* No module's body is executed twice, whichever of the walk, execList or a later
\* Evaluate comes to it, for every graph and every order in which bodies settle.
THEOREM BodiesRunOnce == Spec => []ExecutesOnce
<1>1. IndInv => ExecutesOnce
  BY DEF IndInv, Consistent
<1> QED
  BY <1>1, InitHolds, NextKeeps, PTL DEF Spec

\* The promise of Evaluate is fulfilled only for a module whose body is done or that
\* failed in an earlier evaluation.
THEOREM FulfilledModulesAreDone == Spec => []FulfilledMeansDone
<1>1. IndInv => FulfilledMeansDone
  BY DEF IndInv, Consistent
<1> QED
  BY <1>1, InitHolds, NextKeeps, PTL DEF Spec

-----------------------------------------------------------------------------
(***************************************************************************)
(* The order in which the bodies of modules begin, and what their pending  *)
(* counts count, on top of what is proved above: whatever a module         *)
(* requires directly is done, has failed, or reaches that module itself,   *)
(* when its body begins (DependenciesFirst); pendingAsyncDependancies is,  *)
(* exactly, the asynchronous modules that a module waits for, as long as   *)
(* the host evaluates one module (PendingExact).                           *)
(*                                                                         *)
(* The walk keeps to its stack (WalkExact), so that a module that is still *)
(* evaluating when it is required is one that the walk came through.  Any  *)
(* other is done, has failed, or gets an entry in its asyncParents         *)
(* (RequestsOK).  The pending count says that such entries are met before  *)
(* a body begins; one is met when the module that owns it is done, or is   *)
(* put into execList, which is run in the order of asyncEvaluation         *)
(* (EntriesOrdered).                                                       *)
(*                                                                         *)
(* What the count stands for is Owed(m): the entries of m in asyncParents  *)
(* that a settled body has yet to notify m of, with those that no one ever *)
(* will, because the module that owns them failed before its body settled. *)
(* The count is never below that, and equal to it within one evaluation    *)
(* (CountOK), where nothing is lost: an error spreads to all who wait      *)
(* (ErrorsSpread), and the walk cannot meet a module that settled during   *)
(* it (FirstWalk), so that every increment goes with an entry.             *)
(***************************************************************************)

\* Every module is taken for the root of its own cycle, so that the stack is that
\* of the walk; the walk goes along requests.
WalkExact ==
    /\ Len(stack) = Len(go)
    /\ \A i \in 1..Len(go) : stack[i] = go[i].m
    /\ \A m \in Modules : status[m] = "evaluating" <=> m \in Walking
    /\ \A i, j \in 1..Len(go) : \A d \in Modules : go[i].m = d /\ i < j => go[j].m \in Reaches(d)

\* The walk numbers the modules upwards, and dfsAncestorIndex, which it would
\* lower for a module it came through later, is never lowered (modules.go:259).
IndicesOK ==
    /\ index \in Int /\ dfsIndex \in [Modules -> Int] /\ dfsAncestorIndex = dfsIndex
    /\ \A i \in 1..Len(go) : dfsIndex[go[i].m] < index
    /\ \A i, j \in 1..Len(go) : i < j => dfsIndex[go[i].m] < dfsIndex[go[j].m]

\* A module that was walked is its own cycleRoot, unless the walk failed.
RootsOK == \A m \in instances \ Walking : m \in failed \/ cycleRoot[m] = m

\* A module whose body threw has an evaluationError.
ErrorsOK == \A m \in Modules : body[m].at = "threw" => m \in failed

\* A module that is to hear of d became asynchronous after d.
EntriesOrdered ==
    \A d \in Modules : \A m \in Elements(asyncParents[d]) :
        d \notin failed /\ ~Settled(d) /\ m \notin failed /\ body[m].began = 0 =>
            /\ asyncEvaluation[d] # 0
            /\ m \in Walking \/ asyncEvaluation[d] < asyncEvaluation[m]

\* m need not wait for d.
Clear(m, d) == m \in Reaches(d) \/ body[d].at = "done" \/ d \in failed

\* The walk is past the k-th request of m.
Seen(m, k) == \A i \in 1..Len(go) : go[i].m = m => k < go[i].next

\* What a module has required so far it need not wait for, or is told of.
RequestsOK ==
    \A m \in instances \ failed : body[m].began = 0 =>
        \A k \in 1..Len(graph[m]) : \A d \in Modules :
            Seen(m, k) /\ graph[m][k] = d => Clear(m, d) \/ m \in Elements(asyncParents[d])

OrderInv ==
    /\ IndInv /\ WalkExact /\ IndicesOK /\ RootsOK /\ ErrorsOK
    /\ EntriesOrdered /\ RequestsOK /\ DependenciesFirst

-----------------------------------------------------------------------------
(* Reaching *)

\* The parts of the invariant, and the types that go with it.
LEMMA OrderParts ==
    ASSUME OrderInv
    PROVE  /\ TypeOK /\ WalkOK /\ RecordsOK /\ JobsOK /\ IndInv
           /\ WalkExact /\ IndicesOK /\ RootsOK /\ ErrorsOK
           /\ EntriesOrdered /\ RequestsOK /\ DependenciesFirst
BY DEF OrderInv, IndInv, Consistent

\* A module reaches what it requires, and what that requires in turn.
LEMMA ReachesRequested ==
    ASSUME NEW m \in Modules, TypeOK
    PROVE  /\ Elements(graph[m]) \subseteq Reaches(m)
           /\ \A x \in Reaches(m) : Elements(graph[x]) \subseteq Reaches(m)
<1>1. \A x \in Modules : Elements(graph[x]) \subseteq Modules
  <2> SUFFICES ASSUME NEW x \in Modules, NEW i \in 1..Len(graph[x]) PROVE graph[x][i] \in Modules
    BY DEF Elements
  <2>1. graph[x] \in Seq(Modules)
    BY Types
  <2> QED
    BY <2>1, ElementOfSeq
<1>2. Reaches(m) \subseteq Modules
  BY DEF Reaches
<1>3. Elements(graph[m]) \subseteq Reaches(m)
  BY <1>1 DEF Reaches
<1>4. ASSUME NEW x \in Reaches(m), NEW y \in Elements(graph[x]) PROVE y \in Reaches(m)
  <2>1. x \in Modules /\ y \in Modules
    BY <1>1, <1>2
  <2>2. ASSUME NEW ms \in SUBSET Modules, Elements(graph[m]) \subseteq ms,
               \A z \in ms : Elements(graph[z]) \subseteq ms
        PROVE  y \in ms
    <3>1. x \in ms
      BY <2>2 DEF Reaches
    <3> QED
      BY <3>1, <2>2
  <2> QED
    BY <2>1, <2>2 DEF Reaches
<1> QED
  BY <1>3, <1>4

\* The requests do not change, nor what is reached.
LEMMA ReachesKept ==
    ASSUME UNCHANGED graph
    PROVE  \A m : Reaches(m)' = Reaches(m)
BY DEF Reaches, Elements

\* What need not be waited for stays so.
LEMMA ClearKept ==
    ASSUME UNCHANGED graph, failed \subseteq failed', NEW m, NEW d,
           body[d].at = "done" => body'[d].at = "done", Clear(m, d)
    PROVE  Clear(m, d)'
BY ReachesKept DEF Clear

\* A module that heard of all it waits for, and is next in execList if it is there,
\* may begin.
LEMMA MayBegin ==
    ASSUME OrderInv, NEW m \in instances, m \notin failed, body[m].began = 0,
           Unheard(m) = {}, \A k \in 1..Len(graph[m]) : Seen(m, k),
           \A d \in exec \ tla : m \in Walking \/ asyncEvaluation[m] <= asyncEvaluation[d],
           m \in Walking => exec = {}
    PROVE  \A d \in Elements(graph[m]) : Clear(m, d)
<1>a. /\ TypeOK /\ RecordsOK /\ JobsOK /\ ErrorsOK /\ EntriesOrdered /\ RequestsOK
      /\ m \in Modules
  BY OrderParts DEF TypeOK
<1> SUFFICES ASSUME NEW d \in Elements(graph[m]), ~Clear(m, d) PROVE FALSE
  OBVIOUS
<1>1. PICK k \in 1..Len(graph[m]) : graph[m][k] = d
  BY DEF Elements
<1>2. d \in Modules
  <2>1. graph[m] \in Seq(Modules)
    BY <1>a, Types
  <2> QED
    BY <2>1, <1>1, ElementOfSeq
<1>3. m \in Elements(asyncParents[d])
  BY <1>1, <1>2, <1>a DEF RequestsOK
<1>4. PICK i \in 1..Len(asyncParents[d]) : asyncParents[d][i] = m
  BY <1>3 DEF Elements
<1>5. ~Telling(d, i)
  BY <1>2, <1>4, UnheardIs
<1>6. d \notin failed /\ body[d].at \in {"none", "running"}
  <2>1. body[d].at \in {"none", "running", "done", "threw"}
    <3>1. body[d] \in [at : {"none", "running", "done", "threw"}, began : Nat]
      BY <1>2, <1>a, Types
    <3> QED
      BY <3>1
  <2> QED
    BY <2>1, <1>2, <1>a DEF Clear, ErrorsOK
<1>7. d \in exec \ tla
  BY <1>5, <1>6 DEF Telling, ToTell
<1>8. m \notin Walking
  BY <1>7
<1>9. asyncEvaluation[d] < asyncEvaluation[m]
  BY <1>2, <1>3, <1>6, <1>8, <1>a DEF EntriesOrdered, Settled
<1>10. asyncEvaluation[m] <= asyncEvaluation[d]
  BY <1>7, <1>8
<1>11. asyncEvaluation[m] \in Int /\ asyncEvaluation[d] \in Int
  BY <1>2, <1>a DEF TypeOK
<1> QED
  BY <1>9, <1>10, <1>11

-----------------------------------------------------------------------------
(* Steps outside a walk *)

\* What every such step does: bodies and errors only go forward, asyncEvaluation
\* changes for a module that has settled only, and a body begins only when it may.
LEMMA QuietStepKeeps ==
    ASSUME OrderInv, IndInv', go = <<>>,
           UNCHANGED <<graphVars, walkVars, instances, dfsIndex, dfsAncestorIndex, cycleRoot,
                       asyncParents>>,
           failed \subseteq failed',
           \A x \in Modules :
              /\ status'[x] = "evaluating" => status[x] = "evaluating"
              /\ body[x].at = "done" => body'[x].at = "done"
              /\ body'[x].began = 0 => body[x].began = 0
              /\ Settled(x) => Settled(x)'
              /\ body'[x].at = "threw" => x \in failed'
              /\ asyncEvaluation'[x] = asyncEvaluation[x] \/ Settled(x)'
              /\ body[x].began = 0 /\ body'[x].began # 0 => \A d \in Elements(graph[x]) : Clear(x, d)
    PROVE  OrderInv'
<1>a. /\ TypeOK /\ WalkOK /\ RecordsOK /\ WalkExact /\ IndicesOK /\ RootsOK /\ ErrorsOK
      /\ EntriesOrdered /\ RequestsOK /\ DependenciesFirst
  BY OrderParts
<1>b. /\ graph' = graph /\ tla' = tla /\ go' = go /\ stack' = stack /\ index' = index
      /\ instances' = instances /\ dfsIndex' = dfsIndex /\ dfsAncestorIndex' = dfsAncestorIndex
      /\ cycleRoot' = cycleRoot /\ asyncParents' = asyncParents
  BY DEF graphVars, walkVars
<1>c. TypeOK' /\ RecordsOK'
  BY DEF IndInv, Consistent
<1>d. Len(go) = 0 /\ Len(go') = 0 /\ Walking = {} /\ Walking' = {}
  BY <1>b DEF Walking
<1>e. \A m \in Modules : \A d \in Elements(graph[m]) : d \in Modules
  <2> SUFFICES ASSUME NEW m \in Modules, NEW i \in 1..Len(graph[m]) PROVE graph[m][i] \in Modules
    BY DEF Elements
  <2>1. graph[m] \in Seq(Modules)
    BY <1>a, Types
  <2> QED
    BY <2>1, ElementOfSeq
<1>f. \A m : \A d \in Modules : Clear(m, d) => Clear(m, d)'
  BY <1>b, ClearKept
<1>1. WalkExact'
  <2>1. \A m \in Modules : status'[m] = "evaluating" <=> m \in Walking'
    BY <1>d, <1>a DEF WalkExact
  <2>2. Len(stack') = Len(go')
    BY <1>b, <1>a DEF WalkExact
  <2> QED
    BY <2>1, <2>2, <1>d DEF WalkExact
<1>2. IndicesOK'
  BY <1>b, <1>d, <1>a DEF IndicesOK
<1>3. RootsOK'
  BY <1>b, <1>d, <1>a DEF RootsOK
<1>4. ErrorsOK'
  BY DEF ErrorsOK
<1>5. EntriesOrdered'
  <2> SUFFICES ASSUME NEW d \in Modules, NEW m \in Elements(asyncParents[d]),
                      d \notin failed', ~Settled(d)', m \notin failed', body'[m].began = 0
               PROVE  asyncEvaluation'[d] # 0 /\ asyncEvaluation'[d] < asyncEvaluation'[m]
    BY <1>b DEF EntriesOrdered, Elements
  <2>1. m \in Modules
    BY <1>a DEF RecordsOK, TypeOK
  <2>2. ~Settled(m)'
    <3>1. body'[m].at = "none"
      BY <2>1, <1>c DEF RecordsOK
    <3> QED
      BY <3>1 DEF Settled
  <2>3. asyncEvaluation'[d] = asyncEvaluation[d] /\ asyncEvaluation'[m] = asyncEvaluation[m]
    BY <2>1, <2>2
  <2>4. d \notin failed /\ ~Settled(d) /\ m \notin failed /\ body[m].began = 0
    BY <2>1
  <2> QED
    BY <2>3, <2>4, <1>d, <1>a DEF EntriesOrdered
<1>6. RequestsOK'
  <2> SUFFICES ASSUME NEW m \in instances, m \notin failed', body'[m].began = 0,
                      NEW k \in 1..Len(graph[m]), NEW d \in Modules, graph[m][k] = d
               PROVE  Clear(m, d)' \/ m \in Elements(asyncParents[d])
    BY <1>b DEF RequestsOK, Elements
  <2>1. m \in Modules /\ m \notin failed /\ body[m].began = 0
    BY <1>a DEF TypeOK
  <2>2. Seen(m, k)
    BY <1>d DEF Seen
  <2>3. Clear(m, d) \/ m \in Elements(asyncParents[d])
    BY <2>1, <2>2, <1>a DEF RequestsOK
  <2> QED
    BY <2>3, <1>f
<1>7. DependenciesFirst'
  <2> SUFFICES ASSUME NEW m \in Modules, body'[m].began > 0, NEW d \in Elements(graph[m])
               PROVE  Clear(m, d)'
    BY <1>b DEF DependenciesFirst, Clear, Elements
  <2>1. body[m].began \in Nat /\ body'[m].began # 0
    <3>1. body[m] \in [at : {"none", "running", "done", "threw"}, began : Nat]
      BY <1>a, Types
    <3> QED
      BY <3>1
  <2>2. CASE body[m].began = 0
    BY <2>1, <2>2, <1>e, <1>f
  <2>3. CASE body[m].began > 0
    <3>1. Clear(m, d)
      BY <2>3, <1>a DEF DependenciesFirst, Clear
    <3> QED
      BY <3>1, <1>e, <1>f
  <2> QED
    BY <2>1, <2>2, <2>3
<1> QED
  BY <1>1, <1>2, <1>3, <1>4, <1>5, <1>6, <1>7 DEF OrderInv

\* A step that leaves the bodies alone, as those of the gathering do.
LEMMA BodiesAloneKeeps ==
    ASSUME OrderInv, IndInv', go = <<>>,
           UNCHANGED <<graphVars, walkVars, instances, status, dfsIndex, dfsAncestorIndex, cycleRoot,
                       asyncEvaluation, asyncParents, failed, body>>
    PROVE  OrderInv'
<1>1. /\ status' = status /\ asyncEvaluation' = asyncEvaluation /\ failed' = failed /\ body' = body
  OBVIOUS
<1>2. \A x : Settled(x)' <=> Settled(x)
  BY <1>1 DEF Settled
<1>3. ErrorsOK
  BY OrderParts
<1> QED
  BY <1>1, <1>2, <1>3, QuietStepKeeps DEF ErrorsOK

\* Gathering leaves the bodies alone, and there is no walk.
LEMMA GatherKeepsOrder ==
    ASSUME OrderInv, IndInv', gatherParent \/ gatherReturns
    PROVE  OrderInv'
<1>a. TypeOK /\ WalkOK /\ JobsOK
  BY OrderParts
<1>1. Gathering
  BY DEF gatherParent, gatherReturns
<1>2. go = <<>>
  BY <1>1, <1>a, GatherIs
<1>3. UNCHANGED <<graphVars, walkVars, instances, status, dfsIndex, dfsAncestorIndex, cycleRoot,
                  asyncEvaluation, asyncParents, failed, body>>
  BY DEF gatherParent, gatherReturns, stateVars
<1> QED
  BY <1>2, <1>3, BodiesAloneKeeps

\* asyncModuleExecutionRejected fails the module whose body threw, if it has not
\* failed before.
LEMMA ThrowKeepsOrder ==
    ASSUME OrderInv, IndInv', go = <<>>, NEW c \in instances, body[c].at # "done",
           asyncModuleExecutionRejected(c), body'[c].at = "threw", body'[c].began # 0,
           \A x \in Modules : x # c => body'[x] = body[x],
           body[c].began = 0 => \A d \in Elements(graph[c]) : Clear(c, d),
           UNCHANGED <<graphVars, walkVars, instances, dfsIndex, dfsAncestorIndex, cycleRoot,
                       asyncEvaluation, asyncParents>>
    PROVE  OrderInv'
<1>a. TypeOK /\ RecordsOK /\ ErrorsOK /\ c \in Modules
  BY OrderParts DEF TypeOK
<1>1. /\ failed' = failed \union Rejected(c)
      /\ status' = [m \in Modules |-> IF m \in Rejected(c) THEN "evaluated" ELSE status[m]]
  BY DEF asyncModuleExecutionRejected
<1>2. c \in failed'
  <2>1. status[c] # "evaluated" => c \in Rejected(c)
    BY <1>a, RejectedIs
  <2>2. status[c] = "evaluated" => c \in failed
    BY <1>a DEF RecordsOK
  <2> QED
    BY <2>1, <2>2, <1>1
<1>3. \A x \in Modules : status'[x] = "evaluating" => status[x] = "evaluating"
  BY <1>1
<1>4. Settled(c)' /\ \A x \in Modules : x # c => (Settled(x)' <=> Settled(x))
  BY DEF Settled
<1>5. ASSUME NEW x \in Modules
      PROVE  /\ body[x].at = "done" => body'[x].at = "done"
             /\ body'[x].began = 0 => body[x].began = 0
             /\ Settled(x) => Settled(x)'
             /\ body'[x].at = "threw" => x \in failed'
             /\ body[x].began = 0 /\ body'[x].began # 0 => \A d \in Elements(graph[x]) : Clear(x, d)
  <2>1. CASE x = c
    BY <2>1, <1>2, <1>4
  <2>2. CASE x # c
    BY <2>2, <1>1, <1>4, <1>a DEF ErrorsOK
  <2> QED
    BY <2>1, <2>2
<1>6. failed \subseteq failed'
  BY <1>1
<1> QED
  BY <1>3, <1>5, <1>6, QuietStepKeeps

\* A body with top-level await settles.
LEMMA BodySettlesKeepsOrder ==
    ASSUME OrderInv, IndInv', NEW c \in Modules, BodySettles(c)
    PROVE  OrderInv'
<1>a. TypeOK /\ RecordsOK /\ ErrorsOK /\ IndInv
  BY OrderParts
<1>1. Quiet /\ body[c].at = "running" /\ go = <<>>
  BY DEF BodySettles, BodyEnds, BodyThrows, Quiet
<1>2. CASE BodyThrows(c)
  <2>1. /\ body' = [body EXCEPT ![c].at = "threw"] /\ asyncModuleExecutionRejected(c)
        /\ UNCHANGED <<graphVars, walkVars, instances, dfsIndex, dfsAncestorIndex, cycleRoot,
                       asyncEvaluation, asyncParents>>
    BY <1>2 DEF BodyThrows
  <2>2. /\ c \in instances /\ body[c].began = 1 /\ body'[c].at = "threw" /\ body'[c].began = 1
        /\ \A x \in Modules : x # c => body'[x] = body[x]
    BY <2>1, <1>1, <1>a, RunningIs
  <2>3. body[c].at # "done" /\ body'[c].began # 0 /\ body[c].began # 0
    BY <2>2, <1>1
  <2> QED
    BY <2>1, <2>2, <2>3, <1>1, ThrowKeepsOrder
<1>3. CASE BodyEnds(c)
  <2>1. /\ body' = [body EXCEPT ![c].at = "done"] /\ status' = status /\ failed' = failed
        /\ UNCHANGED <<graphVars, walkVars, instances, dfsIndex, dfsAncestorIndex, cycleRoot,
                       asyncParents>>
        /\ asyncEvaluation' = [asyncEvaluation EXCEPT ![c] = 0] \/ asyncEvaluation' = asyncEvaluation
    BY <1>3 DEF BodyEnds
  <2>2. /\ body[c].began = 1 /\ body'[c].at = "done" /\ body'[c].began = 1
        /\ \A x \in Modules : x # c => body'[x] = body[x]
    BY <2>1, <1>1, <1>a, RunningIs
  <2>3. Settled(c)' /\ \A x \in Modules : x # c => (Settled(x)' <=> Settled(x))
    BY <2>2 DEF Settled
  <2>4. \A x \in Modules : x # c => asyncEvaluation'[x] = asyncEvaluation[x]
    BY <2>1, <1>a DEF TypeOK
  <2>5. ASSUME NEW x \in Modules
        PROVE  /\ status'[x] = "evaluating" => status[x] = "evaluating"
               /\ body[x].at = "done" => body'[x].at = "done"
               /\ body'[x].began = 0 => body[x].began = 0
               /\ Settled(x) => Settled(x)'
               /\ body'[x].at = "threw" => x \in failed'
               /\ asyncEvaluation'[x] = asyncEvaluation[x] \/ Settled(x)'
               /\ ~(body[x].began = 0 /\ body'[x].began # 0)
    <3>1. CASE x = c
      BY <3>1, <2>1, <2>2, <2>3
    <3>2. CASE x # c
      BY <3>2, <2>1, <2>2, <2>3, <2>4, <1>a DEF ErrorsOK
    <3> QED
      BY <3>1, <3>2
  <2>6. failed \subseteq failed'
    BY <2>1
  <2> QED
    BY <2>1, <2>5, <2>6, <1>1, QuietStepKeeps
<1> QED
  BY <1>2, <1>3 DEF BodySettles

\* The module of execList that is next may begin: it heard of all it waits for, and
\* what is in execList with it became asynchronous later.
LEMMA FirstMayBegin ==
    ASSUME OrderInv, ~Gathering, NEW m \in First, status[m] # "evaluated"
    PROVE  /\ go = <<>> /\ m \in Modules /\ m \in instances /\ m \notin failed
           /\ body[m].began = 0 /\ body[m].at = "none"
           /\ \A d \in Elements(graph[m]) : Clear(m, d)
<1>a. TypeOK /\ WalkOK /\ JobsOK /\ IndInv
  BY OrderParts
<1>1. /\ go = <<>> /\ m \in exec /\ m \in Modules /\ m \in instances /\ m \notin failed
      /\ body[m].began = 0 /\ body[m].at = "none"
  BY <1>a, ExecIs
<1>2. Unheard(m) = {}
  <2>1. Counts(m)
    BY <1>1, <1>a, JobsSplit
  <2> QED
    BY <2>1, <1>1 DEF Counts, Begins
<1>3. Len(go) = 0 /\ Walking = {}
  BY <1>1 DEF Walking
<1>4. \A k \in 1..Len(graph[m]) : Seen(m, k)
  BY <1>3 DEF Seen
<1>5. \A d \in exec \ tla : asyncEvaluation[m] <= asyncEvaluation[d]
  BY DEF First
<1> QED
  BY <1>1, <1>2, <1>3, <1>4, <1>5, MayBegin

\* A module of execList with top-level await begins, or is passed over.
LEMMA ExecAsyncKeepsOrder ==
    ASSUME OrderInv, IndInv', ExecAsync
    PROVE  OrderInv'
<1>a. TypeOK /\ ErrorsOK /\ IndInv
  BY OrderParts
<1>b. /\ status' = status /\ asyncEvaluation' = asyncEvaluation /\ failed' = failed
      /\ UNCHANGED <<graphVars, walkVars, instances, dfsIndex, dfsAncestorIndex, cycleRoot,
                     asyncParents>>
      /\ ~Gathering
  BY DEF ExecAsync
<1>1. PICK m \in First : body' = IF status[m] = "evaluated" THEN body ELSE Ran(m, "running")
  BY DEF ExecAsync
<1>2. CASE status[m] = "evaluated"
  <2>1. go = <<>>
    BY <1>b, <1>a, ExecIs
  <2>2. body' = body
    BY <1>1, <1>2
  <2> QED
    BY <2>1, <2>2, <1>b, BodiesAloneKeeps
<1>3. CASE status[m] # "evaluated"
  <2>1. /\ go = <<>> /\ m \in Modules /\ body[m].began = 0 /\ body[m].at = "none"
        /\ \A d \in Elements(graph[m]) : Clear(m, d)
    BY <1>3, <1>b, FirstMayBegin
  <2>2. body' = Ran(m, "running")
    BY <1>1, <1>3
  <2>3. /\ body'[m].at = "running" /\ body'[m].began = body[m].began + 1
        /\ \A x \in Modules : x # m => body'[x] = body[x]
    BY <2>1, <2>2, <1>a, RanIs
  <2>4. body'[m].began # 0
    BY <2>1, <2>3
  <2>5. ~Settled(m) /\ \A x \in Modules : x # m => (Settled(x)' <=> Settled(x))
    BY <2>1, <2>3 DEF Settled
  <2>6. ASSUME NEW x \in Modules
        PROVE  /\ status'[x] = "evaluating" => status[x] = "evaluating"
               /\ body[x].at = "done" => body'[x].at = "done"
               /\ body'[x].began = 0 => body[x].began = 0
               /\ Settled(x) => Settled(x)'
               /\ body'[x].at = "threw" => x \in failed'
               /\ body[x].began = 0 /\ body'[x].began # 0 => \A d \in Elements(graph[x]) : Clear(x, d)
    <3>1. CASE x = m
      BY <3>1, <2>1, <2>3, <2>4, <2>5, <1>b
    <3>2. CASE x # m
      BY <3>2, <2>3, <2>5, <1>b, <1>a DEF ErrorsOK
    <3> QED
      BY <3>1, <3>2
  <2> QED
    BY <2>1, <2>6, <1>b, QuietStepKeeps
<1> QED
  BY <1>2, <1>3

\* A module of execList without top-level await runs to its end.
LEMMA ExecKeepsOrder ==
    ASSUME OrderInv, IndInv', NEW outcome, Exec(outcome)
    PROVE  OrderInv'
<1>a. TypeOK /\ ErrorsOK /\ IndInv
  BY OrderParts
<1>b. /\ UNCHANGED <<graphVars, walkVars, instances, dfsIndex, dfsAncestorIndex, cycleRoot,
                     asyncEvaluation, asyncParents>>
      /\ ~Gathering
  BY DEF Exec
<1>1. PICK m \in First :
         /\ status[m] # "evaluated" /\ body' = Ran(m, outcome)
         /\ \/ /\ outcome = "done" /\ status' = [status EXCEPT ![m] = "evaluated"]
               /\ failed' = failed
            \/ outcome = "threw" /\ asyncModuleExecutionRejected(m)
  BY DEF Exec
<1>2. /\ go = <<>> /\ m \in Modules /\ m \in instances /\ body[m].began = 0 /\ body[m].at = "none"
      /\ \A d \in Elements(graph[m]) : Clear(m, d)
  BY <1>1, <1>b, FirstMayBegin
<1>3. /\ body'[m].at = outcome /\ body'[m].began = body[m].began + 1
      /\ \A x \in Modules : x # m => body'[x] = body[x]
  BY <1>1, <1>2, <1>a, RanIs
<1>4. body'[m].began # 0
  BY <1>2, <1>3
<1>5. CASE outcome = "threw"
  <2>1. asyncModuleExecutionRejected(m)
    BY <1>1, <1>5
  <2> QED
    BY <2>1, <1>2, <1>3, <1>4, <1>5, <1>b, ThrowKeepsOrder
<1>6. CASE outcome = "done"
  <2>1. status' = [status EXCEPT ![m] = "evaluated"] /\ failed' = failed
    BY <1>1, <1>6
  <2>2. Settled(m)' /\ \A x \in Modules : x # m => (Settled(x)' <=> Settled(x))
    BY <1>3, <1>6 DEF Settled
  <2>3. \A x \in Modules : status'[x] = "evaluating" => status[x] = "evaluating"
    BY <2>1, <1>a DEF TypeOK
  <2>4. ASSUME NEW x \in Modules
        PROVE  /\ body[x].at = "done" => body'[x].at = "done"
               /\ body'[x].began = 0 => body[x].began = 0
               /\ Settled(x) => Settled(x)'
               /\ body'[x].at = "threw" => x \in failed'
               /\ body[x].began = 0 /\ body'[x].began # 0 => \A d \in Elements(graph[x]) : Clear(x, d)
    <3>1. CASE x = m
      BY <3>1, <2>2, <1>2, <1>3, <1>4, <1>6
    <3>2. CASE x # m
      BY <3>2, <2>1, <2>2, <1>3, <1>a DEF ErrorsOK
    <3> QED
      BY <3>1, <3>2
  <2> QED
    BY <2>1, <2>3, <2>4, <1>2, <1>b, QuietStepKeeps
<1> QED
  BY <1>1, <1>5, <1>6

-----------------------------------------------------------------------------
(* The walk *)

\* Entering a module that has no instance: none of its requests is seen, and it is
\* reached from every module that the walk is in.
LEMMA EnterKeepsOrder ==
    ASSUME OrderInv, IndInv', NEW c \in Modules, c \notin instances, NEW ix \in Int,
           enter(c, go, stack, ix),
           \A i \in 1..Len(go) : dfsIndex[go[i].m] < ix /\ c \in Reaches(go[i].m),
           UNCHANGED <<graphVars, cycleRoot, asyncEvaluation, asyncParents, failed, body>>
    PROVE  OrderInv'
<1>a. /\ TypeOK /\ WalkOK /\ RecordsOK /\ WalkExact /\ IndicesOK /\ RootsOK /\ ErrorsOK
      /\ EntriesOrdered /\ RequestsOK /\ DependenciesFirst
  BY OrderParts
<1>b. /\ graph' = graph /\ cycleRoot' = cycleRoot /\ asyncEvaluation' = asyncEvaluation
      /\ asyncParents' = asyncParents /\ failed' = failed /\ body' = body
  BY DEF graphVars
<1>1. /\ instances' = instances \union {c}
      /\ status' = [status EXCEPT ![c] = "evaluating"]
      /\ dfsIndex' = [dfsIndex EXCEPT ![c] = ix]
      /\ dfsAncestorIndex' = [dfsAncestorIndex EXCEPT ![c] = ix]
      /\ index' = ix + 1
      /\ stack' = Append(stack, c) /\ go' = Append(go, [m |-> c, next |-> 1])
  BY DEF enter
<1>2. PICK n : n = Len(go)
  OBVIOUS
<1>3. n \in Nat /\ Len(stack) = n
  BY <1>2, <1>a, Types DEF WalkExact
<1>4. /\ Len(stack') = n + 1 /\ stack'[n + 1] = c
      /\ \A i \in 1..n : stack'[i] = stack[i]
  <2>1. /\ Len(stack') = Len(stack) + 1 /\ stack'[Len(stack) + 1] = c
        /\ \A i \in 1..Len(stack) : stack'[i] = stack[i]
    BY <1>1, <1>a, Appended DEF TypeOK
  <2> QED
    BY <2>1, <1>3
<1>5. /\ Len(go') = n + 1 /\ go'[n + 1].m = c /\ go'[n + 1].next = 1
      /\ \A i \in 1..n : go'[i] = go[i]
  <2>1. [m |-> c, next |-> 1] \in Activation
    BY DEF Activation
  <2>2. PICK e \in Activation : e = [m |-> c, next |-> 1]
    BY <2>1
  <2>3. go' = Append(go, e) /\ go \in Seq(Activation)
    BY <1>1, <2>2, <1>a DEF TypeOK
  <2>4. /\ Len(go') = Len(go) + 1 /\ go'[Len(go) + 1] = e
        /\ \A i \in 1..Len(go) : go'[i] = go[i]
    BY <2>3, Appended
  <2>5. e.m = c /\ e.next = 1
    BY <2>2
  <2> QED
    BY <2>4, <2>5, <1>2
<1>6. \A i \in 1..(n + 1) : i \in 1..n \/ i = n + 1
  BY <1>3
<1>7. \A i \in 1..n : go[i].m \in Modules /\ go[i].m # c /\ go[i].m \in instances
  <2>1. \A i \in 1..n : go[i].m \in Elements(stack)
    BY <1>2, <1>a DEF WalkOK
  <2> QED
    BY <2>1, <1>a DEF WalkOK, TypeOK
<1>8. Walking' = Walking \union {c}
  <2>1. Walking' = {go'[i].m : i \in 1..(n + 1)} /\ Walking = {go[i].m : i \in 1..n}
    BY <1>2, <1>5 DEF Walking
  <2>2. \A i \in 1..n : i \in 1..(n + 1)
    BY <1>3
  <2>3. n + 1 \in 1..(n + 1)
    BY <1>3
  <2> QED
    BY <2>1, <2>2, <2>3, <1>5, <1>6
<1>9. \A x : Reaches(x)' = Reaches(x)
  BY <1>b, ReachesKept
<1>10. \A m, d : Clear(m, d)' <=> Clear(m, d)
  BY <1>9, <1>b DEF Clear
<1>11. WalkExact'
  <2>1. \A i \in 1..(n + 1) : stack'[i] = go'[i].m
    BY <1>2, <1>4, <1>5, <1>6, <1>a DEF WalkExact
  <2>2. \A m \in Modules : status'[m] = "evaluating" <=> m \in Walking'
    BY <1>1, <1>8, <1>a DEF WalkExact, TypeOK
  <2>3. ASSUME NEW i \in 1..(n + 1), NEW j \in 1..(n + 1), i < j, NEW a \in Modules, go'[i].m = a
        PROVE  go'[j].m \in Reaches(a)'
    <3>1. i \in 1..n
      BY <2>3, <1>3
    <3>2. go[i].m = a
      BY <3>1, <2>3, <1>5
    <3>3. go'[j].m \in Reaches(a)
      <4>1. CASE j \in 1..n
        BY <4>1, <3>1, <3>2, <2>3, <1>2, <1>5, <1>a DEF WalkExact
      <4>2. CASE j = n + 1
        BY <4>2, <3>1, <3>2, <1>2, <1>5
      <4> QED
        BY <4>1, <4>2, <1>6
    <3> QED
      BY <3>3, <1>9
  <2> QED
    BY <2>1, <2>2, <2>3, <1>4, <1>5 DEF WalkExact
<1>12. IndicesOK'
  <2>1. /\ index' \in Int /\ dfsIndex' \in [Modules -> Int] /\ dfsAncestorIndex' = dfsIndex'
        /\ dfsIndex'[c] = ix
        /\ \A m \in Modules : m # c => dfsIndex'[m] = dfsIndex[m]
    BY <1>1, <1>a DEF IndicesOK
  <2>2. \A i \in 1..n : dfsIndex'[go'[i].m] = dfsIndex[go[i].m] /\ dfsIndex[go[i].m] \in Int
    BY <2>1, <1>5, <1>7, <1>a DEF IndicesOK
  <2>3. \A i \in 1..n : dfsIndex[go[i].m] < ix
    BY <1>2
  <2>4. dfsIndex'[go'[n + 1].m] = ix
    BY <2>1, <1>5
  <2>5. ASSUME NEW i \in 1..(n + 1) PROVE dfsIndex'[go'[i].m] < index'
    <3>1. CASE i \in 1..n
      <4>1. PICK v \in Int : v = dfsIndex[go[i].m]
        BY <3>1, <2>2
      <4>2. v < ix /\ dfsIndex'[go'[i].m] = v /\ index' = ix + 1
        BY <4>1, <3>1, <2>2, <2>3, <1>1
      <4> QED
        BY ONLY <4>2, ix \in Int, v \in Int
    <3>2. CASE i = n + 1
      BY <3>2, <2>4, <1>1
    <3> QED
      BY <3>1, <3>2, <1>6
  <2>6. ASSUME NEW i \in 1..(n + 1), NEW j \in 1..(n + 1), i < j
        PROVE  dfsIndex'[go'[i].m] < dfsIndex'[go'[j].m]
    <3>1. i \in 1..n
      BY <2>6, <1>3
    <3>2. CASE j \in 1..n
      BY <3>1, <3>2, <2>2, <2>6, <1>2, <1>a DEF IndicesOK
    <3>3. CASE j = n + 1
      BY <3>1, <3>3, <2>2, <2>3, <2>4
    <3> QED
      BY <3>2, <3>3, <1>6
  <2> QED
    BY <2>1, <2>5, <2>6, <1>5 DEF IndicesOK
<1>13. RootsOK' /\ ErrorsOK'
  BY <1>1, <1>8, <1>b, <1>a DEF RootsOK, ErrorsOK
<1>14. EntriesOrdered'
  BY <1>8, <1>b, <1>a DEF EntriesOrdered, Settled, Elements
<1>15. RequestsOK'
  <2> SUFFICES ASSUME NEW m \in instances', m \notin failed, body[m].began = 0,
                      NEW k \in 1..Len(graph[m]), NEW d \in Modules, Seen(m, k)', graph[m][k] = d
               PROVE  Clear(m, d)' \/ m \in Elements(asyncParents[d])
    BY <1>b DEF RequestsOK, Elements
  <2>1. m # c
    <3>1. n + 1 \in 1..Len(go')
      BY <1>3, <1>5
    <3>2. m = c => k < 1
      BY <3>1, <1>5 DEF Seen
    <3> QED
      BY <3>2
  <2>2. Seen(m, k)
    <3>1. \A i \in 1..n : i \in 1..Len(go')
      BY <1>3, <1>5
    <3> QED
      BY <3>1, <1>2, <1>5 DEF Seen
  <2>3. m \in instances
    BY <2>1, <1>1
  <2> QED
    BY <2>2, <2>3, <1>10, <1>a DEF RequestsOK
<1>16. DependenciesFirst'
  <2>1. \A m \in Modules : body[m].began > 0 => \A d \in Elements(graph[m]) : Clear(m, d)
    BY <1>a DEF DependenciesFirst, Clear
  <2> QED
    BY <2>1, <1>10, <1>b DEF DependenciesFirst, Clear, Elements
<1> QED
  BY <1>11, <1>12, <1>13, <1>14, <1>15, <1>16 DEF OrderInv

\* CyclicModuleRecordEvaluate: a walk begins, or the module was walked before.
LEMMA EvaluateKeepsOrder ==
    ASSUME OrderInv, IndInv', NEW c \in Modules, Evaluate(c)
    PROVE  OrderInv'
<1>a. WalkOK
  BY OrderParts
<1>b. UNCHANGED <<graphVars, cycleRoot, asyncEvaluation, asyncParents, failed, body>> /\ Quiet
  BY DEF Evaluate
<1>1. go = <<>> /\ stack = <<>>
  BY <1>a, <1>b, QuietMeans
<1>2. CASE ~Instantiated(c)
  <2>1. enter(c, <<>>, <<>>, 0) /\ c \notin instances
    BY <1>2 DEF Evaluate, Instantiated
  <2>2. enter(c, go, stack, 0)
    BY <2>1, <1>1
  <2>3. \A i \in 1..Len(go) : dfsIndex[go[i].m] < 0 /\ c \in Reaches(go[i].m)
    BY <1>1
  <2>4. 0 \in Int
    OBVIOUS
  <2> QED
    BY <2>1, <2>2, <2>3, <2>4, <1>b, EnterKeepsOrder
<1>3. CASE Instantiated(c)
  <2>1. UNCHANGED <<walkVars, instances, status, dfsIndex, dfsAncestorIndex, pending>>
    BY <1>3 DEF Evaluate
  <2> QED
    BY <2>1, <1>1, <1>b, BodiesAloneKeeps
<1> QED
  BY <1>2, <1>3

\* Here requires Required, and so does every module that the walk came through reach it.
LEMMA RequiredIsReached ==
    ASSUME TypeOK, WalkOK, WalkExact, ToRequire
    PROVE  \A i \in 1..Len(go) : Required \in Reaches(go[i].m)
<1>1. go # <<>> /\ Top(go).next <= Len(graph[Here])
  BY DEF ToRequire
<1>2. PICK n : n = Len(go)
  OBVIOUS
<1>3. PICK c : c = Here
  OBVIOUS
<1>4. PICK r : r = Required
  OBVIOUS
<1>5. /\ n \in Nat \ {0} /\ n \in 1..n /\ c = go[n].m /\ c \in Modules
      /\ Top(go).next \in Nat \ {0} /\ Top(go).next <= Len(graph[c])
  BY <1>1, <1>2, <1>3, HereIs
<1>6. r \in Elements(graph[c])
  <2>1. r = graph[c][Top(go).next]
    BY <1>3, <1>4 DEF Required
  <2>2. Len(graph[c]) \in Nat
    BY <1>5, Types
  <2>3. Top(go).next \in 1..Len(graph[c])
    BY <2>2, <1>5
  <2> QED
    BY <2>1, <2>3 DEF Elements
<1> SUFFICES ASSUME NEW i \in 1..n PROVE r \in Reaches(go[i].m)
  BY <1>2, <1>4
<1>7. PICK a : a = go[i].m
  OBVIOUS
<1>8. a \in Modules
  <2>1. go[i] \in Activation
    BY <1>2, Types
  <2> QED
    BY <2>1, <1>7 DEF Activation
<1>9. CASE i = n
  <2>1. a = c
    BY <1>5, <1>7, <1>9
  <2> QED
    BY <2>1, <1>5, <1>6, <1>7, ReachesRequested
<1>10. CASE i # n
  <2>1. i < n
    BY <1>5, <1>10
  <2>2. c \in Reaches(a)
    BY <2>1, <1>2, <1>5, <1>7, <1>8 DEF WalkExact
  <2>3. r \in Reaches(a)
    BY <2>2, <1>6, <1>8, ReachesRequested
  <2> QED
    BY <2>3, <1>7
<1> QED
  BY <1>9, <1>10

\* A request for a module that has no instance.
LEMMA RequireNewKeepsOrder ==
    ASSUME OrderInv, IndInv', RequireNew
    PROVE  OrderInv'
<1>a. TypeOK /\ WalkOK /\ WalkExact /\ IndicesOK
  BY OrderParts
<1>1. /\ ToRequire /\ enter(Required, go, stack, index) /\ Required \notin instances
      /\ UNCHANGED <<graphVars, cycleRoot, asyncEvaluation, asyncParents, failed, body>>
  BY DEF RequireNew, Instantiated
<1>2. PICK c : c = Required
  OBVIOUS
<1>3. PICK ix : ix = index
  OBVIOUS
<1>4. c \in Modules /\ ix \in Int /\ c \notin instances
  BY <1>1, <1>2, <1>3, <1>a, RequiredIs DEF IndicesOK
<1>5. enter(c, go, stack, ix)
  BY <1>1, <1>2, <1>3
<1>6. \A i \in 1..Len(go) : dfsIndex[go[i].m] < ix
  BY <1>3, <1>a DEF IndicesOK
<1>7. \A i \in 1..Len(go) : c \in Reaches(go[i].m)
  BY <1>1, <1>2, <1>a, RequiredIsReached
<1> QED
  BY <1>1, <1>4, <1>5, <1>6, <1>7, EnterKeepsOrder

\* A request for a module that has an instance: it is one that the walk came through,
\* it is done or has failed, or it will tell the module that requires it.
LEMMA RequireKeepsOrder ==
    ASSUME OrderInv, IndInv', Require
    PROVE  OrderInv'
<1>a. /\ TypeOK /\ WalkOK /\ RecordsOK /\ WalkExact /\ IndicesOK /\ RootsOK /\ ErrorsOK
      /\ EntriesOrdered /\ RequestsOK /\ DependenciesFirst
  BY OrderParts
<1>b. /\ graph' = graph /\ instances' = instances /\ status' = status /\ dfsIndex' = dfsIndex
      /\ cycleRoot' = cycleRoot /\ asyncEvaluation' = asyncEvaluation /\ failed' = failed
      /\ body' = body /\ stack' = stack /\ index' = index
  BY DEF Require, graphVars
<1>1. go # <<>> /\ Top(go).next <= Len(graph[Here]) /\ ToRequire /\ Instantiated(Required)
  BY DEF Require, ToRequire
<1>2. PICK c : c = Here
  OBVIOUS
<1>3. PICK r : r = Required
  OBVIOUS
<1>4. PICK w : w = WaitsFor(r)
  OBVIOUS
<1>5. PICK k : k = Top(go).next
  OBVIOUS
<1>6. PICK n : n = Len(go)
  OBVIOUS
<1>7. /\ n \in Nat \ {0} /\ n \in 1..n /\ go[n].m = c /\ c \in Modules
      /\ k \in Nat \ {0} /\ go[n].next = k /\ k <= Len(graph[c]) /\ c \in Walking
      /\ \A i \in 1..n : go[i].m = c => i = n
  BY <1>1, <1>2, <1>5, <1>6, <1>a, HereIs
<1>8. r \in Modules /\ r \in instances /\ r = graph[c][k]
  BY <1>1, <1>2, <1>3, <1>5, <1>a, RequiredIs DEF Required, Instantiated
<1>9. /\ Len(go') = n
      /\ \A i \in 1..n : go'[i].m = go[i].m
      /\ \A i \in 1..n : go'[i].next = IF i = n THEN go[i].next + 1 ELSE go[i].next
  <2>1. PICK t : t = [go EXCEPT ![Len(go)].next = @ + 1]
    OBVIOUS
  <2>2. PICK s : s = go
    OBVIOUS
  <2>3. s \in Seq(Activation) /\ s # <<>> /\ t = [s EXCEPT ![Len(s)].next = @ + 1]
    BY <2>1, <2>2, <1>1, <1>a DEF TypeOK
  <2>4. /\ Len(t) = Len(s)
        /\ \A i \in 1..Len(s) : t[i].m = s[i].m
        /\ \A i \in 1..Len(s) : t[i].next = IF i = Len(s) THEN s[i].next + 1 ELSE s[i].next
    BY <2>3, Advanced
  <2>5. go' = t
    BY <2>1 DEF Require
  <2> QED
    BY <2>2, <2>4, <2>5, <1>6
<1>10. Walking' = Walking
  BY <1>6, <1>9 DEF Walking
<1>11. \A i \in 1..n : go[i].m \in Modules
  <2>1. \A i \in 1..n : go[i] \in Activation
    BY <1>6, <1>a, Types
  <2> QED
    BY <2>1 DEF Activation
<1>12. dfsAncestorIndex' = dfsAncestorIndex
  <2>1. dfsAncestorIndex' =
          IF status[r] = "evaluating" /\ dfsAncestorIndex[r] > dfsAncestorIndex[c]
          THEN [dfsAncestorIndex EXCEPT ![r] = dfsAncestorIndex[c]] ELSE dfsAncestorIndex
    BY <1>2, <1>3 DEF Require
  <2>2. dfsAncestorIndex[r] = dfsIndex[r] /\ dfsAncestorIndex[c] = dfsIndex[c]
        /\ dfsIndex[r] \in Int /\ dfsIndex[c] \in Int
    BY <1>7, <1>8, <1>a DEF IndicesOK
  <2>3. ASSUME status[r] = "evaluating" PROVE dfsIndex[r] <= dfsIndex[c]
    <3>1. PICK i \in 1..n : go[i].m = r
      BY <2>3, <1>6, <1>8, <1>a DEF WalkExact, Walking
    <3>2. CASE i = n
      BY <3>1, <3>2, <2>2, <1>7
    <3>3. CASE i # n
      <4>1. i < n
        BY <3>3, <1>7
      <4>2. dfsIndex[r] < dfsIndex[c]
        BY <4>1, <3>1, <1>6, <1>7, <1>a DEF IndicesOK
      <4> QED
        BY <4>2, <2>2
    <3> QED
      BY <3>2, <3>3
  <2>4. ~(status[r] = "evaluating" /\ dfsAncestorIndex[r] > dfsAncestorIndex[c])
    BY <2>2, <2>3
  <2> QED
    BY <2>1, <2>4
<1>13. \/ /\ w \in Modules /\ asyncEvaluation[w] # 0
          /\ Elements(asyncParents[w])' = Elements(asyncParents[w]) \union {c}
          /\ \A d \in Modules : d # w => asyncParents'[d] = asyncParents[d]
       \/ ~(w \in Modules /\ asyncEvaluation[w] # 0) /\ asyncParents' = asyncParents
  <2>1. CASE w \in Asynchronous
    <3>1. w \in Modules /\ asyncEvaluation[w] # 0 /\ asyncParents[w] \in Seq(Modules)
      BY <2>1, <1>a DEF Asynchronous, TypeOK
    <3>2. asyncParents' = [asyncParents EXCEPT ![w] = Append(asyncParents[w], c)]
      BY <2>1, <1>2, <1>3, <1>4 DEF Require
    <3>3. /\ asyncParents'[w] = Append(asyncParents[w], c)
          /\ \A d \in Modules : d # w => asyncParents'[d] = asyncParents[d]
      BY <3>1, <3>2, <1>a DEF TypeOK
    <3>4. PICK s \in Seq(Modules) : s = asyncParents[w]
      BY <3>1
    <3>5. Elements(Append(s, c)) = Elements(s) \union {c}
      BY <1>7, Appended
    <3>6. Elements(asyncParents'[w]) = Elements(asyncParents[w]) \union {c}
      BY <3>3, <3>4, <3>5
    <3> QED
      BY <3>1, <3>3, <3>6 DEF Elements
  <2>2. CASE w \notin Asynchronous
    BY <2>2, <1>2, <1>3, <1>4 DEF Require, Asynchronous
  <2> QED
    BY <2>1, <2>2
<1>14. ASSUME NEW d \in Modules
       PROVE  /\ Elements(asyncParents[d]) \subseteq Elements(asyncParents[d])'
              /\ \A m \in Elements(asyncParents[d])' :
                    m \in Elements(asyncParents[d]) \/ (m = c /\ asyncEvaluation[d] # 0)
  <2>1. CASE d = w /\ asyncEvaluation[w] # 0
    BY <2>1, <1>13
  <2>2. CASE ~(d = w /\ asyncEvaluation[w] # 0)
    <3>1. asyncParents'[d] = asyncParents[d]
      BY <2>2, <1>13
    <3> QED
      BY <3>1 DEF Elements
  <2> QED
    BY <2>1, <2>2
<1>15. \A x : Reaches(x)' = Reaches(x)
  BY <1>b, ReachesKept
<1>16. \A m, d : Clear(m, d)' <=> Clear(m, d)
  BY <1>15, <1>b DEF Clear
<1>17. Clear(c, r) \/ c \in Elements(asyncParents[r])'
  <2>1. CASE status[r] = "evaluating"
    <3>1. PICK i \in 1..n : go[i].m = r
      BY <2>1, <1>6, <1>8, <1>a DEF WalkExact, Walking
    <3>2. CASE i = n
      <4>1. r \in Reaches(go[n].m)
        BY <1>1, <1>3, <1>6, <1>7, <1>a, RequiredIsReached
      <4>2. r = c
        BY <3>1, <3>2, <1>7
      <4> QED
        BY <4>1, <4>2, <1>7 DEF Clear
    <3>3. CASE i # n
      <4>1. i < n
        BY <3>3, <1>7
      <4>2. c \in Reaches(r)
        BY <4>1, <3>1, <1>6, <1>7, <1>8, <1>a DEF WalkExact
      <4> QED
        BY <4>2 DEF Clear
    <3> QED
      BY <3>2, <3>3
  <2>2. CASE status[r] # "evaluating" /\ r \notin failed
    <3>1. r \notin Walking
      BY <2>2, <1>8, <1>a DEF WalkExact
    <3>2. w = r
      BY <2>2, <3>1, <1>4, <1>8, <1>a DEF WaitsFor, RootsOK
    <3>3. CASE asyncEvaluation[r] # 0
      BY <3>2, <3>3, <1>8, <1>13
    <3>4. CASE asyncEvaluation[r] = 0
      BY <3>1, <3>4, <1>8, <1>a DEF RecordsOK, Clear
    <3> QED
      BY <3>3, <3>4
  <2>3. CASE r \in failed
    BY <2>3 DEF Clear
  <2> QED
    BY <2>1, <2>2, <2>3
<1>18. WalkExact'
  <2>1. \A i \in 1..n : stack'[i] = go'[i].m
    BY <1>b, <1>6, <1>9, <1>a DEF WalkExact
  <2>2. \A i, j \in 1..n : \A d \in Modules : go'[i].m = d /\ i < j => go'[j].m \in Reaches(d)'
    BY <1>6, <1>9, <1>15, <1>a DEF WalkExact
  <2>3. Len(stack') = n /\ \A m \in Modules : status'[m] = "evaluating" <=> m \in Walking'
    BY <1>b, <1>6, <1>10, <1>a DEF WalkExact
  <2> QED
    BY <2>1, <2>2, <2>3, <1>9 DEF WalkExact
<1>19. IndicesOK'
  BY <1>b, <1>6, <1>9, <1>12, <1>a DEF IndicesOK
<1>20. RootsOK' /\ ErrorsOK'
  BY <1>b, <1>10, <1>a DEF RootsOK, ErrorsOK
<1>21. EntriesOrdered'
  <2>1. \A d : Settled(d)' <=> Settled(d)
    BY <1>b DEF Settled
  <2> SUFFICES ASSUME NEW d \in Modules, NEW m \in Elements(asyncParents[d])',
                      d \notin failed, ~Settled(d), m \notin failed, body[m].began = 0
               PROVE  /\ asyncEvaluation[d] # 0
                      /\ m \in Walking \/ asyncEvaluation[d] < asyncEvaluation[m]
    BY <2>1, <1>b, <1>10 DEF EntriesOrdered
  <2> QED
    BY <1>7, <1>14, <1>a DEF EntriesOrdered
<1>22. RequestsOK'
  <2> SUFFICES ASSUME NEW m \in instances, m \notin failed, body[m].began = 0,
                      NEW j \in 1..Len(graph[m]), NEW d \in Modules, Seen(m, j)', graph[m][j] = d
               PROVE  Clear(m, d)' \/ m \in Elements(asyncParents[d])'
    BY <1>b DEF RequestsOK
  <2>1. CASE m = c /\ j = k
    BY <2>1, <1>8, <1>16, <1>17
  <2>2. CASE ~(m = c /\ j = k)
    <3>1. ASSUME NEW i \in 1..n, go[i].m = m PROVE j < go[i].next
      <4>1. go'[i].m = m /\ j < go'[i].next
        BY <3>1, <1>9 DEF Seen
      <4>2. CASE i = n
        <5>1. m = c /\ j # k /\ go[i].next = k /\ go'[i].next = k + 1
          BY <3>1, <4>2, <2>2, <1>7, <1>9
        <5> QED
          BY <5>1, <4>1, <1>7
      <4>3. CASE i # n
        BY <4>1, <4>3, <1>9
      <4> QED
        BY <4>2, <4>3
    <3>2. Seen(m, j)
      BY <3>1, <1>6 DEF Seen
    <3> QED
      BY <3>2, <1>14, <1>16, <1>a DEF RequestsOK
  <2> QED
    BY <2>1, <2>2
<1>23. DependenciesFirst'
  <2>1. \A m \in Modules : body[m].began > 0 => \A d \in Elements(graph[m]) : Clear(m, d)
    BY <1>a DEF DependenciesFirst, Clear
  <2> QED
    BY <2>1, <1>16, <1>b DEF DependenciesFirst, Clear, Elements
<1> QED
  BY <1>18, <1>19, <1>20, <1>21, <1>22, <1>23 DEF OrderInv

\* The module that the walk is in may begin when nothing is pending.
LEMMA HereMayBegin ==
    ASSUME OrderInv, Complete, NEW c, c = Here, pending[c] = 0
    PROVE  \A d \in Elements(graph[c]) : Clear(c, d)
<1>a. TypeOK /\ WalkOK /\ JobsOK
  BY OrderParts
<1>1. go # <<>> /\ Top(go).next > Len(graph[c])
  BY DEF Complete
<1>2. /\ Len(go) \in 1..Len(go) /\ go[Len(go)].m = c /\ c \in Modules /\ Top(go) = go[Len(go)]
      /\ Top(go).next \in Nat \ {0} /\ exec = {} /\ c \in instances /\ c \notin failed
      /\ c \in Walking /\ body[c].began = 0
      /\ \A i \in 1..Len(go) : go[i].m = c => i = Len(go)
  BY <1>1, <1>a, HereIs
<1>3. Unheard(c) = {}
  <2>1. Counts(c) /\ ~Begins(c)
    BY <1>2, <1>a, JobsSplit DEF Begins
  <2>2. PICK U : U = Unheard(c)
    OBVIOUS
  <2>3. IsFiniteSet(U) /\ Cardinality(U) <= 0
    BY <2>1, <2>2 DEF Counts
  <2>4. Cardinality(U) = 0
    BY <2>3, FS_CardinalityType
  <2> QED
    BY <2>2, <2>3, <2>4, FS_EmptySet
<1>4. ASSUME NEW k \in 1..Len(graph[c]) PROVE Seen(c, k)
  <2>1. Len(graph[c]) \in Nat
    BY <1>2, <1>a, Types
  <2>2. k < Top(go).next
    BY <2>1, <1>1, <1>2
  <2> QED
    BY <2>2, <1>2 DEF Seen
<1> QED
  BY <1>2, <1>3, <1>4, MayBegin

\* finish takes off the stack the module that the walk is in, and no other.
LEMMA FinishPops ==
    ASSUME OrderInv, go # <<>>, NEW c, c = Here, NEW async, finish(c, async)
    PROVE  /\ Len(stack') = Len(go) - 1 /\ Len(go') = Len(go) - 1
           /\ \A i \in 1..(Len(go) - 1) : go'[i] = go[i] /\ stack'[i] = stack[i]
           /\ Walking' = Walking \ {c}
           /\ \A m \in Modules : m # c => status'[m] = status[m] /\ cycleRoot'[m] = cycleRoot[m]
           /\ status'[c] # "evaluating" /\ cycleRoot'[c] = c
<1>a. TypeOK /\ WalkOK /\ WalkExact /\ IndicesOK
  BY OrderParts
<1>1. PICK n : n = Len(go)
  OBVIOUS
<1>2. /\ n \in Nat \ {0} /\ n \in 1..n /\ go[n].m = c /\ c \in Modules
      /\ \A i \in 1..n : go[i].m = c => i = n
  BY <1>1, <1>a, HereIs
<1>3. Len(stack) = n /\ stack[n] = c /\ stack \in Seq(Modules) /\ go \in Seq(Activation)
  BY <1>1, <1>2, <1>a DEF WalkExact, TypeOK
<1>4. PICK l \in 0..n :
         /\ Cut(c, l)
         /\ status' = [m \in Modules |-> IF m \notin Above(l) THEN status[m]
                          ELSE IF async[m] = 0 THEN "evaluated" ELSE "evaluating-async"]
         /\ cycleRoot' = [m \in Modules |-> IF m \in Above(l) THEN c ELSE cycleRoot[m]]
         /\ stack' = IF n = 1 THEN <<>> ELSE SubSeq(stack, 1, l)
  BY <1>1, <1>3, FinishIs
<1>5. l = n - 1
  <2>1. dfsAncestorIndex[c] = dfsIndex[c]
    BY <1>a DEF IndicesOK
  <2>2. l < n /\ stack[l + 1] = c
    BY <2>1, <1>3, <1>4 DEF Cut
  <2>3. l + 1 \in 1..n
    BY <2>2, <1>2
  <2>4. l + 1 = n
    BY <2>2, <2>3, <1>2, <1>3, <1>a DEF WalkOK
  <2> QED
    BY <2>4, <1>2
<1>6. Above(l) = {c}
  <2>1. \A i : i \in (l + 1)..n <=> i = n
    BY <1>2, <1>5
  <2> QED
    BY <2>1, <1>3 DEF Above
<1>7. /\ \A m \in Modules : m # c => status'[m] = status[m] /\ cycleRoot'[m] = cycleRoot[m]
      /\ status'[c] # "evaluating" /\ cycleRoot'[c] = c
  BY <1>2, <1>4, <1>6
<1>8. Len(stack') = n - 1 /\ \A i \in 1..(n - 1) : stack'[i] = stack[i]
  <2>1. CASE n = 1
    BY <2>1, <1>4
  <2>2. CASE n # 1
    <3>1. stack' = SubSeq(stack, 1, l) /\ l \in 0..Len(stack)
      BY <2>2, <1>3, <1>4
    <3>2. Len(SubSeq(stack, 1, l)) = l /\ \A i \in 1..l : SubSeq(stack, 1, l)[i] = stack[i]
      BY <3>1, <1>3, Kept
    <3> QED
      BY <3>1, <3>2, <1>5
  <2> QED
    BY <2>1, <2>2
<1>9. Len(go') = n - 1 /\ \A i \in 1..(n - 1) : go'[i] = go[i]
  <2>1. go' = Pop(go)
    BY DEF finish
  <2>2. Len(Pop(go)) = Len(go) - 1 /\ \A i \in 1..(Len(go) - 1) : Pop(go)[i] = go[i]
    BY <1>3, Popped
  <2> QED
    BY <2>1, <2>2, <1>1
<1>10. Walking' = Walking \ {c}
  <2>1. Walking' = {go'[i].m : i \in 1..(n - 1)} /\ Walking = {go[i].m : i \in 1..n}
    BY <1>1, <1>9 DEF Walking
  <2>2. \A i \in 1..(n - 1) : i \in 1..n /\ i # n
    BY <1>2
  <2>3. \A i \in 1..n : i # n => i \in 1..(n - 1)
    BY <1>2
  <2> QED
    BY <2>1, <2>2, <2>3, <1>2, <1>9
<1> QED
  BY <1>1, <1>7, <1>8, <1>9, <1>10

\* The end of innerModuleEvaluation: all that the module requires is seen; if its
\* body does not begin, it became asynchronous after all others.
LEMMA FinishKeepsOrder ==
    ASSUME OrderInv, IndInv', Complete, NEW c, c = Here, NEW async, finish(c, async),
           \A m \in Modules : m # c => async[m] = asyncEvaluation[m] /\ body'[m] = body[m],
           \/ body'[c] = body[c] /\ \A d \in Modules : asyncEvaluation[d] < async[c]
           \/ pending[c] = 0 /\ body'[c].began # 0 /\ body'[c].at # "threw"
    PROVE  OrderInv'
<1>a. /\ TypeOK /\ WalkOK /\ RecordsOK /\ WalkExact /\ IndicesOK /\ RootsOK /\ ErrorsOK
      /\ EntriesOrdered /\ RequestsOK /\ DependenciesFirst
  BY OrderParts
<1>b. /\ graph' = graph /\ instances' = instances /\ dfsIndex' = dfsIndex /\ index' = index
      /\ dfsAncestorIndex' = dfsAncestorIndex /\ asyncParents' = asyncParents /\ failed' = failed
      /\ asyncEvaluation' = async
  BY DEF finish, graphVars
<1>c. RecordsOK'
  BY DEF IndInv, Consistent
<1>1. go # <<>> /\ Top(go).next > Len(graph[c])
  BY DEF Complete
<1>2. PICK n : n = Len(go)
  OBVIOUS
<1>3. /\ n \in Nat \ {0} /\ go[n].m = c /\ c \in Modules /\ Top(go) = go[n]
      /\ c \in instances /\ c \notin failed /\ c \in Walking
      /\ body[c].began = 0 /\ asyncEvaluation[c] = 0
      /\ \A i \in 1..n : go[i].m = c => i = n
  BY <1>1, <1>2, <1>a, HereIs
<1>4. /\ Len(stack') = n - 1 /\ Len(go') = n - 1
      /\ \A i \in 1..(n - 1) : go'[i] = go[i] /\ stack'[i] = stack[i]
      /\ Walking' = Walking \ {c}
      /\ \A m \in Modules : m # c => status'[m] = status[m] /\ cycleRoot'[m] = cycleRoot[m]
      /\ status'[c] # "evaluating" /\ cycleRoot'[c] = c
  BY <1>1, <1>2, FinishPops
<1>5. \A i \in 1..(n - 1) : i \in 1..n /\ i # n
  BY <1>3
<1>6. body[c].at = "none" /\ ~Settled(c)
  BY <1>3, <1>a DEF RecordsOK, Settled
<1>7. /\ \A m \in Modules : body[m].at = "done" => body'[m].at = "done"
      /\ \A m \in Modules : m # c => (Settled(m)' <=> Settled(m))
  BY <1>6 DEF Settled
<1>8. \A x : Reaches(x)' = Reaches(x)
  BY <1>b, ReachesKept
<1>9. \A m : \A d \in Modules : Clear(m, d) => Clear(m, d)'
  BY <1>7, <1>8, <1>b DEF Clear
<1>10. WalkExact'
  <2>1. \A i \in 1..(n - 1) : stack'[i] = go'[i].m
    BY <1>2, <1>4, <1>5, <1>a DEF WalkExact
  <2>2. \A i, j \in 1..(n - 1) : \A d \in Modules :
           go'[i].m = d /\ i < j => go'[j].m \in Reaches(d)'
    <3> SUFFICES ASSUME NEW i \in 1..(n - 1), NEW j \in 1..(n - 1), NEW d \in Modules,
                        go'[i].m = d, i < j
                 PROVE  go'[j].m \in Reaches(d)
      BY <1>8
    <3>1. go[i].m = d /\ go'[j] = go[j] /\ i \in 1..n /\ j \in 1..n
      BY <1>4, <1>5
    <3> QED
      BY <3>1, <1>2, <1>a DEF WalkExact
  <2>3. \A m \in Modules : status'[m] = "evaluating" <=> m \in Walking'
    BY <1>4, <1>a DEF WalkExact
  <2> QED
    BY <2>1, <2>2, <2>3, <1>4 DEF WalkExact
<1>11. IndicesOK'
  <2>1. \A i \in 1..(n - 1) : dfsIndex'[go'[i].m] < index'
    BY <1>b, <1>2, <1>4, <1>5, <1>a DEF IndicesOK
  <2>2. \A i, j \in 1..(n - 1) : i < j => dfsIndex'[go'[i].m] < dfsIndex'[go'[j].m]
    BY <1>b, <1>2, <1>4, <1>5, <1>a DEF IndicesOK
  <2> QED
    BY <2>1, <2>2, <1>b, <1>4, <1>a DEF IndicesOK
<1>12. RootsOK'
  <2>1. \A m \in instances : m \in Modules
    BY <1>a DEF TypeOK
  <2> QED
    BY <2>1, <1>b, <1>4, <1>a DEF RootsOK
<1>13. ErrorsOK'
  BY <1>6, <1>b, <1>a DEF ErrorsOK
<1>14. EntriesOrdered'
  <2> SUFFICES ASSUME NEW d \in Modules, NEW m \in Elements(asyncParents[d]),
                      d \notin failed, ~Settled(d)', m \notin failed, body'[m].began = 0
               PROVE  async[d] # 0 /\ (m \in Walking' \/ async[d] < async[m])
    BY <1>b DEF EntriesOrdered, Elements
  <2>1. m \in Modules
    BY <1>a DEF RecordsOK, TypeOK
  <2>2. body[m].began = 0 /\ ~Settled(d)
    BY <2>1, <1>3, <1>6, <1>7
  <2>3. asyncEvaluation[d] # 0 /\ (m \in Walking \/ asyncEvaluation[d] < asyncEvaluation[m])
    BY <2>2, <1>a DEF EntriesOrdered
  <2>4. d # c /\ async[d] = asyncEvaluation[d]
    BY <2>3, <1>3
  <2>5. CASE m = c
    BY <2>3, <2>4, <2>5
  <2>6. CASE m # c
    BY <2>1, <2>3, <2>4, <2>6, <1>4
  <2> QED
    BY <2>5, <2>6
<1>15. RequestsOK'
  <2> SUFFICES ASSUME NEW m \in instances, m \notin failed, body'[m].began = 0,
                      NEW k \in 1..Len(graph[m]), NEW d \in Modules, Seen(m, k)', graph[m][k] = d
               PROVE  Clear(m, d)' \/ m \in Elements(asyncParents[d])
    BY <1>b DEF RequestsOK, Elements
  <2>1. m \in Modules
    BY <1>a DEF TypeOK
  <2>2. body[m].began = 0
    BY <2>1, <1>3
  <2>3. Seen(m, k)
    <3>1. CASE m = c
      <4>1. Len(graph[c]) \in Nat /\ go[n].next \in Nat
        <5>1. go[n] \in Activation
          BY <1>2, <1>3, <1>a, Types
        <5> QED
          BY <5>1, <1>3, <1>a, Types DEF Activation
      <4>2. k < go[n].next
        BY <4>1, <3>1, <1>1, <1>3
      <4> QED
        BY <4>2, <3>1, <1>2, <1>3 DEF Seen
    <3>2. CASE m # c
      <4>1. \A i \in 1..n : i # n => i \in 1..(n - 1)
        BY <1>3
      <4> QED
        BY <4>1, <3>2, <1>2, <1>3, <1>4 DEF Seen
    <3> QED
      BY <3>1, <3>2
  <2>4. Clear(m, d) \/ m \in Elements(asyncParents[d])
    BY <2>2, <2>3, <1>a DEF RequestsOK
  <2> QED
    BY <2>4, <1>9
<1>16. DependenciesFirst'
  <2> SUFFICES ASSUME NEW m \in Modules, body'[m].began > 0, NEW d \in Elements(graph[m])
               PROVE  Clear(m, d)'
    BY <1>b DEF DependenciesFirst, Clear, Elements
  <2>1. d \in Modules
    <3>1. PICK k \in 1..Len(graph[m]) : graph[m][k] = d
      BY DEF Elements
    <3>2. graph[m] \in Seq(Modules)
      BY <1>a, Types
    <3> QED
      BY <3>1, <3>2, ElementOfSeq
  <2>2. CASE m = c
    <3>1. body'[c] # body[c]
      BY <2>2, <1>3
    <3>2. pending[c] = 0
      BY <3>1
    <3> QED
      BY <3>2, <2>1, <2>2, <1>9, HereMayBegin
  <2>3. CASE m # c
    <3>1. body[m].began > 0
      BY <2>3
    <3>2. Clear(m, d)
      BY <3>1, <1>a DEF DependenciesFirst, Clear
    <3> QED
      BY <3>2, <2>1, <1>9
  <2> QED
    BY <2>2, <2>3
<1> QED
  BY <1>10, <1>11, <1>12, <1>13, <1>14, <1>15, <1>16 DEF OrderInv

\* A module with something pending or with top-level await.
LEMMA ExecuteAsyncKeepsOrder ==
    ASSUME OrderInv, IndInv', ExecuteAsync
    PROVE  OrderInv'
<1>a. TypeOK /\ WalkOK
  BY OrderParts
<1>1. Complete /\ go # <<>>
  BY DEF ExecuteAsync, Complete
<1>2. PICK c : c = Here
  OBVIOUS
<1>3. PICK async : async = [asyncEvaluation EXCEPT ![c] = counter + 1]
  OBVIOUS
<1>4. finish(c, async) /\ body' = IF pending[c] = 0 THEN Ran(c, "running") ELSE body
  BY <1>2, <1>3 DEF ExecuteAsync
<1>5. c \in Modules /\ body[c].began = 0
  BY <1>1, <1>2, <1>a, HereIs
<1>6. /\ \A m \in Modules : m # c => async[m] = asyncEvaluation[m]
      /\ \A d \in Modules : asyncEvaluation[d] < async[c]
  <2>1. counter \in Nat /\ \A d \in Modules : asyncEvaluation[d] \in 0..counter
    BY <1>a DEF TypeOK
  <2>2. async[c] = counter + 1 /\ \A m \in Modules : m # c => async[m] = asyncEvaluation[m]
    BY <1>3, <1>5, <1>a DEF TypeOK
  <2> QED
    BY <2>1, <2>2
<1>7. CASE pending[c] = 0
  <2>1. /\ body'[c].at = "running" /\ body'[c].began = body[c].began + 1
        /\ \A x \in Modules : x # c => body'[x] = body[x]
    BY <1>4, <1>5, <1>7, <1>a, RanIs
  <2>2. body'[c].began # 0 /\ body'[c].at # "threw"
    BY <2>1, <1>5
  <2> QED
    BY <2>1, <2>2, <1>1, <1>2, <1>4, <1>6, <1>7, FinishKeepsOrder
<1>8. CASE pending[c] # 0
  <2>1. body' = body
    BY <1>4, <1>8
  <2> QED
    BY <2>1, <1>1, <1>2, <1>4, <1>6, FinishKeepsOrder
<1> QED
  BY <1>7, <1>8

\* ExecuteModule in the walk: the body is done, or its error ends the walk and fails
\* all the modules that the walk is in.
LEMMA ExecuteKeepsOrder ==
    ASSUME OrderInv, IndInv', NEW outcome, Execute(outcome)
    PROVE  OrderInv'
<1>a. /\ TypeOK /\ WalkOK /\ RecordsOK /\ WalkExact /\ IndicesOK /\ RootsOK /\ ErrorsOK
      /\ EntriesOrdered /\ RequestsOK /\ DependenciesFirst
  BY OrderParts
<1>1. Complete /\ go # <<>>
  BY DEF Execute, Complete
<1>2. PICK c : c = Here
  OBVIOUS
<1>3. /\ pending[c] = 0 /\ body' = Ran(c, outcome)
      /\ \/ outcome = "done" /\ finish(c, asyncEvaluation)
         \/ /\ outcome = "threw"
            /\ failed' = failed \union Elements(stack)
            /\ status' = [m \in Modules |-> IF m \in Elements(stack) THEN "evaluated" ELSE status[m]]
            /\ go' = <<>> /\ stack' = <<>>
            /\ UNCHANGED <<graphVars, instances, dfsIndex, dfsAncestorIndex, cycleRoot,
                           asyncEvaluation, asyncParents, index>>
  BY <1>2 DEF Execute
<1>4. c \in Modules /\ body[c].began = 0 /\ c \in Elements(stack)
  BY <1>1, <1>2, <1>a, HereIs
<1>5. /\ body'[c].at = outcome /\ body'[c].began = body[c].began + 1
      /\ \A x \in Modules : x # c => body'[x] = body[x]
  BY <1>3, <1>4, <1>a, RanIs
<1>6. body'[c].began # 0
  BY <1>4, <1>5
<1>7. CASE outcome = "done"
  <2>1. PICK async : async = asyncEvaluation
    OBVIOUS
  <2>2. finish(c, async) /\ body'[c].at # "threw"
    BY <2>1, <1>3, <1>5, <1>7
  <2>3. \A m \in Modules : m # c => async[m] = asyncEvaluation[m] /\ body'[m] = body[m]
    BY <2>1, <1>5
  <2> QED
    BY <2>2, <2>3, <1>1, <1>2, <1>3, <1>6, FinishKeepsOrder
<1>8. CASE outcome = "threw"
  <2>1. /\ failed' = failed \union Elements(stack)
        /\ status' = [m \in Modules |-> IF m \in Elements(stack) THEN "evaluated" ELSE status[m]]
        /\ go' = <<>> /\ stack' = <<>> /\ graph' = graph /\ instances' = instances
        /\ dfsIndex' = dfsIndex /\ dfsAncestorIndex' = dfsAncestorIndex /\ index' = index
        /\ cycleRoot' = cycleRoot /\ asyncEvaluation' = asyncEvaluation
        /\ asyncParents' = asyncParents
    BY <1>3, <1>8 DEF graphVars
  <2>2. Walking \subseteq Elements(stack)
    BY <1>a DEF WalkOK, Walking
  <2>3. Len(go') = 0 /\ Len(stack') = 0 /\ Walking' = {}
    BY <2>1 DEF Walking
  <2>4. body[c].at = "none" /\ ~Settled(c)
    BY <1>4, <1>a DEF RecordsOK, Settled
  <2>5. \A m : \A d \in Modules : Clear(m, d) => Clear(m, d)'
    <3>1. \A d \in Modules : body[d].at = "done" => body'[d].at = "done"
      BY <2>4, <1>5
    <3> QED
      BY <3>1, <2>1, ClearKept
  <2>6. WalkExact'
    <3>1. \A m \in Modules : status'[m] # "evaluating"
      BY <2>1, <2>2, <1>a DEF WalkExact
    <3> QED
      BY <3>1, <2>3 DEF WalkExact
  <2>7. IndicesOK'
    BY <2>1, <2>3, <1>a DEF IndicesOK
  <2>8. RootsOK'
    BY <2>1, <2>2, <1>a DEF RootsOK
  <2>9. ErrorsOK'
    BY <2>1, <1>4, <1>5, <1>a DEF ErrorsOK
  <2>10. EntriesOrdered'
    <3> SUFFICES ASSUME NEW d \in Modules, NEW m \in Elements(asyncParents[d]),
                        d \notin failed', ~Settled(d)', m \notin failed', body'[m].began = 0
                 PROVE  asyncEvaluation[d] # 0 /\ asyncEvaluation[d] < asyncEvaluation[m]
      BY <2>1 DEF EntriesOrdered, Elements
    <3>1. m \in Modules
      BY <1>a DEF RecordsOK, TypeOK
    <3>2. m # c /\ d # c /\ body'[m] = body[m] /\ body'[d] = body[d]
      BY <3>1, <2>1, <1>4, <1>5
    <3>3. d \notin failed /\ ~Settled(d) /\ m \notin failed /\ body[m].began = 0 /\ m \notin Walking
      BY <3>2, <2>1, <2>2 DEF Settled
    <3> QED
      BY <3>3, <1>a DEF EntriesOrdered
  <2>11. RequestsOK'
    <3> SUFFICES ASSUME NEW m \in instances, m \notin failed', body'[m].began = 0,
                        NEW k \in 1..Len(graph[m]), NEW d \in Modules, graph[m][k] = d
                 PROVE  Clear(m, d)' \/ m \in Elements(asyncParents[d])
      BY <2>1 DEF RequestsOK, Elements
    <3>1. m \in Modules /\ m \notin failed /\ m # c /\ m \notin Walking
      BY <2>1, <2>2, <1>4, <1>a DEF TypeOK
    <3>2. body[m].began = 0 /\ Seen(m, k)
      BY <3>1, <1>5 DEF Seen, Walking
    <3> QED
      BY <3>1, <3>2, <2>5, <1>a DEF RequestsOK
  <2>12. DependenciesFirst'
    <3> SUFFICES ASSUME NEW m \in Modules, body'[m].began > 0, NEW d \in Elements(graph[m])
                 PROVE  Clear(m, d)'
      BY <2>1 DEF DependenciesFirst, Clear, Elements
    <3>1. d \in Modules
      <4>1. PICK k \in 1..Len(graph[m]) : graph[m][k] = d
        BY DEF Elements
      <4>2. graph[m] \in Seq(Modules)
        BY <1>a, Types
      <4> QED
        BY <4>1, <4>2, ElementOfSeq
    <3>2. CASE m = c
      BY <3>1, <3>2, <2>5, <1>1, <1>2, <1>3, HereMayBegin
    <3>3. CASE m # c
      <4>1. body[m].began > 0
        BY <3>3, <1>5
      <4>2. Clear(m, d)
        BY <4>1, <1>a DEF DependenciesFirst, Clear
      <4> QED
        BY <4>2, <3>1, <2>5
    <3> QED
      BY <3>2, <3>3
  <2> QED
    BY <2>6, <2>7, <2>8, <2>9, <2>10, <2>11, <2>12 DEF OrderInv
<1> QED
  BY <1>3, <1>7, <1>8

-----------------------------------------------------------------------------
(* The specification *)

\* The invariant holds before any module is evaluated.
LEMMA InitOrdered ==
    ASSUME Init
    PROVE  OrderInv
<1>1. IndInv
  BY InitHolds
<1>2. /\ instances = {} /\ status = [m \in Modules |-> "new"]
      /\ dfsIndex = [m \in Modules |-> 0] /\ dfsAncestorIndex = dfsIndex /\ index = 0
      /\ asyncParents = [m \in Modules |-> <<>>]
      /\ body = [m \in Modules |-> [at |-> "none", began |-> 0]]
      /\ go = <<>> /\ stack = <<>>
  BY DEF Init, NoBody
<1>3. Len(go) = 0 /\ Len(stack) = 0 /\ 1..0 = {} /\ Walking = {}
  BY <1>2 DEF Walking
<1>4. WalkExact
  BY <1>2, <1>3 DEF WalkExact
<1>5. IndicesOK
  BY <1>2, <1>3 DEF IndicesOK
<1>6. RootsOK /\ RequestsOK
  BY <1>2 DEF RootsOK, RequestsOK
<1>7. \A m \in Modules : body[m].at = "none" /\ body[m].began = 0
  BY <1>2
<1>8. ErrorsOK
  BY <1>7 DEF ErrorsOK
<1>9. DependenciesFirst
  BY <1>7 DEF DependenciesFirst
<1>10. EntriesOrdered
  <2>1. \A d \in Modules : Elements(asyncParents[d]) = {}
    BY <1>2 DEF Elements
  <2> QED
    BY <2>1 DEF EntriesOrdered
<1> QED
  BY <1>1, <1>4, <1>5, <1>6, <1>8, <1>9, <1>10 DEF OrderInv

\* Every step keeps it.
LEMMA NextKeepsOrder ==
    ASSUME OrderInv, [Next]_vars
    PROVE  OrderInv'
<1>a. IndInv'
  BY NextKeeps, OrderParts
<1>1. CASE \E c \in Modules : Evaluate(c)
  BY <1>1, <1>a, EvaluateKeepsOrder
<1>2. CASE \E c \in Modules : BodySettles(c)
  BY <1>2, <1>a, BodySettlesKeepsOrder
<1>3. CASE RequireNew
  BY <1>3, <1>a, RequireNewKeepsOrder
<1>4. CASE Require
  BY <1>4, <1>a, RequireKeepsOrder
<1>5. CASE ExecuteAsync
  BY <1>5, <1>a, ExecuteAsyncKeepsOrder
<1>6. CASE \E o \in Outcomes : Execute(o)
  BY <1>6, <1>a, ExecuteKeepsOrder
<1>7. CASE gatherParent \/ gatherReturns
  BY <1>7, <1>a, GatherKeepsOrder
<1>8. CASE ExecAsync
  BY <1>8, <1>a, ExecAsyncKeepsOrder
<1>9. CASE \E o \in Outcomes : Exec(o)
  BY <1>9, <1>a, ExecKeepsOrder
<1>10. CASE UNCHANGED vars
  <2>1. /\ go' = go /\ stack' = stack /\ index' = index /\ instances' = instances
        /\ status' = status /\ dfsIndex' = dfsIndex /\ dfsAncestorIndex' = dfsAncestorIndex
        /\ graph' = graph /\ cycleRoot' = cycleRoot /\ asyncEvaluation' = asyncEvaluation
        /\ asyncParents' = asyncParents /\ failed' = failed /\ body' = body
    BY <1>10 DEF vars, graphVars, stateVars, walkVars
  <2>2. /\ \A x : Reaches(x)' = Reaches(x)
        /\ Walking' = Walking
        /\ \A m, k : Seen(m, k)' <=> Seen(m, k)
        /\ \A m, d : Clear(m, d)' <=> Clear(m, d)
        /\ \A m : Settled(m)' <=> Settled(m)
    BY <2>1, ReachesKept DEF Walking, Seen, Clear, Settled
  <2>3. WalkExact' /\ IndicesOK' /\ RootsOK' /\ ErrorsOK'
    BY <2>1, <2>2, OrderParts DEF WalkExact, IndicesOK, RootsOK, ErrorsOK
  <2>4. EntriesOrdered' /\ RequestsOK'
    BY <2>1, <2>2, OrderParts DEF EntriesOrdered, RequestsOK, Elements
  <2>5. DependenciesFirst'
    BY <2>1, <2>2, OrderParts DEF DependenciesFirst, Elements
  <2> QED
    BY <2>3, <2>4, <2>5, <1>a DEF OrderInv
<1> QED
  BY <1>1, <1>2, <1>3, <1>4, <1>5, <1>6, <1>7, <1>8, <1>9, <1>10 DEF Next, WalkStep, JobStep

\* The body of a module begins only when the bodies of the modules it requires are
\* done, or have failed, those excepted that reach the module itself: in the walk, in
\* a job's execList (modules.go:338) and whatever the order in which bodies settle.
THEOREM DependenciesAlwaysFirst == Spec => []DependenciesFirst
<1>1. OrderInv => DependenciesFirst
  BY DEF OrderInv
<1> QED
  BY <1>1, InitOrdered, NextKeepsOrder, PTL DEF Spec

\* dfsAncestorIndex is never lowered (modules.go:259), so that every module that the
\* walk completes is its own cycleRoot, the modules of a cycle too.
THEOREM RootsAreOwn == Spec => [](IndicesOK /\ RootsOK)
<1>1. OrderInv => IndicesOK /\ RootsOK
  BY DEF OrderInv
<1> QED
  BY <1>1, InitOrdered, NextKeepsOrder, PTL DEF Spec

-----------------------------------------------------------------------------
(* The pending counts                                                      *)

\* d failed with its body not settled: its asyncParents are never told.
Lost(d) == d \in failed /\ ~Settled(d)

\* Entry i of d's asyncParents is yet to be met, or never will be.
Owes(d, i) == Telling(d, i) \/ Lost(d)

\* The entries of m that pendingAsyncDependancies stands for.
Owed(m) == {e \in Entries(m) : Owes(e[1], e[2])}

\* The modules that the host evaluated, and that they are one at most.
Called == {m \in Modules : capability[m] # "none"}
Once == \A a, b \in Called : a = b

\* What m counts before it begins.
CountOK(m) ==
    ~Begins(m) =>
        /\ IsFiniteSet(Owed(m)) /\ Cardinality(Owed(m)) <= pending[m]
        /\ Once => Cardinality(Owed(m)) = pending[m]

\* Nothing is instantiated before the first evaluation.
CallsFirst == IsFiniteSet(Called) /\ (Called = {} => instances = {})

\* What a job is to execute has not failed while it gathers.
GatherClean == gather # <<>> => exec \intersect failed = {}

\* Nobody waits for a module before the walk has completed it.
Parentless == \A d \in Modules : d \notin instances \/ d \in Walking => asyncParents[d] = <<>>

\* The first walk meets no error and no asynchronous module that has settled.
FirstWalk == Once /\ go # <<>> => failed = {} /\ \A m \in Asynchronous : ~Settled(m)

\* Within one evaluation an error reaches all who wait for the module.
ErrorsSpread ==
    Once => \A d \in failed : \A m \in Elements(asyncParents[d]) : m \in failed \/ body[m].began # 0

CountInv ==
    /\ CallsFirst /\ GatherClean /\ Parentless /\ FirstWalk /\ ErrorsSpread
    /\ \A m \in Modules \ failed : CountOK(m)

\* What Owed holds.
LEMMA OwedIs ==
    ASSUME NEW m
    PROVE  \A e : e \in Owed(m) <=>
              \E d \in Modules : \E i \in 1..Len(asyncParents[d]) :
                 e = <<d, i>> /\ asyncParents[d][i] = m /\ Owes(d, i)
BY DEF Owed, Entries

\* The same after a step.
LEMMA OwedIsThen ==
    ASSUME NEW m
    PROVE  \A e : e \in Owed(m)' <=>
              \E d \in Modules : \E i \in 1..Len(asyncParents'[d]) :
                 e = <<d, i>> /\ asyncParents'[d][i] = m /\ Owes(d, i)'
BY DEF Owed, Entries

\* A step that adds no entry and changes no count: what m is owed shrinks at most,
\* and stays the same within one evaluation.
LEMMA CountOKKept ==
    ASSUME NEW m, CountOK(m), UNCHANGED asyncParents, pending'[m] = pending[m], pending[m] \in Nat,
           Once' => Once,
           ~Begins(m)' => ~Begins(m) /\
              \A d \in Modules : \A i \in 1..Len(asyncParents[d]) : asyncParents[d][i] = m =>
                 (Owes(d, i)' => Owes(d, i)) /\ (Once' => (Owes(d, i) => Owes(d, i)'))
    PROVE  CountOK(m)'
<1> SUFFICES ASSUME ~Begins(m)'
             PROVE  /\ IsFiniteSet(Owed(m)') /\ Cardinality(Owed(m)') <= pending'[m]
                    /\ Once' => Cardinality(Owed(m)') = pending'[m]
  BY DEF CountOK
<1>1. PICK U : U = Owed(m)
  OBVIOUS
<1>2. PICK V : V = Owed(m)'
  OBVIOUS
<1>3. IsFiniteSet(U) /\ Cardinality(U) <= pending[m] /\ (Once => Cardinality(U) = pending[m])
  BY <1>1 DEF CountOK
<1>4. asyncParents' = asyncParents
  OBVIOUS
<1>5. V \subseteq U
  <2> SUFFICES ASSUME NEW e, e \in V PROVE e \in U
    OBVIOUS
  <2>1. PICK d \in Modules : \E i \in 1..Len(asyncParents'[d]) :
           e = <<d, i>> /\ asyncParents'[d][i] = m /\ Owes(d, i)'
    BY <1>2, OwedIsThen
  <2>2. PICK i \in 1..Len(asyncParents'[d]) :
           e = <<d, i>> /\ asyncParents'[d][i] = m /\ Owes(d, i)'
    BY <2>1
  <2>3. i \in 1..Len(asyncParents[d]) /\ asyncParents[d][i] = m /\ Owes(d, i)
    BY <2>2, <1>4
  <2> QED
    BY <2>2, <2>3, <1>1, OwedIs
<1>6. ASSUME Once' PROVE U = V
  <2> SUFFICES ASSUME NEW e, e \in U PROVE e \in V
    BY <1>5
  <2>1. PICK d \in Modules : \E i \in 1..Len(asyncParents[d]) :
           e = <<d, i>> /\ asyncParents[d][i] = m /\ Owes(d, i)
    BY <1>1, OwedIs
  <2>2. PICK i \in 1..Len(asyncParents[d]) :
           e = <<d, i>> /\ asyncParents[d][i] = m /\ Owes(d, i)
    BY <2>1
  <2>3. i \in 1..Len(asyncParents'[d]) /\ asyncParents'[d][i] = m /\ Owes(d, i)'
    BY <2>2, <1>4, <1>6
  <2> QED
    BY <2>2, <2>3, <1>2, OwedIsThen
<1>7. IsFiniteSet(V) /\ Cardinality(V) <= Cardinality(U)
  BY <1>3, <1>5, FS_Subset
<1>8. Cardinality(U) \in Nat /\ Cardinality(V) \in Nat
  BY <1>3, <1>7, FS_CardinalityType
<1>9. Cardinality(V) <= pending'[m]
  BY <1>3, <1>7, <1>8
<1>10. Once' => Cardinality(V) = pending'[m]
  BY <1>3, <1>6
<1> QED
  BY <1>2, <1>7, <1>9, <1>10

\* What a step outside a walk leaves: no walk, the instances, the entries and the
\* host's calls.
LEMMA RestKept ==
    ASSUME OrderInv, CountInv, go' = <<>>,
           UNCHANGED <<instances, asyncParents>>, Called' = Called
    PROVE  CallsFirst' /\ Parentless' /\ FirstWalk' /\ (Once' <=> Once)
<1>1. Len(go') = 0
  BY EmptySeq
<1>2. Walking' = {}
  BY <1>1 DEF Walking
<1>3. (Once' <=> Once) /\ CallsFirst'
  BY DEF Once, CallsFirst, CountInv
<1>4. Parentless'
  BY <1>2 DEF Parentless, CountInv
<1> QED
  BY <1>3, <1>4 DEF FirstWalk

\* Errors that no step adds to are still spread.
LEMMA SpreadKept ==
    ASSUME OrderInv, CountInv, UNCHANGED <<failed, asyncParents>>, Once' => Once,
           \A m \in Modules : body[m].began # 0 => body'[m].began # 0
    PROVE  ErrorsSpread'
<1>1. \A d \in failed : \A m \in Elements(asyncParents[d]) : m \in Modules
  <2>1. TypeOK /\ RecordsOK
    BY OrderParts
  <2> QED
    BY <2>1 DEF TypeOK, RecordsOK
<1> QED
  BY <1>1 DEF ErrorsSpread, CountInv, Elements

\* Settling a promise is no call of the host.
LEMMA SettleCalls ==
    ASSUME TypeOK, NEW ms, NEW o, o # "none", capability' = Settle(capability, ms, o)
    PROVE  Called' = Called
BY DEF Called, Settle, TypeOK

-----------------------------------------------------------------------------
(* The count outside a walk *)

\* What a body that has not begun says: nobody with it has settled.
LEMMA NoneIs ==
    ASSUME OrderInv, NEW m \in Modules
    PROVE  /\ body[m].at \in {"none", "running", "done", "threw"} /\ body[m].began \in Nat
           /\ pending[m] \in Nat
           /\ body[m].began = 0 <=> body[m].at = "none"
           /\ status[m] = "evaluated" => m \in failed \/ body[m].began # 0
           /\ \A d \in Modules : \A i \in 1..Len(asyncParents[d]) :
                 asyncParents[d][i] = m => m \in Elements(asyncParents[d])
<1>a. TypeOK /\ RecordsOK
  BY OrderParts
<1>1. body[m] \in [at : {"none", "running", "done", "threw"}, began : Nat]
  BY <1>a, Types
<1>2. body[m].at \in {"none", "running", "done", "threw"} /\ body[m].began \in Nat
  BY <1>1
<1>3. body[m].began = 0 <=> body[m].at = "none"
  BY <1>a DEF RecordsOK
<1>4. status[m] = "evaluated" => m \in failed \/ body[m].began # 0
  BY <1>3, <1>a DEF RecordsOK
<1>5. pending[m] \in Nat
  BY <1>a DEF TypeOK
<1> QED
  BY <1>2, <1>3, <1>4, <1>5 DEF Elements

\* asyncModuleExecutionRejected goes on to the parents that are not evaluated.
LEMMA RejectedCloses ==
    ASSUME NEW c, NEW d \in Rejected(c), NEW m \in Modules, m \in Elements(asyncParents[d]),
           status[m] # "evaluated"
    PROVE  m \in Rejected(c)
<1>1. status[d] # "evaluated" /\ d \in Modules
  BY DEF Rejected
<1>2. ASSUME NEW ms \in SUBSET Modules, c \in ms,
             \A x \in ms : status[x] # "evaluated" => Elements(asyncParents[x]) \subseteq ms
      PROVE  m \in ms
  <2>1. d \in ms
    BY <1>2 DEF Rejected
  <2> QED
    BY <2>1, <1>1, <1>2
<1> QED
  BY <1>2 DEF Rejected

\* asyncModuleExecutionRejected after the body of c threw.  A module that is left
\* waits for none of those that fail; if c had failed before, in a walk, and others
\* wait for it, they are of another evaluation and count more than they are owed.
LEMMA RejectCounts ==
    ASSUME OrderInv, CountInv, go = <<>>, gather = <<>>, NEW c \in instances,
           asyncModuleExecutionRejected(c),
           body[c].at # "done", body'[c].at = "threw", body'[c].began # 0,
           \A x \in Modules : x # c => body'[x] = body[x],
           exec' = exec \ {c}, gather' = gather, go' = go,
           UNCHANGED <<instances, tla, pending, asyncParents>>
    PROVE  CountInv'
<1>a. TypeOK /\ RecordsOK /\ JobsOK /\ c \in Modules
  BY OrderParts DEF TypeOK
<1>1. failed' = failed \union Rejected(c) /\ capability' = Settle(capability, Rejected(c), "rejected")
  BY DEF asyncModuleExecutionRejected
<1>2. Called' = Called
  BY <1>1, <1>a, SettleCalls
<1>3. CallsFirst' /\ Parentless' /\ FirstWalk' /\ (Once' <=> Once)
  BY <1>2, RestKept
<1>4. GatherClean'
  BY DEF GatherClean
<1>5. c \in failed' /\ (c \notin Rejected(c) => c \in failed)
  BY <1>1, <1>a, RejectedIs DEF RecordsOK
<1>6. \A m \in Modules : body[m].began # 0 => body'[m].began # 0
  OBVIOUS
<1>7. ASSUME NEW m \in Modules, NEW d \in Rejected(c), m \in Elements(asyncParents[d])
      PROVE  m \in failed' \/ body[m].began # 0
  <2>1. CASE status[m] = "evaluated"
    BY <2>1, <1>1, NoneIs
  <2>2. CASE status[m] # "evaluated"
    BY <2>2, <1>1, <1>7, RejectedCloses
  <2> QED
    BY <2>1, <2>2
<1>8. ErrorsSpread'
  <2> SUFFICES ASSUME Once, NEW d \in failed', NEW m \in Elements(asyncParents[d])
               PROVE  m \in failed' \/ body'[m].began # 0
    BY <1>3 DEF ErrorsSpread, Elements
  <2>1. d \in Modules
    BY <1>1, <1>a DEF TypeOK, Rejected
  <2>2. m \in Modules
    BY <2>1, <1>a DEF TypeOK, RecordsOK
  <2>3. CASE d \in failed
    <3>1. m \in failed \/ body[m].began # 0
      BY <2>3 DEF ErrorsSpread, CountInv
    <3> QED
      BY <3>1, <2>2, <1>1, <1>6
  <2>4. CASE d \in Rejected(c)
    BY <2>2, <2>4, <1>6, <1>7
  <2> QED
    BY <2>3, <2>4, <1>1
<1>9. ASSUME NEW m \in Modules, m \notin failed' PROVE CountOK(m)'
  <2>1. m # c /\ CountOK(m) /\ (Begins(m)' <=> Begins(m)) /\ pending[m] \in Nat
    BY <1>1, <1>5, <1>9, NoneIs DEF CountInv, Begins
  <2>2. ASSUME ~Begins(m), NEW d \in Modules, NEW i \in 1..Len(asyncParents[d]),
               asyncParents[d][i] = m
        PROVE  (Owes(d, i)' => Owes(d, i)) /\ (Once' => (Owes(d, i) => Owes(d, i)'))
    <3>1. m \in Elements(asyncParents[d])
      BY <2>2 DEF Elements
    <3>2. body[m].began = 0
      BY <2>2, NoneIs DEF Begins
    <3>3. d \notin Rejected(c)
      BY <3>1, <3>2, <1>7, <1>9
    <3>4. d \in failed' <=> d \in failed
      BY <3>3, <1>1
    <3>5. CASE d # c
      <4>1. body'[d] = body[d] /\ (d \in exec' <=> d \in exec) /\ gather' = gather /\ tla' = tla
        BY <3>5
      <4>2. Owes(d, i)' <=> Owes(d, i)
        BY <4>1, <3>4 DEF Owes, Telling, ToTell, Lost, Settled
      <4> QED
        BY <4>2
    <3>6. CASE d = c
      <4>1. d \in failed
        BY <3>3, <3>6, <1>5
      <4>2. ~Once
        BY <4>1, <3>1, <3>2, <1>9, <1>1 DEF CountInv, ErrorsSpread
      <4>3. ~Owes(d, i)'
        <5>1. Len(gather') = 0
          BY EmptySeq
        <5>2. d \in failed' /\ body'[d].at = "threw"
          BY <4>1, <3>6, <1>1
        <5> QED
          BY <5>1, <5>2 DEF Owes, Telling, ToTell, Lost, Settled
      <4> QED
        BY <4>2, <4>3, <1>3
    <3> QED
      BY <3>5, <3>6
  <2> QED
    BY <2>1, <2>2, <1>3, CountOKKept
<1> QED
  BY <1>3, <1>4, <1>8, <1>9 DEF CountInv

\* A body with top-level await throws.
LEMMA BodyThrowsCounts ==
    ASSUME OrderInv, CountInv, NEW c \in Modules, BodyThrows(c)
    PROVE  CountInv'
<1>1. /\ Quiet /\ body[c].at = "running" /\ body' = [body EXCEPT ![c].at = "threw"]
      /\ asyncModuleExecutionRejected(c)
      /\ UNCHANGED <<graphVars, instances, pending, asyncParents, walkVars, jobVars>>
  BY DEF BodyThrows
<1>2. IndInv
  BY OrderParts
<1>3. /\ c \in instances /\ body'[c].at = "threw" /\ body'[c].began = 1
      /\ \A x \in Modules : x # c => body'[x] = body[x]
  BY <1>1, <1>2, RunningIs
<1>4. go = <<>> /\ gather = <<>> /\ gather' = gather /\ exec' = exec \ {c} /\ go' = go
  BY <1>1 DEF Quiet, jobVars, walkVars
<1>5. UNCHANGED <<instances, tla, pending, asyncParents>>
  BY <1>1 DEF graphVars
<1>6. body[c].at # "done"
  BY <1>1
<1>7. body'[c].began # 0
  BY <1>3
<1> QED
  BY <1>1, <1>3, <1>4, <1>5, <1>6, <1>7, RejectCounts

\* A body with top-level await ends: those who wait for its module are about to be
\* told, unless it had failed before.
LEMMA BodyEndsCounts ==
    ASSUME OrderInv, CountInv, NEW c \in Modules, BodyEnds(c)
    PROVE  CountInv'
<1>a. TypeOK /\ RecordsOK /\ IndInv
  BY OrderParts
<1>b. /\ tla' = tla /\ instances' = instances /\ pending' = pending /\ asyncParents' = asyncParents
      /\ failed' = failed /\ go' = go /\ exec' = exec
      /\ Quiet /\ body[c].at = "running" /\ body' = [body EXCEPT ![c].at = "done"]
  BY DEF BodyEnds, graphVars, walkVars
<1>1. go = <<>> /\ gather = <<>> /\ exec = {} /\ Len(gather) = 0
  BY <1>b, EmptySeq DEF Quiet
<1>2. /\ c \in instances /\ body[c].began = 1 /\ body'[c].at = "done" /\ body'[c].began = 1
      /\ \A x \in Modules : x # c => body'[x] = body[x]
  BY <1>b, <1>a, RunningIs
<1>3. \/ /\ status[c] # "evaluated" /\ c \notin failed
         /\ capability' = Settle(capability, {c}, "fulfilled")
         /\ gather' = <<[m |-> c, next |-> 1]>>
      \/ c \in failed /\ capability' = capability /\ gather' = gather
  BY <1>b, <1>a DEF BodyEnds, RecordsOK
<1>4. Called' = Called
  <2>1. CASE capability' = Settle(capability, {c}, "fulfilled")
    BY <2>1, <1>a, SettleCalls
  <2>2. CASE capability' = capability
    BY <2>2 DEF Called
  <2> QED
    BY <2>1, <2>2, <1>3
<1>5. CallsFirst' /\ Parentless' /\ FirstWalk' /\ (Once' <=> Once)
  BY <1>1, <1>4, <1>b, RestKept
<1>6. GatherClean'
  BY <1>1, <1>b DEF GatherClean
<1>7. \A m \in Modules : body[m].began # 0 <=> body'[m].began # 0
  BY <1>2
<1>8. ErrorsSpread'
  BY <1>5, <1>7, <1>b, SpreadKept
<1>9. ASSUME NEW m \in Modules, m \notin failed PROVE CountOK(m)'
  <2>1. CountOK(m) /\ pending[m] \in Nat
    BY <1>9, NoneIs DEF CountInv
  <2>2. Begins(m)' <=> Begins(m)
    <3>1. body[m].began \in Nat /\ body'[m].began \in Nat
      BY <1>2, NoneIs
    <3> QED
      BY <3>1, <1>7, <1>b DEF Begins
  <2>3. ASSUME ~Begins(m), NEW d \in Modules, NEW i \in 1..Len(asyncParents[d]),
               asyncParents[d][i] = m
        PROVE  (Owes(d, i)' => Owes(d, i)) /\ (Once' => (Owes(d, i) => Owes(d, i)'))
    <3>1. m \in Elements(asyncParents[d]) /\ body[m].began = 0
      BY <2>3, NoneIs DEF Elements, Begins
    <3>2. CASE d # c
      <4>1. body'[d] = body[d]
        BY <3>2, <1>2
      <4>2. ~\E g \in 1..Len(gather) : gather[g].m = d /\ gather[g].next <= i
        BY <1>1
      <4>3. ~\E g \in 1..Len(gather') : gather'[g].m = d /\ gather'[g].next <= i
        <5>1. CASE gather' = gather
          BY <5>1, <1>1
        <5>2. CASE gather' = <<[m |-> c, next |-> 1]>>
          <6>1. Len(gather') = 1 /\ gather'[1].m = c
            BY <5>2
          <6> QED
            BY <6>1, <3>2
        <5> QED
          BY <5>1, <5>2, <1>3
      <4>4. Owes(d, i)' <=> Owes(d, i)
        BY <4>1, <4>2, <4>3, <1>b DEF Owes, Telling, ToTell, Lost, Settled
      <4> QED
        BY <4>4
    <3>3. CASE d = c /\ c \notin failed
      <4>1. Owes(d, i)
        BY <3>3, <1>b DEF Owes, Telling, ToTell
      <4>2. gather' = <<[m |-> c, next |-> 1]>>
        BY <3>3, <1>3
      <4>3. Len(gather') = 1 /\ gather'[1].m = c /\ gather'[1].next = 1
        BY <4>2
      <4>4. 1 \in 1..Len(gather') /\ gather'[1].next <= i
        <5>1. Len(asyncParents[d]) \in Nat
          BY <1>a, Types
        <5> QED
          BY <5>1, <4>3
      <4>5. Owes(d, i)'
        BY <4>3, <4>4, <3>3 DEF Owes, Telling
      <4> QED
        BY <4>1, <4>5
    <3>4. CASE d = c /\ c \in failed
      <4>1. ~Once
        BY <3>1, <3>4, <1>9 DEF CountInv, ErrorsSpread
      <4>2. Len(gather') = 0
        BY <3>4, <1>1, <1>3
      <4>3. ~Owes(d, i)'
        BY <4>2, <3>4, <1>2, <1>b DEF Owes, Telling, ToTell, Lost, Settled
      <4> QED
        BY <4>1, <4>3, <1>5
    <3> QED
      BY <3>2, <3>3, <3>4
  <2> QED
    BY <2>1, <2>2, <2>3, <1>5, <1>b, CountOKKept
<1> QED
  BY <1>5, <1>6, <1>8, <1>9, <1>b DEF CountInv

\* The gathering from a module is over when it has told all its asyncParents.
LEMMA GatherReturnsCounts ==
    ASSUME OrderInv, CountInv, gatherReturns
    PROVE  CountInv'
<1>a. TypeOK /\ WalkOK /\ JobsOK
  BY OrderParts
<1>b. /\ gather' = Pop(gather) /\ gather # <<>> /\ tla' = tla /\ go' = go
      /\ instances' = instances /\ pending' = pending
      /\ asyncParents' = asyncParents /\ failed' = failed /\ capability' = capability
      /\ body' = body /\ exec' = exec
  BY DEF gatherReturns, graphVars, stateVars, walkVars, Gathering
<1>1. /\ go = <<>> /\ Len(gather) \in Nat \ {0} /\ GatherAt = gather[Len(gather)]
      /\ gather[Len(gather)].next > Len(asyncParents[gather[Len(gather)].m])
      /\ gather[Len(gather)].m \in Modules /\ gather[Len(gather)].next \in Nat
  BY <1>a, GatherIs DEF gatherReturns
<1>2. /\ Len(gather') = Len(gather) - 1
      /\ \A i \in 1..(Len(gather) - 1) : gather'[i] = gather[i]
  <2>1. gather \in Seq(Activation) /\ gather # <<>> /\ gather' = Pop(gather)
    BY <1>b, <1>a DEF TypeOK
  <2> QED
    BY ONLY <2>1, Popped
<1>3. Called' = Called
  BY <1>b DEF Called
<1>4. CallsFirst' /\ Parentless' /\ FirstWalk' /\ (Once' <=> Once)
  BY <1>1, <1>3, <1>b, RestKept
<1>5. GatherClean'
  BY <1>b DEF GatherClean, CountInv
<1>6. ErrorsSpread'
  BY <1>4, <1>b, SpreadKept
<1>7. ASSUME NEW m \in Modules, m \notin failed PROVE CountOK(m)'
  <2>1. CountOK(m) /\ pending[m] \in Nat /\ (Begins(m)' <=> Begins(m))
    BY <1>7, <1>b, NoneIs DEF CountInv, Begins
  <2>2. ASSUME NEW d \in Modules, NEW i \in 1..Len(asyncParents[d])
        PROVE  Owes(d, i)' <=> Owes(d, i)
    <3>1. Len(asyncParents[d]) \in Nat
      BY <1>a, Types
    <3>2. ASSUME NEW g \in 1..Len(gather), gather[g].m = d, gather[g].next <= i
          PROVE  g \in 1..Len(gather') /\ gather'[g] = gather[g]
      <4>1. g # Len(gather)
        BY <3>1, <3>2, <1>1
      <4> QED
        BY <4>1, <1>1, <1>2
    <3>3. ASSUME NEW g \in 1..Len(gather') PROVE g \in 1..Len(gather) /\ gather'[g] = gather[g]
      BY <1>1, <1>2
    <3>4. (\E g \in 1..Len(gather) : gather[g].m = d /\ gather[g].next <= i)
          <=> (\E g \in 1..Len(gather') : gather'[g].m = d /\ gather'[g].next <= i)
      BY <3>2, <3>3
    <3> QED
      BY <3>4, <1>b DEF Owes, Telling, ToTell, Lost, Settled
  <2> QED
    BY <2>1, <2>2, <1>4, <1>b, CountOKKept
<1> QED
  BY <1>4, <1>5, <1>6, <1>7, <1>b DEF CountInv

\* One turn of gatherAvailableAncestors: the entry it meets is one that its parent
\* was owed, and is the only one that is met.
LEMMA GatherParentCounts ==
    ASSUME OrderInv, CountInv, gatherParent
    PROVE  CountInv'
<1>a. TypeOK /\ WalkOK /\ RecordsOK /\ JobsOK
  BY OrderParts
<1>b. /\ tla' = tla /\ instances' = instances /\ go' = go
      /\ asyncParents' = asyncParents /\ failed' = failed /\ capability' = capability
      /\ body' = body
  BY DEF gatherParent, graphVars, walkVars
<1>0. Gathering /\ GatherAt.next <= Len(Parents)
  BY DEF gatherParent
<1>1. PICK d : d = GatherAt.m
  OBVIOUS
<1>2. PICK k : k = GatherAt.next
  OBVIOUS
<1>3. PICK p : p = Parents[GatherAt.next]
  OBVIOUS
<1>4. /\ go = <<>> /\ Len(gather) \in Nat \ {0} /\ Len(gather) \in 1..Len(gather)
      /\ gather[Len(gather)].m = d /\ gather[Len(gather)].next = k
      /\ d \in Modules /\ k \in 1..Len(asyncParents[d]) /\ asyncParents[d][k] = p /\ k \in Nat
      /\ asyncParents[d] \in Seq(Modules)
  BY <1>0, <1>1, <1>2, <1>3, <1>a, GatherIs
<1>5. p \in Modules
  BY <1>4, ElementOfSeq
<1>6. PICK t : t = Next1
  OBVIOUS
<1>7. /\ t \in Seq(Activation) /\ Len(t) = Len(gather) /\ t # <<>>
      /\ \A g \in 1..Len(gather) : t[g].m = gather[g].m
      /\ \A g \in 1..Len(gather) :
            t[g].next = IF g = Len(gather) THEN gather[g].next + 1 ELSE gather[g].next
  <2>1. PICK s : s = gather
    OBVIOUS
  <2>2. s \in Seq(Activation) /\ s # <<>> /\ t = [s EXCEPT ![Len(s)].next = @ + 1]
    BY <2>1, <1>0, <1>6, <1>a DEF TypeOK, Gathering, Next1
  <2>3. /\ t \in Seq(Activation) /\ Len(t) = Len(s) /\ t # <<>>
        /\ \A i \in 1..Len(s) : t[i].m = s[i].m
        /\ \A i \in 1..Len(s) : t[i].next = IF i = Len(s) THEN s[i].next + 1 ELSE s[i].next
    BY ONLY <2>2, Advanced
  <2> QED
    BY <2>1, <2>3
<1>d. JobList
  BY <1>a, JobsSplit
<1>e. \A x \in Modules : Len(asyncParents[x]) \in Nat
  BY <1>a, Types
<1>f. [m |-> p, next |-> 1] \in Activation
  BY <1>5 DEF Activation
<1>8. ~ToTell(d) /\ ~Lost(d)
  <2>1. gather[Len(gather)].m \in exec \ tla \/ body[gather[Len(gather)].m].at = "done"
    BY <1>4, <1>d DEF JobList
  <2>2. CASE d \in exec \ tla
    <3>1. body[d].at = "none" /\ d \notin failed
      <4>1. gather # <<>>
        BY <1>0 DEF Gathering
      <4> QED
        BY <4>1, <2>2, <1>4, <1>a DEF CountInv, GatherClean, JobsOK, RecordsOK
    <3> QED
      BY <3>1, <2>2 DEF ToTell, Lost
  <2>3. CASE body[d].at = "done"
    BY <2>3 DEF ToTell, Lost, Settled
  <2> QED
    BY <2>1, <2>2, <2>3, <1>4
<1>9. \A g \in 1..Len(gather) : gather[g].m = d => g = Len(gather)
  BY <1>4, <1>d DEF JobList
<1>10. \A i \in Nat : Owes(d, i) <=> k <= i
  BY <1>4, <1>8, <1>9 DEF Owes, Telling
<1>11. p \notin failed => ~Begins(p)
  <2> SUFFICES ASSUME p \notin failed, Begins(p) PROVE FALSE
    OBVIOUS
  <2>1. Unheard(p) = {}
    BY <1>5, <1>a DEF JobsOK
  <2>2. Telling(d, k)
    BY <1>4, <1>8, <1>10 DEF Owes
  <2>3. <<d, k>> \in Unheard(p)
    BY <2>2, <1>4, UnheardIs
  <2> QED
    BY <2>1, <2>3
<1>12. Called' = Called
  BY <1>b DEF Called
<1>13. CallsFirst' /\ Parentless' /\ FirstWalk' /\ (Once' <=> Once)
  BY <1>4, <1>12, <1>b, RestKept
<1>14. ErrorsSpread'
  BY <1>13, <1>b, SpreadKept
<1>15. p \notin exec \/ p \in failed
  BY <1>11 DEF Begins
<1>16. /\ p \in failed => gather' = t /\ pending' = pending /\ exec' = exec
       /\ p \notin failed =>
             /\ pending' = [pending EXCEPT ![p] = @ - 1]
             /\ exec' = IF Ready(pending'[p]) THEN exec \union {p} ELSE exec
             /\ gather' = IF Ready(pending'[p]) /\ p \notin tla
                          THEN Append(t, [m |-> p, next |-> 1]) ELSE t
  BY <1>3, <1>6, <1>15 DEF gatherParent
<1>17. \/ exec' = exec /\ gather' = t
       \/ exec' = exec \union {p} /\ gather' = t /\ p \in tla /\ p \notin failed
       \/ /\ exec' = exec \union {p} /\ p \notin tla /\ p \notin failed
          /\ gather' = Append(t, [m |-> p, next |-> 1])
  BY <1>16
<1>18. GatherClean'
  <2>1. exec \intersect failed = {}
    BY <1>0 DEF GatherClean, CountInv, Gathering
  <2> QED
    BY <2>1, <1>17, <1>b DEF GatherClean
<1>19. ASSUME NEW x \in Modules, NEW i \in 1..Len(asyncParents[x]), x # d \/ i # k
       PROVE  Owes(x, i)' <=> Owes(x, i)
  <2>0. i \in Nat
    BY <1>e
  <2>1. ASSUME x # p \/ exec' = exec
        PROVE  (\E g \in 1..Len(gather') : gather'[g].m = x /\ gather'[g].next <= i)
               <=> (\E g \in 1..Len(t) : t[g].m = x /\ t[g].next <= i)
    <3>1. CASE gather' = t
      BY <3>1
    <3>2. CASE exec' = exec \union {p} /\ gather' = Append(t, [m |-> p, next |-> 1]) /\ p \notin failed
      <4>1. PICK e \in Activation : e = [m |-> p, next |-> 1]
        BY <1>f
      <4>2. gather' = Append(t, e) /\ e.m = p
        BY <4>1, <3>2
      <4>3. /\ Len(gather') = Len(t) + 1 /\ Len(t) \in Nat
            /\ \A g \in 1..Len(t) : gather'[g] = t[g]
            /\ gather'[Len(t) + 1] = e
        BY ONLY <4>2, <1>7, e \in Activation, Appended
      <4>4. x # p
        BY <2>1, <3>2, <1>15
      <4>5. \A g \in 1..Len(gather') : g \in 1..Len(t) \/ g = Len(t) + 1
        BY <4>3
      <4>6. \A g \in 1..Len(t) : g \in 1..Len(gather')
        BY <4>3
      <4> QED
        BY <4>2, <4>3, <4>4, <4>5, <4>6
    <3> QED
      BY <3>1, <3>2, <1>17
  <2>2. ASSUME x # d
        PROVE  (\E g \in 1..Len(t) : t[g].m = x /\ t[g].next <= i)
               <=> (\E g \in 1..Len(gather) : gather[g].m = x /\ gather[g].next <= i)
    <3>1. \A g \in 1..Len(gather) : gather[g].m = x => g # Len(gather)
      BY <2>2, <1>4
    <3>2. \A g \in 1..Len(gather) : gather[g].m = x => t[g].m = x /\ t[g].next = gather[g].next
      BY <3>1, <1>7
    <3>3. \A g \in 1..Len(gather) : t[g].m = x => gather[g].m = x
      BY <1>7
    <3> QED
      BY <3>2, <3>3, <1>7
  <2>3. CASE x = p /\ exec' # exec
    <3>1. p \notin failed /\ p \notin exec /\ exec' = exec \union {p}
      BY <2>3, <1>15, <1>17
    <3>2. body[p].at = "none"
      <4>1. body[p].began = 0
        BY <3>1, <1>5, <1>11, NoneIs DEF Begins
      <4> QED
        BY <4>1, <1>5, NoneIs
    <3>3. Owes(x, i)
      BY <2>3, <3>1, <3>2 DEF Owes, Telling, ToTell
    <3>4. CASE p \in tla
      <4>1. ToTell(p)'
        BY <3>1, <3>2, <3>4, <1>b DEF ToTell
      <4> QED
        BY <4>1, <2>3, <3>3 DEF Owes, Telling
    <3>5. CASE p \notin tla
      <4>1. gather' = Append(t, [m |-> p, next |-> 1])
        BY <3>5, <2>3, <1>17
      <4>2. PICK e \in Activation : e = [m |-> p, next |-> 1]
        BY <1>f
      <4>3. gather' = Append(t, e) /\ e.m = p /\ e.next = 1
        BY <4>1, <4>2
      <4>4. /\ Len(gather') = Len(t) + 1 /\ Len(t) \in Nat /\ gather'[Len(t) + 1] = e
        BY ONLY <4>3, <1>7, e \in Activation, Appended
      <4>5. Len(t) + 1 \in 1..Len(gather') /\ gather'[Len(t) + 1].next <= i
        BY <4>3, <4>4, <2>0
      <4>6. Telling(x, i)'
        BY <4>3, <4>4, <4>5, <2>3 DEF Telling
      <4> QED
        BY <4>6, <3>3 DEF Owes
    <3> QED
      BY <3>4, <3>5
  <2>4. CASE x # p \/ exec' = exec
    <3>1. (ToTell(x)' <=> ToTell(x)) /\ (Lost(x)' <=> Lost(x))
      BY <2>4, <1>17, <1>b DEF ToTell, Lost, Settled
    <3>2. CASE x # d
      BY <3>1, <3>2, <2>1, <2>2, <2>4 DEF Owes, Telling
    <3>3. CASE x = d /\ i # k
      <4>1. Owes(x, i) <=> k <= i
        BY <3>3, <2>0, <1>10
      <4>2. \A g \in 1..Len(t) : t[g].m = d => g = Len(gather)
        BY <1>7, <1>9
      <4>3. t[Len(gather)].m = d /\ t[Len(gather)].next = k + 1 /\ Len(gather) \in 1..Len(t)
        BY <1>4, <1>7
      <4>4. (\E g \in 1..Len(t) : t[g].m = x /\ t[g].next <= i) <=> k + 1 <= i
        BY <4>2, <4>3, <3>3
      <4>5. Owes(x, i)' <=> k + 1 <= i
        BY <4>4, <3>1, <3>3, <2>1, <2>4, <1>8 DEF Owes, Telling
      <4> QED
        BY <4>1, <4>5, <3>3, <2>0, <1>4
    <3> QED
      BY <3>2, <3>3, <1>19
  <2> QED
    BY <2>3, <2>4
<1>20. ASSUME NEW m \in Modules, m \notin failed, m # p PROVE CountOK(m)'
  <2>1. CountOK(m) /\ pending[m] \in Nat
    BY <1>20, NoneIs DEF CountInv
  <2>2. pending'[m] = pending[m]
    BY <1>16, <1>20, <1>a DEF TypeOK
  <2>3. Begins(m)' <=> Begins(m)
    BY <1>17, <1>20, <1>b DEF Begins
  <2>4. ASSUME NEW x \in Modules, NEW i \in 1..Len(asyncParents[x]), asyncParents[x][i] = m
        PROVE  Owes(x, i)' <=> Owes(x, i)
    <3>1. x # d \/ i # k
      BY <2>4, <1>4, <1>20
    <3> QED
      BY <3>1, <1>19
  <2> QED
    BY <2>1, <2>2, <2>3, <2>4, <1>13, <1>b, CountOKKept
<1>21. ASSUME p \notin failed, ~Begins(p)' PROVE CountOK(p)'
  <2>1. PICK U : U = Owed(p)
    OBVIOUS
  <2>2. PICK V : V = Owed(p)'
    OBVIOUS
  <2>3. pending'[p] = pending[p] - 1 /\ pending[p] \in Nat
    BY <1>16, <1>21, <1>5, <1>a DEF TypeOK
  <2>4. IsFiniteSet(U) /\ Cardinality(U) <= pending[p] /\ (Once => Cardinality(U) = pending[p])
    BY <2>1, <1>5, <1>11, <1>21 DEF CountOK, CountInv
  <2>5. <<d, k>> \in U
    BY <2>1, <1>4, <1>10, OwedIs
  <2>6. ~Owes(d, k)'
    <3>1. p \notin exec'
      BY <1>21 DEF Begins
    <3>2. gather' = t /\ exec' = exec
      BY <3>1, <1>17
    <3>3. \A g \in 1..Len(t) : t[g].m = d => g = Len(gather)
      BY <1>7, <1>9
    <3>4. t[Len(gather)].next = k + 1
      BY <1>4, <1>7
    <3>5. ~\E g \in 1..Len(gather') : gather'[g].m = d /\ gather'[g].next <= k
      BY <3>2, <3>3, <3>4, <1>4
    <3>6. ~ToTell(d)' /\ ~Lost(d)'
      BY <3>2, <1>8, <1>b DEF ToTell, Lost, Settled
    <3> QED
      BY <3>5, <3>6 DEF Owes, Telling
  <2>7. V = U \ {<<d, k>>}
    <3>1. ASSUME NEW e, e \in V PROVE e \in U \ {<<d, k>>}
      <4>1. PICK x \in Modules : \E i \in 1..Len(asyncParents[x]) :
               e = <<x, i>> /\ asyncParents[x][i] = p /\ Owes(x, i)'
        BY <3>1, <2>2, <1>b, OwedIsThen
      <4>2. PICK i \in 1..Len(asyncParents[x]) :
               e = <<x, i>> /\ asyncParents[x][i] = p /\ Owes(x, i)'
        BY <4>1
      <4>3. x # d \/ i # k
        BY <4>2, <2>6
      <4>4. Owes(x, i)
        BY <4>2, <4>3, <1>19
      <4>5. e \in U
        BY <4>2, <4>4, <2>1, OwedIs
      <4> QED
        BY <4>2, <4>3, <4>5
    <3>2. ASSUME NEW e, e \in U, e # <<d, k>> PROVE e \in V
      <4>1. PICK x \in Modules : \E i \in 1..Len(asyncParents[x]) :
               e = <<x, i>> /\ asyncParents[x][i] = p /\ Owes(x, i)
        BY <3>2, <2>1, OwedIs
      <4>2. PICK i \in 1..Len(asyncParents[x]) :
               e = <<x, i>> /\ asyncParents[x][i] = p /\ Owes(x, i)
        BY <4>1
      <4>3. x # d \/ i # k
        BY <4>2, <3>2
      <4>4. Owes(x, i)'
        BY <4>2, <4>3, <1>19
      <4> QED
        BY <4>2, <4>4, <2>2, <1>b, OwedIsThen
    <3> QED
      BY <3>1, <3>2
  <2>8. IsFiniteSet(V) /\ Cardinality(V) = Cardinality(U) - 1
    BY <2>4, <2>5, <2>7, FS_RemoveElement
  <2>9. Cardinality(U) \in Nat
    BY <2>4, FS_CardinalityType
  <2>10. Cardinality(V) <= pending'[p] /\ (Once' => Cardinality(V) = pending'[p])
    BY <2>3, <2>4, <2>8, <2>9, <1>13
  <2> QED
    BY <2>2, <2>8, <2>10 DEF CountOK
<1>22. p \notin failed => CountOK(p)'
  BY <1>21 DEF CountOK
<1> QED
  BY <1>5, <1>13, <1>14, <1>18, <1>20, <1>22, <1>b DEF CountInv

\* A module of execList with top-level await begins, or one that has failed is
\* passed over.
LEMMA ExecAsyncCounts ==
    ASSUME OrderInv, CountInv, ExecAsync
    PROVE  CountInv'
<1>a. TypeOK /\ IndInv
  BY OrderParts
<1>b. /\ tla' = tla /\ instances' = instances /\ pending' = pending /\ go' = go
      /\ asyncParents' = asyncParents /\ failed' = failed
      /\ capability' = capability /\ gather' = gather /\ ~Gathering
  BY DEF ExecAsync, graphVars, walkVars
<1>1. PICK m \in First :
         /\ status[m] = "evaluated" \/ m \in tla
         /\ exec' = exec \ {m}
         /\ body' = IF status[m] = "evaluated" THEN body ELSE Ran(m, "running")
  BY DEF ExecAsync
<1>2. /\ go = <<>> /\ gather = <<>> /\ m \in exec /\ m \in Modules
      /\ body[m].began = 0 /\ body[m].at = "none"
      /\ status[m] = "evaluated" <=> m \in failed
  BY <1>b, <1>a, ExecIs
<1>3. /\ \A x \in Modules : x # m => body'[x] = body[x]
      /\ \/ m \in failed /\ body' = body
         \/ m \in tla /\ m \notin failed /\ body'[m].at = "running" /\ body'[m].began = 1
  <2>1. CASE status[m] = "evaluated"
    BY <2>1, <1>1, <1>2
  <2>2. CASE status[m] # "evaluated"
    <3>1. body' = Ran(m, "running")
      BY <2>2, <1>1
    <3> QED
      BY <3>1, <2>2, <1>1, <1>2, <1>a, RanIs
  <2> QED
    BY <2>1, <2>2
<1>4. Called' = Called
  BY <1>b DEF Called
<1>5. CallsFirst' /\ Parentless' /\ FirstWalk' /\ (Once' <=> Once)
  BY <1>2, <1>4, <1>b, RestKept
<1>6. GatherClean'
  BY <1>2, <1>b DEF GatherClean
<1>7. \A x \in Modules : body[x].began # 0 => body'[x].began # 0
  BY <1>2, <1>3
<1>8. ErrorsSpread'
  BY <1>5, <1>7, <1>b, SpreadKept
<1>9. ASSUME NEW x \in Modules, x \notin failed PROVE CountOK(x)'
  <2>1. CountOK(x) /\ pending[x] \in Nat
    BY <1>9, NoneIs DEF CountInv
  <2>2. Begins(x)' <=> Begins(x)
    BY <1>1, <1>2, <1>3, <1>9 DEF Begins
  <2>3. ASSUME NEW d \in Modules, NEW i \in 1..Len(asyncParents[d])
        PROVE  Owes(d, i)' <=> Owes(d, i)
    <3>1. (ToTell(d)' <=> ToTell(d)) /\ (Lost(d)' <=> Lost(d))
      BY <1>1, <1>2, <1>3, <1>b DEF ToTell, Lost, Settled
    <3> QED
      BY <3>1, <1>b DEF Owes, Telling
  <2> QED
    BY <2>1, <2>2, <2>3, <1>5, <1>b, CountOKKept
<1> QED
  BY <1>5, <1>6, <1>8, <1>9, <1>b DEF CountInv

\* A module of execList without top-level await runs: it told its parents when it
\* was put there.
LEMMA ExecCounts ==
    ASSUME OrderInv, CountInv, NEW outcome, Exec(outcome)
    PROVE  CountInv'
<1>a. TypeOK /\ IndInv
  BY OrderParts
<1>b. /\ tla' = tla /\ instances' = instances /\ pending' = pending /\ go' = go
      /\ asyncParents' = asyncParents /\ gather' = gather /\ ~Gathering
  BY DEF Exec, graphVars, walkVars
<1>1. PICK m \in First :
         /\ status[m] # "evaluated" /\ m \notin tla
         /\ exec' = exec \ {m}
         /\ body' = Ran(m, outcome)
         /\ \/ /\ outcome = "done"
               /\ status' = [status EXCEPT ![m] = "evaluated"]
               /\ capability' = Settle(capability, {m}, "fulfilled")
               /\ failed' = failed
            \/ outcome = "threw" /\ asyncModuleExecutionRejected(m)
  BY DEF Exec
<1>2. /\ go = <<>> /\ gather = <<>> /\ m \in exec /\ m \in Modules /\ m \in instances
      /\ body[m].began = 0 /\ body[m].at = "none" /\ m \notin failed
  BY <1>1, <1>b, <1>a, ExecIs
<1>3. /\ body'[m].at = outcome /\ body'[m].began = 1
      /\ \A x \in Modules : x # m => body'[x] = body[x]
  BY <1>1, <1>2, <1>a, RanIs
<1>4. CASE outcome = "threw" /\ asyncModuleExecutionRejected(m)
  <2>1. body[m].at # "done" /\ body'[m].at = "threw" /\ body'[m].began # 0
    BY <1>2, <1>3, <1>4
  <2> QED
    BY <2>1, <1>1, <1>2, <1>3, <1>4, <1>b, RejectCounts
<1>5. CASE /\ outcome = "done"
           /\ capability' = Settle(capability, {m}, "fulfilled")
           /\ failed' = failed
  <2>1. Called' = Called
    BY <1>5, <1>a, SettleCalls
  <2>2. CallsFirst' /\ Parentless' /\ FirstWalk' /\ (Once' <=> Once)
    BY <2>1, <1>2, <1>b, RestKept
  <2>3. GatherClean'
    BY <1>2, <1>b DEF GatherClean
  <2>4. \A x \in Modules : body[x].began # 0 => body'[x].began # 0
    BY <1>2, <1>3
  <2>5. ErrorsSpread'
    BY <2>2, <2>4, <1>5, <1>b, SpreadKept
  <2>6. ASSUME NEW x \in Modules, x \notin failed PROVE CountOK(x)'
    <3>1. CountOK(x) /\ pending[x] \in Nat
      BY <2>6, NoneIs DEF CountInv
    <3>2. Begins(x)' <=> Begins(x)
      BY <1>1, <1>2, <1>3 DEF Begins
    <3>3. ASSUME NEW d \in Modules, NEW i \in 1..Len(asyncParents[d])
          PROVE  Owes(d, i)' <=> Owes(d, i)
      <4>1. (ToTell(d)' <=> ToTell(d)) /\ (Lost(d)' <=> Lost(d))
        BY <1>1, <1>2, <1>3, <1>5, <1>b DEF ToTell, Lost, Settled
      <4> QED
        BY <4>1, <1>b DEF Owes, Telling
    <3> QED
      BY <3>1, <3>2, <3>3, <2>2, <1>b, CountOKKept
  <2> QED
    BY <2>2, <2>3, <2>5, <2>6, <1>5 DEF CountInv
<1> QED
  BY <1>1, <1>4, <1>5

-----------------------------------------------------------------------------
(* The count in a walk *)

\* Entering a module: nobody has it among its asyncParents yet.
LEMMA EnterCounts ==
    ASSUME OrderInv, CountInv, NEW c \in Modules, c \notin instances, NEW ix,
           gather = <<>>, exec = {}, enter(c, go, stack, ix),
           \/ go # <<>> /\ capability' = capability
           \/ /\ go = <<>> /\ capability[c] = "none"
              /\ capability' = [capability EXCEPT ![c] = "pending"],
           UNCHANGED <<graphVars, asyncEvaluation, asyncParents, failed, body, jobVars>>
    PROVE  CountInv'
<1>a. TypeOK /\ WalkOK /\ RecordsOK
  BY OrderParts
<1>b. /\ tla' = tla /\ asyncEvaluation' = asyncEvaluation /\ asyncParents' = asyncParents
      /\ failed' = failed /\ body' = body /\ gather' = gather /\ exec' = exec
  BY DEF graphVars, jobVars
<1>1. /\ instances' = instances \union {c} /\ pending' = [pending EXCEPT ![c] = 0]
      /\ go' = Append(go, [m |-> c, next |-> 1])
  BY DEF enter
<1>2. /\ Len(go') = Len(go) + 1 /\ Len(go) \in Nat
      /\ \A i \in 1..Len(go) : go'[i] = go[i]
      /\ go'[Len(go) + 1] = [m |-> c, next |-> 1]
  <2>1. go \in Seq(Activation)
    BY <1>a DEF TypeOK
  <2>2. [m |-> c, next |-> 1] \in Activation
    BY DEF Activation
  <2>3. PICK e \in Activation : e = [m |-> c, next |-> 1]
    BY <2>2
  <2>4. go' = Append(go, e)
    BY <1>1, <2>3
  <2> QED
    BY <2>1, <2>3, <2>4, Appended
<1>3. Walking' \subseteq Walking \union {c}
  <2>1. \A i \in 1..Len(go') : i \in 1..Len(go) \/ i = Len(go) + 1
    BY <1>2
  <2> QED
    BY <2>1, <1>2 DEF Walking
<1>4. \/ go # <<>> /\ Called' = Called /\ Called # {}
      \/ go = <<>> /\ Called' = Called \union {c} /\ c \notin Called
  <2>1. CASE go # <<>> /\ capability' = capability
    <3>1. Here \in instances
      BY <2>1, <1>a, HereIs
    <3> QED
      BY <3>1, <2>1 DEF Called, CountInv, CallsFirst
  <2>2. CASE go = <<>> /\ capability[c] = "none" /\ capability' = [capability EXCEPT ![c] = "pending"]
    BY <2>2, <1>a DEF Called, TypeOK
  <2> QED
    BY <2>1, <2>2
<1>5. Once' => Once
  BY <1>4 DEF Once
<1>6. CallsFirst'
  <2>1. IsFiniteSet(Called)
    BY DEF CountInv, CallsFirst
  <2>2. IsFiniteSet(Called \union {c})
    BY <2>1, FS_AddElement
  <2> QED
    BY <2>1, <2>2, <1>4 DEF CallsFirst
<1>7. GatherClean'
  BY <1>b DEF GatherClean
<1>8. Parentless'
  BY <1>1, <1>3, <1>b DEF Parentless, CountInv
<1>9. FirstWalk'
  <2> SUFFICES ASSUME Once' PROVE failed = {} /\ \A m \in Asynchronous : ~Settled(m)
    BY <1>b DEF FirstWalk, Asynchronous, Settled
  <2>1. CASE go # <<>>
    BY <2>1, <1>5 DEF FirstWalk, CountInv
  <2>2. CASE go = <<>>
    <3>1. Called = {}
      BY <2>2, <1>4 DEF Once
    <3>2. instances = {}
      BY <3>1 DEF CountInv, CallsFirst
    <3> QED
      BY <3>2, <1>a DEF TypeOK, RecordsOK, Asynchronous
  <2> QED
    BY <2>1, <2>2
<1>10. ErrorsSpread'
  BY <1>5, <1>b, SpreadKept
<1>11. ASSUME NEW m \in Modules, m \notin failed, m # c PROVE CountOK(m)'
  <2>1. CountOK(m) /\ pending[m] \in Nat /\ pending'[m] = pending[m] /\ (Begins(m)' <=> Begins(m))
    BY <1>1, <1>11, <1>a, <1>b, NoneIs DEF CountInv, Begins, TypeOK
  <2>2. \A d \in Modules : \A i \in 1..Len(asyncParents[d]) : Owes(d, i)' <=> Owes(d, i)
    BY <1>b DEF Owes, Telling, ToTell, Lost, Settled
  <2> QED
    BY <2>1, <2>2, <1>5, <1>b, CountOKKept
<1>12. CountOK(c)'
  <2>1. \A d \in Modules : \A i \in 1..Len(asyncParents[d]) : asyncParents[d][i] # c
    BY <1>a DEF RecordsOK, Elements
  <2>2. Owed(c)' = {}
    BY <2>1, <1>b, OwedIsThen
  <2>3. PICK V : V = Owed(c)'
    OBVIOUS
  <2>4. IsFiniteSet(V) /\ V = {} /\ Cardinality(V) = 0
    BY <2>2, <2>3, FS_EmptySet
  <2>5. pending'[c] = 0
    BY <1>1, <1>a DEF TypeOK
  <2> QED
    BY <2>3, <2>4, <2>5 DEF CountOK
<1> QED
  BY <1>6, <1>7, <1>8, <1>9, <1>10, <1>11, <1>12, <1>b DEF CountInv

\* CyclicModuleRecordEvaluate; of a module that was walked before, it is not the
\* first call.
LEMMA EvaluateCounts ==
    ASSUME OrderInv, CountInv, NEW c \in Modules, Evaluate(c)
    PROVE  CountInv'
<1>a. TypeOK /\ WalkOK
  BY OrderParts
<1>1. /\ Quiet /\ capability[c] = "none"
      /\ UNCHANGED <<graphVars, asyncEvaluation, asyncParents, failed, body, jobVars>>
  BY DEF Evaluate
<1>2. go = <<>> /\ stack = <<>> /\ gather = <<>> /\ exec = {}
  BY <1>1, <1>a, QuietMeans
<1>3. CASE /\ ~Instantiated(c)
           /\ capability' = [capability EXCEPT ![c] = "pending"]
           /\ enter(c, <<>>, <<>>, 0)
  <2>1. c \notin instances /\ enter(c, go, stack, 0)
    BY <1>2, <1>3 DEF Instantiated
  <2> QED
    BY <2>1, <1>1, <1>2, <1>3, EnterCounts
<1>4. CASE /\ Instantiated(c)
           /\ capability' = [capability EXCEPT ![c] = Answer(c)]
           /\ UNCHANGED <<walkVars, instances, pending>>
  <2>1. /\ c \in instances /\ go' = go /\ instances' = instances /\ pending' = pending
        /\ tla' = tla /\ asyncEvaluation' = asyncEvaluation /\ asyncParents' = asyncParents
        /\ failed' = failed /\ body' = body /\ gather' = gather /\ exec' = exec
    BY <1>1, <1>4 DEF Instantiated, graphVars, jobVars, walkVars
  <2>2. Called' = Called \union {c} /\ c \notin Called
    BY <1>1, <1>4, <1>a DEF Called, TypeOK, Answer
  <2>3. ~Once'
    <3>1. Called # {}
      BY <2>1 DEF CountInv, CallsFirst
    <3> QED
      BY <3>1, <2>2 DEF Once
  <2>4. CallsFirst'
    <3>1. IsFiniteSet(Called)
      BY DEF CountInv, CallsFirst
    <3>2. IsFiniteSet(Called \union {c})
      BY <3>1, FS_AddElement
    <3> QED
      BY <3>2, <2>2 DEF CallsFirst
  <2>5. GatherClean'
    BY <1>2, <2>1 DEF GatherClean
  <2>6. Parentless'
    BY <2>1 DEF Parentless, CountInv, Walking
  <2>7. FirstWalk' /\ ErrorsSpread'
    BY <2>3 DEF FirstWalk, ErrorsSpread
  <2>8. ASSUME NEW m \in Modules, m \notin failed PROVE CountOK(m)'
    <3>1. CountOK(m) /\ pending[m] \in Nat /\ pending'[m] = pending[m] /\ (Begins(m)' <=> Begins(m))
      BY <2>1, <2>8, NoneIs DEF CountInv, Begins
    <3>2. \A d \in Modules : \A i \in 1..Len(asyncParents[d]) : Owes(d, i)' <=> Owes(d, i)
      BY <2>1 DEF Owes, Telling, ToTell, Lost, Settled
    <3> QED
      BY <3>1, <3>2, <2>1, <2>3, CountOKKept
  <2> QED
    BY <2>1, <2>4, <2>5, <2>6, <2>7, <2>8 DEF CountInv
<1> QED
  BY <1>3, <1>4 DEF Evaluate

\* A request for a module that has no instance.
LEMMA RequireNewCounts ==
    ASSUME OrderInv, CountInv, RequireNew
    PROVE  CountInv'
<1>1. TypeOK /\ WalkOK /\ ToRequire /\ go # <<>>
  BY OrderParts DEF RequireNew, ToRequire
<1>2. PICK c : c = Required
  OBVIOUS
<1>3. c \in Modules /\ c \notin instances /\ enter(c, go, stack, index)
  BY <1>1, <1>2, RequiredIs DEF RequireNew, Instantiated
<1>4. gather = <<>> /\ exec = {}
  BY <1>1, HereIs
<1>5. PICK ix : ix = index
  OBVIOUS
<1>6. enter(c, go, stack, ix)
  BY <1>3, <1>5
<1>7. /\ capability' = capability
      /\ UNCHANGED <<graphVars, asyncEvaluation, asyncParents, failed, body, jobVars>>
  BY DEF RequireNew
<1> QED
  BY <1>1, <1>3, <1>4, <1>6, <1>7, EnterCounts

\* The end of innerModuleEvaluation of c: nobody waits for c yet.
LEMMA FinishCounts ==
    ASSUME OrderInv, CountInv, go # <<>>, NEW c, c = Here, NEW async, finish(c, async),
           \A m \in Modules : m # c => async[m] = asyncEvaluation[m] /\ body'[m] = body[m],
           async[c] # 0 => body'[c].at \in {"none", "running"},
           ~Begins(c)' => ~Begins(c), body[c].began # 0 => body'[c].began # 0
    PROVE  CountInv'
<1>a. TypeOK /\ WalkOK /\ RecordsOK
  BY OrderParts
<1>b. /\ asyncEvaluation' = async /\ go' = Pop(go)
      /\ capability' = IF Len(go) = 1 /\ async[c] = 0
                       THEN Settle(capability, {c}, "fulfilled") ELSE capability
      /\ instances' = instances /\ pending' = pending /\ asyncParents' = asyncParents
      /\ failed' = failed /\ tla' = tla /\ gather' = gather /\ exec' = exec
  BY DEF finish, graphVars, jobVars
<1>1. c \in Modules /\ gather = <<>> /\ exec = {} /\ c \in Walking /\ c \notin failed
  BY <1>a, HereIs
<1>2. Walking' = Walking \ {c}
  BY FinishPops
<1>3. Called' = Called
  <2>1. CASE capability' = Settle(capability, {c}, "fulfilled")
    BY <2>1, <1>a, SettleCalls
  <2>2. CASE capability' = capability
    BY <2>2 DEF Called
  <2> QED
    BY <2>1, <2>2, <1>b
<1>4. (Once' <=> Once) /\ CallsFirst'
  BY <1>3, <1>b DEF Once, CallsFirst, CountInv
<1>5. GatherClean'
  BY <1>1, <1>b DEF GatherClean
<1>6. Parentless' /\ asyncParents[c] = <<>>
  BY <1>1, <1>2, <1>b DEF Parentless, CountInv
<1>7. FirstWalk'
  <2> SUFFICES ASSUME Once
               PROVE  failed = {} /\ \A m \in Modules : async[m] # 0 => ~Settled(m)'
    BY <1>4, <1>b DEF FirstWalk, Asynchronous
  <2>1. failed = {} /\ \A x \in Asynchronous : ~Settled(x)
    BY DEF FirstWalk, CountInv
  <2>2. ASSUME NEW m \in Modules, async[m] # 0 PROVE ~Settled(m)'
    <3>1. CASE m = c
      BY <2>2, <3>1 DEF Settled
    <3>2. CASE m # c
      BY <2>1, <2>2, <3>2 DEF Settled, Asynchronous
    <3> QED
      BY <3>1, <3>2
  <2> QED
    BY <2>1, <2>2
<1>8. ErrorsSpread'
  <2>1. \A m \in Modules : body[m].began # 0 => body'[m].began # 0
    OBVIOUS
  <2> QED
    BY <2>1, <1>4, <1>b, SpreadKept
<1>9. ASSUME NEW m \in Modules, m \notin failed PROVE CountOK(m)'
  <2>1. CountOK(m) /\ pending[m] \in Nat
    BY <1>9, NoneIs DEF CountInv
  <2>2. ~Begins(m)' => ~Begins(m)
    BY <1>b DEF Begins
  <2>3. ASSUME NEW d \in Modules, NEW i \in 1..Len(asyncParents[d])
        PROVE  Owes(d, i)' <=> Owes(d, i)
    <3>1. Len(<<>>) = 0
      BY EmptySeq
    <3>2. d # c
      BY <3>1, <1>6
    <3>3. body'[d] = body[d]
      BY <3>2
    <3> QED
      BY <3>3, <1>b DEF Owes, Telling, ToTell, Lost, Settled
  <2> QED
    BY <2>1, <2>2, <2>3, <1>4, <1>b, CountOKKept
<1> QED
  BY <1>4, <1>5, <1>6, <1>7, <1>8, <1>9, <1>b DEF CountInv

\* A request for a module that has an instance: if that is asynchronous, one more
\* is pending, and one entry more is owed, for certain in the first walk.
LEMMA RequireCounts ==
    ASSUME OrderInv, CountInv, Require
    PROVE  CountInv'
<1>a. TypeOK /\ WalkOK /\ RecordsOK
  BY OrderParts
<1>b. /\ instances' = instances /\ tla' = tla /\ asyncEvaluation' = asyncEvaluation
      /\ failed' = failed /\ capability' = capability /\ body' = body
      /\ gather' = gather /\ exec' = exec
  BY DEF Require, graphVars, jobVars
<1>1. go # <<>>
  BY DEF Require, ToRequire
<1>2. PICK c : c = Here
  OBVIOUS
<1>3. PICK w : w = WaitsFor(Required)
  OBVIOUS
<1>4. c \in Modules /\ gather = <<>> /\ exec = {} /\ c \in instances /\ c \notin failed
  BY <1>1, <1>2, <1>a, HereIs
<1>5. Walking' = Walking
  <2>1. /\ Len(go') = Len(go)
        /\ \A i \in 1..Len(go) : go'[i].m = go[i].m
    <3>1. PICK t : t = [go EXCEPT ![Len(go)].next = @ + 1]
      OBVIOUS
    <3>2. PICK s : s = go
      OBVIOUS
    <3>3. s \in Seq(Activation) /\ s # <<>> /\ t = [s EXCEPT ![Len(s)].next = @ + 1]
      BY <3>1, <3>2, <1>1, <1>a DEF TypeOK
    <3>4. Len(t) = Len(s) /\ \A i \in 1..Len(s) : t[i].m = s[i].m
      BY <3>3, Advanced
    <3>5. go' = t
      BY <3>1 DEF Require
    <3> QED
      BY <3>2, <3>4, <3>5
  <2> QED
    BY <2>1 DEF Walking
<1>6. Called' = Called
  BY <1>b DEF Called
<1>7. (Once' <=> Once) /\ CallsFirst'
  BY <1>6, <1>b DEF Once, CallsFirst, CountInv
<1>8. GatherClean'
  BY <1>4, <1>b DEF GatherClean
<1>9. FirstWalk'
  BY <1>1, <1>7, <1>b DEF FirstWalk, Asynchronous, Settled, CountInv
<1>10. Once => failed = {}
  BY <1>1 DEF FirstWalk, CountInv
<1>11. ErrorsSpread'
  BY <1>7, <1>10, <1>b DEF ErrorsSpread
<1>12. \A d, i : Owes(d, i)' <=> Owes(d, i)
  BY <1>b DEF Owes, Telling, ToTell, Lost, Settled
<1>13. \A m : Begins(m)' <=> Begins(m)
  BY <1>b DEF Begins
<1>14. CASE pending' = pending /\ asyncParents' = asyncParents
  <2>1. Parentless'
    BY <1>5, <1>14, <1>b DEF Parentless, CountInv
  <2>2. ASSUME NEW m \in Modules, m \notin failed PROVE CountOK(m)'
    <3>1. CountOK(m) /\ pending[m] \in Nat
      BY <2>2, NoneIs DEF CountInv
    <3> QED
      BY <3>1, <1>7, <1>12, <1>13, <1>14, CountOKKept
  <2> QED
    BY <2>1, <2>2, <1>7, <1>8, <1>9, <1>11, <1>b DEF CountInv
<1>15. CASE /\ w \in Asynchronous
            /\ pending' = [pending EXCEPT ![c] = @ + 1]
            /\ asyncParents' = [asyncParents EXCEPT ![w] = Append(@, c)]
  <2>1. w \in Modules /\ w \in instances /\ w \notin Walking
    <3>1. w \in Modules /\ asyncEvaluation[w] # 0
      BY <1>15 DEF Asynchronous
    <3> QED
      BY <3>1, <1>a DEF RecordsOK, WalkOK, Walking
  <2>2. asyncParents \in [Modules -> Seq(Modules)] /\ asyncParents[w] \in Seq(Modules)
    BY <2>1, <1>a DEF TypeOK
  <2>3. PICK n : n = Len(asyncParents[w])
    OBVIOUS
  <2>4. PICK s : s = Append(asyncParents[w], c)
    OBVIOUS
  <2>5. n \in Nat /\ Len(s) = n + 1 /\ s[n + 1] = c /\ \A i \in 1..n : s[i] = asyncParents[w][i]
    BY <2>2, <2>3, <2>4, <1>4, Appended
  <2>6. asyncParents'[w] = s /\ \A d \in Modules : d # w => asyncParents'[d] = asyncParents[d]
    BY <2>1, <2>2, <2>4, <1>15
  <2>7. Parentless'
    BY <2>1, <2>6, <1>5, <1>b DEF Parentless, CountInv
  <2>8. ASSUME NEW m \in Modules, m # c PROVE Owed(m)' = Owed(m)
    <3>1. ASSUME NEW d \in Modules, NEW i
          PROVE  (i \in 1..Len(asyncParents'[d]) /\ asyncParents'[d][i] = m)
                 <=> (i \in 1..Len(asyncParents[d]) /\ asyncParents[d][i] = m)
      <4>1. CASE d # w
        BY <4>1, <2>6
      <4>2. CASE d = w
        <5>1. i \in 1..(n + 1) <=> i \in 1..n \/ i = n + 1
          BY <2>5
        <5> QED
          BY <5>1, <4>2, <2>3, <2>5, <2>6, <2>8
      <4> QED
        BY <4>1, <4>2
    <3>2. ASSUME NEW e PROVE e \in Owed(m)' <=> e \in Owed(m)
      BY <3>1, <1>12, OwedIs, OwedIsThen
    <3> QED
      BY <3>2
  <2>9. ASSUME NEW m \in Modules, m \notin failed, m # c PROVE CountOK(m)'
    <3>1. CountOK(m) /\ Owed(m)' = Owed(m)
      BY <2>8, <2>9 DEF CountInv
    <3>2. pending'[m] = pending[m]
      BY <2>9, <1>15, <1>a DEF TypeOK
    <3> QED
      BY <3>1, <3>2, <1>7, <1>13 DEF CountOK
  <2>10. ASSUME ~Begins(c) PROVE CountOK(c)'
    <3>1. PICK U : U = Owed(c)
      OBVIOUS
    <3>2. PICK V : V = Owed(c)'
      OBVIOUS
    <3>3. IsFiniteSet(U) /\ Cardinality(U) <= pending[c] /\ (Once => Cardinality(U) = pending[c])
      BY <3>1, <2>10, <1>4 DEF CountOK, CountInv
    <3>4. pending'[c] = pending[c] + 1 /\ pending[c] \in Nat
      BY <1>4, <1>15, <1>a DEF TypeOK
    <3>5. PICK e : e = <<w, n + 1>>
      OBVIOUS
    <3>6. e \notin U
      <4> SUFFICES ASSUME e \in U PROVE FALSE
        OBVIOUS
      <4>1. \E d \in Modules : \E i \in 1..Len(asyncParents[d]) : e = <<d, i>>
        BY <3>1, OwedIs
      <4>2. n + 1 \in 1..Len(asyncParents[w])
        BY <4>1, <3>5
      <4> QED
        BY <4>2, <2>3, <2>5
    <3>7. V \subseteq U \union {e}
      <4> SUFFICES ASSUME NEW f, f \in V PROVE f \in U \union {e}
        OBVIOUS
      <4>1. PICK d \in Modules : \E i \in 1..Len(asyncParents'[d]) :
               f = <<d, i>> /\ asyncParents'[d][i] = c /\ Owes(d, i)'
        BY <3>2, OwedIsThen
      <4>2. PICK i \in 1..Len(asyncParents'[d]) :
               f = <<d, i>> /\ asyncParents'[d][i] = c /\ Owes(d, i)'
        BY <4>1
      <4>3. Owes(d, i)
        BY <4>2, <1>12
      <4>4. CASE d # w
        <5>1. i \in 1..Len(asyncParents[d]) /\ asyncParents[d][i] = c
          BY <4>2, <4>4, <2>6
        <5> QED
          BY <5>1, <4>2, <4>3, <3>1, OwedIs
      <4>5. CASE d = w
        <5>1. i \in 1..n \/ i = n + 1
          BY <4>5, <2>5, <2>6
        <5>2. CASE i \in 1..n
          <6>1. i \in 1..Len(asyncParents[d]) /\ asyncParents[d][i] = c
            BY <5>2, <4>2, <4>5, <2>3, <2>5, <2>6
          <6> QED
            BY <6>1, <4>2, <4>3, <3>1, OwedIs
        <5>3. CASE i = n + 1
          BY <5>3, <4>2, <4>5, <3>5
        <5> QED
          BY <5>1, <5>2, <5>3
      <4> QED
        BY <4>4, <4>5
    <3>8. ASSUME Once PROVE U \union {e} \subseteq V
      <4>1. ASSUME NEW f, f \in U PROVE f \in V
        <5>1. PICK d \in Modules : \E i \in 1..Len(asyncParents[d]) :
                 f = <<d, i>> /\ asyncParents[d][i] = c /\ Owes(d, i)
          BY <4>1, <3>1, OwedIs
        <5>2. PICK i \in 1..Len(asyncParents[d]) :
                 f = <<d, i>> /\ asyncParents[d][i] = c /\ Owes(d, i)
          BY <5>1
        <5>3. i \in 1..Len(asyncParents'[d]) /\ asyncParents'[d][i] = c
          <6>1. CASE d # w
            BY <6>1, <5>2, <2>6
          <6>2. CASE d = w
            <7>1. i \in 1..n /\ i \in 1..(n + 1)
              BY <6>2, <5>2, <2>3, <2>5
            <7> QED
              BY <7>1, <6>2, <5>2, <2>5, <2>6
          <6> QED
            BY <6>1, <6>2
        <5>4. Owes(d, i)'
          BY <5>2, <1>12
        <5> QED
          BY <5>2, <5>3, <5>4, <3>2, OwedIsThen
      <4>2. e \in V
        <5>1. ~Settled(w) /\ w \notin failed
          BY <3>8, <1>1, <1>15 DEF FirstWalk, CountInv
        <5>2. body[w].at \in {"none", "running"}
          BY <5>1, <2>1, NoneIs DEF Settled
        <5>3. Owes(w, n + 1)
          BY <5>1, <5>2, <1>4 DEF Owes, Telling, ToTell
        <5>4. n + 1 \in 1..Len(asyncParents'[w]) /\ asyncParents'[w][n + 1] = c
          BY <2>5, <2>6
        <5>5. Owes(w, n + 1)'
          BY <5>3, <1>12
        <5> QED
          BY <5>4, <5>5, <2>1, <3>2, <3>5, OwedIsThen
      <4> QED
        BY <4>1, <4>2
    <3>9. IsFiniteSet(U \union {e}) /\ Cardinality(U \union {e}) = Cardinality(U) + 1
      BY <3>3, <3>6, FS_AddElement
    <3>10. IsFiniteSet(V) /\ Cardinality(V) <= Cardinality(U) + 1
      BY <3>7, <3>9, FS_Subset
    <3>11. Cardinality(U) \in Nat /\ Cardinality(V) \in Nat
      BY <3>3, <3>10, FS_CardinalityType
    <3>12. Once => Cardinality(V) = Cardinality(U) + 1
      BY <3>7, <3>8, <3>9
    <3>13. Cardinality(V) <= pending'[c] /\ (Once' => Cardinality(V) = pending'[c])
      BY <3>3, <3>4, <3>10, <3>11, <3>12, <1>7
    <3> QED
      BY <3>2, <3>10, <3>13 DEF CountOK
  <2>11. CountOK(c)'
    BY <2>10, <1>13 DEF CountOK
  <2> QED
    BY <2>7, <2>9, <2>11, <1>7, <1>8, <1>9, <1>11, <1>b DEF CountInv
<1>16. \/ /\ w \in Asynchronous
          /\ pending' = [pending EXCEPT ![c] = @ + 1]
          /\ asyncParents' = [asyncParents EXCEPT ![w] = Append(@, c)]
       \/ pending' = pending /\ asyncParents' = asyncParents
  BY <1>2, <1>3 DEF Require
<1> QED
  BY <1>14, <1>15, <1>16

\* A module with something pending or with top-level await is left to a job, or
\* its body begins.
LEMMA ExecuteAsyncCounts ==
    ASSUME OrderInv, CountInv, ExecuteAsync
    PROVE  CountInv'
<1>a. TypeOK /\ WalkOK /\ RecordsOK
  BY OrderParts
<1>1. go # <<>>
  BY DEF ExecuteAsync, Complete
<1>2. PICK c : c = Here
  OBVIOUS
<1>3. PICK async : async = [asyncEvaluation EXCEPT ![c] = counter + 1]
  OBVIOUS
<1>4. finish(c, async) /\ exec' = exec
  BY <1>2, <1>3 DEF ExecuteAsync, finish, jobVars
<1>5. c \in Modules /\ body[c].began = 0 /\ body[c].at = "none" /\ exec = {}
  BY <1>1, <1>2, <1>a, HereIs DEF RecordsOK
<1>6. \A m \in Modules : m # c => async[m] = asyncEvaluation[m]
  BY <1>3, <1>5, <1>a DEF TypeOK
<1>7. /\ body'[c].at \in {"none", "running"}
      /\ \A x \in Modules : x # c => body'[x] = body[x]
  <2>1. CASE pending[c] = 0
    <3>1. body' = Ran(c, "running")
      BY <2>1, <1>2 DEF ExecuteAsync
    <3> QED
      BY <3>1, <1>5, <1>a, RanIs
  <2>2. CASE pending[c] # 0
    BY <2>2, <1>2, <1>5 DEF ExecuteAsync
  <2> QED
    BY <2>1, <2>2
<1>8. ~Begins(c)
  BY <1>5 DEF Begins
<1> QED
  BY <1>1, <1>2, <1>4, <1>5, <1>6, <1>7, <1>8, FinishCounts

\* A body without await runs in the walk; if it throws, all that fail are in the
\* walk, and nobody waits for them.
LEMMA ExecuteCounts ==
    ASSUME OrderInv, CountInv, NEW outcome, Execute(outcome)
    PROVE  CountInv'
<1>a. TypeOK /\ WalkOK /\ RecordsOK /\ WalkExact
  BY OrderParts
<1>1. PICK c : c = Here
  OBVIOUS
<1>2. go # <<>> /\ body' = Ran(c, outcome)
  BY <1>1 DEF Execute, Complete
<1>3. /\ c \in Modules /\ c \in Walking /\ body[c].began = 0 /\ asyncEvaluation[c] = 0
      /\ gather = <<>> /\ exec = {}
  BY <1>1, <1>2, <1>a, HereIs
<1>4. ~Begins(c)
  BY <1>3 DEF Begins
<1>5. CASE outcome = "done" /\ finish(c, asyncEvaluation)
  <2>1. PICK async : async = asyncEvaluation
    OBVIOUS
  <2>2. finish(c, async) /\ async[c] = 0 /\ \A m \in Modules : m # c => async[m] = asyncEvaluation[m]
    BY <2>1, <1>3, <1>5
  <2>3. \A x \in Modules : x # c => body'[x] = body[x]
    BY <1>2, <1>3, <1>5, <1>a, RanIs
  <2> QED
    BY <2>2, <2>3, <1>1, <1>2, <1>3, <1>4, FinishCounts
<1>6. CASE /\ outcome = "threw"
           /\ failed' = failed \union Elements(stack)
           /\ capability' = Settle(capability, {go[1].m}, "rejected")
           /\ go' = <<>>
           /\ UNCHANGED <<graphVars, instances, pending, asyncParents, jobVars>>
  <2>1. /\ tla' = tla /\ instances' = instances /\ pending' = pending
        /\ asyncParents' = asyncParents /\ gather' = gather /\ exec' = exec
    BY <1>6 DEF graphVars, jobVars
  <2>2. /\ body'[c].began = 1 /\ \A x \in Modules : x # c => body'[x] = body[x]
    BY <1>2, <1>3, <1>6, <1>a, RanIs
  <2>3. Elements(stack) = Walking
    BY <1>a DEF Elements, Walking, WalkExact
  <2>4. \A d \in Modules : d \in Walking => asyncParents[d] = <<>>
    BY DEF CountInv, Parentless
  <2>5. Called' = Called
    BY <1>6, <1>a, SettleCalls
  <2>6. CallsFirst' /\ Parentless' /\ FirstWalk' /\ (Once' <=> Once)
    BY <2>1, <2>5, <1>6, RestKept
  <2>7. GatherClean'
    BY <2>1, <1>3 DEF GatherClean
  <2>8. Len(<<>>) = 0 /\ Elements(<<>>) = {}
    BY EmptySeq DEF Elements
  <2>9. ErrorsSpread'
    <3> SUFFICES ASSUME Once, NEW d \in failed', NEW m \in Elements(asyncParents[d])
                 PROVE  m \in failed' \/ body'[m].began # 0
      BY <2>1, <2>6 DEF ErrorsSpread, Elements
    <3>1. d \in Modules
      BY <2>3, <1>6, <1>a DEF TypeOK, WalkOK
    <3>2. d \in failed
      BY <3>1, <2>3, <2>4, <2>8, <1>6
    <3>3. m \in failed \/ body[m].began # 0
      BY <3>2 DEF ErrorsSpread, CountInv
    <3>4. m \in Modules
      BY <3>1, <1>a DEF RecordsOK, TypeOK
    <3> QED
      BY <3>3, <3>4, <2>2, <1>6
  <2>10. ASSUME NEW m \in Modules, m \notin failed' PROVE CountOK(m)'
    <3>1. m # c /\ CountOK(m) /\ pending[m] \in Nat
      BY <2>3, <2>10, <1>3, <1>6, NoneIs DEF CountInv
    <3>2. Begins(m)' <=> Begins(m)
      BY <3>1, <2>1, <2>2 DEF Begins
    <3>3. ASSUME NEW d \in Modules, NEW i \in 1..Len(asyncParents[d])
          PROVE  Owes(d, i)' <=> Owes(d, i)
      <4>1. d \notin Walking
        BY <2>4, <2>8
      <4>2. body'[d] = body[d] /\ (d \in failed' <=> d \in failed)
        BY <4>1, <2>2, <2>3, <1>3, <1>6
      <4> QED
        BY <4>2, <2>1 DEF Owes, Telling, ToTell, Lost, Settled
    <3> QED
      BY <3>1, <3>2, <3>3, <2>1, <2>6, CountOKKept
  <2> QED
    BY <2>6, <2>7, <2>9, <2>10 DEF CountInv
<1> QED
  BY <1>1, <1>5, <1>6 DEF Execute

-----------------------------------------------------------------------------
(* The theorem *)

\* At the start nothing is owed.
LEMMA InitCounts == Init => CountInv
<1> SUFFICES ASSUME Init PROVE CountInv
  OBVIOUS
<1>1. /\ instances = {} /\ failed = {} /\ gather = <<>> /\ go = <<>> /\ exec = {}
      /\ pending = [m \in Modules |-> 0] /\ capability = [m \in Modules |-> "none"]
      /\ asyncParents = [m \in Modules |-> <<>>]
  BY DEF Init
<1>2. Called = {}
  BY <1>1 DEF Called
<1>3. CallsFirst
  BY <1>1, <1>2, FS_EmptySet DEF CallsFirst
<1>4. GatherClean /\ Parentless /\ FirstWalk /\ ErrorsSpread
  BY <1>1 DEF GatherClean, Parentless, FirstWalk, ErrorsSpread
<1>5. ASSUME NEW m \in Modules PROVE CountOK(m)
  <2>1. Len(<<>>) = 0
    BY EmptySeq
  <2>2. Owed(m) = {}
    BY <2>1, <1>1, OwedIs
  <2>3. PICK V : V = Owed(m)
    OBVIOUS
  <2>4. IsFiniteSet(V) /\ Cardinality(V) = 0
    BY <2>2, <2>3, FS_EmptySet
  <2>5. pending[m] = 0
    BY <1>1
  <2> QED
    BY <2>3, <2>4, <2>5 DEF CountOK
<1> QED
  BY <1>3, <1>4, <1>5 DEF CountInv

\* Every step keeps the count.
LEMMA NextCounts ==
    ASSUME OrderInv, CountInv, [Next]_vars
    PROVE  CountInv'
<1>1. CASE \E c \in Modules : Evaluate(c)
  BY <1>1, EvaluateCounts
<1>2. CASE \E c \in Modules : BodySettles(c)
  BY <1>2, BodyEndsCounts, BodyThrowsCounts DEF BodySettles
<1>3. CASE RequireNew
  BY <1>3, RequireNewCounts
<1>4. CASE Require
  BY <1>4, RequireCounts
<1>5. CASE ExecuteAsync
  BY <1>5, ExecuteAsyncCounts
<1>6. CASE \E o \in Outcomes : Execute(o)
  BY <1>6, ExecuteCounts
<1>7. CASE gatherParent
  BY <1>7, GatherParentCounts
<1>8. CASE gatherReturns
  BY <1>8, GatherReturnsCounts
<1>9. CASE ExecAsync
  BY <1>9, ExecAsyncCounts
<1>10. CASE \E o \in Outcomes : Exec(o)
  BY <1>10, ExecCounts
<1>11. CASE UNCHANGED vars
  <2>1. /\ go' = go /\ instances' = instances /\ tla' = tla /\ pending' = pending
        /\ asyncEvaluation' = asyncEvaluation /\ asyncParents' = asyncParents /\ failed' = failed
        /\ capability' = capability /\ gather' = gather /\ exec' = exec /\ body' = body
    BY <1>11 DEF vars, graphVars, stateVars, walkVars, jobVars
  <2>2. /\ Called' = Called /\ Walking' = Walking /\ Asynchronous' = Asynchronous
        /\ \A m : Settled(m)' <=> Settled(m)
        /\ \A m : Begins(m)' <=> Begins(m)
        /\ \A d, i : Owes(d, i)' <=> Owes(d, i)
    BY <2>1 DEF Called, Walking, Asynchronous, Settled, Begins, Owes, Telling, ToTell, Lost
  <2>3. Once' <=> Once
    BY <2>2 DEF Once
  <2>4. CallsFirst' /\ GatherClean' /\ Parentless' /\ FirstWalk' /\ ErrorsSpread'
    BY <2>1, <2>2, <2>3
    DEF CountInv, CallsFirst, GatherClean, Parentless, FirstWalk, ErrorsSpread, Elements
  <2>5. ASSUME NEW m \in Modules, m \notin failed PROVE CountOK(m)'
    <3>1. CountOK(m) /\ pending[m] \in Nat
      BY <2>5, NoneIs DEF CountInv
    <3> QED
      BY <3>1, <2>1, <2>2, <2>3, CountOKKept
  <2> QED
    BY <2>1, <2>4, <2>5 DEF CountInv
<1> QED
  BY <1>1, <1>2, <1>3, <1>4, <1>5, <1>6, <1>7, <1>8, <1>9, <1>10, <1>11 DEF Next, WalkStep, JobStep

\* Between walks and jobs, what a module is owed is what is outstanding.
LEMMA OwedOutstanding ==
    ASSUME OrderInv, Quiet, NEW m
    PROVE  Owed(m) = Outstanding(m)
<1>1. gather = <<>> /\ exec = {} /\ Len(gather) = 0
  BY EmptySeq DEF Quiet
<1>2. ASSUME NEW d \in Modules, NEW i PROVE Owes(d, i) <=> ~Settled(d)
  BY <1>1, NoneIs DEF Owes, Telling, ToTell, Lost, Settled
<1>3. \A e \in Entries(m) : e[1] \in Modules
  BY DEF Entries
<1> QED
  BY <1>2, <1>3 DEF Owed, Outstanding

\* What the count promises between walks and jobs.
LEMMA CountExact ==
    ASSUME OrderInv, CountInv
    PROVE  PendingExact
<1> SUFFICES ASSUME Quiet, NEW m \in Modules, m \notin failed, body[m].began = 0
             PROVE  /\ pending[m] >= Cardinality(Outstanding(m))
                    /\ Evaluations = 1 => pending[m] = Cardinality(Outstanding(m))
  BY DEF PendingExact
<1>1. PICK V : V = Outstanding(m)
  OBVIOUS
<1>2. V = Owed(m)
  BY <1>1, OwedOutstanding
<1>3. ~Begins(m)
  BY DEF Quiet, Begins
<1>4. IsFiniteSet(V) /\ Cardinality(V) <= pending[m] /\ (Once => Cardinality(V) = pending[m])
  BY <1>2, <1>3 DEF CountOK, CountInv
<1>5. Cardinality(V) \in Nat /\ pending[m] \in Nat
  BY <1>4, FS_CardinalityType, NoneIs
<1>6. Evaluations = 1 => Once
  <2>1. PICK S : S = Called
    OBVIOUS
  <2>2. Evaluations = Cardinality(S) /\ IsFiniteSet(S)
    BY <2>1 DEF Evaluations, Called, CountInv, CallsFirst
  <2>3. Cardinality(S) = 1 => \E x : S = {x}
    BY <2>2, FS_Singleton
  <2> QED
    BY <2>1, <2>2, <2>3 DEF Once
<1> QED
  BY <1>1, <1>4, <1>5, <1>6

\* pendingAsyncDependancies between jobs, for every graph of modules: a module that
\* has yet to begin counts at least the entries of it in asyncParentModules of
\* modules that have not settled, and exactly those within a single evaluation,
\* whatever throws and in whichever order bodies settle.
THEOREM PendingAlwaysExact == Spec => []PendingExact
<1>1. Init => OrderInv /\ CountInv
  BY InitOrdered, InitCounts
<1>2. OrderInv /\ CountInv /\ [Next]_vars => (OrderInv /\ CountInv)'
  BY NextKeepsOrder, NextCounts
<1>3. OrderInv /\ CountInv => PendingExact
  BY CountExact
<1> QED
  BY <1>1, <1>2, <1>3, PTL DEF Spec
=============================================================================
