------------------------------ MODULE MapData ------------------------------
(***************************************************************************)
(* What a Map or Set promises its user: the list of records that the       *)
(* ECMAScript specification calls [[MapData]].  A record that was deleted  *)
(* keeps its place in the list with the key NoKey, so an iterator is an    *)
(* index into the list, and iteration is in insertion order whatever is    *)
(* added or deleted meanwhile.                                             *)
(***************************************************************************)
EXTENDS Naturals, Sequences

CONSTANTS Keys,      \* the keys a script may use
          Vals,      \* the values a script may store
          Iters,     \* iterator objects
          NegZero,   \* the key -0
          Zero,      \* the key +0, which -0 is turned into
          NoKey,     \* the key of a deleted record
          NoVal      \* "no value"

VARIABLES records,   \* the list, deleted records included
          pos,       \* per iterator: is it open, and where did it get to
          ret        \* what the last call returned

vars == <<records, pos, ret>>

\* A result that is not a record: the value of get, the boolean of remove.
Result(x) == [key |-> NoKey, val |-> x]

Canon(k) == IF k = NegZero THEN Zero ELSE k

\* The indices of the records that have not been deleted.
Present == {n \in DOMAIN records : records[n].key # NoKey}

\* The records that hold key k.
Holding(k) == {n \in Present : records[n].key = Canon(k)}

\* What an iterator has still to return.
Ahead(i) == {n \in Present : n > pos[i].at}

Init ==
    /\ records = <<>>
    /\ pos = [i \in Iters |-> [open |-> FALSE, at |-> 0]]
    /\ ret = Result(NoVal)

Add(k, v) == records' = Append(records, [key |-> Canon(k), val |-> v])

Set(k, v) ==
    /\ \/ \E n \in Holding(k) : records' = [records EXCEPT ![n].val = v]
       \/ Holding(k) = {} /\ Add(k, v)
    /\ ret' = Result(NoVal)
    /\ UNCHANGED pos

GetOrInsert(k, v) ==
    /\ \/ \E n \in Holding(k) : ret' = Result(records[n].val) /\ UNCHANGED records
       \/ Holding(k) = {} /\ Add(k, v) /\ ret' = Result(v)
    /\ UNCHANGED pos

Delete(k) ==
    /\ \/ \E n \in Holding(k) :
             /\ records' = [records EXCEPT ![n] = [key |-> NoKey, val |-> NoVal]]
             /\ ret' = Result(TRUE)
       \/ Holding(k) = {} /\ ret' = Result(FALSE) /\ UNCHANGED records
    /\ UNCHANGED pos

Get(k) ==
    /\ \/ \E n \in Holding(k) : ret' = Result(records[n].val)
       \/ Holding(k) = {} /\ ret' = Result(NoVal)
    /\ UNCHANGED <<records, pos>>

Clear ==
    /\ records' = [n \in DOMAIN records |-> [key |-> NoKey, val |-> NoVal]]
    /\ ret' = Result(NoVal)
    /\ UNCHANGED pos

NewIterator(i) ==
    /\ ~pos[i].open
    /\ pos' = [pos EXCEPT ![i] = [open |-> TRUE, at |-> 0]]
    /\ ret' = Result(NoVal)
    /\ UNCHANGED records

\* The next record is the first one ahead; an iterator with nothing ahead is
\* finished for good.
IterNext(i) ==
    /\ pos[i].open
    /\ \/ \E n \in Ahead(i) :
             /\ \A m \in Ahead(i) : n <= m
             /\ pos' = [pos EXCEPT ![i].at = n]
             /\ ret' = records[n]
       \/ /\ Ahead(i) = {}
          /\ pos' = [pos EXCEPT ![i] = [open |-> FALSE, at |-> 0]]
          /\ ret' = Result(NoVal)
    /\ UNCHANGED records

Next ==
    \/ \E k \in Keys, v \in Vals : Set(k, v) \/ GetOrInsert(k, v)
    \/ \E k \in Keys : Delete(k) \/ Get(k)
    \/ Clear
    \/ \E i \in Iters : NewIterator(i) \/ IterNext(i)

Spec == Init /\ [][Next]_vars
=============================================================================
