----------------------------- MODULE PostingList -----------------------------
(***************************************************************************)
(* What one item set promises: a frequency for every item.  Work buffers,  *)
(* child vectors and markers are not seen.  A summing item set adds        *)
(* frequencies, a partial delete being an addition of a negative one;      *)
(* otherwise an item is there or not.  A frequency that deletes have       *)
(* brought below zero (the deletes of something never added) is forgotten  *)
(* at some later time, and a reader never sees it.                         *)
(***************************************************************************)
EXTENDS Integers

CONSTANTS Id,      \* items (record ids), ordered
          Fq,      \* frequencies that may be added
          Summing  \* whether frequencies are summed

VARIABLES count,  \* the frequency of each item
          call    \* what the last step was asked to do

vars == <<count, call>>

Add(i, fq) == [op |-> "add", id |-> i, fq |-> fq]
Del(D) == [op |-> "del", ids |-> D]
None == [op |-> "none"]

Init == count = [i \in Id |-> 0] /\ call = None

\* Debts may be forgotten alone or within any other step.
Forgiven(F) == [i \in Id |-> IF i \in F THEN 0 ELSE count[i]]
Debts == SUBSET {i \in Id : count[i] < 0}

AddItem(i, fq) ==
  /\ call' = Add(i, fq)
  /\ \E F \in Debts : count' = [Forgiven(F) EXCEPT ![i] = IF Summing THEN @ + fq ELSE 1]

DelItemV(D) ==
  /\ call' = Del(D)
  /\ \E F \in Debts : count' = [i \in Id |-> IF i \in D THEN 0 ELSE Forgiven(F)[i]]

\* Reading, storing, loading, packing.
Keep == call' = None /\ \E F \in Debts : count' = Forgiven(F)

Next == \/ \E i \in Id, fq \in Fq : AddItem(i, fq)
        \/ \E D \in SUBSET Id : DelItemV(D)
        \/ Keep

Spec == Init /\ [][Next]_vars
=============================================================================
