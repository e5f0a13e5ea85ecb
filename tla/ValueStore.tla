------------------------------- MODULE ValueStore -------------------------------
(***************************************************************************)
(* What a storage of values by id promises: ids count up, a value stays    *)
(* under its id until it is overwritten, values are forgotten from the     *)
(* front, and closing and opening changes nothing.  WndBlockCache and      *)
(* InMemStorage implement it; RecordStore is written over it.              *)
(***************************************************************************)
EXTENDS Naturals, Sequences

CONSTANT Value

VARIABLES
  first,  \* the id of the oldest value
  vals    \* the values, oldest first

vars == <<first, vals>>

Init == first = 0 /\ vals = <<>>

AddVal(v) == vals' = Append(vals, v) /\ UNCHANGED first

SetVal(id, v) ==
  /\ id \in first..first + Len(vals) - 1
  /\ vals' = [vals EXCEPT ![id - first + 1] = v]
  /\ UNCHANGED first

DelVals(n) ==
  /\ n <= Len(vals)
  /\ first' = first + n
  /\ vals' = SubSeq(vals, n + 1, Len(vals))

Next ==
  \/ \E v \in Value : AddVal(v)
  \/ \E id \in first..first + Len(vals) - 1, v \in Value : SetVal(id, v)
  \/ \E n \in 1..Len(vals) : DelVals(n)

Spec == Init /\ [][Next]_vars
================================================================================
