------------------------------- MODULE KeyMap -------------------------------
(***************************************************************************)
(* What a key dictionary promises: a partial map from keys to blob         *)
(* pointers.  Which of its representations it is in, and the change from   *)
(* one to the other, are not seen.                                         *)
(***************************************************************************)
CONSTANTS Key,   \* keys
          Ptr,   \* pointers
          NoPtr  \* under a key that is not there

VARIABLES map,   \* the pointer of each key
          call   \* what the last step was asked to do

vars == <<map, call>>

Add(k, p) == [op |-> "add", key |-> k, pt |-> p]
Del(k) == [op |-> "del", key |-> k]
Clear == [op |-> "clr"]
None == [op |-> "none"]

Init == map = [k \in Key |-> NoPtr] /\ call = None

AddDat(k, p) == map' = [map EXCEPT ![k] = p] /\ call' = Add(k, p)

DelKey(k) == /\ map[k] # NoPtr
             /\ map' = [map EXCEPT ![k] = NoPtr]
             /\ call' = Del(k)

Clr == map' = [k \in Key |-> NoPtr] /\ call' = Clear

Keep == UNCHANGED map /\ call' = None

Next == \/ \E k \in Key, p \in Ptr : AddDat(k, p)
        \/ \E k \in Key : DelKey(k)
        \/ Clr
        \/ Keep

Spec == Init /\ [][Next]_vars
=============================================================================
