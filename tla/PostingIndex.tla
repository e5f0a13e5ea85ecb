---------------------------- MODULE PostingIndex ----------------------------
(***************************************************************************)
(* What a TGix promises to its caller: a set of items under every key, and *)
(* one call at a time that changes or reads the set of one key.  Nothing   *)
(* is said of item sets, caches, blobs, dictionaries or files: loading,    *)
(* evicting, flushing, closing and opening are invisible.                  *)
(***************************************************************************)
CONSTANTS Key, Item

VARIABLES
  index,   \* index[k]: the items under key k
  call,    \* the call that was made and has not had its effect, or NoCall
  answer   \* what the last GetItemV returned

Call == [name : {"add", "del", "clr", "get"}, key : Key, arg : SUBSET Item]
NoCall == [name |-> "none"]

TypeOK == /\ index \in [Key -> SUBSET Item]
          /\ call \in Call \cup {NoCall}
          /\ answer \in SUBSET Item

Init == /\ index = [k \in Key |-> {}]
        /\ call = NoCall
        /\ answer = {}

Request(c) == /\ call = NoCall
              /\ call' = c
              /\ UNCHANGED <<index, answer>>

\* The items under the key of call c once c has had its effect.
Result(c) == CASE c.name = "add" -> index[c.key] \cup c.arg
               [] c.name = "del" -> index[c.key] \ c.arg
               [] c.name = "clr" -> {}
               [] c.name = "get" -> index[c.key]

Effect == /\ call # NoCall
          /\ index' = [index EXCEPT ![call.key] = Result(call)]
          /\ answer' = IF call.name = "get" THEN index[call.key] ELSE answer
          /\ call' = NoCall

Next == Effect \/ \E c \in Call : Request(c)

Spec == Init /\ [][Next]_<<index, call, answer>>
=============================================================================
