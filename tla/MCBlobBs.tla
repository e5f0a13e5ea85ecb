------------------------------ MODULE MCBlobBs ------------------------------
(* The blob base on two size classes, two segments of at most two blocks each. *)
EXTENDS BlobBs

MCBlockLenV == [c \in Class |-> c]
CONSTANTS small, large
MCDataLen == [d \in Data |-> IF d = small THEN 1 ELSE 2]
=============================================================================
