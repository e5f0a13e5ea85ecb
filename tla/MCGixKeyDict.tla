---------------------------- MODULE MCGixKeyDict ----------------------------
(***************************************************************************)
(* Four keys and two pointers.  The view leaves out call: every action    *)
(* writes it and none reads it.                                            *)
(***************************************************************************)
EXTENDS GixKeyDict

CONSTANTS p1, p2

MCKey == 1..4
MCPtr == {p1, p2}

View == dictState
=============================================================================
