-------------------------------- MODULE MCGix --------------------------------
(* The index over a few keys and items; one more pointer than keys lets item *)
(* sets move, and pointers be used again by another key.  Keys and pointers  *)
(* are interchangeable everywhere, also in PostingIndex.                     *)
EXTENDS Gix, TLC

Symmetry == Permutations(Key) \cup Permutations(BlobPt)
=============================================================================
