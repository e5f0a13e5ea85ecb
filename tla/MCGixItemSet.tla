---------------------------- MODULE MCGixItemSet ----------------------------
(***************************************************************************)
(* Item sets of a few record ids, split at one or two items, with each of   *)
(* the two handlers: what the configuration describes is the default one,  *)
(* which keeps items or drops them; Summed is the handler of the index,    *)
(* with fewer ids and children of one item.  The handler is chosen once,   *)
(* in the initial state.                                                   *)
(***************************************************************************)
EXTENDS GixItemSet

CONSTANT SumId   \* the ids of the summing instance

VARIABLE sums    \* which instance this is

\* Where frequencies are summed, one may be taken away as well as added.
Summed == INSTANCE GixItemSetProofs WITH
         Id <- SumId, Fq <- {1, -1}, Summing <- TRUE, SplitLen <- 1, SplitLenMin <- 1,
         SplitLenMax <- 2, FirstChildBeUnfilled <- FALSE, MaxFq <- 2

ASSUME SumAssumption ==
  SumId \subseteq Nat \ {0} /\ IsFiniteSet(SumId) /\ NoVec \notin Seq(Summed!Item)

\* With SplitLenMin = 0 a merge may keep a child that deletions have emptied.
ASSUME LeastLength == SplitLenMin # 0

MCInit == sums \in BOOLEAN /\ IF sums THEN Summed!Init ELSE Init
MCNext == \/ ~sums /\ Next
          \/ sums /\ Summed!Next
MCSpec == MCInit /\ [][MCNext /\ UNCHANGED sums]_<<vars, sums>>

\* The properties of GixItemSet, in either instance.
ReadsAreExact == IF sums THEN Summed!ReadsExact ELSE ReadsExact
ChildrenAreSound == IF sums THEN Summed!ChildrenSound ELSE ChildrenSound
StorageIsSound == IF sums THEN Summed!StorageSound ELSE StorageSound
ImplementsAPostingList ==
  /\ IF sums THEN Summed!Abs!Init ELSE Abs!Init
  /\ [][IF sums THEN [Summed!Abs!Next]_(Summed!Abs!vars) ELSE [Abs!Next]_(Abs!vars)]_vars

\* Every step writes call and none reads it: what the actions do, and the steps
\* that the properties see, are the same for all its values.
View == <<set, disk, sums>>
=============================================================================
