------------------------------ MODULE RunProofs ------------------------------
(***************************************************************************)
(* What the proofs say of two of the model-checked instances, each of      *)
(* which is one of several instances of its component, chosen in the       *)
(* initial state: item sets with the handler of the configuration or with  *)
(* frequencies that are summed (MCGixItemSet), and joins in the three      *)
(* pairs of forms (MCJoins).                                               *)
(***************************************************************************)
EXTENDS MCGixItemSet, GixItemSetProofs, MCJoins

(***************************************************************************)
(* Item sets.                                                              *)
(***************************************************************************)

\* What the invariant of item sets comes to in either instance.
RunInv == sums \in BOOLEAN /\ IF sums THEN Summed!WInv ELSE WInv

LEMMA SumFits ==
  /\ SumId \subseteq Nat \ {0} /\ IsFiniteSet(SumId) /\ {1, -1} \subseteq Int \ {0}
  /\ 1 \in Nat \ {0} /\ 1 \in Nat /\ 2 \in Nat /\ 1 <= 1 /\ 1 <= 2 /\ 1 # 0
  /\ TRUE \in BOOLEAN /\ (~TRUE => {1, -1} = {1})
  /\ NoVec \notin Seq(Summed!Item) /\ Summed!IsFiniteSet(SumId)
  BY SumAssumption DEF IsFiniteSet, Summed!IsFiniteSet

LEMMA RunInit == MCInit => RunInv
  <1>1. Init => WInv
    BY WorthInit
  <1>2. Summed!Init => Summed!WInv
    BY Summed!WorthInit, SumFits
  <1> QED BY <1>1, <1>2 DEF MCInit, RunInv

LEMMA EachNext ==
  /\ ~sums /\ WInv /\ [Next]_vars => WInv' /\ [Abs!Next]_(Abs!vars)
  /\ sums /\ Summed!WInv /\ [Summed!Next]_(Summed!vars)
       => Summed!WInv' /\ [Summed!Abs!Next]_(Summed!Abs!vars)
  <1>1. WInv /\ [Next]_vars => WInv' /\ [Abs!Next]_(Abs!vars)
    BY WorthNext, LeastLength
  <1>2. Summed!WInv /\ [Summed!Next]_(Summed!vars)
          => Summed!WInv' /\ [Summed!Abs!Next]_(Summed!Abs!vars)
    BY Summed!WorthNext, SumFits
  <1> QED BY <1>1, <1>2

LEMMA RunNext ==
  ASSUME RunInv, [MCNext /\ UNCHANGED sums]_<<vars, sums>>
  PROVE  /\ RunInv'
         /\ sums' = sums
         /\ IF sums THEN [Summed!Abs!Next]_(Summed!Abs!vars) ELSE [Abs!Next]_(Abs!vars)
  <1>1. sums' = sums /\ sums \in BOOLEAN
    BY DEF RunInv
  <1>2. CASE sums
    <2>1. Summed!WInv
      BY <1>2 DEF RunInv
    <2>2. [Summed!Next]_(Summed!vars)
      BY <1>2 DEF MCNext, vars, Summed!vars
    <2>3. Summed!WInv' /\ [Summed!Abs!Next]_(Summed!Abs!vars)
      BY <1>2, <2>1, <2>2, EachNext
    <2> QED BY <1>1, <1>2, <2>3 DEF RunInv
  <1>3. CASE ~sums
    <2>1. WInv
      BY <1>3 DEF RunInv
    <2>2. [Next]_vars
      BY <1>3 DEF MCNext, vars
    <2>3. WInv' /\ [Abs!Next]_(Abs!vars)
      BY <1>3, <2>1, <2>2, EachNext
    <2> QED BY <1>1, <1>3, <2>3 DEF RunInv
  <1> QED BY <1>1, <1>2, <1>3

THEOREM RunInvariant == MCSpec => []RunInv
  BY RunInit, RunNext, PTL DEF MCSpec

\* What the invariant of either instance comes to.
LEMMA RunIs == RunInv => ReadsAreExact /\ ChildrenAreSound /\ StorageIsSound
  <1>1. WInv => ReadsExact /\ ChildrenSound /\ StorageSound
    BY ReadsAre, SoundIs, LeastLength DEF WInv
  <1>2. Summed!WInv => Summed!ReadsExact /\ Summed!ChildrenSound /\ Summed!StorageSound
    <2>1. Summed!WInv => Summed!ReadsExact
      BY Summed!ReadsAre, SumFits
    <2>2. Summed!WInv => Summed!IInv
      BY DEF Summed!WInv
    <2>3. Summed!IInv => Summed!ChildrenSound /\ Summed!StorageSound
      BY Summed!SoundIs, SumFits
    <2> QED BY <2>1, <2>2, <2>3
  <1> QED BY <1>1, <1>2 DEF RunInv, ReadsAreExact, ChildrenAreSound, StorageIsSound

\* Whatever is read of an item set, by copying it or child by child, is what
\* was put into it: nothing is lost, doubled or out of order (GetItemV).
THEOREM RunReadsExact == MCSpec => []ReadsAreExact
  BY RunInvariant, RunIs, PTL

\* The children described and the children loaded agree (LoadChildVector).
THEOREM RunChildrenSound == MCSpec => []ChildrenAreSound
  BY RunInvariant, RunIs, PTL

\* Every child that is not in memory is whole on disk, in a blob of its own
\* (PushChild, DelChild).
THEOREM RunStorageSound == MCSpec => []StorageIsSound
  BY RunInvariant, RunIs, PTL

\* In either instance an item set is a posting list: every call does to the
\* items what the same call does to a plain list of them.
THEOREM RunIsAPostingList == MCSpec => ImplementsAPostingList
  <1>1. MCInit => IF sums THEN Summed!Abs!Init ELSE Abs!Init
    <2>1. Init => Abs!Init
      BY WorthInit
    <2>2. Summed!Init => Summed!Abs!Init
      BY Summed!WorthInit, SumFits
    <2> QED BY <2>1, <2>2 DEF MCInit
  <1>2. RunInv /\ [MCNext /\ UNCHANGED sums]_<<vars, sums>>
          => [IF sums THEN [Summed!Abs!Next]_(Summed!Abs!vars) ELSE [Abs!Next]_(Abs!vars)]_vars
    BY RunNext
  <1> QED BY <1>1, <1>2, RunInvariant, PTL DEF MCSpec, ImplementsAPostingList

(***************************************************************************)
(* Joins.                                                                  *)
(***************************************************************************)
FormsInv ==
  \/ forms = "index and field" /\ Mixed!IInv
  \/ forms = "fields" /\ Fields!IInv
  \/ forms = "lists" /\ Lists!IInv

LEMMA MixedFits ==
  /\ Form \in [Mixed!Side -> {"index", "field"}] /\ HasFq \in [Mixed!Side -> BOOLEAN]
  /\ Fqs \subseteq 1..MaxJoinFq /\ DelFqs \subseteq (1..MaxJoinFq) \cup {All}
  /\ Again \in BOOLEAN /\ Unjoined \in BOOLEAN /\ MaxRecs \in Nat /\ MaxJoinFq \in Nat
  BY ConstantsOK DEF Side, Mixed!Side

LEMMA FieldsFit ==
  /\ FieldField \in [Fields!Side -> {"index", "field"}]
  /\ [s \in Side |-> TRUE] \in [Fields!Side -> BOOLEAN]
  /\ Fqs \subseteq 1..MaxJoinFq /\ {1, All} \subseteq (1..MaxJoinFq) \cup {All}
  /\ TRUE \in BOOLEAN /\ Unjoined \in BOOLEAN /\ MaxRecs \in Nat /\ MaxJoinFq \in Nat
  BY ConstantsOK, FormsAssumption DEF Side, Fields!Side, FieldField

LEMMA ListsFit ==
  /\ IndexIndex \in [Lists!Side -> {"index", "field"}]
  /\ [s \in Side |-> FALSE] \in [Lists!Side -> BOOLEAN]
  /\ Fqs \subseteq 1..3 /\ {1, All} \subseteq (1..3) \cup {All}
  /\ TRUE \in BOOLEAN /\ Unjoined \in BOOLEAN /\ 2 \in Nat /\ 3 \in Nat
  BY ConstantsOK, FormsAssumption DEF Side, Lists!Side, IndexIndex

LEMMA FormsInit ==
  ASSUME MCJoinsInit
  PROVE  /\ FormsInv
         /\ CASE forms = "index and field" -> Mixed!AsLinks!Init
              [] forms = "fields" -> Fields!AsLinks!Init
              [] forms = "lists" -> Lists!AsLinks!Init
  <1>1. Mixed!JoinsInit => Mixed!IInv /\ Mixed!AsLinks!Init
    BY Mixed!FirstIsLinks, MixedFits
  <1>2. Fields!JoinsInit => Fields!IInv /\ Fields!AsLinks!Init
    BY Fields!FirstIsLinks, FieldsFit
  <1>3. Lists!JoinsInit => Lists!IInv /\ Lists!AsLinks!Init
    BY Lists!FirstIsLinks, ListsFit
  <1> QED BY <1>1, <1>2, <1>3 DEF MCJoinsInit, FormsInv

LEMMA FormsNext ==
  ASSUME FormsInv, [MCJoinsNext]_<<joinsVars, forms>>
  PROVE  /\ FormsInv'
         /\ CASE forms = "index and field" -> [Mixed!AsLinks!Next]_(Mixed!AsLinks!vars)
              [] forms = "fields" -> [Fields!AsLinks!Next]_(Fields!AsLinks!vars)
              [] forms = "lists" -> [Lists!AsLinks!Next]_(Lists!AsLinks!vars)
  <1>1. forms' = forms
    BY DEF MCJoinsNext
  <1>2. CASE forms = "index and field"
    <2>1. Mixed!IInv /\ [Mixed!JoinsNext]_(Mixed!joinsVars)
      BY <1>2 DEF FormsInv, MCJoinsNext, joinsVars, Mixed!joinsVars
    <2>2. Mixed!IInv' /\ [Mixed!AsLinks!Next]_(Mixed!AsLinks!vars)
      BY <2>1, Mixed!StepIsLinks, MixedFits, FormsAssumption
    <2> QED BY <1>1, <1>2, <2>2 DEF FormsInv
  <1>3. CASE forms = "fields"
    <2>1. Fields!IInv /\ [Fields!JoinsNext]_(Fields!joinsVars)
      BY <1>3 DEF FormsInv, MCJoinsNext, joinsVars, Fields!joinsVars
    <2>2. Fields!IInv' /\ [Fields!AsLinks!Next]_(Fields!AsLinks!vars)
      BY <2>1, Fields!StepIsLinks, FieldsFit, FormsAssumption
    <2> QED BY <1>1, <1>3, <2>2 DEF FormsInv
  <1>4. CASE forms = "lists"
    <2>1. Lists!IInv /\ [Lists!JoinsNext]_(Lists!joinsVars)
      BY <1>4 DEF FormsInv, MCJoinsNext, joinsVars, Lists!joinsVars
    <2>2. Lists!IInv' /\ [Lists!AsLinks!Next]_(Lists!AsLinks!vars)
      BY <2>1, Lists!StepIsLinks, ListsFit, FormsAssumption
    <2> QED BY <1>1, <1>4, <2>2 DEF FormsInv
  <1> QED BY <1>2, <1>3, <1>4 DEF FormsInv

LEMMA FormsInvariant == MCJoinsSpec => []FormsInv
  BY FormsInit, FormsNext, PTL DEF MCJoinsSpec

\* Whichever forms the two sides of a join have: a record is joined with another exactly when the
\* other is joined with it, as often as far as both sides know, and neither names a record that is
\* gone (AddJoin, DelJoin and their neighbours in qminer_core.cpp); nested records may be new,
\* existing or refused.
THEOREM RunSidesStayOne == MCJoinsSpec => []SidesAreOne
  <1>1. FormsInv => SidesAreOne
    <2>1. Mixed!IInv => Mixed!SidesAgree /\ Mixed!NoDangling
      BY Mixed!SidesAre, MixedFits
    <2>2. Fields!IInv => Fields!SidesAgree /\ Fields!NoDangling
      BY Fields!SidesAre, FieldsFit
    <2>3. Lists!IInv => Lists!SidesAgree /\ Lists!NoDangling
      BY Lists!SidesAre, ListsFit
    <2> QED BY <2>1, <2>2, <2>3 DEF FormsInv, SidesAreOne
  <1> QED BY <1>1, FormsInvariant, PTL

\* Whichever forms they have, the two sides together are one relation between the records: every
\* call extends it, cuts one pair of it, or takes deleted records out.
THEOREM RunJoinsAreLinks == MCJoinsSpec => AreLinks
  <1>1. MCJoinsInit => CASE forms = "index and field" -> Mixed!AsLinks!Init
                         [] forms = "fields" -> Fields!AsLinks!Init
                         [] forms = "lists" -> Lists!AsLinks!Init
    BY FormsInit
  <1>2. FormsInv /\ [MCJoinsNext]_<<joinsVars, forms>>
          => [CASE forms = "index and field" -> [Mixed!AsLinks!Next]_(Mixed!AsLinks!vars)
                [] forms = "fields" -> [Fields!AsLinks!Next]_(Fields!AsLinks!vars)
                [] forms = "lists" -> [Lists!AsLinks!Next]_(Lists!AsLinks!vars)]_joinsVars
    BY FormsNext
  <1> QED BY <1>1, <1>2, FormsInvariant, PTL DEF MCJoinsSpec, AreLinks

\* Whichever forms they have, deleting the join of two records leaves every other pair as it was
\* (DelJoin clears the other side whatever it points to).
THEOREM RunOnlyOneIsCut == MCJoinsSpec => CutsOnePair
  <1>1. FormsInv => CASE forms = "index and field" -> Mixed!CutsOneStep
                      [] forms = "fields" -> Fields!CutsOneStep
                      [] forms = "lists" -> Lists!CutsOneStep
    <2>1. Mixed!IInv => Mixed!CutsOneStep
      BY Mixed!OnePairIsCut, MixedFits, FormsAssumption
    <2>2. Fields!IInv => Fields!CutsOneStep
      BY Fields!OnePairIsCut, FieldsFit, FormsAssumption
    <2>3. Lists!IInv => Lists!CutsOneStep
      BY Lists!OnePairIsCut, ListsFit, FormsAssumption
    <2> QED BY <2>1, <2>2, <2>3 DEF FormsInv
  <1> QED BY <1>1, FormsInvariant, PTL DEF CutsOnePair
==============================================================================
