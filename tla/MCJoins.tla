-------------------------------- MODULE MCJoins --------------------------------
(***************************************************************************)
(* A join and its inverse in the three pairs of forms: what is extended is  *)
(* an index join whose inverse is a field join with a frequency, joined     *)
(* once and deleted whole (Fqs, DelFqs and Again of the configuration); in  *)
(* Fields both are field joins, in Lists both are index joins, joined again *)
(* and deleted in parts.  The pair is chosen in the initial state.         *)
(***************************************************************************)
EXTENDS Joins

IndexField == [J |-> "index", K |-> "field"]
FieldField == [J |-> "field", K |-> "field"]
IndexIndex == [J |-> "index", K |-> "index"]
WithFq == [s \in Side |-> Form[s] = "field"]

VARIABLE forms

\* TLC evaluates the constant definitions of Joins (RecId, Careful) once for all
\* instances of a module that extends it, unless Joins is instanced itself.
LOCAL Plain == INSTANCE Joins

\* The instances are of the module of their proofs.
Mixed == INSTANCE JoinsProofs
Fields == INSTANCE JoinsProofs WITH
  Form <- FieldField, HasFq <- [s \in Side |-> TRUE], DelFqs <- {1, All}, Again <- TRUE
Lists == INSTANCE JoinsProofs WITH
  Form <- IndexIndex, HasFq <- [s \in Side |-> FALSE], DelFqs <- {1, All}, Again <- TRUE,
  MaxRecs <- 2, MaxJoinFq <- 3

\* Each is used with care, as the theorems about joins assume.
ASSUME FormsAssumption ==
  /\ Mixed!Careful /\ Fields!Careful /\ Lists!Careful
  /\ MaxJoinFq # 0 /\ Fqs \subseteq 1..3

MCJoinsInit ==
  \/ forms = "index and field" /\ Mixed!JoinsInit
  \/ forms = "fields" /\ Fields!JoinsInit
  \/ forms = "lists" /\ Lists!JoinsInit
MCJoinsNext ==
  /\ \/ forms = "index and field" /\ Mixed!JoinsNext
     \/ forms = "fields" /\ Fields!JoinsNext
     \/ forms = "lists" /\ Lists!JoinsNext
  /\ UNCHANGED forms
MCJoinsSpec == MCJoinsInit /\ [][MCJoinsNext]_<<joinsVars, forms>>

\* The properties of Joins, in each of the three: the two sides tell the same, and neither
\* names a record that is gone.
SidesAreOne == CASE forms = "index and field" -> Mixed!SidesAgree /\ Mixed!NoDangling
                 [] forms = "fields" -> Fields!SidesAgree /\ Fields!NoDangling
                 [] forms = "lists" -> Lists!SidesAgree /\ Lists!NoDangling
AreLinks ==
  /\ CASE forms = "index and field" -> Mixed!AsLinks!Init
       [] forms = "fields" -> Fields!AsLinks!Init
       [] forms = "lists" -> Lists!AsLinks!Init
  /\ [][CASE forms = "index and field" -> [Mixed!AsLinks!Next]_(Mixed!AsLinks!vars)
          [] forms = "fields" -> [Fields!AsLinks!Next]_(Fields!AsLinks!vars)
          [] forms = "lists" -> [Lists!AsLinks!Next]_(Lists!AsLinks!vars)]_joinsVars
CutsOnePair ==
  [][CASE forms = "index and field" -> Mixed!CutsOneStep
       [] forms = "fields" -> Fields!CutsOneStep
       [] forms = "lists" -> Lists!CutsOneStep]_joinsVars
================================================================================
