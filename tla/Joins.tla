--------------------------------- MODULE Joins ---------------------------------
(***************************************************************************)
(* A join J from the records of a store A to those of a store B, and its   *)
(* inverse K from B to A (src/src/qminer/qminer_core.cpp, TStore::AddJoin  *)
(* and its neighbours).  A join is kept in one of two forms:               *)
(*                                                                         *)
(*   index   a list in the inverted index for every record, an item and a  *)
(*           frequency for every record joined.  Frequencies of an item    *)
(*           are summed; what is not positive is never returned, and is    *)
(*           dropped when the list is merged, at the latest when it is     *)
(*           searched;                                                     *)
(*   field   a field that holds the id of the one record joined, and       *)
(*           perhaps a second field with its frequency.                    *)
(*                                                                         *)
(* Nothing ties the two forms together but the calls below: every change   *)
(* of one side is repeated on the other.  The ids of deleted records are   *)
(* not used again.  A caller's habits are the constants Fqs, DelFqs, Again *)
(* and Unjoined.                                                           *)
(*                                                                         *)
(* A nested record may be refused, and TUInt64::Mx, the id of no record,   *)
(* is joined in its place.  A field that holds it reads as null and gives  *)
(* way like one, so it is modelled as null; a list returns it (lost).  The *)
(* list and the field of TUInt64::Mx itself are those of no record.        *)
(***************************************************************************)
EXTENDS Integers, Sequences, SequencesExt, FiniteSets

CONSTANTS Form,     \* [Side -> {"index", "field"}], form of each join
          HasFq,    \* [Side -> BOOLEAN], the field join has a frequency field
          Fqs,      \* frequencies records are joined with
          DelFqs,   \* frequencies joins are deleted with
          All,      \* TInt::Mx, the default frequency of DelJoin
          Again,    \* a joined pair may be joined again
          Unjoined, \* a pair that is not joined may have its join deleted
          MaxRecs,  \* bound: ids given by a store
          MaxJoinFq \* bound: absolute value of a summed frequency

Side == {"J", "K"}
Other == [J |-> "K", K |-> "J"]
RecId == 0..(MaxRecs - 1)
None == -1            \* a field that is null
Mx == MaxRecs         \* TUInt64::Mx, which is no record's

ASSUME ConstantsOK == /\ Form \in [Side -> {"index", "field"}]
                      /\ HasFq \in [Side -> BOOLEAN]
                      /\ Fqs \subseteq 1..MaxJoinFq
                      /\ DelFqs \subseteq (1..MaxJoinFq) \cup {All}
                      /\ Again \in BOOLEAN /\ Unjoined \in BOOLEAN
                      /\ MaxRecs \in Nat /\ MaxJoinFq \in Nat

BothLists == \A t \in Side : Form[t] = "index"
BothFields == \A t \in Side : Form[t] = "field"

\* The habits under which the two sides agree.  No join is deleted that is not there.
\* Two lists are joined at will, and a join is deleted whole or one at a time; a list
\* and a field are joined once and deleted whole, with a frequency the field can tell.
Careful ==
    /\ ~Unjoined
    /\ BothLists => DelFqs \subseteq {1, All}
    /\ ~BothLists /\ ~BothFields =>
         /\ ~Again /\ DelFqs \subseteq {All}
         /\ \A t \in Side : Form[t] = "field" => HasFq[t] \/ Fqs \subseteq {1}

VARIABLES recs,  \* [Side -> [first, next]]: the store a join starts from
                 \* holds the records from first to next - 1
          joins, \* [idx, fld, fq]: items of the index, record and frequency
                 \* fields, all by side and record
          lost   \* [Side -> SUBSET RecId]: records whose list also has Mx

joinsVars == <<recs, joins, lost>>

RecIds(s) == recs[s].first..(recs[s].next - 1)

JoinsTypeOK == /\ recs \in [Side -> [first : 0..MaxRecs, next : 0..MaxRecs]]
               /\ joins \in [idx : [Side -> [RecId \X RecId -> -MaxJoinFq..MaxJoinFq]],
                             fld : [Side -> [RecId -> RecId \cup {None}]],
                             fq  : [Side -> [RecId -> 0..MaxJoinFq]]]
               /\ lost \in [Side -> SUBSET RecId]

--------------------------------------------------------------------------------
(* Reading a join.                                                         *)

\* TRec::DoJoin: the records that r is joined with on side s.  Beside them it
\* returns Mx if r is in lost[s].
JoinedWith(j, s, r) ==
    IF Form[s] = "index" THEN {q \in RecId : j.idx[s][<<r, q>>] > 0}
                         ELSE {j.fld[s][r]} \ {None}

\* The pairs of records that are joined, as the store of J has them.
JoinedPairs(j) == UNION {{r} \X JoinedWith(j, "J", r) : r \in RecId}

\* The frequency that DoJoin returns with q.
JoinFq(j, s, r, q) ==
    CASE Form[s] = "index" -> j.idx[s][<<r, q>>]
      [] Form[s] = "field" /\ HasFq[s] -> j.fq[s][r]
      [] OTHER -> 1

\* A merge of the list of r: items whose frequency is negative are dropped.
Merged(j, s, r) ==
    [j EXCEPT !.idx[s] = [p \in RecId \X RecId |->
        IF p[1] = r /\ j.idx[s][p] < 0 THEN 0 ELSE j.idx[s][p]]]

--------------------------------------------------------------------------------
(* One side of a join.                                                     *)

IndexJoin(j, s, r, q, n) == [j EXCEPT !.idx[s][<<r, q>>] = @ + n]

DeleteJoin(j, s, r, q, n) ==
    [j EXCEPT !.idx[s][<<r, q>>] = IF n = All THEN 0 ELSE @ - n]

SetField(j, s, r, q, n) ==
    [j EXCEPT !.fld[s][r] = q, !.fq[s][r] = IF HasFq[s] THEN n ELSE 0]

ClearField(j, s, r) == SetField(j, s, r, None, 0)

\* Variant that drops the whole list instead of one item.
DelSideList(j, s, r, q, n) ==
    IF Form[s] = "index"
    THEN [j EXCEPT !.idx[s] = [p \in RecId \X RecId |-> IF p[1] = r THEN 0 ELSE @[p]]]
    ELSE ClearField(j, s, r)

DelSide(j, s, r, q, n) == IF Form[s] = "index" THEN DeleteJoin(j, s, r, q, n)
                                               ELSE ClearField(j, s, r)

\* DelJoin: this side, then the other; a field of the other side is cleared
\* if its record exists, whatever it points to.
DelJoin(j, s, r, q, n) ==
    LET own == DelSide(j, s, r, q, n)
    IN  IF Form[Other[s]] = "index" \/ q \in RecIds(Other[s])
        THEN DelSide(own, Other[s], q, r, n) ELSE own

\* Variant without the deletion of the join a field held before.
AddSideOver(j, s, r, q, n) ==
    IF Form[s] = "index" THEN IndexJoin(j, s, r, q, n)
                         ELSE SetField(j, s, r, q, n)

\* Half of AddJoin: a field that points to another record gives that join up
\* first, with the frequency of its frequency field or 1.
AddSide(j, s, r, q, n) ==
    LET old == j.fld[s][r]
        free == IF old \in {None, q} THEN j
                ELSE DelJoin(j, s, r, old, IF HasFq[s] THEN j.fq[s][r] ELSE 1)
    IN  IF Form[s] = "index" THEN IndexJoin(j, s, r, q, n)
                             ELSE SetField(free, s, r, q, n)

\* Variant that joins one side only.
AddJoinOneWay(j, s, r, q, n) == AddSide(j, s, r, q, n)

AddJoinTo(j, s, r, q, n) ==
    AddSide(AddSide(j, s, r, q, n), Other[s], q, r, n)

\* The joins of r on side s, deleted one by one, each with its frequency in fqs;
\* for the join with Mx see lost.
DelEach(j, s, r, fqs) ==
    LET qs == SetToSeq(JoinedWith(j, s, r))
        after[n \in 0..Len(qs)] ==
            IF n = 0 THEN Merged(j, s, r) ELSE DelJoin(after[n - 1], s, r, qs[n], fqs[qs[n]])
    IN  after[Len(qs)]

DelJoinsOf(j, s, r) == DelEach(j, s, r, [q \in RecId |-> All])

\* DeleteAllRecs deletes each join with the frequency DoJoin returned.
DelJoinsByFq(j, s, r) == DelEach(j, s, r, [q \in JoinedWith(j, s, r) |-> JoinFq(j, s, r, q)])

\* Frequencies stay within the bound.
FqsBounded(j) == \A s \in Side : \A p \in RecId \X RecId : j.idx[s][p] \in -MaxJoinFq..MaxJoinFq

--------------------------------------------------------------------------------

JoinsInit == /\ recs = [s \in Side |-> [first |-> 0, next |-> 0]]
             /\ joins = [idx |-> [s \in Side |-> [p \in RecId \X RecId |-> 0]],
                         fld |-> [s \in Side |-> [r \in RecId |-> None]],
                         fq  |-> [s \in Side |-> [r \in RecId |-> 0]]]
             /\ lost = [s \in Side |-> {}]

\* A search of the list of r, which merges it.
DoJoin(s, r) == /\ Form[s] = "index"
                /\ joins' = Merged(joins, s, r)
                /\ UNCHANGED <<recs, lost>>

AddJoin(s, r, q, n) ==
    /\ r \in RecIds(s) /\ q \in RecIds(Other[s])
    /\ Again \/ q \notin JoinedWith(joins, s, r)
    /\ joins' = AddJoinTo(joins, s, r, q, n)
    /\ FqsBounded(joins')
    /\ UNCHANGED <<recs, lost>>

DeleteJoinOf(s, r, q, n) ==
    /\ r \in RecIds(s) /\ q \in RecIds(Other[s])
    /\ Unjoined \/ q \in JoinedWith(joins, s, r)
    /\ joins' = DelJoin(joins, s, r, q, n)
    /\ FqsBounded(joins')
    /\ UNCHANGED <<recs, lost>>

DelJoins(s, r) == /\ r \in RecIds(s)
                  /\ joins' = DelJoinsOf(joins, s, r)
                  /\ lost' = [lost EXCEPT ![s] = @ \ {r}]
                  /\ UNCHANGED recs

\* The ids that nested records get: of a record that exists, of one of the k new
\* ones, made in turn, or Mx, when the reference cannot be parsed.
Nested(o, k, qs) ==
    LET made == recs[o].next..(recs[o].next + k - 1)
    IN  /\ Range(qs) \ (RecIds(o) \cup {Mx}) = made
        /\ \A i \in DOMAIN qs : qs[i] \in made =>
             \A m \in made : m < qs[i] => \E h \in 1..(i - 1) : qs[h] = m

\* AddRec and AddJoinRec: a record, joined in turn with the nested ones, qs, and
\* the frequencies qn.  A field join takes one object and starts as null.  What
\* is nested and throws ends the call, as if no more were nested; so does a join
\* with Mx, after its own side, if the other side is a field.
AddRec(s, k, qs, qn) ==
    LET r == recs[s].next
        null == IF Form[s] = "field" THEN ClearField(joins, s, r) ELSE joins
        after[n \in 0..Len(qn)] ==
            IF n = 0 THEN null
            ELSE IF qs[n] = Mx THEN after[n - 1]
            ELSE AddJoinTo(after[n - 1], s, r, qs[n], qn[n])
    IN  /\ r < MaxRecs /\ recs[Other[s]].next + k <= MaxRecs
        /\ Nested(Other[s], k, qs)
        /\ Form[s] = "field" => Len(qn) <= 1
        /\ \A i \in 1..Len(qn) : qs[i] = Mx /\ Form[Other[s]] = "field" => i = Len(qn)
        /\ Again \/ \A h, i \in 1..Len(qn) : qs[h] = qs[i] => h = i \/ qs[i] = Mx
        /\ recs' = [recs EXCEPT ![s].next = @ + 1, ![Other[s]].next = @ + k]
        /\ joins' = after[Len(qn)]
        /\ FqsBounded(joins')
        /\ lost' = IF Form[s] = "index" /\ Mx \in Range(qs)
                   THEN [lost EXCEPT ![s] = @ \cup {r}] ELSE lost

\* DeleteRecs of the first n records: the joins of each, then the records.
DeleteRecs(s, n) ==
    LET after[i \in 0..n] ==
            IF i = 0 THEN joins ELSE DelJoinsOf(after[i - 1], s, recs[s].first + i - 1)
    IN  /\ n \in 1..Cardinality(RecIds(s))
        /\ joins' = after[n]
        /\ recs' = [recs EXCEPT ![s].first = @ + n]
        /\ lost' = [lost EXCEPT ![s] = @ \ (recs[s].first..(recs[s].first + n - 1))]

DeleteAllRecs(s) ==
    LET n == Cardinality(RecIds(s))
        after[i \in 0..n] ==
            IF i = 0 THEN joins ELSE DelJoinsByFq(after[i - 1], s, recs[s].first + i - 1)
    IN  /\ RecIds(s) # {}
        /\ joins' = after[n]
        /\ recs' = [recs EXCEPT ![s].first = recs[s].next]
        /\ lost' = [lost EXCEPT ![s] = @ \ RecIds(s)]

JoinsNext == \E s \in Side :
    \/ \E r \in RecId : DoJoin(s, r) \/ DelJoins(s, r)
    \/ \E r, q \in RecId : \/ \E n \in Fqs : AddJoin(s, r, q, n)
                           \/ \E n \in DelFqs : DeleteJoinOf(s, r, q, n)
    \/ \E qn \in BoundedSeq(Fqs, 2) :
         \E k \in 0..Len(qn), qs \in [1..Len(qn) -> RecId \cup {Mx}] : AddRec(s, k, qs, qn)
    \/ \E n \in 1..MaxRecs : DeleteRecs(s, n)
    \/ DeleteAllRecs(s)

JoinsSpec == JoinsInit /\ [][JoinsNext]_joinsVars

--------------------------------------------------------------------------------
(* Properties.                                                             *)

\* A record is joined with another exactly when the other is joined with it,
\* through whatever repointing, nesting, deleting and record deletion: "only
\* one join needs to be specified, and the other direction can be linked
\* automatically" (src/src/nodejs/qm/qm_nodejs.h:244).
Symmetric == \A a, b \in RecId : b \in JoinedWith(joins, "J", a) <=> a \in JoinedWith(joins, "K", b)

\* Joins name no record but those that exist, though a record may be nested, refused or
\* named again while others are joined, and nothing of a deleted record's joins is left,
\* not even the TUInt64::Mx of a nested record that was refused.
NoDangling == \A s \in Side : \A r \in RecId :
    /\ JoinedWith(joins, s, r) \subseteq RecIds(Other[s])
    /\ JoinedWith(joins, s, r) # {} \/ r \in lost[s] => r \in RecIds(s)

\* The two sides agree about how often a pair is joined, where both know.
SameFrequency == \A a, b \in RecId :
    (/\ b \in JoinedWith(joins, "J", a) /\ a \in JoinedWith(joins, "K", b)
     /\ \A s \in Side : Form[s] = "index" \/ HasFq[s])
        => JoinFq(joins, "J", a, b) = JoinFq(joins, "K", b, a)

\* What is joined, and how often, is the same seen from either side.
SidesAgree == JoinsTypeOK /\ Symmetric /\ SameFrequency

\* The two sides together are one relation, see Links.
AsLinks == INSTANCE Links WITH
           Id <- RecId,
           links <- JoinedPairs(joins),
           OneJ <- Form["J"] = "field", OneK <- Form["K"] = "field"

ImplementsLinks == AsLinks!Spec

\* Taking a pair apart takes only that pair apart: "Deletes join record
\* `joinRecord` from join" (src/src/nodejs/qm/qm_nodejs.h:1776).
CutsOneStep == \A s \in Side, r, q \in RecId, n \in DelFqs : DeleteJoinOf(s, r, q, n) =>
                 \A x, y \in RecId : (y \in JoinedWith(joins, s, x) /\ <<x, y>> # <<r, q>>)
                                      => y \in JoinedWith(joins', s, x)
CutsOne == [][CutsOneStep]_joinsVars

================================================================================
