------------------------------- MODULE Resampler -------------------------------
(***************************************************************************)
(* The resampler of a time series, TResampler and, with one field,         *)
(* TUniVarResampler (qminer_aggr.cpp): from points at any times it makes   *)
(* records at Start, Start + IntervalMSecs, ..., the values interpolated.  *)
(* InterpPointMSecs is the time of the next record, and 0 until it is      *)
(* known.                                                                  *)
(***************************************************************************)
EXTENDS Integers, Sequences, SequencesExt, Interpolators

CONSTANTS
  Field,           \* the fields, 1..n
  Times, Values,   \* times and values of the records that come in
  IntervalMSecs,
  Starts,          \* first times the user may give; 0 for none
  MaxPoints        \* bound: records that come in

VARIABLES
  kinds,           \* parameter: the kind of each field's interpolator
  Interp, InterpPointMSecs,
  out,             \* the records made
  start, points    \* history: the time of the first record, and the points of each field

vars == <<kinds, Interp, InterpPointMSecs, out, start, points>>

Init ==
  /\ kinds \in [Field -> Kinds]
  /\ Interp = [f \in Field |-> << >>]
  /\ InterpPointMSecs \in Starts /\ start = InterpPointMSecs
  /\ out = << >> /\ points = [f \in Field |-> << >>]

RefreshInterpolators(interp, t) ==
  [f \in Field |-> SetNextInterpTm(kinds[f], interp[f], t)]

\* CanInterpolate, of interpolators that are refreshed to the time.
AllCan(interp, t) == \A f \in Field : CanInterpolate(kinds[f], interp[f], t)

\* One turn of the loop over the records that can be made up to the time RecTm.
\* Mutant of MayMake: a record at the very time of the one that comes in waits.
MayMakeBefore(s, RecTm) ==
  s.next < RecTm /\ AllCan(RefreshInterpolators(s.interp, s.next), s.next)
MayMake(s, RecTm) ==
  s.next <= RecTm /\ AllCan(RefreshInterpolators(s.interp, s.next), s.next)

Make(s) ==
  LET interp == RefreshInterpolators(s.interp, s.next)
      vals == [f \in Field |-> Interpolate(kinds[f], interp[f], s.next)]
  IN [interp |-> interp, next |-> s.next + IntervalMSecs,
      out |-> Append(s.out, [tm |-> s.next, vals |-> vals])]

\* The loop ends after as many turns as there are intervals up to the time.
MakeAll(s, RecTm) ==
  LET Turn(p, n) == IF MayMake(p, RecTm) THEN Make(p) ELSE p
  IN FoldLeft(Turn, s, [n \in 1..(RecTm \div IntervalMSecs) + 1 |-> n])

\* The last thing the loop's condition does, unless the time is past.
Refreshed(s, RecTm) ==
  IF s.next <= RecTm THEN RefreshInterpolators(s.interp, s.next) ELSE s.interp

\* A field whose interpolator does not take its point ends the call; those before it
\* keep theirs.
AddPoints(buffs, t, vals) ==
  LET One(s, f) == IF s.ok /\ TakesPoint(s.buffs[f], t, vals[f])
                   THEN [s EXCEPT !.buffs[f] = AddPoint(@, t, vals[f])]
                   ELSE [s EXCEPT !.ok = FALSE]
  IN FoldLeft(One, [ok |-> TRUE, buffs |-> buffs], SetToSortSeq(Field, <))

OnAddRec(t, vals) ==
  LET added == AddPoints(Interp, t, vals)
      next == IF InterpPointMSecs = 0 THEN t ELSE InterpPointMSecs
      made == MakeAll([interp |-> added.buffs, next |-> next, out |-> out], t)
  IN /\ \A f \in Field : Len(points[f]) < MaxPoints
     /\ points' = [f \in Field |->
          IF Len(added.buffs[f]) > Len(Interp[f]) THEN AddPoint(points[f], t, vals[f])
                                                  ELSE points[f]]
     /\ IF added.ok
        THEN /\ Interp' = RefreshInterpolators(Refreshed(made, t), t)
             /\ InterpPointMSecs' = made.next
             /\ out' = made.out
             /\ start' = IF start = 0 THEN t ELSE start
        ELSE Interp' = added.buffs /\ UNCHANGED <<InterpPointMSecs, out, start>>
     /\ UNCHANGED kinds

Next == \E t \in Times : \E vals \in [Field -> Values] : OnAddRec(t, vals)

Spec == Init /\ [][Next]_vars

(***************************************************************************)
(* Properties.                                                             *)
(***************************************************************************)
LastTm == Max({0} \cup {t \in Times : \A f \in Field : \E p \in Range(points[f]) : p.tm = t})
FirstTm == Max({points[f][1].tm : f \in Field})

\* The times at which a record is due.  With a start before the first point the
\* resampler is stuck for ever, as it warns.
DueTimes ==
  IF \E f \in Field : points[f] = << >> \/ start < FirstTm THEN {}
  ELSE {t \in start..LastTm : (t - start) % IntervalMSecs = 0}

\* The records made are those that are due, in their order, and the values are those the
\* points give at the time: all points there ever are, so no later one changes them.
RecordsAreExact ==
  /\ {out[k].tm : k \in DOMAIN out} = DueTimes /\ Len(out) = Cardinality(DueTimes)
  /\ \A j, k \in DOMAIN out : j < k => out[j].tm < out[k].tm
  /\ \A k \in DOMAIN out : \A f \in Field :
       out[k].vals[f] = Reference(kinds[f], points[f], out[k].tm)
================================================================================
