-------------------------------- MODULE Merger --------------------------------
(***************************************************************************)
(* The merger of time series, TMerger (qminer_aggr.cpp): points of several *)
(* signals come in one after the other, and at each time at which one of   *)
(* them has a point a record with the interpolated value of every signal   *)
(* is put into a store.  With OnlyPast it waits until all signals have     *)
(* had their say about a time.                                             *)
(*                                                                         *)
(* The merger is one record m, and its functions operators on it, in the   *)
(* order in which _OnAddRec calls them.  A record of a store that several  *)
(* signals read is given to the signals one after the other.               *)
(***************************************************************************)
EXTENDS Integers, Sequences, FiniteSets, SequencesExt, Interpolators

CONSTANTS
  Signal,          \* the input signals, 1..NInFlds
  Times, Values,   \* times and values of points
  Reads,           \* for each store, the signals that read its records, in their order
  MaxPoints        \* bound: points of a signal

VARIABLES
  OnlyPast, kinds, \* parameters: the kind of each signal's interpolator
  m                \* with m.points, history: the points each signal took

vars == <<OnlyPast, kinds, m>>

Never == Max(Times) + 1000     \* TUInt64::Mx
NoPoint == [tm |-> Never, vals |-> << >>]

Init ==
  /\ OnlyPast \in BOOLEAN /\ kinds \in [Signal -> Kinds]
  /\ m = [Buff |-> << >>, Interp |-> [i \in Signal |-> << >>], Present |-> {},
          NextInterpTm |-> Never, PrevInterpTm |-> Never, PrevInterpPt |-> NoPoint,
          out |-> << >>, asserted |-> FALSE, points |-> [i \in Signal |-> << >>]]

(***************************************************************************)
(* The time of the next record.                                            *)
(***************************************************************************)
UpdateInterpolators(s) ==
  IF s.NextInterpTm = Never THEN s
  ELSE [s EXCEPT !.Interp =
          [i \in Signal |-> SetNextInterpTm(kinds[i], s.Interp[i], s.NextInterpTm)]]

ShiftBuff(s) ==
  LET stays(t) == t >= s.NextInterpTm
  IN UpdateInterpolators([s EXCEPT !.Buff = SelectSeq(@, stays)])

FollowingTm(s) == IF Len(s.Buff) > 1 THEN s.Buff[2] ELSE Never

UpdateNextInterpTm(s) ==
  LET next == FollowingTm(s)
  IN ShiftBuff([s EXCEPT !.PrevInterpTm = s.NextInterpTm, !.NextInterpTm = next,
                         !.asserted = @ \/ s.NextInterpTm > next])

(***************************************************************************)
(* A record of the output store.                                           *)
(***************************************************************************)
AddToStore(s, r) == [s EXCEPT !.out = Append(@, r)]

\* How many points of each signal there were is kept with a record, as history.
Heard(s) == [i \in Signal |-> Len(s.points[i])]

\* Mutant of AddRec: with OnlyPast too, the record is put at once.
AddRecNow(s, r) == AddToStore(s, r)
AddRec(s, r) ==
  CASE ~OnlyPast -> AddToStore(s, r)
    [] OnlyPast /\ Len(s.Buff) > 1 -> [AddToStore(s, r) EXCEPT !.PrevInterpPt = NoPoint]
    [] OnlyPast /\ Len(s.Buff) <= 1 /\ s.PrevInterpPt.tm \notin {Never, r.tm} ->
         [AddToStore(s, s.PrevInterpPt) EXCEPT !.PrevInterpPt = r]
    [] OTHER -> [s EXCEPT !.PrevInterpPt = r]

CanMerge(s) ==
  /\ s.NextInterpTm # Never
  /\ OnlyPast \/ s.NextInterpTm # s.PrevInterpTm
  /\ \A i \in Signal : CanInterpolate(kinds[i], s.Interp[i], s.NextInterpTm)

RECURSIVE MergeWhilePossible(_)
MergeWhilePossible(s) ==
  IF ~CanMerge(s) \/ s.asserted THEN s
  ELSE LET t == s.NextInterpTm
           r == [tm |-> t, vals |-> [i \in Signal |-> Interpolate(kinds[i], s.Interp[i], t)],
                 heard |-> Heard(s)]
       IN MergeWhilePossible(UpdateNextInterpTm(AddRec(s, r)))

(***************************************************************************)
(* A point of a signal.                                                    *)
(***************************************************************************)
LastTm(s) == IF s.Buff = << >> THEN 0 ELSE s.Buff[Len(s.Buff)]

\* The assertions before anything is changed.
Takes(s, i, t, v) ==
  /\ s.NextInterpTm = Never \/ t >= s.NextInterpTm
  /\ t >= LastTm(s)
  /\ TakesPoint(s.Interp[i], t, v)

AddToBuff(s, i, t, v) ==
  [s EXCEPT !.Interp[i] = AddPoint(@, t, v), !.points[i] = AddPoint(@, t, v),
            !.Buff = IF t > LastTm(s) THEN Append(@, t) ELSE @]

\* The first time is the one at which the last of the signals came in.
CheckInitialized(s, i, t) ==
  IF s.Present = Signal THEN s
  ELSE LET p == [s EXCEPT !.Present = @ \cup {i}]
       IN IF p.Present # Signal THEN p ELSE ShiftBuff([p EXCEPT !.NextInterpTm = t])

\* There was no time to go on with: this is it, unless it was the last one.
HandleEdgeCases(s, t) ==
  LET p == IF s.NextInterpTm # Never THEN s
           ELSE UpdateInterpolators([s EXCEPT !.NextInterpTm = t,
                                              !.asserted = @ \/ Len(s.Buff) # 1])
  IN IF OnlyPast \/ p.NextInterpTm # p.PrevInterpTm THEN p
     ELSE [p EXCEPT !.NextInterpTm = Never, !.Buff = Tail(@)]

OnAddPoint(s, i, t, v) ==
  LET p == CheckInitialized(AddToBuff(s, i, t, v), i, t)
  IN IF p.Present # Signal THEN p ELSE MergeWhilePossible(HandleEdgeCases(p, t))

(***************************************************************************)
(* A record of a store.  The first signal that does not take its point     *)
(* ends the call; those before it keep theirs.                             *)
(***************************************************************************)
LastPoint(i) == IF m.points[i] = << >> THEN 0 ELSE m.points[i][Len(m.points[i])].tm

\* Records come in the order of their times.
OnAddRec(store, t, vals) ==
  LET signals == Reads[store]
      One(s, i) ==
        IF s.ok /\ Takes(s.m, i, t, vals[i])
        THEN [ok |-> TRUE, m |-> OnAddPoint(s.m, i, t, vals[i])]
        ELSE [ok |-> FALSE, m |-> s.m]
  IN /\ \A i \in Signal : t >= LastPoint(i)
     /\ \A i \in Range(signals) : Len(m.points[i]) < MaxPoints
     /\ m' = FoldLeft(One, [ok |-> TRUE, m |-> m], signals).m
     /\ UNCHANGED <<OnlyPast, kinds>>

Next ==
  \E store \in DOMAIN Reads, t \in Times :
    \E vals \in [Range(Reads[store]) -> Values] : OnAddRec(store, t, vals)

Spec == Init /\ [][Next]_vars

(***************************************************************************)
(* Properties.                                                             *)
(***************************************************************************)
\* The records of the output store, and the one that waits for the end of its time.
Made == m.out \o (IF m.PrevInterpPt.tm = Never THEN << >> ELSE <<m.PrevInterpPt>>)

\* Records are made in the order of their times, and none twice.
MadeInOrder == \A j, k \in DOMAIN Made : j < k => Made[j].tm < Made[k].tm

\* In a record the value of each signal is the one its points give at the time; with
\* OnlyPast all points there ever are, else those that had come when it was made.
ValuesAreExact ==
  \A k \in DOMAIN m.out : \A i \in Signal :
    m.out[k].vals[i] =
      Reference(kinds[i], IF OnlyPast THEN m.points[i]
                          ELSE SubSeq(m.points[i], 1, m.out[k].heard[i]), m.out[k].tm)

\* Every time from the one on at which all signals were there is merged once the next one
\* is later, and no other is.
AllPresent == \A i \in Signal : m.points[i] # << >>
FirstTm == Max({m.points[i][1].tm : i \in Signal})
DueTimes == {t \in Times : t >= FirstTm
                            /\ \E i \in Signal : \E p \in Range(m.points[i]) : p.tm = t}
NoneMissing ==
  AllPresent => {Made[k].tm : k \in DOMAIN Made} = {t \in DueTimes : t < m.NextInterpTm}

\* No time is left unmerged at which every signal has its value.
HasValue(i, t) ==
  /\ UpTo(m.points[i], t) # {}
  /\ kinds[i] = "current" \/ \E p \in Range(m.points[i]) : p.tm >= t
NotBehind ==
  AllPresent /\ m.NextInterpTm # Never => \E i \in Signal : ~HasValue(i, m.NextInterpTm)

\* The assertions inside the call hold.
NoneAsserts == ~m.asserted
===============================================================================
