----------------------------- MODULE AggrResampler -----------------------------
(***************************************************************************)
(* The aggregating resampler (TAggrResampler of qminer_aggr.cpp over that  *)
(* of glib/mine/signalproc.cpp): points wait in a queue until the interval *)
(* they lie in is over, and then the interval is handed on.                *)
(*                                                                         *)
(* The sum, mean, least or greatest value of an interval is a function of  *)
(* the points that are aggregated, so it is these that are handed on.      *)
(* Times are not before IntervalMSecs, else SetCurrentTm asserts.          *)
(***************************************************************************)
EXTENDS Integers, Sequences, SequencesExt

CONSTANTS
  Time,            \* times of points, and of OnTime
  IntervalMSecs,
  Starts,          \* first times the user may give; 0 for none
  RoundStart,      \* unit the first time is rounded to, 1 for none
  FirstLen,        \* see RingQueue
  MaxPoints        \* bound: points between two resets

Q == INSTANCE RingQueue

VARIABLES
  SkipEmptyP,      \* parameter: intervals without a point are not handed on
  CurrentTmMSecs,
  LastResampPointMSecs,   \* the start of the last interval that is done
  Buff, InitP,
  out,             \* the intervals handed on, with the points they aggregate
  points,          \* history: the points since the last reset, and whether each came
                   \* after its interval was over
  latest           \* history: the greatest time told since the last reset

vars == <<SkipEmptyP, CurrentTmMSecs, LastResampPointMSecs, Buff, InitP, out, points, latest>>

Init ==
  /\ SkipEmptyP \in BOOLEAN
  /\ CurrentTmMSecs = 0 /\ Buff = Q!NewQueue
  /\ \E t \in Starts : /\ InitP = (t # 0)
                       /\ LastResampPointMSecs = IF t = 0 THEN 0 ELSE t - IntervalMSecs
                       /\ latest = t
  /\ out = << >> /\ points = << >>

\* SetCurrentTm: the first time tells where the intervals start, unless the user did.
PointBefore(t) == ((t - IntervalMSecs) \div RoundStart) * RoundStart
Started(t) == IF InitP THEN LastResampPointMSecs ELSE PointBefore(t)
SetCurrentTm(t) == CurrentTmMSecs' = t /\ InitP' = TRUE /\ latest' = Max({latest, t})

\* Mutant of CanResample: does not wait for the end of the interval.
CanResampleEarly(last, t) == last + IntervalMSecs <= t
CanResample(last, t) == last + 2 * IntervalMSecs <= t

\* The leading points of the queue that are not after the interval, which starts at s:
\* stale ones are dropped, the others aggregated.
Inside(p, s) == s <= p.tm /\ p.tm <= s + IntervalMSecs - 1
TakenNo(q, s) ==
  LET later == {n \in 1..Q!QLen(q) : Q!At(q, n - 1).tm > s + IntervalMSecs - 1}
  IN Min(later \cup {Q!QLen(q) + 1}) - 1

PopNo(q, n) == LET OneLess(p, k) == Q!Pop(p) IN FoldLeft(OneLess, q, [k \in 1..n |-> k])

\* TryResampleOnce, and the call of the aggregate that follows.
TryResampleOnce(s) ==
  LET tm == s.last + IntervalMSecs
      no == TakenNo(s.buff, tm)
      In(p) == Inside(p, tm)
      taken == SelectSeq(SubSeq(Q!Contents(s.buff), 1, no), In)
  IN [last |-> tm, buff |-> PopNo(s.buff, no),
      out |-> IF taken = << >> /\ SkipEmptyP THEN s.out
              ELSE Append(s.out, [tm |-> tm, points |-> taken])]

\* Loop, from the last interval that is done and the queue with the new point.
Loop(last, buff, t) ==
  LET Turn(s, n) == IF CanResample(s.last, t) THEN TryResampleOnce(s) ELSE s
      done == FoldLeft(Turn, [last |-> last, buff |-> buff, out |-> out],
                       [n \in 1..t \div IntervalMSecs |-> n])
  IN LastResampPointMSecs' = done.last /\ Buff' = done.buff /\ out' = done.out

OnTime(t) ==
  /\ SetCurrentTm(t)
  /\ Loop(Started(t), Buff, t)
  /\ UNCHANGED <<SkipEmptyP, points>>

\* The end of the interval that t lies in, for intervals of which one starts at s.
EndOf(t, s) == t + 1 + ((s - t - 1) % IntervalMSecs)

OnStep(t) ==
  LET p == [tm |-> t, no |-> Len(points)]
  IN /\ Len(points) < MaxPoints
     /\ SetCurrentTm(t)
     /\ Loop(Started(t), Q!Push(Buff, p), t)
     /\ points' = Append(points, [p |-> p, late |-> EndOf(t, Started(t)) <= latest])
     /\ UNCHANGED SkipEmptyP

Reset ==
  /\ CurrentTmMSecs' = 0 /\ LastResampPointMSecs' = 0
  /\ Buff' = Q!NewQueue /\ InitP' = FALSE
  /\ out' = << >> /\ points' = << >> /\ latest' = 0
  /\ UNCHANGED SkipEmptyP

Next == (\E t \in Time : OnTime(t) \/ OnStep(t)) \/ Reset

Spec == Init /\ [][Next]_vars

(***************************************************************************)
(* Properties.                                                             *)
(***************************************************************************)
\* The points that came in time, of an interval, or of those that are not done.
InTime == LET Is(e) == ~e.late IN SelectSeq(points, Is)
Of(s) == LET In(e) == Inside(e.p, s) IN [n \in DOMAIN SelectSeq(InTime, In) |-> SelectSeq(InTime, In)[n].p]
NotDone(records) ==
  LET Is(p) == p.tm >= LastResampPointMSecs + IntervalMSecs IN SelectSeq(records, Is)

\* The intervals follow one another, each aggregates exactly the points that lie in it and
\* came in time, and none that has a point is left out.
IntervalsAreExact ==
  /\ \A k \in DOMAIN out : out[k].points = Of(out[k].tm) /\ out[k].tm <= LastResampPointMSecs
  /\ \A k \in 1..Len(out) - 1 :
       IF SkipEmptyP THEN \E n \in 1..Max(Time) : out[k + 1].tm = out[k].tm + n * IntervalMSecs
                     ELSE out[k + 1].tm = out[k].tm + IntervalMSecs
  /\ \A n \in DOMAIN InTime :
       InTime[n].p.tm < LastResampPointMSecs + IntervalMSecs =>
         \E k \in DOMAIN out : Inside(InTime[n].p, out[k].tm)

\* No interval that is over waits, and what waits is the points of those that are not.
NoneWaits ==
  InitP => /\ ~CanResample(LastResampPointMSecs, CurrentTmMSecs)
           /\ NotDone(Q!Contents(Buff)) = NotDone([n \in DOMAIN InTime |-> InTime[n].p])
================================================================================
