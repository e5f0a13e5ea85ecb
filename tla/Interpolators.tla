---------------------------- MODULE Interpolators ----------------------------
(***************************************************************************)
(* The interpolators of glib/mine/signalproc.cpp: each keeps a buffer of   *)
(* points [tm, val], oldest first, and gives the value at a time between   *)
(* them.  "previous" repeats the point before, "current" the last one up   *)
(* to the time, "linear" takes the line between the two around it.         *)
(***************************************************************************)
EXTENDS Integers, Sequences, FiniteSets, FiniteSetsExt

Kinds == {"previous", "current", "linear"}
Point(t, v) == [tm |-> t, val |-> v]

\* TBufferedInterpolator::AddPoint asserts that time goes on, or that the point is the
\* same again.
TakesPoint(buff, t, v) ==
  buff # << >> =>
    LET last == buff[Len(buff)] IN last.tm < t \/ (last.tm = t /\ last.val = v)
AddPoint(buff, t, v) == Append(buff, Point(t, v))

\* SetNextInterpTm forgets the oldest point while the second one is old enough.
Outlived(kind, t, next) == IF kind = "previous" THEN next.tm < t ELSE next.tm <= t

SetNextInterpTm(kind, buff, t) ==
  LET gone == Cardinality({n \in 1..Len(buff) - 1 : Outlived(kind, t, buff[n + 1])})
  IN SubSeq(buff, gone + 1, Len(buff))

CanInterpolate(kind, buff, t) ==
  IF kind = "current" THEN buff # << >> /\ buff[1].tm <= t
  ELSE \/ buff # << >> /\ buff[1].tm = t
       \/ Len(buff) >= 2 /\ buff[1].tm <= t /\ t <= buff[2].tm

\* Values are multiples of the distances between times, so the division is exact.
OnLine(p, q, t) == p.val + ((t - p.tm) * (q.val - p.val)) \div (q.tm - p.tm)

Interpolate(kind, buff, t) ==
  IF kind = "linear" /\ t # buff[1].tm THEN OnLine(buff[1], buff[2], t) ELSE buff[1].val

(***************************************************************************)
(* What the value at a time is to be, from all points there ever were.     *)
(***************************************************************************)
UpTo(points, t) == {n \in DOMAIN points : points[n].tm <= t}
Before(points, t) == {n \in DOMAIN points : points[n].tm < t}
After(points, t) == {n \in DOMAIN points : points[n].tm > t}

Reference(kind, points, t) ==
  LET last == points[Max(UpTo(points, t))]
  IN CASE kind = "current" -> last.val
       [] kind = "previous" ->
            IF Before(points, t) = {} THEN last.val ELSE points[Max(Before(points, t))].val
       [] kind = "linear" ->
            IF last.tm = t THEN last.val ELSE OnLine(last, points[Min(After(points, t))], t)
=============================================================================
