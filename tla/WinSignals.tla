----------------------------- MODULE WinSignals -----------------------------
(***************************************************************************)
(* The signals that are kept up to date over a window (glib/mine/          *)
(* signalproc.cpp): TSum, TMa, TMin and TMax.  Each is told the records    *)
(* that entered and left the window.                                       *)
(*                                                                         *)
(* The mean of TMa is kept as its count and its sum, which in exact        *)
(* arithmetic is the same.  A signal whose assertion failed or that read   *)
(* an element of an empty vector is not ok, and says nothing any more.     *)
(***************************************************************************)
EXTENDS Integers, Sequences, SequencesExt

SignalTypes == {"sum", "ma", "min", "max"}
Mx == 1000     \* TFlt::Mx, above every value

Start(type) == CASE type = "min" -> Mx [] type = "max" -> -Mx [] OTHER -> 0

NewSignal(type) == [type |-> type, Val |-> Start(type), Count |-> 0, AllValV |-> << >>, ok |-> TRUE]

Total(records) == LET Plus(n, r) == n + r.val IN FoldLeft(Plus, 0, records)

(***************************************************************************)
(* TMin and TMax keep the candidates: the records that no later one beats. *)
(***************************************************************************)
Beats(type, new, old) == IF type = "min" THEN new <= old ELSE new >= old

AddVal(type, AllValV, r) ==
  LET kept == Max({0} \cup {n \in DOMAIN AllValV : ~Beats(type, r.val, AllValV[n].val)})
  IN Append(SubSeq(AllValV, 1, kept), r)

\* The candidates up to the time go, from the front.
DelVal(AllValV, OutTmMSecs) ==
  LET stays == {n \in DOMAIN AllValV : AllValV[n].tm > OutTmMSecs}
  IN IF stays = {} THEN << >> ELSE SubSeq(AllValV, Min(stays), Len(AllValV))

\* Without a candidate, both DelVal and the read of the first one run past the vector.
UpdateExtreme(s, in, out) ==
  LET Add(AllValV, r) == AddVal(s.type, AllValV, r)
      added == FoldLeft(Add, s.AllValV, in)
      kept == IF out = << >> THEN added ELSE DelVal(added, Last(out).tm)
  IN IF kept = << >> THEN [s EXCEPT !.ok = FALSE]
     ELSE [s EXCEPT !.AllValV = kept, !.Val = Head(kept).val]

(***************************************************************************)
(* TSum and TMa take away what left before they add what entered.          *)
(***************************************************************************)
UpdateSum(s, in, out) == [s EXCEPT !.Val = @ - Total(out) + Total(in)]

DeletedMa(s, out) ==
  [s EXCEPT !.Count = @ - Len(out), !.Val = IF s.Count = Len(out) THEN 0 ELSE @ - Total(out)]
UpdateMa(s, in, out) ==
  IF Len(out) > s.Count THEN [s EXCEPT !.ok = FALSE]
  ELSE LET d == DeletedMa(s, out) IN [d EXCEPT !.Count = @ + Len(in), !.Val = @ + Total(in)]

\* TWinAggr::OnStep
Update(s, in, out) ==
  CASE ~s.ok -> s
    [] s.ok /\ s.type = "sum" -> UpdateSum(s, in, out)
    [] s.ok /\ s.type = "ma" -> UpdateMa(s, in, out)
    [] OTHER -> UpdateExtreme(s, in, out)

\* Reset of each; TMin and TMax keep their candidates.
ResetSignal(s) == [s EXCEPT !.Val = Start(s.type), !.Count = 0]

(***************************************************************************)
(* What the signals are to be.                                             *)
(***************************************************************************)
ValuesOf(records) == {records[n].val : n \in DOMAIN records}

SignalOf(s, records) ==
  CASE s.type = "sum" -> s.Val = Total(records)
    [] s.type = "ma" -> s.Val = Total(records) /\ s.Count = Len(records)
    [] s.type = "min" -> records # << >> => s.Val = Min(ValuesOf(records))
    [] s.type = "max" -> records # << >> => s.Val = Max(ValuesOf(records))
=============================================================================
