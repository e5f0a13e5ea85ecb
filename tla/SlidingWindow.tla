---------------------------- MODULE SlidingWindow ----------------------------
(***************************************************************************)
(* What a time window promises: at time t it holds the records that came   *)
(* no later than Delay before t and no earlier than WinSize before that;   *)
(* and it tells which records entered it and which left it in the last     *)
(* step.  WinBuf and WinBufMem implement it.                               *)
(***************************************************************************)
EXTENDS Integers, Sequences

CONSTANTS WinSize, Delay, Time, Record

VARIABLES
  held,      \* the records that are in the window or may still enter it, oldest first
  window,    \* the records in the window
  entered,   \* what entered in the last step ...
  left       \* ... and what left

vars == <<held, window, entered, left>>

Init == held \in Seq(Record) /\ window = << >> /\ entered = << >> /\ left = << >>

Over(r, t) == r.tm < t - Delay - WinSize
Due(r, t) == r.tm <= t - Delay

\* Time goes on to t, and records come in.
Step(t, new) ==
  LET all == held \o new
      old == Len(window)
      In(r) == Due(r, t) /\ ~Over(r, t)
      Gone(r) == Over(r, t)
      Kept(r) == ~Over(r, t)
  IN /\ held' = SelectSeq(all, Kept)
     /\ window' = SelectSeq(all, In)
     /\ entered' = SelectSeq(SubSeq(all, old + 1, Len(all)), In)
     /\ left' = SelectSeq(window, Gone)

Reset == held' = << >> /\ window' = << >> /\ entered' = << >> /\ left' = << >>

Next ==
  \/ \E t \in Time : Step(t, << >>) \/ \E r \in Record : Step(t, <<r>>)
  \/ Reset
=============================================================================
