------------------------------- MODULE WinBuf -------------------------------
(***************************************************************************)
(* The time window over the records of a store, TWinBuf (qminer_aggr.hpp), *)
(* and a signal that TWinAggr keeps up to date over it.                    *)
(*                                                                         *)
(* The window is two pairs of record ids: what is to be forgotten is       *)
(* A..B-1, the window B..D-1, what is to be added C..D-1; a record that    *)
(* went by the window in one step is neither forgotten nor added.  The     *)
(* records themselves are read from the store when they are asked for, so  *)
(* they must still be there: the store drops old ones when garbage is      *)
(* collected.                                                              *)
(*                                                                         *)
(* As the code assumes, ids have no holes and times do not decrease;       *)
(* times are so large that t - Delay - WinSize does not wrap, and time is  *)
(* set only when there is a record (README, departures).  The aggregates   *)
(* of a set are called one after the other, so a step of the buffer and of *)
(* the signal that reads it is one action.                                 *)
(***************************************************************************)
EXTENDS Integers, Sequences, WinSignals

CONSTANTS
  WinSizeMSecs, DelayMSecs,
  WindowSize,     \* the time for which the store keeps records
  Time, Value,    \* times and values of records
  Existing,       \* sequences of records the store may hold before the buffer is there
  MaxRecs         \* bound: records ever added to the store

ConstantsOK ==
  /\ WinSizeMSecs \in Nat /\ DelayMSecs \in Nat /\ WindowSize \in Nat
  /\ WindowSize >= WinSizeMSecs + DelayMSecs
  /\ Time \subseteq Nat /\ Value \subseteq Int
  /\ Existing \subseteq Seq([tm : Time, val : Value])
  /\ \A s \in Existing : \A i, j \in DOMAIN s : i <= j => s[i].tm <= s[j].tm
ASSUME WinBufAssumption == ConstantsOK

VARIABLES
  recs,           \* the records added to the store, record n with id n - 1 ...
  first,          \* ... and the id of the first that is still there
  A, B, C, D,
  InitP, Timestamp,
  signal,
  failed,         \* a read asserted that its record is in the store, and it was not
  base,           \* history: the first id the buffer is about; 0, or where it was reset
  hist            \* history: whether the window was ever left empty by a step, and
                  \* whether a reset left candidates in the signal

store == <<recs, first>>
buffer == <<A, B, C, D, InitP, Timestamp>>
vars == <<store, buffer, signal, failed, base, hist>>

Init ==
  /\ recs \in Existing /\ first = 0
  /\ A = 0 /\ B = 0 /\ C = 0 /\ D = 0 /\ InitP = FALSE /\ Timestamp = 0
  /\ signal \in {NewSignal(type) : type \in SignalTypes}
  /\ failed = FALSE /\ base = 0 /\ hist = [emptied |-> FALSE, carried |-> FALSE]

(***************************************************************************)
(* Where a record is.  rs are the records of the store after the one that  *)
(* is just being added.                                                    *)
(***************************************************************************)
Tm(rs, id) == rs[id + 1].tm
InStore(rs, id) == first <= id /\ id < Len(rs)

BeforeBuffer(rs, id, t) ==
  id < first \/ (InStore(rs, id) /\ Tm(rs, id) < t - DelayMSecs - WinSizeMSecs)
\* Mutant of AfterBuffer: a record on the edge of the window is still to come.
AfterBufferLate(rs, id, t) ==
  id >= Len(rs) \/ (InStore(rs, id) /\ Tm(rs, id) >= t - DelayMSecs)
AfterBuffer(rs, id, t) ==
  id >= Len(rs) \/ (InStore(rs, id) /\ Tm(rs, id) > t - DelayMSecs)

\* The two loops: on to the first id that is not before the buffer, or after it.
Least(S) == CHOOSE n \in S : \A m \in S : n <= m
NotBefore(rs, from, t) == Least({id \in from..Len(rs) + from : ~BeforeBuffer(rs, id, t)})
IsAfter(rs, from, t) == Least({id \in from..Len(rs) + from : AfterBuffer(rs, id, t)})

\* Mutant of Skip: records that went by the window are forgotten, and added.
SkipNone(b, c) == 0
Skip(b, c) == IF b > c THEN b - c ELSE 0

\* The records that entered and left: GetInValV, GetOutValV, with their times.
Entered(rs, b, c, d) == SubSeq(rs, c + Skip(b, c) + 1, d)
Left(rs, a, b, c) == SubSeq(rs, a + 1, b - Skip(b, c))

\* The first and the last record that is read must be in the store.
Readable(rs, from, to) == from < to => InStore(rs, from) /\ InStore(rs, to - 1)

\* TWinBuf::OnTime, and after it the OnStep of the signal.
UpdateTo(rs, t) ==
  LET b == NotBefore(rs, B, t)
      d == IsAfter(rs, D, t)
      fails == ~( /\ Readable(rs, D + Skip(b, D), d)
                  /\ Readable(rs, B, b - Skip(b, D)) )
  IN /\ InitP' = TRUE /\ Timestamp' = t
     /\ A' = B /\ B' = b /\ C' = D /\ D' = d
     /\ failed' = (failed \/ fails)
     /\ signal' = IF failed' THEN signal
                  ELSE Update(signal, Entered(rs, b, D, d), Left(rs, B, b, D))
     /\ hist' = [hist EXCEPT !.emptied = @ \/ b >= d]

(***************************************************************************)
(* Actions.                                                                *)
(***************************************************************************)
\* Time does not go back: not behind the last record, and not behind OnTime.
Reached(t) == t >= Timestamp /\ (recs # << >> => t >= recs[Len(recs)].tm)

AddRec(t, v) ==
  /\ Len(recs) < MaxRecs /\ Reached(t)
  /\ recs' = Append(recs, [tm |-> t, val |-> v])
  /\ UpdateTo(recs', t)
  /\ UNCHANGED <<first, base>>

OnTime(t) ==
  /\ recs # << >> /\ Reached(t)
  /\ UpdateTo(recs, t)
  /\ UNCHANGED <<store, base>>

\* TStreamAggrSet::Reset of the buffer and the signal.
Reset ==
  /\ A' = Len(recs) /\ B' = Len(recs) /\ C' = Len(recs) /\ D' = Len(recs)
  /\ InitP' = FALSE /\ Timestamp' = 0
  /\ signal' = ResetSignal(signal)
  /\ base' = Len(recs)
  /\ hist' = [hist EXCEPT !.carried = @ \/ signal.AllValV # << >>]
  /\ UNCHANGED <<store, failed>>

\* TStoreImpl::GarbageCollect of a window of time over the field of the times.
Outdated(id) == Tm(recs, id) < recs[Len(recs)].tm - WindowSize

GarbageCollect ==
  /\ recs # << >> /\ Outdated(first)
  /\ first' = Least({id \in first..Len(recs) : id = Len(recs) \/ ~Outdated(id)})
  /\ UNCHANGED <<recs, buffer, signal, failed, base, hist>>

Next ==
  \/ \E t \in Time, v \in Value : AddRec(t, v)
  \/ \E t \in Time : OnTime(t)
  \/ Reset
  \/ GarbageCollect

Spec == Init /\ [][Next]_vars

(***************************************************************************)
(* Properties.                                                             *)
(***************************************************************************)
TypeOK ==
  /\ recs \in Seq([tm : Time, val : Value]) /\ first \in Nat
  /\ A \in Nat /\ B \in Nat /\ C \in Nat /\ D \in Nat
  /\ InitP \in BOOLEAN /\ Timestamp \in Nat /\ base \in Nat /\ failed \in BOOLEAN

\* The window is the records from the first one it is about that came, at the last
\* time it was told, neither before the window nor after it.
InWindow(id) ==
  /\ Tm(recs, id) <= Timestamp - DelayMSecs
  /\ Tm(recs, id) >= Timestamp - DelayMSecs - WinSizeMSecs
WindowIsExact ==
  InitP => \A id \in 0..Len(recs) - 1 : B <= id /\ id < D <=> base <= id /\ InWindow(id)

\* What a window reads is still in the store, whatever garbage was collected.
NothingIsMissing == ~failed

Window == SubSeq(recs, B + 1, D)

\* The signal is that of the records in the window.  It is undefined only for a
\* minimum or maximum of a window that had become empty.
SignalIsExact ==
  ~hist.carried =>
    /\ signal.ok /\ InitP => SignalOf(signal, Window)
    /\ signal.ok \/ (signal.type \in {"min", "max"} /\ hist.emptied)

\* "Resets the model state" (TMin::Reset, TMax::Reset): after a reset nothing that came
\* before it counts.
ResetForgets == signal.ok /\ InitP => SignalOf(signal, Window)

\* The window is one.
Abstract == INSTANCE SlidingWindow WITH
  WinSize <- WinSizeMSecs, Delay <- DelayMSecs, Record <- [tm : Time, val : Value],
  held <- SubSeq(recs, B + 1, Len(recs)), window <- Window,
  entered <- Entered(recs, B, C, D), left <- Left(recs, A, B, C)
ImplementsSlidingWindow == Abstract!Init /\ [][Abstract!Next]_(Abstract!vars)
=============================================================================
