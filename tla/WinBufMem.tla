------------------------------ MODULE WinBufMem ------------------------------
(***************************************************************************)
(* The time window that keeps its values in memory, TWinBufMem             *)
(* (qminer_aggr.hpp): what comes from the aggregate it reads waits in a    *)
(* queue for the delay to pass, then moves to the queue of the window, and *)
(* leaves that at its other end.  A signal reads it, as in WinBuf.         *)
(***************************************************************************)
EXTENDS Integers, Sequences, WinSignals

CONSTANTS
  WinSizeMSecs, DelayMSecs,
  Time, Value,
  FirstLen,      \* see RingQueue
  MaxHeld        \* bound: values in the two queues

Q == INSTANCE RingQueue

VARIABLES
  UpdateType,          \* parameter: whether a value is read at every call, or only for
                       \* a new record
  input,               \* InAggr, InAggrTm: the value and time it shows
  WindowQ, DelayQ,
  InV, OutV,           \* InValV and InTmMSecsV, OutValV and OutTmMSecsV
  InitP,
  signal,
  hist                 \* history: whether the window was ever left empty by a step,
                       \* whether a value ever went by it, whether a reset left
                       \* candidates in the signal

queues == <<WindowQ, DelayQ>>
vars == <<UpdateType, input, queues, InV, OutV, InitP, signal, hist>>

Waiting == Q!Contents(DelayQ)
Window == Q!Contents(WindowQ)

Init ==
  /\ UpdateType \in {"onNewRecord", "always"}
  /\ input \in {[tm |-> t, val |-> v] : t \in {Min(Time)}, v \in Value}
  /\ WindowQ = Q!NewQueue /\ DelayQ = Q!NewQueue
  /\ InV = << >> /\ OutV = << >> /\ InitP = FALSE
  /\ signal \in {NewSignal(type) : type \in SignalTypes}
  /\ hist = [emptied |-> FALSE, passed |-> FALSE, carried |-> FALSE]

(***************************************************************************)
(* UpdateTime: two loops that move elements while they are due, or over.   *)
(***************************************************************************)
IsDue(r, t) == r.tm <= t - DelayMSecs
IsOver(r, t) == r.tm < t - DelayMSecs - WinSizeMSecs

\* What the first loop moves from a queue to another, and what the second takes away.
Leading(records, stops) == Min({n \in DOMAIN records : stops[n]} \cup {Len(records) + 1}) - 1
DueNo(records, t) == Leading(records, [n \in DOMAIN records |-> ~IsDue(records[n], t)])
OverNo(records, t) == Leading(records, [n \in DOMAIN records |-> ~IsOver(records[n], t)])

PopNo(q, n) == LET OneLess(p, k) == Q!Pop(p) IN FoldLeft(OneLess, q, [k \in 1..n |-> k])
PushAll(q, records) == LET OneMore(p, r) == Q!Push(p, r) IN FoldLeft(OneMore, q, records)

\* The queue of values that wait is dq once the new value is read.
UpdateTime(dq, t) ==
  LET waiting == Q!Contents(dq)
      in == SubSeq(waiting, 1, DueNo(waiting, t))
      wq == PushAll(WindowQ, in)
      all == Q!Contents(wq)
      out == SubSeq(all, 1, OverNo(all, t))
  IN /\ DelayQ' = PopNo(dq, Len(in))
     /\ WindowQ' = PopNo(wq, Len(out))
     /\ InV' = in /\ OutV' = out
     /\ signal' = IF InitP' THEN Update(signal, in, out) ELSE signal
     /\ hist' = [hist EXCEPT !.emptied = @ \/ Len(out) = Len(all),
                             !.passed = @ \/ Len(out) > Q!QLen(WindowQ)]

(***************************************************************************)
(* Actions.  The aggregate that is read goes on first: to a later time, or *)
(* to another value.                                                       *)
(***************************************************************************)
Reads(r) ==
  /\ r.tm >= input.tm /\ Q!QLen(DelayQ) + Q!QLen(WindowQ) < MaxHeld
  /\ input' = r
  /\ UNCHANGED UpdateType

\* UpdateVal
UpdateVal(r) == InitP' = TRUE /\ UpdateTime(Q!Push(DelayQ, r), r.tm)

OnAddRec(r) == Reads(r) /\ UpdateVal(r)

\* OnStep and OnTime; the time OnTime is given is not looked at.
OnStep(r) ==
  /\ Reads(r)
  /\ IF UpdateType = "always" THEN UpdateVal(r) ELSE UNCHANGED InitP /\ UpdateTime(DelayQ, r.tm)

\* Mutant of Emptied: the values that wait survive the reset.
EmptiedWindow == WindowQ' = Q!NewQueue /\ UNCHANGED DelayQ
Emptied == WindowQ' = Q!NewQueue /\ DelayQ' = Q!NewQueue

Reset ==
  /\ Emptied
  /\ InV' = << >> /\ OutV' = << >> /\ InitP' = FALSE
  /\ signal' = ResetSignal(signal)
  /\ hist' = [hist EXCEPT !.carried = @ \/ signal.AllValV # << >>]
  /\ UNCHANGED <<input, UpdateType>>

Inputs == [tm : Time, val : Value]
Next == (\E r \in Inputs : OnAddRec(r) \/ OnStep(r)) \/ Reset

Spec == Init /\ [][Next]_vars

(***************************************************************************)
(* Properties.                                                             *)
(***************************************************************************)
TypeOK ==
  /\ input \in Inputs /\ InitP \in BOOLEAN
  /\ \A q \in {WindowQ, DelayQ} :
       /\ q.ValV \in Seq(Inputs)
       /\ q.Last \in 0..Len(q.ValV) /\ q.Next \in 0..Len(q.ValV)

\* The signal is that of the values in the window.  A minimum or maximum is undefined
\* once the window was left empty; a mean once a value went by the window, which TMa is
\* told to delete before it is told to add it.
SignalIsExact ==
  ~hist.carried =>
    /\ signal.ok /\ InitP => SignalOf(signal, Window)
    /\ \/ signal.ok
       \/ signal.type \in {"min", "max"} /\ hist.emptied
       \/ signal.type = "ma" /\ hist.passed

\* The window is one.  What went by it in one step is in both vectors, and did neither
\* enter nor leave.
Passed == Max({0, Len(InV) - Q!QLen(WindowQ)})
Abstract == INSTANCE SlidingWindow WITH
  WinSize <- WinSizeMSecs, Delay <- DelayMSecs, Record <- Inputs,
  held <- Window \o Waiting, window <- Window,
  entered <- SubSeq(InV, Passed + 1, Len(InV)), left <- SubSeq(OutV, 1, Len(OutV) - Passed)
ImplementsSlidingWindow == Abstract!Init /\ [][Abstract!Next]_(Abstract!vars)
=============================================================================
