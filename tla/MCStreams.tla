------------------------------- MODULE MCStreams -------------------------------
(***************************************************************************)
(* The parts of the stream aggregates that keep time: the window over a    *)
(* store (WinBuf) and the one in memory (Memory) with their signals, the   *)
(* merger of two signals (Merged), the resampler of two fields (Resampled) *)
(* and the aggregating one (Aggregated).  Which one it is, is chosen in    *)
(* the initial state; the others are idle, with parameters Idle picks.     *)
(***************************************************************************)
EXTENDS WinBuf

CONSTANTS
  MemWinSize, MemTime, MemFirstLen, MaxHeld,
  MergerTimes, MergerValues, MergerPoints,
  ResamplerTimes, ResamplerValues, Interval, Starts, ResamplerPoints,
  AggrTime, AggrStarts, RoundStart, AggrFirstLen, AggrPoints

VARIABLES
  kind,
  UpdateType, input, WindowQ, DelayQ, InV, OutV, memInitP, memSignal, memHist,
  OnlyPast, mergerKinds, m,
  kinds, Interp, InterpPointMSecs, out, start, points,
  SkipEmptyP, CurrentTmMSecs, LastResampPointMSecs, Buff, aggrInitP, intervals, taken, aggrLatest

memory == <<UpdateType, input, WindowQ, DelayQ, InV, OutV, memInitP, memSignal, memHist>>
merger == <<OnlyPast, mergerKinds, m>>
resampler == <<kinds, Interp, InterpPointMSecs, out, start, points>>
aggregator == <<SkipEmptyP, CurrentTmMSecs, LastResampPointMSecs, Buff, aggrInitP, intervals, taken, aggrLatest>>
all == <<kind, vars, memory, merger, resampler, aggregator>>

Memory == INSTANCE WinBufMem WITH
  WinSizeMSecs <- MemWinSize, Time <- MemTime, FirstLen <- MemFirstLen,
  InitP <- memInitP, signal <- memSignal, hist <- memHist
Merged == INSTANCE Merger WITH
  Signal <- {1, 2}, Times <- MergerTimes, Values <- MergerValues, MaxPoints <- MergerPoints,
  Reads <- [a |-> <<1>>, b |-> <<2>>, ab |-> <<1, 2>>], kinds <- mergerKinds
Resampled == INSTANCE Resampler WITH
  Field <- {1, 2}, Times <- ResamplerTimes, Values <- ResamplerValues, IntervalMSecs <- Interval,
  MaxPoints <- ResamplerPoints
Aggregated == INSTANCE AggrResampler WITH
  Time <- AggrTime, IntervalMSecs <- Interval, Starts <- AggrStarts, FirstLen <- AggrFirstLen,
  MaxPoints <- AggrPoints, InitP <- aggrInitP, out <- intervals, points <- taken, latest <- aggrLatest

\* Windows of one record or two that the store held before.
MCExisting == {<< >>, <<[tm |-> 3, val |-> 1], [tm |-> 5, val |-> 2]>>}

Idle ==
  /\ kind # "store" => signal.type = "sum" /\ recs = << >>
  /\ kind # "memory" => memSignal.type = "sum" /\ input.val = 1 /\ UpdateType = "always"
  /\ kind # "merger" => OnlyPast /\ mergerKinds = <<"current", "current">>
  /\ kind # "resampler" => InterpPointMSecs = 0 /\ kinds = <<"current", "current">>
  /\ kind # "aggregator" => ~SkipEmptyP /\ ~aggrInitP

MCInit ==
  /\ kind \in {"store", "memory", "merger", "resampler", "aggregator"}
  /\ Init /\ Memory!Init /\ Merged!Init /\ Resampled!Init /\ Aggregated!Init
  /\ Idle

MCNext ==
  /\ \/ kind = "store" /\ Next /\ UNCHANGED <<memory, merger, resampler, aggregator>>
     \/ kind = "memory" /\ Memory!Next /\ UNCHANGED <<vars, merger, resampler, aggregator>>
     \/ kind = "merger" /\ Merged!Next /\ UNCHANGED <<vars, memory, resampler, aggregator>>
     \/ kind = "resampler" /\ Resampled!Next /\ UNCHANGED <<vars, memory, merger, aggregator>>
     \/ kind = "aggregator" /\ Aggregated!Next /\ UNCHANGED <<vars, memory, merger, resampler>>
  /\ UNCHANGED kind

MCSpec == MCInit /\ [][MCNext]_all

\* What the windows hold is what is to be there, and the store still has it.
WindowsAreExact == TypeOK /\ WindowIsExact /\ NothingIsMissing /\ Memory!TypeOK

\* The signals are those of what is in the windows.
SignalsAreExact == SignalIsExact /\ Memory!SignalIsExact

\* Both windows are windows: what they tell entered and left is what did.
WindowsSlide == ImplementsSlidingWindow /\ Memory!ImplementsSlidingWindow

\* The series made of others have exactly the records they are to have, in their order, with
\* the values that the points give.  With OnlyPast the merger loses records unless all signals
\* take the current point, see HeldRecordIsKept.
NoneLosable == ~OnlyPast \/ mergerKinds = <<"current", "current">>
SeriesAreExact ==
  /\ Merged!NoneAsserts /\ Merged!MadeInOrder /\ Merged!ValuesAreExact /\ Merged!NotBehind
  /\ NoneLosable => Merged!NoneMissing
  /\ Resampled!RecordsAreExact
  /\ Aggregated!IntervalsAreExact /\ Aggregated!NoneWaits

\* "we need to wait until we get at least one future point before committing the
\* interpolation" (src/src/qminer/qminer_aggr.cpp:1377): the record that waits is committed.
HeldRecordIsKept == Merged!NoneMissing
================================================================================
