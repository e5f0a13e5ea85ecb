SPECIFICATION MCSpec
CONSTANTS
  WinSizeMSecs = 2
  DelayMSecs = 1
  WindowSize = 3
  Time = {3, 4, 5, 6, 7}
  Value = {1, 2}
  Existing <- MCExisting
  MaxRecs = 4
  MemWinSize = 1
  MemTime = {2, 3, 4, 5, 6}
  MemFirstLen = 2
  MaxHeld = 3
  MergerTimes = {1, 2, 3, 4}
  MergerValues = {0, 6}
  MergerPoints = 2
  ResamplerTimes = {1, 2, 3, 4, 5, 6}
  ResamplerValues = {0, 60}
  Interval = 2
  Starts = {0, 1, 3}
  ResamplerPoints = 3
  AggrTime = {2, 3, 4, 5, 6, 7, 8}
  AggrStarts = {0, 5}
  RoundStart = 3
  AggrFirstLen = 2
  AggrPoints = 3
INVARIANT HeldRecordIsKept
CHECK_DEADLOCK FALSE
