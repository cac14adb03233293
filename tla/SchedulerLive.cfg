SPECIFICATION EnabledFairSpec
CONSTANTS
  DayLength = 3
  OffsetChange = 0
  OffsetBefore = 0
  OffsetAfter = 0
  Main = Main
  Sched = Sched
  Offered <- MCOffered
  Remote = {}
  MaxNow = 5
  MaxEdits = 0
  MaxManual = 1
  MaxOutages = 1
  MaxCrashes = 0
PROPERTIES
  StopReturns
  WaitedRunIsAttempted
CHECK_DEADLOCK FALSE
