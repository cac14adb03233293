SPECIFICATION EnabledSpec
CONSTANTS
  DayLength = 3
  OffsetChange = 0
  OffsetBefore = 0
  OffsetAfter = 0
  Main = Main
  Sched = Sched
  Offered <- MCOffered
  Remote = {}
  MaxNow = 5
  MaxEdits = 1
  MaxManual = 0
  MaxOutages = 0
  MaxCrashes = 0
PROPERTIES
  PausedNeverStarts
CHECK_DEADLOCK FALSE
