SPECIFICATION EnabledSpec
CONSTANTS
  DayLength = 3
  OffsetChange = 0
  OffsetBefore = 0
  OffsetAfter = 0
  Main = Main
  Sched = Sched
  Offered <- MCOffered
  Remote = {Cli}
  MaxNow = 4
  MaxEdits = 1
  MaxManual = 1
  MaxOutages = 1
  MaxCrashes = 1
INVARIANTS
  TypeOK
  UpdatesExclusive
  ThreadAccountedFor
PROPERTIES
  OccurrencesAdvance
  AttemptsAdvance
CHECK_DEADLOCK FALSE
