SPECIFICATION Spec
CONSTANTS
  DayLength = 3
  OffsetChange = 0
  OffsetBefore = 0
  OffsetAfter = 1
  Horizon = 44
  Epoch = 22
  Base = 4
  SecondBytes = 2
  NanoBytes = 1
  SecondNanos = 3
  LastSecond = 7
  CountLimit = 8
  Top = 0
  Entry = {1, 2, 3}
  MaxDepth = 1
  Longest = 2
INVARIANTS
  NextRunIsFirstOccurrence
  RowsReadBack
  RepositoriesFound
  EvidenceAccountedFor
  RefusedCommandsChangeNothing
PROPERTIES
  RecomputingKeepsTheNextRun
  OneRunPerRecordDate
  ListedInTimeOrder
CHECK_DEADLOCK FALSE
