SPECIFICATION FairSpec
CONSTANTS
  Process = {h, other}
  Files <- MCFiles
  Host = h
  Caller = {c1, c2}
  Request <- Requests
  MaxCalls = 2
  MaxHosts = 1
  MaxRuns = 1
INVARIANTS
  TypeOK
  SchemaWhole
PROPERTIES
  OpeningKeepsData
  CallsKept
  Answered
CHECK_DEADLOCK FALSE
