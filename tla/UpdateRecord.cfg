SPECIFICATION FairSpec
CONSTANTS
  Process = {p1}
  Operation = {"update", "collect", "generate"}
  Repo = {"git", "bad"}
  Event <- MCEvent
  RepoOf <- MCRepoOf
  History <- MCHistory
  Malformed = {4}
  NoCommit = NoCommit
  Day = {1, 2}
  DayOf <- MCDayOf
  Prior = {"none", "foreign"}
  MaxMoves = 3
  MaxFaults = 2
INVARIANTS
  TypeOK
  HistoryClosed
PROPERTIES
  NewEvidenceShown
  EventuallyImported
