SPECIFICATION Spec
CONSTANTS
  Process = {p1}
  Operation = {"update"}
  Repo = {"git", "bad"}
  Event <- MCEvent
  RepoOf <- MCRepoOf
  History <- MCHistory
  Malformed = {4}
  NoCommit = NoCommit
  Day = {1, 2}
  DayOf <- MCDayOf
  Prior = {"none"}
  MaxMoves = 2
  MaxFaults = 1
PROPERTIES
  RecordIsCurrent
