SPECIFICATION Spec
CONSTANTS
  Process = {p1}
  Event = {e1, e2, e3}
  Day = {1, 2}
  DayOf <- MCDayOf
  Prior = {"none", "foreign", "binary"}
INVARIANT
  TypeOK
PROPERTIES
  RecordsReplacedWhole
