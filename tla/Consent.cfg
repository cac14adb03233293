SPECIFICATION Spec
CONSTANTS
  Process = {p1}
  Source = {s1, s2}
  ConnectionId = {c1, c2}
SYMMETRY Symmetry
INVARIANTS
  TypeOK
  OneConnectionPerSource
  CollectsOnlyEnabled
PROPERTIES
  DisconnectIsFinal
  DecisionsPersist
  RevocationKept
