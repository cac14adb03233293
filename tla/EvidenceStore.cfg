SPECIFICATION Spec
CONSTANTS
  Writer = {w1, w2}
  EventId = {e1, e2}
  Observation = {o1, o2}
  AnnotationId = {a1, a2}
  Field = {f1, f2}
  None = None
SYMMETRY Symmetry
INVARIANTS
  TypeOK
  TargetsExist
  SupersessionKeepsSubject
  SupersessionAcyclic
  AcceptedIsStored
PROPERTIES
  EventsAppendOnly
  AnnotationsAppendOnly
CHECK_DEADLOCK FALSE
