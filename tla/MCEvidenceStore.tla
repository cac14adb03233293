--------------------------- MODULE MCEvidenceStore ---------------------------
(***************************************************************************)
(* Instances of EvidenceStore for TLC; the writers, the events and the     *)
(* fields are interchangeable.                                             *)
(***************************************************************************)
EXTENDS EvidenceStore, TLC

Symmetry == Permutations(Writer) \cup Permutations(Observation) \cup Permutations(EventId)
              \cup Permutations(Field) \cup Permutations(AnnotationId)
=============================================================================
