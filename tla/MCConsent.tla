----------------------------- MODULE MCConsent -----------------------------
(***************************************************************************)
(* Instances of Consent for TLC; processes, sources and identifiers are    *)
(* interchangeable.                                                        *)
(***************************************************************************)
EXTENDS Consent, TLC

Symmetry ==
  Permutations(Process) \cup Permutations(Source) \cup Permutations(ConnectionId)
=============================================================================
