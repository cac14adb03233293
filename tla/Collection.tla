----------------------------- MODULE Collection -----------------------------
(***************************************************************************)
(* One collection from one repository, from the commits to the record: the *)
(* engine of crates/schomburg-engine with the registries of                *)
(* crates/schomburg-connector, the import of the Git connector, and the    *)
(* entries the presenter makes of what was stored.                         *)
(*                                                                         *)
(* A result is a record, or None when the code returns an error before it  *)
(* does anything.  What other writers do meanwhile is in UpdateRecord.     *)
(***************************************************************************)
EXTENDS GitCommits

None == [at |-> "nothing done"]

-----------------------------------------------------------------------------
(* The engine.                                                             *)

\* ConnectorRegistry::register: the first of an identifier stays.
Register(registry, descriptor) ==
  IF descriptor.id \in DOMAIN registry THEN registry
  ELSE [id \in DOMAIN registry \cup {descriptor.id} |->
          IF id = descriptor.id THEN descriptor ELSE registry[id]]

Registered(registry, descriptor) ==
  descriptor.id \in DOMAIN registry /\ registry[descriptor.id] = descriptor

\* Mutant: an event that is already stored is an error like any other.
AcceptNewOnly(descriptor, stored, event, storeFails) ==
  IF event.connector = descriptor.id /\ ~storeFails /\ event.id \notin {e.id : e \in stored}
  THEN "imported" ELSE "rejected"

\* EngineEventSink::accept, as the import counts its answers: events of another
\* connector and those the store fails on are rejected.
Accept(descriptor, stored, event, storeFails) ==
  IF event.connector # descriptor.id \/ storeFails THEN "rejected"
  ELSE IF event.id \in {e.id : e \in stored} THEN "duplicates"
  ELSE "imported"

-----------------------------------------------------------------------------
(* The import.                                                             *)

NoReport == [imported |-> 0, duplicates |-> 0, rejected |-> 0, failed |-> 0]

\* One turn of import_into: the event, and the sink's answer to it.  An error of
\* the walk itself is not counted.
ImportOne(run, descriptor, repository, commit, storeFails) ==
  LET made == EventForCommit(repository, commit)
      outcome == IF made = {} THEN "failed"
                 ELSE Accept(descriptor, run.stored, CHOOSE e \in made : TRUE, storeFails)
  IN  IF ~commit.reached THEN [run EXCEPT !.error = TRUE] ELSE
      [stored |-> IF outcome = "imported" THEN run.stored \cup made ELSE run.stored,
       accepted |-> IF outcome = "imported" THEN run.accepted + 1 ELSE run.accepted,
       report |-> [run.report EXCEPT ![outcome] = @ + 1],
       error |-> outcome \in {"failed", "rejected"}]

\* import_into: the walk stops at the first error; what it stored and counted
\* before stays.
ImportInto(stored, descriptor, repository, history, failsAt) ==
  LET after[i \in 0..Len(history)] ==
        IF i = 0 THEN [stored |-> stored, accepted |-> 0, report |-> NoReport, error |-> FALSE]
        ELSE IF after[i - 1].error THEN after[i - 1]
        ELSE ImportOne(after[i - 1], descriptor, repository, history[i], failsAt = i)
  IN  after[Len(history)]

\* Engine::collect, and the two ways it refuses.
Collect(registry, descriptor, stored, repository, history, failsAt) ==
  IF ~Registered(registry, descriptor) THEN None
  ELSE ImportInto(stored, descriptor, repository, history, failsAt)

-----------------------------------------------------------------------------
(* The record.                                                             *)

\* PresentationRegistry::present_compact.
Present(presenters, event) ==
  IF event.connector \notin presenters THEN {} ELSE PresentCompact(event)

\* generate: every event has an entry, that of an event that cannot be
\* presented says so.
TimelineEntry(presenters, event) ==
  LET shown == Present(presenters, event)
  IN  IF shown = {}
      THEN [event |-> event.id, error |-> TRUE, source |-> event.connector,
            title |-> "Evidence presentation error"]
      ELSE LET p == CHOOSE s \in shown : TRUE
           IN  [event |-> event.id, error |-> FALSE, source |-> p.subtitle,
                title |-> p.title]

Timeline(presenters, stored) == {TimelineEntry(presenters, e) : e \in stored}
=============================================================================
