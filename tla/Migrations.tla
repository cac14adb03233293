----------------------------- MODULE Migrations -----------------------------
(***************************************************************************)
(* Opening the database in crates/schomburg-store: Store::open and the     *)
(* migrations it applies, by any number of processes at once.              *)
(*                                                                         *)
(* For each version the code asks whether it is installed, and if not runs *)
(* its script and records it in one transaction.  The question is asked    *)
(* before the transaction begins, and SQLite takes the write lock only at  *)
(* the first statement of the script, so another process may install the   *)
(* version in between; the script then finds its tables there and fails.   *)
(***************************************************************************)
EXTENDS Naturals

CONSTANTS
  Process,
  Files     \* what the tables of the database may hold before the first opens it

VARIABLES
  installed,  \* the versions recorded in schema_migrations
  table,      \* what the tables of each version hold
  lock,       \* the process holding SQLite's write lock, as a set of at most one
  opener      \* where each process stands in Store::open

vars == <<installed, table, lock, opener>>

\* The versions of MIGRATIONS.  The fourth copies the operational columns of
\* the table the third created.
Version == 1..4
Last == 4
Copied == 4
CopiedFrom == 3

\* "new": as the script leaves them; "used": holding something since.
Content == {"absent", "new", "used"}
Stage == {"closed", "check", "script", "commit", "open", "failed"}

TypeOK ==
  /\ installed \subseteq Version
  /\ table \in [Version -> Content]
  /\ lock \in SUBSET Process
  /\ opener \in [Process -> [at : Stage, version : Version]]

\* A database of this or of an earlier release, or a new file.
Init ==
  /\ table \in Files \cap [Version -> Content]
  /\ \E k \in 0..Last :
       /\ installed = 1..k
       /\ \A v \in Version : table[v] = "absent" <=> v > k
  /\ lock = {}
  /\ opener = [p \in Process |-> [at |-> "closed", version |-> 1]]

-----------------------------------------------------------------------------

At(p, stage) == opener[p].at = stage
Moves(p, stage) == opener' = [opener EXCEPT ![p].at = stage]
Resets(p, stage) == opener' = [opener EXCEPT ![p] = [at |-> stage, version |-> 1]]

\* Connection::open and the batch that creates schema_migrations.
BeginOpen(p) ==
  /\ opener[p].at \in {"closed", "failed"}
  /\ Resets(p, "check")
  /\ UNCHANGED <<installed, table, lock>>

\* Mutant: the version after the last is looked for, too.
AdvancePastLast(p) ==
  IF opener[p].version > Last THEN Resets(p, "open")
  ELSE opener' = [opener EXCEPT ![p] = [at |-> "check", version |-> @.version + 1]]

\* On to the next version, or done.
Advance(p) ==
  IF opener[p].version = Last THEN Resets(p, "open")
  ELSE opener' = [opener EXCEPT ![p] = [at |-> "check", version |-> @.version + 1]]

CheckInstalled(p) ==
  /\ At(p, "check")
  /\ IF opener[p].version \in installed THEN Advance(p) ELSE Moves(p, "script")
  /\ UNCHANGED <<installed, table, lock>>

\* Mutant: the script is not part of the transaction.
RunScriptOutside(p) ==
  /\ At(p, "script")
  /\ lock = {}
  /\ IF table[opener[p].version] # "absent"
     THEN Resets(p, "failed") /\ UNCHANGED <<table, lock>>
     ELSE /\ Moves(p, "commit")
          /\ lock' = {p}
          /\ table' = [table EXCEPT ![opener[p].version] = "new"]
  /\ UNCHANGED installed

\* Mutant: CREATE TABLE IF NOT EXISTS and INSERT OR REPLACE in the scripts.
RunScriptAgain(p) ==
  /\ At(p, "script")
  /\ lock = {}
  /\ Moves(p, "commit") /\ lock' = {p}
  /\ UNCHANGED <<installed, table>>

\* The script, once no other process writes: CREATE TABLE takes the lock and
\* fails if the table has come to exist.
RunScript(p) ==
  /\ At(p, "script")
  /\ lock = {}
  /\ IF table[opener[p].version] # "absent"
     THEN Resets(p, "failed") /\ UNCHANGED lock
     ELSE Moves(p, "commit") /\ lock' = {p}
  /\ UNCHANGED <<installed, table>>

\* Waiting for the lock longer than SQLite's busy timeout.
LockTimesOut(p) ==
  /\ At(p, "script")
  /\ lock # {}
  /\ Resets(p, "failed")
  /\ UNCHANGED <<installed, table, lock>>

\* The version is recorded and the transaction committed: others see the
\* tables and the record of them at once.
Commit(p) ==
  /\ At(p, "commit")
  /\ LET v == opener[p].version
     IN  /\ installed' = installed \cup {v}
         /\ table' = [table EXCEPT ![v] =
                        IF v = Copied THEN table[CopiedFrom] ELSE "new"]
  /\ lock' = {}
  /\ Advance(p)

\* A process that has opened the store writes to its tables.
Use(p) ==
  /\ At(p, "open")
  /\ lock = {}
  /\ table' = [v \in Version |-> "used"]
  /\ UNCHANGED <<installed, lock, opener>>

\* The process ends, or dies at any point: SQLite rolls its transaction back.
End(p) ==
  /\ opener[p].at # "closed"
  /\ Resets(p, "closed")
  /\ lock' = lock \ {p}
  /\ UNCHANGED <<installed, table>>

OpenStep(p) ==
  \/ CheckInstalled(p)
  \/ RunScript(p)
  \/ LockTimesOut(p)
  \/ Commit(p)

Next ==
  \E p \in Process :
    \/ BeginOpen(p)
    \/ OpenStep(p)
    \/ Use(p)
    \/ End(p)

Spec == Init /\ [][Next]_vars

-----------------------------------------------------------------------------

\* Whatever processes race or die, the database is always that of some release:
\* the versions recorded are the first few, exactly their tables exist, and a
\* process that has opened it finds all of them.  So a process that failed
\* because it was overtaken succeeds when it opens again.
SchemaWhole ==
  /\ \E k \in 0..Last : installed = 1..k
  /\ \A v \in Version : v \in installed <=> table[v] # "absent"
  /\ \A p \in Process : At(p, "open") => installed = Version

\* Opening the database never loses what it holds: what a version's tables
\* have come to hold stays, and the fourth takes over what the third held.
OpeningKeepsData ==
  [][/\ \A v \in Version : table[v] = "used" => table'[v] = "used"
     /\ table[CopiedFrom] = "used" /\ table[Copied] = "absent"
          => table'[Copied] # "new"]_vars
=============================================================================
