---------------------------- MODULE UpdateRecord ----------------------------
(***************************************************************************)
(* One Update Record of crates/schomburg-agent from end to end: collect    *)
(* from every connection through the engine and the Git connector, then    *)
(* regenerate the day of each event that was not there before.             *)
(*                                                                         *)
(* Processes (a shell's service, the command line) run `update`, `collect` *)
(* and `record generate` side by side, each one at a time, while the       *)
(* repositories move on.  The connections are those of consented sources;  *)
(* the events are the commits they may import.  Generation is the          *)
(* business of RecordFolder, the guards of a run that of Scheduler.        *)
(***************************************************************************)
EXTENDS Naturals

CONSTANTS
  Process,
  Operation,  \* the operations used, among "update", "collect", "generate"
  Repo,       \* the enabled connections, one repository each
  Event,      \* the commits there are, each the event made of it
  RepoOf,     \* the repository of each commit
  History,    \* each commit with all its ancestors
  Malformed,  \* the commits no event can be made of
  NoCommit,   \* HEAD of an empty repository
  Day, DayOf, Prior,  \* see RecordFolder
  MaxMoves,   \* bound: moves of a HEAD
  MaxFaults   \* bound: failing connections, file operations, crashes

ASSUME HistoryAssumption ==
  /\ RepoOf \in [Event -> Repo]
  /\ History \in [Event -> SUBSET Event]
  /\ \A c \in Event : c \in History[c]
  /\ \A c \in Event : \A d \in History[c] :
       History[d] \subseteq History[c] /\ RepoOf[d] = RepoOf[c]
  /\ \A c, d \in Event : c \in History[d] /\ d \in History[c] => c = d
ASSUME RecordAssumption ==
  /\ Operation \subseteq {"update", "collect", "generate"}
  /\ Malformed \subseteq Event
  /\ NoCommit \notin Event
  /\ MaxMoves \in Nat /\ MaxFaults \in Nat

\* What RecordFolder assumes of the days.
ASSUME DayAssumption ==
  /\ Day \subseteq Nat
  /\ DayOf \in [Event -> Day]
  /\ Prior \subseteq {"none", "foreign", "binary"}

VARIABLES
  head,                          \* HEAD of each repository
  events, file, temporary, gen,  \* see RecordFolder
  run,     \* the operation each process is executing
  status,  \* the state column of the update status they share
  spent    \* how much of each bound has been used

vars == <<head, events, file, temporary, gen, run, status, spent>>

Folder == INSTANCE RecordFolder

Idle == [at |-> "idle"]
Run == [at : {"collect", "generate"}, op : Operation,
        before : SUBSET Event,   \* events stored when the run began
        repos : SUBSET Repo,     \* connections still to be collected from
        walk : SUBSET Event,     \* commits of the current one still to be read
        new : SUBSET Event,      \* events found stored since it began
        pending : SUBSET Event]  \* those whose day is still to be generated

TypeOK ==
  /\ Folder!TypeOK
  /\ head \in [Repo -> Event \cup {NoCommit}]
  /\ run \in [Process -> Run \cup {Idle}]
  /\ status \in {"paused", "running", "succeeded", "failed"}
  /\ spent \in [moves : Nat, faults : Nat]

Init ==
  /\ Folder!Init
  /\ head = [r \in Repo |-> NoCommit]
  /\ run = [p \in Process |-> Idle]
  /\ status = "paused"
  /\ spent = [moves |-> 0, faults |-> 0]

-----------------------------------------------------------------------------

At(p, stage) == run[p].at = stage
Step(p, fields) == run' = [run EXCEPT ![p] = fields]
Fault == spent.faults < MaxFaults /\ spent' = [spent EXCEPT !.faults = @ + 1]

Collecting(op) ==
  [at |-> "collect", op |-> op, before |-> events, repos |-> Repo, walk |-> {},
   new |-> {}, pending |-> {}]

\* begin_run and the first list_events.
BeginUpdate(p) ==
  /\ run[p] = Idle
  /\ "update" \in Operation
  /\ Step(p, Collecting("update"))
  /\ status' = "running"
  /\ UNCHANGED <<head, events, file, temporary, gen, spent>>

\* The collect command: a collection of its own.
BeginCollect(p) ==
  /\ run[p] = Idle
  /\ "collect" \in Operation
  /\ Step(p, Collecting("collect"))
  /\ UNCHANGED <<head, events, file, temporary, gen, status, spent>>

\* The record generate command: every day there is.
BeginGenerate(p) ==
  /\ run[p] = Idle
  /\ "generate" \in Operation
  /\ Step(p, [Collecting("generate") EXCEPT !.at = "generate", !.repos = {}])
  /\ Folder!Generate(p, Day)
  /\ UNCHANGED <<head, status, spent>>

\* open_connection and the start of the walk from HEAD as it is now.
OpenConnection(p) ==
  /\ At(p, "collect")
  /\ run[p].walk = {}
  /\ \E r \in run[p].repos :
       Step(p, [run[p] EXCEPT !.repos = @ \ {r},
                  !.walk = IF head[r] = NoCommit THEN {} ELSE History[head[r]]])
  /\ UNCHANGED <<head, events, file, temporary, gen, status, spent>>

\* Mutant: newest first.
NewestCommits(walk) == {c \in walk : \A d \in walk : c \in History[d] => c = d}

\* The walk is topological, ancestors first.
NextCommits(walk) == {c \in walk : History[c] \cap walk = {c}}

\* Mutant: a malformed commit ends the whole collection.
ImportCommitOrAbort(p) ==
  /\ At(p, "collect")
  /\ \E c \in NextCommits(run[p].walk) :
       IF c \in Malformed
       THEN /\ Step(p, [run[p] EXCEPT !.walk = {}, !.repos = {}])
            /\ UNCHANGED events
       ELSE /\ Step(p, [run[p] EXCEPT !.walk = @ \ {c}])
            /\ events' = events \cup {c}
  /\ UNCHANGED <<head, file, temporary, gen, status, spent>>

\* event_for_commit and append_event: a duplicate is passed over, a commit no
\* event can be made of ends the collection from this connection.
ImportCommit(p) ==
  /\ At(p, "collect")
  /\ \E c \in NextCommits(run[p].walk) :
       IF c \in Malformed
       THEN Step(p, [run[p] EXCEPT !.walk = {}]) /\ UNCHANGED events
       ELSE /\ Step(p, [run[p] EXCEPT !.walk = @ \ {c}])
            /\ events' = events \cup {c}
  /\ UNCHANGED <<head, file, temporary, gen, status, spent>>

\* The repository cannot be opened or walked, or an event not be stored: the
\* failure is noted for the connection and the others are collected from.
ConnectionFails(p) ==
  /\ At(p, "collect")
  /\ Fault
  /\ \/ run[p].walk # {} /\ Step(p, [run[p] EXCEPT !.walk = {}])
     \/ /\ run[p].walk = {}
        /\ \E r \in run[p].repos : Step(p, [run[p] EXCEPT !.repos = @ \ {r}])
  /\ UNCHANGED <<head, events, file, temporary, gen, status>>

\* The second list_events: what is stored now and was not before, whoever
\* stored it.
EndCollection(p) ==
  /\ At(p, "collect")
  /\ run[p].walk = {} /\ run[p].repos = {}
  /\ LET new == events \ run[p].before
     IN  Step(p, IF run[p].op = "collect" THEN Idle
                 ELSE [run[p] EXCEPT !.at = "generate", !.new = new,
                         !.pending = new])
  /\ UNCHANGED <<head, events, file, temporary, gen, status, spent>>

\* generate_date, once for every new event.
GenerateNext(p) ==
  /\ At(p, "generate")
  /\ \E e \in run[p].pending :
       /\ Step(p, [run[p] EXCEPT !.pending = @ \ {e}])
       /\ Folder!Generate(p, {DayOf[e]})
  /\ UNCHANGED <<head, status, spent>>

GenerateStep(p) ==
  /\ Folder!GenerateStep(p)
  /\ UNCHANGED <<head, run, status, spent>>

FileError(p) ==
  /\ Folder!FileError(p)
  /\ Fault
  /\ UNCHANGED <<head, run, status>>

SetStatus(p, state) == status' = IF run[p].op = "update" THEN state ELSE status

\* A day that cannot be generated fails the run.
FailRun(p) ==
  /\ gen[p] = Folder!Failed
  /\ Folder!GiveUp(p)
  /\ Step(p, Idle)
  /\ SetStatus(p, "failed")
  /\ UNCHANGED <<head, spent>>

SucceedRun(p) ==
  /\ At(p, "generate")
  /\ run[p].pending = {} /\ gen[p] = Folder!Idle
  /\ Step(p, Idle)
  /\ SetStatus(p, "succeeded")
  /\ UNCHANGED <<head, events, file, temporary, gen, spent>>

\* The process dies, or a statement outside the connections fails.
GiveUp(p) ==
  /\ run[p] # Idle
  /\ Fault
  /\ Step(p, Idle)
  /\ gen' = [gen EXCEPT ![p] = Folder!Idle]
  /\ \/ UNCHANGED status
     \/ SetStatus(p, "failed")
  /\ UNCHANGED <<head, events, file, temporary>>

RunStep(p) ==
  \/ OpenConnection(p)
  \/ ImportCommit(p)
  \/ EndCollection(p)
  \/ GenerateNext(p)
  \/ GenerateStep(p)
  \/ FailRun(p)
  \/ SucceedRun(p)

\* A commit, an amend, a reset or a checkout.
MoveHead(r) ==
  /\ spent.moves < MaxMoves
  /\ spent' = [spent EXCEPT !.moves = @ + 1]
  /\ \E c \in Event : RepoOf[c] = r /\ head' = [head EXCEPT ![r] = c]
  /\ UNCHANGED <<events, file, temporary, gen, run, status>>

Next ==
  \/ \E p \in Process :
       \/ BeginUpdate(p) \/ BeginCollect(p) \/ BeginGenerate(p)
       \/ RunStep(p)
       \/ ConnectionFails(p) \/ FileError(p) \/ GiveUp(p)
  \/ \E r \in Repo : MoveHead(r)

Spec == Init /\ [][Next]_vars

\* Somebody keeps asking for updates, the scheduler or a user, whatever else
\* is done in between (strong fairness: a process is not free all the time),
\* and every operation that has begun is carried on.
Fairness ==
  \A p \in Process : SF_vars(BeginUpdate(p)) /\ WF_vars(RunStep(p))

FairSpec == Spec /\ Fairness

-----------------------------------------------------------------------------

\* The evidence has no holes: with a commit all its ancestors are stored,
\* whatever failed or died halfway and whoever else was importing.
HistoryClosed == \A c \in events : History[c] \subseteq events

Shown(e) == file[DayOf[e]].kind = "record" /\ e \in file[DayOf[e]].shows

Succeeds(p) ==
  /\ run[p] # Idle /\ run'[p] = Idle
  /\ run[p].op = "update" /\ status' = "succeeded"

\* An update that succeeds has put every event stored since it began into the
\* record of its day.
NewEvidenceShown ==
  [][\A p \in Process : Succeeds(p) => \A e \in run[p].new : Shown(e)]_vars

\* A repository without malformed commits is imported up to its HEAD once it
\* stays put, whatever is the matter with the others and after any number of
\* failures and crashes: updates are idempotent and take up where one failed.
Imported(r) ==
  head[r] # NoCommit /\ History[head[r]] \cap Malformed = {}
    => History[head[r]] \subseteq events
EventuallyImported == \A r \in Repo : <>[]Imported(r)

\* "Manual Update Record means: bring my record current."  Checked by a run
\* that finds the violation: what a failed update imported is not new to the
\* next one, which succeeds without generating its day.
RecordIsCurrent ==
  [][\A p \in Process : Succeeds(p) => \A e \in events : Shown(e)]_vars
=============================================================================
