# Schomburg: a verification development

Schomburg keeps a private, local record of a person's work. Connectors (Git is
the only one so far) discover sources, the user approves them, a collection
cycle turns commits into immutable events in a SQLite database, and an *Update
Record* regenerates the Markdown record of every day for which evidence
arrived. A scheduler thread inside a long-lived host process does that once a
day; the macOS shell and the command line do it on demand, from processes of
their own, on the same database and the same folder.

This directory holds TLA+ models of that program, TLC configurations that check
them on small instances, and theorems that TLAPS proves for every instance.
Paths below are relative to `src/`; the crates live in `src/crates/`.

    tlc -config SchedulerSafety.cfg MCScheduler.tla      # any run of PROJECT.json
    tlapm SchedulerProofs.tla                            # any *Proofs module

## 1. Inventory

| Component | State | Operations | Hard parts |
|---|---|---|---|
| Schedule arithmetic (`schomburg-agent`, `next_eligible_run`) | none | next eligible run, record date of an instant | weekday wrap-around, "due this very instant", UTC offsets, daylight saving |
| Scheduler (`schomburg-service`) | `SchedulerControl` behind a mutex and a condition variable; the `updating` mutex; the configuration row; the manual and the scheduled status row | start, stop, loop (catch up, plan, wait, run, persist the next run), manual update, edits of the configuration | loop, shell thread and other processes interleave between statements; rows are read, changed and written back whole; the thread may fail to open; the database may go away; the host may die anywhere |
| Evidence store (`schomburg-store`) | tables `events`, `annotations` | append event, append annotation | append-only for ever; references are looked up in statements before the insert |
| Consent (`schomburg-store`, `schomburg-agent`) | tables `discovered_sources`, `connections` | discover, approve, decline, pause, resume, disconnect, collect | each is a read, a decision and a later write without a transaction |
| Presenter (`schomburg-presenter`) | the Record Folder | generate one day, generate all | temporary file shared by all processes, crash between write and rename, files of other programs |
| Update Record run (`schomburg-agent`, `-engine`, `-connector-git`) | the events, the folder, the status row | update, collect, record generate | partial failure at every stage; what is "new" is a difference of two snapshots |
| Engine, connector contract, registries | two maps from connector to descriptor and presenter; nothing that outlives a call | register, collect through a sink, present | two counts of one import, by the engine and by the connector; a partial import |
| Git connector (`schomburg-connector-git`) | none | discover, open, import, present | a depth-bounded scan with four reasons to stop; raw commits that Git has not checked |
| Migrations (`schomburg-store`) | `schema_migrations` and the tables | open | several processes on one database; the question is asked outside the transaction it decides about |
| Row encoding (`schomburg-store`) | none | write and read every table | byte order must be time order; codes no release has written |
| Host protocol (`schomburg-host`) | `Host.shutdown`, two pipes | one request, one response | a long request blocks the next; errors become codes |
| macOS shell (`HostClient`) | `pending`, `nextID` | send, read | answers in chunks, out of two callers' order, or from a host that has gone |
| Command line (`schomburg-cli`) | none | 20 commands | arguments looked at one by one, the database opened in between |
| npm launcher | none | start the executable | - |

How they interact: the shell talks to the host over JSON lines, the host calls
`SchomburgService`, which owns a `Store` and the scheduler thread; the scheduler
thread opens a service of its own on the same database path and shares the
`updating` mutex and the `SchedulerControl` with the first. `Agent` runs an
update: engine and connector write events through the store, the presenter
reads them back and writes files. Processes share nothing but the database and
the Record Folder; cross-process locking is deferred by the documents
(`ARCHITECTURE.md:145`, `docs/adr/0014-manual-and-scheduled-operational-status.md:11`).

What makes each correct:

* schedule: the next run is the first occurrence; recomputing it loses none and
  repeats none; one run per record date; the days a user names are the days the
  loop finds after they have been stored and read back;
* scheduler: at most one update at a time, no loop without an owner, no
  occurrence reconciled twice, one catch-up however many were missed, no automatic
  retry, stop returns, the run waited
  for is attempted, a paused configuration starts nothing;
* evidence: rows are for ever, references are intact, supersession is acyclic,
  an answer of "ok" means stored;
* consent: one switch per source, decisions and revocations are not forgotten,
  only the enabled are collected from;
* folder: records are replaced whole and never lose evidence (that other programs'
  files are left alone is kept only as long as they can be read, section 4);
* update: stored histories have no holes, a successful update has shown what it
  found, one bad repository does not starve the others; both counts of an import
  say what was stored, and every stored event has one entry in the record;
* migrations: the database is that of some release, whoever opens it and dies;
  opening loses nothing;
* encoding: what is written is read back, what cannot be read is reported (but
  for the switches and states of section 4), and the order of bytes is the order
  of time;
* discovery: every repository within reach is found and nothing inside one;
* bridge: requests take effect in order and at most once, each caller is told
  the outcome of its own, and whoever can be answered is;
* command line: a command refused for the way it is written has changed nothing.

The hazards, each at its line and with the properties aimed at it, are the list
`hazards` of `PROJECT.json`.

## 2. Modules

| Module | Models | Used by |
|---|---|---|
| `Schedule` | `next_eligible_run`, local record date, `parse_schedule`, and `Occurrence`, the reference they are compared with | `Scheduler`, `ScheduleWalk`, `ScheduleProofs` |
| `ScheduleWalk` | a clock that walks past the runs of one schedule, and what it must see | `MCAlgorithms`, `AlgorithmsProofs` |
| `Scheduler` | the whole of the scheduler, the update guard, edits, outages, crashes | `MCScheduler`, `SchedulerProofs` |
| `AppendOnly` | abstract: a table that only ever gains rows | `EvidenceStore` |
| `EvidenceStore` | `append_event`, `append_annotation` | `MCEvidenceStore`, `EvidenceStoreProofs` |
| `DailyRecords` | abstract: records are replaced in one step and never show less | `RecordFolder` |
| `RecordFolder` | `generate`, one action per file operation | `UpdateRecord`, `MCRecordFolder`, `RecordFolderProofs` |
| `UpdateRecord` | one run end to end, composed with `RecordFolder` by INSTANCE | `MCUpdateRecord`, `UpdateRecordProofs` |
| `Consent` | discovery, consent, connections, collection as far as it obeys them | `MCConsent`, `ConsentProofs` |
| `Migrations` | `Store::open` and `apply`, in any number of processes | `HostBridge` |
| `RemoteCalls` | abstract: what a shell may rely on when it calls the service | `HostBridge` |
| `HostBridge` | shell, host, pipes and scheduler thread, composed with `Migrations` by INSTANCE | `MCHostBridge`, `HostBridgeProofs` |
| `StoredRows` | every conversion between a value and the columns of its row | `MCAlgorithms`, `AlgorithmsProofs` |
| `GitDiscovery` | `discover_root` and the roots | `MCAlgorithms`, `AlgorithmsProofs` |
| `GitCommits` | the event made of a commit, and what the presenter reads out of it | `Collection` |
| `Collection` | registries, `Engine::collect`, `import_into`, the entries of the record | `MCAlgorithms`, `AlgorithmsProofs` |
| `CommandLine` | every command as a script of checks and effects | `MCAlgorithms`, `AlgorithmsProofs` |

The `MC*` modules give constants their values for TLC (`MCAlgorithms` also holds
the inputs of the pure algorithms and the references they are compared with);
the `*Proofs` modules
hold the theorems. Definitions under a comment "Mutant" are plausible mistakes
in the definition that follows; `PROJECT.json` pairs every checked property with
one that breaks it.

### Schedule

A weekday is 0..6 and a schedule the set of weekdays it selects, so Daily,
Weekdays and Selected(mask) are one thing. A day has `DayLength` clock units;
instants are naturals and a local time is a unit of the day. `Candidate` and
`EligibleDays` follow the loop of `next_eligible_run` line by line, including
that it uses the offset in force *now* for every candidate. `Occurrence`
says independently what an instant of a schedule is. `ParseSchedule` is the
parser of the names of days; `DaysOf` is what `eligible` makes of a stored kind
and mask, and the run takes a schedule from the one through `StoredRows` to the
other. `ScheduleWalk` lets the clock pass and asks for the next run at every
instant.

### Scheduler

One step is one statement or one critical section. `control` is
`SchedulerControl`; `config`, `scheduled`, `manual` are the three rows;
`updating` is the owner of the mutex; `pc` is where the shell thread `Main` and
the loop thread `Sched` stand; `loop` holds the loop's local variables, above
all `loop.row`, the configuration it read at the top of the pass and writes back
later; `edit` holds the row an editing process has read and not written yet.
The loop's stages are `open` (thread start), `top` (read configuration),
`status` (read the status row; catch up or plan), `save` (write the next run),
`wait`, the stages of an update (`lock`, `check`, `begin`, `run`) and
`persist`, `persistConfig`, `persistStatus` of `persist_next_run`.

Abstractions. `wait_for_change_or_stop` waits at most 60 seconds and may wake
early, so `LoopWakes` may happen at any time. An update takes time (`run` is a
state of its own) but what it does inside is `UpdateRecord`'s business; here it
succeeds or fails. A run that starts at an instant ends at a later one
(`ClockMoved`): real updates do not finish within a clock reading, and the
comparison with `last_success` in the catch-up rests on it. An error of the
local UTC offset is counted as an outage. `lastReconciled` holds the occurrence
rather than its date; `ScheduleWalk`'s `OneRunPerRecordDate` relates the two.
There is one host process; any number of other processes (`Remote`) edit the
configuration. `wanted` is a history variable: what the last edit of the
monitoring switch asked for. The initial rows are those of the migrations, with
monitoring enabled in the instances.

### EvidenceStore

`append_event` is one INSERT and one action. `append_annotation` is up to three
statements (target exists, predecessor, insert) and any number of writers
interleave between them. An observation is the content of an event: the same
identifier may be observed twice with different capture times. Values,
timestamps and metadata are left out; the listing order is the order of the
encoded timestamps (`StoredRows`, `ListedInTimeOrder`).

### RecordFolder

A file is what kind of text it holds and which events it shows. `fs::write` is
two steps, open-and-truncate and write; `rename` is one. A writer whose
temporary file another process renames keeps its descriptor (`fd`), and two
writers that start at the beginning of one file overlay each other. `Today`
picks days in calendar order as the BTreeMap does. A path may hold another
program's text, or a file that is not UTF-8, before the first run (`Prior`).
`ReadOrAbsent` is the read before the comparison: any read may fail, for
permissions, a full table of descriptors or the medium, one of a file that is
not UTF-8 always does, and the code swallows the error. A path that could not be
read counts as one without a file, so neither the owner nor the content of what
is there is looked at and the record is written over it. The errors that end a
generation (`FileError`) are those of the directory, of the temporary file and of
the rename. Users who edit or delete record files later are not modelled.

### UpdateRecord

`run` is the operation a process executes: the identifiers stored when it began
(`before`), connections left (`repos`), commits left of the current walk
(`walk`), events found new, days still to be generated. HEADs move at any time.
`History` gives every commit with its ancestors, so the topological, reversed
revwalk becomes: next is a commit whose ancestors have been walked. The order of
the connections is left open. A malformed commit ends the import from its
connection; any other failure may strike at any point, up to `MaxFaults`.

### Consent

One action per statement. `approve_source` reads (`Approve`), updates
(`ClaimSource`), inserts (`InsertConnection`); decline and set-status read and
write. `Crash` drops the rest of a call. Policy and the result columns of a
connection carry nothing of their own and are left out.

### Migrations

For each of the four versions a process asks whether it is installed
(`CheckInstalled`), runs its script, which takes SQLite's write lock or waits for
it (`RunScript`, `LockTimesOut`), and records it (`Commit`). What a transaction
has done is seen by others at its commit; a process that dies holding the lock is
rolled back. A table is absent, as its script leaves it, or used; the fourth
version copies what the third's table holds. Files of every earlier release may
be there at first.

### HostBridge

A caller registers an identifier (`Register`), writes a line (`Write`) and waits,
without a timeout. The host reads one line, handles it and writes one
(`ReadLine`, `Handle`, `Respond`); `Answers` is the set of codes `map_error` can
make of what the service can answer. A written line is two halves and a chunk may
end between them: `HostClient` keeps nothing from one chunk for the next, so such
an answer is lost and its caller waits for ever (`torn`). Nobody tells the
callers when the host has gone, either. An answer without an identifier (to a
line that is no request) belongs to nobody and is ignored. The scheduler is
stopped, waiting, or holds the updating mutex, which `WaitsForUpdate` lists the
commands to wait for; when the host exits the thread ends wherever it is, so a
scheduled run under way is cut off (what it leaves is `Scheduler`'s `Crash`).
The JSON of results is left out, and so is what the service calls change, which is
the other modules' business. `RemoteCalls` states the contract, and the run
checks the refinement with `call`, `queue` and `closed` mapped to where the
callers stand, the lines yet to be handled, and `shutdown`.

### StoredRows

One operator per table and direction: `EventRow` and `EventOf`, and so on. A
timestamp is a sign byte, seconds and nanoseconds, inverted before the epoch,
with the base, both widths and the largest second as parameters; a count is kept
in half its range; an enumeration has its codes, each direction as its own
function. Decoding gives a set of one value, or the empty set where the code
returns an error. The code reads two byte strings as the epoch, one of which
(`NegativeZero`) it never writes. Two decoders know no error and take every other
code for a fixed value (`DecodeOrPaused`): the monitoring switch and the state of a
connection. `RowsReadBack` says of them only that what was written is read back
(section 4).

### GitDiscovery, GitCommits, Collection

A directory tree gives every entry a parent and a kind: directory, file, excluded
(a link, or the name of build output or dependencies), repository, one that
cannot be opened, directory that cannot be listed. `Scan` follows the order of
the tests in `discover_root`. A root that is itself a repository is not found, and
one directory or repository that cannot be read makes the whole discovery fail;
both are what the code says. A raw commit is headers and lines;
`ParseIdentity` divides an identity as the code does, and an event whose commit
cannot be parsed is still stored and still has an entry, one that says so, while
the `events` command fails on it. `ImportOne` is one turn of `import_into`
together with the answer of the engine's sink: the connector's report and the
engine's count are kept apart, as in the code. Events stored before a connection
fails are not among those `collect_once` reports as imported, and the
`update-record` command prints no duplicates or rejections of its own; neither
is stated as a property, since no document promises otherwise.

### CommandLine

A command is a sequence of checks and effects in the code's order, and execution
stops at the first check that fails. The words and options are the code's; a
value is good, unparsable or empty. Some commands open the database, and so
create and migrate it, before they have looked at everything (`schedule set`,
`discover`, `record generate`): a mistyped command may leave a new, empty
database at a mistyped path, which is why `RefusedCommandsChangeNothing` excepts
the opening.

## 3. Runs

| Run | Instance | What it shows |
|---|---|---|
| `algorithms` | days of 3 units, offset +1, clock 0..44, all 128 schedules, all times; rows of 6 tables; columns of up to 4 bytes; trees of 3 entries; histories of 2 commits; 20 commands | first occurrence, stable under recomputation, one run per date; rows read back, order of bytes; scans; collections accounted for; refused commands harmless |
| `scheduler_safety` | 1 other process, clock 0..4, one edit, manual update, outage, crash each | mutual exclusion, ownership of the loop, no occurrence twice, one catch-up, no retry |
| `scheduler_live` | clock 0..5, a manual update, an outage, fair threads | stop returns, the run waited for is attempted |
| `scheduler_pause` | one edit by the shell | **violated**: a pause is overwritten and the run starts |
| `scheduler_stale_run` | one edit by the shell | **violated**: the first run follows the old schedule |
| `evidence_store` | 2 writers, events, observations, annotations, fields | references, acyclicity, true answers, both tables append-only |
| `record_folder` | 1 process, 3 events, 2 days, foreign and binary files, reads that fail | records replaced whole, nothing shown is lost |
| `update_record` | 1 process, 2 repositories, 5 commits, 2 days, 3 moves, 2 faults | no holes, new evidence shown, eventual import |
| `update_record_stale` | 1 fault | **violated**: a failed run's events stay out of the record |
| `consent` | 1 process, 2 sources, 2 identifiers | one connection per source, finality, persistence |
| `consent_stranded` | the same | **violated**: a crash inside an approval strands the source |
| `host_bridge` | a host and another program, 2 callers, 2 calls, 1 host, 1 scheduled run, a new database or one of the third release | whole schema, nothing lost, calls in order and at most once, answers |

Bounds. A schedule repeats every seven days; 44 instants of three units are two
weeks, so every weekday is met from every other and eight days of lookahead are
exercised twice. Two days of the scheduler's clock hold two occurrences and the
gap between them, which is what no-retry, no-repeat and catch-up compare; one
edit, one outage and one crash may fall into any statement of any pass. Two
annotations are enough for a circle of supersession, two writers for a race.
Three events on two days give a day with two events, hence records that grow,
and a generation with a second day after a failing first. Repository `git` has
two branches, so a HEAD can move to a commit whose history is partly stored;
`bad` has a malformed commit below its newest, so a walk is cut short.

The inputs of `algorithms` are single states, one for each input. Seconds of two
bytes in base 4 and nanoseconds of one carry across every byte within the 44
instants, and the epoch lies in their middle, so the walk crosses it; columns of
one byte too few are among those decoded. Three entries below a root make a
repository in a directory, below something excluded, inside another repository
and deeper than `MaxDepth`, under one root, under a root within it, or
both. Two commits (`Longest`) let an import stop at the first, at the second or
at neither, for each of five flaws and each way an identity may be written. A count's limit of 8 has its
half, its last value and zero. Two processes are enough to race for one
migration, and two callers for answers that arrive together; the third version's
database is the one whose copy into the fourth has something to lose. One host
is started: `StartHost` replaces all of the client and the pipes, so a second
begins as the first does, but for the database, which the other program
varies.

`CHECK_DEADLOCK FALSE` stands where the bounded clock, edits or appends may
run out and the model then rests, which the program with an unbounded clock does
not; a shell may also stop calling, and both programs of `host_bridge` end.

Fairness. `scheduler_live` assumes that the operating system runs both threads
(weak fairness of every step of the loop, of either thread's update, of the
join and of an edit once begun), that the clock moves on and that an outage
ends. Nobody has to start, stop or edit anything. Blocking on the `updating`
mutex needs no stronger assumption: a thread holds it for one update only and
the shell makes finitely many. The last instant of the clock is not an
occurrence, so that the bound hides no run. `update_record` assumes that
operations under way go on (weak fairness) and that among whatever a process is
asked to do, updates come up again and again (strong fairness, since a process
is not free all the time): that is what the schedule, or a user, does.
`host_bridge` assumes that both programs are scheduled (weak fairness of opening,
of the host's loop, of a caller's write once it has registered and of the reader
thread) and that a scheduled run ends. Nobody has to start a host, call, quit or
die, and a caller is excused from being answered only where `Unanswerable` says
why.

## 4. What the code does not keep

Four runs expect a violation and `findings` of `PROJECT.json` quotes the lines
they contradict. In short: the loop writes back stale rows, so a pause can be
lost; no edit of the schedule touches the persisted next run that decides first; an update
regenerates only what *it* found new, so what a failed one imported is never
shown; and an approval is not atomic.

TLC finds further disagreements, by the property named here under the change of
constants given. They have no run of their own, so as to keep one run to one
question about a different part; the definitions stay in the modules. Where a
configuration is named, its properties are to be replaced by the one discussed.

* `NextRunIsFirstOccurrence` (`ScheduleWalk`; `Algorithms.cfg` with
  `OffsetChange = 10`, `OffsetBefore = 1`, `OffsetAfter = 0`): candidates of later
  days carry the offset of today (`schomburg-agent/src/lib.rs:53`), so across a
  daylight-saving change the run is off by the change.
* `OverdueIsCaughtUp` (`Scheduler`; `SchedulerStaleRun.cfg`): the overdue
  `next_run` of the configuration is not looked at when the status row names a later one
  (`schomburg-service/src/lib.rs:410`), against `docs/adr/0013-portable-scheduler-lifecycle.md:11`.
* `FailureIsRecorded` (`Scheduler`; `SchedulerPause.cfg`): a scheduled run without a Record
  Folder returns before `begin_run` (`schomburg-agent/src/lib.rs:240`) and the
  loop drops the error, against `docs/adr/0013-portable-scheduler-lifecycle.md:13`.
* `StopLeavesStopped` (`Scheduler`; `SchedulerSafety.cfg`): a thread that cannot open the
  database leaves `running` set; stop then answers Ok and changes nothing
  (`schomburg-service/src/lib.rs:192`), against the test at line 738.
* `StopReturns` under `BrokenFairSpec`, which lets an outage last: after an
  unreadable configuration the answer of the wait is ignored
  (`schomburg-service/src/lib.rs:393`), so a stop does not return as long as
  the database is out; the comment at line 201 says it waits for the loop to finish.
* `AttemptsAdvance` with a second edit: the shell pauses, the run that is due is
  refused, and another process that had read the row before writes it back with
  monitoring enabled and the refused run still the next one; the loop makes it
  again.
* `RecordsReplacedWhole` with two processes: both use one temporary name, and one
  renames the file the other has just truncated (`schomburg-presenter/src/lib.rs:142`),
  against "atomically replaced" in `docs/adr/0010-daily-record-folder.md:3`.
* `NewEvidenceShown` (`UpdateRecord`; `UpdateRecord.cfg` with two processes): an
  update ends while an overlapping generation of another process has renamed an
  emptied temporary file over the record the update has just written.
* `ForeignKept` (`RecordFolder`; `RecordFolder.cfg`): a read that fails counts as
  no file at all (`schomburg-presenter/src/lib.rs:132`), and lines 142 to 144 then
  replace the file without the check of its owner, which the test at line 358
  expects to end in `OwnershipConflict`. One that is not UTF-8 is always
  replaced.
* `UnsupportedReported` (`MCAlgorithms`; `Algorithms.cfg`): a monitoring switch or a
  connection state this release does not know is read as paused
  (`schomburg-store/src/lib.rs:399` and `:504`), against
  `docs/adr/0003-sqlite-append-only-persistence.md:96`: "Malformed or unsupported
  stored representations return explicit errors rather than being repaired or
  interpreted by the store."
* `DeclinedNotCollected` (`Consent`): declining a connected source leaves its
  connection enabled (`schomburg-store/src/lib.rs:329`), against
  `ARCHITECTURE.md:123`.
* `OneConnectionPerSource` and `DisconnectIsFinal` with two processes: an
  approval or a resume acts on a row another process has changed since it was
  read (`schomburg-store/src/lib.rs:309` and `:379`), against
  `docs/phase-1/CLI_REFERENCE.md:16`.

## 5. Proofs

All theorems hold for every value of the constants that meets the modules'
ASSUMEs, any number of processes, writers, events and days included, unless the
theorem says otherwise.

* `ScheduleProofs`: `NextRunNotBeforeNow`, from integer division of the clock,
  for changing offsets too, and the arithmetic of a steady offset. A local time is
  a day and a time of that day in one way only (`DayAndTime`); so the occurrences
  are one for each selected day (`OccurrenceOfDay`), each weekday lies among the
  next seven (`EveryWeekdayAhead`), and the first day the search accepts carries
  the first of them (`NextRunIsFirst`).
* `AlgorithmsProofs`: the properties of `MCAlgorithms`.
  * `NextRunFirstOccurrence`, `RecomputingKeeps` and `RunsHaveDatesOfTheirOwn`, for
    every length of the day, under `SteadyOffset`: across a change of the offset
    they are false. They follow from `NextRunIsFirst` and from what "first" means
    when the clock moves by one (`FirstAtLaterClock`).
  * `EventsListedInTimeOrder`: the bytes of a number and the number of its bytes
    determine each other for every base and width (`Digits`, `NumberOfBytes`,
    `BytesOfNumber`) and their order is that of the numbers (`BytesInOrder`). A
    distance from the epoch is its seconds and nanoseconds side by side
    (`DistancesInOrder`); before the epoch the sign byte is smaller and the
    distance inverted, so the order turns around with it (`BytesFollowTime`).
  * `RowsReadBackAlways`: one lemma per conversion that it reads back, and one per
    row that it is refused for each column that cannot be read. The two columns
    whose decoders know no error are excepted from the second half: there the
    store interprets what it does not know (section 4). The bits of a mask are the days it was made of (`MaskBits`). Both this theorem and
    the one before take the instants the runs enumerate to be ones
    `SystemTime` can hold (`WalkInstants`, `Times \subseteq SystemTime`); outside
    of it the code's own arithmetic is undefined.
  * `RefusedChangesNothing`: in the script of every command all checks come before
    the first effect but opening the database (`ScriptsCheckFirst`), so what a
    refused prefix has done is at most that (`RefusedBeforeChange`).
  * `RepositoriesAlwaysFound`, for every `MaxDepth` and every finite tree whose
    entries are numbered so that a directory comes before what it contains: the
    directories above an entry are in one line (`AboveLinear`), so one lies
    between the root and the entry for each level the search has gone down
    (`OneMoreBetween`). A scan with some levels left yields what lies within as
    many and is not behind a repository, a link or build output (`ScanFinds`).
  * `EvidenceAlwaysAccountedFor`, for histories of every length: by the number of
    commits handled, the import has stored exactly the events of these commits
    that were new, and its counts are their numbers (`OneHandled`); the first commit
    that it cannot read, reach or hand over ends it (`OneStopped`, `ImportAccounts`).
    `IdentityRead` holds for every name, one that contains " <" or "> " included, as
    long as address and time do not; with `HeadersPlaced` a commit is read as it
    was written or refused (`CommitRead`). Events have names of their own, so
    each has one entry (`OneEntry`).
* `SchedulerProofs`: `TypeCorrect`, `NoOrphanThread`, `MutualExclusion`,
  `NoOccurrenceTwice`, `NoBurst`. Exclusion is strengthened by "whoever is inside an
  update owns the mutex"; `ThreadAccountedFor` is inductive given the types. The
  last two need `Ordered`: what has been reconciled lies before the success that
  reconciled it, that success not after the clock, and the run in hand or
  waited for after everything reconciled and not before that success. The catch-up's comparison with
  `last_success` and the planning from the clock establish it; edits of the
  configuration cannot disturb it because they do not touch the status row.
* `EvidenceStoreProofs`: `StoreType` and the six properties of the tables. A
  writer's `pc` remembers what its lookups found.
  `Checked`/`CheckedCall` state that a lookup that succeeded still holds at
  the insert because rows never leave the tables. Acyclicity then needs no
  induction over chains: an annotation refers only to what was stored before it.
  The refinements to `AppendOnly` are proved step by step.
* `RecordFolderProofs`: `FolderTypeCorrect`, for any number of processes, and
  `RecordsImplemented`, step by step, that the folder implements `DailyRecords`,
  whatever it held before and whichever reads fail, for one process: with two it
  is false (section 4). A comparison that ends a day without writing has found
  the body there (`CompareOutcome`), since a file that was not read is written
  over. It needs `Alone`: a record shows only stored events, and
  only such as the generation under way has read, so the next one shows no less;
  and the temporary file holds the whole body when it is renamed.
* `UpdateRecordProofs`: `NoHoles`, strengthened by `WalkClosed`: what of a
  commit's history is not in the walk any more is stored. A commit is imported
  only when its ancestors have left the walk. `RecordTypeCorrect` uses the
  theorem of `RecordFolderProofs` through an instance of that module: what a run
  does to the folder is a step of the folder (`FolderSteps`).
  `SuccessfulUpdateShows`, for one process, is from `Covered`: an event a run has
  found is still pending, or the record of its day shows it, or the generation has
  read it and has its day still to write, or the generation has failed and the
  run will. A second process could write an older
  snapshot over a record after the generation has passed it.
* `ConsentProofs`: `DecisionsKept` and `RevocationNeverErased` for any number
  of processes; `ConnectedOnce`, `CollectionObeysConsent` and
  `DisconnectionFinal` for one, from `Alone`: what a single process has read
  is still so when it writes, because the only other writer, discovery, touches
  sources nobody has seen before.
* `HostBridgeProofs`: `BridgeSchemaWhole` and `BridgeOpeningKeepsData`, for any
  number of programs that open the database. `DatabaseInv`: a process has got
  past a version because it found it recorded or recorded it; between its script
  and its commit it alone holds the write lock and the version it is about to
  record is missing. The check before the transaction may be out of date, and the
  proof does not use it. `HostInv`: a host that answers has opened the database.
  `BridgeTypeCorrect` adds that a line about to be answered has an answer
  (`AnswerMade`). `BridgeCallsKept`, for any number of callers and programs, is
  the refinement of `RemoteCalls`, strengthened by `CallsInv`: an identifier is in
  use by one caller (`Identified`); a line still to be handled has no answer yet,
  is the only one of its identifier, and somebody waits for it, except the
  half-written line a dead shell leaves at the end (`LinesWaitedFor`); what is on
  its way back is what was answered (`AnswersMade`).

Recursion is proved about without an induction theorem. The set of numbers up to
a bound for which a fact holds has a least one that is missing, if any
(`LeastNatural`, because the order of the naturals is well founded; `UpTo`), and a recursive
function is unfolded from its definition once it is shown that some function
satisfies the equation (`WorthDefined`, `NumberDefined`, `OutcomeDefined`,
`AboveDefined`, `ScanDefined`, `ImportDefined`).

Only model-checked: everything about liveness (`StopReturns`,
`WaitedRunIsAttempted`, `EventuallyImported`, `Answered`), which needs ENABLED;
and of `AttemptsAdvance` the second half, that a life of the loop never repeats
an instant, which is false with a second edit (section 4). The first half is
`NoBurst`.

## 6. Not modelled, and the plan

Order followed so far: schedule and scheduler (the core of the program and the
only threads), the evidence store, the folder, the run that joins them, consent,
migrations and the host bridge over them, the pure algorithms, and the proofs
alongside. What is left, in this order:

1. Poisoning of the `updating` mutex: a commit with a timestamp beyond year 9999
   panics in the presenter (`schomburg-presenter/src/lib.rs:161`) while the mutex
   is held. The models use instants the conversion accepts.
2. The scheduler thread and the shell's two threads in one module: `HostBridge`
   knows of the former only whether it holds the mutex.

Not modelled: Markdown layout and the text commands print, which no property
could be about; the views of the shell, which only show what `HostClient`
returns; the JSON of requests and results beyond which of them is a request; the
`scheduler start` command's wait for the end of its input; the npm launcher and
the scripts; the core model's value types, which appear as records and model
values; the identity of a repository, a hash of its path; permissions and the
disk's own durability, which are SQLite's and the operating system's.

Hazards no property covers: an overdue run passed over, a thread that cannot open
its database, a refused run without a record of it, a file replaced because it
could not be read, a code read as paused, a declined source collected from, the
offset of today on a later day, and two processes that write one record, import
at once or decide on one source, are things the code does (section 4), so a
property about them would not hold; a connection paused in the middle of a
cycle is collected from to its end, which no document forbids; the status left `running` by a dead process
has no documented meaning; and poisoning is item 1 above.
