----------------------------- MODULE Scheduler -----------------------------
(***************************************************************************)
(* The scheduler of crates/schomburg-service and the update runs of        *)
(* crates/schomburg-agent it competes for.                                 *)
(*                                                                         *)
(* One process holds two threads that share a SchedulerControl behind a    *)
(* mutex and condition variable, and an `updating` mutex: Main, the shell  *)
(* thread that starts and stops the scheduler, edits the configuration and *)
(* runs manual updates, and Sched, the scheduler loop.  Each thread has    *)
(* its own connection to one SQLite database; Remote is a set of other     *)
(* processes (the command line) that edit the same configuration row and   *)
(* notify nobody.  One action is one database statement or one critical    *)
(* section; whole rows are read, changed and written back with no          *)
(* transaction around the two.                                             *)
(*                                                                         *)
(* A wait of the loop lasts at most sixty seconds and may wake spuriously, *)
(* so an action may end it at any time and a notification adds nothing     *)
(* but promptness, which is abstracted away.                               *)
(***************************************************************************)
EXTENDS Schedule

CONSTANTS
  Main, Sched,  \* the two threads
  Remote,       \* clients in other processes
  Offered,      \* the <<weekdays, time>> pairs a user chooses among
  MaxNow,       \* bound: the last clock reading
  MaxEdits,     \* bound: edits of the configuration
  MaxManual,    \* bound: manual updates
  MaxOutages,   \* bound: times the database becomes unusable
  MaxCrashes    \* bound: crashes of the process

ASSUME SchedulerAssumption ==
  /\ Main # Sched
  /\ Main \notin Remote /\ Sched \notin Remote
  /\ Offered \subseteq ScheduleKind \X LocalTime
  /\ {MaxNow, MaxEdits, MaxManual, MaxOutages, MaxCrashes} \subseteq Nat

Thread == {Main, Sched}
ASSUME NobodyIsNoThread == "nobody" \notin Thread

Client == {Main} \cup Remote

VARIABLES
  now,        \* the system clock
  config,     \* the singleton row of reconciliation_configuration
  scheduled,  \* the singleton row of scheduled_reconciliation_status
  manual,     \* the state column of manual_update_status
  control,    \* SchedulerControl
  updating,   \* the thread holding the updating mutex, or "nobody"
  pc,         \* where each thread is
  loop,       \* the local variables of scheduler_loop and persist_next_run
  edit,       \* the configuration each client has read and is changing
  dbUp,       \* whether database statements succeed at the moment
  wanted,     \* auxiliary: the monitoring state a client last saved
  spent       \* how much of each bound has been used

vars == <<now, config, scheduled, manual, control, updating, pc, loop, edit,
          dbUp, wanted, spent>>

RunState == {"idle", "running", "succeeded", "failed", "paused"}
Lifecycle == {"stopped", "paused", "waiting", "updating", "failed"}

Config == [monitoring : BOOLEAN, folder : BOOLEAN, days : ScheduleKind,
           time : LocalTime, nextRun : OptInstant]
NoRow == [empty |-> TRUE]

\* What a client is about to write: the whole row it read, with its change.
\* A Record Folder edit keeps the next_run it read, the others recompute it.
Edit == [row : Config, kind : {"monitoring", "folder", "schedule"}]

\* What a wait of the loop ends in: reading the row again whether or not a stop
\* was requested (retry), reading it unless one was (change), or the same or,
\* once the instant waited for has come, its update (due).
WaitFor == {"retry", "change", "due"}

UpdatePc == {"lock", "check", "begin", "run"}
PersistPc == {"persist", "persistConfig", "persistStatus"}
SchedPc == UpdatePc \cup PersistPc
             \cup {"none", "open", "top", "status", "save", "wait"}
MainPc == UpdatePc \cup {"idle", "join"}

TypeOK ==
  /\ now \in Instant
  /\ config \in Config
  /\ scheduled \in [state : RunState, lastSuccess : OptInstant,
                    lastReconciled : OptInstant, nextRun : OptInstant]
  /\ manual \in RunState
  /\ control \in [running : BOOLEAN, stop : BOOLEAN, lifecycle : Lifecycle,
                  handle : BOOLEAN]
  /\ updating \in Thread \cup {"nobody"}
  /\ pc \in [Thread -> MainPc \cup SchedPc]
  /\ pc[Main] \in MainPc /\ pc[Sched] \in SchedPc
  /\ loop \in [row : Config \cup {NoRow}, next : OptInstant, run : OptInstant,
               wait : WaitFor]
  /\ pc[Sched] \in {"status", "save", "persistConfig"} => loop.row \in Config
  /\ edit \in [Client -> Edit \cup {NoRow}]
  /\ dbUp \in BOOLEAN /\ wanted \in BOOLEAN
  /\ spent \in [edits : Nat, manual : Nat, outages : Nat, crashes : Nat]

-----------------------------------------------------------------------------

NextEligible(row, t) ==
  IF row.monitoring THEN NextEligibleRun(row.days, row.time, t) ELSE NoTime

\* The row a migration inserts, with one of the schedules offered.
DefaultRows ==
  {[monitoring |-> FALSE, folder |-> FALSE, days |-> o[1], time |-> o[2],
    nextRun |-> NoTime] : o \in Offered}

Stopped == [running |-> FALSE, stop |-> FALSE, lifecycle |-> "stopped",
            handle |-> FALSE]
NoLoop == [row |-> NoRow, next |-> NoTime, run |-> NoTime, wait |-> "change"]
Home == [t \in Thread |-> IF t = Main THEN "idle" ELSE "none"]

InitWith(rows) ==
  /\ now = 0
  /\ config \in rows
  /\ scheduled = [state |-> "idle", lastSuccess |-> NoTime,
                  lastReconciled |-> NoTime, nextRun |-> NoTime]
  /\ manual = "paused"
  /\ control = Stopped
  /\ updating = "nobody"
  /\ pc = Home
  /\ loop = NoLoop
  /\ edit = [c \in Client |-> NoRow]
  /\ dbUp = TRUE
  /\ wanted = config.monitoring
  /\ spent = [edits |-> 0, manual |-> 0, outages |-> 0, crashes |-> 0]

Init == InitWith(DefaultRows)

Goto(t, label) == pc' = [pc EXCEPT ![t] = label]
Spend(what) == spent' = [spent EXCEPT ![what] = @ + 1]
SetLifecycle(l) == control' = [control EXCEPT !.lifecycle = l]

\* set_schedule and set_monitoring_enabled: next_run is computed afresh and the
\* whole row is overwritten with the one in hand.
SaveRow(row) == config' = [row EXCEPT !.nextRun = NextEligible(row, now)]

-----------------------------------------------------------------------------
(***************************************************************************)
(* The shell thread: start_scheduler, stop_scheduler, and manual updates.  *)
(* It does one thing at a time.                                            *)
(***************************************************************************)

MainFree == pc[Main] = "idle" /\ edit[Main] = NoRow

StartScheduler ==
  /\ MainFree
  /\ ~control.running
  /\ control' = [running |-> TRUE, stop |-> FALSE, lifecycle |-> "waiting",
                 handle |-> TRUE]
  /\ Goto(Sched, "open")
  /\ UNCHANGED <<now, config, scheduled, manual, updating, loop, edit, dbUp,
                 wanted, spent>>

\* Mutant: the loop is taken for ended as soon as it is asked to stop.
StopSchedulerAtOnce ==
  /\ MainFree
  /\ control.running
  /\ control' = [control EXCEPT !.stop = TRUE, !.running = FALSE, !.handle = FALSE]
  /\ Goto(Main, IF control.handle THEN "join" ELSE "idle")
  /\ UNCHANGED <<now, config, scheduled, manual, updating, loop, edit, dbUp,
                 wanted, spent>>

\* Requests the stop and takes the handle, if there still is one to join.
StopScheduler ==
  /\ MainFree
  /\ control.running
  /\ control' = [control EXCEPT !.stop = TRUE, !.handle = FALSE]
  /\ Goto(Main, IF control.handle THEN "join" ELSE "idle")
  /\ UNCHANGED <<now, config, scheduled, manual, updating, loop, edit, dbUp,
                 wanted, spent>>

\* handle.join returns once the thread has ended; stop_scheduler answers Ok.
Join ==
  /\ pc[Main] = "join"
  /\ pc[Sched] = "none"
  /\ Goto(Main, "idle")
  /\ UNCHANGED <<now, config, scheduled, manual, control, updating, loop, edit,
                 dbUp, wanted, spent>>

UpdateRecord ==
  /\ MainFree
  /\ spent.manual < MaxManual
  /\ Spend("manual")
  /\ Goto(Main, "lock")
  /\ UNCHANGED <<now, config, scheduled, manual, control, updating, loop, edit,
                 dbUp, wanted>>

-----------------------------------------------------------------------------
(***************************************************************************)
(* Edits of the configuration, by the shell thread or by another process:  *)
(* the row is read in one statement and written back in another.           *)
(***************************************************************************)

EditRead(c) ==
  /\ IF c = Main THEN MainFree ELSE edit[c] = NoRow
  /\ dbUp
  /\ spent.edits < MaxEdits
  /\ Spend("edits")
  /\ \/ \E on \in BOOLEAN :
          edit' = [edit EXCEPT ![c] =
            [row |-> [config EXCEPT !.monitoring = on], kind |-> "monitoring"]]
     \/ edit' = [edit EXCEPT ![c] =
          [row |-> [config EXCEPT !.folder = TRUE], kind |-> "folder"]]
     \/ \E o \in Offered :
          edit' = [edit EXCEPT ![c] =
            [row |-> [config EXCEPT !.days = o[1], !.time = o[2]],
             kind |-> "schedule"]]
  /\ UNCHANGED <<now, config, scheduled, manual, control, updating, pc, loop,
                 dbUp, wanted>>

EditWrite(c) ==
  /\ edit[c] # NoRow
  /\ IF ~dbUp THEN UNCHANGED <<config, wanted>>
     ELSE /\ IF edit[c].kind = "folder" THEN config' = edit[c].row
             ELSE SaveRow(edit[c].row)
          /\ wanted' = IF edit[c].kind = "monitoring"
                         THEN edit[c].row.monitoring ELSE wanted
  /\ edit' = [edit EXCEPT ![c] = NoRow]
  /\ UNCHANGED <<now, scheduled, manual, control, updating, pc, loop, dbUp,
                 spent>>

-----------------------------------------------------------------------------
(***************************************************************************)
(* One update run under the updating mutex: update_record for Main,        *)
(* scheduled_update for Sched.  What a run collects and writes is the      *)
(* business of module UpdateRecord; here it succeeds, fails with its       *)
(* failure recorded, or fails with the status row out of reach.            *)
(***************************************************************************)

SetState(t, state) ==
  IF t = Main THEN manual' = state /\ UNCHANGED scheduled
  ELSE scheduled' = [scheduled EXCEPT !.state = state] /\ UNCHANGED manual

\* Mutant: the scheduler's thread goes where the shell's does.
EndUpdateAsMain(t) ==
  /\ updating' = "nobody"
  /\ Goto(t, "idle")

\* The mutex is released and the thread goes on behind the call.
EndUpdate(t) ==
  /\ updating' = "nobody"
  /\ Goto(t, IF t = Main THEN "idle" ELSE "persist")

\* Mutant: the mutex is not waited for.
UpdateLockUnheld(t) ==
  /\ pc[t] = "lock"
  /\ updating' = t
  /\ Goto(t, "check")
  /\ UNCHANGED <<now, config, scheduled, manual, control, loop, edit, dbUp,
                 wanted, spent>>

UpdateLock(t) ==
  /\ pc[t] = "lock"
  /\ updating = "nobody"
  /\ updating' = t
  /\ Goto(t, "check")
  /\ UNCHANGED <<now, config, scheduled, manual, control, loop, edit, dbUp,
                 wanted, spent>>

\* Reads the configuration; a manual run may be forced past a pause.
UpdateCheck(t) ==
  /\ pc[t] = "check"
  /\ dbUp
  /\ config.folder
  /\ config.monitoring \/ t = Main
  /\ Goto(t, "begin")
  /\ UNCHANGED <<now, config, scheduled, manual, control, updating, loop, edit,
                 dbUp, wanted, spent>>

\* The configuration cannot be read, names no Record Folder, or is paused.
UpdateRefused(t) ==
  /\ pc[t] = "check"
  /\ ~dbUp \/ ~config.folder \/ ~config.monitoring
  /\ EndUpdate(t)
  /\ UNCHANGED <<now, config, scheduled, manual, control, loop, edit, dbUp,
                 wanted, spent>>

UpdateBegin(t) ==
  /\ pc[t] = "begin"
  /\ dbUp
  /\ SetState(t, "running")
  /\ Goto(t, "run")
  /\ UNCHANGED <<now, config, control, updating, loop, edit, dbUp, wanted,
                 spent>>

\* SystemTime::now() when the run ends is later than the instant the run was
\* for: that instant had come when the run started, and a run takes time.
ClockMoved(t) == t = Sched => now > loop.run

UpdateSucceeds(t) ==
  /\ pc[t] = "run"
  /\ dbUp
  /\ ClockMoved(t)
  /\ IF t = Main THEN manual' = "succeeded" /\ UNCHANGED scheduled
     ELSE /\ scheduled' = [scheduled EXCEPT !.state = "succeeded",
                             !.lastSuccess = now, !.lastReconciled = loop.run]
          /\ UNCHANGED manual
  /\ EndUpdate(t)
  /\ UNCHANGED <<now, config, control, loop, edit, dbUp, wanted, spent>>

UpdateFails(t) ==
  /\ pc[t] = "run"
  /\ dbUp
  /\ SetState(t, "failed")
  /\ EndUpdate(t)
  /\ UNCHANGED <<now, config, control, loop, edit, dbUp, wanted, spent>>

\* begin_run, fail_run, succeed_run or list_events fails: the error goes to the
\* caller and the status row stays as it is.
UpdateLost(t) ==
  /\ pc[t] \in {"begin", "run"}
  /\ ~dbUp
  /\ EndUpdate(t)
  /\ UNCHANGED <<now, config, scheduled, manual, control, loop, edit, dbUp,
                 wanted, spent>>

UpdateStep(t) ==
  \/ UpdateLock(t)
  \/ UpdateCheck(t)
  \/ UpdateRefused(t)
  \/ UpdateBegin(t)
  \/ UpdateSucceeds(t)
  \/ UpdateFails(t)
  \/ UpdateLost(t)

-----------------------------------------------------------------------------
(***************************************************************************)
(* The scheduler thread.                                                   *)
(***************************************************************************)

\* The thread opens a store of its own; when that fails it ends at once and
\* leaves the control record as start_scheduler set it, lifecycle apart.
ThreadOpens ==
  /\ pc[Sched] = "open"
  /\ IF dbUp THEN Goto(Sched, "top") /\ UNCHANGED control
     ELSE Goto(Sched, "none") /\ SetLifecycle("failed")
  /\ UNCHANGED <<now, config, scheduled, manual, updating, loop, edit, dbUp,
                 wanted, spent>>

Wait(lifecycle, for) ==
  /\ SetLifecycle(lifecycle)
  /\ loop' = [loop EXCEPT !.row = NoRow, !.wait = for]
  /\ Goto(Sched, "wait")

\* set_scheduler_lifecycle(Stopped) on the way out of the loop.
LeaveLoop ==
  /\ control' = [control EXCEPT !.running = FALSE, !.lifecycle = "stopped",
                   !.handle = FALSE]
  /\ loop' = NoLoop
  /\ Goto(Sched, "none")

StartRun(t) ==
  /\ SetLifecycle("updating")
  /\ loop' = [loop EXCEPT !.row = NoRow, !.next = NoTime, !.run = t]
  /\ Goto(Sched, "lock")

\* The top of the loop: get_schedule, and the pause.
LoopTop ==
  /\ pc[Sched] = "top"
  /\ \/ ~dbUp /\ Wait("failed", "retry")
     \/ dbUp /\ ~config.monitoring /\ Wait("paused", "change")
     \/ /\ dbUp /\ config.monitoring
        /\ loop' = [loop EXCEPT !.row = config]
        /\ Goto(Sched, "status")
        /\ UNCHANGED control
  /\ UNCHANGED <<now, config, scheduled, manual, updating, edit, dbUp, wanted,
                 spent>>

\* The persisted run the loop compares with the clock: next_scheduled_run of
\* the status row when there is one, else next_run of the configuration.
DueRun ==
  IF scheduled.nextRun # NoTime THEN scheduled.nextRun ELSE loop.row.nextRun

\* Mutant: a persisted run is overdue even if it has succeeded since.
MissedAlways ==
  /\ DueRun # NoTime
  /\ DueRun <= now

\* Mutant: a persisted run is taken at its instant or not at all.
MissedAtOnce ==
  /\ DueRun = now
  /\ scheduled.lastSuccess < DueRun

Missed ==
  /\ DueRun # NoTime
  /\ DueRun <= now
  /\ scheduled.lastSuccess < DueRun

\* A persisted run is overdue: run it now.
LoopCatchesUp ==
  /\ pc[Sched] = "status"
  /\ dbUp
  /\ Missed
  /\ StartRun(DueRun)
  /\ UNCHANGED <<now, config, scheduled, manual, updating, edit, dbUp, wanted,
                 spent>>

\* Nothing is overdue: compute the next run from the row read at the top.
LoopPlans ==
  /\ pc[Sched] = "status"
  /\ dbUp
  /\ ~Missed
  /\ LET next == NextEligible(loop.row, now)
     IN  \/ next = NoTime /\ Wait("paused", "change")
         \/ /\ next # NoTime
            /\ loop.row.nextRun = next
            /\ SetLifecycle("waiting")
            /\ loop' = [loop EXCEPT !.row = NoRow, !.next = next,
                          !.wait = "due"]
            /\ Goto(Sched, "wait")
         \/ /\ next # NoTime
            /\ loop.row.nextRun # next
            /\ loop' = [loop EXCEPT !.next = next]
            /\ Goto(Sched, "save")
            /\ UNCHANGED control
  /\ UNCHANGED <<now, config, scheduled, manual, updating, edit, dbUp, wanted,
                 spent>>

\* next_eligible_run fails: the local offset cannot be determined.
LoopCannotPlan ==
  /\ pc[Sched] = "status"
  /\ dbUp
  /\ ~Missed
  /\ spent.outages < MaxOutages
  /\ Spend("outages")
  /\ Wait("failed", "change")
  /\ UNCHANGED <<now, config, scheduled, manual, updating, edit, dbUp, wanted>>

\* The status row cannot be read: the loop ends.
LoopGivesUp ==
  /\ pc[Sched] = "status"
  /\ ~dbUp
  /\ LeaveLoop
  /\ UNCHANGED <<now, config, scheduled, manual, updating, edit, dbUp, wanted,
                 spent>>

\* set_schedule(updated): the row read at the top overwrites the one in the
\* database; an error is ignored.
LoopSaves ==
  /\ pc[Sched] = "save"
  /\ IF dbUp THEN SaveRow(loop.row) ELSE UNCHANGED config
  /\ Wait("waiting", "due")
  /\ UNCHANGED <<now, scheduled, manual, updating, edit, dbUp, wanted, spent>>

\* Mutant: the wait for the scheduled instant ignores it as well.
StopSeenWhenPaused == control.stop /\ loop.wait = "change"

\* What wait_for_change_or_stop returns; the wait after an unreadable
\* configuration ignores it.
StopSeen == control.stop /\ loop.wait # "retry"

\* The end of a wait, notified, timed out or spurious.
LoopWakes ==
  /\ pc[Sched] = "wait"
  /\ \/ StopSeen /\ LeaveLoop
     \/ /\ ~StopSeen
        /\ loop.wait = "due" => now < loop.next
        /\ loop' = [loop EXCEPT !.next = NoTime, !.wait = "change"]
        /\ Goto(Sched, "top")
        /\ UNCHANGED control
     \/ /\ ~StopSeen
        /\ loop.wait = "due" /\ now >= loop.next
        /\ StartRun(loop.next)
  /\ UNCHANGED <<now, config, scheduled, manual, updating, edit, dbUp, wanted,
                 spent>>

\* persist_next_run: read the row and compute the run after this one.
PersistRead ==
  /\ pc[Sched] = "persist"
  /\ ClockMoved(Sched)
  /\ \/ /\ dbUp
        /\ loop' = [loop EXCEPT !.row = config, !.next = NextEligible(config, now)]
        /\ Goto(Sched, "persistConfig")
     \/ ~dbUp /\ Goto(Sched, "top") /\ UNCHANGED loop
  /\ UNCHANGED <<now, config, scheduled, manual, control, updating, edit, dbUp,
                 wanted, spent>>

\* ... write the row back; an error is ignored.
PersistConfig ==
  /\ pc[Sched] = "persistConfig"
  /\ IF dbUp THEN SaveRow(loop.row) ELSE UNCHANGED config
  /\ loop' = [loop EXCEPT !.row = NoRow]
  /\ Goto(Sched, "persistStatus")
  /\ UNCHANGED <<now, scheduled, manual, control, updating, edit, dbUp, wanted,
                 spent>>

\* Mutant: the next run is persisted after a success only.
PersistStatusOfSuccess ==
  /\ pc[Sched] = "persistStatus"
  /\ scheduled' = IF dbUp /\ scheduled.state = "succeeded"
                  THEN [scheduled EXCEPT !.nextRun = loop.next] ELSE scheduled
  /\ loop' = [loop EXCEPT !.next = NoTime]
  /\ Goto(Sched, "top")
  /\ UNCHANGED <<now, config, manual, control, updating, edit, dbUp, wanted,
                 spent>>

\* ... and the status row, read and written back; an error is ignored.
PersistStatus ==
  /\ pc[Sched] = "persistStatus"
  /\ scheduled' = IF dbUp THEN [scheduled EXCEPT !.nextRun = loop.next]
                  ELSE scheduled
  /\ loop' = [loop EXCEPT !.next = NoTime]
  /\ Goto(Sched, "top")
  /\ UNCHANGED <<now, config, manual, control, updating, edit, dbUp, wanted,
                 spent>>

LoopStep ==
  \/ ThreadOpens
  \/ LoopTop
  \/ LoopCatchesUp
  \/ LoopPlans
  \/ LoopCannotPlan
  \/ LoopGivesUp
  \/ LoopSaves
  \/ LoopWakes
  \/ PersistRead
  \/ PersistConfig
  \/ PersistStatus

-----------------------------------------------------------------------------
(***************************************************************************)
(* The environment.                                                        *)
(***************************************************************************)

Tick ==
  /\ now < MaxNow
  /\ now' = now + 1
  /\ UNCHANGED <<config, scheduled, manual, control, updating, pc, loop, edit,
                 dbUp, wanted, spent>>

Outage ==
  /\ dbUp
  /\ spent.outages < MaxOutages
  /\ Spend("outages")
  /\ dbUp' = FALSE
  /\ UNCHANGED <<now, config, scheduled, manual, control, updating, pc, loop,
                 edit, wanted>>

Repair ==
  /\ ~dbUp
  /\ dbUp' = TRUE
  /\ UNCHANGED <<now, config, scheduled, manual, control, updating, pc, loop,
                 edit, wanted, spent>>

\* The process dies and is started again; the database and the other processes
\* keep what they have.
Crash ==
  /\ spent.crashes < MaxCrashes
  /\ Spend("crashes")
  /\ control' = Stopped
  /\ updating' = "nobody"
  /\ pc' = Home
  /\ loop' = NoLoop
  /\ edit' = [edit EXCEPT ![Main] = NoRow]
  /\ UNCHANGED <<now, config, scheduled, manual, dbUp, wanted>>

Next ==
  \/ StartScheduler \/ StopScheduler \/ Join \/ UpdateRecord
  \/ \E c \in Client : EditRead(c) \/ EditWrite(c)
  \/ \E t \in Thread : UpdateStep(t)
  \/ LoopStep
  \/ Tick \/ Outage \/ Repair \/ Crash

Spec == Init /\ [][Next]_vars

\* The operating system runs both threads, the clock moves on, and an outage
\* of the database ends.  Nobody is obliged to start, stop or edit anything.
Fairness ==
  /\ WF_vars(LoopStep)
  /\ WF_vars(UpdateStep(Sched))
  /\ WF_vars(UpdateStep(Main))
  /\ WF_vars(Join)
  /\ WF_vars(EditWrite(Main))
  /\ WF_vars(Tick)
  /\ WF_vars(Repair)

FairSpec == Spec /\ Fairness

-----------------------------------------------------------------------------
(***************************************************************************)
(* Properties.                                                             *)
(***************************************************************************)

InUpdate(t) == pc[t] \in {"check", "begin", "run"}

\* The updating mutex: a manual and a scheduled update of one process never
\* work at the same time, whatever the loop, the shell and crashes do.
UpdatesExclusive == ~(InUpdate(Main) /\ InUpdate(Sched))

\* Whenever the loop's thread exists, running says so, so that a second start
\* is refused, and somebody holds or joins its handle, so that a stop waits for
\* it: no sequence of starts, stops and failures leaves a loop nobody controls.
ThreadAccountedFor ==
  pc[Sched] # "none" =>
    /\ control.running
    /\ control.handle \/ pc[Main] = "join"

\* A reconciled occurrence is never reconciled again: every success that is
\* recorded is that of a later occurrence than the one recorded before it,
\* across edits, outages, crashes and restarts.
OccurrencesAdvance ==
  [][scheduled'.lastSuccess # scheduled.lastSuccess
       => scheduled'.lastReconciled > scheduled.lastReconciled]_vars

\* One catch-up and no burst: however many occurrences have passed, a success
\* covers all that were due before it, and no run starts for one of them, in
\* this life of the loop or a later one.
SuccessCoversMissed ==
  [][pc[Sched] # "lock" /\ pc'[Sched] = "lock"
       => loop'.run >= scheduled.lastSuccess]_vars

\* And no automatic retry: as long as the database answers, one life of the
\* loop attempts later and later occurrences, so a failed run is not tried again.
AttemptsAdvance ==
  /\ SuccessCoversMissed
  /\ [][pc[Sched] # "lock" /\ pc'[Sched] = "lock" /\ spent.outages = 0
          => loop'.run > loop.run]_vars

\* stop_scheduler returns: the loop sees the request even if it is updating,
\* competing for the mutex, or out of reach of its database for a while.
StopReturns == pc[Main] = "join" ~> pc[Main] = "idle"

\* The persisted run the loop waits for: read in the order the loop reads it.
WaitsFor(t) ==
  /\ pc[Sched] = "wait" /\ loop.wait = "due" /\ loop.next = t
  /\ t \in {scheduled.nextRun, config.nextRun}
  /\ scheduled.nextRun \in {t, NoTime}

\* A persisted run the loop waits for is attempted, by the wait that ends or by
\* the catch-up, manual updates and outages notwithstanding, unless the loop ends.
WaitedRunIsAttempted ==
  \A t \in 0..MaxNow : WaitsFor(t) ~> (loop.run >= t \/ pc[Sched] = "none")

\* What the documents say and the code does not do.  Runs find the violation
\* of the first two; README.md tells the steps that violate the others.

\* "A paused configuration never starts automatic collection": the run that
\* gets past the check of the configuration was not asked to pause.
PausedNeverStarts ==
  [][pc[Sched] = "check" /\ pc'[Sched] = "begin" => wanted]_vars

\* "A configuration change wakes the scheduler so the next calculation uses the
\* latest schedule": the instant a pass of the loop starts a run for is an
\* occurrence of the schedule that pass has read.
RunFollowsSchedule ==
  [][pc[Sched] = "status" /\ pc'[Sched] = "lock"
       => Occurrence(loop.row.days, loop.row.time, loop'.run)]_vars

\* "If a persisted eligible run is overdue and has not succeeded, the first
\* alpha performs one prompt catch-up update": a pass that has read an overdue
\* next_run, later than the last success, does not go to sleep over it.
OverdueIsCaughtUp ==
  [][pc[Sched] = "status" /\ pc'[Sched] \in {"save", "wait"}
       => ~(loop.row.nextRun \in (scheduled.lastSuccess + 1)..now)]_vars

\* "Failed runs persist their failure": a scheduled run that ends has left
\* either outcome in the status row.
FailureIsRecorded ==
  [][InUpdate(Sched) /\ pc'[Sched] = "persist"
       => scheduled'.state \in {"succeeded", "failed"}]_vars

\* The scheduler tests: once stop_scheduler has answered Ok the lifecycle is
\* Stopped and a further stop is refused.
StopLeavesStopped ==
  [][pc[Main] = "join" /\ pc'[Main] = "idle"
       => control'.lifecycle = "stopped" /\ ~control'.running]_vars
=============================================================================
