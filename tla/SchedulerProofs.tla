-------------------------- MODULE SchedulerProofs --------------------------
(***************************************************************************)
(* Safety of the scheduler for every set of other processes, every choice  *)
(* of schedules, every clock and every number of edits, manual updates,    *)
(* outages and crashes.                                                    *)
(***************************************************************************)
EXTENDS Scheduler, ScheduleProofs

USE SchedulerAssumption DEF Thread, Client

-----------------------------------------------------------------------------
\* Type correctness.

\* A next run is an instant not before the clock, or none.
LEMMA NextEligibleType ==
  ASSUME NEW row \in Config, NEW t \in Instant
  PROVE  /\ NextEligible(row, t) \in OptInstant
         /\ NextEligible(row, t) # NoTime => NextEligible(row, t) >= t
<1>1. row.days \in ScheduleKind /\ row.time \in LocalTime
  BY DEF Config
<1> QED
  BY <1>1, NextRunNotBeforeNow DEF NextEligible, OptInstant

\* A row saved whole is a configuration.
LEMMA SavedRowType ==
  ASSUME TypeOK, NEW row \in Config, SaveRow(row)
  PROVE  config' \in Config
<1>1. NextEligible(row, now) \in OptInstant
  BY NextEligibleType DEF TypeOK
<1> QED
  BY <1>1 DEF SaveRow, Config

USE DEF RunState, Lifecycle, WaitFor, UpdatePc, PersistPc, SchedPc, MainPc

\* The migrations' rows are configurations.
LEMMA DefaultRowsType == DefaultRows \subseteq Config
<1> SUFFICES ASSUME NEW o \in Offered
             PROVE  [monitoring |-> FALSE, folder |-> FALSE, days |-> o[1],
                     time |-> o[2], nextRun |-> NoTime] \in Config
  BY DEF DefaultRows
<1>1. o[1] \in ScheduleKind /\ o[2] \in LocalTime
  OBVIOUS
<1> QED
  BY <1>1 DEF Config, OptInstant

\* The initial state is typed.
LEMMA TypeInit == Init => TypeOK
<1> SUFFICES ASSUME Init PROVE TypeOK
  OBVIOUS
<1>1. config \in Config /\ wanted \in BOOLEAN
  BY DefaultRowsType DEF Init, InitWith, Config
<1>2. loop \in [row : Config \cup {NoRow}, next : OptInstant, run : OptInstant,
                wait : WaitFor]
  BY DEF Init, InitWith, NoLoop, OptInstant
<1>3. pc \in [Thread -> MainPc \cup SchedPc] /\ pc[Main] = "idle" /\ pc[Sched] = "none"
  BY DEF Init, InitWith, Home
<1>4. edit \in [Client -> Edit \cup {NoRow}]
  BY DEF Init, InitWith
<1>5. /\ now \in Instant
      /\ scheduled \in [state : RunState, lastSuccess : OptInstant,
                        lastReconciled : OptInstant, nextRun : OptInstant]
      /\ manual \in RunState
      /\ control \in [running : BOOLEAN, stop : BOOLEAN, lifecycle : Lifecycle,
                      handle : BOOLEAN]
      /\ updating \in Thread \cup {"nobody"}
      /\ dbUp \in BOOLEAN
      /\ spent \in [edits : Nat, manual : Nat, outages : Nat, crashes : Nat]
  BY DEF Init, InitWith, Stopped, Instant, OptInstant
<1> QED
  BY <1>1, <1>2, <1>3, <1>4, <1>5 DEF TypeOK

\* Starts, stops and manual updates keep the types.
LEMMA TypeMain ==
  ASSUME TypeOK, StartScheduler \/ StopScheduler \/ Join \/ UpdateRecord
  PROVE  TypeOK'
<1>1. CASE StartScheduler
  BY <1>1 DEF TypeOK, StartScheduler, Goto
<1>2. CASE StopScheduler
  <2>1. control' \in [running : BOOLEAN, stop : BOOLEAN, lifecycle : Lifecycle,
                      handle : BOOLEAN]
    BY <1>2 DEF TypeOK, StopScheduler
  <2>2. /\ pc' \in [Thread -> MainPc \cup SchedPc]
        /\ pc'[Main] \in MainPc /\ pc'[Sched] = pc[Sched]
    BY <1>2 DEF TypeOK, StopScheduler, Goto
  <2> QED
    BY <1>2, <2>1, <2>2 DEF TypeOK, StopScheduler
<1>3. CASE Join
  BY <1>3 DEF TypeOK, Join, Goto
<1>4. CASE UpdateRecord
  BY <1>4 DEF TypeOK, UpdateRecord, Goto, Spend
<1> QED
  BY <1>1, <1>2, <1>3, <1>4

\* Edits of the configuration keep the types.
LEMMA TypeEdit ==
  ASSUME TypeOK, NEW c \in Client, EditRead(c) \/ EditWrite(c)
  PROVE  TypeOK'
<1>1. CASE EditRead(c)
  <2>1. edit' \in [Client -> Edit \cup {NoRow}]
    <3>1. CASE \E on \in BOOLEAN :
                 edit' = [edit EXCEPT ![c] =
                   [row |-> [config EXCEPT !.monitoring = on],
                    kind |-> "monitoring"]]
      BY <3>1 DEF TypeOK, Edit, Config
    <3>2. CASE edit' = [edit EXCEPT ![c] =
                 [row |-> [config EXCEPT !.folder = TRUE], kind |-> "folder"]]
      BY <3>2 DEF TypeOK, Edit, Config
    <3>3. ASSUME NEW o \in Offered,
                 edit' = [edit EXCEPT ![c] =
                   [row |-> [config EXCEPT !.days = o[1], !.time = o[2]],
                    kind |-> "schedule"]]
          PROVE  edit' \in [Client -> Edit \cup {NoRow}]
      <4>1. o[1] \in ScheduleKind /\ o[2] \in LocalTime
        OBVIOUS
      <4>2. [config EXCEPT !.days = o[1], !.time = o[2]] \in Config
        BY <4>1 DEF TypeOK, Config
      <4> QED
        BY <3>3, <4>2 DEF TypeOK, Edit
    <3> QED
      BY <1>1, <3>1, <3>2, <3>3 DEF EditRead
  <2>2. /\ Spend("edits")
        /\ UNCHANGED <<now, config, scheduled, manual, control, updating, pc, loop,
                       dbUp, wanted>>
    BY <1>1 DEF EditRead
  <2>3. spent' \in [edits : Nat, manual : Nat, outages : Nat, crashes : Nat]
    BY <2>2 DEF TypeOK, Spend
  <2> QED
    BY <2>1, <2>2, <2>3 DEF TypeOK
<1>2. CASE EditWrite(c)
  <2>1. edit[c] \in Edit
    BY <1>2 DEF EditWrite, TypeOK
  <2>2. edit[c].row \in Config
    BY <2>1 DEF Edit
  <2>3. config' \in Config /\ wanted' \in BOOLEAN
    BY <1>2, <2>2, SavedRowType DEF EditWrite, TypeOK, Config
  <2>4. edit' \in [Client -> Edit \cup {NoRow}]
    BY <1>2 DEF EditWrite, TypeOK
  <2> QED
    BY <1>2, <2>3, <2>4 DEF EditWrite, TypeOK
<1> QED
  BY <1>1, <1>2

\* The stages of an update keep the types.
LEMMA TypeUpdate ==
  ASSUME TypeOK, NEW t \in Thread, UpdateStep(t)
  PROVE  TypeOK'
<1>1. CASE UpdateLock(t)
  BY <1>1 DEF TypeOK, UpdateLock, Goto
<1>2. CASE UpdateCheck(t)
  BY <1>2 DEF TypeOK, UpdateCheck, Goto
<1>3. CASE UpdateRefused(t)
  BY <1>3 DEF TypeOK, UpdateRefused, EndUpdate, Goto
<1>4. CASE UpdateBegin(t)
  BY <1>4 DEF TypeOK, UpdateBegin, SetState, Goto
<1>5. CASE UpdateSucceeds(t)
  <2>1. now \in OptInstant
    BY DEF TypeOK, OptInstant
  <2>2. /\ scheduled' \in [state : RunState, lastSuccess : OptInstant,
                          lastReconciled : OptInstant, nextRun : OptInstant]
        /\ manual' \in RunState
    BY <1>5, <2>1 DEF TypeOK, UpdateSucceeds
  <2>3. /\ updating' \in Thread \cup {"nobody"}
        /\ pc' \in [Thread -> MainPc \cup SchedPc]
        /\ pc'[Main] \in MainPc /\ pc'[Sched] \in SchedPc
        /\ pc'[Sched] \in {pc[Sched], "persist"}
    BY <1>5 DEF TypeOK, UpdateSucceeds, EndUpdate, Goto
  <2>4. UNCHANGED <<now, config, control, loop, edit, dbUp, wanted, spent>>
    BY <1>5 DEF UpdateSucceeds
  <2> QED
    BY <2>2, <2>3, <2>4 DEF TypeOK
<1>6. CASE UpdateFails(t)
  BY <1>6 DEF TypeOK, UpdateFails, SetState, EndUpdate, Goto
<1>7. CASE UpdateLost(t)
  BY <1>7 DEF TypeOK, UpdateLost, EndUpdate, Goto
<1> QED
  BY <1>1, <1>2, <1>3, <1>4, <1>5, <1>6, <1>7 DEF UpdateStep

\* The steps of the loop keep the types.
LEMMA TypeLoop ==
  ASSUME TypeOK, LoopStep
  PROVE  TypeOK'
<1> DEFINE Rest == UNCHANGED <<now, scheduled, manual, updating, edit, dbUp,
                               wanted>>
           LoopType == [row : Config \cup {NoRow}, next : OptInstant,
                        run : OptInstant, wait : WaitFor]
           ControlType == [running : BOOLEAN, stop : BOOLEAN,
                           lifecycle : Lifecycle, handle : BOOLEAN]
           PcOK(labels) == /\ pc' \in [Thread -> MainPc \cup SchedPc]
                           /\ pc'[Main] = pc[Main]
                           /\ pc'[Sched] \in labels
<1>1. ASSUME NEW l \in Lifecycle, NEW f \in WaitFor, Wait(l, f)
      PROVE  control' \in ControlType /\ loop' \in LoopType /\ PcOK({"wait"})
  BY <1>1 DEF TypeOK, Wait, SetLifecycle, Goto
<1>2. ASSUME LeaveLoop
      PROVE  control' \in ControlType /\ loop' \in LoopType /\ PcOK({"none"})
  BY <1>2 DEF TypeOK, LeaveLoop, NoLoop, OptInstant, Goto
<1>3. ASSUME NEW t \in OptInstant, StartRun(t)
      PROVE  control' \in ControlType /\ loop' \in LoopType /\ PcOK({"lock"})
  BY <1>3 DEF TypeOK, StartRun, SetLifecycle, OptInstant, Goto
<1>4. CASE ThreadOpens
  BY <1>4 DEF TypeOK, ThreadOpens, SetLifecycle, Goto
<1>5. CASE LoopTop
  <2>1. CASE Wait("failed", "retry") \/ Wait("paused", "change")
    BY <1>1, <1>5, <2>1 DEF TypeOK, LoopTop
  <2>2. CASE /\ loop' = [loop EXCEPT !.row = config]
             /\ Goto(Sched, "status")
             /\ UNCHANGED control
    BY <1>5, <2>2 DEF TypeOK, LoopTop, Goto
  <2> QED
    BY <1>5, <2>1, <2>2 DEF LoopTop
<1>6. CASE LoopCatchesUp
  <2>1. DueRun \in OptInstant
    BY <1>6 DEF LoopCatchesUp, DueRun, TypeOK, Config
  <2> QED
    BY <1>3, <1>6, <2>1 DEF TypeOK, LoopCatchesUp
<1>7. CASE LoopPlans
  <2>0. loop.row \in Config
    BY <1>7 DEF LoopPlans, TypeOK
  <2>1. PICK next : next = NextEligible(loop.row, now)
    OBVIOUS
  <2>2. next \in OptInstant
    BY <2>0, <2>1, NextEligibleType DEF TypeOK
  <2>3. CASE Wait("paused", "change")
    BY <1>1, <1>7, <2>3 DEF TypeOK, LoopPlans
  <2>4. CASE /\ SetLifecycle("waiting")
             /\ loop' = [loop EXCEPT !.row = NoRow, !.next = next,
                           !.wait = "due"]
             /\ Goto(Sched, "wait")
    BY <1>7, <2>2, <2>4 DEF TypeOK, LoopPlans, SetLifecycle, Goto
  <2>5. CASE /\ loop' = [loop EXCEPT !.next = next]
             /\ Goto(Sched, "save")
             /\ UNCHANGED control
    BY <1>7, <2>0, <2>2, <2>5 DEF TypeOK, LoopPlans, Goto
  <2> QED
    BY <1>7, <2>1, <2>3, <2>4, <2>5 DEF LoopPlans
<1>8. CASE LoopCannotPlan
  <2>1. spent' \in [edits : Nat, manual : Nat, outages : Nat, crashes : Nat]
    BY <1>8 DEF TypeOK, LoopCannotPlan, Spend
  <2> QED
    BY <1>1, <1>8, <2>1 DEF TypeOK, LoopCannotPlan
<1>9. CASE LoopGivesUp
  BY <1>2, <1>9 DEF TypeOK, LoopGivesUp
<1>10. CASE LoopSaves
  <2>1. config' \in Config
    BY <1>10, SavedRowType DEF LoopSaves, TypeOK
  <2> QED
    BY <1>1, <1>10, <2>1 DEF TypeOK, LoopSaves
<1>11. CASE LoopWakes
  <2>1. CASE LeaveLoop
    BY <1>2, <1>11, <2>1 DEF TypeOK, LoopWakes
  <2>2. CASE /\ loop' = [loop EXCEPT !.next = NoTime, !.wait = "change"]
             /\ Goto(Sched, "top")
             /\ UNCHANGED control
    <3>1. loop' \in LoopType /\ loop'.row = loop.row
      BY <2>2 DEF TypeOK, OptInstant
    <3>2. PcOK({"top"})
      BY <2>2 DEF TypeOK, Goto
    <3> QED
      BY <1>11, <2>2, <3>1, <3>2 DEF TypeOK, LoopWakes
  <2>3. CASE StartRun(loop.next)
    BY <1>3, <1>11, <2>3 DEF TypeOK, LoopWakes
  <2> QED
    BY <1>11, <2>1, <2>2, <2>3 DEF LoopWakes
<1>12. CASE PersistRead
  <2>1. NextEligible(config, now) \in OptInstant
    BY NextEligibleType DEF TypeOK
  <2> QED
    <3>1. CASE /\ loop' = [loop EXCEPT !.row = config,
                                       !.next = NextEligible(config, now)]
               /\ Goto(Sched, "persistConfig")
      <4>1. loop' \in LoopType /\ loop'.row \in Config
        BY <2>1, <3>1 DEF TypeOK
      <4>2. PcOK({"persistConfig"})
        BY <3>1 DEF TypeOK, Goto
      <4> QED
        BY <1>12, <4>1, <4>2 DEF TypeOK, PersistRead
    <3>2. CASE Goto(Sched, "top") /\ UNCHANGED loop
      BY <1>12, <3>2 DEF TypeOK, PersistRead, Goto
    <3> QED
      BY <1>12, <3>1, <3>2 DEF PersistRead
<1>13. CASE PersistConfig
  <2>1. config' \in Config
    BY <1>13, SavedRowType DEF PersistConfig, TypeOK
  <2> QED
    BY <1>13, <2>1 DEF TypeOK, PersistConfig, Goto
<1>14. CASE PersistStatus
  BY <1>14 DEF TypeOK, PersistStatus, OptInstant, Goto
<1> QED
  BY <1>4, <1>5, <1>6, <1>7, <1>8, <1>9, <1>10, <1>11, <1>12, <1>13, <1>14
  DEF LoopStep

\* The clock, outages and crashes keep the types.
LEMMA TypeEnvironment ==
  ASSUME TypeOK, Tick \/ Outage \/ Repair \/ Crash
  PROVE  TypeOK'
<1>1. CASE Tick
  BY <1>1 DEF TypeOK, Tick, Instant
<1>2. CASE Outage
  <2>0. Spend("outages")
    BY <1>2 DEF Outage
  <2>1. spent' \in [edits : Nat, manual : Nat, outages : Nat, crashes : Nat]
    BY <2>0 DEF TypeOK, Spend
  <2>2. /\ dbUp' \in BOOLEAN
        /\ UNCHANGED <<now, config, scheduled, manual, control, updating, pc,
                       loop, edit, wanted>>
    BY <1>2 DEF Outage
  <2> QED
    BY <2>1, <2>2 DEF TypeOK
<1>3. CASE Repair
  BY <1>3 DEF TypeOK, Repair
<1>4. CASE Crash
  <2>1. /\ control' \in [running : BOOLEAN, stop : BOOLEAN,
                         lifecycle : Lifecycle, handle : BOOLEAN]
        /\ pc' \in [Thread -> MainPc \cup SchedPc]
        /\ pc'[Main] = "idle" /\ pc'[Sched] = "none"
    BY <1>4 DEF Crash, Stopped, Home
  <2>2. /\ loop' \in [row : Config \cup {NoRow}, next : OptInstant,
                      run : OptInstant, wait : WaitFor]
        /\ edit' \in [Client -> Edit \cup {NoRow}]
        /\ spent' \in [edits : Nat, manual : Nat, outages : Nat, crashes : Nat]
    BY <1>4 DEF TypeOK, Crash, NoLoop, OptInstant, Spend
  <2> QED
    BY <1>4, <2>1, <2>2 DEF TypeOK, Crash
<1> QED
  BY <1>1, <1>2, <1>3, <1>4

\* Every variable keeps its type.
THEOREM TypeCorrect == Spec => []TypeOK
<1>1. TypeOK /\ [Next]_vars => TypeOK'
  <2> SUFFICES ASSUME TypeOK, [Next]_vars PROVE TypeOK'
    OBVIOUS
  <2>1. CASE UNCHANGED vars
    BY <2>1 DEF vars, TypeOK
  <2>2. CASE Next
    BY <2>2, TypeMain, TypeEdit, TypeUpdate, TypeLoop, TypeEnvironment DEF Next
  <2> QED
    BY <2>1, <2>2
<1> QED
  BY TypeInit, <1>1, PTL DEF Spec

-----------------------------------------------------------------------------
\* The loop's thread is always accounted for.

\* ThreadAccountedFor is inductive given the types: only start_scheduler makes
\* a thread, only when none is running, and the thread clears running itself,
\* with its last step; the handle is given up only to be joined.
THEOREM NoOrphanThread == Spec => []ThreadAccountedFor
<1>1. Init => ThreadAccountedFor
  BY DEF Init, InitWith, Home, ThreadAccountedFor
<1>2. TypeOK /\ ThreadAccountedFor /\ [Next]_vars => ThreadAccountedFor'
  <2> SUFFICES ASSUME TypeOK, ThreadAccountedFor, [Next]_vars
               PROVE  ThreadAccountedFor'
    OBVIOUS
  <2> USE DEF ThreadAccountedFor
  <2>1. CASE StartScheduler
    BY <2>1 DEF StartScheduler, Goto, TypeOK
  <2>2. CASE StopScheduler
    BY <2>2 DEF StopScheduler, MainFree, Goto, TypeOK
  <2>3. CASE Join
    BY <2>3 DEF Join, Goto, TypeOK
  <2>4. CASE UpdateRecord
    BY <2>4 DEF UpdateRecord, MainFree, Goto, TypeOK
  <2>5. ASSUME NEW c \in Client, EditRead(c) \/ EditWrite(c)
        PROVE  ThreadAccountedFor'
    <3>1. UNCHANGED <<pc, control>>
      BY <2>5 DEF EditRead, EditWrite
    <3> QED
      BY <3>1
  <2>6. ASSUME NEW t \in Thread, UpdateStep(t)
        PROVE  ThreadAccountedFor'
    <3>1. /\ UNCHANGED control
          /\ pc[t] \in UpdatePc
          /\ pc' \in [Thread -> MainPc \cup SchedPc]
          /\ \A u \in Thread \ {t} : pc'[u] = pc[u]
      BY <2>6 DEF UpdateStep, UpdateLock, UpdateCheck, UpdateRefused,
                  UpdateBegin, UpdateSucceeds, UpdateFails, UpdateLost,
                  EndUpdate, Goto, TypeOK
    <3> QED
      BY <3>1 DEF TypeOK
  <2>7. CASE LoopStep
    <3>1. CASE LeaveLoop
      BY <3>1 DEF LeaveLoop, Goto, TypeOK
    <3>2. CASE /\ pc[Sched] # "none"
               /\ pc'[Main] = pc[Main]
               /\ control'.running = control.running
               /\ control'.handle = control.handle
      BY <3>2
    <3>3. CASE ThreadOpens
      BY <2>7, <3>3 DEF ThreadOpens, SetLifecycle, Goto, TypeOK
    <3>4. ASSUME LoopStep, ~ThreadOpens, ~LeaveLoop
          PROVE  /\ pc[Sched] # "none"
                 /\ pc'[Main] = pc[Main]
                 /\ control'.running = control.running
                 /\ control'.handle = control.handle
      BY <3>4 DEF LoopStep, LoopTop, LoopCatchesUp, LoopPlans, LoopCannotPlan,
                  LoopGivesUp, LoopSaves, LoopWakes, PersistRead,
                  PersistConfig, PersistStatus, Wait, StartRun, SetLifecycle,
                  Goto, TypeOK
    <3> QED
      BY <2>7, <3>1, <3>2, <3>3, <3>4
  <2>8. CASE Tick \/ Outage \/ Repair
    BY <2>8 DEF Tick, Outage, Repair
  <2>9. CASE Crash
    BY <2>9 DEF Crash, Home
  <2>10. CASE UNCHANGED vars
    BY <2>10 DEF vars
  <2> QED
    BY <2>1, <2>2, <2>3, <2>4, <2>5, <2>6, <2>7, <2>8, <2>9, <2>10 DEF Next
<1> QED
  BY <1>1, <1>2, TypeCorrect, PTL DEF Spec

-----------------------------------------------------------------------------
\* Mutual exclusion of updates.

\* The strengthening: a thread at work in an update holds the mutex.
WorkerHoldsMutex == \A t \in Thread : InUpdate(t) => updating = t

\* A manual and a scheduled update never work at the same time (UpdatesExclusive),
\* in whatever order threads are scheduled and the process dies.
THEOREM MutualExclusion == Spec => []UpdatesExclusive
<1>1. Init => WorkerHoldsMutex
  BY DEF Init, InitWith, Home, WorkerHoldsMutex, InUpdate
<1>2. TypeOK /\ WorkerHoldsMutex /\ [Next]_vars => WorkerHoldsMutex'
  <2> SUFFICES ASSUME TypeOK, WorkerHoldsMutex, [Next]_vars
               PROVE  WorkerHoldsMutex'
    OBVIOUS
  <2> USE DEF WorkerHoldsMutex, InUpdate
  <2>1. CASE StartScheduler
    BY <2>1 DEF StartScheduler, Goto, TypeOK
  <2>2. CASE StopScheduler \/ Join \/ UpdateRecord
    BY <2>2 DEF StopScheduler, Join, UpdateRecord, Goto, TypeOK
  <2>3. ASSUME NEW c \in Client, EditRead(c) \/ EditWrite(c)
        PROVE  WorkerHoldsMutex'
    <3>1. UNCHANGED <<pc, updating>>
      BY <2>3 DEF EditRead, EditWrite
    <3> QED
      BY <3>1
  <2>4. ASSUME NEW t \in Thread, UpdateStep(t)
        PROVE  WorkerHoldsMutex'
    <3>1. CASE UpdateLock(t)
      <4>1. \A u \in Thread : ~InUpdate(u)
        BY <3>1, NobodyIsNoThread DEF UpdateLock
      <4>2. /\ updating' = t
            /\ \A u \in Thread \ {t} : pc'[u] = pc[u]
        BY <3>1 DEF UpdateLock, Goto, TypeOK
      <4> QED
        BY <4>1, <4>2
    <3>2. CASE UpdateCheck(t) \/ UpdateBegin(t)
      BY <3>2 DEF UpdateCheck, UpdateBegin, Goto, TypeOK
    <3>3. ASSUME InUpdate(t), EndUpdate(t)
          PROVE  WorkerHoldsMutex'
      BY <3>3 DEF EndUpdate, Goto, TypeOK
    <3>4. CASE UpdateRefused(t) \/ UpdateSucceeds(t) \/ UpdateFails(t) \/ UpdateLost(t)
      BY <3>3, <3>4 DEF UpdateRefused, UpdateSucceeds, UpdateFails, UpdateLost
    <3> QED
      BY <2>4, <3>1, <3>2, <3>4 DEF UpdateStep
  <2>5. CASE LoopStep
    <3>0. Sched # Main /\ pc \in [Thread -> MainPc \cup SchedPc]
      BY DEF TypeOK
    <3>1. /\ UNCHANGED updating
          /\ pc'[Main] = pc[Main]
          /\ pc'[Sched] \notin {"check", "begin", "run"}
      BY <2>5, <3>0 DEF LoopStep, ThreadOpens, LoopTop, LoopCatchesUp, LoopPlans,
                  LoopCannotPlan, LoopGivesUp, LoopSaves, LoopWakes,
                  PersistRead, PersistConfig, PersistStatus, Wait, StartRun,
                  LeaveLoop, Goto
    <3> QED
      BY <3>1
  <2>6. CASE Tick \/ Outage \/ Repair
    BY <2>6 DEF Tick, Outage, Repair
  <2>7. CASE Crash
    BY <2>7 DEF Crash, Home
  <2>8. CASE UNCHANGED vars
    BY <2>8 DEF vars
  <2> QED
    BY <2>1, <2>2, <2>3, <2>4, <2>5, <2>6, <2>7, <2>8 DEF Next
<1>3. WorkerHoldsMutex => UpdatesExclusive
  BY DEF WorkerHoldsMutex, UpdatesExclusive, InUpdate
<1> QED
  BY <1>1, <1>2, <1>3, TypeCorrect, PTL DEF Spec

-----------------------------------------------------------------------------
\* No occurrence is reconciled twice.

(***************************************************************************)
(* The strengthening orders the instants the scheduler handles.  What has  *)
(* been reconciled lies before the success that reconciled it, and the     *)
(* success not after the clock, so a run planned from the clock or caught  *)
(* up because it is later than the last success is later than everything   *)
(* reconciled; it is not before the last success either, which covers      *)
(* whatever else was due by then; and a run is never started early.        *)
(***************************************************************************)
Ordered ==
  /\ scheduled.lastReconciled <= scheduled.lastSuccess
  /\ scheduled.lastReconciled # NoTime
       => scheduled.lastReconciled < scheduled.lastSuccess
  /\ scheduled.lastSuccess <= now
  /\ pc[Sched] \in UpdatePc =>
       /\ loop.run <= now
       /\ scheduled.lastReconciled < loop.run
       /\ scheduled.lastSuccess <= loop.run
  /\ pc[Sched] = "save" \/ (pc[Sched] = "wait" /\ loop.wait = "due") =>
       /\ scheduled.lastReconciled < loop.next
       /\ scheduled.lastSuccess <= loop.next

\* Initially nothing has been reconciled.
LEMMA OrderedInit == Init => Ordered
  BY DEF Init, InitWith, Ordered, Home, NoTime

\* The stages of an update keep the order.
LEMMA OrderedUpdate ==
  ASSUME TypeOK, Ordered, NEW t \in Thread, UpdateStep(t)
  PROVE  Ordered'
<1> USE DEF OptInstant, Instant, NoTime
<1>1. CASE t = Main
  <2>1. UNCHANGED <<now, loop, scheduled>> /\ pc'[Sched] = pc[Sched]
    BY <1>1 DEF UpdateStep, UpdateLock, UpdateCheck, UpdateRefused,
                UpdateBegin, UpdateSucceeds, UpdateFails, UpdateLost,
                EndUpdate, SetState, Goto, TypeOK
  <2> QED
    BY <2>1 DEF Ordered
<1>2. CASE t = Sched /\ UpdateSucceeds(t)
  <2>1. /\ pc[Sched] = "run" /\ pc'[Sched] = "persist"
        /\ now > loop.run
        /\ UNCHANGED <<now, loop>>
        /\ scheduled'.lastSuccess = now
        /\ scheduled'.lastReconciled = loop.run
    BY <1>2 DEF UpdateSucceeds, ClockMoved, EndUpdate, Goto, TypeOK
  <2>2. loop.run \in OptInstant /\ now \in Instant
    BY DEF TypeOK
  <2> QED
    BY <2>1, <2>2 DEF Ordered
<1>3. CASE t = Sched /\ ~UpdateSucceeds(t)
  <2>1. /\ UNCHANGED <<now, loop>>
        /\ scheduled'.lastSuccess = scheduled.lastSuccess
        /\ scheduled'.lastReconciled = scheduled.lastReconciled
        /\ pc[Sched] \in UpdatePc
        /\ pc'[Sched] \in UpdatePc \cup {"persist"}
    BY <1>3 DEF UpdateStep, UpdateLock, UpdateCheck, UpdateRefused,
                UpdateBegin, UpdateFails, UpdateLost, EndUpdate, SetState,
                Goto, TypeOK
  <2> QED
    BY <2>1 DEF Ordered
<1> QED
  BY <1>1, <1>2, <1>3

\* The steps of the loop keep the order.
LEMMA OrderedLoop ==
  ASSUME TypeOK, Ordered, LoopStep
  PROVE  Ordered'
<1> USE DEF OptInstant, Instant, NoTime
<1>0. /\ now \in Instant
      /\ scheduled.lastReconciled \in OptInstant
      /\ scheduled.lastSuccess \in OptInstant
  BY DEF TypeOK
<1>1. UNCHANGED now
  BY DEF LoopStep, ThreadOpens, LoopTop, LoopCatchesUp, LoopPlans,
         LoopCannotPlan, LoopGivesUp, LoopSaves, LoopWakes, PersistRead,
         PersistConfig, PersistStatus
<1>2. /\ scheduled'.lastSuccess = scheduled.lastSuccess
      /\ scheduled'.lastReconciled = scheduled.lastReconciled
  BY DEF LoopStep, ThreadOpens, LoopTop, LoopCatchesUp, LoopPlans,
         LoopCannotPlan, LoopGivesUp, LoopSaves, LoopWakes, PersistRead,
         PersistConfig, PersistStatus, TypeOK
<1>3. ASSUME pc'[Sched] \notin UpdatePc \cup {"save", "wait"}
      PROVE  Ordered'
  BY <1>1, <1>2, <1>3 DEF Ordered
<1>4. ASSUME NEW l, NEW f \in {"retry", "change"}, Wait(l, f)
      PROVE  Ordered'
  <2>1. pc'[Sched] = "wait" /\ loop'.wait # "due"
    BY <1>4 DEF Wait, Goto, TypeOK
  <2> QED
    BY <1>1, <1>2, <2>1 DEF Ordered
<1>5. ASSUME NEW t \in OptInstant, StartRun(t), t <= now,
             scheduled.lastReconciled < t, scheduled.lastSuccess <= t
      PROVE  Ordered'
  <2>1. pc'[Sched] = "lock" /\ loop'.run = t
    BY <1>5 DEF StartRun, Goto, TypeOK
  <2> QED
    BY <1>1, <1>2, <1>5, <2>1 DEF Ordered
<1>6. CASE ThreadOpens \/ PersistRead \/ PersistConfig \/ PersistStatus \/ LoopGivesUp
  <2>1. pc'[Sched] \notin UpdatePc \cup {"save", "wait"}
    BY <1>6 DEF ThreadOpens, PersistRead, PersistConfig, PersistStatus,
                LoopGivesUp, LeaveLoop, Goto, TypeOK
  <2> QED
    BY <1>3, <2>1
<1>7. CASE LoopTop
  <2>1. CASE Goto(Sched, "status")
    BY <1>3, <2>1 DEF Goto, TypeOK
  <2> QED
    BY <1>4, <1>7, <2>1 DEF LoopTop
<1>8. CASE LoopCatchesUp
  <2>1. DueRun \in OptInstant
    BY <1>8 DEF LoopCatchesUp, DueRun, TypeOK, Config
  <2>2. /\ DueRun <= now /\ scheduled.lastReconciled < DueRun
        /\ scheduled.lastSuccess <= DueRun
    BY <1>0, <1>8, <2>1 DEF LoopCatchesUp, Missed, Ordered
  <2> QED
    BY <1>5, <1>8, <2>1, <2>2 DEF LoopCatchesUp
<1>9. CASE LoopPlans
  <2>0. loop.row \in Config
    BY <1>9 DEF LoopPlans, TypeOK
  <2>1. PICK next : next = NextEligible(loop.row, now)
    OBVIOUS
  <2>2. next \in OptInstant /\ (next # NoTime => next >= now)
    BY <1>0, <2>0, <2>1, NextEligibleType
  <2>3. CASE Wait("paused", "change")
    BY <1>4, <2>3
  <2>4. CASE /\ next # NoTime
             /\ loop' = [loop EXCEPT !.row = NoRow, !.next = next,
                           !.wait = "due"]
             /\ Goto(Sched, "wait")
    <3>1. pc'[Sched] = "wait" /\ loop'.next = next
      BY <2>4 DEF Goto, TypeOK
    <3>2. scheduled.lastReconciled < next /\ scheduled.lastSuccess <= next
      BY <1>0, <2>2, <2>4 DEF Ordered
    <3> QED
      BY <1>1, <1>2, <3>1, <3>2 DEF Ordered
  <2>5. CASE /\ next # NoTime
             /\ loop' = [loop EXCEPT !.next = next]
             /\ Goto(Sched, "save")
    <3>1. pc'[Sched] = "save" /\ loop'.next = next
      BY <2>5 DEF Goto, TypeOK
    <3>2. scheduled.lastReconciled < next /\ scheduled.lastSuccess <= next
      BY <1>0, <2>2, <2>5 DEF Ordered
    <3> QED
      BY <1>1, <1>2, <3>1, <3>2 DEF Ordered
  <2> QED
    BY <1>9, <2>1, <2>3, <2>4, <2>5 DEF LoopPlans
<1>10. CASE LoopCannotPlan
  BY <1>4, <1>10 DEF LoopCannotPlan
<1>11. CASE LoopSaves
  <2>1. pc[Sched] = "save" /\ pc'[Sched] = "wait" /\ loop'.next = loop.next
    BY <1>11 DEF LoopSaves, Wait, Goto, TypeOK
  <2> QED
    BY <1>1, <1>2, <2>1 DEF Ordered
<1>12. CASE LoopWakes
  <2>1. CASE LeaveLoop \/ Goto(Sched, "top")
    BY <1>3, <2>1 DEF LeaveLoop, Goto, TypeOK
  <2>2. CASE pc[Sched] = "wait" /\ loop.wait = "due" /\ now >= loop.next
               /\ StartRun(loop.next)
    <3>1. loop.next \in OptInstant
      BY DEF TypeOK
    <3>2. scheduled.lastReconciled < loop.next /\ scheduled.lastSuccess <= loop.next
      BY <2>2 DEF Ordered
    <3> QED
      BY <1>0, <1>5, <2>2, <3>1, <3>2
  <2> QED
    BY <1>12, <2>1, <2>2 DEF LoopWakes
<1> QED
  BY <1>6, <1>7, <1>8, <1>9, <1>10, <1>11, <1>12 DEF LoopStep

\* Every step keeps the order.
LEMMA OrderedNext ==
  ASSUME TypeOK, Ordered, [Next]_vars
  PROVE  Ordered'
<1>1. CASE StartScheduler
  BY <1>1 DEF StartScheduler, Ordered, Goto, TypeOK
<1>2. CASE StopScheduler \/ Join \/ UpdateRecord
  BY <1>2 DEF StopScheduler, Join, UpdateRecord, Ordered, Goto, TypeOK
<1>3. ASSUME NEW c \in Client, EditRead(c) \/ EditWrite(c)
      PROVE  Ordered'
  <2>1. UNCHANGED <<now, scheduled, pc, loop>>
    BY <1>3 DEF EditRead, EditWrite
  <2> QED
    BY <2>1 DEF Ordered
<1>4. CASE Tick
  BY <1>4 DEF Tick, Ordered, TypeOK, OptInstant, Instant, NoTime
<1>5. CASE Outage \/ Repair
  BY <1>5 DEF Outage, Repair, Ordered
<1>6. CASE Crash
  BY <1>6 DEF Crash, Home, Ordered
<1>7. CASE UNCHANGED vars
  BY <1>7 DEF vars, Ordered
<1> QED
  BY <1>1, <1>2, <1>3, <1>4, <1>5, <1>6, <1>7, OrderedUpdate, OrderedLoop
  DEF Next

\* Only the success of a scheduled run changes what the status row says of
\* successes.
LEMMA SuccessStep ==
  ASSUME TypeOK, [Next]_vars,
         scheduled'.lastSuccess # scheduled.lastSuccess
  PROVE  UpdateSucceeds(Sched)
BY DEF Next, vars, StartScheduler, StopScheduler, Join, UpdateRecord,
       EditRead, EditWrite, UpdateStep, UpdateLock, UpdateCheck,
       UpdateRefused, UpdateBegin, UpdateSucceeds, UpdateFails, UpdateLost,
       SetState, LoopStep, ThreadOpens, LoopTop, LoopCatchesUp, LoopPlans,
       LoopCannotPlan, LoopGivesUp, LoopSaves, LoopWakes, PersistRead,
       PersistConfig, PersistStatus, Tick, Outage, Repair, Crash, TypeOK

\* A step that records an occurrence as reconciled records a later one.
LEMMA OccurrenceStep ==
  ASSUME TypeOK, Ordered, [Next]_vars,
         scheduled'.lastSuccess # scheduled.lastSuccess
  PROVE  scheduled'.lastReconciled > scheduled.lastReconciled
<1>1. UpdateSucceeds(Sched)
  BY SuccessStep
<1>2. scheduled'.lastReconciled = loop.run /\ pc[Sched] = "run"
  BY <1>1 DEF UpdateSucceeds, TypeOK
<1> QED
  BY <1>2 DEF Ordered, TypeOK, OptInstant, Instant, NoTime

\* No occurrence is reconciled twice (OccurrencesAdvance), whatever is edited,
\* fails, crashes or is restarted in between.
THEOREM NoOccurrenceTwice == Spec => OccurrencesAdvance
<1>1. TypeOK /\ Ordered /\ [Next]_vars => Ordered'
  BY OrderedNext
<1>2. TypeOK /\ Ordered /\ [Next]_vars =>
        [scheduled'.lastSuccess # scheduled.lastSuccess
           => scheduled'.lastReconciled > scheduled.lastReconciled]_vars
  BY OccurrenceStep
<1> QED
  BY OrderedInit, <1>1, <1>2, TypeCorrect, PTL DEF Spec, OccurrencesAdvance

\* A step that starts a run is no success, and the run it starts is Ordered.
LEMMA StartStep ==
  ASSUME TypeOK, Ordered', [Next]_vars,
         pc[Sched] # "lock", pc'[Sched] = "lock"
  PROVE  loop'.run >= scheduled.lastSuccess
<1>1. scheduled'.lastSuccess = scheduled.lastSuccess
  <2>1. SUFFICES ASSUME scheduled'.lastSuccess # scheduled.lastSuccess
                 PROVE  FALSE
    OBVIOUS
  <2>2. UpdateSucceeds(Sched)
    BY <2>1, SuccessStep
  <2> QED
    BY <2>2 DEF UpdateSucceeds, EndUpdate, Goto, TypeOK
<1> QED
  BY <1>1 DEF Ordered

\* One catch-up and no burst (SuccessCoversMissed): no run starts for what the
\* last success covers, for any number of edits, outages and crashes.
THEOREM NoBurst == Spec => SuccessCoversMissed
<1>1. TypeOK /\ Ordered /\ [Next]_vars => Ordered'
  BY OrderedNext
<1>2. TypeOK /\ Ordered' /\ [Next]_vars =>
        [pc[Sched] # "lock" /\ pc'[Sched] = "lock"
           => loop'.run >= scheduled.lastSuccess]_vars
  BY StartStep
<1> QED
  BY OrderedInit, <1>1, <1>2, TypeCorrect, PTL DEF Spec, SuccessCoversMissed
=============================================================================
