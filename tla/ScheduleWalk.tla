---------------------------- MODULE ScheduleWalk ----------------------------
(***************************************************************************)
(* A clock that ticks past a schedule: what the scheduler sees when it     *)
(* computes the next eligible run again and again while time passes.       *)
(***************************************************************************)
EXTENDS Schedule

CONSTANT
  Horizon   \* bound: the last instant of the walk

VARIABLES
  now,   \* the clock
  days,  \* the weekdays selected
  time   \* the local time selected

walkVars == <<now, days, time>>

WalkInit ==
  /\ now = 0
  /\ days \in ScheduleKind
  /\ time \in LocalTime

Tick ==
  /\ now < Horizon
  /\ now' = now + 1
  /\ UNCHANGED <<days, time>>

WalkSpec == WalkInit /\ [][Tick]_walkVars

NextRun == NextEligibleRun(days, time, now)

-----------------------------------------------------------------------------

\* next_eligible_run returns the first occurrence of the schedule at or after
\* the clock, and None exactly when no weekday is selected: the eight-day
\* window of the loop is wide enough and no earlier occurrence is passed over.
NextRunIsFirstOccurrence ==
  IF days = {} THEN NextRun = NoTime
  ELSE /\ NextRun >= now
       /\ Occurrence(days, time, NextRun)
       /\ \A t \in now..(NextRun - 1) : ~Occurrence(days, time, t)

\* Recomputing while time passes never moves the next run past an occurrence:
\* it changes only once the clock has gone past the one computed before.
RecomputingKeepsTheNextRun ==
  [][NextRun' # NextRun => now = NextRun]_walkVars

\* The local date a scheduled run is recorded under is a date the schedule
\* selected, so two successive runs of an unchanged schedule are recorded
\* under two different dates.
OneRunPerRecordDate ==
  [][NextRun' # NextRun => RecordDate(NextRun') > RecordDate(NextRun)]_walkVars
=============================================================================
