------------------------------ MODULE Schedule ------------------------------
(***************************************************************************)
(* The schedule arithmetic of crates/schomburg-agent: which instants a     *)
(* reconciliation schedule makes eligible, and next_eligible_run, the      *)
(* search for the first of them at or after the clock.                     *)
(*                                                                         *)
(* An instant is a natural number of clock units since an arbitrary Monday *)
(* midnight in UTC.  Local time is UTC plus an offset, and the offset may  *)
(* change once (a daylight-saving transition); the code looks the offset   *)
(* up at the instant it holds, exactly as LocalOffset does here.           *)
(***************************************************************************)
EXTENDS Integers

CONSTANTS
  DayLength,     \* clock units in a local day (1440 for minutes)
  OffsetChange,  \* the instant of the daylight-saving transition
  OffsetBefore,  \* local minus UTC before the transition
  OffsetAfter    \* local minus UTC from the transition on

ASSUME DayLengthAssumption == DayLength \in Nat \ {0}
ASSUME OffsetAssumption ==
  /\ OffsetChange \in Nat
  /\ OffsetBefore \in Int
  /\ OffsetAfter \in Int

Instant == Nat

\* Option<SystemTime>: NoTime is None.  It lies before every instant, so
\* "none or earlier than t" is the single comparison "< t".
NoTime == -1
OptInstant == Instant \cup {NoTime}

Weekday == 0..6              \* Monday is 0, as number_days_from_monday has it
Daily == Weekday
Weekdays == Weekday \ {5, 6}

\* A ReconciliationSchedule is the set of weekdays it selects: Daily, Weekdays
\* or Selected(mask); an empty mask is representable and never eligible.
ScheduleKind == SUBSET Weekday

LocalTime == 0..(DayLength - 1)

-----------------------------------------------------------------------------

LocalOffset(t) == IF t < OffsetChange THEN OffsetBefore ELSE OffsetAfter

DayOf(local) == local \div DayLength
WeekdayOf(day) == day % 7

\* record_date_for: the local calendar day an instant falls on.
RecordDate(t) == DayOf(t + LocalOffset(t))

Eligible(days, weekday) == weekday \in days

\* parse_schedule of the items of a list of days, as a ReconciliationSchedule is
\* stored: a kind and, for the days selected, a mask.  Without a result when an
\* item is no weekday.
DayNames == <<"mon", "tue", "wed", "thu", "fri", "sat", "sun">>
DayBits == <<1, 2, 4, 8, 16, 32, 64>>
MaskOf(days) ==
  LET upTo[d \in -1..6] ==
        IF d = -1 THEN 0 ELSE upTo[d - 1] + (IF d \in days THEN DayBits[d + 1] ELSE 0)
  IN  upTo[6]
ParseSchedule(items) ==
  IF items \in {<<"daily">>, <<"weekdays">>} THEN {[kind |-> items[1], days |-> 0]}
  ELSE IF \E i \in DOMAIN items : \A d \in Weekday : items[i] # DayNames[d + 1] THEN {}
  ELSE {[kind |-> "selected",
         days |-> MaskOf({d \in Weekday : \E i \in DOMAIN items : items[i] = DayNames[d + 1]})]}

\* The weekdays a schedule is eligible on.
DaysOf(kind, mask) ==
  CASE kind = "daily" -> Daily
    [] kind = "weekdays" -> Weekdays
    [] kind = "selected" -> {d \in Weekday : (mask \div DayBits[d + 1]) % 2 = 1}

\* Mutant: a week that leaves out the same weekday of the next one.
LookaheadOneShort == 0..6

\* The code looks at today and the next seven days.
Lookahead == 0..7

\* Mutant: the day is the one in UTC, the weekday the local one.
CandidateOnUtcDay(d, time, now) ==
  (DayOf(now) + d) * DayLength + time - LocalOffset(now)

(***************************************************************************)
(* next_eligible_run for an enabled configuration.  The offset is the one  *)
(* in force at `now`, for the candidate days as well; today's candidate    *)
(* counts only if it has not passed.                                       *)
(***************************************************************************)
Candidate(d, time, now) ==
  (DayOf(now + LocalOffset(now)) + d) * DayLength + time - LocalOffset(now)

\* Mutant: a candidate that is due this very instant is passed over.
EligibleDaysStrict(days, time, now) ==
  {d \in Lookahead :
     /\ Eligible(days, WeekdayOf(DayOf(now + LocalOffset(now)) + d))
     /\ d > 0 \/ Candidate(d, time, now) > now}

EligibleDays(days, time, now) ==
  {d \in Lookahead :
     /\ Eligible(days, WeekdayOf(DayOf(now + LocalOffset(now)) + d))
     /\ d > 0 \/ Candidate(d, time, now) >= now}

NextEligibleRun(days, time, now) ==
  LET found == EligibleDays(days, time, now)
  IN  IF found = {} THEN NoTime
      ELSE Candidate(CHOOSE d \in found : \A e \in found : d <= e, time, now)

(***************************************************************************)
(* The reference: t is an occurrence of the schedule when, on the local    *)
(* clock in force at t, it is the chosen time of a selected weekday.       *)
(***************************************************************************)
Occurrence(days, time, t) ==
  LET local == t + LocalOffset(t)
  IN  /\ local % DayLength = time
      /\ WeekdayOf(DayOf(local)) \in days
=============================================================================
