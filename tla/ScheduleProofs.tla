--------------------------- MODULE ScheduleProofs ---------------------------
(***************************************************************************)
(* What next_eligible_run returns, for every length of the day, every set  *)
(* of weekdays and every daylight-saving transition; and that it is the    *)
(* first occurrence of the schedule, where the offset never changes.       *)
(***************************************************************************)
EXTENDS Schedule, TLAPS

\* Euclidean division by the length of the day.
LEMMA DayBounds ==
  ASSUME NEW local \in Int
  PROVE  /\ DayOf(local) \in Int
         /\ DayOf(local) * DayLength <= local
         /\ local < (DayOf(local) + 1) * DayLength
  BY DayLengthAssumption, SMTT(60) DEF DayOf

\* A non-empty set of days ahead has a first one: the loop counts upwards.
LEMMA FirstDay ==
  ASSUME NEW S \in SUBSET Lookahead, S # {}
  PROVE  \E d \in S : \A e \in S : d <= e
<1>0. PICK s \in S : TRUE
  OBVIOUS
<1>1. \A e \in S : e \in {0, 1, 2, 3, 4, 5, 6, 7}
  BY DEF Lookahead
<1>2. CASE 0 \in S
  BY <1>1, <1>2
<1>3. CASE 0 \notin S /\ 1 \in S
  BY <1>1, <1>3
<1>4. CASE {0, 1} \cap S = {} /\ 2 \in S
  BY <1>1, <1>4
<1>5. CASE {0, 1, 2} \cap S = {} /\ 3 \in S
  BY <1>1, <1>5
<1>6. CASE {0, 1, 2, 3} \cap S = {} /\ 4 \in S
  BY <1>1, <1>6
<1>7. CASE {0, 1, 2, 3, 4} \cap S = {} /\ 5 \in S
  BY <1>1, <1>7
<1>8. CASE {0, 1, 2, 3, 4, 5} \cap S = {} /\ 6 \in S
  BY <1>1, <1>8
<1>9. CASE {0, 1, 2, 3, 4, 5, 6} \cap S = {} /\ 7 \in S
  BY <1>1, <1>9
<1> QED
  BY <1>0, <1>1, <1>2, <1>3, <1>4, <1>5, <1>6, <1>7, <1>8, <1>9

\* The offset in force is an integer.
LEMMA OffsetType ==
  ASSUME NEW t \in Int
  PROVE  LocalOffset(t) \in Int
  BY OffsetAssumption DEF LocalOffset

\* The candidate of a later day lies after the clock, whatever its time of day.
LEMMA LaterCandidate ==
  ASSUME NEW now \in Int, NEW time \in LocalTime, NEW d \in Lookahead
  PROVE  /\ Candidate(d, time, now) \in Int
         /\ d > 0 => Candidate(d, time, now) >= now
<1> DEFINE o == LocalOffset(now)
           q == DayOf(now + o)
<1>1. o \in Int /\ q \in Int /\ now + o < (q + 1) * DayLength
  BY OffsetType, DayBounds
<1>2. d \in Int /\ time \in Int /\ time >= 0 /\ DayLength \in Int /\ DayLength > 0
  BY DayLengthAssumption DEF Lookahead, LocalTime
<1>3. Candidate(d, time, now) = (q + d) * DayLength + time - o
  BY DEF Candidate
<1>4. ASSUME d > 0
      PROVE  (q + d) * DayLength >= (q + 1) * DayLength
  <2>1. d - 1 \in Nat
    BY <1>2, <1>4
  <2>2. (d - 1) * DayLength >= 0
    BY <1>2, <2>1
  <2>3. (q + d) * DayLength = (q + 1) * DayLength + (d - 1) * DayLength
    BY <1>1, <1>2
  <2> HIDE DEF q
  <2> QED
    BY <1>1, <1>2, <2>2, <2>3
<1> HIDE DEF o, q
<1>5. (q + d) * DayLength \in Int /\ (q + 1) * DayLength \in Int
  BY <1>1, <1>2
<1> QED
  BY <1>1, <1>2, <1>3, <1>4, <1>5

\* next_eligible_run never returns an instant before the clock.
THEOREM NextRunNotBeforeNow ==
  ASSUME NEW now \in Instant, NEW days \in ScheduleKind, NEW time \in LocalTime
  PROVE  /\ NextEligibleRun(days, time, now) \in OptInstant
         /\ NextEligibleRun(days, time, now) # NoTime
              => NextEligibleRun(days, time, now) >= now
<1> DEFINE S == EligibleDays(days, time, now)
           d == CHOOSE d \in S : \A e \in S : d <= e
<1>1. CASE S = {}
  BY <1>1 DEF NextEligibleRun, OptInstant
<1>2. CASE S # {}
  <2>1. S \in SUBSET Lookahead
    BY DEF EligibleDays
  <2>2. d \in S
    BY <1>2, <2>1, FirstDay
  <2>3. d > 0 \/ Candidate(d, time, now) >= now
    BY <2>2 DEF EligibleDays
  <2>4. NextEligibleRun(days, time, now) = Candidate(d, time, now)
    BY <1>2 DEF NextEligibleRun
  <2> HIDE DEF d, S
  <2>5. Candidate(d, time, now) \in Int /\ Candidate(d, time, now) >= now
    BY <2>1, <2>2, <2>3, LaterCandidate DEF Instant
  <2> QED
    BY <2>4, <2>5 DEF OptInstant, Instant
<1> QED
  BY <1>1, <1>2

-----------------------------------------------------------------------------
(* Division into days.                                                     *)

\* Quotient and remainder of an integer.
LEMMA Division ==
  ASSUME NEW local \in Int, NEW L \in Nat \ {0},
         NEW q \in Int, q = local \div L, NEW m \in Int, m = local % L
  PROVE  local = q * L + m /\ m \in 0..(L - 1)
  OBVIOUS

\* A local time by its day and the time of that day.
LEMMA Remainder ==
  ASSUME NEW local \in Int, NEW m, m = local % DayLength
  PROVE  /\ m \in LocalTime
         /\ local = DayOf(local) * DayLength + m
<1>1. m \in Int
  BY DayLengthAssumption
<1>2. PICK q \in Int : q = DayOf(local)
  BY DayBounds
<1>3. local = q * DayLength + m /\ m \in 0..(DayLength - 1)
  BY <1>1, <1>2, DayLengthAssumption, Division DEF DayOf
<1> QED
  BY <1>2, <1>3 DEF LocalTime

\* A day and a time of day determine the instant, and it determines them.
LEMMA DayAndTime ==
  ASSUME NEW k \in Int, NEW r \in LocalTime
  PROVE  /\ DayOf(k * DayLength + r) = k
         /\ (k * DayLength + r) % DayLength = r
<1> DEFINE L == DayLength
           x == k * L + r
           D == DayOf(x)
           m == x % L
<1>1. L \in Int /\ L > 0 /\ r \in Int /\ r >= 0 /\ r < L
  BY DayLengthAssumption DEF LocalTime
<1>2. x \in Int
  BY <1>1
<1>3. D \in Int /\ m \in Int /\ m >= 0 /\ m < L /\ x = D * L + m
  BY <1>1, <1>2, Remainder, DayBounds DEF LocalTime
<1>4. ASSUME NEW a \in Int, NEW b \in Int, a < b
      PROVE  a * L + L <= b * L
  <2>1. b - a - 1 \in Nat
    BY <1>4
  <2>2. (b - a - 1) * L >= 0
    BY <1>1, <2>1
  <2>3. b * L = a * L + L + (b - a - 1) * L
    BY <1>1, <1>4
  <2> HIDE DEF L
  <2> QED
    BY <1>1, <1>4, <2>2, <2>3
<1>5. D * L + m = k * L + r
  BY <1>3
<1> HIDE DEF D, L, x, m
<1>6. D * L \in Int /\ k * L \in Int
  BY <1>1, <1>3
<1>7. ~(D < k)
  <2>1. D < k => D * L + L <= k * L
    BY <1>3, <1>4
  <2> QED
    BY <1>1, <1>3, <1>5, <1>6, <2>1
<1>8. ~(k < D)
  <2>1. k < D => k * L + L <= D * L
    BY <1>3, <1>4
  <2> QED
    BY <1>1, <1>3, <1>5, <1>6, <2>1
<1>9. D = k
  BY <1>3, <1>7, <1>8
<1>10. m = r
  BY <1>1, <1>3, <1>5, <1>6, <1>9
<1> QED
  BY <1>9, <1>10 DEF D, L, x, m

\* Later days have later instants at the same time of day.
LEMMA SameTimeLaterDay ==
  ASSUME NEW a \in Int, NEW b \in Int, NEW r \in LocalTime
  PROVE  a * DayLength + r < b * DayLength + r <=> a < b
<1> DEFINE L == DayLength
<1>1. L \in Int /\ L > 0 /\ r \in Int
  BY DayLengthAssumption DEF LocalTime
<1>2. a < b => (b - a) * L > 0
  BY <1>1
<1>3. a >= b => (a - b) * L >= 0
  BY <1>1
<1>4. (b - a) * L = b * L - a * L /\ (a - b) * L = a * L - b * L
  BY <1>1
<1>5. a * L \in Int /\ b * L \in Int
  BY <1>1
<1> HIDE DEF L
<1> QED
  BY <1>1, <1>2, <1>3, <1>4, <1>5 DEF L

\* Some day of the coming week falls on any given weekday, and so does the
\* same weekday of the week after.
LEMMA EveryWeekdayAhead ==
  ASSUME NEW q \in Int, NEW w \in Weekday
  PROVE  \E d \in 1..7 : WeekdayOf(q + d) = w
  BY SMTT(60) DEF Weekday, WeekdayOf

-----------------------------------------------------------------------------
(* The first occurrence, where the offset never changes.                   *)

SteadyOffset == OffsetBefore = OffsetAfter

\* Where the offset never changes, it is the one in force at every instant.
LEMMA SteadyLocalOffset ==
  ASSUME SteadyOffset, NEW t \in Int
  PROVE  LocalOffset(t) = OffsetBefore /\ OffsetBefore \in Int
  BY OffsetAssumption DEF SteadyOffset, LocalOffset

\* An occurrence is the chosen time of a selected local day.
LEMMA OccurrenceOfDay ==
  ASSUME SteadyOffset, NEW d \in SUBSET Weekday, NEW r \in LocalTime, NEW t \in Int
  PROVE  Occurrence(d, r, t) <=>
           \E k \in Int : t = k * DayLength + r - OffsetBefore /\ WeekdayOf(k) \in d
<1> DEFINE x == t + OffsetBefore
<1>1. LocalOffset(t) = OffsetBefore /\ x \in Int /\ OffsetBefore \in Int
  BY SteadyLocalOffset
<1>2. DayLength \in Int /\ r \in Int /\ DayOf(x) \in Int
  BY <1>1, DayLengthAssumption, DayBounds DEF LocalTime
<1>3. Occurrence(d, r, t) <=> x % DayLength = r /\ WeekdayOf(DayOf(x)) \in d
  BY <1>1 DEF Occurrence
<1>4. ASSUME Occurrence(d, r, t)
      PROVE  t = DayOf(x) * DayLength + r - OffsetBefore /\ WeekdayOf(DayOf(x)) \in d
  <2>1. x = DayOf(x) * DayLength + r
    <3>1. x \in Int /\ r = x % DayLength
      BY <1>1, <1>3, <1>4
    <3> HIDE DEF x
    <3> QED
      BY <3>1, Remainder
  <2>2. t = x - OffsetBefore
    BY <1>1
  <2>3. WeekdayOf(DayOf(x)) \in d
    BY <1>3, <1>4
  <2> HIDE DEF x
  <2> DEFINE y == DayOf(x) * DayLength
  <2>4. y \in Int
    BY <1>2
  <2>5. x = y + r
    BY <2>1
  <2>6. t = y + r - OffsetBefore
    <3> HIDE DEF y
    <3> QED
      BY <1>1, <1>2, <2>2, <2>4, <2>5
  <2> QED
    BY <2>3, <2>6
<1>5. ASSUME NEW k \in Int, t = k * DayLength + r - OffsetBefore, WeekdayOf(k) \in d
      PROVE  Occurrence(d, r, t)
  <2>1. x = k * DayLength + r
    BY <1>1, <1>2, <1>5
  <2>2. DayOf(x) = k /\ x % DayLength = r
    BY <2>1, DayAndTime
  <2> QED
    BY <1>3, <1>5, <2>2
<1> HIDE DEF x
<1> QED
  BY <1>2, <1>4, <1>5

\* The search finds a day when one is selected: the eighth is there for the day
\* of the clock, should its time have passed.
LEMMA SomeDayEligible ==
  ASSUME NEW n \in Instant, NEW d \in SUBSET Weekday, d # {}, NEW r \in LocalTime
  PROVE  EligibleDays(d, r, n) # {}
<1> DEFINE q == DayOf(n + LocalOffset(n))
<1>1. q \in Int
  BY OffsetType, DayBounds DEF Instant
<1>2. PICK w \in d : TRUE
  OBVIOUS
<1>3. PICK e \in 1..7 : WeekdayOf(q + e) = w
  BY <1>1, <1>2, EveryWeekdayAhead
<1>4. e \in Lookahead /\ e > 0
  BY DEF Lookahead
<1> QED
  BY <1>2, <1>3, <1>4 DEF EligibleDays, Eligible

\* What the search returns, as a predicate of the clock and of what it returns.
FirstAt(d, r, n, t) ==
  /\ t \in Int /\ t >= n
  /\ Occurrence(d, r, t)
  /\ \A u \in Int : n <= u /\ u < t => ~Occurrence(d, r, u)

\* next_eligible_run returns the first occurrence at or after the clock.
THEOREM NextRunIsFirst ==
  ASSUME SteadyOffset, NEW n \in Instant, NEW d \in SUBSET Weekday, d # {},
         NEW r \in LocalTime
  PROVE  FirstAt(d, r, n, NextEligibleRun(d, r, n))
<1> DEFINE o == OffsetBefore
           q == DayOf(n + o)
           S == EligibleDays(d, r, n)
           f == CHOOSE e \in S : \A g \in S : e <= g
<1>1. o \in Int /\ LocalOffset(n) = o /\ n \in Int /\ r \in Int /\ q \in Int
      /\ DayLength \in Int
  BY SteadyLocalOffset, DayBounds, DayLengthAssumption DEF Instant, LocalTime
<1>2. S # {} /\ S \in SUBSET Lookahead
  BY SomeDayEligible DEF EligibleDays
<1>3. f \in S /\ \A g \in S : f <= g
  BY <1>2, FirstDay
<1>4. \A e \in Lookahead : Candidate(e, r, n) = (q + e) * DayLength + r - o /\ e \in Int
  BY <1>1 DEF Candidate, Lookahead
<1>5. \A e \in Lookahead : e \in S <=> WeekdayOf(q + e) \in d
                                       /\ (e > 0 \/ Candidate(e, r, n) >= n)
  BY <1>1 DEF EligibleDays, Eligible
<1> DEFINE t == Candidate(f, r, n)
<1>6. NextEligibleRun(d, r, n) = t
  BY <1>2 DEF NextEligibleRun
<1> HIDE DEF S, f
<1>7. t \in Int /\ t >= n
  BY <1>2, <1>3, <1>5, LaterCandidate DEF Instant
<1>8. Occurrence(d, r, t)
  <2>1. t = (q + f) * DayLength + r - o /\ WeekdayOf(q + f) \in d /\ q + f \in Int
    BY <1>1, <1>2, <1>3, <1>4, <1>5
  <2> QED
    BY <1>7, <2>1, OccurrenceOfDay
<1>9. ASSUME NEW u \in Int, n <= u, u < t, Occurrence(d, r, u)
      PROVE  FALSE
  <2>1. PICK k \in Int : u = k * DayLength + r - o /\ WeekdayOf(k) \in d
    BY <1>9, OccurrenceOfDay
  <2>2. k < q + f
    <3>1. k * DayLength + r < (q + f) * DayLength + r
      <4>1. t = (q + f) * DayLength + r - o /\ f \in Int
        BY <1>2, <1>3, <1>4
      <4>2. k * DayLength \in Int /\ (q + f) * DayLength \in Int
        BY <1>1, <4>1
      <4> HIDE DEF t, q
      <4> QED
        BY <1>1, <1>9, <2>1, <4>1, <4>2
    <3>2. q + f \in Int
      BY <1>1, <1>2, <1>3, <1>4
    <3> QED
      BY <3>1, <3>2, SameTimeLaterDay
  <2>3. q <= k
    <3>1. q * DayLength <= n + o
      BY <1>1, DayBounds
    <3>2. u + o = k * DayLength + r
      BY <1>1, <2>1
    <3>3. u + o < (k + 1) * DayLength
      <4>1. (k + 1) * DayLength = k * DayLength + DayLength /\ r < DayLength
        BY <1>1 DEF LocalTime
      <4>2. k * DayLength \in Int
        BY <1>1
      <4> QED
        BY <1>1, <3>2, <4>1, <4>2
    <3>4. q * DayLength + 0 < (k + 1) * DayLength + 0
      <4>1. q * DayLength \in Int /\ (k + 1) * DayLength \in Int
        BY <1>1
      <4> HIDE DEF q
      <4> QED
        BY <1>1, <1>9, <3>1, <3>3, <4>1
    <3>5. 0 \in LocalTime /\ k + 1 \in Int
      BY DayLengthAssumption DEF LocalTime
    <3>6. q < k + 1
      BY <1>1, <3>4, <3>5, SameTimeLaterDay
    <3> HIDE DEF q
    <3> QED
      BY <1>1, <3>6
  <2> DEFINE e == k - q
  <2>4. e \in Lookahead /\ q + e = k /\ e < f
    <3> HIDE DEF q
    <3>1. f \in 0..7
      BY <1>2, <1>3 DEF Lookahead
    <3> QED
      BY <1>1, <2>2, <2>3, <3>1 DEF Lookahead
  <2>5. e \in S
    <3>1. Candidate(e, r, n) = u
      BY <1>4, <2>1, <2>4
    <3> QED
      BY <1>5, <1>9, <2>1, <2>4, <3>1
  <2> HIDE DEF e
  <2> QED
    BY <1>2, <1>3, <2>4, <2>5 DEF Lookahead
<1> QED
  BY <1>6, <1>7, <1>8, <1>9 DEF FirstAt
=============================================================================
