-------------------------- MODULE AlgorithmsProofs --------------------------
(***************************************************************************)
(* What the algorithms compute, for every base and width of the encoding,  *)
(* every row, every schedule and every command line.                       *)
(*                                                                         *)
(* What a recursive function computes is proved by induction over the set  *)
(* of the numbers for which it computes it: see UpTo.                      *)
(***************************************************************************)
EXTENDS MCAlgorithms, FiniteSetTheorems, SequenceTheorems, WellFoundedInduction, ScheduleProofs

-----------------------------------------------------------------------------
(* A clock that ticks past a schedule.                                     *)

WalkTypeOK ==
  /\ now \in Instant
  /\ days \in SUBSET Weekday
  /\ time \in LocalTime

\* The walk keeps its types.
LEMMA WalkType == WalkSpec => []WalkTypeOK
<1>1. WalkInit => WalkTypeOK
  BY DEF WalkInit, WalkTypeOK, Instant, ScheduleKind
<1>2. WalkTypeOK /\ [Tick]_walkVars => WalkTypeOK'
  BY DEF WalkTypeOK, Tick, walkVars, Instant
<1> QED
  BY <1>1, <1>2, PTL DEF WalkSpec

\* Two clocks with no occurrence between them have the same next run.
LEMMA FirstAtLaterClock ==
  ASSUME NEW d, NEW r, NEW n \in Int, NEW t, NEW u,
         FirstAt(d, r, n, t), FirstAt(d, r, n + 1, u), t # n
  PROVE  u = t
  BY DEF FirstAt

\* The clock and the next run as a tick finds and leaves them.
LEMMA NextRunOfTick ==
  ASSUME SteadyOffset, WalkTypeOK, Tick, days # {}
  PROVE  /\ FirstAt(days, time, now, NextRun)
         /\ FirstAt(days, time, now + 1, NextRun')
  BY NextRunIsFirst DEF WalkTypeOK, Tick, NextRun, Instant

\* Where the offset never changes, next_eligible_run returns the first
\* occurrence of the schedule at or after the clock, and none exactly when no
\* weekday is selected.
THEOREM NextRunFirstOccurrence ==
  ASSUME SteadyOffset
  PROVE  WalkSpec => []NextRunIsFirstOccurrence
<1>1. WalkTypeOK => NextRunIsFirstOccurrence
  <2> SUFFICES ASSUME WalkTypeOK PROVE NextRunIsFirstOccurrence
    OBVIOUS
  <2>1. CASE days = {}
    BY <2>1 DEF NextRunIsFirstOccurrence, NextRun, NextEligibleRun, EligibleDays, Eligible
  <2>2. CASE days # {}
    <3>1. FirstAt(days, time, now, NextRun)
      BY <2>2, NextRunIsFirst DEF WalkTypeOK, NextRun
    <3> QED
      BY <2>2, <3>1 DEF FirstAt, NextRunIsFirstOccurrence, WalkTypeOK, Instant
  <2> QED
    BY <2>1, <2>2
<1> QED
  BY <1>1, WalkType, PTL

\* Where the offset never changes, recomputing the next run while time passes
\* changes it only once the clock has gone past it.
THEOREM RecomputingKeeps ==
  ASSUME SteadyOffset
  PROVE  WalkSpec => RecomputingKeepsTheNextRun
<1>1. WalkTypeOK /\ [Tick]_walkVars =>
        (NextRun' # NextRun => now = NextRun) \/ UNCHANGED walkVars
  <2> SUFFICES ASSUME WalkTypeOK, Tick, NextRun' # NextRun
               PROVE  now = NextRun
    OBVIOUS
  <2>1. days # {}
    BY DEF Tick, NextRun, NextEligibleRun, EligibleDays, Eligible
  <2> QED
    BY <2>1, NextRunOfTick, FirstAtLaterClock DEF WalkTypeOK, Instant
<1> QED
  BY <1>1, WalkType, PTL DEF WalkSpec, RecomputingKeepsTheNextRun

\* Where the offset never changes, successive runs of a schedule are recorded
\* under successive local dates.
THEOREM RunsHaveDatesOfTheirOwn ==
  ASSUME SteadyOffset
  PROVE  WalkSpec => OneRunPerRecordDate
<1>1. WalkTypeOK /\ [Tick]_walkVars =>
        (NextRun' # NextRun => RecordDate(NextRun') > RecordDate(NextRun))
          \/ UNCHANGED walkVars
  <2> SUFFICES ASSUME WalkTypeOK, Tick, NextRun' # NextRun
               PROVE  RecordDate(NextRun') > RecordDate(NextRun)
    OBVIOUS
  <2>1. days # {} /\ days \in SUBSET Weekday /\ time \in LocalTime /\ now \in Int
    BY DEF Tick, NextRun, NextEligibleRun, EligibleDays, Eligible, WalkTypeOK, Instant
  <2> DEFINE a == NextRun
             b == NextRun'
  <2>2. FirstAt(days, time, now, a) /\ FirstAt(days, time, now + 1, b)
    BY <2>1, NextRunOfTick
  <2>3. a = now
    BY <2>1, <2>2, FirstAtLaterClock
  <2> HIDE DEF a, b
  <2>4. a \in Int /\ b \in Int /\ a < b
        /\ Occurrence(days, time, a) /\ Occurrence(days, time, b)
    BY <2>1, <2>2, <2>3 DEF FirstAt
  <2>5. PICK k \in Int : a = k * DayLength + time - OffsetBefore
    BY <2>1, <2>4, OccurrenceOfDay
  <2>6. PICK l \in Int : b = l * DayLength + time - OffsetBefore
    BY <2>1, <2>4, OccurrenceOfDay
  <2>7. OffsetBefore \in Int /\ LocalOffset(a) = OffsetBefore
        /\ LocalOffset(b) = OffsetBefore
    BY <2>4, SteadyLocalOffset
  <2>8. k * DayLength \in Int /\ l * DayLength \in Int /\ time \in Int
    BY <2>1, DayLengthAssumption DEF LocalTime
  <2>9. a + OffsetBefore = k * DayLength + time
        /\ b + OffsetBefore = l * DayLength + time
    BY <2>5, <2>6, <2>7, <2>8
  <2>10. RecordDate(a) = k /\ RecordDate(b) = l
    BY <2>1, <2>7, <2>9, DayAndTime DEF RecordDate
  <2>11. k * DayLength + time < l * DayLength + time
    BY <2>4, <2>7, <2>8, <2>9
  <2>12. k < l
    BY <2>1, <2>11, SameTimeLaterDay
  <2>13. RecordDate(a) < RecordDate(b)
    BY <2>10, <2>12
  <2> QED
    BY <2>10, <2>12 DEF a, b
<1> QED
  BY <1>1, WalkType, PTL DEF WalkSpec, OneRunPerRecordDate

-----------------------------------------------------------------------------
(* Induction.                                                              *)

\* Naturals are well founded: a set of them has a least.
LEMMA LeastNatural ==
  ASSUME NEW S, S \subseteq Nat, S # {}
  PROVE  \E d \in S : \A e \in S : d <= e
<1> DEFINE Less == {ss \in Nat \X Nat : ss[1] < ss[2]}
<1>1. IsWellFoundedOn(Less, Nat)
  BY NatLessThanWellFounded DEF OpToRel
<1>2. PICK x \in S : \A y \in S : <<y, x>> \notin Less
  <2> HIDE DEF Less
  <2> QED
    BY <1>1, WFMin
<1>3. \A y \in S : ~(y < x)
  BY <1>2
<1> QED
  BY <1>3

\* Induction: a set that has 0 and, up to n, with each number the next, has
\* all numbers up to n.
LEMMA UpTo ==
  ASSUME NEW n \in Nat, NEW S, 0 \in S, \A k \in 0..(n - 1) : k \in S => k + 1 \in S
  PROVE  0..n \subseteq S
<1> SUFFICES ASSUME NEW k \in 0..n, k \notin S PROVE FALSE
  OBVIOUS
<1> DEFINE bad == {i \in 0..n : i \notin S}
<1>1. bad \subseteq Nat /\ bad # {}
  OBVIOUS
<1>2. PICK i \in bad : \A j \in bad : i <= j
  BY <1>1, LeastNatural
<1>3. i # 0 /\ i - 1 \in 0..(n - 1)
  OBVIOUS
<1>4. i - 1 \in S
  BY <1>2, <1>3
<1> QED
  BY <1>3, <1>4

-----------------------------------------------------------------------------
(* Bytes.                                                                  *)

Bytes == SecondBytes + NanoBytes

\* A unit of a byte is worth Base of the unit of the next.
LEMMA WorthDefined ==
  Worth = [i \in 0..Bytes |-> IF i = 0 THEN 1 ELSE Base * Worth[i - 1]]
<1> DEFINE Recurs(g, n) == g = [i \in 0..n |-> IF i = 0 THEN 1 ELSE Base * g[i - 1]]
           S == {n \in 0..Bytes : \E g : Recurs(g, n)}
<1>1. Bytes \in Nat
  BY EncodingAssumption DEF Bytes
<1>2. 0 \in S
  <2> DEFINE g == [i \in 0..0 |-> 1]
  <2>1. Recurs(g, 0)
    OBVIOUS
  <2> HIDE DEF Recurs, g
  <2> QED
    BY <1>1, <2>1
<1>3. ASSUME NEW k \in 0..(Bytes - 1), k \in S PROVE k + 1 \in S
  <2>1. PICK g : Recurs(g, k)
    BY <1>3
  <2> DEFINE h == [i \in 0..(k + 1) |-> IF i = 0 THEN 1 ELSE Base * g[i - 1]]
  <2>2. \A i \in 0..(k + 1) : i # 0 => i - 1 \in 0..k
    BY <1>1
  <2>3. \A i \in 0..k : h[i] = g[i]
    BY <2>1
  <2>4. \A i \in 0..(k + 1) : h[i] = IF i = 0 THEN 1 ELSE Base * h[i - 1]
    BY <2>2, <2>3
  <2>5. Recurs(h, k + 1)
    BY <2>4
  <2> HIDE DEF Recurs, h
  <2> QED
    BY <1>1, <2>5
<1>4. 0..Bytes \subseteq S
  <2> HIDE DEF S
  <2> QED
    BY <1>1, <1>2, <1>3, UpTo
<1>5. \E g : Recurs(g, Bytes)
  BY <1>1, <1>4
<1> QED
  BY <1>5 DEF Worth, Bytes

\* Each byte is worth Base times the next.
LEMMA Worths ==
  /\ Worth[0] = 1
  /\ \A i \in 0..Bytes : Worth[i] \in Nat \ {0}
  /\ \A i \in 0..(Bytes - 1) : Worth[i + 1] = Worth[i] * Base
<1>1. Bytes \in Nat /\ Base \in Nat \ {0}
  BY EncodingAssumption DEF Bytes
<1>2. Worth[0] = 1
  BY <1>1, WorthDefined
<1>3. \A i \in 0..(Bytes - 1) : Worth[i + 1] = Base * Worth[i]
  BY <1>1, WorthDefined
<1>4. \A i \in 0..Bytes : Worth[i] \in Nat \ {0}
  <2> DEFINE S == {i \in 0..Bytes : Worth[i] \in Nat \ {0}}
  <2>1. 0 \in S
    BY <1>1, <1>2
  <2>2. ASSUME NEW k \in 0..(Bytes - 1), k \in S PROVE k + 1 \in S
    <3>1. Worth[k] \in Nat \ {0} /\ k + 1 \in 0..Bytes
      BY <1>1, <2>2
    <3>2. \A x, y \in Nat \ {0} : x * y \in Nat \ {0}
      OBVIOUS
    <3>3. Worth[k + 1] \in Nat \ {0}
      BY <1>1, <1>3, <3>1, <3>2
    <3> QED
      BY <3>1, <3>3
  <2> HIDE DEF S
  <2>3. 0..Bytes \subseteq S
    BY <1>1, <2>1, <2>2, UpTo
  <2> QED
    BY <2>3 DEF S
<1>5. \A i \in 0..(Bytes - 1) : Worth[i] \in Int /\ Base * Worth[i] = Worth[i] * Base
  BY <1>1, <1>4
<1> QED
  BY <1>2, <1>3, <1>4, <1>5

\* To divide by two numbers is to divide by their product.
LEMMA DivideTwice ==
  ASSUME NEW n \in Nat, NEW a \in Nat \ {0}, NEW b \in Nat \ {0}
  PROVE  (n \div a) \div b = n \div (a * b)
  OBVIOUS

\* The number the first i of a number's bytes stand for.
Leading(n, width, i) == n \div Worth[width - i]

\* The bytes of a number are its digits.
LEMMA Digits ==
  ASSUME NEW width \in 0..Bytes, NEW n \in Nat
  PROVE  /\ \A i \in 0..width : Leading(n, width, i) \in Nat
         /\ n < Worth[width] => Leading(n, width, 0) = 0
         /\ Leading(n, width, width) = n
         /\ \A i \in 1..width :
              /\ Leading(n, width, i - 1) = Leading(n, width, i) \div Base
              /\ BigEndian(n, width)[i] \in 0..(Base - 1)
              /\ Leading(n, width, i)
                   = Leading(n, width, i - 1) * Base + BigEndian(n, width)[i]
<1>1. Bytes \in Nat /\ Base \in Nat \ {0} /\ width \in Nat /\ width <= Bytes
  BY EncodingAssumption DEF Bytes
<1>2. \A i \in 0..width : width - i \in 0..Bytes /\ Worth[width - i] \in Nat \ {0}
  BY <1>1, Worths
<1>3. \A w \in Nat \ {0} : n \div w \in Nat
  OBVIOUS
<1>4. \A i \in 0..width : Leading(n, width, i) \in Nat
  BY <1>2, <1>3 DEF Leading
<1>5. n < Worth[width] => Leading(n, width, 0) = 0
  <2>1. \A w \in Nat \ {0} : n < w => n \div w = 0
    OBVIOUS
  <2>2. width - 0 = width /\ Worth[width] \in Nat \ {0}
    BY <1>1, Worths
  <2> QED
    BY <2>1, <2>2 DEF Leading
<1>6. Leading(n, width, width) = n
  <2>1. n \div 1 = n /\ width - width = 0
    BY <1>1
  <2> QED
    BY <2>1, Worths DEF Leading
<1>7. ASSUME NEW i \in 1..width
      PROVE  /\ Leading(n, width, i - 1) = Leading(n, width, i) \div Base
             /\ BigEndian(n, width)[i] = Leading(n, width, i) % Base
  <2> DEFINE w == Worth[width - i]
  <2>1. w \in Nat \ {0} /\ Worth[width - (i - 1)] = w * Base
    <3>1. width - i \in 0..(Bytes - 1) /\ width - (i - 1) = (width - i) + 1
          /\ width - i \in 0..Bytes
      BY <1>1
    <3> QED
      BY <3>1, Worths
  <2>2. BigEndian(n, width)[i] = (n \div w) % Base
    BY DEF BigEndian
  <2> HIDE DEF w
  <2>3. n \div (w * Base) = (n \div w) \div Base
    BY <1>1, <2>1, DivideTwice
  <2> QED
    BY <2>1, <2>2, <2>3 DEF Leading, w
<1>8. \A x \in Nat : x % Base \in 0..(Base - 1) /\ x = (x \div Base) * Base + (x % Base)
  BY <1>1
<1>9. \A i \in 1..width : i \in 0..width
  BY <1>1
<1> QED
  BY <1>4, <1>5, <1>6, <1>7, <1>8, <1>9

\* What a list of bytes stands for is found from the first byte to the last.
LEMMA NumberDefined ==
  ASSUME NEW bytes, NEW n \in Nat, Len(bytes) = n
  PROVE  \E f : /\ f = [i \in 0..n |-> IF i = 0 THEN 0 ELSE f[i - 1] * Base + bytes[i]]
                /\ NumberOf(bytes) = f[n]
<1> DEFINE Recurs(g, k) ==
             g = [i \in 0..k |-> IF i = 0 THEN 0 ELSE g[i - 1] * Base + bytes[i]]
           S == {k \in 0..n : \E g : Recurs(g, k)}
<1>1. 0 \in S
  <2> DEFINE g == [i \in 0..0 |-> 0]
  <2>1. Recurs(g, 0)
    OBVIOUS
  <2> HIDE DEF Recurs, g
  <2> QED
    BY <2>1
<1>2. ASSUME NEW k \in 0..(n - 1), k \in S PROVE k + 1 \in S
  <2>1. PICK g : Recurs(g, k)
    BY <1>2
  <2> DEFINE h == [i \in 0..(k + 1) |-> IF i = 0 THEN 0 ELSE g[i - 1] * Base + bytes[i]]
  <2>2. \A i \in 0..(k + 1) : i # 0 => i - 1 \in 0..k
    OBVIOUS
  <2>3. \A i \in 0..k : h[i] = g[i]
    BY <2>1
  <2>4. \A i \in 0..(k + 1) : h[i] = IF i = 0 THEN 0 ELSE h[i - 1] * Base + bytes[i]
    BY <2>2, <2>3
  <2>5. Recurs(h, k + 1)
    BY <2>4
  <2> HIDE DEF Recurs, h
  <2> QED
    BY <2>5
<1>3. 0..n \subseteq S
  <2> HIDE DEF S
  <2> QED
    BY <1>1, <1>2, UpTo
<1>4. \E g : Recurs(g, n)
  BY <1>3
<1> QED
  BY <1>4 DEF NumberOf

\* The bytes of a number stand for it.
LEMMA NumberOfBytes ==
  ASSUME NEW width \in 0..Bytes, NEW n \in Nat, n < Worth[width],
         NEW bytes, Len(bytes) = width,
         \A i \in 1..width : bytes[i] = BigEndian(n, width)[i]
  PROVE  NumberOf(bytes) = n
<1>1. width \in Nat
  BY EncodingAssumption DEF Bytes
<1>2. PICK f : /\ f = [i \in 0..width |-> IF i = 0 THEN 0 ELSE f[i - 1] * Base + bytes[i]]
               /\ NumberOf(bytes) = f[width]
  BY <1>1, NumberDefined
<1> DEFINE S == {i \in 0..width : f[i] = Leading(n, width, i)}
<1>3. 0 \in S
  BY <1>1, <1>2, Digits
<1>4. ASSUME NEW k \in 0..(width - 1), k \in S PROVE k + 1 \in S
  <2>1. k + 1 \in 1..width /\ k + 1 \in 0..width /\ k + 1 # 0 /\ (k + 1) - 1 = k
    BY <1>1
  <2>2. f[k + 1] = f[k] * Base + bytes[k + 1]
    BY <1>2, <2>1
  <2>3. \A i \in 1..width : Leading(n, width, i)
                             = Leading(n, width, i - 1) * Base + BigEndian(n, width)[i]
    BY Digits
  <2>4. Leading(n, width, k + 1) = Leading(n, width, k) * Base + bytes[k + 1]
    BY <2>1, <2>3
  <2> QED
    BY <1>4, <2>1, <2>2, <2>4
<1>5. 0..width \subseteq S
  <2> HIDE DEF S
  <2> QED
    BY <1>1, <1>3, <1>4, UpTo
<1>6. f[width] = Leading(n, width, width)
  BY <1>1, <1>5
<1> QED
  BY <1>2, <1>6, Digits

\* A list of bytes is that of the number it stands for.
LEMMA BytesOfNumber ==
  ASSUME NEW width \in 0..Bytes, NEW bytes, Len(bytes) = width,
         \A i \in 1..width : bytes[i] \in 0..(Base - 1)
  PROVE  /\ NumberOf(bytes) \in 0..(Worth[width] - 1)
         /\ \A i \in 1..width : BigEndian(NumberOf(bytes), width)[i] = bytes[i]
<1>1. width \in Nat /\ Base \in Nat \ {0} /\ Bytes \in Nat /\ width <= Bytes
  BY EncodingAssumption DEF Bytes
<1>2. PICK f : /\ f = [i \in 0..width |-> IF i = 0 THEN 0 ELSE f[i - 1] * Base + bytes[i]]
               /\ NumberOf(bytes) = f[width]
  BY <1>1, NumberDefined
<1>3. f[0] = 0 /\ \A i \in 1..width : f[i] = f[i - 1] * Base + bytes[i]
  BY <1>1, <1>2
<1> DEFINE S == {i \in 0..width : f[i] \in 0..(Worth[i] - 1)}
<1>4. 0 \in S
  BY <1>1, <1>3, Worths
<1>5. ASSUME NEW k \in 0..(width - 1), k \in S PROVE k + 1 \in S
  <2>1. k + 1 \in 1..width /\ k + 1 \in 0..width /\ (k + 1) - 1 = k
        /\ k \in 0..(Bytes - 1) /\ k \in 0..Bytes
    BY <1>1
  <2>2. Worth[k + 1] = Worth[k] * Base /\ Worth[k] \in Nat \ {0}
    BY <2>1, Worths
  <2>3. f[k + 1] = f[k] * Base + bytes[k + 1] /\ bytes[k + 1] \in 0..(Base - 1)
    BY <1>3, <2>1
  <2>4. f[k] \in Nat /\ f[k] + 1 <= Worth[k]
    BY <1>5, <2>2
  <2>5. \A x, y \in Nat : x + 1 <= y => x * Base + Base <= y * Base /\ x * Base \in Nat
    BY <1>1
  <2>6. f[k] * Base + Base <= Worth[k] * Base /\ f[k] * Base \in Nat
    BY <2>2, <2>4, <2>5
  <2>7. f[k + 1] \in 0..(Worth[k] * Base - 1)
    BY <1>1, <2>2, <2>3, <2>6
  <2> QED
    BY <2>1, <2>2, <2>7
<1>6. 0..width \subseteq S
  <2> HIDE DEF S
  <2> QED
    BY <1>1, <1>4, <1>5, UpTo
<1>7. \A i \in 0..width : f[i] \in Nat
  BY <1>6
<1> DEFINE N == f[width]
           T == {k \in 0..width : f[width - k] = N \div Worth[k]}
<1>8. 0 \in T
  <2>1. N \div 1 = N /\ width - 0 = width
    BY <1>1, <1>7
  <2> QED
    BY <1>1, <2>1, Worths
<1>9. ASSUME NEW i \in 1..width
      PROVE  f[i - 1] = f[i] \div Base /\ bytes[i] = f[i] % Base
  <2>1. f[i] = f[i - 1] * Base + bytes[i] /\ bytes[i] \in 0..(Base - 1)
        /\ f[i - 1] \in Nat
    BY <1>1, <1>3, <1>7
  <2>2. \A x \in Nat, y \in 0..(Base - 1) :
          (x * Base + y) \div Base = x /\ (x * Base + y) % Base = y
    BY <1>1
  <2> QED
    BY <2>1, <2>2
<1>10. ASSUME NEW k \in 0..(width - 1), k \in T PROVE k + 1 \in T
  <2>1. k \in 0..(Bytes - 1) /\ k \in 0..Bytes /\ k + 1 \in 0..width
        /\ width - k \in 1..width /\ (width - k) - 1 = width - (k + 1)
    BY <1>1
  <2>2. Worth[k + 1] = Worth[k] * Base /\ Worth[k] \in Nat \ {0} /\ N \in Nat
    BY <1>1, <1>7, <2>1, Worths
  <2>3. f[width - (k + 1)] = (N \div Worth[k]) \div Base
    BY <1>9, <1>10, <2>1
  <2> HIDE DEF N
  <2>5. (N \div Worth[k]) \div Base = N \div (Worth[k] * Base)
    BY <1>1, <2>2, DivideTwice
  <2>6. f[width - (k + 1)] = N \div Worth[k + 1]
    BY <2>2, <2>3, <2>5
  <2> QED
    BY <2>1, <2>6
<1>11. 0..width \subseteq T
  <2> HIDE DEF T
  <2> QED
    BY <1>1, <1>8, <1>10, UpTo
<1>12. ASSUME NEW i \in 1..width PROVE BigEndian(N, width)[i] = bytes[i]
  <2>1. width - i \in 0..width /\ width - (width - i) = i
    BY <1>1
  <2>2. f[i] = N \div Worth[width - i]
    BY <1>11, <2>1
  <2> HIDE DEF N
  <2> QED
    BY <1>9, <2>2 DEF BigEndian
<1> QED
  BY <1>1, <1>2, <1>6, <1>12

\* Of two numbers the lesser has the lesser bytes.
LEMMA BytesInOrder ==
  ASSUME NEW width \in 0..Bytes, NEW n \in Nat, NEW m \in Nat, n < m, m < Worth[width]
  PROVE  \E i \in 1..width :
           /\ BigEndian(n, width)[i] < BigEndian(m, width)[i]
           /\ \A j \in 1..(i - 1) : BigEndian(n, width)[j] = BigEndian(m, width)[j]
<1>1. width \in Nat /\ Base \in Nat \ {0} /\ Bytes \in Nat /\ width <= Bytes
  BY EncodingAssumption DEF Bytes
<1>2. n < Worth[width]
  BY <1>1, Worths
<1> DEFINE differ == {i \in 0..width : Leading(n, width, i) # Leading(m, width, i)}
<1>3. width \in differ
  BY <1>1, Digits
<1>4. PICK i \in differ : \A j \in differ : i <= j
  <2>1. differ \subseteq Nat
    OBVIOUS
  <2> QED
    BY <1>3, <2>1, LeastNatural
<1>5. i \in 1..width
  BY <1>1, <1>2, <1>4, Digits
<1>6. \A j \in 0..(i - 1) : Leading(n, width, j) = Leading(m, width, j)
  BY <1>1, <1>4, <1>5
<1>7. Leading(n, width, i) < Leading(m, width, i)
  <2>1. \A w \in Nat \ {0} : n \div w <= m \div w
    OBVIOUS
  <2>2. width - i \in 0..Bytes
    BY <1>1, <1>5
  <2>3. Leading(n, width, i) <= Leading(m, width, i)
    BY <2>1, <2>2, Worths DEF Leading
  <2>4. i \in 0..width /\ Leading(n, width, i) # Leading(m, width, i)
    BY <1>4
  <2>5. Leading(n, width, i) \in Nat /\ Leading(m, width, i) \in Nat
    BY <2>4, Digits
  <2> QED
    BY <2>3, <2>4, <2>5
<1>8. BigEndian(n, width)[i] < BigEndian(m, width)[i]
  <2>1. Leading(n, width, i) = Leading(n, width, i - 1) * Base + BigEndian(n, width)[i]
        /\ BigEndian(n, width)[i] \in 0..(Base - 1)
    BY <1>5, Digits
  <2>2. Leading(m, width, i) = Leading(m, width, i - 1) * Base + BigEndian(m, width)[i]
        /\ BigEndian(m, width)[i] \in 0..(Base - 1)
    BY <1>5, Digits
  <2>3. Leading(n, width, i - 1) = Leading(m, width, i - 1)
        /\ Leading(n, width, i - 1) \in Nat
    BY <1>1, <1>5, <1>6, Digits
  <2>4. Leading(n, width, i - 1) * Base \in Nat
    BY <1>1, <2>3
  <2> QED
    BY <1>1, <1>7, <2>1, <2>2, <2>3, <2>4
<1>9. ASSUME NEW j \in 1..(i - 1) PROVE BigEndian(n, width)[j] = BigEndian(m, width)[j]
  <2>1. j \in 1..width /\ j \in 0..(i - 1)
    BY <1>1, <1>5
  <2>2. BigEndian(n, width)[j] = Leading(n, width, j) % Base
        /\ BigEndian(m, width)[j] = Leading(m, width, j) % Base
    BY <2>1 DEF BigEndian, Leading
  <2> QED
    BY <1>6, <2>1, <2>2
<1> QED
  BY <1>5, <1>8, <1>9

\* Sequences of the same indices are as long as each other.
LEMMA SameBounds ==
  ASSUME NEW i \in Nat, NEW j \in Nat, 1..i = 1..j
  PROVE  i = j
<1>1. i <= j
  <2>1. CASE i = 0
    BY <2>1
  <2>2. CASE i # 0
    <3>1. i \in 1..i
      BY <2>2
    <3> QED
      BY <3>1
  <2> QED
    BY <2>1, <2>2
<1>2. j <= i
  <2>1. CASE j = 0
    BY <2>1
  <2>2. CASE j # 0
    <3>1. j \in 1..j
      BY <2>2
    <3> QED
      BY <3>1
  <2> QED
    BY <2>1, <2>2
<1> QED
  BY <1>1, <1>2

-----------------------------------------------------------------------------
(* Timestamps.                                                             *)

\* How far from the epoch SystemTime reaches.
Distance == 0..((LastSecond + 1) * SecondNanos)

\* What the provers need of the widths.
LEMMA Widths ==
  /\ SecondBytes \in Nat \ {0} /\ NanoBytes \in Nat \ {0} /\ Base \in Nat \ {0}
  /\ SecondNanos \in Nat \ {0} /\ LastSecond \in Nat
  /\ Bytes = SecondBytes + NanoBytes /\ Bytes \in Nat
  /\ SecondBytes \in 0..Bytes /\ NanoBytes \in 0..Bytes
  /\ LastSecond + 1 < Worth[SecondBytes] /\ SecondNanos <= Worth[NanoBytes]
<1>1. Bytes = SecondBytes + NanoBytes
  BY DEF Bytes
<1>2. SecondBytes \in Nat \ {0} /\ NanoBytes \in Nat \ {0} /\ Base \in Nat \ {0}
      /\ SecondNanos \in Nat \ {0}
  BY EncodingAssumption
<1>3. SecondBytes \in 0..Bytes /\ NanoBytes \in 0..Bytes /\ Bytes \in Nat
  BY <1>1, <1>2
<1>4. Worth[SecondBytes] \in Nat \ {0}
  BY <1>3, Worths
<1>5. LastSecond \in 0..(Worth[SecondBytes] - 2) /\ SecondNanos <= Worth[NanoBytes]
  BY EncodingAssumption
<1>6. LastSecond \in Nat /\ LastSecond + 1 < Worth[SecondBytes]
  BY <1>4, <1>5
<1> QED
  BY <1>1, <1>2, <1>3, <1>5, <1>6

\* The bytes of a number are bytes.
LEMMA BigEndianType ==
  ASSUME NEW width \in 0..Bytes, NEW n \in Nat
  PROVE  /\ BigEndian(n, width) \in Seq(Byte) /\ Len(BigEndian(n, width)) = width
         /\ \A i \in 1..width : BigEndian(n, width)[i] \in Byte
<1>1. width \in Nat
  BY Widths
<1>2. \A i \in 1..width : BigEndian(n, width)[i] \in Byte
  BY Digits DEF Byte
<1>3. BigEndian(n, width) \in [1..width -> Byte]
  BY <1>2 DEF BigEndian
<1>4. BigEndian(n, width) \in Seq(Byte)
  BY <1>1, <1>3, SeqDef
<1>5. DOMAIN BigEndian(n, width) = 1..Len(BigEndian(n, width))
      /\ Len(BigEndian(n, width)) \in Nat
  BY <1>4, LenProperties
<1>6. Len(BigEndian(n, width)) = width
  BY <1>1, <1>3, <1>5, SameBounds
<1> QED
  BY <1>2, <1>4, <1>6

\* A distance is whole seconds and the nanoseconds that are left.
LEMMA DistanceParts ==
  ASSUME NEW d \in Distance
  PROVE  /\ d \in Nat
         /\ d \div SecondNanos \in Nat /\ d \div SecondNanos < Worth[SecondBytes]
         /\ d % SecondNanos \in 0..(SecondNanos - 1) /\ d % SecondNanos < Worth[NanoBytes]
         /\ d = (d \div SecondNanos) * SecondNanos + (d % SecondNanos)
<1> DEFINE s == SecondNanos
           l == LastSecond + 1
<1>1. s \in Nat \ {0} /\ l \in Nat /\ l < Worth[SecondBytes] /\ s <= Worth[NanoBytes]
      /\ Worth[SecondBytes] \in Nat /\ Worth[NanoBytes] \in Nat
  BY Widths, Worths
<1>2. d \in 0..(l * s)
  BY DEF Distance
<1> HIDE DEF s, l
<1>3. l * s \in Nat /\ d \in Nat
  BY <1>1, <1>2
<1>4. d \div s \in Nat /\ d % s \in 0..(s - 1) /\ d = (d \div s) * s + (d % s)
  BY <1>1, <1>3
<1>5. d \div s <= l
  <2>1. d \div s <= (l * s) \div s
    BY <1>1, <1>2, <1>3
  <2>2. (l * s) \div s = l
    BY <1>1
  <2> QED
    BY <2>1, <2>2
<1>6. d \div s < Worth[SecondBytes] /\ d % s < Worth[NanoBytes]
  BY <1>1, <1>4, <1>5
<1> QED
  BY <1>3, <1>4, <1>6 DEF s

\* The bytes of a distance.
LEMMA DistanceBytes ==
  ASSUME NEW d \in Distance
  PROVE  /\ SecondsAndNanos(d) \in Seq(Byte) /\ Len(SecondsAndNanos(d)) = Bytes
         /\ DOMAIN SecondsAndNanos(d) = 1..Bytes
         /\ \A i \in 1..Bytes : SecondsAndNanos(d)[i] \in Byte
         /\ \A i \in 1..SecondBytes :
              SecondsAndNanos(d)[i] = BigEndian(d \div SecondNanos, SecondBytes)[i]
         /\ \A i \in 1..NanoBytes :
              SecondsAndNanos(d)[SecondBytes + i] = BigEndian(d % SecondNanos, NanoBytes)[i]
<1> DEFINE a == BigEndian(d \div SecondNanos, SecondBytes)
           b == BigEndian(d % SecondNanos, NanoBytes)
           c == a \o b
<1>1. a \in Seq(Byte) /\ Len(a) = SecondBytes
  BY DistanceParts, Widths, BigEndianType
<1>2. b \in Seq(Byte) /\ Len(b) = NanoBytes
  <2>1. d % SecondNanos \in Nat
    BY DistanceParts, Widths
  <2> QED
    BY <2>1, Widths, BigEndianType
<1> HIDE DEF a, b
<1>3. /\ c \in Seq(Byte) /\ Len(c) = SecondBytes + NanoBytes
      /\ \A i \in 1..SecondBytes + NanoBytes :
           c[i] = IF i <= SecondBytes THEN a[i] ELSE b[i - SecondBytes]
  BY <1>1, <1>2, ConcatProperties
<1> HIDE DEF c
<1>4. DOMAIN c = 1..Bytes
  BY <1>3, Widths, LenProperties
<1>5. \A i \in 1..Bytes : c[i] \in Byte
  BY <1>3, Widths, ElementOfSeq
<1>6. \A i \in 1..SecondBytes : c[i] = a[i]
  BY <1>3, Widths
<1>7. ASSUME NEW i \in 1..NanoBytes PROVE c[SecondBytes + i] = b[i]
  <2>1. SecondBytes + i \in 1..(SecondBytes + NanoBytes) /\ ~(SecondBytes + i <= SecondBytes)
        /\ (SecondBytes + i) - SecondBytes = i
    BY Widths
  <2> QED
    BY <1>3, <2>1
<1>8. c = SecondsAndNanos(d)
  BY DEF a, b, c, SecondsAndNanos
<1> QED
  BY <1>3, <1>4, <1>5, <1>6, <1>7, <1>8, Widths DEF a, b

\* Of two distances the lesser has the lesser bytes.
LEMMA DistancesInOrder ==
  ASSUME NEW d \in Distance, NEW e \in Distance, d < e
  PROVE  \E i \in 1..Bytes :
           /\ SecondsAndNanos(d)[i] < SecondsAndNanos(e)[i]
           /\ \A j \in 1..(i - 1) : SecondsAndNanos(d)[j] = SecondsAndNanos(e)[j]
<1> DEFINE s == SecondNanos
           x == d \div s
           y == e \div s
           p == d % s
           q == e % s
<1>1. /\ d \in Nat /\ x \in Nat /\ p \in 0..(s - 1) /\ d = x * s + p
  BY DistanceParts
<1>2. /\ e \in Nat /\ y \in Nat /\ q \in 0..(s - 1) /\ e = y * s + q
      /\ y < Worth[SecondBytes] /\ q < Worth[NanoBytes]
  BY DistanceParts
<1>3. s \in Nat \ {0}
  BY Widths
<1>4. x <= y
  <2>1. \A w \in Nat \ {0} : \A a, b \in Nat : a < b => a \div w <= b \div w
    OBVIOUS
  <2> HIDE DEF s
  <2> QED
    BY <1>1, <1>2, <1>3, <2>1
<1> HIDE DEF x, y, p, q
<1>5. CASE x < y
  <2>1. PICK i \in 1..SecondBytes :
          /\ BigEndian(x, SecondBytes)[i] < BigEndian(y, SecondBytes)[i]
          /\ \A j \in 1..(i - 1) :
               BigEndian(x, SecondBytes)[j] = BigEndian(y, SecondBytes)[j]
    BY <1>1, <1>2, <1>5, Widths, BytesInOrder
  <2>2. i \in 1..Bytes /\ \A j \in 1..(i - 1) : j \in 1..SecondBytes
    BY Widths
  <2>3. \A j \in 1..SecondBytes :
          /\ SecondsAndNanos(d)[j] = BigEndian(x, SecondBytes)[j]
          /\ SecondsAndNanos(e)[j] = BigEndian(y, SecondBytes)[j]
    BY DistanceBytes DEF x, y
  <2> QED
    BY <2>1, <2>2, <2>3
<1>6. CASE x = y
  <2>1. p < q
    <3>1. x * s \in Nat
      BY <1>1, <1>3
    <3> QED
      BY <1>1, <1>2, <1>6, <3>1
  <2>2. PICK i \in 1..NanoBytes :
          /\ BigEndian(p, NanoBytes)[i] < BigEndian(q, NanoBytes)[i]
          /\ \A j \in 1..(i - 1) : BigEndian(p, NanoBytes)[j] = BigEndian(q, NanoBytes)[j]
    <3>1. p \in Nat /\ q \in Nat
      BY <1>1, <1>2
    <3> QED
      BY <1>2, <2>1, <3>1, Widths, BytesInOrder
  <2>3. \A j \in 1..NanoBytes :
          /\ SecondsAndNanos(d)[SecondBytes + j] = BigEndian(p, NanoBytes)[j]
          /\ SecondsAndNanos(e)[SecondBytes + j] = BigEndian(q, NanoBytes)[j]
    BY DistanceBytes DEF p, q
  <2>4. \A j \in 1..SecondBytes : SecondsAndNanos(d)[j] = SecondsAndNanos(e)[j]
    BY <1>6, DistanceBytes DEF x, y
  <2>5. SecondBytes + i \in 1..Bytes
    BY Widths
  <2>6. ASSUME NEW j \in 1..(SecondBytes + i - 1)
        PROVE  SecondsAndNanos(d)[j] = SecondsAndNanos(e)[j]
    <3>1. CASE j <= SecondBytes
      BY <2>4, <3>1, Widths
    <3>2. CASE ~(j <= SecondBytes)
      <4> DEFINE k == j - SecondBytes
      <4>1. k \in 1..(i - 1) /\ k \in 1..NanoBytes /\ SecondBytes + k = j
        BY <3>2, Widths
      <4> HIDE DEF k
      <4> QED
        BY <2>2, <2>3, <4>1
    <3> QED
      BY <3>1, <3>2
  <2>7. SecondsAndNanos(d)[SecondBytes + i] < SecondsAndNanos(e)[SecondBytes + i]
    BY <2>2, <2>3
  <2> PICK k : k = SecondBytes + i
    OBVIOUS
  <2>8. k \in 1..Bytes /\ SecondsAndNanos(d)[k] < SecondsAndNanos(e)[k]
        /\ \A j \in 1..(k - 1) : SecondsAndNanos(d)[j] = SecondsAndNanos(e)[j]
    BY <2>5, <2>6, <2>7, Widths
  <2> QED
    BY <2>8
<1> QED
  BY <1>1, <1>2, <1>4, <1>5, <1>6

\* An encoded timestamp: a marker and the distance, inverted before the epoch.
LEMMA Encoded ==
  ASSUME NEW t \in SystemTime, NEW d, d = IF t < 0 THEN -t ELSE t
  PROVE  /\ d \in Distance
         /\ EncodeTimestamp(t) \in Seq(Int) /\ Len(EncodeTimestamp(t)) = 1 + Bytes
         /\ DOMAIN EncodeTimestamp(t) = 1..(1 + Bytes)
         /\ EncodeTimestamp(t)[1] = IF t < 0 THEN 0 ELSE 1
         /\ \A i \in 1..Bytes :
              EncodeTimestamp(t)[i + 1] = IF t < 0 THEN Base - 1 - SecondsAndNanos(d)[i]
                                          ELSE SecondsAndNanos(d)[i]
<1> DEFINE far == (LastSecond + 1) * SecondNanos
           c == EncodeTimestamp(t)
           b == SecondsAndNanos(d)
           m == IF t < 0 THEN 0 ELSE 1
           rest == IF t < 0 THEN Inverted(b) ELSE b
<1>1. far \in Nat /\ t \in Int /\ -far <= t /\ t <= far - 1
  <2>1. far \in Nat
    BY Widths
  <2>2. t \in (-far)..(far - 1)
    BY DEF SystemTime
  <2> HIDE DEF far
  <2> QED
    BY <2>1, <2>2
<1>2. d \in 0..far
  <2> HIDE DEF far
  <2> QED
    BY <1>1
<1>3. d \in Distance
  BY <1>2 DEF Distance
<1>4. /\ b \in Seq(Byte) /\ Len(b) = Bytes /\ DOMAIN b = 1..Bytes
      /\ \A i \in 1..Bytes : b[i] \in Int
  <2>1. \A x \in Byte : x \in Int
    BY Widths DEF Byte
  <2> QED
    BY <1>3, <2>1, DistanceBytes
<1> HIDE DEF b
<1>5. rest \in [1..Bytes -> Int] /\ \A i \in 1..Bytes :
        rest[i] = IF t < 0 THEN Base - 1 - b[i] ELSE b[i]
  <2>1. b \in [1..Bytes -> Int]
    <3>1. b = [i \in 1..Bytes |-> b[i]]
      BY <1>4, LenProperties
    <3> QED
      BY <1>4, <3>1
  <2>2. Inverted(b) = [i \in 1..Bytes |-> Base - 1 - b[i]]
    BY <1>4 DEF Inverted
  <2>3. Inverted(b) \in [1..Bytes -> Int]
    BY <1>4, <2>2, Widths
  <2> QED
    BY <2>1, <2>2, <2>3
<1> HIDE DEF rest
<1>6. rest \in Seq(Int) /\ Len(rest) = Bytes
  <2>1. rest \in Seq(Int)
    BY <1>5, Widths, SeqDef
  <2>2. DOMAIN rest = 1..Len(rest) /\ Len(rest) \in Nat
    BY <2>1, LenProperties
  <2> QED
    BY <1>5, <2>1, <2>2, Widths, SameBounds
<1>7. <<m>> \in Seq(Int) /\ Len(<<m>>) = 1 /\ <<m>>[1] = m
  OBVIOUS
<1>8. c = <<m>> \o rest
  BY DEF EncodeTimestamp, m, rest, b
<1> HIDE DEF c, m
<1>9. /\ c \in Seq(Int) /\ Len(c) = 1 + Bytes
      /\ \A i \in 1..1 + Bytes : c[i] = IF i <= 1 THEN <<m>>[i] ELSE rest[i - 1]
  BY <1>6, <1>7, <1>8, ConcatProperties
<1>10. c[1] = m /\ \A i \in 1..Bytes : c[i + 1] = rest[i]
  <2>1. c[1] = m
    BY <1>7, <1>9, Widths
  <2>2. ASSUME NEW i \in 1..Bytes PROVE c[i + 1] = rest[i]
    <3>1. i + 1 \in 1..(1 + Bytes) /\ ~(i + 1 <= 1) /\ (i + 1) - 1 = i
      BY Widths
    <3> QED
      BY <1>9, <3>1
  <2> QED
    BY <2>1, <2>2
<1>11. DOMAIN c = 1..(1 + Bytes)
  BY <1>9, LenProperties
<1> QED
  BY <1>3, <1>5, <1>9, <1>10, <1>11 DEF b, c, m

\* The byte order of encoded timestamps is the order of time.
LEMMA BytesFollowTime ==
  ASSUME NEW t \in SystemTime, NEW u \in SystemTime, t < u
  PROVE  BytesLess(EncodeTimestamp(t), EncodeTimestamp(u))
<1> DEFINE a == EncodeTimestamp(t)
           b == EncodeTimestamp(u)
           d == IF t < 0 THEN -t ELSE t
           e == IF u < 0 THEN -u ELSE u
<1>1. t \in Int /\ u \in Int
  BY DEF SystemTime
<1>2. /\ d \in Distance /\ DOMAIN a = 1..(1 + Bytes) /\ a[1] = IF t < 0 THEN 0 ELSE 1
      /\ \A i \in 1..Bytes : a[i + 1] = IF t < 0 THEN Base - 1 - SecondsAndNanos(d)[i]
                                        ELSE SecondsAndNanos(d)[i]
  BY Encoded
<1>3. /\ e \in Distance /\ DOMAIN b = 1..(1 + Bytes) /\ b[1] = IF u < 0 THEN 0 ELSE 1
      /\ \A i \in 1..Bytes : b[i + 1] = IF u < 0 THEN Base - 1 - SecondsAndNanos(e)[i]
                                        ELSE SecondsAndNanos(e)[i]
  BY Encoded
<1>4. /\ \A i \in 1..Bytes : SecondsAndNanos(d)[i] \in Byte
      /\ \A i \in 1..Bytes : SecondsAndNanos(e)[i] \in Byte
      /\ Bytes \in Nat /\ Base \in Nat
  BY <1>2, <1>3, DistanceBytes, Widths
<1>5. SUFFICES \E i \in 1..(1 + Bytes) : a[i] < b[i] /\ \A j \in 1..(i - 1) : a[j] = b[j]
  BY <1>2 DEF BytesLess
<1>6. CASE t < 0 /\ u >= 0
  <2>1. 1 \in 1..(1 + Bytes) /\ a[1] < b[1] /\ \A j \in 1..(1 - 1) : a[j] = b[j]
    BY <1>1, <1>2, <1>3, <1>4, <1>6
  <2> QED
    BY <2>1
<1>7. CASE t < 0 <=> u < 0
  <2>1. PICK i \in 1..Bytes :
          /\ a[i + 1] < b[i + 1]
          /\ \A j \in 1..(i - 1) : a[j + 1] = b[j + 1]
    <3>1. CASE t >= 0
      <4>1. PICK i \in 1..Bytes :
              /\ SecondsAndNanos(d)[i] < SecondsAndNanos(e)[i]
              /\ \A j \in 1..(i - 1) : SecondsAndNanos(d)[j] = SecondsAndNanos(e)[j]
        BY <1>1, <1>2, <1>3, <1>7, <3>1, DistancesInOrder
      <4>2. \A j \in 1..Bytes : a[j + 1] = SecondsAndNanos(d)[j]
                                 /\ b[j + 1] = SecondsAndNanos(e)[j]
        BY <1>1, <1>2, <1>3, <1>7, <3>1
      <4>3. \A j \in 1..(i - 1) : j \in 1..Bytes
        BY <1>4
      <4> QED
        BY <4>1, <4>2, <4>3
    <3>2. CASE t < 0
      <4>1. PICK i \in 1..Bytes :
              /\ SecondsAndNanos(e)[i] < SecondsAndNanos(d)[i]
              /\ \A j \in 1..(i - 1) : SecondsAndNanos(e)[j] = SecondsAndNanos(d)[j]
        BY <1>1, <1>2, <1>3, <1>7, <3>2, DistancesInOrder
      <4>2. \A j \in 1..Bytes : a[j + 1] = Base - 1 - SecondsAndNanos(d)[j]
                                 /\ b[j + 1] = Base - 1 - SecondsAndNanos(e)[j]
        BY <1>1, <1>2, <1>3, <1>7, <3>2
      <4>3. \A j \in 1..(i - 1) : j \in 1..Bytes
        BY <1>4
      <4>4. a[i + 1] < b[i + 1]
        BY <1>4, <4>1, <4>2 DEF Byte
      <4>5. \A j \in 1..(i - 1) : a[j + 1] = b[j + 1]
        BY <4>1, <4>2, <4>3
      <4> QED
        BY <4>4, <4>5
    <3> QED
      BY <1>1, <3>1, <3>2
  <2>2. a[1] = b[1]
    BY <1>2, <1>3, <1>7
  <2> DEFINE k == i + 1
  <2>3. k \in 1..(1 + Bytes) /\ a[k] < b[k]
    BY <1>4, <2>1
  <2>4. ASSUME NEW j \in 1..(k - 1) PROVE a[j] = b[j]
    <3>1. CASE j = 1
      BY <2>2, <3>1
    <3>2. CASE j # 1
      <4>1. j - 1 \in 1..(i - 1) /\ (j - 1) + 1 = j
        BY <3>2
      <4>2. a[(j - 1) + 1] = b[(j - 1) + 1]
        BY <2>1, <4>1
      <4> QED
        BY <4>1, <4>2
    <3> QED
      BY <3>1, <3>2
  <2> HIDE DEF k, a, b
  <2> QED
    BY <2>3, <2>4
<1> QED
  BY <1>1, <1>6, <1>7

\* What is read from a column of the right length.
LEMMA Decoded ==
  ASSUME NEW column \in Seq(Int), Len(column) = 1 + Bytes
  PROVE  \E a, b :
           LET before == column[1] = 0
               byte(i) == IF before THEN Base - 1 - column[i + 1] ELSE column[i + 1]
               d == NumberOf(a) * SecondNanos + NumberOf(b)
           IN  /\ Len(a) = SecondBytes /\ \A i \in 1..SecondBytes : a[i] = byte(i)
               /\ Len(b) = NanoBytes
               /\ \A i \in 1..NanoBytes : b[i] = byte(SecondBytes + i)
               /\ DecodeTimestamp(column)
                    = IF column[1] \notin {0, 1} \/ NumberOf(b) >= SecondNanos THEN {}
                      ELSE {IF before THEN -d ELSE d} \cap SystemTime
<1> DEFINE before == column[1] = 0
           byte(i) == IF before THEN Base - 1 - column[i + 1] ELSE column[i + 1]
           bytes == IF before THEN Inverted(Tail(column)) ELSE Tail(column)
           a == SubSeq(bytes, 1, SecondBytes)
           b == SubSeq(bytes, SecondBytes + 1, Len(bytes))
           d == NumberOf(a) * SecondNanos + NumberOf(b)
<1>1. column # <<>>
  BY Widths, EmptySeq
<1>2. /\ Tail(column) \in Seq(Int) /\ Len(Tail(column)) = Bytes
      /\ DOMAIN Tail(column) = 1..Bytes
      /\ \A i \in 1..Bytes : Tail(column)[i] = column[i + 1]
  <2>1. /\ Tail(column) \in Seq(Int) /\ Len(Tail(column)) = Len(column) - 1
        /\ \A i \in 1..Len(Tail(column)) : Tail(column)[i] = column[i + 1]
    BY <1>1, HeadTailProperties
  <2>2. Len(column) - 1 = Bytes
    BY Widths
  <2> QED
    BY <2>1, <2>2, LenProperties
<1>3. /\ bytes \in Seq(Int) /\ Len(bytes) = Bytes
      /\ \A i \in 1..Bytes : bytes[i] = byte(i)
  <2>1. \A i \in 1..Bytes : column[i + 1] \in Int
    BY <1>2, ElementOfSeq
  <2> DEFINE f == [i \in 1..Bytes |-> byte(i)]
  <2>2. bytes = f
    <3>1. Inverted(Tail(column)) = [i \in 1..Bytes |-> Base - 1 - column[i + 1]]
      BY <1>2 DEF Inverted
    <3>2. Tail(column) = [i \in 1..Bytes |-> column[i + 1]]
      <4>1. Tail(column) = [i \in DOMAIN Tail(column) |-> Tail(column)[i]]
        BY <1>2, LenProperties
      <4> QED
        BY <1>2, <4>1
    <3> QED
      BY <3>1, <3>2
  <2>3. f \in [1..Bytes -> Int]
    BY <2>1, Widths
  <2> HIDE DEF f
  <2>4. f \in Seq(Int)
    BY <2>3, Widths, SeqDef
  <2>5. DOMAIN f = 1..Len(f) /\ Len(f) \in Nat
    BY <2>4, LenProperties
  <2>6. Len(f) = Bytes
    BY <2>3, <2>5, Widths, SameBounds
  <2>7. \A i \in 1..Bytes : f[i] = byte(i)
    BY DEF f
  <2> QED
    BY <2>2, <2>4, <2>6, <2>7
<1>4. DecodeTimestamp(column)
        = IF column[1] \notin {0, 1} \/ NumberOf(b) >= SecondNanos THEN {}
          ELSE {IF before THEN -d ELSE d} \cap SystemTime
  <2>1. Len(column) = 1 + SecondBytes + NanoBytes
    BY Widths
  <2> QED
    BY <2>1 DEF DecodeTimestamp
<1> HIDE DEF bytes, byte
<1>5. \A i \in 1..Bytes : bytes[i] \in Int
  BY <1>3, ElementOfSeq
<1>6. Len(a) = SecondBytes /\ \A i \in 1..SecondBytes : a[i] = byte(i)
  <2>1. \A i \in 1..SecondBytes : bytes[i] \in Int /\ i \in 1..Bytes
    BY <1>5, Widths
  <2>2. /\ Len(a) = IF 1 <= SecondBytes THEN SecondBytes - 1 + 1 ELSE 0
        /\ \A i \in 1..(SecondBytes - 1 + 1) : a[i] = bytes[1 + i - 1]
    BY <2>1, Widths, SubSeqProperties
  <2>3. SecondBytes - 1 + 1 = SecondBytes /\ 1 <= SecondBytes
        /\ \A i \in 1..SecondBytes : 1 + i - 1 = i
    BY Widths
  <2> HIDE DEF a
  <2> QED
    BY <1>3, <2>1, <2>2, <2>3
<1>7. Len(b) = NanoBytes /\ \A i \in 1..NanoBytes : b[i] = byte(SecondBytes + i)
  <2> DEFINE m == SecondBytes + 1
  <2>1. m \in Int /\ Bytes \in Int /\ \A i \in m..Bytes : bytes[i] \in Int
    BY <1>5, Widths
  <2>2. b = SubSeq(bytes, m, Bytes)
    BY <1>3
  <2> HIDE DEF b, m
  <2>3. /\ Len(b) = IF m <= Bytes THEN Bytes - m + 1 ELSE 0
        /\ \A i \in 1..(Bytes - m + 1) : b[i] = bytes[m + i - 1]
    BY <2>1, <2>2, SubSeqProperties
  <2>4. Bytes - m + 1 = NanoBytes /\ m <= Bytes
        /\ \A i \in 1..NanoBytes : m + i - 1 = SecondBytes + i /\ SecondBytes + i \in 1..Bytes
    BY Widths DEF m
  <2> QED
    BY <1>3, <2>3, <2>4
<1> HIDE DEF a, b
<1> QED
  BY <1>4, <1>6, <1>7 DEF byte

\* What is written is read back.
LEMMA TimestampReadBack ==
  ASSUME NEW t \in SystemTime
  PROVE  DecodeTimestamp(EncodeTimestamp(t)) = {t}
<1> DEFINE column == EncodeTimestamp(t)
<1> PICK d : d = IF t < 0 THEN -t ELSE t
  OBVIOUS
<1>1. /\ d \in Distance /\ column \in Seq(Int) /\ Len(column) = 1 + Bytes
      /\ column[1] = IF t < 0 THEN 0 ELSE 1
      /\ \A i \in 1..Bytes : column[i + 1] = IF t < 0 THEN Base - 1 - SecondsAndNanos(d)[i]
                                             ELSE SecondsAndNanos(d)[i]
  BY Encoded
<1>2. t \in Int /\ (t < 0 <=> column[1] = 0) /\ column[1] \in {0, 1}
  <2>1. t \in Int
    BY DEF SystemTime
  <2> QED
    BY <1>1, <2>1
<1> DEFINE byte(i) == IF column[1] = 0 THEN Base - 1 - column[i + 1] ELSE column[i + 1]
<1>3. \A i \in 1..Bytes : byte(i) = SecondsAndNanos(d)[i]
  <2>1. \A i \in 1..Bytes : SecondsAndNanos(d)[i] \in Byte
    BY <1>1, DistanceBytes
  <2>2. \A x \in Byte : x \in Int /\ Base - 1 - (Base - 1 - x) = x
    BY Widths DEF Byte
  <2> HIDE DEF column
  <2> QED
    BY <1>1, <1>2, <2>1, <2>2
<1> HIDE DEF column
<1>4. PICK a, b :
        /\ Len(a) = SecondBytes /\ \A i \in 1..SecondBytes : a[i] = byte(i)
        /\ Len(b) = NanoBytes /\ \A i \in 1..NanoBytes : b[i] = byte(SecondBytes + i)
        /\ DecodeTimestamp(column)
             = IF column[1] \notin {0, 1} \/ NumberOf(b) >= SecondNanos THEN {}
               ELSE {IF column[1] = 0 THEN -(NumberOf(a) * SecondNanos + NumberOf(b))
                     ELSE NumberOf(a) * SecondNanos + NumberOf(b)} \cap SystemTime
  BY <1>1, Decoded
<1> HIDE DEF byte
<1>5. PICK s \in Nat, n \in Nat :
        /\ s < Worth[SecondBytes] /\ n < SecondNanos /\ n < Worth[NanoBytes]
        /\ d = s * SecondNanos + n
        /\ \A i \in 1..SecondBytes : SecondsAndNanos(d)[i] = BigEndian(s, SecondBytes)[i]
        /\ \A i \in 1..NanoBytes :
             SecondsAndNanos(d)[SecondBytes + i] = BigEndian(n, NanoBytes)[i]
  <2> DEFINE s == d \div SecondNanos
             n == d % SecondNanos
  <2>1. /\ s \in Nat /\ s < Worth[SecondBytes] /\ n \in 0..(SecondNanos - 1)
        /\ n < Worth[NanoBytes] /\ d = s * SecondNanos + n
    BY <1>1, DistanceParts
  <2>2. n \in Nat /\ n < SecondNanos
    BY <2>1, Widths
  <2>3. /\ \A i \in 1..SecondBytes : SecondsAndNanos(d)[i] = BigEndian(s, SecondBytes)[i]
        /\ \A i \in 1..NanoBytes :
             SecondsAndNanos(d)[SecondBytes + i] = BigEndian(n, NanoBytes)[i]
    BY <1>1, DistanceBytes
  <2> HIDE DEF s, n
  <2> QED
    BY <2>1, <2>2, <2>3
<1>6. NumberOf(a) = s
  <2>1. \A i \in 1..SecondBytes : a[i] = BigEndian(s, SecondBytes)[i]
    BY <1>3, <1>4, <1>5, Widths
  <2> QED
    BY <1>4, <1>5, <2>1, Widths, NumberOfBytes
<1>7. NumberOf(b) = n
  <2>1. \A i \in 1..NanoBytes : b[i] = BigEndian(n, NanoBytes)[i]
    <3>1. \A i \in 1..NanoBytes : SecondBytes + i \in 1..Bytes
      BY Widths
    <3> QED
      BY <1>3, <1>4, <1>5, <3>1
  <2>2. NanoBytes \in 0..Bytes /\ Len(b) = NanoBytes /\ n < Worth[NanoBytes] /\ n \in Nat
    BY <1>4, <1>5, Widths
  <2> QED
    BY <2>1, <2>2, NumberOfBytes
<1>8. ~(n >= SecondNanos) /\ (IF column[1] = 0 THEN -d ELSE d) = t
  BY <1>2, <1>5, Widths
<1>9. DecodeTimestamp(column)
        = {IF column[1] = 0 THEN -(s * SecondNanos + n)
           ELSE s * SecondNanos + n} \cap SystemTime
  BY <1>2, <1>4, <1>6, <1>7, <1>8
<1>10. DecodeTimestamp(column) = {t} \cap SystemTime
  BY <1>5, <1>8, <1>9
<1> QED
  BY <1>10 DEF column

-----------------------------------------------------------------------------
(* Rows.                                                                   *)

\* A record with these columns.
IsRow(e, columns) == e = [c \in columns |-> e[c]]

\* Bytes that no column of an instant holds.
TooShort == <<1>>

\* A row with a column that cannot be read is refused.
LEMMA RowRefused ==
  ASSUME NEW columns, NEW c \in DOMAIN columns, columns[c] = {}
  PROVE  Row(columns) = {}
  BY DEF Row

\* A row whose columns are read as a record has them is read as that record.
LEMMA RowRead ==
  ASSUME NEW D, NEW v, IsRow(v, D), NEW columns, DOMAIN columns = D,
         \A c \in D : columns[c] = {v[c]}
  PROVE  Row(columns) = {v}
<1>1. ~(\E c \in DOMAIN columns : columns[c] = {})
  OBVIOUS
<1>2. \A c \in D : (CHOOSE x \in columns[c] : TRUE) = v[c]
  OBVIOUS
<1>3. [c \in DOMAIN columns |-> CHOOSE x \in columns[c] : TRUE] = v
  BY <1>2 DEF IsRow
<1> QED
  BY <1>1, <1>3 DEF Row

\* The same of a row whose columns are converted.
LEMMA ReadRefused ==
  ASSUME NEW row, NEW read, NEW c \in DOMAIN row, c \in DOMAIN read, read[c] = {}
  PROVE  ReadWith(row, read) = {}
  BY RowRefused DEF ReadWith

\* A row is read as a record when what is converted is converted back and the rest
\* is what was written.
LEMMA ReadAs ==
  ASSUME NEW D, NEW v, IsRow(v, D), NEW row, DOMAIN row = D, NEW read,
         \A c \in D : IF c \in DOMAIN read THEN read[c] = {v[c]} ELSE row[c] = v[c]
  PROVE  ReadWith(row, read) = {v}
<1> DEFINE columns == [c \in DOMAIN row |-> IF c \in DOMAIN read THEN read[c] ELSE {row[c]}]
<1>1. DOMAIN columns = D /\ \A c \in D : columns[c] = {v[c]}
  OBVIOUS
<1> HIDE DEF columns
<1>2. Row(columns) = {v}
  BY <1>1, RowRead
<1> QED
  BY <1>2 DEF ReadWith, columns

\* A written row has the columns of the record, those converted as converted.
LEMMA Written ==
  ASSUME NEW D, NEW v, IsRow(v, D), NEW converted
  PROVE  LET row == With(v, converted)
         IN  /\ IsRow(row, D) /\ DOMAIN row = D
             /\ \A c \in D : row[c] = IF c \in DOMAIN converted THEN converted[c] ELSE v[c]
  BY DEF With, IsRow

-----------------------------------------------------------------------------
(* Columns.                                                                *)

Optionally(S) == {Null} \cup {<<x>> : x \in S}

\* An optional timestamp is read back, also where there is none.
LEMMA OptionReadBack ==
  ASSUME NEW o \in Optionally(SystemTime)
  PROVE  DecodeOption(EncodeOption(o)) = {o}
<1>1. CASE o = Null
  BY <1>1 DEF EncodeOption, DecodeOption
<1>2. CASE o # Null
  <2>1. PICK t \in SystemTime : o = <<t>>
    BY <1>2 DEF Optionally
  <2>2. EncodeOption(o) = EncodeTimestamp(t)
    BY <1>2, <2>1 DEF EncodeOption
  <2>3. Len(EncodeTimestamp(t)) = 1 + Bytes /\ EncodeTimestamp(t) \in Seq(Int)
    BY Encoded
  <2>4. EncodeTimestamp(t) # Null
    BY <2>3, Widths, EmptySeq DEF Null
  <2>5. DecodeTimestamp(EncodeTimestamp(t)) = {t}
    BY TimestampReadBack
  <2> QED
    BY <2>1, <2>2, <2>4, <2>5 DEF DecodeOption
<1> QED
  BY <1>1, <1>2

\* One byte is no timestamp.
LEMMA OneByte == DecodeTimestamp(TooShort) = {} /\ DecodeOption(TooShort) = {}
<1>1. Len(TooShort) # 1 + SecondBytes + NanoBytes
  BY Widths DEF TooShort
<1>2. DecodeTimestamp(TooShort) = {}
  BY <1>1 DEF DecodeTimestamp
<1>3. TooShort # Null
  BY DEF Null, TooShort
<1> QED
  BY <1>2, <1>3 DEF DecodeOption

\* A u64 survives being kept in an i64.
LEMMA CountReadBack ==
  ASSUME NEW n \in 0..(CountLimit - 1)
  PROVE  DecodeCount(EncodeCount(n)) = n
<1>1. CountLimit \in Nat \ {0}
  BY EncodingAssumption
<1>2. n % CountLimit = n /\ (n - CountLimit) % CountLimit = n
  BY <1>1
<1> QED
  BY <1>2 DEF DecodeCount, EncodeCount

\* The four counts of a run are read back.
LEMMA CountsReadBack ==
  ASSUME NEW counts \in [Counts -> 0..(CountLimit - 1)]
  PROVE  DecodeCounts(EncodeCounts(counts)) = {counts}
<1>1. \A c \in Counts : DecodeCount(EncodeCounts(counts)[c]) = counts[c]
  BY CountReadBack DEF EncodeCounts
<1>2. [c \in Counts |-> DecodeCount(EncodeCounts(counts)[c])] = counts
  BY <1>1
<1> QED
  BY <1>2 DEF DecodeCounts

\* A JSON object of strings is read back, also an empty one.
LEMMA MetadataReadBack ==
  ASSUME NEW m, m = [k \in DOMAIN m |-> m[k]]
  PROVE  DecodeMetadata(EncodeMetadata(m)) = {m}
<1> DEFINE json == EncodeMetadata(m)
<1>1. json # NotJson
  <2>1. <<>> \notin json
    BY DEF EncodeMetadata
  <2> QED
    BY <2>1 DEF NotJson
<1>2. {p[1] : p \in json} = DOMAIN m
  <2>1. \A p \in json : p[1] \in DOMAIN m
    BY DEF EncodeMetadata
  <2>2. \A k \in DOMAIN m : <<k, m[k]>> \in json /\ <<k, m[k]>>[1] = k
    BY DEF EncodeMetadata
  <2> HIDE DEF json
  <2> QED
    BY <2>1, <2>2
<1>3. \A key \in DOMAIN m : (CHOOSE p \in json : p[1] = key)[2] = m[key]
  <2> TAKE key \in DOMAIN m
  <2>1. <<key, m[key]>> \in json
    BY DEF EncodeMetadata
  <2>2. \A p \in json : p[1] = key => p[2] = m[key]
    BY DEF EncodeMetadata
  <2> HIDE DEF json
  <2> QED
    BY <2>1, <2>2
<1> HIDE DEF json
<1>4. [key \in {p[1] : p \in json} |-> (CHOOSE p \in json : p[1] = key)[2]] = m
  BY <1>2, <1>3
<1> QED
  BY <1>1, <1>4 DEF DecodeMetadata, json

-----------------------------------------------------------------------------
(* Tables.                                                                 *)

EventColumns ==
  {"id", "occurred_at", "captured_at", "connector_id", "source_reference", "event_kind",
   "payload_bytes", "payload_media_type", "metadata", "schema_version"}
IsEvent(e) ==
  /\ IsRow(e, EventColumns)
  /\ {e.occurred_at, e.captured_at} \subseteq SystemTime
  /\ e.metadata = [k \in DOMAIN e.metadata |-> e.metadata[k]]

\* An event is read back as it was written.
LEMMA EventReadBack ==
  ASSUME NEW e, IsEvent(e)
  PROVE  IsRow(EventRow(e), EventColumns) /\ EventOf(EventRow(e)) = {e}
<1> DEFINE written == [occurred_at |-> EncodeTimestamp(e.occurred_at),
                        captured_at |-> EncodeTimestamp(e.captured_at),
                        metadata |-> EncodeMetadata(e.metadata)]
           row == EventRow(e)
           read == [occurred_at |-> DecodeTimestamp(row.occurred_at),
                     captured_at |-> DecodeTimestamp(row.captured_at),
                     metadata |-> DecodeMetadata(row.metadata)]
<1>1. /\ IsRow(row, EventColumns) /\ DOMAIN row = EventColumns
      /\ \A c \in EventColumns : row[c] = IF c \in DOMAIN written THEN written[c] ELSE e[c]
  BY Written DEF IsEvent, EventRow
<1> HIDE DEF row
<1>2. /\ read.occurred_at = {e.occurred_at}
      /\ read.captured_at = {e.captured_at}
      /\ read.metadata = {e.metadata}
  BY <1>1, TimestampReadBack, MetadataReadBack DEF IsEvent, EventColumns
<1>3. \A c \in EventColumns : IF c \in DOMAIN read THEN read[c] = {e[c]} ELSE row[c] = e[c]
  BY <1>1, <1>2
<1>4. EventOf(row) = ReadWith(row, read)
  BY DEF EventOf
<1> HIDE DEF read
<1> QED
  BY <1>1, <1>3, <1>4, ReadAs DEF IsEvent, row

\* An event is refused with one column that cannot be read.
LEMMA EventRefused ==
  ASSUME NEW row, IsRow(row, EventColumns),
         \/ \E c \in {"occurred_at", "captured_at"} : row[c] = TooShort
         \/ \E c \in {"metadata"} : row[c] = NotJson
  PROVE  EventOf(row) = {}
<1> DEFINE read == [occurred_at |-> DecodeTimestamp(row.occurred_at),
                     captured_at |-> DecodeTimestamp(row.captured_at),
                     metadata |-> DecodeMetadata(row.metadata)]
<1>1. \E c \in {"occurred_at", "captured_at", "metadata"} : read[c] = {}
  BY OneByte DEF DecodeMetadata
<1>2. {"occurred_at", "captured_at", "metadata"} \subseteq DOMAIN row \cap DOMAIN read
  BY DEF IsRow, EventColumns
<1>3. EventOf(row) = ReadWith(row, read)
  BY DEF EventOf
<1> HIDE DEF read
<1> QED
  BY <1>1, <1>2, <1>3, ReadRefused

AnnotationColumns ==
  {"id", "event_id", "field", "value_kind", "value_text", "assignment_source",
   "assigned_at", "supersedes", "schema_version"}
IsAnnotation(a) ==
  /\ IsRow(a, AnnotationColumns)
  /\ {a.assigned_at} \subseteq SystemTime
  /\ a.value_kind \in ValueKindCode
  /\ a.assignment_source \in AssignmentCode

\* An annotation is read back as it was written.
LEMMA AnnotationReadBack ==
  ASSUME NEW a, IsAnnotation(a)
  PROVE  IsRow(AnnotationRow(a), AnnotationColumns) /\ AnnotationOf(AnnotationRow(a)) = {a}
<1> DEFINE written == [assigned_at |-> EncodeTimestamp(a.assigned_at)]
           row == AnnotationRow(a)
           read == [value_kind |-> Decode(row.value_kind, ValueKindCode),
                     assignment_source |-> Decode(row.assignment_source, AssignmentCode),
                     assigned_at |-> DecodeTimestamp(row.assigned_at)]
<1>1. /\ IsRow(row, AnnotationColumns) /\ DOMAIN row = AnnotationColumns
      /\ \A c \in AnnotationColumns : row[c] = IF c \in DOMAIN written THEN written[c] ELSE a[c]
  BY Written DEF IsAnnotation, AnnotationRow
<1> HIDE DEF row
<1>2. /\ read.value_kind = {a.value_kind}
      /\ read.assignment_source = {a.assignment_source}
      /\ read.assigned_at = {a.assigned_at}
  BY <1>1, TimestampReadBack DEF IsAnnotation, AnnotationColumns, Decode
<1>3. \A c \in AnnotationColumns :
        IF c \in DOMAIN read THEN read[c] = {a[c]} ELSE row[c] = a[c]
  BY <1>1, <1>2
<1>4. AnnotationOf(row) = ReadWith(row, read)
  BY DEF AnnotationOf
<1> HIDE DEF read
<1> QED
  BY <1>1, <1>3, <1>4, ReadAs DEF IsAnnotation, row

\* An annotation is refused with one column that cannot be read.
LEMMA AnnotationRefused ==
  ASSUME NEW row, IsRow(row, AnnotationColumns),
         \/ \E c \in {"value_kind", "assignment_source"} : row[c] = "unknown"
         \/ \E c \in {"assigned_at"} : row[c] = TooShort
  PROVE  AnnotationOf(row) = {}
<1> DEFINE read == [value_kind |-> Decode(row.value_kind, ValueKindCode),
                     assignment_source |-> Decode(row.assignment_source, AssignmentCode),
                     assigned_at |-> DecodeTimestamp(row.assigned_at)]
<1>1. \E c \in {"value_kind", "assignment_source", "assigned_at"} : read[c] = {}
  BY OneByte DEF Decode, AssignmentCode, ValueKindCode
<1>2. {"value_kind", "assignment_source", "assigned_at"}
        \subseteq DOMAIN row \cap DOMAIN read
  BY DEF IsRow, AnnotationColumns
<1>3. AnnotationOf(row) = ReadWith(row, read)
  BY DEF AnnotationOf
<1> HIDE DEF read
<1> QED
  BY <1>1, <1>2, <1>3, ReadRefused

SourceColumns ==
  {"id", "connector_id", "source_identity", "display_name", "local_reference",
   "first_discovered", "last_seen", "status", "metadata", "configuration"}
IsSource(s) ==
  /\ IsRow(s, SourceColumns)
  /\ {s.first_discovered, s.last_seen} \subseteq SystemTime
  /\ s.status \in DiscoveryCode
  /\ s.metadata = [k \in DOMAIN s.metadata |-> s.metadata[k]]

\* A source is read back as it was written.
LEMMA SourceReadBack ==
  ASSUME NEW s, IsSource(s)
  PROVE  IsRow(SourceRow(s), SourceColumns) /\ SourceOf(SourceRow(s)) = {s}
<1> DEFINE written == [first_discovered |-> EncodeTimestamp(s.first_discovered),
                        last_seen |-> EncodeTimestamp(s.last_seen),
                        metadata |-> EncodeMetadata(s.metadata)]
           row == SourceRow(s)
           read == [first_discovered |-> DecodeTimestamp(row.first_discovered),
                     last_seen |-> DecodeTimestamp(row.last_seen),
                     status |-> Decode(row.status, DiscoveryCode),
                     metadata |-> DecodeMetadata(row.metadata)]
<1>1. /\ IsRow(row, SourceColumns) /\ DOMAIN row = SourceColumns
      /\ \A c \in SourceColumns : row[c] = IF c \in DOMAIN written THEN written[c] ELSE s[c]
  BY Written DEF IsSource, SourceRow
<1> HIDE DEF row
<1>2. /\ read.first_discovered = {s.first_discovered}
      /\ read.last_seen = {s.last_seen}
      /\ read.status = {s.status}
      /\ read.metadata = {s.metadata}
  BY <1>1, TimestampReadBack, MetadataReadBack DEF IsSource, SourceColumns, Decode
<1>3. \A c \in SourceColumns : IF c \in DOMAIN read THEN read[c] = {s[c]} ELSE row[c] = s[c]
  BY <1>1, <1>2
<1>4. SourceOf(row) = ReadWith(row, read)
  BY DEF SourceOf
<1> HIDE DEF read
<1> QED
  BY <1>1, <1>3, <1>4, ReadAs DEF IsSource, row

\* A source is refused with one column that cannot be read.
LEMMA SourceRefused ==
  ASSUME NEW row, IsRow(row, SourceColumns),
         \/ \E c \in {"first_discovered", "last_seen"} : row[c] = TooShort
         \/ \E c \in {"status"} : row[c] = "unknown"
         \/ \E c \in {"metadata"} : row[c] = NotJson
  PROVE  SourceOf(row) = {}
<1> DEFINE read == [first_discovered |-> DecodeTimestamp(row.first_discovered),
                     last_seen |-> DecodeTimestamp(row.last_seen),
                     status |-> Decode(row.status, DiscoveryCode),
                     metadata |-> DecodeMetadata(row.metadata)]
<1>1. \E c \in {"first_discovered", "last_seen", "status", "metadata"} : read[c] = {}
  BY OneByte DEF DecodeMetadata, Decode, DiscoveryCode
<1>2. {"first_discovered", "last_seen", "status", "metadata"}
        \subseteq DOMAIN row \cap DOMAIN read
  BY DEF IsRow, SourceColumns
<1>3. SourceOf(row) = ReadWith(row, read)
  BY DEF SourceOf
<1> HIDE DEF read
<1> QED
  BY <1>1, <1>2, <1>3, ReadRefused

ConnectionColumns ==
  {"id", "source_id", "connector_id", "status", "policy", "approved_at", "revoked_at",
   "configuration", "last_attempt", "last_success", "last_error"}
IsConnection(x) ==
  /\ IsRow(x, ConnectionColumns)
  /\ {x.approved_at} \subseteq SystemTime
  /\ {x.revoked_at, x.last_attempt, x.last_success} \subseteq Optionally(SystemTime)
  /\ x.status \in ConnectionCode
  /\ x.policy \in PolicyCode

\* A connection is read back as it was written.
LEMMA ConnectionReadBack ==
  ASSUME NEW x, IsConnection(x)
  PROVE  IsRow(ConnectionRow(x), ConnectionColumns) /\ ConnectionOf(ConnectionRow(x)) = {x}
<1> DEFINE written == [approved_at |-> EncodeTimestamp(x.approved_at),
                        revoked_at |-> EncodeOption(x.revoked_at),
                        last_attempt |-> EncodeOption(x.last_attempt),
                        last_success |-> EncodeOption(x.last_success)]
           row == ConnectionRow(x)
           read == [status |-> Decode(row.status, ConnectionCode),
                     policy |-> Decode(row.policy, PolicyCode),
                     approved_at |-> DecodeTimestamp(row.approved_at),
                     revoked_at |-> DecodeOption(row.revoked_at),
                     last_attempt |-> DecodeOption(row.last_attempt),
                     last_success |-> DecodeOption(row.last_success)]
<1>1. /\ IsRow(row, ConnectionColumns) /\ DOMAIN row = ConnectionColumns
      /\ \A c \in ConnectionColumns : row[c] = IF c \in DOMAIN written THEN written[c] ELSE x[c]
  BY Written DEF IsConnection, ConnectionRow
<1> HIDE DEF row
<1>2. /\ read.status = {x.status}
      /\ read.policy = {x.policy}
      /\ read.approved_at = {x.approved_at}
      /\ read.revoked_at = {x.revoked_at}
      /\ read.last_attempt = {x.last_attempt}
      /\ read.last_success = {x.last_success}
  BY <1>1, TimestampReadBack, OptionReadBack DEF IsConnection, ConnectionColumns, Decode
<1>3. \A c \in ConnectionColumns :
        IF c \in DOMAIN read THEN read[c] = {x[c]} ELSE row[c] = x[c]
  BY <1>1, <1>2
<1>4. ConnectionOf(row) = ReadWith(row, read)
  BY DEF ConnectionOf
<1> HIDE DEF read
<1> QED
  BY <1>1, <1>3, <1>4, ReadAs DEF IsConnection, row

\* A connection is refused with one column that cannot be read.
LEMMA ConnectionRefused ==
  ASSUME NEW row, IsRow(row, ConnectionColumns),
         \/ \E c \in {"status", "policy"} : row[c] = "unknown"
         \/ \E c \in {"approved_at", "revoked_at", "last_attempt", "last_success"} :
              row[c] = TooShort
  PROVE  ConnectionOf(row) = {}
<1> DEFINE read == [status |-> Decode(row.status, ConnectionCode),
                     policy |-> Decode(row.policy, PolicyCode),
                     approved_at |-> DecodeTimestamp(row.approved_at),
                     revoked_at |-> DecodeOption(row.revoked_at),
                     last_attempt |-> DecodeOption(row.last_attempt),
                     last_success |-> DecodeOption(row.last_success)]
<1>1. \E c \in {"status", "policy", "approved_at", "revoked_at", "last_attempt",
                 "last_success"} : read[c] = {}
  BY OneByte DEF Decode, ConnectionCode, PolicyCode
<1>2. {"status", "policy", "approved_at", "revoked_at", "last_attempt", "last_success"}
        \subseteq DOMAIN row \cap DOMAIN read
  BY DEF IsRow, ConnectionColumns
<1>3. ConnectionOf(row) = ReadWith(row, read)
  BY DEF ConnectionOf
<1> HIDE DEF read
<1> QED
  BY <1>1, <1>2, <1>3, ReadRefused

ConfigurationColumns ==
  {"monitoring", "record_folder", "schedule_kind", "schedule_days", "local_hour",
   "local_minute", "last_attempt", "last_success", "next_run", "last_error", "counts",
   "state"}
IsConfiguration(v) ==
  /\ IsRow(v, ConfigurationColumns)
  /\ {v.last_attempt, v.last_success, v.next_run} \subseteq Optionally(SystemTime)
  /\ v.schedule_kind \in ScheduleCode
  /\ v.monitoring \in MonitoringCode
  /\ v.state \in StateCode
  /\ v.counts \in [Counts -> 0..(CountLimit - 1)]
  /\ v.schedule_kind # "selected" => v.schedule_days = 0

\* The configuration is read back.
LEMMA ConfigurationReadBack ==
  ASSUME NEW v, IsConfiguration(v)
  PROVE  /\ IsRow(ConfigurationRow(v), ConfigurationColumns)
         /\ ConfigurationOf(ConfigurationRow(v)) = {v}
<1> DEFINE row == ConfigurationRow(v)
           written == [schedule_days |->
                          IF v.schedule_kind = "selected" THEN v.schedule_days ELSE 0,
                        last_attempt |-> EncodeOption(v.last_attempt),
                        last_success |-> EncodeOption(v.last_success),
                        next_run |-> EncodeOption(v.next_run),
                        counts |-> EncodeCounts(v.counts)]
           read == [monitoring |-> DecodeOrPaused(row.monitoring, MonitoringCode),
                     schedule_kind |-> Decode(row.schedule_kind, ScheduleCode),
                     schedule_days |->
                       {IF row.schedule_kind = "selected" THEN row.schedule_days ELSE 0},
                     last_attempt |-> DecodeOption(row.last_attempt),
                     last_success |-> DecodeOption(row.last_success),
                     next_run |-> DecodeOption(row.next_run),
                     counts |-> DecodeCounts(row.counts),
                     state |-> DecodeOrPaused(row.state, StateCode)]
<1>1. /\ IsRow(row, ConfigurationColumns)
      /\ \A c \in ConfigurationColumns :
           row[c] = IF c \in DOMAIN written THEN written[c] ELSE v[c]
  BY Written DEF IsConfiguration, ConfigurationRow
<1> HIDE DEF row
<1>2. /\ read.monitoring = {v.monitoring}
      /\ read.schedule_kind = {v.schedule_kind}
      /\ read.schedule_days = {v.schedule_days}
      /\ read.last_attempt = {v.last_attempt}
      /\ read.last_success = {v.last_success}
      /\ read.next_run = {v.next_run}
      /\ read.counts = {v.counts}
      /\ read.state = {v.state}
  BY <1>1, OptionReadBack, CountsReadBack
     DEF IsConfiguration, ConfigurationColumns, Decode, DecodeOrPaused
<1>3. \A c \in ConfigurationColumns :
        IF c \in DOMAIN read THEN read[c] = {v[c]} ELSE row[c] = v[c]
  BY <1>1, <1>2
<1>4. ConfigurationOf(row) = ReadWith(row, read)
  BY DEF ConfigurationOf
<1>5. DOMAIN row = ConfigurationColumns
  BY <1>1 DEF IsRow
<1> HIDE DEF read
<1> QED
  BY <1>1, <1>3, <1>4, <1>5, ReadAs DEF IsConfiguration, row

\* The configuration is refused with one column that cannot be read.
LEMMA ConfigurationRefused ==
  ASSUME NEW row, IsRow(row, ConfigurationColumns),
         \/ \E c \in {"schedule_kind"} : row[c] = "unknown"
         \/ \E c \in {"last_attempt", "last_success", "next_run"} : row[c] = TooShort
  PROVE  ConfigurationOf(row) = {}
<1> DEFINE read == [monitoring |-> DecodeOrPaused(row.monitoring, MonitoringCode),
                     schedule_kind |-> Decode(row.schedule_kind, ScheduleCode),
                     schedule_days |->
                       {IF row.schedule_kind = "selected" THEN row.schedule_days ELSE 0},
                     last_attempt |-> DecodeOption(row.last_attempt),
                     last_success |-> DecodeOption(row.last_success),
                     next_run |-> DecodeOption(row.next_run),
                     counts |-> DecodeCounts(row.counts),
                     state |-> DecodeOrPaused(row.state, StateCode)]
<1>1. \E c \in {"schedule_kind", "last_attempt", "last_success", "next_run"} : read[c] = {}
  BY OneByte DEF Decode, ScheduleCode
<1>2. {"schedule_kind", "last_attempt", "last_success", "next_run"}
        \subseteq DOMAIN row \cap DOMAIN read
  BY DEF IsRow, ConfigurationColumns
<1>3. ConfigurationOf(row) = ReadWith(row, read)
  BY DEF ConfigurationOf
<1> HIDE DEF read
<1> QED
  BY <1>1, <1>2, <1>3, ReadRefused

StatusColumns ==
  {"last_attempt", "last_success", "last_error", "counts", "state",
   "last_reconciled_local_date", "next_scheduled_run"}
IsStatus(v) ==
  /\ IsRow(v, StatusColumns)
  /\ {v.last_attempt, v.last_success, v.next_scheduled_run} \subseteq Optionally(SystemTime)
  /\ v.state \in StateCode
  /\ v.counts \in [Counts -> 0..(CountLimit - 1)]

\* The status is read back.
LEMMA StatusReadBack ==
  ASSUME NEW v, IsStatus(v)
  PROVE  /\ IsRow(StatusRow(v), StatusColumns)
         /\ StatusOf(StatusRow(v)) = {v}
<1> DEFINE row == StatusRow(v)
           written == [last_attempt |-> EncodeOption(v.last_attempt),
                        last_success |-> EncodeOption(v.last_success),
                        counts |-> EncodeCounts(v.counts),
                        next_scheduled_run |-> EncodeOption(v.next_scheduled_run)]
           read == [last_attempt |-> DecodeOption(row.last_attempt),
                     last_success |-> DecodeOption(row.last_success),
                     counts |-> DecodeCounts(row.counts),
                     state |-> DecodeOrPaused(row.state, StateCode),
                     next_scheduled_run |-> DecodeOption(row.next_scheduled_run)]
<1>1. /\ IsRow(row, StatusColumns)
      /\ \A c \in StatusColumns :
           row[c] = IF c \in DOMAIN written THEN written[c] ELSE v[c]
  BY Written DEF IsStatus, StatusRow
<1> HIDE DEF row
<1>2. /\ read.last_attempt = {v.last_attempt}
      /\ read.last_success = {v.last_success}
      /\ read.counts = {v.counts}
      /\ read.state = {v.state}
      /\ read.next_scheduled_run = {v.next_scheduled_run}
  BY <1>1, OptionReadBack, CountsReadBack DEF IsStatus, StatusColumns, DecodeOrPaused
<1>3. \A c \in StatusColumns : IF c \in DOMAIN read THEN read[c] = {v[c]} ELSE row[c] = v[c]
  BY <1>1, <1>2
<1>4. StatusOf(row) = ReadWith(row, read)
  BY DEF StatusOf
<1>5. DOMAIN row = StatusColumns
  BY <1>1 DEF IsRow
<1> HIDE DEF read
<1> QED
  BY <1>1, <1>3, <1>4, <1>5, ReadAs DEF IsStatus, row

\* The status is refused with one column that cannot be read.
LEMMA StatusRefused ==
  ASSUME NEW row, IsRow(row, StatusColumns),
         \E c \in {"last_attempt", "last_success", "next_scheduled_run"} : row[c] = TooShort
  PROVE  StatusOf(row) = {}
<1> DEFINE read == [last_attempt |-> DecodeOption(row.last_attempt),
                     last_success |-> DecodeOption(row.last_success),
                     counts |-> DecodeCounts(row.counts),
                     state |-> DecodeOrPaused(row.state, StateCode),
                     next_scheduled_run |-> DecodeOption(row.next_scheduled_run)]
<1>1. \E c \in {"last_attempt", "last_success", "next_scheduled_run"} : read[c] = {}
  BY OneByte
<1>2. {"last_attempt", "last_success", "next_scheduled_run"}
        \subseteq DOMAIN row \cap DOMAIN read
  BY DEF IsRow, StatusColumns
<1>3. StatusOf(row) = ReadWith(row, read)
  BY DEF StatusOf
<1> HIDE DEF read
<1> QED
  BY <1>1, <1>2, <1>3, ReadRefused

-----------------------------------------------------------------------------
(* Columns of bytes.                                                       *)

\* The bytes of zero are zero.
LEMMA DigitsOfZero ==
  ASSUME NEW width \in 0..Bytes, NEW i \in 1..width
  PROVE  BigEndian(0, width)[i] = 0
<1>1. width - i \in 0..Bytes /\ Base \in Nat \ {0}
  BY Widths
<1>2. PICK w \in Nat \ {0} : w = Worth[width - i]
  BY <1>1, Worths
<1>3. 0 \div w = 0 /\ 0 % Base = 0
  BY <1>1, <1>2
<1> QED
  BY <1>2, <1>3 DEF BigEndian

\* The bytes of the second encoding of the epoch.
LEMMA NegativeZeroBytes ==
  /\ NegativeZero \in Seq(Int) /\ Len(NegativeZero) = 1 + Bytes
  /\ NegativeZero[1] = 0 /\ \A i \in 1..Bytes : NegativeZero[i + 1] = Base - 1
<1> DEFINE f == [i \in 1..Bytes |-> Base - 1]
<1>1. f \in [1..Bytes -> Int]
  BY Widths
<1>2. NegativeZero = <<0>> \o f
  BY Widths DEF NegativeZero
<1>3. \A i \in 1..Bytes : f[i] = Base - 1
  OBVIOUS
<1> HIDE DEF f
<1>4. f \in Seq(Int)
  BY <1>1, Widths, SeqDef
<1>5. Len(f) = Bytes
  <2>1. DOMAIN f = 1..Len(f) /\ Len(f) \in Nat
    BY <1>4, LenProperties
  <2> QED
    BY <1>1, <2>1, Widths, SameBounds
<1>6. <<0>> \in Seq(Int) /\ Len(<<0>>) = 1 /\ <<0>>[1] = 0
  OBVIOUS
<1> DEFINE z == <<0>>
<1> HIDE DEF z
<1>7. /\ z \o f \in Seq(Int) /\ Len(z \o f) = 1 + Bytes
      /\ \A i \in 1..(1 + Bytes) : (z \o f)[i] = IF i <= 1 THEN z[i] ELSE f[i - 1]
  <2>1. z \in Seq(Int) /\ Len(z) = 1
    BY <1>6 DEF z
  <2>2. /\ z \o f \in Seq(Int) /\ Len(z \o f) = Len(z) + Len(f)
        /\ \A i \in 1..Len(z) + Len(f) :
             (z \o f)[i] = IF i <= Len(z) THEN z[i] ELSE f[i - Len(z)]
    BY <1>4, <2>1, ConcatProperties
  <2> QED
    BY <1>5, <2>1, <2>2
<1>8. 1 \in 1..(1 + Bytes) /\ \A i \in 1..Bytes : /\ i + 1 \in 1..(1 + Bytes) /\ ~(i + 1 <= 1)
                                                  /\ (i + 1) - 1 = i
  BY Widths
<1>9. (z \o f)[1] = 0 /\ \A i \in 1..Bytes : (z \o f)[i + 1] = Base - 1
  BY <1>3, <1>6, <1>7, <1>8 DEF z
<1> QED
  BY <1>2, <1>7, <1>9 DEF z

\* Columns of a marker and the same bytes are the same.
LEMMA ColumnsEqual ==
  ASSUME NEW a \in Seq(Int), NEW b \in Seq(Int), Len(a) = 1 + Bytes, Len(b) = 1 + Bytes,
         a[1] = b[1], \A i \in 1..Bytes : a[i + 1] = b[i + 1]
  PROVE  a = b
<1>1. \A i \in 1..(1 + Bytes) : i = 1 \/ (i - 1 \in 1..Bytes /\ (i - 1) + 1 = i)
  BY Widths
<1>2. \A i \in 1..Len(a) : a[i] = b[i]
  BY <1>1
<1> QED
  BY <1>2, SeqEqual

\* Seconds and nanoseconds are the parts of the distance they make.
LEMMA PartsOfDistance ==
  ASSUME NEW s \in Nat, NEW n \in Nat, n < SecondNanos
  PROVE  LET d == s * SecondNanos + n
         IN  d \in Nat /\ d \div SecondNanos = s /\ d % SecondNanos = n
<1>1. SecondNanos \in Nat \ {0}
  BY Widths
<1>2. \A w \in Nat \ {0} : \A x, y \in Nat :
        y < w => /\ x * w + y \in Nat
                 /\ (x * w + y) \div w = x /\ (x * w + y) % w = y
  OBVIOUS
<1> QED
  BY <1>1, <1>2

\* A column that is read as an instant is how that instant is written, but for the
\* epoch's second encoding: no two others stand for one instant.
LEMMA ColumnReadsBack ==
  ASSUME NEW k \in Nat, NEW column \in [1..k -> Byte], NEW t \in DecodeTimestamp(column)
  PROVE  EncodeTimestamp(t) = column \/ column = NegativeZero
<1>1. column \in Seq(Int) /\ Len(column) = 1 + Bytes
  <2>1. column \in [1..k -> Int]
    BY Widths DEF Byte
  <2>2. column \in Seq(Int)
    BY <2>1, SeqDef
  <2> QED
    BY <2>2, Widths DEF DecodeTimestamp
<1>2. k = 1 + Bytes
  <2>1. DOMAIN column = 1..Len(column)
    BY <1>1, LenProperties
  <2> QED
    BY <1>1, <2>1, Widths, SameBounds
<1>3. column[1] \in Byte /\ \A i \in 1..Bytes : column[i + 1] \in Byte
  BY <1>2, Widths
<1> DEFINE byte(i) == IF column[1] = 0 THEN Base - 1 - column[i + 1] ELSE column[i + 1]
<1>4. PICK a, b :
        /\ Len(a) = SecondBytes /\ \A i \in 1..SecondBytes : a[i] = byte(i)
        /\ Len(b) = NanoBytes /\ \A i \in 1..NanoBytes : b[i] = byte(SecondBytes + i)
        /\ DecodeTimestamp(column)
             = IF column[1] \notin {0, 1} \/ NumberOf(b) >= SecondNanos THEN {}
               ELSE {IF column[1] = 0 THEN -(NumberOf(a) * SecondNanos + NumberOf(b))
                     ELSE NumberOf(a) * SecondNanos + NumberOf(b)} \cap SystemTime
  BY <1>1, Decoded
<1>5. \A i \in 1..Bytes : byte(i) \in Byte
  BY <1>3, Widths DEF Byte
<1> HIDE DEF byte
<1>6. PICK s \in Nat : /\ s = NumberOf(a)
                       /\ \A i \in 1..SecondBytes : BigEndian(s, SecondBytes)[i] = byte(i)
  <2>1. \A i \in 1..SecondBytes : a[i] \in 0..(Base - 1)
    BY <1>4, <1>5, Widths DEF Byte
  <2>2. /\ NumberOf(a) \in 0..(Worth[SecondBytes] - 1)
        /\ \A i \in 1..SecondBytes : BigEndian(NumberOf(a), SecondBytes)[i] = a[i]
    <3>1. SecondBytes \in 0..Bytes /\ Len(a) = SecondBytes
      BY <1>4, Widths
    <3> QED
      BY <2>1, <3>1, BytesOfNumber
  <2> QED
    BY <1>4, <2>2
<1>7. PICK n \in Nat :
        /\ n = NumberOf(b)
        /\ \A i \in 1..NanoBytes : BigEndian(n, NanoBytes)[i] = byte(SecondBytes + i)
  <2>1. \A i \in 1..NanoBytes : SecondBytes + i \in 1..Bytes
    BY Widths
  <2>2. \A i \in 1..NanoBytes : b[i] \in 0..(Base - 1)
    BY <1>4, <1>5, <2>1 DEF Byte
  <2>3. /\ NumberOf(b) \in 0..(Worth[NanoBytes] - 1)
        /\ \A i \in 1..NanoBytes : BigEndian(NumberOf(b), NanoBytes)[i] = b[i]
    <3>1. NanoBytes \in 0..Bytes /\ Len(b) = NanoBytes
      BY <1>4, Widths
    <3> QED
      BY <2>2, <3>1, BytesOfNumber
  <2> QED
    BY <1>4, <2>3
<1>8. column[1] \in {0, 1} /\ n < SecondNanos
  BY <1>4, <1>7, Widths
<1>9. PICK d \in Nat : /\ d = s * SecondNanos + n
                       /\ d \div SecondNanos = s /\ d % SecondNanos = n
  BY <1>8, PartsOfDistance
<1>10. t \in SystemTime /\ t = IF column[1] = 0 THEN -d ELSE d
  BY <1>4, <1>6, <1>7, <1>8, <1>9
<1>11. /\ d \in Distance /\ EncodeTimestamp(t) \in Seq(Int)
       /\ Len(EncodeTimestamp(t)) = 1 + Bytes
       /\ EncodeTimestamp(t)[1] = IF t < 0 THEN 0 ELSE 1
       /\ \A i \in 1..Bytes : EncodeTimestamp(t)[i + 1]
                                = IF t < 0 THEN Base - 1 - SecondsAndNanos(d)[i]
                                  ELSE SecondsAndNanos(d)[i]
  <2>1. d = IF t < 0 THEN -t ELSE t
    BY <1>10
  <2> QED
    BY <1>10, <2>1, Encoded
<1>12. \A i \in 1..Bytes : SecondsAndNanos(d)[i] = byte(i)
  <2>1. \A i \in 1..SecondBytes : SecondsAndNanos(d)[i] = byte(i)
    BY <1>6, <1>9, <1>11, DistanceBytes
  <2>2. \A i \in 1..NanoBytes : SecondsAndNanos(d)[SecondBytes + i] = byte(SecondBytes + i)
    BY <1>7, <1>9, <1>11, DistanceBytes
  <2>3. ASSUME NEW i \in 1..Bytes, ~(i <= SecondBytes)
        PROVE  i - SecondBytes \in 1..NanoBytes /\ SecondBytes + (i - SecondBytes) = i
    BY <2>3, Widths
  <2>4. \A i \in 1..Bytes : i <= SecondBytes => i \in 1..SecondBytes
    BY Widths
  <2> QED
    BY <2>1, <2>2, <2>3, <2>4
<1>13. CASE column[1] = 1 \/ d # 0
  <2>1. /\ EncodeTimestamp(t)[1] = column[1]
        /\ t < 0 <=> column[1] = 0
    BY <1>8, <1>10, <1>11, <1>13
  <2>2. \A i \in 1..Bytes : EncodeTimestamp(t)[i + 1] = column[i + 1]
    <3>1. \A x \in Byte : Base - 1 - (Base - 1 - x) = x
      BY Widths DEF Byte
    <3> QED
      BY <1>3, <1>11, <1>12, <2>1, <3>1 DEF byte
  <2> QED
    BY <1>1, <1>11, <2>1, <2>2, ColumnsEqual
<1>14. CASE column[1] = 0 /\ d = 0
  <2>1. s = 0 /\ n = 0
    <3>1. 0 \div SecondNanos = 0 /\ 0 % SecondNanos = 0
      BY Widths
    <3> QED
      BY <1>9, <1>14, <3>1
  <2>2. \A i \in 1..Bytes : byte(i) = 0
    <3>1. \A i \in 1..SecondBytes : byte(i) = 0
      BY <1>6, <2>1, Widths, DigitsOfZero
    <3>2. \A i \in 1..NanoBytes : byte(SecondBytes + i) = 0
      BY <1>7, <2>1, Widths, DigitsOfZero
    <3>3. ASSUME NEW i \in 1..Bytes, ~(i <= SecondBytes)
          PROVE  i - SecondBytes \in 1..NanoBytes /\ SecondBytes + (i - SecondBytes) = i
      BY <3>3, Widths
    <3>4. \A i \in 1..Bytes : i <= SecondBytes => i \in 1..SecondBytes
      BY Widths
    <3> QED
      BY <3>1, <3>2, <3>3, <3>4
  <2>3. \A i \in 1..Bytes : column[i + 1] = Base - 1
    BY <1>3, <1>14, <2>2, Widths DEF byte, Byte
  <2> QED
    BY <1>1, <1>14, <2>3, NegativeZeroBytes, ColumnsEqual
<1> QED
  BY <1>8, <1>13, <1>14

-----------------------------------------------------------------------------
(* Days.                                                                   *)

\* A mask is the sum of the bits of the days selected.
LEMMA MaskBits ==
  ASSUME NEW D \in SUBSET Weekday
  PROVE  \E x0, x1, x2, x3, x4, x5, x6 \in {0, 1} :
           /\ MaskOf(D) = x0 + 2 * x1 + 4 * x2 + 8 * x3 + 16 * x4 + 32 * x5 + 64 * x6
           /\ x0 = 1 <=> 0 \in D
           /\ x1 = 1 <=> 1 \in D
           /\ x2 = 1 <=> 2 \in D
           /\ x3 = 1 <=> 3 \in D
           /\ x4 = 1 <=> 4 \in D
           /\ x5 = 1 <=> 5 \in D
           /\ x6 = 1 <=> 6 \in D
<1> DEFINE x(d) == IF d \in D THEN 1 ELSE 0
           Recurs(g) == g = [d \in -1..6 |-> IF d = -1 THEN 0
                               ELSE g[d - 1] + (IF d \in D THEN DayBits[d + 1] ELSE 0)]
           sum(d) == IF d = -1 THEN 0
                     ELSE IF d = 0 THEN x(0)
                     ELSE IF d = 1 THEN x(0) + 2 * x(1)
                     ELSE IF d = 2 THEN x(0) + 2 * x(1) + 4 * x(2)
                     ELSE IF d = 3 THEN x(0) + 2 * x(1) + 4 * x(2) + 8 * x(3)
                     ELSE IF d = 4 THEN x(0) + 2 * x(1) + 4 * x(2) + 8 * x(3) + 16 * x(4)
                     ELSE IF d = 5 THEN x(0) + 2 * x(1) + 4 * x(2) + 8 * x(3) + 16 * x(4)
                                          + 32 * x(5)
                     ELSE x(0) + 2 * x(1) + 4 * x(2) + 8 * x(3) + 16 * x(4) + 32 * x(5)
                            + 64 * x(6)
           f == [d \in -1..6 |-> sum(d)]
<1>1. \A d \in 0..6 : sum(d) = sum(d - 1) + (IF d \in D THEN DayBits[d + 1] ELSE 0)
  BY DEF DayBits
<1>2. Recurs(f)
  <2> HIDE DEF sum
  <2>1. \A d \in -1..6 : d # -1 => d \in 0..6 /\ d - 1 \in -1..6
    OBVIOUS
  <2>2. sum(-1) = 0
    BY DEF sum
  <2> QED
    BY <1>1, <2>1, <2>2
<1>3. \A g : Recurs(g) => \A d \in 0..6 :
        g[-1] = 0 /\ g[d] = g[d - 1] + (IF d \in D THEN DayBits[d + 1] ELSE 0)
  OBVIOUS
<1> DEFINE g == CHOOSE h : Recurs(h)
<1>4. Recurs(g)
  BY <1>2
<1>5. MaskOf(D) = g[6]
  BY DEF MaskOf
<1> HIDE DEF g, f
<1>6. g[6] = sum(6)
  BY <1>3, <1>4 DEF DayBits
<1> QED
  BY <1>5, <1>6

\* The days of a mask are those it was made of.
LEMMA MaskReadBack ==
  ASSUME NEW D \in SUBSET Weekday
  PROVE  DaysOf("selected", MaskOf(D)) = D
<1>1. PICK x0 \in {0, 1}, x1 \in {0, 1}, x2 \in {0, 1}, x3 \in {0, 1}, x4 \in {0, 1},
           x5 \in {0, 1}, x6 \in {0, 1} :
        /\ MaskOf(D) = x0 + 2 * x1 + 4 * x2 + 8 * x3 + 16 * x4 + 32 * x5 + 64 * x6
        /\ x0 = 1 <=> 0 \in D
        /\ x1 = 1 <=> 1 \in D
        /\ x2 = 1 <=> 2 \in D
        /\ x3 = 1 <=> 3 \in D
        /\ x4 = 1 <=> 4 \in D
        /\ x5 = 1 <=> 5 \in D
        /\ x6 = 1 <=> 6 \in D
  BY MaskBits
<1> DEFINE m == x0 + 2 * x1 + 4 * x2 + 8 * x3 + 16 * x4 + 32 * x5 + 64 * x6
<1>2. /\ (m \div 1) % 2 = x0
      /\ (m \div 2) % 2 = x1
      /\ (m \div 4) % 2 = x2
      /\ (m \div 8) % 2 = x3
      /\ (m \div 16) % 2 = x4
      /\ (m \div 32) % 2 = x5
      /\ (m \div 64) % 2 = x6
  OBVIOUS
<1> HIDE DEF m
<1>3. \A d \in Weekday : (m \div DayBits[d + 1]) % 2 = 1 <=> d \in D
  BY <1>1, <1>2 DEF DayBits, Weekday
<1>4. MaskOf(D) = m
  BY <1>1 DEF m
<1>5. DaysOf("selected", MaskOf(D)) = {d \in Weekday : (m \div DayBits[d + 1]) % 2 = 1}
  BY <1>4 DEF DaysOf
<1> QED
  BY <1>3, <1>5

-----------------------------------------------------------------------------
(* The rows and the faults of the inputs.                                  *)

\* A row's input: its table, a value of it and perhaps a fault.
LEMMA RowOfInput ==
  ASSUME input \in RowInputs
  PROVE  /\ input.table \in {"events", "annotations", "sources", "connections",
                             "configuration", "status"}
         /\ input.value \in Values(input.table)
         /\ input.fault \in Faults(input.table) \cup {NoFault}
  BY DEF RowInputs

\* No column is called "none" where nothing is wrong.
LEMMA NoFaultColumn == NoFault.column = "none"
  BY DEF NoFault

\* What may be wrong with a row of a table with the columns D.
LEMMA FaultOfInput ==
  ASSUME input \in RowInputs, NEW D, \A x \in Values(input.table) : IsRow(x, D)
  PROVE  LET c == input.fault.column
             holds == input.fault.holds
         IN  \/ c = "none"
             \/ /\ c \in D
                /\ \/ c \in Coded /\ holds = "unknown"
                   \/ c \in Timed /\ holds = TooShort
                   \/ c = "metadata" /\ holds = NotJson
<1> DEFINE f == input.fault
           table == input.table
<1>1. CASE f = NoFault
  BY <1>1, NoFaultColumn
<1>2. CASE f \in Faults(table)
  <2>1. input.value \in Values(table)
    BY RowOfInput
  <2>2. DOMAIN (CHOOSE x \in Values(table) : TRUE) = D
    BY <2>1 DEF IsRow
  <2> HIDE DEF f, table
  <2>3. f \in {[column |-> c, holds |-> "unknown"] : c \in D \cap Coded}
                \cup {[column |-> c, holds |-> TooShort] : c \in D \cap Timed}
                \cup {[column |-> c, holds |-> NotJson] : c \in D \cap {"metadata"}}
    BY <1>2, <2>2 DEF Faults, TooShort
  <2>4. /\ f.column \in D
        /\ \/ f.column \in Coded /\ f.holds = "unknown"
           \/ f.column \in Timed /\ f.holds = TooShort
           \/ f.column = "metadata" /\ f.holds = NotJson
    BY <2>3
  <2> QED
    BY <2>4 DEF f
<1> QED
  BY <1>1, <1>2, RowOfInput

\* A row with one column overwritten.
LEMMA FaultyRow ==
  ASSUME NEW row, NEW D, IsRow(row, D), NEW c \in D, NEW x
  PROVE  /\ IsRow([row EXCEPT ![c] = x], D) /\ [row EXCEPT ![c] = x][c] = x
         /\ \A e \in D \ {c} : [row EXCEPT ![c] = x][e] = row[e]
  BY DEF IsRow

\* Metadata is a function from keys.
LEMMA MetadataFunctions ==
  \A m \in Metadata : m = [k \in DOMAIN m |-> m[k]]
  BY DEF Metadata

\* An event is read back, and refused with a bad timestamp or bad metadata.
LEMMA EventRows ==
  ASSUME Times \subseteq SystemTime, input \in RowInputs, input.table = "events"
  PROVE  RowReadBack
<1> DEFINE value == input.value
           c == input.fault.column
           holds == input.fault.holds
<1>1. value \in Values("events")
  BY RowOfInput
<1>2. \A x \in Values("events") : IsEvent(x)
  BY MetadataFunctions DEF Values, IsEvent, IsRow, EventColumns
<1>3. \A x \in Values("events") : IsRow(x, EventColumns)
  BY <1>2 DEF IsEvent
<1>4. \/ c = "none"
      \/ c \in {"occurred_at", "captured_at"} /\ holds = TooShort
      \/ c = "metadata" /\ holds = NotJson
  <2>1. \/ c = "none"
        \/ /\ c \in EventColumns
           /\ \/ c \in Coded /\ holds = "unknown"
              \/ c \in Timed /\ holds = TooShort
              \/ c = "metadata" /\ holds = NotJson
    BY <1>3, FaultOfInput
  <2> QED
    BY <2>1 DEF Coded, Timed, EventColumns
<1>5. Write("events", value) = EventRow(value)
      /\ \A row : ReadBack("events", row) = EventOf(row)
  BY DEF Write, ReadBack
<1>6. IsRow(EventRow(value), EventColumns) /\ EventOf(EventRow(value)) = {value}
  BY <1>1, <1>2, EventReadBack
<1> HIDE DEF value, c, holds
<1>7. CASE c = "none"
  BY <1>5, <1>6, <1>7 DEF RowReadBack, ReadOfInput, value, c
<1>8. CASE c # "none"
  <2> DEFINE row == [EventRow(value) EXCEPT ![c] = holds]
  <2>1. c \in EventColumns /\ c \notin {"monitoring", "state"}
    BY <1>4, <1>8 DEF EventColumns
  <2>2. IsRow(row, EventColumns) /\ row[c] = holds
    BY <1>6, <2>1, FaultyRow
  <2> HIDE DEF row
  <2>3. EventOf(row) = {}
    BY <1>4, <1>8, <2>2, EventRefused
  <2> QED
    BY <1>5, <1>8, <2>1, <2>3 DEF RowReadBack, ReadOfInput, Interpreted, value, c, holds, row
<1> QED
  BY <1>7, <1>8

\* An annotation is read back, and refused with an unknown code or a bad timestamp.
LEMMA AnnotationRows ==
  ASSUME Times \subseteq SystemTime, input \in RowInputs, input.table = "annotations"
  PROVE  RowReadBack
<1> DEFINE value == input.value
           c == input.fault.column
           holds == input.fault.holds
<1>1. value \in Values("annotations")
  BY RowOfInput
<1>2. \A x \in Values("annotations") : IsAnnotation(x)
  BY DEF Values, IsAnnotation, IsRow, AnnotationColumns, Times
<1>3. \A x \in Values("annotations") : IsRow(x, AnnotationColumns)
  BY <1>2 DEF IsAnnotation
<1>4. \/ c = "none"
      \/ c \in {"value_kind", "assignment_source"} /\ holds = "unknown"
      \/ c \in {"assigned_at"} /\ holds = TooShort
  <2>1. \/ c = "none"
        \/ /\ c \in AnnotationColumns
           /\ \/ c \in Coded /\ holds = "unknown"
              \/ c \in Timed /\ holds = TooShort
              \/ c = "metadata" /\ holds = NotJson
    BY <1>3, FaultOfInput
  <2> QED
    BY <2>1 DEF Coded, Timed, AnnotationColumns
<1>5. Write("annotations", value) = AnnotationRow(value)
      /\ \A row : ReadBack("annotations", row) = AnnotationOf(row)
  BY DEF Write, ReadBack
<1>6. IsRow(AnnotationRow(value), AnnotationColumns)
      /\ AnnotationOf(AnnotationRow(value)) = {value}
  BY <1>1, <1>2, AnnotationReadBack
<1> HIDE DEF value, c, holds
<1>7. CASE c = "none"
  BY <1>5, <1>6, <1>7 DEF RowReadBack, ReadOfInput, value, c
<1>8. CASE c # "none"
  <2> DEFINE row == [AnnotationRow(value) EXCEPT ![c] = holds]
  <2>1. c \in AnnotationColumns /\ c \notin {"monitoring", "state"}
    BY <1>4, <1>8 DEF AnnotationColumns
  <2>2. IsRow(row, AnnotationColumns) /\ row[c] = holds
    BY <1>6, <2>1, FaultyRow
  <2> HIDE DEF row
  <2>3. AnnotationOf(row) = {}
    BY <1>4, <1>8, <2>2, AnnotationRefused
  <2> QED
    BY <1>5, <1>8, <2>1, <2>3 DEF RowReadBack, ReadOfInput, Interpreted, value, c, holds, row
<1> QED
  BY <1>7, <1>8

\* A source is read back, and refused with an unknown status, a bad timestamp or bad
\* metadata.
LEMMA SourceRows ==
  ASSUME Times \subseteq SystemTime, input \in RowInputs, input.table = "sources"
  PROVE  RowReadBack
<1> DEFINE value == input.value
           c == input.fault.column
           holds == input.fault.holds
<1>1. value \in Values("sources")
  BY RowOfInput
<1>2. \A x \in Values("sources") : IsSource(x)
  BY MetadataFunctions DEF Values, IsSource, IsRow, SourceColumns
<1>3. \A x \in Values("sources") : IsRow(x, SourceColumns)
  BY <1>2 DEF IsSource
<1>4. \/ c = "none"
      \/ c \in {"status"} /\ holds = "unknown"
      \/ c \in {"first_discovered", "last_seen"} /\ holds = TooShort
      \/ c = "metadata" /\ holds = NotJson
  <2>1. \/ c = "none"
        \/ /\ c \in SourceColumns
           /\ \/ c \in Coded /\ holds = "unknown"
              \/ c \in Timed /\ holds = TooShort
              \/ c = "metadata" /\ holds = NotJson
    BY <1>3, FaultOfInput
  <2> QED
    BY <2>1 DEF Coded, Timed, SourceColumns
<1>5. Write("sources", value) = SourceRow(value)
      /\ \A row : ReadBack("sources", row) = SourceOf(row)
  BY DEF Write, ReadBack
<1>6. IsRow(SourceRow(value), SourceColumns) /\ SourceOf(SourceRow(value)) = {value}
  BY <1>1, <1>2, SourceReadBack
<1> HIDE DEF value, c, holds
<1>7. CASE c = "none"
  BY <1>5, <1>6, <1>7 DEF RowReadBack, ReadOfInput, value, c
<1>8. CASE c # "none"
  <2> DEFINE row == [SourceRow(value) EXCEPT ![c] = holds]
  <2>1. c \in SourceColumns /\ c \notin {"monitoring", "state"}
    BY <1>4, <1>8 DEF SourceColumns
  <2>2. IsRow(row, SourceColumns) /\ row[c] = holds
    BY <1>6, <2>1, FaultyRow
  <2> HIDE DEF row
  <2>3. SourceOf(row) = {}
    BY <1>4, <1>8, <2>2, SourceRefused
  <2> QED
    BY <1>5, <1>8, <2>1, <2>3 DEF RowReadBack, ReadOfInput, Interpreted, value, c, holds, row
<1> QED
  BY <1>7, <1>8

\* A connection is read back, and refused with an unknown code or a bad timestamp.
LEMMA ConnectionRows ==
  ASSUME Times \subseteq SystemTime, input \in RowInputs, input.table = "connections"
  PROVE  RowReadBack
<1> DEFINE value == input.value
           c == input.fault.column
           holds == input.fault.holds
<1>1. value \in Values("connections")
  BY RowOfInput
<1>2. \A x \in Values("connections") : IsConnection(x)
  BY DEF Values, IsConnection, IsRow, ConnectionColumns, Times, Optional, Optionally
<1>3. \A x \in Values("connections") : IsRow(x, ConnectionColumns)
  BY <1>2 DEF IsConnection
<1>4. \/ c = "none"
      \/ c \in {"status", "policy"} /\ holds = "unknown"
      \/ c \in {"approved_at", "revoked_at", "last_attempt", "last_success"} /\ holds = TooShort
  <2>1. \/ c = "none"
        \/ /\ c \in ConnectionColumns
           /\ \/ c \in Coded /\ holds = "unknown"
              \/ c \in Timed /\ holds = TooShort
              \/ c = "metadata" /\ holds = NotJson
    BY <1>3, FaultOfInput
  <2> QED
    BY <2>1 DEF Coded, Timed, ConnectionColumns
<1>5. Write("connections", value) = ConnectionRow(value)
      /\ \A row : ReadBack("connections", row) = ConnectionOf(row)
  BY DEF Write, ReadBack
<1>6. IsRow(ConnectionRow(value), ConnectionColumns)
      /\ ConnectionOf(ConnectionRow(value)) = {value}
  BY <1>1, <1>2, ConnectionReadBack
<1> HIDE DEF value, c, holds
<1>7. CASE c = "none"
  BY <1>5, <1>6, <1>7 DEF RowReadBack, ReadOfInput, value, c
<1>8. CASE c # "none"
  <2> DEFINE row == [ConnectionRow(value) EXCEPT ![c] = holds]
  <2>1. c \in ConnectionColumns /\ c \notin {"monitoring", "state"}
    BY <1>4, <1>8 DEF ConnectionColumns
  <2>2. IsRow(row, ConnectionColumns) /\ row[c] = holds
    BY <1>6, <2>1, FaultyRow
  <2> HIDE DEF row
  <2>3. ConnectionOf(row) = {}
    BY <1>4, <1>8, <2>2, ConnectionRefused
  <2> QED
    BY <1>5, <1>8, <2>1, <2>3 DEF RowReadBack, ReadOfInput, Interpreted, value, c, holds, row
<1> QED
  BY <1>7, <1>8

\* The counts of the inputs are u64s.
LEMMA SomeCountsKept == SomeCounts \subseteq [Counts -> 0..(CountLimit - 1)]
<1>1. CountLimit \in Nat \ {0} /\ CountLimit % 2 = 0
  BY EncodingAssumption
<1>2. {0, 1, CountLimit - 1, CountLimit \div 2} \subseteq 0..(CountLimit - 1)
  BY <1>1
<1> QED
  BY <1>2 DEF SomeCounts

\* The configurations of the inputs are configurations.
LEMMA ConfigurationValues ==
  ASSUME Times \subseteq SystemTime, NEW v \in Values("configuration")
  PROVE  IsConfiguration(v)
<1>1. v \in [monitoring : MonitoringCode, record_folder : Text,
             schedule_kind : ScheduleCode, schedule_days : {0, 65}, local_hour : {7},
             local_minute : {30}, last_attempt : Optional, last_success : {<<0>>},
             next_run : {<<4>>}, last_error : Text, counts : SomeCounts,
             state : StateCode]
      /\ (v.schedule_kind # "selected" => v.schedule_days = 0)
  BY DEF Values
<1>2. Optional \cup {<<0>>, <<4>>} \subseteq Optionally(SystemTime)
  BY DEF Optional, Optionally, Times
<1> QED
  BY <1>1, <1>2, SomeCountsKept DEF IsConfiguration, IsRow, ConfigurationColumns

\* The statuses of the inputs are statuses.
LEMMA StatusValues ==
  ASSUME Times \subseteq SystemTime, NEW v \in Values("status")
  PROVE  IsStatus(v)
<1>1. v \in [last_attempt : Optional, last_success : {<<0>>}, last_error : Text,
             counts : SomeCounts, state : StateCode, last_reconciled_local_date : Text,
             next_scheduled_run : Optional]
  BY DEF Values
<1>2. Optional \cup {<<0>>} \subseteq Optionally(SystemTime)
  BY DEF Optional, Optionally, Times
<1> QED
  BY <1>1, <1>2, SomeCountsKept DEF IsStatus, IsRow, StatusColumns

\* The configuration is read back, and refused with an unknown schedule or a bad
\* timestamp.
LEMMA ConfigurationRows ==
  ASSUME Times \subseteq SystemTime, input \in RowInputs, input.table = "configuration"
  PROVE  RowReadBack
<1> DEFINE value == input.value
           c == input.fault.column
           holds == input.fault.holds
<1>1. value \in Values("configuration")
  BY RowOfInput
<1>2. \A x \in Values("configuration") : IsConfiguration(x)
  BY ConfigurationValues
<1>3. \A x \in Values("configuration") : IsRow(x, ConfigurationColumns)
  BY <1>2 DEF IsConfiguration
<1>4. \/ c = "none"
      \/ c \in {"schedule_kind"} /\ holds = "unknown"
      \/ c \in {"last_attempt", "last_success", "next_run"} /\ holds = TooShort
      \/ c \in {"monitoring", "state"} /\ holds = "unknown"
  <2>1. \/ c = "none"
        \/ /\ c \in ConfigurationColumns
           /\ \/ c \in Coded /\ holds = "unknown"
              \/ c \in Timed /\ holds = TooShort
              \/ c = "metadata" /\ holds = NotJson
    BY <1>3, FaultOfInput
  <2> QED
    BY <2>1 DEF Coded, Timed, ConfigurationColumns
<1>5. Write("configuration", value) = ConfigurationRow(value)
      /\ \A row : ReadBack("configuration", row) = ConfigurationOf(row)
  BY DEF Write, ReadBack
<1>6. IsRow(ConfigurationRow(value), ConfigurationColumns) /\ ConfigurationOf(ConfigurationRow(value)) = {value}
  BY <1>1, <1>2, ConfigurationReadBack
<1> HIDE DEF value, c, holds
<1>7. CASE c = "none"
  BY <1>5, <1>6, <1>7 DEF RowReadBack, ReadOfInput, value, c
<1>8. CASE c \in Interpreted
  BY <1>8 DEF RowReadBack, Interpreted, c
<1>9. CASE c \notin Interpreted \cup {"none"}
  <2> DEFINE row == [ConfigurationRow(value) EXCEPT ![c] = holds]
  <2>1. c \in ConfigurationColumns /\ c \notin {"monitoring", "state"}
    BY <1>4, <1>9 DEF ConfigurationColumns, Interpreted
  <2>2. IsRow(row, ConfigurationColumns) /\ row[c] = holds
    BY <1>6, <2>1, FaultyRow
  <2> HIDE DEF row
  <2>3. ConfigurationOf(row) = {}
    BY <1>4, <1>9, <2>2, ConfigurationRefused DEF Interpreted
  <2> QED
    BY <1>5, <1>9, <2>1, <2>3 DEF RowReadBack, ReadOfInput, Interpreted, value, c, holds, row
<1> QED
  BY <1>7, <1>8, <1>9

\* A status is read back, and refused with a bad timestamp.
LEMMA StatusRows ==
  ASSUME Times \subseteq SystemTime, input \in RowInputs, input.table = "status"
  PROVE  RowReadBack
<1> DEFINE value == input.value
           c == input.fault.column
           holds == input.fault.holds
<1>1. value \in Values("status")
  BY RowOfInput
<1>2. \A x \in Values("status") : IsStatus(x)
  BY StatusValues
<1>3. \A x \in Values("status") : IsRow(x, StatusColumns)
  BY <1>2 DEF IsStatus
<1>4. \/ c = "none"
      \/ c \in {"last_attempt", "last_success", "next_scheduled_run"} /\ holds = TooShort
      \/ c \in {"state"} /\ holds = "unknown"
  <2>1. \/ c = "none"
        \/ /\ c \in StatusColumns
           /\ \/ c \in Coded /\ holds = "unknown"
              \/ c \in Timed /\ holds = TooShort
              \/ c = "metadata" /\ holds = NotJson
    BY <1>3, FaultOfInput
  <2> QED
    BY <2>1 DEF Coded, Timed, StatusColumns
<1>5. Write("status", value) = StatusRow(value)
      /\ \A row : ReadBack("status", row) = StatusOf(row)
  BY DEF Write, ReadBack
<1>6. IsRow(StatusRow(value), StatusColumns) /\ StatusOf(StatusRow(value)) = {value}
  BY <1>1, <1>2, StatusReadBack
<1> HIDE DEF value, c, holds
<1>7. CASE c = "none"
  BY <1>5, <1>6, <1>7 DEF RowReadBack, ReadOfInput, value, c
<1>8. CASE c \in Interpreted
  BY <1>8 DEF RowReadBack, Interpreted, c
<1>9. CASE c \notin Interpreted \cup {"none"}
  <2> DEFINE row == [StatusRow(value) EXCEPT ![c] = holds]
  <2>1. c \in StatusColumns /\ c \notin {"monitoring", "state"}
    BY <1>4, <1>9 DEF StatusColumns, Interpreted
  <2>2. IsRow(row, StatusColumns) /\ row[c] = holds
    BY <1>6, <2>1, FaultyRow
  <2> HIDE DEF row
  <2>3. StatusOf(row) = {}
    BY <1>4, <1>9, <2>2, StatusRefused DEF Interpreted
  <2> QED
    BY <1>5, <1>9, <2>1, <2>3 DEF RowReadBack, ReadOfInput, Interpreted, value, c, holds, row
<1> QED
  BY <1>7, <1>8, <1>9

-----------------------------------------------------------------------------
(* The other families of inputs.                                           *)

\* The outcome of a collection changes the attempt, the error and, after a success,
\* the last success of a connection, and nothing else of it, for every connection.
LEMMA AttemptOfConnection ==
  ASSUME NEW x, IsConnection(x), NEW at \in SystemTime, NEW success, NEW error
  PROVE  ConnectionOf(ConnectionResult(ConnectionRow(x), at, success, error))
           = {[x EXCEPT !.last_attempt = <<at>>, !.last_error = error,
                        !.last_success = IF success THEN <<at>> ELSE @]}
<1> DEFINE y == [x EXCEPT !.last_attempt = <<at>>, !.last_error = error,
                          !.last_success = IF success THEN <<at>> ELSE @]
           row == ConnectionResult(ConnectionRow(x), at, success, error)
<1>1. /\ IsRow(y, ConnectionColumns)
      /\ y.last_attempt = <<at>> /\ y.last_error = error
      /\ y.last_success = IF success THEN <<at>> ELSE x.last_success
      /\ \A c \in ConnectionColumns \ {"last_attempt", "last_error", "last_success"} :
           y[c] = x[c]
  BY DEF IsConnection, IsRow, ConnectionColumns
<1> HIDE DEF y
<1>2. <<at>> \in Optionally(SystemTime) /\ EncodeOption(<<at>>) = EncodeTimestamp(at)
  BY DEF Optionally, EncodeOption, Null
<1>3. IsConnection(y)
  BY <1>1, <1>2 DEF IsConnection, ConnectionColumns
<1>4. /\ IsRow(row, ConnectionColumns)
      /\ row.last_attempt = EncodeTimestamp(at) /\ row.last_error = error
      /\ row.last_success = IF success THEN EncodeTimestamp(at)
                            ELSE ConnectionRow(x).last_success
      /\ \A c \in ConnectionColumns \ {"last_attempt", "last_error", "last_success"} :
           row[c] = ConnectionRow(x)[c]
  <2>1. IsRow(ConnectionRow(x), ConnectionColumns)
    BY ConnectionReadBack
  <2> QED
    BY <2>1, Written DEF ConnectionResult, ConnectionColumns
<1> HIDE DEF row
<1>5. /\ ConnectionRow(x).last_success = EncodeOption(x.last_success)
      /\ ConnectionRow(y).last_success = EncodeOption(y.last_success)
      /\ ConnectionRow(y).last_attempt = EncodeOption(y.last_attempt)
      /\ ConnectionRow(y).last_error = y.last_error
  BY <1>3, Written DEF ConnectionRow, IsConnection, ConnectionColumns
<1>6. \A c \in ConnectionColumns \ {"last_attempt", "last_error", "last_success"} :
        ConnectionRow(y)[c] = ConnectionRow(x)[c]
  BY <1>1, <1>3, Written DEF ConnectionRow, IsConnection, ConnectionColumns
<1>7. \A c \in ConnectionColumns : row[c] = ConnectionRow(y)[c]
  BY <1>1, <1>2, <1>4, <1>5, <1>6
<1>8. IsRow(ConnectionRow(y), ConnectionColumns) /\ ConnectionOf(ConnectionRow(y)) = {y}
  BY <1>3, ConnectionReadBack
<1>9. row = ConnectionRow(y)
  BY <1>4, <1>7, <1>8 DEF IsRow
<1> QED
  BY <1>8, <1>9 DEF row, y

\* The same of the inputs.
LEMMA AttemptRows ==
  ASSUME Times \subseteq SystemTime, input \in AttemptInputs
  PROVE  AttemptReadBack
<1>1. /\ input.value \in Values("connections") /\ input.at = 4 /\ input.success \in BOOLEAN
  BY DEF AttemptInputs
<1>2. IsConnection(input.value)
  BY <1>1 DEF Values, IsConnection, IsRow, ConnectionColumns, Times, Optional, Optionally
<1>3. input.at \in SystemTime
  BY <1>1 DEF Times
<1>4. ConnectionOf(ConnectionResult(ConnectionRow(input.value), input.at, input.success,
                                 input.error))
        = {[input.value EXCEPT !.last_attempt = <<input.at>>, !.last_error = input.error,
                               !.last_success = IF input.success THEN <<input.at>> ELSE @]}
  <2> DEFINE x == input.value
             at == input.at
             success == input.success
             error == input.error
  <2>1. IsConnection(x) /\ at \in SystemTime
    BY <1>2, <1>3
  <2> HIDE DEF x, at, success, error
  <2>2. ConnectionOf(ConnectionResult(ConnectionRow(x), at, success, error))
          = {[x EXCEPT !.last_attempt = <<at>>, !.last_error = error,
                       !.last_success = IF success THEN <<at>> ELSE @]}
    BY <2>1, AttemptOfConnection
  <2> QED
    BY <2>2 DEF x, at, success, error
<1> QED
  BY <1>4 DEF AttemptReadBack

\* The columns of the inputs.
LEMMA ColumnRows ==
  ASSUME input \in ColumnInputs
  PROVE  ColumnReadBack
<1>1. PICK k \in Nat : input.bytes \in [1..k -> Byte]
  <2> DEFINE length == 1 + SecondBytes + NanoBytes
  <2>1. length \in Nat /\ length - 1 \in Nat
    BY Widths
  <2>2. input.bytes \in UNION {[1..k -> Byte] : k \in (length - 1)..length}
    BY DEF ColumnInputs
  <2> HIDE DEF length
  <2>3. \A k \in (length - 1)..length : k \in Nat
    BY <2>1
  <2> QED
    BY <2>2, <2>3
<1> QED
  BY <1>1, ColumnReadsBack DEF ColumnReadBack

\* There is a configuration.
LEMMA SomeConfiguration == Values("configuration") # {}
<1> DEFINE v == [monitoring |-> "paused", record_folder |-> Null, schedule_kind |-> "daily",
                 schedule_days |-> 0, local_hour |-> 7, local_minute |-> 30,
                 last_attempt |-> Null, last_success |-> <<0>>, next_run |-> <<4>>,
                 last_error |-> Null, counts |-> [c \in Counts |-> 0], state |-> "idle"]
<1>1. v \in Values("configuration")
  BY DEF Values, MonitoringCode, ScheduleCode, StateCode, Text, Optional, SomeCounts
<1> QED
  BY <1>1

\* A schedule is read back from the configuration it is stored in.
LEMMA ScheduleStored ==
  ASSUME Times \subseteq SystemTime, NEW kind \in ScheduleCode, NEW mask,
         kind # "selected" => mask = 0
  PROVE  LET value == CHOOSE c \in Values("configuration") : TRUE
             stored == [value EXCEPT !.schedule_kind = kind, !.schedule_days = mask]
         IN  /\ ConfigurationOf(ConfigurationRow(stored)) = {stored}
             /\ stored.schedule_kind = kind /\ stored.schedule_days = mask
<1> DEFINE value == CHOOSE c \in Values("configuration") : TRUE
           stored == [value EXCEPT !.schedule_kind = kind, !.schedule_days = mask]
<1>1. IsConfiguration(value)
  BY SomeConfiguration, ConfigurationValues
<1> HIDE DEF value
<1>2. /\ IsRow(stored, ConfigurationColumns)
      /\ stored.schedule_kind = kind /\ stored.schedule_days = mask
      /\ \A c \in ConfigurationColumns \ {"schedule_kind", "schedule_days"} :
           stored[c] = value[c]
  BY <1>1 DEF IsConfiguration, IsRow, ConfigurationColumns
<1> HIDE DEF stored
<1>3. IsConfiguration(stored)
  BY <1>1, <1>2 DEF IsConfiguration, ConfigurationColumns
<1>4. /\ IsRow(ConfigurationRow(stored), ConfigurationColumns)
      /\ ConfigurationRow(stored).monitoring = stored.monitoring
      /\ ConfigurationRow(stored).state = stored.state
  BY <1>2, Written DEF ConfigurationRow, ConfigurationColumns
<1>5. ConfigurationOf(ConfigurationRow(stored)) = {stored}
  BY <1>3, <1>4, ConfigurationReadBack
<1> QED
  BY <1>2, <1>5 DEF stored, value

\* The days a list of items names are the days of the schedule it is parsed as.
LEMMA NamedDays ==
  ASSUME NEW items, NEW s \in ParseSchedule(items)
  PROVE  /\ s.kind \in ScheduleCode /\ (s.kind # "selected" => s.days = 0)
         /\ DaysOf(s.kind, s.days) =
              {d \in Weekday : \E i \in DOMAIN items :
                 \/ items[i] \in {"daily", DayNames[d + 1]}
                 \/ items[i] = "weekdays" /\ d < 5}
<1> DEFINE named == {d \in Weekday : \E i \in DOMAIN items :
                       \/ items[i] \in {"daily", DayNames[d + 1]}
                       \/ items[i] = "weekdays" /\ d < 5}
<1>1. CASE items = <<"daily">>
  <2>1. DOMAIN items = {1} /\ items[1] = "daily"
    BY <1>1
  <2>2. s = [kind |-> "daily", days |-> 0]
    BY <1>1, <2>1 DEF ParseSchedule
  <2>3. named = Weekday
    BY <2>1
  <2> QED
    BY <2>2, <2>3 DEF DaysOf, Daily, ScheduleCode
<1>2. CASE items = <<"weekdays">>
  <2>1. DOMAIN items = {1} /\ items[1] = "weekdays"
    BY <1>2
  <2>2. s = [kind |-> "weekdays", days |-> 0]
    BY <1>2, <2>1 DEF ParseSchedule
  <2>3. \A d \in Weekday : DayNames[d + 1] # "weekdays"
    BY DEF DayNames, Weekday
  <2>4. named = {d \in Weekday : d < 5}
    BY <2>1, <2>3
  <2>5. Weekdays = {d \in Weekday : d < 5}
    BY DEF Weekdays, Weekday
  <2> QED
    BY <2>2, <2>4, <2>5 DEF DaysOf, ScheduleCode
<1>3. CASE items \notin {<<"daily">>, <<"weekdays">>}
  <2> DEFINE D == {d \in Weekday : \E i \in DOMAIN items : items[i] = DayNames[d + 1]}
  <2>1. \A i \in DOMAIN items : \E d \in Weekday : items[i] = DayNames[d + 1]
    BY <1>3 DEF ParseSchedule
  <2>2. s = [kind |-> "selected", days |-> MaskOf(D)]
    BY <1>3, <2>1 DEF ParseSchedule
  <2>3. \A d \in Weekday : DayNames[d + 1] \notin {"daily", "weekdays"}
    BY DEF DayNames, Weekday
  <2>4. named = D
    BY <2>1, <2>3
  <2>5. DaysOf("selected", MaskOf(D)) = D
    BY MaskReadBack
  <2> QED
    BY <2>2, <2>4, <2>5 DEF ScheduleCode
<1> QED
  BY <1>1, <1>2, <1>3

\* The days a user names are those eligible after the schedule was stored.
LEMMA DayRows ==
  ASSUME Times \subseteq SystemTime
  PROVE  DaysReadBack
<1> DEFINE value == CHOOSE c \in Values("configuration") : TRUE
           named == {d \in Weekday : \E i \in DOMAIN input.items :
                       \/ input.items[i] \in {"daily", DayNames[d + 1]}
                       \/ input.items[i] = "weekdays" /\ d < 5}
<1>1. ASSUME NEW s \in ParseSchedule(input.items)
      PROVE  \A c \in ConfigurationOf(ConfigurationRow(
                        [value EXCEPT !.schedule_kind = s.kind, !.schedule_days = s.days])) :
               DaysOf(c.schedule_kind, c.schedule_days) = named
  <2>1. s.kind \in ScheduleCode /\ (s.kind # "selected" => s.days = 0)
        /\ DaysOf(s.kind, s.days) = named
    BY NamedDays
  <2> DEFINE stored == [value EXCEPT !.schedule_kind = s.kind, !.schedule_days = s.days]
  <2>2. /\ ConfigurationOf(ConfigurationRow(stored)) = {stored}
        /\ stored.schedule_kind = s.kind /\ stored.schedule_days = s.days
    BY <2>1, ScheduleStored
  <2> HIDE DEF named, stored
  <2>3. \A c \in ConfigurationOf(ConfigurationRow(stored)) :
          DaysOf(c.schedule_kind, c.schedule_days) = named
    BY <2>1, <2>2
  <2> QED
    BY <2>3 DEF stored
<1> QED
  BY <1>1 DEF DaysReadBack

-----------------------------------------------------------------------------
(* The walk's instants.                                                    *)

\* The walk is long enough to be one, and SystemTime holds its first and last instant.
WalkInstants ==
  /\ Horizon \in Nat /\ Epoch \in Int
  /\ {-Epoch, Horizon - Epoch} \subseteq SystemTime

\* Every instant of the walk is one that SystemTime holds.
LEMMA Instants ==
  ASSUME WalkInstants, NEW n \in 0..Horizon
  PROVE  n - Epoch \in SystemTime
<1> PICK lo \in Int, hi \in Int : SystemTime = lo..hi
  <2>1. LastSecond \in Nat /\ SecondNanos \in Nat
    BY Widths
  <2>2. (LastSecond + 1) * SecondNanos \in Int
    BY <2>1
  <2>3. -(LastSecond + 1) * SecondNanos \in Int
    BY <2>1
  <2> QED
    BY <2>2, <2>3 DEF SystemTime
<1> QED
  BY DEF WalkInstants

\* The walk's clock stays within its horizon.
LEMMA ClockWithin ==
  ASSUME WalkInstants
  PROVE  Spec => [](now \in 0..Horizon)
<1>1. Init => now \in 0..Horizon
  BY DEF WalkInstants, Init, WalkInit
<1>2. now \in 0..Horizon /\ [Next]_vars => (now \in 0..Horizon)'
  BY DEF WalkInstants, Next, Tick, vars, walkVars
<1> QED
  BY <1>1, <1>2, PTL DEF Spec

\* The byte order of encoded timestamps, by which the database sorts, is the order
\* of time, for every base and width of the encoding: nothing is listed out of order
\* because it happened before the epoch or across it.
THEOREM EventsListedInTimeOrder ==
  ASSUME WalkInstants
  PROVE  Spec => ListedInTimeOrder
<1>1. ASSUME now \in 0..Horizon, [Next]_vars
      PROVE  [BytesLess(EncodeTimestamp(Now), EncodeTimestamp(Now'))]_vars
  <2>1. SUFFICES ASSUME Tick PROVE BytesLess(EncodeTimestamp(Now), EncodeTimestamp(Now'))
    BY <1>1 DEF Next, vars
  <2>2. now' = now + 1 /\ now + 1 \in 0..Horizon /\ Horizon \in Nat /\ Epoch \in Int
    BY <1>1, <2>1 DEF Tick, WalkInstants
  <2>3. Now \in SystemTime /\ Now' \in SystemTime
    BY <1>1, <2>2, Instants DEF Now
  <2>4. Now < Now'
    BY <1>1, <2>2 DEF Now
  <2> QED
    BY <2>3, <2>4, BytesFollowTime
<1>2. Spec => [](now \in 0..Horizon)
  BY ClockWithin
<1> QED
  BY <1>1, <1>2, PTL DEF Spec, ListedInTimeOrder

-----------------------------------------------------------------------------

\* The families of inputs are told apart by their name.
LEMMA Families ==
  /\ input \in RowInputs => input.of = "row"
  /\ input \in AttemptInputs => input.of = "attempt"
  /\ input \in ColumnInputs => input.of = "column"
  /\ input \in DayInputs => input.of = "days"
  /\ input \in TreeInputs => input.of = "tree"
  /\ input \in CollectionInputs => input.of = "collection"
  /\ input \in CommandInputs => input.of = "command"
<1>1. input \in RowInputs => input.of = "row"
  BY DEF RowInputs
<1>2. input \in AttemptInputs => input.of = "attempt"
  BY DEF AttemptInputs
<1>3. input \in ColumnInputs => input.of = "column"
  BY DEF ColumnInputs
<1>4. input \in DayInputs => input.of = "days"
  BY DEF DayInputs
<1>5. input \in TreeInputs => input.of = "tree"
  BY DEF TreeInputs
<1>6. input \in CollectionInputs => input.of = "collection"
  BY DEF CollectionInputs
<1>7. input \in CommandInputs => input.of = "command"
  BY DEF CommandInputs
<1> QED
  BY <1>1, <1>2, <1>3, <1>4, <1>5, <1>6, <1>7

InputsReadBack ==
  /\ Of("row") => RowReadBack
  /\ Of("attempt") => AttemptReadBack
  /\ Of("column") => ColumnReadBack
  /\ Of("days") => DaysReadBack

\* The rows of all six tables.
LEMMA RowInputsReadBack ==
  ASSUME Times \subseteq SystemTime, input \in RowInputs
  PROVE  RowReadBack
  BY RowOfInput, EventRows, AnnotationRows, SourceRows, ConnectionRows, ConfigurationRows,
     StatusRows

GivenInput ==
  \/ input = [of |-> "walk"]
  \/ input \in RowInputs \/ input \in AttemptInputs
  \/ input \in ColumnInputs \/ input \in DayInputs
  \/ input \in TreeInputs \/ input \in CollectionInputs \/ input \in CommandInputs

\* Whatever the input is, it is read back.
LEMMA GivenInputs ==
  ASSUME Times \subseteq SystemTime, GivenInput
  PROVE  InputsReadBack
<1>1. CASE input = [of |-> "walk"]
  <2>1. input.of = "walk"
    BY <1>1
  <2> QED
    BY <2>1 DEF InputsReadBack, Of
<1>2. CASE input # [of |-> "walk"]
  BY <1>2, Families, RowInputsReadBack, AttemptRows, ColumnRows, DayRows
     DEF InputsReadBack, Of, GivenInput
<1> QED
  BY <1>1, <1>2

\* What the store writes it reads back as it was, and what it cannot read it refuses
\* in every column but the switch and the state, which it interprets, for every base,
\* width and number of values of the encodings.
THEOREM RowsReadBackAlways ==
  ASSUME WalkInstants, Times \subseteq SystemTime
  PROVE  Spec => []RowsReadBack
<1>1. Init => GivenInput
  BY DEF Init, GivenInput
<1>2. GivenInput /\ [Next]_vars => GivenInput'
  BY DEF Next, vars, GivenInput
<1>3. now \in 0..Horizon /\ GivenInput => RowsReadBack
  <2>1. now \in 0..Horizon => DecodeTimestamp(EncodeTimestamp(Now)) = {Now}
    BY Instants, TimestampReadBack DEF Now
  <2> QED
    BY <2>1, GivenInputs DEF InputsReadBack, RowsReadBack
<1>4. Spec => [](now \in 0..Horizon)
  BY ClockWithin
<1> QED
  BY <1>1, <1>2, <1>3, <1>4, PTL DEF Spec

-----------------------------------------------------------------------------
(* Commands.                                                               *)

Check == {"switch", "options", "required", "parsed", "usage"}
IsScript(script) ==
  \E Step : script \in Seq(Step) /\ \A s \in Step : s.do \in Check \cup {"effect"}

\* Scripts that change nothing, that do nothing but change, and that look at
\* everything before they change anything.  Opening the database is no change.
Harmless(script) ==
  IsScript(script) /\ \A i \in 1..Len(script) :
    script[i].do = "effect" => script[i].of = "open"
Effective(script) ==
  IsScript(script) /\ \A i \in 1..Len(script) : script[i].do = "effect"
ChecksFirst(script) ==
  IsScript(script) /\ \A i \in 1..Len(script), j \in 1..Len(script) :
    i < j /\ script[i].do = "effect" /\ script[j].do # "effect" => script[i].of = "open"

\* A script of a single step.
LEMMA SingleStep ==
  ASSUME NEW s, s.do \in Check \cup {"effect"}
  PROVE  /\ s.do # "effect" \/ s.of = "open" => Harmless(<<s>>)
         /\ s.do = "effect" => Effective(<<s>>)
<1>1. <<s>> \in Seq({s}) /\ Len(<<s>>) = 1 /\ <<s>>[1] = s
  OBVIOUS
<1>2. IsScript(<<s>>)
  <2> DEFINE S == {s}
  <2>1. <<s>> \in Seq(S) /\ \A x \in S : x.do \in Check \cup {"effect"}
    BY <1>1
  <2> HIDE DEF S
  <2> QED
    BY <2>1 DEF IsScript
<1>3. \A i \in 1..Len(<<s>>) : i = 1
  BY <1>1
<1>4. \A i \in 1..Len(<<s>>) : <<s>>[i] = s
  BY <1>1, <1>3
<1> HIDE DEF IsScript
<1> QED
  BY <1>2, <1>4 DEF Harmless, Effective

\* The scripts that the others are put together from.
LEMMA SingleSteps ==
  ASSUME NEW name
  PROVE  /\ Harmless(Switch(name)) /\ Harmless(Required(name)) /\ Harmless(Parsed(name))
         /\ Harmless(Options(name)) /\ Harmless(Usage) /\ Harmless(Effect("open"))
         /\ Effective(Effect(name))
<1>1. ASSUME NEW d \in Check, NEW o PROVE Harmless(<<[do |-> d, of |-> o]>>)
  <2>1. [do |-> d, of |-> o].do = d /\ d # "effect"
    BY DEF Check
  <2> QED
    BY <2>1, SingleStep
<1>2. ASSUME NEW o
      PROVE  /\ Effective(<<[do |-> "effect", of |-> o]>>)
             /\ o = "open" => Harmless(<<[do |-> "effect", of |-> o]>>)
  <2>1. [do |-> "effect", of |-> o].do = "effect" /\ [do |-> "effect", of |-> o].of = o
    OBVIOUS
  <2> QED
    BY <2>1, SingleStep
<1>3. \A d \in {"switch", "options", "required", "parsed", "usage"} : d \in Check
  BY DEF Check
<1> QED
  BY <1>1, <1>2, <1>3 DEF Switch, Required, Parsed, Options, Usage, Effect

\* The steps of one script after those of another.
LEMMA Concatenation ==
  ASSUME NEW s, NEW t, IsScript(s), IsScript(t)
  PROVE  /\ IsScript(s \o t)
         /\ Len(s) \in Nat /\ Len(t) \in Nat /\ Len(s \o t) = Len(s) + Len(t)
         /\ \A i \in 1..Len(s) : (s \o t)[i] = s[i]
         /\ \A i \in 1..(Len(s) + Len(t)) :
              i > Len(s) => (s \o t)[i] = t[i - Len(s)] /\ i - Len(s) \in 1..Len(t)
<1>1. PICK S : s \in Seq(S) /\ \A x \in S : x.do \in Check \cup {"effect"}
  BY DEF IsScript
<1>2. PICK T : t \in Seq(T) /\ \A x \in T : x.do \in Check \cup {"effect"}
  BY DEF IsScript
<1>3. s \in Seq(S \cup T) /\ t \in Seq(S \cup T)
  BY <1>1, <1>2, SeqMonotonic
<1>4. Len(s) \in Nat /\ Len(t) \in Nat
  BY <1>1, <1>2, LenProperties
<1>5. s \o t \in Seq(S \cup T) /\ Len(s \o t) = Len(s) + Len(t)
      /\ \A i \in 1..(Len(s) + Len(t)) :
           (s \o t)[i] = IF i <= Len(s) THEN s[i] ELSE t[i - Len(s)]
  BY <1>3, ConcatProperties
<1>6. IsScript(s \o t)
  BY <1>1, <1>2, <1>5 DEF IsScript
<1> QED
  BY <1>4, <1>5, <1>6

\* Harmless scripts one after the other are harmless.
LEMMA HarmlessThenHarmless ==
  ASSUME NEW s, NEW t, Harmless(s), Harmless(t)
  PROVE  Harmless(s \o t)
<1>1. IsScript(s) /\ IsScript(t)
  BY DEF Harmless
<1>2. ASSUME NEW i \in 1..Len(s \o t), (s \o t)[i].do = "effect"
      PROVE  (s \o t)[i].of = "open"
  <2>1. CASE i <= Len(s)
    BY <1>1, <1>2, <2>1, Concatenation DEF Harmless
  <2>2. CASE i > Len(s)
    BY <1>1, <1>2, <2>2, Concatenation DEF Harmless
  <2> QED
    BY <1>1, <2>1, <2>2, Concatenation
<1> QED
  BY <1>1, <1>2, Concatenation DEF Harmless

\* A script that changes nothing has no check after a change.
LEMMA HarmlessChecksFirst ==
  ASSUME NEW s, Harmless(s)
  PROVE  ChecksFirst(s)
  BY DEF Harmless, ChecksFirst

\* Changes at the end of a script leave its checks first.
LEMMA EffectsLast ==
  ASSUME NEW s, NEW t, ChecksFirst(s), Effective(t)
  PROVE  ChecksFirst(s \o t)
<1>1. IsScript(s) /\ IsScript(t)
  BY DEF ChecksFirst, Effective
<1>2. ASSUME NEW i \in 1..Len(s \o t), NEW j \in 1..Len(s \o t), i < j,
             (s \o t)[i].do = "effect", (s \o t)[j].do # "effect"
      PROVE  (s \o t)[i].of = "open"
  <2>1. j <= Len(s)
    BY <1>1, <1>2, Concatenation DEF Effective
  <2>2. i \in 1..Len(s) /\ j \in 1..Len(s)
    BY <1>1, <1>2, <2>1, Concatenation
  <2> QED
    BY <1>1, <1>2, <2>2, Concatenation DEF ChecksFirst
<1> QED
  BY <1>1, <1>2, Concatenation DEF ChecksFirst

\* Looking at the options and opening the database changes nothing.
LEMMA DatabaseFirst == Harmless(OpenDatabase) /\ Harmless(OnDatabase)
<1>1. Harmless(OpenDatabase)
  BY SingleSteps, HarmlessThenHarmless DEF OpenDatabase
<1> QED
  BY <1>1, SingleSteps, HarmlessThenHarmless DEF OnDatabase

\* Every command looks at all it was given before it changes anything.
LEMMA ScriptsCheckFirst ==
  ASSUME NEW command, NEW arguments
  PROVE  ChecksFirst(Script(command, arguments))
<1>1. /\ Harmless(Usage) /\ Harmless(OnDatabase) /\ Harmless(OpenDatabase)
      /\ Harmless(EventsScript)
  BY SingleSteps, DatabaseFirst, HarmlessThenHarmless DEF EventsScript
<1>2. \A e : ChecksFirst(OnDatabase \o Effect(e))
  BY <1>1, SingleSteps, HarmlessChecksFirst, EffectsLast
<1>3. ChecksFirst(InitScript)
  <2>1. Harmless(Options({"db"}) \o Required("db"))
    BY SingleSteps, HarmlessThenHarmless
  <2>2. ChecksFirst(Options({"db"}) \o Required("db") \o Effect("directories"))
    BY <2>1, SingleSteps, HarmlessChecksFirst, EffectsLast
  <2> QED
    BY <2>2, SingleSteps, EffectsLast DEF InitScript
<1>4. ChecksFirst(ImportScript)
  <2>1. Harmless(Options({"repo", "db"}) \o Required("repo"))
    BY SingleSteps, HarmlessThenHarmless
  <2>2. Harmless(Options({"repo", "db"}) \o Required("repo") \o OpenDatabase)
    BY <1>1, <2>1, HarmlessThenHarmless
  <2> QED
    BY <2>2, SingleSteps, HarmlessChecksFirst, EffectsLast DEF ImportScript
<1>5. ChecksFirst(UpdateRecordScript)
  <2>1. Harmless(Switch("force") \o OnDatabase)
    BY <1>1, SingleSteps, HarmlessThenHarmless
  <2> QED
    BY <2>1, SingleSteps, HarmlessChecksFirst, EffectsLast DEF UpdateRecordScript
<1>6. ChecksFirst(GenerateScript)
  <2>1. Harmless(Options({"db", "folder", "date"}) \o OpenDatabase)
    BY <1>1, SingleSteps, HarmlessThenHarmless
  <2>2. Harmless(Options({"db", "folder", "date"}) \o OpenDatabase \o Required("folder"))
    BY <2>1, SingleSteps, HarmlessThenHarmless
  <2>3. Harmless(Options({"db", "folder", "date"}) \o OpenDatabase \o Required("folder")
                   \o Parsed("date"))
    BY <2>2, SingleSteps, HarmlessThenHarmless
  <2> QED
    BY <2>3, SingleSteps, HarmlessChecksFirst, EffectsLast DEF GenerateScript
<1>7. ChecksFirst(SetScheduleScript)
  <2>1. Harmless(Options({"time", "days", "db"}) \o OpenDatabase)
    BY <1>1, SingleSteps, HarmlessThenHarmless
  <2>2. Harmless(Options({"time", "days", "db"}) \o OpenDatabase \o Required("time"))
    BY <2>1, SingleSteps, HarmlessThenHarmless
  <2>3. Harmless(Options({"time", "days", "db"}) \o OpenDatabase \o Required("time")
                   \o Parsed("time"))
    BY <2>2, SingleSteps, HarmlessThenHarmless
  <2>4. Harmless(Options({"time", "days", "db"}) \o OpenDatabase \o Required("time")
                   \o Parsed("time") \o Required("days"))
    BY <2>3, SingleSteps, HarmlessThenHarmless
  <2>5. Harmless(Options({"time", "days", "db"}) \o OpenDatabase \o Required("time")
                   \o Parsed("time") \o Required("days") \o Parsed("days"))
    BY <2>4, SingleSteps, HarmlessThenHarmless
  <2> QED
    BY <2>5, SingleSteps, HarmlessChecksFirst, EffectsLast DEF SetScheduleScript
<1>8. ChecksFirst(Options({"root", "db"}) \o OpenDatabase \o Required("root")
                    \o Effect("sources"))
  <2>1. Harmless(Options({"root", "db"}) \o OpenDatabase)
    BY <1>1, SingleSteps, HarmlessThenHarmless
  <2>2. Harmless(Options({"root", "db"}) \o OpenDatabase \o Required("root"))
    BY <2>1, SingleSteps, HarmlessThenHarmless
  <2> QED
    BY <2>2, SingleSteps, HarmlessChecksFirst, EffectsLast
<1>9. ChecksFirst(Options({"folder", "db"}) \o Required("folder") \o OpenDatabase
                    \o Effect("configuration"))
  <2>1. Harmless(Options({"folder", "db"}) \o Required("folder"))
    BY SingleSteps, HarmlessThenHarmless
  <2>2. Harmless(Options({"folder", "db"}) \o Required("folder") \o OpenDatabase)
    BY <1>1, <2>1, HarmlessThenHarmless
  <2> QED
    BY <2>2, SingleSteps, HarmlessChecksFirst, EffectsLast
<1>10. ChecksFirst(Options({"folder"}) \o Required("folder") \o Effect("folder shown"))
  <2>1. Harmless(Options({"folder"}) \o Required("folder"))
    BY SingleSteps, HarmlessThenHarmless
  <2> QED
    BY <2>1, SingleSteps, HarmlessChecksFirst, EffectsLast
<1>11. ChecksFirst(OnDatabase) /\ ChecksFirst(Usage) /\ ChecksFirst(EventsScript)
  BY <1>1, HarmlessChecksFirst
<1>12. CASE command \in Bare
  <2>1. ChecksFirst(BareScript(command))
    BY <1>2, <1>3, <1>5, <1>8, <1>11, <1>12 DEF Bare, BareScript
  <2> QED
    BY <1>12, <2>1 DEF Script
<1>13. CASE command \notin Bare /\ command \in Identified
  <2>1. ChecksFirst(IdentifiedScript(command, arguments[1]))
    BY <1>2, <1>11 DEF IdentifiedScript, EventScript
  <2> QED
    BY <1>11, <1>13, <2>1 DEF Script
<1>14. CASE command \notin Bare /\ command \notin Identified
  <2>1. \A word \in Words(command) : ChecksFirst(WordScript(command, word))
    BY <1>2, <1>4, <1>6, <1>7, <1>9, <1>10, <1>11 DEF Words, WordScript
  <2> QED
    BY <1>11, <1>14, <2>1 DEF Script
<1> QED
  BY <1>12, <1>13, <1>14

\* What a script has done after each of its steps.
LEMMA OutcomeDefined ==
  ASSUME NEW command, NEW arguments, NEW n \in Nat, Len(Script(command, arguments)) = n
  PROVE  \E tokens, f :
           /\ f = [i \in 0..n |-> IF i = 0 THEN Begun(tokens)
                                  ELSE IF f[i - 1].refused THEN f[i - 1]
                                  ELSE Execute(f[i - 1], Script(command, arguments)[i])]
           /\ Outcome(command, arguments) = f[n]
<1> DEFINE script == Script(command, arguments)
           tokens == IF command \in Bare \/ arguments = <<>> THEN arguments
                     ELSE Tail(arguments)
           After(g, i) == IF i = 0 THEN Begun(tokens)
                          ELSE IF g[i - 1].refused THEN g[i - 1]
                          ELSE Execute(g[i - 1], script[i])
           Recurs(g, k) == g = [i \in 0..k |-> After(g, i)]
           S == {k \in 0..n : \E g : Recurs(g, k)}
<1>1. 0 \in S
  <2> DEFINE g == [i \in 0..0 |-> Begun(tokens)]
  <2>1. \A i \in 0..0 : g[i] = After(g, i)
    OBVIOUS
  <2>2. Recurs(g, 0)
    BY <2>1
  <2> HIDE DEF Recurs, g
  <2> QED
    BY <2>2
<1>2. ASSUME NEW k \in 0..(n - 1), k \in S PROVE k + 1 \in S
  <2>1. PICK g : Recurs(g, k)
    BY <1>2
  <2> DEFINE h == [i \in 0..(k + 1) |-> After(g, i)]
  <2>2. \A i \in 0..(k + 1) : i # 0 => i - 1 \in 0..k
    OBVIOUS
  <2>3. \A i \in 0..k : h[i] = g[i]
    BY <2>1
  <2>4. \A i \in 0..(k + 1) : h[i] = After(h, i)
    BY <2>2, <2>3
  <2>5. Recurs(h, k + 1)
    BY <2>4
  <2> HIDE DEF Recurs, h
  <2> QED
    BY <2>5
<1>3. 0..n \subseteq S
  <2> HIDE DEF S
  <2> QED
    BY <1>1, <1>2, UpTo
<1>4. \E g : Recurs(g, n)
  BY <1>3
<1> DEFINE after == CHOOSE g : g = [i \in 0..Len(script) |-> After(g, i)]
<1>5. after = [i \in 0..Len(script) |-> After(after, i)]
  BY <1>4
<1>6. Outcome(command, arguments) = after[Len(script)]
  BY DEF Outcome
<1> HIDE DEF after
<1> QED
  BY <1>5, <1>6

\* A step that is an effect adds it and refuses nothing; a check has no effect.
LEMMA StepTaken ==
  ASSUME NEW run, NEW step, step.do \in Check \cup {"effect"},
         {"tokens", "options", "effects", "refused"} \subseteq DOMAIN run,
         ~run.refused
  PROVE  LET next == Execute(run, step)
         IN  /\ {"tokens", "options", "effects", "refused"} \subseteq DOMAIN next
             /\ step.do = "effect" => /\ next.effects = run.effects \cup {step.of}
                                      /\ ~next.refused
             /\ step.do # "effect" => next.effects = run.effects
<1> DEFINE next == Execute(run, step)
           Keeps(r) == {"tokens", "options", "effects", "refused"} \subseteq DOMAIN r
                       /\ r.effects = run.effects
<1>1. ASSUME NEW x PROVE Keeps([run EXCEPT !.refused = x])
  OBVIOUS
<1>2. ASSUME NEW x PROVE Keeps([run EXCEPT !.options = x])
  OBVIOUS
<1>3. ASSUME NEW x, NEW y PROVE Keeps([run EXCEPT !.tokens = x, !.refused = y])
  OBVIOUS
<1>4. CASE step.do = "switch"
  <2>1. PICK x, y : next = [run EXCEPT !.tokens = x, !.refused = y]
    BY <1>4 DEF Execute
  <2> HIDE DEF next
  <2>2. Keeps(next)
    BY <2>1
  <2> QED
    BY <1>4, <2>2 DEF next, Keeps
<1>5. CASE step.do = "options"
  <2>1. (\E x : next = [run EXCEPT !.refused = x]) \/ (\E x : next = [run EXCEPT !.options = x])
    BY <1>5 DEF Execute
  <2> HIDE DEF next, Keeps
  <2>2. Keeps(next)
    BY <1>1, <1>2, <2>1
  <2> QED
    BY <1>5, <2>2 DEF next, Keeps
<1>6. CASE step.do \in {"required", "parsed", "usage"}
  <2>1. \E x : next = [run EXCEPT !.refused = x]
    BY <1>6 DEF Execute
  <2> HIDE DEF next, Keeps
  <2>2. Keeps(next)
    BY <1>1, <2>1
  <2> QED
    BY <1>6, <2>2 DEF next, Keeps
<1>7. CASE step.do = "effect"
  <2>1. next = [run EXCEPT !.effects = @ \cup {step.of}]
    BY <1>7 DEF Execute
  <2> QED
    BY <1>7, <2>1
<1> QED
  BY <1>4, <1>5, <1>6, <1>7 DEF Check

\* Whatever the command line, a refusal comes before the first change.
LEMMA RefusedBeforeChange ==
  ASSUME NEW command, NEW arguments
  PROVE  LET outcome == Outcome(command, arguments)
         IN  outcome.refused => outcome.effects \subseteq {"open"}
<1> DEFINE script == Script(command, arguments)
           n == Len(script)
           Done(i) == {script[j].of : j \in {k \in 1..i : script[k].do = "effect"}}
<1>1. /\ IsScript(script) /\ n \in Nat
      /\ \A i \in 1..n : script[i].do \in Check \cup {"effect"}
      /\ \A i \in 1..n, j \in 1..n :
           i < j /\ script[i].do = "effect" /\ script[j].do # "effect"
             => script[i].of = "open"
  <2>1. ChecksFirst(script)
    BY ScriptsCheckFirst
  <2> HIDE DEF script
  <2>2. PICK S : script \in Seq(S) /\ \A s \in S : s.do \in Check \cup {"effect"}
    BY <2>1 DEF ChecksFirst, IsScript
  <2>3. n \in Nat /\ \A i \in 1..n : script[i] \in S
    BY <2>2, LenProperties, ElementOfSeq
  <2> QED
    BY <2>1, <2>2, <2>3 DEF ChecksFirst
<1>2. PICK tokens, f :
        /\ f = [i \in 0..n |-> IF i = 0 THEN Begun(tokens)
                               ELSE IF f[i - 1].refused THEN f[i - 1]
                               ELSE Execute(f[i - 1], script[i])]
        /\ Outcome(command, arguments) = f[n]
  BY <1>1, OutcomeDefined
<1> HIDE DEF script
<1> DEFINE S == {i \in 0..n :
                   /\ {"tokens", "options", "effects", "refused"} \subseteq DOMAIN f[i]
                   /\ f[i].effects \subseteq Done(i)
                   /\ f[i].refused => f[i].effects \subseteq {"open"}}
<1>3. 0 \in S
  <2>1. f[0] = Begun(tokens)
    BY <1>1, <1>2
  <2> QED
    BY <1>1, <2>1 DEF Begun
<1>4. ASSUME NEW k \in 0..(n - 1), k \in S PROVE k + 1 \in S
  <2>1. k + 1 \in 1..n /\ k + 1 \in 0..n /\ k + 1 # 0 /\ (k + 1) - 1 = k
    BY <1>1
  <2>2. f[k + 1] = IF f[k].refused THEN f[k] ELSE Execute(f[k], script[k + 1])
    BY <1>2, <2>1
  <2>3. Done(k) \subseteq Done(k + 1)
    BY <2>1
  <2>4. CASE f[k].refused
    BY <1>4, <2>1, <2>2, <2>3, <2>4
  <2>5. CASE ~f[k].refused
    <3>1. /\ {"tokens", "options", "effects", "refused"} \subseteq DOMAIN f[k + 1]
          /\ script[k + 1].do = "effect" =>
               /\ f[k + 1].effects = f[k].effects \cup {script[k + 1].of}
               /\ ~f[k + 1].refused
          /\ script[k + 1].do # "effect" => f[k + 1].effects = f[k].effects
      BY <1>1, <1>4, <2>1, <2>2, <2>5, StepTaken
    <3>2. CASE script[k + 1].do = "effect"
      <4>1. script[k + 1].of \in Done(k + 1)
        BY <2>1, <3>2
      <4> QED
        BY <1>4, <2>1, <2>3, <3>1, <3>2, <4>1
    <3>3. CASE script[k + 1].do # "effect"
      <4>1. Done(k) \subseteq {"open"}
        BY <1>1, <2>1, <3>3
      <4> QED
        BY <1>4, <2>1, <2>3, <3>1, <3>3, <4>1
    <3> QED
      BY <3>2, <3>3
  <2> QED
    BY <2>4, <2>5
<1>5. 0..n \subseteq S
  <2> HIDE DEF S
  <2> QED
    BY <1>1, <1>3, <1>4, UpTo
<1>6. n \in S
  BY <1>1, <1>5
<1> QED
  BY <1>2, <1>6

\* A command refused for the way it is written has at most opened the database
\* (RefusedBeforeChange, which holds for every list of arguments).
THEOREM RefusedChangesNothing == Spec => []RefusedCommandsChangeNothing
<1>1. RefusedCommandsChangeNothing
  BY RefusedBeforeChange DEF RefusedCommandsChangeNothing
<1> QED
  BY <1>1, PTL

-----------------------------------------------------------------------------
(* Trees of directories.                                                   *)

\* Entries are numbered, and a directory before what it contains.
Numbered == \E last \in Nat : Node \subseteq 0..last
IsTree(tree) ==
  /\ tree.parent \in [Entry -> Node]
  /\ \A e \in Entry : tree.parent[e] < e
  /\ tree.kind \in [Node -> EntryKind]

\* An entry lies in its parent and in what that lies in.
LEMMA AboveDefined ==
  ASSUME Numbered, NEW tree, IsTree(tree), NEW n \in Node
  PROVE  Above(tree, n) =
           IF n = Top THEN {} ELSE {tree.parent[n]} \cup Above(tree, tree.parent[n])
<1>1. PICK last \in Nat : Node \subseteq 0..last
  BY DEF Numbered
<1>9. Node \subseteq Nat
  BY DEF Numbered
<1> DEFINE Containing(g, m) == IF m = Top THEN {} ELSE {tree.parent[m]} \cup g[tree.parent[m]]
           Recurs(g, k) == g = [m \in Node \cap (0..k) |-> Containing(g, m)]
           S == {k \in 0..last : \E g : Recurs(g, k)}
<1>2. \A m \in Node : m # Top => tree.parent[m] \in Node /\ tree.parent[m] < m
  BY DEF IsTree, Node
<1>3. 0 \in S
  <2> DEFINE g == [m \in Node \cap (0..0) |-> {}]
  <2>1. ASSUME NEW m \in Node \cap (0..0) PROVE m = Top
    <3>1. m = 0 /\ m \in Node
      OBVIOUS
    <3>2. tree.parent[m] \notin Nat \/ ~(tree.parent[m] < 0)
      OBVIOUS
    <3> QED
      BY <1>2, <1>9, <3>1, <3>2
  <2>2. Recurs(g, 0)
    BY <2>1
  <2> HIDE DEF Recurs, g
  <2> QED
    BY <1>1, <2>2
<1>4. ASSUME NEW k \in 0..(last - 1), k \in S PROVE k + 1 \in S
  <2>1. PICK g : Recurs(g, k)
    BY <1>4
  <2> DEFINE h == [m \in Node \cap (0..(k + 1)) |-> Containing(g, m)]
  <2>2. ASSUME NEW m \in Node \cap (0..(k + 1)), m # Top
        PROVE  tree.parent[m] \in Node \cap (0..k)
    <3>1. tree.parent[m] \in Node /\ tree.parent[m] < m
      BY <1>2, <2>2
    <3>2. tree.parent[m] \in Nat
      BY <1>9, <3>1
    <3>3. k \in Nat /\ m \in 0..(k + 1)
      BY <1>1
    <3>4. tree.parent[m] \in 0..k
      BY <3>1, <3>2, <3>3
    <3> QED
      BY <3>1, <3>4
  <2>3. \A m \in Node \cap (0..k) : m \in 0..(k + 1) /\ h[m] = g[m]
    <3>1. \A m \in 0..k : m \in 0..(k + 1)
      OBVIOUS
    <3> QED
      BY <2>1, <3>1
  <2>4. \A m \in Node \cap (0..(k + 1)) : h[m] = Containing(h, m)
    BY <2>2, <2>3
  <2>5. Recurs(h, k + 1)
    BY <2>4
  <2> HIDE DEF Recurs, h
  <2> QED
    BY <1>1, <2>5
<1>5. 0..last \subseteq S
  <2> HIDE DEF S
  <2> QED
    BY <1>1, <1>3, <1>4, UpTo
<1>6. \E g : g = [m \in Node |-> Containing(g, m)]
  <2>0. last \in S
    <3> HIDE DEF S
    <3>1. last \in 0..last
      BY <1>1
    <3> QED
      BY <1>5, <3>1
  <2>1. PICK g : Recurs(g, last)
    BY <2>0
  <2> DEFINE D == Node \cap (0..last)
  <2>2. D = Node
    BY <1>1
  <2>3. g = [m \in D |-> Containing(g, m)]
    BY <2>1
  <2> HIDE DEF D, Containing
  <2>4. g = [m \in Node |-> Containing(g, m)]
    BY <2>2, <2>3
  <2> QED
    BY <2>4
<1> DEFINE above == CHOOSE g : g = [m \in Node |-> Containing(g, m)]
<1>7. above = [m \in Node |-> Containing(above, m)]
  BY <1>6
<1>8. \A m : Above(tree, m) = above[m]
  BY DEF Above
<1> HIDE DEF above
<1>10. above[n] = Containing(above, n)
  BY <1>7
<1> QED
  BY <1>8, <1>10

\* Of a set of entries, one comes before all others.
LEMMA FirstEntry ==
  ASSUME Numbered, NEW bad, bad \subseteq Node, bad # {}
  PROVE  \E m \in bad : \A k \in Node : k < m => k \notin bad
<1>1. Node \subseteq Nat
  BY DEF Numbered
<1>2. PICK m \in bad : \A k \in bad : m <= k
  BY <1>1, LeastNatural
<1>3. ASSUME NEW k \in Node, k < m PROVE k \notin bad
  <2>1. m \in Nat /\ k \in Nat
    BY <1>1
  <2> QED
    BY <1>2, <1>3, <2>1
<1> QED
  BY <1>3

\* What an entry lies in comes before it.
LEMMA AboveIsBefore ==
  ASSUME Numbered, NEW tree, IsTree(tree), NEW n \in Node, NEW a \in Above(tree, n)
  PROVE  a \in Node /\ a < n
<1> DEFINE bad == {m \in Node : \E b \in Above(tree, m) : ~(b \in Node /\ b < m)}
<1> SUFFICES ASSUME bad # {} PROVE FALSE
  OBVIOUS
<1>0. bad \subseteq Node
  OBVIOUS
<1>1. Node \subseteq Nat
  BY DEF Numbered
<1>2. PICK m \in bad : \A k \in Node : k < m => k \notin bad
  <2> HIDE DEF bad
  <2> QED
    BY <1>0, FirstEntry
<1>3. PICK b \in Above(tree, m) : ~(b \in Node /\ b < m)
  OBVIOUS
<1>4. m # Top /\ b \in {tree.parent[m]} \cup Above(tree, tree.parent[m])
  BY AboveDefined
<1>5. tree.parent[m] \in Node /\ tree.parent[m] < m
  BY <1>4 DEF IsTree, Node
<1>6. tree.parent[m] \notin bad
  BY <1>2, <1>5
<1>7. b \in Node /\ (b = tree.parent[m] \/ b < tree.parent[m])
  BY <1>4, <1>5, <1>6
<1>8. b \in Nat /\ m \in Nat /\ tree.parent[m] \in Nat
  BY <1>0, <1>1, <1>5, <1>7
<1> QED
  BY <1>3, <1>5, <1>7, <1>8

\* What contains what contains an entry contains the entry.
LEMMA AboveTransitive ==
  ASSUME Numbered, NEW tree, IsTree(tree), NEW n \in Node, NEW b \in Above(tree, n),
         NEW a \in Above(tree, b)
  PROVE  a \in Above(tree, n)
<1> DEFINE bad == {m \in Node :
                     \E y \in Above(tree, m) : ~(Above(tree, y) \subseteq Above(tree, m))}
<1> SUFFICES ASSUME bad # {} PROVE FALSE
  OBVIOUS
<1>0. bad \subseteq Node
  OBVIOUS
<1>1. Node \subseteq Nat
  BY DEF Numbered
<1>2. PICK m \in bad : \A k \in Node : k < m => k \notin bad
  <2> HIDE DEF bad
  <2> QED
    BY <1>0, FirstEntry
<1>3. PICK y \in Above(tree, m) : ~(Above(tree, y) \subseteq Above(tree, m))
  OBVIOUS
<1>4. m # Top /\ Above(tree, m) = {tree.parent[m]} \cup Above(tree, tree.parent[m])
  BY AboveDefined
<1>5. tree.parent[m] \in Node /\ tree.parent[m] < m
  BY <1>4 DEF IsTree, Node
<1>6. tree.parent[m] \notin bad
  BY <1>2, <1>5
<1> QED
  BY <1>3, <1>4, <1>5, <1>6

\* Of two directories an entry lies in, one lies in the other.
LEMMA AboveLinear ==
  ASSUME Numbered, NEW tree, IsTree(tree), NEW n \in Node,
         NEW a \in Above(tree, n), NEW b \in Above(tree, n), a # b
  PROVE  a \in Above(tree, b) \/ b \in Above(tree, a)
<1> DEFINE bad == {m \in Node : \E x, y \in Above(tree, m) :
                     x # y /\ x \notin Above(tree, y) /\ y \notin Above(tree, x)}
<1> SUFFICES ASSUME bad # {} PROVE FALSE
  OBVIOUS
<1>0. bad \subseteq Node
  OBVIOUS
<1>1. Node \subseteq Nat
  BY DEF Numbered
<1>2. PICK m \in bad : \A k \in Node : k < m => k \notin bad
  <2> HIDE DEF bad
  <2> QED
    BY <1>0, FirstEntry
<1>3. m # Top /\ Above(tree, m) = {tree.parent[m]} \cup Above(tree, tree.parent[m])
  BY AboveDefined
<1>4. tree.parent[m] \in Node /\ tree.parent[m] < m
  BY <1>3 DEF IsTree, Node
<1>5. tree.parent[m] \notin bad
  BY <1>2, <1>4
<1> QED
  BY <1>3, <1>4, <1>5

\* What lies between a directory and an entry in it.
Between(tree, d, e) == {a \in Above(tree, e) : d \in Above(tree, a)}

\* Nothing lies between a directory and what it lists.
LEMMA NothingBetween ==
  ASSUME Numbered, NEW tree, IsTree(tree), NEW c \in Entry
  PROVE  /\ tree.parent[c] \in Above(tree, c)
         /\ Between(tree, tree.parent[c], c) = {}
         /\ Cardinality(Between(tree, tree.parent[c], c)) = 0
<1> DEFINE d == tree.parent[c]
<1>1. c \in Node /\ c # Top /\ d \in Node
  BY DiscoveryAssumption DEF IsTree, Node
<1>2. Above(tree, c) = {d} \cup Above(tree, d)
  BY <1>1, AboveDefined
<1>3. Node \subseteq Nat
  BY DEF Numbered
<1> HIDE DEF d
<1>4. \A a \in {d} \cup Above(tree, d) : d \notin Above(tree, a)
  <2> SUFFICES ASSUME NEW a \in {d} \cup Above(tree, d), d \in Above(tree, a) PROVE FALSE
    OBVIOUS
  <2>1. a \in Node /\ (a = d \/ a < d)
    BY <1>1, AboveIsBefore
  <2>2. d < a
    BY <2>1, AboveIsBefore
  <2> QED
    BY <1>1, <1>3, <2>1, <2>2
<1>5. Between(tree, d, c) = {}
  BY <1>2, <1>4 DEF Between
<1> QED
  BY <1>2, <1>5, FS_EmptySet DEF d

\* Between a directory and what lies deeper in it lies the entry of its that leads
\* there, and what lies between that and the other.
LEMMA OneMoreBetween ==
  ASSUME Numbered, NEW tree, IsTree(tree), NEW e \in Entry, NEW c \in Above(tree, e),
         c \in Entry
  PROVE  LET d == tree.parent[c]
         IN  /\ d \in Above(tree, e)
             /\ Between(tree, d, e) = {c} \cup Between(tree, c, e)
             /\ Cardinality(Between(tree, c, e)) \in Nat
             /\ Cardinality(Between(tree, d, e)) = Cardinality(Between(tree, c, e)) + 1
<1> DEFINE d == tree.parent[c]
<1>1. e \in Node /\ c \in Node /\ c # Top /\ d \in Node /\ Node \subseteq Nat
  BY DiscoveryAssumption DEF IsTree, Node, Numbered
<1>2. Above(tree, c) = {d} \cup Above(tree, d)
  BY <1>1, AboveDefined
<1> HIDE DEF d
<1>3. d \in Above(tree, e)
  BY <1>1, <1>2, AboveTransitive
<1>4. c \notin Above(tree, c)
  BY <1>1, AboveIsBefore
<1>5. ASSUME NEW a \in Between(tree, c, e) PROVE a \in Between(tree, d, e)
  <2>1. a \in Node /\ c \in Above(tree, a)
    BY <1>1, <1>5, AboveIsBefore DEF Between
  <2>2. d \in Above(tree, a)
    BY <1>2, <2>1, AboveTransitive
  <2> QED
    BY <1>5, <2>2 DEF Between
<1>6. ASSUME NEW a \in Between(tree, d, e), a # c PROVE a \in Between(tree, c, e)
  <2>1. a \in Above(tree, e) /\ d \in Above(tree, a) /\ a \in Node
    BY <1>1, <1>6, AboveIsBefore DEF Between
  <2>2. d < a
    BY <2>1, AboveIsBefore
  <2>3. a \notin Above(tree, c)
    <3> SUFFICES ASSUME a \in Above(tree, c) PROVE FALSE
      OBVIOUS
    <3>1. a = d \/ a < d
      BY <1>1, <1>2, AboveIsBefore
    <3> QED
      BY <1>1, <2>1, <2>2, <3>1
  <2>4. c \in Above(tree, a)
    BY <1>1, <1>6, <2>1, <2>3, AboveLinear
  <2> QED
    BY <2>1, <2>4 DEF Between
<1>7. c \in Between(tree, d, e)
  BY <1>2 DEF Between
<1>8. Between(tree, d, e) = {c} \cup Between(tree, c, e)
  BY <1>5, <1>6, <1>7
<1>9. IsFiniteSet(Between(tree, c, e))
  <2>1. PICK last \in Nat : Node \subseteq 0..last
    BY DEF Numbered
  <2>2. Between(tree, c, e) \subseteq 0..last
    BY <1>1, <2>1, AboveIsBefore DEF Between
  <2>3. IsFiniteSet(0..last)
    BY <2>1, FS_Interval
  <2> QED
    BY <2>2, <2>3, FS_Subset
<1>10. c \notin Between(tree, c, e)
  BY <1>4 DEF Between
<1>11. Cardinality(Between(tree, c, e) \cup {c}) = Cardinality(Between(tree, c, e)) + 1
  BY <1>9, <1>10, FS_AddElement
<1>12. Cardinality(Between(tree, c, e)) \in Nat
  BY <1>9, FS_CardinalityType
<1>13. Between(tree, c, e) \cup {c} = {c} \cup Between(tree, c, e)
  OBVIOUS
<1> QED
  BY <1>3, <1>8, <1>11, <1>12, <1>13 DEF d

\* The way from a directory to an entry in it begins with an entry it lists.
LEMMA WayDown ==
  ASSUME Numbered, NEW tree, IsTree(tree), NEW e \in Entry, NEW d \in Above(tree, e)
  PROVE  \E c \in Entry : tree.parent[c] = d /\ (c = e \/ c \in Above(tree, e))
<1> DEFINE way == {x \in {e} \cup Above(tree, e) : d \in Above(tree, x)}
<1>1. e \in Node /\ Node \subseteq Nat
  BY DEF Node, Numbered
<1>2. {e} \cup Above(tree, e) \subseteq Node
  BY <1>1, AboveIsBefore
<1>3. way \subseteq Node /\ way # {}
  BY <1>1, <1>2
<1>4. PICK c \in way : \A x \in Node : x < c => x \notin way
  <2> HIDE DEF way
  <2> QED
    BY <1>3, FirstEntry
<1>5. c \in Node /\ c # Top /\ d \in {tree.parent[c]} \cup Above(tree, tree.parent[c])
  BY <1>2, AboveDefined
<1>6. c \in Entry /\ tree.parent[c] \in Node /\ tree.parent[c] < c
  BY <1>5 DEF IsTree, Node
<1>7. tree.parent[c] \in Above(tree, c)
  BY <1>5, AboveDefined
<1>8. tree.parent[c] \in Above(tree, e)
  BY <1>1, <1>7, AboveTransitive
<1>9. tree.parent[c] \notin way
  BY <1>4, <1>6
<1>10. tree.parent[c] = d
  BY <1>5, <1>8, <1>9
<1> QED
  BY <1>6, <1>10

\* What is found for an entry by the scan of a directory, with this many levels left.
FoundFor(tree, d, e, left, x) ==
  /\ d \in Above(tree, e)
  /\ \A a \in Between(tree, d, e) : tree.kind[a] = "directory"
  /\ Cardinality(Between(tree, d, e)) <= left
  /\ \/ tree.kind[e] = "repository" /\ x = e
     \/ tree.kind[e] = "broken" /\ x = ScanError
     \/ /\ tree.kind[e] = "locked" /\ x = ScanError
        /\ Cardinality(Between(tree, d, e)) < left

\* What the scan of a directory finds.
Found(tree, d, left) ==
  IF tree.kind[d] = "locked" THEN {ScanError}
  ELSE {x \in Node : \E e \in Entry : FoundFor(tree, d, e, left, x)}

\* What is found for an entry further down is what the scan of the listed one
\* finds, with a level less.
LEMMA FoundDeeper ==
  ASSUME Numbered, NEW tree, IsTree(tree), NEW e \in Entry, NEW c \in Entry,
         c \in Above(tree, e), NEW left \in Nat, NEW x
  PROVE  FoundFor(tree, tree.parent[c], e, left, x) <=>
           tree.kind[c] = "directory" /\ left > 0 /\ FoundFor(tree, c, e, left - 1, x)
<1> DEFINE d == tree.parent[c]
           n == Cardinality(Between(tree, c, e))
<1>1. /\ d \in Above(tree, e)
      /\ Between(tree, d, e) = {c} \cup Between(tree, c, e)
      /\ n \in Nat /\ Cardinality(Between(tree, d, e)) = n + 1
  BY OneMoreBetween
<1>2. (\A a \in Between(tree, d, e) : tree.kind[a] = "directory") <=>
        /\ tree.kind[c] = "directory"
        /\ \A a \in Between(tree, c, e) : tree.kind[a] = "directory"
  BY <1>1
<1>3. (n + 1 <= left <=> left > 0 /\ n <= left - 1) /\ (n + 1 < left <=> n < left - 1)
  BY <1>1
<1> HIDE DEF d
<1> QED
  BY <1>1, <1>2, <1>3 DEF FoundFor, d

\* What one entry of a directory contributes to a level.
Yield(tree, c, next) ==
  CASE tree.kind[c] \in {"file", "excluded"} -> {}
    [] tree.kind[c] = "broken" -> {ScanError}
    [] tree.kind[c] = "repository" -> {c}
    [] OTHER -> next[c]

\* An entry a directory lists contributes what is found for it and below it.
LEMMA YieldFinds ==
  ASSUME Numbered, NEW tree, IsTree(tree), NEW c \in Entry, NEW left \in Nat, NEW next,
         next[c] = IF left = 0 THEN {} ELSE Found(tree, c, left - 1), NEW x \in Node
  PROVE  x \in Yield(tree, c, next) <=>
           \E e \in Entry : /\ e = c \/ c \in Above(tree, e)
                            /\ FoundFor(tree, tree.parent[c], e, left, x)
<1> DEFINE Own == FoundFor(tree, tree.parent[c], c, left, x)
           Deep == \E e \in Entry : c \in Above(tree, e)
                                     /\ FoundFor(tree, tree.parent[c], e, left, x)
<1>1. Deep <=> /\ tree.kind[c] = "directory" /\ left > 0
               /\ \E e \in Entry : FoundFor(tree, c, e, left - 1, x)
  <2>1. \A e \in Entry : c \in Above(tree, e) =>
          (FoundFor(tree, tree.parent[c], e, left, x) <=>
             tree.kind[c] = "directory" /\ left > 0 /\ FoundFor(tree, c, e, left - 1, x))
    BY Zenon, FoundDeeper
  <2>2. \A e \in Entry : FoundFor(tree, c, e, left - 1, x) => c \in Above(tree, e)
    BY Zenon DEF FoundFor
  <2> QED
    BY Zenon, <2>1, <2>2
<1>2. tree.kind[c] \in EntryKind
  BY DEF IsTree, Node
<1>3. Own <=> \/ tree.kind[c] = "repository" /\ x = c
              \/ tree.kind[c] = "broken" /\ x = ScanError
              \/ tree.kind[c] = "locked" /\ x = ScanError /\ 0 < left
  BY NothingBetween DEF FoundFor
<1> HIDE DEF Own, Deep
<1>4. x \in Yield(tree, c, next) <=> Own \/ Deep
  <2>1. CASE tree.kind[c] = "directory"
    <3>1. Yield(tree, c, next) = next[c]
      BY <2>1 DEF Yield
    <3>2. CASE left = 0
      BY <1>1, <1>3, <2>1, <3>1, <3>2
    <3>3. CASE left # 0
      <4>1. x \in next[c] <=> \E e \in Entry : FoundFor(tree, c, e, left - 1, x)
        BY <2>1, <3>3 DEF Found
      <4> QED
        BY <1>1, <1>3, <2>1, <3>1, <3>3, <4>1
    <3> QED
      BY <3>2, <3>3
  <2>2. CASE tree.kind[c] = "locked"
    <3>1. Yield(tree, c, next) = next[c]
      BY <2>2 DEF Yield
    <3>2. next[c] = IF left = 0 THEN {} ELSE {ScanError}
      BY <2>2 DEF Found
    <3> QED
      BY <1>1, <1>3, <2>2, <3>1, <3>2
  <2>3. CASE tree.kind[c] = "broken"
    <3>1. Yield(tree, c, next) = {ScanError}
      BY <2>3 DEF Yield
    <3>2. ~Deep
      BY <1>1, <2>3
    <3>3. Own <=> x = ScanError
      BY <1>3, <2>3
    <3> QED
      BY Zenon, <3>1, <3>2, <3>3
  <2>4. CASE tree.kind[c] = "repository"
    <3>1. Yield(tree, c, next) = {c}
      BY <2>4 DEF Yield
    <3>2. ~Deep
      BY <1>1, <2>4
    <3>3. Own <=> x = c
      BY <1>3, <2>4
    <3> QED
      BY Zenon, <3>1, <3>2, <3>3
  <2>5. CASE tree.kind[c] \in {"file", "excluded"}
    <3>1. Yield(tree, c, next) = {}
      BY <2>5 DEF Yield
    <3>2. ~Deep
      BY <1>1, <2>5
    <3>3. ~Own
      BY <1>3, <2>5
    <3> QED
      BY Zenon, <3>1, <3>2, <3>3
  <2> QED
    BY <1>2, <2>1, <2>2, <2>3, <2>4, <2>5 DEF EntryKind
<1>5. Own \/ Deep <=>
        \E e \in Entry : /\ e = c \/ c \in Above(tree, e)
                         /\ FoundFor(tree, tree.parent[c], e, left, x)
  BY Zenon DEF Own, Deep
<1> QED
  BY <1>4, <1>5

\* A level finds what the levels left can reach.
LEMMA LevelFinds ==
  ASSUME Numbered, NEW tree, IsTree(tree), NEW left \in Nat, NEW next,
         \A c \in Node : next[c] = IF left = 0 THEN {} ELSE Found(tree, c, left - 1),
         NEW d \in Node, tree.kind[d] # "locked"
  PROVE  UNION {Yield(tree, c, next) : c \in Children(tree, d)} = Found(tree, d, left)
<1> DEFINE all == UNION {Yield(tree, c, next) : c \in Children(tree, d)}
<1>1. \A c \in Entry : c \in Node
  BY DEF Node
<1>2. ASSUME NEW c \in Entry, NEW x \in Node
      PROVE  x \in Yield(tree, c, next) <=>
               \E e \in Entry : /\ e = c \/ c \in Above(tree, e)
                                /\ FoundFor(tree, tree.parent[c], e, left, x)
  <2>1. next[c] = IF left = 0 THEN {} ELSE Found(tree, c, left - 1)
    BY <1>1
  <2> QED
    BY <2>1, YieldFinds
<1>3. \A c \in Entry : Yield(tree, c, next) \subseteq Node
  BY <1>1 DEF Yield, Found, Node, ScanError
<1>4. all \subseteq Node
  BY <1>3 DEF Children
<1>5. ASSUME NEW x \in Node PROVE x \in all <=> x \in Found(tree, d, left)
  <2>1. x \in all <=> \E c \in Entry : tree.parent[c] = d /\ x \in Yield(tree, c, next)
    BY Zenon DEF Children
  <2>2. x \in Found(tree, d, left) <=> \E e \in Entry : FoundFor(tree, d, e, left, x)
    BY DEF Found
  <2> HIDE DEF all
  <2>3. ASSUME x \in all PROVE x \in Found(tree, d, left)
    BY <1>2, <2>1, <2>2, <2>3
  <2>4. ASSUME NEW e \in Entry, FoundFor(tree, d, e, left, x) PROVE x \in all
    <3>1. d \in Above(tree, e)
      BY <2>4 DEF FoundFor
    <3>2. PICK c \in Entry : tree.parent[c] = d /\ (c = e \/ c \in Above(tree, e))
      BY <3>1, WayDown
    <3> QED
      BY <1>2, <2>1, <2>4, <3>2
  <2> QED
    BY <2>2, <2>3, <2>4
<1>6. Found(tree, d, left) \subseteq Node
  BY DEF Found
<1> HIDE DEF all
<1>7. all = Found(tree, d, left)
  BY <1>4, <1>5, <1>6
<1> QED
  BY <1>7 DEF all

\* One level of discover_root, given what the next finds.
Level(tree, found, depth) ==
  [d \in Node |->
     IF depth > MaxDepth THEN {}
     ELSE IF tree.kind[d] = "locked" THEN {ScanError}
     ELSE UNION {CASE tree.kind[e] \in {"file", "excluded"} -> {}
                   [] tree.kind[e] = "broken" -> {ScanError}
                   [] tree.kind[e] = "repository" -> {e}
                   [] OTHER -> found[depth + 1][e] : e \in Children(tree, d)}]

\* The scan goes down level by level.
LEMMA ScanDefined ==
  ASSUME NEW tree
  PROVE  \E found : /\ found = [depth \in 0..(MaxDepth + 1) |-> Level(tree, found, depth)]
                    /\ Scan(tree) = found[0]
<1> DEFINE Deep(k) == (MaxDepth + 1 - k)..(MaxDepth + 1)
           Recurs(g, k) == g = [depth \in Deep(k) |-> Level(tree, g, depth)]
           S == {k \in 0..(MaxDepth + 1) : \E g : Recurs(g, k)}
<1>1. MaxDepth \in Nat
  BY DiscoveryAssumption
<1>2. 0 \in S
  <2> DEFINE g == [depth \in Deep(0) |-> [d \in Node |-> {}]]
  <2>1. \A depth \in Deep(0) : depth > MaxDepth
    BY <1>1
  <2>2. \A depth \in Deep(0) : Level(tree, g, depth) = [d \in Node |-> {}]
    BY <2>1 DEF Level
  <2>3. Recurs(g, 0)
    BY <2>2
  <2> HIDE DEF Recurs, g
  <2> QED
    BY <1>1, <2>3
<1>3. ASSUME NEW k \in 0..MaxDepth, k \in S PROVE k + 1 \in S
  <2>1. PICK g : Recurs(g, k)
    BY <1>3
  <2> DEFINE h == [depth \in Deep(k + 1) |-> Level(tree, g, depth)]
  <2>2. Deep(k) \subseteq Deep(k + 1)
    BY <1>1
  <2>3. \A depth \in Deep(k) : h[depth] = g[depth]
    BY <2>1, <2>2
  <2>4. \A depth \in Deep(k + 1) : depth <= MaxDepth => depth + 1 \in Deep(k)
    BY <1>1
  <2>5. ASSUME NEW depth \in Deep(k + 1)
        PROVE  Level(tree, g, depth) = Level(tree, h, depth)
    <3>1. CASE depth > MaxDepth
      BY <3>1 DEF Level
    <3>2. CASE ~(depth > MaxDepth)
      <4>1. depth + 1 \in Deep(k)
        BY <1>1, <2>4, <3>2
      <4>2. h[depth + 1] = g[depth + 1]
        BY <2>3, <4>1
      <4> HIDE DEF h
      <4> QED
        BY <4>2 DEF Level
    <3> QED
      BY <3>1, <3>2
  <2>6. Recurs(h, k + 1)
    BY <2>5
  <2> HIDE DEF Recurs, h
  <2> QED
    BY <1>1, <2>6
<1>4. 0..(MaxDepth + 1) \subseteq S
  <2> HIDE DEF S
  <2>1. \A k \in 0..((MaxDepth + 1) - 1) : k \in S => k + 1 \in S
    BY <1>1, <1>3
  <2> QED
    BY <1>1, <1>2, <2>1, UpTo
<1>5. MaxDepth + 1 \in S
  <2> HIDE DEF S
  <2>1. MaxDepth + 1 \in 0..(MaxDepth + 1)
    BY <1>1
  <2> QED
    BY <1>4, <2>1
<1>6. \E g : g = [depth \in 0..(MaxDepth + 1) |-> Level(tree, g, depth)]
  <2>1. PICK g : Recurs(g, MaxDepth + 1)
    BY <1>5
  <2>2. MaxDepth + 1 - (MaxDepth + 1) = 0
    BY <1>1
  <2> QED
    BY <2>1, <2>2
<1> DEFINE found == CHOOSE g : g = [depth \in 0..(MaxDepth + 1) |-> Level(tree, g, depth)]
<1>7. found = [depth \in 0..(MaxDepth + 1) |-> Level(tree, found, depth)]
  BY <1>6
<1>8. Scan(tree) = found[0]
  BY DEF Scan, Level
<1> HIDE DEF found
<1> QED
  BY <1>7, <1>8
\* A scan finds what is within its reach.
LEMMA ScanFinds ==
  ASSUME Numbered, NEW tree, IsTree(tree), NEW d \in Node
  PROVE  Scan(tree)[d] = Found(tree, d, MaxDepth)
<1>1. MaxDepth \in Nat
  BY DiscoveryAssumption
<1>2. PICK found : /\ found = [depth \in 0..(MaxDepth + 1) |-> Level(tree, found, depth)]
                   /\ Scan(tree) = found[0]
  BY ScanDefined
<1> DEFINE Finds(k) == \A c \in Node :
             found[MaxDepth + 1 - k][c] = IF k = 0 THEN {} ELSE Found(tree, c, k - 1)
           S == {k \in 0..(MaxDepth + 1) : Finds(k)}
<1>3. 0 \in S
  <2>1. MaxDepth + 1 - 0 \in 0..(MaxDepth + 1) /\ MaxDepth + 1 - 0 > MaxDepth
    BY <1>1
  <2>2. found[MaxDepth + 1 - 0] = Level(tree, found, MaxDepth + 1 - 0)
    BY <1>2, <2>1
  <2>3. \A c \in Node : found[MaxDepth + 1 - 0][c] = {}
    BY <2>1, <2>2 DEF Level
  <2> QED
    BY <1>1, <2>3
<1>4. ASSUME NEW k \in 0..MaxDepth, k \in S PROVE k + 1 \in S
  <2> DEFINE depth == MaxDepth + 1 - (k + 1)
             next == found[MaxDepth + 1 - k]
  <2>1. k \in Nat /\ depth \in 0..(MaxDepth + 1) /\ ~(depth > MaxDepth)
        /\ depth + 1 = MaxDepth + 1 - k /\ (k + 1) - 1 = k /\ k + 1 # 0
        /\ k + 1 \in 0..(MaxDepth + 1)
    BY <1>1
  <2>2. \A c \in Node : next[c] = IF k = 0 THEN {} ELSE Found(tree, c, k - 1)
    BY <1>4
  <2>3. found[depth] = Level(tree, found, depth)
    BY <1>2, <2>1
  <2>4. found[depth + 1] = next
    BY <2>1
  <2> HIDE DEF depth, next, S
  <2>5. ASSUME NEW c \in Node PROVE found[depth][c] = Found(tree, c, k)
    <3>1. CASE tree.kind[c] = "locked"
      BY <2>1, <2>3, <3>1 DEF Level, Found
    <3>2. CASE tree.kind[c] # "locked"
      <4>1. found[depth][c] = UNION {Yield(tree, e, next) : e \in Children(tree, c)}
        BY <2>1, <2>3, <2>4, <3>2 DEF Level, Yield
      <4>2. UNION {Yield(tree, e, next) : e \in Children(tree, c)} = Found(tree, c, k)
        BY <2>1, <2>2, <3>2, LevelFinds
      <4> QED
        BY <4>1, <4>2
    <3> QED
      BY <3>1, <3>2
  <2>6. Finds(k + 1)
    BY <2>1, <2>5 DEF depth
  <2> QED
    BY <2>1, <2>6 DEF S
<1>5. MaxDepth + 1 \in S
  <2> HIDE DEF S
  <2>1. \A k \in 0..((MaxDepth + 1) - 1) : k \in S => k + 1 \in S
    BY <1>1, <1>4
  <2>2. 0..(MaxDepth + 1) \subseteq S
    BY <1>1, <1>3, <2>1, UpTo
  <2>3. MaxDepth + 1 \in 0..(MaxDepth + 1)
    BY <1>1
  <2> QED
    BY <2>2, <2>3
<1>6. MaxDepth + 1 - (MaxDepth + 1) = 0 /\ (MaxDepth + 1) - 1 = MaxDepth /\ MaxDepth + 1 # 0
  BY <1>1
<1>7. Finds(MaxDepth + 1)
  BY <1>5
<1> QED
  BY <1>2, <1>6, <1>7

\* The roots together find every repository due, or report an error exactly when
\* something hinders one of them.
LEMMA RootsFind ==
  ASSUME Numbered, NEW tree, IsTree(tree), NEW roots, roots \subseteq Node
  PROVE  LET due == {e \in Entry : tree.kind[e] = "repository"
                                     /\ \E r \in roots : Reached(tree, r, e)}
         IN  DiscoverRoots(tree, roots) =
               IF \E r \in roots : Hindered(tree, r) THEN {} ELSE {due}
<1> DEFINE due == {e \in Entry : tree.kind[e] = "repository"
                                   /\ \E r \in roots : Reached(tree, r, e)}
           OfRoot(r) == IF tree.kind[r] = "file" THEN {ScanError} ELSE Scan(tree)[r]
           all == UNION {OfRoot(r) : r \in roots}
<1>1. Top \notin Entry /\ MaxDepth \in Nat
  BY DiscoveryAssumption
<1>2. \A r \in roots : OfRoot(r) =
        IF tree.kind[r] = "file" THEN {ScanError} ELSE Found(tree, r, MaxDepth)
  BY ScanFinds
<1>3. ASSUME NEW r \in roots, NEW e \in Entry, NEW x
      PROVE  FoundFor(tree, r, e, MaxDepth, x) <=>
               /\ Reached(tree, r, e)
               /\ \/ tree.kind[e] = "repository" /\ x = e
                  \/ tree.kind[e] = "broken" /\ x = ScanError
                  \/ /\ tree.kind[e] = "locked" /\ x = ScanError
                     /\ Cardinality({a \in Above(tree, e) : r \in Above(tree, a)}) < MaxDepth
  BY DEF FoundFor, Reached, Between
<1>4. ASSUME NEW r \in roots PROVE ScanError \in OfRoot(r) <=> Hindered(tree, r)
  <2>1. CASE tree.kind[r] \in {"file", "locked"}
    BY <1>2, <2>1 DEF Found, Hindered
  <2>2. CASE tree.kind[r] \notin {"file", "locked"}
    <3>1. ScanError \in OfRoot(r) <=>
            \E e \in Entry : FoundFor(tree, r, e, MaxDepth, ScanError)
      BY <1>2, <2>2 DEF Found, ScanError, Node
    <3>2. \A e \in Entry : e # ScanError
      BY <1>1 DEF ScanError
    <3> HIDE DEF OfRoot
    <3> QED
      BY <1>3, <2>2, <3>1, <3>2 DEF Hindered
  <2> QED
    BY <2>1, <2>2
<1>5. ScanError \in all <=> \E r \in roots : Hindered(tree, r)
  BY <1>4
<1>6. ASSUME \A r \in roots : ~Hindered(tree, r) PROVE all = due
  <2>1. \A r \in roots : OfRoot(r) = {x \in Node : \E e \in Entry :
                                          FoundFor(tree, r, e, MaxDepth, x)}
    BY <1>2, <1>6 DEF Hindered, Found
  <2> HIDE DEF OfRoot
  <2>2. \A r \in roots, e \in Entry, x \in Node :
          FoundFor(tree, r, e, MaxDepth, x)
            <=> Reached(tree, r, e) /\ tree.kind[e] = "repository" /\ x = e
    BY <1>3, <1>6 DEF Hindered
  <2>3. \A r \in roots : OfRoot(r) =
          {e \in Entry : tree.kind[e] = "repository" /\ Reached(tree, r, e)}
    BY <2>1, <2>2 DEF Node
  <2> QED
    BY <2>3
<1>7. DiscoverRoots(tree, roots) = IF ScanError \in all THEN {} ELSE {all}
  BY DEF DiscoverRoots
<1> HIDE DEF all, due
<1>8. DiscoverRoots(tree, roots) =
        IF \E r \in roots : Hindered(tree, r) THEN {} ELSE {due}
  BY <1>5, <1>6, <1>7
<1> QED
  BY <1>8 DEF due

\* The trees enumerated are trees, and a root is a directory of theirs.
LEMMA TreesEnumerated ==
  ASSUME input \in TreeInputs, 1 \in Entry
  PROVE  IsTree(input.tree) /\ input.roots \subseteq Node
  BY DEF TreeInputs, IsTree, Node

\* A scan finds every repository it should and nothing inside one, below a link, in
\* build output or deeper than the limit, or reports that it could not look
\* everywhere, for every tree of any number of entries and every depth.
THEOREM RepositoriesAlwaysFound ==
  ASSUME Numbered, 1 \in Entry
  PROVE  Spec => []RepositoriesFound
<1>1. Init => GivenInput
  BY DEF Init, GivenInput
<1>2. GivenInput /\ [Next]_vars => GivenInput'
  BY DEF Next, vars, GivenInput
<1>3. GivenInput => RepositoriesFound
  <2>1. input \in TreeInputs => RepositoriesFound
    BY TreesEnumerated, RootsFind DEF RepositoriesFound
  <2>2. input = [of |-> "walk"] => ~Of("tree")
    BY DEF Of
  <2> QED
    BY <2>1, <2>2, Families DEF GivenInput, RepositoriesFound, Of
<1> QED
  BY <1>1, <1>2, <1>3, PTL DEF Spec

-----------------------------------------------------------------------------
(* Imports.                                                                *)

\* What ends an import: a commit the walk does not reach, one that cannot be read,
\* and one that the sink rejects.
Stops(descriptor, history, failsAt, i) ==
  \/ ~history[i].reached \/ ~history[i].readable
  \/ i = failsAt \/ descriptor.id # GitConnector

\* The events of the first i commits that are not stored.
New(stored, repository, history, i) ==
  {e \in UNION {EventForCommit(repository, history[j]) : j \in 1..i} :
     e.id \notin {s.id : s \in stored}}

\* The state of an import that has handled i commits without an error.
Handled(before, more, i) ==
  [stored |-> before \cup more, accepted |-> Cardinality(more),
   report |-> [imported |-> Cardinality(more), duplicates |-> i - Cardinality(more),
               rejected |-> 0, failed |-> 0],
   error |-> FALSE]

\* The event of a commit bears the commit's name.
LEMMA EventMade ==
  ASSUME NEW repository, NEW commit, commit.readable
  PROVE  \E e : /\ EventForCommit(repository, commit) = {e}
                /\ e.id = <<repository.reference, commit.hash>>
                /\ e.connector = GitConnector
<1> DEFINE e == [id |-> <<repository.reference, commit.hash>>,
                 connector |-> GitConnector, kind |-> CommitKind, raw |-> commit.raw,
                 metadata |-> [key \in RequiredMetadata |->
                   CASE key = "git.commit_hash" -> commit.hash
                     [] key = "git.repository_reference" -> repository.reference
                     [] OTHER -> repository.name]]
<1>1. EventForCommit(repository, commit) = {e}
  BY DEF EventForCommit
<1>2. e.id = <<repository.reference, commit.hash>> /\ e.connector = GitConnector
  OBVIOUS
<1> HIDE DEF e
<1> QED
  BY <1>1, <1>2

\* What an import has done after each of its turns.
Turns(after, stored, descriptor, repository, history, failsAt) ==
  /\ after[0] = [stored |-> stored, accepted |-> 0, report |-> NoReport, error |-> FALSE]
  /\ \A i \in 1..Len(history) :
       after[i] = IF after[i - 1].error THEN after[i - 1]
                  ELSE ImportOne(after[i - 1], descriptor, repository, history[i], failsAt = i)

\* The import takes one turn for every commit until one is an error.
LEMMA ImportDefined ==
  ASSUME NEW stored, NEW descriptor, NEW repository, NEW n \in Nat, NEW history,
         Len(history) = n, NEW failsAt
  PROVE  \E after : /\ Turns(after, stored, descriptor, repository, history, failsAt)
                     /\ ImportInto(stored, descriptor, repository, history, failsAt) = after[n]
<1> DEFINE Turn(g, i) ==
             IF i = 0 THEN [stored |-> stored, accepted |-> 0, report |-> NoReport,
                            error |-> FALSE]
             ELSE IF g[i - 1].error THEN g[i - 1]
             ELSE ImportOne(g[i - 1], descriptor, repository, history[i], failsAt = i)
           Recurs(g, k) == g = [i \in 0..k |-> Turn(g, i)]
           S == {k \in 0..n : \E g : Recurs(g, k)}
<1>1. 0 \in S
  <2> DEFINE start == [stored |-> stored, accepted |-> 0, report |-> NoReport, error |-> FALSE]
             g == [i \in 0..0 |-> start]
  <2>1. \A i \in 0..0 : g[i] = Turn(g, i)
    OBVIOUS
  <2>2. Recurs(g, 0)
    BY <2>1
  <2> HIDE DEF Recurs, g
  <2> QED
    BY <2>2
<1>2. ASSUME NEW k \in 0..(n - 1), k \in S PROVE k + 1 \in S
  <2>1. PICK g : Recurs(g, k)
    BY <1>2
  <2> DEFINE h == [i \in 0..(k + 1) |-> Turn(g, i)]
  <2>2. \A i \in 0..(k + 1) : i # 0 => i - 1 \in 0..k
    OBVIOUS
  <2>3. \A i \in 0..k : h[i] = g[i]
    <3> HIDE DEF Turn
    <3> QED
      BY <2>1
  <2>4. ASSUME NEW i \in 0..(k + 1) PROVE Turn(g, i) = Turn(h, i)
    <3>1. CASE i = 0
      BY <3>1
    <3>2. CASE i # 0
      <4>1. h[i - 1] = g[i - 1]
        BY <2>2, <2>3, <3>2
      <4> HIDE DEF h
      <4> QED
        BY <3>2, <4>1
    <3> QED
      BY <3>1, <3>2
  <2>5. Recurs(h, k + 1)
    BY <2>4
  <2> HIDE DEF Recurs, h
  <2> QED
    BY <2>5
<1>3. 0..n \subseteq S
  <2> HIDE DEF S
  <2> QED
    BY <1>1, <1>2, UpTo
<1>4. \E g : Recurs(g, n)
  BY <1>3
<1> DEFINE after == CHOOSE g : g = [i \in 0..Len(history) |-> Turn(g, i)]
<1>5. after = [i \in 0..Len(history) |-> Turn(after, i)]
  BY <1>4
<1>6. ImportInto(stored, descriptor, repository, history, failsAt) = after[Len(history)]
  BY DEF ImportInto
<1> HIDE DEF after
<1>7. \A i \in 0..n : after[i] = Turn(after, i)
  <2> HIDE DEF Turn
  <2> QED
    BY <1>5
<1>8. after[0] = [stored |-> stored, accepted |-> 0, report |-> NoReport, error |-> FALSE]
  <2>1. 0 \in 0..n
    OBVIOUS
  <2> QED
    BY <1>7, <2>1, Zenon
<1>9. ASSUME NEW i \in 1..n
      PROVE  after[i] = IF after[i - 1].error THEN after[i - 1]
                        ELSE ImportOne(after[i - 1], descriptor, repository, history[i],
                                       failsAt = i)
  <2>1. i \in 0..n /\ i # 0
    OBVIOUS
  <2>2. after[i] = Turn(after, i)
    BY <1>7, <2>1
  <2> QED
    BY <2>1, <2>2, Zenon
<1>10. Turns(after, stored, descriptor, repository, history, failsAt)
  BY <1>8, <1>9, Zenon DEF Turns
<1> QED
  BY <1>6, <1>10, Zenon

\* One more commit adds its event, unless one of that name is stored.
LEMMA NewGrows ==
  ASSUME NEW stored, NEW repository, NEW n \in Nat, NEW history,
         \A i, j \in 1..n : history[i].hash = history[j].hash => i = j,
         NEW k \in 0..(n - 1), NEW e,
         EventForCommit(repository, history[k + 1]) = {e},
         e.id = <<repository.reference, history[k + 1].hash>>,
         \A i \in 1..k : history[i].readable
  PROVE  LET old == New(stored, repository, history, k)
         IN  /\ New(stored, repository, history, k + 1) =
                  IF e.id \in {s.id : s \in stored} THEN old ELSE old \cup {e}
             /\ e.id \in {s.id : s \in stored \cup old} <=> e.id \in {s.id : s \in stored}
             /\ \A s \in old : s.id # e.id
<1> DEFINE old == New(stored, repository, history, k)
           Made(i) == UNION {EventForCommit(repository, history[j]) : j \in 1..i}
<1>1. \A j : j \in 1..(k + 1) <=> j \in 1..k \/ j = k + 1
  OBVIOUS
<1>2. Made(k + 1) = Made(k) \cup {e}
  BY <1>1
<1>3. ASSUME NEW s \in old PROVE s.id # e.id
  <2>1. PICK j \in 1..k : s \in EventForCommit(repository, history[j])
    BY <1>3 DEF New
  <2>2. s.id = <<repository.reference, history[j].hash>>
    BY <2>1, EventMade
  <2>3. j \in 1..n /\ k + 1 \in 1..n /\ j # k + 1
    OBVIOUS
  <2> QED
    BY <2>2, <2>3
<1>4. New(stored, repository, history, k + 1) =
        IF e.id \in {s.id : s \in stored} THEN old ELSE old \cup {e}
  <2>1. New(stored, repository, history, k + 1) =
          {x \in Made(k + 1) : x.id \notin {s.id : s \in stored}}
    BY DEF New
  <2>2. old = {x \in Made(k) : x.id \notin {s.id : s \in stored}}
    BY DEF New
  <2> HIDE DEF Made, old
  <2> QED
    BY <1>2, <2>1, <2>2
<1> HIDE DEF old
<1> QED
  BY <1>3, <1>4 DEF old

\* One turn of an import that is not an error.
LEMMA OneHandled ==
  ASSUME NEW stored, NEW descriptor, NEW repository, NEW n \in Nat, NEW history,
         \A i, j \in 1..n : history[i].hash = history[j].hash => i = j,
         NEW failsAt, NEW k \in 0..(n - 1),
         \A i \in 1..(k + 1) : ~Stops(descriptor, history, failsAt, i),
         IsFiniteSet(New(stored, repository, history, k))
  PROVE  LET old == New(stored, repository, history, k)
             new == New(stored, repository, history, k + 1)
         IN  /\ ImportOne(Handled(stored, old, k), descriptor, repository, history[k + 1],
                          failsAt = k + 1)
                  = Handled(stored, new, k + 1)
             /\ IsFiniteSet(new)
<1> DEFINE old == New(stored, repository, history, k)
           run == Handled(stored, old, k)
           new == New(stored, repository, history, k + 1)
           c == Cardinality(old)
           commit == history[k + 1]
<1>1. \A i \in 1..(k + 1) : /\ history[i].reached /\ history[i].readable /\ i # failsAt
                            /\ descriptor.id = GitConnector
  BY DEF Stops
<1>2. k + 1 \in 1..(k + 1) /\ \A i \in 1..k : i \in 1..(k + 1)
  OBVIOUS
<1>3. PICK e : /\ EventForCommit(repository, commit) = {e}
               /\ e.id = <<repository.reference, commit.hash>>
               /\ e.connector = GitConnector
  BY <1>1, <1>2, EventMade
<1>4. /\ new = IF e.id \in {s.id : s \in stored} THEN old ELSE old \cup {e}
      /\ e.id \in {s.id : s \in stored \cup old} <=> e.id \in {s.id : s \in stored}
      /\ \A s \in old : s.id # e.id
  BY <1>1, <1>2, <1>3, NewGrows
<1>5. c \in Nat /\ IsFiniteSet(old) /\ k \in Nat
  BY FS_CardinalityType
<1>6. e \notin old
  BY <1>4
<1>7. Cardinality(old \cup {e}) = c + 1 /\ IsFiniteSet(old \cup {e})
  BY <1>5, <1>6, FS_AddElement
<1>8. /\ run.stored = stored \cup old /\ run.accepted = c
      /\ run.report = [imported |-> c, duplicates |-> k - c, rejected |-> 0, failed |-> 0]
  BY DEF Handled
<1> DEFINE outcome == Accept(descriptor, run.stored, e, FALSE)
<1>9. outcome = IF e.id \in {s.id : s \in stored} THEN "duplicates" ELSE "imported"
  BY <1>1, <1>2, <1>3, <1>4, <1>8 DEF Accept
<1>10. (failsAt = k + 1) = FALSE
  BY <1>1, <1>2
<1>11. ImportOne(run, descriptor, repository, commit, failsAt = k + 1) =
         [stored |-> IF outcome = "imported" THEN run.stored \cup {e} ELSE run.stored,
          accepted |-> IF outcome = "imported" THEN run.accepted + 1 ELSE run.accepted,
          report |-> [run.report EXCEPT ![outcome] = @ + 1],
          error |-> outcome \in {"failed", "rejected"}]
  <2>1. {e} # {} /\ (CHOOSE x \in {e} : TRUE) = e
    OBVIOUS
  <2> HIDE DEF run
  <2> QED
    BY <1>1, <1>2, <1>3, <1>10, <2>1 DEF ImportOne
<1> HIDE DEF run, old, new, c, commit, outcome
<1>12. Handled(stored, new, k + 1) =
         [stored |-> stored \cup new, accepted |-> Cardinality(new),
          report |-> [imported |-> Cardinality(new), duplicates |-> (k + 1) - Cardinality(new),
                      rejected |-> 0, failed |-> 0],
          error |-> FALSE]
  BY DEF Handled
<1> DEFINE Holds == /\ ImportOne(run, descriptor, repository, commit, failsAt = k + 1)
                         = Handled(stored, new, k + 1)
                    /\ IsFiniteSet(new)
<1>13. ASSUME e.id \in {s.id : s \in stored} PROVE Holds
  <2>1. new = old /\ outcome = "duplicates" /\ Cardinality(new) = c
    BY <1>4, <1>9, <1>13 DEF c
  <2>2. [run.report EXCEPT ![outcome] = @ + 1] =
          [imported |-> c, duplicates |-> (k + 1) - c, rejected |-> 0, failed |-> 0]
    <3>1. (k - c) + 1 = (k + 1) - c
      BY <1>5
    <3> QED
      BY <1>8, <2>1, <3>1
  <2>3. ImportOne(run, descriptor, repository, commit, failsAt = k + 1)
          = [stored |-> stored \cup new, accepted |-> c,
             report |-> [imported |-> c, duplicates |-> (k + 1) - c, rejected |-> 0, failed |-> 0],
             error |-> FALSE]
    <3>1. (outcome \in {"failed", "rejected"}) = FALSE
      BY <2>1
    <3>2. /\ (IF outcome = "imported" THEN run.stored \cup {e} ELSE run.stored) = stored \cup new
          /\ (IF outcome = "imported" THEN run.accepted + 1 ELSE run.accepted) = c
      BY <1>8, <2>1
    <3> QED
      BY <1>11, <2>2, <3>1, <3>2
  <2> QED
    BY <1>5, <1>12, <2>1, <2>3 DEF Holds
<1>14. ASSUME e.id \notin {s.id : s \in stored} PROVE Holds
  <2>1. new = old \cup {e} /\ outcome = "imported" /\ Cardinality(new) = c + 1
    BY <1>4, <1>7, <1>9, <1>14
  <2>2. [run.report EXCEPT ![outcome] = @ + 1] =
          [imported |-> c + 1, duplicates |-> (k + 1) - (c + 1), rejected |-> 0, failed |-> 0]
    <3>1. k - c = (k + 1) - (c + 1)
      BY <1>5
    <3> QED
      BY <1>8, <2>1, <3>1
  <2>3. run.stored \cup {e} = stored \cup new
    BY <1>8, <2>1
  <2>4. ImportOne(run, descriptor, repository, commit, failsAt = k + 1)
          = [stored |-> stored \cup new, accepted |-> c + 1,
             report |-> [imported |-> c + 1, duplicates |-> (k + 1) - (c + 1), rejected |-> 0,
                         failed |-> 0],
             error |-> FALSE]
    <3>1. (outcome \in {"failed", "rejected"}) = FALSE
      BY <2>1
    <3>2. /\ (IF outcome = "imported" THEN run.stored \cup {e} ELSE run.stored) = stored \cup new
          /\ (IF outcome = "imported" THEN run.accepted + 1 ELSE run.accepted) = c + 1
      BY <1>8, <2>1, <2>3
    <3> QED
      BY <1>11, <2>2, <3>1, <3>2
  <2> QED
    BY <1>7, <1>12, <2>1, <2>4 DEF Holds
<1>15. Holds
  BY <1>13, <1>14
<1> QED
  BY <1>15 DEF Holds, run, old, new, commit

\* The turn that ended an import: it stored and accepted nothing, and counted an event
\* that was reached.
Ended(run, next, commit) ==
  /\ next.error = TRUE
  /\ next.stored = run.stored /\ next.accepted = run.accepted
  /\ next.report.imported = run.report.imported
  /\ next.report.duplicates = run.report.duplicates
  /\ next.report.rejected + next.report.failed = IF commit.reached THEN 1 ELSE 0

\* One turn that is an error stores and accepts nothing, and counts an event that was
\* reached.
LEMMA OneStopped ==
  ASSUME NEW stored, NEW new, NEW descriptor, NEW repository, NEW history,
         NEW failsAt, Cardinality(new) \in Nat, NEW k \in Nat,
         Stops(descriptor, history, failsAt, k + 1)
  PROVE  Ended(Handled(stored, new, k),
               ImportOne(Handled(stored, new, k), descriptor, repository, history[k + 1],
                         failsAt = k + 1),
               history[k + 1])
<1> DEFINE run == Handled(stored, new, k)
           commit == history[k + 1]
           made == EventForCommit(repository, commit)
           outcome == IF made = {} THEN "failed"
                      ELSE Accept(descriptor, run.stored, CHOOSE e \in made : TRUE,
                                  failsAt = k + 1)
           next == ImportOne(run, descriptor, repository, commit, failsAt = k + 1)
           c == Cardinality(new)
<1>1. /\ DOMAIN run = {"stored", "accepted", "report", "error"}
      /\ run.report = [imported |-> c, duplicates |-> k - c, rejected |-> 0, failed |-> 0]
  BY DEF Handled
<1>2. CASE ~commit.reached
  <2>1. next = [run EXCEPT !.error = TRUE]
    BY <1>2 DEF ImportOne
  <2> HIDE DEF run, next
  <2> QED
    BY <1>1, <1>2, <2>1 DEF run, next, commit, Ended
<1>3. CASE commit.reached
  <2>1. outcome \in {"failed", "rejected"}
    <3>1. CASE ~commit.readable
      BY <3>1 DEF EventForCommit
    <3>2. CASE commit.readable
      <4>1. PICK e : made = {e} /\ e.connector = GitConnector
        BY <3>2, EventMade
      <4>2. made # {} /\ (CHOOSE x \in made : TRUE) = e
        BY <4>1
      <4>3. descriptor.id # GitConnector \/ failsAt = k + 1
        BY <1>3, <3>2 DEF Stops
      <4> HIDE DEF made, run
      <4> QED
        BY <4>1, <4>2, <4>3 DEF Accept
    <3> QED
      BY <3>1, <3>2
  <2>2. next = [stored |-> IF outcome = "imported" THEN run.stored \cup made ELSE run.stored,
                accepted |-> IF outcome = "imported" THEN run.accepted + 1 ELSE run.accepted,
                report |-> [run.report EXCEPT ![outcome] = @ + 1],
                error |-> outcome \in {"failed", "rejected"}]
    BY <1>3 DEF ImportOne
  <2> HIDE DEF run, next, outcome, made
  <2>3. next.error = TRUE /\ next.stored = run.stored /\ next.accepted = run.accepted
        /\ next.report = [run.report EXCEPT ![outcome] = @ + 1]
    BY <2>1, <2>2
  <2>4. /\ next.report.imported = c /\ next.report.duplicates = k - c
        /\ next.report.rejected + next.report.failed = 1
    BY <1>1, <2>1, <2>3
  <2> QED
    BY <1>1, <1>3, <2>3, <2>4 DEF run, next, commit, Ended
<1> QED
  BY <1>2, <1>3

\* An import stored the new events of the commits up to the last before it stopped, and
\* its counts say so, and whether one more was refused.
AccountedFor(stored, new, history, stops, last, result) ==
  /\ result.stored = stored \cup new
  /\ result.error = (stops # {})
  /\ result.accepted = Cardinality(new)
  /\ result.report.imported = Cardinality(new)
  /\ result.report.duplicates = last - Cardinality(new)
  /\ result.report.rejected + result.report.failed =
       IF stops # {} /\ history[FirstOf(stops)].reached THEN 1 ELSE 0

\* The commits of a history have names of their own.
OwnNames(history) ==
  /\ Len(history) \in Nat
  /\ \A i, j \in 1..Len(history) : history[i].hash = history[j].hash => i = j

Accounted(stored, descriptor, repository, history, failsAt) ==
  LET stops == {i \in 1..Len(history) : Stops(descriptor, history, failsAt, i)}
      last == IF stops = {} THEN Len(history) ELSE FirstOf(stops) - 1
  IN  /\ last \in 0..Len(history) /\ \A i \in 1..last : i \notin stops
      /\ AccountedFor(stored, New(stored, repository, history, last), history, stops, last,
                      ImportInto(stored, descriptor, repository, history, failsAt))

\* What an import stores and counts, for every history of commits with names of their
\* own: the commits before the first that stops it, and one more that was refused.
LEMMA ImportAccounts ==
  ASSUME NEW stored, NEW descriptor, NEW repository, NEW history, NEW failsAt,
         OwnNames(history)
  PROVE  Accounted(stored, descriptor, repository, history, failsAt)
<1> SUFFICES ASSUME NEW n \in Nat, Len(history) = n,
                    \A i, j \in 1..n : history[i].hash = history[j].hash => i = j
             PROVE  Accounted(stored, descriptor, repository, history, failsAt)
  BY DEF OwnNames
<1> DEFINE stops == {i \in 1..n : Stops(descriptor, history, failsAt, i)}
           last == IF stops = {} THEN n ELSE FirstOf(stops) - 1
           NewIn(i) == New(stored, repository, history, i)
           result == ImportInto(stored, descriptor, repository, history, failsAt)
<1>1. /\ last \in 0..n /\ \A i \in 1..last : i \notin stops
      /\ stops # {} => last + 1 \in stops /\ FirstOf(stops) = last + 1
  <2>1. CASE stops = {}
    BY <2>1
  <2>2. CASE stops # {}
    <3>1. stops \subseteq Nat
      OBVIOUS
    <3>2. PICK p \in stops : \A j \in stops : p <= j
      BY <2>2, <3>1, LeastNatural
    <3>3. FirstOf(stops) \in stops /\ \A j \in stops : FirstOf(stops) <= j
      BY <3>2 DEF FirstOf
    <3>4. FirstOf(stops) \in 1..n
      BY <3>3
    <3>5. last = FirstOf(stops) - 1
      BY <2>2
    <3> HIDE DEF stops, last
    <3>6. \A i \in 1..last : i \notin stops
      BY <3>3, <3>4, <3>5
    <3> QED
      BY <3>3, <3>4, <3>5, <3>6
  <2> QED
    BY <2>1, <2>2
<1>2. \A i \in 1..last : ~Stops(descriptor, history, failsAt, i)
  BY <1>1
<1>3. stops # {} => last + 1 \in 1..n /\ Stops(descriptor, history, failsAt, last + 1)
  BY <1>1
<1> HIDE DEF stops, last
<1>4. PICK after : /\ Turns(after, stored, descriptor, repository, history, failsAt)
                   /\ result = after[n]
  <2>1. \E g : /\ Turns(g, stored, descriptor, repository, history, failsAt)
               /\ result = g[n]
    BY ImportDefined
  <2> QED
    BY <2>1
<1> HIDE DEF result
<1>5. after[0] = [stored |-> stored, accepted |-> 0, report |-> NoReport, error |-> FALSE]
  BY <1>4 DEF Turns
<1>6. ASSUME NEW i \in 1..n
      PROVE  after[i] = IF after[i - 1].error THEN after[i - 1]
                        ELSE ImportOne(after[i - 1], descriptor, repository, history[i],
                                       failsAt = i)
  <2>1. i \in 1..Len(history)
    OBVIOUS
  <2> QED
    BY <1>4, <2>1, Zenon DEF Turns
<1> DEFINE handled == {i \in 0..last : after[i] = Handled(stored, NewIn(i), i)
                                         /\ IsFiniteSet(NewIn(i))}
<1>7. 0 \in handled
  <2>1. NewIn(0) = {}
    BY DEF New
  <2>2. IsFiniteSet(NewIn(0)) /\ Cardinality(NewIn(0)) = 0
    BY <2>1, FS_EmptySet
  <2>3. after[0] = Handled(stored, NewIn(0), 0)
    <3>1. stored \cup NewIn(0) = stored /\ 0 - Cardinality(NewIn(0)) = 0
      BY <2>1, <2>2
    <3> HIDE DEF NewIn
    <3> QED
      BY <1>5, <2>2, <3>1 DEF Handled, NoReport
  <2> QED
    BY <1>1, <2>2, <2>3
<1>8. ASSUME NEW k \in 0..(last - 1), k \in handled PROVE k + 1 \in handled
  <2>1. after[k] = Handled(stored, NewIn(k), k) /\ IsFiniteSet(NewIn(k))
    BY <1>8
  <2>2. k \in 0..(n - 1) /\ k + 1 \in 1..n /\ (k + 1) - 1 = k
        /\ \A i \in 1..(k + 1) : i \in 1..last
    BY <1>1
  <2>3. after[k].error = FALSE
    BY <2>1 DEF Handled
  <2>4. after[k + 1] = ImportOne(after[k], descriptor, repository, history[k + 1],
                                 failsAt = k + 1)
    BY <1>6, <2>2, <2>3, Zenon
  <2>5. \A i \in 1..(k + 1) : ~Stops(descriptor, history, failsAt, i)
    BY <1>2, <2>2
  <2>6. /\ ImportOne(Handled(stored, NewIn(k), k), descriptor, repository, history[k + 1],
                     failsAt = k + 1) = Handled(stored, NewIn(k + 1), k + 1)
        /\ IsFiniteSet(NewIn(k + 1))
    BY <2>1, <2>2, <2>5, OneHandled
  <2>7. k + 1 \in 0..last
    BY <1>1
  <2> QED
    BY <2>1, <2>4, <2>6, <2>7
<1>9. 0..last \subseteq handled
  <2>1. last \in Nat
    BY <1>1
  <2> HIDE DEF handled
  <2> QED
    BY <1>7, <1>8, <2>1, UpTo
<1> DEFINE new == NewIn(last)
<1>10. after[last] = Handled(stored, new, last) /\ IsFiniteSet(new)
  <2>1. last \in 0..last
    BY <1>1
  <2> QED
    BY <1>9, <2>1
<1>11. Cardinality(new) \in Nat
  BY <1>10, FS_CardinalityType
<1> HIDE DEF new
<1> DEFINE Counted == AccountedFor(stored, new, history, stops, last, result)
<1>12. ASSUME stops = {} PROVE Counted
  <2>1. result = Handled(stored, new, last)
    BY <1>4, <1>10, <1>12 DEF last
  <2>2. result.error = FALSE /\ (stops # {}) = FALSE
    BY <1>12, <2>1 DEF Handled
  <2>3. /\ result.stored = stored \cup new /\ result.accepted = Cardinality(new)
        /\ result.report.imported = Cardinality(new)
        /\ result.report.duplicates = last - Cardinality(new)
        /\ result.report.rejected = 0 /\ result.report.failed = 0
    BY <2>1 DEF Handled
  <2>4. result.report.rejected + result.report.failed = 0
    BY <2>3
  <2> QED
    BY <1>12, <2>2, <2>3, <2>4 DEF AccountedFor
<1>13. ASSUME stops # {} PROVE Counted
  <2> DEFINE next == ImportOne(Handled(stored, new, last), descriptor, repository,
                               history[last + 1], failsAt = last + 1)
             run == Handled(stored, new, last)
  <2>1. Ended(run, next, history[last + 1])
    <3>1. last \in Nat
      BY <1>1
    <3>2. Stops(descriptor, history, failsAt, last + 1)
      BY <1>3, <1>13
    <3> HIDE DEF next, run
    <3> QED
      BY <1>11, <3>1, <3>2, OneStopped, Zenon DEF next, run
  <2>2. after[last].error = FALSE
    BY <1>10 DEF Handled
  <2>3. last + 1 \in 1..n /\ (last + 1) - 1 = last
    BY <1>1, <1>3, <1>13
  <2>4. after[last + 1] = next
    <3>1. after[last + 1] = IF after[(last + 1) - 1].error THEN after[(last + 1) - 1]
                            ELSE ImportOne(after[(last + 1) - 1], descriptor, repository,
                                           history[last + 1], failsAt = last + 1)
      BY <1>6, <2>3, Zenon
    <3> QED
      BY <1>10, <2>2, <2>3, <3>1, Zenon
  <2> HIDE DEF next
  <2> DEFINE stopped == {j \in 0..(n - (last + 1)) : after[(last + 1) + j] = next}
  <2>5. 0 \in stopped
    BY <2>3, <2>4
  <2>6. ASSUME NEW j \in 0..((n - (last + 1)) - 1), j \in stopped PROVE j + 1 \in stopped
    <3>1. after[(last + 1) + j] = next
      BY <2>6
    <3>2. (last + 1) + (j + 1) \in 1..n /\ ((last + 1) + (j + 1)) - 1 = (last + 1) + j
      BY <1>1, <2>3
    <3>3. after[(last + 1) + (j + 1)] = next
      BY <1>6, <2>1, <3>1, <3>2, Zenon DEF Ended
    <3>4. j + 1 \in 0..(n - (last + 1))
      BY <1>1, <2>3
    <3> QED
      BY <3>3, <3>4
  <2>7. n - (last + 1) \in Nat
    BY <1>1, <2>3
  <2>8. 0..(n - (last + 1)) \subseteq stopped
    <3> HIDE DEF stopped
    <3> QED
      BY <2>5, <2>6, <2>7, UpTo
  <2>9. n - (last + 1) \in stopped
    <3> HIDE DEF stopped
    <3> QED
      BY <2>7, <2>8
  <2>10. (last + 1) + (n - (last + 1)) = n
    BY <1>1
  <2>11. result = next
    BY <1>4, <2>9, <2>10
  <2>12. /\ run.stored = stored \cup new /\ run.accepted = Cardinality(new)
         /\ run.report.imported = Cardinality(new)
         /\ run.report.duplicates = last - Cardinality(new)
    BY DEF Handled
  <2>13. FirstOf(stops) = last + 1
    BY <1>1, <1>13
  <2>14. (stops # {}) = TRUE
    BY <1>13
  <2> HIDE DEF run
  <2> QED
    BY <1>13, <2>1, <2>11, <2>12, <2>13, <2>14 DEF Ended, AccountedFor
<1>14. Counted
  BY <1>12, <1>13
<1> QED
  BY <1>1, <1>14 DEF Accounted, stops, last, new, result

-----------------------------------------------------------------------------
(* Commits.                                                                *)

\* The whole is the first, of m elements, and behind it the second, of n.
Behind(W, first, second, m, n, whole) ==
  /\ whole \in Seq(W) /\ Len(whole) = m + n
  /\ \A i \in 1..m : whole[i] = first[i]
  /\ \A i \in 1..n : whole[m + i] = second[i]

\* Two sequences behind one another keep their elements.
LEMMA Joined ==
  ASSUME NEW W, NEW s \in Seq(W), NEW t \in Seq(W), NEW m \in Nat, NEW n \in Nat,
         Len(s) = m, Len(t) = n
  PROVE  Behind(W, s, t, m, n, s \o t)
<1>1. /\ s \o t \in Seq(W) /\ Len(s \o t) = m + n
      /\ \A i \in 1..(m + n) : (s \o t)[i] = IF i <= m THEN s[i] ELSE t[i - m]
  BY ConcatProperties
<1>2. ASSUME NEW i \in 1..m PROVE (s \o t)[i] = s[i]
  <2>1. i \in 1..(m + n) /\ i <= m
    OBVIOUS
  <2> QED
    BY <1>1, <2>1
<1>3. ASSUME NEW i \in 1..n PROVE (s \o t)[m + i] = t[i]
  <2>1. m + i \in 1..(m + n) /\ ~(m + i <= m) /\ (m + i) - m = i
    OBVIOUS
  <2> QED
    BY <1>1, <2>1
<1> QED
  BY <1>1, <1>2, <1>3 DEF Behind

\* The words of an identity keep their places behind one another.
LEMMA PersonWords ==
  ASSUME NEW W, Open \in W, Close \in W,
         NEW name \in Seq(W), NEW email \in Seq(W), NEW stamp \in Seq(W),
         NEW a \in Nat, NEW b \in Nat, NEW c \in Nat,
         Len(name) = a, Len(email) = b, Len(stamp) = c
  PROVE  LET p == Person(name, email, stamp)
         IN  /\ p \in Seq(W) /\ Len(p) = a + b + 2 + c
             /\ \A i \in 1..a : p[i] = name[i]
             /\ p[a + 1] = Open
             /\ \A i \in 1..b : p[a + 1 + i] = email[i]
             /\ p[a + b + 2] = Close
             /\ \A i \in 1..c : p[a + b + 2 + i] = stamp[i]
<1> DEFINE s1 == name \o <<Open>>
           s2 == s1 \o email
           s3 == s2 \o <<Close>>
           s4 == s3 \o stamp
<1>1. <<Open>> \in Seq(W) /\ Len(<<Open>>) = 1 /\ <<Open>>[1] = Open
  OBVIOUS
<1>2. <<Close>> \in Seq(W) /\ Len(<<Close>>) = 1 /\ <<Close>>[1] = Close
  OBVIOUS
<1>3. /\ s1 \in Seq(W) /\ Len(s1) = a + 1
      /\ \A i \in 1..a : s1[i] = name[i]
      /\ \A i \in 1..1 : s1[a + i] = <<Open>>[i]
  <2>1. Behind(W, name, <<Open>>, a, 1, s1)
    <3>1. 1 \in Nat
      OBVIOUS
    <3> QED
      BY <1>1, <3>1, Joined, Zenon
  <2> HIDE DEF s1
  <2> QED
    BY <2>1 DEF Behind
<1> HIDE DEF s1
<1>4. /\ s2 \in Seq(W) /\ Len(s2) = a + 1 + b
      /\ \A i \in 1..(a + 1) : s2[i] = s1[i]
      /\ \A i \in 1..b : s2[a + 1 + i] = email[i]
  <2>1. a + 1 \in Nat /\ 1 \in Nat
    OBVIOUS
  <2>2. Behind(W, s1, email, a + 1, b, s2)
    BY <1>3, <2>1, Joined, Zenon
  <2> HIDE DEF s2
  <2> QED
    BY <2>2 DEF Behind
<1> HIDE DEF s2
<1>5. /\ s3 \in Seq(W) /\ Len(s3) = a + 1 + b + 1
      /\ \A i \in 1..(a + 1 + b) : s3[i] = s2[i]
      /\ \A i \in 1..1 : s3[a + 1 + b + i] = <<Close>>[i]
  <2>1. a + 1 + b \in Nat /\ 1 \in Nat
    OBVIOUS
  <2>2. Behind(W, s2, <<Close>>, a + 1 + b, 1, s3)
    BY <1>2, <1>4, <2>1, Joined, Zenon
  <2> HIDE DEF s3
  <2> QED
    BY <2>2 DEF Behind
<1> HIDE DEF s3
<1>6. /\ s4 \in Seq(W) /\ Len(s4) = a + 1 + b + 1 + c
      /\ \A i \in 1..(a + 1 + b + 1) : s4[i] = s3[i]
      /\ \A i \in 1..c : s4[a + 1 + b + 1 + i] = stamp[i]
  <2>1. a + 1 + b + 1 \in Nat /\ 1 \in Nat
    OBVIOUS
  <2>2. Behind(W, s3, stamp, a + 1 + b + 1, c, s4)
    BY <1>5, <2>1, Joined, Zenon
  <2> HIDE DEF s4
  <2> QED
    BY <2>2 DEF Behind
<1>7. Person(name, email, stamp) = s4
  BY DEF Person, s3, s2, s1
<1> HIDE DEF s4
<1>8. a + 1 + b + 1 = a + b + 2
  OBVIOUS
<1>9. \A i \in 1..(a + 1 + b) : s4[i] = s2[i]
  <2>1. \A i \in 1..(a + 1 + b) : i \in 1..(a + 1 + b + 1)
    OBVIOUS
  <2> QED
    BY <1>5, <1>6, <2>1
<1>10. \A i \in 1..(a + 1) : s4[i] = s1[i]
  <2>1. \A i \in 1..(a + 1) : i \in 1..(a + 1 + b)
    OBVIOUS
  <2> QED
    BY <1>4, <1>9, <2>1
<1>11. \A i \in 1..a : s4[i] = name[i]
  <2>1. \A i \in 1..a : i \in 1..(a + 1)
    OBVIOUS
  <2> QED
    BY <1>3, <1>10, <2>1
<1>12. s4[a + 1] = Open
  <2>1. a + 1 \in 1..(a + 1) /\ 1 \in 1..1
    OBVIOUS
  <2> QED
    BY <1>1, <1>3, <1>10, <2>1
<1>13. \A i \in 1..b : s4[a + 1 + i] = email[i]
  <2>1. \A i \in 1..b : a + 1 + i \in 1..(a + 1 + b)
    OBVIOUS
  <2> QED
    BY <1>4, <1>9, <2>1
<1>14. s4[a + b + 2] = Close
  <2>1. a + 1 + b + 1 \in 1..(a + 1 + b + 1) /\ 1 \in 1..1
    OBVIOUS
  <2> QED
    BY <1>2, <1>5, <1>6, <1>8, <2>1
<1>15. \A i \in 1..c : s4[a + b + 2 + i] = stamp[i]
  BY <1>6, <1>8
<1>16. Len(s4) = a + b + 2 + c
  BY <1>6, <1>8
<1> QED
  BY <1>6, <1>7, <1>11, <1>12, <1>13, <1>14, <1>15, <1>16

\* An identity is read as it was written, even if its name contains what divides
\* identities, and refused if its time is not one.
LEMMA IdentityRead ==
  ASSUME NEW W, Open \in W, Close \in W,
         NEW name \in Seq(W), NEW email \in Seq(W), NEW stamp \in Seq(W),
         \A i \in 1..Len(email) : email[i] # Open /\ email[i] # Close,
         \A i \in 1..Len(stamp) : stamp[i] # Open
  PROVE  ParseIdentity(Person(name, email, stamp)) =
           IF Len(stamp) # 2 \/ ~IsSeconds(stamp[1]) THEN {}
           ELSE {[name |-> name, email |-> email, seconds |-> stamp[1],
                  timezone |-> stamp[2]]}
<1> DEFINE p == Person(name, email, stamp)
           a == Len(name)
           b == Len(email)
           c == Len(stamp)
           opens == Positions(p, Open)
           suffix == From(p, LastOf(opens) + 1)
           closes == Positions(suffix, Close)
           rest == From(suffix, FirstOf(closes) + 1)
<1>1. /\ a \in Nat /\ b \in Nat /\ c \in Nat
      /\ Len(name) = a /\ Len(email) = b /\ Len(stamp) = c
  OBVIOUS
<1>2. /\ p \in Seq(W) /\ Len(p) = a + b + 2 + c
      /\ \A i \in 1..a : p[i] = name[i]
      /\ p[a + 1] = Open
      /\ \A i \in 1..b : p[a + 1 + i] = email[i]
      /\ p[a + b + 2] = Close
      /\ \A i \in 1..c : p[a + b + 2 + i] = stamp[i]
  <2> HIDE DEF a, b, c
  <2> QED
    BY <1>1, PersonWords
<1>3. \A i \in 1..b : email[i] # Open /\ email[i] # Close
  OBVIOUS
<1>4. \A i \in 1..c : stamp[i] # Open
  OBVIOUS
<1> HIDE DEF p, a, b, c
<1>5. DOMAIN p = 1..(a + b + 2 + c)
  BY <1>2
<1>6. a + 1 \in opens /\ \A j \in opens : j <= a + 1
  <2>1. a + 1 \in opens
    BY <1>1, <1>2, <1>5 DEF Positions
  <2>2. ASSUME NEW j \in opens, j > a + 1 PROVE FALSE
    <3>1. j \in 1..(a + b + 2 + c) /\ p[j] = Open
      BY <1>5, <2>2 DEF Positions
    <3>2. CASE j <= a + 1 + b
      <4>1. j - (a + 1) \in 1..b /\ j = a + 1 + (j - (a + 1))
        BY <1>1, <2>2, <3>1, <3>2
      <4> QED
        BY <1>2, <1>3, <3>1, <4>1
    <3>3. CASE j = a + b + 2
      BY <1>2, <3>1, <3>3 DEF Open, Close
    <3>4. CASE j > a + b + 2
      <4>1. j - (a + b + 2) \in 1..c /\ j = a + b + 2 + (j - (a + b + 2))
        BY <1>1, <3>1, <3>4
      <4> QED
        BY <1>2, <1>4, <3>1, <4>1
    <3> QED
      BY <1>1, <3>1, <3>2, <3>3, <3>4
  <2>3. \A j \in opens : j \in Nat
    BY <1>5 DEF Positions
  <2> QED
    BY <1>1, <2>1, <2>2, <2>3
<1>7. LastOf(opens) = a + 1
  <2>1. /\ LastOf(opens) \in opens /\ \A j \in opens : j <= LastOf(opens)
    BY <1>6 DEF LastOf
  <2>2. LastOf(opens) \in Nat
    BY <1>5, <2>1 DEF Positions
  <2> QED
    BY <1>1, <1>6, <2>1, <2>2
<1> HIDE DEF opens
<1>8. /\ suffix \in Seq(W) /\ Len(suffix) = b + 1 + c
      /\ \A i \in 1..(b + 1 + c) : suffix[i] = p[a + 1 + i]
  <2>1. suffix = SubSeq(p, a + 2, a + b + 2 + c)
    <3>1. suffix = SubSeq(p, LastOf(opens) + 1, Len(p))
      BY DEF From
    <3>2. LastOf(opens) + 1 = a + 2
      BY <1>1, <1>7
    <3>3. Len(p) = a + b + 2 + c
      BY <1>2
    <3> HIDE DEF suffix
    <3> QED
      BY <3>1, <3>2, <3>3
  <2>2. \A i \in (a + 2)..(a + b + 2 + c) : p[i] \in W
    BY <1>1, <1>2
  <2>3. /\ SubSeq(p, a + 2, a + b + 2 + c) \in Seq(W)
        /\ Len(SubSeq(p, a + 2, a + b + 2 + c))
             = IF a + 2 <= a + b + 2 + c THEN (a + b + 2 + c) - (a + 2) + 1 ELSE 0
        /\ \A i \in 1..((a + b + 2 + c) - (a + 2) + 1) :
             SubSeq(p, a + 2, a + b + 2 + c)[i] = p[(a + 2) + i - 1]
    <3>1. a + 2 \in Int /\ a + b + 2 + c \in Int
      BY <1>1
    <3> QED
      BY <2>2, <3>1, SubSeqProperties
  <2> HIDE DEF suffix
  <2>4. suffix \in Seq(W) /\ Len(suffix) = b + 1 + c
    <3>1. (IF a + 2 <= a + b + 2 + c THEN (a + b + 2 + c) - (a + 2) + 1 ELSE 0) = b + 1 + c
      BY <1>1
    <3> QED
      BY <2>1, <2>3, <3>1
  <2>5. \A i \in 1..(b + 1 + c) : (a + 2) + i - 1 = a + 1 + i
                                    /\ i \in 1..((a + b + 2 + c) - (a + 2) + 1)
    BY <1>1
  <2> QED
    BY <2>1, <2>3, <2>4, <2>5
<1> HIDE DEF suffix
<1>9. DOMAIN suffix = 1..(b + 1 + c)
  BY <1>8
<1>10. ASSUME NEW i \in 1..b PROVE suffix[i] = email[i]
  <2>1. i \in 1..(b + 1 + c)
    BY <1>1
  <2>2. suffix[i] = p[a + 1 + i]
    BY <1>8, <2>1
  <2> QED
    BY <1>2, <2>2
<1>11. suffix[b + 1] = Close
  <2>1. b + 1 \in 1..(b + 1 + c) /\ a + 1 + (b + 1) = a + b + 2
    BY <1>1
  <2> QED
    BY <1>2, <1>8, <2>1
<1>12. \A i \in 1..c : suffix[b + 1 + i] = stamp[i]
  <2>1. \A i \in 1..c : b + 1 + i \in 1..(b + 1 + c) /\ a + 1 + (b + 1 + i) = a + b + 2 + i
    BY <1>1
  <2> QED
    BY <1>2, <1>8, <2>1
<1>13. b + 1 \in closes /\ \A j \in closes : b + 1 <= j
  <2>1. b + 1 \in closes
    BY <1>1, <1>9, <1>11 DEF Positions
  <2>2. ASSUME NEW j \in closes PROVE b + 1 <= j
    <3>1. j \in 1..(b + 1 + c) /\ suffix[j] = Close
      BY <1>9 DEF Positions
    <3>2. j \notin 1..b
      BY <1>3, <1>10, <3>1
    <3> QED
      BY <1>1, <3>1, <3>2
  <2> QED
    BY <2>1, <2>2
<1>14. FirstOf(closes) = b + 1
  <2>1. FirstOf(closes) \in closes /\ \A j \in closes : FirstOf(closes) <= j
    BY <1>13 DEF FirstOf
  <2>2. FirstOf(closes) \in Nat
    BY <1>9, <2>1 DEF Positions
  <2> QED
    BY <1>1, <1>13, <2>1, <2>2
<1> HIDE DEF closes
<1>15. rest = stamp
  <2>1. rest = SubSeq(suffix, b + 2, b + 1 + c)
    <3>1. rest = SubSeq(suffix, FirstOf(closes) + 1, Len(suffix))
      BY DEF From
    <3>2. FirstOf(closes) + 1 = b + 2
      BY <1>1, <1>14
    <3> HIDE DEF rest
    <3> QED
      BY <1>8, <3>1, <3>2
  <2>2. \A i \in (b + 2)..(b + 1 + c) : suffix[i] \in W
    BY <1>1, <1>8
  <2>3. /\ SubSeq(suffix, b + 2, b + 1 + c) \in Seq(W)
        /\ Len(SubSeq(suffix, b + 2, b + 1 + c))
             = IF b + 2 <= b + 1 + c THEN (b + 1 + c) - (b + 2) + 1 ELSE 0
        /\ \A i \in 1..((b + 1 + c) - (b + 2) + 1) :
             SubSeq(suffix, b + 2, b + 1 + c)[i] = suffix[(b + 2) + i - 1]
    <3>1. b + 2 \in Int /\ b + 1 + c \in Int
      BY <1>1
    <3> QED
      BY <2>2, <3>1, SubSeqProperties
  <2> HIDE DEF rest
  <2>4. rest \in Seq(W) /\ Len(rest) = c
    <3>1. (IF b + 2 <= b + 1 + c THEN (b + 1 + c) - (b + 2) + 1 ELSE 0) = c
      BY <1>1
    <3> QED
      BY <2>1, <2>3, <3>1
  <2>5. \A i \in 1..c : (b + 2) + i - 1 = b + 1 + i /\ i \in 1..((b + 1 + c) - (b + 2) + 1)
    BY <1>1
  <2>6. \A i \in 1..c : rest[i] = stamp[i]
    BY <1>12, <2>1, <2>3, <2>5
  <2> QED
    BY <2>4, <2>6, SeqEqual DEF c
<1>16. SubSeq(p, 1, LastOf(opens) - 1) = name
  <2>1. LastOf(opens) - 1 = a
    BY <1>1, <1>7
  <2>2. \A i \in 1..a : p[i] \in W
    BY <1>1, <1>2
  <2>3. /\ SubSeq(p, 1, a) \in Seq(W)
        /\ Len(SubSeq(p, 1, a)) = IF 1 <= a THEN a - 1 + 1 ELSE 0
        /\ \A i \in 1..(a - 1 + 1) : SubSeq(p, 1, a)[i] = p[1 + i - 1]
    <3>1. 1 \in Int /\ a \in Int
      BY <1>1
    <3> QED
      BY <2>2, <3>1, SubSeqProperties
  <2>4. Len(SubSeq(p, 1, a)) = a
    BY <1>1, <2>3
  <2>5. \A i \in 1..a : SubSeq(p, 1, a)[i] = name[i]
    <3>1. \A i \in 1..a : i \in 1..(a - 1 + 1) /\ 1 + i - 1 = i
      BY <1>1
    <3> QED
      BY <1>2, <2>3, <3>1
  <2>6. SubSeq(p, 1, a) = name
    BY <2>3, <2>4, <2>5, SeqEqual DEF a
  <2> QED
    BY <2>1, <2>6
<1>17. SubSeq(suffix, 1, FirstOf(closes) - 1) = email
  <2>1. FirstOf(closes) - 1 = b
    BY <1>1, <1>14
  <2>2. \A i \in 1..b : suffix[i] \in W
    BY <1>1, <1>8
  <2>3. /\ SubSeq(suffix, 1, b) \in Seq(W)
        /\ Len(SubSeq(suffix, 1, b)) = IF 1 <= b THEN b - 1 + 1 ELSE 0
        /\ \A i \in 1..(b - 1 + 1) : SubSeq(suffix, 1, b)[i] = suffix[1 + i - 1]
    <3>1. 1 \in Int /\ b \in Int
      BY <1>1
    <3> QED
      BY <2>2, <3>1, SubSeqProperties
  <2>4. Len(SubSeq(suffix, 1, b)) = b
    BY <1>1, <2>3
  <2>5. \A i \in 1..b : SubSeq(suffix, 1, b)[i] = email[i]
    <3>1. \A i \in 1..b : i \in 1..(b - 1 + 1) /\ 1 + i - 1 = i
      BY <1>1
    <3> QED
      BY <1>10, <2>3, <3>1
  <2>6. SubSeq(suffix, 1, b) = email
    BY <2>3, <2>4, <2>5, SeqEqual DEF b
  <2> QED
    BY <2>1, <2>6
<1>18. opens # {} /\ closes # {}
  BY <1>6, <1>13
<1> DEFINE Read(s) == IF Len(s) # 2 \/ ~IsSeconds(s[1]) THEN {}
                      ELSE {[name |-> SubSeq(p, 1, LastOf(opens) - 1),
                             email |-> SubSeq(suffix, 1, FirstOf(closes) - 1),
                             seconds |-> s[1], timezone |-> s[2]]}
<1>19. ParseIdentity(p) = IF opens = {} \/ closes = {} THEN {} ELSE Read(rest)
  BY DEF ParseIdentity, opens, closes, suffix
<1> HIDE DEF rest
<1>20. ParseIdentity(p) = Read(stamp)
  <2> HIDE DEF Read
  <2> QED
    BY <1>15, <1>18, <1>19
<1> QED
  BY <1>16, <1>17, <1>20 DEF p

Letters == {"n", "x", "m", "c", "5", "z", Open, Close}
Emails == {<<"m">>, <<>>}
NoTimes == {<<>>, <<"5">>, <<"x", "z">>, <<"5", "z", "x">>}

\* Sequences of at most three elements.
LEMMA FewWords ==
  ASSUME NEW W, NEW x \in W, NEW y \in W, NEW z \in W
  PROVE  /\ <<>> \in Seq(W) /\ Len(<<>>) = 0
         /\ <<x>> \in Seq(W) /\ Len(<<x>>) = 1 /\ \A i \in 1..1 : <<x>>[i] = x
         /\ <<x, y>> \in Seq(W) /\ Len(<<x, y>>) = 2 /\ \A i \in 1..2 : <<x, y>>[i] \in {x, y}
         /\ <<x, y, z>> \in Seq(W) /\ Len(<<x, y, z>>) = 3
         /\ \A i \in 1..3 : <<x, y, z>>[i] \in {x, y, z}
<1>1. \A i \in 1..1 : i = 1
  OBVIOUS
<1>2. \A i \in 1..2 : i = 1 \/ i = 2
  OBVIOUS
<1>3. \A i \in 1..3 : i = 1 \/ i = 2 \/ i = 3
  OBVIOUS
<1>4. /\ <<x>>[1] = x /\ <<x, y>>[1] = x /\ <<x, y>>[2] = y
      /\ <<x, y, z>>[1] = x /\ <<x, y, z>>[2] = y /\ <<x, y, z>>[3] = z
  OBVIOUS
<1>5. \A i \in 1..1 : <<x>>[i] = x
  BY <1>1, <1>4
<1>6. \A i \in 1..2 : <<x, y>>[i] \in {x, y}
  BY <1>2, <1>4
<1>7. \A i \in 1..3 : <<x, y, z>>[i] \in {x, y, z}
  BY <1>3, <1>4
<1> QED
  BY <1>5, <1>6, <1>7

\* The words of what follows a name do not divide it.
Clear(W, s) == s \in Seq(W) /\ \A i \in 1..Len(s) : s[i] \in W \ {Open, Close}

\* Sequences of such words.
LEMMA ClearWords ==
  ASSUME NEW x \in Letters \ {Open, Close}, NEW y \in Letters \ {Open, Close},
         NEW z \in Letters \ {Open, Close}
  PROVE  /\ Clear(Letters, <<>>) /\ Clear(Letters, <<x>>) /\ Clear(Letters, <<x, y>>)
         /\ Clear(Letters, <<x, y, z>>)
<1> DEFINE W == Letters
<1>1. x \in W /\ y \in W /\ z \in W
  OBVIOUS
<1>2. /\ <<>> \in Seq(W) /\ Len(<<>>) = 0
      /\ <<x>> \in Seq(W) /\ Len(<<x>>) = 1 /\ \A i \in 1..1 : <<x>>[i] = x
      /\ <<x, y>> \in Seq(W) /\ Len(<<x, y>>) = 2 /\ \A i \in 1..2 : <<x, y>>[i] \in {x, y}
      /\ <<x, y, z>> \in Seq(W) /\ Len(<<x, y, z>>) = 3
      /\ \A i \in 1..3 : <<x, y, z>>[i] \in {x, y, z}
  <2> HIDE DEF W
  <2> QED
    BY <1>1, FewWords
<1>3. Clear(W, <<>>)
  BY <1>2 DEF Clear
<1>4. Clear(W, <<x>>)
  BY <1>2 DEF Clear
<1>5. Clear(W, <<x, y>>)
  BY <1>2 DEF Clear
<1>6. Clear(W, <<x, y, z>>)
  BY <1>2 DEF Clear
<1> QED
  BY <1>3, <1>4, <1>5, <1>6

\* The words that do not divide an identity.
LEMMA ClearLetters == {"n", "x", "m", "c", "5", "z"} \subseteq Letters \ {Open, Close}
  BY DEF Letters, Open, Close

\* The parts of the identities of the commits a collection is given.
LEMMA IdentityParts ==
  /\ Open \in Letters /\ Close \in Letters
  /\ Names \subseteq Seq(Letters)
  /\ \A e \in Emails : Clear(Letters, e)
  /\ \A s \in NoTimes \cup {Stamp} : Clear(Letters, s)
<1>1. Open \in Letters /\ Close \in Letters
  BY DEF Letters
<1>2. Names \subseteq Seq(Letters)
  BY DEF Letters, Names
<1>3. Clear(Letters, <<"m">>) /\ Clear(Letters, <<>>) /\ Clear(Letters, <<"5">>)
  BY ClearLetters, ClearWords
<1>4. Clear(Letters, <<"5", "z">>) /\ Clear(Letters, <<"x", "z">>)
  BY ClearLetters, ClearWords
<1>5. Clear(Letters, <<"5", "z", "x">>)
  BY ClearLetters, ClearWords
<1> QED
  BY <1>1, <1>2, <1>3, <1>4, <1>5 DEF Emails, NoTimes, Stamp

\* A reader of an identity knows what it should know, and no more.
KnownAs(value, a) ==
  IF a.known THEN \E p : ParseIdentity(value) = {p} /\ p.name = a.name /\ p.email = a.email
  ELSE ParseIdentity(value) = {}

\* A time is two words, of which the first is a number of seconds.
LEMMA StampRead ==
  /\ Len(Stamp) = 2 /\ IsSeconds(Stamp[1])
  /\ \A s \in NoTimes : Len(s) # 2 \/ ~IsSeconds(s[1])
<1>1. Len(Stamp) = 2 /\ IsSeconds(Stamp[1])
  BY DEF Stamp, IsSeconds
<1>2. Len(<<>>) = 0 /\ Len(<<"5">>) = 1 /\ Len(<<"5", "z", "x">>) = 3
  OBVIOUS
<1>3. ~IsSeconds(<<"x", "z">>[1])
  BY DEF IsSeconds
<1>4. ASSUME NEW s \in NoTimes PROVE Len(s) # 2 \/ ~IsSeconds(s[1])
  <2>1. CASE s = <<"x", "z">>
    BY <1>3, <2>1
  <2>2. CASE s # <<"x", "z">>
    BY <1>2, <2>2 DEF NoTimes
  <2> QED
    BY <2>1, <2>2
<1> QED
  BY <1>1, <1>4

\* An identity that nothing divides, and one that nothing ends.
LEMMA NoDivider ==
  /\ ParseIdentity(<<"n">> \o Stamp) = {}
  /\ ParseIdentity(<<"n", Open, "m">>) = {}
<1>1. ParseIdentity(<<"n">> \o Stamp) = {}
  <2> DEFINE first == <<"n">>
             v == first \o Stamp
  <2>1. Clear(Letters, first) /\ Clear(Letters, Stamp)
    BY ClearLetters, ClearWords, IdentityParts
  <2>2. Len(first) = 1 /\ Len(Stamp) = 2 /\ 1 \in Nat /\ 2 \in Nat
    BY StampRead
  <2> HIDE DEF first
  <2>3. Behind(Letters, first, Stamp, 1, 2, v)
    BY <2>1, <2>2, Joined, Zenon DEF Clear
  <2> HIDE DEF v
  <2>4. v \in Seq(Letters) /\ Len(v) = 3
    BY <2>3 DEF Behind
  <2>5. ASSUME NEW i \in 1..3 PROVE v[i] # Open
    <3>1. CASE i = 1
      BY <2>1, <2>2, <2>3, <3>1 DEF Behind, Clear
    <3>2. CASE i # 1
      <4>1. i - 1 \in 1..2 /\ i = 1 + (i - 1)
        BY <3>2
      <4>2. v[i] = Stamp[i - 1]
        BY <2>3, <4>1 DEF Behind
      <4> QED
        BY <2>1, <2>2, <4>1, <4>2 DEF Clear
    <3> QED
      BY <3>1, <3>2
  <2>6. DOMAIN v = 1..3
    BY <2>4
  <2>7. Positions(v, Open) = {}
    BY <2>5, <2>6 DEF Positions
  <2>8. ParseIdentity(v) = {}
    BY <2>7 DEF ParseIdentity
  <2> QED
    BY <2>8 DEF v, first
<1>2. ParseIdentity(<<"n", Open, "m">>) = {}
  <2> DEFINE v == <<"n", Open, "m">>
  <2>1. /\ v \in Seq(Letters) /\ Len(v) = 3 /\ DOMAIN v = 1..3
        /\ v[1] = "n" /\ v[2] = Open /\ v[3] = "m"
    BY DEF Letters
  <2> HIDE DEF v
  <2>2. "n" # Open /\ "m" # Open /\ "m" # Close
    BY DEF Open, Close
  <2>3. \A i \in 1..3 : v[i] = Open <=> i = 2
    <3>1. \A i \in 1..3 : i = 1 \/ i = 2 \/ i = 3
      OBVIOUS
    <3> QED
      BY <2>1, <2>2, <3>1
  <2>4. Positions(v, Open) = {2}
    BY <2>1, <2>3 DEF Positions
  <2>5. LastOf({2}) = 2
    BY DEF LastOf
  <2> DEFINE suffix == From(v, LastOf(Positions(v, Open)) + 1)
  <2>6. suffix = SubSeq(v, 3, 3)
    BY <2>1, <2>4, <2>5 DEF From
  <2>7. /\ SubSeq(v, 3, 3) \in Seq(Letters)
        /\ Len(SubSeq(v, 3, 3)) = IF 3 <= 3 THEN 3 - 3 + 1 ELSE 0
        /\ \A i \in 1..(3 - 3 + 1) : SubSeq(v, 3, 3)[i] = v[3 + i - 1]
    <3>1. 3 \in Int /\ \A i \in 3..3 : v[i] \in Letters
      <4>1. \A i \in 3..3 : i = 3
        OBVIOUS
      <4>2. v[3] \in Letters
        BY <2>1 DEF Letters
      <4> QED
        BY <4>1, <4>2
    <3> QED
      BY <3>1, SubSeqProperties
  <2> HIDE DEF suffix
  <2>8. DOMAIN suffix = 1..1
    BY <2>6, <2>7
  <2>9. \A i \in 1..1 : suffix[i] = "m"
    <3>1. \A i \in 1..1 : i \in 1..(3 - 3 + 1) /\ 3 + i - 1 = 3
      OBVIOUS
    <3> QED
      BY <2>1, <2>6, <2>7, <3>1
  <2>10. Positions(suffix, Close) = {}
    BY <2>2, <2>8, <2>9 DEF Positions
  <2>11. ParseIdentity(v) = {}
    BY <2>10 DEF ParseIdentity, suffix
  <2> QED
    BY <2>11 DEF v
<1> QED
  BY <1>1, <1>2

\* The author of a commit is read or refused as it should be.
LEMMA AuthorsRead == \A a \in Authors : KnownAs(a.text, a)
<1>1. ASSUME NEW n \in Names, NEW e \in Emails, NEW s \in NoTimes \cup {Stamp}
      PROVE  ParseIdentity(Person(n, e, s)) =
               IF Len(s) # 2 \/ ~IsSeconds(s[1]) THEN {}
               ELSE {[name |-> n, email |-> e, seconds |-> s[1], timezone |-> s[2]]}
  <2>1. n \in Seq(Letters) /\ Clear(Letters, e) /\ Clear(Letters, s)
    BY IdentityParts
  <2>2. e \in Seq(Letters) /\ \A i \in 1..Len(e) : e[i] # Open /\ e[i] # Close
    BY <2>1 DEF Clear
  <2>3. s \in Seq(Letters) /\ \A i \in 1..Len(s) : s[i] # Open
    BY <2>1 DEF Clear
  <2>4. Open \in Letters /\ Close \in Letters
    BY IdentityParts
  <2> QED
    BY <2>1, <2>2, <2>3, <2>4, IdentityRead
<1>2. ASSUME NEW n \in Names, NEW e \in Emails, NEW a,
             a = [text |-> Person(n, e, Stamp), known |-> TRUE, name |-> n, email |-> e]
      PROVE  KnownAs(a.text, a)
  <2>1. a.known /\ a.text = Person(n, e, Stamp) /\ a.name = n /\ a.email = e
    BY <1>2
  <2> DEFINE p == [name |-> n, email |-> e, seconds |-> Stamp[1], timezone |-> Stamp[2]]
  <2>2. ParseIdentity(a.text) = {p}
    BY <1>1, <2>1, StampRead
  <2>3. p.name = a.name /\ p.email = a.email
    BY <2>1
  <2> HIDE DEF p
  <2> QED
    BY <2>1, <2>2, <2>3 DEF KnownAs
<1>3. ASSUME NEW s \in NoTimes PROVE ParseIdentity(Person(<<"n">>, <<"m">>, s)) = {}
  <2>1. <<"n">> \in Names /\ <<"m">> \in Emails
    BY DEF Names, Emails
  <2> QED
    BY <1>1, <2>1, StampRead
<1>4. ASSUME NEW a \in Authors PROVE KnownAs(a.text, a)
  <2>1. CASE \E p \in [name : Names, email : Emails] :
               a = [text |-> Person(p.name, p.email, Stamp), known |-> TRUE,
                    name |-> p.name, email |-> p.email]
    BY <1>2, <2>1
  <2>2. CASE \E t \in {<<"n">> \o Stamp, <<"n", Open, "m">>}
                        \cup {Person(<<"n">>, <<"m">>, s) : s \in NoTimes} :
               a = [text |-> t, known |-> FALSE, name |-> <<>>, email |-> <<>>]
    <3>1. PICK t \in {<<"n">> \o Stamp, <<"n", Open, "m">>}
                       \cup {Person(<<"n">>, <<"m">>, s) : s \in NoTimes} :
            a = [text |-> t, known |-> FALSE, name |-> <<>>, email |-> <<>>]
      BY <2>2
    <3>2. ParseIdentity(t) = {}
      <4>1. CASE t \in {<<"n">> \o Stamp, <<"n", Open, "m">>}
        BY <4>1, NoDivider
      <4>2. CASE \E s \in NoTimes : t = Person(<<"n">>, <<"m">>, s)
        BY <1>3, <4>2
      <4> QED
        BY <4>1, <4>2
    <3>3. a.known = FALSE /\ a.text = t
      BY <3>1
    <3> QED
      BY <3>2, <3>3 DEF KnownAs
  <2> QED
    BY <2>1, <2>2 DEF Authors, Emails, NoTimes
<1> QED
  BY <1>4

\* Where the headers of a commit are.
LEMMA HeadersPlaced ==
  ASSUME NEW draft, draft.committed \in BOOLEAN, NEW parents \in Seq(Int),
         NEW m \in Nat, m = Len(parents)
  PROVE  LET headers == Raw(draft, parents).headers
             Places(key) == {i \in DOMAIN headers : headers[i].key = key}
         IN  /\ Places("author") = {m + 2} /\ headers[m + 2].value = draft.author.text
             /\ Places("committer") = IF draft.committed THEN {m + 3} ELSE {}
             /\ draft.committed => headers[m + 3].value = Committer
<1> DEFINE tree == Header("tree", <<"t">>)
           author == Header("author", draft.author.text)
           committer == Header("committer", Committer)
           U == {tree, author, committer} \cup {Header("parent", <<p>>) : p \in Int}
           P == [i \in DOMAIN parents |-> Header("parent", <<parents[i]>>)]
           C == IF draft.committed THEN <<committer>> ELSE <<>>
           s1 == <<tree>> \o P
           s2 == s1 \o <<author>>
           headers == s2 \o C
           c == IF draft.committed THEN 1 ELSE 0
<1>1. tree \in U /\ author \in U /\ committer \in U /\ \A p \in Int : Header("parent", <<p>>) \in U
  OBVIOUS
<1>2. /\ tree.key = "tree" /\ author.key = "author" /\ committer.key = "committer"
      /\ author.value = draft.author.text /\ committer.value = Committer
      /\ \A p : Header("parent", <<p>>).key = "parent"
  BY DEF Header
<1> HIDE DEF U, tree, author, committer
<1>3. P \in Seq(U) /\ Len(P) = m /\ \A i \in 1..m : P[i].key = "parent"
  <2>1. DOMAIN parents = 1..m /\ \A i \in 1..m : parents[i] \in Int
    OBVIOUS
  <2>2. P \in [1..m -> U]
    BY <1>1, <2>1
  <2>3. \A i \in 1..m : P[i] = Header("parent", <<parents[i]>>)
    BY <2>1
  <2> HIDE DEF P
  <2>4. P \in Seq(U) /\ Len(P) = m
    BY <2>2
  <2> QED
    BY <1>2, <2>3, <2>4
<1>4. /\ <<tree>> \in Seq(U) /\ Len(<<tree>>) = 1 /\ \A i \in 1..1 : <<tree>>[i] = tree
      /\ <<author>> \in Seq(U) /\ Len(<<author>>) = 1 /\ \A i \in 1..1 : <<author>>[i] = author
      /\ <<committer>> \in Seq(U) /\ Len(<<committer>>) = 1
      /\ \A i \in 1..1 : <<committer>>[i] = committer
      /\ <<>> \in Seq(U) /\ Len(<<>>) = 0
  BY <1>1, FewWords
<1>5. C \in Seq(U) /\ Len(C) = c /\ \A i \in 1..c : C[i] = committer
  <2>1. CASE draft.committed
    BY <1>4, <2>1
  <2>2. CASE ~draft.committed
    BY <1>4, <2>2
  <2> QED
    BY <2>1, <2>2
<1>6. c \in Nat /\ 1 \in Nat /\ 1 + m \in Nat /\ (1 + m) + 1 \in Nat
  OBVIOUS
<1> HIDE DEF P, C
<1>7. Behind(U, <<tree>>, P, 1, m, s1)
  BY <1>3, <1>4, <1>6, Joined
<1>8. s1 \in Seq(U) /\ Len(s1) = 1 + m
  BY <1>7 DEF Behind
<1> HIDE DEF s1
<1>9. Behind(U, s1, <<author>>, 1 + m, 1, s2)
  BY <1>4, <1>6, <1>8, Joined
<1>10. s2 \in Seq(U) /\ Len(s2) = (1 + m) + 1
  BY <1>9 DEF Behind
<1> HIDE DEF s2, c
<1>11. Behind(U, s2, C, (1 + m) + 1, c, headers)
  BY <1>5, <1>6, <1>10, Joined
<1>12. Raw(draft, parents).headers = headers
  BY DEF Raw, headers, s2, s1, P, C, tree, author, committer
<1> HIDE DEF headers
<1>13. headers \in Seq(U) /\ Len(headers) = m + 2 + c
  BY <1>6, <1>11 DEF Behind
<1>14. DOMAIN headers = 1..(m + 2 + c)
  BY <1>13
<1>15. headers[1] = tree
  <2>1. 1 \in 1..((1 + m) + 1) /\ 1 \in 1..(1 + m) /\ 1 \in 1..1
    OBVIOUS
  <2> QED
    BY <1>4, <1>7, <1>9, <1>11, <2>1 DEF Behind
<1>16. ASSUME NEW i \in 1..m PROVE headers[1 + i].key = "parent"
  <2>1. 1 + i \in 1..((1 + m) + 1) /\ 1 + i \in 1..(1 + m)
    OBVIOUS
  <2>2. headers[1 + i] = s2[1 + i]
    BY <1>11, <2>1 DEF Behind
  <2>3. s2[1 + i] = s1[1 + i]
    BY <1>9, <2>1 DEF Behind
  <2>4. s1[1 + i] = P[i]
    BY <1>7 DEF Behind
  <2> QED
    BY <1>3, <2>2, <2>3, <2>4
<1>17. headers[m + 2] = author
  <2>1. m + 2 \in 1..((1 + m) + 1) /\ m + 2 = (1 + m) + 1 /\ 1 \in 1..1
    OBVIOUS
  <2> QED
    BY <1>4, <1>9, <1>11, <2>1 DEF Behind
<1>18. \A i \in 1..c : headers[m + 2 + i] = committer
  <2>1. \A i : i \in 1..c => m + 2 + i = ((1 + m) + 1) + i
    BY <1>6
  <2> QED
    BY <1>5, <1>11, <2>1 DEF Behind
<1>19. ASSUME NEW i \in DOMAIN headers
       PROVE  \/ i = 1 \/ (i - 1 \in 1..m /\ i = 1 + (i - 1)) \/ i = m + 2
              \/ (c = 1 /\ i = m + 3 /\ 1 \in 1..c /\ m + 2 + 1 = m + 3)
  BY <1>14 DEF c
<1>20. ASSUME NEW i \in DOMAIN headers
       PROVE  /\ headers[i].key = "author" <=> i = m + 2
              /\ headers[i].key = "committer" <=> c = 1 /\ i = m + 3
  <2>1. CASE i = 1
    BY <1>2, <1>15, <2>1
  <2>2. CASE i - 1 \in 1..m /\ i = 1 + (i - 1)
    <3>1. headers[i].key = "parent"
      BY <1>16, <2>2
    <3>2. i # m + 2 /\ i # m + 3
      BY <2>2
    <3> QED
      BY <3>1, <3>2
  <2>3. CASE i = m + 2
    BY <1>2, <1>17, <2>3
  <2>4. CASE c = 1 /\ i = m + 3 /\ 1 \in 1..c /\ m + 2 + 1 = m + 3
    <3>1. headers[i] = committer
      BY <1>18, <2>4
    <3>2. m + 3 # m + 2
      OBVIOUS
    <3> QED
      BY <1>2, <2>4, <3>1, <3>2
  <2> QED
    BY <1>19, <2>1, <2>2, <2>3, <2>4
<1>21. m + 2 \in DOMAIN headers /\ (c = 1 => m + 3 \in DOMAIN headers)
  BY <1>6, <1>14
<1> DEFINE Places(key) == {i \in DOMAIN headers : headers[i].key = key}
<1>22. Places("author") = {m + 2}
  BY <1>20, <1>21
<1>23. Places("committer") = IF draft.committed THEN {m + 3} ELSE {}
  <2>1. draft.committed <=> c = 1
    BY DEF c
  <2> QED
    BY <1>20, <1>21, <2>1
<1>24. draft.committed => headers[m + 3].value = Committer
  <2>1. draft.committed => 1 \in 1..c /\ m + 2 + 1 = m + 3
    BY DEF c
  <2> QED
    BY <1>2, <1>18, <2>1
<1> QED
  BY <1>2, <1>12, <1>17, <1>22, <1>23, <1>24

\* The committer of a commit is read.
LEMMA CommitterRead == ParseIdentity(Committer) # {}
<1> DEFINE name == <<"c">>
           email == <<"m">>
<1>1. Clear(Letters, name) /\ Clear(Letters, email) /\ Clear(Letters, Stamp)
  BY ClearLetters, ClearWords, IdentityParts
<1>2. Committer = Person(name, email, Stamp)
  BY DEF Committer
<1> HIDE DEF name, email
<1>3. /\ name \in Seq(Letters) /\ email \in Seq(Letters) /\ Stamp \in Seq(Letters)
      /\ \A i \in 1..Len(email) : email[i] # Open /\ email[i] # Close
      /\ \A i \in 1..Len(Stamp) : Stamp[i] # Open
  BY <1>1 DEF Clear
<1>4. Open \in Letters /\ Close \in Letters
  BY IdentityParts
<1>5. ParseIdentity(Person(name, email, Stamp)) =
        IF Len(Stamp) # 2 \/ ~IsSeconds(Stamp[1]) THEN {}
        ELSE {[name |-> name, email |-> email, seconds |-> Stamp[1],
               timezone |-> Stamp[2]]}
  BY <1>3, <1>4, IdentityRead
<1> QED
  BY <1>2, <1>5, StampRead

\* Whether a reader can know what a commit says.
Known(draft) == draft.author.known /\ draft.committed /\ draft.utf8 /\ draft.separated

\* A commit is read as it was written, or refused.
LEMMA CommitRead ==
  ASSUME NEW draft, draft.author \in Authors, draft.committed \in BOOLEAN,
         NEW parents \in Seq(Int), NEW event,
         event.connector = GitConnector, event.kind = CommitKind,
         event.raw = Raw(draft, parents), DOMAIN event.metadata = RequiredMetadata
  PROVE  IF Known(draft)
         THEN \E c : /\ ParseCommit(event) = {c}
                     /\ c.author.name = draft.author.name /\ c.author.email = draft.author.email
                     /\ c.subject = IF draft.message = <<>> THEN "" ELSE draft.message[1]
                     /\ c.repository = event.metadata["git.repository_display_name"]
         ELSE ParseCommit(event) = {}
<1> DEFINE raw == event.raw
           m == Len(parents)
           Places(key) == {i \in DOMAIN raw.headers : raw.headers[i].key = key}
           Values2(key) == [i \in Places(key) |-> raw.headers[i].value]
           Identities(key) == [i \in Places(key) |-> ParseIdentity(Values2(key)[i])]
           Individual(key) == CHOOSE p \in Identities(key)[LastOf(Places(key))] : TRUE
           wellFormed == \A key \in {"author", "committer"} :
                           /\ Places(key) # {}
                           /\ \A i \in Places(key) : Identities(key)[i] # {}
           acceptable ==
             /\ event.connector = GitConnector /\ event.kind = CommitKind
             /\ RequiredMetadata \subseteq DOMAIN event.metadata
             /\ raw.utf8 /\ raw.separated
             /\ wellFormed
           commit ==
             [repository |-> event.metadata["git.repository_display_name"],
              reference |-> event.metadata["git.repository_reference"],
              hash |-> event.metadata["git.commit_hash"],
              parents |-> Values2("parent"),
              author |-> Individual("author"), committer |-> Individual("committer"),
              subject |-> IF raw.message = <<>> THEN "" ELSE raw.message[1],
              message |-> raw.message]
<1>1. ParseCommit(event) = IF ~acceptable THEN {} ELSE {commit}
  BY DEF ParseCommit
<1>2. m \in Nat
  OBVIOUS
<1>3. /\ raw.utf8 = draft.utf8 /\ raw.separated = draft.separated
      /\ raw.message = draft.message /\ raw.headers = Raw(draft, parents).headers
  BY DEF Raw
<1>4. /\ Places("author") = {m + 2} /\ raw.headers[m + 2].value = draft.author.text
      /\ Places("committer") = IF draft.committed THEN {m + 3} ELSE {}
      /\ draft.committed => raw.headers[m + 3].value = Committer
  <2> HIDE DEF m, raw
  <2> QED
    BY <1>2, <1>3, HeadersPlaced DEF m
<1> HIDE DEF m
<1>5. ASSUME NEW key, NEW i \in Places(key)
      PROVE  Identities(key)[i] = ParseIdentity(raw.headers[i].value)
  <2> HIDE DEF Places, raw
  <2> QED
    OBVIOUS
<1>6. /\ Identities("author")[m + 2] = ParseIdentity(draft.author.text)
      /\ draft.committed => Identities("committer")[m + 3] = ParseIdentity(Committer)
  <2> HIDE DEF Places, Identities, raw
  <2> QED
    BY <1>4, <1>5
<1>7. LastOf(Places("author")) = m + 2
  <2>1. LastOf({m + 2}) = m + 2
    BY <1>2 DEF LastOf
  <2> HIDE DEF Places
  <2> QED
    BY <1>4, <2>1
<1>8. KnownAs(draft.author.text, draft.author)
  BY AuthorsRead
<1>9. wellFormed <=> ParseIdentity(draft.author.text) # {} /\ draft.committed
  <2> HIDE DEF Places, Identities, raw
  <2>1. /\ Places("author") # {}
        /\ (\A i \in Places("author") : Identities("author")[i] # {})
             <=> ParseIdentity(draft.author.text) # {}
    BY <1>4, <1>6
  <2>2. (Places("committer") # {}
          /\ \A i \in Places("committer") : Identities("committer")[i] # {})
            <=> draft.committed
    <3>1. CASE draft.committed
      BY <1>4, <1>6, <3>1, CommitterRead
    <3>2. CASE ~draft.committed
      BY <1>4, <3>2
    <3> QED
      BY <3>1, <3>2
  <2> QED
    BY <2>1, <2>2
<1>10. acceptable <=> ParseIdentity(draft.author.text) # {} /\ draft.committed
                        /\ draft.utf8 /\ draft.separated
  <2> HIDE DEF wellFormed, raw
  <2> QED
    BY <1>3, <1>9
<1>11. commit.author = Individual("author")
       /\ commit.subject = (IF raw.message = <<>> THEN "" ELSE raw.message[1])
       /\ commit.repository = event.metadata["git.repository_display_name"]
  <2> HIDE DEF Individual, raw, Values2
  <2> QED
    OBVIOUS
<1>12. Individual("author") = CHOOSE p \in ParseIdentity(draft.author.text) : TRUE
  <2> HIDE DEF Identities, Places
  <2> QED
    BY <1>6, <1>7
<1> HIDE DEF acceptable, commit, Individual, raw
<1>13. CASE Known(draft)
  <2>1. PICK p : /\ ParseIdentity(draft.author.text) = {p}
                 /\ p.name = draft.author.name /\ p.email = draft.author.email
    BY <1>8, <1>13 DEF KnownAs, Known
  <2>2. (CHOOSE q \in {p} : TRUE) = p
    OBVIOUS
  <2>3. commit.author = p
    BY <1>11, <1>12, <2>1, <2>2
  <2>4. ParseCommit(event) = {commit}
    BY <1>1, <1>10, <1>13, <2>1 DEF Known
  <2> QED
    BY <1>3, <1>11, <1>13, <2>1, <2>3, <2>4
<1>14. CASE ~Known(draft)
  <2>1. ~acceptable
    BY <1>8, <1>10, <1>14 DEF Known, KnownAs
  <2> QED
    BY <1>1, <1>14, <2>1
<1> QED
  BY <1>13, <1>14

\* What a commit's event holds besides its name.
LEMMA EventHolds ==
  ASSUME NEW repository, NEW commit, commit.readable,
         NEW e, e \in EventForCommit(repository, commit)
  PROVE  /\ EventForCommit(repository, commit) = {e}
         /\ e.id = <<repository.reference, commit.hash>>
         /\ e.connector = GitConnector /\ e.kind = CommitKind /\ e.raw = commit.raw
         /\ DOMAIN e.metadata = RequiredMetadata
         /\ e.metadata["git.repository_display_name"] = repository.name
<1> DEFINE M == [key \in RequiredMetadata |->
                   CASE key = "git.commit_hash" -> commit.hash
                     [] key = "git.repository_reference" -> repository.reference
                     [] OTHER -> repository.name]
           x == [id |-> <<repository.reference, commit.hash>>, connector |-> GitConnector,
                 kind |-> CommitKind, raw |-> commit.raw, metadata |-> M]
<1>1. EventForCommit(repository, commit) = {x}
  BY DEF EventForCommit
<1>2. DOMAIN M = RequiredMetadata /\ M["git.repository_display_name"] = repository.name
  BY DEF RequiredMetadata
<1> HIDE DEF M
<1>3. e = x
  BY <1>1
<1>4. /\ e.id = <<repository.reference, commit.hash>> /\ e.connector = GitConnector
      /\ e.kind = CommitKind /\ e.raw = commit.raw /\ e.metadata = M
  BY <1>3
<1> HIDE DEF x
<1> QED
  BY <1>1, <1>2, <1>3, <1>4

\* The entries of an event in the record.
Entries(stored, e) == {t \in Timeline({GitConnector}, stored) : t.event = e.id}

\* The record shows an event as it should.
Shown(stored, e, draft) ==
  /\ \E t \in Entries(stored, e) : Entries(stored, e) = {t} /\ t.error # Known(draft)
  /\ Known(draft) => \A t \in Entries(stored, e) :
       /\ t.source = Repository.name
       /\ t.title = IF draft.message = <<>> THEN "" ELSE draft.message[1]
  /\ Known(draft) => \E c \in ParseCommit(e) :
       c.author.name = draft.author.name /\ c.author.email = draft.author.email

\* An entry bears the name of its event.
LEMMA EntryNames ==
  ASSUME NEW e PROVE TimelineEntry({GitConnector}, e).event = e.id
  BY DEF TimelineEntry

\* An event with a name of its own has one entry.
LEMMA OneEntry ==
  ASSUME NEW stored, \A x, y \in stored : x.id = y.id => x = y, NEW e \in stored
  PROVE  Entries(stored, e) = {TimelineEntry({GitConnector}, e)}
<1>1. \A x \in stored : TimelineEntry({GitConnector}, x).event = e.id <=> x = e
  BY EntryNames
<1> QED
  BY <1>1 DEF Entries, Timeline

\* An event has the entry that it should have.
LEMMA EntryShown ==
  ASSUME NEW stored, \A x, y \in stored : x.id = y.id => x = y,
         NEW draft, draft.author \in Authors,
         draft.committed \in BOOLEAN, draft.utf8 \in BOOLEAN, draft.separated \in BOOLEAN,
         NEW parents \in Seq(Int), NEW commit, commit.readable,
         commit.raw = Raw(draft, parents),
         NEW e \in stored, e \in EventForCommit(Repository, commit)
  PROVE  Shown(stored, e, draft)
<1>1. /\ e.connector = GitConnector /\ e.kind = CommitKind /\ e.raw = Raw(draft, parents)
      /\ DOMAIN e.metadata = RequiredMetadata
      /\ e.metadata["git.repository_display_name"] = Repository.name
  BY EventHolds
<1>2. IF Known(draft)
      THEN \E c : /\ ParseCommit(e) = {c}
                  /\ c.author.name = draft.author.name /\ c.author.email = draft.author.email
                  /\ c.subject = IF draft.message = <<>> THEN "" ELSE draft.message[1]
                  /\ c.repository = e.metadata["git.repository_display_name"]
      ELSE ParseCommit(e) = {}
  BY <1>1, CommitRead
<1> DEFINE t == TimelineEntry({GitConnector}, e)
<1>3. Entries(stored, e) = {t}
  BY OneEntry
<1>4. Present({GitConnector}, e) = PresentCompact(e)
  BY <1>1 DEF Present
<1>5. CASE Known(draft)
  <2>1. PICK c : /\ ParseCommit(e) = {c}
                 /\ c.author.name = draft.author.name /\ c.author.email = draft.author.email
                 /\ c.subject = IF draft.message = <<>> THEN "" ELSE draft.message[1]
                 /\ c.repository = Repository.name
    BY <1>1, <1>2, <1>5
  <2> DEFINE p == [source |-> "Git", title |-> c.subject, subtitle |-> c.repository,
                   identifiers |-> [Commit |-> c.hash]]
  <2>2. PresentCompact(e) = {p}
    BY <2>1 DEF PresentCompact
  <2>3. p.title = c.subject /\ p.subtitle = c.repository
    OBVIOUS
  <2> HIDE DEF p
  <2>4. (CHOOSE s \in {p} : TRUE) = p /\ {p} # {}
    OBVIOUS
  <2>5. t = [event |-> e.id, error |-> FALSE, source |-> p.subtitle, title |-> p.title]
    BY <1>4, <2>2, <2>4 DEF TimelineEntry
  <2> HIDE DEF t
  <2>6. t.error = FALSE /\ t.source = p.subtitle /\ t.title = p.title
    BY <2>5
  <2>7. t.error # Known(draft)
    <3>1. Known(draft) = TRUE
      BY <1>5 DEF Known
    <3> QED
      BY <2>6, <3>1
  <2> QED
    BY <1>3, <2>1, <2>3, <2>6, <2>7 DEF Shown
<1>6. CASE ~Known(draft)
  <2>1. PresentCompact(e) = {}
    BY <1>2, <1>6 DEF PresentCompact
  <2>2. t = [event |-> e.id, error |-> TRUE, source |-> e.connector,
             title |-> "Evidence presentation error"]
    BY <1>4, <2>1 DEF TimelineEntry
  <2> HIDE DEF t
  <2>3. t.error = TRUE
    BY <2>2
  <2>4. t.error # Known(draft)
    <3>1. Known(draft) = FALSE
      BY <1>6 DEF Known
    <3> QED
      BY <2>3, <3>1
  <2> QED
    BY <1>3, <1>6, <2>4 DEF Shown
<1> QED
  BY <1>5, <1>6

\* The flaws a draft may have.
DraftType ==
  [author : Authors, committed : BOOLEAN, reached : BOOLEAN, readable : BOOLEAN,
   utf8 : BOOLEAN, separated : BOOLEAN, message : {<<>>, <<"subject", "body">>}]

\* The drafts have their flaws one at a time.
LEMMA DraftsTyped == Drafts \subseteq DraftType
<1>1. \E a \in Authors : a.known
  <2> DEFINE p == [name |-> <<"n">>, email |-> <<"m">>]
             a == [text |-> Person(p.name, p.email, Stamp), known |-> TRUE,
                   name |-> p.name, email |-> p.email]
  <2>1. p \in [name : Names, email : {<<"m">>, <<>>}]
    BY DEF Names
  <2> HIDE DEF p
  <2>2. a \in Authors
    BY <2>1 DEF Authors
  <2>3. a.known
    OBVIOUS
  <2> QED
    BY <2>2, <2>3
<1>2. (CHOOSE a \in Authors : a.known) \in Authors
  BY <1>1
<1>3. Whole \in DraftType
  BY <1>2 DEF Whole, DraftType
<1>4. \A a \in Authors : [Whole EXCEPT !.author = a] \in DraftType
  BY <1>3 DEF DraftType
<1>5. [Whole EXCEPT !.message = <<>>] \in DraftType
  BY <1>3 DEF DraftType
<1>6. ASSUME NEW flaw \in {"committed", "reached", "readable", "utf8", "separated"}
      PROVE  [Whole EXCEPT ![flaw] = FALSE] \in DraftType
  <2>1. CASE flaw = "committed"
    BY <1>3, <2>1 DEF DraftType
  <2>2. CASE flaw = "reached"
    BY <1>3, <2>2 DEF DraftType
  <2>3. CASE flaw = "readable"
    BY <1>3, <2>3 DEF DraftType
  <2>4. CASE flaw = "utf8"
    BY <1>3, <2>4 DEF DraftType
  <2>5. CASE flaw = "separated"
    BY <1>3, <2>5 DEF DraftType
  <2> QED
    BY <2>1, <2>2, <2>3, <2>4, <2>5
<1> QED
  BY <1>4, <1>5, <1>6 DEF Drafts

\* A connector takes part only if it was the first of its identifier.
LEMMA RegisteredFirst ==
  ASSUME NEW registry, NEW id, NEW registered
  PROVE  LET descriptor == Capable(id, "imports")
             none == [other \in {} |-> descriptor]
         IN  /\ ~Registered(none, descriptor)
             /\ Registered(Register(none, descriptor), descriptor)
             /\ ~Registered(Register([other \in {id} |-> Capable(other, "other")], descriptor),
                            descriptor)
<1> DEFINE descriptor == Capable(id, "imports")
           none == [other \in {} |-> descriptor]
           before == [other \in {id} |-> Capable(other, "other")]
<1>1. descriptor.id = id
  BY DEF Capable
<1>2. ~Registered(none, descriptor)
  BY DEF Registered
<1>3. Registered(Register(none, descriptor), descriptor)
  <2>1. Register(none, descriptor) =
          [other \in {id} |-> IF other = id THEN descriptor ELSE none[other]]
    BY <1>1 DEF Register
  <2> HIDE DEF descriptor, none
  <2> QED
    BY <1>1, <2>1 DEF Registered
<1>4. ~Registered(Register(before, descriptor), descriptor)
  <2>1. Register(before, descriptor) = before
    BY <1>1 DEF Register
  <2>2. before[id] = Capable(id, "other")
    OBVIOUS
  <2>3. Capable(id, "other") # descriptor
    <3>1. Capable(id, "other").capabilities = "other" /\ descriptor.capabilities = "imports"
      BY DEF Capable
    <3> QED
      BY <3>1
  <2> HIDE DEF descriptor, before
  <2> QED
    BY <1>1, <2>1, <2>2, <2>3 DEF Registered
<1> QED
  BY <1>2, <1>3, <1>4

\* A history of drafts, its commits, and their parents.
LEMMA HistoryOf ==
  ASSUME NEW n \in Nat, NEW drafts \in [1..n -> Drafts]
  PROVE  LET history == History(drafts)
         IN  /\ DOMAIN history = 1..n /\ Len(history) = n
             /\ \A i \in 1..n :
                  /\ history[i].hash = i /\ drafts[i] \in DraftType
                  /\ history[i].readable = drafts[i].readable
                  /\ history[i].reached = drafts[i].reached
                  /\ \E parents \in Seq(Int) : history[i].raw = Raw(drafts[i], parents)
             /\ history # <<>> <=> n # 0
<1> DEFINE history == History(drafts)
<1>1. DOMAIN drafts = 1..n
  OBVIOUS
<1>2. history = [i \in 1..n |->
        [hash |-> i, reached |-> drafts[i].reached, readable |-> drafts[i].readable,
         raw |-> Raw(drafts[i], IF i = 1 THEN <<>> ELSE <<i - 1>>)]]
  BY <1>1 DEF History
<1> HIDE DEF history
<1>3. DOMAIN history = 1..n
  BY <1>2
<1>4. Len(history) = n
  BY <1>2
<1>5. ASSUME NEW i \in 1..n
      PROVE  /\ history[i].hash = i /\ drafts[i] \in DraftType
             /\ history[i].readable = drafts[i].readable
             /\ history[i].reached = drafts[i].reached
             /\ \E parents \in Seq(Int) : history[i].raw = Raw(drafts[i], parents)
  <2> DEFINE parents == IF i = 1 THEN <<>> ELSE <<i - 1>>
  <2>1. parents \in Seq(Int)
    OBVIOUS
  <2>2. history[i] = [hash |-> i, reached |-> drafts[i].reached,
                      readable |-> drafts[i].readable, raw |-> Raw(drafts[i], parents)]
    BY <1>2
  <2>3. drafts[i] \in DraftType
    BY DraftsTyped
  <2> HIDE DEF parents
  <2> QED
    BY <2>1, <2>2, <2>3
<1>6. history # <<>> <=> n # 0
  <2>1. n = 0 => history = <<>>
    BY <1>2
  <2>2. n # 0 => history # <<>>
    BY <1>4
  <2> QED
    BY <2>1, <2>2
<1> QED
  BY <1>3, <1>4, <1>5, <1>6 DEF history

\* What was stored before is the first commit or nothing, so a new event is one that
\* is not stored.
LEMMA NewEvents ==
  ASSUME NEW n \in Nat, NEW history, \A i \in 1..n : history[i].hash = i,
         NEW stored, stored = {} \/ (1 \in 1..n /\ stored = EventForCommit(Repository, history[1])),
         NEW last \in 0..n, \A i \in 1..last : history[i].readable
  PROVE  New(stored, Repository, history, last) =
           (UNION {EventForCommit(Repository, history[i]) : i \in 1..last}) \ stored
<1> DEFINE made == UNION {EventForCommit(Repository, history[i]) : i \in 1..last}
<1>1. ASSUME NEW e \in made PROVE e \in stored <=> e.id \in {s.id : s \in stored}
  <2>1. PICK i \in 1..last : e \in EventForCommit(Repository, history[i])
    OBVIOUS
  <2>2. e.id = <<Repository.reference, i>>
    <3>1. i \in 1..n /\ history[i].readable
      OBVIOUS
    <3> QED
      BY <2>1, <3>1, EventHolds
  <2>3. ASSUME NEW s \in stored, s.id = e.id PROVE e \in stored
    <3>1. 1 \in 1..n /\ stored = EventForCommit(Repository, history[1])
      OBVIOUS
    <3>2. history[1].readable
      BY <3>1 DEF EventForCommit
    <3>3. s.id = <<Repository.reference, 1>>
      BY <3>1, <3>2, EventHolds
    <3>4. i = 1
      BY <2>2, <2>3, <3>3
    <3> QED
      BY <2>1, <3>1, <3>4
  <2> QED
    BY <2>3
<1>2. New(stored, Repository, history, last) = {e \in made : e.id \notin {s.id : s \in stored}}
  BY DEF New
<1> HIDE DEF made
<1> QED
  BY <1>1, <1>2 DEF made

\* After an import the record shows every event as it should.
LEMMA AllShown ==
  ASSUME NEW n \in Nat, NEW drafts \in [1..n -> Drafts], NEW stored,
         \A e \in stored : \E i \in 1..n :
           History(drafts)[i].readable /\ e \in EventForCommit(Repository, History(drafts)[i])
  PROVE  \A e \in stored : Shown(stored, e, drafts[e.id[2]])
<1> DEFINE history == History(drafts)
<1>1. \A i \in 1..n :
        /\ history[i].hash = i /\ drafts[i] \in DraftType
        /\ \E parents \in Seq(Int) : history[i].raw = Raw(drafts[i], parents)
  BY HistoryOf
<1>2. \A e \in stored : \E i \in 1..n :
        history[i].readable /\ e \in EventForCommit(Repository, history[i])
  OBVIOUS
<1> HIDE DEF history
<1>3. ASSUME NEW i \in 1..n, history[i].readable, NEW e,
             e \in EventForCommit(Repository, history[i])
      PROVE  /\ EventForCommit(Repository, history[i]) = {e}
             /\ e.id = <<Repository.reference, i>> /\ e.id[2] = i
  <2>1. /\ EventForCommit(Repository, history[i]) = {e}
        /\ e.id = <<Repository.reference, history[i].hash>>
    BY <1>3, EventHolds
  <2> QED
    BY <1>1, <2>1
<1>4. ASSUME NEW x \in stored, NEW y \in stored, x.id = y.id PROVE x = y
  <2>1. PICK i \in 1..n : history[i].readable /\ x \in EventForCommit(Repository, history[i])
    BY <1>2
  <2>2. PICK j \in 1..n : history[j].readable /\ y \in EventForCommit(Repository, history[j])
    BY <1>2
  <2>3. x.id[2] = i /\ y.id[2] = j /\ EventForCommit(Repository, history[i]) = {x}
    BY <1>3, <2>1, <2>2
  <2> QED
    BY <1>4, <2>2, <2>3
<1>5. ASSUME NEW e \in stored PROVE Shown(stored, e, drafts[e.id[2]])
  <2>1. PICK i \in 1..n : history[i].readable /\ e \in EventForCommit(Repository, history[i])
    BY <1>2
  <2>2. e.id[2] = i
    BY <1>3, <2>1
  <2>3. PICK parents \in Seq(Int) : history[i].raw = Raw(drafts[i], parents)
    BY <1>1
  <2> DEFINE draft == drafts[i]
  <2>4. /\ draft.author \in Authors /\ draft.committed \in BOOLEAN
        /\ draft.utf8 \in BOOLEAN /\ draft.separated \in BOOLEAN
    BY <1>1 DEF DraftType
  <2> HIDE DEF draft
  <2>5. history[i].raw = Raw(draft, parents)
    BY <2>3 DEF draft
  <2>6. Shown(stored, e, draft)
    BY <1>4, <2>1, <2>4, <2>5, EntryShown
  <2> QED
    BY <2>2, <2>6 DEF draft
<1> QED
  BY <1>5

\* What a collection is given.
LEMMA CollectionsGiven ==
  ASSUME Longest \in Nat, input \in CollectionInputs
  PROVE  /\ \E n \in 0..Longest : input.drafts \in [1..n -> Drafts]
         /\ input.registered \in {"nothing", "the connector", "another version"}
  BY DEF CollectionInputs

\* Every collection stores, counts and shows what it should.
LEMMA CollectionAccounted ==
  ASSUME Longest \in Nat, input \in CollectionInputs
  PROVE  EvidenceAccountedFor
<1> DEFINE history == History(input.drafts)
           descriptor == Capable(input.connector, "imports")
           none == [id \in {} |-> descriptor]
           other == [id \in {input.connector} |-> Capable(id, "other")]
           registry == CASE input.registered = "nothing" -> none
                         [] input.registered = "the connector" -> Register(none, descriptor)
                         [] input.registered = "another version" -> Register(other, descriptor)
           EventOfCommit(i) == EventForCommit(Repository, history[i])
           stored == IF input.storedBefore /\ history # <<>> THEN EventOfCommit(1) ELSE {}
           result == Collect(registry, descriptor, stored, Repository, history, input.failsAt)
           stops == {i \in DOMAIN history : ~history[i].reached \/ ~history[i].readable
                                              \/ i = input.failsAt
                                              \/ input.connector # GitConnector}
           last == IF stops = {} THEN Len(history) ELSE FirstOf(stops) - 1
           new == (UNION {EventOfCommit(i) : i \in 1..last}) \ stored
           Expected ==
             IF input.registered # "the connector" THEN result = None
             ELSE /\ result.stored = stored \cup new
                  /\ result.error = (stops # {})
                  /\ result.accepted = Cardinality(new)
                  /\ result.report.imported = Cardinality(new)
                  /\ result.report.duplicates = last - Cardinality(new)
                  /\ result.report.rejected + result.report.failed =
                       IF stops # {} /\ history[FirstOf(stops)].reached THEN 1 ELSE 0
                  /\ \A e \in result.stored : Shown(result.stored, e, input.drafts[e.id[2]])
<1>1. Expected => EvidenceAccountedFor
  BY DEF EvidenceAccountedFor, Shown, Entries, Known
<1> SUFFICES Expected
  BY <1>1
<1>2. PICK n \in 0..Longest : input.drafts \in [1..n -> Drafts]
  BY CollectionsGiven
<1>3. n \in Nat
  OBVIOUS
<1>4. /\ DOMAIN history = 1..n /\ Len(history) = n
      /\ \A i \in 1..n : history[i].hash = i
      /\ history # <<>> <=> n # 0
  BY <1>2, <1>3, HistoryOf
<1>5. /\ ~Registered(none, descriptor)
      /\ Registered(Register(none, descriptor), descriptor)
      /\ ~Registered(Register(other, descriptor), descriptor)
  BY RegisteredFirst
<1>6. descriptor.id = input.connector
  BY DEF Capable
<1> HIDE DEF history, descriptor, none, other
<1>7. CASE input.registered # "the connector"
  <2>1. ~Registered(registry, descriptor)
    BY <1>5, <1>7, CollectionsGiven
  <2> HIDE DEF registry
  <2>2. result = None
    BY <2>1 DEF Collect
  <2> HIDE DEF result
  <2> QED
    BY <1>7, <2>2
<1>8. CASE input.registered = "the connector"
  <2>1. Registered(registry, descriptor)
    BY <1>5, <1>8
  <2> HIDE DEF registry
  <2>2. result = ImportInto(stored, descriptor, Repository, history, input.failsAt)
    BY <2>1 DEF Collect
  <2>3. stops = {i \in 1..n : Stops(descriptor, history, input.failsAt, i)}
    BY <1>4, <1>6 DEF Stops
  <2>4. stored = {} \/ (1 \in 1..n /\ stored = EventOfCommit(1))
    BY <1>3, <1>4
  <2> HIDE DEF result, stops, stored
  <2> DEFINE fresh == New(stored, Repository, history, last)
  <2>5. OwnNames(history)
    BY <1>3, <1>4 DEF OwnNames
  <2>6. /\ last \in 0..n /\ \A i \in 1..last : i \notin stops
        /\ AccountedFor(stored, fresh, history, stops, last, result)
    <3>1. Accounted(stored, descriptor, Repository, history, input.failsAt)
      BY <2>5, ImportAccounts
    <3> DEFINE S == {i \in 1..Len(history) : Stops(descriptor, history, input.failsAt, i)}
               L == IF S = {} THEN Len(history) ELSE FirstOf(S) - 1
    <3>2. /\ L \in 0..Len(history) /\ \A i \in 1..L : i \notin S
          /\ AccountedFor(stored, New(stored, Repository, history, L), history, S, L,
                          ImportInto(stored, descriptor, Repository, history, input.failsAt))
      BY <3>1 DEF Accounted
    <3>3. stops = S
      BY <1>4, <2>3
    <3> HIDE DEF S
    <3>4. last = L
      BY <3>3
    <3> HIDE DEF L, last
    <3> QED
      BY <1>4, <2>2, <3>2, <3>3, <3>4
  <2> HIDE DEF last
  <2>7. \A i \in 1..last : history[i].readable
    <3>1. \A i \in 1..last : i \in 1..n
      BY <2>6
    <3> QED
      BY <2>3, <2>6, <3>1 DEF Stops
  <2>8. fresh = new
    BY <1>3, <1>4, <2>4, <2>6, <2>7, NewEvents
  <2>9. \A e \in result.stored : \E i \in 1..n : history[i].readable /\ e \in EventOfCommit(i)
    <3>1. ASSUME NEW e \in stored
          PROVE  \E i \in 1..n : history[i].readable /\ e \in EventOfCommit(i)
      BY <2>4 DEF EventForCommit
    <3>2. ASSUME NEW e \in new
          PROVE  \E i \in 1..n : history[i].readable /\ e \in EventOfCommit(i)
      <4>1. PICK i \in 1..last : e \in EventOfCommit(i)
        OBVIOUS
      <4>2. i \in 1..n /\ history[i].readable
        BY <2>6, <2>7
      <4> QED
        BY <4>1, <4>2
    <3> HIDE DEF new, fresh
    <3> QED
      BY <2>6, <2>8, <3>1, <3>2 DEF AccountedFor
  <2>10. \A e \in result.stored : Shown(result.stored, e, input.drafts[e.id[2]])
    BY <1>2, <1>3, <2>9, AllShown DEF history
  <2> HIDE DEF fresh, new
  <2> QED
    BY <1>8, <2>6, <2>8, <2>10 DEF AccountedFor
<1> QED
  BY <1>7, <1>8

\* A collection stores and counts the commits before the first it cannot, and the
\* record shows each as it should, for histories of every length.
THEOREM EvidenceAlwaysAccountedFor ==
  ASSUME Longest \in Nat PROVE Spec => []EvidenceAccountedFor
<1>1. Init => GivenInput
  BY DEF Init, GivenInput
<1>2. GivenInput /\ [Next]_vars => GivenInput'
  BY DEF Next, vars, GivenInput
<1>3. GivenInput => EvidenceAccountedFor
  <2>1. input \in CollectionInputs => EvidenceAccountedFor
    BY CollectionAccounted
  <2>2. input = [of |-> "walk"] => ~Of("collection")
    BY DEF Of
  <2> QED
    BY <2>1, <2>2, Families DEF GivenInput, EvidenceAccountedFor, Of
<1> QED
  BY <1>1, <1>2, <1>3, PTL DEF Spec
=============================================================================
