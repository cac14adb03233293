----------------------------- MODULE StoredRows -----------------------------
(***************************************************************************)
(* What crates/schomburg-store writes into the columns of its tables and   *)
(* what it makes of them when it reads a row back.                         *)
(*                                                                         *)
(* Strings that are stored as they are appear here as they are.  What is   *)
(* converted, and back, is a timestamp (a byte string whose order must be  *)
(* the order of time, because the queries sort by it), a count (u64 kept   *)
(* in an i64), metadata (JSON) and every enumeration (a code).  An Option  *)
(* is a sequence of at most one value.  What is decoded is the set of the  *)
(* one value read, or empty: the code returns an error.                    *)
(***************************************************************************)
EXTENDS Integers, Sequences

CONSTANTS
  Base,          \* values of a byte
  SecondBytes,   \* bytes of the seconds of a timestamp
  NanoBytes,     \* bytes of its nanoseconds
  SecondNanos,   \* nanoseconds in a second
  LastSecond,    \* the last second the platform's SystemTime holds
  CountLimit     \* values of a u64

\* What a unit of each byte is worth, from the last byte to the first.
Worth[i \in 0..(SecondBytes + NanoBytes)] == IF i = 0 THEN 1 ELSE Base * Worth[i - 1]

ASSUME EncodingAssumption ==
  /\ {Base, SecondBytes, NanoBytes, SecondNanos} \subseteq Nat \ {0}
  /\ SecondNanos <= Worth[NanoBytes]
  /\ LastSecond \in 0..(Worth[SecondBytes] - 2)
  /\ CountLimit \in Nat \ {0} /\ CountLimit % 2 = 0

-----------------------------------------------------------------------------
(* Timestamps.                                                             *)

\* Nanoseconds since the epoch that SystemTime can hold.
SystemTime == (-(LastSecond + 1) * SecondNanos)..((LastSecond + 1) * SecondNanos - 1)

BigEndian(n, width) == [i \in 1..width |-> (n \div Worth[width - i]) % Base]
NumberOf(bytes) ==
  LET upTo[i \in 0..Len(bytes)] == IF i = 0 THEN 0 ELSE upTo[i - 1] * Base + bytes[i]
  IN  upTo[Len(bytes)]
Inverted(bytes) == [i \in DOMAIN bytes |-> Base - 1 - bytes[i]]

SecondsAndNanos(d) ==
  BigEndian(d \div SecondNanos, SecondBytes) \o BigEndian(d % SecondNanos, NanoBytes)

\* Mutant: an instant before the epoch is not inverted.
EncodeTimestampPlain(t) ==
  IF t < 0 THEN <<0>> \o SecondsAndNanos(-t) ELSE <<1>> \o SecondsAndNanos(t)

\* A marker and the distance from the epoch, inverted before it so that the
\* earlier instant is the lesser byte string.
EncodeTimestamp(t) ==
  IF t < 0 THEN <<0>> \o Inverted(SecondsAndNanos(-t)) ELSE <<1>> \o SecondsAndNanos(t)

DecodeTimestamp(column) ==
  IF Len(column) # 1 + SecondBytes + NanoBytes THEN {}
  ELSE LET before == column[1] = 0
           bytes == IF before THEN Inverted(Tail(column)) ELSE Tail(column)
           seconds == NumberOf(SubSeq(bytes, 1, SecondBytes))
           nanos == NumberOf(SubSeq(bytes, SecondBytes + 1, Len(bytes)))
           d == seconds * SecondNanos + nanos
       IN  IF column[1] \notin {0, 1} \/ nanos >= SecondNanos THEN {}
           ELSE {IF before THEN -d ELSE d} \cap SystemTime

\* How SQLite compares byte strings of one length.
BytesLess(a, b) ==
  \E i \in DOMAIN a : a[i] < b[i] /\ \A j \in 1..(i - 1) : a[j] = b[j]

\* A second encoding of the epoch, which is read but never written.
NegativeZero == <<0>> \o [i \in 1..(SecondBytes + NanoBytes) |-> Base - 1]

Null == <<>>
EncodeOption(t) == IF t = Null THEN Null ELSE EncodeTimestamp(t[1])
DecodeOption(column) ==
  IF column = Null THEN {Null} ELSE {<<t>> : t \in DecodeTimestamp(column)}

-----------------------------------------------------------------------------
(* Counts, metadata, codes.                                                *)

\* `as i64` and `as u64`.
EncodeCount(n) == IF n >= CountLimit \div 2 THEN n - CountLimit ELSE n
DecodeCount(n) == n % CountLimit
Counts == {"imported", "duplicates", "rejected", "failed"}
EncodeCounts(counts) == [c \in Counts |-> EncodeCount(counts[c])]
DecodeCounts(columns) == {[c \in Counts |-> DecodeCount(columns[c])]}

\* A JSON object of strings, as the set of its members; NotJson is none.
NotJson == {<<>>}
EncodeMetadata(metadata) == {<<key, metadata[key]>> : key \in DOMAIN metadata}
DecodeMetadata(json) ==
  IF json = NotJson THEN {}
  ELSE {[key \in {m[1] : m \in json} |-> (CHOOSE m \in json : m[1] = key)[2]]}

DiscoveryCode == {"awaiting", "declined", "connected"}
ConnectionCode == {"enabled", "paused", "disconnected"}
PolicyCode == {"always", "paused"}
MonitoringCode == {"enabled", "paused"}
ScheduleCode == {"daily", "weekdays", "selected"}
StateCode == {"idle", "running", "succeeded", "failed", "paused"}
ValueKindCode == {"context", "opaque"}
AssignmentCode == {"automatic", "user", "imported", "system"}

\* Mutant: what is unknown is taken for some code.
DecodeOrElse(code, codes) == {IF code \in codes THEN code ELSE CHOOSE c \in codes : TRUE}

Decode(code, codes) == {code} \cap codes

\* The monitoring switch and the states of runs know no error: what is unknown
\* is paused.
DecodeOrPaused(code, codes) == {IF code \in codes THEN code ELSE "paused"}

-----------------------------------------------------------------------------
(* The tables.  A row is refused when one of its columns is.               *)

Row(columns) ==
  IF \E c \in DOMAIN columns : columns[c] = {} THEN {}
  ELSE {[c \in DOMAIN columns |-> CHOOSE v \in columns[c] : TRUE]}

With(row, converted) ==
  [c \in DOMAIN row |-> IF c \in DOMAIN converted THEN converted[c] ELSE row[c]]
ReadWith(row, converted) ==
  Row([c \in DOMAIN row |-> IF c \in DOMAIN converted THEN converted[c] ELSE {row[c]}])

EventRow(e) ==
  With(e, [occurred_at |-> EncodeTimestamp(e.occurred_at),
           captured_at |-> EncodeTimestamp(e.captured_at),
           metadata |-> EncodeMetadata(e.metadata)])
EventOf(row) ==
  ReadWith(row, [occurred_at |-> DecodeTimestamp(row.occurred_at),
                 captured_at |-> DecodeTimestamp(row.captured_at),
                 metadata |-> DecodeMetadata(row.metadata)])

AnnotationRow(a) == With(a, [assigned_at |-> EncodeTimestamp(a.assigned_at)])
AnnotationOf(row) ==
  ReadWith(row, [value_kind |-> Decode(row.value_kind, ValueKindCode),
                 assignment_source |-> Decode(row.assignment_source, AssignmentCode),
                 assigned_at |-> DecodeTimestamp(row.assigned_at)])

SourceRow(s) ==
  With(s, [first_discovered |-> EncodeTimestamp(s.first_discovered),
           last_seen |-> EncodeTimestamp(s.last_seen),
           metadata |-> EncodeMetadata(s.metadata)])
SourceOf(row) ==
  ReadWith(row, [first_discovered |-> DecodeTimestamp(row.first_discovered),
                 last_seen |-> DecodeTimestamp(row.last_seen),
                 status |-> Decode(row.status, DiscoveryCode),
                 metadata |-> DecodeMetadata(row.metadata)])

ConnectionRow(c) ==
  With(c, [approved_at |-> EncodeTimestamp(c.approved_at),
           revoked_at |-> EncodeOption(c.revoked_at),
           last_attempt |-> EncodeOption(c.last_attempt),
           last_success |-> EncodeOption(c.last_success)])
ConnectionOf(row) ==
  ReadWith(row, [status |-> Decode(row.status, ConnectionCode),
                 policy |-> Decode(row.policy, PolicyCode),
                 approved_at |-> DecodeTimestamp(row.approved_at),
                 revoked_at |-> DecodeOption(row.revoked_at),
                 last_attempt |-> DecodeOption(row.last_attempt),
                 last_success |-> DecodeOption(row.last_success)])

\* What a collection leaves in the connection's row.
ConnectionResult(row, now, success, error) ==
  With(row, [last_attempt |-> EncodeTimestamp(now),
             last_success |-> IF success THEN EncodeTimestamp(now) ELSE row.last_success,
             last_error |-> error])

\* The days of "daily" and "weekdays" are not stored.
ConfigurationRow(c) ==
  With(c, [schedule_days |-> IF c.schedule_kind = "selected" THEN c.schedule_days ELSE 0,
           last_attempt |-> EncodeOption(c.last_attempt),
           last_success |-> EncodeOption(c.last_success),
           next_run |-> EncodeOption(c.next_run),
           counts |-> EncodeCounts(c.counts)])
ConfigurationOf(row) ==
  ReadWith(row, [monitoring |-> DecodeOrPaused(row.monitoring, MonitoringCode),
                 schedule_kind |-> Decode(row.schedule_kind, ScheduleCode),
                 schedule_days |->
                   {IF row.schedule_kind = "selected" THEN row.schedule_days ELSE 0},
                 last_attempt |-> DecodeOption(row.last_attempt),
                 last_success |-> DecodeOption(row.last_success),
                 next_run |-> DecodeOption(row.next_run),
                 counts |-> DecodeCounts(row.counts),
                 state |-> DecodeOrPaused(row.state, StateCode)])

\* The manual and the scheduled status; only the second has a date and a next run.
StatusRow(s) ==
  With(s, [last_attempt |-> EncodeOption(s.last_attempt),
           last_success |-> EncodeOption(s.last_success),
           next_scheduled_run |-> EncodeOption(s.next_scheduled_run),
           counts |-> EncodeCounts(s.counts)])
StatusOf(row) ==
  ReadWith(row, [last_attempt |-> DecodeOption(row.last_attempt),
                 last_success |-> DecodeOption(row.last_success),
                 next_scheduled_run |-> DecodeOption(row.next_scheduled_run),
                 counts |-> DecodeCounts(row.counts),
                 state |-> DecodeOrPaused(row.state, StateCode)])
=============================================================================
