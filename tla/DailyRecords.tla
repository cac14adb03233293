---------------------------- MODULE DailyRecords ----------------------------
(***************************************************************************)
(* What the Record Folder promises its reader (ADR 0010): a day's file is  *)
(* what was there before the program wrote one, or a whole record of that  *)
(* day, and is replaced in one step by a record that shows no less of the  *)
(* stored evidence.  That files of other programs stay is not promised: a  *)
(* file that cannot be read is replaced like one that is not there.        *)
(***************************************************************************)
CONSTANTS
  Event,
  Day,
  DayOf,  \* the local calendar day of each event
  Prior   \* the kinds of file the folder may hold before the first record

VARIABLES
  events,  \* the evidence stored
  file     \* the content of each day's file

\* A file that shows nothing, and the record of a set of events.
Unwritten(kind) == [kind |-> kind, shows |-> {}]
Record(shown) == [kind |-> "record", shows |-> shown]

OnDay(d, S) == {e \in S : DayOf[e] = d}

Init ==
  /\ events = {}
  /\ file \in [Day -> {Unwritten(k) : k \in Prior}]

Import(e) ==
  /\ events' = events \cup {e}
  /\ UNCHANGED file

Replace(d, shown) ==
  /\ file[d].kind = "record" => file[d].shows \subseteq shown
  /\ shown # {}
  /\ file' = [file EXCEPT ![d] = Record(shown)]
  /\ UNCHANGED events

Next ==
  \/ \E e \in Event : Import(e)
  \/ \E d \in Day : \E shown \in SUBSET OnDay(d, events) : Replace(d, shown)

Spec == Init /\ [][Next]_<<events, file>>
=============================================================================
