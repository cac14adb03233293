---------------------------- MODULE RecordFolder ----------------------------
(***************************************************************************)
(* The presenter of crates/schomburg-presenter: Presenter::generate, which *)
(* writes the stored evidence into one Markdown file per local day.        *)
(*                                                                         *)
(* Generations run in processes (the service of a shell, the command line) *)
(* that share the database and the folder and do not coordinate.  Each     *)
(* reads the events once, then for each day compares, writes a temporary   *)
(* file next to the record, and renames it over the record; the temporary  *)
(* file of a day has the same name in every process.  Every action is one  *)
(* file operation.                                                         *)
(***************************************************************************)
EXTENDS Naturals

CONSTANTS
  Process,
  Event,
  Day,
  DayOf,  \* the local calendar day of each event
  Prior   \* the kinds of file the folder may hold before the first record

ASSUME FolderAssumption ==
  /\ Day \subseteq Nat
  /\ DayOf \in [Event -> Day]
  /\ Prior \subseteq {"none", "foreign", "binary"}

VARIABLES
  events,     \* the evidence stored
  file,       \* the content of each day's record path
  temporary,  \* the content of each day's temporary path
  gen         \* the generation each process is executing

folderVars == <<file, temporary, gen>>
vars == <<events, folderVars>>

(***************************************************************************)
(* What a path holds: nothing, a record of some events, an empty file, a   *)
(* record overlaid on a longer one, another program's text, or a file that *)
(* is not UTF-8.  Only a record and an overlay begin with the marker.      *)
(***************************************************************************)
Kind == {"none", "record", "empty", "mixed", "foreign", "binary"}
Content == [kind : Kind, shows : SUBSET Event]
Unwritten(kind) == [kind |-> kind, shows |-> {}]
Record(shown) == [kind |-> "record", shows |-> shown]

\* Where the bytes of an open temporary file are to be found: another process
\* may have renamed it over the record, and a second one over that.
Place == {"temporary", "file", "gone"}

Stage == {"compare", "open", "write", "rename"}
Idle == [at |-> "idle"]
Failed == [at |-> "failed"]
Generation == [at : Stage, days : SUBSET Day, snapshot : SUBSET Event,
               fd : Place]

TypeOK ==
  /\ events \subseteq Event
  /\ file \in [Day -> Content]
  /\ temporary \in [Day -> Content]
  /\ gen \in [Process -> Generation \cup {Idle, Failed}]
  /\ \A p \in Process : gen[p] \notin {Idle, Failed} => gen[p].days # {}

FolderInit ==
  /\ file \in [Day -> {Unwritten(k) : k \in Prior}]
  /\ temporary = [d \in Day |-> Unwritten("none")]
  /\ gen = [p \in Process |-> Idle]

Init == events = {} /\ FolderInit

-----------------------------------------------------------------------------

OnDay(d, S) == {e \in S : DayOf[e] = d}

At(p, stage) == gen[p].at = stage
Goto(p, stage) == gen' = [gen EXCEPT ![p].at = stage]

\* Days are written in the order of the calendar.
Today(p) == CHOOSE d \in gen[p].days : \A e \in gen[p].days : d <= e
Body(p) == Record(OnDay(Today(p), gen[p].snapshot))

\* Mutant: the last day does not end the generation.
NextDayForever(p, g) ==
  [g EXCEPT !.at = "compare", !.days = @ \ {Today(p)}]

NextDay(p, g) ==
  IF g.days = {Today(p)} THEN Idle
  ELSE [g EXCEPT !.at = "compare", !.days = @ \ {Today(p)}]

\* generate, for one day or all of them; without events there is nothing to do.
Generate(p, only) ==
  /\ gen[p] = Idle
  /\ LET days == {DayOf[e] : e \in events} \cap only
     IN  gen' = [gen EXCEPT ![p] =
                   IF days = {} THEN Idle
                   ELSE [at |-> "compare", days |-> days, snapshot |-> events,
                         fd |-> "temporary"]]
  /\ UNCHANGED <<events, file, temporary>>

\* read_to_string(..).ok(): the text of the file, or nothing, as if there were no
\* file.  A read that fails for any reason counts as absent, and one of a file
\* that is not UTF-8 always fails.
ReadOrAbsent(content) ==
  {Unwritten("none")} \cup (IF content.kind = "binary" THEN {} ELSE {content})

\* The ownership check, of the text that was read.
NotOurs(previous) == previous.kind \in {"foreign", "empty"}

\* Mutant: a record that exists counts as up to date.
CompareByExistence(p) ==
  /\ At(p, "compare")
  /\ \E previous \in ReadOrAbsent(file[Today(p)]) :
       gen' = [gen EXCEPT ![p] =
         IF NotOurs(previous) THEN Failed
         ELSE IF previous.kind = "record" THEN NextDay(p, @)
         ELSE [@ EXCEPT !.at = "open"]]
  /\ UNCHANGED <<events, file, temporary>>

\* A file that could not be read is written over unchecked.
Compare(p) ==
  /\ At(p, "compare")
  /\ \E previous \in ReadOrAbsent(file[Today(p)]) :
       gen' = [gen EXCEPT ![p] =
         IF NotOurs(previous) THEN Failed
         ELSE IF previous = Body(p) THEN NextDay(p, @)
         ELSE [@ EXCEPT !.at = "open"]]
  /\ UNCHANGED <<events, file, temporary>>

\* Mutant: the record is written where it lies.
OpenInPlace(p) ==
  /\ At(p, "open")
  /\ file' = [file EXCEPT ![Today(p)] = Unwritten("empty")]
  /\ gen' = [gen EXCEPT ![p].at = "write", ![p].fd = "file"]
  /\ UNCHANGED <<events, temporary>>

\* The first half of fs::write creates the temporary file or empties it.
OpenTemporary(p) ==
  /\ At(p, "open")
  /\ temporary' = [temporary EXCEPT ![Today(p)] = Unwritten("empty")]
  /\ gen' = [gen EXCEPT ![p].at = "write", ![p].fd = "temporary"]
  /\ UNCHANGED <<events, file>>

\* Both writers of a file start at its beginning: a shorter body leaves the
\* rest of a longer one behind it, and the file as long as that was.
Overlay(old, new) ==
  IF old.shows \subseteq new.shows THEN new
  ELSE [kind |-> "mixed", shows |-> old.shows]

WriteTemporary(p) ==
  /\ At(p, "write")
  /\ LET Written(paths) ==
           [paths EXCEPT ![Today(p)] = Overlay(@, Body(p))]
     IN  \/ /\ gen[p].fd = "temporary"
            /\ temporary' = Written(temporary)
            /\ UNCHANGED file
         \/ /\ gen[p].fd = "file"
            /\ file' = Written(file)
            /\ UNCHANGED temporary
         \/ gen[p].fd = "gone" /\ UNCHANGED <<file, temporary>>
  /\ Goto(p, "rename")
  /\ UNCHANGED events

\* Another process that has the temporary file open keeps its descriptor.
Renamed(q, d) ==
  IF At(q, "write") /\ Today(q) = d
  THEN [gen[q] EXCEPT !.fd = IF @ = "temporary" THEN "file" ELSE "gone"]
  ELSE gen[q]

RenameTemporary(p) ==
  /\ At(p, "rename")
  /\ LET d == Today(p)
     IN  IF temporary[d].kind = "none"
         THEN /\ gen' = [gen EXCEPT ![p] = Failed]
              /\ UNCHANGED <<file, temporary>>
         ELSE /\ file' = [file EXCEPT ![d] = temporary[d]]
              /\ temporary' = [temporary EXCEPT ![d] = Unwritten("none")]
              /\ gen' = [q \in Process |->
                           IF q = p THEN NextDay(p, gen[p]) ELSE Renamed(q, d)]
  /\ UNCHANGED events

\* The directory cannot be made (before the comparison), or the temporary file
\* not be opened, written or renamed; what has been done so far stays.  That the
\* record cannot be read is not an error: see Compare.
FileError(p) ==
  /\ gen[p].at \in Stage
  /\ gen' = [gen EXCEPT ![p] = Failed]
  /\ UNCHANGED <<events, file, temporary>>

\* The caller takes the error, or the process dies in the middle.
GiveUp(p) ==
  /\ gen[p] # Idle
  /\ gen' = [gen EXCEPT ![p] = Idle]
  /\ UNCHANGED <<events, file, temporary>>

GenerateStep(p) ==
  \/ Compare(p)
  \/ OpenTemporary(p)
  \/ WriteTemporary(p)
  \/ RenameTemporary(p)

\* Evidence arrives while records are generated.
Import(e) ==
  /\ events' = events \cup {e}
  /\ UNCHANGED folderVars

Next ==
  \/ \E e \in Event : Import(e)
  \/ \E p \in Process :
       \/ Generate(p, Day)
       \/ \E d \in Day : Generate(p, {d})
       \/ GenerateStep(p)
       \/ FileError(p)
       \/ GiveUp(p)

Spec == Init /\ [][Next]_vars

-----------------------------------------------------------------------------

\* Whole files, replaced in one step, each showing what the last one showed.
Records == INSTANCE DailyRecords
RecordsReplacedWhole == Records!Spec

\* What a user expects and the code does not keep, as README.md shows: a file
\* that the program did not write is never replaced.
ForeignKept ==
  [][\A d \in Day : file[d].kind \in {"foreign", "binary"}
                      => file'[d] = file[d]]_vars
=============================================================================
