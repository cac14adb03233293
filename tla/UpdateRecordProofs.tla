------------------------- MODULE UpdateRecordProofs -------------------------
(***************************************************************************)
(* The evidence has no holes, for any repositories and histories, any      *)
(* number of processes and any number of failures.                         *)
(***************************************************************************)
EXTENDS UpdateRecord, TLAPS

USE HistoryAssumption, RecordAssumption

(***************************************************************************)
(* HistoryClosed is not inductive: a commit is stored on the strength of   *)
(* what the walk it belongs to has passed.  WalkClosed says what that is:  *)
(* an ancestor of a commit still to be walked is either still to be walked *)
(* or stored.                                                              *)
(***************************************************************************)
WalkClosed ==
  \A p \in Process : run[p] # Idle =>
    \A c \in run[p].walk : History[c] \subseteq run[p].walk \cup events

Walks ==
  /\ head \in [Repo -> Event \cup {NoCommit}]
  /\ events \subseteq Event
  /\ run \in [Process -> Run \cup {Idle}]

Inv == Walks /\ WalkClosed /\ HistoryClosed

\* Initially nothing is stored and nobody walks.
LEMMA InvInit == Init => Inv
BY DEF Init, Inv, Walks, WalkClosed, HistoryClosed, Folder!Init

\* A process that collects is running.
LEMMA Running ==
  ASSUME Walks, NEW p \in Process, run[p].at # "idle"
  PROVE  run[p] \in Run
BY DEF Walks, Idle

\* A step that stores nothing and gives one process a run whose walk is closed.
LEMMA RunChanges ==
  ASSUME Inv, NEW p \in Process, NEW g, Step(p, g),
         UNCHANGED <<head, events>>,
         \/ g = Idle
         \/ /\ g \in Run
            /\ \A c \in g.walk : History[c] \subseteq g.walk \cup events
  PROVE  Inv'
<1>1. g \in Run \cup {Idle}
  OBVIOUS
<1>2. run' \in [Process -> Run \cup {Idle}]
  BY <1>1 DEF Step, Inv, Walks
<1>3. \A q \in Process : run'[q] = IF q = p THEN g ELSE run[q]
  BY DEF Step, Inv, Walks
<1> QED
  BY <1>2, <1>3 DEF Inv, Walks, WalkClosed, HistoryClosed

\* What leaves the evidence and the walks alone keeps the invariant.
LEMMA NothingChanges ==
  ASSUME Inv, UNCHANGED <<head, events, run>>
  PROVE  Inv'
BY DEF Inv, Walks, WalkClosed, HistoryClosed

\* A run that begins walks nothing yet.
LEMMA BeginStep ==
  ASSUME Inv, NEW p \in Process,
         BeginUpdate(p) \/ BeginCollect(p) \/ BeginGenerate(p)
  PROVE  Inv'
<1>1. \A op \in Operation :
        /\ Collecting(op) \in Run
        /\ Collecting(op).walk = {}
        /\ [Collecting(op) EXCEPT !.at = "generate", !.repos = {}] \in Run
        /\ [Collecting(op) EXCEPT !.at = "generate", !.repos = {}].walk = {}
  BY DEF Collecting, Run, Inv, Walks
<1>2. PICK g \in Run : Step(p, g) /\ g.walk = {}
  <2>1. CASE BeginUpdate(p)
    BY <1>1, <2>1 DEF BeginUpdate
  <2>2. CASE BeginCollect(p)
    BY <1>1, <2>2 DEF BeginCollect
  <2>3. CASE BeginGenerate(p)
    BY <1>1, <2>3 DEF BeginGenerate
  <2> QED
    BY <2>1, <2>2, <2>3
<1>3. UNCHANGED <<head, events>>
  BY DEF BeginUpdate, BeginCollect, BeginGenerate, Folder!Generate
<1> QED
  BY <1>2, <1>3, RunChanges

\* A walk that begins covers the history of its head.
LEMMA OpenStep ==
  ASSUME Inv, NEW p \in Process, OpenConnection(p)
  PROVE  Inv'
<1> USE DEF Inv
<1>1. run[p] \in Run
  BY Running DEF OpenConnection, At
<1>2. PICK r \in run[p].repos :
        Step(p, [run[p] EXCEPT !.repos = @ \ {r},
                   !.walk = IF head[r] = NoCommit THEN {} ELSE History[head[r]]])
  BY DEF OpenConnection
<1> DEFINE walk == IF head[r] = NoCommit THEN {} ELSE History[head[r]]
           g == [run[p] EXCEPT !.repos = @ \ {r}, !.walk = walk]
<1>3. head[r] # NoCommit => head[r] \in Event
  BY <1>1 DEF Run, Walks
<1>4. walk \in SUBSET Event
  BY <1>3
<1>5. \A c \in walk : History[c] \subseteq walk
  BY <1>3
<1>6. g \in Run /\ g.walk = walk
  BY <1>1, <1>4 DEF Run
<1>7. UNCHANGED <<head, events>>
  BY DEF OpenConnection
<1>8. Step(p, g)
  BY <1>2
<1> HIDE DEF walk, g
<1> QED
  BY <1>5, <1>6, <1>7, <1>8, RunChanges

\* A commit imported has all its ancestors stored.
LEMMA ImportStep ==
  ASSUME Inv, NEW p \in Process, ImportCommit(p)
  PROVE  Inv'
<1> USE DEF Inv
<1>1. run[p] \in Run
  BY Running DEF ImportCommit, At
<1>2. PICK c \in NextCommits(run[p].walk) :
        IF c \in Malformed
        THEN Step(p, [run[p] EXCEPT !.walk = {}]) /\ UNCHANGED events
        ELSE /\ Step(p, [run[p] EXCEPT !.walk = @ \ {c}])
             /\ events' = events \cup {c}
  BY DEF ImportCommit
<1>3. UNCHANGED head
  BY DEF ImportCommit
<1>4. CASE c \in Malformed
  <2>1. PICK g \in Run : Step(p, g) /\ g.walk = {}
    BY <1>1, <1>2, <1>4 DEF Run
  <2> QED
    BY <1>2, <1>3, <1>4, <2>1, RunChanges
<1>5. CASE c \notin Malformed
  <2> DEFINE g == [run[p] EXCEPT !.walk = @ \ {c}]
  <2>1. c \in run[p].walk /\ History[c] \cap run[p].walk = {c}
    BY DEF NextCommits
  <2>2. run[p].walk \subseteq Event /\ c \in Event
    BY <1>1, <2>1 DEF Run
  <2>3. g \in Run /\ g.walk = run[p].walk \ {c}
    BY <1>1 DEF Run
  <2>4. events' = events \cup {c} /\ Step(p, g)
    BY <1>2, <1>5
  <2> HIDE DEF g
  <2>5. \A q \in Process : run'[q] = IF q = p THEN g ELSE run[q]
    BY <2>4 DEF Step, Walks
  <2>6. Walks'
    BY <1>3, <2>2, <2>3, <2>4 DEF Walks, Step
  <2>7. run[p] # Idle
    BY <1>1 DEF Run, Idle
  <2>8. History[c] \subseteq events'
    BY <2>1, <2>4, <2>7 DEF WalkClosed
  <2>9. HistoryClosed'
    BY <2>4, <2>8 DEF HistoryClosed
  <2>10. ASSUME NEW q \in Process, run'[q] # Idle, NEW d \in run'[q].walk
         PROVE  History[d] \subseteq run'[q].walk \cup events'
    <3>1. CASE q = p
      <4>1. run'[q].walk = run[p].walk \ {c} /\ d \in run[p].walk
        BY <2>3, <2>5, <2>10, <3>1
      <4>2. History[d] \subseteq run[p].walk \cup events
        BY <2>7, <4>1 DEF WalkClosed
      <4> QED
        BY <2>4, <4>1, <4>2
    <3>2. CASE q # p
      BY <2>4, <2>5, <2>10, <3>2 DEF WalkClosed
    <3> QED
      BY <3>1, <3>2
  <2> QED
    BY <2>6, <2>9, <2>10 DEF WalkClosed
<1> QED
  BY <1>4, <1>5

\* A walk cut short leaves what is stored closed.
LEMMA FailStep ==
  ASSUME Inv, NEW p \in Process, ConnectionFails(p)
  PROVE  Inv'
<1> USE DEF Inv
<1>1. run[p] \in Run
  BY Running DEF ConnectionFails, At
<1>2. UNCHANGED <<head, events>>
  BY DEF ConnectionFails
<1>3. CASE Step(p, [run[p] EXCEPT !.walk = {}])
  <2>1. PICK g \in Run : Step(p, g) /\ g.walk = {}
    BY <1>1, <1>3 DEF Run
  <2> QED
    BY <1>2, <2>1, RunChanges
<1>4. CASE run[p].walk = {} /\ \E r \in run[p].repos :
                                 Step(p, [run[p] EXCEPT !.repos = @ \ {r}])
  <2>1. PICK r \in run[p].repos : Step(p, [run[p] EXCEPT !.repos = @ \ {r}])
    BY <1>4
  <2>2. PICK g \in Run : Step(p, g) /\ g.walk = {}
    BY <1>1, <1>4, <2>1 DEF Run
  <2> QED
    BY <1>2, <2>2, RunChanges
<1> QED
  BY <1>3, <1>4 DEF ConnectionFails

\* The end of the collection leaves the evidence alone.
LEMMA EndStep ==
  ASSUME Inv, NEW p \in Process, EndCollection(p)
  PROVE  Inv'
<1> USE DEF Inv
<1>1. run[p] \in Run /\ run[p].walk = {}
  BY Running DEF EndCollection, At
<1> DEFINE new == events \ run[p].before
           g == [run[p] EXCEPT !.at = "generate", !.new = new, !.pending = new]
<1>2. new \in SUBSET Event
  BY DEF Walks
<1>3. g \in Run /\ g.walk = {}
  BY <1>1, <1>2 DEF Run
<1>4. UNCHANGED <<head, events>>
  BY DEF EndCollection
<1>5. Step(p, Idle) \/ Step(p, g)
  BY DEF EndCollection
<1> HIDE DEF g
<1> QED
  BY <1>3, <1>4, <1>5, RunChanges

\* Generation leaves the evidence alone.
LEMMA GenerateRunStep ==
  ASSUME Inv, NEW p \in Process,
         GenerateNext(p) \/ GenerateStep(p) \/ FileError(p) \/ FailRun(p)
           \/ SucceedRun(p) \/ GiveUp(p)
  PROVE  Inv'
<1> USE DEF Inv
<1>1. CASE GenerateNext(p)
  <2>1. run[p] \in Run
    BY <1>1, Running DEF GenerateNext, At
  <2>2. PICK e \in run[p].pending : Step(p, [run[p] EXCEPT !.pending = @ \ {e}])
    BY <1>1 DEF GenerateNext
  <2>3. PICK g \in Run : Step(p, g) /\ g.walk = run[p].walk
    BY <2>1, <2>2 DEF Run
  <2>4. UNCHANGED <<head, events>>
    BY <1>1 DEF GenerateNext, Folder!Generate
  <2>5. run[p] # Idle
    BY <2>1 DEF Run, Idle
  <2> QED
    BY <2>3, <2>4, <2>5, RunChanges DEF WalkClosed
<1>2. CASE GenerateStep(p) \/ FileError(p)
  <2>1. UNCHANGED <<head, events, run>>
    BY <1>2 DEF GenerateStep, FileError, Folder!GenerateStep, Folder!FileError,
                Folder!Compare, Folder!OpenTemporary, Folder!WriteTemporary,
                Folder!RenameTemporary
  <2> QED
    BY <2>1, NothingChanges
<1>3. CASE FailRun(p) \/ SucceedRun(p) \/ GiveUp(p)
  <2>1. Step(p, Idle) /\ UNCHANGED <<head, events>>
    BY <1>3 DEF FailRun, SucceedRun, GiveUp, Folder!GiveUp
  <2> QED
    BY <2>1, RunChanges
<1> QED
  BY <1>1, <1>2, <1>3

\* Every step keeps the invariant.
LEMMA InvNext == Inv /\ [Next]_vars => Inv'
<1> SUFFICES ASSUME Inv, [Next]_vars PROVE Inv'
  OBVIOUS
<1>1. ASSUME NEW r \in Repo, MoveHead(r) PROVE Inv'
  BY <1>1 DEF MoveHead, Inv, Walks, WalkClosed, HistoryClosed
<1>2. ASSUME NEW p \in Process, RunStep(p) PROVE Inv'
  BY <1>2, OpenStep, ImportStep, EndStep, GenerateRunStep DEF RunStep
<1>3. CASE UNCHANGED vars
  BY <1>3, NothingChanges DEF vars
<1> QED
  BY <1>1, <1>2, <1>3, BeginStep, FailStep, GenerateRunStep DEF Next

\* With every stored commit all its ancestors are stored, however many
\* processes import from however many repositories and whatever fails.
THEOREM NoHoles == Spec => []HistoryClosed
<1>1. Inv => HistoryClosed
  BY DEF Inv
<1> QED
  BY InvInit, InvNext, <1>1, PTL DEF Spec

-----------------------------------------------------------------------------
(* Type correctness.  What RecordFolderProofs shows of a folder holds of   *)
(* the folder of a run: Proved is that instance, and its definitions are   *)
(* those of Folder.                                                        *)

Proved == INSTANCE RecordFolderProofs

\* The folder's type invariant, here and where it is proved, is one.
LEMMA SameType == Proved!TypeOK <=> Folder!TypeOK
  BY DEF Proved!TypeOK, Folder!TypeOK, Proved!Content, Folder!Content, Proved!Kind,
    Folder!Kind, Proved!Generation, Folder!Generation, Proved!Stage, Folder!Stage,
    Proved!Place, Folder!Place, Proved!Idle, Folder!Idle, Proved!Failed, Folder!Failed

\* Likewise the start of a generation.
LEMMA SameGenerate ==
  ASSUME NEW p, NEW only
  PROVE  Proved!Generate(p, only) <=> Folder!Generate(p, only)
  BY DEF Proved!Generate, Folder!Generate, Proved!Idle, Folder!Idle

\* Likewise its steps.
LEMMA SameStep ==
  ASSUME NEW p
  PROVE  Proved!GenerateStep(p) <=> Folder!GenerateStep(p)
<1>1. Proved!Compare(p) <=> Folder!Compare(p)
  BY DEF Proved!Compare, Folder!Compare, Proved!At, Folder!At, Proved!NotOurs,
    Folder!NotOurs, Proved!ReadOrAbsent, Folder!ReadOrAbsent, Proved!Unwritten,
    Folder!Unwritten, Proved!NextDay, Folder!NextDay, Proved!Today, Folder!Today,
    Proved!Body, Folder!Body, Proved!Record, Folder!Record, Proved!OnDay, Folder!OnDay,
    Proved!Idle, Folder!Idle, Proved!Failed, Folder!Failed
<1>2. Proved!OpenTemporary(p) <=> Folder!OpenTemporary(p)
  BY DEF Proved!OpenTemporary, Folder!OpenTemporary, Proved!At, Folder!At,
    Proved!Today, Folder!Today, Proved!Unwritten, Folder!Unwritten
<1>3. Proved!WriteTemporary(p) <=> Folder!WriteTemporary(p)
  BY DEF Proved!WriteTemporary, Folder!WriteTemporary, Proved!At, Folder!At,
    Proved!Today, Folder!Today, Proved!Body, Folder!Body, Proved!Record, Folder!Record,
    Proved!OnDay, Folder!OnDay, Proved!Overlay, Folder!Overlay, Proved!Goto, Folder!Goto
<1>4. Proved!RenameTemporary(p) <=> Folder!RenameTemporary(p)
  BY DEF Proved!RenameTemporary, Folder!RenameTemporary, Proved!At, Folder!At,
    Proved!Today, Folder!Today, Proved!NextDay, Folder!NextDay, Proved!Unwritten,
    Folder!Unwritten, Proved!Renamed, Folder!Renamed, Proved!Idle, Folder!Idle,
    Proved!Failed, Folder!Failed
<1> QED
  BY <1>1, <1>2, <1>3, <1>4 DEF Proved!GenerateStep, Folder!GenerateStep

\* What a run does to the folder is a step of the folder.
LEMMA FolderSteps ==
  ASSUME Folder!TypeOK, NEW p \in Process, NEW only,
         Folder!Generate(p, only) \/ Folder!GenerateStep(p)
  PROVE  Folder!TypeOK'
<1>1. Proved!FolderAssumption
  BY DayAssumption DEF Proved!FolderAssumption
<1>2. Proved!TypeOK'
  BY <1>1, SameType, SameGenerate, SameStep, Proved!TypeGenerate, Proved!TypeStep
<1>3. Proved!TypeOK' <=> Folder!TypeOK'
  BY SameType, PTL
<1> QED
  BY <1>2, <1>3

\* Steps that let a generation fail, end or be, and may store events.
LEMMA FolderRests ==
  ASSUME Folder!TypeOK, UNCHANGED <<file, temporary>>, events' \subseteq Event,
         \/ UNCHANGED gen
         \/ \E p \in Process : gen' = [gen EXCEPT ![p] = Folder!Failed]
         \/ \E p \in Process : gen' = [gen EXCEPT ![p] = Folder!Idle]
  PROVE  Folder!TypeOK'
  BY DEF Folder!TypeOK

\* Every step keeps the folder typed.
LEMMA FolderKeepsType ==
  ASSUME Folder!TypeOK, events' \subseteq Event, [Next]_vars
  PROVE  Folder!TypeOK'
<1>1. ASSUME NEW p \in Process, BeginGenerate(p) \/ GenerateNext(p) \/ GenerateStep(p)
      PROVE  Folder!TypeOK'
  BY <1>1, FolderSteps DEF BeginGenerate, GenerateNext, GenerateStep
<1>2. ASSUME NEW p \in Process, FileError(p) \/ FailRun(p) \/ GiveUp(p)
      PROVE  Folder!TypeOK'
  BY <1>2, FolderRests
  DEF FileError, FailRun, GiveUp, Folder!FileError, Folder!GiveUp
<1>3. ASSUME NEW p \in Process,
             \/ BeginUpdate(p) \/ BeginCollect(p) \/ OpenConnection(p)
             \/ ImportCommit(p) \/ ConnectionFails(p) \/ EndCollection(p)
             \/ SucceedRun(p)
      PROVE  Folder!TypeOK'
  BY <1>3, FolderRests
  DEF BeginUpdate, BeginCollect, OpenConnection, ImportCommit, ConnectionFails,
    EndCollection, SucceedRun
<1>4. ASSUME NEW r \in Repo, MoveHead(r)
      PROVE  Folder!TypeOK'
  BY <1>4, FolderRests DEF MoveHead
<1>5. CASE UNCHANGED vars
  BY <1>5, FolderRests DEF vars
<1> QED
  BY <1>1, <1>2, <1>3, <1>4, <1>5 DEF Next, RunStep

RowsType ==
  /\ status \in {"paused", "running", "succeeded", "failed"}
  /\ spent \in [moves : Nat, faults : Nat]

\* Spending keeps the counters natural.
LEMMA SpentMore ==
  ASSUME RowsType, Fault \/ spent' = [spent EXCEPT !.moves = @ + 1]
  PROVE  spent' \in [moves : Nat, faults : Nat]
  BY DEF RowsType, Fault

\* Every step keeps the runs and rows typed.
LEMMA RowsKeepType == RowsType /\ [Next]_vars => RowsType'
<1> SUFFICES ASSUME RowsType, [Next]_vars PROVE RowsType'
  OBVIOUS
<1>1. ASSUME NEW p \in Process, BeginUpdate(p) \/ BeginCollect(p) \/ BeginGenerate(p)
      PROVE  RowsType'
  BY <1>1 DEF BeginUpdate, BeginCollect, BeginGenerate, RowsType
<1>2. ASSUME NEW p \in Process, RunStep(p)
      PROVE  RowsType'
  BY <1>2 DEF RunStep, OpenConnection, ImportCommit, EndCollection, GenerateNext,
    GenerateStep, FailRun, SucceedRun, SetStatus, RowsType
<1>3. ASSUME NEW p \in Process, ConnectionFails(p) \/ FileError(p) \/ GiveUp(p)
      PROVE  RowsType'
  BY <1>3, SpentMore DEF ConnectionFails, FileError, GiveUp, SetStatus, RowsType
<1>4. ASSUME NEW r \in Repo, MoveHead(r)
      PROVE  RowsType'
  BY <1>4, SpentMore DEF MoveHead, RowsType
<1>5. CASE UNCHANGED vars
  BY <1>5 DEF vars, RowsType
<1> QED
  BY <1>1, <1>2, <1>3, <1>4, <1>5 DEF Next

\* A run, the folder it writes and the rows it keeps are well typed, whoever
\* else runs and whatever fails.
THEOREM RecordTypeCorrect == Spec => []TypeOK
<1> DEFINE All == Inv /\ Folder!TypeOK /\ RowsType
<1>1. Init => All
  <2> SUFFICES ASSUME Init PROVE All
    OBVIOUS
  <2>1. \A k \in {"none", "foreign", "binary"} : Folder!Unwritten(k) \in Folder!Content
    BY DEF Folder!Unwritten, Folder!Content, Folder!Kind
  <2>2. Folder!TypeOK
    BY <2>1, DayAssumption DEF Init, Folder!Init, Folder!FolderInit, Folder!TypeOK
  <2> QED
    BY <2>2, InvInit DEF Init, RowsType
<1>2. All /\ [Next]_vars => All'
  BY InvNext, FolderKeepsType, RowsKeepType DEF Inv, Walks
<1>3. All => TypeOK
  BY DEF Inv, Walks, RowsType, TypeOK
<1> QED
  BY <1>1, <1>2, <1>3, PTL DEF Spec

-----------------------------------------------------------------------------
(* What a successful update has shown, when one process works on the       *)
(* database and the folder.                                                *)

\* The state of the folder, here and where it is proved about.
FolderAlone == Folder!TypeOK /\ Proved!Alone

(***************************************************************************)
(* Each event an update has found is stored; once it is no longer pending  *)
(* it is shown by the record of its day, or that day lies before the       *)
(* generation under way, or that has failed and the run is bound to.       *)
(***************************************************************************)
Covered ==
  \A p \in Process : run[p] # Idle =>
    /\ run[p].new \subseteq events
    /\ run[p].op = "update" => status = "running"
    /\ \A e \in run[p].new \ run[p].pending :
         gen[p] = Folder!Failed \/ Proved!Written(e) \/ Proved!Underway(p, e)

\* What the folder's lemmas assume.
LEMMA ProvedAssumption == Proved!FolderAssumption
BY DayAssumption DEF Proved!FolderAssumption

\* Initially the folder is as one process leaves it and nobody runs.
LEMMA CoveredInit == Init => FolderAlone /\ Covered
<1> SUFFICES ASSUME Init PROVE FolderAlone /\ Covered
  OBVIOUS
<1>1. Proved!Init
  BY DEF Init, Folder!Init, Folder!FolderInit, Folder!Unwritten, Folder!Idle,
    Proved!Init, Proved!FolderInit, Proved!Unwritten, Proved!Idle
<1>2. Proved!TypeOK /\ Proved!Alone
  BY <1>1, ProvedAssumption, Proved!TypeInit, Proved!AloneInit
<1> QED
  BY <1>2, SameType DEF Init, FolderAlone, Covered

\* Every step of the only process leaves the folder so.
LEMMA AloneKept ==
  ASSUME FolderAlone, NEW p \in Process, Process = {p}, [Next]_vars,
         events \subseteq events', events' \subseteq Event
  PROVE  FolderAlone'
<1> USE DEF FolderAlone
<1>1. Proved!TypeOK /\ Proved!FolderAssumption
  BY SameType, ProvedAssumption
<1>2. Folder!TypeOK'
  BY FolderKeepsType
<1>3. ASSUME NEW only, Folder!Generate(p, only)
      PROVE  Proved!Alone'
  BY <1>1, <1>3, SameGenerate, Proved!AloneGenerate
<1>4. ASSUME Folder!GenerateStep(p)
      PROVE  Proved!Alone'
  BY <1>1, <1>4, SameStep, Proved!AloneStep
<1>5. ASSUME UNCHANGED <<file, temporary>>,
             \/ UNCHANGED gen
             \/ gen' = [gen EXCEPT ![p] = Folder!Failed]
             \/ gen' = [gen EXCEPT ![p] = Folder!Idle]
      PROVE  Proved!Alone'
  BY <1>1, <1>5, Proved!AloneRests
  DEF Folder!Failed, Folder!Idle, Proved!Failed, Proved!Idle
<1>6. ASSUME BeginGenerate(p) \/ GenerateNext(p) \/ GenerateStep(p)
      PROVE  Proved!Alone'
  BY <1>3, <1>4, <1>6 DEF BeginGenerate, GenerateNext, GenerateStep
<1>7. ASSUME \/ FileError(p) \/ FailRun(p) \/ GiveUp(p)
             \/ BeginUpdate(p) \/ BeginCollect(p) \/ OpenConnection(p)
             \/ ImportCommit(p) \/ ConnectionFails(p) \/ EndCollection(p)
             \/ SucceedRun(p)
      PROVE  Proved!Alone'
  BY <1>5, <1>7
  DEF FileError, FailRun, GiveUp, Folder!FileError, Folder!GiveUp, BeginUpdate,
    BeginCollect, OpenConnection, ImportCommit, ConnectionFails, EndCollection,
    SucceedRun
<1>8. ASSUME NEW r \in Repo, MoveHead(r)
      PROVE  Proved!Alone'
  BY <1>5, <1>8 DEF MoveHead
<1>9. CASE UNCHANGED vars
  <2>1. UNCHANGED <<file, temporary>> /\ UNCHANGED gen
    BY <1>9 DEF vars
  <2> QED
    BY <1>2, <1>5, <2>1
<1> QED
  BY <1>2, <1>6, <1>7, <1>8, <1>9 DEF Next, RunStep

\* Stored events stay stored.
LEMMA EventsKept == [Next]_vars => events \subseteq events'
<1> SUFFICES ASSUME [Next]_vars PROVE events \subseteq events'
  OBVIOUS
<1>1. ASSUME NEW p \in Process, BeginUpdate(p) \/ BeginCollect(p) \/ BeginGenerate(p)
      PROVE  events \subseteq events'
  BY <1>1 DEF BeginUpdate, BeginCollect, BeginGenerate, Folder!Generate
<1>2. ASSUME NEW p \in Process, RunStep(p)
      PROVE  events \subseteq events'
  BY <1>2 DEF RunStep, OpenConnection, ImportCommit, EndCollection, GenerateNext,
    GenerateStep, FailRun, SucceedRun, Folder!Generate, Folder!GenerateStep,
    Folder!Compare, Folder!OpenTemporary, Folder!WriteTemporary,
    Folder!RenameTemporary, Folder!GiveUp
<1>3. ASSUME NEW p \in Process, ConnectionFails(p) \/ FileError(p) \/ GiveUp(p)
      PROVE  events \subseteq events'
  BY <1>3 DEF ConnectionFails, FileError, GiveUp, Folder!FileError
<1>4. ASSUME NEW r \in Repo, MoveHead(r)
      PROVE  events \subseteq events'
  BY <1>4 DEF MoveHead
<1>5. CASE UNCHANGED vars
  BY <1>5 DEF vars
<1> QED
  BY <1>1, <1>2, <1>3, <1>4, <1>5 DEF Next

\* A step of the only process that leaves what is shown and under way alone and
\* what it has found and what is pending of it as they were.
LEMMA CoveredRests ==
  ASSUME Covered, NEW p \in Process, Process = {p}, events \subseteq events',
         UNCHANGED <<file, gen, status>>,
         run'[p] # Idle =>
           /\ run[p] # Idle
           /\ run'[p].op = run[p].op
           /\ run'[p].new = run[p].new
           /\ run'[p].pending = run[p].pending
  PROVE  Covered'
BY DEF Covered, Proved!Written, Proved!Underway

\* A run that begins has found nothing yet.
LEMMA CoveredBegin ==
  ASSUME NEW p \in Process, Process = {p}, run'[p].new = {},
         run'[p].op = "update" => status' = "running"
  PROVE  Covered'
BY DEF Covered

\* While it collects, a run finds nothing; at the end of the collection all it
\* has found is pending.
LEMMA CoveredCollect ==
  ASSUME Inv, Covered, NEW p \in Process, Process = {p},
         \/ OpenConnection(p) \/ ImportCommit(p) \/ ConnectionFails(p)
         \/ EndCollection(p)
  PROVE  Covered'
<1>1. run[p] \in Run /\ run[p] # Idle
  <2>1. run[p].at = "collect"
    BY DEF OpenConnection, ImportCommit, ConnectionFails, EndCollection, At
  <2> QED
    BY <2>1, Running DEF Inv, Idle
<1>2. CASE OpenConnection(p) \/ ImportCommit(p) \/ ConnectionFails(p)
  <2> DEFINE Same(g) == /\ g.op = run[p].op
                        /\ g.new = run[p].new
                        /\ g.pending = run[p].pending
  <2>1. PICK g : Step(p, g) /\ Same(g)
    <3>1. CASE OpenConnection(p)
      <4>1. PICK r \in run[p].repos :
              Step(p, [run[p] EXCEPT !.repos = @ \ {r},
                         !.walk = IF head[r] = NoCommit THEN {} ELSE History[head[r]]])
        BY <3>1 DEF OpenConnection
      <4>2. Same([run[p] EXCEPT !.repos = @ \ {r},
                    !.walk = IF head[r] = NoCommit THEN {} ELSE History[head[r]]])
        BY <1>1 DEF Run
      <4> HIDE DEF Same
      <4> QED
        BY <4>1, <4>2
    <3>2. CASE ImportCommit(p)
      <4>1. PICK c \in NextCommits(run[p].walk) :
              \/ Step(p, [run[p] EXCEPT !.walk = {}])
              \/ Step(p, [run[p] EXCEPT !.walk = @ \ {c}])
        BY <3>2 DEF ImportCommit
      <4>2. /\ Same([run[p] EXCEPT !.walk = {}])
            /\ Same([run[p] EXCEPT !.walk = @ \ {c}])
        BY <1>1 DEF Run
      <4> HIDE DEF Same
      <4> QED
        BY <4>1, <4>2
    <3>3. CASE ConnectionFails(p)
      <4>1. \/ Step(p, [run[p] EXCEPT !.walk = {}])
            \/ \E r \in run[p].repos : Step(p, [run[p] EXCEPT !.repos = @ \ {r}])
        BY <3>3 DEF ConnectionFails
      <4>2. /\ Same([run[p] EXCEPT !.walk = {}])
            /\ \A r \in run[p].repos : Same([run[p] EXCEPT !.repos = @ \ {r}])
        BY <1>1 DEF Run
      <4> HIDE DEF Same
      <4> QED
        BY <4>1, <4>2
    <3> QED
      BY <1>2, <3>1, <3>2, <3>3
  <2>2. run'[p] = g
    BY <2>1 DEF Step, Inv, Walks
  <2>3. UNCHANGED <<file, gen, status>> /\ events \subseteq events'
    BY <1>2 DEF OpenConnection, ImportCommit, ConnectionFails
  <2> QED
    BY <1>1, <2>1, <2>2, <2>3, CoveredRests
<1>3. CASE EndCollection(p)
  <2> DEFINE new == events \ run[p].before
             g == [run[p] EXCEPT !.at = "generate", !.new = new, !.pending = new]
  <2>1. run'[p] \in {Idle, g} /\ UNCHANGED <<events, status>>
    BY <1>3 DEF EndCollection, Step, Inv, Walks
  <2>2. g.new = new /\ g.pending = new /\ g.op = run[p].op /\ new \subseteq events
    BY <1>1 DEF Run
  <2> HIDE DEF g, new
  <2> QED
    BY <1>1, <2>1, <2>2 DEF Covered
<1> QED
  BY <1>2, <1>3

\* A generation asked for reads every event there is.
LEMMA CoveredGenerate ==
  ASSUME Inv, Covered, NEW p \in Process, Process = {p}, GenerateNext(p),
         Folder!TypeOK
  PROVE  Covered'
<1>1. run[p] \in Run /\ run[p] # Idle
  BY Running DEF Inv, GenerateNext, At, Run, Idle
<1>2. PICK e \in run[p].pending : /\ Step(p, [run[p] EXCEPT !.pending = @ \ {e}])
                                  /\ Folder!Generate(p, {DayOf[e]})
  BY DEF GenerateNext
<1>3. run'[p] = [run[p] EXCEPT !.pending = @ \ {e}]
  BY <1>2 DEF Step, Inv, Walks
<1>4. /\ run'[p].op = run[p].op
      /\ run'[p].new = run[p].new
      /\ run'[p].pending = run[p].pending \ {e}
  BY <1>1, <1>3 DEF Run
<1>5. UNCHANGED <<events, file, temporary, status>> /\ gen[p] = Folder!Idle
  BY <1>2 DEF GenerateNext, Folder!Generate
<1>6. \A x \in run[p].new \ run[p].pending : Proved!Written(x)
  BY <1>1, <1>5 DEF Covered, Proved!Underway, Folder!Idle, Folder!Failed, Proved!Stage
<1>7. e \in run[p].new => Proved!Underway(p, e)'
  <2> SUFFICES ASSUME e \in run[p].new PROVE Proved!Underway(p, e)'
    OBVIOUS
  <2> DEFINE days == {DayOf[x] : x \in events} \cap {DayOf[e]}
  <2>1. e \in events
    BY <1>1 DEF Covered
  <2>2. days = {DayOf[e]}
    BY <2>1
  <2>3. gen'[p] = IF days = {} THEN Folder!Idle
                  ELSE [at |-> "compare", days |-> days, snapshot |-> events,
                        fd |-> "temporary"]
    BY <1>2 DEF Folder!Generate, Folder!TypeOK
  <2> HIDE DEF days
  <2> QED
    BY <2>1, <2>2, <2>3 DEF Proved!Underway, Proved!Stage
<1>8. \A x \in run[p].new \ run[p].pending : Proved!Written(x)'
  BY <1>5, <1>6 DEF Proved!Written
<1>9. \A x \in run'[p].new \ run'[p].pending :
        Proved!Written(x)' \/ Proved!Underway(p, x)'
  BY <1>4, <1>7, <1>8
<1> QED
  BY <1>1, <1>4, <1>5, <1>9 DEF Covered

\* A file operation shows what the generation has before it.
LEMMA CoveredStep ==
  ASSUME Inv, FolderAlone, Covered, NEW p \in Process, Process = {p},
         GenerateStep(p)
  PROVE  Covered'
<1>1. Proved!TypeOK /\ Proved!Alone /\ Proved!FolderAssumption
  BY SameType, ProvedAssumption DEF FolderAlone
<1>2. Proved!GenerateStep(p) /\ UNCHANGED <<run, status>>
  BY SameStep DEF GenerateStep
<1>3. UNCHANGED events
  BY DEF GenerateStep, Folder!GenerateStep, Folder!Compare, Folder!OpenTemporary,
    Folder!WriteTemporary, Folder!RenameTemporary
<1>4. gen[p].at # "failed"
  BY DEF GenerateStep, Folder!GenerateStep, Folder!Compare, Folder!OpenTemporary,
    Folder!WriteTemporary, Folder!RenameTemporary, Folder!At
<1>5. ASSUME run[p] # Idle, NEW e \in run[p].new \ run[p].pending
      PROVE  \/ gen'[p] = Folder!Failed
             \/ Proved!Written(e)'
             \/ Proved!Underway(p, e)'
  <2>1. e \in Event
    BY <1>5 DEF Inv, Walks, Run
  <2>2. Proved!Written(e) \/ Proved!Underway(p, e)
    BY <1>4, <1>5 DEF Covered, Folder!Failed
  <2>3. gen'[p] = Proved!Failed \/ Proved!Written(e)' \/ Proved!Underway(p, e)'
    BY <1>1, <1>2, <2>1, <2>2, Proved!WrittenStep
  <2> QED
    BY <2>3 DEF Proved!Failed, Folder!Failed
<1> QED
  BY <1>2, <1>3, <1>5 DEF Covered

\* Every step of the only process keeps Covered.
LEMMA CoveredNext ==
  ASSUME Inv, FolderAlone, Covered, NEW p \in Process, Process = {p}, [Next]_vars
  PROVE  Covered'
<1> USE DEF FolderAlone
<1>1. ASSUME BeginUpdate(p) \/ BeginCollect(p) \/ BeginGenerate(p)
      PROVE  Covered'
  <2>1. \A op : /\ Collecting(op).new = {}
                /\ Collecting(op).op = op
                /\ [Collecting(op) EXCEPT !.at = "generate", !.repos = {}].new = {}
                /\ [Collecting(op) EXCEPT !.at = "generate", !.repos = {}].op = op
    BY DEF Collecting
  <2>2. \A g : Step(p, g) => run'[p] = g
    BY DEF Step, Inv, Walks
  <2>3. run'[p].new = {} /\ (run'[p].op = "update" => status' = "running")
    <3>1. CASE BeginUpdate(p)
      BY <2>1, <2>2, <3>1 DEF BeginUpdate
    <3>2. CASE BeginCollect(p)
      BY <2>1, <2>2, <3>2 DEF BeginCollect
    <3>3. CASE BeginGenerate(p)
      <4> DEFINE g == [Collecting("generate") EXCEPT !.at = "generate", !.repos = {}]
      <4>1. Step(p, g)
        BY <3>3 DEF BeginGenerate
      <4>2. g.new = {} /\ g.op = "generate"
        BY <2>1
      <4> HIDE DEF g
      <4> QED
        BY <2>2, <4>1, <4>2
    <3> QED
      BY <1>1, <3>1, <3>2, <3>3
  <2> QED
    BY <2>3, CoveredBegin
<1>2. ASSUME FileError(p)
      PROVE  Covered'
  <2>1. gen'[p] = Folder!Failed /\ UNCHANGED <<events, run, status>>
    BY <1>2 DEF FileError, Folder!FileError, Folder!TypeOK
  <2> QED
    BY <2>1 DEF Covered
<1>3. ASSUME FailRun(p) \/ SucceedRun(p) \/ GiveUp(p)
      PROVE  Covered'
  <2>1. run'[p] = Idle
    BY <1>3 DEF FailRun, SucceedRun, GiveUp, Step, Inv, Walks
  <2> QED
    BY <2>1 DEF Covered
<1>4. ASSUME NEW r \in Repo, MoveHead(r)
      PROVE  Covered'
  BY <1>4, CoveredRests DEF MoveHead
<1>5. CASE UNCHANGED vars
  BY <1>5, CoveredRests DEF vars
<1> QED
  BY <1>1, <1>2, <1>3, <1>4, <1>5, CoveredCollect, CoveredGenerate, CoveredStep
  DEF Next, RunStep

\* An update succeeds when nothing is pending and no generation under way.
LEMMA SuccessShows ==
  ASSUME Inv, Covered, NEW p \in Process, Process = {p}, [Next]_vars, Succeeds(p)
  PROVE  \A e \in run[p].new : Shown(e)
<1>1. run[p] # Idle /\ run'[p] = Idle /\ run[p].op = "update" /\ status' = "succeeded"
  BY DEF Succeeds
<1>2. status = "running"
  BY <1>1 DEF Covered
<1>3. SucceedRun(p)
  <2>1. ~(BeginUpdate(p) \/ BeginCollect(p) \/ BeginGenerate(p))
    BY <1>1 DEF BeginUpdate, BeginCollect, BeginGenerate
  <2>2. status' # status
    BY <1>1, <1>2
  <2>3. ~(\/ OpenConnection(p) \/ ImportCommit(p) \/ EndCollection(p)
          \/ GenerateNext(p) \/ GenerateStep(p) \/ ConnectionFails(p)
          \/ FileError(p) \/ UNCHANGED vars \/ \E r \in Repo : MoveHead(r))
    BY <2>2 DEF OpenConnection, ImportCommit, EndCollection, GenerateNext,
      GenerateStep, ConnectionFails, FileError, MoveHead, vars
  <2>4. ~(FailRun(p) \/ GiveUp(p))
    BY <1>1, <1>2 DEF FailRun, GiveUp, SetStatus
  <2> QED
    BY <2>1, <2>3, <2>4 DEF Next, RunStep
<1>4. run[p].pending = {} /\ gen[p] = Folder!Idle
  BY <1>3 DEF SucceedRun
<1>5. \A e \in run[p].new : Proved!Written(e)
  BY <1>1, <1>4 DEF Covered, Proved!Underway, Folder!Idle, Folder!Failed, Proved!Stage
<1> QED
  BY <1>5 DEF Shown, Proved!Written

\* An update that succeeds has put every event stored since it began into the
\* record of its day, when one process works on the database and the folder,
\* whatever fails, dies or moves meanwhile.
THEOREM SuccessfulUpdateShows ==
  ASSUME NEW only \in Process, Process = {only}
  PROVE  Spec => NewEvidenceShown
<1> DEFINE All == Inv /\ FolderAlone /\ Covered
<1>1. Init => All
  BY InvInit, CoveredInit
<1>2. All /\ [Next]_vars => All'
  BY InvNext, EventsKept, AloneKept, CoveredNext DEF Inv, Walks
<1>3. All /\ [Next]_vars =>
        [\A p \in Process : Succeeds(p) => \A e \in run[p].new : Shown(e)]_vars
  BY SuccessShows
<1> QED
  BY <1>1, <1>2, <1>3, PTL DEF Spec, NewEvidenceShown
=============================================================================
