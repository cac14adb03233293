--------------------------- MODULE EvidenceStore ---------------------------
(***************************************************************************)
(* The evidence tables of crates/schomburg-store and the two operations    *)
(* that write them, append_event and append_annotation, called by writers  *)
(* in any number of processes.                                             *)
(*                                                                         *)
(* append_event is one INSERT .. ON CONFLICT DO NOTHING.  append_annotation *)
(* is up to three statements with no transaction around them: the target   *)
(* event is looked up, then the annotation it supersedes, then the row is  *)
(* inserted; other writers act in between.  Every action is one statement. *)
(***************************************************************************)
CONSTANTS
  Writer,        \* connections to the database
  EventId,
  Observation,   \* what tells two captures of one event apart (captured_at)
  AnnotationId,
  Field,         \* organizational fields
  None           \* no superseded annotation

ASSUME NoneAssumption == None \notin AnnotationId

VARIABLES
  events,       \* events stored: EventId -> Observation
  annotations,  \* annotations stored: AnnotationId -> Annotation
  call          \* the append_annotation each writer is executing, or its answer

vars == <<events, annotations, call>>

Annotation == [event : EventId, field : Field,
               supersedes : AnnotationId \cup {None}]
Request == [id : AnnotationId, row : Annotation]

\* The statement a call executes next, or the Result it has returned.
Step == {"exists", "predecessor", "insert"}
Answer == {"ok", "duplicate", "refused"}
NoCall == [at |-> "none"]
Call == [at : Step \cup Answer, request : Request]

Partial(D, R) == UNION {[S -> R] : S \in SUBSET D}

TypeOK ==
  /\ events \in Partial(EventId, Observation)
  /\ annotations \in Partial(AnnotationId, Annotation)
  /\ call \in [Writer -> Call \cup {NoCall}]

Init ==
  /\ events = [e \in {} |-> {}]
  /\ annotations = [a \in {} |-> {}]
  /\ call = [w \in Writer |-> NoCall]

-----------------------------------------------------------------------------

\* A table with one more row.
Put(table, id, row) ==
  [k \in DOMAIN table \cup {id} |-> IF k = id THEN row ELSE table[k]]

\* Mutant: INSERT OR REPLACE.
AppendEventReplacing(e, o) ==
  /\ events' = Put(events, e, o)
  /\ UNCHANGED <<annotations, call>>

\* append_event: an event already stored is left as it is, and the caller told
\* that its identifier is a duplicate.
AppendEvent(e, o) ==
  /\ e \notin DOMAIN events
  /\ events' = Put(events, e, o)
  /\ UNCHANGED <<annotations, call>>

At(w, label) == call[w].at = label
Moves(w, label) == call' = [call EXCEPT ![w].at = label]

AppendAnnotation(w, request) ==
  /\ call[w] = NoCall
  /\ call' = [call EXCEPT ![w] = [at |-> "exists", request |-> request]]
  /\ UNCHANGED <<events, annotations>>

\* Mutant: the target is not looked up when something is superseded.
LookUpEventUnlessSuperseding(w) ==
  /\ At(w, "exists")
  /\ LET row == call[w].request.row
     IN  Moves(w,
           IF row.supersedes = None
           THEN IF row.event \in DOMAIN events THEN "insert" ELSE "refused"
           ELSE "insert")
  /\ UNCHANGED <<events, annotations>>

\* event_exists, and the check that an annotation does not supersede itself.
LookUpEvent(w) ==
  /\ At(w, "exists")
  /\ LET row == call[w].request.row
     IN  Moves(w,
           IF row.event \notin DOMAIN events THEN "refused"
           ELSE IF row.supersedes = None THEN "insert"
           ELSE IF row.supersedes = call[w].request.id THEN "refused"
           ELSE "predecessor")
  /\ UNCHANGED <<events, annotations>>

\* get_annotation of the predecessor: it exists, for the same event and field.
Supersedable(row) ==
  /\ row.supersedes \in DOMAIN annotations
  /\ annotations[row.supersedes].event = row.event
  /\ annotations[row.supersedes].field = row.field

\* Mutant: any annotation will do for a predecessor.
LookUpPredecessorOfAny(w) ==
  /\ At(w, "predecessor")
  /\ Moves(w, IF call[w].request.row.supersedes \in DOMAIN annotations
              THEN "insert" ELSE "refused")
  /\ UNCHANGED <<events, annotations>>

LookUpPredecessor(w) ==
  /\ At(w, "predecessor")
  /\ Moves(w, IF Supersedable(call[w].request.row) THEN "insert" ELSE "refused")
  /\ UNCHANGED <<events, annotations>>

\* Mutant: the identifier is stored along with the row.
InsertRequest(w) ==
  /\ At(w, "insert")
  /\ Moves(w, "ok")
  /\ annotations' = Put(annotations, call[w].request.id, call[w].request)
  /\ UNCHANGED events

\* Mutant: INSERT OR REPLACE.
InsertReplacing(w) ==
  /\ At(w, "insert")
  /\ Moves(w, "ok")
  /\ annotations' = Put(annotations, call[w].request.id, call[w].request.row)
  /\ UNCHANGED events

\* Mutant: INSERT OR IGNORE without a look at the number of rows changed.
InsertIgnoring(w) ==
  /\ At(w, "insert")
  /\ Moves(w, "ok")
  /\ annotations' = IF call[w].request.id \in DOMAIN annotations THEN annotations
                    ELSE Put(annotations, call[w].request.id, call[w].request.row)
  /\ UNCHANGED events

\* The INSERT: nothing changes when the identifier is taken.
Insert(w) ==
  /\ At(w, "insert")
  /\ LET id == call[w].request.id
         row == call[w].request.row
     IN  IF id \in DOMAIN annotations
         THEN Moves(w, "duplicate") /\ UNCHANGED annotations
         ELSE Moves(w, "ok") /\ annotations' = Put(annotations, id, row)
  /\ UNCHANGED events

\* The caller takes the answer, or its process dies between two statements.
EndCall(w) ==
  /\ call[w] # NoCall
  /\ call' = [call EXCEPT ![w] = NoCall]
  /\ UNCHANGED <<events, annotations>>

Next ==
  \/ \E e \in EventId, o \in Observation : AppendEvent(e, o)
  \/ \E w \in Writer :
       \/ \E request \in Request : AppendAnnotation(w, request)
       \/ LookUpEvent(w)
       \/ LookUpPredecessor(w)
       \/ Insert(w)
       \/ EndCall(w)

Spec == Init /\ [][Next]_vars

-----------------------------------------------------------------------------

\* Every annotation targets a stored event, although the event was looked up
\* one or two statements before the row was inserted.
TargetsExist ==
  \A a \in DOMAIN annotations : annotations[a].event \in DOMAIN events

\* What an annotation supersedes is stored, for the same event and field.
SupersessionKeepsSubject ==
  \A a \in DOMAIN annotations :
    annotations[a].supersedes # None => Supersedable(annotations[a])

\* Supersession never runs in a circle, whichever writers raced: every set of
\* annotations has one that supersedes nothing in the set.
SupersessionAcyclic ==
  \A S \in SUBSET DOMAIN annotations :
    S # {} => \E a \in S : annotations[a].supersedes \notin S

\* An accepted annotation is the stored one; of two writers with the same
\* identifier at most one is answered Ok unless they wrote the same thing.
AcceptedIsStored ==
  \A w \in Writer : call[w] # NoCall /\ At(w, "ok") =>
    /\ call[w].request.id \in DOMAIN annotations
    /\ annotations[call[w].request.id] = call[w].request.row

\* Both tables are append-only: a row, once stored, never changes.
Events == INSTANCE AppendOnly WITH
  Id <- EventId, Row <- Observation, rows <- events
Annotations == INSTANCE AppendOnly WITH
  Id <- AnnotationId, Row <- Annotation, rows <- annotations

EventsAppendOnly == Events!Spec
AnnotationsAppendOnly == Annotations!Spec
=============================================================================
