------------------------ MODULE EvidenceStoreProofs ------------------------
(***************************************************************************)
(* The evidence tables for any number of writers and identifiers.          *)
(***************************************************************************)
EXTENDS EvidenceStore, TLAPS

USE NoneAssumption

-----------------------------------------------------------------------------
\* What the shape of the tables and calls is.

\* A map with one more entry is a map with that entry added.
LEMMA PutType ==
  ASSUME NEW D, NEW R, NEW t \in Partial(D, R), NEW i \in D, NEW r \in R
  PROVE  /\ Put(t, i, r) \in Partial(D, R)
         /\ DOMAIN Put(t, i, r) = DOMAIN t \cup {i}
         /\ Put(t, i, r)[i] = r
         /\ \A k \in DOMAIN t : k # i => Put(t, i, r)[k] = t[k]
<1>1. PICK S \in SUBSET D : t \in [S -> R]
  BY DEF Partial
<1>2. Put(t, i, r) \in [S \cup {i} -> R]
  BY <1>1 DEF Put
<1> QED
  BY <1>1, <1>2 DEF Partial, Put

\* What a table with one more row maps.
LEMMA PartialType ==
  ASSUME NEW D, NEW R, NEW t \in Partial(D, R)
  PROVE  DOMAIN t \subseteq D /\ \A k \in DOMAIN t : t[k] \in R
BY DEF Partial

\* The empty tables are typed.
LEMMA TypeInit == Init => TypeOK
<1>1. \A D, R, z : [i \in {} |-> z] \in Partial(D, R)
  BY DEF Partial
<1> QED
  BY <1>1 DEF Init, TypeOK

\* A writer at a step or with an answer is executing a call.
LEMMA Calling ==
  ASSUME TypeOK, NEW w \in Writer, call[w].at # "none"
  PROVE  call[w] \in Call
BY DEF TypeOK, NoCall

\* A writer that moves leaves the calls typed.
LEMMA MovesType ==
  ASSUME TypeOK, NEW w \in Writer, call[w] \in Call, NEW l \in Step \cup Answer,
         Moves(w, l)
  PROVE  /\ call' \in [Writer -> Call \cup {NoCall}]
         /\ call'[w] \in Call /\ call'[w].at = l
         /\ call'[w].request = call[w].request
         /\ \A v \in Writer : v # w => call'[v] = call[v]
<1>1. [call[w] EXCEPT !.at = l] \in Call
  BY DEF Call
<1>2. /\ [call[w] EXCEPT !.at = l].at = l
      /\ [call[w] EXCEPT !.at = l].request = call[w].request
  BY DEF Call
<1>3. call' = [call EXCEPT ![w] = [call[w] EXCEPT !.at = l]]
  BY DEF Moves, TypeOK
<1> HIDE DEF Moves
<1> QED
  BY <1>1, <1>2, <1>3 DEF TypeOK

-----------------------------------------------------------------------------
(***************************************************************************)
(* The invariant.  Checked carries what a call has looked up to the        *)
(* statement that relies on it; it survives other writers because rows are *)
(* only ever added.                                                        *)
(***************************************************************************)
CheckedCall(w) ==
  /\ call[w].at \in {"predecessor", "insert"}
       => call[w].request.row.event \in DOMAIN events
  /\ call[w].at = "insert" /\ call[w].request.row.supersedes # None
       => Supersedable(call[w].request.row)

Checked == \A w \in Writer : CheckedCall(w)

Inv ==
  /\ TypeOK
  /\ Checked
  /\ TargetsExist
  /\ SupersessionKeepsSubject
  /\ SupersessionAcyclic
  /\ AcceptedIsStored

\* The strengthening holds of the empty tables.
LEMMA InvInit == Init => Inv
BY TypeInit DEF Init, Inv, Checked, CheckedCall, TargetsExist, SupersessionKeepsSubject,
                SupersessionAcyclic, AcceptedIsStored, NoCall

\* A step of one call that adds no row.
LEMMA CallStep ==
  ASSUME Inv, NEW w \in Writer, UNCHANGED <<events, annotations>>,
         call' \in [Writer -> Call \cup {NoCall}],
         \A v \in Writer : v # w => call'[v] = call[v],
         call'[w].at \in {"predecessor", "insert"}
           => call'[w].request.row.event \in DOMAIN events,
         call'[w].at = "insert" /\ call'[w].request.row.supersedes # None
           => Supersedable(call'[w].request.row),
         call'[w].at # "ok"
  PROVE  Inv'
BY DEF Inv, TypeOK, Checked, CheckedCall, TargetsExist, SupersessionKeepsSubject,
       SupersessionAcyclic, AcceptedIsStored, At, Supersedable

\* Appending an event disturbs no reference and no lookup.
LEMMA AppendEventStep ==
  ASSUME Inv, NEW e \in EventId, NEW o \in Observation, AppendEvent(e, o)
  PROVE  Inv'
<1>1. /\ events' \in Partial(EventId, Observation)
      /\ DOMAIN events' = DOMAIN events \cup {e}
  BY PutType DEF AppendEvent, Inv, TypeOK
<1> QED
  BY <1>1 DEF AppendEvent, Inv, TypeOK, Checked, CheckedCall,
              TargetsExist, SupersessionKeepsSubject, SupersessionAcyclic, AcceptedIsStored,
              At, Supersedable

\* A new call has looked nothing up.
LEMMA RequestStep ==
  ASSUME Inv, NEW w \in Writer, NEW request \in Request,
         AppendAnnotation(w, request)
  PROVE  Inv'
<1> DEFINE c == [at |-> "exists", request |-> request]
<1>1. c \in Call /\ c.at = "exists"
  BY DEF Call, Step
<1>2. call' = [call EXCEPT ![w] = c] /\ UNCHANGED <<events, annotations>>
  BY DEF AppendAnnotation
<1> HIDE DEF c
<1> QED
  BY <1>1, <1>2, CallStep DEF Inv, TypeOK

\* A call that ends leaves nothing to be checked.
LEMMA EndStep ==
  ASSUME Inv, NEW w \in Writer, EndCall(w)
  PROVE  Inv'
BY CallStep DEF EndCall, Inv, TypeOK, NoCall

\* A lookup that succeeds has found what Checked says it has.
LEMMA LookUpStep ==
  ASSUME Inv, NEW w \in Writer, LookUpEvent(w) \/ LookUpPredecessor(w)
  PROVE  Inv'
<1>1. call[w] \in Call
  BY Calling DEF Inv, LookUpEvent, LookUpPredecessor, At
<1>2. PICK l \in Step \cup Answer :
        /\ Moves(w, l)
        /\ l # "ok"
        /\ l \in {"predecessor", "insert"}
             => call[w].request.row.event \in DOMAIN events
        /\ l = "insert" /\ call[w].request.row.supersedes # None
             => Supersedable(call[w].request.row)
  <2>1. CASE LookUpEvent(w)
    BY <2>1 DEF LookUpEvent, Step, Answer
  <2>2. CASE LookUpPredecessor(w)
    BY <2>2 DEF LookUpPredecessor, Step, Answer, Inv, Checked, CheckedCall, At
  <2> QED
    BY <2>1, <2>2
<1>3. UNCHANGED <<events, annotations>>
  BY DEF LookUpEvent, LookUpPredecessor
<1>4. /\ call' \in [Writer -> Call \cup {NoCall}]
      /\ call'[w].at = l /\ call'[w].request = call[w].request
      /\ \A v \in Writer : v # w => call'[v] = call[v]
  BY <1>1, <1>2, MovesType DEF Inv
<1> QED
  BY <1>2, <1>3, <1>4, CallStep

\* The row a writer adds leaves the annotations well-founded: what it supersedes
\* was there before, and nothing there before supersedes it.
LEMMA InsertNew ==
  ASSUME Inv, NEW w \in Writer, call[w] \in Call, At(w, "insert"),
         call[w].request.id \notin DOMAIN annotations,
         annotations' = Put(annotations, call[w].request.id, call[w].request.row),
         Moves(w, "ok"), UNCHANGED events
  PROVE  Inv'
<1> DEFINE id == call[w].request.id
           row == call[w].request.row
<1> USE DEF Inv
<1>1. id \in AnnotationId /\ row \in Annotation
  BY DEF Call, Request
<1>2. /\ annotations' \in Partial(AnnotationId, Annotation)
      /\ DOMAIN annotations' = DOMAIN annotations \cup {id}
      /\ annotations'[id] = row
      /\ \A a \in DOMAIN annotations : annotations'[a] = annotations[a]
  BY <1>1, PutType DEF TypeOK
<1>3. /\ call' \in [Writer -> Call \cup {NoCall}]
      /\ call'[w].at = "ok" /\ call'[w].request = call[w].request
      /\ \A v \in Writer : v # w => call'[v] = call[v]
  BY MovesType DEF Answer
<1>4. row.event \in DOMAIN events
  BY DEF Checked, CheckedCall, At
<1>5. row.supersedes # None => Supersedable(row)
  BY DEF Checked, CheckedCall, At
<1>6. DOMAIN annotations \subseteq AnnotationId
  BY PartialType DEF TypeOK
<1>7. \A r : Supersedable(r) => Supersedable(r)'
  BY <1>2 DEF Supersedable
<1> HIDE DEF id, row
<1>8. TypeOK'
  BY <1>2, <1>3 DEF TypeOK
<1>9. Checked'
  <2> SUFFICES ASSUME NEW v \in Writer PROVE CheckedCall(v)'
    BY DEF Checked
  <2>1. CASE v = w
    BY <1>3, <2>1 DEF CheckedCall
  <2>2. CASE v # w
    BY <1>2, <1>3, <2>2 DEF Checked, CheckedCall, Supersedable
  <2> QED
    BY <2>1, <2>2
<1>10. TargetsExist'
  BY <1>2, <1>4 DEF TargetsExist
<1>11. SupersessionKeepsSubject'
  BY <1>2, <1>5, <1>7 DEF SupersessionKeepsSubject
<1>12. SupersessionAcyclic'
  <2> SUFFICES ASSUME NEW S \in SUBSET DOMAIN annotations', S # {}
               PROVE  \E a \in S : annotations'[a].supersedes \notin S
    BY DEF SupersessionAcyclic
  <2>1. CASE S \subseteq {id}
    BY <1>1, <1>2, <1>5, <2>1 DEF Supersedable, id
  <2>2. CASE ~(S \subseteq {id})
    <3>1. PICK a \in S \ {id} : annotations[a].supersedes \notin S \ {id}
      BY <1>2, <2>2 DEF SupersessionAcyclic
    <3>2. annotations[a].supersedes # id
      BY <1>1, <1>2, <3>1 DEF SupersessionKeepsSubject, Supersedable, id
    <3> QED
      BY <1>2, <3>1, <3>2
  <2> QED
    BY <2>1, <2>2
<1>13. AcceptedIsStored'
  <2> SUFFICES ASSUME NEW v \in Writer, call'[v] # NoCall, call'[v].at = "ok"
               PROVE  /\ call'[v].request.id \in DOMAIN annotations'
                      /\ annotations'[call'[v].request.id] = call'[v].request.row
    BY DEF AcceptedIsStored, At
  <2>1. CASE v = w
    BY <1>2, <1>3, <2>1 DEF id, row
  <2>2. CASE v # w
    BY <1>2, <1>3, <2>2 DEF AcceptedIsStored, At
  <2> QED
    BY <2>1, <2>2
<1> QED
  BY <1>8, <1>9, <1>10, <1>11, <1>12, <1>13

\* An insert stores what was checked.
LEMMA InsertStep ==
  ASSUME Inv, NEW w \in Writer, Insert(w)
  PROVE  Inv'
<1>1. call[w] \in Call
  BY Calling DEF Inv, Insert, At
<1>2. CASE call[w].request.id \in DOMAIN annotations
  <2>1. Moves(w, "duplicate") /\ UNCHANGED <<events, annotations>>
    BY <1>2 DEF Insert
  <2>2. /\ call' \in [Writer -> Call \cup {NoCall}]
        /\ call'[w].at = "duplicate"
        /\ \A v \in Writer : v # w => call'[v] = call[v]
    BY <1>1, <2>1, MovesType DEF Inv, Answer
  <2> QED
    BY <2>1, <2>2, CallStep
<1>3. CASE call[w].request.id \notin DOMAIN annotations
  BY <1>1, <1>3, InsertNew DEF Insert
<1> QED
  BY <1>2, <1>3

\* Every step keeps the strengthening.
LEMMA InvNext == Inv /\ [Next]_vars => Inv'
<1> SUFFICES ASSUME Inv, [Next]_vars PROVE Inv'
  OBVIOUS
<1>1. CASE UNCHANGED vars
  BY <1>1 DEF vars, Inv, TypeOK, Checked, CheckedCall, TargetsExist, SupersessionAcyclic,
              SupersessionKeepsSubject, AcceptedIsStored, At, Supersedable
<1> QED
  BY <1>1, AppendEventStep, RequestStep, LookUpStep, InsertStep, EndStep DEF Next

\* The strengthening holds throughout.
LEMMA InvAlways == Spec => []Inv
BY InvInit, InvNext, PTL DEF Spec

\* The tables hold rows of their kind, and every call is at one of its statements
\* or has one of its answers.
THEOREM StoreType == Spec => []TypeOK
<1>1. Inv => TypeOK
  BY DEF Inv
<1> QED
  BY InvAlways, <1>1, PTL

\* Every annotation targets stored evidence.
THEOREM NoDanglingTarget == Spec => []TargetsExist
<1>1. Inv => TargetsExist
  BY DEF Inv
<1> QED
  BY InvAlways, <1>1, PTL

\* Supersession stays within one field of one event.
THEOREM SubjectKept == Spec => []SupersessionKeepsSubject
<1>1. Inv => SupersessionKeepsSubject
  BY DEF Inv
<1> QED
  BY InvAlways, <1>1, PTL

\* Supersession is well-founded, so that following it from any annotation ends.
THEOREM NoCircle == Spec => []SupersessionAcyclic
<1>1. Inv => SupersessionAcyclic
  BY DEF Inv
<1> QED
  BY InvAlways, <1>1, PTL

\* What a writer was told is stored is what is stored.
THEOREM AnswersTrue == Spec => []AcceptedIsStored
<1>1. Inv => AcceptedIsStored
  BY DEF Inv
<1> QED
  BY InvAlways, <1>1, PTL

-----------------------------------------------------------------------------
\* The tables implement the abstract one.

\* The table of events is append-only.
THEOREM EventsRefine == Spec => EventsAppendOnly
<1>1. Init => Events!Init
  BY DEF Init, Events!Init
<1>2. [Next]_vars => [Events!Next]_events
  BY DEF Next, vars, AppendEvent, AppendAnnotation, LookUpEvent,
         LookUpPredecessor, Insert, EndCall, Put, Events!Next, Events!Append
<1> QED
  BY <1>1, <1>2, PTL DEF Spec, EventsAppendOnly, Events!Spec

\* The table of annotations is append-only.
THEOREM AnnotationsRefine == Spec => AnnotationsAppendOnly
<1>1. Init => Annotations!Init
  BY DEF Init, Annotations!Init
<1>2. Inv /\ [Next]_vars => [Annotations!Next]_annotations
  <2> SUFFICES ASSUME Inv, [Next]_vars, annotations' # annotations
               PROVE  Annotations!Next
    OBVIOUS
  <2>1. PICK w \in Writer : Insert(w)
    BY DEF Next, vars, AppendEvent, AppendAnnotation, LookUpEvent,
           LookUpPredecessor, EndCall
  <2>2. call[w] \in Call
    BY <2>1, Calling DEF Inv, Insert, At
  <2>3. call[w].request.id \in AnnotationId /\ call[w].request.row \in Annotation
    BY <2>2 DEF Call, Request
  <2> QED
    BY <2>1, <2>3 DEF Insert, Put, Annotations!Next, Annotations!Append
<1> QED
  BY <1>1, <1>2, InvAlways, PTL DEF Spec, AnnotationsAppendOnly, Annotations!Spec
=============================================================================
