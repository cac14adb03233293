------------------------- MODULE RecordFolderProofs -------------------------
(***************************************************************************)
(* The record folder for any number of processes, events and days.         *)
(***************************************************************************)
EXTENDS RecordFolder, WellFoundedInduction, TLAPS

USE FolderAssumption DEF Kind, Content, Stage, Place, Idle, Failed

-----------------------------------------------------------------------------
\* Type correctness.

\* Contents of files are typed.
LEMMA ContentType ==
  ASSUME NEW S \in SUBSET Event, NEW k \in Kind
  PROVE  Record(S) \in Content /\ Unwritten(k) \in Content
BY DEF Record, Unwritten

\* The body written for a day is a content.
LEMMA BodyType ==
  ASSUME TypeOK, NEW p \in Process, gen[p] \in Generation
  PROVE  Body(p) \in Content
<1>1. OnDay(Today(p), gen[p].snapshot) \in SUBSET Event
  BY DEF OnDay, Generation
<1> QED
  BY <1>1, ContentType DEF Body

\* Moving on to the next day keeps a generation typed.
LEMMA NextDayType ==
  ASSUME NEW p \in Process, NEW g \in Generation, g.days # {}
  PROVE  /\ NextDay(p, g) \in Generation \cup {Idle}
         /\ NextDay(p, g) \in Generation => NextDay(p, g).days # {}
BY DEF NextDay, Generation

\* The initial folder is typed.
LEMMA TypeInit == Init => TypeOK
<1> SUFFICES ASSUME Init PROVE TypeOK
  OBVIOUS
<1>1. \A k \in Prior \cup {"none"} : Unwritten(k) \in Content
  BY ContentType
<1> QED
  BY <1>1 DEF Init, FolderInit, TypeOK

\* At a stage of its own a process is generating.
LEMMA Generating ==
  ASSUME TypeOK, NEW p \in Process, gen[p].at \in Stage
  PROVE  gen[p] \in Generation /\ gen[p].days # {}
BY DEF TypeOK

\* A comparison ends the generation, finds the body there, or goes on to write.
LEMMA CompareOutcome ==
  ASSUME TypeOK, NEW p \in Process, Compare(p)
  PROVE  \/ gen' = [gen EXCEPT ![p] = Failed]
         \/ /\ gen' = [gen EXCEPT ![p] = NextDay(p, gen[p])]
            /\ file[Today(p)] = Body(p)
         \/ gen' = [gen EXCEPT ![p] = [gen[p] EXCEPT !.at = "open"]]
<1>1. PICK previous \in ReadOrAbsent(file[Today(p)]) :
        gen' = [gen EXCEPT ![p] =
          IF NotOurs(previous) THEN Failed
          ELSE IF previous = Body(p) THEN NextDay(p, gen[p])
          ELSE [gen[p] EXCEPT !.at = "open"]]
  BY DEF Compare, TypeOK
<1>2. previous = Body(p) => file[Today(p)] = Body(p)
  BY DEF ReadOrAbsent, Unwritten, Body, Record
<1> QED
  BY <1>1, <1>2

\* Every file operation keeps the types.
LEMMA TypeStep ==
  ASSUME TypeOK, NEW p \in Process, GenerateStep(p)
  PROVE  TypeOK'
<1>1. CASE Compare(p)
  <2>1. gen[p] \in Generation /\ gen[p].days # {}
    BY <1>1, Generating DEF Compare, At
  <2>2. /\ NextDay(p, gen[p]) \in Generation \cup {Idle}
        /\ NextDay(p, gen[p]) \in Generation => NextDay(p, gen[p]).days # {}
    BY <2>1, NextDayType
  <2>3. [gen[p] EXCEPT !.at = "open"] \in Generation
    BY <2>1 DEF Generation
  <2>4. UNCHANGED <<events, file, temporary>>
    BY <1>1 DEF Compare
  <2>5. \/ gen' = [gen EXCEPT ![p] = Failed]
        \/ gen' = [gen EXCEPT ![p] = NextDay(p, gen[p])]
        \/ gen' = [gen EXCEPT ![p] = [gen[p] EXCEPT !.at = "open"]]
    BY <1>1, CompareOutcome
  <2>6. [gen[p] EXCEPT !.at = "open"].days # {}
    BY <2>1 DEF Generation
  <2> QED
    BY <2>2, <2>3, <2>4, <2>5, <2>6 DEF TypeOK
<1>2. CASE OpenTemporary(p)
  <2>1. gen[p] \in Generation /\ gen[p].days # {}
    BY <1>2, Generating DEF OpenTemporary, At
  <2>2. [gen[p] EXCEPT !.at = "write", !.fd = "temporary"] \in Generation
    BY <2>1 DEF Generation
  <2>3. Unwritten("empty") \in Content
    BY ContentType
  <2>4. gen' = [gen EXCEPT ![p] = [gen[p] EXCEPT !.at = "write", !.fd = "temporary"]]
    BY <1>2 DEF OpenTemporary, TypeOK
  <2>5. temporary' \in [Day -> Content]
    BY <1>2, <2>3 DEF OpenTemporary, TypeOK
  <2>6. gen'[p].days # {}
    BY <2>1, <2>4 DEF TypeOK, Generation
  <2>7. gen' \in [Process -> Generation \cup {Idle, Failed}]
    BY <2>2, <2>4 DEF TypeOK
  <2>8. \A q \in Process : q # p => gen'[q] = gen[q]
    BY <2>4 DEF TypeOK
  <2> QED
    BY <1>2, <2>5, <2>6, <2>7, <2>8 DEF OpenTemporary, TypeOK
<1>3. CASE WriteTemporary(p)
  <2>1. gen[p] \in Generation /\ gen[p].days # {}
    BY <1>3, Generating DEF WriteTemporary, At
  <2>2. [gen[p] EXCEPT !.at = "rename"] \in Generation
    BY <2>1 DEF Generation
  <2>3. \A c \in Content : Overlay(c, Body(p)) \in Content
    BY <2>1, BodyType DEF Overlay
  <2>4. file' \in [Day -> Content] /\ temporary' \in [Day -> Content]
    BY <1>3, <2>3 DEF WriteTemporary, TypeOK
  <2> QED
    BY <1>3, <2>1, <2>2, <2>4 DEF WriteTemporary, Goto, TypeOK
<1>4. CASE RenameTemporary(p)
  <2>1. gen[p] \in Generation /\ gen[p].days # {}
    BY <1>4, Generating DEF RenameTemporary, At
  <2>2. CASE temporary[Today(p)].kind = "none"
    BY <1>4, <2>2 DEF RenameTemporary, TypeOK
  <2>3. CASE temporary[Today(p)].kind # "none"
    <3>1. file' \in [Day -> Content] /\ temporary' \in [Day -> Content]
      <4>1. Unwritten("none") \in Content
        BY ContentType
      <4>2. /\ file' = [file EXCEPT ![Today(p)] = temporary[Today(p)]]
            /\ temporary' = [temporary EXCEPT ![Today(p)] = Unwritten("none")]
        BY <1>4, <2>3 DEF RenameTemporary
      <4>3. CASE Today(p) \in Day
        BY <4>1, <4>2, <4>3 DEF TypeOK
      <4>4. CASE Today(p) \notin Day
        BY <4>2, <4>4 DEF TypeOK
      <4> QED
        BY <4>3, <4>4
    <3>2. \A q \in Process :
            /\ Renamed(q, Today(p)) \in Generation \cup {Idle, Failed}
            /\ Renamed(q, Today(p)) \notin {Idle, Failed}
                 => Renamed(q, Today(p)).days # {}
      <4> SUFFICES ASSUME NEW q \in Process
                   PROVE  /\ Renamed(q, Today(p)) \in Generation \cup {Idle, Failed}
                          /\ Renamed(q, Today(p)) \notin {Idle, Failed}
                               => Renamed(q, Today(p)).days # {}
        OBVIOUS
      <4>1. CASE At(q, "write") /\ Today(q) = Today(p)
        <5>1. gen[q] \in Generation /\ gen[q].days # {}
          BY <4>1, Generating DEF At
        <5> QED
          BY <4>1, <5>1 DEF Renamed, Generation
      <4>2. CASE ~(At(q, "write") /\ Today(q) = Today(p))
        BY <4>2 DEF Renamed, TypeOK
      <4> QED
        BY <4>1, <4>2
    <3>3. /\ NextDay(p, gen[p]) \in Generation \cup {Idle}
          /\ NextDay(p, gen[p]) \in Generation => NextDay(p, gen[p]).days # {}
      BY <2>1, NextDayType
    <3>4. gen' = [q \in Process |->
                    IF q = p THEN NextDay(p, gen[p]) ELSE Renamed(q, Today(p))]
      BY <1>4, <2>3 DEF RenameTemporary
    <3>5. gen' \in [Process -> Generation \cup {Idle, Failed}]
      BY <3>2, <3>3, <3>4
    <3>6. \A q \in Process : gen'[q] \notin {Idle, Failed} => gen'[q].days # {}
      BY <3>2, <3>3, <3>4
    <3> QED
      BY <1>4, <3>1, <3>5, <3>6 DEF RenameTemporary, TypeOK
  <2> QED
    BY <2>2, <2>3
<1> QED
  BY <1>1, <1>2, <1>3, <1>4 DEF GenerateStep

\* A generation begins typed.
LEMMA TypeGenerate ==
  ASSUME TypeOK, NEW p \in Process, NEW only, Generate(p, only)
  PROVE  TypeOK'
<1> DEFINE days == {DayOf[e] : e \in events} \cap only
           start == [at |-> "compare", days |-> days, snapshot |-> events,
                     fd |-> "temporary"]
<1>1. days \in SUBSET Day
  BY DEF TypeOK
<1>2. start \in Generation
  BY <1>1 DEF Generation, TypeOK
<1>3. gen' = [gen EXCEPT ![p] = IF days = {} THEN Idle ELSE start]
  BY DEF Generate
<1>4. start.days = days
  OBVIOUS
<1>5. UNCHANGED <<events, file, temporary>>
  BY DEF Generate
<1> HIDE DEF days, start
<1>6. CASE days = {}
  BY <1>3, <1>5, <1>6 DEF TypeOK
<1>7. CASE days # {}
  BY <1>2, <1>3, <1>4, <1>5, <1>7 DEF TypeOK
<1> QED
  BY <1>6, <1>7

\* Every step keeps the types.
LEMMA TypeNext == TypeOK /\ [Next]_vars => TypeOK'
<1> SUFFICES ASSUME TypeOK, [Next]_vars PROVE TypeOK'
  OBVIOUS
<1>1. ASSUME NEW e \in Event, Import(e) PROVE TypeOK'
  BY <1>1 DEF Import, folderVars, TypeOK
<1>2. ASSUME NEW p \in Process, FileError(p) \/ GiveUp(p) PROVE TypeOK'
  BY <1>2 DEF FileError, GiveUp, TypeOK
<1>3. CASE UNCHANGED vars
  BY <1>3 DEF vars, folderVars, TypeOK
<1> QED
  BY <1>1, <1>2, <1>3, TypeGenerate, TypeStep DEF Next

\* Every reachable state of a folder is well typed.
THEOREM FolderTypeCorrect == Spec => []TypeOK
BY TypeInit, TypeNext, PTL DEF Spec

-----------------------------------------------------------------------------
(* One process.  Two that share the temporary file of a day can leave an   *)
(* overlay in the record, or an older record than the other's; a folder    *)
(* that only one process writes to implements DailyRecords.                *)

\* What the days of a process are while it works on one of them.
LEMMA TodayKept ==
  ASSUME NEW p \in Process, gen'[p].days = gen[p].days
  PROVE  Today(p)' = Today(p)
BY DEF Today

\* The days of a generation have a first one.
LEMMA LeastNatural ==
  ASSUME NEW S, S \subseteq Nat, S # {}
  PROVE  \E d \in S : \A e \in S : d <= e
<1> DEFINE Less == {ss \in Nat \X Nat : ss[1] < ss[2]}
<1>1. IsWellFoundedOn(Less, Nat)
  BY NatLessThanWellFounded DEF OpToRel
<1>2. PICK x \in S : \A y \in S : <<y, x>> \notin Less
  <2> HIDE DEF Less
  <2> QED
    BY <1>1, WFMin
<1>3. \A y \in S : ~(y < x)
  BY <1>2
<1> QED
  BY <1>3

\* So a process that generates is at one of its days.
LEMMA TodayIsADay ==
  ASSUME TypeOK, NEW p \in Process, gen[p].at \in Stage
  PROVE  Today(p) \in gen[p].days /\ Today(p) \in Day
<1>1. gen[p].days \subseteq Day /\ gen[p].days # {}
  BY Generating DEF Generation
<1>2. \E d \in gen[p].days : \A e \in gen[p].days : d <= e
  BY <1>1, LeastNatural
<1> QED
  BY <1>1, <1>2 DEF Today

(***************************************************************************)
(* The state between two file operations: no record shows what is not      *)
(* stored, nor what the generation under way has not read; the temporary   *)
(* file of the day is empty before the write and the day's body after it.  *)
(***************************************************************************)
Alone ==
  /\ \A d \in Day :
       file[d].kind = "record" => /\ file[d].shows # {}
                                  /\ file[d].shows \subseteq OnDay(d, events)
  /\ \A p \in Process : gen[p].at \in Stage =>
       /\ gen[p].snapshot \subseteq events
       /\ \A d \in gen[p].days : OnDay(d, gen[p].snapshot) # {}
       /\ \A d \in Day :
            file[d].kind = "record" => file[d].shows \subseteq gen[p].snapshot
       /\ gen[p].at = "write" =>
            gen[p].fd = "temporary" /\ temporary[Today(p)] = Unwritten("empty")
       /\ gen[p].at = "rename" => temporary[Today(p)] = Body(p)

\* Initially no record is there and nothing is generated.
LEMMA AloneInit == Init => Alone
<1> SUFFICES ASSUME Init PROVE Alone
  OBVIOUS
<1>1. \A p \in Process : gen[p].at = "idle"
  BY DEF Init, FolderInit
<1>2. \A d \in Day : file[d].kind \in Prior
  BY DEF Init, FolderInit, Unwritten
<1>3. \A d \in Day : file[d].kind # "record"
  BY <1>2
<1> QED
  BY <1>1, <1>2, <1>3 DEF Alone

\* A generation that begins has read all there is.
LEMMA AloneGenerate ==
  ASSUME TypeOK, Alone, NEW p \in Process, NEW only, Generate(p, only)
  PROVE  Alone'
<1> DEFINE days == {DayOf[e] : e \in events} \cap only
           start == [at |-> "compare", days |-> days, snapshot |-> events,
                     fd |-> "temporary"]
<1>1. gen' = [gen EXCEPT ![p] = IF days = {} THEN Idle ELSE start]
  BY DEF Generate
<1>2. UNCHANGED <<events, file, temporary>>
  BY DEF Generate
<1>3. \A q \in Process \ {p} : gen'[q] = gen[q] /\ Today(q)' = Today(q)
                                 /\ Body(q)' = Body(q)
  BY <1>1 DEF TypeOK, Today, Body
<1>4. \A d \in days : OnDay(d, events) # {}
  BY DEF OnDay
<1>5. gen'[p] = Idle \/ gen'[p] = start
  BY <1>1 DEF TypeOK
<1>6. gen'[p].at \in Stage =>
        /\ gen'[p].at = "compare"
        /\ gen'[p].snapshot = events
        /\ \A d \in gen'[p].days : OnDay(d, events) # {}
  BY <1>4, <1>5
<1>7. \A d \in Day : file[d].kind = "record" => file[d].shows \subseteq events
  BY DEF Alone, OnDay
<1> HIDE DEF days, start
<1>8. ASSUME NEW q \in Process, gen'[q].at \in Stage
      PROVE  /\ gen'[q].snapshot \subseteq events'
             /\ \A d \in gen'[q].days : OnDay(d, gen'[q].snapshot) # {}
             /\ \A d \in Day :
                  file'[d].kind = "record" => file'[d].shows \subseteq gen'[q].snapshot
             /\ gen'[q].at = "write" =>
                  gen'[q].fd = "temporary" /\ temporary'[Today(q)'] = Unwritten("empty")
             /\ gen'[q].at = "rename" => temporary'[Today(q)'] = Body(q)'
  <2>1. CASE q = p
    BY <1>2, <1>6, <1>7, <1>8, <2>1
  <2>2. CASE q # p
    BY <1>2, <1>3, <1>8, <2>2 DEF Alone
  <2> QED
    BY <2>1, <2>2
<1> QED
  BY <1>2, <1>8 DEF Alone, OnDay

\* What the days of a process that moves on are.
LEMMA MovesOn ==
  ASSUME NEW p, NEW g \in Generation, NextDay(p, g).at \in Stage
  PROVE  /\ NextDay(p, g).at = "compare"
         /\ NextDay(p, g).snapshot = g.snapshot
         /\ NextDay(p, g).days \subseteq g.days
BY DEF NextDay, Generation

\* A file operation of the only process keeps Alone.  What it does to the
\* folder is nothing, or the replacement of what may be replaced.
LEMMA AloneStep ==
  ASSUME TypeOK, Alone, NEW p \in Process, Process = {p}, GenerateStep(p)
  PROVE  /\ Alone'
         /\ \/ UNCHANGED file
            \/ /\ gen[p].at = "rename"
               /\ Today(p) \in gen[p].days /\ Today(p) \in Day
               /\ file' = [file EXCEPT ![Today(p)] = Body(p)]
               /\ gen' = [q \in Process |-> NextDay(p, gen[p])]
<1>1. gen[p] \in Generation /\ gen[p].at \in Stage
  BY Generating
  DEF GenerateStep, Compare, OpenTemporary, WriteTemporary, RenameTemporary, At
<1>2. Today(p) \in gen[p].days /\ Today(p) \in Day
  BY <1>1, TodayIsADay
<1>3. UNCHANGED events
  BY DEF GenerateStep, Compare, OpenTemporary, WriteTemporary, RenameTemporary
<1> DEFINE Rest == /\ gen'[p].snapshot = gen[p].snapshot
                   /\ gen'[p].days \subseteq gen[p].days
<1>4. CASE Compare(p)
  <2>1. UNCHANGED <<file, temporary>>
    BY <1>4 DEF Compare
  <2>2. \/ gen'[p] = Failed
        \/ gen'[p] = NextDay(p, gen[p])
        \/ gen'[p] = [gen[p] EXCEPT !.at = "open"]
    BY <1>4, CompareOutcome DEF TypeOK
  <2>3. gen'[p].at \in Stage => Rest /\ gen'[p].at \in {"compare", "open"}
    BY <1>1, <2>2, MovesOn DEF Generation
  <2> QED
    BY <1>1, <1>3, <2>1, <2>3 DEF Alone, OnDay
<1>5. CASE OpenTemporary(p)
  <2>1. gen' = [gen EXCEPT ![p] = [gen[p] EXCEPT !.at = "write", !.fd = "temporary"]]
    BY <1>5 DEF OpenTemporary, TypeOK
  <2>2. gen'[p] = [gen[p] EXCEPT !.at = "write", !.fd = "temporary"]
    BY <2>1 DEF TypeOK
  <2>3. Rest /\ gen'[p].at = "write" /\ gen'[p].fd = "temporary" /\ Today(p)' = Today(p)
    BY <1>1, <2>2, TodayKept DEF Generation
  <2>4. temporary'[Today(p)] = Unwritten("empty") /\ UNCHANGED file
    BY <1>2, <1>5 DEF OpenTemporary, TypeOK
  <2> QED
    BY <1>1, <1>3, <2>3, <2>4 DEF Alone, OnDay
<1>6. CASE WriteTemporary(p)
  <2>1. gen'[p] = [gen[p] EXCEPT !.at = "rename"]
    BY <1>6 DEF WriteTemporary, Goto, TypeOK
  <2>2. Rest /\ gen'[p].at = "rename" /\ Today(p)' = Today(p)
    BY <1>1, <2>1, TodayKept DEF Generation
  <2>3. gen[p].fd = "temporary" /\ temporary[Today(p)] = Unwritten("empty")
    BY <1>1, <1>6 DEF WriteTemporary, At, Alone
  <2>4. temporary' = [temporary EXCEPT ![Today(p)] = Overlay(@, Body(p))]
        /\ UNCHANGED file
    BY <1>6, <2>3 DEF WriteTemporary
  <2>5. Overlay(Unwritten("empty"), Body(p)) = Body(p)
    BY DEF Overlay, Unwritten
  <2>6. temporary'[Today(p)] = Body(p)
    BY <1>2, <2>3, <2>4, <2>5 DEF TypeOK
  <2>7. Body(p)' = Body(p)
    BY <2>2 DEF Body, OnDay
  <2> QED
    BY <1>1, <1>3, <2>2, <2>4, <2>6, <2>7 DEF Alone, OnDay
<1>7. CASE RenameTemporary(p)
  <2>1. temporary[Today(p)] = Body(p)
    BY <1>1, <1>7 DEF RenameTemporary, At, Alone
  <2>2. Body(p) = [kind |-> "record", shows |-> OnDay(Today(p), gen[p].snapshot)]
    BY DEF Body, Record
  <2>3. /\ file' = [file EXCEPT ![Today(p)] = Body(p)]
        /\ gen' = [q \in Process |->
                     IF q = p THEN NextDay(p, gen[p]) ELSE Renamed(q, Today(p))]
    BY <1>7, <2>1, <2>2 DEF RenameTemporary
  <2>4. gen' = [q \in Process |-> NextDay(p, gen[p])]
    BY <2>3
  <2>5. gen'[p].at \in Stage => Rest /\ gen'[p].at = "compare"
    BY <1>1, <2>4, MovesOn
  <2>6. \A d \in Day : file'[d] = IF d = Today(p) THEN Body(p) ELSE file[d]
    BY <1>2, <2>3 DEF TypeOK
  <2>7. OnDay(Today(p), gen[p].snapshot) # {} /\ gen[p].snapshot \subseteq events
    BY <1>1, <1>2 DEF Alone
  <2>8. OnDay(Today(p), gen[p].snapshot) \subseteq OnDay(Today(p), events)
        /\ OnDay(Today(p), gen[p].snapshot) \subseteq gen[p].snapshot
    BY <2>7 DEF OnDay
  <2>9. \A d \in Day :
          file'[d].kind = "record" => /\ file'[d].shows # {}
                                      /\ file'[d].shows \subseteq OnDay(d, events)
                                      /\ file'[d].shows \subseteq gen[p].snapshot
    BY <1>1, <2>2, <2>6, <2>7, <2>8 DEF Alone
  <2>10. gen[p].at = "rename"
    BY <1>7 DEF RenameTemporary, At
  <2>11. \A d \in Day : OnDay(d, events)' = OnDay(d, events)
    BY <1>3 DEF OnDay
  <2>12. gen'[p].at \in Stage =>
           /\ gen'[p].snapshot \subseteq events'
           /\ \A d \in gen'[p].days : OnDay(d, gen'[p].snapshot) # {}
    BY <1>1, <1>3, <2>5 DEF Alone
  <2> HIDE DEF Rest
  <2>13. Alone'
    BY <2>5, <2>9, <2>11, <2>12, <1>3 DEF Alone, Rest
  <2> QED
    BY <1>2, <2>3, <2>4, <2>10, <2>13
<1> QED
  BY <1>4, <1>5, <1>6, <1>7 DEF GenerateStep

\* The record of its day shows an event.
Written(e) == file[DayOf[e]].kind = "record" /\ e \in file[DayOf[e]].shows

\* A generation has read an event and has its day before it.
Underway(p, e) ==
  gen[p].at \in Stage /\ DayOf[e] \in gen[p].days /\ e \in gen[p].snapshot

\* An event that is shown, or whose day a generation has before it, is so
\* after every file operation, unless the generation has failed.
LEMMA WrittenStep ==
  ASSUME TypeOK, Alone, NEW p \in Process, Process = {p}, GenerateStep(p),
         NEW e \in Event, Written(e) \/ Underway(p, e)
  PROVE  gen'[p] = Failed \/ Written(e)' \/ Underway(p, e)'
<1>1. gen[p] \in Generation /\ gen[p].at \in Stage
  BY Generating
  DEF GenerateStep, Compare, OpenTemporary, WriteTemporary, RenameTemporary, At
<1>2. Today(p) \in gen[p].days /\ Today(p) \in Day
  BY <1>1, TodayIsADay
<1>3. DayOf[e] = Today(p) /\ e \in gen[p].snapshot
        => e \in Body(p).shows /\ Body(p).kind = "record"
  BY DEF Body, Record, OnDay
<1>4. CASE file' = file
  <2>1. Written(e) => Written(e)'
    BY <1>4 DEF Written
  <2>2. \/ gen'[p] = Failed
        \/ gen'[p] = NextDay(p, gen[p]) /\ file[Today(p)] = Body(p)
        \/ gen'[p].at \in Stage /\ gen'[p].days = gen[p].days
             /\ gen'[p].snapshot = gen[p].snapshot
    <3>1. CASE Compare(p)
      <4>1. \/ gen'[p] = Failed
            \/ gen'[p] = NextDay(p, gen[p]) /\ file[Today(p)] = Body(p)
            \/ gen'[p] = [gen[p] EXCEPT !.at = "open"]
        BY <3>1, CompareOutcome DEF TypeOK
      <4> QED
        BY <1>1, <4>1 DEF Generation
    <3>2. CASE OpenTemporary(p) \/ WriteTemporary(p)
      BY <1>1, <3>2 DEF OpenTemporary, WriteTemporary, Goto, TypeOK, Generation
    <3>3. CASE RenameTemporary(p)
      <4>1. temporary[Today(p)] = Body(p) /\ Body(p).kind = "record"
        BY <1>1, <3>3 DEF RenameTemporary, At, Alone, Body, Record
      <4>2. /\ file' = [file EXCEPT ![Today(p)] = Body(p)]
            /\ gen'[p] = NextDay(p, gen[p])
        BY <3>3, <4>1 DEF RenameTemporary
      <4> QED
        BY <1>2, <1>4, <4>2 DEF TypeOK
    <3> QED
      BY <3>1, <3>2, <3>3 DEF GenerateStep
  <2>3. CASE gen'[p] = NextDay(p, gen[p]) /\ file[Today(p)] = Body(p)
    <3>1. CASE DayOf[e] = Today(p)
      BY <1>3, <1>4, <2>1, <2>3, <3>1 DEF Written, Underway
    <3>2. CASE DayOf[e] # Today(p)
      BY <1>1, <2>1, <2>3, <3>2 DEF Underway, NextDay, Generation
    <3> QED
      BY <3>1, <3>2
  <2> QED
    BY <2>1, <2>2, <2>3 DEF Underway
<1>5. CASE file' # file
  <2>1. /\ file' = [file EXCEPT ![Today(p)] = Body(p)]
        /\ gen' = [q \in Process |-> NextDay(p, gen[p])]
    BY <1>5, AloneStep
  <2>2. CASE DayOf[e] = Today(p)
    <3>1. e \in gen[p].snapshot
      <4>1. file[Today(p)].kind = "record"
              => file[Today(p)].shows \subseteq gen[p].snapshot
        BY <1>1, <1>2 DEF Alone
      <4> QED
        BY <2>2, <4>1 DEF Written, Underway
    <3> QED
      BY <1>2, <1>3, <2>1, <2>2, <3>1 DEF Written, TypeOK
  <2>3. CASE DayOf[e] # Today(p)
    <3>1. Written(e) => Written(e)'
      BY <2>1, <2>3 DEF Written, TypeOK
    <3>2. Underway(p, e) => Underway(p, e)'
      BY <1>1, <2>1, <2>3 DEF Underway, NextDay, Generation
    <3> QED
      BY <3>1, <3>2
  <2> QED
    BY <2>2, <2>3
<1> QED
  BY <1>4, <1>5

\* Evidence that arrives, a generation that fails and one that is given up
\* keep Alone.
LEMMA AloneRests ==
  ASSUME TypeOK, Alone, UNCHANGED <<file, temporary>>, events \subseteq events',
         \/ UNCHANGED gen
         \/ \E p \in Process : gen' = [gen EXCEPT ![p] = Failed]
         \/ \E p \in Process : gen' = [gen EXCEPT ![p] = Idle]
  PROVE  Alone'
<1>1. ASSUME NEW p \in Process, gen'[p].at \in Stage
      PROVE  gen'[p] = gen[p] /\ Today(p)' = Today(p) /\ Body(p)' = Body(p)
  <2>1. gen'[p] = gen[p]
    BY <1>1 DEF TypeOK
  <2> QED
    BY <2>1, TodayKept DEF Body
<1>2. \A d \in Day : OnDay(d, events) \subseteq OnDay(d, events)'
  BY DEF OnDay
<1>3. \A d \in Day :
        file'[d].kind = "record" => /\ file'[d].shows # {}
                                    /\ file'[d].shows \subseteq OnDay(d, events)'
  BY <1>2 DEF Alone
<1>4. ASSUME NEW p \in Process, gen'[p].at \in Stage
      PROVE  /\ gen'[p].snapshot \subseteq events'
             /\ \A d \in gen'[p].days : OnDay(d, gen'[p].snapshot) # {}
             /\ \A d \in Day :
                  file'[d].kind = "record" => file'[d].shows \subseteq gen'[p].snapshot
             /\ gen'[p].at = "write" =>
                  gen'[p].fd = "temporary" /\ temporary'[Today(p)'] = Unwritten("empty")
             /\ gen'[p].at = "rename" => temporary'[Today(p)'] = Body(p)'
  BY <1>1, <1>4 DEF Alone
<1> QED
  BY <1>3, <1>4 DEF Alone, OnDay

\* Every step of a folder with one process keeps Alone.
LEMMA AloneNext ==
  ASSUME TypeOK, Alone, NEW p \in Process, Process = {p}, [Next]_vars
  PROVE  Alone'
<1>1. ASSUME NEW e \in Event, Import(e) PROVE Alone'
  BY <1>1, AloneRests DEF Import, folderVars
<1>2. ASSUME FileError(p) \/ GiveUp(p) PROVE Alone'
  BY <1>2, AloneRests DEF FileError, GiveUp
<1>3. CASE UNCHANGED vars
  BY <1>3, AloneRests DEF vars, folderVars
<1> QED
  BY <1>1, <1>2, <1>3, AloneGenerate, AloneStep DEF Next

\* Every step of it is a step of DailyRecords or leaves the files alone.
LEMMA RecordsNext ==
  ASSUME TypeOK, Alone, NEW p \in Process, Process = {p}, [Next]_vars
  PROVE  [Records!Next]_<<events, file>>
<1>1. ASSUME NEW e \in Event, Import(e) PROVE Records!Next
  BY <1>1 DEF Import, folderVars, Records!Next, Records!Import
<1>2. ASSUME NEW only, Generate(p, only) PROVE UNCHANGED <<events, file>>
  BY <1>2 DEF Generate
<1>3. ASSUME FileError(p) \/ GiveUp(p) PROVE UNCHANGED <<events, file>>
  BY <1>3 DEF FileError, GiveUp
<1>4. CASE UNCHANGED vars
  BY <1>4 DEF vars, folderVars
<1>5. ASSUME GenerateStep(p), file' # file PROVE Records!Next
  <2> DEFINE d == Today(p)
             shown == OnDay(d, gen[p].snapshot)
  <2>1. /\ gen[p].at = "rename" /\ d \in gen[p].days /\ d \in Day
        /\ file' = [file EXCEPT ![d] = Body(p)]
    BY <1>5, AloneStep
  <2>2. Body(p) = Records!Record(shown)
    BY DEF Body, Record, Records!Record
  <2>3. /\ gen[p].snapshot \subseteq events /\ shown # {}
        /\ file[d].kind = "record" => file[d].shows \subseteq gen[p].snapshot
    BY <2>1 DEF Alone
  <2>4. shown \in SUBSET Records!OnDay(d, events)
    BY <2>3 DEF OnDay, Records!OnDay
  <2>5. file[d].kind = "record" => file[d].shows \subseteq shown
    <3> SUFFICES ASSUME file[d].kind = "record" PROVE file[d].shows \subseteq shown
      OBVIOUS
    <3>1. file[d].shows \subseteq OnDay(d, events)
      BY <2>1 DEF Alone
    <3> QED
      BY <2>3, <3>1 DEF OnDay
  <2>6. UNCHANGED events
    BY <1>5 DEF GenerateStep, Compare, OpenTemporary, WriteTemporary, RenameTemporary
  <2>7. Records!Replace(d, shown)
    <3> HIDE DEF shown, d
    <3> QED
      BY <2>1, <2>2, <2>3, <2>5, <2>6 DEF Records!Replace
  <2> HIDE DEF shown, d
  <2> QED
    BY <2>1, <2>4, <2>7 DEF Records!Next
<1>6. GenerateStep(p) => UNCHANGED events
  BY DEF GenerateStep, Compare, OpenTemporary, WriteTemporary, RenameTemporary
<1> QED
  BY <1>1, <1>2, <1>3, <1>4, <1>5, <1>6 DEF Next

\* A folder that one process writes to changes only by whole records of a day,
\* each in the place of what was there before the first or of a record that
\* showed no more, whatever reads and writes fail and wherever the process dies.
THEOREM RecordsImplemented ==
  ASSUME NEW p \in Process, Process = {p}
  PROVE  Spec => RecordsReplacedWhole
<1>1. Init => Records!Init
  BY DEF Init, FolderInit, Records!Init, Unwritten, Records!Unwritten
<1>2. TypeOK /\ Alone /\ [Next]_vars => Alone'
  BY AloneNext
<1>3. TypeOK /\ Alone /\ [Next]_vars => [Records!Next]_<<events, file>>
  BY RecordsNext
<1> QED
  BY AloneInit, <1>1, <1>2, <1>3, FolderTypeCorrect, PTL
  DEF Spec, RecordsReplacedWhole, Records!Spec
=============================================================================
