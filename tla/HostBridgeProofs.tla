-------------------------- MODULE HostBridgeProofs --------------------------
(***************************************************************************)
(* The database a host opens, for any number of programs that open it at   *)
(* the same time and die at any point, and any number of callers, hosts    *)
(* and calls.                                                              *)
(***************************************************************************)
EXTENDS HostBridge, SequenceTheorems, TLAPS

Opening == {"check", "script", "commit"}

\* What keeps SchemaWhole true.  A process got past a version because it found
\* it recorded or recorded it; between its script and its commit it alone holds
\* the write lock, and the version it is about to record is missing.
DatabaseInv ==
  /\ Database!TypeOK
  /\ \A v \in installed : \A w \in Database!Version : w <= v => w \in installed
  /\ \A v \in Database!Version : v \in installed <=> table[v] # "absent"
  /\ \A p \in Process :
       /\ opener[p].at \in Opening =>
            \A w \in Database!Version : w < opener[p].version => w \in installed
       /\ opener[p].at = "commit" => lock = {p} /\ opener[p].version \notin installed
       /\ opener[p].at = "open" => installed = Database!Version

\* The host answers only once it has opened the database.
HostInv ==
  host.at \in {"serving", "handling", "answering"} => opener[Host].at = "open"

\* One process of the database moves, or none does.
DatabaseStep(p) ==
  \/ Database!BeginOpen(p)
  \/ Database!OpenStep(p)
  \/ Database!Use(p)
  \/ Database!End(p)

-----------------------------------------------------------------------------

\* What the provers need of the four versions.
LEMMA Versions ==
  /\ Database!Version = {1, 2, 3, 4}
  /\ Database!Last = 4 /\ Database!Copied = 4 /\ Database!CopiedFrom = 3
  BY DEF Database!Version, Database!Last, Database!Copied, Database!CopiedFrom

\* A set of versions without a gap is the first few.
LEMMA FirstVersions ==
  ASSUME NEW S \in SUBSET Database!Version,
         \A v \in S : \A w \in Database!Version : w <= v => w \in S
  PROVE  \E k \in 0..Database!Last : S = 1..k
<1> DEFINE V == {1, 2, 3, 4}
<1>1. S \subseteq V /\ \A v \in S : \A w \in V : w <= v => w \in S
  BY Versions
<1>2. 1..4 = V /\ 1..3 = {1, 2, 3} /\ 1..2 = {1, 2} /\ 1..1 = {1} /\ 1..0 = {}
  OBVIOUS
<1>3. S \in {{}, {1}, {1, 2}, {1, 2, 3}, V}
  <2>1. CASE 4 \in S
    <3>1. 1 \in S /\ 2 \in S /\ 3 \in S
      BY <1>1, <2>1
    <3> QED
      BY <1>1, <2>1, <3>1
  <2>2. CASE 4 \notin S /\ 3 \in S
    <3>1. 1 \in S /\ 2 \in S
      BY <1>1, <2>2
    <3> QED
      BY <1>1, <2>2, <3>1
  <2>3. CASE 4 \notin S /\ 3 \notin S /\ 2 \in S
    <3>1. 1 \in S
      BY <1>1, <2>3
    <3> QED
      BY <1>1, <2>3, <3>1
  <2>4. CASE 4 \notin S /\ 3 \notin S /\ 2 \notin S
    BY <1>1, <2>4
  <2> QED
    BY <2>1, <2>2, <2>3, <2>4
<1>4. S \in {1..0, 1..1, 1..2, 1..3, 1..4}
  BY <1>2, <1>3
<1>5. \A k \in {0, 1, 2, 3, 4} : k \in 0..Database!Last
  BY Versions
<1> QED
  BY ONLY <1>4, <1>5, Zenon

\* A new file, or the database of an earlier release, satisfies the invariant.
LEMMA InitDatabase ==
  ASSUME Database!Init
  PROVE  DatabaseInv
<1>1. PICK k \in 0..Database!Last :
        installed = 1..k /\ \A v \in Database!Version : table[v] = "absent" <=> v > k
  BY DEF Database!Init
<1>2. k \in {0, 1, 2, 3, 4}
  BY Versions
<1>3. Database!TypeOK
  <2>1. installed \subseteq Database!Version
    BY <1>1, <1>2, Versions
  <2>2. [at |-> "closed", version |-> 1]
          \in [at : Database!Stage, version : Database!Version]
    BY Versions DEF Database!Stage
  <2> QED
    BY <2>1, <2>2 DEF Database!Init, Database!TypeOK
<1>4. \A v \in Database!Version : v \in installed <=> v <= k
  BY <1>1, <1>2, Versions
<1> QED
  BY <1>1, <1>2, <1>3, <1>4, Versions
  DEF DatabaseInv, Database!Init, Opening

\* The next version is looked for once this one is recorded, and the database
\* is open once the last is.
LEMMA AdvanceKeepsInv ==
  ASSUME DatabaseInv, NEW q \in Process, Database!Advance(q),
         UNCHANGED <<installed, table, lock>>, opener[q].at = "check",
         \A w \in Database!Version : w <= opener[q].version => w \in installed
  PROVE  DatabaseInv'
<1> DEFINE v == opener[q].version
           Record == [at : Database!Stage, version : Database!Version]
<1> USE DEF DatabaseInv
<1>1. Database!TypeOK
  OBVIOUS
<1>2. v \in {1, 2, 3, 4}
  BY Versions DEF Database!TypeOK
<1>3. CASE v = 4
  <2>1. opener' = [opener EXCEPT ![q] = [at |-> "open", version |-> 1]]
    BY <1>3, Versions DEF Database!Advance, Database!Resets
  <2>2. [at |-> "open", version |-> 1] \in Record
    BY Versions DEF Database!Stage
  <2>3. Database!TypeOK'
    BY <1>1, <2>1, <2>2 DEF Database!TypeOK
  <2>4. installed = Database!Version
    BY <1>1, <1>3, Versions DEF Database!TypeOK
  <2> QED
    BY <1>1, <2>1, <2>3, <2>4, Versions DEF Opening, Database!TypeOK
<1>4. CASE v # 4
  <2>1. opener' = [opener EXCEPT ![q] = [at |-> "check", version |-> v + 1]]
    BY <1>4, Versions DEF Database!Advance
  <2>2. [at |-> "check", version |-> v + 1] \in Record
    BY <1>2, <1>4, Versions DEF Database!Stage
  <2>3. Database!TypeOK'
    BY <1>1, <2>1, <2>2 DEF Database!TypeOK
  <2>4. \A w \in Database!Version : w < v + 1 => w \in installed
    BY <1>2, Versions
  <2> QED
    BY <1>1, <2>1, <2>3, <2>4, Versions DEF Opening, Database!TypeOK
<1> QED
  BY <1>3, <1>4

\* A version is recorded together with its tables, the versions before it are
\* there, and no other process is between its script and its commit.
LEMMA CommitKeepsInv ==
  ASSUME DatabaseInv, NEW q \in Process, Database!Commit(q)
  PROVE  DatabaseInv'
<1> DEFINE v == opener[q].version
           Record == [at : Database!Stage, version : Database!Version]
<1> USE DEF DatabaseInv
<1>1. Database!TypeOK
  OBVIOUS
<1>2. /\ opener[q].at = "commit" /\ lock = {q} /\ lock' = {}
      /\ installed' = installed \cup {v} /\ v \notin installed
      /\ \A w \in Database!Version : w < v => w \in installed
      /\ Database!Advance(q)
  BY DEF Database!Commit, Database!At, Opening
<1>3. v \in {1, 2, 3, 4}
  BY <1>1, Versions DEF Database!TypeOK
<1>4. /\ table' \in [Database!Version -> Database!Content]
      /\ \A w \in Database!Version : w \in installed' <=> table'[w] # "absent"
  <2>1. table' = [table EXCEPT ![v] = IF v = 4 THEN table[3] ELSE "new"]
    BY Versions DEF Database!Commit
  <2>2. 3 \in Database!Version /\ table[3] \in Database!Content
        /\ (v = 4 => table[3] # "absent")
    BY <1>1, <1>2, Versions DEF Database!TypeOK
  <2> DEFINE c == IF v = 4 THEN table[3] ELSE "new"
  <2>3. c \in Database!Content /\ c # "absent"
    BY <2>2 DEF Database!Content
  <2>4. table' = [table EXCEPT ![v] = c]
    BY <2>1
  <2> HIDE DEF c
  <2> QED
    BY <1>1, <1>2, <1>3, <2>3, <2>4, Versions DEF Database!TypeOK
<1>5. \A w \in installed' : \A u \in Database!Version : u <= w => u \in installed'
  BY <1>1, <1>2, <1>3, Versions DEF Database!TypeOK
<1>6. installed' \subseteq Database!Version /\ lock' \in SUBSET Process
  BY <1>1, <1>2, <1>3, Versions DEF Database!TypeOK
<1>7. \A p \in Process : opener[p].at = "commit" => p = q
  BY <1>2
<1>8. \A p \in Process : opener[p].at = "open" => FALSE
  BY <1>2, <1>3, Versions
<1>9. CASE v = 4
  <2>1. opener' = [opener EXCEPT ![q] = [at |-> "open", version |-> 1]]
    BY <1>2, <1>9, Versions DEF Database!Advance, Database!Resets
  <2>2. [at |-> "open", version |-> 1] \in Record
    BY Versions DEF Database!Stage
  <2>3. Database!TypeOK'
    BY <1>1, <1>4, <1>6, <2>1, <2>2 DEF Database!TypeOK
  <2>4. installed' = Database!Version
    <3>1. 1 \in installed /\ 2 \in installed /\ 3 \in installed
      BY <1>2, <1>9, Versions
    <3>2. installed \subseteq {1, 2, 3, 4} /\ installed' = installed \cup {4}
      BY <1>1, <1>2, <1>9, Versions DEF Database!TypeOK
    <3> QED
      BY ONLY <3>1, <3>2, Versions
  <2> QED
    BY <1>1, <1>2, <1>4, <1>5, <1>7, <1>8, <2>1, <2>3, <2>4, Versions
    DEF Opening, Database!TypeOK
<1>10. CASE v # 4
  <2>1. opener' = [opener EXCEPT ![q] = [at |-> "check", version |-> v + 1]]
    BY <1>2, <1>10, Versions DEF Database!Advance
  <2>2. [at |-> "check", version |-> v + 1] \in Record
    BY <1>3, <1>10, Versions DEF Database!Stage
  <2>3. Database!TypeOK'
    BY <1>1, <1>4, <1>6, <2>1, <2>2 DEF Database!TypeOK
  <2>4. \A w \in Database!Version : w < v + 1 => w \in installed'
    BY <1>2, <1>3, Versions
  <2> QED
    BY <1>1, <1>2, <1>4, <1>5, <1>7, <1>8, <2>1, <2>3, <2>4, Versions
    DEF Opening, Database!TypeOK
<1> QED
  BY <1>9, <1>10

\* What a process of the database moves keeps it whole: one case per kind of move.
LEMMA DatabaseStepKeepsInv ==
  ASSUME DatabaseInv, NEW q \in Process, DatabaseStep(q)
  PROVE  DatabaseInv'
<1> DEFINE v == opener[q].version
           Record == [at : Database!Stage, version : Database!Version]
<1> USE DEF DatabaseInv, Database!At
<1>1. Database!TypeOK
  OBVIOUS
<1>2. v \in Database!Version /\ opener[q].at \in Database!Stage
  BY DEF Database!TypeOK
<1>3. ASSUME NEW stage \in Database!Stage
      PROVE  /\ [at |-> stage, version |-> 1] \in Record
             /\ [opener[q] EXCEPT !.at = stage] \in Record
             /\ Database!Moves(q, stage) =>
                  opener' = [opener EXCEPT ![q] = [opener[q] EXCEPT !.at = stage]]
  BY <1>1, <1>2, Versions DEF Database!TypeOK, Database!Moves
<1>4. CASE Database!BeginOpen(q)
  <2>1. opener' = [opener EXCEPT ![q] = [at |-> "check", version |-> 1]]
        /\ UNCHANGED <<installed, table, lock>>
    BY <1>4 DEF Database!BeginOpen, Database!Resets
  <2>2. "check" \in Database!Stage
    BY DEF Database!Stage
  <2>3. Database!TypeOK'
    BY <1>1, <1>3, <2>1, <2>2 DEF Database!TypeOK
  <2> QED
    BY <1>1, <2>1, <2>3, Versions DEF Opening, Database!TypeOK
<1>5. CASE Database!CheckInstalled(q) /\ v \notin installed
  <2>1. opener' = [opener EXCEPT ![q] = [opener[q] EXCEPT !.at = "script"]]
        /\ UNCHANGED <<installed, table, lock>> /\ opener[q].at = "check"
    BY <1>3, <1>5 DEF Database!CheckInstalled, Database!Stage
  <2>2. Database!TypeOK'
    BY <1>1, <1>3, <2>1 DEF Database!TypeOK, Database!Stage
  <2> QED
    BY <1>1, <2>1, <2>2, Versions DEF Opening, Database!TypeOK
<1>6. CASE Database!CheckInstalled(q) /\ v \in installed
  <2>1. Database!Advance(q) /\ UNCHANGED <<installed, table, lock>>
        /\ opener[q].at = "check"
    BY <1>6 DEF Database!CheckInstalled
  <2>2. \A w \in Database!Version : w <= v => w \in installed
    BY <1>6
  <2> QED
    BY <1>1, <1>2, <2>1, <2>2, AdvanceKeepsInv
<1>7. CASE Database!RunScript(q) /\ table[v] = "absent"
  <2>1. opener' = [opener EXCEPT ![q] = [opener[q] EXCEPT !.at = "commit"]]
        /\ lock = {} /\ lock' = {q} /\ UNCHANGED <<installed, table>>
        /\ opener[q].at = "script"
    BY <1>3, <1>7 DEF Database!RunScript, Database!Stage
  <2>2. Database!TypeOK'
    BY <1>1, <1>3, <2>1 DEF Database!TypeOK, Database!Stage
  <2> QED
    BY <1>1, <1>2, <1>7, <2>1, <2>2, Versions DEF Opening, Database!TypeOK
<1>8. ASSUME NEW stage \in {"failed", "closed"}, Database!Resets(q, stage),
             UNCHANGED <<installed, table>>, lock' = lock \/ lock' = lock \ {q}
      PROVE  DatabaseInv'
  <2>1. opener' = [opener EXCEPT ![q] = [at |-> stage, version |-> 1]]
    BY <1>8 DEF Database!Resets
  <2>2. stage \in Database!Stage /\ stage # "open" /\ stage # "commit"
        /\ stage \notin Opening
    BY <1>8 DEF Database!Stage, Opening
  <2>3. Database!TypeOK'
    BY <1>1, <1>3, <1>8, <2>1, <2>2 DEF Database!TypeOK
  <2> QED
    BY <1>1, <1>8, <2>1, <2>2, <2>3, Versions DEF Database!TypeOK
<1>9. CASE Database!Commit(q)
  BY <1>9, CommitKeepsInv
<1>10. CASE Database!Use(q)
  <2>1. opener[q].at = "open" /\ table' = [w \in Database!Version |-> "used"]
        /\ UNCHANGED <<installed, lock, opener>>
    BY <1>10 DEF Database!Use
  <2>2. Database!TypeOK'
    BY <1>1, <2>1 DEF Database!TypeOK, Database!Content
  <2> QED
    BY <1>1, <2>1, <2>2 DEF Database!TypeOK
<1>11. CASE Database!RunScript(q) /\ table[v] # "absent"
  BY <1>8, <1>11 DEF Database!RunScript
<1>12. CASE Database!LockTimesOut(q) \/ Database!End(q)
  BY <1>8, <1>12 DEF Database!LockTimesOut, Database!End
<1> QED
  BY <1>4, <1>5, <1>6, <1>7, <1>9, <1>10, <1>11, <1>12
  DEF DatabaseStep, Database!OpenStep

\* What leaves the database alone keeps its invariant.
LEMMA DatabaseStutterKeepsInv ==
  ASSUME DatabaseInv, UNCHANGED databaseVars
  PROVE  DatabaseInv'
  BY DEF DatabaseInv, databaseVars, Database!TypeOK

\* What the tables hold survives every move of a process.
LEMMA DatabaseStepKeepsData ==
  ASSUME DatabaseInv, NEW q \in Process, DatabaseStep(q)
  PROVE  /\ \A v \in Database!Version : table[v] = "used" => table'[v] = "used"
         /\ table[3] = "used" /\ table[4] = "absent" => table'[4] # "new"
<1>1. table \in [Database!Version -> Database!Content] /\ 4 \in Database!Version
  BY Versions DEF DatabaseInv, Database!TypeOK
<1>2. CASE UNCHANGED table
  BY <1>1, <1>2
<1>3. CASE Database!Use(q)
  BY <1>1, <1>3 DEF Database!Use
<1>4. CASE Database!Commit(q)
  <2> DEFINE v == opener[q].version
  <2>1. v \in Database!Version /\ table[v] = "absent"
    BY <1>4 DEF DatabaseInv, Database!TypeOK, Database!Commit, Database!At
  <2>2. table' = [table EXCEPT ![v] = IF v = 4 THEN table[3] ELSE "new"]
    BY <1>4, Versions DEF Database!Commit
  <2> HIDE DEF v
  <2> QED
    BY <1>1, <2>1, <2>2
<1> QED
  BY <1>2, <1>3, <1>4
  DEF DatabaseStep, Database!OpenStep, Database!BeginOpen, Database!CheckInstalled,
      Database!RunScript, Database!LockTimesOut, Database!End

-----------------------------------------------------------------------------
(* The steps of the bridge.                                                *)

\* Every step of the bridge is a move of one process of the database, or none.
LEMMA BridgeStepsTheDatabase ==
  ASSUME [Next]_vars
  PROVE  (\E p \in Process : DatabaseStep(p)) \/ UNCHANGED databaseVars
  BY HostAssumption
  DEF DatabaseStep, Next, vars, StartHost, QuitShell, Register, Write, Return, Read,
      HostOpens, HostStep, HostDies, HostGone, HostServes, HostCannotOpen, ReadLine,
      Handle, Respond, EndOfInput, RunBegins, RunEnds, OtherProgram

\* The host starts to serve with its database open, and goes when it closes it.
LEMMA BridgeKeepsHostInv ==
  ASSUME DatabaseInv, HostInv, [Next]_vars
  PROVE  HostInv'
<1>1. opener \in [Process -> [at : Database!Stage, version : Database!Version]]
  BY DEF DatabaseInv, Database!TypeOK
<1>2. CASE UNCHANGED <<host, opener>>
  BY <1>2 DEF HostInv
<1>3. CASE StartHost
  BY <1>3 DEF HostInv, StartHost, HostMoves
<1>4. CASE HostOpens
  <2>1. opener[Host].at \in {"check", "script", "commit"} /\ UNCHANGED host
    BY <1>4 DEF HostOpens, hostVars, Database!OpenStep, Database!CheckInstalled,
      Database!RunScript, Database!LockTimesOut, Database!Commit, Database!At
  <2> QED
    BY <2>1 DEF HostInv
<1>5. ASSUME HostGone
      PROVE  HostInv'
  BY <1>5 DEF HostInv, HostGone, HostMoves
<1>6. CASE HostServes
  BY <1>6 DEF HostInv, HostServes, HostMoves, databaseVars
<1>7. CASE ReadLine \/ Handle
  BY <1>7 DEF HostInv, ReadLine, Handle, HostAt, databaseVars
<1>8. CASE Respond
  BY <1>8 DEF HostInv, Respond, HostAt, HostMoves, databaseVars
<1>9. ASSUME NEW p \in Process, OtherProgram(p)
      PROVE  HostInv'
  <2>1. p # Host /\ UNCHANGED host
    BY <1>9 DEF OtherProgram, hostVars
  <2>2. opener'[Host] = opener[Host]
    BY <1>1, <1>9, <2>1, HostAssumption
    DEF OtherProgram, Database!BeginOpen, Database!OpenStep, Database!CheckInstalled,
      Database!RunScript, Database!LockTimesOut, Database!Commit, Database!Use,
      Database!End, Database!Advance, Database!Moves, Database!Resets
  <2> QED
    BY <2>1, <2>2 DEF HostInv
<1>10. CASE HostCannotOpen \/ EndOfInput \/ HostDies
  BY <1>5, <1>10 DEF HostCannotOpen, EndOfInput, HostDies
<1>11. CASE \/ QuitShell \/ RunBegins \/ RunEnds
            \/ \E c \in Caller :
                 \/ \E request \in Request : Register(c, request)
                 \/ Write(c) \/ Return(c)
            \/ \E n \in 1..Len(stdout) : Read(n)
            \/ UNCHANGED vars
  BY <1>2, <1>11 DEF QuitShell, RunBegins, RunEnds, Register, Write, Return, Read,
    vars, databaseVars, hostVars
<1> QED
  BY <1>3, <1>4, <1>6, <1>7, <1>8, <1>9, <1>10, <1>11 DEF Next, HostStep

\* Both invariants hold throughout.
LEMMA BridgeInv == Spec => [](DatabaseInv /\ HostInv)
<1>1. Init => DatabaseInv /\ HostInv
  BY InitDatabase DEF Init, HostInv
<1>2. DatabaseInv /\ HostInv /\ [Next]_vars => DatabaseInv' /\ HostInv'
  BY BridgeStepsTheDatabase, DatabaseStepKeepsInv, DatabaseStutterKeepsInv,
    BridgeKeepsHostInv
<1> QED
  BY <1>1, <1>2, PTL DEF Spec

\* Whatever programs race to migrate the database and die while they do, it is
\* whole, and a host that answers has every table (Store::open).
THEOREM BridgeSchemaWhole == Spec => []SchemaWhole
<1>1. DatabaseInv /\ HostInv => SchemaWhole
  <2> SUFFICES ASSUME DatabaseInv, HostInv PROVE SchemaWhole
    OBVIOUS
  <2>1. \E k \in 0..Database!Last : installed = 1..k
    BY FirstVersions DEF DatabaseInv, Database!TypeOK
  <2> QED
    BY <2>1, HostAssumption
    DEF DatabaseInv, HostInv, SchemaWhole, Database!SchemaWhole, Database!At
<1> QED
  BY <1>1, BridgeInv, PTL

\* No step of any program loses what the tables hold, and the migration that
\* moves the operational columns takes them along.
THEOREM BridgeOpeningKeepsData == Spec => OpeningKeepsData
<1> DEFINE Keeps ==
      /\ \A v \in Database!Version : table[v] = "used" => table'[v] = "used"
      /\ table[Database!CopiedFrom] = "used" /\ table[Database!Copied] = "absent"
           => table'[Database!Copied] # "new"
<1>1. DatabaseInv /\ [Next]_vars => Keeps \/ UNCHANGED Database!vars
  BY BridgeStepsTheDatabase, DatabaseStepKeepsData, Versions
  DEF Database!vars, databaseVars
<1> QED
  BY <1>1, BridgeInv, PTL DEF Spec, OpeningKeepsData, Database!OpeningKeepsData

-----------------------------------------------------------------------------
(* Type correctness.                                                       *)

\* What the shell and the host keep, apart from the database.
CallType == {Idle} \cup [at : {"registered"}, id : Nat, request : Request]
  \cup [at : {"waiting"}, id : Nat] \cup [at : {"told"}, answer : Answer]

ShellType ==
  /\ shell \in BOOLEAN
  /\ call \in [Caller -> CallType]
  /\ nextID \in Nat
  /\ pending \subseteq Nat /\ torn \subseteq Nat

HostType ==
  /\ stdin \in Seq(Line)
  /\ host \in [at : {"none", "opening", "serving", "handling", "answering"}, line : Line]
  /\ stdout \in Seq(Fragment)
  /\ shutdown \in BOOLEAN
  /\ scheduler \in {"stopped", "waiting", "updating"}
  /\ DOMAIN answered \subseteq Nat
  /\ \A i \in DOMAIN answered : answered[i] \in Answer
  /\ spent \in [hosts : Nat, runs : Nat]

\* The line the host is about to write answers the request it has handled.
AnswerMade == HostAt("answering") => host.line.id \in DOMAIN answered

BridgeType == ShellType /\ HostType /\ AnswerMade

\* The type invariant by its parts: database, shell and host.
LEMMA TypeParts == TypeOK <=> Database!TypeOK /\ ShellType /\ HostType
  BY DEF TypeOK, ShellType, HostType, CallType

\* The line that is no request is a line.
LEMMA LineType == NoLine \in Line
  BY DEF NoLine, Line, NoID

\* What the host may answer is an answer.
LEMMA AnswersType ==
  ASSUME NEW r \in Request \cup {NoRequest}, NEW b \in BOOLEAN, NEW a \in Answers(r, b)
  PROVE  a \in Answer
  BY DEF Answer

\* Spending keeps the counters natural.
LEMMA SpendType ==
  ASSUME spent \in [hosts : Nat, runs : Nat], NEW what \in {"hosts", "runs"}, NEW max,
         Spend(what, max)
  PROVE  spent' \in [hosts : Nat, runs : Nat]
  BY DEF Spend

\* A new host has answered nothing.
LEMMA NoAnswersType ==
  ASSUME answered = NoAnswers
  PROVE  DOMAIN answered \subseteq Nat /\ \A i \in DOMAIN answered : answered[i] \in Answer
  BY DEF NoAnswers

\* The lines of no message are a sequence of anything.
LEMMA NoLines == \A S : <<>> \in Seq(S)
  BY EmptySeq

\* The initial state is typed.
LEMMA InitType == Init => BridgeType
<1> SUFFICES ASSUME Init PROVE BridgeType
  OBVIOUS
<1>1. ShellType
  BY DEF Init, ShellType, CallType
<1>2. host \in [at : {"none", "opening", "serving", "handling", "answering"}, line : Line]
      /\ ~HostAt("answering")
  BY LineType DEF Init, HostAt
<1>3. HostType
  BY <1>2, NoAnswersType, NoLines DEF Init, HostType
<1> QED
  BY <1>1, <1>2, <1>3 DEF BridgeType, AnswerMade

\* The two halves of an answer.
LEMMA HalvesType ==
  ASSUME NEW line \in Line, answered[line.id] \in Answer
  PROVE  Halves(line) \in Seq(Fragment)
<1>1. Halves(line) \in [1..2 -> Fragment]
  BY DEF Halves, Fragment, Half, Line
<1> QED
  BY <1>1, SeqDef

\* Steps that leave the host as it is, and the shell typed.
LEMMA CallSteps ==
  ASSUME BridgeType, NEW c \in Caller,
         \/ \E request \in Request : Register(c, request)
         \/ Write(c) \/ Return(c)
  PROVE  BridgeType'
<1> USE DEF BridgeType
<1>1. CASE \E request \in Request : Register(c, request)
  <2>1. PICK request \in Request : Register(c, request)
    BY <1>1
  <2>2. [at |-> "registered", id |-> nextID, request |-> request] \in CallType
    BY DEF CallType, ShellType
  <2>3. ShellType'
    BY <2>1, <2>2 DEF Register, ShellType
  <2> QED
    BY <2>1, <2>3 DEF Register, hostVars, HostType, AnswerMade, HostAt
<1>2. CASE Write(c)
  <2>1. call[c] \in [at : {"registered"}, id : Nat, request : Request]
    BY <1>2 DEF Write, ShellType, CallType, Idle
  <2>2. [at |-> "waiting", id |-> call[c].id] \in CallType
        /\ [id |-> call[c].id, request |-> call[c].request] \in Line
    BY <2>1 DEF CallType, Line
  <2>3. ShellType'
    BY <1>2, <2>2 DEF Write, ShellType
  <2>4. stdin' \in Seq(Line)
    <3>1. Append(stdin, [id |-> call[c].id, request |-> call[c].request]) \in Seq(Line)
      BY <2>2, AppendProperties DEF HostType
    <3>2. stdin' \in {stdin, Append(stdin, [id |-> call[c].id, request |-> call[c].request])}
      BY <1>2 DEF Write
    <3> QED
      BY <3>1, <3>2 DEF HostType
  <2> QED
    BY <1>2, <2>3, <2>4 DEF Write, HostType, AnswerMade, HostAt
<1>3. CASE Return(c)
  BY <1>3 DEF Return, hostVars, ShellType, CallType, HostType, AnswerMade, HostAt
<1> QED
  BY <1>1, <1>2, <1>3

\* Reading a chunk releases callers with answers of the type.
LEMMA ReadStep ==
  ASSUME BridgeType, NEW n \in 1..Len(stdout), Read(n)
  PROVE  BridgeType'
<1> USE DEF BridgeType
<1> DEFINE chunk == SubSeq(stdout, 1, n)
           rest == SubSeq(stdout, n + 1, Len(stdout))
<1>1. Len(stdout) \in Nat /\ \A i \in 1..Len(stdout) : stdout[i] \in Fragment
  BY LenProperties, ElementOfSeq DEF HostType
<1>2. chunk \in Seq(Fragment) /\ Len(chunk) = n /\ rest \in Seq(Fragment)
  <2>1. \A i \in 1..n : stdout[i] \in Fragment
    BY <1>1
  <2>2. \A i \in (n + 1)..Len(stdout) : stdout[i] \in Fragment
    BY <1>1
  <2>3. chunk \in Seq(Fragment) /\ Len(chunk) = n
    BY <1>1, <2>1, SubSeqProperties
  <2>4. rest \in Seq(Fragment)
    BY <1>1, <2>2, SubSeqProperties
  <2> QED
    BY <2>3, <2>4
<1> HIDE DEF chunk, rest
<1>3. \A i \in 1..n : chunk[i] \in Fragment
  BY <1>2, ElementOfSeq
<1>4. Whole(chunk) \subseteq Fragment
  BY <1>2, <1>3 DEF Whole
<1>5. PICK lines \in SUBSET Whole(chunk) :
        LET told == {l \in lines : l.id \in pending}
        IN  /\ call' = Released(told)
            /\ pending' = pending \ {l.id : l \in told}
            /\ torn' = torn \cup ({chunk[i].id : i \in 1..n} \ {l.id : l \in lines})
  BY DEF Read, chunk
<1>6. torn' \subseteq Nat
  BY <1>3, <1>5 DEF ShellType, Fragment
<1>7. call' \in [Caller -> CallType]
  <2> DEFINE told == {l \in lines : l.id \in pending}
             l0(c) == CHOOSE l \in told : l.id = call[c].id
  <2>1. \A c \in Caller : (\E l \in told : l.id = call[c].id) => l0(c) \in Fragment
    BY <1>4
  <2>2. \A c \in Caller : (\E l \in told : l.id = call[c].id) =>
          [at |-> "told", answer |-> l0(c).answer] \in CallType
    BY <2>1 DEF CallType, Fragment
  <2>3. call' = [c \in Caller |->
                   IF call[c].at = "waiting" /\ \E l \in told : l.id = call[c].id
                   THEN [at |-> "told", answer |-> l0(c).answer] ELSE call[c]]
    BY <1>5 DEF Released
  <2> HIDE DEF told, l0
  <2> QED
    BY <2>2, <2>3 DEF ShellType
<1>8. stdout' = rest /\ pending' \subseteq pending
      /\ UNCHANGED <<shell, nextID, stdin, host, shutdown, scheduler, answered, spent>>
  BY <1>5 DEF Read, rest
<1> QED
  BY <1>2, <1>6, <1>7, <1>8 DEF ShellType, HostType, AnswerMade, HostAt

\* Steps of the host that leave the shell as it is.
LEMMA HostSteps ==
  ASSUME BridgeType, HostStep \/ HostOpens \/ HostDies \/ RunBegins \/ RunEnds
  PROVE  BridgeType'
<1> USE DEF BridgeType
<1>1. ASSUME HostGone
      PROVE  BridgeType'
  BY <1>1, LineType DEF HostGone, HostMoves, shellVars, ShellType, HostType, AnswerMade,
    HostAt
<1>2. CASE HostOpens
  BY <1>2 DEF HostOpens, shellVars, hostVars, ShellType, HostType, AnswerMade, HostAt
<1>3. CASE HostServes
  BY <1>3, LineType DEF HostServes, HostMoves, shellVars, ShellType, HostType, AnswerMade,
    HostAt
<1>4. CASE ReadLine
  <2>1. Head(stdin) \in Line /\ Tail(stdin) \in Seq(Line)
    BY <1>4, HeadTailProperties DEF ReadLine, HostType
  <2> QED
    BY <1>4, <2>1 DEF ReadLine, HostMoves, shellVars, ShellType, HostType, AnswerMade, HostAt
<1>5. CASE Handle
  <2> DEFINE line == host.line
  <2>1. line \in Line
    BY DEF HostType
  <2>2. PICK a \in Answers(line.request, scheduler # "stopped") :
          /\ answered' = [i \in DOMAIN answered \cup {line.id} |->
                            IF i = line.id THEN a ELSE answered[i]]
          /\ scheduler' = SchedulerAfter(line.request, a)
          /\ shutdown' = (line.request.command = "shutdown" /\ a = "ok")
          /\ HostMoves("answering", line)
    BY <1>5 DEF Handle
  <2>3. a \in Answer
    BY <2>1, AnswersType DEF Line
  <2>4. scheduler' \in {"stopped", "waiting", "updating"}
    BY <2>2 DEF SchedulerAfter, HostType
  <2> HIDE DEF line
  <2>5. host' = [at |-> "answering", line |-> line] /\ line.id \in Nat
    BY <2>1, <2>2 DEF HostMoves, Line
  <2>6. DOMAIN answered' = DOMAIN answered \cup {line.id}
        /\ \A i \in DOMAIN answered' : answered'[i] \in Answer
    BY <2>2, <2>3 DEF HostType
  <2>7. shutdown' \in BOOLEAN
    BY <2>2
  <2> QED
    BY <1>5, <2>1, <2>4, <2>5, <2>6, <2>7
    DEF Handle, shellVars, ShellType, HostType, AnswerMade, HostAt
<1>6. CASE Respond
  <2>1. Halves(host.line) \in Seq(Fragment)
    BY <1>6, HalvesType DEF Respond, HostType, AnswerMade
  <2>2. stdout' \in Seq(Fragment)
    BY <1>6, <2>1, ConcatProperties DEF Respond, HostType
  <2> QED
    BY <1>6, <2>2, LineType DEF Respond, HostMoves, shellVars, ShellType, HostType,
      AnswerMade, HostAt
<1>7. CASE RunBegins
  BY <1>7, SpendType DEF RunBegins, shellVars, ShellType, HostType, AnswerMade, HostAt
<1>8. CASE RunEnds
  BY <1>8 DEF RunEnds, shellVars, ShellType, HostType, AnswerMade, HostAt
<1> QED
  BY <1>1, <1>2, <1>3, <1>4, <1>5, <1>6, <1>7, <1>8
  DEF HostStep, HostCannotOpen, EndOfInput, HostDies

\* Every step of shell, host and other programs keeps the types.
LEMMA BridgeKeepsType == BridgeType /\ [Next]_vars => BridgeType'
<1> SUFFICES ASSUME BridgeType, [Next]_vars PROVE BridgeType'
  OBVIOUS
<1>1. CASE StartHost
  <2>1. host' = [at |-> "opening", line |-> NoLine] /\ stdin' = <<>> /\ stdout' = <<>>
        /\ nextID' = 1 /\ pending' = {} /\ torn' = {} /\ UNCHANGED <<shell, call>>
        /\ shutdown' = FALSE /\ scheduler' = "stopped" /\ answered' = NoAnswers
        /\ Spend("hosts", MaxHosts)
    BY <1>1 DEF StartHost, HostMoves
  <2>2. spent' \in [hosts : Nat, runs : Nat]
    BY <2>1, SpendType DEF BridgeType, HostType
  <2>3. ShellType'
    BY <2>1 DEF BridgeType, ShellType
  <2>4. DOMAIN answered' = {}
    BY <2>1 DEF NoAnswers
  <2>5. HostType'
    BY <2>1, <2>2, <2>4, LineType, NoLines DEF BridgeType, HostType
  <2> QED
    BY <2>1, <2>3, <2>5 DEF BridgeType, AnswerMade, HostAt
<1>2. CASE QuitShell
  <2>1. stdin' \in {stdin, Append(stdin, NoLine)}
    BY <1>2 DEF QuitShell
  <2>2. Append(stdin, NoLine) \in Seq(Line)
    BY LineType, AppendProperties DEF BridgeType, HostType
  <2>3. stdin' \in Seq(Line)
    BY <2>1, <2>2 DEF BridgeType, HostType
  <2> QED
    BY <1>2, <2>3 DEF QuitShell, BridgeType, ShellType, HostType, AnswerMade, HostAt
<1>3. ASSUME NEW p \in Process, OtherProgram(p)
      PROVE  BridgeType'
  BY <1>3 DEF OtherProgram, shellVars, hostVars, BridgeType, ShellType, HostType,
    AnswerMade, HostAt
<1>4. CASE UNCHANGED vars
  BY <1>4 DEF vars, shellVars, hostVars, BridgeType, ShellType, HostType, AnswerMade, HostAt
<1> QED
  BY <1>1, <1>2, <1>3, <1>4, CallSteps, ReadStep, HostSteps DEF Next

\* The state of the bridge keeps its types: a line is a request with its number,
\* and what the host writes for it the answer it has made.
THEOREM BridgeTypeCorrect == Spec => []TypeOK
<1>1. Spec => []BridgeType
  BY InitType, BridgeKeepsType, PTL DEF Spec
<1>2. DatabaseInv /\ BridgeType => TypeOK
  BY TypeParts DEF DatabaseInv, BridgeType
<1> QED
  BY <1>1, <1>2, BridgeInv, PTL

-----------------------------------------------------------------------------
(* The bridge implements RemoteCalls.                                      *)

(***************************************************************************)
(* Why an answer finds its caller and a request takes effect once: an      *)
(* identifier is in use by one caller; a line yet to be handled is that    *)
(* of a caller who waits for it, has no answer and no other line with its  *)
(* identifier; what is on its way to the shell is what was answered.       *)
(***************************************************************************)
Identified ==
  /\ nextID # 0
  /\ \A c \in Caller : call[c].at \in {"registered", "waiting"} =>
       /\ call[c].id \in 1..(nextID - 1)
       /\ \A d \in Caller : call[d].at \in {"registered", "waiting"}
                              /\ call[d].id = call[c].id => d = c
  /\ \A c \in Caller :
       call[c].at = "registered" => call[c].id \notin DOMAIN answered
  /\ \A i \in DOMAIN answered : i < nextID
  /\ shell => NoID \notin DOMAIN answered

LinesWaitedFor ==
  \A k \in DOMAIN Lines :
    /\ Lines[k].id \notin DOMAIN answered
    /\ \A j \in DOMAIN Lines : Lines[j].id = Lines[k].id => j = k
    /\ IF Lines[k] = NoLine THEN ~shell /\ k = Len(Lines)
       ELSE \E c \in Caller : Waits(c, Lines[k])

AnswersMade ==
  /\ shutdown => host.at \in {"answering", "none"}
  /\ HostAt("answering") => host.line.id \in DOMAIN answered
  /\ \A i \in DOMAIN stdout : /\ stdout[i].id \in DOMAIN answered
                              /\ stdout[i].answer = answered[stdout[i].id]

CallsInv == Identified /\ LinesWaitedFor /\ AnswersMade

\* A caller waits whose request is yet to be handled, and goes on waiting.
KeepWaiting ==
  \A c \in Caller :
    call[c].at = "waiting" /\ call[c].id \notin DOMAIN answered => call'[c] = call[c]

\* The lines by the line being handled and those in the pipe.
LEMMA LinesParts ==
  ASSUME BridgeType
  PROVE  /\ Lines \in Seq(Line) /\ Len(Lines) \in Nat /\ DOMAIN Lines = 1..Len(Lines)
         /\ stdin \in Seq(Line) /\ Len(stdin) \in Nat
         /\ ~HostAt("handling") => Lines = stdin
         /\ HostAt("handling") =>
              /\ Len(Lines) = Len(stdin) + 1 /\ Lines[1] = host.line
              /\ \A i \in 1..Len(stdin) : Lines[i + 1] = stdin[i]
<1>1. stdin \in Seq(Line) /\ host.line \in Line
  BY DEF BridgeType, HostType
<1>2. CASE ~HostAt("handling")
  <2>1. Lines = stdin
    BY <1>1, <1>2, ConcatEmptySeq DEF Lines
  <2> QED
    BY <1>1, <1>2, <2>1, LenProperties
<1>3. CASE HostAt("handling")
  <2>1. Lines = <<host.line>> \o stdin
    BY <1>3 DEF Lines
  <2>2. <<host.line>> \in Seq(Line) /\ Len(<<host.line>>) = 1
        /\ <<host.line>>[1] = host.line
    BY <1>1
  <2>3. Len(stdin) \in Nat
    BY <1>1, LenProperties
  <2>4. /\ Lines \in Seq(Line) /\ Len(Lines) = 1 + Len(stdin)
        /\ \A i \in 1..1 + Len(stdin) :
             Lines[i] = IF i <= 1 THEN <<host.line>>[i] ELSE stdin[i - 1]
    BY <1>1, <2>1, <2>2, ConcatProperties
  <2>5. DOMAIN Lines = 1..Len(Lines)
    BY <2>4, LenProperties
  <2>6. \A i \in 1..Len(stdin) : Lines[i + 1] = stdin[i]
    BY <2>3, <2>4
  <2> QED
    BY <1>1, <1>3, <2>2, <2>3, <2>4, <2>5, <2>6
<1> QED
  BY <1>2, <1>3

\* A line added to the pipe is the last of the lines.
LEMMA LinesAppend ==
  ASSUME BridgeType, BridgeType', UNCHANGED host, NEW line \in Line,
         stdin' = Append(stdin, line)
  PROVE  /\ Len(Lines)' = Len(Lines) + 1 /\ Lines'[Len(Lines) + 1] = line
         /\ \A k \in 1..Len(Lines) : Lines'[k] = Lines[k]
<1>1. stdin \in Seq(Line) /\ host.line \in Line
  BY DEF BridgeType, HostType
<1>2. /\ Append(stdin, line) \in Seq(Line) /\ Len(Append(stdin, line)) = Len(stdin) + 1
      /\ \A i \in 1..Len(stdin) : Append(stdin, line)[i] = stdin[i]
      /\ Append(stdin, line)[Len(stdin) + 1] = line /\ Len(stdin) \in Nat
  BY <1>1, AppendProperties, LenProperties
<1>3. CASE ~HostAt("handling")
  <2>1. Lines = stdin /\ Lines' = stdin'
    BY <1>1, <1>2, <1>3, ConcatEmptySeq DEF Lines, HostAt
  <2> QED
    BY <1>2, <2>1
<1>4. CASE HostAt("handling")
  <2>1. Lines = <<host.line>> \o stdin /\ Lines' = <<host.line>> \o stdin'
    BY <1>4 DEF Lines, HostAt
  <2>2. <<host.line>> \in Seq(Line) /\ Len(<<host.line>>) = 1
    BY <1>1
  <2>3. /\ Len(Lines) = 1 + Len(stdin)
        /\ \A i \in 1..1 + Len(stdin) :
             Lines[i] = IF i <= 1 THEN <<host.line>>[i] ELSE stdin[i - 1]
    BY <1>1, <2>1, <2>2, ConcatProperties
  <2>4. /\ Len(Lines)' = 1 + Len(stdin')
        /\ \A i \in 1..1 + Len(stdin') :
             Lines'[i] = IF i <= 1 THEN <<host.line>>[i] ELSE stdin'[i - 1]
    BY <1>2, <2>1, <2>2, ConcatProperties
  <2>5. Len(stdin') = Len(stdin) + 1
    BY <1>2
  <2>6. \A k \in 1..1 + Len(stdin) : Lines'[k] = Lines[k]
    <3> SUFFICES ASSUME NEW k \in 1..1 + Len(stdin) PROVE Lines'[k] = Lines[k]
      OBVIOUS
    <3>1. k \in 1..1 + Len(stdin')
      BY <1>2, <2>5
    <3>2. k > 1 => k - 1 \in 1..Len(stdin)
      BY <1>2
    <3> QED
      BY <1>2, <2>3, <2>4, <3>1, <3>2
  <2>7. Lines'[2 + Len(stdin)] = line
    BY <1>2, <2>4, <2>5
  <2> QED
    BY <1>2, <2>3, <2>4, <2>5, <2>6, <2>7
<1> QED
  BY <1>3, <1>4

\* Sequences of the same indices are as long as each other.
LEMMA SameBounds ==
  ASSUME NEW i \in Nat, NEW j \in Nat, 1..i = 1..j
  PROVE  i = j
<1>1. i <= j
  <2>1. CASE i = 0
    BY <2>1
  <2>2. CASE i # 0
    <3>1. i \in 1..i
      BY <2>2
    <3> QED
      BY <3>1
  <2> QED
    BY <2>1, <2>2
<1>2. j <= i
  <2>1. CASE j = 0
    BY <2>1
  <2>2. CASE j # 0
    <3>1. j \in 1..j
      BY <2>2
    <3> QED
      BY <3>1
  <2> QED
    BY <2>1, <2>2
<1> QED
  BY <1>1, <1>2

\* The queue of RemoteCalls has the caller of each request, in the order of
\* the lines.
LEMMA Queue ==
  BridgeType /\ CallsInv =>
    /\ Unhandled \in Seq(Caller) /\ Len(Unhandled) \in Nat
    /\ Len(Lines) \in Nat
    /\ \A k : k \in 1..Len(Unhandled) <=>
                k \in 1..Len(Lines) /\ Lines[k] # NoLine
    /\ \A k \in 1..Len(Unhandled) :
         /\ Unhandled[k] \in Caller /\ Waits(Unhandled[k], Lines[k])
         /\ \A c \in Caller : Waits(c, Lines[k]) => c = Unhandled[k]
<1> SUFFICES ASSUME BridgeType, CallsInv
             PROVE  /\ Unhandled \in Seq(Caller) /\ Len(Unhandled) \in Nat
                    /\ Len(Lines) \in Nat
                    /\ \A k : k \in 1..Len(Unhandled) <=>
                                k \in 1..Len(Lines) /\ Lines[k] # NoLine
                    /\ \A k \in 1..Len(Unhandled) :
                         /\ Unhandled[k] \in Caller /\ Waits(Unhandled[k], Lines[k])
                         /\ \A c \in Caller : Waits(c, Lines[k]) => c = Unhandled[k]
  OBVIOUS
<1>1. Len(Lines) \in Nat /\ DOMAIN Lines = 1..Len(Lines)
  BY LinesParts
<1> DEFINE D == {i \in DOMAIN Lines : Lines[i] # NoLine}
<1>2. PICK m \in Nat : D = 1..m
  <2>1. CASE D = 1..Len(Lines)
    BY <1>1, <2>1
  <2>2. CASE D # 1..Len(Lines)
    <3>1. PICK k \in 1..Len(Lines) : Lines[k] = NoLine
      BY <1>1, <2>2
    <3>2. k = Len(Lines) /\ \A j \in 1..Len(Lines) : Lines[j] = NoLine => j = Len(Lines)
      BY <1>1, <3>1 DEF CallsInv, LinesWaitedFor
    <3>3. Len(Lines) - 1 \in Nat
      BY <1>1, <3>1
    <3>4. \A j : j \in D <=> j \in 1..Len(Lines) /\ j # Len(Lines)
      BY <1>1, <3>1, <3>2
    <3>5. \A j : j \in 1..Len(Lines) /\ j # Len(Lines) <=> j \in 1..(Len(Lines) - 1)
      BY <1>1, <3>3
    <3> HIDE DEF D
    <3>6. D = 1..(Len(Lines) - 1)
      BY <3>4, <3>5
    <3> QED
      BY <3>3, <3>6
  <2> QED
    BY <2>1, <2>2
<1>3. \A k \in D : \E c \in Caller : Waits(c, Lines[k])
  BY DEF CallsInv, LinesWaitedFor
<1>4. Unhandled = [k \in D |-> IF \E c \in Caller : Waits(c, Lines[k])
                               THEN CHOOSE c \in Caller : Waits(c, Lines[k]) ELSE NoID]
  BY DEF Unhandled
<1> HIDE DEF D
<1>5. \A k \in D : Unhandled[k] \in Caller /\ Waits(Unhandled[k], Lines[k])
  BY <1>3, <1>4
<1>6. Unhandled \in [1..m -> Caller]
  BY <1>2, <1>4, <1>5
<1>7. Unhandled \in Seq(Caller) /\ Len(Unhandled) = m
  <2>1. Unhandled \in Seq(Caller)
    BY <1>6, SeqDef
  <2>2. DOMAIN Unhandled = 1..Len(Unhandled) /\ Len(Unhandled) \in Nat
    BY <2>1, LenProperties
  <2>3. 1..m = 1..Len(Unhandled)
    BY <1>6, <2>2
  <2> QED
    BY <2>1, <2>2, <2>3, SameBounds
<1>8. \A k : k \in D <=> k \in 1..Len(Lines) /\ Lines[k] # NoLine
  BY <1>1 DEF D
<1>9. \A c, d \in Caller : \A l : Waits(c, l) /\ Waits(d, l) => c = d
  BY DEF CallsInv, Identified, Waits
<1> QED
  BY <1>1, <1>2, <1>5, <1>7, <1>8, <1>9

\* When lines are taken from the front, so are their callers from the queue.
LEMMA QueueShift ==
  ASSUME BridgeType, CallsInv, BridgeType', CallsInv', KeepWaiting,
         NEW s \in {0, 1}, s <= Len(Lines), Len(Lines)' = Len(Lines) - s,
         \A k \in 1..Len(Lines)' : Lines'[k] = Lines[k + s]
  PROVE  /\ Unhandled \in Seq(Caller) /\ Unhandled' \in Seq(Caller)
         /\ IF s = 0 \/ Unhandled = <<>> THEN Unhandled' = Unhandled
            ELSE Unhandled' = Tail(Unhandled)
         /\ s = 1 => (Unhandled = <<>> <=> Lines[1] = NoLine)
<1> DEFINE n == Len(Unhandled)
           n1 == Len(Unhandled)'
<1>1. /\ Unhandled \in Seq(Caller) /\ n \in Nat /\ Len(Lines) \in Nat
      /\ \A k : k \in 1..n <=> k \in 1..Len(Lines) /\ Lines[k] # NoLine
      /\ \A k \in 1..n :
           /\ Unhandled[k] \in Caller /\ Waits(Unhandled[k], Lines[k])
           /\ \A c \in Caller : Waits(c, Lines[k]) => c = Unhandled[k]
  BY Queue
<1>2. (BridgeType /\ CallsInv)' =>
        (/\ Unhandled \in Seq(Caller) /\ Len(Unhandled) \in Nat
         /\ Len(Lines) \in Nat
         /\ \A k : k \in 1..Len(Unhandled) <=>
                     k \in 1..Len(Lines) /\ Lines[k] # NoLine
         /\ \A k \in 1..Len(Unhandled) :
              /\ Unhandled[k] \in Caller /\ Waits(Unhandled[k], Lines[k])
              /\ \A c \in Caller : Waits(c, Lines[k]) => c = Unhandled[k])'
  BY Queue, PTL
<1>3. /\ Unhandled' \in Seq(Caller) /\ n1 \in Nat
      /\ \A k : k \in 1..n1 <=> k \in 1..Len(Lines)' /\ Lines'[k] # NoLine
      /\ \A k \in 1..n1 :
           \A c \in Caller : call'[c].at = "waiting" /\ call'[c].id = Lines'[k].id
              => c = Unhandled'[k]
  BY <1>2 DEF Waits, NoLine, NoRequest
<1> HIDE DEF n, n1
<1>4. \A k : k \in 1..n1 <=> k \in Nat \ {0} /\ k + s \in 1..n
  <2> SUFFICES ASSUME NEW k PROVE k \in 1..n1 <=> k \in Nat \ {0} /\ k + s \in 1..n
    OBVIOUS
  <2>1. ASSUME k \in 1..n1 PROVE k \in Nat \ {0} /\ k + s \in 1..n
    <3>1. k \in 1..Len(Lines)' /\ Lines'[k] # NoLine
      BY <1>3, <2>1
    <3>2. k + s \in 1..Len(Lines) /\ Lines[k + s] # NoLine /\ k \in Nat \ {0}
      BY <1>1, <3>1
    <3> QED
      BY <1>1, <3>2
  <2>2. ASSUME k \in Nat \ {0}, k + s \in 1..n PROVE k \in 1..n1
    <3>1. k + s \in 1..Len(Lines) /\ Lines[k + s] # NoLine
      BY <1>1, <2>2
    <3>2. k \in 1..Len(Lines)' /\ Lines'[k] # NoLine
      BY <1>1, <2>2, <3>1
    <3> QED
      BY <1>3, <3>2
  <2> QED
    BY <2>1, <2>2
<1>5. n1 = IF s <= n THEN n - s ELSE 0
  <2>1. CASE s <= n
    <3>1. n - s \in Nat
      BY <1>1, <2>1
    <3>2. \A k \in Nat \ {0} : k <= n1 <=> k <= n - s
      <4>1. n \in Nat /\ n1 \in Nat
        BY <1>1, <1>3
      <4>2. \A k \in Nat \ {0} : k <= n1 <=> k + s \in 1..n
        <5>1. \A k \in Nat \ {0} : k <= n1 <=> k \in 1..n1
          BY <4>1
        <5>2. \A k \in Nat \ {0} : k \in 1..n1 <=> k + s \in 1..n
          BY <1>4, Zenon
        <5> QED
          BY <5>1, <5>2
      <4>3. \A k \in Nat \ {0} : k + s \in 1..n <=> k + s <= n
        BY <4>1
      <4>4. \A k \in Nat \ {0} : k + s <= n <=> k <= n - s
        BY <4>1
      <4> QED
        BY <4>2, <4>3, <4>4
    <3>3. n1 <= n - s
      BY <1>3, <3>1, <3>2
    <3>4. n - s <= n1
      BY <1>3, <3>1, <3>2
    <3> QED
      BY <1>3, <2>1, <3>1, <3>3, <3>4
  <2>2. CASE ~(s <= n)
    <3>1. n = 0 /\ s = 1
      BY <1>1, <2>2
    <3>2. n1 # 0 => 1 \in 1..n1
      BY <1>3
    <3> QED
      BY <1>3, <1>4, <2>2, <3>1, <3>2
  <2> QED
    BY <2>1, <2>2
<1>6. \A k \in 1..n1 : Unhandled'[k] = Unhandled[k + s]
  <2> SUFFICES ASSUME NEW k \in 1..n1 PROVE Unhandled'[k] = Unhandled[k + s]
    OBVIOUS
  <2> DEFINE c == Unhandled[k + s]
  <2>1. k + s \in 1..n
    BY <1>4
  <2>2. c \in Caller /\ call[c].at = "waiting" /\ call[c].id = Lines[k + s].id
    BY <1>1, <2>1 DEF Waits
  <2>3. k \in 1..Len(Lines)' /\ k + s \in DOMAIN Lines
    BY <1>1, <1>3, <2>1, LinesParts
  <2>4. Lines[k + s].id \notin DOMAIN answered
    BY <2>3 DEF CallsInv, LinesWaitedFor
  <2>5. call'[c] = call[c]
    BY <2>2, <2>4 DEF KeepWaiting
  <2>6. Lines'[k] = Lines[k + s]
    BY <2>3
  <2> QED
    BY <1>3, <2>2, <2>5, <2>6
<1>7. s = 1 => (Unhandled = <<>> <=> Lines[1] = NoLine)
  <2> SUFFICES ASSUME s = 1 PROVE Unhandled = <<>> <=> Lines[1] = NoLine
    OBVIOUS
  <2>1. 1 \in 1..Len(Lines)
    BY <1>1
  <2>2. 1 \in 1..n <=> Lines[1] # NoLine
    BY <1>1, <2>1
  <2>3. 1 \in 1..n <=> n # 0
    BY <1>1
  <2>4. n # 0 <=> Unhandled # <<>>
    BY <1>1, EmptySeq DEF n
  <2> QED
    BY <2>2, <2>3, <2>4
<1>8. CASE s = 0 \/ Unhandled = <<>>
  <2>1. n1 = n
    <3>1. Unhandled = <<>> => n = 0
      BY EmptySeq DEF n
    <3> QED
      BY <1>1, <1>5, <1>8, <3>1
  <2>2. \A k \in 1..n : Unhandled'[k] = Unhandled[k]
    <3>1. CASE s = 0
      BY <1>1, <1>6, <2>1, <3>1
    <3>2. CASE Unhandled = <<>>
      <4>1. n = 0
        BY <3>2, EmptySeq DEF n
      <4> QED
        BY <4>1
    <3> QED
      BY <1>8, <3>1, <3>2
  <2>3. Unhandled' = Unhandled
    BY <1>1, <1>3, <2>1, <2>2, SeqEqual DEF n, n1
  <2> QED
    BY <1>1, <1>3, <1>7, <1>8, <2>3
<1>9. CASE ~(s = 0 \/ Unhandled = <<>>)
  <2>1. n # 0 /\ s = 1
    BY <1>1, <1>9, EmptySeq DEF n
  <2>2. /\ Tail(Unhandled) \in Seq(Caller) /\ Len(Tail(Unhandled)) = n - 1
        /\ \A i \in 1..Len(Tail(Unhandled)) : Tail(Unhandled)[i] = Unhandled[i + 1]
    BY <1>1, <1>9, HeadTailProperties DEF n
  <2>3. Len(Unhandled)' = n - 1
    BY <1>1, <1>5, <2>1 DEF n1
  <2>4. \A i \in 1..Len(Unhandled)' : Unhandled'[i] = Tail(Unhandled)[i]
    BY <1>6, <2>1, <2>2, <2>3 DEF n1
  <2>5. Unhandled' = Tail(Unhandled)
    BY <1>3, <2>2, <2>3, <2>4, SeqEqual
  <2> QED
    BY <1>1, <1>3, <1>7, <1>9, <2>5
<1> QED
  BY <1>8, <1>9

\* When a line is added at the end, so is its caller to the queue; a line cut
\* short has none.
LEMMA QueueGrows ==
  ASSUME BridgeType, CallsInv, BridgeType', CallsInv', KeepWaiting, shell,
         Len(Lines)' = Len(Lines) + 1,
         \A k \in 1..Len(Lines) : Lines'[k] = Lines[k],
         NEW line, Lines'[Len(Lines) + 1] = line
  PROVE  /\ Unhandled \in Seq(Caller) /\ Unhandled' \in Seq(Caller)
         /\ line = NoLine => Unhandled' = Unhandled
         /\ \A c \in Caller :
              line # NoLine /\ call'[c].at = "waiting" /\ call'[c].id = line.id
                => Unhandled' = Append(Unhandled, c)
<1> DEFINE n == Len(Unhandled)
           n1 == Len(Unhandled)'
           l == Len(Lines)
<1>1. /\ Unhandled \in Seq(Caller) /\ n \in Nat /\ l \in Nat
      /\ \A k : k \in 1..n <=> k \in 1..l /\ Lines[k] # NoLine
      /\ \A k \in 1..n : Unhandled[k] \in Caller /\ Waits(Unhandled[k], Lines[k])
  BY Queue
<1>2. (BridgeType /\ CallsInv)' =>
        (/\ Unhandled \in Seq(Caller) /\ Len(Unhandled) \in Nat
         /\ Len(Lines) \in Nat
         /\ \A k : k \in 1..Len(Unhandled) <=>
                     k \in 1..Len(Lines) /\ Lines[k] # NoLine
         /\ \A k \in 1..Len(Unhandled) :
              /\ Unhandled[k] \in Caller /\ Waits(Unhandled[k], Lines[k])
              /\ \A c \in Caller : Waits(c, Lines[k]) => c = Unhandled[k])'
  BY Queue, PTL
<1>3. /\ Unhandled' \in Seq(Caller) /\ n1 \in Nat
      /\ \A k : k \in 1..n1 <=> k \in 1..Len(Lines)' /\ Lines'[k] # NoLine
      /\ \A k \in 1..n1 :
           \A c \in Caller : call'[c].at = "waiting" /\ call'[c].id = Lines'[k].id
              => c = Unhandled'[k]
  BY <1>2 DEF Waits, NoLine, NoRequest
<1>4. \A k \in 1..l : Lines[k] # NoLine /\ Lines[k].id \notin DOMAIN answered
  BY LinesParts DEF CallsInv, LinesWaitedFor
<1>5. Len(Lines)' = l + 1 /\ Lines'[l + 1] = line /\ \A k \in 1..l : Lines'[k] = Lines[k]
  OBVIOUS
<1> HIDE DEF n, n1, l
<1>6. n = l
  <2>1. \A k \in Nat \ {0} : k <= n <=> k <= l
    BY <1>1, <1>4
  <2>2. n <= l
    BY <1>1, <2>1
  <2>3. l <= n
    BY <1>1, <2>1
  <2> QED
    BY <1>1, <2>2, <2>3
<1>7. \A k \in 1..n : k \in 1..n1 /\ Unhandled'[k] = Unhandled[k]
  <2> SUFFICES ASSUME NEW k \in 1..n
               PROVE  k \in 1..n1 /\ Unhandled'[k] = Unhandled[k]
    OBVIOUS
  <2> DEFINE c == Unhandled[k]
  <2>1. k \in 1..l
    BY <1>6
  <2>2. k \in 1..Len(Lines)' /\ Lines'[k] = Lines[k]
    BY <1>1, <1>5, <2>1
  <2>3. k \in 1..n1
    BY <1>3, <1>4, <2>1, <2>2
  <2>4. c \in Caller /\ call[c].at = "waiting" /\ call[c].id = Lines[k].id
    BY <1>1 DEF Waits
  <2>5. call'[c] = call[c]
    BY <1>4, <2>1, <2>4 DEF KeepWaiting
  <2> QED
    BY <1>3, <2>2, <2>3, <2>4, <2>5
<1>8. line = NoLine => n1 = n
  <2> SUFFICES ASSUME line = NoLine PROVE n1 = n
    OBVIOUS
  <2>1. n + 1 \notin 1..n1
    BY <1>3, <1>5, <1>6
  <2>2. n1 <= n
    BY <1>1, <1>3, <2>1
  <2>3. n <= n1
    BY <1>1, <1>3, <1>7
  <2> QED
    BY <1>1, <1>3, <2>2, <2>3
<1>9. line = NoLine => Unhandled' = Unhandled
  BY <1>1, <1>3, <1>7, <1>8, SeqEqual DEF n, n1
<1>10. ASSUME NEW c \in Caller, line # NoLine, call'[c].at = "waiting",
              call'[c].id = line.id
       PROVE  Unhandled' = Append(Unhandled, c)
  <2>1. n + 1 \in 1..n1
    BY <1>1, <1>3, <1>5, <1>6, <1>10
  <2>2. n1 = n + 1
    <3>1. n \in Nat /\ n1 \in Nat /\ n + 1 <= n1
      BY <1>1, <1>3, <2>1
    <3>2. n1 \in 1..n1
      BY <3>1
    <3>3. n1 \in 1..Len(Lines)'
      BY <1>3, <3>2
    <3>4. Len(Lines)' = n + 1
      BY <1>5, <1>6
    <3> QED
      BY <3>1, <3>3, <3>4
  <2>3. Unhandled'[n + 1] = c
    BY <1>3, <1>5, <1>6, <1>10, <2>1
  <2>4. /\ Append(Unhandled, c) \in Seq(Caller)
        /\ Len(Append(Unhandled, c)) = n + 1
        /\ \A k \in 1..n : Append(Unhandled, c)[k] = Unhandled[k]
        /\ Append(Unhandled, c)[n + 1] = c
    BY <1>1, <1>10, AppendProperties DEF n
  <2>5. \A k \in 1..(n + 1) : Unhandled'[k] = Append(Unhandled, c)[k]
    <3> SUFFICES ASSUME NEW k \in 1..(n + 1)
                 PROVE  Unhandled'[k] = Append(Unhandled, c)[k]
      OBVIOUS
    <3>1. k \in 1..n \/ k = n + 1
      BY <1>1
    <3> QED
      BY <1>7, <2>3, <2>4, <3>1
  <2>6. Len(Unhandled)' = n + 1
    BY <2>2 DEF n1
  <2> QED
    BY <1>3, <2>4, <2>5, <2>6, SeqEqual
<1> QED
  BY <1>1, <1>3, <1>9, <1>10

\* Lines taken from the front leave the others waited for.
LEMMA LinesShift ==
  ASSUME BridgeType, CallsInv, BridgeType', KeepWaiting, shell' => shell,
         NEW s \in {0, 1}, s <= Len(Lines), Len(Lines)' = Len(Lines) - s,
         \A k \in 1..Len(Lines)' : /\ Lines'[k] = Lines[k + s]
                                   /\ Lines'[k].id \notin DOMAIN answered'
  PROVE  LinesWaitedFor'
<1>1. Len(Lines) \in Nat /\ DOMAIN Lines = 1..Len(Lines)
  BY LinesParts
<1>2. (BridgeType => DOMAIN Lines = 1..Len(Lines))'
  BY LinesParts, PTL
<1>3. DOMAIN Lines' = 1..Len(Lines)'
  BY <1>2
<1>4. \A k \in DOMAIN Lines' : k \in Nat /\ k + s \in DOMAIN Lines /\ Lines'[k] = Lines[k + s]
  BY <1>1, <1>3
<1>5. \A k \in DOMAIN Lines :
        /\ Lines[k].id \notin DOMAIN answered
        /\ \A j \in DOMAIN Lines : Lines[j].id = Lines[k].id => j = k
        /\ IF Lines[k] = NoLine THEN ~shell /\ k = Len(Lines)
           ELSE \E c \in Caller : call[c].at = "waiting" /\ call[c].id = Lines[k].id
  BY DEF CallsInv, LinesWaitedFor, Waits
<1>6. ASSUME NEW k \in DOMAIN Lines'
      PROVE  /\ \A j \in DOMAIN Lines' : Lines'[j].id = Lines'[k].id => j = k
             /\ IF Lines'[k] = NoLine THEN ~shell' /\ k = Len(Lines)'
                ELSE \E c \in Caller : call'[c].at = "waiting" /\ call'[c].id = Lines'[k].id
  <2>1. \A j \in DOMAIN Lines' : Lines'[j].id = Lines'[k].id => j = k
    <3> SUFFICES ASSUME NEW j \in DOMAIN Lines', Lines'[j].id = Lines'[k].id PROVE j = k
      OBVIOUS
    <3>1. j + s = k + s
      BY <1>4, <1>5
    <3> QED
      BY <1>4, <3>1
  <2>2. CASE Lines'[k] = NoLine
    <3>1. ~shell /\ k + s = Len(Lines)
      BY <1>4, <1>5, <2>2
    <3> QED
      BY <1>1, <1>4, <2>1, <2>2, <3>1
  <2>3. CASE Lines'[k] # NoLine
    <3>1. PICK c \in Caller : call[c].at = "waiting" /\ call[c].id = Lines[k + s].id
      BY <1>4, <1>5, <2>3
    <3>2. call'[c] = call[c]
      BY <1>4, <1>5, <3>1 DEF KeepWaiting
    <3> QED
      BY <1>4, <2>1, <2>3, <3>1, <3>2
  <2> QED
    BY <2>2, <2>3
<1> QED
  BY <1>3, <1>6 DEF LinesWaitedFor, Waits, NoLine, NoRequest

\* A line added at the end is waited for, or the last there will be.
LEMMA LinesGrow ==
  ASSUME BridgeType, CallsInv, BridgeType', KeepWaiting, shell, UNCHANGED answered,
         Len(Lines)' = Len(Lines) + 1,
         \A k \in 1..Len(Lines) : Lines'[k] = Lines[k],
         NEW line, Lines'[Len(Lines) + 1] = line, line.id \notin DOMAIN answered,
         \A k \in 1..Len(Lines) : Lines[k].id # line.id,
         IF line = NoLine THEN ~shell'
         ELSE \E c \in Caller : call'[c].at = "waiting" /\ call'[c].id = line.id
  PROVE  LinesWaitedFor'
<1>1. Len(Lines) \in Nat /\ DOMAIN Lines = 1..Len(Lines)
  BY LinesParts
<1>2. (BridgeType => DOMAIN Lines = 1..Len(Lines))'
  BY LinesParts, PTL
<1>3. \A k \in DOMAIN Lines' : k \in DOMAIN Lines \/ k = Len(Lines) + 1
  BY <1>1, <1>2
<1>4. \A k \in DOMAIN Lines :
        /\ Lines[k].id \notin DOMAIN answered
        /\ \A j \in DOMAIN Lines : Lines[j].id = Lines[k].id => j = k
        /\ Lines[k] # NoLine
        /\ \E c \in Caller : call[c].at = "waiting" /\ call[c].id = Lines[k].id
  BY DEF CallsInv, LinesWaitedFor, Waits
<1>5. ASSUME NEW k \in DOMAIN Lines
      PROVE  \E c \in Caller : call'[c].at = "waiting" /\ call'[c].id = Lines'[k].id
  <2>1. PICK c \in Caller : call[c].at = "waiting" /\ call[c].id = Lines[k].id
    BY <1>4
  <2>2. call'[c] = call[c]
    BY <1>4, <2>1 DEF KeepWaiting
  <2> QED
    BY <1>1, <2>1, <2>2
<1>6. ASSUME NEW k \in DOMAIN Lines'
      PROVE  /\ Lines'[k].id \notin DOMAIN answered'
             /\ \A j \in DOMAIN Lines' : Lines'[j].id = Lines'[k].id => j = k
             /\ IF Lines'[k] = NoLine THEN ~shell' /\ k = Len(Lines)'
                ELSE \E c \in Caller : call'[c].at = "waiting" /\ call'[c].id = Lines'[k].id
  <2>1. \A j \in DOMAIN Lines' : Lines'[j].id = Lines'[k].id => j = k
    BY <1>1, <1>3, <1>4
  <2>2. CASE k \in DOMAIN Lines
    BY <1>1, <1>4, <1>5, <2>1, <2>2
  <2>3. CASE k = Len(Lines) + 1
    BY <2>1, <2>3
  <2> QED
    BY <1>3, <2>2, <2>3
<1> QED
  BY <1>6 DEF LinesWaitedFor, Waits, NoLine, NoRequest

\* A step of RemoteCalls, or none.
CallsStep == Calls!Next \/ UNCHANGED Calls!vars

\* How RemoteCalls sees a call.
LEMMA CallSeen ==
  ASSUME BridgeType, NEW c \in Caller
  PROVE  \/ call[c].at \in {"idle", "registered"} /\ CallAs(c) = [at |-> "idle"]
         \/ /\ call[c].at = "told" /\ CallAs(c) = call[c]
            /\ call[c] = [at |-> "told", answer |-> call[c].answer]
         \/ /\ call[c].at = "waiting"
            /\ CallAs(c) = IF call[c].id \in DOMAIN answered
                           THEN [at |-> "done", answer |-> answered[call[c].id]]
                           ELSE [at |-> "asked"]
<1>1. call[c] \in CallType
  BY DEF BridgeType, ShellType
<1>2. CASE call[c] = Idle
  BY <1>2 DEF Idle, CallAs
<1>3. CASE call[c] \in [at : {"registered"}, id : Nat, request : Request]
  BY <1>3 DEF CallAs
<1>4. CASE call[c] \in [at : {"waiting"}, id : Nat]
  <2>1. call[c].at = "waiting"
    BY <1>4
  <2> QED
    BY <2>1 DEF CallAs
<1>5. CASE call[c] \in [at : {"told"}, answer : Answer]
  <2>1. call[c].at = "told" /\ call[c] = [at |-> "told", answer |-> call[c].answer]
    BY <1>5
  <2> QED
    BY <2>1 DEF CallAs
<1> QED
  BY <1>1, <1>2, <1>3, <1>4, <1>5 DEF CallType

\* With the calls and the answers it sees the same calls.
LEMMA CallsSeen ==
  ASSUME UNCHANGED <<call, answered>>
  PROVE  [c \in Caller |-> CallAs(c)]' = [c \in Caller |-> CallAs(c)]
BY DEF CallAs

\* Where no line is handed over and none answered, the queue stays.
LEMMA LinesSame ==
  ASSUME BridgeType, CallsInv, BridgeType', Identified', AnswersMade', KeepWaiting,
         shell' => shell, UNCHANGED answered, Lines' = Lines
  PROVE  CallsInv' /\ Unhandled' = Unhandled
<1> DEFINE s == 0
<1>1. Len(Lines) \in Nat
  BY LinesParts
<1>2. s \in {0, 1} /\ s <= Len(Lines) /\ Len(Lines)' = Len(Lines) - s
  BY <1>1
<1>3. \A k \in 1..Len(Lines)' : /\ Lines'[k] = Lines[k + s]
                                /\ Lines'[k].id \notin DOMAIN answered'
  <2>1. \A k \in 1..Len(Lines) : k + s = k
    BY <1>1
  <2>2. \A k \in DOMAIN Lines : Lines[k].id \notin DOMAIN answered
    BY DEF CallsInv, LinesWaitedFor
  <2>3. \A k \in 1..Len(Lines) : Lines[k].id \notin DOMAIN answered
    BY <2>2, LinesParts
  <2> HIDE DEF s
  <2> QED
    BY <2>1, <2>3
<1>4. s = 0
  OBVIOUS
<1> HIDE DEF s
<1>5. LinesWaitedFor'
  BY <1>2, <1>3, LinesShift
<1>6. CallsInv'
  BY <1>5 DEF CallsInv
<1>7. Unhandled' = Unhandled
  BY <1>2, <1>3, <1>4, <1>6, QueueShift
<1> QED
  BY <1>6, <1>7

\* Steps that make no call, answer none and hand no line over.
LEMMA QuietStep ==
  ASSUME BridgeType, CallsInv, BridgeType', AnswersMade', shell' => shell,
         UNCHANGED <<call, nextID, answered, shutdown>>, Lines' = Lines
  PROVE  CallsInv' /\ CallsStep
<1>1. KeepWaiting
  BY DEF KeepWaiting
<1>2. Identified'
  BY DEF CallsInv, Identified
<1>3. CallsInv' /\ Unhandled' = Unhandled
  BY <1>1, <1>2, LinesSame
<1> QED
  BY <1>3, CallsSeen DEF CallsStep, Calls!vars

\* The host dies with a line in hand: its caller is told nothing.
LEMMA LoseStep ==
  ASSUME BridgeType, CallsInv, BridgeType', HostGone, HostAt("handling")
  PROVE  CallsInv' /\ CallsStep
<1>1. /\ UNCHANGED <<shell, call, nextID, answered, stdin, stdout, shutdown>>
      /\ host' = [at |-> "none", line |-> NoLine]
  BY DEF HostGone, HostMoves, shellVars
<1>2. ~HostAt("handling")'
  BY <1>1 DEF HostAt
<1>3. /\ Len(Lines) = Len(stdin) + 1 /\ Len(stdin) \in Nat
      /\ \A i \in 1..Len(stdin) : Lines[i + 1] = stdin[i]
      /\ \A k \in 1..Len(Lines) : k \in DOMAIN Lines
  BY LinesParts
<1>4. Lines' = stdin
  <2>1. (BridgeType => (~HostAt("handling") => Lines = stdin))'
    BY LinesParts, PTL
  <2> QED
    BY <1>1, <1>2, <2>1
<1>5. /\ Len(Lines)' = Len(Lines) - 1 /\ 1 <= Len(Lines)
      /\ \A k \in 1..Len(Lines)' : Lines'[k] = Lines[k + 1]
  BY <1>3, <1>4
<1>6. \A k \in 1..Len(Lines)' : Lines'[k].id \notin DOMAIN answered'
  <2>1. \A k \in DOMAIN Lines : Lines[k].id \notin DOMAIN answered
    BY DEF CallsInv, LinesWaitedFor
  <2> QED
    BY <1>1, <1>3, <1>5, <2>1
<1>7. KeepWaiting
  BY <1>1 DEF KeepWaiting
<1>8. Identified'
  BY <1>1 DEF CallsInv, Identified
<1>9. AnswersMade'
  BY <1>1 DEF CallsInv, AnswersMade, HostAt
<1>10. CallsInv'
  BY <1>1, <1>5, <1>6, <1>7, <1>8, <1>9, LinesShift DEF CallsInv
<1>11. /\ Unhandled \in Seq(Caller)
       /\ IF Unhandled = <<>> THEN Unhandled' = Unhandled ELSE Unhandled' = Tail(Unhandled)
  BY <1>5, <1>7, <1>10, QueueShift
<1> QED
  BY <1>1, <1>10, <1>11, CallsSeen DEF CallsStep, Calls!Next, Calls!Lose, Calls!vars

\* A request takes effect: the first of the queue is answered.
LEMMA HandleStep ==
  ASSUME BridgeType, CallsInv, BridgeType', Handle
  PROVE  CallsInv' /\ CallsStep
<1> DEFINE line == host.line
<1>1. PICK a \in Answers(line.request, scheduler # "stopped") :
        /\ answered' = [i \in DOMAIN answered \cup {line.id} |->
                          IF i = line.id THEN a ELSE answered[i]]
        /\ shutdown' = (line.request.command = "shutdown" /\ a = "ok")
        /\ host' = [at |-> "answering", line |-> line]
  BY DEF Handle, HostMoves
<1>2. HostAt("handling") /\ UNCHANGED <<shell, call, nextID, stdin, stdout>>
  BY DEF Handle, shellVars
<1>3. line \in Line /\ a \in Answer
  <2>1. line \in Line
    BY DEF BridgeType, HostType
  <2> QED
    BY <2>1, AnswersType DEF Line
<1>4. /\ DOMAIN answered' = DOMAIN answered \cup {line.id}
      /\ answered'[line.id] = a
      /\ \A i \in DOMAIN answered \ {line.id} : answered'[i] = answered[i]
  BY <1>1
<1>5. ~HostAt("handling")'
  BY <1>1 DEF HostAt
<1>6. /\ Len(Lines) = Len(stdin) + 1 /\ Len(stdin) \in Nat /\ Lines[1] = line
      /\ \A i \in 1..Len(stdin) : Lines[i + 1] = stdin[i]
      /\ \A k \in 1..Len(Lines) : k \in DOMAIN Lines
  BY <1>2, LinesParts
<1> HIDE DEF line
<1>7. Lines' = stdin
  <2>1. (BridgeType => (~HostAt("handling") => Lines = stdin))'
    BY LinesParts, PTL
  <2> QED
    BY <1>2, <1>5, <2>1
<1>8. /\ Len(Lines)' = Len(Lines) - 1 /\ 1 <= Len(Lines)
      /\ \A k \in 1..Len(Lines)' : Lines'[k] = Lines[k + 1]
  BY <1>6, <1>7
<1>9. /\ line.id \notin DOMAIN answered
      /\ \A k \in DOMAIN Lines : Lines[k].id = line.id => k = 1
      /\ \A k \in DOMAIN Lines : Lines[k].id \notin DOMAIN answered
      /\ line = NoLine => ~shell /\ Len(Lines) = 1
      /\ line # NoLine => \E c \in Caller : Waits(c, line)
  <2>1. 1 \in DOMAIN Lines
    BY <1>6
  <2> QED
    BY <1>6, <2>1 DEF CallsInv, LinesWaitedFor
<1>10. \A k \in 1..Len(Lines)' : Lines'[k].id \notin DOMAIN answered'
  <2> SUFFICES ASSUME NEW k \in 1..Len(Lines)' PROVE Lines'[k].id \notin DOMAIN answered'
    OBVIOUS
  <2>1. k + 1 \in DOMAIN Lines /\ k + 1 # 1 /\ Lines'[k] = Lines[k + 1]
    BY <1>6, <1>8
  <2> QED
    BY <1>4, <1>9, <2>1
<1>11. KeepWaiting
  BY <1>2 DEF KeepWaiting
<1>12. line.id < nextID /\ (shell => line.id # NoID)
       /\ \A c \in Caller : call[c].at = "registered" => call[c].id # line.id
  <2>1. CASE line = NoLine
    <3>1. line.id = 0 /\ nextID \in Nat \ {0}
      BY <2>1 DEF NoLine, NoID, CallsInv, Identified, BridgeType, ShellType
    <3>2. \A c \in Caller : call[c].at = "registered" => call[c].id # 0
      BY <3>1 DEF CallsInv, Identified
    <3> QED
      BY <1>9, <2>1, <3>1, <3>2
  <2>2. CASE line # NoLine
    <3>1. PICK c \in Caller : call[c].at = "waiting" /\ call[c].id = line.id
      BY <1>9, <2>2 DEF Waits
    <3>2. line.id \in 1..(nextID - 1) /\ nextID \in Nat
      BY <3>1 DEF CallsInv, Identified, BridgeType, ShellType
    <3>3. \A d \in Caller : call[d].at = "registered" => call[d].id # line.id
      BY <3>1 DEF CallsInv, Identified
    <3> QED
      BY <3>2, <3>3 DEF NoID
  <2> QED
    BY <2>1, <2>2
<1>13. Identified'
  BY <1>2, <1>4, <1>12 DEF CallsInv, Identified
<1>14. AnswersMade'
  <2>1. HostAt("answering")' /\ host'.line.id \in DOMAIN answered' /\ host'.at = "answering"
    BY <1>1, <1>4 DEF HostAt
  <2>2. \A i \in DOMAIN stdout : /\ stdout[i].id \in DOMAIN answered'
                                 /\ stdout[i].answer = answered'[stdout[i].id]
    BY <1>4, <1>9 DEF CallsInv, AnswersMade
  <2> QED
    BY <1>2, <2>1, <2>2 DEF AnswersMade
<1>15. CallsInv'
  BY <1>2, <1>8, <1>10, <1>11, <1>13, <1>14, LinesShift DEF CallsInv
<1>16. /\ Unhandled \in Seq(Caller)
       /\ IF Unhandled = <<>> THEN Unhandled' = Unhandled ELSE Unhandled' = Tail(Unhandled)
       /\ Unhandled = <<>> <=> line = NoLine
  BY <1>6, <1>8, <1>11, <1>15, QueueShift
<1>17. ~shutdown
  BY <1>2 DEF CallsInv, AnswersMade, HostAt
<1>18. CASE line = NoLine
  <2>1. \A c \in Caller : call[c].at = "waiting" => call[c].id # line.id
    <3>1. \A c \in Caller : call[c].at = "waiting" => call[c].id # 0
      BY DEF CallsInv, Identified
    <3> QED
      BY <1>18, <3>1 DEF NoLine, NoID
  <2>2. \A c \in Caller : CallAs(c)' = CallAs(c)
    BY <1>2, <1>4, <2>1, CallSeen DEF CallAs
  <2>3. shutdown' = FALSE
    BY <1>1, <1>18 DEF NoLine, NoRequest
  <2>4. shutdown = FALSE
    BY <1>17 DEF BridgeType, HostType
  <2>5. UNCHANGED Calls!vars
    BY <1>16, <1>18, <2>2, <2>3, <2>4 DEF Calls!vars
  <2> QED
    BY <1>15, <2>5 DEF CallsStep
<1>19. CASE line # NoLine
  <2>1. Head(Unhandled) = Unhandled[1] /\ Len(Unhandled) \in Nat \ {0}
    BY <1>16, <1>19, EmptySeq
  <2>2. PICK c \in Caller :
          c = Head(Unhandled) /\ call[c].at = "waiting" /\ call[c].id = line.id
    BY <1>6, <2>1, Queue DEF Waits
  <2>3. CallAs(c) = [at |-> "asked"]
    BY <1>9, <2>2, CallSeen
  <2>4. CallAs(c)' = [at |-> "done", answer |-> a]
    <3>1. call' = call /\ call[c].id \in DOMAIN answered' /\ answered'[call[c].id] = a
      BY <1>2, <1>4, <2>2
    <3> QED
      BY <2>2, <3>1 DEF CallAs
  <2>5. \A d \in Caller : call[d].at = "waiting" /\ call[d].id = line.id => d = c
    BY <2>2 DEF CallsInv, Identified
  <2>6. \A d \in Caller \ {c} : CallAs(d)' = CallAs(d)
    BY <1>2, <1>4, <2>5, CallSeen DEF CallAs
  <2>7. [d \in Caller |-> CallAs(d)]'
          = [[d \in Caller |-> CallAs(d)] EXCEPT ![c] = Calls!Done(a)]
    <3> DEFINE was(d) == CallAs(d)
               is(d) == CallAs(d)'
    <3>1. \A d \in Caller : is(d) = IF d = c THEN Calls!Done(a) ELSE was(d)
      BY <2>4, <2>6 DEF Calls!Done
    <3> HIDE DEF was, is
    <3>2. [d \in Caller |-> is(d)]
            = [[d \in Caller |-> was(d)] EXCEPT ![c] = Calls!Done(a)]
      BY <3>1
    <3> QED
      BY <3>2 DEF was, is
  <2>8. shutdown' \in BOOLEAN
    BY DEF BridgeType, HostType
  <2>9. Unhandled # <<>> /\ Unhandled' = Tail(Unhandled)
    BY <1>16, <1>19
  <2>10. Calls!TakeEffect(a)
    BY <1>17, <2>2, <2>3, <2>7, <2>8, <2>9 DEF Calls!TakeEffect, Calls!Asked
  <2> QED
    BY <1>3, <1>15, <2>10 DEF CallsStep, Calls!Next
<1> QED
  BY <1>18, <1>19

\* An identifier is new to everybody when it is registered.
LEMMA RegisterStep ==
  ASSUME BridgeType, CallsInv, BridgeType', NEW c \in Caller, NEW request \in Request,
         Register(c, request)
  PROVE  CallsInv' /\ CallsStep
<1>1. /\ call[c].at = "idle" /\ shell /\ nextID' = nextID + 1
      /\ call' = [call EXCEPT
                    ![c] = [at |-> "registered", id |-> nextID, request |-> request]]
      /\ UNCHANGED <<shell, stdin, host, stdout, shutdown, answered>>
  BY DEF Register, Idle, hostVars
<1>2. /\ call'[c] = [at |-> "registered", id |-> nextID, request |-> request]
      /\ \A d \in Caller \ {c} : call'[d] = call[d]
      /\ nextID \in Nat \ {0}
  BY <1>1 DEF BridgeType, ShellType, CallsInv, Identified
<1>3. KeepWaiting
  BY <1>1, <1>2 DEF KeepWaiting
<1>4. Lines' = Lines
  BY <1>1 DEF Lines, HostAt
<1>5. Identified'
  <2>1. \A d \in Caller : call'[d].at \in {"registered", "waiting"} =>
          call'[d].id \in 1..(nextID' - 1) /\ (call'[d].id = nextID <=> d = c)
    BY <1>1, <1>2 DEF CallsInv, Identified
  <2>2. ASSUME NEW d \in Caller, NEW e \in Caller,
               call'[d].at \in {"registered", "waiting"},
               call'[e].at \in {"registered", "waiting"}, call'[d].id = call'[e].id
        PROVE  d = e
    <3>1. CASE d = c \/ e = c
      BY <1>2, <2>1, <2>2, <3>1
    <3>2. CASE d # c /\ e # c
      BY <1>2, <2>2, <3>2 DEF CallsInv, Identified
    <3> QED
      BY <3>1, <3>2
  <2>3. \A d \in Caller : call'[d].at = "registered" => call'[d].id \notin DOMAIN answered
    BY <1>2 DEF CallsInv, Identified
  <2>4. \A i \in DOMAIN answered : i < nextID'
    BY <1>1, <1>2 DEF CallsInv, Identified, BridgeType, HostType
  <2> QED
    BY <1>1, <1>2, <2>1, <2>2, <2>3, <2>4 DEF CallsInv, Identified
<1>6. AnswersMade'
  BY <1>1 DEF CallsInv, AnswersMade, HostAt
<1>7. CallsInv' /\ Unhandled' = Unhandled
  BY <1>1, <1>3, <1>4, <1>5, <1>6, LinesSame
<1>8. \A d \in Caller \ {c} : CallAs(d)' = CallAs(d)
  BY <1>1, <1>2 DEF CallAs
<1>9. CallAs(c)' = CallAs(c)
  <2>1. call'[c].at = "registered"
    BY <1>2
  <2> QED
    BY <1>1, <2>1 DEF CallAs
<1> QED
  BY <1>1, <1>7, <1>8, <1>9 DEF CallsStep, Calls!vars

\* A request joins the queue when its line is written.
LEMMA WriteStep ==
  ASSUME BridgeType, CallsInv, BridgeType', NEW c \in Caller, Write(c)
  PROVE  CallsInv' /\ CallsStep
<1>1. /\ call[c].at = "registered" /\ shell
      /\ UNCHANGED <<nextID, host, stdout, shutdown, answered>>
  BY DEF Write
<1>2. CASE HostAt("none")
  <2>1. UNCHANGED <<call, stdin>> /\ shell' = FALSE
    BY <1>2 DEF Write
  <2>2. Lines' = Lines
    BY <1>1, <2>1 DEF Lines, HostAt
  <2>3. AnswersMade'
    BY <1>1, <2>1 DEF CallsInv, AnswersMade, HostAt
  <2> QED
    BY <1>1, <2>1, <2>2, <2>3, QuietStep
<1>3. CASE ~HostAt("none")
  <2> DEFINE line == [id |-> call[c].id, request |-> call[c].request]
  <2>1. /\ call' = [call EXCEPT ![c] = [at |-> "waiting", id |-> call[c].id]]
        /\ stdin' = Append(stdin, line) /\ UNCHANGED shell
    BY <1>3 DEF Write
  <2>2. /\ call'[c] = [at |-> "waiting", id |-> call[c].id]
        /\ \A d \in Caller \ {c} : call'[d] = call[d]
    BY <2>1 DEF BridgeType, ShellType
  <2>3. line \in Line /\ call[c].id \in Nat \ {0} /\ call[c].id \notin DOMAIN answered
    <3>1. call[c] \in CallType
      BY DEF BridgeType, ShellType
    <3>2. call[c].request \in Request /\ call[c].id \in Nat
      BY <1>1, <3>1 DEF CallType, Idle
    <3>3. call[c].id # 0 /\ call[c].id \notin DOMAIN answered
      BY <1>1 DEF CallsInv, Identified
    <3> QED
      BY <3>2, <3>3 DEF Line
  <2>4. line # NoLine /\ line.id = call[c].id
    BY <2>3 DEF NoLine, NoID
  <2> HIDE DEF line
  <2>5. KeepWaiting
    BY <1>1, <2>2 DEF KeepWaiting
  <2>6. Len(Lines)' = Len(Lines) + 1 /\ Lines'[Len(Lines) + 1] = line
        /\ \A k \in 1..Len(Lines) : Lines'[k] = Lines[k]
    BY <1>1, <2>1, <2>3, LinesAppend
  <2>7. \A k \in 1..Len(Lines) : Lines[k].id # line.id
    <3> SUFFICES ASSUME NEW k \in 1..Len(Lines), Lines[k].id = line.id PROVE FALSE
      OBVIOUS
    <3>1. k \in DOMAIN Lines
      BY LinesParts
    <3>2. PICK d \in Caller : call[d].at = "waiting" /\ call[d].id = Lines[k].id
      BY <1>1, <3>1 DEF CallsInv, LinesWaitedFor, Waits
    <3>3. d = c
      BY <1>1, <2>4, <3>2 DEF CallsInv, Identified
    <3> QED
      BY <1>1, <3>2, <3>3
  <2>8. LinesWaitedFor'
    BY <1>1, <2>2, <2>3, <2>4, <2>5, <2>6, <2>7, LinesGrow
  <2>9. Identified'
    BY <1>1, <2>1, <2>2 DEF CallsInv, Identified
  <2>10. AnswersMade'
    BY <1>1 DEF CallsInv, AnswersMade, HostAt
  <2>11. CallsInv'
    BY <2>8, <2>9, <2>10 DEF CallsInv
  <2>12. Unhandled \in Seq(Caller) /\ Unhandled' = Append(Unhandled, c)
    BY <1>1, <2>2, <2>4, <2>5, <2>6, <2>11, QueueGrows
  <2>13. CallAs(c) = [at |-> "idle"] /\ CallAs(c)' = [at |-> "asked"]
    BY <1>1, <2>2, <2>3, CallSeen DEF CallAs
  <2>14. \A d \in Caller \ {c} : CallAs(d)' = CallAs(d)
    BY <1>1, <2>2 DEF CallAs
  <2>15. Calls!Ask(c)
    BY <1>1, <2>12, <2>13, <2>14 DEF Calls!Ask, Calls!Idle, Calls!Asked
  <2> QED
    BY <2>11, <2>15 DEF CallsStep, Calls!Next
<1> QED
  BY <1>2, <1>3

\* A line cut short is nobody's request.
LEMMA QuitStep ==
  ASSUME BridgeType, CallsInv, BridgeType', QuitShell
  PROVE  CallsInv' /\ CallsStep
<1>1. /\ shell /\ shell' = FALSE
      /\ UNCHANGED <<call, nextID, host, stdout, shutdown, answered>>
  BY DEF QuitShell
<1>2. AnswersMade'
  BY <1>1 DEF CallsInv, AnswersMade, HostAt
<1>3. CASE UNCHANGED stdin
  <2>1. Lines' = Lines
    BY <1>1, <1>3 DEF Lines, HostAt
  <2> QED
    BY <1>1, <1>2, <2>1, QuietStep
<1>4. CASE stdin' = Append(stdin, NoLine)
  <2>1. KeepWaiting
    BY <1>1 DEF KeepWaiting
  <2>2. Len(Lines)' = Len(Lines) + 1 /\ Lines'[Len(Lines) + 1] = NoLine
        /\ \A k \in 1..Len(Lines) : Lines'[k] = Lines[k]
    BY <1>1, <1>4, LineType, LinesAppend
  <2>3. \A k \in 1..Len(Lines) : Lines[k].id # NoLine.id
    <3> SUFFICES ASSUME NEW k \in 1..Len(Lines), Lines[k].id = NoLine.id PROVE FALSE
      OBVIOUS
    <3>1. k \in DOMAIN Lines
      BY LinesParts
    <3>2. PICK d \in Caller : call[d].at = "waiting" /\ call[d].id = 0
      BY <1>1, <3>1 DEF CallsInv, LinesWaitedFor, Waits, NoLine, NoID
    <3> QED
      BY <3>2 DEF CallsInv, Identified
  <2>4. NoLine.id \notin DOMAIN answered
    BY <1>1 DEF NoLine, CallsInv, Identified
  <2>5. LinesWaitedFor'
    BY <1>1, <2>1, <2>2, <2>3, <2>4, LinesGrow
  <2>6. Identified'
    BY <1>1 DEF CallsInv, Identified
  <2>7. CallsInv'
    BY <1>2, <2>5, <2>6 DEF CallsInv
  <2>8. Unhandled' = Unhandled
    BY <1>1, <2>1, <2>2, <2>7, QueueGrows
  <2> QED
    BY <1>1, <2>7, <2>8, CallsSeen DEF CallsStep, Calls!vars
<1> QED
  BY <1>3, <1>4 DEF QuitShell

\* The callers whose answers arrive whole in a chunk are told them.
LEMMA ReadTells ==
  ASSUME BridgeType, CallsInv, BridgeType', NEW n \in 1..Len(stdout), Read(n)
  PROVE  CallsInv' /\ CallsStep
<1> DEFINE chunk == SubSeq(stdout, 1, n)
           rest == SubSeq(stdout, n + 1, Len(stdout))
<1>1. Len(stdout) \in Nat /\ DOMAIN stdout = 1..Len(stdout)
      /\ \A i \in 1..Len(stdout) : stdout[i] \in Fragment
  BY LenProperties, ElementOfSeq DEF BridgeType, HostType
<1>2. /\ Len(chunk) = n /\ \A i \in 1..n : chunk[i] = stdout[i]
      /\ \A i \in DOMAIN rest : i + n \in DOMAIN stdout /\ rest[i] = stdout[i + n]
  <2>1. \A i \in 1..n : stdout[i] \in Fragment
    BY <1>1
  <2>2. \A i \in (n + 1)..Len(stdout) : stdout[i] \in Fragment
    BY <1>1
  <2>3. Len(chunk) = n /\ \A i \in 1..(n - 1 + 1) : chunk[i] = stdout[1 + i - 1]
    BY <1>1, <2>1, SubSeqProperties
  <2>4. /\ rest \in Seq(Fragment)
        /\ Len(rest) = IF n + 1 <= Len(stdout) THEN Len(stdout) - (n + 1) + 1 ELSE 0
        /\ \A i \in 1..(Len(stdout) - (n + 1) + 1) : rest[i] = stdout[n + 1 + i - 1]
    BY <1>1, <2>2, SubSeqProperties
  <2>5. DOMAIN rest = 1..Len(rest)
    BY <2>4, LenProperties
  <2> HIDE DEF chunk, rest
  <2>6. Len(rest) = Len(stdout) - n
    <3>1. n \in Nat /\ n <= Len(stdout) /\ Len(stdout) \in Nat
      BY <1>1
    <3>2. Len(rest) = IF n + 1 <= Len(stdout) THEN Len(stdout) - (n + 1) + 1 ELSE 0
      BY <2>4
    <3> QED
      BY <3>1, <3>2
  <2>7. \A i \in 1..n : chunk[i] = stdout[i]
    BY <1>1, <2>3
  <2>8. ASSUME NEW i \in DOMAIN rest
        PROVE  i + n \in DOMAIN stdout /\ rest[i] = stdout[i + n]
    <3>1. i \in 1..(Len(stdout) - n) /\ n \in Nat /\ Len(stdout) \in Nat
      BY <1>1, <2>5, <2>6
    <3>2. i \in 1..(Len(stdout) - (n + 1) + 1) /\ n + 1 + i - 1 = i + n
      BY <3>1
    <3>3. rest[i] = stdout[i + n]
      BY <2>4, <3>2
    <3> QED
      BY <1>1, <3>1, <3>3
  <2> QED
    BY <2>3, <2>7, <2>8
<1>3. PICK lines \in SUBSET Whole(chunk) :
        LET told == {l \in lines : l.id \in pending}
        IN  call' = Released(told)
  BY DEF Read
<1>4. stdout' = rest /\ UNCHANGED <<shell, nextID, stdin, host, shutdown, answered>>
  BY DEF Read
<1> HIDE DEF chunk, rest
<1>5. \A l \in lines : /\ l.id \in DOMAIN answered
                       /\ l.answer = answered[l.id]
  <2> SUFFICES ASSUME NEW l \in lines
               PROVE  l.id \in DOMAIN answered /\ l.answer = answered[l.id]
    OBVIOUS
  <2>1. PICK i \in 2..Len(chunk) : l = chunk[i]
    BY <1>3 DEF Whole
  <2>2. i \in DOMAIN stdout /\ l = stdout[i]
    BY <1>1, <1>2, <2>1
  <2> QED
    BY <2>2 DEF CallsInv, AnswersMade
<1> DEFINE told == {l \in lines : l.id \in pending}
           S == {c \in Caller : call[c].at = "waiting" /\ \E l \in told : l.id = call[c].id}
<1>6. \A c \in S : /\ call[c].id \in DOMAIN answered
                   /\ call'[c] = [at |-> "told", answer |-> answered[call[c].id]]
  <2> SUFFICES ASSUME NEW c \in S
               PROVE  /\ call[c].id \in DOMAIN answered
                      /\ call'[c] = [at |-> "told", answer |-> answered[call[c].id]]
    OBVIOUS
  <2> DEFINE l0 == CHOOSE l \in told : l.id = call[c].id
  <2>1. l0 \in told /\ l0.id = call[c].id
    OBVIOUS
  <2>2. call'[c] = [at |-> "told", answer |-> l0.answer]
    BY <1>3 DEF Released
  <2> HIDE DEF l0
  <2> QED
    BY <1>5, <2>1, <2>2
<1>7. \A c \in Caller \ S : call'[c] = call[c]
  BY <1>3 DEF Released
<1> HIDE DEF told, S
<1>8. S \subseteq Caller /\ \A c \in S : call[c].at = "waiting"
  BY DEF S
<1>9. KeepWaiting
  BY <1>6, <1>7 DEF KeepWaiting
<1>10. Lines' = Lines
  BY <1>4 DEF Lines, HostAt
<1>11. Identified'
  <2>1. \A c \in Caller : call'[c].at \in {"registered", "waiting"} => call'[c] = call[c]
    <3> SUFFICES ASSUME NEW c \in S PROVE call'[c].at = "told"
      BY <1>7
    <3>1. call'[c] = [at |-> "told", answer |-> answered[call[c].id]]
      BY <1>6
    <3> QED
      BY <3>1
  <2> QED
    BY <1>4, <2>1 DEF CallsInv, Identified
<1>12. AnswersMade'
  BY <1>2, <1>4 DEF CallsInv, AnswersMade, HostAt
<1>13. CallsInv' /\ Unhandled' = Unhandled
  BY <1>4, <1>9, <1>10, <1>11, <1>12, LinesSame
<1>14. \A c \in S : /\ CallAs(c) = [at |-> "done", answer |-> answered[call[c].id]]
                    /\ CallAs(c)' = [at |-> "told", answer |-> answered[call[c].id]]
  <2> SUFFICES ASSUME NEW c \in S
               PROVE  /\ CallAs(c) = [at |-> "done", answer |-> answered[call[c].id]]
                      /\ CallAs(c)' = [at |-> "told", answer |-> answered[call[c].id]]
    OBVIOUS
  <2>1. CallAs(c) = [at |-> "done", answer |-> answered[call[c].id]]
    BY <1>6, <1>8, CallSeen
  <2>2. call'[c].at = "told"
    <3>1. call'[c] = [at |-> "told", answer |-> answered[call[c].id]]
      BY <1>6
    <3> QED
      BY <3>1
  <2>3. CallAs(c)' = call'[c]
    BY <2>2 DEF CallAs
  <2> QED
    BY <1>6, <2>1, <2>3
<1>15. \A c \in Caller \ S : CallAs(c)' = CallAs(c)
  BY <1>4, <1>7 DEF CallAs
<1>16. CASE S = {}
  BY <1>4, <1>13, <1>15, <1>16 DEF CallsStep, Calls!vars
<1>17. CASE S # {}
  <2> DEFINE seen == [c \in Caller |-> CallAs(c)]
  <2>1. \A c \in S : seen[c].at = "done"
    BY <1>8, <1>14
  <2>2. seen' = [c \in Caller |-> IF c \in S THEN Calls!Told(seen[c].answer) ELSE seen[c]]
    BY <1>8, <1>14, <1>15 DEF Calls!Told
  <2>3. Calls!Tell(S)
    BY <1>4, <1>13, <1>17, <2>1, <2>2 DEF Calls!Tell
  <2> QED
    BY <1>8, <1>13, <2>3 DEF CallsStep, Calls!Next
<1> QED
  BY <1>16, <1>17
\* A caller leaves with its answer.
LEMMA ReturnStep ==
  ASSUME BridgeType, CallsInv, BridgeType', NEW c \in Caller, Return(c)
  PROVE  CallsInv' /\ CallsStep
<1>1. /\ call[c].at = "told" /\ call' = [call EXCEPT ![c] = Idle]
      /\ UNCHANGED <<shell, nextID, stdin, host, stdout, shutdown, answered>>
  BY DEF Return, hostVars
<1>2. call'[c] = Idle /\ \A d \in Caller \ {c} : call'[d] = call[d]
  BY <1>1 DEF BridgeType, ShellType
<1>3. KeepWaiting
  BY <1>1, <1>2 DEF KeepWaiting
<1>4. Lines' = Lines
  BY <1>1 DEF Lines, HostAt
<1>5. Identified'
  <2>1. \A d \in Caller : call'[d].at \in {"registered", "waiting"} => call'[d] = call[d]
    BY <1>2 DEF Idle
  <2> QED
    BY <1>1, <2>1 DEF CallsInv, Identified
<1>6. AnswersMade'
  BY <1>1 DEF CallsInv, AnswersMade, HostAt
<1>7. CallsInv' /\ Unhandled' = Unhandled
  BY <1>1, <1>3, <1>4, <1>5, <1>6, LinesSame
<1>8. CallAs(c).at = "told" /\ CallAs(c)' = [at |-> "idle"]
  BY <1>1, <1>2 DEF CallAs, Idle
<1>9. \A d \in Caller \ {c} : CallAs(d)' = CallAs(d)
  BY <1>1, <1>2 DEF CallAs
<1>10. Calls!Leave(c)
  BY <1>1, <1>7, <1>8, <1>9 DEF Calls!Leave, Calls!Idle
<1> QED
  BY <1>7, <1>10 DEF CallsStep, Calls!Next

\* No host has been asked anything.
Unasked ==
  /\ call = [c \in Caller |-> Idle]
  /\ stdin = <<>> /\ stdout = <<>> /\ ~HostAt("handling")
  /\ nextID = 1 /\ answered = NoAnswers /\ shutdown = FALSE

\* Then nothing is waiting to take effect.
LEMMA UnaskedCalls == BridgeType /\ Unasked => CallsInv /\ Calls!Init
<1> SUFFICES ASSUME BridgeType, Unasked PROVE CallsInv /\ Calls!Init
  OBVIOUS
<1>1. Lines = <<>> /\ Len(Lines) = 0 /\ DOMAIN Lines = {}
  <2>1. Lines = <<>> /\ DOMAIN Lines = 1..Len(Lines)
    BY LinesParts DEF Unasked
  <2> QED
    BY <2>1
<1>2. \A c \in Caller : call[c].at = "idle" /\ CallAs(c) = [at |-> "idle"]
  BY DEF Unasked, Idle, CallAs
<1>3. DOMAIN answered = {} /\ DOMAIN stdout = {}
  BY DEF Unasked, NoAnswers
<1>4. Identified
  BY <1>2, <1>3 DEF Unasked, Identified
<1>5. LinesWaitedFor
  BY <1>1 DEF LinesWaitedFor
<1>6. AnswersMade
  <2>1. ~HostAt("answering")
    BY <1>3 DEF BridgeType, AnswerMade
  <2> QED
    BY <1>3, <2>1 DEF Unasked, AnswersMade
<1>7. CallsInv
  BY <1>4, <1>5, <1>6 DEF CallsInv
<1>8. Unhandled = <<>>
  <2>1. /\ Unhandled \in Seq(Caller) /\ Len(Unhandled) \in Nat
        /\ 1 \in 1..Len(Unhandled) => 1 \in 1..Len(Lines)
    BY <1>7, Queue
  <2>2. Len(Unhandled) = 0
    BY <1>1, <2>1
  <2> QED
    BY <2>1, <2>2, EmptySeq
<1> QED
  BY <1>2, <1>7, <1>8 DEF Unasked, Calls!Init, Calls!Idle

\* A new host, for a shell that waits for nothing.
LEMMA StartStep ==
  ASSUME BridgeType, CallsInv, BridgeType', StartHost
  PROVE  CallsInv' /\ CallsStep
<1>1. /\ \A c \in Caller : call[c] = Idle
      /\ UNCHANGED call
      /\ host' = [at |-> "opening", line |-> NoLine]
      /\ nextID' = 1 /\ stdin' = <<>> /\ stdout' = <<>>
      /\ shutdown' = FALSE /\ answered' = NoAnswers
  BY DEF StartHost, HostMoves
<1>2. Unasked'
  BY <1>1 DEF Unasked, HostAt, BridgeType, ShellType
<1>3. (BridgeType /\ Unasked => CallsInv /\ Calls!Init)'
  BY UnaskedCalls, PTL
<1>4. CallsInv' /\ (Calls!Init)'
  BY <1>2, <1>3
<1>5. \A c \in Caller : CallAs(c) = [at |-> "idle"]
  BY <1>1 DEF CallAs, Idle
<1>6. Calls!Renew
  BY <1>4, <1>5 DEF Calls!Init, Calls!Renew, Calls!Idle
<1> QED
  BY <1>4, <1>6 DEF CallsStep, Calls!Next

\* The host takes a line from the pipe: it stays the first of the lines.
LEMMA ReadLineStep ==
  ASSUME BridgeType, CallsInv, BridgeType', ReadLine
  PROVE  CallsInv' /\ CallsStep
<1>1. /\ HostAt("serving") /\ stdin # <<>> /\ stdin' = Tail(stdin)
      /\ host' = [at |-> "handling", line |-> Head(stdin)]
      /\ UNCHANGED <<shell, call, nextID, stdout, shutdown, answered>>
  BY DEF ReadLine, HostMoves, shellVars
<1>2. /\ stdin \in Seq(Line) /\ Len(stdin) \in Nat \ {0} /\ Head(stdin) = stdin[1]
      /\ Len(Tail(stdin)) = Len(stdin) - 1
      /\ \A i \in 1..Len(Tail(stdin)) : Tail(stdin)[i] = stdin[i + 1]
  BY <1>1, EmptySeq, HeadTailProperties DEF BridgeType, HostType
<1>3. Lines = stdin
  BY <1>1, LinesParts DEF HostAt
<1>4. (BridgeType => /\ Lines \in Seq(Line)
                     /\ HostAt("handling") =>
                          /\ Len(Lines) = Len(stdin) + 1 /\ Lines[1] = host.line
                          /\ \A i \in 1..Len(stdin) : Lines[i + 1] = stdin[i])'
  BY LinesParts, PTL
<1>5. /\ Lines' \in Seq(Line)
      /\ Len(Lines)' = Len(Tail(stdin)) + 1 /\ Lines'[1] = stdin[1]
      /\ \A i \in 1..Len(Tail(stdin)) : Lines'[i + 1] = Tail(stdin)[i]
  BY <1>1, <1>2, <1>4 DEF HostAt
<1>6. Len(Lines') = Len(stdin)
  BY <1>2, <1>5
<1>7. \A k \in 1..Len(stdin) : Lines'[k] = stdin[k]
  <2> SUFFICES ASSUME NEW k \in 1..Len(stdin) PROVE Lines'[k] = stdin[k]
    OBVIOUS
  <2>1. CASE k = 1
    BY <1>5, <2>1
  <2>2. CASE k # 1
    <3>1. k - 1 \in 1..Len(Tail(stdin)) /\ (k - 1) + 1 = k
      BY <1>2, <2>2
    <3>2. Lines'[(k - 1) + 1] = stdin[(k - 1) + 1]
      BY <1>2, <1>5, <3>1
    <3> QED
      BY <3>1, <3>2
  <2> QED
    BY <2>1, <2>2
<1>8. Lines' = Lines
  BY <1>2, <1>3, <1>5, <1>6, <1>7, SeqEqual
<1>9. AnswersMade'
  BY <1>1 DEF CallsInv, AnswersMade, HostAt
<1> QED
  BY <1>1, <1>8, <1>9, QuietStep

\* What the host writes is the answer it has made.
LEMMA RespondStep ==
  ASSUME BridgeType, CallsInv, BridgeType', Respond
  PROVE  CallsInv' /\ CallsStep
<1>1. /\ HostAt("answering")
      /\ stdout' = IF shell THEN stdout \o Halves(host.line) ELSE stdout
      /\ host' = [at |-> IF shell /\ ~shutdown THEN "serving" ELSE "none", line |-> NoLine]
      /\ UNCHANGED <<shell, call, nextID, stdin, shutdown, answered>>
  BY DEF Respond, HostMoves, shellVars
<1>2. Lines' = Lines
  BY <1>1 DEF Lines, HostAt
<1>3. host.line \in Line /\ host.line.id \in DOMAIN answered
      /\ answered[host.line.id] \in Answer /\ stdout \in Seq(Fragment)
  BY <1>1 DEF CallsInv, AnswersMade, BridgeType, HostType
<1>4. \A i \in DOMAIN stdout' : /\ stdout'[i].id \in DOMAIN answered
                                /\ stdout'[i].answer = answered[stdout'[i].id]
  <2> DEFINE halves == Halves(host.line)
  <2>1. halves \in Seq(Fragment) /\ Len(halves) \in Nat /\ DOMAIN halves = 1..Len(halves)
    BY <1>3, HalvesType, LenProperties
  <2>2. \A i \in DOMAIN halves : /\ halves[i].id \in DOMAIN answered
                                 /\ halves[i].answer = answered[halves[i].id]
    BY <1>3 DEF Halves
  <2> HIDE DEF halves
  <2>3. \A i \in DOMAIN stdout : /\ stdout[i].id \in DOMAIN answered
                                 /\ stdout[i].answer = answered[stdout[i].id]
    BY DEF CallsInv, AnswersMade
  <2>4. Len(stdout) \in Nat /\ DOMAIN stdout = 1..Len(stdout)
    BY <1>3, LenProperties
  <2>5. ASSUME NEW i \in DOMAIN (stdout \o halves)
        PROVE  \/ i \in DOMAIN stdout /\ (stdout \o halves)[i] = stdout[i]
               \/ /\ i - Len(stdout) \in DOMAIN halves
                  /\ (stdout \o halves)[i] = halves[i - Len(stdout)]
    <3>1. /\ stdout \o halves \in Seq(Fragment)
          /\ Len(stdout \o halves) = Len(stdout) + Len(halves)
          /\ \A j \in 1..Len(stdout) + Len(halves) :
               (stdout \o halves)[j] = IF j <= Len(stdout) THEN stdout[j]
                                       ELSE halves[j - Len(stdout)]
      BY <1>3, <2>1, ConcatProperties
    <3>2. i \in 1..(Len(stdout) + Len(halves))
      BY <2>5, <3>1, LenProperties
    <3> QED
      BY <2>1, <2>4, <3>1, <3>2
  <2>6. \A i \in DOMAIN (stdout \o halves) :
          /\ (stdout \o halves)[i].id \in DOMAIN answered
          /\ (stdout \o halves)[i].answer = answered[(stdout \o halves)[i].id]
    BY <2>2, <2>3, <2>5
  <2>7. stdout' = stdout \o halves \/ stdout' = stdout
    BY <1>1 DEF halves
  <2> QED
    BY <2>3, <2>6, <2>7
<1>5. AnswersMade'
  BY <1>1, <1>4 DEF AnswersMade, HostAt
<1> QED
  BY <1>1, <1>2, <1>5, QuietStep

\* The host goes.
LEMMA GoneStep ==
  ASSUME BridgeType, CallsInv, BridgeType', HostGone
  PROVE  CallsInv' /\ CallsStep
<1>1. CASE HostAt("handling")
  BY <1>1, LoseStep
<1>2. CASE ~HostAt("handling")
  <2>1. /\ UNCHANGED <<shell, call, nextID, answered, stdin, stdout, shutdown>>
        /\ host' = [at |-> "none", line |-> NoLine]
    BY DEF HostGone, HostMoves, shellVars
  <2>2. Lines' = Lines
    BY <1>2, <2>1 DEF Lines, HostAt
  <2>3. AnswersMade'
    BY <2>1 DEF CallsInv, AnswersMade, HostAt
  <2> QED
    BY <2>1, <2>2, <2>3, QuietStep
<1> QED
  BY <1>1, <1>2

\* Steps that neither shell nor host sees.
LEMMA UnseenStep ==
  ASSUME BridgeType, CallsInv, BridgeType',
         \/ HostServes
         \/ UNCHANGED <<shellVars, stdin, host, stdout, shutdown, answered>>
  PROVE  CallsInv' /\ CallsStep
<1>1. /\ UNCHANGED <<shell, call, nextID, answered, stdin, stdout, shutdown>>
      /\ \/ UNCHANGED host
         \/ HostAt("opening") /\ host' = [at |-> "serving", line |-> NoLine]
  BY DEF HostServes, HostMoves, shellVars
<1>2. Lines' = Lines
  BY <1>1 DEF Lines, HostAt
<1>3. AnswersMade'
  BY <1>1 DEF CallsInv, AnswersMade, HostAt
<1> QED
  BY <1>1, <1>2, <1>3, QuietStep

\* Every step of shell, host and other programs is one of RemoteCalls.
LEMMA CallsNext ==
  ASSUME BridgeType, CallsInv, BridgeType', [Next]_vars
  PROVE  CallsInv' /\ CallsStep
<1>1. CASE StartHost
  BY <1>1, StartStep
<1>2. CASE QuitShell
  BY <1>2, QuitStep
<1>3. ASSUME NEW c \in Caller,
             (\E request \in Request : Register(c, request)) \/ Write(c) \/ Return(c)
      PROVE  CallsInv' /\ CallsStep
  BY <1>3, RegisterStep, WriteStep, ReturnStep
<1>4. ASSUME NEW n \in 1..Len(stdout), Read(n)
      PROVE  CallsInv' /\ CallsStep
  BY <1>4, ReadTells
<1>5. CASE HostStep
  <2>1. CASE HostServes
    BY <2>1, UnseenStep
  <2>2. CASE HostCannotOpen \/ EndOfInput
    BY <2>2, GoneStep DEF HostCannotOpen, EndOfInput
  <2>3. CASE ReadLine
    BY <2>3, ReadLineStep
  <2>4. CASE Handle
    BY <2>4, HandleStep
  <2>5. CASE Respond
    BY <2>5, RespondStep
  <2> QED
    BY <1>5, <2>1, <2>2, <2>3, <2>4, <2>5 DEF HostStep
<1>6. CASE HostDies
  BY <1>6, GoneStep DEF HostDies
<1>7. CASE HostOpens \/ RunBegins \/ RunEnds \/ \E p \in Process : OtherProgram(p)
  <2>1. UNCHANGED <<shellVars, stdin, host, stdout, shutdown, answered>>
    BY <1>7 DEF HostOpens, RunBegins, RunEnds, OtherProgram, hostVars
  <2> QED
    BY <2>1, UnseenStep
<1>8. CASE UNCHANGED vars
  <2>1. UNCHANGED <<shellVars, stdin, host, stdout, shutdown, answered>>
    BY <1>8 DEF vars, hostVars
  <2> QED
    BY <2>1, UnseenStep
<1> QED
  BY <1>1, <1>2, <1>3, <1>4, <1>5, <1>6, <1>7, <1>8 DEF Next

\* For any number of callers, hosts and calls, whatever dies and wherever the
\* chunks end: requests take effect in the order they were written, each at most
\* once, and a caller is told the answer to its own request and no other.
THEOREM BridgeCallsKept == Spec => CallsKept
<1>1. Init => CallsInv /\ Calls!Init
  <2> SUFFICES ASSUME Init PROVE CallsInv /\ Calls!Init
    OBVIOUS
  <2>1. Unasked
    BY DEF Init, Unasked, HostAt
  <2> QED
    BY <2>1, InitType, UnaskedCalls
<1>2. BridgeType /\ CallsInv /\ BridgeType' /\ [Next]_vars => CallsInv' /\ CallsStep
  BY CallsNext
<1>3. CallsStep => [Calls!Next]_(Calls!vars)
  BY DEF CallsStep
<1>4. Spec => []BridgeType
  BY InitType, BridgeKeepsType, PTL DEF Spec
<1>5. Spec => Calls!Init /\ [][Calls!Next]_(Calls!vars)
  BY <1>1, <1>2, <1>3, <1>4, PTL DEF Spec
<1> QED
  BY <1>5 DEF CallsKept, Calls!Spec
=============================================================================
