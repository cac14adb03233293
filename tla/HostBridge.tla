----------------------------- MODULE HostBridge -----------------------------
(***************************************************************************)
(* A shell and its host: HostClient of apps/schomburg-macos, the loop of   *)
(* crates/schomburg-host and the two pipes between them, from the opening  *)
(* of the database (Migrations) to the end of either process.              *)
(*                                                                         *)
(* A caller registers an identifier, writes a line and waits, with no      *)
(* timeout, on a semaphore.  The host reads a line, handles it, writes one *)
(* line back and only then reads the next.  What it writes reaches the     *)
(* shell in chunks that need not end where lines end, and HostClient keeps *)
(* nothing from one chunk for the next.                                    *)
(***************************************************************************)
EXTENDS Integers, Sequences, FiniteSets

CONSTANTS
  Process,     \* see Migrations: the host and other programs
  Files,       \* see Migrations
  Host,        \* the host's process
  Caller,      \* threads of the shell
  Request,     \* what they send: [command, fault]
  MaxCalls,    \* bound: calls made to one host
  MaxHosts,    \* bound: hosts started
  MaxRuns      \* bound: scheduled runs

ASSUME HostAssumption == Host \in Process

VARIABLES
  installed, table, lock, opener,  \* see Migrations
  shell,     \* whether the shell is alive
  call,      \* what each caller is doing
  nextID,    \* HostClient.nextID
  pending,   \* HostClient.pending: the identifiers waited for
  torn,      \* history: the identifiers whose answer did not arrive in one piece
  stdin,     \* lines written and not read
  host,      \* where the host's loop stands, and with which line
  stdout,    \* halves of lines written and not read
  shutdown,  \* Host.shutdown
  scheduler, \* "stopped", "waiting", or "updating" with the mutex held
  answered,  \* history: the answer made to each identifier
  spent      \* how much of each bound has been used

shellVars == <<shell, call, nextID, pending, torn>>
hostVars == <<stdin, host, stdout, shutdown, scheduler, answered>>
databaseVars == <<installed, table, lock, opener>>
vars == <<databaseVars, shellVars, hostVars, spent>>

Database == INSTANCE Migrations

NoID == 0   \* the null identifier of an answer to a line that is no request
NoRequest == [command |-> "", fault |-> "json"]

Idle == [at |-> "idle"]
Line == [id : Nat, request : Request \cup {NoRequest}]
NoLine == [id |-> NoID, request |-> NoRequest]
Half == {"head", "tail"}

-----------------------------------------------------------------------------
(* What the host answers.                                                  *)

NeedsSource == {"connect_source", "decline_source"}
NeedsConnection ==
  {"pause_connection", "resume_connection", "disconnect_connection"}
NeedsParams == NeedsSource \cup NeedsConnection
  \cup {"discover", "set_monitoring", "set_record_folder", "set_schedule"}
Command == NeedsParams \cup
  {"status", "update_record", "start_scheduler", "stop_scheduler",
   "scheduler_status", "list_sources", "list_connections", "get_schedule",
   "shutdown"}

\* The commands that take the updating mutex or wait for the loop to end.
WaitsForUpdate == {"status", "scheduler_status", "update_record", "stop_scheduler"}

\* The errors each service call may return, by what map_error tells apart.
ServiceErrors(command, running) ==
  CASE command = "update_record" -> {"no Record Folder", "Agent"}
    [] command = "discover" -> {"Agent"}
    [] command \in NeedsSource -> {"UnknownSource", "Agent"}
    [] command \in NeedsConnection ->
         {"UnknownConnection", "invalid connection transition", "Agent"}
    [] command = "set_monitoring" -> {"Database", "Agent"}
    [] command = "set_schedule" -> {"Database", "Agent"}
    [] command = "start_scheduler" ->
         IF running THEN {"SchedulerAlreadyRunning"} ELSE {}
    [] command = "stop_scheduler" ->
         IF running THEN {} ELSE {"SchedulerNotRunning"}
    [] command = "shutdown" -> {}
    [] OTHER -> {"Database"}

ErrorCode(error) ==
  CASE error = "SchedulerAlreadyRunning" -> "scheduler_already_running"
    [] error = "SchedulerNotRunning" -> "scheduler_not_running"
    [] error = "UnknownSource" -> "unknown_source"
    [] error = "UnknownConnection" -> "unknown_connection"
    [] error = "Database" -> "service_unavailable"
    [] error = "no Record Folder" -> "missing_record_folder"
    [] error = "invalid connection transition" -> "invalid_transition"
    [] OTHER -> "operation_failed"

\* The lifecycle calls fail exactly when the scheduler is not as they want it.
Lifecycle == {"start_scheduler", "stop_scheduler"}

\* handle_line and handle: the line is parsed, the version compared, the
\* command looked up and its parameters read before the service is called.
\* set_schedule reads the row before it looks at the rest.
Answers(request, running) ==
  LET command == request.command
      errors == {ErrorCode(e) : e \in ServiceErrors(command, running)}
  IN  IF request.fault = "json" THEN {"invalid_json"}
      ELSE IF request.fault = "version" THEN {"invalid_request"}
      ELSE IF command \notin Command THEN {"unsupported_command"}
      ELSE IF request.fault = "params" /\ command \in NeedsParams
      THEN {"invalid_request"}
             \cup (IF command = "set_schedule" THEN {"service_unavailable"} ELSE {})
      ELSE IF command \in Lifecycle /\ errors # {} THEN errors
      ELSE errors \cup {"ok"}

Answer ==
  UNION {Answers(r, b) : r \in Request \cup {NoRequest}, b \in BOOLEAN}

-----------------------------------------------------------------------------
(* The state.                                                              *)

Fragment == [id : Nat, half : Half, answer : Answer]

TypeOK ==
  /\ Database!TypeOK
  /\ shell \in BOOLEAN
  /\ call \in [Caller ->
       {Idle} \cup [at : {"registered"}, id : Nat, request : Request]
         \cup [at : {"waiting"}, id : Nat] \cup [at : {"told"}, answer : Answer]]
  /\ nextID \in Nat
  /\ pending \subseteq Nat /\ torn \subseteq Nat
  /\ stdin \in Seq(Line)
  /\ host \in [at : {"none", "opening", "serving", "handling", "answering"}, line : Line]
  /\ stdout \in Seq(Fragment)
  /\ shutdown \in BOOLEAN
  /\ scheduler \in {"stopped", "waiting", "updating"}
  /\ DOMAIN answered \subseteq Nat
  /\ \A i \in DOMAIN answered : answered[i] \in Answer
  /\ spent \in [hosts : Nat, runs : Nat]

NoAnswers == [i \in {} |-> "ok"]
HostAt(stage) == host.at = stage
HostMoves(stage, line) == host' = [at |-> stage, line |-> line]
Spend(what, max) == spent[what] < max /\ spent' = [spent EXCEPT ![what] = @ + 1]

Init ==
  /\ Database!Init
  /\ shell = TRUE
  /\ call = [c \in Caller |-> Idle]
  /\ nextID = 1 /\ pending = {} /\ torn = {}
  /\ stdin = <<>> /\ stdout = <<>>
  /\ host = [at |-> "none", line |-> NoLine]
  /\ shutdown = FALSE /\ scheduler = "stopped"
  /\ answered = NoAnswers
  /\ spent = [hosts |-> 0, runs |-> 0]

-----------------------------------------------------------------------------
(* The shell.                                                              *)

\* AppModel.start: a new HostClient with pipes and a process of its own.  It
\* runs where the calls are made, so none is under way; the process of the
\* client it replaces is terminated.
StartHost ==
  /\ shell
  /\ \A c \in Caller : call[c] = Idle
  /\ opener[Host].at \in {"closed", "failed"}
  /\ Spend("hosts", MaxHosts)
  /\ Database!BeginOpen(Host)
  /\ HostMoves("opening", NoLine)
  /\ nextID' = 1 /\ pending' = {} /\ torn' = {} /\ stdin' = <<>> /\ stdout' = <<>>
  /\ shutdown' = FALSE /\ scheduler' = "stopped" /\ answered' = NoAnswers
  /\ UNCHANGED <<shell, call>>

\* send: the identifier and the waiter, under the lock.
Register(c, request) ==
  /\ shell /\ spent.hosts > 0
  /\ call[c] = Idle
  /\ nextID <= MaxCalls
  /\ call' = [call EXCEPT ![c] = [at |-> "registered", id |-> nextID, request |-> request]]
  /\ nextID' = nextID + 1
  /\ pending' = pending \cup {nextID}
  /\ UNCHANGED <<databaseVars, shell, torn, hostVars, spent>>

\* send: the line, and the wait.  Writing to a pipe nobody reads ends the shell.
Write(c) ==
  /\ shell
  /\ call[c].at = "registered"
  /\ IF HostAt("none")
     THEN shell' = FALSE /\ UNCHANGED <<call, stdin>>
     ELSE /\ call' = [call EXCEPT ![c] = [at |-> "waiting", id |-> call[c].id]]
          /\ stdin' = Append(stdin, [id |-> call[c].id, request |-> call[c].request])
          /\ UNCHANGED shell
  /\ UNCHANGED <<databaseVars, nextID, pending, torn, host, stdout, shutdown, scheduler,
                 answered, spent>>

\* The lines of which a chunk has both halves.
Whole(chunk) ==
  {chunk[i] : i \in {j \in 2..Len(chunk) : chunk[j].half = "tail"}}

\* Mutant: answers are taken to come in the order of the identifiers.
ReleasedInOrder(lines) ==
  [c \in Caller |->
     IF lines # {} /\ call[c].at = "waiting"
          /\ \A i \in pending : call[c].id <= i
     THEN [at |-> "told", answer |-> (CHOOSE l \in lines : TRUE).answer]
     ELSE call[c]]

\* The callers released by the lines that arrived, each with its own answer.
Released(lines) ==
  [c \in Caller |->
     IF call[c].at = "waiting" /\ \E l \in lines : l.id = call[c].id
     THEN [at |-> "told", answer |-> (CHOOSE l \in lines : l.id = call[c].id).answer]
     ELSE call[c]]

\* read: every line that lies whole in the chunk and answers an identifier
\* waited for releases its caller; the rest of the chunk is forgotten.  A
\* chunk cut inside a character is no UTF-8, and forgotten altogether.
Read(n) ==
  /\ shell
  /\ n \in 1..Len(stdout)
  /\ LET chunk == SubSeq(stdout, 1, n)
         cut == chunk[1].half = "tail" \/ chunk[n].half = "head"
     IN  \E lines \in {Whole(chunk)} \cup (IF cut THEN {{}} ELSE {}) :
           LET told == {l \in lines : l.id \in pending}
           IN  /\ call' = Released(told)
               /\ pending' = pending \ {l.id : l \in told}
               /\ torn' = torn \cup ({chunk[i].id : i \in 1..n} \ {l.id : l \in lines})
  /\ stdout' = SubSeq(stdout, n + 1, Len(stdout))
  /\ UNCHANGED <<databaseVars, shell, nextID, stdin, host, shutdown, scheduler,
                 answered, spent>>

\* send returns the answer, or throws the error it carries.
Return(c) ==
  /\ shell
  /\ call[c].at = "told"
  /\ call' = [call EXCEPT ![c] = Idle]
  /\ UNCHANGED <<databaseVars, shell, nextID, pending, torn, hostVars, spent>>

\* The user quits, or the shell dies, perhaps in the middle of a line: the host
\* reads what there is of it as a line.
QuitShell ==
  /\ shell
  /\ shell' = FALSE
  /\ \/ UNCHANGED stdin
     \/ /\ \E c \in Caller : call[c].at = "registered"
        /\ stdin' = Append(stdin, NoLine)
  /\ UNCHANGED <<databaseVars, call, nextID, pending, torn, host, stdout, shutdown, scheduler,
                 answered, spent>>

-----------------------------------------------------------------------------
(* The host.                                                               *)

\* Its process is gone, and with it the scheduler, whatever it was doing, and
\* a transaction under way.
HostGone ==
  /\ Database!End(Host)
  /\ HostMoves("none", NoLine)
  /\ scheduler' = "stopped"
  /\ UNCHANGED <<shellVars, stdin, stdout, shutdown, answered, spent>>

HostOpens ==
  /\ Database!OpenStep(Host)
  /\ UNCHANGED <<shellVars, hostVars, spent>>

\* main: the store is open, or the host exits.
HostServes ==
  /\ HostAt("opening")
  /\ opener[Host].at = "open"
  /\ HostMoves("serving", NoLine)
  /\ UNCHANGED <<databaseVars, shellVars, stdin, stdout, shutdown, scheduler,
                 answered, spent>>

HostCannotOpen ==
  /\ HostAt("opening")
  /\ opener[Host].at = "failed"
  /\ HostGone

ReadLine ==
  /\ HostAt("serving")
  /\ stdin # <<>>
  /\ HostMoves("handling", Head(stdin))
  /\ stdin' = Tail(stdin)
  /\ UNCHANGED <<databaseVars, shellVars, stdout, shutdown, scheduler, answered, spent>>

SchedulerAfter(request, answer) ==
  CASE request.command = "start_scheduler" /\ answer = "ok" -> "waiting"
    [] request.command = "stop_scheduler" /\ answer = "ok" -> "stopped"
    [] OTHER -> scheduler

\* handle_line: a call that needs the updating mutex, or joins the loop, first
\* waits for a scheduled run to end.
Handle ==
  /\ HostAt("handling")
  /\ LET line == host.line
         calls == line.request.fault = "none"
     IN  /\ calls /\ line.request.command \in WaitsForUpdate => scheduler # "updating"
         /\ \E a \in Answers(line.request, scheduler # "stopped") :
              /\ answered' = [i \in DOMAIN answered \cup {line.id} |->
                                IF i = line.id THEN a ELSE answered[i]]
              /\ scheduler' = SchedulerAfter(line.request, a)
              /\ shutdown' = (line.request.command = "shutdown" /\ a = "ok")
              /\ HostMoves("answering", line)
  /\ UNCHANGED <<databaseVars, shellVars, stdin, stdout, spent>>

\* Mutant: a request that is refused is reported on stderr only.
HalvesUnlessRefused(line) ==
  IF answered[line.id] # "ok" THEN <<>>
  ELSE [k \in 1..2 |-> [id |-> line.id, half |-> IF k = 1 THEN "head" ELSE "tail",
                        answer |-> answered[line.id]]]

\* The two halves of the line that answers.
Halves(line) ==
  [k \in 1..2 |-> [id |-> line.id, half |-> IF k = 1 THEN "head" ELSE "tail",
                   answer |-> answered[line.id]]]

\* writeln and flush.  A write that fails, or a shutdown, ends the loop.
Respond ==
  /\ HostAt("answering")
  /\ stdout' = IF shell THEN stdout \o Halves(host.line) ELSE stdout
  /\ IF shell /\ ~shutdown
     THEN HostMoves("serving", NoLine) /\ UNCHANGED <<databaseVars, scheduler>>
     ELSE /\ Database!End(Host)
          /\ HostMoves("none", NoLine)
          /\ scheduler' = "stopped"
  /\ UNCHANGED <<shellVars, stdin, shutdown, answered, spent>>

EndOfInput ==
  /\ HostAt("serving")
  /\ stdin = <<>> /\ ~shell
  /\ HostGone

HostDies ==
  /\ ~HostAt("none")
  /\ HostGone

\* The scheduler thread takes the updating mutex for a run, and ends it.
RunBegins ==
  /\ scheduler = "waiting"
  /\ Spend("runs", MaxRuns)
  /\ scheduler' = "updating"
  /\ UNCHANGED <<databaseVars, shellVars, stdin, host, stdout, shutdown, answered>>

RunEnds ==
  /\ scheduler = "updating"
  /\ scheduler' = "waiting"
  /\ UNCHANGED <<databaseVars, shellVars, stdin, host, stdout, shutdown, answered, spent>>

HostStep ==
  \/ HostServes \/ HostCannotOpen
  \/ ReadLine \/ Handle \/ Respond \/ EndOfInput

\* Another program opens the database, migrates it, uses it or dies.
OtherProgram(p) ==
  /\ p # Host
  /\ \/ Database!BeginOpen(p) \/ Database!OpenStep(p) \/ Database!End(p)
     \/ Database!Use(p)
  /\ UNCHANGED <<shellVars, hostVars, spent>>

Next ==
  \/ StartHost \/ QuitShell
  \/ \E c \in Caller :
       \/ \E request \in Request : Register(c, request)
       \/ Write(c) \/ Return(c)
  \/ \E n \in 1..Len(stdout) : Read(n)
  \/ HostOpens \/ HostStep \/ HostDies
  \/ RunBegins \/ RunEnds
  \/ \E p \in Process : OtherProgram(p)

Spec == Init /\ [][Next]_vars

\* Both programs are scheduled, and a scheduled run ends.  Nobody has to start
\* a host, make a call or close anything.
Fairness ==
  /\ WF_vars(HostOpens) /\ WF_vars(HostStep) /\ WF_vars(RunEnds)
  /\ \A c \in Caller : WF_vars(Write(c))
  /\ WF_vars(\E n \in 1..Len(stdout) : Read(n))

FairSpec == Spec /\ Fairness

-----------------------------------------------------------------------------

\* The guarantee of Migrations holds for the host among the other programs:
\* a host that answers has every table.
SchemaWhole ==
  /\ Database!SchemaWhole
  /\ host.at \in {"serving", "handling", "answering"} => installed = Database!Version

OpeningKeepsData == Database!OpeningKeepsData

\* What has been written to the host and not been handled.
Lines == (IF HostAt("handling") THEN <<host.line>> ELSE <<>>) \o stdin

Waits(c, line) == call[c].at = "waiting" /\ call[c].id = line.id

\* The bridge keeps what RemoteCalls promises a shell: the lines waiting to be
\* handled are the requests yet to take effect, in the order they were written;
\* a line cut short is none, and the last.
Unhandled ==
  [k \in {i \in DOMAIN Lines : Lines[i] # NoLine} |->
     IF \E c \in Caller : Waits(c, Lines[k])
     THEN CHOOSE c \in Caller : Waits(c, Lines[k])
     ELSE NoID]

CallAs(c) ==
  IF call[c].at \in {"idle", "registered"} THEN [at |-> "idle"]
  ELSE IF call[c].at = "told" THEN call[c]
  ELSE IF call[c].id \in DOMAIN answered
  THEN [at |-> "done", answer |-> answered[call[c].id]]
  ELSE [at |-> "asked"]

Calls == INSTANCE RemoteCalls WITH
  call <- [c \in Caller |-> CallAs(c)], queue <- Unhandled, closed <- shutdown

CallsKept == Calls!Spec

\* Why a caller may wait for ever: the shell is gone; the host is, and has left
\* no answer; or the answer was torn between two chunks.
Unanswerable(c) ==
  \/ ~shell
  \/ HostAt("none") /\ \A i \in DOMAIN stdout : stdout[i].id # call[c].id
  \/ call[c].id \in torn

\* Everybody else who waits is released: behind other callers' requests, behind
\* a scheduled run that holds the updating mutex, and although the host has gone
\* since it answered.
Answered ==
  \A c \in Caller :
    call[c].at = "waiting" ~> (call[c].at # "waiting" \/ Unanswerable(c))
=============================================================================
