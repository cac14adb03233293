---------------------------- MODULE CommandLine ----------------------------
(***************************************************************************)
(* The commands of crates/schomburg-cli: what each asks of its arguments,  *)
(* in which order it looks at them, and what it has done by then.          *)
(*                                                                         *)
(* A command is a script of checks and effects that stops at the first     *)
(* check that fails.  What an effect does is the business of the other     *)
(* modules; here it matters that it has begun.  A token of the command     *)
(* line is a text behind so many "--".                                     *)
(***************************************************************************)
EXTENDS Naturals, Sequences

Token(text) == [dashes |-> 0, text |-> text]
Flag(name) == [dashes |-> 1, text |-> name]

\* Texts that are no time, no list of days, no date.
Unparsable == "bad"
Empty == ""

-----------------------------------------------------------------------------
(* Options.                                                                *)

\* parse_options: pairs of a flag allowed here, given once, and a value, which
\* may be anything.
ParseOptions(tokens, allowed) ==
  LET flags == {i \in DOMAIN tokens : i % 2 = 1}
      acceptable ==
        /\ Len(tokens) % 2 = 0
        /\ \A i \in flags :
             /\ tokens[i].dashes > 0 /\ tokens[i].text \in allowed
             /\ \A j \in flags : tokens[i].text = tokens[j].text => i = j
  IN  IF ~acceptable THEN {}
      ELSE {[name \in {tokens[i].text : i \in flags} |->
               tokens[(CHOOSE i \in flags : tokens[i].text = name) + 1].text]}

-----------------------------------------------------------------------------
(* Scripts.                                                                *)

\* A switch without a value, allowed once, wherever it stands.
Switch(name) == <<[do |-> "switch", of |-> name]>>
Options(names) == <<[do |-> "options", of |-> names]>>
Required(name) == <<[do |-> "required", of |-> name]>>
Parsed(name) == <<[do |-> "parsed", of |-> name]>>
Effect(what) == <<[do |-> "effect", of |-> what]>>
Usage == <<[do |-> "usage", of |-> ""]>>

\* The database is opened: created and migrated if need be.
OpenDatabase == Required("db") \o Effect("open")
OnDatabase == Options({"db"}) \o OpenDatabase

\* The words a command goes on with.
Words(command) ==
  CASE command = "import" -> {"git"}
    [] command = "record" -> {"generate", "open"}
    [] command = "record-folder" -> {"set"}
    [] command = "schedule" -> {"set", "show"}
    [] command = "monitoring" -> {"on", "off"}
    [] command = "reconcile" -> {"status"}
    [] command = "scheduler" -> {"status", "start"}
    [] OTHER -> {}

\* The commands that go on with an identifier, and those with neither.
OnConnection == {"pause", "resume", "disconnect"}
Identified == {"event", "connect", "decline"} \cup OnConnection
Bare == {"init", "sources", "connections", "events", "discover", "collect", "update-record"}

InitScript ==
  Options({"db"}) \o Required("db") \o Effect("directories") \o Effect("open")

ImportScript ==
  Options({"repo", "db"}) \o Required("repo") \o OpenDatabase \o Effect("evidence")

EventsScript == Switch("raw") \o OnDatabase
EventScript(id) ==
  IF id.dashes > 0 \/ id.text = Empty THEN Usage ELSE EventsScript

UpdateRecordScript == Switch("force") \o OnDatabase \o Effect("update")

GenerateScript ==
  Options({"db", "folder", "date"}) \o OpenDatabase \o Required("folder")
    \o Parsed("date") \o Effect("records")

\* Mutant: the time is saved before the days are looked at.
SetScheduleScriptEager ==
  Options({"time", "days", "db"}) \o OpenDatabase
    \o Required("time") \o Parsed("time") \o Effect("configuration")
    \o Required("days") \o Parsed("days") \o Effect("configuration")

SetScheduleScript ==
  Options({"time", "days", "db"}) \o OpenDatabase
    \o Required("time") \o Parsed("time")
    \o Required("days") \o Parsed("days") \o Effect("configuration")

BareScript(command) ==
  CASE command = "init" -> InitScript
    [] command \in {"sources", "connections"} -> OnDatabase
    [] command = "events" -> EventsScript
    [] command = "discover" ->
         Options({"root", "db"}) \o OpenDatabase \o Required("root") \o Effect("sources")
    [] command = "collect" -> OnDatabase \o Effect("evidence")
    [] command = "update-record" -> UpdateRecordScript

IdentifiedScript(command, id) ==
  IF command = "event" THEN EventScript(id) ELSE OnDatabase \o Effect("decision")

WordScript(command, word) ==
  CASE command = "import" -> ImportScript
    [] command = "record-folder" ->
         Options({"folder", "db"}) \o Required("folder") \o OpenDatabase
           \o Effect("configuration")
    [] command = "monitoring" -> OnDatabase \o Effect("configuration")
    [] command = "schedule" -> IF word = "set" THEN SetScheduleScript ELSE OnDatabase
    [] command = "reconcile" -> OnDatabase
    [] command = "scheduler" ->
         IF word = "start" THEN OnDatabase \o Effect("scheduler") ELSE OnDatabase
    [] command = "record" ->
         IF word = "generate" THEN GenerateScript
         ELSE Options({"folder"}) \o Required("folder") \o Effect("folder shown")

Script(command, arguments) ==
  IF command \in Bare THEN BareScript(command)
  ELSE IF arguments = <<>> THEN Usage
  ELSE IF command \in Identified THEN IdentifiedScript(command, arguments[1])
  ELSE IF arguments[1].dashes > 0 \/ arguments[1].text \notin Words(command) THEN Usage
  ELSE WordScript(command, arguments[1].text)

-----------------------------------------------------------------------------
(* Execution.                                                              *)

Begun(tokens) == [tokens |-> tokens, options |-> [n \in {} |-> ""], effects |-> {},
                  refused |-> FALSE]

\* The command line without a switch.
Without(tokens, switch) == SelectSeq(tokens, LAMBDA t : t # switch)

Execute(run, step) ==
  LET Check(passes) == [run EXCEPT !.refused = ~passes]
      parsed == ParseOptions(run.tokens, step.of)
      given == {i \in DOMAIN run.tokens : run.tokens[i] = Flag(step.of)}
  IN  CASE step.do = "switch" ->
             [run EXCEPT !.tokens = Without(@, Flag(step.of)),
                         !.refused = \E i, j \in given : i # j]
        [] step.do = "options" ->
             IF parsed = {} THEN Check(FALSE)
             ELSE [run EXCEPT !.options = CHOOSE o \in parsed : TRUE]
        [] step.do = "required" ->
             Check(step.of \in DOMAIN run.options /\ run.options[step.of] # Empty)
        [] step.do = "parsed" -> Check(step.of \in DOMAIN run.options => run.options[step.of] # Unparsable)
        [] step.do = "effect" -> [run EXCEPT !.effects = @ \cup {step.of}]
        [] step.do = "usage" -> Check(FALSE)

\* execute.
Outcome(command, arguments) ==
  LET script == Script(command, arguments)
      tokens == IF command \in Bare \/ arguments = <<>> THEN arguments ELSE Tail(arguments)
      after[i \in 0..Len(script)] ==
        IF i = 0 THEN Begun(tokens)
        ELSE IF after[i - 1].refused THEN after[i - 1]
        ELSE Execute(after[i - 1], script[i])
  IN  after[Len(script)]
=============================================================================
