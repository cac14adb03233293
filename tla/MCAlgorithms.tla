---------------------------- MODULE MCAlgorithms ----------------------------
(***************************************************************************)
(* The algorithms of the system, each against a reference definition.      *)
(*                                                                         *)
(* One family of behaviours walks the clock over two weeks for every set   *)
(* of weekdays and every time of day.  The others are single states, one   *)
(* for each input: a row and what is wrong with it, a column of bytes, a   *)
(* tree of directories, a history of commits, a command line.              *)
(***************************************************************************)
EXTENDS ScheduleWalk, StoredRows, GitDiscovery, Collection, CommandLine

CONSTANTS
  Epoch,    \* the Unix epoch, on the walk's clock
  Longest   \* how many commits a history has at most

VARIABLE
  input   \* what is given to the algorithm: [of: the family, ...]

vars == <<walkVars, input>>

Of(family) == input.of = family

-----------------------------------------------------------------------------
(* Rows: every table, every code, and each way a column may be bad.        *)

Times == {-1, 0, 4}
Optional == {Null, <<-1>>}
Text == {Null, <<"text">>}
Metadata == {[k \in {} |-> ""], [k \in {"a", "b"} |-> k]}
SomeCounts ==
  {[c \in Counts |-> 0], [c \in Counts |-> CountLimit - 1],
   [c \in Counts |-> IF c = "failed" THEN CountLimit \div 2 ELSE 1]}

Values(table) ==
  CASE table = "events" ->
         [id : {"id"}, occurred_at : Times, captured_at : Times, connector_id : {"connector"},
          source_reference : {"reference"}, event_kind : {"kind"}, payload_bytes : {"payload"},
          payload_media_type : Text, metadata : Metadata, schema_version : {"version"}]
    [] table = "annotations" ->
         [id : {"id"}, event_id : {"event"}, field : {"field"}, value_kind : ValueKindCode,
          value_text : {"value"}, assignment_source : AssignmentCode, assigned_at : Times,
          supersedes : Text, schema_version : {"version"}]
    [] table = "sources" ->
         [id : {"id"}, connector_id : {"connector"}, source_identity : {"identity"},
          display_name : {"name"}, local_reference : Text, first_discovered : Times,
          last_seen : Times, status : DiscoveryCode, metadata : Metadata,
          configuration : {"configuration"}]
    [] table = "connections" ->
         [id : {"id"}, source_id : {"source"}, connector_id : {"connector"},
          status : ConnectionCode, policy : PolicyCode, approved_at : Times,
          revoked_at : Optional, configuration : {"configuration"},
          last_attempt : Optional, last_success : Optional, last_error : Text]
    [] table = "configuration" ->
         {c \in [monitoring : MonitoringCode, record_folder : Text,
                 schedule_kind : ScheduleCode, schedule_days : {0, 65}, local_hour : {7},
                 local_minute : {30}, last_attempt : Optional, last_success : {<<0>>},
                 next_run : {<<4>>}, last_error : Text, counts : SomeCounts,
                 state : StateCode] :
            c.schedule_kind # "selected" => c.schedule_days = 0}
    [] table = "status" ->
         [last_attempt : Optional, last_success : {<<0>>}, last_error : Text,
          counts : SomeCounts, state : StateCode, last_reconciled_local_date : Text,
          next_scheduled_run : Optional]

Write(table, value) ==
  CASE table = "events" -> EventRow(value)
    [] table = "annotations" -> AnnotationRow(value)
    [] table = "sources" -> SourceRow(value)
    [] table = "connections" -> ConnectionRow(value)
    [] table = "configuration" -> ConfigurationRow(value)
    [] table = "status" -> StatusRow(value)

ReadBack(table, row) ==
  CASE table = "events" -> EventOf(row)
    [] table = "annotations" -> AnnotationOf(row)
    [] table = "sources" -> SourceOf(row)
    [] table = "connections" -> ConnectionOf(row)
    [] table = "configuration" -> ConfigurationOf(row)
    [] table = "status" -> StatusOf(row)

Coded == {"value_kind", "assignment_source", "status", "policy", "monitoring",
          "schedule_kind", "state"}
Timed == {"occurred_at", "captured_at", "assigned_at", "first_discovered", "last_seen",
          "approved_at", "revoked_at", "last_attempt", "last_success", "next_run",
          "next_scheduled_run"}

\* What a row of the table may hold that this release does not write.
Faults(table) ==
  LET columns == DOMAIN (CHOOSE v \in Values(table) : TRUE)
  IN  {[column |-> c, holds |-> "unknown"] : c \in columns \cap Coded}
        \cup {[column |-> c, holds |-> <<1>>] : c \in columns \cap Timed}
        \cup {[column |-> c, holds |-> NotJson] : c \in columns \cap {"metadata"}}
NoFault == [column |-> "none", holds |-> ""]

RowInputs ==
  UNION {[of : {"row"}, table : {t}, value : Values(t), fault : Faults(t) \cup {NoFault}] :
           t \in {"events", "annotations", "sources", "connections", "configuration",
                  "status"}}
AttemptInputs ==
  [of : {"attempt"}, value : Values("connections"), at : {4}, success : BOOLEAN, error : Text]

Byte == 0..(Base - 1)
ColumnInputs ==
  LET length == 1 + SecondBytes + NanoBytes
  IN  [of : {"column"}, bytes : UNION {[1..k -> Byte] : k \in (length - 1)..length}]

DayInputs ==
  [of : {"days"},
   items : UNION {[1..k -> {DayNames[d] : d \in {1, 2, 6, 7}} \cup {"daily", "weekdays", ""}] :
                    k \in 1..3}]

-----------------------------------------------------------------------------
(* Trees, histories, command lines.                                        *)

TreeInputs ==
  [of : {"tree"},
   tree : [parent : {f \in [Entry -> Node] : \A e \in Entry : f[e] < e},
           kind : {k \in [Node -> EntryKind] : k[Top] \in {"directory", "file", "locked"}}],
   roots : {{Top}, {1}, {Top, 1}}]

Stamp == <<"5", "z">>
Person(name, email, stamp) == name \o <<Open>> \o email \o <<Close>> \o stamp
Committer == Person(<<"c">>, <<"m">>, Stamp)

\* A commit with what its author line says, and whether a reader can know it.
Names == {<<"n">>, <<"n", Open, "x">>, <<"n", Close, "x">>}
Authors ==
  {[text |-> Person(p.name, p.email, Stamp), known |-> TRUE, name |-> p.name, email |-> p.email] :
     p \in [name : Names, email : {<<"m">>, <<>>}]}
  \cup {[text |-> t, known |-> FALSE, name |-> <<>>, email |-> <<>>] :
          t \in {<<"n">> \o Stamp, <<"n", Open, "m">>}
                  \cup {Person(<<"n">>, <<"m">>, s) :
                          s \in {<<>>, <<"5">>, <<"x", "z">>, <<"5", "z", "x">>}}}

Header(key, value) == [key |-> key, value |-> value]
Whole == [author |-> CHOOSE a \in Authors : a.known, committed |-> TRUE,
          reached |-> TRUE, readable |-> TRUE,
          utf8 |-> TRUE, separated |-> TRUE, message |-> <<"subject", "body">>]
Drafts ==
  {[Whole EXCEPT !.author = a] : a \in Authors}
  \cup {[Whole EXCEPT ![flaw] = FALSE] : 
         flaw \in {"committed", "reached", "readable", "utf8", "separated"}}
  \cup {[Whole EXCEPT !.message = <<>>]}

Raw(draft, parents) ==
  [headers |-> <<Header("tree", <<"t">>)>>
     \o [i \in DOMAIN parents |-> Header("parent", <<parents[i]>>)]
     \o <<Header("author", draft.author.text)>>
     \o (IF draft.committed THEN <<Header("committer", Committer)>> ELSE <<>>),
   utf8 |-> draft.utf8, separated |-> draft.separated, message |-> draft.message]

\* The history of the drafts, each the parent of the next.
History(drafts) ==
  [i \in DOMAIN drafts |->
     [hash |-> i, reached |-> drafts[i].reached, readable |-> drafts[i].readable,
      raw |-> Raw(drafts[i], IF i = 1 THEN <<>> ELSE <<i - 1>>)]]

Repository == [reference |-> "reference", name |-> "name"]
Capable(id, capabilities) == [id |-> id, capabilities |-> capabilities]

CollectionInputs ==
  [of : {"collection"}, drafts : UNION {[1..k -> Drafts] : k \in 0..Longest},
   connector : {GitConnector, "another"},
   registered : {"nothing", "the connector", "another version"},
   storedBefore : BOOLEAN, failsAt : 0..Longest]

\* A command line: options given with a value, in some order; perhaps one
\* twice, one without its value, or a word among them.
Given(command) ==
  {"db"} \cup
  CASE command = "schedule" -> {"time", "days"}
    [] command = "record" -> {"folder", "date"}
    [] command = "record-folder" -> {"folder"}
    [] command = "import" -> {"repo"}
    [] command = "discover" -> {"root"}
    [] OTHER -> {"folder"}
Heads ==
  {<<c, <<>>>> : c \in Bare \cup {"import", "connect", "unheard-of"}}
  \cup {<<c, <<Token(w)>>>> : c \in Identified, w \in {"id", Empty}}
  \cup UNION {{<<c, <<Token(w)>>>> : w \in Words(c) \cup {"bad"}} :
                c \in {"import", "record", "record-folder", "schedule", "monitoring",
                       "reconcile", "scheduler"}}
Absent == "absent"
Pairs(names, given) ==
  LET Upto[S \in SUBSET names] ==
        IF S = {} THEN <<>>
        ELSE LET n == CHOOSE m \in S : TRUE
             IN  (IF given[n] = Absent THEN <<>> ELSE <<Flag(n), Token(given[n])>>)
                   \o Upto[S \ {n}]
  IN  Upto[names]
Shaped(tokens, shape) ==
  CASE shape = "plain" -> tokens
    [] shape = "twice" -> IF tokens = <<>> THEN tokens ELSE tokens \o SubSeq(tokens, 1, 2)
    [] shape = "cut" -> SubSeq(tokens, 1, Len(tokens) - 1)
    [] shape = "word" -> <<Token("v")>> \o tokens
    [] shape = "switches" -> <<Flag("raw"), Flag("force")>> \o tokens
    [] shape = "raw" -> tokens \o <<Flag("raw")>>
    [] shape = "force" -> <<Flag("force")>> \o tokens
    [] shape = "dashes" -> [i \in DOMAIN tokens |-> [tokens[i] EXCEPT !.dashes = 2 * @]]
CommandLines(command, words) ==
  {words \o Shaped(Pairs(Given(command), g), s) :
     g \in [Given(command) -> {Absent, "v", Unparsable, Empty}],
     s \in {"plain", "twice", "cut", "word", "switches", "raw", "force", "dashes"}}
CommandInputs ==
  UNION {[of : {"command"}, command : {h[1]}, arguments : CommandLines(h[1], h[2])] :
           h \in Heads}

-----------------------------------------------------------------------------

Init ==
  \/ WalkInit /\ input = [of |-> "walk"]
  \/ /\ now = Horizon /\ days = {} /\ time = 0
     /\ \/ input \in RowInputs \/ input \in AttemptInputs
        \/ input \in ColumnInputs \/ input \in DayInputs
        \/ input \in TreeInputs \/ input \in CollectionInputs \/ input \in CommandInputs

Next == Tick /\ UNCHANGED input

Spec == Init /\ [][Next]_vars

Now == now - Epoch

-----------------------------------------------------------------------------

\* The byte order of encoded timestamps, by which the database sorts events and
\* sources, is the order of time, on both sides of the epoch and across it.
ListedInTimeOrder ==
  [][BytesLess(EncodeTimestamp(Now), EncodeTimestamp(Now'))]_vars

\* What is read of the row that the input stores and damages.
ReadOfInput ==
  LET written == Write(input.table, input.value)
      c == input.fault.column
      row == IF c = "none" THEN written ELSE [written EXCEPT ![c] = input.fault.holds]
  IN  ReadBack(input.table, row)

\* The columns of which the store makes something whatever they hold.
Interpreted == {"monitoring", "state"}

\* What the store writes it reads back as it was; a collection's outcome
\* changes only what it is about; what it cannot read it reports, in every column
\* but those it interprets.
RowReadBack ==
  /\ input.fault.column = "none" => ReadOfInput = {input.value}
  /\ input.fault.column \notin Interpreted \cup {"none"} => ReadOfInput = {}

AttemptReadBack ==
  LET row == ConnectionResult(ConnectionRow(input.value), input.at, input.success, input.error)
  IN  ConnectionOf(row) =
        {[input.value EXCEPT !.last_attempt = <<input.at>>, !.last_error = input.error,
                             !.last_success = IF input.success THEN <<input.at>> ELSE @]}

\* No two byte strings that are read stand for one instant, but for the epoch.
ColumnReadBack ==
  \A t \in DecodeTimestamp(input.bytes) :
    EncodeTimestamp(t) = input.bytes \/ input.bytes = NegativeZero

\* The days a user names are the days the loop finds eligible once the schedule
\* has been to the database and back.
DaysReadBack ==
  LET value == CHOOSE c \in Values("configuration") : TRUE
      parsed == ParseSchedule(input.items)
      Named(d) == \E i \in DOMAIN input.items :
        \/ input.items[i] \in {"daily", DayNames[d + 1]}
        \/ input.items[i] = "weekdays" /\ d < 5
  IN  \A s \in parsed :
        \A c \in ConfigurationOf(ConfigurationRow(
                   [value EXCEPT !.schedule_kind = s.kind, !.schedule_days = s.days])) :
          DaysOf(c.schedule_kind, c.schedule_days) = {d \in Weekday : Named(d)}

RowsReadBack ==
  /\ Of("row") => RowReadBack
  /\ Of("attempt") => AttemptReadBack
  /\ Of("column") => ColumnReadBack
  /\ Of("days") => DaysReadBack
  /\ Of("walk") => DecodeTimestamp(EncodeTimestamp(Now)) = {Now}

\* "Malformed or unsupported stored representations return explicit errors rather
\* than being repaired or interpreted by the store": what the code does not keep
\* of an unknown switch or state, as README.md shows.
UnsupportedReported ==
  Of("row") => (input.fault.column # "none" => ReadOfInput = {})

\* A scan finds every repository it should, and nothing inside one, below a
\* link, in build output or deeper than the limit, or reports that it could not
\* look everywhere.
RepositoriesFound ==
  Of("tree") =>
    LET tree == input.tree
        due == {e \in Entry : tree.kind[e] = "repository"
                                /\ \E r \in input.roots : Reached(tree, r, e)}
    IN  DiscoverRoots(tree, input.roots) =
          IF \E r \in input.roots : Hindered(tree, r) THEN {} ELSE {due}

\* A collection stores every commit up to the first it cannot, and its counts
\* and the engine's say so; each event stored has one entry in the record, with
\* the author's own name and the message's first line, or the word that it
\* cannot be presented.
EvidenceAccountedFor ==
  Of("collection") =>
    LET history == History(input.drafts)
        descriptor == Capable(input.connector, "imports")
        registry == CASE input.registered = "nothing" -> [id \in {} |-> descriptor]
                      [] input.registered = "the connector" ->
                           Register([id \in {} |-> descriptor], descriptor)
                      [] input.registered = "another version" ->
                           Register([id \in {input.connector} |-> Capable(id, "other")], descriptor)
        EventOfCommit(i) == EventForCommit(Repository, history[i])
        stored == IF input.storedBefore /\ history # <<>> THEN EventOfCommit(1) ELSE {}
        result == Collect(registry, descriptor, stored, Repository, history, input.failsAt)
        stops == {i \in DOMAIN history : ~history[i].reached \/ ~history[i].readable
                                           \/ i = input.failsAt
                                           \/ input.connector # GitConnector}
        last == IF stops = {} THEN Len(history) ELSE FirstOf(stops) - 1
        new == (UNION {EventOfCommit(i) : i \in 1..last}) \ stored
        Entries(e) == {t \in Timeline({GitConnector}, result.stored) : t.event = e.id}
        Shows(e, draft) ==
          LET known == draft.author.known /\ draft.committed /\ draft.utf8 /\ draft.separated
          IN  /\ \E t \in Entries(e) : Entries(e) = {t} /\ t.error # known
              /\ known => \A t \in Entries(e) :
                   /\ t.source = Repository.name
                   /\ t.title = IF draft.message = <<>> THEN "" ELSE draft.message[1]
              /\ known => \E c \in ParseCommit(e) :
                   c.author.name = draft.author.name /\ c.author.email = draft.author.email
    IN  IF input.registered # "the connector" THEN result = None
        ELSE /\ result.stored = stored \cup new
             /\ result.error = (stops # {})
             /\ result.accepted = Cardinality(new)
             /\ result.report.imported = Cardinality(new)
             /\ result.report.duplicates = last - Cardinality(new)
             /\ result.report.rejected + result.report.failed =
                  IF stops # {} /\ history[FirstOf(stops)].reached THEN 1 ELSE 0
             /\ \A e \in result.stored : Shows(e, input.drafts[e.id[2]])

\* A command refused for the way it is written has at most opened the database:
\* no setting, decision, evidence or record has changed, and no directory has
\* been made.
RefusedCommandsChangeNothing ==
  Of("command") =>
    LET outcome == Outcome(input.command, input.arguments)
    IN  outcome.refused => outcome.effects \subseteq {"open"}
=============================================================================
