------------------------------ MODULE Consent ------------------------------
(***************************************************************************)
(* Discovery, consent and connections (ADR 0007): the discovered_sources   *)
(* and connections tables of crates/schomburg-store, the operations of     *)
(* crates/schomburg-agent on them, and collection as far as it obeys them. *)
(*                                                                         *)
(* Each operation reads a row, decides, and writes in a later statement,   *)
(* with no transaction around the two; processes interleave and die        *)
(* between statements.  Every action is one statement.                     *)
(***************************************************************************)
CONSTANTS
  Process,
  Source,       \* candidates a discovery may find
  ConnectionId  \* bound: the identifiers unique_suffix may produce

VARIABLES
  sources,      \* the status of each discovered source
  connections,  \* the connections stored, by identifier
  call          \* the operation each process is executing

vars == <<sources, connections, call>>

SourceStatus == {"absent", "awaiting", "connected", "declined"}
ConnectionStatus == {"enabled", "paused", "disconnected"}
Connection == [source : Source, status : ConnectionStatus, revoked : BOOLEAN]

Idle == [op |-> "idle"]
Call == {Idle}
          \cup [op : {"claim", "insert", "decline"}, source : Source]
          \cup [op : {"set"}, id : ConnectionId, status : ConnectionStatus]
          \cup [op : {"collect"}, todo : SUBSET ConnectionId]

TypeOK ==
  /\ sources \in [Source -> SourceStatus]
  /\ \E S \in SUBSET ConnectionId : connections \in [S -> Connection]
  /\ call \in [Process -> Call]

Init ==
  /\ sources = [s \in Source |-> "absent"]
  /\ connections = [c \in {} |-> {}]
  /\ call = [p \in Process |-> Idle]

-----------------------------------------------------------------------------

Begin(p, c) ==
  /\ call[p] = Idle
  /\ call' = [call EXCEPT ![p] = c]
  /\ UNCHANGED <<sources, connections>>

At(p, op) == call[p].op = op
Becomes(p, c) == call' = [call EXCEPT ![p] = c]

\* Mutant: the upsert writes the status of the candidate as well.
DiscoverAfresh(s) ==
  /\ sources' = [sources EXCEPT ![s] = "awaiting"]
  /\ UNCHANGED <<connections, call>>

\* upsert_discovered_source: what is known already keeps its status.
Discover(s) ==
  /\ sources' = [sources EXCEPT ![s] = IF @ = "absent" THEN "awaiting" ELSE @]
  /\ UNCHANGED <<connections, call>>

\* Mutant: only a declined source is refused.
ApprovableAgain(s) == sources[s] \in {"awaiting", "connected"}

\* approve_source reads the source: it has not been decided on.
Approvable(s) == sources[s] = "awaiting"

Approve(p, s) ==
  /\ Approvable(s)
  /\ Begin(p, [op |-> "claim", source |-> s])

\* ... marks it connected, whatever it has become since,
ClaimSource(p) ==
  /\ At(p, "claim")
  /\ sources' = [sources EXCEPT ![call[p].source] = "connected"]
  /\ Becomes(p, [call[p] EXCEPT !.op = "insert"])
  /\ UNCHANGED connections

\* Mutant: INSERT OR REPLACE, under an identifier that may be in use.
InsertConnectionReplacing(p) ==
  /\ At(p, "insert")
  /\ \E c \in ConnectionId :
       connections' = [d \in DOMAIN connections \cup {c} |->
         IF d = c THEN [source |-> call[p].source, status |-> "enabled",
                        revoked |-> FALSE]
         ELSE connections[d]]
  /\ Becomes(p, Idle)
  /\ UNCHANGED sources

\* ... and inserts a connection under an identifier of its own.
InsertConnection(p) ==
  /\ At(p, "insert")
  /\ \E c \in ConnectionId \ DOMAIN connections :
       connections' = [d \in DOMAIN connections \cup {c} |->
         IF d = c THEN [source |-> call[p].source, status |-> "enabled",
                        revoked |-> FALSE]
         ELSE connections[d]]
  /\ Becomes(p, Idle)
  /\ UNCHANGED sources

\* decline_source: the source must exist, and nothing else.
Decline(p, s) ==
  /\ sources[s] # "absent"
  /\ Begin(p, [op |-> "decline", source |-> s])

\* Mutant: a declined source is forgotten.
DeclineSourceForgotten(p) ==
  /\ At(p, "decline")
  /\ sources' = [sources EXCEPT ![call[p].source] = "forgotten"]
  /\ Becomes(p, Idle)
  /\ UNCHANGED connections

DeclineSource(p) ==
  /\ At(p, "decline")
  /\ sources' = [sources EXCEPT ![call[p].source] = "declined"]
  /\ Becomes(p, Idle)
  /\ UNCHANGED connections

\* Mutant: any change of status is a transition.
AnyTransition(from, to) == from # to

\* set_connection_status: pause, resume or disconnect.
ValidTransition(from, to) ==
  \/ from = "enabled" /\ to \in {"paused", "disconnected"}
  \/ from = "paused" /\ to \in {"enabled", "disconnected"}

SetConnectionStatus(p, c, status) ==
  /\ c \in DOMAIN connections
  /\ ValidTransition(connections[c].status, status)
  /\ Begin(p, [op |-> "set", id |-> c, status |-> status])

UpdateConnection(p) ==
  /\ At(p, "set")
  /\ connections' = [connections EXCEPT ![call[p].id].status = call[p].status,
       ![call[p].id].revoked = @ \/ call[p].status = "disconnected"]
  /\ Becomes(p, Idle)
  /\ UNCHANGED sources

\* collect_once: the connections are listed once, and the enabled among them
\* collected from one after another.
EnabledNow == {c \in DOMAIN connections : connections[c].status = "enabled"}

\* Mutant: every connection is collected from.
CollectAll(p) ==
  /\ DOMAIN connections # {}
  /\ Begin(p, [op |-> "collect", todo |-> DOMAIN connections])

Collect(p) ==
  /\ EnabledNow # {}
  /\ Begin(p, [op |-> "collect", todo |-> EnabledNow])

CollectConnection(p) ==
  /\ At(p, "collect")
  /\ \E c \in call[p].todo :
       Becomes(p, IF call[p].todo = {c} THEN Idle
                  ELSE [call[p] EXCEPT !.todo = @ \ {c}])
  /\ UNCHANGED <<sources, connections>>

\* The process dies, or a statement fails, and the rest is never executed.
Crash(p) ==
  /\ call[p] # Idle
  /\ Becomes(p, Idle)
  /\ UNCHANGED <<sources, connections>>

Next ==
  \/ \E s \in Source : Discover(s)
  \/ \E p \in Process :
       \/ \E s \in Source : Approve(p, s) \/ Decline(p, s)
       \/ \E c \in ConnectionId, status \in ConnectionStatus :
            SetConnectionStatus(p, c, status)
       \/ Collect(p)
       \/ ClaimSource(p) \/ InsertConnection(p) \/ DeclineSource(p)
       \/ UpdateConnection(p) \/ CollectConnection(p)
       \/ Crash(p)

Spec == Init /\ [][Next]_vars

-----------------------------------------------------------------------------

\* Rediscovery resets no decision, and no operation forgets one: a source that
\* was decided on stays decided on, whatever processes race.
DecisionsPersist ==
  [][\A s \in Source : sources[s] \in {"connected", "declined"}
                         => sources'[s] \in {"connected", "declined"}]_vars

\* The evidence that consent was withdrawn is never erased.
RevocationKept ==
  [][\A c \in DOMAIN connections :
       connections[c].revoked => connections'[c].revoked]_vars

\* One process at a time, crashes included: a source has one connection at
\* most, so that its evidence has one switch.
OneConnectionPerSource ==
  \A c, d \in DOMAIN connections :
    connections[c].source = connections[d].source => c = d

\* One process at a time: a connection that was disconnected stays so.
DisconnectIsFinal ==
  [][\A c \in DOMAIN connections :
       connections[c].status = "disconnected"
         => connections'[c].status = "disconnected"]_vars

\* One process at a time: what a collection has still to collect from is
\* enabled, though it was listed before the first of it was collected.
CollectsOnlyEnabled ==
  \A p \in Process : At(p, "collect") => call[p].todo \subseteq EnabledNow

\* What the documents say and the code does not do.  A run finds the violation
\* of the first; README.md tells the steps that violate the other.

\* "Approval and decline are persisted": a source marked connected has a
\* connection, or is being given one.
ApprovalComplete ==
  \A s \in Source : sources[s] = "connected" =>
    \/ \E c \in DOMAIN connections : connections[c].source = s
    \/ \E p \in Process : At(p, "insert") /\ call[p].source = s

\* "A user must explicitly approve a candidate before the agent imports": no
\* collection is made from a source whose status is declined.
DeclinedNotCollected ==
  \A p \in Process : At(p, "collect") =>
    \A c \in call[p].todo : sources[connections[c].source] # "declined"
=============================================================================
