---------------------------- MODULE ConsentProofs ----------------------------
(***************************************************************************)
(* Theorems about Consent: what holds for any number of processes that     *)
(* interleave between statements, and what a process on its own keeps,     *)
(* whatever it is asked for and wherever it dies.                          *)
(***************************************************************************)
EXTENDS Consent, TLAPS

-----------------------------------------------------------------------------
(* Any number of processes. *)

\* The initial tables are typed.
LEMMA InitTyped == Init => TypeOK
<1> SUFFICES ASSUME Init PROVE TypeOK
  OBVIOUS
<1>1. connections \in [{} -> Connection]
  BY DEF Init
<1>2. Idle \in Call
  BY DEF Call
<1> QED
  BY <1>1, <1>2 DEF Init, TypeOK, SourceStatus

\* The shape of a call whose operation is known.
LEMMA CallShape ==
  ASSUME TypeOK, NEW p \in Process
  PROVE  /\ call[p].op \in {"claim", "insert", "decline"} =>
              call[p] \in [op : {"claim", "insert", "decline"}, source : Source]
         /\ At(p, "set") =>
              call[p] \in [op : {"set"}, id : ConnectionId,
                           status : ConnectionStatus]
         /\ At(p, "collect") =>
              call[p] \in [op : {"collect"}, todo : SUBSET ConnectionId]
<1>1. call[p] \in Call
  BY DEF TypeOK
<1>2. CASE call[p] = Idle
  BY <1>2 DEF Idle, At
<1>3. CASE call[p] \in [op : {"claim", "insert", "decline"}, source : Source]
  BY <1>3 DEF At
<1>4. CASE call[p] \in [op : {"set"}, id : ConnectionId,
                        status : ConnectionStatus]
  BY <1>4 DEF At
<1>5. CASE call[p] \in [op : {"collect"}, todo : SUBSET ConnectionId]
  BY <1>5 DEF At
<1> QED
  BY <1>1, <1>2, <1>3, <1>4, <1>5 DEF Call

\* Every step, of whatever process, keeps the types.
LEMMA StepTyped == TypeOK /\ [Next]_vars => TypeOK'
<1> SUFFICES ASSUME TypeOK, [Next]_vars PROVE TypeOK'
  OBVIOUS
<1> USE DEF TypeOK
<1>0. PICK S \in SUBSET ConnectionId : connections \in [S -> Connection]
  OBVIOUS
<1>b. ASSUME NEW p \in Process, NEW c \in Call, Begin(p, c) PROVE TypeOK'
  BY <1>b DEF Begin
<1>1. ASSUME NEW s \in Source, Discover(s) PROVE TypeOK'
  BY <1>1 DEF Discover, SourceStatus
<1>2. ASSUME NEW p \in Process, NEW s \in Source, Approve(p, s) PROVE TypeOK'
  <2>1. [op |-> "claim", source |-> s] \in Call
    BY DEF Call
  <2> QED
    BY <1>2, <2>1, <1>b DEF Approve
<1>3. ASSUME NEW p \in Process, NEW s \in Source, Decline(p, s) PROVE TypeOK'
  <2>1. [op |-> "decline", source |-> s] \in Call
    BY DEF Call
  <2> QED
    BY <1>3, <2>1, <1>b DEF Decline
<1>4. ASSUME NEW p \in Process, NEW c \in ConnectionId,
             NEW status \in ConnectionStatus, SetConnectionStatus(p, c, status)
      PROVE  TypeOK'
  <2>1. [op |-> "set", id |-> c, status |-> status] \in Call
    BY DEF Call
  <2> QED
    BY <1>4, <2>1, <1>b DEF SetConnectionStatus
<1>5. ASSUME NEW p \in Process, Collect(p) PROVE TypeOK'
  <2>1. [op |-> "collect", todo |-> EnabledNow] \in Call
    BY <1>0 DEF Call, EnabledNow
  <2> QED
    BY <1>5, <2>1, <1>b DEF Collect
<1>6. ASSUME NEW p \in Process, ClaimSource(p) PROVE TypeOK'
  <2>1. call[p] \in [op : {"claim", "insert", "decline"}, source : Source]
    BY <1>6, CallShape DEF ClaimSource, At
  <2>2. [call[p] EXCEPT !.op = "insert"] \in Call
    BY <2>1 DEF Call
  <2> QED
    BY <1>6, <2>2 DEF ClaimSource, Becomes, SourceStatus
<1>7. ASSUME NEW p \in Process, InsertConnection(p) PROVE TypeOK'
  <2>1. call[p] \in [op : {"claim", "insert", "decline"}, source : Source]
    BY <1>7, CallShape DEF InsertConnection, At
  <2>2. PICK c \in ConnectionId \ DOMAIN connections :
          connections' = [d \in DOMAIN connections \cup {c} |->
            IF d = c THEN [source |-> call[p].source, status |-> "enabled",
                           revoked |-> FALSE]
            ELSE connections[d]]
    BY <1>7 DEF InsertConnection
  <2>3. connections' \in [S \cup {c} -> Connection]
    BY <2>1, <2>2, <1>0 DEF Connection, ConnectionStatus
  <2>4. Idle \in Call
    BY DEF Call
  <2> QED
    BY <1>7, <2>3, <2>4, <1>0, <2>2 DEF InsertConnection, Becomes
<1>8. ASSUME NEW p \in Process, DeclineSource(p) PROVE TypeOK'
  BY <1>8 DEF DeclineSource, Becomes, SourceStatus, Call
<1>9. ASSUME NEW p \in Process, UpdateConnection(p) PROVE TypeOK'
  <2>1. call[p] \in [op : {"set"}, id : ConnectionId,
                     status : ConnectionStatus]
    BY <1>9, CallShape DEF UpdateConnection
  <2>2. connections' \in [S -> Connection]
    BY <1>9, <2>1, <1>0 DEF UpdateConnection, Connection
  <2>3. Idle \in Call
    BY DEF Call
  <2> QED
    BY <1>9, <2>2, <2>3 DEF UpdateConnection, Becomes
<1>10. ASSUME NEW p \in Process, CollectConnection(p) PROVE TypeOK'
  <2>1. call[p] \in [op : {"collect"}, todo : SUBSET ConnectionId]
    BY <1>10, CallShape DEF CollectConnection
  <2>2. \A c : [call[p] EXCEPT !.todo = @ \ {c}] \in Call
    BY <2>1 DEF Call
  <2>3. Idle \in Call
    BY DEF Call
  <2> QED
    BY <1>10, <2>2, <2>3 DEF CollectConnection, Becomes
<1>11. ASSUME NEW p \in Process, Crash(p) PROVE TypeOK'
  BY <1>11 DEF Crash, Becomes, Call
<1>12. CASE UNCHANGED vars
  BY <1>12 DEF vars
<1> QED
  BY <1>1, <1>2, <1>3, <1>4, <1>5, <1>6, <1>7, <1>8, <1>9, <1>10, <1>11, <1>12
     DEF Next

\* The tables and the calls keep their types.
THEOREM ConsentTypeCorrect == Spec => []TypeOK
<1> QED
  BY InitTyped, StepTyped, PTL DEF Spec

\* No interleaving and no crash brings a decided source back to "awaiting".
THEOREM DecisionsKept == Spec => DecisionsPersist
<1> DEFINE Kept == \A s \in Source :
      sources[s] \in {"connected", "declined"}
        => sources'[s] \in {"connected", "declined"}
<1>1. TypeOK /\ [Next]_vars => Kept
  <2> SUFFICES ASSUME TypeOK, [Next]_vars, NEW s \in Source,
                      sources[s] \in {"connected", "declined"}
               PROVE  sources'[s] \in {"connected", "declined"}
    OBVIOUS
  <2> USE DEF TypeOK
  <2>1. ASSUME NEW t \in Source, Discover(t)
        PROVE  sources'[s] \in {"connected", "declined"}
    BY <2>1 DEF Discover
  <2>2. ASSUME NEW p \in Process, ClaimSource(p) \/ DeclineSource(p)
        PROVE  sources'[s] \in {"connected", "declined"}
    BY <2>2 DEF ClaimSource, DeclineSource
  <2>3. CASE UNCHANGED sources
    BY <2>3
  <2> QED
    BY <2>1, <2>2, <2>3
       DEF Next, vars, Approve, Decline, SetConnectionStatus, Collect, Begin,
           InsertConnection, UpdateConnection, CollectConnection, Crash
<1>2. TypeOK /\ [Next]_vars => [Kept]_vars
  BY <1>1
<1> QED
  BY <1>2, ConsentTypeCorrect, PTL DEF Spec, DecisionsPersist

\* How a step may change the connections: a transition, a new one, or not.
LEMMA ConnectionSteps ==
  ASSUME [Next]_vars
  PROVE  \/ \E p \in Process : UpdateConnection(p)
         \/ \E p \in Process : InsertConnection(p)
         \/ UNCHANGED connections
BY DEF Next, vars, Discover, Approve, Decline, SetConnectionStatus, Collect,
       Begin, ClaimSource, DeclineSource, CollectConnection, Crash

\* A resume that races a disconnect may win, but the row keeps its revoked_at.
THEOREM RevocationNeverErased == Spec => RevocationKept
<1> DEFINE Kept == \A c \in DOMAIN connections :
      connections[c].revoked => connections'[c].revoked
<1>1. TypeOK /\ [Next]_vars => Kept
  <2> SUFFICES ASSUME TypeOK, [Next]_vars, NEW c \in DOMAIN connections,
                      connections[c].revoked
               PROVE  connections'[c].revoked
    OBVIOUS
  <2>1. PICK S \in SUBSET ConnectionId : connections \in [S -> Connection]
    BY DEF TypeOK
  <2>2. ASSUME NEW p \in Process, UpdateConnection(p)
        PROVE  connections'[c].revoked
    BY <2>1, <2>2 DEF UpdateConnection, Connection
  <2>3. ASSUME NEW p \in Process, InsertConnection(p)
        PROVE  connections'[c].revoked
    BY <2>3 DEF InsertConnection
  <2> QED
    BY <2>2, <2>3, ConnectionSteps
<1>2. TypeOK /\ [Next]_vars => [Kept]_vars
  BY <1>1
<1> QED
  BY <1>2, ConsentTypeCorrect, PTL DEF Spec, RevocationKept

-----------------------------------------------------------------------------
(* One process.  What it has read is still so when it writes: the only other *)
(* writer is discovery, which touches sources nobody has seen before.        *)

Undecided(s) == \A c \in DOMAIN connections : connections[c].source # s

\* What the statement to come relies on.
ReadsHold ==
  \A p \in Process :
    /\ At(p, "claim") =>
         sources[call[p].source] = "awaiting" /\ Undecided(call[p].source)
    /\ At(p, "insert") =>
         sources[call[p].source] = "connected" /\ Undecided(call[p].source)
    /\ At(p, "set") =>
         /\ call[p].id \in DOMAIN connections
         /\ ValidTransition(connections[call[p].id].status, call[p].status)

\* A connection is that of a decided source.
ConnectedDecided ==
  \A c \in DOMAIN connections :
    sources[connections[c].source] \in {"connected", "declined"}

Alone ==
  /\ ReadsHold
  /\ ConnectedDecided
  /\ OneConnectionPerSource
  /\ CollectsOnlyEnabled

\* Initially nobody has read anything.
LEMMA AloneInit == Init => Alone
<1> SUFFICES ASSUME Init PROVE Alone
  OBVIOUS
<1>1. \A p \in Process : call[p].op = "idle"
  BY DEF Init, Idle
<1>2. DOMAIN connections = {}
  BY DEF Init
<1> QED
  BY <1>1, <1>2 DEF Alone, ReadsHold, ConnectedDecided, CollectsOnlyEnabled,
                    OneConnectionPerSource, At

\* No step of a single process, nor discovery, makes stale what it has read.
LEMMA AloneStep ==
  ASSUME NEW q, Process = {q}, TypeOK, Alone, [Next]_vars
  PROVE  Alone'
<1> USE DEF Alone
<1>0. PICK S \in SUBSET ConnectionId : connections \in [S -> Connection]
  BY DEF TypeOK
<1>t. /\ sources \in [Source -> SourceStatus]
      /\ call \in [Process -> Call]
      /\ q \in Process
  BY DEF TypeOK
<1>c. \A c \in DOMAIN connections :
        connections[c].source \in Source /\ c \in ConnectionId
  BY <1>0 DEF Connection
\* A process that has only begun, or has ended, a call.
<1>k. ASSUME UNCHANGED <<sources, connections>>,
             \/ call'[q].op \in {"idle", "decline"}
             \/ /\ call'[q].op = "claim"
                /\ sources[call'[q].source] = "awaiting"
             \/ /\ call'[q].op = "set"
                /\ call'[q].id \in DOMAIN connections
                /\ ValidTransition(connections[call'[q].id].status,
                                   call'[q].status)
             \/ call'[q].op = "collect" /\ call'[q].todo \subseteq EnabledNow
      PROVE  Alone'
  <2>1. ReadsHold'
    BY <1>k DEF ReadsHold, At, Undecided, ConnectedDecided, ValidTransition
  <2>2. CollectsOnlyEnabled'
    BY <1>k DEF CollectsOnlyEnabled, At, EnabledNow
  <2> QED
    BY <1>k, <2>1, <2>2 DEF ConnectedDecided, OneConnectionPerSource
<1>1. ASSUME NEW s \in Source, Discover(s) PROVE Alone'
  <2>1. \A t \in Source : sources[t] # "absent" => sources'[t] = sources[t]
    BY <1>1, <1>t DEF Discover
  <2>2. UNCHANGED <<connections, call>>
    BY <1>1 DEF Discover
  <2>3. \A p \in Process : At(p, "claim") \/ At(p, "insert") =>
          call[p].source \in Source
    BY CallShape DEF At
  <2>4. ReadsHold'
    BY <2>1, <2>2, <2>3 DEF ReadsHold, At, Undecided
  <2>5. ConnectedDecided'
    BY <2>1, <2>2, <1>c DEF ConnectedDecided
  <2> QED
    BY <2>2, <2>4, <2>5
       DEF OneConnectionPerSource, CollectsOnlyEnabled, At, EnabledNow
<1>2. ASSUME NEW s \in Source, Approve(q, s) PROVE Alone'
  <2>1. /\ call'[q] = [op |-> "claim", source |-> s]
        /\ UNCHANGED <<sources, connections>>
    BY <1>2, <1>t DEF Approve, Begin
  <2> QED
    BY <1>2, <2>1, <1>k DEF Approve, Approvable
<1>3. ASSUME NEW s \in Source, Decline(q, s) PROVE Alone'
  <2>1. /\ call'[q] = [op |-> "decline", source |-> s]
        /\ UNCHANGED <<sources, connections>>
    BY <1>3, <1>t DEF Decline, Begin
  <2> QED
    BY <2>1, <1>k
<1>4. ASSUME NEW c \in ConnectionId, NEW status \in ConnectionStatus,
             SetConnectionStatus(q, c, status)
      PROVE  Alone'
  <2>1. /\ call'[q] = [op |-> "set", id |-> c, status |-> status]
        /\ UNCHANGED <<sources, connections>>
    BY <1>4, <1>t DEF SetConnectionStatus, Begin
  <2> QED
    BY <1>4, <2>1, <1>k DEF SetConnectionStatus
<1>5. ASSUME Collect(q) PROVE Alone'
  <2>1. /\ call'[q] = [op |-> "collect", todo |-> EnabledNow]
        /\ UNCHANGED <<sources, connections>>
    BY <1>5, <1>t DEF Collect, Begin
  <2> QED
    BY <2>1, <1>k
<1>6. ASSUME ClaimSource(q) PROVE Alone'
  <2>1. call[q] \in [op : {"claim", "insert", "decline"}, source : Source]
    BY <1>6, <1>t, CallShape DEF ClaimSource, At
  <2>2. /\ call'[q].op = "insert"
        /\ call'[q].source = call[q].source
        /\ sources' = [sources EXCEPT ![call[q].source] = "connected"]
        /\ UNCHANGED connections
    BY <1>6, <1>t, <2>1 DEF ClaimSource, Becomes
  <2>3. Undecided(call[q].source)
    BY <1>6, <1>t DEF ClaimSource, ReadsHold
  <2>4. ReadsHold'
    BY <2>1, <2>2, <2>3, <1>t DEF ReadsHold, At, Undecided
  <2>5. ConnectedDecided'
    BY <2>2, <1>t, <1>c DEF ConnectedDecided
  <2> QED
    BY <2>2, <2>4, <2>5 DEF OneConnectionPerSource, CollectsOnlyEnabled, At
<1>7. ASSUME InsertConnection(q) PROVE Alone'
  <2>1. call[q] \in [op : {"claim", "insert", "decline"}, source : Source]
    BY <1>7, <1>t, CallShape DEF InsertConnection, At
  <2>2. PICK c \in ConnectionId \ DOMAIN connections :
          connections' = [d \in DOMAIN connections \cup {c} |->
            IF d = c THEN [source |-> call[q].source, status |-> "enabled",
                           revoked |-> FALSE]
            ELSE connections[d]]
    BY <1>7 DEF InsertConnection
  <2>3. call'[q].op = "idle" /\ UNCHANGED sources
    BY <1>7, <1>t DEF InsertConnection, Becomes, Idle
  <2>4. /\ sources[call[q].source] = "connected"
        /\ Undecided(call[q].source)
    BY <1>7, <1>t DEF InsertConnection, ReadsHold
  <2>5. ConnectedDecided'
    BY <2>2, <2>3, <2>4 DEF ConnectedDecided
  <2>6. OneConnectionPerSource'
    BY <2>2, <2>4 DEF OneConnectionPerSource, Undecided
  <2> QED
    BY <2>3, <2>5, <2>6 DEF ReadsHold, CollectsOnlyEnabled, At
<1>8. ASSUME DeclineSource(q) PROVE Alone'
  <2>1. /\ call'[q].op = "idle"
        /\ sources' = [sources EXCEPT ![call[q].source] = "declined"]
        /\ UNCHANGED connections
    BY <1>8, <1>t DEF DeclineSource, Becomes, Idle
  <2>2. ConnectedDecided'
    BY <2>1, <1>t, <1>c DEF ConnectedDecided
  <2> QED
    BY <2>1, <2>2 DEF ReadsHold, OneConnectionPerSource, CollectsOnlyEnabled, At
<1>9. ASSUME UpdateConnection(q) PROVE Alone'
  <2>1. call'[q].op = "idle" /\ UNCHANGED sources
    BY <1>9, <1>t DEF UpdateConnection, Becomes, Idle
  <2>2. /\ DOMAIN connections' = DOMAIN connections
        /\ \A c \in DOMAIN connections :
             connections'[c].source = connections[c].source
    BY <1>9, <1>0 DEF UpdateConnection, Connection
  <2>3. ConnectedDecided' /\ OneConnectionPerSource'
    BY <2>1, <2>2 DEF ConnectedDecided, OneConnectionPerSource
  <2> QED
    BY <2>1, <2>3 DEF ReadsHold, CollectsOnlyEnabled, At
<1>10. ASSUME CollectConnection(q) PROVE Alone'
  <2>1. call[q] \in [op : {"collect"}, todo : SUBSET ConnectionId]
    BY <1>10, <1>t, CallShape DEF CollectConnection
  <2>2. call[q].todo \subseteq EnabledNow
    BY <1>10, <1>t DEF CollectConnection, CollectsOnlyEnabled
  <2>3. \/ call'[q].op = "idle"
        \/ call'[q].op = "collect" /\ call'[q].todo \subseteq call[q].todo
    BY <1>10, <1>t, <2>1 DEF CollectConnection, Becomes, Idle
  <2> QED
    BY <1>10, <2>2, <2>3, <1>k DEF CollectConnection
<1>11. ASSUME Crash(q) PROVE Alone'
  <2>1. call'[q].op = "idle"
    BY <1>11, <1>t DEF Crash, Becomes, Idle
  <2> QED
    BY <1>11, <2>1, <1>k DEF Crash
<1>12. CASE UNCHANGED vars
  BY <1>12 DEF vars, ReadsHold, ConnectedDecided, OneConnectionPerSource,
               CollectsOnlyEnabled, At, Undecided, EnabledNow
<1> QED
  BY <1>1, <1>2, <1>3, <1>4, <1>5, <1>6, <1>7, <1>8, <1>9, <1>10, <1>11, <1>12
     DEF Next

\* The strengthening holds throughout, for a single process.
LEMMA AloneInvariant ==
  ASSUME NEW q, Process = {q}
  PROVE  Spec => [](TypeOK /\ Alone)
<1>1. TypeOK /\ Alone /\ [Next]_vars => Alone'
  BY AloneStep
<1> QED
  BY <1>1, AloneInit, ConsentTypeCorrect, PTL DEF Spec

\* One process, dying between any two statements, connects a source once.
THEOREM ConnectedOnce ==
  ASSUME NEW q, Process = {q}
  PROVE  Spec => []OneConnectionPerSource
<1>1. Alone => OneConnectionPerSource
  BY DEF Alone
<1> QED
  BY <1>1, AloneInvariant, PTL

\* One process collects from what is enabled, from the listing to the end.
THEOREM CollectionObeysConsent ==
  ASSUME NEW q, Process = {q}
  PROVE  Spec => []CollectsOnlyEnabled
<1>1. Alone => CollectsOnlyEnabled
  BY DEF Alone
<1> QED
  BY <1>1, AloneInvariant, PTL

\* One process never brings a disconnected connection back.
THEOREM DisconnectionFinal ==
  ASSUME NEW q, Process = {q}
  PROVE  Spec => DisconnectIsFinal
<1> DEFINE Final == \A c \in DOMAIN connections :
      connections[c].status = "disconnected"
        => connections'[c].status = "disconnected"
<1>1. TypeOK /\ Alone /\ [Next]_vars => Final
  <2> SUFFICES ASSUME TypeOK, Alone, [Next]_vars, NEW c \in DOMAIN connections,
                      connections[c].status = "disconnected"
               PROVE  connections'[c].status = "disconnected"
    OBVIOUS
  <2>1. PICK S \in SUBSET ConnectionId : connections \in [S -> Connection]
    BY DEF TypeOK
  <2>2. ASSUME UpdateConnection(q)
        PROVE  connections'[c].status = "disconnected"
    <3>1. call[q].id # c
      BY <2>2 DEF UpdateConnection, Alone, ReadsHold, ValidTransition
    <3> QED
      BY <2>1, <2>2, <3>1 DEF UpdateConnection
  <2>3. ASSUME InsertConnection(q)
        PROVE  connections'[c].status = "disconnected"
    BY <2>3 DEF InsertConnection
  <2> QED
    BY <2>2, <2>3, ConnectionSteps
<1>2. TypeOK /\ Alone /\ [Next]_vars => [Final]_vars
  BY <1>1
<1> QED
  BY <1>2, AloneInvariant, PTL DEF Spec, DisconnectIsFinal
=============================================================================
