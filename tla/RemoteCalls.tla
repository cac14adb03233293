---------------------------- MODULE RemoteCalls ----------------------------
(***************************************************************************)
(* What a shell may rely on when it calls the service through the host     *)
(* (docs/phase-2/SHELL_BRIDGE.md): requests take effect in the order they  *)
(* were sent, each at most once, each caller is told the outcome of its    *)
(* own request, and nothing takes effect after a shutdown.  A request or   *)
(* its answer may be lost; then its caller is told nothing.                *)
(***************************************************************************)
EXTENDS Sequences

CONSTANTS
  Caller,
  Answer

VARIABLES
  call,   \* where each caller's request stands
  queue,  \* the callers whose requests have yet to take effect
  closed  \* a shutdown has taken effect

vars == <<call, queue, closed>>

Idle == [at |-> "idle"]
Asked == [at |-> "asked"]
Done(a) == [at |-> "done", answer |-> a]
Told(a) == [at |-> "told", answer |-> a]

Init ==
  /\ call = [c \in Caller |-> Idle]
  /\ queue = <<>>
  /\ closed = FALSE

Ask(c) ==
  /\ call[c] = Idle
  /\ call' = [call EXCEPT ![c] = Asked]
  /\ queue' = Append(queue, c)
  /\ UNCHANGED closed

TakeEffect(a) ==
  /\ ~closed
  /\ queue # <<>>
  /\ call[Head(queue)] = Asked
  /\ call' = [call EXCEPT ![Head(queue)] = Done(a)]
  /\ queue' = Tail(queue)
  /\ closed' \in BOOLEAN

\* Answers that arrive together are told together.
Tell(S) ==
  /\ S # {}
  /\ \A c \in S : call[c].at = "done"
  /\ call' = [c \in Caller |-> IF c \in S THEN Told(call[c].answer) ELSE call[c]]
  /\ UNCHANGED <<queue, closed>>

Leave(c) ==
  /\ call[c].at = "told"
  /\ call' = [call EXCEPT ![c] = Idle]
  /\ UNCHANGED <<queue, closed>>

\* The host dies with a request in hand.
Lose ==
  /\ queue # <<>>
  /\ queue' = Tail(queue)
  /\ UNCHANGED <<call, closed>>

\* A new host, when nobody waits for the old one.
Renew ==
  /\ \A c \in Caller : call[c] = Idle
  /\ queue' = <<>>
  /\ closed' = FALSE
  /\ UNCHANGED call

Next ==
  \/ \E c \in Caller : Ask(c) \/ Leave(c)
  \/ \E a \in Answer : TakeEffect(a)
  \/ \E S \in SUBSET Caller : Tell(S)
  \/ Lose
  \/ Renew

Spec == Init /\ [][Next]_vars
=============================================================================
