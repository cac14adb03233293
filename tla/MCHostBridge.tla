---------------------------- MODULE MCHostBridge ----------------------------
(***************************************************************************)
(* Requests of the kinds that differ: one that waits for a scheduled run,  *)
(* one that starts the scheduler, and a shutdown.                          *)
(***************************************************************************)
EXTENDS HostBridge

Requests ==
  {[command |-> c, fault |-> "none"] : c \in {"status", "start_scheduler", "shutdown"}}

\* A new file, and a database of the release before the last with history.
MCFiles == {<<"absent", "absent", "absent", "absent">>, <<"used", "used", "used", "absent">>}
=============================================================================
