---------------------------- MODULE MCScheduler ----------------------------
(***************************************************************************)
(* Instances of Scheduler for TLC: days of three clock units, a schedule   *)
(* at the first or the second unit of every day.                           *)
(***************************************************************************)
EXTENDS Scheduler

MCOffered == {<<Daily, 0>>, <<Daily, 1>>}

\* A user who has enabled monitoring; the Record Folder may be chosen or not.
EnabledRows ==
  {[monitoring |-> TRUE, folder |-> f, days |-> o[1], time |-> o[2],
    nextRun |-> NextEligibleRun(o[1], o[2], 0)]
     : f \in BOOLEAN, o \in Offered}

EnabledInit == InitWith(EnabledRows)
EnabledSpec == EnabledInit /\ [][Next]_vars
EnabledFairSpec == EnabledSpec /\ Fairness

\* The same with a database that need not come back.
BrokenFairSpec ==
  /\ EnabledSpec
  /\ WF_vars(LoopStep) /\ WF_vars(UpdateStep(Sched)) /\ WF_vars(UpdateStep(Main))
  /\ WF_vars(Join) /\ WF_vars(Tick)
=============================================================================
