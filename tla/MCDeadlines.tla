---------------------------- MODULE MCDeadlines ----------------------------
(***************************************************************************)
(* The two tasks of the scheduler, premium-expiry and sla-breach-check.    *)
(* They share no state, so a behaviour of the two together is one of each, *)
(* interleaved: TLC explores each of them with the other one at rest, as   *)
(* the variable task says.                                                 *)
(***************************************************************************)
EXTENDS Subscriptions, SlaEntries

VARIABLE task

taskVars == <<task, vars, slaVars>>

TasksInit ==
  /\ task \in {"premium-expiry", "sla-breach-check"}
  /\ Init
  /\ SlaInit

SlaRests == task = "premium-expiry" /\ UNCHANGED <<task, slaVars>>
PremiumRests == task = "sla-breach-check" /\ UNCHANGED <<task, vars>>

TasksNext ==
  \/ Next /\ SlaRests
  \/ SlaNext /\ PremiumRests

(***************************************************************************)
(* setInterval keeps firing whether or not the last run has ended, so some *)
(* run is started again and again; and awaited database calls settle.      *)
(***************************************************************************)
Fairness ==
  /\ WF_taskVars(\E r \in Sweeps : StartSweep(r) /\ SlaRests)
  /\ \A r \in Sweeps : WF_taskVars(SweepStep(r) /\ SlaRests)
  /\ WF_taskVars(\E r \in Checks : StartCheck(r) /\ PremiumRests)
  /\ \A r \in Checks : WF_taskVars(CheckStep(r) /\ PremiumRests)

TasksSpec == TasksInit /\ [][TasksNext]_taskVars /\ Fairness
=============================================================================
