------------------------------ MODULE Predictor ------------------------------
(***************************************************************************)
(* The two halves of the branch predictor, whose directions and targets    *)
(* share no state: BranchHistory and BranchTargets.  One of them is looked *)
(* at at a time.                                                           *)
(***************************************************************************)
EXTENDS BranchHistory, BranchTargets

VARIABLE half

predictorVars == <<half, historyVars, targetVars>>

PredictorInit ==
  /\ half \in {"history", "targets"}
  /\ HistoryInit /\ TargetsInit
  /\ half = "targets" => watched = 0   \* which matters to the other half only

PredictorNext ==
  \/ half = "history" /\ HistoryNext /\ UNCHANGED <<half, targetVars>>
  \/ half = "targets" /\ TargetsNext /\ UNCHANGED <<half, historyVars>>

PredictorSpec == PredictorInit /\ [][PredictorNext]_predictorVars
=============================================================================
