----------------------------- MODULE MCModules -------------------------------
(* The recovery module and the intent module under TLC.  They share no       *)
(* state, so that a behaviour of one is checked with the other as it was     *)
(* deployed.                                                                 *)
EXTENDS MCSocialRecovery, MCIntents

ModulesInit == RecoveryInit /\ IntentsInit
ModulesNext ==
    \/ IntentsInit /\ RecoveryNext /\ UNCHANGED intentsVars
    \/ RecoveryInit /\ IntentsNext /\ UNCHANGED recoveryVars
ModulesSpec == ModulesInit /\ [][ModulesNext]_<<recoveryVars, intentsVars>>
=============================================================================
