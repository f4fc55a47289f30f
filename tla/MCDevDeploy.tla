------------------------------ MODULE MCDevDeploy ------------------------------
(* Values for the constants of DevDeploy that a cfg cannot write. *)
EXTENDS DevDeploy, TLC

MCEverywhere == DeploySteps \cup RecoverySteps

Symmetry == Permutations(Versions)
=============================================================================
