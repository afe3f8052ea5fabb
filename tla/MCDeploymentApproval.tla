------------------------ MODULE MCDeploymentApproval ------------------------
(***************************************************************************)
(* DeploymentApproval for TLC.  Requests are interchangeable: nothing      *)
(* orders or distinguishes them.                                           *)
(***************************************************************************)
EXTENDS DeploymentApproval, TLC

Interchangeable == Permutations(Requests)
=============================================================================
