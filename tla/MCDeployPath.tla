---------------------------- MODULE MCDeployPath ----------------------------
(* Instances of DeployPath for TLC. *)
EXTENDS DeployPath, TLC

Symmetry == Permutations(Handlers)
=============================================================================
