---------------------------- MODULE MCDeployments ----------------------------
(* The names of all services sanitize to one segment, like "a-b" and       *)
(* "a--b".                                                                 *)
EXTENDS Deployments, TLC

MCSegment == [n \in Names |-> "a-b"]
Symmetry == Permutations(Handlers)
=============================================================================
