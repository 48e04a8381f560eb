-------------------------- MODULE MCRegistrationAPI --------------------------
(* Instances of RegistrationAPI for TLC. *)
EXTENDS RegistrationAPI, TLC

Symmetry == Permutations(Handlers) \cup Permutations(Names) \cup Permutations(Scrapers)
==============================================================================
