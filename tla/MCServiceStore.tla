--------------------------- MODULE MCServiceStore ---------------------------
(* Instances of ServiceStore for TLC. *)
EXTENDS ServiceStore, TLC

\* Handlers, names and definitions are interchangeable.
Symmetry == Permutations(Handlers) \cup Permutations(Names) \cup Permutations(Defs)
=============================================================================
