----------------------------- MODULE MCRegistry -----------------------------
(* A small instance of Registry: one action, builds and callers that are    *)
(* interchangeable.                                                         *)
EXTENDS Registry, TLC

Symmetry == Permutations(Builds) \cup Permutations(Callers)
=============================================================================
