------------------------ MODULE MCDependencyGraph ------------------------
(***************************************************************************)
(* DependencyGraph for model checking.  The names of the services are      *)
(* interchangeable: no definition tells one from another.                  *)
(***************************************************************************)
EXTENDS DependencyGraph, TLC

Symmetry == Permutations(Services)
=============================================================================
