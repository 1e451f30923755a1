---------------------------- MODULE MCRootMulti ----------------------------
(* RootMulti on small instances, with the mutants of its definitions.      *)
EXTENDS RootMulti, TLC

Symmetry == Permutations(Stores)
=============================================================================
