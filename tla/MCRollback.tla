----------------------------- MODULE MCRollback -----------------------------
(* Rollback on small instances.                                            *)
EXTENDS Rollback, TLC

Symmetry == Permutations(Stores)
=============================================================================
