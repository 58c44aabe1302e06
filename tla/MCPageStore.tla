---------------------------- MODULE MCPageStore ----------------------------
(* Small instances of PageStore for TLC. *)
EXTENDS PageStore, TLC

\* Sessions differ in nothing but their names.
SessionSymmetry == Permutations(Session)
=============================================================================
