----------------------------- MODULE MCUndoLog -----------------------------
(* Small instances of UndoLog for TLC. *)
EXTENDS UndoLog, TLC

\* Sessions differ in nothing but their names, and so do databases.
NameSymmetry == Permutations(Session) \cup Permutations(Database)
=============================================================================
