--------------------------- MODULE MCLockManager ---------------------------
(* Small instances of LockManager for TLC. *)
EXTENDS LockManager
=============================================================================
