---------------------------- MODULE MCStatements ----------------------------
(* A small instance of Statements for TLC. *)
EXTENDS Statements, TLC

CONSTANTS parent, child

\* The child's key refers to the parent's.
MCParent == (parent :> NoTable) @@ (child :> parent)

\* Nothing asks for the history outside a transaction or once it is spoiled.
SeenView == <<tables, rows, listed, txn, log, work, spoiled,
    IF spoiled \/ txn = "none" THEN <<>> ELSE <<saved, past>>>>

\* Bound: once a step is spoiled a transaction goes on for one entry at most.
SpoiledShort == spoiled => Len(log) <= 1

ValSymmetry == Permutations(Val)
=============================================================================
