---------------------------- MODULE MCBPlusTree ----------------------------
(* Small instances of BPlusTree for TLC. *)
EXTENDS BPlusTree

Loaded == {4 * i : i \in 1..Max(Loads)}

\* One key between every two that are loaded, and one beyond each end.
OneBetween == Loaded \cup {k + 2 : k \in Loaded \cup {0}}

\* The keys between the seventh and the eighth that are loaded.
OneGap == Loaded \cup 29..31
=============================================================================
