------------------------------- MODULE KeySet -------------------------------
(***************************************************************************)
(* What the B+tree promises the statements: a set of keys that grows and   *)
(* shrinks by one key at a time.                                           *)
(***************************************************************************)
CONSTANT Key

VARIABLE keys

Init == keys = {}

Put(k) == k \notin keys /\ keys' = keys \cup {k}

Remove(k) == k \in keys /\ keys' = keys \ {k}

Next == \E k \in Key : Put(k) \/ Remove(k)

Spec == Init /\ [][Next]_keys
=============================================================================
