---------------------------- MODULE LockRequests ----------------------------
(***************************************************************************)
(* What the lock manager delivers to its clients, without latches, queues, *)
(* condition variables or the wait-for graph: an open transaction holds    *)
(* each table or row in at most one mode; a lock is taken or strengthened  *)
(* in one step and given back in one step, and the end of a transaction    *)
(* gives back everything it holds in one step, after which it takes no     *)
(* more.                                                                   *)
(*                                                                         *)
(* It does not promise that conflicting locks exclude each other, because  *)
(* lockTable and lockRow do not (run lm_exclusion).                        *)
(***************************************************************************)
CONSTANTS Txn, Table, Row

Mode == {"SHARED", "EXCLUSIVE"}
Modes == [Txn -> Mode \cup {"NONE"}]

VARIABLES
    tableHeld,  \* table -> transaction -> the mode it holds the table in
    rowHeld,    \* row -> transaction -> the mode it holds the row in
    open        \* transactions that have not ended

vars == <<tableHeld, rowHeld, open>>

TypeOK ==
    /\ tableHeld \in [Table -> Modes]
    /\ rowHeld \in [Row -> Modes]
    /\ open \subseteq Txn

NoneHeld == [t \in Txn |-> "NONE"]

\* A shared request never weakens an exclusive lock.
Strengthen(modes, t, mode) ==
    [modes EXCEPT ![t] = IF modes[t] = "EXCLUSIVE" THEN "EXCLUSIVE" ELSE mode]

Drop(modes, t) == [modes EXCEPT ![t] = "NONE"]

Init ==
    /\ tableHeld = [a \in Table |-> NoneHeld]
    /\ rowHeld = [r \in Row |-> NoneHeld]
    /\ open = Txn

AcquireTable(t, a, mode) ==
    /\ tableHeld' = [tableHeld EXCEPT ![a] = Strengthen(tableHeld[a], t, mode)]
    /\ UNCHANGED <<rowHeld, open>>

AcquireRow(t, r, mode) ==
    /\ rowHeld' = [rowHeld EXCEPT ![r] = Strengthen(rowHeld[r], t, mode)]
    /\ UNCHANGED <<tableHeld, open>>

ReleaseTable(t, a) ==
    /\ tableHeld' = [tableHeld EXCEPT ![a] = Drop(tableHeld[a], t)]
    /\ UNCHANGED <<rowHeld, open>>

ReleaseRow(t, r) ==
    /\ rowHeld' = [rowHeld EXCEPT ![r] = Drop(rowHeld[r], t)]
    /\ UNCHANGED <<tableHeld, open>>

End(t) ==
    /\ tableHeld' = [a \in Table |-> Drop(tableHeld[a], t)]
    /\ rowHeld' = [r \in Row |-> Drop(rowHeld[r], t)]
    /\ open' = open \ {t}

Next ==
    \E t \in open :
        \/ \E mode \in Mode : \/ \E a \in Table : AcquireTable(t, a, mode)
                              \/ \E r \in Row : AcquireRow(t, r, mode)
        \/ \E a \in Table : ReleaseTable(t, a)
        \/ \E r \in Row : ReleaseRow(t, r)
        \/ End(t)

Spec == Init /\ [][Next]_vars
=============================================================================
