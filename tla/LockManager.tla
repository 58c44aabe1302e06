---------------------------- MODULE LockManager ----------------------------
(***************************************************************************)
(* The lock manager of one database (lock_manager.cpp, lock_manager.h):    *)
(* tables and rows are locked in shared or exclusive mode through request  *)
(* queues, each map of queues guarded by its own latch, with a wait-for    *)
(* graph that a background thread searches for cycles.                     *)
(*                                                                         *)
(* A transaction is driven by one session thread, so a transaction is a    *)
(* process here.  The latches are held across several steps: a call is cut *)
(* where it takes a second latch, where it consults the wait-for graph and *)
(* where it sleeps on a condition variable.                                *)
(*                                                                         *)
(* A definition commented as a slip is a mistake this code could contain:  *)
(* put in place of the definition that follows it, it breaks a property.   *)
(***************************************************************************)
EXTENDS Integers, FiniteSets, SequencesExt

CONSTANTS
    Txn,            \* transaction ids, handed out by an increasing counter
    Table,          \* table names
    Key,            \* primary keys; a row id is a table and a key
    RowMode,        \* modes clients ask of lockRow (Database: exclusive only)
    MaxCalls,       \* bound: calls a transaction makes before it ends
    CycleDetection, \* does the detector thread run (SQLServer starts it)
    RowUnlocking    \* do clients call unlockRow (nothing in src/core does)

Mode == {"SHARED", "EXCLUSIVE"}
Row == Table \X Key
NoTxn == 0

ASSUME TxnAssumption == Txn \subseteq Nat \ {0}
ASSUME RowModeAssumption == RowMode \subseteq Mode
ASSUME MaxCallsAssumption == MaxCalls \in Nat
ASSUME FlagAssumption == CycleDetection \in BOOLEAN /\ RowUnlocking \in BOOLEAN
ASSUME NonEmptyAssumption == Table # {} /\ Key # {}

VARIABLES
    tableLockMap,   \* table -> queue of requests, oldest first
    rowLockmap,     \* row -> queue of requests
    tableLatch,     \* holder of table_lock_map_latch, or NoTxn
    rowLatch,       \* holder of row_lock_map_latch, or NoTxn
    waitVertex,     \* keys of waits_for
    waitEdge,       \* pairs <<t, u>> with u in waits_for[t]
    pc,             \* where the session thread of each transaction stands
    arg,            \* arguments of the call it is in
    rewait,         \* TRUE inside cv_.wait: the predicate is being evaluated
    calls,          \* calls made so far
    detector        \* the detector thread: its position in waits_for

queueVars == <<tableLockMap, rowLockmap>>
latchVars == <<tableLatch, rowLatch>>
graphVars == <<waitVertex, waitEdge>>
threadVars == <<pc, arg, rewait, calls>>
vars == <<tableLockMap, rowLockmap, tableLatch, rowLatch, waitVertex, waitEdge,
          pc, arg, rewait, calls, detector>>

Request == [txn: Txn, mode: Mode]
Call == [table: Table, key: Key, mode: Mode]
TableSteps == {"T_check", "T_scan", "T_rows", "T_grant", "T_sleep", "T_woken"}
RowSteps == {"R_check", "R_scan", "R_tables", "R_grant", "R_sleep", "R_woken"}
Steps == {"idle", "release", "ended"} \cup TableSteps \cup RowSteps

NoCall == [table |-> CHOOSE a \in Table : TRUE, key |-> CHOOSE k \in Key : TRUE,
           mode |-> "SHARED"]

TypeOK ==
    /\ tableLockMap \in [Table -> Seq(Request)]
    /\ rowLockmap \in [Row -> Seq(Request)]
    /\ tableLatch \in Txn \cup {NoTxn}
    /\ rowLatch \in Txn \cup {NoTxn}
    /\ waitVertex \subseteq Txn
    /\ waitEdge \subseteq Txn \X Txn
    /\ pc \in [Txn -> Steps]
    /\ arg \in [Txn -> Call]
    /\ rewait \in [Txn -> BOOLEAN]
    /\ calls \in [Txn -> 0..MaxCalls]
    /\ detector \in [at: Txn \cup {NoTxn}, victim: Txn \cup {NoTxn}]

Init ==
    /\ tableLockMap = [a \in Table |-> <<>>]
    /\ rowLockmap = [r \in Row |-> <<>>]
    /\ tableLatch = NoTxn
    /\ rowLatch = NoTxn
    /\ waitVertex = {}
    /\ waitEdge = {}
    /\ pc = [t \in Txn |-> "idle"]
    /\ arg = [t \in Txn |-> NoCall]
    /\ rewait = [t \in Txn |-> FALSE]
    /\ calls = [t \in Txn |-> 0]
    /\ detector = [at |-> NoTxn, victim |-> NoTxn]

-----------------------------------------------------------------------------
(* Request queues *)

RowOf(t) == <<arg[t].table, arg[t].key>>

\* Two requests of different transactions conflict when either is exclusive.
Conflicts(req, t, mode) ==
    /\ req.txn # t
    /\ req.mode = "EXCLUSIVE" \/ mode = "EXCLUSIVE"

\* The positions of the requests in queue that stand in the way of t.
Blockers(queue, t, mode) == {i \in DOMAIN queue : Conflicts(queue[i], t, mode)}

\* The scan stops at the first conflicting request.
FirstBlockers(queue, t, mode) ==
    {queue[i].txn : i \in {j \in Blockers(queue, t, mode) :
                              \A k \in Blockers(queue, t, mode) : j <= k}}

Requested(queue, t) == \E i \in DOMAIN queue : queue[i].txn = t

\* Slip: the queue is not searched before a request is appended.
EnqueueAgain(queue, t, mode) == Append(queue, [txn |-> t, mode |-> mode])

\* Slip: a repeated request replaces the mode, a shared one an exclusive one.
EnqueueLatest(queue, t, mode) ==
    IF Requested(queue, t)
    THEN [i \in DOMAIN queue |->
             IF queue[i].txn = t THEN [txn |-> t, mode |-> mode] ELSE queue[i]]
    ELSE Append(queue, [txn |-> t, mode |-> mode])

\* A transaction that has a request already only ever strengthens it.
Enqueue(queue, t, mode) ==
    IF Requested(queue, t)
    THEN [i \in DOMAIN queue |->
             IF queue[i].txn = t /\ mode = "EXCLUSIVE"
             THEN [txn |-> t, mode |-> "EXCLUSIVE"]
             ELSE queue[i]]
    ELSE Append(queue, [txn |-> t, mode |-> mode])

\* Slip: the oldest request leaves, whoever made it.
DequeueOldest(queue, t) == IF Requested(queue, t) THEN Tail(queue) ELSE queue

Dequeue(queue, t) ==
    IF Requested(queue, t)
    THEN RemoveAt(queue, CHOOSE i \in DOMAIN queue : queue[i].txn = t)
    ELSE queue

-----------------------------------------------------------------------------
(* The wait-for graph; every operation on it runs under waits_for_latch *)

MakeWaitVertex(t) ==
    /\ waitVertex' = waitVertex \cup {t}
    /\ waitEdge' = {e \in waitEdge : e[1] # t}

AddEdge(t, u) ==
    /\ waitVertex' = waitVertex \cup {t}
    /\ waitEdge' = waitEdge \cup {<<t, u>>}

RemoveAllEdge(t) ==
    /\ waitVertex' = waitVertex \ {t}
    /\ waitEdge' = {e \in waitEdge : e[1] # t /\ e[2] # t}

-----------------------------------------------------------------------------
(* Control of a call *)

Goto(t, step) == pc' = [pc EXCEPT ![t] = step]

StartCall(t, step, call) ==
    /\ calls[t] < MaxCalls
    /\ calls' = [calls EXCEPT ![t] = @ + 1]
    /\ arg' = [arg EXCEPT ![t] = call]
    /\ Goto(t, step)

EndCall(t) ==
    /\ arg' = [arg EXCEPT ![t] = NoCall]
    /\ rewait' = [rewait EXCEPT ![t] = FALSE]
    /\ Goto(t, "idle")

\* Slip: only the condition variables of the row queues are notified.
WokenRowsOnly(step) == IF step = "R_sleep" THEN "R_woken" ELSE step

\* notify_all on one queue's condition variable: its sleepers have to take
\* the latch again before they look at their predicate.
Woken(step) == IF step = "T_sleep" THEN "T_woken"
               ELSE IF step = "R_sleep" THEN "R_woken" ELSE step

WakeTable(a) ==
    pc' = [u \in Txn |-> IF pc[u] = "T_sleep" /\ arg[u].table = a
                         THEN Woken(pc[u]) ELSE pc[u]]

WakeRow(r) ==
    pc' = [u \in Txn |-> IF pc[u] = "R_sleep" /\ RowOf(u) = r
                         THEN Woken(pc[u]) ELSE pc[u]]

-----------------------------------------------------------------------------
(* lockTable *)

LockTable(t, a, mode) ==
    /\ pc[t] = "idle"
    /\ tableLatch = NoTxn
    /\ tableLatch' = t
    /\ StartCall(t, "T_check", [table |-> a, key |-> NoCall.key, mode |-> mode])
    /\ MakeWaitVertex(t)
    /\ UNCHANGED <<queueVars, rowLatch, rewait, detector>>

\* Slip: the predicate is evaluated over and over with the latch held.
TableVerdictSpins(t, conflict) ==
    /\ Goto(t, IF conflict = rewait[t] THEN "T_check" ELSE "T_grant")
    /\ rewait' = [rewait EXCEPT ![t] = @ \/ ~conflict]
    /\ UNCHANGED tableLatch

\* What lockTable does with the value of hasConflict.  The first value is
\* tested with the wrong sign: only a request without a conflict goes to
\* cv_.wait, whose predicate is then tested with the right one.
TableVerdict(t, conflict) ==
    IF rewait[t]
    THEN /\ IF conflict
            THEN tableLatch' = NoTxn /\ Goto(t, "T_sleep")
            ELSE UNCHANGED tableLatch /\ Goto(t, "T_grant")
         /\ UNCHANGED rewait
    ELSE /\ IF conflict
            THEN Goto(t, "T_grant") /\ UNCHANGED rewait
            ELSE Goto(t, "T_check") /\ rewait' = [rewait EXCEPT ![t] = TRUE]
         /\ UNCHANGED tableLatch

\* hasConflict starts by asking whether the detector has erased t.
TableCheck(t) ==
    /\ pc[t] = "T_check"
    /\ IF t \in waitVertex
       THEN Goto(t, "T_scan") /\ UNCHANGED <<tableLatch, rewait>>
       ELSE TableVerdict(t, FALSE)
    /\ UNCHANGED <<queueVars, rowLatch, graphVars, arg, calls, detector>>

\* The queue of the table itself.
TableScan(t) ==
    LET queue == tableLockMap[arg[t].table]
    IN /\ pc[t] = "T_scan"
       /\ \/ /\ Blockers(queue, t, arg[t].mode) = {}
             /\ Goto(t, "T_rows")
             /\ UNCHANGED <<graphVars, tableLatch, rewait>>
          \/ \E u \in FirstBlockers(queue, t, arg[t].mode) :
                AddEdge(t, u) /\ TableVerdict(t, TRUE)
       /\ UNCHANGED <<queueVars, rowLatch, arg, calls, detector>>

\* The queues of the table's rows, in the order of a hash map, under the row
\* latch, which is released before the verdict is used.
TableScanRows(t) ==
    LET rows == {arg[t].table} \X Key
    IN /\ pc[t] = "T_rows"
       /\ rowLatch = NoTxn
       /\ \/ /\ \A r \in rows : Blockers(rowLockmap[r], t, arg[t].mode) = {}
             /\ TableVerdict(t, FALSE)
             /\ UNCHANGED graphVars
          \/ \E r \in rows : \E u \in FirstBlockers(rowLockmap[r], t, arg[t].mode) :
                AddEdge(t, u) /\ TableVerdict(t, TRUE)
       /\ UNCHANGED <<queueVars, rowLatch, arg, calls, detector>>

\* Slip: a woken lockTable goes on without evaluating its predicate again.
TableWakeGranted(t) ==
    /\ pc[t] = "T_woken"
    /\ tableLatch = NoTxn
    /\ tableLatch' = t
    /\ Goto(t, "T_grant")
    /\ UNCHANGED <<queueVars, rowLatch, graphVars, arg, rewait, calls, detector>>

\* A notified sleeper takes the latch again and evaluates its predicate.
TableWake(t) ==
    /\ pc[t] = "T_woken"
    /\ tableLatch = NoTxn
    /\ tableLatch' = t
    /\ Goto(t, "T_check")
    /\ UNCHANGED <<queueVars, rowLatch, graphVars, arg, rewait, calls, detector>>

TableGrant(t) ==
    /\ pc[t] = "T_grant"
    /\ tableLockMap' = [tableLockMap EXCEPT ![arg[t].table] =
                           Enqueue(@, t, arg[t].mode)]
    /\ tableLatch' = NoTxn
    /\ EndCall(t)
    /\ UNCHANGED <<rowLockmap, rowLatch, graphVars, calls, detector>>

-----------------------------------------------------------------------------
(* lockRow *)

LockRow(t, r, mode) ==
    /\ pc[t] = "idle"
    /\ rowLatch = NoTxn
    /\ rowLatch' = t
    /\ StartCall(t, "R_check", [table |-> r[1], key |-> r[2], mode |-> mode])
    /\ MakeWaitVertex(t)
    /\ UNCHANGED <<queueVars, tableLatch, rewait, detector>>

RowVerdict(t, conflict) ==
    IF ~conflict
    THEN Goto(t, "R_grant") /\ UNCHANGED <<rowLatch, rewait>>
    ELSE IF rewait[t]
    THEN rowLatch' = NoTxn /\ Goto(t, "R_sleep") /\ UNCHANGED rewait
    ELSE /\ Goto(t, "R_check")
         /\ rewait' = [rewait EXCEPT ![t] = TRUE]
         /\ UNCHANGED rowLatch

\* Slip: the vertex test as lockTable has it; the latch order then bites.
RowCheckAsTable(t) ==
    /\ pc[t] = "R_check"
    /\ IF t \in waitVertex
       THEN Goto(t, "R_scan") /\ UNCHANGED <<rowLatch, rewait>>
       ELSE RowVerdict(t, FALSE)
    /\ UNCHANGED <<queueVars, tableLatch, graphVars, arg, calls, detector>>

\* Here it is the vertex test that has the wrong sign: the queues are looked
\* at only when the detector has erased t since the call began.
RowCheck(t) ==
    /\ pc[t] = "R_check"
    /\ IF t \in waitVertex
       THEN RowVerdict(t, FALSE)
       ELSE Goto(t, "R_scan") /\ UNCHANGED <<rowLatch, rewait>>
    /\ UNCHANGED <<queueVars, tableLatch, graphVars, arg, calls, detector>>

RowScan(t) ==
    LET queue == rowLockmap[RowOf(t)]
    IN /\ pc[t] = "R_scan"
       /\ \/ /\ Blockers(queue, t, arg[t].mode) = {}
             /\ Goto(t, "R_tables")
             /\ UNCHANGED <<graphVars, rowLatch, rewait>>
          \/ \E u \in FirstBlockers(queue, t, arg[t].mode) :
                AddEdge(t, u) /\ RowVerdict(t, TRUE)
       /\ UNCHANGED <<queueVars, tableLatch, arg, calls, detector>>

\* The queue of the row's table, under the table latch: the second latch is
\* taken in the order opposite to lockTable's and releaseAllLocks'.
RowScanTable(t) ==
    LET queue == tableLockMap[arg[t].table]
    IN /\ pc[t] = "R_tables"
       /\ tableLatch = NoTxn
       /\ \/ /\ Blockers(queue, t, arg[t].mode) = {}
             /\ RowVerdict(t, FALSE)
             /\ UNCHANGED graphVars
          \/ \E u \in FirstBlockers(queue, t, arg[t].mode) :
                AddEdge(t, u) /\ RowVerdict(t, TRUE)
       /\ UNCHANGED <<queueVars, tableLatch, arg, calls, detector>>

RowWake(t) ==
    /\ pc[t] = "R_woken"
    /\ rowLatch = NoTxn
    /\ rowLatch' = t
    /\ Goto(t, "R_check")
    /\ UNCHANGED <<queueVars, tableLatch, graphVars, arg, rewait, calls, detector>>

RowGrant(t) ==
    /\ pc[t] = "R_grant"
    /\ rowLockmap' = [rowLockmap EXCEPT ![RowOf(t)] = Enqueue(@, t, arg[t].mode)]
    /\ rowLatch' = NoTxn
    /\ EndCall(t)
    /\ UNCHANGED <<tableLockMap, tableLatch, graphVars, calls, detector>>

-----------------------------------------------------------------------------
(* unlockTable, unlockRow and releaseAllLocks *)

UnlockTable(t, a) ==
    /\ pc[t] = "idle"
    /\ tableLatch = NoTxn
    /\ calls[t] < MaxCalls
    /\ calls' = [calls EXCEPT ![t] = @ + 1]
    /\ \/ /\ Requested(tableLockMap[a], t)
          /\ tableLockMap' = [tableLockMap EXCEPT ![a] = Dequeue(@, t)]
          /\ RemoveAllEdge(t)
          /\ WakeTable(a)
       \/ /\ ~Requested(tableLockMap[a], t)
          /\ UNCHANGED <<tableLockMap, graphVars, pc>>
    /\ UNCHANGED <<rowLockmap, latchVars, arg, rewait, detector>>

UnlockRow(t, r) ==
    /\ RowUnlocking
    /\ pc[t] = "idle"
    /\ rowLatch = NoTxn
    /\ calls[t] < MaxCalls
    /\ calls' = [calls EXCEPT ![t] = @ + 1]
    /\ \/ /\ Requested(rowLockmap[r], t)
          /\ rowLockmap' = [rowLockmap EXCEPT ![r] = Dequeue(@, t)]
          /\ RemoveAllEdge(t)
          /\ WakeRow(r)
       \/ /\ ~Requested(rowLockmap[r], t)
          /\ UNCHANGED <<rowLockmap, graphVars, pc>>
    /\ UNCHANGED <<tableLockMap, latchVars, arg, rewait, detector>>

\* Commit and abort: the table latch first, then the row latch.
ReleaseAllLocks(t) ==
    /\ pc[t] = "idle"
    /\ tableLatch = NoTxn
    /\ tableLatch' = t
    /\ Goto(t, "release")
    /\ UNCHANGED <<queueVars, rowLatch, graphVars, arg, rewait, calls, detector>>

\* Slip: the loop over the row queues is missing.
ReleaseTableQueues(t) ==
    /\ pc[t] = "release"
    /\ rowLatch = NoTxn
    /\ tableLockMap' = [a \in Table |-> Dequeue(tableLockMap[a], t)]
    /\ tableLatch' = NoTxn
    /\ pc' = [u \in Txn |-> IF u = t THEN "ended" ELSE Woken(pc[u])]
    /\ UNCHANGED <<rowLockmap, rowLatch, graphVars, arg, rewait, calls, detector>>

\* Every queue loses t's request and every condition variable is notified;
\* t's vertex and edges stay in the wait-for graph.
ReleaseQueues(t) ==
    /\ pc[t] = "release"
    /\ rowLatch = NoTxn
    /\ tableLockMap' = [a \in Table |-> Dequeue(tableLockMap[a], t)]
    /\ rowLockmap' = [r \in Row |-> Dequeue(rowLockmap[r], t)]
    /\ tableLatch' = NoTxn
    /\ pc' = [u \in Txn |-> IF u = t THEN "ended" ELSE Woken(pc[u])]
    /\ UNCHANGED <<rowLatch, graphVars, arg, rewait, calls, detector>>

-----------------------------------------------------------------------------
(* The detector thread *)

Reachable(t) ==
    {v \in Txn : \A C \in SUBSET Txn :
        (t \in C /\ \A e \in waitEdge : e[1] \in C => e[2] \in C) => v \in C}

\* hasCycle: the breadth-first search from t comes upon a vertex it has seen,
\* be it t itself or one that two visited vertices point to.
HasCycle(t) ==
    \E e \in waitEdge :
        /\ e[1] \in Reachable(t)
        /\ \/ e[2] = t
           \/ \E f \in waitEdge \ {e} : f[1] \in Reachable(t) /\ f[2] = e[2]

\* The map is walked in the order of its keys without waits_for_latch: when
\* removeAllEdge has freed the vertex the iterator stands on, the walk goes on
\* anywhere or ends.
LostPlace == detector.at # NoTxn /\ detector.at \notin waitVertex

NextVertices ==
    IF LostPlace
    THEN waitVertex
    ELSE {v \in waitVertex : /\ detector.at < v
                             /\ \A w \in waitVertex : detector.at < w => v <= w}

\* waits_for[u] in hasCycle inserts the vertices it reads; a search that hits
\* a cycle has read some of them, one that does not has read them all.
DetectNext(v) ==
    /\ CycleDetection
    /\ detector.victim = NoTxn
    /\ v \in NextVertices
    /\ \/ /\ HasCycle(v)
          /\ detector' = [at |-> v, victim |-> v]
          /\ \E read \in SUBSET Reachable(v) : waitVertex' = waitVertex \cup read
       \/ /\ ~HasCycle(v)
          /\ detector' = [at |-> v, victim |-> NoTxn]
          /\ waitVertex' = waitVertex \cup Reachable(v)
    /\ UNCHANGED <<queueVars, latchVars, waitEdge, threadVars>>

\* The victim is erased without waits_for_latch, in a later step than the
\* search, and nobody is notified.
DetectErase ==
    /\ detector.victim # NoTxn
    /\ waitVertex' = waitVertex \ {detector.victim}
    /\ waitEdge' = {e \in waitEdge : e[1] # detector.victim}
    /\ detector' = [at |-> NoTxn, victim |-> NoTxn]
    /\ UNCHANGED <<queueVars, latchVars, threadVars>>

DetectEnd ==
    /\ detector.at # NoTxn
    /\ detector.victim = NoTxn
    /\ LostPlace \/ NextVertices = {}
    /\ detector' = [at |-> NoTxn, victim |-> NoTxn]
    /\ UNCHANGED <<queueVars, latchVars, graphVars, threadVars>>

-----------------------------------------------------------------------------

Begin(t) ==
    \/ \E a \in Table : \/ \E mode \in Mode : LockTable(t, a, mode)
                        \/ UnlockTable(t, a)
    \/ \E r \in Row : \/ \E mode \in RowMode : LockRow(t, r, mode)
                      \/ UnlockRow(t, r)

Continue(t) ==
    \/ TableCheck(t) \/ TableScan(t) \/ TableScanRows(t)
    \/ TableWake(t) \/ TableGrant(t)
    \/ RowCheck(t) \/ RowScan(t) \/ RowScanTable(t)
    \/ RowWake(t) \/ RowGrant(t)
    \/ ReleaseQueues(t)

Detector == (\E v \in Txn : DetectNext(v)) \/ DetectErase \/ DetectEnd

\* All transactions have ended: the lock manager waits for new ones.
Quiescent == (\A t \in Txn : pc[t] = "ended") /\ UNCHANGED vars

Next ==
    \/ \E t \in Txn : Begin(t) \/ Continue(t) \/ ReleaseAllLocks(t)
    \/ Detector
    \/ Quiescent

Spec == Init /\ [][Next]_vars

\* A thread that can take its next step does, and every transaction commits or
\* aborts: the server commits after the statement that opened it.
FairSpec == Spec /\ \A t \in Txn : WF_vars(Continue(t)) /\ WF_vars(ReleaseAllLocks(t))

-----------------------------------------------------------------------------
(* Properties *)

Queues == {tableLockMap[a] : a \in Table} \cup {rowLockmap[r] : r \in Row}

\* A transaction has at most one request in a queue: a repeated lockTable or
\* lockRow upgrades the request it finds (lines 64-71, 143-150), which is what
\* lets unlock and releaseAllLocks stop at the first one they remove.
SingleRequests(queue) ==
    \A i, j \in DOMAIN queue : queue[i].txn = queue[j].txn => i = j

OneRequestPerTxn == \A q \in Queues : SingleRequests(q)

\* Nothing of a transaction is left in any queue once releaseAllLocks has
\* returned, whoever was queuing, waiting or upgrading meanwhile.
EndedHoldsNothing ==
    \A t \in Txn : pc[t] = "ended" => \A q \in Queues : ~Requested(q, t)

\* t's table request conflicts with one that is in the table's or a row's queue.
Blocked(t) ==
    \/ Blockers(tableLockMap[arg[t].table], t, arg[t].mode) # {}
    \/ \E r \in {arg[t].table} \X Key :
          Blockers(rowLockmap[r], t, arg[t].mode) # {}

\* No lost wakeup: a lockTable that sleeps without having been notified still
\* has the conflict it went to sleep for.
TableSleeperIsBlocked ==
    \A t \in Txn : pc[t] = "T_sleep" => Blocked(t)

\* The two latches are never waited for in a circle: no lockRow that holds the
\* row latch and wants the table latch meets a holder of the table latch that
\* wants the row latch.
NoLatchDeadlock ==
    ~ \E t, u \in Txn : /\ pc[t] = "R_tables" /\ tableLatch = u
                        /\ pc[u] \in {"T_rows", "release"} /\ rowLatch = t

\* A lockTable that has been through cv_.wait is granted with no conflicting
\* request in the table's queue: the latch is held from the last evaluation of
\* the predicate to the grant.  (A row lock may still have slipped in.)
WaitedGrantIsClear ==
    \A t \in Txn : pc[t] = "T_grant" /\ rewait[t] =>
        Blockers(tableLockMap[arg[t].table], t, arg[t].mode) = {}

HoldsTable(t, a, mode) ==
    \E i \in DOMAIN tableLockMap[a] : tableLockMap[a][i] = [txn |-> t, mode |-> mode]

\* Transactions in conflict are kept apart (README.md:4, "Transaction conflict
\* handling"): an exclusive table lock is held alone.
TableExclusion ==
    \A a \in Table : \A t, u \in Txn :
        t # u /\ HoldsTable(t, a, "EXCLUSIVE") =>
            ~ \E mode \in Mode : HoldsTable(u, a, mode)

\* Every call returns: no thread stays in lockTable or lockRow for ever.
CallsReturn == \A t \in Txn : pc[t] \in TableSteps \cup RowSteps ~> pc[t] = "idle"

\* The queues as the clients see them: who holds what in which mode.
ModeIn(queue, t) ==
    IF Requested(queue, t)
    THEN queue[CHOOSE i \in DOMAIN queue : queue[i].txn = t].mode
    ELSE "NONE"

ModesIn(queue) == [t \in Txn |-> ModeIn(queue, t)]

tableHeld == [a \in Table |-> ModesIn(tableLockMap[a])]
rowHeld == [r \in Row |-> ModesIn(rowLockmap[r])]
openTxns == {t \in Txn : pc[t] # "ended"}

Requests == INSTANCE LockRequests WITH open <- openTxns

\* Latches, queues and sleeping implement the atomic lock requests of
\* LockRequests: no request is lost, doubled or weakened on the way.
ImplementsLockRequests == Requests!Spec
=============================================================================
