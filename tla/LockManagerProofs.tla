-------------------------- MODULE LockManagerProofs --------------------------
(***************************************************************************)
(* Theorems about LockManager for every set of transactions, tables and    *)
(* keys and every number of calls.                                         *)
(***************************************************************************)
EXTENDS LockManager, TLAPS

-----------------------------------------------------------------------------
(* Queues *)

\* Enqueueing keeps a queue a sequence of requests.
LEMMA EnqueueType ==
    ASSUME NEW queue \in Seq(Request), NEW t \in Txn, NEW mode \in Mode
    PROVE  Enqueue(queue, t, mode) \in Seq(Request)
<1>1. CASE Requested(queue, t)
  <2>1. [txn |-> t, mode |-> "EXCLUSIVE"] \in Request
    BY DEF Request, Mode
  <2>2. \A i \in 1..Len(queue) : queue[i] \in Request
    OBVIOUS
  <2> DEFINE new(i) == IF queue[i].txn = t /\ mode = "EXCLUSIVE"
                       THEN [txn |-> t, mode |-> "EXCLUSIVE"] ELSE queue[i]
  <2>3. Enqueue(queue, t, mode) = [i \in 1..Len(queue) |-> new(i)]
    BY <1>1 DEF Enqueue
  <2>4. \A i \in 1..Len(queue) : new(i) \in Request
    BY <2>1, <2>2
  <2> HIDE DEF new
  <2> QED BY <2>3, <2>4
<1>2. CASE ~Requested(queue, t)
  BY <1>2 DEF Enqueue, Request
<1> QED BY <1>1, <1>2

\* Dequeueing keeps a queue a sequence of requests.
LEMMA DequeueType ==
    ASSUME NEW queue \in Seq(Request), NEW t
    PROVE  Dequeue(queue, t) \in Seq(Request)
<1>1. CASE Requested(queue, t)
  <2> DEFINE i == CHOOSE i \in DOMAIN queue : queue[i].txn = t
  <2>1. i \in 1..Len(queue)
    BY <1>1 DEF Requested
  <2>2. Dequeue(queue, t) = RemoveAt(queue, i)
    BY <1>1 DEF Dequeue
  <2> HIDE DEF i
  <2> QED BY <2>1, <2>2 DEF RemoveAt
<1> QED BY <1>1 DEF Dequeue

\* The fields of a queue's requests.
LEMMA RequestFields ==
    ASSUME NEW queue \in Seq(Request)
    PROVE  \A i \in DOMAIN queue : queue[i].txn \in Txn /\ queue[i].mode \in Mode
<1>1. \A i \in DOMAIN queue : queue[i] \in Request
  OBVIOUS
<1> QED BY <1>1 DEF Request

\* The transactions that block a request are transactions.
LEMMA FirstBlockersType ==
    ASSUME NEW queue \in Seq(Request), NEW t, NEW mode
    PROVE  FirstBlockers(queue, t, mode) \subseteq Txn
BY RequestFields DEF FirstBlockers, Blockers

\* A notification leads from a step to a step.
LEMMA WokenType == \A step \in Steps : Woken(step) \in Steps
BY DEF Woken, Steps, TableSteps, RowSteps

-----------------------------------------------------------------------------
(* Type correctness *)

\* The empty lock manager is well typed.
LEMMA TypeInit == Init => TypeOK
<1> SUFFICES ASSUME Init PROVE TypeOK
  OBVIOUS
<1>1. NoCall \in Call
  BY NonEmptyAssumption DEF NoCall, Call, Mode
<1> QED
  BY <1>1, MaxCallsAssumption DEF Init, TypeOK, Steps, Row

\* Every step of every action keeps the types.
LEMMA TypeStep == TypeOK /\ [Next]_vars => TypeOK'
<1> SUFFICES ASSUME TypeOK, [Next]_vars PROVE TypeOK'
  OBVIOUS
<1> USE DEF TypeOK
<1>c. NoCall \in Call
  BY NonEmptyAssumption DEF NoCall, Call, Mode
<1>s. {"T_check", "T_scan", "T_rows", "T_grant", "T_sleep", "T_woken", "idle",
       "R_check", "R_scan", "R_tables", "R_grant", "R_sleep", "R_woken",
       "release", "ended"} \subseteq Steps
  BY DEF Steps, TableSteps, RowSteps
<1>1. ASSUME NEW t \in Txn, NEW a \in Table, NEW mode \in Mode,
             LockTable(t, a, mode)
      PROVE  TypeOK'
  <2>1. [table |-> a, key |-> NoCall.key, mode |-> mode] \in Call
    BY <1>c DEF Call
  <2> QED
    BY <1>1, <1>s, <2>1, MaxCallsAssumption DEF LockTable, StartCall, Goto,
       MakeWaitVertex, queueVars
<1>2. ASSUME NEW t \in Txn, NEW r \in Row, NEW mode \in Mode,
             LockRow(t, r, mode)
      PROVE  TypeOK'
  <2>1. [table |-> r[1], key |-> r[2], mode |-> mode] \in Call
    BY DEF Call, Row
  <2> QED
    BY <1>2, <1>s, <2>1, MaxCallsAssumption DEF LockRow, StartCall, Goto,
       MakeWaitVertex, queueVars
<1>3. ASSUME NEW t \in Txn, NEW a \in Table, UnlockTable(t, a)
      PROVE  TypeOK'
  <2>1. Dequeue(tableLockMap[a], t) \in Seq(Request)
    BY DequeueType
  <2>2. pc' \in [Txn -> Steps]
    <3>1. pc' = pc \/ WakeTable(a)
      BY <1>3 DEF UnlockTable
    <3>2. \A u \in Txn : pc[u] \in Steps /\ Woken(pc[u]) \in Steps
      BY WokenType
    <3> QED BY <3>1, <3>2 DEF WakeTable
  <2>5. calls' \in [Txn -> 0..MaxCalls]
    BY <1>3, MaxCallsAssumption DEF UnlockTable
  <2>3. waitVertex' \subseteq Txn /\ waitEdge' \subseteq Txn \X Txn
    BY <1>3 DEF UnlockTable, RemoveAllEdge, graphVars
  <2>4. tableLockMap' \in [Table -> Seq(Request)]
    BY <1>3, <2>1 DEF UnlockTable
  <2> QED
    BY <1>3, <2>2, <2>3, <2>4, <2>5 DEF UnlockTable, latchVars
<1>4. ASSUME NEW t \in Txn, NEW r \in Row, UnlockRow(t, r)
      PROVE  TypeOK'
  <2>1. Dequeue(rowLockmap[r], t) \in Seq(Request)
    BY DequeueType
  <2>2. pc' \in [Txn -> Steps]
    <3>1. pc' = pc \/ WakeRow(r)
      BY <1>4 DEF UnlockRow
    <3>2. \A u \in Txn : pc[u] \in Steps /\ Woken(pc[u]) \in Steps
      BY WokenType
    <3> QED BY <3>1, <3>2 DEF WakeRow
  <2>5. calls' \in [Txn -> 0..MaxCalls]
    BY <1>4, MaxCallsAssumption DEF UnlockRow
  <2>3. waitVertex' \subseteq Txn /\ waitEdge' \subseteq Txn \X Txn
    BY <1>4 DEF UnlockRow, RemoveAllEdge, graphVars
  <2>4. rowLockmap' \in [Row -> Seq(Request)]
    BY <1>4, <2>1 DEF UnlockRow
  <2> QED
    BY <1>4, <2>2, <2>3, <2>4, <2>5 DEF UnlockRow, latchVars
<1>5. ASSUME NEW t \in Txn, TableCheck(t) PROVE TypeOK'
  BY <1>5, <1>s DEF TableCheck, TableVerdict, Goto, queueVars, graphVars
<1>6. ASSUME NEW t \in Txn, TableScan(t) PROVE TypeOK'
  <2> DEFINE blockers == FirstBlockers(tableLockMap[arg[t].table], t, arg[t].mode)
  <2>1. blockers \subseteq Txn
    BY FirstBlockersType DEF Call
  <2> HIDE DEF blockers
  <2>2. \/ waitVertex' = waitVertex /\ waitEdge' = waitEdge
        \/ \E u \in Txn : AddEdge(t, u)
    BY <1>6, <2>1 DEF TableScan, blockers, graphVars
  <2>3. tableLatch' \in Txn \cup {NoTxn} /\ rewait' \in [Txn -> BOOLEAN]
        /\ pc' \in [Txn -> Steps]
    BY <1>6, <1>s DEF TableScan, TableVerdict, Goto
  <2> QED
    BY <1>6, <2>2, <2>3 DEF TableScan, AddEdge, queueVars
<1>7. ASSUME NEW t \in Txn, TableScanRows(t) PROVE TypeOK'
  <2>1. \A r \in {arg[t].table} \X Key :
           FirstBlockers(rowLockmap[r], t, arg[t].mode) \subseteq Txn
    BY FirstBlockersType DEF Call, Row
  <2>2. \/ waitVertex' = waitVertex /\ waitEdge' = waitEdge
        \/ \E u \in Txn : AddEdge(t, u)
    BY <1>7, <2>1 DEF TableScanRows, graphVars
  <2>3. tableLatch' \in Txn \cup {NoTxn} /\ rewait' \in [Txn -> BOOLEAN]
        /\ pc' \in [Txn -> Steps]
    <3>1. TableVerdict(t, TRUE) \/ TableVerdict(t, FALSE)
      BY <1>7 DEF TableScanRows
    <3> QED BY <3>1, <1>s DEF TableVerdict, Goto
  <2> QED
    BY <1>7, <2>2, <2>3 DEF TableScanRows, AddEdge, queueVars
<1>8. ASSUME NEW t \in Txn, TableWake(t) PROVE TypeOK'
  BY <1>8, <1>s DEF TableWake, Goto, queueVars, graphVars
<1>9. ASSUME NEW t \in Txn, TableGrant(t) PROVE TypeOK'
  <2>1. Enqueue(tableLockMap[arg[t].table], t, arg[t].mode) \in Seq(Request)
    BY EnqueueType DEF Call
  <2> QED
    BY <1>9, <1>s, <1>c, <2>1 DEF TableGrant, EndCall, Goto, graphVars
<1>10. ASSUME NEW t \in Txn, RowCheck(t) PROVE TypeOK'
  BY <1>10, <1>s DEF RowCheck, RowVerdict, Goto, queueVars, graphVars
<1>11. ASSUME NEW t \in Txn, RowScan(t) PROVE TypeOK'
  <2> DEFINE blockers == FirstBlockers(rowLockmap[RowOf(t)], t, arg[t].mode)
  <2>1. blockers \subseteq Txn
    BY FirstBlockersType DEF Call, RowOf, Row
  <2> HIDE DEF blockers
  <2>2. \/ waitVertex' = waitVertex /\ waitEdge' = waitEdge
        \/ \E u \in Txn : AddEdge(t, u)
    BY <1>11, <2>1 DEF RowScan, blockers, graphVars
  <2>3. rowLatch' \in Txn \cup {NoTxn} /\ rewait' \in [Txn -> BOOLEAN]
        /\ pc' \in [Txn -> Steps]
    BY <1>11, <1>s DEF RowScan, RowVerdict, Goto
  <2> QED
    BY <1>11, <2>2, <2>3 DEF RowScan, AddEdge, queueVars
<1>12. ASSUME NEW t \in Txn, RowScanTable(t) PROVE TypeOK'
  <2> DEFINE blockers == FirstBlockers(tableLockMap[arg[t].table], t, arg[t].mode)
  <2>1. blockers \subseteq Txn
    BY FirstBlockersType DEF Call
  <2> HIDE DEF blockers
  <2>2. \/ waitVertex' = waitVertex /\ waitEdge' = waitEdge
        \/ \E u \in Txn : AddEdge(t, u)
    BY <1>12, <2>1 DEF RowScanTable, blockers, graphVars
  <2>3. rowLatch' \in Txn \cup {NoTxn} /\ rewait' \in [Txn -> BOOLEAN]
        /\ pc' \in [Txn -> Steps]
    BY <1>12, <1>s DEF RowScanTable, RowVerdict, Goto
  <2> QED
    BY <1>12, <2>2, <2>3 DEF RowScanTable, AddEdge, queueVars
<1>13. ASSUME NEW t \in Txn, RowWake(t) PROVE TypeOK'
  BY <1>13, <1>s DEF RowWake, Goto, queueVars, graphVars
<1>14. ASSUME NEW t \in Txn, RowGrant(t) PROVE TypeOK'
  <2>1. RowOf(t) \in Row
    BY DEF RowOf, Row, Call
  <2>2. Enqueue(rowLockmap[RowOf(t)], t, arg[t].mode) \in Seq(Request)
    BY <2>1, EnqueueType DEF Call
  <2> QED
    BY <1>14, <1>s, <1>c, <2>2 DEF RowGrant, EndCall, Goto, graphVars
<1>15. ASSUME NEW t \in Txn, ReleaseAllLocks(t) PROVE TypeOK'
  BY <1>15, <1>s DEF ReleaseAllLocks, Goto, queueVars, graphVars
<1>16. ASSUME NEW t \in Txn, ReleaseQueues(t) PROVE TypeOK'
  <2>1. \A a \in Table : Dequeue(tableLockMap[a], t) \in Seq(Request)
    BY DequeueType
  <2>2. \A r \in Row : Dequeue(rowLockmap[r], t) \in Seq(Request)
    BY DequeueType
  <2> QED
    BY <1>16, <1>s, <2>1, <2>2 DEF ReleaseQueues, Woken, graphVars
<1>17. ASSUME NEW v \in Txn, DetectNext(v) PROVE TypeOK'
  BY <1>17 DEF DetectNext, Reachable, queueVars, latchVars, threadVars
<1>18. ASSUME DetectErase \/ DetectEnd PROVE TypeOK'
  BY <1>18 DEF DetectErase, DetectEnd, queueVars, latchVars, graphVars, threadVars
<1>19. ASSUME UNCHANGED vars PROVE TypeOK'
  BY <1>19 DEF vars
<1> QED
  BY <1>1, <1>2, <1>3, <1>4, <1>5, <1>6, <1>7, <1>8, <1>9, <1>10, <1>11, <1>12,
     <1>13, <1>14, <1>15, <1>16, <1>17, <1>18, <1>19, RowModeAssumption
     DEF Next, Begin, Continue, Detector, Quiescent

\* Every state has the types the code's containers give it.
THEOREM TypeCorrect == Spec => []TypeOK
<1> QED BY TypeInit, TypeStep, PTL DEF Spec

-----------------------------------------------------------------------------
(* One request per transaction, and none after the end *)

\* Enqueueing adds t and nobody else.
LEMMA EnqueueRequests ==
    ASSUME NEW queue \in Seq(Request), NEW t \in Txn, NEW mode \in Mode, NEW u
    PROVE  Requested(Enqueue(queue, t, mode), u) => Requested(queue, u) \/ u = t
<1>1. CASE Requested(queue, t)
  BY <1>1 DEF Enqueue, Requested
<1>2. CASE ~Requested(queue, t)
  <2>1. Enqueue(queue, t, mode) = Append(queue, [txn |-> t, mode |-> mode])
    BY <1>2 DEF Enqueue
  <2> QED BY <2>1 DEF Requested
<1> QED BY <1>1, <1>2

\* Enqueueing keeps at most one request per transaction.
LEMMA EnqueueSingle ==
    ASSUME NEW queue \in Seq(Request), NEW t \in Txn, NEW mode \in Mode,
           SingleRequests(queue)
    PROVE  SingleRequests(Enqueue(queue, t, mode))
<1>1. CASE Requested(queue, t)
  <2> DEFINE new == Enqueue(queue, t, mode)
  <2>1. DOMAIN new = DOMAIN queue /\ \A i \in DOMAIN queue : new[i].txn = queue[i].txn
    BY <1>1 DEF Enqueue
  <2> HIDE DEF new
  <2>2. SingleRequests(new)
    BY <2>1 DEF SingleRequests
  <2> QED BY <2>2 DEF new
<1>2. CASE ~Requested(queue, t)
  <2>1. Enqueue(queue, t, mode) = Append(queue, [txn |-> t, mode |-> mode])
    BY <1>2 DEF Enqueue
  <2> DEFINE new == Append(queue, [txn |-> t, mode |-> mode])
             n == Len(queue) + 1
  <2>2. DOMAIN new = 1..n /\ new[n].txn = t
        /\ \A i \in 1..(n - 1) : i \in DOMAIN queue /\ new[i] = queue[i]
    OBVIOUS
  <2>3. \A i \in 1..(n - 1) : new[i].txn # t
    BY <1>2, <2>2 DEF Requested
  <2>4. n \in Nat /\ 1..n = 1..(n - 1) \cup {n}
    OBVIOUS
  <2> HIDE DEF new, n
  <2>5. SingleRequests(new)
    BY <2>2, <2>3, <2>4 DEF SingleRequests
  <2> QED BY <2>1, <2>5 DEF new
<1> QED BY <1>1, <1>2

\* Removing the request at position i keeps the others, in their order.
LEMMA RemovedAt ==
    ASSUME NEW queue \in Seq(Request), NEW i \in 1..Len(queue)
    PROVE  LET new == RemoveAt(queue, i)
           IN  /\ DOMAIN new = 1..(Len(queue) - 1)
               /\ \A j \in 1..(Len(queue) - 1) :
                     new[j] = IF j < i THEN queue[j] ELSE queue[j + 1]
<1> DEFINE front == SubSeq(queue, 1, i - 1)
           back == SubSeq(queue, i + 1, Len(queue))
<1>1. /\ front \in Seq(Request) /\ Len(front) = i - 1
      /\ \A j \in 1..(i - 1) : front[j] = queue[j]
  OBVIOUS
<1>2. /\ back \in Seq(Request) /\ Len(back) = Len(queue) - i
      /\ \A j \in 1..(Len(queue) - i) : back[j] = queue[i + j]
  OBVIOUS
<1>3. RemoveAt(queue, i) = front \o back
  BY DEF RemoveAt
<1> HIDE DEF front, back
<1>4. Len(front \o back) = Len(queue) - 1 /\ DOMAIN (front \o back) = 1..(Len(queue) - 1)
  BY <1>1, <1>2
<1>5. \A j \in 1..(Len(queue) - 1) :
         (front \o back)[j] = IF j <= i - 1 THEN front[j] ELSE back[j - (i - 1)]
  BY <1>1, <1>2
<1>6. \A j \in 1..(Len(queue) - 1) :
         (front \o back)[j] = IF j < i THEN queue[j] ELSE queue[j + 1]
  BY <1>1, <1>2, <1>5
<1> QED BY <1>3, <1>4, <1>6

\* Dequeueing t from a queue with one request per transaction leaves none of
\* t's and only requests that were there, still one per transaction.
LEMMA DequeueRequests ==
    ASSUME NEW queue \in Seq(Request), NEW t, SingleRequests(queue)
    PROVE  /\ SingleRequests(Dequeue(queue, t))
           /\ ~Requested(Dequeue(queue, t), t)
           /\ \A u : Requested(Dequeue(queue, t), u) => Requested(queue, u)
<1>1. CASE Requested(queue, t)
  <2> DEFINE i == CHOOSE i \in DOMAIN queue : queue[i].txn = t
             new == RemoveAt(queue, i)
  <2>1. i \in 1..Len(queue) /\ queue[i].txn = t
    BY <1>1 DEF Requested
  <2>2. Dequeue(queue, t) = new
    BY <1>1 DEF Dequeue
  <2> HIDE DEF i
  <2>3. /\ DOMAIN new = 1..(Len(queue) - 1)
        /\ \A j \in 1..(Len(queue) - 1) :
              new[j] = IF j < i THEN queue[j] ELSE queue[j + 1]
    BY <2>1, RemovedAt
  <2> HIDE DEF new
  <2> DEFINE old(j) == IF j < i THEN j ELSE j + 1
  <2>4. \A j \in DOMAIN new : old(j) \in DOMAIN queue \ {i} /\ new[j] = queue[old(j)]
    BY <2>1, <2>3
  <2>5. \A j, k \in DOMAIN new : old(j) = old(k) => j = k
    BY <2>1, <2>3
  <2> HIDE DEF old
  <2>6. SingleRequests(new)
    BY <2>4, <2>5 DEF SingleRequests
  <2>7. ~Requested(new, t)
    BY <2>1, <2>4 DEF SingleRequests, Requested
  <2>8. \A u : Requested(new, u) => Requested(queue, u)
    BY <2>4 DEF Requested
  <2> QED BY <2>2, <2>6, <2>7, <2>8
<1>2. CASE ~Requested(queue, t)
  BY <1>2 DEF Dequeue
<1> QED BY <1>1, <1>2

\* A step that is not one of the five that write a queue leaves all queues
\* alone, ends no transaction and reopens none.
LEMMA OtherSteps ==
    ASSUME TypeOK, [Next]_vars,
           ~ \E t \in Txn : \/ TableGrant(t) \/ RowGrant(t) \/ ReleaseQueues(t)
                            \/ \E a \in Table : UnlockTable(t, a)
                            \/ \E r \in Row : UnlockRow(t, r)
    PROVE  /\ UNCHANGED queueVars
           /\ \A u \in Txn : pc'[u] = "ended" <=> pc[u] = "ended"
<1>1. ASSUME NEW t \in Txn, NEW a \in Table, NEW mode \in Mode, LockTable(t, a, mode)
      PROVE  UNCHANGED queueVars /\ \A u \in Txn : pc'[u] = "ended" <=> pc[u] = "ended"
  BY <1>1 DEF LockTable, StartCall, Goto, TypeOK
<1>2. ASSUME NEW t \in Txn, NEW r \in Row, NEW mode \in Mode, LockRow(t, r, mode)
      PROVE  UNCHANGED queueVars /\ \A u \in Txn : pc'[u] = "ended" <=> pc[u] = "ended"
  BY <1>2 DEF LockRow, StartCall, Goto, TypeOK
<1>3. ASSUME NEW t \in Txn,
             TableCheck(t) \/ TableScan(t) \/ TableScanRows(t) \/ TableWake(t)
      PROVE  UNCHANGED queueVars /\ \A u \in Txn : pc'[u] = "ended" <=> pc[u] = "ended"
  BY <1>3 DEF TableCheck, TableScan, TableScanRows, TableWake, TableVerdict,
     Goto, TypeOK
<1>4. ASSUME NEW t \in Txn,
             RowCheck(t) \/ RowScan(t) \/ RowScanTable(t) \/ RowWake(t)
      PROVE  UNCHANGED queueVars /\ \A u \in Txn : pc'[u] = "ended" <=> pc[u] = "ended"
  BY <1>4 DEF RowCheck, RowScan, RowScanTable, RowWake, RowVerdict, Goto, TypeOK
<1>5. ASSUME NEW t \in Txn, ReleaseAllLocks(t)
      PROVE  UNCHANGED queueVars /\ \A u \in Txn : pc'[u] = "ended" <=> pc[u] = "ended"
  BY <1>5 DEF ReleaseAllLocks, Goto, TypeOK
<1>6. ASSUME (\E v \in Txn : DetectNext(v)) \/ DetectErase \/ DetectEnd
      PROVE  UNCHANGED queueVars /\ \A u \in Txn : pc'[u] = "ended" <=> pc[u] = "ended"
  BY <1>6 DEF DetectNext, DetectErase, DetectEnd, threadVars
<1>7. ASSUME UNCHANGED vars
      PROVE  UNCHANGED queueVars /\ \A u \in Txn : pc'[u] = "ended" <=> pc[u] = "ended"
  BY <1>7 DEF vars, queueVars
<1> QED
  BY <1>1, <1>2, <1>3, <1>4, <1>5, <1>6, <1>7, RowModeAssumption
     DEF Next, Begin, Continue, Detector, Quiescent

QueueInv == TypeOK /\ OneRequestPerTxn /\ EndedHoldsNothing

\* What QueueInv says of each queue.
SoundQueue(queue, step) ==
    /\ SingleRequests(queue)
    /\ \A u \in Txn : step[u] = "ended" => ~Requested(queue, u)

\* The invariant says the same of every queue, so it can be shown per queue.
LEMMA QueueInvByQueue ==
    /\ OneRequestPerTxn /\ EndedHoldsNothing <=>
         /\ \A a \in Table : SoundQueue(tableLockMap[a], pc)
         /\ \A r \in Row : SoundQueue(rowLockmap[r], pc)
    /\ OneRequestPerTxn' /\ EndedHoldsNothing' <=>
         /\ \A a \in Table : SoundQueue(tableLockMap'[a], pc')
         /\ \A r \in Row : SoundQueue(rowLockmap'[r], pc')
<1>1. /\ OneRequestPerTxn <=> /\ \A a \in Table : SingleRequests(tableLockMap[a])
                              /\ \A r \in Row : SingleRequests(rowLockmap[r])
      /\ OneRequestPerTxn' <=> /\ \A a \in Table : SingleRequests(tableLockMap'[a])
                               /\ \A r \in Row : SingleRequests(rowLockmap'[r])
  BY DEF OneRequestPerTxn, Queues
<1>2. /\ EndedHoldsNothing <=> \A u \in Txn : pc[u] = "ended" =>
            /\ \A a \in Table : ~Requested(tableLockMap[a], u)
            /\ \A r \in Row : ~Requested(rowLockmap[r], u)
      /\ EndedHoldsNothing' <=> \A u \in Txn : pc'[u] = "ended" =>
            /\ \A a \in Table : ~Requested(tableLockMap'[a], u)
            /\ \A r \in Row : ~Requested(rowLockmap'[r], u)
  BY DEF EndedHoldsNothing, Queues
<1> QED BY <1>1, <1>2 DEF SoundQueue

\* Empty queues are sound.
LEMMA QueueInvInit == Init => QueueInv
<1> SUFFICES ASSUME Init PROVE QueueInv
  OBVIOUS
<1>1. TypeOK
  BY TypeInit
<1>2. \A u \in Txn : pc[u] # "ended"
  BY DEF Init
<1>3. SoundQueue(<<>>, pc)
  BY <1>2 DEF SoundQueue, SingleRequests
<1> QED
  BY <1>1, <1>3, QueueInvByQueue DEF Init, QueueInv

\* A queue that t enqueues in stays sound when t has not ended afterwards.
LEMMA EnqueueSound ==
    ASSUME NEW queue \in Seq(Request), NEW t \in Txn, NEW mode \in Mode,
           NEW before, NEW after, SoundQueue(queue, before), after[t] # "ended",
           \A u \in Txn : after[u] = "ended" => before[u] = "ended"
    PROVE  SoundQueue(Enqueue(queue, t, mode), after)
BY EnqueueSingle, EnqueueRequests DEF SoundQueue

\* A queue that t leaves stays sound even when that is t's end.
LEMMA DequeueSound ==
    ASSUME NEW queue \in Seq(Request), NEW t \in Txn,
           NEW before, NEW after, SoundQueue(queue, before),
           \A u \in Txn \ {t} : after[u] = "ended" => before[u] = "ended"
    PROVE  SoundQueue(Dequeue(queue, t), after)
BY DequeueRequests DEF SoundQueue

\* One queue of a map replaced by a sound one leaves all queues sound.
LEMMA ReplaceQueue ==
    ASSUME NEW D, NEW map \in [D -> Seq(Request)], NEW d \in D, NEW queue,
           NEW step, SoundQueue(queue, step), \A x \in D : SoundQueue(map[x], step)
    PROVE  \A x \in D : SoundQueue([map EXCEPT ![d] = queue][x], step)
OBVIOUS

\* Every action keeps the queues sound.
LEMMA QueueInvStep == QueueInv /\ [Next]_vars => QueueInv'
<1> SUFFICES ASSUME QueueInv, [Next]_vars PROVE QueueInv'
  OBVIOUS
<1>1. TypeOK /\ TypeOK'
  BY TypeStep DEF QueueInv
<1> DEFINE SoundAfter ==
              /\ \A a \in Table : SoundQueue(tableLockMap'[a], pc')
              /\ \A r \in Row : SoundQueue(rowLockmap'[r], pc')
<1>2. /\ \A a \in Table : tableLockMap[a] \in Seq(Request) /\ SoundQueue(tableLockMap[a], pc)
      /\ \A r \in Row : rowLockmap[r] \in Seq(Request) /\ SoundQueue(rowLockmap[r], pc)
  BY <1>1, QueueInvByQueue DEF QueueInv, TypeOK
<1>3. SUFFICES SoundAfter
  BY <1>1, QueueInvByQueue DEF QueueInv
<1>4. \A u, v \in Txn : Woken(pc[u]) = "ended" => pc[u] = "ended"
  BY DEF Woken
<1>5. ASSUME \A u \in Txn : pc'[u] = "ended" => pc[u] = "ended"
      PROVE  /\ \A a \in Table : SoundQueue(tableLockMap[a], pc')
             /\ \A r \in Row : SoundQueue(rowLockmap[r], pc')
  BY <1>2, <1>5 DEF SoundQueue
<1>r. /\ tableLockMap \in [Table -> Seq(Request)]
      /\ rowLockmap \in [Row -> Seq(Request)]
  BY <1>1 DEF TypeOK
<1>6. ASSUME NEW t \in Txn, TableGrant(t) PROVE SoundAfter
  <2>1. pc'[t] # "ended" /\ \A u \in Txn : pc'[u] = "ended" => pc[u] = "ended"
    BY <1>1, <1>6 DEF TableGrant, EndCall, Goto, TypeOK
  <2>2. arg[t].table \in Table /\ arg[t].mode \in Mode
    BY <1>1 DEF TypeOK, Call
  <2>3. SoundQueue(Enqueue(tableLockMap[arg[t].table], t, arg[t].mode), pc')
    BY <1>2, <2>1, <2>2, EnqueueSound
  <2>4. /\ tableLockMap' = [tableLockMap EXCEPT ![arg[t].table] =
                               Enqueue(tableLockMap[arg[t].table], t, arg[t].mode)]
        /\ rowLockmap' = rowLockmap
    BY <1>6 DEF TableGrant
  <2> QED BY <1>r, <1>5, <2>1, <2>2, <2>3, <2>4, ReplaceQueue
<1>7. ASSUME NEW t \in Txn, RowGrant(t) PROVE SoundAfter
  <2>1. pc'[t] # "ended" /\ \A u \in Txn : pc'[u] = "ended" => pc[u] = "ended"
    BY <1>1, <1>7 DEF RowGrant, EndCall, Goto, TypeOK
  <2>2. RowOf(t) \in Row /\ arg[t].mode \in Mode
    BY <1>1 DEF TypeOK, Call, RowOf, Row
  <2>3. SoundQueue(Enqueue(rowLockmap[RowOf(t)], t, arg[t].mode), pc')
    BY <1>2, <2>1, <2>2, EnqueueSound
  <2>4. /\ rowLockmap' = [rowLockmap EXCEPT ![RowOf(t)] =
                             Enqueue(rowLockmap[RowOf(t)], t, arg[t].mode)]
        /\ tableLockMap' = tableLockMap
    BY <1>7 DEF RowGrant
  <2> QED BY <1>r, <1>5, <2>1, <2>2, <2>3, <2>4, ReplaceQueue
<1>8. ASSUME NEW t \in Txn, ReleaseQueues(t) PROVE SoundAfter
  <2>1. \A u \in Txn \ {t} : pc'[u] = "ended" => pc[u] = "ended"
    BY <1>4, <1>8 DEF ReleaseQueues
  <2>2. \A a \in Table : SoundQueue(Dequeue(tableLockMap[a], t), pc')
    BY <1>2, <2>1, DequeueSound
  <2>3. \A r \in Row : SoundQueue(Dequeue(rowLockmap[r], t), pc')
    BY <1>2, <2>1, DequeueSound
  <2> QED BY <1>8, <2>2, <2>3 DEF ReleaseQueues
<1>9. ASSUME NEW t \in Txn, NEW a \in Table, UnlockTable(t, a) PROVE SoundAfter
  <2>1. \A u \in Txn : pc'[u] = "ended" => pc[u] = "ended"
    <3>1. pc' = pc \/ WakeTable(a)
      BY <1>9 DEF UnlockTable
    <3> QED BY <1>4, <3>1 DEF WakeTable
  <2>2. SoundQueue(Dequeue(tableLockMap[a], t), pc')
    <3>1. tableLockMap[a] \in Seq(Request) /\ SoundQueue(tableLockMap[a], pc)
      BY <1>2
    <3>2. \A u \in Txn \ {t} : pc'[u] = "ended" => pc[u] = "ended"
      BY <2>1
    <3> QED BY <3>1, <3>2, DequeueSound
  <2>3. /\ rowLockmap' = rowLockmap
        /\ \/ tableLockMap' = [tableLockMap EXCEPT ![a] = Dequeue(tableLockMap[a], t)]
           \/ tableLockMap' = tableLockMap
    BY <1>9 DEF UnlockTable
  <2> QED BY <1>r, <1>5, <2>1, <2>2, <2>3, ReplaceQueue
<1>10. ASSUME NEW t \in Txn, NEW r \in Row, UnlockRow(t, r) PROVE SoundAfter
  <2>1. \A u \in Txn : pc'[u] = "ended" => pc[u] = "ended"
    <3>1. pc' = pc \/ WakeRow(r)
      BY <1>10 DEF UnlockRow
    <3> QED BY <1>4, <3>1 DEF WakeRow
  <2>2. SoundQueue(Dequeue(rowLockmap[r], t), pc')
    <3>1. rowLockmap[r] \in Seq(Request) /\ SoundQueue(rowLockmap[r], pc)
      BY <1>2
    <3>2. \A u \in Txn \ {t} : pc'[u] = "ended" => pc[u] = "ended"
      BY <2>1
    <3> QED BY <3>1, <3>2, DequeueSound
  <2>3. /\ tableLockMap' = tableLockMap
        /\ \/ rowLockmap' = [rowLockmap EXCEPT ![r] = Dequeue(rowLockmap[r], t)]
           \/ rowLockmap' = rowLockmap
    BY <1>10 DEF UnlockRow
  <2> QED BY <1>r, <1>5, <2>1, <2>2, <2>3, ReplaceQueue
<1>11. ASSUME /\ UNCHANGED queueVars
              /\ \A u \in Txn : pc'[u] = "ended" => pc[u] = "ended"
       PROVE  SoundAfter
  BY <1>2, <1>5, <1>11 DEF queueVars
<1> QED
  BY <1>1, <1>6, <1>7, <1>8, <1>9, <1>10, <1>11, OtherSteps

\* A repeated call upgrades the request it finds: a transaction never has two
\* requests in one queue, so the one that unlock and releaseAllLocks remove is
\* the only one.
THEOREM OneRequest == Spec => []OneRequestPerTxn
<1>1. QueueInv => OneRequestPerTxn
  BY DEF QueueInv
<1> QED BY QueueInvInit, QueueInvStep, <1>1, PTL DEF Spec

\* releaseAllLocks leaves no lock of an ended transaction behind, in any queue
\* and whatever the other sessions do.
THEOREM NothingAfterEnd == Spec => []EndedHoldsNothing
<1>1. QueueInv => EndedHoldsNothing
  BY DEF QueueInv
<1> QED BY QueueInvInit, QueueInvStep, <1>1, PTL DEF Spec

-----------------------------------------------------------------------------
(* No lost wakeup *)

\* A thread that is asleep after a step slept before it, in the same call, or
\* has just found the conflict that sends it to sleep.
LEMMA FallAsleep ==
    ASSUME TypeOK, [Next]_vars, NEW u \in Txn, pc'[u] = "T_sleep"
    PROVE  /\ arg'[u] = arg[u]
           /\ pc[u] = "T_sleep" \/ (Blocked(u) /\ UNCHANGED queueVars)
<1> DEFINE Goal == /\ arg'[u] = arg[u]
                   /\ pc[u] = "T_sleep" \/ (Blocked(u) /\ UNCHANGED queueVars)
<1>w. \A x \in Txn : Woken(pc[x]) # "T_sleep"
  BY DEF Woken
<1>1. ASSUME NEW t \in Txn, NEW a \in Table, NEW mode \in Mode, LockTable(t, a, mode)
      PROVE  Goal
  BY <1>1 DEF LockTable, StartCall, Goto, TypeOK
<1>2. ASSUME NEW t \in Txn, NEW r \in Row, NEW mode \in Mode, LockRow(t, r, mode)
      PROVE  Goal
  BY <1>2 DEF LockRow, StartCall, Goto, TypeOK
<1>3. ASSUME NEW t \in Txn, TableCheck(t) \/ TableWake(t) \/ TableGrant(t)
      PROVE  Goal
  BY <1>3 DEF TableCheck, TableVerdict, TableWake, TableGrant, EndCall, Goto, TypeOK
<1>4. ASSUME NEW t \in Txn, TableScan(t) PROVE Goal
  <2>1. CASE u # t
    BY <1>4, <2>1 DEF TableScan, TableVerdict, Goto, TypeOK
  <2>2. CASE u = t
    <3>1. FirstBlockers(tableLockMap[arg[t].table], t, arg[t].mode) # {}
      BY <1>4, <2>2 DEF TableScan, Goto, TypeOK
    <3>2. Blocked(t)
      BY <3>1 DEF FirstBlockers, Blocked
    <3> QED BY <1>4, <2>2, <3>2 DEF TableScan, queueVars
  <2> QED BY <2>1, <2>2
<1>5. ASSUME NEW t \in Txn, TableScanRows(t) PROVE Goal
  <2>0. TableVerdict(t, TRUE) \/ TableVerdict(t, FALSE)
    BY <1>5 DEF TableScanRows
  <2>1. CASE u # t
    BY <1>5, <2>0, <2>1 DEF TableScanRows, TableVerdict, Goto, TypeOK
  <2>2. CASE u = t
    <3>1. ~TableVerdict(t, FALSE)
      BY <2>2 DEF TableVerdict, Goto, TypeOK
    <3>2. \E r \in {arg[t].table} \X Key :
             FirstBlockers(rowLockmap[r], t, arg[t].mode) # {}
      BY <1>5, <3>1 DEF TableScanRows
    <3>3. Blocked(t)
      BY <3>2 DEF FirstBlockers, Blocked
    <3> QED BY <1>5, <2>2, <3>3 DEF TableScanRows, queueVars
  <2> QED BY <2>1, <2>2
<1>6. ASSUME NEW t \in Txn,
             RowCheck(t) \/ RowScan(t) \/ RowScanTable(t) \/ RowWake(t) \/ RowGrant(t)
      PROVE  Goal
  BY <1>6 DEF RowCheck, RowScan, RowScanTable, RowWake, RowGrant, RowVerdict,
     EndCall, Goto, TypeOK
<1>7. ASSUME NEW t \in Txn, ReleaseAllLocks(t) \/ ReleaseQueues(t) PROVE Goal
  BY <1>7, <1>w DEF ReleaseAllLocks, ReleaseQueues, Goto, TypeOK
<1>8. ASSUME NEW t \in Txn, NEW a \in Table, UnlockTable(t, a) PROVE Goal
  BY <1>8, <1>w DEF UnlockTable, WakeTable
<1>9. ASSUME NEW t \in Txn, NEW r \in Row, UnlockRow(t, r) PROVE Goal
  BY <1>9, <1>w DEF UnlockRow, WakeRow
<1>10. ASSUME (\E v \in Txn : DetectNext(v)) \/ DetectErase \/ DetectEnd \/ UNCHANGED vars
       PROVE  Goal
  BY <1>10 DEF DetectNext, DetectErase, DetectEnd, threadVars, vars
<1> QED
  BY <1>1, <1>2, <1>3, <1>4, <1>5, <1>6, <1>7, <1>8, <1>9, <1>10, RowModeAssumption
     DEF Next, Begin, Continue, Detector, Quiescent

\* What another transaction enqueues does not remove a blocker.
LEMMA EnqueueBlockers ==
    ASSUME NEW queue \in Seq(Request), NEW t \in Txn, NEW mode \in Mode,
           NEW u, NEW wanted, Blockers(queue, u, wanted) # {}
    PROVE  Blockers(Enqueue(queue, t, mode), u, wanted) # {}
<1>1. PICK i \in DOMAIN queue : Conflicts(queue[i], u, wanted)
  BY DEF Blockers
<1>2. i \in DOMAIN Enqueue(queue, t, mode)
      /\ Conflicts(Enqueue(queue, t, mode)[i], u, wanted)
  <2>1. CASE Requested(queue, t)
    BY <1>1, <2>1 DEF Enqueue, Conflicts
  <2>2. CASE ~Requested(queue, t)
    BY <1>1, <2>2 DEF Enqueue
  <2> QED BY <2>1, <2>2
<1> QED BY <1>2 DEF Blockers

SleepInv == TypeOK /\ TableSleeperIsBlocked

\* Every action either leaves a sleeper its conflict or wakes it.
LEMMA SleepStep == ~RowUnlocking /\ SleepInv /\ [Next]_vars => SleepInv'
<1> SUFFICES ASSUME ~RowUnlocking, SleepInv, [Next]_vars PROVE SleepInv'
  OBVIOUS
<1>1. TypeOK /\ TypeOK'
  BY TypeStep DEF SleepInv
<1>2. SUFFICES ASSUME NEW u \in Txn, pc'[u] = "T_sleep" PROVE Blocked(u)'
  BY <1>1 DEF SleepInv, TableSleeperIsBlocked
<1>3. /\ arg'[u] = arg[u]
      /\ pc[u] = "T_sleep" \/ (Blocked(u) /\ UNCHANGED queueVars)
  BY <1>1, <1>2, FallAsleep
<1>4. Blocked(u)
  BY <1>2, <1>3 DEF SleepInv, TableSleeperIsBlocked
<1>t. /\ arg[u].table \in Table
      /\ \A r \in {arg[u].table} \X Key : r \in Row
      /\ tableLockMap \in [Table -> Seq(Request)]
      /\ rowLockmap \in [Row -> Seq(Request)]
  BY <1>1 DEF TypeOK, Call, Row
<1>5. CASE UNCHANGED queueVars
  BY <1>3, <1>4, <1>5 DEF Blocked, queueVars
<1>6. CASE pc[u] = "T_sleep" /\ ~UNCHANGED queueVars
  <2>1. ASSUME NEW t \in Txn, TableGrant(t) PROVE Blocked(u)'
    <3>1. arg[t].table \in Table /\ arg[t].mode \in Mode
      BY <1>1 DEF TypeOK, Call
    <3>2. /\ tableLockMap' = [tableLockMap EXCEPT ![arg[t].table] =
                                 Enqueue(tableLockMap[arg[t].table], t, arg[t].mode)]
          /\ rowLockmap' = rowLockmap
      BY <2>1 DEF TableGrant
    <3>3. Blockers(tableLockMap[arg[u].table], u, arg[u].mode) # {} =>
             Blockers(tableLockMap'[arg[u].table], u, arg[u].mode) # {}
      BY <1>t, <3>1, <3>2, EnqueueBlockers
    <3> QED BY <1>3, <1>4, <3>2, <3>3 DEF Blocked
  <2>2. ASSUME NEW t \in Txn, RowGrant(t) PROVE Blocked(u)'
    <3>1. RowOf(t) \in Row /\ arg[t].mode \in Mode
      BY <1>1 DEF TypeOK, Call, RowOf, Row
    <3>2. /\ rowLockmap' = [rowLockmap EXCEPT ![RowOf(t)] =
                               Enqueue(rowLockmap[RowOf(t)], t, arg[t].mode)]
          /\ tableLockMap' = tableLockMap
      BY <2>2 DEF RowGrant
    <3>3. \A r \in Row : Blockers(rowLockmap[r], u, arg[u].mode) # {} =>
             Blockers(rowLockmap'[r], u, arg[u].mode) # {}
      BY <1>t, <3>1, <3>2, EnqueueBlockers
    <3> QED BY <1>t, <1>3, <1>4, <3>2, <3>3 DEF Blocked
  <2>3. ASSUME NEW t \in Txn, ReleaseQueues(t) PROVE FALSE
    BY <1>2, <2>3 DEF ReleaseQueues, Woken
  <2>4. ASSUME NEW t \in Txn, NEW a \in Table, UnlockTable(t, a) PROVE Blocked(u)'
    <3>1. arg[u].table # a
      <4>1. WakeTable(a)
        BY <1>6, <2>4 DEF UnlockTable, queueVars
      <4> QED BY <1>2, <1>6, <4>1 DEF WakeTable, Woken
    <3>2. rowLockmap' = rowLockmap /\ tableLockMap'[arg[u].table] = tableLockMap[arg[u].table]
      BY <1>t, <2>4, <3>1 DEF UnlockTable
    <3> QED BY <1>3, <1>4, <3>2 DEF Blocked
  <2>5. ASSUME NEW t \in Txn, NEW r \in Row, UnlockRow(t, r) PROVE FALSE
    BY <2>5 DEF UnlockRow
  <2> QED BY <1>1, <1>6, <2>1, <2>2, <2>3, <2>4, <2>5, OtherSteps
<1> QED BY <1>3, <1>5, <1>6

\* A lockTable that sleeps has a conflict to wait for: as long as no client
\* calls unlockRow, whose notify_all reaches only the row's own sleepers, every
\* step that removes a conflict also notifies those who wait for it.
THEOREM NoLostWakeup == ~RowUnlocking => (Spec => []TableSleeperIsBlocked)
<1> SUFFICES ASSUME ~RowUnlocking PROVE Spec => []TableSleeperIsBlocked
  OBVIOUS
<1>1. Init => SleepInv
  BY TypeInit DEF Init, SleepInv, TableSleeperIsBlocked
<1>2. SleepInv /\ [Next]_vars => SleepInv'
  BY SleepStep
<1>3. SleepInv => TableSleeperIsBlocked
  BY DEF SleepInv
<1> QED BY <1>1, <1>2, <1>3, PTL DEF Spec

-----------------------------------------------------------------------------
(* Without the detector *)

\* The vertex a call makes stays until the call returns, and lockRow never
\* looks at a queue.
VertexInv ==
    /\ detector.victim = NoTxn
    /\ \A t \in Txn : pc[t] \in TableSteps \cup RowSteps => t \in waitVertex
    /\ \A t \in Txn : pc[t] \notin {"R_scan", "R_tables", "R_sleep", "R_woken"}

\* Without the detector every caller keeps its vertex, so lockRow never scans.
LEMMA VertexStep ==
    ~CycleDetection /\ TypeOK /\ VertexInv /\ [Next]_vars => VertexInv'
<1> SUFFICES ASSUME ~CycleDetection, TypeOK, VertexInv, [Next]_vars PROVE VertexInv'
  OBVIOUS
<1> USE DEF VertexInv, TableSteps, RowSteps
<1>1. ASSUME NEW t \in Txn, NEW a \in Table, NEW mode \in Mode, LockTable(t, a, mode)
      PROVE  VertexInv'
  BY <1>1 DEF LockTable, StartCall, MakeWaitVertex, Goto, TypeOK
<1>2. ASSUME NEW t \in Txn, NEW r \in Row, NEW mode \in Mode, LockRow(t, r, mode)
      PROVE  VertexInv'
  BY <1>2 DEF LockRow, StartCall, MakeWaitVertex, Goto, TypeOK
<1>3. ASSUME NEW t \in Txn, TableCheck(t) \/ TableWake(t) \/ TableGrant(t)
      PROVE  VertexInv'
  BY <1>3 DEF TableCheck, TableVerdict, TableWake, TableGrant, EndCall, Goto,
     graphVars, TypeOK
<1>4. ASSUME NEW t \in Txn, TableScan(t) PROVE VertexInv'
  BY <1>4 DEF TableScan, TableVerdict, AddEdge, Goto, graphVars, TypeOK
<1>5. ASSUME NEW t \in Txn, TableScanRows(t) PROVE VertexInv'
  <2>1. TableVerdict(t, TRUE) \/ TableVerdict(t, FALSE)
    BY <1>5 DEF TableScanRows
  <2>2. waitVertex \subseteq waitVertex'
    BY <1>5 DEF TableScanRows, AddEdge, graphVars
  <2> QED
    BY <1>5, <2>1, <2>2 DEF TableScanRows, TableVerdict, Goto, TypeOK
<1>6. ASSUME NEW t \in Txn,
             RowCheck(t) \/ RowScan(t) \/ RowScanTable(t) \/ RowWake(t) \/ RowGrant(t)
      PROVE  VertexInv'
  BY <1>6 DEF RowCheck, RowScan, RowScanTable, RowWake, RowGrant, RowVerdict,
     EndCall, Goto, graphVars, TypeOK
<1>7. ASSUME NEW t \in Txn, ReleaseAllLocks(t) \/ ReleaseQueues(t)
      PROVE  VertexInv'
  BY <1>7 DEF ReleaseAllLocks, ReleaseQueues, Woken, Goto, graphVars, TypeOK
<1>8. ASSUME NEW t \in Txn, NEW a \in Table, UnlockTable(t, a) PROVE VertexInv'
  <2>1. pc' = pc \/ WakeTable(a)
    BY <1>8 DEF UnlockTable
  <2>2. waitVertex \ {t} \subseteq waitVertex' /\ pc[t] = "idle"
    BY <1>8 DEF UnlockTable, RemoveAllEdge, graphVars
  <2> QED
    BY <1>8, <2>1, <2>2 DEF UnlockTable, WakeTable, Woken, TypeOK
<1>9. ASSUME NEW t \in Txn, NEW r \in Row, UnlockRow(t, r) PROVE VertexInv'
  <2>1. pc' = pc \/ WakeRow(r)
    BY <1>9 DEF UnlockRow
  <2>2. waitVertex \ {t} \subseteq waitVertex' /\ pc[t] = "idle"
    BY <1>9 DEF UnlockRow, RemoveAllEdge, graphVars
  <2> QED
    BY <1>9, <2>1, <2>2 DEF UnlockRow, WakeRow, Woken, TypeOK
<1>10. ASSUME (\E v \in Txn : DetectNext(v)) \/ DetectErase \/ DetectEnd \/ UNCHANGED vars
       PROVE  VertexInv'
  BY <1>10 DEF DetectNext, DetectErase, DetectEnd, threadVars, graphVars, vars
<1> QED
  BY <1>1, <1>2, <1>3, <1>4, <1>5, <1>6, <1>7, <1>8, <1>9, <1>10, RowModeAssumption
     DEF Next, Begin, Continue, Detector, Quiescent

\* Without the detector lockRow never asks for the table latch while it holds
\* the row latch, so the opposite latch orders of lockTable and lockRow cannot
\* meet.  (With it they can: run lm_latch.)
THEOREM LatchOrder == ~CycleDetection => (Spec => []NoLatchDeadlock)
<1> SUFFICES ASSUME ~CycleDetection PROVE Spec => []NoLatchDeadlock
  OBVIOUS
<1>1. Init => TypeOK /\ VertexInv
  BY TypeInit DEF Init, VertexInv, TableSteps, RowSteps
<1>2. TypeOK /\ VertexInv /\ [Next]_vars => (TypeOK /\ VertexInv)'
  BY TypeStep, VertexStep
<1>3. VertexInv => NoLatchDeadlock
  BY DEF VertexInv, NoLatchDeadlock
<1> QED BY <1>1, <1>2, <1>3, PTL DEF Spec

\* The table latch is held through the steps that say so, and only then.
LatchInv ==
    \A t \in Txn : tableLatch = t <=>
        pc[t] \in {"T_check", "T_scan", "T_rows", "T_grant", "release"}

\* The table latch is held exactly over the steps between its taking and its
\* release.
LEMMA LatchStep == TypeOK /\ LatchInv /\ [Next]_vars => LatchInv'
<1> SUFFICES ASSUME TypeOK, LatchInv, [Next]_vars PROVE LatchInv'
  OBVIOUS
<1> USE DEF LatchInv, NoTxn
<1>1. ASSUME NEW t \in Txn, NEW a \in Table, NEW mode \in Mode, LockTable(t, a, mode)
      PROVE  LatchInv'
  BY <1>1, TxnAssumption DEF LockTable, StartCall, Goto, TypeOK
<1>2. ASSUME NEW t \in Txn, NEW r \in Row, NEW mode \in Mode, LockRow(t, r, mode)
      PROVE  LatchInv'
  BY <1>2 DEF LockRow, StartCall, Goto, TypeOK
<1>3. ASSUME NEW t \in Txn, TableCheck(t) \/ TableScan(t) PROVE LatchInv'
  BY <1>3, TxnAssumption DEF TableCheck, TableScan, TableVerdict, Goto, TypeOK
<1>4. ASSUME NEW t \in Txn, TableScanRows(t) PROVE LatchInv'
  <2>1. TableVerdict(t, TRUE) \/ TableVerdict(t, FALSE)
    BY <1>4 DEF TableScanRows
  <2>2. pc[t] = "T_rows"
    BY <1>4 DEF TableScanRows
  <2> QED BY <2>1, <2>2, TxnAssumption DEF TableVerdict, Goto, TypeOK
<1>5. ASSUME NEW t \in Txn, TableWake(t) \/ TableGrant(t) PROVE LatchInv'
  BY <1>5, TxnAssumption DEF TableWake, TableGrant, EndCall, Goto, TypeOK
<1>6. ASSUME NEW t \in Txn,
             RowCheck(t) \/ RowScan(t) \/ RowScanTable(t) \/ RowWake(t) \/ RowGrant(t)
      PROVE  LatchInv'
  BY <1>6 DEF RowCheck, RowScan, RowScanTable, RowWake, RowGrant, RowVerdict,
     EndCall, Goto, TypeOK
<1>7. ASSUME NEW t \in Txn, ReleaseAllLocks(t) PROVE LatchInv'
  BY <1>7, TxnAssumption DEF ReleaseAllLocks, Goto, TypeOK
<1>8. ASSUME NEW t \in Txn, ReleaseQueues(t) PROVE LatchInv'
  BY <1>8, TxnAssumption DEF ReleaseQueues, Woken, TypeOK
<1>9. ASSUME NEW t \in Txn, NEW a \in Table, UnlockTable(t, a) PROVE LatchInv'
  <2>1. pc' = pc \/ WakeTable(a)
    BY <1>9 DEF UnlockTable
  <2>2. tableLatch' = tableLatch
    BY <1>9 DEF UnlockTable, latchVars
  <2> QED BY <2>1, <2>2 DEF WakeTable, Woken, TypeOK
<1>10. ASSUME NEW t \in Txn, NEW r \in Row, UnlockRow(t, r) PROVE LatchInv'
  <2>1. pc' = pc \/ WakeRow(r)
    BY <1>10 DEF UnlockRow
  <2>2. tableLatch' = tableLatch
    BY <1>10 DEF UnlockRow, latchVars
  <2> QED BY <2>1, <2>2 DEF WakeRow, Woken, TypeOK
<1>11. ASSUME (\E v \in Txn : DetectNext(v)) \/ DetectErase \/ DetectEnd \/ UNCHANGED vars
       PROVE  LatchInv'
  BY <1>11 DEF DetectNext, DetectErase, DetectEnd, latchVars, threadVars, vars
<1> QED
  BY <1>1, <1>2, <1>3, <1>4, <1>5, <1>6, <1>7, <1>8, <1>9, <1>10, <1>11,
     RowModeAssumption DEF Next, Begin, Continue, Detector, Quiescent

\* From the scan of the table's queue to the grant nothing has come into it.
ScanInv ==
    \A t \in Txn : pc[t] = "T_rows" \/ (pc[t] = "T_grant" /\ rewait[t]) =>
        Blockers(tableLockMap[arg[t].table], t, arg[t].mode) = {}

\* A thread that is past the scan was past it before, in the same call, or has
\* just scanned a queue without a blocker.
LEMMA PastScan ==
    ASSUME TypeOK, VertexInv, [Next]_vars, NEW u \in Txn,
           pc'[u] = "T_rows" \/ (pc'[u] = "T_grant" /\ rewait'[u])
    PROVE  /\ arg'[u] = arg[u]
           /\ \/ pc[u] = "T_rows"
              \/ pc[u] = "T_grant" /\ rewait[u]
              \/ /\ Blockers(tableLockMap[arg[u].table], u, arg[u].mode) = {}
                 /\ pc[u] = "T_scan"
<1> DEFINE Goal == /\ arg'[u] = arg[u]
                   /\ \/ pc[u] = "T_rows"
                      \/ pc[u] = "T_grant" /\ rewait[u]
                      \/ /\ Blockers(tableLockMap[arg[u].table], u, arg[u].mode) = {}
                         /\ pc[u] = "T_scan"
<1>w. \A x \in Txn : Woken(pc[x]) \in {"T_rows", "T_grant"} => Woken(pc[x]) = pc[x]
  BY DEF Woken
<1>1. ASSUME NEW t \in Txn, NEW a \in Table, NEW mode \in Mode, LockTable(t, a, mode)
      PROVE  Goal
  BY <1>1 DEF LockTable, StartCall, Goto, TypeOK
<1>2. ASSUME NEW t \in Txn, NEW r \in Row, NEW mode \in Mode, LockRow(t, r, mode)
      PROVE  Goal
  BY <1>2 DEF LockRow, StartCall, Goto, TypeOK
<1>3. ASSUME NEW t \in Txn, TableCheck(t) PROVE Goal
  <2>1. t \in waitVertex
    BY <1>3 DEF TableCheck, VertexInv, TableSteps
  <2> QED BY <1>3, <2>1 DEF TableCheck, Goto, TypeOK
<1>4. ASSUME NEW t \in Txn, TableScan(t) PROVE Goal
  BY <1>4 DEF TableScan, TableVerdict, Goto, TypeOK
<1>5. ASSUME NEW t \in Txn, TableScanRows(t) PROVE Goal
  <2>1. TableVerdict(t, TRUE) \/ TableVerdict(t, FALSE)
    BY <1>5 DEF TableScanRows
  <2> QED BY <1>5, <2>1 DEF TableScanRows, TableVerdict, Goto, TypeOK
<1>6. ASSUME NEW t \in Txn, TableWake(t) \/ TableGrant(t) PROVE Goal
  BY <1>6 DEF TableWake, TableGrant, EndCall, Goto, TypeOK
<1>7. ASSUME NEW t \in Txn,
             RowCheck(t) \/ RowScan(t) \/ RowScanTable(t) \/ RowWake(t) \/ RowGrant(t)
      PROVE  Goal
  BY <1>7 DEF RowCheck, RowScan, RowScanTable, RowWake, RowGrant, RowVerdict,
     EndCall, Goto, TypeOK
<1>8. ASSUME NEW t \in Txn, ReleaseAllLocks(t) \/ ReleaseQueues(t) PROVE Goal
  BY <1>8, <1>w DEF ReleaseAllLocks, ReleaseQueues, Goto, TypeOK
<1>9. ASSUME NEW t \in Txn, NEW a \in Table, UnlockTable(t, a) PROVE Goal
  <2>1. pc' = pc \/ WakeTable(a)
    BY <1>9 DEF UnlockTable
  <2> QED BY <1>9, <1>w, <2>1 DEF UnlockTable, WakeTable
<1>10. ASSUME NEW t \in Txn, NEW r \in Row, UnlockRow(t, r) PROVE Goal
  <2>1. pc' = pc \/ WakeRow(r)
    BY <1>10 DEF UnlockRow
  <2> QED BY <1>10, <1>w, <2>1 DEF UnlockRow, WakeRow
<1>11. ASSUME (\E v \in Txn : DetectNext(v)) \/ DetectErase \/ DetectEnd \/ UNCHANGED vars
       PROVE  Goal
  BY <1>11 DEF DetectNext, DetectErase, DetectEnd, threadVars, vars
<1> QED
  BY <1>1, <1>2, <1>3, <1>4, <1>5, <1>6, <1>7, <1>8, <1>9, <1>10, <1>11,
     RowModeAssumption DEF Next, Begin, Continue, Detector, Quiescent

\* What a re-evaluated scan found still holds when the lock is granted.
LEMMA ScanStep ==
    TypeOK /\ VertexInv /\ LatchInv /\ ScanInv /\ [Next]_vars => ScanInv'
<1> SUFFICES ASSUME TypeOK, VertexInv, LatchInv, ScanInv, [Next]_vars,
                    NEW u \in Txn,
                    pc'[u] = "T_rows" \/ (pc'[u] = "T_grant" /\ rewait'[u])
             PROVE  Blockers(tableLockMap[arg[u].table], u, arg[u].mode)' = {}
  BY DEF ScanInv
<1>1. /\ arg'[u] = arg[u]
      /\ pc[u] \in {"T_scan", "T_rows", "T_grant"}
      /\ Blockers(tableLockMap[arg[u].table], u, arg[u].mode) = {}
  BY PastScan DEF ScanInv
<1>2. tableLatch = u
  BY <1>1 DEF LatchInv
<1>3. CASE tableLockMap' = tableLockMap
  BY <1>1, <1>3 DEF Blockers
<1>4. CASE tableLockMap' # tableLockMap
  <2>1. ASSUME NEW t \in Txn, TableGrant(t) PROVE FALSE
    <3>1. tableLatch = t
      BY <2>1 DEF TableGrant, LatchInv
    <3> QED BY <1>2, <2>1, <3>1 DEF TableGrant, EndCall, Goto, TypeOK
  <2>2. ASSUME NEW t \in Txn, RowGrant(t) PROVE FALSE
    BY <1>4, <2>2 DEF RowGrant
  <2>3. ASSUME NEW t \in Txn, ReleaseQueues(t) PROVE FALSE
    <3>1. tableLatch = t
      BY <2>3 DEF ReleaseQueues, LatchInv
    <3> QED BY <1>1, <1>2, <2>3, <3>1 DEF ReleaseQueues
  <2>4. ASSUME NEW t \in Txn, NEW a \in Table, UnlockTable(t, a) PROVE FALSE
    BY <1>2, <2>4, TxnAssumption DEF UnlockTable, NoTxn
  <2>5. ASSUME NEW t \in Txn, NEW r \in Row, UnlockRow(t, r) PROVE FALSE
    BY <1>4, <2>5 DEF UnlockRow
  <2> QED BY <1>4, <2>1, <2>2, <2>3, <2>4, <2>5, OtherSteps DEF queueVars
<1> QED BY <1>3, <1>4

\* Without the detector, a lockTable that went through cv_.wait joins a queue
\* that holds no request in its way.
THEOREM WaitedGrant == ~CycleDetection => (Spec => []WaitedGrantIsClear)
<1> SUFFICES ASSUME ~CycleDetection PROVE Spec => []WaitedGrantIsClear
  OBVIOUS
<1> DEFINE Inv == TypeOK /\ VertexInv /\ LatchInv /\ ScanInv
<1>1. Init => Inv
  BY TypeInit, TxnAssumption
     DEF Init, VertexInv, LatchInv, ScanInv, TableSteps, RowSteps, NoTxn
<1>2. Inv /\ [Next]_vars => Inv'
  BY TypeStep, VertexStep, LatchStep, ScanStep
<1>3. Inv => WaitedGrantIsClear
  BY DEF ScanInv, WaitedGrantIsClear
<1> QED BY <1>1, <1>2, <1>3, PTL DEF Spec

-----------------------------------------------------------------------------
(* Refinement of LockRequests *)

\* In a queue with one request per transaction any request of t tells its mode.
LEMMA ModeInRequest ==
    ASSUME NEW queue \in Seq(Request), NEW t, SingleRequests(queue),
           NEW i \in DOMAIN queue, queue[i].txn = t
    PROVE  ModeIn(queue, t) = queue[i].mode
<1> DEFINE c == CHOOSE j \in DOMAIN queue : queue[j].txn = t
<1>1. c \in DOMAIN queue /\ queue[c].txn = t
  OBVIOUS
<1>2. ModeIn(queue, t) = queue[c].mode
  BY DEF ModeIn, Requested
<1> HIDE DEF c
<1> QED BY <1>1, <1>2 DEF SingleRequests

\* What a transaction holds in a queue is a mode or nothing.
LEMMA ModeInType ==
    ASSUME NEW queue \in Seq(Request), NEW t, SingleRequests(queue)
    PROVE  ModeIn(queue, t) \in {"NONE", "SHARED", "EXCLUSIVE"}
<1>1. CASE Requested(queue, t)
  <2>1. PICK i \in DOMAIN queue : queue[i].txn = t
    BY <1>1 DEF Requested
  <2>2. queue[i].mode \in Mode
    BY RequestFields
  <2> QED BY <2>1, <2>2, ModeInRequest DEF Mode
<1>2. CASE ~Requested(queue, t)
  BY <1>2 DEF ModeIn
<1> QED BY <1>1, <1>2

\* Enqueueing strengthens t's mode and leaves everybody else's.
LEMMA EnqueueMode ==
    ASSUME NEW queue \in Seq(Request), NEW t \in Txn, NEW mode \in Mode,
           SingleRequests(queue)
    PROVE  /\ ModeIn(Enqueue(queue, t, mode), t) =
                 IF ModeIn(queue, t) = "EXCLUSIVE" THEN "EXCLUSIVE" ELSE mode
           /\ \A u \in Txn \ {t} : ModeIn(Enqueue(queue, t, mode), u) = ModeIn(queue, u)
<1> DEFINE new == Enqueue(queue, t, mode)
<1>1. new \in Seq(Request) /\ SingleRequests(new)
  BY EnqueueType, EnqueueSingle
<1>2. CASE Requested(queue, t)
  <2>1. PICK i \in DOMAIN queue : queue[i].txn = t
    BY <1>2 DEF Requested
  <2>2. /\ DOMAIN new = DOMAIN queue
        /\ \A j \in DOMAIN queue : new[j].txn = queue[j].txn
        /\ \A j \in DOMAIN queue : queue[j].txn # t => new[j].mode = queue[j].mode
        /\ new[i].mode = IF mode = "EXCLUSIVE" THEN "EXCLUSIVE" ELSE queue[i].mode
    BY <1>2, <2>1 DEF Enqueue
  <2>3. queue[i].mode \in Mode
    BY RequestFields
  <2> HIDE DEF new
  <2>4. ModeIn(new, t) = new[i].mode /\ ModeIn(queue, t) = queue[i].mode
    <3>1. i \in DOMAIN new /\ new[i].txn = t
      BY <2>1, <2>2
    <3>2. ModeIn(new, t) = new[i].mode
      BY <1>1, <3>1, ModeInRequest
    <3>3. ModeIn(queue, t) = queue[i].mode
      BY <2>1, ModeInRequest
    <3> QED BY <3>2, <3>3
  <2>5. ASSUME NEW u \in Txn \ {t} PROVE ModeIn(new, u) = ModeIn(queue, u)
    <3>1. CASE Requested(queue, u)
      <4>1. PICK j \in DOMAIN queue : queue[j].txn = u
        BY <3>1 DEF Requested
      <4> QED BY <1>1, <2>2, <4>1, ModeInRequest
    <3>2. CASE ~Requested(queue, u)
      BY <2>2, <3>2 DEF ModeIn, Requested
    <3> QED BY <3>1, <3>2
  <2> QED BY <2>2, <2>3, <2>4, <2>5 DEF new, Mode
<1>3. CASE ~Requested(queue, t)
  <2> DEFINE n == Len(queue) + 1
  <2>1. new = Append(queue, [txn |-> t, mode |-> mode])
    BY <1>3 DEF Enqueue
  <2>2. /\ DOMAIN new = 1..n /\ n \in DOMAIN new
        /\ new[n] = [txn |-> t, mode |-> mode]
        /\ \A j \in DOMAIN queue : j \in DOMAIN new /\ new[j] = queue[j]
        /\ \A j \in DOMAIN new : j = n \/ j \in DOMAIN queue
    BY <2>1
  <2> HIDE DEF new, n
  <2>3. ModeIn(new, t) = mode /\ ModeIn(queue, t) = "NONE"
    <3>1. new[n].txn = t /\ new[n].mode = mode
      BY <2>2
    <3>2. ModeIn(new, t) = new[n].mode
      BY <1>1, <2>2, <3>1, ModeInRequest
    <3> QED BY <1>3, <3>1, <3>2 DEF ModeIn
  <2>4. ASSUME NEW u \in Txn \ {t} PROVE ModeIn(new, u) = ModeIn(queue, u)
    <3>1. CASE Requested(queue, u)
      <4>1. PICK j \in DOMAIN queue : queue[j].txn = u
        BY <3>1 DEF Requested
      <4> QED BY <1>1, <2>2, <4>1, ModeInRequest
    <3>2. CASE ~Requested(queue, u)
      <4>1. ~Requested(new, u)
        BY <2>2, <3>2 DEF Requested
      <4> QED BY <3>2, <4>1 DEF ModeIn
    <3> QED BY <3>1, <3>2
  <2> QED BY <2>3, <2>4 DEF new
<1> QED BY <1>2, <1>3

\* Dequeueing takes t's lock and leaves everybody else's.
LEMMA DequeueMode ==
    ASSUME NEW queue \in Seq(Request), NEW t \in Txn, SingleRequests(queue)
    PROVE  /\ ModeIn(Dequeue(queue, t), t) = "NONE"
           /\ \A u \in Txn \ {t} : ModeIn(Dequeue(queue, t), u) = ModeIn(queue, u)
<1> DEFINE new == Dequeue(queue, t)
<1>1. new \in Seq(Request) /\ SingleRequests(new) /\ ~Requested(new, t)
  BY DequeueType, DequeueRequests
<1>2. ModeIn(new, t) = "NONE"
  BY <1>1 DEF ModeIn
<1>3. ASSUME NEW u \in Txn \ {t} PROVE ModeIn(new, u) = ModeIn(queue, u)
  <2>1. CASE ~Requested(queue, u)
    <3>1. ~Requested(new, u)
      BY <2>1, DequeueRequests
    <3> QED BY <2>1, <3>1 DEF ModeIn
  <2>2. CASE Requested(queue, u) /\ ~Requested(queue, t)
    BY <2>2 DEF Dequeue
  <2>3. CASE Requested(queue, u) /\ Requested(queue, t)
    <3> DEFINE i == CHOOSE i \in DOMAIN queue : queue[i].txn = t
    <3>1. i \in 1..Len(queue) /\ queue[i].txn = t
      BY <2>3 DEF Requested
    <3>2. new = RemoveAt(queue, i)
      BY <2>3 DEF Dequeue
    <3> HIDE DEF i
    <3>3. PICK k \in DOMAIN queue : queue[k].txn = u
      BY <2>3 DEF Requested
    <3> DEFINE j == IF k < i THEN k ELSE k - 1
    <3>4. j \in DOMAIN new /\ new[j] = queue[k]
      <4>1. k # i
        BY <3>1, <3>3
      <4> QED BY <3>1, <3>2, <3>3, <4>1, RemovedAt
    <3> HIDE DEF j, new
    <3> QED BY <1>1, <3>3, <3>4, ModeInRequest
  <2> QED BY <2>1, <2>2, <2>3
<1> QED BY <1>2, <1>3

\* Two modes of everybody are equal when they agree on t and on the others.
LEMMA SameModes ==
    ASSUME NEW f, NEW t \in Txn, NEW mode, f = [u \in Txn |-> f[u]],
           NEW g, g = [u \in Txn |-> g[u]],
           f[t] = mode, \A u \in Txn \ {t} : f[u] = g[u]
    PROVE  f = [g EXCEPT ![t] = mode]
OBVIOUS

\* On the modes that clients see, enqueueing is Strengthen.
LEMMA EnqueueModes ==
    ASSUME NEW queue \in Seq(Request), NEW t \in Txn, NEW mode \in Mode,
           SingleRequests(queue)
    PROVE  ModesIn(Enqueue(queue, t, mode)) = Requests!Strengthen(ModesIn(queue), t, mode)
<1> DEFINE f == ModesIn(Enqueue(queue, t, mode))
           g == ModesIn(queue)
<1>1. /\ f = [u \in Txn |-> f[u]] /\ g = [u \in Txn |-> g[u]]
      /\ \A u \in Txn : f[u] = ModeIn(Enqueue(queue, t, mode), u)
      /\ \A u \in Txn : g[u] = ModeIn(queue, u)
  BY DEF ModesIn
<1> HIDE DEF f, g
<1>2. /\ f[t] = IF g[t] = "EXCLUSIVE" THEN "EXCLUSIVE" ELSE mode
      /\ \A u \in Txn \ {t} : f[u] = g[u]
  BY <1>1, EnqueueMode
<1>3. f = [g EXCEPT ![t] = IF g[t] = "EXCLUSIVE" THEN "EXCLUSIVE" ELSE mode]
  BY <1>1, <1>2, SameModes
<1> QED BY <1>3 DEF f, g, Requests!Strengthen

\* On the modes that clients see, dequeueing is Drop.
LEMMA DequeueModes ==
    ASSUME NEW queue \in Seq(Request), NEW t \in Txn, SingleRequests(queue)
    PROVE  ModesIn(Dequeue(queue, t)) = Requests!Drop(ModesIn(queue), t)
<1> DEFINE f == ModesIn(Dequeue(queue, t))
           g == ModesIn(queue)
<1>1. /\ f = [u \in Txn |-> f[u]] /\ g = [u \in Txn |-> g[u]]
      /\ \A u \in Txn : f[u] = ModeIn(Dequeue(queue, t), u)
      /\ \A u \in Txn : g[u] = ModeIn(queue, u)
  BY DEF ModesIn
<1> HIDE DEF f, g
<1>2. f[t] = "NONE" /\ \A u \in Txn \ {t} : f[u] = g[u]
  BY <1>1, DequeueMode
<1>3. f = [g EXCEPT ![t] = "NONE"]
  BY <1>1, <1>2, SameModes
<1> QED BY <1>3 DEF f, g, Requests!Drop

\* One queue changes: one entry of the modes changes.
LEMMA HeldExcept ==
    ASSUME NEW D, NEW map \in [D -> Seq(Request)], NEW d \in D, NEW queue
    PROVE  [x \in D |-> ModesIn([map EXCEPT ![d] = queue][x])] =
           [[x \in D |-> ModesIn(map[x])] EXCEPT ![d] = ModesIn(queue)]
OBVIOUS

\* The initial states map to initial states.
LEMMA RefinementInit == Init => Requests!Init
<1> SUFFICES ASSUME Init PROVE Requests!Init
  OBVIOUS
<1>1. ModesIn(<<>>) = Requests!NoneHeld
  BY DEF ModesIn, ModeIn, Requested, Requests!NoneHeld
<1>2. tableHeld = [a \in Table |-> Requests!NoneHeld]
  BY <1>1 DEF Init, tableHeld
<1>3. rowHeld = [r \in Row |-> Requests!NoneHeld]
  BY <1>1 DEF Init, rowHeld
<1>4. openTxns = Txn
  BY DEF Init, openTxns
<1> QED BY <1>2, <1>3, <1>4 DEF Requests!Init

\* Every step maps to a step of LockRequests or a stutter.
LEMMA RefinementStep == QueueInv /\ TypeOK' /\ [Next]_vars => [Requests!Next]_(Requests!vars)
<1> SUFFICES ASSUME QueueInv, TypeOK', [Next]_vars
             PROVE  Requests!Next \/ UNCHANGED Requests!vars
  OBVIOUS
<1>t. /\ TypeOK
      /\ tableLockMap \in [Table -> Seq(Request)]
      /\ rowLockmap \in [Row -> Seq(Request)]
      /\ \A a \in Table : SingleRequests(tableLockMap[a])
      /\ \A r \in Row : SingleRequests(rowLockmap[r])
  BY DEF QueueInv, TypeOK, OneRequestPerTxn, Queues
<1>w. \A u \in Txn : Woken(pc[u]) = "ended" <=> pc[u] = "ended"
  BY DEF Woken
<1>h. /\ \A a \in Table : tableHeld[a] = ModesIn(tableLockMap[a])
      /\ \A r \in Row : rowHeld[r] = ModesIn(rowLockmap[r])
  BY DEF tableHeld, rowHeld
<1>a. tableLockMap' = tableLockMap => tableHeld' = tableHeld
  BY DEF tableHeld
<1>b. rowLockmap' = rowLockmap => rowHeld' = rowHeld
  BY DEF rowHeld
<1>1. ASSUME NEW t \in Txn, TableGrant(t) PROVE Requests!Next
  <2> DEFINE a == arg[t].table
             mode == arg[t].mode
             queue == Enqueue(tableLockMap[a], t, mode)
  <2>1. a \in Table /\ mode \in Mode
    BY <1>t DEF TypeOK, Call
  <2>2. openTxns' = openTxns /\ t \in openTxns
    BY <1>1, <1>t DEF TableGrant, EndCall, Goto, openTxns, TypeOK
  <2>3. tableLockMap' = [tableLockMap EXCEPT ![a] = queue] /\ rowLockmap' = rowLockmap
    BY <1>1 DEF TableGrant
  <2> HIDE DEF a, mode
  <2>4. ModesIn(queue) = Requests!Strengthen(tableHeld[a], t, mode)
    BY <1>t, <1>h, <2>1, EnqueueModes
  <2> HIDE DEF queue
  <2>5. tableHeld' = [tableHeld EXCEPT ![a] = ModesIn(queue)]
    BY <1>t, <2>1, <2>3, HeldExcept DEF tableHeld
  <2>6. Requests!AcquireTable(t, a, mode)
    BY <1>b, <2>2, <2>3, <2>4, <2>5 DEF Requests!AcquireTable
  <2> QED BY <2>1, <2>2, <2>6 DEF Requests!Next, Requests!Mode, Mode
<1>2. ASSUME NEW t \in Txn, RowGrant(t) PROVE Requests!Next
  <2> DEFINE r == RowOf(t)
             mode == arg[t].mode
             queue == Enqueue(rowLockmap[r], t, mode)
  <2>1. r \in Row /\ mode \in Mode
    BY <1>t DEF TypeOK, Call, RowOf, Row
  <2>2. openTxns' = openTxns /\ t \in openTxns
    BY <1>2, <1>t DEF RowGrant, EndCall, Goto, openTxns, TypeOK
  <2>3. rowLockmap' = [rowLockmap EXCEPT ![r] = queue] /\ tableLockMap' = tableLockMap
    BY <1>2 DEF RowGrant
  <2> HIDE DEF r, mode
  <2>4. ModesIn(queue) = Requests!Strengthen(rowHeld[r], t, mode)
    BY <1>t, <1>h, <2>1, EnqueueModes
  <2> HIDE DEF queue
  <2>5. rowHeld' = [rowHeld EXCEPT ![r] = ModesIn(queue)]
    BY <1>t, <2>1, <2>3, HeldExcept DEF rowHeld
  <2>6. Requests!AcquireRow(t, r, mode)
    BY <1>a, <2>2, <2>3, <2>4, <2>5 DEF Requests!AcquireRow
  <2> QED BY <2>1, <2>2, <2>6 DEF Requests!Next, Requests!Mode, Mode
<1>3. ASSUME NEW t \in Txn, ReleaseQueues(t) PROVE Requests!Next
  <2>1. t \in openTxns /\ openTxns' = openTxns \ {t}
    BY <1>3, <1>t, <1>w DEF ReleaseQueues, openTxns, TypeOK
  <2>2. tableHeld' = [a \in Table |-> Requests!Drop(tableHeld[a], t)]
    <3>1. \A a \in Table : ModesIn(Dequeue(tableLockMap[a], t)) =
                              Requests!Drop(ModesIn(tableLockMap[a]), t)
      BY <1>t, DequeueModes
    <3>2. tableHeld' = [a \in Table |-> ModesIn(Dequeue(tableLockMap[a], t))]
      BY <1>3 DEF ReleaseQueues, tableHeld
    <3> QED BY <1>h, <3>1, <3>2
  <2>3. rowHeld' = [r \in Row |-> Requests!Drop(rowHeld[r], t)]
    <3>1. \A r \in Row : ModesIn(Dequeue(rowLockmap[r], t)) =
                            Requests!Drop(ModesIn(rowLockmap[r]), t)
      BY <1>t, DequeueModes
    <3>2. rowHeld' = [r \in Row |-> ModesIn(Dequeue(rowLockmap[r], t))]
      BY <1>3 DEF ReleaseQueues, rowHeld
    <3> QED BY <1>h, <3>1, <3>2
  <2> QED BY <2>1, <2>2, <2>3 DEF Requests!End, Requests!Next
<1>4. ASSUME NEW t \in Txn, NEW a \in Table, UnlockTable(t, a)
      PROVE  Requests!Next
  <2>1. openTxns' = openTxns /\ t \in openTxns
    <3>1. pc' = pc \/ WakeTable(a)
      BY <1>4 DEF UnlockTable
    <3>2. \A u \in Txn : pc'[u] = "ended" <=> pc[u] = "ended"
      BY <1>w, <3>1 DEF WakeTable
    <3> QED BY <1>4, <3>2 DEF UnlockTable, openTxns
  <2>2. /\ rowLockmap' = rowLockmap
        /\ tableLockMap' = [tableLockMap EXCEPT ![a] = Dequeue(tableLockMap[a], t)]
    BY <1>4, <1>t DEF UnlockTable, Dequeue
  <2>3. ModesIn(Dequeue(tableLockMap[a], t)) = Requests!Drop(tableHeld[a], t)
    BY <1>t, <1>h, DequeueModes
  <2>4. tableHeld' = [tableHeld EXCEPT ![a] = ModesIn(Dequeue(tableLockMap[a], t))]
    BY <1>t, <2>2, HeldExcept DEF tableHeld
  <2>5. Requests!ReleaseTable(t, a)
    BY <1>b, <2>1, <2>2, <2>3, <2>4 DEF Requests!ReleaseTable
  <2> QED BY <2>1, <2>5 DEF Requests!Next
<1>5. ASSUME NEW t \in Txn, NEW r \in Row, UnlockRow(t, r)
      PROVE  Requests!Next
  <2>1. openTxns' = openTxns /\ t \in openTxns
    <3>1. pc' = pc \/ WakeRow(r)
      BY <1>5 DEF UnlockRow
    <3>2. \A u \in Txn : pc'[u] = "ended" <=> pc[u] = "ended"
      BY <1>w, <3>1 DEF WakeRow
    <3> QED BY <1>5, <3>2 DEF UnlockRow, openTxns
  <2>2. /\ tableLockMap' = tableLockMap
        /\ rowLockmap' = [rowLockmap EXCEPT ![r] = Dequeue(rowLockmap[r], t)]
    BY <1>5, <1>t DEF UnlockRow, Dequeue
  <2>3. ModesIn(Dequeue(rowLockmap[r], t)) = Requests!Drop(rowHeld[r], t)
    BY <1>t, <1>h, DequeueModes
  <2>4. rowHeld' = [rowHeld EXCEPT ![r] = ModesIn(Dequeue(rowLockmap[r], t))]
    BY <1>t, <2>2, HeldExcept DEF rowHeld
  <2>5. Requests!ReleaseRow(t, r)
    BY <1>a, <2>1, <2>2, <2>3, <2>4 DEF Requests!ReleaseRow
  <2> QED BY <2>1, <2>5 DEF Requests!Next
<1>6. ASSUME UNCHANGED queueVars, \A u \in Txn : pc'[u] = "ended" <=> pc[u] = "ended"
      PROVE  UNCHANGED Requests!vars
  BY <1>a, <1>b, <1>6 DEF queueVars, openTxns, Requests!vars
<1> QED BY <1>t, <1>1, <1>2, <1>3, <1>4, <1>5, <1>6, OtherSteps

\* The step-by-step lock manager implements the atomic lock requests of
\* LockRequests for every number of transactions, tables, keys and calls, with
\* or without the detector and with or without unlockRow.
THEOREM Implementation == Spec => ImplementsLockRequests
<1>1. Init => QueueInv /\ Requests!Init
  BY QueueInvInit, RefinementInit
<1>2. QueueInv /\ [Next]_vars => QueueInv' /\ [Requests!Next]_(Requests!vars)
  BY QueueInvStep, RefinementStep DEF QueueInv
<1> QED BY <1>1, <1>2, PTL DEF Spec, ImplementsLockRequests, Requests!Spec
=============================================================================
