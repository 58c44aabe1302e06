-------------------------- MODULE StatementsProofs --------------------------
(***************************************************************************)
(* Proofs about Statements, for every set of tables and of values, every   *)
(* ordered set of keys and every length of the log.                        *)
(***************************************************************************)
EXTENDS Statements, TLAPS

-----------------------------------------------------------------------------
(* The operators *)

\* Adding an entry to a sequence.
LEMMA AppendFacts ==
    ASSUME NEW S, NEW s \in Seq(S), NEW e \in S
    PROVE  /\ Append(s, e) \in Seq(S)
           /\ Len(Append(s, e)) = Len(s) + 1
           /\ Append(s, e)[Len(s) + 1] = e
           /\ \A i \in 1..Len(s) : Append(s, e)[i] = s[i]
OBVIOUS

\* lower_bound finds a key that is there.
LEMMA LowerBoundIsKey ==
    ASSUME NEW r, NEW k \in Key, Holds(r, k)
    PROVE  /\ LowerBound(r, k) = k
           /\ ~RemoveFails(r, k)
<1>k. k \in Int /\ k <= k
  BY KeyAssumption
<1>1. k \in AtOrBelow(r, k)
  BY <1>k DEF AtOrBelow
<1>a. AtOrBelow(r, k) \subseteq Int
  BY KeyAssumption DEF AtOrBelow
<1>2. \A b \in AtOrBelow(r, k) : b <= k
  BY DEF AtOrBelow
<1>3. \A b \in AtOrBelow(r, k) : (\A c \in AtOrBelow(r, k) : c <= b) => b = k
  BY <1>1, <1>2, <1>a, <1>k
<1>4. LowerBound(r, k) = k
  BY <1>1, <1>2, <1>3 DEF LowerBound
<1> QED BY <1>1, <1>4 DEF RemoveFails

\* lower_bound finds a key that is there whenever it finds any.
LEMMA LowerBoundHolds ==
    ASSUME NEW r, NEW k \in Key, ~RemoveFails(r, k)
    PROVE  LowerBound(r, k) \in Key /\ Holds(r, LowerBound(r, k))
<1>1. AtOrBelow(r, k) \in SUBSET Key /\ AtOrBelow(r, k) # {}
  BY DEF AtOrBelow, RemoveFails
<1>2. \E b \in AtOrBelow(r, k) : \A c \in AtOrBelow(r, k) : c <= b
  BY <1>1, OrderAssumption
<1>3. LowerBound(r, k) \in AtOrBelow(r, k)
  BY <1>2 DEF LowerBound
<1> QED BY <1>3 DEF AtOrBelow

\* The first of the rows a statement has still to visit is one of them.
LEMMA FirstIsFound ==
    ASSUME NEW todo \in SUBSET Found, todo # {}
    PROVE  First(todo) \in todo
<1> DEFINE ats == {f.at : f \in todo}
<1>1. ats \in SUBSET Key /\ ats # {}
  BY DEF Found
<1>2. PICK m \in ats : \A k \in ats : m <= k
  BY <1>1, OrderAssumption
<1>3. PICK f \in todo : f.at = m
  BY <1>2
<1>4. \A g \in todo : f.at <= g.at
  BY <1>2, <1>3
<1> QED BY <1>4 DEF First

\* The kinds of work.
LEMMA WorkKinds ==
    ASSUME work \in Work
    PROVE  /\ work.kind \in {"idle", "delete", "update", "undo"}
           /\ work.kind = "idle" <=> work = Idle
           /\ work.kind = "delete" =>
                work \in [kind: {"delete"}, table: Table, todo: SUBSET Found]
           /\ work.kind = "update" =>
                work \in [kind: {"update"}, table: Table, todo: SUBSET Found,
                          sets: SUBSET {"id", "val"}]
           /\ work.kind = "undo" => work \in [kind: {"undo"}, left: 0..MaxLog]
BY DEF Work, Idle

-----------------------------------------------------------------------------
(* Types *)

\* Taking an entry back leaves the rows of a table.
LEMMA TakenBackType ==
    ASSUME NEW r \in [Key -> Row \cup {NoRow}], NEW e \in Entry,
           e.op # "delete" => ~RemoveFails(r, e.after.id)
    PROVE  TakenBack(r, e) \in [Key -> Row \cup {NoRow}]
<1>1. CASE e.op = "insert"
  <2>1. TakenBack(r, e) = [r EXCEPT ![LowerBound(r, e.after.id)] = NoRow]
    BY <1>1 DEF TakenBack, Without
  <2> QED BY <2>1
<1>2. CASE e.op = "delete"
  <2>1. TakenBack(r, e) = [r EXCEPT ![e.before.id] = e.before]
    BY <1>2 DEF TakenBack
  <2>2. e.before \in Row /\ e.before.id \in Key
    BY <1>2 DEF Entry, Row
  <2> QED BY <2>1, <2>2
<1>3. CASE e.op = "update"
  <2> DEFINE b == LowerBound(r, e.after.id)
             new == [id |-> e.before.id,
                     val |-> IF e.before.val = NoVal THEN r[b].val ELSE e.before.val]
  <2>1. TakenBack(r, e) = [r EXCEPT ![b] = new]
    BY <1>3 DEF TakenBack
  <2>2. e.after.id \in Key /\ e.before \in Image
    BY <1>3 DEF Entry, Image
  <2>3. b \in Key /\ r[b] \in Row
    BY <1>3, <2>2, LowerBoundHolds DEF Holds
  <2>4. new \in Row
    BY <2>2, <2>3 DEF Image, Row
  <2> QED BY <2>1, <2>3, <2>4
<1> QED BY <1>1, <1>2, <1>3 DEF Entry

\* What the log holds.
LEMMA EntryKinds ==
    ASSUME NEW e \in Entry
    PROVE  /\ e.table \in Table
           /\ e.op \in {"insert", "delete", "update"}
           /\ e.op = "insert" => e.after \in Row
           /\ e.op = "delete" => e.before \in Row
           /\ e.op = "update" => e.before \in Image /\ e.after \in Image
BY DEF Entry

\* A row that is found is a row.
LEMMA HeldRow ==
    ASSUME TypeOK, NEW t \in Table, NEW k \in Key, Holds(rows[t], k)
    PROVE  rows[t][k] \in Row /\ rows[t][k].id \in Key /\ rows[t][k].val \in Val
BY DEF TypeOK, Rows, Row, Holds

\* What a running delete or update is about to look at.
LEMMA NextRow ==
    ASSUME TypeOK, work.kind \in {"delete", "update"}, work.todo # {}
    PROVE  /\ work.table \in Table
           /\ First(work.todo) \in work.todo
           /\ NextId \in Key
           /\ Rest \in Work /\ Rest.kind = work.kind /\ Rest.table = work.table
           /\ Rest.todo = work.todo \ {First(work.todo)}
           /\ Stands \in [Key -> Row \cup {NoRow}]
           /\ ~RemoveFails(Stands, NextId) =>
                /\ LowerBound(Stands, NextId) \in Key
                /\ Removed(Stands, NextId) \in Row
                /\ Holds(Stands, LowerBound(Stands, NextId))
<1>1. work.table \in Table /\ work.todo \in SUBSET Found
  BY WorkKinds DEF TypeOK
<1>2. First(work.todo) \in work.todo
  BY <1>1, FirstIsFound
<1>3. NextId \in Key
  BY <1>1, <1>2 DEF NextId, Found
<1>4. Rest \in Work /\ Rest.kind = work.kind /\ Rest.table = work.table
      /\ Rest.todo = work.todo \ {First(work.todo)}
  BY WorkKinds DEF TypeOK, Rest, Work
<1>5. Stands \in [Key -> Row \cup {NoRow}]
  BY <1>1 DEF TypeOK, Stands, Rows
<1>6. ASSUME ~RemoveFails(Stands, NextId)
      PROVE  /\ LowerBound(Stands, NextId) \in Key
             /\ Removed(Stands, NextId) \in Row
             /\ Holds(Stands, LowerBound(Stands, NextId))
  BY <1>3, <1>5, <1>6, LowerBoundHolds DEF Removed, Holds
<1> QED BY <1>1, <1>2, <1>3, <1>4, <1>5, <1>6

\* Writing an entry keeps the log and its history in step.
LEMMA LoggedType ==
    ASSUME TypeOK, Len(log) < MaxLog, NEW op, NEW t, NEW before, NEW after,
           Logged(op, t, before, after),
           [op |-> op, table |-> t, before |-> before, after |-> after] \in Entry
    PROVE  /\ log' \in Seq(Entry) /\ Len(log') <= MaxLog /\ Len(log') = Len(log) + 1
           /\ log'[Len(log) + 1] = [op |-> op, table |-> t, before |-> before, after |-> after]
           /\ \A i \in 1..Len(log) : log'[i] = log[i]
           /\ past' \in Seq(Rows) /\ Len(past') = Len(log')
           /\ past'[Len(log) + 1] = rows
           /\ \A i \in 1..Len(log) : past'[i] = past[i]
           /\ saved' = saved
<1> DEFINE e == [op |-> op, table |-> t, before |-> before, after |-> after]
<1>1. log' = Append(log, e) /\ past' = Append(past, rows) /\ saved' = saved
  BY DEF Logged
<1>2. log \in Seq(Entry) /\ past \in Seq(Rows) /\ rows \in Rows /\ Len(past) = Len(log)
      /\ e \in Entry /\ MaxLog \in Nat
  BY KeyAssumption DEF TypeOK
<1> HIDE DEF e
<1>3. /\ Len(log') = Len(log) + 1 /\ log' \in Seq(Entry) /\ log'[Len(log) + 1] = e
      /\ \A i \in 1..Len(log) : log'[i] = log[i]
  BY <1>1, <1>2, AppendFacts
<1>4. /\ Len(past') = Len(past) + 1 /\ past' \in Seq(Rows) /\ past'[Len(past) + 1] = rows
      /\ \A i \in 1..Len(past) : past'[i] = past[i]
  BY <1>1, <1>2, AppendFacts
<1> QED BY <1>1, <1>2, <1>3, <1>4 DEF e

\* An updated row is a row, and its images are images.
LEMMA UpdateTypes ==
    ASSUME NEW row \in Row, NEW sets, NEW new \in Updates(row, sets)
    PROVE  /\ new \in Row
           /\ ImageOf(row, sets) \in Image /\ ImageOf(new, sets) \in Image
BY DEF Row, Updates, Image, ImageOf

\* Init and every step keep the types.
LEMMA InitType == Init => TypeOK
<1> SUFFICES ASSUME Init PROVE TypeOK
  OBVIOUS
<1>1. rows \in Rows /\ saved \in Rows
  BY DEF Init, Rows, NoRows
<1>2. Idle \in Work /\ Idle.kind # "undo"
  BY DEF Work, Idle
<1>3. tables \in [Table -> {"none", "new", "used", "unsaved"}]
  BY DEF Init
<1>4. log \in Seq(Entry) /\ Len(log) <= MaxLog /\ past \in Seq(Rows) /\ Len(past) = Len(log)
  BY KeyAssumption DEF Init
<1> QED BY <1>1, <1>2, <1>3, <1>4 DEF Init, TypeOK

\* Every step keeps the types.
LEMMA StepType == TypeOK /\ [Next]_vars => TypeOK'
<1> SUFFICES ASSUME TypeOK, [Next]_vars PROVE TypeOK'
  OBVIOUS
<1>a. /\ tables \in [Table -> {"none", "new", "used", "unsaved"}]
      /\ rows \in Rows /\ listed \in {Unread} \cup SUBSET Table
      /\ log \in Seq(Entry)
  BY DEF TypeOK
<1>b. NoRows \in [Key -> Row \cup {NoRow}]
  BY DEF NoRows
<1>c. Listed \in {Unread} \cup SUBSET Table
  BY <1>a DEF Listed, Existing
<1>d. MaxLog \in Nat /\ Idle \in Work /\ Idle.kind # "undo" /\ work \in Work
  BY KeyAssumption DEF Work, Idle, TypeOK
<1>t. /\ tables \in [Table -> {"none", "new", "used", "unsaved"}]
      /\ rows \in Rows /\ listed \in {Unread} \cup SUBSET Table
      /\ log \in Seq(Entry)
      /\ NoRows \in [Key -> Row \cup {NoRow}]
      /\ Listed \in {Unread} \cup SUBSET Table
      /\ MaxLog \in Nat /\ Idle \in Work /\ Idle.kind # "undo" /\ work \in Work
  BY <1>a, <1>b, <1>c, <1>d
<1>f. ASSUME Forget
      PROVE  /\ log' \in Seq(Entry) /\ Len(log') <= MaxLog
             /\ past' \in Seq(Rows) /\ Len(past') = Len(log')
             /\ saved' = rows /\ spoiled' \in BOOLEAN
  <2>1. log' = <<>> /\ past' = <<>> /\ saved' = rows /\ spoiled' = ~KeyIsId(rows)
    BY <1>f DEF Forget
  <2>2. spoiled' \in BOOLEAN
    BY <2>1
  <2> QED BY <1>t, <2>1, <2>2
<1>1. CASE BeginTransaction \/ Commit
  <2>1. Forget /\ work = Idle /\ UNCHANGED <<tables, rows, listed, work>>
        /\ txn' \in {"none", "open"}
    BY <1>1 DEF BeginTransaction, Commit, InTransaction
  <2> QED BY <1>f, <1>t, <2>1 DEF TypeOK
<1>2. CASE Reopen
  <2>1. rows' \in Rows
    BY <1>2, <1>t DEF Reopen, Rows
  <2>2. tables' \in [Table -> {"none", "new", "used", "unsaved"}]
    BY <1>2, <1>t DEF Reopen
  <2> QED BY <1>2, <2>1, <2>2, <1>t DEF Reopen, TypeOK
<1>3. ASSUME NEW t \in Table, NEW row \in Row, Insert(t, row) PROVE TypeOK'
  <2>1. [op |-> "insert", table |-> t, before |-> NoImage, after |-> row] \in Entry
    BY DEF Entry
  <2>2. /\ log' \in Seq(Entry) /\ Len(log') <= MaxLog /\ saved' = saved
        /\ past' \in Seq(Rows) /\ Len(past') = Len(log')
    BY <1>3, <2>1, LoggedType DEF Insert
  <2>3. rows' \in Rows
    BY <1>3, <1>t DEF Insert, Rows, Row
  <2>4. tables' \in [Table -> {"none", "new", "used", "unsaved"}]
    BY <1>3, <1>t DEF Insert
  <2> QED BY <1>3, <1>t, <2>2, <2>3, <2>4 DEF Insert, InTransaction, TypeOK
<1>4. ASSUME NEW t \in Table, NEW where \in SUBSET Key, StartDelete(t, where) PROVE TypeOK'
  <2>1. FoundIn(rows[t], where) \in SUBSET Found
    BY <1>t DEF FoundIn, Found, Rows, Row, Holds
  <2>2. work' \in Work /\ work'.kind # "undo"
    BY <1>4, <2>1 DEF StartDelete, Work
  <2> QED BY <1>4, <2>2 DEF StartDelete, TypeOK, history
<1>5. ASSUME NEW t \in Table, NEW where \in SUBSET Key,
             NEW sets \in {{"id"}, {"val"}, {"id", "val"}}, StartUpdate(t, where, sets)
      PROVE  TypeOK'
  <2>1. FoundIn(rows[t], where) \in SUBSET Found
    BY <1>t DEF FoundIn, Found, Rows, Row, Holds
  <2>2. work' \in Work /\ work'.kind # "undo"
    BY <1>5, <2>1 DEF StartUpdate, Work
  <2> QED BY <1>5, <2>2 DEF StartUpdate, TypeOK, history
<1>6. CASE DeleteRow
  <2> DEFINE row == Removed(Stands, NextId)
  <2>1. /\ work.table \in Table /\ row \in Row
        /\ Rest \in Work /\ Rest.kind # "undo"
        /\ LowerBound(Stands, NextId) \in Key
    BY <1>6, NextRow DEF DeleteRow
  <2>2. [op |-> "delete", table |-> work.table, before |-> row, after |-> NoImage] \in Entry
    BY <2>1 DEF Entry
  <2>3. /\ log' \in Seq(Entry) /\ Len(log') <= MaxLog /\ saved' = saved
        /\ past' \in Seq(Rows) /\ Len(past') = Len(log')
    BY <1>6, <2>2, LoggedType DEF DeleteRow
  <2>4. rows' \in Rows
    BY <1>6, <1>t, <2>1 DEF DeleteRow, Rows, Without, Stands
  <2> QED BY <1>6, <2>1, <2>3, <2>4 DEF DeleteRow, TypeOK
<1>7. CASE UpdateRow
  <2> DEFINE row == Removed(Stands, NextId)
  <2>1. /\ work.table \in Table /\ row \in Row
        /\ Rest \in Work /\ Rest.kind # "undo"
        /\ LowerBound(Stands, NextId) \in Key
    BY <1>7, NextRow DEF UpdateRow
  <2>2. PICK new \in Updates(row, work.sets) :
            /\ rows' = [rows EXCEPT ![work.table][LowerBound(Stands, NextId)] = new]
            /\ Logged("update", work.table, ImageOf(row, work.sets), ImageOf(new, work.sets))
            /\ spoiled' = (spoiled \/ new.id # row.id)
    BY <1>7 DEF UpdateRow
  <2>3. new \in Row /\ ImageOf(row, work.sets) \in Image /\ ImageOf(new, work.sets) \in Image
    BY <2>1, UpdateTypes
  <2>4. [op |-> "update", table |-> work.table, before |-> ImageOf(row, work.sets),
         after |-> ImageOf(new, work.sets)] \in Entry
    BY <2>1, <2>3 DEF Entry
  <2>5. /\ log' \in Seq(Entry) /\ Len(log') <= MaxLog /\ saved' = saved
        /\ past' \in Seq(Rows) /\ Len(past') = Len(log')
    BY <1>7, <2>2, <2>4, LoggedType DEF UpdateRow
  <2>6. rows' \in Rows
    BY <1>t, <2>1, <2>2, <2>3 DEF Rows
  <2>7. spoiled' \in BOOLEAN
    BY <2>2 DEF TypeOK
  <2> QED BY <1>7, <2>1, <2>5, <2>6, <2>7 DEF UpdateRow, TypeOK
<1>8. CASE UpdateRowFails
  <2>1. work.table \in Table /\ LowerBound(Stands, NextId) \in Key
    BY <1>8, NextRow DEF UpdateRowFails
  <2>2. rows' \in Rows
    BY <1>8, <1>t, <2>1 DEF UpdateRowFails, Rows, Without, Stands
  <2> QED BY <1>8, <1>t, <2>2 DEF UpdateRowFails, TypeOK
<1>9. CASE RowNotFound \/ StartAbort \/ ShowTables
  <2>1. work' \in Work /\ (work'.kind = "undo" => work'.left <= Len(log))
    <3>1. CASE RowNotFound \/ ShowTables
      BY <3>1, <1>t DEF RowNotFound, ShowTables
    <3>2. CASE StartAbort
      <4>1. Len(log) \in 0..MaxLog
        BY <1>t DEF TypeOK
      <4> QED BY <3>2, <4>1 DEF StartAbort, Work
    <3> QED BY <1>9, <3>1, <3>2
  <2> QED BY <1>9, <1>t, <2>1 DEF RowNotFound, StartAbort, ShowTables, TypeOK, history
<1>10. CASE StatementDone
  <2>1. work.table \in Table
    BY <1>10, WorkKinds DEF StatementDone, TypeOK
  <2>2. tables' \in [Table -> {"none", "new", "used", "unsaved"}]
    BY <1>10, <1>t, <2>1 DEF StatementDone
  <2> QED BY <1>10, <1>t, <2>2 DEF StatementDone, TypeOK, history
<1>11. CASE UndoEntry
  <2>1. work \in [kind: {"undo"}, left: 0..MaxLog] /\ work' = [work EXCEPT !.left = @ - 1]
        /\ work.left > 0 /\ work.left <= Len(log)
    BY <1>11, WorkKinds DEF UndoEntry, TypeOK
  <2>2. work' \in Work /\ work'.left <= Len(log)
    <3>1. work' \in [kind: {"undo"}, left: 0..MaxLog] /\ work'.left <= Len(log)
      BY <1>t, <2>1
    <3> QED BY <3>1 DEF Work
  <2>3. Turn \in Entry
    BY <1>t, <2>1 DEF Turn
  <2>4. Turn.table \in Table
    BY <2>3, EntryKinds
  <2>5. tables' \in [Table -> {"none", "new", "used", "unsaved"}]
    BY <1>11, <1>t, <2>4 DEF UndoEntry
  <2>6. Turn.op # "delete" => ~RemoveFails(rows[Turn.table], Turn.after.id)
    BY <1>11 DEF UndoEntry, UndoFails
  <2>7. TakenBack(rows[Turn.table], Turn) \in [Key -> Row \cup {NoRow}]
    BY <1>t, <2>3, <2>4, <2>6, TakenBackType DEF Rows
  <2>8. rows' \in Rows
    BY <1>11, <1>t, <2>4, <2>7 DEF UndoEntry, Rows
  <2> QED BY <1>11, <1>t, <2>2, <2>5, <2>8 DEF UndoEntry, TypeOK, history
<1>12. CASE UndoEntryEnds
  BY <1>12, <1>2 DEF UndoEntryEnds
<1>13. CASE UndoEntryFails
  BY <1>13, <1>t DEF UndoEntryFails, TypeOK
<1>14. CASE AbortDone
  BY <1>14, <1>f, <1>t DEF AbortDone, TypeOK
<1>15. ASSUME NEW t \in Table, CreateTable(t) \/ CreateTableFails(t) PROVE TypeOK'
  <2>1. tables' \in [Table -> {"none", "new", "used", "unsaved"}]
    BY <1>15, <1>t DEF CreateTable, CreateTableFails
  <2> QED BY <1>15, <1>t, <2>1 DEF CreateTable, CreateTableFails, TypeOK, history
<1>16. ASSUME NEW t \in Table, DropTable(t) PROVE TypeOK'
  <2>1. tables' \in [Table -> {"none", "new", "used", "unsaved"}]
    BY <1>16, <1>t DEF DropTable
  <2>2. rows' \in Rows
    BY <1>16, <1>t DEF DropTable, Rows
  <2>3. listed' \in {Unread} \cup SUBSET Table
    BY <1>16, <1>t DEF DropTable, Unlisted
  <2>4. spoiled' \in BOOLEAN
    BY <1>16 DEF DropTable, TypeOK
  <2> QED BY <1>16, <2>1, <2>2, <2>3, <2>4 DEF DropTable, TypeOK
<1>17. CASE UNCHANGED vars
  BY <1>17 DEF vars, TypeOK
<1> QED
  BY <1>1, <1>2, <1>3, <1>4, <1>5, <1>6, <1>7, <1>8, <1>9, <1>10, <1>11, <1>12, <1>13,
     <1>14, <1>15, <1>16, <1>17 DEF Next

\* The state always has its types.
THEOREM TypeCorrect == Spec => []TypeOK
<1> QED BY InitType, StepType, PTL DEF Spec

-----------------------------------------------------------------------------
(* Each change can be taken back *)

\* A row inserted under a free key is found there, and taking it out restores the tree.
LEMMA InsertTakenBack ==
    ASSUME NEW r \in [Key -> Row \cup {NoRow}], NEW row \in Row, ~Holds(r, row.id),
           NEW r2, r2 = [r EXCEPT ![row.id] = row]
    PROVE  Holds(r2, row.id) /\ Without(r2, row.id) = r
<1>1. row.id \in Key
  BY DEF Row
<1>2. Holds(r2, row.id)
  BY <1>1, NullAssumption DEF Holds, Row
<1>3. LowerBound(r2, row.id) = row.id
  BY <1>1, <1>2, LowerBoundIsKey
<1>4. [r2 EXCEPT ![row.id] = NoRow] = r
  BY <1>1 DEF Holds
<1> QED BY <1>2, <1>3, <1>4 DEF Without

\* A row taken out leaves its key free, and putting it back restores the tree.
LEMMA DeleteTakenBack ==
    ASSUME NEW r \in [Key -> Row \cup {NoRow}], NEW b \in Key,
           NEW r2, r2 = [r EXCEPT ![b] = NoRow]
    PROVE  ~Holds(r2, b) /\ [r2 EXCEPT ![b] = r[b]] = r
BY DEF Holds

\* The image before an update brings the row back, what it did not set included.
LEMMA UpdateTakenBack ==
    ASSUME NEW row \in Row, NEW sets, NEW new \in Updates(row, sets)
    PROVE  LET image == ImageOf(row, sets)
           IN  [id |-> image.id, val |-> IF image.val = NoVal THEN new.val ELSE image.val] = row
<1>1. CASE "val" \in sets
  <2>1. row.val \in Val /\ ImageOf(row, sets) = [id |-> row.id, val |-> row.val]
    BY <1>1 DEF ImageOf, Row
  <2> QED BY <2>1, NullAssumption DEF Row
<1>2. CASE "val" \notin sets
  <2>1. new.val = row.val /\ ImageOf(row, sets) = [id |-> row.id, val |-> NoVal]
    BY <1>2 DEF ImageOf, Updates
  <2> QED BY <2>1 DEF Row
<1> QED BY <1>1, <1>2

-----------------------------------------------------------------------------
(* The inductive invariant *)

\* A table with no root has no rows.
Rooted == \A t \in Table : tables[t] \in {"none", "new"} => rows[t] = NoRows

\* Only an open transaction has work, and a log; the table it runs on is there.
WorkInTxn ==
    /\ work # Idle => txn = "open"
    /\ txn # "open" => log = <<>>
    /\ work.kind \in {"delete", "update"} => tables[work.table] # "none"

\* The rows the log leads back to agree with their keys as well.
PastAgree == ~spoiled => \A i \in 1..Len(log) : KeyIsId(past[i])

IInv ==
    /\ TypeOK /\ Rooted /\ WorkInTxn
    /\ KeysAgree /\ PastAgree /\ UndoableAtAnyTime /\ VisitsWhatItFound
    /\ ListedTablesExist

\* A new database satisfies the inductive invariant.
LEMMA InitInv == Init => IInv
<1> SUFFICES ASSUME Init PROVE IInv
  OBVIOUS
<1>1. TypeOK
  BY InitType
<1>2. Idle.kind = "idle" /\ \A t \in Table, k \in Key : ~Holds(NoRows, k)
  BY DEF Idle, NoRows, Holds
<1>3. Rooted
  BY DEF Rooted, Init
<1>4. WorkInTxn /\ PastAgree
  BY <1>2 DEF WorkInTxn, PastAgree, Init
<1>5. KeysAgree
  BY <1>2 DEF KeysAgree, KeyIsId, Init
<1>6. UndoableAtAnyTime /\ VisitsWhatItFound /\ ListedTablesExist
  BY <1>2 DEF UndoableAtAnyTime, VisitsWhatItFound, ListedTablesExist, Init
<1> QED BY <1>1, <1>3, <1>4, <1>5, <1>6 DEF IInv

\* Tables that were there stay there, with their roots.
TablesStay ==
    \A t \in Table : /\ tables'[t] = "none" => tables[t] = "none"
                     /\ tables'[t] = "new" => tables[t] \in {"none", "new"}

\* What taking an entry back needs of the tables, and what it needs of the rows.
LEMMA UndoesSplit ==
    ASSUME NEW e \in Entry, NEW after, NEW before
    PROVE  Undoes(e, after, before) <=>
             /\ tables[e.table] # "none"
             /\ e.op # "delete" => tables[e.table] # "new" /\ ~RemoveFails(after[e.table], e.after.id)
             /\ e.op = "delete" => ~Holds(after[e.table], e.before.id)
             /\ [after EXCEPT ![e.table] = TakenBack(after[e.table], e)] = before
BY EntryKinds DEF Undoes, UndoEnds, UndoFails

\* No more is left to take back than was logged.
LEMMA LeftType == TypeOK => Left \in 0..Len(log) /\ Len(log) \in Nat
<1> SUFFICES ASSUME TypeOK PROVE Left \in 0..Len(log) /\ Len(log) \in Nat
  OBVIOUS
<1>1. work.kind = "undo" => work.left \in Nat /\ work.left <= Len(log)
  BY KeyAssumption, WorkKinds DEF TypeOK
<1>2. Len(log) \in Nat
  BY DEF TypeOK
<1> QED BY <1>1, <1>2 DEF Left

\* A step that leaves the rows and the log as they are, and the tables there,
\* leaves every entry undoable.
LEMMA LogKept ==
    ASSUME IInv, TablesStay, UNCHANGED <<rows, log, txn, past, saved, spoiled>>, Left' = Left
    PROVE  UndoableAtAnyTime'
<1> SUFFICES ASSUME ~spoiled, txn = "open"
             PROVE  /\ (IF Left' = 0 THEN rows' ELSE past'[1]) = saved'
                    /\ \A i \in 1..Left' : Undoes(log[i], After(i), past[i])'
  BY DEF UndoableAtAnyTime
<1>1. /\ (IF Left = 0 THEN rows ELSE past[1]) = saved
      /\ \A i \in 1..Left : Undoes(log[i], After(i), past[i])
  BY DEF IInv, UndoableAtAnyTime
<1>2. ASSUME NEW i \in 1..Left' PROVE Undoes(log[i], After(i), past[i])'
  <2>1. Undoes(log[i], After(i), past[i])
    BY <1>1, <1>2
  <2>2. After(i)' = After(i) /\ log'[i] = log[i] /\ past'[i] = past[i]
    BY DEF After
  <2>3. log[i] \in Entry /\ log[i].table \in Table
    <3>1. i \in 1..Len(log) /\ log \in Seq(Entry)
      BY <1>2, LeftType DEF IInv, TypeOK
    <3> QED BY <3>1, EntryKinds
  <2> QED BY <2>1, <2>2, <2>3 DEF TablesStay, Undoes, UndoEnds, UndoFails
<1> QED BY <1>1, <1>2

\* A step that logs an entry that takes it back leaves every entry undoable.
LEMMA LogGrows ==
    ASSUME IInv, TablesStay, txn' = "open", txn = "open", work.kind # "undo", work'.kind # "undo",
           ~spoiled' => ~spoiled,
           NEW n, n = Len(log) + 1, Len(log') = n, Len(past) = Len(log),
           log' \in Seq(Entry), past'[n] = rows, saved' = saved,
           \A i \in 1..Len(log) : log'[i] = log[i] /\ past'[i] = past[i],
           NEW e, log'[n] = e,
           ~spoiled' =>
                /\ tables'[e.table] # "none"
                /\ e.op # "delete" =>
                        tables'[e.table] # "new" /\ ~RemoveFails(rows'[e.table], e.after.id)
                /\ e.op = "delete" => ~Holds(rows'[e.table], e.before.id)
                /\ [rows' EXCEPT ![e.table] = TakenBack(rows'[e.table], e)] = rows
    PROVE  UndoableAtAnyTime'
<1> SUFFICES ASSUME ~spoiled'
             PROVE  /\ (IF Left' = 0 THEN rows' ELSE past'[1]) = saved'
                    /\ \A i \in 1..Left' : Undoes(log[i], After(i), past[i])'
  BY DEF UndoableAtAnyTime
<1>1. /\ (IF Left = 0 THEN rows ELSE past[1]) = saved
      /\ \A i \in 1..Left : Undoes(log[i], After(i), past[i])
  BY DEF IInv, UndoableAtAnyTime, TypeOK
<1>2. Left = Len(log) /\ Left' = n /\ n \in Nat /\ n > 0 /\ Len(log) \in Nat
  BY DEF Left, IInv, TypeOK
<1>3. (IF Left' = 0 THEN rows' ELSE past'[1]) = saved'
  BY <1>1, <1>2
<1>4. ASSUME NEW i \in 1..Left' PROVE Undoes(log[i], After(i), past[i])'
  <2>1. CASE i = n
    <3>1. After(i)' = rows'
      BY <1>2, <2>1 DEF After
    <3>2. log'[n] \in Entry
      BY <1>2
    <3>3. e.op \in {"insert", "delete", "update"}
      BY <3>2, EntryKinds
    <3> QED BY <2>1, <3>1, <3>3 DEF Undoes, UndoEnds, UndoFails
  <2>2. CASE i # n
    <3>1. i \in 1..Left /\ i \in 1..Len(log)
      BY <1>2, <2>2
    <3>2. Undoes(log[i], After(i), past[i])
      BY <1>1, <3>1
    <3>3. After(i)' = After(i)
      BY <1>2, <2>2, <3>1 DEF After
    <3>4. log[i] \in Entry /\ log[i].table \in Table
      <4>1. log \in Seq(Entry)
        BY DEF IInv, TypeOK
      <4> QED BY <3>1, <4>1, EntryKinds
    <3> QED BY <3>1, <3>2, <3>3, <3>4 DEF TablesStay, Undoes, UndoEnds, UndoFails
  <2> QED BY <2>1, <2>2
<1> QED BY <1>3, <1>4

\* What holds once nothing is logged.
LEMMA ForgetInv ==
    ASSUME Rooted', work' = Idle, log' = <<>>, past' = <<>>, saved' = rows',
           spoiled' = ~KeyIsId(rows'), ListedTablesExist'
    PROVE  /\ WorkInTxn' /\ KeysAgree' /\ PastAgree' /\ UndoableAtAnyTime'
           /\ VisitsWhatItFound'
<1>1. work'.kind = "idle" /\ Left' = 0
  BY DEF Idle, Left
<1>2. WorkInTxn' /\ VisitsWhatItFound'
  BY <1>1 DEF WorkInTxn, VisitsWhatItFound
<1>3. KeysAgree'
  BY DEF KeysAgree
<1>4. PastAgree'
  BY DEF PastAgree
<1>5. UndoableAtAnyTime'
  BY <1>1 DEF UndoableAtAnyTime
<1> QED BY <1>2, <1>3, <1>4, <1>5

\* A row that goes away leaves the others with their keys.
LEMMA RowGone ==
    ASSUME rows \in Rows, KeyIsId(rows), NEW t \in Table, NEW b \in Key,
           rows' = [rows EXCEPT ![t] = [@ EXCEPT ![b] = NoRow]]
    PROVE  KeyIsId(rows')
BY DEF Rows, KeyIsId, Holds

\* A row put under its id leaves the others with their keys.
LEMMA RowPut ==
    ASSUME rows \in Rows, KeyIsId(rows), NEW t \in Table, NEW new, new.id \in Key,
           rows' = [rows EXCEPT ![t] = [@ EXCEPT ![new.id] = new]]
    PROVE  KeyIsId(rows')
BY DEF Rows, KeyIsId, Holds

\* Every step of a session keeps the inductive invariant.
LEMMA StepInv == IInv /\ [Next]_vars => IInv'
<1> SUFFICES ASSUME IInv, [Next]_vars PROVE IInv'
  OBVIOUS
<1>t. TypeOK /\ TypeOK' /\ rows \in Rows /\ log \in Seq(Entry) /\ Len(past) = Len(log)
      /\ Rooted /\ WorkInTxn /\ KeysAgree /\ PastAgree /\ VisitsWhatItFound
      /\ ListedTablesExist /\ Len(log) \in Nat
  BY StepType, LeftType DEF IInv, TypeOK
<1>1. CASE BeginTransaction \/ Commit \/ AbortDone
  <2>1. /\ UNCHANGED <<tables, rows, listed>> /\ work' = Idle
        /\ log' = <<>> /\ past' = <<>> /\ saved' = rows' /\ spoiled' = ~KeyIsId(rows')
    BY <1>1 DEF BeginTransaction, Commit, AbortDone, Forget, InTransaction
  <2>2. Rooted' /\ ListedTablesExist'
    BY <1>t, <2>1 DEF Rooted, ListedTablesExist, Existing
  <2> QED BY <1>t, <2>1, <2>2, ForgetInv DEF IInv
<1>2. CASE Reopen
  <2>1. Rooted'
    BY <1>2, <1>t DEF Reopen, Rooted
  <2>2. ListedTablesExist'
    BY <1>2 DEF Reopen, ListedTablesExist
  <2> QED BY <1>2, <1>t, <2>1, <2>2, ForgetInv DEF Reopen, IInv
<1>3. ASSUME NEW t \in Table, NEW row \in Row, Insert(t, row) PROVE IInv'
  <2> DEFINE e == [op |-> "insert", table |-> t, before |-> NoImage, after |-> row]
  <2>1. e \in Entry
    BY DEF Entry
  <2>2. /\ Len(log') = Len(log) + 1 /\ log'[Len(log) + 1] = e /\ log' \in Seq(Entry)
        /\ past'[Len(log) + 1] = rows /\ saved' = saved
        /\ \A i \in 1..Len(log) : log'[i] = log[i] /\ past'[i] = past[i]
    BY <1>3, <1>t, <2>1, LoggedType DEF Insert
  <2>3. /\ work = Idle /\ work' = Idle /\ txn = "open" /\ txn' = "open"
        /\ UNCHANGED <<listed, spoiled>> /\ ~Holds(rows[t], row.id) /\ row.id \in Key
        /\ rows' = [rows EXCEPT ![t] = [@ EXCEPT ![row.id] = row]]
        /\ tables' = [tables EXCEPT ![t] = "used"] /\ tables[t] # "none"
        /\ work.kind = "idle"
    BY <1>3 DEF Insert, InTransaction, Refused, Row, Idle
  <2>4. tables \in [Table -> {"none", "new", "used", "unsaved"}]
    BY <1>t DEF TypeOK
  <2>5. TablesStay /\ tables'[t] = "used"
    BY <2>3, <2>4 DEF TablesStay
  <2>6. Rooted' /\ ListedTablesExist' /\ WorkInTxn' /\ VisitsWhatItFound'
    <3>1. Rooted'
      BY <1>t, <2>3, <2>4 DEF Rooted, Rows
    <3>2. ListedTablesExist'
      BY <1>t, <2>3, <2>4 DEF ListedTablesExist, Existing
    <3>3. WorkInTxn' /\ VisitsWhatItFound'
      BY <2>3 DEF WorkInTxn, VisitsWhatItFound
    <3> QED BY <3>1, <3>2, <3>3
  <2>7. KeysAgree'
    BY <1>t, <2>3, RowPut DEF KeysAgree
  <2>8. PastAgree'
    BY <1>t, <2>2, <2>3 DEF PastAgree, KeysAgree
  <2>9. /\ ~RemoveFails(rows'[t], row.id)
        /\ [rows' EXCEPT ![t] = TakenBack(rows'[t], e)] = rows
    <3> DEFINE r == rows[t]
               r2 == rows'[t]
    <3>1. r \in [Key -> Row \cup {NoRow}] /\ r2 = [r EXCEPT ![row.id] = row]
      BY <1>t, <2>3 DEF Rows
    <3>2. Holds(r2, row.id) /\ Without(r2, row.id) = r
      BY <2>3, <3>1, InsertTakenBack
    <3>3. ~RemoveFails(r2, row.id)
      BY <2>3, <3>2, LowerBoundIsKey
    <3>4. TakenBack(r2, e) = r
      BY <3>2 DEF TakenBack
    <3>5. [rows' EXCEPT ![t] = r] = rows
      BY <1>t, <2>3 DEF Rows
    <3> QED BY <3>3, <3>4, <3>5
  <2>10. UndoableAtAnyTime'
    <3>1. e.op = "insert" /\ e.table = t /\ e.after.id = row.id
      OBVIOUS
    <3> HIDE DEF e
    <3> QED BY <1>t, <2>2, <2>3, <2>5, <2>9, <3>1, LogGrows
  <2> QED BY <1>t, <2>6, <2>7, <2>8, <2>10 DEF IInv
<1>4. ASSUME NEW t \in Table, NEW where \in SUBSET Key, NEW sets,
             StartDelete(t, where) \/ StartUpdate(t, where, sets)
      PROVE  IInv'
  <2>1. /\ UNCHANGED <<tables, rows, listed, txn, log, past, saved, spoiled>>
        /\ work = Idle /\ txn = "open" /\ tables[t] # "none"
        /\ work'.kind \in {"delete", "update"} /\ work'.table = t
        /\ work'.todo = FoundIn(rows[t], where)
    BY <1>4 DEF StartDelete, StartUpdate, InTransaction, history
  <2>2. TablesStay /\ Left' = Left
    BY <2>1 DEF TablesStay, Left, Idle
  <2>3. UndoableAtAnyTime'
    BY <2>1, <2>2, LogKept
  <2>4. VisitsWhatItFound'
    BY <1>t, <2>1 DEF VisitsWhatItFound, KeysAgree, KeyIsId, FoundIn, Stands
  <2>5. Rooted' /\ WorkInTxn' /\ KeysAgree' /\ PastAgree' /\ ListedTablesExist'
    BY <1>t, <2>1 DEF Rooted, WorkInTxn, KeysAgree, PastAgree, ListedTablesExist, Existing
  <2> QED BY <1>t, <2>3, <2>4, <2>5 DEF IInv
<1>5. ASSUME ~spoiled, work.kind \in {"delete", "update"}, work.todo # {},
             ~RemoveFails(Stands, NextId)
      PROVE  /\ LowerBound(Stands, NextId) = NextId /\ Removed(Stands, NextId).id = NextId
             /\ \A f \in Rest.todo : f.at = f.id /\ f.id # NextId /\ Holds(Stands, f.id)
             /\ \A f \in Rest.todo : f.id \in Key
  <2>1. First(work.todo) \in work.todo /\ NextId \in Key /\ work.table \in Table
        /\ Rest.todo = work.todo \ {First(work.todo)}
    BY <1>t, <1>5, NextRow
  <2>2. \A f \in work.todo : f.at = f.id /\ Holds(Stands, f.id)
    BY <1>t, <1>5 DEF VisitsWhatItFound
  <2>3. Holds(Stands, NextId)
    BY <2>1, <2>2 DEF NextId
  <2>4. LowerBound(Stands, NextId) = NextId
    BY <2>1, <2>3, LowerBoundIsKey
  <2>5. Removed(Stands, NextId).id = NextId
    BY <1>t, <1>5, <2>1, <2>3, <2>4 DEF Removed, Stands, KeysAgree, KeyIsId
  <2>6. \A f \in work.todo : f \in Found
    BY <1>t, <1>5, WorkKinds DEF TypeOK
  <2>7. \A f \in Rest.todo : f.id # NextId
    BY <2>1, <2>2, <2>6 DEF NextId, Found
  <2> QED BY <2>1, <2>2, <2>4, <2>5, <2>6, <2>7 DEF Found
<1>6. CASE DeleteRow
  <2> DEFINE t == work.table
             b == LowerBound(Stands, NextId)
             row == Removed(Stands, NextId)
             e == [op |-> "delete", table |-> t, before |-> row, after |-> NoImage]
  <2>1. /\ t \in Table /\ row \in Row /\ b \in Key /\ Holds(Stands, b)
        /\ Rest.kind = "delete" /\ Rest.table = t
        /\ Stands \in [Key -> Row \cup {NoRow}]
    BY <1>6, <1>t, NextRow DEF DeleteRow
  <2>2. e \in Entry
    BY <2>1 DEF Entry
  <2>3. /\ Len(log') = Len(log) + 1 /\ log'[Len(log) + 1] = e /\ log' \in Seq(Entry)
        /\ past'[Len(log) + 1] = rows /\ saved' = saved
        /\ \A i \in 1..Len(log) : log'[i] = log[i] /\ past'[i] = past[i]
    BY <1>6, <1>t, <2>2, LoggedType DEF DeleteRow
  <2>4. /\ work.kind = "delete" /\ work.todo # {} /\ ~RemoveFails(Stands, NextId)
        /\ work' = Rest /\ UNCHANGED <<tables, listed, txn, spoiled>>
        /\ rows' = [rows EXCEPT ![t] = [@ EXCEPT ![b] = NoRow]]
    BY <1>6 DEF DeleteRow, Without, Stands
  <2>5. txn = "open" /\ tables[t] # "none" /\ TablesStay
    BY <1>t, <2>4 DEF WorkInTxn, TablesStay, Idle
  <2>6. rows'[t] = [Stands EXCEPT ![b] = NoRow]
    BY <1>t, <2>1, <2>4 DEF Rows, Stands
  <2>7. Rooted' /\ WorkInTxn' /\ ListedTablesExist'
    <3>1. tables[t] \notin {"none", "new"}
      BY <1>t, <2>1 DEF Rooted, Stands, NoRows, Holds
    <3>2. Rooted'
      BY <1>t, <2>4, <3>1 DEF Rooted, Rows
    <3> QED BY <1>t, <2>1, <2>4, <2>5, <3>2 DEF WorkInTxn, ListedTablesExist, Existing
  <2>8. KeysAgree' /\ PastAgree'
    <3>1. KeysAgree'
      BY <1>t, <2>1, <2>4, RowGone DEF KeysAgree
    <3>2. PastAgree'
      BY <1>t, <2>3, <2>4 DEF KeysAgree, PastAgree
    <3> QED BY <3>1, <3>2
  <2>9. VisitsWhatItFound'
    <3> SUFFICES ASSUME ~spoiled, NEW f \in Rest.todo
                 PROVE  f.at = f.id /\ Holds(rows'[t], f.id)
      BY <2>1, <2>4 DEF VisitsWhatItFound, Stands
    <3>1. f.at = f.id /\ f.id # b /\ Holds(Stands, f.id) /\ f.id \in Key
      BY <1>5, <2>4
    <3> QED BY <2>1, <2>6, <3>1 DEF Holds
  <2>10. ASSUME ~spoiled
         PROVE  /\ row.id = b /\ ~Holds(rows'[t], b)
                /\ [rows' EXCEPT ![t] = TakenBack(rows'[t], e)] = rows
    <3>1. row.id = b /\ row = Stands[b]
      <4>1. b = NextId /\ row.id = NextId
        BY <1>5, <2>4, <2>10
      <4> QED BY <4>1 DEF Removed
    <3>2. ~Holds(rows'[t], b) /\ [rows'[t] EXCEPT ![b] = row] = Stands
      <4> HIDE DEF row, b, t, e
      <4>1. ~Holds(rows'[t], b) /\ [rows'[t] EXCEPT ![b] = Stands[b]] = Stands
        BY <2>1, <2>6, DeleteTakenBack
      <4> QED BY <3>1, <4>1
    <3>3. TakenBack(rows'[t], e) = Stands
      BY <3>1, <3>2 DEF TakenBack
    <3>4. [rows' EXCEPT ![t] = Stands] = rows
      BY <1>t, <2>1, <2>4 DEF Rows, Stands
    <3> QED BY <3>1, <3>2, <3>3, <3>4
  <2>11. UndoableAtAnyTime'
    <3>1. e.op = "delete" /\ e.table = t /\ e.before = row
      OBVIOUS
    <3>2. work.kind # "undo" /\ work'.kind # "undo" /\ txn' = "open" /\ tables'[t] # "none"
          /\ (~spoiled' => ~spoiled)
      BY <2>1, <2>4, <2>5
    <3> HIDE DEF e
    <3> QED BY <1>t, <2>3, <2>5, <2>10, <3>1, <3>2, LogGrows
  <2> QED BY <1>t, <2>7, <2>8, <2>9, <2>11 DEF IInv
<1>7. CASE UpdateRow
  <2> DEFINE t == work.table
             b == LowerBound(Stands, NextId)
             row == Removed(Stands, NextId)
  <2>1. /\ t \in Table /\ row \in Row /\ b \in Key /\ Holds(Stands, b)
        /\ Rest.kind = "update" /\ Rest.table = t
        /\ Stands \in [Key -> Row \cup {NoRow}]
    BY <1>7, <1>t, NextRow DEF UpdateRow
  <2>2. PICK new \in Updates(row, work.sets) :
            /\ rows' = [rows EXCEPT ![t] = [@ EXCEPT ![b] = new]]
            /\ Logged("update", t, ImageOf(row, work.sets), ImageOf(new, work.sets))
            /\ spoiled' = (spoiled \/ new.id # row.id)
    BY <1>7 DEF UpdateRow
  <2> DEFINE e == [op |-> "update", table |-> t, before |-> ImageOf(row, work.sets),
                   after |-> ImageOf(new, work.sets)]
  <2>n. new \in Row /\ ImageOf(row, work.sets) \in Image /\ ImageOf(new, work.sets) \in Image
    BY <2>1, UpdateTypes
  <2>e. e \in Entry
    BY <2>1, <2>n DEF Entry
  <2>3. /\ Len(log') = Len(log) + 1 /\ log'[Len(log) + 1] = e /\ log' \in Seq(Entry)
        /\ past'[Len(log) + 1] = rows /\ saved' = saved
        /\ \A i \in 1..Len(log) : log'[i] = log[i] /\ past'[i] = past[i]
    BY <1>7, <1>t, <2>2, <2>e, LoggedType DEF UpdateRow
  <2>4. /\ work.kind = "update" /\ work.todo # {} /\ ~RemoveFails(Stands, NextId)
        /\ work' = Rest /\ UNCHANGED <<tables, listed, txn>>
    BY <1>7 DEF UpdateRow
  <2>s. ~spoiled' => ~spoiled /\ new.id = row.id /\ row.id = b
    BY <1>5, <2>2, <2>4
  <2>5. txn = "open" /\ TablesStay
    BY <1>t, <2>4 DEF WorkInTxn, TablesStay, Idle
  <2>6. rows'[t] = [Stands EXCEPT ![b] = new]
    BY <1>t, <2>1, <2>2 DEF Rows, Stands
  <2>r. tables[t] \notin {"none", "new"}
    BY <1>t, <2>1 DEF Rooted, Stands, NoRows, Holds
  <2>7. Rooted' /\ WorkInTxn' /\ ListedTablesExist'
    <3>2. Rooted'
      BY <1>t, <2>2, <2>4, <2>r DEF Rooted, Rows
    <3> QED BY <1>t, <2>1, <2>4, <2>5, <2>r, <3>2 DEF WorkInTxn, ListedTablesExist, Existing
  <2>8. KeysAgree' /\ PastAgree'
    <3>1. ~spoiled' => KeyIsId(rows')
      BY <1>t, <2>1, <2>2, <2>s, RowPut DEF KeysAgree
    <3> QED BY <1>t, <2>3, <2>s, <3>1 DEF KeysAgree, PastAgree
  <2>9. VisitsWhatItFound'
    <3>1. new # NoRow
      BY <2>n, NullAssumption DEF Row
    <3> SUFFICES ASSUME ~spoiled', NEW f \in Rest.todo
                 PROVE  f.at = f.id /\ Holds(rows'[t], f.id)
      BY <2>1, <2>4 DEF VisitsWhatItFound, Stands
    <3>2. f.at = f.id /\ Holds(Stands, f.id) /\ f.id \in Key
      BY <1>5, <2>4, <2>s
    <3> QED BY <2>1, <2>6, <3>1, <3>2 DEF Holds
  <2>10. ASSUME ~spoiled'
         PROVE  /\ e.after.id = b /\ ~RemoveFails(rows'[t], b)
                /\ [rows' EXCEPT ![t] = TakenBack(rows'[t], e)] = rows
    <3>1. row.id = b /\ row = Stands[b] /\ new.id = b
      BY <2>s, <2>10 DEF Removed
    <3>2. Holds(rows'[t], b) /\ e.after.id = b /\ TakenBack(rows'[t], e) = Stands
      <4>1. e.op = "update" /\ e.before = ImageOf(row, work.sets)
            /\ e.after = ImageOf(new, work.sets)
        OBVIOUS
      <4>2. Stands[b] \in Row /\ Stands[b].id = b /\ new \in Updates(Stands[b], work.sets)
        BY <2>1, <2>2, <3>1
      <4>3. e.before = ImageOf(Stands[b], work.sets)
        BY <3>1, <4>1
      <4> DEFINE r == Stands
                 r2 == rows'[t]
                 sets == work.sets
      <4>4. r \in [Key -> Row \cup {NoRow}] /\ b \in Key /\ r[b] \in Row /\ r[b].id = b
            /\ new \in Updates(r[b], sets) /\ new.id = b /\ r2 = [r EXCEPT ![b] = new]
            /\ e \in Entry /\ e.op = "update" /\ e.before = ImageOf(r[b], sets)
            /\ e.after = ImageOf(new, sets)
        BY <2>1, <2>e, <2>6, <3>1, <4>1, <4>2, <4>3
      <4> HIDE DEF row, b, t, e, r, r2, sets
      <4>5. Holds(r2, b) /\ r2[b] = new
        BY <2>n, <4>4, NullAssumption DEF Holds, Row
      <4>6. e.after.id = b
        BY <4>4 DEF ImageOf
      <4>7. LowerBound(r2, e.after.id) = b
        BY <4>4, <4>5, <4>6, LowerBoundIsKey
      <4> DEFINE back == [id |-> e.before.id,
                          val |-> IF e.before.val = NoVal THEN r2[b].val ELSE e.before.val]
      <4>8. back = r[b]
        BY <4>4, <4>5, UpdateTakenBack
      <4>9. TakenBack(r2, e) = [r2 EXCEPT ![b] = back]
        BY <4>4, <4>7 DEF TakenBack
      <4>10. [r2 EXCEPT ![b] = r[b]] = r
        BY <4>4
      <4> QED BY <4>5, <4>6, <4>8, <4>9, <4>10 DEF r, r2
    <3>3. ~RemoveFails(rows'[t], b)
      BY <2>1, <3>2, LowerBoundIsKey
    <3>4. [rows' EXCEPT ![t] = Stands] = rows
      BY <1>t, <2>1, <2>2 DEF Rows, Stands
    <3> QED BY <3>2, <3>3, <3>4
  <2>11. UndoableAtAnyTime'
    <3>1. e.op = "update" /\ e.table = t
      OBVIOUS
    <3>2. work.kind # "undo" /\ work'.kind # "undo" /\ txn' = "open"
          /\ tables'[t] \notin {"none", "new"} /\ (~spoiled' => ~spoiled)
      BY <2>1, <2>4, <2>5, <2>r, <2>s
    <3> HIDE DEF e
    <3> QED BY <1>t, <2>3, <2>5, <2>10, <3>1, <3>2, LogGrows
  <2> QED BY <1>t, <2>7, <2>8, <2>9, <2>11 DEF IInv
<1>8. CASE UpdateRowFails
  <2>1. work.table \in Table /\ LowerBound(Stands, NextId) \in Key
        /\ Holds(Stands, LowerBound(Stands, NextId))
    BY <1>8, <1>t, NextRow DEF UpdateRowFails
  <2>2. /\ rows' = [rows EXCEPT ![work.table] = Without(@, NextId)] /\ spoiled' = TRUE
        /\ work' = Idle /\ UNCHANGED <<tables, listed, txn, log>> /\ work'.kind = "idle"
        /\ work.kind = "update"
    BY <1>8 DEF UpdateRowFails, Idle
  <2>3. tables[work.table] \notin {"none", "new"}
    BY <1>t, <2>1 DEF Rooted, Stands, NoRows, Holds
  <2>4. Rooted'
    BY <1>t, <2>2, <2>3 DEF Rooted, Rows
  <2>5. WorkInTxn' /\ ListedTablesExist'
    BY <1>t, <2>2 DEF WorkInTxn, ListedTablesExist, Existing
  <2>6. KeysAgree' /\ PastAgree' /\ UndoableAtAnyTime' /\ VisitsWhatItFound'
    BY <2>2 DEF KeysAgree, PastAgree, UndoableAtAnyTime, VisitsWhatItFound
  <2> QED BY <1>t, <2>4, <2>5, <2>6 DEF IInv
<1>9. CASE RowNotFound \/ StatementDone \/ StartAbort \/ ShowTables
  <2>1. /\ UNCHANGED <<rows, log, txn, past, saved, spoiled>>
        /\ work'.kind \in {"idle", "undo"} /\ (work'.kind = "idle" => work' = Idle)
    BY <1>9 DEF RowNotFound, StatementDone, StartAbort, ShowTables, history, Idle
  <2>2. \A u \in Table :
            tables'[u] = tables[u] \/ (tables[u] = "unsaved" /\ tables'[u] = "used")
    BY <1>9, <1>t DEF RowNotFound, StatementDone, StartAbort, ShowTables, TypeOK
  <2>3. TablesStay
    BY <2>2 DEF TablesStay
  <2>4. Left' = Left
    BY <1>9 DEF RowNotFound, StatementDone, StartAbort, ShowTables, Left, Idle, InTransaction
  <2>5. UndoableAtAnyTime'
    BY <2>1, <2>3, <2>4, LogKept
  <2>6. Rooted' /\ WorkInTxn' /\ VisitsWhatItFound'
    <3>1. work' # Idle => txn' = "open"
      BY <1>9, <1>t DEF RowNotFound, StatementDone, StartAbort, ShowTables, InTransaction, WorkInTxn
    <3>2. Rooted'
      BY <1>t, <2>1, <2>2 DEF Rooted
    <3> QED BY <1>t, <2>1, <3>1, <3>2 DEF WorkInTxn, VisitsWhatItFound
  <2>7. KeysAgree' /\ PastAgree'
    BY <1>t, <2>1 DEF KeysAgree, PastAgree
  <2>8. ListedTablesExist'
    <3>1. listed' \in {listed, Listed}
      BY <1>9 DEF RowNotFound, StatementDone, StartAbort, ShowTables
    <3>2. Existing' = Existing
      BY <2>2 DEF Existing
    <3> QED BY <1>t, <3>1, <3>2 DEF ListedTablesExist, Listed
  <2> QED BY <1>t, <2>5, <2>6, <2>7, <2>8 DEF IInv
<1>10. CASE UndoEntry
  <2> DEFINE n == work.left
  <2>1. /\ work.kind = "undo" /\ n \in 1..Len(log) /\ Left = n
        /\ work'.kind = "undo" /\ work'.left = n - 1 /\ Left' = n - 1
    <3>1. work.kind = "undo" /\ n > 0 /\ Left = n /\ work' = [work EXCEPT !.left = @ - 1]
      BY <1>10 DEF UndoEntry, Left
    <3>2. work \in [kind: {"undo"}, left: 0..MaxLog] /\ n <= Len(log)
      BY <1>t, <3>1, WorkKinds DEF TypeOK
    <3> QED BY <1>t, <3>1, <3>2, KeyAssumption DEF Left
  <2>2. /\ rows' = [rows EXCEPT ![Turn.table] = TakenBack(@, Turn)]
        /\ tables' = [tables EXCEPT ![Turn.table] = IF @ = "new" THEN "unsaved" ELSE @]
        /\ UNCHANGED <<listed, txn, log, past, saved, spoiled>>
        /\ ~UndoEnds(rows, Turn)
    BY <1>10 DEF UndoEntry, history
  <2>3. txn = "open" /\ Turn = log[n] /\ Turn \in Entry /\ Turn.table \in Table
    <3>1. txn = "open"
      BY <1>t, <2>1 DEF WorkInTxn, Idle
    <3>2. Turn \in Entry
      BY <1>t, <2>1 DEF Turn
    <3> QED BY <3>1, <3>2, EntryKinds DEF Turn
  <2>4. tables \in [Table -> {"none", "new", "used", "unsaved"}] /\ tables[Turn.table] # "none"
    BY <1>t, <2>2 DEF TypeOK, UndoEnds
  <2>5. TablesStay /\ tables'[Turn.table] \notin {"none", "new"}
    BY <2>2, <2>3, <2>4 DEF TablesStay
  <2>6. ASSUME ~spoiled PROVE rows' = past[n]
    <3>1. Undoes(log[n], After(n), past[n])
      BY <2>1, <2>3, <2>6 DEF IInv, UndoableAtAnyTime
    <3> QED BY <2>1, <2>2, <2>3, <3>1 DEF Undoes, After
  <2>7. UndoableAtAnyTime'
    <3> SUFFICES ASSUME ~spoiled
                 PROVE  /\ (IF Left' = 0 THEN rows' ELSE past'[1]) = saved'
                        /\ \A i \in 1..Left' : Undoes(log[i], After(i), past[i])'
      BY <2>2 DEF UndoableAtAnyTime
    <3>1. /\ past[1] = saved
          /\ \A i \in 1..n : Undoes(log[i], After(i), past[i])
      BY <2>1, <2>3 DEF IInv, UndoableAtAnyTime
    <3>2. (IF Left' = 0 THEN rows' ELSE past'[1]) = saved'
      <4>1. n - 1 = 0 => n = 1
        BY <1>t, <2>1
      <4>2. Left' = n - 1 /\ past' = past /\ saved' = saved /\ rows' = past[n]
        BY <2>1, <2>2, <2>6
      <4> HIDE DEF n
      <4> QED BY <3>1, <4>1, <4>2
    <3>3. ASSUME NEW i \in 1..Left' PROVE Undoes(log[i], After(i), past[i])'
      <4>1. i \in 1..n /\ i # n /\ i \in 1..Len(log)
        BY <1>t, <2>1
      <4>2. Undoes(log[i], After(i), past[i])
        BY <3>1, <4>1
      <4>3. After(i)' = After(i)
        BY <1>t, <2>1, <2>2, <2>6, <4>1 DEF After
      <4>4. log[i] \in Entry /\ log[i].table \in Table
        BY <1>t, <4>1, EntryKinds
      <4> QED BY <2>2, <2>5, <4>2, <4>3, <4>4 DEF TablesStay, Undoes, UndoEnds, UndoFails
    <3> QED BY <3>2, <3>3
  <2>8. KeysAgree' /\ PastAgree'
    BY <1>t, <2>1, <2>2, <2>6 DEF KeysAgree, PastAgree
  <2>9. Rooted'
    BY <1>t, <2>2, <2>3, <2>4, <2>5 DEF Rooted, Rows
  <2>10. WorkInTxn' /\ VisitsWhatItFound'
    BY <1>t, <2>1, <2>2, <2>3 DEF WorkInTxn, VisitsWhatItFound
  <2>11. ListedTablesExist'
    BY <1>t, <2>2, <2>3, <2>4, <2>5 DEF ListedTablesExist, Existing
  <2> QED BY <1>t, <2>7, <2>8, <2>9, <2>10, <2>11 DEF IInv
<1>11. CASE UndoEntryEnds
  BY <1>2, <1>11 DEF UndoEntryEnds
<1>12. CASE UndoEntryFails
  <2>1. /\ work' = Idle /\ spoiled' = TRUE /\ UNCHANGED <<tables, rows, listed, txn, log>>
        /\ work'.kind = "idle"
    BY <1>12 DEF UndoEntryFails, Idle
  <2>2. Rooted' /\ WorkInTxn' /\ ListedTablesExist'
    BY <1>t, <2>1 DEF Rooted, WorkInTxn, ListedTablesExist, Existing
  <2>3. KeysAgree' /\ PastAgree' /\ UndoableAtAnyTime' /\ VisitsWhatItFound'
    BY <2>1 DEF KeysAgree, PastAgree, UndoableAtAnyTime, VisitsWhatItFound
  <2> QED BY <1>t, <2>2, <2>3 DEF IInv
<1>13. ASSUME NEW t \in Table, CreateTable(t) \/ CreateTableFails(t) PROVE IInv'
  <2>1. /\ UNCHANGED <<rows, txn, log, work, past, saved, spoiled>> /\ work = Idle
        /\ tables[t] = "none" /\ tables' \in {tables, [tables EXCEPT ![t] = "new"]}
        /\ listed' \in {listed, Listed}
    BY <1>13 DEF CreateTable, CreateTableFails, InTransaction, history
  <2>2. tables \in [Table -> {"none", "new", "used", "unsaved"}] /\ work.kind = "idle"
    BY <1>t, <2>1 DEF TypeOK, Idle
  <2>3. TablesStay /\ Left' = Left
    BY <2>1, <2>2 DEF TablesStay, Left
  <2>4. UndoableAtAnyTime'
    BY <2>1, <2>3, LogKept
  <2>5. Rooted' /\ WorkInTxn' /\ KeysAgree' /\ PastAgree' /\ VisitsWhatItFound'
    BY <1>t, <2>1, <2>2 DEF Rooted, WorkInTxn, KeysAgree, PastAgree, VisitsWhatItFound
  <2>6. ListedTablesExist'
    BY <1>t, <2>1, <2>2 DEF ListedTablesExist, Listed, Existing
  <2> QED BY <1>t, <2>4, <2>5, <2>6 DEF IInv
<1>14. ASSUME NEW t \in Table, DropTable(t) PROVE IInv'
  <2>1. /\ work = Idle /\ work.kind = "idle" /\ UNCHANGED <<txn, log, work, saved, past>>
        /\ tables' = [tables EXCEPT ![t] = "none"] /\ rows' = [rows EXCEPT ![t] = NoRows]
        /\ listed' = Unlisted(t)
        /\ ~spoiled' => ~spoiled /\ (txn = "open" => rows[t] = NoRows /\ ~Touched(t))
    BY <1>14 DEF DropTable, Idle
  <2>2. tables \in [Table -> {"none", "new", "used", "unsaved"}]
    BY <1>t DEF TypeOK
  <2>3. Rooted' /\ WorkInTxn' /\ VisitsWhatItFound'
    BY <1>t, <2>1, <2>2 DEF Rooted, WorkInTxn, VisitsWhatItFound, Rows
  <2>4. ListedTablesExist'
    BY <1>t, <2>1, <2>2 DEF ListedTablesExist, Unlisted, Existing
  <2>5. KeysAgree' /\ PastAgree'
    <3>1. ASSUME ~spoiled' PROVE KeyIsId(rows')
      BY <1>t, <2>1, <3>1 DEF KeysAgree, KeyIsId, NoRows, Holds, Rows
    <3> QED BY <1>t, <2>1, <3>1 DEF KeysAgree, PastAgree
  <2>6. UndoableAtAnyTime'
    <3> SUFFICES ASSUME ~spoiled', txn = "open"
                 PROVE  /\ (IF Left' = 0 THEN rows' ELSE past'[1]) = saved'
                        /\ \A i \in 1..Left' : Undoes(log[i], After(i), past[i])'
      BY <2>1 DEF UndoableAtAnyTime
    <3>1. rows' = rows /\ ~Touched(t) /\ Left' = Left /\ Left = Len(log)
      BY <1>t, <2>1 DEF Rows, Left
    <3>2. /\ (IF Left = 0 THEN rows ELSE past[1]) = saved
          /\ \A i \in 1..Left : Undoes(log[i], After(i), past[i])
      BY <2>1 DEF IInv, UndoableAtAnyTime
    <3>3. ASSUME NEW i \in 1..Left' PROVE Undoes(log[i], After(i), past[i])'
      <4>1. i \in 1..Len(log) /\ Undoes(log[i], After(i), past[i])
        BY <3>1, <3>2
      <4>2. log[i] \in Entry /\ log[i].table \in Table /\ log[i].table # t
        BY <1>t, <3>1, <4>1, EntryKinds DEF Touched
      <4>3. tables'[log[i].table] = tables[log[i].table] /\ After(i)' = After(i)
        BY <2>1, <2>2, <3>1, <4>2 DEF After
      <4> QED BY <2>1, <4>1, <4>2, <4>3 DEF Undoes, UndoEnds, UndoFails
    <3> QED BY <2>1, <3>1, <3>2, <3>3
  <2> QED BY <1>t, <2>3, <2>4, <2>5, <2>6 DEF IInv
<1>15. CASE UNCHANGED vars
  <2>1. UNCHANGED <<tables, rows, listed, txn, log, work, saved, past, spoiled>>
    BY <1>15 DEF vars
  <2>2. TablesStay /\ Left' = Left
    BY <2>1 DEF TablesStay, Left
  <2>3. UndoableAtAnyTime'
    BY <2>1, <2>2, LogKept
  <2>4. VisitsWhatItFound'
    BY <1>t, <2>1 DEF VisitsWhatItFound, Stands
  <2> QED BY <1>t, <2>1, <2>3, <2>4
      DEF IInv, Rooted, WorkInTxn, KeysAgree, PastAgree, ListedTablesExist, Existing
<1> QED
  BY <1>1, <1>2, <1>3, <1>4, <1>6, <1>7, <1>8, <1>9, <1>10, <1>11, <1>12, <1>13, <1>14, <1>15
  DEF Next

\* The inductive invariant always holds.
LEMMA InvAlways == Spec => []IInv
<1> QED BY InitInv, StepInv, PTL DEF Spec

-----------------------------------------------------------------------------
(* What follows for every database *)

\* Unless a step has spoiled it, every row hangs under the key it shows.
THEOREM KeysAlwaysAgree == Spec => []KeysAgree
<1>1. IInv => KeysAgree
  BY DEF IInv
<1> QED BY <1>1, InvAlways, PTL

\* A delete or an update visits the rows it has found and no neighbour.
THEOREM VisitsAreExact == Spec => []VisitsWhatItFound
<1>1. IInv => VisitsWhatItFound
  BY DEF IInv
<1> QED BY <1>1, InvAlways, PTL

\* The log of an open transaction leads back to its BEGIN at any time.
THEOREM AlwaysUndoable == Spec => []UndoableAtAnyTime
<1>1. IInv => UndoableAtAnyTime
  BY DEF IInv
<1> QED BY <1>1, InvAlways, PTL

\* Every listed table is there.
THEOREM ListedAlwaysExist == Spec => []ListedTablesExist
<1>1. IInv => ListedTablesExist
  BY DEF IInv
<1> QED BY <1>1, InvAlways, PTL

\* An abort neither fails nor ends the process, and restores the rows.
THEOREM AbortAlwaysRestores == Spec => AbortRestores
<1>1. ASSUME IInv, ~spoiled
      PROVE  ~UndoEntryEnds /\ ~UndoEntryFails /\ (AbortDone => rows' = saved)
  <2>1. ASSUME UndoEntryEnds \/ UndoEntryFails PROVE FALSE
    <3>1. /\ work.kind = "undo" /\ work.left > 0
          /\ UndoEnds(rows, Turn) \/ UndoFails(rows, Turn)
      BY <2>1 DEF UndoEntryEnds, UndoEntryFails
    <3>2. work.left \in 1..Left /\ Left = work.left /\ txn = "open"
      <4>1. work \in [kind: {"undo"}, left: 0..MaxLog]
        BY <1>1, <3>1, WorkKinds DEF IInv, TypeOK
      <4>2. txn = "open"
        BY <1>1, <3>1 DEF IInv, WorkInTxn, Idle
      <4> QED BY <3>1, <4>1, <4>2, KeyAssumption DEF Left
    <3>3. Undoes(log[work.left], After(work.left), past[work.left])
      BY <1>1, <3>2 DEF IInv, UndoableAtAnyTime
    <3> QED BY <3>1, <3>2, <3>3 DEF Undoes, After, Turn
  <2>2. ASSUME AbortDone PROVE rows' = saved
    <3>1. work.kind = "undo" /\ Left = 0 /\ rows' = rows
      BY <2>2 DEF AbortDone, Left
    <3>2. txn = "open"
      BY <1>1, <3>1 DEF IInv, WorkInTxn, Idle
    <3> QED BY <1>1, <3>1, <3>2 DEF IInv, UndoableAtAnyTime
  <2> QED BY <2>1, <2>2
<1>2. IInv /\ [Next]_vars =>
        [~spoiled => /\ ~UndoEntryEnds /\ ~UndoEntryFails
                     /\ AbortDone => rows' = saved]_vars
  BY <1>1
<1> QED BY <1>2, InvAlways, PTL DEF Spec, AbortRestores
=============================================================================
