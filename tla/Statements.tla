----------------------------- MODULE Statements -----------------------------
(***************************************************************************)
(* The statements that change a database (database/ under core/storage),   *)
(* as one session runs them from begin to commit or abort.                 *)
(*                                                                         *)
(* A table's rows hang in its clustered tree under their BTREE_KEY, which  *)
(* is meant to be the value of the key attribute, here id.  Every change   *)
(* puts an entry with the images before and after it into the undo log,    *)
(* and abort takes the entries back from the last to the first.            *)
(*                                                                         *)
(* Bounds: a table fits a leaf of its tree; a row has its key and one more *)
(* attribute; the key of a table that refers to another has the name of    *)
(* the key it refers to.  A statement that throws before it has changed    *)
(* anything (a refused lock, a duplicate key, a missing column) leaves     *)
(* this state as it was and is no step.                                    *)
(***************************************************************************)
EXTENDS Integers, Sequences, FiniteSets

CONSTANTS
    Table, NoTable,
    Parent,     \* table -> the table its key refers to, or NoTable
    Key,        \* the values of id
    Val, NoVal, \* the values of the other attribute; NoVal: not in an image
    NoRow, NoImage,
    MaxLog,     \* bound: entries of one transaction
    MaxRows     \* bound: rows in the tables when one is inserted

ASSUME ParentAssumption == Parent \in [Table -> Table \cup {NoTable}] /\ NoTable \notin Table
ASSUME KeyAssumption == Key \subseteq Int /\ MaxLog \in Nat /\ MaxRows \in Nat
\* A leaf has a first and a last key.
ASSUME OrderAssumption ==
    \A S \in SUBSET Key : S # {} =>
        /\ \E m \in S : \A k \in S : m <= k
        /\ \E m \in S : \A k \in S : k <= m
ASSUME NullAssumption ==
    /\ NoVal \notin Val
    /\ NoRow \notin [id: Key, val: Val]
    /\ NoImage \notin [id: Key, val: Val \cup {NoVal}]

VARIABLES
    tables,     \* table -> "none", "new" (its tree has no root yet), "used", or
                \* "unsaved": it has a root its entity file does not know
    rows,       \* table -> BTREE_KEY -> the row found there
    listed,     \* listEntityNames, or Unread
    txn,        \* transactionPtr: "none" or "open"
    log,        \* the undo entries since BEGIN
    work,       \* the statement that is running
    saved,      \* history: rows at BEGIN
    past,       \* history: rows before each entry of log
    spoiled     \* history: a step the log cannot take back

vars == <<tables, rows, listed, txn, log, work, saved, past, spoiled>>
history == <<saved, past, spoiled>>

\* The list of tables has not been read.
Unread == {NoTable}

Row == [id: Key, val: Val]
Image == [id: Key, val: Val \cup {NoVal}]
Entry == [op: {"insert"}, table: Table, before: {NoImage}, after: Row]
         \cup [op: {"delete"}, table: Table, before: Row, after: {NoImage}]
         \cup [op: {"update"}, table: Table, before: Image, after: Image]
Rows == [Table -> [Key -> Row \cup {NoRow}]]
NoRows == [k \in Key |-> NoRow]

\* A key met in the leaves: where it hangs and what the row says.
Found == [at: Key, id: Key]
Idle == [kind |-> "idle"]
Work == {Idle}
        \cup [kind: {"delete"}, table: Table, todo: SUBSET Found]
        \cup [kind: {"update"}, table: Table, todo: SUBSET Found, sets: SUBSET {"id", "val"}]
        \cup [kind: {"undo"}, left: 0..MaxLog]

TypeOK ==
    /\ tables \in [Table -> {"none", "new", "used", "unsaved"}]
    /\ rows \in Rows
    /\ listed \in {Unread} \cup SUBSET Table
    /\ txn \in {"none", "open"}
    /\ log \in Seq(Entry) /\ Len(log) <= MaxLog
    /\ work \in Work /\ (work.kind = "undo" => work.left <= Len(log))
    /\ saved \in Rows
    /\ past \in Seq(Rows) /\ Len(past) = Len(log)
    /\ spoiled \in BOOLEAN

Init ==
    /\ tables = [t \in Table |-> "none"]
    /\ rows = [t \in Table |-> NoRows]
    /\ listed = Unread
    /\ txn = "none"
    /\ log = <<>>
    /\ work = Idle
    /\ saved = rows
    /\ past = <<>>
    /\ spoiled = FALSE

-----------------------------------------------------------------------------
(* The clustered tree of a table *)

Holds(r, k) == r[k] # NoRow

\* Where lower_bound stops: at the key or at the next one below it.
AtOrBelow(r, k) == {b \in Key : Holds(r, b) /\ b <= k}

LowerBound(r, k) == CHOOSE b \in AtOrBelow(r, k) : \A c \in AtOrBelow(r, k) : c <= b

\* removeFromLeaf takes what lower_bound finds; only nothing below is an error.
RemoveFails(r, k) == AtOrBelow(r, k) = {}
Without(r, k) == [r EXCEPT ![LowerBound(r, k)] = NoRow]
Removed(r, k) == r[LowerBound(r, k)]

\* A row in leaf order.
First(todo) == CHOOSE f \in todo : \A g \in todo : f.at <= g.at
FoundIn(r, where) == {[at |-> k, id |-> r[k].id] : k \in {j \in where : Holds(r, j)}}

-----------------------------------------------------------------------------
(* begin, commit *)

InTransaction == work = Idle /\ txn = "open"

KeyIsId(r) == \A t \in Table : \A k \in Key : Holds(r[t], k) => r[t][k].id = k

Logged(op, t, before, after) ==
    /\ log' = Append(log, [op |-> op, table |-> t, before |-> before, after |-> after])
    /\ past' = Append(past, rows)
    /\ UNCHANGED saved

\* Nothing more is asked of what came before this transaction's BEGIN.
Forget ==
    /\ log' = <<>> /\ past' = <<>> /\ saved' = rows
    /\ spoiled' = ~KeyIsId(rows)

\* beginTransaction puts a new transaction where an open one was.
BeginTransaction ==
    /\ work = Idle
    /\ txn' = "open"
    /\ Forget
    /\ UNCHANGED <<tables, rows, listed, work>>

Commit ==
    /\ InTransaction
    /\ txn' = "none"
    /\ Forget
    /\ UNCHANGED <<tables, rows, listed, work>>

\* A new Database object reads the files: the session leaves or chooses a
\* database again, or the process has ended and is started anew.  It ends
\* between any two steps when it is killed or meets what is no Errors: a lock
\* asked for no transaction, more values than attributes (vector::at), a
\* reference to a table that is gone.  Nobody aborts what was open.
Reopen ==
    /\ tables' = [t \in Table |-> IF tables[t] = "unsaved" THEN "new" ELSE tables[t]]
    /\ rows' = [t \in Table |-> IF tables[t] = "unsaved" THEN NoRows ELSE rows[t]]
    /\ txn' = "none" /\ listed' = Unread /\ work' = Idle
    /\ log' = <<>> /\ past' = <<>> /\ saved' = rows'
    /\ spoiled' = ~KeyIsId(rows')

-----------------------------------------------------------------------------
(* insert *)

\* Slip: only the table referred to is searched.
RefusedByParent(t, id) == Parent[t] # NoTable /\ Holds(rows[Parent[t]], id)

\* validateInsert: the search for the key in the table referred to throws when
\* it finds it.
Refused(t, id) ==
    \/ Holds(rows[t], id)
    \/ Parent[t] # NoTable /\ Holds(rows[Parent[t]], id)

Occupied == {tk \in Table \X Key : Holds(rows[tk[1]], tk[2])}

Insert(t, row) ==
    /\ InTransaction /\ Len(log) < MaxLog /\ Cardinality(Occupied) < MaxRows
    /\ tables[t] # "none"
    /\ Parent[t] # NoTable => tables[Parent[t]] # "none"
    /\ ~Refused(t, row.id)
    /\ Logged("insert", t, NoImage, row)
    /\ rows' = [rows EXCEPT ![t][row.id] = row]
    /\ tables' = [tables EXCEPT ![t] = "used"]
    /\ UNCHANGED <<listed, txn, work, spoiled>>

-----------------------------------------------------------------------------
(* deleteTuples, update: the keys are collected before anything is changed *)

StartDelete(t, where) ==
    /\ InTransaction /\ tables[t] # "none"
    /\ work' = [kind |-> "delete", table |-> t, todo |-> FoundIn(rows[t], where)]
    /\ UNCHANGED <<tables, rows, listed, txn, log, history>>

StartUpdate(t, where, sets) ==
    /\ InTransaction /\ tables[t] # "none"
    /\ work' = [kind |-> "update", table |-> t, todo |-> FoundIn(rows[t], where), sets |-> sets]
    /\ UNCHANGED <<tables, rows, listed, txn, log, history>>


\* Slip: the row that was changed stays in the list.
RestAndFirst == work
Rest == [work EXCEPT !.todo = @ \ {First(@)}]
NextId == First(work.todo).id
Stands == rows[work.table]

DeleteRow ==
    /\ work.kind = "delete" /\ work.todo # {} /\ Len(log) < MaxLog
    /\ ~RemoveFails(Stands, NextId)
    /\ rows' = [rows EXCEPT ![work.table] = Without(@, NextId)]
    /\ Logged("delete", work.table, Removed(Stands, NextId), NoImage)
    /\ work' = Rest
    /\ UNCHANGED <<tables, listed, txn, spoiled>>

\* What the images of an update hold: the key, and what it sets.
ImageOf(row, sets) == [id |-> row.id, val |-> IF "val" \in sets THEN row.val ELSE NoVal]

\* The rows an update can make of a row.
Updates(row, sets) ==
    {[id |-> i, val |-> v] : i \in IF "id" \in sets THEN Key ELSE {row.id},
                             v \in IF "val" \in sets THEN Val ELSE {row.val}}

\* addBNodeKey inserts into the map and so leaves the BTREE_KEY that is there.
UpdateRow ==
    /\ work.kind = "update" /\ work.todo # {} /\ Len(log) < MaxLog
    /\ ~RemoveFails(Stands, NextId)
    /\ \E new \in Updates(Removed(Stands, NextId), work.sets) :
        /\ rows' = [rows EXCEPT ![work.table][LowerBound(Stands, NextId)] = new]
        /\ Logged("update", work.table, ImageOf(Removed(Stands, NextId), work.sets),
                  ImageOf(new, work.sets))
        /\ spoiled' = (spoiled \/ new.id # Removed(Stands, NextId).id)
    /\ work' = Rest
    /\ UNCHANGED <<tables, listed, txn>>

\* An expression throws when the row is out of the tree and not in the log.
UpdateRowFails ==
    /\ work.kind = "update" /\ work.todo # {} /\ work.sets # {}
    /\ ~RemoveFails(Stands, NextId)
    /\ rows' = [rows EXCEPT ![work.table] = Without(@, NextId)]
    /\ spoiled' = TRUE
    /\ work' = Idle
    /\ UNCHANGED <<tables, listed, txn, log, saved, past>>

\* "Key not found"
RowNotFound ==
    /\ work.kind \in {"delete", "update"} /\ work.todo # {}
    /\ RemoveFails(Stands, NextId)
    /\ work' = Idle
    /\ UNCHANGED <<tables, rows, listed, txn, log, history>>

\* saveEntity
StatementDone ==
    /\ work.kind \in {"delete", "update"} /\ work.todo = {}
    /\ work' = Idle
    /\ tables' = [tables EXCEPT ![work.table] = IF @ = "unsaved" THEN "used" ELSE @]
    /\ UNCHANGED <<rows, listed, txn, log, history>>

-----------------------------------------------------------------------------
(* abort *)

\* Slip: the image after the update is put back.
TakenBackAfter(r, e) ==
    CASE e.op = "insert" -> Without(r, e.after.id)
      [] e.op = "delete" -> [r EXCEPT ![e.before.id] = e.before]
      [] e.op = "update" ->
            [r EXCEPT ![LowerBound(r, e.after.id)] =
                [id |-> e.after.id,
                 val |-> IF e.after.val = NoVal THEN @.val ELSE e.after.val]]

\* One entry taken back from the rows r of its table.  An update keeps the
\* BTREE_KEY of the tuple it finds, whatever key the image brings back.
TakenBack(r, e) ==
    CASE e.op = "insert" -> Without(r, e.after.id)
      [] e.op = "delete" -> [r EXCEPT ![e.before.id] = e.before]
      [] e.op = "update" ->
            [r EXCEPT ![LowerBound(r, e.after.id)] =
                [id |-> e.before.id,
                 val |-> IF e.before.val = NoVal THEN @.val ELSE e.before.val]]

\* The table is gone or has no tree, or the leaf has the key already (assert).
UndoEnds(r, e) ==
    \/ tables[e.table] = "none"
    \/ e.op # "delete" /\ tables[e.table] = "new"
    \/ e.op = "delete" /\ Holds(r[e.table], e.before.id)

\* "Key not found" leaves abort with the transaction still there.
UndoFails(r, e) ==
    ~UndoEnds(r, e) /\ e.op # "delete" /\ RemoveFails(r[e.table], e.after.id)

StartAbort ==
    /\ InTransaction
    /\ work' = [kind |-> "undo", left |-> Len(log)]
    /\ UNCHANGED <<tables, rows, listed, txn, log, history>>

\* Slip: the walk starts with the oldest entry.
TurnOldest == log[Len(log) + 1 - work.left]

\* eachUndoEntry walks from the newest entry back to BEGIN.
Turn == log[work.left]

UndoEntry ==
    /\ work.kind = "undo" /\ work.left > 0
    /\ ~UndoEnds(rows, Turn) /\ ~UndoFails(rows, Turn)
    /\ rows' = [rows EXCEPT ![Turn.table] = TakenBack(@, Turn)]
    /\ tables' = [tables EXCEPT ![Turn.table] = IF @ = "new" THEN "unsaved" ELSE @]
    /\ work' = [work EXCEPT !.left = @ - 1]
    /\ UNCHANGED <<listed, txn, log, history>>

UndoEntryEnds ==
    /\ work.kind = "undo" /\ work.left > 0
    /\ UndoEnds(rows, Turn)
    /\ Reopen

UndoEntryFails ==
    /\ work.kind = "undo" /\ work.left > 0
    /\ UndoFails(rows, Turn)
    /\ work' = Idle
    /\ spoiled' = TRUE
    /\ UNCHANGED <<tables, rows, listed, txn, log, saved, past>>

AbortDone ==
    /\ work.kind = "undo" /\ work.left = 0
    /\ work' = Idle
    /\ txn' = "none"
    /\ Forget
    /\ UNCHANGED <<tables, rows, listed>>

-----------------------------------------------------------------------------
(* createTable, dropTable, showTables: nothing of them is logged *)

Existing == {t \in Table : tables[t] # "none"}

\* getListEntityNames: the directory is read once.
Listed == IF listed = Unread THEN Existing ELSE listed

\* Only a reference makes validateCreateTable look at the list.
CreateTable(t) ==
    /\ InTransaction /\ tables[t] = "none"
    /\ Parent[t] # NoTable => Parent[t] \in Listed
    /\ listed' = IF Parent[t] # NoTable THEN Listed ELSE listed
    /\ tables' = [tables EXCEPT ![t] = "new"]
    /\ UNCHANGED <<rows, txn, log, work, history>>

\* "Table reference not found"
CreateTableFails(t) ==
    /\ InTransaction /\ tables[t] = "none"
    /\ Parent[t] # NoTable /\ Parent[t] \notin Listed
    /\ listed' = Listed
    /\ UNCHANGED <<tables, rows, txn, log, work, history>>

ShowTables ==
    /\ work = Idle
    /\ listed' = Listed
    /\ UNCHANGED <<tables, rows, txn, log, work, history>>

\* Slip: the name stays in the list.
UnlistedNever(t) == listed
Unlisted(t) == IF listed = Unread THEN Unread ELSE listed \ {t}

Touched(t) == \E i \in DOMAIN log : log[i].table = t

\* Neither a lock nor a transaction is asked for.
DropTable(t) ==
    /\ work = Idle /\ tables[t] # "none"
    /\ tables' = [tables EXCEPT ![t] = "none"]
    /\ rows' = [rows EXCEPT ![t] = NoRows]
    /\ listed' = Unlisted(t)
    /\ spoiled' = (spoiled \/ (txn = "open" /\ (rows[t] # NoRows \/ Touched(t))))
    /\ UNCHANGED <<txn, log, work, saved, past>>

-----------------------------------------------------------------------------
(* Properties *)

\* Unless a step has spoiled it, every row hangs under the key it shows, so
\* that a search by BTREE_KEY finds it and no two rows show one key
\* (insert_tuple.cpp, update.cpp, transaction_handle.cpp).
KeysAgree == ~spoiled => KeyIsId(rows)

\* What a running delete or update has still to visit is there under the key
\* it was collected with, so that it never takes a neighbour (update.cpp:36,
\* delete_tuple.cpp:45).
VisitsWhatItFound ==
    ~spoiled /\ work.kind \in {"delete", "update"} =>
        \A f \in work.todo : f.at = f.id /\ Holds(Stands, f.id)

\* How many entries of the log have not been taken back, and the rows right
\* after the i-th of them was written.
Left == IF work.kind = "undo" THEN work.left ELSE Len(log)
After(i) == IF i = Left THEN rows ELSE past[i + 1]

\* Taking e back leads from the rows after it to the rows before it.
Undoes(e, after, before) ==
    /\ ~UndoEnds(after, e) /\ ~UndoFails(after, e)
    /\ [after EXCEPT ![e.table] = TakenBack(@, e)] = before

\* At any time, in the middle of a statement too, each entry of the open
\* transaction takes back exactly the change it was written for, and together
\* they lead back to BEGIN (transaction_handle.cpp:29).
UndoableAtAnyTime ==
    ~spoiled /\ txn = "open" =>
        /\ (IF Left = 0 THEN rows ELSE past[1]) = saved
        /\ \A i \in 1..Left : Undoes(log[i], After(i), past[i])

\* Unless a step has spoiled it, an abort goes through to the end, and leaves
\* the rows as BEGIN found them (transaction_handle.cpp:16).
AbortRestores ==
    [][~spoiled => /\ ~UndoEntryEnds /\ ~UndoEntryFails
                   /\ AbortDone => rows' = saved]_vars

\* Every name in the list has its file, or eachEntity would hand a null
\* entity to its visitors (storage.h:69, storage.cpp:71).
ListedTablesExist == listed # Unread => listed \subseteq Existing

-----------------------------------------------------------------------------
Next ==
    \/ BeginTransaction \/ Commit \/ Reopen
    \/ \E t \in Table, row \in Row : Insert(t, row)
    \/ \E t \in Table, where \in SUBSET Key : StartDelete(t, where)
    \/ \E t \in Table, where \in SUBSET Key, sets \in {{"id"}, {"val"}, {"id", "val"}} :
            StartUpdate(t, where, sets)
    \/ DeleteRow \/ UpdateRow \/ UpdateRowFails \/ RowNotFound \/ StatementDone
    \/ StartAbort \/ UndoEntry \/ UndoEntryEnds \/ UndoEntryFails \/ AbortDone
    \/ \E t \in Table : CreateTable(t) \/ CreateTableFails(t) \/ DropTable(t)
    \/ ShowTables

Spec == Init /\ [][Next]_vars
=============================================================================
