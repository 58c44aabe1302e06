------------------------------ MODULE UndoLog ------------------------------
(***************************************************************************)
(* The undo log (log_manager.cpp, undo_entry.cpp) as the sessions use it   *)
(* from begin to commit or abort (transaction_handle.cpp).                 *)
(*                                                                         *)
(* Each database has a directory of log files that grow at the end: the    *)
(* bytes of an entry, then its size, so that undo can walk backwards from  *)
(* the end of the newest file to the BEGIN entry of its transaction.  The  *)
(* two parts are two writes.  One countFile serves all databases.          *)
(*                                                                         *)
(* Bytes are counted in units: an entry takes one unit or more, a size one *)
(* unit.  The process may crash; the files and the transaction counter     *)
(* outlive it.                                                             *)
(***************************************************************************)
EXTENDS Integers, Sequences, SequencesExt

CONSTANTS
    Session,
    Database,
    Length,     \* how many units an entry can take
    FileLimit,  \* maxUndoLogFileSize
    MaxEntries, \* bound: entries ever made
    Crashes,    \* may the process crash and start again
    Shared      \* may two sessions have transactions open in one database

ASSUME LengthAssumption == Length \subseteq Nat \ {0}
ASSUME LimitAssumption == FileLimit \in Nat /\ MaxEntries \in Nat
ASSUME FlagAssumption == Crashes \in BOOLEAN /\ Shared \in BOOLEAN

VARIABLES
    entries,    \* every entry ever made, in order: [txn, op, length]
    files,      \* database -> sequence of log files, each a sequence of units
    countFile,  \* LogManager::countFile, 0 in a new process
    session,    \* what each session thread is doing
    counter,    \* the transaction counter, kept in a file
    up          \* FALSE once an exception nobody catches has ended the process

vars == <<entries, files, countFile, session, counter, up>>

NoTxn == 0
EntryId == 1..MaxEntries
OperationType == {"BEGIN", "CHANGE"}    \* insert, delete and update are one kind
Entry == [txn: Nat \ {NoTxn}, op: OperationType, length: Length]
Part == {0} \cup UNION {1..n : n \in Length}  \* 0 is the size
Unit == [entry: EntryId, part: Part]
Steps == {"idle", "size", "open", "undone"}

Idle(d) == [step |-> "idle", txn |-> NoTxn, database |-> d, file |-> 0,
            own |-> <<>>, seen |-> <<>>]

TypeOK ==
    /\ entries \in Seq(Entry) /\ Len(entries) <= MaxEntries
    /\ files \in [Database -> Seq(Seq(Unit))]
    /\ countFile \in 0..MaxEntries + 1
    /\ session \in [Session -> [step: Steps, txn: Nat, database: Database,
                                file: Nat, own: Seq(EntryId), seen: Seq(EntryId)]]
    /\ counter \in Nat
    /\ up \in BOOLEAN

Init ==
    /\ entries = <<>>
    /\ files = [d \in Database |-> <<>>]
    /\ countFile = 0
    /\ session \in [Session -> {Idle(d) : d \in Database}]
    /\ counter = 0
    /\ up = TRUE

-----------------------------------------------------------------------------
(* getCurrentFileIndex *)

\* The files are counted only while countFile is 0.
Counted(d) == IF countFile = 0 THEN Len(files[d]) ELSE countFile

\* file_size of a file that does not exist throws.
FileMissing(d) == Counted(d) > Len(files[d])

FileIndex(d) ==
    LET c == Counted(d)
    IN IF c = 0 THEN 1 ELSE IF Len(files[d][c]) > FileLimit THEN c + 1 ELSE c

\* A new file is opened for output, which empties one that is there.
FilesWithIndex(d) ==
    LET c == Counted(d)
        i == FileIndex(d)
    IN IF i > Len(files[d]) THEN Append(files[d], <<>>)
       ELSE IF i > c THEN [files[d] EXCEPT ![i] = <<>>]
       ELSE files[d]

-----------------------------------------------------------------------------
(* appendUndoEntry *)

NewEntry == Len(entries) + 1

\* Slip: the parts are counted from the wrong end of the header.
BodyShifted(e, length) == [part \in 1..length |-> [entry |-> e, part |-> part + 1]]

Body(e, length) == [part \in 1..length |-> [entry |-> e, part |-> part]]

\* The first write: the bytes of the entry.
WriteBody(d, txn, op, length) ==
    /\ Len(entries) < MaxEntries
    /\ ~FileMissing(d)
    /\ countFile' = FileIndex(d)
    /\ files' = [files EXCEPT ![d] =
                    [FilesWithIndex(d) EXCEPT ![FileIndex(d)] = @ \o Body(NewEntry, length)]]
    /\ entries' = Append(entries, [txn |-> txn, op |-> op, length |-> length])
    /\ UNCHANGED up

\* std::filesystem::filesystem_error is not an Errors: nobody catches it.
Throw(d) ==
    /\ FileMissing(d)
    /\ up' = FALSE
    /\ UNCHANGED <<entries, files, countFile>>

\* beginTransaction
Begin(s) ==
    LET d == session[s].database
        t == counter + 1
    IN /\ up
       /\ session[s].step = "idle"
       /\ Shared \/ \A r \in Session : session[r].database = d => session[r].step = "idle"
       /\ \/ /\ \E length \in Length : WriteBody(d, t, "BEGIN", length)
             /\ session' = [session EXCEPT ![s] =
                               [step |-> "size", txn |-> t, database |-> d,
                                file |-> FileIndex(d), own |-> <<>>, seen |-> <<>>]]
          \/ Throw(d) /\ UNCHANGED session
       /\ counter' = t

\* insert, deleteTuples and update log what they do.
LogChange(s) ==
    LET d == session[s].database
    IN /\ up
       /\ session[s].step = "open"
       /\ \/ /\ \E length \in Length : WriteBody(d, session[s].txn, "CHANGE", length)
             /\ session' = [session EXCEPT ![s].step = "size",
                                           ![s].file = FileIndex(d),
                                           ![s].own = Append(@, NewEntry)]
          \/ Throw(d) /\ UNCHANGED session
       /\ UNCHANGED counter

\* The session's own newest entry, whose size is still to be written.
Unsized(s) ==
    CHOOSE e \in DOMAIN entries :
        /\ entries[e].txn = session[s].txn
        /\ \A f \in DOMAIN entries : entries[f].txn = session[s].txn => f <= e

\* Slip: the size goes to the file that is the newest by now.
WriteSizeAnew(s) ==
    LET d == session[s].database
    IN /\ up
       /\ session[s].step = "size"
       /\ countFile' = FileIndex(d)
       /\ files' = [files EXCEPT ![d] =
             [FilesWithIndex(d) EXCEPT ![FileIndex(d)] =
                 Append(@, [entry |-> Unsized(s), part |-> 0])]]
       /\ session' = [session EXCEPT ![s].step = "open"]
       /\ UNCHANGED <<entries, counter, up>>

\* The second write: the size of the entry.
WriteSize(s) ==
    LET d == session[s].database
    IN /\ up
       /\ session[s].step = "size"
       /\ files' = [files EXCEPT ![d][session[s].file] =
                       Append(@, [entry |-> Unsized(s), part |-> 0])]
       /\ session' = [session EXCEPT ![s].step = "open"]
       /\ UNCHANGED <<entries, countFile, counter, up>>

-----------------------------------------------------------------------------
(* eachUndoEntry *)

\* The unit at position p is a size, and the units before it that it spans are
\* one entry from its first part to its last.
WholeEntry(made, file, p) ==
    LET n == made[file[p].entry].length
    IN /\ file[p].part = 0
       /\ n < p
       /\ \A i \in 1..n : file[p - n + i - 1] = [entry |-> file[p - n].entry, part |-> i]

\* What the callback has been given, and whether all entries could be read.
Finished == [seen |-> <<>>, readable |-> TRUE]
Lost == [seen |-> <<>>, readable |-> FALSE]

\* The inner loop: the entries of one file for transaction t, from its end, then
\* what the walk finds in the older files.
WalkFile(made, file, t, older) ==
    LET w[p \in 0..Len(file)] ==
            IF p = 0 THEN older
            ELSE IF ~WholeEntry(made, file, p) THEN Lost
            ELSE LET e == file[p - 1].entry
                     rest == w[p - 1 - made[file[p].entry].length]
                 IN IF made[e].txn # t THEN rest
                    ELSE IF made[e].op = "BEGIN" THEN Finished
                    ELSE [seen |-> <<e>> \o rest.seen, readable |-> rest.readable]
    IN w[Len(file)]

\* Slip: the oldest file is left out (index > 1 for index > 0).
WalkNewer(made, fs, newest, t) ==
    LET w[i \in 0..newest] == IF i <= 1 THEN Finished
                        ELSE WalkFile(made, fs[i], t, w[i - 1])
    IN w[newest]

\* The outer loop: the files from the newest to the oldest.
Walk(made, fs, newest, t) ==
    LET w[i \in 0..newest] == IF i = 0 THEN Finished
                        ELSE WalkFile(made, fs[i], t, w[i - 1])
    IN w[newest]

\* abort: undo is given the transaction's entries.
Undo(s) ==
    LET d == session[s].database
    IN /\ up
       /\ session[s].step = "open"
       /\ \/ /\ ~FileMissing(d)
             /\ countFile' = FileIndex(d)
             /\ files' = [files EXCEPT ![d] = FilesWithIndex(d)]
             /\ session' = [session EXCEPT ![s].step = "undone",
                               ![s].seen = Walk(entries, files'[d], FileIndex(d), session[s].txn).seen]
             /\ UNCHANGED <<entries, up>>
          \/ Throw(d) /\ UNCHANGED session
       /\ UNCHANGED counter

\* commit, and the end of abort.
End(s) ==
    /\ up
    /\ session[s].step \in {"open", "undone"}
    /\ session' = [session EXCEPT ![s] = Idle(session[s].database)]
    /\ UNCHANGED <<entries, files, countFile, counter, up>>

\* USE names another database.
SetDatabase(s, d) ==
    /\ up
    /\ session[s].step = "idle"
    /\ d # session[s].database
    /\ session' = [session EXCEPT ![s] = Idle(d)]
    /\ UNCHANGED <<entries, files, countFile, counter, up>>

\* The process dies between any two writes and is started again.
Crash ==
    /\ Crashes
    /\ countFile' = 0
    /\ session' = [s \in Session |-> Idle(session[s].database)]
    /\ up' = TRUE
    /\ UNCHANGED <<entries, files, counter>>

Next ==
    \/ \E s \in Session :
          \/ Begin(s) \/ LogChange(s) \/ WriteSize(s) \/ Undo(s) \/ End(s)
          \/ \E d \in Database : SetDatabase(s, d)
    \/ Crash

Spec == Init /\ [][Next]_vars

-----------------------------------------------------------------------------
(* Properties *)

\* An abort undoes exactly what its transaction did, the last change first,
\* wherever the log changes files and whatever a crash has torn before.
UndoIsExact ==
    \A s \in Session : session[s].step = "undone" =>
        session[s].seen = Reverse(session[s].own)

\* The walk of an open transaction can read every entry on its way: what the
\* assertion bufferOffset == rawSize (undo_entry.cpp:35) says of each of them.
WalkIsReadable ==
    \A s \in Session :
        LET d == session[s].database
        IN session[s].step = "open" /\ ~FileMissing(d) /\ countFile # 0 =>
              Walk(entries, files[d], countFile, session[s].txn).readable

\* While one database alone has log files they hold, read from the first to the
\* last, the entries in the order in which they were made, in every process that
\* appends to them: eachUndoEntry takes that order for the order of the changes.
EntriesInOrder ==
    \A d \in Database : (\A e \in Database \ {d} : files[e] = <<>>) =>
        \A i, j \in DOMAIN files[d] : \A p \in DOMAIN files[d][i], q \in DOMAIN files[d][j] :
            i < j \/ (i = j /\ p < q) => files[d][i][p].entry <= files[d][j][q].entry

\* The log can be read back and tells the changes in their order.
LogIsReadable == WalkIsReadable /\ EntriesInOrder
=============================================================================
