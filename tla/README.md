# Csql in TLA+

Csql is a small relational database server in C++: a TCP server that parses SQL, a storage layer of
slotted pages in a B+tree with an LRU cache, a lock manager with a deadlock detector, and an undo
log. This directory holds TLA+ modules for its core, the TLC runs that check them on small
instances, and TLAPS proofs about them. Paths below are relative to `src/src/core/` of the
repository unless they start with `tests/` or `README.md`.

## 1. Inventory

One session thread serves one connection (`server/sql_server.cpp`). It has its own `Database` object
(`controller/database_controller.h`), with its own page cache and entities; what sessions share is
the files, one `LockManager` per database name, the `LogManager` and the `GlobalVariable` singleton.
A detector thread walks the wait-for graphs of all lock managers.

```
client -> SQLServer -> MainController (tokenizer, parsers) -> Statement -> Database (per session)
                                                                            |      |        |
                                            LockManager (per database, shared)     |   LogManager (shared)
                                                       ^                    B+tree -> pages -> LRU cache
                                        detector thread                                   |
                                                                              table files (shared)
```

| Component | State | Operations | What is hard | What makes it correct |
| --- | --- | --- | --- | --- |
| Lock manager (`controller/concurrency/lock_manager.*`) | request queues of tables and rows, two latches, condition variables, the wait-for graph | `lockTable`, `unlockTable`, `lockRow`, `unlockRow`, `releaseAllLocks`, the detector | two latches taken in both orders, sleeping and waking, a graph changed by two threads | one request per transaction, nothing left after the end, no lost wakeup, no latch deadlock, calls return, the whole looks atomic |
| LRU cache (`storage/lru_cache/*`) | linked list, lookup map | `put`, `get`, `contains`, `size` | a key put again leaves its old node behind | lookup leads to the newest node, an evicted value reaches the caller, the size is bounded |
| Page layer (`storage/storage.*`, `page/*`, `entity.*`) | table file, cache, page objects, entity (page counter, free list) | `readPage`, `writePage`, `popFreePage`, `addPageIntoFreeZone`, `getEntity`, `saveEntity` | objects shared by cache and holders, the first byte that decides what a block is read as, eviction, stale copies of sessions, ends in the middle of a change | file = cache = held pages; each page in use or free; a read loses no leaf and overwrites no other page |
| B+tree (`storage/storage.cpp:118-448`, `page/b_plus_node/*`, `page/slotted_page.*`) | nodes, parents, chain of leaves, roots of indexes | `setBTree`, `removeBtree`, `searchBtree`, iteration | splits, borrows and merges along a path of pages read earlier | it is a set of keys; leaves are chained in order; parents and children agree |
| Undo log (`storage/log/*`) | log files per database, `countFile` | `appendUndoEntry`, `eachUndoEntry` | an entry is two writes, files roll over, crashes, sessions in one file | an abort gets exactly its own changes, last first |
| Transactions and statements (`storage/database/*`) | the session's transaction, rows under their keys, the list of tables | insert, delete, update, create, drop, show, begin, commit, abort | order of collecting, change and log; errors half way; keys that change | rows hang under their keys; a statement changes the rows it found; an abort restores the tables |
| Server (`server/*`), `DatabaseController` | number of active threads, session to database | accept, handle a statement, disconnect | limit of five threads, what is asked for before it is there, texts cut by the stream | places are counted; who waits for one gets it; texts are read and answered once |
| Select, expressions, `likeMatch`, types (`storage/expression/*`, `util/helpers.cpp`, `storage/database/select.cpp`) | none | joins, where, groups, order, limit, functions | exceptions nobody catches, outer joins, patterns | what SQL promises, stated without the loops |
| Tokenizer and parsers (`controller/tokenizer/*`, `controller/parsers/*`) | position in the text | tokenise, thirteen factories tried in turn | factories that throw half way, precedence, texts that are no statement | a statement printed from its tree is parsed to that tree, and by one factory; where not is known exactly |
| Buffers (`storage/io_manager/*`), global variables, views | byte buffer; a JSON file; text | encode, decode; the transaction counter; show | the counter is used by all threads | transaction ids never repeat |

`PROJECT.json` lists each of them as a component, and the hazards with the line where each bites.

## 2. Modules

| Module | What it is |
| --- | --- |
| `LockRequests` | abstract: what a transaction holds, taken and given back in one step |
| `LockManager` | the lock manager, step by step between latches; implements `LockRequests` |
| `RecencyList` | abstract: a bounded list of entries in the order of last use |
| `LRUCache` | the operations of one cache, as operators on a record |
| `CacheClient` | one cache under any puts and gets; implements `RecencyList` while no key is put again |
| `PageFile` | abstract: a file of pages and a list of free ones, with the two holes the code leaves |
| `PageStore` | the page layer for several sessions, each with an `LRUCache` (INSTANCE); implements `PageFile` for one session |
| `KeySet` | abstract: a set of keys that gains and loses one at a time |
| `BPlusTree` | one index: leaves, internal nodes, free list, `setBTree` and `removeBtree` level by level; implements `KeySet` |
| `UndoLog` | the undo log, its files, sessions, databases and crashes |
| `Tokenizer` | the tokenizer, one token a step, and what the parsers ask of it |
| `Values` | values, their comparison, `like`, the functions on strings and numbers |
| `ExpressionParser` | the expression parser with its two stacks (extends `Tokenizer` and `Values`) |
| `Expressions` | what an expression or a target gives for a row or a group |
| `Select` | `Database::select` over tables that do not change |
| `SqlParser` | the factories as patterns over the tokens, in the order they are tried |
| `SqlText` | reference: how a statement is written from its tree, with the parentheses it needs, and which texts the parser misreads |
| `SelectPromise` | reference: what SQL promises of joins, groups, pages, `like` and functions |
| `Request` | one text from its first byte to its answer, through all of these |
| `Statements` | the statements that change rows, row by row, with undo, kills and reopening |
| `Server` | accept loop, places, session threads, clients and the stream between them |
| `LockManagerProofs`, `CacheProofs`, `PageStoreProofs`, `BPlusTreeProofs`, `UndoLogProofs`, `StatementsProofs`, `ServerProofs` | the theorems; `CacheProofs` begins with the lemmas on one cache, which `PageStoreProofs` uses for each session's |
| `BPlusTreePutProofs` | the first half of the proof about the tree, for `BPlusTreeProofs`: trees and chains of leaves, search and iteration, and the steps that put a key |
| `MC...` | what TLC instantiates |

A definition commented as a *slip* is a mistake this code could contain. It is not part of the
model; put in place of the definition after it, it breaks the property that `PROJECT.json` names
under `mutants`, which shows that the property can tell.

### LockManager

A transaction is driven by one session thread, so each transaction is a process with a program
counter `pc` and the arguments `arg` of the call it is in. A step runs from one place where another
thread can interfere to the next: taking a second latch, asking the wait-for graph, sleeping.
`tableLatch` and `rowLatch` are `table_lock_map_latch` and `row_lock_map_latch`; `waitVertex` and
`waitEdge` are `waits_for`, each of whose operations runs under its own latch and is one step.

- `LockTable`, `TableCheck`, `TableScan`, `TableScanRows`, `TableVerdict`, `TableGrant` are
  `lockTable` and its lambda `hasConflict` with its three parts; `T_sleep` and `TableWake` are
  `cv_.wait`. `rewait` is TRUE inside `wait`. The model keeps the inverted test: `lockTable` enters
  `wait` when `hasConflict()` is false and goes on to the grant when it is true; only the predicate
  inside `wait` has the right sign.
- `LockRow` ... `RowGrant` are `lockRow`. There it is the test of the vertex that is inverted, so
  the queues are only looked at after the detector has erased the caller's vertex.
- `ReleaseAllLocks` takes the table latch, `ReleaseQueues` the row latch and empties the queues.
- `DetectNext`, `DetectErase`, `DetectEnd` are the detector, which walks and erases without
  `waits_for_latch`. After the vertex it stands on is freed, the walk can go on anywhere: that is
  undefined behaviour, and a nondeterministic choice here.

### LRUCache, CacheClient and PageStore

`put` never looks whether the key is cached, so `writePage`, which puts a cached page again, leaves
the old node in the list. `CacheClient` remembers in `fresh` that no cached key has been put again so far.

In `PageStore` a page object has an `index`, the bytes (`raw`) and the fields decoded from them (`live`). Of the bytes the
first one is apart (`raw.type`), since it says what a block is decoded into:

- a leaf and a free page write theirs when they are saved. `InternalBPlusNode::save` calls `loadType` where it should call `saveType`
  (`internal_b_plus_node.cpp:31`), so the byte of an internal node is what `new char[]` left in its buffer: `NewRaw` chooses
  among `FirstByte`. The decoded type follows it (`PageType`), so an internal node can take itself for a leaf or a free page.
- `ReadCached` is `get` followed by `refresh`, which drops an edit that was not written.
- A page that is not cached is read in two steps, since nothing keeps other sessions away in between: `StartRead` is
  `readPageUncache` and `put`, `FinishRead` the renumbering of the object that `put` returned, its write over the block, and `refresh`. `LoadFile` is
  what the block becomes: a leaf under 'L'; an internal node if `aPage` is one, and then with its bytes only if they begin with 'I',
  and otherwise an empty node with a buffer of its own, which `FinishRead` writes over the block. The page is lost (`Lost`).
  `ReadBreaks` is a null `aPage` (line 64), which ends the process, and a block of an internal node that begins with 'L'.
- What happens to a statement that decodes bytes that are no node is arbitrary: it throws or the process ends (`Junk`).
- `EditPage` changes `live`; `WritePage` is `save` followed by `put` and the write of
  whatever object `put` returned; `PopOther` is the exception of `popFreePage`.
- `Restart` is a process that was killed between any two steps, or that broke, and starts again from the file. `torn` is history: a statement has been cut off, by
  an error or by the end of the process, while a page it was given was not written or its entity not saved (`storage.h:115`).

What is in a node is one value; its links are data of the tree. The callers are left free: they may hold up to `MaxHeld` pages and edit, write, free or
forget them in any order, within what the tree does (they do not read a page they hold, and do not forget one they edited).

### BPlusTree

A page is a record: `kind` (`PageType`), `keys`, `child`, `parent`, `prev` and `next` (`parentIndex`,
`prevLeaf`, `nextLeaf`). A tuple is its key, which is all the tree looks at; sizes are `TupleSize` in
a leaf and `EntrySize` in an internal node. `setBTree` and `removeBtree` are recursive, level by level:
`task` is the call that is still to be made.

- `SetBTreeFirst`, `SetBTree` are `setBTree` with `splitLeaf`; `LinkRoot` and `LinkChild` are
  `insertBtree` with `setChild` and `splitInternal`.
- `RemoveBtree` is `removeFromLeaf` and the leaf level of `removeBtree` (`RebalanceLeaf`: borrow right,
  borrow left, merge the next leaf, merge into the previous one, in that order); `MendNode` and
  `MendRootCollapses` are a level above (`removeFromInternal`, `RebalanceInternal`).
- `Stop` is an assertion that fails (`get_btree_key` of an empty leaf or of a node with one child),
  a page that is not there, or a leaf that borrows without meaning in C++ (`BorrowFails`: `slots.back()` of a leaf that has just become empty,
  `front()` of a neighbour that lends its only tuple, `leaf_b_plus_node.cpp:67` and `75`). The process ends.
- `SplitLeaf` and `WithPrev` write the neighbour that the links name, whatever it is by now. On a page
  that is not a leaf this changes nothing that is read.
- `lower_bound` searches by halves; `Count` is what that finds in a sorted node.

`Loads`, `MaxPuts`, `MaxOps` and `Refill` bound the model. A run first loads ascending keys, each number of
them in `Loads`, then puts and removes any `MaxOps` keys. With `Refill` FALSE nothing is put into a tree
that has had three levels once a key was removed from it (`phase`).

### UndoLog

Bytes are counted in units. `WriteBody` is everything `appendUndoEntry` does up to the write of the
entry (the choice of the file included), `WriteSize` the write of the size. `Throw` is
`std::filesystem::file_size` on a file that does not exist, which nobody catches. `Walk` and `WalkFile` are the
outer and the inner loop of `eachUndoEntry`, backwards through the files and through one file, as recursive functions of the
file and of the position.

### Tokenizer, SqlParser, ExpressionParser, Expressions, Select and Request

A text is a sequence of atoms, a character or a whole word. `Tokenize` is one turn of the loop of
`Tokenizer::tokenize`, with one action for each branch; `ReadStray` is the character that opens no token and is
read for ever. `TryFactory` is one turn of `MainController::parser`; a factory of `SqlParser` is a pattern, a
sequence of items that read, ask, branch or repeat, and `Match` is the interpreter of patterns, so that
each factory reads like the function it stands for. `Attempt` gives "ok", "error" (the factory threw and the next has its
turn) or "undefined" (it read past the tokens or popped an empty stack).

An expression is built by `ParseExpression` with the stack of operators and the stack of operands. An evaluation
(`Eval`) gives a value or a fault: "error" is `Errors`, "crash" an exception nobody catches
(`std::out_of_range`, `std::bad_variant_access`), "undefined" what has no meaning in C++, "hang" the
`replace` of an empty string. `SelectResults` is a set since groups come in the order of a hash map.

`SqlText` and `SelectPromise` translate nothing: they say what the code is compared with.

### Statements

A row has a key and one more attribute. `rows[t]` leads from the BTREE_KEY under which a tuple hangs to
the row it shows, since the two can differ: `addBNodeKey` does not replace a BTREE_KEY that is there. `LowerBound` is
where `lower_bound` stops, at a neighbour if the key is not there, which `removeFromLeaf` takes without looking.
A delete or update is `StartDelete` or `StartUpdate` (the keys are collected), then `DeleteRow` or `UpdateRow` for
each, then `StatementDone` (`saveEntity`); abort is `StartAbort`, `UndoEntry` for each entry from the last, `AbortDone`.
Between any two the process can be killed (`Reopen`, which is also what USE and a disconnect do: a new `Database`
object, and nobody aborts what was open). `tables[t]` is "new" while the tree has no root and
"unsaved" when it has one that its entity file does not know (undo does not save the entity).

`saved`, `past` and `spoiled` are history. `spoiled` is set by exactly the steps after which the code cannot keep
what the properties say: an update that changes a key, an expression that throws when its row is out of the tree, a dropped
table that the open transaction has touched or that has rows, an undo that finds no row. A BEGIN or COMMIT clears it
when all rows are under their keys again.

### Server

`acceptor` is where `run` stands: in `accept`, behind it with `mtx`, or asleep in `cv.wait`. `thread[c]` is where the
thread of client `c` stands. A text is two pieces; a `Read` takes any number of pieces that are there, so that it can cut a text or
take several. `Executed` shows the order that matters: `getDatabase` is asked before the statement is executed. The ends
of the process are `AcceptFails` and `AnswerEnds` (a fatal statement, or SIGPIPE at a client that has left). `stirred` is
history: a client that did not wait for its answer, a fatal or endless text, a read that was not one text.

## 3. Runs

| Run | Instance | Shows |
| --- | --- | --- |
| `lm_detector` | 2 transactions of 3 calls, 1 table, 1 row, all modes and operations, detector | `OneRequestPerTxn`, `EndedHoldsNothing`, refinement of `LockRequests` |
| `lm_embedded` | 3 transactions of 2 calls as `Database` makes them, no detector, deadlock checked | `TableSleeperIsBlocked`, `WaitedGrantIsClear`, `NoLatchDeadlock`, `CallsReturn` |
| `lm_exclusion` | 2 transactions | finding: an exclusive table lock is granted beside another |
| `lru` | 3 keys, 2 values, size 2, 6 puts, keys put again | `LookupIsCurrent` (`LookupIsListed`, `LookupIsNewest`), `EvictionIsReturned`; and up to the first key put again `SizeBounded` and refinement of `RecencyList` |
| `pages` | 1 session at a time, reopened or killed, 2 pages, cache of 3, every first byte, 2 values, 2 pages held, 3 objects and 2 puts a session | `TypeOK`, `FileIsCurrent`, `HandleIsCurrent`, `FreeListIsSound` (`PagesAccounted`, `PopFindsFreePage`), refinement of `PageFile` |
| `tree` | 2, 5, 8, 13 or 19 keys loaded, then any 3 puts (2 at most) and removals; leaves of 2 to 4 tuples, internal nodes split at 6 children | `TypeOK`, `SearchFindsKeys`, `ParentsAgree`, `PagesAccounted`, `ScanFindsKeys`, refinement of `KeySet` |
| `tree_scan` | 13 keys, 4 operations, `Refill` | finding: iteration misses keys |
| `undo_crash` | 2 sessions in databases of their own, 4 entries of 1 or 2 units, files of 2 units, crashes, USE | `TypeOK`, `UndoIsExact`, `LogIsReadable` (`WalkIsReadable`, `EntriesInOrder`) |
| `request` | some 1400 texts: every statement with its options, every operator under every other, selects over six tables of up to 16 rows with up to two joins, statements with a token missing, texts that are none | `TextsAreUnderstood` (`NothingLost`, `ParsesAsPrinted`), `RowsAgree` (`JoinsAgree`, `GroupsAgree`, `PageAgrees`), `FunctionsAgree` (`LikeAgrees`, `CallsAgree`), `TextsAreAnswered` |
| `statements` | a table and one that refers to it, 2 keys, 2 values, 2 rows, 2 entries a transaction | `KeysAgree`, `VisitsWhatItFound`, `UndoableAtAnyTime`, `ListedTablesExist`, `AbortRestores` |
| `server` | 2 clients, 1 place, 2 texts each: USE, refused, fatal, endless | `PlacesAreCounted`, `CalmIsServed`, `NothingIsExecuted`, `WaitingIsServed`, `TextsAreRead` |
| `server_use` | 1 client that sends USE | finding: USE is refused because no database is selected |

The type invariants of `LockManager`, `CacheClient`, `Statements` and `Server` are theorems (section 5) and in no run.

**Bounds.** Two transactions and one table with one row are the least that conflict; three make a
sleeper, a holder and a bystander, and three calls suffice to lock, repeat and unlock. Two more
tables or rows add queues that nothing relates but `releaseAllLocks`, and that one is proved for any
number. In the cache, three keys and a size of two make every put either fit, evict a live node or
pop a stale one. Two pages make a free list of length two; three objects and two puts between two
openings make, write and free a page or read and free it, and the next session, of which there may be any number, takes it again; two values make an edit that is not saved; a cache larger than the table (`CacheSize` 3) is what the configured 100000 pages mean in
practice. The same properties were also checked with four objects and three puts, once for a first byte that is none of the three (1.4 million states) and once for all
four bytes without kills (0.8 million). One branch is beyond the bounds: `PopOther` of an internal node whose first byte is 'F'. Four log entries of up to two units over files of two cross three file limits, in two
databases and over a crash. In the tree, 5 keys make a second level, 8 are three leaves one removal from a merger
whose page the next split takes again, 13 make a third level, and 19 three internal nodes, the least in which one
merges with a neighbour and the third then borrows, from the left or from the right.
In `statements` two rows are the least of which one can be taken for the other, two entries the least that can be taken
back in the wrong order, and two tables the least with a reference; what the constants do not show the proofs do, for every value.
In `server` one place and two clients make one wait for the other; two texts make a read that joins them. In `request` an expression is two operators
deep, which is every pair of priorities in both orders, and a join chain has two joins, so that a right join follows a left one.
`Loads`, `MaxOps`, `MaxCalls`, `MaxPuts`, `MaxPage`, `MaxHeld`, `MaxObjects`, `MaxEntries`, `MaxLog`, `MaxRows`, `MaxTexts`, `MaxTokens` and `IntDigits` are bounds of the model
and not of the code.

**Deadlock** is checked wherever the system is meant to go on: `lm_embedded`, the cache and `statements`. It is
not in `lm_detector`, where the two latches can block each other, nor in `PageStore`, `BPlusTree`,
`UndoLog`, `Request` and `Server`, where the bounds, the answer or the end of the process stop the model.

**Symmetry** is used in `undo_crash` (sessions and databases) and `statements` (values), never with a liveness property.
`statements` also has a view without the history that no property looks at (outside a transaction, or once it is spoiled), and a
constraint that lets a spoiled transaction go on for one entry.

**Fairness.** `FairSpec` has weak fairness on `Continue` (a thread that can take its next step does,
which is the operating system's scheduler) and on `ReleaseAllLocks` (every transaction ends: the server
commits after the statement that opened it). There is no fairness on starting calls, and none on the
latches beyond that: no thread waits for a latch twice in a row within a call that the bounded number
of calls could starve. `Server` has weak fairness on `Run` and on the thread of each client: `accept`, `cv.wait` and `read`
return when there is something to return for. Clients do what they like, so `WaitingIsServed` assumes that places become free again and
again. `Request` has weak fairness on its one thread.

## 4. What the runs found in the code

- `lm_exclusion`: two transactions hold one table, one exclusively (`lock_manager.cpp:58`).
- `tree_scan`: when the last child of a node merges into the leaf before it, the leaf after it is told that
  its previous leaf is the page just freed (`storage.cpp:178`, `node->pageIndex` where the node is the one
  that goes). When that leaf is split later, nothing leads from the leaf before it to the new half,
  and iteration skips it, against what `tests/strorage_test.cpp:174` expects of every key.
- `server_use`: `handleClient` asks `getDatabase()` for an open transaction before it executes a statement
  (`sql_server.cpp:55`), and `getDatabase` throws "No database selected" until a USE was executed. So through the server USE
  is refused for ever, and with it everything else: `NothingIsExecuted` says so of every session, against
  `tests/statement_test.cpp:48`, which begins with USE, and the answer "Use database " of `use_database.h:22`.

Two more are a change of constants away from a passing run:

- with `Session = {s, t}` in `pages.cfg`, `FreeListIsSound` is violated: entities and pages are cached for the life of a session, so the counter of one
  session does not know of the page that the other was just given, and gives it out again (`storage.h:106`);
- with `Database = {d}`, `FileLimit = 3`, `MaxEntries = 5`, `Crashes = FALSE`, `Shared = TRUE` in `undo_crash.cfg`, `WalkIsReadable` in `LogIsReadable` is
  violated: entry and size are two unsynchronised writes (`log_manager.cpp:38-39`), and those of two sessions mix.

More showed up while modelling and bound what the passing runs claim:

- `countFile` is one for all databases (`log_manager.h`, `getCurrentFileIndex`), and a session of another database can lower it.
  With three databases, files of three units and entries of one it leads an open transaction back to an older file, whose end an earlier crash
  tore; its abort stops there (fourteen entries and two crashes), and with files of one unit a walk begins behind its own entries (nine entries).
  Two databases and the bounds of `undo_crash` are too few to get there; the theorems on `UndoIsExact` and
  `LogIsReadable` are for one database;
- the stale previous leaf does more. A leaf that has it and becomes the last child of its parent finds nobody to
  borrow from or merge with and shrinks until it is empty, where `get_btree_key` fails its assertion
  (`slotted_page.cpp:224`): eight removals from 13 keys
  get there (the invariant `task # Failed` with the constants of `tree_scan` but `MaxPuts = 0`, `MaxOps = 8`). And a leaf whose next leaf skips one can borrow a
  tuple over the head of that one, which no search finds again (`SearchFindsKeys` with the constants of `tree_scan`
  but `MaxPuts = 4`, `MaxOps = 7`). `SearchFindsKeys` and `ScanFindsKeys` are therefore claimed with `Refill` FALSE;
- with tuples of more than a quarter of a page a leaf that lends one is left with one, and the removal of that one
  fails the same assertion; with keys so long that half an internal node is two children a merger leaves one child, which fails
  the assertion of line 227. `tree` takes sizes for which neither happens;
- `put` of a cached key leaves a stale node in the list, and popping it later erases the key of a live one or nothing:
  the map grows beyond `maxSize` (`lru_cache.h:29`), which `tests/lru_cache_test.cpp:36` expects not to
  happen. `SizeBounded` is about the time before (`fresh`);
- with the detector on, `lockRow` (row latch, then table latch) and `lockTable` or `releaseAllLocks`
  (the other order) can deadlock after the detector has erased the vertex of a running `lockRow`
  (`lock_manager.cpp:123`): `NoLatchDeadlock` is checked and proved without the detector only;
- `hasCycle` takes two paths to one vertex for a cycle (`lock_manager.cpp:250`), so a victim need not
  be on a cycle; no property relies on it;
- an internal page that is read from the disk is lost unless its first byte happens to be 'I' (`internal_b_plus_node.cpp:14-18`, `31`): the read makes
  an empty node and writes it over the block (`storage.cpp:50`). `pages` reaches this in a session after the one that wrote the page. The file
  promises no more: `Lose` of `PageFile` is an internal page that a read takes away. What the run shows is that nothing else goes with it: no leaf is lost, and no
  other page is written;
- a new session that reads an internal node, as the root, without a page in `aPage` dereferences null (`storage.cpp:64`), and so does a `popFreePage` whose
  free page is not cached (`storage.cpp:96-97`): `pages` reaches both (`up` becomes FALSE), and `Restart` goes on from the file. So a later session that takes
  a page another one freed, or searches a tree of more than one level, ends the process as a rule;
- pages are written at once and the entity at the end of a statement (`storage.h:115`). If an error or the end of the process comes in between, the page counter and
  the list of free pages are older than the pages: without `~torn` in them, `PagesAccounted` and `PopFindsFreePage` are violated within a few steps
  (a page is given out, the entity saved, and the process ends before the page is written);
- with `CacheSize` 1 in `pages.cfg` a read that evicts a page gives the evicted object the index of the
  page being read and writes it over that page (`storage.cpp:49-50`): `FileIsCurrent` is violated. It is
  checked with a cache as large as the table, where `put` returns the object that was read, so that the same bytes go back unless an internal page is lost;
- the parser reads `a + 1 in [1]` as `a + (1 in [1])`: `not`, `between`, `in` and `like` are pushed without executing an operator that binds as close or closer (`expression_parser.cpp:138-181`),
  though the table of priorities has `+` above `in`. `Misread` says which expressions are concerned, those with an operator
  without parentheses on the left of a `like`, `in` or `between`, and `ParsesAsPrinted` that these are always read otherwise and all the others as they are meant;
- an update that changes the key leaves the row under its old BTREE_KEY (`update.cpp:60`): a search for the new key misses it, an insert of
  the new key gives it twice, and the undo of the update looks for the new key and takes a neighbour or throws;
- an expression that throws in an update loses the row (`update.cpp:54`): it is out of the tree and not in the log;
- an abort after DROP TABLE dereferences null (`transaction_handle.cpp:33`), and one that throws leaves the transaction there, half undone;
- the check of a reference refuses a key that is there and accepts one that is not (`insert_tuple.cpp:112`);
- what nobody catches ends the server: an argument out of a string, `sum` of a string, a send to a client that has gone;
- `between` and `not between` both negate the range and `in` and `not in` both do not (`other_expression.cpp:19-23`); `like` looks for its pattern anywhere in the
  string, where SQL's is anchored at both ends ('ba' like 'a' is true here); of the strings that contain the pattern it finds all only if the parts between two % are single letters (`LikeAgrees` in `FunctionsAgree`); an unknown column after a known one in ORDER BY is not
  refused (`select.cpp:199`).

## 5. Proofs

For every value of the constants that satisfies the named assumptions, checked by TLAPS:

| Theorem | Says | Argument |
| --- | --- | --- |
| `LockManagerProofs!TypeCorrect` | `Spec => []TypeOK` | inductive as it stands; one step per action |
| `OneRequest`, `NothingAfterEnd` | `[]OneRequestPerTxn`, `[]EndedHoldsNothing` | inductive together with the type (`QueueInv`): `Dequeue` removes only one request, so nothing is left only because requests are single, and an ended transaction stays out only because no queue gets a request from a `pc` of "ended" |
| `NoLostWakeup` | `~RowUnlocking => []TableSleeperIsBlocked` | `FallAsleep`: whoever starts to sleep is blocked; afterwards a queue that shrinks wakes its sleepers and one that grows or is upgraded keeps its conflicts (`EnqueueBlockers`) |
| `LatchOrder` | `~CycleDetection => []NoLatchDeadlock` | `VertexInv`: without the detector a thread in a call always has its vertex, so `lockRow` never gets to the table latch |
| `WaitedGrant` | `~CycleDetection => []WaitedGrantIsClear` | `LatchInv` (who holds the table latch stands where) and `ScanInv` (past the scan the queue of the table is clear); the latch keeps others from changing it |
| `Implementation` | `Spec => ImplementsLockRequests` | `QueueInv`; each step of the code maps to one abstract step or to a stutter, with `ModeIn` of each queue as what is held |
| `CacheProofs!TypeCorrect` | `[]TypeOK` | from `Sound`, since what `get` and `put` return comes from the list |
| `LookupSound` | `[]LookupIsCurrent` | `Sound`: node numbers are distinct and at most `made`, lookup leads to the newest node of each key |
| `NothingDropped` | `EvictionIsReturned` | only the head leaves, and only when the cache is full |
| `SizeWithinLimit` | `[]SizeBounded` | `FreshInv`: as long as no cached key was put again the list has one node per key |
| `Recent` | `ImplementsRecencyList` | the same invariant; the list without numbers is the abstract list |
| `PageStoreProofs!TypeCorrect` | `[]TypeOK` | with `Allocated`: what caches and threads name are objects that were made, and each cache is `Sound` |
| `CacheIsInvisible`, `NoStaleHandle`, `FreeListStaysSound` | `[]FileIsCurrent`, `[]HandleIsCurrent`, `[]FreeListIsSound`, if `Roomy` and `OneSession` | `OneInv`, below |
| `PageLayerImplementsPageFile` | `ImplementsPageFile`, if `Roomy` and `OneSession` | `OneInv`; each step is a step of `PageFile` or changes none of it. The end of a read is `Lose` or a stutter, and a leaf is lost by none as long as `~torn` |
| `BPlusTreeProofs!TypeCorrect` | `[]TypeOK`, if `Ordinary` | `BInv`, below: which pages are written is known only from the tree |
| `SearchIsRight`, `ScanIsRight` | `[]SearchFindsKeys`, `[]ScanFindsKeys`, if `Ordinary` | `BInv`; a search goes down one level a step, and a scan one leaf a step |
| `ParentsAreRight`, `PagesAreAccounted` | `[]ParentsAgree`, `[]PagesAccounted`, if `Ordinary` | `BInv` and its part `Books` |
| `TreeImplementsKeySet` | `ImplementsKeySet`, if `Ordinary` | `BPreserved`: each step keeps `BInv` and adds one key, removes one or changes none |
| `UndoLogProofs!TypeCorrect` | `[]TypeOK` | with the number of files (at most one more than entries) and `InTransaction`: a session that logs has its file |
| `EntriesStayInOrder` | `~Shared => []EntriesInOrder`, any number of databases | `OrderInv`, below |
| `LogStaysReadable`, `AbortIsExact` | `[]LogIsReadable`, `[]UndoIsExact`, if `~Shared` and `OneDatabase` | `OrderInv` |
| `StatementsProofs!TypeCorrect` | `[]TypeOK` | inductive as it stands |
| `KeysAlwaysAgree`, `VisitsAreExact`, `AlwaysUndoable`, `ListedAlwaysExist` | `[]KeysAgree`, `[]VisitsWhatItFound`, `[]UndoableAtAnyTime`, `[]ListedTablesExist` | `IInv`, below |
| `AbortAlwaysRestores` | `AbortRestores` | from `IInv`: the entry whose turn it is can be taken back, and when none is left the rows are `saved` |
| `ServerProofs!TypeCorrect` | `[]TypeOK` | with `PlacesAreCounted`, which keeps the number of threads in its range, and `Unanswered`: every read takes a piece and has one answer |
| `PlacesCounted`, `NothingExecuted`, `CalmServed` | `[]PlacesAreCounted`, `[]NothingIsExecuted`, `[]CalmIsServed` | `SInv`: `OnePlace`, a connection is in the backlog, in `clientSocket` or has a thread, and in one of them only, so that each thread is started once; `Calm`, what a client that waits leaves behind |
| `NoReturnMissed` | `run` sleeps only while every place is taken | part of `SInv`; the notification of `GiveBack` comes with the place |

`IInv` of `StatementsProofs` is the four invariants, the type, and three parts: `Rooted` (a table that is not there has no rows),
`WorkInTxn` (a statement runs inside a transaction) and `PastAgree` (also in the rows before each entry every row is under its key).
Why it is needed: that an abort restores the rows is no invariant by itself. `UndoableAtAnyTime` says it of
every entry, for the rows as they were after it; a statement adds one more link to that chain (`LogGrows`), which needs that the row it
changes is the row it found (`VisitsWhatItFound`), which needs `KeysAgree`, since `lower_bound` otherwise takes a neighbour; undoing takes the
last link off. `InsertTakenBack`, `DeleteTakenBack` and `UpdateTakenBack` are the links.

`OneInv` of `PageStoreProofs` is for the session there is. Its part `Basics` holds whatever has been cut off: what the session finds of a page is what the file holds, but for the block of a read
under way, a cached object has the index of its page, and the first byte of a leaf or free page is its own. The other part, `Orderly`, holds as long as `~torn`: the
session holds one object a page, and that of a written page is the cached one (`HandlesAgree`); and there is a list of different pages, each linked to the one before, whose
last is the first free page, and the pages below `nPage` are the nodes, those the thread holds and those on the list, and none of the list is held (`PagesDivided`). The last is why it is needed: that `popFreePage` finds a free page is true only because the whole chain behind the head is free, and the chain is
a least fixpoint, which no step can be compared with; a list can (`ChainIsList` ties the two). `Restart` needs that with nothing unsaved the entity on the disk says the same of the pages. A cache with more places than there are pages is
never full, so `put` returns the object it was given (`PutRoomyFacts`): that is what `Roomy` is for.

`BInv` of the tree is its type and, from the first key on, `Live`: the pages, with the link that `task` says is still to be made (`Linked`), are `Sound`, which is
a tree (`IsTree`) whose leaves are a `Chain`; the free list and the pages in use are each other's complement (`Books`); and the task can be done (`TaskFits`).
It is needed because none of the five invariants is inductive, nor all of them together. They are about a tree at rest, while a split of several levels passes through states in which the
new page has no entry in a parent yet; and that `findLeaf` leads to a leaf says nothing of what the separators must be once two nodes become one.
`IsTree(T, lev, lo)` says it with two witnesses: `lev` gives each node its level, one less than its parent's, and `lo` the place where its range of keys begins. A child
begins where the separator before it is, the first child where its parent begins, and nodes of one level divide the keys among them. `T` has a node 0 above the root, so that a new root is
one more split and a root that goes (`Collapses`) one more merger. Every step of the code on however many pages is then one of a few changes of such a tree, for which a lemma
gives the new witnesses: a node splits (`SplitTree`), two merge (`MergeTree`), two share anew and their separator with them (`RedistributeTree`), the root goes (`CollapseTree`),
or the keys of one leaf change within its range. `SplitChain` and `MergeChain` do the same for the links between leaves, where the previous leaf may be a page that is not used any more
once a tall tree has shrunk: that is harmless until such a leaf is split, which is what `tree_scan` finds. `FindLeaf` and `Scan` are recursive functions;
that they have values, and which, comes from the height of the tree and from the number of leaves that follow (`SearchLeads`, `ScanRuns`, `ScanYields`).

`OrderInv` of `UndoLogProofs` says, for a database that alone has log files: `countFile` is 0 or the last file, the entries are in order, and
`ReadsBack`: what `Walk` finds from the end of the log for the transaction of an open session are its own changes, last first, and nothing it cannot
read; for a session between the two writes of an entry the same of the log without the piece that is written (`Halfway`). So an append must be shown not to
change what the walk finds behind it. `Walk` is recursive in two directions: `Recursion` shows by the well-foundedness of the natural numbers (`Least`) that a function
each of whose values is made from smaller ones exists, `WalkSame` that the walk depends only on the units it passes, and `WalkWritten` what one more entry adds. A crash leaves a torn
piece at the end, and the session that began before it is gone; a later BEGIN lies after the piece, and no walk goes back past the BEGIN of its transaction.

`Roomy` is `CacheSize > MaxPage`: the configured cache has 100000 pages. `OneSession` and `OneDatabase` are needed: section 4 has what goes wrong with two
sessions on a table and with more databases. `~Shared` is what the locks would have to give; it is in the runs as well.
`Ordinary` is `~Refill` with tuples of at most half a leaf's bytes (`TupleSize <= MinimumUsed`) and room for three entries in half an internal node (`3 * EntrySize <= MinimumUsed`).
`tree` satisfies it, and section 4 has what goes wrong without `~Refill`. The removals may still empty a leaf and fail the assertion that section 4 names, or borrow into it: `Stop` is a step like
any other, after which the process is over and the properties at rest say nothing. The theorems hold for any number of pages, keys and levels.

The assumptions on the constants are those the modules name: transaction ids are positive numbers, flags are
Booleans, bounds are numbers, there is a table and a key, and the cache has room for one entry;
in `BPlusTree` one of the `Loads` is the greatest, and its keys are keys;
in `Statements` keys are integers each non-empty set of which has a least and a greatest (a leaf has a first and a last key), and the nulls
are no values; in `Server` there is a place, `Nobody` is no client and the set of clients is finite.

Only model-checked: `CallsReturn`, `WaitingIsServed`, `TextsAreRead` and `TextsAreAnswered` (liveness under fairness is beyond the prover), and
everything about `Request`, whose parsers and evaluation are RECURSIVE operators, for which the prover has no arithmetic.

## 6. Not modelled

- `LockManagerInstance` (the map of lock managers; there is one database in the model) and the data
  race of the detector on that map; `removeEdge` (no caller), `flush` and `clear` of the cache (no
  caller).
- `deleteEntityFile` and several tables: a cache key contains the table, so tables meet only in the
  limit of the cache.
- The layout of fields in bytes, and the size of pages: a node is one value.
- The unlatched `countFile` and `getInstance`; recovery after a crash (the code has none).
- In the tree: tuples of different sizes, several indexes of one table, and the copies of pages that
  sessions have of one tree (`PageStore` has those, for pages without links).
- In the statements: two sessions at once (the locks that keep them apart are `LockManager`, which finds that they do not), trees of more than
  a leaf (`BPlusTree`), the secondary indexes (nobody fills them), keys of several attributes, the checks that refuse a statement before it changes anything.
- In the parsers: the letters of a word, numbers beyond `IntDigits` digits, rounding of floats, DESCRIBE, CREATE DATABASE, DROP DATABASE and SHOW
  beyond their parsing: they read, or make and remove a directory.
- In the server: texts longer than the buffer, the sockets. Views and the layout of text: pure output.

## 7. Plan

Done: locks, cache, pages, tree, log, then the text from its first byte to its answer, the statements, the server; and proofs for all of these but the text. What is left, in this order:

1. Two sessions of `Statements` over `LockRequests`: which of its properties the locks keep when the exclusive ones are honoured.
2. `BPlusTree` with tuple and key sizes for which its assertions fail, and the removals that empty a leaf.
3. `LockManagerInstance` with the detector that walks its map without the latch, and the race on `countFile`.
