----------------------------- MODULE PageStore -----------------------------
(***************************************************************************)
(* The pages of one table: the file, and for each session (one Database    *)
(* object, served by one thread) an LRU cache of page objects and a copy   *)
(* of the table's entity with the head of the list of free pages           *)
(* (storage.cpp, storage.h, free_page.*, internal_b_plus_node.*, the       *)
(* paging part of slotted_page, entity and io_manager).                    *)
(*                                                                         *)
(* A page object is shared by the cache and by whoever holds it, has raw   *)
(* bytes and the variables decoded from them, and is edited in place:      *)
(* save() encodes the variables, refresh() decodes the bytes and so drops  *)
(* an edit that has not been saved.  Of the bytes the first one matters    *)
(* apart: it says what class of object a block is decoded into.  A leaf    *)
(* and a free page write theirs when they are saved; an internal node      *)
(* keeps whatever its buffer held when it was allocated, and an internal   *)
(* node that is read from the disk under such a byte is a new object with  *)
(* a buffer of its own, which the read then writes over the block.         *)
(*                                                                         *)
(* The callers are the B+tree and the statements; here they hold up to     *)
(* MaxHeld pages, edit them and write or free them in any order.  They do  *)
(* not read a page again while they hold it.  A page that is not cached is *)
(* read in two steps, with no latch against the other sessions.            *)
(***************************************************************************)
EXTENDS Integers, FiniteSets, Sequences

CONSTANTS
    Session,
    MaxPage,    \* bound: pages of the file
    Value,      \* what a node holds: its tuples, parent and sibling links
    FirstByte,  \* what a buffer that was just allocated may begin with
    CacheSize,  \* Configs::cacheMaxSize
    MaxHeld,    \* bound: pages a session holds at a time
    MaxObjects, \* bound: page objects ever made
    MaxPuts,    \* bound: puts into one cache
    Reopening,  \* do sessions end and new ones take their place
    Kills       \* does the process end at any time, and start again

Page == 1..MaxPage
NoPage == 0
ObjectId == 1..MaxObjects
NoObject == 0

\* The first byte of a block: 'L', 'I', 'F' or another one.
TypeByte == {"leaf", "internal", "free", "other"}

ASSUME BoundsAssumption ==
    /\ MaxPage \in Nat /\ MaxHeld \in Nat /\ MaxObjects \in Nat /\ MaxPuts \in Nat
    /\ Reopening \in BOOLEAN /\ Kills \in BOOLEAN
ASSUME ValueAssumption == Value # {}
ASSUME FirstByteAssumption == FirstByte \subseteq TypeByte
ASSUME CacheSizeAssumption == CacheSize \in Nat \ {0}

VARIABLES
    heap,       \* page objects: [index, raw, live]
    pageCache,  \* session -> its LRU cache from page to object
    entity,     \* session -> its copy of the entity
    held,       \* session -> the objects its thread holds
    reading,    \* session -> the object a read has put into the cache, and the
                \* one that put returned and the read will write
    file,       \* page -> its block on disk
    header,     \* the entity on disk
    thrown,     \* sessions that met "the page is not free page"
    torn,       \* has a statement ended after it changed pages and before it
                \* wrote them and saved the entity
    up          \* FALSE when the process has ended by itself

vars == <<heap, pageCache, entity, held, reading, file, header, thrown, torn, up>>

LRU == INSTANCE LRUCache WITH Key <- Page, Value <- ObjectId, MaxSize <- CacheSize

NodeKind == {"leaf", "internal"}
Node == [kind: NodeKind, data: Value]
\* A node that has just been made.
Empty(kind) == [kind |-> kind, data |-> CHOOSE v \in Value : TRUE]
Free(next) == [kind |-> "free", data |-> next]
Unwritten == [kind |-> "unwritten", data |-> NoPage]
\* What an internal node decodes to from a buffer nobody wrote.
Lost == [kind |-> "lost", data |-> NoPage]
Content == Node \cup {Free(next) : next \in Page \cup {NoPage}} \cup {Unwritten, Lost}
\* The pages of the tree, the lost ones included.
TreeContent == Node \cup {Lost}
TreeKind == NodeKind \cup {"lost"}

Raw == [type: TypeByte, content: Content]
Object == [index: Page, raw: Raw, live: Content]
Entity == [loaded: BOOLEAN, nPage: 1..MaxPage + 1, firstFree: Page \cup {NoPage}]

NewEntity == [loaded |-> TRUE, nPage |-> 1, firstFree |-> NoPage]
Unloaded == [NewEntity EXCEPT !.loaded = FALSE]
NotReading == [object |-> NoObject, out |-> NoObject]

TypeOK ==
    /\ heap \in Seq(Object) /\ Len(heap) <= MaxObjects
    /\ pageCache \in [Session -> LRU!Cache]
    /\ entity \in [Session -> Entity]
    /\ held \in [Session -> SUBSET ObjectId]
    /\ reading \in [Session -> [object: ObjectId, out: ObjectId] \cup {NotReading}]
    /\ file \in [Page -> Raw]
    /\ header \in Entity
    /\ thrown \subseteq Session
    /\ torn \in BOOLEAN
    /\ up \in BOOLEAN

Init ==
    /\ heap = <<>>
    /\ pageCache = [s \in Session |-> LRU!EmptyCache]
    /\ entity = [s \in Session |-> Unloaded]
    /\ held = [s \in Session |-> {}]
    /\ reading = [s \in Session |-> NotReading]
    /\ file = [p \in Page |-> [type |-> "other", content |-> Unwritten]]
    /\ header = NewEntity
    /\ thrown = {}
    /\ torn = FALSE
    /\ up = TRUE

-----------------------------------------------------------------------------
(* Page objects *)

\* A new page object.  A leaf is saved with its own first byte; an internal
\* node keeps the one of its buffer.
NewRaw(kind) ==
    {[type |-> byte, content |-> Lost] : byte \in IF kind = "leaf" THEN {"leaf"} ELSE FirstByte}

Made(p, raw, node) == [index |-> p, raw |-> raw, live |-> node]

\* save
Saved(x) == [type |-> IF x.live.kind = "leaf" THEN "leaf" ELSE x.raw.type, content |-> x.live]

\* refresh
Refreshed(objects, o) == [objects EXCEPT ![o].live = objects[o].raw.content]

\* pageType as refresh and save leave it; under a byte that is none of the
\* three it stays that of the object's class.
PageType(x) == IF x.raw.type = "other" THEN "internal" ELSE x.raw.type

IsCached(s, p) == LRU!Contains(pageCache[s], p)

CachedObject(s, p) == LRU!GetReturns(pageCache[s], p)

\* What a session finds when it reads page p.
Latest(s, p) == IF IsCached(s, p) THEN heap[CachedObject(s, p)].raw ELSE file[p]

LatestKind(s, p) == Latest(s, p).content.kind

NewId == Len(heap) + 1

\* The thread of s is at work and not in the middle of a read.
Running(s) == up /\ reading[s] = NotReading

\* The page of o has been written since it was given out.
Written(s, o) == LatestKind(s, heap[o].index) \in TreeKind

\* Nothing is lost when the thread forgets o.
Clean(s, o) == Written(s, o) /\ heap[o].live = heap[o].raw.content

\* An error ends the statement, and the thread lets go of what it holds.
Fail(s) ==
    /\ held' = [held EXCEPT ![s] = {}]
    /\ torn' = (torn \/ \E o \in held[s] : ~Written(s, o))
    /\ UNCHANGED up

\* An assertion or an access outside of memory.
End == up' = FALSE /\ UNCHANGED <<held, torn>>

\* What becomes of a statement when bytes are decoded that are none of a node
\* of the class: the values are arbitrary.
Junk(s) == Fail(s) \/ End

\* Slip: an object is written only when it leaves the cache.
PutWriteEvicted(s, objects, p, o) ==
    LET out == LRU!PutReturns(pageCache[s], p, o)
    IN /\ pageCache[s].made < MaxPuts
       /\ pageCache' = [pageCache EXCEPT ![s] = LRU!Put(@, p, o)]
       /\ heap' = objects
       /\ file' = IF out = o THEN file
                  ELSE [file EXCEPT ![objects[out].index] = objects[out].raw]

\* The call of put with object o for page p; writePage writes the bytes of the
\* object it returns to the block of that object's index.
PutWrite(s, objects, p, o) ==
    LET out == LRU!PutReturns(pageCache[s], p, o)
    IN /\ pageCache[s].made < MaxPuts
       /\ pageCache' = [pageCache EXCEPT ![s] = LRU!Put(@, p, o)]
       /\ heap' = objects
       /\ file' = [file EXCEPT ![objects[out].index] = objects[out].raw]

-----------------------------------------------------------------------------
(* readPage *)

\* Slip: the reader gets an object of its own.
ReadCachedCopy(s, p, keep) ==
    LET o == CachedObject(s, p)
    IN /\ IsCached(s, p)
       /\ NewId \in ObjectId
       /\ pageCache' = [pageCache EXCEPT ![s] = LRU!Got(@, p)]
       /\ heap' = Append(heap, [heap[o] EXCEPT !.live = heap[o].raw.content])
       /\ held' = [held EXCEPT ![s] = keep \cup {NewId}]
       /\ UNCHANGED <<reading, file, torn, up>>

\* The page is cached: its object is refreshed and becomes the newest.
ReadCached(s, p, keep) ==
    LET o == CachedObject(s, p)
    IN /\ IsCached(s, p)
       /\ pageCache' = [pageCache EXCEPT ![s] = LRU!Got(@, p)]
       /\ heap' = Refreshed(heap, o)
       /\ \/ held' = [held EXCEPT ![s] = keep \cup {o}] /\ UNCHANGED <<torn, up>>
          \/ heap[o].raw.content = Lost /\ Junk(s)
       /\ UNCHANGED <<reading, file>>

\* What readPageUncache makes of the block: a leaf is recognised by its own
\* first byte; for the rest the code asks the page in aPage, the one the caller
\* passed in.  Its internal node copies the bytes under 'I' only.
LoadFile(p, given) ==
    LET raw == file[p]
    IN CASE raw.type = "leaf" -> {Made(p, raw, raw.content)}
         [] raw.type # "leaf" /\ given = "internal" ->
              IF raw.type = "internal" THEN {Made(p, raw, raw.content)}
              ELSE {Made(p, new, Lost) : new \in NewRaw("internal")}
         [] OTHER -> {Made(p, raw, Free(NoPage))}

\* A node of another class lies under the byte of a leaf.
WrongLeaf(p) == file[p].type = "leaf" /\ file[p].content.kind = "internal"

\* The object is made and put into the cache.  With holds it is on its way to
\* the thread; without, popFreePage looks at it.
StartRead(s, p, given, holds) ==
    /\ ~IsCached(s, p)
    /\ ~WrongLeaf(p)
    /\ file[p].type = "leaf" \/ given # "null"
    /\ NewId \in ObjectId
    /\ pageCache[s].made < MaxPuts
    /\ \E x \in LoadFile(p, given) : heap' = Append(heap, x)
    /\ reading' = [reading EXCEPT ![s] =
          [object |-> NewId, out |-> LRU!PutReturns(pageCache[s], p, NewId)]]
    /\ pageCache' = [pageCache EXCEPT ![s] = LRU!Put(@, p, NewId)]
    /\ held' = [held EXCEPT ![s] = holds]
    /\ UNCHANGED <<file, torn, up>>

\* The object never comes to be: aPage is null, or the bytes of an internal
\* node are decoded as those of a leaf.
ReadBreaks(s, p, given) ==
    /\ ~IsCached(s, p)
    /\ \/ file[p].type # "leaf" /\ given = "null" /\ End
       \/ WrongLeaf(p) /\ Junk(s)
    /\ UNCHANGED <<pageCache, heap, reading, file>>

\* The object that put returned gets the index of the page and is written over
\* its block, whatever has been written there since; the new one is decoded.
FinishRead(s) ==
    LET o == reading[s].object
        out == reading[s].out
        p == heap[o].index
        renumbered == [heap EXCEPT ![out].index = p]
    IN /\ up /\ reading[s] # NotReading
       /\ reading' = [reading EXCEPT ![s] = NotReading]
       /\ file' = [file EXCEPT ![p] = renumbered[out].raw]
       /\ heap' = Refreshed(renumbered, o)
       /\ \/ /\ o \in held[s] /\ heap[o].live = heap[o].raw.content
             /\ UNCHANGED <<held, thrown, torn, up>>
          \/ /\ heap[o].raw.content = Lost /\ Junk(s)
             /\ UNCHANGED thrown
          \/ /\ heap[o].live # heap[o].raw.content /\ End
             /\ UNCHANGED thrown
          \/ /\ o \notin held[s] /\ Fail(s)
             /\ thrown' = thrown \cup {s}
       /\ UNCHANGED <<pageCache, entity, header>>

\* What a caller may ask for: a page of the tree it does not hold.
Readable(s, p) ==
    /\ LatestKind(s, p) \in TreeKind
    /\ \A o \in held[s] : heap[o].index # p

\* Reading with a null aPage: a root, a parent, a sibling.
ReadPage(s, p) ==
    /\ Running(s) /\ entity[s].loaded
    /\ Readable(s, p)
    /\ Cardinality(held[s]) < MaxHeld
    /\ \/ ReadCached(s, p, held[s])
       \/ StartRead(s, p, "null", held[s] \cup {NewId})
       \/ ReadBreaks(s, p, "null")
    /\ UNCHANGED <<entity, header, thrown>>

\* nextLeaf goes from a leaf to a leaf, findLeaf from an internal node, unless
\* its first byte makes it take the node for a leaf.
Follows(s, o, p) ==
    IF heap[o].live.kind = "leaf" THEN LatestKind(s, p) = "leaf"
    ELSE PageType(heap[o]) # "leaf"

\* They read into the variable that holds the node before.
ReadNextPage(s, o, p) ==
    /\ Running(s) /\ entity[s].loaded
    /\ Readable(s, p)
    /\ Clean(s, o)
    /\ Follows(s, o, p)
    /\ LET keep == held[s] \ {o}
       IN \/ ReadCached(s, p, keep)
          \/ StartRead(s, p, PageType(heap[o]), keep \cup {NewId})
          \/ ReadBreaks(s, p, PageType(heap[o]))
    /\ UNCHANGED <<entity, header, thrown>>

-----------------------------------------------------------------------------
(* getEntity, saveEntity, popFreePage, addPageIntoFreeZone, writePage *)

OpenEntity(s) ==
    /\ Running(s) /\ ~entity[s].loaded
    /\ entity' = [entity EXCEPT ![s] = header]
    /\ UNCHANGED <<heap, pageCache, held, reading, file, header, thrown, torn, up>>

SaveEntity(s) ==
    /\ Running(s) /\ entity[s].loaded
    /\ header' = entity[s]
    /\ UNCHANGED <<heap, pageCache, entity, held, reading, file, thrown, torn, up>>

\* getIndexNewPage: no page is free.
ExtendFile(s, kind) ==
    LET p == entity[s].nPage
    IN /\ Running(s) /\ entity[s].loaded
       /\ Cardinality(held[s]) < MaxHeld
       /\ entity[s].firstFree = NoPage
       /\ p \in Page
       /\ NewId \in ObjectId
       /\ entity' = [entity EXCEPT ![s].nPage = p + 1]
       /\ \E raw \in NewRaw(kind) : heap' = Append(heap, Made(p, raw, Empty(kind)))
       /\ held' = [held EXCEPT ![s] = @ \cup {NewId}]
       /\ UNCHANGED <<pageCache, reading, file, header, thrown, torn, up>>

\* Slip: the head of the free list is not moved on.
PopFreeKeepsHead(s, kind) ==
    LET p == entity[s].firstFree
        o == CachedObject(s, p)
    IN /\ IsCached(s, p)
       /\ heap[o].raw.content.kind = "free"
       /\ NewId \in ObjectId
       /\ pageCache' = [pageCache EXCEPT ![s] = LRU!Got(@, p)]
       /\ \E raw \in NewRaw(kind) :
             heap' = Append(Refreshed(heap, o), Made(p, raw, Empty(kind)))
       /\ held' = [held EXCEPT ![s] = @ \cup {NewId}]
       /\ UNCHANGED <<entity, reading, file, thrown, torn, up>>

\* Slip: the node is not given the number of the page it takes over.
PopFreeUnnumbered(s, kind) ==
    LET o == CachedObject(s, entity[s].firstFree)
    IN /\ IsCached(s, entity[s].firstFree)
       /\ heap[o].raw.content.kind = "free"
       /\ NewId \in ObjectId
       /\ entity' = [entity EXCEPT ![s].firstFree = heap[o].raw.content.data]
       /\ \E raw \in NewRaw(kind) : heap' = Append(heap, Made(NoPage, raw, Empty(kind)))
       /\ held' = [held EXCEPT ![s] = @ \cup {NewId}]
       /\ UNCHANGED <<pageCache, reading, file, thrown, torn, up>>

\* The first free page is read; the node that takes its place is a new object
\* with the same index, which gets into the cache when it is written.
PopFree(s, kind) ==
    LET p == entity[s].firstFree
        o == CachedObject(s, p)
    IN /\ IsCached(s, p)
       /\ heap[o].raw.content.kind = "free"
       /\ NewId \in ObjectId
       /\ pageCache' = [pageCache EXCEPT ![s] = LRU!Got(@, p)]
       /\ entity' = [entity EXCEPT ![s].firstFree = heap[o].raw.content.data]
       /\ \E raw \in NewRaw(kind) :
             heap' = Append(Refreshed(heap, o), Made(p, raw, Empty(kind)))
       /\ held' = [held EXCEPT ![s] = @ \cup {NewId}]
       /\ UNCHANGED <<reading, file, thrown, torn, up>>

\* It turns out not to be free: "popFreePage: the page is not free page" ends
\* the statement; an internal node whose first byte is that of a free page
\* passes the test, and the cast to a free page ends the process.
PopOther(s) ==
    LET p == entity[s].firstFree
        o == CachedObject(s, p)
    IN /\ IsCached(s, p)
       /\ heap[o].raw.content.kind # "free"
       /\ pageCache' = [pageCache EXCEPT ![s] = LRU!Got(@, p)]
       /\ heap' = Refreshed(heap, o)
       /\ IF PageType(heap[o]) = "free" THEN End /\ UNCHANGED thrown
          ELSE Fail(s) /\ thrown' = thrown \cup {s}
       /\ UNCHANGED <<reading, file>>

\* popFreePage has no page in aPage: a page that is not cached ends the process
\* unless it is a leaf, and then it is not free.
PopFreePage(s, kind) ==
    /\ Running(s) /\ entity[s].loaded
    /\ Cardinality(held[s]) < MaxHeld
    /\ entity[s].firstFree # NoPage
    /\ \/ PopFree(s, kind)
       \/ PopOther(s) /\ UNCHANGED entity
       \/ /\ \/ StartRead(s, entity[s].firstFree, "null", held[s])
             \/ ReadBreaks(s, entity[s].firstFree, "null")
          /\ UNCHANGED <<entity, thrown>>
    /\ UNCHANGED header

EditPage(s, o, v) ==
    /\ Running(s)
    /\ heap[o].live.kind \in NodeKind /\ heap[o].live.data # v
    /\ heap' = [heap EXCEPT ![o].live.data = v]
    /\ UNCHANGED <<pageCache, entity, held, reading, file, header, thrown, torn, up>>

WritePage(s, o) ==
    /\ Running(s)
    /\ PutWrite(s, [heap EXCEPT ![o].raw = Saved(heap[o])], heap[o].index, o)
    /\ held' = [held EXCEPT ![s] = @ \ {o}]
    /\ UNCHANGED <<entity, reading, header, thrown, torn, up>>

FreeRaw(next) == [type |-> "free", content |-> Free(next)]

\* Slip: the freed page ends the list instead of being linked before the others.
FreePageUnlinked(s, o) ==
    LET p == heap[o].index
    IN /\ Running(s)
       /\ Written(s, o)
       /\ NewId \in ObjectId
       /\ PutWrite(s, Append(heap, Made(p, FreeRaw(NoPage), Free(NoPage))), p, NewId)
       /\ entity' = [entity EXCEPT ![s].firstFree = p]
       /\ held' = [held EXCEPT ![s] = @ \ {o}]
       /\ UNCHANGED <<reading, header, thrown, torn, up>>

\* addPageIntoFreeZone: a new object for the page, linked before the others.
FreePage(s, o) ==
    LET p == heap[o].index
        next == entity[s].firstFree
    IN /\ Running(s)
       /\ Written(s, o)
       /\ NewId \in ObjectId
       /\ PutWrite(s, Append(heap, Made(p, FreeRaw(next), Free(next))), p, NewId)
       /\ entity' = [entity EXCEPT ![s].firstFree = p]
       /\ held' = [held EXCEPT ![s] = @ \ {o}]
       /\ UNCHANGED <<reading, header, thrown, torn, up>>

\* A page that was only looked at.
DropPage(s, o) ==
    /\ Running(s)
    /\ Clean(s, o)
    /\ held' = [held EXCEPT ![s] = @ \ {o}]
    /\ UNCHANGED <<heap, pageCache, entity, reading, file, header, thrown, torn, up>>

\* After the last statement, which saved the entity, the session ends; the next
\* one starts with an empty cache and, if no session shares the process in the
\* model, counts its objects anew.
Reopen(s) ==
    /\ Running(s) /\ Reopening
    /\ held[s] = {} /\ entity[s] = header
    /\ pageCache' = [pageCache EXCEPT ![s] = LRU!EmptyCache]
    /\ entity' = [entity EXCEPT ![s] = Unloaded]
    /\ heap' = IF Session = {s} THEN <<>> ELSE heap
    /\ UNCHANGED <<held, reading, file, header, thrown, torn, up>>

\* Something of session s is not on the disk: its entity, or a page it was
\* given.
Unsaved(s) ==
    \/ entity[s].loaded /\ entity[s] # header
    \/ \E o \in held[s] : ~Written(s, o)

\* The process ends, between any two steps or because it broke, and starts
\* again from the disk.
Restart ==
    /\ Kills
    /\ heap' = <<>>
    /\ pageCache' = [s \in Session |-> LRU!EmptyCache]
    /\ entity' = [s \in Session |-> Unloaded]
    /\ held' = [s \in Session |-> {}]
    /\ reading' = [s \in Session |-> NotReading]
    /\ torn' = (torn \/ \E s \in Session : Unsaved(s))
    /\ up' = TRUE
    /\ UNCHANGED <<file, header, thrown>>

SessionStep(s) ==
    \/ OpenEntity(s) \/ SaveEntity(s) \/ Reopen(s) \/ FinishRead(s)
    \/ \E p \in Page : ReadPage(s, p)
    \/ \E kind \in NodeKind : ExtendFile(s, kind) \/ PopFreePage(s, kind)
    \/ \E o \in held[s] :
          \/ \E p \in Page : ReadNextPage(s, o, p)
          \/ \E v \in Value : EditPage(s, o, v)
          \/ WritePage(s, o) \/ FreePage(s, o) \/ DropPage(s, o)

Next == Restart \/ \E s \in Session : SessionStep(s)

Spec == Init /\ [][Next]_vars

-----------------------------------------------------------------------------
(* Properties *)

\* What a session finds for a page is what the file holds for it, but for the
\* block of a read under way: no write stays in the cache, so nothing goes with
\* it when the session or the process ends.
FileIsCurrent ==
    \A s \in Session, p \in Page :
        \/ reading[s] # NotReading /\ heap[reading[s].object].index = p
        \/ Latest(s, p) = file[p]

\* A held page is the one the cache has, so that an edit of it is an edit of
\* what the next reader gets; or it is new and not in the cache as a node yet.
\* A session that lost pages or its entity on the way promises nothing.
HandleIsCurrent ==
    ~torn => \A s \in Session : \A o \in held[s] :
        LET p == heap[o].index
        IN LatestKind(s, p) \in TreeKind => IsCached(s, p) /\ CachedObject(s, p) = o

\* The pages on the list of free pages.
FreeChain(s) ==
    {p \in Page : \A C \in SUBSET Page :
        (/\ entity[s].firstFree \in C \cup {NoPage}
         /\ \A q \in C : LatestKind(s, q) = "free" =>
                            Latest(s, q).content.data \in C \cup {NoPage})
        => p \in C}

InUse(s) == {p \in Page : LatestKind(s, p) \in TreeKind}
            \cup {heap[o].index : o \in held[s]}

\* Every page ever given out is either in use or on the list of free pages, and
\* none is both: no page is handed out twice or forgotten.
PagesAccounted ==
    \A s \in Session : entity[s].loaded =>
        /\ InUse(s) \cup FreeChain(s) = 1..entity[s].nPage - 1
        /\ InUse(s) \cap FreeChain(s) = {}

\* popFreePage never meets a page that is not free: its error message
\* (storage.cpp:98-100) says that this is not meant to happen.
PopFindsFreePage == thrown = {}

\* The list of free pages is sound, in the entity, the cache and the file,
\* through statements that end in order and through a process that ends between
\* two of them.
FreeListIsSound == ~torn => PagesAccounted /\ PopFindsFreePage

\* With one session, the cache, the objects and the copies make up a file of
\* pages with a list of free ones.
TheSession == CHOOSE s \in Session : TRUE

Current(s) == IF entity[s].loaded THEN entity[s] ELSE header

Pages == INSTANCE PageFile WITH
            content <- [p \in Page |-> file[p].content],
            nPage <- Current(TheSession).nPage,
            firstFree <- Current(TheSession).firstFree,
            saved <- [nPage |-> header.nPage, firstFree |-> header.firstFree]

\* The page layer keeps what PageFile promises: reads, the cache and ends of
\* the process lose no leaf, write nothing else and give out no other page.
ImplementsPageFile == Pages!Spec
=============================================================================
