----------------------------- MODULE BPlusTree -----------------------------
(***************************************************************************)
(* One index of one table: the B+tree over slotted pages (storage.cpp from *)
(* setBTree on, leaf_b_plus_node.cpp, internal_b_plus_node.cpp and the     *)
(* search in slotted_page.cpp), as one session works on it.                *)
(*                                                                         *)
(* setBTree and removeBtree work at a leaf and then go up level by level;  *)
(* each level is an action, and task says what is left to do.  A tuple is  *)
(* its key: it moves between pages as a whole.  All tuples of a leaf have  *)
(* one size and all entries of an internal node another.                   *)
(*                                                                         *)
(* The code keeps a key in the first entry of an internal node that it     *)
(* never looks at; here keys[i] separates child[i] from child[i + 1].      *)
(*                                                                         *)
(* Callers put only keys that are not stored (validateInsert) and remove   *)
(* keys they have read from a leaf.  The cache of pages is left to         *)
(* PageStore: here a page has one copy.                                    *)
(*                                                                         *)
(* A definition commented as a slip is a mistake this code could contain:  *)
(* no specification uses it.                                               *)
(***************************************************************************)
EXTENDS Integers, FiniteSets, SequencesExt

CONSTANTS
    Key,            \* keys of the index, a set of numbers
    TupleSize,      \* bytes of a tuple in a leaf
    EntrySize,      \* bytes of an entry of an internal node
    MaximumUsed,    \* Configs::storageMaximumUsedBytes
    MaxPage,        \* bound: pages of the file
    Loads,          \* bound: how many keys are put in ascending order at first
    MaxPuts,        \* bound: keys put after those
    MaxOps,         \* bound: keys put or removed after those
    Refill          \* may a tall tree be put to after a removal?

MinimumUsed == MaximumUsed \div 2
Page == 1..MaxPage
NoPage == 0

ASSUME KeyAssumption == Key \subseteq Nat /\ \A n \in Loads : \A i \in 1..n : 4 * i \in Key
ASSUME SizeAssumption == {TupleSize, EntrySize, MaximumUsed} \subseteq Nat \ {0}
ASSUME BoundAssumption ==
    /\ {MaxPage, MaxPuts, MaxOps} \cup Loads \subseteq Nat /\ Refill \in BOOLEAN
    /\ \E n \in Loads : \A m \in Loads : m <= n

VARIABLES
    page,       \* page -> what is in it
    root,       \* IndexingMetadata::root
    free,       \* the list of free pages, the next to be taken first
    nPage,      \* the pages below nPage have been given out
    task,       \* what the running operation has still to do
    phase,      \* "tall" once there are three levels, "shrunk" on the next removal
    count       \* operations so far

vars == <<page, root, free, nPage, task, phase, count>>

NoNode == [kind |-> "none", keys |-> <<>>, child |-> <<>>,
           parent |-> NoPage, prev |-> NoPage, next |-> NoPage]
Leaf(keys, parent, prev, next) ==
    [kind |-> "leaf", keys |-> keys, child |-> <<>>,
     parent |-> parent, prev |-> prev, next |-> next]
Internal(keys, child, parent) ==
    [kind |-> "internal", keys |-> keys, child |-> child,
     parent |-> parent, prev |-> NoPage, next |-> NoPage]

Rest == [op |-> "rest"]
Link(key, left, right) == [op |-> "link", key |-> key, left |-> left, right |-> right]
Mend(key, node) ==
    IF node = NoPage THEN Rest ELSE [op |-> "mend", key |-> key, node |-> node]
Failed == [op |-> "failed"]     \* an assertion fails or a null page is read

PageOrNone == Page \cup {NoPage}
Node == [kind: {"none", "leaf", "internal"}, keys: Seq(Key), child: Seq(Page),
         parent: PageOrNone, prev: PageOrNone, next: PageOrNone]
Task == {Rest, Failed} \cup [op: {"link"}, key: Key, left: Page, right: Page]
                       \cup [op: {"mend"}, key: Key, node: Page]

TypeOK ==
    /\ page \in [Page -> Node]
    /\ \A p \in Page : LET n == page[p] IN n.kind = "internal" =>
          Len(n.child) = Len(n.keys) + 1
    /\ root \in PageOrNone
    /\ free \in Seq(Page)
    /\ nPage \in 1..MaxPage + 1
    /\ task \in Task
    /\ phase \in {"short", "tall", "shrunk"}
    /\ count \in [load: 0..Max(Loads), puts: 0..MaxPuts, ops: 0..MaxOps]

Init ==
    /\ page = [p \in Page |-> NoNode]
    /\ root = NoPage
    /\ free = <<>>
    /\ nPage = 1
    /\ task = Rest
    /\ phase = "short"
    /\ count = [load |-> 0, puts |-> 0, ops |-> 0]

-----------------------------------------------------------------------------
(* Reading the tree. *)

Used(n) == IF n.kind = "leaf" THEN Len(n.keys) * TupleSize ELSE Len(n.child) * EntrySize

\* How many keys of a sorted sequence are at most k: lower_bound's index.
Count(ks, k) == Cardinality({i \in DOMAIN ks : ks[i] <= k})

\* The leaf a search for k ends in.
FindLeaf(k) ==
    LET descend[d \in 0..MaxPage] ==
          IF d = 0 THEN root
          ELSE LET p == descend[d - 1]
                   n == page[p]
               IN  IF n.kind = "internal" THEN n.child[Count(n.keys, k) + 1] ELSE p
    IN  descend[MaxPage]

\* The first leaf below node p.
LeftmostLeaf(p) ==
    LET descend[d \in 0..MaxPage] ==
          IF d = 0 THEN p
          ELSE LET q == descend[d - 1]
                   n == page[q]
               IN  IF n.kind = "internal" THEN Head(n.child) ELSE q
    IN  descend[MaxPage]

\* What iterating from beginLeaf to endLeaf yields.  A chain of leaves that
\* runs in a circle is cut off after as many leaves as there are pages.
Scan ==
    LET yields[d \in 0..MaxPage] ==
          IF d = 0 THEN [keys |-> <<>>, at |-> IF root = NoPage THEN NoPage ELSE LeftmostLeaf(root)]
          ELSE LET y == yields[d - 1] IN
               IF y.at = NoPage THEN y
               ELSE [keys |-> y.keys \o page[y.at].keys, at |-> page[y.at].next]
    IN  yields[MaxPage].keys

LeafPages == {p \in Page : page[p].kind = "leaf"}
Stored == UNION {ToSet(page[p].keys) : p \in LeafPages}

-----------------------------------------------------------------------------
(* popFreePage and addPageIntoFreeZone.  Pages are taken from the free list, or from the end of the file. *)

\* Slip: the page that is taken stays on the list.
TakePageKeeping ==
    /\ (IF free = <<>> THEN nPage ELSE Head(free)) <= MaxPage
    /\ nPage' = IF free = <<>> THEN nPage + 1 ELSE nPage
    /\ UNCHANGED free

NewPage == IF free = <<>> THEN nPage ELSE Head(free)
TakePage ==
    /\ NewPage <= MaxPage
    /\ nPage' = IF free = <<>> THEN nPage + 1 ELSE nPage
    /\ free' = IF free = <<>> THEN free ELSE Tail(free)

FreePage(pg, p) == [pg EXCEPT ![p] = NoNode]

\* The pages pg where the nodes C have p for their parent.
Adopted(pg, C, p) == [q \in Page |-> IF q \in C THEN [pg[q] EXCEPT !.parent = p] ELSE pg[q]]

\* Only a leaf stores its neighbours.
WithNext(pg, p, q) ==
    IF p # NoPage /\ pg[p].kind = "leaf" THEN [pg EXCEPT ![p].next = q] ELSE pg
WithPrev(pg, p, q) ==
    IF p # NoPage /\ pg[p].kind = "leaf" THEN [pg EXCEPT ![p].prev = q] ELSE pg

-----------------------------------------------------------------------------
(* setBTree *)

\* Slip: the tuple in the middle is left out of both halves.
SplitLeafUneven(p, ks, left) ==
    LET n == page[p]
        mid == Len(ks) \div 2
    IN  WithNext([page EXCEPT ![left] = Leaf(SubSeq(ks, 1, mid), n.parent, n.prev, p),
                              ![p].keys = SubSeq(ks, mid + 2, Len(ks)),
                              ![p].prev = left],
                 n.prev, left)

\* splitLeaf: the new page left takes the lower half of leaf p, which holds ks.
SplitLeaf(p, ks, left) ==
    LET n == page[p]
        mid == Len(ks) \div 2
        pg == [page EXCEPT ![left] = Leaf(SubSeq(ks, 1, mid), n.parent, n.prev, p),
                           ![p].keys = SubSeq(ks, mid + 1, Len(ks)),
                           ![p].prev = left]
    IN  WithNext(pg, n.prev, left)

\* splitInternal: the new page left takes the first children of node p, which is n now.
LeftChildren(n) == (Len(n.child) - 1) \div 2 + 1

\* Slip: the children that move are not told of their new parent.
SplitInternalOnly(p, n, left) ==
    LET m == LeftChildren(n) IN
    [page EXCEPT ![left] = Internal(SubSeq(n.keys, 1, m - 1), SubSeq(n.child, 1, m), n.parent),
                 ![p].keys = SubSeq(n.keys, m + 1, Len(n.keys)),
                 ![p].child = SubSeq(n.child, m + 1, Len(n.child))]

SplitInternal(p, n, left) ==
    LET m == LeftChildren(n)
        lower == SubSeq(n.child, 1, m)
    IN  [Adopted(page, ToSet(lower), left) EXCEPT
            ![left] = Internal(SubSeq(n.keys, 1, m - 1), lower, n.parent),
            ![p].keys = SubSeq(n.keys, m + 1, Len(n.keys)),
            ![p].child = SubSeq(n.child, m + 1, Len(n.child))]

\* setChild: the child key belongs to becomes left, and right follows it.
SetChild(n, key, left, right) ==
    LET i == Count(n.keys, key) IN
    [n EXCEPT !.keys = InsertAt(@, i + 1, key),
              !.child = InsertAt([@ EXCEPT ![i + 1] = left], i + 2, right)]

MayOperate == count.load \in Loads /\ count.ops < MaxOps

MayPut(k) ==
    /\ task = Rest
    /\ k \notin Stored
    /\ \/ /\ count.ops = 0
          /\ count.load < Max(Loads)
          /\ k = 4 * (count.load + 1)
          /\ count' = [count EXCEPT !.load = @ + 1]
       \/ /\ MayOperate
          /\ Refill \/ phase # "shrunk"
          /\ count.puts < MaxPuts
          /\ count' = [count EXCEPT !.puts = @ + 1, !.ops = @ + 1]

SetBTreeFirst(k) ==
    /\ MayPut(k)
    /\ root = NoPage
    /\ TakePage
    /\ page' = [page EXCEPT ![NewPage] = Leaf(<<k>>, NoPage, NoPage, NoPage)]
    /\ root' = NewPage
    /\ UNCHANGED <<task, phase>>

SetBTree(k) ==
    /\ MayPut(k)
    /\ root # NoPage
    /\ LET p == FindLeaf(k)
           ks == InsertAt(page[p].keys, Count(page[p].keys, k) + 1, k)
           n == [page[p] EXCEPT !.keys = ks]
       IN  \/ /\ Used(n) <= MaximumUsed
              /\ page' = [page EXCEPT ![p] = n]
              /\ UNCHANGED <<task, free, nPage>>
           \/ /\ Used(n) > MaximumUsed
              /\ TakePage
              /\ page' = SplitLeaf(p, ks, NewPage)
              /\ task' = Link(Head(page'[p].keys), NewPage, p)
    /\ UNCHANGED <<root, phase>>

\* insertBtree where the node that was split has no parent: the tree grows a level.
LinkRoot ==
    /\ task.op = "link"
    /\ page[task.left].parent = NoPage
    /\ TakePage
    /\ page' = [Adopted(page, {task.left, task.right}, NewPage) EXCEPT
                    ![NewPage] = Internal(<<task.key>>, <<task.left, task.right>>, NoPage)]
    /\ root' = NewPage
    /\ task' = Rest
    /\ phase' = IF phase = "short" /\ page[task.left].kind = "internal" THEN "tall" ELSE phase
    /\ UNCHANGED count

\* insertBtree below the root.  A leaf is split when it uses more than the
\* maximum, an internal node already when it uses more than the minimum.
LinkChild ==
    /\ task.op = "link"
    /\ page[task.left].parent # NoPage
    /\ LET p == page[task.left].parent
           n == SetChild(page[p], task.key, task.left, task.right)
       IN  \/ /\ Used(n) <= MinimumUsed
              /\ page' = [page EXCEPT ![p] = n]
              /\ task' = Rest
              /\ UNCHANGED <<free, nPage>>
           \/ /\ Used(n) > MinimumUsed
              /\ TakePage
              /\ page' = SplitInternal(p, n, NewPage)
              /\ task' = Link(n.keys[LeftChildren(n)], NewPage, p)
    /\ UNCHANGED <<root, phase, count>>

-----------------------------------------------------------------------------
(* removeBtree at a leaf *)

\* Slip: the parent keeps the key it has.
SetSeparatorNot(pg, r, q, key) == pg

\* The entry of node r for child q gets a new key, unless it is the first one.
SetSeparator(pg, r, q, key) ==
    LET at == {i \in 2..Len(pg[r].child) : pg[r].child[i] = q} IN
    IF at = {} THEN pg ELSE [pg EXCEPT ![r].keys[Min(at) - 1] = key]

\* Slip: the child goes and its key stays.
WithoutChildOnly(n, i) == [n EXCEPT !.child = RemoveAt(@, i)]

\* Entry i of node n goes, with the key in front of it.
WithoutChild(n, i) ==
    [n EXCEPT !.child = RemoveAt(@, i), !.keys = RemoveAt(@, IF i = 1 THEN 1 ELSE i - 1)]
IndexOf(n, q) == CHOOSE i \in DOMAIN n.child : n.child[i] = q

\* Slip: p goes on pointing at q.
MergeLeavesUnlinked(pg, p, q) ==
    LET r == pg[q].parent IN
    [pg EXCEPT ![p].keys = @ \o pg[q].keys,
               ![r] = WithoutChild(@, IndexOf(@, q))]

\* mergeLeafNode: the tuples of leaf q join those of leaf p.
MergeLeaves(pg, p, q) ==
    LET r == pg[q].parent IN
    [pg EXCEPT ![p].keys = @ \o pg[q].keys,
               ![p].next = pg[q].next,
               ![r] = WithoutChild(@, IndexOf(@, q))]

\* What becomes of the pages, and the page set free if there is one.
Result(pg, freed) == [page |-> pg, freed |-> freed]

Sibling(pg, p, q) == q # NoPage /\ pg[q].parent = pg[p].parent
Rich(pg, q) == Used(pg[q]) > MinimumUsed

\* Leaf p uses too little: it borrows a tuple from the next or the previous
\* leaf, or one of them and p become one.  The page that follows a merger is
\* told that p precedes it, also where p is the page that goes.
RebalanceLeaf(pg, p) ==
    LET n == pg[p]
        next == n.next
        prev == n.prev
    IN
    CASE Sibling(pg, p, next) /\ Rich(pg, next) ->
           Result(SetSeparator([pg EXCEPT ![p].keys = Append(@, Head(pg[next].keys)),
                                          ![next].keys = Tail(@)],
                               n.parent, next, pg[next].keys[2]),
                  NoPage)
      [] ~(Sibling(pg, p, next) /\ Rich(pg, next)) /\ Sibling(pg, p, prev) /\ Rich(pg, prev) ->
           Result(SetSeparator([pg EXCEPT ![p].keys = <<Last(pg[prev].keys)>> \o @,
                                          ![prev].keys = Front(@)],
                               n.parent, p, Last(pg[prev].keys)),
                  NoPage)
      [] Sibling(pg, p, next) /\ ~Rich(pg, next) /\ ~(Sibling(pg, p, prev) /\ Rich(pg, prev)) ->
           Result(WithPrev(MergeLeaves(pg, p, next), pg[next].next, p), next)
      [] ~Sibling(pg, p, next) /\ Sibling(pg, p, prev) /\ ~Rich(pg, prev) ->
           Result(WithPrev(MergeLeaves(pg, prev, p), next, p), p)
      [] OTHER -> Result(pg, NoPage)

\* Pages and free list after a level of a removal.
Settle(r) ==
    /\ page' = IF r.freed = NoPage THEN r.page ELSE FreePage(r.page, r.freed)
    /\ free' = IF r.freed = NoPage THEN free ELSE <<r.freed>> \o free

Stop ==
    /\ task' = Failed
    /\ UNCHANGED <<page, free>>

\* The separator in front of a leaf in its parent that k leads to; 0 is none.
EntryInParent(p, k) ==
    IF page[p].parent = NoPage THEN 0 ELSE Count(page[page[p].parent].keys, k)

\* removeFromLeaf: the entry k leads to in the parent takes the leaf's new first key.
RemovedFromLeaf(p, k) ==
    LET ks == RemoveAt(page[p].keys, Count(page[p].keys, k))
        c == EntryInParent(p, k)
    IN  IF c = 0 THEN [page EXCEPT ![p].keys = ks]
        ELSE [page EXCEPT ![p].keys = ks, ![page[p].parent].keys[c] = Head(ks)]

\* Leaf p would borrow where the code reads past the end of a vector: it places
\* the tuple it gets after its last one, and takes its new separator from the
\* tuple after the one that the next leaf lends.  What that reads is undefined;
\* the page is then written outside of its buffer.
BorrowFails(pg, p) ==
    LET next == pg[p].next
    IN /\ Sibling(pg, p, next) /\ Rich(pg, next)
       /\ pg[p].keys = <<>> \/ Len(pg[next].keys) = 1

\* There is no such key, which is an assertion that fails; or the leaf cannot
\* borrow.
LeafFails(p, k) ==
    \/ Len(page[p].keys) = 1 /\ EntryInParent(p, k) # 0
    \/ LET pg == RemovedFromLeaf(p, k)
       IN Used(pg[p]) < MinimumUsed /\ p # root /\ BorrowFails(pg, p)

\* The leaf level of removeBtree.
RemoveBtree(k) ==
    /\ task = Rest
    /\ MayOperate
    /\ k \in Stored
    /\ LET p == FindLeaf(k)
           pg == RemovedFromLeaf(p, k)
       IN  IF LeafFails(p, k) THEN Stop
           ELSE /\ Settle(IF Used(pg[p]) < MinimumUsed /\ p # root THEN RebalanceLeaf(pg, p)
                          ELSE Result(pg, NoPage))
                /\ task' = Mend(k, page[p].parent)
    /\ phase' = IF phase = "tall" THEN "shrunk" ELSE phase
    /\ count' = [count EXCEPT !.ops = @ + 1]
    /\ UNCHANGED <<root, nPage>>

-----------------------------------------------------------------------------
(* removeBtree above the leaves *)

\* mergeInternalNode: the children of q, entry i of the parent, join those of p.
MergeInternals(pg, p, q, i) ==
    LET r == pg[p].parent IN
    [Adopted(pg, ToSet(pg[q].child), p) EXCEPT
        ![p].keys = Append(@, pg[r].keys[i - 1]) \o pg[q].keys,
        ![p].child = @ \o pg[q].child,
        ![r] = WithoutChild(@, i)]

\* Internal node p uses too little.  Its place i in the parent is looked up by
\* its first key.
RebalanceInternal(pg, p) ==
    LET n == pg[p]
        r == n.parent
        i == Count(pg[r].keys, Head(n.keys)) + 1
        next == IF i < Len(pg[r].child) THEN pg[r].child[i + 1] ELSE NoPage
        prev == IF i > 1 THEN pg[r].child[i - 1] ELSE NoPage
        NextRich == next # NoPage /\ Rich(pg, next)
        PrevRich == prev # NoPage /\ Rich(pg, prev)
    IN
    CASE NextRich ->
           Result([Adopted(pg, {Head(pg[next].child)}, p) EXCEPT
                      ![p].keys = Append(@, pg[r].keys[i]),
                      ![p].child = Append(@, Head(pg[next].child)),
                      ![r].keys[i] = Head(pg[next].keys),
                      ![next] = WithoutChild(@, 1)],
                  NoPage)
      [] ~NextRich /\ PrevRich ->
           Result([Adopted(pg, {Last(pg[prev].child)}, p) EXCEPT
                      ![p].keys = <<pg[r].keys[i - 1]>> \o @,
                      ![p].child = <<Last(pg[prev].child)>> \o @,
                      ![r].keys[i - 1] = Last(pg[prev].keys),
                      ![prev] = WithoutChild(@, Len(@.child))],
                  NoPage)
      [] ~NextRich /\ ~PrevRich /\ next # NoPage ->
           Result(MergeInternals(pg, p, next, i + 1), next)
      [] next = NoPage /\ ~PrevRich /\ prev # NoPage ->
           Result(MergeInternals(pg, prev, p, i), p)
      [] OTHER -> Result(pg, NoPage)

\* removeFromInternal: the entry the key leads to takes the first key below it.
Relabelled(p, k) ==
    LET c == Count(page[p].keys, k) IN
    IF c = 0 THEN page
    ELSE [page EXCEPT ![p].keys[c] = Head(page[LeftmostLeaf(page[p].child[c + 1])].keys)]

\* That key is missing, or a node left with one child is asked for its first key.
MendFails(p, k) ==
    \/ LET c == Count(page[p].keys, k) IN
       c # 0 /\ page[LeftmostLeaf(page[p].child[c + 1])].keys = <<>>
    \/ p # root /\ page[p].keys = <<>>

\* The root has one child left, which becomes the root.
MendRootCollapses ==
    /\ task.op = "mend"
    /\ ~MendFails(task.node, task.key)
    /\ task.node = root
    /\ Len(page[root].child) = 1
    /\ root' = Head(page[root].child)
    /\ Settle(Result([page EXCEPT ![root'].parent = NoPage], root))
    /\ task' = Rest
    /\ UNCHANGED <<nPage, phase, count>>

MendNode ==
    /\ task.op = "mend"
    /\ LET p == task.node
           pg == Relabelled(p, task.key)
       IN  IF MendFails(p, task.key) THEN Stop
           ELSE /\ p = root => Len(page[p].child) > 1
                /\ Settle(IF Used(pg[p]) < MinimumUsed /\ p # root THEN RebalanceInternal(pg, p)
                          ELSE Result(pg, NoPage))
                /\ task' = Mend(task.key, page[p].parent)
    /\ UNCHANGED <<root, nPage, phase, count>>

-----------------------------------------------------------------------------
Next ==
    \/ \E k \in Key : SetBTreeFirst(k) \/ SetBTree(k) \/ RemoveBtree(k)
    \/ LinkRoot \/ LinkChild
    \/ MendRootCollapses \/ MendNode

Spec == Init /\ [][Next]_vars

-----------------------------------------------------------------------------
(* Properties.  A level of an operation is done when task says so: between   *)
(* two levels parents and separators are on their way.                       *)

AtRest == task = Rest

Internals == {p \in Page : page[p].kind = "internal"}
InUse == LeafPages \cup Internals

\* findLeaf leads to the leaf that holds a key, for every key of every leaf:
\* splits, borrows and merges keep the separators of all levels right.
SearchFindsKeys ==
    AtRest => \A p \in LeafPages : \A k \in ToSet(page[p].keys) : FindLeaf(k) = p

\* A node's parentIndex and its parent's children name each other, whichever
\* nodes were split, merged or freed: insertBtree and removeBtree go up by it.
ParentsAgree ==
    AtRest /\ root # NoPage =>
        /\ page[root].parent = NoPage
        /\ \A p \in InUse \ {root} : \E r \in Internals :
              page[p].parent = r /\ p \in ToSet(page[r].child)
        /\ \A r \in Internals : \A p \in ToSet(page[r].child) : page[p].parent = r

\* Every page given out is in the tree or once on the free list: a merger
\* frees the right page and a split takes one nobody uses.
PagesAccounted ==
    AtRest => /\ IsInjective(free)
              /\ ToSet(free) \cap InUse = {}
              /\ ToSet(free) \cup InUse = 1..nPage - 1

\* Iterating over the leaves yields every stored key once and in order, as
\* the test of beginLeaf and nextLeaf has it (tests/strorage_test.cpp:174).
ScanFindsKeys ==
    AtRest => LET ks == Scan IN
              /\ ToSet(ks) = Stored
              /\ \A i \in 1..Len(ks) - 1 : ks[i] < ks[i + 1]

\* The tree is a set of keys: an operation adds or removes its own key in one
\* step, and moving tuples between pages loses and doubles none.
S == INSTANCE KeySet WITH keys <- Stored
ImplementsKeySet == S!Spec
=============================================================================
