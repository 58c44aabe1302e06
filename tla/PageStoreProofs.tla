--------------------------- MODULE PageStoreProofs --------------------------
(***************************************************************************)
(* Proofs about PageStore: its type for every number of sessions and every *)
(* size of the cache; and for one session at a time, while the cache is    *)
(* larger than the table, the rest of its properties and that it           *)
(* implements PageFile, with reads that lose internal nodes and a process  *)
(* that may end and start again between any two steps.                     *)
(***************************************************************************)
EXTENDS PageStore, FiniteSetTheorems, WellFoundedInduction, TLAPS

-----------------------------------------------------------------------------
(* The caches of the sessions *)

\* The lemmas about one cache, which speak of no variable: what the variables
\* of CacheClient are replaced by does not matter.
Facts == INSTANCE CacheProofs WITH
            Key <- Page, Value <- ObjectId, MaxSize <- CacheSize, MaxPuts <- CacheSize,
            cache <- LRU!EmptyCache, returned <- 0, fresh <- TRUE

SoundCache(c) == Facts!Sound(c)
Holds(c) == Facts!Holds(c)

\* The operators of the caches are the ones the lemmas of CacheProofs name.
LEMMA SameCache ==
    /\ LRU!EmptyCache = Facts!EmptyCache
    /\ LRU!Cache = Facts!Cache
    /\ \A c : LRU!Full(c) = Facts!Full(c)
    /\ \A c, p : LRU!Contains(c, p) = Facts!Contains(c, p)
    /\ \A c, p : LRU!Got(c, p) = Facts!Got(c, p)
    /\ \A c, p : LRU!GetReturns(c, p) = Facts!GetReturns(c, p)
    /\ \A c, p, o : LRU!Put(c, p, o) = Facts!Put(c, p, o)
    /\ \A c, p, o : LRU!PutReturns(c, p, o) = Facts!PutReturns(c, p, o)
<1>1. LRU!EmptyCache = Facts!EmptyCache
  BY DEF LRU!EmptyCache, Facts!EmptyCache, LRU!NoNode, Facts!NoNode
<1>2. LRU!Cache = Facts!Cache
  BY DEF LRU!Cache, Facts!Cache, LRU!Node, Facts!Node
<1>3. ASSUME NEW c, NEW p PROVE LRU!Contains(c, p) = Facts!Contains(c, p)
  BY DEF LRU!Contains, Facts!Contains, LRU!NoNode, Facts!NoNode
<1>4. ASSUME NEW c PROVE LRU!Full(c) = Facts!Full(c)
  BY DEF LRU!Full, Facts!Full, LRU!Size, Facts!Size, LRU!Cardinality, Facts!Cardinality,
         LRU!Cached, Facts!Cached, LRU!Contains, Facts!Contains, LRU!NoNode, Facts!NoNode
<1>5. ASSUME NEW c, NEW p PROVE LRU!Position(c, p) = Facts!Position(c, p)
  BY DEF LRU!Position, Facts!Position
<1>6. ASSUME NEW c, NEW p PROVE LRU!Got(c, p) = Facts!Got(c, p)
  BY <1>5 DEF LRU!Got, Facts!Got, LRU!MoveToEnd, Facts!MoveToEnd
<1>7. ASSUME NEW c, NEW p PROVE LRU!GetReturns(c, p) = Facts!GetReturns(c, p)
  BY <1>5 DEF LRU!GetReturns, Facts!GetReturns
<1>8. ASSUME NEW c, NEW p, NEW o PROVE LRU!Put(c, p, o) = Facts!Put(c, p, o)
  BY <1>4 DEF LRU!Put, Facts!Put, LRU!Pushed, Facts!Pushed, LRU!Popped, Facts!Popped,
              LRU!NoNode, Facts!NoNode
<1>9. ASSUME NEW c, NEW p, NEW o PROVE LRU!PutReturns(c, p, o) = Facts!PutReturns(c, p, o)
  BY <1>4 DEF LRU!PutReturns, Facts!PutReturns
<1> QED BY <1>1, <1>2, <1>3, <1>4, <1>6, <1>7, <1>8, <1>9

\* A new cache caches nothing.
LEMMA EmptyCacheFacts ==
    /\ SoundCache(LRU!EmptyCache)
    /\ Holds(LRU!EmptyCache) = {}
    /\ \A p \in Page : ~LRU!Contains(LRU!EmptyCache, p)
<1>1. SoundCache(LRU!EmptyCache)
  BY SameCache, Facts!EmptySound, CacheSizeAssumption DEF SoundCache
<1>2. Holds(LRU!EmptyCache) = {}
  BY DEF Holds, Facts!Holds, LRU!EmptyCache
<1>3. \A p \in Page : ~LRU!Contains(LRU!EmptyCache, p)
  BY DEF LRU!EmptyCache, LRU!Contains, LRU!NoNode
<1> QED BY <1>1, <1>2, <1>3

\* A sound cache has its type and lists objects; a get returns one of them.
LEMMA SoundCacheFacts ==
    ASSUME NEW c, SoundCache(c)
    PROVE  /\ c \in LRU!Cache
           /\ Holds(c) \subseteq ObjectId
           /\ \A p \in Page : LRU!Contains(c, p) => LRU!GetReturns(c, p) \in Holds(c)
<1>1. c \in LRU!Cache
  BY SameCache DEF SoundCache, Facts!Sound
<1>2. Holds(c) \subseteq ObjectId
  BY Facts!HoldsValues, CacheSizeAssumption DEF SoundCache, Holds
<1>3. \A p \in Page : LRU!Contains(c, p) => LRU!GetReturns(c, p) \in Holds(c)
  BY SameCache, Facts!GetReturnsHeld, CacheSizeAssumption DEF SoundCache, Holds
<1> QED BY <1>1, <1>2, <1>3

\* A get leaves the cache with the same pages and objects.
LEMMA GotFacts ==
    ASSUME NEW c, SoundCache(c), NEW p \in Page, LRU!Contains(c, p)
    PROVE  /\ SoundCache(LRU!Got(c, p))
           /\ Holds(LRU!Got(c, p)) \subseteq Holds(c)
           /\ \A q \in Page : LRU!Contains(LRU!Got(c, p), q) <=> LRU!Contains(c, q)
           /\ \A q \in Page : LRU!Contains(c, q) =>
                 LRU!GetReturns(LRU!Got(c, p), q) = LRU!GetReturns(c, q)
BY SameCache, Facts!GotReturns, CacheSizeAssumption, Zenon DEF SoundCache, Holds

\* A put lists the new object, and returns it or one that was listed.
LEMMA PutFacts ==
    ASSUME NEW c, SoundCache(c), NEW p \in Page, NEW o \in ObjectId
    PROVE  /\ SoundCache(LRU!Put(c, p, o))
           /\ Holds(LRU!Put(c, p, o)) \subseteq Holds(c) \cup {o}
           /\ LRU!PutReturns(c, p, o) \in Holds(c) \cup {o}
BY SameCache, Facts!PutHolds, CacheSizeAssumption, Zenon DEF SoundCache, Holds

\* The cache is larger than the table: nothing is ever evicted.
Roomy == CacheSize > MaxPage

\* With room, a put adds the page to those of the cache and returns the object
\* it was given.
LEMMA PutRoomyFacts ==
    ASSUME Roomy, NEW c, SoundCache(c), NEW p \in Page, NEW o \in ObjectId
    PROVE  /\ LRU!PutReturns(c, p, o) = o
           /\ \A q \in Page : LRU!Contains(LRU!Put(c, p, o), q) <=> q = p \/ LRU!Contains(c, q)
           /\ LRU!GetReturns(LRU!Put(c, p, o), p) = o
           /\ \A q \in Page : q # p /\ LRU!Contains(c, q) =>
                 LRU!GetReturns(LRU!Put(c, p, o), q) = LRU!GetReturns(c, q)
<1>1. IsFiniteSet(Page) /\ Cardinality(Page) = MaxPage
  BY FS_Interval, BoundsAssumption DEF Page
<1>2. ~Facts!Full(c)
  <2>1. \A k : Facts!Contains(c, k) = LRU!Contains(c, k)
    BY SameCache
  <2>2. Facts!Cardinality(Page) = Cardinality(Page) /\ (Facts!IsFiniteSet(Page) <=> IsFiniteSet(Page))
    BY DEF Facts!Cardinality, Cardinality, Facts!IsFiniteSet, IsFiniteSet
  <2> QED BY <1>1, <2>2, Facts!NeverFull, CacheSizeAssumption DEF Roomy
<1>3. Facts!Put(c, p, o) = Facts!Pushed(c, p, o) /\ Facts!PutReturns(c, p, o) = o
  BY <1>2, Facts!PutWithRoom, CacheSizeAssumption
<1>4. LRU!Put(c, p, o) = Facts!Pushed(c, p, o) /\ LRU!PutReturns(c, p, o) = o
  BY <1>3, SameCache
<1> DEFINE d == Facts!Pushed(c, p, o)
<1>5. /\ \A q \in Page : Facts!Contains(d, q) <=> q = p \/ Facts!Contains(c, q)
      /\ Facts!GetReturns(d, p) = o
      /\ \A q \in Page : q # p /\ Facts!Contains(c, q) =>
            Facts!GetReturns(d, q) = Facts!GetReturns(c, q)
  BY Facts!PushedReturns, CacheSizeAssumption DEF SoundCache
<1> HIDE DEF d
<1>6. /\ \A q \in Page : LRU!Contains(d, q) <=> q = p \/ LRU!Contains(c, q)
      /\ LRU!GetReturns(d, p) = o
      /\ \A q \in Page : q # p /\ LRU!Contains(c, q) =>
            LRU!GetReturns(d, q) = LRU!GetReturns(c, q)
  BY <1>5, SameCache
<1> QED BY <1>4, <1>6 DEF d

-----------------------------------------------------------------------------
(* Page objects *)

\* What the kind of a content says of it.
LEMMA ContentKinds ==
    /\ \A x \in Content : x.kind \in NodeKind => x \in Node
    /\ \A x \in Content : x.kind \in TreeKind => x \in TreeContent
    /\ \A x \in TreeContent : x \in Content /\ x.kind \in TreeKind
    /\ \A x \in Content : x.kind = "free" => x.data \in Page \cup {NoPage} /\ x = Free(x.data)
    /\ \A x \in Node : x \in Content /\ x.kind \in NodeKind /\ x \in TreeContent
    /\ \A next \in Page \cup {NoPage} : Free(next) \in Content /\ Free(next).kind = "free"
                                          /\ Free(next).data = next
    /\ Unwritten \in Content /\ Unwritten.kind \notin TreeKind \cup {"free"}
    /\ Lost \in TreeContent /\ Lost.kind = "lost"
    /\ "free" \notin TreeKind /\ NodeKind \subseteq TreeKind
    /\ \A kind \in NodeKind : Empty(kind) \in Node
BY ValueAssumption DEF Content, TreeContent, Node, NodeKind, TreeKind, Free, Unwritten, Lost, Empty

\* There is one content of each kind that is not decoded from bytes of its own.
LEMMA LostKind == \A x \in Content : x.kind = "lost" => x = Lost
BY DEF Content, Node, NodeKind, Free, Unwritten, Lost

\* The fields of an object that is made.
LEMMA MadeFields ==
    /\ \A p \in Page, r \in Raw, l \in Content : Made(p, r, l) \in Object
    /\ \A p, r, l : /\ Made(p, r, l).index = p /\ Made(p, r, l).raw = r
                    /\ Made(p, r, l).live = l
BY DEF Object, Made

\* The fields of a page object and of its bytes.
LEMMA ObjectFields ==
    /\ \A x \in Object : x.index \in Page /\ x.raw \in Raw /\ x.raw.content \in Content
                           /\ x.live \in Content
    /\ \A r \in Raw : r.type \in TypeByte /\ r.content \in Content
    /\ \A kind : \A r \in NewRaw(kind) : r \in Raw /\ r.content = Lost
    /\ \A next \in Page \cup {NoPage} : FreeRaw(next) \in Raw
    /\ \A next : FreeRaw(next).content = Free(next)
    /\ \A x \in Object : Saved(x) \in Raw /\ Saved(x).content = x.live
<1>1. \A x \in Object : /\ x.index \in Page /\ x.raw \in Raw /\ x.raw.content \in Content
                        /\ x.live \in Content
  BY DEF Object, Raw
<1>2. \A r \in Raw : r.type \in TypeByte /\ r.content \in Content
  BY DEF Raw
<1>4. ASSUME NEW kind, NEW r \in NewRaw(kind) PROVE r \in Raw /\ r.content = Lost
  <2>1. Lost \in Content
    BY ContentKinds
  <2>2. PICK byte \in TypeByte : r = [type |-> byte, content |-> Lost]
    BY FirstByteAssumption DEF NewRaw, TypeByte
  <2> QED BY <2>1, <2>2 DEF Raw
<1>5. \A next \in Page \cup {NoPage} : FreeRaw(next) \in Raw
  BY ContentKinds DEF FreeRaw, Raw, TypeByte
<1>6. \A next : FreeRaw(next).content = Free(next)
  BY DEF FreeRaw
<1>7. ASSUME NEW x \in Object PROVE Saved(x) \in Raw /\ Saved(x).content = x.live
  BY <1>1, <1>2, <1>7 DEF Saved, Raw, TypeByte
<1> QED BY <1>1, <1>2, <1>4, <1>5, <1>6, <1>7

\* An object has been made for each number up to the length of the heap.
LEMMA HeapDomain ==
    ASSUME NEW objects \in Seq(Object)
    PROVE  /\ DOMAIN objects = 1..Len(objects) /\ Len(objects) \in Nat
           /\ \A o \in DOMAIN objects : objects[o] \in Object
           /\ Len(objects) <= MaxObjects => DOMAIN objects \subseteq ObjectId
BY BoundsAssumption DEF ObjectId

\* A new object has the next number.
LEMMA NewObject ==
    ASSUME NEW objects \in Seq(Object), NEW x \in Object
    PROVE  /\ Append(objects, x) \in Seq(Object)
           /\ Len(Append(objects, x)) = Len(objects) + 1
           /\ DOMAIN Append(objects, x) = DOMAIN objects \cup {Len(objects) + 1}
           /\ Len(objects) + 1 \notin DOMAIN objects
           /\ \A o \in DOMAIN objects : Append(objects, x)[o] = objects[o]
           /\ Append(objects, x)[Len(objects) + 1] = x
OBVIOUS

\* An object that takes the place of another leaves the rest objects.
LEMMA OneReplaced ==
    ASSUME NEW objects \in Seq(Object), NEW o \in DOMAIN objects, NEW new, NEW x \in Object,
           new[o] = x, \A y \in DOMAIN objects : y # o => new[y] = objects[y]
    PROVE  \A y \in DOMAIN objects : new[y] \in Object
<1>1. \A y \in DOMAIN objects : objects[y] \in Object
  BY HeapDomain
<1> QED BY <1>1, Zenon

\* A heap in which each object has been replaced by another is a heap.
LEMMA Replaced ==
    ASSUME NEW objects \in Seq(Object), NEW new, DOMAIN new = DOMAIN objects,
           new = [o \in DOMAIN new |-> new[o]],
           \A o \in DOMAIN objects : new[o] \in Object
    PROVE  new \in Seq(Object) /\ Len(new) = Len(objects)
<1>1. new \in [1..Len(objects) -> Object] /\ Len(objects) \in Nat
  BY HeapDomain
<1> QED BY <1>1

\* refresh changes what is decoded of one object.
LEMMA RefreshedFacts ==
    ASSUME NEW objects \in Seq(Object), NEW o \in DOMAIN objects
    PROVE  /\ Refreshed(objects, o) \in Seq(Object)
           /\ Len(Refreshed(objects, o)) = Len(objects)
           /\ DOMAIN Refreshed(objects, o) = DOMAIN objects
           /\ \A x \in DOMAIN objects : Refreshed(objects, o)[x].index = objects[x].index
           /\ \A x \in DOMAIN objects : Refreshed(objects, o)[x].raw = objects[x].raw
           /\ \A x \in DOMAIN objects : x # o => Refreshed(objects, o)[x] = objects[x]
           /\ Refreshed(objects, o)[o].live = objects[o].raw.content
<1> DEFINE new == Refreshed(objects, o)
<1>1. \A x \in DOMAIN objects : objects[x] \in Object
  BY HeapDomain
<1>2. DOMAIN new = DOMAIN objects /\ new = [x \in DOMAIN new |-> new[x]]
  BY DEF Refreshed
<1>3. \A x \in DOMAIN objects : x # o => new[x] = objects[x]
  BY DEF Refreshed
<1>4. new[o] = Made(objects[o].index, objects[o].raw, objects[o].raw.content)
  BY <1>1 DEF Refreshed, Object, Made
<1> HIDE DEF new
<1>5. \A x \in DOMAIN objects : new[x] \in Object
  <2>1. Made(objects[o].index, objects[o].raw, objects[o].raw.content) \in Object
    BY <1>1, ObjectFields, MadeFields
  <2> QED BY <1>3, <1>4, <2>1, OneReplaced
<1>6. new[o].index = objects[o].index /\ new[o].raw = objects[o].raw
      /\ new[o].live = objects[o].raw.content
  BY <1>4, MadeFields
<1> QED BY <1>2, <1>3, <1>5, <1>6, Replaced DEF new

\* Object o gets the index of page p.
Renumbered(objects, o, p) == [objects EXCEPT ![o].index = p]

\* Giving an object another index leaves it an object.
LEMMA RenumberedFacts ==
    ASSUME NEW objects \in Seq(Object), NEW o \in DOMAIN objects, NEW p \in Page
    PROVE  LET new == Renumbered(objects, o, p)
           IN /\ new \in Seq(Object)
              /\ Len(new) = Len(objects)
              /\ DOMAIN new = DOMAIN objects
              /\ \A x \in DOMAIN objects : new[x].raw = objects[x].raw
              /\ \A x \in DOMAIN objects : x # o => new[x] = objects[x]
              /\ new[o].index = p
              /\ objects[o].index = p => new = objects
<1> DEFINE new == Renumbered(objects, o, p)
<1>1. \A x \in DOMAIN objects : objects[x] \in Object
  BY HeapDomain
<1>2. DOMAIN new = DOMAIN objects /\ new = [x \in DOMAIN new |-> new[x]]
  BY DEF Renumbered
<1>3. \A x \in DOMAIN objects : x # o => new[x] = objects[x]
  BY DEF Renumbered
<1>4. new[o] = Made(p, objects[o].raw, objects[o].live)
  BY <1>1 DEF Object, Made, Renumbered
<1>6. objects[o].index = p => new[o] = objects[o]
  BY <1>1 DEF Object, Renumbered
<1>7. objects = [x \in DOMAIN objects |-> objects[x]]
  OBVIOUS
<1> HIDE DEF new
<1>5. \A x \in DOMAIN objects : new[x] \in Object
  <2>1. Made(p, objects[o].raw, objects[o].live) \in Object
    BY <1>1, ObjectFields, MadeFields
  <2> QED BY <1>3, <1>4, <2>1, OneReplaced
<1>8. objects[o].index = p => new = objects
  BY <1>2, <1>3, <1>6, <1>7
<1>9. new \in Seq(Object) /\ Len(new) = Len(objects)
  BY <1>2, <1>5, Replaced
<1>10. (\A x \in DOMAIN objects : new[x].raw = objects[x].raw) /\ new[o].index = p
  BY <1>3, <1>4, MadeFields
<1> QED BY <1>2, <1>3, <1>8, <1>9, <1>10, Zenon DEF new

\* The node of object o is edited.
Edited(objects, o, v) == [objects EXCEPT ![o].live.data = v]

\* An object that is edited stays an object.
LEMMA EditedFacts ==
    ASSUME NEW objects \in Seq(Object), NEW o \in DOMAIN objects, NEW v \in Value,
           objects[o].live.kind \in NodeKind
    PROVE  LET new == Edited(objects, o, v)
           IN /\ new \in Seq(Object) /\ Len(new) = Len(objects) /\ DOMAIN new = DOMAIN objects
              /\ \A x \in DOMAIN objects : new[x].index = objects[x].index
                                             /\ new[x].raw = objects[x].raw
              /\ \A x \in DOMAIN objects : x # o => new[x] = objects[x]
              /\ new[o].live \in Node
<1> DEFINE new == Edited(objects, o, v)
           node == [kind |-> objects[o].live.kind, data |-> v]
<1>1. \A x \in DOMAIN objects : objects[x] \in Object
  BY HeapDomain
<1>2. DOMAIN new = DOMAIN objects /\ new = [x \in DOMAIN new |-> new[x]]
  BY DEF Edited
<1>3. \A x \in DOMAIN objects : x # o => new[x] = objects[x]
  BY DEF Edited
<1>4. objects[o].live \in Node
  BY <1>1, ObjectFields, ContentKinds
<1>5. new[o] = Made(objects[o].index, objects[o].raw, node)
  BY <1>1, <1>4 DEF Object, Node, Made, Edited
<1>6. node \in Node
  BY <1>4 DEF Node
<1> HIDE DEF new, node
<1>7. \A x \in DOMAIN objects : new[x] \in Object
  <2>1. Made(objects[o].index, objects[o].raw, node) \in Object
    BY <1>1, <1>6, ObjectFields, MadeFields, ContentKinds
  <2> QED BY <1>3, <1>5, <2>1, OneReplaced
<1>8. new \in Seq(Object) /\ Len(new) = Len(objects)
  BY <1>2, <1>7, Replaced
<1>9. \A x \in DOMAIN objects : new[x].index = objects[x].index /\ new[x].raw = objects[x].raw
  BY <1>3, <1>5, MadeFields
<1>10. new[o].live \in Node
  BY <1>5, <1>6, MadeFields
<1> QED BY <1>2, <1>3, <1>8, <1>9, <1>10, Zenon DEF new

\* An object that is encoded stays an object.
LEMMA SavedFacts ==
    ASSUME NEW objects \in Seq(Object), NEW o \in DOMAIN objects
    PROVE  LET new == [objects EXCEPT ![o].raw = Saved(objects[o])]
           IN /\ new \in Seq(Object) /\ Len(new) = Len(objects) /\ DOMAIN new = DOMAIN objects
              /\ \A x \in DOMAIN objects : new[x].index = objects[x].index
              /\ \A x \in DOMAIN objects : new[x].live = objects[x].live
              /\ \A x \in DOMAIN objects : x # o => new[x] = objects[x]
              /\ new[o].raw = Saved(objects[o]) /\ new[o].raw.content = objects[o].live
<1> DEFINE new == [objects EXCEPT ![o].raw = Saved(objects[o])]
<1>1. \A x \in DOMAIN objects : objects[x] \in Object
  BY HeapDomain
<1>2. DOMAIN new = DOMAIN objects /\ new = [x \in DOMAIN new |-> new[x]]
  OBVIOUS
<1>3. \A x \in DOMAIN objects : x # o => new[x] = objects[x]
  OBVIOUS
<1>4. new[o] = Made(objects[o].index, Saved(objects[o]), objects[o].live)
  BY <1>1 DEF Object, Made
<1> HIDE DEF new
<1>5. \A x \in DOMAIN objects : new[x] \in Object
  <2>1. Made(objects[o].index, Saved(objects[o]), objects[o].live) \in Object
    BY <1>1, ObjectFields, MadeFields
  <2> QED BY <1>3, <1>4, <2>1, OneReplaced
<1>6. new \in Seq(Object) /\ Len(new) = Len(objects)
  BY <1>2, <1>5, Replaced
<1>7. \A x \in DOMAIN objects : new[x].index = objects[x].index /\ new[x].live = objects[x].live
  BY <1>3, <1>4, MadeFields
<1>8. new[o].raw = Saved(objects[o]) /\ new[o].raw.content = objects[o].live
  BY <1>1, <1>4, ObjectFields, MadeFields
<1> QED BY <1>2, <1>3, <1>6, <1>7, <1>8, Zenon DEF new

\* An object that is made for a page joins the others.
LEMMA Joined ==
    ASSUME NEW objects \in Seq(Object), NEW p \in Page, NEW raw \in Raw, NEW live \in Content,
           Len(objects) + 1 \in ObjectId
    PROVE  LET new == Append(objects, Made(p, raw, live))
           IN /\ new \in Seq(Object) /\ Len(new) <= MaxObjects
              /\ Len(new) = Len(objects) + 1
              /\ DOMAIN new = DOMAIN objects \cup {Len(objects) + 1}
              /\ Len(objects) + 1 \notin DOMAIN objects
              /\ \A y \in DOMAIN objects : new[y] = objects[y]
              /\ new[Len(objects) + 1] = Made(p, raw, live)
<1> DEFINE x == Made(p, raw, live)
<1>1. x \in Object
  BY MadeFields
<1> HIDE DEF x
<1>2. /\ Append(objects, x) \in Seq(Object)
      /\ Len(Append(objects, x)) <= MaxObjects
      /\ Len(Append(objects, x)) = Len(objects) + 1
      /\ DOMAIN Append(objects, x) = DOMAIN objects \cup {Len(objects) + 1}
      /\ Len(objects) + 1 \notin DOMAIN objects
      /\ \A y \in DOMAIN objects : Append(objects, x)[y] = objects[y]
      /\ Append(objects, x)[Len(objects) + 1] = x
  BY <1>1, NewObject, BoundsAssumption DEF ObjectId
<1> QED BY <1>2, Zenon DEF x

\* The entity of a session keeps its type when it counts another page or its
\* list of free pages gets another head.
LEMMA EntityFields ==
    /\ \A e \in Entity : e.loaded \in BOOLEAN /\ e.nPage \in 1..MaxPage + 1
                           /\ e.firstFree \in Page \cup {NoPage}
    /\ \A e \in Entity, p \in Page : [e EXCEPT !.nPage = p + 1] \in Entity
    /\ \A e \in Entity, p \in Page \cup {NoPage} : [e EXCEPT !.firstFree = p] \in Entity
    /\ NewEntity \in Entity /\ Unloaded \in Entity
    /\ \A e \in Entity : e.firstFree # NoPage => e.firstFree \in Page
<1>1. \A p \in Page : p + 1 \in 1..MaxPage + 1
  BY BoundsAssumption DEF Page
<1>2. 1 \in 1..MaxPage + 1
  BY BoundsAssumption
<1>3. NoPage \in Page \cup {NoPage}
  OBVIOUS
<1> QED BY <1>1, <1>2, <1>3 DEF Entity, NewEntity, Unloaded

-----------------------------------------------------------------------------
(* Types *)

\* The objects that the caches list, that the threads hold and that the reads
\* are about have been made.
Allocated ==
    \A s \in Session : /\ SoundCache(pageCache[s])
                       /\ Holds(pageCache[s]) \subseteq DOMAIN heap
                       /\ held[s] \subseteq DOMAIN heap
                       /\ reading[s] # NotReading =>
                             reading[s].object \in DOMAIN heap /\ reading[s].out \in DOMAIN heap

TypeInv == TypeOK /\ Allocated

\* The values of the variables, one by one.
LEMMA Typed ==
    ASSUME TypeInv
    PROVE  /\ heap \in Seq(Object) /\ Len(heap) <= MaxObjects
           /\ pageCache \in [Session -> LRU!Cache]
           /\ entity \in [Session -> Entity]
           /\ held \in [Session -> SUBSET ObjectId]
           /\ held \in [Session -> SUBSET (DOMAIN heap)]
           /\ reading \in [Session -> [object: ObjectId, out: ObjectId] \cup {NotReading}]
           /\ file \in [Page -> Raw]
           /\ header \in Entity
           /\ thrown \subseteq Session
           /\ torn \in BOOLEAN /\ up \in BOOLEAN
           /\ \A t \in Session : SoundCache(pageCache[t])
           /\ \A t \in Session : Holds(pageCache[t]) \subseteq DOMAIN heap
           /\ \A t \in Session : reading[t] # NotReading =>
                 reading[t].object \in DOMAIN heap /\ reading[t].out \in DOMAIN heap
<1>1. \A t \in Session : held[t] \subseteq DOMAIN heap
  BY DEF TypeInv, Allocated
<1> QED BY <1>1 DEF TypeInv, TypeOK, Allocated

\* The fields of the objects that have been made.
LEMMA Fields ==
    ASSUME TypeInv, NEW o \in DOMAIN heap
    PROVE  /\ heap[o] \in Object /\ heap[o].index \in Page /\ heap[o].raw \in Raw
           /\ heap[o].raw.content \in Content /\ heap[o].live \in Content
BY HeapDomain, ObjectFields DEF TypeInv, TypeOK

\* What a state needs to keep the invariant.
LEMMA TypeInvNext ==
    ASSUME heap' \in Seq(Object), Len(heap') <= MaxObjects,
           pageCache' \in [Session -> LRU!Cache],
           \A t \in Session : SoundCache(pageCache'[t]),
           \A t \in Session : Holds(pageCache'[t]) \subseteq DOMAIN heap',
           held' \in [Session -> SUBSET (DOMAIN heap')],
           reading' \in [Session -> [object: DOMAIN heap', out: DOMAIN heap'] \cup {NotReading}],
           entity' \in [Session -> Entity], file' \in [Page -> Raw],
           header' \in Entity, thrown' \subseteq Session, torn' \in BOOLEAN, up' \in BOOLEAN
    PROVE  TypeInv'
<1>1. DOMAIN heap' \subseteq ObjectId
  BY HeapDomain
<1>2. held' \in [Session -> SUBSET ObjectId] /\ \A t \in Session : held'[t] \subseteq DOMAIN heap'
  BY <1>1
<1>3. /\ reading' \in [Session -> [object: ObjectId, out: ObjectId] \cup {NotReading}]
      /\ \A t \in Session : reading'[t] # NotReading =>
            reading'[t].object \in DOMAIN heap' /\ reading'[t].out \in DOMAIN heap'
  <2>1. \A x \in [object: DOMAIN heap', out: DOMAIN heap'] :
           /\ x \in [object: ObjectId, out: ObjectId]
           /\ x.object \in DOMAIN heap' /\ x.out \in DOMAIN heap'
    BY <1>1
  <2> QED BY <2>1
<1> QED BY <1>2, <1>3 DEF TypeInv, TypeOK, Allocated

\* The reads under way stay about objects that have been made.
LEMMA ReadingsTyped ==
    ASSUME TypeInv, NEW objects, DOMAIN heap \subseteq objects
    PROVE  reading \in [Session -> [object: objects, out: objects] \cup {NotReading}]
<1>1. \A t \in Session : reading[t] \in [object: objects, out: objects] \cup {NotReading}
  <2> SUFFICES ASSUME NEW t \in Session, reading[t] # NotReading
               PROVE  reading[t] \in [object: objects, out: objects]
    OBVIOUS
  <2>1. reading[t] \in [object: ObjectId, out: ObjectId]
    BY Typed
  <2>2. reading[t].object \in objects /\ reading[t].out \in objects
    BY Typed
  <2> QED BY <2>1, <2>2
<1> QED BY <1>1, Typed

\* A put leaves the caches sound; what it returns is an object.
LEMMA PutStep ==
    ASSUME TypeInv, NEW s \in Session, NEW objects \in Seq(Object),
           DOMAIN heap \subseteq DOMAIN objects, Len(objects) <= MaxObjects,
           NEW p \in Page, NEW o \in DOMAIN objects,
           pageCache' = [pageCache EXCEPT ![s] = LRU!Put(@, p, o)]
    PROVE  /\ pageCache' \in [Session -> LRU!Cache]
           /\ \A t \in Session : SoundCache(pageCache'[t])
           /\ \A t \in Session : Holds(pageCache'[t]) \subseteq DOMAIN objects
           /\ LRU!PutReturns(pageCache[s], p, o) \in DOMAIN objects
<1>1. pageCache \in [Session -> LRU!Cache]
  BY Typed
<1>2. \A t \in Session : SoundCache(pageCache[t]) /\ Holds(pageCache[t]) \subseteq DOMAIN objects
  BY Typed
<1>3. o \in ObjectId
  BY HeapDomain
<1> DEFINE c == LRU!Put(pageCache[s], p, o)
<1>4. /\ SoundCache(c) /\ Holds(c) \subseteq DOMAIN objects
      /\ LRU!PutReturns(pageCache[s], p, o) \in DOMAIN objects
  BY <1>2, <1>3, PutFacts
<1>5. pageCache' = [pageCache EXCEPT ![s] = c]
  OBVIOUS
<1> HIDE DEF c
<1>6. c \in LRU!Cache
  BY <1>4, SoundCacheFacts
<1> QED BY <1>1, <1>2, <1>4, <1>5, <1>6

\* So does a get.
LEMMA GotStep ==
    ASSUME TypeInv, NEW s \in Session, NEW p \in Page, IsCached(s, p),
           pageCache' = [pageCache EXCEPT ![s] = LRU!Got(@, p)]
    PROVE  /\ pageCache' \in [Session -> LRU!Cache]
           /\ \A t \in Session : SoundCache(pageCache'[t])
           /\ \A t \in Session : Holds(pageCache'[t]) \subseteq DOMAIN heap
           /\ CachedObject(s, p) \in DOMAIN heap
<1>1. pageCache \in [Session -> LRU!Cache]
  BY Typed
<1>2. \A t \in Session : SoundCache(pageCache[t]) /\ Holds(pageCache[t]) \subseteq DOMAIN heap
  BY Typed
<1> DEFINE c == LRU!Got(pageCache[s], p)
<1>3. LRU!Contains(pageCache[s], p)
  BY DEF IsCached
<1>4. SoundCache(c) /\ Holds(c) \subseteq DOMAIN heap
  BY <1>2, <1>3, GotFacts
<1>5. CachedObject(s, p) \in DOMAIN heap
  BY <1>2, <1>3, SoundCacheFacts DEF CachedObject
<1>6. pageCache' = [pageCache EXCEPT ![s] = c]
  OBVIOUS
<1> HIDE DEF c
<1>7. c \in LRU!Cache
  BY <1>4, SoundCacheFacts
<1> QED BY <1>1, <1>2, <1>4, <1>5, <1>6, <1>7

\* An error or the end of the process takes objects out of the held ones only.
LEMMA EndType ==
    ASSUME TypeInv, NEW s \in Session, Fail(s) \/ End
    PROVE  /\ held' \in [Session -> SUBSET (DOMAIN heap)]
           /\ torn' \in BOOLEAN /\ up' \in BOOLEAN
<1>1. CASE Fail(s)
  <2>1. held' = [held EXCEPT ![s] = {}] /\ up' = up
        /\ torn' = (torn \/ \E o \in held[s] : ~Written(s, o))
    BY <1>1 DEF Fail
  <2> QED BY <2>1, Typed
<1>2. CASE End
  BY <1>2, Typed DEF End
<1> QED BY <1>1, <1>2

\* What readPage does when the page is cached.
LEMMA ReadCachedType ==
    ASSUME TypeInv, NEW s \in Session, NEW p \in Page, NEW keep \in SUBSET held[s],
           ReadCached(s, p, keep), UNCHANGED <<entity, header, thrown>>
    PROVE  TypeInv'
<1> DEFINE o == CachedObject(s, p)
<1>1. /\ IsCached(s, p) /\ pageCache' = [pageCache EXCEPT ![s] = LRU!Got(@, p)]
      /\ heap' = Refreshed(heap, o) /\ reading' = reading /\ file' = file
      /\ \/ held' = [held EXCEPT ![s] = keep \cup {o}] /\ UNCHANGED <<torn, up>>
         \/ Fail(s) \/ End
  BY DEF ReadCached, Junk
<1>2. /\ pageCache' \in [Session -> LRU!Cache]
      /\ \A t \in Session : SoundCache(pageCache'[t])
      /\ \A t \in Session : Holds(pageCache'[t]) \subseteq DOMAIN heap
      /\ o \in DOMAIN heap
  BY <1>1, GotStep
<1> HIDE DEF o
<1>3. heap' \in Seq(Object) /\ Len(heap') <= MaxObjects /\ DOMAIN heap' = DOMAIN heap
  BY <1>1, <1>2, Typed, RefreshedFacts
<1>4. held' \in [Session -> SUBSET (DOMAIN heap)] /\ torn' \in BOOLEAN /\ up' \in BOOLEAN
  <2>1. CASE held' = [held EXCEPT ![s] = keep \cup {o}] /\ UNCHANGED <<torn, up>>
    BY <1>2, <2>1, Typed
  <2> QED BY <1>1, <2>1, EndType
<1>5. reading' \in [Session -> [object: DOMAIN heap', out: DOMAIN heap'] \cup {NotReading}]
  BY <1>1, <1>3, ReadingsTyped
<1> QED BY <1>1, <1>2, <1>3, <1>4, <1>5, Typed, TypeInvNext

\* What a block is decoded into is an object of that page, with the bytes of the
\* block or with a buffer nobody wrote.
LEMMA LoadFileType ==
    ASSUME TypeInv, NEW p \in Page, NEW given, NEW x \in LoadFile(p, given)
    PROVE  /\ x \in Object /\ x.index = p
           /\ \/ x.raw = file[p]
              \/ x.raw.content = Lost /\ file[p].type # "leaf"
<1>1. file[p] \in Raw /\ file[p].content \in Content
  BY Typed, ObjectFields
<1>2. Lost \in Content /\ Free(NoPage) \in Content
  BY ContentKinds
<1>3. CASE x = Made(p, file[p], file[p].content) \/ x = Made(p, file[p], Free(NoPage))
  BY <1>1, <1>2, <1>3, MadeFields
<1>4. ASSUME NEW new \in NewRaw("internal"), x = Made(p, new, Lost), file[p].type # "leaf"
      PROVE  x \in Object /\ x.index = p /\ x.raw.content = Lost
  <2>1. new \in Raw /\ new.content = Lost
    BY ObjectFields
  <2> QED BY <1>2, <1>4, <2>1, MadeFields
<1> QED BY <1>3, <1>4, Zenon DEF LoadFile

\* The first step of reading a page that is not cached.
LEMMA StartReadType ==
    ASSUME TypeInv, NEW s \in Session, NEW p \in Page, NEW given,
           NEW holds \in SUBSET (DOMAIN heap \cup {NewId}), StartRead(s, p, given, holds),
           UNCHANGED <<entity, header, thrown>>
    PROVE  TypeInv'
<1>1. PICK x \in LoadFile(p, given) : heap' = Append(heap, x)
  BY DEF StartRead
<1> DEFINE o == NewId
           out == LRU!PutReturns(pageCache[s], p, o)
           objects == Append(heap, x)
<1>2. /\ o \in ObjectId
      /\ reading' = [reading EXCEPT ![s] = [object |-> o, out |-> out]]
      /\ pageCache' = [pageCache EXCEPT ![s] = LRU!Put(@, p, o)]
      /\ held' = [held EXCEPT ![s] = holds]
      /\ UNCHANGED <<file, torn, up>>
  BY DEF StartRead
<1>3. /\ objects \in Seq(Object) /\ Len(objects) = o
      /\ DOMAIN objects = DOMAIN heap \cup {o}
  BY LoadFileType, Typed, NewObject DEF NewId
<1>4. Len(objects) <= MaxObjects
  BY <1>2, <1>3 DEF ObjectId
<1>5. heap' = objects
  BY <1>1
<1> HIDE DEF objects, o
<1>6. /\ pageCache' \in [Session -> LRU!Cache]
      /\ \A t \in Session : SoundCache(pageCache'[t])
      /\ \A t \in Session : Holds(pageCache'[t]) \subseteq DOMAIN objects
      /\ out \in DOMAIN objects
  BY <1>2, <1>3, <1>4, PutStep
<1> HIDE DEF out
<1>7. held' \in [Session -> SUBSET (DOMAIN objects)]
  BY <1>2, <1>3, Typed DEF o
<1>8. reading' \in [Session -> [object: DOMAIN objects, out: DOMAIN objects] \cup {NotReading}]
  <2>1. reading \in [Session -> [object: DOMAIN objects, out: DOMAIN objects] \cup {NotReading}]
    BY <1>3, ReadingsTyped
  <2> QED BY <1>2, <1>3, <1>6, <2>1
<1> QED BY <1>2, <1>3, <1>4, <1>5, <1>6, <1>7, <1>8, Typed, TypeInvNext

\* The object does not come to be.
LEMMA ReadBreaksType ==
    ASSUME TypeInv, NEW s \in Session, NEW p \in Page, NEW given, ReadBreaks(s, p, given),
           UNCHANGED <<entity, header, thrown>>
    PROVE  TypeInv'
<1>1. Fail(s) \/ End
  BY DEF ReadBreaks, Junk
<1>2. UNCHANGED <<pageCache, heap, reading, file>>
  BY DEF ReadBreaks
<1>3. reading' \in [Session -> [object: DOMAIN heap, out: DOMAIN heap] \cup {NotReading}]
  BY <1>2, ReadingsTyped
<1> QED BY <1>1, <1>2, <1>3, EndType, Typed, TypeInvNext

\* The second step.
LEMMA FinishReadType ==
    ASSUME TypeInv, NEW s \in Session, FinishRead(s)
    PROVE  TypeInv'
<1> DEFINE o == reading[s].object
           out == reading[s].out
           p == heap[o].index
           renumbered == Renumbered(heap, out, p)
<1>1. /\ reading[s] # NotReading
      /\ reading' = [reading EXCEPT ![s] = NotReading]
      /\ file' = [file EXCEPT ![p] = renumbered[out].raw]
      /\ heap' = Refreshed(renumbered, o)
      /\ UNCHANGED <<pageCache, entity, header>>
      /\ Fail(s) \/ End \/ UNCHANGED <<held, torn, up>>
      /\ UNCHANGED thrown \/ thrown' = thrown \cup {s}
  BY DEF FinishRead, Junk, Renumbered
<1>2. o \in DOMAIN heap /\ out \in DOMAIN heap
  BY <1>1, Typed
<1>3. p \in Page
  BY <1>2, Fields
<1> HIDE DEF o, out, p
<1>4. /\ renumbered \in Seq(Object) /\ Len(renumbered) = Len(heap)
      /\ DOMAIN renumbered = DOMAIN heap /\ renumbered[out].raw = heap[out].raw
  <2>1. heap \in Seq(Object)
    BY Typed
  <2>2. /\ renumbered \in Seq(Object) /\ Len(renumbered) = Len(heap)
        /\ DOMAIN renumbered = DOMAIN heap
        /\ \A x \in DOMAIN heap : renumbered[x].raw = heap[x].raw
    BY <1>2, <1>3, <2>1, RenumberedFacts
  <2> QED BY <1>2, <2>2, Zenon
<1> HIDE DEF renumbered
<1>5. heap' \in Seq(Object) /\ Len(heap') <= MaxObjects /\ DOMAIN heap' = DOMAIN heap
  BY <1>1, <1>2, <1>4, Typed, RefreshedFacts
<1>6. file' \in [Page -> Raw]
  BY <1>1, <1>2, <1>3, <1>4, Typed, Fields
<1>7. held' \in [Session -> SUBSET (DOMAIN heap)] /\ torn' \in BOOLEAN /\ up' \in BOOLEAN
  BY <1>1, EndType, Typed
<1>8. reading' \in [Session -> [object: DOMAIN heap, out: DOMAIN heap] \cup {NotReading}]
  BY <1>1, ReadingsTyped
<1>9. thrown' \subseteq Session
  BY <1>1, Typed
<1> QED BY <1>1, <1>5, <1>6, <1>7, <1>8, <1>9, Typed, TypeInvNext

\* What writePage does with the objects.
LEMMA PutWriteType ==
    ASSUME TypeInv, NEW s \in Session, NEW objects \in Seq(Object),
           DOMAIN heap \subseteq DOMAIN objects, Len(objects) <= MaxObjects,
           NEW p \in Page, NEW o \in DOMAIN objects, PutWrite(s, objects, p, o)
    PROVE  /\ heap' \in Seq(Object) /\ Len(heap') <= MaxObjects /\ DOMAIN heap' = DOMAIN objects
           /\ pageCache' \in [Session -> LRU!Cache]
           /\ \A t \in Session : SoundCache(pageCache'[t])
           /\ \A t \in Session : Holds(pageCache'[t]) \subseteq DOMAIN heap'
           /\ file' \in [Page -> Raw]
<1> DEFINE out == LRU!PutReturns(pageCache[s], p, o)
<1>1. /\ pageCache' = [pageCache EXCEPT ![s] = LRU!Put(@, p, o)]
      /\ heap' = objects
      /\ file' = [file EXCEPT ![objects[out].index] = objects[out].raw]
  BY DEF PutWrite
<1>2. /\ pageCache' \in [Session -> LRU!Cache]
      /\ \A t \in Session : SoundCache(pageCache'[t])
      /\ \A t \in Session : Holds(pageCache'[t]) \subseteq DOMAIN objects
      /\ out \in DOMAIN objects
  BY <1>1, PutStep
<1> HIDE DEF out
<1>3. objects[out].raw \in Raw
  BY <1>2, HeapDomain, ObjectFields
<1> QED BY <1>1, <1>2, <1>3, Typed

\* A page that is given out joins the others.
LEMMA GivenOutType ==
    ASSUME TypeInv, NEW s \in Session, NEW objects \in Seq(Object),
           Len(objects) = Len(heap), DOMAIN objects = DOMAIN heap, NewId \in ObjectId,
           NEW kind \in NodeKind, NEW p \in Page,
           \E raw \in NewRaw(kind) : heap' = Append(objects, Made(p, raw, Empty(kind))),
           held' = [held EXCEPT ![s] = @ \cup {NewId}]
    PROVE  /\ heap' \in Seq(Object) /\ Len(heap') <= MaxObjects
           /\ DOMAIN heap \subseteq DOMAIN heap'
           /\ held' \in [Session -> SUBSET (DOMAIN heap')]
<1>1. PICK raw \in NewRaw(kind) : heap' = Append(objects, Made(p, raw, Empty(kind)))
  OBVIOUS
<1>2. raw \in Raw /\ Empty(kind) \in Content
  BY ObjectFields, ContentKinds
<1>3. NewId = Len(objects) + 1
  BY DEF NewId
<1>4. /\ heap' \in Seq(Object) /\ Len(heap') <= MaxObjects
      /\ DOMAIN heap' = DOMAIN heap \cup {NewId}
  BY <1>1, <1>2, <1>3, Joined
<1> QED BY <1>4, Typed

\* popFreePage keeps the types, with the node that it makes or the error it
\* throws.
LEMMA PopTypes ==
    ASSUME TypeInv, NEW s \in Session, NEW kind \in NodeKind, PopFreePage(s, kind)
    PROVE  TypeInv'
<1> DEFINE p == entity[s].firstFree
           o == CachedObject(s, p)
<1>1. p \in Page /\ header' = header
  BY Typed, EntityFields DEF PopFreePage
<1> HIDE DEF p
<1>2. CASE PopFree(s, kind)
  <2> DEFINE objects == Refreshed(heap, o)
  <2>1. /\ IsCached(s, p) /\ heap[o].raw.content.kind = "free" /\ NewId \in ObjectId
        /\ pageCache' = [pageCache EXCEPT ![s] = LRU!Got(@, p)]
        /\ entity' = [entity EXCEPT ![s].firstFree = heap[o].raw.content.data]
        /\ \E raw \in NewRaw(kind) : heap' = Append(objects, Made(p, raw, Empty(kind)))
        /\ held' = [held EXCEPT ![s] = @ \cup {NewId}]
        /\ reading' = reading /\ file' = file /\ thrown' = thrown /\ torn' = torn /\ up' = up
    BY <1>2 DEF PopFree, p
  <2>2. /\ pageCache' \in [Session -> LRU!Cache]
        /\ \A t \in Session : SoundCache(pageCache'[t])
        /\ \A t \in Session : Holds(pageCache'[t]) \subseteq DOMAIN heap
        /\ o \in DOMAIN heap
    BY <1>1, <2>1, GotStep
  <2> HIDE DEF o
  <2>3. objects \in Seq(Object) /\ Len(objects) = Len(heap) /\ DOMAIN objects = DOMAIN heap
    BY <2>2, Typed, RefreshedFacts
  <2> HIDE DEF objects
  <2>4. /\ heap' \in Seq(Object) /\ Len(heap') <= MaxObjects
        /\ DOMAIN heap \subseteq DOMAIN heap'
        /\ held' \in [Session -> SUBSET (DOMAIN heap')]
    BY <1>1, <2>1, <2>3, GivenOutType
  <2>5. heap[o].raw.content.data \in Page \cup {NoPage}
    BY <2>1, <2>2, Fields, ContentKinds
  <2>6. entity' \in [Session -> Entity]
    BY <2>1, <2>5, Typed, EntityFields
  <2>7. reading' \in [Session -> [object: DOMAIN heap', out: DOMAIN heap'] \cup {NotReading}]
    BY <2>1, <2>4, ReadingsTyped
  <2> QED BY <1>1, <2>1, <2>2, <2>4, <2>6, <2>7, Typed, TypeInvNext
<1>3. CASE PopOther(s) /\ UNCHANGED entity
  <2>1. /\ IsCached(s, p) /\ pageCache' = [pageCache EXCEPT ![s] = LRU!Got(@, p)]
        /\ heap' = Refreshed(heap, o) /\ file' = file /\ reading' = reading
        /\ Fail(s) \/ End
        /\ UNCHANGED thrown \/ thrown' = thrown \cup {s}
    BY <1>3 DEF PopOther, p
  <2>2. /\ pageCache' \in [Session -> LRU!Cache]
        /\ \A t \in Session : SoundCache(pageCache'[t])
        /\ \A t \in Session : Holds(pageCache'[t]) \subseteq DOMAIN heap
        /\ o \in DOMAIN heap
    BY <1>1, <2>1, GotStep
  <2> HIDE DEF o
  <2>3. heap' \in Seq(Object) /\ Len(heap') <= MaxObjects /\ DOMAIN heap' = DOMAIN heap
    BY <2>1, <2>2, Typed, RefreshedFacts
  <2>4. held' \in [Session -> SUBSET (DOMAIN heap)] /\ torn' \in BOOLEAN /\ up' \in BOOLEAN
    BY <2>1, EndType
  <2>5. reading' \in [Session -> [object: DOMAIN heap', out: DOMAIN heap'] \cup {NotReading}]
    BY <2>1, <2>3, ReadingsTyped
  <2>6. thrown' \subseteq Session
    BY <2>1, Typed
  <2> QED BY <1>1, <1>3, <2>1, <2>2, <2>3, <2>4, <2>5, <2>6, Typed, TypeInvNext
<1>4. CASE StartRead(s, p, "null", held[s]) /\ UNCHANGED <<entity, thrown>>
  <2>1. held[s] \in SUBSET (DOMAIN heap \cup {NewId})
    BY Typed
  <2> QED BY <1>1, <1>4, <2>1, StartReadType
<1>5. CASE ReadBreaks(s, p, "null") /\ UNCHANGED <<entity, thrown>>
  BY <1>1, <1>5, ReadBreaksType
<1> QED BY <1>2, <1>3, <1>4, <1>5 DEF PopFreePage, p

\* The end of a session, or of the process.
LEMMA EndTypes ==
    ASSUME TypeInv, Restart \/ \E s \in Session : Reopen(s)
    PROVE  TypeInv'
<1>1. LRU!EmptyCache \in LRU!Cache
  BY EmptyCacheFacts, SoundCacheFacts
<1>2. ASSUME NEW s \in Session, Reopen(s) PROVE TypeInv'
  <2>1. /\ pageCache' = [pageCache EXCEPT ![s] = LRU!EmptyCache]
        /\ entity' = [entity EXCEPT ![s] = Unloaded]
        /\ heap' = IF Session = {s} THEN <<>> ELSE heap
        /\ held[s] = {} /\ reading[s] = NotReading
        /\ UNCHANGED <<held, reading, file, header, thrown, torn, up>>
    BY <1>2 DEF Reopen, Running
  <2>2. /\ pageCache' \in [Session -> LRU!Cache]
        /\ pageCache'[s] = LRU!EmptyCache
        /\ \A t \in Session : t # s => pageCache'[t] = pageCache[t]
    BY <1>1, <2>1, Typed
  <2>3. /\ heap' \in Seq(Object) /\ Len(heap') <= MaxObjects
        /\ \A t \in Session : t # s => heap' = heap
    BY <2>1, Typed, BoundsAssumption
  <2>4. \A t \in Session : SoundCache(pageCache'[t])
    BY <2>2, Typed, EmptyCacheFacts
  <2>5. \A t \in Session : Holds(pageCache'[t]) \subseteq DOMAIN heap'
    BY <2>2, <2>3, Typed, EmptyCacheFacts
  <2>6. held' \in [Session -> SUBSET (DOMAIN heap')]
    BY <2>1, <2>3, Typed
  <2>7. entity' \in [Session -> Entity]
    BY <2>1, Typed, EntityFields
  <2>8. reading' \in [Session -> [object: DOMAIN heap', out: DOMAIN heap'] \cup {NotReading}]
    <3>1. reading \in [Session -> [object: DOMAIN heap, out: DOMAIN heap] \cup {NotReading}]
      BY ReadingsTyped
    <3>2. ASSUME NEW t \in Session
          PROVE  reading[t] \in [object: DOMAIN heap', out: DOMAIN heap'] \cup {NotReading}
      <4>1. CASE t = s
        BY <2>1, <4>1
      <4>2. CASE t # s
        <5>1. heap' = heap
          BY <2>3, <4>2
        <5> QED BY <3>1, <5>1
      <4> QED BY <4>1, <4>2
    <3> QED BY <2>1, <3>1, <3>2
  <2> QED BY <2>1, <2>2, <2>3, <2>4, <2>5, <2>6, <2>7, <2>8, Typed, TypeInvNext
<1>3. CASE Restart
  <2>1. /\ heap' = <<>> /\ pageCache' = [s \in Session |-> LRU!EmptyCache]
        /\ entity' = [s \in Session |-> Unloaded] /\ held' = [s \in Session |-> {}]
        /\ reading' = [s \in Session |-> NotReading]
        /\ torn' = (torn \/ \E s \in Session : Unsaved(s)) /\ up' = TRUE
        /\ UNCHANGED <<file, header, thrown>>
    BY <1>3 DEF Restart
  <2>2. heap' \in Seq(Object) /\ Len(heap') <= MaxObjects
    BY <2>1, BoundsAssumption
  <2>3. /\ pageCache' \in [Session -> LRU!Cache]
        /\ \A t \in Session : SoundCache(pageCache'[t])
        /\ \A t \in Session : Holds(pageCache'[t]) \subseteq DOMAIN heap'
    BY <1>1, <2>1, EmptyCacheFacts
  <2>4. entity' \in [Session -> Entity]
    BY <2>1, EntityFields
  <2>5. /\ held' \in [Session -> SUBSET (DOMAIN heap')]
        /\ reading' \in [Session -> [object: DOMAIN heap', out: DOMAIN heap'] \cup {NotReading}]
    BY <2>1
  <2>6. torn' \in BOOLEAN /\ up' \in BOOLEAN
    BY <2>1, Typed
  <2> QED BY <2>1, <2>2, <2>3, <2>4, <2>5, <2>6, Typed, TypeInvNext
<1> QED BY <1>2, <1>3

\* Every step keeps the types.
LEMMA TypeStep == TypeInv /\ [Next]_vars => TypeInv'
<1> SUFFICES ASSUME TypeInv, [Next]_vars PROVE TypeInv'
  OBVIOUS
<1>1. \A t \in Session : held[t] \subseteq DOMAIN heap
  BY Typed
<1>2. \A objects : DOMAIN heap \subseteq objects =>
         reading \in [Session -> [object: objects, out: objects] \cup {NotReading}]
  BY ReadingsTyped
<1>3. reading \in [Session -> [object: DOMAIN heap, out: DOMAIN heap] \cup {NotReading}]
  BY <1>2
<1>4. CASE Restart \/ \E s \in Session : Reopen(s)
  BY <1>4, EndTypes
<1>5. ASSUME NEW s \in Session, OpenEntity(s) PROVE TypeInv'
  BY <1>3, <1>5, Typed, TypeInvNext DEF OpenEntity
<1>6. ASSUME NEW s \in Session, SaveEntity(s) PROVE TypeInv'
  BY <1>3, <1>6, Typed, TypeInvNext DEF SaveEntity
<1>7. ASSUME NEW s \in Session, FinishRead(s) PROVE TypeInv'
  BY <1>7, FinishReadType
<1>8. ASSUME NEW s \in Session, NEW p \in Page, ReadPage(s, p) PROVE TypeInv'
  <2>1. held[s] \in SUBSET held[s] /\ held[s] \cup {NewId} \in SUBSET (DOMAIN heap \cup {NewId})
    BY <1>1
  <2> QED BY <1>8, <2>1, ReadCachedType, StartReadType, ReadBreaksType DEF ReadPage
<1>9. ASSUME NEW s \in Session, NEW o \in held[s], NEW p \in Page, ReadNextPage(s, o, p)
       PROVE  TypeInv'
  <2> DEFINE keep == held[s] \ {o}
  <2>1. keep \in SUBSET held[s] /\ keep \cup {NewId} \in SUBSET (DOMAIN heap \cup {NewId})
    BY <1>1
  <2>2. /\ \/ ReadCached(s, p, keep)
           \/ StartRead(s, p, PageType(heap[o]), keep \cup {NewId})
           \/ ReadBreaks(s, p, PageType(heap[o]))
        /\ UNCHANGED <<entity, header, thrown>>
    BY <1>9 DEF ReadNextPage
  <2> HIDE DEF keep
  <2> QED BY <2>1, <2>2, ReadCachedType, StartReadType, ReadBreaksType
<1>10. ASSUME NEW s \in Session, NEW kind \in NodeKind, ExtendFile(s, kind) PROVE TypeInv'
  <2> DEFINE p == entity[s].nPage
  <2>1. /\ p \in Page /\ NewId \in ObjectId
        /\ entity' = [entity EXCEPT ![s].nPage = p + 1]
        /\ \E raw \in NewRaw(kind) : heap' = Append(heap, Made(p, raw, Empty(kind)))
        /\ held' = [held EXCEPT ![s] = @ \cup {NewId}]
        /\ UNCHANGED <<pageCache, reading, file, header, thrown, torn, up>>
    BY <1>10 DEF ExtendFile
  <2>2. entity' \in [Session -> Entity]
    BY <2>1, Typed, EntityFields
  <2> HIDE DEF p
  <2>3. /\ heap' \in Seq(Object) /\ Len(heap') <= MaxObjects
        /\ DOMAIN heap \subseteq DOMAIN heap'
        /\ held' \in [Session -> SUBSET (DOMAIN heap')]
    BY <2>1, Typed, GivenOutType
  <2>4. \A t \in Session : Holds(pageCache[t]) \subseteq DOMAIN heap'
    BY <2>3, Typed
  <2>5. reading' \in [Session -> [object: DOMAIN heap', out: DOMAIN heap'] \cup {NotReading}]
    BY <1>2, <2>1, <2>3
  <2> QED BY <2>1, <2>2, <2>3, <2>4, <2>5, Typed, TypeInvNext
<1>11. ASSUME NEW s \in Session, NEW kind \in NodeKind, PopFreePage(s, kind) PROVE TypeInv'
  BY <1>11, PopTypes
<1>12. ASSUME NEW s \in Session, NEW o \in held[s], NEW v \in Value, EditPage(s, o, v)
       PROVE  TypeInv'
  <2> DEFINE new == Edited(heap, o, v)
  <2>1. heap' = new /\ heap[o].live.kind \in NodeKind /\ o \in DOMAIN heap
        /\ UNCHANGED <<pageCache, entity, held, reading, file, header, thrown, torn, up>>
    BY <1>1, <1>12 DEF EditPage, Edited
  <2>2. new \in Seq(Object) /\ Len(new) = Len(heap) /\ DOMAIN new = DOMAIN heap
    <3>1. heap \in Seq(Object)
      BY Typed
    <3> QED BY <2>1, <3>1, EditedFacts
  <2> HIDE DEF new
  <2> QED BY <1>3, <2>1, <2>2, Typed, TypeInvNext
<1>13. ASSUME NEW s \in Session, NEW o \in held[s], WritePage(s, o) PROVE TypeInv'
  <2> DEFINE new == [heap EXCEPT ![o].raw = Saved(heap[o])]
             p == heap[o].index
  <2>1. /\ o \in DOMAIN heap /\ PutWrite(s, new, p, o)
        /\ held' = [held EXCEPT ![s] = @ \ {o}]
        /\ UNCHANGED <<entity, reading, header, thrown, torn, up>>
    BY <1>1, <1>13 DEF WritePage
  <2>2. p \in Page
    BY <2>1, Fields
  <2>3. new \in Seq(Object) /\ Len(new) = Len(heap) /\ DOMAIN new = DOMAIN heap
    BY <2>1, Typed, SavedFacts
  <2> HIDE DEF new, p
  <2>4. /\ heap' \in Seq(Object) /\ Len(heap') <= MaxObjects /\ DOMAIN heap' = DOMAIN heap
        /\ pageCache' \in [Session -> LRU!Cache]
        /\ \A t \in Session : SoundCache(pageCache'[t])
        /\ \A t \in Session : Holds(pageCache'[t]) \subseteq DOMAIN heap'
        /\ file' \in [Page -> Raw]
    BY <2>1, <2>2, <2>3, Typed, PutWriteType
  <2>5. held' \in [Session -> SUBSET (DOMAIN heap')]
    BY <2>1, <2>4, Typed
  <2> QED BY <1>3, <2>1, <2>4, <2>5, Typed, TypeInvNext
<1>14. ASSUME NEW s \in Session, NEW o \in held[s], FreePage(s, o) PROVE TypeInv'
  <2> DEFINE p == heap[o].index
             next == entity[s].firstFree
             x == Made(p, FreeRaw(next), Free(next))
             new == Append(heap, x)
  <2>1. /\ o \in DOMAIN heap /\ PutWrite(s, new, p, NewId)
        /\ NewId \in ObjectId
        /\ entity' = [entity EXCEPT ![s].firstFree = p]
        /\ held' = [held EXCEPT ![s] = @ \ {o}]
        /\ UNCHANGED <<reading, header, thrown, torn, up>>
    BY <1>1, <1>14 DEF FreePage
  <2>2. p \in Page /\ next \in Page \cup {NoPage}
    BY <2>1, Fields, Typed, EntityFields
  <2>3. entity' \in [Session -> Entity]
    BY <2>1, <2>2, Typed, EntityFields
  <2>4. x \in Object
    BY <2>2, ContentKinds, ObjectFields, MadeFields
  <2> HIDE DEF x, p
  <2>5. /\ new \in Seq(Object) /\ Len(new) = NewId
        /\ DOMAIN new = DOMAIN heap \cup {NewId}
    BY <2>4, Typed, NewObject DEF NewId
  <2>6. Len(new) <= MaxObjects
    BY <2>1, <2>5 DEF ObjectId
  <2> HIDE DEF new
  <2>7. /\ heap' \in Seq(Object) /\ Len(heap') <= MaxObjects
        /\ DOMAIN heap' = DOMAIN heap \cup {NewId}
        /\ pageCache' \in [Session -> LRU!Cache]
        /\ \A t \in Session : SoundCache(pageCache'[t])
        /\ \A t \in Session : Holds(pageCache'[t]) \subseteq DOMAIN heap'
        /\ file' \in [Page -> Raw]
    BY <2>1, <2>2, <2>5, <2>6, PutWriteType
  <2>8. held' \in [Session -> SUBSET (DOMAIN heap')]
    BY <2>1, <2>7, Typed
  <2>9. reading' \in [Session -> [object: DOMAIN heap', out: DOMAIN heap'] \cup {NotReading}]
    BY <1>2, <2>1, <2>7
  <2> QED BY <2>1, <2>3, <2>7, <2>8, <2>9, Typed, TypeInvNext
<1>15. ASSUME NEW s \in Session, NEW o \in held[s], DropPage(s, o) PROVE TypeInv'
  <2>1. held' = [held EXCEPT ![s] = @ \ {o}]
        /\ UNCHANGED <<heap, pageCache, entity, reading, file, header, thrown, torn, up>>
    BY <1>15 DEF DropPage
  <2>2. held' \in [Session -> SUBSET (DOMAIN heap')]
    BY <2>1, Typed
  <2> QED BY <1>3, <2>1, <2>2, Typed, TypeInvNext
<1>16. CASE UNCHANGED vars
  BY <1>16 DEF vars, TypeInv, TypeOK, Allocated
<1> QED
  BY <1>4, <1>5, <1>6, <1>7, <1>8, <1>9, <1>10, <1>11, <1>12, <1>13, <1>14, <1>15, <1>16
  DEF Next, SessionStep

\* The invariant holds in every reachable state.
LEMMA AlwaysTyped == Spec => []TypeInv
<1>1. Init => TypeInv
  <2> SUFFICES ASSUME Init PROVE TypeInv
    OBVIOUS
  <2>1. LRU!EmptyCache \in LRU!Cache
    BY EmptyCacheFacts, SoundCacheFacts
  <2>2. [type |-> "other", content |-> Unwritten] \in Raw
    BY ContentKinds DEF Raw, TypeByte
  <2>3. /\ heap \in Seq(Object) /\ Len(heap) <= MaxObjects
        /\ pageCache \in [Session -> LRU!Cache] /\ held \in [Session -> SUBSET ObjectId]
        /\ reading \in [Session -> [object: ObjectId, out: ObjectId] \cup {NotReading}]
    BY <2>1, BoundsAssumption DEF Init
  <2>4. /\ entity \in [Session -> Entity] /\ file \in [Page -> Raw] /\ header \in Entity
        /\ thrown \subseteq Session /\ torn \in BOOLEAN /\ up \in BOOLEAN
    BY <2>2, EntityFields DEF Init
  <2>5. Allocated
    BY EmptyCacheFacts DEF Init, Allocated
  <2> QED BY <2>3, <2>4, <2>5 DEF TypeInv, TypeOK
<1> QED BY <1>1, TypeStep, PTL DEF Spec

\* Page objects, caches, entities and files have their types in every reachable
\* state, evictions and ends of the process included.
THEOREM TypeCorrect == Spec => []TypeOK
<1>1. TypeInv => TypeOK
  BY DEF TypeInv
<1> QED BY <1>1, AlwaysTyped, PTL

-----------------------------------------------------------------------------
(* What is cached, when the cache is larger than the table *)

\* A get changes nothing that later reads find.
LEMMA GotKeeps ==
    ASSUME TypeInv, NEW s \in Session, NEW p \in Page, IsCached(s, p),
           pageCache' = [pageCache EXCEPT ![s] = LRU!Got(@, p)]
    PROVE  \A q \in Page :
              /\ IsCached(s, q)' = IsCached(s, q)
              /\ IsCached(s, q) => CachedObject(s, q)' = CachedObject(s, q)
<1> DEFINE c == LRU!Got(pageCache[s], p)
<1>1. pageCache' = [pageCache EXCEPT ![s] = c] /\ pageCache \in [Session -> LRU!Cache]
  BY Typed
<1>2. /\ \A q \in Page : LRU!Contains(c, q) <=> LRU!Contains(pageCache[s], q)
      /\ \A q \in Page : LRU!Contains(pageCache[s], q) =>
            LRU!GetReturns(c, q) = LRU!GetReturns(pageCache[s], q)
  BY GotFacts DEF TypeInv, Allocated, IsCached
<1>3. \A q \in Page : LRU!Contains(c, q) = LRU!Contains(pageCache[s], q)
  BY <1>2 DEF LRU!Contains
<1> HIDE DEF c
<1> QED BY <1>1, <1>2, <1>3 DEF IsCached, CachedObject

\* A put with room adds its page to those of its session.
LEMMA PutKeeps ==
    ASSUME Roomy, TypeInv, NEW s \in Session, NEW p \in Page, NEW o \in ObjectId,
           pageCache' = [pageCache EXCEPT ![s] = LRU!Put(@, p, o)]
    PROVE  /\ IsCached(s, p)' /\ CachedObject(s, p)' = o
           /\ LRU!PutReturns(pageCache[s], p, o) = o
           /\ \A q \in Page : q # p =>
                 /\ IsCached(s, q)' <=> IsCached(s, q)
                 /\ IsCached(s, q) => CachedObject(s, q)' = CachedObject(s, q)
<1> DEFINE c == LRU!Put(pageCache[s], p, o)
<1>1. pageCache' = [pageCache EXCEPT ![s] = c] /\ pageCache \in [Session -> LRU!Cache]
  BY Typed
<1>2. /\ LRU!PutReturns(pageCache[s], p, o) = o
      /\ \A q \in Page : LRU!Contains(c, q) <=> q = p \/ LRU!Contains(pageCache[s], q)
      /\ LRU!GetReturns(c, p) = o
      /\ \A q \in Page : q # p /\ LRU!Contains(pageCache[s], q) =>
            LRU!GetReturns(c, q) = LRU!GetReturns(pageCache[s], q)
  BY PutRoomyFacts DEF TypeInv, Allocated
<1> HIDE DEF c
<1>3. IsCached(s, p)' /\ CachedObject(s, p)' = o
  BY <1>1, <1>2 DEF IsCached, CachedObject
<1>4. ASSUME NEW q \in Page, q # p
      PROVE  /\ IsCached(s, q)' <=> IsCached(s, q)
             /\ IsCached(s, q) => CachedObject(s, q)' = CachedObject(s, q)
  BY <1>1, <1>2, <1>4 DEF IsCached, CachedObject
<1> QED BY <1>2, <1>3, <1>4

\* The object of a cached page has been made.
LEMMA CachedMade ==
    ASSUME TypeInv, NEW s \in Session, NEW p \in Page, IsCached(s, p)
    PROVE  CachedObject(s, p) \in DOMAIN heap
BY SoundCacheFacts DEF TypeInv, Allocated, IsCached, CachedObject

-----------------------------------------------------------------------------
(* The invariant of one session at a time *)

\* Nodes without bytes of their own on the disk.
Fragile == {"internal", "lost"}

\* Leaves and free pages are always under their own first byte.
Marked(raw) == /\ raw.content.kind = "leaf" => raw.type = "leaf"
               /\ raw.content.kind = "free" => raw.type = "free"

BytesMarked == /\ \A p \in Page : Marked(file[p])
               /\ \A o \in DOMAIN heap : Marked(heap[o].raw)

\* The object of a cached page has its index and the bytes of its block, unless
\* a read is about to write an internal node's lost bytes there.
CacheAgrees(s) ==
    \A p \in Page : IsCached(s, p) =>
        LET o == CachedObject(s, p)
        IN /\ heap[o].index = p
           /\ \/ heap[o].raw = file[p]
              \/ /\ o = reading[s].object
                 /\ heap[o].raw.content = Lost
                 /\ file[p].content.kind \in Fragile

\* A read writes the object it has put into the cache.  In order, the object is
\* on its way to the thread: popFreePage finds its page in the cache.
ReadingAgrees(s) ==
    reading[s] # NotReading =>
        LET o == reading[s].object
            p == heap[o].index
        IN /\ reading[s].out = o
           /\ IsCached(s, p) /\ CachedObject(s, p) = o
           /\ torn \/ o \in held[s]

\* The thread holds pages of the tree; only a read loses one.
HeldAgree(s) ==
    /\ ~entity[s].loaded => held[s] = {}
    /\ \A o \in held[s] :
          /\ heap[o].raw.content \in TreeContent
          /\ \/ o = reading[s].object
             \/ /\ heap[o].live \in TreeContent
                /\ heap[o].live = Lost => heap[o].raw.content = Lost

\* What holds of the session whatever was lost before.
Basics(s) ==
    /\ header.loaded
    /\ BytesMarked /\ CacheAgrees(s) /\ ReadingAgrees(s) /\ HeldAgree(s)

InTree(p) == file[p].content.kind \in TreeKind

\* The held pages are different; one that has been written is the one in the
\* cache, and one that has not is a node.
HandlesAgree(s) ==
    /\ \A o, x \in held[s] : heap[o].index = heap[x].index => o = x
    /\ \A o \in held[s] :
          IF InTree(heap[o].index)
          THEN IsCached(s, heap[o].index) /\ CachedObject(s, heap[o].index) = o
          ELSE heap[o].live \in Node

HeldPages(s) == {heap[o].index : o \in held[s]}

\* The list of free pages, from its last page to its head: different pages,
\* each linked to the one before.
IsFreeList(n, list, first) ==
    /\ list \in [1..n -> Page]
    /\ \A i, j \in 1..n : list[i] = list[j] => i = j
    /\ first = IF n = 0 THEN NoPage ELSE list[n]
    /\ \A i \in 1..n : file[list[i]].content.kind = "free"
    /\ \A i \in 1..n : file[list[i]].content.data = IF i = 1 THEN NoPage ELSE list[i - 1]

\* Every page below nPage is in the tree, held, or on the list of free pages,
\* and not both held and on the list.
Divides(s, n, list) ==
    /\ \A p \in Page : p < Current(s).nPage <=>
          \/ InTree(p) \/ p \in HeldPages(s)
          \/ \E i \in 1..n : list[i] = p
    /\ \A i \in 1..n : list[i] \notin HeldPages(s)

PagesDivided(s) ==
    \E n \in Nat : \E list \in [1..n -> Page] :
        IsFreeList(n, list, Current(s).firstFree) /\ Divides(s, n, list)

\* What holds while nothing was lost by a statement that did not come to its
\* end.
Orderly(s) == thrown = {} /\ HandlesAgree(s) /\ PagesDivided(s)

OneInv(s) == Basics(s) /\ (~torn => Orderly(s))

\* What is known of the state while one session runs.
LEMMA Known ==
    ASSUME TypeInv, NEW s \in Session, OneInv(s)
    PROVE  /\ Current(s) \in Entity /\ header.loaded
           /\ \A q \in Page : IsCached(s, q) =>
                 CachedObject(s, q) \in DOMAIN heap /\ heap[CachedObject(s, q)].index = q
           /\ held[s] # {} => entity[s].loaded
           /\ reading[s].object \in DOMAIN heap <=> reading[s] # NotReading
<1>1. header.loaded /\ header \in Entity /\ entity \in [Session -> Entity]
  BY Typed DEF OneInv, Basics
<1>2. Current(s) \in Entity
  BY <1>1 DEF Current
<1>3. \A q \in Page : IsCached(s, q) =>
         CachedObject(s, q) \in DOMAIN heap /\ heap[CachedObject(s, q)].index = q
  BY CachedMade DEF OneInv, Basics, CacheAgrees
<1>4. held[s] # {} => entity[s].loaded
  BY DEF OneInv, Basics, HeldAgree
<1>5. NoObject \notin DOMAIN heap
  BY Typed, HeapDomain DEF NoObject
<1>6. reading[s].object \in DOMAIN heap <=> reading[s] # NotReading
  BY <1>5, Typed DEF NotReading
<1> QED BY <1>1, <1>2, <1>3, <1>4, <1>6

\* What the session finds for a page is in the file, but for a page being read;
\* a page of the tree is one in both, and so is a free page.
LEMMA Found ==
    ASSUME TypeInv, NEW s \in Session, OneInv(s)
    PROVE  /\ \A q \in Page : LatestKind(s, q) \in TreeKind <=> InTree(q)
           /\ \A q \in Page : file[q].content.kind = "free" \/ LatestKind(s, q) = "free"
                 => Latest(s, q) = file[q]
           /\ \A q \in Page : Latest(s, q) = file[q] \/
                 (reading[s] # NotReading /\ heap[reading[s].object].index = q)
<1> SUFFICES ASSUME NEW q \in Page
             PROVE  /\ LatestKind(s, q) \in TreeKind <=> InTree(q)
                    /\ file[q].content.kind = "free" \/ LatestKind(s, q) = "free"
                          => Latest(s, q) = file[q]
                    /\ Latest(s, q) = file[q] \/
                          (reading[s] # NotReading /\ heap[reading[s].object].index = q)
  OBVIOUS
<1>1. CASE Latest(s, q) = file[q]
  BY <1>1 DEF LatestKind, InTree
<1>2. CASE Latest(s, q) # file[q]
  <2> DEFINE o == CachedObject(s, q)
  <2>1. IsCached(s, q) /\ Latest(s, q) = heap[o].raw
    BY <1>2 DEF Latest
  <2>2. /\ o = reading[s].object /\ heap[o].raw.content = Lost
        /\ file[q].content.kind \in Fragile
    BY <1>2, <2>1 DEF OneInv, Basics, CacheAgrees
  <2>3. o \in DOMAIN heap /\ heap[o].index = q
    BY <2>1, Known
  <2>4. Lost.kind = "lost" /\ "lost" \in TreeKind /\ Fragile \subseteq TreeKind
        /\ "free" \notin Fragile
    BY DEF Lost, TreeKind, NodeKind, Fragile
  <2>5. LatestKind(s, q) = "lost"
    BY <2>1, <2>2, <2>4 DEF LatestKind
  <2>6. reading[s] # NotReading /\ heap[reading[s].object].index = q
    BY <2>2, <2>3, Known
  <2> QED BY <2>2, <2>4, <2>5, <2>6 DEF InTree
<1> QED BY <1>1, <1>2

\* A held object is a page object, of a page of the file.
LEMMA HeldMade ==
    ASSUME TypeInv, NEW s \in Session, NEW o \in held[s]
    PROVE  /\ o \in DOMAIN heap /\ heap[o].index \in Page /\ heap[o].raw \in Raw
           /\ o # NewId
           /\ OneInv(s) /\ Written(s, o) => InTree(heap[o].index)
<1>1. o \in DOMAIN heap /\ heap[o].index \in Page /\ heap[o].raw \in Raw
  BY Typed, Fields
<1>2. NewId \notin DOMAIN heap
  BY Typed, HeapDomain DEF NewId
<1>3. OneInv(s) /\ Written(s, o) => InTree(heap[o].index)
  BY <1>1, Found DEF Written
<1> QED BY <1>1, <1>2, <1>3

\* The pages that a step leaves divided.
LEMMA StillDivided ==
    ASSUME TypeInv, NEW s \in Session, PagesDivided(s), Current(s)' = Current(s),
           \A q \in Page : InTree(q)' \/ q \in HeldPages(s)' <=> InTree(q) \/ q \in HeldPages(s),
           \A q \in Page : file[q].content.kind = "free" /\ q \notin HeldPages(s) =>
              file'[q].content = file[q].content /\ q \notin HeldPages(s)'
    PROVE  PagesDivided(s)'
<1>1. PICK n \in Nat : \E list \in [1..n -> Page] :
         IsFreeList(n, list, Current(s).firstFree) /\ Divides(s, n, list)
  BY DEF PagesDivided
<1>2. PICK list \in [1..n -> Page] :
         IsFreeList(n, list, Current(s).firstFree) /\ Divides(s, n, list)
  BY <1>1
<1>3. \A i \in 1..n : /\ file'[list[i]].content = file[list[i]].content
                      /\ list[i] \notin HeldPages(s)'
  BY <1>2 DEF IsFreeList, Divides
<1>4. IsFreeList(n, list, Current(s).firstFree)'
  BY <1>2, <1>3 DEF IsFreeList
<1>5. ASSUME NEW p \in Page
      PROVE  p < Current(s).nPage <=> \/ InTree(p)' \/ p \in HeldPages(s)'
                                      \/ \E i \in 1..n : list[i] = p
  <2>1. p < Current(s).nPage <=> \/ InTree(p) \/ p \in HeldPages(s)
                                 \/ \E i \in 1..n : list[i] = p
    BY <1>2 DEF Divides
  <2> QED BY <2>1
<1>6. Divides(s, n, list)'
  BY <1>3, <1>5 DEF Divides
<1> QED BY <1>4, <1>6 DEF PagesDivided

\* The handles that a step leaves in order, when it is about page p and its
\* object o.
LEMMA HandlesNext ==
    ASSUME TypeInv, NEW s \in Session, HandlesAgree(s), NEW keep \in SUBSET held[s],
           NEW o, NEW p \in Page,
           held'[s] \subseteq keep \cup {o},
           \A x \in keep : heap[x].index # p,
           \A x \in keep : heap'[x] = heap[x],
           \A q \in Page : q # p =>
              /\ InTree(q)' <=> InTree(q)
              /\ IsCached(s, q) => IsCached(s, q)' /\ CachedObject(s, q)' = CachedObject(s, q),
           o \in held'[s] => heap'[o].index = p,
           o \in held'[s] /\ InTree(p)' => IsCached(s, p)' /\ CachedObject(s, p)' = o,
           o \in held'[s] /\ ~InTree(p)' => heap'[o].live \in Node
    PROVE  HandlesAgree(s)'
<1>1. \A x \in keep : heap[x].index \in Page
  BY HeldMade
<1>2. \A x, y \in held'[s] : heap'[x].index = heap'[y].index => x = y
  BY DEF HandlesAgree
<1>3. ASSUME NEW x \in held'[s]
      PROVE  \A q \in Page : q = heap'[x].index =>
                IF InTree(q)' THEN IsCached(s, q)' /\ CachedObject(s, q)' = x
                ELSE heap'[x].live \in Node
  <2>1. CASE x = o
    BY <2>1
  <2>2. CASE x \in keep
    <3>1. heap'[x] = heap[x] /\ heap[x].index # p /\ heap[x].index \in Page
      BY <1>1, <2>2
    <3>2. \A q \in Page : q = heap[x].index =>
             IF InTree(q) THEN IsCached(s, q) /\ CachedObject(s, q) = x
             ELSE heap[x].live \in Node
      BY <2>2 DEF HandlesAgree
    <3> QED BY <3>1, <3>2
  <2> QED BY <2>1, <2>2
<1>4. \A x \in held'[s] : heap'[x].index \in Page
  BY <1>1
<1> QED BY <1>2, <1>3, <1>4 DEF HandlesAgree, InTree, IsCached, CachedObject

\* The cache that a step about page p leaves in agreement with the file.
LEMMA CacheNext ==
    ASSUME TypeInv, NEW s \in Session, OneInv(s), NEW p \in Page,
           reading[s] = NotReading \/ heap[reading[s].object].index = p,
           \A q \in Page : q # p =>
              /\ file'[q] = file[q]
              /\ IsCached(s, q)' => IsCached(s, q) /\ CachedObject(s, q)' = CachedObject(s, q)
              /\ IsCached(s, q) => /\ heap'[CachedObject(s, q)].index = heap[CachedObject(s, q)].index
                                   /\ heap'[CachedObject(s, q)].raw = heap[CachedObject(s, q)].raw,
           NEW o, IsCached(s, p)' => CachedObject(s, p)' = o /\ heap'[o].index = p,
           IsCached(s, p)' =>
              \/ heap'[o].raw = file'[p]
              \/ /\ o = reading'[s].object /\ heap'[o].raw.content = Lost
                 /\ file'[p].content.kind \in Fragile
    PROVE  CacheAgrees(s)'
<1> SUFFICES ASSUME NEW q \in Page, IsCached(s, q)'
             PROVE  /\ heap'[CachedObject(s, q)'].index = q
                    /\ \/ heap'[CachedObject(s, q)'].raw = file'[q]
                       \/ /\ CachedObject(s, q)' = reading'[s].object
                          /\ heap'[CachedObject(s, q)'].raw.content = Lost
                          /\ file'[q].content.kind \in Fragile
  BY DEF CacheAgrees
<1>1. CASE q = p
  BY <1>1 DEF IsCached, CachedObject
<1>2. CASE q # p
  <2>1. IsCached(s, q) /\ CachedObject(s, q)' = CachedObject(s, q) /\ file'[q] = file[q]
    BY <1>2
  <2>2. heap[CachedObject(s, q)].index = q /\ CachedObject(s, q) \in DOMAIN heap
    BY <2>1, Known
  <2>3. CachedObject(s, q) # reading[s].object
    BY <1>2, <2>2, Known
  <2>4. heap[CachedObject(s, q)].raw = file[q]
    BY <2>1, <2>3 DEF OneInv, Basics, CacheAgrees
  <2> QED BY <1>2, <2>1, <2>2, <2>4
<1> QED BY <1>1, <1>2

-----------------------------------------------------------------------------
(* The steps of the only session *)

\* A step that changes no page, no cached page and no read.
LEMMA NothingMoved ==
    ASSUME TypeInv, NEW s \in Session, OneInv(s),
           UNCHANGED <<heap, pageCache, reading, file, thrown>>, header'.loaded,
           Current(s)' = Current(s), held'[s] \subseteq held[s], torn => torn',
           entity'[s].loaded \/ held'[s] = {},
           held'[s] = held[s] \/ reading[s] = NotReading,
           ~torn' => \A y \in held[s] \ held'[s] : InTree(heap[y].index)
    PROVE  OneInv(s)'
<1>1. CacheAgrees(s)'
  BY DEF OneInv, Basics, CacheAgrees, IsCached, CachedObject
<1>2. ReadingAgrees(s)' /\ BytesMarked'
  BY DEF OneInv, Basics, ReadingAgrees, IsCached, CachedObject, BytesMarked
<1>3. HeldAgree(s)'
  BY DEF OneInv, Basics, HeldAgree
<1>4. ASSUME ~torn' PROVE Orderly(s)'
  <2>1. Orderly(s)
    BY <1>4 DEF OneInv
  <2>2. HandlesAgree(s)'
    BY <2>1 DEF Orderly, HandlesAgree, InTree, IsCached, CachedObject
  <2>3. \A q \in Page : InTree(q)' <=> InTree(q)
    BY DEF InTree
  <2>4. \A q \in Page : q \in HeldPages(s)' => q \in HeldPages(s)
    BY DEF HeldPages
  <2>5. \A q \in Page : q \in HeldPages(s) => q \in HeldPages(s)' \/ InTree(q)
    BY <1>4 DEF HeldPages
  <2>6. PagesDivided(s)'
    BY <2>1, <2>3, <2>4, <2>5, StillDivided DEF Orderly
  <2> QED BY <2>1, <2>2, <2>6 DEF Orderly
<1> QED BY <1>1, <1>2, <1>3, <1>4 DEF OneInv, Basics

\* What an error or the end of the process leaves the session.
LEMMA EndFacts ==
    ASSUME TypeInv, NEW s \in Session, OneInv(s), Fail(s) \/ End
    PROVE  /\ held'[s] = held[s] \/ held'[s] = {}
           /\ torn => torn'
           /\ torn' \in {torn, TRUE}
           /\ ~torn' => \A y \in held[s] \ held'[s] : InTree(heap[y].index)
<1>1. CASE Fail(s)
  <2>1. held'[s] = {} /\ torn' = (torn \/ \E o \in held[s] : ~Written(s, o))
    BY <1>1, Typed DEF Fail
  <2>2. ~torn' => \A y \in held[s] : InTree(heap[y].index)
    BY <2>1, HeldMade
  <2>3. torn \in BOOLEAN
    BY Typed
  <2>4. (torn => torn') /\ torn' \in {torn, TRUE}
    BY <2>1, <2>3
  <2> QED BY <2>1, <2>2, <2>4
<1>2. CASE End
  BY <1>2 DEF End
<1> QED BY <1>1, <1>2

\* getEntity and saveEntity, and the end of a session.
LEMMA EntitySteps ==
    ASSUME TypeInv, NEW s \in Session, OneInv(s), OpenEntity(s) \/ SaveEntity(s) \/ Reopen(s)
    PROVE  OneInv(s)' /\ Current(s)' = Current(s)
<1>1. CASE OpenEntity(s)
  <2>1. /\ entity' = [entity EXCEPT ![s] = header] /\ ~entity[s].loaded
        /\ UNCHANGED <<heap, pageCache, held, reading, file, header, thrown, torn>>
    BY <1>1 DEF OpenEntity
  <2>2. entity'[s] = header
    BY <2>1, Typed
  <2>3. Current(s)' = Current(s) /\ header'.loaded /\ entity'[s].loaded
    BY <2>1, <2>2, Known DEF Current
  <2> QED BY <2>1, <2>3, NothingMoved
<1>2. CASE SaveEntity(s)
  <2>1. /\ header' = entity[s] /\ entity[s].loaded
        /\ UNCHANGED <<heap, pageCache, entity, held, reading, file, thrown, torn>>
    BY <1>2 DEF SaveEntity
  <2>2. Current(s)' = Current(s) /\ header'.loaded
    BY <2>1 DEF Current
  <2> QED BY <2>1, <2>2, NothingMoved
<1>3. CASE Reopen(s)
  <2>1. /\ held[s] = {} /\ entity[s] = header /\ reading[s] = NotReading
        /\ pageCache' = [pageCache EXCEPT ![s] = LRU!EmptyCache]
        /\ entity' = [entity EXCEPT ![s] = Unloaded]
        /\ heap' = <<>> \/ heap' = heap
        /\ UNCHANGED <<held, reading, file, header, thrown, torn>>
    BY <1>3 DEF Reopen, Running
  <2>2. pageCache'[s] = LRU!EmptyCache /\ entity'[s] = Unloaded
    BY <2>1, Typed
  <2>3. Current(s)' = Current(s) /\ header'.loaded
    BY <2>1, <2>2, Known DEF Current, Unloaded, NewEntity
  <2>4. \A q \in Page : ~IsCached(s, q)'
    BY <2>2, EmptyCacheFacts DEF IsCached
  <2>5. CacheAgrees(s)' /\ ReadingAgrees(s)' /\ HeldAgree(s)'
    BY <2>1, <2>4 DEF CacheAgrees, ReadingAgrees, HeldAgree
  <2>6. BytesMarked'
    BY <2>1 DEF OneInv, Basics, BytesMarked
  <2>7. ASSUME ~torn' PROVE Orderly(s)'
    <3>1. Orderly(s)
      BY <2>1, <2>7 DEF OneInv
    <3>2. HandlesAgree(s)' /\ HeldPages(s)' = {} /\ HeldPages(s) = {}
      BY <2>1 DEF HandlesAgree, HeldPages
    <3>3. PagesDivided(s)'
      BY <2>1, <2>3, <3>1, <3>2, StillDivided DEF Orderly, InTree
    <3> QED BY <2>1, <3>1, <3>2, <3>3 DEF Orderly
  <2> QED BY <2>3, <2>5, <2>6, <2>7 DEF OneInv, Basics
<1> QED BY <1>1, <1>2, <1>3

\* The process ends and starts again.
LEMMA RestartStep ==
    ASSUME TypeInv, NEW s \in Session, OneInv(s), Restart
    PROVE  /\ OneInv(s)' /\ file' = file /\ header' = header
           /\ Current(s)' = header /\ torn' \in BOOLEAN
           /\ ~torn' => ~torn /\ Current(s) = header
<1>1. /\ pageCache'[s] = LRU!EmptyCache /\ entity'[s] = Unloaded /\ heap' = <<>>
      /\ held'[s] = {} /\ reading'[s] = NotReading
      /\ torn' = (torn \/ \E t \in Session : Unsaved(t))
      /\ UNCHANGED <<file, header, thrown>>
  BY DEF Restart
<1>2. Current(s)' = header /\ header'.loaded
  BY <1>1, Known DEF Current, Unloaded, NewEntity
<1>3. \A q \in Page : ~IsCached(s, q)'
  BY <1>1, EmptyCacheFacts DEF IsCached
<1>4. CacheAgrees(s)' /\ ReadingAgrees(s)' /\ HeldAgree(s)'
  BY <1>1, <1>3 DEF CacheAgrees, ReadingAgrees, HeldAgree
<1>5. BytesMarked'
  BY <1>1 DEF OneInv, Basics, BytesMarked
<1>6. ASSUME ~torn' PROVE ~torn /\ Current(s) = header /\ \A o \in held[s] : Written(s, o)
  <2>1. ~torn /\ ~Unsaved(s)
    BY <1>1, <1>6
  <2> QED BY <2>1 DEF Unsaved, Current
<1>7. ASSUME ~torn' PROVE Orderly(s)'
  <2>1. Orderly(s) /\ \A o \in held[s] : InTree(heap[o].index)
    BY <1>6, <1>7, HeldMade DEF OneInv
  <2>2. HandlesAgree(s)' /\ HeldPages(s)' = {}
    BY <1>1 DEF HandlesAgree, HeldPages
  <2>3. \A q \in Page : (InTree(q)' <=> InTree(q)) /\ (q \in HeldPages(s) => InTree(q))
    BY <1>1, <2>1 DEF InTree, HeldPages
  <2>4. Current(s)' = Current(s)
    BY <1>2, <1>6, <1>7
  <2>5. PagesDivided(s)'
    BY <1>1, <2>1, <2>2, <2>3, <2>4, StillDivided DEF Orderly
  <2> QED BY <1>1, <2>1, <2>2, <2>5 DEF Orderly
<1>8. torn' \in BOOLEAN
  BY <1>1, Typed
<1> QED BY <1>1, <1>2, <1>4, <1>5, <1>6, <1>7, <1>8 DEF OneInv, Basics

\* readPage of a page that is cached.
LEMMA ReadCachedStep ==
    ASSUME TypeInv, NEW s \in Session, OneInv(s), NEW p \in Page,
           NEW keep \in SUBSET held[s], reading[s] = NotReading, entity[s].loaded,
           Readable(s, p), ReadCached(s, p, keep), UNCHANGED <<entity, header, thrown>>,
           \A y \in held[s] \ keep : InTree(heap[y].index)
    PROVE  OneInv(s)' /\ torn' \in {torn, TRUE}
<1> DEFINE o == CachedObject(s, p)
<1>1. /\ IsCached(s, p) /\ pageCache' = [pageCache EXCEPT ![s] = LRU!Got(@, p)]
      /\ heap' = Refreshed(heap, o) /\ reading' = reading /\ file' = file
      /\ \/ held' = [held EXCEPT ![s] = keep \cup {o}] /\ UNCHANGED <<torn, up>>
         \/ Fail(s) \/ End
  BY DEF ReadCached, Junk
<1>2. o \in DOMAIN heap /\ heap[o].index = p
  BY <1>1, Known
<1>3. \A q \in Page : /\ IsCached(s, q)' = IsCached(s, q)
                      /\ IsCached(s, q) => CachedObject(s, q)' = CachedObject(s, q)
  BY <1>1, GotKeeps
<1>4. IsCached(s, p)' /\ CachedObject(s, p)' = o
  BY <1>1, <1>3
<1>5. /\ \A x \in held[s] : x \in DOMAIN heap /\ heap[x].index # p
      /\ LatestKind(s, p) \in TreeKind /\ InTree(p)
  BY HeldMade, Found DEF Readable
<1>6. Latest(s, p) = heap[o].raw
  BY <1>1 DEF Latest
<1> HIDE DEF o
<1>7. /\ DOMAIN heap' = DOMAIN heap
      /\ \A x \in DOMAIN heap : heap'[x].index = heap[x].index /\ heap'[x].raw = heap[x].raw
      /\ \A x \in DOMAIN heap : x # o => heap'[x] = heap[x]
      /\ heap'[o].live = heap[o].raw.content
  BY <1>1, <1>2, Typed, RefreshedFacts
<1>8. \A x \in held[s] : heap'[x] = heap[x]
  BY <1>2, <1>5, <1>7
<1>9. /\ torn' \in {torn, TRUE} /\ (torn => torn')
      /\ held'[s] \subseteq held[s] \cup {o}
      /\ ~torn' => \A y \in held[s] \ held'[s] : InTree(heap[y].index)
  <2>1. CASE held' = [held EXCEPT ![s] = keep \cup {o}] /\ UNCHANGED <<torn, up>>
    <3>1. held'[s] = keep \cup {o}
      BY <2>1, Typed
    <3> QED BY <2>1, <3>1
  <2> QED BY <1>1, <2>1, EndFacts
<1>10. CacheAgrees(s)'
  <2>1. heap'[o].index = p /\ heap'[o].raw = heap[o].raw
    BY <1>2, <1>7
  <2>2. heap[o].raw = file[p]
    <3>1. \/ heap[o].raw = file[p]
          \/ o = reading[s].object
      BY <1>1 DEF o, OneInv, Basics, CacheAgrees
    <3> QED BY <1>2, <3>1, Known
  <2> QED BY <1>1, <1>3, <1>4, <1>7, <2>1, <2>2, Known, CacheNext
<1>11. ReadingAgrees(s)' /\ BytesMarked'
  BY <1>1, <1>7 DEF ReadingAgrees, OneInv, Basics, BytesMarked
<1>12. HeldAgree(s)'
  <2>1. heap[o].raw.content \in TreeContent
    BY <1>2, <1>5, <1>6, Fields, ContentKinds DEF LatestKind
  <2>2. heap'[o].raw = heap[o].raw
    BY <1>2, <1>7
  <2>3. \A x \in held'[s] : x = o \/ x \in held[s]
    BY <1>9
  <2> QED BY <1>1, <1>7, <1>8, <2>1, <2>2, <2>3 DEF HeldAgree, OneInv, Basics
<1>13. ASSUME ~torn' PROVE Orderly(s)'
  <2>1. Orderly(s)
    BY <1>9, <1>13 DEF OneInv
  <2>2. \A q \in Page : InTree(q)' <=> InTree(q)
    BY <1>1 DEF InTree
  <2>3. heap'[o].index = p /\ held[s] \in SUBSET held[s] /\ InTree(p)'
    BY <1>2, <1>5, <1>7, <2>2
  <2>4. HandlesAgree(s)'
    <3>1. HandlesAgree(s)
      BY <2>1 DEF Orderly
    <3>2. (\A x \in held[s] : heap[x].index # p) /\ held'[s] \subseteq held[s] \cup {o}
      BY <1>5, <1>9
    <3>3. \A q \in Page : q # p =>
             /\ InTree(q)' <=> InTree(q)
             /\ IsCached(s, q) =>
                   IsCached(s, q)' /\ CachedObject(s, q)' = CachedObject(s, q)
      BY <1>3, <2>2
    <3> QED BY <1>4, <1>8, <2>3, <3>1, <3>2, <3>3, HandlesNext, SMTT(60)
  <2>5. \A q \in Page : q \in HeldPages(s)' => q \in HeldPages(s) \/ q = p
    BY <1>8, <1>9, <2>3 DEF HeldPages
  <2>6. \A q \in Page : q \in HeldPages(s) => q \in HeldPages(s)' \/ InTree(q)
    BY <1>8, <1>9, <1>13 DEF HeldPages
  <2>7. file[p].content.kind # "free"
    BY <1>5 DEF InTree, TreeKind, NodeKind
  <2>8. PagesDivided(s)'
    <3>1. Current(s)' = Current(s)
      BY DEF Current
    <3> QED BY <1>1, <1>5, <2>1, <2>2, <2>5, <2>6, <2>7, <3>1, StillDivided DEF Orderly
  <2> QED BY <2>1, <2>4, <2>8 DEF Orderly
<1> QED BY <1>9, <1>10, <1>11, <1>12, <1>13 DEF OneInv, Basics

\* The first step of reading a page that is not cached: of the tree, or, by
\* popFreePage, under the first byte of a leaf.
LEMMA StartReadStep ==
    ASSUME Roomy, TypeInv, NEW s \in Session, OneInv(s), NEW p \in Page, NEW given,
           NEW holds, reading[s] = NotReading, entity[s].loaded,
           StartRead(s, p, given, holds), UNCHANGED <<entity, header, thrown>>,
           \/ /\ Readable(s, p) /\ NewId \in holds /\ holds \subseteq held[s] \cup {NewId}
              /\ \A y \in held[s] \ holds : InTree(heap[y].index)
           \/ torn /\ holds = held[s] /\ file[p].type = "leaf"
    PROVE  OneInv(s)' /\ file' = file /\ torn' = torn
<1>1. PICK x \in LoadFile(p, given) : heap' = Append(heap, x)
  BY DEF StartRead
<1> DEFINE o == NewId
<1>2. /\ o \in ObjectId /\ ~IsCached(s, p)
      /\ reading' = [reading EXCEPT ![s] =
            [object |-> o, out |-> LRU!PutReturns(pageCache[s], p, o)]]
      /\ pageCache' = [pageCache EXCEPT ![s] = LRU!Put(@, p, o)]
      /\ held' = [held EXCEPT ![s] = holds]
      /\ UNCHANGED <<file, torn, up>>
  BY DEF StartRead
<1>3. /\ x \in Object /\ x.index = p
      /\ \/ x.raw = file[p]
         \/ x.raw.content = Lost /\ file[p].type # "leaf"
  BY LoadFileType
<1>4. /\ DOMAIN heap' = DOMAIN heap \cup {o} /\ o \notin DOMAIN heap
      /\ \A y \in DOMAIN heap : heap'[y] = heap[y]
      /\ heap'[o] = x
  BY <1>1, <1>3, Typed, NewObject DEF NewId
<1>5. held'[s] = holds /\ \A y \in holds : y = o \/ y \in held[s]
  BY <1>2, Typed
<1> HIDE DEF o
<1>6. /\ IsCached(s, p)' /\ CachedObject(s, p)' = o
      /\ LRU!PutReturns(pageCache[s], p, o) = o
      /\ \A q \in Page : q # p =>
            /\ IsCached(s, q)' <=> IsCached(s, q)
            /\ IsCached(s, q) => CachedObject(s, q)' = CachedObject(s, q)
  BY <1>2, PutKeeps
<1>7. reading'[s].object = o /\ reading'[s].out = o
  BY <1>2, <1>6, Typed
<1>8. \/ x.raw = file[p]
      \/ x.raw.content = Lost /\ file[p].content.kind \in Fragile
  <2>1. CASE Readable(s, p) /\ file[p].type # "leaf"
    <3>1. InTree(p) /\ Marked(file[p])
      BY <2>1, Found DEF Readable, OneInv, Basics, BytesMarked
    <3> QED BY <1>3, <2>1, <3>1 DEF Marked, InTree, TreeKind, NodeKind, Fragile
  <2> QED BY <1>3, <2>1
<1>9. CacheAgrees(s)'
  <2>1. \A q \in Page : q # p =>
           (IsCached(s, q) => heap'[CachedObject(s, q)] = heap[CachedObject(s, q)])
    BY <1>4, Known
  <2>2. heap'[o].index = p /\ heap'[o].raw = x.raw
    BY <1>3, <1>4
  <2> QED BY <1>2, <1>6, <1>7, <1>8, <2>1, <2>2, CacheNext
<1>10. ReadingAgrees(s)'
  <2>1. torn' \/ o \in held'[s]
    BY <1>2, <1>5 DEF o
  <2>2. heap'[o].index = p
    BY <1>3, <1>4
  <2> QED BY <1>6, <1>7, <2>1, <2>2 DEF ReadingAgrees, IsCached, CachedObject
<1>11. BytesMarked'
  <2>1. Marked(x.raw)
    <3>1. Marked(file[p]) /\ Lost.kind = "lost"
      BY DEF OneInv, Basics, BytesMarked, Lost
    <3> QED BY <1>3, <3>1 DEF Marked
  <2> QED BY <1>2, <1>4, <2>1 DEF OneInv, Basics, BytesMarked
<1>12. HeldAgree(s)'
  <2>1. o \in holds => x.raw.content \in TreeContent
    <3>1. ASSUME o \in holds PROVE Readable(s, p)
      BY <3>1, HeldMade DEF o
    <3>2. Readable(s, p) => file[p].content \in TreeContent
      BY Found, Typed, ObjectFields, ContentKinds DEF Readable, InTree
    <3> QED BY <1>3, <3>1, <3>2, ContentKinds
  <2>2. \A y \in held[s] : y \in DOMAIN heap /\ y # reading[s].object
    BY HeldMade, Known
  <2>3. \A y \in held'[s] : y # o => /\ heap'[y].raw.content \in TreeContent
                                     /\ heap'[y].live \in TreeContent
                                     /\ heap'[y].live = Lost => heap'[y].raw.content = Lost
    BY <1>4, <1>5, <2>2 DEF OneInv, Basics, HeldAgree
  <2> QED BY <1>4, <1>5, <1>7, <2>1, <2>3 DEF HeldAgree
<1>13. ASSUME ~torn' PROVE Orderly(s)'
  <2>1. Orderly(s) /\ Readable(s, p)
    BY <1>2, <1>13 DEF OneInv
  <2>2. /\ \A q \in Page : InTree(q)' <=> InTree(q)
        /\ InTree(p) /\ file[p].content.kind # "free"
    BY <1>2, <2>1, Found DEF InTree, Readable, TreeKind, NodeKind
  <2>3. \A y \in held[s] : heap'[y] = heap[y] /\ heap[y].index # p
    BY <1>4, <2>1, HeldMade DEF Readable
  <2>4. heap'[o].index = p /\ held'[s] \subseteq held[s] \cup {o} /\ held[s] \in SUBSET held[s]
    BY <1>3, <1>4, <1>5
  <2>5. HandlesAgree(s)'
    <3>1. HandlesAgree(s) /\ InTree(p)'
      BY <2>1, <2>2 DEF Orderly
    <3>2. \A q \in Page : q # p =>
             /\ InTree(q)' <=> InTree(q)
             /\ IsCached(s, q) =>
                   IsCached(s, q)' /\ CachedObject(s, q)' = CachedObject(s, q)
      BY <1>6, <2>2
    <3> QED BY <1>6, <2>3, <2>4, <3>1, <3>2, HandlesNext, ZenonT(60)
  <2>6. \A q \in Page : q \in HeldPages(s)' => q \in HeldPages(s) \/ q = p
    BY <2>3, <2>4 DEF HeldPages
  <2>7. \A y \in held[s] : y \in held'[s] \/ InTree(heap[y].index)
    BY <1>2, <1>5, <1>13
  <2>8. \A q \in Page : q \in HeldPages(s) => q \in HeldPages(s)' \/ InTree(q)
    BY <2>3, <2>7 DEF HeldPages
  <2>9. PagesDivided(s)'
    <3>1. Current(s)' = Current(s)
      BY DEF Current
    <3> QED BY <1>2, <2>1, <2>2, <2>6, <2>8, <3>1, StillDivided DEF Orderly
  <2> QED BY <2>1, <2>5, <2>9 DEF Orderly
<1> QED BY <1>2, <1>9, <1>10, <1>11, <1>12, <1>13, Known DEF OneInv, Basics

\* The object of the page does not come to be, and the statement or the process
\* ends.
LEMMA ReadBreaksStep ==
    ASSUME TypeInv, NEW s \in Session, OneInv(s), NEW p \in Page, NEW given,
           reading[s] = NotReading, entity[s].loaded,
           ReadBreaks(s, p, given), UNCHANGED <<entity, header, thrown>>
    PROVE  OneInv(s)' /\ torn' \in {torn, TRUE}
<1>1. (Fail(s) \/ End) /\ UNCHANGED <<pageCache, heap, reading, file>>
  BY DEF ReadBreaks, Junk
<1>2. /\ held'[s] = held[s] \/ held'[s] = {}
      /\ torn => torn'
      /\ torn' \in {torn, TRUE}
      /\ ~torn' => \A y \in held[s] \ held'[s] : InTree(heap[y].index)
  BY <1>1, EndFacts
<1>3. Current(s)' = Current(s) /\ header'.loaded
  BY Known DEF Current
<1> QED BY <1>1, <1>2, <1>3, NothingMoved

\* One page gets another content.
Becomes(p, x) == \A q \in Page : file'[q].content = IF q = p THEN x ELSE file[q].content

\* At most the content of one page changes, and then an internal node is lost.
LostAt(p) == (file[p].content.kind = "internal" \/ torn) /\ Becomes(p, Lost)

SameOrLost == \/ \A q \in Page : file'[q].content = file[q].content
              \/ \E p \in Page : LostAt(p)

\* The second step of reading a page.
LEMMA FinishReadStep ==
    ASSUME TypeInv, NEW s \in Session, OneInv(s), FinishRead(s)
    PROVE  /\ OneInv(s)' /\ torn' \in {torn, TRUE}
           /\ Current(s)' = Current(s) /\ header' = header /\ SameOrLost
<1>0. PICK o \in DOMAIN heap, p \in Page : /\ o = reading[s].object /\ p = heap[o].index
                                           /\ reading[s] # NotReading
  BY Typed, Fields DEF FinishRead
<1> DEFINE out == reading[s].out
           renumbered == Renumbered(heap, out, p)
<1>1. /\ reading[s] # NotReading /\ reading' = [reading EXCEPT ![s] = NotReading]
      /\ file' = [file EXCEPT ![p] = renumbered[out].raw]
      /\ heap' = Refreshed(renumbered, o)
      /\ UNCHANGED <<pageCache, entity, header>>
      /\ \/ UNCHANGED <<held, thrown, torn, up>>
         \/ Fail(s) /\ UNCHANGED thrown
         \/ End /\ UNCHANGED thrown
         \/ o \notin held[s] /\ Fail(s)
  BY <1>0 DEF FinishRead, Junk, Renumbered
<1>2. /\ out = o /\ heap[o].index = p
      /\ IsCached(s, p) /\ CachedObject(s, p) = o
      /\ torn \/ o \in held[s]
  BY <1>0 DEF OneInv, Basics, ReadingAgrees
<1>3. renumbered = heap
  BY <1>2, Typed, RenumberedFacts
<1>4. file' = [file EXCEPT ![p] = heap[o].raw] /\ heap' = Refreshed(heap, o)
  BY <1>1, <1>2, <1>3
<1>5. \/ heap[o].raw = file[p]
      \/ heap[o].raw.content = Lost /\ file[p].content.kind \in Fragile
  BY <1>2 DEF OneInv, Basics, CacheAgrees
<1> HIDE DEF out, renumbered
<1>6. file'[p] = heap[o].raw /\ \A q \in Page : q # p => file'[q] = file[q]
  BY <1>2, <1>4, Typed
<1>7. /\ DOMAIN heap' = DOMAIN heap
      /\ \A x \in DOMAIN heap : heap'[x].index = heap[x].index /\ heap'[x].raw = heap[x].raw
      /\ \A x \in DOMAIN heap : x # o => heap'[x] = heap[x]
      /\ heap'[o].live = heap[o].raw.content
  BY <1>2, <1>4, Typed, RefreshedFacts
<1>8. /\ torn' \in {torn, TRUE} /\ (torn => torn')
      /\ held'[s] \subseteq held[s]
      /\ ~torn' => \A y \in held[s] \ held'[s] : InTree(heap[y].index)
  <2>1. CASE UNCHANGED <<held, thrown, torn, up>>
    BY <2>1
  <2> QED BY <1>1, <2>1, EndFacts
<1>9. reading'[s] = NotReading /\ heap'[o].index = p /\ heap'[o].raw = heap[o].raw
  BY <1>1, <1>2, <1>7, Typed
<1>10. \A q \in Page : InTree(q)' <=> InTree(q)
  <2>1. Lost.kind \in TreeKind /\ Fragile \subseteq TreeKind
    BY ContentKinds DEF Fragile, TreeKind, NodeKind
  <2>2. InTree(p)' <=> InTree(p)
    BY <1>5, <1>6, <2>1 DEF InTree
  <2> QED BY <1>6, <2>2 DEF InTree
<1>11. CacheAgrees(s)'
  <2>1. \A q \in Page : q # p => (IsCached(s, q) => CachedObject(s, q) # o)
    BY <1>2, Known
  <2>2. \A q \in Page : /\ IsCached(s, q)' = IsCached(s, q)
                        /\ CachedObject(s, q)' = CachedObject(s, q)
    BY <1>1 DEF IsCached, CachedObject
  <2>3. IsCached(s, p)' => CachedObject(s, p)' = o
    BY <1>2, <2>2
  <2>4. \A q \in Page : q # p =>
              /\ file'[q] = file[q]
              /\ IsCached(s, q)' => IsCached(s, q) /\ CachedObject(s, q)' = CachedObject(s, q)
              /\ IsCached(s, q) => /\ heap'[CachedObject(s, q)].index = heap[CachedObject(s, q)].index
                                   /\ heap'[CachedObject(s, q)].raw = heap[CachedObject(s, q)].raw
    BY <1>6, <1>7, <2>2, Known
  <2>5. heap[reading[s].object].index = p
    BY <1>0
  <2> QED BY <1>2, <1>6, <1>9, <2>3, <2>4, <2>5, CacheNext
<1>12. ReadingAgrees(s)'
  BY <1>9 DEF ReadingAgrees
<1>13. BytesMarked'
  BY <1>2, <1>6, <1>7 DEF OneInv, Basics, BytesMarked
<1>14. HeldAgree(s)'
  <2>1. \A x \in held[s] : x \in DOMAIN heap /\ heap'[x].raw.content \in TreeContent
    BY <1>7, HeldMade DEF OneInv, Basics, HeldAgree
  <2>2. \A x \in held[s] : /\ heap'[x].live \in TreeContent
                           /\ heap'[x].live = Lost => heap'[x].raw.content = Lost
    BY <1>0, <1>7, <1>9, <2>1 DEF OneInv, Basics, HeldAgree
  <2>3. ~entity[s].loaded => held[s] = {}
    BY DEF OneInv, Basics, HeldAgree
  <2> QED BY <1>1, <1>8, <2>1, <2>2, <2>3 DEF HeldAgree
<1>15. ASSUME ~torn' PROVE Orderly(s)'
  <2>1. Orderly(s) /\ o \in held[s]
    BY <1>2, <1>8, <1>15 DEF OneInv
  <2>2. thrown' = {}
    BY <1>1, <2>1 DEF Orderly
  <2>3. InTree(p) /\ InTree(p)'
    <3>1. heap[o].raw.content.kind \in TreeKind
      BY <2>1, ContentKinds DEF OneInv, Basics, HeldAgree
    <3>2. InTree(p)'
      BY <1>6, <3>1 DEF InTree
    <3> QED BY <1>2, <1>10, <3>2
  <2>4. HandlesAgree(s)'
    <3> DEFINE keep == held[s] \ {o}
    <3>1. HandlesAgree(s) /\ keep \in SUBSET held[s] /\ held'[s] \subseteq keep \cup {o}
      BY <1>8, <2>1 DEF Orderly
    <3>2. \A x \in keep : heap[x].index # p
      BY <1>2, <2>1, <3>1 DEF HandlesAgree
    <3>3. \A x \in keep : heap'[x] = heap[x]
      BY <1>7, HeldMade
    <3>4. \A q \in Page : q # p =>
             /\ InTree(q)' <=> InTree(q)
             /\ IsCached(s, q) =>
                   IsCached(s, q)' /\ CachedObject(s, q)' = CachedObject(s, q)
      BY <1>1, <1>10 DEF IsCached, CachedObject
    <3>5. IsCached(s, p)' /\ CachedObject(s, p)' = o
      BY <1>1, <1>2 DEF IsCached, CachedObject
    <3> HIDE DEF keep
    <3> QED BY <1>2, <1>9, <2>3, <3>1, <3>2, <3>3, <3>4, <3>5, HandlesNext, ZenonT(60)
  <2>5. \A y \in held[s] : heap'[y].index = heap[y].index
    BY <1>7, HeldMade
  <2>6. \A q \in Page : q \in HeldPages(s)' => q \in HeldPages(s)
    BY <1>8, <2>5 DEF HeldPages
  <2>7. \A q \in Page : q \in HeldPages(s) => q \in HeldPages(s)' \/ InTree(q)
    BY <1>8, <1>15, <2>5 DEF HeldPages
  <2>8. file[p].content.kind # "free"
    BY <2>3, ContentKinds DEF InTree
  <2>9. PagesDivided(s)'
    <3>1. Current(s)' = Current(s) /\ PagesDivided(s)
      BY <1>1, <2>1 DEF Current, Orderly
    <3> QED BY <1>6, <1>10, <2>6, <2>7, <2>8, <3>1, StillDivided
  <2> QED BY <2>2, <2>4, <2>9 DEF Orderly
<1>16. SameOrLost
  <2>1. CASE heap[o].raw.content = file[p].content
    BY <1>6, <2>1 DEF SameOrLost
  <2>2. CASE heap[o].raw.content # file[p].content
    <3>1. heap[o].raw.content = Lost /\ file[p].content.kind \in Fragile
      BY <1>5, <2>2
    <3>2. file[p].content.kind # "lost"
      <4>1. file[p].content \in Content
        BY <1>2, Typed, ObjectFields
      <4> QED BY <2>2, <3>1, <4>1, LostKind
    <3> QED BY <1>2, <1>6, <3>1, <3>2 DEF SameOrLost, LostAt, Becomes, Fragile
  <2> QED BY <2>1, <2>2
<1>17. Current(s)' = Current(s) /\ header' = header
  BY <1>1 DEF Current
<1> QED BY <1>8, <1>11, <1>12, <1>13, <1>14, <1>15, <1>16, <1>17, Known DEF OneInv, Basics

\* A held page is edited.
LEMMA EditStep ==
    ASSUME TypeInv, NEW s \in Session, OneInv(s), NEW o \in held[s], NEW v \in Value,
           EditPage(s, o, v)
    PROVE  OneInv(s)'
<1> DEFINE p == heap[o].index
<1>1. /\ reading[s] = NotReading /\ heap' = Edited(heap, o, v)
      /\ heap[o].live.kind \in NodeKind
      /\ UNCHANGED <<pageCache, entity, held, reading, file, header, thrown, torn>>
  BY DEF EditPage, Running, Edited
<1>2. o \in DOMAIN heap /\ p \in Page
  BY HeldMade
<1>3. /\ DOMAIN heap' = DOMAIN heap
      /\ \A x \in DOMAIN heap : heap'[x].index = heap[x].index /\ heap'[x].raw = heap[x].raw
      /\ \A x \in DOMAIN heap : x # o => heap'[x] = heap[x]
      /\ heap'[o].live \in Node
  BY <1>1, <1>2, Typed, EditedFacts
<1>4. CacheAgrees(s)'
  BY <1>1, <1>3, Known DEF CacheAgrees, OneInv, Basics, IsCached, CachedObject
<1>5. ReadingAgrees(s)' /\ BytesMarked'
  BY <1>1, <1>3 DEF ReadingAgrees, BytesMarked, OneInv, Basics
<1>6. HeldAgree(s)'
  <2>1. \A x \in Node : x \in TreeContent /\ x # Lost
    BY ContentKinds DEF NodeKind
  <2> QED BY <1>1, <1>3, <2>1, HeldMade DEF HeldAgree, OneInv, Basics
<1>7. ASSUME ~torn' PROVE Orderly(s)'
  <2>1. Orderly(s)
    BY <1>1, <1>7 DEF OneInv
  <2>2. \A x \in held[s] : /\ heap'[x].index = heap[x].index
                           /\ heap'[x].live \in Node \/ heap'[x].live = heap[x].live
    BY <1>3, HeldMade
  <2>3. HandlesAgree(s)'
    BY <1>1, <2>1, <2>2 DEF Orderly, HandlesAgree, InTree, IsCached, CachedObject
  <2>4. \A q \in Page : q \in HeldPages(s)' <=> q \in HeldPages(s)
    BY <1>1, <2>2 DEF HeldPages
  <2>5. PagesDivided(s)'
    <3>1. Current(s)' = Current(s) /\ PagesDivided(s) /\ \A q \in Page : InTree(q)' <=> InTree(q)
      BY <1>1, <2>1 DEF Current, Orderly, InTree
    <3> QED BY <1>1, <2>4, <3>1, StillDivided
  <2> QED BY <1>1, <2>1, <2>3, <2>5 DEF Orderly
<1> QED BY <1>1, <1>4, <1>5, <1>6, <1>7, Known DEF OneInv, Basics

\* A page that was only looked at is let go.
LEMMA DropStep ==
    ASSUME TypeInv, NEW s \in Session, OneInv(s), NEW o \in held[s], DropPage(s, o)
    PROVE  OneInv(s)'
<1>1. /\ reading[s] = NotReading /\ Clean(s, o) /\ held' = [held EXCEPT ![s] = @ \ {o}]
      /\ UNCHANGED <<heap, pageCache, entity, reading, file, header, thrown, torn>>
  BY DEF DropPage, Running
<1>2. held'[s] = held[s] \ {o}
  BY <1>1, Typed
<1>3. InTree(heap[o].index)
  BY <1>1, HeldMade DEF Clean
<1>4. Current(s)' = Current(s) /\ header'.loaded /\ entity'[s].loaded
  BY <1>1, Known DEF Current
<1> QED BY <1>1, <1>2, <1>3, <1>4, NothingMoved

\* A freed page joins the list of free pages.
LEMMA ListGrows ==
    ASSUME TypeInv, NEW s \in Session, PagesDivided(s), NEW p \in Page,
           p \in HeldPages(s), InTree(p),
           \A q \in Page : q \in HeldPages(s)' <=> q \in HeldPages(s) /\ q # p,
           \A q \in Page : q # p => file'[q] = file[q],
           file'[p].content = Free(Current(s).firstFree),
           Current(s).firstFree \in Page \cup {NoPage},
           Current(s)'.firstFree = p, Current(s)'.nPage = Current(s).nPage
    PROVE  PagesDivided(s)'
<1>1. PICK n \in Nat : \E list \in [1..n -> Page] :
         IsFreeList(n, list, Current(s).firstFree) /\ Divides(s, n, list)
  BY DEF PagesDivided
<1>2. PICK list \in [1..n -> Page] :
         IsFreeList(n, list, Current(s).firstFree) /\ Divides(s, n, list)
  BY <1>1
<1>3. \A i \in 1..n : list[i] \in Page /\ list[i] # p
  BY <1>2 DEF Divides
<1>4. /\ file'[p].content.kind = "free" /\ file'[p].content.data = Current(s).firstFree
      /\ ~InTree(p)'
  BY ContentKinds DEF InTree
<1> PICK m \in Nat : m = n + 1
  OBVIOUS
<1>5. PICK longer \in [1..m -> Page] :
         /\ longer[m] = p
         /\ \A i \in 1..n : longer[i] = list[i]
  <2> DEFINE f == [i \in 1..m |-> IF i = m THEN p ELSE list[i]]
  <2>1. f \in [1..m -> Page]
    BY <1>3
  <2>2. f[m] = p /\ \A i \in 1..n : f[i] = list[i]
    OBVIOUS
  <2> HIDE DEF f
  <2> QED BY <2>1, <2>2
<1>6. /\ \A i \in 1..m : i \in 1..n \/ i = m
      /\ \A i \in 1..n : i \in 1..m /\ i # m
      /\ m \in 1..m /\ m # 0 /\ m - 1 = n
  OBVIOUS
<1>7. IsFreeList(m, longer, Current(s).firstFree)'
  <2>1. \A i, j \in 1..m : longer[i] = longer[j] => i = j
    BY <1>2, <1>3, <1>5, <1>6 DEF IsFreeList
  <2>2. \A i \in 1..m : file'[longer[i]].content.kind = "free"
    BY <1>2, <1>3, <1>4, <1>5, <1>6 DEF IsFreeList
  <2>3. file'[p].content.data = IF m = 1 THEN NoPage ELSE longer[m - 1]
    BY <1>2, <1>4, <1>5, <1>6 DEF IsFreeList
  <2>4. \A i \in 1..n : file'[list[i]].content.data = IF i = 1 THEN NoPage ELSE longer[i - 1]
    <3> SUFFICES ASSUME NEW i \in 1..n
                 PROVE  file[list[i]].content.data = IF i = 1 THEN NoPage ELSE longer[i - 1]
      BY <1>3
    <3>1. file[list[i]].content.data = IF i = 1 THEN NoPage ELSE list[i - 1]
      BY <1>2 DEF IsFreeList
    <3>2. i # 1 => i - 1 \in 1..n
      OBVIOUS
    <3> QED BY <1>5, <1>6, <3>1, <3>2
  <2>5. \A i \in 1..m : file'[longer[i]].content.data = IF i = 1 THEN NoPage ELSE longer[i - 1]
    BY <1>5, <1>6, <2>3, <2>4
  <2>6. Current(s)'.firstFree = IF m = 0 THEN NoPage ELSE longer[m]
    BY <1>5, <1>6
  <2> QED BY <1>5, <1>6, <2>1, <2>2, <2>5, <2>6 DEF IsFreeList
<1>8. ASSUME NEW q \in Page
      PROVE  q < Current(s)'.nPage <=> \/ InTree(q)'
                                       \/ q \in HeldPages(s)'
                                       \/ \E i \in 1..m : longer[i] = q
  <2>1. q < Current(s).nPage <=> \/ InTree(q) \/ q \in HeldPages(s)
                                 \/ \E i \in 1..n : list[i] = q
    BY <1>2 DEF Divides
  <2>2. CASE q = p
    BY <1>5, <1>6, <2>1, <2>2
  <2>3. CASE q # p
    <3>1. (\E i \in 1..m : longer[i] = q) <=> \E i \in 1..n : list[i] = q
      BY <1>5, <1>6, <2>3
    <3>2. (InTree(q)' <=> InTree(q)) /\ (q \in HeldPages(s)' <=> q \in HeldPages(s))
      BY <2>3 DEF InTree
    <3> QED BY <2>1, <3>1, <3>2
  <2> QED BY <2>2, <2>3
<1>9. \A i \in 1..m : longer[i] \notin HeldPages(s)'
  BY <1>2, <1>3, <1>5, <1>6 DEF Divides
<1>10. Divides(s, m, longer)'
  BY <1>8, <1>9 DEF Divides
<1>11. \E list2 \in [1..m -> Page] :
         (IsFreeList(m, list2, Current(s).firstFree) /\ Divides(s, m, list2))'
  BY <1>5, <1>6, <1>7, <1>10
<1> QED BY <1>5, <1>6, <1>11 DEF PagesDivided

\* The head of the list of free pages is taken.
LEMMA ListShrinks ==
    ASSUME TypeInv, NEW s \in Session, PagesDivided(s), NEW p \in Page,
           p = Current(s).firstFree, file' = file,
           \A q \in Page : q \in HeldPages(s)' <=> q \in HeldPages(s) \/ q = p,
           Current(s)'.firstFree = file[p].content.data,
           Current(s)'.nPage = Current(s).nPage
    PROVE  PagesDivided(s)' /\ p \notin HeldPages(s) /\ file[p].content.kind = "free"
<1>1. PICK n \in Nat : \E list \in [1..n -> Page] :
         IsFreeList(n, list, Current(s).firstFree) /\ Divides(s, n, list)
  BY DEF PagesDivided
<1>2. PICK list \in [1..n -> Page] :
         IsFreeList(n, list, Current(s).firstFree) /\ Divides(s, n, list)
  BY <1>1
<1>3. n # 0 /\ n \in 1..n /\ list[n] = p
  BY <1>2 DEF IsFreeList, Page, NoPage
<1>4. p \notin HeldPages(s) /\ file[p].content.kind = "free" /\ ~InTree(p)
  <2>1. p \notin HeldPages(s)
    BY <1>2, <1>3 DEF Divides
  <2>2. file[p].content.kind = "free"
    BY <1>2, <1>3 DEF IsFreeList
  <2> QED BY <2>1, <2>2, ContentKinds DEF InTree
<1> PICK m \in Nat : n = m + 1
  <2>1. n - 1 \in Nat /\ n = (n - 1) + 1
    BY <1>3
  <2> QED BY <2>1
<1>5. PICK shorter \in [1..m -> Page] : \A i \in 1..m : shorter[i] = list[i]
  <2> DEFINE f == [i \in 1..m |-> list[i]]
  <2>1. f \in [1..m -> Page] /\ \A i \in 1..m : f[i] = list[i]
    OBVIOUS
  <2> HIDE DEF f
  <2> QED BY <2>1
<1>6. /\ \A i \in 1..n : i \in 1..m \/ i = n
      /\ \A i \in 1..m : i \in 1..n /\ i # n
      /\ m # 0 => m \in 1..m
  OBVIOUS
<1>7. IsFreeList(m, shorter, Current(s).firstFree)'
  <2>1. \A i, j \in 1..m : shorter[i] = shorter[j] => i = j
    BY <1>2, <1>5, <1>6 DEF IsFreeList
  <2>2. \A i \in 1..m : file'[shorter[i]].content.kind = "free"
    BY <1>2, <1>5, <1>6 DEF IsFreeList
  <2>3. \A i \in 1..m : file'[shorter[i]].content.data = IF i = 1 THEN NoPage ELSE shorter[i - 1]
    <3> SUFFICES ASSUME NEW i \in 1..m
                 PROVE  file[list[i]].content.data = IF i = 1 THEN NoPage ELSE shorter[i - 1]
      BY <1>5
    <3>1. file[list[i]].content.data = IF i = 1 THEN NoPage ELSE list[i - 1]
      BY <1>2, <1>6 DEF IsFreeList
    <3>2. i # 1 => i - 1 \in 1..m
      OBVIOUS
    <3> QED BY <1>5, <3>1, <3>2
  <2>4. file[p].content.data = IF m = 0 THEN NoPage ELSE shorter[m]
    <3>1. file[list[n]].content.data = IF n = 1 THEN NoPage ELSE list[n - 1]
      BY <1>2, <1>3 DEF IsFreeList
    <3> QED BY <1>3, <1>5, <1>6, <3>1
  <2> QED BY <1>5, <2>1, <2>2, <2>3, <2>4 DEF IsFreeList
<1>8. ASSUME NEW q \in Page
      PROVE  q < Current(s)'.nPage <=> \/ InTree(q)'
                                       \/ q \in HeldPages(s)'
                                       \/ \E i \in 1..m : shorter[i] = q
  <2>1. q < Current(s).nPage <=> \/ InTree(q) \/ q \in HeldPages(s)
                                 \/ \E i \in 1..n : list[i] = q
    BY <1>2 DEF Divides
  <2>2. (\E i \in 1..n : list[i] = q) <=> q = p \/ \E i \in 1..m : shorter[i] = q
    BY <1>3, <1>5, <1>6
  <2> QED BY <2>1, <2>2 DEF InTree
<1>9. \A i \in 1..m : shorter[i] \notin HeldPages(s)'
  <2>1. \A i \in 1..m : i \in 1..n /\ i # n
    BY <1>6
  <2>2. \A i \in 1..m : list[i] # p
    <3>1. \A i, j \in 1..n : list[i] = list[j] => i = j
      BY <1>2 DEF IsFreeList
    <3> QED BY <1>3, <2>1, <3>1
  <2>3. \A i \in 1..m : list[i] \notin HeldPages(s)
    BY <1>2, <2>1 DEF Divides
  <2> QED BY <1>5, <2>2, <2>3
<1>10. Divides(s, m, shorter)'
  BY <1>8, <1>9 DEF Divides
<1>11. \E list2 \in [1..m -> Page] :
         (IsFreeList(m, list2, Current(s).firstFree) /\ Divides(s, m, list2))'
  BY <1>5, <1>7, <1>10
<1> QED BY <1>4, <1>11 DEF PagesDivided

\* The holder of page p puts object w for it, writes it and lets the page go; w
\* is the object o it held or a new one.
Puts(s, o, p, objects, w) ==
    /\ reading[s] = NotReading
    /\ o \in held[s] /\ p = heap[o].index
    /\ PutWrite(s, objects, p, w)
    /\ w = o \/ w \notin DOMAIN heap
    /\ w \in DOMAIN objects /\ DOMAIN objects \subseteq DOMAIN heap \cup {w}
    /\ objects[w].index = p /\ Marked(objects[w].raw)
    /\ \A x \in DOMAIN heap : x # w => objects[x] = heap[x]
    /\ held' = [held EXCEPT ![s] = @ \ {o}] /\ entity'[s].loaded
    /\ header' = header /\ reading' = reading

\* What that leaves.
PutLeaves(s, p, raw) ==
    /\ Basics(s)'
    /\ file'[p] = raw /\ \A q \in Page : q # p => file'[q] = file[q]
    /\ HandlesAgree(s) =>
          HandlesAgree(s)' /\ \A q \in Page : q \in HeldPages(s)' <=> q \in HeldPages(s) /\ q # p

LEMMA PutStepFacts ==
    ASSUME Roomy, TypeInv, NEW s \in Session, OneInv(s),
           NEW o, NEW p \in Page, NEW objects, NEW w \in ObjectId, Puts(s, o, p, objects, w)
    PROVE  PutLeaves(s, p, objects[w].raw)
<1>0. /\ reading[s] = NotReading /\ o \in held[s] /\ p = heap[o].index
      /\ PutWrite(s, objects, p, w)
      /\ w = o \/ w \notin DOMAIN heap
      /\ w \in DOMAIN objects /\ DOMAIN objects \subseteq DOMAIN heap \cup {w}
      /\ objects[w].index = p /\ Marked(objects[w].raw)
      /\ \A x \in DOMAIN heap : x # w => objects[x] = heap[x]
      /\ held' = [held EXCEPT ![s] = @ \ {o}] /\ entity'[s].loaded
      /\ header' = header /\ reading' = reading
  BY DEF Puts
<1> USE <1>0
<1> DEFINE out == LRU!PutReturns(pageCache[s], p, w)
<1>1. /\ pageCache' = [pageCache EXCEPT ![s] = LRU!Put(@, p, w)]
      /\ heap' = objects
      /\ file' = [file EXCEPT ![objects[out].index] = objects[out].raw]
  BY <1>0 DEF PutWrite
<1>2. /\ IsCached(s, p)' /\ CachedObject(s, p)' = w /\ out = w
      /\ \A q \in Page : q # p =>
            /\ IsCached(s, q)' <=> IsCached(s, q)
            /\ IsCached(s, q) => CachedObject(s, q)' = CachedObject(s, q)
  BY <1>1, PutKeeps
<1> HIDE DEF out
<1>3. file'[p] = objects[w].raw /\ \A q \in Page : q # p => file'[q] = file[q]
  BY <1>1, <1>2, Typed
<1>4. held'[s] = held[s] \ {o}
  BY Typed
<1>5. \A x \in held[s] \ {o} : x \in DOMAIN heap /\ heap'[x] = heap[x]
  BY <1>1, HeldMade
<1>6. \A q \in Page : q # p /\ IsCached(s, q) =>
         heap'[CachedObject(s, q)] = heap[CachedObject(s, q)]
  BY <1>1, Known
<1>7. CacheAgrees(s)'
  <2>1. IsCached(s, p)' => CachedObject(s, p)' = w /\ heap'[w].index = p
    BY <1>1, <1>2
  <2>2. IsCached(s, p)' => heap'[w].raw = file'[p]
    BY <1>1, <1>3
  <2>3. \A q \in Page : q # p =>
           /\ file'[q] = file[q]
           /\ IsCached(s, q)' => IsCached(s, q) /\ CachedObject(s, q)' = CachedObject(s, q)
           /\ IsCached(s, q) => /\ heap'[CachedObject(s, q)].index = heap[CachedObject(s, q)].index
                                /\ heap'[CachedObject(s, q)].raw = heap[CachedObject(s, q)].raw
    BY <1>2, <1>3, <1>6
  <2> QED BY <2>1, <2>2, <2>3, CacheNext
<1>8. BytesMarked'
  BY <1>1, <1>3 DEF OneInv, Basics, BytesMarked
<1>9. ReadingAgrees(s)'
  BY DEF ReadingAgrees
<1>10. HeldAgree(s)'
  <2>1. \A x \in held'[s] : /\ heap'[x].raw.content \in TreeContent
                            /\ x = reading[s].object \/
                                 (/\ heap'[x].live \in TreeContent
                                  /\ heap'[x].live = Lost => heap'[x].raw.content = Lost)
    BY <1>4, <1>5 DEF OneInv, Basics, HeldAgree
  <2> QED BY <2>1 DEF HeldAgree
<1>11. header'.loaded
  BY Known
<1>12. Basics(s)'
  BY <1>7, <1>8, <1>9, <1>10, <1>11 DEF Basics
<1>13. ASSUME HandlesAgree(s)
       PROVE  /\ HandlesAgree(s)'
              /\ \A q \in Page : q \in HeldPages(s)' <=> q \in HeldPages(s) /\ q # p
  <2>1. \A x \in held[s] \ {o} : heap[x].index # p
    BY <1>13 DEF HandlesAgree
  <2> DEFINE keep == held[s] \ {o}
  <2>2. keep \in SUBSET held[s] /\ held'[s] \subseteq keep \cup {o} /\ o \notin held'[s]
    BY <1>4
  <2>3. \A q \in Page : q # p =>
           /\ InTree(q)' <=> InTree(q)
           /\ IsCached(s, q) => IsCached(s, q)' /\ CachedObject(s, q)' = CachedObject(s, q)
    BY <1>2, <1>3 DEF InTree
  <2>4. (\A x \in keep : heap[x].index # p) /\ \A x \in keep : heap'[x] = heap[x]
    BY <1>5, <2>1
  <2> HIDE DEF keep
  <2>5. HandlesAgree(s)'
    <3>1. /\ o \in held'[s] => heap'[o].index = p
          /\ o \in held'[s] /\ InTree(p)' => IsCached(s, p)' /\ CachedObject(s, p)' = o
          /\ o \in held'[s] /\ ~InTree(p)' => heap'[o].live \in Node
      BY <2>2
    <3> QED BY <1>13, <2>2, <2>3, <2>4, <3>1, HandlesNext, ZenonT(60)
  <2>6. \A x \in held'[s] : x \in held[s] /\ heap'[x].index = heap[x].index /\ heap[x].index # p
    BY <1>4, <1>5, <2>1
  <2>7. \A x \in held[s] : x \in held'[s] \/ heap[x].index = p
    BY <1>4
  <2> QED BY <2>5, <2>6, <2>7 DEF HeldPages
<1> QED BY <1>3, <1>12, <1>13 DEF PutLeaves

\* writePage.
LEMMA WriteStep ==
    ASSUME Roomy, TypeInv, NEW s \in Session, OneInv(s), NEW o \in held[s], WritePage(s, o)
    PROVE  /\ OneInv(s)' /\ Current(s)' = Current(s) /\ header' = header /\ torn' = torn
           /\ SameOrLost \/ \E p \in Page, node \in Node : Becomes(p, node)
<1>1. PICK p \in Page : p = heap[o].index
  BY HeldMade
<1>2. o \in DOMAIN heap /\ o \in ObjectId /\ entity[s].loaded
  BY HeldMade, HeapDomain, Typed, Known
<1> PICK new : new = [heap EXCEPT ![o].raw = Saved(heap[o])]
  OBVIOUS
<1>3. /\ reading[s] = NotReading
      /\ PutWrite(s, new, p, o) /\ held' = [held EXCEPT ![s] = @ \ {o}]
      /\ UNCHANGED <<entity, reading, header, thrown, torn>>
  BY <1>1 DEF WritePage, Running
<1>4. /\ DOMAIN new = DOMAIN heap
      /\ \A x \in DOMAIN heap : new[x].index = heap[x].index
      /\ \A x \in DOMAIN heap : x # o => new[x] = heap[x]
      /\ new[o].raw = Saved(heap[o]) /\ new[o].raw.content = heap[o].live
  BY <1>2, Typed, SavedFacts
<1>5. /\ heap[o].raw.content \in TreeContent /\ heap[o].live \in TreeContent
      /\ heap[o].live = Lost => heap[o].raw.content = Lost
  BY <1>2, <1>3, Known DEF OneInv, Basics, HeldAgree
<1>6. Marked(Saved(heap[o]))
  <2>1. heap[o].live.kind # "free"
    BY <1>5, ContentKinds
  <2> QED BY <2>1 DEF Marked, Saved
<1>7. /\ Basics(s)'
      /\ file'[p] = new[o].raw /\ \A q \in Page : q # p => file'[q] = file[q]
      /\ HandlesAgree(s) =>
            HandlesAgree(s)' /\ \A q \in Page : q \in HeldPages(s)' <=> q \in HeldPages(s) /\ q # p
  <2>1. /\ new[o].index = p /\ Marked(new[o].raw) /\ entity'[s].loaded
        /\ o \in DOMAIN new /\ DOMAIN new \subseteq DOMAIN heap \cup {o}
        /\ o = o \/ o \notin DOMAIN heap
        /\ header' = header /\ reading' = reading
    BY <1>1, <1>2, <1>3, <1>4, <1>6
  <2>2. Puts(s, o, p, new, o)
    BY <1>1, <1>3, <1>4, <2>1 DEF Puts
  <2>3. PutLeaves(s, p, new[o].raw)
    BY <1>2, <2>2, PutStepFacts
  <2> QED BY <2>3 DEF PutLeaves
<1>8. file'[p].content = heap[o].live /\ InTree(p)'
  <2>1. file'[p].content = heap[o].live
    BY <1>4, <1>7
  <2> QED BY <1>5, <2>1, ContentKinds DEF InTree
<1>9. Current(s)' = Current(s)
  BY <1>3 DEF Current
<1>10. ASSUME ~torn PROVE Orderly(s)'
  <2>1. Orderly(s)
    BY <1>10 DEF OneInv
  <2>2. p \in HeldPages(s)
    BY <1>1 DEF HeldPages
  <2>3. \A q \in Page : InTree(q)' \/ q \in HeldPages(s)' <=> InTree(q) \/ q \in HeldPages(s)
    BY <1>7, <1>8, <2>1, <2>2 DEF Orderly, InTree
  <2>4. PagesDivided(s)'
    BY <1>7, <1>9, <2>1, <2>2, <2>3, StillDivided DEF Orderly
  <2> QED BY <1>3, <1>7, <2>1, <2>4 DEF Orderly
<1>11. SameOrLost \/ \E r \in Page, node \in Node : Becomes(r, node)
  <2>1. Becomes(p, heap[o].live)
    BY <1>7, <1>8 DEF Becomes
  <2>2. CASE heap[o].live \in Node
    BY <2>1, <2>2
  <2>3. CASE heap[o].live = Lost /\ torn
    BY <2>1, <2>3 DEF Becomes, SameOrLost, LostAt
  <2>4. CASE heap[o].live = Lost /\ ~torn
    <3>1. heap[o].live \notin Node
      BY <2>4, ContentKinds DEF NodeKind
    <3>2. IsCached(s, p) /\ CachedObject(s, p) = o
      BY <1>1, <2>4, <3>1 DEF OneInv, Orderly, HandlesAgree
    <3>3. o # reading[s].object
      BY <1>2, <1>3, Known
    <3>4. heap[o].raw = file[p]
      BY <3>2, <3>3 DEF OneInv, Basics, CacheAgrees
    <3> QED BY <1>5, <2>1, <2>4, <3>4 DEF Becomes, SameOrLost
  <2> QED BY <1>5, <2>2, <2>3, <2>4 DEF TreeContent
<1> QED BY <1>3, <1>7, <1>9, <1>10, <1>11 DEF OneInv

\* addPageIntoFreeZone.
LEMMA FreeStep ==
    ASSUME Roomy, TypeInv, NEW s \in Session, OneInv(s), NEW o \in held[s], FreePage(s, o)
    PROVE  /\ OneInv(s)' /\ header' = header /\ torn' = torn
           /\ \E p \in Page : /\ InTree(p) /\ Becomes(p, Free(Current(s).firstFree))
                              /\ Current(s)' = [Current(s) EXCEPT !.firstFree = p]
<1>1. PICK p \in Page : p = heap[o].index
  BY HeldMade
<1>2. o \in DOMAIN heap /\ entity[s].loaded /\ Current(s) = entity[s] /\ entity[s] \in Entity
  BY HeldMade, Typed, Known DEF Current
<1> DEFINE next == entity[s].firstFree
           x == Made(p, FreeRaw(next), Free(next))
<1> PICK new : new = Append(heap, x)
  OBVIOUS
<1>3. /\ reading[s] = NotReading /\ Written(s, o) /\ NewId \in ObjectId
      /\ PutWrite(s, new, p, NewId)
      /\ entity' = [entity EXCEPT ![s].firstFree = p] /\ held' = [held EXCEPT ![s] = @ \ {o}]
      /\ UNCHANGED <<reading, header, thrown, torn>>
  BY <1>1 DEF FreePage, Running
<1>4. next \in Page \cup {NoPage}
  BY <1>2, EntityFields
<1>5. /\ x.raw.content = Free(next) /\ x.index = p /\ Marked(x.raw)
      /\ Free(next).kind = "free" /\ Free(next).data = next
  BY <1>4, MadeFields, ContentKinds DEF FreeRaw, Marked
<1>6. /\ DOMAIN new = DOMAIN heap \cup {NewId} /\ NewId \notin DOMAIN heap /\ new[NewId] = x
      /\ \A y \in DOMAIN heap : new[y] = heap[y]
  <2>1. FreeRaw(next) \in Raw /\ Free(next) \in Content
    BY <1>4, ObjectFields, ContentKinds
  <2> QED BY <1>3, <2>1, Typed, Joined DEF NewId
<1> HIDE DEF x, next
<1>7. PICK w \in ObjectId : w = NewId
  BY <1>3
<1>8. /\ entity'[s] = [entity[s] EXCEPT !.firstFree = p] /\ entity'[s].loaded
      /\ Current(s)' = [Current(s) EXCEPT !.firstFree = p]
  <2>1. entity'[s] = [entity[s] EXCEPT !.firstFree = p]
    BY <1>3, Typed
  <2>2. entity'[s].loaded
    BY <1>2, <2>1 DEF Entity
  <2> QED BY <1>2, <2>1, <2>2 DEF Current
<1>9. /\ Basics(s)'
      /\ file'[p] = new[w].raw /\ \A q \in Page : q # p => file'[q] = file[q]
      /\ HandlesAgree(s) =>
            HandlesAgree(s)' /\ \A q \in Page : q \in HeldPages(s)' <=> q \in HeldPages(s) /\ q # p
  <2>1. /\ PutWrite(s, new, p, w) /\ w \notin DOMAIN heap
        /\ w \in DOMAIN new /\ DOMAIN new \subseteq DOMAIN heap \cup {w}
        /\ new[w].index = p /\ Marked(new[w].raw)
        /\ \A y \in DOMAIN heap : y # w => new[y] = heap[y]
    BY <1>3, <1>5, <1>6, <1>7
  <2>2. (w = o \/ w \notin DOMAIN heap) /\ header' = header /\ reading' = reading
    BY <1>3, <2>1
  <2>3. Puts(s, o, p, new, w)
    BY <1>1, <1>3, <1>8, <2>1, <2>2 DEF Puts
  <2>4. PutLeaves(s, p, new[w].raw)
    BY <2>3, PutStepFacts
  <2> QED BY <2>4 DEF PutLeaves
<1>10. file'[p].content = Free(next) /\ Becomes(p, Free(next))
  <2>1. file'[p].content = Free(next)
    BY <1>5, <1>6, <1>7, <1>9
  <2> QED BY <1>9, <2>1 DEF Becomes
<1>11. InTree(p)
  BY <1>1, <1>3, HeldMade
<1>12. ASSUME ~torn PROVE Orderly(s)'
  <2>1. Orderly(s)
    BY <1>12 DEF OneInv
  <2>2. /\ p \in HeldPages(s) /\ HandlesAgree(s)'
        /\ \A q \in Page : q \in HeldPages(s)' <=> q \in HeldPages(s) /\ q # p
    BY <1>1, <1>9, <2>1 DEF Orderly, HeldPages
  <2>3. /\ Current(s)'.firstFree = p /\ Current(s)'.nPage = Current(s).nPage
        /\ Current(s).firstFree = next
    BY <1>2, <1>8 DEF Entity, next
  <2>4. PagesDivided(s)'
    <3>1. PagesDivided(s) /\ file'[p].content = Free(Current(s).firstFree)
      BY <1>10, <2>1, <2>3 DEF Orderly
    <3>2. Current(s).firstFree \in Page \cup {NoPage}
      BY <1>4, <2>3
    <3> QED BY <1>9, <1>11, <2>2, <2>3, <3>1, <3>2, ListGrows
  <2> QED BY <1>3, <2>1, <2>2, <2>4 DEF Orderly
<1>13. OneInv(s)'
  BY <1>3, <1>9, <1>12 DEF OneInv
<1> QED BY <1>2, <1>3, <1>8, <1>10, <1>11, <1>13 DEF next

\* A node is made for page p and given to the thread; no page changes.
Gives(s, p, kind) ==
    /\ reading[s] = NotReading /\ reading' = reading /\ file' = file /\ header' = header
    /\ entity'[s].loaded
    /\ held' = [held EXCEPT ![s] = @ \cup {NewId}]
    /\ DOMAIN heap' = DOMAIN heap \cup {NewId} /\ NewId \notin DOMAIN heap
    /\ \A x \in DOMAIN heap : heap'[x].index = heap[x].index /\ heap'[x].raw = heap[x].raw
    /\ \A x \in held[s] : heap'[x] = heap[x]
    /\ \E raw \in NewRaw(kind) : heap'[NewId] = Made(p, raw, Empty(kind))
    /\ \A q \in Page : /\ IsCached(s, q)' <=> IsCached(s, q)
                       /\ IsCached(s, q) => CachedObject(s, q)' = CachedObject(s, q)

LEMMA GivesFacts ==
    ASSUME TypeInv, NEW s \in Session, OneInv(s), NEW p \in Page, NEW kind \in NodeKind,
           Gives(s, p, kind)
    PROVE  /\ Basics(s)'
           /\ HandlesAgree(s) /\ ~InTree(p) /\ p \notin HeldPages(s) => HandlesAgree(s)'
           /\ \A q \in Page : q \in HeldPages(s)' <=> q \in HeldPages(s) \/ q = p
<1>1. PICK o : o = NewId
  OBVIOUS
<1>2. PICK raw \in NewRaw(kind) : heap'[o] = Made(p, raw, Empty(kind))
  BY <1>1 DEF Gives
<1>3. /\ reading[s] = NotReading /\ reading' = reading /\ file' = file /\ header' = header
      /\ entity'[s].loaded /\ o \notin DOMAIN heap
      /\ \A x \in DOMAIN heap : heap'[x].index = heap[x].index /\ heap'[x].raw = heap[x].raw
      /\ \A x \in held[s] : heap'[x] = heap[x]
      /\ \A q \in Page : /\ IsCached(s, q)' <=> IsCached(s, q)
                         /\ IsCached(s, q) => CachedObject(s, q)' = CachedObject(s, q)
  BY <1>1 DEF Gives
<1>4. held'[s] = held[s] \cup {o} /\ DOMAIN heap' = DOMAIN heap \cup {o}
  BY <1>1, Typed DEF Gives
<1>5. /\ heap'[o].index = p /\ heap'[o].raw.content = Lost /\ heap'[o].live \in Node
      /\ Lost \in TreeContent /\ Marked(heap'[o].raw)
      /\ \A x \in Node : x \in TreeContent /\ x # Lost
  <2>1. raw.content = Lost /\ Lost.kind = "lost" /\ Lost \in TreeContent
    BY ObjectFields, ContentKinds
  <2>2. heap'[o].index = p /\ heap'[o].raw = raw /\ heap'[o].live = Empty(kind)
    BY <1>2, MadeFields
  <2>3. \A x \in Node : x \in TreeContent /\ x # Lost
    BY ContentKinds DEF NodeKind
  <2> QED BY <2>1, <2>2, <2>3, ContentKinds DEF Marked
<1>6. CacheAgrees(s)'
  BY <1>3, Known DEF OneInv, Basics, CacheAgrees, IsCached, CachedObject
<1>7. ReadingAgrees(s)'
  BY <1>3 DEF ReadingAgrees
<1>8. BytesMarked'
  BY <1>3, <1>4, <1>5 DEF OneInv, Basics, BytesMarked
<1>9. HeldAgree(s)'
  BY <1>3, <1>4, <1>5 DEF OneInv, Basics, HeldAgree
<1>10. ASSUME HandlesAgree(s), ~InTree(p), p \notin HeldPages(s) PROVE HandlesAgree(s)'
  <2> PICK keep : keep = held[s]
    OBVIOUS
  <2>1. /\ keep \in SUBSET held[s] /\ held'[s] \subseteq keep \cup {o}
        /\ \A x \in keep : heap[x].index # p
        /\ \A x \in keep : heap'[x] = heap[x]
    BY <1>3, <1>4, <1>10 DEF HeldPages
  <2>2. \A q \in Page : q # p =>
           /\ InTree(q)' <=> InTree(q)
           /\ IsCached(s, q) => IsCached(s, q)' /\ CachedObject(s, q)' = CachedObject(s, q)
    BY <1>3 DEF InTree
  <2>3. /\ o \in held'[s] => heap'[o].index = p
        /\ o \in held'[s] /\ InTree(p)' => IsCached(s, p)' /\ CachedObject(s, p)' = o
        /\ o \in held'[s] /\ ~InTree(p)' => heap'[o].live \in Node
    BY <1>3, <1>5, <1>10 DEF InTree
  <2> QED BY <1>10, <2>1, <2>2, <2>3, HandlesNext, ZenonT(60)
<1>11. \A q \in Page : q \in HeldPages(s)' <=> q \in HeldPages(s) \/ q = p
  <2>1. \A x \in held'[s] : x = o \/ x \in held[s]
    BY <1>4
  <2>2. o \in held'[s] /\ \A x \in held[s] : x \in held'[s]
    BY <1>4
  <2> QED BY <1>3, <1>5, <2>1, <2>2 DEF HeldPages
<1>12. header'.loaded
  BY <1>3, Known
<1> QED BY <1>6, <1>7, <1>8, <1>9, <1>10, <1>11, <1>12 DEF Basics

\* A new page at the end of the file.
LEMMA ExtendStep ==
    ASSUME TypeInv, NEW s \in Session, OneInv(s), NEW kind \in NodeKind, ExtendFile(s, kind)
    PROVE  /\ OneInv(s)' /\ file' = file /\ header' = header /\ torn' = torn
           /\ Current(s).firstFree = NoPage /\ Current(s).nPage \in Page
           /\ Current(s)' = [Current(s) EXCEPT !.nPage = @ + 1]
<1>1. PICK p \in Page : p = entity[s].nPage
  BY DEF ExtendFile
<1>2. /\ reading[s] = NotReading /\ entity[s].loaded /\ entity[s].firstFree = NoPage
      /\ NewId \in ObjectId
      /\ entity' = [entity EXCEPT ![s].nPage = p + 1]
      /\ held' = [held EXCEPT ![s] = @ \cup {NewId}]
      /\ UNCHANGED <<pageCache, reading, file, header, thrown, torn>>
  BY <1>1 DEF ExtendFile, Running
<1>3. PICK raw \in NewRaw(kind) : heap' = Append(heap, Made(p, raw, Empty(kind)))
  BY <1>1 DEF ExtendFile
<1>4. /\ Current(s) = entity[s] /\ entity[s] \in Entity
      /\ entity'[s] = [entity[s] EXCEPT !.nPage = @ + 1]
  BY <1>1, <1>2, Typed DEF Current
<1>5. entity'[s].loaded /\ Current(s)' = [Current(s) EXCEPT !.nPage = @ + 1]
  BY <1>2, <1>4 DEF Entity, Current
<1>6. Gives(s, p, kind)
  <2>1. raw \in Raw /\ Empty(kind) \in Content
    BY ObjectFields, ContentKinds
  <2>2. /\ DOMAIN heap' = DOMAIN heap \cup {NewId} /\ NewId \notin DOMAIN heap
        /\ \A x \in DOMAIN heap : heap'[x] = heap[x]
        /\ heap'[NewId] = Made(p, raw, Empty(kind))
    BY <1>2, <1>3, <2>1, Typed, Joined DEF NewId
  <2>3. \A x \in held[s] : heap'[x] = heap[x]
    BY <2>2, HeldMade
  <2> QED BY <1>2, <1>5, <2>2, <2>3 DEF Gives, IsCached, CachedObject
<1>7. /\ Basics(s)'
      /\ HandlesAgree(s) /\ ~InTree(p) /\ p \notin HeldPages(s) => HandlesAgree(s)'
      /\ \A q \in Page : q \in HeldPages(s)' <=> q \in HeldPages(s) \/ q = p
  BY <1>6, GivesFacts
<1>8. ASSUME ~torn PROVE Orderly(s)'
  <2>1. Orderly(s)
    BY <1>8 DEF OneInv
  <2>2. PICK n \in Nat : \E list \in [1..n -> Page] :
           IsFreeList(n, list, Current(s).firstFree) /\ Divides(s, n, list)
    BY <2>1 DEF Orderly, PagesDivided
  <2>3. PICK list \in [1..n -> Page] :
           IsFreeList(n, list, Current(s).firstFree) /\ Divides(s, n, list)
    BY <2>2
  <2>4. ~(p < Current(s).nPage) /\ p \in Nat /\ Current(s).nPage = p
    BY <1>1, <1>4 DEF Page
  <2>5. ~InTree(p) /\ p \notin HeldPages(s) /\ \A i \in 1..n : list[i] # p
    BY <2>3, <2>4 DEF Divides
  <2>6. Current(s)'.nPage = p + 1 /\ Current(s)'.firstFree = Current(s).firstFree
    BY <1>4, <1>5, <2>4 DEF Entity
  <2>7. IsFreeList(n, list, Current(s).firstFree)'
    BY <1>2, <2>3, <2>6 DEF IsFreeList
  <2>8. ASSUME NEW q \in Page
        PROVE  q < Current(s)'.nPage <=> \/ InTree(q)' \/ q \in HeldPages(s)'
                                         \/ \E i \in 1..n : list[i] = q
    <3>1. q < Current(s).nPage <=> \/ InTree(q) \/ q \in HeldPages(s)
                                   \/ \E i \in 1..n : list[i] = q
      BY <2>3 DEF Divides
    <3>2. q < Current(s)'.nPage <=> q < Current(s).nPage \/ q = p
      BY <2>4, <2>6 DEF Page
    <3>3. InTree(q)' <=> InTree(q)
      BY <1>2 DEF InTree
    <3> QED BY <1>7, <3>1, <3>2, <3>3
  <2>9. \A i \in 1..n : list[i] \notin HeldPages(s)'
    BY <1>7, <2>3, <2>5 DEF Divides
  <2>10. Divides(s, n, list)'
    BY <2>8, <2>9 DEF Divides
  <2>11. PagesDivided(s)'
    BY <2>7, <2>10 DEF PagesDivided
  <2> QED BY <1>2, <1>7, <2>1, <2>5, <2>11 DEF Orderly
<1> QED BY <1>1, <1>2, <1>4, <1>5, <1>7, <1>8 DEF OneInv

\* In order, the head of the list of free pages is a free page under its own
\* first byte.
LEMMA HeadIsFree ==
    ASSUME TypeInv, NEW s \in Session, OneInv(s), ~torn,
           NEW p \in Page, p = Current(s).firstFree
    PROVE  file[p].content.kind = "free" /\ file[p].type = "free"
<1>1. PICK n \in Nat : \E list \in [1..n -> Page] :
         IsFreeList(n, list, Current(s).firstFree) /\ Divides(s, n, list)
  BY DEF OneInv, Orderly, PagesDivided
<1>2. PICK list \in [1..n -> Page] : IsFreeList(n, list, Current(s).firstFree)
  BY <1>1
<1>3. n # 0 /\ n \in 1..n /\ list[n] = p
  BY <1>2 DEF IsFreeList, Page, NoPage
<1>4. file[p].content.kind = "free"
  BY <1>2, <1>3 DEF IsFreeList
<1> QED BY <1>4 DEF OneInv, Basics, BytesMarked, Marked

\* popFreePage, with the node that it makes or the way it ends.
LEMMA PopStep ==
    ASSUME Roomy, TypeInv, NEW s \in Session, OneInv(s), NEW kind \in NodeKind,
           PopFreePage(s, kind)
    PROVE  /\ OneInv(s)' /\ file' = file /\ header' = header /\ torn' \in {torn, TRUE}
           /\ \/ Current(s)' = Current(s)
              \/ \E p \in Page : /\ Current(s).firstFree = p
                                 /\ file[p].content.kind = "free"
                                 /\ Current(s)' = [Current(s) EXCEPT !.firstFree = file[p].content.data]
                                 /\ torn' = torn
<1>1. PICK p \in Page : p = entity[s].firstFree
  BY Typed, EntityFields DEF PopFreePage
<1>2. /\ reading[s] = NotReading /\ entity[s].loaded /\ header' = header
      /\ Current(s) = entity[s] /\ entity[s] \in Entity
  BY Typed DEF PopFreePage, Running, Current
<1>3. ~torn => file[p].content.kind = "free" /\ file[p].type = "free"
  BY <1>1, <1>2, HeadIsFree
<1>4. PICK o : o = CachedObject(s, p)
  OBVIOUS
<1>5. CASE PopFree(s, kind)
  <2>1. /\ IsCached(s, p) /\ heap[o].raw.content.kind = "free" /\ NewId \in ObjectId
        /\ pageCache' = [pageCache EXCEPT ![s] = LRU!Got(@, p)]
        /\ entity' = [entity EXCEPT ![s].firstFree = heap[o].raw.content.data]
        /\ held' = [held EXCEPT ![s] = @ \cup {NewId}]
        /\ UNCHANGED <<reading, file, thrown, torn>>
    BY <1>1, <1>4, <1>5 DEF PopFree
  <2>2. PICK raw \in NewRaw(kind) :
           heap' = Append(Refreshed(heap, o), Made(p, raw, Empty(kind)))
    BY <1>1, <1>4, <1>5 DEF PopFree
  <2>3. o \in DOMAIN heap /\ heap[o].index = p
    BY <1>4, <2>1, Known
  <2>4. file[p].content = heap[o].raw.content
    <3>1. LatestKind(s, p) = "free" /\ Latest(s, p) = heap[o].raw
      BY <1>4, <2>1 DEF LatestKind, Latest
    <3> QED BY <3>1, Found
  <2>5. entity'[s] = [entity[s] EXCEPT !.firstFree = file[p].content.data]
    BY <2>1, <2>4, Typed
  <2>6. /\ entity'[s].loaded
        /\ Current(s)' = [Current(s) EXCEPT !.firstFree = file[p].content.data]
    <3>1. entity'[s].loaded
      BY <1>2, <2>5 DEF Entity
    <3> QED BY <1>2, <2>5, <3>1 DEF Current
  <2>7. Gives(s, p, kind)
    <3> PICK objects : objects = Refreshed(heap, o)
      OBVIOUS
    <3>1. /\ objects \in Seq(Object) /\ Len(objects) = Len(heap) /\ DOMAIN objects = DOMAIN heap
          /\ \A x \in DOMAIN heap : objects[x].index = heap[x].index /\ objects[x].raw = heap[x].raw
          /\ \A x \in DOMAIN heap : x # o => objects[x] = heap[x]
      BY <2>3, Typed, RefreshedFacts
    <3>2. raw \in Raw /\ Empty(kind) \in Content
      BY ObjectFields, ContentKinds
    <3>3. NewId = Len(objects) + 1
      BY <3>1 DEF NewId
    <3>4. /\ DOMAIN heap' = DOMAIN heap \cup {NewId} /\ NewId \notin DOMAIN heap
          /\ \A x \in DOMAIN heap : heap'[x] = objects[x]
          /\ heap'[NewId] = Made(p, raw, Empty(kind))
      BY <2>1, <2>2, <3>1, <3>2, <3>3, Joined
    <3>5. \A x \in held[s] : heap'[x] = heap[x]
      <4>1. o \notin held[s]
        BY <2>1, ContentKinds DEF OneInv, Basics, HeldAgree
      <4> QED BY <3>1, <3>4, <4>1, HeldMade
    <3>6. \A q \in Page : /\ IsCached(s, q)' <=> IsCached(s, q)
                          /\ IsCached(s, q) => CachedObject(s, q)' = CachedObject(s, q)
      BY <2>1, GotKeeps
    <3>7. \A x \in DOMAIN heap : heap'[x].index = heap[x].index /\ heap'[x].raw = heap[x].raw
      BY <3>1, <3>4
    <3> QED BY <1>2, <2>1, <2>6, <3>4, <3>5, <3>6, <3>7 DEF Gives
  <2>8. /\ Basics(s)'
        /\ HandlesAgree(s) /\ ~InTree(p) /\ p \notin HeldPages(s) => HandlesAgree(s)'
        /\ \A q \in Page : q \in HeldPages(s)' <=> q \in HeldPages(s) \/ q = p
    BY <2>7, GivesFacts
  <2>9. ASSUME ~torn PROVE Orderly(s)'
    <3>1. Orderly(s)
      BY <2>9 DEF OneInv
    <3>2. Current(s)'.firstFree = file[p].content.data /\ Current(s)'.nPage = Current(s).nPage
      BY <1>2, <2>6 DEF Entity
    <3>3. PagesDivided(s)' /\ p \notin HeldPages(s) /\ file[p].content.kind = "free"
      BY <1>1, <1>2, <2>1, <2>8, <3>1, <3>2, ListShrinks DEF Orderly
    <3>4. ~InTree(p)
      BY <3>3, ContentKinds DEF InTree
    <3> QED BY <2>1, <2>8, <3>1, <3>3, <3>4 DEF Orderly
  <2>10. OneInv(s)'
    BY <2>1, <2>8, <2>9 DEF OneInv
  <2> QED BY <1>1, <1>2, <2>1, <2>4, <2>6, <2>10
<1>6. CASE PopOther(s) /\ UNCHANGED entity
  <2>1. /\ IsCached(s, p) /\ heap[o].raw.content.kind # "free"
        /\ pageCache' = [pageCache EXCEPT ![s] = LRU!Got(@, p)]
        /\ heap' = Refreshed(heap, o) /\ UNCHANGED <<reading, file>>
        /\ Fail(s) \/ End
    BY <1>1, <1>4, <1>6 DEF PopOther
  <2>2. o \in DOMAIN heap /\ heap[o].index = p
    BY <1>4, <2>1, Known
  <2>3. torn
    <3>1. Latest(s, p) = heap[o].raw
      BY <1>4, <2>1 DEF Latest
    <3> QED BY <1>3, <2>1, <3>1, Found
  <2>4. /\ DOMAIN heap' = DOMAIN heap
        /\ \A x \in DOMAIN heap : heap'[x].index = heap[x].index /\ heap'[x].raw = heap[x].raw
        /\ \A x \in DOMAIN heap : x # o => heap'[x] = heap[x]
        /\ heap'[o].live = heap[o].raw.content
    BY <2>1, <2>2, Typed, RefreshedFacts
  <2>5. \A q \in Page : /\ IsCached(s, q)' = IsCached(s, q)
                        /\ IsCached(s, q) => CachedObject(s, q)' = CachedObject(s, q)
    BY <2>1, GotKeeps
  <2>6. held'[s] \subseteq held[s] /\ torn' = TRUE
    BY <2>1, <2>3, EndFacts
  <2>7. CacheAgrees(s)'
    BY <2>1, <2>4, <2>5, Known DEF OneInv, Basics, CacheAgrees, IsCached, CachedObject
  <2>8. ReadingAgrees(s)' /\ BytesMarked'
    BY <1>2, <2>1, <2>4 DEF OneInv, Basics, ReadingAgrees, BytesMarked
  <2>9. HeldAgree(s)'
    BY <1>2, <1>6, <2>1, <2>4, <2>6, HeldMade DEF OneInv, Basics, HeldAgree
  <2>10. header'.loaded /\ Current(s)' = Current(s)
    BY <1>2, <1>6, Known DEF Current
  <2> QED BY <1>2, <2>1, <2>6, <2>7, <2>8, <2>9, <2>10 DEF OneInv, Basics
<1>7. CASE StartRead(s, p, "null", held[s]) /\ UNCHANGED <<entity, thrown>>
  <2>1. file[p].type = "leaf"
    BY <1>7 DEF StartRead
  <2>2. torn
    BY <1>3, <2>1
  <2>3. OneInv(s)' /\ file' = file /\ torn' = torn
    BY <1>2, <1>7, <2>1, <2>2, StartReadStep
  <2> QED BY <1>2, <1>7, <2>3 DEF Current
<1>8. CASE ReadBreaks(s, p, "null") /\ UNCHANGED <<entity, thrown>>
  <2>1. OneInv(s)' /\ torn' \in {torn, TRUE}
    BY <1>2, <1>8, ReadBreaksStep
  <2> QED BY <1>2, <1>8, <2>1 DEF ReadBreaks, Current
<1> QED BY <1>1, <1>5, <1>6, <1>7, <1>8 DEF PopFreePage

-----------------------------------------------------------------------------
(* The properties *)

\* Nothing but the counters may change: the pages keep their contents.
Kept == \A q \in Page : file'[q].content = file[q].content

\* What a step of the only session is to the file of pages.
PageFileStep(s) ==
    \/ /\ Kept \/ \E p \in Page : LostAt(p)
       /\ Current(s)' = Current(s) /\ header' = header /\ torn' \in {torn, TRUE}
    \/ /\ \E p \in Page, node \in Node : Becomes(p, node)
       /\ Current(s)' = Current(s) /\ header' = header /\ torn' = torn
    \/ /\ Kept
       /\ Current(s)' = Current(s) /\ header' = Current(s) /\ torn' = torn
    \/ /\ Kept
       /\ Current(s).firstFree = NoPage /\ Current(s).nPage \in Page
       /\ Current(s)' = [Current(s) EXCEPT !.nPage = @ + 1]
       /\ header' = header /\ torn' = torn
    \/ /\ Kept
       /\ \E p \in Page : /\ Current(s).firstFree = p
                          /\ file[p].content.kind = "free"
                          /\ Current(s)' = [Current(s) EXCEPT !.firstFree = file[p].content.data]
       /\ header' = header /\ torn' = torn
    \/ /\ \E p \in Page : /\ InTree(p) /\ Becomes(p, Free(Current(s).firstFree))
                          /\ Current(s)' = [Current(s) EXCEPT !.firstFree = p]
       /\ header' = header /\ torn' = torn
    \/ /\ Kept
       /\ Current(s)' = header /\ header' = header
       /\ torn' \in BOOLEAN /\ (~torn' => ~torn /\ Current(s) = header)

\* Every step of the only session keeps the invariant.
LEMMA OneStep ==
    ASSUME Roomy, NEW s \in Session, Session = {s}, TypeInv, OneInv(s), [Next]_vars
    PROVE  OneInv(s)' /\ PageFileStep(s)
<1>0. file' = file => Kept
  BY DEF Kept
<1>1. CASE OpenEntity(s) \/ SaveEntity(s) \/ Reopen(s)
  <2>1. OneInv(s)' /\ Current(s)' = Current(s)
    BY <1>1, EntitySteps
  <2>2. file' = file /\ torn' = torn
    BY <1>1 DEF OpenEntity, SaveEntity, Reopen
  <2>3. header' = header \/ header' = Current(s)
    BY <1>1 DEF OpenEntity, SaveEntity, Reopen, Current
  <2> QED BY <1>0, <2>1, <2>2, <2>3 DEF PageFileStep
<1>2. ASSUME NEW p \in Page, ReadPage(s, p)
      PROVE  OneInv(s)' /\ PageFileStep(s)
  <2>1. /\ reading[s] = NotReading /\ entity[s].loaded /\ Readable(s, p)
        /\ UNCHANGED <<entity, header, thrown>>
        /\ \/ ReadCached(s, p, held[s]) \/ StartRead(s, p, "null", held[s] \cup {NewId})
           \/ ReadBreaks(s, p, "null")
    BY <1>2 DEF ReadPage, Running
  <2>2. Current(s)' = Current(s)
    BY <2>1 DEF Current
  <2>3. OneInv(s)' /\ file' = file /\ torn' \in {torn, TRUE}
    <3>1. CASE ReadCached(s, p, held[s])
      <4>1. held[s] \in SUBSET held[s] /\ \A y \in held[s] \ held[s] : InTree(heap[y].index)
        OBVIOUS
      <4>2. OneInv(s)' /\ torn' \in {torn, TRUE}
        BY <2>1, <3>1, <4>1, ReadCachedStep
      <4> QED BY <3>1, <4>2 DEF ReadCached
    <3>2. CASE StartRead(s, p, "null", held[s] \cup {NewId})
      <4> PICK holds : holds = held[s] \cup {NewId}
        OBVIOUS
      <4>1. /\ Readable(s, p) /\ NewId \in holds /\ holds \subseteq held[s] \cup {NewId}
            /\ \A y \in held[s] \ holds : InTree(heap[y].index)
        BY <2>1
      <4>2. OneInv(s)' /\ file' = file /\ torn' = torn
        BY <2>1, <3>2, <4>1, StartReadStep
      <4> QED BY <4>2
    <3>3. CASE ReadBreaks(s, p, "null")
      <4>1. OneInv(s)' /\ torn' \in {torn, TRUE}
        BY <2>1, <3>3, ReadBreaksStep
      <4> QED BY <3>3, <4>1 DEF ReadBreaks
    <3> QED BY <2>1, <3>1, <3>2, <3>3
  <2> QED BY <1>0, <2>1, <2>2, <2>3 DEF PageFileStep
<1>3. ASSUME NEW o \in held[s], NEW p \in Page, ReadNextPage(s, o, p)
      PROVE  OneInv(s)' /\ PageFileStep(s)
  <2> PICK keep, given : keep = held[s] \ {o} /\ given = PageType(heap[o])
    OBVIOUS
  <2>1. /\ reading[s] = NotReading /\ entity[s].loaded /\ Readable(s, p) /\ Clean(s, o)
        /\ UNCHANGED <<entity, header, thrown>>
        /\ \/ ReadCached(s, p, keep) \/ StartRead(s, p, given, keep \cup {NewId})
           \/ ReadBreaks(s, p, given)
    BY <1>3 DEF ReadNextPage, Running
  <2>2. Current(s)' = Current(s)
    BY <2>1 DEF Current
  <2>3. InTree(heap[o].index)
    BY <2>1, HeldMade DEF Clean
  <2>4. OneInv(s)' /\ file' = file /\ torn' \in {torn, TRUE}
    <3>1. CASE ReadCached(s, p, keep)
      <4>1. keep \in SUBSET held[s] /\ \A y \in held[s] \ keep : InTree(heap[y].index)
        BY <2>3
      <4>2. OneInv(s)' /\ torn' \in {torn, TRUE}
        BY <2>1, <3>1, <4>1, ReadCachedStep
      <4> QED BY <3>1, <4>2 DEF ReadCached
    <3>2. CASE StartRead(s, p, given, keep \cup {NewId})
      <4> PICK holds : holds = keep \cup {NewId}
        OBVIOUS
      <4>1. /\ Readable(s, p) /\ NewId \in holds /\ holds \subseteq held[s] \cup {NewId}
            /\ \A y \in held[s] \ holds : InTree(heap[y].index)
        BY <2>1, <2>3
      <4>2. OneInv(s)' /\ file' = file /\ torn' = torn
        BY <2>1, <3>2, <4>1, StartReadStep
      <4> QED BY <4>2
    <3>3. CASE ReadBreaks(s, p, given)
      <4>1. OneInv(s)' /\ torn' \in {torn, TRUE}
        BY <2>1, <3>3, ReadBreaksStep
      <4> QED BY <3>3, <4>1 DEF ReadBreaks
    <3> QED BY <2>1, <3>1, <3>2, <3>3
  <2> QED BY <1>0, <2>1, <2>2, <2>4 DEF PageFileStep
<1>4. CASE FinishRead(s)
  BY <1>4, FinishReadStep DEF PageFileStep, SameOrLost, Kept
<1>5. ASSUME NEW kind \in NodeKind, ExtendFile(s, kind)
      PROVE  OneInv(s)' /\ PageFileStep(s)
  BY <1>0, <1>5, ExtendStep DEF PageFileStep
<1>6. ASSUME NEW kind \in NodeKind, PopFreePage(s, kind)
      PROVE  OneInv(s)' /\ PageFileStep(s)
  BY <1>0, <1>6, PopStep DEF PageFileStep
<1>7. ASSUME NEW o \in held[s], NEW v \in Value, EditPage(s, o, v)
      PROVE  OneInv(s)' /\ PageFileStep(s)
  <2>1. file' = file /\ Current(s)' = Current(s) /\ header' = header /\ torn' = torn
    BY <1>7 DEF EditPage, Current
  <2> QED BY <1>0, <1>7, <2>1, EditStep DEF PageFileStep
<1>8. ASSUME NEW o \in held[s], DropPage(s, o)
      PROVE  OneInv(s)' /\ PageFileStep(s)
  <2>1. file' = file /\ Current(s)' = Current(s) /\ header' = header /\ torn' = torn
    BY <1>8 DEF DropPage, Current
  <2> QED BY <1>0, <1>8, <2>1, DropStep DEF PageFileStep
<1>9. ASSUME NEW o \in held[s], WritePage(s, o)
      PROVE  OneInv(s)' /\ PageFileStep(s)
  BY <1>9, WriteStep DEF PageFileStep, SameOrLost, Kept
<1>10. ASSUME NEW o \in held[s], FreePage(s, o)
       PROVE  OneInv(s)' /\ PageFileStep(s)
  BY <1>10, FreeStep DEF PageFileStep
<1>11. CASE Restart
  BY <1>0, <1>11, RestartStep DEF PageFileStep
<1>12. CASE UNCHANGED vars
  <2>1. UNCHANGED <<heap, pageCache, entity, held, reading, file, header, thrown, torn>>
    BY <1>12 DEF vars
  <2>2. /\ Current(s)' = Current(s) /\ header'.loaded
        /\ entity'[s].loaded \/ held'[s] = {}
    BY <2>1, Known DEF Current
  <2>3. OneInv(s)'
    BY <2>1, <2>2, NothingMoved
  <2> QED BY <1>0, <2>1, <2>2, <2>3 DEF PageFileStep
<1> QED
  BY <1>1, <1>2, <1>3, <1>4, <1>5, <1>6, <1>7, <1>8, <1>9, <1>10, <1>11, <1>12
  DEF Next, SessionStep

\* The invariant holds in every reachable state.
LEMMA OneAlways ==
    ASSUME Roomy, NEW s \in Session, Session = {s}
    PROVE  Spec => [](TypeInv /\ OneInv(s))
<1>1. ASSUME Init PROVE OneInv(s)
  <2>1. /\ heap = <<>> /\ reading[s] = NotReading
        /\ entity[s] = Unloaded /\ header = NewEntity /\ held[s] = {} /\ thrown = {}
        /\ pageCache[s] = LRU!EmptyCache
        /\ \A p \in Page : file[p].content = Unwritten
    BY <1>1 DEF Init
  <2>2. /\ header.loaded /\ Current(s).nPage = 1 /\ Current(s).firstFree = NoPage
    BY <2>1 DEF Current, Unloaded, NewEntity
  <2>3. \A p \in Page : ~IsCached(s, p)
    BY <2>1, EmptyCacheFacts DEF IsCached
  <2>4. CacheAgrees(s) /\ ReadingAgrees(s) /\ HeldAgree(s)
    BY <2>1, <2>3 DEF CacheAgrees, ReadingAgrees, HeldAgree
  <2>5. BytesMarked
    <3>1. \A o \in DOMAIN heap : FALSE
      BY <2>1
    <3>2. \A p \in Page : file[p].content.kind = "unwritten"
      BY <2>1 DEF Unwritten
    <3> QED BY <3>1, <3>2 DEF BytesMarked, Marked
  <2>6. HandlesAgree(s) /\ HeldPages(s) = {}
    BY <2>1 DEF HandlesAgree, HeldPages
  <2>7. \E list \in [1..0 -> Page] :
           IsFreeList(0, list, Current(s).firstFree) /\ Divides(s, 0, list)
    <3>1. PICK list \in [1..0 -> Page] : TRUE
      <4> DEFINE f == [i \in 1..0 |-> NoPage]
      <4>1. f \in [1..0 -> Page]
        OBVIOUS
      <4> QED BY <4>1
    <3>2. IsFreeList(0, list, Current(s).firstFree)
      BY <2>2 DEF IsFreeList
    <3>3. Divides(s, 0, list)
      <4>1. \A p \in Page : ~(p < 1) /\ ~InTree(p)
        BY <2>1, ContentKinds DEF Page, InTree
      <4> QED BY <2>2, <2>6, <4>1 DEF Divides
    <3> QED BY <3>2, <3>3
  <2>8. PagesDivided(s)
    BY <2>7 DEF PagesDivided
  <2> QED BY <2>1, <2>2, <2>4, <2>5, <2>6, <2>8 DEF OneInv, Basics, Orderly
<1>2. TypeInv /\ OneInv(s) /\ [Next]_vars => OneInv(s)'
  BY OneStep
<1> QED BY <1>1, <1>2, AlwaysTyped, PTL DEF Spec

\* There is one session at a time.
OneSession == \E s \in Session : Session = {s}

\* The cache never hides a page: with one session at a time, what it finds is
\* what the file holds, whatever reads lose and wherever the process ends.
THEOREM CacheIsInvisible ==
    ASSUME Roomy, OneSession
    PROVE  Spec => []FileIsCurrent
<1>1. PICK s \in Session : Session = {s}
  BY DEF OneSession
<1>2. TypeInv /\ OneInv(s) => FileIsCurrent
  BY <1>1, Found DEF FileIsCurrent
<1> QED BY <1>1, <1>2, OneAlways, PTL

\* No held page is a stale copy of what the cache has.
THEOREM NoStaleHandle ==
    ASSUME Roomy, OneSession
    PROVE  Spec => []HandleIsCurrent
<1>1. PICK s \in Session : Session = {s}
  BY DEF OneSession
<1>2. ASSUME TypeInv, OneInv(s) PROVE HandleIsCurrent
  <2> SUFFICES ASSUME ~torn, NEW o \in held[s], LatestKind(s, heap[o].index) \in TreeKind
               PROVE  IsCached(s, heap[o].index) /\ CachedObject(s, heap[o].index) = o
    BY <1>1 DEF HandleIsCurrent
  <2>1. InTree(heap[o].index)
    BY <1>2, HeldMade, Found
  <2> QED BY <1>2, <2>1 DEF OneInv, Orderly, HandlesAgree
<1> QED BY <1>1, <1>2, OneAlways, PTL

\* A set of numbers that is not empty has a least one.
LEMMA Least ==
    ASSUME NEW T, T \subseteq Nat, T # {}
    PROVE  \E n \in T : \A m \in T : n <= m
<1>1. \E n \in T : \A m \in T : ~(<<m, n>> \in OpToRel(<, Nat))
  BY WFMin, NatLessThanWellFounded, Zenon
<1>2. \A m, n \in T : m < n => <<m, n>> \in OpToRel(<, Nat)
  BY DEF OpToRel
<1>3. \E n \in T : \A m \in T : ~(m < n)
  BY <1>1, <1>2, Zenon
<1> QED BY <1>3

\* The pages that the list of free pages reaches from its head are the pages of
\* the list.
LEMMA ChainIsList ==
    ASSUME NEW s \in Session,
           NEW n \in Nat, NEW list, IsFreeList(n, list, entity[s].firstFree),
           \A q \in Page : file[q].content.kind = "free" => Latest(s, q) = file[q]
    PROVE  FreeChain(s) = {list[i] : i \in 1..n}
<1> DEFINE R == {list[i] : i \in 1..n}
           Closed(C) == /\ entity[s].firstFree \in C \cup {NoPage}
                        /\ \A q \in C : LatestKind(s, q) = "free" =>
                                           Latest(s, q).content.data \in C \cup {NoPage}
<1>1. \A i \in 1..n :
         /\ list[i] \in Page
         /\ LatestKind(s, list[i]) = "free"
         /\ Latest(s, list[i]).content.data = IF i = 1 THEN NoPage ELSE list[i - 1]
  <2> SUFFICES ASSUME NEW i \in 1..n
               PROVE  /\ list[i] \in Page
                      /\ LatestKind(s, list[i]) = "free"
                      /\ Latest(s, list[i]).content.data = IF i = 1 THEN NoPage ELSE list[i - 1]
    OBVIOUS
  <2>1. /\ list[i] \in Page /\ file[list[i]].content.kind = "free"
        /\ file[list[i]].content.data = IF i = 1 THEN NoPage ELSE list[i - 1]
    BY DEF IsFreeList
  <2>2. Latest(s, list[i]) = file[list[i]]
    BY <2>1
  <2> QED BY <2>1, <2>2 DEF LatestKind
<1>2. entity[s].firstFree = IF n = 0 THEN NoPage ELSE list[n]
  BY DEF IsFreeList
<1>3. R \in SUBSET Page /\ Closed(R)
  <2>1. R \in SUBSET Page
    BY <1>1
  <2>2. entity[s].firstFree \in R \cup {NoPage}
    BY <1>2
  <2>3. ASSUME NEW i \in 1..n PROVE Latest(s, list[i]).content.data \in R \cup {NoPage}
    <3>1. i # 1 => i - 1 \in 1..n
      OBVIOUS
    <3> QED BY <1>1, <3>1
  <2> QED BY <2>1, <2>2, <2>3
<1>4. ASSUME NEW C \in SUBSET Page, Closed(C), NEW i \in 1..n PROVE list[i] \in C
  <2> DEFINE T == {k \in Nat : k < n /\ list[n - k] \notin C}
  <2> SUFFICES ASSUME list[i] \notin C PROVE FALSE
    OBVIOUS
  <2>1. n - i \in T
    <3>1. n - (n - i) = i /\ n - i \in Nat /\ n - i < n
      OBVIOUS
    <3> QED BY <3>1
  <2>2. PICK k \in T : \A m \in T : k <= m
    <3> HIDE DEF T
    <3>1. T # {}
      BY <2>1
    <3>2. T \subseteq Nat
      BY DEF T
    <3> QED BY <3>1, <3>2, Least
  <2>3. CASE k = 0
    <3>1. n - k = n /\ n \in 1..n /\ list[n] \notin C
      BY <2>2, <2>3
    <3> QED BY <1>1, <1>2, <1>4, <3>1 DEF Page, NoPage
  <2>4. CASE k # 0
    <3>1. k - 1 \in Nat /\ k - 1 < n /\ ~(k <= k - 1)
      BY <2>2, <2>4
    <3>2. list[n - (k - 1)] \in C
      BY <2>2, <3>1
    <3> DEFINE j == n - (k - 1)
    <3>3. j \in 1..n /\ j # 1 /\ j - 1 = n - k /\ n - k \in 1..n
      BY <2>2, <2>4
    <3>4. list[j] \in C /\ list[j - 1] \notin C /\ list[j - 1] \in Page
      BY <1>1, <2>2, <3>2, <3>3
    <3> HIDE DEF j
    <3>5. list[j - 1] \in C \cup {NoPage}
      BY <1>1, <1>4, <3>3, <3>4
    <3> QED BY <3>4, <3>5 DEF Page, NoPage
  <2> QED BY <2>3, <2>4
<1> HIDE DEF R, Closed
<1>5. FreeChain(s) = {p \in Page : \A C \in SUBSET Page : Closed(C) => p \in C}
  BY DEF FreeChain, Closed
<1>6. \A p \in FreeChain(s) : p \in R
  BY <1>3, <1>5
<1>7. \A i \in 1..n : list[i] \in FreeChain(s)
  BY <1>1, <1>4, <1>5
<1> QED BY <1>6, <1>7 DEF R

\* No page is given out twice or forgotten, and popFreePage never meets a page
\* that is not free, as long as nothing ended in the middle of a change.
THEOREM FreeListStaysSound ==
    ASSUME Roomy, OneSession
    PROVE  Spec => []FreeListIsSound
<1>1. PICK s \in Session : Session = {s}
  BY DEF OneSession
<1>2. ASSUME TypeInv, OneInv(s), ~torn, entity[s].loaded
      PROVE  /\ InUse(s) \cup FreeChain(s) = 1..entity[s].nPage - 1
             /\ InUse(s) \cap FreeChain(s) = {}
  <2>1. PICK n \in Nat : \E list \in [1..n -> Page] :
           IsFreeList(n, list, Current(s).firstFree) /\ Divides(s, n, list)
    BY <1>2 DEF OneInv, Orderly, PagesDivided
  <2>2. PICK list \in [1..n -> Page] :
           IsFreeList(n, list, Current(s).firstFree) /\ Divides(s, n, list)
    BY <2>1
  <2>3. Current(s) = entity[s] /\ entity[s].nPage \in 1..MaxPage + 1
    BY <1>2, Known, EntityFields DEF Current
  <2>4. FreeChain(s) = {list[i] : i \in 1..n}
    BY <1>2, <2>2, <2>3, Found, ChainIsList
  <2>5. \A p \in Page : p \in InUse(s) <=> InTree(p) \/ p \in HeldPages(s)
    BY <1>2, Found DEF InUse, HeldPages
  <2>6. InUse(s) \subseteq Page /\ FreeChain(s) \subseteq Page
    BY <1>2, <2>4, HeldMade DEF InUse
  <2>7. \A p \in Page : p < entity[s].nPage <=> p \in InUse(s) \/ p \in FreeChain(s)
    BY <2>2, <2>3, <2>4, <2>5 DEF Divides
  <2>8. \A p \in FreeChain(s) : p \notin InUse(s)
    <3>1. \A i \in 1..n : file[list[i]].content.kind = "free"
      BY <2>2 DEF IsFreeList
    <3>2. \A i \in 1..n : list[i] \notin HeldPages(s) /\ ~InTree(list[i])
      BY <2>2, <3>1, ContentKinds DEF Divides, InTree
    <3> QED BY <2>4, <2>5, <2>6, <3>2
  <2>9. \A p : p \in 1..entity[s].nPage - 1 <=> p \in Page /\ p < entity[s].nPage
    BY <2>3, BoundsAssumption DEF Page
  <2> QED BY <2>6, <2>7, <2>8, <2>9
<1>3. TypeInv /\ OneInv(s) => FreeListIsSound
  BY <1>1, <1>2 DEF FreeListIsSound, PagesAccounted, PopFindsFreePage, OneInv, Orderly
<1> QED BY <1>1, <1>3, OneAlways, PTL

\* With one session at a time the page layer keeps its promise to the tree:
\* every step, a read that loses an internal node and an end of the process
\* included, is a step of a file of pages with a list of free ones, or changes
\* none of it.
THEOREM PageLayerImplementsPageFile ==
    ASSUME Roomy, OneSession
    PROVE  Spec => ImplementsPageFile
<1>1. PICK s \in Session : Session = {s} /\ TheSession = s
  BY DEF OneSession, TheSession
<1> DEFINE content == [p \in Page |-> file[p].content]
           nPage == Current(TheSession).nPage
           firstFree == Current(TheSession).firstFree
           saved == [nPage |-> header.nPage, firstFree |-> header.firstFree]
           counters == [nPage |-> nPage, firstFree |-> firstFree]
<1>2. nPage = Current(s).nPage /\ firstFree = Current(s).firstFree
  BY <1>1
<1>3. nPage' = Current(s)'.nPage /\ firstFree' = Current(s)'.firstFree
  BY <1>1
<1>4. /\ Pages!Page = Page /\ Pages!Node = Node /\ Pages!Lost = Lost
      /\ \A next : Pages!Free(next) = Free(next)
  BY DEF Pages!Page, Page, Pages!Node, Node, NodeKind, Pages!Free, Free, Pages!Lost, Lost, NoPage
<1>5. ASSUME Init PROVE Pages!Init
  <2>1. /\ content = [p \in Page |-> Unwritten] /\ nPage = 1 /\ firstFree = NoPage
        /\ saved = counters /\ torn = FALSE
    BY <1>1, <1>5 DEF Init, Current, Unloaded, NewEntity
  <2> QED BY <1>4, <2>1 DEF Pages!Init, Pages!Counters, Unwritten, NoPage
<1>6. ASSUME PageFileStep(s), TypeInv, OneInv(s) PROVE [Pages!Next]_Pages!vars
  <2>1. Kept => content' = content
    BY DEF Kept
  <2>2. ASSUME NEW p \in Page, NEW x, Becomes(p, x) PROVE content' = [content EXCEPT ![p] = x]
    BY <2>2 DEF Becomes
  <2>3. Current(s)' = Current(s) => UNCHANGED <<nPage, firstFree>>
    BY <1>2, <1>3
  <2>4. header' = header => saved' = saved
    OBVIOUS
  <2>5. Current(s) \in Entity /\ torn \in BOOLEAN
    BY <1>6, Known, Typed
  <2>6. \A q \in Page : content[q] = file[q].content
    OBVIOUS
  <2>7. CASE /\ Kept \/ \E p \in Page : LostAt(p)
             /\ Current(s)' = Current(s) /\ header' = header /\ torn' \in {torn, TRUE}
    <3>1. CASE Kept /\ torn' = torn
      BY <2>1, <2>3, <2>4, <2>7, <3>1 DEF Pages!vars
    <3>2. CASE Kept /\ torn' = TRUE
      BY <2>1, <2>3, <2>4, <2>7, <3>2 DEF Pages!Next, Pages!Abandon
    <3>3. ASSUME NEW p \in Page, LostAt(p) PROVE Pages!Next
      <4>1. content' = [content EXCEPT ![p] = Lost]
        BY <2>2, <3>3 DEF LostAt
      <4>2. content[p].kind = "internal" \/ torn
        BY <2>6, <3>3 DEF LostAt
      <4>3. Pages!Lose(p)
        BY <1>4, <2>3, <2>4, <2>7, <4>1, <4>2 DEF Pages!Lose
      <4> QED BY <1>4, <4>3 DEF Pages!Next
    <3> QED BY <2>7, <3>1, <3>2, <3>3
  <2>8. ASSUME NEW p \in Page, NEW node \in Node, Becomes(p, node),
               Current(s)' = Current(s), header' = header, torn' = torn
        PROVE  Pages!Next
    <3>1. Pages!Write(p, node)
      BY <2>2, <2>3, <2>4, <2>8 DEF Pages!Write
    <3> QED BY <1>4, <3>1 DEF Pages!Next
  <2>9. CASE /\ Kept
             /\ Current(s)' = Current(s) /\ header' = Current(s) /\ torn' = torn
    <3>1. saved' = counters
      BY <1>2, <2>9
    <3> QED BY <2>1, <2>3, <2>9, <3>1 DEF Pages!Next, Pages!Save, Pages!Counters
  <2>10. CASE /\ Kept
              /\ Current(s).firstFree = NoPage /\ Current(s).nPage \in Page
              /\ Current(s)' = [Current(s) EXCEPT !.nPage = @ + 1]
              /\ header' = header /\ torn' = torn
    <3>1. nPage' = nPage + 1 /\ firstFree' = firstFree
      BY <1>2, <1>3, <2>5, <2>10 DEF Entity
    <3>2. Pages!Extend
      BY <1>2, <1>4, <2>1, <2>4, <2>10, <3>1 DEF Pages!Extend, NoPage
    <3> QED BY <3>2 DEF Pages!Next
  <2>11. ASSUME NEW p \in Page, Kept, Current(s).firstFree = p, file[p].content.kind = "free",
                Current(s)' = [Current(s) EXCEPT !.firstFree = file[p].content.data],
                header' = header, torn' = torn
         PROVE  Pages!Next
    <3>1. firstFree = p /\ firstFree # 0 /\ content[p] = file[p].content
      BY <1>2, <2>6, <2>11 DEF Page
    <3>2. nPage' = nPage /\ firstFree' = content[p].data
      BY <1>2, <1>3, <2>5, <2>11, <3>1 DEF Entity
    <3>3. Pages!Take
      BY <2>1, <2>4, <2>11, <3>1, <3>2 DEF Pages!Take
    <3> QED BY <3>3 DEF Pages!Next
  <2>12. ASSUME NEW p \in Page, InTree(p), Becomes(p, Free(Current(s).firstFree)),
                Current(s)' = [Current(s) EXCEPT !.firstFree = p],
                header' = header, torn' = torn
         PROVE  Pages!Next
    <3>1. nPage' = nPage /\ firstFree' = p
      BY <1>2, <1>3, <2>5, <2>12 DEF Entity
    <3>2. content' = [content EXCEPT ![p] = Free(firstFree)]
      BY <1>2, <2>2, <2>12
    <3>3. content[p].kind \in {"leaf", "internal", "lost"}
      BY <2>6, <2>12 DEF InTree, TreeKind, NodeKind
    <3>4. Pages!Release(p)
      BY <1>4, <2>4, <2>12, <3>1, <3>2, <3>3 DEF Pages!Release
    <3> QED BY <1>4, <3>4 DEF Pages!Next
  <2>13. CASE /\ Kept
              /\ Current(s)' = header /\ header' = header
              /\ torn' \in BOOLEAN /\ (~torn' => ~torn /\ Current(s) = header)
    <3>1. nPage' = saved.nPage /\ firstFree' = saved.firstFree
      BY <1>3, <2>13
    <3>2. Current(s) = header => saved = counters
      BY <1>2
    <3>3. torn' \in IF saved = counters THEN {torn, TRUE} ELSE {TRUE}
      BY <2>5, <2>13, <3>2
    <3> QED BY <2>1, <2>4, <2>13, <3>1, <3>3 DEF Pages!Next, Pages!Restart, Pages!Counters
  <2> QED BY <1>6, <2>7, <2>8, <2>9, <2>10, <2>11, <2>12, <2>13 DEF PageFileStep
<1>7. TypeInv /\ OneInv(s) /\ [Next]_vars => PageFileStep(s)
  BY <1>1, OneStep
<1>8. Init => Pages!Init
  BY <1>5
<1>9. TypeInv /\ OneInv(s) /\ [Next]_vars => [Pages!Next]_Pages!vars
  BY <1>6, <1>7
<1>10. Spec => [](TypeInv /\ OneInv(s))
  BY <1>1, OneAlways
<1> QED BY <1>8, <1>9, <1>10, PTL DEF Spec, ImplementsPageFile, Pages!Spec
=============================================================================
