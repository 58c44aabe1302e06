----------------------------- MODULE CacheProofs ---------------------------
(***************************************************************************)
(* Proofs about LRUCache and CacheClient, for every size and set of keys:  *)
(* first what the operations do to one cache, in lemmas that the proofs    *)
(* about PageStore use too, then what holds of every reachable cache.      *)
(***************************************************************************)
EXTENDS CacheClient, FiniteSetTheorems, TLAPS

-----------------------------------------------------------------------------
(* What the operations on a cache do, in terms of positions *)

\* The nodes a cache lists have different numbers, none larger than made, and
\* lookup leads each cached key to the newest of its nodes.
Sound(c) ==
    /\ c \in Cache
    /\ \A i \in DOMAIN c.list : c.list[i].number <= c.made
    /\ \A i, j \in DOMAIN c.list : c.list[i].number = c.list[j].number => i = j
    /\ \A k \in Cached(c) :
          /\ \E i \in DOMAIN c.list :
                c.list[i].number = c.lookup[k] /\ c.list[i].key = k
          /\ \A i \in DOMAIN c.list :
                c.list[i].key = k => c.list[i].number <= c.lookup[k]

\* The fields of the nodes of a list.
LEMMA NodeFields ==
    ASSUME NEW list \in Seq(Node), NEW i \in DOMAIN list
    PROVE  /\ list[i] \in Node
           /\ list[i].number \in Nat /\ list[i].number # 0
           /\ list[i].key \in Key /\ list[i].value \in Value
<1>1. list[i] \in Node
  OBVIOUS
<1> QED BY <1>1 DEF Node

\* Where the positions of a list move when its first node is taken.
LEMMA TailPositions ==
    ASSUME NEW list \in Seq(Node), list # <<>>
    PROVE  /\ Tail(list) \in Seq(Node)
           /\ Len(Tail(list)) = Len(list) - 1
           /\ \A i \in DOMAIN Tail(list) :
                 i + 1 \in DOMAIN list /\ Tail(list)[i] = list[i + 1]
           /\ \A i \in DOMAIN list : i # 1 =>
                 i - 1 \in DOMAIN Tail(list) /\ Tail(list)[i - 1] = list[i]
           /\ Head(list) = list[1] /\ 1 \in DOMAIN list
OBVIOUS

\* Popping a sound cache that lists a node leaves it sound.
LEMMA PoppedSound ==
    ASSUME NEW c, Sound(c), c.list # <<>>
    PROVE  /\ Sound(Popped(c))
           /\ Popped(c).list = Tail(c.list)
           /\ Popped(c).made = c.made
           /\ c.list[1].key \in Key
           /\ Popped(c).lookup = [c.lookup EXCEPT ![c.list[1].key] = NoNode]
<1> DEFINE p == Popped(c)
           h == c.list[1].key
<1>1. c \in Cache /\ c.list \in Seq(Node) /\ c.lookup \in [Key -> Nat] /\ c.made \in Nat
  BY DEF Sound, Cache
<1>2. h \in Key
  BY <1>1, TailPositions, NodeFields
<1>3. /\ p.list = Tail(c.list)
      /\ p.made = c.made
      /\ p.lookup = [c.lookup EXCEPT ![h] = NoNode]
  BY <1>1, TailPositions DEF Popped
<1>4. p \in Cache
  <2> HIDE DEF p, h
  <2> DEFINE f == [c.lookup EXCEPT ![h] = NoNode]
  <2>3. f \in [Key -> Nat]
    BY <1>1 DEF NoNode
  <2>1. p.lookup \in [Key -> Nat]
    BY <1>3, <2>3
  <2>2. p = [list |-> p.list, lookup |-> p.lookup, made |-> p.made]
    BY DEF Popped, p
  <2> QED BY <1>1, <1>3, <2>1, <2>2, TailPositions DEF Cache
<1>5. \A i \in DOMAIN p.list : i + 1 \in DOMAIN c.list /\ p.list[i] = c.list[i + 1]
  BY <1>1, <1>3, TailPositions
<1>6. \A i \in DOMAIN c.list : i # 1 => i - 1 \in DOMAIN p.list /\ p.list[i - 1] = c.list[i]
  BY <1>1, <1>3, TailPositions
<1>7. \A k \in Cached(p) : k \in Cached(c) /\ k # h /\ p.lookup[k] = c.lookup[k]
  BY <1>1, <1>2, <1>3 DEF Cached, Contains, NoNode
<1>8. DOMAIN p.list \subseteq Nat /\ DOMAIN c.list \subseteq Nat
  BY <1>1, <1>4 DEF Cache
<1> HIDE DEF p, h
<1>9. \A i \in DOMAIN p.list : p.list[i].number <= p.made
  BY <1>3, <1>5 DEF Sound
<1>10. \A i, j \in DOMAIN p.list : p.list[i].number = p.list[j].number => i = j
  BY <1>5, <1>8 DEF Sound
<1>11. ASSUME NEW k \in Cached(p)
       PROVE  \E i \in DOMAIN p.list : p.list[i].number = p.lookup[k] /\ p.list[i].key = k
  <2>1. PICK i \in DOMAIN c.list : c.list[i].number = c.lookup[k] /\ c.list[i].key = k
    BY <1>7 DEF Sound
  <2>2. i # 1
    BY <2>1, <1>7 DEF h
  <2> QED BY <2>1, <2>2, <1>6, <1>7
<1>12. ASSUME NEW k \in Cached(p), NEW i \in DOMAIN p.list, p.list[i].key = k
       PROVE  p.list[i].number <= p.lookup[k]
  BY <1>5, <1>7, <1>12 DEF Sound
<1>13. Sound(p)
  BY <1>4, <1>9, <1>10, <1>11, <1>12 DEF Sound
<1> QED BY <1>2, <1>3, <1>13 DEF p, h

\* Pushing a node onto a sound cache leaves it sound.
LEMMA PushedSound ==
    ASSUME NEW c, Sound(c), NEW k \in Key, NEW v \in Value
    PROVE  Sound(Pushed(c, k, v))
<1> DEFINE n == c.made + 1
           node == [number |-> n, key |-> k, value |-> v]
           p == Pushed(c, k, v)
<1>1. c \in Cache /\ c.list \in Seq(Node) /\ c.lookup \in [Key -> Nat] /\ c.made \in Nat
  BY DEF Sound, Cache
<1>2. node \in Node /\ node.number = n /\ node.key = k /\ n \in Nat /\ n > c.made /\ n # 0
  BY <1>1 DEF Node
<1>3. /\ p.list = Append(c.list, node)
      /\ p.lookup = [c.lookup EXCEPT ![k] = n]
      /\ p.made = n
      /\ p = [list |-> p.list, lookup |-> p.lookup, made |-> p.made]
  BY DEF Pushed
<1> HIDE DEF p
<1>4. p.list \in Seq(Node) /\ p.lookup \in [Key -> Nat] /\ p.made \in Nat
  <2> HIDE DEF node, n
  <2> QED BY <1>1, <1>2, <1>3
<1>5. p \in Cache
  BY <1>3, <1>4 DEF Cache
<1>6. \A i \in DOMAIN p.list :
         \/ i \in DOMAIN c.list /\ p.list[i] = c.list[i]
         \/ i = Len(c.list) + 1 /\ p.list[i] = node
  <2> HIDE DEF node
  <2> QED BY <1>1, <1>3
<1>7. /\ \A i \in DOMAIN c.list : i \in DOMAIN p.list /\ p.list[i] = c.list[i]
      /\ Len(c.list) + 1 \in DOMAIN p.list /\ p.list[Len(c.list) + 1] = node
  <2> HIDE DEF node
  <2> QED BY <1>1, <1>3
<1> HIDE DEF node
<1>8. \A i \in DOMAIN c.list : c.list[i].number <= c.made /\ c.list[i].number \in Nat
  BY <1>1, NodeFields DEF Sound
<1>9. \A i \in DOMAIN p.list : p.list[i].number <= p.made
  BY <1>1, <1>2, <1>3, <1>6, <1>8
<1>10. \A i, j \in DOMAIN p.list : p.list[i].number = p.list[j].number => i = j
  BY <1>1, <1>2, <1>6, <1>8 DEF Sound
<1>11. ASSUME NEW x \in Cached(p)
       PROVE  /\ \E i \in DOMAIN p.list : p.list[i].number = p.lookup[x] /\ p.list[i].key = x
              /\ \A i \in DOMAIN p.list : p.list[i].key = x => p.list[i].number <= p.lookup[x]
  <2>1. CASE x = k
    BY <1>1, <1>2, <1>3, <1>7, <1>9, <2>1
  <2>2. CASE x # k
    <3>1. x \in Cached(c) /\ p.lookup[x] = c.lookup[x]
      BY <1>1, <1>3, <2>2 DEF Cached, Contains
    <3>2. \E i \in DOMAIN c.list : c.list[i].number = c.lookup[x] /\ c.list[i].key = x
      BY <3>1 DEF Sound
    <3>3. \A i \in DOMAIN c.list : c.list[i].key = x => c.list[i].number <= c.lookup[x]
      BY <3>1 DEF Sound
    <3> QED BY <1>2, <1>6, <1>7, <2>2, <3>1, <3>2, <3>3
  <2> QED BY <2>1, <2>2
<1>12. Sound(p)
  BY <1>5, <1>9, <1>10, <1>11 DEF Sound
<1> QED BY <1>12 DEF p

\* The nodes of m are those of list in another order.
Permutes(m, list) ==
    \E from \in [DOMAIN list -> DOMAIN list] :
        /\ \A j \in DOMAIN list : m[j] = list[from[j]]
        /\ \A j, l \in DOMAIN list : from[j] = from[l] => j = l
        /\ \A j \in DOMAIN list : \E l \in DOMAIN list : from[l] = j

\* Moving the node at position i to the end permutes the list.
LEMMA MovedPositions ==
    ASSUME NEW list \in Seq(Node), NEW i \in DOMAIN list
    PROVE  /\ MoveToEnd(list, i) \in Seq(Node)
           /\ Len(MoveToEnd(list, i)) = Len(list)
           /\ DOMAIN MoveToEnd(list, i) = DOMAIN list
           /\ Permutes(MoveToEnd(list, i), list)
<1> DEFINE from == [j \in DOMAIN list |->
                       IF j < i THEN j ELSE IF j < Len(list) THEN j + 1 ELSE i]
<1>1. DOMAIN list = 1..Len(list) /\ Len(list) \in Nat
  OBVIOUS
<1>2. from \in [DOMAIN list -> DOMAIN list]
  BY <1>1
<1>3. \A j \in DOMAIN list : MoveToEnd(list, i)[j] = list[from[j]]
  BY <1>1 DEF MoveToEnd
<1>4. \A j, l \in DOMAIN list : from[j] = from[l] => j = l
  BY <1>1
<1>5. ASSUME NEW j \in DOMAIN list PROVE \E l \in DOMAIN list : from[l] = j
  <2>1. CASE j < i
    BY <1>1, <2>1
  <2>2. CASE j = i
    <3>1. Len(list) \in DOMAIN list /\ from[Len(list)] = j
      BY <1>1, <2>2
    <3> QED BY <3>1
  <2>3. CASE j > i
    <3>1. j - 1 \in DOMAIN list /\ from[j - 1] = j
      BY <1>1, <2>3
    <3> QED BY <3>1
  <2> QED BY <1>1, <2>1, <2>2, <2>3
<1>6. MoveToEnd(list, i) \in Seq(Node) /\ DOMAIN MoveToEnd(list, i) = DOMAIN list
  <2>1. MoveToEnd(list, i) \in [1..Len(list) -> Node]
    BY <1>1 DEF MoveToEnd
  <2> QED BY <1>1, <2>1
<1>7. Len(MoveToEnd(list, i)) = Len(list)
  BY <1>1, <1>6
<1>8. Permutes(MoveToEnd(list, i), list)
  BY <1>2, <1>3, <1>4, <1>5 DEF Permutes
<1> QED BY <1>6, <1>7, <1>8

\* The position lookup leads to exists.
LEMMA PositionExists ==
    ASSUME NEW c, Sound(c), NEW k \in Cached(c)
    PROVE  /\ Position(c, k) \in DOMAIN c.list
           /\ c.list[Position(c, k)].number = c.lookup[k]
<1>1. \E i \in DOMAIN c.list : c.list[i].number = c.lookup[k]
  BY DEF Sound
<1> QED BY <1>1 DEF Position

\* Getting a cached key leaves a sound cache sound.
LEMMA GotSound ==
    ASSUME NEW c, Sound(c), NEW k \in Cached(c)
    PROVE  Sound(Got(c, k))
<1> DEFINE g == Got(c, k)
           p == Position(c, k)
<1>1. c \in Cache /\ c.list \in Seq(Node) /\ c.lookup \in [Key -> Nat] /\ c.made \in Nat
  BY DEF Sound, Cache
<1>2. p \in DOMAIN c.list
  BY PositionExists
<1>3. /\ g.list = MoveToEnd(c.list, p)
      /\ g.lookup = c.lookup
      /\ g.made = c.made
      /\ g = [list |-> g.list, lookup |-> g.lookup, made |-> g.made]
  BY DEF Got
<1> HIDE DEF g, p
<1> DEFINE m == MoveToEnd(c.list, p)
<1>4. m \in Seq(Node) /\ DOMAIN m = DOMAIN c.list /\ Permutes(m, c.list)
  BY <1>1, <1>2, MovedPositions
<1> HIDE DEF m
<1>5. g.list = m /\ g.list \in Seq(Node) /\ DOMAIN g.list = DOMAIN c.list
  BY <1>3, <1>4 DEF m
<1>6. g \in Cache
  BY <1>1, <1>3, <1>5 DEF Cache
<1>7. PICK from \in [DOMAIN c.list -> DOMAIN c.list] :
         /\ \A j \in DOMAIN c.list : g.list[j] = c.list[from[j]]
         /\ \A j, l \in DOMAIN c.list : from[j] = from[l] => j = l
         /\ \A j \in DOMAIN c.list : \E l \in DOMAIN c.list : from[l] = j
  BY <1>5, <1>4 DEF Permutes
<1>8. Cached(g) = Cached(c)
  BY <1>3 DEF Cached, Contains
<1>9. \A j \in DOMAIN g.list : from[j] \in DOMAIN c.list /\ g.list[j] = c.list[from[j]]
  BY <1>5, <1>7
<1>10. \A i \in DOMAIN g.list : g.list[i].number <= g.made
  BY <1>3, <1>9 DEF Sound
<1>11. ASSUME NEW i \in DOMAIN g.list, NEW j \in DOMAIN g.list,
             g.list[i].number = g.list[j].number
      PROVE  i = j
  <2>1. from[i] = from[j]
    BY <1>11, <1>9 DEF Sound
  <2> QED BY <1>5, <1>7, <2>1
<1>12. ASSUME NEW x \in Cached(g)
       PROVE  /\ \E i \in DOMAIN g.list : g.list[i].number = g.lookup[x] /\ g.list[i].key = x
              /\ \A i \in DOMAIN g.list : g.list[i].key = x => g.list[i].number <= g.lookup[x]
  <2>1. PICK i \in DOMAIN c.list : c.list[i].number = c.lookup[x] /\ c.list[i].key = x
    BY <1>8 DEF Sound
  <2>2. \A l \in DOMAIN c.list : c.list[l].key = x => c.list[l].number <= c.lookup[x]
    BY <1>8 DEF Sound
  <2>3. PICK l \in DOMAIN c.list : from[l] = i
    BY <1>7
  <2>4. l \in DOMAIN g.list /\ g.list[l] = c.list[i]
    BY <1>5, <1>7, <2>3
  <2>5. \A j \in DOMAIN g.list : \E q \in DOMAIN c.list : g.list[j] = c.list[q]
    BY <1>9
  <2>6. \A j \in DOMAIN g.list : g.list[j].key = x => g.list[j].number <= g.lookup[x]
    BY <1>3, <2>2, <2>5
  <2> QED BY <1>3, <2>1, <2>4, <2>6
<1> QED BY <1>6, <1>10, <1>11, <1>12 DEF Sound, g

-----------------------------------------------------------------------------
(* Puts *)

\* A cache that is full lists a node: the size counts keys that are listed.
LEMMA FullIsNotEmpty ==
    ASSUME NEW c, Sound(c), Full(c)
    PROVE  c.list # <<>>
<1>1. Cached(c) # {}
  <2> SUFFICES ASSUME Cached(c) = {} PROVE FALSE
    OBVIOUS
  <2>1. Cardinality(Cached(c)) = 0
    BY FS_EmptySet
  <2> QED BY <2>1, MaxSizeAssumption DEF Full, Size
<1>2. \E i \in DOMAIN c.list : TRUE
  BY <1>1 DEF Sound
<1> QED BY <1>2

\* A put leaves a sound cache sound.
LEMMA PutSound ==
    ASSUME NEW c, Sound(c), NEW k \in Key, NEW v \in Value
    PROVE  Sound(Put(c, k, v))
<1>1. CASE Full(c)
  BY <1>1, FullIsNotEmpty, PoppedSound, PushedSound DEF Put
<1>2. CASE ~Full(c)
  BY <1>2, PushedSound DEF Put
<1> QED BY <1>1, <1>2

\* The empty cache is sound.
LEMMA EmptySound == Sound(EmptyCache)
<1>1. EmptyCache \in Cache
  BY DEF EmptyCache, Cache, NoNode
<1>2. Cached(EmptyCache) = {}
  BY DEF EmptyCache, Cached, Contains
<1> QED BY <1>1, <1>2 DEF Sound, EmptyCache

-----------------------------------------------------------------------------
(* What a cache gives back *)

\* The values a cache lists.
Holds(c) == {c.list[i].value : i \in DOMAIN c.list}

\* The node whose number lookup has for a key is the one that get returns.
LEMMA NumberedValue ==
    ASSUME NEW c, Sound(c), NEW k \in Cached(c), NEW i \in DOMAIN c.list,
           c.list[i].number = c.lookup[k]
    PROVE  GetReturns(c, k) = c.list[i].value
<1>1. Position(c, k) \in DOMAIN c.list /\ c.list[Position(c, k)].number = c.lookup[k]
  BY PositionExists
<1>2. Position(c, k) = i
  BY <1>1 DEF Sound
<1> QED BY <1>2 DEF GetReturns

\* What get returns is listed.
LEMMA GetReturnsHeld ==
    ASSUME NEW c, Sound(c), NEW k \in Key, Contains(c, k)
    PROVE  GetReturns(c, k) \in Holds(c)
<1>1. Position(c, k) \in DOMAIN c.list
  BY PositionExists DEF Cached
<1> QED BY <1>1 DEF GetReturns, Holds

\* What a cache lists are values.
LEMMA HoldsValues ==
    ASSUME NEW c, Sound(c)
    PROVE  Holds(c) \subseteq Value
<1>1. c.list \in Seq(Node)
  BY DEF Sound, Cache
<1> QED BY <1>1, NodeFields DEF Holds

\* A get keeps what is cached and what the next gets return.
LEMMA GotReturns ==
    ASSUME NEW c, Sound(c), NEW k \in Key, Contains(c, k)
    PROVE  /\ Sound(Got(c, k))
           /\ Holds(Got(c, k)) \subseteq Holds(c)
           /\ \A x \in Key : Contains(Got(c, k), x) <=> Contains(c, x)
           /\ \A x \in Key : Contains(c, x) =>
                 GetReturns(Got(c, k), x) = GetReturns(c, x)
<1> DEFINE g == Got(c, k)
           p == Position(c, k)
<1>1. c.list \in Seq(Node) /\ k \in Cached(c)
  BY DEF Sound, Cache, Cached
<1>2. p \in DOMAIN c.list /\ Sound(g)
  BY <1>1, PositionExists, GotSound
<1>3. g.list = MoveToEnd(c.list, p) /\ g.lookup = c.lookup
  BY DEF Got
<1> HIDE DEF g, p
<1>4. DOMAIN g.list = DOMAIN c.list /\ Permutes(g.list, c.list)
  BY <1>1, <1>2, <1>3, MovedPositions
<1>5. PICK from \in [DOMAIN c.list -> DOMAIN c.list] :
         /\ \A j \in DOMAIN c.list : g.list[j] = c.list[from[j]]
         /\ \A j \in DOMAIN c.list : \E l \in DOMAIN c.list : from[l] = j
  BY <1>4 DEF Permutes
<1>6. Holds(g) \subseteq Holds(c)
  BY <1>4, <1>5 DEF Holds
<1>7. \A x \in Key : Contains(g, x) <=> Contains(c, x)
  BY <1>3 DEF Contains
<1>8. ASSUME NEW x \in Key, Contains(c, x)
      PROVE  GetReturns(g, x) = GetReturns(c, x)
  <2>1. x \in Cached(c) /\ x \in Cached(g)
    BY <1>7, <1>8 DEF Cached
  <2>2. PICK i \in DOMAIN c.list : c.list[i].number = c.lookup[x]
    BY <2>1 DEF Sound
  <2>3. PICK l \in DOMAIN g.list : g.list[l] = c.list[i]
    BY <1>4, <1>5, <2>2
  <2>4. GetReturns(g, x) = g.list[l].value
    BY <1>2, <1>3, <2>1, <2>2, <2>3, NumberedValue
  <2>5. GetReturns(c, x) = c.list[i].value
    BY <2>1, <2>2, NumberedValue
  <2> QED BY <2>3, <2>4, <2>5
<1> QED BY <1>2, <1>6, <1>7, <1>8 DEF g

\* Pushing a node makes its value the one that get returns for its key, and
\* no other key's.
LEMMA PushedReturns ==
    ASSUME NEW c, Sound(c), NEW k \in Key, NEW v \in Value
    PROVE  /\ Holds(Pushed(c, k, v)) = Holds(c) \cup {v}
           /\ \A x \in Key : Contains(Pushed(c, k, v), x) <=> x = k \/ Contains(c, x)
           /\ GetReturns(Pushed(c, k, v), k) = v
           /\ \A x \in Key : x # k /\ Contains(c, x) =>
                 GetReturns(Pushed(c, k, v), x) = GetReturns(c, x)
<1> DEFINE n == c.made + 1
           node == [number |-> n, key |-> k, value |-> v]
           p == Pushed(c, k, v)
<1>1. c.list \in Seq(Node) /\ c.lookup \in [Key -> Nat] /\ c.made \in Nat /\ n # 0
  BY DEF Sound, Cache
<1>2. node \in Node /\ node.number = n /\ node.value = v
  BY <1>1 DEF Node
<1>3. Sound(p) /\ p.list = Append(c.list, node) /\ p.lookup = [c.lookup EXCEPT ![k] = n]
  BY PushedSound DEF Pushed
<1> HIDE DEF node, p, n
<1>4. /\ \A i \in DOMAIN c.list : i \in DOMAIN p.list /\ p.list[i] = c.list[i]
      /\ Len(c.list) + 1 \in DOMAIN p.list /\ p.list[Len(c.list) + 1] = node
      /\ DOMAIN p.list = DOMAIN c.list \cup {Len(c.list) + 1}
  BY <1>1, <1>2, <1>3
<1>5. Holds(p) = Holds(c) \cup {v}
  BY <1>2, <1>4 DEF Holds
<1>6. \A x \in Key : Contains(p, x) <=> x = k \/ Contains(c, x)
  BY <1>1, <1>3 DEF Contains, NoNode
<1>7. GetReturns(p, k) = v
  <2>1. k \in Cached(p) /\ p.lookup[k] = n
    BY <1>1, <1>3, <1>6 DEF Cached
  <2> DEFINE j == Len(c.list) + 1
  <2>2. j \in DOMAIN p.list /\ p.list[j].number = p.lookup[k] /\ p.list[j].value = v
    BY <1>2, <1>4, <2>1
  <2> HIDE DEF j
  <2> QED BY <1>3, <2>1, <2>2, NumberedValue
<1>8. ASSUME NEW x \in Key, x # k, Contains(c, x)
      PROVE  GetReturns(p, x) = GetReturns(c, x)
  <2>1. x \in Cached(c) /\ x \in Cached(p) /\ p.lookup[x] = c.lookup[x]
    BY <1>1, <1>3, <1>6, <1>8 DEF Cached
  <2>2. PICK i \in DOMAIN c.list : c.list[i].number = c.lookup[x]
    BY <2>1 DEF Sound
  <2>5. i \in DOMAIN p.list /\ p.list[i].number = p.lookup[x]
    BY <1>4, <2>1, <2>2
  <2>3. GetReturns(p, x) = p.list[i].value
    BY <1>3, <2>1, <2>5, NumberedValue
  <2>4. GetReturns(c, x) = c.list[i].value
    BY <2>1, <2>2, NumberedValue
  <2> QED BY <1>4, <2>3, <2>4
<1> QED BY <1>5, <1>6, <1>7, <1>8 DEF p

\* A put lists what was listed and the new value; what it returns is one of
\* them.
LEMMA PutHolds ==
    ASSUME NEW c, Sound(c), NEW k \in Key, NEW v \in Value
    PROVE  /\ Sound(Put(c, k, v))
           /\ Holds(Put(c, k, v)) \subseteq Holds(c) \cup {v}
           /\ PutReturns(c, k, v) \in Holds(c) \cup {v}
<1>1. CASE ~Full(c)
  BY <1>1, PutSound, PushedReturns DEF Put, PutReturns
<1>2. CASE Full(c)
  <2>1. c.list \in Seq(Node) /\ c.list # <<>>
    BY <1>2, FullIsNotEmpty DEF Sound, Cache
  <2>2. Sound(Popped(c)) /\ Popped(c).list = Tail(c.list)
    BY <2>1, PoppedSound
  <2>3. Holds(Popped(c)) \subseteq Holds(c)
    <3>1. \A i \in DOMAIN Popped(c).list :
             i + 1 \in DOMAIN c.list /\ Popped(c).list[i] = c.list[i + 1]
      BY <2>1, <2>2, TailPositions
    <3> QED BY <3>1 DEF Holds
  <2>4. Head(c.list).value \in Holds(c)
    BY <2>1, TailPositions DEF Holds
  <2> QED BY <1>2, <2>2, <2>3, <2>4, PutSound, PushedReturns DEF Put, PutReturns
<1> QED BY <1>1, <1>2

\* While there is room a put evicts nothing and is a push.
LEMMA PutWithRoom ==
    ASSUME NEW c, NEW k, NEW v, ~Full(c)
    PROVE  Put(c, k, v) = Pushed(c, k, v) /\ PutReturns(c, k, v) = v
BY DEF Put, PutReturns

\* A cache that is larger than the set of keys always has room.
LEMMA NeverFull ==
    ASSUME NEW c, IsFiniteSet(Key), Cardinality(Key) < MaxSize
    PROVE  ~Full(c)
<1>1. Cached(c) \subseteq Key
  BY DEF Cached
<1>2. IsFiniteSet(Cached(c)) /\ Cardinality(Cached(c)) <= Cardinality(Key)
  BY <1>1, FS_Subset
<1>3. Cardinality(Cached(c)) \in Nat /\ Cardinality(Key) \in Nat
  BY <1>2, FS_CardinalityType
<1> QED BY <1>2, <1>3, MaxSizeAssumption DEF Full, Size

-----------------------------------------------------------------------------
(* The lookup map and the list agree *)

CacheInv == Sound(cache)

\* Every step keeps the cache sound.
LEMMA SoundStep == CacheInv /\ [Next]_vars => CacheInv'
<1> SUFFICES ASSUME Sound(cache), [Next]_vars PROVE Sound(cache')
  BY DEF CacheInv
<1>1. ASSUME NEW k \in Key, NEW v \in Value, PutKey(k, v) PROVE Sound(cache')
  BY <1>1, PutSound DEF PutKey
<1>2. ASSUME NEW k \in Key, GetKey(k) PROVE Sound(cache')
  BY <1>2, GotSound DEF GetKey, Cached
<1>3. CASE UNCHANGED vars
  BY <1>3 DEF vars
<1> QED BY <1>1, <1>2, <1>3 DEF Next

\* Every reachable cache is sound.
LEMMA AlwaysSound == Spec => []CacheInv
<1>1. Init => CacheInv
  BY EmptySound DEF Init, CacheInv
<1> QED BY <1>1, SoundStep, PTL DEF Spec

\* Pointers in lookup and nodes in the list agree after any sequence of puts
\* and gets, re-puts and evictions of stale nodes included.
THEOREM LookupSound == Spec => []LookupIsCurrent
<1>1. CacheInv => LookupIsCurrent
  BY DEF CacheInv, Sound, LookupIsCurrent, LookupIsListed, LookupIsNewest
<1> QED BY <1>1, AlwaysSound, PTL

\* What put returns is a value it was given or one that was cached.
LEMMA ReturnedType == CacheInv /\ TypeOK /\ [Next]_vars => TypeOK'
<1> SUFFICES ASSUME Sound(cache), TypeOK, [Next]_vars PROVE returned' \in Value /\ fresh' \in BOOLEAN
  BY SoundStep DEF TypeOK, Sound, CacheInv
<1>1. ASSUME NEW k \in Key, NEW v \in Value, PutKey(k, v) PROVE returned' \in Value /\ fresh' \in BOOLEAN
  <2>1. ASSUME Full(cache) PROVE returned' \in Value
    <3>1. cache.list \in Seq(Node) /\ cache.list # <<>>
      BY <2>1, FullIsNotEmpty DEF Sound, Cache
    <3>2. Head(cache.list).value \in Value
      BY <3>1, TailPositions, NodeFields
    <3> QED BY <1>1, <2>1, <3>2 DEF PutKey, PutReturns
  <2>2. ASSUME ~Full(cache) PROVE returned' \in Value
    BY <1>1, <2>2 DEF PutKey, PutReturns
  <2>3. fresh' \in BOOLEAN
    BY <1>1 DEF PutKey
  <2> QED BY <2>1, <2>2, <2>3
<1>2. ASSUME NEW k \in Key, GetKey(k) PROVE returned' \in Value /\ fresh' \in BOOLEAN
  BY <1>2 DEF GetKey, TypeOK
<1>3. CASE UNCHANGED vars
  BY <1>3 DEF vars, TypeOK
<1> QED BY <1>1, <1>2, <1>3 DEF Next

\* The cache and what put returns have their types in every reachable state.
THEOREM TypeCorrect == Spec => []TypeOK
<1>1. Init => TypeOK
  BY EmptySound DEF Init, TypeOK, Sound
<1> QED BY <1>1, ReturnedType, AlwaysSound, PTL DEF Spec

\* A value that leaves the list is the value that put returns.
THEOREM NothingDropped == Spec => EvictionIsReturned
<1> DEFINE Stays == \A i \in DOMAIN cache.list :
          (\A j \in DOMAIN cache'.list : cache'.list[j].number # cache.list[i].number)
             => returned' = cache.list[i].value
<1>1. ASSUME CacheInv, NEW i \in DOMAIN cache.list,
             \A j \in DOMAIN cache'.list : cache'.list[j].number # cache.list[i].number,
             Next
      PROVE  returned' = cache.list[i].value
  <2>1. cache.list \in Seq(Node)
    BY <1>1 DEF CacheInv, Sound, Cache
  <2>2. ASSUME NEW k \in Key, NEW v \in Value, PutKey(k, v)
        PROVE  returned' = cache.list[i].value
    <3> DEFINE c == IF Full(cache) THEN Popped(cache) ELSE cache
               node == [number |-> c.made + 1, key |-> k, value |-> v]
    <3>1. cache'.list = Append(c.list, node)
      BY <2>2 DEF PutKey, Put, Pushed
    <3>2. c.list \in Seq(Node)
      BY <1>1, <2>1, FullIsNotEmpty, PoppedSound DEF CacheInv, Sound, Cache
    <3>3. \A j \in DOMAIN c.list : j \in DOMAIN cache'.list /\ cache'.list[j] = c.list[j]
      <4> HIDE DEF c, node
      <4> QED BY <3>1, <3>2
    <3>4. CASE ~Full(cache)
      BY <1>1, <3>3, <3>4
    <3>5. CASE Full(cache)
      <4>1. cache.list # <<>> /\ c.list = Tail(cache.list)
        BY <1>1, <3>5, FullIsNotEmpty, PoppedSound DEF CacheInv
      <4> HIDE DEF c, node
      <4>2. i # 1 => i - 1 \in DOMAIN c.list /\ c.list[i - 1] = cache.list[i]
        BY <2>1, <4>1, TailPositions
      <4>3. i = 1
        BY <1>1, <3>3, <4>2
      <4>4. Head(cache.list) = cache.list[i]
        BY <2>1, <4>1, <4>3, TailPositions
      <4> QED BY <2>2, <3>5, <4>4 DEF PutKey, PutReturns
    <3> QED BY <3>4, <3>5
  <2>3. ASSUME NEW k \in Key, GetKey(k)
        PROVE  returned' = cache.list[i].value
    <3> DEFINE p == Position(cache, k)
               m == MoveToEnd(cache.list, p)
    <3>1. p \in DOMAIN cache.list /\ cache'.list = m
      BY <1>1, <2>3, PositionExists DEF GetKey, Got, Cached, CacheInv
    <3> HIDE DEF p
    <3>2. DOMAIN m = DOMAIN cache.list /\ Permutes(m, cache.list)
      BY <2>1, <3>1, MovedPositions
    <3> HIDE DEF m
    <3>3. \E j \in DOMAIN m : m[j] = cache.list[i]
      BY <3>2 DEF Permutes
    <3> QED BY <1>1, <3>1, <3>3
  <2> QED BY <1>1, <2>2, <2>3 DEF Next
<1>2. CacheInv /\ Next => Stays
  BY <1>1
<1>3. CacheInv /\ [Next]_vars => [Stays]_vars
  BY <1>2
<1> QED BY <1>3, AlwaysSound, PTL DEF Spec, EvictionIsReturned

-----------------------------------------------------------------------------
(* Without re-puts *)

\* As long as no cached key is put, every node that is listed is the one its
\* key leads to, so that the list is as long as the map is large.
Fresh(c) ==
    /\ Sound(c)
    /\ IsFiniteSet(Cached(c))
    /\ Cardinality(Cached(c)) = Len(c.list)
    /\ \A i \in DOMAIN c.list : c.lookup[c.list[i].key] = c.list[i].number

\* Popping keeps map and list in step.
LEMMA PoppedFresh ==
    ASSUME NEW c, Fresh(c), c.list # <<>>
    PROVE  Fresh(Popped(c)) /\ Len(Popped(c).list) = Len(c.list) - 1
<1> DEFINE p == Popped(c)
           h == c.list[1].key
<1>1. c.list \in Seq(Node) /\ c.lookup \in [Key -> Nat] /\ Sound(c)
  BY DEF Fresh, Sound, Cache
<1>2. /\ Sound(p) /\ h \in Key /\ p.list = Tail(c.list)
      /\ p.lookup = [c.lookup EXCEPT ![h] = NoNode]
  BY <1>1, PoppedSound
<1>3. 1 \in DOMAIN c.list /\ c.list[1].number # 0
  BY <1>1, TailPositions, NodeFields
<1>4. h \in Cached(c)
  BY <1>2, <1>3 DEF Fresh, Cached, Contains, NoNode
<1> HIDE DEF p
<1>5. Cached(p) = Cached(c) \ {h}
  <2> HIDE DEF h
  <2> QED BY <1>1, <1>2 DEF Cached, Contains
<1>6. IsFiniteSet(Cached(p)) /\ Cardinality(Cached(p)) = Cardinality(Cached(c)) - 1
  <2> HIDE DEF h
  <2>1. IsFiniteSet(Cached(c))
    BY DEF Fresh
  <2> QED BY <1>4, <1>5, <2>1, FS_RemoveElement
<1>7. Len(p.list) = Len(c.list) - 1
  BY <1>1, <1>2
<1>8. \A i \in DOMAIN p.list : i + 1 \in DOMAIN c.list /\ i + 1 # 1 /\ p.list[i] = c.list[i + 1]
  BY <1>1, <1>2, TailPositions
<1>9. ASSUME NEW i \in DOMAIN p.list
      PROVE  p.lookup[p.list[i].key] = p.list[i].number
  <2>1. c.lookup[p.list[i].key] = p.list[i].number
    BY <1>8 DEF Fresh
  <2>2. c.lookup[h] = c.list[1].number
    BY <1>3 DEF Fresh
  <2>3. p.list[i].number # c.list[1].number
    BY <1>3, <1>8 DEF Fresh, Sound
  <2>4. p.list[i].key \in Key /\ p.list[i].key # h
    <3>1. c.list[i + 1].key \in Key
      BY <1>1, <1>8, NodeFields
    <3> QED BY <1>8, <2>1, <2>2, <2>3, <3>1
  <2> HIDE DEF h
  <2> QED BY <1>1, <1>2, <2>1, <2>4
<1>10. Fresh(p)
  BY <1>2, <1>6, <1>7, <1>9 DEF Fresh
<1> QED BY <1>7, <1>10 DEF p

\* Pushing a key that is not cached keeps map and list in step.
LEMMA PushedFresh ==
    ASSUME NEW c, Fresh(c), NEW k \in Key, ~Contains(c, k), NEW v \in Value
    PROVE  Fresh(Pushed(c, k, v)) /\ Len(Pushed(c, k, v).list) = Len(c.list) + 1
<1> DEFINE n == c.made + 1
           node == [number |-> n, key |-> k, value |-> v]
           p == Pushed(c, k, v)
<1>1. /\ c.list \in Seq(Node) /\ c.lookup \in [Key -> Nat] /\ c.made \in Nat
      /\ Sound(c) /\ n # 0
  BY DEF Fresh, Sound, Cache
<1>2. /\ Sound(p) /\ p.list = Append(c.list, node)
      /\ p.lookup = [c.lookup EXCEPT ![k] = n]
  BY <1>1, PushedSound DEF Pushed
<1>3. k \notin Cached(c)
  BY DEF Cached
<1> HIDE DEF p
<1>4. Cached(p) = Cached(c) \cup {k}
  <2> HIDE DEF n
  <2> QED BY <1>1, <1>2 DEF Cached, Contains, NoNode
<1>5. IsFiniteSet(Cached(p)) /\ Cardinality(Cached(p)) = Cardinality(Cached(c)) + 1
  BY <1>3, <1>4, FS_AddElement DEF Fresh
<1>6. node.number = n /\ node.key = k
  OBVIOUS
<1> HIDE DEF node
<1>7. /\ Len(p.list) = Len(c.list) + 1
      /\ \A i \in DOMAIN p.list : \/ i \in DOMAIN c.list /\ p.list[i] = c.list[i]
                                  \/ p.list[i] = node
  BY <1>1, <1>2
<1>8. ASSUME NEW i \in DOMAIN p.list
      PROVE  p.lookup[p.list[i].key] = p.list[i].number
  <2>1. CASE p.list[i] = node
    BY <1>1, <1>2, <1>6, <2>1
  <2>2. CASE i \in DOMAIN c.list /\ p.list[i] = c.list[i]
    <3>1. c.lookup[p.list[i].key] = p.list[i].number
      BY <2>2 DEF Fresh
    <3>2. p.list[i].key \in Key /\ p.list[i].number # 0
      BY <1>1, <2>2, NodeFields
    <3>3. p.list[i].key # k
      BY <3>1, <3>2, <1>3 DEF Cached, Contains, NoNode
    <3> HIDE DEF n
    <3> QED BY <1>1, <1>2, <3>1, <3>2, <3>3
  <2> QED BY <1>7, <2>1, <2>2
<1>9. Fresh(p)
  BY <1>2, <1>5, <1>7, <1>8 DEF Fresh
<1> QED BY <1>7, <1>9 DEF p

\* Getting a key keeps map and list in step.
LEMMA GotFresh ==
    ASSUME NEW c, Fresh(c), NEW k \in Cached(c)
    PROVE  Fresh(Got(c, k)) /\ Len(Got(c, k).list) = Len(c.list)
<1> DEFINE g == Got(c, k)
           p == Position(c, k)
           m == MoveToEnd(c.list, p)
<1>1. c.list \in Seq(Node) /\ Sound(c)
  BY DEF Fresh, Sound, Cache
<1>2. Sound(g) /\ g.list = m /\ g.lookup = c.lookup
  BY <1>1, GotSound DEF Got
<1>3. p \in DOMAIN c.list
  BY <1>1, PositionExists
<1> HIDE DEF g, p
<1>4. /\ Len(m) = Len(c.list) /\ DOMAIN m = DOMAIN c.list
      /\ Permutes(m, c.list)
  BY <1>1, <1>3, MovedPositions
<1> HIDE DEF m
<1>5. \A i \in DOMAIN g.list : \E j \in DOMAIN c.list : g.list[i] = c.list[j]
  BY <1>2, <1>4 DEF Permutes
<1>6. Cached(g) = Cached(c)
  BY <1>2 DEF Cached, Contains
<1>7. Fresh(g)
  BY <1>2, <1>4, <1>5, <1>6 DEF Fresh
<1> QED BY <1>2, <1>4, <1>7 DEF g

FreshInv == Fresh(cache) /\ Len(cache.list) <= MaxSize

\* A put of a key that is not cached keeps the cache within its size.
LEMMA PutFresh ==
    ASSUME FreshInv, NEW k \in Key, ~Contains(cache, k), NEW v \in Value
    PROVE  Fresh(Put(cache, k, v)) /\ Len(Put(cache, k, v).list) <= MaxSize
<1>1. Sound(cache) /\ Len(cache.list) \in Nat /\ MaxSize \in Nat
  BY MaxSizeAssumption DEF FreshInv, Fresh, Sound, Cache
<1>2. Full(cache) <=> Len(cache.list) >= MaxSize
  BY DEF FreshInv, Fresh, Full, Size
<1>3. CASE Full(cache)
  <2> DEFINE p == Popped(cache)
  <2>1. Fresh(p) /\ Len(p.list) = Len(cache.list) - 1
    BY <1>1, <1>3, FullIsNotEmpty, PoppedFresh DEF FreshInv
  <2>2. cache.lookup \in [Key -> Nat] /\ cache.list[1].key \in Key
        /\ p.lookup = [cache.lookup EXCEPT ![cache.list[1].key] = NoNode]
    BY <1>1, <1>3, FullIsNotEmpty, PoppedSound DEF Sound, Cache
  <2> HIDE DEF p
  <2>3. ~Contains(p, k)
    BY <2>2 DEF Contains, NoNode
  <2>4. Put(cache, k, v) = Pushed(p, k, v)
    BY <1>3 DEF Put, p
  <2> QED BY <1>1, <2>1, <2>3, <2>4, PushedFresh DEF FreshInv
<1>4. CASE ~Full(cache)
  <2>1. Put(cache, k, v) = Pushed(cache, k, v)
    BY <1>4 DEF Put
  <2> QED BY <1>1, <1>2, <1>4, <2>1, PushedFresh DEF FreshInv
<1> QED BY <1>3, <1>4

\* Every step keeps map and list in step and within maxSize.
LEMMA FreshStep == fresh' /\ FreshInv /\ [Next]_vars => FreshInv'
<1> SUFFICES ASSUME fresh', FreshInv, [Next]_vars
             PROVE  Fresh(cache') /\ Len(cache'.list) <= MaxSize
  BY DEF FreshInv
<1>1. ASSUME NEW k \in Key, NEW v \in Value, PutKey(k, v)
      PROVE  Fresh(cache') /\ Len(cache'.list) <= MaxSize
  BY <1>1, PutFresh DEF PutKey
<1>2. ASSUME NEW k \in Key, GetKey(k)
      PROVE  Fresh(cache') /\ Len(cache'.list) <= MaxSize
  BY <1>2, GotFresh DEF GetKey, Cached, FreshInv
<1>3. CASE UNCHANGED vars
  BY <1>3 DEF vars, FreshInv
<1> QED BY <1>1, <1>2, <1>3 DEF Next

\* The empty cache is fresh.
LEMMA FreshInit == Init => FreshInv
<1>1. Cached(EmptyCache) = {} /\ EmptyCache.list = <<>>
  BY DEF EmptyCache, Cached, Contains
<1>2. IsFiniteSet({}) /\ Cardinality({}) = 0
  BY FS_EmptySet
<1>3. Fresh(EmptyCache)
  BY <1>1, <1>2, EmptySound DEF Fresh
<1> QED BY <1>1, <1>3, MaxSizeAssumption DEF Init, FreshInv

FreshWhileFresh == fresh => FreshInv

\* The cache is fresh in every state before a cached key is put.
LEMMA AlwaysFresh == Spec => []FreshWhileFresh
<1>1. Init => FreshWhileFresh
  BY FreshInit DEF FreshWhileFresh
<1>2. FreshWhileFresh /\ [Next]_vars => FreshWhileFresh'
  <2> SUFFICES ASSUME FreshWhileFresh, [Next]_vars, fresh' PROVE FreshInv'
    BY DEF FreshWhileFresh
  <2>1. fresh
    BY DEF Next, PutKey, GetKey, vars
  <2> QED BY <2>1, FreshStep DEF FreshWhileFresh
<1> QED BY <1>1, <1>2, PTL DEF Spec

\* As long as clients put only keys that are not cached, as readPage does, the
\* cache stays within maxSize.  (writePage puts keys again: section 4 of README.md.)
THEOREM SizeWithinLimit == Spec => []SizeBounded
<1>1. FreshWhileFresh => SizeBounded
  BY DEF FreshWhileFresh, FreshInv, Fresh, SizeBounded, Size
<1> QED BY <1>1, AlwaysFresh, PTL

-----------------------------------------------------------------------------
(* Refinement of RecencyList *)

\* What is seen of a list: keys and values, without the numbers of the nodes.
Entry == [key: Key, value: Value]
Strip(list) == [i \in DOMAIN list |-> [key |-> list[i].key, value |-> list[i].value]]

\* Stripping a list keeps its length and gives a sequence of entries.
LEMMA StripType ==
    ASSUME NEW list \in Seq(Node)
    PROVE  /\ Strip(list) \in Seq(Entry)
           /\ Len(Strip(list)) = Len(list)
           /\ DOMAIN Strip(list) = DOMAIN list
           /\ \A i \in DOMAIN list :
                 Strip(list)[i] = [key |-> list[i].key, value |-> list[i].value]
<1>1. DOMAIN list = 1..Len(list) /\ Len(list) \in Nat
  OBVIOUS
<1>2. \A i \in DOMAIN list : [key |-> list[i].key, value |-> list[i].value] \in Entry
  BY NodeFields DEF Entry
<1>3. Strip(list) \in [1..Len(list) -> Entry]
  BY <1>1, <1>2 DEF Strip
<1>4. Strip(list) \in Seq(Entry) /\ Len(Strip(list)) = Len(list)
  BY <1>1, <1>3
<1> QED BY <1>1, <1>4 DEF Strip

\* Stripping commutes with taking the first node off.
LEMMA StripTail ==
    ASSUME NEW list \in Seq(Node), list # <<>>
    PROVE  Strip(Tail(list)) = Tail(Strip(list))
<1> DEFINE t == Tail(list)
           s == Strip(list)
<1>1. t \in Seq(Node) /\ Len(t) = Len(list) - 1 /\ Len(list) \in Nat
      /\ \A i \in DOMAIN t : i + 1 \in DOMAIN list /\ t[i] = list[i + 1]
  BY TailPositions
<1>2. s \in Seq(Entry) /\ Len(s) = Len(list) /\ s # <<>>
  BY StripType
<1> HIDE DEF t, s
<1>3. /\ Tail(s) \in Seq(Entry) /\ Len(Tail(s)) = Len(t)
      /\ \A i \in 1..Len(t) : Tail(s)[i] = s[i + 1]
  BY <1>1, <1>2
<1>4. Strip(t) \in Seq(Entry) /\ Len(Strip(t)) = Len(t)
  BY <1>1, StripType
<1>5. ASSUME NEW i \in 1..Len(t) PROVE Strip(t)[i] = Tail(s)[i]
  <2>1. i \in DOMAIN t
    BY <1>1
  <2>2. Strip(t)[i] = [key |-> t[i].key, value |-> t[i].value]
    BY <1>1, <2>1, StripType
  <2>3. s[i + 1] = [key |-> list[i + 1].key, value |-> list[i + 1].value]
    BY <1>1, <2>1, StripType DEF s
  <2> QED BY <1>1, <1>3, <2>1, <2>2, <2>3
<1>6. Strip(t) = Tail(s)
  BY <1>3, <1>4, <1>5
<1> QED BY <1>6 DEF t, s

\* Stripping commutes with appending a node.
LEMMA StripAppend ==
    ASSUME NEW list \in Seq(Node), NEW node \in Node
    PROVE  Strip(Append(list, node)) =
           Append(Strip(list), [key |-> node.key, value |-> node.value])
<1> DEFINE a == Append(list, node)
           s == Strip(list)
           e == [key |-> node.key, value |-> node.value]
<1>1. /\ a \in Seq(Node) /\ Len(a) = Len(list) + 1 /\ Len(list) \in Nat
      /\ \A i \in DOMAIN list : a[i] = list[i]
      /\ a[Len(list) + 1] = node
      /\ DOMAIN list = 1..Len(list) /\ DOMAIN a = 1..Len(a)
  OBVIOUS
<1>2. s \in Seq(Entry) /\ Len(s) = Len(list) /\ e \in Entry
  BY StripType DEF Entry, Node
<1>3. \A i \in DOMAIN list : s[i] = [key |-> list[i].key, value |-> list[i].value]
  BY StripType
<1>4. /\ Strip(a) \in Seq(Entry) /\ Len(Strip(a)) = Len(a)
      /\ \A i \in DOMAIN a : Strip(a)[i] = [key |-> a[i].key, value |-> a[i].value]
  BY <1>1, StripType
<1> HIDE DEF a, s, e
<1>5. /\ Append(s, e) \in Seq(Entry) /\ Len(Append(s, e)) = Len(a)
      /\ \A i \in DOMAIN list : Append(s, e)[i] = s[i]
      /\ Append(s, e)[Len(list) + 1] = e
  BY <1>1, <1>2
<1>6. ASSUME NEW i \in 1..Len(a) PROVE Strip(a)[i] = Append(s, e)[i]
  <2>1. CASE i \in DOMAIN list
    BY <1>1, <1>3, <1>4, <1>5, <2>1
  <2>2. CASE i = Len(list) + 1
    BY <1>1, <1>4, <1>5, <2>2 DEF e
  <2>3. i \in 1..Len(list) \/ i = Len(list) + 1
    BY <1>1
  <2> QED BY <1>1, <2>1, <2>2, <2>3
<1>7. Strip(a) = Append(s, e)
  BY <1>4, <1>5, <1>6
<1> QED BY <1>7 DEF a, s, e

\* Stripping commutes with moving a node to the end.
LEMMA StripMove ==
    ASSUME NEW list \in Seq(Node), NEW i \in DOMAIN list
    PROVE  Strip(MoveToEnd(list, i)) = MoveToEnd(Strip(list), i)
<1> DEFINE m == MoveToEnd(list, i)
           s == Strip(list)
           from == [j \in DOMAIN list |->
                       IF j < i THEN j ELSE IF j < Len(list) THEN j + 1 ELSE i]
<1>1. \A j \in DOMAIN list : from[j] \in DOMAIN list
  OBVIOUS
<1>2. DOMAIN s = DOMAIN list /\ Len(s) = Len(list)
      /\ \A j \in DOMAIN list : s[j] = [key |-> list[j].key, value |-> list[j].value]
  BY StripType
<1>3. DOMAIN m = DOMAIN list /\ \A j \in DOMAIN list : m[j] = list[from[j]]
  BY DEF MoveToEnd
<1>4. MoveToEnd(s, i) = [j \in DOMAIN list |-> s[from[j]]]
  BY <1>2 DEF MoveToEnd
<1> HIDE DEF m, s, from
<1>5. Strip(m) = [j \in DOMAIN list |-> s[from[j]]]
  BY <1>1, <1>2, <1>3 DEF Strip
<1> QED BY <1>4, <1>5 DEF m, s

\* A put of a key that is not cached is a put of the recency list.
LEMMA PutRefines ==
    ASSUME FreshInv, NEW k \in Key, NEW v \in Value, ~Contains(cache, k), PutKey(k, v)
    PROVE  Recency!Put(k, v)
<1> DEFINE c == IF Full(cache) THEN Popped(cache) ELSE cache
           node == [number |-> c.made + 1, key |-> k, value |-> v]
           s == Strip(cache.list)
<1>1. Sound(cache) /\ cache.list \in Seq(Node)
  BY DEF FreshInv, Fresh, Sound, Cache
<1>2. entries = s /\ Len(s) = Len(cache.list) /\ DOMAIN s = DOMAIN cache.list
  BY <1>1, StripType DEF entries, Strip
<1>3. Full(cache) <=> Len(s) >= MaxSize
  BY <1>2 DEF FreshInv, Fresh, Full, Size
<1>4. c.list = (IF Full(cache) THEN Tail(cache.list) ELSE cache.list) /\ c.made \in Nat
  BY <1>1, FullIsNotEmpty, PoppedSound DEF Sound, Cache
<1>5. cache'.list = Append(c.list, node)
  BY DEF PutKey, Put, Pushed
<1>6. node \in Node /\ node.key = k /\ node.value = v
  BY <1>4 DEF Node
<1>7. c.list \in Seq(Node)
  BY <1>1, <1>4, FullIsNotEmpty, TailPositions
<1>8. Strip(c.list) = IF Len(s) >= MaxSize THEN Tail(s) ELSE s
  BY <1>1, <1>3, <1>4, FullIsNotEmpty, StripTail
<1> HIDE DEF c, node
<1>9. Strip(cache'.list) = Append(Strip(c.list), [key |-> k, value |-> v])
  BY <1>5, <1>6, <1>7, StripAppend
<1>10. entries' = Strip(cache'.list)
  BY DEF entries, Strip
<1>11. \A i \in DOMAIN cache.list :
          s[i] = [key |-> cache.list[i].key, value |-> cache.list[i].value]
  BY <1>1, StripType
<1>12. \A i \in DOMAIN s : s[i].key = cache.list[i].key
  <2> SUFFICES ASSUME NEW i \in DOMAIN cache.list PROVE s[i].key = cache.list[i].key
    BY <1>2
  <2>1. s[i] = [key |-> cache.list[i].key, value |-> cache.list[i].value]
    BY <1>11
  <2> HIDE DEF s
  <2> QED BY <2>1
<1>13. ~Recency!Holds(k)
  <2> SUFFICES ASSUME NEW i \in DOMAIN cache.list, cache.list[i].key = k
               PROVE  FALSE
    <3> HIDE DEF s
    <3> QED BY <1>2, <1>12 DEF Recency!Holds
  <2>1. cache.lookup[k] # 0
    BY <1>1, NodeFields DEF FreshInv, Fresh
  <2> QED BY <2>1 DEF Contains, NoNode
<1> QED BY <1>2, <1>8, <1>9, <1>10, <1>13 DEF Recency!Put

\* A get is a get of the recency list.
LEMMA GetRefines ==
    ASSUME FreshInv, NEW k \in Key, GetKey(k)
    PROVE  \E i \in DOMAIN entries : Recency!Get(i)
<1> DEFINE p == Position(cache, k)
           s == Strip(cache.list)
<1>1. Sound(cache) /\ cache.list \in Seq(Node)
  BY DEF FreshInv, Fresh, Sound, Cache
<1>2. p \in DOMAIN cache.list /\ cache'.list = MoveToEnd(cache.list, p)
  BY <1>1, PositionExists DEF GetKey, Got, Cached
<1> HIDE DEF p
<1>3. entries = s /\ DOMAIN s = DOMAIN cache.list
  BY <1>1, StripType DEF entries, Strip
<1>4. entries' = Strip(cache'.list)
  BY DEF entries, Strip
<1>5. entries' = MoveToEnd(entries, p)
  BY <1>1, <1>2, <1>3, <1>4, StripMove
<1> HIDE DEF s
<1> QED BY <1>2, <1>3, <1>5 DEF Recency!Get, MoveToEnd

\* Every step of a cache without re-puts maps to a step of the recency list or
\* to a stutter.
LEMMA RecencyStep == fresh' /\ FreshInv /\ [Next]_vars => [Recency!Next]_entries
<1> SUFFICES ASSUME fresh', FreshInv, [Next]_vars PROVE [Recency!Next]_entries
  OBVIOUS
<1>1. ASSUME NEW k \in Key, NEW v \in Value, PutKey(k, v) PROVE Recency!Next
  BY <1>1, PutRefines DEF PutKey, Recency!Next
<1>2. ASSUME NEW k \in Key, GetKey(k) PROVE Recency!Next
  BY <1>2, GetRefines DEF Recency!Next
<1>3. CASE UNCHANGED vars
  BY <1>3 DEF vars, entries
<1> QED BY <1>1, <1>2, <1>3 DEF Next

\* The list of nodes and the lookup map together are a bounded list in the
\* order of last use, as long as no cached key is put.
THEOREM Recent == Spec => ImplementsRecencyList
<1>1. Init => Recency!Init
  BY DEF Init, EmptyCache, entries, Recency!Init
<1> DEFINE Keeps == fresh' => [Recency!Next]_entries
<1>2. FreshWhileFresh /\ [Next]_vars => [Keeps]_vars
  <2> SUFFICES ASSUME FreshWhileFresh, [Next]_vars, fresh', ~UNCHANGED vars
               PROVE  [Recency!Next]_entries
    OBVIOUS
  <2>1. fresh
    BY DEF Next, PutKey, GetKey, vars
  <2> QED BY <2>1, RecencyStep DEF FreshWhileFresh
<1> QED BY <1>1, <1>2, AlwaysFresh, PTL DEF Spec, ImplementsRecencyList
=============================================================================
