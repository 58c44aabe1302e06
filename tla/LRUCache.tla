------------------------------ MODULE LRUCache ------------------------------
(***************************************************************************)
(* The cache of pages (lru_cache.h): a doubly linked list of nodes, least  *)
(* recently used first (linked_list.h), and a hash map from each key to    *)
(* its node.  One cache is a record                                        *)
(*   list    the nodes from begin to end, the sentinels left out           *)
(*   lookup  key -> the number of its node, or NoNode                      *)
(*   made    how many nodes have been allocated; the next one's number     *)
(* and this module holds its operations; CacheClient puts them to use, and *)
(* PageStore keeps one cache for each session.  flush has no caller (and   *)
(* would leave freed nodes in lookup).                                     *)
(***************************************************************************)
EXTENDS Integers, FiniteSets, Sequences

CONSTANTS
    Key,        \* keys of the cache
    Value,      \* what it holds
    MaxSize     \* maxSize

ASSUME MaxSizeAssumption == MaxSize \in Nat \ {0}

NoNode == 0
Node == [number: Nat \ {0}, key: Key, value: Value]
Cache == [list: Seq(Node), lookup: [Key -> Nat], made: Nat]

EmptyCache == [list |-> <<>>, lookup |-> [k \in Key |-> NoNode], made |-> 0]

Contains(c, k) == c.lookup[k] # NoNode

Cached(c) == {k \in Key : Contains(c, k)}

Size(c) == Cardinality(Cached(c))

Full(c) == Size(c) >= MaxSize

\* Slip: the node is taken off the list but its key stays in lookup.
PoppedKeepsKey(c) == [c EXCEPT !.list = Tail(@)]

\* pop: the node after begin leaves the list, and put erases its key, even
\* when the key has a newer node by now.
Popped(c) ==
    [list |-> Tail(c.list),
     lookup |-> [c.lookup EXCEPT ![Head(c.list).key] = NoNode],
     made |-> c.made]

Pushed(c, k, v) ==
    LET n == c.made + 1
    IN [list |-> Append(c.list, [number |-> n, key |-> k, value |-> v]),
        lookup |-> [c.lookup EXCEPT ![k] = n],
        made |-> n]

\* Slip: the new node is pushed before there is room for it.
PutFirst(c, k, v) == IF Size(c) > MaxSize THEN Popped(Pushed(c, k, v)) ELSE Pushed(c, k, v)

\* put tests the size before it knows whether the key is new, and never looks
\* for a node the key has already.
Put(c, k, v) == Pushed(IF Full(c) THEN Popped(c) ELSE c, k, v)

\* Slip: the value at the other end of the list.
PutReturnsNewest(c, k, v) == IF Full(c) THEN c.list[Len(c.list)].value ELSE v

\* What put returns: the value it evicts, or the one it was given.
PutReturns(c, k, v) == IF Full(c) THEN Head(c.list).value ELSE v

\* Slip: pushToEnd links the node at the end without unlinking it.
MoveToEndCopied(list, i) == Append(list, list[i])

\* pushToEnd
MoveToEnd(list, i) ==
    [j \in DOMAIN list |-> IF j < i THEN list[j]
                           ELSE IF j < Len(list) THEN list[j + 1] ELSE list[i]]

Position(c, k) == CHOOSE i \in DOMAIN c.list : c.list[i].number = c.lookup[k]

\* get on a cached key
Got(c, k) ==
    [list |-> MoveToEnd(c.list, Position(c, k)), lookup |-> c.lookup, made |-> c.made]

GetReturns(c, k) == c.list[Position(c, k)].value
=============================================================================
