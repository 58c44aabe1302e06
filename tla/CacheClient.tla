---------------------------- MODULE CacheClient ----------------------------
(***************************************************************************)
(* One LRU cache (LRUCache) under any sequence of puts and gets.           *)
(***************************************************************************)
EXTENDS LRUCache

CONSTANTS
    MaxPuts     \* bound: calls of put

ASSUME MaxPutsAssumption == MaxPuts \in Nat

VARIABLES
    cache,
    returned,   \* the value the last put returned
    fresh       \* history: no key was put while it was cached

vars == <<cache, returned, fresh>>

TypeOK == cache \in Cache /\ returned \in Value /\ fresh \in BOOLEAN

Init == cache = EmptyCache /\ returned \in Value /\ fresh = TRUE

PutKey(k, v) ==
    /\ cache.made < MaxPuts
    /\ cache' = Put(cache, k, v)
    /\ returned' = PutReturns(cache, k, v)
    /\ fresh' = (fresh /\ ~Contains(cache, k))

GetKey(k) ==
    /\ Contains(cache, k)
    /\ cache' = Got(cache, k)
    /\ UNCHANGED <<returned, fresh>>

Next ==
    \/ \E k \in Key, v \in Value : PutKey(k, v)
    \/ \E k \in Key : GetKey(k)

Spec == Init /\ [][Next]_vars

-----------------------------------------------------------------------------
(* Properties *)

\* Every key in lookup leads to a node that is linked in the list and bears
\* that key, whatever stale nodes re-puts left behind: get never follows a
\* pointer to a node that pop has unlinked.
LookupIsListed ==
    \A k \in Cached(cache) :
        \E i \in DOMAIN cache.list :
            cache.list[i].number = cache.lookup[k] /\ cache.list[i].key = k

\* The node lookup leads to is the newest of its key: get never returns a
\* value that a later put has replaced, although the replaced node stays in
\* the list.
LookupIsNewest ==
    \A k \in Cached(cache) : \A i \in DOMAIN cache.list :
        cache.list[i].key = k => cache.list[i].number <= cache.lookup[k]

\* Together: get returns the value of the last put of its key.
LookupIsCurrent == LookupIsListed /\ LookupIsNewest

\* put drops no value in silence: a node that leaves the list leaves as the
\* value put returns, which writePage and readPage then write to the file.
EvictionIsReturned ==
    [][\A i \in DOMAIN cache.list :
          (\A j \in DOMAIN cache'.list : cache'.list[j].number # cache.list[i].number)
             => returned' = cache.list[i].value]_vars

\* The test's size after a put beyond the limit (lru_cache_test.cpp:36,
\* EXPECT_EQ(lru_cache->size(), maxSize)): the cache stays within maxSize as
\* long as no cached key is put (readPage puts none, writePage does).
SizeBounded == fresh => Size(cache) <= MaxSize

entries == [i \in DOMAIN cache.list |->
               [key |-> cache.list[i].key, value |-> cache.list[i].value]]

Recency == INSTANCE RecencyList

\* As long as no cached key is put, list and lookup together are a bounded list
\* of entries in the order of their last use.
ImplementsRecencyList == Recency!Init /\ [][fresh' => [Recency!Next]_entries]_vars
=============================================================================
