-------------------------- MODULE BPlusTreeProofs ---------------------------
(***************************************************************************)
(* Proofs about BPlusTree: the steps that remove a key, and what holds of  *)
(* every reachable tree, for all keys, sizes and bounds, where a node has  *)
(* room for three entries below the minimum, a leaf for a tuple, and       *)
(* nothing is put after a removal from a tall tree.                        *)
(***************************************************************************)
EXTENDS BPlusTreePutProofs

-----------------------------------------------------------------------------
(* Two nodes share their children anew *)

\* All keys of the neighbours p and q, with the one that separates them, and all
\* their children.
AllKeys(T, p, q, r, j) == Append(T[p].keys, T[r].keys[j]) \o T[q].keys

\* The children of both, in order.
AllChildren(T, p, q) == T[p].child \o T[q].child

\* Of the keys and children of p and q, which are the children j and j + 1 of r,
\* p gets the first a keys and q those after the next, which separates them.
Redistributes(T, U, p, q, r, j, a) ==
    LET ks == AllKeys(T, p, q, r, j)
        cs == AllChildren(T, p, q)
    IN  /\ r \in Place /\ T[r].kind = "internal" /\ j \in 1..Len(T[r].keys)
        /\ T[r].child[j] = p /\ T[r].child[j + 1] = q /\ T[p].kind = "internal"
        /\ a \in Nat \ {0} /\ a + 1 \in 1..Len(ks)
        /\ U \in [Place -> Node]
        /\ U[p].keys = SubSeq(ks, 1, a) /\ U[p].child = SubSeq(cs, 1, a + 1)
        /\ U[q].keys = SubSeq(ks, a + 2, Len(ks)) /\ U[q].child = SubSeq(cs, a + 2, Len(cs))
        /\ U[r].keys = [T[r].keys EXCEPT ![j] = ks[a + 1]] /\ U[r].child = T[r].child
        /\ U[p].parent = r /\ U[q].parent = r
        /\ \A z \in Place : U[z].kind = T[z].kind /\ (T[z].kind = "none" => U[z] = T[z])
        /\ \A z \in Place \ {p, q, r} : U[z].keys = T[z].keys /\ U[z].child = T[z].child
        /\ \A z \in Place \ {p, q} : T[z].kind # "none" => U[z].parent =
              IF \E i \in 1..a + 1 : z = cs[i] THEN p
              ELSE IF T[z].parent \in {p, q} THEN q ELSE T[z].parent

\* The tree with p merged into q.
Between(T, p, q, r, j) ==
    [z \in Place |->
       IF z = p THEN NoNode
       ELSE IF z = q THEN Internal(AllKeys(T, p, q, r, j), AllChildren(T, p, q), r)
       ELSE IF T[z].kind = "none" THEN T[z]
       ELSE [T[z] EXCEPT !.parent = IF @ \in {p, q} THEN q ELSE @,
                         !.keys = IF z = r THEN RemoveAt(@, j) ELSE @,
                         !.child = IF z = r THEN RemoveAt([@ EXCEPT ![j] = q], j + 1) ELSE @]]

\* What is true of the nodes that share.
Sharing(T, lev, lo, p, q, r, j) ==
    /\ p \in Page /\ q \in Page /\ p \in Place /\ q \in Place /\ r \in Place
    /\ p # q /\ p # r /\ q # r /\ T[p].parent = r /\ T[q].parent = r
    /\ T[p].kind = "internal" /\ T[q].kind = "internal" /\ T[r].kind = "internal"
    /\ lev[p] = lev[q] /\ lo[p] < lo[q] /\ lo[q] = T[r].keys[j]
    /\ j \in 1..Len(T[r].keys) /\ T[r].child[j] = p /\ T[r].child[j + 1] = q
    /\ Len(T[p].keys) \in Nat /\ Len(T[q].keys) \in Nat /\ Len(T[r].keys) \in Nat
    /\ T[p].keys \in Seq(Key) /\ T[q].keys \in Seq(Key) /\ T[r].keys \in Seq(Key)
    /\ T[p].child \in Seq(Page) /\ T[q].child \in Seq(Page) /\ T[r].child \in Seq(Page)
    /\ Len(T[p].child) = Len(T[p].keys) + 1 /\ Len(T[q].child) = Len(T[q].keys) + 1
    /\ Len(T[r].child) = Len(T[r].keys) + 1

\* Neighbours in a tree are such nodes.
LEMMA SharingNodes ==
    ASSUME NEW T, NEW lev, NEW lo, IsTree(T, lev, lo), NEW r \in Place, T[r].kind = "internal",
           NEW j \in 1..Len(T[r].keys), NEW p, NEW q, T[r].child[j] = p, T[r].child[j + 1] = q,
           T[p].kind = "internal"
    PROVE  Sharing(T, lev, lo, p, q, r, j)
<1>1. /\ Len(T[r].keys) \in Nat /\ Len(T[r].child) = Len(T[r].keys) + 1
      /\ T[r].keys \in Seq(Key) /\ T[r].child \in Seq(Page)
  BY NodeFields DEF IsTree, Shaped
<1>2. j \in Int /\ 1 <= j /\ j <= Len(T[r].child)
  BY <1>1
<1>3. /\ p \in Page /\ T[p].kind # "none" /\ T[p].parent = r /\ lev[p] + 1 = lev[r]
      /\ lo[p] = IF j = 1 THEN lo[r] ELSE T[r].keys[j - 1]
  BY <1>2, ChildFacts
<1>4. /\ q \in Page /\ Under(T, lev, r, q) /\ lo[q] = T[r].keys[j]
  BY Separators
<1>5. T[q].kind # "none" /\ T[q].parent = r /\ lev[q] + 1 = lev[r]
  BY <1>4 DEF Under
<1>6. lev \in [Place -> Nat] /\ lo \in [Place -> Nat]
  BY DEF IsTree, Ordered, Family
<1>7. p \in Place /\ q \in Place /\ lev[p] \in Nat /\ lev[q] \in Nat /\ lev[r] \in Nat
  BY <1>3, <1>4, <1>6, Places
<1>8. lev[p] = lev[q] /\ lev[p] # lev[r]
  BY <1>3, <1>5, <1>7
<1>9. lev[p] > 0
  BY <1>7, UpperNodes DEF IsTree
<1>10. T[q].kind = "internal"
  BY <1>4, <1>5, <1>7, <1>8, <1>9, FirstChild
<1>11. lo[p] < lo[q]
  <2>1. Ascending(T[r].keys) /\ lo[r] < T[r].keys[j]
    BY DEF IsTree, Ordered, KeysInOrder
  <2>2. CASE j = 1
    BY <1>3, <1>4, <2>1, <2>2
  <2>3. CASE j # 1
    <3>1. j - 1 \in 1..Len(T[r].keys) /\ j - 1 < j
      BY <1>1, <2>3
    <3>2. T[r].keys[j - 1] < T[r].keys[j]
      BY <2>1, <3>1 DEF Ascending
    <3> QED BY <1>3, <1>4, <2>3, <3>2
  <2> QED BY <2>2, <2>3
<1>12. p # q
  BY <1>6, <1>7, <1>11
<1>13. /\ Len(T[p].keys) \in Nat /\ Len(T[q].keys) \in Nat
       /\ T[p].keys \in Seq(Key) /\ T[q].keys \in Seq(Key)
       /\ T[p].child \in Seq(Page) /\ T[q].child \in Seq(Page)
       /\ Len(T[p].child) = Len(T[p].keys) + 1 /\ Len(T[q].child) = Len(T[q].keys) + 1
  BY <1>7, <1>10, NodeFields DEF IsTree, Shaped
<1>14. p # r /\ q # r
  BY <1>8
<1> QED BY <1>1, <1>3, <1>4, <1>5, <1>7, <1>8, <1>10, <1>11, <1>12, <1>13, <1>14 DEF Sharing

\* ks and cs are as long as the keys and children of p and q together need.
AllJoined(T, p, q, ks, cs) ==
    /\ ks \in Seq(Key) /\ cs \in Seq(Page)
    /\ Len(ks) = Len(T[p].keys) + 1 + Len(T[q].keys)
    /\ Len(cs) = Len(T[p].keys) + 1 + Len(T[q].keys) + 1

\* All keys and all children of two neighbours are.
LEMMA AllFacts ==
    ASSUME NEW T, NEW lev, NEW lo, NEW p, NEW q, NEW r, NEW j, Sharing(T, lev, lo, p, q, r, j)
    PROVE  AllJoined(T, p, q, AllKeys(T, p, q, r, j), AllChildren(T, p, q))
<1>1. /\ T[p].keys \in Seq(Key) /\ T[q].keys \in Seq(Key) /\ T[r].keys \in Seq(Key)
      /\ T[p].child \in Seq(Page) /\ T[q].child \in Seq(Page)
      /\ Len(T[p].keys) \in Nat /\ Len(T[q].keys) \in Nat /\ Len(T[r].keys) \in Nat
      /\ Len(T[p].child) = Len(T[p].keys) + 1 /\ Len(T[q].child) = Len(T[q].keys) + 1
      /\ j \in 1..Len(T[r].keys)
  BY DEF Sharing
<1>2. T[r].keys[j] \in Key
  BY <1>1, SeqPlaces
<1> DEFINE ap == Append(T[p].keys, T[r].keys[j])
<1>3. ap \in Seq(Key) /\ Len(ap) = Len(T[p].keys) + 1
  BY <1>1, <1>2, AppendProperties
<1> HIDE DEF ap
<1>4. ap \o T[q].keys \in Seq(Key) /\ Len(ap \o T[q].keys) = Len(ap) + Len(T[q].keys)
  BY <1>1, <1>3, ConcatProperties
<1>5. /\ T[p].child \o T[q].child \in Seq(Page)
      /\ Len(T[p].child \o T[q].child) = Len(T[p].child) + Len(T[q].child)
  BY <1>1, ConcatProperties
<1>6. /\ AllKeys(T, p, q, r, j) = ap \o T[q].keys
      /\ AllChildren(T, p, q) = T[p].child \o T[q].child
  BY DEF AllKeys, AllChildren, ap
<1>7. Len(ap \o T[q].keys) = Len(T[p].keys) + 1 + Len(T[q].keys)
  BY <1>3, <1>4
<1>8. Len(T[p].child \o T[q].child) = Len(T[p].keys) + 1 + Len(T[q].keys) + 1
  <2> DEFINE np == Len(T[p].keys)
             nq == Len(T[q].keys)
             mp == Len(T[p].child)
             mq == Len(T[q].child)
             m == Len(T[p].child \o T[q].child)
  <2>1. np \in Nat /\ nq \in Nat /\ mp = np + 1 /\ mq = nq + 1 /\ m = mp + mq
    BY <1>1, <1>5
  <2> HIDE DEF np, nq, mp, mq, m
  <2>2. m = np + 1 + nq + 1
    BY <2>1
  <2> QED BY <2>2 DEF m, np, nq
<1> QED BY <1>4, <1>5, <1>6, <1>7, <1>8 DEF AllJoined

\* Merging p into q leads to the tree between.
LEMMA BetweenMerges ==
    ASSUME NEW T, NEW lev, NEW lo, IsTree(T, lev, lo), NEW p, NEW q, NEW r, NEW j,
           Sharing(T, lev, lo, p, q, r, j)
    PROVE  Merges(T, Between(T, p, q, r, j), p, q, r, j, q)
<1> DEFINE M == Between(T, p, q, r, j)
<1>1. /\ p \in Page /\ q \in Page /\ p \in Place /\ q \in Place /\ r \in Place
      /\ p # q /\ p # r /\ q # r /\ T[p].parent = r /\ T[q].parent = r
      /\ T[p].kind = "internal" /\ T[q].kind = "internal" /\ T[r].kind = "internal"
      /\ j \in 1..Len(T[r].keys) /\ T[r].child[j] = p /\ T[r].child[j + 1] = q
  BY DEF Sharing
<1>2. /\ T[r].keys \in Seq(Key) /\ T[r].child \in Seq(Page) /\ Len(T[r].keys) \in Nat
      /\ Len(T[r].child) = Len(T[r].keys) + 1
  BY DEF Sharing
<1>3. AllKeys(T, p, q, r, j) \in Seq(Key) /\ AllChildren(T, p, q) \in Seq(Page)
  BY AllFacts DEF AllJoined
<1>4. /\ M[p] = NoNode
      /\ M[q] = Internal(AllKeys(T, p, q, r, j), AllChildren(T, p, q), r)
  BY <1>1 DEF Between
<1>5. ASSUME NEW z \in Place \ {p, q}
      PROVE  /\ M[z].kind = T[z].kind /\ (T[z].kind = "none" => M[z] = T[z])
             /\ M[z] \in Node
             /\ T[z].kind # "none" => M[z].parent = IF T[z].parent \in {p, q} THEN q ELSE T[z].parent
             /\ z # r => M[z].keys = T[z].keys /\ M[z].child = T[z].child
             /\ z = r => /\ M[z].keys = RemoveAt(T[r].keys, j)
                         /\ M[z].child = RemoveAt([T[r].child EXCEPT ![j] = q], j + 1)
  <2>1. T[z] \in Node
    BY DEF IsTree, Shaped
  <2>2. CASE T[z].kind = "none"
    BY <1>1, <1>5, <2>1, <2>2 DEF Between
  <2>3. CASE T[z].kind # "none" /\ z # r
    <3>1. M[z] = [T[z] EXCEPT !.parent = IF @ \in {p, q} THEN q ELSE @,
                              !.keys = T[z].keys, !.child = T[z].child]
      BY <1>5, <2>3 DEF Between
    <3>2. q \in PageOrNone
      BY <1>1 DEF PageOrNone
    <3> QED BY <2>1, <2>3, <3>1, <3>2 DEF Node
  <2>4. CASE z = r
    <3> DEFINE rk == RemoveAt(T[r].keys, j)
               ec == [T[r].child EXCEPT ![j] = q]
               h == j + 1
               rc == RemoveAt(ec, h)
    <3>1. M[z] = [T[z] EXCEPT !.parent = IF @ \in {p, q} THEN q ELSE @, !.keys = rk, !.child = rc]
      BY <1>1, <1>5, <2>4 DEF Between
    <3>2. j \in Int /\ 1 <= j /\ j <= Len(T[r].keys) /\ j \in 1..Len(T[r].child)
      BY <1>1, <1>2
    <3>3. Removed(Key, T[r].keys, j, rk)
      BY <1>2, <3>2, RemoveAtFacts
    <3>4. rk \in Seq(Key)
      BY <3>3 DEF Removed
    <3>5. ec \in Seq(Page) /\ Len(ec) = Len(T[r].child)
      BY <1>1, <1>2, <3>2, ExceptSeq
    <3>6. h \in Int /\ 1 <= h /\ h <= Len(T[r].child)
      BY <1>2, <3>2
    <3> HIDE DEF h, ec, rk
    <3>7. Removed(Page, ec, h, rc)
      BY <3>5, <3>6, RemoveAtFacts
    <3>8. rc \in Seq(Page)
      BY <3>7 DEF Removed
    <3> HIDE DEF rc
    <3>9. q \in PageOrNone
      BY <1>1 DEF PageOrNone
    <3>10. M[z] \in Node
      BY <2>1, <3>1, <3>4, <3>8, <3>9 DEF Node
    <3>11. M[z].keys = rk /\ M[z].child = rc /\ M[z].kind = T[z].kind
           /\ M[z].parent = IF T[z].parent \in {p, q} THEN q ELSE T[z].parent
      BY <2>1, <3>1 DEF Node
    <3> QED BY <1>1, <2>4, <3>10, <3>11 DEF rk, rc, ec, h
  <2> QED BY <2>2, <2>3, <2>4
<1>6. M[p] \in Node /\ M[q] \in Node
  <2>1. r \in PageOrNone /\ NoPage \in PageOrNone /\ <<>> \in Seq(Key) /\ <<>> \in Seq(Page)
    BY <1>1, Places DEF PageOrNone, NoPage
  <2> QED BY <1>3, <1>4, <2>1 DEF Node, NoNode, Internal
<1>7. M \in [Place -> Node]
  <2>1. \A z \in Place : M[z] \in Node
    BY <1>5, <1>6
  <2>2. M = [z \in Place |-> M[z]]
    BY DEF Between
  <2> HIDE DEF M
  <2> QED BY <2>1, <2>2
<1>8. /\ M[q].kind = T[p].kind /\ M[q].parent = r
      /\ M[q].keys = AllKeys(T, p, q, r, j) /\ M[q].child = AllChildren(T, p, q)
  BY <1>1, <1>4 DEF Internal
<1>9. AllKeys(T, p, q, r, j) = JoinedKeys(T[p], T[r].keys[j], T[q])
  BY <1>1 DEF AllKeys, JoinedKeys
<1> HIDE DEF M
<1>10. Merges(T, M, p, q, r, j, q)
  BY <1>1, <1>4, <1>5, <1>7, <1>8, <1>9 DEF Merges, AllChildren
<1> QED BY <1>10 DEF M

\* Where the nodes begin after p and q share anew.
RedistributeLo(T, lo, p, q, r, j, a) == [lo EXCEPT ![q] = AllKeys(T, p, q, r, j)[a + 1]]

\* Splitting the tree between gives the one in which p and q share anew.
LEMMA BetweenSplits ==
    ASSUME NEW T, NEW lev, NEW lo, IsTree(T, lev, lo), NEW U, NEW p, NEW q, NEW r, NEW j, NEW a,
           Sharing(T, lev, lo, p, q, r, j), Redistributes(T, U, p, q, r, j, a)
    PROVE  Splits(Between(T, p, q, r, j), U, q, r, p, a)
<1> DEFINE M == Between(T, p, q, r, j)
           W == MergeLo(lo, p, q)
           ks == AllKeys(T, p, q, r, j)
           cs == AllChildren(T, p, q)
           key == ks[a + 1]
<1>1. /\ p \in Page /\ q \in Page /\ p \in Place /\ q \in Place /\ r \in Place
      /\ p # q /\ p # r /\ q # r
      /\ T[p].kind = "internal" /\ T[q].kind = "internal" /\ T[r].kind = "internal"
      /\ j \in 1..Len(T[r].keys) /\ T[r].child[j] = p /\ T[r].child[j + 1] = q
      /\ T[p].parent = r /\ T[q].parent = r
  BY DEF Sharing
<1>2. /\ T[r].keys \in Seq(Key) /\ T[r].child \in Seq(Page) /\ Len(T[r].keys) \in Nat
      /\ Len(T[r].child) = Len(T[r].keys) + 1
  BY DEF Sharing
<1>3. ks \in Seq(Key) /\ cs \in Seq(Page) /\ Len(cs) = Len(ks) + 1 /\ Len(ks) \in Nat
  <2>1. AllJoined(T, p, q, ks, cs)
    BY AllFacts
  <2>2. Len(cs) = Len(ks) + 1
    BY <2>1 DEF AllJoined
  <2> HIDE DEF ks, cs
  <2> QED BY <2>1, <2>2, LenProperties DEF AllJoined
<1>4. Merges(T, M, p, q, r, j, q)
  BY BetweenMerges
<1>5. IsTree(M, lev, W)
  BY <1>4, MergeTree
<1>6. /\ M[p] = NoNode /\ M[q].kind = "internal" /\ M[q].keys = ks /\ M[q].child = cs /\ M[q].parent = r
      /\ M[r].kind = "internal"
  BY <1>1 DEF Between, Internal
<1>7. /\ \A z \in Place \ {p, q} : M[z].kind = T[z].kind /\ (T[z].kind = "none" => M[z] = T[z])
      /\ \A z \in Place \ {p, q} : T[z].kind # "none" =>
            M[z].parent = IF T[z].parent \in {p, q} THEN q ELSE T[z].parent
      /\ \A z \in Place \ {p, q, r} : M[z].keys = T[z].keys /\ M[z].child = T[z].child
  BY <1>4 DEF Merges
<1>8. Closed(T, M, r, j, q)
  BY <1>4, MergeParent
<1>9. /\ a \in Nat \ {0} /\ a + 1 \in 1..Len(ks)
      /\ U \in [Place -> Node]
      /\ U[p].keys = SubSeq(ks, 1, a) /\ U[p].child = SubSeq(cs, 1, a + 1)
      /\ U[q].keys = SubSeq(ks, a + 2, Len(ks)) /\ U[q].child = SubSeq(cs, a + 2, Len(cs))
      /\ U[r].keys = [T[r].keys EXCEPT ![j] = key] /\ U[r].child = T[r].child
      /\ U[p].parent = r /\ U[q].parent = r
      /\ \A z \in Place : U[z].kind = T[z].kind /\ (T[z].kind = "none" => U[z] = T[z])
      /\ \A z \in Place \ {p, q, r} : U[z].keys = T[z].keys /\ U[z].child = T[z].child
  BY DEF Redistributes
<1>10. \A z \in Place \ {p, q} : T[z].kind # "none" => U[z].parent =
              IF \E i \in 1..a + 1 : z = cs[i] THEN p
              ELSE IF T[z].parent \in {p, q} THEN q ELSE T[z].parent
  BY DEF Redistributes
<1>11. key \in Key /\ key \in Nat
  BY <1>3, <1>9, SeqPlaces, KeyAssumption
<1>12. SetChild(M[r], key, p, q).keys = U[r].keys /\ SetChild(M[r], key, p, q).child = U[r].child
  <2> HIDE DEF M, W, ks, cs
  <2>1. ChildAt(M, r, j, q)
    <3>1. Len(M[r].child) = Len(T[r].keys) /\ \A i \in 1..Len(T[r].keys) : M[r].child[i] =
             IF i < j THEN T[r].child[i] ELSE IF i = j THEN q ELSE T[r].child[i + 1]
      BY <1>8 DEF Closed
    <3>2. ~(j < j)
      BY <1>1, <1>2
    <3>3. M[r].child[j] = q
      BY <1>1, <3>1, <3>2
    <3> QED BY <1>1, <3>1, <3>3 DEF ChildAt
  <2>2. KeyOf(M, W, q, key)
    BY <1>6, <1>9, <1>11 DEF KeyOf
  <2>3. PlaceIn(M[r].keys, key, j)
    BY <1>1, <1>5, <1>6, <2>1, <2>2, PlaceOf
  <2>4. Shaped(M)
    BY <1>5 DEF IsTree
  <2> DEFINE s == SetChild(M[r], key, p, q)
  <2>5. ChildSet(M[r], s, j, key, p, q)
    BY <1>1, <1>6, <1>11, <2>1, <2>3, <2>4, SetChildFacts
  <2> HIDE DEF s, key
  <2>6. /\ Len(M[r].keys) = Len(T[r].keys) - 1
        /\ \A i \in 1..Len(T[r].keys) - 1 : M[r].keys[i] = IF i < j THEN T[r].keys[i] ELSE T[r].keys[i + 1]
        /\ \A i \in 1..Len(T[r].keys) : M[r].child[i] =
             IF i < j THEN T[r].child[i] ELSE IF i = j THEN q ELSE T[r].child[i + 1]
    BY <1>8 DEF Closed
  <2> DEFINE n == Len(T[r].keys)
  <2>7. /\ s \in Node /\ Len(s.keys) = Len(M[r].keys) + 1 /\ Len(s.child) = Len(M[r].keys) + 2
        /\ \A i \in 1..Len(M[r].keys) + 1 : s.keys[i] =
              IF i < j THEN M[r].keys[i] ELSE IF i = j THEN key ELSE M[r].keys[i - 1]
        /\ \A i \in 1..Len(M[r].keys) + 2 : s.child[i] =
              IF i < j THEN M[r].child[i] ELSE IF i = j THEN p
              ELSE IF i = j + 1 THEN q ELSE M[r].child[i - 1]
    BY <2>5 DEF ChildSet
  <2>8. Len(s.keys) = n /\ Len(s.child) = n + 1 /\ Len(M[r].keys) + 1 = n /\ Len(M[r].keys) + 2 = n + 1
    BY <1>2, <2>6, <2>7
  <2>9. ASSUME NEW i \in 1..n PROVE s.keys[i] = [T[r].keys EXCEPT ![j] = key][i]
    <3>1. s.keys[i] = IF i < j THEN M[r].keys[i] ELSE IF i = j THEN key ELSE M[r].keys[i - 1]
      BY <2>7, <2>8
    <3>2. CASE i < j
      <4>1. i \in 1..n - 1 /\ i # j
        BY <1>1, <1>2, <3>2
      <4>2. s.keys[i] = T[r].keys[i]
        BY <2>6, <3>1, <3>2, <4>1
      <4>3. [T[r].keys EXCEPT ![j] = key][i] = T[r].keys[i]
        BY <1>2, <4>1, SeqPlaces
      <4> QED BY <4>2, <4>3
    <3>3. CASE i = j
      <4>1. s.keys[i] = key
        BY <1>1, <1>2, <3>1, <3>3
      <4>2. [T[r].keys EXCEPT ![j] = key][i] = key
        BY <1>1, <1>2, <3>3, SeqPlaces
      <4> QED BY <4>1, <4>2
    <3>4. CASE i > j
      <4> DEFINE h == i - 1
      <4>1. h \in 1..n - 1 /\ ~(h < j) /\ h + 1 = i /\ i # j /\ ~(i < j)
        BY <1>1, <1>2, <3>4
      <4>2. s.keys[i] = M[r].keys[h]
        BY <3>1, <4>1
      <4> HIDE DEF h
      <4>3. s.keys[i] = T[r].keys[i]
        BY <2>6, <4>1, <4>2
      <4>4. [T[r].keys EXCEPT ![j] = key][i] = T[r].keys[i]
        BY <1>2, <4>1, SeqPlaces
      <4> QED BY <4>3, <4>4
    <3> QED BY <1>1, <1>2, <3>2, <3>3, <3>4
  <2>10. ASSUME NEW i \in 1..n + 1 PROVE s.child[i] = T[r].child[i]
    <3>1. s.child[i] = IF i < j THEN M[r].child[i] ELSE IF i = j THEN p
                       ELSE IF i = j + 1 THEN q ELSE M[r].child[i - 1]
      BY <2>7, <2>8
    <3>2. CASE i < j
      <4>1. i \in 1..n
        BY <1>1, <1>2, <3>2
      <4> QED BY <2>6, <3>1, <3>2, <4>1
    <3>3. CASE i = j
      <4>1. ~(i < j)
        BY <1>1, <1>2, <3>3
      <4> QED BY <1>1, <3>1, <3>3, <4>1
    <3>4. CASE i = j + 1
      <4>1. ~(i < j) /\ i # j
        BY <1>1, <1>2, <3>4
      <4> QED BY <1>1, <3>1, <3>4, <4>1
    <3>5. CASE i > j + 1
      <4> DEFINE h == i - 1
      <4>1. h \in 1..n /\ ~(h < j) /\ h # j /\ h + 1 = i /\ i # j /\ i # j + 1 /\ ~(i < j)
        BY <1>1, <1>2, <3>5
      <4>2. s.child[i] = M[r].child[h]
        BY <3>1, <4>1
      <4> HIDE DEF h
      <4> QED BY <2>6, <4>1, <4>2
    <3> QED BY <1>1, <1>2, <3>2, <3>3, <3>4, <3>5
  <2>11. s.keys \in Seq(Key) /\ s.child \in Seq(Page)
    BY <2>7 DEF Node
  <2>12. s.child = T[r].child
    BY <1>2, <2>8, <2>10, <2>11, SeqEqual
  <2>13. s.keys = [T[r].keys EXCEPT ![j] = key]
    <3> DEFINE e == [T[r].keys EXCEPT ![j] = key]
    <3>1. e \in Seq(Key) /\ Len(e) = n
      BY <1>1, <1>2, <1>11, ExceptSeq
    <3>2. \A i \in 1..Len(s.keys) : s.keys[i] = e[i]
      BY <2>8, <2>9
    <3> HIDE DEF e, n
    <3>3. s.keys = e
      BY <2>8, <2>11, <3>1, <3>2, SeqEqual
    <3> QED BY <3>3 DEF e
  <2> QED BY <1>9, <2>12, <2>13 DEF s, key
<1>13. ASSUME NEW z \in Place, z # p
       PROVE  /\ U[z].kind = M[z].kind
              /\ M[z].kind = "none" => U[z] = M[z]
              /\ U[z].parent = IF \E i \in 1..a + 1 : z = cs[i] THEN p ELSE M[z].parent
  <2> HIDE DEF M, W, ks, cs, key
  <2>1. CASE z = q
    <3>1. ~ \E i \in 1..a + 1 : q = cs[i]
      <4> SUFFICES ASSUME NEW i \in 1..a + 1, q = cs[i] PROVE FALSE
        OBVIOUS
      <4>1. i \in Int /\ 1 <= i /\ i <= Len(cs)
        BY <1>3, <1>9
      <4>2. M[M[q].child[i]].parent = q
        BY <1>1, <1>5, <1>6, <4>1, ChildFacts
      <4> QED BY <1>1, <1>6, <4>2
    <3> QED BY <1>1, <1>6, <1>9, <2>1, <3>1
  <2>2. CASE z # q
    <3>1. U[z].kind = M[z].kind /\ (M[z].kind = "none" => U[z] = M[z])
      BY <1>7, <1>9, <1>13, <2>2
    <3>2. CASE T[z].kind # "none"
      BY <1>7, <1>10, <1>13, <2>2, <3>1, <3>2
    <3>3. CASE T[z].kind = "none"
      <4>1. ~ \E i \in 1..a + 1 : z = cs[i]
        <5> SUFFICES ASSUME NEW i \in 1..a + 1, z = cs[i] PROVE FALSE
          OBVIOUS
        <5>1. i \in Int /\ 1 <= i /\ i <= Len(cs)
          BY <1>3, <1>9
        <5>2. M[M[q].child[i]].kind # "none"
          BY <1>1, <1>5, <1>6, <5>1, ChildFacts
        <5> QED BY <1>6, <1>7, <1>13, <2>2, <3>3, <5>2
      <4>2. U[z] = M[z]
        BY <1>7, <1>13, <2>2, <3>1, <3>3
      <4> QED BY <3>1, <4>1, <4>2
    <3> QED BY <3>1, <3>2, <3>3
  <2> QED BY <2>1, <2>2
<1>14. KeysBelow(M[q], a) = a + 1 /\ ChildrenBelow(M[q], a) = a + 1
  BY <1>6 DEF KeysBelow, ChildrenBelow
<1>15. U[p].kind = M[q].kind
  BY <1>1, <1>6, <1>9
<1>16. a + 1 + 1 = a + 2
  BY <1>9
<1>17. \A z \in Place \ {p, q, r} : U[z].keys = M[z].keys /\ U[z].child = M[z].child
  BY <1>7, <1>9
<1> HIDE DEF M, W, ks, cs
<1>18. Splits(M, U, q, r, p, a)
  BY <1>6, <1>9, <1>12, <1>13, <1>14, <1>15, <1>16, <1>17 DEF Splits
<1> QED BY <1>18 DEF M

\* Two neighbours of a tree share their children anew.
LEMMA RedistributeTree ==
    ASSUME NEW T, NEW lev, NEW lo, IsTree(T, lev, lo), NEW U, NEW p, NEW q, NEW r, NEW j, NEW a,
           Redistributes(T, U, p, q, r, j, a)
    PROVE  IsTree(U, lev, RedistributeLo(T, lo, p, q, r, j, a))
<1> DEFINE M == Between(T, p, q, r, j)
           W == MergeLo(lo, p, q)
<1>1. Sharing(T, lev, lo, p, q, r, j)
  <2>1. /\ r \in Place /\ T[r].kind = "internal" /\ j \in 1..Len(T[r].keys)
        /\ T[r].child[j] = p /\ T[r].child[j + 1] = q /\ T[p].kind = "internal"
    BY DEF Redistributes
  <2> QED BY <2>1, SharingNodes
<1>2. Merges(T, M, p, q, r, j, q)
  BY <1>1, BetweenMerges
<1>3. IsTree(M, lev, W)
  BY <1>2, MergeTree
<1>4. Splits(M, U, q, r, p, a)
  BY <1>1, BetweenSplits
<1>5. p \in Page /\ q \in Page /\ p # q /\ p \in Place /\ q \in Place /\ r \in Place /\ lev[p] = lev[q]
  BY <1>1 DEF Sharing
<1>6. M[p] = NoNode /\ M[q].kind = "internal" /\ M[q].keys = AllKeys(T, p, q, r, j)
  BY <1>5 DEF Between, Internal
<1>7. M[p].kind = "none" /\ M[q].kind # "none"
  BY <1>6 DEF NoNode
<1> HIDE DEF M, W
<1>8. IsTree(U, SplitLev(lev, q, p), SplitLo(M, W, q, p, a))
  BY <1>3, <1>4, <1>5, <1>7, SplitTree
<1>9. lev \in [Place -> Nat] /\ lo \in [Place -> Nat]
  BY DEF IsTree, Family, Ordered
<1>10. SplitLev(lev, q, p) = lev
  BY <1>5, <1>9 DEF SplitLev
<1>11. SplitLo(M, W, q, p, a) = RedistributeLo(T, lo, p, q, r, j, a)
  BY <1>5, <1>6, <1>9 DEF SplitLo, RedistributeLo, W, MergeLo
<1> QED BY <1>8, <1>10, <1>11

-----------------------------------------------------------------------------
(* The tree grows and shrinks at the root *)

\* old, the only child of 0, goes, and 0 takes its keys and children.
Collapses(T, U, old) ==
    /\ T[0].keys = <<>> /\ T[0].child = <<old>> /\ T[old].kind = "internal"
    /\ U \in [Place -> Node]
    /\ U[0] = Internal(T[old].keys, T[old].child, NoPage)
    /\ U[old] = NoNode
    /\ \A z \in Place \ {0, old} :
          /\ U[z].kind = T[z].kind /\ (T[z].kind = "none" => U[z] = T[z])
          /\ U[z].keys = T[z].keys /\ U[z].child = T[z].child
          /\ T[z].kind # "none" => U[z].parent = IF T[z].parent = old THEN 0 ELSE T[z].parent

\* The levels then.
CollapsedLev(lev, old) == [lev EXCEPT ![0] = lev[old]]

\* A tree that collapses is a tree.
LEMMA CollapseTree ==
    ASSUME NEW T, NEW lev, NEW lo, IsTree(T, lev, lo), NEW U, NEW old, Collapses(T, U, old)
    PROVE  IsTree(U, CollapsedLev(lev, old), lo)
<1> DEFINE L == CollapsedLev(lev, old)
<1>1. /\ T[0].child = <<old>> /\ T[old].kind = "internal"
      /\ U \in [Place -> Node]
      /\ U[0].kind = "internal" /\ U[0].keys = T[old].keys /\ U[0].child = T[old].child
      /\ U[old] = NoNode /\ U[old].kind = "none"
  BY DEF Collapses, Internal, NoNode
<1>2. /\ \A z \in Place \ {0, old} : U[z].kind = T[z].kind /\ (T[z].kind = "none" => U[z] = T[z])
      /\ \A z \in Place \ {0, old} : U[z].keys = T[z].keys /\ U[z].child = T[z].child
      /\ \A z \in Place \ {0, old} : T[z].kind # "none" =>
            U[z].parent = IF T[z].parent = old THEN 0 ELSE T[z].parent
  BY DEF Collapses
<1>3. /\ old \in Page /\ T[old].parent = 0 /\ lo[old] = 0
      /\ \A c \in Page : T[c].kind # "none" /\ c # old => lev[c] < lev[old] /\ T[c].parent # 0
  BY <1>1, OnlyChild
<1>4. old # 0 /\ old \in Place /\ 0 \in Place /\ Page = Place \ {0} /\ Page \subseteq Place
  BY <1>3, Places
<1>5. lev \in [Place -> Nat] /\ lo \in [Place -> Nat] /\ lo[0] = 0 /\ T[0].kind = "internal"
  BY DEF IsTree, Family, Ordered, Shaped
<1>6. L \in [Place -> Nat] /\ L[0] = lev[old] /\ \A z \in Page : L[z] = lev[z]
  BY <1>4, <1>5 DEF CollapsedLev
<1>7. ASSUME NEW y \in Place, T[y].kind = "internal", NEW i \in 1..Len(T[y].child)
      PROVE  /\ T[y].child[i] \in Page /\ T[T[y].child[i]].kind # "none"
             /\ T[T[y].child[i]].parent = y /\ lev[T[y].child[i]] + 1 = lev[y]
             /\ lo[T[y].child[i]] = IF i = 1 THEN lo[y] ELSE T[y].keys[i - 1]
  <2>1. Len(T[y].child) \in Nat
    BY NodeFields DEF IsTree
  <2>2. i \in Int /\ 1 <= i /\ i <= Len(T[y].child)
    BY <2>1
  <2> QED BY <1>7, <2>2, ChildFacts
<1> HIDE DEF L
<1>8. Shaped(U)
  <2>1. /\ \A p \in Place : T[p].kind = "none" => T[p] = NoNode
        /\ \A p \in Place : T[p].kind = "leaf" => T[p].child = <<>>
        /\ \A p \in Place : T[p].kind = "internal" => Len(T[p].child) = Len(T[p].keys) + 1
    BY DEF IsTree, Shaped
  <2>3. \A p \in Place : U[p].kind = "none" => U[p] = NoNode
    BY <1>1, <1>2, <2>1
  <2>4. \A p \in Place : U[p].kind = "leaf" => U[p].child = <<>>
    BY <1>1, <1>2, <2>1
  <2>5. ASSUME NEW p \in Place, U[p].kind = "internal" PROVE Len(U[p].child) = Len(U[p].keys) + 1
    <3>1. CASE p = 0
      BY <1>1, <1>4, <2>1, <3>1
    <3>2. CASE p # 0
      <4>1. p \notin {0, old}
        BY <1>1, <2>5, <3>2
      <4> QED BY <1>2, <2>1, <2>5, <4>1
    <3> QED BY <3>1, <3>2
  <2> QED BY <1>1, <2>3, <2>4, <2>5 DEF Shaped
<1>9. Family(U, L)
  <2>1. ASSUME NEW p \in Place, U[p].kind = "leaf" PROVE L[p] = 0
    <3>1. p \notin {0, old}
      BY <1>1, <2>1
    <3>2. T[p].kind = "leaf" /\ p \in Page
      BY <1>2, <1>4, <2>1, <3>1
    <3> QED BY <1>6, <3>2 DEF IsTree, Family
  <2>2. ASSUME NEW p \in Place, NEW y \in Place, T[y].kind = "internal", NEW i \in 1..Len(T[y].child),
               U[p].child[i] = T[y].child[i], (y = old /\ p = 0) \/ (p = y /\ y \notin {0, old})
        PROVE  Under(U, L, p, U[p].child[i])
    <3> DEFINE c == T[y].child[i]
    <3>1. c \in Page /\ T[c].kind # "none" /\ T[c].parent = y /\ lev[c] + 1 = lev[y]
      BY <1>7, <2>2
    <3> HIDE DEF c
    <3>2. c # old
      BY <1>3, <2>2, <3>1, <1>4
    <3>3. U[c].kind # "none" /\ U[c].parent = p
      BY <1>2, <1>4, <2>2, <3>1, <3>2
    <3>4. L[p] = lev[y] /\ L[c] = lev[c]
      BY <1>4, <1>6, <2>2, <3>1
    <3> QED BY <2>2, <3>1, <3>3, <3>4 DEF Under, c
  <2>3. ASSUME NEW p \in Place, U[p].kind = "internal", NEW i \in 1..Len(U[p].child)
        PROVE  Under(U, L, p, U[p].child[i])
    <3>1. CASE p = 0
      BY <1>1, <1>4, <2>2, <2>3, <3>1
    <3>2. CASE p # 0
      <4>1. p \notin {0, old}
        BY <1>1, <2>3, <3>2
      <4>2. T[p].kind = "internal" /\ U[p].child = T[p].child
        BY <1>2, <2>3, <4>1
      <4> QED BY <2>2, <2>3, <4>1, <4>2
    <3> QED BY <3>1, <3>2
  <2>4. ASSUME NEW c \in Page, U[c].kind # "none" PROVE L[c] < L[0] /\ HasPlace(U, c)
    <3>1. c # old /\ c \in Place \ {0, old}
      BY <1>1, <1>4, <2>4
    <3>2. T[c].kind # "none"
      BY <1>2, <2>4, <3>1
    <3>3. L[c] < L[0] /\ T[c].parent # 0
      BY <1>3, <1>6, <3>1, <3>2
    <3>4. HasPlace(T, c)
      BY <3>2 DEF IsTree, Family
    <3>5. T[c].parent \in Place
      BY <1>4, <3>2, NodeFields DEF IsTree
    <3>6. CASE T[c].parent = old
      <4>1. U[c].parent = 0
        BY <1>2, <3>1, <3>2, <3>6
      <4> QED BY <1>1, <3>3, <3>4, <3>6, <4>1 DEF HasPlace
    <3>7. CASE T[c].parent # old
      <4>1. U[c].parent = T[c].parent /\ T[c].parent \in Place \ {0, old}
        BY <1>2, <3>1, <3>2, <3>3, <3>5, <3>7
      <4>2. U[T[c].parent].kind = T[T[c].parent].kind /\ U[T[c].parent].child = T[T[c].parent].child
        BY <1>2, <4>1
      <4> QED BY <3>3, <3>4, <4>1, <4>2 DEF HasPlace
    <3> QED BY <3>6, <3>7
  <2> QED BY <1>6, <2>1, <2>3, <2>4 DEF Family
<1>10. ASSUME NEW p \in Place, U[p].kind = "internal" PROVE Begins(U, lo, p)
  <2>1. CASE p = 0
    <3> DEFINE y == p
    <3>1. /\ U[p].child = T[old].child /\ U[p].keys = T[old].keys /\ lo[p] = lo[old]
      BY <1>1, <1>3, <1>5, <2>1
    <3>2. Begins(T, lo, old)
      BY <1>1, <1>4 DEF IsTree, Ordered
    <3> QED BY <3>1, <3>2 DEF Begins
  <2>2. CASE p # 0
    <3>1. p \notin {0, old}
      BY <1>1, <1>10, <2>2
    <3>2. Begins(T, lo, p) /\ U[p].child = T[p].child /\ U[p].keys = T[p].keys
      BY <1>2, <1>10, <3>1 DEF IsTree, Ordered
    <3> QED BY <3>2 DEF Begins
  <2> QED BY <2>1, <2>2
<1>11. ASSUME NEW p \in Place, U[p].kind # "none" PROVE KeysInOrder(U, lo, p)
  <2>1. \A y \in Place : T[y].kind # "none" => KeysInOrder(T, lo, y)
    BY DEF IsTree, Ordered
  <2>2. CASE p = 0
    <3>1. KeysInOrder(T, lo, old) /\ lo[p] = lo[old] /\ U[p].keys = T[old].keys
      BY <1>1, <1>3, <1>4, <1>5, <2>1, <2>2
    <3> QED BY <1>1, <3>1 DEF KeysInOrder
  <2>3. CASE p # 0
    <3>1. p \notin {0, old}
      BY <1>1, <1>11, <2>3
    <3>2. KeysInOrder(T, lo, p) /\ U[p].kind = T[p].kind /\ U[p].keys = T[p].keys
      BY <1>2, <1>11, <2>1, <3>1
    <3> QED BY <3>2 DEF KeysInOrder
  <2> QED BY <2>2, <2>3
<1>12. ASSUME NEW p \in Place, NEW q \in Place, U[p].kind # "none", U[q].kind # "none", L[p] = L[q]
       PROVE  Apart(U, lo, p, q)
  <2>1. ASSUME NEW y \in Place, y # 0, U[y].kind # "none"
        PROVE  y \notin {0, old} /\ T[y].kind # "none" /\ L[y] < lev[old] /\ L[y] = lev[y]
    <3>1. y \notin {0, old} /\ y \in Page
      BY <1>1, <1>4, <2>1
    <3>2. T[y].kind # "none"
      BY <1>2, <2>1, <3>1
    <3> QED BY <1>3, <1>6, <3>1, <3>2
  <2>2. lev[old] \in Nat
    BY <1>4, <1>5
  <2>3. CASE p = 0 \/ q = 0
    <3>1. p = q
      BY <1>6, <1>12, <2>1, <2>2, <2>3
    <3>2. ~(lo[p] < lo[p])
      BY <1>5
    <3> QED BY <3>1, <3>2 DEF Apart
  <2>4. CASE p # 0 /\ q # 0
    <3>1. Apart(T, lo, p, q)
      BY <1>12, <2>1, <2>4 DEF IsTree, Ordered
    <3> QED BY <1>2, <2>1, <1>12, <2>4, <3>1 DEF Apart
  <2> QED BY <2>3, <2>4
<1>13. IsTree(U, L, lo)
  BY <1>5, <1>8, <1>9, <1>10, <1>11, <1>12 DEF IsTree, Ordered
<1> QED BY <1>13 DEF L

-----------------------------------------------------------------------------
(* The chain of leaves *)

\* The links after leaf q, which follows p, has become part of p.
MergeLinks(T, U, p, q, stale) ==
    /\ U[q].kind = "none" /\ \A z \in Place \ {q} : IsLeaf(U, z) <=> IsLeaf(T, z)
    /\ \A z \in Place : T[z].kind = "none" => U[z].kind = "none"
    /\ U[p].next = T[q].next /\ U[p].prev = T[p].prev
    /\ \A z \in Place \ {p, q} : IsLeaf(T, z) =>
          /\ U[z].next = T[z].next
          /\ \/ z # T[q].next /\ U[z].prev = T[z].prev
             \/ z = T[q].next /\ U[z].prev = p
             \/ z = T[q].next /\ U[z].prev = q /\ stale

\* They are a chain of the leaves there are then.
LEMMA MergeChain ==
    ASSUME NEW T, NEW lev, NEW lo, IsTree(T, lev, lo), NEW s, Chain(T, lo, s), NEW U,
           NEW p \in Page, NEW q \in Page, IsLeaf(T, p), IsLeaf(T, q), T[p].next = q,
           NEW stale, s => stale, MergeLinks(T, U, p, q, stale)
    PROVE  Chain(U, lo, stale)
<1>1. /\ U[q].kind = "none" /\ \A z \in Place \ {q} : IsLeaf(U, z) <=> IsLeaf(T, z)
      /\ \A z \in Place : T[z].kind = "none" => U[z].kind = "none"
      /\ U[p].next = T[q].next /\ U[p].prev = T[p].prev
      /\ \A z \in Place \ {p, q} : IsLeaf(T, z) => U[z].next = T[z].next
  BY DEF MergeLinks
<1>2. \A z \in Place \ {p, q} : IsLeaf(T, z) =>
         \/ z # T[q].next /\ U[z].prev = T[z].prev
         \/ z = T[q].next /\ U[z].prev = p
         \/ z = T[q].next /\ U[z].prev = q /\ stale
  BY DEF MergeLinks
<1>3. p \in Place /\ q \in Place /\ Page \subseteq Place /\ NoPage \notin Page
  BY Places DEF NoPage
<1>4. lo \in [Place -> Nat]
  BY DEF IsTree, Ordered
<1>5. Follows(T, lo, p, q) /\ Follows(T, lo, q, T[q].next)
  BY <1>3 DEF Chain
<1>6. lo[p] < lo[q] /\ \A z \in Place : IsLeaf(T, z) => lo[z] <= lo[p] \/ lo[q] <= lo[z]
  BY <1>3, <1>5 DEF Follows
<1>7. p # q /\ lo[p] \in Nat /\ lo[q] \in Nat
  BY <1>3, <1>4, <1>6
<1>8. \A z \in Place : IsLeaf(U, z) => z # q /\ IsLeaf(T, z)
  BY <1>1 DEF IsLeaf
<1>9. ASSUME NEW z \in Place, IsLeaf(T, z), z # q
      PROVE  lo[z] \in Nat /\ lo[z] # lo[q]
  BY <1>3, <1>9, LeavesApart
<1>10. \A z \in Place : IsLeaf(T, z) => (T[z].next = q => z = p)
  BY <1>3, FollowsOnce
<1>11. ASSUME NEW z \in Place, IsLeaf(T, z), z # q PROVE Follows(U, lo, z, U[z].next)
  <2>1. CASE z = p
    <3> DEFINE n == T[q].next
    <3>1. U[z].next = n /\ Follows(T, lo, q, n)
      BY <1>1, <1>5, <2>1
    <3> HIDE DEF n
    <3>2. CASE n = NoPage
      <4>1. \A y \in Place : IsLeaf(T, y) => lo[y] <= lo[q]
        BY <1>3, <3>1, <3>2 DEF Follows
      <4>2. ASSUME NEW y \in Place, IsLeaf(U, y) PROVE lo[y] <= lo[p]
        <5>1. lo[y] \in Nat /\ lo[y] # lo[q] /\ lo[y] <= lo[q]
          BY <1>8, <1>9, <4>1, <4>2
        <5>2. lo[y] <= lo[p] \/ lo[q] <= lo[y]
          BY <1>6, <1>8, <4>2
        <5> QED BY <1>7, <5>1, <5>2
      <4> QED BY <2>1, <3>1, <3>2, <4>2 DEF Follows
    <3>3. CASE n # NoPage
      <4>1. /\ n \in Page /\ IsLeaf(T, n) /\ lo[q] < lo[n]
            /\ \A y \in Place : IsLeaf(T, y) => lo[y] <= lo[q] \/ lo[n] <= lo[y]
        BY <3>1, <3>3 DEF Follows
      <4>2. n \in Place /\ n # q
        BY <1>3, <1>7, <4>1
      <4>3. IsLeaf(U, n) /\ lo[n] \in Nat
        BY <1>1, <1>4, <4>1, <4>2
      <4>4. ASSUME NEW y \in Place, IsLeaf(U, y) PROVE lo[y] <= lo[p] \/ lo[n] <= lo[y]
        <5>1. lo[y] \in Nat /\ lo[y] # lo[q] /\ (lo[y] <= lo[q] \/ lo[n] <= lo[y])
          BY <1>8, <1>9, <4>1, <4>4
        <5>2. lo[y] <= lo[p] \/ lo[q] <= lo[y]
          BY <1>6, <1>8, <4>4
        <5> QED BY <1>7, <4>3, <5>1, <5>2
      <4>5. lo[p] < lo[n]
        BY <1>6, <1>7, <4>1, <4>3
      <4> QED BY <2>1, <3>1, <4>1, <4>3, <4>4, <4>5 DEF Follows
    <3> QED BY <3>2, <3>3
  <2>2. CASE z # p
    <3>1. U[z].next = T[z].next /\ T[z].next # q /\ Follows(T, lo, z, T[z].next)
      BY <1>1, <1>10, <1>11, <2>2 DEF Chain
    <3>2. CASE T[z].next = NoPage
      BY <1>3, <1>8, <3>1, <3>2 DEF Follows
    <3>3. CASE T[z].next # NoPage
      <4>1. /\ T[z].next \in Page /\ IsLeaf(T, T[z].next) /\ lo[z] < lo[T[z].next]
            /\ \A y \in Place : IsLeaf(T, y) => lo[y] <= lo[z] \/ lo[T[z].next] <= lo[y]
        BY <3>1, <3>3 DEF Follows
      <4>2. IsLeaf(U, T[z].next)
        BY <1>1, <1>3, <3>1, <4>1
      <4> QED BY <1>8, <3>1, <4>1, <4>2 DEF Follows
    <3> QED BY <3>2, <3>3
  <2> QED BY <2>1, <2>2
<1>12. ASSUME NEW z \in Place, IsLeaf(T, z), z # q PROVE Precedes(U, lo, z, U[z].prev, stale)
  <2>1. CASE z = T[q].next
    <3>1. z # p
      <4>1. lo[q] < lo[z]
        BY <1>3, <1>5, <1>12, <2>1, Places DEF Follows, NoPage, IsLeaf, IsTree, Shaped
      <4> QED BY <1>6, <1>7, <4>1
    <3>2. U[z].prev = p \/ (U[z].prev = q /\ stale)
      BY <1>2, <1>12, <2>1, <3>1
    <3>3. U[p].next = z /\ IsLeaf(U, p)
      BY <1>1, <1>3, <1>7, <2>1
    <3> QED BY <1>1, <3>2, <3>3 DEF Precedes
  <2>2. CASE z # T[q].next
    <3>1. U[z].prev = T[z].prev
      BY <1>1, <1>2, <1>12, <2>2
    <3>2. Precedes(T, lo, z, T[z].prev, s)
      BY <1>12 DEF Chain
    <3>3. CASE T[z].prev = NoPage
      BY <1>3, <1>8, <3>1, <3>2, <3>3 DEF Precedes
    <3>4. CASE s /\ T[z].prev \in Page /\ T[T[z].prev].kind = "none"
      BY <1>1, <1>3, <3>1, <3>4 DEF Precedes
    <3>5. CASE T[z].prev \in Page /\ IsLeaf(T, T[z].prev) /\ T[T[z].prev].next = z
      <4> DEFINE y == T[z].prev
      <4>1. y \in Page /\ y \in Place /\ IsLeaf(T, y) /\ T[y].next = z
        BY <1>3, <3>5
      <4> HIDE DEF y
      <4>2. y # q /\ y # p
        BY <1>12, <2>2, <4>1
      <4>3. IsLeaf(U, y) /\ U[y].next = z
        BY <1>1, <4>1, <4>2
      <4> QED BY <3>1, <4>1, <4>3 DEF Precedes, y
    <3> QED BY <3>2, <3>3, <3>4, <3>5 DEF Precedes
  <2> QED BY <2>1, <2>2
<1> QED BY <1>8, <1>11, <1>12 DEF Chain

-----------------------------------------------------------------------------
(* Pages in use, and free ones *)

\* The nodes of pg2 are those of pg without the one on page q.
NodeGone(pg, pg2, q) ==
    /\ q \in Page /\ pg[q].kind # "none" /\ pg2[q].kind = "none"
    /\ \A p \in Page \ {q} : pg2[p].kind = "none" <=> pg[p].kind = "none"

\* A page that is freed comes onto the list once.
LEMMA Given ==
    ASSUME MaxPage \in Nat, NEW pg, NEW pg2, NEW fr, NEW np, Books(pg, fr, np), NEW q, NodeGone(pg, pg2, q)
    PROVE  Books(pg2, <<q>> \o fr, np)
<1> DEFINE ff == <<q>> \o fr
<1>1. /\ fr \in Seq(Page) /\ np \in 1..MaxPage + 1
      /\ \A i, j \in 1..Len(fr) : fr[i] = fr[j] => i = j
      /\ \A p \in Page : pg[p].kind = "none" <=> (p >= np \/ \E i \in 1..Len(fr) : fr[i] = p)
      /\ \A i \in 1..Len(fr) : fr[i] < np
  BY DEF Books
<1>2. q \in Page /\ pg[q].kind # "none" /\ pg2[q].kind = "none"
  BY DEF NodeGone
<1>3. /\ ff \in Seq(Page) /\ Len(ff) = Len(fr) + 1 /\ Len(fr) \in Nat
      /\ ff[1] = q /\ \A i \in 1..Len(fr) : ff[i + 1] = fr[i]
  BY <1>1, <1>2
<1> HIDE DEF ff
<1>4. q < np /\ \A i \in 1..Len(fr) : fr[i] # q
  BY <1>1, <1>2 DEF Page
<1>5. ASSUME NEW i \in 1..Len(ff), i # 1 PROVE i - 1 \in 1..Len(fr) /\ ff[i] = fr[i - 1]
  <2> DEFINE h == i - 1
  <2>1. h \in 1..Len(fr) /\ i = h + 1
    BY <1>3, <1>5
  <2> HIDE DEF h
  <2>2. ff[i] = fr[h]
    BY <1>3, <2>1
  <2> QED BY <2>1, <2>2 DEF h
<1>6. \A i, j \in 1..Len(ff) : ff[i] = ff[j] => i = j
  <2>1. ASSUME NEW i \in 1..Len(ff), NEW j \in 1..Len(ff), ff[i] = ff[j] PROVE i = j
    <3>1. CASE i = 1 /\ j = 1
      BY <3>1
    <3>2. CASE i = 1 /\ j # 1
      BY <1>3, <1>4, <1>5, <2>1, <3>2
    <3>3. CASE i # 1 /\ j = 1
      BY <1>3, <1>4, <1>5, <2>1, <3>3
    <3>4. CASE i # 1 /\ j # 1
      <4>1. i - 1 \in 1..Len(fr) /\ j - 1 \in 1..Len(fr) /\ fr[i - 1] = fr[j - 1]
        BY <1>5, <2>1, <3>4
      <4>2. i - 1 = j - 1
        BY <1>1, <4>1
      <4> QED BY <1>3, <4>2
    <3> QED BY <3>1, <3>2, <3>3, <3>4
  <2> QED BY <2>1
<1>7. \A i \in 1..Len(ff) : ff[i] < np
  <2>1. ASSUME NEW i \in 1..Len(ff) PROVE ff[i] < np
    <3>1. CASE i = 1
      BY <1>3, <1>4, <3>1
    <3>2. CASE i # 1
      BY <1>1, <1>5, <3>2
    <3> QED BY <3>1, <3>2
  <2> QED BY <2>1
<1>8. ASSUME NEW p \in Page
      PROVE  pg2[p].kind = "none" <=> (p >= np \/ \E i \in 1..Len(ff) : ff[i] = p)
  <2>1. CASE p = q
    <3>1. 1 \in 1..Len(ff)
      BY <1>3
    <3> QED BY <1>2, <1>3, <2>1, <3>1
  <2>2. CASE p # q
    <3>1. pg2[p].kind = "none" <=> pg[p].kind = "none"
      BY <2>2 DEF NodeGone
    <3>2. ASSUME NEW i \in 1..Len(fr), fr[i] = p PROVE \E j \in 1..Len(ff) : ff[j] = p
      <4>1. i + 1 \in 1..Len(ff) /\ ff[i + 1] = p
        BY <1>3, <3>2
      <4> QED BY <4>1
    <3>3. ASSUME NEW i \in 1..Len(ff), ff[i] = p PROVE \E j \in 1..Len(fr) : fr[j] = p
      <4>1. i # 1
        BY <1>3, <2>2, <3>3
      <4> QED BY <1>5, <3>3, <4>1
    <3> QED BY <1>1, <3>1, <3>2, <3>3
  <2> QED BY <2>1, <2>2
<1> QED BY <1>1, <1>3, <1>6, <1>7, <1>8 DEF Books, ff

-----------------------------------------------------------------------------
(* The inductive invariant *)

\* The inductive invariant.
BInv == TypeOK /\ (Vacant \/ Live)

-----------------------------------------------------------------------------
(* Another key separates two leaves *)

\* Key c of node r is y now.  Keys of leaves may be others, and nothing else is.
NewBoundary(T, U, r, c, y) ==
    /\ SameNodes(T, U)
    /\ r \in Place /\ T[r].kind = "internal" /\ c \in 1..Len(T[r].keys) /\ y \in Key
    /\ \A q \in Place : T[q].kind = "internal" /\ q # r => U[q].keys = T[q].keys
    /\ U[r].keys = [T[r].keys EXCEPT ![c] = y]
    /\ \A q \in Place : IsLeaf(T, q) => U[q].prev = T[q].prev /\ U[q].next = T[q].next

\* y comes after the leaves in front of b begin, and before the others do.
Parting(T, lo, b, y) ==
    \A z \in Place : IsLeaf(T, z) =>
        /\ lo[z] < lo[b] => lo[z] < y
        /\ lo[b] < lo[z] => y < lo[z]

\* Where leaf z begins when b begins at y.
NewLo(lo, b, y, z) == IF z = b THEN y ELSE lo[z]

\* A leaf with the keys ks where they are in order when b begins at y.
KeysPart(T, lo, b, y, z, ks) ==
    /\ Ascending(ks)
    /\ \A i \in 1..Len(ks) :
          /\ NewLo(lo, b, y, z) <= ks[i]
          /\ \A s \in Place : IsLeaf(T, s) /\ lo[z] < lo[s] => ks[i] < NewLo(lo, b, y, s)

\* Then leaf b begins at y, and all is as before.
LEMMA BoundaryAt ==
    ASSUME NEW T, NEW lev, NEW lo, IsTree(T, lev, lo), NEW U, NEW r, NEW c, NEW y,
           NewBoundary(T, U, r, c, y), NEW b \in Place, IsLeaf(T, b), lo[b] = T[r].keys[c],
           Parting(T, lo, b, y),
           \A z \in Place : IsLeaf(T, z) => KeysPart(T, lo, b, y, z, U[z].keys),
           NEW s, Chain(T, lo, s)
    PROVE  \E new : IsTree(U, lev, new) /\ Chain(U, new, s)
<1> DEFINE x == T[r].keys[c]
           new == Moved(lo, x, y)
<1>1. /\ SameNodes(T, U) /\ r \in Place /\ T[r].kind = "internal" /\ c \in 1..Len(T[r].keys) /\ y \in Key
      /\ \A q \in Place : T[q].kind = "internal" /\ q # r => U[q].keys = T[q].keys
      /\ U[r].keys = [T[r].keys EXCEPT ![c] = y]
      /\ \A q \in Place : IsLeaf(T, q) => U[q].prev = T[q].prev /\ U[q].next = T[q].next
  BY DEF NewBoundary
<1>2. x = lo[b] /\ x \in Nat /\ y \in Nat /\ lo \in [Place -> Nat]
  <2>1. y \in Nat
    BY <1>1, KeyAssumption
  <2>2. lo \in [Place -> Nat]
    BY DEF IsTree, Ordered
  <2>3. x = lo[b]
    BY DEF x
  <2>4. lo[b] \in Nat
    BY <2>2
  <2> QED BY <2>1, <2>2, <2>3, <2>4
<1> HIDE DEF x
<1>3. SamePlace(T, lo, x, y)
  BY <1>2 DEF SamePlace, Parting, IsLeaf
<1>4. new \in [Place -> Nat] /\ SameOrder(T, lo, new)
  BY <1>2, <1>3, MovedOrder
<1>5. ASSUME NEW z \in Place, IsLeaf(T, z) PROVE new[z] = NewLo(lo, b, y, z)
  <2>1. CASE z = b
    BY <1>2, <2>1 DEF Moved, NewLo
  <2>2. CASE z # b
    <3>1. lo[z] # lo[b]
      BY <1>5, <2>2, LeavesApart
    <3> QED BY <1>2, <2>2, <3>1 DEF Moved, NewLo
  <2> QED BY <2>1, <2>2
<1> HIDE DEF new
<1>6. \A z \in Place : U[z].kind = T[z].kind
  BY <1>1 DEF SameNodes
<1>7. LeavesInOrder(U, new)
  <2>1. ASSUME NEW z \in Place, U[z].kind = "leaf" PROVE KeysInOrder(U, new, z)
    <3>1. IsLeaf(T, z)
      BY <1>6, <2>1 DEF IsLeaf
    <3>2. KeysPart(T, lo, b, y, z, U[z].keys) /\ new[z] = NewLo(lo, b, y, z)
      BY <1>5, <3>1
    <3> QED BY <2>1, <3>2 DEF KeysPart, KeysInOrder
  <2>2. ASSUME NEW q \in Place, NEW t \in Place, U[q].kind = "leaf", U[t].kind = "leaf", new[q] < new[t],
               NEW i \in 1..Len(U[q].keys)
        PROVE  U[q].keys[i] < new[t]
    <3>1. IsLeaf(T, q) /\ IsLeaf(T, t)
      BY <1>6, <2>2 DEF IsLeaf
    <3>2. T[q].kind # "none" /\ T[t].kind # "none"
      BY <3>1 DEF IsLeaf
    <3>3. lo[q] < lo[t]
      BY <1>4, <2>2, <3>2 DEF SameOrder
    <3>4. KeysPart(T, lo, b, y, q, U[q].keys) /\ new[t] = NewLo(lo, b, y, t)
      BY <1>5, <3>1
    <3> QED BY <3>1, <3>3, <3>4 DEF KeysPart
  <2> QED BY <2>1, <2>2 DEF LeavesInOrder
<1>8. IsTree(U, lev, new)
  <2>1. U[r].keys = [T[r].keys EXCEPT ![c] = y]
    BY <1>1
  <2>2. SamePlace(T, lo, T[r].keys[c], y) /\ LeavesInOrder(U, Moved(lo, T[r].keys[c], y))
    BY <1>3, <1>7 DEF x, new
  <2>3. IsTree(U, lev, Moved(lo, T[r].keys[c], y))
    BY <1>1, <2>1, <2>2, BoundaryMoved
  <2> QED BY <2>3 DEF new, x
<1>9. Chain(U, new, s)
  BY <1>1, <1>2, <1>4, <1>6, SameLinks
<1> QED BY <1>8, <1>9

\* The keys of a leaf before are in order when b begins at y, not in front of where it did.
LEMMA OldKeysPart ==
    ASSUME NEW T, NEW lev, NEW lo, IsTree(T, lev, lo), NEW b \in Place, IsLeaf(T, b),
           NEW y \in Nat, lo[b] <= y, NEW z \in Place, IsLeaf(T, z), z # b
    PROVE  KeysPart(T, lo, b, y, z, T[z].keys)
<1>1. T[z].kind = "leaf" /\ lo \in [Place -> Nat] /\ Shaped(T)
  BY DEF IsLeaf, IsTree, Ordered
<1>2. KeysInOrder(T, lo, z)
  BY <1>1 DEF IsTree, Ordered
<1>3. \A i \in 1..Len(T[z].keys) : T[z].keys[i] \in Nat
  BY <1>1, NodeFields
<1>4. ASSUME NEW i \in 1..Len(T[z].keys), NEW s \in Place, IsLeaf(T, s), lo[z] < lo[s]
      PROVE  T[z].keys[i] < NewLo(lo, b, y, s)
  <2>1. T[z].keys[i] < lo[s]
    <3>1. T[s].kind = "leaf" /\ T[s].kind # "none" /\ T[z].kind # "none"
      BY <1>1, <1>4 DEF IsLeaf
    <3>2. lev[z] = lev[s]
      BY <1>1, <3>1 DEF IsTree, Family
    <3>3. Apart(T, lo, z, s)
      BY <3>1, <3>2 DEF IsTree, Ordered
    <3> QED BY <1>4, <3>3 DEF Apart
  <2>2. lo[s] \in Nat /\ T[z].keys[i] \in Nat /\ lo[b] \in Nat
    BY <1>1, <1>3
  <2>3. lo[s] <= NewLo(lo, b, y, s) /\ NewLo(lo, b, y, s) \in Nat
    BY <2>2 DEF NewLo
  <2> QED BY <2>1, <2>2, <2>3
<1> QED BY <1>2, <1>4 DEF KeysInOrder, KeysPart, NewLo

-----------------------------------------------------------------------------
(* A key is taken out of a leaf *)

\* u has the elements of s without e, in ascending order.
OneLess(s, e, u) ==
    /\ u \in Seq(Key) /\ Len(u) = Len(s) - 1 /\ Ascending(u)
    /\ ToSet(u) = ToSet(s) \ {e}

\* The keys of a leaf without the one in the place that Count gives.
TakeOut(ks, k) == RemoveAt(ks, Count(ks, k))

\* The keys of a sequence, in a set.
LEMMA SeqSet ==
    ASSUME NEW V, NEW s \in Seq(V)
    PROVE  /\ \A v \in ToSet(s) : \E i \in 1..Len(s) : v = s[i]
           /\ \A i \in 1..Len(s) : s[i] \in ToSet(s)
<1>1. DOMAIN s = 1..Len(s)
  BY SeqPlaces
<1> QED BY <1>1 DEF ToSet

\* A sequence of keys is one of numbers.
LEMMA KeySeq ==
    ASSUME NEW ks \in Seq(Key)
    PROVE  /\ ks \in Seq(Nat) /\ Len(ks) \in Nat /\ DOMAIN ks = 1..Len(ks)
           /\ \A i \in 1..Len(ks) : ks[i] \in Key /\ ks[i] \in Nat
<1>1. Key \subseteq Nat
  BY KeyAssumption
<1>2. Len(ks) \in Nat /\ DOMAIN ks = 1..Len(ks) /\ \A i \in 1..Len(ks) : ks[i] \in Key
  BY SeqPlaces
<1>3. ks = [i \in 1..Len(ks) |-> ks[i]]
  BY <1>2
<1>4. ks \in [1..Len(ks) -> Nat]
  BY <1>1, <1>2, <1>3
<1> QED BY <1>1, <1>2, <1>4

\* Count is the place of a key that is there.
LEMMA CountIs ==
    ASSUME NEW ks \in Seq(Key), Ascending(ks), NEW i \in 1..Len(ks)
    PROVE  Count(ks, ks[i]) = i
<1> DEFINE c == Count(ks, ks[i])
<1>1. ks \in Seq(Nat) /\ Len(ks) \in Nat /\ \A j \in 1..Len(ks) : ks[j] \in Nat
  BY KeySeq
<1>2. c \in 0..Len(ks) /\ \A j \in 1..Len(ks) : j <= c <=> ks[j] <= ks[i]
  BY <1>1, CountFacts
<1> HIDE DEF c
<1>3. i <= c
  BY <1>1, <1>2
<1>4. c \in 1..Len(ks) /\ c <= c
  BY <1>1, <1>2, <1>3
<1>5. ks[c] <= ks[i]
  BY <1>2, <1>4
<1>6. ~(i < c)
  <2>1. i < c => ks[i] < ks[c]
    BY <1>4 DEF Ascending
  <2> QED BY <1>1, <1>4, <1>5, <2>1
<1>7. c = i
  BY <1>1, <1>3, <1>4, <1>6
<1> QED BY <1>7 DEF c

\* An element of an ascending sequence is taken out.
LEMMA RemovedAscends ==
    ASSUME NEW ks \in Seq(Key), Ascending(ks), NEW i \in 1..Len(ks), NEW us, Removed(Key, ks, i, us)
    PROVE  OneLess(ks, ks[i], us)
<1> DEFINE n == Len(ks)
<1>1. n \in Nat /\ \A j \in 1..n : ks[j] \in Nat
  BY KeySeq
<1>2. /\ us \in Seq(Key) /\ Len(us) = n - 1
      /\ \A j \in 1..n - 1 : us[j] = IF j < i THEN ks[j] ELSE ks[j + 1]
  BY DEF Removed
<1>3. \A a, b \in 1..n : a < b => ks[a] < ks[b]
  BY DEF Ascending
<1>4. ASSUME NEW j \in 1..n - 1
      PROVE  \E h \in 1..n : us[j] = ks[h] /\ h # i /\ (j < i => h = j) /\ (~(j < i) => h = j + 1)
  <2>1. CASE j < i
    <3>1. us[j] = ks[j] /\ j \in 1..n /\ j # i
      BY <1>1, <1>2, <2>1
    <3> QED BY <2>1, <3>1
  <2>2. CASE ~(j < i)
    <3>1. us[j] = ks[j + 1] /\ j + 1 \in 1..n /\ j + 1 # i
      BY <1>1, <1>2, <2>2
    <3> QED BY <2>2, <3>1
  <2> QED BY <2>1, <2>2
<1>5. ASSUME NEW a \in 1..n - 1, NEW b \in 1..n - 1, a < b PROVE us[a] < us[b]
  <2>1. PICK g \in 1..n : us[a] = ks[g] /\ g # i /\ (a < i => g = a) /\ (~(a < i) => g = a + 1)
    BY <1>4
  <2>2. PICK h \in 1..n : us[b] = ks[h] /\ h # i /\ (b < i => h = b) /\ (~(b < i) => h = b + 1)
    BY <1>4
  <2>3. g < h
    BY <1>1, <1>5, <2>1, <2>2
  <2> QED BY <1>3, <2>1, <2>2, <2>3
<1>6. Ascending(us)
  BY <1>2, <1>5 DEF Ascending
<1>7. ASSUME NEW v PROVE v \in ToSet(us) <=> v \in ToSet(ks) \ {ks[i]}
  <2>1. ASSUME v \in ToSet(us) PROVE v \in ToSet(ks) \ {ks[i]}
    <3>1. PICK j \in 1..n - 1 : v = us[j]
      BY <1>2, <2>1, SeqSet
    <3>2. PICK h \in 1..n : us[j] = ks[h] /\ h # i
      BY <1>4
    <3>3. v \in ToSet(ks)
      BY <3>1, <3>2, SeqSet
    <3>4. ks[h] # ks[i]
      <4>1. h < i \/ i < h
        BY <1>1, <3>2
      <4>2. ks[h] \in Nat /\ ks[i] \in Nat
        BY <1>1
      <4> QED BY <1>3, <4>1, <4>2
    <3> QED BY <3>1, <3>2, <3>3, <3>4
  <2>2. ASSUME v \in ToSet(ks) \ {ks[i]} PROVE v \in ToSet(us)
    <3>1. PICK h \in 1..n : v = ks[h]
      BY <2>2, SeqSet
    <3>2. h # i
      BY <2>2, <3>1
    <3>3. CASE h < i
      <4>1. h \in 1..n - 1 /\ us[h] = ks[h]
        BY <1>1, <1>2, <3>3
      <4> QED BY <1>2, <3>1, <4>1, SeqSet
    <3>4. CASE i < h
      <4> DEFINE j == h - 1
      <4>1. j \in 1..n - 1 /\ ~(j < i) /\ j + 1 = h
        BY <1>1, <3>4
      <4> HIDE DEF j
      <4>2. us[j] = ks[h]
        BY <1>2, <4>1
      <4>3. j \in 1..Len(us)
        BY <1>2, <4>1
      <4> QED BY <1>2, <3>1, <4>2, <4>3, SeqSet
    <3> QED BY <1>1, <3>2, <3>3, <3>4
  <2> QED BY <2>1, <2>2
<1> QED BY <1>2, <1>6, <1>7 DEF OneLess

\* So the keys stay in order where one is taken out.
LEMMA TakeOutFacts ==
    ASSUME NEW ks \in Seq(Key), Ascending(ks), NEW k, k \in ToSet(ks)
    PROVE  OneLess(ks, k, TakeOut(ks, k))
<1>1. PICK i \in 1..Len(ks) : k = ks[i]
  BY SeqSet
<1>2. Count(ks, k) = i
  BY <1>1, CountIs
<1>3. Len(ks) \in Nat
  BY KeySeq
<1>4. i \in Int /\ 1 <= i /\ i <= Len(ks)
  BY <1>3
<1>5. Removed(Key, ks, i, RemoveAt(ks, i))
  BY <1>4, RemoveAtFacts
<1>6. OneLess(ks, ks[i], RemoveAt(ks, i))
  BY <1>5, RemovedAscends
<1> QED BY <1>1, <1>2, <1>6 DEF TakeOut

\* Leaf p holds ks, which are keys of it, and begins at y, the first of them.
FirstTaken(T, U, p, ks, r, c, y) ==
    /\ p \in Page /\ T[p].kind = "leaf" /\ ks \in Seq(Key) /\ Ascending(ks)
    /\ ToSet(ks) \subseteq ToSet(T[p].keys) /\ 1 \in 1..Len(ks) /\ y = ks[1]
    /\ NewBoundary(T, U, r, c, y) /\ U[p].keys = ks
    /\ \A z \in Place \ {p} : IsLeaf(T, z) => U[z].keys = T[z].keys

\* The tree and the chain are such then.
LEMMA FirstTakenTree ==
    ASSUME NEW T, NEW lev, NEW lo, IsTree(T, lev, lo), NEW s, Chain(T, lo, s),
           NEW U, NEW p, NEW ks, NEW r, NEW c, NEW y, FirstTaken(T, U, p, ks, r, c, y),
           lo[p] = T[r].keys[c]
    PROVE  \E new : IsTree(U, lev, new) /\ Chain(U, new, s)
<1>1. /\ p \in Page /\ p \in Place /\ T[p].kind = "leaf" /\ ks \in Seq(Key) /\ Ascending(ks)
      /\ ToSet(ks) \subseteq ToSet(T[p].keys) /\ 1 \in 1..Len(ks) /\ y = ks[1]
      /\ U[p].keys = ks
  BY Places DEF FirstTaken
<1>2. NewBoundary(T, U, r, c, y) /\ \A z \in Place \ {p} : IsLeaf(T, z) => U[z].keys = T[z].keys
  BY DEF FirstTaken
<1>3. lo \in [Place -> Nat]
  BY DEF IsTree, Ordered
<1>4. y \in Nat /\ y \in ToSet(ks) /\ Len(ks) \in Nat /\ \A i \in 1..Len(ks) : ks[i] \in Nat
  <2>1. Len(ks) \in Nat /\ \A i \in 1..Len(ks) : ks[i] \in Nat
    BY <1>1, KeySeq
  <2>2. ks[1] \in ToSet(ks)
    BY <1>1, SeqSet
  <2> QED BY <1>1, <2>1, <2>2
<1>5. \A i \in 1..Len(ks) : ks[i] \in ToSet(ks)
  BY <1>1, SeqSet
<1>6. Fits(T, lo, p, ks)
  BY <1>1, KeysFit
<1>7. lo[p] <= y /\ \A z \in Place : IsLeaf(T, z) /\ lo[p] < lo[z] => y < lo[z]
  BY <1>4, <1>6 DEF Fits
<1>8. Parting(T, lo, p, y)
  <2>1. ASSUME NEW z \in Place, IsLeaf(T, z), lo[z] < lo[p] PROVE lo[z] < y
    <3>1. lo[z] \in Nat /\ lo[p] \in Nat
      BY <1>1, <1>3
    <3> QED BY <1>4, <1>7, <2>1, <3>1
  <2> QED BY <1>7, <2>1 DEF Parting
<1>9. ASSUME NEW z \in Place, IsLeaf(T, z) PROVE KeysPart(T, lo, p, y, z, U[z].keys)
  <2>1. CASE z = p
    <3>1. ASSUME NEW i \in 1..Len(ks) PROVE NewLo(lo, p, y, z) <= ks[i]
      <4>1. i = 1 \/ 1 < i
        BY <1>4
      <4>2. ks[1] <= ks[i]
        BY <1>1, <1>4, <4>1 DEF Ascending
      <4> QED BY <1>1, <2>1, <4>2 DEF NewLo
    <3>2. ASSUME NEW i \in 1..Len(ks), NEW t \in Place, IsLeaf(T, t), lo[z] < lo[t]
          PROVE  ks[i] < NewLo(lo, p, y, t)
      <4>1. lo[p] < lo[t] /\ t # p
        BY <1>1, <1>3, <2>1, <3>2
      <4>2. ks[i] < lo[t]
        BY <1>5, <1>6, <3>2, <4>1 DEF Fits
      <4> QED BY <4>1, <4>2 DEF NewLo
    <3> QED BY <1>1, <2>1, <3>1, <3>2 DEF KeysPart
  <2>2. CASE z # p
    <3>1. U[z].keys = T[z].keys
      BY <1>2, <1>9, <2>2
    <3>2. IsLeaf(T, p)
      BY <1>1 DEF IsLeaf
    <3> QED BY <1>1, <1>4, <1>7, <1>9, <2>2, <3>1, <3>2, OldKeysPart
  <2> QED BY <2>1, <2>2
<1>10. IsLeaf(T, p)
  BY <1>1 DEF IsLeaf
<1> QED BY <1>1, <1>2, <1>8, <1>9, <1>10, BoundaryAt

\* Leaves p and q share their keys anew: p has ps, and q has qs and begins at y.
Shared(pk, qk, ps, qs, y) ==
    /\ ps \in Seq(Key) /\ Ascending(ps) /\ qs \in Seq(Key) /\ Ascending(qs)
    /\ ToSet(ps) \cup ToSet(qs) = ToSet(pk) \cup ToSet(qk)
    /\ y \in ToSet(qs) /\ \A v \in ToSet(qs) : y <= v
    /\ ToSet(ps) # {} /\ \A v \in ToSet(ps) : v < y

\* p and q are the children j and j + 1 of r.
LeavesShare(T, U, p, q, r, j, ps, qs, y) ==
    /\ r \in Place /\ T[r].kind = "internal" /\ j \in 1..Len(T[r].keys)
    /\ ChildAt(T, r, j, p) /\ T[r].child[j + 1] = q /\ T[p].kind = "leaf"
    /\ Shared(T[p].keys, T[q].keys, ps, qs, y)
    /\ NewBoundary(T, U, r, j, y) /\ U[p].keys = ps /\ U[q].keys = qs
    /\ \A z \in Place \ {p, q} : IsLeaf(T, z) => U[z].keys = T[z].keys

\* What is true of leaves that are neighbours.
LEMMA NeighbourLeaves ==
    ASSUME NEW T, NEW lev, NEW lo, IsTree(T, lev, lo), NEW r \in Place, T[r].kind = "internal",
           NEW j \in 1..Len(T[r].keys), NEW p, ChildAt(T, r, j, p), NEW q, T[r].child[j + 1] = q,
           T[p].kind = "leaf"
    PROVE  /\ p \in Page /\ q \in Page /\ p \in Place /\ q \in Place /\ p # q /\ p # r /\ q # r
           /\ IsLeaf(T, p) /\ IsLeaf(T, q) /\ lo[p] < lo[q] /\ lo[q] = T[r].keys[j]
           /\ T[p].parent = r /\ T[q].parent = r
           /\ \A z \in Place : IsLeaf(T, z) => lo[z] <= lo[p] \/ lo[q] <= lo[z]
<1>1. /\ j + 1 \in 1..Len(T[r].child) /\ q \in Page /\ Under(T, lev, r, q) /\ lo[q] = T[r].keys[j]
  BY Separators
<1>2. j \in 1..Len(T[r].child) /\ T[r].child[j] = p
  BY DEF ChildAt
<1>3. Len(T[r].child) = Len(T[r].keys) + 1 /\ Len(T[r].keys) \in Nat /\ Len(T[r].child) \in Nat
  BY NodeFields DEF IsTree, Shaped
<1>4. /\ p \in Page /\ T[p].parent = r /\ lev[p] + 1 = lev[r]
      /\ lo[p] = IF j = 1 THEN lo[r] ELSE T[r].keys[j - 1]
  <2>1. j \in Int /\ 1 <= j /\ j <= Len(T[r].child)
    BY <1>2, <1>3
  <2> QED BY <1>2, <2>1, ChildFacts
<1>5. p \in Place /\ q \in Place
  BY <1>1, <1>4, Places
<1>6. T[q].kind = "leaf" /\ T[q].parent = r
  <2>1. lev[q] + 1 = lev[r] /\ T[q].kind # "none" /\ T[q].parent = r
    BY <1>1 DEF Under
  <2>2. lev \in [Place -> Nat] /\ lev[p] = 0
    BY <1>5 DEF IsTree, Family
  <2>3. lev[q] = 0
    <3>1. lev[q] \in Nat /\ lev[p] \in Nat /\ lev[r] \in Nat
      BY <1>5, <2>2
    <3> QED BY <1>4, <2>1, <2>2, <3>1
  <2>4. T[q].kind # "internal"
    BY <1>5, <2>3, UpperNodes DEF IsTree
  <2>5. T[q].kind \in {"none", "leaf", "internal"}
    BY <1>5, NodeFields DEF IsTree
  <2> QED BY <2>1, <2>4, <2>5
<1>7. lo[p] < lo[q]
  <2>1. KeysInOrder(T, lo, r)
    BY DEF IsTree, Ordered
  <2>2. Ascending(T[r].keys) /\ \A i \in 1..Len(T[r].keys) : lo[r] < T[r].keys[i]
    BY <2>1 DEF KeysInOrder
  <2>3. CASE j = 1
    BY <1>1, <1>4, <2>2, <2>3
  <2>4. CASE j # 1
    <3>1. j - 1 \in 1..Len(T[r].keys) /\ j - 1 < j
      BY <1>3, <2>4
    <3>2. T[r].keys[j - 1] < T[r].keys[j]
      BY <2>2, <3>1 DEF Ascending
    <3> QED BY <1>1, <1>4, <2>4, <3>2
  <2> QED BY <2>3, <2>4
<1>8. p # q /\ p # r /\ q # r
  <2>1. lo[p] \in Nat /\ lo[q] \in Nat
    BY <1>5 DEF IsTree, Ordered
  <2> QED BY <1>6, <1>7, <2>1
<1>9. ASSUME NEW z \in Place, IsLeaf(T, z) PROVE lo[z] <= lo[p] \/ lo[q] <= lo[z]
  <2>1. lo[z] \in Nat /\ lo[p] \in Nat
    BY <1>5 DEF IsTree, Ordered
  <2>2. CASE lo[p] < lo[z]
    <3>1. T[z].kind # "none" /\ lev[z] = lev[p]
      BY <1>5, <1>9 DEF IsLeaf, IsTree, Family
    <3> QED BY <2>2, <3>1, NoneBetween
  <2> QED BY <2>1, <2>2
<1> QED BY <1>1, <1>4, <1>5, <1>6, <1>7, <1>8, <1>9 DEF IsLeaf

\* The keys ps and qs are between where p begins and the leaves after q do, and y is.
Within(T, lo, p, q, ps, qs, y) ==
    /\ \A v \in ToSet(ps) \cup ToSet(qs) :
          /\ lo[p] <= v
          /\ \A z \in Place : IsLeaf(T, z) /\ lo[q] < lo[z] => v < lo[z]
    /\ y \in Nat /\ lo[p] < y

\* What the keys of two neighbours have to be when they share them anew.
LEMMA SharedBounds ==
    ASSUME NEW T, NEW lev, NEW lo, IsTree(T, lev, lo), NEW p \in Page, NEW q \in Page,
           IsLeaf(T, p), IsLeaf(T, q), lo[p] < lo[q],
           NEW ps, NEW qs, NEW y, Shared(T[p].keys, T[q].keys, ps, qs, y)
    PROVE  Within(T, lo, p, q, ps, qs, y)
<1>1. T[p].kind = "leaf" /\ T[q].kind = "leaf" /\ p \in Place /\ q \in Place /\ lo \in [Place -> Nat]
  BY Places DEF IsLeaf, IsTree, Ordered
<1>2. Fits(T, lo, p, T[p].keys) /\ Fits(T, lo, q, T[q].keys)
  BY <1>1, KeysFit
<1>3. /\ ToSet(ps) \cup ToSet(qs) = ToSet(T[p].keys) \cup ToSet(T[q].keys)
      /\ ps \in Seq(Key) /\ qs \in Seq(Key) /\ y \in ToSet(qs) /\ ToSet(ps) # {}
      /\ \A v \in ToSet(ps) : v < y
  BY DEF Shared
<1>4. \A v \in ToSet(ps) \cup ToSet(qs) : v \in Nat
  <2>1. ASSUME NEW ks \in Seq(Key) PROVE \A v \in ToSet(ks) : v \in Nat
    BY KeySeq, SeqSet
  <2> QED BY <1>3, <2>1
<1>5. ASSUME NEW v \in ToSet(ps) \cup ToSet(qs)
      PROVE  lo[p] <= v /\ \A z \in Place : IsLeaf(T, z) /\ lo[q] < lo[z] => v < lo[z]
  <2>1. lo[p] \in Nat /\ lo[q] \in Nat /\ v \in Nat /\ \A z \in Place : lo[z] \in Nat
    BY <1>1, <1>4
  <2>2. CASE v \in ToSet(T[p].keys)
    <3>1. lo[p] <= v /\ \A z \in Place : IsLeaf(T, z) /\ lo[p] < lo[z] => v < lo[z]
      BY <1>2, <2>2 DEF Fits
    <3>2. \A z \in Place : lo[q] < lo[z] => lo[p] < lo[z]
      BY <2>1
    <3> QED BY <3>1, <3>2
  <2>3. CASE v \in ToSet(T[q].keys)
    <3>1. lo[q] <= v /\ \A z \in Place : IsLeaf(T, z) /\ lo[q] < lo[z] => v < lo[z]
      BY <1>2, <2>3 DEF Fits
    <3> QED BY <2>1, <3>1
  <2> QED BY <1>3, <2>2, <2>3
<1>6. lo[p] < y
  <2>1. PICK v \in ToSet(ps) : TRUE
    BY <1>3
  <2>2. lo[p] <= v /\ v < y /\ v \in Nat /\ y \in Nat /\ lo[p] \in Nat
    BY <1>1, <1>3, <1>4, <1>5
  <2> QED BY <2>2
<1>7. y \in Nat
  BY <1>3, <1>4
<1> QED BY <1>5, <1>6, <1>7 DEF Within

\* Leaves that share their keys anew leave a tree and a chain.
LEMMA LeavesShareTree ==
    ASSUME NEW T, NEW lev, NEW lo, IsTree(T, lev, lo), NEW s, Chain(T, lo, s),
           NEW U, NEW p, NEW q, NEW r, NEW j, NEW ps, NEW qs, NEW y,
           LeavesShare(T, U, p, q, r, j, ps, qs, y)
    PROVE  \E new : IsTree(U, lev, new) /\ Chain(U, new, s)
<1>1. /\ r \in Place /\ T[r].kind = "internal" /\ j \in 1..Len(T[r].keys)
      /\ ChildAt(T, r, j, p) /\ T[r].child[j + 1] = q /\ T[p].kind = "leaf"
      /\ Shared(T[p].keys, T[q].keys, ps, qs, y)
      /\ NewBoundary(T, U, r, j, y) /\ U[p].keys = ps /\ U[q].keys = qs
      /\ \A z \in Place \ {p, q} : IsLeaf(T, z) => U[z].keys = T[z].keys
  BY DEF LeavesShare
<1>2. /\ p \in Page /\ q \in Page /\ p \in Place /\ q \in Place /\ p # q
      /\ IsLeaf(T, p) /\ IsLeaf(T, q) /\ lo[p] < lo[q] /\ lo[q] = T[r].keys[j]
      /\ \A z \in Place : IsLeaf(T, z) => lo[z] <= lo[p] \/ lo[q] <= lo[z]
  BY <1>1, NeighbourLeaves
<1>3. lo \in [Place -> Nat]
  BY DEF IsTree, Ordered
<1>4. /\ \A v \in ToSet(ps) \cup ToSet(qs) :
            /\ lo[p] <= v
            /\ \A z \in Place : IsLeaf(T, z) /\ lo[q] < lo[z] => v < lo[z]
      /\ y \in Nat /\ lo[p] < y
  <2>1. Within(T, lo, p, q, ps, qs, y)
    BY <1>1, <1>2, SharedBounds
  <2> QED BY <2>1 DEF Within
<1>5. /\ ps \in Seq(Key) /\ qs \in Seq(Key) /\ Ascending(ps) /\ Ascending(qs)
      /\ y \in ToSet(qs) /\ (\A v \in ToSet(ps) : v < y) /\ \A v \in ToSet(qs) : y <= v
  BY <1>1 DEF Shared
<1>6. /\ \A i \in 1..Len(ps) : ps[i] \in ToSet(ps) /\ ps[i] \in Nat
      /\ \A i \in 1..Len(qs) : qs[i] \in ToSet(qs) /\ qs[i] \in Nat
  BY <1>5, SeqSet, KeySeq
<1>7. Parting(T, lo, q, y)
  <2>1. ASSUME NEW z \in Place, IsLeaf(T, z), lo[z] < lo[q] PROVE lo[z] < y
    <3>1. lo[z] \in Nat /\ lo[p] \in Nat /\ lo[q] \in Nat
      BY <1>2, <1>3
    <3>2. lo[z] <= lo[p]
      BY <1>2, <2>1, <3>1
    <3> QED BY <1>4, <3>1, <3>2
  <2>2. ASSUME NEW z \in Place, IsLeaf(T, z), lo[q] < lo[z] PROVE y < lo[z]
    BY <1>4, <1>5, <2>2
  <2> QED BY <2>1, <2>2 DEF Parting
<1>8. KeysPart(T, lo, q, y, p, ps)
  <2>1. ASSUME NEW i \in 1..Len(ps) PROVE NewLo(lo, q, y, p) <= ps[i]
    BY <1>2, <1>4, <1>6 DEF NewLo
  <2>2. ASSUME NEW i \in 1..Len(ps), NEW t \in Place, IsLeaf(T, t), lo[p] < lo[t]
        PROVE  ps[i] < NewLo(lo, q, y, t)
    <3>1. CASE t = q
      BY <1>5, <1>6, <3>1 DEF NewLo
    <3>2. CASE t # q
      <4>1. lo[p] \in Nat /\ lo[q] \in Nat /\ lo[t] \in Nat
        BY <1>2, <1>3
      <4>2. lo[t] # lo[q]
        BY <1>2, <2>2, <3>2, LeavesApart
      <4>3. lo[q] < lo[t]
        BY <1>2, <2>2, <4>1, <4>2
      <4>4. ps[i] < lo[t]
        BY <1>4, <1>6, <2>2, <4>3
      <4> QED BY <3>2, <4>4 DEF NewLo
    <3> QED BY <3>1, <3>2
  <2> QED BY <1>5, <2>1, <2>2 DEF KeysPart
<1>9. KeysPart(T, lo, q, y, q, qs)
  <2>1. ASSUME NEW i \in 1..Len(qs) PROVE NewLo(lo, q, y, q) <= qs[i]
    BY <1>5, <1>6 DEF NewLo
  <2>2. ASSUME NEW i \in 1..Len(qs), NEW t \in Place, IsLeaf(T, t), lo[q] < lo[t]
        PROVE  qs[i] < NewLo(lo, q, y, t)
    <3>1. t # q
      BY <1>2, <1>3, <2>2
    <3>2. qs[i] < lo[t]
      BY <1>4, <1>6, <2>2
    <3> QED BY <3>1, <3>2 DEF NewLo
  <2> QED BY <1>5, <2>1, <2>2 DEF KeysPart
<1>10. ASSUME NEW z \in Place, IsLeaf(T, z), z # p, z # q PROVE KeysPart(T, lo, q, y, z, T[z].keys)
  <2>1. T[z].kind = "leaf" /\ T[z].kind # "none" /\ Shaped(T)
    BY <1>10 DEF IsLeaf, IsTree
  <2>2. KeysInOrder(T, lo, z)
    BY <2>1 DEF IsTree, Ordered
  <2>3. \A i \in 1..Len(T[z].keys) : T[z].keys[i] \in Nat
    BY <2>1, NodeFields
  <2>4. ASSUME NEW i \in 1..Len(T[z].keys), NEW t \in Place, IsLeaf(T, t), lo[z] < lo[t]
        PROVE  T[z].keys[i] < lo[t]
    <3>1. T[t].kind # "none" /\ lev[z] = lev[t]
      BY <2>1, <2>4 DEF IsLeaf, IsTree, Family
    <3>2. Apart(T, lo, z, t)
      BY <2>1, <3>1 DEF IsTree, Ordered
    <3> QED BY <2>4, <3>2 DEF Apart
  <2>5. ASSUME NEW i \in 1..Len(T[z].keys), NEW t \in Place, IsLeaf(T, t), lo[z] < lo[t]
        PROVE  T[z].keys[i] < NewLo(lo, q, y, t)
    <3>1. CASE t # q
      BY <2>4, <2>5, <3>1 DEF NewLo
    <3>2. CASE t = q
      <4>1. lo[p] \in Nat /\ lo[q] \in Nat /\ lo[z] \in Nat
        BY <1>2, <1>3
      <4>2. lo[z] <= lo[p] /\ lo[z] # lo[p]
        <5>1. lo[z] # lo[p]
          BY <1>2, <1>10, LeavesApart
        <5> QED BY <1>2, <1>10, <2>5, <3>2, <4>1, <5>1
      <4>3. lo[z] < lo[p]
        BY <4>1, <4>2
      <4>4. T[z].keys[i] < lo[p]
        BY <1>2, <2>4, <4>3
      <4>5. T[z].keys[i] < y
        BY <1>4, <2>3, <4>1, <4>4
      <4> QED BY <3>2, <4>5 DEF NewLo
    <3> QED BY <3>1, <3>2
  <2> QED BY <1>10, <2>2, <2>5 DEF KeysInOrder, KeysPart, NewLo
<1>11. ASSUME NEW z \in Place, IsLeaf(T, z) PROVE KeysPart(T, lo, q, y, z, U[z].keys)
  <2>1. CASE z = p
    BY <1>1, <1>8, <2>1
  <2>2. CASE z = q
    BY <1>1, <1>9, <2>2
  <2>3. CASE z # p /\ z # q
    <3>1. U[z].keys = T[z].keys
      BY <1>1, <1>11, <2>3
    <3> QED BY <1>10, <1>11, <2>3, <3>1
  <2> QED BY <2>1, <2>2, <2>3
<1> QED BY <1>1, <1>2, <1>7, <1>11, BoundaryAt

-----------------------------------------------------------------------------
(* A leaf borrows a tuple *)

\* A leaf and the next one, which has the same parent, are neighbours there.
LEMMA NextSibling ==
    ASSUME NEW T, NEW lev, NEW lo, IsTree(T, lev, lo), NEW s, Chain(T, lo, s),
           NEW p \in Page, IsLeaf(T, p), NEW q, q = T[p].next, q # NoPage, T[q].parent = T[p].parent
    PROVE  /\ q \in Page /\ IsLeaf(T, q)
           /\ \E j \in 1..Len(T[T[p].parent].keys) :
                 ChildAt(T, T[p].parent, j, p) /\ T[T[p].parent].child[j + 1] = q
<1> DEFINE r == T[p].parent
           ks == T[r].keys
           cs == T[r].child
<1>1. p \in Place /\ T[p].kind = "leaf" /\ T[p].kind # "none"
  BY Places DEF IsLeaf
<1>2. Follows(T, lo, p, q)
  BY <1>1 DEF Chain
<1>3. /\ q \in Page /\ IsLeaf(T, q) /\ lo[p] < lo[q]
      /\ \A z \in Place : IsLeaf(T, z) => lo[z] <= lo[p] \/ lo[q] <= lo[z]
  BY <1>2 DEF Follows
<1>4. r \in Place /\ T[r].kind = "internal" /\ \E j : ChildAt(T, r, j, p)
  BY <1>1, ChildPlace
<1>5. T[q].kind # "none" /\ T[q].parent = r /\ q \in Place
  BY <1>3, Places DEF IsLeaf
<1>6. \E i : ChildAt(T, r, i, q)
  BY <1>3, <1>5, ChildPlace
<1>7. PICK j \in 1..Len(cs) : cs[j] = p
  BY <1>4 DEF ChildAt
<1>8. PICK i \in 1..Len(cs) : cs[i] = q
  BY <1>6 DEF ChildAt
<1>9. Len(cs) = Len(ks) + 1 /\ Len(ks) \in Nat /\ \A h \in 1..Len(ks) : ks[h] \in Nat
  BY <1>4, NodeFields DEF IsTree, Shaped
<1>10. lo[p] \in Nat /\ lo[q] \in Nat /\ lo[r] \in Nat
  BY <1>1, <1>4, <1>5 DEF IsTree, Ordered
<1>11. KeysInOrder(T, lo, r) /\ Begins(T, lo, r)
  BY <1>4 DEF IsTree, Ordered
<1>12. /\ \A a, b \in 1..Len(ks) : a < b => ks[a] < ks[b]
       /\ \A a \in 1..Len(ks) : lo[r] < ks[a]
  BY <1>4, <1>11 DEF KeysInOrder, Ascending
<1>13. \A a \in 1..Len(cs) : lo[cs[a]] = IF a = 1 THEN lo[r] ELSE ks[a - 1]
  BY <1>11 DEF Begins
<1> HIDE DEF r, cs, ks
<1>14. ASSUME NEW a \in 1..Len(cs), NEW b \in 1..Len(cs), a < b PROVE lo[cs[a]] < lo[cs[b]]
  <2>1. lo[cs[b]] = ks[b - 1] /\ b - 1 \in 1..Len(ks)
    <3>1. b # 1 /\ b - 1 \in 1..Len(ks)
      BY <1>9, <1>14
    <3> QED BY <1>13, <3>1
  <2>2. CASE a = 1
    <3>1. lo[cs[a]] = lo[r]
      BY <1>13, <2>2
    <3> QED BY <1>12, <2>1, <3>1
  <2>3. CASE a # 1
    <3>1. lo[cs[a]] = ks[a - 1]
      BY <1>13, <2>3
    <3>2. a - 1 \in 1..Len(ks) /\ a - 1 < b - 1
      BY <1>9, <1>14, <2>3
    <3> QED BY <1>12, <2>1, <3>1, <3>2
  <2> QED BY <2>2, <2>3
<1>15. ~(i < j) /\ i # j
  <2>1. i < j => lo[q] < lo[p]
    BY <1>7, <1>8, <1>14
  <2>2. i = j => q = p
    BY <1>7, <1>8
  <2> QED BY <1>3, <1>10, <2>1, <2>2
<1>16. j \in 1..Len(ks) /\ j + 1 \in 1..Len(cs) /\ j < j + 1 /\ (i = j + 1 \/ j + 1 < i)
  BY <1>9, <1>15
<1>17. ~(j + 1 < i)
  <2> SUFFICES ASSUME j + 1 < i PROVE FALSE
    OBVIOUS
  <2> DEFINE c == cs[j + 1]
  <2>1. ChildAt(T, r, j, p)
    BY <1>7 DEF ChildAt, cs
  <2>2. c \in Place /\ IsLeaf(T, c)
    <3>1. T[r].child[j + 1] = c
      BY DEF cs
    <3>2. j \in 1..Len(T[r].keys)
      BY <1>16 DEF ks
    <3>3. r \in Place /\ T[r].kind = "internal"
      BY <1>4 DEF r
    <3> HIDE DEF c
    <3> QED BY <1>1, <2>1, <3>1, <3>2, <3>3, NeighbourLeaves
  <2>3. lo[p] < lo[c] /\ lo[c] < lo[q]
    BY <1>7, <1>8, <1>14, <1>16
  <2>4. lo[c] \in Nat
    BY <2>2 DEF IsTree, Ordered
  <2> HIDE DEF c
  <2>5. lo[c] <= lo[p] \/ lo[q] <= lo[c]
    BY <1>3, <2>2
  <2> QED BY <1>10, <2>3, <2>4, <2>5
<1>18. cs[j + 1] = q /\ ChildAt(T, r, j, p)
  BY <1>7, <1>8, <1>16, <1>17 DEF ChildAt, cs
<1> QED BY <1>3, <1>16, <1>18 DEF r, cs, ks

\* A page that a leaf names as the one before it and that has the same parent is
\* a leaf and its neighbour there.
LEMMA PrevSibling ==
    ASSUME NEW T, NEW lev, NEW lo, IsTree(T, lev, lo), NEW s, Chain(T, lo, s),
           NEW p \in Page, IsLeaf(T, p), T[p].parent # NoPage,
           NEW v, v = T[p].prev, v # NoPage, T[v].parent = T[p].parent
    PROVE  /\ v \in Page /\ IsLeaf(T, v) /\ T[v].next = p
           /\ \E j \in 1..Len(T[T[v].parent].keys) :
                 ChildAt(T, T[v].parent, j, v) /\ T[T[v].parent].child[j + 1] = p
<1>1. p \in Place /\ p # NoPage
  BY Places DEF NoPage
<1>2. Precedes(T, lo, p, v, s)
  BY <1>1 DEF Chain
<1>3. v \in Page /\ IsLeaf(T, v) /\ T[v].next = p
  <2>1. ASSUME v \in Page, T[v].kind = "none" PROVE FALSE
    <3>1. v \in Place
      BY <2>1, Places
    <3>2. T[v] = NoNode
      BY <2>1, <3>1 DEF IsTree, Shaped
    <3>3. T[v].parent = NoPage
      BY <3>2 DEF NoNode
    <3> QED BY <3>3
  <2> QED BY <1>2, <2>1 DEF Precedes
<1> QED BY <1>1, <1>3, NextSibling

\* The leaves p and q of the pages pg get the keys ps and qs.
TwoKeyed(pg, b, p, q, ps, qs) ==
    /\ p \in Page /\ q \in Page /\ p # q /\ pg[p].kind = "leaf" /\ pg[q].kind = "leaf"
    /\ b \in [Page -> Node]
    /\ b[p] = [pg[p] EXCEPT !.keys = ps] /\ b[q] = [pg[q] EXCEPT !.keys = qs]
    /\ \A z \in Page \ {p, q} : b[z] = pg[z]

\* Key j of r separates them, and becomes y.
LeavesGet(pg, pg2, p, q, r, j, ps, qs, y) ==
    /\ p \in Page /\ q \in Page /\ p # q /\ pg[p].kind = "leaf" /\ pg[q].kind = "leaf"
    /\ pg2 \in [Page -> Node]
    /\ pg2[p] = [pg[p] EXCEPT !.keys = ps] /\ pg2[q] = [pg[q] EXCEPT !.keys = qs]
    /\ pg2[r] = [pg[r] EXCEPT !.keys = [@ EXCEPT ![j] = y]]
    /\ \A z \in Page \ {p, q, r} : pg2[z] = pg[z]

\* q is child j + 1 of r and no other.
OnlyPlace(pg, r, j, q) ==
    /\ r \in Page /\ pg[r].kind = "internal" /\ pg[r].child \in Seq(Page)
    /\ Len(pg[r].child) = Len(pg[r].keys) + 1
    /\ j \in 1..Len(pg[r].keys) /\ \A i \in 1..Len(pg[r].child) : pg[r].child[i] = q <=> i = j + 1

\* Another key in a sequence of keys.
LEMMA OtherKey ==
    ASSUME NEW ks \in Seq(Key), NEW j \in 1..Len(ks), NEW y \in Key
    PROVE  [ks EXCEPT ![j] = y] \in Seq(Key)
<1> DEFINE us == [ks EXCEPT ![j] = y]
           n == Len(ks)
<1>1. n \in Nat /\ DOMAIN ks = 1..n /\ \A i \in 1..n : ks[i] \in Key
  BY SeqPlaces
<1>2. us = [i \in 1..n |-> IF i = j THEN y ELSE ks[i]]
  BY <1>1
<1> HIDE DEF n
<1>3. [i \in 1..n |-> IF i = j THEN y ELSE ks[i]] \in [1..n -> Key]
  BY <1>1
<1> HIDE DEF us
<1>4. us \in [1..n -> Key]
  BY <1>2, <1>3
<1>5. us \in Seq(Key)
  BY <1>1, <1>4
<1> QED BY <1>5 DEF us

\* SetSeparator changes the key in front of a child.
LEMMA SeparatorPages ==
    ASSUME NEW pg \in [Page -> Node], NEW b, NEW p, NEW q, NEW ps, NEW qs, TwoKeyed(pg, b, p, q, ps, qs),
           NEW r, NEW j, OnlyPlace(pg, r, j, q), NEW y \in Key, NEW pg2, pg2 = SetSeparator(b, r, q, y)
    PROVE  LeavesGet(pg, pg2, p, q, r, j, ps, qs, y)
<1> DEFINE at == {i \in 2..Len(b[r].child) : b[r].child[i] = q}
           h == j + 1
<1>1. /\ p \in Page /\ q \in Page /\ p # q /\ pg[p].kind = "leaf" /\ pg[q].kind = "leaf"
      /\ b \in [Page -> Node]
      /\ b[p] = [pg[p] EXCEPT !.keys = ps] /\ b[q] = [pg[q] EXCEPT !.keys = qs]
      /\ \A z \in Page \ {p, q} : b[z] = pg[z]
  BY DEF TwoKeyed
<1>2. /\ r \in Page /\ pg[r].kind = "internal" /\ pg[r].child \in Seq(Page)
      /\ Len(pg[r].child) = Len(pg[r].keys) + 1
      /\ j \in 1..Len(pg[r].keys) /\ \A i \in 1..Len(pg[r].child) : pg[r].child[i] = q <=> i = j + 1
  BY DEF OnlyPlace
<1>3. r # p /\ r # q /\ b[r] = pg[r]
  BY <1>1, <1>2
<1>4. pg[r] \in Node /\ pg[r].keys \in Seq(Key)
  BY <1>2 DEF Node
<1>5. Len(pg[r].keys) \in Nat
  BY <1>4, SeqPlaces
<1>6. at = {h}
  <2>1. h \in 2..Len(pg[r].child)
    BY <1>2, <1>5
  <2>2. \A i \in 2..Len(pg[r].child) : i \in 1..Len(pg[r].child)
    BY <1>2, <1>5
  <2>3. \A i \in 2..Len(pg[r].child) : b[r].child[i] = q <=> i = h
    BY <1>2, <1>3, <2>2
  <2> HIDE DEF h
  <2> QED BY <1>3, <2>1, <2>3
<1>7. Min(at) = h
  BY <1>2, <1>5, <1>6 DEF Min
<1>8. Min(at) - 1 = j
  BY <1>2, <1>5, <1>7
<1>9. pg2 = [b EXCEPT ![r].keys[Min(at) - 1] = y]
  <2>1. at # {}
    BY <1>6
  <2> HIDE DEF at, h
  <2>2. pg2 = IF at = {} THEN b ELSE [b EXCEPT ![r].keys[Min(at) - 1] = y]
    BY DEF SetSeparator, at
  <2> QED BY <2>1, <2>2
<1> HIDE DEF at
<1>10. pg2 = [b EXCEPT ![r].keys[j] = y]
  BY <1>8, <1>9
<1> DEFINE ks == [pg[r].keys EXCEPT ![j] = y]
           n == [pg[r] EXCEPT !.keys = ks]
<1>11. pg2 = [b EXCEPT ![r] = n]
  BY <1>1, <1>2, <1>3, <1>10
<1>12. n \in Node
  <2>1. ks \in Seq(Key)
    BY <1>2, <1>4, OtherKey
  <2> HIDE DEF ks
  <2> QED BY <1>4, <2>1 DEF Node
<1>13. pg2[r] = [pg[r] EXCEPT !.keys = [@ EXCEPT ![j] = y]]
  BY <1>1, <1>2, <1>11
<1> HIDE DEF n
<1>14. pg2 \in [Page -> Node] /\ \A z \in Page \ {r} : pg2[z] = b[z]
  BY <1>1, <1>2, <1>11, <1>12
<1> QED BY <1>1, <1>3, <1>13, <1>14 DEF LeavesGet

\* The pages after the borrow, field by field.
Borrowed(pg, pg2, p, q, r, j, ps, qs, y) ==
    /\ pg2 \in [Page -> Node] /\ p \in Page /\ q \in Page /\ p # q /\ r # p /\ r # q
    /\ pg2[p].keys = ps /\ pg2[q].keys = qs /\ pg2[r].keys = [pg[r].keys EXCEPT ![j] = y]
    /\ \A z \in Page : /\ pg2[z].kind = pg[z].kind /\ pg2[z].child = pg[z].child
                       /\ pg2[z].parent = pg[z].parent
                       /\ pg2[z].prev = pg[z].prev /\ pg2[z].next = pg[z].next
    /\ \A z \in Page \ {p, q, r} : pg2[z] = pg[z]

\* That is what borrowing makes of them.
LEMMA LeavesGetFacts ==
    ASSUME NEW pg \in [Page -> Node], NEW pg2, NEW p, NEW q, NEW r \in Page, pg[r].kind = "internal",
           NEW j, NEW ps, NEW qs, NEW y, LeavesGet(pg, pg2, p, q, r, j, ps, qs, y)
    PROVE  Borrowed(pg, pg2, p, q, r, j, ps, qs, y)
<1>1. /\ p \in Page /\ q \in Page /\ p # q /\ pg[p].kind = "leaf" /\ pg[q].kind = "leaf"
      /\ pg2 \in [Page -> Node]
      /\ pg2[p] = [pg[p] EXCEPT !.keys = ps] /\ pg2[q] = [pg[q] EXCEPT !.keys = qs]
      /\ pg2[r] = [pg[r] EXCEPT !.keys = [@ EXCEPT ![j] = y]]
      /\ \A z \in Page \ {p, q, r} : pg2[z] = pg[z]
  BY DEF LeavesGet
<1>2. r # p /\ r # q
  BY <1>1
<1>3. pg[p] \in Node /\ pg[q] \in Node /\ pg[r] \in Node
  BY <1>1
<1>4. /\ pg2[p].keys = ps /\ pg2[p].kind = pg[p].kind /\ pg2[p].child = pg[p].child
      /\ pg2[p].parent = pg[p].parent /\ pg2[p].prev = pg[p].prev /\ pg2[p].next = pg[p].next
  BY <1>1, <1>3 DEF Node
<1>5. /\ pg2[q].keys = qs /\ pg2[q].kind = pg[q].kind /\ pg2[q].child = pg[q].child
      /\ pg2[q].parent = pg[q].parent /\ pg2[q].prev = pg[q].prev /\ pg2[q].next = pg[q].next
  BY <1>1, <1>3 DEF Node
<1>6. /\ pg2[r].keys = [pg[r].keys EXCEPT ![j] = y] /\ pg2[r].kind = pg[r].kind
      /\ pg2[r].child = pg[r].child /\ pg2[r].parent = pg[r].parent
      /\ pg2[r].prev = pg[r].prev /\ pg2[r].next = pg[r].next
  BY <1>1, <1>3 DEF Node
<1>7. ASSUME NEW z \in Page
      PROVE  /\ pg2[z].kind = pg[z].kind /\ pg2[z].child = pg[z].child
             /\ pg2[z].parent = pg[z].parent
             /\ pg2[z].prev = pg[z].prev /\ pg2[z].next = pg[z].next
  <2>1. z = p \/ z = q \/ z = r \/ pg2[z] = pg[z]
    BY <1>1
  <2> QED BY <1>4, <1>5, <1>6, <2>1
<1> QED BY <1>1, <1>2, <1>4, <1>5, <1>6, <1>7 DEF Borrowed

\* That is a pair of leaves of the tree that share their keys anew.
LEMMA LeavesGetShare ==
    ASSUME NEW pg \in [Page -> Node], NEW rt \in Page, Shaped(TreeOf(pg, rt)),
           NEW r \in Page, NEW j, NEW q, OnlyPlace(pg, r, j, q), NEW p, pg[r].child[j] = p,
           NEW ps, NEW qs, NEW y \in Key, Shared(pg[p].keys, pg[q].keys, ps, qs, y),
           NEW pg2, LeavesGet(pg, pg2, p, q, r, j, ps, qs, y)
    PROVE  LeavesShare(TreeOf(pg, rt), TreeOf(pg2, rt), p, q, r, j, ps, qs, y)
<1> DEFINE T == TreeOf(pg, rt)
           U == TreeOf(pg2, rt)
<1>1. /\ pg[r].kind = "internal" /\ Len(pg[r].child) = Len(pg[r].keys) + 1
      /\ j \in 1..Len(pg[r].keys) /\ j + 1 \in 1..Len(pg[r].child)
      /\ j \in 1..Len(pg[r].child) /\ pg[r].child[j + 1] = q
  <2>1. /\ pg[r].kind = "internal" /\ Len(pg[r].child) = Len(pg[r].keys) + 1
        /\ j \in 1..Len(pg[r].keys) /\ \A i \in 1..Len(pg[r].child) : pg[r].child[i] = q <=> i = j + 1
    BY DEF OnlyPlace
  <2>2. Len(pg[r].keys) \in Nat
    <3>1. pg[r].keys \in Seq(Key)
      BY DEF Node
    <3> QED BY <3>1, SeqPlaces
  <2>3. j + 1 \in 1..Len(pg[r].child) /\ j \in 1..Len(pg[r].child)
    BY <2>1, <2>2
  <2> QED BY <2>1, <2>3
<1>2. /\ pg2 \in [Page -> Node] /\ p \in Page /\ q \in Page /\ p # q /\ r # p /\ r # q
      /\ pg2[p].keys = ps /\ pg2[q].keys = qs /\ pg2[r].keys = [pg[r].keys EXCEPT ![j] = y]
      /\ \A z \in Page : /\ pg2[z].kind = pg[z].kind /\ pg2[z].child = pg[z].child
                         /\ pg2[z].parent = pg[z].parent
                         /\ pg2[z].prev = pg[z].prev /\ pg2[z].next = pg[z].next
      /\ \A z \in Page \ {p, q, r} : pg2[z] = pg[z]
  <2>1. Borrowed(pg, pg2, p, q, r, j, ps, qs, y)
    BY <1>1, LeavesGetFacts
  <2> QED BY <2>1 DEF Borrowed
<1>3. \A z \in Page : T[z] = pg[z] /\ U[z] = pg2[z]
  BY ONLY TreeFacts
<1>4. T[0] = U[0] /\ U \in [Place -> Node]
  <2>1. T[0] = Internal(<<>>, <<rt>>, NoPage)
    BY TreeFacts
  <2>2. U[0] = Internal(<<>>, <<rt>>, NoPage)
    BY TreeFacts
  <2>3. U \in [Place -> Node]
    BY <1>2, TreeFacts
  <2> QED BY <2>1, <2>2, <2>3
<1>5. pg[p].kind = "leaf" /\ pg[q].kind = "leaf"
  BY DEF LeavesGet
<1>6. r \in Place /\ \A z \in Place : z = 0 \/ z \in Page
  BY Places
<1> HIDE DEF T, U
<1>7. \A z \in Place : T[z].kind = "none" => T[z] = NoNode
  BY DEF Shaped, T
<1>8. SameNodes(T, U)
  <2>1. ASSUME NEW z \in Place
        PROVE  /\ U[z].kind = T[z].kind /\ U[z].child = T[z].child /\ U[z].parent = T[z].parent
               /\ T[z].kind = "none" => U[z] = T[z]
    <3>1. CASE z = 0
      BY <1>4, <3>1
    <3>2. CASE z \in Page
      <4>1. /\ U[z].kind = T[z].kind /\ U[z].child = T[z].child /\ U[z].parent = T[z].parent
        BY <1>2, <1>3, <3>2
      <4>2. T[z].kind = "none" => z \notin {p, q, r}
        BY <1>1, <1>2, <1>3, <1>5
      <4>3. z \notin {p, q, r} => U[z] = T[z]
        BY <1>2, <1>3, <3>2
      <4> QED BY <4>1, <4>2, <4>3
    <3> QED BY <1>6, <3>1, <3>2
  <2> QED BY <1>4, <2>1 DEF SameNodes
<1>9. NewBoundary(T, U, r, j, y)
  <2>1. \A z \in Place : T[z].kind = "internal" /\ z # r => U[z].keys = T[z].keys
    <3>1. ASSUME NEW z \in Place, T[z].kind = "internal", z # r PROVE U[z].keys = T[z].keys
      <4>1. CASE z = 0
        BY <1>4, <4>1
      <4>2. CASE z \in Page
        <5>1. z # p /\ z # q
          BY <1>2, <1>3, <1>5, <3>1
        <5>2. pg2[z] = pg[z]
          BY <1>2, <3>1, <4>2, <5>1
        <5> QED BY <1>3, <4>2, <5>2
      <4> QED BY <1>6, <4>1, <4>2
    <3> QED BY <3>1
  <2>2. U[r].keys = [T[r].keys EXCEPT ![j] = y] /\ T[r].kind = "internal" /\ j \in 1..Len(T[r].keys)
    BY <1>1, <1>2, <1>3
  <2>3. \A z \in Place : IsLeaf(T, z) => U[z].prev = T[z].prev /\ U[z].next = T[z].next
    <3>1. ASSUME NEW z \in Place PROVE U[z].prev = T[z].prev /\ U[z].next = T[z].next
      <4>1. CASE z = 0
        BY <1>4, <4>1
      <4>2. CASE z \in Page
        BY <1>2, <1>3, <4>2
      <4> QED BY <1>6, <4>1, <4>2
    <3> QED BY <3>1
  <2> QED BY <1>6, <1>8, <2>1, <2>2, <2>3 DEF NewBoundary
<1>10. \A z \in Place \ {p, q} : IsLeaf(T, z) => U[z].keys = T[z].keys
  <2>1. ASSUME NEW z \in Place \ {p, q}, IsLeaf(T, z) PROVE U[z].keys = T[z].keys
    <3>1. CASE z = 0
      BY <1>4, <3>1
    <3>2. CASE z \in Page
      <4>1. z # r
        BY <1>1, <1>3, <2>1, <3>2 DEF IsLeaf
      <4>2. pg2[z] = pg[z]
        BY <1>2, <2>1, <3>2, <4>1
      <4> QED BY <1>3, <3>2, <4>2
    <3> QED BY <1>6, <3>1, <3>2
  <2> QED BY <2>1
<1>11. ChildAt(T, r, j, p) /\ T[r].child[j + 1] = q /\ T[r].kind = "internal" /\ j \in 1..Len(T[r].keys)
  BY <1>1, <1>3 DEF ChildAt
<1>12. /\ T[p].kind = "leaf" /\ Shared(T[p].keys, T[q].keys, ps, qs, y)
       /\ U[p].keys = ps /\ U[q].keys = qs
  BY <1>2, <1>3, <1>5
<1>13. LeavesShare(T, U, p, q, r, j, ps, qs, y)
  BY <1>6, <1>9, <1>10, <1>11, <1>12 DEF LeavesShare
<1> QED BY <1>13 DEF T, U

\* Two leaves that share their keys anew store the same.
LEMMA SharedStored ==
    ASSUME NEW pg, NEW pg2, NEW p \in Page, NEW q \in Page, pg[p].kind = "leaf", pg[q].kind = "leaf",
           \A z \in Page : pg2[z].kind = pg[z].kind,
           \A z \in Page \ {p, q} : pg[z].kind = "leaf" => pg2[z].keys = pg[z].keys,
           NEW y, Shared(pg[p].keys, pg[q].keys, pg2[p].keys, pg2[q].keys, y)
    PROVE  StoredIn(pg2) = StoredIn(pg)
<1>1. ToSet(pg2[p].keys) \cup ToSet(pg2[q].keys) = ToSet(pg[p].keys) \cup ToSet(pg[q].keys)
  BY DEF Shared
<1>2. ASSUME NEW v PROVE v \in StoredIn(pg2) <=> v \in StoredIn(pg)
  <2>1. ASSUME v \in StoredIn(pg2) PROVE v \in StoredIn(pg)
    <3>1. PICK z \in Page : pg2[z].kind = "leaf" /\ v \in ToSet(pg2[z].keys)
      BY <2>1, StoredWhere
    <3>2. CASE z \in {p, q}
      <4>1. v \in ToSet(pg[p].keys) \/ v \in ToSet(pg[q].keys)
        BY <1>1, <3>1, <3>2
      <4> QED BY <4>1, StoredWhere
    <3>3. CASE z \notin {p, q}
      <4>1. pg[z].kind = "leaf" /\ v \in ToSet(pg[z].keys)
        BY <3>1, <3>3
      <4> QED BY <4>1, StoredWhere
    <3> QED BY <3>2, <3>3
  <2>2. ASSUME v \in StoredIn(pg) PROVE v \in StoredIn(pg2)
    <3>1. PICK z \in Page : pg[z].kind = "leaf" /\ v \in ToSet(pg[z].keys)
      BY <2>2, StoredWhere
    <3>2. CASE z \in {p, q}
      <4>1. v \in ToSet(pg2[p].keys) \/ v \in ToSet(pg2[q].keys)
        BY <1>1, <3>1, <3>2
      <4>2. pg2[p].kind = "leaf" /\ pg2[q].kind = "leaf"
        OBVIOUS
      <4> QED BY <4>1, <4>2, StoredWhere
    <3>3. CASE z \notin {p, q}
      <4>1. pg2[z].kind = "leaf" /\ v \in ToSet(pg2[z].keys)
        BY <3>1, <3>3
      <4> QED BY <4>1, StoredWhere
    <3> QED BY <3>2, <3>3
  <2> QED BY <2>1, <2>2
<1> QED BY <1>2

-----------------------------------------------------------------------------
(* Two leaves become one *)

\* Leaf b, child j + 1 of r, becomes part of leaf a; the leaf after it names z as
\* the one before it.
MergedLeaves(pg, pg2, a, b, r, j, z) ==
    /\ pg2 \in [Page -> Node]
    /\ pg2[a] = [pg[a] EXCEPT !.keys = @ \o pg[b].keys, !.next = pg[b].next]
    /\ pg2[b] = NoNode
    /\ pg2[r] = [pg[r] EXCEPT !.keys = RemoveAt(@, j), !.child = RemoveAt(@, j + 1)]
    /\ \A q \in Page \ {a, b, r} :
          pg2[q] = IF q = pg[b].next THEN [pg[q] EXCEPT !.prev = z] ELSE pg[q]

\* The place of a child, where it has one.
LEMMA IndexIs ==
    ASSUME NEW pg, NEW r, NEW j, NEW q, OnlyPlace(pg, r, j, q)
    PROVE  IndexOf(pg[r], q) = j + 1 /\ j + 1 \in 1..Len(pg[r].child)
<1>1. /\ pg[r].child \in Seq(Page) /\ Len(pg[r].child) = Len(pg[r].keys) + 1
      /\ j \in 1..Len(pg[r].keys) /\ \A i \in 1..Len(pg[r].child) : pg[r].child[i] = q <=> i = j + 1
  BY DEF OnlyPlace
<1>2. DOMAIN pg[r].child = 1..Len(pg[r].child) /\ Len(pg[r].child) \in Nat
  BY <1>1, SeqPlaces
<1> DEFINE h == j + 1
<1>3. h \in 1..Len(pg[r].child)
  BY <1>1, <1>2
<1>4. \A i \in DOMAIN pg[r].child : pg[r].child[i] = q <=> i = h
  BY <1>1, <1>2
<1> HIDE DEF h
<1>5. IndexOf(pg[r], q) = h
  BY <1>2, <1>3, <1>4 DEF IndexOf
<1> QED BY <1>3, <1>5 DEF h

\* A node without a child.
LEMMA ChildGone ==
    ASSUME NEW n \in Node, NEW j \in 1..Len(n.keys), Len(n.child) = Len(n.keys) + 1
    PROVE  /\ WithoutChild(n, j + 1) = [n EXCEPT !.keys = RemoveAt(@, j), !.child = RemoveAt(@, j + 1)]
           /\ WithoutChild(n, j + 1) \in Node
           /\ RemoveAt(n.keys, j) \in Seq(Key) /\ RemoveAt(n.child, j + 1) \in Seq(Page)
<1> DEFINE h == j + 1
           ks == RemoveAt(n.keys, j)
           cs == RemoveAt(n.child, h)
<1>1. n.keys \in Seq(Key) /\ n.child \in Seq(Page) /\ Len(n.keys) \in Nat
  <2>1. n.keys \in Seq(Key) /\ n.child \in Seq(Page)
    BY DEF Node
  <2> QED BY <2>1, SeqPlaces
<1>2. j \in Int /\ 1 <= j /\ j <= Len(n.keys) /\ h \in Int /\ 1 <= h /\ h <= Len(n.child)
  BY <1>1
<1>3. h # 1 /\ h - 1 = j
  BY <1>1
<1>4. ks \in Seq(Key)
  <2>1. Removed(Key, n.keys, j, RemoveAt(n.keys, j))
    <3> HIDE DEF h
    <3> QED BY <1>1, <1>2, RemoveAtFacts
  <2> QED BY <2>1 DEF Removed
<1>5. cs \in Seq(Page)
  <2> HIDE DEF h
  <2>1. Removed(Page, n.child, h, RemoveAt(n.child, h))
    BY <1>1, <1>2, RemoveAtFacts
  <2> QED BY <2>1 DEF Removed
<1>6. WithoutChild(n, h) = [n EXCEPT !.child = RemoveAt(@, h), !.keys = RemoveAt(@, j)]
  <2>1. (IF h = 1 THEN 1 ELSE h - 1) = j
    BY <1>3
  <2> HIDE DEF h
  <2> QED BY <2>1 DEF WithoutChild
<1>7. WithoutChild(n, h) = [n EXCEPT !.keys = ks, !.child = cs]
  BY <1>6
<1>8. [n EXCEPT !.keys = ks, !.child = cs] \in Node
  <2> HIDE DEF ks, cs, h
  <2> QED BY <1>4, <1>5 DEF Node
<1>9. RemoveAt(n.keys, j) \in Seq(Key) /\ RemoveAt(n.child, j + 1) \in Seq(Page)
  BY <1>4, <1>5
<1> QED BY <1>7, <1>8, <1>9

\* What mergeLeafNode and the free list make of the pages.
LEMMA MergeLeavesPages ==
    ASSUME NEW pg \in [Page -> Node], NEW a \in Page, NEW b \in Page, a # b,
           pg[a].kind = "leaf", pg[b].kind = "leaf", NEW r \in Page, pg[r].kind = "internal",
           pg[b].parent = r, NEW j, OnlyPlace(pg, r, j, b), PrevLeaf(pg, a, b, pg[b].next),
           NEW z \in Page, NEW pg2, pg2 = FreePage(WithPrev(MergeLeaves(pg, a, b), pg[b].next, z), b)
    PROVE  MergedLeaves(pg, pg2, a, b, r, j, z)
<1> DEFINE nx == pg[b].next
           rn == [pg[r] EXCEPT !.keys = RemoveAt(@, j), !.child = RemoveAt(@, j + 1)]
           an == [pg[a] EXCEPT !.keys = @ \o pg[b].keys, !.next = nx]
           xn == [pg[nx] EXCEPT !.prev = z]
           m == MergeLeaves(pg, a, b)
           w == WithPrev(m, nx, z)
<1>1. pg[a] \in Node /\ pg[b] \in Node /\ pg[r] \in Node /\ r # a /\ r # b
  OBVIOUS
<1>2. /\ Len(pg[r].child) = Len(pg[r].keys) + 1 /\ j \in 1..Len(pg[r].keys)
  BY DEF OnlyPlace
<1>3. IndexOf(pg[r], b) = j + 1
  BY IndexIs
<1>4. WithoutChild(pg[r], j + 1) = rn /\ WithoutChild(pg[r], j + 1) \in Node
  BY <1>1, <1>2, ChildGone
<1>5. an \in Node
  <2>1. pg[a].keys \in Seq(Key) /\ pg[b].keys \in Seq(Key) /\ nx \in PageOrNone
    BY <1>1 DEF Node
  <2>2. pg[a].keys \o pg[b].keys \in Seq(Key)
    BY <2>1
  <2> HIDE DEF nx
  <2> QED BY <1>1, <2>1, <2>2 DEF Node
<1> HIDE DEF rn, nx
<1>6. m = [pg EXCEPT ![a].keys = @ \o pg[b].keys, ![a].next = nx, ![r] = rn]
  BY <1>3, <1>4 DEF MergeLeaves, nx
<1>7. /\ m \in [Page -> Node] /\ m[a] = an /\ m[r] = rn
      /\ \A q \in Page \ {a, r} : m[q] = pg[q]
  <2>1. m = [[pg EXCEPT ![a] = an] EXCEPT ![r] = rn]
    BY <1>1, <1>6
  <2>2. rn \in Node
    BY <1>4
  <2> HIDE DEF an, m
  <2> QED BY <1>1, <1>5, <2>1, <2>2
<1> HIDE DEF an, m
<1>8. PrevLeaf(pg, a, b, nx)
  BY DEF nx
<1>9. /\ w \in [Page -> Node] /\ w[a] = an /\ w[r] = rn
      /\ \A q \in Page \ {a, r} : w[q] = IF q = nx THEN [pg[q] EXCEPT !.prev = z] ELSE pg[q]
  <2>1. CASE nx = NoPage
    <3>1. w = m
      BY <2>1 DEF WithPrev
    <3>2. \A q \in Page : q # nx
      BY <2>1 DEF NoPage, Page
    <3> HIDE DEF w
    <3> QED BY <1>7, <3>1, <3>2
  <2>2. CASE nx \in Page /\ nx # a /\ nx # b /\ pg[nx].kind = "leaf"
    <3>1. nx # NoPage /\ nx # r
      BY <2>2 DEF NoPage, Page
    <3>2. m[nx] = pg[nx]
      BY <1>7, <2>2, <3>1
    <3>3. w = [m EXCEPT ![nx].prev = z]
      BY <2>2, <3>1, <3>2 DEF WithPrev
    <3>4. w = [m EXCEPT ![nx] = xn]
      BY <1>7, <2>2, <3>2, <3>3
    <3>5. xn \in Node
      <4>1. pg[nx] \in Node /\ z \in PageOrNone
        BY <2>2 DEF PageOrNone
      <4> QED BY <4>1 DEF Node
    <3>6. w[nx] = [pg[nx] EXCEPT !.prev = z]
      BY <1>7, <2>2, <3>4
    <3> HIDE DEF xn, w
    <3>7. w \in [Page -> Node] /\ \A q \in Page \ {nx} : w[q] = m[q]
      BY <1>7, <2>2, <3>4, <3>5
    <3>8. w[a] = an /\ w[r] = rn
      BY <1>7, <2>2, <3>1, <3>7
    <3>9. \A q \in Page \ {a, r} : q # nx => w[q] = pg[q]
      BY <1>7, <3>7
    <3> QED BY <3>6, <3>7, <3>8, <3>9
  <2> QED BY <1>8, <2>1, <2>2 DEF PrevLeaf
<1>10. pg2 = [w EXCEPT ![b] = NoNode]
  BY DEF FreePage, nx, m
<1> HIDE DEF w
<1>11. NoNode \in Node
  <2>1. <<>> \in Seq(Key) /\ <<>> \in Seq(Page)
    OBVIOUS
  <2> QED BY <2>1 DEF NoNode, Node, PageOrNone
<1>12. /\ pg2 \in [Page -> Node] /\ pg2[b] = NoNode /\ \A q \in Page \ {b} : pg2[q] = w[q]
  BY <1>9, <1>10, <1>11
<1>13. pg2[a] = an /\ pg2[r] = rn
  BY <1>1, <1>9, <1>12
<1>14. \A q \in Page \ {a, b, r} : pg2[q] = IF q = nx THEN [pg[q] EXCEPT !.prev = z] ELSE pg[q]
  BY <1>9, <1>12
<1> QED BY <1>12, <1>13, <1>14 DEF MergedLeaves, an, rn, nx

\* Leaf b becomes part of a, its neighbour in the tree.
LeafJoins(pg, pg2, rt, a, b, r, j, z) ==
    /\ pg \in [Page -> Node] /\ rt \in Page /\ r \in Page /\ pg[r].kind = "internal"
    /\ j \in 1..Len(pg[r].keys) /\ ChildAt(pg, r, j, a) /\ pg[r].child[j + 1] = b
    /\ pg[a].kind = "leaf" /\ MergedLeaves(pg, pg2, a, b, r, j, z)

\* What a tree knows of such leaves.
LEMMA JoinNodes ==
    ASSUME NEW pg, NEW pg2, NEW rt, NEW a, NEW b, NEW r, NEW j, NEW z,
           LeafJoins(pg, pg2, rt, a, b, r, j, z), NEW lev, NEW lo, IsTree(TreeOf(pg, rt), lev, lo)
    PROVE  /\ a \in Page /\ b \in Page /\ a # b /\ a # r /\ b # r
           /\ pg[a].kind = "leaf" /\ pg[b].kind = "leaf" /\ pg[a].parent = r /\ pg[b].parent = r
           /\ r \in Page /\ r \in Place /\ pg[r].kind = "internal" /\ lo[a] < lo[b]
           /\ \A q \in Place : IsLeaf(TreeOf(pg, rt), q) => lo[q] <= lo[a] \/ lo[b] <= lo[q]
<1> DEFINE T == TreeOf(pg, rt)
<1>1. /\ pg \in [Page -> Node] /\ r \in Page /\ pg[r].kind = "internal"
      /\ j \in 1..Len(pg[r].keys) /\ ChildAt(pg, r, j, a) /\ pg[r].child[j + 1] = b
      /\ pg[a].kind = "leaf"
  BY DEF LeafJoins
<1>2. \A q \in Page : T[q] = pg[q]
  BY ONLY TreeFacts
<1>3. r \in Place
  BY <1>1, Places
<1>4. ChildAt(T, r, j, a)
  BY <1>1, <1>2 DEF ChildAt
<1>5. a \in Page
  <2>1. pg[r].child \in Seq(Page)
    BY <1>1 DEF Node
  <2>2. j \in 1..Len(pg[r].child) /\ pg[r].child[j] = a
    BY <1>1 DEF ChildAt
  <2> QED BY <2>1, <2>2, SeqPlaces
<1>6. T[r].kind = "internal" /\ j \in 1..Len(T[r].keys) /\ T[r].child[j + 1] = b /\ T[a].kind = "leaf"
  BY <1>1, <1>2, <1>5
<1> HIDE DEF T
<1>7. /\ a \in Page /\ b \in Page /\ a # b /\ a # r /\ b # r
      /\ IsLeaf(T, a) /\ IsLeaf(T, b) /\ lo[a] < lo[b]
      /\ T[a].parent = r /\ T[b].parent = r
      /\ \A q \in Place : IsLeaf(T, q) => lo[q] <= lo[a] \/ lo[b] <= lo[q]
  BY <1>3, <1>4, <1>6, NeighbourLeaves DEF T
<1> QED BY <1>1, <1>2, <1>3, <1>7 DEF T, IsLeaf

\* The nodes after that, field by field.
Joining(T, U, a, b, r, j, z) ==
    /\ U \in [Place -> Node] /\ U[b] = NoNode
    /\ U[a].kind = "leaf" /\ U[a].parent = T[a].parent /\ U[a].child = T[a].child
    /\ U[a].keys = T[a].keys \o T[b].keys /\ U[a].next = T[b].next /\ U[a].prev = T[a].prev
    /\ U[r].kind = T[r].kind /\ U[r].parent = T[r].parent
    /\ U[r].keys = RemoveAt(T[r].keys, j) /\ U[r].child = RemoveAt(T[r].child, j + 1)
    /\ \A q \in Place \ {a, b, r} :
          /\ U[q].kind = T[q].kind /\ U[q].keys = T[q].keys /\ U[q].child = T[q].child
          /\ U[q].parent = T[q].parent /\ U[q].next = T[q].next
          /\ U[q].prev = IF q = T[b].next /\ q # NoPage THEN z ELSE T[q].prev
          /\ q # T[b].next \/ q = NoPage => U[q] = T[q]

\* Those are the nodes.
LEMMA JoinFields ==
    ASSUME NEW pg, NEW pg2, NEW rt, NEW a, NEW b, NEW r, NEW j, NEW z,
           LeafJoins(pg, pg2, rt, a, b, r, j, z), NEW lev, NEW lo, IsTree(TreeOf(pg, rt), lev, lo)
    PROVE  Joining(TreeOf(pg, rt), TreeOf(pg2, rt), a, b, r, j, z)
<1> DEFINE T == TreeOf(pg, rt)
           U == TreeOf(pg2, rt)
<1>1. /\ a \in Page /\ b \in Page /\ a # b /\ a # r /\ b # r
      /\ pg[a].kind = "leaf" /\ pg[b].kind = "leaf"
      /\ r \in Page /\ r \in Place /\ pg[r].kind = "internal"
  BY JoinNodes
<1>2. pg \in [Page -> Node] /\ rt \in Page /\ MergedLeaves(pg, pg2, a, b, r, j, z)
  BY DEF LeafJoins
<1>3. /\ pg2 \in [Page -> Node]
      /\ pg2[a] = [pg[a] EXCEPT !.keys = @ \o pg[b].keys, !.next = pg[b].next]
      /\ pg2[b] = NoNode
      /\ pg2[r] = [pg[r] EXCEPT !.keys = RemoveAt(@, j), !.child = RemoveAt(@, j + 1)]
      /\ \A q \in Page \ {a, b, r} :
            pg2[q] = IF q = pg[b].next THEN [pg[q] EXCEPT !.prev = z] ELSE pg[q]
  BY <1>2 DEF MergedLeaves
<1>4. \A q \in Page : T[q] = pg[q] /\ U[q] = pg2[q]
  BY ONLY TreeFacts
<1>5. T[0] = U[0] /\ U \in [Place -> Node]
  <2>1. T[0] = Internal(<<>>, <<rt>>, NoPage)
    BY TreeFacts
  <2>2. U[0] = Internal(<<>>, <<rt>>, NoPage)
    BY TreeFacts
  <2>3. U \in [Place -> Node]
    BY <1>2, <1>3, TreeFacts
  <2> QED BY <2>1, <2>2, <2>3
<1>6. \A q \in Place : q = 0 \/ q \in Page
  BY Places
<1> HIDE DEF T, U
<1>7. pg[a] \in Node /\ pg[r] \in Node
  BY <1>1, <1>2
<1>8. /\ U[a].kind = "leaf" /\ U[a].parent = T[a].parent /\ U[a].child = T[a].child
      /\ U[a].keys = T[a].keys \o T[b].keys /\ U[a].next = T[b].next /\ U[a].prev = T[a].prev
  <2>1. pg2[a] = [pg[a] EXCEPT !.keys = @ \o pg[b].keys, !.next = pg[b].next] /\ pg[a].kind = "leaf"
    BY <1>1, <1>3
  <2>2. U[a] = pg2[a] /\ T[a] = pg[a] /\ T[b] = pg[b]
    BY <1>1, <1>4
  <2> QED BY <1>7, <2>1, <2>2 DEF Node
<1>9. /\ U[r].kind = T[r].kind /\ U[r].parent = T[r].parent
      /\ U[r].keys = RemoveAt(T[r].keys, j) /\ U[r].child = RemoveAt(T[r].child, j + 1)
  <2>1. pg2[r] = [pg[r] EXCEPT !.keys = RemoveAt(@, j), !.child = RemoveAt(@, j + 1)]
    BY <1>3
  <2>2. U[r] = pg2[r] /\ T[r] = pg[r]
    BY <1>1, <1>4
  <2> QED BY <1>7, <2>1, <2>2 DEF Node
<1>10. ASSUME NEW q \in Place \ {a, b, r}
       PROVE  /\ U[q].kind = T[q].kind /\ U[q].keys = T[q].keys /\ U[q].child = T[q].child
              /\ U[q].parent = T[q].parent /\ U[q].next = T[q].next
              /\ U[q].prev = IF q = T[b].next /\ q # NoPage THEN z ELSE T[q].prev
              /\ q # T[b].next \/ q = NoPage => U[q] = T[q]
  <2>1. CASE q = T[b].next /\ q # NoPage
    <3>1. q \in Page
      BY <1>6, <2>1 DEF NoPage
    <3>2. pg2[q] = [pg[q] EXCEPT !.prev = z] /\ pg[q] \in Node
      BY <1>1, <1>2, <1>3, <1>4, <2>1, <3>1
    <3>3. U[q] = [T[q] EXCEPT !.prev = z] /\ T[q] \in Node
      BY <1>4, <3>1, <3>2
    <3> QED BY <2>1, <3>3 DEF Node
  <2>2. CASE q # T[b].next \/ q = NoPage
    <3>1. U[q] = T[q]
      <4>1. CASE q = 0
        BY <1>5, <4>1
      <4>2. CASE q # 0
        <5>1. q \in Page /\ q # T[b].next
          BY <1>6, <2>2, <4>2 DEF NoPage
        <5>2. pg2[q] = pg[q]
          BY <1>1, <1>3, <1>4, <5>1
        <5> QED BY <1>4, <5>1, <5>2
      <4> QED BY <4>1, <4>2
    <3> QED BY <2>2, <3>1
  <2> QED BY <2>1, <2>2
<1>11. U[b] = NoNode
  BY <1>1, <1>3, <1>4
<1> QED BY <1>5, <1>8, <1>9, <1>10, <1>11 DEF Joining, T, U

\* Leaves that are neighbours in a tree.
Neighbours(T, a, b, r, j) ==
    /\ a \in Page /\ b \in Page /\ a \in Place /\ b \in Place /\ a # b /\ a # r /\ b # r
    /\ T[a].kind = "leaf" /\ T[b].kind = "leaf" /\ T[a].parent = r /\ T[b].parent = r
    /\ r \in Place /\ T[r].kind = "internal"
    /\ j \in 1..Len(T[r].keys) /\ ChildAt(T, r, j, a) /\ T[r].child[j + 1] = b
    /\ T[0].parent = NoPage /\ (T[b].next # NoPage => T[T[b].next].kind = "leaf")

\* That is a merger of two nodes of the tree.
LEMMA JoinMerges ==
    ASSUME NEW T, NEW lev, NEW lo, IsTree(T, lev, lo), NEW U, NEW a, NEW b, NEW r, NEW j, NEW z,
           Neighbours(T, a, b, r, j), Joining(T, U, a, b, r, j, z)
    PROVE  Merges(T, U, a, b, r, j, a)
<1>1. /\ a \in Page /\ b \in Page /\ a \in Place /\ b \in Place /\ a # b /\ a # r /\ b # r
      /\ T[a].kind = "leaf" /\ T[b].kind = "leaf" /\ T[a].parent = r /\ T[b].parent = r
      /\ r \in Place /\ T[r].kind = "internal"
      /\ j \in 1..Len(T[r].keys) /\ ChildAt(T, r, j, a) /\ T[r].child[j + 1] = b
      /\ T[0].parent = NoPage /\ (T[b].next # NoPage => T[T[b].next].kind = "leaf")
  BY DEF Neighbours
<1>2. /\ U \in [Place -> Node] /\ U[b] = NoNode
      /\ U[a].kind = "leaf" /\ U[a].parent = T[a].parent /\ U[a].child = T[a].child
      /\ U[a].keys = T[a].keys \o T[b].keys
      /\ U[r].kind = T[r].kind /\ U[r].parent = T[r].parent
      /\ U[r].keys = RemoveAt(T[r].keys, j) /\ U[r].child = RemoveAt(T[r].child, j + 1)
  BY DEF Joining
<1>3. \A q \in Place \ {a, b, r} :
          /\ U[q].kind = T[q].kind /\ U[q].keys = T[q].keys /\ U[q].child = T[q].child
          /\ U[q].parent = T[q].parent
          /\ q # T[b].next \/ q = NoPage => U[q] = T[q]
  BY DEF Joining
<1>4. T[a].child = <<>> /\ T[b].child = <<>>
  BY <1>1 DEF IsTree, Shaped
<1>5. U[a].child = T[a].child \o T[b].child
  BY <1>2, <1>4
<1>6. [T[r].child EXCEPT ![j] = a] = T[r].child
  <2>1. T[r].child \in Seq(Page) /\ T[r].child[j] = a /\ j \in 1..Len(T[r].child)
    BY <1>1, NodeFields DEF ChildAt, IsTree
  <2>2. T[r].child = [i \in 1..Len(T[r].child) |-> T[r].child[i]]
    BY <2>1
  <2> QED BY <2>1, <2>2
<1>7. U[r].child = RemoveAt([T[r].child EXCEPT ![j] = a], j + 1)
  BY <1>2, <1>6
<1>8. ASSUME NEW q \in Place, T[q].kind # "none" PROVE T[q].parent \notin {a, b}
  <2>1. CASE q = 0
    <3>1. NoPage \notin Page
      BY DEF NoPage, Page
    <3> QED BY <1>1, <2>1, <3>1
  <2>2. CASE q \in Page
    <3>1. T[T[q].parent].kind = "internal"
      BY <1>8, <2>2, ParentFacts
    <3> QED BY <1>1, <3>1
  <2> QED BY <2>1, <2>2, Places
<1>9. ASSUME NEW q \in Place \ {a, b}
      PROVE  /\ U[q].kind = T[q].kind
             /\ T[q].kind = "none" => U[q] = T[q]
             /\ T[q].kind # "none" => U[q].parent = T[q].parent
  <2>1. CASE q = r
    BY <1>1, <1>2, <2>1
  <2>2. CASE q # r
    <3>1. T[q].kind = "none" => q # T[b].next \/ q = NoPage
      BY <1>1
    <3> QED BY <1>3, <2>2, <3>1
  <2> QED BY <2>1, <2>2
<1> QED BY <1>1, <1>2, <1>3, <1>5, <1>7, <1>8, <1>9 DEF Merges, JoinedKeys, ChildAt

\* Its links, where z is a or the leaf that goes.
LEMMA JoinLinks ==
    ASSUME NEW T, Shaped(T), NEW U, NEW a, NEW b, NEW r, NEW j, NEW z, NEW stale,
           Neighbours(T, a, b, r, j), Joining(T, U, a, b, r, j, z),
           z = a \/ (z = b /\ (stale \/ T[b].next = NoPage))
    PROVE  MergeLinks(T, U, a, b, stale)
<1>1. /\ a \in Place /\ b \in Place /\ a # b /\ a # r /\ b # r
      /\ T[a].kind = "leaf" /\ T[b].kind = "leaf" /\ r \in Place /\ T[r].kind = "internal"
      /\ (T[b].next # NoPage => T[T[b].next].kind = "leaf")
  BY DEF Neighbours
<1>2. /\ U[b] = NoNode /\ U[a].kind = "leaf" /\ U[r].kind = T[r].kind
      /\ U[a].next = T[b].next /\ U[a].prev = T[a].prev
      /\ \A q \in Place \ {a, b, r} :
            /\ U[q].kind = T[q].kind /\ U[q].next = T[q].next
            /\ U[q].prev = IF q = T[b].next /\ q # NoPage THEN z ELSE T[q].prev
  BY DEF Joining
<1>3. U[b].kind = "none"
  BY <1>2 DEF NoNode
<1>4. \A q \in Place \ {b} : U[q].kind = T[q].kind
  BY <1>1, <1>2
<1>5. \A q \in Place : T[q].kind = "none" => U[q].kind = "none"
  BY <1>3, <1>4
<1>6. ASSUME NEW q \in Place \ {a, b}, IsLeaf(T, q)
      PROVE  /\ U[q].next = T[q].next
             /\ \/ q # T[b].next /\ U[q].prev = T[q].prev
                \/ q = T[b].next /\ U[q].prev = a
                \/ q = T[b].next /\ U[q].prev = b /\ stale
  <2>1. q # r /\ q # NoPage
    <3>1. T[0].kind = "internal"
      BY DEF Shaped
    <3> QED BY <1>1, <1>6, <3>1 DEF IsLeaf, NoPage
  <2> QED BY <1>2, <1>6, <2>1
<1> QED BY <1>2, <1>3, <1>4, <1>5, <1>6 DEF MergeLinks, IsLeaf

\* A level of a removal has made pg2 of the pages pg; freed is the page it has freed,
\* if any, and r the node that the next level is about.
Rebalanced(pg, pg2, freed, r, rt, stale, short) ==
    /\ pg2 \in [Page -> Node] /\ Sound(TreeOf(pg2, rt), stale, short)
    /\ StoredIn(pg2) = StoredIn(pg) /\ pg2[r].kind = "internal"
    /\ \/ freed = NoPage /\ \A q \in Page : pg2[q].kind = pg[q].kind
       \/ freed # NoPage /\ NodeGone(pg, pg2, freed)

\* A leaf that joins another takes its keys along.
LEMMA JoinStored ==
    ASSUME NEW pg \in [Page -> Node], NEW pg2, NEW a \in Page, NEW b \in Page, a # b,
           pg[a].kind = "leaf", pg[b].kind = "leaf", pg2[a].kind = "leaf", pg2[b] = NoNode,
           pg2[a].keys = pg[a].keys \o pg[b].keys,
           \A q \in Page \ {a, b} : pg2[q].kind = pg[q].kind,
           \A q \in Page \ {a, b} : pg[q].kind = "leaf" => pg2[q].keys = pg[q].keys
    PROVE  StoredIn(pg2) = StoredIn(pg)
<1>1. pg[a].keys \in Seq(Key) /\ pg[b].keys \in Seq(Key)
  BY DEF Node
<1> DEFINE s == pg[a].keys
           t == pg[b].keys
           u == s \o t
<1>2. ToSet(u) = ToSet(s) \cup ToSet(t)
  <2>1. Joined(s, t, u)
    BY <1>1, JoinFacts
  <2>2. Len(s) \in Nat /\ Len(t) \in Nat /\ u \in Seq(Key)
    BY <1>1, SeqPlaces
  <2>3. s \in Seq(Key) /\ t \in Seq(Key)
    BY <1>1
  <2> HIDE DEF s, t, u
  <2>4. /\ Len(u) = Len(s) + Len(t)
        /\ \A i \in 1..Len(s) : u[i] = s[i]
        /\ \A i \in 1..Len(t) : u[Len(s) + i] = t[i]
    BY <2>1 DEF Joined
  <2>5. ASSUME NEW v \in ToSet(u) PROVE v \in ToSet(s) \cup ToSet(t)
    <3>1. PICK i \in 1..Len(u) : v = u[i]
      BY <2>2, SeqSet
    <3>2. CASE i <= Len(s)
      <4>1. i \in 1..Len(s) /\ v = s[i]
        BY <2>2, <2>4, <3>1, <3>2
      <4> QED BY <2>3, <4>1, SeqSet
    <3>3. CASE i > Len(s)
      <4> DEFINE h == i - Len(s)
      <4>1. h \in 1..Len(t) /\ i = Len(s) + h
        BY <2>2, <2>4, <3>3
      <4> HIDE DEF h
      <4>2. v = t[h]
        BY <2>4, <3>1, <4>1
      <4> QED BY <2>3, <4>1, <4>2, SeqSet
    <3> QED BY <2>2, <2>4, <3>2, <3>3
  <2>6. ASSUME NEW v \in ToSet(s) PROVE v \in ToSet(u)
    <3>1. PICK i \in 1..Len(s) : v = s[i]
      BY <2>3, SeqSet
    <3>2. i \in 1..Len(u) /\ v = u[i]
      BY <2>2, <2>4, <3>1
    <3> QED BY <2>2, <3>2, SeqSet
  <2>7. ASSUME NEW v \in ToSet(t) PROVE v \in ToSet(u)
    <3>1. PICK i \in 1..Len(t) : v = t[i]
      BY <2>3, SeqSet
    <3> DEFINE h == Len(s) + i
    <3>2. h \in 1..Len(u) /\ v = u[h]
      BY <2>2, <2>4, <3>1
    <3> HIDE DEF h
    <3> QED BY <2>2, <3>2, SeqSet
  <2> QED BY <2>5, <2>6, <2>7
<1>3. ToSet(pg2[a].keys) = ToSet(pg[a].keys) \cup ToSet(pg[b].keys)
  BY <1>2
<1>4. pg2[b].kind = "none"
  BY DEF NoNode
<1>5. ASSUME NEW v PROVE v \in StoredIn(pg2) <=> v \in StoredIn(pg)
  <2>1. ASSUME v \in StoredIn(pg2) PROVE v \in StoredIn(pg)
    <3>1. PICK z \in Page : pg2[z].kind = "leaf" /\ v \in ToSet(pg2[z].keys)
      BY <2>1, StoredWhere
    <3>2. CASE z = a
      <4>1. v \in ToSet(pg[a].keys) \/ v \in ToSet(pg[b].keys)
        BY <1>3, <3>1, <3>2
      <4> QED BY <4>1, StoredWhere
    <3>3. CASE z # a
      <4>1. z # b
        BY <1>4, <3>1
      <4>2. pg[z].kind = "leaf" /\ v \in ToSet(pg[z].keys)
        BY <3>1, <3>3, <4>1
      <4> QED BY <4>2, StoredWhere
    <3> QED BY <3>2, <3>3
  <2>2. ASSUME v \in StoredIn(pg) PROVE v \in StoredIn(pg2)
    <3>1. PICK z \in Page : pg[z].kind = "leaf" /\ v \in ToSet(pg[z].keys)
      BY <2>2, StoredWhere
    <3>2. CASE z \in {a, b}
      <4>1. v \in ToSet(pg2[a].keys)
        BY <1>3, <3>1, <3>2
      <4> QED BY <4>1, StoredWhere
    <3>3. CASE z \notin {a, b}
      <4>1. pg2[z].kind = "leaf" /\ v \in ToSet(pg2[z].keys)
        BY <3>1, <3>3
      <4> QED BY <4>1, StoredWhere
    <3> QED BY <3>2, <3>3
  <2> QED BY <2>1, <2>2
<1> QED BY <1>5

\* The pages after a merger of leaves.
LEMMA JoinRebalanced ==
    ASSUME NEW pg, NEW pg2, NEW rt, NEW a, NEW b, NEW r, NEW j, NEW z,
           LeafJoins(pg, pg2, rt, a, b, r, j, z), NEW lev, NEW lo, IsTree(TreeOf(pg, rt), lev, lo),
           NEW s, Chain(TreeOf(pg, rt), lo, s), NEW stale, s => stale, NEW short, short => lev[0] <= 2,
           pg[a].next = b, z = a \/ (z = b /\ (stale \/ pg[b].next = NoPage))
    PROVE  Rebalanced(pg, pg2, b, r, rt, stale, short)
<1> DEFINE T == TreeOf(pg, rt)
           U == TreeOf(pg2, rt)
<1>1. /\ a \in Page /\ b \in Page /\ a # b /\ a # r /\ b # r
      /\ pg[a].kind = "leaf" /\ pg[b].kind = "leaf" /\ pg[a].parent = r /\ pg[b].parent = r
      /\ r \in Page /\ r \in Place /\ pg[r].kind = "internal"
  BY JoinNodes
<1>2. /\ pg \in [Page -> Node] /\ rt \in Page /\ MergedLeaves(pg, pg2, a, b, r, j, z)
      /\ j \in 1..Len(pg[r].keys) /\ ChildAt(pg, r, j, a) /\ pg[r].child[j + 1] = b
  BY DEF LeafJoins
<1>3. \A q \in Page : T[q] = pg[q] /\ U[q] = pg2[q]
  BY ONLY TreeFacts
<1>4. T[0].parent = NoPage
  <2>1. T[0] = Internal(<<>>, <<rt>>, NoPage)
    BY TreeFacts
  <2> QED BY <2>1 DEF Internal
<1>5. Joining(T, U, a, b, r, j, z)
  BY JoinFields
<1>6. pg2 \in [Page -> Node]
  BY <1>2 DEF MergedLeaves
<1>7. a \in Place /\ b \in Place
  BY <1>1, Places
<1> HIDE DEF T, U
<1>8. IsTree(T, lev, lo) /\ Chain(T, lo, s)
  BY DEF T
<1>9. T[b].next # NoPage => T[T[b].next].kind = "leaf"
  <2>1. Follows(T, lo, b, T[b].next)
    BY <1>1, <1>3, <1>7, <1>8 DEF Chain, IsLeaf
  <2> QED BY <2>1 DEF Follows, IsLeaf
<1>10. Neighbours(T, a, b, r, j)
  BY <1>1, <1>2, <1>3, <1>4, <1>7, <1>9 DEF Neighbours, ChildAt
<1>11. Merges(T, U, a, b, r, j, a)
  BY <1>5, <1>8, <1>10, JoinMerges
<1>12. IsTree(U, lev, MergeLo(lo, a, a))
  BY <1>8, <1>11, MergeTree
<1>13. MergeLo(lo, a, a) = lo
  <2>1. lo \in [Place -> Nat]
    BY <1>8 DEF IsTree, Ordered
  <2> QED BY <1>7, <2>1 DEF MergeLo
<1>14. z = a \/ (z = b /\ (stale \/ T[b].next = NoPage))
  BY <1>1, <1>3
<1>15. MergeLinks(T, U, a, b, stale)
  BY <1>5, <1>8, <1>10, <1>14, JoinLinks DEF IsTree
<1>16. IsLeaf(T, a) /\ IsLeaf(T, b) /\ T[a].next = b
  BY <1>1, <1>3 DEF IsLeaf
<1>17. Chain(U, lo, stale)
  BY <1>1, <1>8, <1>15, <1>16, MergeChain
<1>18. Sound(U, stale, short)
  BY <1>12, <1>13, <1>17 DEF Sound
<1>19. /\ U[b] = NoNode /\ U[a].kind = "leaf" /\ U[r].kind = T[r].kind
       /\ U[a].keys = T[a].keys \o T[b].keys
       /\ \A q \in Place \ {a, b, r} : U[q].kind = T[q].kind /\ U[q].keys = T[q].keys
  BY <1>5 DEF Joining
<1>20. /\ pg2[b] = NoNode /\ pg2[a].kind = "leaf" /\ pg2[r].kind = "internal"
       /\ pg2[a].keys = pg[a].keys \o pg[b].keys
       /\ \A q \in Page \ {a, b} : pg2[q].kind = pg[q].kind
       /\ \A q \in Page \ {a, b} : pg[q].kind = "leaf" => pg2[q].keys = pg[q].keys
  <2>1. Page \subseteq Place
    BY Places
  <2>2. \A q \in Page \ {a, b, r} : pg2[q].kind = pg[q].kind /\ pg2[q].keys = pg[q].keys
    BY <1>3, <1>19, <2>1
  <2>3. pg2[r].kind = "internal"
    BY <1>1, <1>3, <1>19
  <2>4. pg2[b] = NoNode /\ pg2[a].kind = "leaf" /\ pg2[a].keys = pg[a].keys \o pg[b].keys
    BY <1>1, <1>3, <1>19
  <2> QED BY <1>1, <2>2, <2>3, <2>4
<1>21. StoredIn(pg2) = StoredIn(pg)
  BY <1>1, <1>2, <1>20, JoinStored
<1>22. NodeGone(pg, pg2, b)
  BY <1>1, <1>20 DEF NodeGone, NoNode
<1>23. b # NoPage
  BY <1>1 DEF NoPage, Page
<1> QED BY <1>6, <1>18, <1>20, <1>21, <1>22, <1>23 DEF Rebalanced, U

\* A chain in which no page is named that is not used is one in which some may be.
LEMMA ChainMore ==
    ASSUME NEW T, NEW lo, NEW s, Chain(T, lo, s), NEW stale, s => stale
    PROVE  Chain(T, lo, stale)
BY DEF Chain, Precedes

\* A child has one place.
LEMMA PlaceOnly ==
    ASSUME NEW pg \in [Page -> Node], NEW rt, NEW lev, NEW lo, IsTree(TreeOf(pg, rt), lev, lo),
           NEW r \in Page, pg[r].kind = "internal", NEW j \in 1..Len(pg[r].keys), NEW q, pg[r].child[j + 1] = q
    PROVE  OnlyPlace(pg, r, j, q)
<1> DEFINE T == TreeOf(pg, rt)
           h == j + 1
<1>1. \A z \in Page : T[z] = pg[z]
  BY ONLY TreeFacts
<1> HIDE DEF T
<1>2. IsTree(T, lev, lo) /\ r \in Place /\ T[r] = pg[r]
  BY <1>1, Places DEF T
<1>3. /\ pg[r].child \in Seq(Page) /\ Len(pg[r].child) = Len(pg[r].keys) + 1
      /\ Len(pg[r].keys) \in Nat
  BY <1>2, NodeFields DEF IsTree, Shaped
<1>4. h \in 1..Len(pg[r].child) /\ pg[r].child[h] = q
  BY <1>3
<1> HIDE DEF h
<1>5. ASSUME NEW i \in 1..Len(pg[r].child), pg[r].child[i] = q PROVE i = h
  <2>1. i \in 1..Len(T[r].child) /\ h \in 1..Len(T[r].child) /\ T[r].child[i] = T[r].child[h]
    BY <1>2, <1>4, <1>5
  <2>2. T[r].kind = "internal"
    BY <1>2
  <2> QED BY <1>2, <2>1, <2>2, ChildOnce
<1>6. \A i \in 1..Len(pg[r].child) : pg[r].child[i] = q <=> i = h
  BY <1>4, <1>5
<1> QED BY <1>3, <1>6 DEF OnlyPlace, h

\* The pages after a leaf has borrowed a tuple.
LEMMA BorrowRebalanced ==
    ASSUME NEW pg \in [Page -> Node], NEW rt \in Page, NEW lev, NEW lo, IsTree(TreeOf(pg, rt), lev, lo),
           NEW s, Chain(TreeOf(pg, rt), lo, s), NEW stale, s => stale, NEW short, short => lev[0] <= 2,
           NEW r \in Page, NEW j, NEW q, OnlyPlace(pg, r, j, q), NEW p, pg[r].child[j] = p,
           NEW ps, NEW qs, NEW y \in Key, Shared(pg[p].keys, pg[q].keys, ps, qs, y),
           NEW pg2, LeavesGet(pg, pg2, p, q, r, j, ps, qs, y)
    PROVE  Rebalanced(pg, pg2, NoPage, r, rt, stale, short)
<1> DEFINE T == TreeOf(pg, rt)
           U == TreeOf(pg2, rt)
<1>1. LeavesShare(T, U, p, q, r, j, ps, qs, y)
  <2>1. Shaped(TreeOf(pg, rt))
    BY DEF IsTree
  <2> QED BY <2>1, LeavesGetShare
<1> HIDE DEF U
<1>2. \E new : IsTree(U, lev, new) /\ Chain(U, new, s)
  BY <1>1, LeavesShareTree
<1>3. Sound(U, stale, short)
  <2>1. PICK new : IsTree(U, lev, new) /\ Chain(U, new, s)
    BY <1>2
  <2>2. Chain(U, new, stale)
    BY <2>1, ChainMore
  <2> QED BY <2>1, <2>2 DEF Sound
<1>4. pg[r].kind = "internal"
  BY DEF OnlyPlace
<1>5. Borrowed(pg, pg2, p, q, r, j, ps, qs, y)
  BY <1>4, LeavesGetFacts
<1>6. /\ pg2 \in [Page -> Node] /\ p \in Page /\ q \in Page /\ p # q
      /\ pg2[p].keys = ps /\ pg2[q].keys = qs
      /\ \A z \in Page : pg2[z].kind = pg[z].kind
      /\ \A z \in Page \ {p, q, r} : pg2[z] = pg[z]
  BY <1>5 DEF Borrowed
<1>7. pg[p].kind = "leaf" /\ pg[q].kind = "leaf"
  BY DEF LeavesGet
<1>8. \A z \in Page \ {p, q} : pg[z].kind = "leaf" => pg2[z].keys = pg[z].keys
  BY <1>4, <1>6
<1>9. Shared(pg[p].keys, pg[q].keys, pg2[p].keys, pg2[q].keys, y)
  BY <1>6
<1>10. StoredIn(pg2) = StoredIn(pg)
  BY <1>6, <1>7, <1>8, <1>9, SharedStored
<1>11. pg2[r].kind = "internal"
  BY <1>4, <1>6
<1> QED BY <1>3, <1>6, <1>10, <1>11 DEF Rebalanced, U

\* The first key of the next leaf comes behind those of a leaf.
LEMMA SharedNext ==
    ASSUME NEW pk \in Seq(Key), Ascending(pk), NEW qk \in Seq(Key), Ascending(qk), Len(qk) > 1,
           \A v \in ToSet(pk), w \in ToSet(qk) : v < w
    PROVE  Shared(pk, qk, Append(pk, Head(qk)), Tail(qk), qk[2])
<1> DEFINE x == Head(qk)
           ps == Append(pk, x)
           qs == Tail(qk)
           n == Len(pk)
           m == Len(qk)
<1>1. /\ n \in Nat /\ m \in Nat
      /\ \A i \in 1..n : pk[i] \in Key /\ pk[i] \in Nat
      /\ \A i \in 1..m : qk[i] \in Key /\ qk[i] \in Nat
  BY KeySeq
<1>2. x = qk[1] /\ 1 \in 1..m /\ 2 \in 1..m
  BY <1>1
<1>3. /\ qs \in Seq(Key) /\ Len(qs) = m - 1 /\ \A i \in 1..m - 1 : qs[i] = qk[i + 1]
  BY <1>1
<1> HIDE DEF x
<1>4. x \in Key
  BY <1>1, <1>2
<1>5. /\ ps \in Seq(Key) /\ Len(ps) = n + 1 /\ ps[n + 1] = x /\ \A i \in 1..n : ps[i] = pk[i]
  BY <1>1, <1>4
<1> HIDE DEF ps, qs, n, m
<1>6. \A a, b \in 1..m : a < b => qk[a] < qk[b]
  BY DEF Ascending, m
<1>7. \A a, b \in 1..n : a < b => pk[a] < pk[b]
  BY DEF Ascending, n
<1>8. \A i \in 1..n, h \in 1..m : pk[i] < qk[h]
  BY SeqSet DEF n, m
<1>9. Ascending(qs)
  <2>1. ASSUME NEW a \in 1..m - 1, NEW b \in 1..m - 1, a < b PROVE qs[a] < qs[b]
    <3>1. a + 1 \in 1..m /\ b + 1 \in 1..m /\ a + 1 < b + 1
      BY <1>1, <2>1
    <3> QED BY <1>3, <1>6, <3>1
  <2> QED BY <1>3, <2>1 DEF Ascending
<1>10. Ascending(ps)
  <2>1. ASSUME NEW a \in 1..n + 1, NEW b \in 1..n + 1, a < b PROVE ps[a] < ps[b]
    <3>1. a \in 1..n /\ (b \in 1..n \/ b = n + 1)
      BY <1>1, <2>1
    <3>2. CASE b \in 1..n
      BY <1>5, <1>7, <2>1, <3>1, <3>2
    <3>3. CASE b = n + 1
      BY <1>2, <1>5, <1>8, <3>1, <3>3
    <3> QED BY <3>1, <3>2, <3>3
  <2> QED BY <1>5, <2>1 DEF Ascending
<1>11. \A v \in ToSet(ps) : v = x \/ \E i \in 1..n : v = pk[i]
  <2>1. ASSUME NEW v \in ToSet(ps) PROVE v = x \/ \E i \in 1..n : v = pk[i]
    <3>1. PICK i \in 1..n + 1 : v = ps[i]
      BY <1>5, SeqSet
    <3>2. i \in 1..n \/ i = n + 1
      BY <1>1
    <3> QED BY <1>5, <3>1, <3>2
  <2> QED BY <2>1
<1>12. \A v \in ToSet(qs) : \E i \in 2..m : v = qk[i]
  <2>1. ASSUME NEW v \in ToSet(qs) PROVE \E i \in 2..m : v = qk[i]
    <3>1. PICK i \in 1..m - 1 : v = qs[i]
      BY <1>3, SeqSet
    <3>2. i + 1 \in 2..m /\ v = qk[i + 1]
      BY <1>1, <1>3, <3>1
    <3> QED BY <3>2
  <2> QED BY <2>1
<1>13. \A i \in 2..m : qk[i] \in ToSet(qs)
  <2>1. ASSUME NEW i \in 2..m PROVE qk[i] \in ToSet(qs)
    <3> DEFINE h == i - 1
    <3>1. h \in 1..m - 1 /\ h + 1 = i
      BY <1>1
    <3> HIDE DEF h
    <3>2. qs[h] = qk[i] /\ h \in 1..Len(qs)
      BY <1>3, <3>1
    <3> QED BY <1>3, <3>2, SeqSet
  <2> QED BY <2>1
<1>14. x \in ToSet(ps) /\ \A i \in 1..n : pk[i] \in ToSet(ps)
  <2>1. n + 1 \in 1..Len(ps) /\ \A i \in 1..n : i \in 1..Len(ps)
    BY <1>1, <1>5
  <2>2. ps[n + 1] \in ToSet(ps) /\ \A i \in 1..n : ps[i] \in ToSet(ps)
    BY <1>5, <2>1, SeqSet
  <2> QED BY <1>5, <2>2
<1>15. ToSet(ps) \cup ToSet(qs) = ToSet(pk) \cup ToSet(qk)
  <2>1. ASSUME NEW v \in ToSet(ps) \cup ToSet(qs) PROVE v \in ToSet(pk) \cup ToSet(qk)
    <3>1. (\E i \in 1..n : v = pk[i]) \/ (\E i \in 1..m : v = qk[i])
      <4>1. \A i \in 2..m : i \in 1..m
        BY <1>1
      <4> QED BY <1>2, <1>11, <1>12, <2>1, <4>1
    <3> QED BY <3>1, SeqSet DEF n, m
  <2>2. ASSUME NEW v \in ToSet(pk) PROVE v \in ToSet(ps)
    <3>1. \E i \in 1..n : v = pk[i]
      BY <2>2, SeqSet DEF n
    <3> QED BY <1>14, <3>1
  <2>3. ASSUME NEW v \in ToSet(qk) PROVE v \in ToSet(ps) \cup ToSet(qs)
    <3>1. PICK i \in 1..m : v = qk[i]
      BY <2>3, SeqSet DEF m
    <3>2. i = 1 \/ i \in 2..m
      BY <1>1
    <3> QED BY <1>2, <1>13, <1>14, <3>1, <3>2
  <2> QED BY <2>1, <2>2, <2>3
<1>16. qk[2] \in ToSet(qs) /\ \A v \in ToSet(qs) : qk[2] <= v
  <2>1. 2 \in 2..m /\ \A i \in 2..m : i \in 1..m /\ (i = 2 \/ 2 < i)
    BY <1>1, <1>2
  <2>2. \A i \in 2..m : qk[2] <= qk[i]
    BY <1>1, <1>2, <1>6, <2>1
  <2> QED BY <1>12, <1>13, <2>1, <2>2
<1>17. \A v \in ToSet(ps) : v < qk[2]
  <2>1. x < qk[2]
    BY <1>2, <1>6
  <2>2. \A i \in 1..n : pk[i] < qk[2]
    BY <1>2, <1>8
  <2> QED BY <1>11, <2>1, <2>2
<1>18. ToSet(ps) # {}
  BY <1>14
<1> QED BY <1>3, <1>5, <1>9, <1>10, <1>15, <1>16, <1>17, <1>18 DEF Shared, ps, qs, x

\* The last key of the leaf before comes in front of those of a leaf.
LEMMA SharedPrev ==
    ASSUME NEW vk \in Seq(Key), Ascending(vk), Len(vk) > 1, NEW pk \in Seq(Key), Ascending(pk),
           \A v \in ToSet(vk), w \in ToSet(pk) : v < w
    PROVE  Shared(vk, pk, Front(vk), <<Last(vk)>> \o pk, Last(vk))
<1> DEFINE x == Last(vk)
           ps == Front(vk)
           qs == <<x>> \o pk
           n == Len(pk)
           m == Len(vk)
           l == m - 1
<1>1. /\ n \in Nat /\ m \in Nat
      /\ \A i \in 1..n : pk[i] \in Key /\ pk[i] \in Nat
      /\ \A i \in 1..m : vk[i] \in Key /\ vk[i] \in Nat
  BY KeySeq
<1>2. x = vk[m] /\ m \in 1..m /\ 1 \in 1..m - 1
  BY <1>1 DEF Last
<1>3. /\ ps \in Seq(Key) /\ Len(ps) = m - 1 /\ \A i \in 1..m - 1 : ps[i] = vk[i]
  <2>1. l \in Nat /\ l <= Len(vk)
    BY <1>1
  <2>2. ps = SubSeq(vk, 1, l)
    BY DEF Front
  <2> HIDE DEF l, ps
  <2>3. ps \in Seq(Key) /\ Len(ps) = l /\ \A i \in 1..l : ps[i] = vk[i]
    BY <2>1, <2>2, LowerPart
  <2> QED BY <2>3 DEF l
<1> HIDE DEF x, ps
<1>4. x \in Key /\ x \in Nat
  BY <1>1, <1>2
<1>5. /\ qs \in Seq(Key) /\ Len(qs) = n + 1 /\ qs[1] = x /\ \A i \in 1..n : qs[i + 1] = pk[i]
  <2>1. <<x>> \in Seq(Key) /\ Len(<<x>>) = 1 /\ <<x>>[1] = x
    BY <1>4
  <2>2. Joined(<<x>>, pk, <<x>> \o pk)
    BY <2>1, JoinFacts
  <2>3. /\ Len(qs) = 1 + n /\ qs[1] = x /\ \A i \in 1..n : qs[1 + i] = pk[i]
    BY <2>1, <2>2 DEF Joined
  <2>4. qs \in Seq(Key)
    BY <2>1
  <2> HIDE DEF qs
  <2>5. \A i \in 1..n : 1 + i = i + 1
    BY <1>1
  <2> QED BY <1>1, <2>3, <2>4, <2>5
<1> HIDE DEF qs, n, m, l
<1>6. \A a, b \in 1..m : a < b => vk[a] < vk[b]
  BY DEF Ascending, m
<1>7. \A a, b \in 1..n : a < b => pk[a] < pk[b]
  BY DEF Ascending, n
<1>8. \A h \in 1..m, i \in 1..n : vk[h] < pk[i]
  BY SeqSet DEF n, m
<1>9. Ascending(ps)
  <2>1. \A a, b \in 1..m - 1 : a < b => ps[a] < ps[b]
    BY <1>1, <1>3, <1>6
  <2> QED BY <1>3, <2>1 DEF Ascending
<1>10. ASSUME NEW i \in 1..n + 1 PROVE i = 1 \/ (1 < i /\ i - 1 \in 1..n /\ qs[i] = pk[i - 1])
  <2> DEFINE h == i - 1
  <2>1. i = 1 \/ (1 < i /\ h \in 1..n /\ h + 1 = i)
    BY <1>1
  <2> HIDE DEF h
  <2>2. i = 1 \/ (1 < i /\ h \in 1..n /\ qs[i] = pk[h])
    BY <1>5, <2>1
  <2> QED BY <2>2 DEF h
<1>11. Ascending(qs)
  <2>1. ASSUME NEW a \in 1..n + 1, NEW b \in 1..n + 1, a < b PROVE qs[a] < qs[b]
    <3>1. b - 1 \in 1..n /\ qs[b] = pk[b - 1]
      BY <1>1, <1>10, <2>1
    <3>2. CASE a = 1
      BY <1>2, <1>5, <1>8, <3>1, <3>2
    <3>3. CASE a # 1
      <4>1. a - 1 \in 1..n /\ qs[a] = pk[a - 1] /\ a - 1 < b - 1
        BY <1>1, <1>10, <2>1, <3>3
      <4> QED BY <1>7, <3>1, <4>1
    <3> QED BY <3>2, <3>3
  <2> QED BY <1>5, <2>1 DEF Ascending
<1>12. \A v \in ToSet(qs) : v = x \/ \E i \in 1..n : v = pk[i]
  <2>1. ASSUME NEW v \in ToSet(qs) PROVE v = x \/ \E i \in 1..n : v = pk[i]
    <3>1. PICK i \in 1..n + 1 : v = qs[i]
      BY <1>5, SeqSet
    <3>2. i = 1 \/ (i - 1 \in 1..n /\ qs[i] = pk[i - 1])
      BY <1>10
    <3> QED BY <1>5, <3>1, <3>2
  <2> QED BY <2>1
<1>13. \A v \in ToSet(ps) : \E i \in 1..m - 1 : v = vk[i]
  <2>1. ASSUME NEW v \in ToSet(ps) PROVE \E i \in 1..m - 1 : v = vk[i]
    <3>1. PICK i \in 1..m - 1 : v = ps[i]
      BY <1>3, SeqSet
    <3> QED BY <1>3, <3>1
  <2> QED BY <2>1
<1>14. \A i \in 1..m - 1 : vk[i] \in ToSet(ps)
  <2>1. \A i \in 1..m - 1 : i \in 1..Len(ps) /\ ps[i] = vk[i]
    BY <1>3
  <2> QED BY <1>3, <2>1, SeqSet
<1>15. x \in ToSet(qs) /\ \A i \in 1..n : pk[i] \in ToSet(qs)
  <2>1. 1 \in 1..Len(qs) /\ \A i \in 1..n : i + 1 \in 1..Len(qs)
    BY <1>1, <1>5
  <2>2. qs[1] \in ToSet(qs) /\ \A i \in 1..n : qs[i + 1] \in ToSet(qs)
    BY <1>5, <2>1, SeqSet
  <2> QED BY <1>5, <2>2
<1>16. \A i \in 1..m : i \in 1..m - 1 \/ i = m
  BY <1>1
<1>17. ToSet(ps) \cup ToSet(qs) = ToSet(vk) \cup ToSet(pk)
  <2>1. ASSUME NEW v \in ToSet(ps) \cup ToSet(qs) PROVE v \in ToSet(vk) \cup ToSet(pk)
    <3>1. (\E i \in 1..n : v = pk[i]) \/ (\E i \in 1..m : v = vk[i])
      <4>1. \A i \in 1..m - 1 : i \in 1..m
        BY <1>1
      <4> QED BY <1>2, <1>12, <1>13, <2>1, <4>1
    <3> QED BY <3>1, SeqSet DEF n, m
  <2>2. ASSUME NEW v \in ToSet(pk) PROVE v \in ToSet(qs)
    <3>1. \E i \in 1..n : v = pk[i]
      BY <2>2, SeqSet DEF n
    <3> QED BY <1>15, <3>1
  <2>3. ASSUME NEW v \in ToSet(vk) PROVE v \in ToSet(ps) \cup ToSet(qs)
    <3>1. PICK i \in 1..m : v = vk[i]
      BY <2>3, SeqSet DEF m
    <3> QED BY <1>2, <1>14, <1>15, <1>16, <3>1
  <2> QED BY <2>1, <2>2, <2>3
<1>18. \A v \in ToSet(qs) : x <= v
  <2>1. \A i \in 1..n : x <= pk[i]
    BY <1>1, <1>2, <1>8
  <2> QED BY <1>4, <1>12, <2>1
<1>19. \A v \in ToSet(ps) : v < x
  <2>1. \A i \in 1..m - 1 : i \in 1..m /\ i < m
    BY <1>1
  <2>2. \A i \in 1..m - 1 : vk[i] < x
    BY <1>2, <1>6, <2>1
  <2> QED BY <1>13, <2>2
<1>20. ToSet(ps) # {}
  BY <1>2, <1>14
<1> QED BY <1>3, <1>5, <1>9, <1>11, <1>15, <1>17, <1>18, <1>19, <1>20 DEF Shared, ps, qs, x

\* The keys of a leaf come before those of a leaf that begins after it does.
LEMMA KeysApart ==
    ASSUME NEW T, NEW lev, NEW lo, IsTree(T, lev, lo), NEW p \in Page, NEW q \in Page,
           IsLeaf(T, p), IsLeaf(T, q), lo[p] < lo[q]
    PROVE  /\ T[p].keys \in Seq(Key) /\ T[q].keys \in Seq(Key)
           /\ Ascending(T[p].keys) /\ Ascending(T[q].keys)
           /\ \A v \in ToSet(T[p].keys), w \in ToSet(T[q].keys) : v < w
<1>1. p \in Place /\ q \in Place /\ T[p].kind = "leaf" /\ T[q].kind = "leaf" /\ Shaped(T)
  BY Places DEF IsLeaf, IsTree
<1>2. Fits(T, lo, p, T[p].keys) /\ Fits(T, lo, q, T[q].keys)
  BY <1>1, KeysFit
<1>3. ASSUME NEW v \in ToSet(T[p].keys), NEW w \in ToSet(T[q].keys) PROVE v < w
  <2>1. v < lo[q] /\ lo[q] <= w
    BY <1>1, <1>2 DEF Fits
  <2>2. lo[q] \in Nat
    BY <1>1 DEF IsTree, Ordered
  <2>3. v \in Nat /\ w \in Nat
    <3>1. T[p].keys \in Seq(Key) /\ T[q].keys \in Seq(Key)
      BY <1>1, NodeFields
    <3>2. ASSUME NEW ks \in Seq(Key), NEW u \in ToSet(ks) PROVE u \in Nat
      BY KeySeq, SeqSet
    <3> QED BY <3>1, <3>2
  <2> QED BY <2>1, <2>2, <2>3
<1>4. KeysInOrder(T, lo, p) /\ KeysInOrder(T, lo, q)
  BY <1>1 DEF IsTree, Ordered
<1> QED BY <1>1, <1>3, <1>4, NodeFields DEF KeysInOrder

\* The pages when leaf p has borrowed a tuple from the next leaf q ...
LendNext(pg, p, q) ==
    SetSeparator([pg EXCEPT ![p].keys = Append(@, Head(pg[q].keys)), ![q].keys = Tail(@)],
                 pg[p].parent, q, pg[q].keys[2])

\* ... or from the leaf v before it.
LendPrev(pg, p, v) ==
    SetSeparator([pg EXCEPT ![p].keys = <<Last(pg[v].keys)>> \o @, ![v].keys = Front(@)],
                 pg[p].parent, p, Last(pg[v].keys))

\* Leaf a takes the keys of b, and the page after b names z.
Absorb(pg, a, b, z) == WithPrev(MergeLeaves(pg, a, b), pg[b].next, z)

\* The cases of a leaf that uses too little.
LEMMA RebalanceLeafCases ==
    ASSUME NEW pg, NEW p, NEW q, q = pg[p].next, NEW v, v = pg[p].prev,
           NEW res, res = RebalanceLeaf(pg, p)
    PROVE  \/ Sibling(pg, p, q) /\ Rich(pg, q) /\ res = Result(LendNext(pg, p, q), NoPage)
           \/ Sibling(pg, p, v) /\ Rich(pg, v) /\ res = Result(LendPrev(pg, p, v), NoPage)
           \/ Sibling(pg, p, q) /\ res = Result(Absorb(pg, p, q, p), q)
           \/ ~Sibling(pg, p, q) /\ Sibling(pg, p, v) /\ res = Result(Absorb(pg, v, p, p), p)
           \/ res = Result(pg, NoPage)
<1> DEFINE NR == Sibling(pg, p, q) /\ Rich(pg, q)
           PR == Sibling(pg, p, v) /\ Rich(pg, v)
<1>1. res = CASE NR -> Result(LendNext(pg, p, q), NoPage)
              [] ~NR /\ PR -> Result(LendPrev(pg, p, v), NoPage)
              [] Sibling(pg, p, q) /\ ~Rich(pg, q) /\ ~PR -> Result(Absorb(pg, p, q, p), q)
              [] ~Sibling(pg, p, q) /\ Sibling(pg, p, v) /\ ~Rich(pg, v) -> Result(Absorb(pg, v, p, p), p)
              [] OTHER -> Result(pg, NoPage)
  BY Zenon DEF RebalanceLeaf, LendNext, LendPrev, Absorb
<1>2. CASE NR
  <2>1. res = Result(LendNext(pg, p, q), NoPage)
    BY <1>1, <1>2
  <2> QED BY <1>2, <2>1
<1>3. CASE ~NR /\ PR
  <2>1. res = Result(LendPrev(pg, p, v), NoPage)
    BY <1>1, <1>3
  <2> QED BY <1>3, <2>1
<1>4. CASE ~NR /\ ~PR /\ Sibling(pg, p, q)
  <2>1. res = Result(Absorb(pg, p, q, p), q)
    BY <1>1, <1>4
  <2> QED BY <1>4, <2>1
<1>5. CASE ~NR /\ ~PR /\ ~Sibling(pg, p, q) /\ Sibling(pg, p, v)
  <2>1. res = Result(Absorb(pg, v, p, p), p)
    BY <1>1, <1>5
  <2> QED BY <1>5, <2>1
<1>6. CASE ~NR /\ ~PR /\ ~Sibling(pg, p, q) /\ ~Sibling(pg, p, v)
  <2>1. res = Result(pg, NoPage)
    BY <1>1, <1>6
  <2> QED BY <2>1
<1> QED BY <1>2, <1>3, <1>4, <1>5, <1>6

\* A leaf that can lend has two tuples or more.
LEMMA RichLeaf ==
    ASSUME Ordinary, NEW pg, NEW q, pg[q].kind = "leaf", pg[q].keys \in Seq(Key), Rich(pg, q)
    PROVE  Len(pg[q].keys) > 1
<1> DEFINE l == Len(pg[q].keys)
<1>1. l * TupleSize > MinimumUsed
  BY DEF Rich, Used
<1>2. TupleSize \in Nat /\ MaximumUsed \in Nat /\ MinimumUsed = MaximumUsed \div 2 /\ TupleSize <= MinimumUsed
  BY SizeAssumption DEF MinimumUsed, Ordinary
<1>3. MinimumUsed \in Nat
  BY <1>2
<1>4. l \in Nat
  BY SeqPlaces
<1> HIDE DEF l
<1>5. l # 0
  BY <1>1, <1>2, <1>3
<1>6. l # 1
  BY <1>1, <1>2, <1>3
<1>7. l > 1
  BY <1>4, <1>5, <1>6
<1> QED BY <1>7 DEF l

\* Two leaves get other keys.
LEMMA KeyTwo ==
    ASSUME NEW pg \in [Page -> Node], NEW p \in Page, NEW q \in Page, p # q, pg[p].kind = "leaf",
           pg[q].kind = "leaf", NEW ps \in Seq(Key), NEW qs \in Seq(Key),
           NEW b, b = [pg EXCEPT ![p].keys = ps, ![q].keys = qs]
    PROVE  TwoKeyed(pg, b, p, q, ps, qs)
<1> DEFINE pn == [pg[p] EXCEPT !.keys = ps]
           qn == [pg[q] EXCEPT !.keys = qs]
<1>1. b = [[pg EXCEPT ![p] = pn] EXCEPT ![q] = qn]
  OBVIOUS
<1>2. pn \in Node /\ qn \in Node
  <2>1. pg[p] \in Node /\ pg[q] \in Node
    OBVIOUS
  <2>2. pn \in Node
    BY <2>1 DEF Node
  <2>3. qn \in Node
    BY <2>1 DEF Node
  <2> QED BY <2>2, <2>3
<1> HIDE DEF pn, qn
<1>3. b \in [Page -> Node] /\ b[p] = pn /\ b[q] = qn /\ \A z \in Page \ {p, q} : b[z] = pg[z]
  BY <1>1, <1>2
<1> QED BY <1>3 DEF TwoKeyed, pn, qn

\* The order in which two leaves get them does not matter.
LEMMA KeyTwoSwapped ==
    ASSUME NEW pg \in [Page -> Node], NEW p \in Page, NEW q \in Page, p # q, pg[p].kind = "leaf",
           pg[q].kind = "leaf", NEW ps \in Seq(Key), NEW qs \in Seq(Key),
           NEW b, b = [pg EXCEPT ![q].keys = qs, ![p].keys = ps]
    PROVE  TwoKeyed(pg, b, p, q, ps, qs)
<1>1. TwoKeyed(pg, b, q, p, qs, ps)
  BY KeyTwo
<1> QED BY <1>1 DEF TwoKeyed

\* The pages pg are a tree whose leaves are a chain.
TreePages(pg, rt, lev, lo, s) ==
    /\ pg \in [Page -> Node] /\ rt \in Page
    /\ IsTree(TreeOf(pg, rt), lev, lo) /\ Chain(TreeOf(pg, rt), lo, s)

\* A page of the tree that is not the root has a parent among the pages.
LEMMA PageParent ==
    ASSUME NEW pg \in [Page -> Node], NEW rt, NEW lev, NEW lo, IsTree(TreeOf(pg, rt), lev, lo),
           NEW p \in Page, pg[p].kind # "none", p # rt
    PROVE  pg[p].parent \in Page /\ pg[pg[p].parent].kind = "internal"
<1> DEFINE T == TreeOf(pg, rt)
<1>1. \A z \in Page : T[z] = pg[z]
  BY ONLY TreeFacts
<1>2. T[0].child = <<rt>>
  BY ONLY TreeFacts
<1> HIDE DEF T
<1>3. IsTree(T, lev, lo)
  BY DEF T
<1>4. T[p] = pg[p] /\ T[p].kind # "none"
  BY <1>1
<1>5. T[p].parent # 0
  BY <1>2, <1>3, <1>4, OnlyChild
<1>6. T[p].parent \in Place /\ T[T[p].parent].kind = "internal"
  BY <1>3, <1>4, ParentFacts
<1>7. T[p].parent \in Page
  BY <1>5, <1>6, Places
<1> QED BY <1>1, <1>4, <1>6, <1>7

\* a and b are leaves, the children j and j + 1 of r.
LeafPair(pg, a, b, r, j) ==
    /\ a \in Page /\ b \in Page /\ a # b /\ pg[a].kind = "leaf" /\ pg[b].kind = "leaf"
    /\ r \in Page /\ pg[r].kind = "internal" /\ pg[a].parent = r /\ pg[b].parent = r
    /\ j \in 1..Len(pg[r].keys) /\ ChildAt(pg, r, j, a) /\ pg[r].child[j + 1] = b
    /\ OnlyPlace(pg, r, j, b) /\ pg[a].next = b

\* The keys of a come before those of b.
PairKeys(pg, a, b) ==
    /\ pg[a].keys \in Seq(Key) /\ pg[b].keys \in Seq(Key)
    /\ Ascending(pg[a].keys) /\ Ascending(pg[b].keys)
    /\ \A v \in ToSet(pg[a].keys), w \in ToSet(pg[b].keys) : v < w

\* Leaves that are such children are such a pair.
LEMMA PairFacts ==
    ASSUME NEW pg, NEW rt, NEW lev, NEW lo, NEW s, TreePages(pg, rt, lev, lo, s),
           NEW a \in Page, NEW b, NEW r \in Page, NEW j,
           pg[a].kind = "leaf", pg[r].kind = "internal", j \in 1..Len(pg[r].keys),
           ChildAt(pg, r, j, a), pg[r].child[j + 1] = b, pg[a].next = b
    PROVE  LeafPair(pg, a, b, r, j) /\ PairKeys(pg, a, b)
<1> DEFINE T == TreeOf(pg, rt)
<1>1. \A z \in Page : T[z] = pg[z]
  BY ONLY TreeFacts
<1> HIDE DEF T
<1>2. IsTree(T, lev, lo) /\ pg \in [Page -> Node]
  BY DEF T, TreePages
<1>3. r \in Place /\ T[r] = pg[r] /\ T[a] = pg[a]
  BY <1>1, Places
<1>4. ChildAt(T, r, j, a)
  BY <1>3 DEF ChildAt
<1>5. /\ b \in Page /\ a # b /\ IsLeaf(T, a) /\ IsLeaf(T, b) /\ lo[a] < lo[b]
      /\ T[a].parent = r /\ T[b].parent = r
  BY <1>2, <1>3, <1>4, NeighbourLeaves
<1>6. T[b] = pg[b]
  BY <1>1, <1>5
<1>7. PairKeys(pg, a, b)
  <2>1. /\ T[a].keys \in Seq(Key) /\ T[b].keys \in Seq(Key)
        /\ Ascending(T[a].keys) /\ Ascending(T[b].keys)
        /\ \A v \in ToSet(T[a].keys), w \in ToSet(T[b].keys) : v < w
    BY <1>2, <1>5, KeysApart
  <2> QED BY <1>3, <1>6, <2>1 DEF PairKeys
<1>8. OnlyPlace(pg, r, j, b)
  BY <1>2, PlaceOnly DEF T
<1>9. LeafPair(pg, a, b, r, j)
  <2>1. pg[b].kind = "leaf" /\ pg[a].parent = r /\ pg[b].parent = r
    BY <1>3, <1>5, <1>6 DEF IsLeaf
  <2> QED BY <1>5, <1>8, <2>1 DEF LeafPair
<1> QED BY <1>7, <1>9

\* A leaf and the next one, where they have the same parent.
LEMMA NextPair ==
    ASSUME NEW pg, NEW rt, NEW lev, NEW lo, NEW s, TreePages(pg, rt, lev, lo, s),
           NEW p \in Page, pg[p].kind = "leaf", p # rt, NEW q, q = pg[p].next, Sibling(pg, p, q)
    PROVE  \E j : LeafPair(pg, p, q, pg[p].parent, j) /\ PairKeys(pg, p, q)
<1> DEFINE T == TreeOf(pg, rt)
           r == pg[p].parent
<1>1. \A z \in Page : T[z] = pg[z]
  BY ONLY TreeFacts
<1> HIDE DEF T
<1>2. IsTree(T, lev, lo) /\ Chain(T, lo, s) /\ pg \in [Page -> Node]
  BY DEF T, TreePages
<1>3. r \in Page /\ pg[r].kind = "internal"
  BY <1>2, PageParent DEF T
<1>4. T[p] = pg[p] /\ T[r] = pg[r] /\ IsLeaf(T, p)
  BY <1>1, <1>3 DEF IsLeaf
<1>5. q # NoPage /\ pg[q].parent = r
  BY DEF Sibling
<1>6. q \in Page
  <2>1. pg[p] \in Node
    BY <1>2
  <2>2. pg[p].next \in PageOrNone
    BY <2>1 DEF Node
  <2> QED BY <1>5, <2>2 DEF PageOrNone
<1>7. q = T[p].next /\ T[q].parent = T[p].parent
  BY <1>1, <1>4, <1>5, <1>6
<1>8. \E j \in 1..Len(T[T[p].parent].keys) :
         ChildAt(T, T[p].parent, j, p) /\ T[T[p].parent].child[j + 1] = q
  BY <1>2, <1>4, <1>5, <1>7, NextSibling
<1>9. PICK j \in 1..Len(pg[r].keys) : ChildAt(T, r, j, p) /\ T[r].child[j + 1] = q
  BY <1>4, <1>8
<1>10. ChildAt(pg, r, j, p) /\ pg[r].child[j + 1] = q
  BY <1>4, <1>9 DEF ChildAt
<1> HIDE DEF r
<1>11. LeafPair(pg, p, q, r, j) /\ PairKeys(pg, p, q)
  BY <1>3, <1>9, <1>10, PairFacts
<1> QED BY <1>11 DEF r

\* A leaf and the one it names as the one before it, where they have the same parent.
LEMMA PrevPair ==
    ASSUME NEW pg, NEW rt, NEW lev, NEW lo, NEW s, TreePages(pg, rt, lev, lo, s),
           NEW p \in Page, pg[p].kind = "leaf", p # rt, NEW v, v = pg[p].prev, Sibling(pg, p, v)
    PROVE  \E j : LeafPair(pg, v, p, pg[p].parent, j) /\ PairKeys(pg, v, p)
<1> DEFINE T == TreeOf(pg, rt)
           r == pg[p].parent
<1>1. \A z \in Page : T[z] = pg[z]
  BY ONLY TreeFacts
<1> HIDE DEF T
<1>2. IsTree(T, lev, lo) /\ Chain(T, lo, s) /\ pg \in [Page -> Node]
  BY DEF T, TreePages
<1>3. r \in Page /\ pg[r].kind = "internal"
  BY <1>2, PageParent DEF T
<1>4. T[p] = pg[p] /\ T[r] = pg[r] /\ IsLeaf(T, p)
  BY <1>1, <1>3 DEF IsLeaf
<1>5. v # NoPage /\ pg[v].parent = r
  BY DEF Sibling
<1>6. v \in Page
  <2>1. pg[p] \in Node
    BY <1>2
  <2>2. pg[p].prev \in PageOrNone
    BY <2>1 DEF Node
  <2> QED BY <1>5, <2>2 DEF PageOrNone
<1>7. v = T[p].prev /\ T[v].parent = T[p].parent /\ T[p].parent # NoPage
  BY <1>1, <1>3, <1>4, <1>5, <1>6 DEF Page, NoPage
<1>8. /\ IsLeaf(T, v) /\ T[v].next = p
      /\ \E j \in 1..Len(T[T[v].parent].keys) :
         ChildAt(T, T[v].parent, j, v) /\ T[T[v].parent].child[j + 1] = p
  BY <1>2, <1>4, <1>5, <1>7, PrevSibling
<1>9. PICK j \in 1..Len(pg[r].keys) : ChildAt(T, r, j, v) /\ T[r].child[j + 1] = p
  BY <1>4, <1>7, <1>8
<1>10. ChildAt(pg, r, j, v) /\ pg[r].child[j + 1] = p
  BY <1>4, <1>9 DEF ChildAt
<1>11. pg[v].kind = "leaf" /\ pg[v].next = p
  BY <1>1, <1>6, <1>8 DEF IsLeaf
<1> HIDE DEF r
<1>12. LeafPair(pg, v, p, r, j) /\ PairKeys(pg, v, p)
  BY <1>3, <1>6, <1>9, <1>10, <1>11, PairFacts
<1> QED BY <1>12 DEF r

\* What is left behind where a page is named that goes, and what the tree is like before.
Leaves(s, stale, short, lev) == (s => stale) /\ (short => lev[0] <= 2)

\* A leaf borrows from the next one.
LEMMA LendNextRebalanced ==
    ASSUME Ordinary, NEW pg, NEW rt, NEW lev, NEW lo, NEW s, TreePages(pg, rt, lev, lo, s),
           NEW stale, NEW short, Leaves(s, stale, short, lev),
           NEW p, NEW q, NEW r, NEW j, LeafPair(pg, p, q, r, j), PairKeys(pg, p, q), Rich(pg, q)
    PROVE  Rebalanced(pg, LendNext(pg, p, q), NoPage, r, rt, stale, short)
<1> DEFINE pk == pg[p].keys
           qk == pg[q].keys
           ps == Append(pk, Head(qk))
           qs == Tail(qk)
           b == [pg EXCEPT ![p].keys = ps, ![q].keys = qs]
<1>1. /\ p \in Page /\ q \in Page /\ p # q /\ pg[p].kind = "leaf" /\ pg[q].kind = "leaf"
      /\ r \in Page /\ pg[p].parent = r /\ pg[r].child[j] = p /\ OnlyPlace(pg, r, j, q)
  BY DEF LeafPair, ChildAt
<1>2. /\ pk \in Seq(Key) /\ qk \in Seq(Key) /\ Ascending(pk) /\ Ascending(qk)
      /\ \A v \in ToSet(pk), w \in ToSet(qk) : v < w
  BY DEF PairKeys
<1>3. Len(qk) > 1
  BY <1>1, <1>2, RichLeaf
<1>4. pg \in [Page -> Node] /\ rt \in Page /\ IsTree(TreeOf(pg, rt), lev, lo) /\ Chain(TreeOf(pg, rt), lo, s)
  BY DEF TreePages
<1>5. LendNext(pg, p, q) = SetSeparator(b, r, q, qk[2])
  <2>1. [pg EXCEPT ![p].keys = Append(@, Head(pg[q].keys)), ![q].keys = Tail(@)] = b
    BY <1>1, <1>4
  <2> HIDE DEF b
  <2> QED BY <1>1, <2>1 DEF LendNext
<1> HIDE DEF pk, qk
<1>6. Shared(pk, qk, ps, qs, qk[2])
  BY <1>2, <1>3, SharedNext
<1>7. ps \in Seq(Key) /\ qs \in Seq(Key)
  BY <1>6 DEF Shared
<1>8. qk[2] \in Key
  BY <1>2, <1>3, KeySeq
<1> HIDE DEF ps, qs
<1>9. TwoKeyed(pg, b, p, q, ps, qs)
  BY <1>1, <1>4, <1>7, KeyTwo
<1> HIDE DEF b
<1> DEFINE y == qk[2]
           pg2 == LendNext(pg, p, q)
<1>10. y \in Key /\ pg2 = SetSeparator(b, r, q, y) /\ Shared(pg[p].keys, pg[q].keys, ps, qs, y)
  BY <1>5, <1>6, <1>8 DEF pk, qk
<1> HIDE DEF y, pg2
<1>11. LeavesGet(pg, pg2, p, q, r, j, ps, qs, y)
  BY <1>1, <1>4, <1>9, <1>10, SeparatorPages
<1>12. Rebalanced(pg, pg2, NoPage, r, rt, stale, short)
  <2>1. (s => stale) /\ (short => lev[0] <= 2)
    BY DEF Leaves
  <2> QED BY <1>1, <1>4, <1>10, <1>11, <2>1, BorrowRebalanced
<1> QED BY <1>12 DEF pg2

\* A leaf borrows from the one before it.
LEMMA LendPrevRebalanced ==
    ASSUME Ordinary, NEW pg, NEW rt, NEW lev, NEW lo, NEW s, TreePages(pg, rt, lev, lo, s),
           NEW stale, NEW short, Leaves(s, stale, short, lev),
           NEW v, NEW p, NEW r, NEW j, LeafPair(pg, v, p, r, j), PairKeys(pg, v, p), Rich(pg, v)
    PROVE  Rebalanced(pg, LendPrev(pg, p, v), NoPage, r, rt, stale, short)
<1> DEFINE vk == pg[v].keys
           pk == pg[p].keys
           vs == Front(vk)
           ps == <<Last(vk)>> \o pk
           b == [pg EXCEPT ![p].keys = ps, ![v].keys = vs]
<1>1. /\ p \in Page /\ v \in Page /\ v # p /\ pg[p].kind = "leaf" /\ pg[v].kind = "leaf"
      /\ r \in Page /\ pg[p].parent = r /\ pg[r].child[j] = v /\ OnlyPlace(pg, r, j, p)
  BY DEF LeafPair, ChildAt
<1>2. /\ pk \in Seq(Key) /\ vk \in Seq(Key) /\ Ascending(pk) /\ Ascending(vk)
      /\ \A x \in ToSet(vk), w \in ToSet(pk) : x < w
  BY DEF PairKeys
<1>3. Len(vk) > 1
  BY <1>1, <1>2, RichLeaf
<1>4. pg \in [Page -> Node] /\ rt \in Page /\ IsTree(TreeOf(pg, rt), lev, lo) /\ Chain(TreeOf(pg, rt), lo, s)
  BY DEF TreePages
<1>5. LendPrev(pg, p, v) = SetSeparator(b, r, p, Last(vk))
  <2>1. [pg EXCEPT ![p].keys = <<Last(pg[v].keys)>> \o @, ![v].keys = Front(@)] = b
    BY <1>1, <1>4
  <2> HIDE DEF b
  <2> QED BY <1>1, <2>1 DEF LendPrev
<1> HIDE DEF pk, vk
<1>6. Shared(vk, pk, vs, ps, Last(vk))
  BY <1>2, <1>3, SharedPrev
<1>7. ps \in Seq(Key) /\ vs \in Seq(Key)
  BY <1>6 DEF Shared
<1>8. Last(vk) \in Key
  <2>1. Len(vk) \in 1..Len(vk)
    BY <1>2, <1>3, KeySeq
  <2>2. vk[Len(vk)] \in Key
    BY <1>2, <2>1, KeySeq
  <2> QED BY <2>2 DEF Last
<1> HIDE DEF ps, vs
<1>9. TwoKeyed(pg, b, v, p, vs, ps)
  BY <1>1, <1>4, <1>7, KeyTwoSwapped
<1> HIDE DEF b
<1> DEFINE y == Last(vk)
           pg2 == LendPrev(pg, p, v)
<1>10. y \in Key /\ pg2 = SetSeparator(b, r, p, y) /\ Shared(pg[v].keys, pg[p].keys, vs, ps, y)
  BY <1>5, <1>6, <1>8 DEF pk, vk
<1> HIDE DEF y, pg2
<1>11. LeavesGet(pg, pg2, v, p, r, j, vs, ps, y)
  BY <1>1, <1>4, <1>9, <1>10, SeparatorPages
<1>12. Rebalanced(pg, pg2, NoPage, r, rt, stale, short)
  <2>1. (s => stale) /\ (short => lev[0] <= 2)
    BY DEF Leaves
  <2> QED BY <1>1, <1>4, <1>10, <1>11, <2>1, BorrowRebalanced
<1> QED BY <1>12 DEF pg2

\* Two leaves become one.
LEMMA AbsorbRebalanced ==
    ASSUME NEW pg, NEW rt, NEW lev, NEW lo, NEW s, TreePages(pg, rt, lev, lo, s),
           NEW stale, NEW short, Leaves(s, stale, short, lev),
           NEW a, NEW b, NEW r, NEW j, LeafPair(pg, a, b, r, j), NEW z \in Page,
           z = a \/ (z = b /\ (stale \/ pg[b].next = NoPage))
    PROVE  Rebalanced(pg, FreePage(Absorb(pg, a, b, z), b), b, r, rt, stale, short)
<1> DEFINE T == TreeOf(pg, rt)
           pg2 == FreePage(Absorb(pg, a, b, z), b)
<1>1. /\ a \in Page /\ b \in Page /\ a # b /\ pg[a].kind = "leaf" /\ pg[b].kind = "leaf"
      /\ r \in Page /\ pg[r].kind = "internal" /\ pg[a].parent = r /\ pg[b].parent = r
      /\ j \in 1..Len(pg[r].keys) /\ ChildAt(pg, r, j, a) /\ pg[r].child[j + 1] = b
      /\ OnlyPlace(pg, r, j, b) /\ pg[a].next = b
  BY DEF LeafPair
<1>2. pg \in [Page -> Node] /\ rt \in Page /\ IsTree(TreeOf(pg, rt), lev, lo) /\ Chain(TreeOf(pg, rt), lo, s)
  BY DEF TreePages
<1>3. PrevLeaf(pg, a, b, pg[b].next)
  <2>1. \A x \in Page : T[x] = pg[x]
    BY ONLY TreeFacts
  <2> HIDE DEF T
  <2>2. IsTree(T, lev, lo) /\ Chain(T, lo, s)
    BY <1>2 DEF T
  <2>3. IsLeaf(T, a) /\ IsLeaf(T, b) /\ a \in Place /\ b \in Place
    BY <1>1, <2>1, Places DEF IsLeaf
  <2>4. Follows(T, lo, a, T[a].next) /\ Follows(T, lo, b, T[b].next)
    BY <2>2, <2>3 DEF Chain
  <2>5. lo \in [Place -> Nat]
    BY <2>2 DEF IsTree, Ordered
  <2>6. T[a].next = b /\ T[b].next = pg[b].next /\ b # NoPage
    BY <1>1, <2>1 DEF Page, NoPage
  <2>7. lo[a] < lo[b]
    BY <2>4, <2>6 DEF Follows
  <2>8. CASE T[b].next # NoPage
    <3>1. T[b].next \in Page /\ IsLeaf(T, T[b].next) /\ lo[b] < lo[T[b].next]
      BY <2>4, <2>8 DEF Follows
    <3>2. T[b].next # a /\ T[b].next # b
      BY <2>3, <2>5, <2>7, <3>1
    <3> QED BY <2>1, <2>6, <3>1, <3>2 DEF PrevLeaf, IsLeaf
  <2>9. CASE T[b].next = NoPage
    BY <2>6, <2>9 DEF PrevLeaf
  <2> QED BY <2>8, <2>9
<1>4. MergedLeaves(pg, pg2, a, b, r, j, z)
  <2>1. pg2 = FreePage(WithPrev(MergeLeaves(pg, a, b), pg[b].next, z), b)
    BY DEF Absorb
  <2> HIDE DEF pg2
  <2> QED BY <1>1, <1>2, <1>3, <2>1, MergeLeavesPages
<1> HIDE DEF pg2
<1>5. LeafJoins(pg, pg2, rt, a, b, r, j, z)
  BY <1>1, <1>2, <1>4 DEF LeafJoins
<1>6. (s => stale) /\ (short => lev[0] <= 2)
  BY DEF Leaves
<1>7. Rebalanced(pg, pg2, b, r, rt, stale, short)
  BY <1>1, <1>2, <1>5, <1>6, JoinRebalanced
<1> QED BY <1>7 DEF pg2

\* In a tree of two levels at most the leaves that are not the root have the same parent.
LEMMA ShortParent ==
    ASSUME NEW T, NEW lev, NEW lo, IsTree(T, lev, lo), lev[0] <= 2, NEW rt, T[0].child = <<rt>>,
           NEW p \in Page, IsLeaf(T, p), p # rt
    PROVE  T[p].parent = rt
<1>1. T[p].kind # "none" /\ p \in Place
  BY Places DEF IsLeaf
<1>2. lev \in [Place -> Nat] /\ lev[p] = 0
  BY <1>1 DEF IsTree, Family, IsLeaf
<1>3. T[p].parent \in Place /\ lev[p] + 1 = lev[T[p].parent] /\ T[T[p].parent].kind = "internal"
  BY <1>1, ParentFacts
<1>4. /\ rt \in Page /\ lev[rt] + 1 = lev[0] /\ T[p].parent # 0
      /\ \A c \in Page : T[c].kind # "none" /\ c # rt => lev[c] < lev[rt]
  BY <1>1, OnlyChild
<1>5. T[p].parent \in Page /\ rt \in Place /\ 0 \in Place
  BY <1>3, <1>4, Places
<1>6. lev[rt] \in Nat /\ lev[0] \in Nat
  BY <1>2, <1>5
<1>7. lev[rt] <= 1
  BY <1>4, <1>6
<1>8. ~(lev[T[p].parent] < lev[rt])
  BY <1>2, <1>3, <1>6, <1>7
<1> QED BY <1>3, <1>4, <1>5, <1>8

\* So in such a tree the leaf after one that is not the root is a sibling.
LEMMA ShortNext ==
    ASSUME NEW pg, NEW rt, NEW lev, NEW lo, NEW s, TreePages(pg, rt, lev, lo, s), lev[0] <= 2,
           NEW p \in Page, pg[p].kind = "leaf", p # rt, NEW q, q = pg[p].next, ~Sibling(pg, p, q)
    PROVE  q = NoPage
<1> DEFINE T == TreeOf(pg, rt)
<1>1. \A x \in Page : T[x] = pg[x]
  BY ONLY TreeFacts
<1>2. T[0].child = <<rt>>
  BY ONLY TreeFacts
<1> HIDE DEF T
<1>3. IsTree(T, lev, lo) /\ Chain(T, lo, s)
  BY DEF T, TreePages
<1>4. SUFFICES ASSUME q # NoPage PROVE FALSE
  OBVIOUS
<1>5. IsLeaf(T, p) /\ p \in Place /\ T[p].next = q
  BY <1>1, Places DEF IsLeaf
<1>6. Follows(T, lo, p, q)
  BY <1>3, <1>5 DEF Chain
<1>7. q \in Page /\ IsLeaf(T, q) /\ lo[p] < lo[q]
  BY <1>4, <1>6 DEF Follows
<1>8. T[p].parent = rt
  BY <1>2, <1>3, <1>5, ShortParent
<1>9. CASE q = rt
  <2>1. /\ rt \in Page /\ \A c \in Page : T[c].kind # "none" /\ c # rt => lev[c] < lev[rt]
    BY <1>2, <1>3, OnlyChild
  <2>2. lev[p] < lev[rt]
    BY <1>5, <2>1 DEF IsLeaf
  <2>3. lev[p] = 0 /\ lev[rt] = 0
    BY <1>3, <1>5, <1>7, <1>9, Places DEF IsTree, Family, IsLeaf
  <2> QED BY <2>2, <2>3
<1>10. CASE q # rt
  <2>1. T[q].parent = rt
    BY <1>2, <1>3, <1>7, <1>10, ShortParent
  <2>2. pg[q].parent = pg[p].parent
    BY <1>1, <1>7, <1>8, <2>1
  <2> QED BY <1>4, <2>2 DEF Sibling
<1> QED BY <1>9, <1>10

\* Where nothing is done the pages are as right as they were.
LEMMA NoneRebalanced ==
    ASSUME NEW pg, NEW rt, NEW lev, NEW lo, NEW s, TreePages(pg, rt, lev, lo, s),
           NEW stale, NEW short, Leaves(s, stale, short, lev), NEW r, pg[r].kind = "internal"
    PROVE  Rebalanced(pg, pg, NoPage, r, rt, stale, short)
<1>1. IsTree(TreeOf(pg, rt), lev, lo) /\ Chain(TreeOf(pg, rt), lo, s) /\ pg \in [Page -> Node]
  BY DEF TreePages
<1>2. (s => stale) /\ (short => lev[0] <= 2)
  BY DEF Leaves
<1>3. Chain(TreeOf(pg, rt), lo, stale)
  BY <1>1, <1>2, ChainMore
<1>4. Sound(TreeOf(pg, rt), stale, short)
  BY <1>1, <1>2, <1>3 DEF Sound
<1> QED BY <1>1, <1>4 DEF Rebalanced

\* What Settle makes of a result.
After(res) == IF res.freed = NoPage THEN res.page ELSE FreePage(res.page, res.freed)

\* A result that leaves the tree right, with r for the next level.
Settled(pg, res, r, rt, stale, short) == Rebalanced(pg, After(res), res.freed, r, rt, stale, short)

\* A result that frees no page, and one that does.
LEMMA SettledKept ==
    ASSUME NEW pg, NEW pg2, NEW r, NEW rt, NEW stale, NEW short,
           Rebalanced(pg, pg2, NoPage, r, rt, stale, short), NEW res, res = Result(pg2, NoPage)
    PROVE  Settled(pg, res, r, rt, stale, short)
<1>1. res.freed = NoPage /\ res.page = pg2
  BY DEF Result
<1>2. After(res) = pg2
  BY <1>1 DEF After
<1> QED BY <1>1, <1>2 DEF Settled

\* A result that frees a page is settled.
LEMMA SettledFreed ==
    ASSUME NEW pg, NEW pg2, NEW b \in Page, NEW r, NEW rt, NEW stale, NEW short,
           Rebalanced(pg, FreePage(pg2, b), b, r, rt, stale, short), NEW res, res = Result(pg2, b)
    PROVE  Settled(pg, res, r, rt, stale, short)
<1>1. res.freed = b /\ res.page = pg2
  BY DEF Result
<1>2. b # NoPage
  BY DEF Page, NoPage
<1>3. After(res) = FreePage(pg2, b)
  BY <1>1, <1>2 DEF After
<1> QED BY <1>1, <1>3 DEF Settled

\* A leaf that uses too little is rebalanced.
LEMMA LeafRebalanced ==
    ASSUME Ordinary, NEW pg, NEW rt, NEW lev, NEW lo, NEW s, TreePages(pg, rt, lev, lo, s),
           NEW stale, NEW short, Leaves(s, stale, short, lev), stale \/ short,
           NEW p \in Page, pg[p].kind = "leaf", p # rt
    PROVE  Settled(pg, RebalanceLeaf(pg, p), pg[p].parent, rt, stale, short)
<1> DEFINE q == pg[p].next
           v == pg[p].prev
           r == pg[p].parent
           res == RebalanceLeaf(pg, p)
<1>1. r \in Page /\ pg[r].kind = "internal"
  <2>1. pg \in [Page -> Node] /\ IsTree(TreeOf(pg, rt), lev, lo)
    BY DEF TreePages
  <2> QED BY <2>1, PageParent
<1> HIDE DEF res
<1>2. \/ Sibling(pg, p, q) /\ Rich(pg, q) /\ res = Result(LendNext(pg, p, q), NoPage)
      \/ Sibling(pg, p, v) /\ Rich(pg, v) /\ res = Result(LendPrev(pg, p, v), NoPage)
      \/ Sibling(pg, p, q) /\ res = Result(Absorb(pg, p, q, p), q)
      \/ ~Sibling(pg, p, q) /\ Sibling(pg, p, v) /\ res = Result(Absorb(pg, v, p, p), p)
      \/ res = Result(pg, NoPage)
  BY RebalanceLeafCases DEF res
<1>3. Sibling(pg, p, q) => \E j : LeafPair(pg, p, q, r, j) /\ PairKeys(pg, p, q)
  BY NextPair
<1>4. Sibling(pg, p, v) => \E j : LeafPair(pg, v, p, r, j) /\ PairKeys(pg, v, p)
  BY PrevPair
<1>5. (~Sibling(pg, p, q) /\ ~stale) => q = NoPage
  <2>1. short => lev[0] <= 2
    BY DEF Leaves
  <2>2. ASSUME ~Sibling(pg, p, q), ~stale PROVE q = NoPage
    BY <2>1, <2>2, ShortNext
  <2> QED BY <2>2
<1> HIDE DEF q, v, r
<1>6. ASSUME Sibling(pg, p, q), Rich(pg, q), res = Result(LendNext(pg, p, q), NoPage)
      PROVE  Settled(pg, res, r, rt, stale, short)
  <2>1. PICK j : LeafPair(pg, p, q, r, j) /\ PairKeys(pg, p, q)
    BY <1>3, <1>6
  <2>2. Rebalanced(pg, LendNext(pg, p, q), NoPage, r, rt, stale, short)
    BY <1>6, <2>1, LendNextRebalanced
  <2> QED BY <1>6, <2>2, SettledKept
<1>7. ASSUME Sibling(pg, p, v), Rich(pg, v), res = Result(LendPrev(pg, p, v), NoPage)
      PROVE  Settled(pg, res, r, rt, stale, short)
  <2>1. PICK j : LeafPair(pg, v, p, r, j) /\ PairKeys(pg, v, p)
    BY <1>4, <1>7
  <2>2. Rebalanced(pg, LendPrev(pg, p, v), NoPage, r, rt, stale, short)
    BY <1>7, <2>1, LendPrevRebalanced
  <2> QED BY <1>7, <2>2, SettledKept
<1>8. ASSUME Sibling(pg, p, q), res = Result(Absorb(pg, p, q, p), q)
      PROVE  Settled(pg, res, r, rt, stale, short)
  <2>1. PICK j : LeafPair(pg, p, q, r, j)
    BY <1>3, <1>8
  <2>2. Rebalanced(pg, FreePage(Absorb(pg, p, q, p), q), q, r, rt, stale, short)
    BY <2>1, AbsorbRebalanced
  <2>3. q \in Page
    BY <2>1 DEF LeafPair
  <2> QED BY <1>8, <2>2, <2>3, SettledFreed
<1>9. ASSUME ~Sibling(pg, p, q), Sibling(pg, p, v), res = Result(Absorb(pg, v, p, p), p)
      PROVE  Settled(pg, res, r, rt, stale, short)
  <2>1. PICK j : LeafPair(pg, v, p, r, j)
    BY <1>4, <1>9
  <2>2. stale \/ pg[p].next = NoPage
    BY <1>5, <1>9 DEF q
  <2>3. Rebalanced(pg, FreePage(Absorb(pg, v, p, p), p), p, r, rt, stale, short)
    BY <2>1, <2>2, AbsorbRebalanced
  <2> QED BY <1>9, <2>3, SettledFreed
<1>10. ASSUME res = Result(pg, NoPage)
       PROVE  Settled(pg, res, r, rt, stale, short)
  <2>1. Rebalanced(pg, pg, NoPage, r, rt, stale, short)
    BY <1>1, NoneRebalanced
  <2> QED BY <1>10, <2>1, SettledKept
<1>11. Settled(pg, res, r, rt, stale, short)
  BY <1>2, <1>6, <1>7, <1>8, <1>9, <1>10
<1> QED BY <1>11 DEF r, res

-----------------------------------------------------------------------------
(* A key is removed from its leaf *)

\* A key is in one leaf only.
LEMMA OneLeaf ==
    ASSUME NEW T, NEW lev, NEW lo, IsTree(T, lev, lo), NEW p \in Page, NEW q \in Page,
           IsLeaf(T, p), IsLeaf(T, q), NEW k, k \in ToSet(T[p].keys), k \in ToSet(T[q].keys)
    PROVE  p = q
<1>1. SUFFICES ASSUME p # q PROVE FALSE
  OBVIOUS
<1>2. lo[p] \in Nat /\ lo[q] \in Nat /\ lo[p] # lo[q]
  BY <1>1, Places, LeavesApart
<1>3. k \in Nat
  <2>1. T[p].keys \in Seq(Key)
    BY Places, NodeFields DEF IsTree
  <2> QED BY <2>1, SeqSet, KeySeq
<1>4. ASSUME NEW a \in Page, NEW b \in Page, IsLeaf(T, a), IsLeaf(T, b), lo[a] < lo[b],
             k \in ToSet(T[a].keys), k \in ToSet(T[b].keys)
      PROVE  FALSE
  <2>1. \A v \in ToSet(T[a].keys), w \in ToSet(T[b].keys) : v < w
    BY <1>4, KeysApart
  <2>2. k < k
    BY <1>4, <2>1
  <2> QED BY <1>3, <2>2
<1>5. lo[p] < lo[q] \/ lo[q] < lo[p]
  BY <1>2
<1> QED BY <1>4, <1>5

\* The set s is t without k.
Drops(s, t, k) == s = t \ {k}

\* Leaf p of the pages pg has lost key k, and no other leaf had it.
LeafLoses(pg, pg2, p, k) ==
    /\ \A q \in Page : pg2[q].kind = pg[q].kind
    /\ \A q \in Page \ {p} : pg[q].kind = "leaf" => pg2[q].keys = pg[q].keys
    /\ ToSet(pg2[p].keys) = ToSet(pg[p].keys) \ {k}
    /\ \A q \in Page \ {p} : pg[q].kind = "leaf" => k \notin ToSet(pg[q].keys)

\* So it is not stored any more.
LEMMA DropStored ==
    ASSUME NEW pg, NEW pg2, NEW p \in Page, pg[p].kind = "leaf", NEW k, LeafLoses(pg, pg2, p, k)
    PROVE  Drops(StoredIn(pg2), StoredIn(pg), k)
<1>1. ASSUME NEW w PROVE w \in StoredIn(pg2) <=> w \in StoredIn(pg) /\ w # k
  <2>1. w \in StoredIn(pg2) <=> \E q \in Page : pg2[q].kind = "leaf" /\ w \in ToSet(pg2[q].keys)
    BY StoredWhere
  <2>2. w \in StoredIn(pg) <=> \E q \in Page : pg[q].kind = "leaf" /\ w \in ToSet(pg[q].keys)
    BY StoredWhere
  <2>3. ASSUME NEW q \in Page
        PROVE  (pg2[q].kind = "leaf" /\ w \in ToSet(pg2[q].keys))
                 <=> (pg[q].kind = "leaf" /\ w \in ToSet(pg[q].keys) /\ w # k)
    <3>1. CASE q = p
      BY <3>1 DEF LeafLoses
    <3>2. CASE q # p
      BY <3>2 DEF LeafLoses
    <3> QED BY <3>1, <3>2
  <2> QED BY <2>1, <2>2, <2>3
<1>2. \A w : w \in StoredIn(pg2) <=> w \in StoredIn(pg) \ {k}
  BY <1>1
<1> QED BY <1>2 DEF Drops

\* What removing key k from leaf p, which is not asked for more, leaves.
LeafLeft(pg, pg2, p, k, rt, lev, s) ==
    /\ \A q \in Page : pg2[q].kind = pg[q].kind /\ pg2[q].parent = pg[q].parent
    /\ Drops(StoredIn(pg2), StoredIn(pg), k)
    /\ \E new : TreePages(pg2, rt, lev, new, s)

\* A key that does not separate leaves is removed.
LEMMA PlainLess ==
    ASSUME NEW pg, NEW rt, NEW lev, NEW lo, NEW s, TreePages(pg, rt, lev, lo, s),
           NEW p \in Page, pg[p].kind = "leaf", NEW k, k \in ToSet(pg[p].keys),
           NEW ks, OneLess(pg[p].keys, k, ks), NEW pg2, KeysAt(pg, pg2, p, ks)
    PROVE  LeafLeft(pg, pg2, p, k, rt, lev, s)
<1> DEFINE T == TreeOf(pg, rt)
           U == TreeOf(pg2, rt)
<1>1. pg \in [Page -> Node] /\ rt \in Page /\ IsTree(T, lev, lo) /\ Chain(T, lo, s)
  BY DEF TreePages
<1>2. ks \in Seq(Key) /\ Ascending(ks) /\ ToSet(ks) = ToSet(pg[p].keys) \ {k}
  BY DEF OneLess
<1>3. /\ pg2 \in [Page -> Node] /\ pg2[p].keys = ks /\ pg2[p].kind = "leaf"
      /\ \A q \in Page \ {p} : pg2[q] = pg[q]
      /\ pg2[p] = [pg[p] EXCEPT !.keys = ks]
  BY <1>1, <1>2, KeysPut
<1>4. LeafGets(T, U, p, ks)
  BY <1>1, <1>2, KeysPut
<1>5. \A x \in Page : T[x] = pg[x]
  BY ONLY TreeFacts
<1> HIDE DEF T, U
<1>6. T[p] = pg[p]
  BY <1>5
<1>7. Fits(T, lo, p, ks)
  <2>1. T[p].kind = "leaf" /\ ToSet(ks) \subseteq ToSet(T[p].keys)
    BY <1>2, <1>6
  <2> QED BY <1>1, <2>1, KeysFit
<1>8. IsTree(U, lev, lo) /\ Chain(U, lo, s)
  BY <1>1, <1>4, <1>7, LeafGetsTree
<1>9. TreePages(pg2, rt, lev, lo, s)
  BY <1>1, <1>3, <1>8 DEF TreePages, U
<1>10. \A q \in Page : pg2[q].kind = pg[q].kind /\ pg2[q].parent = pg[q].parent
  <2>1. pg[p] \in Node
    BY <1>1
  <2>2. pg2[p].parent = pg[p].parent
    BY <1>3, <2>1 DEF Node
  <2> QED BY <1>3, <2>2
<1>11. LeafLoses(pg, pg2, p, k)
  <2>1. ASSUME NEW q \in Page \ {p}, pg[q].kind = "leaf" PROVE k \notin ToSet(pg[q].keys)
    <3>1. IsLeaf(T, p) /\ IsLeaf(T, q) /\ T[q] = pg[q]
      BY <1>5, <1>6, <2>1 DEF IsLeaf
    <3> QED BY <1>1, <1>6, <3>1, OneLeaf
  <2>2. ToSet(pg2[p].keys) = ToSet(pg[p].keys) \ {k}
    BY <1>2, <1>3
  <2>3. \A q \in Page \ {p} : pg[q].kind = "leaf" => pg2[q].keys = pg[q].keys
    BY <1>3
  <2> QED BY <1>10, <2>1, <2>2, <2>3 DEF LeafLoses
<1>12. Drops(StoredIn(pg2), StoredIn(pg), k)
  BY <1>11, DropStored
<1> QED BY <1>9, <1>10, <1>12 DEF LeafLeft

\* Leaf p gets the keys ks, and key c of r becomes y.
FirstAt(pg, pg2, p, ks, r, c, y) == pg2 = [pg EXCEPT ![p].keys = ks, ![r].keys[c] = y]

\* Those pages, field by field.
FirstFields(pg, pg2, p, ks, r, c, y) ==
    /\ pg2 \in [Page -> Node] /\ pg2[p].keys = ks /\ pg2[r].keys = [pg[r].keys EXCEPT ![c] = y]
    /\ \A q \in Page : /\ pg2[q].kind = pg[q].kind /\ pg2[q].child = pg[q].child
                       /\ pg2[q].parent = pg[q].parent
                       /\ pg2[q].prev = pg[q].prev /\ pg2[q].next = pg[q].next
    /\ \A q \in Page \ {p, r} : pg2[q] = pg[q]

\* The pages where a key of node r becomes the first of leaf p, which holds
\* ks.
LEMMA FirstPages ==
    ASSUME NEW pg \in [Page -> Node], NEW p \in Page, NEW r \in Page, p # r,
           NEW ks \in Seq(Key), NEW c \in 1..Len(pg[r].keys), NEW y \in Key,
           NEW pg2, FirstAt(pg, pg2, p, ks, r, c, y)
    PROVE  FirstFields(pg, pg2, p, ks, r, c, y)
<1> DEFINE rk == [pg[r].keys EXCEPT ![c] = y]
           pn == [pg[p] EXCEPT !.keys = ks]
           rn == [pg[r] EXCEPT !.keys = rk]
<1>1. pg2 = [[pg EXCEPT ![p] = pn] EXCEPT ![r] = rn]
  <2>1. pg2 = [pg EXCEPT ![p].keys = ks, ![r].keys[c] = y]
    BY DEF FirstAt
  <2> QED BY <2>1
<1>2. pg[p] \in Node /\ pg[r] \in Node
  OBVIOUS
<1>3. pg[r].keys \in Seq(Key)
  BY <1>2 DEF Node
<1>4. rk \in Seq(Key)
  BY <1>3, OtherKey
<1> HIDE DEF rk
<1>5. /\ pn \in Node /\ pn.kind = pg[p].kind /\ pn.child = pg[p].child /\ pn.parent = pg[p].parent
      /\ pn.prev = pg[p].prev /\ pn.next = pg[p].next /\ pn.keys = ks
  BY <1>2 DEF Node
<1>6. /\ rn \in Node /\ rn.kind = pg[r].kind /\ rn.child = pg[r].child /\ rn.parent = pg[r].parent
      /\ rn.prev = pg[r].prev /\ rn.next = pg[r].next /\ rn.keys = rk
  BY <1>2, <1>4 DEF Node
<1> HIDE DEF pn, rn
<1>7. /\ pg2 \in [Page -> Node] /\ pg2[p] = pn /\ pg2[r] = rn
      /\ \A q \in Page \ {p, r} : pg2[q] = pg[q]
  BY <1>1, <1>5, <1>6
<1>8. pg2[p].keys = ks /\ pg2[r].keys = rk
  BY <1>5, <1>6, <1>7
<1>9. ASSUME NEW q \in Page
      PROVE  /\ pg2[q].kind = pg[q].kind /\ pg2[q].child = pg[q].child
             /\ pg2[q].parent = pg[q].parent
             /\ pg2[q].prev = pg[q].prev /\ pg2[q].next = pg[q].next
  <2>1. q = p \/ q = r \/ q \in Page \ {p, r}
    OBVIOUS
  <2> QED BY <1>5, <1>6, <1>7, <2>1
<1> QED BY <1>7, <1>8, <1>9 DEF FirstFields, rk

\* The nodes of such pages: leaf p begins at another key.
LEMMA FirstTakes ==
    ASSUME NEW pg, NEW rt, NEW lev, NEW lo, NEW s, TreePages(pg, rt, lev, lo, s),
           NEW p \in Page, pg[p].kind = "leaf", NEW ks \in Seq(Key), Ascending(ks),
           ToSet(ks) \subseteq ToSet(pg[p].keys), 1 \in 1..Len(ks), NEW y, y = ks[1],
           NEW r \in Page, pg[r].kind = "internal", NEW c, c \in 1..Len(pg[r].keys),
           NEW pg2, FirstFields(pg, pg2, p, ks, r, c, y)
    PROVE  FirstTaken(TreeOf(pg, rt), TreeOf(pg2, rt), p, ks, r, c, y)
<1> DEFINE T == TreeOf(pg, rt)
           U == TreeOf(pg2, rt)
<1>1. pg \in [Page -> Node] /\ rt \in Page /\ Shaped(T)
  BY DEF TreePages, IsTree
<1>2. /\ pg2 \in [Page -> Node] /\ pg2[p].keys = ks /\ pg2[r].keys = [pg[r].keys EXCEPT ![c] = y]
      /\ \A q \in Page : /\ pg2[q].kind = pg[q].kind /\ pg2[q].child = pg[q].child
                         /\ pg2[q].parent = pg[q].parent
                         /\ pg2[q].prev = pg[q].prev /\ pg2[q].next = pg[q].next
      /\ \A q \in Page \ {p, r} : pg2[q] = pg[q]
  BY DEF FirstFields
<1>3. \A q \in Page : T[q] = pg[q]
  BY ONLY TreeFacts
<1>4. \A q \in Page : U[q] = pg2[q]
  BY ONLY TreeFacts
<1>5. T[0] = Internal(<<>>, <<rt>>, NoPage)
  BY ONLY TreeFacts
<1>6. U[0] = Internal(<<>>, <<rt>>, NoPage)
  BY ONLY TreeFacts
<1>7. U \in [Place -> Node]
  BY <1>1, <1>2, TreeFacts
<1> HIDE DEF T, U
<1>8. U[0] = T[0] /\ T[p] = pg[p] /\ T[r] = pg[r] /\ U[p] = pg2[p] /\ U[r] = pg2[r]
  BY <1>3, <1>4, <1>5, <1>6
<1>9. y \in Key
  BY KeySeq
<1>10. ASSUME NEW q \in Place
       PROVE  /\ U[q].kind = T[q].kind /\ U[q].child = T[q].child /\ U[q].parent = T[q].parent
              /\ U[q].prev = T[q].prev /\ U[q].next = T[q].next
              /\ q # p /\ q # r => U[q] = T[q]
  <2>1. CASE q = 0
    BY <1>8, <2>1
  <2>2. CASE q \in Page
    BY <1>2, <1>3, <1>4, <2>2
  <2> QED BY <2>1, <2>2, Places
<1>11. SameNodes(T, U)
  <2>1. ASSUME NEW q \in Place, T[q].kind = "none" PROVE U[q] = T[q]
    <3>1. q # p /\ q # r
      BY <1>8, <2>1
    <3> QED BY <1>10, <3>1
  <2> QED BY <1>7, <1>10, <2>1 DEF SameNodes
<1>12. NewBoundary(T, U, r, c, y)
  <2>1. ASSUME NEW q \in Place, T[q].kind = "internal", q # r PROVE U[q].keys = T[q].keys
    <3>1. q # p
      BY <1>8, <2>1
    <3> QED BY <1>10, <2>1, <3>1
  <2>2. r \in Place /\ T[r].kind = "internal" /\ c \in 1..Len(T[r].keys)
    BY <1>8, Places
  <2>3. U[r].keys = [T[r].keys EXCEPT ![c] = y]
    BY <1>2, <1>8
  <2>4. \A q \in Place : IsLeaf(T, q) => U[q].prev = T[q].prev /\ U[q].next = T[q].next
    BY <1>10
  <2> QED BY <1>9, <1>11, <2>1, <2>2, <2>3, <2>4 DEF NewBoundary
<1>13. \A z \in Place \ {p} : IsLeaf(T, z) => U[z].keys = T[z].keys
  <2>1. ASSUME NEW z \in Place \ {p}, IsLeaf(T, z) PROVE U[z].keys = T[z].keys
    <3>1. z # r
      BY <1>8, <2>1 DEF IsLeaf
    <3> QED BY <1>10, <2>1, <3>1
  <2> QED BY <2>1
<1>14. T[p].kind = "leaf" /\ ToSet(ks) \subseteq ToSet(T[p].keys) /\ U[p].keys = ks
  BY <1>2, <1>8
<1>15. FirstTaken(T, U, p, ks, r, c, y)
  BY <1>12, <1>13, <1>14 DEF FirstTaken
<1> QED BY <1>15 DEF T, U

\* A key is removed and the first key left separates the leaf from the one before.
LEMMA FirstLess ==
    ASSUME NEW pg, NEW rt, NEW lev, NEW lo, NEW s, TreePages(pg, rt, lev, lo, s),
           NEW p \in Page, pg[p].kind = "leaf", NEW k, k \in ToSet(pg[p].keys),
           NEW ks, OneLess(pg[p].keys, k, ks), 1 \in 1..Len(ks), NEW y, y = ks[1],
           NEW r \in Page, pg[r].kind = "internal", NEW c, c \in 1..Len(pg[r].keys),
           lo[p] = pg[r].keys[c], NEW pg2, FirstAt(pg, pg2, p, ks, r, c, y)
    PROVE  LeafLeft(pg, pg2, p, k, rt, lev, s)
<1> DEFINE T == TreeOf(pg, rt)
           U == TreeOf(pg2, rt)
<1>1. pg \in [Page -> Node] /\ rt \in Page /\ IsTree(T, lev, lo) /\ Chain(T, lo, s)
  BY DEF TreePages
<1>2. ks \in Seq(Key) /\ Ascending(ks) /\ ToSet(ks) = ToSet(pg[p].keys) \ {k}
  BY DEF OneLess
<1>3. FirstFields(pg, pg2, p, ks, r, c, y)
  <2>1. y \in Key
    BY <1>2, KeySeq
  <2>2. p # r
    OBVIOUS
  <2> QED BY <1>1, <1>2, <2>1, <2>2, FirstPages
<1>4. FirstTaken(T, U, p, ks, r, c, y)
  <2>1. ToSet(ks) \subseteq ToSet(pg[p].keys)
    BY <1>2
  <2> QED BY <1>2, <1>3, <2>1, FirstTakes
<1>5. \A x \in Page : T[x] = pg[x]
  BY ONLY TreeFacts
<1> HIDE DEF T, U
<1>6. T[p] = pg[p] /\ T[r] = pg[r]
  BY <1>5
<1>7. lo[p] = T[r].keys[c]
  BY <1>6
<1>8. \E new : IsTree(U, lev, new) /\ Chain(U, new, s)
  BY <1>1, <1>4, <1>7, FirstTakenTree
<1>9. /\ pg2 \in [Page -> Node] /\ pg2[p].keys = ks
      /\ \A q \in Page : pg2[q].kind = pg[q].kind /\ pg2[q].parent = pg[q].parent
      /\ \A q \in Page \ {p, r} : pg2[q] = pg[q]
  BY <1>3 DEF FirstFields
<1>10. \E new : TreePages(pg2, rt, lev, new, s)
  <2>1. PICK new : IsTree(U, lev, new) /\ Chain(U, new, s)
    BY <1>8
  <2>2. TreePages(pg2, rt, lev, new, s)
    BY <1>1, <1>9, <2>1 DEF TreePages, U
  <2> QED BY <2>2
<1>11. LeafLoses(pg, pg2, p, k)
  <2>1. ASSUME NEW q \in Page \ {p}, pg[q].kind = "leaf" PROVE k \notin ToSet(pg[q].keys)
    <3>1. IsLeaf(T, p) /\ IsLeaf(T, q) /\ T[q] = pg[q]
      BY <1>5, <1>6, <2>1 DEF IsLeaf
    <3> QED BY <1>1, <1>6, <3>1, OneLeaf
  <2>2. ToSet(pg2[p].keys) = ToSet(pg[p].keys) \ {k}
    BY <1>2, <1>9
  <2>3. \A q \in Page \ {p} : pg[q].kind = "leaf" => pg2[q].keys = pg[q].keys
    <3>1. ASSUME NEW q \in Page \ {p}, pg[q].kind = "leaf" PROVE pg2[q].keys = pg[q].keys
      <4>1. q # r
        BY <3>1
      <4> QED BY <1>9, <3>1, <4>1
    <3> QED BY <3>1
  <2> QED BY <1>9, <2>1, <2>2, <2>3 DEF LeafLoses
<1>12. Drops(StoredIn(pg2), StoredIn(pg), k)
  BY <1>11, DropStored
<1> QED BY <1>9, <1>10, <1>12 DEF LeafLeft

\* The entry that leads to a leaf in its parent is where the leaf begins.
LEMMA EntryBegins ==
    ASSUME NEW pg, NEW rt, NEW lev, NEW lo, NEW s, TreePages(pg, rt, lev, lo, s),
           NEW p \in Page, pg[p].kind # "none", NEW k, KeyOf(pg, lo, p, k), NEW r, r = pg[p].parent,
           r # NoPage, NEW c, c = Count(pg[r].keys, k)
    PROVE  /\ r \in Page /\ pg[r].kind = "internal" /\ ChildAt(pg, r, c + 1, p) /\ c \in Nat
           /\ c # 0 => c \in 1..Len(pg[r].keys) /\ lo[p] = pg[r].keys[c]
<1> DEFINE T == TreeOf(pg, rt)
<1>1. \A x \in Page : T[x] = pg[x]
  BY ONLY TreeFacts
<1> HIDE DEF T
<1>2. IsTree(T, lev, lo)
  BY DEF T, TreePages
<1>3. T[p] = pg[p] /\ T[p].parent = r /\ T[p].kind # "none"
  BY <1>1
<1>4. r \in Place /\ T[r].kind = "internal" /\ \E j \in 1..Len(T[r].child) : T[r].child[j] = p
  BY <1>2, <1>3, ParentFacts
<1>5. r \in Page
  BY <1>4, Places DEF NoPage
<1>6. T[r] = pg[r]
  BY <1>1, <1>5
<1>7. PICK j \in 1..Len(T[r].child) : T[r].child[j] = p
  BY <1>4
<1>8. ChildAt(T, r, j, p)
  BY <1>7 DEF ChildAt
<1>9. KeyOf(T, lo, p, k)
  BY <1>3 DEF KeyOf
<1>10. PlaceIn(T[r].keys, k, j)
  BY <1>2, <1>4, <1>8, <1>9, PlaceOf
<1>11. c = j - 1
  BY <1>6, <1>10 DEF PlaceIn
<1>12. Len(T[r].child) = Len(T[r].keys) + 1 /\ Len(T[r].keys) \in Nat
  BY <1>2, <1>4, NodeFields DEF IsTree, Shaped
<1>13. j \in Int /\ 1 <= j /\ j <= Len(T[r].child)
  BY <1>7, <1>12
<1>14. lo[p] = IF j = 1 THEN lo[r] ELSE T[r].keys[j - 1]
  BY <1>2, <1>4, <1>7, <1>13, ChildFacts
<1>15. c + 1 = j /\ c \in Nat /\ (c # 0 => c \in 1..Len(T[r].keys) /\ j # 1)
  BY <1>11, <1>12, <1>13
<1>16. c # 0 => lo[p] = T[r].keys[c]
  BY <1>11, <1>14, <1>15
<1> QED BY <1>4, <1>5, <1>6, <1>8, <1>15, <1>16 DEF ChildAt

-----------------------------------------------------------------------------
(* A level of a removal *)

\* The tree after the level, and the node that the next level is about, if any.
Settles(pg, res, rt, stale, short) ==
    /\ After(res) \in [Page -> Node] /\ Sound(TreeOf(After(res), rt), stale, short)
    /\ StoredIn(After(res)) = StoredIn(pg)
    /\ \/ res.freed = NoPage /\ \A q \in Page : After(res)[q].kind = pg[q].kind
       \/ res.freed # NoPage /\ NodeGone(pg, After(res), res.freed)

\* The next level is about node r, or there is none.
GoesUp(res, r) == r = NoPage \/ (r \in Page /\ After(res)[r].kind = "internal")

\* A node that has been rebalanced leaves a tree, and the next level is about its parent.
LEMMA SettledGoes ==
    ASSUME NEW pg, NEW res, NEW r \in Page, NEW rt, NEW stale, NEW short,
           Settled(pg, res, r, rt, stale, short)
    PROVE  Settles(pg, res, rt, stale, short) /\ GoesUp(res, r)
<1>1. Rebalanced(pg, After(res), res.freed, r, rt, stale, short)
  BY DEF Settled
<1>2. Settles(pg, res, rt, stale, short)
  BY <1>1 DEF Settles, Rebalanced
<1>3. After(res)[r].kind = "internal"
  BY <1>1 DEF Rebalanced
<1> QED BY <1>2, <1>3 DEF GoesUp

\* What a level of a removal does to the rest of the state.
Counted ==
    /\ root' = root /\ nPage' = nPage
    /\ phase' \in {"short", "tall", "shrunk"}
    /\ count' \in [load: 0..Max(Loads), puts: 0..MaxPuts, ops: 0..MaxOps]
    /\ phase' = "shrunk" => count'.ops # 0

\* What is left to do after a level.
LEMMA MendFacts ==
    ASSUME NEW k \in Key, NEW r \in PageOrNone
    PROVE  /\ Mend(k, r) \in Task /\ Mend(k, r).op # "link"
           /\ Mend(k, r).op = "mend" => r # NoPage /\ Mend(k, r).node = r
<1>1. CASE r = NoPage
  BY <1>1 DEF Mend, Rest, Task
<1>2. CASE r # NoPage
  BY <1>2 DEF Mend, Task, PageOrNone
<1> QED BY <1>1, <1>2

\* Such a level leads to a tree.
LEMMA SettleArrives ==
    ASSUME Live, NEW pg, \A q \in Page : pg[q].kind = page[q].kind,
           NEW res, Settles(pg, res, root, phase' = "shrunk", phase' = "short"),
           NEW r, GoesUp(res, r), Settle(res), NEW k \in Key, task' = Mend(k, r), Counted
    PROVE  TypeOK' /\ Live' /\ StoredIn(page') = StoredIn(pg)
<1>1. page' = After(res)
  BY Zenon DEF Settle, After
<1>2. free' = IF res.freed = NoPage THEN free ELSE <<res.freed>> \o free
  BY DEF Settle
<1>3. root \in Page /\ Books(page, free, nPage)
  BY DEF Live
<1>4. /\ root' = root /\ nPage' = nPage /\ phase' \in {"short", "tall", "shrunk"}
      /\ count' \in [load: 0..Max(Loads), puts: 0..MaxPuts, ops: 0..MaxOps]
      /\ phase' = "shrunk" => count'.ops # 0
  BY DEF Counted
<1>5. /\ page' \in [Page -> Node] /\ Sound(TreeOf(page', root), phase' = "shrunk", phase' = "short")
      /\ StoredIn(page') = StoredIn(pg)
      /\ \/ res.freed = NoPage /\ \A q \in Page : page'[q].kind = pg[q].kind
         \/ res.freed # NoPage /\ NodeGone(pg, page', res.freed)
  BY <1>1 DEF Settles
<1>6. r = NoPage \/ (r \in Page /\ page'[r].kind = "internal")
  BY <1>1 DEF GoesUp
<1>7. r \in PageOrNone
  BY <1>6 DEF PageOrNone
<1>8. /\ task' \in Task /\ task'.op # "link"
      /\ task'.op = "mend" => r # NoPage /\ task'.node = r
  BY <1>7, MendFacts
<1>9. TaskFits'
  <2>1. task'.op = "mend" => page'[task'.node].kind = "internal"
    BY <1>6, <1>8
  <2> QED BY <1>4, <1>8, <2>1 DEF TaskFits
<1>10. Linked' = TreeOf(page', root)
  BY <1>4, <1>8, UnlinkedNext
<1>11. Branching(page')
  <2>1. Shaped(TreeOf(page', root))
    BY <1>5 DEF Sound, IsTree
  <2> QED BY <2>1, TreeBranches
<1>12. Books(page', free', nPage')
  <2>1. ASSUME res.freed = NoPage, \A q \in Page : page'[q].kind = pg[q].kind
        PROVE  Books(page', free', nPage')
    <3>1. \A q \in Page : page'[q].kind = "none" <=> page[q].kind = "none"
      BY <2>1
    <3>2. free' = free /\ nPage' = nPage
      BY <1>2, <1>4, <2>1
    <3>3. Books(page', free, nPage)
      BY <1>3, <3>1, BooksSame
    <3> QED BY <3>2, <3>3
  <2>2. ASSUME res.freed # NoPage, NodeGone(pg, page', res.freed)
        PROVE  Books(page', free', nPage')
    <3>1. free' = <<res.freed>> \o free /\ nPage' = nPage
      BY <1>2, <1>4, <2>2
    <3>2. NodeGone(page, page', res.freed)
      BY <2>2 DEF NodeGone
    <3>3. Books(page', <<res.freed>> \o free, nPage)
      BY <1>3, <3>2, PageBound, Given
    <3> QED BY <3>1, <3>3
  <2> QED BY <1>5, <2>1, <2>2
<1>13. Sound(Linked', phase' = "shrunk", phase' = "short")
  BY <1>5, <1>10
<1>14. root' \in Page
  BY <1>3, <1>4
<1>15. TypeOK' /\ Live'
  BY <1>4, <1>5, <1>8, <1>9, <1>11, <1>12, <1>13, <1>14, Arrives
<1> QED BY <1>5, <1>15

\* An operation that stops leaves the tree as it is.
LEMMA StopArrives ==
    ASSUME TypeOK, Live, task.op # "link", Stop, Counted,
           phase = "shrunk" => phase' = "shrunk", phase' = "short" => phase = "short"
    PROVE  TypeOK' /\ Live' /\ StoredIn(page') = StoredIn(page)
<1>1. page' = page /\ free' = free /\ task' = Failed
  BY DEF Stop
<1>2. /\ root' = root /\ nPage' = nPage /\ phase' \in {"short", "tall", "shrunk"}
      /\ count' \in [load: 0..Max(Loads), puts: 0..MaxPuts, ops: 0..MaxOps]
      /\ phase' = "shrunk" => count'.ops # 0
  BY DEF Counted
<1>3. root \in Page /\ Books(page, free, nPage) /\ Sound(Pages, phase = "shrunk", phase = "short")
  BY Unlinked DEF Live
<1>4. page \in [Page -> Node] /\ Branching(page)
  BY TypeParts
<1>5. task' \in Task /\ task'.op = "failed"
  BY <1>1 DEF Failed, Task
<1>6. TaskFits'
  BY <1>2, <1>5 DEF TaskFits
<1>7. Linked' = Pages
  BY <1>1, <1>2, <1>5, UnlinkedNext DEF Pages
<1>8. Sound(Pages, phase' = "shrunk", phase' = "short")
  <2>1. PICK lev, lo : /\ IsTree(Pages, lev, lo) /\ Chain(Pages, lo, phase = "shrunk")
                       /\ (phase = "short" => lev[0] <= 2)
    BY <1>3 DEF Sound
  <2>2. Chain(Pages, lo, phase' = "shrunk")
    BY <2>1, ChainMore
  <2>3. phase' = "short" => lev[0] <= 2
    BY <2>1
  <2> QED BY <2>1, <2>2, <2>3 DEF Sound
<1>9. Sound(Linked', phase' = "shrunk", phase' = "short")
  BY <1>7, <1>8
<1>10. TypeOK' /\ Live'
  <2>1. page' \in [Page -> Node] /\ Branching(page') /\ root' \in Page /\ Books(page', free', nPage')
    BY <1>1, <1>2, <1>3, <1>4
  <2> QED BY <1>2, <1>5, <1>6, <1>9, <2>1, Arrives
<1> QED BY <1>1, <1>10

\* removeFromLeaf takes the key out of the leaf, and the tree is one still.
LEMMA RemovedLeft ==
    ASSUME NEW lev, NEW lo, NEW s, TreePages(page, root, lev, lo, s),
           NEW p \in Page, page[p].kind = "leaf", NEW k, k \in ToSet(page[p].keys), ~LeafFails(p, k)
    PROVE  LeafLeft(page, RemovedFromLeaf(p, k), p, k, root, lev, s)
<1> DEFINE ks == TakeOut(page[p].keys, k)
           r == page[p].parent
           c == Count(page[r].keys, k)
           pg == RemovedFromLeaf(p, k)
<1>1. page \in [Page -> Node] /\ IsTree(Pages, lev, lo)
  BY DEF TreePages, Pages
<1>2. page[p].keys \in Seq(Key) /\ Ascending(page[p].keys)
  <2>1. Pages[p] = page[p] /\ p \in Place
    BY PagesFacts, Places
  <2>2. page[p].keys \in Seq(Key)
    BY <1>1, <2>1, NodeFields DEF IsTree
  <2>3. Ascending(page[p].keys)
    BY <1>1, <2>1 DEF IsTree, Ordered, KeysInOrder
  <2> QED BY <2>2, <2>3
<1>3. OneLess(page[p].keys, k, ks)
  BY <1>2, TakeOutFacts
<1>4. ks \in Seq(Key) /\ Len(ks) = Len(page[p].keys) - 1
  BY <1>3 DEF OneLess
<1>5. EntryInParent(p, k) = IF r = NoPage THEN 0 ELSE c
  BY DEF EntryInParent
<1>6. pg = IF EntryInParent(p, k) = 0 THEN [page EXCEPT ![p].keys = ks]
           ELSE [page EXCEPT ![p].keys = ks, ![r].keys[EntryInParent(p, k)] = Head(ks)]
  BY DEF RemovedFromLeaf, TakeOut
<1> HIDE DEF ks, c, pg
<1>7. CASE EntryInParent(p, k) = 0
  <2>1. KeysAt(page, pg, p, ks)
    BY <1>6, <1>7 DEF KeysAt
  <2>2. LeafLeft(page, pg, p, k, root, lev, s)
    BY <1>3, <2>1, PlainLess
  <2> QED BY <2>2 DEF pg
<1>8. CASE EntryInParent(p, k) # 0
  <2>1. r # NoPage /\ EntryInParent(p, k) = c /\ c # 0
    BY <1>5, <1>8
  <2>2. KeyOf(page, lo, p, k)
    <3>1. \E i \in 1..Len(page[p].keys) : k = page[p].keys[i]
      BY <1>2, SeqSet
    <3>2. k \in Nat
      BY <1>2, <3>1, KeySeq
    <3> QED BY <3>1, <3>2 DEF KeyOf
  <2>3. /\ r \in Page /\ page[r].kind = "internal"
        /\ c \in 1..Len(page[r].keys) /\ lo[p] = page[r].keys[c]
    BY <2>1, <2>2, EntryBegins DEF c
  <2>4. 1 \in 1..Len(ks)
    <3>1. Len(page[p].keys) # 1
      BY <1>8 DEF LeafFails
    <3>2. Len(page[p].keys) \in Nat /\ Len(page[p].keys) # 0
      BY <1>2, SeqSet, KeySeq
    <3> DEFINE m == Len(page[p].keys)
               l == Len(ks)
    <3>3. m \in Nat /\ m # 0 /\ m # 1 /\ l = m - 1
      BY <1>4, <3>1, <3>2
    <3> HIDE DEF m, l
    <3>4. 1 \in 1..l
      BY <3>3
    <3> QED BY <3>4 DEF l
  <2> DEFINE y == ks[1]
  <2>5. y = Head(ks)
    <3>1. ks \in Seq(Key) /\ 1 \in 1..Len(ks)
      BY <1>4, <2>4
    <3>2. ks # <<>>
      BY <3>1
    <3> QED BY ONLY <3>1, <3>2 DEF y
  <2>6. FirstAt(page, pg, p, ks, r, c, y)
    BY <1>6, <2>1, <2>5 DEF FirstAt
  <2> HIDE DEF y, r
  <2>7. y = ks[1]
    BY DEF y
  <2>8. LeafLeft(page, pg, p, k, root, lev, s)
    BY <1>3, <2>3, <2>4, <2>6, <2>7, FirstLess
  <2> QED BY <2>8 DEF pg
<1> QED BY <1>7, <1>8

\* What the leaf level of removeBtree does to the pages where nothing fails.
LeafResult(pg, p) ==
    IF Used(pg[p]) < MinimumUsed /\ p # root THEN RebalanceLeaf(pg, p) ELSE Result(pg, NoPage)

\* removeBtree at a leaf stops or goes on.
LEMMA RemoveCases ==
    ASSUME NEW k, RemoveBtree(k), NEW p, p = FindLeaf(k), NEW pg, pg = RemovedFromLeaf(p, k)
    PROVE  \/ Stop
           \/ ~LeafFails(p, k) /\ Settle(LeafResult(pg, p)) /\ task' = Mend(k, page[p].parent)
<1>1. CASE LeafFails(p, k)
  BY <1>1 DEF RemoveBtree
<1>2. CASE ~LeafFails(p, k)
  BY <1>2, Zenon DEF RemoveBtree, LeafResult
<1> QED BY <1>1, <1>2

\* It counts an operation, and a tall tree has shrunk after it.
LEMMA RemoveCounts ==
    ASSUME TypeOK, NEW k, RemoveBtree(k)
    PROVE  /\ Counted /\ task = Rest /\ k \in Stored
           /\ phase = "shrunk" => phase' = "shrunk"
           /\ phase' = "short" => phase = "short"
           /\ phase' = "shrunk" \/ phase' = "short"
           /\ (phase' = "shrunk") = (phase # "short") /\ (phase' = "short") = (phase = "short")
<1>1. /\ phase' = (IF phase = "tall" THEN "shrunk" ELSE phase)
      /\ count' = [count EXCEPT !.ops = @ + 1] /\ root' = root /\ nPage' = nPage
      /\ task = Rest /\ k \in Stored /\ count.ops < MaxOps
  BY DEF RemoveBtree, MayOperate
<1>2. /\ phase \in {"short", "tall", "shrunk"}
      /\ count \in [load: 0..Max(Loads), puts: 0..MaxPuts, ops: 0..MaxOps]
  BY TypeParts
<1>3. MaxOps \in Nat
  BY BoundAssumption
<1> DEFINE M == Max(Loads)
<1>4. count \in [load: 0..M, puts: 0..MaxPuts, ops: 0..MaxOps]
  BY <1>2
<1> HIDE DEF M
<1>5. count.ops + 1 \in 0..MaxOps /\ count.ops + 1 # 0
  BY <1>1, <1>3, <1>4
<1>6. count' \in [load: 0..M, puts: 0..MaxPuts, ops: 0..MaxOps] /\ count'.ops # 0
  BY <1>1, <1>4, <1>5
<1>7. Counted
  BY <1>1, <1>2, <1>6 DEF Counted, M
<1> QED BY <1>1, <1>2, <1>7

\* Where nothing is rebalanced.
LEMMA NoneSettles ==
    ASSUME NEW pg, NEW rt, NEW lev, NEW lo, NEW s, TreePages(pg, rt, lev, lo, s),
           NEW stale, NEW short, Leaves(s, stale, short, lev), NEW res, res = Result(pg, NoPage)
    PROVE  Settles(pg, res, rt, stale, short) /\ After(res) = pg
<1>1. IsTree(TreeOf(pg, rt), lev, lo) /\ Chain(TreeOf(pg, rt), lo, s) /\ pg \in [Page -> Node]
  BY DEF TreePages
<1>2. (s => stale) /\ (short => lev[0] <= 2)
  BY DEF Leaves
<1>3. Chain(TreeOf(pg, rt), lo, stale)
  BY <1>1, <1>2, ChainMore
<1>4. Sound(TreeOf(pg, rt), stale, short)
  BY <1>1, <1>2, <1>3 DEF Sound
<1>5. res.freed = NoPage /\ res.page = pg
  BY DEF Result
<1>6. After(res) = pg
  BY <1>5 DEF After
<1> QED BY <1>1, <1>4, <1>5, <1>6 DEF Settles

\* The parent of a page is no page or a node above the leaves.
LEMMA ParentUp ==
    ASSUME NEW pg, NEW rt, NEW lev, NEW lo, NEW s, TreePages(pg, rt, lev, lo, s),
           NEW p \in Page, pg[p].kind # "none", NEW r, r = pg[p].parent, r # NoPage
    PROVE  r \in Page /\ pg[r].kind = "internal"
<1> DEFINE T == TreeOf(pg, rt)
<1>1. \A x \in Page : T[x] = pg[x]
  BY ONLY TreeFacts
<1> HIDE DEF T
<1>2. IsTree(T, lev, lo)
  BY DEF T, TreePages
<1>3. T[p].parent = r /\ T[p].kind # "none"
  BY <1>1
<1>4. r \in Place /\ T[r].kind = "internal"
  BY <1>2, <1>3, ParentFacts
<1>5. r \in Page
  BY <1>4, Places DEF NoPage
<1> QED BY <1>1, <1>4, <1>5

\* The pages of the program as a tree.
LEMMA LiveTree ==
    ASSUME TypeOK, Live, task.op # "link"
    PROVE  \E lev, lo : /\ TreePages(page, root, lev, lo, phase = "shrunk")
                        /\ phase = "short" => lev[0] <= 2
<1>1. Sound(Pages, phase = "shrunk", phase = "short") /\ root \in Page
  BY Unlinked DEF Live
<1>2. page \in [Page -> Node]
  BY TypeParts
<1>3. PICK lev, lo : /\ IsTree(Pages, lev, lo) /\ Chain(Pages, lo, phase = "shrunk")
                     /\ (phase = "short" => lev[0] <= 2)
  BY <1>1 DEF Sound
<1>4. TreePages(page, root, lev, lo, phase = "shrunk")
  BY <1>1, <1>2, <1>3 DEF TreePages, Pages
<1> QED BY <1>3, <1>4

\* A search for a key that is stored ends in the leaf that has it.
LEMMA StoredFound ==
    ASSUME NEW lev, NEW lo, NEW s, TreePages(page, root, lev, lo, s), NEW k, k \in Stored
    PROVE  FindLeaf(k) \in Page /\ page[FindLeaf(k)].kind = "leaf" /\ k \in ToSet(page[FindLeaf(k)].keys)
<1>1. IsTree(Pages, lev, lo)
  BY DEF TreePages, Pages
<1>2. k \in StoredIn(page)
  BY DEF StoredIn, Stored, LeafPages
<1>3. PICK p \in Page : page[p].kind = "leaf" /\ k \in ToSet(page[p].keys)
  BY <1>2, StoredWhere
<1>4. page[p].keys \in Seq(Key)
  BY DEF TreePages, Node
<1>5. PICK i \in 1..Len(page[p].keys) : k = page[p].keys[i]
  BY <1>3, <1>4, SeqSet
<1>6. FindLeaf(page[p].keys[i]) = p
  BY <1>1, <1>3, PageBound, SearchFinds
<1>7. FindLeaf(k) = p
  BY <1>5, <1>6
<1> QED BY <1>3, <1>7

\* The tree after a leaf level that does not fail.
LEMMA LeafSettles ==
    ASSUME Ordinary, NEW pg, NEW p \in Page, page[p].kind = "leaf", NEW k, NEW lev, NEW lo, NEW s,
           TreePages(page, root, lev, lo, s), LeafLeft(page, pg, p, k, root, lev, s),
           NEW stale, NEW short, Leaves(s, stale, short, lev), stale \/ short,
           NEW res, res = LeafResult(pg, p)
    PROVE  Settles(pg, res, root, stale, short) /\ GoesUp(res, page[p].parent)
<1> DEFINE r == page[p].parent
<1>1. PICK new : TreePages(pg, root, lev, new, s)
  BY DEF LeafLeft
<1>2. \A q \in Page : pg[q].kind = page[q].kind /\ pg[q].parent = page[q].parent
  BY DEF LeafLeft
<1>3. pg[p].kind = "leaf" /\ pg[p].parent = r
  BY <1>2
<1> HIDE DEF r
<1>4. r # NoPage => r \in Page /\ pg[r].kind = "internal"
  BY <1>1, <1>3, ParentUp
<1>5. ASSUME res = RebalanceLeaf(pg, p), p # root
      PROVE  Settles(pg, res, root, stale, short) /\ GoesUp(res, r)
  <2>1. Settled(pg, RebalanceLeaf(pg, p), pg[p].parent, root, stale, short)
    BY <1>1, <1>3, <1>5, LeafRebalanced
  <2>2. Settled(pg, res, r, root, stale, short)
    BY <1>3, <1>5, <2>1
  <2>3. r \in Page
    <3>1. pg \in [Page -> Node] /\ IsTree(TreeOf(pg, root), lev, new)
      BY <1>1 DEF TreePages
    <3> QED BY <1>3, <1>5, <3>1, PageParent
  <2> QED BY <2>2, <2>3, SettledGoes
<1>6. ASSUME res = Result(pg, NoPage)
      PROVE  Settles(pg, res, root, stale, short) /\ GoesUp(res, r)
  <2>1. Settles(pg, res, root, stale, short) /\ After(res) = pg
    BY <1>1, <1>6, NoneSettles
  <2>2. GoesUp(res, r)
    BY <1>4, <2>1 DEF GoesUp
  <2> QED BY <2>1, <2>2
<1>7. (res = RebalanceLeaf(pg, p) /\ p # root) \/ res = Result(pg, NoPage)
  BY DEF LeafResult
<1>8. Settles(pg, res, root, stale, short) /\ GoesUp(res, r)
  BY <1>5, <1>6, <1>7
<1> QED BY <1>8 DEF r

\* removeBtree takes its key out of the tree, or stops.
LEMMA RemoveBtreeStep ==
    ASSUME TypeOK, Live, Ordinary, NEW k \in Key, RemoveBtree(k)
    PROVE  /\ TypeOK' /\ Live'
           /\ \/ StoredIn(page') = StoredIn(page)
              \/ k \in StoredIn(page) /\ StoredIn(page') = StoredIn(page) \ {k}
<1>1. /\ Counted /\ task = Rest /\ k \in Stored
      /\ phase = "shrunk" => phase' = "shrunk"
      /\ phase' = "short" => phase = "short"
      /\ phase' = "shrunk" \/ phase' = "short"
  BY RemoveCounts
<1>2. task.op # "link"
  BY <1>1 DEF Rest
<1> DEFINE p == FindLeaf(k)
           pg == RemovedFromLeaf(p, k)
           res == LeafResult(pg, p)
           stale == phase' = "shrunk"
           short == phase' = "short"
<1>3. Stop \/ (~LeafFails(p, k) /\ Settle(res) /\ task' = Mend(k, page[p].parent))
  BY RemoveCases
<1>4. CASE Stop
  BY <1>1, <1>2, <1>4, StopArrives
<1>5. CASE ~LeafFails(p, k) /\ Settle(res) /\ task' = Mend(k, page[p].parent)
  <2>1. PICK lev, lo : /\ TreePages(page, root, lev, lo, phase = "shrunk")
                       /\ phase = "short" => lev[0] <= 2
    BY <1>2, LiveTree
  <2> DEFINE s == phase = "shrunk"
  <2>2. Leaves(s, stale, short, lev) /\ (stale \/ short)
    BY <1>1, <2>1 DEF Leaves
  <2>3. TreePages(page, root, lev, lo, s)
    BY <2>1
  <2> HIDE DEF s, stale, short
  <2>4. p \in Page /\ page[p].kind = "leaf" /\ k \in ToSet(page[p].keys)
    BY <1>1, <2>3, StoredFound
  <2> HIDE DEF p
  <2>5. LeafLeft(page, pg, p, k, root, lev, s)
    BY <1>5, <2>3, <2>4, RemovedLeft
  <2> HIDE DEF pg
  <2>6. Settles(pg, res, root, stale, short) /\ GoesUp(res, page[p].parent)
    BY <2>2, <2>3, <2>4, <2>5, LeafSettles
  <2> HIDE DEF res
  <2>7. \A q \in Page : pg[q].kind = page[q].kind
    BY <2>5 DEF LeafLeft
  <2>8. TypeOK' /\ Live' /\ StoredIn(page') = StoredIn(pg)
    <3>1. Settles(pg, res, root, phase' = "shrunk", phase' = "short")
      BY <2>6 DEF stale, short
    <3>2. Settle(res) /\ task' = Mend(k, page[p].parent) /\ GoesUp(res, page[p].parent)
      BY <1>5, <2>6
    <3> QED BY <1>1, <2>7, <3>1, <3>2, SettleArrives
  <2>9. Drops(StoredIn(pg), StoredIn(page), k)
    BY <2>5 DEF LeafLeft
  <2>10. k \in StoredIn(page)
    BY <2>4, StoredWhere
  <2> QED BY <2>8, <2>9, <2>10 DEF Drops
<1> QED BY <1>3, <1>4, <1>5

-----------------------------------------------------------------------------
(* The levels above the leaves *)

\* The pages pg2 are a tree as the pages pg are, with other keys above the leaves.
NodeLeft(pg, pg2, rt, lev, s) ==
    /\ \A q \in Page : /\ pg2[q].kind = pg[q].kind /\ pg2[q].parent = pg[q].parent
                       /\ pg2[q].child = pg[q].child
    /\ StoredIn(pg2) = StoredIn(pg)
    /\ \E new : TreePages(pg2, rt, lev, new, s)

\* A key of a node becomes the first one of the leaf that begins there.
LEMMA KeyRenewed ==
    ASSUME NEW pg, NEW rt, NEW lev, NEW lo, NEW s, TreePages(pg, rt, lev, lo, s),
           NEW b \in Page, pg[b].kind = "leaf", NEW ks, ks = pg[b].keys, 1 \in 1..Len(ks),
           NEW y, y = ks[1], NEW r \in Page, pg[r].kind = "internal", NEW c, c \in 1..Len(pg[r].keys),
           lo[b] = pg[r].keys[c], NEW pg2, FirstAt(pg, pg2, b, ks, r, c, y)
    PROVE  NodeLeft(pg, pg2, rt, lev, s)
<1> DEFINE T == TreeOf(pg, rt)
           U == TreeOf(pg2, rt)
<1>1. pg \in [Page -> Node] /\ rt \in Page /\ IsTree(T, lev, lo) /\ Chain(T, lo, s)
  BY DEF TreePages
<1>2. \A x \in Page : T[x] = pg[x]
  BY ONLY TreeFacts
<1>3. T[b] = pg[b] /\ T[r] = pg[r]
  BY <1>2
<1>4. ks \in Seq(Key) /\ Ascending(ks)
  <2>1. pg[b] \in Node
    BY <1>1
  <2>2. ks \in Seq(Key)
    BY <2>1 DEF Node
  <2> HIDE DEF T
  <2>3. Ascending(ks)
    BY <1>1, <1>3, Places DEF IsTree, Ordered, KeysInOrder
  <2> QED BY <2>2, <2>3
<1>5. FirstFields(pg, pg2, b, ks, r, c, y)
  <2>1. y \in Key
    BY <1>4, KeySeq
  <2>2. b # r
    OBVIOUS
  <2> QED BY <1>1, <1>4, <2>1, <2>2, FirstPages
<1>6. FirstTaken(T, U, b, ks, r, c, y)
  <2>1. ToSet(ks) \subseteq ToSet(pg[b].keys)
    OBVIOUS
  <2> QED BY <1>4, <1>5, <2>1, FirstTakes
<1> HIDE DEF T, U
<1>7. lo[b] = T[r].keys[c]
  BY <1>3
<1>8. \E new : IsTree(U, lev, new) /\ Chain(U, new, s)
  BY <1>1, <1>6, <1>7, FirstTakenTree
<1>9. /\ pg2 \in [Page -> Node] /\ pg2[b].keys = ks
      /\ \A q \in Page : /\ pg2[q].kind = pg[q].kind /\ pg2[q].parent = pg[q].parent
                         /\ pg2[q].child = pg[q].child
      /\ \A q \in Page \ {b, r} : pg2[q] = pg[q]
  BY <1>5 DEF FirstFields
<1>10. \E new : TreePages(pg2, rt, lev, new, s)
  <2>1. PICK new : IsTree(U, lev, new) /\ Chain(U, new, s)
    BY <1>8
  <2>2. TreePages(pg2, rt, lev, new, s)
    BY <1>1, <1>9, <2>1 DEF TreePages, U
  <2> QED BY <2>2
<1>11. StoredIn(pg2) = StoredIn(pg)
  <2>1. ASSUME NEW q \in Page, pg[q].kind = "leaf" PROVE pg2[q].keys = pg[q].keys
    <3>1. q = b \/ q \in Page \ {b, r}
      BY <2>1
    <3> QED BY <1>9, <3>1
  <2> QED BY <1>9, <2>1, SameStored
<1> QED BY <1>9, <1>10, <1>11 DEF NodeLeft

\* removeFromInternal leaves the tree a tree.
LEMMA RelabelledLeft ==
    ASSUME NEW lev, NEW lo, NEW s, TreePages(page, root, lev, lo, s),
           NEW p \in Page, page[p].kind = "internal", NEW k \in Key, ~MendFails(p, k)
    PROVE  NodeLeft(page, Relabelled(p, k), root, lev, s)
<1> DEFINE c == Count(page[p].keys, k)
           d == c + 1
           b == LeftmostLeaf(page[p].child[d])
           pg == Relabelled(p, k)
<1>1. page \in [Page -> Node] /\ IsTree(Pages, lev, lo)
  BY DEF TreePages, Pages
<1>2. pg = IF c = 0 THEN page ELSE [page EXCEPT ![p].keys[c] = Head(page[b].keys)]
  BY DEF Relabelled
<1>3. c # 0 => page[b].keys # <<>>
  BY DEF MendFails
<1>4. c \in 0..Len(page[p].keys) /\ Pages[p] = page[p] /\ p \in Place
  <2>1. Pages[p] = page[p] /\ p \in Place
    BY PagesFacts, Places
  <2>2. page[p].keys \in Seq(Nat)
    BY <1>1, <2>1, NodeFields DEF IsTree
  <2> QED BY <2>1, <2>2, CountRange
<1> HIDE DEF c, pg
<1>5. CASE c = 0
  <2>1. pg = page
    BY <1>2, <1>5
  <2>2. NodeLeft(page, page, root, lev, s)
    BY DEF NodeLeft
  <2> QED BY <2>1, <2>2 DEF pg
<1>6. CASE c # 0
  <2>1. /\ Len(page[p].child) = Len(page[p].keys) + 1 /\ Len(page[p].keys) \in Nat
    BY <1>1, <1>4, NodeFields DEF IsTree, Shaped
  <2>2. c \in 1..Len(page[p].keys) /\ d \in Int /\ 1 <= d /\ d <= Len(page[p].child) /\ d # 1 /\ c = d - 1
    BY <1>4, <1>6, <2>1
  <2> HIDE DEF b, d
  <2> DEFINE e == page[p].child[d]
  <2>3. e \in Page /\ Pages[e].kind # "none" /\ lo[e] = Pages[p].keys[d - 1]
    BY <1>1, <1>4, <2>2, ChildFacts
  <2>4. lo[e] = page[p].keys[c] /\ page[e].kind # "none"
    BY <1>4, <2>2, <2>3, PagesFacts
  <2> HIDE DEF e
  <2>5. LeftmostLeaf(e) \in Page /\ page[LeftmostLeaf(e)].kind = "leaf" /\ lo[LeftmostLeaf(e)] = lo[e]
    BY <1>1, <2>3, <2>4, PageBound, LeftmostBegins
  <2>6. b = LeftmostLeaf(e)
    BY DEF b, e
  <2>7. b \in Page /\ page[b].kind = "leaf" /\ lo[b] = page[p].keys[c]
    BY <2>4, <2>5, <2>6
  <2> DEFINE ks == page[b].keys
             y == ks[1]
  <2>8. 1 \in 1..Len(ks) /\ y = Head(ks)
    <3>1. page[b] \in Node
      BY <1>1, <2>7
    <3>2. ks \in Seq(Key) /\ ks # <<>>
      BY <1>3, <1>6, <3>1 DEF Node
    <3> HIDE DEF ks
    <3> QED BY <3>2
  <2>9. FirstAt(page, pg, b, ks, p, c, y)
    <3>1. pg = [page EXCEPT ![p].keys[c] = y]
      BY <1>2, <1>6, <2>8
    <3>2. [page EXCEPT ![b].keys = ks] = page
      <4>1. [page[b] EXCEPT !.keys = ks] = page[b]
        <5>1. page[b] \in Node
          BY <1>1, <2>7
        <5> QED BY <5>1 DEF Node
      <4> HIDE DEF ks
      <4>2. [page EXCEPT ![b].keys = ks] = [page EXCEPT ![b] = [page[b] EXCEPT !.keys = ks]]
        OBVIOUS
      <4>3. [page EXCEPT ![b] = page[b]] = page
        BY <1>1
      <4> QED BY <4>1, <4>2, <4>3
    <3>3. [[page EXCEPT ![b].keys = ks] EXCEPT ![p].keys[c] = y] = [page EXCEPT ![p].keys[c] = y]
      BY <3>2
    <3> HIDE DEF ks, y
    <3>4. [page EXCEPT ![b].keys = ks, ![p].keys[c] = y] = [[page EXCEPT ![b].keys = ks] EXCEPT ![p].keys[c] = y]
      OBVIOUS
    <3> QED BY <3>1, <3>3, <3>4 DEF FirstAt
  <2>10. ks = page[b].keys /\ y = ks[1]
    OBVIOUS
  <2> HIDE DEF ks, y
  <2>11. NodeLeft(page, pg, root, lev, s)
    BY <2>2, <2>7, <2>8, <2>9, <2>10, KeyRenewed
  <2> QED BY <2>11 DEF pg
<1> QED BY <1>5, <1>6

\* The children of a node are the nodes that name it as their parent.
Kids(pg, a) == \A z \in Page : z \in ToSet(pg[a].child) <=> pg[z].kind # "none" /\ pg[z].parent = a

\* Each node of a tree has such children.
LEMMA KidsAre ==
    ASSUME NEW pg, NEW rt, NEW lev, NEW lo, NEW s, TreePages(pg, rt, lev, lo, s),
           NEW a \in Page, pg[a].kind = "internal"
    PROVE  Kids(pg, a)
<1> DEFINE T == TreeOf(pg, rt)
           cs == pg[a].child
<1>1. \A x \in Page : T[x] = pg[x]
  BY ONLY TreeFacts
<1> HIDE DEF T
<1>2. IsTree(T, lev, lo)
  BY DEF T, TreePages
<1>3. T[a] = pg[a] /\ a \in Place
  BY <1>1, Places
<1>4. cs \in Seq(Page) /\ Len(cs) \in Nat
  BY <1>2, <1>3, NodeFields DEF IsTree
<1> HIDE DEF cs
<1>5. ASSUME NEW z \in Page, z \in ToSet(cs) PROVE pg[z].kind # "none" /\ pg[z].parent = a
  <2>1. PICK i \in 1..Len(cs) : z = cs[i]
    BY <1>4, <1>5, SeqSet
  <2>2. i \in Int /\ 1 <= i /\ i <= Len(T[a].child) /\ T[a].child[i] = z
    BY <1>3, <1>4, <2>1 DEF cs
  <2>3. T[a].kind = "internal"
    BY <1>3
  <2>4. T[z].kind # "none" /\ T[z].parent = a
    BY <1>2, <1>3, <2>2, <2>3, ChildFacts
  <2> QED BY <1>1, <2>4
<1>6. ASSUME NEW z \in Page, pg[z].kind # "none", pg[z].parent = a PROVE z \in ToSet(cs)
  <2>1. T[z].kind # "none" /\ T[z].parent = a
    BY <1>1, <1>6
  <2>2. \E j \in 1..Len(T[T[z].parent].child) : T[T[z].parent].child[j] = z
    BY <1>2, <2>1, ParentFacts
  <2>3. PICK j \in 1..Len(cs) : cs[j] = z
    BY <1>3, <2>1, <2>2 DEF cs
  <2> QED BY <1>4, <2>3, SeqSet
<1> QED BY <1>5, <1>6 DEF Kids, cs

\* a and b are nodes above the leaves, the children j and j + 1 of r.
NodePair(pg, a, b, r, j) ==
    /\ a \in Page /\ b \in Page /\ r \in Page /\ a # b /\ a # r /\ b # r
    /\ pg[a].kind = "internal" /\ pg[b].kind = "internal" /\ pg[r].kind = "internal"
    /\ pg[a].parent = r /\ pg[b].parent = r /\ pg[r].parent # a /\ pg[r].parent # b
    /\ j \in 1..Len(pg[r].keys) /\ ChildAt(pg, r, j, a) /\ pg[r].child[j + 1] = b
    /\ Kids(pg, a) /\ Kids(pg, b)

\* The fields of a node above the leaves.
Fields(n) ==
    /\ n \in Node /\ n.kind = "internal" /\ n.keys \in Seq(Key) /\ n.child \in Seq(Page)
    /\ Len(n.keys) \in Nat /\ Len(n.child) = Len(n.keys) + 1

\* Neighbours are such nodes.
LEMMA NodePairs ==
    ASSUME NEW pg, NEW rt, NEW lev, NEW lo, NEW s, TreePages(pg, rt, lev, lo, s),
           NEW r \in Page, pg[r].kind = "internal", NEW j, j \in 1..Len(pg[r].keys),
           NEW a, NEW b, ChildAt(pg, r, j, a), pg[r].child[j + 1] = b, pg[a].kind = "internal"
    PROVE  NodePair(pg, a, b, r, j) /\ Fields(pg[a]) /\ Fields(pg[b]) /\ Fields(pg[r])
<1> DEFINE T == TreeOf(pg, rt)
<1>1. \A x \in Page : T[x] = pg[x]
  BY ONLY TreeFacts
<1> HIDE DEF T
<1>2. IsTree(T, lev, lo) /\ pg \in [Page -> Node]
  BY DEF T, TreePages
<1>3. T[r] = pg[r] /\ r \in Place
  BY <1>1, Places
<1>4. a \in Page
  <2>1. pg[r] \in Node
    BY <1>2
  <2>2. pg[r].child \in Seq(Page)
    BY <2>1 DEF Node
  <2> QED BY <2>2, SeqPlaces DEF ChildAt
<1>5. T[a] = pg[a]
  BY <1>1, <1>4
<1>6. Sharing(T, lev, lo, a, b, r, j)
  <2>1. T[r].child[j] = a /\ T[r].child[j + 1] = b /\ T[a].kind = "internal" /\ T[r].kind = "internal"
        /\ j \in 1..Len(T[r].keys)
    BY <1>3, <1>5 DEF ChildAt
  <2> QED BY <1>2, <1>3, <2>1, SharingNodes
<1>7. /\ b \in Page /\ a # b /\ a # r /\ b # r /\ T[a].parent = r /\ T[b].parent = r
      /\ T[a].kind = "internal" /\ T[b].kind = "internal" /\ T[r].kind = "internal"
      /\ lev[a] = lev[b]
      /\ Len(T[a].keys) \in Nat /\ Len(T[b].keys) \in Nat /\ Len(T[r].keys) \in Nat
      /\ T[a].keys \in Seq(Key) /\ T[b].keys \in Seq(Key) /\ T[r].keys \in Seq(Key)
      /\ T[a].child \in Seq(Page) /\ T[b].child \in Seq(Page) /\ T[r].child \in Seq(Page)
      /\ Len(T[a].child) = Len(T[a].keys) + 1 /\ Len(T[b].child) = Len(T[b].keys) + 1
      /\ Len(T[r].child) = Len(T[r].keys) + 1
  BY <1>6 DEF Sharing
<1>8. T[b] = pg[b]
  BY <1>1, <1>7
<1>9. pg[a] \in Node /\ pg[b] \in Node /\ pg[r] \in Node
  BY <1>2, <1>4, <1>7
<1>10. Fields(pg[a]) /\ Fields(pg[b]) /\ Fields(pg[r])
  BY <1>3, <1>5, <1>7, <1>8, <1>9 DEF Fields
<1>11. T[r].parent # a /\ T[r].parent # b
  <2>1. lev[r] + 1 = lev[T[r].parent] /\ T[r].parent \in Place
    <3>1. T[r].kind # "none"
      BY <1>7
    <3> QED BY <1>2, <3>1, ParentFacts
  <2>2. lev[a] + 1 = lev[r]
    <3>1. T[a].kind # "none"
      BY <1>7
    <3> QED BY <1>2, <1>4, <1>7, <3>1, ParentFacts, SMTT(60)
  <2>3. lev[a] \in Nat /\ lev[r] \in Nat
    BY <1>2, <1>3, <1>4, Places DEF IsTree, Family
  <2>4. lev[T[r].parent] # lev[a]
    BY <2>1, <2>2, <2>3
  <2> QED BY <1>7, <2>4
<1>12. Kids(pg, a) /\ Kids(pg, b)
  <2>1. pg[b].kind = "internal"
    BY <1>7, <1>8
  <2> QED BY <1>4, <1>7, <2>1, KidsAre
<1>13. NodePair(pg, a, b, r, j)
  BY <1>3, <1>4, <1>5, <1>7, <1>8, <1>11, <1>12 DEF NodePair
<1> QED BY <1>10, <1>13

\* Node b, child j + 1 of r, becomes part of node a, child j.
NodesJoined(pg, pg2, a, b, r, j) ==
    /\ pg2 \in [Page -> Node] /\ pg2[b] = NoNode
    /\ pg2[a].kind = "internal" /\ pg2[a].parent = r
    /\ pg2[a].keys = Append(pg[a].keys, pg[r].keys[j]) \o pg[b].keys
    /\ pg2[a].child = pg[a].child \o pg[b].child
    /\ pg2[r].kind = "internal" /\ pg2[r].parent = pg[r].parent
    /\ pg2[r].keys = RemoveAt(pg[r].keys, j) /\ pg2[r].child = RemoveAt(pg[r].child, j + 1)
    /\ \A q \in Page \ {a, b, r} :
          pg2[q] = IF q \in ToSet(pg[b].child) THEN [pg[q] EXCEPT !.parent = a] ELSE pg[q]

\* Pages adopted by a node.
LEMMA AdoptedPages ==
    ASSUME NEW pg \in [Page -> Node], NEW C, NEW a \in Page
    PROVE  /\ Adopted(pg, C, a) \in [Page -> Node]
           /\ \A q \in Page : Adopted(pg, C, a)[q] = IF q \in C THEN [pg[q] EXCEPT !.parent = a] ELSE pg[q]
<1>1. ASSUME NEW q \in Page PROVE [pg[q] EXCEPT !.parent = a] \in Node
  <2>1. pg[q] \in Node /\ a \in PageOrNone
    BY DEF PageOrNone
  <2> QED BY <2>1 DEF Node
<1>2. ASSUME NEW q \in Page PROVE (IF q \in C THEN [pg[q] EXCEPT !.parent = a] ELSE pg[q]) \in Node
  BY <1>1
<1>3. Adopted(pg, C, a) = [q \in Page |-> IF q \in C THEN [pg[q] EXCEPT !.parent = a] ELSE pg[q]]
  BY DEF Adopted
<1> QED BY <1>2, <1>3

\* A node with other keys and children.
Changed(n, ks, cs) == [n EXCEPT !.keys = ks, !.child = cs]

\* It is a node, with these keys and children.
LEMMA NodeChanged ==
    ASSUME NEW n, Fields(n), NEW ks \in Seq(Key), NEW cs \in Seq(Page)
    PROVE  /\ Changed(n, ks, cs) \in Node
           /\ Changed(n, ks, cs).kind = "internal" /\ Changed(n, ks, cs).parent = n.parent
           /\ Changed(n, ks, cs).keys = ks /\ Changed(n, ks, cs).child = cs
<1>1. n \in Node /\ n.kind = "internal"
  BY DEF Fields
<1> QED BY <1>1 DEF Node, Changed

\* The keys and the children of a node that takes in another.
LEMMA JoinedSeqs ==
    ASSUME NEW n, Fields(n), NEW o, Fields(o), NEW k \in Key
    PROVE  Append(n.keys, k) \o o.keys \in Seq(Key) /\ n.child \o o.child \in Seq(Page)
<1>1. n.keys \in Seq(Key) /\ n.child \in Seq(Page) /\ o.keys \in Seq(Key) /\ o.child \in Seq(Page)
  BY DEF Fields
<1>2. Append(n.keys, k) \in Seq(Key)
  BY <1>1
<1> QED BY <1>1, <1>2

\* What mergeInternalNode and the free list make of the pages.
LEMMA MergeInternalsPages ==
    ASSUME NEW pg \in [Page -> Node], NEW a, NEW b, NEW r, NEW j, NodePair(pg, a, b, r, j),
           Fields(pg[a]), Fields(pg[b]), Fields(pg[r]),
           NEW pg2, pg2 = FreePage(MergeInternals(pg, a, b, j + 1), b)
    PROVE  NodesJoined(pg, pg2, a, b, r, j)
<1> DEFINE C == ToSet(pg[b].child)
           ad == Adopted(pg, C, a)
           ks == Append(pg[a].keys, pg[r].keys[j]) \o pg[b].keys
           cs == pg[a].child \o pg[b].child
           an == Changed(pg[a], ks, cs)
           rk == RemoveAt(pg[r].keys, j)
           rc == RemoveAt(pg[r].child, j + 1)
           rn == Changed(pg[r], rk, rc)
           m == MergeInternals(pg, a, b, j + 1)
<1>1. /\ a \in Page /\ b \in Page /\ r \in Page /\ a # b /\ a # r /\ b # r
      /\ pg[a].parent = r /\ pg[b].parent = r /\ pg[r].parent # a /\ pg[r].parent # b
      /\ j \in 1..Len(pg[r].keys) /\ Kids(pg, b)
  BY DEF NodePair
<1>2. ad \in [Page -> Node] /\ \A q \in Page : ad[q] = IF q \in C THEN [pg[q] EXCEPT !.parent = a] ELSE pg[q]
  BY <1>1, AdoptedPages
<1>3. a \notin C /\ b \notin C /\ r \notin C
  BY <1>1 DEF Kids
<1> HIDE DEF C, ad
<1>4. ad[a] = pg[a] /\ ad[r] = pg[r]
  BY <1>1, <1>2, <1>3
<1>5. WithoutChild(pg[r], j + 1) = rn /\ rk \in Seq(Key) /\ rc \in Seq(Page)
  <2>1. pg[r] \in Node /\ Len(pg[r].child) = Len(pg[r].keys) + 1
    BY DEF Fields
  <2> QED BY <1>1, <2>1, ChildGone DEF Changed
<1>6. pg[r].keys[j] \in Key
  <2>1. pg[r].keys \in Seq(Key)
    BY DEF Fields
  <2> QED BY <1>1, <2>1, KeySeq
<1>7. ks \in Seq(Key) /\ cs \in Seq(Page)
  BY <1>6, JoinedSeqs
<1>8. m = [ad EXCEPT ![a].keys = Append(@, pg[r].keys[j]) \o pg[b].keys, ![a].child = @ \o pg[b].child,
                     ![r] = WithoutChild(@, j + 1)]
  <2>1. (j + 1) - 1 = j
    BY <1>1
  <2> DEFINE y == pg[r].keys[j]
  <2>2. pg[pg[a].parent].keys[(j + 1) - 1] = y
    BY <1>1, <2>1
  <2>3. m = [ad EXCEPT ![a].keys = Append(@, pg[pg[a].parent].keys[(j + 1) - 1]) \o pg[b].keys,
                       ![a].child = @ \o pg[b].child, ![pg[a].parent] = WithoutChild(@, j + 1)]
    BY ONLY DEF MergeInternals, m, ad, C
  <2> HIDE DEF y, m
  <2>4. m = [ad EXCEPT ![a].keys = Append(@, y) \o pg[b].keys,
                       ![a].child = @ \o pg[b].child, ![r] = WithoutChild(@, j + 1)]
    BY ONLY <1>1, <2>2, <2>3, Zenon
  <2> QED BY ONLY <2>4 DEF y
<1>9. m = [ad EXCEPT ![a] = an, ![r] = rn]
  <2> HIDE DEF rn, rk, rc, m
  <2>1. [ad EXCEPT ![a].keys = Append(@, pg[r].keys[j]) \o pg[b].keys, ![a].child = @ \o pg[b].child]
          = [ad EXCEPT ![a] = an]
    <3>1. DOMAIN ad = Page
      BY <1>2
    <3> HIDE DEF ks, cs
    <3>2. [ad EXCEPT ![a].keys = ks, ![a].child = cs] = [ad EXCEPT ![a] = [ad[a] EXCEPT !.keys = ks, !.child = cs]]
      BY <1>1, <1>2, <3>1
    <3>3. [ad EXCEPT ![a].keys = Append(@, pg[r].keys[j]) \o pg[b].keys, ![a].child = @ \o pg[b].child]
            = [ad EXCEPT ![a].keys = Append(ad[a].keys, pg[r].keys[j]) \o pg[b].keys, ![a].child = ad[a].child \o pg[b].child]
      BY ONLY Zenon
    <3>4. [ad EXCEPT ![a].keys = Append(@, pg[r].keys[j]) \o pg[b].keys, ![a].child = @ \o pg[b].child]
            = [ad EXCEPT ![a].keys = ks, ![a].child = cs]
      BY ONLY <1>4, <3>3 DEF ks, cs
    <3> QED BY ONLY <1>4, <3>2, <3>4 DEF an, Changed
  <2> DEFINE a1 == Append(ad[a].keys, pg[r].keys[j]) \o pg[b].keys
             a2 == ad[a].child \o pg[b].child
             y == pg[r].keys[j]
  <2> HIDE DEF an, y
  <2>2. m = [ad EXCEPT ![a].keys = Append(@, y) \o pg[b].keys, ![a].child = @ \o pg[b].child, ![r] = rn]
    BY <1>1, <1>2, <1>4, <1>5, <1>8 DEF y
  <2>3. m = [[ad EXCEPT ![a].keys = Append(@, y) \o pg[b].keys, ![a].child = @ \o pg[b].child] EXCEPT ![r] = rn]
    BY ONLY <2>2
  <2>4. [ad EXCEPT ![a].keys = Append(@, y) \o pg[b].keys, ![a].child = @ \o pg[b].child] = [ad EXCEPT ![a] = an]
    BY ONLY <2>1 DEF y
  <2> QED BY ONLY <2>3, <2>4
<1>10. /\ an \in Node /\ an.kind = "internal" /\ an.parent = r /\ an.keys = ks /\ an.child = cs
  <2> HIDE DEF ks, cs
  <2> QED BY <1>1, <1>7, NodeChanged
<1>11. /\ rn \in Node /\ rn.kind = "internal" /\ rn.parent = pg[r].parent /\ rn.keys = rk /\ rn.child = rc
  <2> HIDE DEF rk, rc
  <2> QED BY <1>1, <1>5, NodeChanged
<1> HIDE DEF an, rn, m, ks, cs, rk, rc
<1>12. NoNode \in Node
  <2>1. <<>> \in Seq(Key) /\ <<>> \in Seq(Page)
    OBVIOUS
  <2> QED BY <2>1 DEF NoNode, Node, PageOrNone
<1>13. pg2 = [m EXCEPT ![b] = NoNode]
  BY DEF FreePage, m
<1>14. /\ pg2 \in [Page -> Node] /\ pg2[a] = an /\ pg2[r] = rn /\ pg2[b] = NoNode
       /\ \A q \in Page \ {a, b, r} : pg2[q] = ad[q]
  BY <1>1, <1>2, <1>9, <1>10, <1>11, <1>12, <1>13
<1>15. \A q \in Page \ {a, b, r} : pg2[q] = IF q \in C THEN [pg[q] EXCEPT !.parent = a] ELSE pg[q]
  BY <1>2, <1>14
<1>16. NodesJoined(pg, pg2, a, b, r, j)
  BY <1>10, <1>11, <1>14, <1>15 DEF NodesJoined, C, ks, cs, rk, rc
<1> QED BY <1>16

\* Where a node of the pages is a node of the tree and the other way round.
LEMMA KidsElse ==
    ASSUME NEW pg, NEW b, Kids(pg, b), NEW q \in Page, pg[q].kind # "none"
    PROVE  q \in ToSet(pg[b].child) <=> pg[q].parent = b
BY DEF Kids

\* The fields of the other nodes after a merger.
NodesElse(pg, pg2, a, b, r) ==
    /\ \A q \in Page \ {a, b} :
          /\ pg2[q].kind = pg[q].kind
          /\ pg[q].kind = "none" => pg2[q] = pg[q]
          /\ pg[q].kind # "none" =>
                pg2[q].parent = IF pg[q].parent \in {a, b} THEN a ELSE pg[q].parent
    /\ \A q \in Page \ {a, b, r} :
          /\ pg2[q].keys = pg[q].keys /\ pg2[q].child = pg[q].child
          /\ pg2[q].next = pg[q].next /\ pg2[q].prev = pg[q].prev

\* What a merger leaves in the other nodes.
LEMMA NodesElseFacts ==
    ASSUME NEW pg \in [Page -> Node], NEW pg2, NEW a, NEW b, NEW r, NEW j,
           NodePair(pg, a, b, r, j), NodesJoined(pg, pg2, a, b, r, j)
    PROVE  NodesElse(pg, pg2, a, b, r)
<1>1. /\ a \in Page /\ b \in Page /\ r \in Page /\ a # b /\ a # r /\ b # r
      /\ pg[r].kind = "internal" /\ pg[r].parent # a /\ pg[r].parent # b
      /\ Kids(pg, a) /\ Kids(pg, b)
  BY DEF NodePair
<1>2. /\ pg2[r].kind = "internal" /\ pg2[r].parent = pg[r].parent
      /\ \A q \in Page \ {a, b, r} :
          pg2[q] = IF q \in ToSet(pg[b].child) THEN [pg[q] EXCEPT !.parent = a] ELSE pg[q]
  BY DEF NodesJoined
<1>3. ASSUME NEW q \in Page \ {a, b, r}
      PROVE  /\ pg2[q].kind = pg[q].kind
             /\ pg[q].kind = "none" => pg2[q] = pg[q]
             /\ pg[q].kind # "none" =>
                   pg2[q].parent = IF pg[q].parent \in {a, b} THEN a ELSE pg[q].parent
             /\ pg2[q].keys = pg[q].keys /\ pg2[q].child = pg[q].child
             /\ pg2[q].next = pg[q].next /\ pg2[q].prev = pg[q].prev
  <2>1. pg[q] \in Node
    OBVIOUS
  <2>2. CASE q \in ToSet(pg[b].child)
    <3>1. pg[q].kind # "none" /\ pg[q].parent = b
      BY <1>1, <2>2 DEF Kids
    <3>2. pg2[q] = [pg[q] EXCEPT !.parent = a]
      BY <1>2, <2>2
    <3> QED BY <2>1, <3>1, <3>2 DEF Node
  <2>3. CASE q \notin ToSet(pg[b].child)
    <3>1. pg2[q] = pg[q]
      BY <1>2, <2>3
    <3>2. pg[q].kind # "none" => pg[q].parent # b
      BY <1>1, <2>3, KidsElse
    <3> QED BY <3>1, <3>2
  <2> QED BY <2>2, <2>3
<1> QED BY <1>1, <1>2, <1>3 DEF NodesElse

\* That is a merger of two nodes of the tree.
LEMMA NodesMerge ==
    ASSUME NEW pg, NEW rt, NEW lev, NEW lo, NEW s, TreePages(pg, rt, lev, lo, s),
           NEW pg2, NEW a, NEW b, NEW r, NEW j, NodePair(pg, a, b, r, j),
           NodesJoined(pg, pg2, a, b, r, j), NodesElse(pg, pg2, a, b, r)
    PROVE  Merges(TreeOf(pg, rt), TreeOf(pg2, rt), a, b, r, j, a)
<1> DEFINE T == TreeOf(pg, rt)
           U == TreeOf(pg2, rt)
<1>1. /\ a \in Page /\ b \in Page /\ r \in Page /\ a # b /\ a # r /\ b # r
      /\ pg[a].kind = "internal" /\ pg[r].kind = "internal"
      /\ j \in 1..Len(pg[r].keys) /\ ChildAt(pg, r, j, a) /\ pg[r].child[j + 1] = b
  BY DEF NodePair
<1>2. /\ pg2 \in [Page -> Node] /\ pg2[b] = NoNode
      /\ pg2[a].kind = "internal" /\ pg2[a].parent = r
      /\ pg2[a].keys = Append(pg[a].keys, pg[r].keys[j]) \o pg[b].keys
      /\ pg2[a].child = pg[a].child \o pg[b].child
      /\ pg2[r].keys = RemoveAt(pg[r].keys, j) /\ pg2[r].child = RemoveAt(pg[r].child, j + 1)
  BY DEF NodesJoined
<1>3. \A q \in Page : T[q] = pg[q]
  BY ONLY TreeFacts
<1>4. \A q \in Page : U[q] = pg2[q]
  BY ONLY TreeFacts
<1>5. T[0] = Internal(<<>>, <<rt>>, NoPage) /\ U[0] = Internal(<<>>, <<rt>>, NoPage)
  BY ONLY TreeFacts
<1>6. T[0].kind = "internal" /\ T[0].parent = NoPage /\ U[0] = T[0]
  BY <1>5 DEF Internal
<1>7. U \in [Place -> Node]
  BY <1>2, TreeFacts DEF TreePages
<1> HIDE DEF T, U
<1>8. IsTree(T, lev, lo) /\ pg \in [Page -> Node]
  BY DEF TreePages, T
<1>9. T[a] = pg[a] /\ T[b] = pg[b] /\ T[r] = pg[r] /\ U[a] = pg2[a] /\ U[b] = pg2[b] /\ U[r] = pg2[r]
      /\ r \in Place
  BY <1>1, <1>3, <1>4, Places
<1>10. [T[r].child EXCEPT ![j] = a] = T[r].child
  <2>1. T[r].child \in Seq(Page) /\ T[r].child[j] = a /\ j \in 1..Len(T[r].child)
    BY <1>1, <1>8, <1>9, NodeFields DEF ChildAt, IsTree
  <2>2. T[r].child = [i \in 1..Len(T[r].child) |-> T[r].child[i]]
    BY <2>1
  <2> QED BY <2>1, <2>2
<1>11. U[r].child = RemoveAt([T[r].child EXCEPT ![j] = a], j + 1)
  BY <1>2, <1>9, <1>10
<1>12. U[a].keys = JoinedKeys(T[a], T[r].keys[j], T[b]) /\ U[a].child = T[a].child \o T[b].child
  BY <1>1, <1>2, <1>9 DEF JoinedKeys
<1>13. /\ \A q \in Page \ {a, b} :
            /\ U[q].kind = T[q].kind
            /\ T[q].kind = "none" => U[q] = T[q]
            /\ T[q].kind # "none" =>
                  U[q].parent = IF T[q].parent \in {a, b} THEN a ELSE T[q].parent
       /\ \A q \in Page \ {a, b, r} : U[q].keys = T[q].keys /\ U[q].child = T[q].child
  BY <1>3, <1>4 DEF NodesElse
<1>14. 0 # a /\ 0 # b /\ 0 # r /\ NoPage # a /\ NoPage # b
  BY <1>1 DEF Page, NoPage
<1>15. ASSUME NEW q \in Place \ {a, b}
       PROVE  /\ U[q].kind = T[q].kind
              /\ T[q].kind = "none" => U[q] = T[q]
              /\ T[q].kind # "none" =>
                    U[q].parent = IF T[q].parent \in {a, b} THEN a ELSE T[q].parent
  <2>1. CASE q = 0
    BY <1>6, <1>14, <2>1
  <2>2. CASE q \in Page
    BY <1>13, <2>2
  <2> QED BY <2>1, <2>2, Places
<1>16. \A q \in Place \ {a, b, r} : U[q].keys = T[q].keys /\ U[q].child = T[q].child
  <2>1. ASSUME NEW q \in Place \ {a, b, r} PROVE U[q].keys = T[q].keys /\ U[q].child = T[q].child
    <3>1. q = 0 \/ q \in Page
      BY Places
    <3> QED BY <1>6, <1>13, <3>1
  <2> QED BY <2>1
<1>17. /\ T[r].kind = "internal" /\ j \in 1..Len(T[r].keys)
       /\ T[r].child[j] = a /\ T[r].child[j + 1] = b
       /\ U[a].kind = T[a].kind /\ U[a].parent = r /\ U[b] = NoNode
       /\ U[r].keys = RemoveAt(T[r].keys, j)
  BY <1>1, <1>2, <1>9 DEF ChildAt
<1>18. Merges(T, U, a, b, r, j, a)
  BY <1>1, <1>7, <1>9, <1>11, <1>12, <1>15, <1>16, <1>17 DEF Merges
<1> QED BY <1>18 DEF T, U

\* The chain of leaves is as it was.
LEMMA NodesChain ==
    ASSUME NEW pg \in [Page -> Node], NEW pg2, NEW rt, NEW rt2, NEW lo \in [Place -> Nat],
           NEW new \in [Place -> Nat], NEW s, Chain(TreeOf(pg, rt), lo, s),
           \A q \in Page : pg2[q].kind = "leaf" <=> pg[q].kind = "leaf",
           \A q \in Page : pg[q].kind = "none" => pg2[q].kind = "none",
           \A q \in Page : pg[q].kind = "leaf" =>
              pg2[q].next = pg[q].next /\ pg2[q].prev = pg[q].prev,
           \A q \in Page : pg[q].kind = "leaf" => new[q] = lo[q]
    PROVE  Chain(TreeOf(pg2, rt2), new, s)
<1> DEFINE T == TreeOf(pg, rt)
           U == TreeOf(pg2, rt2)
<1>1. \A q \in Page : T[q] = pg[q]
  BY ONLY TreeFacts
<1>2. \A q \in Page : U[q] = pg2[q]
  BY ONLY TreeFacts
<1>3. T[0].kind = "internal" /\ U[0].kind = "internal"
  BY ONLY TreeFacts
<1> HIDE DEF T, U
<1>4. ASSUME NEW q \in Place, IsLeaf(T, q) PROVE q \in Page /\ pg[q].kind = "leaf"
  <2>1. q # 0
    BY <1>3, <1>4 DEF IsLeaf
  <2>2. q \in Page
    BY <2>1, Places
  <2> QED BY <1>1, <1>4, <2>2 DEF IsLeaf
<1>5. \A q \in Place : IsLeaf(U, q) <=> IsLeaf(T, q)
  <2>1. ASSUME NEW q \in Page PROVE IsLeaf(U, q) <=> IsLeaf(T, q)
    BY <1>1, <1>2 DEF IsLeaf
  <2>2. IsLeaf(U, 0) <=> IsLeaf(T, 0)
    BY <1>3 DEF IsLeaf
  <2> QED BY <2>1, <2>2, Places
<1>6. \A q \in Place : IsLeaf(T, q) => U[q].next = T[q].next /\ U[q].prev = T[q].prev
  BY <1>1, <1>2, <1>4
<1>7. \A q \in Place : T[q].kind = "none" => U[q].kind = "none"
  <2>1. \A q \in Page : T[q].kind = "none" => U[q].kind = "none"
    BY <1>1, <1>2
  <2> QED BY <1>3, <2>1, Places
<1>8. \A q, r \in Place : IsLeaf(T, q) /\ IsLeaf(T, r) => (new[q] < new[r] <=> lo[q] < lo[r])
  BY <1>4
<1>9. SameChain(T, U, lo, new, s)
  BY <1>5, <1>6, <1>7, <1>8 DEF SameChain
<1>10. Chain(T, lo, s)
  BY DEF T
<1>11. Chain(U, new, s)
  BY <1>9, <1>10, ChainKept
<1> QED BY <1>11 DEF U

\* The pages after a merger of nodes.
LEMMA NodesRebalanced ==
    ASSUME NEW pg, NEW rt, NEW lev, NEW lo, NEW s, TreePages(pg, rt, lev, lo, s),
           NEW stale, NEW short, Leaves(s, stale, short, lev),
           NEW pg2, NEW a, NEW b, NEW r, NEW j, NodePair(pg, a, b, r, j),
           NodesJoined(pg, pg2, a, b, r, j)
    PROVE  Rebalanced(pg, pg2, b, r, rt, stale, short)
<1>1. /\ a \in Page /\ b \in Page /\ r \in Page /\ a # b /\ a # r /\ b # r
      /\ pg[a].kind = "internal" /\ pg[b].kind = "internal" /\ pg[r].kind = "internal"
  BY DEF NodePair
<1>2. /\ pg2 \in [Page -> Node] /\ pg2[b] = NoNode /\ pg2[a].kind = "internal" /\ pg2[r].kind = "internal"
  BY DEF NodesJoined
<1>3. /\ pg \in [Page -> Node] /\ rt \in Page
      /\ IsTree(TreeOf(pg, rt), lev, lo) /\ Chain(TreeOf(pg, rt), lo, s)
  BY DEF TreePages
<1>4. NodesElse(pg, pg2, a, b, r)
  BY <1>3, NodesElseFacts
<1>5. Merges(TreeOf(pg, rt), TreeOf(pg2, rt), a, b, r, j, a)
  BY <1>4, NodesMerge
<1>6. lo \in [Place -> Nat]
  BY <1>3 DEF IsTree, Ordered
<1>7. IsTree(TreeOf(pg2, rt), lev, lo)
  <2>1. IsTree(TreeOf(pg2, rt), lev, MergeLo(lo, a, a))
    BY <1>3, <1>5, MergeTree
  <2>2. MergeLo(lo, a, a) = lo
    BY <1>1, <1>6, Places DEF MergeLo
  <2> QED BY <2>1, <2>2
<1>8. pg2[b].kind = "none"
  BY <1>2 DEF NoNode
<1>9. /\ \A q \in Page \ {a, b} : pg2[q].kind = pg[q].kind
      /\ \A q \in Page \ {a, b, r} :
            pg2[q].keys = pg[q].keys /\ pg2[q].next = pg[q].next /\ pg2[q].prev = pg[q].prev
  BY <1>4 DEF NodesElse
<1>10. /\ \A q \in Page : pg2[q].kind = "leaf" <=> pg[q].kind = "leaf"
       /\ \A q \in Page : pg[q].kind = "none" => pg2[q].kind = "none"
       /\ \A q \in Page : pg[q].kind = "leaf" =>
              pg2[q].next = pg[q].next /\ pg2[q].prev = pg[q].prev /\ pg2[q].keys = pg[q].keys
  BY <1>1, <1>2, <1>8, <1>9
<1>11. Chain(TreeOf(pg2, rt), lo, s)
  BY <1>3, <1>6, <1>10, NodesChain
<1>12. Sound(TreeOf(pg2, rt), stale, short)
  <2>1. (s => stale) /\ (short => lev[0] <= 2)
    BY DEF Leaves
  <2>2. Chain(TreeOf(pg2, rt), lo, stale)
    BY <1>7, <1>11, <2>1, ChainMore
  <2> QED BY <1>7, <2>1, <2>2 DEF Sound
<1>13. StoredIn(pg2) = StoredIn(pg)
  BY <1>10, SameStored
<1>14. NodeGone(pg, pg2, b)
  BY <1>1, <1>2, <1>8, <1>9 DEF NodeGone
<1>15. b # NoPage
  BY <1>1 DEF NoPage, Page
<1> QED BY <1>2, <1>12, <1>13, <1>14, <1>15 DEF Rebalanced

\* Sequences that are joined and cut one place further on.
ShiftedLeft(V, s, t, u, a) ==
    /\ SubSeq(u, 1, a) = s /\ u[a + 1] = Head(t)
    /\ SubSeq(u, 1, a + 1) = Append(s, Head(t)) /\ SubSeq(u, a + 2, Len(u)) = RemoveAt(t, 1)
    /\ u \in Seq(V) /\ Len(u) = a + Len(t) /\ Head(t) \in V
    /\ Append(s, Head(t)) \in Seq(V) /\ RemoveAt(t, 1) \in Seq(V)

\* Joining s and t and cutting after the first of t.
LEMMA ShiftLeft ==
    ASSUME NEW V, NEW s \in Seq(V), NEW t \in Seq(V), t # <<>>, NEW a, a = Len(s)
    PROVE  ShiftedLeft(V, s, t, s \o t, a)
<1> DEFINE u == s \o t
           n == Len(t)
           v == RemoveAt(t, 1)
           w == Append(s, Head(t))
           x == SubSeq(u, 1, a + 1)
           y == SubSeq(u, 1, a)
           z == SubSeq(u, a + 2, Len(u))
<1>1. u \in Seq(V) /\ a \in Nat /\ n \in Nat
  BY SeqPlaces
<1>2. n >= 1 /\ Head(t) = t[1] /\ t[1] \in V
  <2>1. Head(t) = t[1]
    BY ONLY t \in Seq(V), t # <<>>
  <2>2. n # 0
    BY ONLY t \in Seq(V), t # <<>>
  <2>3. n >= 1
    BY <1>1, <2>2
  <2> QED BY <1>1, <2>1, <2>3, SeqPlaces
<1>3. /\ Len(u) = a + n
      /\ \A i \in 1..a : u[i] = s[i]
      /\ \A i \in 1..n : u[a + i] = t[i]
  BY JoinFacts DEF Joined
<1>4. v \in Seq(V) /\ Len(v) = n - 1 /\ \A j \in 1..n - 1 : v[j] = t[j + 1]
  <2>1. Removed(V, t, 1, v)
    BY <1>1, <1>2, RemoveAtFacts
  <2> HIDE DEF v
  <2>2. /\ v \in Seq(V) /\ Len(v) = n - 1
        /\ \A j \in 1..n - 1 : v[j] = IF j < 1 THEN t[j] ELSE t[j + 1]
    BY <2>1 DEF Removed
  <2> QED BY <1>1, <2>2
<1>5. w \in Seq(V) /\ Len(w) = a + 1 /\ w[a + 1] = t[1] /\ \A i \in 1..a : w[i] = s[i]
  BY <1>1, <1>2
<1>6. y \in Seq(V) /\ Len(y) = a /\ \A i \in 1..a : y[i] = u[i]
  <2>1. a <= Len(u)
    BY <1>1, <1>3
  <2> HIDE DEF u
  <2> QED BY <1>1, <2>1, LowerPart
<1>7. x \in Seq(V) /\ Len(x) = a + 1 /\ \A i \in 1..a + 1 : x[i] = u[i]
  <2> DEFINE h == a + 1
  <2>1. h \in Nat /\ h <= Len(u)
    BY <1>1, <1>2, <1>3
  <2> HIDE DEF u, h
  <2>2. SubSeq(u, 1, h) \in Seq(V) /\ Len(SubSeq(u, 1, h)) = h /\ \A i \in 1..h : SubSeq(u, 1, h)[i] = u[i]
    BY <1>1, <2>1, LowerPart
  <2> QED BY <2>2 DEF h
<1>8. z \in Seq(V) /\ Len(z) = n - 1 /\ \A i \in 1..n - 1 : z[i] = u[(a + 1) + i]
  <2> DEFINE h == a + 1
  <2>1. h \in Nat /\ h <= Len(u) /\ h + 1 = a + 2 /\ Len(u) - h = n - 1
    BY <1>1, <1>2, <1>3
  <2> HIDE DEF u, h
  <2>2. /\ SubSeq(u, h + 1, Len(u)) \in Seq(V) /\ Len(SubSeq(u, h + 1, Len(u))) = Len(u) - h
        /\ \A i \in 1..Len(u) - h : SubSeq(u, h + 1, Len(u))[i] = u[h + i]
    BY <1>1, <2>1, UpperPart
  <2> QED BY <2>1, <2>2 DEF h
<1>9. u[a + 1] = t[1]
  BY <1>1, <1>2, <1>3
<1> HIDE DEF u, v, w, x, y, z, n
<1>10. y = s
  BY <1>1, <1>3, <1>6, SeqEqual
<1>11. x = w
  <2>1. \A i \in 1..Len(x) : x[i] = w[i]
    <3>1. ASSUME NEW i \in 1..Len(x) PROVE x[i] = w[i]
      <4>1. CASE i = a + 1
        BY <1>1, <1>5, <1>7, <1>9, <4>1
      <4>2. CASE i # a + 1
        <5>1. i \in 1..a
          BY <1>1, <1>7, <4>2
        <5> QED BY <1>3, <1>5, <1>7, <5>1
      <4> QED BY <4>1, <4>2
    <3> QED BY <3>1
  <2> QED BY <1>5, <1>7, <2>1, SeqEqual
<1>12. z = v
  <2>1. \A i \in 1..Len(z) : z[i] = v[i]
    <3>1. ASSUME NEW i \in 1..Len(z) PROVE z[i] = v[i]
      <4> DEFINE h == i + 1
      <4>1. i \in 1..n - 1 /\ h \in 1..n /\ (a + 1) + i = a + h
        BY <1>1, <1>2, <1>8
      <4>2. z[i] = u[a + h] /\ v[i] = t[h]
        BY <1>4, <1>8, <4>1
      <4> HIDE DEF h
      <4> QED BY <1>3, <4>1, <4>2
    <3> QED BY <3>1
  <2> QED BY <1>4, <1>8, <2>1, SeqEqual
<1>13. SubSeq(u, 1, a) = s /\ u[a + 1] = Head(t) /\ SubSeq(u, 1, a + 1) = Append(s, Head(t))
       /\ SubSeq(u, a + 2, Len(u)) = RemoveAt(t, 1)
  BY <1>2, <1>9, <1>10, <1>11, <1>12 DEF x, y, z, w, v
<1>14. u \in Seq(V) /\ Len(u) = a + Len(t) /\ Head(t) \in V
       /\ Append(s, Head(t)) \in Seq(V) /\ RemoveAt(t, 1) \in Seq(V)
  BY <1>1, <1>2, <1>3, <1>4, <1>5 DEF n, w, v
<1>15. ShiftedLeft(V, s, t, u, a)
  BY <1>13, <1>14 DEF ShiftedLeft
<1> QED BY <1>15 DEF u

\* Sequences that are joined and cut one place before.
ShiftedRight(V, s, t, u, g) ==
    /\ SubSeq(u, 1, g) = RemoveAt(s, g + 1) /\ u[g + 1] = Last(s)
    /\ SubSeq(u, g + 1, Len(u)) = <<Last(s)>> \o t /\ SubSeq(u, g + 2, Len(u)) = t
    /\ u \in Seq(V) /\ Len(u) = (g + 1) + Len(t) /\ Last(s) \in V
    /\ RemoveAt(s, g + 1) \in Seq(V) /\ <<Last(s)>> \o t \in Seq(V)

\* Joining s and t and cutting before the last of s.
LEMMA ShiftRight ==
    ASSUME NEW V, NEW s \in Seq(V), NEW t \in Seq(V), NEW g \in Nat, Len(s) = g + 1
    PROVE  ShiftedRight(V, s, t, s \o t, g)
<1> DEFINE u == s \o t
           n == Len(t)
           a == g + 1
           e == Last(s)
           v == RemoveAt(s, a)
           w == <<e>> \o t
           y == SubSeq(u, 1, g)
           x == SubSeq(u, g + 1, Len(u))
           z == SubSeq(u, a + 1, Len(u))
<1>1. u \in Seq(V) /\ a \in Nat /\ n \in Nat /\ Len(s) = a /\ a >= 1 /\ g <= a
  BY SeqPlaces
<1>2. e = s[a] /\ s[a] \in V
  <2>1. e = s[Len(s)]
    BY DEF Last
  <2> HIDE DEF e, a
  <2> QED BY <1>1, <2>1, SeqPlaces
<1>3. /\ Len(u) = a + n
      /\ \A i \in 1..a : u[i] = s[i]
      /\ \A i \in 1..n : u[a + i] = t[i]
  <2>1. Joined(s, t, u)
    BY JoinFacts
  <2> HIDE DEF a, u
  <2> QED BY <1>1, <2>1 DEF Joined
<1>4. v \in Seq(V) /\ Len(v) = g /\ \A j \in 1..g : v[j] = s[j]
  <2>1. Removed(V, s, a, v)
    <3> HIDE DEF a
    <3> QED BY <1>1, RemoveAtFacts
  <2> HIDE DEF v
  <2>2. /\ v \in Seq(V) /\ Len(v) = a - 1
        /\ \A j \in 1..a - 1 : v[j] = IF j < a THEN s[j] ELSE s[j + 1]
    BY <1>1, <2>1 DEF Removed
  <2> QED BY <1>1, <2>2
<1> HIDE DEF e, v
<1>5. w \in Seq(V) /\ Len(w) = n + 1 /\ w[1] = e /\ \A i \in 1..n : w[i + 1] = t[i]
  <2>1. <<e>> \in Seq(V) /\ Len(<<e>>) = 1 /\ <<e>>[1] = e
    BY <1>2
  <2> DEFINE o == <<e>>
  <2> HIDE DEF o
  <2>2. o \in Seq(V) /\ Len(o) = 1 /\ o[1] = e
    BY <2>1 DEF o
  <2>3. Joined(o, t, o \o t) /\ o \o t \in Seq(V)
    BY <2>2, JoinFacts
  <2>4. /\ Len(o \o t) = Len(o) + n
        /\ \A i \in 1..Len(o) : (o \o t)[i] = o[i]
        /\ \A i \in 1..n : (o \o t)[Len(o) + i] = t[i]
    BY <2>3 DEF Joined
  <2>5. Len(o \o t) = n + 1 /\ (o \o t)[1] = e /\ \A i \in 1..n : (o \o t)[i + 1] = t[i]
    BY <1>1, <2>2, <2>4
  <2> QED BY <2>3, <2>5 DEF o
<1>6. y \in Seq(V) /\ Len(y) = g /\ \A i \in 1..g : y[i] = u[i]
  <2>1. g <= Len(u)
    BY <1>1, <1>3
  <2> HIDE DEF u
  <2> QED BY <1>1, <2>1, LowerPart
<1>7. x \in Seq(V) /\ Len(x) = n + 1 /\ \A i \in 1..n + 1 : x[i] = u[g + i]
  <2>1. g <= Len(u) /\ Len(u) - g = n + 1
    BY <1>1, <1>3
  <2> HIDE DEF u
  <2>2. /\ x \in Seq(V) /\ Len(x) = Len(u) - g
        /\ \A i \in 1..Len(u) - g : x[i] = u[g + i]
    BY <1>1, <2>1, UpperPart
  <2> QED BY <2>1, <2>2
<1>8. z \in Seq(V) /\ Len(z) = n /\ \A i \in 1..n : z[i] = u[a + i]
  <2>1. a <= Len(u) /\ Len(u) - a = n
    BY <1>1, <1>3
  <2> HIDE DEF u, a
  <2>2. /\ z \in Seq(V) /\ Len(z) = Len(u) - a
        /\ \A i \in 1..Len(u) - a : z[i] = u[a + i]
    BY <1>1, <2>1, UpperPart
  <2> QED BY <2>1, <2>2
<1>9. a + 1 = g + 2
  OBVIOUS
<1>10. a = g + 1
  OBVIOUS
<1> HIDE DEF u, w, x, y, z, n, a
<1>11. y = v
  <2>1. \A i \in 1..Len(y) : y[i] = v[i]
    <3>1. \A i \in 1..g : i \in 1..a
      BY <1>10
    <3> QED BY <1>3, <1>4, <1>6, <3>1
  <2> QED BY <1>4, <1>6, <2>1, SeqEqual
<1>12. x = w
  <2>1. ASSUME NEW i \in 1..Len(x) PROVE x[i] = w[i]
    <3>1. CASE i = 1
      <4>1. x[1] = u[a] /\ a \in 1..a
        BY <1>1, <1>7, <1>10
      <4> QED BY <1>2, <1>3, <1>5, <3>1, <4>1
    <3>2. CASE i # 1
      <4> DEFINE h == i - 1
      <4>1. h \in 1..n /\ i = h + 1 /\ g + i = a + h
        BY <1>1, <1>7, <1>10, <3>2
      <4>2. x[i] = u[a + h]
        BY <1>7, <4>1
      <4> HIDE DEF h
      <4> QED BY <1>3, <1>5, <4>1, <4>2
    <3> QED BY <3>1, <3>2
  <2> QED BY <1>5, <1>7, <2>1, SeqEqual
<1>13. z = t
  <2>1. \A i \in 1..Len(z) : z[i] = t[i]
    BY <1>3, <1>8
  <2> QED BY <1>8, <2>1, SeqEqual DEF n
<1>14. u[g + 1] = Last(s)
  <2>1. a \in 1..a
    BY <1>1
  <2> QED BY <1>2, <1>3, <1>10, <2>1 DEF e
<1>15. SubSeq(u, 1, g) = RemoveAt(s, g + 1) /\ SubSeq(u, g + 1, Len(u)) = <<Last(s)>> \o t
       /\ SubSeq(u, g + 2, Len(u)) = t
  BY <1>9, <1>10, <1>11, <1>12, <1>13 DEF x, y, z, w, v, e
<1>16. u \in Seq(V) /\ Len(u) = (g + 1) + Len(t) /\ Last(s) \in V
       /\ RemoveAt(s, g + 1) \in Seq(V) /\ <<Last(s)>> \o t \in Seq(V)
  BY <1>1, <1>2, <1>3, <1>4, <1>5, <1>10 DEF n, v, w, e
<1>17. ShiftedRight(V, s, t, u, g)
  BY <1>14, <1>15, <1>16 DEF ShiftedRight
<1> QED BY <1>17 DEF u

\* A key between two sequences of keys may be counted with either.
LEMMA KeyBetween ==
    ASSUME NEW V, NEW s \in Seq(V), NEW t \in Seq(V), NEW e \in V
    PROVE  Append(s, e) \o t = s \o (<<e>> \o t) /\ <<e>> \o t \in Seq(V)
<1>1. Append(s, e) = s \o <<e>>
  OBVIOUS
<1>2. <<e>> \in Seq(V)
  OBVIOUS
<1>3. (s \o <<e>>) \o t = s \o (<<e>> \o t)
  BY <1>2, ConcatAssociative
<1> QED BY <1>1, <1>2, <1>3

\* The keys and the children of two neighbours, one after the other.
PairKeysOf(pg, p, q, r, j) == Append(pg[p].keys, pg[r].keys[j]) \o pg[q].keys

\* The children of both.
PairChildren(pg, p, q) == pg[p].child \o pg[q].child

\* Nodes p and q, children j and j + 1 of r, share them anew: p has a keys.
NodesDealt(pg, pg2, p, q, r, j, a) ==
    LET ks == PairKeysOf(pg, p, q, r, j)
        cs == PairChildren(pg, p, q)
    IN  /\ a \in Nat \ {0} /\ a + 1 \in 1..Len(ks)
        /\ pg2[p].keys = SubSeq(ks, 1, a) /\ pg2[p].child = SubSeq(cs, 1, a + 1)
        /\ pg2[q].keys = SubSeq(ks, a + 2, Len(ks)) /\ pg2[q].child = SubSeq(cs, a + 2, Len(cs))
        /\ pg2[r].keys = [pg[r].keys EXCEPT ![j] = ks[a + 1]] /\ pg2[r].child = pg[r].child

\* The children that come to be below p have it for their parent.
NodesFollow(pg, pg2, p, q, r, a) ==
    /\ pg2 \in [Page -> Node] /\ pg2[p].parent = r /\ pg2[q].parent = r
    /\ \A z \in Page : pg2[z].kind = pg[z].kind /\ (pg[z].kind = "none" => pg2[z] = pg[z])
    /\ \A z \in Page \ {p, q, r} :
          /\ pg2[z].keys = pg[z].keys /\ pg2[z].child = pg[z].child
          /\ pg2[z].next = pg[z].next /\ pg2[z].prev = pg[z].prev
    /\ \A z \in Page \ {p, q} : pg[z].kind # "none" => pg2[z].parent =
          IF \E i \in 1..a + 1 : z = PairChildren(pg, p, q)[i] THEN p
          ELSE IF pg[z].parent \in {p, q} THEN q ELSE pg[z].parent

\* That is what two nodes of the tree do.
LEMMA DealtNodes ==
    ASSUME NEW pg, NEW rt, NEW lev, NEW lo, NEW s, TreePages(pg, rt, lev, lo, s),
           NEW pg2, NEW p, NEW q, NEW r, NEW j, NEW a, NodePair(pg, p, q, r, j),
           NodesDealt(pg, pg2, p, q, r, j, a), NodesFollow(pg, pg2, p, q, r, a)
    PROVE  Redistributes(TreeOf(pg, rt), TreeOf(pg2, rt), p, q, r, j, a)
<1> DEFINE T == TreeOf(pg, rt)
           U == TreeOf(pg2, rt)
           ks == PairKeysOf(pg, p, q, r, j)
           cs == PairChildren(pg, p, q)
<1>1. /\ p \in Page /\ q \in Page /\ r \in Page /\ p # q /\ p # r /\ q # r
      /\ pg[p].kind = "internal" /\ pg[r].kind = "internal"
      /\ j \in 1..Len(pg[r].keys) /\ ChildAt(pg, r, j, p) /\ pg[r].child[j + 1] = q
  BY DEF NodePair
<1>2. /\ a \in Nat \ {0} /\ a + 1 \in 1..Len(ks)
      /\ pg2[p].keys = SubSeq(ks, 1, a) /\ pg2[p].child = SubSeq(cs, 1, a + 1)
      /\ pg2[q].keys = SubSeq(ks, a + 2, Len(ks)) /\ pg2[q].child = SubSeq(cs, a + 2, Len(cs))
      /\ pg2[r].keys = [pg[r].keys EXCEPT ![j] = ks[a + 1]] /\ pg2[r].child = pg[r].child
  BY DEF NodesDealt
<1>3. \A z \in Page : T[z] = pg[z]
  BY ONLY TreeFacts
<1>4. \A z \in Page : U[z] = pg2[z]
  BY ONLY TreeFacts
<1>5. T[0] = Internal(<<>>, <<rt>>, NoPage) /\ U[0] = Internal(<<>>, <<rt>>, NoPage)
  BY ONLY TreeFacts
<1>6. T[0].kind = "internal" /\ T[0].parent = NoPage /\ U[0] = T[0]
  BY <1>5 DEF Internal
<1>7. U \in [Place -> Node]
  BY TreeFacts DEF TreePages, NodesFollow
<1> HIDE DEF T, U
<1>8. T[p] = pg[p] /\ T[q] = pg[q] /\ T[r] = pg[r] /\ U[p] = pg2[p] /\ U[q] = pg2[q] /\ U[r] = pg2[r]
      /\ r \in Place
  BY <1>1, <1>3, <1>4, Places
<1>9. ks = AllKeys(T, p, q, r, j) /\ cs = AllChildren(T, p, q)
  BY <1>8 DEF AllKeys, AllChildren, PairKeysOf, PairChildren
<1>10. 0 # p /\ 0 # q /\ 0 # r /\ NoPage # p /\ NoPage # q /\ 0 \notin Page
  BY <1>1 DEF Page, NoPage
<1>11. \A i \in 1..a + 1 : cs[i] # 0
  <2>1. IsTree(T, lev, lo)
    BY DEF TreePages, T
  <2>2. T[p].child \in Seq(Page) /\ T[q].child \in Seq(Page)
    BY <1>1, <2>1, NodeFields, Places DEF IsTree
  <2>3. Sharing(T, lev, lo, p, q, r, j)
    BY <1>1, <1>8, <2>1, SharingNodes DEF ChildAt
  <2>4. Len(T[p].keys) \in Nat /\ Len(T[q].keys) \in Nat
        /\ Len(T[p].child) = Len(T[p].keys) + 1 /\ Len(T[q].child) = Len(T[q].keys) + 1
        /\ T[p].keys \in Seq(Key) /\ T[q].keys \in Seq(Key) /\ T[r].keys \in Seq(Key)
        /\ j \in 1..Len(T[r].keys)
    BY <2>3 DEF Sharing
  <2>5. cs \in Seq(Page) /\ Len(cs) = Len(T[p].child) + Len(T[q].child)
    BY <1>8, <2>2 DEF PairChildren
  <2>6. Len(ks) = (Len(T[p].keys) + 1) + Len(T[q].keys)
    <3>1. T[r].keys[j] \in Key
      BY <2>4, KeySeq
    <3>2. Append(T[p].keys, T[r].keys[j]) \in Seq(Key) /\ Len(Append(T[p].keys, T[r].keys[j])) = Len(T[p].keys) + 1
      BY <2>4, <3>1
    <3> DEFINE v == Append(T[p].keys, T[r].keys[j])
    <3>3. v \in Seq(Key) /\ Len(v) = Len(T[p].keys) + 1 /\ ks = v \o T[q].keys
      BY <1>8, <3>2 DEF PairKeysOf
    <3> DEFINE t == T[q].keys
               n == Len(T[p].keys)
    <3>4. t \in Seq(Key) /\ ks = v \o t /\ Len(v) = n + 1
      BY <2>4, <3>3
    <3> HIDE DEF v, ks, t, n
    <3>5. Joined(v, t, v \o t)
      BY <3>3, <3>4, JoinFacts
    <3>6. Len(ks) = Len(v) + Len(t)
      BY <3>4, <3>5 DEF Joined
    <3>7. Len(ks) = (n + 1) + Len(t)
      BY <3>4, <3>6
    <3> QED BY <3>7 DEF t, n
  <2> DEFINE m == Len(T[p].keys)
             n == Len(T[q].keys)
             h == a + 1
             lc == Len(cs)
             lk == Len(ks)
  <2>10. m \in Nat /\ n \in Nat /\ lc = (m + 1) + (n + 1) /\ lk = (m + 1) + n /\ h \in 1..lk
    BY <1>2, <2>4, <2>5, <2>6
  <2> HIDE DEF cs, ks, m, n, h, lc, lk
  <2>11. h <= lc /\ lc \in Nat /\ h \in Nat
    BY <2>10
  <2>7. a + 1 <= Len(cs)
    BY <2>11 DEF h, lc
  <2>8. \A i \in 1..Len(cs) : cs[i] \in Page
    BY <2>5, SeqPlaces
  <2>9. Len(cs) \in Nat /\ a + 1 \in Nat
    BY <2>11 DEF h, lc
  <2> QED BY <1>10, <2>7, <2>8, <2>9
<1> HIDE DEF cs, ks
<1>12. ASSUME NEW z \in Place
       PROVE  U[z].kind = T[z].kind /\ (T[z].kind = "none" => U[z] = T[z])
  <2>1. CASE z = 0
    BY <1>6, <2>1
  <2>2. CASE z \in Page
    BY <1>3, <1>4, <2>2 DEF NodesFollow
  <2> QED BY <2>1, <2>2, Places
<1>13. ASSUME NEW z \in Place \ {p, q, r} PROVE U[z].keys = T[z].keys /\ U[z].child = T[z].child
  <2>1. CASE z = 0
    BY <1>6, <2>1
  <2>2. CASE z \in Page
    BY <1>3, <1>4, <2>2 DEF NodesFollow
  <2> QED BY <2>1, <2>2, Places
<1>14. ASSUME NEW z \in Place \ {p, q}, T[z].kind # "none"
       PROVE  U[z].parent = IF \E i \in 1..a + 1 : z = cs[i] THEN p
                            ELSE IF T[z].parent \in {p, q} THEN q ELSE T[z].parent
  <2>1. CASE z = 0
    BY <1>6, <1>10, <1>11, <2>1
  <2>2. CASE z \in Page
    BY <1>3, <1>4, <1>14, <2>2 DEF NodesFollow, cs
  <2> QED BY <2>1, <2>2, Places
<1>15. /\ T[r].kind = "internal" /\ j \in 1..Len(T[r].keys)
       /\ T[r].child[j] = p /\ T[r].child[j + 1] = q /\ T[p].kind = "internal"
       /\ U[p].keys = SubSeq(ks, 1, a) /\ U[p].child = SubSeq(cs, 1, a + 1)
       /\ U[q].keys = SubSeq(ks, a + 2, Len(ks)) /\ U[q].child = SubSeq(cs, a + 2, Len(cs))
       /\ U[r].keys = [T[r].keys EXCEPT ![j] = ks[a + 1]] /\ U[r].child = T[r].child
       /\ U[p].parent = r /\ U[q].parent = r
  <2>1. pg2[p].parent = r /\ pg2[q].parent = r
    BY DEF NodesFollow
  <2> QED BY <1>1, <1>2, <1>8, <2>1 DEF ChildAt
<1>16. Redistributes(T, U, p, q, r, j, a)
  BY <1>2, <1>7, <1>8, <1>9, <1>12, <1>13, <1>14, <1>15, SMTT(60) DEF Redistributes
<1> QED BY <1>16 DEF T, U

\* So the pages are right after a borrow between nodes.
LEMMA DealtRebalanced ==
    ASSUME NEW pg, NEW rt, NEW lev, NEW lo, NEW s, TreePages(pg, rt, lev, lo, s),
           NEW stale, NEW short, Leaves(s, stale, short, lev),
           NEW pg2, NEW p, NEW q, NEW r, NEW j, NEW a, NodePair(pg, p, q, r, j),
           NodesDealt(pg, pg2, p, q, r, j, a), NodesFollow(pg, pg2, p, q, r, a)
    PROVE  Rebalanced(pg, pg2, NoPage, r, rt, stale, short)
<1> DEFINE T == TreeOf(pg, rt)
           U == TreeOf(pg2, rt)
           new == RedistributeLo(T, lo, p, q, r, j, a)
<1>1. /\ p \in Page /\ q \in Page /\ r \in Page /\ p # q
      /\ pg[p].kind = "internal" /\ pg[q].kind = "internal" /\ pg[r].kind = "internal"
  BY DEF NodePair
<1>2. /\ pg \in [Page -> Node] /\ rt \in Page /\ IsTree(T, lev, lo) /\ Chain(T, lo, s)
  BY DEF TreePages
<1>3. /\ pg2 \in [Page -> Node]
      /\ \A z \in Page : pg2[z].kind = pg[z].kind
      /\ \A z \in Page \ {p, q, r} :
          /\ pg2[z].keys = pg[z].keys /\ pg2[z].next = pg[z].next /\ pg2[z].prev = pg[z].prev
  BY DEF NodesFollow
<1>4. Redistributes(T, U, p, q, r, j, a)
  BY DealtNodes
<1>5. IsTree(U, lev, new)
  <2> HIDE DEF T, U
  <2> QED BY <1>2, <1>4, RedistributeTree
<1>6. lo \in [Place -> Nat] /\ new \in [Place -> Nat]
  BY <1>2, <1>5 DEF IsTree, Ordered
<1>7. \A z \in Page : pg[z].kind = "leaf" => new[z] = lo[z]
  <2>1. \A z \in Place \ {q} : new[z] = lo[z]
    BY <1>6 DEF RedistributeLo
  <2> HIDE DEF new
  <2> QED BY <1>1, <2>1, Places
<1> HIDE DEF new
<1>8. \A z \in Page : pg[z].kind = "leaf" =>
         pg2[z].keys = pg[z].keys /\ pg2[z].next = pg[z].next /\ pg2[z].prev = pg[z].prev
  BY <1>1, <1>3
<1>9. Chain(U, new, s)
  BY <1>2, <1>3, <1>6, <1>7, <1>8, NodesChain
<1>10. Sound(U, stale, short)
  <2> HIDE DEF U
  <2>1. (s => stale) /\ (short => lev[0] <= 2)
    BY DEF Leaves
  <2>2. Chain(U, new, stale)
    BY <1>9, <2>1, ChainMore
  <2> QED BY <1>5, <2>1, <2>2 DEF Sound
<1>11. StoredIn(pg2) = StoredIn(pg)
  BY <1>3, <1>8, SameStored
<1> QED BY <1>1, <1>3, <1>10, <1>11 DEF Rebalanced

-----------------------------------------------------------------------------
(* A node borrows a child *)

\* What comes before a place, where it is in the second sequence or in the first.
Among(u, g, z) == \E i \in 1..g : z = u[i]

\* The elements before the cut are those of s and the first of t.
LEMMA FirstsLeft ==
    ASSUME NEW V, NEW s \in Seq(V), NEW t \in Seq(V), t # <<>>, NEW z
    PROVE  (\E i \in 1..Len(s) + 1 : z = (s \o t)[i]) <=> (z \in ToSet(s) \/ z = Head(t))
<1> DEFINE u == s \o t
           n == Len(s)
<1>1. ShiftedLeft(V, s, t, u, n)
  BY ShiftLeft
<1>2. u[n + 1] = Head(t) /\ n \in Nat
  BY <1>1, SeqPlaces DEF ShiftedLeft
<1>3. \A i \in 1..n : u[i] = s[i]
  BY JoinFacts DEF Joined
<1> HIDE DEF u
<1>4. ASSUME NEW i \in 1..n + 1, z = u[i] PROVE z \in ToSet(s) \/ z = Head(t)
  <2>1. CASE i = n + 1
    BY <1>2, <1>4, <2>1
  <2>2. CASE i # n + 1
    <3>1. i \in 1..n
      BY <1>2, <2>2
    <3>2. z = s[i]
      BY <1>3, <1>4, <3>1
    <3> QED BY <3>1, <3>2, SeqSet
  <2> QED BY <2>1, <2>2
<1>5. ASSUME z \in ToSet(s) PROVE \E i \in 1..n + 1 : z = u[i]
  <2>1. PICK i \in 1..n : z = s[i]
    BY <1>5, SeqSet
  <2>2. i \in 1..n + 1 /\ z = u[i]
    BY <1>2, <1>3, <2>1
  <2> QED BY <2>2
<1>6. ASSUME z = Head(t) PROVE \E i \in 1..n + 1 : z = u[i]
  <2>1. n + 1 \in 1..n + 1
    BY <1>2
  <2> QED BY <1>2, <1>6, <2>1
<1>7. (\E i \in 1..n + 1 : z = u[i]) <=> (z \in ToSet(s) \/ z = Head(t))
  BY <1>4, <1>5, <1>6
<1> QED BY <1>7 DEF u, n

\* The last element of a sequence is in no other place.
OnlyLast(s) == \A i \in 1..Len(s) : s[i] = Last(s) <=> i = Len(s)

\* The elements before the cut are those of s without its last.
LEMMA FirstsRight ==
    ASSUME NEW V, NEW s \in Seq(V), NEW t \in Seq(V), NEW g \in Nat, Len(s) = g + 1, OnlyLast(s), NEW z
    PROVE  Among(s \o t, g, z) <=> (z \in ToSet(s) /\ z # Last(s))
<1> DEFINE u == s \o t
           n == Len(s)
<1>2. n = g + 1 /\ n \in Nat
  OBVIOUS
<1>3. \A i \in 1..n : u[i] = s[i]
  BY JoinFacts DEF Joined
<1>4. \A i \in 1..n : s[i] = Last(s) <=> i = g + 1
  BY DEF OnlyLast
<1> HIDE DEF u, n
<1>5. ASSUME NEW i \in 1..g, z = u[i] PROVE z \in ToSet(s) /\ z # Last(s)
  <2>1. i \in 1..n /\ i # g + 1
    BY <1>2
  <2>2. z = s[i]
    BY <1>3, <1>5, <2>1
  <2>3. z # Last(s)
    BY <1>4, <2>1, <2>2
  <2>4. z \in ToSet(s)
    BY <2>1, <2>2, SeqSet DEF n
  <2> QED BY <2>3, <2>4
<1>6. ASSUME z \in ToSet(s), z # Last(s) PROVE \E i \in 1..g : z = u[i]
  <2>1. PICK i \in 1..n : z = s[i]
    BY <1>6, SeqSet DEF n
  <2>2. i # g + 1
    BY <1>4, <1>6, <2>1
  <2>3. i \in 1..g
    BY <1>2, <2>1, <2>2
  <2>4. z = u[i]
    BY <1>3, <2>1
  <2> QED BY <2>3, <2>4
<1>7. (\E i \in 1..g : z = u[i]) <=> (z \in ToSet(s) /\ z # Last(s))
  BY <1>5, <1>6
<1> QED BY <1>7 DEF u, Among

\* Nodes p, q and r become pn, qn and rn, and x the parent of page c.
NodesTake(pg, pg2, p, q, r, pn, qn, rn, c, x) ==
    /\ pg2 \in [Page -> Node] /\ pg2[p] = pn /\ pg2[q] = qn /\ pg2[r] = rn
    /\ \A z \in Page \ {p, q, r} :
          pg2[z] = IF z = c THEN [pg[z] EXCEPT !.parent = x] ELSE pg[z]

\* That is so after the assignments of the code.
LEMMA TakePages ==
    ASSUME NEW pg \in [Page -> Node], NEW p \in Page, NEW q \in Page, NEW r \in Page,
           p # q, p # r, q # r, NEW c \in Page, c # p, c # q, c # r, NEW x \in Page,
           NEW pn \in Node, NEW qn \in Node, NEW rn \in Node, NEW pg2,
           pg2 = [Adopted(pg, {c}, x) EXCEPT ![p] = pn, ![r] = rn, ![q] = qn]
    PROVE  NodesTake(pg, pg2, p, q, r, pn, qn, rn, c, x)
<1> DEFINE ad == Adopted(pg, {c}, x)
<1>1. ad \in [Page -> Node] /\ \A z \in Page : ad[z] = IF z \in {c} THEN [pg[z] EXCEPT !.parent = x] ELSE pg[z]
  BY AdoptedPages
<1>2. pg2 = [ad EXCEPT ![p] = pn, ![r] = rn, ![q] = qn]
  OBVIOUS
<1> HIDE DEF ad
<1>3. /\ pg2 \in [Page -> Node] /\ pg2[p] = pn /\ pg2[q] = qn /\ pg2[r] = rn
      /\ \A z \in Page \ {p, q, r} : pg2[z] = ad[z]
  BY <1>1, <1>2, SMTT(60)
<1>4. \A z \in Page \ {p, q, r} :
         pg2[z] = IF z = c THEN [pg[z] EXCEPT !.parent = x] ELSE pg[z]
  BY <1>1, <1>3
<1> QED BY <1>3, <1>4 DEF NodesTake

\* With x the parent of c, the children are below p up to place a + 1 and below q from there.
ParentsFollow(pg, p, q, c, x, a) ==
    \A z \in Page : pg[z].kind # "none" =>
        (IF z = c THEN x ELSE pg[z].parent) =
            IF \E i \in 1..a + 1 : z = PairChildren(pg, p, q)[i] THEN p
            ELSE IF pg[z].parent \in {p, q} THEN q ELSE pg[z].parent

\* The children follow, where c does.
LEMMA TakeFollows ==
    ASSUME NEW pg \in [Page -> Node], NEW p \in Page, NEW q \in Page, NEW r \in Page, NEW j,
           NodePair(pg, p, q, r, j), NEW pg2, NEW pn, NEW qn, NEW rn, NEW c \in Page, NEW x \in Page,
           NodesTake(pg, pg2, p, q, r, pn, qn, rn, c, x),
           pn.kind = "internal", pn.parent = r, qn.kind = "internal", qn.parent = r,
           rn.kind = "internal", rn.parent = pg[r].parent,
           c # p, c # q, c # r, pg[c].kind # "none", NEW a, ParentsFollow(pg, p, q, c, x, a)
    PROVE  NodesFollow(pg, pg2, p, q, r, a)
<1>1. /\ pg2 \in [Page -> Node] /\ pg2[p] = pn /\ pg2[q] = qn /\ pg2[r] = rn
      /\ \A z \in Page \ {p, q, r} :
            pg2[z] = IF z = c THEN [pg[z] EXCEPT !.parent = x] ELSE pg[z]
  BY DEF NodesTake
<1>2. /\ p # q /\ p # r /\ q # r
      /\ pg[p].kind = "internal" /\ pg[q].kind = "internal" /\ pg[r].kind = "internal"
  BY DEF NodePair
<1>3. ASSUME NEW z \in Page \ {p, q, r}
      PROVE  /\ pg2[z].kind = pg[z].kind /\ (pg[z].kind = "none" => pg2[z] = pg[z])
             /\ pg2[z].keys = pg[z].keys /\ pg2[z].child = pg[z].child
             /\ pg2[z].next = pg[z].next /\ pg2[z].prev = pg[z].prev
             /\ pg2[z].parent = IF z = c THEN x ELSE pg[z].parent
  <2>1. pg[z] \in Node
    OBVIOUS
  <2>2. CASE z = c
    <3>1. pg2[z] = [pg[z] EXCEPT !.parent = x]
      BY <1>1, <2>2
    <3> QED BY <2>1, <2>2, <3>1 DEF Node
  <2>3. CASE z # c
    <3>1. pg2[z] = pg[z]
      BY <1>1, <2>3
    <3> QED BY <2>3, <3>1
  <2> QED BY <2>2, <2>3
<1>4. \A z \in Page : pg2[z].kind = pg[z].kind /\ (pg[z].kind = "none" => pg2[z] = pg[z])
  BY <1>1, <1>2, <1>3
<1>5. \A z \in Page \ {p, q} : pg2[z].parent = IF z = c THEN x ELSE pg[z].parent
  BY <1>1, <1>2, <1>3
<1> DEFINE E(z) == \E i \in 1..a + 1 : z = PairChildren(pg, p, q)[i]
<1>6. \A z \in Page : pg[z].kind # "none" =>
              (IF z = c THEN x ELSE pg[z].parent) =
                 IF E(z) THEN p ELSE IF pg[z].parent \in {p, q} THEN q ELSE pg[z].parent
  BY DEF ParentsFollow
<1> HIDE DEF E
<1>7. \A z \in Page \ {p, q} : pg[z].kind # "none" => pg2[z].parent =
          IF E(z) THEN p ELSE IF pg[z].parent \in {p, q} THEN q ELSE pg[z].parent
  BY <1>5, <1>6
<1>8. \A z \in Page \ {p, q, r} :
          /\ pg2[z].keys = pg[z].keys /\ pg2[z].child = pg[z].child
          /\ pg2[z].next = pg[z].next /\ pg2[z].prev = pg[z].prev
  BY <1>3
<1>9. pg2[p].parent = r /\ pg2[q].parent = r
  BY <1>1
<1> QED BY <1>1, <1>4, <1>7, <1>8, <1>9 DEF NodesFollow, E

\* Assignments to the fields of two nodes and to a third node.
Assigned(ad, p, q, r, ks, cs, j, x, qn) ==
    [ad EXCEPT ![p].keys = ks, ![p].child = cs, ![r].keys[j] = x, ![q] = qn]

\* Node n with key j changed to x.
Rekeyed(n, j, x) == Changed(n, [n.keys EXCEPT ![j] = x], n.child)

\* The pages ad with new nodes at p, q and r.
Renewed(ad, p, q, r, pn, qn, rn) == [ad EXCEPT ![p] = pn, ![r] = rn, ![q] = qn]

\* The assignments make new nodes of these three.
LEMMA TakeExcept ==
    ASSUME NEW ad \in [Page -> Node], NEW p \in Page, NEW q \in Page, NEW r \in Page,
           p # q, p # r, q # r, NEW ks, NEW cs, NEW j, NEW x, NEW qn
    PROVE  Assigned(ad, p, q, r, ks, cs, j, x, qn) =
           Renewed(ad, p, q, r, Changed(ad[p], ks, cs), qn, Rekeyed(ad[r], j, x))
<1> DEFINE pn == Changed(ad[p], ks, cs)
           rn == Changed(ad[r], [ad[r].keys EXCEPT ![j] = x], ad[r].child)
<1>1. [ad EXCEPT ![p].keys = ks, ![p].child = cs] = [ad EXCEPT ![p] = pn]
  BY DEF Changed
<1>2. rn = [ad[r] EXCEPT !.keys = [@ EXCEPT ![j] = x]]
  <2>1. ad[r] \in Node
    OBVIOUS
  <2> DEFINE k2 == [ad[r].keys EXCEPT ![j] = x]
  <2>2. [ad[r] EXCEPT !.keys = [@ EXCEPT ![j] = x]] = [ad[r] EXCEPT !.keys = k2]
    OBVIOUS
  <2> HIDE DEF k2
  <2>3. [ad[r] EXCEPT !.keys = k2, !.child = ad[r].child] = [ad[r] EXCEPT !.keys = k2]
    BY <2>1 DEF Node
  <2> QED BY <2>2, <2>3 DEF Changed, k2
<1> DEFINE f == [ad EXCEPT ![p].keys = ks, ![p].child = cs]
<1>3. f[r] = ad[r] /\ DOMAIN f = Page
  BY <1>1
<1>4. [ad EXCEPT ![p].keys = ks, ![p].child = cs, ![r].keys[j] = x, ![q] = qn] =
      [[f EXCEPT ![r].keys[j] = x] EXCEPT ![q] = qn]
  BY ONLY Zenon
<1> HIDE DEF f
<1>5. [f EXCEPT ![r].keys[j] = x] = [f EXCEPT ![r] = rn]
  <2>1. [f EXCEPT ![r].keys[j] = x] = [f EXCEPT ![r] = [f[r] EXCEPT !.keys = [@ EXCEPT ![j] = x]]]
    BY <1>3
  <2> QED BY <1>2, <1>3, <2>1
<1> HIDE DEF rn, pn
<1>6. [ad EXCEPT ![p].keys = ks, ![p].child = cs, ![r].keys[j] = x, ![q] = qn] =
      [[[ad EXCEPT ![p] = pn] EXCEPT ![r] = rn] EXCEPT ![q] = qn]
  BY ONLY <1>1, <1>4, <1>5 DEF f
<1>7. [[[ad EXCEPT ![p] = pn] EXCEPT ![r] = rn] EXCEPT ![q] = qn] =
      [ad EXCEPT ![p] = pn, ![r] = rn, ![q] = qn]
  OBVIOUS
<1> QED BY ONLY <1>6, <1>7 DEF pn, rn, Assigned, Renewed, Rekeyed

\* What borrowing from the next node and from the previous one make of the pages.
LendUpNext(pg, p, q, r, j) ==
    [Adopted(pg, {Head(pg[q].child)}, p) EXCEPT
        ![p].keys = Append(@, pg[r].keys[j]), ![p].child = Append(@, Head(pg[q].child)),
        ![r].keys[j] = Head(pg[q].keys), ![q] = WithoutChild(@, 1)]

\* What borrowing from the previous node makes of the pages.
LendUpPrev(pg, p, q, r, j) ==
    [Adopted(pg, {Last(pg[q].child)}, p) EXCEPT
        ![p].keys = <<pg[r].keys[j]>> \o @, ![p].child = <<Last(pg[q].child)>> \o @,
        ![r].keys[j] = Last(pg[q].keys), ![q] = WithoutChild(@, Len(@.child))]

\* Borrowing from the next node, node by node.
LEMMA LendUpNextIs ==
    ASSUME NEW pg \in [Page -> Node], NEW p \in Page, NEW q \in Page, NEW r \in Page,
           p # q, p # r, q # r, NEW j, NEW c, c = Head(pg[q].child), c \in Page, c # p, c # q, c # r
    PROVE  LendUpNext(pg, p, q, r, j) = Renewed(Adopted(pg, {c}, p), p, q, r,
              Changed(pg[p], Append(pg[p].keys, pg[r].keys[j]), Append(pg[p].child, c)),
              WithoutChild(pg[q], 1), Rekeyed(pg[r], j, Head(pg[q].keys)))
<1> DEFINE ad == Adopted(pg, {c}, p)
           y == pg[r].keys[j]
           x == Head(pg[q].keys)
           W(n) == WithoutChild(n, 1)
<1>1. ad \in [Page -> Node] /\ \A z \in Page : ad[z] = IF z \in {c} THEN [pg[z] EXCEPT !.parent = p] ELSE pg[z]
  BY AdoptedPages, SMTT(60)
<1>2. LendUpNext(pg, p, q, r, j) =
        [ad EXCEPT ![p].keys = Append(@, y), ![p].child = Append(@, c), ![r].keys[j] = x, ![q] = W(@)]
  BY DEF LendUpNext
<1> HIDE DEF ad, y, x, W
<1>3. ad[p] = pg[p] /\ ad[q] = pg[q] /\ ad[r] = pg[r]
  BY <1>1
<1>4. [ad EXCEPT ![p].keys = Append(@, y), ![p].child = Append(@, c), ![r].keys[j] = x, ![q] = W(@)] =
      [ad EXCEPT ![p].keys = Append(ad[p].keys, y), ![p].child = Append(ad[p].child, c),
                 ![r].keys[j] = x, ![q] = W(ad[q])]
  BY ONLY Zenon
<1> DEFINE ks == Append(pg[p].keys, y)
           cs == Append(pg[p].child, c)
           qn == W(pg[q])
<1>5. LendUpNext(pg, p, q, r, j) = [ad EXCEPT ![p].keys = ks, ![p].child = cs, ![r].keys[j] = x, ![q] = qn]
  BY ONLY <1>2, <1>3, <1>4
<1> HIDE DEF ks, cs, qn
<1>6. Assigned(ad, p, q, r, ks, cs, j, x, qn) =
      Renewed(ad, p, q, r, Changed(ad[p], ks, cs), qn, Rekeyed(ad[r], j, x))
  BY <1>1, TakeExcept
<1>7. LendUpNext(pg, p, q, r, j) =
      [ad EXCEPT ![p] = Changed(pg[p], ks, cs),
                 ![r] = Changed(pg[r], [pg[r].keys EXCEPT ![j] = x], pg[r].child), ![q] = qn]
  BY ONLY <1>3, <1>5, <1>6 DEF Assigned, Renewed, Rekeyed
<1> QED BY ONLY <1>7 DEF ks, cs, qn, W, x, y, ad, Renewed, Rekeyed

\* c is the last child of node q, and node p has the keys k1 and the children c1 with it.
TakesLast(pg, p, q, r, j, c, k1, c1) ==
    /\ c = Last(pg[q].child) /\ c \in Page /\ c # p /\ c # q /\ c # r
    /\ k1 = <<pg[r].keys[j]>> \o pg[p].keys /\ c1 = <<c>> \o pg[p].child

\* Borrowing from the previous node, node by node.
LEMMA LendUpPrevIs ==
    ASSUME NEW pg \in [Page -> Node], NEW p \in Page, NEW q \in Page, NEW r \in Page,
           p # q, p # r, q # r, NEW j, NEW c, NEW k1, NEW c1, TakesLast(pg, p, q, r, j, c, k1, c1)
    PROVE  LendUpPrev(pg, p, q, r, j) = Renewed(Adopted(pg, {c}, p), p, q, r,
              Changed(pg[p], k1, c1),
              WithoutChild(pg[q], Len(pg[q].child)), Rekeyed(pg[r], j, Last(pg[q].keys)))
<1>0. /\ c = Last(pg[q].child) /\ c \in Page /\ c # p /\ c # q /\ c # r
      /\ k1 = <<pg[r].keys[j]>> \o pg[p].keys /\ c1 = <<c>> \o pg[p].child
  BY DEF TakesLast
<1> DEFINE ad == Adopted(pg, {c}, p)
           y == pg[r].keys[j]
           x == Last(pg[q].keys)
           W(n) == WithoutChild(n, Len(n.child))
<1>1. ad \in [Page -> Node] /\ \A z \in Page : ad[z] = IF z \in {c} THEN [pg[z] EXCEPT !.parent = p] ELSE pg[z]
  <2> DEFINE C == {c}
  <2> HIDE DEF C
  <2>1. /\ Adopted(pg, C, p) \in [Page -> Node]
        /\ \A z \in Page : Adopted(pg, C, p)[z] = IF z \in C THEN [pg[z] EXCEPT !.parent = p] ELSE pg[z]
    BY AdoptedPages
  <2> QED BY ONLY <2>1 DEF C, ad
<1>2. LendUpPrev(pg, p, q, r, j) =
        [ad EXCEPT ![p].keys = <<y>> \o @, ![p].child = <<c>> \o @, ![r].keys[j] = x, ![q] = W(@)]
  BY <1>0 DEF LendUpPrev
<1> HIDE DEF ad, y, x, W
<1>3. ad[p] = pg[p] /\ ad[q] = pg[q] /\ ad[r] = pg[r]
  BY <1>0, <1>1
<1>4. [ad EXCEPT ![p].keys = <<y>> \o @, ![p].child = <<c>> \o @, ![r].keys[j] = x, ![q] = W(@)] =
      [ad EXCEPT ![p].keys = <<y>> \o ad[p].keys, ![p].child = <<c>> \o ad[p].child,
                 ![r].keys[j] = x, ![q] = W(ad[q])]
  BY ONLY Zenon
<1> DEFINE ks == <<y>> \o pg[p].keys
           cs == <<c>> \o pg[p].child
           qn == W(pg[q])
<1>5. LendUpPrev(pg, p, q, r, j) = [ad EXCEPT ![p].keys = ks, ![p].child = cs, ![r].keys[j] = x, ![q] = qn]
  BY ONLY <1>2, <1>3, <1>4
<1> HIDE DEF ks, cs, qn
<1>6. Assigned(ad, p, q, r, ks, cs, j, x, qn) =
      Renewed(ad, p, q, r, Changed(ad[p], ks, cs), qn, Rekeyed(ad[r], j, x))
  BY <1>1, TakeExcept
<1>7. LendUpPrev(pg, p, q, r, j) =
      [ad EXCEPT ![p] = Changed(pg[p], ks, cs),
                 ![r] = Changed(pg[r], [pg[r].keys EXCEPT ![j] = x], pg[r].child), ![q] = qn]
  BY ONLY <1>3, <1>5, <1>6 DEF Assigned, Renewed, Rekeyed
<1>8. k1 = ks /\ c1 = cs
  BY <1>0 DEF ks, cs, y
<1> QED BY ONLY <1>7, <1>8 DEF qn, W, x, ad, Renewed, Rekeyed

\* The first and the last child of a node go.
LEMMA FirstGone ==
    ASSUME NEW n, Fields(n)
    PROVE  WithoutChild(n, 1) = Changed(n, RemoveAt(n.keys, 1), RemoveAt(n.child, 1))
<1> DEFINE ks == RemoveAt(n.keys, 1)
           cs == RemoveAt(n.child, 1)
<1>1. WithoutChild(n, 1) = [n EXCEPT !.child = cs, !.keys = ks]
  <2>1. (IF 1 = 1 THEN 1 ELSE 1 - 1) = 1
    OBVIOUS
  <2> QED BY ONLY <2>1 DEF WithoutChild, ks, cs
<1>2. n \in Node
  BY DEF Fields
<1> HIDE DEF ks, cs
<1>3. [n EXCEPT !.child = cs, !.keys = ks] = [n EXCEPT !.keys = ks, !.child = cs]
  BY <1>2 DEF Node
<1>4. WithoutChild(n, 1) = Changed(n, ks, cs)
  BY <1>1, <1>3 DEF Changed
<1> QED BY <1>4 DEF ks, cs

\* A node without its last child.
LEMMA LastGone ==
    ASSUME NEW n, Fields(n), NEW m \in Nat, Len(n.keys) = m + 1
    PROVE  WithoutChild(n, Len(n.child)) = Changed(n, RemoveAt(n.keys, m + 1), RemoveAt(n.child, (m + 1) + 1))
<1>1. n \in Node /\ Len(n.child) = Len(n.keys) + 1
  BY DEF Fields
<1> DEFINE j == m + 1
<1>2. j \in 1..Len(n.keys) /\ Len(n.child) = j + 1
  BY <1>1
<1> HIDE DEF j
<1>3. WithoutChild(n, j + 1) = [n EXCEPT !.keys = RemoveAt(@, j), !.child = RemoveAt(@, j + 1)]
  BY <1>1, <1>2, ChildGone
<1>4. WithoutChild(n, j + 1) = Changed(n, RemoveAt(n.keys, j), RemoveAt(n.child, j + 1))
  BY <1>3 DEF Changed
<1> QED BY <1>2, <1>4 DEF j

\* A separator that is another key.
LEMMA RekeyedFacts ==
    ASSUME NEW n, Fields(n), NEW j \in 1..Len(n.keys), NEW x \in Key
    PROVE  /\ Rekeyed(n, j, x) \in Node /\ Rekeyed(n, j, x).kind = "internal"
           /\ Rekeyed(n, j, x).parent = n.parent /\ Rekeyed(n, j, x).child = n.child
           /\ Rekeyed(n, j, x).keys = [n.keys EXCEPT ![j] = x]
<1> DEFINE ks == [n.keys EXCEPT ![j] = x]
<1>1. n.keys \in Seq(Key) /\ n.child \in Seq(Page)
  BY DEF Fields
<1>2. ks \in Seq(Key)
  BY <1>1, OtherKey
<1> HIDE DEF ks
<1>3. /\ Changed(n, ks, n.child) \in Node
      /\ Changed(n, ks, n.child).kind = "internal" /\ Changed(n, ks, n.child).parent = n.parent
      /\ Changed(n, ks, n.child).keys = ks /\ Changed(n, ks, n.child).child = n.child
  BY <1>1, <1>2, NodeChanged
<1>4. Rekeyed(n, j, x) = Changed(n, ks, n.child)
  BY DEF Rekeyed, ks
<1> QED BY <1>3, <1>4 DEF ks

\* A child of one of two neighbours is none of the three nodes.
LEMMA ChildElse ==
    ASSUME NEW pg, NEW a, NEW b, NEW r, NEW j, NodePair(pg, a, b, r, j),
           NEW x \in {a, b}, NEW c \in Page, c \in ToSet(pg[x].child)
    PROVE  c # a /\ c # b /\ c # r /\ pg[c].kind # "none" /\ pg[c].parent = x
<1>1. /\ a # b /\ a # r /\ b # r /\ pg[a].parent = r /\ pg[b].parent = r
      /\ pg[r].parent # a /\ pg[r].parent # b /\ Kids(pg, a) /\ Kids(pg, b)
  BY DEF NodePair
<1>2. pg[c].kind # "none" /\ pg[c].parent = x
  BY <1>1 DEF Kids
<1> QED BY <1>1, <1>2

\* Node p borrows the first child of the next node q.
LEMMA NextDealt ==
    ASSUME NEW pg \in [Page -> Node], NEW p, NEW q, NEW r, NEW j, NodePair(pg, p, q, r, j),
           Fields(pg[p]), Fields(pg[q]), Fields(pg[r]), 1 \in 1..Len(pg[q].keys),
           NEW pg2, pg2 = LendUpNext(pg, p, q, r, j), NEW a, a = Len(pg[p].keys) + 1
    PROVE  NodesDealt(pg, pg2, p, q, r, j, a) /\ NodesFollow(pg, pg2, p, q, r, a)
<1> DEFINE pk == pg[p].keys
           pc == pg[p].child
           qk == pg[q].keys
           qc == pg[q].child
           y == pg[r].keys[j]
           x == Head(qk)
           c == Head(qc)
           k1 == Append(pk, y)
           c1 == Append(pc, c)
           pn == Changed(pg[p], k1, c1)
           qn == Changed(pg[q], RemoveAt(qk, 1), RemoveAt(qc, 1))
           rn == Rekeyed(pg[r], j, x)
           ks == PairKeysOf(pg, p, q, r, j)
           cs == PairChildren(pg, p, q)
<1>1. /\ p \in Page /\ q \in Page /\ r \in Page /\ p # q /\ p # r /\ q # r
      /\ pg[p].parent = r /\ pg[q].parent = r /\ j \in 1..Len(pg[r].keys)
      /\ Kids(pg, p) /\ Kids(pg, q)
  BY DEF NodePair
<1>2. /\ pk \in Seq(Key) /\ pc \in Seq(Page) /\ qk \in Seq(Key) /\ qc \in Seq(Page)
      /\ Len(pk) \in Nat /\ Len(qk) \in Nat /\ Len(pc) = Len(pk) + 1 /\ Len(qc) = Len(qk) + 1
      /\ pg[r].keys \in Seq(Key)
  BY DEF Fields
<1>3. y \in Key /\ k1 \in Seq(Key) /\ Len(k1) = a /\ a = Len(pc)
  <2>1. y \in Key
    BY <1>1, <1>2, KeySeq
  <2> HIDE DEF y, pk, pc
  <2> QED BY <1>2, <2>1 DEF pk
<1>4. ks = k1 \o qk /\ cs = pc \o qc
  BY DEF PairKeysOf, PairChildren
<1>5. qk # <<>> /\ qc # <<>> /\ Len(qk) >= 1 /\ a \in Nat \ {0}
  <2>1. Len(qk) >= 1
    BY <1>2
  <2> HIDE DEF qk, qc, pk
  <2> QED BY <1>2, <2>1 DEF pk
<1> HIDE DEF pk, pc, qk, qc, y, x, k1, c, ks, cs
<1>6. ShiftedLeft(Key, k1, qk, ks, a)
  BY <1>2, <1>3, <1>4, <1>5, ShiftLeft
<1>7. ShiftedLeft(Page, pc, qc, cs, a)
  BY <1>2, <1>3, <1>4, <1>5, ShiftLeft
<1>8. /\ SubSeq(ks, 1, a) = k1 /\ ks[a + 1] = x /\ SubSeq(ks, a + 2, Len(ks)) = RemoveAt(qk, 1)
      /\ Len(ks) = a + Len(qk) /\ x \in Key /\ RemoveAt(qk, 1) \in Seq(Key)
  BY <1>6 DEF ShiftedLeft, x
<1>9. /\ SubSeq(cs, 1, a + 1) = c1 /\ SubSeq(cs, a + 2, Len(cs)) = RemoveAt(qc, 1)
      /\ c \in Page /\ c1 \in Seq(Page) /\ RemoveAt(qc, 1) \in Seq(Page)
  BY <1>7 DEF ShiftedLeft, c, c1
<1> HIDE DEF c1
<1>10. c \in ToSet(qc)
  <2>1. 1 \in 1..Len(qc) /\ c = qc[1]
    BY <1>2, <1>5 DEF c
  <2> QED BY <1>2, <2>1, SeqSet
<1>11. c # p /\ c # q /\ c # r /\ pg[c].kind # "none" /\ pg[c].parent = q
  BY <1>9, <1>10, ChildElse DEF qc
<1>12. /\ pn \in Node /\ pn.kind = "internal" /\ pn.parent = r /\ pn.keys = k1 /\ pn.child = c1
  BY <1>1, <1>3, <1>9, NodeChanged
<1>13. /\ qn \in Node /\ qn.kind = "internal" /\ qn.parent = r
       /\ qn.keys = RemoveAt(qk, 1) /\ qn.child = RemoveAt(qc, 1)
  BY <1>1, <1>8, <1>9, NodeChanged
<1>14. /\ rn \in Node /\ rn.kind = "internal" /\ rn.parent = pg[r].parent
       /\ rn.child = pg[r].child /\ rn.keys = [pg[r].keys EXCEPT ![j] = x]
  BY <1>1, <1>8, RekeyedFacts
<1>15. pg2 = [Adopted(pg, {c}, p) EXCEPT ![p] = pn, ![r] = rn, ![q] = qn]
  <2>1. c = Head(pg[q].child)
    BY DEF c, qc
  <2>2. LendUpNext(pg, p, q, r, j) = Renewed(Adopted(pg, {c}, p), p, q, r,
              Changed(pg[p], Append(pg[p].keys, pg[r].keys[j]), Append(pg[p].child, c)),
              WithoutChild(pg[q], 1), Rekeyed(pg[r], j, Head(pg[q].keys)))
    BY <1>1, <1>9, <1>11, <2>1, LendUpNextIs, SMTT(60)
  <2>3. WithoutChild(pg[q], 1) = qn
    BY FirstGone DEF qk, qc
  <2> QED BY ONLY <2>2, <2>3, pg2 = LendUpNext(pg, p, q, r, j) DEF Renewed, rn, pn, k1, c1, pk, pc, x, qk, y
<1> HIDE DEF pn, qn, rn
<1>16. NodesTake(pg, pg2, p, q, r, pn, qn, rn, c, p)
  BY <1>1, <1>9, <1>11, <1>12, <1>13, <1>14, <1>15, TakePages
<1>17. pg2[p] = pn /\ pg2[q] = qn /\ pg2[r] = rn
  BY <1>16 DEF NodesTake
<1>18. a + 1 \in 1..Len(ks)
  BY <1>2, <1>5, <1>8, SMTT(60)
<1>19. NodesDealt(pg, pg2, p, q, r, j, a)
  <2>1. /\ a \in Nat \ {0} /\ a + 1 \in 1..Len(ks)
        /\ pg2[p].keys = SubSeq(ks, 1, a) /\ pg2[p].child = SubSeq(cs, 1, a + 1)
        /\ pg2[q].keys = SubSeq(ks, a + 2, Len(ks)) /\ pg2[q].child = SubSeq(cs, a + 2, Len(cs))
        /\ pg2[r].keys = [pg[r].keys EXCEPT ![j] = ks[a + 1]] /\ pg2[r].child = pg[r].child
    BY <1>5, <1>8, <1>9, <1>12, <1>13, <1>14, <1>17, <1>18
  <2> QED BY ONLY <2>1 DEF NodesDealt, ks, cs
<1>20. ASSUME NEW z \in Page, pg[z].kind # "none"
       PROVE  (IF z = c THEN p ELSE pg[z].parent) =
                 IF \E i \in 1..a + 1 : z = cs[i] THEN p
                 ELSE IF pg[z].parent \in {p, q} THEN q ELSE pg[z].parent
  <2>1. (\E i \in 1..a + 1 : z = cs[i]) <=> (z \in ToSet(pc) \/ z = c)
    <3>1. (\E i \in 1..Len(pc) + 1 : z = (pc \o qc)[i]) <=> (z \in ToSet(pc) \/ z = Head(qc))
      BY <1>2, <1>5, FirstsLeft
    <3> QED BY ONLY <3>1, <1>3, <1>4 DEF c
  <2>2. z \in ToSet(pc) <=> pg[z].parent = p
    BY <1>1, <1>20, KidsElse DEF pc
  <2> DEFINE E == \E i \in 1..a + 1 : z = cs[i]
  <2>3. E <=> (pg[z].parent = p \/ z = c)
    BY <2>1, <2>2
  <2> HIDE DEF E
  <2>4. (IF z = c THEN p ELSE pg[z].parent) =
           IF E THEN p ELSE IF pg[z].parent \in {p, q} THEN q ELSE pg[z].parent
    BY <2>3
  <2> QED BY <2>4 DEF E
<1>21. NodesFollow(pg, pg2, p, q, r, a)
  <2>1. ParentsFollow(pg, p, q, c, p, a)
    BY <1>20 DEF ParentsFollow, cs
  <2> QED BY <1>1, <1>9, <1>11, <1>12, <1>13, <1>14, <1>16, <2>1, TakeFollows, SMTT(60)
<1> QED BY <1>19, <1>21

\* Node p borrows the last child of the node v before it.
LEMMA PrevDealt ==
    ASSUME NEW pg \in [Page -> Node], NEW v, NEW p, NEW r, NEW j, NodePair(pg, v, p, r, j),
           Fields(pg[v]), Fields(pg[p]), Fields(pg[r]),
           NEW a \in Nat, a # 0, Len(pg[v].keys) = a + 1,
           OnlyLast(pg[v].child),
           NEW pg2, pg2 = LendUpPrev(pg, p, v, r, j)
    PROVE  NodesDealt(pg, pg2, v, p, r, j, a) /\ NodesFollow(pg, pg2, v, p, r, a)
<1> DEFINE pk == pg[p].keys
           pc == pg[p].child
           vk == pg[v].keys
           vc == pg[v].child
           y == pg[r].keys[j]
           x == Last(vk)
           c == Last(vc)
           k1 == <<y>> \o pk
           c1 == <<c>> \o pc
           b == a + 1
           k2 == RemoveAt(vk, b)
           c2 == RemoveAt(vc, b + 1)
           pn == Changed(pg[p], k1, c1)
           vn == Changed(pg[v], k2, c2)
           rn == Rekeyed(pg[r], j, x)
           ks == PairKeysOf(pg, v, p, r, j)
           cs == PairChildren(pg, v, p)
<1>1. /\ p \in Page /\ v \in Page /\ r \in Page /\ p # v /\ p # r /\ v # r
      /\ pg[p].parent = r /\ pg[v].parent = r /\ j \in 1..Len(pg[r].keys)
      /\ Kids(pg, p) /\ Kids(pg, v)
  BY DEF NodePair
<1>2. /\ pk \in Seq(Key) /\ pc \in Seq(Page) /\ vk \in Seq(Key) /\ vc \in Seq(Page)
      /\ Len(pk) \in Nat /\ Len(vk) = b /\ Len(vc) = b + 1 /\ b \in Nat
      /\ pg[r].keys \in Seq(Key)
  BY DEF Fields
<1>3. y \in Key
  BY <1>1, <1>2, KeySeq
<1>4. ks = vk \o k1 /\ k1 \in Seq(Key) /\ cs = vc \o pc
  <2>1. Append(vk, y) \o pk = vk \o (<<y>> \o pk) /\ <<y>> \o pk \in Seq(Key)
    <3> HIDE DEF vk, y, pk
    <3> QED BY <1>2, <1>3, KeyBetween
  <2> QED BY <2>1 DEF PairKeysOf, PairChildren
<1>5. OnlyLast(vc)
  OBVIOUS
<1>6. b = a + 1 /\ b + 1 = a + 2 /\ b # 0
  OBVIOUS
<1> HIDE DEF pk, pc, vk, vc, y, x, k1, c1, c, ks, cs, b, k2, c2
<1>7. ShiftedRight(Key, vk, k1, ks, a)
  BY <1>2, <1>4, <1>6, ShiftRight
<1>8. ShiftedRight(Page, vc, pc, cs, b)
  BY <1>2, <1>4, ShiftRight
<1>9. /\ SubSeq(ks, 1, a) = k2 /\ ks[a + 1] = x /\ SubSeq(ks, a + 2, Len(ks)) = k1
      /\ Len(ks) = b + Len(k1) /\ x \in Key /\ k2 \in Seq(Key)
  BY <1>6, <1>7 DEF ShiftedRight, x, k2
<1>10. /\ SubSeq(cs, 1, a + 1) = c2 /\ SubSeq(cs, a + 2, Len(cs)) = c1
       /\ c \in Page /\ c1 \in Seq(Page) /\ c2 \in Seq(Page)
  BY <1>6, <1>8 DEF ShiftedRight, c, c1, c2
<1>11. c \in ToSet(vc)
  <2>1. b + 1 \in 1..Len(vc)
    BY <1>2
  <2>2. vc[b + 1] = c
    BY <1>2 DEF c, Last
  <2> QED BY <1>2, <2>1, <2>2, SeqSet
<1>12. c # p /\ c # v /\ c # r /\ pg[c].kind # "none" /\ pg[c].parent = v
  BY <1>10, <1>11, ChildElse DEF vc
<1>13. /\ pn \in Node /\ pn.kind = "internal" /\ pn.parent = r /\ pn.keys = k1 /\ pn.child = c1
  BY <1>1, <1>4, <1>10, NodeChanged
<1>14. /\ vn \in Node /\ vn.kind = "internal" /\ vn.parent = r /\ vn.keys = k2 /\ vn.child = c2
  BY <1>1, <1>9, <1>10, NodeChanged
<1>15. /\ rn \in Node /\ rn.kind = "internal" /\ rn.parent = pg[r].parent
       /\ rn.child = pg[r].child /\ rn.keys = [pg[r].keys EXCEPT ![j] = x]
  BY <1>1, <1>9, RekeyedFacts
<1>16. pg2 = [Adopted(pg, {c}, p) EXCEPT ![p] = pn, ![r] = rn, ![v] = vn]
  <2>1. c = Last(pg[v].child)
    BY DEF c, vc
  <2>4. k1 = <<pg[r].keys[j]>> \o pg[p].keys /\ c1 = <<c>> \o pg[p].child
    BY DEF k1, c1, pk, pc, y
  <2>5. TakesLast(pg, p, v, r, j, c, k1, c1)
    BY <1>10, <1>12, <2>1, <2>4 DEF TakesLast
  <2>2. LendUpPrev(pg, p, v, r, j) = Renewed(Adopted(pg, {c}, p), p, v, r,
              Changed(pg[p], k1, c1),
              WithoutChild(pg[v], Len(pg[v].child)), Rekeyed(pg[r], j, Last(pg[v].keys)))
    BY <1>1, <2>5, LendUpPrevIs
  <2>3. WithoutChild(pg[v], Len(pg[v].child)) = vn
    BY LastGone DEF vk, vc, k2, c2, b
  <2> QED BY ONLY <2>2, <2>3, pg2 = LendUpPrev(pg, p, v, r, j) DEF Renewed, rn, pn, x, vk
<1> HIDE DEF pn, vn, rn
<1>17. NodesTake(pg, pg2, p, v, r, pn, vn, rn, c, p)
  BY <1>1, <1>10, <1>12, <1>13, <1>14, <1>15, <1>16, TakePages
<1>18. /\ pg2 \in [Page -> Node] /\ pg2[p] = pn /\ pg2[v] = vn /\ pg2[r] = rn
       /\ \A z \in Page \ {p, v, r} :
             pg2[z] = IF z = c THEN [pg[z] EXCEPT !.parent = p] ELSE pg[z]
  BY <1>17 DEF NodesTake
<1>19. NodesTake(pg, pg2, v, p, r, vn, pn, rn, c, p)
  BY <1>18 DEF NodesTake
<1>20. a + 1 \in 1..Len(ks)
  <2>1. Len(k1) \in Nat
    BY <1>4, SeqPlaces
  <2> QED BY <1>2, <1>6, <1>9, <2>1
<1>21. NodesDealt(pg, pg2, v, p, r, j, a)
  <2>1. /\ a \in Nat \ {0} /\ a + 1 \in 1..Len(ks)
        /\ pg2[v].keys = SubSeq(ks, 1, a) /\ pg2[v].child = SubSeq(cs, 1, a + 1)
        /\ pg2[p].keys = SubSeq(ks, a + 2, Len(ks)) /\ pg2[p].child = SubSeq(cs, a + 2, Len(cs))
        /\ pg2[r].keys = [pg[r].keys EXCEPT ![j] = ks[a + 1]] /\ pg2[r].child = pg[r].child
    BY <1>9, <1>10, <1>13, <1>14, <1>15, <1>18, <1>20
  <2> QED BY ONLY <2>1 DEF NodesDealt, ks, cs
<1>22. ASSUME NEW z \in Page, pg[z].kind # "none"
       PROVE  (IF z = c THEN p ELSE pg[z].parent) =
                 IF \E i \in 1..a + 1 : z = cs[i] THEN v
                 ELSE IF pg[z].parent \in {v, p} THEN p ELSE pg[z].parent
  <2>1. (\E i \in 1..b : z = cs[i]) <=> (z \in ToSet(vc) /\ z # c)
    <3>2. Among(vc \o pc, b, z) <=> (z \in ToSet(vc) /\ z # Last(vc))
      BY ONLY <1>2, <1>5, FirstsRight
    <3> QED BY ONLY <3>2, <1>4 DEF c, Among
  <2>2. z \in ToSet(vc) <=> pg[z].parent = v
    BY <1>1, <1>22, KidsElse DEF vc
  <2> DEFINE E == \E i \in 1..a + 1 : z = cs[i]
  <2>3. E <=> (pg[z].parent = v /\ z # c)
    BY ONLY <1>6, <2>1, <2>2
  <2> HIDE DEF E
  <2>4. (IF z = c THEN p ELSE pg[z].parent) =
           IF E THEN v ELSE IF pg[z].parent \in {v, p} THEN p ELSE pg[z].parent
    BY <1>12, <2>3
  <2> QED BY <2>4 DEF E
<1>23. NodesFollow(pg, pg2, v, p, r, a)
  <2>1. ParentsFollow(pg, v, p, c, p, a)
    BY <1>22 DEF ParentsFollow, cs
  <2> QED BY <1>1, <1>10, <1>12, <1>13, <1>14, <1>15, <1>19, <2>1, TakeFollows, SMTT(60)
<1> QED BY <1>21, <1>23

\* The neighbours of child i of a node, where there are any.
NextOf(n, i) == IF i < Len(n.child) THEN n.child[i + 1] ELSE NoPage

\* The child before child i, where there is one.
PrevOf(n, i) == IF i > 1 THEN n.child[i - 1] ELSE NoPage

\* The branches of rebalancing a node above the leaves.
LEMMA RebalanceInternalCases ==
    ASSUME NEW pg, NEW p, NEW r, r = pg[p].parent, NEW i, i = Count(pg[r].keys, Head(pg[p].keys)) + 1,
           NEW q, q = NextOf(pg[r], i), NEW v, v = PrevOf(pg[r], i),
           NEW res, res = RebalanceInternal(pg, p)
    PROVE  \/ q # NoPage /\ Rich(pg, q) /\ res = Result(LendUpNext(pg, p, q, r, i), NoPage)
           \/ v # NoPage /\ Rich(pg, v) /\ res = Result(LendUpPrev(pg, p, v, r, i - 1), NoPage)
           \/ q # NoPage /\ res = Result(MergeInternals(pg, p, q, i + 1), q)
           \/ v # NoPage /\ res = Result(MergeInternals(pg, v, p, i), p)
           \/ res = Result(pg, NoPage)
<1> DEFINE NR == q # NoPage /\ Rich(pg, q)
           PR == v # NoPage /\ Rich(pg, v)
<1>1. res = CASE NR -> Result(LendUpNext(pg, p, q, r, i), NoPage)
              [] ~NR /\ PR -> Result(LendUpPrev(pg, p, v, r, i - 1), NoPage)
              [] ~NR /\ ~PR /\ q # NoPage -> Result(MergeInternals(pg, p, q, i + 1), q)
              [] q = NoPage /\ ~PR /\ v # NoPage -> Result(MergeInternals(pg, v, p, i), p)
              [] OTHER -> Result(pg, NoPage)
  BY Zenon DEF RebalanceInternal, LendUpNext, LendUpPrev, NextOf, PrevOf
<1>2. CASE NR
  <2>1. res = Result(LendUpNext(pg, p, q, r, i), NoPage)
    BY <1>1, <1>2
  <2> QED BY <1>2, <2>1
<1>3. CASE ~NR /\ PR
  <2>1. res = Result(LendUpPrev(pg, p, v, r, i - 1), NoPage)
    BY <1>1, <1>3
  <2> QED BY <1>3, <2>1
<1>4. CASE ~NR /\ ~PR /\ q # NoPage
  <2>1. res = Result(MergeInternals(pg, p, q, i + 1), q)
    BY <1>1, <1>4
  <2> QED BY <1>4, <2>1
<1>5. CASE ~NR /\ ~PR /\ q = NoPage /\ v # NoPage
  <2>1. res = Result(MergeInternals(pg, v, p, i), p)
    BY <1>1, <1>5
  <2> QED BY <1>5, <2>1
<1>6. CASE ~NR /\ ~PR /\ q = NoPage /\ v = NoPage
  <2>1. res = Result(pg, NoPage)
    BY <1>1, <1>6
  <2> QED BY <2>1
<1> QED BY <1>2, <1>3, <1>4, <1>5, <1>6

\* A node that can lend has three keys or more.
LEMMA RichNode ==
    ASSUME Ordinary, NEW pg, NEW q, Fields(pg[q]), Rich(pg, q)
    PROVE  Len(pg[q].keys) > 2
<1> DEFINE l == Len(pg[q].child)
           n == Len(pg[q].keys)
<1>1. l * EntrySize > MinimumUsed
  BY DEF Rich, Used, Fields
<1>2. EntrySize \in Nat /\ MaximumUsed \in Nat /\ MinimumUsed = MaximumUsed \div 2 /\ 3 * EntrySize <= MinimumUsed
  BY SizeAssumption DEF MinimumUsed, Ordinary
<1>3. MinimumUsed \in Nat
  BY <1>2
<1>4. n \in Nat /\ l = n + 1
  BY DEF Fields
<1> HIDE DEF l, n
<1>5. n # 0
  <2>1. SUFFICES ASSUME n = 0 PROVE FALSE
    OBVIOUS
  <2>2. l = 1
    BY <1>4, <2>1
  <2> QED BY <1>1, <1>2, <1>3, <2>2
<1>6. n # 1
  <2>1. SUFFICES ASSUME n = 1 PROVE FALSE
    OBVIOUS
  <2>2. l = 2
    BY <1>4, <2>1
  <2> QED BY <1>1, <1>2, <1>3, <2>2
<1>7. n # 2
  <2>1. SUFFICES ASSUME n = 2 PROVE FALSE
    OBVIOUS
  <2>2. l = 3
    BY <1>4, <2>1
  <2> QED BY <1>1, <1>2, <1>3, <2>2
<1>8. n > 2
  BY <1>4, <1>5, <1>6, <1>7
<1> QED BY <1>8 DEF n

\* Where a node that is not the root and has a key is in its parent.
LEMMA NodeSite ==
    ASSUME NEW pg, NEW rt, NEW lev, NEW lo, NEW s, TreePages(pg, rt, lev, lo, s),
           NEW p \in Page, pg[p].kind = "internal", p # rt, pg[p].keys # <<>>,
           NEW r, r = pg[p].parent, NEW i, i = Count(pg[r].keys, Head(pg[p].keys)) + 1
    PROVE  /\ r \in Page /\ pg[r].kind = "internal" /\ i \in Nat /\ ChildAt(pg, r, i, p) /\ Fields(pg[r])
<1> DEFINE T == TreeOf(pg, rt)
           k == Head(pg[p].keys)
           c == Count(pg[r].keys, k)
<1>1. pg \in [Page -> Node] /\ IsTree(T, lev, lo)
  BY DEF TreePages
<1>2. r \in Page /\ pg[r].kind = "internal"
  BY <1>1, PageParent
<1>3. \A z \in Page : T[z] = pg[z]
  BY ONLY TreeFacts
<1> HIDE DEF T
<1>4. KeyOf(pg, lo, p, k)
  <2> DEFINE ks == pg[p].keys
  <2>1. pg[p] \in Node
    BY <1>1
  <2>2. ks \in Seq(Key) /\ ks # <<>>
    BY <2>1 DEF Node
  <2> HIDE DEF ks
  <2>3. 1 \in 1..Len(ks) /\ Head(ks) = ks[1]
    BY ONLY <2>2
  <2>4. ks[1] \in Nat
    BY <2>2, <2>3, KeySeq
  <2>5. k \in Nat /\ k = ks[1]
    BY <2>3, <2>4 DEF ks
  <2>6. \E h \in 1..Len(pg[p].keys) : k = pg[p].keys[h]
    BY <2>3, <2>5 DEF ks
  <2> HIDE DEF k
  <2> QED BY <2>5, <2>6 DEF KeyOf
<1>5. i = c + 1
  OBVIOUS
<1> HIDE DEF c, k
<1>6. ChildAt(pg, r, c + 1, p) /\ c \in Nat
  <2>1. r # NoPage
    BY <1>2 DEF NoPage, Page
  <2>2. c = Count(pg[r].keys, k)
    BY DEF c
  <2>3. pg[p].kind # "none"
    OBVIOUS
  <2> QED BY <1>4, <2>1, <2>2, <2>3, EntryBegins
<1>7. Fields(pg[r])
  <2>1. pg[r] \in Node /\ T[r] = pg[r]
    BY <1>1, <1>2, <1>3
  <2>2. Len(pg[r].child) = Len(pg[r].keys) + 1
    BY <1>1, <1>2, <2>1, Places DEF IsTree, Shaped
  <2>3. pg[r].keys \in Seq(Key) /\ pg[r].child \in Seq(Page)
    BY <2>1 DEF Node
  <2> QED BY <1>2, <2>1, <2>2, <2>3, SeqPlaces DEF Fields
<1>8. i \in Nat /\ ChildAt(pg, r, i, p)
  BY <1>5, <1>6
<1> QED BY <1>2, <1>7, <1>8

\* Its neighbours there, where it has any.
LEMMA NextNode ==
    ASSUME NEW pg, NEW rt, NEW lev, NEW lo, NEW s, TreePages(pg, rt, lev, lo, s),
           NEW p \in Page, pg[p].kind = "internal", NEW r \in Page, pg[r].kind = "internal",
           Fields(pg[r]), NEW i \in Nat, ChildAt(pg, r, i, p), NEW q, q = NextOf(pg[r], i), q # NoPage
    PROVE  NodePair(pg, p, q, r, i) /\ Fields(pg[p]) /\ Fields(pg[q])
<1>1. i < Len(pg[r].child) /\ q = pg[r].child[i + 1]
  BY DEF NextOf
<1>2. i \in 1..Len(pg[r].keys)
  BY <1>1 DEF ChildAt, Fields
<1>3. pg[r].child[i + 1] = q
  BY <1>1
<1> QED BY <1>2, <1>3, NodePairs

\* The node before it is such a neighbour.
LEMMA PrevNode ==
    ASSUME NEW pg, NEW rt, NEW lev, NEW lo, NEW s, TreePages(pg, rt, lev, lo, s),
           NEW p \in Page, pg[p].kind = "internal", NEW r \in Page, pg[r].kind = "internal",
           Fields(pg[r]), NEW i \in Nat, ChildAt(pg, r, i, p), NEW v, v = PrevOf(pg[r], i), v # NoPage
    PROVE  NodePair(pg, v, p, r, i - 1) /\ Fields(pg[v]) /\ Fields(pg[p])
<1> DEFINE h == i - 1
<1>1. i > 1 /\ v = pg[r].child[h] /\ i \in 1..Len(pg[r].child)
  BY DEF PrevOf, ChildAt
<1>2. h \in 1..Len(pg[r].keys) /\ h \in 1..Len(pg[r].child) /\ h + 1 = i
  BY <1>1 DEF Fields
<1> HIDE DEF h
<1>3. ChildAt(pg, r, h, v) /\ pg[r].child[h + 1] = p
  BY <1>1, <1>2 DEF ChildAt
<1>4. pg[v].kind = "internal"
  <2> DEFINE T == TreeOf(pg, rt)
  <2>1. \A z \in Page : T[z] = pg[z]
    BY ONLY TreeFacts
  <2> HIDE DEF T
  <2>2. IsTree(T, lev, lo) /\ T[r] = pg[r] /\ r \in Place /\ T[r].kind = "internal" /\ T[p] = pg[p]
    BY <2>1, Places DEF TreePages, T
  <2>3. h \in Int /\ 1 <= h /\ h <= Len(T[r].child) /\ i \in Int /\ 1 <= i /\ i <= Len(T[r].child)
    BY <1>1, <1>2, <2>2 DEF Fields
  <2>4. T[r].child[h] \in Page /\ T[T[r].child[h]].kind # "none" /\ lev[T[r].child[h]] + 1 = lev[r]
    BY <2>2, <2>3, ChildFacts
  <2>5. T[r].child[i] \in Page /\ lev[T[r].child[i]] + 1 = lev[r]
    BY <2>2, <2>3, ChildFacts
  <2>6. v \in Page /\ T[v].kind # "none" /\ lev[v] + 1 = lev[r] /\ lev[p] + 1 = lev[r]
    BY <1>1, <1>2, <1>3, <2>2, <2>4, <2>5
  <2>7. lev \in [Place -> Nat] /\ v \in Place /\ p \in Place /\ lev[p] \in Nat /\ lev[v] \in Nat
    BY <2>2, <2>6, Places DEF IsTree, Family
  <2>8. lev[p] # 0
    <3>1. lev[p] > 0
      BY <2>2, <2>7, UpperNodes DEF IsTree
    <3> QED BY <2>7, <3>1
  <2>9. lev[v] # 0
    BY <2>6, <2>7, <2>8
  <2>10. T[v].kind # "leaf"
    BY <2>2, <2>7, <2>9 DEF IsTree, Family
  <2>11. T[v].kind \in {"none", "leaf", "internal"}
    BY <2>2, <2>7, NodeFields DEF IsTree
  <2> QED BY <2>1, <2>6, <2>10, <2>11
<1>5. NodePair(pg, v, p, r, h) /\ Fields(pg[v]) /\ Fields(pg[p])
  BY <1>2, <1>3, <1>4, NodePairs
<1> QED BY <1>5 DEF h

\* A node borrows from the next one, or from the one before it.
LEMMA LendUpNextRebalanced ==
    ASSUME Ordinary, NEW pg, NEW rt, NEW lev, NEW lo, NEW s, TreePages(pg, rt, lev, lo, s),
           NEW stale, NEW short, Leaves(s, stale, short, lev),
           NEW p, NEW q, NEW r, NEW j, NodePair(pg, p, q, r, j),
           Fields(pg[p]), Fields(pg[q]), Fields(pg[r]), Rich(pg, q)
    PROVE  Rebalanced(pg, LendUpNext(pg, p, q, r, j), NoPage, r, rt, stale, short)
<1> DEFINE pg2 == LendUpNext(pg, p, q, r, j)
           a == Len(pg[p].keys) + 1
<1>1. pg \in [Page -> Node]
  BY DEF TreePages
<1>2. 1 \in 1..Len(pg[q].keys)
  <2>1. Len(pg[q].keys) > 2 /\ Len(pg[q].keys) \in Nat
    BY RichNode DEF Fields
  <2> QED BY <2>1
<1>3. pg2 = LendUpNext(pg, p, q, r, j) /\ a = Len(pg[p].keys) + 1
  OBVIOUS
<1> HIDE DEF pg2, a
<1>4. NodesDealt(pg, pg2, p, q, r, j, a) /\ NodesFollow(pg, pg2, p, q, r, a)
  BY <1>1, <1>2, <1>3, NextDealt
<1>5. Rebalanced(pg, pg2, NoPage, r, rt, stale, short)
  BY <1>4, DealtRebalanced
<1> QED BY <1>5 DEF pg2

\* A node that borrows from the one before it leaves a tree.
LEMMA LendUpPrevRebalanced ==
    ASSUME Ordinary, NEW pg, NEW rt, NEW lev, NEW lo, NEW s, TreePages(pg, rt, lev, lo, s),
           NEW stale, NEW short, Leaves(s, stale, short, lev),
           NEW v, NEW p, NEW r, NEW j, NodePair(pg, v, p, r, j),
           Fields(pg[v]), Fields(pg[p]), Fields(pg[r]), Rich(pg, v)
    PROVE  Rebalanced(pg, LendUpPrev(pg, p, v, r, j), NoPage, r, rt, stale, short)
<1> DEFINE pg2 == LendUpPrev(pg, p, v, r, j)
           m == Len(pg[v].keys)
           a == m - 1
<1>1. pg \in [Page -> Node] /\ IsTree(TreeOf(pg, rt), lev, lo)
  BY DEF TreePages
<1>2. m > 2 /\ m \in Nat /\ Len(pg[v].child) = m + 1
  BY RichNode DEF Fields
<1>3. a \in Nat /\ a # 0 /\ m = a + 1
  <2>1. m \in Nat /\ m > 2 /\ a = m - 1
    BY <1>2
  <2> HIDE DEF m, a
  <2> QED BY <2>1
<1>4. pg2 = LendUpPrev(pg, p, v, r, j)
  OBVIOUS
<1>5. OnlyLast(pg[v].child)
  <2> DEFINE q == Last(pg[v].child)
             b == m
  <2>1. q = pg[v].child[b + 1] /\ b \in 1..Len(pg[v].keys)
    BY <1>2 DEF Last
  <2>2. v \in Page /\ pg[v].kind = "internal"
    BY DEF NodePair
  <2>3. Len(pg[v].child) = b + 1
    BY <1>2
  <2> HIDE DEF b, q
  <2>4. OnlyPlace(pg, v, b, q)
    BY <1>1, <2>1, <2>2, PlaceOnly
  <2>5. \A i \in 1..Len(pg[v].child) : pg[v].child[i] = q <=> i = b + 1
    BY <2>4 DEF OnlyPlace
  <2> QED BY ONLY <2>3, <2>5 DEF OnlyLast, q
<1>6. Len(pg[v].keys) = a + 1
  BY <1>3
<1> HIDE DEF pg2, a, m
<1>7. NodesDealt(pg, pg2, v, p, r, j, a) /\ NodesFollow(pg, pg2, v, p, r, a)
  BY <1>1, <1>3, <1>4, <1>5, <1>6, PrevDealt
<1>8. Rebalanced(pg, pg2, NoPage, r, rt, stale, short)
  BY <1>7, DealtRebalanced
<1> QED BY <1>8 DEF pg2

\* Two nodes become one.
LEMMA MergeUpRebalanced ==
    ASSUME NEW pg, NEW rt, NEW lev, NEW lo, NEW s, TreePages(pg, rt, lev, lo, s),
           NEW stale, NEW short, Leaves(s, stale, short, lev),
           NEW a, NEW b, NEW r, NEW j, NodePair(pg, a, b, r, j),
           Fields(pg[a]), Fields(pg[b]), Fields(pg[r])
    PROVE  b \in Page /\ Rebalanced(pg, FreePage(MergeInternals(pg, a, b, j + 1), b), b, r, rt, stale, short)
<1> DEFINE pg2 == FreePage(MergeInternals(pg, a, b, j + 1), b)
<1>1. pg \in [Page -> Node]
  BY DEF TreePages
<1>2. pg2 = FreePage(MergeInternals(pg, a, b, j + 1), b)
  OBVIOUS
<1> HIDE DEF pg2
<1>3. NodesJoined(pg, pg2, a, b, r, j)
  BY <1>1, <1>2, MergeInternalsPages
<1>4. Rebalanced(pg, pg2, b, r, rt, stale, short)
  BY <1>3, NodesRebalanced
<1>5. b \in Page
  BY DEF NodePair
<1> QED BY <1>4, <1>5 DEF pg2

\* A node that uses too little is rebalanced.
LEMMA NodeRebalanced ==
    ASSUME Ordinary, NEW pg, NEW rt, NEW lev, NEW lo, NEW s, TreePages(pg, rt, lev, lo, s),
           NEW stale, NEW short, Leaves(s, stale, short, lev),
           NEW p \in Page, pg[p].kind = "internal", p # rt, pg[p].keys # <<>>
    PROVE  Settled(pg, RebalanceInternal(pg, p), pg[p].parent, rt, stale, short)
<1> DEFINE r == pg[p].parent
           i == Count(pg[r].keys, Head(pg[p].keys)) + 1
           q == NextOf(pg[r], i)
           v == PrevOf(pg[r], i)
           res == RebalanceInternal(pg, p)
<1>1. /\ r \in Page /\ pg[r].kind = "internal" /\ i \in Nat /\ ChildAt(pg, r, i, p) /\ Fields(pg[r])
  <2>1. r = pg[p].parent /\ i = Count(pg[r].keys, Head(pg[p].keys)) + 1
    OBVIOUS
  <2> HIDE DEF r, i
  <2> QED BY <2>1, NodeSite
<1>2. \/ q # NoPage /\ Rich(pg, q) /\ res = Result(LendUpNext(pg, p, q, r, i), NoPage)
      \/ v # NoPage /\ Rich(pg, v) /\ res = Result(LendUpPrev(pg, p, v, r, i - 1), NoPage)
      \/ q # NoPage /\ res = Result(MergeInternals(pg, p, q, i + 1), q)
      \/ v # NoPage /\ res = Result(MergeInternals(pg, v, p, i), p)
      \/ res = Result(pg, NoPage)
  <2>1. r = pg[p].parent /\ i = Count(pg[r].keys, Head(pg[p].keys)) + 1
        /\ q = NextOf(pg[r], i) /\ v = PrevOf(pg[r], i) /\ res = RebalanceInternal(pg, p)
    OBVIOUS
  <2> HIDE DEF r, i, q, v, res
  <2> QED BY <2>1, RebalanceInternalCases
<1>3. q = NextOf(pg[r], i) /\ v = PrevOf(pg[r], i)
  OBVIOUS
<1> HIDE DEF r, i, q, v, res
<1>4. q # NoPage => NodePair(pg, p, q, r, i) /\ Fields(pg[p]) /\ Fields(pg[q])
  BY <1>1, <1>3, NextNode
<1>5. v # NoPage => NodePair(pg, v, p, r, i - 1) /\ Fields(pg[v]) /\ Fields(pg[p])
  BY <1>1, <1>3, PrevNode
<1>6. ASSUME q # NoPage, Rich(pg, q), res = Result(LendUpNext(pg, p, q, r, i), NoPage)
      PROVE  Settled(pg, res, r, rt, stale, short)
  <2>1. Rebalanced(pg, LendUpNext(pg, p, q, r, i), NoPage, r, rt, stale, short)
    BY <1>1, <1>4, <1>6, LendUpNextRebalanced
  <2> QED BY <1>6, <2>1, SettledKept
<1>7. ASSUME v # NoPage, Rich(pg, v), res = Result(LendUpPrev(pg, p, v, r, i - 1), NoPage)
      PROVE  Settled(pg, res, r, rt, stale, short)
  <2> DEFINE h == i - 1
  <2>1. NodePair(pg, v, p, r, h) /\ Fields(pg[v]) /\ Fields(pg[p]) /\ res = Result(LendUpPrev(pg, p, v, r, h), NoPage)
    BY <1>5, <1>7
  <2> HIDE DEF h
  <2>2. Rebalanced(pg, LendUpPrev(pg, p, v, r, h), NoPage, r, rt, stale, short)
    BY <1>1, <1>7, <2>1, LendUpPrevRebalanced
  <2> QED BY <2>1, <2>2, SettledKept
<1>8. ASSUME q # NoPage, res = Result(MergeInternals(pg, p, q, i + 1), q)
      PROVE  Settled(pg, res, r, rt, stale, short)
  <2> DEFINE m == MergeInternals(pg, p, q, i + 1)
  <2>1. q \in Page /\ Rebalanced(pg, FreePage(m, q), q, r, rt, stale, short)
    BY <1>1, <1>4, <1>8, MergeUpRebalanced
  <2>2. res = Result(m, q)
    BY <1>8
  <2> HIDE DEF m
  <2> QED BY <2>1, <2>2, SettledFreed
<1>9. ASSUME v # NoPage, res = Result(MergeInternals(pg, v, p, i), p)
      PROVE  Settled(pg, res, r, rt, stale, short)
  <2> DEFINE h == i - 1
             m == MergeInternals(pg, v, p, h + 1)
  <2>1. NodePair(pg, v, p, r, h) /\ Fields(pg[v]) /\ Fields(pg[p])
    BY <1>5, <1>9
  <2>2. h + 1 = i
    BY <1>1
  <2> HIDE DEF h
  <2>3. p \in Page /\ Rebalanced(pg, FreePage(m, p), p, r, rt, stale, short)
    BY <1>1, <2>1, MergeUpRebalanced
  <2>4. res = Result(m, p)
    BY <1>9, <2>2
  <2> HIDE DEF m
  <2> QED BY <2>3, <2>4, SettledFreed
<1>10. ASSUME res = Result(pg, NoPage) PROVE Settled(pg, res, r, rt, stale, short)
  <2>1. Rebalanced(pg, pg, NoPage, r, rt, stale, short)
    BY <1>1, NoneRebalanced
  <2> QED BY <1>10, <2>1, SettledKept
<1>11. Settled(pg, res, r, rt, stale, short)
  BY <1>2, <1>6, <1>7, <1>8, <1>9, <1>10
<1> QED BY <1>11 DEF r, res

\* A node of the tree and its fields.
LEMMA NodeIs ==
    ASSUME NEW pg, NEW rt, NEW lev, NEW lo, NEW s, TreePages(pg, rt, lev, lo, s),
           NEW p \in Page, pg[p].kind = "internal"
    PROVE  Fields(pg[p])
<1> DEFINE T == TreeOf(pg, rt)
<1>1. pg \in [Page -> Node] /\ Shaped(T)
  BY DEF TreePages, IsTree
<1>2. \A z \in Page : T[z] = pg[z]
  BY ONLY TreeFacts
<1> HIDE DEF T
<1>3. T[p] = pg[p] /\ p \in Place
  BY <1>2, Places
<1>4. pg[p].keys \in Seq(Key) /\ pg[p].child \in Seq(Page) /\ Len(pg[p].keys) \in Nat
  BY <1>1, <1>3, NodeFields
<1>5. Len(pg[p].child) = Len(pg[p].keys) + 1
  BY <1>1, <1>3 DEF Shaped
<1>6. pg[p] \in Node
  BY <1>1
<1> QED BY <1>4, <1>5, <1>6 DEF Fields

\* A node keeps its number of keys when one of them is renewed.
LEMMA NodeLeftKeys ==
    ASSUME NEW pg, NEW pg2, NEW rt, NEW lev, NEW lo, NEW s, TreePages(pg, rt, lev, lo, s),
           NodeLeft(pg, pg2, rt, lev, s),
           NEW p \in Page, pg[p].kind = "internal", pg[p].keys # <<>>
    PROVE  pg2[p].keys # <<>>
<1>1. PICK new : TreePages(pg2, rt, lev, new, s)
  BY DEF NodeLeft
<1>2. pg2[p].kind = "internal" /\ pg2[p].child = pg[p].child
  BY DEF NodeLeft
<1>3. Fields(pg[p]) /\ Fields(pg2[p])
  BY <1>1, <1>2, NodeIs
<1> DEFINE m == Len(pg[p].keys)
           n == Len(pg2[p].keys)
           w == Len(pg[p].child)
<1>4. m \in Nat /\ n \in Nat /\ w = m + 1 /\ w = n + 1
  BY <1>2, <1>3 DEF Fields
<1>5. m # 0
  BY <1>3 DEF Fields
<1> HIDE DEF m, n, w
<1>6. n # 0
  BY <1>4, <1>5
<1>7. pg2[p].keys = <<>> => n = 0
  BY DEF n
<1> QED BY <1>6, <1>7

\* What a level above the leaves comes to.
NodeResult(pg, p) ==
    IF Used(pg[p]) < MinimumUsed /\ p # root THEN RebalanceInternal(pg, p) ELSE Result(pg, NoPage)

\* MendNode stops, or settles the level and goes up.
LEMMA MendCases ==
    ASSUME MendNode, NEW p, p = task.node, NEW k, k = task.key, NEW pg, pg = Relabelled(p, k)
    PROVE  \/ Stop
           \/ ~MendFails(p, k) /\ Settle(NodeResult(pg, p)) /\ task' = Mend(k, page[p].parent)
BY DEF MendNode, NodeResult

\* A level above the leaves leaves the counts as they are.
LEMMA MendCounts ==
    ASSUME TypeOK, Live, root' = root, nPage' = nPage, phase' = phase, count' = count
    PROVE  Counted
<1>1. /\ phase \in {"short", "tall", "shrunk"}
      /\ count \in [load: 0..Max(Loads), puts: 0..MaxPuts, ops: 0..MaxOps]
  BY TypeParts
<1>2. phase = "shrunk" => count.ops # 0
  BY DEF Live, TaskFits
<1> QED BY <1>1, <1>2 DEF Counted

\* The node and the key that a mending task is about.
LEMMA MendTask ==
    ASSUME TypeOK, Live, task.op = "mend"
    PROVE  /\ task.key \in Key /\ task.node \in Page /\ page[task.node].kind = "internal"
           /\ task.op # "link"
<1>1. task \in Task
  BY TypeParts
<1>2. page[task.node].kind = "internal"
  BY DEF Live, TaskFits
<1> QED BY <1>1, <1>2 DEF Task, Rest, Failed

\* The tree after a level above the leaves that does not fail.
LEMMA NodeSettles ==
    ASSUME Ordinary, NEW pg, NEW p \in Page, page[p].kind = "internal", NEW lev, NEW lo, NEW s,
           TreePages(page, root, lev, lo, s), NodeLeft(page, pg, root, lev, s),
           NEW stale, NEW short, Leaves(s, stale, short, lev),
           p = root \/ page[p].keys # <<>>, NEW res, res = NodeResult(pg, p)
    PROVE  Settles(pg, res, root, stale, short) /\ GoesUp(res, page[p].parent)
<1> DEFINE r == page[p].parent
<1>1. PICK new : TreePages(pg, root, lev, new, s)
  BY DEF NodeLeft
<1>2. \A q \in Page : pg[q].kind = page[q].kind /\ pg[q].parent = page[q].parent
  BY DEF NodeLeft
<1>3. pg[p].kind = "internal" /\ pg[p].parent = r
  BY <1>2
<1> HIDE DEF r
<1>4. r # NoPage => r \in Page /\ pg[r].kind = "internal"
  BY <1>1, <1>3, ParentUp
<1>5. ASSUME res = RebalanceInternal(pg, p), p # root
      PROVE  Settles(pg, res, root, stale, short) /\ GoesUp(res, r)
  <2>0. pg[p].keys # <<>>
    BY <1>5, NodeLeftKeys
  <2>1. Settled(pg, RebalanceInternal(pg, p), pg[p].parent, root, stale, short)
    BY <1>1, <1>3, <1>5, <2>0, NodeRebalanced
  <2>2. Settled(pg, res, r, root, stale, short)
    BY <1>3, <1>5, <2>1
  <2>3. r \in Page
    <3>1. pg \in [Page -> Node] /\ IsTree(TreeOf(pg, root), lev, new)
      BY <1>1 DEF TreePages
    <3> QED BY <1>3, <1>5, <3>1, PageParent
  <2> QED BY <2>2, <2>3, SettledGoes
<1>6. ASSUME res = Result(pg, NoPage)
      PROVE  Settles(pg, res, root, stale, short) /\ GoesUp(res, r)
  <2>1. Settles(pg, res, root, stale, short) /\ After(res) = pg
    BY <1>1, <1>6, NoneSettles
  <2>2. GoesUp(res, r)
    BY <1>4, <2>1 DEF GoesUp
  <2> QED BY <2>1, <2>2
<1>7. (res = RebalanceInternal(pg, p) /\ p # root) \/ res = Result(pg, NoPage)
  BY DEF NodeResult
<1>8. Settles(pg, res, root, stale, short) /\ GoesUp(res, r)
  BY <1>5, <1>6, <1>7
<1> QED BY <1>8 DEF r

\* A level above the leaves leaves the keys as they are, or stops.
LEMMA MendNodeStep ==
    ASSUME TypeOK, Live, Ordinary, MendNode
    PROVE  TypeOK' /\ Live' /\ StoredIn(page') = StoredIn(page)
<1> DEFINE p == task.node
           k == task.key
           pg == Relabelled(p, k)
           res == NodeResult(pg, p)
           stale == phase' = "shrunk"
           short == phase' = "short"
<1>1. /\ task.op = "mend" /\ root' = root /\ nPage' = nPage /\ phase' = phase /\ count' = count
  BY DEF MendNode
<1>2. k \in Key /\ p \in Page /\ page[p].kind = "internal" /\ task.op # "link"
  BY <1>1, MendTask
<1>3. Stop \/ (~MendFails(p, k) /\ Settle(res) /\ task' = Mend(k, page[p].parent))
  BY MendCases
<1>4. Counted
  BY <1>1, MendCounts
<1>5. CASE Stop
  BY <1>1, <1>2, <1>4, <1>5, StopArrives
<1>6. CASE ~MendFails(p, k) /\ Settle(res) /\ task' = Mend(k, page[p].parent)
  <2>1. PICK lev, lo : /\ TreePages(page, root, lev, lo, phase = "shrunk")
                       /\ phase = "short" => lev[0] <= 2
    BY <1>2, LiveTree
  <2> DEFINE s == phase = "shrunk"
  <2>2. Leaves(s, stale, short, lev)
    BY <1>1, <2>1 DEF Leaves
  <2>3. TreePages(page, root, lev, lo, s)
    BY <2>1
  <2>4. p = root \/ page[p].keys # <<>>
    BY <1>6 DEF MendFails
  <2> HIDE DEF s, stale, short, p, k
  <2>5. NodeLeft(page, pg, root, lev, s)
    BY <1>2, <1>6, <2>3, RelabelledLeft
  <2> HIDE DEF pg
  <2>6. Settles(pg, res, root, stale, short) /\ GoesUp(res, page[p].parent)
    BY <1>2, <2>2, <2>3, <2>4, <2>5, NodeSettles
  <2> HIDE DEF res
  <2>7. \A q \in Page : pg[q].kind = page[q].kind
    BY <2>5 DEF NodeLeft
  <2>8. TypeOK' /\ Live' /\ StoredIn(page') = StoredIn(pg)
    <3>1. Settles(pg, res, root, phase' = "shrunk", phase' = "short")
      BY <2>6 DEF stale, short
    <3>2. Settle(res) /\ task' = Mend(k, page[p].parent) /\ GoesUp(res, page[p].parent)
      BY <1>6, <2>6
    <3> QED BY <1>2, <1>4, <2>7, <3>1, <3>2, SettleArrives
  <2>9. StoredIn(pg) = StoredIn(page)
    BY <2>5 DEF NodeLeft
  <2> QED BY <2>8, <2>9
<1> QED BY <1>3, <1>5, <1>6

-----------------------------------------------------------------------------
(* The root goes *)

\* The pages pg2 are the pages pg without the root rt, whose only child is c.
Collapsed(pg, pg2, rt, c) ==
    /\ rt \in Page /\ c \in Page /\ c # rt /\ pg[rt].kind = "internal"
    /\ pg[rt].keys = <<>> /\ pg[rt].child = <<c>>
    /\ pg2 \in [Page -> Node] /\ pg2[rt] = NoNode
    /\ pg2[c] = [pg[c] EXCEPT !.parent = NoPage]
    /\ \A q \in Page \ {rt, c} : pg2[q] = pg[q]

\* The only child of the root is not the root.
LEMMA RootChild ==
    ASSUME NEW pg, NEW rt, NEW lev, NEW lo, NEW s, TreePages(pg, rt, lev, lo, s),
           pg[rt].kind = "internal", Len(pg[rt].child) = 1, NEW c, c = Head(pg[rt].child)
    PROVE  /\ rt \in Page /\ c \in Page /\ c # rt /\ pg[rt].keys = <<>> /\ pg[rt].child = <<c>>
           /\ pg[c].kind # "none"
<1> DEFINE T == TreeOf(pg, rt)
           ch == pg[rt].child
           ks == pg[rt].keys
<1>1. rt \in Page /\ IsTree(T, lev, lo)
  BY DEF TreePages
<1>2. Fields(pg[rt])
  BY <1>1, NodeIs
<1>3. ch \in Seq(Page) /\ Len(ch) = 1 /\ ks \in Seq(Key) /\ Len(ch) = Len(ks) + 1 /\ Len(ks) \in Nat
  BY <1>2 DEF Fields
<1>4. c = Head(ch)
  OBVIOUS
<1> HIDE DEF ch, ks
<1>5. ch = <<c>> /\ c = ch[1] /\ c \in Page /\ ks = <<>>
  <2>1. ch # <<>>
    BY ONLY <1>3
  <2>2. ch = <<c>> /\ c \in Page /\ c = ch[1]
    BY ONLY <1>3, <1>4, <2>1
  <2>3. Len(ks) = 0
    <3> DEFINE m == Len(ks)
               n == Len(ch)
    <3>1. m \in Nat /\ n = 1 /\ n = m + 1
      BY <1>3
    <3> HIDE DEF m, n
    <3>2. m = 0
      BY ONLY <3>1
    <3> QED BY <3>2 DEF m
  <2>4. ks = <<>>
    BY ONLY <1>3, <2>3
  <2> QED BY <2>2, <2>4
<1>6. \A q \in Page : T[q] = pg[q]
  BY ONLY TreeFacts
<1> HIDE DEF T
<1>7. Under(T, lev, rt, c)
  <2>1. T[rt].kind = "internal" /\ T[rt].child = ch /\ rt \in Place
    BY <1>1, <1>6, Places DEF ch
  <2>2. 1 \in 1..Len(ch)
    BY <1>3
  <2>3. \A i \in 1..Len(T[rt].child) : Under(T, lev, rt, T[rt].child[i])
    BY <1>1, <2>1 DEF IsTree, Family
  <2>4. Under(T, lev, rt, ch[1])
    BY <2>1, <2>2, <2>3
  <2> QED BY <1>5, <2>4
<1>8. T[c].kind # "none" /\ lev[c] + 1 = lev[rt] /\ lev[c] \in Nat
  <2>1. lev \in [Place -> Nat]
    BY <1>1 DEF IsTree, Family
  <2>2. lev[c] \in Nat
    BY <1>5, <2>1, Places
  <2> QED BY <1>7, <2>2 DEF Under
<1>9. c # rt
  <2> DEFINE a == lev[c]
             b == lev[rt]
  <2>1. a + 1 = b /\ a \in Nat
    BY <1>8
  <2>2. c = rt => a = b
    OBVIOUS
  <2> HIDE DEF a, b
  <2> QED BY <2>1, <2>2
<1> QED BY <1>1, <1>5, <1>6, <1>8, <1>9 DEF ch, ks

\* The pages of the program after the root has gone.
LEMMA CollapsedPages ==
    ASSUME NEW pg \in [Page -> Node], NEW rt \in Page, NEW c \in Page, c # rt, pg[rt].kind = "internal",
           pg[rt].keys = <<>>, pg[rt].child = <<c>>,
           NEW pg2, pg2 = FreePage([pg EXCEPT ![c].parent = NoPage], rt)
    PROVE  Collapsed(pg, pg2, rt, c)
<1> DEFINE d == [pg[c] EXCEPT !.parent = NoPage]
<1>1. pg2 = [[pg EXCEPT ![c] = d] EXCEPT ![rt] = NoNode]
  BY Zenon DEF FreePage
<1>2. d \in Node
  BY DEF Node, PageOrNone
<1>3. NoNode \in Node
  BY DEF NoNode, Node, PageOrNone
<1> HIDE DEF d
<1>4. pg2 \in [Page -> Node] /\ pg2[rt] = NoNode /\ pg2[c] = d /\ \A q \in Page \ {rt, c} : pg2[q] = pg[q]
  BY <1>1, <1>2, <1>3
<1> QED BY <1>4 DEF Collapsed, d

\* They are the pages of a tree that has collapsed.
LEMMA CollapsedCollapses ==
    ASSUME NEW pg, NEW rt, NEW lev, NEW lo, NEW s, TreePages(pg, rt, lev, lo, s),
           NEW pg2, NEW c, Collapsed(pg, pg2, rt, c)
    PROVE  Collapses(TreeOf(pg, rt), TreeOf(pg2, c), rt)
<1> DEFINE T == TreeOf(pg, rt)
           U == TreeOf(pg2, c)
<1>1. pg \in [Page -> Node] /\ IsTree(T, lev, lo)
  BY DEF TreePages
<1>2. /\ rt \in Page /\ c \in Page /\ c # rt /\ pg[rt].kind = "internal"
      /\ pg[rt].keys = <<>> /\ pg[rt].child = <<c>>
      /\ pg2 \in [Page -> Node] /\ pg2[rt] = NoNode
      /\ pg2[c] = [pg[c] EXCEPT !.parent = NoPage]
      /\ \A q \in Page \ {rt, c} : pg2[q] = pg[q]
  BY DEF Collapsed
<1>3. (\A q \in Page : T[q] = pg[q]) /\ T[0].child = <<rt>> /\ T[0].keys = <<>>
  <2>1. \A q \in Page : T[q] = pg[q]
    BY ONLY TreeFacts
  <2>2. T[0].child = <<rt>> /\ T[0].keys = <<>>
    BY ONLY TreeFacts
  <2> QED BY <2>1, <2>2
<1>4. (\A q \in Page : U[q] = pg2[q]) /\ U[0] = Internal(<<>>, <<c>>, NoPage)
  <2>1. \A q \in Page : U[q] = pg2[q]
    BY ONLY TreeFacts
  <2>2. U[0] = Internal(<<>>, <<c>>, NoPage)
    BY ONLY TreeFacts
  <2> QED BY <2>1, <2>2
<1>5. U \in [Place -> Node]
  BY <1>2, TreeFacts
<1> HIDE DEF T, U
<1>6. U[0] = Internal(T[rt].keys, T[rt].child, NoPage) /\ U[rt] = NoNode /\ T[rt].kind = "internal"
  BY <1>2, <1>3, <1>4
<1>7. \A q \in Page : T[q].kind # "none" /\ T[q].parent = rt => q = c
  <2> SUFFICES ASSUME NEW q \in Page, T[q].kind # "none", T[q].parent = rt PROVE q = c
    OBVIOUS
  <2>1. HasPlace(T, q)
    BY <1>1 DEF IsTree, Family
  <2>2. PICK i \in 1..Len(T[rt].child) : T[rt].child[i] = q
    BY <2>1 DEF HasPlace
  <2>3. T[rt].child = <<c>>
    BY <1>2, <1>3
  <2>4. i = 1
    BY <2>2, <2>3
  <2> QED BY <2>2, <2>3, <2>4
<1>8. T[c].parent = rt /\ T[c].kind # "none"
  <2>1. T[rt].child = <<c>> /\ rt \in Place
    BY <1>2, <1>3, Places
  <2>2. \A i \in 1..Len(T[rt].child) : Under(T, lev, rt, T[rt].child[i])
    BY <1>1, <1>6, <2>1 DEF IsTree, Family
  <2>3. Under(T, lev, rt, c)
    <3>1. 1 \in 1..Len(T[rt].child) /\ T[rt].child[1] = c
      BY <2>1
    <3> QED BY <2>2, <3>1
  <2> QED BY <2>3 DEF Under
<1>9. ASSUME NEW z \in Place \ {0, rt}
      PROVE  /\ U[z].kind = T[z].kind /\ (T[z].kind = "none" => U[z] = T[z])
             /\ U[z].keys = T[z].keys /\ U[z].child = T[z].child
             /\ T[z].kind # "none" => U[z].parent = IF T[z].parent = rt THEN 0 ELSE T[z].parent
  <2>1. z \in Page
    BY <1>9, Places
  <2>2. CASE z = c
    <3>1. U[c] = [T[c] EXCEPT !.parent = NoPage] /\ T[c] \in Node
      BY <1>1, <1>2, <1>3, <1>4
    <3>2. /\ U[c].kind = T[c].kind /\ U[c].keys = T[c].keys /\ U[c].child = T[c].child
          /\ U[c].parent = NoPage
      BY <3>1 DEF Node
    <3> QED BY <1>8, <2>2, <3>2 DEF NoPage
  <2>3. CASE z # c
    <3>1. U[z] = T[z]
      BY <1>2, <1>3, <1>4, <1>9, <2>1, <2>3
    <3> QED BY <1>7, <2>1, <2>3, <3>1
  <2> QED BY <2>2, <2>3
<1>10. T[0].keys = <<>> /\ T[0].child = <<rt>>
  BY <1>3
<1>11. Collapses(T, U, rt)
  BY <1>5, <1>6, <1>9, <1>10 DEF Collapses
<1> QED BY <1>11 DEF T, U

\* The tree after the root has gone.
LEMMA CollapsedSound ==
    ASSUME NEW pg, NEW rt, NEW lev, NEW lo, NEW s, TreePages(pg, rt, lev, lo, s),
           NEW stale, NEW short, Leaves(s, stale, short, lev),
           NEW pg2, NEW c, Collapsed(pg, pg2, rt, c)
    PROVE  /\ Sound(TreeOf(pg2, c), stale, short) /\ StoredIn(pg2) = StoredIn(pg)
           /\ NodeGone(pg, pg2, rt)
<1> DEFINE T == TreeOf(pg, rt)
           U == TreeOf(pg2, c)
           new == CollapsedLev(lev, rt)
<1>1. pg \in [Page -> Node] /\ IsTree(T, lev, lo) /\ Chain(T, lo, s)
  BY DEF TreePages
<1>2. /\ rt \in Page /\ c \in Page /\ c # rt /\ pg[rt].kind = "internal"
      /\ pg2[rt] = NoNode
      /\ pg2[c] = [pg[c] EXCEPT !.parent = NoPage]
      /\ \A q \in Page \ {rt, c} : pg2[q] = pg[q]
  BY DEF Collapsed
<1>3. pg2[rt].kind = "none"
  BY <1>2 DEF NoNode
<1>4. \A q \in Page \ {rt} : /\ pg2[q].kind = pg[q].kind /\ pg2[q].keys = pg[q].keys
                             /\ pg2[q].next = pg[q].next /\ pg2[q].prev = pg[q].prev
  <2>1. pg[c] \in Node
    BY <1>1, <1>2
  <2>2. /\ pg2[c].kind = pg[c].kind /\ pg2[c].keys = pg[c].keys
        /\ pg2[c].next = pg[c].next /\ pg2[c].prev = pg[c].prev
    BY <1>2, <2>1 DEF Node
  <2> QED BY <1>2, <2>2
<1>5. /\ \A q \in Page : pg2[q].kind = "leaf" <=> pg[q].kind = "leaf"
      /\ \A q \in Page : pg[q].kind = "none" => pg2[q].kind = "none"
      /\ \A q \in Page : pg[q].kind = "leaf" =>
             pg2[q].next = pg[q].next /\ pg2[q].prev = pg[q].prev /\ pg2[q].keys = pg[q].keys
  BY <1>2, <1>3, <1>4
<1>6. StoredIn(pg2) = StoredIn(pg)
  BY <1>5, SameStored
<1>7. NodeGone(pg, pg2, rt)
  BY <1>2, <1>3, <1>4 DEF NodeGone
<1>8. Collapses(T, U, rt)
  BY CollapsedCollapses
<1>9. IsTree(U, new, lo)
  <2> HIDE DEF T, U, new
  <2>1. IsTree(U, CollapsedLev(lev, rt), lo)
    BY <1>1, <1>8, CollapseTree
  <2> QED BY <2>1 DEF new
<1>10. Chain(U, lo, s)
  <2>1. lo \in [Place -> Nat]
    BY <1>1 DEF IsTree, Ordered
  <2> QED BY <1>1, <1>5, <2>1, NodesChain
<1>11. short => new[0] <= 2
  <2> HIDE DEF T, U
  <2>1. T[0].child = <<rt>>
    BY <1>8 DEF Collapses
  <2>2. lev[rt] + 1 = lev[0]
    BY <1>1, <2>1, OnlyChild
  <2>3. lev \in [Place -> Nat]
    BY <1>1 DEF IsTree, Family
  <2>4. new[0] = lev[rt]
    BY <2>3, Places DEF CollapsedLev
  <2>5. short => lev[0] <= 2
    BY DEF Leaves
  <2>6. lev[rt] \in Nat
    BY <1>2, <2>3, Places
  <2> DEFINE a == lev[rt]
             b == lev[0]
             e == new[0]
  <2>7. a + 1 = b /\ e = a /\ a \in Nat /\ (short => b <= 2)
    BY <2>2, <2>4, <2>5, <2>6
  <2> HIDE DEF a, b, e
  <2>8. short => e <= 2
    BY <2>7
  <2> QED BY <2>8 DEF e
<1> HIDE DEF T, U, new
<1>12. Chain(U, lo, stale)
  <2>1. s => stale
    BY DEF Leaves
  <2> QED BY <1>10, <2>1, ChainMore
<1>13. Sound(U, stale, short)
  BY <1>9, <1>11, <1>12 DEF Sound
<1> QED BY <1>6, <1>7, <1>13 DEF U

\* The root goes and its only child is the root.
LEMMA MendRootStep ==
    ASSUME TypeOK, Live, Ordinary, MendRootCollapses
    PROVE  TypeOK' /\ Live' /\ StoredIn(page') = StoredIn(page)
<1> DEFINE c == Head(page[root].child)
<1>1. /\ task.op = "mend" /\ task.node = root /\ Len(page[root].child) = 1 /\ root' = c
      /\ nPage' = nPage /\ phase' = phase /\ count' = count /\ task' = Rest
      /\ Settle(Result([page EXCEPT ![root'].parent = NoPage], root))
  BY DEF MendRootCollapses
<1>2. root \in Page /\ page[root].kind = "internal" /\ task.op # "link"
  <2>1. task.node \in Page /\ page[task.node].kind = "internal" /\ task.op # "link"
    BY <1>1, MendTask
  <2> QED BY <1>1, <2>1
<1>3. root # NoPage
  BY <1>2 DEF NoPage, Page
<1>4. page' = FreePage([page EXCEPT ![c].parent = NoPage], root) /\ free' = <<root>> \o free
  <2> DEFINE pg == [page EXCEPT ![root'].parent = NoPage]
             res == Result(pg, root)
  <2>1. pg = [page EXCEPT ![c].parent = NoPage]
    BY <1>1
  <2>2. Settle(res)
    BY <1>1
  <2> HIDE DEF pg
  <2>3. res.page = pg /\ res.freed = root
    BY DEF Result
  <2> HIDE DEF res
  <2>4. page' = FreePage(pg, root) /\ free' = <<root>> \o free
    BY <1>3, <2>2, <2>3 DEF Settle
  <2> QED BY <2>1, <2>4
<1>5. PICK lev, lo : /\ TreePages(page, root, lev, lo, phase = "shrunk")
                     /\ phase = "short" => lev[0] <= 2
  BY <1>2, LiveTree
<1>6. /\ c \in Page /\ c # root /\ page[root].keys = <<>> /\ page[root].child = <<c>>
      /\ page[c].kind # "none"
  BY <1>1, <1>2, <1>5, RootChild
<1>7. page \in [Page -> Node]
  BY TypeParts
<1> HIDE DEF c
<1>8. Collapsed(page, page', root, c)
  BY <1>2, <1>4, <1>6, <1>7, CollapsedPages
<1> DEFINE s == phase = "shrunk"
           stale == phase' = "shrunk"
           short == phase' = "short"
<1>9. Leaves(s, stale, short, lev)
  BY <1>1, <1>5 DEF Leaves
<1>10. TreePages(page, root, lev, lo, s)
  BY <1>5
<1> HIDE DEF s, stale, short
<1>11. /\ Sound(TreeOf(page', c), stale, short) /\ StoredIn(page') = StoredIn(page)
       /\ NodeGone(page, page', root)
  BY <1>8, <1>9, <1>10, CollapsedSound
<1>12. Sound(TreeOf(page', c), phase' = "shrunk", phase' = "short")
  BY <1>11 DEF stale, short
<1>13. /\ task' \in Task /\ task'.op # "link" /\ task'.op # "mend"
  BY <1>1 DEF Task, Rest
<1>14. /\ phase' \in {"short", "tall", "shrunk"}
       /\ count' \in [load: 0..Max(Loads), puts: 0..MaxPuts, ops: 0..MaxOps]
       /\ phase' = "shrunk" => count'.ops # 0
  <2>1. /\ phase \in {"short", "tall", "shrunk"}
        /\ count \in [load: 0..Max(Loads), puts: 0..MaxPuts, ops: 0..MaxOps]
    BY TypeParts
  <2>2. phase = "shrunk" => count.ops # 0
    BY DEF Live, TaskFits
  <2> QED BY <1>1, <2>1, <2>2
<1>15. TaskFits'
  BY <1>13, <1>14 DEF TaskFits
<1>16. Linked' = TreeOf(page', c)
  BY <1>1, <1>13, UnlinkedNext DEF c
<1>17. Branching(page')
  <2>1. Shaped(TreeOf(page', c))
    BY <1>11 DEF Sound, IsTree
  <2> QED BY <2>1, TreeBranches
<1>18. Books(page', free', nPage')
  <2>1. Books(page, free, nPage)
    BY DEF Live
  <2>2. Books(page', <<root>> \o free, nPage)
    BY <1>11, <2>1, PageBound, Given
  <2>3. free' = <<root>> \o free /\ nPage' = nPage
    BY <1>1, <1>4
  <2> QED BY <2>2, <2>3
<1>19. page' \in [Page -> Node]
  BY <1>8 DEF Collapsed
<1>20. root' \in Page
  BY <1>1, <1>6 DEF c
<1>21. Sound(Linked', phase' = "shrunk", phase' = "short")
  BY <1>12, <1>16
<1>22. TypeOK' /\ Live'
  BY <1>13, <1>14, <1>15, <1>17, <1>18, <1>19, <1>20, <1>21, Arrives
<1> QED BY <1>11, <1>22

-----------------------------------------------------------------------------
(* The invariant *)

\* The empty tree is where the program begins.
LEMMA BInitially == Init => BInv
<1> SUFFICES ASSUME Init PROVE BInv
  OBVIOUS
<1>1. Vacant
  BY DEF Init, Vacant
<1>2. page \in [Page -> Node] /\ Branching(page)
  <2>1. NoNode \in Node
    BY DEF NoNode, Node, PageOrNone
  <2>2. page = [p \in Page |-> NoNode]
    BY DEF Init
  <2>3. \A p \in Page : page[p].kind = "none"
    BY <2>2 DEF NoNode
  <2> QED BY <2>1, <2>2, <2>3 DEF Branching
<1>3. root \in PageOrNone /\ free \in Seq(Page) /\ task \in Task /\ phase \in {"short", "tall", "shrunk"}
  BY DEF Init, PageOrNone, Task
<1>4. nPage \in 1..MaxPage + 1
  BY PageBound DEF Init
<1>5. count \in [load: 0..Max(Loads), puts: 0..MaxPuts, ops: 0..MaxOps]
  <2>1. Max(Loads) \in Nat
    BY MostLoads
  <2>2. MaxPuts \in Nat /\ MaxOps \in Nat
    BY BoundAssumption
  <2> DEFINE M == Max(Loads)
  <2> HIDE DEF M
  <2>3. 0 \in 0..M /\ 0 \in 0..MaxPuts /\ 0 \in 0..MaxOps
    BY <2>1, <2>2 DEF M
  <2>4. count = [load |-> 0, puts |-> 0, ops |-> 0]
    BY DEF Init
  <2> QED BY <2>3, <2>4 DEF M
<1>6. TypeOK
  BY <1>2, <1>3, <1>4, <1>5, TypeParts
<1> QED BY <1>1, <1>6 DEF BInv

\* What a step does to the set of keys.
KeysStep(k) ==
    \/ StoredIn(page') = StoredIn(page)
    \/ k \notin StoredIn(page) /\ StoredIn(page') = StoredIn(page) \cup {k}
    \/ k \in StoredIn(page) /\ StoredIn(page') = StoredIn(page) \ {k}

\* Where the tree is empty a step puts the first key.
LEMMA VacantStep ==
    ASSUME TypeOK, Vacant, Next
    PROVE  TypeOK' /\ Live' /\ \E k \in Key : KeysStep(k)
<1>1. root = NoPage /\ task = Rest /\ Stored = {}
  <2>1. StoredIn(page) = {}
    BY VacantFacts
  <2> QED BY <2>1 DEF Vacant, StoredIn, Stored, LeafPages
<1>2. task.op # "link" /\ task.op # "mend"
  BY <1>1 DEF Rest
<1>3. PICK k \in Key : SetBTreeFirst(k) \/ SetBTree(k) \/ RemoveBtree(k)
  BY <1>2 DEF Next, LinkRoot, LinkChild, MendRootCollapses, MendNode
<1>4. SetBTreeFirst(k)
  BY <1>1, <1>3 DEF SetBTree, RemoveBtree
<1>5. TypeOK' /\ Live' /\ k \notin StoredIn(page) /\ StoredIn(page') = StoredIn(page) \cup {k}
  BY <1>4, FirstStep
<1> QED BY <1>5 DEF KeysStep

\* Where it is not, it puts a key, removes one or goes on with what it began.
LEMMA LiveStep ==
    ASSUME TypeOK, Live, Ordinary, Next
    PROVE  /\ TypeOK' /\ Live'
           /\ StoredIn(page') = StoredIn(page) \/ \E k \in Key : KeysStep(k)
<1>1. root # NoPage
  BY DEF Live, NoPage, Page
<1>2. ASSUME NEW k \in Key, SetBTreeFirst(k)
      PROVE  FALSE
  BY <1>1, <1>2 DEF SetBTreeFirst
<1>3. ASSUME NEW k \in Key, SetBTree(k)
      PROVE  TypeOK' /\ Live' /\ KeysStep(k)
  <2>1. TypeOK' /\ Live' /\ k \notin StoredIn(page) /\ StoredIn(page') = StoredIn(page) \cup {k}
    BY <1>3, SetBTreeStep
  <2> QED BY <2>1 DEF KeysStep
<1>4. ASSUME NEW k \in Key, RemoveBtree(k)
      PROVE  TypeOK' /\ Live' /\ KeysStep(k)
  <2>1. /\ TypeOK' /\ Live'
        /\ \/ StoredIn(page') = StoredIn(page)
           \/ k \in StoredIn(page) /\ StoredIn(page') = StoredIn(page) \ {k}
    BY <1>4, RemoveBtreeStep
  <2> QED BY <2>1 DEF KeysStep
<1>5. ASSUME LinkRoot \/ LinkChild \/ MendRootCollapses \/ MendNode
      PROVE  TypeOK' /\ Live' /\ StoredIn(page') = StoredIn(page)
  <2>1. CASE LinkRoot
    BY <2>1, LinkRootStep
  <2>2. CASE LinkChild
    BY <2>2, LinkChildStep
  <2>3. CASE MendRootCollapses
    BY <2>3, MendRootStep
  <2>4. CASE MendNode
    BY <2>4, MendNodeStep
  <2> QED BY <1>5, <2>1, <2>2, <2>3, <2>4
<1>6. \/ \E k \in Key : SetBTreeFirst(k) \/ SetBTree(k) \/ RemoveBtree(k)
      \/ LinkRoot \/ LinkChild \/ MendRootCollapses \/ MendNode
  BY DEF Next
<1> QED BY <1>2, <1>3, <1>4, <1>5, <1>6

\* A step that changes nothing.
LEMMA BStutters ==
    ASSUME BInv, UNCHANGED vars
    PROVE  BInv' /\ StoredIn(page') = StoredIn(page)
<1>1. /\ page' = page /\ root' = root /\ free' = free /\ nPage' = nPage /\ task' = task
      /\ phase' = phase /\ count' = count
  BY DEF vars
<1>2. TypeOK' = TypeOK
  BY <1>1 DEF TypeOK
<1>3. Vacant' = Vacant
  BY <1>1 DEF Vacant
<1>4. Live' = Live
  BY <1>1 DEF Live, Linked, Pages, TaskFits
<1> QED BY <1>1, <1>2, <1>3, <1>4 DEF BInv

\* Every step keeps the tree a tree and the chain of its leaves whole.
LEMMA BPreserved ==
    ASSUME Ordinary, BInv, [Next]_vars
    PROVE  BInv' /\ (StoredIn(page') = StoredIn(page) \/ \E k \in Key : KeysStep(k))
<1>1. CASE UNCHANGED vars
  BY <1>1, BStutters
<1>2. CASE Next
  <2>1. CASE Vacant
    BY <1>2, <2>1, VacantStep DEF BInv
  <2>2. CASE Live
    BY <1>2, <2>2, LiveStep DEF BInv
  <2> QED BY <2>1, <2>2 DEF BInv
<1> QED BY <1>1, <1>2

-----------------------------------------------------------------------------
(* What the invariant says of a tree at rest *)

\* At rest there is no page in use, or the pages are a tree.
LEMMA RestTree ==
    ASSUME BInv, task = Rest
    PROVE  \/ Vacant
           \/ \E lev, lo : TreePages(page, root, lev, lo, phase = "shrunk")
<1>1. task.op # "link"
  BY DEF Rest
<1> QED BY <1>1, LiveTree DEF BInv

\* So a search finds the leaf of every key: findLeaf goes down the keys of
\* the nodes.
LEMMA SearchFindsAtRest ==
    ASSUME BInv
    PROVE  SearchFindsKeys
<1> SUFFICES ASSUME task = Rest, NEW p \in Page, page[p].kind = "leaf", NEW k \in ToSet(page[p].keys)
             PROVE  FindLeaf(k) = p
  BY DEF SearchFindsKeys, AtRest, LeafPages
<1>1. CASE Vacant
  <2>1. page[p].kind = "none"
    BY <1>1, VacantFacts DEF NoNode
  <2> QED BY <2>1
<1>2. ASSUME NEW lev, NEW lo, TreePages(page, root, lev, lo, phase = "shrunk")
      PROVE  FindLeaf(k) = p
  <2>1. IsTree(Pages, lev, lo) /\ page[p].keys \in Seq(Key)
    BY <1>2 DEF TreePages, Pages, Node
  <2>2. PICK i \in 1..Len(page[p].keys) : k = page[p].keys[i]
    BY <2>1, SeqSet
  <2>3. FindLeaf(page[p].keys[i]) = p
    BY <2>1, PageBound, SearchFinds
  <2> QED BY <2>2, <2>3
<1> QED BY <1>1, <1>2, RestTree

\* So parents and children name each other.
LEMMA ParentsAgreeAtRest ==
    ASSUME BInv
    PROVE  ParentsAgree
<1> SUFFICES ASSUME task = Rest, root # NoPage
             PROVE  /\ page[root].parent = NoPage
                    /\ \A p \in InUse \ {root} : \E r \in Internals :
                          page[p].parent = r /\ p \in ToSet(page[r].child)
                    /\ \A r \in Internals : \A p \in ToSet(page[r].child) : page[p].parent = r
  BY DEF ParentsAgree, AtRest
<1>1. PICK lev, lo : TreePages(page, root, lev, lo, phase = "shrunk")
  BY RestTree DEF Vacant
<1>2. /\ page \in [Page -> Node] /\ root \in Page /\ IsTree(Pages, lev, lo)
  BY <1>1 DEF TreePages, Pages
<1>3. (\A q \in Page : Pages[q] = page[q]) /\ Pages[0].child = <<root>>
  BY PagesFacts
<1>4. page[root].parent = NoPage
  <2>1. Pages[root].parent = 0
    BY <1>2, <1>3, OnlyChild
  <2> QED BY <1>2, <1>3, <2>1 DEF NoPage
<1>5. ASSUME NEW p \in InUse \ {root}
      PROVE  \E r \in Internals : page[p].parent = r /\ p \in ToSet(page[r].child)
  <2>1. p \in Page /\ page[p].kind # "none" /\ p # root
    BY <1>5 DEF InUse, LeafPages, Internals
  <2> DEFINE r == page[p].parent
  <2>2. r \in Page /\ page[r].kind = "internal"
    BY <1>2, <2>1, PageParent DEF Pages
  <2>3. HasPlace(Pages, p)
    BY <1>2, <1>3, <2>1 DEF IsTree, Family
  <2>4. \E i \in 1..Len(page[r].child) : page[r].child[i] = p
    BY <1>3, <2>1, <2>2, <2>3 DEF HasPlace
  <2>5. page[r].child \in Seq(Page)
    BY <1>2, <2>2 DEF Node
  <2>6. p \in ToSet(page[r].child)
    BY <2>4, <2>5, SeqSet
  <2> QED BY <2>2, <2>6 DEF Internals
<1>6. ASSUME NEW r \in Internals, NEW p \in ToSet(page[r].child)
      PROVE  page[p].parent = r
  <2>1. r \in Page /\ page[r].kind = "internal"
    BY DEF Internals
  <2>2. page[r].child \in Seq(Page)
    BY <1>2, <2>1 DEF Node
  <2>3. PICK i \in 1..Len(page[r].child) : page[r].child[i] = p
    BY <2>2, SeqSet
  <2>4. p \in Page
    BY <2>2, <2>3
  <2>5. Pages[r].kind = "internal" /\ Pages[r].child = page[r].child /\ r \in Place
    BY <1>3, <2>1, Places
  <2>6. \A j \in 1..Len(Pages[r].child) : Under(Pages, lev, r, Pages[r].child[j])
    BY <1>2, <2>5 DEF IsTree, Family
  <2>7. Under(Pages, lev, r, p)
    BY <2>3, <2>5, <2>6
  <2> QED BY <1>3, <2>4, <2>7 DEF Under
<1> QED BY <1>4, <1>5, <1>6

\* So each page given out is in use or free.
LEMMA PagesAccountedAtRest ==
    ASSUME BInv
    PROVE  PagesAccounted
<1>1. \A p \in Page : page[p].kind \in {"none", "leaf", "internal"}
  <2>1. page \in [Page -> Node]
    BY TypeParts DEF BInv
  <2> QED BY <2>1 DEF Node
<1>2. Books(page, free, nPage)
  BY VacantFacts DEF BInv, Live
<1> QED BY <1>1, <1>2, PageBound, BooksAccount

\* So going along the chain of leaves yields every key once and in order.
LEMMA ScanFindsAtRest ==
    ASSUME BInv
    PROVE  ScanFindsKeys
<1> SUFFICES ASSUME task = Rest
             PROVE  ToSet(Scan) = Stored /\ \A i \in 1..Len(Scan) - 1 : Scan[i] < Scan[i + 1]
  BY DEF ScanFindsKeys, AtRest
<1>1. CASE Vacant
  <2>1. root = NoPage /\ \A q \in Page : page[q] = NoNode
    BY <1>1, VacantFacts DEF Vacant
  <2>2. Scan = <<>>
    BY <2>1, PageBound, ScanNothing
  <2>3. Stored = {}
    <3>1. StoredIn(page) = {}
      BY <1>1, VacantFacts
    <3> QED BY <3>1 DEF StoredIn, Stored, LeafPages
  <2> DEFINE t == Scan
  <2>4. t = <<>>
    BY <2>2
  <2> HIDE DEF t
  <2>5. ToSet(t) = {} /\ \A i \in 1..Len(t) - 1 : t[i] < t[i + 1]
    BY <2>4 DEF ToSet
  <2> QED BY <2>3, <2>5 DEF t
<1>2. ASSUME NEW lev, NEW lo, TreePages(page, root, lev, lo, phase = "shrunk")
      PROVE  ToSet(Scan) = Stored /\ \A i \in 1..Len(Scan) - 1 : Scan[i] < Scan[i + 1]
  <2> DEFINE s == phase = "shrunk"
             t == Scan
  <2>1. IsTree(Pages, lev, lo) /\ Chain(Pages, lo, s)
    BY <1>2 DEF TreePages, Pages
  <2> HIDE DEF s
  <2>2. Ascending(t) /\ ToSet(t) = Stored /\ t \in Seq(Key)
    BY <2>1, PageBound, ScanYields
  <2> HIDE DEF t
  <2>3. ASSUME NEW i \in 1..Len(t) - 1
        PROVE  t[i] < t[i + 1]
    <3> DEFINE m == Len(t)
    <3>1. m \in Nat
      BY <2>2
    <3>2. m = Len(t) /\ i \in 1..m - 1
      OBVIOUS
    <3> HIDE DEF m
    <3>3. i \in 1..m /\ i + 1 \in 1..m /\ i < i + 1
      BY <3>1, <3>2
    <3>4. i \in 1..Len(t) /\ i + 1 \in 1..Len(t) /\ i < i + 1
      BY <3>2, <3>3
    <3> QED BY <2>2, <3>4 DEF Ascending
  <2>4. ToSet(t) = Stored /\ \A i \in 1..Len(t) - 1 : t[i] < t[i + 1]
    BY <2>2, <2>3
  <2> QED BY <2>4 DEF t
<1> QED BY <1>1, <1>2, RestTree

-----------------------------------------------------------------------------
(* The theorems *)

\* The invariant holds in every reachable state.
LEMMA BAlways ==
    ASSUME Ordinary
    PROVE  Spec => []BInv
<1>1. Init => BInv
  BY BInitially
<1>2. BInv /\ [Next]_vars => BInv'
  BY BPreserved
<1> QED BY <1>1, <1>2, PTL DEF Spec

\* Pages, free list, tasks and counts keep their types, and a node above the
\* leaves has one child more than it has keys.
THEOREM TypeCorrect ==
    ASSUME Ordinary
    PROVE  Spec => []TypeOK
<1>1. BInv => TypeOK
  BY DEF BInv
<1> QED BY <1>1, BAlways, PTL

\* findLeaf leads to the leaf that has a key, whatever was split, lent or merged.
THEOREM SearchIsRight ==
    ASSUME Ordinary
    PROVE  Spec => []SearchFindsKeys
<1>1. BInv => SearchFindsKeys
  BY SearchFindsAtRest
<1> QED BY <1>1, BAlways, PTL

\* A page names its parent, and a node above the leaves its children, rightly.
THEOREM ParentsAreRight ==
    ASSUME Ordinary
    PROVE  Spec => []ParentsAgree
<1>1. BInv => ParentsAgree
  BY ParentsAgreeAtRest
<1> QED BY <1>1, BAlways, PTL

\* No page is lost or given out twice.
THEOREM PagesAreAccounted ==
    ASSUME Ordinary
    PROVE  Spec => []PagesAccounted
<1>1. BInv => PagesAccounted
  BY PagesAccountedAtRest
<1> QED BY <1>1, BAlways, PTL

\* Iterating over the leaves yields the stored keys once each and in order.
THEOREM ScanIsRight ==
    ASSUME Ordinary
    PROVE  Spec => []ScanFindsKeys
<1>1. BInv => ScanFindsKeys
  BY ScanFindsAtRest
<1> QED BY <1>1, BAlways, PTL

\* The tree of pages implements the set of keys.
THEOREM TreeImplementsKeySet ==
    ASSUME Ordinary
    PROVE  Spec => ImplementsKeySet
<1>1. Stored = StoredIn(page) /\ Stored' = StoredIn(page')
  BY DEF Stored, LeafPages, StoredIn
<1>2. Init => S!Init
  <2> SUFFICES ASSUME Init PROVE Stored = {}
    BY DEF S!Init
  <2>1. \A p \in Page : page[p].kind = "none"
    BY DEF Init, NoNode
  <2>2. LeafPages = {}
    BY <2>1 DEF LeafPages
  <2> QED BY <2>2 DEF Stored
<1>3. BInv /\ [Next]_vars => [S!Next]_Stored
  <2> SUFFICES ASSUME BInv, [Next]_vars PROVE [S!Next]_Stored
    OBVIOUS
  <2>1. StoredIn(page') = StoredIn(page) \/ \E k \in Key : KeysStep(k)
    BY BPreserved
  <2>2. Stored' = Stored \/ \E k \in Key : S!Put(k) \/ S!Remove(k)
    BY <1>1, <2>1 DEF KeysStep, S!Put, S!Remove
  <2> QED BY <2>2 DEF S!Next
<1> QED BY <1>2, <1>3, BAlways, PTL DEF Spec, ImplementsKeySet, S!Spec
=============================================================================
