------------------------- MODULE BPlusTreePutProofs -------------------------
(***************************************************************************)
(* What the proofs about BPlusTree rest on: trees of nodes, the ways in    *)
(* which one is changed, searching and iterating, the invariant, and the   *)
(* steps that put a key. A tree T is a function from places, the pages and *)
(* 0, to nodes; 0 stands above the root. lev gives each node its height    *)
(* and lo the key that it begins with.                                     *)
(***************************************************************************)
EXTENDS BPlusTree, FiniteSetTheorems, SequenceTheorems, WellFoundedInduction, TLAPS

-----------------------------------------------------------------------------
(* Numbers and sequences *)

\* A set of numbers that is not empty has a least one.
LEMMA Least ==
    ASSUME NEW T, T \subseteq Nat, T # {}
    PROVE  \E n \in T : \A m \in T : n <= m
<1>1. \E n \in T : \A m \in T : ~(<<m, n>> \in OpToRel(<, Nat))
  BY WFMin, NatLessThanWellFounded, Zenon
<1>2. \A m, n \in T : m < n => <<m, n>> \in OpToRel(<, Nat)
  BY DEF OpToRel
<1>3. \E n \in T : \A m \in T : ~(m < n)
  BY <1>1, <1>2, Zenon
<1> QED BY <1>3

\* What holds at 0 and goes from each number to the next holds at all up to N.
LEMMA UpTo ==
    ASSUME NEW N \in Nat, NEW B, 0 \in B,
           \A n \in 0..N - 1 : n \in B => n + 1 \in B
    PROVE  0..N \subseteq B
<1> DEFINE T == {n \in 0..N : n \notin B}
<1> SUFFICES ASSUME T # {} PROVE FALSE
  OBVIOUS
<1>1. T \subseteq Nat
  OBVIOUS
<1> HIDE DEF T
<1>2. PICK n \in T : \A m \in T : n <= m
  BY <1>1, Least
<1>3. n \in 0..N /\ n \notin B
  BY <1>2 DEF T
<1>4. n - 1 \in 0..N - 1 /\ n = (n - 1) + 1
  BY <1>3
<1>5. n - 1 \in B
  BY <1>2, <1>4 DEF T
<1> QED BY <1>3, <1>4, <1>5

\* f goes from z on, N times, by g.
Runs(f, N, V, z, g) ==
    f \in [0..N -> V] /\ f[0] = z /\ \A d \in 1..N : f[d] = g[f[d - 1]]

\* A function can be applied again and again, N times, from z on.
LEMMA Iterate ==
    ASSUME NEW N \in Nat, NEW V, NEW z \in V, NEW g \in [V -> V]
    PROVE  \E f : Runs(f, N, V, z, g)
<1> DEFINE B == {n \in Nat : \E f : Runs(f, n, V, z, g)}
<1>1. 0 \in B
  <2>1. [d \in 0..0 |-> z] \in [0..0 -> V] /\ [d \in 0..0 |-> z][0] = z
    OBVIOUS
  <2>2. \A d \in 1..0 : FALSE
    OBVIOUS
  <2>3. Runs([d \in 0..0 |-> z], 0, V, z, g)
    BY <2>1, <2>2 DEF Runs
  <2> QED BY <2>3
<1>2. ASSUME NEW n \in 0..N - 1, n \in B PROVE n + 1 \in B
  <2>0. PICK f : Runs(f, n, V, z, g)
    BY <1>2
  <2>1. f \in [0..n -> V] /\ f[0] = z /\ \A d \in 1..n : f[d] = g[f[d - 1]]
    BY <2>0 DEF Runs
  <2> DEFINE h == [d \in 0..n + 1 |-> IF d = n + 1 THEN g[f[n]] ELSE f[d]]
  <2>2. h \in [0..n + 1 -> V]
    BY <2>1
  <2>3. h[0] = z
    BY <2>1
  <2>4. \A d \in 1..n + 1 : h[d] = g[h[d - 1]]
    <3> TAKE d \in 1..n + 1
    <3>1. CASE d = n + 1
      BY <3>1
    <3>2. CASE d # n + 1
      <4>1. d \in 1..n /\ d \in 0..n /\ d - 1 \in 0..n /\ d - 1 # n + 1
        BY <3>2
      <4> QED BY <2>1, <3>2, <4>1
    <3> QED BY <3>1, <3>2
  <2> HIDE DEF h
  <2>5. Runs(h, n + 1, V, z, g)
    BY <2>2, <2>3, <2>4 DEF Runs
  <2> QED BY <2>5
<1> HIDE DEF B
<1>3. 0..N \subseteq B
  BY <1>1, <1>2, UpTo
<1>4. N \in B
  BY <1>3
<1> QED BY <1>4 DEF B

\* The places of a sequence.
LEMMA SeqPlaces ==
    ASSUME NEW V, NEW s \in Seq(V)
    PROVE  /\ Len(s) \in Nat /\ DOMAIN s = 1..Len(s)
           /\ \A i \in 1..Len(s) : s[i] \in V
BY LenProperties

\* A part of a sequence from its place a to its place b.
LEMMA SubSeqFacts ==
    ASSUME NEW V, NEW s \in Seq(V), NEW a \in 1..Len(s) + 1, NEW b \in a - 1..Len(s)
    PROVE  /\ SubSeq(s, a, b) \in Seq(V)
           /\ Len(SubSeq(s, a, b)) = b - a + 1
           /\ \A i \in 1..b - a + 1 : SubSeq(s, a, b)[i] = s[a + i - 1]
<1>1. Len(s) \in Nat /\ \A i \in 1..Len(s) : s[i] \in V
  BY SeqPlaces
<1>2. a \in Int /\ b \in Int /\ \A i \in a..b : s[i] \in V
  BY <1>1
<1>3. IF a <= b THEN b - a + 1 = b - a + 1 ELSE b - a + 1 = 0
  BY <1>1
<1> QED BY <1>2, <1>3, SubSeqProperties

\* The first a elements of a sequence.
LEMMA LowerPart ==
    ASSUME NEW V, NEW s \in Seq(V), NEW a \in Nat, a <= Len(s)
    PROVE  /\ SubSeq(s, 1, a) \in Seq(V) /\ Len(SubSeq(s, 1, a)) = a
           /\ \A i \in 1..a : SubSeq(s, 1, a)[i] = s[i]
<1>1. Len(s) \in Nat
  BY SeqPlaces
<1>2. 1 \in 1..Len(s) + 1 /\ a \in 1 - 1..Len(s)
  BY <1>1
<1>3. /\ SubSeq(s, 1, a) \in Seq(V) /\ Len(SubSeq(s, 1, a)) = a - 1 + 1
      /\ \A i \in 1..a - 1 + 1 : SubSeq(s, 1, a)[i] = s[1 + i - 1]
  BY <1>2, SubSeqFacts
<1> QED BY <1>1, <1>3

\* The elements after the first b.
LEMMA UpperPart ==
    ASSUME NEW V, NEW s \in Seq(V), NEW b \in Nat, b <= Len(s)
    PROVE  /\ SubSeq(s, b + 1, Len(s)) \in Seq(V) /\ Len(SubSeq(s, b + 1, Len(s))) = Len(s) - b
           /\ \A i \in 1..Len(s) - b : SubSeq(s, b + 1, Len(s))[i] = s[b + i]
<1> DEFINE n == Len(s)
           x == b + 1
<1>1. n \in Nat
  BY SeqPlaces
<1>2. x \in 1..n + 1 /\ n \in x - 1..n
  BY <1>1
<1>3. /\ SubSeq(s, x, n) \in Seq(V) /\ Len(SubSeq(s, x, n)) = n - x + 1
      /\ \A i \in 1..n - x + 1 : SubSeq(s, x, n)[i] = s[x + i - 1]
  <2> HIDE DEF x
  <2> QED BY <1>2, SubSeqFacts
<1>4. n - x + 1 = n - b /\ \A i \in 1..n - b : x + i - 1 = b + i
  BY <1>1
<1> HIDE DEF x, n
<1>5. /\ SubSeq(s, x, n) \in Seq(V) /\ Len(SubSeq(s, x, n)) = n - b
      /\ \A i \in 1..n - b : SubSeq(s, x, n)[i] = s[b + i]
  BY <1>3, <1>4
<1> QED BY <1>5 DEF x, n

\* t is s with e put in at place i.
Inserted(V, s, i, e, t) ==
    /\ t \in Seq(V) /\ Len(t) = Len(s) + 1
    /\ \A j \in 1..Len(s) + 1 : t[j] =
          IF j < i THEN s[j] ELSE IF j = i THEN e ELSE s[j - 1]

\* InsertAt puts an element in.
LEMMA InsertAtFacts ==
    ASSUME NEW V, NEW s \in Seq(V), NEW i \in Int, 1 <= i, i <= Len(s) + 1, NEW e \in V
    PROVE  Inserted(V, s, i, e, InsertAt(s, i, e))
<1> DEFINE n == Len(s)
           a == SubSeq(s, 1, i - 1)
           b == SubSeq(s, i, Len(s))
<1>1. n \in Nat
  BY SeqPlaces
<1>2. /\ a \in Seq(V) /\ Len(a) = i - 1
      /\ \A j \in 1..i - 1 : a[j] = s[j]
  <2>1. 1 \in 1..Len(s) + 1 /\ i - 1 \in 1 - 1..Len(s)
    BY <1>1
  <2> HIDE DEF a
  <2>2. a \in Seq(V) /\ Len(a) = (i - 1) - 1 + 1
        /\ \A j \in 1..(i - 1) - 1 + 1 : a[j] = s[1 + j - 1]
    BY <2>1, SubSeqFacts DEF a
  <2> QED BY <1>1, <2>2
<1>3. /\ b \in Seq(V) /\ Len(b) = n - i + 1
      /\ \A j \in 1..n - i + 1 : b[j] = s[i + j - 1]
  <2>1. Len(s) \in i - 1..Len(s)
    BY <1>1
  <2> QED BY <2>1, SubSeqFacts
<1>4. InsertAt(s, i, e) = (a \o <<e>>) \o b
  BY DEF InsertAt
<1> HIDE DEF a, b
<1>5. <<e>> \in Seq(V) /\ Len(<<e>>) = 1 /\ <<e>>[1] = e
  OBVIOUS
<1> DEFINE c == a \o <<e>>
<1>6. /\ c \in Seq(V) /\ Len(c) = i
      /\ \A j \in 1..i : c[j] = IF j < i THEN s[j] ELSE e
  <2>1. /\ c \in Seq(V) /\ Len(c) = Len(a) + Len(<<e>>)
        /\ \A j \in 1..Len(a) + Len(<<e>>) : c[j] =
              IF j <= Len(a) THEN a[j] ELSE <<e>>[j - Len(a)]
    BY <1>2, <1>5, ConcatProperties
  <2> HIDE DEF c
  <2>2. Len(a) + Len(<<e>>) = i
    BY <1>1, <1>2, <1>5
  <2>3. ASSUME NEW j \in 1..i PROVE c[j] = IF j < i THEN s[j] ELSE e
    <3>1. CASE j < i
      <4>1. j \in 1..i - 1 /\ j <= Len(a)
        BY <1>1, <1>2, <3>1
      <4> QED BY <1>2, <2>1, <2>2, <3>1, <4>1
    <3>2. CASE j = i
      <4>1. ~(j <= Len(a)) /\ j - Len(a) = 1
        BY <1>1, <1>2, <3>2
      <4> QED BY <1>1, <1>5, <2>1, <2>2, <3>2, <4>1
    <3> QED BY <1>1, <3>1, <3>2
  <2> QED BY <2>1, <2>2, <2>3
<1>7. /\ InsertAt(s, i, e) \in Seq(V) /\ Len(InsertAt(s, i, e)) = Len(c) + Len(b)
      /\ \A j \in 1..Len(c) + Len(b) : InsertAt(s, i, e)[j] =
            IF j <= Len(c) THEN c[j] ELSE b[j - Len(c)]
  <2>1. InsertAt(s, i, e) = c \o b
    BY <1>4
  <2> HIDE DEF c
  <2>2. /\ c \o b \in Seq(V) /\ Len(c \o b) = Len(c) + Len(b)
        /\ \A j \in 1..Len(c) + Len(b) : (c \o b)[j] =
              IF j <= Len(c) THEN c[j] ELSE b[j - Len(c)]
    BY <1>3, <1>6, ConcatProperties
  <2> QED BY <2>1, <2>2
<1> HIDE DEF c
<1>8. Len(c) + Len(b) = n + 1
  BY <1>1, <1>3, <1>6
<1>9. ASSUME NEW j \in 1..n + 1
      PROVE  InsertAt(s, i, e)[j] = IF j < i THEN s[j] ELSE IF j = i THEN e ELSE s[j - 1]
  <2>1. CASE j <= i
    <3>1. j \in 1..i
      BY <1>1, <2>1
    <3> QED BY <1>1, <1>6, <1>7, <1>8, <2>1, <3>1
  <2>2. CASE j > i
    <3>1. j - i \in 1..n - i + 1 /\ i + (j - i) - 1 = j - 1 /\ ~(j <= i) /\ ~(j < i) /\ j # i
      BY <1>1, <2>2
    <3>2. b[j - i] = s[j - 1]
      BY <1>3, <3>1
    <3>3. InsertAt(s, i, e)[j] = b[j - i]
      BY <1>6, <1>7, <1>8, <3>1
    <3> QED BY <3>1, <3>2, <3>3
  <2> QED BY <1>1, <2>1, <2>2
<1> QED BY <1>7, <1>8, <1>9 DEF Inserted

\* t is s without the element at place i.
Removed(V, s, i, t) ==
    /\ t \in Seq(V) /\ Len(t) = Len(s) - 1
    /\ \A j \in 1..Len(s) - 1 : t[j] = IF j < i THEN s[j] ELSE s[j + 1]

\* RemoveAt takes an element out.
LEMMA RemoveAtFacts ==
    ASSUME NEW V, NEW s \in Seq(V), NEW i \in Int, 1 <= i, i <= Len(s)
    PROVE  Removed(V, s, i, RemoveAt(s, i))
<1> DEFINE n == Len(s)
           a == SubSeq(s, 1, i - 1)
           b == SubSeq(s, i + 1, Len(s))
<1>1. n \in Nat
  BY SeqPlaces
<1>2. /\ a \in Seq(V) /\ Len(a) = i - 1
      /\ \A j \in 1..i - 1 : a[j] = s[j]
  <2>1. 1 \in 1..Len(s) + 1 /\ i - 1 \in 1 - 1..Len(s)
    BY <1>1
  <2> HIDE DEF a
  <2>2. a \in Seq(V) /\ Len(a) = (i - 1) - 1 + 1
        /\ \A j \in 1..(i - 1) - 1 + 1 : a[j] = s[1 + j - 1]
    BY <2>1, SubSeqFacts DEF a
  <2> QED BY <1>1, <2>2
<1>3. /\ b \in Seq(V) /\ Len(b) = n - i
      /\ \A j \in 1..n - i : b[j] = s[i + j]
  <2>1. i + 1 \in 1..Len(s) + 1 /\ Len(s) \in (i + 1) - 1..Len(s)
    BY <1>1
  <2> HIDE DEF b
  <2>2. b \in Seq(V) /\ Len(b) = Len(s) - (i + 1) + 1
        /\ \A j \in 1..Len(s) - (i + 1) + 1 : b[j] = s[(i + 1) + j - 1]
    BY <2>1, SubSeqFacts DEF b
  <2>3. n - (i + 1) + 1 = n - i /\ \A j \in 1..n - i : (i + 1) + j - 1 = i + j
    BY <1>1
  <2> QED BY <2>2, <2>3
<1>4. RemoveAt(s, i) = a \o b
  BY DEF RemoveAt
<1> HIDE DEF a, b
<1>7. /\ RemoveAt(s, i) \in Seq(V) /\ Len(RemoveAt(s, i)) = Len(a) + Len(b)
      /\ \A j \in 1..Len(a) + Len(b) : RemoveAt(s, i)[j] =
            IF j <= Len(a) THEN a[j] ELSE b[j - Len(a)]
  <2>1. /\ a \o b \in Seq(V) /\ Len(a \o b) = Len(a) + Len(b)
        /\ \A j \in 1..Len(a) + Len(b) : (a \o b)[j] =
              IF j <= Len(a) THEN a[j] ELSE b[j - Len(a)]
    BY <1>2, <1>3, ConcatProperties
  <2> QED BY <1>4, <2>1
<1>8. Len(a) + Len(b) = n - 1
  BY <1>1, <1>2, <1>3
<1>9. ASSUME NEW j \in 1..n - 1
      PROVE  RemoveAt(s, i)[j] = IF j < i THEN s[j] ELSE s[j + 1]
  <2>1. CASE j < i
    <3>1. j \in 1..i - 1
      BY <1>1, <2>1
    <3> QED BY <1>1, <1>2, <1>7, <1>8, <2>1, <3>1
  <2>2. CASE ~(j < i)
    <3>1. j - (i - 1) \in 1..n - i /\ i + (j - (i - 1)) = j + 1 /\ ~(j <= i - 1)
      BY <1>1, <2>2
    <3>2. b[j - (i - 1)] = s[j + 1]
      BY <1>3, <3>1
    <3>3. RemoveAt(s, i)[j] = b[j - (i - 1)]
      BY <1>2, <1>7, <1>8, <3>1
    <3> QED BY <2>2, <3>2, <3>3
  <2> QED BY <1>1, <2>1, <2>2
<1> QED BY <1>7, <1>8, <1>9 DEF Removed

\* The keys of a sequence in ascending order.
Ascending(ks) == \A i, j \in 1..Len(ks) : i < j => ks[i] < ks[j]

\* Count is a place of the sequence, or 0.
LEMMA CountRange ==
    ASSUME NEW ks \in Seq(Nat), NEW k
    PROVE  Count(ks, k) \in 0..Len(ks)
<1>1. Len(ks) \in Nat /\ DOMAIN ks = 1..Len(ks)
  BY SeqPlaces
<1>2. IsFiniteSet(1..Len(ks)) /\ Cardinality(1..Len(ks)) = Len(ks)
  <2>1. \A n \in Nat : IsFiniteSet(1..n) /\ Cardinality(1..n) = IF 1 > n THEN 0 ELSE n - 1 + 1
    BY FS_Interval
  <2>2. \A n \in Nat : (IF 1 > n THEN 0 ELSE n - 1 + 1) = n
    OBVIOUS
  <2> QED BY <1>1, <2>1, <2>2
<1>3. {i \in DOMAIN ks : ks[i] <= k} \in SUBSET (1..Len(ks))
  BY <1>1
<1>4. Count(ks, k) <= Len(ks) /\ IsFiniteSet({i \in DOMAIN ks : ks[i] <= k})
  BY <1>2, <1>3, FS_Subset DEF Count
<1> QED BY <1>1, <1>4, FS_CardinalityType DEF Count

\* In an ascending sequence the keys that are at most k are those up to Count.
LEMMA CountFacts ==
    ASSUME NEW ks \in Seq(Nat), Ascending(ks), NEW k \in Nat
    PROVE  /\ Count(ks, k) \in 0..Len(ks)
           /\ \A i \in 1..Len(ks) : i <= Count(ks, k) <=> ks[i] <= k
<1> DEFINE n == Len(ks)
           T == {i \in 1..n + 1 : i = n + 1 \/ ks[i] > k}
<1>1. n \in Nat /\ DOMAIN ks = 1..n /\ \A i \in 1..n : ks[i] \in Nat
  BY SeqPlaces
<1>2. PICK m \in T : \A i \in T : m <= i
  <2>1. T \subseteq Nat /\ n + 1 \in T
    BY <1>1
  <2> HIDE DEF T
  <2> QED BY <2>1, Least
<1>3. m \in 1..n + 1 /\ (m = n + 1 \/ ks[m] > k)
  BY <1>2
<1>4. \A i \in 1..n : i <= m - 1 <=> ks[i] <= k
  <2> TAKE i \in 1..n
  <2>1. CASE i <= m - 1
    <3>1. i \notin T
      BY <1>1, <1>2, <1>3, <2>1
    <3> QED BY <1>1, <2>1, <3>1
  <2>2. CASE i = m
    BY <1>1, <1>3, <2>2
  <2>3. CASE i > m
    <3>1. m \in 1..n /\ ks[m] < ks[i]
      BY <1>1, <1>3, <2>3 DEF Ascending
    <3> QED BY <1>1, <1>3, <2>3, <3>1
  <2> QED BY <1>1, <1>3, <2>1, <2>2, <2>3
<1> HIDE DEF T
<1>5. {i \in DOMAIN ks : ks[i] <= k} = 1..m - 1
  BY <1>1, <1>3, <1>4
<1>6. Count(ks, k) = m - 1
  <2>1. 1 \in Int /\ m - 1 \in Int /\ (1 > m - 1 => m - 1 = 0)
    BY <1>1, <1>3
  <2>2. Cardinality(1..m - 1) = IF 1 > m - 1 THEN 0 ELSE (m - 1) - 1 + 1
    BY <2>1, FS_Interval
  <2>3. Count(ks, k) = Cardinality(1..m - 1)
    BY <1>5 DEF Count
  <2> QED BY <2>1, <2>2, <2>3
<1> QED BY <1>1, <1>3, <1>4, <1>6

-----------------------------------------------------------------------------
(* Trees *)

\* The places of nodes: the pages, and 0 for a node above the root.
Place == 0..MaxPage

\* T has a node at some of the places, with as many keys as it needs.
Shaped(T) ==
    /\ T \in [Place -> Node]
    /\ T[0].kind = "internal"
    /\ \A p \in Place : T[p].kind = "none" => T[p] = NoNode
    /\ \A p \in Place : T[p].kind = "leaf" => T[p].child = <<>>
    /\ \A p \in Place : T[p].kind = "internal" => Len(T[p].child) = Len(T[p].keys) + 1

\* c is a child of p, one level below.
Under(T, lev, p, c) == T[c].kind # "none" /\ T[c].parent = p /\ lev[c] + 1 = lev[p]

\* The parent of c has c as a child.
HasPlace(T, c) ==
    /\ T[T[c].parent].kind = "internal"
    /\ \E i \in 1..Len(T[T[c].parent].child) : T[T[c].parent].child[i] = c

\* Parents and children name each other, and the leaves are at level 0.
Family(T, lev) ==
    /\ lev \in [Place -> Nat]
    /\ \A p \in Place : T[p].kind = "leaf" => lev[p] = 0
    /\ \A p \in Place : T[p].kind = "internal" =>
          \A i \in 1..Len(T[p].child) : Under(T, lev, p, T[p].child[i])
    /\ \A c \in Page : T[c].kind # "none" => lev[c] < lev[0] /\ HasPlace(T, c)

\* lo is where the keys of a node begin: the first child begins where its parent
\* does, and each of the others at the key in front of it.
Begins(T, lo, p) ==
    \A i \in 1..Len(T[p].child) :
        lo[T[p].child[i]] = IF i = 1 THEN lo[p] ELSE T[p].keys[i - 1]

\* The keys of p are in order and not in front of its beginning.
KeysInOrder(T, lo, p) ==
    /\ Ascending(T[p].keys)
    /\ \A i \in 1..Len(T[p].keys) :
          /\ lo[p] <= T[p].keys[i]
          /\ T[p].kind = "internal" => lo[p] < T[p].keys[i]

\* Two nodes of one level do not begin at the same key, and the keys of the one
\* in front end before the other begins.
Apart(T, lo, p, q) ==
    /\ lo[p] = lo[q] => p = q
    /\ lo[p] < lo[q] => \A i \in 1..Len(T[p].keys) : T[p].keys[i] < lo[q]

\* The nodes of T, keys and beginnings lo, are in order.
Ordered(T, lev, lo) ==
    /\ lo \in [Place -> Nat] /\ lo[0] = 0
    /\ \A p \in Place : T[p].kind = "internal" => Begins(T, lo, p)
    /\ \A p \in Place : T[p].kind # "none" => KeysInOrder(T, lo, p)
    /\ \A p, q \in Place : T[p].kind # "none" /\ T[q].kind # "none" /\ lev[p] = lev[q] =>
          Apart(T, lo, p, q)

\* T is a tree: of nodes of their kinds, with parents and children, in
\* order.
IsTree(T, lev, lo) == Shaped(T) /\ Family(T, lev) /\ Ordered(T, lev, lo)

\* What the nodes of a tree are made of.
LEMMA NodeFields ==
    ASSUME NEW T, Shaped(T), NEW p \in Place
    PROVE  /\ T[p].kind \in {"none", "leaf", "internal"}
           /\ T[p].keys \in Seq(Key) /\ T[p].keys \in Seq(Nat) /\ T[p].child \in Seq(Page)
           /\ T[p].parent \in Place /\ T[p].prev \in Place /\ T[p].next \in Place
           /\ Len(T[p].keys) \in Nat /\ Len(T[p].child) \in Nat
           /\ \A i \in 1..Len(T[p].keys) : T[p].keys[i] \in Key /\ T[p].keys[i] \in Nat
           /\ \A i \in 1..Len(T[p].child) : T[p].child[i] \in Page
<1>1. T[p] \in Node
  BY DEF Shaped
<1>2. /\ T[p].kind \in {"none", "leaf", "internal"}
      /\ T[p].keys \in Seq(Key) /\ T[p].child \in Seq(Page)
      /\ T[p].parent \in PageOrNone /\ T[p].prev \in PageOrNone /\ T[p].next \in PageOrNone
  BY <1>1 DEF Node
<1>3. PageOrNone = Place
  BY BoundAssumption DEF PageOrNone, Place, Page, NoPage
<1>4. Key \subseteq Nat
  BY KeyAssumption
<1>5. /\ Len(T[p].keys) \in Nat /\ Len(T[p].child) \in Nat
      /\ \A i \in 1..Len(T[p].keys) : T[p].keys[i] \in Key
      /\ \A i \in 1..Len(T[p].child) : T[p].child[i] \in Page
  BY <1>2, SeqPlaces
<1>6. T[p].keys \in Seq(Nat)
  BY <1>2, <1>4, SeqMonotonic
<1> QED BY <1>2, <1>3, <1>4, <1>5, <1>6

\* Pages are places, and all but 0 of the places.
LEMMA Places == Page \subseteq Place /\ 0 \in Place /\ Page = Place \ {0}
BY BoundAssumption DEF Place, Page

\* The leaves are the nodes of level 0.
LEMMA UpperNodes ==
    ASSUME NEW T, NEW lev, Shaped(T), Family(T, lev), NEW p \in Place, T[p].kind = "internal"
    PROVE  lev[p] > 0
<1>1. 1 \in 1..Len(T[p].child)
  BY NodeFields DEF Shaped
<1>2. Under(T, lev, p, T[p].child[1]) /\ T[p].child[1] \in Place
  BY <1>1, NodeFields, Places DEF Family
<1>3. lev[T[p].child[1]] \in Nat /\ lev[p] \in Nat
  BY <1>2 DEF Family
<1> QED BY <1>2, <1>3 DEF Under

\* A node above the leaves has a first child, which begins where the node does.
LEMMA FirstChild ==
    ASSUME NEW T, NEW lev, NEW lo, IsTree(T, lev, lo),
           NEW p \in Place, T[p].kind # "none", lev[p] > 0
    PROVE  /\ T[p].kind = "internal" /\ 1 \in 1..Len(T[p].child)
           /\ T[p].child[1] \in Page /\ T[T[p].child[1]].kind # "none"
           /\ lev[T[p].child[1]] + 1 = lev[p] /\ lo[T[p].child[1]] = lo[p]
<1>1. T[p].kind = "internal"
  BY NodeFields DEF IsTree, Family
<1>2. 1 \in 1..Len(T[p].child)
  BY <1>1, NodeFields DEF IsTree, Shaped
<1>3. Under(T, lev, p, T[p].child[1])
  BY <1>1, <1>2 DEF IsTree, Family
<1>4. lo[T[p].child[1]] = lo[p]
  BY <1>1, <1>2 DEF IsTree, Ordered, Begins
<1>5. T[p].child[1] \in Page
  BY <1>2, NodeFields DEF IsTree
<1> QED BY <1>1, <1>2, <1>3, <1>4, <1>5 DEF Under

\* At each level below a node there is one that begins where it does.
LEMMA Beneath ==
    ASSUME NEW T, NEW lev, NEW lo, IsTree(T, lev, lo),
           NEW s \in Place, T[s].kind # "none", NEW l \in 0..lev[s]
    PROVE  \E t \in Place : T[t].kind # "none" /\ lev[t] = l /\ lo[t] = lo[s]
<1>1. lev \in [Place -> Nat]
  BY DEF IsTree, Family
<1> DEFINE At(n) == \E t \in Place : T[t].kind # "none" /\ lev[t] = lev[s] - n /\ lo[t] = lo[s]
           B == {n \in Nat : At(n)}
<1>2. 0 \in B
  BY <1>1
<1>3. ASSUME NEW n \in 0..lev[s] - 1, n \in B PROVE n + 1 \in B
  <2>1. PICK t \in Place : T[t].kind # "none" /\ lev[t] = lev[s] - n /\ lo[t] = lo[s]
    BY <1>3
  <2>2. lev[t] > 0
    BY <1>1, <2>1
  <2> DEFINE u == T[t].child[1]
  <2>3. u \in Page /\ T[u].kind # "none" /\ lev[u] + 1 = lev[t] /\ lo[u] = lo[t]
    BY <2>1, <2>2, FirstChild
  <2> HIDE DEF u
  <2>4. u \in Place /\ lev[u] = lev[s] - (n + 1)
    BY <1>1, <2>1, <2>3, Places
  <2> QED BY <2>1, <2>3, <2>4
<1>4. lev[s] \in Nat /\ lev[s] - l \in 0..lev[s] /\ lev[s] - (lev[s] - l) = l
  BY <1>1
<1> HIDE DEF B
<1>5. 0..lev[s] \subseteq B
  BY <1>2, <1>3, <1>4, UpTo
<1>6. lev[s] - l \in B
  BY <1>4, <1>5
<1> QED BY <1>4, <1>6 DEF B

\* A child of p other than the first begins at the key in front of it.
LEMMA Separators ==
    ASSUME NEW T, NEW lev, NEW lo, IsTree(T, lev, lo),
           NEW p \in Place, T[p].kind = "internal", NEW i \in 1..Len(T[p].keys)
    PROVE  /\ i + 1 \in 1..Len(T[p].child) /\ T[p].child[i + 1] \in Page
           /\ Under(T, lev, p, T[p].child[i + 1])
           /\ lo[T[p].child[i + 1]] = T[p].keys[i]
<1>1. Len(T[p].child) = Len(T[p].keys) + 1 /\ Len(T[p].keys) \in Nat
  BY NodeFields DEF IsTree, Shaped
<1>2. i + 1 \in 1..Len(T[p].child) /\ i + 1 # 1 /\ (i + 1) - 1 = i
  BY <1>1
<1>3. Under(T, lev, p, T[p].child[i + 1])
  BY <1>2 DEF IsTree, Family
<1>4. Begins(T, lo, p)
  BY DEF IsTree, Ordered
<1>5. lo[T[p].child[i + 1]] = T[p].keys[i]
  BY <1>2, <1>4 DEF Begins
<1>6. T[p].child[i + 1] \in Page
  BY <1>2, NodeFields DEF IsTree
<1> QED BY <1>2, <1>3, <1>5, <1>6

\* No key separates children in two nodes: not of different levels ...
LEMMA SeparatorAbove ==
    ASSUME NEW T, NEW lev, NEW lo, IsTree(T, lev, lo),
           NEW p \in Place, T[p].kind = "internal", NEW i \in 1..Len(T[p].keys),
           NEW q \in Place, T[q].kind = "internal", NEW j \in 1..Len(T[q].keys),
           T[p].keys[i] = T[q].keys[j], lev[q] < lev[p]
    PROVE  FALSE
<1> DEFINE c == T[p].child[i + 1]
<1>1. c \in Place /\ T[c].kind # "none" /\ lev[c] + 1 = lev[p] /\ lo[c] = T[p].keys[i]
  BY Separators, Places DEF Under
<1> HIDE DEF c
<1>2. lev \in [Place -> Nat] /\ lo \in [Place -> Nat]
  BY DEF IsTree, Family, Ordered
<1>3. lev[q] \in 0..lev[c]
  BY <1>1, <1>2
<1>4. PICK t \in Place : T[t].kind # "none" /\ lev[t] = lev[q] /\ lo[t] = lo[c]
  BY <1>1, <1>3, Beneath
<1>5. Apart(T, lo, q, t)
  BY <1>4 DEF IsTree, Ordered
<1>6. lo[q] < T[q].keys[j]
  BY DEF IsTree, Ordered, KeysInOrder
<1>7. lo[q] < lo[t]
  BY <1>1, <1>4, <1>6
<1>8. T[q].keys[j] < lo[t]
  BY <1>5, <1>7 DEF Apart
<1>9. T[q].keys[j] \in Nat
  BY NodeFields DEF IsTree
<1> QED BY <1>1, <1>2, <1>4, <1>8, <1>9

\* ... nor of one.
LEMMA SeparatorOnce ==
    ASSUME NEW T, NEW lev, NEW lo, IsTree(T, lev, lo),
           NEW p \in Place, T[p].kind = "internal", NEW i \in 1..Len(T[p].keys),
           NEW q \in Place, T[q].kind = "internal", NEW j \in 1..Len(T[q].keys),
           T[p].keys[i] = T[q].keys[j]
    PROVE  p = q /\ i = j
<1>1. lev \in [Place -> Nat] /\ lo \in [Place -> Nat]
  BY DEF IsTree, Family, Ordered
<1>2. lev[p] = lev[q]
  <2>1. ~(lev[q] < lev[p])
    BY SeparatorAbove
  <2>2. ~(lev[p] < lev[q])
    BY SeparatorAbove
  <2> QED BY <1>1, <2>1, <2>2
<1> DEFINE c == T[p].child[i + 1]
           d == T[q].child[j + 1]
<1>3. /\ c \in Place /\ T[c].kind # "none" /\ T[c].parent = p /\ lev[c] + 1 = lev[p]
      /\ lo[c] = T[p].keys[i]
  BY Separators, Places DEF Under
<1>4. /\ d \in Place /\ T[d].kind # "none" /\ T[d].parent = q /\ lev[d] + 1 = lev[q]
      /\ lo[d] = T[q].keys[j]
  BY Separators, Places DEF Under
<1> HIDE DEF c, d
<1>5. lev[c] = lev[d] /\ lo[c] = lo[d]
  BY <1>1, <1>2, <1>3, <1>4
<1>6. c = d
  BY <1>3, <1>4, <1>5 DEF IsTree, Ordered, Apart
<1>7. p = q
  BY <1>3, <1>4, <1>6
<1>8. Ascending(T[p].keys) /\ \A k \in 1..Len(T[p].keys) : T[p].keys[k] \in Nat
  BY NodeFields DEF IsTree, Ordered, KeysInOrder
<1>9. i = j
  <2>1. Len(T[p].keys) \in Nat
    BY NodeFields DEF IsTree
  <2>2. i < j \/ i = j \/ j < i
    BY <2>1, <1>7
  <2> QED BY <1>7, <1>8, <2>2 DEF Ascending
<1> QED BY <1>7, <1>9

-----------------------------------------------------------------------------
(* Changing a tree *)

\* U has the nodes of T where T has them, with the same children.
SameNodes(T, U) ==
    /\ U \in [Place -> Node]
    /\ \A q \in Place : /\ U[q].kind = T[q].kind
                        /\ U[q].child = T[q].child
                        /\ U[q].parent = T[q].parent
    /\ \A q \in Place : T[q].kind = "none" => U[q] = T[q]

\* So U is a tree as far as parents and children go.
LEMMA SameFamily ==
    ASSUME NEW T, NEW lev, NEW U, Family(T, lev), SameNodes(T, U), Shaped(T)
    PROVE  Family(U, lev)
<1>1. \A p \in Place : U[p].kind = T[p].kind /\ U[p].child = T[p].child /\ U[p].parent = T[p].parent
  BY DEF SameNodes
<1>2. lev \in [Place -> Nat]
  BY DEF Family
<1>3. \A p \in Place : U[p].kind = "leaf" => lev[p] = 0
  BY <1>1 DEF Family
<1>4. ASSUME NEW p \in Place, U[p].kind = "internal", NEW i \in 1..Len(U[p].child)
      PROVE  Under(U, lev, p, U[p].child[i])
  <2>1. T[p].kind = "internal" /\ i \in 1..Len(T[p].child) /\ U[p].child[i] = T[p].child[i]
    BY <1>1, <1>4
  <2>2. T[p].child[i] \in Place
    BY <2>1, NodeFields, Places
  <2>3. Under(T, lev, p, T[p].child[i])
    BY <2>1 DEF Family
  <2> QED BY <1>1, <2>1, <2>2, <2>3 DEF Under
<1>5. ASSUME NEW c \in Page, U[c].kind # "none"
      PROVE  lev[c] < lev[0] /\ HasPlace(U, c)
  <2>1. c \in Place /\ T[c].kind # "none"
    BY <1>1, <1>5, Places
  <2>2. lev[c] < lev[0] /\ HasPlace(T, c)
    BY <2>1 DEF Family
  <2>3. T[c].parent \in Place /\ U[c].parent = T[c].parent
    BY <1>1, <2>1, NodeFields
  <2>4. U[T[c].parent].kind = T[T[c].parent].kind /\ U[T[c].parent].child = T[T[c].parent].child
    BY <1>1, <2>3
  <2> QED BY <2>2, <2>3, <2>4 DEF HasPlace
<1> QED BY <1>2, <1>3, <1>4, <1>5 DEF Family

\* Each node keeps what belongs to its kind.
LEMMA SameShape ==
    ASSUME NEW T, NEW U, SameNodes(T, U), Shaped(T),
           \A q \in Place : Len(U[q].keys) = Len(T[q].keys) \/ T[q].kind # "internal"
    PROVE  Shaped(U)
<1>1. \A p \in Place : U[p].kind = T[p].kind /\ U[p].child = T[p].child
  BY DEF SameNodes
<1>2. 0 \in Place
  BY Places
<1> QED BY <1>1, <1>2 DEF SameNodes, Shaped

\* The keys of the leaves of U are in order, if its nodes begin as lo says.
LeavesInOrder(U, lo) ==
    /\ \A q \in Place : U[q].kind = "leaf" => KeysInOrder(U, lo, q)
    /\ \A q, r \in Place : U[q].kind = "leaf" /\ U[r].kind = "leaf" /\ lo[q] < lo[r] =>
          \A i \in 1..Len(U[q].keys) : U[q].keys[i] < lo[r]

\* Other keys in the leaves.
LEMMA LeafKeysChange ==
    ASSUME NEW T, NEW lev, NEW lo, IsTree(T, lev, lo), NEW U, SameNodes(T, U),
           \A q \in Place : T[q].kind = "internal" => U[q].keys = T[q].keys,
           LeavesInOrder(U, lo)
    PROVE  IsTree(U, lev, lo)
<1>1. Shaped(U)
  BY SameShape DEF IsTree
<1>2. Family(U, lev)
  BY SameFamily DEF IsTree
<1>3. \A p \in Place : /\ U[p].kind = T[p].kind /\ U[p].child = T[p].child
                       /\ U[p].kind = "internal" => U[p].keys = T[p].keys
                       /\ U[p].kind \in {"none", "leaf", "internal"}
  BY NodeFields DEF SameNodes, IsTree
<1>4. lo \in [Place -> Nat] /\ lo[0] = 0 /\ lev \in [Place -> Nat]
  BY DEF IsTree, Ordered, Family
<1>5. ASSUME NEW p \in Place, U[p].kind = "internal" PROVE Begins(U, lo, p)
  <2>1. Begins(T, lo, p) /\ U[p].child = T[p].child /\ U[p].keys = T[p].keys
    BY <1>3, <1>5 DEF IsTree, Ordered
  <2> QED BY <2>1 DEF Begins
<1>6. ASSUME NEW p \in Place, U[p].kind # "none" PROVE KeysInOrder(U, lo, p)
  <2>1. CASE U[p].kind = "leaf"
    BY <2>1 DEF LeavesInOrder
  <2>2. CASE U[p].kind = "internal"
    <3>1. KeysInOrder(T, lo, p) /\ U[p].keys = T[p].keys /\ U[p].kind = T[p].kind
      BY <1>3, <2>2 DEF IsTree, Ordered
    <3> QED BY <3>1 DEF KeysInOrder
  <2> QED BY <1>3, <1>6, <2>1, <2>2
<1>7. ASSUME NEW p \in Place, NEW q \in Place, U[p].kind # "none", U[q].kind # "none", lev[p] = lev[q]
      PROVE  Apart(U, lo, p, q)
  <2>1. Apart(T, lo, p, q)
    BY <1>3, <1>7 DEF IsTree, Ordered
  <2>2. CASE U[p].kind = "internal"
    <3>1. U[p].keys = T[p].keys
      BY <1>3, <2>2
    <3> QED BY <2>1, <3>1 DEF Apart
  <2>3. CASE U[p].kind = "leaf"
    <3>1. lev[q] = 0
      BY <1>2, <1>7, <2>3 DEF Family
    <3>2. U[q].kind = "leaf"
      BY <1>1, <1>2, <1>3, <1>4, <1>7, <3>1, UpperNodes
    <3> QED BY <2>1, <2>3, <3>2 DEF Apart, LeavesInOrder
  <2> QED BY <1>3, <1>7, <2>2, <2>3
<1> QED BY <1>1, <1>2, <1>4, <1>5, <1>6, <1>7 DEF IsTree, Ordered

\* Every node begins where a leaf does.
LEMMA LeafBeneath ==
    ASSUME NEW T, NEW lev, NEW lo, IsTree(T, lev, lo), NEW s \in Place, T[s].kind # "none"
    PROVE  \E t \in Place : T[t].kind = "leaf" /\ lo[t] = lo[s]
<1>1. lev[s] \in Nat /\ 0 \in 0..lev[s]
  BY DEF IsTree, Family
<1>2. PICK t \in Place : T[t].kind # "none" /\ lev[t] = 0 /\ lo[t] = lo[s]
  BY <1>1, Beneath
<1>3. T[t].kind = "leaf"
  <2>1. T[t].kind # "internal"
    BY <1>2, UpperNodes DEF IsTree
  <2> QED BY <1>2, <2>1, NodeFields DEF IsTree
<1> QED BY <1>2, <1>3

\* Key x separates what key y does: no leaf begins at y or between the two.
SamePlace(T, lo, x, y) ==
    \A q \in Place : T[q].kind = "leaf" =>
        /\ lo[q] < x => lo[q] < y
        /\ x < lo[q] => y < lo[q]

\* The nodes that begin at x are taken to begin at y.
Moved(lo, x, y) == [q \in Place |-> IF lo[q] = x THEN y ELSE lo[q]]

\* The order in which the nodes begin is the same.
SameOrder(T, lo, new) ==
    \A q, r \in Place : T[q].kind # "none" /\ T[r].kind # "none" =>
        (new[q] < new[r] <=> lo[q] < lo[r])

\* That is so where all that begins at x begins at y instead.
LEMMA MovedOrder ==
    ASSUME NEW T, NEW lev, NEW lo, IsTree(T, lev, lo), NEW x \in Nat, NEW y \in Nat,
           SamePlace(T, lo, x, y)
    PROVE  /\ Moved(lo, x, y) \in [Place -> Nat]
           /\ SameOrder(T, lo, Moved(lo, x, y))
<1>1. lo \in [Place -> Nat]
  BY DEF IsTree, Ordered
<1>2. ASSUME NEW q \in Place, T[q].kind # "none"
      PROVE  (lo[q] < x => lo[q] < y) /\ (x < lo[q] => y < lo[q])
  <2>1. PICK t \in Place : T[t].kind = "leaf" /\ lo[t] = lo[q]
    BY <1>2, LeafBeneath
  <2> QED BY <2>1 DEF SamePlace
<1>3. Moved(lo, x, y) \in [Place -> Nat]
  BY <1>1 DEF Moved
<1>4. ASSUME NEW q \in Place, NEW r \in Place, T[q].kind # "none", T[r].kind # "none"
      PROVE  Moved(lo, x, y)[q] < Moved(lo, x, y)[r] <=> lo[q] < lo[r]
  <2>1. /\ Moved(lo, x, y)[q] = IF lo[q] = x THEN y ELSE lo[q]
        /\ Moved(lo, x, y)[r] = IF lo[r] = x THEN y ELSE lo[r]
    BY DEF Moved
  <2>2. lo[q] \in Nat /\ lo[r] \in Nat
    BY <1>1
  <2> QED BY <1>2, <1>4, <2>1, <2>2
<1> QED BY <1>3, <1>4 DEF SameOrder

\* Key c of node p becomes y, and the keys in the leaves are others.
LEMMA BoundaryMoved ==
    ASSUME NEW T, NEW lev, NEW lo, IsTree(T, lev, lo), NEW U, SameNodes(T, U),
           NEW p \in Place, T[p].kind = "internal", NEW c \in 1..Len(T[p].keys), NEW y \in Key,
           \A q \in Place : T[q].kind = "internal" /\ q # p => U[q].keys = T[q].keys,
           U[p].keys = [T[p].keys EXCEPT ![c] = y],
           SamePlace(T, lo, T[p].keys[c], y),
           LeavesInOrder(U, Moved(lo, T[p].keys[c], y))
    PROVE  IsTree(U, lev, Moved(lo, T[p].keys[c], y))
<1> DEFINE x == T[p].keys[c]
           new == Moved(lo, x, y)
           F(v) == IF v = x THEN y ELSE v
<1>0. /\ T[p].keys \in Seq(Nat) /\ Len(T[p].keys) \in Nat /\ x \in Nat /\ y \in Nat
      /\ \A i \in 1..Len(T[p].keys) : T[p].keys[i] \in Nat
  BY NodeFields, KeyAssumption DEF IsTree
<1>1. /\ Len(U[p].keys) = Len(T[p].keys)
      /\ \A i \in 1..Len(T[p].keys) : U[p].keys[i] = IF i = c THEN y ELSE T[p].keys[i]
  BY <1>0, ExceptSeq
<1>2. Shaped(U)
  BY <1>1, SameShape DEF IsTree
<1>3. Family(U, lev)
  BY SameFamily DEF IsTree
<1>4. \A q \in Place : /\ U[q].kind = T[q].kind /\ U[q].child = T[q].child
                       /\ U[q].kind \in {"none", "leaf", "internal"}
  BY NodeFields DEF SameNodes, IsTree
<1>5. lo \in [Place -> Nat] /\ lo[0] = 0 /\ lev \in [Place -> Nat]
  BY DEF IsTree, Ordered, Family
<1>6. new \in [Place -> Nat] /\ SameOrder(T, lo, new)
  BY <1>0, MovedOrder
<1>7. \A q \in Place : new[q] = F(lo[q])
  BY DEF Moved
<1>8. ASSUME NEW q \in Place, T[q].kind = "internal"
      PROVE  /\ Len(U[q].keys) = Len(T[q].keys)
             /\ \A i \in 1..Len(T[q].keys) : U[q].keys[i] = F(T[q].keys[i])
  <2>1. CASE q = p
    <3>1. \A i \in 1..Len(T[p].keys) : T[p].keys[i] = x => i = c
      BY SeparatorOnce
    <3> QED BY <1>1, <2>1, <3>1
  <2>2. CASE q # p
    <3>1. U[q].keys = T[q].keys
      BY <1>8, <2>2
    <3>2. \A i \in 1..Len(T[q].keys) : T[q].keys[i] # x
      BY <1>8, <2>2, SeparatorOnce
    <3> QED BY <3>1, <3>2
  <2> QED BY <2>1, <2>2
<1>9. ASSUME NEW q \in Place, T[q].kind = "internal", NEW i \in 1..Len(T[q].keys)
      PROVE  /\ i + 1 \in 1..Len(T[q].child) /\ T[q].child[i + 1] \in Place
             /\ T[T[q].child[i + 1]].kind # "none"
             /\ lo[T[q].child[i + 1]] = T[q].keys[i]
             /\ new[T[q].child[i + 1]] = U[q].keys[i]
  <2>1. /\ i + 1 \in 1..Len(T[q].child) /\ T[q].child[i + 1] \in Place
        /\ T[T[q].child[i + 1]].kind # "none"
        /\ lo[T[q].child[i + 1]] = T[q].keys[i]
    BY <1>9, Separators, Places, SMTT(60) DEF Under
  <2> QED BY <1>7, <1>8, <1>9, <2>1
<1>10. new[0] = 0
  <2>1. lo[p] < x
    BY DEF IsTree, Ordered, KeysInOrder
  <2> QED BY <1>0, <1>5, <1>7, <2>1, Places
<1> HIDE DEF new, x, F
<1>11. ASSUME NEW q \in Place, U[q].kind = "internal" PROVE Begins(U, new, q)
  <2>1. T[q].kind = "internal" /\ Begins(T, lo, q)
    BY <1>4, <1>11 DEF IsTree, Ordered
  <2>2. Len(T[q].child) = Len(T[q].keys) + 1 /\ Len(T[q].keys) \in Nat
    BY <2>1, NodeFields DEF IsTree, Shaped
  <2>3. ASSUME NEW i \in 1..Len(U[q].child)
        PROVE  new[U[q].child[i]] = IF i = 1 THEN new[q] ELSE U[q].keys[i - 1]
    <3>1. i \in 1..Len(T[q].child) /\ U[q].child[i] = T[q].child[i]
      BY <1>4
    <3>2. CASE i = 1
      <4>1. lo[T[q].child[1]] = lo[q] /\ T[q].child[1] \in Place
        BY <2>1, <3>1, <3>2, NodeFields, Places DEF Begins, IsTree
      <4> QED BY <1>7, <3>1, <3>2, <4>1
    <3>3. CASE i # 1
      <4>1. i - 1 \in 1..Len(T[q].keys) /\ (i - 1) + 1 = i
        BY <2>2, <3>1, <3>3
      <4>2. new[T[q].child[(i - 1) + 1]] = U[q].keys[i - 1]
        BY <1>9, <2>1, <4>1
      <4> QED BY <3>1, <3>3, <4>1, <4>2
    <3> QED BY <3>2, <3>3
  <2> QED BY <2>3 DEF Begins
<1>12. ASSUME NEW q \in Place, U[q].kind # "none" PROVE KeysInOrder(U, new, q)
  <2>1. CASE U[q].kind = "leaf"
    BY <2>1 DEF LeavesInOrder, new, x
  <2>2. CASE U[q].kind = "internal"
    <3>1. T[q].kind = "internal" /\ KeysInOrder(T, lo, q) /\ Len(U[q].keys) = Len(T[q].keys)
      BY <1>4, <1>8, <2>2 DEF IsTree, Ordered
    <3>2. ASSUME NEW i \in 1..Len(T[q].keys), NEW j \in 1..Len(T[q].keys), i < j
          PROVE  U[q].keys[i] < U[q].keys[j]
      <4>1. T[q].keys[i] < T[q].keys[j]
        BY <3>1, <3>2 DEF KeysInOrder, Ascending
      <4>2. lo[T[q].child[i + 1]] < lo[T[q].child[j + 1]]
        BY <1>9, <3>1, <4>1
      <4>3. new[T[q].child[i + 1]] < new[T[q].child[j + 1]]
        BY <1>6, <1>9, <3>1, <4>2 DEF SameOrder
      <4> QED BY <1>9, <3>1, <4>3
    <3>3. ASSUME NEW i \in 1..Len(T[q].keys) PROVE new[q] < U[q].keys[i]
      <4>1. lo[q] < lo[T[q].child[i + 1]]
        BY <1>9, <3>1 DEF KeysInOrder
      <4>2. new[q] < new[T[q].child[i + 1]]
        BY <1>6, <1>9, <3>1, <4>1 DEF SameOrder
      <4> QED BY <1>9, <3>1, <4>2
    <3>4. \A i \in 1..Len(T[q].keys) : new[q] <= U[q].keys[i]
      <4>1. \A i \in 1..Len(T[q].keys) : U[q].keys[i] \in Nat
        BY <1>2, <3>1, NodeFields
      <4> QED BY <1>6, <3>3, <4>1, SMTT(60)
    <3> QED BY <3>1, <3>2, <3>3, <3>4 DEF KeysInOrder, Ascending
  <2> QED BY <1>4, <1>12, <2>1, <2>2
<1>13. ASSUME NEW q \in Place, NEW r \in Place, U[q].kind # "none", U[r].kind # "none", lev[q] = lev[r]
       PROVE  Apart(U, new, q, r)
  <2>1. Apart(T, lo, q, r) /\ T[q].kind # "none" /\ T[r].kind # "none"
    BY <1>4, <1>13 DEF IsTree, Ordered
  <2>2. ASSUME new[q] = new[r] PROVE q = r
    <3>1. ~(lo[q] < lo[r]) /\ ~(lo[r] < lo[q])
      BY <1>6, <2>1, <2>2 DEF SameOrder
    <3>2. lo[q] = lo[r]
      BY <1>5, <3>1
    <3> QED BY <2>1, <3>2 DEF Apart
  <2>3. ASSUME new[q] < new[r], NEW i \in 1..Len(U[q].keys) PROVE U[q].keys[i] < new[r]
    <3>1. lo[q] < lo[r]
      BY <1>6, <2>1, <2>3 DEF SameOrder
    <3>2. CASE U[q].kind = "internal"
      <4>1. T[q].kind = "internal" /\ i \in 1..Len(T[q].keys)
        BY <1>4, <1>8, <2>3, <3>2
      <4>2. lo[T[q].child[i + 1]] < lo[r]
        BY <1>9, <2>1, <3>1, <4>1 DEF Apart
      <4>3. new[T[q].child[i + 1]] < new[r]
        BY <1>6, <1>9, <2>1, <4>1, <4>2 DEF SameOrder
      <4> QED BY <1>9, <4>1, <4>3
    <3>3. CASE U[q].kind = "leaf"
      <4>1. lev[r] = 0
        BY <1>3, <1>13, <3>3 DEF Family
      <4>2. U[r].kind = "leaf"
        BY <1>2, <1>3, <1>4, <1>5, <1>13, <4>1, UpperNodes
      <4> QED BY <2>3, <3>3, <4>2 DEF LeavesInOrder, new, x
    <3> QED BY <1>4, <1>13, <3>2, <3>3
  <2> QED BY <2>2, <2>3 DEF Apart
<1>14. Ordered(U, lev, new)
  BY <1>6, <1>10, <1>11, <1>12, <1>13 DEF Ordered
<1> QED BY <1>2, <1>3, <1>14 DEF IsTree, new, x

-----------------------------------------------------------------------------
(* Places of children *)

\* The children of a node are different.
LEMMA ChildOnce ==
    ASSUME NEW T, NEW lev, NEW lo, IsTree(T, lev, lo), NEW p \in Place, T[p].kind = "internal",
           NEW i \in 1..Len(T[p].child), NEW j \in 1..Len(T[p].child),
           T[p].child[i] = T[p].child[j]
    PROVE  i = j
<1> SUFFICES ASSUME NEW h \in 1..Len(T[p].child), NEW k \in 1..Len(T[p].child), h < k,
                    T[p].child[h] = T[p].child[k]
             PROVE  FALSE
  <2>1. Len(T[p].child) \in Nat
    BY NodeFields DEF IsTree
  <2>2. i < j \/ j < i \/ i = j
    BY <2>1
  <2> QED BY <2>2
<1>1. /\ Len(T[p].keys) \in Nat /\ Len(T[p].child) = Len(T[p].keys) + 1
      /\ \A i_1 \in 1..Len(T[p].keys) : T[p].keys[i_1] \in Nat
  BY NodeFields DEF IsTree, Shaped
<1>2. Begins(T, lo, p) /\ KeysInOrder(T, lo, p)
  BY DEF IsTree, Ordered
<1>3. k # 1 /\ k - 1 \in 1..Len(T[p].keys)
  BY <1>1
<1>4. lo[T[p].child[k]] = T[p].keys[k - 1]
  BY <1>2, <1>3 DEF Begins
<1>5. CASE h = 1
  <2>1. lo[T[p].child[h]] = lo[p]
    BY <1>2, <1>5 DEF Begins
  <2>2. lo[p] < T[p].keys[k - 1]
    BY <1>2, <1>3 DEF KeysInOrder
  <2>3. lo[p] \in Nat
    BY DEF IsTree, Ordered
  <2> QED BY <1>1, <1>3, <1>4, <2>1, <2>2, <2>3
<1>6. CASE h # 1
  <2>1. h - 1 \in 1..Len(T[p].keys) /\ h - 1 < k - 1
    BY <1>1, <1>6
  <2>2. lo[T[p].child[h]] = T[p].keys[h - 1]
    BY <1>2, <1>6 DEF Begins
  <2>3. T[p].keys[h - 1] < T[p].keys[k - 1]
    BY <1>2, <1>3, <2>1 DEF KeysInOrder, Ascending
  <2>4. T[p].keys[h - 1] = T[p].keys[k - 1]
    BY <1>4, <2>2
  <2>5. T[p].keys[h - 1] \in Nat
    BY <1>1, <2>1
  <2> QED BY <2>3, <2>4, <2>5
<1> QED BY <1>5, <1>6

\* The parent of a node, and its place there.
LEMMA ParentFacts ==
    ASSUME NEW T, NEW lev, NEW lo, IsTree(T, lev, lo), NEW p \in Page, T[p].kind # "none"
    PROVE  /\ T[p].parent \in Place /\ T[T[p].parent].kind = "internal"
           /\ lev[p] + 1 = lev[T[p].parent] /\ T[p].parent # p
           /\ lo[T[p].parent] <= lo[p]
           /\ \E j \in 1..Len(T[T[p].parent].child) : T[T[p].parent].child[j] = p
<1>1. p \in Place
  BY Places
<1>2. T[p].parent \in Place
  BY <1>1, NodeFields DEF IsTree
<1>3. HasPlace(T, p)
  BY DEF IsTree, Family
<1> DEFINE r == T[p].parent
<1>4. PICK j \in 1..Len(T[r].child) : T[r].child[j] = p
  BY <1>3 DEF HasPlace
<1>5. T[r].kind = "internal"
  BY <1>3 DEF HasPlace
<1>6. Under(T, lev, r, p)
  BY <1>2, <1>4, <1>5 DEF IsTree, Family
<1>7. lev[p] \in Nat /\ lev[r] \in Nat /\ lo[p] \in Nat /\ lo[r] \in Nat
  BY <1>1, <1>2 DEF IsTree, Family, Ordered
<1>8. lo[r] <= lo[p]
  <2>1. lo[p] = IF j = 1 THEN lo[r] ELSE T[r].keys[j - 1]
    BY <1>2, <1>4, <1>5 DEF IsTree, Ordered, Begins
  <2>2. CASE j # 1
    <3>1. j - 1 \in 1..Len(T[r].keys)
      BY <1>2, <1>5, <2>2, NodeFields DEF IsTree, Shaped
    <3>2. lo[r] < T[r].keys[j - 1] /\ T[r].keys[j - 1] \in Nat
      BY <1>2, <1>5, <3>1, NodeFields DEF IsTree, Ordered, KeysInOrder
    <3> QED BY <1>7, <2>1, <2>2, <3>2
  <2> QED BY <1>7, <2>1, <2>2
<1>9. lev[p] + 1 = lev[r] /\ r # p
  BY <1>6, <1>7 DEF Under
<1> QED BY <1>2, <1>4, <1>5, <1>8, <1>9

\* A child of a node names it as its parent.
LEMMA ChildFacts ==
    ASSUME NEW T, NEW lev, NEW lo, IsTree(T, lev, lo), NEW p \in Place, T[p].kind = "internal",
           NEW i \in Int, 1 <= i, i <= Len(T[p].child)
    PROVE  /\ T[p].child[i] \in Page /\ T[T[p].child[i]].kind # "none"
           /\ T[T[p].child[i]].parent = p /\ lev[T[p].child[i]] + 1 = lev[p]
           /\ lo[T[p].child[i]] = IF i = 1 THEN lo[p] ELSE T[p].keys[i - 1]
<1>1. T[p].child[i] \in Page
  BY NodeFields DEF IsTree
<1>2. Under(T, lev, p, T[p].child[i]) /\ Begins(T, lo, p)
  BY DEF IsTree, Family, Ordered
<1> QED BY <1>1, <1>2 DEF Under, Begins

\* p is child j of r.
ChildAt(T, r, j, p) == j \in 1..Len(T[r].child) /\ T[r].child[j] = p

\* k is where node p begins, or a key of it.
KeyOf(T, lo, p, k) == k \in Nat /\ (k = lo[p] \/ \E i \in 1..Len(T[p].keys) : k = T[p].keys[i])

\* k has its place between the keys j - 1 and j.
PlaceIn(ks, k, j) ==
    /\ Count(ks, k) = j - 1
    /\ j > 1 => ks[j - 1] <= k
    /\ j <= Len(ks) => k < ks[j]

\* The keys of child j of r, and where it begins, are between the keys of r that
\* separate it from the other children.
LEMMA PlaceOf ==
    ASSUME NEW T, NEW lev, NEW lo, IsTree(T, lev, lo), NEW r \in Place, T[r].kind = "internal",
           NEW j, NEW p, ChildAt(T, r, j, p), NEW k, KeyOf(T, lo, p, k)
    PROVE  PlaceIn(T[r].keys, k, j)
<1>0. /\ j \in Int /\ 1 <= j /\ j <= Len(T[r].child) /\ T[r].child[j] = p
      /\ k \in Nat /\ (k = lo[p] \/ \E i \in 1..Len(T[p].keys) : k = T[p].keys[i])
  <2>1. Len(T[r].child) \in Nat
    BY NodeFields DEF IsTree
  <2> QED BY <2>1 DEF ChildAt, KeyOf
<1> DEFINE n == Len(T[r].keys)
<1>1. /\ n \in Nat /\ Len(T[r].child) = n + 1 /\ T[r].keys \in Seq(Nat)
      /\ \A i \in 1..n : T[r].keys[i] \in Nat
  BY NodeFields DEF IsTree, Shaped
<1>2. /\ p \in Page /\ p \in Place /\ T[p].kind # "none" /\ lev[p] + 1 = lev[r]
      /\ lo[p] = IF j = 1 THEN lo[r] ELSE T[r].keys[j - 1]
  BY <1>0, ChildFacts, Places
<1>3. KeysInOrder(T, lo, p) /\ KeysInOrder(T, lo, r)
  BY <1>2 DEF IsTree, Ordered
<1>4. lo[p] \in Nat /\ lo[r] \in Nat /\ lev[p] \in Nat
  BY <1>2 DEF IsTree, Ordered, Family
<1>5. lo[p] <= k
  BY <1>0, <1>3, <1>4 DEF KeysInOrder
<1>6. ASSUME j <= n PROVE k < T[r].keys[j]
  <2>1. j \in 1..n
    BY <1>0, <1>1, <1>6
  <2> DEFINE q == T[r].child[j + 1]
  <2>2. q \in Place /\ T[q].kind # "none" /\ lev[q] + 1 = lev[r] /\ lo[q] = T[r].keys[j]
    BY <2>1, Separators, Places DEF Under
  <2>3. lo[p] < lo[q]
    <3>1. CASE j = 1
      BY <1>2, <1>3, <2>1, <2>2, <3>1 DEF KeysInOrder
    <3>2. CASE j # 1
      <4>1. j - 1 \in 1..n /\ j - 1 < j
        BY <1>0, <1>1, <2>1, <3>2
      <4> QED BY <1>2, <1>3, <2>1, <2>2, <3>2, <4>1 DEF KeysInOrder, Ascending
    <3> QED BY <3>1, <3>2
  <2>4. lev[p] = lev[q]
    <3>1. lev[q] \in Nat
      BY <2>2 DEF IsTree, Family
    <3> QED BY <1>2, <1>4, <2>2, <3>1
  <2>5. Apart(T, lo, p, q)
    BY <1>2, <2>2, <2>4 DEF IsTree, Ordered
  <2> HIDE DEF q
  <2> QED BY <1>0, <2>2, <2>3, <2>5 DEF Apart
<1>7. j > 1 => T[r].keys[j - 1] <= k
  BY <1>0, <1>2, <1>5
<1>8. /\ Count(T[r].keys, k) \in 0..n
      /\ \A i \in 1..n : i <= Count(T[r].keys, k) <=> T[r].keys[i] <= k
  BY <1>0, <1>1, <1>3, CountFacts DEF KeysInOrder
<1>9. Count(T[r].keys, k) = j - 1
  <2>1. ~(j - 1 > Count(T[r].keys, k))
    <3> SUFFICES ASSUME j - 1 > Count(T[r].keys, k) PROVE FALSE
      OBVIOUS
    <3>1. j > 1 /\ j - 1 \in 1..n
      BY <1>0, <1>1, <1>8
    <3> QED BY <1>0, <1>7, <1>8, <3>1
  <2>2. ~(j <= Count(T[r].keys, k))
    <3> SUFFICES ASSUME j <= Count(T[r].keys, k) PROVE FALSE
      OBVIOUS
    <3>1. j \in 1..n /\ j <= n
      BY <1>0, <1>1, <1>8
    <3>2. T[r].keys[j] <= k /\ k < T[r].keys[j] /\ T[r].keys[j] \in Nat
      BY <1>0, <1>1, <1>6, <1>8, <3>1
    <3> QED BY <1>0, <3>2
  <2> QED BY <1>0, <1>1, <1>8, <2>1, <2>2, SMTT(60)
<1> QED BY <1>6, <1>7, <1>9 DEF PlaceIn

\* s is n where left takes the place of child j and right comes after it.
ChildSet(n, s, j, k, left, right) ==
    /\ s \in Node /\ s.kind = n.kind /\ s.parent = n.parent
    /\ s.prev = n.prev /\ s.next = n.next
    /\ Len(s.keys) = Len(n.keys) + 1 /\ Len(s.child) = Len(n.keys) + 2
    /\ \A i \in 1..Len(n.keys) + 1 : s.keys[i] =
          IF i < j THEN n.keys[i] ELSE IF i = j THEN k ELSE n.keys[i - 1]
    /\ \A i \in 1..Len(n.keys) + 2 : s.child[i] =
          IF i < j THEN n.child[i] ELSE IF i = j THEN left
          ELSE IF i = j + 1 THEN right ELSE n.child[i - 1]

\* That is what SetChild does where k has its place between the keys j - 1 and j.
LEMMA SetChildFacts ==
    ASSUME NEW T, Shaped(T), NEW r \in Place, T[r].kind = "internal",
           NEW j, NEW p, ChildAt(T, r, j, p),
           NEW k \in Key, NEW left \in Page, NEW right \in Page, PlaceIn(T[r].keys, k, j)
    PROVE  ChildSet(T[r], SetChild(T[r], k, left, right), j, k, left, right)
<1> DEFINE n == T[r]
           s == SetChild(n, k, left, right)
<1>0. /\ n \in Node /\ Len(n.child) = Len(n.keys) + 1 /\ Len(n.child) \in Nat
      /\ j \in Int /\ 1 <= j /\ j <= Len(n.child) /\ Count(n.keys, k) = j - 1
  <2>1. n \in Node /\ Len(n.child) = Len(n.keys) + 1 /\ Len(n.child) \in Nat
    BY NodeFields DEF Shaped
  <2> QED BY <2>1 DEF ChildAt, PlaceIn
<1> HIDE DEF n
<1> SUFFICES ChildSet(n, s, j, k, left, right)
  BY DEF n
<1> DEFINE ks == InsertAt(n.keys, j, k)
           c == [n.child EXCEPT ![j] = left]
           cs == InsertAt(c, j + 1, right)
<1>1. n.keys \in Seq(Key) /\ n.child \in Seq(Page)
  BY <1>0 DEF Node
<1>2. Len(n.keys) \in Nat /\ Len(n.child) \in Nat
  BY <1>1, SeqPlaces
<1>3. (j - 1) + 1 = j /\ (j - 1) + 2 = j + 1 /\ j \in 1..Len(n.keys) + 1
  BY <1>0, <1>2
<1>4. s = [n EXCEPT !.keys = ks, !.child = cs]
  BY <1>0, <1>3 DEF SetChild
<1>5. /\ ks \in Seq(Key) /\ Len(ks) = Len(n.keys) + 1
      /\ \A i \in 1..Len(n.keys) + 1 : ks[i] =
            IF i < j THEN n.keys[i] ELSE IF i = j THEN k ELSE n.keys[i - 1]
  <2>1. Inserted(Key, n.keys, j, k, ks)
    BY <1>0, <1>1, InsertAtFacts
  <2> QED BY <2>1 DEF Inserted
<1>6. /\ c \in Seq(Page) /\ Len(c) = Len(n.child)
      /\ \A i \in 1..Len(n.child) : c[i] = IF i = j THEN left ELSE n.child[i]
  BY <1>0, <1>1, ExceptSeq
<1> HIDE DEF ks, c
<1>7. /\ cs \in Seq(Page) /\ Len(cs) = Len(n.child) + 1
      /\ \A i \in 1..Len(n.child) + 1 : cs[i] =
            IF i < j + 1 THEN c[i] ELSE IF i = j + 1 THEN right ELSE c[i - 1]
  <2> DEFINE h == j + 1
  <2>1. h \in Int /\ 1 <= h /\ h <= Len(c) + 1
    BY <1>0, <1>2, <1>6
  <2>2. c \in Seq(Page)
    BY <1>6
  <2> HIDE DEF h
  <2>3. Inserted(Page, c, h, right, InsertAt(c, h, right))
    BY <2>1, <2>2, InsertAtFacts
  <2> QED BY <1>6, <2>3 DEF h, Inserted
<1> HIDE DEF cs
<1>8. ASSUME NEW i \in 1..Len(n.child) + 1
      PROVE  cs[i] = IF i < j THEN n.child[i] ELSE IF i = j THEN left
                     ELSE IF i = j + 1 THEN right ELSE n.child[i - 1]
  <2>1. CASE i < j + 1
    <3>1. i \in 1..Len(n.child)
      BY <1>0, <1>2, <2>1
    <3> QED BY <1>0, <1>2, <1>6, <1>7, <2>1, <3>1
  <2>2. CASE i = j + 1
    BY <1>0, <1>7, <2>2
  <2>3. CASE i > j + 1
    <3>1. i - 1 \in 1..Len(n.child) /\ i - 1 # j /\ ~(i < j + 1) /\ i # j + 1 /\ ~(i < j) /\ i # j
      BY <1>0, <1>2, <2>3
    <3>2. cs[i] = c[i - 1] /\ c[i - 1] = n.child[i - 1]
      BY <1>6, <1>7, <3>1
    <3> QED BY <3>1, <3>2
  <2> QED BY <1>0, <1>2, <2>1, <2>2, <2>3
<1>9. s \in Node /\ s.kind = n.kind /\ s.parent = n.parent /\ s.prev = n.prev /\ s.next = n.next
      /\ s.keys = ks /\ s.child = cs
  BY <1>0, <1>4, <1>5, <1>7 DEF Node
<1>10. Len(n.child) + 1 = Len(n.keys) + 2
  BY <1>0, <1>2
<1> HIDE DEF s
<1> QED BY <1>5, <1>7, <1>8, <1>9, <1>10 DEF ChildSet

-----------------------------------------------------------------------------
(* A node is split *)

\* How many keys, and how many children, of node n are in its lower part of a keys.
KeysBelow(n, a) == IF n.kind = "leaf" THEN a ELSE a + 1

\* The children that go with the first a keys.
ChildrenBelow(n, a) == IF n.kind = "leaf" THEN 0 ELSE a + 1

\* new takes a keys and their children from p, and comes in front of p in the parent.
Splits(T, U, p, r, new, a) ==
    /\ r = T[p].parent /\ a \in Nat \ {0} /\ a + 1 \in 1..Len(T[p].keys)
    /\ U \in [Place -> Node]
    /\ \A q \in Place \ {new} :
          /\ U[q].kind = T[q].kind
          /\ T[q].kind = "none" => U[q] = T[q]
          /\ U[q].parent = IF \E i \in 1..ChildrenBelow(T[p], a) : q = T[p].child[i]
                           THEN new ELSE T[q].parent
    /\ \A q \in Place \ {new, p, r} :
          U[q].keys = T[q].keys /\ U[q].child = T[q].child
    /\ U[new].kind = T[p].kind /\ U[new].parent = r
    /\ U[new].keys = SubSeq(T[p].keys, 1, a)
    /\ U[new].child = SubSeq(T[p].child, 1, ChildrenBelow(T[p], a))
    /\ U[p].keys = SubSeq(T[p].keys, KeysBelow(T[p], a) + 1, Len(T[p].keys))
    /\ U[p].child = SubSeq(T[p].child, ChildrenBelow(T[p], a) + 1, Len(T[p].child))
    /\ LET s == SetChild(T[r], T[p].keys[a + 1], new, p)
       IN  U[r].keys = s.keys /\ U[r].child = s.child

\* new has the first a keys of p and their children, and p the last ones.
Halves(T, U, p, new, a, b, m) ==
    /\ a \in Nat /\ b \in a..a + 1 /\ b <= Len(T[p].keys) /\ m \in 0..Len(T[p].child)
    /\ Len(U[new].keys) = a /\ Len(U[new].child) = m
    /\ Len(U[p].keys) = Len(T[p].keys) - b /\ Len(U[p].child) = Len(T[p].child) - m
    /\ \A i \in 1..a : U[new].keys[i] = T[p].keys[i]
    /\ \A i \in 1..m : U[new].child[i] = T[p].child[i]
    /\ \A i \in 1..Len(T[p].keys) - b : U[p].keys[i] = T[p].keys[b + i]
    /\ \A i \in 1..Len(T[p].child) - m : U[p].child[i] = T[p].child[m + i]

\* The two parts of a node that is split.
LEMMA SplitParts ==
    ASSUME NEW T, NEW lev, NEW lo, IsTree(T, lev, lo), NEW U, NEW r,
           NEW p \in Page, T[p].kind # "none", NEW new \in Page, T[new].kind = "none",
           NEW a, Splits(T, U, p, r, new, a)
    PROVE  Halves(T, U, p, new, a, KeysBelow(T[p], a), ChildrenBelow(T[p], a))
<1> DEFINE b == KeysBelow(T[p], a)
           m == ChildrenBelow(T[p], a)
           ks == T[p].keys
           cs == T[p].child
<1>0. p \in Place
  BY Places
<1>a. a \in Nat /\ a + 1 \in 1..Len(ks)
  BY DEF Splits
<1>1. /\ T[p].kind \in {"leaf", "internal"}
      /\ ks \in Seq(Key) /\ cs \in Seq(Page) /\ Len(ks) \in Nat /\ Len(cs) \in Nat
      /\ T[p].kind = "internal" => Len(cs) = Len(ks) + 1
  BY <1>0, NodeFields DEF IsTree, Shaped
<1>2. b \in a..a + 1 /\ b \in 0..Len(ks) /\ m \in 0..Len(cs)
  BY <1>a, <1>1 DEF KeysBelow, ChildrenBelow
<1>3. /\ U[new].keys = SubSeq(ks, 1, a) /\ U[new].child = SubSeq(cs, 1, m)
      /\ U[p].keys = SubSeq(ks, b + 1, Len(ks)) /\ U[p].child = SubSeq(cs, m + 1, Len(cs))
  BY DEF Splits
<1> HIDE DEF b, m, ks, cs
<1>4. a \in Nat /\ a <= Len(ks)
  BY <1>a, <1>1
<1>5. Len(U[new].keys) = a /\ \A i \in 1..a : U[new].keys[i] = ks[i]
  BY <1>1, <1>3, <1>4, LowerPart
<1>6. Len(U[new].child) = m /\ \A i \in 1..m : U[new].child[i] = cs[i]
  BY <1>1, <1>2, <1>3, LowerPart
<1>7. Len(U[p].keys) = Len(ks) - b /\ \A i \in 1..Len(ks) - b : U[p].keys[i] = ks[b + i]
  BY <1>1, <1>2, <1>3, UpperPart
<1>8. Len(U[p].child) = Len(cs) - m /\ \A i \in 1..Len(cs) - m : U[p].child[i] = cs[m + i]
  BY <1>1, <1>2, <1>3, UpperPart
<1> QED BY <1>a, <1>2, <1>5, <1>6, <1>7, <1>8 DEF Halves, ks, cs, b, m

\* The key between the two parts comes after the beginning of the node.
LEMMA SplitKey ==
    ASSUME NEW T, NEW lev, NEW lo, IsTree(T, lev, lo), NEW U, NEW r,
           NEW p \in Page, T[p].kind # "none", NEW new,
           NEW a, Splits(T, U, p, r, new, a)
    PROVE  lo[p] < T[p].keys[a + 1]
<1> DEFINE key == T[p].keys[a + 1]
<1>1. a \in Nat /\ a > 0 /\ a + 1 \in 1..Len(T[p].keys) /\ p \in Place
  BY Places DEF Splits
<1>2. Len(T[p].keys) \in Nat /\ \A i \in 1..Len(T[p].keys) : T[p].keys[i] \in Nat
  BY <1>1, NodeFields DEF IsTree
<1>3. 1 \in 1..Len(T[p].keys) /\ 1 < a + 1
  BY <1>1, <1>2
<1>4. KeysInOrder(T, lo, p) /\ lo[p] \in Nat
  BY <1>1 DEF IsTree, Ordered
<1>5. lo[p] <= T[p].keys[1] /\ T[p].keys[1] < key /\ T[p].keys[1] \in Nat /\ key \in Nat
  BY <1>1, <1>2, <1>3, <1>4 DEF KeysInOrder, Ascending
<1> HIDE DEF key
<1>6. lo[p] < key
  BY <1>4, <1>5
<1> QED BY <1>6 DEF key

\* new comes in front of p, child j of r, and the key between them has its place there.
Parted(T, U, p, r, new, key, j) ==
    /\ j \in 1..Len(T[r].keys) + 1 /\ T[r].child[j] = p
    /\ j > 1 => T[r].keys[j - 1] < key
    /\ j <= Len(T[r].keys) => key < T[r].keys[j]
    /\ Len(U[r].keys) = Len(T[r].keys) + 1 /\ Len(U[r].child) = Len(T[r].keys) + 2
    /\ \A i \in 1..Len(T[r].keys) + 1 : U[r].keys[i] =
          IF i < j THEN T[r].keys[i] ELSE IF i = j THEN key ELSE T[r].keys[i - 1]
    /\ \A i \in 1..Len(T[r].keys) + 2 : U[r].child[i] =
          IF i < j THEN T[r].child[i] ELSE IF i = j THEN new
          ELSE IF i = j + 1 THEN p ELSE T[r].child[i - 1]

\* That is what the split does to the parent.
LEMMA SplitParent ==
    ASSUME NEW T, NEW lev, NEW lo, IsTree(T, lev, lo), NEW U, NEW r,
           NEW p \in Page, T[p].kind # "none", NEW new \in Page, T[new].kind = "none",
           NEW a, Splits(T, U, p, r, new, a)
    PROVE  \E j : Parted(T, U, p, r, new, T[p].keys[a + 1], j)
<1> DEFINE n == Len(T[r].keys)
           key == T[p].keys[a + 1]
           s == SetChild(T[r], key, new, p)
<1>0. r = T[p].parent /\ a \in Nat /\ a > 0 /\ a + 1 \in 1..Len(T[p].keys)
  BY DEF Splits
<1>1. r \in Place /\ T[r].kind = "internal"
  BY <1>0, ParentFacts
<1>2. /\ n \in Nat /\ Len(T[r].child) = n + 1 /\ T[r] \in Node
      /\ \A i \in 1..n : T[r].keys[i] \in Nat
  BY <1>1, NodeFields DEF IsTree, Shaped
<1>3. PICK j \in Int : 1 <= j /\ j <= Len(T[r].child) /\ T[r].child[j] = p
  <2>1. \E i \in 1..Len(T[r].child) : T[r].child[i] = p
    BY <1>0, ParentFacts
  <2> QED BY <1>2, <2>1
<1>4. p \in Place /\ key \in Key /\ key \in Nat
  BY <1>0, NodeFields, Places DEF IsTree
<1>5. U[r].keys = s.keys /\ U[r].child = s.child
  BY DEF Splits
<1>6. \E i \in 1..Len(T[p].keys) : key = T[p].keys[i]
  BY <1>0
<1> HIDE DEF key, n
<1>7. ChildAt(T, r, j, p) /\ KeyOf(T, lo, p, key)
  BY <1>3, <1>4, <1>6 DEF ChildAt, KeyOf
<1>b. PlaceIn(T[r].keys, key, j)
  BY <1>1, <1>7, PlaceOf
<1>8. lo[p] < key
  BY SplitKey DEF key
<1>9. ASSUME j > 1 PROVE T[r].keys[j - 1] < key
  <2>1. lo[p] = T[r].keys[j - 1]
    BY <1>1, <1>3, <1>9, ChildFacts
  <2> QED BY <1>8, <2>1
<1>10. ChildSet(T[r], s, j, key, new, p)
  BY <1>1, <1>4, <1>7, <1>b, SetChildFacts DEF IsTree
<1> HIDE DEF s
<1>11. j \in 1..n + 1 /\ (j <= n => key < T[r].keys[j])
  BY <1>2, <1>3, <1>b DEF PlaceIn, n
<1>12. Parted(T, U, p, r, new, key, j)
  BY <1>3, <1>5, <1>9, <1>10, <1>11 DEF n, ChildSet, Parted
<1> QED BY <1>12 DEF key

\* The levels and the beginnings of the nodes after p is split.
SplitLev(lev, p, new) == [lev EXCEPT ![new] = lev[p]]

\* Where p begins after its split, and where new does.
SplitLo(T, lo, p, new, a) == [lo EXCEPT ![new] = lo[p], ![p] = T[p].keys[a + 1]]

\* The nodes that take part in a split.
LEMMA SplitNodes ==
    ASSUME NEW T, NEW lev, NEW lo, IsTree(T, lev, lo), NEW U, NEW r,
           NEW p \in Page, T[p].kind # "none", NEW new \in Page, T[new].kind = "none",
           NEW a, Splits(T, U, p, r, new, a)
    PROVE  /\ p \in Place /\ new \in Place /\ r \in Place /\ r = T[p].parent
           /\ p # new /\ p # r /\ r # new /\ 0 # new /\ 0 # p
           /\ T[r].kind = "internal" /\ T[p].kind \in {"leaf", "internal"}
           /\ Len(T[p].keys) \in Nat /\ Len(T[p].child) \in Nat
           /\ a \in Nat /\ a > 0 /\ a + 1 \in 1..Len(T[p].keys)
           /\ T[p].keys[a + 1] \in Key /\ T[p].keys[a + 1] \in Nat
<1>1. r = T[p].parent /\ a \in Nat /\ a > 0 /\ a + 1 \in 1..Len(T[p].keys)
  BY DEF Splits
<1>2. p \in Place /\ new \in Place /\ 0 # new /\ 0 # p
  BY Places
<1>3. T[p].kind \in {"leaf", "internal"} /\ Len(T[p].keys) \in Nat /\ Len(T[p].child) \in Nat
  BY <1>2, NodeFields DEF IsTree
<1>4. T[p].keys[a + 1] \in Key /\ T[p].keys[a + 1] \in Nat
  BY <1>1, <1>2, NodeFields DEF IsTree
<1>5. r \in Place /\ T[r].kind = "internal" /\ r # p
  BY <1>1, ParentFacts
<1> QED BY <1>1, <1>2, <1>3, <1>4, <1>5

\* After a split the nodes have as many children as they need.
LEMMA SplitShaped ==
    ASSUME NEW T, NEW lev, NEW lo, IsTree(T, lev, lo), NEW U, NEW r,
           NEW p \in Page, T[p].kind # "none", NEW new \in Page, T[new].kind = "none",
           NEW a, Splits(T, U, p, r, new, a)
    PROVE  Shaped(U)
<1>1. /\ p \in Place /\ new \in Place /\ r \in Place
      /\ p # new /\ p # r /\ r # new /\ 0 # new
      /\ T[r].kind = "internal" /\ T[p].kind \in {"leaf", "internal"}
      /\ Len(T[p].keys) \in Nat /\ Len(T[p].child) \in Nat /\ a \in Nat
  BY SplitNodes
<1>2. /\ U \in [Place -> Node]
      /\ \A q \in Place \ {new} : U[q].kind = T[q].kind /\ (T[q].kind = "none" => U[q] = T[q])
      /\ \A q \in Place \ {new, p, r} : U[q].keys = T[q].keys /\ U[q].child = T[q].child
      /\ U[new].kind = T[p].kind
  BY DEF Splits
<1>3. Shaped(T)
  BY DEF IsTree
<1>4. U[0].kind = "internal"
  BY <1>1, <1>2, <1>3, Places DEF Shaped
<1>5. ASSUME NEW q \in Place, U[q].kind = "none" PROVE U[q] = NoNode
  BY <1>1, <1>2, <1>3, <1>5 DEF Shaped
<1>a. Halves(T, U, p, new, a, KeysBelow(T[p], a), ChildrenBelow(T[p], a))
  BY SplitParts
<1>b. \E j : Parted(T, U, p, r, new, T[p].keys[a + 1], j)
  BY SplitParent
<1>6. /\ Len(U[new].keys) = a /\ Len(U[new].child) = ChildrenBelow(T[p], a)
      /\ Len(U[p].keys) = Len(T[p].keys) - KeysBelow(T[p], a)
      /\ Len(U[p].child) = Len(T[p].child) - ChildrenBelow(T[p], a)
  BY <1>a DEF Halves
<1>7. ASSUME NEW q \in Place, U[q].kind = "leaf" PROVE U[q].child = <<>>
  <2>1. CASE q \in {new, p}
    <3>1. T[p].kind = "leaf" /\ U[q] \in Node
      BY <1>1, <1>2, <1>7, <2>1
    <3>2. Len(T[p].child) = 0
      BY <1>1, <1>3, <3>1 DEF Shaped
    <3>3. Len(U[q].child) = 0 /\ U[q].child \in Seq(Page)
      BY <1>1, <1>6, <2>1, <3>1, <3>2 DEF ChildrenBelow, Node
    <3> QED BY <3>3, EmptySeq
  <2>2. CASE q \notin {new, p}
    BY <1>1, <1>2, <1>3, <1>7, <2>2 DEF Shaped
  <2> QED BY <2>1, <2>2
<1>8. ASSUME NEW q \in Place, U[q].kind = "internal" PROVE Len(U[q].child) = Len(U[q].keys) + 1
  <2>1. CASE q \in {new, p}
    <3>1. T[p].kind = "internal"
      BY <1>1, <1>2, <1>8, <2>1
    <3>2. Len(T[p].child) = Len(T[p].keys) + 1
      BY <1>1, <1>3, <3>1 DEF Shaped
    <3>3. KeysBelow(T[p], a) = a + 1 /\ ChildrenBelow(T[p], a) = a + 1
      BY <3>1 DEF KeysBelow, ChildrenBelow
    <3>4. Len(U[p].keys) = Len(T[p].keys) - (a + 1)
      BY <1>6, <3>3, Zenon
    <3>5. Len(U[p].child) = (Len(T[p].keys) + 1) - (a + 1)
      BY <1>6, <3>2, <3>3, Zenon
    <3>7. Len(T[p].keys) \in Nat /\ a \in Nat
      BY <1>1
    <3>8. Len(U[p].child) = Len(U[p].keys) + 1
      BY <3>4, <3>5, <3>7
    <3>6. Len(U[new].child) = Len(U[new].keys) + 1
      BY <1>6, <3>3
    <3> QED BY <2>1, <3>6, <3>8
  <2>2. CASE q = r
    <3>1. Len(U[r].keys) = Len(T[r].keys) + 1 /\ Len(U[r].child) = Len(T[r].keys) + 2
        BY <1>b DEF Parted
    <3>2. Len(T[r].keys) \in Nat
      BY <1>1, <1>3, NodeFields
    <3> QED BY <2>2, <3>1, <3>2
  <2>3. CASE q \notin {new, p, r}
    BY <1>1, <1>2, <1>3, <1>8, <2>3 DEF Shaped
  <2> QED BY <2>1, <2>2, <2>3
<1> QED BY <1>2, <1>4, <1>5, <1>7, <1>8 DEF Shaped

\* The first m children of p name new as their parent, and other nodes whom they did.
Reparented(T, U, p, new, m, c) ==
    /\ c # new /\ U[c].kind = T[c].kind
    /\ T[c].parent # p => U[c].parent = T[c].parent
    /\ \A i \in 1..Len(T[p].child) : c = T[p].child[i] =>
          /\ T[c].parent = p /\ T[p].kind = "internal"
          /\ i <= m => U[c].parent = new
          /\ ~(i <= m) => U[c].parent = p

\* The children of new and p after the split name them as their parents, and no
\* other node has another parent.
LEMMA SplitParents ==
    ASSUME NEW T, NEW lev, NEW lo, IsTree(T, lev, lo), NEW U, NEW r,
           NEW p \in Page, T[p].kind # "none", NEW new \in Page, T[new].kind = "none",
           NEW a, Splits(T, U, p, r, new, a),
           NEW c \in Page, T[c].kind # "none"
    PROVE  Reparented(T, U, p, new, ChildrenBelow(T[p], a), c)
<1> DEFINE m == ChildrenBelow(T[p], a)
<1>1. /\ p \in Place /\ T[p].kind \in {"leaf", "internal"} /\ Len(T[p].child) \in Nat
  BY SplitNodes
<1>2. Halves(T, U, p, new, a, KeysBelow(T[p], a), m)
  BY SplitParts
<1> HIDE DEF m
<1>3. m \in Nat /\ m <= Len(T[p].child)
  BY <1>1, <1>2 DEF Halves
<1>4. c \in Place /\ c # new
  BY Places
<1>5. /\ U[c].kind = T[c].kind
      /\ U[c].parent = IF \E i \in 1..m : c = T[p].child[i] THEN new ELSE T[c].parent
  BY <1>4 DEF Splits, m
<1>6. ASSUME NEW i \in 1..Len(T[p].child), c = T[p].child[i]
      PROVE  T[c].parent = p /\ T[p].kind = "internal"
  <2>1. T[p].kind = "internal"
    <3>1. T[p].kind = "leaf" => T[p].child = <<>>
      BY <1>1 DEF IsTree, Shaped
    <3>2. T[p].kind = "leaf" => Len(T[p].child) = 0
      BY <3>1
    <3> QED BY <1>1, <1>6, <3>2
  <2>2. i \in Int /\ 1 <= i /\ i <= Len(T[p].child)
    BY <1>1
  <2> QED BY <1>1, <1>6, <2>1, <2>2, ChildFacts
<1>7. ASSUME T[c].parent # p PROVE U[c].parent = T[c].parent
  <2>1. \A i \in 1..m : i \in 1..Len(T[p].child)
    BY <1>1, <1>3
  <2> QED BY <1>5, <1>6, <1>7, <2>1
<1>8. ASSUME NEW i \in 1..Len(T[p].child), c = T[p].child[i]
      PROVE  /\ i <= m => U[c].parent = new
             /\ ~(i <= m) => U[c].parent = p
  <2>1. CASE i <= m
    <3>1. i \in 1..m
      BY <1>1, <1>3, <2>1
    <3> QED BY <1>5, <1>8, <2>1, <3>1
  <2>2. CASE ~(i <= m)
    <3>1. ASSUME NEW h \in 1..m, c = T[p].child[h] PROVE FALSE
      <4>1. h \in 1..Len(T[p].child) /\ h # i
        BY <1>1, <1>3, <2>2
      <4>2. T[p].child[h] = T[p].child[i] /\ T[p].kind = "internal"
        BY <1>6, <1>8, <3>1
      <4> QED BY <1>1, <4>1, <4>2, ChildOnce
    <3>2. U[c].parent = T[c].parent
      BY <1>5, <3>1
    <3> QED BY <1>6, <1>8, <2>2, <3>2
  <2> QED BY <2>1, <2>2
<1> QED BY <1>4, <1>5, <1>6, <1>7, <1>8 DEF m, Reparented

\* After a split parents and children name each other.
LEMMA SplitFamily ==
    ASSUME NEW T, NEW lev, NEW lo, IsTree(T, lev, lo), NEW U, NEW r,
           NEW p \in Page, T[p].kind # "none", NEW new \in Page, T[new].kind = "none",
           NEW a, Splits(T, U, p, r, new, a)
    PROVE  Family(U, SplitLev(lev, p, new))
<1> DEFINE L == SplitLev(lev, p, new)
           m == ChildrenBelow(T[p], a)
           b == KeysBelow(T[p], a)
           key == T[p].keys[a + 1]
<1>1. /\ p \in Place /\ new \in Place /\ r \in Place /\ r = T[p].parent
      /\ p # new /\ p # r /\ r # new /\ 0 # new /\ 0 # p
      /\ T[r].kind = "internal" /\ T[p].kind \in {"leaf", "internal"}
      /\ Len(T[p].child) \in Nat
  BY SplitNodes
<1>2. /\ \A q \in Place \ {new} : U[q].kind = T[q].kind
      /\ \A q \in Place \ {new, p, r} : U[q].keys = T[q].keys /\ U[q].child = T[q].child
      /\ U[new].kind = T[p].kind /\ U[new].parent = r
  BY DEF Splits
<1>3. Halves(T, U, p, new, a, b, m)
  BY SplitParts
<1>4. PICK j : Parted(T, U, p, r, new, key, j)
  BY SplitParent
<1>5. lev \in [Place -> Nat] /\ L \in [Place -> Nat]
  BY <1>1 DEF IsTree, Family, SplitLev
<1>6. L[new] = lev[p] /\ \A q \in Place \ {new} : L[q] = lev[q]
  BY <1>1, <1>5 DEF SplitLev
<1>7. ASSUME NEW c \in Page, T[c].kind # "none"
      PROVE  /\ c \in Place /\ c # new /\ U[c].kind = T[c].kind
             /\ T[c].parent # p => U[c].parent = T[c].parent
             /\ \A i \in 1..Len(T[p].child) : c = T[p].child[i] =>
                   /\ T[c].parent = p /\ T[p].kind = "internal"
                   /\ i <= m => U[c].parent = new
                   /\ ~(i <= m) => U[c].parent = p
  <2>1. Reparented(T, U, p, new, m, c)
    BY <1>7, SplitParents
  <2> QED BY <2>1, Places DEF Reparented
<1>8. ASSUME NEW q \in Place, T[q].kind = "internal", NEW i \in 1..Len(T[q].child)
      PROVE  /\ T[q].child[i] \in Page /\ T[T[q].child[i]].kind # "none"
             /\ T[T[q].child[i]].parent = q /\ lev[T[q].child[i]] + 1 = lev[q]
  <2>1. Len(T[q].child) \in Nat
    BY NodeFields DEF IsTree
  <2>2. i \in Int /\ 1 <= i /\ i <= Len(T[q].child)
    BY <2>1
  <2> QED BY <1>8, <2>2, ChildFacts
<1>9. Len(T[r].keys) \in Nat /\ Len(T[r].child) = Len(T[r].keys) + 1
  BY <1>1, NodeFields DEF IsTree, Shaped
<1>10. m \in Nat /\ m <= Len(T[p].child) /\ Len(U[new].child) = m /\ Len(U[p].child) = Len(T[p].child) - m
  BY <1>1, <1>3 DEF Halves
<1> HIDE DEF L, m, b, key
<1>11. ASSUME NEW q \in Place, U[q].kind = "leaf" PROVE L[q] = 0
  <2>1. \A x \in Place : T[x].kind = "leaf" => lev[x] = 0
    BY DEF IsTree, Family
  <2>2. CASE q = new
    BY <1>1, <1>2, <1>6, <1>11, <2>1, <2>2
  <2>3. CASE q # new
    BY <1>2, <1>6, <1>11, <2>1, <2>3
  <2> QED BY <2>2, <2>3
<1>12. ASSUME NEW q \in Place, U[q].kind = "internal", NEW i \in 1..Len(U[q].child)
       PROVE  Under(U, L, q, U[q].child[i])
  <2>1. ASSUME NEW c, c = U[q].child[i], c \in Page, T[c].kind # "none", U[c].parent = q,
               lev[c] + 1 = L[q]
        PROVE  Under(U, L, q, U[q].child[i])
    <3>1. c \in Place /\ c # new /\ U[c].kind = T[c].kind
      BY <1>7, <2>1
    <3>2. L[c] = lev[c]
      BY <1>6, <3>1
    <3> QED BY <2>1, <3>1, <3>2 DEF Under
  <2>2. CASE q = new
    <3>1. i \in 1..m /\ T[p].kind = "internal"
      BY <1>2, <1>10, <1>12, <2>2
    <3>2. i \in 1..Len(T[p].child) /\ i <= m
      BY <1>1, <1>10, <3>1
    <3> DEFINE c == T[p].child[i]
    <3>3. U[q].child[i] = c
      BY <1>3, <2>2, <3>1 DEF Halves
    <3>4. c \in Page /\ T[c].kind # "none" /\ lev[c] + 1 = lev[p]
      BY <1>1, <1>8, <3>1, <3>2
    <3>5. U[c].parent = new
      BY <1>7, <3>2, <3>4
    <3> HIDE DEF c
    <3> QED BY <1>6, <2>1, <2>2, <3>3, <3>4, <3>5
  <2>3. CASE q = p
    <3>1. i \in 1..Len(T[p].child) - m /\ T[p].kind = "internal"
      BY <1>1, <1>2, <1>10, <1>12, <2>3
    <3>2. m + i \in 1..Len(T[p].child) /\ ~(m + i <= m)
      BY <1>1, <1>10, <3>1
    <3> DEFINE c == T[p].child[m + i]
    <3>3. U[q].child[i] = c
      BY <1>3, <2>3, <3>1 DEF Halves
    <3>4. c \in Page /\ T[c].kind # "none" /\ lev[c] + 1 = lev[p]
      BY <1>1, <1>8, <3>1, <3>2
    <3>5. U[c].parent = p
      BY <1>7, <3>2, <3>4
    <3>6. L[q] = lev[p]
      BY <1>1, <1>6, <2>3
    <3> HIDE DEF c
    <3> QED BY <2>1, <2>3, <3>3, <3>4, <3>5, <3>6
  <2>4. CASE q = r
    <3>1. /\ i \in 1..Len(T[r].keys) + 2 /\ j \in 1..Len(T[r].keys) + 1
          /\ U[r].child[i] = IF i < j THEN T[r].child[i] ELSE IF i = j THEN new
                             ELSE IF i = j + 1 THEN p ELSE T[r].child[i - 1]
      BY <1>4, <1>12, <2>4 DEF Parted
    <3>2. ASSUME NEW c, c = U[r].child[i], NEW h \in 1..Len(T[r].child), c = T[r].child[h]
          PROVE  Under(U, L, q, U[q].child[i])
      <4>1. c \in Page /\ T[c].kind # "none" /\ T[c].parent = r /\ lev[c] + 1 = lev[r]
        BY <1>1, <1>8, <3>2
      <4>2. U[c].parent = r
        BY <1>1, <1>7, <4>1
      <4>3. L[q] = lev[r]
        BY <1>1, <1>6, <2>4
      <4> QED BY <2>1, <2>4, <3>2, <4>1, <4>2, <4>3
    <3>3. CASE i = j
      <4>1. U[q].child[i] = new
        BY <1>9, <2>4, <3>1, <3>3
      <4>2. lev[p] + 1 = lev[r]
        BY <1>1, ParentFacts
      <4>3. L[q] = lev[r] /\ U[new].kind # "none"
        BY <1>1, <1>2, <1>6, <2>4
      <4> QED BY <1>2, <1>6, <2>4, <4>1, <4>2, <4>3 DEF Under
    <3>4. CASE i = j + 1
      <4>1. U[r].child[i] = p /\ T[r].child[j] = p /\ j \in 1..Len(T[r].child)
        BY <1>4, <1>9, <3>1, <3>4 DEF Parted
      <4> QED BY <3>2, <4>1
    <3>5. CASE i < j
      <4>1. i \in 1..Len(T[r].child) /\ U[r].child[i] = T[r].child[i]
        BY <1>9, <3>1, <3>5
      <4> QED BY <3>2, <4>1
    <3>6. CASE i > j + 1
      <4>1. i - 1 \in 1..Len(T[r].child) /\ U[r].child[i] = T[r].child[i - 1]
        BY <1>9, <3>1, <3>6
      <4> QED BY <3>2, <4>1
    <3> QED BY <1>9, <3>1, <3>3, <3>4, <3>5, <3>6
  <2>5. CASE q \notin {new, p, r}
    <3>1. T[q].kind = "internal" /\ i \in 1..Len(T[q].child) /\ U[q].child[i] = T[q].child[i]
      BY <1>2, <1>12, <2>5
    <3> DEFINE c == T[q].child[i]
    <3>2. c \in Page /\ T[c].kind # "none" /\ T[c].parent = q /\ lev[c] + 1 = lev[q]
      BY <1>8, <3>1
    <3>3. U[c].parent = q
      BY <1>7, <2>5, <3>2
    <3>4. L[q] = lev[q]
      BY <1>6, <2>5
    <3> HIDE DEF c
    <3> QED BY <2>1, <3>1, <3>2, <3>3, <3>4 DEF c
  <2> QED BY <2>2, <2>3, <2>4, <2>5
<1>13. ASSUME NEW c \in Page, U[c].kind # "none" PROVE L[c] < L[0] /\ HasPlace(U, c)
  <2>1. L[0] = lev[0] /\ c \in Place
    BY <1>1, <1>6, Places
  <2>2. \A x \in Page : T[x].kind # "none" => lev[x] < lev[0]
    BY DEF IsTree, Family
  <2>3. U[r].kind = "internal"
    BY <1>1, <1>2
  <2>4. CASE c = new
    <3>1. L[c] < L[0]
      BY <1>1, <1>6, <2>1, <2>2, <2>4
    <3>2. j \in 1..Len(U[r].child) /\ U[r].child[j] = new
      BY <1>4, <1>9 DEF Parted
    <3> QED BY <1>2, <2>3, <2>4, <3>1, <3>2 DEF HasPlace
  <2>5. CASE c = p
    <3>1. L[c] < L[0]
      BY <1>1, <1>6, <2>1, <2>2, <2>5
    <3>2. j + 1 \in 1..Len(U[r].child) /\ U[r].child[j + 1] = p
      BY <1>4, <1>9 DEF Parted
    <3>3. U[c].parent = r
      BY <1>1, <1>7, <2>5
    <3> QED BY <2>3, <2>5, <3>1, <3>2, <3>3 DEF HasPlace
  <2>6. CASE c \notin {new, p}
    <3>1. T[c].kind # "none"
      BY <1>2, <1>13, <2>1, <2>6
    <3>2. L[c] < L[0]
      BY <1>6, <2>1, <2>2, <2>6, <3>1
    <3>3. T[c].parent \in Place /\ HasPlace(T, c)
      BY <2>1, <3>1, ParentFacts DEF IsTree, Family
    <3>4. PICK i \in 1..Len(T[T[c].parent].child) : T[T[c].parent].child[i] = c
      BY <3>3 DEF HasPlace
    <3>5. T[T[c].parent].kind = "internal"
      BY <3>3 DEF HasPlace
    <3>6. T[c].parent # new
      BY <1>1, <3>5
    <3>7. CASE T[c].parent = p
      <4>1. i \in 1..Len(T[p].child) /\ T[p].child[i] = c /\ T[p].kind = "internal"
        BY <3>4, <3>5, <3>7
      <4>2. CASE i <= m
        <5>1. U[c].parent = new /\ i \in 1..m
          BY <1>1, <1>7, <1>10, <3>1, <4>1, <4>2
        <5>2. U[new].child[i] = c /\ i \in 1..Len(U[new].child)
          BY <1>3, <1>10, <4>1, <5>1 DEF Halves
        <5> QED BY <1>2, <3>2, <4>1, <5>1, <5>2 DEF HasPlace
      <4>3. CASE ~(i <= m)
        <5>1. U[c].parent = p
          BY <1>7, <3>1, <4>1, <4>3
        <5>2. i - m \in 1..Len(T[p].child) - m /\ m + (i - m) = i
          BY <1>1, <1>10, <4>1, <4>3
        <5>3. U[p].child[i - m] = c /\ i - m \in 1..Len(U[p].child)
          BY <1>3, <1>10, <4>1, <5>2 DEF Halves
        <5> QED BY <1>1, <1>2, <3>2, <4>1, <5>1, <5>3 DEF HasPlace
      <4> QED BY <4>2, <4>3
    <3>8. CASE T[c].parent = r
      <4>1. U[c].parent = r /\ i \in 1..Len(T[r].child) /\ T[r].child[i] = c
        BY <1>1, <1>7, <3>1, <3>4, <3>8
      <4>2. i # j
        BY <1>4, <2>6, <4>1 DEF Parted
      <4>3. CASE i < j
        <5>1. i \in 1..Len(U[r].child) /\ U[r].child[i] = c
          BY <1>4, <1>9, <4>1, <4>3, SMTT(60) DEF Parted
        <5> QED BY <2>3, <3>2, <4>1, <5>1 DEF HasPlace
      <4>4. CASE i > j
        <5>1. i + 1 \in 1..Len(T[r].keys) + 2 /\ ~(i + 1 < j) /\ i + 1 # j /\ i + 1 # j + 1 /\ (i + 1) - 1 = i
          BY <1>4, <1>9, <4>1, <4>4 DEF Parted
        <5>2. i + 1 \in 1..Len(U[r].child) /\ U[r].child[i + 1] = c
          BY <1>4, <4>1, <5>1 DEF Parted
        <5> QED BY <2>3, <3>2, <4>1, <5>2 DEF HasPlace
      <4> QED BY <1>4, <1>9, <4>1, <4>2, <4>3, <4>4 DEF Parted
    <3>9. CASE T[c].parent \notin {p, r}
      <4>1. U[c].parent = T[c].parent
        BY <1>7, <3>1, <3>9
      <4>2. U[T[c].parent].child = T[T[c].parent].child /\ U[T[c].parent].kind = "internal"
        BY <1>2, <3>3, <3>5, <3>6, <3>9
      <4> QED BY <3>2, <3>4, <4>1, <4>2 DEF HasPlace
    <3> QED BY <3>7, <3>8, <3>9
  <2> QED BY <2>4, <2>5, <2>6
<1>14. Family(U, L)
  BY <1>5, <1>11, <1>12, <1>13 DEF Family
<1> QED BY <1>14 DEF L

\* Where the nodes begin after a split.
LEMMA SplitBegins ==
    ASSUME NEW T, NEW lev, NEW lo, IsTree(T, lev, lo), NEW U, NEW r,
           NEW p \in Page, T[p].kind # "none", NEW new \in Page, T[new].kind = "none",
           NEW a, Splits(T, U, p, r, new, a), NEW q \in Place, U[q].kind = "internal"
    PROVE  Begins(U, SplitLo(T, lo, p, new, a), q)
<1> DEFINE W == SplitLo(T, lo, p, new, a)
           m == ChildrenBelow(T[p], a)
           b == KeysBelow(T[p], a)
           key == T[p].keys[a + 1]
<1>1. /\ p \in Place /\ new \in Place /\ r \in Place /\ r = T[p].parent
      /\ p # new /\ p # r /\ r # new
      /\ T[r].kind = "internal" /\ T[p].kind \in {"leaf", "internal"}
      /\ Len(T[p].child) \in Nat /\ Len(T[p].keys) \in Nat
      /\ a \in Nat /\ a + 1 \in 1..Len(T[p].keys) /\ key \in Nat
  BY SplitNodes
<1>2. /\ \A x \in Place \ {new} : U[x].kind = T[x].kind
      /\ \A x \in Place \ {new, p, r} : U[x].keys = T[x].keys /\ U[x].child = T[x].child
      /\ U[new].kind = T[p].kind
  BY DEF Splits
<1>3. Halves(T, U, p, new, a, b, m)
  BY SplitParts
<1>4. PICK j : Parted(T, U, p, r, new, key, j)
  BY SplitParent
<1>5. lo \in [Place -> Nat]
  BY DEF IsTree, Ordered
<1>6. W[new] = lo[p] /\ W[p] = key /\ \A x \in Place \ {new, p} : W[x] = lo[x]
  BY <1>1, <1>5 DEF SplitLo
<1>7. ASSUME NEW x \in Place, T[x].kind = "internal", NEW i \in 1..Len(T[x].child)
      PROVE  /\ T[x].child[i] \in Place /\ T[x].child[i] # new
             /\ T[T[x].child[i]].parent = x
             /\ lo[T[x].child[i]] = IF i = 1 THEN lo[x] ELSE T[x].keys[i - 1]
  <2>1. Len(T[x].child) \in Nat
    BY NodeFields DEF IsTree
  <2>2. i \in Int /\ 1 <= i /\ i <= Len(T[x].child)
    BY <2>1
  <2> QED BY <1>7, <2>2, ChildFacts, Places
<1>8. T[p].kind = "internal" => m = a + 1 /\ b = a + 1 /\ Len(T[p].child) = Len(T[p].keys) + 1
  BY <1>1 DEF KeysBelow, ChildrenBelow, IsTree, Shaped
<1>9. Len(T[r].keys) \in Nat /\ Len(T[r].child) = Len(T[r].keys) + 1
  BY <1>1, NodeFields DEF IsTree, Shaped
<1> HIDE DEF W, m, b
<1>10. ASSUME NEW i \in 1..Len(U[q].child)
       PROVE  W[U[q].child[i]] = IF i = 1 THEN W[q] ELSE U[q].keys[i - 1]
  <2>1. CASE q = new
    <3>1. T[p].kind = "internal"
      BY <1>2, <2>1
    <3>2. i \in 1..a + 1 /\ i \in 1..Len(T[p].child) /\ U[q].child[i] = T[p].child[i]
      BY <1>1, <1>3, <1>8, <1>10, <2>1, <3>1 DEF Halves
    <3> DEFINE c == T[p].child[i]
    <3>3. /\ c \in Place /\ c # new /\ T[c].parent = p
          /\ lo[c] = IF i = 1 THEN lo[p] ELSE T[p].keys[i - 1]
      BY <1>1, <1>7, <3>1, <3>2
    <3> HIDE DEF c
    <3>4. c # p
      BY <1>1, <3>3
    <3>5. W[c] = lo[c]
      BY <1>6, <3>3, <3>4
    <3>6. CASE i = 1
      BY <1>6, <2>1, <3>2, <3>3, <3>5, <3>6 DEF c
    <3>7. CASE i # 1
      <4>1. i - 1 \in 1..a
        BY <1>1, <3>2, <3>7
      <4>2. U[q].keys[i - 1] = T[p].keys[i - 1]
        BY <1>3, <2>1, <4>1 DEF Halves
      <4> QED BY <3>2, <3>3, <3>5, <3>7, <4>2 DEF c
    <3> QED BY <3>6, <3>7
  <2>2. CASE q = p
    <3>1. T[p].kind = "internal"
      BY <1>1, <1>2, <2>2
    <3>2. U[q].child[i] = T[p].child[(a + 1) + i]
      BY <1>3, <1>8, <1>10, <2>2, <3>1 DEF Halves
    <3>a. i \in 1..Len(T[p].child) - (a + 1)
      BY <1>3, <1>8, <1>10, <2>2, <3>1 DEF Halves
    <3>b. a \in Nat /\ Len(T[p].child) \in Nat
      BY <1>1
    <3> DEFINE h == (a + 1) + i
               c == T[p].child[h]
    <3>3. h \in 1..Len(T[p].child) /\ h # 1 /\ h - 1 = a + i
      BY <3>a, <3>b
    <3> HIDE DEF h
    <3>4. c \in Place /\ c # new /\ T[c].parent = p /\ lo[c] = T[p].keys[h - 1]
      BY <1>1, <1>7, <3>1, <3>3
    <3>5. U[q].child[i] = c
      BY <3>2 DEF h
    <3> HIDE DEF c
    <3>6. c # p
      BY <1>1, <3>4
    <3>7. W[c] = T[p].keys[a + i]
      BY <1>6, <3>3, <3>4, <3>6
    <3>8. CASE i = 1
      BY <1>6, <2>2, <3>5, <3>7, <3>8
    <3>9. CASE i # 1
      <4>1. i - 1 \in 1..Len(T[p].keys) - (a + 1) /\ (a + 1) + (i - 1) = a + i
        BY <1>1, <1>8, <3>1, <3>a, <3>9
      <4>2. U[q].keys[i - 1] = T[p].keys[(a + 1) + (i - 1)]
        BY <1>3, <1>8, <2>2, <3>1, <4>1 DEF Halves
      <4> QED BY <3>5, <3>7, <3>9, <4>1, <4>2
    <3> QED BY <3>8, <3>9
  <2>3. CASE q = r
    <3>1. /\ i \in 1..Len(T[r].keys) + 2 /\ j \in 1..Len(T[r].keys) + 1
          /\ U[r].child[i] = IF i < j THEN T[r].child[i] ELSE IF i = j THEN new
                             ELSE IF i = j + 1 THEN p ELSE T[r].child[i - 1]
          /\ T[r].child[j] = p
      BY <1>4, <1>10, <2>3 DEF Parted
    <3>2. \A h \in 1..Len(T[r].keys) + 1 : U[r].keys[h] =
             IF h < j THEN T[r].keys[h] ELSE IF h = j THEN key ELSE T[r].keys[h - 1]
      BY <1>4 DEF Parted
    <3>3. W[q] = lo[r]
      BY <1>1, <1>6, <2>3
    <3>4. \A h \in 1..Len(T[r].child) : T[r].child[h] = p => h = j
      BY <1>1, <1>9, <3>1, ChildOnce
    <3>5. lo[p] = IF j = 1 THEN lo[r] ELSE T[r].keys[j - 1]
      <4>1. j \in 1..Len(T[r].child)
        BY <1>9, <3>1
      <4>2. lo[T[r].child[j]] = IF j = 1 THEN lo[r] ELSE T[r].keys[j - 1]
        BY <1>1, <1>7, <4>1
      <4> QED BY <3>1, <4>2
    <3> HIDE DEF key
    <3>6. CASE i = j
      <4>1. W[U[q].child[i]] = lo[p]
        BY <1>6, <2>3, <3>1, <3>6
      <4>2. CASE j = 1
        BY <2>3, <3>3, <3>5, <3>6, <4>1, <4>2
      <4>3. CASE j # 1
        <5>1. j - 1 \in 1..Len(T[r].keys) + 1 /\ j - 1 < j
          BY <1>9, <3>1, <4>3
        <5> QED BY <2>3, <3>2, <3>5, <3>6, <4>1, <4>3, <5>1
      <4> QED BY <4>2, <4>3
    <3>7. CASE i = j + 1
      <4>1. U[q].child[i] = p
        BY <1>9, <2>3, <3>1, <3>7
      <4>2. i # 1 /\ i - 1 = j
        BY <1>9, <3>1, <3>7
      <4> QED BY <1>6, <2>3, <3>1, <3>2, <4>1, <4>2
    <3>8. CASE i < j
      <4>1. i \in 1..Len(T[r].child) /\ U[q].child[i] = T[r].child[i] /\ i # j
        BY <1>9, <2>3, <3>1, <3>8
      <4>2. W[U[q].child[i]] = IF i = 1 THEN lo[r] ELSE T[r].keys[i - 1]
        BY <1>1, <1>6, <1>7, <3>4, <4>1, SMTT(60)
      <4>3. i # 1 => U[r].keys[i - 1] = T[r].keys[i - 1]
        <5>1. i # 1 => i - 1 \in 1..Len(T[r].keys) + 1 /\ i - 1 < j
          BY <1>9, <3>1, <3>8
        <5> QED BY <3>2, <5>1
      <4> QED BY <2>3, <3>3, <4>2, <4>3
    <3>9. CASE i > j + 1
      <4>1. /\ i - 1 \in 1..Len(T[r].child) /\ U[q].child[i] = T[r].child[i - 1] /\ i - 1 # j /\ i - 1 # 1
            /\ i # 1
        BY <1>9, <2>3, <3>1, <3>9
      <4>2. W[U[q].child[i]] = T[r].keys[(i - 1) - 1]
        <5> DEFINE h == i - 1
        <5>1. h \in 1..Len(T[r].child) /\ U[q].child[i] = T[r].child[h] /\ h # j /\ h # 1
          BY <4>1
        <5> HIDE DEF h
        <5>2. /\ T[r].child[h] \in Place /\ T[r].child[h] # new
              /\ lo[T[r].child[h]] = T[r].keys[h - 1]
          BY <1>1, <1>7, <5>1
        <5>3. T[r].child[h] # p
          BY <3>4, <5>1
        <5> QED BY <1>6, <5>1, <5>2, <5>3 DEF h
      <4>3. U[r].keys[i - 1] = T[r].keys[(i - 1) - 1]
        <5>1. i - 1 \in 1..Len(T[r].keys) + 1 /\ ~(i - 1 < j) /\ i - 1 # j
          BY <1>9, <3>1, <3>9
        <5> QED BY <3>2, <5>1
      <4> QED BY <2>3, <4>1, <4>2, <4>3
    <3> QED BY <1>9, <3>1, <3>6, <3>7, <3>8, <3>9
  <2>4. CASE q \notin {new, p, r}
    <3>1. T[q].kind = "internal" /\ U[q].child = T[q].child /\ U[q].keys = T[q].keys /\ i \in 1..Len(T[q].child)
      BY <1>2, <1>10, <2>4
    <3>2. /\ T[q].child[i] \in Place /\ T[q].child[i] # new /\ T[T[q].child[i]].parent = q
          /\ lo[T[q].child[i]] = IF i = 1 THEN lo[q] ELSE T[q].keys[i - 1]
      BY <1>7, <3>1
    <3>3. T[q].child[i] # p
      BY <1>1, <2>4, <3>2
    <3>4. W[T[q].child[i]] = lo[T[q].child[i]] /\ W[q] = lo[q]
      BY <1>6, <2>4, <3>2, <3>3
    <3> QED BY <3>1, <3>2, <3>4
  <2> QED BY <2>1, <2>2, <2>3, <2>4
<1>11. Begins(U, W, q)
  BY <1>10 DEF Begins
<1> QED BY <1>11 DEF W

\* The keys of the nodes after a split.
LEMMA SplitKeysInOrder ==
    ASSUME NEW T, NEW lev, NEW lo, IsTree(T, lev, lo), NEW U, NEW r,
           NEW p \in Page, T[p].kind # "none", NEW new \in Page, T[new].kind = "none",
           NEW a, Splits(T, U, p, r, new, a), NEW q \in Place, U[q].kind # "none"
    PROVE  KeysInOrder(U, SplitLo(T, lo, p, new, a), q)
<1> DEFINE W == SplitLo(T, lo, p, new, a)
           m == ChildrenBelow(T[p], a)
           b == KeysBelow(T[p], a)
           key == T[p].keys[a + 1]
           n == Len(T[p].keys)
<1>1. /\ p \in Place /\ new \in Place /\ r \in Place /\ r = T[p].parent
      /\ p # new /\ p # r /\ r # new
      /\ T[r].kind = "internal" /\ T[p].kind \in {"leaf", "internal"}
      /\ n \in Nat /\ a \in Nat /\ a + 1 \in 1..n /\ key \in Nat
  BY SplitNodes
<1>2. /\ \A x \in Place \ {new} : U[x].kind = T[x].kind
      /\ \A x \in Place \ {new, p, r} : U[x].keys = T[x].keys /\ U[x].child = T[x].child
      /\ U[new].kind = T[p].kind
  BY DEF Splits
<1>3. Halves(T, U, p, new, a, b, m)
  BY SplitParts
<1>4. PICK j : Parted(T, U, p, r, new, key, j)
  BY SplitParent
<1>5. lo \in [Place -> Nat]
  BY DEF IsTree, Ordered
<1>6. W[new] = lo[p] /\ W[p] = key /\ \A x \in Place \ {new, p} : W[x] = lo[x]
  BY <1>1, <1>5 DEF SplitLo
<1>7. b \in Nat /\ (T[p].kind = "internal" => b = a + 1) /\ (T[p].kind = "leaf" => b = a)
  BY <1>1 DEF KeysBelow
<1>8. \A x \in Place : T[x].kind # "none" => KeysInOrder(T, lo, x)
  BY DEF IsTree, Ordered
<1>9. KeysInOrder(T, lo, p) /\ KeysInOrder(T, lo, r)
  BY <1>1, <1>8
<1>10. lo[p] < key /\ lo[p] \in Nat /\ lo[r] \in Nat
  BY <1>1, <1>5, SplitKey
<1>11. \A i \in 1..n : T[p].keys[i] \in Nat
  BY <1>1, NodeFields DEF IsTree
<1> HIDE DEF W, m, b, n
<1>12. CASE q = new
  <2>1. Len(U[q].keys) = a /\ \A i \in 1..a : U[q].keys[i] = T[p].keys[i] /\ i \in 1..n
    BY <1>1, <1>3, <1>12 DEF Halves
  <2>2. Ascending(U[q].keys)
    BY <1>9, <2>1 DEF KeysInOrder, Ascending, n
  <2>3. ASSUME NEW i \in 1..a
        PROVE  W[q] <= U[q].keys[i] /\ (U[q].kind = "internal" => W[q] < U[q].keys[i])
    BY <1>2, <1>6, <1>9, <1>12, <2>1 DEF KeysInOrder, n
  <2> QED BY <2>1, <2>2, <2>3 DEF KeysInOrder, W
<1>13. CASE q = p
  <2>1. Len(U[q].keys) = n - b /\ \A i \in 1..n - b : U[q].keys[i] = T[p].keys[b + i]
    BY <1>3, <1>13 DEF Halves, n
  <2>2. \A i \in 1..n - b : b + i \in 1..n
    BY <1>1, <1>7
  <2>3. Ascending(U[q].keys)
    <3>1. ASSUME NEW i \in 1..n - b, NEW h \in 1..n - b, i < h PROVE U[q].keys[i] < U[q].keys[h]
      <4>1. b + i < b + h
        BY <1>1, <1>7, <3>1
      <4> QED BY <1>9, <2>1, <2>2, <4>1 DEF KeysInOrder, Ascending, n
    <3> QED BY <2>1, <3>1 DEF Ascending
  <2>4. ASSUME NEW i \in 1..n - b
        PROVE  W[q] <= U[q].keys[i] /\ (U[q].kind = "internal" => W[q] < U[q].keys[i])
    <3> DEFINE h == b + i
    <3>1. h \in 1..n /\ U[q].keys[i] = T[p].keys[h] /\ T[p].keys[h] \in Nat /\ W[q] = key
      BY <1>6, <1>11, <1>13, <2>1, <2>2
    <3>2. a + 1 <= h /\ (T[p].kind = "internal" => a + 1 < h)
      BY <1>1, <1>7
    <3> HIDE DEF h
    <3>3. a + 1 < h => key < T[p].keys[h]
      BY <1>1, <1>9, <3>1 DEF KeysInOrder, Ascending, n
    <3>4. a + 1 = h => key = T[p].keys[h]
      OBVIOUS
    <3>5. h \in Int /\ a + 1 \in Int
      BY <1>1, <3>1
    <3>6. U[q].kind = T[p].kind
      BY <1>1, <1>2, <1>13
    <3> HIDE DEF key
    <3>7. CASE a + 1 < h
      <4>1. key < T[p].keys[h]
        BY <3>3, <3>7
      <4> QED BY <1>1, <3>1, <4>1
    <3>8. CASE a + 1 = h
      <4>1. T[p].kind # "internal"
        BY <3>2, <3>5, <3>8
      <4> QED BY <1>1, <3>1, <3>4, <3>6, <3>8, <4>1
    <3> QED BY <3>2, <3>5, <3>7, <3>8
  <2> QED BY <2>1, <2>3, <2>4 DEF KeysInOrder, W
<1>14. CASE q = r
  <2> DEFINE k == Len(T[r].keys)
  <2>1. k \in Nat /\ \A i \in 1..k : T[r].keys[i] \in Nat
    BY <1>1, NodeFields DEF IsTree
  <2>2. /\ j \in 1..k + 1 /\ Len(U[q].keys) = k + 1
        /\ \A i \in 1..k + 1 : U[q].keys[i] =
              IF i < j THEN T[r].keys[i] ELSE IF i = j THEN key ELSE T[r].keys[i - 1]
    BY <1>4, <1>14 DEF Parted
  <2>3. (j > 1 => T[r].keys[j - 1] < key) /\ (j <= k => key < T[r].keys[j])
    BY <1>4 DEF Parted
  <2>4. /\ \A i, h \in 1..k : i < h => T[r].keys[i] < T[r].keys[h]
        /\ \A i \in 1..k : lo[r] < T[r].keys[i]
    BY <1>1, <1>9 DEF KeysInOrder, Ascending
  <2> HIDE DEF k, key
  <2>5. \A i \in 1..k : i < j => T[r].keys[i] < key
    <3> SUFFICES ASSUME NEW i \in 1..k, i < j PROVE T[r].keys[i] < key
      OBVIOUS
    <3>1. j - 1 \in 1..k /\ j > 1 /\ (i < j - 1 \/ i = j - 1)
      BY <2>1, <2>2
    <3>2. T[r].keys[i] <= T[r].keys[j - 1]
      BY <2>1, <2>4, <3>1
    <3> QED BY <1>1, <2>1, <2>3, <3>1, <3>2
  <2>6. \A i \in 1..k : ~(i < j) => key < T[r].keys[i]
    <3> SUFFICES ASSUME NEW i \in 1..k, ~(i < j) PROVE key < T[r].keys[i]
      OBVIOUS
    <3>1. j \in 1..k /\ j <= k /\ (j < i \/ i = j)
      BY <2>1, <2>2
    <3>2. T[r].keys[j] <= T[r].keys[i]
      BY <2>1, <2>4, <3>1
    <3> QED BY <1>1, <2>1, <2>3, <3>1, <3>2
  <2>7. lo[r] < key
    <3>1. lo[r] <= lo[p]
      BY <1>1, ParentFacts
    <3> QED BY <1>1, <1>10, <3>1 DEF key
  <2>8. ASSUME NEW i \in 1..k + 1, NEW h \in 1..k + 1, i < h PROVE U[q].keys[i] < U[q].keys[h]
    <3>1. CASE h < j
      <4>1. i \in 1..k /\ h \in 1..k /\ i < j
        BY <2>1, <2>2, <2>8, <3>1
      <4> QED BY <2>2, <2>4, <2>8, <3>1, <4>1
    <3>2. CASE h = j
      <4>1. i \in 1..k /\ i < j
        BY <2>1, <2>2, <2>8, <3>2
      <4>2. ~(h < j)
        BY <2>2, <3>2
      <4> QED BY <2>2, <2>5, <3>2, <4>1, <4>2
    <3>3. CASE h > j
      <4>1. h - 1 \in 1..k /\ ~(h - 1 < j) /\ ~(h < j) /\ h # j
        BY <2>1, <2>2, <3>3
      <4>2. U[q].keys[h] = T[r].keys[h - 1]
        BY <2>2, <4>1
      <4>3. CASE i < j
        <5>1. i \in 1..k /\ i < h - 1
          BY <2>1, <2>2, <2>8, <3>3, <4>1, <4>3
        <5> QED BY <2>2, <2>4, <4>1, <4>2, <4>3, <5>1
      <4>4. CASE i = j
        <5>1. ~(i < j)
          BY <2>2, <4>4
        <5> QED BY <2>2, <2>6, <4>1, <4>2, <4>4, <5>1
      <4>5. CASE i > j
        <5>1. i - 1 \in 1..k /\ i - 1 < h - 1 /\ ~(i < j) /\ i # j
          BY <2>1, <2>2, <2>8, <4>5
        <5> QED BY <2>2, <2>4, <4>1, <4>2, <5>1
      <4> QED BY <2>2, <4>3, <4>4, <4>5
    <3> QED BY <2>2, <3>1, <3>2, <3>3
  <2>9. ASSUME NEW i \in 1..k + 1 PROVE lo[r] < U[q].keys[i]
    <3>1. CASE i < j
      <4>1. i \in 1..k
        BY <2>1, <2>2, <3>1
      <4> QED BY <2>2, <2>4, <3>1, <4>1
    <3>2. CASE i = j
      BY <2>2, <2>7, <3>2
    <3>3. CASE i > j
      <4>1. i - 1 \in 1..k /\ ~(i < j) /\ i # j
        BY <2>1, <2>2, <3>3
      <4> QED BY <2>2, <2>4, <4>1
    <3> QED BY <2>2, <3>1, <3>2, <3>3
  <2>10. W[q] = lo[r]
    BY <1>1, <1>6, <1>14
  <2>11. \A i \in 1..k + 1 : U[q].keys[i] \in Nat
    <3> SUFFICES ASSUME NEW i \in 1..k + 1 PROVE U[q].keys[i] \in Nat
      OBVIOUS
    <3>1. Shaped(U)
      BY SplitShaped
    <3> QED BY <2>2, <3>1, NodeFields
  <2>12. Ascending(U[q].keys)
    BY <2>2, <2>8 DEF Ascending
  <2>13. ASSUME NEW i \in 1..Len(U[q].keys) PROVE W[q] <= U[q].keys[i] /\ W[q] < U[q].keys[i]
    <3>1. i \in 1..k + 1
      BY <2>2
    <3>2. U[q].keys[i] \in Nat /\ lo[r] < U[q].keys[i]
      BY <2>9, <2>11, <3>1
    <3> QED BY <1>10, <2>10, <3>2
  <2>14. KeysInOrder(U, W, q)
    BY <2>12, <2>13 DEF KeysInOrder
  <2> QED BY <2>14 DEF W
<1>15. CASE q \notin {new, p, r}
  <2>1. U[q].kind = T[q].kind /\ U[q].keys = T[q].keys /\ W[q] = lo[q] /\ KeysInOrder(T, lo, q)
    BY <1>2, <1>6, <1>8, <1>15
  <2>2. KeysInOrder(U, W, q)
    BY <2>1 DEF KeysInOrder
  <2> QED BY <2>2 DEF W
<1> QED BY <1>12, <1>13, <1>14, <1>15

\* After a split the nodes of a level do not overlap.
LEMMA SplitApart ==
    ASSUME NEW T, NEW lev, NEW lo, IsTree(T, lev, lo), NEW U, NEW r,
           NEW p \in Page, T[p].kind # "none", NEW new \in Page, T[new].kind = "none",
           NEW a, Splits(T, U, p, r, new, a),
           NEW q \in Place, NEW s \in Place, U[q].kind # "none", U[s].kind # "none",
           SplitLev(lev, p, new)[q] = SplitLev(lev, p, new)[s]
    PROVE  Apart(U, SplitLo(T, lo, p, new, a), q, s)
<1> DEFINE W == SplitLo(T, lo, p, new, a)
           L == SplitLev(lev, p, new)
           m == ChildrenBelow(T[p], a)
           b == KeysBelow(T[p], a)
           key == T[p].keys[a + 1]
           n == Len(T[p].keys)
<1>1. /\ p \in Place /\ new \in Place /\ r \in Place /\ r = T[p].parent
      /\ p # new /\ p # r /\ r # new
      /\ T[r].kind = "internal" /\ T[p].kind \in {"leaf", "internal"}
      /\ n \in Nat /\ a \in Nat /\ a + 1 \in 1..n /\ key \in Nat
  BY SplitNodes
<1>2. /\ \A x \in Place \ {new} : U[x].kind = T[x].kind
      /\ \A x \in Place \ {new, p, r} : U[x].keys = T[x].keys /\ U[x].child = T[x].child
  BY DEF Splits
<1>3. Halves(T, U, p, new, a, b, m)
  BY SplitParts
<1>4. PICK j : Parted(T, U, p, r, new, key, j)
  BY SplitParent
<1>5. lo \in [Place -> Nat] /\ lev \in [Place -> Nat]
  BY DEF IsTree, Ordered, Family
<1>6. /\ W[new] = lo[p] /\ W[p] = key /\ \A x \in Place \ {new, p} : W[x] = lo[x]
      /\ L[new] = lev[p] /\ L[p] = lev[p] /\ \A x \in Place \ {new, p} : L[x] = lev[x]
  BY <1>1, <1>5 DEF SplitLo, SplitLev
<1>7. \A x, y \in Place : T[x].kind # "none" /\ T[y].kind # "none" /\ lev[x] = lev[y] => Apart(T, lo, x, y)
  BY DEF IsTree, Ordered
<1>8. lo[p] < key
  BY SplitKey
<1>9. /\ \A i \in 1..a : U[new].keys[i] = T[p].keys[i] /\ i \in 1..n /\ i < a + 1
      /\ Len(U[new].keys) = a
  BY <1>1, <1>3 DEF Halves
<1>10. \A i \in 1..Len(U[p].keys) : \E h \in 1..n : U[p].keys[i] = T[p].keys[h]
  <2> SUFFICES ASSUME NEW i \in 1..Len(U[p].keys) PROVE \E h \in 1..n : U[p].keys[i] = T[p].keys[h]
    OBVIOUS
  <2>1. i \in 1..n - b /\ b \in Nat /\ U[p].keys[i] = T[p].keys[b + i]
    BY <1>1, <1>3 DEF Halves
  <2>2. b + i \in 1..n
    BY <1>1, <2>1
  <2> QED BY <2>1, <2>2
<1>11. ASSUME NEW x \in Place, T[x].kind # "none", lev[x] = lev[p], lo[p] < lo[x]
       PROVE  \A h \in 1..n : T[p].keys[h] < lo[x]
  <2>1. Apart(T, lo, p, x)
    BY <1>1, <1>7, <1>11
  <2> QED BY <1>11, <2>1 DEF Apart
<1>12. \A i \in 1..a : T[p].keys[i] < key
  <2>1. KeysInOrder(T, lo, p)
    BY <1>1 DEF IsTree, Ordered
  <2> QED BY <1>1, <1>9, <2>1 DEF KeysInOrder, Ascending
<1>13. \A i \in 1..n : T[p].keys[i] \in Nat
  BY <1>1, NodeFields DEF IsTree
<1>14. \A x \in Place \ {new} : U[x].kind # "none" => T[x].kind # "none"
  BY <1>2
<1>15. L[q] = L[s]
  OBVIOUS
<1> SUFFICES Apart(U, W, q, s)
  OBVIOUS
<1> HIDE DEF W, L, m, b
<1>16. CASE q = new
  <2>1. CASE s = new
    BY <1>1, <1>5, <1>6, <1>16, <2>1 DEF Apart
  <2>2. CASE s = p
    BY <1>1, <1>5, <1>6, <1>8, <1>9, <1>12, <1>16, <2>2 DEF Apart
  <2>3. CASE s \notin {new, p}
    <3>1. T[s].kind # "none" /\ lev[s] = lev[p] /\ W[s] = lo[s]
      BY <1>6, <1>14, <1>15, <1>16, <2>3
    <3>2. Apart(T, lo, p, s)
      BY <1>1, <1>7, <3>1
    <3>3. W[q] # W[s]
      BY <1>6, <1>16, <2>3, <3>1, <3>2 DEF Apart
    <3>4. ASSUME W[q] < W[s] PROVE \A i \in 1..Len(U[q].keys) : U[q].keys[i] < W[s]
      <4>1. lo[p] < lo[s]
        BY <1>6, <1>16, <3>1, <3>4
      <4> QED BY <1>9, <1>11, <1>16, <3>1, <4>1
    <3> QED BY <3>3, <3>4 DEF Apart
  <2> QED BY <2>1, <2>2, <2>3
<1>17. CASE q = p
  <2>1. CASE s \in {new, p}
    BY <1>1, <1>5, <1>6, <1>8, <1>17, <2>1 DEF Apart
  <2>2. CASE s \notin {new, p}
    <3>1. T[s].kind # "none" /\ lev[s] = lev[p] /\ W[s] = lo[s] /\ lo[s] \in Nat
      BY <1>5, <1>6, <1>14, <1>15, <1>17, <2>2
    <3>2. lo[p] < lo[s] => key < lo[s]
      BY <1>1, <1>11, <3>1
    <3>3. W[q] # W[s]
      BY <1>1, <1>6, <1>8, <1>17, <3>1, <3>2
    <3>4. ASSUME W[q] < W[s] PROVE \A i \in 1..Len(U[q].keys) : U[q].keys[i] < W[s]
      <4>1. lo[p] < lo[s]
        BY <1>1, <1>5, <1>6, <1>8, <1>17, <3>1, <3>4
      <4> QED BY <1>10, <1>11, <1>17, <3>1, <4>1
    <3> QED BY <3>3, <3>4 DEF Apart
  <2> QED BY <2>1, <2>2
<1>18. CASE q \notin {new, p, r}
  <2>1. T[q].kind # "none" /\ W[q] = lo[q] /\ U[q].keys = T[q].keys /\ L[q] = lev[q] /\ lo[q] \in Nat
    BY <1>2, <1>5, <1>6, <1>14, <1>18
  <2>2. CASE s \notin {new, p}
    <3>1. Apart(T, lo, q, s) /\ W[s] = lo[s]
      BY <1>6, <1>7, <1>14, <1>15, <2>1, <2>2
    <3> QED BY <2>1, <3>1 DEF Apart
  <2>3. CASE s \in {new, p}
    <3>1. lev[q] = lev[p]
      BY <1>6, <1>15, <2>1, <2>3
    <3>2. Apart(T, lo, q, p) /\ q # p /\ lo[p] \in Nat
      BY <1>1, <1>5, <1>7, <1>18, <2>1, <3>1
    <3>3. lo[q] # lo[p]
      BY <3>2 DEF Apart
    <3>4. lo[p] < lo[q] => key < lo[q]
      BY <1>1, <1>11, <2>1, <3>1
    <3>5. CASE s = new
      BY <1>6, <2>1, <3>2, <3>3, <3>5 DEF Apart
    <3>6. CASE s = p
      <4>1. W[q] # W[s]
        BY <1>1, <1>6, <1>8, <2>1, <3>2, <3>3, <3>4, <3>6
      <4>2. ASSUME W[q] < W[s], NEW i \in 1..Len(U[q].keys) PROVE U[q].keys[i] < W[s]
        <5>1. lo[q] < lo[p]
          BY <1>1, <1>6, <2>1, <3>2, <3>3, <3>4, <3>6, <4>2
        <5>2. T[q].keys[i] < lo[p] /\ i \in 1..Len(T[q].keys)
          BY <2>1, <3>2, <4>2, <5>1 DEF Apart
        <5>3. T[q].keys[i] \in Nat
          BY <2>1, <5>2, NodeFields DEF IsTree
        <5> QED BY <1>1, <1>6, <1>8, <2>1, <3>2, <3>6, <5>2, <5>3
      <4> QED BY <4>1, <4>2 DEF Apart
    <3> QED BY <2>3, <3>5, <3>6
  <2> QED BY <2>2, <2>3
<1>19. CASE q = r
  <2> DEFINE k == Len(T[r].keys)
  <2>1. lev[p] + 1 = lev[r]
    BY <1>1, ParentFacts
  <2>2. s \notin {new, p}
    BY <1>1, <1>5, <1>6, <1>15, <1>19, <2>1
  <2>3. T[s].kind # "none" /\ lev[s] = lev[r] /\ W[s] = lo[s] /\ W[q] = lo[r]
    BY <1>1, <1>6, <1>14, <1>15, <1>19, <2>2
  <2>4. Apart(T, lo, r, s)
    BY <1>1, <1>7, <2>3
  <2>5. ASSUME lo[r] < lo[s] PROVE key < lo[s]
    <3>1. k \in Nat /\ Len(T[r].child) = k + 1
      BY <1>1, NodeFields DEF IsTree, Shaped
    <3>2. j \in 1..k + 1 /\ T[r].child[j] = p
      BY <1>4 DEF Parted
    <3>3. lo[p] = IF j = 1 THEN lo[r] ELSE T[r].keys[j - 1]
      <4>1. j \in Int /\ 1 <= j /\ j <= Len(T[r].child)
        BY <3>1, <3>2
      <4>2. lo[T[r].child[j]] = IF j = 1 THEN lo[r] ELSE T[r].keys[j - 1]
        BY <1>1, <4>1, ChildFacts
      <4> QED BY <3>2, <4>2
    <3>4. lo[p] < lo[s]
      <4>1. j # 1 => j - 1 \in 1..k
        BY <3>1, <3>2
      <4> QED BY <2>4, <2>5, <3>3, <4>1 DEF Apart
    <3>5. lev[p] \in 0..lev[s]
      BY <1>1, <1>5, <2>1, <2>3
    <3>6. PICK t \in Place : T[t].kind # "none" /\ lev[t] = lev[p] /\ lo[t] = lo[s]
      BY <2>3, <3>5, Beneath
    <3>7. lo[p] < lo[t]
      BY <3>4, <3>6
    <3>8. key < lo[t]
      BY <1>1, <1>11, <3>6, <3>7
    <3> QED BY <3>6, <3>8
  <2>6. /\ j \in 1..k + 1 /\ Len(U[q].keys) = k + 1
        /\ \A i \in 1..k + 1 : U[q].keys[i] =
              IF i < j THEN T[r].keys[i] ELSE IF i = j THEN key ELSE T[r].keys[i - 1]
    BY <1>4, <1>19 DEF Parted
  <2>7. k \in Nat
    BY <1>1, NodeFields DEF IsTree
  <2> HIDE DEF key
  <2>8. ASSUME lo[r] < lo[s], NEW i \in 1..k + 1 PROVE U[q].keys[i] < lo[s]
    <3>0. \A h \in 1..k : T[r].keys[h] < lo[s]
      BY <2>4, <2>8 DEF Apart
    <3>1. CASE i < j
      <4>1. i \in 1..k
        BY <2>6, <2>7, <3>1
      <4> QED BY <2>6, <3>0, <3>1, <4>1
    <3>2. CASE i = j
      <4>1. ~(i < j)
        BY <2>6, <3>2
      <4> QED BY <2>5, <2>6, <2>8, <3>2, <4>1
    <3>3. CASE i > j
      <4>1. i - 1 \in 1..k /\ ~(i < j) /\ i # j
        BY <2>6, <2>7, <3>3
      <4> QED BY <2>6, <3>0, <4>1
    <3> QED BY <2>6, <3>1, <3>2, <3>3
  <2>9. W[q] = W[s] => q = s
    BY <1>19, <2>3, <2>4 DEF Apart
  <2>10. W[q] < W[s] => \A i \in 1..Len(U[q].keys) : U[q].keys[i] < W[s]
    BY <2>3, <2>6, <2>8
  <2> QED BY <2>9, <2>10 DEF Apart
<1> QED BY <1>16, <1>17, <1>18, <1>19

\* A node of a tree is split.
LEMMA SplitTree ==
    ASSUME NEW T, NEW lev, NEW lo, IsTree(T, lev, lo), NEW U, NEW r,
           NEW p \in Page, T[p].kind # "none", NEW new \in Page, T[new].kind = "none",
           NEW a, Splits(T, U, p, r, new, a)
    PROVE  IsTree(U, SplitLev(lev, p, new), SplitLo(T, lo, p, new, a))
<1>1. Shaped(U)
  BY SplitShaped
<1>2. Family(U, SplitLev(lev, p, new))
  BY SplitFamily
<1>3. lo \in [Place -> Nat] /\ lo[0] = 0
  BY DEF IsTree, Ordered
<1>4. p \in Place /\ new \in Place /\ 0 # new /\ 0 # p /\ 0 \in Place /\ T[p].keys[a + 1] \in Nat
  BY SplitNodes, Places
<1>5. SplitLo(T, lo, p, new, a) \in [Place -> Nat] /\ SplitLo(T, lo, p, new, a)[0] = 0
  BY <1>3, <1>4 DEF SplitLo
<1>6. \A q \in Place : U[q].kind = "internal" => Begins(U, SplitLo(T, lo, p, new, a), q)
  BY SplitBegins
<1>7. \A q \in Place : U[q].kind # "none" => KeysInOrder(U, SplitLo(T, lo, p, new, a), q)
  BY SplitKeysInOrder
<1>8. \A q, s \in Place : U[q].kind # "none" /\ U[s].kind # "none"
                          /\ SplitLev(lev, p, new)[q] = SplitLev(lev, p, new)[s] =>
         Apart(U, SplitLo(T, lo, p, new, a), q, s)
  BY SplitApart
<1> QED BY <1>1, <1>2, <1>5, <1>6, <1>7, <1>8 DEF IsTree, Ordered

-----------------------------------------------------------------------------
(* Two nodes become one *)

\* u is s followed by t.
Joined(s, t, u) ==
    /\ Len(u) = Len(s) + Len(t)
    /\ \A i \in 1..Len(s) : u[i] = s[i]
    /\ \A i \in 1..Len(t) : u[Len(s) + i] = t[i]

\* The sequences are joined by \o.
LEMMA JoinFacts ==
    ASSUME NEW V, NEW s \in Seq(V), NEW t \in Seq(V)
    PROVE  Joined(s, t, s \o t)
<1>1. Len(s) \in Nat /\ Len(t) \in Nat
  BY SeqPlaces
<1>2. /\ Len(s \o t) = Len(s) + Len(t)
      /\ \A i \in 1..Len(s) + Len(t) : (s \o t)[i] = IF i <= Len(s) THEN s[i] ELSE t[i - Len(s)]
  BY ConcatProperties
<1>3. ASSUME NEW i \in 1..Len(s) PROVE (s \o t)[i] = s[i]
  <2>1. i \in 1..Len(s) + Len(t) /\ i <= Len(s)
    BY <1>1
  <2> QED BY <1>2, <2>1
<1>4. ASSUME NEW i \in 1..Len(t) PROVE (s \o t)[Len(s) + i] = t[i]
  <2>1. Len(s) + i \in 1..Len(s) + Len(t) /\ ~(Len(s) + i <= Len(s)) /\ (Len(s) + i) - Len(s) = i
    BY <1>1
  <2> QED BY <1>2, <2>1
<1> QED BY <1>2, <1>3, <1>4 DEF Joined

\* The keys of node n and those of node o that comes after it; above the leaves
\* k is between them.
JoinedKeys(n, k, o) == IF n.kind = "leaf" THEN n.keys \o o.keys ELSE Append(n.keys, k) \o o.keys

\* The nodes p and q, which are the children j and j + 1 of r, become x, which
\* is one of them.
Merges(T, U, p, q, r, j, x) ==
    /\ r \in Place /\ T[r].kind = "internal" /\ j \in 1..Len(T[r].keys)
    /\ T[r].child[j] = p /\ T[r].child[j + 1] = q /\ x \in {p, q}
    /\ U \in [Place -> Node]
    /\ \A z \in {p, q} \ {x} : U[z] = NoNode
    /\ U[x].kind = T[p].kind /\ U[x].parent = r
    /\ U[x].keys = JoinedKeys(T[p], T[r].keys[j], T[q])
    /\ U[x].child = T[p].child \o T[q].child
    /\ U[r].keys = RemoveAt(T[r].keys, j)
    /\ U[r].child = RemoveAt([T[r].child EXCEPT ![j] = x], j + 1)
    /\ \A z \in Place \ {p, q} :
          /\ U[z].kind = T[z].kind
          /\ T[z].kind = "none" => U[z] = T[z]
          /\ T[z].kind # "none" =>
                U[z].parent = IF T[z].parent \in {p, q} THEN x ELSE T[z].parent
    /\ \A z \in Place \ {p, q, r} : U[z].keys = T[z].keys /\ U[z].child = T[z].child

\* The nodes that take part in a merger.
LEMMA MergeNodes ==
    ASSUME NEW T, NEW lev, NEW lo, IsTree(T, lev, lo), NEW U,
           NEW p, NEW q, NEW r, NEW j, NEW x, Merges(T, U, p, q, r, j, x)
    PROVE  /\ p \in Page /\ q \in Page /\ p \in Place /\ q \in Place /\ r \in Place
           /\ 0 # p /\ 0 # q /\ x \in {p, q}
           /\ p # q /\ p # r /\ q # r /\ T[p].parent = r /\ T[q].parent = r
           /\ T[p].kind \in {"leaf", "internal"} /\ T[q].kind = T[p].kind /\ T[r].kind = "internal"
           /\ lev[p] = lev[q] /\ lo[p] < lo[q] /\ lo[q] = T[r].keys[j]
           /\ lo[p] = IF j = 1 THEN lo[r] ELSE T[r].keys[j - 1]
<1>1. /\ r \in Place /\ T[r].kind = "internal" /\ j \in 1..Len(T[r].keys)
      /\ T[r].child[j] = p /\ T[r].child[j + 1] = q /\ x \in {p, q}
  BY DEF Merges
<1>2. /\ Len(T[r].keys) \in Nat /\ Len(T[r].child) = Len(T[r].keys) + 1
      /\ \A i \in 1..Len(T[r].keys) : T[r].keys[i] \in Nat
  BY <1>1, NodeFields DEF IsTree, Shaped
<1>3. /\ 1 <= j /\ j <= Len(T[r].child) /\ j \in Int /\ j + 1 \in Int /\ 1 <= j + 1
      /\ j + 1 <= Len(T[r].child) /\ j + 1 # 1 /\ (j + 1) - 1 = j
  BY <1>1, <1>2
<1>4. /\ p \in Page /\ T[p].kind # "none" /\ T[p].parent = r /\ lev[p] + 1 = lev[r]
      /\ lo[p] = IF j = 1 THEN lo[r] ELSE T[r].keys[j - 1]
  BY <1>1, <1>3, ChildFacts
<1>5. /\ q \in Page /\ T[q].kind # "none" /\ T[q].parent = r /\ lev[q] + 1 = lev[r]
      /\ lo[q] = T[r].keys[j]
  <2> DEFINE h == j + 1
  <2>1. h \in Int /\ 1 <= h /\ h <= Len(T[r].child) /\ h # 1 /\ h - 1 = j
    BY <1>3
  <2>2. T[r].child[h] = q
    BY <1>1
  <2> HIDE DEF h
  <2>3. /\ T[r].child[h] \in Page /\ T[T[r].child[h]].kind # "none"
        /\ T[T[r].child[h]].parent = r /\ lev[T[r].child[h]] + 1 = lev[r]
        /\ lo[T[r].child[h]] = IF h = 1 THEN lo[r] ELSE T[r].keys[h - 1]
    BY <1>1, <2>1, ChildFacts
  <2> QED BY <2>1, <2>2, <2>3
<1>6. p \in Place /\ q \in Place /\ 0 # p /\ 0 # q
  BY <1>4, <1>5, Places
<1>7. lev \in [Place -> Nat] /\ lo \in [Place -> Nat]
  BY DEF IsTree, Family, Ordered
<1>8. lev[p] \in Nat /\ lev[q] \in Nat /\ lev[r] \in Nat
  BY <1>1, <1>6, <1>7
<1>9. lev[p] = lev[q] /\ p # r /\ q # r
  BY <1>4, <1>5, <1>8
<1>10. KeysInOrder(T, lo, r)
  BY <1>1 DEF IsTree, Ordered
<1>11. lo[p] < lo[q]
  <2>1. CASE j = 1
    BY <1>1, <1>4, <1>5, <1>10, <2>1 DEF KeysInOrder
  <2>2. CASE j # 1
    <3>1. j - 1 \in 1..Len(T[r].keys) /\ j - 1 < j
      BY <1>1, <1>2, <2>2
    <3> QED BY <1>1, <1>4, <1>5, <1>10, <2>2, <3>1 DEF KeysInOrder, Ascending
  <2> QED BY <2>1, <2>2
<1>12. p # q
  BY <1>6, <1>7, <1>11
<1>13. T[p].kind \in {"leaf", "internal"} /\ T[q].kind = T[p].kind
  <2>1. T[p].kind \in {"leaf", "internal"} /\ T[q].kind \in {"leaf", "internal"}
    BY <1>4, <1>5, <1>6, NodeFields DEF IsTree
  <2>2. \A z \in Place : T[z].kind = "leaf" => lev[z] = 0
    BY DEF IsTree, Family
  <2>3. \A z \in Place : T[z].kind = "internal" => lev[z] > 0
    BY UpperNodes DEF IsTree
  <2> QED BY <1>6, <1>9, <2>1, <2>2, <2>3
<1> QED BY <1>1, <1>4, <1>5, <1>6, <1>9, <1>11, <1>12, <1>13

\* x has the keys and children of p and then those of q.
Union(T, U, p, q, x, key, d) ==
    /\ Len(U[x].keys) = Len(T[p].keys) + d + Len(T[q].keys)
    /\ \A i \in 1..Len(T[p].keys) : U[x].keys[i] = T[p].keys[i]
    /\ d = 1 => U[x].keys[Len(T[p].keys) + 1] = key
    /\ \A i \in 1..Len(T[q].keys) : U[x].keys[Len(T[p].keys) + d + i] = T[q].keys[i]
    /\ Joined(T[p].child, T[q].child, U[x].child)

\* That is the node that two become.
LEMMA MergeParts ==
    ASSUME NEW T, NEW lev, NEW lo, IsTree(T, lev, lo), NEW U,
           NEW p, NEW q, NEW r, NEW j, NEW x, Merges(T, U, p, q, r, j, x)
    PROVE  Union(T, U, p, q, x, T[r].keys[j], IF T[p].kind = "leaf" THEN 0 ELSE 1)
<1> DEFINE ks == T[p].keys
           ls == T[q].keys
           key == T[r].keys[j]
<1>1. p \in Place /\ q \in Place /\ r \in Place /\ T[p].kind \in {"leaf", "internal"}
  BY MergeNodes
<1>2. /\ ks \in Seq(Key) /\ ls \in Seq(Key) /\ T[p].child \in Seq(Page) /\ T[q].child \in Seq(Page)
      /\ Len(ks) \in Nat /\ Len(ls) \in Nat /\ key \in Key
  BY <1>1, NodeFields DEF IsTree, Merges
<1>3. Joined(T[p].child, T[q].child, U[x].child)
  BY <1>2, JoinFacts DEF Merges
<1>4. U[x].keys = JoinedKeys(T[p], key, T[q])
  BY DEF Merges
<1>5. CASE T[p].kind = "leaf"
  <2> HIDE DEF ks, ls, key
  <2>1. U[x].keys = ks \o ls
    BY <1>4, <1>5 DEF JoinedKeys, ks, ls
  <2>2. Joined(ks, ls, U[x].keys)
    BY <1>2, <2>1, JoinFacts
  <2>3. Len(ks) + 0 = Len(ks) /\ 0 # 1
    BY <1>2
  <2>4. Union(T, U, p, q, x, key, 0)
    BY <1>3, <2>2, <2>3 DEF Union, Joined, ks, ls
  <2> QED BY <1>5, <2>4 DEF key
<1>6. CASE T[p].kind # "leaf"
  <2> DEFINE hs == Append(ks, key)
  <2>1. U[x].keys = hs \o ls
    BY <1>4, <1>6 DEF JoinedKeys
  <2> HIDE DEF ks, ls, key
  <2>2. /\ hs \in Seq(Key) /\ Len(hs) = Len(ks) + 1
        /\ \A i \in 1..Len(ks) : hs[i] = ks[i]
        /\ hs[Len(ks) + 1] = key
    BY <1>2, AppendProperties
  <2> HIDE DEF hs
  <2>3. Joined(hs, ls, U[x].keys)
    BY <1>2, <2>1, <2>2, JoinFacts
  <2>4. Len(U[x].keys) = (Len(ks) + 1) + Len(ls)
    BY <2>2, <2>3 DEF Joined
  <2>5. \A i \in 1..Len(ks) : U[x].keys[i] = ks[i]
    <3>1. \A i \in 1..Len(ks) : i \in 1..Len(hs)
      BY <1>2, <2>2
    <3> QED BY <2>2, <2>3, <3>1 DEF Joined
  <2>6. U[x].keys[Len(ks) + 1] = key
    <3>1. Len(ks) + 1 \in 1..Len(hs)
      BY <1>2, <2>2
    <3> QED BY <2>2, <2>3, <3>1 DEF Joined
  <2>7. \A i \in 1..Len(ls) : U[x].keys[(Len(ks) + 1) + i] = ls[i]
    BY <2>2, <2>3 DEF Joined
  <2>8. Union(T, U, p, q, x, key, 1)
    BY <1>3, <2>4, <2>5, <2>6, <2>7 DEF Union, ks, ls
  <2> QED BY <1>6, <2>8 DEF key
<1> QED BY <1>5, <1>6

\* The parent r has one child less, and x at place j.
Closed(T, U, r, j, x) ==
    /\ j \in 1..Len(T[r].keys)
    /\ Len(U[r].keys) = Len(T[r].keys) - 1 /\ Len(U[r].child) = Len(T[r].keys)
    /\ \A i \in 1..Len(T[r].keys) - 1 : U[r].keys[i] = IF i < j THEN T[r].keys[i] ELSE T[r].keys[i + 1]
    /\ \A i \in 1..Len(T[r].keys) : U[r].child[i] =
          IF i < j THEN T[r].child[i] ELSE IF i = j THEN x ELSE T[r].child[i + 1]

\* That is what a merger does to the parent.
LEMMA MergeParent ==
    ASSUME NEW T, NEW lev, NEW lo, IsTree(T, lev, lo), NEW U,
           NEW p, NEW q, NEW r, NEW j, NEW x, Merges(T, U, p, q, r, j, x)
    PROVE  Closed(T, U, r, j, x)
<1> DEFINE ks == T[r].keys
           cs == T[r].child
           es == [cs EXCEPT ![j] = x]
           h == j + 1
<1>1. r \in Place /\ T[r].kind = "internal" /\ x \in Page
  BY MergeNodes
<1>2. /\ ks \in Seq(Key) /\ cs \in Seq(Page) /\ Len(ks) \in Nat /\ Len(cs) = Len(ks) + 1
  BY <1>1, NodeFields DEF IsTree, Shaped
<1>3. j \in 1..Len(ks) /\ U[r].keys = RemoveAt(ks, j) /\ U[r].child = RemoveAt(es, h)
  BY DEF Merges
<1> HIDE DEF ks, cs
<1>4. Removed(Key, ks, j, U[r].keys)
  <2>1. j \in Int /\ 1 <= j /\ j <= Len(ks)
    BY <1>2, <1>3
  <2> QED BY <1>2, <1>3, <2>1, RemoveAtFacts
<1>5. /\ es \in Seq(Page) /\ Len(es) = Len(ks) + 1
      /\ \A i \in 1..Len(ks) + 1 : es[i] = IF i = j THEN x ELSE cs[i]
  <2>1. j \in 1..Len(cs)
    BY <1>2, <1>3
  <2> QED BY <1>1, <1>2, <2>1, ExceptSeq
<1> HIDE DEF es
<1>6. h \in Int /\ 1 <= h /\ h <= Len(es)
  BY <1>2, <1>3, <1>5
<1> HIDE DEF h
<1>7. Removed(Page, es, h, U[r].child)
  BY <1>3, <1>5, <1>6, RemoveAtFacts
<1>8. Len(es) - 1 = Len(ks)
  BY <1>2, <1>5
<1>9. ASSUME NEW i \in 1..Len(ks)
      PROVE  U[r].child[i] = IF i < j THEN cs[i] ELSE IF i = j THEN x ELSE cs[i + 1]
  <2>1. U[r].child[i] = IF i < h THEN es[i] ELSE es[i + 1]
    BY <1>7, <1>8 DEF Removed
  <2>2. i \in 1..Len(ks) + 1 /\ i + 1 \in 1..Len(ks) + 1
    BY <1>2
  <2>3. CASE i < j
    <3>1. i < h /\ i # j
      BY <1>3, <2>3 DEF h
    <3> QED BY <1>5, <2>1, <2>2, <2>3, <3>1
  <2>4. CASE i = j
    <3>1. i < h /\ ~(i < j)
      BY <1>3, <2>4 DEF h
    <3> QED BY <1>5, <2>1, <2>2, <2>4, <3>1
  <2>5. CASE i > j
    <3>1. ~(i < h) /\ ~(i < j) /\ i # j /\ i + 1 # j
      BY <1>3, <2>5 DEF h
    <3> QED BY <1>5, <2>1, <2>2, <3>1
  <2> QED BY <1>3, <2>3, <2>4, <2>5
<1>10. /\ Len(U[r].keys) = Len(ks) - 1 /\ Len(U[r].child) = Len(ks)
       /\ \A i \in 1..Len(ks) - 1 : U[r].keys[i] = IF i < j THEN ks[i] ELSE ks[i + 1]
  BY <1>4, <1>7, <1>8 DEF Removed
<1> QED BY <1>3, <1>9, <1>10 DEF Closed, ks, cs

\* After a merger the nodes have as many children as they need.
LEMMA MergeShaped ==
    ASSUME NEW T, NEW lev, NEW lo, IsTree(T, lev, lo), NEW U,
           NEW p, NEW q, NEW r, NEW j, NEW x, Merges(T, U, p, q, r, j, x)
    PROVE  Shaped(U)
<1> DEFINE d == IF T[p].kind = "leaf" THEN 0 ELSE 1
           key == T[r].keys[j]
<1>1. /\ p \in Place /\ q \in Place /\ r \in Place /\ 0 # p /\ 0 # q /\ x \in {p, q}
      /\ p # q /\ p # r /\ q # r
      /\ T[p].kind \in {"leaf", "internal"} /\ T[q].kind = T[p].kind /\ T[r].kind = "internal"
  BY MergeNodes
<1>2. /\ U \in [Place -> Node] /\ U[x].kind = T[p].kind
      /\ \A z \in {p, q} \ {x} : U[z] = NoNode
      /\ \A z \in Place \ {p, q} : U[z].kind = T[z].kind /\ (T[z].kind = "none" => U[z] = T[z])
      /\ \A z \in Place \ {p, q, r} : U[z].keys = T[z].keys /\ U[z].child = T[z].child
  BY DEF Merges
<1>3. Shaped(T)
  BY DEF IsTree
<1>4. Union(T, U, p, q, x, key, d)
  BY MergeParts
<1>5. Closed(T, U, r, j, x)
  BY MergeParent
<1>6. NoNode.kind = "none"
  BY DEF NoNode
<1> HIDE DEF d, key
<1>7. U[0].kind = "internal"
  BY <1>1, <1>2, <1>3, Places DEF Shaped
<1>8. ASSUME NEW z \in Place, U[z].kind = "none" PROVE U[z] = NoNode
  BY <1>1, <1>2, <1>3, <1>8 DEF Shaped
<1>9. ASSUME NEW z \in Place, U[z].kind = "leaf" PROVE U[z].child = <<>>
  <2>1. CASE z = x
    <3>1. T[p].kind = "leaf" /\ T[q].kind = "leaf" /\ U[z].child \in Seq(Page)
      BY <1>1, <1>2, <1>9, <2>1 DEF Node
    <3>2. T[p].child = <<>> /\ T[q].child = <<>>
      BY <1>1, <1>3, <3>1 DEF Shaped
    <3>3. Len(U[z].child) = 0
      BY <1>4, <2>1, <3>2 DEF Union, Joined
    <3> QED BY <3>1, <3>3, EmptySeq
  <2>2. CASE z # x
    <3>1. z \notin {p, q, r}
      BY <1>1, <1>2, <1>6, <1>9, <2>2
    <3> QED BY <1>2, <1>3, <1>9, <3>1 DEF Shaped
  <2> QED BY <2>1, <2>2
<1>10. ASSUME NEW z \in Place, U[z].kind = "internal" PROVE Len(U[z].child) = Len(U[z].keys) + 1
  <2>1. CASE z = x
    <3>1. T[p].kind = "internal" /\ T[q].kind = "internal"
      BY <1>1, <1>2, <1>10, <2>1
    <3>2. /\ Len(T[p].child) = Len(T[p].keys) + 1 /\ Len(T[q].child) = Len(T[q].keys) + 1
          /\ Len(T[p].keys) \in Nat /\ Len(T[q].keys) \in Nat
      BY <1>1, <1>3, <3>1, NodeFields DEF Shaped
    <3>3. d = 1
      BY <3>1 DEF d
    <3>4. Len(U[x].keys) = Len(T[p].keys) + 1 + Len(T[q].keys)
      BY <1>4, <3>3 DEF Union
    <3>5. Len(U[x].child) = (Len(T[p].keys) + 1) + (Len(T[q].keys) + 1)
      BY <1>4, <3>2 DEF Union, Joined
    <3> DEFINE np == Len(T[p].keys)
               nq == Len(T[q].keys)
               nk == Len(U[x].keys)
               nc == Len(U[x].child)
    <3>6. np \in Nat /\ nq \in Nat /\ nk = np + 1 + nq /\ nc = (np + 1) + (nq + 1)
      BY <3>2, <3>4, <3>5
    <3> HIDE DEF np, nq, nk, nc
    <3>7. nc = nk + 1
      BY <3>6
    <3> QED BY <2>1, <3>7 DEF nc, nk
  <2>2. CASE z = r
    <3>1. Len(U[r].keys) = Len(T[r].keys) - 1 /\ Len(U[r].child) = Len(T[r].keys)
      BY <1>5 DEF Closed
    <3>2. Len(T[r].keys) \in Nat
      BY <1>1, <1>3, NodeFields
    <3> QED BY <2>2, <3>1, <3>2
  <2>3. CASE z \notin {x, r}
    <3>1. z \notin {p, q, r}
      BY <1>1, <1>2, <1>6, <1>10, <2>3
    <3> QED BY <1>2, <1>3, <1>10, <3>1 DEF Shaped
  <2> QED BY <2>1, <2>2, <2>3
<1> QED BY <1>2, <1>7, <1>8, <1>9, <1>10 DEF Shaped

\* After a merger parents and children name each other.
LEMMA MergeFamily ==
    ASSUME NEW T, NEW lev, NEW lo, IsTree(T, lev, lo), NEW U,
           NEW p, NEW q, NEW r, NEW j, NEW x, Merges(T, U, p, q, r, j, x)
    PROVE  Family(U, lev)
<1> DEFINE d == IF T[p].kind = "leaf" THEN 0 ELSE 1
           key == T[r].keys[j]
           mp == Len(T[p].child)
           mq == Len(T[q].child)
<1>1. /\ p \in Page /\ q \in Page /\ p \in Place /\ q \in Place /\ r \in Place
      /\ 0 # p /\ 0 # q /\ x \in {p, q}
      /\ p # q /\ p # r /\ q # r /\ T[p].parent = r /\ T[q].parent = r
      /\ T[p].kind \in {"leaf", "internal"} /\ T[q].kind = T[p].kind /\ T[r].kind = "internal"
      /\ lev[p] = lev[q]
  BY MergeNodes
<1>2. /\ U \in [Place -> Node] /\ U[x].kind = T[p].kind /\ U[x].parent = r
      /\ \A z \in {p, q} \ {x} : U[z] = NoNode
      /\ \A z \in Place \ {p, q} : U[z].kind = T[z].kind
      /\ \A z \in Place \ {p, q} : T[z].kind # "none" =>
            U[z].parent = IF T[z].parent \in {p, q} THEN x ELSE T[z].parent
      /\ \A z \in Place \ {p, q, r} : U[z].child = T[z].child
  BY DEF Merges
<1>3. Joined(T[p].child, T[q].child, U[x].child)
  BY MergeParts DEF Union
<1>4. Closed(T, U, r, j, x)
  BY MergeParent
<1>5. NoNode.kind = "none"
  BY DEF NoNode
<1>6. lev \in [Place -> Nat]
  BY DEF IsTree, Family
<1>7. ASSUME NEW z \in Place, T[z].kind = "internal", NEW i \in 1..Len(T[z].child)
      PROVE  /\ T[z].child[i] \in Page /\ T[T[z].child[i]].kind # "none"
             /\ T[T[z].child[i]].parent = z /\ lev[T[z].child[i]] + 1 = lev[z]
  <2>1. Len(T[z].child) \in Nat
    BY NodeFields DEF IsTree
  <2>2. i \in Int /\ 1 <= i /\ i <= Len(T[z].child)
    BY <2>1
  <2> QED BY <1>7, <2>2, ChildFacts
<1>8. Len(T[r].keys) \in Nat /\ Len(T[r].child) = Len(T[r].keys) + 1 /\ mp \in Nat /\ mq \in Nat
  BY <1>1, NodeFields DEF IsTree, Shaped
<1>9. T[r].child[j] = p /\ T[r].child[j + 1] = q /\ j \in 1..Len(T[r].keys)
  BY DEF Merges
<1>10. \A i \in 1..Len(T[r].child) : (T[r].child[i] = p => i = j) /\ (T[r].child[i] = q => i = j + 1)
  <2>1. j \in 1..Len(T[r].child) /\ j + 1 \in 1..Len(T[r].child)
    BY <1>8, <1>9
  <2> QED BY <1>1, <1>9, <2>1, ChildOnce
<1> HIDE DEF d, key, mp, mq
<1>11. ASSUME NEW z \in Place, U[z].kind = "leaf" PROVE lev[z] = 0
  <2>1. \A y \in Place : T[y].kind = "leaf" => lev[y] = 0
    BY DEF IsTree, Family
  <2>2. CASE z = x
    BY <1>1, <1>2, <1>11, <2>1, <2>2
  <2>3. CASE z # x
    <3>1. z \notin {p, q}
      BY <1>1, <1>2, <1>5, <1>11, <2>3
    <3> QED BY <1>2, <1>11, <2>1, <3>1
  <2> QED BY <2>2, <2>3
<1>12. ASSUME NEW z \in Place, U[z].kind = "internal", NEW i \in 1..Len(U[z].child)
       PROVE  Under(U, lev, z, U[z].child[i])
  <2>1. ASSUME NEW y, y \in {p, q, z}, T[y].kind = "internal", NEW h \in 1..Len(T[y].child),
               U[z].child[i] = T[y].child[h], y \in {p, q} <=> z = x,
               T[y].child[h] \notin {p, q}
        PROVE  Under(U, lev, z, U[z].child[i])
    <3> DEFINE c == T[y].child[h]
    <3>1. y \in Place
      BY <1>1, <2>1
    <3>2. c \in Place /\ T[c].kind # "none" /\ T[c].parent = y /\ lev[c] + 1 = lev[y]
      BY <1>7, <2>1, <3>1, Places
    <3> HIDE DEF c
    <3>3. c \notin {p, q}
      BY <2>1 DEF c
    <3>4. U[c].kind # "none"
      BY <1>2, <3>2, <3>3
    <3>5. U[c].parent = z
      BY <1>2, <2>1, <3>2, <3>3
    <3>6. lev[y] = lev[z]
      BY <1>1, <2>1
    <3> QED BY <2>1, <3>2, <3>4, <3>5, <3>6 DEF Under, c
  <2>2. CASE z = x
    <3>1. T[p].kind = "internal" /\ T[q].kind = "internal" /\ i \in 1..mp + mq
      BY <1>1, <1>2, <1>3, <1>12, <2>2 DEF Joined, mp, mq
    <3>2. ASSUME NEW y \in {p, q}, NEW h \in 1..Len(T[y].child) PROVE T[y].child[h] \notin {p, q}
      <4>1. T[T[y].child[h]].parent = y
        BY <1>1, <1>7, <3>1
      <4> QED BY <1>1, <4>1
    <3>3. CASE i \in 1..mp
      <4>1. U[x].child[i] = T[p].child[i]
        BY <1>3, <3>3 DEF Joined, mp
      <4> QED BY <2>1, <2>2, <3>1, <3>2, <3>3, <4>1 DEF mp
    <3>4. CASE i \notin 1..mp
      <4>1. i - mp \in 1..mq /\ mp + (i - mp) = i
        BY <1>8, <3>1, <3>4
      <4>2. U[x].child[mp + (i - mp)] = T[q].child[i - mp]
        BY <1>3, <4>1 DEF Joined, mp, mq
      <4> QED BY <2>1, <2>2, <3>1, <3>2, <4>1, <4>2 DEF mq
    <3> QED BY <3>3, <3>4
  <2>3. CASE z = r
    <3>1. /\ i \in 1..Len(T[r].keys) /\ j \in 1..Len(T[r].keys)
          /\ U[r].child[i] = IF i < j THEN T[r].child[i] ELSE IF i = j THEN x ELSE T[r].child[i + 1]
      BY <1>4, <1>12, <2>3 DEF Closed
    <3>2. CASE i = j
      <4>1. U[z].child[i] = x
        BY <1>8, <2>3, <3>1, <3>2
      <4>2. lev[x] + 1 = lev[r]
        BY <1>1, ParentFacts
      <4> QED BY <1>1, <1>2, <2>3, <4>1, <4>2 DEF Under
    <3>3. CASE i < j
      <4>1. i \in 1..Len(T[r].child) /\ U[r].child[i] = T[r].child[i] /\ i # j /\ i # j + 1
        BY <1>8, <3>1, <3>3
      <4>2. T[r].child[i] \notin {p, q}
        BY <1>10, <4>1
      <4> QED BY <1>1, <2>1, <2>3, <4>1, <4>2
    <3>4. CASE i > j
      <4>1. i + 1 \in 1..Len(T[r].child) /\ U[r].child[i] = T[r].child[i + 1] /\ i + 1 # j /\ i + 1 # j + 1
        BY <1>8, <3>1, <3>4
      <4>2. T[r].child[i + 1] \notin {p, q}
        BY <1>10, <4>1
      <4> QED BY <1>1, <2>1, <2>3, <4>1, <4>2
    <3> QED BY <1>8, <3>1, <3>2, <3>3, <3>4
  <2>4. CASE z \notin {x, r}
    <3>1. z \notin {p, q, r}
      BY <1>1, <1>2, <1>5, <1>12, <2>4
    <3>2. T[z].kind = "internal" /\ i \in 1..Len(T[z].child) /\ U[z].child[i] = T[z].child[i]
      BY <1>2, <1>12, <3>1
    <3>3. T[T[z].child[i]].parent = z
      BY <1>7, <3>2
    <3>4. T[z].child[i] \notin {p, q}
      BY <1>1, <3>1, <3>3
    <3> QED BY <2>1, <2>4, <3>1, <3>2, <3>4
  <2> QED BY <2>2, <2>3, <2>4
<1>13. ASSUME NEW c \in Page, U[c].kind # "none" PROVE lev[c] < lev[0] /\ HasPlace(U, c)
  <2>1. c \in Place
    BY Places
  <2>2. \A y \in Page : T[y].kind # "none" => lev[y] < lev[0]
    BY DEF IsTree, Family
  <2>3. U[r].kind = "internal"
    BY <1>1, <1>2
  <2>4. CASE c = x
    <3>1. lev[c] < lev[0]
      BY <1>1, <2>2, <2>4
    <3>2. j \in 1..Len(U[r].child) /\ U[r].child[j] = x
      BY <1>4, <1>8 DEF Closed
    <3> QED BY <1>2, <2>3, <2>4, <3>1, <3>2 DEF HasPlace
  <2>5. CASE c # x
    <3>0. c \notin {p, q}
      BY <1>1, <1>2, <1>5, <1>13, <2>5
    <3>1. T[c].kind # "none"
      BY <1>2, <1>13, <2>1, <3>0
    <3>2. lev[c] < lev[0]
      BY <2>2, <3>1
    <3>3. T[c].parent \in Place /\ HasPlace(T, c)
      BY <2>1, <3>1, ParentFacts DEF IsTree, Family
    <3>4. PICK i \in 1..Len(T[T[c].parent].child) : T[T[c].parent].child[i] = c
      BY <3>3 DEF HasPlace
    <3>5. T[T[c].parent].kind = "internal"
      BY <3>3 DEF HasPlace
    <3>6. U[c].parent = IF T[c].parent \in {p, q} THEN x ELSE T[c].parent
      BY <1>2, <2>1, <3>0, <3>1
    <3>7. CASE T[c].parent = p
      <4>1. i \in 1..mp /\ T[p].child[i] = c /\ T[p].kind = "internal" /\ U[c].parent = x
        BY <3>4, <3>5, <3>6, <3>7 DEF mp
      <4>2. U[x].child[i] = c /\ Len(U[x].child) = mp + mq
        BY <1>3, <4>1 DEF Joined, mp, mq
      <4>3. i \in 1..mp + mq
        BY <1>8, <4>1
      <4> QED BY <1>2, <3>2, <4>1, <4>2, <4>3 DEF HasPlace
    <3>8. CASE T[c].parent = q
      <4>1. i \in 1..mq /\ T[q].child[i] = c /\ T[q].kind = "internal" /\ U[c].parent = x
        BY <3>4, <3>5, <3>6, <3>8 DEF mq
      <4>2. U[x].child[mp + i] = c /\ Len(U[x].child) = mp + mq
        BY <1>3, <4>1 DEF Joined, mp, mq
      <4>3. mp + i \in 1..mp + mq
        BY <1>8, <4>1
      <4> QED BY <1>1, <1>2, <3>2, <4>1, <4>2, <4>3 DEF HasPlace
    <3>9. CASE T[c].parent = r
      <4>1. U[c].parent = r /\ i \in 1..Len(T[r].child) /\ T[r].child[i] = c
        BY <1>1, <3>4, <3>6, <3>9
      <4>2. i # j /\ i # j + 1
        BY <1>9, <3>0, <4>1
      <4>3. CASE i < j
        <5>1. i \in 1..Len(T[r].keys)
          BY <1>8, <1>9, <4>1, <4>3
        <5>2. i \in 1..Len(U[r].child) /\ U[r].child[i] = c
          BY <1>4, <4>1, <4>3, <5>1 DEF Closed
        <5> QED BY <2>3, <3>2, <4>1, <5>2 DEF HasPlace
      <4>4. CASE i > j
        <5>1. i - 1 \in 1..Len(T[r].keys) /\ ~(i - 1 < j) /\ i - 1 # j /\ (i - 1) + 1 = i
          BY <1>8, <1>9, <4>1, <4>2, <4>4
        <5>2. i - 1 \in 1..Len(U[r].child) /\ U[r].child[i - 1] = c
          BY <1>4, <4>1, <5>1 DEF Closed
        <5> QED BY <2>3, <3>2, <4>1, <5>2 DEF HasPlace
      <4> QED BY <1>8, <1>9, <4>1, <4>2, <4>3, <4>4
    <3>10. CASE T[c].parent \notin {p, q, r}
      <4>1. U[c].parent = T[c].parent
        BY <3>6, <3>10
      <4>2. U[T[c].parent].child = T[T[c].parent].child /\ U[T[c].parent].kind = "internal"
        BY <1>2, <3>3, <3>5, <3>10
      <4> QED BY <3>2, <3>4, <4>1, <4>2 DEF HasPlace
    <3> QED BY <3>7, <3>8, <3>9, <3>10
  <2> QED BY <2>4, <2>5
<1> QED BY <1>6, <1>11, <1>12, <1>13 DEF Family

\* No node of their level begins between two children of r that are neighbours.
LEMMA NoneBetween ==
    ASSUME NEW T, NEW lev, NEW lo, IsTree(T, lev, lo), NEW r \in Place, T[r].kind = "internal",
           NEW j \in 1..Len(T[r].keys), NEW p, ChildAt(T, r, j, p), NEW q, q = T[r].child[j + 1],
           NEW t \in Place, T[t].kind # "none", lev[t] = lev[p], lo[p] < lo[t]
    PROVE  lo[q] <= lo[t]
<1> DEFINE R == T[t].parent
           ks == T[r].keys
<1>1. /\ Len(ks) \in Nat /\ Len(T[r].child) = Len(ks) + 1
      /\ \A i \in 1..Len(ks) : ks[i] \in Nat
  BY NodeFields DEF IsTree, Shaped
<1>2. j \in 1..Len(T[r].child) /\ T[r].child[j] = p /\ j + 1 \in 1..Len(T[r].child)
  BY <1>1 DEF ChildAt
<1>3. lo \in [Place -> Nat] /\ lev \in [Place -> Nat]
  BY DEF IsTree, Ordered, Family
<1>4. ASSUME NEW i \in 1..Len(T[r].child)
      PROVE  /\ T[r].child[i] \in Page /\ T[T[r].child[i]].kind # "none"
             /\ lev[T[r].child[i]] + 1 = lev[r]
             /\ lo[T[r].child[i]] = IF i = 1 THEN lo[r] ELSE ks[i - 1]
  <2>1. i \in Int /\ 1 <= i /\ i <= Len(T[r].child)
    BY <1>1
  <2> QED BY <2>1, ChildFacts
<1>5. p \in Place /\ p \in Page /\ T[p].kind # "none" /\ lev[p] + 1 = lev[r]
  BY <1>2, <1>4, Places
<1>6. lo[p] = IF j = 1 THEN lo[r] ELSE ks[j - 1]
  BY <1>2, <1>4
<1>7. lo[q] = ks[j]
  <2>1. j + 1 # 1 /\ (j + 1) - 1 = j
    BY <1>1
  <2> QED BY <1>2, <1>4, <2>1
<1>8. Ascending(ks) /\ \A i \in 1..Len(ks) : lo[r] <= ks[i]
  BY DEF IsTree, Ordered, KeysInOrder
<1>9. t \in Page
  <2>1. lev[p] < lev[0]
    BY <1>5 DEF IsTree, Family
  <2>2. lev[p] # lev[0]
    BY <1>3, <1>5, <2>1, Places
  <2> QED BY <2>2, Places
<1>10. /\ R \in Place /\ T[R].kind = "internal" /\ lev[t] + 1 = lev[R] /\ lo[R] <= lo[t]
       /\ \E h \in 1..Len(T[R].child) : T[R].child[h] = t
  BY <1>9, ParentFacts
<1>11. lev[R] = lev[r]
  BY <1>5, <1>10
<1>12. PICK h \in 1..Len(T[R].child) : T[R].child[h] = t
  BY <1>10
<1>13. lo[r] \in Nat /\ lo[p] \in Nat /\ lo[t] \in Nat
  BY <1>3, <1>5
<1>14. CASE R = r
  <2>1. h \in 1..Len(T[r].child) /\ lo[t] = IF h = 1 THEN lo[r] ELSE ks[h - 1]
    BY <1>4, <1>12, <1>14
  <2> HIDE DEF R
  <2>2. CASE h = 1
    <3>1. lo[t] = lo[r]
      BY <2>1, <2>2
    <3>2. CASE j = 1
      BY <1>6, <1>13, <3>1, <3>2
    <3>3. CASE j # 1
      <4>1. j - 1 \in 1..Len(ks)
        BY <1>1, <3>3
      <4>2. lo[r] <= ks[j - 1]
        BY <1>8, <4>1
      <4>3. lo[r] <= lo[p]
        BY <1>6, <3>3, <4>2
      <4> QED BY <1>13, <3>1, <4>3
    <3> QED BY <3>2, <3>3
  <2>3. CASE h # 1 /\ h <= j
    <3>1. h - 1 \in 1..Len(ks) /\ j - 1 \in 1..Len(ks) /\ j # 1 /\ (h - 1 < j - 1 \/ h - 1 = j - 1)
      BY <1>1, <2>1, <2>3
    <3>2. ks[h - 1] \in Nat /\ ks[j - 1] \in Nat /\ (ks[h - 1] < ks[j - 1] \/ h - 1 = j - 1)
      BY <1>1, <1>8, <3>1 DEF Ascending
    <3>3. lo[t] = ks[h - 1] /\ lo[p] = ks[j - 1]
      BY <1>6, <2>1, <2>3, <3>1
    <3>4. lo[t] < lo[p] \/ lo[t] = lo[p]
      BY <3>2, <3>3
    <3> QED BY <1>13, <3>4
  <2>4. CASE h > j
    <3>1. h # 1 /\ h - 1 \in 1..Len(ks) /\ (j < h - 1 \/ h - 1 = j)
      BY <1>1, <2>1, <2>4
    <3>2. ks[h - 1] \in Nat /\ ks[j] \in Nat /\ (ks[j] < ks[h - 1] \/ h - 1 = j)
      BY <1>1, <1>8, <3>1 DEF Ascending
    <3>3. lo[t] = ks[h - 1]
      BY <2>1, <3>1
    <3> QED BY <1>7, <3>2, <3>3
  <2> QED BY <1>1, <2>1, <2>2, <2>3, <2>4
<1>15. CASE R # r
  <2>1. Apart(T, lo, r, R) /\ Apart(T, lo, R, r)
    BY <1>10, <1>11 DEF IsTree, Ordered
  <2>2. lo[R] \in Nat /\ lo[R] # lo[r]
    BY <1>3, <1>10, <1>15, <2>1 DEF Apart
  <2>3. CASE lo[r] < lo[R]
    <3>1. ks[j] < lo[R] /\ ks[j] \in Nat
      BY <1>1, <2>1, <2>3 DEF Apart
    <3> HIDE DEF R, ks
    <3> QED BY <1>7, <1>10, <1>13, <2>2, <3>1
  <2>4. CASE lo[R] < lo[r]
    <3>1. lo[r] <= lo[p]
      BY <1>5, ParentFacts, <1>2, ChildFacts
    <3>2. lo[t] < lo[r]
      <4>1. Len(T[R].child) \in Nat /\ Len(T[R].child) = Len(T[R].keys) + 1
        BY <1>10, NodeFields DEF IsTree, Shaped
      <4>2. h \in Int /\ 1 <= h /\ h <= Len(T[R].child)
        BY <4>1
      <4>3. lo[t] = IF h = 1 THEN lo[R] ELSE T[R].keys[h - 1]
        BY <1>10, <1>12, <4>2, ChildFacts
      <4>4. CASE h = 1
        BY <2>4, <4>3, <4>4
      <4>5. CASE h # 1
        <5>1. Len(T[R].keys) \in Nat
          BY <1>10, NodeFields DEF IsTree
        <5>2. h - 1 \in 1..Len(T[R].keys)
          BY <4>1, <4>5, <5>1
        <5>3. T[R].keys[h - 1] < lo[r]
          BY <2>1, <2>4, <5>2 DEF Apart
        <5> QED BY <4>3, <4>5, <5>3
      <4> QED BY <4>4, <4>5
    <3> QED BY <1>13, <3>1, <3>2
  <2> QED BY <1>13, <2>2, <2>3, <2>4
<1> QED BY <1>14, <1>15

\* Where the nodes begin after a merger.
MergeLo(lo, p, x) == [lo EXCEPT ![x] = lo[p]]

\* There each node begins where its place among the children says.
LEMMA MergeBegins ==
    ASSUME NEW T, NEW lev, NEW lo, IsTree(T, lev, lo), NEW U,
           NEW p, NEW q, NEW r, NEW j, NEW x, Merges(T, U, p, q, r, j, x),
           NEW z \in Place, U[z].kind = "internal"
    PROVE  Begins(U, MergeLo(lo, p, x), z)
<1> DEFINE W == MergeLo(lo, p, x)
           d == IF T[p].kind = "leaf" THEN 0 ELSE 1
           key == T[r].keys[j]
           mp == Len(T[p].child)
           mq == Len(T[q].child)
           np == Len(T[p].keys)
           nq == Len(T[q].keys)
<1>1. /\ p \in Place /\ q \in Place /\ r \in Place /\ x \in {p, q}
      /\ p # q /\ p # r /\ q # r /\ T[p].parent = r /\ T[q].parent = r
      /\ T[q].kind = T[p].kind /\ T[r].kind = "internal"
      /\ lo[q] = key /\ lo[p] = IF j = 1 THEN lo[r] ELSE T[r].keys[j - 1]
  BY MergeNodes
<1>2. /\ U[x].kind = T[p].kind
      /\ \A y \in {p, q} \ {x} : U[y] = NoNode
      /\ \A y \in Place \ {p, q} : U[y].kind = T[y].kind
      /\ \A y \in Place \ {p, q, r} : U[y].keys = T[y].keys /\ U[y].child = T[y].child
  BY DEF Merges
<1>3. Union(T, U, p, q, x, key, d)
  BY MergeParts
<1>4. Closed(T, U, r, j, x)
  BY MergeParent
<1>5. NoNode.kind = "none"
  BY DEF NoNode
<1>6. lo \in [Place -> Nat]
  BY DEF IsTree, Ordered
<1>7. W[x] = lo[p] /\ \A y \in Place \ {p, q} : W[y] = lo[y]
  BY <1>1, <1>6 DEF MergeLo
<1>8. ASSUME NEW y \in Place, T[y].kind = "internal", NEW i \in 1..Len(T[y].child)
      PROVE  /\ T[y].child[i] \in Place
             /\ T[T[y].child[i]].parent = y
             /\ lo[T[y].child[i]] = IF i = 1 THEN lo[y] ELSE T[y].keys[i - 1]
  <2>1. Len(T[y].child) \in Nat
    BY NodeFields DEF IsTree
  <2>2. i \in Int /\ 1 <= i /\ i <= Len(T[y].child)
    BY <2>1
  <2> QED BY <1>8, <2>2, ChildFacts, Places
<1>9. ASSUME NEW y \in Place, T[y].kind = "internal", y # r, NEW i \in 1..Len(T[y].child)
      PROVE  W[T[y].child[i]] = IF i = 1 THEN lo[y] ELSE T[y].keys[i - 1]
  <2>1. /\ T[y].child[i] \in Place /\ T[T[y].child[i]].parent = y
        /\ lo[T[y].child[i]] = IF i = 1 THEN lo[y] ELSE T[y].keys[i - 1]
    BY <1>8, <1>9
  <2>2. T[y].child[i] \notin {p, q}
    BY <1>1, <1>9, <2>1
  <2> QED BY <1>7, <2>1, <2>2
<1>10. /\ Len(T[r].keys) \in Nat /\ Len(T[r].child) = Len(T[r].keys) + 1
       /\ mp \in Nat /\ mq \in Nat /\ np \in Nat /\ nq \in Nat
  BY <1>1, NodeFields DEF IsTree, Shaped
<1>11. T[p].kind = "internal" => mp = np + 1 /\ mq = nq + 1
  BY <1>1 DEF IsTree, Shaped
<1>12. T[r].child[j] = p /\ T[r].child[j + 1] = q /\ j \in 1..Len(T[r].keys)
  BY DEF Merges
<1>13. \A i \in 1..Len(T[r].child) : (T[r].child[i] = p => i = j) /\ (T[r].child[i] = q => i = j + 1)
  <2>1. j \in 1..Len(T[r].child) /\ j + 1 \in 1..Len(T[r].child)
    BY <1>10, <1>12
  <2> QED BY <1>1, <1>12, <2>1, ChildOnce
<1>14. T[p].kind = "internal" => d = 1
  OBVIOUS
<1> HIDE DEF W, mp, mq, np, nq, d, key
<1>15. ASSUME NEW i \in 1..Len(U[z].child)
       PROVE  W[U[z].child[i]] = IF i = 1 THEN W[z] ELSE U[z].keys[i - 1]
  <2>1. CASE z = x
    <3>1. T[p].kind = "internal" /\ T[q].kind = "internal"
      BY <1>1, <1>2, <2>1
    <3>2. Len(U[x].child) = mp + mq
      BY <1>3 DEF Union, Joined, mp, mq
    <3>3. i \in 1..mp + mq
      BY <1>15, <2>1, <3>2
    <3>4. CASE i \in 1..mp
      <4>1. U[x].child[i] = T[p].child[i]
        BY <1>3, <3>4 DEF Union, Joined, mp
      <4>2. W[T[p].child[i]] = IF i = 1 THEN lo[p] ELSE T[p].keys[i - 1]
        BY <1>1, <1>9, <3>1, <3>4 DEF mp
      <4>3. i # 1 => i - 1 \in 1..np
        BY <1>10, <1>11, <3>1, <3>4
      <4>4. i # 1 => U[x].keys[i - 1] = T[p].keys[i - 1]
        BY <1>3, <4>3 DEF Union, np
      <4> QED BY <1>7, <2>1, <4>1, <4>2, <4>4
    <3>5. CASE i \notin 1..mp
      <4> DEFINE h == i - mp
                 c == T[q].child[h]
      <4>1. h \in 1..mq /\ mp + h = i /\ i # 1
        BY <1>10, <1>11, <3>1, <3>3, <3>5
      <4> HIDE DEF h
      <4>2. U[x].child[mp + h] = c
        BY <1>3, <4>1 DEF Union, Joined, mp, mq
      <4>3. W[c] = IF h = 1 THEN lo[q] ELSE T[q].keys[h - 1]
        BY <1>1, <1>9, <3>1, <4>1 DEF mq
      <4> HIDE DEF c
      <4>4. CASE h = 1
        <5>1. i - 1 = np + 1
          BY <1>10, <1>11, <3>1, <3>3, <4>1, <4>4
        <5>2. U[x].keys[np + 1] = key
          BY <1>3, <1>14, <3>1 DEF Union, np
        <5> QED BY <1>1, <2>1, <4>1, <4>2, <4>3, <4>4, <5>1, <5>2
      <4>5. CASE h # 1
        <5>1. h - 1 \in 1..nq /\ i - 1 = np + 1 + (h - 1)
          BY <1>10, <1>11, <3>1, <3>3, <4>1, <4>5
        <5>2. U[x].keys[np + 1 + (h - 1)] = T[q].keys[h - 1]
          BY <1>3, <1>14, <3>1, <5>1 DEF Union, np, nq
        <5> QED BY <2>1, <4>1, <4>2, <4>3, <4>5, <5>1, <5>2
      <4> QED BY <4>4, <4>5
    <3> QED BY <3>4, <3>5
  <2>2. CASE z = r
    <3>1. /\ i \in 1..Len(T[r].keys)
          /\ U[r].child[i] = IF i < j THEN T[r].child[i] ELSE IF i = j THEN x ELSE T[r].child[i + 1]
      BY <1>4, <1>15, <2>2 DEF Closed
    <3>2. \A h \in 1..Len(T[r].keys) - 1 : U[r].keys[h] = IF h < j THEN T[r].keys[h] ELSE T[r].keys[h + 1]
      BY <1>4 DEF Closed
    <3>3. W[r] = lo[r]
      BY <1>1, <1>7
    <3>4. CASE i = j
      <4>1. U[r].child[i] = x
        BY <1>10, <3>1, <3>4
      <4>2. i # 1 => i - 1 \in 1..Len(T[r].keys) - 1 /\ i - 1 < j
        BY <1>10, <3>1, <3>4
      <4>3. i # 1 => U[r].keys[i - 1] = T[r].keys[i - 1]
        BY <3>2, <4>2
      <4> QED BY <1>1, <1>7, <2>2, <3>3, <3>4, <4>1, <4>3
    <3>5. CASE i < j
      <4>1. i \in 1..Len(T[r].child) /\ U[r].child[i] = T[r].child[i] /\ i # j /\ i # j + 1
        BY <1>10, <1>12, <3>1, <3>5
      <4>2. T[r].child[i] \notin {p, q}
        BY <1>13, <4>1
      <4>3. /\ T[r].child[i] \in Place
            /\ lo[T[r].child[i]] = IF i = 1 THEN lo[r] ELSE T[r].keys[i - 1]
        BY <1>1, <1>8, <4>1
      <4>4. i # 1 => i - 1 \in 1..Len(T[r].keys) - 1 /\ i - 1 < j
        BY <1>10, <1>12, <3>1, <3>5
      <4>5. i # 1 => U[r].keys[i - 1] = T[r].keys[i - 1]
        BY <3>2, <4>4
      <4> QED BY <1>7, <2>2, <3>3, <4>1, <4>2, <4>3, <4>5
    <3>6. CASE i > j
      <4> DEFINE h == i + 1
                 c == T[r].child[h]
      <4>1. h \in 1..Len(T[r].child) /\ U[r].child[i] = T[r].child[h] /\ h # j /\ h # j + 1 /\ h # 1 /\ h - 1 = i
        BY <1>10, <1>12, <3>1, <3>6
      <4> HIDE DEF h
      <4>2. c \notin {p, q}
        BY <1>13, <4>1
      <4>3. c \in Place /\ lo[c] = T[r].keys[i]
        BY <1>1, <1>8, <4>1
      <4> HIDE DEF c
      <4>4. i # 1 /\ i - 1 \in 1..Len(T[r].keys) - 1 /\ ~(i - 1 < j) /\ (i - 1) + 1 = i
        BY <1>10, <1>12, <3>1, <3>6
      <4>5. U[r].keys[i - 1] = T[r].keys[i]
        BY <3>2, <4>4
      <4>6. W[c] = lo[c] /\ U[r].child[i] = c
        BY <1>7, <4>1, <4>2, <4>3 DEF c
      <4> QED BY <2>2, <4>3, <4>4, <4>5, <4>6
    <3> QED BY <1>10, <1>12, <3>1, <3>4, <3>5, <3>6
  <2>3. CASE z \notin {x, r}
    <3>1. z \notin {p, q, r}
      BY <1>1, <1>2, <1>5, <2>3
    <3>2. T[z].kind = "internal" /\ U[z].child = T[z].child /\ U[z].keys = T[z].keys /\ W[z] = lo[z]
      BY <1>2, <1>7, <3>1
    <3>3. i \in 1..Len(T[z].child)
      BY <1>15, <3>2
    <3> QED BY <1>9, <3>1, <3>2, <3>3
  <2> QED BY <2>1, <2>2, <2>3
<1>16. Begins(U, W, z)
  BY <1>15 DEF Begins
<1> QED BY <1>16 DEF W

\* Each key of x was one of p, the key between the two, or one of q.
KeyParts(T, U, p, q, x, key, d) ==
    \A i \in 1..Len(U[x].keys) :
       \/ i \in 1..Len(T[p].keys) /\ U[x].keys[i] = T[p].keys[i]
       \/ d = 1 /\ i = Len(T[p].keys) + 1 /\ U[x].keys[i] = key
       \/ \E h \in 1..Len(T[q].keys) : i = Len(T[p].keys) + d + h /\ U[x].keys[i] = T[q].keys[h]

\* That follows from how x is put together.
LEMMA UnionKeys ==
    ASSUME NEW T, NEW U, NEW p, NEW q, NEW x, NEW key, NEW d, d = 0 \/ d = 1,
           Len(T[p].keys) \in Nat, Len(T[q].keys) \in Nat, Union(T, U, p, q, x, key, d)
    PROVE  KeyParts(T, U, p, q, x, key, d)
<1> DEFINE np == Len(T[p].keys)
           nq == Len(T[q].keys)
<1>1. /\ Len(U[x].keys) = np + d + nq
      /\ \A i \in 1..np : U[x].keys[i] = T[p].keys[i]
      /\ d = 1 => U[x].keys[np + 1] = key
      /\ \A i \in 1..nq : U[x].keys[np + d + i] = T[q].keys[i]
  BY DEF Union
<1>2. np \in Nat /\ nq \in Nat
  OBVIOUS
<1> HIDE DEF np, nq
<1>3. ASSUME NEW i \in 1..np + d + nq
      PROVE  \/ i \in 1..np /\ U[x].keys[i] = T[p].keys[i]
             \/ d = 1 /\ i = np + 1 /\ U[x].keys[i] = key
             \/ \E h \in 1..nq : i = np + d + h /\ U[x].keys[i] = T[q].keys[h]
  <2>1. CASE i \in 1..np
    BY <1>1, <2>1
  <2>2. CASE d = 1 /\ i = np + 1
    BY <1>1, <2>2
  <2>3. CASE i \notin 1..np /\ ~(d = 1 /\ i = np + 1)
    <3> DEFINE h == i - (np + d)
    <3>1. h \in 1..nq /\ i = np + d + h
      BY <1>2, <1>3, <2>3
    <3> HIDE DEF h
    <3>2. U[x].keys[np + d + h] = T[q].keys[h]
      BY <1>1, <3>1
    <3> QED BY <3>1, <3>2
  <2> QED BY <2>1, <2>2, <2>3
<1> QED BY <1>1, <1>3 DEF KeyParts, np, nq

\* The keys of x in order, with the key between p and q.
Across(T, U, p, q, x, key, lo) ==
    /\ T[q].kind = T[p].kind
    /\ KeysInOrder(T, lo, p) /\ KeysInOrder(T, lo, q)
    /\ lo[p] \in Nat /\ key \in Nat /\ lo[p] < key /\ lo[q] = key
    /\ \A i \in 1..Len(T[p].keys) : T[p].keys[i] \in Nat /\ T[p].keys[i] < key
    /\ \A i \in 1..Len(T[q].keys) : T[q].keys[i] \in Nat

\* All of them come after where p begins, and in order.
LEMMA UnionOrder ==
    ASSUME NEW T, NEW U, NEW lo, NEW p, NEW q, NEW x, NEW key, NEW d,
           d = IF T[p].kind = "leaf" THEN 0 ELSE 1,
           Len(T[p].keys) \in Nat, Len(T[q].keys) \in Nat, T[p].kind \in {"leaf", "internal"},
           KeyParts(T, U, p, q, x, key, d), Across(T, U, p, q, x, key, lo),
           Len(U[x].keys) \in Nat
    PROVE  /\ Ascending(U[x].keys)
           /\ \A i \in 1..Len(U[x].keys) :
                 lo[p] <= U[x].keys[i] /\ (T[p].kind = "internal" => lo[p] < U[x].keys[i])
<1>1. d \in {0, 1} /\ (d = 1 <=> T[p].kind = "internal")
  OBVIOUS
<1>2. /\ Ascending(T[p].keys) /\ Ascending(T[q].keys)
      /\ \A i \in 1..Len(T[p].keys) :
            lo[p] <= T[p].keys[i] /\ (d = 1 => lo[p] < T[p].keys[i])
      /\ \A i \in 1..Len(T[q].keys) :
            key <= T[q].keys[i] /\ (d = 1 => key < T[q].keys[i])
  BY <1>1 DEF Across, KeysInOrder
<1>3. /\ lo[p] \in Nat /\ key \in Nat /\ lo[p] < key
      /\ \A i \in 1..Len(T[p].keys) : T[p].keys[i] \in Nat /\ T[p].keys[i] < key
      /\ \A i \in 1..Len(T[q].keys) : T[q].keys[i] \in Nat
  BY DEF Across
<1> DEFINE np == Len(T[p].keys)
           nq == Len(T[q].keys)
           ks == T[p].keys
           ls == T[q].keys
           us == U[x].keys
           low == lo[p]
<1>4. \A i \in 1..Len(us) :
        \/ i \in 1..np /\ us[i] = ks[i]
        \/ d = 1 /\ i = np + 1 /\ us[i] = key
        \/ \E h \in 1..nq : i = np + d + h /\ us[i] = ls[h]
  BY DEF KeyParts
<1>5. np \in Nat /\ nq \in Nat /\ Len(us) \in Nat
  OBVIOUS
<1>8. d \in Nat
  BY <1>1
<1> HIDE DEF np, nq, us, low
<1>9. ASSUME NEW i \in 1..np, i \in 1..Len(us) PROVE us[i] = ks[i]
  <2>1. i # np + 1 /\ \A h \in 1..nq : i # np + d + h
    BY <1>5, <1>8
  <2> QED BY <1>4, <1>9, <2>1
<1>6. ASSUME NEW i \in 1..Len(us)
      PROVE  us[i] \in Nat /\ low <= us[i] /\ (d = 1 => low < us[i])
  <2>1. CASE i \in 1..np /\ us[i] = ks[i]
    BY <1>2, <1>3, <2>1 DEF np, low
  <2>2. CASE d = 1 /\ us[i] = key
    BY <1>3, <2>2 DEF low
  <2>3. CASE \E h \in 1..nq : us[i] = ls[h]
    <3>1. PICK h \in 1..nq : us[i] = ls[h]
      BY <2>3
    <3>2. ls[h] \in Nat /\ key <= ls[h]
      BY <1>2, <1>3 DEF nq
    <3> QED BY <1>3, <3>1, <3>2 DEF low
  <2> QED BY <1>4, <2>1, <2>2, <2>3
<1>7. ASSUME NEW i \in 1..Len(us), NEW h \in 1..Len(us), i < h PROVE us[i] < us[h]
  <2>1. CASE h \in 1..np /\ us[h] = ks[h]
    <3>1. i \in 1..np
      BY <1>5, <1>7, <2>1
    <3>2. us[i] = ks[i]
      BY <1>9, <3>1
    <3> QED BY <1>2, <1>7, <2>1, <3>1, <3>2 DEF Ascending, np
  <2>2. CASE d = 1 /\ h = np + 1 /\ us[h] = key
    <3>1. i \in 1..np
      BY <1>5, <1>7, <2>2
    <3>2. us[i] = ks[i]
      BY <1>9, <3>1
    <3> QED BY <1>3, <2>2, <3>1, <3>2 DEF np
  <2>3. CASE \E y \in 1..nq : h = np + d + y /\ us[h] = ls[y]
    <3>1. PICK y \in 1..nq : h = np + d + y /\ us[h] = ls[y]
      BY <2>3
    <3>2. ls[y] \in Nat /\ key <= ls[y] /\ (d = 1 => key < ls[y])
      BY <1>2, <1>3 DEF nq
    <3>3. CASE i \in 1..np /\ us[i] = ks[i]
      <4>1. ks[i] \in Nat /\ ks[i] < key
        BY <1>3, <3>3 DEF np
      <4> QED BY <1>3, <3>1, <3>2, <3>3, <4>1
    <3>4. CASE d = 1 /\ us[i] = key
      BY <3>1, <3>2, <3>4
    <3>5. CASE \E w \in 1..nq : i = np + d + w /\ us[i] = ls[w]
      <4>1. PICK w \in 1..nq : i = np + d + w /\ us[i] = ls[w]
        BY <3>5
      <4>2. np + d + w < np + d + y /\ w \in Nat /\ y \in Nat
        BY <1>5, <1>7, <3>1, <4>1
      <4>3. w < y
        BY <1>5, <1>8, <4>2
      <4> QED BY <1>2, <3>1, <4>1, <4>3 DEF Ascending, nq
    <3> QED BY <1>4, <3>3, <3>4, <3>5
  <2> QED BY <1>4, <2>1, <2>2, <2>3
<1> QED BY <1>1, <1>6, <1>7 DEF Ascending, us, low

\* The keys of the nodes after a merger.
LEMMA MergeKeysInOrder ==
    ASSUME NEW T, NEW lev, NEW lo, IsTree(T, lev, lo), NEW U,
           NEW p, NEW q, NEW r, NEW j, NEW x, Merges(T, U, p, q, r, j, x),
           NEW z \in Place, U[z].kind # "none"
    PROVE  KeysInOrder(U, MergeLo(lo, p, x), z)
<1> DEFINE W == MergeLo(lo, p, x)
           d == IF T[p].kind = "leaf" THEN 0 ELSE 1
           key == T[r].keys[j]
<1>1. /\ p \in Place /\ q \in Place /\ r \in Place /\ x \in {p, q}
      /\ p # q /\ p # r /\ q # r
      /\ T[p].kind \in {"leaf", "internal"} /\ T[q].kind = T[p].kind /\ T[r].kind = "internal"
      /\ lo[q] = key /\ lo[p] < lo[q] /\ lev[p] = lev[q]
  BY MergeNodes
<1>2. /\ U \in [Place -> Node] /\ U[x].kind = T[p].kind
      /\ \A y \in {p, q} \ {x} : U[y] = NoNode
      /\ \A y \in Place \ {p, q} : U[y].kind = T[y].kind
      /\ \A y \in Place \ {p, q, r} : U[y].keys = T[y].keys
  BY DEF Merges
<1>3. Union(T, U, p, q, x, key, d)
  BY MergeParts
<1>4. Closed(T, U, r, j, x)
  BY MergeParent
<1>5. NoNode.kind = "none"
  BY DEF NoNode
<1>6. lo \in [Place -> Nat] /\ \A y \in Place : T[y].kind # "none" => KeysInOrder(T, lo, y)
  BY DEF IsTree, Ordered
<1>7. W[x] = lo[p] /\ \A y \in Place \ {p, q} : W[y] = lo[y]
  BY <1>1, <1>6 DEF MergeLo
<1>8. /\ Len(T[p].keys) \in Nat /\ Len(T[q].keys) \in Nat /\ Len(T[r].keys) \in Nat
      /\ \A i \in 1..Len(T[p].keys) : T[p].keys[i] \in Nat
      /\ \A i \in 1..Len(T[q].keys) : T[q].keys[i] \in Nat
      /\ \A i \in 1..Len(T[r].keys) : T[r].keys[i] \in Nat
  BY <1>1, NodeFields DEF IsTree
<1>9. Shaped(U)
  BY MergeShaped
<1>10. Len(U[x].keys) \in Nat
  BY <1>1, <1>9, NodeFields
<1> SUFFICES KeysInOrder(U, W, z)
  OBVIOUS
<1> HIDE DEF W
<1>11. CASE z = x
  <2>1. Apart(T, lo, p, q)
    BY <1>1 DEF IsTree, Ordered
  <2>2. \A i \in 1..Len(T[p].keys) : T[p].keys[i] < key
    BY <1>1, <2>1 DEF Apart
  <2>3. lo[p] \in Nat /\ key \in Nat /\ lo[p] < key
    BY <1>1, <1>6
  <2> HIDE DEF key
  <2>4. Across(T, U, p, q, x, key, lo)
    BY <1>1, <1>6, <1>8, <2>2, <2>3 DEF Across
  <2>5. d = 0 \/ d = 1
    OBVIOUS
  <2>6. d = IF T[p].kind = "leaf" THEN 0 ELSE 1
    OBVIOUS
  <2> HIDE DEF d
  <2>7. KeyParts(T, U, p, q, x, key, d)
    BY <1>3, <1>8, <2>5, UnionKeys
  <2>8. /\ Ascending(U[x].keys)
        /\ \A i \in 1..Len(U[x].keys) :
              lo[p] <= U[x].keys[i] /\ (T[p].kind = "internal" => lo[p] < U[x].keys[i])
    BY <1>1, <1>8, <1>10, <2>4, <2>6, <2>7, UnionOrder
  <2> QED BY <1>2, <1>7, <1>11, <2>8 DEF KeysInOrder
<1>12. CASE z = r
  <2>1. KeysInOrder(T, lo, r) /\ U[r].kind = "internal" /\ W[r] = lo[r]
    BY <1>1, <1>2, <1>6, <1>7
  <2>2. /\ j \in 1..Len(T[r].keys)
        /\ Len(U[r].keys) = Len(T[r].keys) - 1
        /\ \A i \in 1..Len(T[r].keys) - 1 : U[r].keys[i] = IF i < j THEN T[r].keys[i] ELSE T[r].keys[i + 1]
    BY <1>4 DEF Closed
  <2> DEFINE n == Len(T[r].keys)
             at(i) == IF i < j THEN i ELSE i + 1
  <2>3. n \in Nat /\ j \in 1..n
    BY <1>8, <2>2
  <2> HIDE DEF n
  <2>4. \A i \in 1..n - 1 : at(i) \in 1..n /\ U[r].keys[i] = T[r].keys[at(i)]
    BY <2>2, <2>3 DEF n
  <2>5. \A i, h \in 1..n - 1 : i < h => at(i) < at(h)
    BY <2>3
  <2> HIDE DEF at
  <2>6. Ascending(T[r].keys) /\ \A i \in 1..n : lo[r] <= T[r].keys[i] /\ lo[r] < T[r].keys[i]
    BY <1>1, <2>1 DEF KeysInOrder, n
  <2>7. \A i \in 1..n - 1 : lo[r] <= U[r].keys[i] /\ lo[r] < U[r].keys[i]
    BY <2>4, <2>6
  <2>8. ASSUME NEW i \in 1..n - 1, NEW h \in 1..n - 1, i < h PROVE U[r].keys[i] < U[r].keys[h]
    <3>1. at(i) < at(h) /\ at(i) \in 1..n /\ at(h) \in 1..n
      BY <2>4, <2>5, <2>8
    <3>2. T[r].keys[at(i)] < T[r].keys[at(h)]
      BY <2>6, <3>1 DEF Ascending, n
    <3> QED BY <2>4, <3>2
  <2>9. Len(U[r].keys) = n - 1
    BY <2>2 DEF n
  <2>10. Ascending(U[r].keys)
    BY <2>8, <2>9 DEF Ascending
  <2> QED BY <1>12, <2>1, <2>7, <2>9, <2>10 DEF KeysInOrder
<1>13. CASE z \notin {x, r}
  <2>1. z \notin {p, q, r}
    BY <1>1, <1>2, <1>5, <1>13
  <2>2. T[z].kind # "none" /\ U[z].kind = T[z].kind /\ U[z].keys = T[z].keys /\ W[z] = lo[z]
    BY <1>2, <1>7, <2>1
  <2> QED BY <1>6, <2>2 DEF KeysInOrder
<1> QED BY <1>11, <1>12, <1>13

\* After a merger the nodes of a level do not overlap.
LEMMA MergeApart ==
    ASSUME NEW T, NEW lev, NEW lo, IsTree(T, lev, lo), NEW U,
           NEW p, NEW q, NEW r, NEW j, NEW x, Merges(T, U, p, q, r, j, x),
           NEW s \in Place, NEW t \in Place, U[s].kind # "none", U[t].kind # "none",
           lev[s] = lev[t]
    PROVE  Apart(U, MergeLo(lo, p, x), s, t)
<1> DEFINE W == MergeLo(lo, p, x)
           d == IF T[p].kind = "leaf" THEN 0 ELSE 1
           key == T[r].keys[j]
<1>1. /\ p \in Place /\ q \in Place /\ r \in Place /\ x \in {p, q} /\ lev[p] = lev[q]
      /\ p # q /\ p # r /\ q # r
      /\ T[p].kind \in {"leaf", "internal"} /\ T[q].kind = T[p].kind /\ T[r].kind = "internal"
      /\ lo[q] = key /\ lo[p] < lo[q]
  BY MergeNodes
<1>2. /\ \A y \in {p, q} \ {x} : U[y] = NoNode
      /\ \A y \in Place \ {p, q} : U[y].kind = T[y].kind
      /\ \A y \in Place \ {p, q, r} : U[y].keys = T[y].keys
  BY DEF Merges
<1>3. Union(T, U, p, q, x, key, d)
  BY MergeParts
<1>4. Closed(T, U, r, j, x)
  BY MergeParent
<1>5. NoNode.kind = "none"
  BY DEF NoNode
<1>6. lo \in [Place -> Nat]
  BY DEF IsTree, Ordered
<1>7. W[x] = lo[p] /\ \A y \in Place \ {p, q} : W[y] = lo[y]
  BY <1>1, <1>6 DEF MergeLo
<1>8. /\ Len(T[p].keys) \in Nat /\ Len(T[q].keys) \in Nat /\ Len(T[r].keys) \in Nat
  BY <1>1, NodeFields DEF IsTree
<1>9. \A y, z \in Place : T[y].kind # "none" /\ T[z].kind # "none" /\ lev[y] = lev[z] => Apart(T, lo, y, z)
  BY DEF IsTree, Ordered
<1>10. \A y \in Place : U[y].kind # "none" => y = x \/ (y \notin {p, q} /\ T[y].kind # "none")
  BY <1>1, <1>2, <1>5
<1>11. \A y \in Place \ {p, q} : \A i \in 1..Len(U[y].keys) :
          \E h \in 1..Len(T[y].keys) : U[y].keys[i] = T[y].keys[h]
  <2> SUFFICES ASSUME NEW y \in Place \ {p, q}, NEW i \in 1..Len(U[y].keys)
               PROVE  \E h \in 1..Len(T[y].keys) : U[y].keys[i] = T[y].keys[h]
    OBVIOUS
  <2>1. CASE y = r
    <3>1. /\ i \in 1..Len(T[r].keys) - 1
          /\ U[r].keys[i] = IF i < j THEN T[r].keys[i] ELSE T[r].keys[i + 1]
      BY <1>4, <2>1 DEF Closed
    <3>2. i \in 1..Len(T[r].keys) /\ i + 1 \in 1..Len(T[r].keys)
      BY <1>8, <3>1
    <3> QED BY <2>1, <3>1, <3>2
  <2>2. CASE y # r
    BY <1>2, <2>2
  <2> QED BY <2>1, <2>2
<1>12. \A y \in Place \ {p, q} : lo[y] \in Nat
  BY <1>6
<1> HIDE DEF W
<1>13. ASSUME s \notin {p, q}, t \notin {p, q} PROVE Apart(U, W, s, t)
  <2>1. T[s].kind # "none" /\ T[t].kind # "none" /\ W[s] = lo[s] /\ W[t] = lo[t]
    BY <1>1, <1>7, <1>10, <1>13
  <2>2. Apart(T, lo, s, t)
    BY <1>9, <2>1
  <2> QED BY <1>11, <1>13, <2>1, <2>2 DEF Apart
<1>14. ASSUME s \notin {p, q}, t = x PROVE Apart(U, W, s, t)
  <2>1. T[s].kind # "none" /\ W[s] = lo[s] /\ W[t] = lo[p] /\ lev[s] = lev[p]
    BY <1>1, <1>7, <1>10, <1>14
  <2>2. Apart(T, lo, s, p)
    BY <1>1, <1>9, <2>1
  <2> QED BY <1>11, <1>14, <2>1, <2>2 DEF Apart
<1>15. ASSUME s = x, t \notin {p, q} PROVE Apart(U, W, s, t)
  <2>1. T[t].kind # "none" /\ W[t] = lo[t] /\ W[s] = lo[p] /\ lev[t] = lev[p] /\ lev[t] = lev[q]
    BY <1>1, <1>7, <1>10, <1>15
  <2>2. Apart(T, lo, p, t) /\ Apart(T, lo, q, t)
    BY <1>1, <1>9, <2>1
  <2>3. lo[p] # lo[t] /\ lo[q] # lo[t]
    BY <1>15, <2>2 DEF Apart
  <2>4. ASSUME lo[p] < lo[t], NEW i \in 1..Len(U[x].keys) PROVE U[x].keys[i] < lo[t]
    <3>1. ChildAt(T, r, j, p)
      <4>1. Len(T[r].child) = Len(T[r].keys) + 1
        BY <1>1 DEF IsTree, Shaped
      <4>2. j \in 1..Len(T[r].keys) /\ T[r].child[j] = p
        BY DEF Merges
      <4> QED BY <1>8, <4>1, <4>2 DEF ChildAt
    <3>2. j \in 1..Len(T[r].keys) /\ q = T[r].child[j + 1]
      BY DEF Merges
    <3>3. lo[q] <= lo[t]
      BY <1>1, <2>1, <2>4, <3>1, <3>2, NoneBetween
    <3>4. lo[q] < lo[t]
      BY <1>1, <1>6, <2>3, <3>3
    <3>5. KeyParts(T, U, p, q, x, key, d)
      <4>1. d = 0 \/ d = 1
        OBVIOUS
      <4> HIDE DEF d, key
      <4> QED BY <1>3, <1>8, <4>1, UnionKeys
    <3> HIDE DEF d, key
    <3>6. \/ \E h \in 1..Len(T[p].keys) : U[x].keys[i] = T[p].keys[h]
          \/ U[x].keys[i] = key
          \/ \E h \in 1..Len(T[q].keys) : U[x].keys[i] = T[q].keys[h]
      BY <3>5 DEF KeyParts
    <3>7. key < lo[t]
      BY <1>1, <3>4
    <3>8. \A h \in 1..Len(T[p].keys) : T[p].keys[h] < lo[t]
      BY <2>2, <2>4 DEF Apart
    <3>9. \A h \in 1..Len(T[q].keys) : T[q].keys[h] < lo[t]
      BY <2>2, <3>4 DEF Apart
    <3> QED BY <3>6, <3>7, <3>8, <3>9
  <2> QED BY <1>15, <2>1, <2>3, <2>4 DEF Apart
<1>16. ASSUME s = x, t = x PROVE Apart(U, W, s, t)
  <2>1. W[x] \in Nat
    BY <1>1, <1>6, <1>7
  <2>2. ~(W[x] < W[x])
    BY <2>1
  <2> QED BY <1>16, <2>2 DEF Apart
<1>17. Apart(U, W, s, t)
  BY <1>10, <1>13, <1>14, <1>15, <1>16
<1> QED BY <1>17 DEF W

\* Two neighbours of a tree become one node.
LEMMA MergeTree ==
    ASSUME NEW T, NEW lev, NEW lo, IsTree(T, lev, lo), NEW U,
           NEW p, NEW q, NEW r, NEW j, NEW x, Merges(T, U, p, q, r, j, x)
    PROVE  IsTree(U, lev, MergeLo(lo, p, x))
<1> DEFINE W == MergeLo(lo, p, x)
<1>1. Shaped(U)
  BY MergeShaped
<1>2. Family(U, lev)
  BY MergeFamily
<1>3. W \in [Place -> Nat] /\ W[0] = 0
  <2>1. lo \in [Place -> Nat] /\ lo[0] = 0
    BY DEF IsTree, Ordered
  <2>2. p \in Place /\ x \in {p, q} /\ p # 0 /\ q # 0
    BY MergeNodes
  <2>3. lo[p] \in Nat
    BY <2>1, <2>2
  <2>4. x \in Place
    BY MergeNodes
  <2> QED BY <2>1, <2>2, <2>3, <2>4, Places DEF MergeLo
<1>4. \A z \in Place : U[z].kind = "internal" => Begins(U, W, z)
  BY MergeBegins
<1>5. \A z \in Place : U[z].kind # "none" => KeysInOrder(U, W, z)
  BY MergeKeysInOrder
<1>6. \A s, t \in Place : U[s].kind # "none" /\ U[t].kind # "none" /\ lev[s] = lev[t] => Apart(U, W, s, t)
  BY MergeApart
<1> HIDE DEF W
<1>7. IsTree(U, lev, W)
  BY <1>1, <1>2, <1>3, <1>4, <1>5, <1>6 DEF IsTree, Ordered
<1> QED BY <1>7 DEF W

-----------------------------------------------------------------------------
(* The tree grows and shrinks at the root *)

\* A node of its own, new, takes the keys and children of 0 and becomes its child.
Grows(T, U, new) ==
    /\ U \in [Place -> Node]
    /\ U[0] = Internal(<<>>, <<new>>, NoPage)
    /\ U[new] = Internal(T[0].keys, T[0].child, NoPage)
    /\ \A z \in Place \ {0, new} :
          /\ U[z].kind = T[z].kind /\ (T[z].kind = "none" => U[z] = T[z])
          /\ U[z].keys = T[z].keys /\ U[z].child = T[z].child
          /\ T[z].kind # "none" => U[z].parent = IF T[z].parent = 0 THEN new ELSE T[z].parent

\* The levels and the beginnings of the nodes then.
GrownLev(lev, new) == [lev EXCEPT ![new] = lev[0], ![0] = lev[0] + 1]

\* The new node begins where the tree begins.
GrownLo(lo, new) == [lo EXCEPT ![new] = 0]

\* A tree that grows is a tree.
LEMMA GrowTree ==
    ASSUME NEW T, NEW lev, NEW lo, IsTree(T, lev, lo), NEW U,
           NEW new \in Page, T[new].kind = "none", Grows(T, U, new)
    PROVE  IsTree(U, GrownLev(lev, new), GrownLo(lo, new))
<1> DEFINE L == GrownLev(lev, new)
           W == GrownLo(lo, new)
<1>1. /\ U \in [Place -> Node]
      /\ U[0].kind = "internal" /\ U[0].keys = <<>> /\ U[0].child = <<new>>
      /\ U[new].kind = "internal" /\ U[new].keys = T[0].keys /\ U[new].child = T[0].child
      /\ U[new].parent = 0 /\ U[new].kind # "none"
  BY DEF Grows, Internal, NoPage
<1>2. /\ \A z \in Place \ {0, new} : U[z].kind = T[z].kind /\ (T[z].kind = "none" => U[z] = T[z])
      /\ \A z \in Place \ {0, new} : U[z].keys = T[z].keys /\ U[z].child = T[z].child
      /\ \A z \in Place \ {0, new} : T[z].kind # "none" =>
            U[z].parent = IF T[z].parent = 0 THEN new ELSE T[z].parent
  BY DEF Grows
<1>3. new # 0 /\ new \in Place /\ 0 \in Place /\ Page = Place \ {0} /\ Page \subseteq Place
  BY Places
<1>4. lev \in [Place -> Nat] /\ lo \in [Place -> Nat] /\ lo[0] = 0 /\ T[0].kind = "internal"
  BY DEF IsTree, Family, Ordered, Shaped
<1>5. /\ L \in [Place -> Nat] /\ W \in [Place -> Nat] /\ W[0] = 0 /\ W[new] = 0
      /\ L[new] = lev[0] /\ L[0] = lev[0] + 1
      /\ \A z \in Place \ {0, new} : L[z] = lev[z] /\ W[z] = lo[z]
  BY <1>3, <1>4 DEF GrownLev, GrownLo
<1>6. ASSUME NEW y \in Place, T[y].kind = "internal", NEW i \in 1..Len(T[y].child)
      PROVE  /\ T[y].child[i] \in Place \ {0, new} /\ T[T[y].child[i]].kind # "none"
             /\ T[T[y].child[i]].parent = y /\ lev[T[y].child[i]] + 1 = lev[y]
             /\ lo[T[y].child[i]] = IF i = 1 THEN lo[y] ELSE T[y].keys[i - 1]
  <2>1. Len(T[y].child) \in Nat
    BY NodeFields DEF IsTree
  <2>2. i \in Int /\ 1 <= i /\ i <= Len(T[y].child)
    BY <2>1
  <2> QED BY <1>3, <1>6, <2>2, ChildFacts
<1>7. \A c \in Page : T[c].kind # "none" => lev[c] < lev[0] /\ HasPlace(T, c)
  BY DEF IsTree, Family
<1>14. ASSUME NEW i \in 1..Len(U[0].child) PROVE i = 1 /\ U[0].child[i] = new
  <2>1. Len(U[0].child) = 1 /\ U[0].child[1] = new
    BY <1>1
  <2> QED BY <2>1
<1> HIDE DEF L, W
<1>8. Shaped(U)
  <2>1. /\ \A p \in Place : T[p].kind = "none" => T[p] = NoNode
        /\ \A p \in Place : T[p].kind = "leaf" => T[p].child = <<>>
        /\ \A p \in Place : T[p].kind = "internal" => Len(T[p].child) = Len(T[p].keys) + 1
    BY DEF IsTree, Shaped
  <2>2. Len(U[0].child) = Len(U[0].keys) + 1
    BY <1>1
  <2>3. \A p \in Place : U[p].kind = "none" => U[p] = NoNode
    BY <1>1, <1>2, <2>1
  <2>4. \A p \in Place : U[p].kind = "leaf" => U[p].child = <<>>
    BY <1>1, <1>2, <2>1
  <2>5. \A p \in Place : U[p].kind = "internal" => Len(U[p].child) = Len(U[p].keys) + 1
    <3> SUFFICES ASSUME NEW p \in Place, U[p].kind = "internal"
                 PROVE  Len(U[p].child) = Len(U[p].keys) + 1
      OBVIOUS
    <3>1. CASE p = 0
      BY <2>2, <3>1
    <3>2. CASE p = new
      BY <1>1, <1>3, <1>4, <2>1, <3>2
    <3>3. CASE p \notin {0, new}
      BY <1>2, <2>1, <3>3
    <3> QED BY <3>1, <3>2, <3>3
  <2> QED BY <1>1, <2>3, <2>4, <2>5 DEF Shaped
<1>9. Family(U, L)
  <2>1. ASSUME NEW p \in Place, U[p].kind = "leaf" PROVE L[p] = 0
    <3>1. p \notin {0, new}
      BY <1>1, <2>1
    <3> QED BY <1>2, <1>5, <2>1, <3>1 DEF IsTree, Family
  <2>2. ASSUME NEW p \in Place, U[p].kind = "internal", NEW i \in 1..Len(U[p].child)
        PROVE  Under(U, L, p, U[p].child[i])
    <3>1. CASE p = 0
      <4>2. U[p].child[i] = new
        BY <1>14, <2>2, <3>1
      <4> QED BY <1>1, <1>5, <3>1, <4>2 DEF Under
    <3>2. CASE p = new
      <4> DEFINE c == T[0].child[i]
      <4>1. i \in 1..Len(T[0].child) /\ U[p].child[i] = c
        BY <1>1, <2>2, <3>2
      <4>2. c \in Place \ {0, new} /\ T[c].kind # "none" /\ T[c].parent = 0 /\ lev[c] + 1 = lev[0]
        BY <1>3, <1>4, <1>6, <4>1
      <4> HIDE DEF c
      <4> QED BY <1>2, <1>5, <3>2, <4>1, <4>2 DEF Under
    <3>3. CASE p \notin {0, new}
      <4> DEFINE c == T[p].child[i]
      <4>1. i \in 1..Len(T[p].child) /\ U[p].child[i] = c /\ T[p].kind = "internal"
        BY <1>2, <2>2, <3>3
      <4>2. c \in Place \ {0, new} /\ T[c].kind # "none" /\ T[c].parent = p /\ lev[c] + 1 = lev[p]
        BY <1>6, <4>1
      <4> HIDE DEF c
      <4> QED BY <1>2, <1>5, <3>3, <4>1, <4>2 DEF Under
    <3> QED BY <3>1, <3>2, <3>3
  <2>3. ASSUME NEW c \in Page, U[c].kind # "none" PROVE L[c] < L[0] /\ HasPlace(U, c)
    <3>1. CASE c = new
      <4>1. L[c] < L[0]
        BY <1>3, <1>4, <1>5, <3>1
      <4>2. 1 \in 1..Len(U[0].child) /\ U[0].child[1] = new
        BY <1>1
      <4> QED BY <1>1, <3>1, <4>1, <4>2 DEF HasPlace
    <3>2. CASE c # new
      <4>1. c \in Place \ {0, new} /\ T[c].kind # "none"
        BY <1>2, <1>3, <2>3, <3>2
      <4>2. lev[c] < lev[0] /\ HasPlace(T, c) /\ lev[c] \in Nat /\ lev[0] \in Nat
        BY <1>3, <1>4, <1>7, <4>1
      <4>3. L[c] < L[0]
        BY <1>5, <4>1, <4>2
      <4>4. T[c].parent \in Place
        BY <4>1, NodeFields DEF IsTree
      <4>5. T[c].parent # new
        BY <4>2, <1>1 DEF HasPlace
      <4>6. CASE T[c].parent = 0
        <5>1. U[c].parent = new
          BY <1>2, <4>1, <4>6
        <5>2. \E i \in 1..Len(T[0].child) : T[0].child[i] = c
          BY <4>2, <4>6 DEF HasPlace
        <5> QED BY <1>1, <4>3, <5>1, <5>2 DEF HasPlace
      <4>7. CASE T[c].parent # 0
        <5>1. U[c].parent = T[c].parent /\ T[c].parent \in Place \ {0, new}
          BY <1>2, <4>1, <4>4, <4>5, <4>7
        <5>2. U[T[c].parent].kind = T[T[c].parent].kind /\ U[T[c].parent].child = T[T[c].parent].child
          BY <1>2, <5>1
        <5> QED BY <4>2, <4>3, <5>1, <5>2 DEF HasPlace
      <4> QED BY <4>6, <4>7
    <3> QED BY <3>1, <3>2
  <2> QED BY <1>5, <2>1, <2>2, <2>3 DEF Family
<1>10. ASSUME NEW p \in Place, U[p].kind = "internal" PROVE Begins(U, W, p)
  <2> SUFFICES ASSUME NEW i \in 1..Len(U[p].child)
               PROVE  W[U[p].child[i]] = IF i = 1 THEN W[p] ELSE U[p].keys[i - 1]
    BY DEF Begins
  <2>1. CASE p = 0
    <3>1. i = 1 /\ U[p].child[i] = new
      BY <1>14, <2>1
    <3> QED BY <1>5, <2>1, <3>1
  <2>2. CASE p = new
    <3> DEFINE y == 0
               c == T[y].child[i]
    <3>1. i \in 1..Len(T[y].child) /\ U[p].child[i] = c /\ y \in Place /\ T[y].kind = "internal"
      BY <1>1, <1>3, <1>4, <2>2
    <3> HIDE DEF y
    <3>2. c \in Place \ {0, new} /\ lo[c] = IF i = 1 THEN lo[y] ELSE T[y].keys[i - 1]
      BY <1>6, <3>1
    <3> HIDE DEF c
    <3> QED BY <1>1, <1>4, <1>5, <2>2, <3>1, <3>2 DEF y
  <2>3. CASE p \notin {0, new}
    <3> DEFINE c == T[p].child[i]
    <3>1. i \in 1..Len(T[p].child) /\ U[p].child[i] = c /\ T[p].kind = "internal" /\ U[p].keys = T[p].keys
      BY <1>2, <1>10, <2>3
    <3>2. c \in Place \ {0, new} /\ lo[c] = IF i = 1 THEN lo[p] ELSE T[p].keys[i - 1]
      BY <1>6, <3>1
    <3> HIDE DEF c
    <3> QED BY <1>5, <2>3, <3>1, <3>2
  <2> QED BY <2>1, <2>2, <2>3
<1>11. ASSUME NEW p \in Place, U[p].kind # "none" PROVE KeysInOrder(U, W, p)
  <2>1. \A y \in Place : T[y].kind # "none" => KeysInOrder(T, lo, y)
    BY DEF IsTree, Ordered
  <2>2. CASE p = 0
    <3>1. Len(U[p].keys) = 0
      BY <1>1, <2>2
    <3>2. \A i \in 1..Len(U[p].keys) : FALSE
      BY <3>1
    <3> QED BY <3>2 DEF KeysInOrder, Ascending
  <2>3. CASE p = new
    BY <1>1, <1>3, <1>4, <1>5, <2>1, <2>3 DEF KeysInOrder
  <2>4. CASE p \notin {0, new}
    <3>1. KeysInOrder(T, lo, p)
      BY <1>2, <1>11, <2>1, <2>4
    <3> QED BY <1>2, <1>5, <2>4, <3>1 DEF KeysInOrder
  <2> QED BY <2>2, <2>3, <2>4
<1>12. ASSUME NEW p \in Place, NEW q \in Place, U[p].kind # "none", U[q].kind # "none", L[p] = L[q]
       PROVE  Apart(U, W, p, q)
  <2>1. ASSUME NEW y \in Place \ {0, new}, U[y].kind # "none"
        PROVE  T[y].kind # "none" /\ L[y] < lev[0] /\ L[y] = lev[y]
    BY <1>2, <1>3, <1>5, <1>7, <2>1
  <2>2. lev[0] \in Nat
    BY <1>3, <1>4
  <2>3. CASE p \in {0, new} \/ q \in {0, new}
    <3>1. p = q
      BY <1>5, <1>12, <2>1, <2>2, <2>3
    <3>2. ~(W[p] < W[p])
      BY <1>5
    <3> QED BY <3>1, <3>2 DEF Apart
  <2>4. CASE p \notin {0, new} /\ q \notin {0, new}
    <3>1. Apart(T, lo, p, q)
      BY <1>12, <2>1, <2>4 DEF IsTree, Ordered
    <3> QED BY <1>2, <1>5, <2>4, <3>1 DEF Apart
  <2> QED BY <2>3, <2>4
<1>13. IsTree(U, L, W)
  BY <1>5, <1>8, <1>9, <1>10, <1>11, <1>12 DEF IsTree, Ordered
<1> QED BY <1>13 DEF L, W

\* The only child of 0 is above all other pages.
LEMMA OnlyChild ==
    ASSUME NEW T, NEW lev, NEW lo, IsTree(T, lev, lo), NEW old, T[0].child = <<old>>
    PROVE  /\ old \in Page /\ T[old].kind # "none" /\ T[old].parent = 0
           /\ lev[old] + 1 = lev[0] /\ lo[old] = 0
           /\ \A c \in Page : T[c].kind # "none" /\ c # old => lev[c] < lev[old] /\ T[c].parent # 0
<1>1. 0 \in Place /\ T[0].kind = "internal" /\ lo[0] = 0
  BY Places DEF IsTree, Shaped, Ordered
<1>2. Len(T[0].child) = 1 /\ T[0].child[1] = old
  OBVIOUS
<1> DEFINE z == 0
<1>3. /\ T[z].child[1] \in Page /\ T[T[z].child[1]].kind # "none"
      /\ T[T[z].child[1]].parent = z /\ lev[T[z].child[1]] + 1 = lev[z]
      /\ lo[T[z].child[1]] = lo[z]
  <2>1. 1 \in Int /\ 1 <= 1 /\ 1 <= Len(T[z].child) /\ z \in Place /\ T[z].kind = "internal"
    BY <1>1, <1>2
  <2> HIDE DEF z
  <2> QED BY <2>1, ChildFacts
<1>4. old \in Page /\ T[old].kind # "none" /\ T[old].parent = 0 /\ lev[old] + 1 = lev[0] /\ lo[old] = 0
  BY <1>1, <1>2, <1>3
<1>5. ASSUME NEW c \in Page, T[c].kind # "none", c # old PROVE lev[c] < lev[old] /\ T[c].parent # 0
  <2>1. /\ T[c].parent \in Place /\ T[T[c].parent].kind = "internal"
        /\ lev[c] + 1 = lev[T[c].parent]
        /\ \E j \in 1..Len(T[T[c].parent].child) : T[T[c].parent].child[j] = c
    BY <1>5, ParentFacts
  <2>2. T[c].parent # 0
    <3> SUFFICES ASSUME T[c].parent = 0 PROVE FALSE
      OBVIOUS
    <3>1. PICK j \in 1..Len(T[0].child) : T[0].child[j] = c
      BY <2>1
    <3>2. j = 1
      BY <1>2, <3>1
    <3> QED BY <1>2, <1>5, <3>1, <3>2
  <2>3. T[c].parent \in Page
    BY <2>1, <2>2, Places
  <2>4. lev[T[c].parent] < lev[0]
    BY <2>1, <2>3 DEF IsTree, Family
  <2>5. lev \in [Place -> Nat]
    BY DEF IsTree, Family
  <2>6. lev[c] \in Nat /\ lev[old] \in Nat
    BY <1>4, <1>5, <2>5, Places
  <2> DEFINE x == lev[c]
             y == lev[old]
  <2>7. x + 1 < y + 1 /\ x \in Nat /\ y \in Nat
    BY <1>4, <2>1, <2>4, <2>6
  <2> HIDE DEF x, y
  <2>8. x < y
    BY <2>7
  <2> QED BY <2>2, <2>8 DEF x, y
<1> QED BY <1>4, <1>5

-----------------------------------------------------------------------------
(* The chain of leaves *)

\* Node p is a leaf.
IsLeaf(T, p) == T[p].kind = "leaf"

\* q is the first leaf that begins after p does; NoPage if there is none.
Follows(T, lo, p, q) ==
    \/ q = NoPage /\ \A z \in Place : IsLeaf(T, z) => lo[z] <= lo[p]
    \/ /\ q \in Page /\ IsLeaf(T, q) /\ lo[p] < lo[q]
       /\ \A z \in Place : IsLeaf(T, z) => lo[z] <= lo[p] \/ lo[q] <= lo[z]

\* q is the leaf that p follows, NoPage if p is the first, or, where a merger has
\* left one behind, a page that is not used any more.
Precedes(T, lo, p, q, stale) ==
    \/ q = NoPage /\ \A z \in Place : IsLeaf(T, z) => lo[p] <= lo[z]
    \/ q \in Page /\ IsLeaf(T, q) /\ T[q].next = p
    \/ stale /\ q \in Page /\ T[q].kind = "none"

\* Each leaf names the leaf that follows it and the one that it follows.
Chain(T, lo, stale) ==
    \A p \in Place : IsLeaf(T, p) =>
        Follows(T, lo, p, T[p].next) /\ Precedes(T, lo, p, T[p].prev, stale)

\* The leaves and their links are the same, and the leaves begin in the same order.
SameChain(T, U, lo, new, stale) ==
    /\ \A q \in Place : IsLeaf(U, q) <=> IsLeaf(T, q)
    /\ \A q \in Place : IsLeaf(T, q) => U[q].next = T[q].next /\ U[q].prev = T[q].prev
    /\ stale => \A q \in Place : T[q].kind = "none" => U[q].kind = "none"
    /\ \A q, r \in Place : IsLeaf(T, q) /\ IsLeaf(T, r) => (new[q] < new[r] <=> lo[q] < lo[r])

\* Then the chain is one still.
LEMMA ChainKept ==
    ASSUME NEW T, NEW U, NEW lo \in [Place -> Nat], NEW new \in [Place -> Nat], NEW stale,
           Chain(T, lo, stale), SameChain(T, U, lo, new, stale)
    PROVE  Chain(U, new, stale)
<1>1. /\ \A q \in Place : IsLeaf(U, q) <=> IsLeaf(T, q)
      /\ \A q \in Place : IsLeaf(T, q) => U[q].next = T[q].next /\ U[q].prev = T[q].prev
      /\ stale => \A q \in Place : T[q].kind = "none" => U[q].kind = "none"
  BY DEF SameChain
<1>2. \A q, r \in Place : IsLeaf(T, q) /\ IsLeaf(T, r) => (new[q] < new[r] <=> lo[q] < lo[r])
  BY DEF SameChain
<1>3. \A q, r \in Place : IsLeaf(T, q) /\ IsLeaf(T, r) => (new[q] <= new[r] <=> lo[q] <= lo[r])
  <2> SUFFICES ASSUME NEW q \in Place, NEW r \in Place, IsLeaf(T, q), IsLeaf(T, r)
               PROVE  new[q] <= new[r] <=> lo[q] <= lo[r]
    OBVIOUS
  <2>1. new[r] < new[q] <=> lo[r] < lo[q]
    BY <1>2
  <2>2. new[q] \in Nat /\ new[r] \in Nat /\ lo[q] \in Nat /\ lo[r] \in Nat
    OBVIOUS
  <2> QED BY <2>1, <2>2
<1>4. Page \subseteq Place
  BY Places
<1>5. ASSUME NEW p \in Place, IsLeaf(T, p) PROVE Follows(U, new, p, T[p].next)
  <2>1. Follows(T, lo, p, T[p].next)
    BY <1>5 DEF Chain
  <2> QED BY <1>1, <1>2, <1>3, <1>4, <1>5, <2>1 DEF Follows
<1>6. ASSUME NEW p \in Place, IsLeaf(T, p) PROVE Precedes(U, new, p, T[p].prev, stale)
  <2>1. Precedes(T, lo, p, T[p].prev, stale)
    BY <1>6 DEF Chain
  <2> QED BY <1>1, <1>3, <1>4, <1>6, <2>1 DEF Precedes
<1> QED BY <1>1, <1>5, <1>6 DEF Chain

\* In a chain a leaf follows one other at most.
LEMMA FollowsOnce ==
    ASSUME NEW T, NEW lev, NEW lo, IsTree(T, lev, lo), NEW stale, Chain(T, lo, stale),
           NEW y \in Place, NEW z \in Place, IsLeaf(T, y), IsLeaf(T, z),
           T[y].next = T[z].next, T[y].next # NoPage
    PROVE  y = z
<1>1. Follows(T, lo, y, T[y].next) /\ Follows(T, lo, z, T[y].next)
  BY DEF Chain
<1>2. lo[z] <= lo[y] /\ lo[y] <= lo[z]
  <2>1. lo[z] < lo[T[y].next] /\ lo[y] < lo[T[y].next] /\ T[y].next \in Place
    BY <1>1, Places DEF Follows
  <2>2. lo \in [Place -> Nat]
    BY DEF IsTree, Ordered
  <2>3. lo[z] \in Nat /\ lo[y] \in Nat /\ lo[T[y].next] \in Nat
    BY <2>1, <2>2
  <2>4. lo[z] <= lo[y] \/ lo[T[y].next] <= lo[z]
    BY <1>1 DEF Follows
  <2>5. lo[y] <= lo[z] \/ lo[T[y].next] <= lo[y]
    BY <1>1 DEF Follows
  <2> QED BY <2>1, <2>3, <2>4, <2>5
<1>3. lo[z] = lo[y]
  <2>1. lo \in [Place -> Nat]
    BY DEF IsTree, Ordered
  <2> QED BY <1>2, <2>1
<1>4. lev[y] = 0 /\ lev[z] = 0
  BY DEF IsTree, Family, IsLeaf
<1>5. Apart(T, lo, z, y)
  BY <1>4 DEF IsTree, Ordered, IsLeaf
<1> QED BY <1>3, <1>5 DEF Apart

\* Two leaves do not begin at the same key.
LEMMA LeavesApart ==
    ASSUME NEW T, NEW lev, NEW lo, IsTree(T, lev, lo),
           NEW y \in Place, NEW z \in Place, IsLeaf(T, y), IsLeaf(T, z), y # z
    PROVE  lo[y] \in Nat /\ lo[z] \in Nat /\ lo[y] # lo[z]
<1>1. lev[y] = 0 /\ lev[z] = 0
  BY DEF IsTree, Family, IsLeaf
<1>2. Apart(T, lo, y, z)
  BY <1>1 DEF IsTree, Ordered, IsLeaf
<1>3. lo \in [Place -> Nat]
  BY DEF IsTree, Ordered
<1> QED BY <1>2, <1>3 DEF Apart

\* The links after leaf p is split and new comes in front of it.
SplitLinks(T, U, p, new) ==
    /\ IsLeaf(U, new) /\ \A z \in Place \ {new} : IsLeaf(U, z) <=> IsLeaf(T, z)
    /\ U[new].prev = T[p].prev /\ U[new].next = p
    /\ U[p].prev = new /\ U[p].next = T[p].next
    /\ \A z \in Place \ {new, p} : IsLeaf(T, z) =>
          /\ U[z].prev = T[z].prev
          /\ U[z].next = IF z = T[p].prev THEN new ELSE T[z].next

\* They are a chain of the leaves there are then.
LEMMA SplitChain ==
    ASSUME NEW T, NEW lev, NEW lo, IsTree(T, lev, lo), Chain(T, lo, FALSE), NEW U,
           NEW p \in Page, IsLeaf(T, p), NEW new \in Page, ~IsLeaf(T, new),
           SplitLinks(T, U, p, new), NEW W \in [Place -> Nat], W[new] = lo[p], lo[p] < W[p],
           \A z \in Place \ {new, p} : W[z] = lo[z],
           \A z \in Place : IsLeaf(T, z) /\ lo[p] < lo[z] => W[p] < lo[z]
    PROVE  Chain(U, W, FALSE)
<1>1. /\ IsLeaf(U, new) /\ \A z \in Place \ {new} : IsLeaf(U, z) <=> IsLeaf(T, z)
      /\ U[new].prev = T[p].prev /\ U[new].next = p
      /\ U[p].prev = new /\ U[p].next = T[p].next
      /\ \A z \in Place \ {new, p} : IsLeaf(T, z) =>
            /\ U[z].prev = T[z].prev
            /\ U[z].next = IF z = T[p].prev THEN new ELSE T[z].next
  BY DEF SplitLinks
<1>2. p \in Place /\ new \in Place /\ Page \subseteq Place /\ p # new /\ NoPage \notin Page
  BY Places DEF NoPage
<1>3. lo \in [Place -> Nat]
  BY DEF IsTree, Ordered
<1> DEFINE key == W[p]
<1>4. key \in Nat /\ lo[p] \in Nat /\ lo[p] < key
  BY <1>2, <1>3
<1>5. \A y \in Place : IsLeaf(U, y) => y = new \/ (y # new /\ IsLeaf(T, y))
  BY <1>1
<1>6. ASSUME NEW y \in Place, IsLeaf(T, y), y # p
      PROVE  /\ lo[y] \in Nat /\ W[y] = lo[y] /\ y # new
             /\ (lo[y] < lo[p] \/ (lo[p] < lo[y] /\ key < lo[y]))
  <2>1. lo[y] \in Nat /\ lo[p] \in Nat /\ lo[y] # lo[p]
    BY <1>2, <1>6, LeavesApart
  <2>2. lo[p] < lo[y] => key < lo[y]
    BY <1>6
  <2> QED BY <1>2, <1>6, <2>1, <2>2
<1>7. Follows(T, lo, p, T[p].next) /\ Precedes(T, lo, p, T[p].prev, FALSE)
  BY <1>2 DEF Chain
<1>8. T[p].prev # NoPage =>
         /\ T[p].prev \in Place \ {new, p} /\ T[p].prev \in Page
         /\ IsLeaf(T, T[p].prev) /\ T[T[p].prev].next = p
  <2> SUFFICES ASSUME T[p].prev # NoPage
               PROVE  /\ T[p].prev \in Place \ {new, p} /\ T[p].prev \in Page
                      /\ IsLeaf(T, T[p].prev) /\ T[T[p].prev].next = p
    OBVIOUS
  <2>1. T[p].prev \in Page /\ IsLeaf(T, T[p].prev) /\ T[T[p].prev].next = p
    BY <1>7 DEF Precedes
  <2>2. Follows(T, lo, T[p].prev, p)
    BY <1>2, <2>1 DEF Chain
  <2>3. lo[T[p].prev] < lo[p]
    BY <1>2, <2>2 DEF Follows
  <2>4. T[p].prev # p
    BY <1>4, <2>3
  <2> QED BY <1>2, <2>1, <2>4
<1>9. W \in [Place -> Nat]
  OBVIOUS
<1> HIDE DEF key
<1>10. Follows(U, W, new, p) /\ Precedes(U, W, new, T[p].prev, FALSE)
  <2>1. W[new] = lo[p] /\ W[p] = key
    BY DEF key
  <2>2. ASSUME NEW y \in Place, IsLeaf(U, y) PROVE W[y] <= W[new] \/ W[p] <= W[y]
    BY <1>4, <1>5, <1>6, <2>1, <2>2
  <2>3. Follows(U, W, new, p)
    BY <1>1, <1>2, <1>4, <2>1, <2>2 DEF Follows
  <2>4. CASE T[p].prev = NoPage
    <3>1. \A z \in Place : IsLeaf(T, z) => lo[p] <= lo[z]
      BY <1>2, <1>7, <2>4 DEF Precedes
    <3>2. ASSUME NEW y \in Place, IsLeaf(U, y) PROVE W[new] <= W[y]
      BY <1>4, <1>5, <1>6, <2>1, <3>1, <3>2
    <3> QED BY <2>3, <2>4, <3>2 DEF Precedes
  <2>5. CASE T[p].prev # NoPage
    BY <1>1, <1>8, <2>3, <2>5 DEF Precedes
  <2> QED BY <2>4, <2>5
<1>11. Follows(U, W, p, T[p].next) /\ Precedes(U, W, p, new, FALSE)
  <2>1. W[new] = lo[p] /\ W[p] = key
    BY DEF key
  <2>2. CASE T[p].next = NoPage
    <3>1. \A z \in Place : IsLeaf(T, z) => lo[z] <= lo[p]
      BY <1>2, <1>7, <2>2 DEF Follows
    <3>2. ASSUME NEW y \in Place, IsLeaf(U, y) PROVE W[y] <= W[p]
      BY <1>4, <1>5, <1>6, <2>1, <3>1, <3>2
    <3>3. Follows(U, W, p, T[p].next)
      BY <2>2, <3>2 DEF Follows
    <3> QED BY <1>1, <3>3 DEF Precedes
  <2>3. CASE T[p].next # NoPage
    <3> DEFINE n == T[p].next
    <3>1. /\ n \in Page /\ IsLeaf(T, n) /\ lo[p] < lo[n]
          /\ \A z \in Place : IsLeaf(T, z) => lo[z] <= lo[p] \/ lo[n] <= lo[z]
      BY <1>7, <2>3 DEF Follows
    <3> HIDE DEF n
    <3>2. n \in Place /\ n # p
      BY <1>2, <1>4, <3>1
    <3>3. n # new /\ W[n] = lo[n] /\ lo[n] \in Nat /\ key < lo[n] /\ IsLeaf(U, n)
      BY <1>1, <1>4, <1>6, <3>1, <3>2
    <3>4. ASSUME NEW y \in Place, IsLeaf(U, y) PROVE W[y] <= W[p] \/ W[n] <= W[y]
      <4>1. CASE y \in {new, p}
        BY <1>4, <2>1, <4>1
      <4>2. CASE y \notin {new, p}
        <5>1. IsLeaf(T, y) /\ y # p
          BY <1>5, <3>4, <4>2
        <5>2. lo[y] \in Nat /\ W[y] = lo[y]
          BY <1>6, <5>1
        <5>3. lo[y] <= lo[p] \/ lo[n] <= lo[y]
          BY <3>1, <5>1
        <5> QED BY <1>4, <2>1, <3>3, <5>2, <5>3
      <4> QED BY <4>1, <4>2
    <3>5. Follows(U, W, p, n)
      BY <2>1, <3>1, <3>3, <3>4 DEF Follows
    <3> QED BY <1>1, <3>5 DEF Precedes, n
  <2> QED BY <2>2, <2>3
<1>12. ASSUME NEW z \in Place, IsLeaf(T, z), z # p, z # new
       PROVE  Follows(U, W, z, U[z].next) /\ Precedes(U, W, z, T[z].prev, FALSE)
  <2>1. W[new] = lo[p] /\ W[p] = key
    BY DEF key
  <2>2. /\ lo[z] \in Nat /\ W[z] = lo[z]
        /\ (lo[z] < lo[p] \/ (lo[p] < lo[z] /\ key < lo[z]))
    BY <1>6, <1>12
  <2>3. Follows(T, lo, z, T[z].next) /\ Precedes(T, lo, z, T[z].prev, FALSE)
    BY <1>12 DEF Chain
  <2>4. Follows(U, W, z, U[z].next)
    <3>1. CASE z = T[p].prev
      <4>1. U[z].next = new
        BY <1>1, <1>12, <3>1
      <4>2. T[z].next = p
        BY <1>2, <1>8, <1>12, <3>1, Places DEF NoPage, IsLeaf, IsTree, Shaped
      <4>3. /\ lo[z] < lo[p]
            /\ \A y \in Place : IsLeaf(T, y) => lo[y] <= lo[z] \/ lo[p] <= lo[y]
        BY <1>2, <2>3, <4>2 DEF Follows
      <4>4. ASSUME NEW y \in Place, IsLeaf(U, y) PROVE W[y] <= W[z] \/ W[new] <= W[y]
        <5>1. CASE y \in {new, p}
          BY <1>4, <2>1, <5>1
        <5>2. CASE y \notin {new, p}
          <6>1. IsLeaf(T, y) /\ y # p
            BY <1>5, <4>4, <5>2
          <6>2. lo[y] \in Nat /\ W[y] = lo[y]
            BY <1>6, <6>1
          <6>3. lo[y] <= lo[z] \/ lo[p] <= lo[y]
            BY <4>3, <6>1
          <6> QED BY <2>1, <2>2, <6>2, <6>3
        <5> QED BY <5>1, <5>2
      <4> QED BY <1>1, <2>1, <2>2, <4>1, <4>3, <4>4 DEF Follows
    <3>2. CASE z # T[p].prev
      <4> DEFINE n == T[z].next
      <4>1. U[z].next = n
        BY <1>1, <1>12, <3>2
      <4>2. n # p
        <5> SUFFICES ASSUME n = p PROVE FALSE
          OBVIOUS
        <5>1. lo[z] < lo[p]
          BY <1>2, <2>3 DEF Follows
        <5>2. T[p].prev # NoPage
          <6> SUFFICES ASSUME T[p].prev = NoPage PROVE FALSE
            OBVIOUS
          <6>1. lo[p] <= lo[z]
            BY <1>2, <1>7, <1>12 DEF Precedes
          <6> QED BY <1>4, <2>2, <5>1, <6>1
        <5>3. T[p].prev \in Place /\ IsLeaf(T, T[p].prev) /\ T[T[p].prev].next = p
          BY <1>8, <5>2
        <5>4. T[p].prev = z
          BY <1>2, <1>12, <5>3, FollowsOnce
        <5> QED BY <3>2, <5>4
      <4>3. Follows(T, lo, z, n)
        BY <2>3
      <4> HIDE DEF n
      <4>4. CASE n = NoPage
        <5>1. \A y \in Place : IsLeaf(T, y) => lo[y] <= lo[z]
          BY <1>2, <4>3, <4>4 DEF Follows
        <5>2. lo[p] <= lo[z]
          BY <1>2, <5>1
        <5>3. key < lo[z]
          BY <1>4, <2>2, <5>2
        <5>4. ASSUME NEW y \in Place, IsLeaf(U, y) PROVE W[y] <= W[z]
          <6>1. CASE y \in {new, p}
            BY <1>4, <2>1, <2>2, <5>2, <5>3, <6>1
          <6>2. CASE y \notin {new, p}
            <7>1. IsLeaf(T, y) /\ y # p
              BY <1>5, <5>4, <6>2
            <7> QED BY <1>6, <2>2, <5>1, <7>1
          <6> QED BY <6>1, <6>2
        <5> QED BY <4>1, <4>4, <5>4 DEF Follows
      <4>5. CASE n # NoPage
        <5>1. /\ n \in Page /\ IsLeaf(T, n) /\ lo[z] < lo[n]
              /\ \A y \in Place : IsLeaf(T, y) => lo[y] <= lo[z] \/ lo[n] <= lo[y]
          BY <4>3, <4>5 DEF Follows
        <5>2. n \in Place /\ W[n] = lo[n] /\ lo[n] \in Nat /\ n # new
          BY <1>2, <1>6, <4>2, <5>1
        <5>3. IsLeaf(U, n)
          BY <1>1, <5>1, <5>2
        <5>4. ASSUME NEW y \in Place, IsLeaf(U, y) PROVE W[y] <= W[z] \/ W[n] <= W[y]
          <6>1. CASE y \in {new, p}
            <7>1. lo[p] <= lo[z] \/ lo[n] <= lo[p]
              BY <1>2, <5>1
            <7> QED BY <1>4, <2>1, <2>2, <5>2, <6>1, <7>1
          <6>2. CASE y \notin {new, p}
            <7>1. IsLeaf(T, y) /\ y # p
              BY <1>5, <5>4, <6>2
            <7> QED BY <1>6, <2>2, <5>1, <5>2, <7>1
          <6> QED BY <6>1, <6>2
        <5> QED BY <2>2, <4>1, <5>1, <5>2, <5>3, <5>4 DEF Follows
      <4> QED BY <4>4, <4>5
    <3> QED BY <3>1, <3>2
  <2>5. Precedes(U, W, z, T[z].prev, FALSE)
    <3>1. CASE T[z].prev = NoPage
      <4>1. \A y \in Place : IsLeaf(T, y) => lo[z] <= lo[y]
        BY <1>2, <2>3, <3>1 DEF Precedes
      <4>2. lo[z] <= lo[p]
        BY <1>2, <4>1
      <4>3. ASSUME NEW y \in Place, IsLeaf(U, y) PROVE W[z] <= W[y]
        <5>1. CASE y \in {new, p}
          BY <1>4, <2>1, <2>2, <4>2, <5>1
        <5>2. CASE y \notin {new, p}
          <6>1. IsLeaf(T, y) /\ y # p
            BY <1>5, <4>3, <5>2
          <6> QED BY <1>6, <2>2, <4>1, <6>1
        <5> QED BY <5>1, <5>2
      <4> QED BY <3>1, <4>3 DEF Precedes
    <3>2. CASE T[z].prev # NoPage
      <4> DEFINE y == T[z].prev
      <4>1. y \in Page /\ y \in Place /\ IsLeaf(T, y) /\ T[y].next = z
        BY <1>2, <2>3, <3>2 DEF Precedes
      <4> HIDE DEF y
      <4>2. y # new
        BY <4>1
      <4>3. U[y].next = z
        <5>1. CASE y = p
          BY <1>1, <4>1, <5>1
        <5>2. CASE y # p
          <6>1. y # T[p].prev
            BY <1>8, <1>12, <4>1, <1>2
          <6> QED BY <1>1, <4>1, <4>2, <5>2, <6>1
        <5> QED BY <5>1, <5>2
      <4>4. IsLeaf(U, y)
        BY <1>1, <4>1, <4>2
      <4> QED BY <4>1, <4>3, <4>4 DEF Precedes, y
    <3> QED BY <3>1, <3>2
  <2> QED BY <2>4, <2>5
<1>13. ASSUME NEW z \in Place, IsLeaf(U, z)
       PROVE  Follows(U, W, z, U[z].next) /\ Precedes(U, W, z, U[z].prev, FALSE)
  <2>1. CASE z = new
    BY <1>1, <1>10, <2>1
  <2>2. CASE z = p
    BY <1>1, <1>11, <2>2
  <2>3. CASE z \notin {new, p}
    <3>1. IsLeaf(T, z)
      BY <1>1, <1>13, <2>3
    <3>2. U[z].prev = T[z].prev
      BY <1>1, <2>3, <3>1
    <3> QED BY <1>12, <2>3, <3>1, <3>2
  <2> QED BY <2>1, <2>2, <2>3
<1> QED BY <1>13 DEF Chain

-----------------------------------------------------------------------------
(* Going down *)

\* f takes the steps of FindLeaf.
Descends(f, k) ==
    f = [d \in 0..MaxPage |->
           IF d = 0 THEN root
           ELSE LET p == f[d - 1]
                    n == page[p]
                IN  IF n.kind = "internal" THEN n.child[Count(n.keys, k) + 1] ELSE p]

\* What FindLeaf defines, if there are such steps.
LEMMA FindLeafChoice ==
    ASSUME NEW k
    PROVE  FindLeaf(k) = (CHOOSE f : Descends(f, k))[MaxPage]
BY DEF FindLeaf, Descends

\* Where a search for k goes from a node.
Toward(k) ==
    [p \in Page |-> IF page[p].kind = "internal" THEN page[p].child[Count(page[p].keys, k) + 1] ELSE p]

\* FindLeaf goes there from the root on, as often as there are pages.
LEMMA FindLeafRuns ==
    ASSUME NEW k, MaxPage \in Nat, root \in Page, Toward(k) \in [Page -> Page]
    PROVE  \E f : Runs(f, MaxPage, Page, root, Toward(k)) /\ FindLeaf(k) = f[MaxPage]
<1> DEFINE g == Toward(k)
<1>0. PICK f : Runs(f, MaxPage, Page, root, g)
  <2>1. g \in [Page -> Page]
    OBVIOUS
  <2> HIDE DEF g
  <2> QED BY <2>1, Iterate
<1>1. f \in [0..MaxPage -> Page] /\ f[0] = root /\ \A d \in 1..MaxPage : f[d] = g[f[d - 1]]
  BY <1>0 DEF Runs
<1>2. Descends(f, k)
  <2>1. ASSUME NEW d \in 0..MaxPage
        PROVE  f[d] = IF d = 0 THEN root
                      ELSE IF page[f[d - 1]].kind = "internal"
                           THEN page[f[d - 1]].child[Count(page[f[d - 1]].keys, k) + 1] ELSE f[d - 1]
    <3>1. CASE d = 0
      BY <1>1, <3>1
    <3>2. CASE d # 0
      <4>1. d \in 1..MaxPage /\ d - 1 \in 0..MaxPage
        BY <3>2
      <4>2. f[d] = g[f[d - 1]] /\ f[d - 1] \in Page
        BY <1>1, <4>1
      <4> QED BY <3>2, <4>2 DEF Toward
    <3> QED BY <3>1, <3>2
  <2>2. f = [d \in 0..MaxPage |->
               IF d = 0 THEN root
               ELSE IF page[f[d - 1]].kind = "internal"
                    THEN page[f[d - 1]].child[Count(page[f[d - 1]].keys, k) + 1] ELSE f[d - 1]]
    BY <1>1, <2>1
  <2> QED BY <2>2 DEF Descends
<1> DEFINE h == CHOOSE x : Descends(x, k)
<1>3. Descends(h, k)
  BY <1>2
<1> HIDE DEF h
<1>4. h = [d \in 0..MaxPage |->
             IF d = 0 THEN root
             ELSE IF page[h[d - 1]].kind = "internal"
                  THEN page[h[d - 1]].child[Count(page[h[d - 1]].keys, k) + 1] ELSE h[d - 1]]
  BY <1>3 DEF Descends
<1> DEFINE B == {d \in 0..MaxPage : h[d] = f[d]}
<1>5. 0 \in B
  BY <1>1, <1>4
<1>6. ASSUME NEW d \in 0..MaxPage - 1, d \in B PROVE d + 1 \in B
  <2>1. d + 1 \in 0..MaxPage /\ d + 1 \in 1..MaxPage /\ d + 1 # 0 /\ (d + 1) - 1 = d /\ d \in 0..MaxPage
    BY <1>6
  <2>2. h[d] = f[d] /\ f[d] \in Page
    BY <1>1, <1>6, <2>1
  <2>3. h[d + 1] = IF page[h[d]].kind = "internal"
                   THEN page[h[d]].child[Count(page[h[d]].keys, k) + 1] ELSE h[d]
    <3> DEFINE e == d + 1
    <3>1. e \in 0..MaxPage /\ e # 0 /\ e - 1 = d
      BY <2>1
    <3> HIDE DEF e
    <3>2. h[e] = IF page[h[e - 1]].kind = "internal"
                 THEN page[h[e - 1]].child[Count(page[h[e - 1]].keys, k) + 1] ELSE h[e - 1]
      BY <1>4, <3>1
    <3> QED BY <3>1, <3>2, Zenon DEF e
  <2>4. f[d + 1] = g[f[d]]
    BY <1>1, <2>1
  <2>5. h[d + 1] = f[d + 1]
    BY <2>2, <2>3, <2>4 DEF Toward
  <2> QED BY <2>1, <2>5
<1> HIDE DEF B
<1>7. 0..MaxPage \subseteq B
  BY <1>5, <1>6, UpTo
<1>8. h[MaxPage] = f[MaxPage]
  BY <1>7 DEF B
<1>9. FindLeaf(k) = f[MaxPage]
  BY <1>8, FindLeafChoice DEF h
<1> QED BY <1>0, <1>9

\* f takes the steps of LeftmostLeaf.
GoesLeft(f, p) ==
    f = [d \in 0..MaxPage |->
           IF d = 0 THEN p
           ELSE LET q == f[d - 1]
                    n == page[q]
                IN  IF n.kind = "internal" THEN Head(n.child) ELSE q]

\* What LeftmostLeaf defines, if there are such steps.
LEMMA LeftmostChoice ==
    ASSUME NEW p
    PROVE  LeftmostLeaf(p) = (CHOOSE f : GoesLeft(f, p))[MaxPage]
BY DEF LeftmostLeaf, GoesLeft

\* Where LeftmostLeaf goes from a node.
Leftward == [p \in Page |-> IF page[p].kind = "internal" THEN Head(page[p].child) ELSE p]

\* LeftmostLeaf goes there from p on, as often as there are pages.
LEMMA LeftmostRuns ==
    ASSUME MaxPage \in Nat, NEW p \in Page, Leftward \in [Page -> Page]
    PROVE  \E f : Runs(f, MaxPage, Page, p, Leftward) /\ LeftmostLeaf(p) = f[MaxPage]
<1> DEFINE g == Leftward
<1>0. PICK f : Runs(f, MaxPage, Page, p, g)
  <2>1. g \in [Page -> Page]
    OBVIOUS
  <2> HIDE DEF g
  <2> QED BY <2>1, Iterate
<1>1. f \in [0..MaxPage -> Page] /\ f[0] = p /\ \A d \in 1..MaxPage : f[d] = g[f[d - 1]]
  BY <1>0 DEF Runs
<1>2. GoesLeft(f, p)
  <2>1. ASSUME NEW d \in 0..MaxPage
        PROVE  f[d] = IF d = 0 THEN p
                      ELSE IF page[f[d - 1]].kind = "internal" THEN Head(page[f[d - 1]].child) ELSE f[d - 1]
    <3>1. CASE d = 0
      BY <1>1, <3>1
    <3>2. CASE d # 0
      <4>1. d \in 1..MaxPage /\ d - 1 \in 0..MaxPage
        BY <3>2
      <4>2. f[d] = g[f[d - 1]] /\ f[d - 1] \in Page
        BY <1>1, <4>1
      <4> QED BY <3>2, <4>2 DEF Leftward
    <3> QED BY <3>1, <3>2
  <2>2. f = [d \in 0..MaxPage |->
               IF d = 0 THEN p
               ELSE IF page[f[d - 1]].kind = "internal" THEN Head(page[f[d - 1]].child) ELSE f[d - 1]]
    BY <1>1, <2>1
  <2> QED BY <2>2 DEF GoesLeft
<1> DEFINE h == CHOOSE x : GoesLeft(x, p)
<1>3. GoesLeft(h, p)
  BY <1>2
<1> HIDE DEF h
<1>4. h = [d \in 0..MaxPage |->
             IF d = 0 THEN p
             ELSE IF page[h[d - 1]].kind = "internal" THEN Head(page[h[d - 1]].child) ELSE h[d - 1]]
  BY <1>3 DEF GoesLeft
<1> DEFINE B == {d \in 0..MaxPage : h[d] = f[d]}
<1>5. 0 \in B
  BY <1>1, <1>4
<1>6. ASSUME NEW d \in 0..MaxPage - 1, d \in B PROVE d + 1 \in B
  <2>1. d + 1 \in 0..MaxPage /\ d + 1 \in 1..MaxPage /\ d + 1 # 0 /\ (d + 1) - 1 = d /\ d \in 0..MaxPage
    BY <1>6
  <2>2. h[d] = f[d] /\ f[d] \in Page
    BY <1>1, <1>6, <2>1
  <2>3. h[d + 1] = IF page[h[d]].kind = "internal" THEN Head(page[h[d]].child) ELSE h[d]
    <3> DEFINE e == d + 1
    <3>1. e \in 0..MaxPage /\ e # 0 /\ e - 1 = d
      BY <2>1
    <3> HIDE DEF e
    <3>2. h[e] = IF page[h[e - 1]].kind = "internal" THEN Head(page[h[e - 1]].child) ELSE h[e - 1]
      BY <1>4, <3>1
    <3> QED BY <3>1, <3>2, Zenon DEF e
  <2>4. f[d + 1] = g[f[d]]
    BY <1>1, <2>1
  <2>5. h[d + 1] = f[d + 1]
    BY <2>2, <2>3, <2>4 DEF Leftward
  <2> QED BY <2>1, <2>5
<1> HIDE DEF B
<1>7. 0..MaxPage \subseteq B
  BY <1>5, <1>6, UpTo
<1>8. h[MaxPage] = f[MaxPage]
  BY <1>7 DEF B
<1>9. LeftmostLeaf(p) = f[MaxPage]
  BY <1>8, LeftmostChoice DEF h
<1> QED BY <1>0, <1>9

\* What iterating has yielded, and the leaf it has come to.
Yield == [keys: Seq(Key), at: PageOrNone]

\* The leaf Scan begins with.
ScanStart == [keys |-> <<>>, at |-> IF root = NoPage THEN NoPage ELSE LeftmostLeaf(root)]

\* f takes the steps of Scan.
Scans(f) ==
    f = [d \in 0..MaxPage |->
           IF d = 0 THEN [keys |-> <<>>, at |-> IF root = NoPage THEN NoPage ELSE LeftmostLeaf(root)]
           ELSE LET y == f[d - 1] IN
                IF y.at = NoPage THEN y
                ELSE [keys |-> y.keys \o page[y.at].keys, at |-> page[y.at].next]]

\* What Scan defines, if there are such steps.
LEMMA ScanChoice == Scan = (CHOOSE f : Scans(f))[MaxPage].keys
BY DEF Scan, Scans

\* Where Scan goes from a leaf.
Onward ==
    [y \in Yield |-> IF y.at = NoPage THEN y
                     ELSE [keys |-> y.keys \o page[y.at].keys, at |-> page[y.at].next]]

\* Scan goes there from the first leaf on, as often as there are pages.
LEMMA ScanRuns ==
    ASSUME MaxPage \in Nat, ScanStart \in Yield, Onward \in [Yield -> Yield]
    PROVE  \E f : Runs(f, MaxPage, Yield, ScanStart, Onward) /\ Scan = f[MaxPage].keys
<1> DEFINE g == Onward
           z == ScanStart
<1>0. PICK f : Runs(f, MaxPage, Yield, z, g)
  <2>1. g \in [Yield -> Yield] /\ z \in Yield
    OBVIOUS
  <2> HIDE DEF g, z
  <2> QED BY <2>1, Iterate
<1>1. f \in [0..MaxPage -> Yield] /\ f[0] = z /\ \A d \in 1..MaxPage : f[d] = g[f[d - 1]]
  BY <1>0 DEF Runs
<1>2. Scans(f)
  <2>1. ASSUME NEW d \in 0..MaxPage
        PROVE  f[d] = IF d = 0 THEN [keys |-> <<>>, at |-> IF root = NoPage THEN NoPage ELSE LeftmostLeaf(root)]
                      ELSE IF f[d - 1].at = NoPage THEN f[d - 1]
                           ELSE [keys |-> f[d - 1].keys \o page[f[d - 1].at].keys, at |-> page[f[d - 1].at].next]
    <3>1. CASE d = 0
      BY <1>1, <3>1 DEF ScanStart
    <3>2. CASE d # 0
      <4>1. d \in 1..MaxPage /\ d - 1 \in 0..MaxPage
        BY <3>2
      <4>2. f[d] = g[f[d - 1]] /\ f[d - 1] \in Yield
        BY <1>1, <4>1
      <4> QED BY <3>2, <4>2 DEF Onward
    <3> QED BY <3>1, <3>2
  <2>2. f = [d \in 0..MaxPage |->
               IF d = 0 THEN [keys |-> <<>>, at |-> IF root = NoPage THEN NoPage ELSE LeftmostLeaf(root)]
               ELSE IF f[d - 1].at = NoPage THEN f[d - 1]
                    ELSE [keys |-> f[d - 1].keys \o page[f[d - 1].at].keys, at |-> page[f[d - 1].at].next]]
    BY <1>1, <2>1
  <2> QED BY <2>2 DEF Scans
<1> DEFINE h == CHOOSE x : Scans(x)
<1>3. Scans(h)
  BY <1>2
<1> HIDE DEF h
<1>4. h = [d \in 0..MaxPage |->
             IF d = 0 THEN [keys |-> <<>>, at |-> IF root = NoPage THEN NoPage ELSE LeftmostLeaf(root)]
             ELSE IF h[d - 1].at = NoPage THEN h[d - 1]
                  ELSE [keys |-> h[d - 1].keys \o page[h[d - 1].at].keys, at |-> page[h[d - 1].at].next]]
  BY <1>3 DEF Scans
<1> DEFINE B == {d \in 0..MaxPage : h[d] = f[d]}
<1>5. 0 \in B
  BY <1>1, <1>4 DEF ScanStart
<1>6. ASSUME NEW d \in 0..MaxPage - 1, d \in B PROVE d + 1 \in B
  <2>1. d + 1 \in 0..MaxPage /\ d + 1 \in 1..MaxPage /\ d + 1 # 0 /\ (d + 1) - 1 = d /\ d \in 0..MaxPage
    BY <1>6
  <2>2. h[d] = f[d] /\ f[d] \in Yield
    BY <1>1, <1>6, <2>1
  <2>3. h[d + 1] = IF h[d].at = NoPage THEN h[d]
                   ELSE [keys |-> h[d].keys \o page[h[d].at].keys, at |-> page[h[d].at].next]
    <3> DEFINE e == d + 1
    <3>1. e \in 0..MaxPage /\ e # 0 /\ e - 1 = d
      BY <2>1
    <3> HIDE DEF e
    <3>2. h[e] = IF h[e - 1].at = NoPage THEN h[e - 1]
                 ELSE [keys |-> h[e - 1].keys \o page[h[e - 1].at].keys, at |-> page[h[e - 1].at].next]
      BY <1>4, <3>1
    <3> QED BY <3>1, <3>2, Zenon DEF e
  <2>4. f[d + 1] = g[f[d]]
    BY <1>1, <2>1
  <2>5. h[d + 1] = f[d + 1]
    BY <2>2, <2>3, <2>4 DEF Onward
  <2> QED BY <2>1, <2>5
<1> HIDE DEF B
<1>7. 0..MaxPage \subseteq B
  BY <1>5, <1>6, UpTo
<1>8. h[MaxPage] = f[MaxPage]
  BY <1>7 DEF B
<1>9. Scan = f[MaxPage].keys
  BY <1>8, ScanChoice DEF h
<1> QED BY <1>0, <1>9

\* There are no more levels than pages.
LEMMA LevelsBound ==
    ASSUME NEW T, NEW lev, NEW lo, IsTree(T, lev, lo), MaxPage \in Nat,
           NEW s \in Page, T[s].kind # "none"
    PROVE  lev[s] \in Nat /\ lev[s] < MaxPage
<1>1. lev \in [Place -> Nat] /\ lev[s] < lev[0]
  BY DEF IsTree, Family
<1>2. s \in Place /\ lev[s] \in Nat /\ lev[0] \in Nat
  BY <1>1, Places
<1> DEFINE n == lev[s]
           At(l, t) == T[t].kind # "none" /\ lev[t] = l
           f == [l \in 0..n |-> CHOOSE t \in Page : At(l, t)]
<1>3. ASSUME NEW l \in 0..n PROVE f[l] \in Page /\ At(l, f[l])
  <2>1. \E t \in Place : T[t].kind # "none" /\ lev[t] = l /\ lo[t] = lo[s]
    BY <1>2, Beneath
  <2>2. PICK t \in Place : T[t].kind # "none" /\ lev[t] = l
    BY <2>1
  <2>3. l < lev[0]
    BY <1>1, <1>2
  <2>4. t # 0
    BY <1>2, <2>2, <2>3
  <2>5. t \in Page /\ At(l, t)
    BY <2>2, <2>4, Places
  <2> HIDE DEF At
  <2>6. \E x \in Page : At(l, x)
    BY <2>5
  <2>7. f[l] = CHOOSE x \in Page : At(l, x)
    OBVIOUS
  <2> QED BY <2>6, <2>7
<1>4. f \in [0..n -> Page] /\ \A x, y \in 0..n : f[x] = f[y] => x = y
  <2>1. ASSUME NEW x \in 0..n, NEW y \in 0..n, f[x] = f[y] PROVE x = y
    <3>1. At(x, f[x]) /\ At(y, f[y])
      BY <1>3
    <3> HIDE DEF f
    <3> QED BY <2>1, <3>1
  <2>2. \A x \in 0..n : f[x] \in Page
    BY <1>3
  <2>3. f = [l \in 0..n |-> f[l]]
    OBVIOUS
  <2> HIDE DEF f
  <2> QED BY <2>1, <2>2, <2>3
<1>5. /\ IsFiniteSet(0..n) /\ Cardinality(0..n) = n + 1
      /\ IsFiniteSet(Page) /\ Cardinality(Page) = MaxPage
  <2>1. n \in Nat
    BY <1>2
  <2> HIDE DEF n
  <2>2. IsFiniteSet(0..n) /\ Cardinality(0..n) = n + 1
    <3>1. IsFiniteSet(0..n) /\ Cardinality(0..n) = IF 0 > n THEN 0 ELSE n - 0 + 1
      BY <2>1, FS_Interval
    <3> QED BY <2>1, <3>1
  <2>3. IsFiniteSet(1..MaxPage) /\ Cardinality(1..MaxPage) = MaxPage
    <3>1. IsFiniteSet(1..MaxPage) /\ Cardinality(1..MaxPage) = IF 1 > MaxPage THEN 0 ELSE MaxPage - 1 + 1
      BY FS_Interval
    <3> QED BY <3>1
  <2> QED BY <2>2, <2>3 DEF Page
<1> HIDE DEF f, n
<1>6. ~(Cardinality(Page) < Cardinality(0..n))
  <2> SUFFICES ASSUME Cardinality(Page) < Cardinality(0..n) PROVE FALSE
    OBVIOUS
  <2> DEFINE D == 0..n
  <2>1. /\ IsFiniteSet(D) /\ IsFiniteSet(Page) /\ Cardinality(Page) < Cardinality(D) /\ f \in [D -> Page]
        /\ \A x, y \in D : f[x] = f[y] => x = y
    BY <1>4, <1>5
  <2> HIDE DEF D
  <2>2. \E x, y \in D : x # y /\ f[x] = f[y]
    BY <2>1, FS_PigeonHole
  <2> QED BY <2>1, <2>2
<1>7. n \in Nat
  BY <1>2 DEF n
<1>8. n < MaxPage
  BY <1>5, <1>6, <1>7
<1> QED BY <1>7, <1>8 DEF n

\* Of the nodes of its level, p is the last that begins at k or in front of it.
Leads(T, lev, lo, p, k) ==
    /\ p \in Page /\ T[p].kind # "none" /\ lo[p] <= k
    /\ \A z \in Place : T[z].kind # "none" /\ lev[z] = lev[p] => lo[z] <= lo[p] \/ k < lo[z]

\* The child after the keys that are at most k is one of a level below.
LEMMA LeadsDown ==
    ASSUME NEW T, NEW lev, NEW lo, IsTree(T, lev, lo), NEW k \in Nat, NEW p,
           Leads(T, lev, lo, p, k), T[p].kind = "internal"
    PROVE  /\ Leads(T, lev, lo, T[p].child[Count(T[p].keys, k) + 1], k)
           /\ lev[T[p].child[Count(T[p].keys, k) + 1]] + 1 = lev[p]
<1> DEFINE ks == T[p].keys
           n == Count(ks, k)
           c == T[p].child[n + 1]
<1>1. /\ p \in Page /\ p \in Place /\ lo[p] <= k
      /\ \A z \in Place : T[z].kind # "none" /\ lev[z] = lev[p] => lo[z] <= lo[p] \/ k < lo[z]
  BY Places DEF Leads
<1>2. /\ ks \in Seq(Nat) /\ Len(ks) \in Nat /\ Len(T[p].child) = Len(ks) + 1
      /\ \A i \in 1..Len(ks) : ks[i] \in Nat
  BY <1>1, NodeFields DEF IsTree, Shaped
<1>3. Ascending(ks) /\ \A i \in 1..Len(ks) : lo[p] < ks[i]
  BY <1>1 DEF IsTree, Ordered, KeysInOrder
<1>4. lo \in [Place -> Nat] /\ lev \in [Place -> Nat]
  BY DEF IsTree, Ordered, Family
<1>5. n \in 0..Len(ks) /\ \A i \in 1..Len(ks) : i <= n <=> ks[i] <= k
  <2> HIDE DEF ks
  <2> QED BY <1>2, <1>3, CountFacts
<1>6. ASSUME NEW i \in 1..Len(T[p].child)
      PROVE  /\ T[p].child[i] \in Page /\ T[T[p].child[i]].kind # "none"
             /\ lev[T[p].child[i]] + 1 = lev[p]
             /\ lo[T[p].child[i]] = IF i = 1 THEN lo[p] ELSE ks[i - 1]
  <2>1. i \in Int /\ 1 <= i /\ i <= Len(T[p].child)
    BY <1>2
  <2> QED BY <1>1, <2>1, ChildFacts
<1> HIDE DEF n
<1>7. n + 1 \in 1..Len(T[p].child)
  BY <1>2, <1>5
<1>8. c \in Page /\ T[c].kind # "none" /\ lev[c] + 1 = lev[p]
  BY <1>6, <1>7
<1>9. lo[c] = IF n = 0 THEN lo[p] ELSE ks[n]
  <2>1. lo[c] = IF n + 1 = 1 THEN lo[p] ELSE ks[(n + 1) - 1]
    BY <1>6, <1>7
  <2>2. (n + 1 = 1 <=> n = 0) /\ (n + 1) - 1 = n
    BY <1>5
  <2> QED BY <2>1, <2>2
<1>10. lo[p] \in Nat /\ lo[c] \in Nat
  BY <1>1, <1>4, <1>8, Places
<1>11. lo[c] <= k /\ lo[p] <= lo[c]
  <2>1. CASE n = 0
    BY <1>1, <1>9, <1>10, <2>1
  <2>2. CASE n # 0
    <3>1. n \in 1..Len(ks) /\ n <= n
      BY <1>2, <1>5, <2>2
    <3>2. ks[n] <= k /\ lo[p] < ks[n]
      BY <1>3, <1>5, <3>1
    <3> QED BY <1>9, <1>10, <2>2, <3>2
  <2> QED BY <2>1, <2>2
<1> HIDE DEF c
<1>12. ASSUME NEW z \in Place, T[z].kind # "none", lev[z] = lev[c] PROVE lo[z] <= lo[c] \/ k < lo[z]
  <2>1. z \in Page
    <3>1. lev[c] < lev[0]
      BY <1>8 DEF IsTree, Family
    <3>2. lev[c] # lev[0]
      BY <1>4, <1>8, <3>1, Places
    <3> QED BY <1>12, <3>2, Places
  <2> DEFINE R == T[z].parent
  <2>2. /\ R \in Place /\ T[R].kind = "internal" /\ lev[z] + 1 = lev[R] /\ lo[R] <= lo[z]
        /\ \E h \in 1..Len(T[R].child) : T[R].child[h] = z
    BY <1>12, <2>1, ParentFacts
  <2>3. PICK h \in 1..Len(T[R].child) : T[R].child[h] = z
    BY <2>2
  <2>4. lev[R] = lev[p]
    BY <1>8, <1>12, <2>2
  <2>5. lo[R] \in Nat /\ lo[z] \in Nat
    BY <1>4, <2>2
  <2>6. lo[R] <= lo[p] \/ k < lo[R]
    BY <1>1, <2>2, <2>4
  <2> HIDE DEF R
  <2>7. CASE k < lo[R]
    BY <2>2, <2>5, <2>7
  <2>8. CASE R = p
    <3>1. h \in 1..Len(T[p].child) /\ lo[z] = IF h = 1 THEN lo[p] ELSE ks[h - 1]
      BY <1>6, <2>3, <2>8
    <3>2. CASE h = 1
      BY <1>10, <1>11, <3>1, <3>2
    <3>3. CASE h # 1
      <4> DEFINE y == h - 1
      <4>1. y \in 1..Len(ks)
        BY <1>2, <3>1, <3>3
      <4>2. lo[z] = ks[y]
        BY <3>1, <3>3
      <4> HIDE DEF y
      <4>3. CASE y <= n
        <5>1. n # 0 /\ n \in 1..Len(ks) /\ (y < n \/ y = n)
          BY <1>5, <4>1, <4>3
        <5>2. lo[c] = ks[n]
          BY <1>9, <5>1
        <5>3. y < n => ks[y] < ks[n]
          BY <1>3, <4>1, <5>1 DEF Ascending
        <5>4. ks[y] \in Nat /\ ks[n] \in Nat
          BY <1>2, <4>1, <5>1
        <5>5. ks[y] <= ks[n]
          <6>1. CASE y < n
            <7>1. ks[y] < ks[n]
              BY <5>3, <6>1
            <7> QED BY <5>4, <7>1
          <6>2. CASE y = n
            BY <5>4, <6>2
          <6> QED BY <5>1, <6>1, <6>2
        <5>6. lo[z] <= lo[c]
          BY <4>2, <5>2, <5>5
        <5> QED BY <5>6
      <4>4. CASE ~(y <= n)
        <5>1. ~(ks[y] <= k)
          BY <1>5, <4>1, <4>4
        <5>2. ks[y] \in Nat
          BY <1>2, <4>1
        <5> QED BY <4>2, <5>1, <5>2
      <4> QED BY <4>3, <4>4
    <3> QED BY <3>2, <3>3
  <2>9. CASE R # p /\ lo[R] <= lo[p]
    <3>1. Apart(T, lo, R, p)
      BY <1>1, <2>2, <2>4 DEF IsTree, Ordered
    <3>2. lo[R] < lo[p]
      BY <1>10, <2>5, <2>9, <3>1 DEF Apart
    <3>3. \A i \in 1..Len(T[R].keys) : T[R].keys[i] < lo[p]
      BY <3>1, <3>2 DEF Apart
    <3>4. lo[z] < lo[p]
      <4>1. /\ Len(T[R].child) \in Nat /\ Len(T[R].child) = Len(T[R].keys) + 1
            /\ Len(T[R].keys) \in Nat
        BY <2>2, NodeFields DEF IsTree, Shaped
      <4>2. h \in Int /\ 1 <= h /\ h <= Len(T[R].child)
        BY <4>1
      <4>3. lo[z] = IF h = 1 THEN lo[R] ELSE T[R].keys[h - 1]
        BY <2>2, <2>3, <4>2, ChildFacts
      <4>4. CASE h = 1
        BY <3>2, <4>3, <4>4
      <4>5. CASE h # 1
        <5>1. h - 1 \in 1..Len(T[R].keys)
          BY <4>1, <4>2, <4>5
        <5> QED BY <3>3, <4>3, <4>5, <5>1
      <4> QED BY <4>4, <4>5
    <3> QED BY <1>10, <1>11, <2>5, <3>4
  <2> QED BY <2>6, <2>7, <2>8, <2>9
<1>13. Leads(T, lev, lo, c, k)
  BY <1>8, <1>11, <1>12 DEF Leads
<1> QED BY <1>8, <1>13 DEF c, n

-----------------------------------------------------------------------------
(* The pages as a tree *)

\* The pages pg, and above them the node 0 that has the root rt for its only child.
TreeOf(pg, rt) == [p \in Place |-> IF p = 0 THEN Internal(<<>>, <<rt>>, NoPage) ELSE pg[p]]

\* A page of the tree is what it is in pg.
LEMMA TreeFacts ==
    ASSUME NEW pg, NEW rt
    PROVE  /\ \A p \in Page : TreeOf(pg, rt)[p] = pg[p]
           /\ TreeOf(pg, rt)[0] = Internal(<<>>, <<rt>>, NoPage)
           /\ DOMAIN TreeOf(pg, rt) = Place
           /\ TreeOf(pg, rt)[0].child = <<rt>> /\ TreeOf(pg, rt)[0].keys = <<>>
           /\ TreeOf(pg, rt)[0].kind = "internal"
           /\ pg \in [Page -> Node] /\ rt \in Page => TreeOf(pg, rt) \in [Place -> Node]
<1> DEFINE T == TreeOf(pg, rt)
<1>1. ASSUME NEW p \in Page PROVE T[p] = pg[p]
  <2>1. p \in Place /\ p # 0
    BY Places
  <2> QED BY <2>1 DEF TreeOf
<1>2. T[0] = Internal(<<>>, <<rt>>, NoPage)
  BY Places DEF TreeOf
<1>3. ASSUME pg \in [Page -> Node], rt \in Page PROVE T \in [Place -> Node]
  <2>1. <<rt>> \in Seq(Page) /\ <<>> \in Seq(Key)
    BY <1>3
  <2>2. Internal(<<>>, <<rt>>, NoPage) \in Node
    BY <2>1 DEF Internal, Node, PageOrNone, NoPage
  <2>3. \A p \in Place : p # 0 => p \in Page
    BY Places
  <2> QED BY <1>3, <2>2, <2>3 DEF TreeOf
<1>4. DOMAIN T = Place
  BY DEF TreeOf
<1> HIDE DEF T
<1>5. T[0].child = <<rt>> /\ T[0].keys = <<>> /\ T[0].kind = "internal"
  BY <1>2 DEF Internal
<1> QED BY <1>1, <1>2, <1>3, <1>4, <1>5 DEF T

\* The pages of the program.
Pages == TreeOf(page, root)

\* A page is what it is in the program.
LEMMA PagesFacts ==
    /\ \A p \in Page : Pages[p] = page[p]
    /\ Pages[0].child = <<root>> /\ Pages[0].keys = <<>> /\ Pages[0].kind = "internal"
BY TreeFacts DEF Pages

\* The root is the last node of its level that begins at k or before.
LEMMA RootLeads ==
    ASSUME NEW lev, NEW lo, IsTree(Pages, lev, lo), NEW k \in Nat
    PROVE  Leads(Pages, lev, lo, root, k)
<1>1. Pages[0].child = <<root>>
  BY PagesFacts
<1>2. /\ root \in Page /\ Pages[root].kind # "none" /\ lev[root] + 1 = lev[0] /\ lo[root] = 0
      /\ \A c \in Page : Pages[c].kind # "none" /\ c # root => lev[c] < lev[root]
  BY <1>1, OnlyChild
<1>3. lev \in [Place -> Nat] /\ lo \in [Place -> Nat]
  BY DEF IsTree, Family, Ordered
<1>4. ASSUME NEW z \in Place, Pages[z].kind # "none", lev[z] = lev[root] PROVE lo[z] <= lo[root]
  <2>1. z # 0
    <3>1. lev[0] \in Nat /\ lev[root] \in Nat
      BY <1>2, <1>3, Places
    <3> QED BY <1>2, <1>4, <3>1
  <2>2. z \in Page
    BY <2>1, Places
  <2>3. z = root
    <3>1. lev[z] \in Nat /\ lev[root] \in Nat
      BY <1>2, <1>3, <2>2, Places
    <3> QED BY <1>2, <1>4, <2>2, <3>1
  <2>4. lo[root] \in Nat
    BY <1>2, <1>3, Places
  <2> QED BY <2>3, <2>4
<1>5. lo[root] <= k
  BY <1>2
<1> QED BY <1>2, <1>4, <1>5 DEF Leads

\* Toward leads from pages to pages.
LEMMA TowardPages ==
    ASSUME Shaped(Pages), NEW k
    PROVE  Toward(k) \in [Page -> Page]
<1>1. ASSUME NEW p \in Page, page[p].kind = "internal"
      PROVE  page[p].child[Count(page[p].keys, k) + 1] \in Page
  <2>1. p \in Place /\ Pages[p] = page[p]
    BY PagesFacts, Places
  <2>2. /\ page[p].keys \in Seq(Nat) /\ Len(page[p].child) = Len(page[p].keys) + 1
        /\ Len(page[p].keys) \in Nat
        /\ \A i \in 1..Len(page[p].child) : page[p].child[i] \in Page
    BY <1>1, <2>1, NodeFields DEF Shaped
  <2>3. Count(page[p].keys, k) \in 0..Len(page[p].keys)
    BY <2>2, CountRange
  <2>4. Count(page[p].keys, k) + 1 \in 1..Len(page[p].child)
    BY <2>2, <2>3
  <2> QED BY <2>2, <2>4
<1> QED BY <1>1 DEF Toward

\* The level a search has come down to after d steps, at most.
DownTo(l, d) == IF d <= l THEN l - d ELSE 0

\* A search for k ends in the last leaf that begins at k or before.
LEMMA SearchLeads ==
    ASSUME NEW lev, NEW lo, IsTree(Pages, lev, lo), MaxPage \in Nat, NEW k \in Nat
    PROVE  /\ FindLeaf(k) \in Page /\ page[FindLeaf(k)].kind = "leaf"
           /\ Leads(Pages, lev, lo, FindLeaf(k), k)
<1>0. Leads(Pages, lev, lo, root, k)
  BY RootLeads
<1>1. root \in Page /\ Pages[root].kind # "none"
  BY <1>0 DEF Leads
<1>2. lev[root] \in Nat /\ lev[root] < MaxPage
  BY <1>1, LevelsBound
<1>3. Toward(k) \in [Page -> Page]
  BY TowardPages DEF IsTree
<1> DEFINE g == Toward(k)
<1>4. PICK f : Runs(f, MaxPage, Page, root, g) /\ FindLeaf(k) = f[MaxPage]
  BY <1>1, <1>3, FindLeafRuns
<1>5. f \in [0..MaxPage -> Page] /\ f[0] = root /\ \A d \in 1..MaxPage : f[d] = g[f[d - 1]]
  BY <1>4 DEF Runs
<1> DEFINE l == lev[root]
           Good(d) == Leads(Pages, lev, lo, f[d], k) /\ lev[f[d]] \in Nat /\ lev[f[d]] <= DownTo(l, d)
           B == {d \in 0..MaxPage : Good(d)}
<1>6. 0 \in B
  <2>1. lev[root] <= DownTo(l, 0)
    BY <1>2 DEF DownTo
  <2> QED BY <1>0, <1>2, <1>5, <2>1
<1>7. ASSUME NEW d \in 0..MaxPage - 1, d \in B PROVE d + 1 \in B
  <2>1. d + 1 \in 0..MaxPage /\ d + 1 \in 1..MaxPage /\ (d + 1) - 1 = d /\ d \in 0..MaxPage
    BY <1>7
  <2> DEFINE p == f[d]
             q == f[d + 1]
  <2>2. p \in Page /\ q = g[p]
    BY <1>5, <2>1
  <2>3. Leads(Pages, lev, lo, p, k) /\ lev[p] \in Nat /\ lev[p] <= DownTo(l, d)
    BY <1>7
  <2>4. Pages[p] = page[p] /\ p \in Place
    BY <2>2, PagesFacts, Places
  <2>5. q = IF page[p].kind = "internal" THEN page[p].child[Count(page[p].keys, k) + 1] ELSE p
    BY <2>2 DEF Toward
  <2>6. Leads(Pages, lev, lo, q, k) /\ lev[q] \in Nat /\ lev[q] <= DownTo(l, d + 1)
    <3> HIDE DEF p, q, g
    <3>1. CASE page[p].kind = "internal"
      <4>1. /\ Leads(Pages, lev, lo, Pages[p].child[Count(Pages[p].keys, k) + 1], k)
            /\ lev[Pages[p].child[Count(Pages[p].keys, k) + 1]] + 1 = lev[p]
        BY <2>3, <2>4, <3>1, LeadsDown
      <4>2. Leads(Pages, lev, lo, q, k) /\ lev[q] + 1 = lev[p]
        BY <2>4, <2>5, <3>1, <4>1
      <4>3. lev[q] \in Nat
        BY <4>2, Places DEF IsTree, Family, Leads
      <4> QED BY <1>2, <2>1, <2>3, <4>2, <4>3 DEF DownTo
    <3>2. CASE page[p].kind # "internal"
      <4>1. q = p
        BY <2>5, <3>2
      <4>2. page[p].kind = "leaf"
        <5>1. page[p].kind \in {"none", "leaf", "internal"}
          BY <2>4, NodeFields DEF IsTree
        <5> QED BY <2>3, <2>4, <3>2, <5>1 DEF Leads
      <4>3. lev[p] = 0
        BY <2>4, <4>2 DEF IsTree, Family
      <4> QED BY <1>2, <2>1, <2>3, <4>1, <4>3 DEF DownTo
    <3> QED BY <3>1, <3>2
  <2> QED BY <2>1, <2>6
<1>8. 0..MaxPage \subseteq B
  <2> HIDE DEF B
  <2> QED BY <1>6, <1>7, UpTo
<1>9. Good(MaxPage)
  BY <1>8
<1> DEFINE t == FindLeaf(k)
<1>10. t \in Page /\ t = f[MaxPage]
  BY <1>4, <1>5
<1>11. Leads(Pages, lev, lo, t, k) /\ lev[t] = 0
  <2>1. Leads(Pages, lev, lo, t, k) /\ lev[t] \in Nat /\ lev[t] <= DownTo(l, MaxPage)
    BY <1>9, <1>10
  <2> HIDE DEF t
  <2> QED BY <1>2, <2>1 DEF DownTo
<1> HIDE DEF t, B
<1>12. page[t].kind = "leaf"
  <2>1. t \in Place /\ Pages[t] = page[t] /\ Pages[t].kind # "none"
    BY <1>10, <1>11, PagesFacts, Places DEF Leads
  <2>2. page[t].kind \in {"none", "leaf", "internal"}
    BY <2>1, NodeFields DEF IsTree
  <2>3. Pages[t].kind # "internal"
    <3> SUFFICES ASSUME Pages[t].kind = "internal" PROVE FALSE
      OBVIOUS
    <3>1. lev[t] > 0
      BY <2>1, UpperNodes DEF IsTree
    <3> QED BY <1>11, <3>1
  <2> QED BY <2>1, <2>2, <2>3
<1> QED BY <1>10, <1>11, <1>12 DEF t

\* A search for a key of a leaf ends there.
LEMMA SearchFinds ==
    ASSUME NEW lev, NEW lo, IsTree(Pages, lev, lo), MaxPage \in Nat,
           NEW p \in Page, page[p].kind = "leaf", NEW i \in 1..Len(page[p].keys)
    PROVE  FindLeaf(page[p].keys[i]) = p
<1> DEFINE k == page[p].keys[i]
           t == FindLeaf(k)
<1>1. p \in Place /\ Pages[p] = page[p]
  BY PagesFacts, Places
<1>2. k \in Nat
  BY <1>1, NodeFields DEF IsTree
<1>3. t \in Page /\ page[t].kind = "leaf" /\ Leads(Pages, lev, lo, t, k)
  <2> HIDE DEF k
  <2> QED BY <1>2, SearchLeads
<1>4. t \in Place /\ Pages[t] = page[t]
  BY <1>3, PagesFacts, Places
<1> HIDE DEF t
<1>5. lo[p] <= k
  BY <1>1 DEF IsTree, Ordered, KeysInOrder
<1>6. lo[p] \in Nat /\ lo[t] \in Nat
  BY <1>1, <1>4 DEF IsTree, Ordered
<1>7. lev[p] = lev[t]
  BY <1>1, <1>3, <1>4 DEF IsTree, Family
<1>8. lo[p] <= lo[t] \/ k < lo[p]
  BY <1>1, <1>3, <1>7 DEF Leads
<1>9. Apart(Pages, lo, p, t)
  BY <1>1, <1>3, <1>4, <1>7 DEF IsTree, Ordered
<1>10. lo[t] <= k
  BY <1>3 DEF Leads
<1>11. ~(lo[p] < lo[t])
  <2> SUFFICES ASSUME lo[p] < lo[t] PROVE FALSE
    OBVIOUS
  <2>1. k < lo[t]
    BY <1>1, <1>9 DEF Apart
  <2> HIDE DEF k
  <2> QED BY <1>2, <1>6, <1>10, <2>1
<1>12. lo[p] = lo[t]
  <2> HIDE DEF k
  <2> QED BY <1>2, <1>5, <1>6, <1>8, <1>11
<1>13. p = t
  BY <1>9, <1>12 DEF Apart
<1> QED BY <1>13 DEF t

\* Leftward leads from pages to pages.
LEMMA LeftwardPages ==
    ASSUME Shaped(Pages)
    PROVE  Leftward \in [Page -> Page]
<1>1. ASSUME NEW p \in Page, page[p].kind = "internal"
      PROVE  Head(page[p].child) \in Page
  <2>1. p \in Place /\ Pages[p] = page[p]
    BY PagesFacts, Places
  <2>2. /\ page[p].child \in Seq(Page) /\ Len(page[p].child) = Len(page[p].keys) + 1
        /\ Len(page[p].keys) \in Nat
    BY <1>1, <2>1, NodeFields DEF Shaped
  <2>3. page[p].child # <<>>
    BY <2>2
  <2> QED BY <2>2, <2>3
<1> QED BY <1>1 DEF Leftward

\* The first leaf below a node begins where the node does.
LEMMA LeftmostBegins ==
    ASSUME NEW lev, NEW lo, IsTree(Pages, lev, lo), MaxPage \in Nat,
           NEW p \in Page, page[p].kind # "none"
    PROVE  /\ LeftmostLeaf(p) \in Page /\ page[LeftmostLeaf(p)].kind = "leaf"
           /\ lo[LeftmostLeaf(p)] = lo[p]
<1>1. Pages[p].kind # "none"
  BY PagesFacts
<1>2. lev[p] \in Nat /\ lev[p] < MaxPage
  BY <1>1, LevelsBound
<1>3. Leftward \in [Page -> Page]
  BY LeftwardPages DEF IsTree
<1> DEFINE g == Leftward
<1>4. PICK f : Runs(f, MaxPage, Page, p, g) /\ LeftmostLeaf(p) = f[MaxPage]
  BY <1>3, LeftmostRuns
<1>5. f \in [0..MaxPage -> Page] /\ f[0] = p /\ \A d \in 1..MaxPage : f[d] = g[f[d - 1]]
  BY <1>4 DEF Runs
<1> DEFINE l == lev[p]
           Begin(t) == Pages[t].kind # "none" /\ lo[t] = lo[p]
           Good(d) == Begin(f[d]) /\ lev[f[d]] \in Nat /\ lev[f[d]] <= DownTo(l, d)
           B == {d \in 0..MaxPage : Good(d)}
<1>6. 0 \in B
  <2>1. lev[p] <= DownTo(l, 0)
    BY <1>2 DEF DownTo
  <2> QED BY <1>1, <1>2, <1>5, <2>1
<1>7. ASSUME NEW d \in 0..MaxPage - 1, d \in B PROVE d + 1 \in B
  <2>1. d + 1 \in 0..MaxPage /\ d + 1 \in 1..MaxPage /\ (d + 1) - 1 = d /\ d \in 0..MaxPage
    BY <1>7
  <2> DEFINE s == f[d]
             q == f[d + 1]
  <2>2. s \in Page /\ q = g[s]
    BY <1>5, <2>1
  <2>3. Begin(s) /\ lev[s] \in Nat /\ lev[s] <= DownTo(l, d)
    BY <1>7
  <2>4. Pages[s] = page[s] /\ s \in Place
    BY <2>2, PagesFacts, Places
  <2>5. q = IF page[s].kind = "internal" THEN Head(page[s].child) ELSE s
    BY <2>2 DEF Leftward
  <2>6. Begin(q) /\ lev[q] \in Nat /\ lev[q] <= DownTo(l, d + 1)
    <3> HIDE DEF s, q, g
    <3>1. CASE page[s].kind = "internal"
      <4>0. lev[s] > 0
        BY <2>4, <3>1, UpperNodes DEF IsTree
      <4>1. /\ Pages[s].child[1] \in Page /\ Pages[Pages[s].child[1]].kind # "none"
            /\ lev[Pages[s].child[1]] + 1 = lev[s] /\ lo[Pages[s].child[1]] = lo[s]
        BY <2>3, <2>4, <4>0, FirstChild
      <4>2. Head(page[s].child) = page[s].child[1]
        <5>1. /\ page[s].child \in Seq(Page) /\ Len(page[s].child) = Len(page[s].keys) + 1
              /\ Len(page[s].keys) \in Nat
          BY <2>4, <3>1, NodeFields DEF IsTree, Shaped
        <5> QED BY <5>1
      <4>3. q \in Page /\ Pages[q].kind # "none" /\ lev[q] + 1 = lev[s] /\ lo[q] = lo[s]
        BY <2>4, <2>5, <3>1, <4>1, <4>2
      <4>4. lev[q] \in Nat
        BY <4>3, Places DEF IsTree, Family
      <4> QED BY <1>2, <2>1, <2>3, <4>3, <4>4 DEF DownTo
    <3>2. CASE page[s].kind # "internal"
      <4>1. q = s
        BY <2>5, <3>2
      <4>2. page[s].kind = "leaf"
        <5>1. page[s].kind \in {"none", "leaf", "internal"}
          BY <2>4, NodeFields DEF IsTree
        <5> QED BY <2>3, <2>4, <3>2, <5>1
      <4>3. lev[s] = 0
        BY <2>4, <4>2 DEF IsTree, Family
      <4> QED BY <1>2, <2>1, <2>3, <4>1, <4>3 DEF DownTo
    <3> QED BY <3>1, <3>2
  <2> QED BY <2>1, <2>6
<1>8. 0..MaxPage \subseteq B
  <2> HIDE DEF B
  <2> QED BY <1>6, <1>7, UpTo
<1>9. Good(MaxPage)
  BY <1>8
<1> DEFINE t == LeftmostLeaf(p)
<1>10. t \in Page /\ t = f[MaxPage]
  BY <1>4, <1>5
<1>11. Begin(t) /\ lev[t] = 0
  <2>1. Begin(t) /\ lev[t] \in Nat /\ lev[t] <= DownTo(l, MaxPage)
    BY <1>9, <1>10
  <2> HIDE DEF t, Begin
  <2> QED BY <1>2, <2>1 DEF DownTo
<1> HIDE DEF t, B
<1>12. page[t].kind = "leaf"
  <2>1. t \in Place /\ Pages[t] = page[t] /\ Pages[t].kind # "none"
    BY <1>10, <1>11, PagesFacts, Places
  <2>2. page[t].kind \in {"none", "leaf", "internal"}
    BY <2>1, NodeFields DEF IsTree
  <2>3. Pages[t].kind # "internal"
    <3> SUFFICES ASSUME Pages[t].kind = "internal" PROVE FALSE
      OBVIOUS
    <3>1. lev[t] > 0
      BY <2>1, UpperNodes DEF IsTree
    <3> QED BY <1>11, <3>1
  <2> QED BY <2>1, <2>2, <2>3
<1> QED BY <1>10, <1>11, <1>12 DEF t

-----------------------------------------------------------------------------
(* Iterating *)

\* The leaves that begin before leaf at does; all leaves where at is NoPage.
Passed(lo, at) == {z \in Page : page[z].kind = "leaf" /\ (at = NoPage \/ lo[z] < lo[at])}

\* The keys of some pages.
KeysOf(D) == UNION {ToSet(page[z].keys) : z \in D}

\* y has yielded the keys of the leaves before the one it has come to, in order.
Yielded(lo, y) ==
    /\ y \in Yield
    /\ y.at # NoPage => page[y.at].kind = "leaf"
    /\ Ascending(y.keys)
    /\ ToSet(y.keys) = KeysOf(Passed(lo, y.at))

\* The next leaf: one more has been passed.
LEMMA PassedNext ==
    ASSUME NEW lev, NEW lo, IsTree(Pages, lev, lo), NEW s, Chain(Pages, lo, s),
           NEW p \in Page, page[p].kind = "leaf"
    PROVE  /\ Passed(lo, page[p].next) = Passed(lo, p) \cup {p} /\ p \notin Passed(lo, p)
           /\ page[p].next \in PageOrNone
           /\ page[p].next # NoPage => page[page[p].next].kind = "leaf"
<1>1. p \in Place /\ Pages[p] = page[p] /\ IsLeaf(Pages, p)
  BY PagesFacts, Places DEF IsLeaf
<1> DEFINE q == page[p].next
<1>2. Follows(Pages, lo, p, q)
  BY <1>1 DEF Chain
<1>3. lo[p] \in Nat
  BY <1>1 DEF IsTree, Ordered
<1>4. q \in Place
  BY <1>1, NodeFields DEF IsTree
<1> HIDE DEF q
<1>5. \A z \in Page : page[z].kind = "leaf" => z \in Place /\ IsLeaf(Pages, z) /\ lo[z] \in Nat
  BY PagesFacts, Places DEF IsLeaf, IsTree, Ordered
<1>6. ASSUME NEW z \in Page, page[z].kind = "leaf", lo[z] = lo[p] PROVE z = p
  <2>1. lev[z] = lev[p] /\ Pages[z].kind # "none" /\ Pages[p].kind # "none"
    BY <1>1, <1>5, <1>6 DEF IsTree, Family, IsLeaf
  <2>2. Apart(Pages, lo, z, p)
    BY <1>1, <1>5, <1>6, <2>1 DEF IsTree, Ordered
  <2> QED BY <1>6, <2>2 DEF Apart
<1>7. ASSUME NEW z \in Page, page[z].kind = "leaf"
      PROVE  (q = NoPage \/ lo[z] < lo[q]) <=> (lo[z] < lo[p] \/ z = p)
  <2>1. lo[z] \in Nat /\ IsLeaf(Pages, z) /\ z \in Place
    BY <1>5, <1>7
  <2>2. lo[z] <= lo[p] <=> lo[z] < lo[p] \/ z = p
    BY <1>3, <1>6, <1>7, <2>1
  <2>3. (q = NoPage \/ lo[z] < lo[q]) <=> lo[z] <= lo[p]
    <3>1. CASE q = NoPage
      <4>1. \A x \in Place : IsLeaf(Pages, x) => lo[x] <= lo[p]
        BY <1>2, <3>1 DEF Follows, NoPage, Page
      <4> QED BY <2>1, <3>1, <4>1
    <3>2. CASE q # NoPage
      <4>1. /\ q \in Page /\ IsLeaf(Pages, q) /\ lo[p] < lo[q]
            /\ \A x \in Place : IsLeaf(Pages, x) => lo[x] <= lo[p] \/ lo[q] <= lo[x]
        BY <1>2, <3>2 DEF Follows
      <4>2. lo[q] \in Nat
        BY <4>1, Places DEF IsTree, Ordered
      <4>3. lo[z] <= lo[p] \/ lo[q] <= lo[z]
        BY <2>1, <4>1
      <4> QED BY <1>3, <2>1, <3>2, <4>1, <4>2, <4>3
    <3> QED BY <3>1, <3>2
  <2> QED BY <2>2, <2>3
<1>8. p # NoPage
  BY DEF Page, NoPage
<1>9. Passed(lo, q) = Passed(lo, p) \cup {p}
  <2>1. ASSUME NEW z \in Passed(lo, q) PROVE z \in Passed(lo, p) \cup {p}
    <3>1. z \in Page /\ page[z].kind = "leaf" /\ (q = NoPage \/ lo[z] < lo[q])
      BY DEF Passed
    <3>2. lo[z] < lo[p] \/ z = p
      BY <1>7, <3>1
    <3> QED BY <3>1, <3>2 DEF Passed
  <2>2. ASSUME NEW z \in Passed(lo, p) \cup {p} PROVE z \in Passed(lo, q)
    <3>1. z \in Page /\ page[z].kind = "leaf" /\ (lo[z] < lo[p] \/ z = p)
      BY <1>8 DEF Passed
    <3>2. q = NoPage \/ lo[z] < lo[q]
      BY <1>7, <3>1
    <3> QED BY <3>1, <3>2 DEF Passed
  <2> QED BY <2>1, <2>2
<1>10. p \notin Passed(lo, p)
  <2> SUFFICES ASSUME p \in Passed(lo, p) PROVE FALSE
    OBVIOUS
  <2>1. lo[p] < lo[p]
    BY <1>8 DEF Passed
  <2> QED BY <1>3, <2>1
<1>11. q \in PageOrNone /\ (q # NoPage => page[q].kind = "leaf")
  <2>1. q \in PageOrNone
    BY <1>4, Places DEF PageOrNone, NoPage
  <2>2. q # NoPage => q \in Page /\ IsLeaf(Pages, q)
    BY <1>2 DEF Follows
  <2> QED BY <2>1, <2>2, PagesFacts DEF IsLeaf
<1> QED BY <1>9, <1>10, <1>11 DEF q

\* Its keys come after those that have been yielded.
LEMMA YieldedNext ==
    ASSUME NEW lev, NEW lo, IsTree(Pages, lev, lo), NEW s, Chain(Pages, lo, s),
           NEW y, Yielded(lo, y), y.at # NoPage, NEW w, w.keys = y.keys \o page[y.at].keys,
           w.at = page[y.at].next, w \in Yield
    PROVE  Yielded(lo, w)
<1> DEFINE p == y.at
           q == page[p].next
           ks == y.keys
           ls == page[p].keys
           us == ks \o ls
<1>1. y \in Yield /\ page[p].kind = "leaf" /\ Ascending(ks) /\ ToSet(ks) = KeysOf(Passed(lo, p))
  BY DEF Yielded
<1>2. p \in Page
  BY <1>1 DEF Yield, PageOrNone
<1>3. p \in Place /\ Pages[p] = page[p]
  BY <1>2, PagesFacts, Places
<1>4. /\ Passed(lo, q) = Passed(lo, p) \cup {p} /\ q \in PageOrNone
      /\ q # NoPage => page[q].kind = "leaf"
  BY <1>1, <1>2, PassedNext
<1>5. ls \in Seq(Key) /\ \A i \in 1..Len(ls) : ls[i] \in Nat
  BY <1>3, NodeFields DEF IsTree
<1>6. ks \in Seq(Key)
  BY <1>1 DEF Yield
<1>7. /\ Len(ks) \in Nat /\ DOMAIN ks = 1..Len(ks)
      /\ Len(ls) \in Nat /\ DOMAIN ls = 1..Len(ls)
  <2> HIDE DEF ks, ls
  <2> QED BY <1>5, <1>6, SeqPlaces
<1>8. us \in Seq(Key) /\ DOMAIN us = 1..Len(us) /\ Joined(ks, ls, us)
  <2> HIDE DEF ks, ls
  <2>1. us \in Seq(Key)
    BY <1>5, <1>6
  <2>2. DOMAIN us = 1..Len(us)
    BY <2>1, SeqPlaces
  <2>3. Joined(ks, ls, us)
    BY <1>5, <1>6, JoinFacts
  <2> QED BY <2>1, <2>2, <2>3
<1>9. ASSUME NEW k \in ToSet(ks) PROVE k \in Nat /\ k < lo[p]
  <2>1. PICK z \in Passed(lo, p) : k \in ToSet(page[z].keys)
    BY <1>1 DEF KeysOf
  <2>2. z \in Page /\ page[z].kind = "leaf" /\ lo[z] < lo[p]
    BY <1>2, <2>1 DEF Passed, Page, NoPage
  <2>3. z \in Place /\ Pages[z] = page[z] /\ lev[z] = lev[p]
    BY <1>1, <1>3, <2>2, PagesFacts, Places DEF IsTree, Family
  <2>4. Apart(Pages, lo, z, p)
    BY <1>1, <1>3, <2>2, <2>3 DEF IsTree, Ordered
  <2>5. page[z].keys \in Seq(Nat)
    BY <2>3, NodeFields DEF IsTree
  <2>6. PICK i \in 1..Len(page[z].keys) : k = page[z].keys[i]
    <3>1. DOMAIN page[z].keys = 1..Len(page[z].keys)
      BY <2>5, SeqPlaces
    <3> QED BY <2>1, <3>1 DEF ToSet
  <2>7. k < lo[p]
    BY <2>2, <2>3, <2>4, <2>6 DEF Apart
  <2>8. k \in Nat
    BY <2>3, <2>6, NodeFields DEF IsTree
  <2> QED BY <2>7, <2>8
<1>10. lo[p] \in Nat /\ Ascending(ls) /\ \A i \in 1..Len(ls) : lo[p] <= ls[i]
  BY <1>1, <1>3 DEF IsTree, Ordered, KeysInOrder
<1> HIDE DEF ks, ls, us
<1>11. ToSet(us) = ToSet(ks) \cup ToSet(ls)
  <2>1. ASSUME NEW k \in ToSet(us) PROVE k \in ToSet(ks) \cup ToSet(ls)
    <3>1. PICK i \in 1..Len(us) : k = us[i]
      BY <1>8 DEF ToSet
    <3>2. CASE i <= Len(ks)
      <4>1. i \in 1..Len(ks)
        BY <1>7, <3>1, <3>2
      <4>2. us[i] = ks[i]
        BY <1>8, <4>1 DEF Joined
      <4> QED BY <1>7, <3>1, <4>1, <4>2 DEF ToSet
    <3>3. CASE ~(i <= Len(ks))
      <4> DEFINE h == i - Len(ks)
      <4>1. h \in 1..Len(ls) /\ i = Len(ks) + h
        BY <1>7, <1>8, <3>1, <3>3 DEF Joined
      <4> HIDE DEF h
      <4>2. us[i] = ls[h]
        BY <1>8, <4>1 DEF Joined
      <4> QED BY <1>7, <3>1, <4>1, <4>2 DEF ToSet
    <3> QED BY <3>2, <3>3
  <2>2. ASSUME NEW k \in ToSet(ks) PROVE k \in ToSet(us)
    <3>1. PICK i \in 1..Len(ks) : k = ks[i]
      BY <1>7 DEF ToSet
    <3>2. i \in 1..Len(us)
      BY <1>7, <1>8 DEF Joined
    <3>3. us[i] = ks[i]
      BY <1>8 DEF Joined
    <3> QED BY <1>8, <3>1, <3>2, <3>3 DEF ToSet
  <2>3. ASSUME NEW k \in ToSet(ls) PROVE k \in ToSet(us)
    <3>1. PICK i \in 1..Len(ls) : k = ls[i]
      BY <1>7 DEF ToSet
    <3> DEFINE h == Len(ks) + i
    <3>2. h \in 1..Len(us)
      BY <1>7, <1>8 DEF Joined
    <3>3. us[h] = ls[i]
      BY <1>8 DEF Joined
    <3> HIDE DEF h
    <3> QED BY <1>8, <3>1, <3>2, <3>3 DEF ToSet
  <2> QED BY <2>1, <2>2, <2>3
<1>12. Ascending(us)
  <2>1. ASSUME NEW i \in 1..Len(us), NEW j \in 1..Len(us), i < j PROVE us[i] < us[j]
    <3>1. CASE j <= Len(ks)
      <4>1. i \in 1..Len(ks) /\ j \in 1..Len(ks)
        BY <1>7, <2>1, <3>1
      <4>2. us[i] = ks[i] /\ us[j] = ks[j] /\ ks[i] < ks[j]
        BY <1>1, <1>8, <2>1, <4>1 DEF Joined, Ascending
      <4> QED BY <4>2
    <3>2. CASE i <= Len(ks) /\ ~(j <= Len(ks))
      <4> DEFINE h == j - Len(ks)
      <4>1. i \in 1..Len(ks) /\ h \in 1..Len(ls) /\ j = Len(ks) + h
        BY <1>7, <1>8, <2>1, <3>2 DEF Joined
      <4> HIDE DEF h
      <4>2. us[i] = ks[i] /\ us[j] = ls[h]
        BY <1>8, <4>1 DEF Joined
      <4>3. ks[i] \in ToSet(ks)
        BY <1>7, <4>1 DEF ToSet
      <4>4. ks[i] \in Nat /\ ks[i] < lo[p] /\ lo[p] <= ls[h] /\ ls[h] \in Nat
        BY <1>5, <1>9, <1>10, <4>1, <4>3
      <4>5. ks[i] < ls[h]
        BY <1>10, <4>4
      <4> QED BY <4>2, <4>5
    <3>3. CASE ~(i <= Len(ks))
      <4> DEFINE g == i - Len(ks)
                 h == j - Len(ks)
      <4>1. /\ g \in 1..Len(ls) /\ i = Len(ks) + g /\ h \in 1..Len(ls) /\ j = Len(ks) + h
            /\ g < h
        BY <1>7, <1>8, <2>1, <3>3 DEF Joined
      <4> HIDE DEF g, h
      <4>2. us[i] = ls[g] /\ us[j] = ls[h] /\ ls[g] < ls[h]
        BY <1>8, <1>10, <4>1 DEF Joined, Ascending
      <4> QED BY <4>2
    <3>4. i <= Len(ks) => (j <= Len(ks) \/ ~(j <= Len(ks)))
      OBVIOUS
    <3> QED BY <3>1, <3>2, <3>3, <3>4
  <2> QED BY <2>1 DEF Ascending
<1>13. ToSet(us) = KeysOf(Passed(lo, q))
  <2>1. KeysOf(Passed(lo, p) \cup {p}) = KeysOf(Passed(lo, p)) \cup ToSet(page[p].keys)
    BY DEF KeysOf
  <2> QED BY <1>1, <1>4, <1>11, <2>1 DEF ls
<1> QED BY <1>4, <1>12, <1>13 DEF Yielded, us, ks, ls

\* There are not more leaves than pages to pass.
LEMMA PassedBound ==
    ASSUME MaxPage \in Nat, NEW lo, NEW p \in Page
    PROVE  IsFiniteSet(Passed(lo, p)) /\ (p \notin Passed(lo, p) => Cardinality(Passed(lo, p)) < MaxPage)
<1>1. IsFiniteSet(1..MaxPage) /\ Cardinality(1..MaxPage) = MaxPage
  <2>1. IsFiniteSet(1..MaxPage) /\ Cardinality(1..MaxPage) = IF 1 > MaxPage THEN 0 ELSE MaxPage - 1 + 1
    BY FS_Interval
  <2> QED BY <2>1
<1>2. IsFiniteSet(Page) /\ Cardinality(Page) = MaxPage
  BY <1>1 DEF Page
<1> DEFINE D == Passed(lo, p)
<1>3. D \subseteq Page
  BY DEF Passed
<1> HIDE DEF D
<1>4. IsFiniteSet(D) /\ Cardinality(D) \in Nat
  BY <1>2, <1>3, FS_Subset, FS_CardinalityType
<1>5. ASSUME p \notin D PROVE Cardinality(D) < MaxPage
  <2>1. Cardinality(D \cup {p}) = Cardinality(D) + 1
    BY <1>4, <1>5, FS_AddElement
  <2>2. Cardinality(D \cup {p}) <= Cardinality(Page)
    <3>1. D \cup {p} \subseteq Page
      BY <1>3
    <3> QED BY <1>2, <3>1, FS_Subset
  <2> QED BY <1>2, <1>4, <2>1, <2>2
<1> QED BY <1>4, <1>5 DEF D

\* Onward leads from what iterating has yielded to what it yields next.
LEMMA OnwardYield ==
    ASSUME Shaped(Pages)
    PROVE  Onward \in [Yield -> Yield]
<1> SUFFICES ASSUME NEW y \in Yield, y.at # NoPage
             PROVE  [keys |-> y.keys \o page[y.at].keys, at |-> page[y.at].next] \in Yield
  BY DEF Onward
<1>1. y.at \in Page /\ y.keys \in Seq(Key)
  BY DEF Yield, PageOrNone
<1>2. y.at \in Place /\ Pages[y.at] = page[y.at]
  BY <1>1, PagesFacts, Places
<1>3. page[y.at].keys \in Seq(Key) /\ page[y.at].next \in Place
  BY <1>2, NodeFields
<1>4. page[y.at].next \in PageOrNone
  BY <1>3, Places DEF PageOrNone, NoPage
<1>5. y.keys \o page[y.at].keys \in Seq(Key)
  BY <1>1, <1>3
<1> QED BY <1>4, <1>5 DEF Yield

\* Iterating yields the keys of all leaves, in order.
LEMMA ScanYields ==
    ASSUME NEW lev, NEW lo, IsTree(Pages, lev, lo), NEW s, Chain(Pages, lo, s), MaxPage \in Nat
    PROVE  Ascending(Scan) /\ ToSet(Scan) = Stored /\ Scan \in Seq(Key)
<1>1. Pages[0].child = <<root>>
  BY PagesFacts
<1>2. root \in Page /\ Pages[root].kind # "none" /\ lo[root] = 0
  BY <1>1, OnlyChild
<1>3. page[root].kind # "none" /\ root # NoPage
  BY <1>2, PagesFacts DEF Page, NoPage
<1> DEFINE t == LeftmostLeaf(root)
<1>4. t \in Page /\ page[t].kind = "leaf" /\ lo[t] = 0
  BY <1>2, <1>3, LeftmostBegins
<1> HIDE DEF t
<1>5. ScanStart = [keys |-> <<>>, at |-> t]
  BY <1>3 DEF ScanStart, t
<1>6. ScanStart \in Yield
  BY <1>4, <1>5 DEF Yield, PageOrNone
<1>7. Onward \in [Yield -> Yield]
  BY OnwardYield DEF IsTree
<1> DEFINE g == Onward
<1>8. PICK f : Runs(f, MaxPage, Yield, ScanStart, g) /\ Scan = f[MaxPage].keys
  BY <1>6, <1>7, ScanRuns
<1>9. f \in [0..MaxPage -> Yield] /\ f[0] = ScanStart /\ \A d \in 1..MaxPage : f[d] = g[f[d - 1]]
  BY <1>8 DEF Runs
<1> DEFINE Size(y) == Cardinality(Passed(lo, y.at))
           Good(d) == Yielded(lo, f[d]) /\ (f[d].at # NoPage => d <= Size(f[d]))
           B == {d \in 0..MaxPage : Good(d)}
<1>10. 0 \in B
  <2>1. Passed(lo, t) = {}
    <3> SUFFICES ASSUME NEW z \in Passed(lo, t) PROVE FALSE
      OBVIOUS
    <3>1. z \in Page /\ lo[z] < 0
      BY <1>4 DEF Passed, Page, NoPage
    <3>2. lo[z] \in Nat
      BY <3>1, Places DEF IsTree, Ordered
    <3> QED BY <3>1, <3>2
  <2>2. f[0] = [keys |-> <<>>, at |-> t]
    BY <1>5, <1>9
  <2>3. f[0].keys = <<>> /\ f[0].at = t
    BY <2>2
  <2>4. Yielded(lo, f[0])
    <3>1. f[0] \in Yield /\ (f[0].at # NoPage => page[f[0].at].kind = "leaf")
      BY <1>4, <1>5, <1>6, <2>2, <2>3
    <3>2. ToSet(f[0].keys) = {} /\ Ascending(f[0].keys)
      BY <2>3 DEF ToSet, Ascending
    <3>3. KeysOf(Passed(lo, f[0].at)) = {}
      BY <2>1, <2>3 DEF KeysOf
    <3> QED BY <3>1, <3>2, <3>3 DEF Yielded
  <2>5. Size(f[0]) = 0
    BY <2>1, <2>3, FS_EmptySet
  <2>6. Good(0)
    BY <2>4, <2>5
  <2> QED BY <2>6
<1>11. ASSUME NEW d \in 0..MaxPage - 1, d \in B PROVE d + 1 \in B
  <2>1. d + 1 \in 0..MaxPage /\ d + 1 \in 1..MaxPage /\ (d + 1) - 1 = d /\ d \in 0..MaxPage /\ d \in Nat
    BY <1>11
  <2> DEFINE y == f[d]
             w == f[d + 1]
  <2>2. y \in Yield /\ w \in Yield /\ w = g[y]
    BY <1>9, <2>1
  <2>3. Yielded(lo, y) /\ (y.at # NoPage => d <= Size(y))
    BY <1>11
  <2>4. w = IF y.at = NoPage THEN y ELSE [keys |-> y.keys \o page[y.at].keys, at |-> page[y.at].next]
    BY <2>2 DEF Onward
  <2>5. Yielded(lo, w) /\ (w.at # NoPage => d + 1 <= Size(w))
    <3> HIDE DEF y, w, g
    <3>1. CASE y.at = NoPage
      BY <2>3, <2>4, <3>1
    <3>2. CASE y.at # NoPage
      <4>1. w.keys = y.keys \o page[y.at].keys /\ w.at = page[y.at].next
        BY <2>4, <3>2
      <4>2. Yielded(lo, w)
        BY <2>2, <2>3, <3>2, <4>1, YieldedNext
      <4>3. y.at \in Page /\ page[y.at].kind = "leaf"
        BY <2>2, <2>3, <3>2 DEF Yielded, Yield, PageOrNone
      <4>4. Passed(lo, w.at) = Passed(lo, y.at) \cup {y.at} /\ y.at \notin Passed(lo, y.at)
        BY <4>1, <4>3, PassedNext
      <4>5. IsFiniteSet(Passed(lo, y.at))
        BY <4>3, PassedBound
      <4>6. Size(w) = Size(y) + 1 /\ Size(y) \in Nat
        BY <4>4, <4>5, FS_AddElement, FS_CardinalityType
      <4> HIDE DEF Size
      <4> QED BY <2>1, <2>3, <3>2, <4>2, <4>6
    <3> QED BY <3>1, <3>2
  <2>6. Good(d + 1)
    BY <2>5
  <2> HIDE DEF Good
  <2> QED BY <2>1, <2>6
<1>12. 0..MaxPage \subseteq B
  <2> HIDE DEF B
  <2> QED BY <1>10, <1>11, UpTo
<1> DEFINE y == f[MaxPage]
<1>13. MaxPage \in 0..MaxPage
  OBVIOUS
<1>14. Yielded(lo, y) /\ (y.at # NoPage => MaxPage <= Size(y)) /\ y \in Yield
  BY <1>9, <1>12, <1>13
<1> HIDE DEF y, B
<1>15. y.at = NoPage
  <2> SUFFICES ASSUME y.at # NoPage PROVE FALSE
    OBVIOUS
  <2>1. y.at \in Page /\ page[y.at].kind = "leaf"
    BY <1>14 DEF Yielded, Yield, PageOrNone
  <2>2. y.at \notin Passed(lo, y.at)
    BY <2>1, PassedNext
  <2>3. Size(y) < MaxPage /\ Size(y) \in Nat
    BY <2>1, <2>2, PassedBound, FS_CardinalityType
  <2> QED BY <1>14, <2>3
<1>16. Passed(lo, y.at) = LeafPages
  BY <1>15 DEF Passed, LeafPages
<1>17. ToSet(y.keys) = Stored
  BY <1>14, <1>16 DEF Yielded, Stored, KeysOf
<1>18. Ascending(y.keys) /\ y.keys \in Seq(Key)
  BY <1>14 DEF Yielded, Yield
<1> QED BY <1>8, <1>17, <1>18 DEF y

\* An empty tree yields no key.
LEMMA ScanNothing ==
    ASSUME root = NoPage, MaxPage \in Nat, \A p \in Page : page[p] = NoNode
    PROVE  Scan = <<>>
<1> DEFINE y == [keys |-> <<>>, at |-> NoPage]
<1>1. ScanStart = y /\ y \in Yield
  BY DEF ScanStart, Yield, PageOrNone
<1>2. Onward \in [Yield -> Yield]
  <2> SUFFICES ASSUME NEW z \in Yield, z.at # NoPage
               PROVE  [keys |-> z.keys \o page[z.at].keys, at |-> page[z.at].next] \in Yield
    BY DEF Onward
  <2>1. z.at \in Page /\ z.keys \in Seq(Key)
    BY DEF Yield, PageOrNone
  <2>2. page[z.at].keys = <<>> /\ page[z.at].next = NoPage
    BY <2>1 DEF NoNode
  <2>3. z.keys \o page[z.at].keys \in Seq(Key)
    BY <2>1, <2>2
  <2> QED BY <2>2, <2>3 DEF Yield, PageOrNone
<1>3. Onward[y] = y
  BY <1>1 DEF Onward
<1> DEFINE g == Onward
<1>4. PICK f : Runs(f, MaxPage, Yield, ScanStart, g) /\ Scan = f[MaxPage].keys
  BY <1>1, <1>2, ScanRuns
<1>5. f[0] = y /\ \A d \in 1..MaxPage : f[d] = g[f[d - 1]]
  BY <1>1, <1>4 DEF Runs
<1> DEFINE B == {d \in 0..MaxPage : f[d] = y}
<1>6. 0 \in B
  BY <1>5
<1>7. ASSUME NEW d \in 0..MaxPage - 1, d \in B PROVE d + 1 \in B
  <2>1. d + 1 \in 0..MaxPage /\ d + 1 \in 1..MaxPage /\ (d + 1) - 1 = d
    OBVIOUS
  <2>2. f[d + 1] = g[f[d]] /\ f[d] = y
    BY <1>5, <1>7, <2>1
  <2>3. f[d + 1] = y
    BY <1>3, <2>2
  <2> QED BY <2>1, <2>3
<1>8. 0..MaxPage \subseteq B
  <2> HIDE DEF B
  <2> QED BY <1>6, <1>7, UpTo
<1>9. f[MaxPage] = y
  BY <1>8
<1> QED BY <1>4, <1>9

-----------------------------------------------------------------------------
(* Pages in use, and free ones *)

\* fr lists each page below np that has no node once; no page from np on has one.
Books(pg, fr, np) ==
    /\ fr \in Seq(Page) /\ np \in 1..MaxPage + 1
    /\ \A i, j \in 1..Len(fr) : fr[i] = fr[j] => i = j
    /\ \A p \in Page : pg[p].kind = "none" <=> (p >= np \/ \E i \in 1..Len(fr) : fr[i] = p)
    /\ \A i \in 1..Len(fr) : fr[i] < np

\* The nodes of pg2 are those of pg and one on page q, which had none.
NodeAdded(pg, pg2, q) ==
    /\ \A p \in Page \ {q} : pg2[p].kind = "none" <=> pg[p].kind = "none"
    /\ pg2[q].kind # "none"

\* A page that is taken had no node, and the list is right when it has one.
LEMMA Taken ==
    ASSUME MaxPage \in Nat, Books(page, free, nPage), TakePage
    PROVE  /\ NewPage \in Page /\ page[NewPage].kind = "none"
           /\ free' \in Seq(Page) /\ nPage' \in 1..MaxPage + 1
           /\ \A pg : NodeAdded(page, pg, NewPage) => Books(pg, free', nPage')
<1>1. /\ free \in Seq(Page) /\ nPage \in 1..MaxPage + 1
      /\ \A i, j \in 1..Len(free) : free[i] = free[j] => i = j
      /\ \A p \in Page : page[p].kind = "none" <=> (p >= nPage \/ \E i \in 1..Len(free) : free[i] = p)
      /\ \A i \in 1..Len(free) : free[i] < nPage
  BY DEF Books
<1>2. /\ NewPage <= MaxPage
      /\ nPage' = IF free = <<>> THEN nPage + 1 ELSE nPage
      /\ free' = IF free = <<>> THEN free ELSE Tail(free)
  BY DEF TakePage
<1>3. CASE free = <<>>
  <2>1. NewPage = nPage /\ Len(free) = 0
    BY <1>3 DEF NewPage
  <2>2. NewPage \in Page /\ nPage' \in 1..MaxPage + 1 /\ nPage' = nPage + 1 /\ free' = free
    BY <1>1, <1>2, <1>3, <2>1 DEF Page
  <2>3. page[NewPage].kind = "none"
    BY <1>1, <2>1, <2>2 DEF Page
  <2>4. ASSUME NEW pg, NodeAdded(page, pg, NewPage) PROVE Books(pg, free', nPage')
    <3>1. ASSUME NEW p \in Page PROVE pg[p].kind = "none" <=> p >= nPage'
      <4>1. page[p].kind = "none" <=> p >= nPage
        BY <1>1, <2>1
      <4>2. CASE p = NewPage
        BY <1>1, <2>1, <2>2, <2>4, <4>2 DEF NodeAdded, Page
      <4>3. CASE p # NewPage
        <5>1. pg[p].kind = "none" <=> page[p].kind = "none"
          BY <2>4, <4>3 DEF NodeAdded
        <5>2. p >= nPage <=> p >= nPage'
          BY <1>1, <2>1, <2>2, <4>3 DEF Page
        <5> QED BY <4>1, <5>1, <5>2
      <4> QED BY <4>2, <4>3
    <3> QED BY <1>1, <2>1, <2>2, <3>1 DEF Books
  <2> QED BY <1>1, <2>2, <2>3, <2>4
<1>4. CASE free # <<>>
  <2>1. NewPage = Head(free) /\ free' = Tail(free) /\ nPage' = nPage
    BY <1>2, <1>4 DEF NewPage
  <2>2. /\ Len(free) \in Nat /\ Len(free) > 0 /\ NewPage = free[1] /\ NewPage \in Page
        /\ free' \in Seq(Page) /\ Len(free') = Len(free) - 1
        /\ \A i \in 1..Len(free) - 1 : free'[i] = free[i + 1]
    BY <1>1, <1>4, <2>1
  <2>3. page[NewPage].kind = "none"
    <3>1. 1 \in 1..Len(free)
      BY <2>2
    <3> QED BY <1>1, <2>2, <3>1
  <2>4. ASSUME NEW pg, NodeAdded(page, pg, NewPage) PROVE Books(pg, free', nPage')
    <3>1. \A i, j \in 1..Len(free') : free'[i] = free'[j] => i = j
      <4>1. ASSUME NEW i \in 1..Len(free'), NEW j \in 1..Len(free'), free'[i] = free'[j] PROVE i = j
        <5>1. i + 1 \in 1..Len(free) /\ j + 1 \in 1..Len(free)
          BY <2>2
        <5>2. free[i + 1] = free[j + 1]
          BY <2>2, <4>1
        <5>3. i + 1 = j + 1
          BY <1>1, <5>1, <5>2
        <5> QED BY <2>2, <5>3
      <4> QED BY <4>1
    <3>2. \A i \in 1..Len(free') : free'[i] < nPage'
      <4>1. ASSUME NEW i \in 1..Len(free') PROVE free'[i] < nPage'
        <5>1. i + 1 \in 1..Len(free) /\ free'[i] = free[i + 1]
          BY <2>2
        <5> QED BY <1>1, <2>1, <5>1
      <4> QED BY <4>1
    <3>3. ASSUME NEW p \in Page
          PROVE  pg[p].kind = "none" <=> (p >= nPage' \/ \E i \in 1..Len(free') : free'[i] = p)
      <4>1. 1 \in 1..Len(free)
        BY <2>2
      <4>2. CASE p = NewPage
        <5>1. ~(p >= nPage)
          <6>1. free[1] < nPage
            BY <1>1, <4>1
          <6> QED BY <1>1, <2>2, <4>2, <6>1 DEF Page
        <5>2. ASSUME NEW i \in 1..Len(free'), free'[i] = p PROVE FALSE
          <6>1. i + 1 \in 1..Len(free) /\ free[i + 1] = free[1]
            BY <2>2, <4>2, <5>2
          <6>2. i + 1 = 1
            BY <1>1, <4>1, <6>1
          <6> QED BY <2>2, <6>2
        <5>3. pg[p].kind # "none"
          BY <2>4, <4>2 DEF NodeAdded
        <5> QED BY <2>1, <5>1, <5>2, <5>3
      <4>3. CASE p # NewPage
        <5>1. pg[p].kind = "none" <=> page[p].kind = "none"
          BY <2>4, <4>3 DEF NodeAdded
        <5>2. ASSUME NEW i \in 1..Len(free), free[i] = p PROVE \E j \in 1..Len(free') : free'[j] = p
          <6>1. i # 1
            BY <2>2, <4>3, <5>2
          <6> DEFINE h == i - 1
          <6>2. h \in 1..Len(free') /\ h + 1 = i /\ h \in 1..Len(free) - 1
            BY <2>2, <6>1
          <6> HIDE DEF h
          <6>3. free'[h] = p
            BY <2>2, <5>2, <6>2
          <6> QED BY <6>2, <6>3
        <5>3. ASSUME NEW i \in 1..Len(free'), free'[i] = p PROVE \E j \in 1..Len(free) : free[j] = p
          <6>1. i + 1 \in 1..Len(free) /\ free'[i] = free[i + 1]
            BY <2>2
          <6> QED BY <5>3, <6>1
        <5>4. page[p].kind = "none" <=> (p >= nPage \/ \E i \in 1..Len(free) : free[i] = p)
          BY <1>1
        <5> QED BY <2>1, <5>1, <5>2, <5>3, <5>4
      <4> QED BY <4>2, <4>3
    <3> QED BY <1>1, <2>1, <2>2, <3>1, <3>2, <3>3 DEF Books
  <2> QED BY <1>1, <2>1, <2>2, <2>3, <2>4
<1> QED BY <1>3, <1>4

\* Then every page that has been given out is in use or once on the list.
LEMMA BooksAccount ==
    ASSUME MaxPage \in Nat, Books(page, free, nPage),
           \A p \in Page : page[p].kind \in {"none", "leaf", "internal"}
    PROVE  PagesAccounted
<1>1. /\ free \in Seq(Page) /\ nPage \in 1..MaxPage + 1
      /\ \A i, j \in 1..Len(free) : free[i] = free[j] => i = j
      /\ \A p \in Page : page[p].kind = "none" <=> (p >= nPage \/ \E i \in 1..Len(free) : free[i] = p)
      /\ \A i \in 1..Len(free) : free[i] < nPage
  BY DEF Books
<1>2. DOMAIN free = 1..Len(free) /\ \A i \in 1..Len(free) : free[i] \in Page
  BY <1>1, SeqPlaces
<1>3. IsInjective(free)
  BY <1>1, <1>2 DEF IsInjective
<1>4. ASSUME NEW p \in Page PROVE p \in InUse <=> page[p].kind # "none"
  BY DEF InUse, LeafPages, Internals
<1>5. \A p \in InUse : p \in Page
  BY DEF InUse, LeafPages, Internals
<1>6. \A p : p \in ToSet(free) <=> \E i \in 1..Len(free) : free[i] = p
  BY <1>2 DEF ToSet
<1>7. ToSet(free) \cap InUse = {}
  BY <1>1, <1>2, <1>4, <1>6
<1>8. ToSet(free) \cup InUse = 1..nPage - 1
  <2>1. ASSUME NEW p \in 1..nPage - 1 PROVE p \in ToSet(free) \cup InUse
    <3>1. p \in Page /\ ~(p >= nPage)
      BY <1>1 DEF Page
    <3> QED BY <1>1, <1>4, <1>6, <3>1
  <2>2. ASSUME NEW p \in ToSet(free) \cup InUse PROVE p \in 1..nPage - 1
    <3>1. p \in Page
      BY <1>2, <1>5, <1>6
    <3>2. ~(p >= nPage)
      <4>1. CASE p \in InUse
        BY <1>1, <1>4, <3>1, <4>1
      <4>2. CASE p \in ToSet(free)
        <5>1. PICK i \in 1..Len(free) : free[i] = p
          BY <1>6, <4>2
        <5>2. p < nPage
          BY <1>1, <5>1
        <5> QED BY <1>1, <3>1, <5>2 DEF Page
      <4> QED BY <4>1, <4>2
    <3> QED BY <1>1, <3>1, <3>2 DEF Page
  <2> QED BY <2>1, <2>2
<1> QED BY <1>3, <1>7, <1>8 DEF PagesAccounted

-----------------------------------------------------------------------------
(* A key is put into a leaf *)

\* u has the elements of s and e, in ascending order.
OneMore(s, e, u) ==
    /\ u \in Seq(Key) /\ Len(u) = Len(s) + 1 /\ Ascending(u)
    /\ ToSet(u) = ToSet(s) \cup {e}

\* The keys of a leaf with one more in the place that Count gives.
PutIn(ks, k) == InsertAt(ks, Count(ks, k) + 1, k)

\* There the keys stay in order.
LEMMA PutInFacts ==
    ASSUME NEW ks \in Seq(Key), Ascending(ks), NEW k \in Key, k \notin ToSet(ks)
    PROVE  OneMore(ks, k, PutIn(ks, k))
<1> DEFINE c == Count(ks, k)
           n == Len(ks)
           us == PutIn(ks, k)
           x == c + 1
<1>1. Key \subseteq Nat
  BY KeyAssumption
<1>2. ks \in Seq(Nat) /\ k \in Nat /\ DOMAIN ks = 1..n /\ n \in Nat
  <2>1. ks \in Seq(Nat) /\ k \in Nat
    <3>1. ks \in Seq(Key) /\ k \in Nat
      BY <1>1
    <3> HIDE DEF n, us, x, c
    <3>2. Len(ks) \in Nat /\ DOMAIN ks = 1..Len(ks) /\ \A i \in 1..Len(ks) : ks[i] \in Key
      BY SeqPlaces
    <3>3. ks = [i \in 1..Len(ks) |-> ks[i]]
      BY <3>2
    <3>4. ks \in [1..Len(ks) -> Nat]
      BY <1>1, <3>2, <3>3
    <3> QED BY <3>1, <3>2, <3>4
  <2>2. DOMAIN ks = 1..Len(ks) /\ Len(ks) \in Nat
    BY SeqPlaces
  <2> QED BY <2>1, <2>2
<1>3. c \in 0..n /\ \A i \in 1..n : i <= c <=> ks[i] <= k
  BY <1>2, CountFacts
<1>4. \A i \in 1..n : ks[i] \in Nat /\ ks[i] # k
  BY <1>2 DEF ToSet
<1>5. \A i, j \in 1..n : i < j => ks[i] < ks[j]
  BY DEF Ascending
<1> HIDE DEF c
<1>6. x \in Int /\ 1 <= x /\ x <= n + 1
  BY <1>2, <1>3
<1>7. Inserted(Key, ks, x, k, us)
  <2>1. us = InsertAt(ks, x, k)
    BY DEF PutIn, c
  <2>2. x \in Int /\ 1 <= x /\ x <= Len(ks) + 1
    BY <1>6
  <2> HIDE DEF x, us
  <2> QED BY <2>1, <2>2, InsertAtFacts
<1> HIDE DEF us
<1>8. /\ us \in Seq(Key) /\ Len(us) = n + 1
      /\ \A j \in 1..n + 1 : us[j] = IF j < x THEN ks[j] ELSE IF j = x THEN k ELSE ks[j - 1]
  BY <1>7 DEF Inserted
<1>9. /\ \A j \in 1..n + 1 : j <= c => us[j] = ks[j]
      /\ us[x] = k
      /\ \A j \in 1..n : c < j => us[j + 1] = ks[j]
  <2>1. ASSUME NEW j \in 1..n + 1, j <= c PROVE us[j] = ks[j]
    <3>1. j < x
      BY <1>2, <1>3, <2>1
    <3> QED BY <1>8, <3>1
  <2>2. us[x] = k
    <3>1. x \in 1..n + 1 /\ ~(x < x)
      BY <1>2, <1>6
    <3> HIDE DEF x
    <3> QED BY <1>8, <3>1
  <2>3. ASSUME NEW j \in 1..n, c < j PROVE us[j + 1] = ks[j]
    <3> DEFINE y == j + 1
    <3>1. y \in 1..n + 1 /\ ~(y < x) /\ y # x /\ y - 1 = j
      BY <1>2, <1>3, <2>3
    <3> HIDE DEF y, x
    <3>2. us[y] = ks[y - 1]
      BY <1>8, <3>1
    <3> QED BY <3>1, <3>2 DEF y
  <2> QED BY <2>1, <2>2, <2>3
<1>10. ASSUME NEW i \in 1..n + 1
       PROVE  \/ i <= c /\ i \in 1..n
              \/ i = x
              \/ c < i - 1 /\ i - 1 \in 1..n /\ us[i] = ks[i - 1]
  <2>1. CASE i <= c
    BY <1>2, <1>3, <2>1
  <2>2. CASE i > x
    <3> DEFINE y == i - 1
    <3>1. y \in 1..n /\ c < y /\ y + 1 = i
      BY <1>2, <1>3, <2>2
    <3> HIDE DEF y
    <3>2. us[y + 1] = ks[y]
      BY <1>9, <3>1
    <3>3. us[i] = ks[y]
      BY <3>1, <3>2
    <3> QED BY <3>1, <3>3 DEF y
  <2>3. i <= c \/ i = x \/ i > x
    BY <1>2, <1>3
  <2> QED BY <2>1, <2>2, <2>3
<1>11. ASSUME NEW i \in 1..n + 1
       PROVE  us[i] \in Nat /\ (i <= c => us[i] < k) /\ (i > x => us[i] > k)
  <2>1. CASE i <= c /\ i \in 1..n
    <3>1. us[i] = ks[i] /\ ks[i] <= k /\ ks[i] \in Nat /\ ks[i] # k
      BY <1>3, <1>4, <1>9, <2>1
    <3>2. ~(i > x)
      BY <1>2, <1>3, <2>1
    <3>3. ks[i] < k
      BY <1>2, <3>1
    <3> QED BY <3>1, <3>2, <3>3
  <2>2. CASE i = x
    <3>1. us[i] = k /\ ~(i <= c) /\ ~(i > x)
      BY <1>2, <1>3, <1>9, <2>2
    <3> QED BY <1>2, <3>1
  <2>3. CASE c < i - 1 /\ i - 1 \in 1..n /\ us[i] = ks[i - 1]
    <3> DEFINE y == i - 1
    <3>1. y \in 1..n /\ ~(y <= c) /\ us[i] = ks[y]
      BY <1>2, <1>3, <2>3
    <3>2. ~(i <= c)
      BY <1>2, <1>3, <2>3
    <3> HIDE DEF y
    <3>3. ~(ks[y] <= k) /\ ks[y] \in Nat
      BY <1>3, <1>4, <3>1
    <3>4. ks[y] > k
      BY <1>2, <3>3
    <3> QED BY <3>1, <3>2, <3>3, <3>4
  <2> QED BY <1>10, <2>1, <2>2, <2>3
<1>12. Ascending(us)
  <2> SUFFICES ASSUME NEW i \in 1..n + 1, NEW j \in 1..n + 1, i < j PROVE us[i] < us[j]
    BY <1>8 DEF Ascending
  <2>1. CASE j <= c
    <3>1. i <= c /\ i \in 1..n /\ j \in 1..n
      BY <1>2, <1>3, <2>1
    <3> QED BY <1>5, <1>9, <2>1, <3>1
  <2>2. CASE i <= c /\ j = x
    BY <1>9, <1>11, <2>2
  <2>3. CASE i <= c /\ j > x
    <3>1. us[i] \in Nat /\ us[j] \in Nat /\ us[i] < k /\ us[j] > k
      BY <1>11, <2>3
    <3> HIDE DEF x
    <3> QED BY <1>2, <3>1
  <2>4. CASE i = x
    <3>1. j > x
      BY <2>4
    <3>2. us[i] = k /\ us[j] > k
      BY <1>9, <1>11, <2>4, <3>1
    <3>3. us[j] \in Nat
      BY <1>11
    <3> HIDE DEF x
    <3> QED BY <1>2, <3>2, <3>3
  <2>5. CASE i > x
    <3>0. ~(i <= c) /\ i # x /\ ~(j <= c) /\ j # x
      BY <1>2, <1>3, <2>5
    <3>1. /\ i - 1 \in 1..n /\ us[i] = ks[i - 1]
          /\ j - 1 \in 1..n /\ us[j] = ks[j - 1]
      BY <1>10, <3>0
    <3>2. i - 1 < j - 1
      OBVIOUS
    <3>3. ks[i - 1] < ks[j - 1]
      BY <1>5, <3>1, <3>2
    <3> QED BY <3>1, <3>3
  <2>6. i <= c \/ i = x \/ i > x
    BY <1>2, <1>3
  <2>7. j <= c \/ j = x \/ j > x
    BY <1>2, <1>3
  <2> QED BY <2>1, <2>2, <2>3, <2>4, <2>5, <2>6, <2>7
<1>13. ToSet(us) = ToSet(ks) \cup {k}
  <2>1. DOMAIN us = 1..n + 1
    BY <1>8, SeqPlaces
  <2>2. ASSUME NEW v \in ToSet(us) PROVE v \in ToSet(ks) \cup {k}
    <3>1. PICK i \in 1..n + 1 : v = us[i]
      BY <2>1 DEF ToSet
    <3>2. us[i] = k \/ \E j \in 1..n : us[i] = ks[j]
      BY <1>9, <1>10
    <3> QED BY <1>2, <3>1, <3>2 DEF ToSet
  <2>3. k \in ToSet(us)
    <3>1. x \in 1..n + 1
      BY <1>2, <1>6
    <3> QED BY <1>9, <2>1, <3>1 DEF ToSet
  <2>4. ASSUME NEW i \in 1..n PROVE ks[i] \in ToSet(us)
    <3>1. CASE i <= c
      <4>1. i \in 1..n + 1 /\ us[i] = ks[i]
        BY <1>2, <1>9, <3>1
      <4> QED BY <2>1, <4>1 DEF ToSet
    <3>2. CASE c < i
      <4>1. i + 1 \in 1..n + 1 /\ us[i + 1] = ks[i]
        BY <1>2, <1>9, <3>2
      <4> QED BY <2>1, <4>1 DEF ToSet
    <3> QED BY <1>3, <3>1, <3>2
  <2>5. \A v \in ToSet(ks) : \E i \in 1..n : v = ks[i]
    BY <1>2 DEF ToSet
  <2> QED BY <2>2, <2>3, <2>4, <2>5
<1> QED BY <1>8, <1>12, <1>13 DEF OneMore, us

\* The keys of a leaf, in a set.
LEMMA LeafKeys ==
    ASSUME NEW T, Shaped(T), NEW p \in Place
    PROVE  /\ DOMAIN T[p].keys = 1..Len(T[p].keys)
           /\ \A v \in ToSet(T[p].keys) : \E i \in 1..Len(T[p].keys) : v = T[p].keys[i]
           /\ \A i \in 1..Len(T[p].keys) : T[p].keys[i] \in ToSet(T[p].keys)
<1>1. T[p].keys \in Seq(Key)
  BY NodeFields
<1>2. DOMAIN T[p].keys = 1..Len(T[p].keys)
  BY <1>1, SeqPlaces
<1> QED BY <1>2 DEF ToSet

\* Leaf p has the keys ks; nothing else is different.
LeafGets(T, U, p, ks) ==
    /\ p \in Page /\ T[p].kind = "leaf" /\ ks \in Seq(Key) /\ Ascending(ks)
    /\ U \in [Place -> Node]
    /\ U[p] = [T[p] EXCEPT !.keys = ks]
    /\ \A q \in Place \ {p} : U[q] = T[q]

\* The keys ks have their place in leaf p.
Fits(T, lo, p, ks) ==
    \A v \in ToSet(ks) : /\ lo[p] <= v
                         /\ \A z \in Place : IsLeaf(T, z) /\ lo[p] < lo[z] => v < lo[z]

\* The fields of the nodes then.
LEMMA LeafGetsFacts ==
    ASSUME NEW T, Shaped(T), NEW U, NEW p, NEW ks, LeafGets(T, U, p, ks)
    PROVE  /\ SameNodes(T, U) /\ U[p].keys = ks
           /\ \A q \in Place \ {p} : U[q].keys = T[q].keys
           /\ \A q \in Place : U[q].prev = T[q].prev /\ U[q].next = T[q].next
<1>1. /\ p \in Page /\ T[p].kind = "leaf" /\ U \in [Place -> Node]
      /\ U[p] = [T[p] EXCEPT !.keys = ks] /\ \A q \in Place \ {p} : U[q] = T[q]
  BY DEF LeafGets
<1>2. T[p] \in Node /\ p \in Place
  BY <1>1, Places DEF Shaped
<1>3. /\ U[p].kind = T[p].kind /\ U[p].child = T[p].child /\ U[p].parent = T[p].parent
      /\ U[p].keys = ks /\ U[p].prev = T[p].prev /\ U[p].next = T[p].next
  BY <1>1, <1>2 DEF Node
<1>4. SameNodes(T, U)
  <2>1. ASSUME NEW q \in Place
        PROVE  /\ U[q].kind = T[q].kind /\ U[q].child = T[q].child /\ U[q].parent = T[q].parent
               /\ T[q].kind = "none" => U[q] = T[q]
    <3>1. CASE q = p
      BY <1>1, <1>3, <3>1
    <3>2. CASE q # p
      BY <1>1, <3>2
    <3> QED BY <3>1, <3>2
  <2> QED BY <1>1, <2>1 DEF SameNodes
<1>5. ASSUME NEW q \in Place PROVE U[q].prev = T[q].prev /\ U[q].next = T[q].next
  <2>1. CASE q = p
    BY <1>3, <2>1
  <2>2. CASE q # p
    BY <1>1, <2>2
  <2> QED BY <2>1, <2>2
<1> QED BY <1>1, <1>3, <1>4, <1>5

\* Nodes of the same links form the same chain.
LEMMA SameLinks ==
    ASSUME NEW T, NEW U, NEW lo, NEW new, lo \in [Place -> Nat], new \in [Place -> Nat],
           \A q \in Place : U[q].kind = T[q].kind,
           \A q \in Place : IsLeaf(T, q) => U[q].prev = T[q].prev /\ U[q].next = T[q].next,
           SameOrder(T, lo, new), NEW s, Chain(T, lo, s)
    PROVE  Chain(U, new, s)
<1>1. SameChain(T, U, lo, new, s)
  BY DEF SameChain, SameOrder, IsLeaf
<1> QED BY <1>1, ChainKept

\* It is the same tree and the same chain where the keys have their place.
LEMMA LeafGetsTree ==
    ASSUME NEW T, NEW lev, NEW lo, IsTree(T, lev, lo), NEW U, NEW p, NEW ks,
           LeafGets(T, U, p, ks), Fits(T, lo, p, ks), NEW s, Chain(T, lo, s)
    PROVE  IsTree(U, lev, lo) /\ Chain(U, lo, s)
<1>1. p \in Page /\ p \in Place /\ T[p].kind = "leaf" /\ ks \in Seq(Key) /\ Ascending(ks)
  BY Places DEF LeafGets
<1>2. /\ SameNodes(T, U) /\ U[p].keys = ks
      /\ \A q \in Place \ {p} : U[q].keys = T[q].keys
      /\ \A q \in Place : U[q].prev = T[q].prev /\ U[q].next = T[q].next
  BY LeafGetsFacts DEF IsTree
<1>3. \A q \in Place : T[q].kind = "internal" => U[q].keys = T[q].keys
  BY <1>1, <1>2
<1>4. \A i \in 1..Len(ks) : ks[i] \in ToSet(ks)
  <2>1. DOMAIN ks = 1..Len(ks)
    BY <1>1, SeqPlaces
  <2> QED BY <2>1 DEF ToSet
<1>5. \A q \in Place : U[q].kind = T[q].kind
  BY <1>2 DEF SameNodes
<1>6. ASSUME NEW q \in Place, U[q].kind = "leaf" PROVE KeysInOrder(U, lo, q)
  <2>1. CASE q = p
    <3>1. \A i \in 1..Len(U[q].keys) : lo[q] <= U[q].keys[i]
      BY <1>2, <1>4, <2>1 DEF Fits
    <3>2. Ascending(U[q].keys)
      BY <1>1, <1>2, <2>1
    <3> QED BY <1>6, <3>1, <3>2 DEF KeysInOrder
  <2>2. CASE q # p
    <3>1. KeysInOrder(T, lo, q)
      BY <1>5, <1>6 DEF IsTree, Ordered
    <3>2. U[q].keys = T[q].keys
      BY <1>2, <2>2
    <3> QED BY <1>6, <3>1, <3>2 DEF KeysInOrder
  <2> QED BY <2>1, <2>2
<1>7. ASSUME NEW q \in Place, NEW r \in Place, U[q].kind = "leaf", U[r].kind = "leaf", lo[q] < lo[r],
             NEW i \in 1..Len(U[q].keys)
      PROVE  U[q].keys[i] < lo[r]
  <2>1. CASE q = p
    <3>1. U[q].keys[i] \in ToSet(ks)
      BY <1>2, <1>4, <2>1
    <3>2. IsLeaf(T, r)
      BY <1>5, <1>7 DEF IsLeaf
    <3> QED BY <1>7, <2>1, <3>1, <3>2 DEF Fits
  <2>2. CASE q # p
    <3>1. T[q].kind = "leaf" /\ T[r].kind = "leaf"
      BY <1>5, <1>7
    <3>2. lev[q] = lev[r]
      BY <3>1 DEF IsTree, Family
    <3>3. Apart(T, lo, q, r)
      BY <3>1, <3>2 DEF IsTree, Ordered
    <3>4. U[q].keys = T[q].keys
      BY <1>2, <2>2
    <3> QED BY <1>7, <3>3, <3>4 DEF Apart
  <2> QED BY <2>1, <2>2
<1>8. LeavesInOrder(U, lo)
  BY <1>6, <1>7 DEF LeavesInOrder
<1>9. IsTree(U, lev, lo)
  BY <1>2, <1>3, <1>8, LeafKeysChange
<1>10. Chain(U, lo, s)
  <2>1. lo \in [Place -> Nat] /\ SameOrder(T, lo, lo)
    BY DEF IsTree, Ordered, SameOrder
  <2> QED BY <1>2, <1>5, <2>1, SameLinks
<1> QED BY <1>9, <1>10

\* The keys of a leaf have their place there, and so does one a search leads to.
LEMMA KeysFit ==
    ASSUME NEW T, NEW lev, NEW lo, IsTree(T, lev, lo), NEW p \in Page, T[p].kind = "leaf",
           NEW ks, ToSet(ks) \subseteq ToSet(T[p].keys)
    PROVE  Fits(T, lo, p, ks)
<1>1. p \in Place
  BY Places
<1>2. ASSUME NEW v \in ToSet(ks)
      PROVE  lo[p] <= v /\ \A z \in Place : IsLeaf(T, z) /\ lo[p] < lo[z] => v < lo[z]
  <2>1. PICK i \in 1..Len(T[p].keys) : v = T[p].keys[i]
    BY <1>1, LeafKeys DEF IsTree
  <2>2. lo[p] <= v
    BY <1>1, <2>1 DEF IsTree, Ordered, KeysInOrder
  <2>3. ASSUME NEW z \in Place, IsLeaf(T, z), lo[p] < lo[z] PROVE v < lo[z]
    <3>1. T[z].kind = "leaf" /\ lev[p] = lev[z]
      BY <1>1, <2>3 DEF IsTree, Family, IsLeaf
    <3>2. Apart(T, lo, p, z)
      BY <1>1, <3>1 DEF IsTree, Ordered
    <3> QED BY <2>1, <2>3, <3>2 DEF Apart
  <2> QED BY <2>2, <2>3
<1> QED BY <1>2 DEF Fits

\* A key has its place in the leaf a search for it leads to.
LEMMA PutFits ==
    ASSUME NEW T, NEW lev, NEW lo, IsTree(T, lev, lo), NEW p \in Page, T[p].kind = "leaf",
           NEW k \in Nat, Leads(T, lev, lo, p, k), NEW ks, ToSet(ks) = ToSet(T[p].keys) \cup {k}
    PROVE  Fits(T, lo, p, ks)
<1>1. p \in Place
  BY Places
<1>2. Fits(T, lo, p, T[p].keys)
  BY KeysFit
<1>3. lo[p] <= k
  BY DEF Leads
<1>4. ASSUME NEW z \in Place, IsLeaf(T, z), lo[p] < lo[z] PROVE k < lo[z]
  <2>1. T[z].kind = "leaf" /\ lev[z] = lev[p]
    BY <1>1, <1>4 DEF IsTree, Family, IsLeaf
  <2>2. lo[z] <= lo[p] \/ k < lo[z]
    BY <2>1 DEF Leads
  <2>3. lo[z] \in Nat /\ lo[p] \in Nat
    BY <1>1 DEF IsTree, Ordered
  <2> QED BY <1>4, <2>2, <2>3
<1> QED BY <1>2, <1>3, <1>4 DEF Fits

-----------------------------------------------------------------------------
(* A leaf is split *)

\* What splitLeaf makes of the pages pg, where leaf p holds the keys ks: new takes
\* the first mid of them.
LeafSplit(pg, pg2, p, ks, mid, new) ==
    /\ pg2 \in [Page -> Node]
    /\ pg2[new] = Leaf(SubSeq(ks, 1, mid), pg[p].parent, pg[p].prev, p)
    /\ pg2[p] = [pg[p] EXCEPT !.keys = SubSeq(ks, mid + 1, Len(ks)), !.prev = new]
    /\ \A q \in Page \ {new, p} :
          pg2[q] = IF q = pg[p].prev THEN [pg[q] EXCEPT !.next = new] ELSE pg[q]

\* The leaf that q follows, if any, is not p and not new.
PrevLeaf(pg, p, new, q) ==
    q = NoPage \/ (q \in Page /\ q # p /\ q # new /\ pg[q].kind = "leaf")

\* The middle of a sequence of two elements or more.
LEMMA Middle ==
    ASSUME NEW n \in Nat, n > 1
    PROVE  n \div 2 \in Nat /\ n \div 2 > 0 /\ n \div 2 < n
OBVIOUS

\* SplitLeaf makes that of the pages.
LEMMA SplitLeafPages ==
    ASSUME page \in [Page -> Node], NEW p \in Page, NEW new \in Page, p # new,
           page[p].kind = "leaf", NEW ks \in Seq(Key), Len(ks) > 1,
           PrevLeaf(page, p, new, page[p].prev)
    PROVE  LeafSplit(page, SplitLeaf(p, ks, new), p, ks, Len(ks) \div 2, new)
<1> DEFINE mid == Len(ks) \div 2
           lower == SubSeq(ks, 1, mid)
           upper == SubSeq(ks, mid + 1, Len(ks))
           n == page[p]
           prev == n.prev
           lf == Leaf(lower, n.parent, prev, p)
           np == [n EXCEPT !.keys = upper, !.prev = new]
           pg == [page EXCEPT ![new] = lf, ![p].keys = upper, ![p].prev = new]
           U == SplitLeaf(p, ks, new)
<1>1. Len(ks) \in Nat /\ mid \in Nat /\ mid <= Len(ks)
  BY SeqPlaces, Middle
<1>2. lower \in Seq(Key)
  <2> HIDE DEF mid
  <2> QED BY <1>1, LowerPart
<1>3. upper \in Seq(Key)
  <2> HIDE DEF mid
  <2> QED BY <1>1, UpperPart
<1> HIDE DEF mid, lower, upper
<1>4. n \in Node /\ prev \in PageOrNone /\ n.parent \in PageOrNone
  BY DEF Node
<1>5. lf \in Node
  BY <1>2, <1>4 DEF Leaf, Node, PageOrNone
<1>6. np \in Node
  BY <1>3, <1>4 DEF Node, PageOrNone
<1>7. pg \in [Page -> Node] /\ \A q \in Page : pg[q] = IF q = new THEN lf ELSE IF q = p THEN np ELSE page[q]
  <2>1. pg = [page EXCEPT ![new] = lf, ![p] = np]
    <3> HIDE DEF lf
    <3> DEFINE g == [page EXCEPT ![new] = lf]
               h == [g EXCEPT ![p].keys = upper]
    <3>1. g \in [Page -> Node] /\ g[p] = page[p]
      BY <1>5
    <3>2. pg = [h EXCEPT ![p].prev = new]
      OBVIOUS
    <3> HIDE DEF g
    <3>3. h[p] = [page[p] EXCEPT !.keys = upper] /\ DOMAIN h = Page
      BY <3>1
    <3>4. pg = [g EXCEPT ![p] = [h[p] EXCEPT !.prev = new]]
      <4>1. h = [g EXCEPT ![p] = h[p]]
        BY <3>1
      <4> HIDE DEF h
      <4>2. [h EXCEPT ![p].prev = new] = [h EXCEPT ![p] = [h[p] EXCEPT !.prev = new]]
        BY <3>3
      <4> QED BY <3>1, <3>2, <4>1, <4>2
    <3>5. [h[p] EXCEPT !.prev = new] = np
      BY <1>4, <3>3 DEF Node
    <3> QED BY <3>4, <3>5 DEF g
  <2> HIDE DEF lf, np, n, pg
  <2> QED BY <1>5, <1>6, <2>1
<1>8. U = WithNext(pg, prev, new)
  BY DEF SplitLeaf, lower, upper, mid
<1>9. WithNext(pg, prev, new) = IF prev # NoPage /\ pg[prev].kind = "leaf" THEN [pg EXCEPT ![prev].next = new] ELSE pg
  BY DEF WithNext
<1>10. prev = NoPage \/ (prev \in Page /\ prev # p /\ prev # new /\ page[prev].kind = "leaf")
  BY DEF PrevLeaf
<1>11. p # NoPage /\ new # NoPage /\ NoPage \notin Page
  BY DEF Page, NoPage
<1> HIDE DEF pg, lf, np, n, U, prev
<1>12. U \in [Page -> Node] /\ \A q \in Page : U[q] =
         IF q = new THEN lf ELSE IF q = p THEN np
         ELSE IF q = prev THEN [page[q] EXCEPT !.next = new] ELSE page[q]
  <2>1. CASE prev = NoPage
    <3>1. U = pg
      BY <1>8, <1>9, <2>1
    <3> QED BY <1>7, <1>11, <2>1, <3>1
  <2>2. CASE prev # NoPage
    <3>1. prev \in Page /\ prev # p /\ prev # new /\ pg[prev] = page[prev] /\ page[prev].kind = "leaf"
      BY <1>7, <1>10, <2>2
    <3>2. U = [pg EXCEPT ![prev].next = new]
      BY <1>8, <1>9, <2>2, <3>1
    <3>3. [page[prev] EXCEPT !.next = new] \in Node
      BY <3>1 DEF Node, PageOrNone
    <3>4. U[prev] = [page[prev] EXCEPT !.next = new]
      BY <1>7, <3>1, <3>2
    <3>5. \A q \in Page \ {prev} : U[q] = pg[q]
      BY <1>7, <3>2
    <3>6. U \in [Page -> Node]
      <4>1. U = [pg EXCEPT ![prev] = [page[prev] EXCEPT !.next = new]]
        BY <3>1, <3>2
      <4> QED BY <1>7, <3>1, <3>3, <4>1
    <3> QED BY <1>7, <3>1, <3>4, <3>5, <3>6
  <2> QED BY <2>1, <2>2
<1>13. U[new] = lf /\ U[p] = np
  BY <1>12
<1>14. \A q \in Page \ {new, p} : U[q] = IF q = prev THEN [page[q] EXCEPT !.next = new] ELSE page[q]
  BY <1>12
<1> QED BY <1>12, <1>13, <1>14, Zenon DEF LeafSplit, U, lf, np, n, prev, mid, lower, upper

\* The tree T where left and right are linked to their parent, with the key between them.
WithLink(T, key, left, right) == [T EXCEPT ![T[left].parent] = SetChild(@, key, left, right)]

\* The pages of the program with the link that is still to be made.
Linked == IF task.op = "link" THEN WithLink(Pages, task.key, task.left, task.right) ELSE Pages

\* A node has a place among the children of its parent.
LEMMA ChildPlace ==
    ASSUME NEW T, NEW lev, NEW lo, IsTree(T, lev, lo), NEW p \in Page, T[p].kind # "none"
    PROVE  /\ T[p].parent \in Place /\ T[T[p].parent].kind = "internal" /\ T[p].parent # p
           /\ \E j : ChildAt(T, T[p].parent, j, p)
<1>1. /\ T[p].parent \in Place /\ T[T[p].parent].kind = "internal" /\ T[p].parent # p
      /\ \E j \in 1..Len(T[T[p].parent].child) : T[T[p].parent].child[j] = p
  BY ParentFacts
<1> QED BY <1>1 DEF ChildAt

\* What the nodes are made of after leaf p is split and linked to its parent r.
LeafHalves(T, U, p, r, ks, mid, new) ==
    /\ U \in [Place -> Node]
    /\ U[new] = Leaf(SubSeq(ks, 1, mid), r, T[p].prev, p)
    /\ U[p] = [T[p] EXCEPT !.keys = SubSeq(ks, mid + 1, Len(ks)), !.prev = new]
    /\ U[r] = SetChild(T[r], ks[mid + 1], new, p)
    /\ \A q \in Place \ {new, p, r} :
          U[q] = IF q = T[p].prev /\ IsLeaf(T, q) THEN [T[q] EXCEPT !.next = new] ELSE T[q]

\* Splitting a leaf and linking it to its parent makes that of them.
LEMMA SplitLeafNodes ==
    ASSUME NEW pg \in [Page -> Node], NEW rt \in Page, NEW lev, NEW lo,
           NEW p, NEW ks, NEW T, LeafGets(TreeOf(pg, rt), T, p, ks), IsTree(T, lev, lo),
           Shaped(TreeOf(pg, rt)),
           NEW new \in Page, pg[new].kind = "none", NEW mid \in Nat, mid + 1 \in 1..Len(ks),
           NEW pg2, LeafSplit(pg, pg2, p, ks, mid, new), PrevLeaf(pg, p, new, pg[p].prev),
           NEW U, U = WithLink(TreeOf(pg2, rt), ks[mid + 1], new, p)
    PROVE  LeafHalves(T, U, p, T[p].parent, ks, mid, new)
<1> DEFINE T0 == TreeOf(pg, rt)
           T2 == TreeOf(pg2, rt)
           r == T[p].parent
           key == ks[mid + 1]
           prev == pg[p].prev
<1>1. /\ p \in Page /\ T0[p].kind = "leaf" /\ T[p] = [T0[p] EXCEPT !.keys = ks]
      /\ ks \in Seq(Key) /\ Ascending(ks) /\ T \in [Place -> Node]
      /\ \A q \in Place \ {p} : T[q] = T0[q]
  BY DEF LeafGets
<1>2. /\ pg2 \in [Page -> Node]
      /\ pg2[new] = Leaf(SubSeq(ks, 1, mid), pg[p].parent, prev, p)
      /\ pg2[p] = [pg[p] EXCEPT !.keys = SubSeq(ks, mid + 1, Len(ks)), !.prev = new]
      /\ \A q \in Page \ {new, p} : pg2[q] = IF q = prev THEN [pg[q] EXCEPT !.next = new] ELSE pg[q]
  BY DEF LeafSplit
<1>3. /\ \A q \in Page : T0[q] = pg[q] /\ T2[q] = pg2[q]
      /\ T0[0] = Internal(<<>>, <<rt>>, NoPage) /\ T2[0] = Internal(<<>>, <<rt>>, NoPage)
      /\ T2 \in [Place -> Node] /\ DOMAIN T2 = Place
  BY <1>2, TreeFacts
<1>4. /\ T[p].kind = "leaf" /\ T[p].parent = pg[p].parent /\ T[p].prev = prev /\ T[p].keys = ks
      /\ T[p].next = pg[p].next /\ T[p].child = pg[p].child
      /\ pg[p] \in Node /\ pg[p].kind = "leaf"
  <2>1. T0[p] = pg[p] /\ pg[p] \in Node
    BY <1>1, <1>3
  <2> QED BY <1>1, <2>1 DEF Node
<1> HIDE DEF T0, T2, prev
<1>5. /\ r \in Place /\ T[r].kind = "internal" /\ r # p /\ \E j : ChildAt(T, r, j, p)
  BY <1>1, <1>4, ChildPlace
<1>6. p \in Place /\ new \in Place /\ p # new /\ p # 0 /\ new # 0
  BY <1>1, <1>4, Places
<1>7. r # new
  BY <1>1, <1>3, <1>5, <1>6
<1>8. prev \in Page => prev # r /\ prev # p /\ prev # new /\ IsLeaf(T, prev)
  <2> SUFFICES ASSUME prev \in Page PROVE prev # r /\ prev # p /\ prev # new /\ IsLeaf(T, prev)
    OBVIOUS
  <2>1. prev # p /\ prev # new /\ pg[prev].kind = "leaf"
    BY Places DEF PrevLeaf, prev, NoPage
  <2>2. prev \in Place /\ T[prev] = pg[prev]
    BY <1>1, <1>3, <2>1, Places
  <2> QED BY <1>5, <2>1, <2>2 DEF IsLeaf
<1>9. T2[r] = T[r]
  <2>1. CASE r = 0
    <3>1. 0 \in Place /\ 0 # p
      BY <1>6, Places
    <3>2. T[0] = T0[0]
      BY <1>1, <3>1
    <3> HIDE DEF r
    <3> QED BY <1>3, <2>1, <3>2
  <2>2. CASE r # 0
    <3>1. r \in Page /\ r # prev
      BY <1>5, <1>8, <2>2, Places
    <3>2. T2[r] = pg[r]
      BY <1>2, <1>3, <1>5, <1>7, <3>1
    <3>3. T[r] = pg[r]
      BY <1>1, <1>3, <1>5, <3>1
    <3> QED BY <3>2, <3>3
  <2> QED BY <2>1, <2>2
<1>10. U = [T2 EXCEPT ![r] = SetChild(T[r], key, new, p)]
  <2>1. T2[new].parent = r
    BY <1>2, <1>3, <1>4 DEF Leaf
  <2>2. U = [T2 EXCEPT ![T2[new].parent] = SetChild(@, key, new, p)]
    BY DEF WithLink, T2
  <2> HIDE DEF r, key
  <2> QED BY <1>9, <2>1, <2>2
<1>11. SetChild(T[r], key, new, p) \in Node
  <2>1. PICK j : ChildAt(T, r, j, p)
    BY <1>5
  <2>2. key \in Key /\ key \in Nat
    <3>1. key \in Key
      <4>1. DOMAIN ks = 1..Len(ks) /\ \A i \in 1..Len(ks) : ks[i] \in Key
        BY <1>1, SeqPlaces
      <4> QED BY <4>1
    <3> QED BY <3>1, KeyAssumption
  <2>3. KeyOf(T, lo, p, key)
    BY <1>4, <2>2 DEF KeyOf
  <2> HIDE DEF key, r
  <2>4. PlaceIn(T[r].keys, key, j)
    BY <1>5, <2>1, <2>3, PlaceOf
  <2>5. ChildSet(T[r], SetChild(T[r], key, new, p), j, key, new, p)
    BY <1>1, <1>5, <2>1, <2>2, <2>4, SetChildFacts DEF IsTree
  <2> QED BY <2>5 DEF ChildSet
<1> HIDE DEF r, key
<1>12. U \in [Place -> Node]
  BY <1>3, <1>10, <1>11
<1>13. U[r] = SetChild(T[r], key, new, p) /\ \A q \in Place \ {r} : U[q] = T2[q]
  BY <1>3, <1>5, <1>10
<1>14. U[new] = Leaf(SubSeq(ks, 1, mid), r, T[p].prev, p)
  BY <1>2, <1>3, <1>4, <1>6, <1>7, <1>13 DEF r
<1>15. U[p] = [T[p] EXCEPT !.keys = SubSeq(ks, mid + 1, Len(ks)), !.prev = new]
  <2>1. U[p] = pg2[p]
    BY <1>1, <1>3, <1>5, <1>6, <1>13
  <2>2. T[p] = [pg[p] EXCEPT !.keys = ks]
    BY <1>1, <1>3
  <2>3. pg[p] \in Node
    BY <1>4
  <2> DEFINE n == pg[p]
             upper == SubSeq(ks, mid + 1, Len(ks))
  <2>4. U[p] = [n EXCEPT !.keys = upper, !.prev = new] /\ T[p] = [n EXCEPT !.keys = ks] /\ n \in Node
    BY <1>2, <2>1, <2>2, <2>3
  <2> HIDE DEF n, upper
  <2>5. U[p] = [T[p] EXCEPT !.keys = upper, !.prev = new]
    BY <2>4 DEF Node
  <2> QED BY <2>5 DEF upper
<1>16. ASSUME NEW q \in Place \ {new, p, r}
       PROVE  U[q] = IF q = T[p].prev /\ IsLeaf(T, q) THEN [T[q] EXCEPT !.next = new] ELSE T[q]
  <2>1. U[q] = T2[q]
    BY <1>13
  <2>2. CASE q = 0
    <3>1. T[q] = T0[q] /\ T2[q] = T0[q] /\ ~IsLeaf(T, q)
      BY <1>1, <1>3, <1>6, <2>2 DEF Internal, IsLeaf
    <3> QED BY <2>1, <3>1
  <2>3. CASE q # 0
    <3>1. q \in Page
      BY <2>3, Places
    <3>2. T[q] = pg[q] /\ T2[q] = pg2[q]
      BY <1>1, <1>3, <3>1
    <3>3. pg2[q] = IF q = prev THEN [pg[q] EXCEPT !.next = new] ELSE pg[q]
      BY <1>2, <3>1
    <3>4. q = prev => IsLeaf(T, q)
      BY <1>8, <3>1
    <3> QED BY <1>4, <2>1, <3>2, <3>3, <3>4
  <2> QED BY <2>2, <2>3
<1> QED BY <1>12, <1>13, <1>14, <1>15, <1>16 DEF LeafHalves, r, key

\* The kind and links of a node with another next are the same.
LEMMA NextChanged ==
    ASSUME NEW n \in Node, NEW q
    PROVE  LET m == [n EXCEPT !.next = q] IN
           /\ m.kind = n.kind /\ m.keys = n.keys /\ m.child = n.child /\ m.parent = n.parent
           /\ m.prev = n.prev /\ m.next = q
BY DEF Node

\* The kind and links of a node that gets a child are the same.
LEMMA ChildSetLinks ==
    ASSUME NEW n \in Node, NEW key, NEW left, NEW right
    PROVE  LET m == SetChild(n, key, left, right) IN
           /\ m.kind = n.kind /\ m.parent = n.parent /\ m.prev = n.prev /\ m.next = n.next
BY DEF SetChild, Node

\* So a node of the tree is split, and the leaves are linked to one another.
LEMMA LeafHalvesSplit ==
    ASSUME NEW T, NEW lev, NEW lo, IsTree(T, lev, lo), NEW p \in Page, T[p].kind = "leaf",
           NEW new \in Page, T[new].kind = "none", NEW mid \in Nat, mid > 0,
           mid + 1 \in 1..Len(T[p].keys), NEW U, LeafHalves(T, U, p, T[p].parent, T[p].keys, mid, new)
    PROVE  /\ Splits(T, U, p, T[p].parent, new, mid)
           /\ Chain(T, lo, FALSE) => SplitLinks(T, U, p, new)
<1> DEFINE r == T[p].parent
           ks == T[p].keys
<1>1. /\ U \in [Place -> Node]
      /\ U[new] = Leaf(SubSeq(ks, 1, mid), r, T[p].prev, p)
      /\ U[p] = [T[p] EXCEPT !.keys = SubSeq(ks, mid + 1, Len(ks)), !.prev = new]
      /\ U[r] = SetChild(T[r], ks[mid + 1], new, p)
      /\ \A q \in Place \ {new, p, r} :
            U[q] = IF q = T[p].prev /\ IsLeaf(T, q) THEN [T[q] EXCEPT !.next = new] ELSE T[q]
  BY DEF LeafHalves
<1>2. /\ r \in Place /\ T[r].kind = "internal" /\ r # p /\ r # new
      /\ p \in Place /\ new \in Place /\ p # new
  BY ChildPlace, Places
<1>3. T \in [Place -> Node] /\ T[p] \in Node /\ T[r] \in Node
  BY <1>2 DEF IsTree, Shaped
<1>4. T[p].child = <<>> /\ \A q \in Place : T[q].kind = "none" => T[q] = NoNode
  BY <1>2 DEF IsTree, Shaped
<1> HIDE DEF r, ks
<1>5. /\ U[new].kind = "leaf" /\ U[new].keys = SubSeq(ks, 1, mid) /\ U[new].child = <<>>
      /\ U[new].parent = r /\ U[new].prev = T[p].prev /\ U[new].next = p
  BY <1>1 DEF Leaf
<1>6. /\ U[p].kind = "leaf" /\ U[p].keys = SubSeq(ks, mid + 1, Len(ks)) /\ U[p].child = <<>>
      /\ U[p].parent = r /\ U[p].prev = new /\ U[p].next = T[p].next
  BY <1>1, <1>3, <1>4 DEF Node, r
<1>7. /\ U[r].kind = T[r].kind /\ U[r].parent = T[r].parent
      /\ U[r].prev = T[r].prev /\ U[r].next = T[r].next
  <2> DEFINE s == SetChild(T[r], ks[mid + 1], new, p)
  <2>1. s.kind = T[r].kind /\ s.parent = T[r].parent /\ s.prev = T[r].prev /\ s.next = T[r].next
    BY <1>3, ChildSetLinks
  <2>2. U[r] = s
    BY <1>1
  <2> HIDE DEF s
  <2> QED BY <2>1, <2>2
<1>8. ASSUME NEW q \in Place \ {new, p, r}
      PROVE  /\ U[q].kind = T[q].kind /\ U[q].keys = T[q].keys /\ U[q].child = T[q].child
             /\ U[q].parent = T[q].parent /\ U[q].prev = T[q].prev
             /\ U[q].next = IF q = T[p].prev /\ IsLeaf(T, q) THEN new ELSE T[q].next
             /\ T[q].kind = "none" => U[q] = T[q]
  <2>1. CASE q = T[p].prev /\ IsLeaf(T, q)
    <3> DEFINE m == [T[q] EXCEPT !.next = new]
    <3>1. T[q] \in Node
      BY <1>3
    <3>2. /\ m.kind = T[q].kind /\ m.keys = T[q].keys /\ m.child = T[q].child
          /\ m.parent = T[q].parent /\ m.prev = T[q].prev /\ m.next = new
      BY <3>1, NextChanged
    <3>3. U[q] = m
      BY <1>1, <2>1
    <3> HIDE DEF m
    <3>4. T[q].kind # "none"
      BY <2>1 DEF IsLeaf
    <3> QED BY <2>1, <3>2, <3>3, <3>4
  <2>2. CASE ~(q = T[p].prev /\ IsLeaf(T, q))
    BY <1>1, <2>2
  <2> QED BY <2>1, <2>2
<1>9. Splits(T, U, p, r, new, mid)
  <2>1. KeysBelow(T[p], mid) = mid /\ ChildrenBelow(T[p], mid) = 0
    BY DEF KeysBelow, ChildrenBelow
  <2>2. SubSeq(T[p].child, 1, 0) = <<>> /\ SubSeq(T[p].child, 0 + 1, Len(T[p].child)) = <<>>
    <3>1. SubSeq(<<>>, 1, 0) = <<>>
      OBVIOUS
    <3>2. Len(<<>>) = 0
      OBVIOUS
    <3> QED BY <1>4, <3>1, <3>2
  <2>3. ASSUME NEW q \in Place \ {new}
        PROVE  U[q].kind = T[q].kind /\ (T[q].kind = "none" => U[q] = T[q]) /\ U[q].parent = T[q].parent
    <3>1. CASE q = p
      BY <1>6, <3>1 DEF r
    <3>2. CASE q = r
      BY <1>2, <1>7, <3>2
    <3>3. CASE q # p /\ q # r
      BY <1>8, <3>3
    <3> QED BY <3>1, <3>2, <3>3
  <2>4. \A q \in Place \ {new} :
          /\ U[q].kind = T[q].kind
          /\ T[q].kind = "none" => U[q] = T[q]
          /\ U[q].parent = IF \E i \in 1..ChildrenBelow(T[p], mid) : q = T[p].child[i]
                           THEN new ELSE T[q].parent
    <3>1. ~\E i \in 1..ChildrenBelow(T[p], mid) : TRUE
      BY <2>1
    <3> QED BY <2>3, <3>1
  <2>5. \A q \in Place \ {new, p, r} : U[q].keys = T[q].keys /\ U[q].child = T[q].child
    BY <1>8
  <2>6. r = T[p].parent /\ mid \in Nat \ {0} /\ mid + 1 \in 1..Len(T[p].keys)
    BY DEF r
  <2>7. /\ U[new].kind = T[p].kind /\ U[new].parent = r
        /\ U[new].keys = SubSeq(T[p].keys, 1, mid)
        /\ U[new].child = SubSeq(T[p].child, 1, ChildrenBelow(T[p], mid))
    BY <1>5, <2>1, <2>2 DEF ks
  <2>8. /\ U[p].keys = SubSeq(T[p].keys, KeysBelow(T[p], mid) + 1, Len(T[p].keys))
        /\ U[p].child = SubSeq(T[p].child, ChildrenBelow(T[p], mid) + 1, Len(T[p].child))
    BY <1>6, <2>1, <2>2 DEF ks
  <2>9. LET s == SetChild(T[r], T[p].keys[mid + 1], new, p) IN U[r].keys = s.keys /\ U[r].child = s.child
    BY <1>1 DEF ks
  <2> QED BY <1>1, <2>4, <2>5, <2>6, <2>7, <2>8, <2>9, Zenon DEF Splits
<1>10. ASSUME Chain(T, lo, FALSE) PROVE SplitLinks(T, U, p, new)
  <2>1. Precedes(T, lo, p, T[p].prev, FALSE)
    BY <1>2, <1>10 DEF Chain, IsLeaf
  <2>2. IsLeaf(U, new) /\ U[new].prev = T[p].prev /\ U[new].next = p
    BY <1>5 DEF IsLeaf
  <2>3. U[p].prev = new /\ U[p].next = T[p].next
    BY <1>6
  <2>4. ASSUME NEW z \in Place \ {new} PROVE IsLeaf(U, z) <=> IsLeaf(T, z)
    <3>1. U[z].kind = T[z].kind
      BY <1>9 DEF Splits
    <3> QED BY <3>1 DEF IsLeaf
  <2>5. ASSUME NEW z \in Place \ {new, p}, IsLeaf(T, z)
        PROVE  U[z].prev = T[z].prev /\ U[z].next = IF z = T[p].prev THEN new ELSE T[z].next
    <3>1. z # r
      BY <1>2, <2>5 DEF IsLeaf
    <3> QED BY <1>8, <2>5, <3>1
  <2> QED BY <2>2, <2>3, <2>4, <2>5 DEF SplitLinks
<1> QED BY <1>9, <1>10 DEF r

\* T is a tree whose leaves are a chain, not high if it is short.
Sound(T, stale, short) ==
    \E lev, lo : IsTree(T, lev, lo) /\ Chain(T, lo, stale) /\ (short => lev[0] <= 2)

\* So what a leaf that is split leaves is a tree, and its leaves are a chain.
LEMMA LeafHalvesSound ==
    ASSUME NEW T, NEW lev, NEW lo, IsTree(T, lev, lo), Chain(T, lo, FALSE),
           NEW p \in Page, T[p].kind = "leaf",
           NEW new \in Page, T[new].kind = "none", NEW mid \in Nat, mid > 0,
           mid + 1 \in 1..Len(T[p].keys), NEW U, LeafHalves(T, U, p, T[p].parent, T[p].keys, mid, new),
           NEW short, short => lev[0] <= 2
    PROVE  Sound(U, FALSE, short)
<1> DEFINE L == SplitLev(lev, p, new)
           W == SplitLo(T, lo, p, new, mid)
           r == T[p].parent
           key == T[p].keys[mid + 1]
<1>1. Splits(T, U, p, r, new, mid) /\ SplitLinks(T, U, p, new)
  BY LeafHalvesSplit
<1>2. T[p].kind # "none"
  OBVIOUS
<1>3. IsTree(U, L, W)
  <2> HIDE DEF r, L, W
  <2>1. IsTree(U, SplitLev(lev, p, new), SplitLo(T, lo, p, new, mid))
    BY <1>1, <1>2, SplitTree
  <2> QED BY <2>1 DEF L, W
<1>4. lo[p] < key
  <2> HIDE DEF r
  <2> QED BY <1>1, <1>2, SplitKey
<1>5. /\ p \in Place /\ new \in Place /\ p # new /\ new # 0
      /\ lo \in [Place -> Nat] /\ lev \in [Place -> Nat] /\ key \in Nat
  <2>1. p \in Place /\ new \in Place /\ p # new /\ new # 0
    BY Places
  <2>2. key \in Nat
    BY <2>1, NodeFields DEF IsTree
  <2> QED BY <2>1, <2>2 DEF IsTree, Ordered, Family
<1>6. IsLeaf(T, p) /\ ~IsLeaf(T, new)
  BY DEF IsLeaf
<1> HIDE DEF key
<1>7. /\ W \in [Place -> Nat] /\ W[new] = lo[p] /\ W[p] = key
      /\ \A z \in Place \ {new, p} : W[z] = lo[z]
  <2>1. W = [lo EXCEPT ![new] = lo[p], ![p] = key]
    BY DEF SplitLo, key
  <2> HIDE DEF W
  <2> QED BY <1>5, <2>1
<1>8. ASSUME NEW z \in Place, IsLeaf(T, z), lo[p] < lo[z] PROVE W[p] < lo[z]
  <2>1. lev[p] = lev[z] /\ T[z].kind # "none"
    BY <1>5, <1>6, <1>8 DEF IsTree, Family, IsLeaf
  <2>2. Apart(T, lo, p, z)
    BY <1>2, <1>5, <2>1 DEF IsTree, Ordered
  <2>3. key < lo[z]
    BY <1>8, <2>2 DEF Apart, key
  <2> QED BY <1>7, <2>3
<1>9. Chain(U, W, FALSE)
  <2>1. lo[p] < W[p]
    BY <1>4, <1>7
  <2> HIDE DEF W, L, r
  <2>2. /\ IsTree(T, lev, lo) /\ Chain(T, lo, FALSE) /\ p \in Page /\ new \in Page
        /\ W \in [Place -> Nat] /\ W[new] = lo[p]
    BY <1>7
  <2>3. \A z \in Place \ {new, p} : W[z] = lo[z]
    BY <1>7
  <2>4. \A z \in Place : IsLeaf(T, z) /\ lo[p] < lo[z] => W[p] < lo[z]
    BY <1>8
  <2> QED BY ONLY <1>1, <1>6, <2>1, <2>2, <2>3, <2>4, SplitChain
<1>10. L[0] = lev[0]
  <2>1. 0 \in Place
    BY Places
  <2> QED BY <1>5, <2>1 DEF SplitLev
<1> HIDE DEF L, W
<1> QED BY <1>3, <1>9, <1>10 DEF Sound

\* The keys of two parts of a sequence.
LEMMA PartsKeys ==
    ASSUME NEW V, NEW s \in Seq(V), NEW a \in Nat, a <= Len(s)
    PROVE  ToSet(SubSeq(s, 1, a)) \cup ToSet(SubSeq(s, a + 1, Len(s))) = ToSet(s)
<1> DEFINE t == SubSeq(s, 1, a)
           u == SubSeq(s, a + 1, Len(s))
           n == Len(s)
<1>1. n \in Nat /\ DOMAIN s = 1..n
  BY SeqPlaces
<1>2. t \in Seq(V) /\ Len(t) = a /\ \A i \in 1..a : t[i] = s[i]
  BY LowerPart
<1>3. u \in Seq(V) /\ Len(u) = n - a /\ \A i \in 1..n - a : u[i] = s[a + i]
  BY UpperPart
<1> HIDE DEF t, u
<1>4. DOMAIN t = 1..a /\ DOMAIN u = 1..n - a
  BY <1>2, <1>3, SeqPlaces
<1> HIDE DEF n
<1>5. ASSUME NEW v \in ToSet(t) PROVE v \in ToSet(s)
  <2>1. PICK i \in 1..a : v = t[i]
    BY <1>4 DEF ToSet
  <2>2. i \in 1..n /\ v = s[i]
    BY <1>1, <1>2, <2>1 DEF n
  <2> QED BY <1>1, <2>2 DEF ToSet
<1>6. ASSUME NEW v \in ToSet(u) PROVE v \in ToSet(s)
  <2>1. PICK i \in 1..n - a : v = u[i]
    BY <1>4 DEF ToSet
  <2>2. a + i \in 1..n /\ v = s[a + i]
    BY <1>1, <1>3, <2>1
  <2> QED BY <1>1, <2>2 DEF ToSet
<1>7. ASSUME NEW v \in ToSet(s) PROVE v \in ToSet(t) \cup ToSet(u)
  <2>1. PICK i \in 1..n : v = s[i]
    BY <1>1 DEF ToSet
  <2>2. CASE i <= a
    <3>1. i \in 1..a /\ v = t[i]
      BY <1>2, <2>1, <2>2
    <3> QED BY <1>4, <3>1 DEF ToSet
  <2>3. CASE ~(i <= a)
    <3> DEFINE h == i - a
    <3>1. h \in 1..n - a /\ a + h = i
      BY <1>1, <2>1, <2>3
    <3> HIDE DEF h
    <3>2. v = u[h]
      BY <1>3, <2>1, <3>1
    <3> QED BY <1>4, <3>1, <3>2 DEF ToSet
  <2> QED BY <2>2, <2>3
<1> QED BY <1>5, <1>6, <1>7 DEF t, u, n

\* The keys in the leaves of the pages pg.
StoredIn(pg) == UNION {ToSet(pg[p].keys) : p \in {q \in Page : pg[q].kind = "leaf"}}

\* A key is stored where a leaf has it.
LEMMA StoredWhere ==
    ASSUME NEW pg, NEW k
    PROVE  k \in StoredIn(pg) <=> \E p \in Page : pg[p].kind = "leaf" /\ k \in ToSet(pg[p].keys)
BY DEF StoredIn

\* The set s is t with k.
Adds(s, t, k) == s = t \cup {k}

\* Splitting a leaf that gets k stores k, and moves the other keys.
LEMMA LeafSplitStored ==
    ASSUME NEW pg \in [Page -> Node], NEW p \in Page, pg[p].kind = "leaf",
           NEW new \in Page, pg[new].kind = "none", NEW ks \in Seq(Key), NEW mid \in 0..Len(ks),
           NEW pg2, LeafSplit(pg, pg2, p, ks, mid, new), NEW k, Adds(ToSet(ks), ToSet(pg[p].keys), k)
    PROVE  Adds(StoredIn(pg2), StoredIn(pg), k)
<1> DEFINE lower == SubSeq(ks, 1, mid)
           upper == SubSeq(ks, mid + 1, Len(ks))
<1>1. /\ pg2[new] = Leaf(lower, pg[p].parent, pg[p].prev, p)
      /\ pg2[p] = [pg[p] EXCEPT !.keys = upper, !.prev = new]
      /\ \A q \in Page \ {new, p} :
            pg2[q] = IF q = pg[p].prev THEN [pg[q] EXCEPT !.next = new] ELSE pg[q]
  BY DEF LeafSplit
<1>2. ToSet(lower) \cup ToSet(upper) = ToSet(pg[p].keys) \cup {k}
  <2>1. mid \in Nat /\ mid <= Len(ks)
    BY SeqPlaces
  <2>2. ToSet(lower) \cup ToSet(upper) = ToSet(ks)
    BY <2>1, PartsKeys
  <2> QED BY <2>2 DEF Adds
<1> HIDE DEF lower, upper
<1>3. pg2[new].kind = "leaf" /\ pg2[new].keys = lower
  BY <1>1 DEF Leaf
<1>4. pg2[p].kind = "leaf" /\ pg2[p].keys = upper
  BY <1>1 DEF Node
<1>5. ASSUME NEW q \in Page \ {new, p} PROVE pg2[q].kind = pg[q].kind /\ pg2[q].keys = pg[q].keys
  <2>1. pg[q] \in Node
    OBVIOUS
  <2> DEFINE n == [pg[q] EXCEPT !.next = new]
  <2>2. n.kind = pg[q].kind /\ n.keys = pg[q].keys
    BY <2>1 DEF Node
  <2>3. pg2[q] = n \/ pg2[q] = pg[q]
    BY <1>1
  <2> HIDE DEF n
  <2> QED BY <2>2, <2>3
<1>6. p # new
  OBVIOUS
<1>7. ASSUME NEW v PROVE v \in StoredIn(pg2) <=> v \in StoredIn(pg) \cup {k}
  <2>1. ASSUME v \in StoredIn(pg2) PROVE v \in StoredIn(pg) \cup {k}
    <3>1. PICK q \in Page : pg2[q].kind = "leaf" /\ v \in ToSet(pg2[q].keys)
      BY <2>1, StoredWhere
    <3>2. CASE q \in {new, p}
      <4>1. v \in ToSet(pg[p].keys) \cup {k}
        BY <1>2, <1>3, <1>4, <3>1, <3>2
      <4> QED BY <4>1, StoredWhere
    <3>3. CASE q \notin {new, p}
      <4>1. pg[q].kind = "leaf" /\ v \in ToSet(pg[q].keys)
        BY <1>5, <3>1, <3>3
      <4> QED BY <4>1, StoredWhere
    <3> QED BY <3>2, <3>3
  <2>2. ASSUME v \in StoredIn(pg) \cup {k} PROVE v \in StoredIn(pg2)
    <3>1. CASE v = k \/ v \in ToSet(pg[p].keys)
      <4>1. v \in ToSet(pg2[new].keys) \/ v \in ToSet(pg2[p].keys)
        BY <1>2, <1>3, <1>4, <3>1
      <4> QED BY <1>3, <1>4, <4>1, StoredWhere
    <3>2. CASE v # k /\ v \notin ToSet(pg[p].keys)
      <4>1. PICK q \in Page : pg[q].kind = "leaf" /\ v \in ToSet(pg[q].keys)
        BY <2>2, <3>2, StoredWhere
      <4>2. q \notin {new, p}
        BY <3>2, <4>1
      <4>3. pg2[q].kind = "leaf" /\ v \in ToSet(pg2[q].keys)
        BY <1>5, <4>1, <4>2
      <4> QED BY <4>3, StoredWhere
    <3> QED BY <3>1, <3>2
  <2> QED BY <2>1, <2>2
<1> QED BY <1>7 DEF Adds

-----------------------------------------------------------------------------
(* The inductive invariant *)

\* Nodes above the leaves have one child more than keys.
Branching(pg) == \A p \in Page : pg[p].kind = "internal" => Len(pg[p].child) = Len(pg[p].keys) + 1

\* The tree before the first key is put into it.
Vacant ==
    /\ root = NoPage /\ page = [p \in Page |-> NoNode] /\ free = <<>> /\ nPage = 1
    /\ task = Rest /\ phase = "short"

\* What is left to do can be done.  A key has been removed once a tree has shrunk.
TaskFits ==
    /\ task.op = "link" => phase # "shrunk" /\ page[task.left].kind # "none"
    /\ task.op = "mend" => page[task.node].kind = "internal"
    /\ phase = "shrunk" => count.ops # 0

\* The tree from then on: the pages, with the link that is still to be made, are a
\* tree whose leaves are a chain.  A page of the chain can be named that is not
\* used any more once a tall tree has had a key removed.
Live ==
    /\ root \in Page
    /\ Sound(Linked, phase = "shrunk", phase = "short")
    /\ Books(page, free, nPage)
    /\ TaskFits

\* The sizes for which the tree is right: a node can lend when it uses more than
\* the minimum, and a tall tree is not put to after a removal.
Ordinary == ~Refill /\ TupleSize <= MinimumUsed /\ 3 * EntrySize <= MinimumUsed

\* Page p gets the keys ks.
KeysAt(pg, pg2, p, ks) == pg2 = [pg EXCEPT ![p].keys = ks]

\* What becomes of the pages then.
LEMMA KeysPages ==
    ASSUME NEW pg \in [Page -> Node], NEW p \in Page, pg[p].kind = "leaf",
           NEW ks \in Seq(Key), NEW pg2, KeysAt(pg, pg2, p, ks)
    PROVE  /\ pg2 \in [Page -> Node] /\ pg2[p].keys = ks /\ pg2[p].kind = "leaf"
           /\ \A q \in Page \ {p} : pg2[q] = pg[q]
<1> DEFINE n == [pg[p] EXCEPT !.keys = ks]
<1>1. pg[p] \in Node
  OBVIOUS
<1>2. n \in Node /\ n.kind = "leaf" /\ n.keys = ks
  BY <1>1 DEF Node
<1>3. pg2 = [pg EXCEPT ![p] = n]
  BY DEF KeysAt
<1> HIDE DEF n
<1>4. pg2 \in [Page -> Node] /\ pg2[p] = n /\ \A q \in Page \ {p} : pg2[q] = pg[q]
  BY <1>2, <1>3
<1> QED BY <1>2, <1>4 DEF n

\* Those are pages that LeafGets is about.
LEMMA KeysPut ==
    ASSUME NEW pg \in [Page -> Node], NEW rt \in Page, NEW p \in Page, pg[p].kind = "leaf",
           NEW ks \in Seq(Key), Ascending(ks), NEW pg2, KeysAt(pg, pg2, p, ks)
    PROVE  /\ pg2 \in [Page -> Node] /\ pg2[p].keys = ks /\ pg2[p].kind = "leaf"
           /\ \A q \in Page \ {p} : pg2[q] = pg[q]
           /\ pg2[p] = [pg[p] EXCEPT !.keys = ks]
           /\ LeafGets(TreeOf(pg, rt), TreeOf(pg2, rt), p, ks)
<1> DEFINE T == TreeOf(pg, rt)
           U == TreeOf(pg2, rt)
           n == [pg[p] EXCEPT !.keys = ks]
<1>3. pg2[p] = n
  BY DEF KeysAt
<1>4. /\ pg2 \in [Page -> Node] /\ pg2[p] = n /\ pg2[p].kind = "leaf" /\ pg2[p].keys = ks
      /\ \A q \in Page \ {p} : pg2[q] = pg[q]
  <2> HIDE DEF n
  <2> QED BY <1>3, KeysPages
<1> HIDE DEF n
<1>5. /\ \A q \in Page : T[q] = pg[q] /\ U[q] = pg2[q]
      /\ T[0] = U[0] /\ U \in [Place -> Node]
  <2>1. (\A q \in Page : T[q] = pg[q]) /\ T[0] = Internal(<<>>, <<rt>>, NoPage)
    BY TreeFacts
  <2>2. /\ \A q \in Page : U[q] = pg2[q]
        /\ U[0] = Internal(<<>>, <<rt>>, NoPage) /\ U \in [Place -> Node]
    BY <1>4, TreeFacts
  <2> QED BY <2>1, <2>2
<1> HIDE DEF T, U
<1>6. \A q \in Place \ {p} : U[q] = T[q]
  <2>1. ASSUME NEW q \in Place \ {p} PROVE U[q] = T[q]
    <3>1. CASE q = 0
      BY <1>5, <3>1
    <3>2. CASE q # 0
      <4>1. q \in Page
        BY <3>2, Places
      <4> QED BY <1>4, <1>5, <4>1
    <3> QED BY <3>1, <3>2
  <2> QED BY <2>1
<1>7. U[p] = [T[p] EXCEPT !.keys = ks] /\ T[p].kind = "leaf"
  BY <1>4, <1>5 DEF n
<1>8. LeafGets(T, U, p, ks)
  BY <1>5, <1>6, <1>7 DEF LeafGets
<1> QED BY <1>4, <1>8 DEF T, U, n

\* What a put into leaf p stores.
LEMMA PutStored ==
    ASSUME NEW pg, NEW pg2, NEW p \in Page, pg[p].kind = "leaf", pg2[p].kind = "leaf",
           \A q \in Page \ {p} : pg2[q] = pg[q], NEW k, ToSet(pg2[p].keys) = ToSet(pg[p].keys) \cup {k}
    PROVE  StoredIn(pg2) = StoredIn(pg) \cup {k}
<1>1. ASSUME NEW v PROVE v \in StoredIn(pg2) <=> v \in StoredIn(pg) \cup {k}
  <2>1. ASSUME v \in StoredIn(pg2) PROVE v \in StoredIn(pg) \cup {k}
    <3>1. PICK q \in Page : pg2[q].kind = "leaf" /\ v \in ToSet(pg2[q].keys)
      BY <2>1, StoredWhere
    <3>2. v = k \/ (pg[q].kind = "leaf" /\ v \in ToSet(pg[q].keys))
      <4>1. CASE q = p
        BY <3>1, <4>1
      <4>2. CASE q # p
        BY <3>1, <4>2
      <4> QED BY <4>1, <4>2
    <3> QED BY <3>2, StoredWhere
  <2>2. ASSUME v \in StoredIn(pg) \cup {k} PROVE v \in StoredIn(pg2)
    <3>1. CASE v = k
      <4>1. v \in ToSet(pg2[p].keys)
        BY <3>1
      <4> QED BY <4>1, StoredWhere
    <3>2. CASE v # k
      <4>1. PICK q \in Page : pg[q].kind = "leaf" /\ v \in ToSet(pg[q].keys)
        BY <2>2, <3>2, StoredWhere
      <4>2. pg2[q].kind = "leaf" /\ v \in ToSet(pg2[q].keys)
        <5>1. CASE q = p
          BY <4>1, <5>1
        <5>2. CASE q # p
          BY <4>1, <5>2
        <5> QED BY <5>1, <5>2
      <4> QED BY <4>2, StoredWhere
    <3> QED BY <3>1, <3>2
  <2> QED BY <2>1, <2>2
<1> QED BY <1>1

\* The parts of TypeOK.
LEMMA TypeParts ==
    TypeOK <=> /\ page \in [Page -> Node] /\ Branching(page) /\ root \in PageOrNone
               /\ free \in Seq(Page) /\ nPage \in 1..MaxPage + 1 /\ task \in Task
               /\ phase \in {"short", "tall", "shrunk"}
               /\ count \in [load: 0..Max(Loads), puts: 0..MaxPuts, ops: 0..MaxOps]
BY DEF TypeOK, Branching

\* The most keys that are put in ascending order at first.
LEMMA MostLoads == Max(Loads) \in Nat /\ \A n \in Loads : n \in Nat /\ n <= Max(Loads)
<1>1. \E n \in Loads : \A m \in Loads : n >= m
  <2>1. PICK n \in Loads : \A m \in Loads : m <= n
    BY BoundAssumption
  <2>2. Loads \subseteq Nat
    BY BoundAssumption
  <2> QED BY <2>1, <2>2
<1>2. Max(Loads) \in Loads /\ \A m \in Loads : Max(Loads) >= m
  BY <1>1 DEF Max
<1>3. Loads \subseteq Nat
  BY BoundAssumption
<1> QED BY <1>2, <1>3

\* A put counts no more operations than the bounds allow.
LEMMA PutCounts ==
    ASSUME TypeOK, NEW k, MayPut(k)
    PROVE  /\ count' \in [load: 0..Max(Loads), puts: 0..MaxPuts, ops: 0..MaxOps]
           /\ task = Rest /\ k \notin Stored
<1>1. count \in [load: 0..Max(Loads), puts: 0..MaxPuts, ops: 0..MaxOps]
  BY TypeParts
<1>2. Max(Loads) \in Nat /\ MaxPuts \in Nat /\ MaxOps \in Nat
  BY MostLoads, BoundAssumption
<1>3. task = Rest /\ k \notin Stored
  BY DEF MayPut
<1> DEFINE m == Max(Loads)
<1> HIDE DEF m
<1> DEFINE Counts == [load: 0..m, puts: 0..MaxPuts, ops: 0..MaxOps]
<1>4. ASSUME count.load < m, count' = [count EXCEPT !.load = @ + 1] PROVE count' \in Counts
  BY <1>1, <1>2, <1>4 DEF m
<1>5. ASSUME count.ops < MaxOps, count.puts < MaxPuts, count' = [count EXCEPT !.puts = @ + 1, !.ops = @ + 1]
      PROVE  count' \in Counts
  <2>1. count.load \in 0..m /\ count.puts \in 0..MaxPuts /\ count.ops \in 0..MaxOps
    BY <1>1 DEF m
  <2>2. count.puts + 1 \in 0..MaxPuts /\ count.ops + 1 \in 0..MaxOps
    BY <1>2, <1>5, <2>1
  <2>3. count' = [load |-> count.load, puts |-> count.puts + 1, ops |-> count.ops + 1]
    BY <1>1, <1>5
  <2> QED BY <2>1, <2>2, <2>3
<1> QED BY <1>3, <1>4, <1>5 DEF MayPut, MayOperate, m

\* The pages of a tree are right in number of children, and are nodes.
LEMMA TreeBranches ==
    ASSUME NEW pg, NEW rt, Shaped(TreeOf(pg, rt))
    PROVE  Branching(pg) /\ \A p \in Page : pg[p].kind \in {"none", "leaf", "internal"}
<1> DEFINE T == TreeOf(pg, rt)
<1>1. ASSUME NEW p \in Page
      PROVE  /\ pg[p].kind \in {"none", "leaf", "internal"}
             /\ pg[p].kind = "internal" => Len(pg[p].child) = Len(pg[p].keys) + 1
  <2>1. T[p] = pg[p] /\ p \in Place
    BY TreeFacts, Places
  <2>2. T[p].kind \in {"none", "leaf", "internal"}
    BY <2>1, NodeFields
  <2>3. T[p].kind = "internal" => Len(T[p].child) = Len(T[p].keys) + 1
    BY <2>1 DEF Shaped
  <2> HIDE DEF T
  <2> QED BY <2>1, <2>2, <2>3
<1> QED BY <1>1 DEF Branching

\* The list of free pages stays right where the same pages have a node.
LEMMA BooksSame ==
    ASSUME NEW pg, NEW pg2, NEW fr, NEW np, Books(pg, fr, np),
           \A p \in Page : pg2[p].kind = "none" <=> pg[p].kind = "none"
    PROVE  Books(pg2, fr, np)
BY DEF Books

\* A leaf with one key more that is split leaves a sound tree.
LEMMA PutSplits ==
    ASSUME NEW pg \in [Page -> Node], NEW rt \in Page, NEW lev, NEW lo,
           IsTree(TreeOf(pg, rt), lev, lo), Chain(TreeOf(pg, rt), lo, FALSE),
           NEW p \in Page, pg[p].kind = "leaf", NEW k \in Nat, Leads(TreeOf(pg, rt), lev, lo, p, k),
           NEW ks \in Seq(Key), Ascending(ks), ToSet(ks) = ToSet(pg[p].keys) \cup {k}, Len(ks) > 1,
           NEW new \in Page, pg[new].kind = "none",
           NEW pg2, LeafSplit(pg, pg2, p, ks, Len(ks) \div 2, new), PrevLeaf(pg, p, new, pg[p].prev),
           NEW short, short => lev[0] <= 2
    PROVE  /\ Sound(WithLink(TreeOf(pg2, rt), Head(pg2[p].keys), new, p), FALSE, short)
           /\ Head(pg2[p].keys) \in Key
           /\ NodeAdded(pg, pg2, new) /\ pg2 \in [Page -> Node] /\ Branching(pg2)
<1>0. \A q \in Page : TreeOf(pg, rt)[q] = pg[q]
  BY ONLY TreeFacts
<1> DEFINE T0 == TreeOf(pg, rt)
           pg1 == [pg EXCEPT ![p].keys = ks]
           T == TreeOf(pg1, rt)
           mid == Len(ks) \div 2
           key == ks[mid + 1]
<1>1. LeafGets(T0, T, p, ks)
  <2>1. KeysAt(pg, pg1, p, ks)
    BY DEF KeysAt
  <2> HIDE DEF pg1
  <2> QED BY <2>1, KeysPut
<1> HIDE DEF pg1
<1>2. T0[p] = pg[p] /\ T0[new] = pg[new] /\ p \in Place /\ new \in Place /\ p # new
  <2> HIDE DEF T0, T, mid, key
  <2>0. \A q \in Page : T0[q] = pg[q]
    BY <1>0 DEF T0
  <2>1. T0[p] = pg[p] /\ T0[new] = pg[new]
    BY <2>0
  <2>2. p \in Place /\ new \in Place
    BY Places
  <2>3. p # new
    OBVIOUS
  <2> QED BY <2>1, <2>2, <2>3
<1> HIDE DEF T
<1>3. Fits(T0, lo, p, ks)
  <2>1. T0[p].kind = "leaf" /\ ToSet(ks) = ToSet(T0[p].keys) \cup {k}
    BY <1>2
  <2>2. IsTree(T0, lev, lo) /\ Leads(T0, lev, lo, p, k)
    OBVIOUS
  <2> HIDE DEF T0
  <2> QED BY <2>1, <2>2, PutFits
<1>4. IsTree(T, lev, lo) /\ Chain(T, lo, FALSE)
  BY <1>1, <1>3, LeafGetsTree
<1>5. Len(ks) \in Nat /\ mid \in Nat /\ mid > 0 /\ mid + 1 \in 1..Len(ks) /\ mid <= Len(ks)
  <2>1. Len(ks) \in Nat
    BY SeqPlaces
  <2>2. mid \in Nat /\ mid > 0 /\ mid < Len(ks)
    BY <2>1, Middle
  <2> HIDE DEF mid
  <2> QED BY <2>1, <2>2
<1>6. T[p].kind = "leaf" /\ T[p].keys = ks /\ T[new].kind = "none" /\ Shaped(T0)
  <2>0. Shaped(T0)
    BY DEF IsTree
  <2>1. SameNodes(T0, T) /\ T[p].keys = ks
    BY <1>1, <2>0, LeafGetsFacts
  <2> HIDE DEF T0
  <2> QED BY <1>2, <2>0, <2>1 DEF SameNodes
<1> DEFINE U == WithLink(TreeOf(pg2, rt), key, new, p)
<1>7. LeafHalves(T, U, p, T[p].parent, ks, mid, new)
  <2>1. LeafSplit(pg, pg2, p, ks, mid, new)
    OBVIOUS
  <2> HIDE DEF mid
  <2> QED BY <1>1, <1>4, <1>5, <1>6, <2>1, SplitLeafNodes
<1>8. Sound(U, FALSE, short)
  <2> HIDE DEF U, mid, key, T0
  <2> QED BY <1>4, <1>5, <1>6, <1>7, LeafHalvesSound
<1>9. Head(pg2[p].keys) = key /\ key \in Key
  <2>1. pg2[p] = [pg[p] EXCEPT !.keys = SubSeq(ks, mid + 1, Len(ks)), !.prev = new]
    BY DEF LeafSplit
  <2>2. pg[p] \in Node
    OBVIOUS
  <2> DEFINE u == SubSeq(ks, mid + 1, Len(ks))
  <2>3. pg2[p].keys = u
    BY <2>1, <2>2 DEF Node
  <2> HIDE DEF mid
  <2>4. u \in Seq(Key) /\ Len(u) = Len(ks) - mid /\ \A i \in 1..Len(ks) - mid : u[i] = ks[mid + i]
    BY <1>5, UpperPart
  <2> HIDE DEF u
  <2>5. Head(u) = u[1] /\ u[1] = key
    BY <1>5, <2>4
  <2>6. key \in Key
    BY <1>5, SeqPlaces
  <2> QED BY <2>3, <2>5, <2>6
<1> DEFINE lower == SubSeq(ks, 1, mid)
           upper == SubSeq(ks, mid + 1, Len(ks))
<1>10. /\ pg2 \in [Page -> Node]
       /\ pg2[new] = Leaf(lower, pg[p].parent, pg[p].prev, p)
       /\ pg2[p] = [pg[p] EXCEPT !.keys = upper, !.prev = new]
       /\ \A q \in Page \ {new, p} :
             pg2[q] = IF q = pg[p].prev THEN [pg[q] EXCEPT !.next = new] ELSE pg[q]
  BY DEF LeafSplit
<1> HIDE DEF lower, upper, mid, key, T0, T, U
<1>11. pg2[new].kind = "leaf"
  BY <1>10 DEF Leaf
<1>12. pg2[p].kind = "leaf"
  <2>1. pg[p] \in Node
    OBVIOUS
  <2> QED BY <1>10, <2>1 DEF Node
<1>13. ASSUME NEW q \in Page \ {new, p}
       PROVE  /\ pg2[q].kind = pg[q].kind /\ pg2[q].child = pg[q].child
              /\ pg2[q].keys = pg[q].keys
  <2>1. CASE q = pg[p].prev
    <3>1. pg[q] \in Node
      OBVIOUS
    <3>2. pg2[q] = [pg[q] EXCEPT !.next = new]
      BY <1>10, <2>1
    <3> QED BY <3>1, <3>2, NextChanged
  <2>2. CASE q # pg[p].prev
    <3>1. pg2[q] = pg[q]
      BY <1>10, <2>2
    <3> QED BY <3>1
  <2> QED BY <2>1, <2>2
<1>14. NodeAdded(pg, pg2, new)
  <2>1. ASSUME NEW q \in Page \ {new} PROVE pg2[q].kind = pg[q].kind
    BY <1>12, <1>13
  <2> QED BY <1>11, <2>1 DEF NodeAdded
<1>15. Branching(pg2)
  <2>1. Branching(pg)
    BY <1>6, TreeBranches DEF T0
  <2>2. ASSUME NEW q \in Page, pg2[q].kind = "internal"
        PROVE  Len(pg2[q].child) = Len(pg2[q].keys) + 1
    <3>1. q \in Page \ {new, p}
      BY <1>11, <1>12, <2>2
    <3>2. pg[q].kind = "internal" /\ pg2[q].child = pg[q].child /\ pg2[q].keys = pg[q].keys
      BY <1>13, <2>2, <3>1
    <3> QED BY <2>1, <3>2 DEF Branching
  <2> QED BY <2>2 DEF Branching
<1> QED BY <1>8, <1>9, <1>10, <1>14, <1>15 DEF U

\* What a step has to lead to.
LEMMA Arrives ==
    ASSUME page' \in [Page -> Node], Branching(page'), root' \in Page, Books(page', free', nPage'),
           task' \in Task, phase' \in {"short", "tall", "shrunk"},
           count' \in [load: 0..Max(Loads), puts: 0..MaxPuts, ops: 0..MaxOps],
           Sound(Linked', phase' = "shrunk", phase' = "short"), TaskFits'
    PROVE  TypeOK' /\ Live'
<1>1. TypeOK'
  BY DEF TypeOK, Branching, Books, PageOrNone
<1>2. Live'
  BY DEF Live
<1> QED BY <1>1, <1>2

\* A tree without a link to be made.
LEMMA Unlinked == task.op # "link" => Linked = Pages
BY DEF Linked

\* That is so after a step.
LEMMA UnlinkedNext == task'.op # "link" => Linked' = TreeOf(page', root')
BY DEF Linked, Pages

\* And so is what a link leaves to be done.
LEMMA LinkedNext ==
    ASSUME NEW key, NEW left, NEW right, task' = Link(key, left, right)
    PROVE  Linked' = WithLink(TreeOf(page', root'), key, left, right) /\ task'.op = "link"
BY DEF Linked, Pages, Link

\* The number of pages is a number.
LEMMA PageBound == MaxPage \in Nat
BY BoundAssumption

\* A tree where a key may be put is at rest, and no page in it is named that is
\* not used any more.
LEMMA PutReady ==
    ASSUME TypeOK, Live, Ordinary, NEW k, MayPut(k)
    PROVE  /\ task = Rest /\ phase # "shrunk" /\ k \notin Stored
           /\ \E lev, lo : IsTree(Pages, lev, lo) /\ Chain(Pages, lo, FALSE) /\ (phase = "short" => lev[0] <= 2)
<1>1. task = Rest /\ k \notin Stored
  BY PutCounts
<1>2. phase # "shrunk"
  <2>1. phase = "shrunk" => count.ops # 0
    BY DEF Live, TaskFits
  <2>2. count.ops = 0 \/ Refill \/ phase # "shrunk"
    BY DEF MayPut
  <2>3. ~Refill
    BY DEF Ordinary
  <2> QED BY <2>1, <2>2, <2>3
<1>3. Linked = Pages
  BY <1>1, Unlinked DEF Rest
<1>4. Sound(Pages, phase = "shrunk", phase = "short")
  BY <1>3 DEF Live
<1>5. (phase = "shrunk") = FALSE
  BY <1>2
<1>6. Sound(Pages, FALSE, phase = "short")
  BY <1>4, <1>5
<1>7. \E lev, lo : IsTree(Pages, lev, lo) /\ Chain(Pages, lo, FALSE) /\ (phase = "short" => lev[0] <= 2)
  BY <1>6 DEF Sound
<1> QED BY <1>1, <1>2, <1>7

\* The leaf that a key is put into, and what keys it has then.
LEMMA PutPlace ==
    ASSUME TypeOK, NEW lev, NEW lo, IsTree(Pages, lev, lo), NEW k \in Key, k \notin Stored
    PROVE  /\ FindLeaf(k) \in Page /\ page[FindLeaf(k)].kind = "leaf"
           /\ Leads(Pages, lev, lo, FindLeaf(k), k)
           /\ OneMore(page[FindLeaf(k)].keys, k, PutIn(page[FindLeaf(k)].keys, k))
<1> DEFINE p == FindLeaf(k)
<1>1. k \in Nat
  BY KeyAssumption
<1>2. p \in Page /\ page[p].kind = "leaf" /\ Leads(Pages, lev, lo, p, k)
  BY <1>1, PageBound, SearchLeads
<1> HIDE DEF p
<1>3. page[p].keys \in Seq(Key) /\ Ascending(page[p].keys)
  <2>1. Pages[p] = page[p] /\ p \in Place
    BY <1>2, PagesFacts, Places
  <2>2. Shaped(Pages)
    BY DEF IsTree
  <2>3. Pages[p].keys \in Seq(Key)
    BY <2>1, <2>2, NodeFields
  <2>4. KeysInOrder(Pages, lo, p)
    BY <1>2, <2>1 DEF IsTree, Ordered
  <2> QED BY <2>1, <2>3, <2>4 DEF KeysInOrder
<1>4. k \notin ToSet(page[p].keys)
  BY <1>2 DEF Stored, LeafPages
<1>5. OneMore(page[p].keys, k, PutIn(page[p].keys, k))
  BY <1>3, <1>4, PutInFacts
<1> QED BY <1>2, <1>5 DEF p

\* A key is put into leaf p, which holds ks then, and has room for it.
PutPlain(p, ks) ==
    /\ KeysAt(page, page', p, ks)
    /\ UNCHANGED <<task, free, nPage, root, phase>>

\* A key is put into leaf p, and p is split.
PutParts(p, ks) ==
    /\ Len(ks) > 1
    /\ TakePage
    /\ page' = SplitLeaf(p, ks, NewPage)
    /\ task' = Link(Head(page'[p].keys), NewPage, p)
    /\ UNCHANGED <<root, phase>>

\* A leaf that uses too much has two keys or more.
LEMMA Crowded ==
    ASSUME Ordinary, NEW n, n.kind = "leaf", Len(n.keys) \in Nat, Used(n) > MaximumUsed
    PROVE  Len(n.keys) > 1
<1> DEFINE l == Len(n.keys)
<1>1. Used(n) = l * TupleSize
  BY DEF Used
<1>2. TupleSize \in Nat /\ MaximumUsed \in Nat /\ MinimumUsed = MaximumUsed \div 2 /\ TupleSize <= MinimumUsed
  BY SizeAssumption DEF MinimumUsed, Ordinary
<1>3. MinimumUsed \in Nat /\ MinimumUsed <= MaximumUsed
  BY <1>2
<1> HIDE DEF l
<1>4. l \in Nat /\ l * TupleSize > MaximumUsed
  BY <1>1 DEF l
<1>5. l # 0
  BY <1>2, <1>4
<1>6. l # 1
  BY <1>2, <1>3, <1>4
<1>7. l > 1
  BY <1>4, <1>5, <1>6
<1> QED BY <1>7 DEF l

\* What setBTree does is one of the two.
LEMMA PutCases ==
    ASSUME TypeOK, Ordinary, NEW k \in Key, SetBTree(k), NEW p, p = FindLeaf(k), p \in Page,
           page[p].kind = "leaf", NEW ks, ks = PutIn(page[p].keys, k), ks \in Seq(Key)
    PROVE  PutPlain(p, ks) \/ PutParts(p, ks)
<1> DEFINE n == [page[p] EXCEPT !.keys = ks]
<1>1. /\ \/ /\ Used(n) <= MaximumUsed
            /\ page' = [page EXCEPT ![p] = n]
            /\ UNCHANGED <<task, free, nPage>>
         \/ /\ Used(n) > MaximumUsed
            /\ TakePage
            /\ page' = SplitLeaf(p, ks, NewPage)
            /\ task' = Link(Head(page'[p].keys), NewPage, p)
      /\ UNCHANGED <<root, phase>>
  BY DEF SetBTree, PutIn
<1>2. page[p] \in Node
  BY TypeParts
<1>3. n.keys = ks /\ n.kind = "leaf"
  BY <1>2 DEF Node
<1>4. page' = [page EXCEPT ![p] = n] => KeysAt(page, page', p, ks)
  BY DEF KeysAt
<1> HIDE DEF n
<1>5. Len(ks) \in Nat
  BY SeqPlaces
<1>6. Used(n) > MaximumUsed => Len(ks) > 1
  BY <1>3, <1>5, Crowded
<1> QED BY <1>1, <1>4, <1>6 DEF PutPlain, PutParts

\* What has become of the leaf and the other pages then.
LEMMA PlainGets ==
    ASSUME NEW p \in Page, page[p].kind = "leaf", NEW ks \in Seq(Key), Ascending(ks),
           page \in [Page -> Node], root \in Page, KeysAt(page, page', p, ks)
    PROVE  /\ page' \in [Page -> Node] /\ page'[p].keys = ks /\ page'[p].kind = "leaf"
           /\ \A q \in Page \ {p} : page'[q] = page[q]
           /\ LeafGets(TreeOf(page, root), TreeOf(page', root), p, ks)
<1>1. LeafGets(TreeOf(page, root), TreeOf(page', root), p, ks)
  BY KeysPut
<1>2. page' \in [Page -> Node] /\ page'[p].keys = ks
  BY KeysPages
<1>3. page'[p].kind = "leaf"
  BY KeysPages
<1>4. \A q \in Page \ {p} : page'[q] = page[q]
  BY KeysPages
<1> QED BY <1>1, <1>2, <1>3, <1>4

\* What is stored then.
LEMMA PlainStored ==
    ASSUME NEW p \in Page, page[p].kind = "leaf", page'[p].kind = "leaf",
           \A q \in Page \ {p} : page'[q] = page[q], NEW k,
           ToSet(page'[p].keys) = ToSet(page[p].keys) \cup {k}
    PROVE  StoredIn(page') = StoredIn(page) \cup {k}
BY PutStored

\* The tree after a key has been put into a leaf that has room for it.
LEMMA PlainPut ==
    ASSUME TypeOK, Live, Ordinary, NEW k \in Key, MayPut(k), NEW lev, NEW lo, IsTree(Pages, lev, lo),
           Chain(Pages, lo, FALSE), phase = "short" => lev[0] <= 2, task = Rest, phase # "shrunk",
           NEW p \in Page, page[p].kind = "leaf", Leads(Pages, lev, lo, p, k),
           NEW ks, OneMore(page[p].keys, k, ks), PutPlain(p, ks)
    PROVE  TypeOK' /\ Live' /\ StoredIn(page') = StoredIn(page) \cup {k}
<1>1. ks \in Seq(Key) /\ Ascending(ks) /\ ToSet(ks) = ToSet(page[p].keys) \cup {k}
  BY DEF OneMore
<1>2. page \in [Page -> Node] /\ Branching(page) /\ KeysAt(page, page', p, ks) /\ root \in Page
  BY TypeParts DEF PutPlain, Live
<1>3. /\ page' \in [Page -> Node] /\ page'[p].keys = ks /\ page'[p].kind = "leaf"
      /\ \A q \in Page \ {p} : page'[q] = page[q]
      /\ LeafGets(TreeOf(page, root), TreeOf(page', root), p, ks)
  BY <1>1, <1>2, PlainGets
<1> DEFINE U == TreeOf(page', root)
<1>4. IsTree(U, lev, lo) /\ Chain(U, lo, FALSE)
  <2>1. LeafGets(Pages, U, p, ks)
    BY <1>3 DEF Pages
  <2>2. Pages[p] = page[p]
    BY PagesFacts
  <2> HIDE DEF U
  <2>3. k \in Nat
    BY KeyAssumption
  <2>4. Fits(Pages, lo, p, ks)
    BY <1>1, <2>2, <2>3, PutFits
  <2> QED BY <2>1, <2>4, LeafGetsTree
<1>5. Sound(U, FALSE, phase = "short")
  BY <1>4 DEF Sound
<1>6. StoredIn(page') = StoredIn(page) \cup {k}
  BY <1>1, <1>3, PlainStored
<1>7. task' = Rest /\ free' = free /\ nPage' = nPage /\ root' = root /\ phase' = phase
  BY DEF PutPlain
<1>8. \A q \in Page : page'[q].kind = page[q].kind
  BY <1>3
<1>9. Books(page', free', nPage')
  BY <1>7, <1>8, BooksSame DEF Live
<1>10. Branching(page')
  <2>1. \A q \in Page \ {p} : page'[q] = page[q]
    BY <1>3
  <2>2. page'[p].kind # "internal"
    BY <1>3
  <2> QED BY <1>2, <2>1, <2>2 DEF Branching
<1>11. count' \in [load: 0..Max(Loads), puts: 0..MaxPuts, ops: 0..MaxOps]
  BY PutCounts
<1>12. task'.op = "rest"
  BY <1>7 DEF Rest
<1>13. Linked' = U
  BY <1>7, <1>12, UnlinkedNext
<1>14. Sound(Linked', phase' = "shrunk", phase' = "short")
  <2>1. (phase' = "shrunk") = FALSE
    BY <1>7
  <2> QED BY <1>5, <1>7, <1>13, <2>1
<1>15. TaskFits'
  BY <1>7, <1>12 DEF TaskFits
<1>16. task' \in Task /\ phase' \in {"short", "tall", "shrunk"} /\ root' \in Page
  BY <1>2, <1>7, TypeParts DEF Task
<1> HIDE DEF U
<1> QED BY <1>3, <1>6, <1>9, <1>10, <1>11, <1>14, <1>15, <1>16, Arrives

\* The leaf in front of a leaf that is split.
LEMMA SplitPrev ==
    ASSUME NEW lev, NEW lo, IsTree(Pages, lev, lo), Chain(Pages, lo, FALSE),
           NEW p \in Page, page[p].kind = "leaf", NEW new \in Page, page[new].kind = "none"
    PROVE  PrevLeaf(page, p, new, page[p].prev)
<1> DEFINE q == page[p].prev
<1>1. Pages[p] = page[p] /\ p \in Place /\ IsLeaf(Pages, p)
  BY PagesFacts, Places DEF IsLeaf
<1>2. Follows(Pages, lo, p, Pages[p].next) /\ Precedes(Pages, lo, p, q, FALSE)
  BY <1>1 DEF Chain
<1> HIDE DEF q
<1>3. q = NoPage \/ (q \in Page /\ IsLeaf(Pages, q) /\ Pages[q].next = p)
  BY <1>2 DEF Precedes
<1>4. lo[p] \in Nat
  BY <1>1 DEF IsTree, Ordered
<1>5. Pages[p].next # p
  <2>1. p # NoPage
    BY DEF Page, NoPage
  <2>2. ~(lo[p] < lo[p])
    BY <1>4
  <2> QED BY <1>2, <2>1, <2>2 DEF Follows
<1>6. ASSUME q # NoPage PROVE q \in Page /\ q # p /\ q # new /\ page[q].kind = "leaf"
  <2>1. q \in Page /\ page[q].kind = "leaf"
    BY <1>3, <1>6, PagesFacts DEF IsLeaf
  <2>2. q # p
    BY <1>3, <1>5, <1>6
  <2> QED BY <2>1, <2>2
<1> QED BY <1>6 DEF PrevLeaf, q

\* What putting k into leaf p has led to where the pages are pg2.
PartsMade(T2, pg, pg2, p, new, short) ==
    /\ Sound(WithLink(T2, Head(pg2[p].keys), new, p), FALSE, short)
    /\ Head(pg2[p].keys) \in Key
    /\ NodeAdded(pg, pg2, new) /\ pg2 \in [Page -> Node] /\ Branching(pg2)

\* A leaf that is split with its new key makes the parts of a tree with a
\* link.
LEMMA PutSplitsMade ==
    ASSUME NEW pg \in [Page -> Node], NEW rt \in Page, NEW lev, NEW lo,
           IsTree(TreeOf(pg, rt), lev, lo), Chain(TreeOf(pg, rt), lo, FALSE),
           NEW p \in Page, pg[p].kind = "leaf", NEW k \in Nat, Leads(TreeOf(pg, rt), lev, lo, p, k),
           NEW ks, OneMore(pg[p].keys, k, ks), NEW mid, mid = Len(ks) \div 2, Len(ks) > 1,
           NEW new \in Page, pg[new].kind = "none",
           NEW pg2, LeafSplit(pg, pg2, p, ks, mid, new), PrevLeaf(pg, p, new, pg[p].prev),
           NEW short, short => lev[0] <= 2
    PROVE  /\ PartsMade(TreeOf(pg2, rt), pg, pg2, p, new, short)
           /\ Adds(StoredIn(pg2), StoredIn(pg), k)
<1>1. ks \in Seq(Key) /\ Ascending(ks) /\ ToSet(ks) = ToSet(pg[p].keys) \cup {k}
  BY DEF OneMore
<1>2. Len(ks) \in Nat
  BY <1>1, SeqPlaces
<1>3. mid \in Nat /\ mid <= Len(ks)
  BY <1>2
<1>4. LeafSplit(pg, pg2, p, ks, Len(ks) \div 2, new)
  OBVIOUS
<1>5. /\ Sound(WithLink(TreeOf(pg2, rt), Head(pg2[p].keys), new, p), FALSE, short)
      /\ Head(pg2[p].keys) \in Key
      /\ NodeAdded(pg, pg2, new) /\ pg2 \in [Page -> Node] /\ Branching(pg2)
  BY <1>1, <1>4, PutSplits
<1>6. Adds(StoredIn(pg2), StoredIn(pg), k)
  <2>1. mid \in 0..Len(ks)
    BY <1>2, <1>3
  <2>2. Adds(ToSet(ks), ToSet(pg[p].keys), k)
    BY <1>1 DEF Adds
  <2> QED BY <1>1, <2>1, <2>2, LeafSplitStored
<1> QED BY <1>5, <1>6 DEF PartsMade

\* setBTree makes that of the pages.
LEMMA PartsPages ==
    ASSUME page \in [Page -> Node], root \in Page, NEW lev, NEW lo, IsTree(Pages, lev, lo),
           Chain(Pages, lo, FALSE), NEW p \in Page, page[p].kind = "leaf", NEW k \in Nat,
           Leads(Pages, lev, lo, p, k), NEW ks, OneMore(page[p].keys, k, ks), Len(ks) > 1,
           NEW new \in Page, page[new].kind = "none", page' = SplitLeaf(p, ks, new),
           NEW short, short => lev[0] <= 2
    PROVE  /\ PartsMade(TreeOf(page', root), page, page', p, new, short)
           /\ Adds(StoredIn(page'), StoredIn(page), k)
<1>1. PrevLeaf(page, p, new, page[p].prev)
  BY SplitPrev
<1>2. ks \in Seq(Key)
  BY DEF OneMore
<1>3. p # new
  OBVIOUS
<1>4. LeafSplit(page, SplitLeaf(p, ks, new), p, ks, Len(ks) \div 2, new)
  BY <1>1, <1>2, <1>3, SplitLeafPages
<1>5. LeafSplit(page, page', p, ks, Len(ks) \div 2, new)
  BY <1>4
<1> DEFINE mid == Len(ks) \div 2
<1>6. LeafSplit(page, page', p, ks, mid, new) /\ mid = Len(ks) \div 2
  BY <1>5
<1> HIDE DEF mid
<1>7. IsTree(TreeOf(page, root), lev, lo) /\ Chain(TreeOf(page, root), lo, FALSE)
      /\ Leads(TreeOf(page, root), lev, lo, p, k)
  BY DEF Pages
<1> QED BY <1>1, <1>6, <1>7, PutSplitsMade

\* The tree after a key has been put into a leaf that is split.
LEMMA PartsPut ==
    ASSUME TypeOK, Live, Ordinary, NEW k \in Key, MayPut(k), NEW lev, NEW lo, IsTree(Pages, lev, lo),
           Chain(Pages, lo, FALSE), phase = "short" => lev[0] <= 2, task = Rest, phase # "shrunk",
           NEW p \in Page, page[p].kind = "leaf", Leads(Pages, lev, lo, p, k),
           NEW ks, OneMore(page[p].keys, k, ks), PutParts(p, ks)
    PROVE  TypeOK' /\ Live' /\ StoredIn(page') = StoredIn(page) \cup {k}
<1> DEFINE new == NewPage
           key == Head(page'[p].keys)
           short == phase = "short"
<1>1. page \in [Page -> Node] /\ root \in Page /\ Books(page, free, nPage)
  BY TypeParts DEF Live
<1>2. /\ Len(ks) > 1 /\ TakePage /\ page' = SplitLeaf(p, ks, new)
      /\ task' = Link(key, new, p) /\ root' = root /\ phase' = phase
  BY DEF PutParts
<1>3. /\ new \in Page /\ page[new].kind = "none"
      /\ \A pg : NodeAdded(page, pg, new) => Books(pg, free', nPage')
  BY <1>1, <1>2, PageBound, Taken
<1>4. short => lev[0] <= 2
  OBVIOUS
<1>5. k \in Nat
  BY KeyAssumption
<1> HIDE DEF new, short
<1>6. /\ PartsMade(TreeOf(page', root), page, page', p, new, short)
      /\ Adds(StoredIn(page'), StoredIn(page), k)
  BY <1>1, <1>2, <1>3, <1>4, <1>5, PartsPages
<1>7. /\ Sound(WithLink(TreeOf(page', root), key, new, p), FALSE, short)
      /\ key \in Key /\ NodeAdded(page, page', new) /\ page' \in [Page -> Node] /\ Branching(page')
  BY <1>6 DEF PartsMade
<1> HIDE DEF key
<1>8. Linked' = WithLink(TreeOf(page', root), key, new, p) /\ task'.op = "link"
  <2>1. Linked' = WithLink(TreeOf(page', root'), key, new, p) /\ task'.op = "link"
    BY <1>2, LinkedNext
  <2> QED BY <1>2, <2>1
<1>9. Sound(Linked', phase' = "shrunk", phase' = "short")
  <2>1. (phase' = "shrunk") = FALSE /\ (phase' = "short") = short
    BY <1>2 DEF short
  <2> QED BY <1>7, <1>8, <2>1
<1>10. Books(page', free', nPage')
  BY <1>3, <1>7
<1>11. task' \in Task
  BY <1>2, <1>3, <1>7 DEF Task, Link
<1>12. TaskFits'
  <2>1. phase' # "shrunk" /\ task'.op # "mend" /\ task'.left = new
    BY <1>2, <1>8 DEF Link
  <2>2. page'[new].kind # "none"
    BY <1>7 DEF NodeAdded
  <2> QED BY <2>1, <2>2 DEF TaskFits
<1>13. count' \in [load: 0..Max(Loads), puts: 0..MaxPuts, ops: 0..MaxOps]
  BY PutCounts
<1>14. phase' \in {"short", "tall", "shrunk"} /\ root' \in Page
  BY <1>1, <1>2, TypeParts
<1>15. TypeOK' /\ Live'
  BY <1>7, <1>9, <1>10, <1>11, <1>12, <1>13, <1>14, Arrives
<1> QED BY <1>6, <1>15 DEF Adds

\* setBTree puts its key into the tree.
LEMMA SetBTreeStep ==
    ASSUME TypeOK, Live, Ordinary, NEW k \in Key, SetBTree(k)
    PROVE  TypeOK' /\ Live' /\ k \notin StoredIn(page) /\ StoredIn(page') = StoredIn(page) \cup {k}
<1>1. MayPut(k)
  BY DEF SetBTree
<1>2. /\ task = Rest /\ phase # "shrunk" /\ k \notin Stored
      /\ \E lev, lo : IsTree(Pages, lev, lo) /\ Chain(Pages, lo, FALSE) /\ (phase = "short" => lev[0] <= 2)
  BY <1>1, PutReady
<1>3. PICK lev, lo : IsTree(Pages, lev, lo) /\ Chain(Pages, lo, FALSE) /\ (phase = "short" => lev[0] <= 2)
  BY <1>2
<1> DEFINE p == FindLeaf(k)
           ks == PutIn(page[p].keys, k)
<1>4. /\ p \in Page /\ page[p].kind = "leaf" /\ Leads(Pages, lev, lo, p, k)
      /\ OneMore(page[p].keys, k, ks)
  BY <1>2, <1>3, PutPlace
<1>5. ks \in Seq(Key)
  BY <1>4 DEF OneMore
<1>6. PutPlain(p, ks) \/ PutParts(p, ks)
  BY <1>4, <1>5, PutCases
<1> HIDE DEF p, ks
<1>7. CASE PutPlain(p, ks)
  <2>1. TypeOK' /\ Live' /\ StoredIn(page') = StoredIn(page) \cup {k}
    BY <1>1, <1>2, <1>3, <1>4, <1>7, PlainPut
  <2> QED BY <1>2, <2>1 DEF StoredIn, Stored, LeafPages
<1>8. CASE PutParts(p, ks)
  <2>1. TypeOK' /\ Live' /\ StoredIn(page') = StoredIn(page) \cup {k}
    BY <1>1, <1>2, <1>3, <1>4, <1>8, PartsPut
  <2> QED BY <1>2, <2>1 DEF StoredIn, Stored, LeafPages
<1> QED BY <1>6, <1>7, <1>8

-----------------------------------------------------------------------------
(* The first key *)

\* The only node of the pages pg is the leaf new with the only key k.
Single(pg, new, k) ==
    /\ new \in Page /\ k \in Key /\ pg \in [Page -> Node]
    /\ pg[new] = Leaf(<<k>>, NoPage, NoPage, NoPage)
    /\ \A q \in Page \ {new} : pg[q] = NoNode

\* Such pages are a tree of one leaf.
LEMMA SingleTree ==
    ASSUME NEW pg, NEW new, NEW k, Single(pg, new, k), NEW short
    PROVE  Sound(TreeOf(pg, new), FALSE, short)
<1> DEFINE T == TreeOf(pg, new)
           lev == [q \in Place |-> IF q = 0 THEN 1 ELSE 0]
           lo == [q \in Place |-> 0]
<1>1. /\ new \in Page /\ new \in Place /\ new # 0 /\ k \in Key /\ k \in Nat /\ pg \in [Page -> Node]
      /\ pg[new] = Leaf(<<k>>, NoPage, NoPage, NoPage)
      /\ \A q \in Page \ {new} : pg[q] = NoNode
  BY Places, KeyAssumption DEF Single
<1>2. T \in [Place -> Node] /\ T[0] = Internal(<<>>, <<new>>, NoPage) /\ \A q \in Page : T[q] = pg[q]
  BY <1>1, TreeFacts
<1>3. /\ T[new].kind = "leaf" /\ T[new].keys = <<k>> /\ T[new].child = <<>>
      /\ T[new].parent = NoPage /\ T[new].prev = NoPage /\ T[new].next = NoPage
  BY <1>1, <1>2 DEF Leaf
<1>4. T[0].kind = "internal" /\ T[0].keys = <<>> /\ T[0].child = <<new>>
  BY <1>2 DEF Internal
<1>5. \A q \in Place \ {0, new} : T[q] = NoNode /\ T[q].kind = "none"
  BY <1>1, <1>2, Places DEF NoNode
<1>6. lev \in [Place -> Nat] /\ lo \in [Place -> Nat] /\ lev[0] = 1 /\ lev[new] = 0
      /\ \A q \in Place : lo[q] = 0
  BY <1>1, Places
<1>7. /\ Len(<<>>) = 0 /\ Len(<<new>>) = 1 /\ <<new>>[1] = new /\ Len(<<k>>) = 1 /\ <<k>>[1] = k
  OBVIOUS
<1> HIDE DEF T, lev, lo
<1>8. Shaped(T)
  <2>1. \A p \in Place : p \in {0, new} \/ p \in Place \ {0, new}
    OBVIOUS
  <2>2. \A p \in Place : T[p].kind = "none" => T[p] = NoNode
    BY <1>3, <1>4, <1>5
  <2>3. \A p \in Place : T[p].kind = "leaf" => T[p].child = <<>>
    BY <1>3, <1>4, <1>5
  <2>4. ASSUME NEW p \in Place, T[p].kind = "internal" PROVE Len(T[p].child) = Len(T[p].keys) + 1
    <3>1. p = 0
      BY <1>3, <1>5, <2>4
    <3>2. Len(T[0].child) = 1 /\ Len(T[0].keys) = 0
      BY <1>4, <1>7
    <3> QED BY <3>1, <3>2
  <2> QED BY <1>2, <1>4, <2>2, <2>3, <2>4 DEF Shaped
<1>9. Family(T, lev)
  <2>1. ASSUME NEW p \in Place, T[p].kind = "internal", NEW i \in 1..Len(T[p].child)
        PROVE  Under(T, lev, p, T[p].child[i])
    <3>1. p = 0
      BY <1>3, <1>5, <2>1
    <3>2. i = 1 /\ T[0].child[1] = new
      <4>1. Len(T[0].child) = 1 /\ T[0].child[1] = new
        BY <1>4, <1>7
      <4>2. i \in 1..1
        BY <3>1, <4>1
      <4> QED BY <4>1, <4>2
    <3>3. lev[new] + 1 = lev[0]
      BY <1>6
    <3>4. Under(T, lev, 0, new)
      BY <1>3, <3>3 DEF Under, NoPage
    <3> QED BY <3>1, <3>2, <3>4
  <2>2. ASSUME NEW c \in Page, T[c].kind # "none" PROVE lev[c] < lev[0] /\ HasPlace(T, c)
    <3>1. c = new
      BY <1>5, <2>2, Places
    <3>2. lev[new] < lev[0]
      BY <1>6
    <3>3. T[new].parent = 0
      BY <1>3 DEF NoPage
    <3>4. 1 \in 1..Len(T[0].child) /\ T[0].child[1] = new
      BY <1>4, <1>7
    <3>5. HasPlace(T, new)
      BY <1>4, <3>3, <3>4 DEF HasPlace
    <3> QED BY <3>1, <3>2, <3>5
  <2>3. ASSUME NEW p \in Place, T[p].kind = "leaf" PROVE lev[p] = 0
    <3>1. p = new
      BY <1>4, <1>5, <2>3
    <3> QED BY <1>6, <3>1
  <2> QED BY <1>6, <2>1, <2>2, <2>3 DEF Family
<1>10. Ordered(T, lev, lo)
  <2>1. ASSUME NEW p \in Place, T[p].kind = "internal" PROVE Begins(T, lo, p)
    <3>1. p = 0 /\ Len(T[0].child) = 1 /\ T[0].child[1] = new
      BY <1>3, <1>4, <1>5, <1>7, <2>1
    <3>2. lo[new] = lo[0]
      BY <1>1, <1>6, Places
    <3>3. \A i \in 1..1 : i = 1
      OBVIOUS
    <3> QED BY <3>1, <3>2, <3>3 DEF Begins
  <2>2. ASSUME NEW p \in Place, T[p].kind # "none" PROVE KeysInOrder(T, lo, p)
    <3>1. CASE p = 0
      <4>1. Len(T[0].keys) = 0
        BY <1>4, <1>7
      <4> QED BY <3>1, <4>1 DEF KeysInOrder, Ascending
    <3>2. CASE p # 0
      <4>1. p = new
        BY <1>5, <2>2, <3>2
      <4>2. Len(T[new].keys) = 1 /\ T[new].keys[1] = k /\ T[new].kind # "internal"
        BY <1>3, <1>7
      <4>3. lo[new] <= k
        BY <1>1, <1>6
      <4>4. \A i \in 1..1 : i = 1
        OBVIOUS
      <4>5. Ascending(T[new].keys)
        BY <4>2 DEF Ascending
      <4> QED BY <4>1, <4>2, <4>3, <4>4, <4>5 DEF KeysInOrder
    <3> QED BY <3>1, <3>2
  <2>3. ASSUME NEW p \in Place, NEW q \in Place, T[p].kind # "none", T[q].kind # "none",
               lev[p] = lev[q]
        PROVE  Apart(T, lo, p, q)
    <3>1. p \in {0, new} /\ q \in {0, new}
      BY <1>5, <2>3
    <3>2. p = q
      BY <1>6, <2>3, <3>1
    <3>3. ~(lo[p] < lo[q])
      BY <1>6
    <3> QED BY <3>2, <3>3 DEF Apart
  <2> QED BY <1>6, <2>1, <2>2, <2>3, Places DEF Ordered
<1>11. Chain(T, lo, FALSE)
  <2>1. \A p, z \in Place : lo[p] <= lo[z]
    BY <1>6
  <2>2. ASSUME NEW p \in Place, IsLeaf(T, p)
        PROVE  Follows(T, lo, p, T[p].next) /\ Precedes(T, lo, p, T[p].prev, FALSE)
    <3>1. p = new
      BY <1>4, <1>5, <2>2 DEF IsLeaf
    <3> QED BY <1>3, <2>1, <3>1 DEF Follows, Precedes
  <2> QED BY <2>2 DEF Chain
<1>12. lev[0] <= 2
  BY <1>6
<1> QED BY <1>8, <1>9, <1>10, <1>11, <1>12 DEF Sound, IsTree, T

\* What single pages store.
LEMMA SingleStored ==
    ASSUME NEW pg, NEW new, NEW k, Single(pg, new, k)
    PROVE  StoredIn(pg) = {k}
<1>1. pg[new].kind = "leaf" /\ pg[new].keys = <<k>> /\ new \in Page
  BY DEF Single, Leaf
<1>2. \A q \in Page \ {new} : pg[q].kind # "leaf"
  BY DEF Single, NoNode
<1>3. ToSet(<<k>>) = {k}
  <2>1. DOMAIN <<k>> = 1..1 /\ <<k>>[1] = k
    OBVIOUS
  <2>2. \A i \in 1..1 : i = 1
    OBVIOUS
  <2> QED BY <2>1, <2>2 DEF ToSet
<1>4. {q \in Page : pg[q].kind = "leaf"} = {new}
  BY <1>1, <1>2
<1> QED BY <1>1, <1>3, <1>4 DEF StoredIn

\* What a vacant tree is.
LEMMA VacantFacts ==
    ASSUME Vacant
    PROVE  /\ page \in [Page -> Node] /\ \A q \in Page : page[q] = NoNode
           /\ StoredIn(page) = {} /\ Books(page, free, nPage)
<1>1. page = [p \in Page |-> NoNode] /\ free = <<>> /\ nPage = 1
  BY DEF Vacant
<1>2. NoNode \in Node
  BY DEF NoNode, Node, PageOrNone
<1>3. page \in [Page -> Node] /\ \A q \in Page : page[q] = NoNode
  BY <1>1, <1>2
<1>4. \A q \in Page : page[q].kind = "none"
  BY <1>3 DEF NoNode
<1>5. {q \in Page : page[q].kind = "leaf"} = {}
  BY <1>4
<1>6. StoredIn(page) = {}
  BY <1>5 DEF StoredIn
<1>7. Books(page, free, nPage)
  <2>1. MaxPage \in Nat
    BY PageBound
  <2>2. free \in Seq(Page) /\ Len(free) = 0
    BY <1>1
  <2>3. nPage \in 1..MaxPage + 1
    BY <1>1, <2>1
  <2>4. \A p \in Page : p >= nPage
    BY <1>1, <2>1 DEF Page
  <2>5. \A i \in 1..Len(free) : FALSE
    BY <2>2
  <2> QED BY <1>4, <2>2, <2>3, <2>4, <2>5 DEF Books
<1> QED BY <1>3, <1>6, <1>7

\* The first put makes a single page.
LEMMA FirstSingle ==
    ASSUME page \in [Page -> Node], \A q \in Page : page[q] = NoNode, NEW new \in Page, NEW k \in Key,
           page' = [page EXCEPT ![new] = Leaf(<<k>>, NoPage, NoPage, NoPage)]
    PROVE  Single(page', new, k)
<1> DEFINE l == Leaf(<<k>>, NoPage, NoPage, NoPage)
<1>1. l \in Node
  <2>1. <<k>> \in Seq(Key) /\ <<>> \in Seq(Page) /\ NoPage \in PageOrNone
    BY DEF PageOrNone
  <2> QED BY <2>1 DEF Leaf, Node
<1>2. page' = [page EXCEPT ![new] = l]
  OBVIOUS
<1> HIDE DEF l
<1>3. page' \in [Page -> Node] /\ page'[new] = l /\ \A q \in Page \ {new} : page'[q] = page[q]
  BY <1>1, <1>2
<1>4. \A q \in Page \ {new} : page'[q] = NoNode
  BY <1>3
<1> QED BY <1>3, <1>4 DEF Single, l

\* Single pages add one to none, and have no node above the leaves.
LEMMA SingleFacts ==
    ASSUME NEW pg, NEW pg2, \A q \in Page : pg[q] = NoNode, NEW new, NEW k, Single(pg2, new, k)
    PROVE  NodeAdded(pg, pg2, new) /\ Branching(pg2)
<1>1. pg2[new].kind = "leaf" /\ new \in Page
  BY DEF Single, Leaf
<1>2. \A q \in Page \ {new} : pg2[q] = NoNode
  BY DEF Single
<1>3. NodeAdded(pg, pg2, new)
  BY <1>1, <1>2 DEF NodeAdded
<1>4. \A q \in Page : pg2[q].kind # "internal"
  BY <1>1, <1>2 DEF NoNode
<1> QED BY <1>3, <1>4 DEF Branching

\* The first key is put into a tree of one leaf.
LEMMA FirstStep ==
    ASSUME TypeOK, Vacant, NEW k \in Key, SetBTreeFirst(k)
    PROVE  TypeOK' /\ Live' /\ k \notin StoredIn(page) /\ StoredIn(page') = StoredIn(page) \cup {k}
<1> DEFINE new == NewPage
<1>1. /\ MayPut(k) /\ TakePage /\ root' = new /\ task' = task /\ phase' = phase
      /\ page' = [page EXCEPT ![new] = Leaf(<<k>>, NoPage, NoPage, NoPage)]
  BY DEF SetBTreeFirst
<1>2. /\ page \in [Page -> Node] /\ \A q \in Page : page[q] = NoNode
      /\ StoredIn(page) = {} /\ Books(page, free, nPage)
  BY VacantFacts
<1>3. /\ new \in Page
      /\ \A pg : NodeAdded(page, pg, new) => Books(pg, free', nPage')
  BY <1>1, <1>2, PageBound, Taken
<1>4. phase = "short" /\ task = Rest
  BY DEF Vacant
<1> HIDE DEF new
<1>5. Single(page', new, k)
  BY <1>1, <1>2, <1>3, FirstSingle
<1>6. NodeAdded(page, page', new) /\ Branching(page')
  BY <1>2, <1>5, SingleFacts
<1>7. StoredIn(page') = {k}
  BY <1>5, SingleStored
<1>8. task' = Rest /\ task'.op = "rest" /\ task' \in Task
  BY <1>1, <1>4 DEF Rest, Task
<1>9. Sound(TreeOf(page', new), FALSE, phase' = "short")
  BY <1>5, SingleTree
<1>10. Sound(Linked', phase' = "shrunk", phase' = "short")
  <2>1. (phase' = "shrunk") = FALSE
    BY <1>1, <1>4
  <2>2. Linked' = TreeOf(page', new)
    BY <1>1, <1>8, UnlinkedNext
  <2> QED BY <1>9, <2>1, <2>2
<1>11. TaskFits' /\ phase' \in {"short", "tall", "shrunk"}
  BY <1>1, <1>4, <1>8 DEF TaskFits
<1>12. count' \in [load: 0..Max(Loads), puts: 0..MaxPuts, ops: 0..MaxOps]
  BY <1>1, PutCounts
<1>13. page' \in [Page -> Node]
  BY <1>5 DEF Single
<1>14. Books(page', free', nPage')
  BY <1>3, <1>6
<1>15. TypeOK' /\ Live'
  BY <1>1, <1>3, <1>6, <1>8, <1>10, <1>11, <1>12, <1>13, <1>14, Arrives
<1>16. k \notin StoredIn(page) /\ StoredIn(page') = StoredIn(page) \cup {k}
  BY <1>2, <1>7
<1> QED BY <1>15, <1>16

-----------------------------------------------------------------------------
(* The tree grows a level *)

\* The kind, keys, children and links of a node with another parent are the same.
LEMMA ParentChanged ==
    ASSUME NEW n \in Node, NEW q \in PageOrNone
    PROVE  LET m == [n EXCEPT !.parent = q] IN
           /\ m \in Node /\ m.kind = n.kind /\ m.keys = n.keys /\ m.child = n.child /\ m.parent = q
           /\ m.prev = n.prev /\ m.next = n.next
BY DEF Node

\* A sequence of one or two elements is known by them.
LEMMA OneTwo ==
    ASSUME NEW V, NEW s \in Seq(V)
    PROVE  /\ Len(s) = 1 => s = <<s[1]>>
           /\ Len(s) = 2 => s = <<s[1], s[2]>>
OBVIOUS

\* A node with one child and no key, where left and right take its place.
LEMMA FirstLink ==
    ASSUME NEW rt \in Page, NEW key \in Key, NEW left \in Page, NEW right \in Page
    PROVE  SetChild(Internal(<<>>, <<rt>>, NoPage), key, left, right)
             = Internal(<<key>>, <<left, right>>, NoPage)
<1> DEFINE n == Internal(<<>>, <<rt>>, NoPage)
           i == Count(n.keys, key)
           cs == [n.child EXCEPT ![i + 1] = left]
           ks == InsertAt(n.keys, i + 1, key)
           ds == InsertAt(cs, i + 2, right)
<1>1. n.keys = <<>> /\ n.child = <<rt>>
  BY DEF Internal
<1>2. SetChild(n, key, left, right) = [n EXCEPT !.keys = ks, !.child = ds]
  BY DEF SetChild
<1>3. i = 0
  <2>1. {h \in DOMAIN <<>> : <<>>[h] <= key} = {}
    OBVIOUS
  <2>2. Cardinality({}) = 0
    BY FS_EmptySet
  <2> QED BY <1>1, <2>1, <2>2 DEF Count
<1>4. ks = <<key>>
  <2> DEFINE s == <<>>
  <2>1. s \in Seq(Key) /\ Len(s) = 0
    OBVIOUS
  <2> HIDE DEF s
  <2> DEFINE x == 1
  <2>6. x \in Int /\ 1 <= x /\ x <= Len(s) + 1
    BY <2>1
  <2> HIDE DEF x
  <2>7. Inserted(Key, s, x, key, InsertAt(s, x, key))
    BY <2>1, <2>6, InsertAtFacts
  <2>2. Inserted(Key, s, 1, key, InsertAt(s, 1, key))
    BY <2>7 DEF x
  <2> DEFINE u == InsertAt(s, 1, key)
  <2> HIDE DEF u
  <2>3. u \in Seq(Key) /\ Len(u) = 1 /\ u[1] = key
    BY <2>1, <2>2 DEF Inserted, u
  <2>4. u = <<u[1]>>
    BY <2>3, OneTwo
  <2>5. u = <<key>>
    BY <2>3, <2>4
  <2> QED BY <1>1, <1>3, <2>5 DEF s, u
<1>5. ds = <<left, right>>
  <2> DEFINE s == <<left>>
  <2>1. s \in Seq(Page) /\ Len(s) = 1 /\ s[1] = left
    OBVIOUS
  <2>2. [<<rt>> EXCEPT ![1] = left] = s
    OBVIOUS
  <2> HIDE DEF s
  <2>3. Inserted(Page, s, 2, right, InsertAt(s, 2, right))
    BY <2>1, InsertAtFacts
  <2> DEFINE u == InsertAt(s, 2, right)
  <2> HIDE DEF u
  <2>4. u \in Seq(Page) /\ Len(u) = 2 /\ u[1] = left /\ u[2] = right
    BY <2>1, <2>3 DEF Inserted, u
  <2>5. u = <<u[1], u[2]>>
    BY <2>4, OneTwo
  <2>6. u = <<left, right>>
    BY <2>4, <2>5
  <2>7. cs = s
    BY <1>1, <1>3, <2>2
  <2>8. i + 2 = 2
    BY <1>3
  <2> QED BY <2>6, <2>7, <2>8 DEF u
<1> HIDE DEF ks, ds
<1> QED BY <1>2, <1>4, <1>5 DEF Internal

\* The node 0 with a link to be made to it.
LEMMA RootLinked ==
    ASSUME NEW pg \in [Page -> Node], NEW rt \in Page, NEW key \in Key, NEW left \in Page, NEW right \in Page,
           pg[left].parent = NoPage
    PROVE  /\ WithLink(TreeOf(pg, rt), key, left, right)[0] = Internal(<<key>>, <<left, right>>, NoPage)
           /\ \A q \in Page : WithLink(TreeOf(pg, rt), key, left, right)[q] = pg[q]
<1> DEFINE T == TreeOf(pg, rt)
           U == WithLink(T, key, left, right)
<1>1. T \in [Place -> Node] /\ T[0] = Internal(<<>>, <<rt>>, NoPage) /\ \A q \in Page : T[q] = pg[q]
  BY TreeFacts
<1> HIDE DEF T
<1>2. T[left].parent = 0
  BY <1>1 DEF NoPage
<1>3. U = [T EXCEPT ![0] = SetChild(T[0], key, left, right)]
  BY <1>2 DEF WithLink
<1> HIDE DEF U
<1>4. U[0] = SetChild(T[0], key, left, right) /\ \A q \in Place \ {0} : U[q] = T[q]
  BY <1>1, <1>3, Places
<1>5. SetChild(T[0], key, left, right) = Internal(<<key>>, <<left, right>>, NoPage)
  BY <1>1, FirstLink
<1>6. \A q \in Page : U[q] = pg[q]
  BY <1>1, <1>4, Places
<1> QED BY <1>4, <1>5, <1>6 DEF U, T

\* new becomes the parent of left and right, with the key between them.
RootAdded(pg, pg2, new, key, left, right) ==
    /\ pg2 \in [Page -> Node]
    /\ pg2[new] = Internal(<<key>>, <<left, right>>, NoPage)
    /\ \A q \in Page \ {new} :
          pg2[q] = IF q \in {left, right} THEN [pg[q] EXCEPT !.parent = new] ELSE pg[q]

\* The children of 0, where it is linked to two.
LEMMA RootPair ==
    ASSUME NEW T, NEW lev, NEW lo, IsTree(T, lev, lo), NEW key, NEW left \in Page, NEW right \in Page,
           T[0] = Internal(<<key>>, <<left, right>>, NoPage)
    PROVE  /\ T[left].kind # "none" /\ T[right].kind # "none" /\ lev[left] + 1 = lev[0]
           /\ \A z \in Page : T[z].kind # "none" => (T[z].parent = 0 <=> z \in {left, right})
<1>1. T[0].kind = "internal" /\ T[0].child = <<left, right>> /\ 0 \in Place
  BY Places DEF Internal
<1>2. Len(T[0].child) = 2 /\ T[0].child[1] = left /\ T[0].child[2] = right
  <2>1. Len(<<left, right>>) = 2 /\ <<left, right>>[1] = left /\ <<left, right>>[2] = right
    OBVIOUS
  <2> QED BY <1>1, <2>1
<1>3. \A i \in 1..Len(T[0].child) : Under(T, lev, 0, T[0].child[i])
  BY <1>1 DEF IsTree, Family
<1>4. Under(T, lev, 0, left) /\ Under(T, lev, 0, right)
  <2>1. 1 \in 1..Len(T[0].child) /\ 2 \in 1..Len(T[0].child)
    BY <1>2
  <2>2. Under(T, lev, 0, T[0].child[1]) /\ Under(T, lev, 0, T[0].child[2])
    BY <1>3, <2>1
  <2> QED BY <1>2, <2>2
<1>5. ASSUME NEW z \in Page, T[z].kind # "none", T[z].parent = 0 PROVE z \in {left, right}
  <2>1. HasPlace(T, z)
    BY <1>5 DEF IsTree, Family
  <2>2. PICK i \in 1..Len(T[0].child) : T[0].child[i] = z
    BY <1>5, <2>1 DEF HasPlace
  <2>3. i \in {1, 2}
    <3>1. i \in 1..2
      BY <1>2
    <3> QED BY <3>1
  <2> QED BY <1>1, <1>2, <2>2, <2>3
<1> QED BY <1>4, <1>5 DEF Under

\* The pages after that.
LEMMA RootAddedFacts ==
    ASSUME NEW pg \in [Page -> Node], NEW new \in Page, NEW key, NEW left \in Page, NEW right \in Page,
           NEW pg2, RootAdded(pg, pg2, new, key, left, right), NEW z \in Page, z # new
    PROVE  /\ pg2[z].kind = pg[z].kind /\ pg2[z].keys = pg[z].keys /\ pg2[z].child = pg[z].child
           /\ pg2[z].prev = pg[z].prev /\ pg2[z].next = pg[z].next
           /\ pg2[z].parent = IF z \in {left, right} THEN new ELSE pg[z].parent
           /\ z \notin {left, right} => pg2[z] = pg[z]
<1>1. pg[z] \in Node /\ new \in PageOrNone
  BY DEF PageOrNone
<1>2. pg2[z] = IF z \in {left, right} THEN [pg[z] EXCEPT !.parent = new] ELSE pg[z]
  BY DEF RootAdded
<1>3. CASE z \in {left, right}
  <2>1. pg2[z] = [pg[z] EXCEPT !.parent = new]
    BY <1>2, <1>3
  <2> QED BY <1>1, <1>3, <2>1, ParentChanged
<1>4. CASE z \notin {left, right}
  BY <1>2, <1>4
<1> QED BY <1>3, <1>4

\* The linked tree grows.
LEMMA RootGrows ==
    ASSUME NEW pg \in [Page -> Node], NEW key \in Key, NEW left \in Page, NEW right \in Page,
           NEW T, NEW lev, NEW lo, IsTree(T, lev, lo), T[0] = Internal(<<key>>, <<left, right>>, NoPage),
           \A q \in Page : T[q] = pg[q], NEW new \in Page, pg[new].kind = "none",
           NEW pg2, RootAdded(pg, pg2, new, key, left, right)
    PROVE  Grows(T, TreeOf(pg2, new), new)
<1> DEFINE U == TreeOf(pg2, new)
<1>1. /\ pg2 \in [Page -> Node]
      /\ pg2[new] = Internal(<<key>>, <<left, right>>, NoPage)
  BY DEF RootAdded
<1>2. U \in [Place -> Node] /\ U[0] = Internal(<<>>, <<new>>, NoPage) /\ \A q \in Page : U[q] = pg2[q]
  BY <1>1, TreeFacts
<1> HIDE DEF U
<1>3. U[new] = Internal(T[0].keys, T[0].child, NoPage)
  BY <1>1, <1>2 DEF Internal
<1>4. ASSUME NEW z \in Place \ {0, new}
      PROVE  /\ U[z].kind = T[z].kind /\ (T[z].kind = "none" => U[z] = T[z])
             /\ U[z].keys = T[z].keys /\ U[z].child = T[z].child
             /\ T[z].kind # "none" => U[z].parent = IF T[z].parent = 0 THEN new ELSE T[z].parent
  <2>1. z \in Page /\ z # new /\ U[z] = pg2[z] /\ T[z] = pg[z]
    BY <1>2, Places
  <2>2. /\ T[left].kind # "none" /\ T[right].kind # "none"
        /\ T[z].kind # "none" => (T[z].parent = 0 <=> z \in {left, right})
    BY <2>1, RootPair
  <2>3. /\ pg2[z].kind = pg[z].kind /\ pg2[z].keys = pg[z].keys /\ pg2[z].child = pg[z].child
        /\ pg2[z].parent = IF z \in {left, right} THEN new ELSE pg[z].parent
    BY <2>1, RootAddedFacts
  <2>4. z \notin {left, right} => pg2[z] = pg[z]
    <3>1. pg2[z] = IF z \in {left, right} THEN [pg[z] EXCEPT !.parent = new] ELSE pg[z]
      BY <2>1 DEF RootAdded
    <3> QED BY <3>1
  <2> QED BY <2>1, <2>2, <2>3, <2>4
<1> QED BY <1>2, <1>3, <1>4 DEF Grows, U

\* So what it becomes is sound.
LEMMA RootGrowsSound ==
    ASSUME NEW pg \in [Page -> Node], NEW key \in Key, NEW left \in Page, NEW right \in Page,
           NEW T, NEW lev, NEW lo, IsTree(T, lev, lo), Chain(T, lo, FALSE),
           T[0] = Internal(<<key>>, <<left, right>>, NoPage),
           \A q \in Page : T[q] = pg[q], NEW new \in Page, pg[new].kind = "none",
           NEW pg2, RootAdded(pg, pg2, new, key, left, right),
           NEW short, short => pg[left].kind # "internal"
    PROVE  Sound(TreeOf(pg2, new), FALSE, short)
<1> DEFINE U == TreeOf(pg2, new)
           W == GrownLo(lo, new)
           L == GrownLev(lev, new)
<1>1. Grows(T, U, new)
  BY RootGrows
<1>2. T[new].kind = "none" /\ pg2 \in [Page -> Node] /\ pg2[new].kind = "internal" /\ T[0].kind = "internal"
  BY DEF RootAdded, Internal
<1>3. U \in [Place -> Node] /\ U[0].kind = "internal" /\ \A q \in Page : U[q] = pg2[q]
  <2>1. U \in [Place -> Node]
    BY <1>2, TreeFacts
  <2>2. U[0].kind = "internal"
    BY TreeFacts
  <2>3. \A q \in Page : U[q] = pg2[q]
    BY TreeFacts
  <2> QED BY <2>1, <2>2, <2>3
<1> HIDE DEF U
<1>4. IsTree(U, L, W)
  BY <1>1, <1>2, GrowTree
<1>5. lo \in [Place -> Nat] /\ lev \in [Place -> Nat]
  BY DEF IsTree, Family, Ordered
<1>6. W \in [Place -> Nat] /\ \A z \in Place \ {new} : W[z] = lo[z]
  BY <1>5 DEF GrownLo
<1> HIDE DEF W
<1>7. Chain(U, W, FALSE)
  <2>1. ASSUME NEW z \in Place
        PROVE  /\ IsLeaf(U, z) <=> IsLeaf(T, z)
               /\ IsLeaf(T, z) => z # new /\ U[z].next = T[z].next /\ U[z].prev = T[z].prev
    <3>1. CASE z = 0
      BY <1>2, <1>3, <3>1 DEF IsLeaf
    <3>2. CASE z = new
      BY <1>2, <1>3, <3>2 DEF IsLeaf
    <3>3. CASE z # 0 /\ z # new
      <4>1. z \in Page /\ U[z] = pg2[z] /\ T[z] = pg[z]
        BY <1>3, <3>3, Places
      <4>2. pg2[z].kind = pg[z].kind /\ pg2[z].prev = pg[z].prev /\ pg2[z].next = pg[z].next
        BY <3>3, <4>1, RootAddedFacts
      <4> QED BY <3>3, <4>1, <4>2 DEF IsLeaf
    <3> QED BY <3>1, <3>2, <3>3
  <2>2. \A q, r \in Place : IsLeaf(T, q) /\ IsLeaf(T, r) => (W[q] < W[r] <=> lo[q] < lo[r])
    BY <1>6, <2>1
  <2>3. SameChain(T, U, lo, W, FALSE)
    BY <2>1, <2>2 DEF SameChain
  <2> QED BY <1>5, <1>6, <2>3, ChainKept
<1>8. short => L[0] <= 2
  <2>1. ASSUME short PROVE L[0] <= 2
    <3>1. T[left].kind # "none" /\ lev[left] + 1 = lev[0]
      BY RootPair
    <3>2. T[left].kind = "leaf"
      <4>1. T[left] \in Node
        BY Places DEF IsTree, Shaped
      <4>2. T[left].kind # "internal"
        BY <2>1
      <4> QED BY <3>1, <4>1, <4>2 DEF Node
    <3>3. lev[left] = 0
      BY <3>2, Places DEF IsTree, Family
    <3>4. L[0] = lev[0] + 1
      BY <1>5, Places DEF GrownLev
    <3> HIDE DEF L
    <3>5. lev[0] = 1
      BY <3>1, <3>3
    <3> QED BY <3>4, <3>5
  <2> QED BY <2>1
<1> HIDE DEF L
<1> QED BY <1>4, <1>7, <1>8 DEF Sound, U

\* Pages whose leaves hold the same keys store the same.
LEMMA SameStored ==
    ASSUME NEW pg, NEW pg2, \A q \in Page : pg2[q].kind = "leaf" <=> pg[q].kind = "leaf",
           \A q \in Page : pg[q].kind = "leaf" => pg2[q].keys = pg[q].keys
    PROVE  StoredIn(pg2) = StoredIn(pg)
<1>1. ASSUME NEW v PROVE v \in StoredIn(pg2) <=> v \in StoredIn(pg)
  BY StoredWhere
<1> QED BY <1>1

\* A link that is still to be made.
LinkTask(key, left, right) ==
    /\ task = Link(key, left, right) /\ key \in Key /\ left \in Page /\ right \in Page
    /\ page[left].kind # "none"

\* A tree where a link is to be made: with it, it is one, and no page is named
\* that is not used any more.
LEMMA LinkReady ==
    ASSUME TypeOK, Live, task.op = "link"
    PROVE  /\ phase # "shrunk" /\ LinkTask(task.key, task.left, task.right)
           /\ \E lev, lo : /\ IsTree(WithLink(Pages, task.key, task.left, task.right), lev, lo)
                           /\ Chain(WithLink(Pages, task.key, task.left, task.right), lo, FALSE)
                           /\ phase = "short" => lev[0] <= 2
<1>1. phase # "shrunk"
  BY DEF Live, TaskFits
<1>2. LinkTask(task.key, task.left, task.right)
  <2>1. task \in Task
    BY TypeParts
  <2>2. Rest.op # "link" /\ Failed.op # "link"
    BY DEF Rest, Failed
  <2>3. task \notin [op: {"mend"}, key: Key, node: Page]
    OBVIOUS
  <2>4. task \in [op: {"link"}, key: Key, left: Page, right: Page]
    BY <2>1, <2>2, <2>3 DEF Task
  <2>5. page[task.left].kind # "none"
    BY DEF Live, TaskFits
  <2> QED BY <2>4, <2>5 DEF LinkTask, Link
<1>3. Linked = WithLink(Pages, task.key, task.left, task.right)
  BY DEF Linked
<1>4. Sound(Linked, phase = "shrunk", phase = "short") /\ (phase = "shrunk") = FALSE
  BY <1>1 DEF Live
<1>5. Sound(WithLink(Pages, task.key, task.left, task.right), FALSE, phase = "short")
  BY <1>3, <1>4
<1> QED BY <1>1, <1>2, <1>5 DEF Sound

\* The pages of LinkRoot.
LEMMA RootAddedPages ==
    ASSUME page \in [Page -> Node], NEW new \in Page, NEW key \in Key,
           NEW left \in Page, NEW right \in Page,
           page' = [Adopted(page, {left, right}, new) EXCEPT
                       ![new] = Internal(<<key>>, <<left, right>>, NoPage)]
    PROVE  RootAdded(page, page', new, key, left, right)
<1> DEFINE ad == Adopted(page, {left, right}, new)
           nn == Internal(<<key>>, <<left, right>>, NoPage)
<1>1. nn \in Node
  <2>1. <<key>> \in Seq(Key) /\ <<left, right>> \in Seq(Page) /\ NoPage \in PageOrNone
    BY DEF PageOrNone
  <2> QED BY <2>1 DEF Internal, Node
<1>2. ad = [q \in Page |-> IF q \in {left, right} THEN [page[q] EXCEPT !.parent = new] ELSE page[q]]
  BY DEF Adopted
<1>3. ASSUME NEW q \in Page PROVE ad[q] \in Node
  <2>1. page[q] \in Node /\ new \in PageOrNone
    BY DEF PageOrNone
  <2>2. [page[q] EXCEPT !.parent = new] \in Node
    BY <2>1, ParentChanged
  <2> QED BY <1>2, <2>1, <2>2
<1>4. ad \in [Page -> Node]
  BY <1>2, <1>3
<1>5. \A q \in Page : ad[q] = IF q \in {left, right} THEN [page[q] EXCEPT !.parent = new] ELSE page[q]
  BY <1>2
<1>6. page' = [ad EXCEPT ![new] = nn]
  OBVIOUS
<1> HIDE DEF ad, nn
<1>7. page' \in [Page -> Node] /\ page'[new] = nn /\ \A q \in Page \ {new} : page'[q] = ad[q]
  BY <1>1, <1>4, <1>6
<1> QED BY <1>5, <1>7 DEF RootAdded, nn

\* The tree grows a level.
LEMMA LinkRootStep ==
    ASSUME TypeOK, Live, LinkRoot
    PROVE  TypeOK' /\ Live' /\ StoredIn(page') = StoredIn(page)
<1> DEFINE key == task.key
           left == task.left
           right == task.right
           new == NewPage
           short == phase' = "short"
           T == WithLink(TreeOf(page, root), key, left, right)
<1>1. /\ task.op = "link" /\ page[left].parent = NoPage /\ TakePage
      /\ page' = [Adopted(page, {left, right}, new) EXCEPT
                     ![new] = Internal(<<key>>, <<left, right>>, NoPage)]
      /\ root' = new /\ task' = Rest /\ count' = count
      /\ phase' = IF phase = "short" /\ page[left].kind = "internal" THEN "tall" ELSE phase
  BY DEF LinkRoot
<1>2. phase # "shrunk" /\ LinkTask(key, left, right)
  BY <1>1, LinkReady
<1>3. PICK lev, lo : IsTree(T, lev, lo) /\ Chain(T, lo, FALSE)
  BY <1>1, LinkReady DEF Pages
<1>4. page \in [Page -> Node] /\ root \in Page /\ Books(page, free, nPage)
  BY TypeParts DEF Live
<1>5. /\ new \in Page /\ page[new].kind = "none"
      /\ \A pg : NodeAdded(page, pg, new) => Books(pg, free', nPage')
  BY <1>1, <1>4, PageBound, Taken
<1>6. phase' \in {"short", "tall", "shrunk"} /\ phase' # "shrunk"
  BY <1>1, <1>2, TypeParts
<1>7. short => page[left].kind # "internal"
  BY <1>1
<1>8. key \in Key /\ left \in Page /\ right \in Page
  BY <1>2 DEF LinkTask
<1>9. T[0] = Internal(<<key>>, <<left, right>>, NoPage) /\ \A q \in Page : T[q] = page[q]
  <2> HIDE DEF key, left, right
  <2> QED BY <1>1, <1>4, <1>8, RootLinked
<1> HIDE DEF T, new, short, key, left, right
<1>10. RootAdded(page, page', new, key, left, right)
  BY <1>1, <1>4, <1>5, <1>8, RootAddedPages
<1>11. Sound(TreeOf(page', new), FALSE, short)
  BY <1>3, <1>4, <1>5, <1>7, <1>8, <1>9, <1>10, RootGrowsSound
<1>12. /\ \A q \in Page \ {new} : page'[q].kind = page[q].kind /\ page'[q].keys = page[q].keys
       /\ page'[new].kind = "internal" /\ page' \in [Page -> Node]
  <2>1. \A q \in Page \ {new} : page'[q].kind = page[q].kind /\ page'[q].keys = page[q].keys
    BY <1>4, <1>5, <1>8, <1>10, RootAddedFacts
  <2> QED BY <1>10, <2>1 DEF RootAdded, Internal
<1>13. StoredIn(page') = StoredIn(page)
  <2>1. \A q \in Page : page'[q].kind = "leaf" <=> page[q].kind = "leaf"
    BY <1>5, <1>12
  <2>2. \A q \in Page : page[q].kind = "leaf" => page'[q].keys = page[q].keys
    BY <1>5, <1>12
  <2> QED BY <2>1, <2>2, SameStored
<1>14. Books(page', free', nPage')
  <2>1. NodeAdded(page, page', new)
    BY <1>12 DEF NodeAdded
  <2> QED BY <1>5, <2>1
<1>15. Sound(Linked', phase' = "shrunk", phase' = "short") /\ task' \in Task /\ TaskFits'
  <2>1. task'.op = "rest" /\ task' \in Task
    BY <1>1 DEF Rest, Task
  <2>2. Linked' = TreeOf(page', new)
    BY <1>1, <2>1, UnlinkedNext
  <2>3. (phase' = "shrunk") = FALSE /\ (phase' = "short") = short
    BY <1>6 DEF short
  <2>4. TaskFits'
    BY <1>6, <2>1 DEF TaskFits
  <2> QED BY <1>11, <2>1, <2>2, <2>3, <2>4
<1>16. Branching(page')
  <2>1. Shaped(TreeOf(page', new))
    BY <1>11 DEF Sound, IsTree
  <2> QED BY <2>1, TreeBranches
<1>17. count' \in [load: 0..Max(Loads), puts: 0..MaxPuts, ops: 0..MaxOps]
  BY <1>1, TypeParts
<1> QED BY <1>1, <1>5, <1>6, <1>12, <1>13, <1>14, <1>15, <1>16, <1>17, Arrives

-----------------------------------------------------------------------------
(* A link below the root *)

\* n is node r of the pages pg with left and right linked to it.
ChildLink(pg, rt, T, r, n, key, left, right) ==
    /\ pg \in [Page -> Node] /\ rt \in Page /\ r \in Page /\ left \in Page
    /\ pg[left].parent = r /\ pg[left].kind # "none"
    /\ T = WithLink(TreeOf(pg, rt), key, left, right)
    /\ n = SetChild(pg[r], key, left, right)

\* The tree with the link is that of the pages, with n at r.
LEMMA ChildLinked ==
    ASSUME NEW pg, NEW rt, NEW T, NEW r, NEW n, NEW key, NEW left, NEW right,
           ChildLink(pg, rt, T, r, n, key, left, right), NEW lev, NEW lo, IsTree(T, lev, lo)
    PROVE  /\ T[r] = n /\ \A q \in Place \ {r} : T[q] = TreeOf(pg, rt)[q]
           /\ n \in Node /\ n.kind = "internal" /\ pg[r].kind = "internal"
           /\ n.parent = pg[r].parent /\ n.prev = pg[r].prev /\ n.next = pg[r].next
<1> DEFINE T0 == TreeOf(pg, rt)
<1>1. /\ pg \in [Page -> Node] /\ rt \in Page /\ r \in Page /\ left \in Page
      /\ pg[left].parent = r /\ pg[left].kind # "none"
      /\ T = WithLink(T0, key, left, right)
      /\ n = SetChild(pg[r], key, left, right)
  BY DEF ChildLink
<1>2. T0 \in [Place -> Node] /\ \A q \in Page : T0[q] = pg[q]
  BY <1>1, TreeFacts
<1> HIDE DEF T0
<1>3. T0[left].parent = r /\ T0[r] = pg[r] /\ r \in Place /\ left \in Place
  BY <1>1, <1>2, Places
<1>4. T = [T0 EXCEPT ![r] = n]
  BY <1>1, <1>3 DEF WithLink
<1>5. T[r] = n /\ \A q \in Place \ {r} : T[q] = T0[q]
  BY <1>2, <1>3, <1>4
<1>6. /\ n.kind = pg[r].kind /\ n.parent = pg[r].parent /\ n.prev = pg[r].prev /\ n.next = pg[r].next
  <2>1. pg[r] \in Node
    BY <1>1
  <2> QED BY <1>1, <2>1, ChildSetLinks
<1>7. T[left].kind # "none" /\ T[left].parent = r
  BY <1>1, <1>2, <1>3, <1>5, <1>6
<1>8. T[r].kind = "internal"
  BY <1>1, <1>7, ChildPlace
<1>9. n \in Node
  BY <1>3, <1>5 DEF IsTree, Shaped
<1> QED BY <1>5, <1>6, <1>8, <1>9 DEF T0

\* Page r gets node n.
NodeAt(pg, pg2, r, n) == pg2 = [pg EXCEPT ![r] = n]

\* Where the node has room for the link, those are the pages.
LEMMA ChildPlain ==
    ASSUME NEW pg, NEW rt, NEW T, NEW r, NEW n, NEW key, NEW left, NEW right,
           ChildLink(pg, rt, T, r, n, key, left, right), NEW lev, NEW lo, IsTree(T, lev, lo),
           NEW pg2, NodeAt(pg, pg2, r, n)
    PROVE  /\ TreeOf(pg2, rt) = T /\ pg2 \in [Page -> Node]
           /\ \A q \in Page : pg2[q].kind = pg[q].kind /\ (pg[q].kind = "leaf" => pg2[q].keys = pg[q].keys)
<1> DEFINE U == TreeOf(pg2, rt)
           T0 == TreeOf(pg, rt)
<1>1. pg \in [Page -> Node] /\ rt \in Page /\ r \in Page
  BY DEF ChildLink
<1>2. /\ T[r] = n /\ \A q \in Place \ {r} : T[q] = T0[q]
      /\ n \in Node /\ n.kind = "internal" /\ pg[r].kind = "internal"
  BY ChildLinked
<1>3. pg2 \in [Page -> Node] /\ pg2[r] = n /\ \A q \in Page \ {r} : pg2[q] = pg[q]
  BY <1>1, <1>2 DEF NodeAt
<1>4. \A q \in Page : U[q] = pg2[q] /\ T0[q] = pg[q]
  <2>1. \A q \in Page : T0[q] = pg[q]
    BY TreeFacts
  <2>2. \A q \in Page : U[q] = pg2[q]
    BY ONLY TreeFacts
  <2> QED BY <2>1, <2>2
<1>5. U[0] = Internal(<<>>, <<rt>>, NoPage) /\ T0[0] = Internal(<<>>, <<rt>>, NoPage)
  BY TreeFacts
<1>6. U \in [Place -> Node]
  BY <1>1, <1>3, TreeFacts
<1>7. T \in [Place -> Node]
  BY DEF IsTree, Shaped
<1> HIDE DEF U, T0
<1>8. ASSUME NEW q \in Place PROVE U[q] = T[q]
  <2>1. CASE q = 0
    <3>1. q # r
      BY <1>1, <2>1, Places
    <3> QED BY <1>2, <1>5, <2>1, <3>1
  <2>2. CASE q = r
    BY <1>1, <1>2, <1>3, <1>4, <2>2
  <2>3. CASE q # 0 /\ q # r
    <3>1. q \in Page
      BY <2>3, Places
    <3> QED BY <1>2, <1>3, <1>4, <2>3, <3>1
  <2> QED BY <2>1, <2>2, <2>3
<1>9. U = T
  BY <1>6, <1>7, <1>8
<1> QED BY <1>2, <1>3, <1>9 DEF U

\* new takes the first m children of node r, which is n, and the keys between them.
NodeSplit(pg, pg2, r, n, m, new) ==
    /\ pg2 \in [Page -> Node]
    /\ pg2[new] = Internal(SubSeq(n.keys, 1, m - 1), SubSeq(n.child, 1, m), n.parent)
    /\ pg2[r] = [pg[r] EXCEPT !.keys = SubSeq(n.keys, m + 1, Len(n.keys)),
                              !.child = SubSeq(n.child, m + 1, Len(n.child))]
    /\ \A q \in Page \ {new, r} :
          pg2[q] = IF q \in ToSet(SubSeq(n.child, 1, m)) THEN [pg[q] EXCEPT !.parent = new] ELSE pg[q]

\* SplitInternal makes that of the pages.
LEMMA SplitInternalPages ==
    ASSUME page \in [Page -> Node], NEW r \in Page, NEW new \in Page, r # new, NEW n \in Node,
           Len(n.child) \in Nat, LeftChildren(n) \in 1..Len(n.child),
           LeftChildren(n) \in 1..Len(n.keys), r \notin ToSet(SubSeq(n.child, 1, LeftChildren(n)))
    PROVE  NodeSplit(page, SplitInternal(r, n, new), r, n, LeftChildren(n), new)
<1> DEFINE m == LeftChildren(n)
           lower == SubSeq(n.child, 1, m)
           upper == SubSeq(n.child, m + 1, Len(n.child))
           lk == SubSeq(n.keys, 1, m - 1)
           uk == SubSeq(n.keys, m + 1, Len(n.keys))
           ad == Adopted(page, ToSet(lower), new)
           nn == Internal(lk, lower, n.parent)
           pg2 == SplitInternal(r, n, new)
<1>1. pg2 = [ad EXCEPT ![new] = nn, ![r].keys = uk, ![r].child = upper]
  BY DEF SplitInternal
<1>2. n.keys \in Seq(Key) /\ n.child \in Seq(Page) /\ n.parent \in PageOrNone
  BY DEF Node
<1>3. m \in 1..Len(n.child) /\ m \in 1..Len(n.keys) /\ Len(n.child) \in Nat /\ Len(n.keys) \in Nat
  BY <1>2, SeqPlaces
<1>4. m \in Nat /\ m <= Len(n.child) /\ m - 1 \in Nat /\ m - 1 <= Len(n.keys) /\ m <= Len(n.keys)
  <2> HIDE DEF m
  <2> QED BY <1>3
<1> HIDE DEF pg2, m
<1>5. lower \in Seq(Page) /\ upper \in Seq(Page) /\ lk \in Seq(Key) /\ uk \in Seq(Key)
  <2>1. lower \in Seq(Page)
    BY <1>2, <1>4, LowerPart
  <2>2. upper \in Seq(Page)
    BY <1>2, <1>4, UpperPart
  <2>3. lk \in Seq(Key)
    BY <1>2, <1>4, LowerPart
  <2>4. uk \in Seq(Key)
    BY <1>2, <1>4, UpperPart
  <2> QED BY <2>1, <2>2, <2>3, <2>4
<1>6. ad = [q \in Page |-> IF q \in ToSet(lower) THEN [page[q] EXCEPT !.parent = new] ELSE page[q]]
  BY DEF Adopted
<1>7. r \notin ToSet(lower)
  BY DEF m
<1> HIDE DEF lower, upper, lk, uk
<1>8. ASSUME NEW q \in Page PROVE ad[q] \in Node
  <2>1. page[q] \in Node /\ new \in PageOrNone
    BY DEF PageOrNone
  <2>2. [page[q] EXCEPT !.parent = new] \in Node
    BY <2>1, ParentChanged
  <2> QED BY <1>6, <2>1, <2>2
<1>9. ad \in [Page -> Node]
  BY <1>6, <1>8
<1>10. \A q \in Page : ad[q] = IF q \in ToSet(lower) THEN [page[q] EXCEPT !.parent = new] ELSE page[q]
  BY <1>6
<1>11. ad[r] = page[r]
  BY <1>7, <1>10
<1>12. nn \in Node
  <2> DEFINE np == n.parent
  <2>1. np \in PageOrNone
    BY <1>2
  <2> HIDE DEF np
  <2>2. NoPage \in PageOrNone
    BY DEF PageOrNone
  <2>3. Internal(lk, lower, np) \in Node
    BY <1>5, <2>1, <2>2 DEF Internal, Node
  <2> QED BY <2>3 DEF np
<1> HIDE DEF ad, nn
<1> DEFINE nr == [page[r] EXCEPT !.keys = uk, !.child = upper]
<1>13. nr \in Node
  <2>1. page[r] \in Node
    OBVIOUS
  <2> QED BY <1>5, <2>1 DEF Node
<1>14. pg2 = [ad EXCEPT ![new] = nn, ![r] = nr]
  BY <1>1, <1>9, <1>11
<1> HIDE DEF nr
<1>15. pg2 \in [Page -> Node] /\ pg2[new] = nn /\ pg2[r] = nr /\ \A q \in Page \ {new, r} : pg2[q] = ad[q]
  BY <1>9, <1>12, <1>13, <1>14
<1> QED BY <1>10, <1>15 DEF NodeSplit, nn, nr, lower, upper, lk, uk, pg2, m

\* How many children node n has, and how many of them new takes.
Partible(n, m) ==
    /\ Len(n.keys) \in Nat /\ Len(n.child) = Len(n.keys) + 1
    /\ m \in Nat /\ m > 1 /\ m < Len(n.keys)

\* The elements of the lower part of a sequence.
LEMMA LowerSet ==
    ASSUME NEW V, NEW s \in Seq(V), NEW m \in Nat, m <= Len(s), NEW q
    PROVE  q \in ToSet(SubSeq(s, 1, m)) <=> \E i \in 1..m : q = s[i]
<1> DEFINE u == SubSeq(s, 1, m)
<1>1. u \in Seq(V) /\ Len(u) = m /\ \A i \in 1..m : u[i] = s[i]
  BY LowerPart
<1> HIDE DEF u
<1>2. DOMAIN u = 1..m
  BY <1>1, SeqPlaces
<1>3. q \in ToSet(u) <=> \E i \in DOMAIN u : q = u[i]
  BY DEF ToSet
<1> QED BY <1>1, <1>2, <1>3 DEF u

\* The nodes after a node below the root is split, its parent still without the link.
LEMMA NodeSplitFacts ==
    ASSUME NEW pg, NEW rt, NEW T, NEW r, NEW n, NEW key, NEW left, NEW right,
           ChildLink(pg, rt, T, r, n, key, left, right), NEW lev, NEW lo, IsTree(T, lev, lo),
           NEW new \in Page, pg[new].kind = "none", NEW m, Partible(n, m),
           NEW pg2, NodeSplit(pg, pg2, r, n, m, new), NEW q \in Place, q # new, q # r
    PROVE  /\ TreeOf(pg2, rt)[q].kind = T[q].kind /\ TreeOf(pg2, rt)[q].keys = T[q].keys
           /\ TreeOf(pg2, rt)[q].child = T[q].child
           /\ TreeOf(pg2, rt)[q].prev = T[q].prev /\ TreeOf(pg2, rt)[q].next = T[q].next
           /\ TreeOf(pg2, rt)[q].parent = IF \E i \in 1..m : q = n.child[i] THEN new ELSE T[q].parent
           /\ ~(\E i \in 1..m : q = n.child[i]) => TreeOf(pg2, rt)[q] = T[q]
<1> DEFINE T2 == TreeOf(pg2, rt)
<1>1. pg \in [Page -> Node] /\ rt \in Page /\ r \in Page
  BY DEF ChildLink
<1>2. (\A x \in Place \ {r} : T[x] = TreeOf(pg, rt)[x]) /\ n \in Node
  BY ChildLinked
<1>3. /\ \A x \in Page : T2[x] = pg2[x]
      /\ T2[0] = Internal(<<>>, <<rt>>, NoPage)
  <2>1. \A x \in Page : T2[x] = pg2[x]
    BY ONLY TreeFacts
  <2>2. T2[0] = Internal(<<>>, <<rt>>, NoPage)
    BY ONLY TreeFacts
  <2> QED BY <2>1, <2>2
<1>4. /\ \A x \in Page : TreeOf(pg, rt)[x] = pg[x]
      /\ TreeOf(pg, rt)[0] = Internal(<<>>, <<rt>>, NoPage)
  <2>1. \A x \in Page : TreeOf(pg, rt)[x] = pg[x]
    BY ONLY TreeFacts
  <2>2. TreeOf(pg, rt)[0] = Internal(<<>>, <<rt>>, NoPage)
    BY ONLY TreeFacts
  <2> QED BY <2>1, <2>2
<1> HIDE DEF T2
<1>5. q \in ToSet(SubSeq(n.child, 1, m)) <=> \E i \in 1..m : q = n.child[i]
  <2>1. n.child \in Seq(Page)
    BY <1>2 DEF Node
  <2>2. m \in Nat /\ m <= Len(n.child)
    BY DEF Partible
  <2> QED BY <2>1, <2>2, LowerSet
<1>6. CASE q = 0
  <2>1. T2[q] = T[q]
    <3>1. q # r
      OBVIOUS
    <3> QED BY <1>2, <1>3, <1>4, <1>6, <3>1
  <2>2. \A i \in 1..m : q # n.child[i]
    <3>1. \A i \in 1..Len(n.child) : n.child[i] \in Page
      BY <1>2, SeqPlaces DEF Node
    <3>2. \A i \in 1..m : i \in 1..Len(n.child)
      BY DEF Partible
    <3> QED BY <1>6, <3>1, <3>2, Places
  <2> QED BY <2>1, <2>2 DEF T2
<1>7. CASE q # 0
  <2>1. q \in Page /\ T[q] = pg[q] /\ T2[q] = pg2[q]
    BY <1>2, <1>3, <1>4, <1>7, Places
  <2>2. pg2[q] = IF q \in ToSet(SubSeq(n.child, 1, m)) THEN [pg[q] EXCEPT !.parent = new] ELSE pg[q]
    BY <2>1 DEF NodeSplit
  <2>3. CASE \E i \in 1..m : q = n.child[i]
    <3>1. pg2[q] = [pg[q] EXCEPT !.parent = new]
      BY <1>5, <2>2, <2>3
    <3>2. pg[q] \in Node /\ new \in PageOrNone
      BY <1>1, <2>1 DEF PageOrNone
    <3>3. /\ pg2[q].kind = pg[q].kind /\ pg2[q].keys = pg[q].keys /\ pg2[q].child = pg[q].child
          /\ pg2[q].parent = new /\ pg2[q].prev = pg[q].prev /\ pg2[q].next = pg[q].next
      BY <3>1, <3>2, ParentChanged
    <3> QED BY <2>1, <2>3, <3>3 DEF T2
  <2>4. CASE ~(\E i \in 1..m : q = n.child[i])
    <3>1. pg2[q] = pg[q]
      BY <1>5, <2>2, <2>4
    <3> QED BY <2>1, <2>4, <3>1 DEF T2
  <2> QED BY <2>3, <2>4
<1> QED BY <1>6, <1>7

\* The two nodes that r has become, its parent still without the link.
LEMMA NodeSplitTwo ==
    ASSUME NEW pg, NEW rt, NEW T, NEW r, NEW n, NEW key, NEW left, NEW right,
           ChildLink(pg, rt, T, r, n, key, left, right), NEW lev, NEW lo, IsTree(T, lev, lo),
           NEW new \in Page, pg[new].kind = "none", NEW m,
           NEW pg2, NodeSplit(pg, pg2, r, n, m, new)
    PROVE  /\ r # new
           /\ TreeOf(pg2, rt)[new].kind = "internal" /\ TreeOf(pg2, rt)[new].parent = n.parent
           /\ TreeOf(pg2, rt)[new].keys = SubSeq(n.keys, 1, m - 1)
           /\ TreeOf(pg2, rt)[new].child = SubSeq(n.child, 1, m)
           /\ TreeOf(pg2, rt)[r].kind = "internal" /\ TreeOf(pg2, rt)[r].parent = n.parent
           /\ TreeOf(pg2, rt)[r].keys = SubSeq(n.keys, m + 1, Len(n.keys))
           /\ TreeOf(pg2, rt)[r].child = SubSeq(n.child, m + 1, Len(n.child))
           /\ TreeOf(pg2, rt)[r].prev = n.prev /\ TreeOf(pg2, rt)[r].next = n.next
<1> DEFINE T2 == TreeOf(pg2, rt)
<1>1. pg \in [Page -> Node] /\ r \in Page
  BY DEF ChildLink
<1>2. /\ pg[r].kind = "internal" /\ n.parent = pg[r].parent /\ n.prev = pg[r].prev /\ n.next = pg[r].next
  BY ChildLinked
<1>3. \A x \in Page : T2[x] = pg2[x]
  BY ONLY TreeFacts
<1> HIDE DEF T2
<1> DEFINE lk == SubSeq(n.keys, 1, m - 1)
           lc == SubSeq(n.child, 1, m)
           uk == SubSeq(n.keys, m + 1, Len(n.keys))
           uc == SubSeq(n.child, m + 1, Len(n.child))
<1>4. pg2[new] = Internal(lk, lc, n.parent) /\ pg2[r] = [pg[r] EXCEPT !.keys = uk, !.child = uc]
  BY DEF NodeSplit
<1> HIDE DEF lk, lc, uk, uc
<1>5. r # new
  BY <1>2
<1>6. T2[new] = Internal(lk, lc, n.parent) /\ T2[r] = [pg[r] EXCEPT !.keys = uk, !.child = uc]
  BY <1>1, <1>3, <1>4
<1>7. pg[r] \in Node
  BY <1>1
<1>8. /\ T2[r].kind = pg[r].kind /\ T2[r].parent = pg[r].parent /\ T2[r].keys = uk /\ T2[r].child = uc
      /\ T2[r].prev = pg[r].prev /\ T2[r].next = pg[r].next
  BY <1>6, <1>7 DEF Node
<1>9. T2[new].kind = "internal" /\ T2[new].parent = n.parent /\ T2[new].keys = lk /\ T2[new].child = lc
  BY <1>6 DEF Internal
<1> QED BY <1>2, <1>5, <1>8, <1>9 DEF T2, lk, lc, uk, uc

\* With the link to its parent, a node of the tree has been split.
LEMMA NodeSplitSplits ==
    ASSUME NEW pg, NEW rt, NEW T, NEW r, NEW n, NEW key, NEW left, NEW right,
           ChildLink(pg, rt, T, r, n, key, left, right), NEW lev, NEW lo, IsTree(T, lev, lo),
           NEW new \in Page, pg[new].kind = "none", NEW m, Partible(n, m),
           NEW pg2, NodeSplit(pg, pg2, r, n, m, new)
    PROVE  /\ Splits(T, WithLink(TreeOf(pg2, rt), n.keys[m], new, r), r, n.parent, new, m - 1)
           /\ \A q \in Place \ {new} : LET U == WithLink(TreeOf(pg2, rt), n.keys[m], new, r) IN
                 U[q].prev = T[q].prev /\ U[q].next = T[q].next
           /\ T[new].kind = "none" /\ T[r].kind = "internal"
<1> DEFINE T2 == TreeOf(pg2, rt)
           k == n.keys[m]
           U == WithLink(T2, k, new, r)
           up == n.parent
           a == m - 1
<1>1. pg \in [Page -> Node] /\ rt \in Page /\ r \in Page /\ r \in Place /\ new \in Place
  BY Places DEF ChildLink
<1>2. /\ T[r] = n /\ n \in Node /\ n.kind = "internal"
      /\ \A q \in Place \ {r} : T[q] = TreeOf(pg, rt)[q]
  BY ChildLinked
<1>3. pg2 \in [Page -> Node]
  BY DEF NodeSplit
<1>4. T2 \in [Place -> Node]
  BY <1>1, <1>3, TreeFacts
<1>5. r # new
  BY NodeSplitTwo
<1>6. T[new].kind = "none"
  <2>1. TreeOf(pg, rt)[new] = pg[new]
    BY TreeFacts
  <2> QED BY <1>1, <1>2, <1>5, <2>1
<1>7. /\ T2[new].kind = "internal" /\ T2[new].parent = up
      /\ T2[new].keys = SubSeq(n.keys, 1, m - 1)
      /\ T2[new].child = SubSeq(n.child, 1, m)
  BY NodeSplitTwo
<1>8. /\ T2[r].kind = "internal" /\ T2[r].parent = up
      /\ T2[r].keys = SubSeq(n.keys, m + 1, Len(n.keys))
      /\ T2[r].child = SubSeq(n.child, m + 1, Len(n.child))
  BY NodeSplitTwo
<1>9. T2[r].prev = n.prev /\ T2[r].next = n.next
  BY NodeSplitTwo
<1> HIDE DEF T2
<1>10. /\ up \in Place /\ T[up].kind = "internal" /\ lev[r] + 1 = lev[up] /\ up # r
       /\ lev \in [Place -> Nat]
  BY <1>1, <1>2, ParentFacts DEF IsTree, Family
<1>11. PICK j : ChildAt(T, up, j, r)
  BY <1>1, <1>2, ChildPlace
<1> HIDE DEF up
<1>12. up # new
  BY <1>6, <1>10
<1>13. \A q \in Place \ {new, r} :
          /\ T2[q].kind = T[q].kind /\ T2[q].keys = T[q].keys
          /\ T2[q].child = T[q].child
          /\ T2[q].parent = IF \E i \in 1..m : q = n.child[i] THEN new ELSE T[q].parent
  BY NodeSplitFacts DEF T2
<1>14. \A q \in Place \ {new, r} :
          /\ T2[q].prev = T[q].prev /\ T2[q].next = T[q].next
          /\ ~(\E i \in 1..m : q = n.child[i]) => T2[q] = T[q]
  BY NodeSplitFacts DEF T2
<1>15. m \in Nat /\ m > 1 /\ m < Len(n.keys) /\ Len(n.keys) \in Nat /\ Len(n.child) = Len(n.keys) + 1
  BY DEF Partible
<1>16. ASSUME NEW i \in 1..m
       PROVE  /\ n.child[i] \in Page /\ T[n.child[i]].kind # "none" /\ T[n.child[i]].parent = r
              /\ lev[n.child[i]] + 1 = lev[r]
  <2>1. i \in Int /\ 1 <= i /\ i <= Len(T[r].child)
    BY <1>2, <1>15
  <2> QED BY <1>1, <1>2, <2>1, ChildFacts
<1>17. ~(\E i \in 1..m : up = n.child[i])
  <2>1. ASSUME NEW i \in 1..m, up = n.child[i] PROVE FALSE
    <3>1. lev[up] + 1 = lev[r] /\ lev[r] + 1 = lev[up] /\ lev[r] \in Nat /\ lev[up] \in Nat
      BY <1>1, <1>10, <1>16, <2>1
    <3> QED BY <3>1
  <2> QED BY <2>1
<1>18. T2[up] = T[up]
  BY <1>10, <1>12, <1>14, <1>17
<1>19. k \in Key /\ KeyOf(T, lo, r, k)
  <2>1. m \in 1..Len(n.keys)
    BY <1>15
  <2>2. k \in Key
    BY <1>2, <2>1, SeqPlaces DEF Node
  <2> QED BY <1>2, <2>1, <2>2, KeyAssumption DEF KeyOf
<1> HIDE DEF k
<1>20. PlaceIn(T[up].keys, k, j)
  BY <1>10, <1>11, <1>19, PlaceOf
<1> DEFINE s == SetChild(T[up], k, new, r)
<1>21. s \in Node /\ s.kind = T[up].kind /\ s.parent = T[up].parent /\ s.prev = T[up].prev /\ s.next = T[up].next
  <2>1. Shaped(T)
    BY DEF IsTree
  <2>2. ChildSet(T[up], s, j, k, new, r)
    BY <1>1, <1>10, <1>11, <1>19, <1>20, <2>1, SetChildFacts
  <2> QED BY <2>2 DEF ChildSet
<1>22. U = [T2 EXCEPT ![up] = s]
  BY <1>7, <1>18 DEF WithLink
<1> HIDE DEF U
<1>23. U \in [Place -> Node] /\ U[up] = s /\ \A q \in Place \ {up} : U[q] = T2[q]
  BY <1>4, <1>10, <1>21, <1>22
<1>24. s = SetChild(T[up], k, new, r)
  OBVIOUS
<1> HIDE DEF s
<1>25. a \in Nat \ {0} /\ a + 1 = m /\ a + 1 \in 1..Len(T[r].keys)
  BY <1>2, <1>15
<1> HIDE DEF a
<1>26. ChildrenBelow(T[r], a) = m /\ KeysBelow(T[r], a) = m
  BY <1>2, <1>25 DEF ChildrenBelow, KeysBelow
<1>27. /\ U[new].kind = T[r].kind /\ U[new].parent = up
       /\ U[new].keys = SubSeq(T[r].keys, 1, a)
       /\ U[new].child = SubSeq(T[r].child, 1, m)
  <2>1. m - 1 = a
    BY DEF a
  <2> QED BY <1>1, <1>2, <1>7, <1>12, <1>23, <2>1
<1>28. /\ U[r].keys = SubSeq(T[r].keys, m + 1, Len(T[r].keys))
       /\ U[r].child = SubSeq(T[r].child, m + 1, Len(T[r].child))
       /\ U[r].kind = T[r].kind /\ U[r].parent = T[r].parent
  BY <1>1, <1>2, <1>8, <1>10, <1>23 DEF up
<1>29. U[up].keys = s.keys /\ U[up].child = s.child
  BY <1>23
<1>30. \A q \in Place \ {new, r, up} : U[q].keys = T[q].keys /\ U[q].child = T[q].child
  BY <1>13, <1>23
<1>31. ASSUME NEW q \in Place \ {new}
       PROVE  /\ U[q].kind = T[q].kind
              /\ T[q].kind = "none" => U[q] = T[q]
              /\ U[q].parent = IF \E i \in 1..m : q = T[r].child[i] THEN new ELSE T[q].parent
              /\ U[q].prev = T[q].prev /\ U[q].next = T[q].next
  <2>1. CASE q = r
    <3>1. ~(\E i \in 1..m : r = T[r].child[i])
      <4>1. ASSUME NEW i \in 1..m, r = n.child[i] PROVE FALSE
        <5>1. lev[r] + 1 = lev[r] /\ lev[r] \in Nat
          BY <1>1, <1>10, <1>16, <4>1
        <5> QED BY <5>1
      <4> QED BY <1>2, <4>1
    <3>2. U[r].prev = T[r].prev /\ U[r].next = T[r].next
      BY <1>1, <1>2, <1>9, <1>10, <1>23
    <3> QED BY <1>2, <1>28, <2>1, <3>1, <3>2
  <2>2. CASE q = up
    <3>1. U[up].kind = T[up].kind /\ U[up].parent = T[up].parent /\ U[up].prev = T[up].prev
          /\ U[up].next = T[up].next
      BY <1>21, <1>23
    <3> QED BY <1>2, <1>10, <1>17, <2>2, <3>1
  <2>3. CASE q # r /\ q # up
    <3>1. q \in Place \ {new, r} /\ U[q] = T2[q]
      BY <1>23, <2>3
    <3>2. T[q].kind = "none" => ~(\E i \in 1..m : q = n.child[i])
      BY <1>16
    <3>3. T2[q].kind = T[q].kind
          /\ T2[q].parent = IF \E i \in 1..m : q = n.child[i] THEN new ELSE T[q].parent
      BY <1>13, <3>1
    <3>4. /\ T2[q].prev = T[q].prev /\ T2[q].next = T[q].next
          /\ ~(\E i \in 1..m : q = n.child[i]) => T2[q] = T[q]
      BY <1>14, <3>1
    <3> QED BY <1>2, <3>1, <3>2, <3>3, <3>4
  <2> QED BY <2>1, <2>2, <2>3
<1>32. Splits(T, U, r, up, new, a)
  <2>1. up = T[r].parent
    BY <1>2 DEF up
  <2>2. \A q \in Place \ {new} :
          /\ U[q].kind = T[q].kind
          /\ T[q].kind = "none" => U[q] = T[q]
          /\ U[q].parent = IF \E i \in 1..m : q = T[r].child[i] THEN new ELSE T[q].parent
    BY <1>31
  <2>3. s = SetChild(T[up], T[r].keys[a + 1], new, r)
    BY <1>2, <1>24, <1>25 DEF k
  <2> QED BY <1>23, <1>25, <1>26, <1>27, <1>28, <1>29, <1>30, <2>1, <2>2, <2>3 DEF Splits
<1> QED BY <1>2, <1>6, <1>31, <1>32 DEF T2, k, U, up, a

\* A split node leaves a sound tree.
LEMMA NodeSplitSound ==
    ASSUME NEW pg, NEW rt, NEW T, NEW r, NEW n, NEW key, NEW left, NEW right,
           ChildLink(pg, rt, T, r, n, key, left, right), NEW lev, NEW lo, IsTree(T, lev, lo),
           Chain(T, lo, FALSE), NEW short, short => lev[0] <= 2,
           NEW new \in Page, pg[new].kind = "none", NEW m, Partible(n, m),
           NEW pg2, NodeSplit(pg, pg2, r, n, m, new)
    PROVE  Sound(WithLink(TreeOf(pg2, rt), n.keys[m], new, r), FALSE, short)
<1> DEFINE U == WithLink(TreeOf(pg2, rt), n.keys[m], new, r)
           a == m - 1
           L == SplitLev(lev, r, new)
           W == SplitLo(T, lo, r, new, a)
<1>1. Splits(T, U, r, n.parent, new, a) /\ T[new].kind = "none" /\ T[r].kind = "internal"
  BY NodeSplitSplits
<1>2. \A q \in Place \ {new} : U[q].prev = T[q].prev /\ U[q].next = T[q].next
  BY NodeSplitSplits
<1>3. r \in Page
  BY DEF ChildLink
<1> HIDE DEF U, a
<1>4. IsTree(U, L, W)
  BY <1>1, <1>3, SplitTree
<1>5. lo \in [Place -> Nat] /\ lev \in [Place -> Nat] /\ 0 \in Place /\ 0 # new
  BY Places DEF IsTree, Ordered, Family
<1>6. W \in [Place -> Nat]
  BY <1>4 DEF IsTree, Ordered
<1>7. \A z \in Place \ {new, r} : W[z] = lo[z]
  BY <1>5 DEF SplitLo
<1>8. L[0] = lev[0]
  BY <1>5 DEF SplitLev
<1> HIDE DEF W, L
<1>9. Chain(U, W, FALSE)
  <2>1. /\ U[new].kind = T[r].kind
        /\ \A q \in Place \ {new} : U[q].kind = T[q].kind
    BY <1>1 DEF Splits
  <2>2. ASSUME NEW q \in Place
        PROVE  /\ IsLeaf(U, q) <=> IsLeaf(T, q)
               /\ IsLeaf(T, q) => q # new /\ q # r /\ U[q].next = T[q].next /\ U[q].prev = T[q].prev
    <3>1. CASE q = new
      BY <1>1, <2>1, <3>1 DEF IsLeaf
    <3>2. CASE q # new
      BY <1>1, <1>2, <2>1, <3>2 DEF IsLeaf
    <3> QED BY <3>1, <3>2
  <2>3. \A q, s \in Place : IsLeaf(T, q) /\ IsLeaf(T, s) => (W[q] < W[s] <=> lo[q] < lo[s])
    BY <1>7, <2>2
  <2>4. SameChain(T, U, lo, W, FALSE)
    BY <2>2, <2>3 DEF SameChain
  <2> QED BY <1>5, <1>6, <2>4, ChainKept
<1>10. short => L[0] <= 2
  BY <1>8
<1> QED BY <1>4, <1>9, <1>10 DEF Sound, U

\* The pages after a node is split.
LEMMA NodeSplitPages ==
    ASSUME NEW pg, NEW rt, NEW T, NEW r, NEW n, NEW key, NEW left, NEW right,
           ChildLink(pg, rt, T, r, n, key, left, right), NEW lev, NEW lo, IsTree(T, lev, lo),
           NEW new \in Page, pg[new].kind = "none", NEW m, Partible(n, m),
           NEW pg2, NodeSplit(pg, pg2, r, n, m, new)
    PROVE  /\ NodeAdded(pg, pg2, new) /\ Branching(pg2) /\ StoredIn(pg2) = StoredIn(pg)
           /\ n.keys[m] \in Key /\ pg2[new].kind # "none"
<1> DEFINE T2 == TreeOf(pg2, rt)
<1>1. /\ r # new /\ T2[new].kind = "internal" /\ T2[r].kind = "internal"
      /\ T2[new].keys = SubSeq(n.keys, 1, m - 1) /\ T2[new].child = SubSeq(n.child, 1, m)
  BY NodeSplitTwo
<1>2. /\ T2[r].keys = SubSeq(n.keys, m + 1, Len(n.keys))
      /\ T2[r].child = SubSeq(n.child, m + 1, Len(n.child))
  BY NodeSplitTwo
<1>3. \A q \in Place \ {new, r} :
          T2[q].kind = T[q].kind /\ T2[q].keys = T[q].keys /\ T2[q].child = T[q].child
  BY NodeSplitFacts
<1>4. /\ n \in Node /\ pg[r].kind = "internal" /\ \A q \in Place \ {r} : T[q] = TreeOf(pg, rt)[q]
  BY ChildLinked
<1>5. \A q \in Page : T2[q] = pg2[q]
  BY ONLY TreeFacts
<1>6. \A q \in Page : TreeOf(pg, rt)[q] = pg[q]
  BY ONLY TreeFacts
<1>7. r \in Page
  BY DEF ChildLink
<1> HIDE DEF T2
<1>8. /\ pg2[new].kind = "internal" /\ pg2[r].kind = "internal"
      /\ \A q \in Page \ {new, r} : /\ pg2[q].kind = pg[q].kind /\ pg2[q].keys = pg[q].keys
                                    /\ pg2[q].child = T[q].child /\ T[q] = pg[q]
  BY <1>1, <1>3, <1>4, <1>5, <1>6, <1>7, Places
<1>9. NodeAdded(pg, pg2, new)
  BY <1>4, <1>7, <1>8 DEF NodeAdded
<1>10. StoredIn(pg2) = StoredIn(pg)
  <2>1. \A q \in Page : pg2[q].kind = "leaf" <=> pg[q].kind = "leaf"
    BY <1>4, <1>7, <1>8
  <2>2. \A q \in Page : pg[q].kind = "leaf" => pg2[q].keys = pg[q].keys
    BY <1>4, <1>7, <1>8
  <2> QED BY <2>1, <2>2, SameStored
<1>11. m \in Nat /\ m > 1 /\ m < Len(n.keys) /\ Len(n.keys) \in Nat /\ Len(n.child) = Len(n.keys) + 1
  BY DEF Partible
<1>12. n.keys \in Seq(Key) /\ n.child \in Seq(Page)
  BY <1>4 DEF Node
<1>13. n.keys[m] \in Key
  <2>1. m \in 1..Len(n.keys)
    BY <1>11
  <2> QED BY <1>12, <2>1, SeqPlaces
<1>14. Len(pg2[new].child) = Len(pg2[new].keys) + 1
  <2>1. Len(SubSeq(n.keys, 1, m - 1)) = m - 1
    <3> DEFINE a == m - 1
    <3>1. a \in Nat /\ a <= Len(n.keys)
      BY <1>11
    <3> HIDE DEF a
    <3>2. Len(SubSeq(n.keys, 1, a)) = a
      BY <1>12, <3>1, LowerPart
    <3> QED BY <3>2 DEF a
  <2>2. Len(SubSeq(n.child, 1, m)) = m
    <3>1. m <= Len(n.child)
      BY <1>11
    <3> QED BY <1>11, <1>12, <3>1, LowerPart
  <2>3. pg2[new].keys = SubSeq(n.keys, 1, m - 1) /\ pg2[new].child = SubSeq(n.child, 1, m)
    BY <1>1, <1>5
  <2> QED BY <1>11, <2>1, <2>2, <2>3
<1>15. Len(pg2[r].child) = Len(pg2[r].keys) + 1
  <2>1. Len(SubSeq(n.keys, m + 1, Len(n.keys))) = Len(n.keys) - m
    <3>1. m <= Len(n.keys)
      BY <1>11
    <3> QED BY <1>11, <1>12, <3>1, UpperPart
  <2>2. Len(SubSeq(n.child, m + 1, Len(n.child))) = Len(n.child) - m
    <3>1. m <= Len(n.child)
      BY <1>11
    <3> QED BY <1>11, <1>12, <3>1, UpperPart
  <2>3. /\ pg2[r].keys = SubSeq(n.keys, m + 1, Len(n.keys))
        /\ pg2[r].child = SubSeq(n.child, m + 1, Len(n.child))
    BY <1>2, <1>5, <1>7
  <2> QED BY <1>11, <2>1, <2>2, <2>3
<1>16. Branching(pg2)
  <2>1. ASSUME NEW q \in Page, pg2[q].kind = "internal" PROVE Len(pg2[q].child) = Len(pg2[q].keys) + 1
    <3>1. CASE q = new
      BY <1>14, <3>1
    <3>2. CASE q = r
      BY <1>15, <3>2
    <3>3. CASE q # new /\ q # r
      <4>1. T[q].kind = "internal" /\ pg2[q].child = T[q].child /\ pg2[q].keys = T[q].keys /\ q \in Place
        BY <1>8, <2>1, <3>3, Places
      <4>2. Len(T[q].child) = Len(T[q].keys) + 1
        BY <4>1 DEF IsTree, Shaped
      <4> QED BY <4>1, <4>2
    <3> QED BY <3>1, <3>2, <3>3
  <2> QED BY <2>1 DEF Branching
<1> QED BY <1>8, <1>9, <1>10, <1>13, <1>16

\* A node above the leaves that uses more than the minimum can be parted.
LEMMA CrowdedNode ==
    ASSUME Ordinary, NEW n, n.kind = "internal", Len(n.keys) \in Nat, Len(n.child) = Len(n.keys) + 1,
           Used(n) > MinimumUsed
    PROVE  Partible(n, LeftChildren(n))
<1> DEFINE L == Len(n.child)
           K == Len(n.keys)
           M == MinimumUsed
           m == LeftChildren(n)
<1>1. Used(n) = L * EntrySize
  BY DEF Used
<1>2. EntrySize \in Nat /\ EntrySize > 0 /\ MaximumUsed \in Nat
  BY SizeAssumption
<1>3. M \in Nat
  BY <1>2 DEF MinimumUsed
<1>4. 3 * EntrySize <= M
  BY DEF Ordinary
<1>5. m = (L - 1) \div 2 + 1
  BY DEF LeftChildren
<1>6. K \in Nat /\ L = K + 1 /\ L * EntrySize > M
  BY <1>1
<1> HIDE DEF L, K, M, m
<1>7. L > 3
  <2>1. L \in Nat /\ L # 0 /\ L # 1 /\ L # 2 /\ L # 3
    BY <1>2, <1>3, <1>4, <1>6
  <2> QED BY <2>1
<1>8. m \in Nat /\ m > 1 /\ m < K
  BY <1>5, <1>6, <1>7
<1> QED BY <1>6, <1>8 DEF Partible, L, K, m

\* Where the link is to be made.
LEMMA ChildReady ==
    ASSUME TypeOK, Live, task.op = "link", page[task.left].parent # NoPage
    PROVE  \E T, r, n :
             /\ r = page[task.left].parent /\ n = SetChild(page[r], task.key, task.left, task.right)
             /\ ChildLink(page, root, T, r, n, task.key, task.left, task.right)
             /\ phase # "shrunk"
             /\ \E lev, lo : IsTree(T, lev, lo) /\ Chain(T, lo, FALSE) /\ (phase = "short" => lev[0] <= 2)
<1> DEFINE key == task.key
           left == task.left
           right == task.right
           r == page[left].parent
           T == WithLink(TreeOf(page, root), key, left, right)
           n == SetChild(page[r], key, left, right)
<1>1. /\ phase # "shrunk" /\ LinkTask(key, left, right)
      /\ \E lev, lo : IsTree(T, lev, lo) /\ Chain(T, lo, FALSE) /\ (phase = "short" => lev[0] <= 2)
  BY LinkReady DEF Pages
<1>2. page \in [Page -> Node] /\ root \in Page
  BY TypeParts DEF Live
<1>3. key \in Key /\ left \in Page /\ right \in Page /\ page[left].kind # "none"
  BY <1>1 DEF LinkTask
<1>4. r \in Page
  <2>1. page[left] \in Node
    BY <1>2, <1>3
  <2>2. r \in PageOrNone
    BY <2>1 DEF Node
  <2> QED BY <2>2 DEF PageOrNone
<1>5. ChildLink(page, root, T, r, n, key, left, right)
  BY <1>2, <1>3, <1>4 DEF ChildLink
<1> QED BY <1>1, <1>5

\* The key comes into the parent, and there is room for it.
LinkPlain(r, n) ==
    /\ page' = [page EXCEPT ![r] = n] /\ task' = Rest
    /\ UNCHANGED <<free, nPage, root, phase, count>>

\* The key comes into the parent, which is split.
LinkParts(r, n) ==
    /\ Used(n) > MinimumUsed
    /\ TakePage
    /\ page' = SplitInternal(r, n, NewPage)
    /\ task' = Link(n.keys[LeftChildren(n)], NewPage, r)
    /\ UNCHANGED <<root, phase, count>>

\* LinkChild does one of the two.
LEMMA LinkCases ==
    ASSUME LinkChild, NEW r, NEW n, r = page[task.left].parent,
           n = SetChild(page[r], task.key, task.left, task.right)
    PROVE  task.op = "link" /\ r # NoPage /\ (LinkPlain(r, n) \/ LinkParts(r, n))
BY DEF LinkChild, LinkPlain, LinkParts

\* The tree after a link to a node that has room for it.
LEMMA LinkPlainStep ==
    ASSUME TypeOK, Live, NEW T, NEW r, NEW n, NEW key, NEW left, NEW right,
           ChildLink(page, root, T, r, n, key, left, right), phase # "shrunk",
           NEW lev, NEW lo, IsTree(T, lev, lo), Chain(T, lo, FALSE), phase = "short" => lev[0] <= 2,
           LinkPlain(r, n)
    PROVE  TypeOK' /\ Live' /\ StoredIn(page') = StoredIn(page)
<1>1. NodeAt(page, page', r, n)
  BY DEF LinkPlain, NodeAt
<1>2. TreeOf(page', root) = T
  BY <1>1, ChildPlain
<1>3. page' \in [Page -> Node]
  BY <1>1, ChildPlain
<1>4. \A q \in Page : page'[q].kind = page[q].kind /\ (page[q].kind = "leaf" => page'[q].keys = page[q].keys)
  BY <1>1, ChildPlain
<1>5. /\ task' = Rest /\ root' = root /\ free' = free /\ nPage' = nPage
      /\ phase' = phase /\ count' = count
  BY DEF LinkPlain
<1>6. root \in Page /\ Books(page, free, nPage)
  BY DEF Live
<1>7. task'.op = "rest" /\ task' \in Task
  BY <1>5 DEF Rest, Task
<1>8. Sound(Linked', phase' = "shrunk", phase' = "short")
  <2>1. Linked' = T
    BY <1>2, <1>5, <1>7, UnlinkedNext
  <2>2. (phase' = "shrunk") = FALSE
    BY <1>5
  <2>3. Sound(T, FALSE, phase' = "short")
    BY <1>5 DEF Sound
  <2> QED BY <2>1, <2>2, <2>3
<1>9. Branching(page')
  <2>1. Shaped(TreeOf(page', root))
    BY <1>2 DEF IsTree
  <2> QED BY <2>1, TreeBranches
<1>10. Books(page', free', nPage')
  BY <1>4, <1>5, <1>6, BooksSame
<1>11. StoredIn(page') = StoredIn(page)
  BY <1>4, SameStored
<1>12. TaskFits'
  BY <1>5, <1>7 DEF TaskFits
<1>13. phase' \in {"short", "tall", "shrunk"}
       /\ count' \in [load: 0..Max(Loads), puts: 0..MaxPuts, ops: 0..MaxOps]
  BY <1>5, TypeParts
<1> QED BY <1>3, <1>5, <1>6, <1>7, <1>8, <1>9, <1>10, <1>11, <1>12, <1>13, Arrives

\* The tree after a link to a node that is split.
LEMMA LinkPartsStep ==
    ASSUME TypeOK, Live, Ordinary, NEW T, NEW r, NEW n, NEW key, NEW left, NEW right,
           ChildLink(page, root, T, r, n, key, left, right), phase # "shrunk",
           NEW lev, NEW lo, IsTree(T, lev, lo), Chain(T, lo, FALSE), phase = "short" => lev[0] <= 2,
           LinkParts(r, n)
    PROVE  TypeOK' /\ Live' /\ StoredIn(page') = StoredIn(page)
<1> DEFINE new == NewPage
           m == LeftChildren(n)
           k == n.keys[m]
           short == phase = "short"
<1>1. /\ Used(n) > MinimumUsed /\ TakePage /\ page' = SplitInternal(r, n, new)
      /\ task' = Link(k, new, r) /\ root' = root /\ phase' = phase /\ count' = count
  BY DEF LinkParts
<1>2. page \in [Page -> Node] /\ root \in Page /\ Books(page, free, nPage) /\ r \in Page
  BY TypeParts DEF Live, ChildLink
<1>3. /\ new \in Page /\ page[new].kind = "none"
      /\ \A pg : NodeAdded(page, pg, new) => Books(pg, free', nPage')
  BY <1>1, <1>2, PageBound, Taken
<1>4. T[r] = n /\ n \in Node /\ n.kind = "internal" /\ page[r].kind = "internal"
  BY ChildLinked
<1>5. Len(n.child) = Len(n.keys) + 1 /\ Len(n.keys) \in Nat /\ n.child \in Seq(Page)
  <2>1. Len(n.child) = Len(n.keys) + 1
    BY <1>2, <1>4, Places DEF IsTree, Shaped
  <2> QED BY <1>4, <2>1, SeqPlaces DEF Node
<1> HIDE DEF new
<1>6. Partible(n, m)
  BY <1>1, <1>4, <1>5, CrowdedNode
<1>7. r # new
  BY <1>3, <1>4
<1>8. r \notin ToSet(SubSeq(n.child, 1, m))
  <2>1. m \in Nat /\ m <= Len(n.child) /\ m < Len(n.keys)
    BY <1>6 DEF Partible
  <2>2. ASSUME r \in ToSet(SubSeq(n.child, 1, m)) PROVE FALSE
    <3> HIDE DEF m
    <3>1. PICK i \in 1..m : r = n.child[i]
      BY <1>5, <2>1, <2>2, LowerSet
    <3>2. i \in Int /\ 1 <= i /\ i <= Len(T[r].child)
      BY <1>4, <1>5, <2>1
    <3>3. T[r].kind = "internal" /\ r \in Place
      BY <1>2, <1>4, Places
    <3>4. lev[r] + 1 = lev[r]
      BY <1>4, <3>1, <3>2, <3>3, ChildFacts
    <3>5. lev[r] \in Nat
      BY <3>3 DEF IsTree, Family
    <3> QED BY <3>4, <3>5
  <2> QED BY <2>2
<1>9. m \in 1..Len(n.child) /\ m \in 1..Len(n.keys) /\ Len(n.child) \in Nat
  <2>1. m \in Nat /\ m > 1 /\ m < Len(n.keys)
    BY <1>6 DEF Partible
  <2> HIDE DEF m
  <2> QED BY <1>5, <2>1
<1>10. NodeSplit(page, page', r, n, m, new)
  BY <1>1, <1>2, <1>3, <1>4, <1>7, <1>8, <1>9, SplitInternalPages
<1> HIDE DEF m, short
<1>11. Sound(WithLink(TreeOf(page', root), k, new, r), FALSE, short)
  <2>1. short => lev[0] <= 2
    BY DEF short
  <2> QED BY <1>3, <1>6, <1>10, <2>1, NodeSplitSound
<1>12. NodeAdded(page, page', new) /\ Branching(page') /\ StoredIn(page') = StoredIn(page)
       /\ k \in Key /\ page'[new].kind # "none"
  BY <1>3, <1>6, <1>10, NodeSplitPages
<1>13. page' \in [Page -> Node]
  BY <1>10 DEF NodeSplit
<1> HIDE DEF k
<1>14. Linked' = WithLink(TreeOf(page', root), k, new, r) /\ task'.op = "link"
  <2>1. Linked' = WithLink(TreeOf(page', root'), k, new, r) /\ task'.op = "link"
    BY <1>1, LinkedNext
  <2> QED BY <1>1, <2>1
<1>15. Sound(Linked', phase' = "shrunk", phase' = "short")
  <2>1. (phase' = "shrunk") = FALSE /\ (phase' = "short") = short
    BY <1>1 DEF short
  <2> QED BY <1>11, <1>14, <2>1
<1>16. Books(page', free', nPage')
  BY <1>3, <1>12
<1>17. task' \in Task
  BY <1>1, <1>2, <1>3, <1>12 DEF Task, Link
<1>18. TaskFits'
  <2>1. phase' # "shrunk" /\ task'.op # "mend" /\ task'.left = new
    BY <1>1, <1>14 DEF Link
  <2> QED BY <1>12, <2>1 DEF TaskFits
<1>19. phase' \in {"short", "tall", "shrunk"} /\ root' \in Page
       /\ count' \in [load: 0..Max(Loads), puts: 0..MaxPuts, ops: 0..MaxOps]
  BY <1>1, <1>2, TypeParts
<1> QED BY <1>12, <1>13, <1>15, <1>16, <1>17, <1>18, <1>19, Arrives

\* A key comes into a node below the root.
LEMMA LinkChildStep ==
    ASSUME TypeOK, Live, Ordinary, LinkChild
    PROVE  TypeOK' /\ Live' /\ StoredIn(page') = StoredIn(page)
<1>1. task.op = "link" /\ page[task.left].parent # NoPage
  BY DEF LinkChild
<1>2. PICK T, r, n :
         /\ r = page[task.left].parent /\ n = SetChild(page[r], task.key, task.left, task.right)
         /\ ChildLink(page, root, T, r, n, task.key, task.left, task.right)
         /\ phase # "shrunk"
         /\ \E lev, lo : IsTree(T, lev, lo) /\ Chain(T, lo, FALSE) /\ (phase = "short" => lev[0] <= 2)
  BY <1>1, ChildReady
<1>3. PICK lev, lo : IsTree(T, lev, lo) /\ Chain(T, lo, FALSE) /\ (phase = "short" => lev[0] <= 2)
  BY <1>2
<1>4. LinkPlain(r, n) \/ LinkParts(r, n)
  BY <1>2, LinkCases
<1>5. CASE LinkPlain(r, n)
  BY <1>2, <1>3, <1>5, LinkPlainStep
<1>6. CASE LinkParts(r, n)
  BY <1>2, <1>3, <1>6, LinkPartsStep
<1> QED BY <1>4, <1>5, <1>6
=============================================================================
