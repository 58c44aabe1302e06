--------------------------- MODULE UndoLogProofs ---------------------------
(***************************************************************************)
(* Proofs about UndoLog: its type for every choice of its constants, and   *)
(* for one database with one transaction at a time, crashes included, that *)
(* the log can be read back in order and that an abort undoes exactly what *)
(* its transaction did.                                                    *)
(***************************************************************************)
EXTENDS UndoLog, WellFoundedInduction, TLAPS

-----------------------------------------------------------------------------
(* Recursion over the natural numbers *)

\* A set of numbers that is not empty has a least one.
LEMMA Least ==
    ASSUME NEW T, T \subseteq Nat, T # {}
    PROVE  \E n \in T : \A m \in T : n <= m
<1>1. \E n \in T : \A m \in T : ~(<<m, n>> \in OpToRel(<, Nat))
  BY WFMin, NatLessThanWellFounded, Zenon
<1>2. \A m, n \in T : m < n => <<m, n>> \in OpToRel(<, Nat)
  BY DEF OpToRel
<1>3. \E n \in T : \A m \in T : ~(m < n)
  BY <1>1, <1>2, Zenon
<1> QED BY <1>3

\* G makes, at each number up to N, a value of the values at the smaller ones.
LooksBack(N, V, G) ==
    /\ G \in [0..N -> [[0..N -> V] -> V]]
    /\ \A n \in 0..N : \A f, g \in [0..N -> V] :
          (\A m \in 0..n - 1 : f[m] = g[m]) => G[n][f] = G[n][g]

\* There is a function that at each number is what G makes of it.
HasFunction(N, V, G) == \E f \in [0..N -> V] : \A n \in 0..N : f[n] = G[n][f]

\* A function on the numbers up to N can be defined by what it makes, at each
\* number, of its values at the smaller ones.
LEMMA Recursion ==
    ASSUME NEW N \in Nat, NEW V, NEW z \in V, NEW G, LooksBack(N, V, G)
    PROVE  HasFunction(N, V, G)
<1>0. G \in [0..N -> [[0..N -> V] -> V]]
  BY DEF LooksBack
<1> DEFINE Upto(n, f) == \A m \in 0..n : f[m] = G[m][f]
<1>1. ASSUME NEW n \in 0..N, NEW f \in [0..N -> V], NEW g \in [0..N -> V],
             \A m \in 0..n - 1 : f[m] = g[m]
      PROVE  G[n][f] = G[n][g]
  BY <1>1, Zenon DEF LooksBack
<1>2. \E f \in [0..N -> V] : Upto(N, f)
  <2> DEFINE T == {k \in 0..N : ~\E f \in [0..N -> V] : Upto(k, f)}
  <2> SUFFICES ASSUME N \in T PROVE FALSE
    OBVIOUS
  <2>1. T \subseteq 0..N
    OBVIOUS
  <2> HIDE DEF T
  <2>8. T \subseteq Nat /\ T # {}
    BY <2>1
  <2>2. PICK k \in T : \A j \in T : k <= j
    BY <2>8, Least
  <2>3. k \in 0..N /\ ~\E f \in [0..N -> V] : Upto(k, f)
    BY <2>2 DEF T
  <2>4. \E g \in [0..N -> V] : \A m \in 0..k - 1 : g[m] = G[m][g]
    <3>1. CASE k = 0
      <4> DEFINE g == [m \in 0..N |-> z]
      <4>1. g \in [0..N -> V] /\ 0..k - 1 = {}
        BY <3>1
      <4> QED BY <4>1
    <3>2. CASE k # 0
      <4>1. k - 1 \in 0..N /\ k - 1 \notin T
        BY <2>2, <2>3, <3>2
      <4> QED BY <4>1 DEF T
    <3> QED BY <3>1, <3>2
  <2>5. PICK g \in [0..N -> V] : \A m \in 0..k - 1 : g[m] = G[m][g]
    BY <2>4
  <2> DEFINE f == [g EXCEPT ![k] = G[k][g]]
  <2>6. f \in [0..N -> V] /\ f[k] = G[k][g] /\ \A m \in 0..N : m # k => f[m] = g[m]
    BY <1>0, <2>3
  <2> HIDE DEF f
  <2>7. ASSUME NEW m \in 0..k PROVE f[m] = G[m][f]
    <3>1. m \in 0..N /\ \A j \in 0..m - 1 : f[j] = g[j]
      BY <2>3, <2>6
    <3>2. G[m][f] = G[m][g]
      BY <1>1, <2>6, <3>1
    <3> QED BY <2>3, <2>5, <2>6, <3>2
  <2> QED BY <2>3, <2>6, <2>7
<1> QED BY <1>2 DEF HasFunction

-----------------------------------------------------------------------------
(* The walk *)

Result == [seen: Seq(EntryId), readable: BOOLEAN]

\* The units of a file are of entries that have been made.
Known(made, file) == \A p \in DOMAIN file : file[p].entry \in DOMAIN made

\* What the inner loop makes, at position p, of what it finds before.
AtPosition(made, file, t, older, w, p) ==
    IF p = 0 THEN older
    ELSE IF ~WholeEntry(made, file, p) THEN Lost
    ELSE LET e == file[p - 1].entry
             rest == w[p - 1 - made[file[p].entry].length]
         IN IF made[e].txn # t THEN rest
            ELSE IF made[e].op = "BEGIN" THEN Finished
            ELSE [seen |-> <<e>> \o rest.seen, readable |-> rest.readable]

\* An entry that can be read starts after the start of the file.
LEMMA EntryStart ==
    ASSUME NEW made \in Seq(Entry), NEW file \in Seq(Unit), Known(made, file),
           NEW p \in 1..Len(file), WholeEntry(made, file, p)
    PROVE  /\ made[file[p].entry].length \in Nat \ {0}
           /\ p - 1 \in 1..Len(file)
           /\ p - 1 - made[file[p].entry].length \in 0..p - 2
           /\ file[p - 1].entry \in EntryId /\ file[p - 1].entry \in DOMAIN made
<1>1. file[p].entry \in DOMAIN made
  BY DEF Known
<1>2. made[file[p].entry].length \in Nat \ {0}
  <2>1. made[file[p].entry] \in Entry
    BY <1>1
  <2>2. made[file[p].entry].length \in Length
    BY <2>1 DEF Entry
  <2> QED BY <2>2, LengthAssumption
<1>3. made[file[p].entry].length < p
  BY DEF WholeEntry
<1>4. p - 1 \in 1..Len(file)
  BY <1>2, <1>3
<1>5. p - 1 - made[file[p].entry].length \in 0..p - 2
  BY <1>2, <1>3
<1>6. file[p - 1] \in Unit
  BY <1>4
<1> QED BY <1>2, <1>4, <1>5, <1>6 DEF Known, Unit

\* What the inner loop makes of results is a result, and depends on what it
\* finds before only.
LEMMA AtPositionFacts ==
    ASSUME NEW made \in Seq(Entry), NEW file \in Seq(Unit), Known(made, file), NEW t,
           NEW older \in Result, NEW p \in 0..Len(file), NEW w,
           \A q \in 0..p - 1 : w[q] \in Result
    PROVE  /\ AtPosition(made, file, t, older, w, p) \in Result
           /\ \A v : (\A q \in 0..p - 1 : w[q] = v[q]) =>
                 AtPosition(made, file, t, older, w, p) = AtPosition(made, file, t, older, v, p)
<1>1. Finished \in Result /\ Lost \in Result
  BY DEF Result, Finished, Lost
<1>2. CASE p = 0
  BY <1>2 DEF AtPosition
<1>3. CASE p # 0 /\ ~WholeEntry(made, file, p)
  BY <1>1, <1>3 DEF AtPosition
<1>4. CASE p # 0 /\ WholeEntry(made, file, p)
  <2> DEFINE e == file[p - 1].entry
             q == p - 1 - made[file[p].entry].length
  <2>1. q \in 0..p - 1 /\ e \in EntryId
    BY <1>4, EntryStart
  <2>2. \A v : AtPosition(made, file, t, older, v, p) =
                  IF made[e].txn # t THEN v[q]
                  ELSE IF made[e].op = "BEGIN" THEN Finished
                  ELSE [seen |-> <<e>> \o v[q].seen, readable |-> v[q].readable]
    BY <1>4 DEF AtPosition
  <2> HIDE DEF e, q
  <2>3. w[q] \in Result
    BY <2>1
  <2>4. [seen |-> <<e>> \o w[q].seen, readable |-> w[q].readable] \in Result
    BY <2>1, <2>3 DEF Result
  <2> QED BY <1>1, <2>1, <2>2, <2>3, <2>4
<1> QED BY <1>2, <1>3, <1>4

\* w holds what the inner loop makes at every position of the file.
InnerLoop(made, file, t, older, w) ==
    /\ w \in [0..Len(file) -> Result]
    /\ \A p \in 0..Len(file) : w[p] = AtPosition(made, file, t, older, w, p)

\* The inner loop is the recursion that its definition states.
LEMMA WalkFileFacts ==
    ASSUME NEW made \in Seq(Entry), NEW file \in Seq(Unit), Known(made, file), NEW t,
           NEW older \in Result
    PROVE  \E w : /\ InnerLoop(made, file, t, older, w)
                  /\ WalkFile(made, file, t, older) = w[Len(file)]
<1> DEFINE N == Len(file)
           w == CHOOSE f : f = [p \in 0..N |-> AtPosition(made, file, t, older, f, p)]
           G == [p \in 0..N |-> [f \in [0..N -> Result] |-> AtPosition(made, file, t, older, f, p)]]
<1>1. WalkFile(made, file, t, older) = w[N]
  BY DEF WalkFile, AtPosition
<1>2. N \in Nat /\ Finished \in Result
  BY DEF Result, Finished
<1> HIDE DEF N
<1>3. G \in [0..N -> [[0..N -> Result] -> Result]]
  BY <1>2, AtPositionFacts DEF N
<1>4. \A p \in 0..N, f \in [0..N -> Result] : G[p][f] = AtPosition(made, file, t, older, f, p)
  OBVIOUS
<1>5. LooksBack(N, Result, G)
  <2> SUFFICES ASSUME NEW p \in 0..N, NEW f \in [0..N -> Result], NEW g \in [0..N -> Result],
                      \A m \in 0..p - 1 : f[m] = g[m]
               PROVE  G[p][f] = G[p][g]
    BY <1>3 DEF LooksBack
  <2>1. \A m \in 0..p - 1 : f[m] \in Result
    BY <1>2
  <2>2. p \in 0..Len(file)
    BY DEF N
  <2>3. AtPosition(made, file, t, older, f, p) = AtPosition(made, file, t, older, g, p)
    BY <2>1, <2>2, AtPositionFacts
  <2> QED BY <1>4, <2>3
<1> HIDE DEF G
<1>6. PICK f \in [0..N -> Result] : \A p \in 0..N : f[p] = G[p][f]
  BY <1>2, <1>5, Recursion DEF HasFunction
<1>7. f = [p \in 0..N |-> AtPosition(made, file, t, older, f, p)]
  BY <1>4, <1>6
<1>8. w = [p \in 0..N |-> AtPosition(made, file, t, older, w, p)]
  BY <1>7, Zenon
<1> HIDE DEF w
<1>9. \A p \in 0..N : w[p] \in Result
  <2> DEFINE T == {p \in 0..N : w[p] \notin Result}
  <2> SUFFICES ASSUME T # {} PROVE FALSE
    OBVIOUS
  <2>1. T \subseteq Nat
    BY <1>2
  <2> HIDE DEF T
  <2>2. PICK p \in T : \A q \in T : p <= q
    BY <2>1, Least
  <2>3. p \in 0..N /\ w[p] \notin Result
    BY <2>2 DEF T
  <2>4. \A q \in 0..p - 1 : w[q] \in Result
    BY <1>2, <2>2, <2>3 DEF T
  <2>5. AtPosition(made, file, t, older, w, p) \in Result
    BY <2>3, <2>4, AtPositionFacts DEF N
  <2> QED BY <1>8, <2>3, <2>5
<1>10. w \in [0..N -> Result]
  BY <1>8, <1>9
<1>11. InnerLoop(made, file, t, older, w)
  <2>1. \A p \in 0..N : w[p] = AtPosition(made, file, t, older, w, p)
    BY <1>8, Zenon
  <2> QED BY <1>10, <2>1 DEF InnerLoop, N
<1> QED BY <1>1, <1>11 DEF N

\* More entries have been made; those that were there are as they were.
Grown(made, new) == \A e \in DOMAIN made : e \in DOMAIN new /\ new[e] = made[e]

\* What the inner loop makes at a position depends on the file up to there.
LEMMA SameUpTo ==
    ASSUME NEW made \in Seq(Entry), NEW new \in Seq(Entry), Grown(made, new),
           NEW file \in Seq(Unit), NEW longer \in Seq(Unit), Known(made, file), Known(new, longer),
           Len(file) <= Len(longer), \A p \in 1..Len(file) : longer[p] = file[p],
           NEW t, NEW older \in Result,
           NEW w, InnerLoop(made, file, t, older, w),
           NEW v, InnerLoop(new, longer, t, older, v)
    PROVE  \A p \in 0..Len(file) : w[p] = v[p]
<1> DEFINE T == {p \in 0..Len(file) : w[p] # v[p]}
<1> SUFFICES ASSUME T # {} PROVE FALSE
  OBVIOUS
<1>1. T \subseteq 0..Len(file) /\ Len(file) \in Nat
  OBVIOUS
<1> HIDE DEF T
<1>2. T \subseteq Nat
  BY <1>1
<1>3. PICK p \in T : \A q \in T : p <= q
  BY <1>2, Least
<1>4. p \in 0..Len(file) /\ w[p] # v[p] /\ \A q \in 0..p - 1 : w[q] = v[q] /\ w[q] \in Result
  <2>1. p \in 0..Len(file) /\ w[p] # v[p]
    BY <1>3 DEF T
  <2>2. \A q \in 0..p - 1 : q \in 0..Len(file) /\ q \notin T
    BY <1>1, <1>2, <1>3, <2>1
  <2>3. \A q \in 0..Len(file) : w[q] \in Result
    BY DEF InnerLoop
  <2> QED BY <2>1, <2>2, <2>3 DEF T
<1>5. /\ w[p] = AtPosition(made, file, t, older, w, p)
      /\ v[p] = AtPosition(new, longer, t, older, v, p)
  <2>1. p \in 0..Len(longer)
    BY <1>4
  <2> QED BY <1>4, <2>1 DEF InnerLoop
<1>6. AtPosition(made, file, t, older, w, p) = AtPosition(made, file, t, older, v, p)
  BY <1>4, AtPositionFacts
<1>7. AtPosition(made, file, t, older, v, p) = AtPosition(new, longer, t, older, v, p)
  <2>1. CASE p = 0
    BY <2>1 DEF AtPosition
  <2>2. CASE p # 0
    <3>1. /\ longer[p] = file[p] /\ file[p].entry \in DOMAIN made
          /\ new[file[p].entry] = made[file[p].entry]
          /\ made[file[p].entry].length \in Nat \ {0}
      <4>1. p \in 1..Len(file)
        BY <1>4, <2>2
      <4>2. file[p].entry \in DOMAIN made
        BY <4>1 DEF Known
      <4>3. made[file[p].entry] \in Entry
        BY <4>2
      <4>4. made[file[p].entry].length \in Length
        BY <4>3 DEF Entry
      <4> QED BY <4>1, <4>2, <4>4, LengthAssumption DEF Grown
    <3> DEFINE n == made[file[p].entry].length
    <3>2. new[longer[p].entry].length = n /\ n \in Nat \ {0}
      BY <3>1
    <3>3. WholeEntry(made, file, p) <=> WholeEntry(new, longer, p)
      <4>1. WholeEntry(made, file, p) <=>
               /\ file[p].part = 0 /\ n < p
               /\ \A i \in 1..n : file[p - n + i - 1] = [entry |-> file[p - n].entry, part |-> i]
        BY DEF WholeEntry
      <4>2. WholeEntry(new, longer, p) <=>
               /\ file[p].part = 0 /\ n < p
               /\ \A i \in 1..n : longer[p - n + i - 1] = [entry |-> longer[p - n].entry, part |-> i]
        BY <3>1, <3>2 DEF WholeEntry
      <4> HIDE DEF n
      <4>3. n < p => p - n \in 1..Len(file) /\ \A i \in 1..n : p - n + i - 1 \in 1..Len(file)
        BY <1>4, <3>2
      <4> QED BY <4>1, <4>2, <4>3
    <3>4. CASE ~WholeEntry(made, file, p)
      BY <2>2, <3>3, <3>4 DEF AtPosition
    <3>5. CASE WholeEntry(made, file, p)
      <4>1. p - 1 \in 1..Len(file) /\ file[p - 1].entry \in DOMAIN made
        BY <1>4, <2>2, <3>5, EntryStart
      <4>2. longer[p - 1] = file[p - 1] /\ new[file[p - 1].entry] = made[file[p - 1].entry]
        BY <4>1 DEF Grown
      <4> QED BY <2>2, <3>1, <3>3, <3>5, <4>2 DEF AtPosition
    <3> QED BY <3>4, <3>5
  <2> QED BY <2>1, <2>2
<1> QED BY <1>4, <1>5, <1>6, <1>7

\* The walk over a file does not depend on entries that have been made since.
LEMMA WalkFileSame ==
    ASSUME NEW made \in Seq(Entry), NEW new \in Seq(Entry), Grown(made, new),
           NEW file \in Seq(Unit), Known(made, file), NEW t, NEW older \in Result
    PROVE  WalkFile(new, file, t, older) = WalkFile(made, file, t, older)
<1>1. Known(new, file)
  BY DEF Known, Grown
<1>2. PICK w : InnerLoop(made, file, t, older, w) /\ WalkFile(made, file, t, older) = w[Len(file)]
  BY WalkFileFacts
<1>3. PICK v : InnerLoop(new, file, t, older, v) /\ WalkFile(new, file, t, older) = v[Len(file)]
  BY <1>1, WalkFileFacts
<1>4. \A p \in 0..Len(file) : w[p] = v[p]
  <2>1. Len(file) <= Len(file)
    OBVIOUS
  <2> QED BY <1>1, <1>2, <1>3, <2>1, SameUpTo
<1> QED BY <1>2, <1>3, <1>4

\* The walk over a longer file comes to the shorter one, and finds there what it
\* finds when it begins there.
LEMMA WalkPrefix ==
    ASSUME NEW made \in Seq(Entry), NEW new \in Seq(Entry), Grown(made, new),
           NEW file \in Seq(Unit), NEW longer \in Seq(Unit), Known(made, file), Known(new, longer),
           Len(file) <= Len(longer), \A p \in 1..Len(file) : longer[p] = file[p],
           NEW t, NEW older \in Result
    PROVE  \E v : /\ InnerLoop(new, longer, t, older, v)
                  /\ WalkFile(new, longer, t, older) = v[Len(longer)]
                  /\ WalkFile(made, file, t, older) = v[Len(file)]
<1>1. PICK w : InnerLoop(made, file, t, older, w) /\ WalkFile(made, file, t, older) = w[Len(file)]
  BY WalkFileFacts
<1>2. PICK v : InnerLoop(new, longer, t, older, v) /\ WalkFile(new, longer, t, older) = v[Len(longer)]
  BY WalkFileFacts
<1>3. \A p \in 0..Len(file) : w[p] = v[p]
  BY <1>1, <1>2, SameUpTo
<1> QED BY <1>1, <1>2, <1>3

\* What a sequence of units holds when it follows another.
LEMMA Joined ==
    ASSUME NEW first \in Seq(Unit), NEW second \in Seq(Unit)
    PROVE  /\ first \o second \in Seq(Unit)
           /\ Len(first \o second) = Len(first) + Len(second)
           /\ \A i \in 1..Len(first) : (first \o second)[i] = first[i]
           /\ \A i \in 1..Len(second) : (first \o second)[Len(first) + i] = second[i]
OBVIOUS

\* An entry and its size at the end of a file.
Written(file, e, n) == (file \o Body(e, n)) \o <<[entry |-> e, part |-> 0]>>

\* Where the parts of the entry and its size are.
LEMMA WrittenUnits ==
    ASSUME NEW file \in Seq(Unit), NEW e \in EntryId, NEW n \in Length
    PROVE  /\ Written(file, e, n) \in Seq(Unit)
           /\ Len(Written(file, e, n)) = Len(file) + n + 1
           /\ \A p \in 1..Len(file) : Written(file, e, n)[p] = file[p]
           /\ \A i \in 1..n : Written(file, e, n)[Len(file) + i] = [entry |-> e, part |-> i]
           /\ Written(file, e, n)[Len(file) + n + 1] = [entry |-> e, part |-> 0]
<1> DEFINE body == Body(e, n)
           size == <<[entry |-> e, part |-> 0]>>
           both == file \o body
           all == both \o size
<1>1. n \in Nat /\ Len(file) \in Nat
  BY LengthAssumption
<1>2. body \in Seq(Unit) /\ Len(body) = n /\ \A i \in 1..n : body[i] = [entry |-> e, part |-> i]
  <2>1. \A i \in 1..n : [entry |-> e, part |-> i] \in Unit
    BY <1>1 DEF Unit, Part
  <2> QED BY <1>1, <2>1 DEF Body
<1>3. size \in Seq(Unit) /\ Len(size) = 1 /\ size[1] = [entry |-> e, part |-> 0]
  <2>1. [entry |-> e, part |-> 0] \in Unit
    BY DEF Unit, Part
  <2> QED BY <2>1
<1> HIDE DEF body, size
<1>4. /\ both \in Seq(Unit) /\ Len(both) = Len(file) + n
      /\ \A i \in 1..Len(file) : both[i] = file[i]
      /\ \A i \in 1..n : both[Len(file) + i] = body[i]
  <2>1. body \in Seq(Unit) /\ Len(body) = n
    BY <1>2
  <2> QED BY <2>1, Joined, Zenon
<1> HIDE DEF both
<1>5. /\ all \in Seq(Unit) /\ Len(all) = Len(both) + 1
      /\ \A i \in 1..Len(both) : all[i] = both[i]
      /\ \A i \in 1..1 : all[Len(both) + i] = size[i]
  <2>1. both \in Seq(Unit) /\ size \in Seq(Unit)
    BY <1>3, <1>4
  <2>2. /\ all \in Seq(Unit) /\ Len(all) = Len(both) + Len(size)
        /\ \A i \in 1..Len(both) : all[i] = both[i]
        /\ \A i \in 1..Len(size) : all[Len(both) + i] = size[i]
    BY <2>1, Joined, Zenon
  <2> QED BY <1>3, <2>2, Zenon
<1> HIDE DEF all
<1>6. Len(all) = Len(file) + n + 1
  BY <1>1, <1>4, <1>5
<1>7. \A p \in 1..Len(file) : all[p] = file[p]
  <2>1. \A p \in 1..Len(file) : p \in 1..Len(both)
    BY <1>1, <1>4
  <2> QED BY <1>4, <1>5, <2>1
<1>8. \A i \in 1..n : all[Len(file) + i] = [entry |-> e, part |-> i]
  <2>1. \A i \in 1..n : Len(file) + i \in 1..Len(both)
    BY <1>1, <1>4
  <2> QED BY <1>2, <1>4, <1>5, <2>1
<1>9. all[Len(file) + n + 1] = [entry |-> e, part |-> 0]
  <2>1. 1 \in 1..1
    OBVIOUS
  <2> QED BY <1>3, <1>4, <1>5, <2>1
<1>10. Written(file, e, n) = all
  BY DEF Written, all, both, body, size
<1> QED BY <1>5, <1>6, <1>7, <1>8, <1>9, <1>10

\* The lengths of entries.
LEMMA EntryLength ==
    ASSUME NEW made \in Seq(Entry), NEW e \in DOMAIN made
    PROVE  made[e].length \in Length /\ made[e].length \in Nat \ {0}
<1>1. made[e] \in Entry
  OBVIOUS
<1>2. made[e].length \in Length
  BY <1>1 DEF Entry
<1> QED BY <1>2, LengthAssumption

\* A file of known entries and one more has known entries.
LEMMA WrittenKnown ==
    ASSUME NEW made \in Seq(Entry), NEW file \in Seq(Unit), Known(made, file),
           NEW new \in Seq(Entry), Grown(made, new),
           NEW e \in EntryId, e \in DOMAIN new, NEW n \in Length
    PROVE  Known(new, Written(file, e, n))
<1> DEFINE all == Written(file, e, n)
           N == Len(file)
<1>1. /\ all \in Seq(Unit) /\ Len(all) = N + n + 1
      /\ \A p \in 1..N : all[p] = file[p]
      /\ \A i \in 1..n : all[N + i] = [entry |-> e, part |-> i]
      /\ all[N + n + 1] = [entry |-> e, part |-> 0]
  BY WrittenUnits
<1>2. n \in Nat /\ N \in Nat
  BY LengthAssumption
<1> HIDE DEF all
<1>3. \A p \in 1..N : all[p].entry \in DOMAIN new
  <2> SUFFICES ASSUME NEW p \in 1..N PROVE all[p].entry \in DOMAIN new
    OBVIOUS
  <2>1. p \in DOMAIN file /\ all[p] = file[p]
    BY <1>1
  <2>2. file[p].entry \in DOMAIN made
    BY <2>1 DEF Known
  <2> QED BY <2>1, <2>2 DEF Grown
<1> HIDE DEF N
<1>4. \A i \in 1..n : all[N + i].entry \in DOMAIN new
  <2> SUFFICES ASSUME NEW i \in 1..n PROVE all[N + i].entry \in DOMAIN new
    OBVIOUS
  <2>1. all[N + i] = [entry |-> e, part |-> i]
    BY <1>1
  <2> QED BY <2>1
<1>5. all[N + n + 1].entry \in DOMAIN new
  BY <1>1
<1>6. \A p \in 1..N + n + 1 : p \in 1..N \/ p = N + n + 1 \/ \E i \in 1..n : p = N + i
  <2> SUFFICES ASSUME NEW p \in 1..N + n + 1, p \notin 1..N, p # N + n + 1
               PROVE  \E i \in 1..n : p = N + i
    OBVIOUS
  <2>1. p - N \in 1..n /\ p = N + (p - N)
    BY <1>2
  <2> QED BY <2>1
<1>7. DOMAIN all = 1..N + n + 1
  BY <1>1
<1>8. \A p \in DOMAIN all : all[p].entry \in DOMAIN new
  BY <1>3, <1>4, <1>5, <1>6, <1>7, Zenon
<1> QED BY <1>8 DEF Known, all

\* What the walk finds when it comes to an entry of its transaction, given what it
\* finds before it.
Given(made, e, rest) ==
    IF made[e].op = "BEGIN" THEN Finished
    ELSE [seen |-> <<e>> \o rest.seen, readable |-> rest.readable]

\* The walk gives such an entry to the callback and goes on before it, or ends
\* with it when it is the BEGIN of its transaction.
LEMMA WalkWritten ==
    ASSUME NEW made \in Seq(Entry), NEW new \in Seq(Entry), Grown(made, new),
           NEW file \in Seq(Unit), Known(made, file), NEW t, NEW older \in Result,
           NEW e \in DOMAIN new, e \in EntryId, new[e].txn = t
    PROVE  WalkFile(new, Written(file, e, new[e].length), t, older) =
              Given(new, e, WalkFile(made, file, t, older))
<1> DEFINE n == new[e].length
           N == Len(file)
           end == N + n + 1
<1>1. n \in Length /\ n \in Nat \ {0}
  BY EntryLength
<1>2. N \in Nat
  OBVIOUS
<1> HIDE DEF n
<1>0. PICK longer : longer = Written(file, e, n)
  OBVIOUS
<1>3. /\ longer \in Seq(Unit) /\ Len(longer) = end
      /\ \A p \in 1..N : longer[p] = file[p]
      /\ \A i \in 1..n : longer[N + i] = [entry |-> e, part |-> i]
      /\ longer[end] = [entry |-> e, part |-> 0]
  BY <1>0, <1>1, WrittenUnits
<1>4. Known(new, longer)
  BY <1>0, <1>1, WrittenKnown
<1>5. PICK v : /\ InnerLoop(new, longer, t, older, v)
               /\ WalkFile(new, longer, t, older) = v[Len(longer)]
               /\ WalkFile(made, file, t, older) = v[N]
  <2>1. longer \in Seq(Unit) /\ Len(file) <= Len(longer)
    BY <1>1, <1>2, <1>3
  <2>2. \A p \in 1..Len(file) : longer[p] = file[p]
    BY <1>3
  <2> QED BY <1>4, <2>1, <2>2, WalkPrefix
<1> HIDE DEF N
<1>8. /\ end # 0 /\ end \in 0..Len(longer) /\ end - 1 = N + n /\ n < end
      /\ end - n = N + 1 /\ end - 1 - n = N /\ \A i \in 1..n : end - n + i - 1 = N + i
      /\ n \in 1..n /\ 1 \in 1..n
  BY <1>1, <1>2, <1>3
<1> HIDE DEF end
<1>9. longer[end - 1] = [entry |-> e, part |-> n] /\ longer[end - n] = [entry |-> e, part |-> 1]
  <2>1. longer[N + n] = [entry |-> e, part |-> n]
    BY <1>3, <1>8
  <2>2. longer[N + 1] = [entry |-> e, part |-> 1]
    BY <1>3, <1>8
  <2> QED BY <1>8, <2>1, <2>2
<1>10. new[longer[end].entry].length = n
  BY <1>3 DEF n
<1>11. WholeEntry(new, longer, end)
  <2>1. \A i \in 1..n : longer[end - n + i - 1] = [entry |-> longer[end - n].entry, part |-> i]
    <3> SUFFICES ASSUME NEW i \in 1..n
                 PROVE  longer[end - n + i - 1] = [entry |-> longer[end - n].entry, part |-> i]
      OBVIOUS
    <3>1. longer[N + i] = [entry |-> e, part |-> i] /\ end - n + i - 1 = N + i
      BY <1>3, <1>8
    <3> QED BY <1>9, <3>1
  <2>2. longer[end].part = 0
    BY <1>3
  <2> QED BY <1>8, <1>10, <2>1, <2>2 DEF WholeEntry
<1>12. v[end] = IF new[e].op = "BEGIN" THEN Finished
                ELSE [seen |-> <<e>> \o v[N].seen, readable |-> v[N].readable]
  <2>1. v[end] = AtPosition(new, longer, t, older, v, end)
    BY <1>5, <1>8 DEF InnerLoop
  <2>2. longer[end - 1].entry = e
    BY <1>9
  <2> QED BY <1>8, <1>10, <1>11, <2>1, <2>2 DEF AtPosition
<1>13. WalkFile(new, longer, t, older) = v[end]
  BY <1>3, <1>5
<1> QED BY <1>0, <1>5, <1>12, <1>13 DEF n, Given

\* The files of a database hold units of entries that have been made.
AllKnown(made, fs) == \A i \in DOMAIN fs : Known(made, fs[i])

\* w holds what the outer loop makes at every file from the oldest to number n.
OuterLoop(made, fs, n, t, w) ==
    /\ w \in [0..n -> Result]
    /\ \A i \in 0..n : w[i] = IF i = 0 THEN Finished ELSE WalkFile(made, fs[i], t, w[i - 1])

\* The walk is what some such w holds at the last file.
IsWalk(made, fs, n, t) == \E w : OuterLoop(made, fs, n, t, w) /\ Walk(made, fs, n, t) = w[n]

\* The inner loop makes a result.
LEMMA WalkFileType ==
    ASSUME NEW made \in Seq(Entry), NEW file \in Seq(Unit), Known(made, file), NEW t,
           NEW older \in Result
    PROVE  WalkFile(made, file, t, older) \in Result
<1>1. PICK w : InnerLoop(made, file, t, older, w) /\ WalkFile(made, file, t, older) = w[Len(file)]
  BY WalkFileFacts
<1>2. Len(file) \in 0..Len(file)
  OBVIOUS
<1> QED BY <1>1, <1>2 DEF InnerLoop

\* The outer loop is the recursion that its definition states.
LEMMA WalkFacts ==
    ASSUME NEW made \in Seq(Entry), NEW fs \in Seq(Seq(Unit)), AllKnown(made, fs), NEW t,
           NEW n \in 0..Len(fs)
    PROVE  IsWalk(made, fs, n, t)
<1> DEFINE At(i, f) == IF i = 0 THEN Finished ELSE WalkFile(made, fs[i], t, f[i - 1])
           w == CHOOSE f : f = [i \in 0..n |-> At(i, f)]
           G == [i \in 0..n |-> [f \in [0..n -> Result] |-> At(i, f)]]
<1>1. Walk(made, fs, n, t) = w[n]
  BY DEF Walk
<1>2. n \in Nat /\ Finished \in Result
  BY DEF Result, Finished
<1>3. \A i \in 0..n : \A f : (i # 0 => f[i - 1] \in Result) => At(i, f) \in Result
  <2> SUFFICES ASSUME NEW i \in 0..n, NEW f, i # 0, f[i - 1] \in Result
               PROVE  WalkFile(made, fs[i], t, f[i - 1]) \in Result
    BY <1>2
  <2>1. fs[i] \in Seq(Unit) /\ Known(made, fs[i])
    <3>1. i \in DOMAIN fs
      BY <1>2
    <3> QED BY <3>1 DEF AllKnown
  <2> QED BY <2>1, WalkFileType
<1>4. \A i \in 0..n, f \in [0..n -> Result] : G[i][f] = At(i, f)
  OBVIOUS
<1>5. G \in [0..n -> [[0..n -> Result] -> Result]]
  <2>1. \A i \in 0..n, f \in [0..n -> Result] : At(i, f) \in Result
    <3> SUFFICES ASSUME NEW i \in 0..n, NEW f \in [0..n -> Result] PROVE At(i, f) \in Result
      OBVIOUS
    <3>1. i # 0 => f[i - 1] \in Result
      BY <1>2
    <3> HIDE DEF At
    <3> QED BY <1>3, <3>1
  <2> HIDE DEF At
  <2> QED BY <2>1
<1>6. LooksBack(n, Result, G)
  <2> SUFFICES ASSUME NEW i \in 0..n, NEW f \in [0..n -> Result], NEW g \in [0..n -> Result],
                      \A m \in 0..i - 1 : f[m] = g[m]
               PROVE  G[i][f] = G[i][g]
    BY <1>5 DEF LooksBack
  <2>1. i # 0 => f[i - 1] = g[i - 1]
    BY <1>2
  <2> HIDE DEF G
  <2> QED BY <1>4, <2>1
<1> HIDE DEF G, At
<1>7. PICK f \in [0..n -> Result] : \A i \in 0..n : f[i] = G[i][f]
  <2>1. HasFunction(n, Result, G)
    BY <1>2, <1>6, Recursion
  <2> QED BY <2>1, Zenon DEF HasFunction
<1>8. f = [i \in 0..n |-> At(i, f)]
  BY <1>4, <1>7
<1>9. w = [i \in 0..n |-> At(i, w)]
  BY <1>8, Zenon
<1> HIDE DEF w
<1>10. \A i \in 0..n : w[i] \in Result
  <2> DEFINE T == {i \in 0..n : w[i] \notin Result}
  <2> SUFFICES ASSUME T # {} PROVE FALSE
    OBVIOUS
  <2>1. T \subseteq Nat
    BY <1>2
  <2> HIDE DEF T
  <2>2. PICK i \in T : \A q \in T : i <= q
    BY <2>1, Least
  <2>3. i \in 0..n /\ w[i] \notin Result
    BY <2>2 DEF T
  <2>4. i # 0 => w[i - 1] \in Result
    BY <1>2, <2>2, <2>3 DEF T
  <2>5. At(i, w) \in Result
    BY <1>3, <2>3, <2>4
  <2> QED BY <1>9, <2>3, <2>5
<1>11. OuterLoop(made, fs, n, t, w)
  <2>1. w \in [0..n -> Result]
    BY <1>9, <1>10
  <2>2. \A i \in 0..n : w[i] = At(i, w)
    BY <1>9, Zenon
  <2> QED BY <2>1, <2>2 DEF OuterLoop, At
<1> QED BY <1>1, <1>11 DEF IsWalk

\* The first files of gs, n of them, are those of fs.
Agree(fs, gs, n) == \A i \in 1..n : gs[i] = fs[i]

\* Two walks find the same up to file n.
Alike(w, v, n) == \A i \in 0..n : w[i] = v[i]

\* Files that agree up to a number are walked alike up to there.
LEMMA SameFiles ==
    ASSUME NEW made \in Seq(Entry), NEW new \in Seq(Entry), Grown(made, new),
           NEW fs \in Seq(Seq(Unit)), NEW gs \in Seq(Seq(Unit)), AllKnown(made, fs),
           NEW n \in 0..Len(fs), NEW m \in Nat, n <= m, Agree(fs, gs, n),
           NEW t,
           NEW w, OuterLoop(made, fs, n, t, w),
           NEW v, OuterLoop(new, gs, m, t, v)
    PROVE  Alike(w, v, n)
<1> SUFFICES \A i \in 0..n : w[i] = v[i]
  BY DEF Alike
<1> DEFINE T == {i \in 0..n : w[i] # v[i]}
<1> SUFFICES ASSUME T # {} PROVE FALSE
  OBVIOUS
<1>1. T \subseteq Nat
  OBVIOUS
<1> HIDE DEF T
<1>2. PICK i \in T : \A j \in T : i <= j
  BY <1>1, Least
<1>3. i \in 0..n /\ w[i] # v[i] /\ i \in 0..m
  BY <1>2 DEF T
<1>4. /\ w[i] = IF i = 0 THEN Finished ELSE WalkFile(made, fs[i], t, w[i - 1])
      /\ v[i] = IF i = 0 THEN Finished ELSE WalkFile(new, gs[i], t, v[i - 1])
  BY <1>3 DEF OuterLoop
<1>5. i # 0
  BY <1>3, <1>4
<1>6. i - 1 \in 0..n /\ i - 1 \notin T
  BY <1>1, <1>2, <1>3, <1>5
<1>7. w[i - 1] = v[i - 1] /\ w[i - 1] \in Result
  BY <1>6 DEF T, OuterLoop
<1>8. fs[i] \in Seq(Unit) /\ Known(made, fs[i]) /\ gs[i] = fs[i]
  <2>1. i \in DOMAIN fs /\ i \in 1..n
    BY <1>3, <1>5
  <2> QED BY <2>1 DEF AllKnown, Agree
<1>9. WalkFile(new, fs[i], t, w[i - 1]) = WalkFile(made, fs[i], t, w[i - 1])
  BY <1>7, <1>8, WalkFileSame
<1> QED BY <1>3, <1>4, <1>5, <1>7, <1>8, <1>9

\* The walk makes a result.
LEMMA WalkType ==
    ASSUME NEW made \in Seq(Entry), NEW fs \in Seq(Seq(Unit)), AllKnown(made, fs), NEW t,
           NEW n \in 0..Len(fs)
    PROVE  Walk(made, fs, n, t) \in Result
<1>1. IsWalk(made, fs, n, t)
  BY WalkFacts
<1>2. PICK w : OuterLoop(made, fs, n, t, w) /\ Walk(made, fs, n, t) = w[n]
  BY <1>1 DEF IsWalk
<1>3. n \in 0..n
  OBVIOUS
<1> QED BY <1>2, <1>3 DEF OuterLoop

\* The walk from number n depends on the files up to n and on no entry made since.
LEMMA WalkSame ==
    ASSUME NEW made \in Seq(Entry), NEW new \in Seq(Entry), Grown(made, new),
           NEW fs \in Seq(Seq(Unit)), NEW gs \in Seq(Seq(Unit)),
           AllKnown(made, fs), AllKnown(new, gs),
           NEW n \in 0..Len(fs), n <= Len(gs), Agree(fs, gs, n), NEW t
    PROVE  Walk(new, gs, n, t) = Walk(made, fs, n, t)
<1>1. n \in 0..Len(gs) /\ n \in Nat /\ n <= n /\ n \in 0..n
  OBVIOUS
<1>2. IsWalk(made, fs, n, t)
  BY WalkFacts
<1>3. PICK w : OuterLoop(made, fs, n, t, w) /\ Walk(made, fs, n, t) = w[n]
  BY <1>2 DEF IsWalk
<1>4. IsWalk(new, gs, n, t)
  BY <1>1, WalkFacts
<1>5. PICK v : OuterLoop(new, gs, n, t, v) /\ Walk(new, gs, n, t) = v[n]
  BY <1>4 DEF IsWalk
<1>6. Alike(w, v, n)
  BY <1>1, <1>3, <1>5, SameFiles
<1> QED BY <1>1, <1>3, <1>5, <1>6 DEF Alike

\* The walk from a file goes on to the one before.
LEMMA WalkStep ==
    ASSUME NEW made \in Seq(Entry), NEW fs \in Seq(Seq(Unit)), AllKnown(made, fs), NEW t,
           NEW n \in 1..Len(fs)
    PROVE  Walk(made, fs, n, t) = WalkFile(made, fs[n], t, Walk(made, fs, n - 1, t))
<1>1. PICK k : k = n - 1
  OBVIOUS
<1>2. /\ n \in 0..Len(fs) /\ k \in 0..Len(fs) /\ k <= n /\ n \in Nat
      /\ n \in 0..n /\ k \in 0..k /\ n # 0
  BY <1>1
<1>3. IsWalk(made, fs, k, t) /\ IsWalk(made, fs, n, t)
  BY <1>2, WalkFacts
<1>4. PICK w : OuterLoop(made, fs, k, t, w) /\ Walk(made, fs, k, t) = w[k]
  BY <1>3 DEF IsWalk
<1>5. PICK v : OuterLoop(made, fs, n, t, v) /\ Walk(made, fs, n, t) = v[n]
  BY <1>3 DEF IsWalk
<1>6. Grown(made, made) /\ Agree(fs, fs, k)
  BY DEF Grown, Agree
<1>7. Alike(w, v, k)
  BY <1>2, <1>4, <1>5, <1>6, SameFiles
<1>8. v[n] = WalkFile(made, fs[n], t, v[k])
  BY <1>1, <1>2, <1>5 DEF OuterLoop
<1> QED BY <1>1, <1>2, <1>4, <1>5, <1>7, <1>8 DEF Alike

-----------------------------------------------------------------------------
(* Types *)

\* A database has one file more than there are entries at most, and then the
\* last one is empty: a file is added only when the last holds something.
FewFiles(d) ==
    /\ Len(files[d]) <= Len(entries) + 1
    /\ Len(files[d]) = Len(entries) + 1 => files[d][Len(files[d])] = <<>>

\* What a session in a transaction relies on: that it has an entry, and that the
\* file it is writing to is there and is not a new one that has to stay empty.
InTransaction(s) ==
    LET d == session[s].database
    IN /\ session[s].step # "idle" => session[s].txn # NoTxn
       /\ session[s].step = "size" =>
             /\ \E e \in DOMAIN entries : entries[e].txn = session[s].txn
             /\ session[s].file \in DOMAIN files[d]
             /\ Len(files[d]) = Len(entries) + 1 => session[s].file < Len(files[d])

\* The inductive invariant behind the types.
TypeInv ==
    /\ TypeOK
    /\ \A d \in Database : AllKnown(entries, files[d]) /\ FewFiles(d)
    /\ countFile <= Len(entries) + 1
    /\ \A s \in Session : InTransaction(s)

\* Emptying files and adding empty ones leaves known units only.
LEMMA EmptiedKnown ==
    ASSUME NEW made, NEW fs, AllKnown(made, fs), NEW gs,
           \A j \in DOMAIN gs : gs[j] = <<>> \/ (j \in DOMAIN fs /\ gs[j] = fs[j])
    PROVE  AllKnown(made, gs)
<1> SUFFICES ASSUME NEW j \in DOMAIN gs PROVE Known(made, gs[j])
  BY DEF AllKnown
<1>1. CASE gs[j] = <<>>
  BY <1>1 DEF Known
<1>2. CASE j \in DOMAIN fs /\ gs[j] = fs[j]
  BY <1>2 DEF AllKnown
<1> QED BY <1>1, <1>2

\* What getCurrentFileIndex leaves: the files fs, of which number i is the one to
\* write to.
Opens(d, fs, i) ==
    /\ fs = FilesWithIndex(d) /\ i = FileIndex(d)
    /\ fs \in Seq(Seq(Unit)) /\ i \in DOMAIN fs
    /\ \/ Len(fs) = Len(files[d])
       \/ Len(fs) = Len(files[d]) + 1 /\ i = Len(fs)
    /\ Len(fs) <= Len(entries) + 1
    /\ Len(fs) = Len(entries) + 1 => fs[Len(fs)] = <<>>
    /\ AllKnown(entries, fs)

\* A sequence has a place for each number up to its length.
LEMMA SeqDomain ==
    ASSUME NEW S, NEW q \in Seq(S)
    PROVE  Len(q) \in Nat /\ DOMAIN q = 1..Len(q)
OBVIOUS

\* getCurrentFileIndex names a file that is there once it returns.
LEMMA Opening ==
    ASSUME TypeInv, NEW d \in Database, ~FileMissing(d)
    PROVE  Opens(d, FilesWithIndex(d), FileIndex(d))
<1> DEFINE fs == FilesWithIndex(d)
           i == FileIndex(d)
           c == Counted(d)
           N == Len(files[d])
           E == Len(entries)
<1>1. /\ files[d] \in Seq(Seq(Unit)) /\ countFile \in Nat /\ FileLimit \in Nat
      /\ E \in Nat /\ N \in Nat
  BY LimitAssumption DEF TypeInv, TypeOK
<1>2. c \in 0..N
  BY <1>1 DEF FileMissing, Counted
<1>3. /\ N <= E + 1 /\ (N = E + 1 => files[d][N] = <<>>)
      /\ AllKnown(entries, files[d])
  BY DEF TypeInv, FewFiles
<1>4. CASE c = 0 /\ N = 0
  <2>1. i = 1 /\ fs = Append(files[d], <<>>)
    BY <1>4 DEF FileIndex, FilesWithIndex
  <2>2. files[d] = <<>>
    BY <1>1, <1>4
  <2>3. fs = << <<>> >>
    BY <2>1, <2>2
  <2> QED BY <1>1, <1>4, <2>1, <2>3 DEF Opens, AllKnown, Known
<1>5. CASE c = 0 /\ N # 0
  <2>1. i = 1 /\ 1 \in 1..N
    BY <1>1, <1>5 DEF FileIndex
  <2>2. fs = [files[d] EXCEPT ![1] = <<>>]
    BY <1>1, <1>5, <2>1 DEF FilesWithIndex
  <2> HIDE DEF fs, i, c
  <2>3. /\ fs \in Seq(Seq(Unit)) /\ Len(fs) = N /\ fs[1] = <<>>
        /\ \A j \in 1..N : j # 1 => fs[j] = files[d][j]
    BY <1>1, <2>1, <2>2
  <2>4. AllKnown(entries, fs)
    <3>1. \A j \in DOMAIN fs : fs[j] = <<>> \/ (j \in DOMAIN files[d] /\ fs[j] = files[d][j])
      <4>1. DOMAIN fs = 1..N /\ DOMAIN files[d] = 1..N
        <5>1. DOMAIN fs = 1..Len(fs)
          BY <2>3, SeqDomain, Zenon
        <5>2. DOMAIN files[d] = 1..Len(files[d])
          BY <1>1, SeqDomain, Zenon
        <5> QED BY <2>3, <5>1, <5>2, Zenon
      <4> QED BY <2>3, <4>1, Zenon
    <3> QED BY <1>3, <3>1, EmptiedKnown
  <2>5. N = E + 1 => fs[N] = <<>>
    BY <1>1, <1>3, <2>1, <2>3
  <2> QED BY <1>1, <1>3, <2>1, <2>3, <2>4, <2>5 DEF Opens, fs, i
<1>6. CASE c # 0 /\ Len(files[d][c]) <= FileLimit
  <2>1. files[d][c] \in Seq(Unit)
    BY <1>1, <1>2, <1>6
  <2>2. i = c
    BY <1>1, <1>6, <2>1 DEF FileIndex
  <2>3. fs = files[d]
    BY <1>1, <1>2, <1>6, <2>2 DEF FilesWithIndex
  <2> HIDE DEF fs, i, c
  <2> QED BY <1>1, <1>2, <1>3, <1>6, <2>2, <2>3 DEF Opens, fs, i
<1>7. CASE c # 0 /\ Len(files[d][c]) > FileLimit
  <2>1. i = c + 1
    BY <1>7 DEF FileIndex
  <2>2. files[d][c] \in Seq(Unit) /\ files[d][c] # <<>>
    <3>1. files[d][c] \in Seq(Unit)
      BY <1>1, <1>2, <1>7
    <3> QED BY <1>1, <1>7, <3>1
  <2>3. CASE c = N
    <3>1. fs = Append(files[d], <<>>)
      BY <1>1, <2>1, <2>3 DEF FilesWithIndex
    <3>2. N <= E
      BY <1>1, <1>3, <2>2, <2>3
    <3> HIDE DEF fs, i, c
    <3>3. /\ fs \in Seq(Seq(Unit)) /\ Len(fs) = N + 1 /\ fs[N + 1] = <<>>
          /\ \A j \in 1..N : fs[j] = files[d][j]
      BY <1>1, <3>1
    <3>4. AllKnown(entries, fs)
      <4>1. \A j \in DOMAIN fs : fs[j] = <<>> \/ (j \in DOMAIN files[d] /\ fs[j] = files[d][j])
        <5>1. DOMAIN fs = 1..N + 1 /\ DOMAIN files[d] = 1..N
          <6>1. DOMAIN fs = 1..Len(fs)
            BY <3>3, SeqDomain, Zenon
          <6>2. DOMAIN files[d] = 1..Len(files[d])
            BY <1>1, SeqDomain, Zenon
          <6> QED BY <3>3, <6>1, <6>2, Zenon
        <5>2. \A j \in 1..N + 1 : j = N + 1 \/ j \in 1..N
          BY <1>1
        <5> QED BY <3>3, <5>1, <5>2, Zenon
      <4> QED BY <1>3, <4>1, EmptiedKnown
    <3> QED BY <1>1, <2>1, <2>3, <3>2, <3>3, <3>4 DEF Opens, fs, i
  <2>4. CASE c # N
    <3>1. i \in 1..N /\ i > c
      BY <1>1, <1>2, <2>1, <2>4
    <3>2. fs = [files[d] EXCEPT ![i] = <<>>]
      BY <1>1, <3>1 DEF FilesWithIndex
    <3> HIDE DEF fs, i, c
    <3>3. /\ fs \in Seq(Seq(Unit)) /\ Len(fs) = N /\ fs[i] = <<>>
          /\ \A j \in 1..N : j # i => fs[j] = files[d][j]
      BY <1>1, <3>1, <3>2
    <3>4. AllKnown(entries, fs)
      <4>1. \A j \in DOMAIN fs : fs[j] = <<>> \/ (j \in DOMAIN files[d] /\ fs[j] = files[d][j])
        <5>1. DOMAIN fs = 1..N /\ DOMAIN files[d] = 1..N
          <6>1. DOMAIN fs = 1..Len(fs)
            BY <3>3, SeqDomain, Zenon
          <6>2. DOMAIN files[d] = 1..Len(files[d])
            BY <1>1, SeqDomain, Zenon
          <6> QED BY <3>3, <6>1, <6>2, Zenon
        <5> QED BY <3>3, <5>1, Zenon
      <4> QED BY <1>3, <4>1, EmptiedKnown
    <3>5. N = E + 1 => fs[N] = <<>>
      <4>1. CASE N = i
        BY <3>3, <4>1
      <4>2. CASE N # i
        <5>1. N \in 1..N
          BY <1>1, <3>1
        <5>2. fs[N] = files[d][N]
          BY <3>3, <4>2, <5>1
        <5> QED BY <1>3, <5>2
      <4> QED BY <4>1, <4>2
    <3> QED BY <1>1, <1>3, <3>1, <3>3, <3>4, <3>5 DEF Opens, fs, i
  <2> QED BY <2>3, <2>4
<1>8. Len(files[d][c]) <= FileLimit \/ Len(files[d][c]) > FileLimit \/ c = 0
  <2>1. CASE c # 0
    <3>1. files[d][c] \in Seq(Unit)
      BY <1>1, <1>2, <2>1
    <3>2. Len(files[d][c]) \in Nat
      BY <3>1
    <3> HIDE DEF c
    <3> QED BY <1>1, <3>2
  <2> QED BY <2>1
<1> QED BY <1>4, <1>5, <1>6, <1>7, <1>8

\* gs are the files fs with units written at the end of number i.
Appends(fs, i, units, gs) == gs = [fs EXCEPT ![i] = @ \o units]

\* A file that is written to at its end.
LEMMA FileAppended ==
    ASSUME NEW made \in Seq(Entry), NEW fs \in Seq(Seq(Unit)), AllKnown(made, fs),
           NEW i \in DOMAIN fs, NEW units \in Seq(Unit), Known(made, units),
           NEW gs, Appends(fs, i, units, gs)
    PROVE  /\ gs \in Seq(Seq(Unit)) /\ Len(gs) = Len(fs)
           /\ gs[i] = fs[i] \o units
           /\ \A j \in DOMAIN fs : j # i => gs[j] = fs[j]
           /\ AllKnown(made, gs)
<1>1. fs[i] \in Seq(Unit) /\ Known(made, fs[i])
  BY DEF AllKnown
<1>2. /\ fs[i] \o units \in Seq(Unit) /\ Len(fs[i] \o units) = Len(fs[i]) + Len(units)
      /\ \A j \in 1..Len(fs[i]) : (fs[i] \o units)[j] = fs[i][j]
      /\ \A j \in 1..Len(units) : (fs[i] \o units)[Len(fs[i]) + j] = units[j]
  BY <1>1, Joined
<1>3. Known(made, fs[i] \o units)
  <2> SUFFICES ASSUME NEW p \in 1..Len(fs[i]) + Len(units)
               PROVE  (fs[i] \o units)[p].entry \in DOMAIN made
    BY <1>2 DEF Known
  <2>1. Len(fs[i]) \in Nat /\ Len(units) \in Nat
    BY <1>1
  <2>2. CASE p \in 1..Len(fs[i])
    BY <1>1, <1>2, <2>2 DEF Known
  <2>3. CASE p \notin 1..Len(fs[i])
    <3>1. PICK j : j = p - Len(fs[i])
      OBVIOUS
    <3>2. j \in 1..Len(units) /\ p = Len(fs[i]) + j
      BY <2>1, <2>3, <3>1
    <3>3. (fs[i] \o units)[p] = units[j]
      BY <1>2, <3>2
    <3> QED BY <3>2, <3>3 DEF Known
  <2> QED BY <2>2, <2>3
<1>4. PICK file : file = fs[i] \o units
  OBVIOUS
<1>5. gs = [fs EXCEPT ![i] = file]
  BY <1>4 DEF Appends
<1>6. file \in Seq(Unit)
  BY <1>2, <1>4
<1>7. /\ gs \in Seq(Seq(Unit)) /\ Len(gs) = Len(fs)
      /\ gs[i] = file
      /\ \A j \in DOMAIN fs : j # i => gs[j] = fs[j]
  BY <1>5, <1>6
<1>8. AllKnown(made, gs)
  <2> SUFFICES ASSUME NEW j \in DOMAIN gs PROVE Known(made, gs[j])
    BY DEF AllKnown
  <2>1. j \in DOMAIN fs
    BY <1>7
  <2> QED BY <1>3, <1>4, <1>7, <2>1 DEF AllKnown
<1> QED BY <1>4, <1>7, <1>8

\* What is known of the entries made so far stays known.
LEMMA KnownGrown ==
    ASSUME NEW made, NEW new, Grown(made, new), NEW fs, AllKnown(made, fs)
    PROVE  AllKnown(new, fs)
BY DEF AllKnown, Known, Grown

\* What the first write of an entry does to the log: the entry is added, and
\* files[d] becomes the files fs that were opened with the body at the end of number i.
Wrote(d, i, fs, txn, op, length) ==
    /\ countFile' = i /\ i \in DOMAIN fs
    /\ NewEntry \in EntryId
    /\ entries' = Append(entries, [txn |-> txn, op |-> op, length |-> length])
    /\ entries' \in Seq(Entry) /\ Len(entries') = Len(entries) + 1
    /\ Len(entries') <= MaxEntries
    /\ entries'[NewEntry] = [txn |-> txn, op |-> op, length |-> length]
    /\ Grown(entries, entries')
    /\ files' = [files EXCEPT ![d] = [fs EXCEPT ![i] = @ \o Body(NewEntry, length)]]
    /\ files' \in [Database -> Seq(Seq(Unit))]
    /\ \A e \in Database : /\ AllKnown(entries', files'[e])
                           /\ Len(files'[e]) <= Len(entries')
                           /\ Len(files[e]) <= Len(files'[e])
                           /\ e # d => files'[e] = files[e]
    /\ Len(files'[d]) = Len(fs)
    /\ files'[d][i] = fs[i] \o Body(NewEntry, length)
    /\ \A j \in DOMAIN fs : j # i => files'[d][j] = fs[j]
    /\ up' = up

\* The parts of a new entry.
LEMMA BodyUnits ==
    ASSUME NEW made, NEW e \in EntryId, e \in DOMAIN made, NEW n \in Length
    PROVE  /\ Body(e, n) \in Seq(Unit) /\ Len(Body(e, n)) = n /\ Known(made, Body(e, n))
<1>1. n \in Nat
  BY LengthAssumption
<1>2. \A i \in 1..n : [entry |-> e, part |-> i] \in Unit
  BY <1>1 DEF Unit, Part
<1> QED BY <1>1, <1>2 DEF Body, Known

\* The first write keeps the types of the log.
LEMMA WriteBodyFacts ==
    ASSUME TypeInv, NEW d \in Database, NEW txn \in Nat \ {NoTxn}, NEW op \in OperationType,
           NEW length \in Length, WriteBody(d, txn, op, length)
    PROVE  /\ Opens(d, FilesWithIndex(d), FileIndex(d))
           /\ Wrote(d, FileIndex(d), FilesWithIndex(d), txn, op, length)
<1>1. PICK fs : fs = FilesWithIndex(d)
  OBVIOUS
<1>2. PICK i : i = FileIndex(d)
  OBVIOUS
<1>3. Opens(d, fs, i)
  BY <1>1, <1>2, Opening DEF WriteBody
<1>4. /\ entries \in Seq(Entry) /\ Len(entries) < MaxEntries /\ MaxEntries \in Nat
      /\ Len(entries) \in Nat
      /\ files \in [Database -> Seq(Seq(Unit))]
  BY LimitAssumption DEF TypeInv, TypeOK, WriteBody
<1>5. [txn |-> txn, op |-> op, length |-> length] \in Entry
  BY DEF Entry
<1>6. /\ entries' = Append(entries, [txn |-> txn, op |-> op, length |-> length])
      /\ entries' \in Seq(Entry) /\ Len(entries') = Len(entries) + 1
      /\ Len(entries') <= MaxEntries
      /\ entries'[NewEntry] = [txn |-> txn, op |-> op, length |-> length]
      /\ NewEntry \in EntryId /\ NewEntry \in DOMAIN entries'
      /\ Grown(entries, entries')
  <2>1. entries' = Append(entries, [txn |-> txn, op |-> op, length |-> length])
    BY DEF WriteBody
  <2> QED BY <1>4, <1>5, <2>1 DEF Grown, NewEntry, EntryId
<1>7. PICK new : new = entries'
  OBVIOUS
<1>8. PICK body : body = Body(NewEntry, length)
  OBVIOUS
<1>9. body \in Seq(Unit) /\ Known(new, body)
  BY <1>6, <1>7, <1>8, BodyUnits
<1>10. new \in Seq(Entry) /\ fs \in Seq(Seq(Unit)) /\ i \in DOMAIN fs /\ AllKnown(new, fs)
  BY <1>3, <1>6, <1>7, KnownGrown DEF Opens
<1>11. PICK gs : gs = [fs EXCEPT ![i] = @ \o body]
  OBVIOUS
<1>12. /\ gs \in Seq(Seq(Unit)) /\ Len(gs) = Len(fs)
       /\ gs[i] = fs[i] \o body
       /\ \A j \in DOMAIN fs : j # i => gs[j] = fs[j]
       /\ AllKnown(new, gs)
  <2>1. Appends(fs, i, body, gs)
    BY <1>11 DEF Appends
  <2> QED BY <1>9, <1>10, <2>1, FileAppended
<1>13. files' = [files EXCEPT ![d] = gs] /\ countFile' = i /\ up' = up
  BY <1>1, <1>2, <1>8, <1>11 DEF WriteBody
<1>14. /\ files' \in [Database -> Seq(Seq(Unit))] /\ files'[d] = gs
       /\ \A e \in Database : e # d => files'[e] = files[e]
  BY <1>4, <1>12, <1>13
<1>15. ASSUME NEW e \in Database
       PROVE  /\ AllKnown(entries', files'[e])
              /\ Len(files'[e]) <= Len(entries')
              /\ Len(files[e]) <= Len(files'[e])
  <2>1. CASE e = d
    <3>1. Len(files[d]) \in Nat
      BY <1>4
    <3>2. Len(files[d]) <= Len(fs) /\ Len(fs) <= Len(entries) + 1
      BY <1>3, <3>1 DEF Opens
    <3> QED BY <1>6, <1>7, <1>12, <1>14, <2>1, <3>2
  <2>2. CASE e # d
    <3>1. Len(files[e]) \in Nat /\ files'[e] = files[e]
      BY <1>4, <1>14, <2>2
    <3>2. AllKnown(new, files[e])
      BY <1>6, <1>7, KnownGrown DEF TypeInv
    <3> QED BY <1>6, <1>7, <3>1, <3>2 DEF TypeInv, FewFiles
  <2> QED BY <2>1, <2>2
<1>16. Wrote(d, i, fs, txn, op, length)
  BY <1>6, <1>8, <1>10, <1>11, <1>12, <1>13, <1>14, <1>15, Zenon DEF Wrote
<1> QED BY <1>1, <1>2, <1>3, <1>16

\* The entry whose size is to be written has been made, and none of the
\* transaction has been made after it.
LEMMA UnsizedFacts ==
    ASSUME TypeInv, NEW s \in Session, session[s].step = "size"
    PROVE  /\ Unsized(s) \in DOMAIN entries
           /\ entries[Unsized(s)].txn = session[s].txn
           /\ \A f \in DOMAIN entries : entries[f].txn = session[s].txn => f <= Unsized(s)
<1> DEFINE Own == {e \in DOMAIN entries : entries[e].txn = session[s].txn}
<1>1. PICK own : own = Own
  OBVIOUS
<1>2. PICK N : N = Len(entries)
  OBVIOUS
<1>3. N \in Nat /\ DOMAIN entries = 1..N
  BY <1>2 DEF TypeInv, TypeOK
<1>4. own # {}
  BY <1>1 DEF TypeInv, InTransaction
<1>5. own \subseteq 1..N
  BY <1>1, <1>3
<1>6. PICK T : T = {N - e : e \in own}
  OBVIOUS
<1>7. T \subseteq Nat /\ T # {}
  <2>1. \A e \in own : N - e \in Nat
    BY <1>3, <1>5
  <2> QED BY <1>4, <1>6, <2>1
<1>8. PICK k \in T : \A j \in T : k <= j
  BY <1>7, Least
<1>9. PICK e \in own : k = N - e
  BY <1>6, <1>8
<1>10. \A f \in own : f <= e
  <2> SUFFICES ASSUME NEW f \in own PROVE f <= e
    OBVIOUS
  <2>1. N - f \in T
    BY <1>6
  <2>2. N - e <= N - f
    BY <1>8, <1>9, <2>1
  <2> QED BY <1>3, <1>5, <2>2
<1>11. \E g \in DOMAIN entries :
          /\ entries[g].txn = session[s].txn
          /\ \A f \in DOMAIN entries : entries[f].txn = session[s].txn => f <= g
  BY <1>1, <1>9, <1>10
<1> QED BY <1>11, Zenon DEF Unsized

\* What a session is doing, of the right types.
SessionType == [step: Steps, txn: Nat, database: Database,
                file: Nat, own: Seq(EntryId), seen: Seq(EntryId)]

\* A session that begins anew has them.
LEMMA IdleType ==
    ASSUME NEW d \in Database
    PROVE  Idle(d) \in SessionType /\ Idle(d).step = "idle" /\ Idle(d).database = d
BY DEF Idle, SessionType, Steps, NoTxn

\* The types hold at the start.
LEMMA TypeInit == Init => TypeInv
<1> SUFFICES ASSUME Init PROVE TypeInv
  OBVIOUS
<1>1. session \in [Session -> SessionType] /\ \A s \in Session : session[s].step = "idle"
  <2>1. session \in [Session -> {Idle(d) : d \in Database}]
    BY DEF Init
  <2>2. \A x \in {Idle(d) : d \in Database} : x \in SessionType /\ x.step = "idle"
    BY IdleType
  <2> HIDE DEF SessionType
  <2> QED BY <2>1, <2>2
<1>2. /\ entries = <<>> /\ countFile = 0 /\ counter = 0 /\ up = TRUE
      /\ files = [d \in Database |-> <<>>]
  BY DEF Init
<1>3. entries \in Seq(Entry) /\ Len(entries) = 0
  BY <1>2
<1>4. files \in [Database -> Seq(Seq(Unit))] /\ \A d \in Database : files[d] = <<>>
  BY <1>2
<1>5. countFile \in 0..MaxEntries + 1 /\ Len(entries) <= MaxEntries
  BY <1>2, <1>3, LimitAssumption
<1>6. TypeOK
  BY <1>1, <1>2, <1>3, <1>4, <1>5 DEF TypeOK, SessionType
<1>7. \A d \in Database : AllKnown(entries, files[d]) /\ FewFiles(d)
  <2> SUFFICES ASSUME NEW d \in Database PROVE AllKnown(entries, files[d]) /\ FewFiles(d)
    OBVIOUS
  <2>1. files[d] = <<>> /\ Len(files[d]) = 0
    BY <1>4
  <2> QED BY <1>3, <2>1 DEF AllKnown, FewFiles
<1>8. \A s \in Session : InTransaction(s)
  BY <1>1 DEF InTransaction
<1> QED BY <1>2, <1>3, <1>6, <1>7, <1>8 DEF TypeInv

\* The first write of an entry keeps the types, whoever makes it.
LEMMA TypeAfterWrite ==
    ASSUME TypeInv, NEW s \in Session, NEW d \in Database,
           NEW fs, NEW i, NEW txn \in Nat \ {NoTxn}, NEW op, NEW length,
           Opens(d, fs, i), Wrote(d, i, fs, txn, op, length),
           session' \in [Session -> SessionType], counter' \in Nat,
           session'[s].step = "size" /\ session'[s].txn = txn,
           session'[s].database = d /\ session'[s].file = i,
           \A r \in Session : r # s => session'[r] = session[r]
    PROVE  TypeInv'
<1>1. PICK E : E = Len(entries)
  OBVIOUS
<1>2. E \in Nat /\ MaxEntries \in Nat /\ entries \in Seq(Entry)
  BY <1>1, LimitAssumption DEF TypeInv, TypeOK
<1>3. /\ Len(entries') = E + 1 /\ E + 1 <= MaxEntries /\ entries' \in Seq(Entry)
      /\ files' \in [Database -> Seq(Seq(Unit))]
      /\ up' \in BOOLEAN
  BY <1>1 DEF TypeInv, TypeOK, Wrote
<1>4. \A e \in Database : /\ AllKnown(entries', files'[e])
                          /\ Len(files'[e]) <= E + 1 /\ Len(files'[e]) \in Nat
                          /\ Len(files[e]) <= Len(files'[e]) /\ Len(files[e]) \in Nat
  <2> SUFFICES ASSUME NEW e \in Database
               PROVE  /\ AllKnown(entries', files'[e])
                      /\ Len(files'[e]) <= E + 1 /\ Len(files'[e]) \in Nat
                      /\ Len(files[e]) <= Len(files'[e]) /\ Len(files[e]) \in Nat
    OBVIOUS
  <2>1. files[e] \in Seq(Seq(Unit)) /\ files'[e] \in Seq(Seq(Unit))
    BY <1>3 DEF TypeInv, TypeOK
  <2>2. Len(files[e]) \in Nat /\ Len(files'[e]) \in Nat
    BY <2>1
  <2>3. /\ AllKnown(entries', files'[e]) /\ Len(files'[e]) <= Len(entries')
        /\ Len(files[e]) <= Len(files'[e])
    BY Zenon DEF Wrote
  <2> QED BY <1>3, <2>2, <2>3
<1>5. countFile' = i /\ i \in 1..Len(files'[d])
  <2>1. fs \in Seq(Seq(Unit)) /\ i \in DOMAIN fs
    BY DEF Opens
  <2>2. i \in 1..Len(fs)
    BY <2>1
  <2>3. Len(files'[d]) = Len(fs) /\ countFile' = i
    BY DEF Wrote
  <2> QED BY <2>2, <2>3
<1>6. countFile' \in 0..MaxEntries + 1 /\ countFile' <= Len(entries') + 1
  <2>1. PICK n : n = Len(files'[d])
    OBVIOUS
  <2>2. n \in Nat /\ n <= E + 1
    BY <1>4, <2>1
  <2> QED BY <1>2, <1>3, <1>5, <2>1, <2>2
<1>7. TypeOK'
  BY <1>3, <1>6 DEF TypeOK, SessionType
<1>8. ASSUME NEW e \in Database PROVE AllKnown(entries, files[e])' /\ FewFiles(e)'
  BY <1>2, <1>3, <1>4 DEF FewFiles
<1>9. ASSUME NEW r \in Session PROVE InTransaction(r)'
  <2>1. CASE r = s
    <3>1. NewEntry \in DOMAIN entries' /\ entries'[NewEntry].txn = txn
      <4>1. NewEntry \in 1..E + 1
        BY <1>1, <1>2 DEF NewEntry
      <4> QED BY <1>2, <1>3, <4>1 DEF Wrote
    <3>2. i \in DOMAIN files'[d]
      BY <1>3, <1>5
    <3>3. Len(files'[d]) # Len(entries') + 1
      BY <1>2, <1>3, <1>4
    <3> QED BY <2>1, <3>1, <3>2, <3>3 DEF InTransaction
  <2>2. CASE r # s
    <3>1. session'[r] = session[r] /\ session[r].database \in Database
      BY <2>2 DEF TypeInv, TypeOK
    <3>2. PICK b \in Database : b = session[r].database
      BY <3>1
    <3>3. InTransaction(r) /\ Grown(entries, entries')
      BY DEF TypeInv, Wrote
    <3>4. session[r].step = "size" => session[r].file \in DOMAIN files'[b]
      <4>1. files[b] \in Seq(Seq(Unit)) /\ files'[b] \in Seq(Seq(Unit))
        BY <1>3 DEF TypeInv, TypeOK
      <4>2. session[r].step = "size" => session[r].file \in 1..Len(files[b])
        BY <3>2, <3>3, <4>1 DEF InTransaction
      <4> QED BY <1>4, <4>1, <4>2
    <3>5. Len(files'[b]) # Len(entries') + 1
      BY <1>2, <1>3, <1>4
    <3>6. session[r].step = "size" => \E e \in DOMAIN entries' : entries'[e].txn = session[r].txn
      BY <3>3 DEF InTransaction, Grown
    <3>7. session[r].step # "idle" => session[r].txn # NoTxn
      BY <3>3 DEF InTransaction
    <3> QED BY <3>1, <3>2, <3>4, <3>5, <3>6, <3>7 DEF InTransaction
  <2> QED BY <2>1, <2>2
<1> QED BY <1>6, <1>7, <1>8, <1>9 DEF TypeInv

\* The sessions have their types.
LEMMA SessionTyped ==
    ASSUME TypeInv
    PROVE  /\ session \in [Session -> SessionType] /\ counter \in Nat
           /\ \A s \in Session : session[s] \in SessionType /\ session[s].database \in Database
<1>1. session \in [Session -> SessionType] /\ counter \in Nat
  BY DEF TypeInv, TypeOK, SessionType
<1>2. \A x \in SessionType : x.database \in Database
  BY DEF SessionType
<1> HIDE DEF SessionType
<1> QED BY <1>1, <1>2

\* A call that throws, or a step that does nothing, leaves the log and the sessions.
Nothing == UNCHANGED <<entries, files, countFile, session>>

\* What Begin and LogChange do: they write an entry of transaction t to number i of
\* the files fs that were opened, and the session becomes x.
Logs(s, d, fs, i, t, op, length, x) ==
    /\ d = session[s].database /\ Opens(d, fs, i) /\ Wrote(d, i, fs, t, op, length)
    /\ t \in Nat \ {NoTxn} /\ length \in Length
    /\ x \in SessionType /\ session' = [session EXCEPT ![s] = x]
    /\ x.step = "size" /\ x.txn = t /\ x.database = d /\ x.file = i

\* A changed session, and the others as they were.
LEMMA OneSessionChanges ==
    ASSUME TypeInv, NEW s \in Session, NEW x \in SessionType,
           session' = [session EXCEPT ![s] = x]
    PROVE  /\ session' \in [Session -> SessionType] /\ session'[s] = x
           /\ \A r \in Session : r # s => session'[r] = session[r]
BY SessionTyped, Zenon

\* What Begin does.
LEMMA BeginFacts ==
    ASSUME TypeInv, NEW s \in Session, Begin(s)
    PROVE  /\ counter' \in Nat /\ up' \in BOOLEAN
           /\ session[s].step = "idle"
           /\ Shared \/ \A r \in Session :
                 session[r].database = session[s].database => session[r].step = "idle"
           /\ \/ Nothing
              \/ \E d \in Database : \E fs, i, t, length, x :
                    Logs(s, d, fs, i, t, "BEGIN", length, x) /\ x.own = <<>>
<1>1. PICK d \in Database : d = session[s].database
  BY SessionTyped
<1>2. PICK t : t = counter + 1
  OBVIOUS
<1>3. t \in Nat \ {NoTxn} /\ counter' = t
  BY <1>2, SessionTyped DEF Begin, NoTxn
<1>4. CASE Throw(d) /\ UNCHANGED session
  BY <1>3, <1>4 DEF Throw, Nothing, Begin
<1>5. ASSUME NEW length \in Length, WriteBody(d, t, "BEGIN", length),
             session' = [session EXCEPT ![s] =
                            [step |-> "size", txn |-> t, database |-> d,
                             file |-> FileIndex(d), own |-> <<>>, seen |-> <<>>]]
      PROVE  /\ up' \in BOOLEAN
             /\ \E fs, i, x : Logs(s, d, fs, i, t, "BEGIN", length, x) /\ x.own = <<>>
  <2>1. PICK fs : fs = FilesWithIndex(d)
    OBVIOUS
  <2>2. PICK i : i = FileIndex(d)
    OBVIOUS
  <2>3. "BEGIN" \in OperationType
    BY DEF OperationType
  <2>4. Opens(d, fs, i) /\ Wrote(d, i, fs, t, "BEGIN", length)
    BY <1>3, <1>5, <2>1, <2>2, <2>3, WriteBodyFacts
  <2>5. PICK x : x = [step |-> "size", txn |-> t, database |-> d,
                      file |-> i, own |-> <<>>, seen |-> <<>>]
    OBVIOUS
  <2>6. session' = [session EXCEPT ![s] = x]
    BY <1>5, <2>2, <2>5
  <2>7. i \in Nat
    BY <2>4 DEF Opens
  <2>8. x \in SessionType
    BY <1>3, <2>5, <2>7 DEF SessionType, Steps
  <2>9. x.step = "size" /\ x.txn = t /\ x.database = d /\ x.file = i /\ x.own = <<>>
    BY <2>5
  <2>10. Logs(s, d, fs, i, t, "BEGIN", length, x)
    BY <1>1, <1>3, <2>4, <2>6, <2>8, <2>9 DEF Logs
  <2>11. up' \in BOOLEAN
    BY <2>4 DEF Wrote, TypeInv, TypeOK
  <2> QED BY <2>9, <2>10, <2>11
<1>6. session[s].step = "idle" /\ counter' \in Nat
  BY <1>3 DEF Begin
<1>7. Shared \/ \A r \in Session : session[r].database = d => session[r].step = "idle"
  BY <1>1 DEF Begin
<1>8. \/ Throw(d) /\ UNCHANGED session
      \/ \E length \in Length :
            /\ WriteBody(d, t, "BEGIN", length)
            /\ session' = [session EXCEPT ![s] =
                              [step |-> "size", txn |-> t, database |-> d,
                               file |-> FileIndex(d), own |-> <<>>, seen |-> <<>>]]
  BY <1>1, <1>2, Zenon DEF Begin
<1>9. CASE \E length \in Length :
              /\ WriteBody(d, t, "BEGIN", length)
              /\ session' = [session EXCEPT ![s] =
                                [step |-> "size", txn |-> t, database |-> d,
                                 file |-> FileIndex(d), own |-> <<>>, seen |-> <<>>]]
  <2>1. /\ up' \in BOOLEAN
        /\ \E fs, i, length, x : Logs(s, d, fs, i, t, "BEGIN", length, x) /\ x.own = <<>>
    BY <1>5, <1>9, Zenon
  <2> QED BY <1>1, <1>6, <1>7, <2>1, Zenon
<1> QED BY <1>4, <1>8, <1>9

\* What LogChange does.
LEMMA LogChangeFacts ==
    ASSUME TypeInv, NEW s \in Session, LogChange(s)
    PROVE  /\ counter' \in Nat /\ up' \in BOOLEAN
           /\ session[s].step = "open"
           /\ \/ Nothing
              \/ \E d \in Database : \E fs, i, t, length, x :
                    /\ Logs(s, d, fs, i, t, "CHANGE", length, x)
                    /\ t = session[s].txn /\ x.own = Append(session[s].own, NewEntry)
<1>1. PICK d \in Database : d = session[s].database
  BY SessionTyped
<1>2. PICK t : t = session[s].txn
  OBVIOUS
<1>3. t \in Nat \ {NoTxn} /\ counter' \in Nat /\ session[s].step = "open"
  <2>1. session[s] \in SessionType /\ counter \in Nat
    BY SessionTyped
  <2>2. t \in Nat
    BY <1>2, <2>1 DEF SessionType
  <2> QED BY <1>2, <2>1, <2>2 DEF LogChange, TypeInv, InTransaction
<1>4. CASE Throw(d) /\ UNCHANGED session
  BY <1>3, <1>4 DEF Throw, Nothing
<1>5. ASSUME NEW length \in Length, WriteBody(d, t, "CHANGE", length),
             session' = [session EXCEPT ![s].step = "size",
                                        ![s].file = FileIndex(d),
                                        ![s].own = Append(@, NewEntry)]
      PROVE  /\ up' \in BOOLEAN
             /\ \E fs, i, x : /\ Logs(s, d, fs, i, t, "CHANGE", length, x)
                              /\ x.own = Append(session[s].own, NewEntry)
  <2>1. PICK fs : fs = FilesWithIndex(d)
    OBVIOUS
  <2>2. PICK i : i = FileIndex(d)
    OBVIOUS
  <2>3. "CHANGE" \in OperationType
    BY DEF OperationType
  <2>4. Opens(d, fs, i) /\ Wrote(d, i, fs, t, "CHANGE", length)
    BY <1>3, <1>5, <2>1, <2>2, <2>3, WriteBodyFacts
  <2>5. PICK x : x = [session[s] EXCEPT !.step = "size", !.file = i, !.own = Append(@, NewEntry)]
    OBVIOUS
  <2>6. session' = [session EXCEPT ![s] = x]
    BY <1>5, <2>2, <2>5, SessionTyped
  <2>7. i \in Nat /\ NewEntry \in EntryId
    BY <2>4 DEF Opens, Wrote
  <2>8. /\ x \in SessionType /\ x.step = "size" /\ x.file = i /\ x.txn = t /\ x.database = d
        /\ x.own = Append(session[s].own, NewEntry)
    <3>1. session[s] \in SessionType
      BY SessionTyped
    <3>2. PICK o : o = Append(session[s].own, NewEntry)
      OBVIOUS
    <3>3. o \in Seq(EntryId)
      <4>1. session[s].own \in Seq(EntryId)
        BY <3>1 DEF SessionType
      <4> QED BY <2>7, <3>2, <4>1
    <3>4. x = [session[s] EXCEPT !.step = "size", !.file = i, !.own = o]
      BY <2>5, <3>2
    <3>5. "size" \in Steps
      BY DEF Steps
    <3> QED BY <1>1, <1>2, <2>7, <3>1, <3>2, <3>3, <3>4, <3>5 DEF SessionType
  <2>9. Logs(s, d, fs, i, t, "CHANGE", length, x)
    BY <1>1, <1>3, <2>4, <2>6, <2>8 DEF Logs
  <2>10. up' \in BOOLEAN
    BY <2>4 DEF Wrote, TypeInv, TypeOK
  <2> QED BY <2>8, <2>9, <2>10
<1>6. \/ Throw(d) /\ UNCHANGED session
      \/ \E length \in Length :
            /\ WriteBody(d, t, "CHANGE", length)
            /\ session' = [session EXCEPT ![s].step = "size",
                                          ![s].file = FileIndex(d),
                                          ![s].own = Append(@, NewEntry)]
  BY <1>1, <1>2, Zenon DEF LogChange
<1>7. CASE \E length \in Length :
              /\ WriteBody(d, t, "CHANGE", length)
              /\ session' = [session EXCEPT ![s].step = "size",
                                            ![s].file = FileIndex(d),
                                            ![s].own = Append(@, NewEntry)]
  <2>1. /\ up' \in BOOLEAN
        /\ \E fs, i, length, x : /\ Logs(s, d, fs, i, t, "CHANGE", length, x)
                                 /\ x.own = Append(session[s].own, NewEntry)
    BY <1>5, <1>7, Zenon
  <2> QED BY <1>2, <1>3, <2>1, Zenon
<1> QED BY <1>4, <1>6, <1>7

\* A step that does nothing to the log and the sessions keeps the types.
LEMMA TypeNothing ==
    ASSUME TypeInv, Nothing, counter' \in Nat, up' \in BOOLEAN
    PROVE  TypeInv'
BY DEF Nothing, TypeInv, TypeOK, AllKnown, Known, FewFiles, InTransaction

\* An entry that is written keeps the types.
LEMMA TypeLogs ==
    ASSUME TypeInv, NEW s \in Session, NEW d \in Database, NEW fs, NEW i, NEW t, NEW op,
           NEW length, NEW x, Logs(s, d, fs, i, t, op, length, x), counter' \in Nat
    PROVE  TypeInv'
<1>1. x \in SessionType /\ session' = [session EXCEPT ![s] = x]
  BY DEF Logs
<1>2. /\ session' \in [Session -> SessionType] /\ session'[s] = x
      /\ \A r \in Session : r # s => session'[r] = session[r]
  BY <1>1, OneSessionChanges
<1>3. /\ session'[s].step = "size" /\ session'[s].txn = t
      /\ session'[s].database = d /\ session'[s].file = i
  BY <1>2 DEF Logs
<1>4. Opens(d, fs, i) /\ Wrote(d, i, fs, t, op, length) /\ t \in Nat \ {NoTxn}
  BY DEF Logs
<1> QED BY <1>2, <1>3, <1>4, TypeAfterWrite, Zenon

\* A step that changes one session, and of the log nothing, keeps the types.
LEMMA TypeSession ==
    ASSUME TypeInv, NEW s \in Session, NEW x \in SessionType,
           session' = [session EXCEPT ![s] = x],
           x.step \notin {"idle", "size"} => x.txn # NoTxn, x.step # "size",
           UNCHANGED <<entries, files, countFile, counter, up>>
    PROVE  TypeInv'
<1>1. /\ session' \in [Session -> SessionType] /\ session'[s] = x
      /\ \A r \in Session : r # s => session'[r] = session[r]
  BY SessionTyped, Zenon
<1>2. TypeOK'
  BY <1>1 DEF TypeInv, TypeOK, SessionType
<1>3. ASSUME NEW r \in Session PROVE InTransaction(r)'
  <2>1. CASE r = s
    BY <1>1, <2>1 DEF InTransaction
  <2>2. CASE r # s
    <3>1. session'[r] = session[r] /\ InTransaction(r)
      BY <1>1, <2>2 DEF TypeInv
    <3> QED BY <3>1 DEF InTransaction
  <2> QED BY <2>1, <2>2
<1>4. ASSUME NEW d \in Database PROVE AllKnown(entries, files[d])' /\ FewFiles(d)'
  BY DEF TypeInv, FewFiles
<1> QED BY <1>2, <1>3, <1>4 DEF TypeInv

\* One unit more at the end of a file.
LEMMA OneMore ==
    ASSUME NEW file \in Seq(Unit), NEW u \in Unit
    PROVE  Append(file, u) = file \o <<u>>
OBVIOUS

\* What the second write does to the files of its database: number i gets one
\* unit more, of an entry that has been made.
Sized(s, d, i, e) ==
    /\ d = session[s].database /\ i = session[s].file /\ e = Unsized(s)
    /\ e \in DOMAIN entries /\ e \in EntryId
    /\ i \in DOMAIN files[d]
    /\ files' = [files EXCEPT ![d] = files'[d]]
    /\ files'[d] \in Seq(Seq(Unit)) /\ Len(files'[d]) = Len(files[d])
    /\ Appends(files[d], i, <<[entry |-> e, part |-> 0]>>, files'[d])
    /\ files'[d][i] = files[d][i] \o <<[entry |-> e, part |-> 0]>>
    /\ \A j \in DOMAIN files[d] : j # i => files'[d][j] = files[d][j]
    /\ AllKnown(entries, files'[d])

\* The second write has an entry and a file to write to.
LEMMA WriteSizeFacts ==
    ASSUME TypeInv, NEW s \in Session, WriteSize(s)
    PROVE  Sized(s, session[s].database, session[s].file, Unsized(s))
<1>1. PICK d \in Database : d = session[s].database
  BY SessionTyped
<1>2. PICK i : i = session[s].file
  OBVIOUS
<1>3. PICK e : e = Unsized(s)
  OBVIOUS
<1>4. session[s].step = "size"
  BY DEF WriteSize
<1>5. e \in DOMAIN entries
  BY <1>3, <1>4, UnsizedFacts
<1>6. i \in DOMAIN files[d]
  BY <1>1, <1>2, <1>4 DEF TypeInv, InTransaction
<1>7. /\ entries \in Seq(Entry) /\ Len(entries) <= MaxEntries
      /\ files \in [Database -> Seq(Seq(Unit))]
  BY DEF TypeInv, TypeOK
<1>8. e \in EntryId
  <2>1. Len(entries) \in Nat /\ e \in 1..Len(entries)
    BY <1>5, <1>7
  <2> QED BY <1>7, <2>1, LimitAssumption DEF EntryId
<1>9. [entry |-> e, part |-> 0] \in Unit
  BY <1>8 DEF Unit, Part
<1>10. PICK units : units = <<[entry |-> e, part |-> 0]>>
  OBVIOUS
<1>11. units \in Seq(Unit) /\ Known(entries, units)
  BY <1>5, <1>9, <1>10 DEF Known
<1>12. PICK gs : gs = [files[d] EXCEPT ![i] = @ \o units]
  OBVIOUS
<1>13. Appends(files[d], i, units, gs)
  BY <1>12 DEF Appends
<1>14. files[d] \in Seq(Seq(Unit)) /\ AllKnown(entries, files[d])
  BY <1>7 DEF TypeInv
<1>15. /\ gs \in Seq(Seq(Unit)) /\ Len(gs) = Len(files[d])
       /\ gs[i] = files[d][i] \o units
       /\ \A j \in DOMAIN files[d] : j # i => gs[j] = files[d][j]
       /\ AllKnown(entries, gs)
  BY <1>6, <1>7, <1>11, <1>13, <1>14, FileAppended
<1>16. files' = [files EXCEPT ![d] = gs]
  <2>1. files' = [files EXCEPT ![d][i] = Append(@, [entry |-> e, part |-> 0])]
    BY <1>1, <1>2, <1>3 DEF WriteSize
  <2>2. files[d][i] \in Seq(Unit)
    BY <1>6, <1>14
  <2>3. Append(files[d][i], [entry |-> e, part |-> 0]) = files[d][i] \o units
    BY <1>9, <1>10, <2>2, OneMore
  <2>4. [files[d] EXCEPT ![i] = Append(@, [entry |-> e, part |-> 0])] = gs
    BY <1>12, <2>3
  <2>5. files' = [files EXCEPT ![d] = [files[d] EXCEPT ![i] = Append(@, [entry |-> e, part |-> 0])]]
    BY <1>7, <2>1
  <2> QED BY <2>4, <2>5
<1>17. files'[d] = gs
  BY <1>7, <1>16
<1> QED BY <1>1, <1>2, <1>3, <1>5, <1>6, <1>8, <1>10, <1>13, <1>15, <1>16, <1>17, Zenon DEF Sized

\* WriteSize keeps the types.
LEMMA TypeWriteSize ==
    ASSUME TypeInv, NEW s \in Session, WriteSize(s)
    PROVE  TypeInv'
<1>1. PICK d \in Database : d = session[s].database
  BY SessionTyped
<1>2. PICK i : i = session[s].file
  OBVIOUS
<1>3. PICK e : e = Unsized(s)
  OBVIOUS
<1>4. Sized(s, d, i, e)
  BY <1>1, <1>2, <1>3, WriteSizeFacts
<1>5. PICK gs : gs = files'[d]
  OBVIOUS
<1>6. /\ gs \in Seq(Seq(Unit)) /\ Len(gs) = Len(files[d]) /\ i \in DOMAIN files[d]
      /\ \A j \in DOMAIN files[d] : j # i => gs[j] = files[d][j]
      /\ AllKnown(entries, gs)
      /\ files' = [files EXCEPT ![d] = gs]
  BY <1>4, <1>5 DEF Sized
<1>7. files \in [Database -> Seq(Seq(Unit))]
  BY DEF TypeInv, TypeOK
<1>8. /\ files' \in [Database -> Seq(Seq(Unit))]
      /\ \A b \in Database : b # d => files'[b] = files[b]
  BY <1>6, <1>7
<1>9. /\ session' = [session EXCEPT ![s].step = "open"] /\ entries' = entries
      /\ countFile' = countFile /\ counter' = counter /\ up' = up
      /\ session[s].step = "size"
  BY DEF WriteSize
<1>10. PICK x : x = [session[s] EXCEPT !.step = "open"]
  OBVIOUS
<1>11. x \in SessionType /\ x.step = "open" /\ x.txn = session[s].txn
  BY <1>10, SessionTyped DEF SessionType, Steps
<1>12. session' = [session EXCEPT ![s] = x]
  BY <1>9, <1>10, SessionTyped
<1>13. /\ session' \in [Session -> SessionType] /\ session'[s] = x
       /\ \A r \in Session : r # s => session'[r] = session[r]
  BY <1>11, <1>12, SessionTyped, Zenon
<1>14. TypeOK'
  BY <1>8, <1>9, <1>13 DEF TypeInv, TypeOK, SessionType
<1>15. \A b \in Database : Len(files'[b]) = Len(files[b]) /\ DOMAIN files'[b] = DOMAIN files[b]
  <2> SUFFICES ASSUME NEW b \in Database
               PROVE  Len(files'[b]) = Len(files[b]) /\ DOMAIN files'[b] = DOMAIN files[b]
    OBVIOUS
  <2>1. CASE b = d
    <3>1. files[d] \in Seq(Seq(Unit))
      BY <1>7
    <3> QED BY <1>5, <1>6, <2>1, <3>1
  <2>2. CASE b # d
    BY <1>8, <2>2
  <2> QED BY <2>1, <2>2
<1>16. ASSUME NEW b \in Database PROVE AllKnown(entries, files[b])' /\ FewFiles(b)'
  <2>1. AllKnown(entries, files[b]) /\ FewFiles(b)
    BY DEF TypeInv
  <2>2. CASE b # d
    BY <1>8, <1>9, <2>1, <2>2 DEF FewFiles
  <2>3. CASE b = d
    <3>1. Len(files[d]) = Len(entries) + 1 => gs[Len(files[d])] = <<>>
      <4> SUFFICES ASSUME Len(files[d]) = Len(entries) + 1 PROVE gs[Len(files[d])] = <<>>
        OBVIOUS
      <4>1. i < Len(files[d])
        BY <1>1, <1>2, <1>9 DEF TypeInv, InTransaction
      <4>2. files[d] \in Seq(Seq(Unit))
        BY <1>7
      <4>3. Len(files[d]) # i /\ Len(files[d]) \in DOMAIN files[d]
        BY <1>6, <4>1, <4>2
      <4>4. gs[Len(files[d])] = files[d][Len(files[d])]
        BY <1>6, <4>3
      <4> QED BY <2>1, <2>3, <4>4 DEF FewFiles
    <3> QED BY <1>5, <1>6, <1>9, <2>1, <2>3, <3>1 DEF FewFiles
  <2> QED BY <2>2, <2>3
<1>17. ASSUME NEW r \in Session PROVE InTransaction(r)'
  <2>1. InTransaction(r)
    BY DEF TypeInv
  <2>2. CASE r = s
    BY <1>9, <1>11, <1>13, <2>1, <2>2 DEF InTransaction
  <2>3. CASE r # s
    <3>1. session'[r] = session[r]
      BY <1>13, <2>3
    <3>2. session[r].database \in Database
      BY SessionTyped
    <3> QED BY <1>9, <1>15, <2>1, <3>1, <3>2 DEF InTransaction
  <2> QED BY <2>2, <2>3
<1> QED BY <1>9, <1>14, <1>16, <1>17 DEF TypeInv

\* What Undo does: the files become the ones fs that were opened, and the session,
\* now x, has been given the entries of the walk over them.
Undoes(s, d, fs, i, x) ==
    /\ d = session[s].database /\ Opens(d, fs, i)
    /\ countFile' = i /\ files' = [files EXCEPT ![d] = fs]
    /\ entries' = entries /\ up' = up
    /\ x \in SessionType /\ session' = [session EXCEPT ![s] = x]
    /\ x.step = "undone" /\ x.txn = session[s].txn /\ x.database = d
    /\ x.own = session[s].own /\ x.seen = Walk(entries, fs, i, session[s].txn).seen

\* Number i of the files that were opened is there to walk from.
LEMMA OpensFacts ==
    ASSUME TypeInv, NEW d \in Database, NEW fs, NEW i, Opens(d, fs, i)
    PROVE  /\ fs \in Seq(Seq(Unit)) /\ Len(fs) \in Nat /\ i \in 1..Len(fs) /\ i \in 0..Len(fs)
           /\ AllKnown(entries, fs)
           /\ entries \in Seq(Entry) /\ files \in [Database -> Seq(Seq(Unit))]
           /\ Len(entries) \in Nat /\ Len(fs) <= Len(entries) + 1
<1>1. fs \in Seq(Seq(Unit)) /\ i \in DOMAIN fs /\ Len(fs) <= Len(entries) + 1 /\ AllKnown(entries, fs)
  BY DEF Opens
<1>2. Len(fs) \in Nat /\ i \in 1..Len(fs) /\ i \in 0..Len(fs)
  BY <1>1
<1>3. entries \in Seq(Entry) /\ files \in [Database -> Seq(Seq(Unit))] /\ Len(entries) \in Nat
  BY DEF TypeInv, TypeOK
<1> QED BY <1>1, <1>2, <1>3

\* What Undo does.
LEMMA UndoFacts ==
    ASSUME TypeInv, NEW s \in Session, Undo(s)
    PROVE  /\ counter' \in Nat /\ up' \in BOOLEAN
           /\ session[s].step = "open"
           /\ Nothing \/ \E d \in Database : \E fs, i, x : Undoes(s, d, fs, i, x)
<1>1. PICK d \in Database : d = session[s].database
  BY SessionTyped
<1>2. session[s].step = "open" /\ counter' = counter /\ counter \in Nat
  BY SessionTyped DEF Undo
<1>3. CASE Throw(d) /\ UNCHANGED session
  BY <1>2, <1>3 DEF Throw, Nothing
<1>4. CASE /\ ~FileMissing(d)
           /\ countFile' = FileIndex(d)
           /\ files' = [files EXCEPT ![d] = FilesWithIndex(d)]
           /\ session' = [session EXCEPT ![s].step = "undone",
                             ![s].seen = Walk(entries, files'[d], FileIndex(d), session[s].txn).seen]
           /\ UNCHANGED <<entries, up>>
  <2>1. PICK fs : fs = FilesWithIndex(d)
    OBVIOUS
  <2>2. PICK i : i = FileIndex(d)
    OBVIOUS
  <2>3. Opens(d, fs, i)
    BY <1>4, <2>1, <2>2, Opening
  <2>4. /\ fs \in Seq(Seq(Unit)) /\ i \in 0..Len(fs) /\ AllKnown(entries, fs)
        /\ entries \in Seq(Entry) /\ files \in [Database -> Seq(Seq(Unit))]
    BY <2>3, OpensFacts
  <2>5. files' = [files EXCEPT ![d] = fs] /\ files'[d] = fs
    BY <1>4, <2>1, <2>4
  <2>6. PICK seen : seen = Walk(entries, fs, i, session[s].txn).seen
    OBVIOUS
  <2>7. seen \in Seq(EntryId)
    <3>1. Walk(entries, fs, i, session[s].txn) \in Result
      BY <2>4, WalkType
    <3> QED BY <2>6, <3>1 DEF Result
  <2>8. PICK x : x = [session[s] EXCEPT !.step = "undone", !.seen = seen]
    OBVIOUS
  <2>9. session' = [session EXCEPT ![s] = x]
    BY <1>4, <2>2, <2>5, <2>6, <2>8, SessionTyped
  <2>10. /\ x \in SessionType /\ x.step = "undone" /\ x.txn = session[s].txn
         /\ x.database = d /\ x.own = session[s].own /\ x.seen = seen
    BY <1>1, <2>7, <2>8, SessionTyped DEF SessionType, Steps
  <2>11. Undoes(s, d, fs, i, x)
    BY <1>1, <1>4, <2>2, <2>3, <2>5, <2>6, <2>9, <2>10, Zenon DEF Undoes
  <2>12. up' \in BOOLEAN
    BY <1>4 DEF TypeInv, TypeOK
  <2> QED BY <1>2, <2>11, <2>12
<1> QED BY <1>1, <1>3, <1>4, Zenon DEF Undo

\* Undo keeps the types.
LEMMA TypeUndoes ==
    ASSUME TypeInv, NEW s \in Session, session[s].step = "open",
           NEW d \in Database, NEW fs, NEW i, NEW x, Undoes(s, d, fs, i, x), counter' \in Nat
    PROVE  TypeInv'
<1>1. Opens(d, fs, i) /\ countFile' = i /\ entries' = entries /\ up' = up
  BY DEF Undoes
<1>2. /\ fs \in Seq(Seq(Unit)) /\ Len(fs) \in Nat /\ i \in 1..Len(fs) /\ AllKnown(entries, fs)
      /\ entries \in Seq(Entry) /\ files \in [Database -> Seq(Seq(Unit))]
      /\ Len(entries) \in Nat /\ Len(fs) <= Len(entries) + 1
  BY <1>1, OpensFacts
<1>3. Len(entries) <= MaxEntries /\ MaxEntries \in Nat
  BY LimitAssumption DEF TypeInv, TypeOK
<1>4. /\ files' \in [Database -> Seq(Seq(Unit))] /\ files'[d] = fs
      /\ \A b \in Database : b # d => files'[b] = files[b]
  BY <1>2 DEF Undoes
<1>5. /\ x \in SessionType /\ session' = [session EXCEPT ![s] = x]
      /\ x.step = "undone" /\ x.txn = session[s].txn
  BY DEF Undoes
<1>6. /\ session' \in [Session -> SessionType] /\ session'[s] = x
      /\ \A r \in Session : r # s => session'[r] = session[r]
  BY <1>5, OneSessionChanges
<1>7. countFile' = i /\ i \in 0..MaxEntries + 1 /\ i <= Len(entries) + 1
  BY <1>1, <1>2, <1>3
<1>8. TypeOK'
  BY <1>1, <1>4, <1>6, <1>7 DEF TypeInv, TypeOK, SessionType
<1>9. ASSUME NEW b \in Database PROVE AllKnown(entries, files[b])' /\ FewFiles(b)'
  <2>1. CASE b = d
    BY <1>1, <1>2, <1>4, <2>1 DEF FewFiles, Opens
  <2>2. CASE b # d
    BY <1>1, <1>4, <2>2 DEF FewFiles, TypeInv
  <2> QED BY <2>1, <2>2
<1>10. ASSUME NEW r \in Session PROVE InTransaction(r)'
  <2>1. InTransaction(r)
    BY DEF TypeInv
  <2>2. CASE r = s
    BY <1>5, <1>6, <2>1, <2>2 DEF InTransaction
  <2>3. CASE r # s
    <3>1. session'[r] = session[r] /\ session[r].database \in Database
      BY <1>6, <2>3, SessionTyped
    <3>2. CASE session[r].database # d
      BY <1>1, <1>4, <2>1, <3>1, <3>2 DEF InTransaction
    <3>3. CASE session[r].database = d
      <4>1. session[r].step = "size" =>
               /\ session[r].file \in DOMAIN fs
               /\ Len(fs) = Len(entries) + 1 => session[r].file < Len(fs)
        <5> SUFFICES ASSUME session[r].step = "size"
                     PROVE  /\ session[r].file \in DOMAIN fs
                            /\ Len(fs) = Len(entries) + 1 => session[r].file < Len(fs)
          OBVIOUS
        <5>1. files[d] \in Seq(Seq(Unit)) /\ Len(files[d]) \in Nat
          BY <1>2
        <5>2. PICK f : f = session[r].file
          OBVIOUS
        <5>3. /\ f \in 1..Len(files[d])
              /\ Len(files[d]) = Len(entries) + 1 => f < Len(files[d])
          BY <2>1, <3>3, <5>1, <5>2 DEF InTransaction
        <5>4. Len(fs) = Len(files[d]) \/ Len(fs) = Len(files[d]) + 1
          BY <1>1 DEF Opens
        <5>5. f \in 1..Len(fs) /\ DOMAIN fs = 1..Len(fs)
          BY <1>2, <5>1, <5>3, <5>4
        <5>6. Len(fs) = Len(entries) + 1 => f < Len(fs)
          BY <1>2, <5>1, <5>3, <5>4
        <5> QED BY <5>2, <5>5, <5>6, Zenon
      <4> QED BY <1>1, <1>4, <2>1, <3>1, <3>3, <4>1 DEF InTransaction
    <3> QED BY <3>2, <3>3
  <2> QED BY <2>2, <2>3
<1> QED BY <1>1, <1>7, <1>8, <1>9, <1>10 DEF TypeInv

\* Every step keeps the types.
LEMMA TypeStep == TypeInv /\ [Next]_vars => TypeInv'
<1> SUFFICES ASSUME TypeInv, [Next]_vars PROVE TypeInv'
  OBVIOUS
<1>1. CASE UNCHANGED vars
  BY <1>1 DEF vars, TypeInv, TypeOK, AllKnown, Known, FewFiles, InTransaction
<1>2. ASSUME NEW s \in Session, End(s) PROVE TypeInv'
  <2>1. session[s].database \in Database
    BY SessionTyped
  <2>2. /\ Idle(session[s].database) \in SessionType
        /\ Idle(session[s].database).step = "idle"
    BY <2>1, IdleType
  <2>3. /\ session' = [session EXCEPT ![s] = Idle(session[s].database)]
        /\ UNCHANGED <<entries, files, countFile, counter, up>>
    BY <1>2 DEF End
  <2> QED BY <2>2, <2>3, TypeSession
<1>3. ASSUME NEW s \in Session, NEW d \in Database, SetDatabase(s, d) PROVE TypeInv'
  <2>1. Idle(d) \in SessionType /\ Idle(d).step = "idle"
    BY IdleType
  <2>2. /\ session' = [session EXCEPT ![s] = Idle(d)]
        /\ UNCHANGED <<entries, files, countFile, counter, up>>
    BY <1>3 DEF SetDatabase
  <2> QED BY <2>1, <2>2, TypeSession
<1>4. ASSUME Crash PROVE TypeInv'
  <2>1. /\ entries' = entries /\ files' = files /\ counter' = counter
        /\ countFile' = 0 /\ up' = TRUE
        /\ session' = [s \in Session |-> Idle(session[s].database)]
    BY <1>4 DEF Crash
  <2>2. /\ session' \in [Session -> SessionType]
        /\ \A s \in Session : session'[s].step = "idle"
    BY <2>1, SessionTyped, IdleType, Zenon
  <2>3. countFile' \in 0..MaxEntries + 1 /\ countFile' <= Len(entries') + 1
    <3>1. Len(entries) \in Nat
      BY DEF TypeInv, TypeOK
    <3> QED BY <2>1, <3>1, LimitAssumption
  <2>4. TypeOK'
    BY <2>1, <2>2, <2>3 DEF TypeInv, TypeOK, SessionType
  <2> QED BY <2>1, <2>2, <2>3, <2>4 DEF TypeInv, AllKnown, Known, FewFiles, InTransaction
<1>5. ASSUME NEW s \in Session, Begin(s) PROVE TypeInv'
  BY <1>5, BeginFacts, TypeNothing, TypeLogs
<1>6. ASSUME NEW s \in Session, LogChange(s) PROVE TypeInv'
  BY <1>6, LogChangeFacts, TypeNothing, TypeLogs
<1>7. ASSUME NEW s \in Session, Undo(s) PROVE TypeInv'
  BY <1>7, UndoFacts, TypeNothing, TypeUndoes
<1> QED
  BY <1>1, <1>2, <1>3, <1>4, <1>5, <1>6, <1>7, TypeWriteSize DEF Next

\* The types hold, for every choice of the constants: any number of sessions and
\* databases, whether they share a database or not, and crashes at any moment.
THEOREM TypeCorrect == Spec => []TypeOK
<1>1. TypeInv => TypeOK
  BY DEF TypeInv
<1> QED BY <1>1, TypeInit, TypeStep, PTL DEF Spec

-----------------------------------------------------------------------------
(* The order of the log and the way back through it *)

\* No other database has a log file.
OnlyLog(d) == \A e \in Database \ {d} : files[e] = <<>>

\* One session at a time has a transaction open in a database.
Alone ==
    \A s, r \in Session :
        /\ session[s].step # "idle" /\ session[r].step # "idle"
        /\ session[s].database = session[r].database
        => s = r

\* The files hold the entries in the order in which they were made.
InOrder(fs) ==
    \A i, j \in DOMAIN fs : \A p \in DOMAIN fs[i], q \in DOMAIN fs[j] :
        i < j \/ (i = j /\ p < q) => fs[i][p].entry <= fs[j][q].entry

\* What the walk finds of a transaction that made the entries own.
Found(own) == [seen |-> Reverse(own), readable |-> TRUE]

\* Between the two writes of its newest entry, with base the newest file as it was
\* before, a session x has begun, or has one change more than the walk from there finds.
Halfway(made, fs, x) ==
    /\ Len(made) > 0 /\ Len(fs) > 0 /\ x.file = Len(fs)
    /\ made[Len(made)].txn = x.txn
    /\ \E base \in Seq(Unit) :
          /\ fs[Len(fs)] = base \o Body(Len(made), made[Len(made)].length)
          /\ Known(made, base)
          /\ \/ made[Len(made)].op = "BEGIN" /\ x.own = <<>>
             \/ /\ made[Len(made)].op # "BEGIN"
                /\ \E own \in Seq(EntryId) :
                      /\ x.own = Append(own, Len(made))
                      /\ WalkFile(made, base, x.txn, Walk(made, fs, Len(fs) - 1, x.txn)) = Found(own)

\* The log gives a session x its own entries back, the last one first.
ReadsBack(made, fs, x) ==
    /\ x.step = "size" => Halfway(made, fs, x)
    /\ x.step = "open" => Walk(made, fs, Len(fs), x.txn) = Found(x.own)
    /\ x.step = "undone" => x.seen = Reverse(x.own)

\* The log of a database when it is the only one: the count is that of its files,
\* and they can be read from the end.
LogInv(d) ==
    /\ countFile \in {0, Len(files[d])}
    /\ InOrder(files[d])
    /\ \A s \in Session : session[s].database = d => ReadsBack(entries, files[d], session[s])

\* The inductive invariant behind the order and the walk.
OrderInv ==
    /\ TypeInv
    /\ Alone
    /\ \A d \in Database : OnlyLog(d) => LogInv(d)

\* gs are the files fs, or these and an empty one.
Extends(fs, gs) == gs = fs \/ gs = Append(fs, <<>>)

\* While the count is that of the files of d, or the files are counted, the newest
\* file is the one that is written to.
LEMMA OpeningLast ==
    ASSUME TypeInv, NEW d \in Database, countFile \in {0, Len(files[d])}
    PROVE  /\ ~FileMissing(d)
           /\ FileIndex(d) = Len(FilesWithIndex(d))
           /\ Extends(files[d], FilesWithIndex(d))
<1> DEFINE N == Len(files[d])
           i == FileIndex(d)
           fs == FilesWithIndex(d)
<1>1. files[d] \in Seq(Seq(Unit)) /\ N \in Nat /\ FileLimit \in Nat
  BY LimitAssumption DEF TypeInv, TypeOK
<1>2. Counted(d) = N
  BY <1>1 DEF Counted
<1>3. ~FileMissing(d)
  BY <1>1, <1>2 DEF FileMissing
<1>4. CASE N = 0
  <2>1. i = 1 /\ files[d] = <<>>
    BY <1>1, <1>2, <1>4 DEF FileIndex
  <2>2. fs = Append(files[d], <<>>)
    BY <1>1, <1>2, <1>4, <2>1 DEF FilesWithIndex
  <2>3. Len(fs) = 1
    BY <2>1, <2>2
  <2> QED BY <1>3, <2>1, <2>2, <2>3 DEF Extends
<1>5. CASE N # 0
  <2>1. files[d][N] \in Seq(Unit)
    BY <1>1, <1>5
  <2>2. PICK k : k = Len(files[d][N])
    OBVIOUS
  <2>3. k \in Nat
    BY <2>1, <2>2
  <2>4. CASE k > FileLimit
    <3>1. i = N + 1
      BY <1>2, <1>5, <2>2, <2>4 DEF FileIndex
    <3>2. fs = Append(files[d], <<>>)
      BY <1>1, <1>2, <3>1 DEF FilesWithIndex
    <3>3. Len(fs) = N + 1
      BY <1>1, <3>2
    <3> QED BY <1>3, <3>1, <3>2, <3>3 DEF Extends
  <2>5. CASE ~(k > FileLimit)
    <3>1. i = N
      BY <1>2, <1>5, <2>2, <2>5 DEF FileIndex
    <3>2. fs = files[d]
      BY <1>1, <1>2, <3>1 DEF FilesWithIndex
    <3> QED BY <1>3, <3>1, <3>2 DEF Extends
  <2> QED BY <2>4, <2>5
<1> QED BY <1>4, <1>5

\* There is nothing to find in an empty file.
LEMMA WalkEmpty ==
    ASSUME NEW made \in Seq(Entry), NEW t, NEW older \in Result
    PROVE  WalkFile(made, <<>>, t, older) = older
<1>1. PICK file : file = <<>>
  OBVIOUS
<1>2. file \in Seq(Unit) /\ Len(file) = 0 /\ Known(made, file)
  BY <1>1 DEF Known
<1>3. PICK w : InnerLoop(made, file, t, older, w) /\ WalkFile(made, file, t, older) = w[Len(file)]
  BY <1>2, WalkFileFacts
<1>4. w[0] = AtPosition(made, file, t, older, w, 0)
  <2>1. 0 \in 0..Len(file)
    BY <1>2
  <2> QED BY <1>3, <2>1 DEF InnerLoop
<1> QED BY <1>1, <1>2, <1>3, <1>4 DEF AtPosition

\* The files that were opened: their types, their order, and their walk.
LEMMA ExtendsFacts ==
    ASSUME NEW made \in Seq(Entry), NEW fs \in Seq(Seq(Unit)), NEW gs \in Seq(Seq(Unit)),
           AllKnown(made, fs), AllKnown(made, gs), Extends(fs, gs)
    PROVE  /\ \A t : Walk(made, gs, Len(gs), t) = Walk(made, fs, Len(fs), t)
           /\ InOrder(fs) => InOrder(gs)
<1>1. CASE gs = fs
  BY <1>1
<1>2. CASE gs = Append(fs, <<>>)
  <2>1. PICK n : n = Len(fs)
    OBVIOUS
  <2>2. /\ n \in Nat /\ Len(gs) = n + 1 /\ gs[n + 1] = <<>>
        /\ \A j \in 1..n : gs[j] = fs[j]
    BY <1>2, <2>1
  <2>3. ASSUME NEW t PROVE Walk(made, gs, Len(gs), t) = Walk(made, fs, Len(fs), t)
    <3>1. Grown(made, made) /\ Agree(fs, gs, n)
      BY <2>2 DEF Grown, Agree
    <3>2. n \in 0..Len(fs) /\ n <= Len(gs) /\ n \in 0..Len(gs)
      BY <2>1, <2>2
    <3>3. Walk(made, gs, n, t) = Walk(made, fs, n, t)
      BY <3>1, <3>2, WalkSame
    <3>4. Walk(made, gs, n, t) \in Result
      BY <3>2, WalkType
    <3>5. PICK m : m = n + 1
      OBVIOUS
    <3>6. m \in 1..Len(gs) /\ m - 1 = n /\ gs[m] = <<>> /\ Len(gs) = m
      BY <2>2, <3>5
    <3>7. Walk(made, gs, m, t) = WalkFile(made, gs[m], t, Walk(made, gs, m - 1, t))
      BY <3>6, WalkStep
    <3> QED BY <2>1, <3>3, <3>4, <3>6, <3>7, WalkEmpty
  <2>4. ASSUME InOrder(fs) PROVE InOrder(gs)
    <3> SUFFICES ASSUME NEW i \in DOMAIN gs, NEW j \in DOMAIN gs,
                        NEW p \in DOMAIN gs[i], NEW q \in DOMAIN gs[j],
                        i < j \/ (i = j /\ p < q)
                 PROVE  gs[i][p].entry <= gs[j][q].entry
      BY DEF InOrder
    <3>1. \A k \in DOMAIN gs : k \in 1..n + 1
      BY <2>2
    <3>2. \A k \in 1..n + 1 : k \in 1..n \/ k = n + 1
      BY <2>2
    <3>3. DOMAIN gs[n + 1] = {}
      BY <2>2
    <3>4. i \in 1..n /\ j \in 1..n
      BY <3>1, <3>2, <3>3
    <3>5. /\ gs[i] = fs[i] /\ gs[j] = fs[j]
          /\ i \in DOMAIN fs /\ j \in DOMAIN fs
      BY <2>1, <2>2, <3>4
    <3> QED BY <2>4, <3>5 DEF InOrder
  <2> QED BY <2>3, <2>4
<1> QED BY <1>1, <1>2 DEF Extends

\* Units of an entry that is not older than the ones before keep the order.
LEMMA OrderAppended ==
    ASSUME NEW fs \in Seq(Seq(Unit)), InOrder(fs), NEW n, n = Len(fs), n > 0,
           NEW units \in Seq(Unit), NEW gs, Appends(fs, n, units, gs), NEW e,
           \A p \in DOMAIN units : units[p].entry = e, e \in Nat,
           \A i \in DOMAIN fs : \A p \in DOMAIN fs[i] : fs[i][p].entry <= e
    PROVE  InOrder(gs)
<1>1. n \in Nat /\ n \in DOMAIN fs /\ DOMAIN fs = 1..n
  OBVIOUS
<1>2. PICK file : file = fs[n]
  OBVIOUS
<1>3. file \in Seq(Unit) /\ Len(file) \in Nat /\ DOMAIN file = 1..Len(file)
  BY <1>1, <1>2
<1>4. PICK longer : longer = file \o units
  OBVIOUS
<1>5. gs = [fs EXCEPT ![n] = longer]
  BY <1>2, <1>4 DEF Appends
<1>6. DOMAIN gs = 1..n /\ gs[n] = longer /\ \A j \in 1..n : j # n => gs[j] = fs[j]
  BY <1>1, <1>5
<1>7. /\ DOMAIN longer = 1..Len(file) + Len(units)
      /\ \A p \in 1..Len(file) : longer[p] = file[p]
      /\ \A p \in 1..Len(units) : longer[Len(file) + p] = units[p]
  <2>1. /\ longer \in Seq(Unit)
        /\ Len(longer) = Len(file) + Len(units)
        /\ \A p \in 1..Len(file) : longer[p] = file[p]
        /\ \A p \in 1..Len(units) : longer[Len(file) + p] = units[p]
    BY <1>3, <1>4, Joined
  <2> QED BY <2>1
<1>8. \A p \in DOMAIN longer : longer[p].entry = e \/ (p \in DOMAIN file /\ longer[p] = file[p])
  <2> SUFFICES ASSUME NEW p \in DOMAIN longer, p \notin 1..Len(file)
               PROVE  longer[p].entry = e
    BY <1>3, <1>7
  <2>1. PICK j : j = p - Len(file)
    OBVIOUS
  <2>2. j \in 1..Len(units) /\ p = Len(file) + j
    BY <1>3, <1>7, <2>1
  <2>3. longer[p] = units[j] /\ j \in DOMAIN units
    BY <1>7, <2>2
  <2> QED BY <2>3
<1>9. \A i \in 1..n : \A p \in DOMAIN gs[i] : gs[i][p].entry <= e
  <2> SUFFICES ASSUME NEW i \in 1..n, NEW p \in DOMAIN gs[i] PROVE gs[i][p].entry <= e
    OBVIOUS
  <2>1. CASE i # n
    <3>1. gs[i] = fs[i] /\ i \in DOMAIN fs
      BY <1>1, <1>6, <2>1
    <3> QED BY <3>1
  <2>2. CASE i = n
    <3>1. gs[i] = longer
      BY <1>6, <2>2
    <3>2. CASE longer[p].entry = e
      BY <3>1, <3>2
    <3>3. CASE p \in DOMAIN file /\ longer[p] = file[p]
      BY <1>1, <1>2, <3>1, <3>3
    <3> QED BY <1>8, <3>1, <3>2, <3>3
  <2> QED BY <2>1, <2>2
<1> SUFFICES ASSUME NEW i \in 1..n, NEW j \in 1..n,
                    NEW p \in DOMAIN gs[i], NEW q \in DOMAIN gs[j],
                    i < j \/ (i = j /\ p < q)
             PROVE  gs[i][p].entry <= gs[j][q].entry
  BY <1>6 DEF InOrder
<1>10. CASE gs[j][q].entry = e
  BY <1>9, <1>10
<1>11. CASE gs[j][q].entry # e
  <2>1. q \in DOMAIN fs[j] /\ gs[j][q] = fs[j][q]
    <3>1. CASE j # n
      BY <1>6, <3>1
    <3>2. CASE j = n
      BY <1>2, <1>6, <1>8, <1>11, <3>2
    <3> QED BY <3>1, <3>2
  <2>2. p \in DOMAIN fs[i] /\ gs[i][p] = fs[i][p]
    <3>1. CASE i # n
      BY <1>6, <3>1
    <3>2. CASE i = n
      <4>1. j = n /\ p < q
        BY <1>1, <3>2
      <4>2. q \in 1..Len(file)
        BY <1>2, <1>3, <2>1, <4>1
      <4>3. DOMAIN gs[i] = 1..Len(file) + Len(units)
        BY <1>6, <1>7, <3>2
      <4>4. p \in 1..Len(file)
        BY <1>3, <4>1, <4>2, <4>3
      <4> QED BY <1>2, <1>3, <1>6, <1>7, <3>2, <4>4
    <3> QED BY <3>1, <3>2
  <2> QED BY <1>1, <2>1, <2>2 DEF InOrder
<1> QED BY <1>10, <1>11

\* Reversing a sequence that has one entry more.
LEMMA ReverseAppend ==
    ASSUME NEW own \in Seq(EntryId), NEW e \in EntryId
    PROVE  Reverse(Append(own, e)) = <<e>> \o Reverse(own)
<1>1. PICK n : n = Len(own)
  OBVIOUS
<1>2. PICK all : all = Append(own, e)
  OBVIOUS
<1>3. /\ n \in Nat /\ Len(all) = n + 1 /\ all[n + 1] = e
      /\ \A i \in 1..n : all[i] = own[i]
  BY <1>1, <1>2
<1>4. PICK rev : rev = Reverse(own)
  OBVIOUS
<1>5. rev = [i \in 1..n |-> own[(n - i) + 1]]
  BY <1>1, <1>4 DEF Reverse
<1>6. \A i \in 1..n : own[(n - i) + 1] \in EntryId
  <2> SUFFICES ASSUME NEW i \in 1..n PROVE own[(n - i) + 1] \in EntryId
    OBVIOUS
  <2>1. (n - i) + 1 \in 1..Len(own)
    BY <1>1, <1>3
  <2> QED BY <2>1
<1>7. rev \in Seq(EntryId) /\ Len(rev) = n
  BY <1>3, <1>5, <1>6
<1>8. PICK both : both = <<e>> \o rev
  OBVIOUS
<1>9. /\ Len(both) = n + 1 /\ both[1] = e
      /\ \A i \in 1..n : both[i + 1] = rev[i]
      /\ DOMAIN both = 1..n + 1 /\ both \in Seq(EntryId)
  BY <1>3, <1>7, <1>8
<1>10. Reverse(all) = [i \in 1..n + 1 |-> all[(n + 1 - i) + 1]]
  BY <1>3 DEF Reverse
<1>11. \A i \in 1..n + 1 : all[(n + 1 - i) + 1] = both[i]
  <2> SUFFICES ASSUME NEW i \in 1..n + 1 PROVE all[(n + 1 - i) + 1] = both[i]
    OBVIOUS
  <2>1. CASE i = 1
    <3>1. (n + 1 - i) + 1 = n + 1
      BY <1>3, <2>1
    <3> QED BY <1>3, <1>9, <2>1, <3>1
  <2>2. CASE i # 1
    <3>1. PICK j : j = i - 1
      OBVIOUS
    <3>2. j \in 1..n /\ i = j + 1 /\ (n + 1 - i) + 1 = (n - j) + 1 /\ (n - j) + 1 \in 1..n
      BY <1>3, <2>2, <3>1
    <3>3. both[i] = rev[j] /\ rev[j] = own[(n - j) + 1]
      BY <1>5, <1>9, <3>2
    <3> QED BY <1>3, <3>2, <3>3
  <2> QED BY <2>1, <2>2
<1>12. both = [i \in 1..n + 1 |-> both[i]]
  BY <1>9
<1>13. Reverse(all) = both
  BY <1>10, <1>11, <1>12
<1> QED BY <1>2, <1>4, <1>8, <1>13

\* There is nothing to reverse for a transaction that has only begun.
LEMMA ReverseEmpty == Reverse(<<>>) = <<>>
BY DEF Reverse

\* Once the size is there the walk finds what the session has made.
LEMMA SizeCompletes ==
    ASSUME NEW made \in Seq(Entry), NEW fs \in Seq(Seq(Unit)), AllKnown(made, fs),
           NEW x, Halfway(made, fs, x), Len(made) \in EntryId,
           NEW gs \in Seq(Seq(Unit)), AllKnown(made, gs), Len(gs) = Len(fs),
           gs[Len(fs)] = fs[Len(fs)] \o <<[entry |-> Len(made), part |-> 0]>>,
           \A j \in DOMAIN fs : j # Len(fs) => gs[j] = fs[j]
    PROVE  Walk(made, gs, Len(gs), x.txn) = Found(x.own)
<1>1. PICK e : e = Len(made)
  OBVIOUS
<1>2. PICK n : n = Len(fs)
  OBVIOUS
<1>3. PICK t : t = x.txn
  OBVIOUS
<1>4. PICK size : size = made[e].length
  OBVIOUS
<1>5. /\ e \in DOMAIN made /\ e \in EntryId /\ made[e].txn = t
      /\ n \in Nat \ {0}
  BY <1>1, <1>2, <1>3 DEF Halfway
<1>6. PICK base \in Seq(Unit) :
         /\ fs[n] = base \o Body(e, size)
         /\ Known(made, base)
         /\ \/ made[e].op = "BEGIN" /\ x.own = <<>>
            \/ /\ made[e].op # "BEGIN"
               /\ \E own \in Seq(EntryId) :
                     /\ x.own = Append(own, e)
                     /\ WalkFile(made, base, t, Walk(made, fs, n - 1, t)) = Found(own)
  BY <1>1, <1>2, <1>3, <1>4, Zenon DEF Halfway
<1>7. PICK k : k = n - 1
  OBVIOUS
<1>8. k \in 0..Len(fs) /\ k \in 0..Len(gs) /\ n \in 1..Len(gs)
  BY <1>2, <1>5, <1>7
<1>9. Walk(made, gs, k, t) = Walk(made, fs, k, t)
  <2>1. Grown(made, made)
    BY DEF Grown
  <2>2. Agree(fs, gs, k)
    <3> SUFFICES ASSUME NEW j \in 1..k PROVE gs[j] = fs[j]
      BY DEF Agree
    <3>1. DOMAIN fs = 1..n
      BY <1>2
    <3>2. j \in 1..n /\ j # n
      BY <1>5, <1>7
    <3> QED BY <1>2, <3>1, <3>2
  <2>3. k <= Len(gs)
    BY <1>8
  <2> QED BY <1>8, <2>1, <2>2, <2>3, WalkSame
<1>10. PICK older : older = Walk(made, fs, k, t)
  OBVIOUS
<1>11. older \in Result
  BY <1>8, <1>10, WalkType
<1>12. Walk(made, gs, n, t) = WalkFile(made, gs[n], t, older)
  BY <1>7, <1>8, <1>9, <1>10, WalkStep
<1>13. gs[n] = Written(base, e, size)
  BY <1>1, <1>2, <1>6 DEF Written
<1>14. Grown(made, made)
  BY DEF Grown
<1>15. WalkFile(made, gs[n], t, older) = Given(made, e, WalkFile(made, base, t, older))
  <2>1. base \in Seq(Unit) /\ Known(made, base)
    BY <1>6
  <2>2. gs[n] = Written(base, e, made[e].length)
    BY <1>4, <1>13
  <2>3. WalkFile(made, Written(base, e, made[e].length), t, older)
           = Given(made, e, WalkFile(made, base, t, older))
    BY <1>5, <1>11, <1>14, <2>1, WalkWritten, ZenonT(60)
  <2> QED BY <2>2, <2>3, Zenon
<1>16. CASE made[e].op = "BEGIN" /\ x.own = <<>>
  BY <1>2, <1>3, <1>12, <1>15, <1>16, ReverseEmpty DEF Found, Finished, Given
<1>17. CASE made[e].op # "BEGIN"
  <2>1. PICK own \in Seq(EntryId) :
           /\ x.own = Append(own, e)
           /\ WalkFile(made, base, t, older) = Found(own)
    BY <1>6, <1>7, <1>10, <1>17
  <2>2. Walk(made, gs, n, t) = [seen |-> <<e>> \o Reverse(own), readable |-> TRUE]
    BY <1>12, <1>15, <1>17, <2>1 DEF Found, Given
  <2>3. Reverse(x.own) = <<e>> \o Reverse(own)
    BY <1>5, <2>1, ReverseAppend
  <2> QED BY <1>2, <1>3, <2>2, <2>3 DEF Found
<1> QED BY <1>6, <1>16, <1>17

\* A session that is in a transaction after a step was in one in the same database
\* before it, or is the only one there: transactions stay alone.
LEMMA AloneKept ==
    ASSUME TypeInv, Alone, NEW s \in Session, NEW x \in SessionType,
           session' = [session EXCEPT ![s] = x],
           x.step # "idle" =>
              \A r \in Session : r # s /\ session[r].database = x.database => session[r].step = "idle"
    PROVE  Alone'
<1>1. session'[s] = x /\ \A r \in Session : r # s => session'[r] = session[r]
  BY OneSessionChanges
<1> SUFFICES ASSUME NEW q \in Session, NEW r \in Session,
                    session'[q].step # "idle", session'[r].step # "idle",
                    session'[q].database = session'[r].database
             PROVE  q = r
  BY DEF Alone
<1>2. CASE q # s /\ r # s
  BY <1>1, <1>2 DEF Alone
<1>3. CASE q = s /\ r # s
  BY <1>1, <1>3
<1>4. CASE q # s /\ r = s
  BY <1>1, <1>4
<1> QED BY <1>2, <1>3, <1>4

\* The order and the walk at the start.
LEMMA OrderInit == Init => OrderInv
<1> SUFFICES ASSUME Init PROVE OrderInv
  OBVIOUS
<1>1. TypeInv
  BY TypeInit
<1>2. \A s \in Session : session[s].step = "idle"
  <2>1. session \in [Session -> {Idle(d) : d \in Database}]
    BY DEF Init
  <2>2. \A x \in {Idle(d) : d \in Database} : x.step = "idle"
    BY IdleType
  <2> QED BY <2>1, <2>2
<1>3. countFile = 0 /\ \A d \in Database : files[d] = <<>>
  BY DEF Init
<1>4. ASSUME NEW d \in Database PROVE LogInv(d)
  <2>1. files[d] = <<>> /\ DOMAIN files[d] = {}
    BY <1>3
  <2> QED BY <1>2, <1>3, <2>1 DEF LogInv, InOrder, ReadsBack
<1> QED BY <1>1, <1>2, <1>4 DEF OrderInv, Alone

\* A step that leaves the log and the sessions keeps the order.
LEMMA OrderNothing ==
    ASSUME OrderInv, Nothing
    PROVE  Alone' /\ \A d \in Database : OnlyLog(d)' => LogInv(d)'
<1>1. Alone'
  BY DEF OrderInv, Alone, Nothing
<1>2. ASSUME NEW d \in Database, OnlyLog(d)' PROVE LogInv(d)'
  BY <1>2 DEF OrderInv, OnlyLog, LogInv, Nothing
<1> QED BY <1>1, <1>2

\* The log when nothing of it changes but the count of its files, and the sessions
\* become idle or stay as they are.
LEMMA OrderIdle ==
    ASSUME OrderInv, entries' = entries, files' = files, countFile' \in {0, countFile},
           \A s \in Session : session'[s] = session[s] \/ session'[s].step = "idle"
    PROVE  \A d \in Database : OnlyLog(d)' => LogInv(d)'
<1> SUFFICES ASSUME NEW d \in Database, OnlyLog(d)' PROVE LogInv(d)'
  OBVIOUS
<1>1. LogInv(d)
  BY DEF OrderInv, OnlyLog
<1>2. countFile' \in {0, Len(files'[d])} /\ InOrder(files'[d])
  BY <1>1 DEF LogInv
<1>3. ASSUME NEW s \in Session, session'[s].database = d
      PROVE  ReadsBack(entries', files'[d], session'[s])
  <2>1. CASE session'[s] = session[s]
    BY <1>1, <1>3, <2>1 DEF LogInv
  <2>2. CASE session'[s].step = "idle"
    BY <2>2 DEF ReadsBack
  <2> QED BY <2>1, <2>2
<1> QED BY <1>2, <1>3 DEF LogInv

\* When only files[d] of the log changes, another database that is the only one to
\* have log files has them no longer once files[d] has one.
LEMMA OtherLog ==
    ASSUME NEW d \in Database, NEW b \in Database, b # d, OnlyLog(d)',
           files'[b] \in Seq(Seq(Unit)), Len(files'[b]) > 0
    PROVE  FALSE
<1>1. files'[b] = <<>>
  BY DEF OnlyLog
<1>2. Len(files'[b]) = 0
  BY <1>1
<1> QED BY <1>2

\* The only log before a step that adds files to it only.
LEMMA OnlyLogBefore ==
    ASSUME TypeInv, NEW d \in Database, OnlyLog(d)',
           \A b \in Database : b # d => files'[b] = files[b]
    PROVE  OnlyLog(d)
BY DEF OnlyLog

\* Once an entry is written the only log is in order, and its session halfway.
LEMMA OrderLogs ==
    ASSUME OrderInv, Alone', NEW s \in Session, NEW b \in Database, NEW fs, NEW i, NEW t,
           NEW op, NEW length, NEW x, Logs(s, b, fs, i, t, op, length, x),
           \/ op = "BEGIN" /\ x.own = <<>>
           \/ /\ op = "CHANGE" /\ session[s].step = "open" /\ t = session[s].txn
              /\ x.own = Append(session[s].own, NewEntry),
           NEW d \in Database, OnlyLog(d)'
    PROVE  LogInv(d)'
<1>1. TypeInv
  BY DEF OrderInv
<1>2. /\ b = session[s].database /\ Opens(b, fs, i) /\ Wrote(b, i, fs, t, op, length)
      /\ x \in SessionType /\ session' = [session EXCEPT ![s] = x]
      /\ x.step = "size" /\ x.txn = t /\ x.database = b /\ x.file = i
      /\ length \in Length
  BY DEF Logs
<1>3. /\ fs \in Seq(Seq(Unit)) /\ Len(fs) \in Nat /\ i \in 1..Len(fs) /\ AllKnown(entries, fs)
      /\ entries \in Seq(Entry) /\ Len(entries) \in Nat /\ files \in [Database -> Seq(Seq(Unit))]
  BY <1>1, <1>2, OpensFacts
<1>4. /\ countFile' = i /\ NewEntry \in EntryId
      /\ entries' \in Seq(Entry) /\ Len(entries') = Len(entries) + 1
      /\ entries'[NewEntry] = [txn |-> t, op |-> op, length |-> length]
      /\ Grown(entries, entries')
      /\ files' = [files EXCEPT ![b] = [fs EXCEPT ![i] = @ \o Body(NewEntry, length)]]
      /\ files'[b] \in Seq(Seq(Unit)) /\ AllKnown(entries', files'[b])
      /\ Len(files'[b]) = Len(fs)
      /\ files'[b][i] = fs[i] \o Body(NewEntry, length)
      /\ \A j \in DOMAIN fs : j # i => files'[b][j] = fs[j]
  BY <1>2, Zenon DEF Wrote
<1>5. CASE b # d
  <2>1. Len(files'[b]) > 0
    BY <1>3, <1>4
  <2> QED BY <1>4, <1>5, <2>1, OtherLog
<1>6. CASE b = d
  <2>1. \A c \in Database : c # d => files'[c] = files[c]
    BY <1>2, <1>6 DEF Wrote
  <2>2. OnlyLog(d)
    BY <1>1, <2>1, OnlyLogBefore
  <2>3. LogInv(d)
    BY <2>2 DEF OrderInv
  <2>4. countFile \in {0, Len(files[d])} /\ InOrder(files[d])
    BY <2>3 DEF LogInv
  <2>5. i = Len(fs) /\ Extends(files[d], fs)
    BY <1>1, <1>2, <1>6, <2>4, OpeningLast DEF Opens
  <2>6. PICK n : n = Len(fs)
    OBVIOUS
  <2>7. PICK gs : gs = files'[d]
    OBVIOUS
  <2>8. PICK made : made = entries
    OBVIOUS
  <2>9. PICK new : new = entries'
    OBVIOUS
  <2>10. PICK e : e = NewEntry
    OBVIOUS
  <2>11. /\ n \in Nat /\ n > 0 /\ n \in DOMAIN fs /\ i = n
         /\ fs[n] \in Seq(Unit)
    BY <1>3, <2>5, <2>6
  <2>12. files[d] \in Seq(Seq(Unit)) /\ AllKnown(made, files[d])
    BY <1>1, <1>3, <2>8 DEF TypeInv
  <2>13. /\ \A u : Walk(made, fs, Len(fs), u) = Walk(made, files[d], Len(files[d]), u)
         /\ InOrder(fs)
    BY <1>3, <2>4, <2>5, <2>8, <2>12, ExtendsFacts
  <2>14. e \in EntryId /\ e \in DOMAIN new /\ e = Len(new) /\ Len(made) < e /\ e \in Nat
    BY <1>3, <1>4, <2>8, <2>9, <2>10 DEF NewEntry
  <2>15. InOrder(gs)
    <3>1. Body(e, length) \in Seq(Unit) /\ \A p \in DOMAIN Body(e, length) : Body(e, length)[p].entry = e
      <4>1. Body(e, length) \in Seq(Unit)
        BY <1>2, <2>14, BodyUnits
      <4> QED BY <4>1 DEF Body
    <3>2. PICK units : units = Body(e, length)
      OBVIOUS
    <3>3. \A j \in DOMAIN fs : \A p \in DOMAIN fs[j] : fs[j][p].entry <= e
      <4> SUFFICES ASSUME NEW j \in DOMAIN fs, NEW p \in DOMAIN fs[j]
                   PROVE  fs[j][p].entry <= e
        OBVIOUS
      <4>1. fs[j][p].entry \in DOMAIN made
        BY <1>3, <2>8 DEF AllKnown, Known
      <4>2. fs[j][p].entry \in 1..Len(made)
        BY <1>3, <2>8, <4>1
      <4> QED BY <1>3, <2>8, <2>14, <4>2
    <3>4. Appends(fs, n, units, gs)
      <4>1. gs = [fs EXCEPT ![i] = @ \o Body(NewEntry, length)]
        BY <1>3, <1>4, <1>6, <2>7
      <4> QED BY <2>10, <2>11, <3>2, <4>1 DEF Appends
    <3>5. units \in Seq(Unit) /\ \A p \in DOMAIN units : units[p].entry = e
      BY <3>1, <3>2
    <3> QED BY <1>3, <2>6, <2>11, <2>13, <2>14, <3>3, <3>4, <3>5, OrderAppended
  <2>16. session'[s] = x /\ \A r \in Session : r # s => session'[r] = session[r]
    BY <1>1, <1>2, OneSessionChanges
  <2>17. Halfway(new, gs, x)
    <3>1. /\ Len(gs) = n /\ x.file = n /\ x.txn = t /\ Len(new) = e
          /\ new[e] = [txn |-> t, op |-> op, length |-> length]
          /\ gs[n] = fs[n] \o Body(e, length)
          /\ gs \in Seq(Seq(Unit)) /\ AllKnown(new, gs) /\ new \in Seq(Entry) /\ made \in Seq(Entry)
      BY <1>2, <1>3, <1>4, <1>6, <2>5, <2>6, <2>7, <2>8, <2>9, <2>10, <2>11, <2>14
    <3>2. Grown(made, new) /\ Known(made, fs[n]) /\ AllKnown(made, fs)
      BY <1>3, <1>4, <2>8, <2>9, <2>11 DEF AllKnown
    <3>3. Known(new, fs[n])
      BY <3>2 DEF Known, Grown
    <3>4. CASE op = "BEGIN" /\ x.own = <<>>
      <4>1. /\ Len(new) > 0 /\ Len(gs) > 0 /\ x.file = Len(gs) /\ new[Len(new)].txn = x.txn
            /\ gs[Len(gs)] = fs[n] \o Body(Len(new), new[Len(new)].length)
            /\ new[Len(new)].op = "BEGIN" /\ x.own = <<>>
        BY <2>11, <2>14, <3>1, <3>4
      <4> QED BY <2>11, <3>3, <4>1, Zenon DEF Halfway
    <3>5. CASE op = "CHANGE" /\ session[s].step = "open" /\ t = session[s].txn
               /\ x.own = Append(session[s].own, NewEntry)
      <4>1. PICK own : own = session[s].own
        OBVIOUS
      <4>2. own \in Seq(EntryId)
        BY <1>1, <4>1, SessionTyped DEF SessionType
      <4>3. Walk(made, files[d], Len(files[d]), t) = Found(own)
        BY <1>2, <1>6, <2>3, <2>8, <3>5, <4>1 DEF LogInv, ReadsBack
      <4>4. Walk(made, fs, n, t) = Found(own)
        BY <2>6, <2>13, <4>3
      <4>5. PICK k : k = n - 1
        OBVIOUS
      <4>6. k \in 0..Len(fs) /\ k <= Len(gs) /\ n \in 1..Len(fs) /\ k \in 0..n - 1
        BY <2>6, <2>11, <3>1, <4>5
      <4>7. Walk(made, fs, n, t) = WalkFile(made, fs[n], t, Walk(made, fs, k, t))
        BY <1>3, <2>8, <3>1, <3>2, <4>5, <4>6, WalkStep
      <4>8. Agree(fs, gs, k)
        <5> SUFFICES ASSUME NEW j \in 1..k PROVE gs[j] = fs[j]
          BY DEF Agree
        <5>1. DOMAIN fs = 1..n
          BY <1>3, <2>6
        <5>2. j \in 1..n /\ j # n
          BY <2>11, <4>5
        <5> QED BY <1>4, <1>6, <2>7, <2>11, <5>1, <5>2
      <4>9. Walk(new, gs, k, t) = Walk(made, fs, k, t)
        <5>1. /\ made \in Seq(Entry) /\ new \in Seq(Entry) /\ Grown(made, new)
              /\ fs \in Seq(Seq(Unit)) /\ gs \in Seq(Seq(Unit))
              /\ AllKnown(made, fs) /\ AllKnown(new, gs)
          BY <1>3, <3>1, <3>2
        <5>2. k \in 0..Len(fs) /\ k <= Len(gs)
          BY <4>6
        <5> QED BY <4>8, <5>1, <5>2, WalkSame
      <4>10. PICK older : older = Walk(made, fs, k, t)
        OBVIOUS
      <4>11. older \in Result
        BY <1>3, <3>1, <3>2, <4>6, <4>10, WalkType
      <4>12. WalkFile(new, fs[n], t, older) = WalkFile(made, fs[n], t, older)
        BY <2>11, <3>1, <3>2, <4>11, WalkFileSame
      <4>13. WalkFile(new, fs[n], t, Walk(new, gs, k, t)) = Found(own)
        BY <4>4, <4>7, <4>9, <4>10, <4>12
      <4>14. /\ Len(new) > 0 /\ Len(gs) > 0 /\ x.file = Len(gs) /\ new[Len(new)].txn = x.txn
             /\ gs[Len(gs)] = fs[n] \o Body(Len(new), new[Len(new)].length)
             /\ new[Len(new)].op # "BEGIN" /\ x.own = Append(own, Len(new))
             /\ k = Len(gs) - 1 /\ t = x.txn
        BY <2>10, <2>11, <2>14, <3>1, <3>5, <4>1, <4>5
      <4> QED BY <2>11, <3>3, <4>2, <4>13, <4>14, Zenon DEF Halfway
    <3> QED BY <3>4, <3>5
  <2>18. ASSUME NEW r \in Session, session'[r].database = d
         PROVE  ReadsBack(entries', files'[d], session'[r])
    <3>1. CASE r = s
      BY <1>2, <2>7, <2>9, <2>16, <2>17, <3>1 DEF ReadsBack
    <3>2. CASE r # s
      <4>1. session'[r].step = "idle"
        BY <1>2, <1>6, <2>16, <2>18, <3>2 DEF Alone
      <4> QED BY <4>1 DEF ReadsBack
    <3> QED BY <3>1, <3>2
  <2>19. countFile' = Len(files'[d])
    BY <1>4, <1>6, <2>5
  <2> QED BY <2>7, <2>15, <2>18, <2>19 DEF LogInv
<1> QED BY <1>5, <1>6

\* Once the size is written the only log is in order, and gives the session its
\* entries back.
LEMMA OrderWriteSize ==
    ASSUME OrderInv, Alone', NEW s \in Session, WriteSize(s), NEW d \in Database, OnlyLog(d)'
    PROVE  LogInv(d)'
<1>1. TypeInv
  BY DEF OrderInv
<1>2. PICK b \in Database : b = session[s].database
  BY <1>1, SessionTyped
<1>3. PICK i : i = session[s].file
  OBVIOUS
<1>4. PICK e : e = Unsized(s)
  OBVIOUS
<1>5. Sized(s, b, i, e)
  BY <1>1, <1>2, <1>3, <1>4, WriteSizeFacts
<1>6. /\ files \in [Database -> Seq(Seq(Unit))] /\ entries \in Seq(Entry) /\ Len(entries) \in Nat
  BY <1>1 DEF TypeInv, TypeOK
<1>7. /\ session' = [session EXCEPT ![s].step = "open"] /\ entries' = entries
      /\ countFile' = countFile /\ session[s].step = "size"
  BY DEF WriteSize
<1>8. PICK gs : gs = files'[b]
  OBVIOUS
<1>9. /\ e \in DOMAIN entries /\ e \in EntryId
      /\ i \in DOMAIN files[b]
      /\ files' = [files EXCEPT ![b] = gs]
      /\ gs \in Seq(Seq(Unit)) /\ Len(gs) = Len(files[b])
      /\ Appends(files[b], i, <<[entry |-> e, part |-> 0]>>, gs)
      /\ gs[i] = files[b][i] \o <<[entry |-> e, part |-> 0]>>
      /\ \A j \in DOMAIN files[b] : j # i => gs[j] = files[b][j]
      /\ AllKnown(entries, gs)
  BY <1>5, <1>8 DEF Sized
<1>10. CASE b # d
  <2>1. files[b] \in Seq(Seq(Unit))
    BY <1>6
  <2>2. Len(gs) > 0
    BY <1>9, <2>1
  <2> QED BY <1>8, <1>9, <1>10, <2>2, OtherLog
<1>11. CASE b = d
  <2>1. \A c \in Database : c # d => files'[c] = files[c]
    BY <1>6, <1>9, <1>11
  <2>2. OnlyLog(d)
    BY <1>1, <2>1, OnlyLogBefore
  <2>3. LogInv(d)
    BY <2>2 DEF OrderInv
  <2>4. PICK fs : fs = files[d]
    OBVIOUS
  <2>5. PICK made : made = entries
    OBVIOUS
  <2>6. PICK old : old = session[s]
    OBVIOUS
  <2>7. Halfway(made, fs, old)
    BY <1>2, <1>7, <1>11, <2>3, <2>4, <2>5, <2>6 DEF LogInv, ReadsBack
  <2>8. /\ Len(made) > 0 /\ Len(fs) > 0 /\ i = Len(fs) /\ made[Len(made)].txn = old.txn
    BY <1>3, <2>6, <2>7 DEF Halfway
  <2>9. e = Len(made)
    <3>1. /\ e \in 1..Len(made)
          /\ \A f \in DOMAIN made : made[f].txn = old.txn => f <= e
      BY <1>1, <1>4, <1>6, <1>7, <2>5, <2>6, UnsizedFacts
    <3>2. Len(made) \in DOMAIN made
      BY <1>6, <2>5, <2>8
    <3>3. Len(made) <= e
      BY <2>8, <3>1, <3>2
    <3> QED BY <1>6, <2>5, <3>1, <3>3
  <2>10. /\ fs \in Seq(Seq(Unit)) /\ AllKnown(made, fs) /\ made \in Seq(Entry)
    BY <1>1, <1>6, <2>4, <2>5 DEF TypeInv
  <2>11. Walk(made, gs, Len(gs), old.txn) = Found(old.own)
    <3>1. /\ gs \in Seq(Seq(Unit)) /\ AllKnown(made, gs) /\ Len(gs) = Len(fs)
          /\ gs[Len(fs)] = fs[Len(fs)] \o <<[entry |-> Len(made), part |-> 0]>>
          /\ \A j \in DOMAIN fs : j # Len(fs) => gs[j] = fs[j]
          /\ Len(made) \in EntryId
      BY <1>9, <1>11, <2>4, <2>5, <2>8, <2>9
    <3> QED BY <2>7, <2>10, <3>1, SizeCompletes
  <2>12. PICK units : units = <<[entry |-> e, part |-> 0]>>
    OBVIOUS
  <2>13. PICK n : n = Len(fs)
    OBVIOUS
  <2>14. InOrder(gs)
    <3>1. units \in Seq(Unit) /\ \A p \in DOMAIN units : units[p].entry = e
      <4>1. [entry |-> e, part |-> 0] \in Unit
        BY <1>9 DEF Unit, Part
      <4> QED BY <2>12, <4>1
    <3>2. \A j \in DOMAIN fs : \A p \in DOMAIN fs[j] : fs[j][p].entry <= e
      <4> SUFFICES ASSUME NEW j \in DOMAIN fs, NEW p \in DOMAIN fs[j]
                   PROVE  fs[j][p].entry <= e
        OBVIOUS
      <4>1. fs[j][p].entry \in DOMAIN made
        BY <2>10 DEF AllKnown, Known
      <4>2. fs[j][p].entry \in 1..Len(made)
        BY <2>10, <4>1
      <4> QED BY <2>9, <4>2
    <3>3. Appends(fs, n, units, gs) /\ InOrder(fs)
      <4>1. InOrder(fs)
        BY <2>3, <2>4 DEF LogInv
      <4>2. Appends(files[d], Len(fs), units, gs)
        BY <1>9, <1>11, <2>8, <2>12
      <4> QED BY <2>4, <2>13, <4>1, <4>2
    <3>4. n > 0 /\ e \in Nat
      BY <1>9, <2>8, <2>13 DEF EntryId
    <3> QED BY <2>10, <2>13, <3>1, <3>2, <3>3, <3>4, OrderAppended
  <2>15. PICK x : x = [old EXCEPT !.step = "open"]
    OBVIOUS
  <2>16. /\ x \in SessionType /\ x.step = "open" /\ x.txn = old.txn /\ x.own = old.own
         /\ x.database = d
    BY <1>1, <1>2, <1>11, <2>6, <2>15, SessionTyped DEF SessionType, Steps
  <2>17. session' = [session EXCEPT ![s] = x]
    BY <1>1, <1>7, <2>6, <2>15, SessionTyped
  <2>18. session'[s] = x /\ \A r \in Session : r # s => session'[r] = session[r]
    BY <1>1, <2>16, <2>17, OneSessionChanges
  <2>19. ASSUME NEW r \in Session, session'[r].database = d
         PROVE  ReadsBack(entries', files'[d], session'[r])
    <3>1. CASE r = s
      BY <1>7, <1>8, <1>11, <2>5, <2>11, <2>16, <2>18, <3>1 DEF ReadsBack
    <3>2. CASE r # s
      <4>1. session'[r].step = "idle"
        BY <2>16, <2>18, <2>19, <3>2 DEF Alone
      <4> QED BY <4>1 DEF ReadsBack
    <3> QED BY <3>1, <3>2
  <2>20. countFile' \in {0, Len(files'[d])}
    BY <1>7, <1>8, <1>9, <1>11, <2>3 DEF LogInv
  <2> QED BY <1>8, <1>11, <2>14, <2>19, <2>20 DEF LogInv
<1> QED BY <1>10, <1>11

\* Undo leaves the only log in order, and has seen what its session has made.
LEMMA OrderUndoes ==
    ASSUME OrderInv, Alone', NEW s \in Session, session[s].step = "open",
           NEW b \in Database, NEW fs, NEW i, NEW x, Undoes(s, b, fs, i, x),
           NEW d \in Database, OnlyLog(d)'
    PROVE  LogInv(d)'
<1>1. TypeInv
  BY DEF OrderInv
<1>2. /\ b = session[s].database /\ Opens(b, fs, i)
      /\ countFile' = i /\ files' = [files EXCEPT ![b] = fs]
      /\ entries' = entries
      /\ x \in SessionType /\ session' = [session EXCEPT ![s] = x]
      /\ x.step = "undone" /\ x.txn = session[s].txn /\ x.database = b
      /\ x.own = session[s].own /\ x.seen = Walk(entries, fs, i, session[s].txn).seen
  BY DEF Undoes
<1>3. /\ fs \in Seq(Seq(Unit)) /\ Len(fs) \in Nat /\ i \in 1..Len(fs) /\ AllKnown(entries, fs)
      /\ entries \in Seq(Entry) /\ files \in [Database -> Seq(Seq(Unit))]
  BY <1>1, <1>2, OpensFacts
<1>4. files'[b] = fs /\ \A c \in Database : c # b => files'[c] = files[c]
  BY <1>2, <1>3
<1>5. CASE b # d
  <2>1. Len(fs) > 0
    BY <1>3
  <2> QED BY <1>3, <1>4, <1>5, <2>1, OtherLog
<1>6. CASE b = d
  <2>1. OnlyLog(d)
    BY <1>1, <1>4, <1>6, OnlyLogBefore
  <2>2. LogInv(d)
    BY <2>1 DEF OrderInv
  <2>3. countFile \in {0, Len(files[d])} /\ InOrder(files[d])
    BY <2>2 DEF LogInv
  <2>4. i = Len(fs) /\ Extends(files[d], fs)
    BY <1>1, <1>2, <1>6, <2>3, OpeningLast DEF Opens
  <2>5. files[d] \in Seq(Seq(Unit)) /\ AllKnown(entries, files[d])
    BY <1>1, <1>3 DEF TypeInv
  <2>6. PICK made : made = entries
    OBVIOUS
  <2>7. /\ \A u : Walk(made, fs, Len(fs), u) = Walk(made, files[d], Len(files[d]), u)
        /\ InOrder(fs)
    BY <1>3, <2>3, <2>4, <2>5, <2>6, ExtendsFacts
  <2>8. Walk(made, files[d], Len(files[d]), x.txn) = Found(x.own)
    BY <1>2, <1>6, <2>2, <2>6 DEF LogInv, ReadsBack
  <2>9. x.seen = Reverse(x.own)
    BY <1>2, <2>4, <2>6, <2>7, <2>8 DEF Found
  <2>10. session'[s] = x /\ \A r \in Session : r # s => session'[r] = session[r]
    BY <1>1, <1>2, OneSessionChanges
  <2>11. ASSUME NEW r \in Session, session'[r].database = d
         PROVE  ReadsBack(entries', files'[d], session'[r])
    <3>1. CASE r = s
      BY <1>2, <2>9, <2>10, <3>1 DEF ReadsBack
    <3>2. CASE r # s
      <4>1. session'[r].step = "idle"
        BY <1>2, <1>6, <2>10, <2>11, <3>2 DEF Alone
      <4> QED BY <4>1 DEF ReadsBack
    <3> QED BY <3>1, <3>2
  <2> QED BY <1>2, <1>4, <1>6, <2>4, <2>7, <2>11 DEF LogInv
<1> QED BY <1>5, <1>6

\* Every step keeps the order and the walk, as long as no two sessions have
\* transactions open in one database.
LEMMA OrderStep ==
    ASSUME ~Shared
    PROVE  OrderInv /\ [Next]_vars => OrderInv'
<1> SUFFICES ASSUME OrderInv, [Next]_vars PROVE OrderInv'
  OBVIOUS
<1>1. TypeInv /\ TypeInv' /\ Alone
  BY TypeStep DEF OrderInv
<1> SUFFICES Alone' /\ \A d \in Database : OnlyLog(d)' => LogInv(d)'
  BY <1>1 DEF OrderInv
<1>2. CASE UNCHANGED vars
  BY <1>2, OrderNothing DEF vars, Nothing
<1>3. ASSUME NEW s \in Session, NEW x \in SessionType, x.step = "idle",
             session' = [session EXCEPT ![s] = x],
             UNCHANGED <<entries, files, countFile>>
      PROVE  Alone' /\ \A d \in Database : OnlyLog(d)' => LogInv(d)'
  <2>1. Alone'
    BY <1>1, <1>3, AloneKept
  <2>2. \A r \in Session : session'[r] = session[r] \/ session'[r].step = "idle"
    BY <1>1, <1>3, OneSessionChanges
  <2> QED BY <1>3, <2>1, <2>2, OrderIdle
<1>4. ASSUME NEW s \in Session, End(s)
      PROVE  Alone' /\ \A d \in Database : OnlyLog(d)' => LogInv(d)'
  <2>1. /\ Idle(session[s].database) \in SessionType
        /\ Idle(session[s].database).step = "idle"
    BY <1>1, SessionTyped, IdleType
  <2>2. /\ session' = [session EXCEPT ![s] = Idle(session[s].database)]
        /\ UNCHANGED <<entries, files, countFile>>
    BY <1>4 DEF End
  <2> QED BY <1>3, <2>1, <2>2
<1>5. ASSUME NEW s \in Session, NEW b \in Database, SetDatabase(s, b)
      PROVE  Alone' /\ \A d \in Database : OnlyLog(d)' => LogInv(d)'
  <2>1. /\ session' = [session EXCEPT ![s] = Idle(b)]
        /\ UNCHANGED <<entries, files, countFile>>
    BY <1>5 DEF SetDatabase
  <2> QED BY <1>3, <2>1, IdleType
<1>6. ASSUME Crash
      PROVE  Alone' /\ \A d \in Database : OnlyLog(d)' => LogInv(d)'
  <2>1. /\ entries' = entries /\ files' = files /\ countFile' = 0
        /\ session' = [s \in Session |-> Idle(session[s].database)]
    BY <1>6 DEF Crash
  <2>2. \A s \in Session : session'[s].step = "idle"
    BY <1>1, <2>1, SessionTyped, IdleType, Zenon
  <2>3. Alone'
    BY <2>2 DEF Alone
  <2> QED BY <2>1, <2>2, <2>3, OrderIdle
<1>7. ASSUME NEW s \in Session, Begin(s)
      PROVE  Alone' /\ \A d \in Database : OnlyLog(d)' => LogInv(d)'
  <2>1. CASE Nothing
    BY <2>1, OrderNothing
  <2>2. ASSUME NEW b \in Database, NEW fs, NEW i, NEW t, NEW length, NEW x,
               Logs(s, b, fs, i, t, "BEGIN", length, x), x.own = <<>>
        PROVE  Alone' /\ \A d \in Database : OnlyLog(d)' => LogInv(d)'
    <3>1. /\ x \in SessionType /\ session' = [session EXCEPT ![s] = x]
          /\ x.database = session[s].database
      BY <2>2 DEF Logs
    <3>2. \A r \in Session : session[r].database = session[s].database => session[r].step = "idle"
      BY <1>1, <1>7, BeginFacts
    <3>3. Alone'
      BY <1>1, <3>1, <3>2, AloneKept
    <3> QED BY <2>2, <3>3, OrderLogs
  <2> QED BY <1>1, <1>7, <2>1, <2>2, BeginFacts
<1>8. ASSUME NEW s \in Session, session[s].step # "idle", NEW x \in SessionType,
             session' = [session EXCEPT ![s] = x], x.database = session[s].database
      PROVE  Alone'
  <2>1. \A r \in Session : r # s /\ session[r].database = x.database => session[r].step = "idle"
    BY <1>1, <1>8 DEF Alone
  <2> QED BY <1>1, <1>8, <2>1, AloneKept
<1>9. ASSUME NEW s \in Session, LogChange(s)
      PROVE  Alone' /\ \A d \in Database : OnlyLog(d)' => LogInv(d)'
  <2>1. CASE Nothing
    BY <2>1, OrderNothing
  <2>2. session[s].step = "open"
    BY <1>1, <1>9, LogChangeFacts
  <2>3. ASSUME NEW b \in Database, NEW fs, NEW i, NEW t, NEW length, NEW x,
               Logs(s, b, fs, i, t, "CHANGE", length, x),
               t = session[s].txn, x.own = Append(session[s].own, NewEntry)
        PROVE  Alone' /\ \A d \in Database : OnlyLog(d)' => LogInv(d)'
    <3>1. /\ x \in SessionType /\ session' = [session EXCEPT ![s] = x]
          /\ x.database = session[s].database
      BY <2>3 DEF Logs
    <3>2. Alone'
      BY <1>8, <2>2, <3>1
    <3> QED BY <2>2, <2>3, <3>2, OrderLogs
  <2> QED BY <1>1, <1>9, <2>1, <2>3, LogChangeFacts
<1>10. ASSUME NEW s \in Session, WriteSize(s)
       PROVE  Alone' /\ \A d \in Database : OnlyLog(d)' => LogInv(d)'
  <2>1. PICK x : x = [session[s] EXCEPT !.step = "open"]
    OBVIOUS
  <2>2. x \in SessionType /\ x.database = session[s].database
    BY <1>1, <2>1, SessionTyped DEF SessionType, Steps
  <2>3. session' = [session EXCEPT ![s] = x] /\ session[s].step = "size"
    BY <1>1, <1>10, <2>1, SessionTyped DEF WriteSize
  <2>4. Alone'
    BY <1>8, <2>2, <2>3
  <2> QED BY <1>10, <2>4, OrderWriteSize
<1>11. ASSUME NEW s \in Session, Undo(s)
       PROVE  Alone' /\ \A d \in Database : OnlyLog(d)' => LogInv(d)'
  <2>1. CASE Nothing
    BY <2>1, OrderNothing
  <2>2. session[s].step = "open"
    BY <1>1, <1>11, UndoFacts
  <2>3. ASSUME NEW b \in Database, NEW fs, NEW i, NEW x, Undoes(s, b, fs, i, x)
        PROVE  Alone' /\ \A d \in Database : OnlyLog(d)' => LogInv(d)'
    <3>1. /\ x \in SessionType /\ session' = [session EXCEPT ![s] = x]
          /\ x.database = session[s].database
      BY <2>3 DEF Undoes
    <3>2. Alone'
      BY <1>8, <2>2, <3>1
    <3> QED BY <2>2, <2>3, <3>2, OrderUndoes
  <2> QED BY <1>1, <1>11, <2>1, <2>3, UndoFacts
<1> QED
  BY <1>2, <1>4, <1>5, <1>6, <1>7, <1>9, <1>10, <1>11 DEF Next

\* There is one database.
OneDatabase == \E d \in Database : Database = {d}

\* While one database alone has log files they hold the entries in the order in
\* which they were made, for any number of databases and sessions, log files of any
\* size and crashes between any two writes: a new process appends to the newest file.
THEOREM EntriesStayInOrder ==
    ASSUME ~Shared
    PROVE  Spec => []EntriesInOrder
<1>1. OrderInv => EntriesInOrder
  BY DEF OrderInv, OnlyLog, LogInv, InOrder, EntriesInOrder
<1>2. Init => OrderInv
  BY OrderInit
<1>3. OrderInv /\ [Next]_vars => OrderInv'
  BY OrderStep
<1> QED BY <1>1, <1>2, <1>3, PTL DEF Spec

\* The log of one database can be read back and tells the changes in their order.
THEOREM LogStaysReadable ==
    ASSUME ~Shared, OneDatabase
    PROVE  Spec => []LogIsReadable
<1>1. OrderInv => LogIsReadable
  <2> SUFFICES ASSUME OrderInv PROVE LogIsReadable
    OBVIOUS
  <2>1. EntriesInOrder
    BY DEF OrderInv, OnlyLog, LogInv, InOrder, EntriesInOrder
  <2>2. WalkIsReadable
    <3> SUFFICES ASSUME NEW s \in Session, NEW d, d = session[s].database,
                        session[s].step = "open", ~FileMissing(d), countFile # 0
                 PROVE  Walk(entries, files[d], countFile, session[s].txn).readable
      BY DEF WalkIsReadable
    <3>1. d \in Database
      BY SessionTyped DEF OrderInv
    <3>2. OnlyLog(d)
      BY <3>1 DEF OneDatabase, OnlyLog
    <3>3. LogInv(d)
      BY <3>1, <3>2 DEF OrderInv
    <3>4. Walk(entries, files[d], Len(files[d]), session[s].txn) = Found(session[s].own)
      BY <3>3 DEF LogInv, ReadsBack
    <3>5. countFile = Len(files[d])
      BY <3>3 DEF LogInv
    <3> QED BY <3>4, <3>5 DEF Found
  <2> QED BY <2>1, <2>2 DEF LogIsReadable
<1>2. Init => OrderInv
  BY OrderInit
<1>3. OrderInv /\ [Next]_vars => OrderInv'
  BY OrderStep
<1> QED BY <1>1, <1>2, <1>3, PTL DEF Spec

\* An abort in one database undoes exactly what its transaction did, the last change
\* first: however long the entries are, wherever the log changes files, whatever
\* earlier crashes have torn, and whoever had transactions there before.
THEOREM AbortIsExact ==
    ASSUME ~Shared, OneDatabase
    PROVE  Spec => []UndoIsExact
<1>1. OrderInv => UndoIsExact
  <2> SUFFICES ASSUME OrderInv, NEW s \in Session, session[s].step = "undone"
               PROVE  session[s].seen = Reverse(session[s].own)
    BY DEF UndoIsExact
  <2>1. PICK d \in Database : d = session[s].database
    BY SessionTyped DEF OrderInv
  <2>2. OnlyLog(d)
    BY DEF OneDatabase, OnlyLog
  <2> QED BY <2>1, <2>2 DEF OrderInv, LogInv, ReadsBack
<1>2. Init => OrderInv
  BY OrderInit
<1>3. OrderInv /\ [Next]_vars => OrderInv'
  BY OrderStep
<1> QED BY <1>1, <1>2, <1>3, PTL DEF Spec
=============================================================================
