--------------------------- MODULE SelectPromise ---------------------------
(***************************************************************************)
(* What SQL promises of a select, without the loops of select.cpp: the     *)
(* rows of a join are the combinations of one row of each table, or of no  *)
(* row, and a condition is true or false of a combination.                 *)
(***************************************************************************)
EXTENDS Select

NoLimit == [rows |-> 1000000000, offset |-> 0]
TablesOf(q) == <<q.table>> \o [i \in DOMAIN q.joins |-> q.joins[i].table]

\* A combination has the number of a row for each table, 0 for none.
CellOf(q, comb, table, attribute) ==
    LET k == SelectInSeq(TablesOf(q), LAMBDA t : t = table)
        row == Tables[table].rows[comb[k]]
    IN IF comb[k] = 0 \/ (comb[k] # 0 /\ attribute \notin DOMAIN row) THEN Null ELSE row[attribute]
CellNamed(q, comb, e) ==
    CellOf(q, comb,
           IF e.table # <<>> THEN e.table
           ELSE CHOOSE t \in ToSet(TablesOf(q)) : e.attribute \in ToSet(Tables[t].attributes),
           e.attribute)

\* Conditions on integers, joined by and, or and not.
RECURSIVE Plain(_), Truth(_, _, _)
Plain(e) ==
    CASE "value" \in DOMAIN e -> TypeOf(e.value) \in {"int", "bool"}
      [] "attribute" \in DOMAIN e -> TRUE
      [] "op" \in DOMAIN e ->
            /\ e.op \in {<<"and">>, <<"or">>, Not, <<"=">>, <<"<", ">">>, <<"<">>, <<">">>,
                         <<"<", "=">>, <<">", "=">>}
            /\ \A i \in DOMAIN e.args : Plain(e.args[i])
      [] OTHER -> FALSE
Related(op, a, b) ==
    CASE op = <<"=">> -> a = b       [] op = <<"<", ">">> -> a # b
      [] op = <<"<">> -> a < b       [] op = <<"<", "=">> -> a <= b
      [] op = <<">">> -> a > b       [] op = <<">", "=">> -> a >= b
Truth(q, comb, e) ==
    LET number(x) == IF "value" \in DOMAIN x THEN x.value[2] ELSE CellNamed(q, comb, x)[2] IN
    IF "value" \in DOMAIN e THEN e.value = Bool(TRUE)
    ELSE CASE e.op = <<"and">> -> \A i \in 1..2 : Truth(q, comb, e.args[i])
           [] e.op = <<"or">> -> \E i \in 1..2 : Truth(q, comb, e.args[i])
           [] e.op = Not -> ~Truth(q, comb, e.args[1])
           [] OTHER -> Given([i \in 1..2 |-> number(e.args[i])], LAMBDA n : Related(e.op, n[1], n[2]))

Understood(q) ==
    /\ IsInjective(TablesOf(q))
    /\ Plain(q.where)
    /\ \A i \in DOMAIN q.joins : Plain(q.joins[i].on) /\ q.joins[i].type # "full"

RowsNumbered(table) == 1 .. Len(Tables[table].rows)
\* The combinations after the first k joins.
Combinations(q) ==
    LET after[k \in 0..Len(q.joins)] ==
          LET j == q.joins[k]
              before == after[k - 1]
              pairs == {c \in {Append(l, i) : l \in before, i \in RowsNumbered(j.table)} :
                            Truth(q, c, j.on)}
              left == {Append(l, 0) : l \in {l \in before : \A c \in pairs : Front(c) # l}}
              right == {Append([n \in 1..k |-> 0], i) :
                            i \in {i \in RowsNumbered(j.table) : \A c \in pairs : Last(c) # i}}
          IN IF k = 0 THEN {<<i>> : i \in RowsNumbered(q.table)}
             ELSE pairs \cup (IF j.type = "left" THEN left ELSE {})
                        \cup (IF j.type = "right" THEN right ELSE {})
    IN {c \in after[Len(q.joins)] : Truth(q, c, q.where)}

WholeRow(q, comb) ==
    FlattenSeq([k \in DOMAIN TablesOf(q) |->
        LET t == TablesOf(q)[k] IN
        [i \in DOMAIN Tables[t].attributes |-> CellOf(q, comb, t, Tables[t].attributes[i])]])
\* As often in the rows as among the combinations.
SameRows(rows, combs, RowOf(_)) ==
    /\ Len(rows) = Cardinality(combs)
    /\ \A d \in ToSet(rows) :
        Cardinality({i \in DOMAIN rows : rows[i] = d}) = Cardinality({c \in combs : RowOf(c) = d})

WholeTables(q) ==
    q.all /\ Understood(q) /\ q.groups = <<>> /\ q.limit = NoLimit
JoinsAsPromised(q, rows) ==
    Given(Combinations(q), LAMBDA combs : SameRows(rows, combs, LAMBDA c : WholeRow(q, c)))

-----------------------------------------------------------------------------
(* Groups *)

Aggregates(q) ==
    /\ ~q.all /\ Understood(q) /\ q.limit = NoLimit
    /\ \A i \in DOMAIN q.targets :
        LET t == q.targets[i] IN
        \/ t.aggregate = "count_all"
        \/ t.aggregate \in {"count", "sum", "max"} /\ "attribute" \in DOMAIN t.of
        \/ t.aggregate = "normal" /\ <<t.of.table, t.of.attribute>> \in ToSet(q.groups)
GroupsAsPromised(q, rows) ==
    Given(Combinations(q), LAMBDA combs :
    Given([c \in combs |-> [i \in DOMAIN q.groups |-> CellOf(q, c, q.groups[i][1], q.groups[i][2])]],
          LAMBDA keyOf :
    LET keys == IF q.groups = <<>> THEN {<<>>} ELSE {keyOf[c] : c \in combs}
        datum(t, group) ==
          IF t.aggregate = "count_all" THEN Datetime(Cardinality(group))
          ELSE Given([c \in group |-> CellNamed(q, c, t.of)], LAMBDA cell :
               LET present == {c \in group : cell[c] # Null} IN
               CASE t.aggregate = "normal" -> cell[CHOOSE c \in group : TRUE]
                 [] t.aggregate = "count" -> IntOf(Cardinality(present))
                 [] t.aggregate = "sum" -> IntOf(MapThenSumSet(LAMBDA c : cell[c][2], group))
                 [] t.aggregate = "max" -> IntOf(Max({cell[c][2] : c \in present})))
        group(key) == {c \in combs : keyOf[c] = key}
    IN SameRows(rows, keys, LAMBDA key : Given(group(key), LAMBDA g :
                                [i \in DOMAIN q.targets |-> datum(q.targets[i], g)]))))

-----------------------------------------------------------------------------
(* Order and limit *)

Paged(q) == q.all /\ Understood(q) /\ q.orders # <<>>
PageAsPromised(q, rows) ==
    Given([c \in Combinations(q) |-> WholeRow(q, c)], LAMBDA rowOf :
    LET named == [i \in DOMAIN AllTargets(q) |-> AllTargets(q)[i].of]
        columns == [k \in DOMAIN q.orders |-> CHOOSE i \in DOMAIN named :
            /\ q.orders[k].table \in {<<>>, named[i].table}
            /\ named[i].attribute = q.orders[k].attribute]
        all == Cardinality(DOMAIN rowOf)
        less(v, w) == v # w /\ (v = Null \/ (w # Null /\ v[2] < w[2]))
    IN Given(columns, LAMBDA column :
       LET before(a, b) ==     \* rows a and b, by the first condition that tells them apart
             \E k \in DOMAIN q.orders :
                /\ \A j \in 1..k - 1 : a[column[j]] = b[column[j]]
                /\ IF q.orders[k].desc THEN less(b[column[k]], a[column[k]])
                                       ELSE less(a[column[k]], b[column[k]])
           number(Those(_)) == Cardinality({c \in DOMAIN rowOf : Those(rowOf[c])})
       IN /\ Len(rows) = Max({0, Min({all - q.limit.offset, q.limit.rows})})
          /\ \A p \in DOMAIN rows :
                /\ number(LAMBDA r : before(r, rows[p])) <= q.limit.offset + p - 1
                /\ number(LAMBDA r : before(rows[p], r)) <= all - q.limit.offset - p
                /\ Cardinality({r \in DOMAIN rows : rows[r] = rows[p]}) <= number(LAMBDA r : r = rows[p])))

-----------------------------------------------------------------------------
(* Conditions on one string *)

OnStrings(q) == q.all /\ q.joins = <<>> /\ q.orders = <<>> /\ q.limit = NoLimit /\ "op" \in DOMAIN q.where
StringsSelected(rows) == {rows[i][1][2] : i \in DOMAIN rows}
StringsOf(q) == {r[Tables[q.table].attributes[1]][2] : r \in ToSet(Tables[q.table].rows)}

\* s contains the characters of the pattern, those between two % together, in
\* their order: f gives the place of each.
Holding(s, pattern) ==
    LET letters == SelectSeq([i \in DOMAIN pattern |-> i], LAMBDA i : pattern[i] # "%") IN
    \E f \in [DOMAIN letters -> DOMAIN s] :
        /\ \A k \in DOMAIN letters : s[f[k]] = pattern[letters[k]]
        /\ \A k \in 1..Len(letters) - 1 :
            IF letters[k + 1] = letters[k] + 1 THEN f[k + 1] = f[k] + 1 ELSE f[k + 1] > f[k]
SingleLetters(pattern) ==
    \A i \in 1..Len(pattern) - 1 : pattern[i] = "%" \/ pattern[i + 1] = "%"

Likes(q) == OnStrings(q) /\ q.where.op = <<"like">> /\ "value" \in DOMAIN q.where.args[2]
LikesAsPromised(q, rows) ==
    LET pattern == q.where.args[2].value[2] IN
    /\ \A s \in StringsSelected(rows) : Holding(s, pattern)
    /\ SingleLetters(pattern) =>
        \A s \in StringsOf(q) : Holding(s, pattern) => s \in StringsSelected(rows)

\* select * ... where f(s, ...) = literal
Calls(q) ==
    /\ OnStrings(q) /\ q.where.op = <<"=">> /\ "function" \in DOMAIN q.where.args[1]
    /\ q.where.args[1].function \in {"substring", "replace", "reverse", "concat", "trim"}
CallsAsPromised(q, rows) ==
    LET call == q.where.args[1]
        wanted == q.where.args[2].value[2]
        arg(i) == call.args[i].value[2]
        gives(s) ==
          CASE call.function = "substring" ->
                 \E i \in 0..Len(s) :
                    /\ i = arg(2) - 1
                    /\ IsPrefix(wanted, SubSeq(s, i + 1, Len(s)))
                    /\ Len(wanted) = Min({arg(3), Len(s) - i})
            [] call.function = "replace" ->     \* one letter by one that is not in s
                 /\ Len(wanted) = Len(s)
                 /\ \A i \in DOMAIN s : wanted[i] = IF <<s[i]>> = arg(2) THEN arg(3)[1] ELSE s[i]
            [] call.function = "reverse" ->
                 Len(wanted) = Len(s) /\ \A i \in DOMAIN s : wanted[i] = s[Len(s) + 1 - i]
            [] call.function = "concat" -> wanted = s \o arg(2)
            [] call.function = "trim" ->
                 \E m, n \in 0..Len(s) :
                    /\ s = [i \in 1..m |-> " "] \o wanted \o [i \in 1..n |-> " "]
                    /\ wanted # <<>> => Head(wanted) # " " /\ Last(wanted) # " "
    IN StringsSelected(rows) = {s \in StringsOf(q) : gives(s)}
=============================================================================
