------------------------------- MODULE Select -------------------------------
(***************************************************************************)
(* Database::select (select.cpp) with the query it is given (sql_query.cpp):*)
(* the rows of the main table are joined, filtered, grouped, ordered and   *)
(* cut, one after the other.                                               *)
(*                                                                         *)
(* The table locks are left to LockManager, the printed table to the rows  *)
(* themselves.  A step gives [rows] or the [fault] that ends the statement.*)
(***************************************************************************)
EXTENDS Expressions

CONSTANT Tables     \* name of a table -> [attributes, rows], rows in key order

Rows(rows) == [rows |-> rows]
Ended(f) == [fault |-> f]
HasFault(r) == "fault" \in DOMAIN r

\* addToJoinedTuple: what the tuple holds already stays.
AddTo(tuple, table, row) ==
    LET own == {<<table, a>> : a \in DOMAIN row} IN
    [k \in DOMAIN tuple \cup own |-> IF k \in DOMAIN tuple THEN tuple[k] ELSE row[k[2]]]
NullRow(table) ==
    [a \in {Tables[table].attributes[i] : i \in DOMAIN Tables[table].attributes} |-> Null]
NoTuple == [k \in {} |-> Null]
TuplesOf(table) ==
    [i \in DOMAIN Tables[table].rows |-> AddTo(NoTuple, table, Tables[table].rows[i])]

\* The tuples e holds for, or the first fault of its evaluation.
Filter(e, tuples) ==
    Given([i \in DOMAIN tuples |-> Holds(e, tuples[i])], LAMBDA verdicts :
        IF FirstFault(verdicts) # NoValue THEN Ended(FirstFault(verdicts)[1])
        ELSE LET kept == SelectSeq([i \in DOMAIN tuples |-> i],
                                   LAMBDA i : verdicts[i] = Bool(TRUE))
             IN Rows([i \in DOMAIN kept |-> tuples[kept[i]]]))

\* Each element of outer with its own matches; one that has none, with null.
JoinEach(e, outer, Matches(_), WithNull(_), keepsAll) ==
    Given([i \in DOMAIN outer |-> Given(Matches(outer[i]), LAMBDA tuples : Filter(e, tuples))],
          LAMBDA parts :
            LET faults == {i \in DOMAIN outer : HasFault(parts[i])} IN
            IF faults # {} THEN parts[Min(faults)]
            ELSE Rows(FlattenSeq([i \in DOMAIN outer |->
                        IF parts[i].rows = <<>> /\ keepsAll THEN <<WithNull(outer[i])>>
                        ELSE parts[i].rows])))

\* The joins that keep the elements without a match.
\* Slip: the right join keeps only the rows that have a match.
KeepsLeftOnly(type) == type = "left"
KeepsAll(type) == type \in {"left", "right"}

\* One turn of the join loop: the tuples so far and the null row they join.
JoinTurn(state, join) ==
    LET table == join.table
        left == state.rows
        right == Tables[table].rows
        leftOf(l) == [j \in DOMAIN right |-> AddTo(l, table, right[j])]
        rightOf(r) == [i \in DOMAIN left |-> AddTo(left[i], table, r)]
        always == [value |-> Bool(TRUE)]
        nullOf(l) == AddTo(l, table, NullRow(table))
        result ==
          CASE join.type \in {"inner", "cross", "left"} ->
                 JoinEach(IF join.type = "cross" THEN always ELSE join.on,
                          left, leftOf, nullOf, KeepsAll(join.type))
            [] join.type = "right" ->
                 JoinEach(join.on, right, rightOf, LAMBDA r : AddTo(state.null, table, r),
                          KeepsAll(join.type))
            [] join.type = "full" -> Rows(<<>>)     \* TODO in the code
    IN IF table \notin DOMAIN Tables THEN Ended("error")
       ELSE Given(result, LAMBDA r :
                IF HasFault(r) THEN r ELSE [rows |-> r.rows, null |-> nullOf(state.null)])

Joined(q) ==
    FoldLeft(LAMBDA state, join :
                Given(state, LAMBDA s : IF HasFault(s) THEN s ELSE JoinTurn(s, join)),
             [rows |-> TuplesOf(q.table), null |-> AddTo(NoTuple, q.table, NullRow(q.table))],
             q.joins)

\* A target on a group, or the first fault of the targets.
DataOf(targets, rows) == [i \in DOMAIN targets |-> TargetOf(targets[i], rows)]
Datas(targets, groups) ==
    Given([i \in DOMAIN groups |-> DataOf(targets, groups[i])], LAMBDA datas :
        LET faults == {i \in DOMAIN datas : FirstFault(datas[i]) # NoValue} IN
        IF faults = {} THEN Rows(datas) ELSE Ended(FirstFault(datas[Min(faults)])[1]))

\* row[{table, attribute}]: a key that is not there is put there with null.
GroupKey(q, row) == [i \in DOMAIN q.groups |->
    IF q.groups[i] \in DOMAIN row THEN row[q.groups[i]] ELSE Null]
Regrouped(q, row) == [k \in DOMAIN row \cup ToSet(q.groups) |->
    IF k \in DOMAIN row THEN row[k] ELSE Null]
\* The groups in the order of a hash table: any.
Groupings(q, rows) ==
    LET keys == {GroupKey(q, rows[i]) : i \in DOMAIN rows}
        group(key) == LET own == SelectSeq(rows, LAMBDA r : GroupKey(q, r) = key)
                      IN [i \in DOMAIN own |-> Regrouped(q, own[i])]
    IN IF q.groups # <<>>
       THEN {[i \in DOMAIN p |-> group(p[i])] : p \in SetToSeqs(keys)}
       ELSE IF q.aggregated THEN {<<rows>>}
       ELSE {[i \in DOMAIN rows |-> <<rows[i]>>]}

\* The column of each order condition that has one.  A condition without a
\* column is an error only while none before it had one.
ColumnOf(q, o) ==
    LET name(h) == IF o.table # <<>> THEN h
                   ELSE SubSeq(h, Max({0} \cup {i \in DOMAIN h : h[i] = "."}) + 1, Len(h))
        wanted == IF o.table # <<>> THEN o.table \o <<".">> \o o.attribute ELSE o.attribute
        found == {i \in DOMAIN q.headers : wanted \in {q.headers[i], name(q.headers[i])}}
    IN Min({Len(q.headers) + 1} \cup found)
Columns(q) ==
    SelectSeq([i \in DOMAIN q.orders |-> ColumnOf(q, q.orders[i])],
              LAMBDA c : c <= Len(q.headers))
OrderFails(q) == q.orders # <<>> /\ ColumnOf(q, q.orders[1]) > Len(q.headers)

\* The comparator of std::sort; the i-th column takes the i-th condition's
\* direction, whichever condition it came from.
Before(q, a, b) ==
    LET ids == Columns(q)
        differ == {i \in DOMAIN ids : a[ids[i]] # b[ids[i]]}
        i == Min(differ)
    IN differ # {} /\ IF q.orders[i].desc THEN Less(b[ids[i]], a[ids[i]])
                                         ELSE Less(a[ids[i]], b[ids[i]])
\* std::sort is not stable: rows the comparator does not tell apart may swap.
Sorted(q, datas) ==
    IF q.orders = <<>> THEN {datas}
    ELSE {s \in {[i \in DOMAIN p |-> datas[p[i]]] : p \in SetToSeqs(DOMAIN datas)} :
            \A i, j \in DOMAIN s : i < j => ~Before(q, s[j], s[i])}

Cut(q, datas) ==
    SubSeq(datas, q.limit.offset + 1, Min({Len(datas), q.limit.offset + q.limit.rows}))

\* select *: a target for each attribute of each table.
AllTargets(q) ==
    LET tables == <<q.table>> \o [i \in DOMAIN q.joins |-> q.joins[i].table]
        ofTable(t) == LET names == Tables[t].attributes IN [i \in DOMAIN names |->
            [aggregate |-> "normal", of |-> [table |-> t, attribute |-> names[i]],
             header |-> t \o <<".">> \o names[i]]]
    IN FlattenSeq([i \in DOMAIN tables |-> ofTable(tables[i])])
HeadersOf(targets) == [i \in DOMAIN targets |-> targets[i].header]

\* What the tuples of the join give.
Shown(q, tuples) ==
    Given(Filter(q.where, tuples), LAMBDA kept :
        IF HasFault(kept) THEN {kept}
        ELSE UNION {IF HasFault(d) THEN {d}
                    ELSE IF OrderFails(q) THEN {Ended("error")}
                    ELSE {Rows(Cut(q, s)) : s \in Sorted(q, d.rows)} :
                        d \in {Datas(q.targets, g) : g \in Groupings(q, kept.rows)}})

\* Every result the statement can have.  Targets that name a column make the
\* query aggregated (addTarget), so that it gives one row for all.
SelectResults(query) ==
    LET read == {query.table} \cup
                (IF query.all THEN {query.joins[i].table : i \in DOMAIN query.joins} ELSE {})
        targets == IF query.all THEN AllTargets(query) ELSE query.targets
    IN IF ~(read \subseteq DOMAIN Tables) THEN {Ended("error")}
       ELSE Given([headers |-> HeadersOf(targets), aggregated |-> ~query.all, targets |-> targets]
                    @@ query, LAMBDA q :
                IF ~IsInjective(q.headers) THEN {Ended("error")}
                ELSE Given(Joined(q), LAMBDA j :
                        IF HasFault(j) THEN {j} ELSE Shown(q, j.rows)))
=============================================================================
