----------------------------- MODULE MCRequest -----------------------------
(* What the clients of the run send, and the tables they read. *)
EXTENDS Request

t == <<"t">>   u == <<"u">>   v == <<"v">>   w == <<"w">>   n == <<"n">>   z == <<"z">>
a == <<"a">>   b == <<"b">>   c == <<"c">>   d == <<"d">>   s == <<"s">>

Words3 == UNION {[1..k -> {"a", "b"}] : k \in 0..3} \cup {<<" ", "a">>}
\* A table whose rows have all attributes, each row a sequence of integers.
Full(names, rows) ==
    [attributes |-> names,
     rows |-> [i \in DOMAIN rows |->
        [x \in ToSet(names) |-> IntOf(rows[i][CHOOSE k \in DOMAIN names : names[k] = x])]]]
Strings_(words) ==
    [attributes |-> <<s>>,
     rows |-> FoldSet(LAMBDA str, rows : Append(rows, s :> Varchar(str)), <<>>, words)]
MCTables ==
    (t :> Full(<<a, b>>, <<<<1, 1>>, <<2, 1>>, <<3, 2>>>>))
    @@ (u :> Full(<<b, c>>, <<<<1, 2>>, <<1, 3>>, <<4, 3>>>>))
    @@ (v :> Full(<<c, d>>, <<<<3, 0>>, <<3, 5>>>>))
    @@ (w :> Strings_(Words3))
    @@ (z :> Strings_(Words3 \ {<<>>}))
    \* n: a row that was inserted without its nullable attribute
    @@ (n :> [attributes |-> <<a, b>>,
              rows |-> <<a :> IntOf(1) @@ b :> IntOf(1), a :> IntOf(2)>>])

Attr(table, x) == [table |-> table, attribute |-> x]
Val(x) == [value |-> x]
Op(op, args) == [op |-> op, args |-> args]
Call(f, args) == [function |-> f, args |-> args]
Two(x, op, y) == Op(<<op>>, <<x, y>>)
TRUEValue == Val(Bool(TRUE))

-----------------------------------------------------------------------------
(* Expressions: every operator under every other *)

Set(kind) == [set |-> kind, values |-> <<IntOf(1), IntOf(2)>>]
Flat ==
    {Attr(<<>>, a), Two(Attr(<<>>, a), "+", Val(IntOf(1))), Two(Attr(t, a), "*", Attr(<<>>, b)),
     Op(<<"<", "=">>, <<Attr(<<>>, a), Attr(<<>>, b)>>), Two(Attr(<<>>, a), "and", Attr(t, b)),
     Two(Attr(<<>>, a), "like", Val(Varchar(<<"a", "%">>))), Op(Not, <<Attr(<<>>, a)>>),
     Op(<<"not", "between">>, <<Attr(<<>>, a), Set("range")>>),
     Op(<<"in">>, <<Attr(<<>>, a), Set("list")>>), Two(Attr(<<>>, a), "-", Attr(<<>>, b)),
     Call("concat", <<Attr(<<>>, s), Call("upper", <<Attr(<<>>, s)>>), Val(IntOf(12))>>)}
Nested ==
    {Op(op, <<x, y>>) : op \in {<<"+">>, <<"-">>, <<"*">>, <<"=">>, <<"or">>, <<"not", "like">>},
                        x \in Flat, y \in Flat}
    \cup {Op(Not, <<x>>) : x \in Flat}
    \cup {Op(<<"between">>, <<x, Set("range")>>) : x \in Flat}
    \cup {Two(Two(Attr(<<>>, a), op, x), "<", Attr(<<>>, b)) : op \in {"-", "and"}, x \in Flat}

DeleteWhere(e) == [kind |-> "delete", table |-> t, where |-> e]

-----------------------------------------------------------------------------
(* Selects *)

SelectOf(all, targets, table, joins, where, groups, orders, limit) ==
    [kind |-> "select", all |-> all, targets |-> targets, table |-> table, joins |-> joins,
     where |-> where, groups |-> groups, orders |-> orders, limit |-> limit]
Join_(type, table, on) == [type |-> type, table |-> table, on |-> on]
Equal(x, y) == Two(x, "=", y)

OnU == {Equal(Attr(t, b), Attr(u, b)), Two(Attr(<<>>, a), "<", Attr(<<>>, c)),
        Two(Equal(Attr(t, b), Attr(u, b)), "and", Op(Not, <<Equal(Attr(<<>>, c), Val(IntOf(2)))>>))}
Types == {"inner", "left", "right"}
Joins1 == {<<>>, <<Join_("cross", u, TRUEValue)>>} \cup {<<Join_(ty, u, on)>> : ty \in Types, on \in OnU}
Joins2 == {<<Join_(x, u, Equal(Attr(t, b), Attr(u, b))), Join_(y, v, on)>> :
                x \in Types, y \in Types,
                on \in {Equal(Attr(u, c), Attr(v, c)), Two(Attr(<<>>, a), "<", Attr(<<>>, d))}}
Wheres == {TRUEValue, Op(<<"<", ">">>, <<Attr(<<>>, a), Val(IntOf(2))>>),
           Op(<<">", "=">>, <<Attr(<<>>, a), Val(IntOf(2))>>)}

JoinSelects ==
    {SelectOf(TRUE, <<>>, t, js, e, <<>>, <<>>, NoLimit) : js \in Joins1, e \in Wheres}
    \cup {SelectOf(TRUE, <<>>, t, js, TRUEValue, <<>>, <<>>, NoLimit) : js \in Joins2}
    \cup {SelectOf(TRUE, <<>>, n, <<>>, TRUEValue, <<>>, <<>>, NoLimit),
          SelectOf(TRUE, <<>>, t, <<Join_("full", u, Equal(Attr(t, b), Attr(u, b)))>>, TRUEValue, <<>>, <<>>, NoLimit),
          SelectOf(TRUE, <<>>, s, <<>>, TRUEValue, <<>>, <<>>, NoLimit)}

ShowColumn(table, x) == [aggregate |-> "normal", of |-> Attr(table, x), header |-> table \o <<".">> \o x]
CountAll == [aggregate |-> "count_all", header |-> <<"count", "(", "*", ")">>]
Total(f, e) == [aggregate |-> f, of |-> e, header |-> <<f, "x">>]
Group == [aggregate |-> "group_concat", of |-> Attr(<<>>, a), split |-> <<"|">>, header |-> <<"g">>]
GroupTargets ==
    {<<CountAll>>, <<ShowColumn(t, b), CountAll>>,
     <<ShowColumn(t, b), Total("sum", Attr(<<>>, a)), Total("max", Attr(<<>>, a)), Total("count", Attr(<<>>, a))>>,
     <<Total("avg", Attr(<<>>, a)), Total("min", Attr(<<>>, a))>>, <<Group>>,
     <<Total("sum", Two(Attr(<<>>, a), "+", Val(IntOf(1))))>>}
GroupSelects ==
    {SelectOf(FALSE, ts, t, js, e, gs, <<>>, NoLimit) :
        ts \in GroupTargets, js \in {<<>>, <<Join_("left", u, Equal(Attr(t, b), Attr(u, b)))>>},
        e \in {TRUEValue, Two(Attr(<<>>, a), ">", Val(IntOf(9)))},
        gs \in {<<>>, <<<<t, b>>>>, <<<<t, b>>, <<t, a>>>>}}

Order(table, x, desc) == [table |-> table, attribute |-> x, desc |-> desc]
Orders_ == {<<Order(t, b, FALSE)>>, <<Order(t, b, TRUE), Order(t, a, FALSE)>>,
            <<Order(t, b, FALSE), Order(t, a, TRUE)>>, <<Order(<<>>, a, FALSE)>>}
PageSelects ==
    {SelectOf(TRUE, <<>>, t, js, TRUEValue, <<>>, os, l) :
        js \in {<<>>, <<Join_("left", u, Equal(Attr(t, b), Attr(u, b)))>>}, os \in Orders_,
        l \in {NoLimit, [rows |-> 2, offset |-> 1], [rows |-> 2, offset |-> 4]}}

Strings(m) == UNION {[1..k -> {"a", "b", "%"}] : k \in 1..m}
LikeSelects ==
    {SelectOf(TRUE, <<>>, w, <<>>, Two(Attr(<<>>, s), "like", Val(Varchar(p))), <<>>, <<>>, NoLimit) :
        p \in Strings(3)}
Calls_ ==
    {Call("substring", <<Attr(<<>>, s), Val(IntOf(i)), Val(IntOf(k))>>) : i \in {1, 2}, k \in {1, 2}}
    \cup {Call("replace", <<Attr(<<>>, s), Val(Varchar(<<"a">>)), Val(Varchar(<<"c">>))>>),
          Call("reverse", <<Attr(<<>>, s)>>), Call("trim", <<Attr(<<>>, s)>>),
          Call("concat", <<Attr(<<>>, s), Val(Varchar(<<"b">>))>>)}
CallSelects ==
    {SelectOf(TRUE, <<>>, table, <<>>, Equal(f, Val(Varchar(str))), <<>>, <<>>, NoLimit) :
        f \in Calls_, table \in {w, z},
        str \in {<<"a">>, <<"b">>, <<"a", "b">>, <<"b", "a">>, <<"c", "b">>, <<"b", "a", "b">>}}

-----------------------------------------------------------------------------
(* The other statements *)

ColumnDef(x, type, options) == [name |-> x, type |-> type, options |-> options]
OtherStatements ==
    {[kind |-> "create table", table |-> t,
      attributes |-> <<ColumnDef(a, "int", {"primary", "notnull"}), ColumnDef(b, "varchar", o),
                       ColumnDef(c, "datetime", {})>>,
      references |-> r] :
        o \in {{}, {"unique", "auto_increment"}}, r \in {<<>>, a :> <<u, b>>}}
    \cup {[kind |-> "insert", table |-> t, names |-> ns, values |-> <<<<"1">>, <<"x">>>>] :
            ns \in {<<>>, <<a, b>>}}
    \cup {[kind |-> "update", table |-> t, set |-> st, where |-> e] :
            st \in {<<[attribute |-> a, to |-> Val(IntOf(1))]>>,
                    <<[attribute |-> a, to |-> Two(Attr(<<>>, a), "+", Attr(<<>>, b))],
                      [attribute |-> b, to |-> Val(IntOf(2))]>>}, e \in Wheres}
    \cup {[kind |-> k, names |-> <<t>>] :
            k \in {"describe", "drop table", "use", "create database", "drop database"}}
    \cup {[kind |-> k, names |-> <<>>] : k \in {"show tables", "show databases", "abort", "commit", "begin"}}
    \cup {DeleteWhere(TRUEValue)}

Printed ==
    OtherStatements \cup JoinSelects \cup GroupSelects \cup PageSelects \cup LikeSelects
        \cup CallSelects \cup {DeleteWhere(e) : e \in Nested}

\* Statements with a token left out, and texts written otherwise than StatementText does.
TornStatements ==
    {SelectOf(FALSE, <<ShowColumn(t, b), CountAll, Group>>, t,
              <<Join_("left", u, Equal(Attr(t, b), Attr(u, b)))>>,
              Op(<<"in">>, <<Attr(<<>>, a), Set("list")>>), <<<<t, b>>>>,
              <<Order(t, b, TRUE)>>, [rows |-> 2, offset |-> 1])}
    \cup {x \in OtherStatements : x.kind \in {"create table", "insert", "update"}}
Torn ==
    UNION {LET items == StatementItems(x) \o <<Symbol(";")>>
           IN {Spell(RemoveAt(items, i)) : i \in DOMAIN items} : x \in TornStatements}
Raw ==
    {<<"SELECT", " ", "*", " ", "FROM", " ", "w", ";">>,
     <<"Select", " ", "Count", "(", "*", ")", "FROM", " ", "t", " ", " ", ";", " ">>,
     <<"select", " ", "1", " ", "from", " ", "t", ";">>,
     <<"select", " ", "a", " ", "from", " ", "t", " ", "where", " ", "b", "=", ";">>,
     <<"select", " ", "*", "from", " ", "t", " ", "where", " ", "1", ".", "5", "<", "2", ".", "2", "5", ";">>,
     <<"select", " ", "*", "from", " ", "t", " ", "where", " ", "1", ".", ".", "5", "<", "2", ";">>,
     <<"select", " ", "*", "from", " ", "t", " ", "where", " ", "not", " ", "1", ";">>,
     <<"select", " ", "*", "from", " ", "w", " ", "where", " ", "s", "=", "'", "'", ";">>,
     <<"select", " ", "*", "from", " ", "w", " ", "where", " ", "replace", "(", "s", ",", "'", "'", ",",
       "'", "a", "'", ")", "=", "'", "b", "'", ";">>,
     <<"select", " ", "sum", "(", "s", ")", "from", " ", "w", ";">>,
     <<"select", " ", "min", "(", "a", ")", "from", " ", "t", " ", "where", " ", "a", ">", "7", ";">>,
     <<"select", " ", "*", "from", " ", "t", " ", "where", " ", "a", "%", "2", "=", "1", ";">>,
     <<"drop", " ", "table", " ", "t">>, <<"drop", " ", "table", " ", "'", "t", ";">>,
     <<"drop", " ", "table", " ", "t", ";", ";">>, <<"begin", " ", "#", ";">>, <<>>, <<" ">>,
     <<"use", " ", "t", ">", "<", ";">>, <<"'", "'">>}

\* Any of the texts may come.
Messages ==
    {[text |-> StatementText(x), of |-> x] : x \in Printed}
    \cup {[text |-> x, of |-> NoStatement] : x \in Torn \cup Raw}
Init == \E m \in Messages : Start(m)
Spec == Init /\ [][Next]_vars /\ Fairness
=============================================================================
