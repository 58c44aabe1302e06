----------------------------- MODULE SqlParser -----------------------------
(***************************************************************************)
(* The statement factories (sql_parser.cpp, database_parser.cpp,           *)
(* txn_parser.cpp) in the order main_controller.cpp tries them.  A factory *)
(* is a pattern: a sequence of items, each of which reads tokens, builds a *)
(* value from those got before, or branches on the next token.             *)
(***************************************************************************)
EXTENDS ExpressionParser

\* What a branch can ask of a token.
Facts(t) ==
    {<<"type", t.type>>, <<"data", t.data>>}
    \cup (IF t.type = "punctuation" THEN {<<"char", t.data[1]>>} ELSE {})
    \cup (IF t.type = "keyword" THEN {<<"keyword", t.word[1]>>} ELSE {})
    \cup (IF t.type = "operator" THEN {<<"operator", t.word>>} ELSE {})
Char(a) == <<"char", a>>
Word(w) == <<"keyword", w>>
Name == <<"type", "identifier">>

Read(kind) == <<<<kind>>>>
Keywords(ws) == [i \in DOMAIN ws |-> <<"keyword", ws[i]>>]
Data(a) == <<<<"data", a>>>>
Expression_(end) == <<<<"expression", end>>>>
Put(value) == <<<<"put", value>>>>
Make(n, kind) == <<<<"make", n, kind>>>>
Collected(pattern) == <<<<"collect", pattern>>>>
\* Branches on a set of facts, one of which is true of the next token or none is.
If(facts, then, else) == <<<<"if", facts, then, else>>>>
While(facts, body) == <<<<"while", facts, body>>>>
Until(facts, body) == <<<<"until", facts, body>>>>
\* Bodies with a comma after each, which a last one may do without.
List(stop, body) == Until(stop, body \o If(stop, <<>>, Data(",")))

-----------------------------------------------------------------------------
(* The patterns *)

DataType(word) ==
    CASE word = <<"bool">> -> "bool" [] word = <<"date">> -> "datetime"
      [] word \in {<<"int">>, <<"integer">>} -> "int" [] word = <<"float">> -> "float"
      [] word = <<"varchar">> -> "varchar" [] OTHER -> "null"

ForeignKey ==
    Keywords(<<"foreign", "key">>) \o Data("(") \o Read("take") \o Data(")")
    \o Keywords(<<"references">>) \o Read("take") \o Data("(") \o Read("take") \o Data(")")
    \o Make(3, "foreign key")
ColumnOption ==
    If({<<"operator", Not>>}, Read("skip") \o Keywords(<<"null">>) \o Put("notnull"),
    If({Word("primary")}, Keywords(<<"primary", "key">>) \o Put("primary"),
    If({Word("auto_increment")}, Read("skip") \o Put("auto_increment"),
    If({Word("unique")}, Read("skip") \o Put("unique"), Read("fail")))))
Column ==
    Read("take") \o Read("take") \o Make(1, "type") \o Read("size")
    \o Collected(Until({Char(","), Char(")")}, ColumnOption)) \o Make(3, "column")
CreateTable ==
    Keywords(<<"create", "table">>) \o Read("take") \o Data("(")
    \o Collected(List({Char(")")}, If({Word("foreign")}, ForeignKey, Column)))
    \o Data(")") \o Read("end") \o Read("references") \o Make(2, "create table")

\* getListString
ListString == Data("(") \o Collected(List({Char(")")}, Read("take"))) \o Data(")")
Insert ==
    Keywords(<<"insert", "into">>) \o Read("take") \o If({Char("(")}, ListString, Put(<<>>))
    \o Keywords(<<"values">>) \o ListString \o Read("end") \o Make(3, "insert")

\* makeWhereExpression: without where, the value true.
TrueValue == [value |-> Bool(TRUE)]
Where == If({Word("where")}, Read("skip") \o Expression_(<<>>), Put(TrueValue))
Delete ==
    Keywords(<<"delete", "from">>) \o Read("take") \o Where \o Read("end") \o Make(2, "delete")

Assignment == Read("take") \o Data("=") \o Expression_(<<>>) \o Make(2, "assignment")
Update ==
    Keywords(<<"update">>) \o Read("take") \o Keywords(<<"set">>)
    \o Collected(Assignment \o Until({Char(";"), Word("where")}, Data(",") \o Assignment))
    \o Where \o Read("end") \o Make(3, "update")

Terminating == {<<"type", "keyword">>, Char(";")}
Target ==
    If({Name}, Read("attribute") \o Make(1, "named"),
       Read("header") \o Read("function") \o Data("(")
       \o If({<<"data", <<"*">>>>}, Read("star"), Expression_(<<")">>) \o Read("aggregate"))
       \o Data(")"))
    \o If({Word("as")}, Read("skip") \o Read("take") \o Make(2, "alias"), <<>>)
    \o Read("distinct")
JoinClause ==
    Read("word") \o Keywords(<<"join">>) \o Read("take") \o Read("on") \o Make(3, "join")
\* A token that is no name gives a condition without one and is not consumed.
GroupCondition == If({Name}, Read("attribute"), Put([table |-> <<>>, attribute |-> <<>>]))
OrderCondition ==
    Read("attribute")
    \o If({Word("desc")}, Read("skip") \o Put(TRUE),
          If({Word("asc")}, Read("skip"), <<>>) \o Put(FALSE))
    \o Make(2, "order") \o If({Char(",")}, Read("skip"), <<>>)
Limit ==
    Keywords(<<"limit">>) \o Read("int")
    \o If({Word("offset")}, Read("skip") \o Read("int"), Put(0)) \o Make(2, "limit")
Selection ==
    Keywords(<<"select">>)
    \o Collected(If({<<"data", <<"*">>>>}, Read("skip"), List(Terminating, Target)))
    \o Keywords(<<"from">>) \o Read("take")
    \o Collected(While({Word(w) : w \in {"inner", "left", "right", "full", "cross"}}, JoinClause))
    \o Where
    \o Collected(If({Word("group")},
                    Keywords(<<"group", "by">>) \o List(Terminating, GroupCondition), <<>>))
    \o Collected(If({Word("order")},
                    Keywords(<<"order", "by">>) \o While({Name}, OrderCondition), <<>>))
    \o If({Word("limit")}, Limit, Put([rows |-> 1000000000, offset |-> 0]))
    \o Read("end") \o Make(7, "select")

Named(ws) == Collected(Keywords(ws) \o Read("take")) \o Read("end")
Alone(ws) == Collected(Keywords(ws)) \o Read("end")
SqlFactories ==
    <<CreateTable, Named(<<"describe", "table">>) \o Make(1, "describe"),
      Named(<<"drop", "table">>) \o Make(1, "drop table"), Insert, Selection, Delete, Update>>
DatabaseFactories ==
    <<Named(<<"use">>) \o Make(1, "use"),
      Named(<<"create", "database">>) \o Make(1, "create database"),
      Alone(<<"show", "tables">>) \o Make(1, "show tables"),
      Alone(<<"show", "databases">>) \o Make(1, "show databases"),
      Named(<<"drop", "database">>) \o Make(1, "drop database")>>
TxnFactories ==
    <<Alone(<<"abort">>) \o Make(1, "abort"), Alone(<<"commit">>) \o Make(1, "commit"),
      Alone(<<"begin", "transaction">>) \o Make(1, "begin")>>
Factories == SqlFactories \o DatabaseFactories \o TxnFactories

-----------------------------------------------------------------------------
(* What the items build *)

\* addAttribute keeps the first of two columns of one name.
Attributes(items) ==
    LET columns == SelectSeq(items, LAMBDA item : "name" \in DOMAIN item) IN
    SelectSeq(columns, LAMBDA item :
        LET i == SelectInSeq(columns, LAMBDA other : other.name = item.name) IN columns[i] = item)
\* setReference: the last foreign key of a column counts.
References(items) ==
    [x \in {items[i].column : i \in {j \in DOMAIN items : "column" \in DOMAIN items[j]}} |->
        LET f == SelectLastInSeq(items, LAMBDA item : "column" \in DOMAIN item /\ item.column = x)
        IN <<items[f].table, items[f].attribute>>]
ReferencesExist(items) ==
    DOMAIN References(items) \subseteq {Attributes(items)[i].name : i \in DOMAIN Attributes(items)}

\* A group condition without a table is one on the main table.
QueryOf(v) ==
    LET pair(a) == <<IF a.table = <<>> THEN v[2] ELSE a.table, a.attribute>> IN
    [kind |-> "select", all |-> v[1] = <<>>, targets |-> v[1], table |-> v[2], joins |-> v[3],
     where |-> v[4], groups |-> [i \in DOMAIN v[5] |-> pair(v[5][i])], orders |-> v[6],
     limit |-> v[7]]

\* The value of a kind made of the values v.
Node(kind, v) ==
    CASE kind = "type" -> DataType(LowerAll(v[1]))
      [] kind = "column" -> [name |-> v[1], type |-> v[2], options |-> ToSet(v[3])]
      [] kind = "foreign key" -> [column |-> v[1], table |-> v[2], attribute |-> v[3]]
      [] kind = "create table" -> [kind |-> kind, table |-> v[1], attributes |-> Attributes(v[2]),
                                   references |-> References(v[2])]
      [] kind = "insert" -> [kind |-> kind, table |-> v[1], names |-> v[2], values |-> v[3]]
      [] kind = "delete" -> [kind |-> kind, table |-> v[1], where |-> v[2]]
      [] kind = "assignment" -> [attribute |-> v[1], to |-> v[2]]
      [] kind = "update" -> [kind |-> kind, table |-> v[1], set |-> v[2], where |-> v[3]]
      [] kind = "named" -> [aggregate |-> "normal", of |-> v[1],
                            header |-> IF v[1].table = <<>> THEN v[1].attribute
                                       ELSE v[1].table \o <<".">> \o v[1].attribute]
      [] kind = "count_all" -> [aggregate |-> kind, header |-> v[1]]
      [] kind = "group_concat" -> [aggregate |-> kind, of |-> v[3], split |-> v[4], header |-> v[1]]
      [] kind = "aggregate" -> [aggregate |-> v[2], of |-> v[3], header |-> v[1]]
      [] kind = "alias" -> [v[1] EXCEPT !.header = v[2]]
      [] kind = "join" -> [type |-> v[1], table |-> v[2], on |-> v[3]]
      [] kind = "order" -> [table |-> v[1].table, attribute |-> v[1].attribute, desc |-> v[2]]
      [] kind = "limit" -> [rows |-> v[1], offset |-> v[2]]
      [] kind = "select" -> QueryOf(v)
      [] OTHER -> [kind |-> kind, names |-> v[1]]

-----------------------------------------------------------------------------
(* Reading a pattern *)

\* consumeType of an int: std::stoi, which reads up to a point.
TakeInt(d, t) ==
    LET whole == Accepted(t.data, ToSet(t.data) \ {"."}) IN
    IF t.type # "number" \/ Len(whole) > IntDigits THEN Fail(d)
    ELSE Got(Advance(d), Decimal(whole))

\* getStringUntil: the name of a column, up to the token ")".  Without one it
\* reads past the last token before it looks at the size.
HeaderAt(d) ==
    LET closing == {i \in d.at..Len(d.ts) : d.ts[i].data = <<")">>} IN
    IF closing = {} THEN Undefined(d)
    ELSE Got(d, FlattenSeq([i \in 1..Min(closing) - d.at + 1 |-> d.ts[d.at + i - 1].data]))

\* The items that branch on what was got before.
Decided(d, kind) ==
    CASE kind = "size" ->
            IF Last(d.got) = "varchar" THEN Data("(") \o Read("int") \o Read("drop") \o Data(")")
            ELSE IF Last(d.got) = "null" THEN Read("fail") ELSE <<>>
      [] kind = "star" ->
            IF Last(d.got) = "count" THEN Read("skip") \o Make(2, "count_all")
            ELSE Expression_(<<")">>) \o Read("aggregate")
      [] kind = "aggregate" ->
            LET f == Nth(d, 1) IN
            IF f = "group_concat"
            THEN If({Char(",")}, Read("skip") \o Read("take"), Put(<<",">>)) \o Make(4, f)
            ELSE IF f \in AggregateFunction THEN Make(3, kind) ELSE Read("fail")
      [] kind = "on" ->
            IF Nth(d, 1) = "cross" THEN Put(TrueValue)
            ELSE Keywords(<<"on">>) \o Expression_(<<>>)

\* The pattern that follows when its first item is a branch.
Branch(d, t, pattern) ==
    LET item == Head(pattern)
        holds == Facts(t) \cap item[2] # {}
    IN CASE item[1] = "if" -> (IF holds THEN item[3] ELSE item[4]) \o Tail(pattern)
         [] item[1] = "while" -> IF holds THEN item[3] \o pattern ELSE Tail(pattern)
         [] item[1] = "until" -> IF holds THEN Tail(pattern) ELSE item[3] \o pattern

RECURSIVE Match(_, _)
Consume(d, item) ==
    LET kind == item[1] IN
    CASE kind = "keyword" -> CheckKeyword(d, item[2])
      [] kind = "data" -> CheckData(d, item[2])
      [] kind = "take" -> Take(d)
      [] kind = "word" -> OnToken(d, LAMBDA e, t : Got(Advance(e), t.word[1]))
      [] kind = "function" ->
            OnToken(d, LAMBDA e, t : IF t.type = "function" THEN Got(Advance(e), t.word[1]) ELSE Fail(e))
      [] kind = "int" -> OnToken(d, TakeInt)
      [] kind = "drop" -> [d EXCEPT !.got = Front(@)]
      [] kind = "skip" -> Advance(d)
      [] kind = "fail" -> Fail(d)
      [] kind = "end" -> EndBy(d, ";")
      [] kind = "attribute" -> ConsumeAttribute(d)
      [] kind = "expression" -> ParseExpression(d, item[2])
      [] kind = "header" -> HeaderAt(d)
      [] kind = "references" -> IF ReferencesExist(Last(d.got)) THEN d ELSE Fail(d)
      [] kind = "distinct" -> IF \E i \in 1..Len(d.got) - 1 : d.got[i].header = Last(d.got).header
                              THEN Fail(d) ELSE d
      [] kind = "put" -> Got(d, item[2])
      [] kind = "make" -> Reduce(d, item[2], LAMBDA v : Node(item[3], v))
      [] kind = "collect" -> Collect(d, LAMBDA e : Match(e, item[2]))

Match(c, pattern) ==
    Given(pattern, LAMBDA p : On(c, LAMBDA d :
        IF p = <<>> THEN d
        ELSE IF p[1][1] \in {"if", "while", "until"}
        THEN OnToken(d, LAMBDA e, t : Match(e, Branch(e, t, p)))
        ELSE IF p[1][1] \in {"size", "star", "aggregate", "on"}
        THEN Match(d, Decided(d, p[1][1]) \o Tail(p))
        ELSE Match(Consume(d, p[1]), Tail(p))))

\* What the k-th factory makes of the tokens.
Attempt(k, ts) ==
    Given(Match(Cursor(ts), Factories[k]), LAMBDA d :
        IF d.verdict = "ok" THEN [verdict |-> "ok", statement |-> d.got[1]]
        ELSE [verdict |-> d.verdict])
=============================================================================
