------------------------------ MODULE SqlText ------------------------------
(***************************************************************************)
(* The grammar of the statements, as the text a client writes for one:     *)
(* what the parsers are measured against.  Expressions are written with    *)
(* the parentheses their priorities need and no others, and Misread says   *)
(* which of them the parser takes for another expression nevertheless;     *)
(* blanks stand only between two words.                                    *)
(***************************************************************************)
EXTENDS SqlParser

Symbol(a) == <<a>>
Commas(parts) ==
    FoldLeftDomain(LAMBDA s, i : s \o (IF i = 1 THEN <<>> ELSE <<Symbol(",")>>) \o parts[i],
                   <<>>, parts)
Bracketed(open, items, close) == <<Symbol(open)>> \o items \o <<Symbol(close)>>
Words(ws) == [i \in DOMAIN ws |-> <<ws[i]>>]

LiteralText(v) ==
    CASE TypeOf(v) = "int" -> DecimalDigits[v[2]]
      [] TypeOf(v) = "varchar" -> <<"'">> \o v[2] \o <<"'">>
      [] TypeOf(v) = "bool" -> IF v[2] THEN <<"true">> ELSE <<"false">>
NameItems(table, attribute) ==
    IF table = <<>> THEN <<attribute>> ELSE <<table, Symbol("."), attribute>>

\* An operand written alone: it needs no parentheses anywhere.
Atomic(e) == "op" \notin DOMAIN e
OpItems(op) == IF Head(op) = "not" THEN Words(op) ELSE <<op>>

\* Operators of one priority are read from the left; not, which stands before
\* its operand, takes all that binds as close as it does.
BareLeft(op, left) ==
    \/ Atomic(left)
    \/ left.op = Not /\ Priority(op) < Priority(Not)
    \/ left.op # Not /\ Priority(left.op) >= Priority(op)

RECURSIVE Items(_)
Operand(e, bare) == IF bare THEN Items(e) ELSE Bracketed("(", Items(e), ")")
Items(e) ==
    CASE "value" \in DOMAIN e -> <<LiteralText(e.value)>>
      [] "attribute" \in DOMAIN e -> NameItems(e.table, e.attribute)
      [] "function" \in DOMAIN e ->
            <<<<e.function>>>>
            \o Bracketed("(", Commas([i \in DOMAIN e.args |-> Items(e.args[i])]), ")")
      [] "set" \in DOMAIN e ->
            IF e.set = "range"
            THEN <<LiteralText(e.values[1]), Symbol("+"), LiteralText(e.values[2])>>
            ELSE Bracketed("[", Commas([i \in DOMAIN e.values |-> <<LiteralText(e.values[i])>>]), "]")
      [] OTHER ->
            LET op == e.op
                right == Last(e.args)
                rightBare == Atomic(right) \/ Priority(right.op) > Priority(op)
                left == e.args[1]
                leftBare == BareLeft(op, left)
            IN IF op = Not THEN OpItems(op) \o Operand(right, rightBare \/ Priority(right.op) = 2)
               ELSE Operand(left, leftBare) \o OpItems(op) \o Operand(right, rightBare)

\* The expressions in e.
RECURSIVE Parts(_)
Parts(e) ==
    {e} \cup (IF "args" \in DOMAIN e THEN UNION {Parts(e.args[i]) : i \in DOMAIN e.args} ELSE {})

\* What priorities and parentheses do not say: like, in and between, which are
\* pushed without executing an operator that binds as close, take the last
\* operand of an expression on their left that stands without parentheses.
Misread(e) ==
    \E x \in Parts(e) :
        /\ ~Atomic(x) /\ x.op # Not /\ Priority(x.op) = Priority(Not)
        /\ ~Atomic(x.args[1]) /\ BareLeft(x.op, x.args[1])

ExpressionsOf(s) ==
    (IF "where" \in DOMAIN s THEN {s.where} ELSE {})
    \cup (IF s.kind = "update" THEN {s.set[i].to : i \in DOMAIN s.set} ELSE {})
    \cup (IF s.kind = "select"
          THEN {s.joins[i].on : i \in DOMAIN s.joins}
               \cup {x.of : x \in {y \in ToSet(s.targets) : y.aggregate # "count_all"}}
          ELSE {})

-----------------------------------------------------------------------------
(* Statements *)

WhereItems(e) == IF e = [value |-> Bool(TRUE)] THEN <<>> ELSE Words(<<"where">>) \o Items(e)

OptionItems(options) ==
    FlattenSeq([i \in 1..4 |->
        LET o == <<"notnull", "primary", "auto_increment", "unique">>[i] IN
        IF o \notin options THEN <<>>
        ELSE Words(CASE o = "notnull" -> <<"not", "null">>
                     [] o = "primary" -> <<"primary", "key">> [] OTHER -> <<o>>)])
TypeItems(type) ==
    CASE type = "varchar" -> Words(<<"varchar">>) \o Bracketed("(", <<<<"9">>>>, ")")
      [] type = "datetime" -> Words(<<"date">>)
      [] OTHER -> Words(<<type>>)
ReferenceItems(column, r) ==
    Words(<<"foreign", "key">>) \o Bracketed("(", <<column>>, ")")
    \o Words(<<"references">>) \o <<r[1]>> \o Bracketed("(", <<r[2]>>, ")")

TargetItems(t) ==
    CASE t.aggregate = "normal" -> Items(t.of)
      [] t.aggregate = "count_all" -> Words(<<"count">>) \o Bracketed("(", <<Symbol("*")>>, ")")
      [] t.aggregate = "group_concat" ->
            Words(<<t.aggregate>>)
            \o Bracketed("(", Items(t.of) \o <<Symbol(","), <<"'">> \o t.split \o <<"'">>>>, ")")
            \o <<<<"as">>, t.header>>
      [] OTHER -> Words(<<t.aggregate>>) \o Bracketed("(", Items(t.of), ")")
                  \o <<<<"as">>, t.header>>
JoinItems(j) ==
    <<<<j.type>>, <<"join">>, j.table>>
    \o (IF j.type = "cross" THEN <<>> ELSE Words(<<"on">>) \o Items(j.on))
OrderItems(o) == NameItems(o.table, o.attribute) \o (IF o.desc THEN Words(<<"desc">>) ELSE <<>>)
ListItemsOf(seq, ItemsOf(_)) == [i \in DOMAIN seq |-> ItemsOf(seq[i])]

SelectItems(s) ==
    Words(<<"select">>)
    \o (IF s.all THEN <<Symbol("*")>> ELSE Commas(ListItemsOf(s.targets, TargetItems)))
    \o <<<<"from">>, s.table>>
    \o FlattenSeq(ListItemsOf(s.joins, JoinItems))
    \o WhereItems(s.where)
    \o (IF s.groups = <<>> THEN <<>>
        ELSE Words(<<"group", "by">>)
             \o Commas(ListItemsOf(s.groups, LAMBDA g : NameItems(g[1], g[2]))))
    \o (IF s.orders = <<>> THEN <<>>
        ELSE Words(<<"order", "by">>) \o Commas(ListItemsOf(s.orders, OrderItems)))
    \o (IF s.limit.rows = 1000000000 THEN <<>>
        ELSE <<<<"limit">>, DecimalDigits[s.limit.rows], <<"offset">>,
               DecimalDigits[s.limit.offset]>>)

\* The items of a statement without the semicolon.
StatementItems(s) ==
    CASE s.kind = "create table" ->
            <<<<"create">>, <<"table">>, s.table>>
            \o Bracketed("(",
                 Commas([i \in DOMAIN s.attributes |->
                            <<s.attributes[i].name>> \o TypeItems(s.attributes[i].type)
                            \o OptionItems(s.attributes[i].options)]
                        \o SetToSeq({ReferenceItems(c, s.references[c]) : c \in DOMAIN s.references})),
                 ")")
      [] s.kind = "insert" ->
            <<<<"insert">>, <<"into">>, s.table>>
            \o (IF s.names = <<>> THEN <<>>
                ELSE Bracketed("(", Commas(ListItemsOf(s.names, LAMBDA n : <<n>>)), ")"))
            \o Words(<<"values">>)
            \o Bracketed("(", Commas(ListItemsOf(s.values, LAMBDA v : <<v>>)), ")")
      [] s.kind = "delete" -> <<<<"delete">>, <<"from">>, s.table>> \o WhereItems(s.where)
      [] s.kind = "update" ->
            <<<<"update">>, s.table, <<"set">>>>
            \o Commas(ListItemsOf(s.set, LAMBDA a : <<a.attribute, Symbol("=")>> \o Items(a.to)))
            \o WhereItems(s.where)
      [] s.kind = "select" -> SelectItems(s)
      [] s.kind \in {"describe"} -> Words(<<"describe", "table">>) \o s.names
      [] s.kind = "begin" -> Words(<<"begin", "transaction">>)
      [] s.kind \in {"abort", "commit", "use"} -> Words(<<s.kind>>) \o s.names
      [] s.kind = "drop table" -> Words(<<"drop", "table">>) \o s.names
      [] s.kind = "create database" -> Words(<<"create", "database">>) \o s.names
      [] s.kind = "drop database" -> Words(<<"drop", "database">>) \o s.names
      [] s.kind = "show tables" -> Words(<<"show", "tables">>)
      [] s.kind = "show databases" -> Words(<<"show", "databases">>)

Wordy(item) == Head(item) \notin Quote \cup Punctuation \cup OperatorChar
Spell(items) ==
    FoldLeftDomain(LAMBDA s, i :
        s \o (IF i > 1 /\ Wordy(items[i - 1]) /\ Wordy(items[i]) THEN <<" ">> ELSE <<>>)
          \o items[i], <<>>, items)
StatementText(s) == Spell(StatementItems(s) \o <<Symbol(";")>>)
=============================================================================
