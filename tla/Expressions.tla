---------------------------- MODULE Expressions ----------------------------
(***************************************************************************)
(* What an expression gives for a joined tuple (the apply functions under  *)
(* storage/expression) and what the targets of a select give for a group.  *)
(*                                                                         *)
(* A joined tuple is a function from pairs of table and attribute to       *)
(* values.                                                                 *)
(***************************************************************************)
EXTENDS ExpressionParser

\* The operands of an operator are evaluated from left to right: the first
\* fault ends the evaluation.
FirstFault(values) ==
    LET faults == {i \in DOMAIN values : IsFault(values[i])} IN
    IF faults = {} THEN NoValue ELSE values[Min(faults)]

AttributeOf(e, tuple) ==
    IF e.table # <<>>
    THEN IF <<e.table, e.attribute>> \in DOMAIN tuple
         THEN tuple[<<e.table, e.attribute>>] ELSE Fault("error")
    ELSE LET found == {k \in DOMAIN tuple : k[2] = e.attribute} IN
         IF Cardinality(found) # 1 THEN Fault("error")
         ELSE tuple[CHOOSE k \in found : TRUE]

Arithmetic(op, v, w) ==
    LET num(x) == IF TypeOf(x) = "int" THEN <<x[2], 1>> ELSE x[2]
        a == num(v)  b == num(w)
    IN IF ~({TypeOf(v), TypeOf(w)} \subseteq {"int", "float"}) THEN Fault("error")
       ELSE IF b[1] = 0 THEN Fault("error")      \* whatever the operator is
       ELSE IF TypeOf(v) = "int" /\ TypeOf(w) = "int"
       THEN IntOf(CASE op = <<"+">> -> a[1] + b[1]
                    [] op = <<"-">> -> a[1] - b[1]
                    [] op = <<"*">> -> a[1] * b[1]
                    [] op = <<"/">> -> Quotient(a[1], b[1])
                    [] op = <<"%">> -> Remainder(a[1], b[1]))
       ELSE CASE op = <<"+">> -> Float(a[1] * b[2] + b[1] * a[2], a[2] * b[2])
              [] op = <<"-">> -> Float(a[1] * b[2] - b[1] * a[2], a[2] * b[2])
              [] op = <<"*">> -> Float(a[1] * b[1], a[2] * b[2])
              [] op = <<"/">> -> Float(a[1] * b[2], a[2] * b[1])
              [] op = <<"%">> -> Fault("error")

Comparison(op, v, w) ==
    LET result == Compare(v, w) IN
    IF result = "cant_compare" THEN Fault("error")
    ELSE Bool(CASE op = <<"=">> -> result = "equal"
                [] op = <<"<", ">">> -> result # "equal"
                [] op = <<">">> -> result = "greater"
                [] op = <<">", "=">> -> result # "less_than"
                [] op = <<"<">> -> result = "less_than"
                [] op = <<"<", "=">> -> result # "greater")

Binary(op, v, w) ==
    LET both(type) == TypeOf(v) = type /\ TypeOf(w) = type IN
    CASE op = <<"and">> -> IF both("bool") THEN Bool(v[2] /\ w[2]) ELSE Fault("error")
      [] op = <<"or">> -> IF both("bool") THEN Bool(v[2] \/ w[2]) ELSE Fault("error")
      [] op = <<"like">> -> IF both("varchar") THEN Bool(LikeMatch(v[2], w[2]))
                            ELSE Fault("error")
      [] op = Not \o <<"like">> -> IF both("varchar") THEN Bool(~LikeMatch(v[2], w[2]))
                                   ELSE Fault("error")
      [] op \in {<<"+">>, <<"-">>, <<"*">>, <<"/">>, <<"%">>} -> Arithmetic(op, v, w)
      [] OTHER -> Comparison(op, v, w)

\* SetExpression::apply to the one value of a tuple.
Member(e, v) ==
    LET s == e.values IN
    IF s # <<>> /\ TypeOf(v) # TypeOf(s[1]) THEN Fault("error")
    ELSE Bool(IF e.set = "range"
              THEN Compare(s[1], v) # "greater" /\ Compare(v, s[2]) # "greater"
              ELSE \E i \in DOMAIN s : Compare(v, s[i]) = "equal")

\* std::get of a bool from another type throws what no one catches.
Negated(v) == IF TypeOf(v) = "bool" THEN Bool(~v[2]) ELSE Fault("crash")

RECURSIVE Eval(_, _)
\* OtherExpression: in and not in give what the set says, between and not
\* between the opposite.
Other(op, v, set) ==
    Given(Eval(set, [k \in {<<<<>>, <<>>>>} |-> v]), LAMBDA found :
        IF IsFault(found) \/ Last(op) = "in" THEN found ELSE Negated(found))

Operator(op, args, tuple) ==
    Given(Eval(args[1], tuple), LAMBDA v :
        IF IsFault(v) THEN v
        ELSE IF op = Not THEN Negated(v)
        ELSE IF Last(op) \in {"in", "between"} THEN Other(op, v, args[2])
        ELSE Given(Eval(args[2], tuple), LAMBDA w : IF IsFault(w) THEN w ELSE Binary(op, v, w)))

Eval(e, tuple) ==
    CASE "value" \in DOMAIN e -> e.value
      [] "attribute" \in DOMAIN e -> AttributeOf(e, tuple)
      [] "set" \in DOMAIN e -> Member(e, tuple[CHOOSE k \in DOMAIN tuple : TRUE])
      [] "function" \in DOMAIN e ->
            Given([i \in DOMAIN e.args |-> Eval(e.args[i], tuple)], LAMBDA args :
                IF FirstFault(args) # NoValue THEN FirstFault(args) ELSE Apply(e.function, args))
      [] OTHER -> Operator(e.op, e.args, tuple)

\* WhereExpression::apply and JoinExpression::apply.
Holds(e, tuple) ==
    Given(Eval(e, tuple), LAMBDA v :
        IF IsFault(v) \/ TypeOf(v) = "bool" THEN v ELSE Fault("error"))

-----------------------------------------------------------------------------
(* Targets, applied to the rows of a group *)

\* The first of the rows that nothing exceeds, or that exceeds nothing.
Greatest(values) ==
    values[Min({i \in DOMAIN values : \A j \in DOMAIN values : ~Less(values[i], values[j])})]
Least(values) ==
    values[Min({i \in DOMAIN values : \A j \in DOMAIN values : ~Less(values[j], values[i])})]

Average(values) ==
    LET add(x, v) == CASE TypeOf(v) = "int" -> Float(x[2][1] + v[2] * x[2][2], x[2][2])
                       [] TypeOf(v) = "float" ->
                            Float(x[2][1] * v[2][2] + v[2][1] * x[2][2], x[2][2] * v[2][2])
                       [] OTHER -> x
    IN Given(FoldLeft(LAMBDA total, v : Given(total, LAMBDA x : add(x, v)), Float(0, 1), values),
             LAMBDA x : Float(x[2][1], x[2][2] * Len(values)))

\* A target that counts or adds up, given the values of the rows.
Aggregate(t, values) ==
    LET bad == {i \in DOMAIN values : TypeOf(values[i]) # "int"} IN
    IF t.aggregate = "sum"
    THEN IF bad = {} THEN IntOf(FoldLeft(LAMBDA m, v : m + v[2], 0, values))
         ELSE IF IsFault(values[Min(bad)]) THEN values[Min(bad)] ELSE Fault("crash")
    ELSE IF FirstFault(values) # NoValue THEN FirstFault(values)
    ELSE
    CASE t.aggregate = "count" -> IntOf(Len(SelectSeq(values, LAMBDA v : TypeOf(v) # "null")))
      [] t.aggregate = "avg" -> Average(values)
      [] t.aggregate = "max" -> Greatest(values)
      [] t.aggregate = "min" -> Least(values)
      [] t.aggregate = "group_concat" -> Varchar(Join(values, t.split))
\* A named column, the greatest and the least read rows[0], there or not.
TargetOf(t, rows) ==
    IF t.aggregate = "count_all" THEN Datetime(Len(rows))
    ELSE IF t.aggregate \in {"normal", "min", "max"} /\ rows = <<>> THEN Fault("undefined")
    ELSE IF t.aggregate = "normal" THEN Eval(t.of, rows[1])
    ELSE Given([i \in DOMAIN rows |-> Eval(t.of, rows[i])], LAMBDA values : Aggregate(t, values))
=============================================================================
