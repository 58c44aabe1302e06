-------------------------- MODULE ExpressionParser --------------------------
(***************************************************************************)
(* ExpressionParser::parse: a stack of operands, kept in the values got by *)
(* the cursor, and a stack of operators.                                   *)
(*                                                                         *)
(* An expression is an attribute [table, attribute], a value [value], a    *)
(* function [function, args], a set [set, values] or an operator           *)
(* [op, args], where op is the sequence of atoms it is written with.       *)
(***************************************************************************)
EXTENDS Tokenizer, Values

Open == <<"(">>     \* SqlOperators::open_parenthesis
Not == <<"not">>
Negatable == {<<"between">>, <<"in">>, <<"like">>}
\* The operators of binaryMapping, arithmeticMapping and otherMapping.
TwoOperands ==
    (SymbolOperator \ {<<".">>}) \cup {<<"and">>, <<"or">>} \cup Negatable
        \cup {Not \o op : op \in Negatable}

Priority(op) ==
    CASE op \in {<<"*">>, <<"/">>, <<"%">>} -> 5
      [] op \in {<<"+">>, <<"-">>} -> 4
      [] op \in {<<"=">>, <<"<", ">">>, <<">">>, <<">", "=">>, <<"<">>, <<"<", "=">>} -> 3
      [] op = Not \/ op \in Negatable \/ op \in {Not \o o : o \in Negatable} -> 2
      [] op \in {<<"and">>, <<"or">>} -> 1
      [] OTHER -> 0

-----------------------------------------------------------------------------
(* A parse e: the cursor c, the operators ops, and how many values the      *)
(* cursor had got when the parse began.                                     *)

Operands(e) == Len(e.c.got) - e.base
At(e, c) == [e EXCEPT !.c = c]
PushOperator(e, c, op) == [e EXCEPT !.c = c, !.ops = Append(@, op)]

\* exeOp and the pop after it.  An operator without an expression of its own
\* (a parenthesis left open, nor, the dot) takes two operands and leaves none.
ExeOp(e) ==
    LET op == Last(e.ops)
        n == IF op = Not THEN 1 ELSE 2
        rest == SubSeq(e.c.got, 1, Len(e.c.got) - n)
        args == SubSeq(e.c.got, Len(e.c.got) - n + 1, Len(e.c.got))
    IN IF Operands(e) < n THEN At(e, Undefined(e.c))
       ELSE [e EXCEPT
               !.ops = Front(@),
               !.c.got = IF op = Not \/ op \in TwoOperands
                         THEN Append(rest, [op |-> op, args |-> args]) ELSE rest]

\* Execute operators from the top of the stack as long as they are in S.
AnyOperator == TwoOperands \cup {Not, Open, <<".">>, <<"nor">>}
RECURSIVE ExecuteWhile(_, _)
ExecuteWhile(parse, S) ==
    Given(parse, LAMBDA e :
        IF e.c.verdict # "ok" \/ e.ops = <<>> \/ Last(e.ops) \notin S THEN e
        ELSE ExecuteWhile(ExeOp(e), S))

\* covertTokenToSqlType, or NoValue where it throws.
Literal(t) ==
    CASE t.type = "number" -> Number(t.data)
      [] t.type = "string" -> Varchar(t.data)
      [] t.type = "keyword" /\ t.word \in {<<"true">>, <<"false">>} -> Bool(t.word = <<"true">>)
      [] OTHER -> NoValue
TakeLiteral(c) ==
    OnToken(c, LAMBDA d, t :
        IF Literal(t) = NoValue THEN Fail(d) ELSE Got(Advance(d), Literal(t)))

\* SetExpression: values of one type.
MakeSet(c, kind) ==
    On(c, LAMBDA d :
        LET values == Last(d.got) IN
        IF \E i, j \in DOMAIN values : TypeOf(values[i]) # TypeOf(values[j]) THEN Fail(d)
        ELSE Reduce(d, 1, LAMBDA v : [set |-> kind, values |-> v[1]]))

RangeOf(c) ==
    LET plus(d) ==
          OnToken(d, LAMBDA e, t : IF IsOperator(t, <<"+">>) THEN Advance(e) ELSE Fail(e))
    IN MakeSet(Collect(c, LAMBDA d : TakeLiteral(plus(TakeLiteral(d)))), "range")

\* From the token after an element or the opening bracket.
SkipComma(c) == OnToken(c, LAMBDA d, t : IF IsChar(t, ",") THEN Advance(d) ELSE d)
RECURSIVE Elements(_)
Elements(c) ==
    OnToken(c, LAMBDA d, t :
        IF IsChar(t, "]") THEN Advance(d) ELSE Elements(SkipComma(TakeLiteral(d))))
ListOf(c) == MakeSet(Collect(CheckData(c, "["), Elements), "list")

\* not, between, in and like, and their negations, are pushed without
\* executing an operator that binds closer.
NegatableTurn(e, t) ==
    LET c == IF IsOperator(t, Not) THEN Advance(e.c) ELSE e.c
        prefix == IF IsOperator(t, Not) THEN Not ELSE <<>>
        set(d, word) == CASE word = <<"between">> -> RangeOf(d)
                          [] word = <<"in">> -> ListOf(d)
                          [] word = <<"like">> -> d
    IN IF c.at > Len(c.ts) THEN At(e, Fail(c))
       ELSE LET next == c.ts[c.at] IN
            IF next.type = "operator" /\ next.word \in Negatable
            THEN PushOperator(e, set(Advance(c), next.word), prefix \o next.word)
            ELSE PushOperator(e, c, Not)

Close(e) ==
    Given(ExecuteWhile(At(e, Advance(e.c)), AnyOperator \ {Open}), LAMBDA f :
        IF f.c.verdict # "ok" THEN f
        ELSE IF f.ops = <<>> THEN At(f, Fail(f.c))
        ELSE [f EXCEPT !.ops = Front(@)])

\* Slip: an operator of the same priority on the stack waits for this one.
OperatorTurnLater(e, t) ==
    Given(ExecuteWhile(e, {op \in AnyOperator : Priority(op) > Priority(t.word)}), LAMBDA f :
        IF f.c.verdict # "ok" THEN f ELSE PushOperator(f, Advance(f.c), t.word))
OperatorTurn(e, t) ==
    Given(ExecuteWhile(e, {op \in AnyOperator : Priority(op) >= Priority(t.word)}), LAMBDA f :
        IF f.c.verdict # "ok" THEN f ELSE PushOperator(f, Advance(f.c), t.word))

Continues(t, end) ==
    /\ t.data # end
    /\ \/ t.type \in {"identifier", "number", "operator", "string", "function"}
       \/ IsChar(t, "(") \/ IsChar(t, ")")

\* functionMapping: a name it lacks (insert, the aggregates) gives the first
\* of the enumeration.
FunctionType(w) ==
    CASE w = "substr" -> "substring"
      [] w \in (Function \ {"insert", "substr"}) -> w
      [] OTHER -> "ascii"

RECURSIVE ParseExpression(_, _), ParseLoop(_, _), Parameters(_)

Parameters(c) ==
    OnToken(c, LAMBDA d, t :
        IF IsChar(t, ")") THEN Advance(d)
        ELSE Parameters(SkipComma(ParseExpression(d, <<")">>))))
FunctionCall(c, t) ==
    Reduce(Collect(CheckData(Advance(c), "("), Parameters), 1,
           LAMBDA v : [function |-> FunctionType(t.word[1]), args |-> v[1]])

Turn(e, t) ==
    CASE t.type = "identifier" -> At(e, ConsumeAttribute(e.c))
      [] t.type = "function" -> At(e, FunctionCall(e.c, t))
      [] IsChar(t, "(") -> PushOperator(e, Advance(e.c), Open)
      [] IsChar(t, ")") -> Close(e)
      [] t.type = "operator" /\ t.word \in Negatable \cup {Not} -> NegatableTurn(e, t)
      [] t.type = "operator" /\ t.word \notin Negatable \cup {Not} -> OperatorTurn(e, t)
      [] OTHER -> At(e, Reduce(TakeLiteral(e.c), 1, LAMBDA v : [value |-> v[1]]))

ParseLoop(parse, end) ==
    Given(parse, LAMBDA e :
        IF e.c.verdict # "ok" THEN e
        ELSE IF e.c.at > Len(e.c.ts) THEN At(e, Fail(e.c))
        ELSE IF ~Continues(e.c.ts[e.c.at], end) THEN e
        ELSE ParseLoop(Turn(e, e.c.ts[e.c.at]), end))

ParseExpression(c, end) ==
    On(c, LAMBDA d :
        Given(ExecuteWhile(ParseLoop([c |-> d, ops |-> <<>>, base |-> Len(d.got)], end),
                           AnyOperator),
              LAMBDA e : IF Operands(e) # 1 THEN Fail(e.c) ELSE e.c))
=============================================================================
