----------------------------- MODULE Tokenizer -----------------------------
(***************************************************************************)
(* The tokenizer (tokenizer.cpp, scanner.h, keywords.h): one turn of its   *)
(* loop reads one token from the text that a client sent.                  *)
(*                                                                         *)
(* A text is a sequence of atoms: a single character, or a whole word in   *)
(* place of its letters.  The data of a token is the sequence of atoms it  *)
(* was read from, and its word the same in lower case: the key the tables  *)
(* of keywords.h are searched with.  Reading past the last character sets  *)
(* eof and may push one empty token, which is popped at the end again; the *)
(* model leaves that token out.                                            *)
(***************************************************************************)
EXTENDS Integers, Sequences, SequencesExt, FiniteSetsExt

CONSTANT MaxTokens      \* bound: tokens of a text that never ends

VARIABLES
    text,       \* what is left of the input stream
    tokens,     \* Tokenizer::tokens
    status      \* what handleClient is doing with the text

Whitespace == {" "}
Digit == {"0", "1", "2", "3", "4", "5", "6", "7", "8", "9"}
Quote == {"'", "\""}
OperatorChar == {"+", "-", "/", "*", "%", "=", ">", "!", "<", "."}
Punctuation == {"(", ")", "[", "]", "{", "}", ":", ";", ",", "|"}
\* The characters no branch of tokenize and no read of a word accepts.
Stray == {"^", "@", "#", "$", "&", "?", "~"}
NoWord == Whitespace \cup Digit \cup Quote \cup OperatorChar \cup Punctuation \cup Stray

Capitals == [SELECT |-> "select", Select |-> "select", FROM |-> "from",
             AND |-> "and", Count |-> "count", B |-> "b"]
Lower(a) == IF a \in DOMAIN Capitals THEN Capitals[a] ELSE a
LowerAll(s) == [i \in DOMAIN s |-> Lower(s[i])]

Keyword ==
    {"alter", "any", "as", "auto_increment", "asc", "abort", "by", "bool",
     "begin", "case", "check", "constraint", "create", "cross", "commit",
     "default", "delete", "distinct", "drop", "date", "database", "describe",
     "databases", "desc", "else", "end", "exists", "foreign", "from", "float",
     "false", "full", "group", "having", "if", "inner", "intersect", "index",
     "insert", "into", "int", "join", "key", "left", "limit", "null", "offset",
     "on", "order", "primary", "references", "right", "rollback", "select",
     "set", "some", "show", "table", "then", "transaction", "tables", "true",
     "union", "unique", "update", "values", "view", "varchar", "when", "where",
     "unknown", "use"}
SymbolOperator == {<<"+">>, <<"-">>, <<"*">>, <<"/">>, <<"%">>, <<".">>, <<"=">>,
                   <<">">>, <<">", "=">>, <<"<">>, <<"<", "=">>, <<"<", ">">>}
WordOperator == {"and", "or", "nor", "not", "between", "in", "like"}
Function == {"ascii", "concat", "concat_ws", "char_length", "char", "length",
             "left", "locate", "lower", "substring", "substr", "replace",
             "right", "reverse", "insert", "trim", "upper"}
AggregateFunction == {"count", "sum", "avg", "min", "max", "group_concat"}

Token(type, data) == [type |-> type, word |-> LowerAll(data), data |-> data]
\* The tables are searched in this order: left and insert are keywords.
WordType(data) ==
    LET word == LowerAll(data)
        found(table) == Len(word) = 1 /\ word[1] \in table
    IN
    CASE found(Keyword) -> "keyword"
      [] found(WordOperator) -> "operator"
      [] found(Function \cup AggregateFunction) -> "function"
      [] OTHER -> "identifier"

-----------------------------------------------------------------------------
(* Scanner *)

\* Scanner::read: the longest start of a text whose atoms are all accepted.
Accepted(t, atoms) ==
    LET end[i \in 0..Len(t)] == IF i < Len(t) /\ t[i + 1] \in atoms THEN end[i + 1] ELSE i
    IN SubSeq(t, 1, end[0])
After(t, start) == SubSeq(t, Len(start) + 1, Len(t))

Push(token) == tokens' = Append(tokens, token)

\* One turn of the loop: read what is accepted and make a token of it.
ReadRun(starts, more, type(_), Valid(_)) ==
    /\ status = "tokenizing" /\ text # <<>> /\ Head(text) \in starts
    /\ LET data == Accepted(text, starts \cup more) IN
       /\ text' = After(text, data)
       /\ IF Valid(data) THEN Push(Token(type(data), data)) /\ UNCHANGED status
                         ELSE status' = "error" /\ UNCHANGED tokens

\* Slip: white space is looked at and left in the stream.
SkipSpaceLeft ==
    /\ status = "tokenizing" /\ text # <<>> /\ Head(text) \in Whitespace
    /\ UNCHANGED <<text, tokens, status>>
SkipSpace ==
    /\ status = "tokenizing" /\ text # <<>> /\ Head(text) \in Whitespace
    /\ text' = After(text, Accepted(text, Whitespace))
    /\ UNCHANGED <<tokens, status>>

ValidNumber(data) ==
    /\ Last(data) # "."
    /\ \A i, j \in DOMAIN data : data[i] = "." /\ data[j] = "." => i = j
ReadNumber ==
    ReadRun(Digit, {"."}, LAMBDA data : "number", ValidNumber)

ReadOperator ==
    ReadRun(OperatorChar, {}, LAMBDA data : "operator", LAMBDA data : data \in SymbolOperator)

ReadWord ==
    ReadRun(ToSet(text) \ NoWord, Digit, WordType, LAMBDA data : TRUE)

ReadPunctuation ==
    /\ status = "tokenizing" /\ text # <<>> /\ Head(text) \in Punctuation
    /\ text' = Tail(text)
    /\ Push(Token("punctuation", <<Head(text)>>))
    /\ UNCHANGED status

\* A string ends at the next quote of its own kind; without one, the text is
\* rejected once all of it has been read.
ReadString ==
    /\ status = "tokenizing" /\ text # <<>> /\ Head(text) \in Quote
    /\ LET quote == Head(text)
           data == Accepted(Tail(text), ToSet(text) \ {quote})
           rest == After(Tail(text), data)
       IN IF rest = <<>>
          THEN status' = "error" /\ text' = <<>> /\ UNCHANGED tokens
          ELSE /\ Push([type |-> "string", word |-> <<>>, data |-> data])
               /\ text' = Tail(rest) /\ UNCHANGED status

\* Nothing accepts the character: an empty token is pushed, the character
\* stays, and the loop goes round again.
ReadStray ==
    /\ status = "tokenizing" /\ text # <<>> /\ Head(text) \in Stray
    /\ Len(tokens) < MaxTokens
    /\ Push(Token("identifier", <<>>))
    /\ UNCHANGED <<text, status>>

\* The tokens without the empty ones at their end.
WithoutEmptyTail(ts) ==
    SubSeq(ts, 1, Max({0} \cup {i \in DOMAIN ts : ts[i].data # <<>>}))

\* eof: the empty tokens at the end, one of which may be an empty string, go.
EndOfText ==
    /\ status = "tokenizing" /\ text = <<>>
    /\ tokens' = WithoutEmptyTail(tokens)
    /\ status' = "parsing"
    /\ UNCHANGED text

Tokenize ==
    \/ SkipSpace \/ ReadNumber \/ ReadOperator \/ ReadWord
    \/ ReadPunctuation \/ ReadString \/ ReadStray \/ EndOfText

-----------------------------------------------------------------------------
(* The tokens as the parsers read them.  A cursor holds the tokens,         *)
(* Tokenizer::index, the values read so far and the verdict: "ok", "error"  *)
(* once Errors is thrown, or "undefined" once the code reads memory that    *)
(* holds no value.                                                          *)

\* Body for the value of an expression, which is evaluated once.
Given(value, Body(_)) == CHOOSE result \in {Body(v) : v \in {value}} : TRUE

Cursor(ts) == [ts |-> ts, at |-> 1, got |-> <<>>, verdict |-> "ok"]
Ends(c, verdict) == [c EXCEPT !.verdict = IF @ = "ok" THEN verdict ELSE @]
Fail(c) == Ends(c, "error")
Undefined(c) == Ends(c, "undefined")
Advance(c) == [c EXCEPT !.at = @ + 1]
Got(c, value) == [c EXCEPT !.got = Append(@, value)]
Nth(c, k) == c.got[Len(c.got) - k]      \* the value got before the last k

\* A step from a cursor, unless the parse has ended.
On(c, Step(_)) == Given(c, LAMBDA d : IF d.verdict # "ok" THEN d ELSE Step(d))
\* A step that looks at the next token: peek throws when there is none.
OnToken(c, Step(_, _)) ==
    On(c, LAMBDA d : IF d.at > Len(d.ts) THEN Fail(d) ELSE Step(d, d.ts[d.at]))
\* The last n values become one.
Reduce(c, n, Value(_)) ==
    On(c, LAMBDA d :
        [d EXCEPT !.got = Append(SubSeq(@, 1, Len(@) - n), Value(SubSeq(@, Len(@) - n + 1, Len(@))))])
\* The values that Parse gets become one, a sequence.
Collect(c, Parse(_)) ==
    On(c, LAMBDA d : On(Parse(d), LAMBDA e : Reduce(e, Len(e.got) - Len(d.got), LAMBDA values : values)))

IsKeyword(t, word) == t.type = "keyword" /\ t.word = <<word>>
IsOperator(t, word) == t.type = "operator" /\ t.word = word
IsChar(t, a) == t.type = "punctuation" /\ t.data = <<a>>

\* The check functions: one for keywords, one that compares the data alone.
CheckKeyword(c, word) ==
    OnToken(c, LAMBDA d, t : IF IsKeyword(t, word) THEN Advance(d) ELSE Fail(d))
CheckData(c, a) == OnToken(c, LAMBDA d, t : IF t.data = <<a>> THEN Advance(d) ELSE Fail(d))
\* consumeType of a string takes the data of any token.
Take(c) == OnToken(c, LAMBDA d, t : Got(Advance(d), t.data))
EndBy(c, a) ==
    On(CheckData(c, a), LAMBDA d : IF d.at <= Len(d.ts) THEN Fail(d) ELSE d)

\* consumeAttribute: a name, or a table, a dot and a name.
ConsumeAttribute(c) ==
    OnToken(c, LAMBDA d, first : OnToken(Advance(d), LAMBDA e, dot :
        IF dot.data # <<".">> THEN Got(e, [table |-> <<>>, attribute |-> first.data])
        ELSE OnToken(Advance(e), LAMBDA f, second :
                Got(Advance(f), [table |-> first.data, attribute |-> second.data]))))
=============================================================================
