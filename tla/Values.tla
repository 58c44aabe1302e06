------------------------------- MODULE Values -------------------------------
(***************************************************************************)
(* The values of SQL (types.h), their comparison, LIKE (helpers.cpp) and   *)
(* the functions on them (function_expression.cpp).                        *)
(*                                                                         *)
(* A value is a pair of its type and its content: an integer, a sequence   *)
(* of characters, a Boolean, or for a float the quotient of two integers   *)
(* (0 by 0 is NaN), whose rounding is left out.  An evaluation that does   *)
(* not end in a value ends in a fault: Errors is thrown, an exception that *)
(* the server does not catch, memory without a value is read, or a loop    *)
(* does not end.                                                           *)
(***************************************************************************)
EXTENDS Integers, Sequences, SequencesExt, FiniteSetsExt

CONSTANT IntDigits      \* bound: digits of a number that an int can hold

TypeOrder == <<"null", "int", "varchar", "bool", "datetime", "float">>
TypeOf(v) == v[1]
Index(v) == CHOOSE i \in DOMAIN TypeOrder : TypeOrder[i] = TypeOf(v)

Null == <<"null", 0>>
IntOf(n) == <<"int", n>>
Varchar(s) == <<"varchar", s>>
Bool(b) == <<"bool", b>>
Datetime(n) == <<"datetime", n>>      \* what a size_t becomes in the variant
NoValue == <<"none">>

Faults == {"error", "crash", "undefined", "hang"}
Fault(f) == <<f, 0>>
IsFault(v) == TypeOf(v) \in Faults

Abs(n) == IF n < 0 THEN -n ELSE n
\* Division and remainder of C++: towards zero.
Quotient(a, b) == IF (a < 0) = (b < 0) THEN Abs(a) \div Abs(b) ELSE -(Abs(a) \div Abs(b))
Remainder(a, b) == a - b * Quotient(a, b)
Float(n, d) ==
    LET divisors == {k \in 1..(Abs(n) + Abs(d)) : n % k = 0 /\ d % k = 0}
        g == IF d < 0 THEN -Max(divisors) ELSE Max(divisors)
    IN IF n = 0 /\ d = 0 THEN <<"float", <<0, 0>>>>
       ELSE <<"float", <<Quotient(n, g), Quotient(d, g)>>>>

\* The printable characters in the order of their codes, from 32 on.
Ascii == <<" ", "!", "\"", "#", "$", "%", "&", "'", "(", ")", "*", "+", ",", "-",
           ".", "/", "0", "1", "2", "3", "4", "5", "6", "7", "8", "9", ":", ";",
           "<", "=", ">", "?", "@", "A", "B", "C", "D", "E", "F", "G", "H", "I",
           "J", "K", "L", "M", "N", "O", "P", "Q", "R", "S", "T", "U", "V", "W",
           "X", "Y", "Z", "[", "\\", "]", "^", "_", "grave", "a", "b", "c", "d", "e",
           "f", "g", "h", "i", "j", "k", "l", "m", "n", "o", "p", "q", "r", "s",
           "t", "u", "v", "w", "x", "y", "z", "{", "|", "}", "~">>
Code(a) == 31 + CHOOSE i \in DOMAIN Ascii : Ascii[i] = a
Character(code) == Ascii[code - 31]
Shift(s, from, by) ==
    [i \in DOMAIN s |-> IF Code(s[i]) \in from .. from + 25
                        THEN Character(Code(s[i]) + by) ELSE s[i]]

DigitValue(a) == Code(a) - Code("0")
Decimal(digits) == FoldLeft(LAMBDA n, a : 10 * n + DigitValue(a), 0, digits)
DecimalDigits[n \in Nat] ==
    IF n < 10 THEN <<Character(Code("0") + n)>>
    ELSE Append(DecimalDigits[n \div 10], Character(Code("0") + (n % 10)))
Signed(n) == IF n < 0 THEN <<"-">> \o DecimalDigits[-n] ELSE DecimalDigits[n]

\* covertStringToSqlType for the data of a number, or NoValue.
Number(data) ==
    LET digits == SelectSeq(data, LAMBDA a : a # ".")
        places == Len(data) - Max({0} \cup {i \in DOMAIN data : data[i] = "."})
    IN IF Len(digits) > IntDigits THEN NoValue
       ELSE IF digits = data THEN IntOf(Decimal(data))
       ELSE Float(Decimal(digits), 10 ^ places)

\* covertSqlTypeToString.  std::to_string gives a float six places.
Text(v) ==
    CASE TypeOf(v) = "null" -> <<"N", "U", "L", "L">>
      [] TypeOf(v) = "bool" -> IF v[2] THEN <<"T", "r", "u", "e">>
                                      ELSE <<"F", "a", "l", "s", "e">>
      [] TypeOf(v) \in {"int", "datetime"} -> Signed(v[2])
      [] TypeOf(v) = "varchar" -> v[2]
      [] OTHER -> LET n == Abs(v[2][1])  d == v[2][2]
                      places == (2000000 * (n % d) + d) \div (2 * d)
                      sign == IF v[2][1] < 0 THEN <<"-">> ELSE <<>>
                  IN sign \o DecimalDigits[n \div d] \o <<".">>
                          \o Tail(DecimalDigits[1000000 + places])

-----------------------------------------------------------------------------
(* Comparison *)

\* The order of std::variant: by type first.
ContentLess(v, w) ==
    CASE TypeOf(v) \in {"int", "datetime"} -> v[2] < w[2]
      [] TypeOf(v) = "float" -> v[2][1] * w[2][2] < w[2][1] * v[2][2]
      [] TypeOf(v) = "bool" -> ~v[2] /\ w[2]
      [] TypeOf(v) = "varchar" ->
            \E i \in 1..Len(w[2]) :
                /\ i <= Len(v[2]) + 1
                /\ SubSeq(v[2], 1, i - 1) = SubSeq(w[2], 1, i - 1)
                /\ i <= Len(v[2]) => Code(v[2][i]) < Code(w[2][i])
      [] OTHER -> FALSE
Less(v, w) == Index(v) < Index(w) \/ (Index(v) = Index(w) /\ ContentLess(v, w))

\* compareSqlType: strings are equal or not, without an order.
Compare(v, w) ==
    IF TypeOf(v) # TypeOf(w) \/ TypeOf(v) \in {"bool", "null"} THEN "cant_compare"
    ELSE IF v = w THEN "equal"
    ELSE IF TypeOf(v) = "varchar" THEN "not_equal"
    ELSE IF Less(v, w) THEN "less_than" ELSE "greater"

\* likeMatch, at the i-th character of the pattern with p characters of the
\* string behind.  The part after a % is looked for at its first character only.
\* Slip: every character of the pattern is looked for as if a % stood before it.
LikeMatchScattered(s, pattern) ==
    LET matches[i \in 1..Len(pattern) + 1, p \in 0..Len(s)] ==
          LET places == {q \in p + 1..Len(s) : i <= Len(pattern) /\ s[q] = pattern[i]} IN
          \/ i > Len(pattern)
          \/ pattern[i] = "%" /\ matches[i + 1, p]
          \/ pattern[i] # "%" /\ places # {} /\ matches[i + 1, Min(places)]
    IN matches[1, 0]
LikeMatch(s, pattern) ==
    LET matches[i \in 1..Len(pattern) + 1, p \in 0..Len(s)] ==
          LET places == {q \in p + 1..Len(s) : s[q] = pattern[i]}
              floats == i = 1 \/ pattern[i - 1] = "%"
          IN IF i > Len(pattern) THEN TRUE
             ELSE IF pattern[i] = "%" THEN matches[i + 1, p]
             ELSE IF floats THEN places # {} /\ matches[i + 1, Min(places)]
             ELSE p + 1 \in places /\ matches[i + 1, p + 1]
    IN matches[1, 0]

-----------------------------------------------------------------------------
(* Functions: the types they expect, then what they return. *)

Expected ==
    [ascii |-> <<"int">>, char |-> <<"int">>, char_length |-> <<"varchar">>,
     length |-> <<"varchar">>, left |-> <<"varchar", "int">>,
     locate |-> <<"varchar", "varchar">>, lower |-> <<"varchar">>,
     substring |-> <<"varchar", "int", "int">>,
     replace |-> <<"varchar", "varchar", "varchar">>, right |-> <<"varchar", "int">>,
     reverse |-> <<"varchar">>, trim |-> <<"varchar">>, upper |-> <<"varchar">>]
Expects(f, args) ==
    CASE f = "concat" -> Len(args) >= 2
      [] f = "concat_ws" -> Len(args) >= 3 /\ TypeOf(args[1]) = "varchar"
      [] OTHER -> [i \in DOMAIN args |-> TypeOf(args[i])] = Expected[f]

\* std::string::substr from a position counted from 0: one beyond the end is
\* out_of_range, and a negative number wraps to one that is.
SubString(s, position, length) ==
    IF position \notin 0..Len(s) THEN Fault("crash")
    ELSE Varchar(SubSeq(s, position + 1,
                        IF length < 0 THEN Len(s) ELSE Min({Len(s), position + length})))

\* Where part begins in s, from position p on.
Found(s, part, p) == {i \in p..Len(s) + 1 - Len(part) : SubSeq(s, i, i + Len(part) - 1) = part}
\* replace of a part that is not empty.
ReplacedFrom(s, part, by) ==
    LET from[p \in 1..Len(s) + 1] ==
          LET at == Found(s, part, p) IN
          IF at = {} THEN SubSeq(s, p, Len(s))
          ELSE SubSeq(s, p, Min(at) - 1) \o by \o from[Min(at) + Len(part)]
    IN from[1]

Join(parts, separator) ==
    FoldLeftDomain(LAMBDA s, i : s \o (IF i = 1 THEN <<>> ELSE separator) \o Text(parts[i]),
                   <<>>, parts)

Trimmed(s) ==
    LET kept == {i \in DOMAIN s : s[i] # " "} IN
    IF kept = {} THEN <<>> ELSE SubSeq(s, Min(kept), Max(kept))

\* The functions of one string.
OnString(f, s) ==
    CASE f \in {"length", "char_length"} -> Datetime(Len(s))
      [] f = "lower" -> Varchar(Shift(s, Code("A"), 32))
      [] f = "upper" -> Varchar(Shift(s, Code("a"), -32))
      [] f = "reverse" -> Varchar(Reverse(s))
      [] f = "trim" -> Varchar(Trimmed(s))

FunctionOf(f, args) ==
    LET s == args[1][2]
        arg(i) == args[i][2]
    IN CASE f = "ascii" -> args[1]
         [] f = "char" -> Varchar(<<Character(s)>>)
         [] f = "concat" -> Varchar(Join(args, <<>>))
         [] f = "concat_ws" -> Varchar(Join(Tail(args), s))
         [] f = "left" -> SubString(s, 0, arg(2))
         [] f = "right" -> SubString(s, Len(s) - arg(2), -1)
         [] f = "substring" -> SubString(s, arg(2) - 1, arg(3))
         [] f = "locate" -> LET at == Found(arg(2), s, 1) IN
                            IF at = {} THEN IntOf(0) ELSE Datetime(Min(at))
         [] f = "replace" -> IF arg(2) = <<>> THEN Fault("hang")
                             ELSE Varchar(ReplacedFrom(s, arg(2), arg(3)))
         [] OTHER -> OnString(f, s)

Apply(f, args) == IF Expects(f, args) THEN FunctionOf(f, args) ELSE Fault("error")
=============================================================================
