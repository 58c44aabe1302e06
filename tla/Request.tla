------------------------------ MODULE Request ------------------------------
(***************************************************************************)
(* One text from a client: handleClient (sql_server.cpp) tokenizes it,     *)
(* MainController (main_controller.cpp) tries the factories in their       *)
(* order, and a select is executed against tables that do not change.      *)
(* Each text has a Tokenizer and a MainController of its own.  What the    *)
(* other statements do to a database, and the locks, are modelled          *)
(* elsewhere.                                                              *)
(***************************************************************************)
EXTENDS SqlText, SelectPromise

VARIABLES
    sent,       \* what the client sends: [text, of], the statement it means or NoStatement
    attempt,    \* the factory whose turn it is
    statement,  \* what it made of the tokens
    result      \* what the statement gave

vars == <<text, tokens, status, sent, attempt, statement, result>>

NoStatement == [kind |-> "none"]
\* A text m has come.
Start(m) ==
    /\ sent = m /\ text = m.text /\ tokens = <<>> /\ status = "tokenizing"
    /\ attempt = 1 /\ statement = NoStatement /\ result = Rows(<<>>)

\* The client is sent an answer, or the process is no more.
Answered == status \in {"error", "refused", "executed", "accepted"}
Over == status \in {"undefined", "crashed", "hung"}

ReadToken == Tokenize /\ UNCHANGED <<sent, attempt, statement, result>>

\* A factory that throws or gives no statement leaves its turn to the next.
TryFactory ==
    /\ status = "parsing" /\ attempt <= Len(Factories)
    /\ \E a \in {Attempt(attempt, tokens)} :
        \/ /\ a.verdict = "ok"
           /\ statement' = a.statement
           /\ status' = IF a.statement.kind = "select" THEN "parsed" ELSE "accepted"
           /\ UNCHANGED attempt
        \/ /\ a.verdict = "error"
           /\ attempt' = attempt + 1
           /\ UNCHANGED <<statement, status>>
        \/ /\ a.verdict = "undefined"
           /\ status' = "undefined"
           /\ UNCHANGED <<statement, attempt>>
    /\ UNCHANGED <<text, tokens, sent, result>>

\* "Failed to parse the statement"
Refuse ==
    /\ status = "parsing" /\ attempt > Len(Factories)
    /\ status' = "refused"
    /\ UNCHANGED <<text, tokens, sent, attempt, statement, result>>

ExecuteSelect ==
    /\ status = "parsed"
    /\ \E r \in SelectResults(statement) :
        /\ result' = r
        /\ status' = IF ~HasFault(r) THEN "executed"
                     ELSE CASE r.fault = "error" -> "error" [] r.fault = "crash" -> "crashed"
                            [] r.fault = "undefined" -> "undefined" [] r.fault = "hang" -> "hung"
    /\ UNCHANGED <<text, tokens, sent, attempt, statement>>

Next == ReadToken \/ TryFactory \/ Refuse \/ ExecuteSelect

\* One thread runs from the text to its answer without waiting for anyone.
Fairness == WF_vars(Next)

-----------------------------------------------------------------------------
(* Properties *)

\* Tokenizer::tokenize loses nothing of a text and makes nothing up: the tokens
\* together are the text without its blanks and quotes.
NothingLost ==
    LET letters(s) == SelectSeq(s, LAMBDA a : a \notin Whitespace \cup Quote) IN
    status = "parsing" /\ attempt = 1 =>
        letters(FlattenSeq([i \in DOMAIN tokens |-> tokens[i].data])) = letters(sent.text)

\* A statement written down with the parentheses its priorities need is taken
\* by one factory and by no other, and understood as it was meant, unless it
\* has like, in or between behind a bare operator: that is always understood
\* otherwise (expression_parser.cpp:138-181).
ParsesAsPrinted ==
    sent.of # NoStatement =>
        /\ status \in {"refused", "error", "undefined"} => statement # NoStatement
        /\ statement # NoStatement =>
              /\ statement = sent.of <=> \A e \in ExpressionsOf(sent.of) : ~Misread(e)
              /\ \A k \in DOMAIN Factories \ {attempt} : Attempt(k, tokens).verdict = "error"

\* From its bytes to its statement, a text is understood.
TextsAreUnderstood == NothingLost /\ ParsesAsPrinted

\* Every text without a stray character is answered, or ends the process, or
\* asks replace for the empty string (tokenizer.cpp:75, function_expression.cpp:173).
TextsAreAnswered ==
    (status = "tokenizing" /\ ToSet(text) \cap Stray = {}) ~> (Answered \/ Over)

Gave == status = "executed"
\* The joins and the where of a select * give the rows that SQL promises.
JoinsAgree == Gave /\ WholeTables(statement) => JoinsAsPromised(statement, result.rows)
\* Groups and aggregates give a row for each group, with its totals.
GroupsAgree == Gave /\ Aggregates(statement) => GroupsAsPromised(statement, result.rows)
\* Order by and limit give the page of the ordered rows that was asked for.
PageAgrees == Gave /\ Paged(statement) => PageAsPromised(statement, result.rows)
\* like gives the rows that contain the pattern, and all of them when no part
\* of it between two % is longer than one character.
LikeAgrees == Gave /\ Likes(statement) => LikesAsPromised(statement, result.rows)
\* The functions on strings give what their names promise.
CallsAgree == Gave /\ Calls(statement) => CallsAsPromised(statement, result.rows)

\* A select shows the rows it should, and computes the values it should.
RowsAgree == JoinsAgree /\ GroupsAgree /\ PageAgrees
FunctionsAgree == LikeAgrees /\ CallsAgree

=============================================================================
