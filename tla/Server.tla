------------------------------- MODULE Server -------------------------------
(***************************************************************************)
(* SQLServer (server/): one thread accepts connections and waits for one   *)
(* of numOfThreads places, a detached thread answers each client until it  *)
(* leaves, and DatabaseController keeps a database for every thread.       *)
(*                                                                         *)
(* A connection is a stream: a read may take several texts together or a   *)
(* part of one.  A text is its kind, in two pieces where a read may cut    *)
(* it: what USE and other statements do is in Statements and Request; a    *)
(* fatal one throws what is no Errors, and for an endless one the          *)
(* tokenizer finds no end (Tokenizer).  Texts are shorter than bufSize.    *)
(***************************************************************************)
EXTENDS Integers, Sequences, FiniteSets

CONSTANTS
    Client, Nobody,
    numOfThreads,
    Kind,       \* the texts clients send, of "use", "select", "garbled", "fatal", "endless"
    MaxTexts    \* bound: texts of one client

ASSUME PlacesAssumption == numOfThreads \in Nat \ {0} /\ MaxTexts \in Nat
ASSUME ClientAssumption == IsFiniteSet(Client)
ASSUME KindAssumption ==
    Kind \subseteq {"use", "select", "garbled", "fatal", "endless"} /\ Nobody \notin Client

VARIABLES
    up,             \* the process runs
    backlog,        \* connections accept has not taken
    acceptor,       \* run(): "accept", "check" (holds mtx), "sleep" (in cv.wait)
    clientSocket,   \* the connection run() has accepted and not given a thread
    active_threads,
    thread,         \* client -> "none", "reading", "handling", "leaving"
    buffer,         \* client -> the text its thread is handling
    databases,      \* client -> "none" or "open": the database of its thread
    peer,           \* client -> "away", "here", "left" or "reset" (it has left and said so)
    stream,         \* client -> pieces sent and not read
    texts, answers, \* client -> texts it has sent, answers sent to it
    said,           \* client -> the last answer
    stirred         \* history: a client did not wait, or a read or a text was out of the ordinary

vars == <<up, backlog, acceptor, clientSocket, active_threads, thread, buffer, databases,
          peer, stream, texts, answers, said, stirred>>
accepting == <<backlog, acceptor, clientSocket, active_threads>>
talking == <<buffer, databases, answers, said>>

Pieces(kind) == <<[kind |-> kind, part |-> 1], [kind |-> kind, part |-> 2]>>
Piece == [kind: Kind, part: {1, 2}]
Refusal == "Failed to parse the statement"
NoDatabase == "No database selected"

TypeOK ==
    /\ up \in BOOLEAN /\ stirred \in BOOLEAN
    /\ acceptor \in {"accept", "check", "sleep"}
    /\ clientSocket \in Client \cup {Nobody}
    /\ (clientSocket = Nobody) <=> (acceptor = "accept")
    /\ backlog \in Seq(Client)
    /\ active_threads \in 0..Cardinality(Client)
    /\ thread \in [Client -> {"none", "reading", "handling", "leaving"}]
    /\ buffer \in [Client -> {"empty", "garbled"} \cup Kind]
    /\ databases \in [Client -> {"none", "open"}]
    /\ peer \in [Client -> {"away", "here", "left", "reset"}]
    /\ stream \in [Client -> Seq(Piece)]
    /\ texts \in [Client -> 0..MaxTexts]
    /\ answers \in [Client -> Nat] /\ \A c \in Client : answers[c] <= 2 * texts[c]
    /\ said \in [Client -> {"nothing", "output", Refusal, NoDatabase}]

Init ==
    /\ up = TRUE /\ stirred = FALSE
    /\ backlog = <<>> /\ acceptor = "accept" /\ clientSocket = Nobody /\ active_threads = 0
    /\ thread = [c \in Client |-> "none"]
    /\ buffer = [c \in Client |-> "empty"]
    /\ databases = [c \in Client |-> "none"]
    /\ peer = [c \in Client |-> "away"]
    /\ stream = [c \in Client |-> <<>>]
    /\ texts = [c \in Client |-> 0] /\ answers = [c \in Client |-> 0]
    /\ said = [c \in Client |-> "nothing"]

-----------------------------------------------------------------------------
(* The clients *)

Connect(c) ==
    /\ up /\ peer[c] = "away"
    /\ peer' = [peer EXCEPT ![c] = "here"]
    /\ backlog' = Append(backlog, c)
    /\ UNCHANGED <<up, acceptor, clientSocket, active_threads, thread, talking, stream, texts, stirred>>

\* An answer is owed to c.
Owed(c) == answers[c] < texts[c]

Send(c, kind) ==
    /\ up /\ peer[c] = "here" /\ texts[c] < MaxTexts
    /\ stream' = [stream EXCEPT ![c] = @ \o Pieces(kind)]
    /\ texts' = [texts EXCEPT ![c] = @ + 1]
    /\ stirred' = (stirred \/ Owed(c) \/ kind \in {"fatal", "endless"})
    /\ UNCHANGED <<up, accepting, thread, talking, peer>>

Leave(c) ==
    /\ up /\ peer[c] = "here"
    /\ peer' = [peer EXCEPT ![c] = "left"]
    /\ stirred' = (stirred \/ Owed(c))
    /\ UNCHANGED <<up, accepting, thread, talking, stream, texts>>

-----------------------------------------------------------------------------
(* run *)

Accept ==
    /\ up /\ acceptor = "accept" /\ backlog # <<>>
    /\ clientSocket' = Head(backlog)
    /\ backlog' = Tail(backlog)
    /\ acceptor' = "check"
    /\ UNCHANGED <<up, active_threads, thread, talking, peer, stream, texts, stirred>>

\* "Failed to accept connection", which nobody catches.
AcceptFails ==
    /\ up /\ acceptor = "accept" /\ backlog # <<>>
    /\ up' = FALSE /\ stirred' = TRUE
    /\ UNCHANGED <<accepting, thread, talking, peer, stream, texts>>

\* Slip: one more than there are places.
HasPlaceForOneMore == active_threads <= numOfThreads
\* The condition cv.wait looks at, with mtx.
HasPlace == active_threads < numOfThreads

StartThread ==
    /\ up /\ acceptor = "check" /\ HasPlace
    /\ active_threads' = active_threads + 1
    /\ thread' = [thread EXCEPT ![clientSocket] = "reading"]
    /\ acceptor' = "accept" /\ clientSocket' = Nobody
    /\ UNCHANGED <<up, backlog, talking, peer, stream, texts, stirred>>

Sleep ==
    /\ up /\ acceptor = "check" /\ ~HasPlace
    /\ acceptor' = "sleep"
    /\ UNCHANGED <<up, backlog, clientSocket, active_threads, thread, talking, peer, stream,
                   texts, stirred>>

-----------------------------------------------------------------------------
(* handleClient *)

\* How many pieces a read gives: none when the client has left.
Readable(c) ==
    {n \in 0..Len(stream[c]) : n = 0 => stream[c] = <<>> /\ peer[c] \in {"left", "reset"}}

\* The kinds a text can be taken for when it is read with what is behind it:
\* the parser stops after the first statement; a part is any text.
Meanings(pieces) ==
    IF pieces = <<>> THEN {"garbled"}
    ELSE IF pieces[1].part = 1 /\ Len(pieces) > 1 THEN {pieces[1].kind}
    ELSE {"garbled", pieces[1].kind}

\* Slip: an empty read is taken for a text.
IsTextAtEnd(n) == n >= 0
IsText(n) == n > 0

Whole(pieces) == pieces = <<>> \/ pieces = Pieces(pieces[1].kind)

\* The loop ends at the end of the stream; closeDatabase, and nobody aborts
\* the transaction that is open.
Read(c) ==
    /\ up /\ thread[c] = "reading"
    /\ \E n \in Readable(c) : LET pieces == SubSeq(stream[c], 1, n) IN
        /\ stream' = [stream EXCEPT ![c] = SubSeq(@, n + 1, Len(@))]
        /\ \E kind \in Meanings(pieces) :
            buffer' = [buffer EXCEPT ![c] = IF IsText(n) THEN kind ELSE "empty"]
        /\ thread' = [thread EXCEPT ![c] = IF IsText(n) THEN "handling" ELSE "leaving"]
        /\ databases' = [databases EXCEPT ![c] = IF IsText(n) THEN @ ELSE "none"]
        /\ stirred' = (stirred \/ ~Whole(pieces))
    /\ UNCHANGED <<up, accepting, answers, said, peer, texts>>

\* Slip: a statement is executed first and then put into a transaction.
ExecutedFirst(database, kind) ==
    IF kind = "garbled" THEN [database |-> database, answer |-> Refusal]
    ELSE IF kind = "use" THEN [database |-> "open", answer |-> "output"]
    ELSE [database |-> database, answer |-> IF database = "none" THEN NoDatabase ELSE "output"]

\* getDatabase is asked for the transaction before the statement is executed,
\* be it USE, which would choose the thread's first database.
Executed(database, kind) ==
    IF kind = "garbled" THEN [database |-> database, answer |-> Refusal]
    ELSE IF database = "none" THEN [database |-> database, answer |-> NoDatabase]
    ELSE [database |-> "open", answer |-> "output"]

\* Slip: the handler of the exception ends the loop.
NextReadUnlessRefused(kind) == IF kind = "garbled" THEN "leaving" ELSE "reading"
NextRead(kind) == "reading"

\* What is sent to a client that has left is lost, and makes its side say so;
\* after that a send ends the process (SIGPIPE).
Answer(c) ==
    /\ up /\ thread[c] = "handling" /\ buffer[c] \in {"use", "select", "garbled"}
    /\ peer[c] # "reset"
    /\ LET done == Executed(databases[c], buffer[c]) IN
        /\ databases' = [databases EXCEPT ![c] = done.database]
        /\ said' = [said EXCEPT ![c] = done.answer]
    /\ answers' = [answers EXCEPT ![c] = @ + 1]
    /\ peer' = [peer EXCEPT ![c] = IF @ = "left" THEN "reset" ELSE @]
    /\ thread' = [thread EXCEPT ![c] = NextRead(buffer[c])]
    /\ buffer' = [buffer EXCEPT ![c] = "empty"]
    /\ UNCHANGED <<up, accepting, stream, texts, stirred>>

AnswerEnds(c) ==
    /\ up /\ thread[c] = "handling"
    /\ buffer[c] = "fatal" \/ (buffer[c] # "endless" /\ peer[c] = "reset")
    /\ up' = FALSE
    /\ UNCHANGED <<accepting, thread, talking, peer, stream, texts, stirred>>

\* Slip: the waiting thread is not told.
NotifiedNever(a) == a
Notified(a) == IF a = "sleep" THEN "check" ELSE a

\* The thread gives its place back, with mtx.
GiveBack(c) ==
    /\ up /\ thread[c] = "leaving"
    /\ thread' = [thread EXCEPT ![c] = "none"]
    /\ active_threads' = active_threads - 1
    /\ acceptor' = Notified(acceptor)
    /\ UNCHANGED <<up, backlog, clientSocket, talking, peer, stream, texts, stirred>>

-----------------------------------------------------------------------------
(* Properties *)

Running == {c \in Client : thread[c] # "none"}

\* run counts the threads there are, and never starts one too many
\* (sql_server.cpp:24, 32).
PlacesAreCounted == active_threads = Cardinality(Running) /\ active_threads <= numOfThreads

\* As long as every client waits for its answers, sends harmless texts and each
\* read takes one text, the process runs, and every text is on its way or has
\* had its one answer (sql_server.cpp:43).
CalmIsServed ==
    ~stirred =>
        /\ up
        /\ \A c \in Client :
            texts[c] = answers[c] + (IF stream[c] # <<>> \/ thread[c] = "handling" THEN 1 ELSE 0)

\* Through the server no thread has ever a database, and no statement is
\* executed: every text is refused (sql_server.cpp:55).
NothingIsExecuted ==
    \A c \in Client : databases[c] = "none" /\ said[c] \in {"nothing", Refusal, NoDatabase}

Waiting(c) == clientSocket = c \/ \E i \in DOMAIN backlog : backlog[i] = c

\* If places become free again and again, whoever waits for one gets it: run
\* does not sleep through the return of a place (sql_server.cpp:24, 33).
WaitingIsServed ==
    []<>(HasPlace \/ ~up) => \A c \in Client : Waiting(c) ~> (~Waiting(c) \/ ~up)

\* What a client of a running thread has sent is read, unless an endless text
\* is before it (sql_server.cpp:43, 64).
TextsAreRead ==
    \A c \in Client :
        (stream[c] # <<>> /\ c \in Running) ~> (stream[c] = <<>> \/ buffer[c] = "endless" \/ ~up)

\* USE gives the thread its database, as it does without a server
\* (statement_test.cpp:48).
UseSelects ==
    [][\A c \in Client :
        buffer[c] = "use" /\ answers'[c] # answers[c] => databases'[c] = "open"]_vars

-----------------------------------------------------------------------------
Serve(c) == Read(c) \/ Answer(c) \/ AnswerEnds(c) \/ GiveBack(c)
Run == Accept \/ StartThread \/ Sleep

Next ==
    \/ Run \/ AcceptFails
    \/ \E c \in Client : Connect(c) \/ Leave(c) \/ Serve(c)
    \/ \E c \in Client, kind \in Kind : Send(c, kind)

\* The threads of the process run; clients do what they like.
Fairness == WF_vars(Run) /\ \A c \in Client : WF_vars(Serve(c))

Spec == Init /\ [][Next]_vars /\ Fairness
=============================================================================
