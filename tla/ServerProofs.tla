---------------------------- MODULE ServerProofs ----------------------------
(***************************************************************************)
(* The safety properties of Server, for any finite set of clients and any  *)
(* number of places.  A connection is in one place at a time: with the     *)
(* kernel, with run, or with a thread; so a thread is started once for     *)
(* each, and active_threads counts the threads there are.                  *)
(***************************************************************************)
EXTENDS Server, FiniteSetTheorems, SequenceTheorems, TLAPS

Queued(c) == \E i \in DOMAIN backlog : backlog[i] = c

OnePlace ==
    /\ \A i, j \in DOMAIN backlog : backlog[i] = backlog[j] => i = j
    /\ \A c \in Client :
        /\ Queued(c) => clientSocket # c /\ thread[c] = "none"
        /\ clientSocket = c => thread[c] = "none"
        /\ peer[c] = "away" =>
              ~Queued(c) /\ clientSocket # c /\ thread[c] = "none" /\ texts[c] = 0

\* Every read takes a piece of a text at least, and has one answer.
Unanswered ==
    \A c \in Client :
        answers[c] + Len(stream[c]) + (IF thread[c] = "handling" THEN 1 ELSE 0) <= 2 * texts[c]

\* run sleeps only while every place is taken.
SleepsForAPlace == acceptor = "sleep" => ~HasPlace

\* What a client that waits for its answers leaves behind.
Calm(c) ==
    /\ stream[c] = <<>> \/ \E kind \in Kind \ {"fatal", "endless"} : stream[c] = Pieces(kind)
    /\ thread[c] = "handling" => stream[c] = <<>> /\ buffer[c] \in {"use", "select", "garbled"}
    /\ thread[c] = "handling" => peer[c] = "here"
    /\ peer[c] \in {"left", "reset"} => stream[c] = <<>>
    /\ texts[c] = answers[c] + (IF stream[c] # <<>> \/ thread[c] = "handling" THEN 1 ELSE 0)

AllCalm == ~stirred => up /\ \A c \in Client : Calm(c)

SInv ==
    /\ TypeOK /\ OnePlace /\ PlacesAreCounted /\ Unanswered
    /\ SleepsForAPlace /\ NothingIsExecuted /\ AllCalm

-----------------------------------------------------------------------------
(* The initial state *)

\* The server starts with nobody.
LEMMA InitInv == Init => SInv
<1> SUFFICES ASSUME Init PROVE SInv
  OBVIOUS
<1> USE DEF Init
<1>1. Running = {} /\ Cardinality(Running) = 0
  BY FS_EmptySet DEF Running
<1>2. Cardinality(Client) \in Nat
  BY ClientAssumption, FS_CardinalityType
<1>3. TypeOK
  <2>1. <<>> \in Seq(Client) /\ <<>> \in Seq(Piece)
    OBVIOUS
  <2>2. backlog \in Seq(Client) /\ stream \in [Client -> Seq(Piece)]
    BY <2>1
  <2>3. active_threads \in 0..Cardinality(Client)
    BY <1>2
  <2>4. buffer \in [Client -> {"empty", "garbled"} \cup Kind]
    OBVIOUS
  <2>5. texts \in [Client -> 0..MaxTexts] /\ answers \in [Client -> Nat]
        /\ \A c \in Client : answers[c] <= 2 * texts[c]
    BY PlacesAssumption
  <2> QED BY <2>2, <2>3, <2>4, <2>5, KindAssumption DEF TypeOK, Refusal, NoDatabase
<1>4. OnePlace
  BY KindAssumption DEF OnePlace, Queued
<1>5. PlacesAreCounted
  BY <1>1, PlacesAssumption DEF PlacesAreCounted
<1>6. Unanswered /\ SleepsForAPlace /\ NothingIsExecuted /\ AllCalm
  BY DEF Unanswered, SleepsForAPlace, NothingIsExecuted, AllCalm, Calm
<1> QED BY <1>3, <1>4, <1>5, <1>6 DEF SInv

-----------------------------------------------------------------------------
(* Streams *)

\* A text adds its two pieces to the stream.
LEMMA SentStream ==
    ASSUME NEW s \in Seq(Piece), NEW kind \in Kind
    PROVE  /\ Pieces(kind) \in Seq(Piece) /\ Len(Pieces(kind)) = 2
           /\ s \o Pieces(kind) \in Seq(Piece)
           /\ Len(s \o Pieces(kind)) = Len(s) + 2
           /\ s \o Pieces(kind) # <<>>
           /\ s = <<>> => s \o Pieces(kind) = Pieces(kind)
<1>1. Pieces(kind) \in Seq(Piece) /\ Len(Pieces(kind)) = 2
  <2>1. /\ [kind |-> kind, part |-> 1] \in Piece
        /\ [kind |-> kind, part |-> 2] \in Piece
    BY DEF Piece
  <2>2. \A x, y \in Piece : <<x, y>> \in Seq(Piece) /\ Len(<<x, y>>) = 2
    OBVIOUS
  <2> QED BY <2>1, <2>2 DEF Pieces
<1>2. s \o Pieces(kind) \in Seq(Piece) /\ Len(s \o Pieces(kind)) = Len(s) + 2
  <2>1. \A p \in Seq(Piece) : s \o p \in Seq(Piece) /\ Len(s \o p) = Len(s) + Len(p)
    BY ConcatProperties
  <2> QED BY <1>1, <2>1
<1>3. s = <<>> => s \o Pieces(kind) = Pieces(kind)
  BY <1>1, ConcatEmptySeq
<1>4. s \o Pieces(kind) # <<>>
  BY <1>2, EmptySeq
<1> QED BY <1>1, <1>2, <1>3, <1>4

\* A read takes n pieces from the stream and leaves the others.
LEMMA ReadStream ==
    ASSUME NEW s \in Seq(Piece), NEW n \in 0..Len(s)
    PROVE  /\ SubSeq(s, 1, n) \in Seq(Piece) /\ Len(SubSeq(s, 1, n)) = n
           /\ SubSeq(s, n + 1, Len(s)) \in Seq(Piece)
           /\ Len(SubSeq(s, n + 1, Len(s))) = Len(s) - n
           /\ n > 0 => SubSeq(s, 1, n)[1] = s[1]
<1>1. \A i \in 1..Len(s) : s[i] \in Piece
  BY ElementOfSeq
<1>2. /\ SubSeq(s, 1, n) \in Seq(Piece) /\ Len(SubSeq(s, 1, n)) = IF 1 <= n THEN n - 1 + 1 ELSE 0
      /\ \A i \in 1..n - 1 + 1 : SubSeq(s, 1, n)[i] = s[1 + i - 1]
  <2>1. \A i \in 1..n : s[i] \in Piece
    BY <1>1
  <2> QED BY <2>1, SubSeqProperties
<1>3. /\ SubSeq(s, n + 1, Len(s)) \in Seq(Piece)
      /\ Len(SubSeq(s, n + 1, Len(s))) = IF n + 1 <= Len(s) THEN Len(s) - (n + 1) + 1 ELSE 0
  <2>1. \A i \in n + 1..Len(s) : s[i] \in Piece
    BY <1>1
  <2> QED BY <2>1, SubSeqProperties
<1> QED BY <1>2, <1>3

-----------------------------------------------------------------------------
(* The steps *)

\* Every step counts the threads it starts and ends.
LEMMA PlacesStep ==
    SInv /\ [Next]_vars => PlacesAreCounted' /\ active_threads' \in 0..Cardinality(Client)
<1> SUFFICES ASSUME SInv, [Next]_vars
             PROVE  PlacesAreCounted' /\ active_threads' \in 0..Cardinality(Client)
  OBVIOUS
<1> USE DEF SInv
<1>1. /\ IsFiniteSet(Running) /\ IsFiniteSet(Running')
      /\ Cardinality(Running) \in Nat /\ Cardinality(Running') \in 0..Cardinality(Client)
  <2>1. Running \subseteq Client /\ Running' \subseteq Client
    BY DEF Running
  <2> QED BY <2>1, ClientAssumption, FS_Subset, FS_CardinalityType
<1> SUFFICES PlacesAreCounted'
  BY <1>1 DEF PlacesAreCounted
<1>2. CASE StartThread
  <2>1. clientSocket \in Client /\ thread[clientSocket] = "none"
    BY <1>2 DEF StartThread, OnePlace, TypeOK
  <2>2. Running' = Running \cup {clientSocket} /\ clientSocket \notin Running
    BY <1>2, <2>1 DEF StartThread, Running, TypeOK
  <2>3. Cardinality(Running') = Cardinality(Running) + 1
    BY <1>1, <2>2, FS_AddElement
  <2> QED BY <1>1, <1>2, <2>3, PlacesAssumption DEF StartThread, HasPlace, PlacesAreCounted
<1>3. ASSUME NEW c \in Client, GiveBack(c) PROVE PlacesAreCounted'
  <2>1. Running' = Running \ {c} /\ c \in Running
    BY <1>3 DEF GiveBack, Running, TypeOK
  <2>2. Cardinality(Running') = Cardinality(Running) - 1
    BY <1>1, <2>1, FS_RemoveElement
  <2> QED BY <1>1, <1>3, <2>2, PlacesAssumption DEF GiveBack, PlacesAreCounted
<1>4. ASSUME Running' = Running, active_threads' = active_threads PROVE PlacesAreCounted'
  BY <1>4 DEF PlacesAreCounted
<1>5. ASSUME NEW c \in Client, Read(c) PROVE Running' = Running /\ active_threads' = active_threads
  BY <1>5 DEF Read, Running, TypeOK, accepting
<1>6. ASSUME NEW c \in Client, Answer(c) PROVE Running' = Running /\ active_threads' = active_threads
  BY <1>6 DEF Answer, NextRead, Running, TypeOK, accepting
<1>7. ASSUME thread' = thread, active_threads' = active_threads PROVE PlacesAreCounted'
  BY <1>7, <1>4 DEF Running
<1>8. CASE Accept \/ AcceptFails \/ Sleep \/ UNCHANGED vars
  BY <1>7, <1>8 DEF Accept, AcceptFails, Sleep, vars, accepting
<1>9. ASSUME NEW c \in Client, NEW kind \in Kind, Send(c, kind) PROVE PlacesAreCounted'
  BY <1>7, <1>9 DEF Send, accepting
<1>10. ASSUME NEW c \in Client, Connect(c) \/ Leave(c) \/ AnswerEnds(c) PROVE PlacesAreCounted'
  BY <1>7, <1>10 DEF Connect, Leave, AnswerEnds, accepting
<1> QED BY <1>2, <1>3, <1>4, <1>5, <1>6, <1>8, <1>9, <1>10 DEF Next, Run, Serve

\* Every step keeps the connections apart: what leaves the backlog is with run,
\* and what leaves run has a thread.
LEMMA OnePlaceStep == SInv /\ [Next]_vars => OnePlace'
<1> SUFFICES ASSUME SInv, [Next]_vars PROVE OnePlace'
  OBVIOUS
<1> USE DEF SInv
<1>1. ASSUME NEW c \in Client, Connect(c) PROVE OnePlace'
  <2>1. /\ ~Queued(c) /\ clientSocket # c /\ thread[c] = "none" /\ texts[c] = 0
        /\ backlog' = Append(backlog, c) /\ peer' = [peer EXCEPT ![c] = "here"]
        /\ UNCHANGED <<clientSocket, thread, texts>>
    BY <1>1 DEF Connect, OnePlace, TypeOK
  <2>2. /\ Len(backlog') = Len(backlog) + 1 /\ backlog'[Len(backlog) + 1] = c
        /\ \A i \in DOMAIN backlog : backlog'[i] = backlog[i]
        /\ DOMAIN backlog = 1..Len(backlog) /\ DOMAIN backlog' = 1..Len(backlog) + 1
        /\ Len(backlog) \in Nat
    <3>1. backlog \in Seq(Client) /\ backlog' \in Seq(Client)
      BY <2>1, AppendProperties DEF TypeOK
    <3>2. Len(backlog') = Len(backlog) + 1 /\ backlog'[Len(backlog) + 1] = c
      BY <2>1, <3>1, AppendProperties
    <3>3. /\ DOMAIN backlog = 1..Len(backlog) /\ DOMAIN backlog' = 1..Len(backlog')
          /\ Len(backlog) \in Nat
      BY <3>1, LenProperties
    <3>4. \A i \in 1..Len(backlog) : backlog'[i] = backlog[i]
      BY <2>1, <3>1, AppendProperties
    <3> QED BY <3>2, <3>3, <3>4
  <2>3. \A i, j \in DOMAIN backlog' : backlog'[i] = backlog'[j] => i = j
    <3> SUFFICES ASSUME NEW i \in DOMAIN backlog', NEW j \in DOMAIN backlog', backlog'[i] = backlog'[j]
                 PROVE  i = j
      OBVIOUS
    <3>1. i \in DOMAIN backlog \/ i = Len(backlog) + 1
      BY <2>2
    <3>2. j \in DOMAIN backlog \/ j = Len(backlog) + 1
      BY <2>2
    <3> QED BY <2>1, <2>2, <3>1, <3>2 DEF OnePlace, Queued
  <2>4. \A d \in Client : Queued(d)' => Queued(d) \/ d = c
    BY <2>2 DEF Queued
  <2>5. \A d \in Client : peer'[d] = "away" => peer[d] = "away" /\ d # c
    BY <2>1 DEF TypeOK
  <2> QED BY <2>1, <2>3, <2>4, <2>5 DEF OnePlace
<1>2. CASE Accept
  <2>1. /\ backlog # <<>> /\ clientSocket' = Head(backlog) /\ backlog' = Tail(backlog)
        /\ UNCHANGED <<thread, peer, texts>>
    BY <1>2 DEF Accept
  <2>2. /\ DOMAIN backlog' = 1..Len(backlog) - 1 /\ DOMAIN backlog = 1..Len(backlog)
        /\ Len(backlog) \in Nat \ {0} /\ clientSocket' = backlog[1]
        /\ \A i \in 1..Len(backlog) - 1 : backlog'[i] = backlog[i + 1]
    BY <2>1, HeadTailProperties, EmptySeq DEF TypeOK
  <2>3. \A i, j \in DOMAIN backlog' : backlog'[i] = backlog'[j] => i = j
    <3> SUFFICES ASSUME NEW i \in DOMAIN backlog', NEW j \in DOMAIN backlog', backlog'[i] = backlog'[j]
                 PROVE  i = j
      OBVIOUS
    <3>1. /\ i \in 1..Len(backlog) - 1 /\ i + 1 \in DOMAIN backlog
          /\ j \in 1..Len(backlog) - 1 /\ j + 1 \in DOMAIN backlog
      BY <2>2
    <3>2. backlog[i + 1] = backlog[j + 1]
      BY <2>2, <3>1
    <3>3. i + 1 = j + 1
      BY <3>1, <3>2 DEF OnePlace
    <3> QED BY <3>1, <3>3
  <2>4. \A d \in Client : Queued(d)' => Queued(d) /\ clientSocket' # d
    BY <2>2 DEF Queued, OnePlace
  <2>5. \A d \in Client : clientSocket' = d => Queued(d)
    <3>1. 1 \in DOMAIN backlog
      BY <2>2
    <3> QED BY <2>2, <3>1 DEF Queued
  <2> QED BY <2>1, <2>3, <2>4, <2>5 DEF OnePlace
<1>3. CASE StartThread
  BY <1>3, KindAssumption DEF StartThread, OnePlace, Queued, TypeOK
<1>4. ASSUME NEW c \in Client, Read(c) \/ Answer(c) \/ AnswerEnds(c) \/ GiveBack(c) PROVE OnePlace'
  <2>1. /\ UNCHANGED <<backlog, clientSocket, texts>>
        /\ \A d \in Client : thread[d] = "none" => thread'[d] = "none"
        /\ \A d \in Client : peer'[d] = "away" => peer[d] = "away"
    BY <1>4 DEF Read, Answer, AnswerEnds, GiveBack, accepting, NextRead, TypeOK
  <2> QED BY <2>1 DEF OnePlace, Queued
<1>5. ASSUME NEW c \in Client, NEW kind \in Kind, Send(c, kind) PROVE OnePlace'
  <2>1. /\ UNCHANGED <<backlog, clientSocket, thread, peer>> /\ peer[c] = "here"
        /\ \A d \in Client : d # c => texts'[d] = texts[d]
    BY <1>5 DEF Send, accepting, TypeOK
  <2> QED BY <2>1 DEF OnePlace, Queued
<1>6. ASSUME NEW c \in Client, Leave(c) PROVE OnePlace'
  <2>1. /\ UNCHANGED <<backlog, clientSocket, thread, texts>>
        /\ \A d \in Client : peer'[d] = "away" => peer[d] = "away"
    BY <1>6 DEF Leave, accepting, TypeOK
  <2> QED BY <2>1 DEF OnePlace, Queued
<1>7. CASE AcceptFails \/ Sleep \/ UNCHANGED vars
  BY <1>7 DEF AcceptFails, Sleep, vars, accepting, OnePlace, Queued
<1> QED BY <1>1, <1>2, <1>3, <1>4, <1>5, <1>6, <1>7 DEF Next, Run, Serve

\* run goes to sleep with every place taken, and the return of a place wakes it.
LEMMA SleepStep == SInv /\ [Next]_vars => SleepsForAPlace'
<1> SUFFICES ASSUME SInv, [Next]_vars, acceptor' = "sleep" PROVE ~HasPlace'
  BY DEF SleepsForAPlace
<1> USE DEF SInv, SleepsForAPlace, HasPlace
<1>1. ASSUME NEW c \in Client, NEW kind \in Kind, Send(c, kind) PROVE ~HasPlace'
  BY <1>1 DEF Send, accepting
<1>2. ASSUME NEW c \in Client, Connect(c) \/ Leave(c) PROVE ~HasPlace'
  BY <1>2 DEF Connect, Leave, accepting
<1>3. ASSUME NEW c \in Client, Serve(c) PROVE ~HasPlace'
  BY <1>3 DEF Serve, Read, Answer, AnswerEnds, GiveBack, Notified, accepting
<1>4. CASE Run \/ AcceptFails \/ UNCHANGED vars
  BY <1>4 DEF Run, Accept, StartThread, Sleep, AcceptFails, vars, accepting
<1> QED BY <1>1, <1>2, <1>3, <1>4 DEF Next

\* Nothing a thread answers gives it a database.
LEMMA NothingStep == SInv /\ [Next]_vars => NothingIsExecuted'
<1> SUFFICES ASSUME SInv, [Next]_vars PROVE NothingIsExecuted'
  OBVIOUS
<1> USE DEF SInv, NothingIsExecuted
<1>1. ASSUME NEW c \in Client, Answer(c) PROVE NothingIsExecuted'
  <2>1. Executed(databases[c], buffer[c]).database = "none"
        /\ Executed(databases[c], buffer[c]).answer \in {Refusal, NoDatabase}
    BY DEF Executed
  <2> QED BY <1>1, <2>1 DEF Answer, TypeOK
<1>2. ASSUME NEW c \in Client, Read(c) PROVE NothingIsExecuted'
  BY <1>2 DEF Read, TypeOK
<1>3. ASSUME UNCHANGED <<databases, said>> PROVE NothingIsExecuted'
  BY <1>3
<1>4. ASSUME NEW c \in Client, AnswerEnds(c) \/ GiveBack(c) \/ Connect(c) \/ Leave(c)
      PROVE  NothingIsExecuted'
  BY <1>3, <1>4 DEF AnswerEnds, GiveBack, Connect, Leave, talking
<1>5. ASSUME NEW c \in Client, NEW kind \in Kind, Send(c, kind) PROVE NothingIsExecuted'
  BY <1>3, <1>5 DEF Send, talking
<1>6. CASE Run \/ AcceptFails \/ UNCHANGED vars
  BY <1>3, <1>6 DEF Run, Accept, StartThread, Sleep, AcceptFails, vars, talking
<1> QED BY <1>1, <1>2, <1>4, <1>5, <1>6 DEF Next, Serve

\* What a read takes and leaves, and what it makes of it.
LEMMA ReadFacts ==
    ASSUME SInv, NEW c \in Client, Read(c)
    PROVE  \E n \in 0..Len(stream[c]) :
            LET pieces == SubSeq(stream[c], 1, n) IN
            /\ pieces \in Seq(Piece) /\ Len(pieces) = n /\ Len(stream[c]) \in Nat
            /\ n > 0 => pieces[1] \in Piece /\ pieces[1] = stream[c][1]
            /\ n = 0 => stream[c] = <<>> /\ peer[c] \in {"left", "reset"}
            /\ stream' = [stream EXCEPT ![c] = SubSeq(stream[c], n + 1, Len(stream[c]))]
            /\ stream'[c] \in Seq(Piece) /\ Len(stream'[c]) = Len(stream[c]) - n
            /\ thread' = [thread EXCEPT ![c] = IF n > 0 THEN "handling" ELSE "leaving"]
            /\ \E kind \in Meanings(pieces) :
                  buffer' = [buffer EXCEPT ![c] = IF n > 0 THEN kind ELSE "empty"]
            /\ stirred' = (stirred \/ ~Whole(pieces))
<1> PICK n \in Readable(c) :
        /\ stream' = [stream EXCEPT ![c] = SubSeq(@, n + 1, Len(@))]
        /\ \E kind \in Meanings(SubSeq(stream[c], 1, n)) :
            buffer' = [buffer EXCEPT ![c] = IF IsText(n) THEN kind ELSE "empty"]
        /\ thread' = [thread EXCEPT ![c] = IF IsText(n) THEN "handling" ELSE "leaving"]
        /\ stirred' = (stirred \/ ~Whole(SubSeq(stream[c], 1, n)))
  BY DEF Read
<1>1. stream[c] \in Seq(Piece) /\ stream \in [Client -> Seq(Piece)] /\ Len(stream[c]) \in Nat
  BY LenProperties DEF SInv, TypeOK
<1>2. n \in 0..Len(stream[c]) /\ (n = 0 => stream[c] = <<>> /\ peer[c] \in {"left", "reset"})
  BY DEF Readable
<1> DEFINE pieces == SubSeq(stream[c], 1, n)
           rest == SubSeq(stream[c], n + 1, Len(stream[c]))
<1>3. /\ pieces \in Seq(Piece) /\ Len(pieces) = n
      /\ rest \in Seq(Piece) /\ Len(rest) = Len(stream[c]) - n
      /\ n > 0 => pieces[1] = stream[c][1]
  BY <1>1, <1>2, ReadStream
<1>4. n > 0 => pieces[1] \in Piece
  BY <1>1, <1>2, <1>3, ElementOfSeq
<1>5. stream' = [stream EXCEPT ![c] = rest] /\ stream'[c] = rest
  BY <1>1
<1> HIDE DEF pieces, rest
<1>6. /\ thread' = [thread EXCEPT ![c] = IF n > 0 THEN "handling" ELSE "leaving"]
      /\ \E kind \in Meanings(pieces) :
            buffer' = [buffer EXCEPT ![c] = IF n > 0 THEN kind ELSE "empty"]
      /\ stirred' = (stirred \/ ~Whole(pieces))
  BY DEF IsText, pieces
<1> QED BY <1>1, <1>2, <1>3, <1>4, <1>5, <1>6 DEF pieces, rest

\* A text has at most two answers.
LEMMA UnansweredStep == SInv /\ [Next]_vars => Unanswered'
<1> SUFFICES ASSUME SInv, [Next]_vars PROVE Unanswered'
  OBVIOUS
<1>1. /\ stream \in [Client -> Seq(Piece)] /\ thread \in [Client -> {"none", "reading", "handling", "leaving"}]
      /\ texts \in [Client -> 0..MaxTexts] /\ answers \in [Client -> Nat]
      /\ \A c \in Client : texts[c] \in Nat /\ Len(stream[c]) \in Nat
      /\ Unanswered
  BY PlacesAssumption, LenProperties DEF SInv, TypeOK
<1>2. ASSUME NEW c \in Client, NEW kind \in Kind, Send(c, kind) PROVE Unanswered'
  <2>1. /\ \A d \in Client \ {c} : stream'[d] = stream[d] /\ texts'[d] = texts[d]
        /\ stream'[c] = stream[c] \o Pieces(kind) /\ texts'[c] = texts[c] + 1
        /\ thread' = thread /\ answers' = answers
    BY <1>1, <1>2 DEF Send, talking
  <2>2. Len(stream'[c]) = Len(stream[c]) + 2
    BY <1>1, <2>1, SentStream
  <2> SUFFICES ASSUME NEW d \in Client
               PROVE  answers'[d] + Len(stream'[d]) + (IF thread'[d] = "handling" THEN 1 ELSE 0)
                        <= 2 * texts'[d]
    BY DEF Unanswered
  <2>9. /\ answers[d] \in Nat /\ texts[d] \in Nat /\ Len(stream[d]) \in Nat
        /\ answers[d] + Len(stream[d]) + (IF thread[d] = "handling" THEN 1 ELSE 0) <= 2 * texts[d]
    BY <1>1 DEF Unanswered
  <2>10. CASE d = c
    <3>1. /\ answers'[d] = answers[d] /\ thread'[d] = thread[d]
          /\ Len(stream'[d]) = Len(stream[d]) + 2 /\ texts'[d] = texts[d] + 1
      BY <2>1, <2>2, <2>10
    <3>2. CASE thread[d] = "handling"
      BY <3>1, <3>2, <2>9
    <3>3. CASE thread[d] # "handling"
      BY <3>1, <3>3, <2>9
    <3> QED BY <3>2, <3>3
  <2>11. CASE d # c
    BY <2>1, <2>9, <2>11
  <2> QED BY <2>10, <2>11
<1>3. ASSUME NEW c \in Client, Read(c) PROVE Unanswered'
  <2>1. PICK n \in 0..Len(stream[c]) :
            /\ Len(stream[c]) \in Nat /\ Len(stream'[c]) = Len(stream[c]) - n
            /\ stream' = [stream EXCEPT ![c] = SubSeq(stream[c], n + 1, Len(stream[c]))]
            /\ thread' = [thread EXCEPT ![c] = IF n > 0 THEN "handling" ELSE "leaving"]
    BY <1>3, ReadFacts
  <2>2. texts' = texts /\ answers' = answers /\ thread[c] = "reading"
    BY <1>3 DEF Read
  <2>3. \A d \in Client \ {c} : stream'[d] = stream[d] /\ thread'[d] = thread[d]
    BY <1>1, <2>1
  <2>4. Len(stream'[c]) + (IF thread'[c] = "handling" THEN 1 ELSE 0) <= Len(stream[c])
    BY <1>1, <2>1
  <2> SUFFICES ASSUME NEW d \in Client
               PROVE  answers'[d] + Len(stream'[d]) + (IF thread'[d] = "handling" THEN 1 ELSE 0)
                        <= 2 * texts'[d]
    BY DEF Unanswered
  <2>9. /\ answers[d] \in Nat /\ texts[d] \in Nat /\ Len(stream[d]) \in Nat
        /\ answers[d] + Len(stream[d]) + (IF thread[d] = "handling" THEN 1 ELSE 0) <= 2 * texts[d]
    BY <1>1 DEF Unanswered
  <2>10. CASE d = c
    BY <2>1, <2>2, <2>4, <2>9, <2>10
  <2>11. CASE d # c
    BY <2>2, <2>3, <2>9, <2>11
  <2> QED BY <2>10, <2>11
<1>4. ASSUME NEW c \in Client, Answer(c) PROVE Unanswered'
  <2>1. /\ stream' = stream /\ texts' = texts /\ thread[c] = "handling" /\ thread'[c] = "reading"
        /\ answers'[c] = answers[c] + 1
        /\ \A d \in Client \ {c} : answers'[d] = answers[d] /\ thread'[d] = thread[d]
    BY <1>1, <1>4 DEF Answer, NextRead
  <2> SUFFICES ASSUME NEW d \in Client
               PROVE  answers'[d] + Len(stream'[d]) + (IF thread'[d] = "handling" THEN 1 ELSE 0)
                        <= 2 * texts'[d]
    BY DEF Unanswered
  <2>9. /\ answers[d] \in Nat /\ texts[d] \in Nat /\ Len(stream[d]) \in Nat
        /\ answers[d] + Len(stream[d]) + (IF thread[d] = "handling" THEN 1 ELSE 0) <= 2 * texts[d]
    BY <1>1 DEF Unanswered
  <2>10. CASE d = c
    BY <2>1, <2>9, <2>10
  <2>11. CASE d # c
    BY <2>1, <2>9, <2>11
  <2> QED BY <2>10, <2>11
<1>5. ASSUME UNCHANGED <<stream, texts, answers>>,
             \A d \in Client : thread'[d] = "handling" => thread[d] = "handling"
      PROVE  Unanswered'
  BY <1>1, <1>5 DEF Unanswered
<1>6. ASSUME NEW c \in Client, GiveBack(c) \/ AnswerEnds(c) \/ Connect(c) \/ Leave(c) PROVE Unanswered'
  BY <1>1, <1>5, <1>6 DEF GiveBack, AnswerEnds, Connect, Leave, talking
<1>7. CASE Run \/ AcceptFails \/ UNCHANGED vars
  BY <1>1, <1>5, <1>7 DEF Run, Accept, StartThread, Sleep, AcceptFails, vars, talking
<1> QED BY <1>2, <1>3, <1>4, <1>6, <1>7 DEF Next, Serve

\* Every step keeps the types.
LEMMA TypeStep == SInv /\ [Next]_vars => TypeOK'
<1> SUFFICES ASSUME SInv, [Next]_vars PROVE TypeOK'
  OBVIOUS
<1>1. active_threads' \in 0..Cardinality(Client)
  BY PlacesStep
<1> USE DEF TypeOK
<1>3. TypeOK /\ MaxTexts \in Nat /\ numOfThreads \in Nat /\ Nobody \notin Client
  BY PlacesAssumption, KindAssumption DEF SInv
<1>4. ASSUME NEW c \in Client, Connect(c) PROVE TypeOK'
  <2>1. backlog' \in Seq(Client)
    BY <1>3, <1>4, AppendProperties DEF Connect
  <2> QED BY <1>1, <1>3, <1>4, <2>1 DEF Connect, talking
<1>5. ASSUME NEW c \in Client, NEW kind \in Kind, Send(c, kind) PROVE TypeOK'
  <2>1. stream[c] \o Pieces(kind) \in Seq(Piece)
    BY <1>3, SentStream
  <2>2. stream' \in [Client -> Seq(Piece)] /\ texts' \in [Client -> 0..MaxTexts]
        /\ \A d \in Client : answers'[d] <= 2 * texts'[d]
    <3>1. /\ stream' = [stream EXCEPT ![c] = @ \o Pieces(kind)]
          /\ texts[c] < MaxTexts /\ texts' = [texts EXCEPT ![c] = @ + 1] /\ answers' = answers
      BY <1>5 DEF Send, talking
    <3>2. stream' \in [Client -> Seq(Piece)]
      BY <1>3, <2>1, <3>1
    <3>3. \A d \in Client : texts[d] \in 0..MaxTexts /\ answers[d] <= 2 * texts[d]
      BY <1>3
    <3>4. texts' \in [Client -> 0..MaxTexts] /\ \A d \in Client : texts'[d] >= texts[d]
      <4>1. \A d \in Client : texts[d] \in 0..MaxTexts /\ texts'[d] = IF d = c THEN texts[c] + 1 ELSE texts[d]
        BY <1>3, <3>1
      <4>2. texts[c] + 1 \in 0..MaxTexts
        BY <1>3, <3>1, <4>1
      <4>3. texts' \in [Client -> 0..MaxTexts]
        BY <1>3, <3>1, <4>2
      <4>4. ASSUME NEW d \in Client PROVE texts'[d] >= texts[d]
        <5>1. texts[d] \in Int /\ texts[c] \in Int
          BY <4>1
        <5>2. texts'[d] = texts[d] \/ texts'[d] = texts[d] + 1
          BY <4>1
        <5> QED BY <5>1, <5>2
      <4> QED BY <4>3, <4>4
    <3>5. ASSUME NEW d \in Client PROVE answers'[d] <= 2 * texts'[d]
      <4>1. /\ answers[d] \in Nat /\ texts[d] \in Nat /\ texts'[d] \in Nat
            /\ answers'[d] = answers[d]
        BY <1>3, <3>1, <3>4
      <4> QED BY <3>3, <3>4, <4>1
    <3> QED BY <3>2, <3>4, <3>5
  <2> QED BY <1>1, <1>3, <1>5, <2>2 DEF Send, talking, accepting
<1>6. ASSUME NEW c \in Client, Leave(c) PROVE TypeOK'
  BY <1>1, <1>3, <1>6 DEF Leave, talking, accepting
<1>7. ASSUME Accept PROVE TypeOK'
  <2>1. backlog' \in Seq(Client) /\ clientSocket' \in Client
    BY <1>3, <1>7, HeadTailProperties DEF Accept
  <2> QED BY <1>1, <1>3, <1>7, <2>1 DEF Accept, talking
<1>8. CASE StartThread \/ Sleep \/ AcceptFails
  BY <1>1, <1>3, <1>8 DEF StartThread, Sleep, AcceptFails, talking, accepting
<1>9. ASSUME NEW c \in Client, Read(c) PROVE TypeOK'
  <2>1. PICK n \in 0..Len(stream[c]) :
            LET pieces == SubSeq(stream[c], 1, n) IN
            /\ n > 0 => pieces[1] \in Piece
            /\ stream' = [stream EXCEPT ![c] = SubSeq(stream[c], n + 1, Len(stream[c]))]
            /\ stream'[c] \in Seq(Piece)
            /\ thread' = [thread EXCEPT ![c] = IF n > 0 THEN "handling" ELSE "leaving"]
            /\ \E kind \in Meanings(pieces) :
                  buffer' = [buffer EXCEPT ![c] = IF n > 0 THEN kind ELSE "empty"]
            /\ stirred' = (stirred \/ ~Whole(pieces))
    BY <1>9, ReadFacts
  <2>2. stream' \in [Client -> Seq(Piece)]
    BY <1>3, <2>1
  <2>3. buffer' \in [Client -> {"empty", "garbled"} \cup Kind]
    BY <1>3, <2>1 DEF Meanings, Piece
  <2>4. stirred' \in BOOLEAN
    BY <1>9, <1>3 DEF Read
  <2> QED BY <1>1, <1>3, <1>9, <2>1, <2>2, <2>3, <2>4 DEF Read, accepting
<1>10. ASSUME NEW c \in Client, Answer(c) PROVE TypeOK'
  <2>1. /\ Executed(databases[c], buffer[c]).database \in {"none", "open"}
        /\ Executed(databases[c], buffer[c]).answer \in {"nothing", "output", Refusal, NoDatabase}
    BY <1>3 DEF Executed
  <2>2. \A d \in Client : answers'[d] <= 2 * texts'[d]
    <3> SUFFICES ASSUME NEW d \in Client PROVE answers'[d] <= 2 * texts'[d]
      OBVIOUS
    <3>1. /\ stream' = stream /\ texts' = texts /\ thread[c] = "handling"
          /\ answers' = [answers EXCEPT ![c] = @ + 1]
      BY <1>10 DEF Answer
    <3>2. /\ answers[d] \in Nat /\ texts[d] \in Nat /\ Len(stream[d]) \in Nat
          /\ answers[d] + Len(stream[d]) + (IF thread[d] = "handling" THEN 1 ELSE 0) <= 2 * texts[d]
      BY <1>3, LenProperties DEF SInv, Unanswered
    <3>3. CASE d = c
      <4>1. answers'[d] = answers[d] + 1
        BY <1>3, <3>1, <3>3
      <4>2. answers[d] + Len(stream[d]) + 1 <= 2 * texts[d]
        BY <3>1, <3>2, <3>3
      <4> QED BY <3>1, <3>2, <4>1, <4>2
    <3>4. CASE d # c
      BY <1>3, <3>1, <3>2, <3>4
    <3> QED BY <3>3, <3>4
  <2>3. /\ databases' \in [Client -> {"none", "open"}]
        /\ said' \in [Client -> {"nothing", "output", Refusal, NoDatabase}]
    BY <1>3, <1>10, <2>1 DEF Answer
  <2> QED BY <1>1, <1>3, <1>10, <2>2, <2>3 DEF Answer, NextRead, accepting
<1>11. ASSUME NEW c \in Client, AnswerEnds(c) \/ GiveBack(c) PROVE TypeOK'
  BY <1>1, <1>3, <1>11 DEF AnswerEnds, GiveBack, Notified, talking, accepting
<1>12. CASE UNCHANGED vars
  BY <1>1, <1>3, <1>12 DEF vars
<1> QED BY <1>4, <1>5, <1>6, <1>7, <1>8, <1>9, <1>10, <1>11, <1>12 DEF Next, Run, Serve

\* A client that waits is served by every step, or stirs.
LEMMA CalmStep == SInv /\ [Next]_vars => AllCalm'
<1> SUFFICES ASSUME SInv, [Next]_vars, ~stirred' PROVE up' /\ \A d \in Client : Calm(d)'
  BY DEF AllCalm
<1>1. /\ TypeOK /\ OnePlace /\ NothingIsExecuted
      /\ stirred = FALSE => up /\ \A d \in Client : Calm(d)
  BY DEF SInv, AllCalm
<1>2. stream \in [Client -> Seq(Piece)] /\ texts \in [Client -> 0..MaxTexts] /\ answers \in [Client -> Nat]
      /\ thread \in [Client -> {"none", "reading", "handling", "leaving"}]
      /\ peer \in [Client -> {"away", "here", "left", "reset"}]
      /\ MaxTexts \in Nat /\ stirred \in BOOLEAN
  BY <1>1, PlacesAssumption DEF TypeOK
\* What is the same for d leaves it as calm as it was.
<1>3. ASSUME NEW d \in Client, Calm(d),
             stream'[d] = stream[d], buffer'[d] = buffer[d], texts'[d] = texts[d],
             answers'[d] = answers[d], thread'[d] = "handling" <=> thread[d] = "handling",
             peer'[d] = peer[d]
      PROVE  Calm(d)'
  BY <1>3 DEF Calm
<1>4. ASSUME NEW c \in Client, Connect(c) PROVE up' /\ \A d \in Client : Calm(d)'
  <2>1. /\ up' = up /\ stirred' = stirred /\ peer[c] = "away" /\ peer' = [peer EXCEPT ![c] = "here"]
        /\ UNCHANGED <<stream, buffer, texts, answers, thread>>
    BY <1>4 DEF Connect, talking
  <2>2. up /\ \A d \in Client : Calm(d)
    BY <1>1, <2>1
  <2>3. Calm(c)'
    BY <1>2, <2>1, <2>2 DEF Calm
  <2>4. ASSUME NEW d \in Client, d # c PROVE Calm(d)'
    BY <1>2, <1>3, <2>1, <2>2, <2>4
  <2> QED BY <2>1, <2>2, <2>3, <2>4
<1>5. ASSUME NEW c \in Client, NEW kind \in Kind, Send(c, kind)
      PROVE  up' /\ \A d \in Client : Calm(d)'
  <2>1. /\ up' = up /\ ~stirred /\ ~Owed(c) /\ kind \notin {"fatal", "endless"} /\ peer[c] = "here"
        /\ stream' = [stream EXCEPT ![c] = stream[c] \o Pieces(kind)]
        /\ texts' = [texts EXCEPT ![c] = texts[c] + 1]
        /\ UNCHANGED <<buffer, answers, thread, peer>>
    BY <1>2, <1>5 DEF Send, talking
  <2>2. up /\ \A d \in Client : Calm(d)
    BY <1>1, <2>1
  <2>3. texts[c] \in Nat /\ answers[c] \in Nat
    BY <1>2
  <2>4. stream[c] = <<>> /\ thread[c] # "handling" /\ texts[c] = answers[c]
    BY <2>1, <2>2, <2>3 DEF Calm, Owed
  <2>5. stream'[c] = Pieces(kind) /\ stream'[c] # <<>>
    BY <1>2, <2>1, <2>4, SentStream
  <2>6. Calm(c)'
    BY <1>2, <2>1, <2>4, <2>5 DEF Calm
  <2>7. ASSUME NEW d \in Client, d # c PROVE Calm(d)'
    BY <1>2, <1>3, <2>1, <2>2, <2>7
  <2> QED BY <2>1, <2>2, <2>6, <2>7
<1>6. ASSUME NEW c \in Client, Leave(c) PROVE up' /\ \A d \in Client : Calm(d)'
  <2>1. /\ up' = up /\ ~stirred /\ ~Owed(c) /\ peer' = [peer EXCEPT ![c] = "left"]
        /\ UNCHANGED <<stream, buffer, texts, answers, thread>>
    BY <1>2, <1>6 DEF Leave, talking
  <2>2. up /\ \A d \in Client : Calm(d)
    BY <1>1, <2>1
  <2>3. texts[c] \in Nat /\ answers[c] \in Nat
    BY <1>2
  <2>4. stream[c] = <<>> /\ thread[c] # "handling" /\ texts[c] = answers[c]
    BY <2>1, <2>2, <2>3 DEF Calm, Owed
  <2>5. Calm(c)'
    BY <1>2, <2>1, <2>4 DEF Calm
  <2>6. ASSUME NEW d \in Client, d # c PROVE Calm(d)'
    BY <1>2, <1>3, <2>1, <2>2, <2>6
  <2> QED BY <2>1, <2>2, <2>5, <2>6
<1>7. ASSUME NEW c \in Client, Read(c) PROVE up' /\ \A d \in Client : Calm(d)'
  <2>1. PICK n \in 0..Len(stream[c]) :
            LET pieces == SubSeq(stream[c], 1, n) IN
            /\ Len(pieces) = n /\ pieces \in Seq(Piece)
            /\ n > 0 => pieces[1] = stream[c][1]
            /\ n = 0 => stream[c] = <<>> /\ peer[c] \in {"left", "reset"}
            /\ Len(stream[c]) \in Nat /\ Len(stream'[c]) = Len(stream[c]) - n
            /\ stream' = [stream EXCEPT ![c] = SubSeq(stream[c], n + 1, Len(stream[c]))]
            /\ stream'[c] \in Seq(Piece)
            /\ thread' = [thread EXCEPT ![c] = IF n > 0 THEN "handling" ELSE "leaving"]
            /\ \E kind \in Meanings(pieces) :
                  buffer' = [buffer EXCEPT ![c] = IF n > 0 THEN kind ELSE "empty"]
            /\ stirred' = (stirred \/ ~Whole(pieces))
    BY <1>1, <1>7, ReadFacts DEF SInv
  <2>2. /\ up /\ up' /\ ~stirred /\ thread[c] = "reading"
        /\ \A d \in Client : Calm(d)
        /\ UNCHANGED <<peer, answers, texts>>
    BY <1>1, <1>2, <1>7, <2>1 DEF Read
  <2>3. \A d \in Client \ {c} : buffer'[d] = buffer[d] /\ stream'[d] = stream[d]
                                /\ thread'[d] = thread[d]
    BY <1>1, <1>2, <2>1 DEF TypeOK
  <2>4. ASSUME NEW d \in Client, d # c PROVE Calm(d)'
    BY <1>3, <2>2, <2>3, <2>4
  <2>5. ASSUME n = 0 PROVE Calm(c)'
    <3>1. stream[c] = <<>> /\ Len(stream'[c]) = 0 /\ peer[c] \in {"left", "reset"}
      BY <2>1, <2>5, EmptySeq
    <3>2. stream'[c] = <<>>
      BY <2>1, <3>1, EmptySeq
    <3>3. thread'[c] = "leaving"
      BY <1>2, <2>1, <2>5
    <3>4. texts'[c] = answers'[c] + 0
      <4>1. texts[c] = answers[c] + (IF stream[c] # <<>> \/ thread[c] = "handling" THEN 1 ELSE 0)
        BY <2>2 DEF Calm
      <4> QED BY <2>2, <3>1, <4>1
    <3>5. texts'[c] = answers'[c] + (IF stream'[c] # <<>> \/ thread'[c] = "handling" THEN 1 ELSE 0)
      BY <3>2, <3>3, <3>4
    <3>6. thread'[c] # "handling"
      BY <3>3
    <3> QED BY <3>2, <3>5, <3>6 DEF Calm
  <2>6. ASSUME n > 0 PROVE Calm(c)'
    <3> DEFINE pieces == SubSeq(stream[c], 1, n)
    <3>1. Len(pieces) > 0 /\ pieces # <<>> /\ pieces[1] = stream[c][1] /\ stream[c] # <<>>
      BY <2>1, <2>6, EmptySeq
    <3>2. PICK kind \in Kind \ {"fatal", "endless"} : stream[c] = Pieces(kind)
      BY <2>2, <3>1 DEF Calm
    <3>3. pieces[1] = [kind |-> kind, part |-> 1] /\ Len(stream[c]) = 2
      BY <3>1, <3>2 DEF Pieces
    <3>4. pieces = Pieces(kind)
      <4>1. Whole(pieces)
        BY <2>1, <2>2
      <4> QED BY <3>1, <3>3, <4>1 DEF Whole
    <3>5. n = 2
      BY <2>1, <3>4 DEF Pieces
    <3>6. stream'[c] = <<>>
      BY <2>1, <3>3, <3>5, EmptySeq
    <3>7. thread'[c] = "handling" /\ buffer'[c] = kind
      BY <1>1, <1>2, <2>1, <2>6, <3>1, <3>3, <3>5 DEF Meanings, TypeOK
    <3>8. peer'[c] = "here"
      BY <1>1, <1>2, <2>2, <3>1 DEF Calm, OnePlace
    <3>9. kind \in {"use", "select", "garbled"}
      BY KindAssumption
    <3>10. texts'[c] = answers'[c] + 1
      <4>1. texts[c] = answers[c] + (IF stream[c] # <<>> \/ thread[c] = "handling" THEN 1 ELSE 0)
        BY <2>2 DEF Calm
      <4> QED BY <2>2, <3>1, <4>1
    <3>11. texts'[c] = answers'[c] + (IF stream'[c] # <<>> \/ thread'[c] = "handling" THEN 1 ELSE 0)
      BY <3>7, <3>10
    <3>12. buffer'[c] \in {"use", "select", "garbled"}
      BY <3>7, <3>9
    <3> QED BY <3>6, <3>8, <3>11, <3>12 DEF Calm
  <2>7. Calm(c)'
    BY <2>1, <2>5, <2>6
  <2> QED BY <2>2, <2>4, <2>7
<1>8. ASSUME NEW c \in Client, Answer(c) PROVE up' /\ \A d \in Client : Calm(d)'
  <2>1. /\ up' = up /\ stirred' = stirred /\ thread[c] = "handling"
        /\ UNCHANGED <<stream, texts>>
        /\ answers' = [answers EXCEPT ![c] = @ + 1]
        /\ peer' = [peer EXCEPT ![c] = IF @ = "left" THEN "reset" ELSE @]
        /\ thread' = [thread EXCEPT ![c] = "reading"]
        /\ buffer' = [buffer EXCEPT ![c] = "empty"]
    BY <1>8 DEF Answer, NextRead
  <2>2. up /\ \A d \in Client : Calm(d)
    BY <1>1, <2>1
  <2>3. stream[c] = <<>> /\ peer[c] = "here" /\ texts[c] = answers[c] + 1
    BY <2>1, <2>2 DEF Calm
  <2>4. Calm(c)'
    BY <1>2, <2>1, <2>3 DEF Calm
  <2>5. ASSUME NEW d \in Client, d # c PROVE Calm(d)'
    BY <1>1, <1>2, <1>3, <2>1, <2>2, <2>5 DEF TypeOK
  <2> QED BY <2>1, <2>2, <2>4, <2>5
<1>9. ASSUME NEW c \in Client, AnswerEnds(c) PROVE FALSE
  <2>1. ~stirred /\ thread[c] = "handling"
        /\ (buffer[c] = "fatal" \/ (buffer[c] # "endless" /\ peer[c] = "reset"))
    BY <1>9 DEF AnswerEnds
  <2>2. Calm(c)
    BY <1>1, <2>1
  <2> QED BY <2>1, <2>2 DEF Calm
<1>10. ASSUME NEW c \in Client, GiveBack(c) PROVE up' /\ \A d \in Client : Calm(d)'
  <2>1. /\ up' = up /\ stirred' = stirred /\ thread[c] = "leaving" /\ thread' = [thread EXCEPT ![c] = "none"]
        /\ UNCHANGED <<stream, buffer, texts, answers, peer>>
    BY <1>10 DEF GiveBack, talking
  <2> QED BY <1>1, <1>2, <1>3, <2>1
<1>11. CASE StartThread
  <2>1. /\ up' = up /\ stirred' = stirred
        /\ clientSocket \in Client /\ thread[clientSocket] = "none"
        /\ thread' = [thread EXCEPT ![clientSocket] = "reading"]
        /\ UNCHANGED <<stream, buffer, texts, answers, peer>>
    BY <1>1, <1>11 DEF StartThread, talking, TypeOK, OnePlace
  <2> QED BY <1>1, <1>2, <1>3, <2>1
<1>12. CASE Accept \/ Sleep \/ UNCHANGED vars
  <2>1. UNCHANGED <<up, stirred, stream, buffer, texts, answers, thread, peer>>
    BY <1>12 DEF Accept, Sleep, vars, talking
  <2> QED BY <1>1, <1>3, <2>1
<1>13. CASE AcceptFails
  BY <1>13 DEF AcceptFails
<1> QED BY <1>4, <1>5, <1>6, <1>7, <1>8, <1>9, <1>10, <1>11, <1>12, <1>13 DEF Next, Run, Serve

-----------------------------------------------------------------------------
(* The theorems *)

\* Every reachable state of the server satisfies the invariant.
LEMMA Invariance == Spec => []SInv
<1>1. SInv /\ [Next]_vars => SInv'
  BY TypeStep, OnePlaceStep, PlacesStep, UnansweredStep, SleepStep, NothingStep, CalmStep DEF SInv
<1> QED BY InitInv, <1>1, PTL DEF Spec

\* The server keeps its types, and a text has never more than two answers.
THEOREM TypeCorrect == Spec => []TypeOK
<1>1. SInv => TypeOK
  BY DEF SInv
<1> QED BY <1>1, Invariance, PTL

\* active_threads is the number of threads, and within the limit, for any
\* number of clients, places and texts.
THEOREM PlacesCounted == Spec => []PlacesAreCounted
<1>1. SInv => PlacesAreCounted
  BY DEF SInv
<1> QED BY <1>1, Invariance, PTL

\* No return of a place is slept through: run sleeps only while all are taken.
THEOREM NoReturnMissed == Spec => []SleepsForAPlace
<1>1. SInv => SleepsForAPlace
  BY DEF SInv
<1> QED BY <1>1, Invariance, PTL

\* No thread has a database and no statement is executed.
THEOREM NothingExecuted == Spec => []NothingIsExecuted
<1>1. SInv => NothingIsExecuted
  BY DEF SInv
<1> QED BY <1>1, Invariance, PTL

\* Clients that wait for their answers have one answer for each text.
THEOREM CalmServed == Spec => []CalmIsServed
<1>1. SInv => CalmIsServed
  BY DEF SInv, AllCalm, Calm, CalmIsServed
<1> QED BY <1>1, Invariance, PTL

=============================================================================
