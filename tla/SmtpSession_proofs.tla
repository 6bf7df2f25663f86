-------------------------- MODULE SmtpSession_proofs --------------------------
(***************************************************************************)
(* A session takes the answer to one command for the answer to another, and*)
(* reports as sent what the server has not taken, only from the moment on  *)
(* that it has read the rest of a line as a line.  The argument is about   *)
(* one sequence, what the server has said and the session not yet taken:   *)
(* a chunk moves pieces from the wire to the buffer and leaves the sequence*)
(* as it is.                                                               *)
(***************************************************************************)
EXTENDS SmtpSession, Integers, SequenceTheorems, WellFoundedInduction, TLAPS

(* The dialogue *)

Commands == {"GREETING", "EHLO", "STARTTLS", "AUTH", "MAIL", "RCPT", "DATA", "BODY", "QUIT"}

LEMMA Scripts ==
    ASSUME secure \in BOOLEAN
    PROVE  LET up == IF secure THEN 0 ELSE 2
           IN /\ Len(Script) = 8 + up
              /\ Script[1] = "GREETING" /\ Script[2] = "EHLO"
              /\ ~secure => Script[3] = "STARTTLS" /\ Script[4] = "EHLO"
              /\ Script[3 + up] = "AUTH" /\ Script[4 + up] = "MAIL" /\ Script[5 + up] = "RCPT"
              /\ Script[6 + up] = "DATA" /\ Script[7 + up] = "BODY" /\ Script[8 + up] = "QUIT"
<1> DEFINE start == <<"GREETING", "EHLO">>
           tls  == IF secure THEN <<>> ELSE <<"STARTTLS", "EHLO">>
           rest == <<"AUTH", "MAIL", "RCPT", "DATA", "BODY", "QUIT">>
           up == IF secure THEN 0 ELSE 2
<1>1. /\ start \in Seq(Commands) /\ Len(start) = 2
      /\ start[1] = "GREETING" /\ start[2] = "EHLO"
  BY DEF Commands
<1>2. /\ tls \in Seq(Commands) /\ Len(tls) = up /\ up \in {0, 2}
      /\ ~secure => up = 2 /\ tls[1] = "STARTTLS" /\ tls[2] = "EHLO"
  <2>1. CASE secure
    BY <2>1
  <2>2. CASE ~secure
    <3>1. <<"STARTTLS", "EHLO">> \in Seq(Commands)
      BY DEF Commands
    <3>2. QED
      BY <2>2, <3>1
  <2>3. QED
    BY <2>1, <2>2
<1>3. /\ rest \in Seq(Commands) /\ Len(rest) = 6
      /\ rest[1] = "AUTH" /\ rest[2] = "MAIL" /\ rest[3] = "RCPT"
      /\ rest[4] = "DATA" /\ rest[5] = "BODY" /\ rest[6] = "QUIT"
  BY DEF Commands
<1>4. Script = (start \o tls) \o rest
  BY DEF Script
<1> HIDE DEF start, tls, rest, up
<1>5. /\ start \o tls \in Seq(Commands) /\ Len(start \o tls) = 2 + up
      /\ \A i \in 1 .. 2 + up :
            (start \o tls)[i] = IF i <= 2 THEN start[i] ELSE tls[i - 2]
  <2>1. /\ start \o tls \in Seq(Commands) /\ Len(start \o tls) = Len(start) + Len(tls)
        /\ \A i \in 1 .. Len(start) + Len(tls) :
              (start \o tls)[i] = IF i <= Len(start) THEN start[i] ELSE tls[i - Len(start)]
    BY <1>1, <1>2, ConcatProperties
  <2>2. QED
    BY <1>1, <1>2, <2>1
<1>6. /\ Len(Script) = 2 + up + 6
      /\ \A i \in 1 .. 2 + up + 6 :
            Script[i] = IF i <= 2 + up THEN (start \o tls)[i] ELSE rest[i - (2 + up)]
  <2> DEFINE a == start \o tls
  <2>1. a \in Seq(Commands) /\ Len(a) = 2 + up /\ Script = a \o rest
    BY <1>4, <1>5
  <2> HIDE DEF a
  <2>2. /\ Len(a \o rest) = Len(a) + Len(rest)
        /\ \A i \in 1 .. Len(a) + Len(rest) :
              (a \o rest)[i] = IF i <= Len(a) THEN a[i] ELSE rest[i - Len(a)]
    BY <1>3, <2>1, ConcatProperties
  <2>3. /\ Len(Script) = 2 + up + 6
        /\ \A i \in 1 .. 2 + up + 6 :
              Script[i] = IF i <= 2 + up THEN a[i] ELSE rest[i - (2 + up)]
    BY <1>3, <2>1, <2>2
  <2>4. QED
    BY <2>3 DEF a
<1>7. Script[1] = "GREETING" /\ Script[2] = "EHLO"
  BY <1>1, <1>2, <1>5, <1>6
<1>8. ~secure => Script[3] = "STARTTLS" /\ Script[4] = "EHLO"
  BY <1>2, <1>5, <1>6
<1>9. /\ Script[3 + up] = "AUTH" /\ Script[4 + up] = "MAIL" /\ Script[5 + up] = "RCPT"
      /\ Script[6 + up] = "DATA" /\ Script[7 + up] = "BODY" /\ Script[8 + up] = "QUIT"
  BY <1>2, <1>3, <1>6
<1>10. Len(Script) = 8 + up
  BY <1>2, <1>6
<1>11. QED
  BY <1>7, <1>8, <1>9, <1>10 DEF up

LEMMA ScriptShape ==
    ASSUME secure \in BOOLEAN
    PROVE  /\ Len(Script) \in Nat /\ Len(Script) > 1
           /\ \A s \in 1 .. Len(Script) : Command(s) \in Commands
           /\ Command(1) = "GREETING"
           /\ Command(Len(Script)) = "QUIT"
           /\ \A s \in 1 .. Len(Script) :
                 s + 1 \in 1 .. Len(Script) /\ Command(s + 1) = "QUIT" => Command(s) = "BODY"
<1>1. CASE secure
  <2>1. /\ Len(Script) = 8
        /\ Script[1] = "GREETING" /\ Script[2] = "EHLO" /\ Script[3] = "AUTH" /\ Script[4] = "MAIL"
        /\ Script[5] = "RCPT" /\ Script[6] = "DATA" /\ Script[7] = "BODY" /\ Script[8] = "QUIT"
    BY <1>1, Scripts
  <2>2. QED
    BY <2>1 DEF Command, Commands
<1>2. CASE ~secure
  <2>1. /\ Len(Script) = 10
        /\ Script[1] = "GREETING" /\ Script[2] = "EHLO" /\ Script[3] = "STARTTLS"
        /\ Script[4] = "EHLO" /\ Script[5] = "AUTH" /\ Script[6] = "MAIL" /\ Script[7] = "RCPT"
        /\ Script[8] = "DATA" /\ Script[9] = "BODY" /\ Script[10] = "QUIT"
    BY <1>2, Scripts
  <2>2. QED
    BY <2>1 DEF Command, Commands
<1>3. QED
  BY <1>1, <1>2

\* The client never expects a 421, and takes 250 alone for an answer to the body.
LEMMA Expected ==
    ASSUME secure \in BOOLEAN, NEW s \in 1 .. Len(Script)
    PROVE  /\ expectedCodes(s) \subseteq Nat \ {0, 421}
           /\ Command(s) = "BODY" => expectedCodes(s) = {250}
<1>1. Command(s) \in Commands
  BY ScriptShape
<1>2. QED
  BY <1>1 DEF expectedCodes, Commands

-----------------------------------------------------------------------------
(* The stream *)

\* A chunk changes nothing in the stream.
LEMMA ChunkKeepsStream ==
    ASSUME buffer \in Seq(Piece), wire \in Seq(Piece), NEW n \in 1 .. Len(wire)
    PROVE  LET b == buffer \o SubSeq(wire, 1, n)
               w == SubSeq(wire, n + 1, Len(wire))
           IN /\ b \in Seq(Piece) /\ w \in Seq(Piece)
              /\ b \o w = Stream
<1> DEFINE c == SubSeq(wire, 1, n)
           w == SubSeq(wire, n + 1, Len(wire))
<1>1. c \in Seq(Piece) /\ w \in Seq(Piece)
  OBVIOUS
<1>2. c \o w = wire
  <2>1. n \in Nat /\ Len(wire) \in Nat /\ 1 <= n /\ n <= Len(wire)
    BY LenProperties
  <2>2. 1 \in 1 .. Len(wire) + 1 /\ n \in 1 - 1 .. Len(wire) /\ Len(wire) \in n .. Len(wire)
    BY <2>1
  <2>3. SubSeq(wire, 1, n) \o SubSeq(wire, n + 1, Len(wire)) = SubSeq(wire, 1, Len(wire))
    BY <2>2, ConcatAdjacentSubSeq
  <2>4. QED
    BY <2>3, SubSeqFull
<1> HIDE DEF c, w
<1>3. (buffer \o c) \o w = buffer \o (c \o w)
  <2>1. \A x, y, z \in Seq(Piece) : (x \o y) \o z = x \o (y \o z)
    BY ConcatAssociative
  <2>2. QED
    BY <1>1, <2>1
<1>4. buffer \o c \in Seq(Piece)
  BY <1>1, ConcatProperties
<1>5. QED
  BY <1>1, <1>2, <1>3, <1>4 DEF c, w, Stream

\* What is left of a stream when k pieces of the buffer are taken.
LEMMA TakenFromStream ==
    ASSUME NEW b \in Seq(Piece), NEW w \in Seq(Piece), NEW k \in 0 .. Len(b)
    PROVE  LET d == SubSeq(b, k + 1, Len(b))
           IN /\ d \in Seq(Piece)
              /\ Len(d \o w) = Len(b \o w) - k
              /\ \A i \in 1 .. Len(d \o w) : (d \o w)[i] = (b \o w)[i + k]
<1> DEFINE d == SubSeq(b, k + 1, Len(b))
<1>1. Len(b) \in Nat /\ Len(w) \in Nat /\ k \in Nat /\ k <= Len(b)
  BY LenProperties
<1>2. /\ d \in Seq(Piece) /\ Len(d) = Len(b) - k
      /\ \A i \in 1 .. Len(d) : d[i] = b[i + k]
  <2>1. \A i \in (k + 1) .. Len(b) : b[i] \in Piece
    BY <1>1, ElementOfSeq
  <2>2. k + 1 \in Int /\ Len(b) \in Int
    BY <1>1
  <2>3. /\ d \in Seq(Piece)
        /\ Len(d) = IF k + 1 <= Len(b) THEN Len(b) - (k + 1) + 1 ELSE 0
        /\ \A i \in 1 .. Len(b) - (k + 1) + 1 : d[i] = b[k + 1 + i - 1]
    BY <2>1, <2>2, SubSeqProperties
  <2> HIDE DEF d
  <2>4. Len(d) = Len(b) - k
    BY <1>1, <2>3
  <2>5. QED
    BY <1>1, <2>3, <2>4
<1> HIDE DEF d
<1>3. /\ Len(d \o w) = Len(d) + Len(w)
      /\ \A i \in 1 .. Len(d) + Len(w) : (d \o w)[i] = IF i <= Len(d) THEN d[i] ELSE w[i - Len(d)]
  BY <1>2, ConcatProperties
<1>4. /\ Len(b \o w) = Len(b) + Len(w)
      /\ \A i \in 1 .. Len(b) + Len(w) : (b \o w)[i] = IF i <= Len(b) THEN b[i] ELSE w[i - Len(b)]
  BY ConcatProperties
<1>5. \A i \in 1 .. Len(d \o w) : (d \o w)[i] = (b \o w)[i + k]
  <2> SUFFICES ASSUME NEW i \in 1 .. Len(d) + Len(w) PROVE (d \o w)[i] = (b \o w)[i + k]
    BY <1>3
  <2>1. i + k \in 1 .. Len(b) + Len(w)
    BY <1>1, <1>2
  <2>2. CASE i <= Len(d)
    BY <1>1, <1>2, <1>3, <1>4, <2>1, <2>2
  <2>3. CASE i > Len(d)
    <3>1. i - Len(d) = i + k - Len(b) /\ i + k > Len(b)
      BY <1>1, <1>2, <2>3
    <3>2. (d \o w)[i] = w[i - Len(d)]
      BY <1>1, <1>2, <1>3, <2>3
    <3>3. (b \o w)[i + k] = w[i + k - Len(b)]
      BY <1>1, <1>2, <1>4, <2>1, <3>1
    <3>4. QED
      BY <3>1, <3>2, <3>3
  <2>4. QED
    BY <1>1, <1>2, <2>2, <2>3
<1>6. Len(d \o w) = Len(b \o w) - k
  BY <1>1, <1>2, <1>3, <1>4
<1>7. d \in Seq(Piece)
  BY <1>2
<1>8. QED
  BY <1>5, <1>6, <1>7, Zenon DEF d

-----------------------------------------------------------------------------
(* Taking a response *)

LEMMA Least ==
    ASSUME NEW S \in SUBSET Nat, S # {}
    PROVE  \E m \in S : \A k \in S : m <= k
<1>1. \A x, y \in Nat : <<y, x>> \in OpToRel(<, Nat) <=> y < x
  BY DEF OpToRel
<1>2. \E R : IsWellFoundedOn(R, Nat) /\ \A x, y \in Nat : <<y, x>> \in R <=> y < x
  BY <1>1, NatLessThanWellFounded, Zenon
<1>3. PICK R : IsWellFoundedOn(R, Nat) /\ \A x, y \in Nat : <<y, x>> \in R <=> y < x
  BY <1>2
<1>4. PICK x \in S : \A y \in S : ~ (<<y, x>> \in R)
  BY <1>3, WFMin
<1>5. ASSUME NEW y \in S PROVE x <= y
  <2>1. ~ (<<y, x>> \in R) /\ x \in Nat /\ y \in Nat
    BY <1>4
  <2>2. ~ (y < x)
    BY <1>3, <2>1
  <2>3. QED
    BY <2>1, <2>2
<1>6. QED
  BY <1>5

\* The first complete line ends the response, and what of it has come goes with it.
LEMMA ResponseIs ==
    ASSUME NEW b \in Seq(Piece), CompleteLines(b) # {}
    PROVE  /\ ResponseLength(b) \in CompleteLines(b) /\ ResponseLength(b) \in 1 .. Len(b)
           /\ Taken(b) \in ResponseLength(b) .. Len(b)
<1>1. Len(b) \in Nat /\ CompleteLines(b) \in SUBSET Nat
  BY LenProperties DEF CompleteLines
<1>2. ResponseLength(b) \in CompleteLines(b)
  BY <1>1, Least DEF ResponseLength
<1>3. ResponseLength(b) \in 1 .. Len(b)
  BY <1>2 DEF CompleteLines
<1> DEFINE k == ResponseLength(b)
           Ends(n) == /\ \A j \in k + 1 .. n : ~b[j].starts
                      /\ n < Len(b) => b[n + 1].starts
           next == {j \in k + 1 .. Len(b) : b[j].starts}
<1>4. \E n \in k .. Len(b) : Ends(n)
  <2> HIDE DEF k
  <2>1. k \in Nat /\ 1 <= k /\ k <= Len(b)
    BY <1>1, <1>3 DEF k
  <2>2. CASE next = {}
    <3>1. Len(b) \in k .. Len(b) /\ Ends(Len(b))
      BY <1>1, <2>1, <2>2
    <3>2. QED
      BY <3>1
  <2>3. CASE next # {}
    <3>1. next \in SUBSET Nat
      BY <1>1, <2>1
    <3>2. PICK m \in next : \A j \in next : m <= j
      BY <2>3, <3>1, Least
    <3>3. m \in k + 1 .. Len(b) /\ b[m].starts
      BY <3>2
    <3>4. m - 1 \in k .. Len(b) /\ m - 1 + 1 = m
      BY <1>1, <2>1, <3>3
    <3>5. ASSUME NEW j \in k + 1 .. m - 1, b[j].starts PROVE FALSE
      <4>1. j \in next /\ j < m
        BY <1>1, <2>1, <3>3, <3>5
      <4>2. QED
        BY <2>1, <3>2, <3>3, <4>1
    <3>6. Ends(m - 1)
      BY <3>3, <3>4, <3>5
    <3>7. QED
      BY <3>4, <3>6
  <2>4. QED
    BY <2>2, <2>3
<1>5. Taken(b) = CHOOSE n \in k .. Len(b) : Ends(n)
  BY DEF Taken
<1> HIDE DEF k, Ends, next
<1>6. Taken(b) \in k .. Len(b)
  BY <1>4, <1>5
<1>7. QED
  BY <1>2, <1>3, <1>6 DEF k

LEMMA Single ==
    ASSUME NEW S, NEW w \in S
    PROVE  /\ <<w>> \in Seq(S) /\ Len(<<w>>) = 1 /\ <<w>>[1] = w
           /\ Head(<<w>>) = w /\ Tail(<<w>>) = <<>> /\ <<w>> # <<>>
           /\ <<>> \in Seq(S) /\ Len(<<>>) = 0
OBVIOUS

\* Whatever is flushed, the types stay, and a response good for the step awaited
\* is all that can be entered under answers.
LEMMA FlushTypes ==
    ASSUME NEW b \in Seq(Piece), NEW s \in 1 .. Len(Script), outcome \in {"sending", "sent", "failed"},
           NEW ws, ws = <<>> \/ \E w \in 1 .. Len(Script) : ws = <<w>>,
           NEW ts, ts \subseteq {ws[i] : i \in 1 .. Len(ws)},
           Flush(b, ws, ts, s)
    PROVE  /\ buffer' \in Seq(Piece) /\ resumed' \in BOOLEAN
           /\ outcome' \in {"sending", "sent", "failed"}
           /\ waiters' \in Seq(1 .. Len(Script)) /\ Len(waiters') <= 1
           /\ timers' \subseteq {waiters'[i] : i \in 1 .. Len(waiters')}
           /\ outcome # "sending" =>
                 outcome' = outcome /\ answers' = answers /\ resumed' = FALSE
<1>1. ws \in Seq(1 .. Len(Script)) /\ Len(ws) <= 1
  <2>1. CASE ws = <<>>
    <3>1. s \in 1 .. Len(Script)
      OBVIOUS
    <3>2. QED
      BY <2>1, <3>1, Single
  <2>2. CASE \E w \in 1 .. Len(Script) : ws = <<w>>
    <3>1. PICK w \in 1 .. Len(Script) : ws = <<w>>
      BY <2>2
    <3>2. QED
      BY <3>1, Single
  <2>3. QED
    BY <2>1, <2>2
<1>2. CASE ws = <<>> \/ CompleteLines(b) = {}
  BY <1>1, <1>2 DEF Flush
<1>3. CASE ~(ws = <<>> \/ CompleteLines(b) = {})
  <2>1. PICK w \in 1 .. Len(Script) : ws = <<w>>
    BY <1>3
  <2>2. Head(ws) = w /\ Tail(ws) = <<>> /\ ts \subseteq {w}
    BY <2>1
  <2>3. /\ buffer' = Remaining(b) /\ waiters' = <<>> /\ timers' = ts \ {w}
        /\ resumed' = ((outcome = "sending" /\ w = s) /\ Matches(w, Code(b)))
        /\ outcome' = IF (outcome = "sending" /\ w = s) /\ ~Matches(w, Code(b)) THEN "failed" ELSE outcome
        /\ outcome # "sending" => answers' = answers
    BY <1>3, <2>2 DEF Flush, Unanswered
  <2>4. Remaining(b) \in Seq(Piece)
    <3>1. Taken(b) \in 0 .. Len(b) /\ Len(b) \in Nat
      BY <1>3, ResponseIs, LenProperties
    <3>2. <<>> \in Seq(Piece)
      OBVIOUS
    <3>3. QED
      BY <3>1, <3>2, TakenFromStream DEF Remaining
  <2>5. timers' = {} /\ waiters' \in Seq(1 .. Len(Script)) /\ Len(waiters') <= 1
    BY <2>2, <2>3, Single
  <2>6. resumed' \in BOOLEAN /\ outcome' \in {"sending", "sent", "failed"}
    BY <2>3 DEF Matches
  <2>7. outcome # "sending" => outcome' = outcome /\ answers' = answers /\ resumed' = FALSE
    BY <2>3
  <2>8. QED
    BY <2>3, <2>4, <2>5, <2>6, <2>7
<1>4. QED
  BY <1>2, <1>3

\* send() goes on with step s and nothing complete has come: it waits.
LEMMA FlushWaits ==
    ASSUME NEW b, NEW ws, NEW ts, NEW s, CompleteLines(b) = {}, Flush(b, ws, ts, s)
    PROVE  /\ buffer' = b /\ waiters' = ws /\ timers' = ts /\ resumed' = FALSE
           /\ UNCHANGED <<outcome, answers>>
BY DEF Flush

\* Something complete has come while it waits for step s.
LEMMA FlushAnswers ==
    ASSUME NEW b, NEW ts, NEW s, CompleteLines(b) # {}, outcome = "sending", Flush(b, <<s>>, ts, s)
    PROVE  /\ buffer' = Remaining(b) /\ waiters' = <<>>
           /\ resumed' = Matches(s, Code(b))
           /\ outcome' = IF Matches(s, Code(b)) THEN outcome ELSE "failed"
           /\ answers' = IF Matches(s, Code(b))
                         THEN answers \cup {Given(s, b[1])} ELSE answers
<1>1. <<s>> # <<>> /\ Head(<<s>>) = s /\ Tail(<<s>>) = <<>>
  OBVIOUS
<1> DEFINE good == Matches(s, Code(b))
<1>2. /\ buffer' = Remaining(b) /\ waiters' = <<>>
      /\ resumed' = ((outcome = "sending" /\ s = s) /\ good)
      /\ outcome' = IF (outcome = "sending" /\ s = s) /\ ~good THEN "failed" ELSE outcome
      /\ answers' = IF (outcome = "sending" /\ s = s) /\ good
                    THEN answers \cup {Given(s, b[1])} ELSE answers
  BY <1>1 DEF Flush, Unanswered
<1>3. good \in BOOLEAN
  BY DEF Matches
<1> HIDE DEF good
<1>4. QED
  BY <1>2, <1>3 DEF good

\* At most one answer is entered, that of the first piece to the step awaited.
LEMMA FlushEnters ==
    ASSUME NEW b \in Seq(Piece), NEW ws, NEW ts, NEW s, Flush(b, ws, ts, s)
    PROVE  \/ answers' = answers
           \/ outcome = "sending" /\ \E p \in Piece : answers' = answers \cup {Given(s, p)}
<1>1. CASE ws = <<>> \/ CompleteLines(b) = {}
  BY <1>1 DEF Flush
<1>2. CASE ~(ws = <<>> \/ CompleteLines(b) = {})
  <2>1. b[1] \in Piece
    <3>1. 1 \in 1 .. Len(b) /\ Len(b) \in Nat
      BY <1>2, ResponseIs, LenProperties
    <3>2. QED
      BY <3>1, ElementOfSeq
  <2>2. \/ answers' = answers
        \/ outcome = "sending" /\ answers' = answers \cup {Given(s, b[1])}
    BY <1>2 DEF Flush
  <2>3. QED
    BY <2>1, <2>2
<1>3. QED
  BY <1>1, <1>2

\* send() is resumed by the answer it awaited, and then nobody waits.
LEMMA FlushResumes ==
    ASSUME NEW b, NEW ws, NEW ts, NEW s, Flush(b, ws, ts, s),
           ws = <<>> \/ \E w \in 1 .. Len(Script) : ws = <<w>>
    PROVE  resumed' => outcome' = "sending" /\ waiters' = <<>>
<1>1. CASE ws = <<>> \/ CompleteLines(b) = {}
  BY <1>1 DEF Flush
<1>2. CASE ~(ws = <<>> \/ CompleteLines(b) = {})
  <2>1. PICK w \in 1 .. Len(Script) : ws = <<w>>
    BY <1>2
  <2>2. Head(ws) = w /\ Tail(ws) = <<>>
    BY <2>1
  <2>3. QED
    BY <1>2, <2>2 DEF Flush, Unanswered
<1>3. QED
  BY <1>1, <1>2

\* All that a flush may do to the outcome is to give up.
LEMMA FlushGivesUp ==
    ASSUME NEW b, NEW ws, NEW ts, NEW s, Flush(b, ws, ts, s)
    PROVE  \/ UNCHANGED outcome
           \/ outcome = "sending" /\ outcome' = "failed"
<1>1. CASE ws = <<>> \/ CompleteLines(b) = {}
  BY <1>1 DEF Flush
<1>2. CASE ~(ws = <<>> \/ CompleteLines(b) = {})
  BY <1>2 DEF Flush
<1>3. QED
  BY <1>1, <1>2

-----------------------------------------------------------------------------
(* The server's answers *)

\* Where the pieces of two sequences are when they follow each other.
LEMMA Joined ==
    ASSUME NEW a \in Seq(Piece), NEW b \in Seq(Piece)
    PROVE  /\ a \o b \in Seq(Piece) /\ Len(a) \in Nat /\ Len(b) \in Nat
           /\ Len(a \o b) = Len(a) + Len(b)
           /\ \A i \in 1 .. Len(a \o b) :
                 \/ i \in 1 .. Len(a) /\ (a \o b)[i] = a[i]
                 \/ i > Len(a) /\ i - Len(a) \in 1 .. Len(b) /\ (a \o b)[i] = b[i - Len(a)]
<1>1. /\ a \o b \in Seq(Piece)
      /\ Len(a \o b) = Len(a) + Len(b)
      /\ \A i \in 1 .. Len(a) + Len(b) :
            (a \o b)[i] = IF i <= Len(a) THEN a[i] ELSE b[i - Len(a)]
  BY ConcatProperties
<1>2. Len(a) \in Nat /\ Len(b) \in Nat
  BY LenProperties
<1>3. ASSUME NEW i \in 1 .. Len(a) + Len(b)
      PROVE  \/ i \in 1 .. Len(a) /\ (a \o b)[i] = a[i]
             \/ i > Len(a) /\ i - Len(a) \in 1 .. Len(b) /\ (a \o b)[i] = b[i - Len(a)]
  <2>1. (a \o b)[i] = IF i <= Len(a) THEN a[i] ELSE b[i - Len(a)]
    BY <1>1
  <2>2. CASE i <= Len(a)
    BY <1>2, <2>1, <2>2
  <2>3. CASE ~(i <= Len(a))
    BY <1>2, <2>1, <2>3
  <2>4. QED
    BY <2>2, <2>3
<1>4. QED
  BY <1>1, <1>2, <1>3

\* Every line of an answer carries its code and its command, and none comes after
\* the head.
Answers(A, code, s) ==
    /\ A \in Seq(Piece)
    /\ \A i \in 1 .. Len(A) : A[i].starts => A[i].code = code /\ A[i].to = s
    /\ \A i, j \in 1 .. Len(A) :
          A[i].starts /\ A[j].starts /\ A[i].part = "head" => j <= i

LEMMA AnswerShape ==
    ASSUME NEW code \in Nat, NEW more \in Nat, NEW rest \in Rests, NEW s \in Nat
    PROVE  Answers(Answer(code, more, rest, s), code, s)
<1> DEFINE Line(part) == [part |-> part, code |-> code, to |-> s, starts |-> TRUE]
           Rest(look) == [part |-> look.part, code |-> look.code, to |-> s, starts |-> FALSE]
           lines == [i \in 1 .. more |-> Line("more")]
           head == <<Line("head")>>
           left == [i \in 1 .. Len(rest) |-> Rest(rest[i])]
           L == lines \o head
           A == L \o left
<1>1. Answer(code, more, rest, s) = A
  BY DEF Answer
<1>2. Line("more") \in Piece /\ Line("head") \in Piece
  BY DEF Piece, Looks
<1>3. rest \in Seq([part: Looks, code: Nat]) /\ Len(rest) \in Nat
  BY SmtpAssumption, LenProperties
<1>4. \A i \in 1 .. Len(rest) : Rest(rest[i]) \in Piece /\ ~Rest(rest[i]).starts
  <2> SUFFICES ASSUME NEW i \in 1 .. Len(rest)
               PROVE  Rest(rest[i]) \in Piece /\ ~Rest(rest[i]).starts
    OBVIOUS
  <2>1. rest[i] \in [part: Looks, code: Nat]
    BY <1>3, ElementOfSeq
  <2>2. QED
    BY <2>1 DEF Piece
<1>5. /\ Line("more").part = "more" /\ Line("more").code = code /\ Line("more").to = s
      /\ Line("head").part = "head" /\ Line("head").code = code /\ Line("head").to = s
  OBVIOUS
<1> HIDE DEF Line, Rest
<1>6. /\ lines \in Seq(Piece) /\ Len(lines) = more
      /\ \A i \in 1 .. more : lines[i] = Line("more")
  BY <1>2
<1>7. head \in Seq(Piece) /\ Len(head) = 1 /\ head[1] = Line("head")
  BY <1>2
<1>8. /\ left \in Seq(Piece) /\ Len(left) = Len(rest)
      /\ \A i \in 1 .. Len(rest) : left[i] = Rest(rest[i])
  BY <1>3, <1>4
<1> HIDE DEF lines, head, left, L, A
<1>9. /\ L \in Seq(Piece) /\ Len(L) = more + 1
      /\ \A i \in 1 .. Len(L) :
            \/ i \in 1 .. more /\ L[i] = lines[i]
            \/ i > more /\ i - more \in 1 .. 1 /\ L[i] = head[i - more]
  BY <1>6, <1>7, Joined DEF L
<1>10. /\ A \in Seq(Piece) /\ Len(A) \in Nat
       /\ \A i \in 1 .. Len(A) :
            \/ i \in 1 .. Len(L) /\ A[i] = L[i]
            \/ i > Len(L) /\ i - Len(L) \in 1 .. Len(left) /\ A[i] = left[i - Len(L)]
  BY <1>8, <1>9, Joined, LenProperties DEF A
<1>11. ASSUME NEW i \in 1 .. Len(A), A[i].starts
       PROVE  \/ i <= more /\ A[i] = Line("more")
              \/ i = more + 1 /\ A[i] = Line("head")
  <2>1. CASE i \in 1 .. Len(L) /\ A[i] = L[i]
    <3>1. CASE i \in 1 .. more /\ L[i] = lines[i]
      BY <1>6, <2>1, <3>1
    <3>2. CASE i > more /\ i - more \in 1 .. 1 /\ L[i] = head[i - more]
      <4>1. i - more = 1
        BY <3>2
      <4>2. A[i] = Line("head") /\ i = more + 1
        BY <1>7, <2>1, <3>2, <4>1
      <4>3. QED
        BY <4>2
    <3>3. QED
      BY <1>9, <2>1, <3>1, <3>2
  <2>2. CASE i > Len(L) /\ i - Len(L) \in 1 .. Len(left) /\ A[i] = left[i - Len(L)]
    <3>1. PICK j \in 1 .. Len(rest) : A[i] = left[j]
      BY <1>8, <2>2
    <3>2. A[i] = Rest(rest[j])
      BY <1>8, <3>1
    <3>3. QED
      BY <1>4, <1>11, <3>2
  <2>3. QED
    BY <1>10, <2>1, <2>2
<1>12. \A i \in 1 .. Len(A) : A[i].starts => A[i].code = code /\ A[i].to = s
  BY <1>5, <1>11
<1>13. ASSUME NEW i \in 1 .. Len(A), NEW j \in 1 .. Len(A),
              A[i].starts, A[j].starts, A[i].part = "head"
       PROVE  j <= i
  <2>1. i = more + 1
    BY <1>5, <1>11, <1>13
  <2>2. j <= more + 1
    BY <1>11, <1>13
  <2>3. QED
    BY <2>1, <2>2
<1>14. QED
  BY <1>1, <1>10, <1>12, <1>13 DEF Answers

\* An answer to the only command on its way, or a 421, keeps the stream to one answer.
LEMMA AnswerFits ==
    ASSUME SessionInv, inbox # <<>>, inbox' = Tail(inbox) \/ inbox' = <<>>,
           UNCHANGED <<secure, closed, client>>, accepted' \in BOOLEAN, accepted => accepted',
           NEW code \in Nat, NEW s, NEW A, Answers(A, code, s), wire' = wire \o A,
           s = Head(inbox) \/ code = 421,
           Command(Head(inbox)) = "BODY" /\ code = 250 => accepted'
    PROVE  SessionInv'
<1> USE DEF SessionInv, client
<1>1. /\ A \in Seq(Piece)
      /\ \A i \in 1 .. Len(A) : A[i].starts => A[i].code = code /\ A[i].to = s
      /\ \A i, j \in 1 .. Len(A) :
            A[i].starts /\ A[j].starts /\ A[i].part = "head" => j <= i
  BY DEF Answers
<1>2. buffer \in Seq(Piece) /\ wire \in Seq(Piece) /\ inbox \in Seq(1 .. Len(Script))
  BY DEF TypeOK
<1>3. wire' \in Seq(Piece)
  BY <1>1, <1>2, Joined
<1>4. Stream' = Stream \o A
  <2>1. \A x, y, z \in Seq(Piece) : (x \o y) \o z = x \o (y \o z)
    BY ConcatAssociative
  <2>2. (buffer \o wire) \o A = buffer \o (wire \o A)
    BY <1>1, <1>2, <2>1
  <2>3. QED
    BY <2>2 DEF Stream
<1>5. inbox' \in Seq(1 .. Len(Script))
  <2>1. Tail(inbox) \in Seq(1 .. Len(Script))
    BY <1>2, HeadTailProperties
  <2>2. <<>> \in Seq(1 .. Len(Script))
    OBVIOUS
  <2>3. QED
    BY <2>1, <2>2
<1>6. Script' = Script /\ step' = step
  BY DEF Script
<1>7. TypeOK'
  BY <1>3, <1>5, <1>6 DEF TypeOK
<1>8. /\ AnswersInStep' /\ Misread' = Misread /\ \A a \in answers' : a.step <= step'
      /\ resumed' => outcome' = "sending" /\ waiters' = <<>>
  BY DEF AnswersInStep, Misread
<1>9. ASSUME outcome = "sending", ~Misread PROVE OneAnswer' /\ TakenInv'
  <2>1. ~resumed /\ inbox = <<step>> /\ waiters = <<step>> /\ Quiet
    BY <1>9 DEF OneAnswer
  <2>2. Head(inbox) = step /\ inbox' = <<>>
    BY <2>1
  <2> DEFINE T == Stream \o A
  <2>3. /\ Len(Stream) \in Nat
        /\ \A i \in 1 .. Len(T) :
              \/ i \in 1 .. Len(Stream) /\ T[i] = Stream[i]
              \/ i > Len(Stream) /\ i - Len(Stream) \in 1 .. Len(A) /\ T[i] = A[i - Len(Stream)]
    BY <1>1, <1>2, Joined DEF Stream
  <2>4. Stream' = T
    BY <1>4
  <2> HIDE DEF T
  <2>5. ASSUME NEW i \in 1 .. Len(T), T[i].starts
        PROVE  i - Len(Stream) \in 1 .. Len(A) /\ T[i] = A[i - Len(Stream)]
    BY <2>1, <2>3, <2>5 DEF Quiet
  <2>6. ASSUME NEW i \in 1 .. Len(T), T[i].starts PROVE T[i].to = s /\ T[i].code = code
    <3>1. i - Len(Stream) \in 1 .. Len(A) /\ T[i] = A[i - Len(Stream)]
      BY <2>5, <2>6
    <3>2. PICK m \in 1 .. Len(A) : T[i] = A[m]
      BY <3>1
    <3>3. A[m].starts
      BY <2>6, <3>2
    <3>4. QED
      BY <1>1, <3>2, <3>3
  <2>7. ASSUME NEW i \in 1 .. Len(T), NEW j \in 1 .. Len(T),
               T[i].starts, T[j].starts, T[i].part = "head"
        PROVE  j <= i
    <3>1. /\ i - Len(Stream) \in 1 .. Len(A) /\ T[i] = A[i - Len(Stream)]
          /\ j - Len(Stream) \in 1 .. Len(A) /\ T[j] = A[j - Len(Stream)]
      BY <2>5, <2>7
    <3>2. j - Len(Stream) <= i - Len(Stream)
      BY <1>1, <2>7, <3>1
    <3>3. QED
      BY <2>3, <3>2
  <2>8. OneAnswer'
    <3>1. \A i, j \in 1 .. Len(T) : T[i].starts /\ T[j].starts =>
              /\ T[i].to = T[j].to
              /\ T[i].part = "head" => j <= i
      BY <2>6, <2>7
    <3>2. \A i \in 1 .. Len(T) : T[i].starts => T[i].to = step \/ T[i].code = 421
      BY <2>2, <2>6
    <3>3. ~resumed' /\ waiters' = <<step>> /\ inbox' = <<>> /\ step' = step
      BY <2>1, <2>2
    <3>4. QED
      BY <2>4, <3>1, <3>2, <3>3 DEF OneAnswer
  <2>9. TakenInv'
    <3>1. Command(step)' = Command(step)
      BY <1>6 DEF Command
    <3>2. Command(step) = "QUIT" => accepted'
      BY <1>9 DEF TakenInv
    <3>3. ~resumed'
      BY <2>1
    <3>4. \A i \in 1 .. Len(T) : Command(step) = "BODY" /\ T[i].starts /\ T[i].code = 250 => accepted'
      BY <2>2, <2>6
    <3>5. QED
      BY <2>4, <3>1, <3>2, <3>3, <3>4 DEF TakenInv
  <2>10. QED
    BY <2>8, <2>9
<1>10. QED
  BY <1>7, <1>8, <1>9

LEMMA ServerStep ==
    ASSUME SessionInv, ServerAnswers \/ ServerShutsDown
    PROVE  SessionInv'
<1>1. /\ inbox \in Seq(1 .. Len(Script)) /\ inbox # <<>> /\ secure \in BOOLEAN /\ accepted \in BOOLEAN
      /\ Head(inbox) \in 1 .. Len(Script)
  BY HeadTailProperties DEF SessionInv, TypeOK, ServerAnswers, ServerShutsDown
<1>2. 1 .. Len(Script) \subseteq Nat /\ expectedCodes(Head(inbox)) \subseteq Nat
  BY <1>1, Expected
<1>3. CASE ServerAnswers
  <2>1. PICK code \in expectedCodes(Head(inbox)) \cup {550}, more \in 0 .. MaxMore, rest \in Rests :
           /\ wire' = wire \o Answer(code, more, rest, Head(inbox))
           /\ accepted' = (accepted \/ (Command(Head(inbox)) = "BODY" /\ code = 250))
    BY <1>3 DEF ServerAnswers
  <2>2. code \in Nat /\ more \in Nat /\ Head(inbox) \in Nat
    BY <1>1, <1>2, SmtpAssumption
  <2>3. PICK s \in Nat : s = Head(inbox)
    BY <2>2
  <2>4. PICK A : A = Answer(code, more, rest, s)
    OBVIOUS
  <2>5. Answers(A, code, s) /\ wire' = wire \o A
    BY <2>1, <2>2, <2>3, <2>4, AnswerShape
  <2>6. accepted' \in BOOLEAN /\ (accepted => accepted')
    BY <1>1, <2>1
  <2>7. Command(Head(inbox)) = "BODY" /\ code = 250 => accepted'
    BY <2>1
  <2>8. inbox' = Tail(inbox) \/ inbox' = <<>>
    BY <1>3 DEF ServerAnswers
  <2>9. UNCHANGED <<secure, closed, client>>
    BY <1>3 DEF ServerAnswers
  <2>10. s = Head(inbox) \/ code = 421
    BY <2>3
  <2>11. code \in Nat /\ inbox # <<>>
    BY <1>1, <2>2
  <2>12. QED
    BY <2>5, <2>6, <2>7, <2>8, <2>9, <2>10, <2>11, AnswerFits
<1>4. CASE ServerShutsDown
  <2>1. PICK code \in Nat, s \in Nat : code = 421 /\ s = 0
    OBVIOUS
  <2>2. PICK rest \in Rests : wire' = wire \o Answer(code, 0, rest, s)
    BY <1>4, <2>1 DEF ServerShutsDown
  <2>3. PICK A : A = Answer(code, 0, rest, s)
    OBVIOUS
  <2>4. Answers(A, code, s)
    <3>1. 0 \in Nat
      OBVIOUS
    <3>2. QED
      BY <2>3, <3>1, AnswerShape
  <2>5. wire' = wire \o A
    BY <2>2, <2>3
  <2>6. accepted' = accepted
    BY <1>4 DEF ServerShutsDown
  <2>7. accepted' \in BOOLEAN /\ (accepted => accepted')
    BY <1>1, <2>6
  <2>8. Command(Head(inbox)) = "BODY" /\ code = 250 => accepted'
    BY <2>1
  <2>9. inbox' = Tail(inbox) \/ inbox' = <<>>
    BY <1>4 DEF ServerShutsDown
  <2>10. UNCHANGED <<secure, closed, client>>
    BY <1>4 DEF ServerShutsDown
  <2>11. inbox # <<>> /\ (s = Head(inbox) \/ code = 421)
    BY <1>1, <2>1
  <2>12. QED
    BY <2>4, <2>5, <2>7, <2>8, <2>9, <2>10, <2>11, AnswerFits
<1>5. QED
  BY <1>3, <1>4

-----------------------------------------------------------------------------
(* The client *)

LEMMA WaitersAre ==
    ASSUME TypeOK
    PROVE  /\ waiters = <<>> \/ \E w \in 1 .. Len(Script) : waiters = <<w>>
           /\ timers \subseteq {waiters[i] : i \in 1 .. Len(waiters)}
           /\ step \in 1 .. Len(Script) /\ outcome \in {"sending", "sent", "failed"}
           /\ secure \in BOOLEAN /\ buffer \in Seq(Piece) /\ wire \in Seq(Piece)
<1>1. waiters \in Seq(1 .. Len(Script)) /\ (Len(waiters) = 0 \/ Len(waiters) = 1)
  <2>1. waiters \in Seq(1 .. Len(Script)) /\ Len(waiters) <= 1
    BY DEF TypeOK
  <2>2. PICK n \in Nat : n = Len(waiters)
    BY <2>1, LenProperties
  <2>3. n <= 1
    BY <2>1, <2>2
  <2>4. n = 0 \/ n = 1
    BY <2>3
  <2>5. QED
    BY <2>1, <2>2, <2>4
<1>2. CASE Len(waiters) = 0
  BY <1>1, <1>2, EmptySeq DEF TypeOK
<1>3. CASE Len(waiters) = 1
  <2>1. waiters[1] \in 1 .. Len(Script)
    BY <1>1, <1>3, ElementOfSeq
  <2>2. waiters = <<waiters[1]>>
    BY <1>1, <1>3
  <2>3. QED
    BY <2>1, <2>2 DEF TypeOK
<1>4. QED
  BY <1>1, <1>2, <1>3

LEMMA DataStep ==
    ASSUME SessionInv, NEW n \in 1 .. Len(wire), Data(n)
    PROVE  SessionInv'
<1> DEFINE b == buffer \o SubSeq(wire, 1, n)
           w == SubSeq(wire, n + 1, Len(wire))
<1>1. /\ TypeOK /\ ~resumed /\ Flush(b, waiters, timers, step) /\ wire' = w
      /\ UNCHANGED <<secure, step, inbox, closed, accepted>>
  BY DEF SessionInv, Data
<1>2. b \in Seq(Piece) /\ w \in Seq(Piece) /\ b \o w = Stream
  BY <1>1, ChunkKeepsStream DEF TypeOK
<1> HIDE DEF b, w
<1>3. /\ buffer' \in Seq(Piece) /\ resumed' \in BOOLEAN
      /\ outcome' \in {"sending", "sent", "failed"}
      /\ waiters' \in Seq(1 .. Len(Script)) /\ Len(waiters') <= 1
      /\ timers' \subseteq {waiters'[i] : i \in 1 .. Len(waiters')}
      /\ outcome # "sending" =>
            outcome' = outcome /\ answers' = answers /\ resumed' = FALSE
  BY <1>1, <1>2, WaitersAre, FlushTypes
<1>4. Script' = Script /\ (\A s : Command(s)' = Command(s))
  BY <1>1 DEF Script, Command
<1>5. answers' = answers \/ (\E p \in Piece : answers' = answers \cup {Given(step, p)})
  BY <1>1, <1>2, FlushEnters
<1>6. TypeOK' /\ (\A a \in answers' : a.step <= step') /\ (Misread => Misread')
  <2>1. step \in 1 .. Len(Script) /\ step \in Nat
    BY <1>1, WaitersAre, ScriptShape
  <2>2. \A p \in Piece : /\ Given(step, p) \in [step: 1 .. Len(Script), of: Nat, leftover: BOOLEAN]
                         /\ Given(step, p).step = step
    BY <2>1 DEF Given, Piece
  <2>3. /\ answers' \subseteq [step: 1 .. Len(Script), of: Nat, leftover: BOOLEAN]
        /\ \A a \in answers' : a.step <= step
    BY <1>1, <1>5, <2>1, <2>2 DEF SessionInv, TypeOK
  <2>4. answers \subseteq answers'
    BY <1>5
  <2>5. TypeOK'
    BY <1>1, <1>2, <1>3, <1>4, <2>3 DEF TypeOK
  <2>6. QED
    BY <1>1, <2>3, <2>4, <2>5 DEF Misread
<1>7. resumed' => outcome' = "sending" /\ waiters' = <<>>
  BY <1>1, <1>2, WaitersAre, FlushResumes
<1>8. CASE outcome # "sending"
  BY <1>3, <1>6, <1>7, <1>8 DEF SessionInv, AnswersInStep
<1>9. CASE Misread
  <2>1. AnswersInStep'
    <3>1. SUFFICES ASSUME NEW p \in Piece, answers' = answers \cup {Given(step, p)}
                   PROVE  AnswersInStep'
      BY <1>5 DEF SessionInv, AnswersInStep
    <3>2. PICK l \in answers : l.leftover
      BY <1>9 DEF Misread
    <3>3. l.step <= step /\ Given(step, p).step = step
      BY <3>2 DEF SessionInv, Given
    <3>4. QED
      BY <3>1, <3>2, <3>3 DEF SessionInv, AnswersInStep
  <2>2. QED
    BY <1>6, <1>7, <1>9, <2>1 DEF SessionInv
<1>10. CASE outcome = "sending" /\ ~Misread
  <2>1. waiters = <<step>> /\ OneAnswer /\ TakenInv
    BY <1>1, <1>10 DEF SessionInv, OneAnswer
  <2>2. CASE CompleteLines(b) = {}
    <3>1. /\ buffer' = b /\ waiters' = waiters /\ timers' = timers /\ resumed' = FALSE
          /\ UNCHANGED <<outcome, answers>>
      BY <1>1, <2>2, FlushWaits
    <3>2. Stream' = Stream
      BY <1>1, <1>2, <3>1 DEF Stream
    <3>3. OneAnswer'
      BY <1>1, <2>1, <3>1, <3>2 DEF OneAnswer, Quiet
    <3>4. TakenInv'
      BY <1>1, <1>4, <2>1, <3>1, <3>2 DEF TakenInv
    <3>5. QED
      BY <1>6, <1>7, <3>1, <3>3, <3>4 DEF SessionInv, AnswersInStep
  <2>3. CASE CompleteLines(b) # {}
    <3> DEFINE k == ResponseLength(b)
               good == Matches(step, Code(b))
    <3>1. /\ buffer' = Remaining(b) /\ waiters' = <<>>
          /\ resumed' = good
          /\ outcome' = IF good THEN outcome ELSE "failed"
          /\ answers' = IF good THEN answers \cup {Given(step, b[1])} ELSE answers
      BY <1>1, <1>10, <2>1, <2>3, FlushAnswers
    <3>2. /\ k \in CompleteLines(b) /\ k \in 1 .. Len(b)
          /\ Taken(b) \in k .. Len(b) /\ Len(b) \in Nat /\ 1 \in 1 .. Len(b)
      BY <1>2, <2>3, ResponseIs, LenProperties
    <3> HIDE DEF k, good
    <3>3. good \in BOOLEAN
      BY DEF good, Matches
    <3>4. CASE ~good
      BY <1>6, <1>7, <3>1, <3>4 DEF SessionInv, AnswersInStep
    <3>5. CASE good /\ ~b[1].starts
      <4>1. /\ answers' = answers \cup {Given(step, b[1])}
            /\ Given(step, b[1]).leftover /\ Given(step, b[1]).step = step
        BY <3>1, <3>5 DEF Given
      <4>2. Misread'
        BY <4>1 DEF Misread
      <4>3. AnswersInStep'
        <5>1. step <= step
          BY <1>1, WaitersAre, ScriptShape
        <5>2. QED
          BY <4>1, <5>1 DEF SessionInv, AnswersInStep
      <4>4. QED
        BY <1>6, <1>7, <4>2, <4>3 DEF SessionInv
    <3>6. CASE good /\ b[1].starts
      <4>1. /\ Len(Stream) \in Nat /\ Len(b) <= Len(Stream)
            /\ \A i \in 1 .. Len(b) : i \in 1 .. Len(Stream) /\ Stream[i] = b[i]
        <5>1. /\ Len(b) \in Nat /\ Len(w) \in Nat /\ Len(b \o w) = Len(b) + Len(w)
              /\ \A i \in 1 .. Len(b) + Len(w) :
                    (b \o w)[i] = IF i <= Len(b) THEN b[i] ELSE w[i - Len(b)]
          BY <1>2, ConcatProperties, LenProperties
        <5>2. QED
          BY <1>2, <5>1
      <4>2. k \in 1 .. Len(Stream) /\ Stream[k].part = "head" /\ Stream[k].starts
        BY <3>2, <3>6, <4>1 DEF CompleteLines
      <4>3. inbox = <<>>
        BY <2>1, <4>2 DEF OneAnswer, Quiet
      <4>4. /\ 1 \in 1 .. Len(Stream) /\ Stream[1].starts /\ Stream[1] = b[1]
            /\ Stream[1].code \in expectedCodes(step)
        <5>1. Code(b) \in expectedCodes(step) /\ Code(b) # 0
          BY <1>1, <3>6, Expected, WaitersAre DEF good, Matches
        <5>2. b[1].code = Code(b)
          BY <5>1 DEF Code
        <5>3. QED
          BY <3>2, <3>6, <4>1, <5>1, <5>2
      <4>5. Stream[1].code # 421
        BY <1>1, <4>4, Expected, WaitersAre
      <4>6. b[1].to = step
        BY <2>1, <4>4, <4>5 DEF OneAnswer
      <4>7. /\ answers' = answers \cup {Given(step, b[1])} /\ Given(step, b[1]).of = step
            /\ Given(step, b[1]).step = step /\ resumed' /\ outcome' = "sending"
        BY <1>10, <3>1, <3>6, <4>6 DEF Given
      <4>8. AnswersInStep'
        BY <4>7 DEF SessionInv, AnswersInStep
      <4>9. /\ Len(Stream') = Len(Stream) - Taken(b)
            /\ \A i \in 1 .. Len(Stream') : Stream'[i] = Stream[i + Taken(b)]
        <5>1. Taken(b) \in 0 .. Len(b)
          BY <3>2
        <5>2. buffer' = SubSeq(b, Taken(b) + 1, Len(b))
          BY <3>1 DEF Remaining
        <5>3. /\ Len(SubSeq(b, Taken(b) + 1, Len(b)) \o w) = Len(b \o w) - Taken(b)
              /\ \A i \in 1 .. Len(SubSeq(b, Taken(b) + 1, Len(b)) \o w) :
                    (SubSeq(b, Taken(b) + 1, Len(b)) \o w)[i] = (b \o w)[i + Taken(b)]
          BY <1>2, <5>1, TakenFromStream
        <5>4. Stream' = SubSeq(b, Taken(b) + 1, Len(b)) \o w
          BY <1>1, <5>2 DEF Stream
        <5>5. QED
          BY <1>2, <5>3, <5>4
      <4>10. Quiet'
        <5> SUFFICES ASSUME NEW i \in 1 .. Len(Stream'), Stream'[i].starts PROVE FALSE
          BY DEF Quiet
        <5>1. i + Taken(b) \in 1 .. Len(Stream) /\ i + Taken(b) > k
          BY <3>2, <4>1, <4>9
        <5>2. Stream[i + Taken(b)].starts
          BY <4>9
        <5>3. i + Taken(b) <= k
          BY <2>1, <4>2, <5>1, <5>2 DEF OneAnswer
        <5>4. QED
          BY <3>2, <5>1, <5>3
      <4>11. OneAnswer'
        BY <1>1, <3>1, <4>3, <4>7, <4>10 DEF OneAnswer, Quiet
      <4>12. TakenInv'
        <5>1. Command(step) = "BODY" => Stream[1].code = 250
          BY <1>1, <4>4, Expected, WaitersAre
        <5>2. Command(step) = "BODY" => accepted
          BY <2>1, <4>4, <5>1 DEF TakenInv
        <5>3. Command(step)' = Command(step)
          BY <1>1 DEF Command, Script
        <5>4. QED
          BY <1>1, <2>1, <4>10, <5>2, <5>3 DEF TakenInv, Quiet
      <4>13. QED
        BY <1>6, <1>7, <4>8, <4>11, <4>12 DEF SessionInv
    <3>7. QED
      BY <3>3, <3>4, <3>5, <3>6
  <2>4. QED
    BY <2>2, <2>3
<1>11. QED
  BY <1>8, <1>9, <1>10

LEMMA ResumeStep ==
    ASSUME SessionInv, Resume
    PROVE  SessionInv'
<1>1. /\ TypeOK /\ resumed /\ outcome = "sending" /\ waiters = <<>>
      /\ Misread \/ (OneAnswer /\ TakenInv)
      /\ UNCHANGED <<secure, closed, accepted>>
  BY DEF SessionInv, Resume
<1>2. Script' = Script /\ (\A s : Command(s)' = Command(s))
  BY <1>1 DEF Script, Command
<1>3. CASE step = Len(Script)
  <2>1. /\ outcome' = "sent" /\ resumed' = FALSE
        /\ UNCHANGED <<step, waiters, timers, buffer, wire, inbox, answers>>
    BY <1>3 DEF Resume
  <2>2. TypeOK'
    BY <1>1, <1>2, <2>1 DEF TypeOK
  <2>3. AnswersInStep' /\ (\A a \in answers' : a.step <= step')
    BY <2>1 DEF SessionInv, AnswersInStep
  <2>4. QED
    BY <2>1, <2>2, <2>3 DEF SessionInv
<1>4. CASE step # Len(Script)
  <2>1. /\ step' = step + 1
        /\ Flush(buffer, Append(waiters, step + 1), timers \cup {step + 1}, step + 1)
        /\ inbox' = IF Command(step) = "STARTTLS" /\ wire # <<>> THEN inbox
                    ELSE Append(inbox, step + 1)
        /\ wire' = IF Command(step) = "STARTTLS" THEN <<>> ELSE wire
    BY <1>4 DEF Resume
  <2>2. PICK n \in 1 .. Len(Script) : n = step + 1
    <3>1. Len(Script) \in Nat /\ step \in 1 .. Len(Script)
      BY <1>1, WaitersAre, ScriptShape
    <3>2. QED
      BY <1>4, <3>1
  <2>3. n \in Nat /\ step \in Nat /\ step < n /\ step' = n
    BY <1>1, <2>1, <2>2, WaitersAre, ScriptShape
  <2>4. Flush(buffer, <<n>>, timers \cup {n}, n)
    BY <1>1, <2>1, <2>2
  <2>5. buffer \in Seq(Piece) /\ wire \in Seq(Piece) /\ Len(buffer) \in Nat /\ Len(wire) \in Nat
    BY <1>1, WaitersAre, LenProperties
  <2>6. timers \cup {n} \subseteq {<<n>>[i] : i \in 1 .. Len(<<n>>)}
    <3>1. timers \subseteq {waiters[i] : i \in 1 .. Len(waiters)} /\ Len(waiters) = 0
      BY <1>1, WaitersAre
    <3>2. timers = {}
      BY <3>1
    <3>3. QED
      BY <3>2
  <2>7. wire' \in Seq(Piece) /\ inbox' \in Seq(1 .. Len(Script))
    <3>1. inbox \in Seq(1 .. Len(Script)) /\ Append(inbox, n) \in Seq(1 .. Len(Script))
      BY <1>1, AppendProperties DEF TypeOK
    <3>2. inbox' = inbox \/ inbox' = Append(inbox, n)
      BY <2>1, <2>2
    <3>3. wire' = wire \/ wire' = <<>>
      BY <2>1
    <3>4. <<>> \in Seq(Piece)
      OBVIOUS
    <3>5. QED
      BY <2>5, <3>1, <3>2, <3>3, <3>4
  <2>8. /\ buffer' \in Seq(Piece) /\ resumed' \in BOOLEAN
        /\ outcome' \in {"sending", "sent", "failed"}
        /\ waiters' \in Seq(1 .. Len(Script)) /\ Len(waiters') <= 1
        /\ timers' \subseteq {waiters'[i] : i \in 1 .. Len(waiters')}
    <3>1. \E w \in 1 .. Len(Script) : <<n>> = <<w>>
      OBVIOUS
    <3>2. outcome \in {"sending", "sent", "failed"}
      BY <1>1
    <3> DEFINE ts == timers \cup {n}
               ws == <<n>>
    <3>3. /\ ws = <<>> \/ \E w \in 1 .. Len(Script) : ws = <<w>>
          /\ ts \subseteq {ws[i] : i \in 1 .. Len(ws)}
          /\ Flush(buffer, ws, ts, n)
      BY <2>4, <2>6, <3>1
    <3> HIDE DEF ts, ws
    <3>4. QED
      BY <2>5, <3>2, <3>3, FlushTypes
  <2>9. resumed' => outcome' = "sending" /\ waiters' = <<>>
    <3>1. \E w \in 1 .. Len(Script) : <<n>> = <<w>>
      OBVIOUS
    <3>2. QED
      BY <2>4, <3>1, FlushResumes
  <2>10. answers' = answers \/ (\E p \in Piece : answers' = answers \cup {Given(n, p)})
    BY <2>4, <2>5, FlushEnters
  <2>11. TypeOK' /\ (\A a \in answers' : a.step <= step') /\ (Misread => Misread')
    <3>1. \A p \in Piece : /\ Given(n, p) \in [step: 1 .. Len(Script), of: Nat, leftover: BOOLEAN]
                           /\ Given(n, p).step = n
      BY DEF Given, Piece
    <3>2. answers \subseteq [step: 1 .. Len(Script), of: Nat, leftover: BOOLEAN]
      BY <1>1 DEF TypeOK
    <3>3. \A a \in answers : a.step <= step /\ a.step \in Nat
      BY <3>2 DEF SessionInv
    <3>4. \A a \in answers : a.step <= n
      BY <2>3, <3>3
    <3>5. /\ answers' \subseteq [step: 1 .. Len(Script), of: Nat, leftover: BOOLEAN]
          /\ \A a \in answers' : a.step <= n
      BY <2>3, <2>10, <3>1, <3>2, <3>4
    <3>6. answers \subseteq answers'
      BY <2>10
    <3>7. TypeOK'
      BY <1>1, <1>2, <2>2, <2>3, <2>7, <2>8, <3>5 DEF TypeOK
    <3>8. QED
      BY <2>3, <3>5, <3>6, <3>7 DEF Misread
  <2>12. ASSUME NEW p \in Piece, answers' = answers \cup {Given(n, p)}, Misread'
         PROVE  AnswersInStep'
    <3>1. Given(n, p).step = n
      BY DEF Given
    <3>2. PICK l \in answers' : l.leftover
      BY <2>12 DEF Misread
    <3>3. l.step <= n
      BY <2>3, <2>11
    <3>4. QED
      BY <2>12, <3>1, <3>2, <3>3 DEF SessionInv, AnswersInStep
  <2>13. CASE Misread
    <3>1. AnswersInStep'
      BY <2>10, <2>11, <2>12, <2>13 DEF SessionInv, AnswersInStep
    <3>2. QED
      BY <2>9, <2>11, <2>13, <3>1 DEF SessionInv
  <2>14. CASE ~Misread
    <3>1. OneAnswer /\ TakenInv /\ inbox = <<>> /\ Quiet
      BY <1>1, <2>14 DEF OneAnswer
    <3>2. \A i \in 1 .. Len(buffer) : i \in 1 .. Len(Stream) /\ Stream[i] = buffer[i]
      <4>1. /\ Len(buffer \o wire) = Len(buffer) + Len(wire)
            /\ \A i \in 1 .. Len(buffer) + Len(wire) :
                  (buffer \o wire)[i] = IF i <= Len(buffer) THEN buffer[i] ELSE wire[i - Len(buffer)]
        BY <2>5, ConcatProperties
      <4>2. QED
        BY <2>5, <4>1 DEF Stream
    <3>3. CASE CompleteLines(buffer) = {}
      <4>1. /\ buffer' = buffer /\ waiters' = <<n>> /\ resumed' = FALSE
            /\ UNCHANGED <<outcome, answers>>
        BY <2>4, <3>3, FlushWaits
      <4>2. Quiet'
        <5>1. CASE wire' = wire
          BY <3>1, <4>1, <5>1 DEF Quiet, Stream
        <5>2. CASE wire' = <<>>
          <6>1. Stream' = buffer
            BY <2>5, <4>1, <5>2, ConcatEmptySeq DEF Stream
          <6>2. QED
            BY <3>1, <3>2, <6>1 DEF Quiet
        <5>3. QED
          BY <2>1, <5>1, <5>2
      <4>3. inbox' = <<>> \/ inbox' = <<n>>
        BY <2>1, <2>2, <3>1
      <4>4. OneAnswer'
        BY <2>3, <4>1, <4>2, <4>3 DEF OneAnswer, Quiet
      <4>5. TakenInv'
        <5>1. Command(step)' = Command(n)
          BY <1>2, <2>3 DEF Command
        <5>2. Command(n) = "QUIT" => accepted
          <6>1. Command(n) = "QUIT" => Command(step) = "BODY"
            BY <1>1, <2>2, ScriptShape, WaitersAre
          <6>2. QED
            BY <1>1, <3>1, <6>1 DEF TakenInv
        <5>3. QED
          BY <1>1, <4>1, <4>2, <5>1, <5>2 DEF TakenInv, Quiet
      <4>6. AnswersInStep'
        BY <4>1 DEF SessionInv, AnswersInStep
      <4>7. QED
        BY <2>9, <2>11, <4>4, <4>5, <4>6 DEF SessionInv
    <3>4. CASE CompleteLines(buffer) # {}
      <4> DEFINE good == Matches(n, Code(buffer))
      <4>1. /\ outcome' = IF good THEN outcome ELSE "failed"
            /\ answers' = IF good THEN answers \cup {Given(n, buffer[1])} ELSE answers
        BY <1>1, <2>4, <3>4, FlushAnswers
      <4>2. 1 \in 1 .. Len(buffer)
        BY <2>5, <3>4, ResponseIs
      <4>3. buffer[1] \in Piece /\ ~buffer[1].starts
        BY <2>5, <3>1, <3>2, <4>2, ElementOfSeq DEF Quiet
      <4> HIDE DEF good
      <4>4. CASE ~good
        BY <2>9, <2>11, <4>1, <4>4 DEF SessionInv, AnswersInStep
      <4>5. CASE good
        <5>1. answers' = answers \cup {Given(n, buffer[1])} /\ Given(n, buffer[1]).leftover
          BY <4>1, <4>3, <4>5 DEF Given
        <5>2. Misread'
          BY <5>1 DEF Misread
        <5>3. AnswersInStep'
          BY <2>12, <4>3, <5>1, <5>2
        <5>4. QED
          BY <2>9, <2>11, <5>2, <5>3 DEF SessionInv
      <4>6. QED
        BY <4>4, <4>5 DEF good, Matches
    <3>5. QED
      BY <3>3, <3>4
  <2>15. QED
    BY <2>13, <2>14
<1>5. QED
  BY <1>3, <1>4

LEMMA TimeoutStep ==
    ASSUME SessionInv, NEW w \in timers, Timeout(w)
    PROVE  SessionInv'
<1>1. /\ ~resumed /\ timers' = timers \ {w}
      /\ outcome' = IF outcome = "sending" /\ w = step THEN "failed" ELSE outcome
      /\ UNCHANGED <<secure, step, resumed, waiters, buffer, wire, inbox, closed, accepted, answers>>
  BY DEF Timeout
<1>2. Script' = Script
  BY <1>1 DEF Script
<1>3. TypeOK'
  <2>1. outcome' \in {"sending", "sent", "failed"}
    BY <1>1 DEF SessionInv, TypeOK
  <2>2. QED
    BY <1>1, <1>2, <2>1 DEF SessionInv, TypeOK
<1>4. CASE outcome' = "sending"
  <2>1. outcome = "sending" /\ Misread' = Misread
    BY <1>1, <1>4 DEF Misread
  <2>2. ~Misread => OneAnswer' /\ TakenInv'
    BY <1>1, <1>2, <2>1 DEF SessionInv, OneAnswer, Quiet, TakenInv, Stream, Command
  <2>3. QED
    BY <1>1, <1>3, <2>1, <2>2 DEF SessionInv, AnswersInStep
<1>5. CASE outcome' # "sending"
  BY <1>1, <1>3, <1>5 DEF SessionInv, AnswersInStep
<1>6. QED
  BY <1>4, <1>5

LEMMA EndStep ==
    ASSUME SessionInv, SocketEnds
    PROVE  SessionInv'
<1>1. /\ ~resumed /\ closed' = TRUE /\ waiters' = <<>> /\ timers' = {}
      /\ outcome' = IF outcome = "sending" THEN "failed" ELSE outcome
      /\ wire' = <<>> /\ inbox' = <<>>
      /\ UNCHANGED <<secure, step, resumed, buffer, accepted, answers>>
  BY DEF SocketEnds, rejectAll
<1>2. Script' = Script
  BY <1>1 DEF Script
<1>3. outcome' # "sending" /\ outcome' \in {"sending", "sent", "failed"}
  BY <1>1 DEF SessionInv, TypeOK
<1>4. /\ waiters' \in Seq(1 .. Len(Script)) /\ Len(waiters') <= 1
      /\ wire' \in Seq(Piece) /\ inbox' \in Seq(1 .. Len(Script))
      /\ timers' \subseteq {waiters'[i] : i \in 1 .. Len(waiters')}
  BY <1>1
<1>5. TypeOK'
  BY <1>1, <1>2, <1>3, <1>4 DEF SessionInv, TypeOK
<1>6. QED
  BY <1>1, <1>3, <1>5 DEF SessionInv, AnswersInStep

LEMMA InitStep ==
    ASSUME Init PROVE SessionInv
<1>1. /\ secure \in BOOLEAN /\ step = 1 /\ outcome = "sending" /\ resumed = FALSE
      /\ waiters = <<1>> /\ timers = {1} /\ buffer = <<>> /\ wire = <<>> /\ inbox = <<1>>
      /\ closed = FALSE /\ accepted = FALSE /\ answers = {}
  BY DEF Init
<1>2. 1 \in 1 .. Len(Script) /\ Command(1) = "GREETING"
  BY <1>1, ScriptShape
<1>3. PICK n \in 1 .. Len(Script) : n = 1
  BY <1>2
<1>4. /\ waiters \in Seq(1 .. Len(Script)) /\ Len(waiters) = 1 /\ waiters[1] = 1
      /\ inbox \in Seq(1 .. Len(Script)) /\ inbox = <<step>>
  BY <1>1, <1>3, Single
<1>5. timers \subseteq {waiters[i] : i \in 1 .. Len(waiters)}
  BY <1>1, <1>4
<1>6. <<>> \in Seq(Piece) /\ Stream = <<>> /\ Len(Stream) = 0
  BY <1>1 DEF Stream
<1>7. TypeOK
  <2>1. Len(waiters) <= 1 /\ outcome \in {"sending", "sent", "failed"}
    BY <1>1, <1>4
  <2>2. secure \in BOOLEAN /\ resumed \in BOOLEAN /\ closed \in BOOLEAN /\ accepted \in BOOLEAN
    BY <1>1
  <2>3. step \in 1 .. Len(Script) /\ buffer \in Seq(Piece) /\ wire \in Seq(Piece)
    BY <1>1, <1>2, <1>6
  <2>4. answers \subseteq [step: 1 .. Len(Script), of: Nat, leftover: BOOLEAN]
    BY <1>1
  <2>5. QED
    BY <1>4, <1>5, <2>1, <2>2, <2>3, <2>4 DEF TypeOK
<1>8. OneAnswer
  BY <1>1, <1>4, <1>6 DEF OneAnswer, Quiet
<1>9. TakenInv
  BY <1>1, <1>2, <1>6 DEF TakenInv
<1>10. QED
  BY <1>1, <1>7, <1>8, <1>9 DEF SessionInv, AnswersInStep

LEMMA StutterStep ==
    ASSUME SessionInv, UNCHANGED vars PROVE SessionInv'
<1>1. UNCHANGED <<secure, step, outcome, resumed, waiters, timers, buffer, wire, inbox, closed,
                  accepted, answers>>
  BY DEF vars
<1>2. Script' = Script
  BY <1>1 DEF Script
<1>3. TypeOK'
  BY <1>1, <1>2 DEF SessionInv, TypeOK
<1>4. OneAnswer => OneAnswer'
  BY <1>1 DEF OneAnswer, Quiet, Stream
<1>5. TakenInv => TakenInv'
  BY <1>1, <1>2 DEF TakenInv, Stream, Command
<1>6. Misread' = Misread
  BY <1>1 DEF Misread
<1>7. QED
  BY <1>1, <1>3, <1>4, <1>5, <1>6 DEF SessionInv, AnswersInStep

-----------------------------------------------------------------------------
(* The theorems *)

LEMMA SessionInvariance == Spec => []SessionInv
<1>1. Init => SessionInv
  BY InitStep
<1>2. SessionInv /\ [Next]_vars => SessionInv'
  <2> SUFFICES ASSUME SessionInv, [Next]_vars PROVE SessionInv'
    OBVIOUS
  <2>1. CASE Resume
    BY <2>1, ResumeStep
  <2>2. CASE \E n \in 1 .. Len(wire) : Data(n)
    BY <2>2, DataStep
  <2>3. CASE \E w \in timers : Timeout(w)
    BY <2>3, TimeoutStep
  <2>4. CASE SocketEnds
    BY <2>4, EndStep
  <2>5. CASE ServerAnswers \/ ServerShutsDown
    BY <2>5, ServerStep
  <2>6. CASE UNCHANGED vars
    BY <2>6, StutterStep
  <2>7. QED
    BY <2>1, <2>2, <2>3, <2>4, <2>5, <2>6 DEF Next
<1>3. QED
  BY <1>1, <1>2, PTL DEF Spec

\* The session's state keeps its shape: one waiter at most, and no timer without one.
THEOREM SessionTypes == Spec => []TypeOK
<1>1. SessionInv => TypeOK
  BY DEF SessionInv
<1>2. QED
  BY <1>1, SessionInvariance, PTL

\* However the server's answers are cut and whatever their text looks like, the answer
\* that SmtpSession.flush gives to a waiter is the answer to its command, unless it or
\* an earlier one was read from the rest of a line already taken.
THEOREM OnlyLeftoversShift == Spec => []AnswersInStep
<1>1. SessionInv => AnswersInStep
  BY DEF SessionInv
<1>2. QED
  BY <1>1, SessionInvariance, PTL

\* A flush may misread one answer, and otherwise do no more than give up.
LEMMA FlushDelivers ==
    ASSUME NEW b \in Seq(Piece), NEW ws, NEW ts, NEW s, Flush(b, ws, ts, s), UNCHANGED accepted
    PROVE  [Promised!Next]_<<outcome, accepted, Misread>>
<1>1. \/ UNCHANGED answers
      \/ outcome = "sending" /\ (\E p \in Piece : answers' = answers \cup {Given(s, p)})
  BY FlushEnters
<1>2. Misread => Misread'
  BY <1>1 DEF Misread
<1>3. UNCHANGED outcome \/ (outcome = "sending" /\ outcome' = "failed")
  BY FlushGivesUp
<1>4. UNCHANGED outcome \/ UNCHANGED answers
  BY DEF Flush
<1>5. Misread \in BOOLEAN /\ Misread' \in BOOLEAN
  BY DEF Misread
<1>6. CASE UNCHANGED answers
  <2>1. UNCHANGED Misread
    BY <1>6 DEF Misread
  <2>2. QED
    BY <1>3, <2>1 DEF Promised!Next, Promised!GiveUp
<1>7. CASE ~UNCHANGED answers
  <2>1. outcome = "sending" /\ UNCHANGED outcome
    BY <1>1, <1>4, <1>7
  <2>2. UNCHANGED Misread \/ (~Misread /\ Misread' = TRUE)
    BY <1>2, <1>5
  <2>3. QED
    BY <2>1, <2>2 DEF Promised!Next, Promised!Misread
<1>8. QED
  BY <1>6, <1>7

\* Step by step a session is a delivery: send() ends once, the message is accepted
\* once, and send() resolves for a message the server has accepted or after an answer
\* was misread.
THEOREM SessionIsADelivery ==
    Spec => Promised!Init /\ [][Promised!Next]_<<outcome, accepted, Misread>>
<1>1. Init => Promised!Init
  BY DEF Init, Promised!Init, Misread
<1>2. SessionInv /\ [Next]_vars => [Promised!Next]_<<outcome, accepted, Misread>>
  <2> SUFFICES ASSUME SessionInv, [Next]_vars
               PROVE  [Promised!Next]_<<outcome, accepted, Misread>>
    OBVIOUS
  <2>1. accepted \in BOOLEAN /\ buffer \in Seq(Piece) /\ wire \in Seq(Piece)
    BY DEF SessionInv, TypeOK
  <2>2. ASSUME UNCHANGED answers PROVE UNCHANGED Misread
    BY <2>2 DEF Misread
  <2>3. CASE Resume
    <3>1. CASE step = Len(Script)
      <4>1. outcome = "sending" /\ (accepted \/ Misread)
        BY <2>3, <3>1, ScriptShape DEF Resume, SessionInv, TakenInv, TypeOK
      <4>2. outcome' = "sent" /\ UNCHANGED <<accepted, answers>>
        BY <2>3, <3>1 DEF Resume
      <4>3. QED
        BY <2>2, <4>1, <4>2 DEF Promised!Next, Promised!Succeed
    <3>2. CASE step # Len(Script)
      <4>1. /\ Flush(buffer, Append(waiters, step + 1), timers \cup {step + 1}, step + 1)
            /\ UNCHANGED accepted
        BY <2>3, <3>2 DEF Resume
      <4>2. QED
        BY <2>1, <4>1, FlushDelivers
    <3>3. QED
      BY <3>1, <3>2
  <2>4. CASE \E n \in 1 .. Len(wire) : Data(n)
    <3>1. PICK n \in 1 .. Len(wire) : Data(n)
      BY <2>4
    <3>2. /\ Flush(buffer \o SubSeq(wire, 1, n), waiters, timers, step)
          /\ UNCHANGED accepted
      BY <3>1 DEF Data
    <3>3. buffer \o SubSeq(wire, 1, n) \in Seq(Piece)
      BY <2>1, ChunkKeepsStream
    <3>4. QED
      BY <3>2, <3>3, FlushDelivers
  <2>5. CASE \E w \in timers : Timeout(w)
    BY <2>2, <2>5 DEF Timeout, Promised!Next, Promised!GiveUp
  <2>6. CASE SocketEnds
    BY <2>2, <2>6 DEF SocketEnds, rejectAll, Promised!Next, Promised!GiveUp
  <2>7. CASE ServerAnswers
    <3>1. UNCHANGED <<outcome, answers>>
      BY <2>7 DEF ServerAnswers, client
    <3>2. accepted' = accepted \/ accepted' = TRUE
      <4>1. PICK code, more, rest :
               /\ wire' = wire \o Answer(code, more, rest, Head(inbox))
               /\ accepted' = (accepted \/ (Command(Head(inbox)) = "BODY" /\ code = 250))
        BY <2>7 DEF ServerAnswers
      <4>2. QED
        BY <2>1, <4>1
    <3>3. QED
      BY <2>1, <2>2, <3>1, <3>2 DEF Promised!Next, Promised!Take
  <2>8. CASE ServerShutsDown
    BY <2>2, <2>8 DEF ServerShutsDown, client
  <2>9. CASE UNCHANGED vars
    BY <2>2, <2>9 DEF vars
  <2>10. QED
    BY <2>3, <2>4, <2>5, <2>6, <2>7, <2>8, <2>9 DEF Next
<1>3. QED
  BY <1>1, <1>2, SessionInvariance, PTL DEF Spec
=============================================================================
