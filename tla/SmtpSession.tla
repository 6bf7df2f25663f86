----------------------------- MODULE SmtpSession -----------------------------
(***************************************************************************)
(* One call of MailService.send in src/src/infrastructures/mail: a dialogue*)
(* with an SMTP server over one socket, held together by SmtpSession, which*)
(* matches what the socket delivers with who waits for it by order alone.  *)
(*                                                                         *)
(* The server and the network are external.  The server answers each       *)
(* command, with a code the client expects or a refusal, or shuts down; the*)
(* network cuts its answers into chunks as it likes.                       *)
(*                                                                         *)
(* An answer ends with a line that has a space after its code.  SmtpSession*)
(* takes it as soon as the space is there, wherever the chunk ends; the    *)
(* rest of the line then is the first line of the buffer, and is read as   *)
(* what it looks like.                                                     *)
(***************************************************************************)
EXTENDS Naturals, Sequences

CONSTANTS
    MaxMore,   \* continuation lines of an answer
    Rests      \* how the text and the end of its last line may be cut and look

\* A line with a code and a hyphen (or three digits and more text); a code and a
\* space; any other text; the "\n" alone.
Looks == {"more", "head", "text", "lf"}

ASSUME SmtpAssumption == MaxMore \in Nat /\ Rests \subseteq Seq([part: Looks, code: Nat])

VARIABLES
    secure,      \* MAIL_SECURE: TLS from the start, no STARTTLS
    step,        \* the command whose answer send() awaits
    outcome,     \* how send() ended
    resumed,     \* its promise is resolved and it has not gone on yet
    waiters,     \* SmtpSession.waiters: the step of each, first come first served
    timers,      \* the waiters whose timer is running
    buffer,      \* SmtpSession.buffer
    wire,        \* what the server has sent and the socket not yet delivered
    inbox,       \* the steps whose command is on its way to the server
    closed,      \* the socket reported an error or its end
    accepted,    \* history: the server took the message
    answers      \* history: what each answer given to a waiter was

client == <<step, outcome, resumed, waiters, timers, buffer, answers>>
vars == <<secure, step, outcome, resumed, waiters, timers, buffer, wire, inbox, closed,
          accepted, answers>>

-----------------------------------------------------------------------------
(* The dialogue, in the order of send() *)

Script ==
    <<"GREETING", "EHLO">> \o (IF secure THEN <<>> ELSE <<"STARTTLS", "EHLO">>)
        \o <<"AUTH", "MAIL", "RCPT", "DATA", "BODY", "QUIT">>

Command(s) == Script[s]

\* The codes a waiter accepts.
expectedCodes(s) ==
    CASE Command(s) \in {"GREETING", "STARTTLS"}   -> {220}
      [] Command(s) \in {"EHLO", "MAIL", "BODY"}   -> {250}
      [] Command(s) = "AUTH"                       -> {235}
      [] Command(s) = "RCPT"                       -> {250, 251}
      [] Command(s) = "DATA"                       -> {354}
      [] Command(s) = "QUIT"                       -> {221}

-----------------------------------------------------------------------------
(* What the socket delivers *)

\* An answer is a sequence of pieces: continuation lines, the head of its last line
\* (three digits, a space and some text), and the rest of that line.  starts: it is the
\* beginning of a line; to: the command it answers.
Piece == [part: Looks, code: Nat, to: Nat, starts: BOOLEAN]

Answer(code, more, rest, s) ==
    LET Line(part) == [part |-> part, code |-> code, to |-> s, starts |-> TRUE]
        Rest(look) == [part |-> look.part, code |-> look.code, to |-> s, starts |-> FALSE] IN
    [i \in 1 .. more |-> Line("more")] \o <<Line("head")>>
        \o [i \in 1 .. Len(rest) |-> Rest(rest[i])]

\* /^\d{3} / on the lines of the buffer.  The rest of a line already taken is a line of
\* its own; if it is the "\n" alone, it is part of the next and keeps it from matching.
CompleteLines(b) ==
    {i \in 1 .. Len(b) : /\ b[i].part = "head" /\ (i = 1 \/ b[i].starts)
                         /\ ~(i = 2 /\ b[1].part = "lf")}

\* nextCompleteResponse takes the lines up to the first complete one; of that one,
\* as much as is there.
ResponseLength(b) == CHOOSE i \in CompleteLines(b) : \A j \in CompleteLines(b) : i <= j

Taken(b) ==
    CHOOSE n \in ResponseLength(b) .. Len(b) :
        /\ \A j \in ResponseLength(b) + 1 .. n : ~b[j].starts
        /\ n < Len(b) => b[n + 1].starts

Remaining(b) == SubSeq(b, Taken(b) + 1, Len(b))

\* Number(response.slice(0, 3)): of the first line, whatever line it is.
Code(b) == IF b[1].part \in {"more", "head"} THEN b[1].code ELSE 0

\* Slip: the code is not looked at.
AnyCode(s, code) == TRUE

Matches(s, code) == code \in expectedCodes(s)

\* Slip: the waiter answered stays in the queue.
Shifted(ws) == ws

\* waiters.shift()
Unanswered(ws) == Tail(ws)

\* The answer to s has its code from p: from what the server said to command of, and
\* perhaps from what was left of a line already taken.
Given(s, p) == [step |-> s, of |-> p.to, leftover |-> ~p.starts]

\* flush(), with buffer b, waiters ws and timers ts, while send() awaits step s: at
\* most one response goes to the first waiter.  Answering one whose promise has been
\* rejected by its timer changes nothing.
Flush(b, ws, ts, s) ==
    IF ws = <<>> \/ CompleteLines(b) = {}
    THEN /\ buffer' = b /\ waiters' = ws /\ timers' = ts
         /\ resumed' = FALSE
         /\ UNCHANGED <<outcome, answers>>
    ELSE LET awaited == outcome = "sending" /\ Head(ws) = s
             good    == Matches(Head(ws), Code(b))
         IN  /\ buffer' = Remaining(b)
             /\ waiters' = Unanswered(ws)
             /\ timers' = ts \ {Head(ws)}
             /\ resumed' = (awaited /\ good)
             /\ outcome' = IF awaited /\ ~good THEN "failed" ELSE outcome
             /\ answers' = IF awaited /\ good
                           THEN answers \cup {Given(s, b[1])} ELSE answers

-----------------------------------------------------------------------------
\* The socket is connecting, and the greeting awaited.
Init ==
    /\ secure \in BOOLEAN
    /\ step = 1 /\ outcome = "sending" /\ resumed = FALSE
    /\ waiters = <<1>> /\ timers = {1} /\ buffer = <<>>
    /\ wire = <<>> /\ inbox = <<1>> /\ closed = FALSE
    /\ accepted = FALSE /\ answers = {}

(* The client.  Promises that are settled run on before the next event. *)

\* The next command is written and its answer awaited; or QUIT was answered.  After
\* STARTTLS the socket is wrapped in a TLS socket and given new listeners: what the
\* server still had to say in the clear is lost to the session, and breaks the
\* handshake.
Resume ==
    LET upgrade == Command(step) = "STARTTLS" IN
    /\ resumed
    /\ IF step = Len(Script)
       THEN /\ outcome' = "sent" /\ resumed' = FALSE
            /\ UNCHANGED <<step, waiters, timers, buffer, wire, inbox, answers>>
       ELSE /\ step' = step + 1
            /\ Flush(buffer, Append(waiters, step + 1), timers \cup {step + 1}, step + 1)
            /\ inbox' = IF upgrade /\ wire # <<>> THEN inbox ELSE Append(inbox, step + 1)
            /\ wire' = IF upgrade THEN <<>> ELSE wire
    /\ UNCHANGED <<secure, closed, accepted>>

\* A chunk arrives: any part of what is on the wire.
Data(n) ==
    /\ ~resumed /\ ~closed
    /\ Flush(buffer \o SubSeq(wire, 1, n), waiters, timers, step)
    /\ wire' = SubSeq(wire, n + 1, Len(wire))
    /\ UNCHANGED <<secure, step, inbox, closed, accepted>>

\* A waiter's 15 seconds are over: it is rejected and stays in the queue.
Timeout(w) ==
    /\ ~resumed
    /\ w \in timers
    /\ timers' = timers \ {w}
    /\ outcome' = IF outcome = "sending" /\ w = step THEN "failed" ELSE outcome
    /\ UNCHANGED <<secure, step, resumed, waiters, buffer, wire, inbox, closed, accepted, answers>>

\* Slip: the waiters are dropped and not rejected.
DropAll ==
    /\ waiters' = <<>> /\ timers' = {}
    /\ UNCHANGED outcome

rejectAll ==
    /\ waiters' = <<>> /\ timers' = {}
    /\ outcome' = IF outcome = "sending" THEN "failed" ELSE outcome

\* The socket's error or close event.
SocketEnds ==
    /\ ~resumed /\ ~closed
    /\ closed' = TRUE
    /\ rejectAll
    /\ wire' = <<>> /\ inbox' = <<>>
    /\ UNCHANGED <<secure, step, resumed, buffer, accepted, answers>>

(* The server *)

\* It carries out a command and answers it, or refuses it.
ServerAnswers ==
    /\ inbox # <<>>
    /\ \E code \in expectedCodes(Head(inbox)) \cup {550}, more \in 0 .. MaxMore, rest \in Rests :
           /\ wire' = wire \o Answer(code, more, rest, Head(inbox))
           /\ accepted' = (accepted \/ (Command(Head(inbox)) = "BODY" /\ code = 250))
    /\ inbox' = Tail(inbox)
    /\ UNCHANGED <<secure, closed, client>>

\* It says that it will close the connection, whatever it was asked, and no more.
ServerShutsDown ==
    /\ inbox # <<>>
    /\ \E rest \in Rests : wire' = wire \o Answer(421, 0, rest, 0)
    /\ inbox' = <<>>
    /\ UNCHANGED <<secure, closed, accepted, client>>

Next ==
    \/ Resume
    \/ \E n \in 1 .. Len(wire) : Data(n)
    \/ \E w \in timers : Timeout(w)
    \/ SocketEnds
    \/ ServerAnswers
    \/ ServerShutsDown

\* Settled promises run on and timers fire.  Nothing is asked of server and network.
Spec ==
    /\ Init /\ [][Next]_vars
    /\ WF_vars(Resume)
    /\ WF_vars(\E w \in timers : Timeout(w))

-----------------------------------------------------------------------------
(* Properties *)

\* The variables have their shapes, and send() has one waiter in the queue at most,
\* so that none is left to take an answer meant for another.
TypeOK ==
    /\ secure \in BOOLEAN /\ resumed \in BOOLEAN /\ closed \in BOOLEAN /\ accepted \in BOOLEAN
    /\ step \in 1 .. Len(Script)
    /\ outcome \in {"sending", "sent", "failed"}
    /\ waiters \in Seq(1 .. Len(Script)) /\ Len(waiters) <= 1
    /\ timers \subseteq {waiters[i] : i \in 1 .. Len(waiters)}
    /\ buffer \in Seq(Piece) /\ wire \in Seq(Piece)
    /\ inbox \in Seq(1 .. Len(Script))
    /\ answers \subseteq [step: 1 .. Len(Script), of: Nat, leftover: BOOLEAN]

\* A command is taken as answered by what the server said to another only from the
\* moment on that the rest of a line already taken looked like the code expected
\* (nextCompleteResponse): a line left over that does not, an unexpected answer, a
\* cut anywhere else or a timer never shifts the dialogue, although answers and
\* waiters are matched by order (SmtpSession.flush).
AnswersInStep ==
    \A a \in answers : a.of # a.step => \E l \in answers : l.leftover /\ l.step <= a.step

Misread == \E a \in answers : a.leftover

\* "Invoice email sent" is logged for messages the server has taken only, or after an
\* answer was misread; and every send() ends, however answers are cut, refused, cut
\* short or late, also if the server falls silent or closes the socket between two
\* commands (MailService.send, expect, rejectAll): one session is one delivery.
Promised == INSTANCE Delivery WITH outcome <- outcome, accepted <- accepted, misread <- Misread

DeliverySpec == Promised!Spec

-----------------------------------------------------------------------------
(* The inductive invariant behind AnswersInStep and the safety of DeliverySpec *)

\* All that the server has said and the session not yet taken.
Stream == buffer \o wire

Quiet == \A i \in 1 .. Len(Stream) : ~Stream[i].starts

\* As long as send() goes on, at most one answer is outstanding: it is either still
\* to be given, or the only one in the stream, to the command awaited or a 421.
OneAnswer ==
    /\ resumed \/ waiters = <<step>>
    /\ inbox # <<>> => ~resumed /\ inbox = <<step>>
    /\ resumed \/ inbox # <<>> => Quiet
    /\ \A i, j \in 1 .. Len(Stream) :
          Stream[i].starts /\ Stream[j].starts =>
              /\ Stream[i].to = Stream[j].to
              /\ Stream[i].part = "head" => j <= i
    /\ \A i \in 1 .. Len(Stream) :
          Stream[i].starts => Stream[i].to = step \/ Stream[i].code = 421

\* A 250 to the message's body means that the server has taken the message.
TakenInv ==
    /\ Command(step) = "QUIT" => accepted
    /\ Command(step) = "BODY" =>
          /\ resumed => accepted
          /\ \A i \in 1 .. Len(Stream) :
                Stream[i].starts /\ Stream[i].code = 250 => accepted

SessionInv ==
    /\ TypeOK /\ AnswersInStep
    /\ \A a \in answers : a.step <= step
    /\ resumed => outcome = "sending" /\ waiters = <<>>
    /\ outcome = "sending" => Misread \/ (OneAnswer /\ TakenInv)
=============================================================================
