------------------------------- MODULE TextMail ------------------------------
(***************************************************************************)
(* Mail as lines of text: the parser and the stuffing of                   *)
(* annex_f/text_protocol.py, the acknowledged messages of ack_message.py   *)
(* and HMTP (hmtp.py).  The text is made of characters in the first part,  *)
(* of lines in the second.                                                 *)
(***************************************************************************)
EXTENDS Layout

CR == 13
LF == 10
Dot == 46
CRLF == <<CR, LF>>
Characters == {CR, LF, Dot, 65}

(* text.split("\r\n").                                                     *)
Split(text) ==
  LET upTo[n \in 0 .. Len(text)] ==
        IF n = 0 THEN [lines |-> <<>>, line |-> <<>>]
        ELSE LET l == upTo[n - 1].line
             IN  IF text[n] = LF /\ l # <<>> /\ l[Len(l)] = CR
                 THEN [lines |-> Append(upTo[n - 1].lines, Front(l)), line |-> <<>>]
                 ELSE [lines |-> upTo[n - 1].lines, line |-> Append(l, text[n])]
  IN  Append(upTo[Len(text)].lines, upTo[Len(text)].line)
\* "\r\n".join(lines)
Join(lines) == Joined([i \in DOMAIN lines |-> IF i = 1 THEN lines[1] ELSE CRLF \o lines[i]])

(* byte_stuff.                                                             *)
ByteStuff(body) ==
  LET lines == Split(body)
  IN  Join([i \in DOMAIN lines |-> IF lines[i] # <<>> /\ lines[i][1] = Dot THEN <<Dot>> \o lines[i] ELSE lines[i]])
(* encode_multiline_data.                                                  *)
EncodeMultiline(body) == ByteStuff(body) \o CRLF \o <<Dot>> \o CRLF

Unstuffed(line) == IF Len(line) >= 2 /\ line[1] = Dot /\ line[2] = Dot THEN Tail(line) ELSE line
(* TextProtocolParser.feed_multiline: the lines up to the end of the data, *)
(* and what stays in the buffer.                                           *)
FeedMultiline(buffer, data) ==
  LET parts == Split(buffer \o data)
      whole == Front(parts)
      ends == {i \in DOMAIN whole : whole[i] = <<Dot>>}
      end == CHOOSE i \in ends : \A j \in ends : i <= j
      taken == IF ends = {} THEN Len(whole) ELSE end - 1
  IN  [lines |-> [i \in 1 .. taken |-> Unstuffed(whole[i])], complete |-> ends # {},
       buffer |-> IF ends = {} THEN parts[Len(parts)] ELSE Join(Rest(parts, end))]

Bodies == UNION {[1 .. n -> Characters] : n \in 0 .. 3}
(* A body comes back line by line whatever it holds and wherever it was cut*)
(* on its way, and what follows it is still there.                         *)
BodyReadsBack(body) ==
  LET text == EncodeMultiline(body)
  IN  \A n \in 0 .. Len(text) :
        LET first == FeedMultiline(<<>>, SubSeq(text, 1, n))
            second == FeedMultiline(first.buffer, Rest(text, n) \o <<65>>)
        IN  IF first.complete
            THEN n = Len(text) /\ first.lines = Split(body) /\ first.buffer = <<>>
            ELSE second.complete /\ first.lines \o second.lines = Split(body) /\ second.buffer = <<65>>
-----------------------------------------------------------------------------
(* A line here: how many dots it begins with, a word and what goes with it.*)
Line(dots, word, arg) == [dots |-> dots, word |-> word, arg |-> arg]
Command(word, arg) == Line(0, word, arg)
Blank == Command("", "")
End == Line(1, "", "")
Stuffed(line) == IF line.dots > 0 THEN [line EXCEPT !.dots = @ + 1] ELSE line
Plain(line) == IF line.dots > 1 THEN [line EXCEPT !.dots = @ - 1] ELSE line

Transaction(start, m) ==
  <<Command(start, m.from)>> \o [i \in DOMAIN m.to |-> Command("RCPT TO", m.to[i])]
    \o <<Command("DATA", "")>> \o [i \in DOMAIN m.body |-> Stuffed(m.body[i])] \o <<End>>
Transactions(start, batch) == Joined([i \in DOMAIN batch |-> Transaction(start, batch[i])])
Several(batch, lines) == IF Len(batch) > 1 THEN lines ELSE <<>>
(* send_multiple of AckMessageClient, send_batch of HMTPClient.            *)
SendMultiple(batch) ==
  Several(batch, <<Command("SEND MULTIPLE", "")>>) \o Transactions("SEND FROM", batch)
    \o Several(batch, <<Blank, End>>) \o <<Blank>>
SendBatch(batch) ==
  <<Command("EHLO", "host")>> \o Several(batch, <<Command("MAIL MULTIPLE", "")>>)
    \o Transactions("MAIL FROM", batch) \o Several(batch, <<Blank, End>>)
    \o <<Command("QUIT", ""), Blank>>

(* What a server keeps between two U_PDUs, with what it delivered and      *)
(* answered.                                                               *)
Idle == [state |-> "IDLE", multiple |-> FALSE, from |-> "", to |-> <<>>, body |-> <<>>,
         delivered |-> <<>>, answers |-> 0]
Known == {"ann", "bob"}
Cleared(s) == [s EXCEPT !.from = "", !.to = <<>>, !.body = <<>>]
Answers(s, n) == [s EXCEPT !.answers = @ + n]

(* The commands of _process_data, AckMessageServer and HMTPServer.         *)
Recipient(s, user) == Answers(IF user \in Known THEN [s EXCEPT !.to = Append(@, user)] ELSE s, 1)
AckCommand(s, line) ==
  LET reset == [Cleared(s) EXCEPT !.state = "IDLE"]
  IN  CASE line.word = "SEND MULTIPLE" -> [reset EXCEPT !.multiple = TRUE]
        [] line.word = "SEND FROM" -> Answers([reset EXCEPT !.from = line.arg, !.state = "GOT_SEND"], 1)
        [] line.word = "RCPT TO" -> Recipient(s, line.arg)
        [] line.word = "DATA" -> Answers([s EXCEPT !.state = "READING_BODY"], 1)
        [] line.word \in {"RSET", "QUIT"} -> Answers(reset, 1)
        [] OTHER -> s
HmtpCommand(s, line) ==
  CASE line.word \in {"EHLO", "HELO"} -> Answers([s EXCEPT !.state = "READY"], 3)
    [] line.word = "MAIL MULTIPLE" -> [s EXCEPT !.multiple = TRUE]
    [] line.word = "MAIL FROM" -> Answers([Cleared(s) EXCEPT !.from = line.arg, !.state = "GOT_MAIL"], 1)
    [] line.word = "RCPT TO" -> Recipient(s, line.arg)
    [] line.word = "DATA" -> Answers([s EXCEPT !.state = "READING_BODY"], 1)
    [] line.word = "QUIT" -> Answers([s EXCEPT !.state = "IDLE"], 1)
    [] OTHER -> s
(* _process_body, _deliver_message, _deliver_mail.                         *)
Deliver(s, state) ==
  [Cleared(s) EXCEPT !.state = state,
                     !.delivered = Append(@, [from |-> s.from, to |-> s.to, body |-> s.body])]
Body(s, line, after) ==
  IF line = End THEN Deliver(s, after) ELSE [s EXCEPT !.body = Append(@, Plain(line))]

(* _process_data on the lines of one U_PDU: a body is read where it began  *)
(* unless nothing follows DATA.                                            *)
Process(start, lines, protocol) ==
  LET after == IF protocol = "SEND" THEN "IDLE" ELSE "READY"
      command(s, line) == IF protocol = "SEND" THEN AckCommand(s, line) ELSE HmtpCommand(s, line)
      upTo[n \in 0 .. Len(lines)] ==
        IF n = 0 THEN start
        ELSE LET s == upTo[n - 1]
                 nothing == n = Len(lines) /\ n > 1 /\ lines[n] = Blank /\ upTo[n - 2].state # "READING_BODY"
             IN  IF s.state = "READING_BODY" THEN IF nothing THEN s ELSE Body(s, lines[n], after)
                 ELSE IF lines[n] = Blank \/ lines[n].dots > 0 THEN s ELSE command(s, lines[n])
  IN  upTo[Len(lines)]

Texts == {Blank, End, Command("QUIT", "")}
Letters ==
  {[from |-> "ann", to |-> t, body |-> b] :
     t \in {<<"bob">>, <<"eve", "ann">>}, b \in UNION {[1 .. n -> Texts] : n \in 1 .. 2}}
Batches == {<<m>> : m \in Letters} \cup {<<m, k>> : m \in Letters, k \in {l \in Letters : Len(l.body) = 1}}
Expected(batch) ==
  [i \in DOMAIN batch |-> [batch[i] EXCEPT !.to = SelectSeq(@, LAMBDA u : u \in Known)]]
AnswersTo(batch) ==
  Len(Joined([i \in DOMAIN batch |-> <<"from", "data">> \o batch[i].to]))
(* A batch is delivered message by message, each with its own recipients   *)
(* and lines, though a line of it reads like a command or an end; every    *)
(* command is answered, and the server is ready for the next batch.        *)
BatchArrives(batch) ==
  \A protocol \in {"SEND", "MAIL"} :
    LET lines == IF protocol = "SEND" THEN SendMultiple(batch) ELSE SendBatch(batch)
        once == Process(Idle, lines, protocol)
        twice == Process(once, lines, protocol)
    IN  /\ once.state = "IDLE" /\ once.delivered = Expected(batch)
        /\ once.answers = AnswersTo(batch) + (IF protocol = "SEND" THEN 0 ELSE 4)
        /\ twice.delivered = Expected(batch) \o Expected(batch)
=============================================================================
