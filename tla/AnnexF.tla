-------------------------------- MODULE AnnexF -------------------------------
(***************************************************************************)
(* What the clients of Annex F put into their U_PDUs: the headers of       *)
(* updu.py, rcop.py, cftp.py and ether_client.py, files (bftp.py, cftp.py),*)
(* mail (cftp.py), packed characters (coss.py) and IPv4 datagrams          *)
(* (ip_client.py).  gzip gives back what it was given and is left out.     *)
(***************************************************************************)
EXTENDS Layout, FiniteSetsExt

Refused == [ok |-> FALSE]
-----------------------------------------------------------------------------
(* The headers: encode_updu, encode_rcop_pdu, _encode_rcopv1,              *)
(* encode_ec_frame, and what decodes them.                                 *)
UpduWritten == Field("connection_id", 4) \o Field("updu_id", 12) \o Octet("segment_number") \o NotUsed(8)
UpduRead == [connection_id |-> At(0, 7, 4), updu_id |-> At(0, 3, 0) \o OctetAt(1),
             segment_number |-> OctetAt(2)]
RcopV1Written == Field("connection_id", 4) \o NotUsed(4) \o Octet("updu_id") \o BigEndian("segment_number")
RcopV1Read == [connection_id |-> At(0, 7, 4), updu_id |-> OctetAt(1), segment_number |-> BigEndianAt(2)]
RcopWritten ==
  Field("connection_id", 4) \o NotUsed(4) \o Octet("updu_id") \o BigEndian("segment_number")
    \o BigEndian("app_id")
RcopRead == [connection_id |-> At(0, 7, 4), updu_id |-> OctetAt(1), segment_number |-> BigEndianAt(2),
             app_id |-> BigEndianAt(4)]
EcFrameWritten == BigEndian("ethertype")
EcFrameRead == [ethertype |-> BigEndianAt(0)]
(* stanag_addr_to_pseudo_ether, pseudo_ether_to_stanag_addr.               *)
Prefix == 80 * 256 + 102
PseudoEtherWritten == BigEndian("prefix") \o Long("addr")
PseudoEtherRead == [prefix |-> BigEndianAt(0), addr |-> LongAt(2)]

Formats ==
  [updu |-> [size |-> 4, out |-> UpduWritten, in |-> UpduRead],
   rcop |-> [size |-> 6, out |-> RcopWritten, in |-> RcopRead],
   rcopv1 |-> [size |-> 4, out |-> RcopV1Written, in |-> RcopV1Read],
   ec_frame |-> [size |-> 2, out |-> EcFrameWritten, in |-> EcFrameRead],
   pseudo_ether |-> [size |-> 6, out |-> PseudoEtherWritten, in |-> PseudoEtherRead]]
Headers ==
  UNION {{[kind |-> k, v |-> IF k = "pseudo_ether" THEN [v EXCEPT !.prefix = Prefix] ELSE v] :
            v \in Probes(Formats[k].out)} : k \in DOMAIN Formats}

DecodeHeader(kind, raw) ==
  IF \/ Len(raw) < Formats[kind].size
     \/ kind = "pseudo_ether" /\ Read(raw, PseudoEtherRead.prefix) # Prefix
  THEN Refused
  ELSE [ok |-> TRUE, v |-> ReadAll(raw, Formats[kind].in), data |-> Rest(raw, Formats[kind].size)]
HeaderReadsBack(h) ==
  LET raw == Write(Formats[h.kind].out, h.v)
  IN  /\ DecodeHeader(h.kind, raw \o <<1, 2>>) = [ok |-> TRUE, v |-> h.v, data |-> <<1, 2>>]
      /\ ~DecodeHeader(h.kind, Front(raw)).ok
      /\ h.kind = "pseudo_ether" => ~DecodeHeader(h.kind, Reverse(raw)).ok
-----------------------------------------------------------------------------
(* The pieces of at most room bytes: segment_updu, _segment_rcopv1.        *)
Cut(data, room) ==
  IF data = <<>> THEN <<<<>>>>
  ELSE [i \in 1 .. (Len(data) + room - 1) \div room |->
          SubSeq(data, (i - 1) * room + 1, IF i * room < Len(data) THEN i * room ELSE Len(data))]
\* One segment number of the limit is never used: the count is looked at
\* after it was raised.
SegmentUpdu(data, room, limit) ==
  IF data # <<>> /\ Len(Cut(data, room)) >= limit THEN Refused
  ELSE [ok |-> TRUE, segments |-> Cut(data, room)]

(* feed of ReassemblyContext and _RcopV1ReassemblyContext, on the buffer of*)
(* one message: what is kept, and the message once it is complete.         *)
Feed(buffer, number, data, room) ==
  LET kept == [i \in DOMAIN buffer \cup {number} |-> IF i = number THEN data ELSE buffer[i]]
  IN  IF number = 0 /\ Len(data) < room THEN [buffer |-> <<>>, out |-> <<data>>]
      ELSE IF Len(data) < room /\ Cardinality(DOMAIN kept) = Max(DOMAIN kept) + 1
      THEN [buffer |-> <<>>, out |-> <<Joined([i \in 1 .. Max(DOMAIN kept) + 1 |-> kept[i - 1]])>>]
      ELSE [buffer |-> kept, out |-> <<>>]

(* The segments come back as the message however the first ones were       *)
(* overtaken, as long as the last is last; a message that fills its last   *)
(* segment never comes; and one more segment than fits is refused.         *)
Room == 2
Limit == 4
Messages == {[i \in 1 .. n |-> i] : n \in 0 .. 2 * Limit}
SegmentsReadBack(data) ==
  LET cut == SegmentUpdu(data, Room, Limit)
      n == Len(cut.segments)
      fed(order) ==
        LET upTo[k \in 0 .. n] ==
              IF k = 0 THEN [buffer |-> <<>>, out |-> <<>>]
              ELSE Feed(upTo[k - 1].buffer, order[k] - 1, cut.segments[order[k]], Room)
        IN  upTo[n].out
      orders == {o \in [1 .. n -> 1 .. n] : (\A i, j \in 1 .. n : o[i] = o[j] => i = j) /\ o[n] = n}
  IN  IF cut.ok
      THEN \A o \in orders : fed(o) = IF data # <<>> /\ Len(data) % Room = 0 THEN <<>> ELSE <<data>>
      ELSE Len(data) > (Limit - 1) * Room
-----------------------------------------------------------------------------
(* _build_bftp_header, _encode_bftp; FRAPv2 sends the header alone.        *)
BftpHeader(name, size) == <<Len(name)>> \o name \o Write(Long("size"), [size |-> size])
EncodeBftp(name, data) == BftpHeader(name, Len(data)) \o data
SizeIn(raw, at) == Read(raw, LongAt(at))
(* _decode_bftp: bytes after the file are left alone.                      *)
DecodeBftp(raw) ==
  IF Len(raw) < 5 \/ Len(raw) < raw[1] + 5 \/ Len(raw) < raw[1] + 5 + SizeIn(raw, raw[1] + 1)
  THEN Refused
  ELSE [ok |-> TRUE, name |-> SubSeq(raw, 2, raw[1] + 1),
        data |-> SubSeq(raw, raw[1] + 6, raw[1] + 5 + SizeIn(raw, raw[1] + 1))]
(* _encode_bftpv1, _decode_bftpv1.                                         *)
Sync == <<16, 2>>
EncodeBftpV1(name, data) == Sync \o EncodeBftp(name, data)
DecodeBftpV1(raw) ==
  IF Len(raw) < 2 \/ SubSeq(raw, 1, 2) # Sync THEN Refused ELSE DecodeBftp(Rest(raw, 2))
(* _on_frapv2.                                                             *)
DecodeFrapV2(raw) ==
  IF raw = <<>> \/ Len(raw) < raw[1] + 5 THEN Refused
  ELSE [ok |-> TRUE, name |-> SubSeq(raw, 2, raw[1] + 1), size |-> SizeIn(raw, raw[1] + 1)]

Files == {[name |-> n, data |-> d] : n \in {<<>>, <<65>>, <<16, 2, 0>>, [i \in 1 .. 255 |-> i]},
                                     d \in {<<>>, <<0>>, <<16, 2, 1, 65>>, [i \in 1 .. 300 |-> i % 256]}}
(* A file comes back whole, what follows it is not taken for it, and a file*)
(* whose end is missing is refused.                                        *)
FileReadsBack(f) ==
  LET raw == EncodeBftp(f.name, f.data)
      whole == [ok |-> TRUE, name |-> f.name, data |-> f.data]
  IN  /\ DecodeBftp(raw \o <<9, 9>>) = whole
      /\ DecodeBftpV1(EncodeBftpV1(f.name, f.data)) = whole
      /\ \A n \in {Len(raw) - 1, Len(f.name) + 5, Len(f.name) + 4, 4, 0} :
           n >= 0 /\ n < Len(raw) => /\ ~DecodeBftp(SubSeq(raw, 1, n)).ok
                                     /\ ~DecodeBftpV1(Sync \o SubSeq(raw, 1, n)).ok
      /\ DecodeFrapV2(BftpHeader(f.name, Len(f.data)))
           = [ok |-> TRUE, name |-> f.name, size |-> Len(f.data)]
-----------------------------------------------------------------------------
(* Mail: the identifier, the recipients and the size are a line each, the  *)
(* message follows.  Sizes of one digit here.                              *)
LineEnd == 10
Comma == 44
(* _encode_cftp_message.                                                   *)
EncodeMail(m) ==
  LET list == Joined([i \in DOMAIN m.recipients |->
                        IF i = 1 THEN m.recipients[1] ELSE <<Comma>> \o m.recipients[i]])
  IN  m.id \o <<LineEnd>> \o list \o <<LineEnd, 48 + Len(m.message), LineEnd>> \o m.message
(* The parts between separators: at most n cuts from the left.             *)
PartsAt(raw, separator, n) ==
  LET upTo[k \in 0 .. Len(raw)] ==
        IF k = 0 THEN <<<<>>>>
        ELSE IF raw[k] = separator /\ Len(upTo[k - 1]) <= n THEN Append(upTo[k - 1], <<>>)
        ELSE [upTo[k - 1] EXCEPT ![Len(upTo[k - 1])] = Append(@, raw[k])]
  IN  upTo[Len(raw)]
(* _decode_cftp_message: what is longer than the size says is cut off.     *)
DecodeMail(raw) ==
  LET lines == PartsAt(raw, LineEnd, 3)
      size == lines[3][1] - 48
  IN  IF Len(lines) < 4 THEN Refused
      ELSE [ok |-> TRUE, id |-> lines[1], recipients |-> PartsAt(lines[2], Comma, Len(lines[2])),
            message |-> SubSeq(lines[4], 1, IF size < Len(lines[4]) THEN size ELSE Len(lines[4]))]
Mails == {[id |-> i, recipients |-> r, message |-> m] :
            i \in {<<65>>, <<66, 66>>}, r \in {<<<<97>>>>, <<<<97>>, <<98, 99>>>>},
            m \in {<<>>, <<LineEnd>>, <<Comma, LineEnd, 1>>, <<13, LineEnd, 46, 13, LineEnd>>}}

(* send_mail, _segment_rcopv1: a file with the name of the mail, cut into  *)
(* the segments of one identifier.                                         *)
MailRoom == 8
SegmentRcopV1(id, data) ==
  LET cut == Cut(data, MailRoom)
  IN  [i \in DOMAIN cut |->
         Write(RcopV1Written, [connection_id |-> 3, updu_id |-> id, segment_number |-> i - 1]) \o cut[i]]
SendMail(m, id) == SegmentRcopV1(id, EncodeBftpV1(m.id, EncodeMail(m)))

(* on_unidata_indication, _process_received, _send_ack on what is kept for *)
(* one sender: [buffer, mails, acks, acknowledged].                        *)
MsgAck == <<16, 11>>
Waiting == [buffer |-> <<>>, mails |-> <<>>, acks |-> <<>>, acknowledged |-> 0]
AckOf(header) == Write(RcopV1Written, [header EXCEPT !.segment_number = 0]) \o MsgAck
ProcessReceived(s, header, file) ==
  LET bftp == DecodeBftpV1(file)
      mail == DecodeMail(bftp.data)
  IN  IF ~bftp.ok \/ ~mail.ok THEN s
      ELSE [s EXCEPT !.mails = Append(@, mail), !.acks = Append(@, AckOf(header))]
OnUpdu(s, raw) ==
  LET pdu == DecodeHeader("rcopv1", raw)
      fed == Feed(s.buffer, pdu.v.segment_number, pdu.data, MailRoom)
      kept == [s EXCEPT !.buffer = fed.buffer]
  IN  IF ~pdu.ok THEN s
      ELSE IF pdu.data = MsgAck THEN [s EXCEPT !.acknowledged = @ + 1]
      ELSE IF fed.out = <<>> THEN kept
      ELSE ProcessReceived(kept, pdu.v, fed.out[1])
OnUpdus(start, updus) ==
  LET upTo[n \in 0 .. Len(updus)] == IF n = 0 THEN start ELSE OnUpdu(upTo[n - 1], updus[n])
  IN  upTo[Len(updus)]

(* A mail comes back as it was sent, once, and its sender hears of it with *)
(* the identifier of the mail; one that fills its last segment never comes *)
(* and is never acknowledged.                                              *)
MailReadsBack(m) ==
  LET whole == [ok |-> TRUE, id |-> m.id, recipients |-> m.recipients, message |-> m.message]
      fills == Len(EncodeBftpV1(m.id, EncodeMail(m))) % MailRoom = 0
      there == OnUpdus(Waiting, SendMail(m, 200))
  IN  /\ DecodeMail(EncodeMail(m) \o <<0>>) = whole
      /\ there.mails = IF fills THEN <<>> ELSE <<whole>>
      /\ OnUpdus(Waiting, there.acks).acknowledged = Len(there.mails)
      /\ \A i \in DOMAIN there.acks : DecodeHeader("rcopv1", there.acks[i]).v.updu_id = 200
=============================================================================
