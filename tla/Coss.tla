--------------------------------- MODULE Coss --------------------------------
(***************************************************************************)
(* The character stream client (annex_f/coss.py): characters are collected *)
(* until the buffer is full or a line ends, packed as its mode says, and   *)
(* unpacked at the other end.                                              *)
(***************************************************************************)
EXTENDS Layout

(* CossMode, and the masks of CharacterEncoder.encode and decode.          *)
Masks == [OCTET |-> 256, ITA5 |-> 128, LPI2E |-> 32, DPI2E |-> 32, SIX_BIT |-> 64]
Masked(mode, chars) == Kept([i \in DOMAIN chars |-> chars[i] % Masks[mode]])

(* Two bytes of two or three characters of 5 bits.                         *)
Pair(c0, c1, low, flag) == <<(c1 % 8) * 32 + c0, flag * 128 + (c1 \div 8) * 32 + low>>
(* _encode_dpi2e: threes in pairs, then one character loose or two in a    *)
(* pair that says there is no third.                                       *)
EncodeDpi2e(b) ==
  LET n == Len(b) \div 3
      rest == Rest(b, 3 * n)
  IN  Joined([i \in 1 .. n |-> Pair(b[3 * i - 2], b[3 * i - 1], b[3 * i], 1)])
        \o IF Len(rest) = 2 THEN Pair(rest[1], rest[2], 0, 0) ELSE rest
(* _decode_dpi2e.                                                          *)
DecodeDpi2e(raw) ==
  LET n == Len(raw) \div 2
      middle(i) == raw[2 * i - 1] \div 32 + ((raw[2 * i] \div 32) % 4) * 8
      third(i) == IF raw[2 * i] >= 128 THEN <<raw[2 * i] % 32>> ELSE <<>>
  IN  Joined([i \in 1 .. n |-> <<raw[2 * i - 1] % 32, middle(i)>> \o third(i)])
        \o IF Len(raw) % 2 = 1 THEN <<raw[Len(raw)] % 32>> ELSE <<>>

(* CharacterEncoder.encode, decode.                                        *)
Encode(mode, chars) ==
  IF mode = "DPI2E" THEN EncodeDpi2e(Masked(mode, chars)) ELSE Masked(mode, chars)
Decode(mode, raw) == IF mode = "DPI2E" THEN DecodeDpi2e(raw) ELSE Masked(mode, raw)

CR == 13
LF == 10
EndsLine(buf) == Len(buf) >= 2 /\ buf[Len(buf) - 1] = CR /\ buf[Len(buf)] = LF
(* _FlushBuffer.feed: after each character the whole buffer goes out when  *)
(* it is full or ends a line.                                              *)
FlushBuffer(data, threshold) ==
  LET upTo[n \in 0 .. Len(data)] ==
        IF n = 0 THEN [buf |-> <<>>, out |-> <<>>]
        ELSE LET buf == Append(upTo[n - 1].buf, data[n])
             IN  IF Len(buf) >= threshold \/ EndsLine(buf)
                 THEN [buf |-> <<>>, out |-> Append(upTo[n - 1].out, buf)]
                 ELSE [buf |-> buf, out |-> upTo[n - 1].out]
  IN  upTo[Len(data)]
(* feed_bytes, then tick or flush: what is left goes out too.              *)
Sent(data, threshold) ==
  LET fed == FlushBuffer(data, threshold)
  IN  IF fed.buf = <<>> THEN fed.out ELSE Append(fed.out, fed.buf)

Thresholds == {1, 3, 4, 8}
Streams == UNION {[1 .. n -> {CR, LF, 213}] : n \in 0 .. 5}
Received(data, mode, threshold) ==
  LET sent == Sent(data, threshold)
  IN  Joined([i \in DOMAIN sent |-> Decode(mode, Encode(mode, sent[i]))])
(* Whatever the mode and wherever the buffer was emptied, the characters   *)
(* arrive as they were put in, cut to the bits of the mode; nothing longer *)
(* than the threshold is sent and a line does not wait for the next.       *)
StreamReadsBack(data) ==
  \A threshold \in Thresholds :
    LET sent == Sent(data, threshold)
    IN  /\ \A mode \in DOMAIN Masks : Received(data, mode, threshold) = Masked(mode, data)
        /\ \A i \in DOMAIN sent :
             /\ Len(sent[i]) <= threshold
             /\ \A k \in 1 .. Len(sent[i]) - 1 : ~EndsLine(SubSeq(sent[i], 1, k))
=============================================================================
