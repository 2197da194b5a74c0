------------------------------ MODULE ByteStream ------------------------------
(***************************************************************************)
(* The readers that cut a stream of bytes into messages, whatever the      *)
(* pieces a socket or a modem hands over: DpduReassembler                  *)
(* (dpdu_framing.py), PacketReader (appendix_a_codec.py) and               *)
(* _process_buffer (raw_sis_socket.py).  A byte is a symbol here: of a     *)
(* preamble, of a header, or of a payload.                                 *)
(***************************************************************************)
EXTENDS Naturals, Sequences, SequencesExt, FiniteSetsExt

CONSTANTS
  Kinds,    \* of the readers below
  MaxPieces \* bound: the frames, bad frames and noise of one stream

VARIABLES
  kind, stream,
  rest,      \* not handed over yet
  buf, out   \* the reader's _buf and what it returned
vars == <<kind, stream, rest, buf, out>>

(* What distinguishes the readers: the preamble; how much they keep when   *)
(* there is none in sight; what a bad check of header or payload does.     *)
Reader ==
  [dpdu      |-> [preamble |-> <<"P1", "P2">>, keep |-> 1, checks |-> FALSE, resyncs |-> FALSE],
   packet    |-> [preamble |-> <<"P1", "P2", "P3">>, keep |-> 2, checks |-> TRUE, resyncs |-> TRUE],
   primitive |-> [preamble |-> <<"P1", "P2">>, keep |-> 0, checks |-> TRUE, resyncs |-> FALSE]]
Preamble(k) == Reader[k].preamble

\* After the preamble come the check of the header and the length.  Where
\* the header is not one, any byte is taken for a length.
LengthOf(symbol) == CASE symbol = "L0" -> 0 [] symbol = "L2" -> 2 [] OTHER -> 1
HeaderSize(k) == Len(Preamble(k)) + 2
GoodHeader(k, b) == Reader[k].checks => b[HeaderSize(k) - 1] = "ok"
FrameSize(k, b) == HeaderSize(k) + LengthOf(b[HeaderSize(k)])
\* A primitive has no check of its payload.
GoodPayload(k, b) ==
  Reader[k].resyncs => "bad" \notin ToSet(SubSeq(b, HeaderSize(k) + 1, FrameSize(k, b)))

\* The places a preamble starts at.
Found(k, b) ==
  {i \in 1 .. Len(b) : /\ i + Len(Preamble(k)) - 1 <= Len(b)
                       /\ SubSeq(b, i, i + Len(Preamble(k)) - 1) = Preamble(k)}
From(b, i) == SubSeq(b, i, Len(b))
LastOf(b, n) == From(b, 1 + IF Len(b) > n THEN Len(b) - n ELSE 0)

\* Mutant of Kept: what is not a preamble yet is thrown away.
KeptNone(k, b) == <<>>
(* No preamble in sight: its beginning may be there.                       *)
Kept(k, b) == LastOf(b, Reader[k].keep)

\* The bytes from the first preamble on.
Sighted(k, b) == From(b, Min(Found(k, b)))

(* A pass of the loop of _drain, read and _process_buffer, on what is      *)
(* returned and what is left: a message is taken or a bad one skipped.  A  *)
(* pass that leaves everything as it is is the last one.                   *)
Pass(k, s) ==
  LET f == Sighted(k, s.buf)
      left(x) == [out |-> s.out, buf |-> x]
      skip == left(From(f, Len(Preamble(k)) + 1))
  IN  IF Found(k, s.buf) = {} THEN left(Kept(k, s.buf))
      ELSE IF Len(f) < HeaderSize(k) THEN left(f)
      ELSE IF ~GoodHeader(k, f) THEN IF Reader[k].resyncs THEN skip ELSE left(f)
      ELSE IF Len(f) < FrameSize(k, f) THEN left(f)
      ELSE IF ~GoodPayload(k, f) THEN skip
      ELSE [out |-> Append(s.out, SubSeq(f, 1, FrameSize(k, f))), buf |-> From(f, FrameSize(k, f) + 1)]

(* A pass of split_stream, on the frames of a stream that is there at once;*)
(* where a header is cut off it goes on from the byte after.  One header   *)
(* stands for both that dpdu_wire_size may find too short, the first eight *)
(* bytes and the length of the data.                                       *)
SplitPass(k, s) ==
  LET f == Sighted(k, s.buf)
  IN  IF Found(k, s.buf) = {} THEN s
      ELSE IF Len(f) < HeaderSize(k) THEN [out |-> s.out, buf |-> Tail(f)]
      ELSE IF Len(f) < FrameSize(k, f) THEN s
      ELSE [out |-> Append(s.out, SubSeq(f, 1, FrameSize(k, f))), buf |-> From(f, FrameSize(k, f) + 1)]

(* The loops: a pass that is not the last shortens what is left, so there  *)
(* are no more of them than bytes.                                         *)
Drain(k, b, done) ==
  LET after[n \in 0 .. Len(b)] == IF n = 0 THEN [out |-> done, buf |-> b] ELSE Pass(k, after[n - 1])
  IN  after[Len(b)]
SplitStream(k, b) ==
  LET after[n \in 0 .. Len(b)] == IF n = 0 THEN [out |-> <<>>, buf |-> b] ELSE SplitPass(k, after[n - 1])
  IN  after[Len(b)].out
-----------------------------------------------------------------------------
\* Frames, a frame whose payload looks like a preamble, frames whose header
\* or payload was damaged, noise, and the beginnings of a preamble.
PiecesOf(k) ==
  {Preamble(k) \o p : p \in {<<"ok", "L0">>, <<"ok", "L1", "x">>, <<"ok", "L2", "P1", "P2">>,
                             <<"bad", "L1", "x">>, <<"ok", "L1", "bad">>}}
    \cup {<<"x">>, <<"P1">>, <<"P1", "P2">>}

Init == kind = "none" /\ stream = <<>> /\ rest = <<>> /\ buf = <<>> /\ out = <<>>

Send ==
  /\ kind = "none"
  /\ \E k \in Kinds : /\ kind' = k
                      /\ \E n \in 1 .. MaxPieces : \E pieces \in [1 .. n -> PiecesOf(k)] :
                           stream' = FlattenSeq(pieces)
  /\ rest' = stream'
  /\ UNCHANGED <<buf, out>>

(* feed, and recv: some of the bytes there are.                            *)
Read ==
  /\ rest # <<>>
  /\ \E n \in DOMAIN rest :
       LET drained == Drain(kind, buf \o SubSeq(rest, 1, n), out)
       IN  /\ buf' = drained.buf /\ out' = drained.out
           /\ rest' = From(rest, n + 1)
  /\ UNCHANGED <<kind, stream>>

Next == Send \/ Read
Spec == Init /\ [][Next]_vars
-----------------------------------------------------------------------------
Whole == IF kind = "dpdu" THEN SplitStream(kind, stream) ELSE Drain(kind, stream, <<>>).out

(* How a stream is cut into pieces makes no difference: whenever the rest  *)
(* came at once the messages would be those of the whole stream, for       *)
(* D_PDUs those split_stream finds in it; no cut loses a message, makes    *)
(* one up or gives one twice, be it through a preamble, a header or a bad  *)
(* frame (DpduReassembler._drain, PacketReader.read).                      *)
ChunksDoNotMatter ==
  kind # "none" => Drain(kind, buf \o rest, out).out = Whole
=============================================================================
