------------------------------- MODULE Layout --------------------------------
(***************************************************************************)
(* How the codecs of this program are described.  What an encoder writes   *)
(* is a layout: the pieces of fields in the order they go out, most        *)
(* significant bit first.  What a decoder reads is, for each field, the    *)
(* places its bits come from, counted from the start of what it is given.  *)
(* The two are written down apart, from the two functions of the code, so  *)
(* that a place the encoder and the decoder disagree about shows.          *)
(***************************************************************************)
EXTENDS Naturals, Sequences, FiniteSets, SequencesExt

Piece(f, hi, lo) == <<[field |-> f, hi |-> hi, lo |-> lo]>>
Field(f, w) == Piece(f, w - 1, 0)
Octet(f) == Field(f, 8)
BigEndian(f) == Field(f, 16)
LittleEndian(f) == Piece(f, 7, 0) \o Piece(f, 15, 8)
\* Fields of 32 bits carry values below 2^31 here.
NotUsed(w) == Field("zero", w)
Long(f) == NotUsed(1) \o Field(f, 31)

Bits(x, hi, lo) == [k \in 1 .. hi - lo + 1 |-> (x \div 2^(hi - k + 1)) % 2]
\* Recursive functions here: TLC works out the folds of the community
\* modules too slowly for sequences of this length.
Joined(seqs) ==
  LET upTo[n \in 0 .. Len(seqs)] == IF n = 0 THEN <<>> ELSE upTo[n - 1] \o seqs[n]
  IN  upTo[Len(seqs)]
Number(bits) ==
  LET value[n \in 0 .. Len(bits)] == IF n = 0 THEN 0 ELSE 2 * value[n - 1] + bits[n]
  IN  value[Len(bits)]
\* TLC keeps a sequence put together with \o, and works one out anew that
\* is given as a function, at each use.
Kept(s) == s \o <<>>
Octets(bits) == Kept([i \in 1 .. Len(bits) \div 8 |-> Number(SubSeq(bits, 8 * i - 7, 8 * i))])

Fields(layout) == {layout[i].field : i \in DOMAIN layout} \ {"zero"}
Width(layout, f) ==
  FoldLeft(LAMBDA a, p : IF p.field = f THEN a + p.hi - p.lo + 1 ELSE a, 0, layout)
Values(v) == [f \in DOMAIN v \cup {"zero"} |-> IF f = "zero" THEN 0 ELSE v[f]]
Write(layout, v) ==
  Octets(Joined([i \in DOMAIN layout |->
                       Bits(Values(v)[layout[i].field], layout[i].hi, layout[i].lo)]))

At(o, hi, lo) == <<[at |-> o, hi |-> hi, lo |-> lo]>>
OctetAt(o) == At(o, 7, 0)
BigEndianAt(o) == OctetAt(o) \o OctetAt(o + 1)
LittleEndianAt(o) == OctetAt(o + 1) \o OctetAt(o)
LongAt(o) == At(o, 6, 0) \o OctetAt(o + 1) \o OctetAt(o + 2) \o OctetAt(o + 3)

ReadOne(octets, p) == (octets[p.at + 1] \div 2^p.lo) % 2^(p.hi - p.lo + 1)
Read(octets, places) ==
  LET upTo[n \in 0 .. Len(places)] ==
        IF n = 0 THEN 0
        ELSE upTo[n - 1] * 2^(places[n].hi - places[n].lo + 1) + ReadOne(octets, places[n])
  IN  upTo[Len(places)]
ReadAll(octets, spots) == [f \in DOMAIN spots |-> Read(octets, spots[f])]
Rest(octets, n) == SubSeq(octets, n + 1, Len(octets))

(* The values a layout is tried with: all fields 0, and one field its      *)
(* least, its greatest and its upper bit, which no shift or swap keeps.    *)
Probes(layout) ==
  LET fields == Fields(layout)
      zero == [f \in fields |-> 0]
      upper == [f \in fields |-> 2^(Width(layout, f) - 1)]
  IN  {zero} \cup UNION {{[zero EXCEPT ![f] = x] :
                            x \in {1, upper[f], upper[f] + (upper[f] - 1)}} : f \in fields}
=============================================================================
