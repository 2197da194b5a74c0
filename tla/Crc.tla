--------------------------------- MODULE Crc ---------------------------------
(***************************************************************************)
(* The checks of frames and packets (crc.py; crc16 of appendix_a_codec.py).*)
(* A register is the set of the positions of its bits that are 1.          *)
(***************************************************************************)
EXTENDS Layout

(* CRC16_STANAG_POLY_REFLECTED, CRC32_S5066_POLY_REFLECTED, _CRC16_POLY.   *)
Poly16 == {0, 3, 4, 7, 9, 12, 15}                                 \* 0x9299
Poly32 == {4, 6, 8, 10, 13, 14, 15, 18, 21, 23, 24, 25, 28, 29, 30, 31} \* 0xF3A4E550

(* crc16_ccitt, crc32_s5066: of each byte the least significant bit first. *)
Shift(register, bit, poly) ==
  LET out == (0 \in register) # (bit = 1)
      moved == {i - 1 : i \in register \ {0}}
  IN  IF out THEN (moved \ poly) \cup (poly \ moved) ELSE moved
ShiftOctet(register, octet, poly) ==
  LET after[k \in 0 .. 8] ==
        IF k = 0 THEN register ELSE Shift(after[k - 1], (octet \div 2^(k - 1)) % 2, poly)
  IN  after[8]
\* A function is applied to the register, for TLC to work it out octet by
\* octet: a long message does not nest deeply then.
Register(octets, poly) ==
  LET after[n \in 0 .. Len(octets)] ==
        IF n = 0 THEN {}
        ELSE [register \in SUBSET (0 .. 31) |-> ShiftOctet(register, octets[n], poly)][after[n - 1]]
  IN  after[Len(octets)]
\* Mutant of Crc16: it starts at the second byte.
Crc16OfRest(octets) == Register(Rest(octets, 1), Poly16)
Crc16(octets) == Register(octets, Poly16)
Crc32(octets) == Register(octets, Poly32)

OctetOf(register, n) ==
  Number([k \in 1 .. 8 |-> IF 8 * n + 8 - k \in register THEN 1 ELSE 0])
(* crc_to_wire_bytes, crc32_to_wire_bytes: the least significant byte      *)
(* first; encode_packet sends the most significant byte first.             *)
WireBytes(register, n) == [i \in 1 .. n |-> OctetOf(register, i - 1)]
BigEndianBytes(register) == Reverse(WireBytes(register, 2))
=============================================================================
