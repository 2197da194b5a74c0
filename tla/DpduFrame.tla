------------------------------ MODULE DpduFrame ------------------------------
(***************************************************************************)
(* D_PDUs on the air (dpdu_frame.py), and how a modem adapter finds where  *)
(* one ends (dpdu_framing.py, dpdu_wire_size).  A frame is                 *)
(*   sync, common header, addresses, the header of its type, CRC-16,       *)
(*   user data, CRC-32;                                                    *)
(* a Management D_PDU carries its data in the header and has no CRC-32.    *)
(***************************************************************************)
EXTENDS Crc, TLC

Sync == <<144, 235>>
DpduTypes ==
  [DATA_ONLY |-> 0, ACK_ONLY |-> 1, DATA_ACK |-> 2, RESETWIN_RESYNC |-> 3,
   EXPEDITED_DATA_ONLY |-> 4, EXPEDITED_ACK_ONLY |-> 5, MANAGEMENT |-> 6, NON_ARQ |-> 7,
   EXPEDITED_NON_ARQ |-> 8, WARNING |-> 15]
DataTypes == {"DATA_ONLY", "DATA_ACK", "EXPEDITED_DATA_ONLY"}
NonArqTypes == {"NON_ARQ", "EXPEDITED_NON_ARQ"}
(* DATA_CRC_DPDU_TYPES.                                                    *)
DataCrcTypes == DataTypes \cup NonArqTypes

\* Mutant of AddressSize: only the address of the sender counts.
AddressSizeOfOne(a, b) ==
  CHOOSE n \in 1 .. 7 : b < 16^n /\ (n = 1 \/ b >= 16^(n - 1))
(* Address.auto: as many nibbles as the longer address has.                *)
AddressSize(a, b) ==
  CHOOSE n \in 1 .. 7 : /\ a < 16^n /\ b < 16^n
                        /\ n = 1 \/ a >= 16^(n - 1) \/ b >= 16^(n - 1)
-----------------------------------------------------------------------------
(* _encode_type_specific_header.                                           *)
Flags(names) == Joined([i \in DOMAIN names |-> Field(names[i], 1)])
DataWritten ==
  Flags(<<"pdu_start", "pdu_end", "deliver_in_order", "drop_pdu", "tx_uwe", "tx_lwe">>)
    \o Piece("data_size", 9, 8) \o Piece("data_size", 7, 0) \o Octet("tx_frame_seq")
NonArqWritten ==
  Piece("cpdu_id", 11, 8) \o Flags(<<"deliver_in_order", "group_address">>)
    \o Piece("data_size", 9, 8) \o Piece("data_size", 7, 0) \o Piece("cpdu_id", 7, 0)
    \o BigEndian("cpdu_size") \o BigEndian("first_byte_position") \o BigEndian("cpdu_reception_window")
HeaderWritten ==
  [DATA_ONLY           |-> DataWritten,
   ACK_ONLY            |-> Octet("rx_lwe"),
   DATA_ACK            |-> DataWritten \o Octet("rx_lwe"),
   RESETWIN_RESYNC     |-> Flags(<<"full_reset_cmd", "reset_tx_win_req", "reset_rx_win_cmd", "reset_ack">>)
                             \o NotUsed(4) \o Octet("new_rx_lwe") \o Octet("reset_frame_id"),
   EXPEDITED_DATA_ONLY |-> Flags(<<"pdu_start", "pdu_end">>) \o NotUsed(4) \o Piece("data_size", 9, 8)
                             \o Piece("data_size", 7, 0) \o Octet("tx_frame_seq")
                             \o NotUsed(4) \o Field("cpdu_id", 4),
   EXPEDITED_ACK_ONLY  |-> Octet("rx_lwe"),
   MANAGEMENT          |-> NotUsed(5) \o Flags(<<"extended", "valid_message", "message_ack">>)
                             \o Octet("management_frame_id"),
   NON_ARQ             |-> NonArqWritten,
   EXPEDITED_NON_ARQ   |-> NonArqWritten,
   WARNING             |-> Field("received_dpdu_type", 4) \o Field("reason", 4)]

(* _parse_type_specific_header.                                            *)
SizeAt == At(0, 1, 0) \o OctetAt(1)
DataRead ==
  [pdu_start |-> At(0, 7, 7), pdu_end |-> At(0, 6, 6), deliver_in_order |-> At(0, 5, 5),
   drop_pdu |-> At(0, 4, 4), tx_uwe |-> At(0, 3, 3), tx_lwe |-> At(0, 2, 2),
   data_size |-> SizeAt, tx_frame_seq |-> OctetAt(2)]
NonArqRead ==
  [cpdu_size |-> BigEndianAt(3), first_byte_position |-> BigEndianAt(5),
   cpdu_reception_window |-> BigEndianAt(7), group_address |-> At(0, 2, 2),
   deliver_in_order |-> At(0, 3, 3), cpdu_id |-> At(0, 7, 4) \o OctetAt(2), data_size |-> SizeAt]
HeaderRead ==
  [DATA_ONLY           |-> DataRead,
   ACK_ONLY            |-> [rx_lwe |-> OctetAt(0)],
   DATA_ACK            |-> DataRead @@ [rx_lwe |-> OctetAt(3)],
   RESETWIN_RESYNC     |-> [full_reset_cmd |-> At(0, 7, 7), reset_tx_win_req |-> At(0, 6, 6),
                            reset_rx_win_cmd |-> At(0, 5, 5), reset_ack |-> At(0, 4, 4),
                            new_rx_lwe |-> OctetAt(1), reset_frame_id |-> OctetAt(2)],
   EXPEDITED_DATA_ONLY |-> [pdu_start |-> At(0, 7, 7), pdu_end |-> At(0, 6, 6), data_size |-> SizeAt,
                            tx_frame_seq |-> OctetAt(2), cpdu_id |-> At(3, 3, 0)],
   EXPEDITED_ACK_ONLY  |-> [rx_lwe |-> OctetAt(0)],
   MANAGEMENT          |-> [extended |-> At(0, 2, 2), valid_message |-> At(0, 1, 1),
                            message_ack |-> At(0, 0, 0), management_frame_id |-> OctetAt(1)],
   NON_ARQ             |-> NonArqRead,
   EXPEDITED_NON_ARQ   |-> NonArqRead,
   WARNING             |-> [received_dpdu_type |-> At(0, 7, 4), reason |-> At(0, 3, 0)]]

\* Where the rest of a header starts: the acknowledged numbers, the message
\* of a Management D_PDU.
TailAt == [ACK_ONLY |-> 1, DATA_ACK |-> 4, EXPEDITED_ACK_ONLY |-> 1, MANAGEMENT |-> 2]
HasAcks(type) == type \in DOMAIN TailAt \ {"MANAGEMENT"}
HeaderTail(d) ==
  IF HasAcks(d.type) THEN d.sel_acks
  ELSE IF d.type = "MANAGEMENT" THEN d.user_data ELSE <<>>
-----------------------------------------------------------------------------
(* _header_without_crc.                                                    *)
Common == Field("type", 4) \o Field("eow", 12) \o Octet("eot") \o Field("addr_size", 3) \o Field("hdr_size", 5)
Addresses(size) == Field("destination", 4 * size) \o Field("source", 4 * size)
\* What the header of a type says of the data.
OfData(d) == [data_size |-> Len(d.user_data), extended |-> IF d.user_data = <<>> THEN 0 ELSE 1]
TypeSpecific(d) ==
  Write(HeaderWritten[d.type],
        [f \in DOMAIN d.v \cup DOMAIN OfData(d) |-> IF f \in DOMAIN d.v THEN d.v[f] ELSE OfData(d)[f]])
    \o HeaderTail(d)
HeaderSize(d) == 4 + Len(TypeSpecific(d)) + 2
Header(d) ==
  LET size == AddressSize(d.destination, d.source)
  IN  Write(Common \o Addresses(size),
            [type |-> DpduTypes[d.type], eow |-> d.eow, eot |-> d.eot, addr_size |-> size,
             hdr_size |-> HeaderSize(d), destination |-> d.destination, source |-> d.source])
        \o TypeSpecific(d)

(* What encode_dpdu encodes: addresses of 28 bits (Address), bytes, and a  *)
(* header whose length its field can hold (_header_without_crc).           *)
Encodable(d) ==
  /\ d.type \in DOMAIN DpduTypes /\ {d.eow, d.eot} \subseteq Nat
  /\ {d.destination, d.source} \subseteq 0 .. 2^28 - 1
  /\ Fields(HeaderWritten[d.type]) \subseteq DOMAIN d.v \cup DOMAIN OfData(d)
  /\ \A f \in DOMAIN d.v : d.v[f] \in Nat
  /\ {d.sel_acks, d.user_data} \subseteq Seq(0 .. 255)
  /\ HeaderSize(d) <= 31

(* encode_dpdu.                                                            *)
EncodeDpdu(d) ==
  Sync \o Header(d) \o WireBytes(Crc16(Header(d)), 2)
    \o (IF d.type \in DataCrcTypes THEN d.user_data \o WireBytes(Crc32(d.user_data), 4) ELSE <<>>)

\* The places of the common header, from the sync on; the length of the
\* addresses and of the header, from which all others follow.
CommonAt == [type |-> At(2, 7, 4), eow |-> At(2, 3, 0) \o OctetAt(3), eot |-> OctetAt(4)]
AddrSize(octets) == Read(octets, At(5, 7, 5))
HdrSize(octets) == Read(octets, At(5, 4, 0))
TypeOf(octets) == CHOOSE t \in DOMAIN DpduTypes : DpduTypes[t] = Read(octets, CommonAt.type)
CrcOffset(octets) == HdrSize(octets) + AddrSize(octets)
Specific(octets) == SubSeq(octets, 7 + AddrSize(octets), CrcOffset(octets))

(* decode_dpdu: the bytes the check of the header is of.                   *)
CheckedHeader(octets) == SubSeq(octets, 3, CrcOffset(octets))
HeaderCrcOk(octets) ==
  SubSeq(octets, CrcOffset(octets) + 1, CrcOffset(octets) + 2) = WireBytes(Crc16(CheckedHeader(octets)), 2)

(* _decode_address.                                                        *)
NibblesAt(o, from, to) ==
  Joined([k \in 1 .. to - from + 1 |->
                LET n == from + k - 1 IN IF n % 2 = 0 THEN At(o + n \div 2, 7, 4) ELSE At(o + n \div 2, 3, 0)])

(* decode_dpdu.                                                            *)
DecodeDpdu(octets) ==
  LET type == TypeOf(octets)
      m == AddrSize(octets)
      v == ReadAll(Specific(octets), HeaderRead[type])
      tail == IF type \in DOMAIN TailAt THEN Rest(Specific(octets), TailAt[type]) ELSE <<>>
      payload == CrcOffset(octets) + 2
      data == IF type \in DataCrcTypes THEN SubSeq(octets, payload + 1, payload + v.data_size)
              ELSE IF type = "MANAGEMENT" THEN tail ELSE <<>>
  IN  [type |-> type, eow |-> Read(octets, CommonAt.eow), eot |-> Read(octets, CommonAt.eot),
       destination |-> Read(octets, NibblesAt(6, 0, m - 1)),
       source |-> Read(octets, NibblesAt(6, m, 2 * m - 1)),
       v |-> [f \in DOMAIN v \ {"data_size", "extended"} |-> v[f]],
       sel_acks |-> IF HasAcks(type) THEN tail ELSE <<>>,
       user_data |-> data]

(* validate_crc32.                                                         *)
DataCrcOk(octets) ==
  LET payload == CrcOffset(octets) + 2
      size == Read(Specific(octets), SizeAt)
  IN  TypeOf(octets) \in DataCrcTypes =>
        Rest(octets, payload + size) = WireBytes(Crc32(SubSeq(octets, payload + 1, payload + size)), 4)

(* dpdu_wire_size.                                                         *)
WireSize(octets) ==
  LET payload == 2 + HdrSize(octets) + AddrSize(octets)
      at == 6 + AddrSize(octets)
  IN  IF TypeOf(octets) \in DataCrcTypes
      THEN payload + Read(octets, At(at, 1, 0) \o OctetAt(at + 1)) + 4
      ELSE payload
-----------------------------------------------------------------------------
(* The frames tried (_ensure_data_payload: a non-ARQ D_PDU has data).      *)
Plain(type, v, destination, sel_acks, data) ==
  [type |-> type, eow |-> 2561, eot |-> 255, destination |-> destination, source |-> 1,
   v |-> v, sel_acks |-> sel_acks, user_data |-> data]
FieldsOf(type) ==
  SelectSeq(HeaderWritten[type], LAMBDA p : p.field \notin {"data_size", "extended"})
DataOf(type) ==
  IF type \in NonArqTypes THEN {<<5>>, [i \in 1 .. 257 |-> i % 256]}
  ELSE IF type \in DataTypes \cup {"MANAGEMENT"} THEN {<<>>, <<5, 200>>} ELSE {<<>>}
AcksOf(type) ==
  IF HasAcks(type) THEN {<<>>, <<128, 1>>} ELSE {<<>>}
Dpdus ==
  UNION {LET zero == [f \in Fields(FieldsOf(type)) |-> 0]
         IN  {Plain(type, v, 3, a, CHOOSE x \in DataOf(type) : Len(x) < 3) :
                v \in Probes(FieldsOf(type)), a \in AcksOf(type)}
             \cup {Plain(type, zero, n, <<>>, x) : n \in {0, 16, 4096, 2^27}, x \in DataOf(type)} :
         type \in DOMAIN DpduTypes}

DpduReadsBack(d) ==
  LET octets == EncodeDpdu(d)
  IN  /\ DecodeDpdu(octets) = d
      /\ HeaderCrcOk(octets) /\ DataCrcOk(octets)
      /\ WireSize(octets) = Len(octets)

(* Damage: the bits of a pattern from one bit of the frame on, in the      *)
(* order of Stream.                                                        *)
Patterns == {{0}, {0, 1}, {0, 15}, {0, 7, 8}, 0 .. 15}
Damaged(octets, first, pattern) ==
  Kept([i \in DOMAIN octets |->
          Number([k \in 1 .. 8 |->
            LET bit == (octets[i] \div 2^(8 - k)) % 2
            IN  IF 8 * i - k - first \in pattern THEN 1 - bit ELSE bit])])
\* Bits of the header and its check, but for the two lengths.
HeaderBits(d) == (16 .. 39) \cup (48 .. 8 * (4 + Len(Header(d))) - 1)
\* One frame of each type.
IsDamaged(d) == d.destination = 16 /\ Len(d.user_data) < 3
DamageIsSeenIn(d) ==
  LET octets == EncodeDpdu(d)
  IN  \A pattern \in Patterns : \A first \in HeaderBits(d) :
        (\A k \in pattern : first + k \in HeaderBits(d)) =>
           ~HeaderCrcOk(Damaged(octets, first, pattern))
=============================================================================
