------------------------------ MODULE AppendixA ------------------------------
(***************************************************************************)
(* The packets between the node and a 110D modem (appendix_a_codec.py):    *)
(*   preamble, type, size, CRC-16, payload, CRC-16 of the payload,         *)
(* most significant byte first; an empty payload has no check.             *)
(***************************************************************************)
EXTENDS Crc, TLC

PacketType == [DATA |-> 0, CONNECT |-> 1, CONNECTACK |-> 2]
(* PayloadCommand, of the payloads a DATA packet carries.                  *)
PayloadCommand ==
  [DATA_TRANSFER |-> 0, TX_DATA_NAK |-> 4, TX_STATUS |-> 5, CARRIER_DETECT |-> 8,
   TRANSMIT_SETUP |-> 9, INITIAL_SETUP |-> 10,
   TRANSMIT_ARM |-> 1, TRANSMIT_START |-> 2, REQUEST_TX_STATUS |-> 3, ABORT_RECEPTION |-> 6,
   CONNECTION_PROBE |-> 11]
IdSize == 12  \* TCP_PACKET_ID_SIZE

(* The encode functions of the payloads, without the command and the       *)
(* 12-byte identifier; build_command sends the command alone.              *)
PayloadWritten ==
  [DATA_TRANSFER  |-> Octet("packet_order"),
   TX_DATA_NAK    |-> Octet("cause"),
   TX_STATUS      |-> Octet("tx_state") \o Long("space") \o Long("fill")
                        \o Long("critical_ms") \o Long("critical_bytes"),
   CARRIER_DETECT |-> Octet("carrier_state") \o Long("rx_data_rate") \o Long("rx_blocking_factor"),
   TRANSMIT_SETUP |-> Long("tx_data_rate") \o Long("tx_blocking_factor"),
   INITIAL_SETUP  |-> Long("round_trip_time") \o Long("min_latency") \o Long("max_latency")
                        \o Octet("sync_flag") \o Octet("data_bits") \o Octet("stop_bits")
                        \o Octet("parity") \o Octet("data_mode")]
    @@ [c \in {"TRANSMIT_ARM", "TRANSMIT_START", "REQUEST_TX_STATUS", "ABORT_RECEPTION",
               "CONNECTION_PROBE"} |-> <<>>]
(* The decode functions.                                                   *)
PayloadRead ==
  [DATA_TRANSFER  |-> [packet_order |-> OctetAt(1)],
   TX_DATA_NAK    |-> [cause |-> OctetAt(1)],
   TX_STATUS      |-> [tx_state |-> OctetAt(1), space |-> LongAt(2), fill |-> LongAt(6),
                       critical_ms |-> LongAt(10), critical_bytes |-> LongAt(14)],
   CARRIER_DETECT |-> [carrier_state |-> OctetAt(1), rx_data_rate |-> LongAt(2),
                       rx_blocking_factor |-> LongAt(6)],
   TRANSMIT_SETUP |-> [tx_data_rate |-> LongAt(1), tx_blocking_factor |-> LongAt(5)],
   INITIAL_SETUP  |-> [round_trip_time |-> LongAt(1), min_latency |-> LongAt(5), max_latency |-> LongAt(9),
                       sync_flag |-> OctetAt(13), data_bits |-> OctetAt(14), stop_bits |-> OctetAt(15),
                       parity |-> OctetAt(16), data_mode |-> OctetAt(17)]]
    @@ [c \in {"TRANSMIT_ARM", "TRANSMIT_START", "REQUEST_TX_STATUS", "ABORT_RECEPTION",
               "CONNECTION_PROBE"} |-> [f \in {} |-> <<>>]]
HasId(command) == command \in {"DATA_TRANSFER", "TX_DATA_NAK"}

\* An identifier that is too short is filled up, one that is too long cut.
FullId(id) == [i \in 1 .. IdSize |-> IF i <= Len(id) THEN id[i] ELSE 0]
EncodeCommand(p) ==
  <<PayloadCommand[p.command]>> \o Write(PayloadWritten[p.command], p.v)
    \o (IF HasId(p.command) THEN FullId(p.id) \o p.data ELSE <<>>)
DecodeCommand(octets) ==
  LET command == CHOOSE c \in DOMAIN PayloadCommand : PayloadCommand[c] = octets[1]
  IN  [command |-> command, v |-> ReadAll(octets, PayloadRead[command]),
       id |-> IF HasId(command) THEN SubSeq(octets, 3, 2 + IdSize) ELSE <<>>,
       data |-> IF command = "DATA_TRANSFER" THEN Rest(octets, 2 + IdSize) ELSE <<>>]

(* encode_packet.                                                          *)
PacketHeader(type, size) == <<73, 80, 85, PacketType[type]>> \o Write(BigEndian("size"), [size |-> size])
EncodePacket(type, payload) ==
  LET header == PacketHeader(type, Len(payload))
  IN  header \o BigEndianBytes(Crc16(header))
        \o (IF payload = <<>> THEN <<>> ELSE payload \o BigEndianBytes(Crc16(payload)))
(* PacketReader.read, of one whole packet.                                 *)
DecodePacket(octets) ==
  LET size == Read(octets, BigEndianAt(4))
      payload == SubSeq(octets, 9, 8 + size)
      ok == /\ SubSeq(octets, 7, 8) = BigEndianBytes(Crc16(SubSeq(octets, 1, 6)))
            /\ size > 0 => Rest(octets, 8 + size) = BigEndianBytes(Crc16(payload))
  IN  [ok |-> ok, type |-> CHOOSE t \in DOMAIN PacketType : PacketType[t] = octets[4],
       payload |-> payload]
-----------------------------------------------------------------------------
Commands ==
  UNION {[command : {c}, v : Probes(PayloadWritten[c]),
          id : IF HasId(c) THEN {<<>>, <<1, 2, 3>>, [i \in 1 .. IdSize |-> i]} ELSE {<<>>},
          data : IF c = "DATA_TRANSFER" THEN {<<>>, <<144, 235>>} ELSE {<<>>}] :
         c \in DOMAIN PayloadCommand}
PacketReadsBack(p) ==
  LET packet == DecodePacket(EncodePacket("DATA", EncodeCommand(p)))
  IN  /\ packet.ok /\ packet.type = "DATA"
      /\ DecodeCommand(packet.payload) = [p EXCEPT !.id = IF HasId(p.command) THEN FullId(@) ELSE <<>>]
=============================================================================
