----------------------------- MODULE SPrimitive ------------------------------
(***************************************************************************)
(* The S_PRIMITIVEs between a client and its node (s_primitive_codec.py):  *)
(* for each the fields its encode_ function writes and the places its      *)
(* decode_ function reads.                                                 *)
(***************************************************************************)
EXTENDS Layout, Functions, TLC

(* encode_address, decode_address.                                         *)
Address(f) == Field("addr_size", 3) \o NotUsed(1) \o Field(f, 28)
AddressAt(o) == At(o, 3, 0) \o OctetAt(o + 1) \o OctetAt(o + 2) \o OctetAt(o + 3)
(* encode_delivery_mode; encode_service_type has a second byte.            *)
DeliveryMode ==
  Field("tx_mode", 4) \o Field("delivery_confirm", 2) \o Field("delivery_order", 1) \o Field("extension", 1)
ServiceType == DeliveryMode \o Field("min_retransmissions", 4) \o NotUsed(4)
(* decode_delivery_mode, decode_service_type.                              *)
DeliveryModeAt(o) ==
  [tx_mode |-> At(o, 7, 4), delivery_confirm |-> At(o, 3, 2), delivery_order |-> At(o, 1, 1),
   extension |-> At(o, 0, 0)]
ServiceTypeAt(o) == DeliveryModeAt(o) @@ [min_retransmissions |-> At(o + 1, 7, 4)]
(* _pack_hard_link_byte, _unpack_hard_link_byte.                           *)
HardLink == Field("link_type", 2) \o Field("link_priority", 2) \o Field("remote_sap", 4)
HardLinkAt(o) == [link_type |-> At(o, 7, 6), link_priority |-> At(o, 5, 4), remote_sap |-> At(o, 3, 0)]

Nothing == <<>>
NoSpots == [f \in {} |-> <<>>]
-----------------------------------------------------------------------------
(* Types 1 to 5.                                                           *)
BindWritten ==
  [S_BIND_REQUEST     |-> Field("sap_id", 4) \o Field("rank", 4) \o ServiceType,
   S_UNBIND_REQUEST   |-> Nothing,
   S_BIND_ACCEPTED    |-> Field("sap_id", 4) \o NotUsed(4) \o LittleEndian("mtu"),
   S_BIND_REJECTED    |-> Octet("reason"),
   S_UNBIND_INDICATION|-> Octet("reason")]
BindRead ==
  [S_BIND_REQUEST     |-> [sap_id |-> At(0, 7, 4), rank |-> At(0, 3, 0)] @@ ServiceTypeAt(1),
   S_UNBIND_REQUEST   |-> NoSpots,
   S_BIND_ACCEPTED    |-> [sap_id |-> At(0, 7, 4), mtu |-> LittleEndianAt(1)],
   S_BIND_REJECTED    |-> [reason |-> OctetAt(0)],
   S_UNBIND_INDICATION|-> [reason |-> OctetAt(0)]]

(* Types 6 to 13.                                                          *)
HardLinkWritten ==
  LET told(f) == Octet(f) \o HardLink \o Address("remote_node")
  IN  [S_HARD_LINK_ESTABLISH   |-> HardLink \o Address("remote_node"),
       S_HARD_LINK_TERMINATE   |-> Address("remote_node"),
       S_HARD_LINK_ESTABLISHED |-> told("remote_node_status"),
       S_HARD_LINK_REJECTED    |-> told("reason"),
       S_HARD_LINK_TERMINATED  |-> told("reason"),
       S_HARD_LINK_INDICATION  |-> told("remote_node_status"),
       S_HARD_LINK_ACCEPT      |-> HardLink \o Address("remote_node"),
       S_HARD_LINK_REJECT      |-> told("reason")]
HardLinkRead ==
  LET asked == HardLinkAt(0) @@ [remote_node |-> AddressAt(1)]
      told(f) == f :> OctetAt(0) @@ HardLinkAt(1) @@ [remote_node |-> AddressAt(2)]
  IN  [S_HARD_LINK_ESTABLISH   |-> asked,
       S_HARD_LINK_TERMINATE   |-> [remote_node |-> AddressAt(0)],
       S_HARD_LINK_ESTABLISHED |-> told("remote_node_status"),
       S_HARD_LINK_REJECTED    |-> told("reason"),
       S_HARD_LINK_TERMINATED  |-> told("reason"),
       S_HARD_LINK_INDICATION  |-> told("remote_node_status"),
       S_HARD_LINK_ACCEPT      |-> asked,
       S_HARD_LINK_REJECT      |-> told("reason")]

(* Types 14 to 19; the message of a management primitive is its data.      *)
OtherWritten ==
  [S_SUBNET_AVAILABILITY |-> Octet("status") \o Octet("reason")]
    @@ [t \in {"S_DATA_FLOW_ON", "S_DATA_FLOW_OFF", "S_KEEP_ALIVE",
               "S_MANAGEMENT_MSG_REQUEST", "S_MANAGEMENT_MSG_INDICATION"} |-> Nothing]
OtherRead ==
  [S_SUBNET_AVAILABILITY |-> [status |-> OctetAt(0), reason |-> OctetAt(1)]]
    @@ [t \in {"S_DATA_FLOW_ON", "S_DATA_FLOW_OFF", "S_KEEP_ALIVE",
               "S_MANAGEMENT_MSG_REQUEST", "S_MANAGEMENT_MSG_INDICATION"} |-> NoSpots]

(* Types 20 and 21.                                                        *)
UnidataWritten ==
  [S_UNIDATA_REQUEST    |-> Field("priority", 4) \o Field("dest_sap", 4) \o Address("dest_addr")
                              \o DeliveryMode \o LittleEndian("ttl") \o Address("src_addr")
                              \o LittleEndian("size"),
   S_UNIDATA_INDICATION |-> Field("priority", 4) \o Field("dest_sap", 4) \o Address("dest_addr")
                              \o Octet("tx_mode") \o NotUsed(4) \o Field("src_sap", 4)
                              \o Address("src_addr") \o LittleEndian("size")]
UnidataRead ==
  [S_UNIDATA_REQUEST    |-> [priority |-> At(0, 7, 4), dest_sap |-> At(0, 3, 0), dest_addr |-> AddressAt(1),
                             ttl |-> LittleEndianAt(6), src_addr |-> AddressAt(8),
                             size |-> LittleEndianAt(12)] @@ DeliveryModeAt(5),
   S_UNIDATA_INDICATION |-> [priority |-> At(0, 7, 4), dest_sap |-> At(0, 3, 0), dest_addr |-> AddressAt(1),
                             tx_mode |-> OctetAt(5), src_sap |-> At(6, 3, 0), src_addr |-> AddressAt(7),
                             size |-> LittleEndianAt(11)]]

(* Types 22 and 23; types 25 and 26 are the same.                          *)
AnswerWritten ==
  LET ends == NotUsed(4) \o Field("dest_sap", 4) \o Address("dest_addr")
                \o NotUsed(4) \o Field("src_sap", 4) \o Address("src_addr")
  IN  [S_UNIDATA_REQUEST_CONFIRM  |-> ends \o LittleEndian("size"),
       S_UNIDATA_REQUEST_REJECTED |-> ends \o Octet("reason") \o LittleEndian("size")]
AnswerRead ==
  LET ends == [dest_sap |-> At(0, 3, 0), dest_addr |-> AddressAt(1),
               src_sap |-> At(5, 3, 0), src_addr |-> AddressAt(6)]
  IN  [S_UNIDATA_REQUEST_CONFIRM  |-> ends @@ [size |-> LittleEndianAt(10)],
       S_UNIDATA_REQUEST_REJECTED |-> ends @@ [reason |-> OctetAt(10), size |-> LittleEndianAt(11)]]

(* Types 24 to 27: a request without a priority, the rest as above.        *)
ExpeditedWritten ==
  [S_EXPEDITED_UNIDATA_REQUEST |-> Field("dest_sap", 4) \o NotUsed(4)
                                     \o Rest(UnidataWritten.S_UNIDATA_REQUEST, 2),
   S_EXPEDITED_UNIDATA_REQUEST_CONFIRM  |-> AnswerWritten.S_UNIDATA_REQUEST_CONFIRM,
   S_EXPEDITED_UNIDATA_REQUEST_REJECTED |-> AnswerWritten.S_UNIDATA_REQUEST_REJECTED,
   S_EXPEDITED_UNIDATA_INDICATION       |-> UnidataWritten.S_UNIDATA_INDICATION]
ExpeditedRead ==
  LET request == UnidataRead.S_UNIDATA_REQUEST
  IN  [S_EXPEDITED_UNIDATA_REQUEST |-> [dest_sap |-> At(0, 7, 4)]
                                         @@ Restrict(request, DOMAIN request \ {"priority"}),
       S_EXPEDITED_UNIDATA_REQUEST_CONFIRM  |-> AnswerRead.S_UNIDATA_REQUEST_CONFIRM,
       S_EXPEDITED_UNIDATA_REQUEST_REJECTED |-> AnswerRead.S_UNIDATA_REQUEST_REJECTED,
       S_EXPEDITED_UNIDATA_INDICATION       |-> UnidataRead.S_UNIDATA_INDICATION]
-----------------------------------------------------------------------------
Written == BindWritten @@ HardLinkWritten @@ OtherWritten @@ UnidataWritten @@ AnswerWritten
             @@ ExpeditedWritten
(* DECODERS.                                                               *)
ReadFrom == BindRead @@ HardLinkRead @@ OtherRead @@ UnidataRead @@ AnswerRead @@ ExpeditedRead

(* The blocks in error and the blocks not received, after the U_PDU of an  *)
(* indication (encode_unidata_indication, decode_unidata_indication).      *)
Block(n) == Write(LittleEndian("n"), [n |-> n])
Blocks(ns) == Block(Len(ns)) \o Joined([i \in DOMAIN ns |-> Block(ns[i])])
BlocksAt(octets, o) ==
  [i \in 1 .. Read(octets, LittleEndianAt(o)) |-> Read(octets, LittleEndianAt(o + 2 * i))]

IsUnidata(type) == "size" \in Fields(Written[type])
CarriesData(type) ==
  IsUnidata(type) \/ type \in {"S_MANAGEMENT_MSG_REQUEST", "S_MANAGEMENT_MSG_INDICATION"}
HasErrors(type) == type \in {"S_UNIDATA_INDICATION", "S_EXPEDITED_UNIDATA_INDICATION"}

(* encode_...: a U_PDU and its errors where there are such.                *)
EncodePayload(p) ==
  Write(Written[p.type], p.v @@ [addr_size |-> 7, size |-> Len(p.data)]) \o p.data
    \o Joined([i \in DOMAIN p.errors |-> Blocks(p.errors[i])])

(* decode_primitive_auto.                                                  *)
DecodePayload(type, octets) ==
  LET v == ReadAll(octets, ReadFrom[type])
      \* The U_PDU follows its size.
      start == IF IsUnidata(type) THEN ReadFrom[type].size[1].at + 1 ELSE 0
      end == IF IsUnidata(type) THEN start + v.size ELSE Len(octets)
      second == end + 2 + 2 * Read(octets, LittleEndianAt(end))
  IN  [type |-> type,
       v |-> Restrict(v, DOMAIN v \ {"size"}),
       data |-> IF CarriesData(type) THEN SubSeq(octets, start + 1, end) ELSE <<>>,
       errors |-> IF HasErrors(type) /\ end < Len(octets)
                  THEN <<BlocksAt(octets, end), BlocksAt(octets, second)>> ELSE <<>>]

(* The primitives tried: a U_PDU of some bytes, errors and none.           *)
Primitives ==
  UNION {LET layout == SelectSeq(Written[type], LAMBDA p : p.field \notin {"addr_size", "size"})
         IN  [type : {type}, v : Probes(layout),
              data : IF CarriesData(type) THEN {<<>>, <<1, 2>>} ELSE {<<>>},
              errors : IF HasErrors(type) THEN {<<>>, << <<>>, <<258>> >>, << <<1>>, <<2, 3>> >>} ELSE {<<>>}] :
         type \in DOMAIN Written}
PrimitiveReadsBack(p) == DecodePayload(p.type, EncodePayload(p)) = p
=============================================================================
