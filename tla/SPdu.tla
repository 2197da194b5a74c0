-------------------------------- MODULE SPdu ---------------------------------
(***************************************************************************)
(* The S_PDUs between the sessions of two nodes (sis.py): data with its    *)
(* control information, the answers to them, and the control of hard links.*)
(***************************************************************************)
EXTENDS Layout, TLC

SpduType ==
  [DATA |-> 0, DATA_DELIVERY_CONFIRM |-> 1, DATA_DELIVERY_FAIL |-> 2,
   HARD_LINK_ESTABLISH_REQUEST |-> 3, HARD_LINK_ESTABLISH_CONFIRM |-> 4,
   HARD_LINK_ESTABLISH_REJECTED |-> 5, HARD_LINK_TERMINATE |-> 6,
   HARD_LINK_TERMINATE_CONFIRM |-> 7]
SpduData == {"DATA", "DATA_DELIVERY_CONFIRM", "DATA_DELIVERY_FAIL"}

(* _build_pci_bytes.                                                       *)
Pci ==
  Field("priority", 4) \o Field("src_sap", 4) \o Field("dest_sap", 4)
    \o Field("delivery_confirm", 1) \o Field("valid_ttd", 1) \o NotUsed(2)
    \o Field("julian_mod16", 4)
(* _decode_pci_bytes.                                                      *)
PciAt ==
  [priority |-> At(0, 3, 0), src_sap |-> At(1, 7, 4), dest_sap |-> At(1, 3, 0),
   delivery_confirm |-> At(2, 7, 7), valid_ttd |-> At(2, 6, 6), julian_mod16 |-> At(2, 3, 0)]

(* encode_spdu_hard_link_request and its like: what follows the type.      *)
ControlWritten ==
  [HARD_LINK_ESTABLISH_REQUEST  |-> Field("link_type", 2) \o Field("link_priority", 2)
                                      \o Field("requesting_sap", 4) \o Field("remote_sap", 4),
   HARD_LINK_ESTABLISH_CONFIRM  |-> NotUsed(4),
   HARD_LINK_ESTABLISH_REJECTED |-> Field("reason", 4),
   HARD_LINK_TERMINATE          |-> Field("reason", 4),
   HARD_LINK_TERMINATE_CONFIRM  |-> NotUsed(4)]
(* decode_spdu_hard_link_request and its like.                             *)
ControlRead ==
  [HARD_LINK_ESTABLISH_REQUEST  |-> [link_type |-> At(0, 3, 2), link_priority |-> At(0, 1, 0),
                                     requesting_sap |-> At(1, 7, 4), remote_sap |-> At(1, 3, 0)],
   HARD_LINK_ESTABLISH_CONFIRM  |-> [f \in {} |-> <<>>],
   HARD_LINK_ESTABLISH_REJECTED |-> [reason |-> At(0, 3, 0)],
   HARD_LINK_TERMINATE          |-> [reason |-> At(0, 3, 0)],
   HARD_LINK_TERMINATE_CONFIRM  |-> [f \in {} |-> <<>>]]
-----------------------------------------------------------------------------
(* encode_spdu_data, encode_spdu_data_delivery_confirm, ..._fail: the time *)
(* of day is there when it is valid, the reason in a FAIL only.            *)
EncodeSpdu(m) ==
  Write(Field("type", 4) \o (IF m.type \in SpduData THEN Pci ELSE ControlWritten[m.type]),
        m.v @@ [type |-> SpduType[m.type]])
    \o (IF m.type \in SpduData /\ m.v.valid_ttd = 1
        THEN Write(BigEndian("gmt"), [gmt |-> m.gmt]) ELSE <<>>)
    \o (IF m.type = "DATA_DELIVERY_FAIL" THEN <<m.reason>> ELSE <<>>)
    \o m.data

\* spdu_type.
TypeOf(octets) == CHOOSE t \in DOMAIN SpduType : SpduType[t] = Read(octets, At(0, 7, 4))

(* _decode_pci_bytes: the time of day follows when it is valid, and what   *)
(* comes after starts past it.                                             *)
DecodePci(octets) ==
  LET v == ReadAll(octets, PciAt)
      timed == v.valid_ttd = 1
  IN  [v |-> v, gmt |-> IF timed THEN Read(octets, BigEndianAt(3)) ELSE 0,
       consumed |-> IF timed THEN 5 ELSE 3]

(* decode_spdu_data, decode_spdu_data_delivery_confirm_full, ..._fail_full.*)
DecodeData(octets, type) ==
  LET pci == DecodePci(octets)
      failed == type = "DATA_DELIVERY_FAIL"
  IN  [type |-> type, v |-> pci.v, gmt |-> pci.gmt,
       reason |-> IF failed THEN Read(octets, At(pci.consumed, 3, 0)) ELSE 0,
       data |-> Rest(octets, pci.consumed + IF failed THEN 1 ELSE 0)]

(* decode_spdu, which leaves each type to its decoder; what it keeps of    *)
(* their results the sessions do not use (_process_spdu_control).          *)
DecodeSpdu(octets) ==
  LET type == TypeOf(octets)
  IN  IF type \in SpduData THEN DecodeData(octets, type)
      ELSE [type |-> type, v |-> ReadAll(octets, ControlRead[type]),
            gmt |-> 0, reason |-> 0, data |-> <<>>]

(* encode_spdu_data_delivery_confirm_from, ..._fail_from: the time is that *)
(* of the S_PDU received, which knows the seconds of a day but not the     *)
(* day, so that it is always of the first day of the year; and none is     *)
(* left of a time before 00:00:02 (decode_spdu_data).                      *)
Answer(m, type, reason) ==
  LET valid == IF m.v.valid_ttd = 1 /\ m.gmt > 0 THEN 1 ELSE 0
  IN  [type |-> type,
       v |-> [m.v EXCEPT !.valid_ttd = valid, !.julian_mod16 = valid],
       gmt |-> IF valid = 1 THEN m.gmt ELSE 0,
       reason |-> reason, data |-> m.data]
-----------------------------------------------------------------------------
Spdus ==
  UNION {[type : {type}, v : Probes(Pci), gmt : {0, 1, 256, 43199},
          reason : IF type = "DATA_DELIVERY_FAIL" THEN {0, 15} ELSE {0}, data : {<<>>, <<7>>}] :
         type \in SpduData}
  \cup UNION {[type : {type}, v : Probes(ControlWritten[type]), gmt : {0}, reason : {0}, data : {<<>>}] :
         type \in DOMAIN ControlWritten}

\* The time of day that is not valid is not sent.
Sent(m) == IF m.type \in SpduData /\ m.v.valid_ttd = 0 THEN [m EXCEPT !.gmt = 0] ELSE m
SpduReadsBack(m) == DecodeSpdu(EncodeSpdu(m)) = Sent(m)

(* What an answer keeps of the data it answers.                            *)
Copied(m) ==
  <<m.v.priority, m.v.src_sap, m.v.dest_sap, m.v.delivery_confirm, m.gmt>>
SpduIsAnswered(m) ==
  m.type = "DATA" =>
    \A type \in {"DATA_DELIVERY_CONFIRM", "DATA_DELIVERY_FAIL"} :
      LET answer == DecodeSpdu(EncodeSpdu(Answer(DecodeSpdu(EncodeSpdu(m)), type, 3)))
      IN  answer.type = type /\ Copied(answer) = Copied(Sent(m)) /\ answer.data = m.data
=============================================================================
