-------------------------------- MODULE Codecs -------------------------------
(***************************************************************************)
(* One message of this program is encoded, and decoded by the other end; a *)
(* D_PDU may be damaged on its way.  What formats there are, and what      *)
(* messages of each, is a constant; Formats has them side by side.         *)
(***************************************************************************)
EXTENDS DpduFrame

CONSTANT CoMessages \* of each family of formats, its messages; "dpdu" is the D_PDUs

VARIABLE message

ASSUME DpdusAssumption == \A d \in CoMessages["dpdu"] : Encodable(d)

Families == DOMAIN CoMessages
CodecsInit == message = <<>>
CodecsNext ==
  \/ message = <<>> /\ \E family \in Families : message' = <<family>>
  \/ Len(message) = 1 /\ \E m \in CoMessages[message[1]] : message' = <<message[1], m>>
CodecsSpec == CodecsInit /\ [][CodecsNext]_message
Is(family) == Len(message) = 2 /\ message[1] = family
-----------------------------------------------------------------------------
(* Damage to a frame is seen: whatever burst of up to 16 bits is inverted  *)
(* in the header, its addresses or its check, but for the two fields that  *)
(* say how long they are (HeaderBits), the check no longer holds           *)
(* (crc16_ccitt over what decode_dpdu checks).                             *)
DamageIsSeen == Is("dpdu") /\ IsDamaged(message[2]) => DamageIsSeenIn(message[2])
=============================================================================
