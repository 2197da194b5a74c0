------------------------------- MODULE Formats -------------------------------
(***************************************************************************)
(* The formats of this program side by side: the primitives of the         *)
(* clients, the S_PDUs of the sessions, the D_PDUs on the air with their   *)
(* orderwire field, the packets of a 110D modem, and what the clients of   *)
(* Annex F put into their U_PDUs.                                          *)
(***************************************************************************)
EXTENDS Codecs

P == INSTANCE SPrimitive
S == INSTANCE SPdu
M == INSTANCE AppendixA
E == INSTANCE Eow
F == INSTANCE AnnexF
C == INSTANCE Coss
I == INSTANCE IpClient
T == INSTANCE TextMail

Messages ==
  [primitive |-> P!Primitives,
   spdu      |-> S!Spdus,
   dpdu      |-> Dpdus,
   command   |-> M!Commands,
   eow       |-> E!Fields,
   header    |-> F!Headers,
   segments  |-> F!Messages,
   file      |-> F!Files,
   mail      |-> F!Mails,
   stream    |-> C!Streams,
   datagram  |-> I!Datagrams,
   body      |-> T!Bodies,
   batch     |-> T!Batches]
-----------------------------------------------------------------------------
(* What is written reads back: every field of a primitive, an S_PDU, a     *)
(* D_PDU, an EOW and a command comes out as it went in, at its least and   *)
(* its greatest value, no field over another, the checks of a frame and a  *)
(* packet holding, and dpdu_wire_size says where the frame ends; and the   *)
(* confirmation or the failure a node makes from the data it received      *)
(* (encode_spdu_data_delivery_confirm_from, ..._fail_from) comes back with *)
(* the SAPs, the priority, the time and the U_PDU of that data             *)
(* (s_primitive_codec.py, sis.py, dpdu_frame.py, eow.py,                   *)
(* appendix_a_codec.py).  So do the headers, the segments, files, mail,    *)
(* characters and datagrams of the Annex F clients (annex_f/).             *)
MessagesReadBack ==
  /\ Is("primitive") => P!PrimitiveReadsBack(message[2])
  /\ Is("spdu") => S!SpduReadsBack(message[2]) /\ S!SpduIsAnswered(message[2])
  /\ Is("dpdu") => DpduReadsBack(message[2])
  /\ Is("command") => M!PacketReadsBack(message[2])
  /\ Is("eow") => E!EowReadsBack(message[2])
  /\ Is("header") => F!HeaderReadsBack(message[2])
  /\ Is("segments") => F!SegmentsReadBack(message[2])
  /\ Is("file") => F!FileReadsBack(message[2])
  /\ Is("mail") => F!MailReadsBack(message[2])
  /\ Is("stream") => C!StreamReadsBack(message[2])
  /\ Is("datagram") => I!DatagramArrives(message[2])
  /\ Is("body") => T!BodyReadsBack(message[2])
  /\ Is("batch") => T!BatchArrives(message[2])
=============================================================================
