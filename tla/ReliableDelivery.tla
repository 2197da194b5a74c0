--------------------------- MODULE ReliableDelivery ---------------------------
(***************************************************************************)
(* What the ARQ service promises to the layer above, one direction at a    *)
(* time: C_PDUs come out as they went in, in order and once each; the      *)
(* sender forgets a C_PDU only after it came out; and every C_PDU is       *)
(* either confirmed or the link is reported as failed, after which nothing *)
(* is promised any more.                                                   *)
(***************************************************************************)
EXTENDS Naturals, Sequences

VARIABLES sent,      \* the C_PDUs accepted from the sender's upper layer
          received,  \* the C_PDUs handed to the receiver's upper layer
          confirmed, \* positions of the C_PDUs the sender has dropped as done
          broken     \* the link has been reported as failed

service == <<sent, received, confirmed, broken>>

Init == sent = <<>> /\ received = <<>> /\ confirmed = {} /\ broken = FALSE

Accept ==
  /\ Len(sent') = Len(sent) + 1 /\ SubSeq(sent', 1, Len(sent)) = sent
  /\ UNCHANGED <<received, confirmed, broken>>

Deliver ==
  /\ ~broken
  /\ Len(received) < Len(sent)
  /\ received' = Append(received, sent[Len(received) + 1])
  /\ UNCHANGED <<sent, confirmed, broken>>

Confirm ==
  /\ ~broken
  /\ \E i \in 1 .. Len(received) : confirmed' = confirmed \cup {i}
  /\ UNCHANGED <<sent, received, broken>>

Fail == broken' = TRUE /\ UNCHANGED <<sent, received, confirmed>>

\* After a failure the receiver may be handed anything.
Broken == broken /\ broken'

Next == Accept \/ Deliver \/ Confirm \/ Fail \/ Broken

Safety == Init /\ [][Next]_service
=============================================================================
