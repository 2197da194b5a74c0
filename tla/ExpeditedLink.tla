----------------------------- MODULE ExpeditedLink -----------------------------
(***************************************************************************)
(* Two expedited engines (expedited_arq.py, ExpeditedArqEngine) on a link  *)
(* that is up, with the Data Transfer Sublayer state each node keeps       *)
(* beside its engine (dts_state.py).                                       *)
(*                                                                         *)
(* A C_PDU is cut into segments that are sent one at a time, each until it *)
(* is acknowledged or its retries are used up.  On such a link the DTS     *)
(* rests in DATA or in EXPEDITED: MANAGEMENT is left within the handler    *)
(* that enters it.  The radio link keeps the order of frames, loses some   *)
(* and damages the payload of others.                                      *)
(***************************************************************************)
EXTENDS Integers, Sequences

CONSTANTS A, B,
          SeqMod,       \* EXPEDITED_FSN_MOD
          IdMod,        \* EXPEDITED_CPDU_ID_MOD
          MaxRetries,   \* max_retries
          MaxFragments, \* bound: segments of a C_PDU
          MaxSubmit,    \* bound: C_PDUs each node is given
          MaxChan       \* bound: frames travelling to a node

Node == {A, B}
Peer(n) == IF n = A THEN B ELSE A

ASSUME ExpeditedAssumption ==
  /\ A # B
  /\ SeqMod \in Nat \ {0} /\ IdMod \in Nat \ {0}
  /\ MaxRetries \in Nat
  /\ MaxFragments \in Nat \ {0}
  /\ MaxSubmit \in [Node -> Nat]
  /\ MaxChan \in Nat

VARIABLES
  queue,      \* _tx_queue: C_PDUs not yet cut
  segments,   \* _tx_segments: segments of the C_PDU under way still to be sent
  current,    \* the segment that waits for its acknowledgement, if any
  retx, txSeq, cpduId,
  rxParts, rxCpdu,
  pendingAck, \* the acknowledgement that is due, if any
  dts,        \* the DTS state
  chan,
  submitted,  \* history: the segment count of every C_PDU submitted at a node
  delivered,  \* history: the C_PDUs a node handed to its upper layer
  done,       \* history: the C_PDUs a node has had acknowledged to the end
  dropped,    \* history: the C_PDUs a node has given up
  skipped     \* history: the numbers given up since one was acknowledged

txVars == <<queue, segments, current, retx, txSeq, cpduId, skipped>>
rxVars == <<rxParts, rxCpdu, delivered>>
vars == <<txVars, rxVars, pendingAck, dts, chan, submitted, done, dropped>>
-----------------------------------------------------------------------------
Seqs == 0 .. (SeqMod - 1)
Ids == 0 .. (IdMod - 1)
CPdu == [id : Nat, size : 1 .. MaxFragments]
Fragment == [id : Nat, part : 1 .. MaxFragments, size : 1 .. MaxFragments]
Data == [type : {"DATA"}, seq : Seqs, cpdu : Ids, fragment : Fragment]
Frame == Data \cup [type : {"ACK"}, rxLwe : Seqs]

NoSegment == [type |-> "NONE"]
NoCpdu == -1
NoAck == -1

TypeOK ==
  /\ queue \in [Node -> Seq(CPdu)]
  /\ segments \in [Node -> Seq(Data)]
  /\ current \in [Node -> Data \cup {NoSegment}]
  /\ retx \in [Node -> 0 .. MaxRetries]
  /\ txSeq \in [Node -> Seqs]
  /\ cpduId \in [Node -> Ids]
  /\ rxParts \in [Node -> Seq(Fragment)]
  /\ rxCpdu \in [Node -> Ids \cup {NoCpdu}]
  /\ pendingAck \in [Node -> Seqs \cup {NoAck}]
  /\ dts \in [Node -> {"DATA", "EXPEDITED"}]
  /\ chan \in [Node -> Seq(Frame)]
  /\ submitted \in [Node -> Seq(1 .. MaxFragments)]
  /\ delivered \in [Node -> Seq(Seq(Fragment))]
  /\ done \in [Node -> SUBSET Nat]
  /\ dropped \in [Node -> SUBSET Nat]
  /\ skipped \in [Node -> Nat]

Init ==
  /\ queue = [n \in Node |-> <<>>]
  /\ segments = [n \in Node |-> <<>>]
  /\ current = [n \in Node |-> NoSegment]
  /\ retx = [n \in Node |-> 0]
  /\ txSeq = [n \in Node |-> 0]
  /\ cpduId = [n \in Node |-> 0]
  /\ rxParts = [n \in Node |-> <<>>]
  /\ rxCpdu = [n \in Node |-> NoCpdu]
  /\ pendingAck = [n \in Node |-> NoAck]
  /\ dts = [n \in Node |-> "DATA"]
  /\ chan = [n \in Node |-> <<>>]
  /\ submitted = [n \in Node |-> <<>>]
  /\ delivered = [n \in Node |-> <<>>]
  /\ done = [n \in Node |-> {}]
  /\ dropped = [n \in Node |-> {}]
  /\ skipped = [n \in Node |-> 0]

(* has_pending_tx.                                                         *)
HasPending(n) ==
  pendingAck[n] # NoAck \/ current[n] # NoSegment \/ segments[n] # <<>> \/ queue[n] # <<>>
-----------------------------------------------------------------------------
(* The upper layer submits a C_PDU.  A hard link control message enters    *)
(* EXPEDITED at once (_send_control_expedited); a client's expedited data  *)
(* does when it is transmitted.                                            *)
Submit(n) ==
  /\ Len(submitted[n]) < MaxSubmit[n]
  /\ \E size \in 1 .. MaxFragments :
       /\ submitted' = [submitted EXCEPT ![n] = Append(@, size)]
       /\ queue' = [queue EXCEPT ![n] = Append(@, [id |-> Len(submitted[n]) + 1, size |-> size])]
  /\ \E control \in BOOLEAN : dts' = [dts EXCEPT ![n] = IF control THEN "EXPEDITED" ELSE @]
  /\ UNCHANGED <<segments, current, retx, txSeq, cpduId, rxVars, pendingAck, chan, done, dropped,
                 skipped>>

(* A MANAGEMENT D_PDU arrives: the state entered for it is left again, and *)
(* with it EXPEDITED, whose remembered state is taken.                     *)
RxManagement(n) ==
  /\ dts' = [dts EXCEPT ![n] = "DATA"]
  /\ UNCHANGED <<txVars, rxVars, pendingAck, chan, submitted, done, dropped>>
-----------------------------------------------------------------------------
(* The expedited part of a tick's transmission (_dts_transmit).            *)

Fragments(c) == [k \in 1 .. c.size |-> [id |-> c.id, part |-> k, size |-> c.size]]
SegmentsOf(n, c) ==
  [k \in 1 .. c.size |-> [type |-> "DATA", seq |-> (txSeq[n] + k - 1) % SeqMod,
                          cpdu |-> cpduId[n], fragment |-> Fragments(c)[k]]]

\* An acknowledgement that is due goes first.
Transmit(n, burst) ==
  LET out == (IF pendingAck[n] = NoAck THEN <<>>
              ELSE <<[type |-> "ACK", rxLwe |-> pendingAck[n]]>>) \o burst
  IN  /\ Len(chan[Peer(n)]) + Len(out) <= MaxChan
      /\ chan' = [chan EXCEPT ![Peer(n)] = @ \o out]
      /\ pendingAck' = [pendingAck EXCEPT ![n] = NoAck]

Enter(n) == dts' = [dts EXCEPT ![n] = "EXPEDITED"]

(* The next segment, of the C_PDU under way or of the next one.            *)
TxSend(n) ==
  /\ current[n] = NoSegment
  /\ segments[n] # <<>> \/ queue[n] # <<>>
  /\ LET ready == IF segments[n] # <<>> THEN segments[n] ELSE SegmentsOf(n, Head(queue[n]))
     IN  /\ current' = [current EXCEPT ![n] = Head(ready)]
         /\ segments' = [segments EXCEPT ![n] = Tail(ready)]
         /\ Transmit(n, <<Head(ready)>>)
  /\ queue' = [queue EXCEPT ![n] = IF segments[n] # <<>> THEN @ ELSE Tail(@)]
  /\ retx' = [retx EXCEPT ![n] = 0]
  /\ Enter(n)
  /\ UNCHANGED <<txSeq, cpduId, rxVars, submitted, done, dropped, skipped>>

\* Mutant of TxRetransmit: the repetitions are not counted.
TxRetransmitUncounted(n) ==
  /\ current[n] # NoSegment /\ retx[n] < MaxRetries
  /\ Transmit(n, <<current[n]>>)
  /\ Enter(n)
  /\ UNCHANGED <<txVars, rxVars, submitted, done, dropped>>

\* Mutant of TxRetransmit: one repetition too many.
TxRetransmitLate(n) ==
  /\ current[n] # NoSegment /\ retx[n] <= MaxRetries
  /\ retx' = [retx EXCEPT ![n] = @ + 1]
  /\ Transmit(n, <<current[n]>>)
  /\ Enter(n)
  /\ UNCHANGED <<queue, segments, current, txSeq, cpduId, rxVars, submitted, done, dropped, skipped>>

(* The acknowledgement has not come in time.                               *)
TxRetransmit(n) ==
  /\ current[n] # NoSegment /\ retx[n] < MaxRetries
  /\ retx' = [retx EXCEPT ![n] = @ + 1]
  /\ Transmit(n, <<current[n]>>)
  /\ Enter(n)
  /\ UNCHANGED <<queue, segments, current, txSeq, cpduId, rxVars, submitted, done, dropped, skipped>>

\* The number that follows those of the C_PDU under way.
NumberPast(n) == (txSeq[n] + 1 + Len(segments[n])) % SeqMod

(* Nor has it after the last retry: the whole C_PDU is dropped.  The       *)
(* retry count is left over, and set afresh by the next TxSend.            *)
TxGiveUp(n) ==
  /\ current[n] # NoSegment /\ retx[n] = MaxRetries
  /\ txSeq' = [txSeq EXCEPT ![n] = NumberPast(n)]
  /\ cpduId' = [cpduId EXCEPT ![n] = (@ + 1) % IdMod]
  /\ segments' = [segments EXCEPT ![n] = <<>>]
  /\ current' = [current EXCEPT ![n] = NoSegment]
  /\ dropped' = [dropped EXCEPT ![n] = @ \cup {current[n].fragment.id}]
  /\ skipped' = [skipped EXCEPT ![n] = @ + 1 + Len(segments[n])]
  /\ Transmit(n, <<>>)
  /\ dts' = [dts EXCEPT ![n] = IF pendingAck[n] = NoAck /\ queue[n] = <<>>
                               THEN "DATA" ELSE "EXPEDITED"]
  /\ UNCHANGED <<queue, retx, rxVars, submitted, done>>

(* Only an acknowledgement to send.                                        *)
TxAck(n) ==
  /\ pendingAck[n] # NoAck
  /\ current[n] # NoSegment \/ (segments[n] = <<>> /\ queue[n] = <<>>)
  /\ Transmit(n, <<>>)
  /\ Enter(n)
  /\ UNCHANGED <<txVars, rxVars, submitted, done, dropped>>

\* Mutant of TxNothing: EXPEDITED is never left.
TxNothingStays(n) ==
  /\ pendingAck[n] = NoAck
  /\ current[n] # NoSegment
  /\ Enter(n)
  /\ UNCHANGED <<txVars, rxVars, pendingAck, chan, submitted, done, dropped>>

(* Nothing to send: EXPEDITED is left when nothing is awaited either.      *)
TxNothing(n) ==
  /\ pendingAck[n] = NoAck
  /\ current[n] # NoSegment \/ ~HasPending(n)
  /\ dts' = [dts EXCEPT ![n] = IF HasPending(n) THEN "EXPEDITED" ELSE "DATA"]
  /\ UNCHANGED <<txVars, rxVars, pendingAck, chan, submitted, done, dropped>>
-----------------------------------------------------------------------------
(* Reception (_dispatch_rx_frame, process_rx_dpdu).                        *)

Arrived(n, type) == chan[n] # <<>> /\ Head(chan[n]).type = type

\* The frame is taken; the DTS enters EXPEDITED and stays while there is
\* something to send.
Take(n) ==
  /\ chan' = [chan EXCEPT ![n] = Tail(@)]
  /\ dts' = [dts EXCEPT ![n] = IF HasPending(n)' THEN "EXPEDITED" ELSE "DATA"]

\* Every segment that arrives intact is acknowledged, wanted or not.
Acknowledge(n) == pendingAck' = [pendingAck EXCEPT ![n] = (Head(chan[n]).seq + 1) % SeqMod]

\* Mutant of Orphan: a segment is taken for what it claims to be part of.
OrphanById(n, f) == f.fragment.part # 1 /\ f.cpdu # rxCpdu[n]
\* A segment that continues nothing the node has.
Orphan(n, f) == f.fragment.part # 1 /\ (f.cpdu # rxCpdu[n] \/ rxParts[n] = <<>>)

RxOrphan(n) ==
  /\ Arrived(n, "DATA")
  /\ Orphan(n, Head(chan[n]))
  /\ Acknowledge(n)
  /\ UNCHANGED <<txVars, rxVars, submitted, done, dropped>>
  /\ Take(n)

\* The first segment starts afresh, any other is appended.
PartsWith(n, f) ==
  IF f.fragment.part = 1 THEN <<f.fragment>> ELSE Append(rxParts[n], f.fragment)

RxSegment(n) ==
  /\ Arrived(n, "DATA")
  /\ LET f == Head(chan[n])
         complete == f.fragment.part = f.fragment.size
     IN  /\ ~Orphan(n, f)
         /\ rxCpdu' = [rxCpdu EXCEPT ![n] = f.cpdu]
         /\ rxParts' = [rxParts EXCEPT ![n] = IF complete THEN <<>> ELSE PartsWith(n, f)]
         /\ delivered' = [delivered EXCEPT ![n] =
              IF complete THEN Append(@, PartsWith(n, f)) ELSE @]
  /\ Acknowledge(n)
  /\ UNCHANGED <<txVars, submitted, done, dropped>>
  /\ Take(n)

\* A segment whose payload is damaged is ignored.
RxDamaged(n) ==
  /\ Arrived(n, "DATA")
  /\ UNCHANGED <<txVars, rxVars, pendingAck, submitted, done, dropped>>
  /\ Take(n)

\* Mutant of Answers: any acknowledgement will do.
AnswersAny(n, f) == current[n] # NoSegment
\* The acknowledgement f is the one the segment under way waits for.
Answers(n, f) == current[n] # NoSegment /\ f.rxLwe = (txSeq[n] + 1) % SeqMod

RxAck(n) ==
  /\ Arrived(n, "ACK")
  /\ Answers(n, Head(chan[n]))
  /\ current' = [current EXCEPT ![n] = NoSegment]
  /\ txSeq' = [txSeq EXCEPT ![n] = (@ + 1) % SeqMod]
  /\ skipped' = [skipped EXCEPT ![n] = 0]
  /\ IF segments[n] = <<>>
     THEN /\ cpduId' = [cpduId EXCEPT ![n] = (@ + 1) % IdMod]
          /\ done' = [done EXCEPT ![n] = @ \cup {current[n].fragment.id}]
     ELSE UNCHANGED <<cpduId, done>>
  /\ UNCHANGED <<queue, segments, retx, rxVars, pendingAck, submitted, dropped>>
  /\ Take(n)

\* The acknowledgement of an earlier copy.
RxAckLate(n) ==
  /\ Arrived(n, "ACK")
  /\ ~Answers(n, Head(chan[n]))
  /\ UNCHANGED <<txVars, rxVars, pendingAck, submitted, done, dropped>>
  /\ Take(n)

(* A frame is lost on the air, or its header is unreadable.                *)
Lose(n) ==
  /\ chan[n] # <<>>
  /\ chan' = [chan EXCEPT ![n] = Tail(@)]
  /\ UNCHANGED <<txVars, rxVars, pendingAck, dts, submitted, done, dropped>>
-----------------------------------------------------------------------------
ProcessRx(n) == RxOrphan(n) \/ RxSegment(n) \/ RxDamaged(n) \/ RxAck(n) \/ RxAckLate(n)

Next == \E n \in Node :
  \/ Submit(n) \/ RxManagement(n)
  \/ TxSend(n) \/ TxRetransmit(n) \/ TxGiveUp(n) \/ TxAck(n) \/ TxNothing(n)
  \/ ProcessRx(n) \/ Lose(n)

Spec == Init /\ [][Next]_vars

(* A node's tick reads what has arrived and transmits, for ever, and the   *)
(* timer of a segment runs out.                                            *)
Fairness == \A n \in Node :
  /\ WF_vars(TxSend(n) \/ TxAck(n))
  /\ WF_vars(TxRetransmit(n) \/ TxGiveUp(n))
  /\ WF_vars(TxNothing(n))
  /\ WF_vars(ProcessRx(n) \/ Lose(n))

FairSpec == Spec /\ Fairness
-----------------------------------------------------------------------------
Payload(n, id) == Fragments([id |-> id, size |-> submitted[n][id]])

(* What is delivered holds every segment of one C_PDU, in order; none is   *)
(* missing and none is of another C_PDU (process_rx_dpdu).                 *)
Covers(p, n, id) ==
  /\ p[1] = Payload(n, id)[1] /\ p[Len(p)] = Payload(n, id)[submitted[n][id]]
  /\ \A i \in 1 .. (Len(p) - 1) :
       p[i + 1].id = id /\ p[i + 1].part \in {p[i].part, p[i].part + 1}

NothingIsMissing ==
  \A n \in Node : \A i \in 1 .. Len(delivered[Peer(n)]) :
    \E id \in 1 .. Len(submitted[n]) : Covers(delivered[Peer(n)][i], n, id)

(* A C_PDU acknowledged to the end has been delivered, and C_PDUs are      *)
(* delivered in the order of their submission (stop-and-wait, RxAck        *)
(* against RxSegment).                                                     *)
AckMeansDelivered ==
  \A n \in Node : LET got == delivered[Peer(n)] IN
    /\ \A id \in done[n] : \E i \in 1 .. Len(got) : got[i][1].id = id
    /\ \A i, j \in 1 .. Len(got) : i < j => got[i][1].id <= got[j][1].id

(* Every C_PDU is acknowledged or given up (process_tx, max_retries).      *)
EveryCpduResolved ==
  \A n \in Node : \A id \in 1 .. MaxSubmit[n] :
    Len(submitted[n]) >= id ~> id \in done[n] \cup dropped[n]

(* A node does not refuse regular data for ever: EXPEDITED is left         *)
(* (_dts_transmit, enter_expedited, exit_expedited).                       *)
RegularResumes == \A n \in Node : dts[n] = "EXPEDITED" ~> dts[n] = "DATA"

(* What is delivered is a C_PDU as it was submitted (Annex C, re-assembly  *)
(* by the range of frame sequence numbers; process_rx_dpdu).               *)
DeliveredIsWhole ==
  \A n \in Node : \A i \in 1 .. Len(delivered[Peer(n)]) :
    \E id \in 1 .. Len(submitted[n]) : delivered[Peer(n)][i] = Payload(n, id)
=============================================================================
