------------------------- MODULE ExpeditedLink_proofs -------------------------
(***************************************************************************)
(* What ExpeditedLink guarantees for all values of its constants: the      *)
(* types of its state, and, as long as the sender does not give up so many *)
(* segments in a row that their numbers come round, that nothing is        *)
(* missing in what is delivered and that what is acknowledged was          *)
(* delivered.                                                              *)
(***************************************************************************)
EXTENDS ExpeditedLink, SequenceTheorems, TLAPS

LEMMA Sizes ==
  /\ SeqMod \in Nat /\ SeqMod > 0 /\ IdMod \in Nat /\ IdMod > 0
  /\ MaxFragments \in Nat /\ MaxFragments > 0
  /\ A # B /\ MaxRetries \in Nat
BY ExpeditedAssumption

LEMMA Peers ==
  ASSUME NEW n \in Node
  PROVE  Peer(n) \in Node /\ Peer(n) # n /\ Peer(Peer(n)) = n
BY ExpeditedAssumption DEF Peer, Node

LEMMA NumbersReduce == ASSUME NEW x \in Nat PROVE x % SeqMod \in Seqs
BY Sizes DEF Seqs

LEMMA IdsReduce == ASSUME NEW x \in Nat PROVE x % IdMod \in Ids
BY Sizes DEF Ids

(* No segment is none.                                                     *)
LEMMA DataIsSome == ASSUME NEW f \in Data PROVE f # NoSegment /\ f.type = "DATA" /\ f \in Frame
BY DEF Data, NoSegment, Frame

LEMMA AckIsFrame == ASSUME NEW x \in Seqs PROVE [type |-> "ACK", rxLwe |-> x] \in Frame
BY DEF Frame

(* What arrives.                                                           *)
LEMMA ArrivedData ==
  ASSUME TypeOK, NEW n \in Node, Arrived(n, "DATA")
  PROVE  Head(chan[n]) \in Data /\ Tail(chan[n]) \in Seq(Frame)
<1>1. chan[n] \in Seq(Frame) /\ chan[n] # <<>> /\ Head(chan[n]).type = "DATA"
  BY DEF TypeOK, Arrived
<1>2. Head(chan[n]) \in Frame
  BY <1>1
<1> QED BY <1>1, <1>2 DEF Frame

LEMMA ArrivedAck ==
  ASSUME TypeOK, NEW n \in Node, Arrived(n, "ACK")
  PROVE  Head(chan[n]).rxLwe \in Seqs /\ Tail(chan[n]) \in Seq(Frame)
<1>1. chan[n] \in Seq(Frame) /\ chan[n] # <<>> /\ Head(chan[n]).type = "ACK"
  BY DEF TypeOK, Arrived
<1>2. Head(chan[n]) \in Frame
  BY <1>1
<1> QED BY <1>1, <1>2 DEF Frame, Data

(* Cutting a C_PDU gives its segments, at least one.                       *)
LEMMA CutType ==
  ASSUME TypeOK, NEW n \in Node, NEW c \in CPdu
  PROVE  /\ SegmentsOf(n, c) \in Seq(Data) /\ Len(SegmentsOf(n, c)) = c.size
         /\ c.size \in 1 .. MaxFragments
<1>1. c.size \in Nat /\ c.size >= 1 /\ c.size <= MaxFragments /\ c.id \in Nat
  BY Sizes DEF CPdu
<1>2. txSeq[n] \in Nat /\ cpduId[n] \in Ids
  BY Sizes DEF TypeOK, Seqs
<1>3. ASSUME NEW k \in 1 .. c.size
      PROVE  [type |-> "DATA", seq |-> (txSeq[n] + k - 1) % SeqMod,
              cpdu |-> cpduId[n], fragment |-> Fragments(c)[k]] \in Data
  <2>1. Fragments(c)[k] = [id |-> c.id, part |-> k, size |-> c.size]
    BY DEF Fragments
  <2>2. k \in 1 .. MaxFragments /\ c.size \in 1 .. MaxFragments
    BY <1>1, Sizes
  <2>3. Fragments(c)[k] \in Fragment
    BY <2>1, <2>2, <1>1 DEF Fragment
  <2>4. txSeq[n] + k - 1 \in Nat
    BY <1>1, <1>2
  <2>5. (txSeq[n] + k - 1) % SeqMod \in Seqs
    BY <2>4, NumbersReduce
  <2> QED BY <2>3, <2>5, <1>2 DEF Data
<1>4. SegmentsOf(n, c) \in [1 .. c.size -> Data]
  BY <1>3 DEF SegmentsOf
<1>5. SegmentsOf(n, c) \in Seq(Data)
  BY <1>1, <1>4
<1> QED BY <1>1, <1>4, <1>5

LEMMA TransmitType ==
  ASSUME TypeOK, NEW n \in Node, NEW burst \in Seq(Data), Transmit(n, burst)
  PROVE  chan' \in [Node -> Seq(Frame)] /\ pendingAck' \in [Node -> Seqs \cup {NoAck}]
<1> DEFINE out == (IF pendingAck[n] = NoAck THEN <<>>
                   ELSE <<[type |-> "ACK", rxLwe |-> pendingAck[n]]>>) \o burst
<1>1. pendingAck[n] \in Seqs \cup {NoAck} /\ chan \in [Node -> Seq(Frame)]
  BY DEF TypeOK
<1>2. burst \in Seq(Frame)
  BY DEF Frame
<1>3. pendingAck[n] # NoAck => <<[type |-> "ACK", rxLwe |-> pendingAck[n]]>> \in Seq(Frame)
  BY <1>1, AckIsFrame
<1>4. out \in Seq(Frame)
  BY <1>2, <1>3
<1>5. chan' = [chan EXCEPT ![Peer(n)] = chan[Peer(n)] \o out]
  BY DEF Transmit
<1>6. chan[Peer(n)] \o out \in Seq(Frame)
  BY <1>1, <1>4, Peers
<1> HIDE DEF out
<1>7. chan' \in [Node -> Seq(Frame)]
  BY <1>1, <1>5, <1>6
<1>8. pendingAck' \in [Node -> Seqs \cup {NoAck}]
  BY DEF Transmit, TypeOK
<1> QED BY <1>7, <1>8

-----------------------------------------------------------------------------
LEMMA InitTypes == Init => TypeOK
BY Sizes DEF Init, TypeOK, Seqs, Ids, NoCpdu, NoAck, NoSegment

LEMMA SubmitTypes == ASSUME TypeOK, NEW n \in Node, Submit(n) PROVE TypeOK'
<1>1. PICK size \in 1 .. MaxFragments :
        /\ submitted' = [submitted EXCEPT ![n] = Append(submitted[n], size)]
        /\ queue' = [queue EXCEPT ![n] = Append(queue[n], [id |-> Len(submitted[n]) + 1, size |-> size])]
  BY DEF Submit
<1>2. PICK control \in BOOLEAN : dts' = [dts EXCEPT ![n] = IF control THEN "EXPEDITED" ELSE @]
  BY DEF Submit
<1>3. submitted[n] \in Seq(1 .. MaxFragments) /\ queue[n] \in Seq(CPdu)
  BY DEF TypeOK
<1>4. Len(submitted[n]) + 1 \in Nat
  BY <1>3
<1>5. [id |-> Len(submitted[n]) + 1, size |-> size] \in CPdu
  BY <1>4 DEF CPdu
<1>6. Append(submitted[n], size) \in Seq(1 .. MaxFragments)
  BY <1>3
<1>7. Append(queue[n], [id |-> Len(submitted[n]) + 1, size |-> size]) \in Seq(CPdu)
  BY <1>3, <1>5
<1>8. submitted' \in [Node -> Seq(1 .. MaxFragments)] /\ queue' \in [Node -> Seq(CPdu)]
  BY <1>1, <1>6, <1>7 DEF TypeOK
<1>9. dts' \in [Node -> {"DATA", "EXPEDITED"}]
  BY <1>2 DEF TypeOK
<1> QED BY <1>8, <1>9 DEF Submit, rxVars, TypeOK

LEMMA RxManagementTypes == ASSUME TypeOK, NEW n \in Node, RxManagement(n) PROVE TypeOK'
BY DEF RxManagement, txVars, rxVars, TypeOK

LEMMA SendTypes == ASSUME TypeOK, NEW n \in Node, TxSend(n) PROVE TypeOK'
<1> DEFINE ready == IF segments[n] # <<>> THEN segments[n] ELSE SegmentsOf(n, Head(queue[n]))
<1>1. ready \in Seq(Data) /\ ready # <<>>
  <2>1. CASE segments[n] # <<>>
    BY <2>1 DEF TypeOK
  <2>2. CASE segments[n] = <<>>
    <3>1. queue[n] \in Seq(CPdu) /\ queue[n] # <<>>
      BY <2>2 DEF TxSend, TypeOK
    <3>2. Head(queue[n]) \in CPdu
      BY <3>1
    <3>3. SegmentsOf(n, Head(queue[n])) \in Seq(Data) /\ Len(SegmentsOf(n, Head(queue[n]))) # 0
      BY <3>2, CutType, Sizes
    <3> QED BY <2>2, <3>3
  <2> QED BY <2>1, <2>2
<1>2. /\ current' = [current EXCEPT ![n] = Head(ready)]
      /\ segments' = [segments EXCEPT ![n] = Tail(ready)]
      /\ Transmit(n, <<Head(ready)>>)
  BY DEF TxSend
<1>3. Head(ready) \in Data /\ Tail(ready) \in Seq(Data)
  BY <1>1
<1> HIDE DEF ready
<1>4. <<Head(ready)>> \in Seq(Data)
  BY <1>3
<1>5. chan' \in [Node -> Seq(Frame)] /\ pendingAck' \in [Node -> Seqs \cup {NoAck}]
  BY <1>2, <1>4, TransmitType
<1>6. current' \in [Node -> Data \cup {NoSegment}] /\ segments' \in [Node -> Seq(Data)]
  BY <1>2, <1>3 DEF TypeOK
<1>7. queue' \in [Node -> Seq(CPdu)]
  <2>1. queue' = [queue EXCEPT ![n] = IF segments[n] # <<>> THEN queue[n] ELSE Tail(queue[n])]
    BY DEF TxSend
  <2>2. queue[n] \in Seq(CPdu) /\ (segments[n] = <<>> => queue[n] # <<>>)
    BY DEF TxSend, TypeOK
  <2>3. segments[n] = <<>> => Tail(queue[n]) \in Seq(CPdu)
    BY <2>2
  <2> QED BY <2>1, <2>2, <2>3 DEF TypeOK
<1>8. retx' \in [Node -> 0 .. MaxRetries] /\ dts' \in [Node -> {"DATA", "EXPEDITED"}]
  BY Sizes DEF TxSend, Enter, TypeOK
<1> QED BY <1>5, <1>6, <1>7, <1>8 DEF TxSend, rxVars, TypeOK

LEMMA NothingIsData == <<>> \in Seq(Data)
OBVIOUS

LEMMA RetransmitTypes == ASSUME TypeOK, NEW n \in Node, TxRetransmit(n) PROVE TypeOK'
<1>1. current[n] \in Data
  BY DEF TxRetransmit, TypeOK
<1>2. <<current[n]>> \in Seq(Data)
  BY <1>1
<1>3. chan' \in [Node -> Seq(Frame)] /\ pendingAck' \in [Node -> Seqs \cup {NoAck}]
  BY <1>2, TransmitType DEF TxRetransmit
<1>4. retx' \in [Node -> 0 .. MaxRetries]
  <2>1. retx[n] \in 0 .. MaxRetries /\ retx[n] < MaxRetries
    BY DEF TxRetransmit, TypeOK
  <2>2. retx[n] + 1 \in 0 .. MaxRetries
    BY <2>1, Sizes
  <2> QED BY <2>2 DEF TxRetransmit, TypeOK
<1> QED BY <1>3, <1>4 DEF TxRetransmit, Enter, rxVars, TypeOK

LEMMA GiveUpTypes == ASSUME TypeOK, NEW n \in Node, TxGiveUp(n) PROVE TypeOK'
<1>1. chan' \in [Node -> Seq(Frame)] /\ pendingAck' \in [Node -> Seqs \cup {NoAck}]
  BY NothingIsData, TransmitType DEF TxGiveUp
<1>2. current[n] \in Data /\ segments[n] \in Seq(Data) /\ txSeq[n] \in Seqs /\ cpduId[n] \in Ids
      /\ skipped[n] \in Nat
  BY DEF TxGiveUp, TypeOK
<1>3. txSeq[n] + 1 + Len(segments[n]) \in Nat /\ skipped[n] + 1 + Len(segments[n]) \in Nat
      /\ cpduId[n] + 1 \in Nat
  <2>1. PICK m \in Nat : m = Len(segments[n])
    BY <1>2
  <2>2. txSeq[n] \in Nat /\ cpduId[n] \in Nat
    BY <1>2, Sizes DEF Seqs, Ids
  <2>3. txSeq[n] + 1 + m \in Nat /\ skipped[n] + 1 + m \in Nat
    BY <1>2, <2>2
  <2> QED BY <2>1, <2>2, <2>3
<1>4. NumberPast(n) \in Seqs /\ (cpduId[n] + 1) % IdMod \in Ids
  BY <1>3, NumbersReduce, IdsReduce DEF NumberPast
<1>5. current[n].fragment.id \in Nat
  BY <1>2 DEF Data, Fragment
<1>6. txSeq' \in [Node -> Seqs] /\ cpduId' \in [Node -> Ids] /\ skipped' \in [Node -> Nat]
  BY <1>3, <1>4 DEF TxGiveUp, TypeOK
<1>7. segments' \in [Node -> Seq(Data)] /\ current' \in [Node -> Data \cup {NoSegment}]
  BY NothingIsData DEF TxGiveUp, TypeOK
<1>8. dropped' \in [Node -> SUBSET Nat]
  BY <1>5 DEF TxGiveUp, TypeOK
<1>9. dts' \in [Node -> {"DATA", "EXPEDITED"}]
  BY DEF TxGiveUp, TypeOK
<1> QED BY <1>1, <1>6, <1>7, <1>8, <1>9 DEF TxGiveUp, rxVars, TypeOK

LEMMA AckTypes == ASSUME TypeOK, NEW n \in Node, TxAck(n) PROVE TypeOK'
<1>1. chan' \in [Node -> Seq(Frame)] /\ pendingAck' \in [Node -> Seqs \cup {NoAck}]
  BY NothingIsData, TransmitType DEF TxAck
<1> QED BY <1>1 DEF TxAck, Enter, txVars, rxVars, TypeOK

LEMMA NothingTypes == ASSUME TypeOK, NEW n \in Node, TxNothing(n) PROVE TypeOK'
BY DEF TxNothing, txVars, rxVars, TypeOK

LEMMA TakeTypes ==
  ASSUME TypeOK, NEW n \in Node, chan[n] # <<>>, Take(n)
  PROVE  chan' \in [Node -> Seq(Frame)] /\ dts' \in [Node -> {"DATA", "EXPEDITED"}]
<1>1. chan[n] \in Seq(Frame) /\ chan' = [chan EXCEPT ![n] = Tail(chan[n])]
  BY DEF TypeOK, Take
<1>2. Tail(chan[n]) \in Seq(Frame)
  BY <1>1
<1>3. dts' \in [Node -> {"DATA", "EXPEDITED"}]
  BY DEF Take, TypeOK
<1> QED BY <1>1, <1>2, <1>3 DEF TypeOK

LEMMA AcknowledgeTypes ==
  ASSUME TypeOK, NEW n \in Node, Arrived(n, "DATA"), Acknowledge(n)
  PROVE  pendingAck' \in [Node -> Seqs \cup {NoAck}]
<1>1. Head(chan[n]).seq \in Seqs
  BY ArrivedData DEF Data
<1>2. Head(chan[n]).seq + 1 \in Nat
  BY <1>1, Sizes DEF Seqs
<1>3. (Head(chan[n]).seq + 1) % SeqMod \in Seqs
  BY <1>2, NumbersReduce
<1> QED BY <1>3 DEF Acknowledge, TypeOK

LEMMA OrphanTypes == ASSUME TypeOK, NEW n \in Node, RxOrphan(n) PROVE TypeOK'
<1>1. chan' \in [Node -> Seq(Frame)] /\ dts' \in [Node -> {"DATA", "EXPEDITED"}]
  BY TakeTypes DEF RxOrphan, Arrived
<1>2. pendingAck' \in [Node -> Seqs \cup {NoAck}]
  BY AcknowledgeTypes DEF RxOrphan
<1> QED BY <1>1, <1>2 DEF RxOrphan, txVars, rxVars, TypeOK

LEMMA SegmentTypes == ASSUME TypeOK, NEW n \in Node, RxSegment(n) PROVE TypeOK'
<1> DEFINE f == Head(chan[n])
           complete == f.fragment.part = f.fragment.size
<1>1. chan' \in [Node -> Seq(Frame)] /\ dts' \in [Node -> {"DATA", "EXPEDITED"}]
  BY TakeTypes DEF RxSegment, Arrived
<1>2. pendingAck' \in [Node -> Seqs \cup {NoAck}]
  BY AcknowledgeTypes DEF RxSegment
<1>3. f.fragment \in Fragment /\ f.cpdu \in Ids
  BY ArrivedData DEF RxSegment, Data
<1>4. /\ rxCpdu' = [rxCpdu EXCEPT ![n] = f.cpdu]
      /\ rxParts' = [rxParts EXCEPT ![n] = IF complete THEN <<>> ELSE PartsWith(n, f)]
      /\ delivered' = [delivered EXCEPT ![n] = IF complete THEN Append(delivered[n], PartsWith(n, f))
                                               ELSE delivered[n]]
  BY DEF RxSegment
<1> HIDE DEF f, complete
<1>5. PartsWith(n, f) \in Seq(Fragment)
  <2>1. rxParts[n] \in Seq(Fragment)
    BY DEF TypeOK
  <2>2. <<f.fragment>> \in Seq(Fragment) /\ Append(rxParts[n], f.fragment) \in Seq(Fragment)
    BY <1>3, <2>1
  <2> QED BY <2>2 DEF PartsWith
<1>6. <<>> \in Seq(Fragment) /\ delivered[n] \in Seq(Seq(Fragment))
  BY DEF TypeOK
<1>7. Append(delivered[n], PartsWith(n, f)) \in Seq(Seq(Fragment))
  BY <1>5, <1>6
<1>8. rxParts' \in [Node -> Seq(Fragment)] /\ rxCpdu' \in [Node -> Ids \cup {NoCpdu}]
  BY <1>3, <1>4, <1>5, <1>6 DEF TypeOK
<1>9. delivered' \in [Node -> Seq(Seq(Fragment))]
  BY <1>4, <1>7 DEF TypeOK
<1> QED BY <1>1, <1>2, <1>8, <1>9 DEF RxSegment, txVars, TypeOK

LEMMA DamagedTypes == ASSUME TypeOK, NEW n \in Node, RxDamaged(n) PROVE TypeOK'
<1>1. chan' \in [Node -> Seq(Frame)] /\ dts' \in [Node -> {"DATA", "EXPEDITED"}]
  BY TakeTypes DEF RxDamaged, Arrived
<1> QED BY <1>1 DEF RxDamaged, txVars, rxVars, TypeOK

LEMMA RxAckTypes == ASSUME TypeOK, NEW n \in Node, RxAck(n) PROVE TypeOK'
<1>1. chan' \in [Node -> Seq(Frame)] /\ dts' \in [Node -> {"DATA", "EXPEDITED"}]
  BY TakeTypes DEF RxAck, Arrived
<1>2. current[n] \in Data /\ txSeq[n] \in Seqs /\ cpduId[n] \in Ids
  BY DEF RxAck, Answers, TypeOK
<1>3. txSeq[n] + 1 \in Nat /\ cpduId[n] + 1 \in Nat /\ current[n].fragment.id \in Nat
  BY <1>2, Sizes DEF Seqs, Ids, Data, Fragment
<1>4. (txSeq[n] + 1) % SeqMod \in Seqs /\ (cpduId[n] + 1) % IdMod \in Ids
  BY <1>3, NumbersReduce, IdsReduce
<1>5. txSeq' \in [Node -> Seqs] /\ skipped' \in [Node -> Nat]
  BY <1>4 DEF RxAck, TypeOK
<1>6. current' \in [Node -> Data \cup {NoSegment}]
  BY DEF RxAck, TypeOK
<1>7. cpduId' \in [Node -> Ids] /\ done' \in [Node -> SUBSET Nat]
  <2>1. CASE segments[n] = <<>>
    <3>1. cpduId' = [cpduId EXCEPT ![n] = (cpduId[n] + 1) % IdMod]
          /\ done' = [done EXCEPT ![n] = done[n] \cup {current[n].fragment.id}]
      BY <2>1 DEF RxAck
    <3> QED BY <3>1, <1>3, <1>4 DEF TypeOK
  <2>2. CASE segments[n] # <<>>
    <3>1. UNCHANGED <<cpduId, done>>
      BY <2>2 DEF RxAck
    <3> QED BY <3>1 DEF TypeOK
  <2> QED BY <2>1, <2>2
<1> QED BY <1>1, <1>5, <1>6, <1>7 DEF RxAck, rxVars, TypeOK

LEMMA AckLateTypes == ASSUME TypeOK, NEW n \in Node, RxAckLate(n) PROVE TypeOK'
<1>1. chan' \in [Node -> Seq(Frame)] /\ dts' \in [Node -> {"DATA", "EXPEDITED"}]
  BY TakeTypes DEF RxAckLate, Arrived
<1> QED BY <1>1 DEF RxAckLate, txVars, rxVars, TypeOK

LEMMA LoseTypes == ASSUME TypeOK, NEW n \in Node, Lose(n) PROVE TypeOK'
<1>1. chan[n] \in Seq(Frame) /\ chan[n] # <<>> /\ chan' = [chan EXCEPT ![n] = Tail(chan[n])]
  BY DEF TypeOK, Lose
<1>2. Tail(chan[n]) \in Seq(Frame)
  BY <1>1
<1>3. chan' \in [Node -> Seq(Frame)]
  BY <1>1, <1>2 DEF TypeOK
<1> QED BY <1>3 DEF Lose, txVars, rxVars, TypeOK

LEMMA StutterTypes == ASSUME TypeOK, UNCHANGED vars PROVE TypeOK'
BY DEF vars, txVars, rxVars, TypeOK

(* The state keeps its types: retries within their limit, numbers and ids  *)
(* below their moduli, queues and windows of well-formed C_PDUs.           *)
THEOREM TypeCorrect == Spec => []TypeOK
<1>1. ASSUME TypeOK, [Next]_vars PROVE TypeOK'
  <2>1. CASE UNCHANGED vars
    BY <1>1, <2>1, StutterTypes
  <2>2. ASSUME NEW n \in Node,
               \/ Submit(n) \/ RxManagement(n)
               \/ TxSend(n) \/ TxRetransmit(n) \/ TxGiveUp(n) \/ TxAck(n) \/ TxNothing(n)
               \/ ProcessRx(n) \/ Lose(n)
        PROVE  TypeOK'
    BY <1>1, <2>2, SubmitTypes, RxManagementTypes, SendTypes, RetransmitTypes, GiveUpTypes,
       AckTypes, NothingTypes, OrphanTypes, SegmentTypes, DamagedTypes, RxAckTypes,
       AckLateTypes, LoseTypes DEF ProcessRx
  <2> QED BY <1>1, <2>1, <2>2 DEF Next
<1> QED BY <1>1, InitTypes, PTL DEF Spec

-----------------------------------------------------------------------------
(* The numbers of a sender that does not give up too much between two      *)
(* acknowledgements.  A number comes round when the numbers passed over    *)
(* since the last acknowledged one are all there are but one.              *)
NumbersSuffice == \A n \in Node : skipped[n] + 1 < SeqMod

Succ(s) == IF s + 1 = SeqMod THEN 0 ELSE s + 1
Age(t, s) == IF s <= t THEN t - s ELSE t - s + SeqMod   \* how far s is behind t

(* The direction from n to its peer.  The segment k of C_PDU u.            *)
Cut(n) == Len(submitted[n]) - Len(queue[n])
Part(u, z, k, cid, s) ==
  [type |-> "DATA", seq |-> s, cpdu |-> cid, fragment |-> [id |-> u, part |-> k, size |-> z]]

QueueOK(q, sub) ==
  /\ Len(q) <= Len(sub)
  /\ \A k \in 1 .. Len(q) :
       q[k] = [id |-> Len(sub) - Len(q) + k, size |-> sub[Len(sub) - Len(q) + k]]

(* The segment under way and those still to be sent are the last ones of   *)
(* C_PDU u, with numbers in a row.                                         *)
SenderOK(cur, segs, t, cid, u, z) ==
  /\ cur # NoSegment =>
       u >= 1 /\ z - Len(segs) >= 1 /\ cur = Part(u, z, z - Len(segs), cid, t)
  /\ segs # <<>> =>
       /\ u >= 1
       /\ IF cur = NoSegment THEN segs[1].seq = t /\ z - Len(segs) >= 1 ELSE segs[1].seq = Succ(t)
  /\ \A k \in 1 .. Len(segs) :
       segs[k] = Part(u, z, z - Len(segs) + k, cid, segs[k].seq)
  /\ \A k \in 1 .. (Len(segs) - 1) : segs[k + 1].seq = Succ(segs[k].seq)

(* The segment the sender is at.                                           *)
Coming(cur, segs) ==
  IF cur # NoSegment THEN {cur} ELSE IF segs # <<>> THEN {segs[1]} ELSE {}

IsData(f) == f.type = "DATA"
Before(f) == [id |-> f.fragment.id, part |-> f.fragment.part - 1, size |-> f.fragment.size]
Step(f, g) == f = g \/ (f.cpdu = g.cpdu /\ f.fragment = Before(g))

(* Segment f was the last that the receiver took.                          *)
Knows(R, rc, D, f) ==
  IF f.fragment.part = f.fragment.size
  THEN R = <<>> /\ \E i \in 1 .. Len(D) : D[i][1].id = f.fragment.id
  ELSE R # <<>> /\ rc = f.cpdu /\ R[Len(R)] = f.fragment

(* The receiver can take f: it has the segment before it, or f itself.     *)
Ready(R, rc, D, f) ==
  f.fragment.part > 1 =>
    Knows(R, rc, D, f) \/ (R # <<>> /\ rc = f.cpdu /\ R[Len(R)] = Before(f))

(* Segments on their way: none is so old that its number comes round, and  *)
(* the number of the segment under way is that segment's.                  *)
AirOK(c, t, k, cur, sub, u) ==
  \A i \in 1 .. Len(c) : IsData(c[i]) =>
    /\ Age(t, c[i].seq) <= k + 1
    /\ c[i].seq = t => c[i] = cur
    /\ c[i].fragment.id \in 1 .. u
    /\ c[i].fragment.size = sub[c[i].fragment.id]
    /\ c[i].fragment.part <= c[i].fragment.size

(* They are in the order of sending, and before a segment that continues   *)
(* another there is nothing but that one and copies of itself.             *)
OrderOK(c, t) ==
  \A i \in 1 .. Len(c) : \A j \in 1 .. (i - 1) : IsData(c[i]) /\ IsData(c[j]) =>
    /\ c[j].fragment.id <= c[i].fragment.id
    /\ c[j].seq = t => c[i].seq = t
    /\ c[i].fragment.part > 1 => Step(c[j], c[i])

ReadyOK(c, coming, R, rc, D) ==
  /\ \A i \in 1 .. Len(c) : IsData(c[i]) => Ready(R, rc, D, c[i])
  /\ \A g \in coming :
       /\ Ready(R, rc, D, g)
       /\ g.fragment.part > 1 => \A i \in 1 .. Len(c) : IsData(c[i]) => Step(c[i], g)

(* Fragments of one C_PDU, from the first on, some of them repeated.       *)
Chain(r, sub, u) ==
  /\ r # <<>> /\ r[1].part = 1 /\ r[1].id \in 1 .. u /\ r[1].size = sub[r[1].id]
  /\ \A i \in 1 .. Len(r) : r[i].id = r[1].id /\ r[i].size = r[1].size
  /\ \A i \in 1 .. (Len(r) - 1) : r[i + 1].part \in {r[i].part, r[i].part + 1}

(* What the receiver collects and what it has delivered, in the order of   *)
(* what is still on its way.                                               *)
CollectedOK(R, D, c, sub, u) ==
  R # <<>> =>
    /\ Chain(R, sub, u) /\ R[Len(R)].part # R[1].size
    /\ \A i \in 1 .. Len(D) : D[i][1].id <= R[1].id
    /\ \A i \in 1 .. Len(c) : IsData(c[i]) => R[1].id <= c[i].fragment.id
DeliveredOK(D, c, sub, u) ==
  \A i \in 1 .. Len(D) :
    /\ Chain(D[i], sub, u) /\ D[i][Len(D[i])].part = D[i][1].size
    /\ \A j \in 1 .. Len(c) : IsData(c[j]) => D[i][1].id <= c[j].fragment.id
    /\ \A j \in 1 .. (i - 1) : D[j][1].id <= D[i][1].id

(* Acknowledgements on their way, or due: none is so old that it comes     *)
(* round, and after one of the segment under way there are only such.      *)
IsAck(f) == f.type = "ACK"
AcksOK(c, due, t, k) ==
  /\ \A i \in 1 .. Len(c) : IsAck(c[i]) =>
       /\ Age(Succ(t), c[i].rxLwe) <= k + 1
       /\ c[i].rxLwe = Succ(t) =>
            /\ due \in {NoAck, Succ(t)}
            /\ \A j \in (i + 1) .. Len(c) : IsAck(c[j]) => c[j].rxLwe = Succ(t)
  /\ due # NoAck => Age(Succ(t), due) <= k + 1

Answered(c, due, t) == due = Succ(t) \/ \E i \in 1 .. Len(c) : IsAck(c[i]) /\ c[i].rxLwe = Succ(t)
(* The receiver has the segment under way and nothing else is coming.      *)
Confirmed(cur, c, R, rc, D) ==
  /\ cur # NoSegment /\ Knows(R, rc, D, cur)
  /\ \A i \in 1 .. Len(c) : IsData(c[i]) => c[i] = cur

DoneOK(ids, D) == \A id \in ids : \E i \in 1 .. Len(D) : D[i][1].id = id

DataOK(c, t, k, cur, coming, sub, u, R, rc, D) ==
  /\ AirOK(c, t, k, cur, sub, u) /\ OrderOK(c, t) /\ ReadyOK(c, coming, R, rc, D)
  /\ CollectedOK(R, D, c, sub, u) /\ DeliveredOK(D, c, sub, u)

SendsOK(n) ==
  /\ QueueOK(queue[n], submitted[n])
  /\ SenderOK(current[n], segments[n], txSeq[n], cpduId[n], Cut(n), submitted[n][Cut(n)])
SegmentsOK(n, p) ==
  DataOK(chan[p], txSeq[n], skipped[n], current[n], Coming(current[n], segments[n]),
         submitted[n], Cut(n), rxParts[p], rxCpdu[p], delivered[p])
AnswersOK(n, p) ==
  /\ AcksOK(chan[n], pendingAck[p], txSeq[n], skipped[n])
  /\ Answered(chan[n], pendingAck[p], txSeq[n]) =>
       Confirmed(current[n], chan[p], rxParts[p], rxCpdu[p], delivered[p])
Direction(n, p) ==
  SendsOK(n) /\ SegmentsOK(n, p) /\ AnswersOK(n, p) /\ DoneOK(done[n], delivered[p])

DeliveryInv == \A n \in Node : Direction(n, Peer(n))
-----------------------------------------------------------------------------
(* Numbers.                                                                *)
LEMMA SuccOf == ASSUME NEW s \in Seqs PROVE (s + 1) % SeqMod = Succ(s) /\ Succ(s) \in Seqs
<1>1. PICK m \in Nat : m = SeqMod /\ m > 0
  BY Sizes
<1>2. s \in 0 .. (m - 1)
  BY <1>1 DEF Seqs
<1>3. (s + 1) % m = IF s + 1 = m THEN 0 ELSE s + 1
  BY <1>1, <1>2
<1> QED BY <1>1, <1>2, <1>3 DEF Succ, Seqs

(* Only one remainder and one quotient make up a number.                   *)
LEMMA Remainder ==
  ASSUME NEW m \in Int, m > 0, NEW a \in Int, NEW q \in Int, NEW r \in 0 .. (m - 1), a = q * m + r
  PROVE  a % m = r
OBVIOUS

(* Adding one before reducing is taking the next number.                   *)
LEMMA SuccMod == ASSUME NEW x \in Nat PROVE (x + 1) % SeqMod = Succ(x % SeqMod)
<1>1. PICK m \in Int : m = SeqMod /\ m > 0
  BY Sizes
<1>2. PICK q \in Int, r \in 0 .. (m - 1) : x = q * m + r /\ x % m = r
  BY <1>1
<1>3. PICK y \in Int : y = x + 1
  OBVIOUS
<1>4. CASE r + 1 = m
  <2>1. PICK p \in Int : p = q + 1
    OBVIOUS
  <2>2. p * m = q * m + m
    BY <1>1, <2>1
  <2>3. y = p * m + 0 /\ 0 \in 0 .. (m - 1)
    BY <1>1, <1>2, <1>3, <1>4, <2>2
  <2>4. y % m = 0
    BY <1>1, <2>3, Remainder
  <2> QED BY <1>1, <1>2, <1>3, <1>4, <2>4 DEF Succ
<1>5. CASE r + 1 # m
  <2>1. PICK w \in 0 .. (m - 1) : w = r + 1
    BY <1>2, <1>5
  <2>2. y = q * m + w
    BY <1>2, <1>3, <2>1
  <2>3. y % m = w
    BY <1>1, <2>2, Remainder
  <2> QED BY <1>1, <1>2, <1>3, <1>5, <2>1, <2>3 DEF Succ
<1> QED BY <1>4, <1>5

(* Passing j numbers over makes every other number older by j, unless it   *)
(* comes round.                                                            *)
LEMMA AgeShift ==
  ASSUME NEW t \in Seqs, NEW s \in Seqs, NEW j \in Nat, Age(t, s) + j < SeqMod
  PROVE  /\ (t + j) % SeqMod \in Seqs
         /\ Age((t + j) % SeqMod, s) = Age(t, s) + j
<1>1. PICK m \in Nat : m = SeqMod /\ m > 0
  BY Sizes
<1>2. t \in 0 .. (m - 1) /\ s \in 0 .. (m - 1)
  BY <1>1 DEF Seqs
<1>3. j < m
  BY <1>1, <1>2 DEF Age
<1>4. (t + j) % m = IF t + j >= m THEN t + j - m ELSE t + j
  BY <1>1, <1>2, <1>3
<1>5. PICK x \in 0 .. (m - 1) : x = (t + j) % m
  BY <1>1, <1>2, <1>3, <1>4
<1>6. Age(x, s) = Age(t, s) + j
  BY <1>1, <1>2, <1>3, <1>4, <1>5 DEF Age
<1> QED BY <1>1, <1>5, <1>6 DEF Seqs

LEMMA AgeType ==
  ASSUME NEW t \in Seqs, NEW s \in Seqs
  PROVE  Age(t, s) \in Nat /\ (Age(t, s) = 0 <=> s = t)
<1>1. PICK m \in Nat : m = SeqMod /\ m > 0
  BY Sizes
<1> QED BY <1>1 DEF Age, Seqs

(* The acknowledgement of a segment is as old as the segment.              *)
LEMMA AgeOfAck ==
  ASSUME NEW t \in Seqs, NEW s \in Seqs
  PROVE  Age(Succ(t), Succ(s)) = Age(t, s) /\ (Succ(s) = Succ(t) <=> s = t)
<1>1. PICK m \in Nat : m = SeqMod /\ m > 0
  BY Sizes
<1> QED BY <1>1 DEF Age, Succ, Seqs

-----------------------------------------------------------------------------
(* Frames leave at the head of a channel and come in at its end.           *)
LEMMA TailFacts ==
  ASSUME NEW c \in Seq(Frame), c # <<>>
  PROVE  /\ Tail(c) \in Seq(Frame) /\ Head(c) = c[1] /\ 1 \in 1 .. Len(c)
         /\ Len(c) \in Nat /\ Len(Tail(c)) \in Nat
         /\ \A i \in 1 .. Len(Tail(c)) : i \in Nat /\ i + 1 \in 1 .. Len(c) /\ Tail(c)[i] = c[i + 1]
<1>1. Len(c) \in Nat /\ Len(c) > 0 /\ Tail(c) \in Seq(Frame) /\ Head(c) = c[1]
  BY HeadTailProperties
<1>2. PICK len \in Nat : len = Len(c) /\ len > 0
  BY <1>1
<1>3. Len(Tail(c)) = len - 1
  BY <1>2, HeadTailProperties
<1>4. ASSUME NEW i \in 1 .. (len - 1) PROVE Tail(c)[i] = c[i + 1] /\ i \in Nat /\ i + 1 \in 1 .. len
  BY <1>2, <1>3, <1>4, HeadTailProperties
<1> QED BY <1>1, <1>2, <1>3, <1>4

LEMMA AppendFacts ==
  ASSUME NEW c \in Seq(Frame), NEW f \in Frame
  PROVE  /\ Append(c, f) \in Seq(Frame) /\ Len(c) \in Nat /\ Len(Append(c, f)) = Len(c) + 1
         /\ \A i \in 1 .. Len(c) : Append(c, f)[i] = c[i]
         /\ \A i \in 1 .. Len(Append(c, f)) :
              i \in Nat /\ (i \in 1 .. Len(c) \/ (i = Len(c) + 1 /\ Append(c, f)[i] = f))
BY AppendProperties

(* Taking the first frame takes nothing from what is known of the others.  *)
LEMMA TailDataOK ==
  ASSUME NEW c \in Seq(Frame), c # <<>>, NEW t, NEW k, NEW cur, NEW coming, NEW sub, NEW u,
         NEW R, NEW rc, NEW D, DataOK(c, t, k, cur, coming, sub, u, R, rc, D)
  PROVE  DataOK(Tail(c), t, k, cur, coming, sub, u, R, rc, D)
<1> DEFINE d == Tail(c)
<1>0. \A i \in 1 .. Len(d) : i \in Nat /\ i + 1 \in 1 .. Len(c) /\ d[i] = c[i + 1]
  BY TailFacts
<1> HIDE DEF d
<1>1. AirOK(d, t, k, cur, sub, u)
  BY <1>0 DEF DataOK, AirOK
<1>2. OrderOK(d, t)
  <2>1. SUFFICES ASSUME NEW i \in 1 .. Len(d), NEW j \in 1 .. (i - 1), IsData(d[i]), IsData(d[j])
                 PROVE  /\ d[j].fragment.id <= d[i].fragment.id
                        /\ d[j].seq = t => d[i].seq = t
                        /\ d[i].fragment.part > 1 => Step(d[j], d[i])
    BY DEF OrderOK
  <2>2. j \in 1 .. Len(d) /\ j + 1 \in 1 .. ((i + 1) - 1)
    BY <1>0
  <2>3. d[i] = c[i + 1] /\ d[j] = c[j + 1] /\ i + 1 \in 1 .. Len(c)
    BY <1>0, <2>2
  <2> QED BY <2>1, <2>2, <2>3 DEF DataOK, OrderOK
<1>3. ReadyOK(d, coming, R, rc, D)
  BY <1>0 DEF DataOK, ReadyOK
<1>4. CollectedOK(R, D, d, sub, u)
  BY <1>0 DEF DataOK, CollectedOK
<1>5. DeliveredOK(D, d, sub, u)
  BY <1>0 DEF DataOK, DeliveredOK
<1> QED BY <1>1, <1>2, <1>3, <1>4, <1>5 DEF DataOK, d

LEMMA TailConfirmed ==
  ASSUME NEW c \in Seq(Frame), c # <<>>, NEW cur, NEW R, NEW rc, NEW D, Confirmed(cur, c, R, rc, D)
  PROVE  Confirmed(cur, Tail(c), R, rc, D)
<1>1. \A i \in 1 .. Len(Tail(c)) : i + 1 \in 1 .. Len(c) /\ Tail(c)[i] = c[i + 1]
  BY TailFacts
<1> QED BY <1>1 DEF Confirmed

LEMMA TailAcksOK ==
  ASSUME NEW c \in Seq(Frame), c # <<>>, NEW due, NEW t, NEW k
  PROVE  /\ AcksOK(c, due, t, k) => AcksOK(Tail(c), due, t, k)
         /\ Answered(Tail(c), due, t) => Answered(c, due, t)
<1> DEFINE d == Tail(c)
<1>0. \A i \in 1 .. Len(d) : i \in Nat /\ i + 1 \in 1 .. Len(c) /\ d[i] = c[i + 1]
  BY TailFacts
<1>1. Len(d) \in Nat
  BY TailFacts
<1> HIDE DEF d
<1>2. Answered(d, due, t) => Answered(c, due, t)
  BY <1>0 DEF Answered
<1>3. ASSUME AcksOK(c, due, t, k) PROVE AcksOK(d, due, t, k)
  <2>1. SUFFICES ASSUME NEW i \in 1 .. Len(d), IsAck(d[i])
                 PROVE  /\ Age(Succ(t), d[i].rxLwe) <= k + 1
                        /\ d[i].rxLwe = Succ(t) =>
                             /\ due \in {NoAck, Succ(t)}
                             /\ \A j \in (i + 1) .. Len(d) : IsAck(d[j]) => d[j].rxLwe = Succ(t)
    BY <1>3 DEF AcksOK
  <2>2. d[i] = c[i + 1] /\ i + 1 \in 1 .. Len(c)
    BY <1>0
  <2>3. ASSUME NEW j \in (i + 1) .. Len(d) PROVE j + 1 \in ((i + 1) + 1) .. Len(c) /\ d[j] = c[j + 1]
    <3>1. j \in 1 .. Len(d)
      BY <1>1
    <3>2. j + 1 \in 1 .. Len(c) /\ d[j] = c[j + 1]
      BY <1>0, <3>1
    <3>3. Len(c) \in Nat
      BY TailFacts
    <3> QED BY <1>1, <3>1, <3>2, <3>3
  <2> QED BY <1>3, <2>1, <2>2, <2>3 DEF AcksOK
<1> QED BY <1>2, <1>3 DEF d

(* An acknowledgement behind the segments on their way does not concern    *)
(* them.                                                                   *)
LEMMA AckBehindData ==
  ASSUME NEW c \in Seq(Frame), NEW f \in Frame, IsAck(f), NEW t, NEW k, NEW cur, NEW coming,
         NEW sub, NEW u, NEW R, NEW rc, NEW D
  PROVE  /\ DataOK(c, t, k, cur, coming, sub, u, R, rc, D) =>
              DataOK(Append(c, f), t, k, cur, coming, sub, u, R, rc, D)
         /\ Confirmed(cur, c, R, rc, D) => Confirmed(cur, Append(c, f), R, rc, D)
<1> DEFINE d == Append(c, f)
<1>1. /\ \A i \in 1 .. Len(c) : d[i] = c[i]
      /\ \A i \in 1 .. Len(d) : i \in Nat /\ (i \in 1 .. Len(c) \/ (i = Len(c) + 1 /\ d[i] = f))
  BY AppendFacts
<1>2. Len(c) \in Nat /\ Len(d) = Len(c) + 1
  BY AppendFacts
<1>3. ~IsData(f)
  BY DEF IsAck, IsData
<1> HIDE DEF d
<1>4. ASSUME NEW i \in 1 .. Len(d), IsData(d[i])
      PROVE  i \in 1 .. Len(c) /\ d[i] = c[i]
  BY <1>1, <1>3, <1>4
<1>5. ASSUME Confirmed(cur, c, R, rc, D) PROVE Confirmed(cur, d, R, rc, D)
  BY <1>4, <1>5 DEF Confirmed
<1>6. ASSUME DataOK(c, t, k, cur, coming, sub, u, R, rc, D)
      PROVE  DataOK(d, t, k, cur, coming, sub, u, R, rc, D)
  <2>1. AirOK(d, t, k, cur, sub, u)
    BY <1>4, <1>6 DEF DataOK, AirOK
  <2>2. OrderOK(d, t)
    <3>1. SUFFICES ASSUME NEW i \in 1 .. Len(d), NEW j \in 1 .. (i - 1), IsData(d[i]), IsData(d[j])
                   PROVE  /\ d[j].fragment.id <= d[i].fragment.id
                          /\ d[j].seq = t => d[i].seq = t
                          /\ d[i].fragment.part > 1 => Step(d[j], d[i])
      BY DEF OrderOK
    <3>2. i \in 1 .. Len(c) /\ d[i] = c[i]
      BY <1>4, <3>1
    <3>3. j \in 1 .. Len(d)
      BY <1>2, <3>2
    <3>4. d[j] = c[j]
      BY <1>4, <3>1, <3>3
    <3> QED BY <1>6, <3>1, <3>2, <3>4 DEF DataOK, OrderOK
  <2>3. ReadyOK(d, coming, R, rc, D)
    BY <1>4, <1>6 DEF DataOK, ReadyOK
  <2>4. CollectedOK(R, D, d, sub, u)
    BY <1>4, <1>6 DEF DataOK, CollectedOK
  <2>5. DeliveredOK(D, d, sub, u)
    BY <1>4, <1>6 DEF DataOK, DeliveredOK
  <2> QED BY <2>1, <2>2, <2>3, <2>4, <2>5 DEF DataOK
<1> QED BY <1>5, <1>6 DEF d

(* The segment the sender is at may be sent, for the first time or again.  *)
LEMMA DataBehindData ==
  ASSUME NEW c \in Seq(Frame), NEW g \in Data, NEW t \in Seqs, NEW k \in Nat, NEW cur, NEW coming,
         NEW sub, NEW u0 \in Nat, NEW u \in Nat, u0 <= u, NEW R, NEW rc, NEW D,
         DataOK(c, t, k, cur, coming, sub, u0, R, rc, D),
         g.seq = t, g.fragment.id = u, u >= 1, g.fragment.size = sub[u],
         g.fragment.part <= g.fragment.size,
         Ready(R, rc, D, g),
         \A i \in 1 .. Len(c) : IsData(c[i]) =>
           /\ c[i].seq = t => c[i] = g
           /\ g.fragment.part > 1 => Step(c[i], g)
  PROVE  DataOK(Append(c, g), t, k, g, {g}, sub, u, R, rc, D)
<1> DEFINE d == Append(c, g)
<1>0. g \in Frame /\ IsData(g)
  BY DataIsSome DEF IsData
<1>1. /\ \A i \in 1 .. Len(c) : d[i] = c[i]
      /\ \A i \in 1 .. Len(d) : i \in Nat /\ (i \in 1 .. Len(c) \/ (i = Len(c) + 1 /\ d[i] = g))
  BY <1>0, AppendFacts
<1>2. Len(c) \in Nat /\ Len(d) = Len(c) + 1
  BY <1>0, AppendFacts
<1> HIDE DEF d
<1>3. g.fragment.part \in Nat /\ g.fragment.size \in Nat
  BY Sizes DEF Data, Fragment
<1>4. Age(t, t) = 0
  BY AgeType
<1>5. Step(g, g)
  BY DEF Step
<1>6. ASSUME NEW i \in 1 .. Len(c), IsData(c[i])
      PROVE  /\ c[i].fragment.id \in 1 .. u0 /\ c[i].fragment.id <= u
             /\ c[i].fragment.id \in 1 .. u
  BY <1>6 DEF DataOK, AirOK
<1>7. AirOK(d, t, k, g, sub, u)
  <2>1. SUFFICES ASSUME NEW i \in 1 .. Len(d), IsData(d[i])
                 PROVE  /\ Age(t, d[i].seq) <= k + 1
                        /\ d[i].seq = t => d[i] = g
                        /\ d[i].fragment.id \in 1 .. u
                        /\ d[i].fragment.size = sub[d[i].fragment.id]
                        /\ d[i].fragment.part <= d[i].fragment.size
    BY DEF AirOK
  <2>2. CASE i \in 1 .. Len(c)
    <3>1. d[i] = c[i] /\ IsData(c[i])
      BY <1>1, <2>1, <2>2
    <3>2. /\ Age(t, c[i].seq) <= k + 1
          /\ c[i].fragment.size = sub[c[i].fragment.id]
          /\ c[i].fragment.part <= c[i].fragment.size
      BY <2>2, <3>1 DEF DataOK, AirOK
    <3> QED BY <1>6, <2>2, <3>1, <3>2
  <2>3. CASE d[i] = g
    BY <1>4, <2>3
  <2> QED BY <1>1, <2>2, <2>3
<1>8. OrderOK(d, t)
  <2>1. SUFFICES ASSUME NEW i \in 1 .. Len(d), NEW j \in 1 .. (i - 1), IsData(d[i]), IsData(d[j])
                 PROVE  /\ d[j].fragment.id <= d[i].fragment.id
                        /\ d[j].seq = t => d[i].seq = t
                        /\ d[i].fragment.part > 1 => Step(d[j], d[i])
    BY DEF OrderOK
  <2>2. j \in 1 .. Len(c) /\ d[j] = c[j]
    <3>1. i \in Nat /\ i <= Len(c) + 1
      BY <1>1, <1>2
    <3>2. j \in 1 .. Len(c)
      BY <1>2, <3>1
    <3> QED BY <1>1, <3>2
  <2>3. CASE i \in 1 .. Len(c)
    <3>1. d[i] = c[i]
      BY <1>1, <2>3
    <3> QED BY <2>1, <2>2, <2>3, <3>1 DEF DataOK, OrderOK
  <2>4. CASE d[i] = g
    BY <1>6, <2>1, <2>2, <2>4
  <2> QED BY <1>1, <2>3, <2>4
<1>9. ReadyOK(d, {g}, R, rc, D)
  <2>1. \A i \in 1 .. Len(d) : IsData(d[i]) => Ready(R, rc, D, d[i])
    BY <1>1 DEF DataOK, ReadyOK
  <2>2. g.fragment.part > 1 => \A i \in 1 .. Len(d) : IsData(d[i]) => Step(d[i], g)
    BY <1>1, <1>5
  <2> QED BY <2>1, <2>2 DEF ReadyOK
<1>10. CollectedOK(R, D, d, sub, u)
  <2>1. ASSUME R # <<>>
        PROVE  /\ Chain(R, sub, u) /\ R[Len(R)].part # R[1].size
               /\ \A i \in 1 .. Len(D) : D[i][1].id <= R[1].id
               /\ R[1].id <= u
               /\ \A i \in 1 .. Len(c) : IsData(c[i]) => R[1].id <= c[i].fragment.id
    BY <2>1 DEF DataOK, CollectedOK, Chain
  <2> QED BY <1>1, <2>1 DEF CollectedOK
<1>11. DeliveredOK(D, d, sub, u)
  <2>1. ASSUME NEW i \in 1 .. Len(D)
        PROVE  /\ Chain(D[i], sub, u) /\ D[i][Len(D[i])].part = D[i][1].size
               /\ D[i][1].id <= u
               /\ \A j \in 1 .. Len(c) : IsData(c[j]) => D[i][1].id <= c[j].fragment.id
               /\ \A j \in 1 .. (i - 1) : D[j][1].id <= D[i][1].id
    BY <2>1 DEF DataOK, DeliveredOK, Chain
  <2> QED BY <1>1, <2>1 DEF DeliveredOK
<1> QED BY <1>7, <1>8, <1>9, <1>10, <1>11 DEF DataOK, d

LEMMA ConfirmedAgain ==
  ASSUME NEW c \in Seq(Frame), NEW g \in Data, NEW R, NEW rc, NEW D, Confirmed(g, c, R, rc, D)
  PROVE  Confirmed(g, Append(c, g), R, rc, D)
<1>1. /\ \A i \in 1 .. Len(c) : Append(c, g)[i] = c[i]
      /\ \A i \in 1 .. Len(Append(c, g)) : i \in 1 .. Len(c) \/ Append(c, g)[i] = g
  BY AppendFacts, DataIsSome
<1> QED BY <1>1 DEF Confirmed

(* An acknowledgement that was due is sent; a segment is sent.             *)
LEMMA DueIsSent ==
  ASSUME NEW c \in Seq(Frame), NEW due \in Seqs, NEW t, NEW k,
         AcksOK(c, due, t, k)
  PROVE  LET d == Append(c, [type |-> "ACK", rxLwe |-> due])
         IN  AcksOK(d, NoAck, t, k) /\ (Answered(d, NoAck, t) => NoAck = Succ(t) \/ Answered(c, due, t))
<1> DEFINE a == [type |-> "ACK", rxLwe |-> due]
           d == Append(c, a)
<1>0. a \in Frame /\ IsAck(a) /\ a.rxLwe = due /\ due # NoAck
  BY AckIsFrame, Sizes DEF IsAck, NoAck, Seqs
<1> HIDE DEF a
<1>1. /\ \A i \in 1 .. Len(c) : d[i] = c[i]
      /\ \A i \in 1 .. Len(d) : i \in Nat /\ (i \in 1 .. Len(c) \/ (i = Len(c) + 1 /\ d[i] = a))
  BY <1>0, AppendFacts
<1>2. Len(c) \in Nat /\ Len(d) = Len(c) + 1
  BY <1>0, AppendFacts
<1> HIDE DEF d
<1>3. AcksOK(d, NoAck, t, k)
  <2>1. SUFFICES ASSUME NEW i \in 1 .. Len(d), IsAck(d[i])
                 PROVE  /\ Age(Succ(t), d[i].rxLwe) <= k + 1
                        /\ d[i].rxLwe = Succ(t) =>
                             \A j \in (i + 1) .. Len(d) : IsAck(d[j]) => d[j].rxLwe = Succ(t)
    BY DEF AcksOK
  <2>2. CASE i \in 1 .. Len(c)
    <3>1. d[i] = c[i]
      BY <1>1, <2>2
    <3>2. ASSUME c[i].rxLwe = Succ(t), NEW j \in (i + 1) .. Len(d), IsAck(d[j])
          PROVE  d[j].rxLwe = Succ(t)
      <4>1. due = Succ(t)
        BY <1>0, <2>1, <2>2, <3>1, <3>2 DEF AcksOK
      <4>2. j \in 1 .. Len(d) /\ (j \in 1 .. Len(c) => j \in (i + 1) .. Len(c))
        BY <1>2, <2>2
      <4>3. d[j] = a \/ (d[j] = c[j] /\ j \in (i + 1) .. Len(c))
        BY <1>1, <4>2
      <4> QED BY <1>0, <2>1, <2>2, <3>1, <3>2, <4>1, <4>3 DEF AcksOK
    <3> QED BY <2>1, <2>2, <3>1, <3>2 DEF AcksOK
  <2>3. CASE i = Len(c) + 1 /\ d[i] = a
    <3>1. \A j \in (i + 1) .. Len(d) : FALSE
      BY <1>2, <2>3
    <3> QED BY <1>0, <2>3, <3>1 DEF AcksOK
  <2> QED BY <1>1, <2>2, <2>3
<1>4. Answered(d, NoAck, t) => NoAck = Succ(t) \/ Answered(c, due, t)
  BY <1>0, <1>1 DEF Answered
<1> QED BY <1>3, <1>4 DEF a, d

LEMMA DataBehindAcks ==
  ASSUME NEW c \in Seq(Frame), NEW g \in Data, NEW due, NEW t, NEW k
  PROVE  /\ AcksOK(c, due, t, k) => AcksOK(Append(c, g), due, t, k)
         /\ Answered(Append(c, g), due, t) => Answered(c, due, t)
<1> DEFINE d == Append(c, g)
<1>0. g \in Frame /\ ~IsAck(g)
  BY DataIsSome DEF IsAck
<1>1. /\ \A i \in 1 .. Len(c) : d[i] = c[i]
      /\ \A i \in 1 .. Len(d) : i \in Nat /\ (i \in 1 .. Len(c) \/ (i = Len(c) + 1 /\ d[i] = g))
  BY <1>0, AppendFacts
<1>2. Len(c) \in Nat /\ Len(d) = Len(c) + 1
  BY <1>0, AppendFacts
<1> HIDE DEF d
<1>3. ASSUME NEW i \in 1 .. Len(d), IsAck(d[i]) PROVE i \in 1 .. Len(c) /\ d[i] = c[i]
  BY <1>0, <1>1, <1>3
<1>4. ASSUME AcksOK(c, due, t, k) PROVE AcksOK(d, due, t, k)
  <2>1. SUFFICES ASSUME NEW i \in 1 .. Len(d), IsAck(d[i])
                 PROVE  /\ Age(Succ(t), d[i].rxLwe) <= k + 1
                        /\ d[i].rxLwe = Succ(t) =>
                             /\ due \in {NoAck, Succ(t)}
                             /\ \A j \in (i + 1) .. Len(d) : IsAck(d[j]) => d[j].rxLwe = Succ(t)
    BY <1>4 DEF AcksOK
  <2>2. i \in 1 .. Len(c) /\ d[i] = c[i]
    BY <1>3, <2>1
  <2>3. ASSUME NEW j \in (i + 1) .. Len(d), IsAck(d[j]) PROVE j \in (i + 1) .. Len(c) /\ d[j] = c[j]
    <3>1. j \in 1 .. Len(d)
      BY <1>2, <2>2
    <3>2. j \in 1 .. Len(c) /\ d[j] = c[j]
      BY <1>3, <2>3, <3>1
    <3> QED BY <1>2, <2>2, <3>2
  <2> QED BY <1>4, <2>1, <2>2, <2>3 DEF AcksOK
<1>5. Answered(d, due, t) => Answered(c, due, t)
  BY <1>3 DEF Answered
<1> QED BY <1>4, <1>5 DEF d

-----------------------------------------------------------------------------
(* The receiver takes a segment.                                           *)
Orphaned(R, rc, f) == f.fragment.part # 1 /\ (f.cpdu # rc \/ R = <<>>)
Joined(R, f) == IF f.fragment.part = 1 THEN <<f.fragment>> ELSE Append(R, f.fragment)
Taken(R, rc, D, f, R2, rc2, D2) ==
  IF Orphaned(R, rc, f)
  THEN R2 = R /\ rc2 = rc /\ D2 = D
  ELSE /\ rc2 = f.cpdu
       /\ IF f.fragment.part = f.fragment.size
          THEN R2 = <<>> /\ D2 = Append(D, Joined(R, f))
          ELSE R2 = Joined(R, f) /\ D2 = D

LEMMA JoinedChain ==
  ASSUME NEW R \in Seq(Fragment), NEW rc, NEW D, NEW f \in Data, NEW sub, NEW u \in Nat,
         f.fragment.id \in 1 .. u, f.fragment.size = sub[f.fragment.id],
         R # <<>> => Chain(R, sub, u), Ready(R, rc, D, f), ~Orphaned(R, rc, f)
  PROVE  LET P == Joined(R, f)
         IN  /\ P \in Seq(Fragment) /\ Chain(P, sub, u) /\ P[Len(P)] = f.fragment
             /\ P[1].id = f.fragment.id /\ P[1].size = f.fragment.size
             /\ f.fragment.part # 1 => R # <<>> /\ R[1].id = f.fragment.id
<1> DEFINE fr == f.fragment
<1>1. fr \in Fragment /\ fr.part \in Nat /\ fr.part >= 1 /\ fr.id \in Nat
  BY Sizes DEF Data, Fragment
<1>2. CASE fr.part = 1
  <2>1. Joined(R, f) = <<fr>>
    BY <1>2 DEF Joined
  <2>2. <<fr>> \in Seq(Fragment) /\ Len(<<fr>>) = 1 /\ <<fr>>[1] = fr /\ <<fr>> # <<>>
    BY <1>1
  <2>3. Chain(<<fr>>, sub, u)
    BY <1>2, <2>2 DEF Chain
  <2> QED BY <1>2, <2>1, <2>2, <2>3
<1>3. CASE fr.part # 1
  <2>1. R # <<>> /\ f.cpdu = rc
    BY <1>3 DEF Orphaned
  <2>2. R[Len(R)] = fr \/ R[Len(R)] = Before(f)
    <3>1. fr.part > 1
      BY <1>1, <1>3
    <3> QED BY <2>1, <3>1 DEF Ready, Knows
  <2> DEFINE P == Append(R, fr)
  <2>3. Joined(R, f) = P
    BY <1>3 DEF Joined
  <2>4. Chain(R, sub, u)
    BY <2>1
  <2>5. PICK len \in Nat : len = Len(R) /\ len >= 1
    BY <2>1
  <2>6. /\ P \in Seq(Fragment) /\ P # <<>> /\ Len(P) = len + 1 /\ P[len + 1] = fr
        /\ \A i \in 1 .. len : P[i] = R[i]
    BY <1>1, <2>5, AppendProperties
  <2> HIDE DEF P
  <2>7. R[len].id = fr.id /\ R[len].size = fr.size /\ R[len].part \in {fr.part, fr.part - 1}
    BY <2>2, <2>5 DEF Before
  <2>8. R[1].id = fr.id /\ R[1].size = fr.size
    BY <2>4, <2>5, <2>7 DEF Chain
  <2>9. P[1] = R[1]
    BY <2>5, <2>6
  <2>10. \A i \in 1 .. (len + 1) : P[i].id = P[1].id /\ P[i].size = P[1].size
    <3>1. SUFFICES ASSUME NEW i \in 1 .. (len + 1) PROVE P[i].id = P[1].id /\ P[i].size = P[1].size
      OBVIOUS
    <3>2. CASE i \in 1 .. len
      BY <2>4, <2>5, <2>6, <2>9, <3>2 DEF Chain
    <3>3. CASE i = len + 1
      BY <2>6, <2>8, <2>9, <3>3
    <3> QED BY <2>5, <3>1, <3>2, <3>3
  <2>11. \A i \in 1 .. len : P[i + 1].part \in {P[i].part, P[i].part + 1}
    <3>1. SUFFICES ASSUME NEW i \in 1 .. len PROVE P[i + 1].part \in {P[i].part, P[i].part + 1}
      OBVIOUS
    <3>2. CASE i = len
      BY <1>1, <2>5, <2>6, <2>7, <3>2
    <3>3. CASE i # len
      <4>1. i \in 1 .. (len - 1) /\ i + 1 \in 1 .. len
        BY <2>5, <3>3
      <4>2. R[i + 1].part \in {R[i].part, R[i].part + 1}
        BY <2>4, <2>5, <4>1 DEF Chain
      <4> QED BY <2>6, <4>1, <4>2
    <3> QED BY <3>2, <3>3
  <2>12. Chain(P, sub, u)
    <3>1. P[1].part = 1 /\ P[1].id \in 1 .. u /\ P[1].size = sub[P[1].id]
      BY <2>4, <2>9 DEF Chain
    <3>2. (len + 1) - 1 = len
      BY <2>5
    <3> QED BY <2>6, <2>10, <2>11, <3>1, <3>2 DEF Chain
  <2> QED BY <1>3, <2>1, <2>3, <2>6, <2>8, <2>9, <2>12
<1> QED BY <1>2, <1>3

(* Afterwards the receiver has it, and has lost nothing of what it gave.   *)
LEMMA TakenKnown ==
  ASSUME NEW R \in Seq(Fragment), NEW rc, NEW D \in Seq(Seq(Fragment)), NEW f \in Data,
         NEW sub, NEW u \in Nat,
         f.fragment.id \in 1 .. u, f.fragment.size = sub[f.fragment.id],
         R # <<>> => Chain(R, sub, u), Ready(R, rc, D, f),
         NEW R2, NEW rc2, NEW D2, Taken(R, rc, D, f, R2, rc2, D2)
  PROVE  /\ R2 \in Seq(Fragment)
         /\ Knows(R2, rc2, D2, f)
         /\ \A ids : DoneOK(ids, D) => DoneOK(ids, D2)
<1>1. CASE Orphaned(R, rc, f)
  <2>1. R2 = R /\ rc2 = rc /\ D2 = D
    BY <1>1 DEF Taken
  <2>2. f.fragment.part > 1
    BY <1>1, Sizes DEF Orphaned, Data, Fragment
  <2>3. Knows(R, rc, D, f)
    BY <1>1, <2>2 DEF Orphaned, Ready, Knows
  <2> QED BY <2>1, <2>3
<1>2. CASE ~Orphaned(R, rc, f)
  <2> DEFINE P == Joined(R, f)
  <2>0. P \in Seq(Fragment) /\ Chain(P, sub, u) /\ P[Len(P)] = f.fragment /\ P[1].id = f.fragment.id
    BY <1>2, JoinedChain
  <2>1. P \in Seq(Fragment) /\ P # <<>> /\ P[Len(P)] = f.fragment /\ P[1].id = f.fragment.id
    BY <2>0 DEF Chain
  <2> HIDE DEF P
  <2>2. CASE f.fragment.part = f.fragment.size
    <3>1. R2 = <<>> /\ D2 = Append(D, P)
      BY <1>2, <2>2 DEF Taken, P
    <3>2. /\ Len(D) \in Nat /\ Len(D2) = Len(D) + 1 /\ D2[Len(D) + 1] = P
          /\ \A i \in 1 .. Len(D) : D2[i] = D[i] /\ i \in 1 .. Len(D2)
      BY <2>1, <3>1, AppendProperties
    <3>3. Knows(R2, rc2, D2, f)
      <4>1. Len(D) + 1 \in 1 .. Len(D2)
        BY <3>2
      <4>2. D2[Len(D) + 1][1].id = f.fragment.id
        BY <2>1, <3>2
      <4> QED BY <2>2, <3>1, <4>1, <4>2 DEF Knows
    <3>4. \A ids : DoneOK(ids, D) => DoneOK(ids, D2)
      BY <3>2 DEF DoneOK
    <3> QED BY <3>1, <3>3, <3>4
  <2>3. CASE f.fragment.part # f.fragment.size
    <3>1. R2 = P /\ D2 = D /\ rc2 = f.cpdu
      BY <1>2, <2>3 DEF Taken, P
    <3> QED BY <2>1, <2>3, <3>1 DEF Knows
  <2> QED BY <2>2, <2>3
<1> QED BY <1>1, <1>2

(* It is ready for whatever may follow the segment.                        *)
LEMMA KnowsMakesReady ==
  ASSUME NEW R, NEW rc, NEW D, NEW f \in Data, NEW g \in Data,
         Knows(R, rc, D, f), g.fragment.part > 1 => Step(f, g), g.fragment.part <= g.fragment.size
  PROVE  Ready(R, rc, D, g)
<1>1. SUFFICES ASSUME g.fragment.part > 1, Step(f, g)
               PROVE  Knows(R, rc, D, g) \/ (R # <<>> /\ rc = g.cpdu /\ R[Len(R)] = Before(g))
  BY DEF Ready
<1>2. CASE f = g
  BY <1>2
<1>3. CASE f.cpdu = g.cpdu /\ f.fragment = Before(g)
  <2>1. f.fragment.part = g.fragment.part - 1 /\ f.fragment.size = g.fragment.size
    BY <1>3 DEF Before
  <2>2. g.fragment.part \in Int /\ g.fragment.size \in Int
    BY Sizes DEF Data, Fragment
  <2>3. f.fragment.part # f.fragment.size
    BY <2>1, <2>2
  <2> QED BY <1>3, <2>3 DEF Knows
<1> QED BY <1>1, <1>2, <1>3 DEF Step

LEMMA TakenDataOK ==
  ASSUME NEW c \in Seq(Frame), c # <<>>, NEW t, NEW k, NEW cur, NEW coming, NEW sub, NEW u \in Nat,
         NEW R \in Seq(Fragment), NEW rc, NEW D \in Seq(Seq(Fragment)),
         DataOK(c, t, k, cur, coming, sub, u, R, rc, D), c[1] \in Data,
         \A g \in coming : g \in Data /\ g.fragment.part <= g.fragment.size,
         NEW R2, NEW rc2, NEW D2, Taken(R, rc, D, c[1], R2, rc2, D2)
  PROVE  /\ DataOK(Tail(c), t, k, cur, coming, sub, u, R2, rc2, D2)
         /\ Knows(R2, rc2, D2, c[1])
         /\ \A ids : DoneOK(ids, D) => DoneOK(ids, D2)
<1> DEFINE d == Tail(c)
<1>1. PICK f \in Data : f = c[1]
  OBVIOUS
<1>2. /\ d \in Seq(Frame) /\ Len(d) \in Nat /\ 1 \in 1 .. Len(c)
      /\ \A i \in 1 .. Len(d) : i \in Nat /\ i + 1 \in 1 .. Len(c) /\ d[i] = c[i + 1]
  BY TailFacts
<1>3. DataOK(d, t, k, cur, coming, sub, u, R, rc, D)
  BY TailDataOK
<1> HIDE DEF d
<1>4. IsData(c[1]) /\ IsData(f)
  BY <1>1, DataIsSome DEF IsData
<1>5. /\ f.fragment.id \in 1 .. u /\ f.fragment.size = sub[f.fragment.id]
      /\ f.fragment.part <= f.fragment.size /\ Ready(R, rc, D, f)
      /\ R # <<>> => Chain(R, sub, u)
  BY <1>1, <1>2, <1>4 DEF DataOK, AirOK, ReadyOK, CollectedOK
<1>6. \A i \in 1 .. Len(D) : D[i][1].id <= f.fragment.id
  BY <1>1, <1>2, <1>4 DEF DataOK, DeliveredOK
<1>7. ASSUME NEW i \in 1 .. Len(d), IsData(d[i])
      PROVE  /\ d[i] \in Data /\ d[i].fragment.part <= d[i].fragment.size
             /\ f.fragment.id <= d[i].fragment.id
             /\ d[i].fragment.part > 1 => Step(f, d[i])
  <2>1. d[i] = c[i + 1] /\ i + 1 \in 1 .. Len(c) /\ 1 \in 1 .. ((i + 1) - 1)
    <3>1. d[i] = c[i + 1] /\ i + 1 \in 1 .. Len(c)
      BY <1>2
    <3>2. PICK len \in Nat : len = Len(d)
      BY <1>2
    <3>3. i \in 1 .. len
      BY <3>2
    <3>4. 1 \in 1 .. ((i + 1) - 1)
      BY <3>3
    <3> QED BY <3>1, <3>4
  <2>2. d[i] \in Frame
    BY <1>2
  <2>3. d[i] \in Data
    BY <1>7, <2>2 DEF Frame, IsData
  <2>4. d[i].fragment.part <= d[i].fragment.size
    BY <1>3, <1>7 DEF DataOK, AirOK
  <2> QED BY <1>1, <1>4, <1>7, <2>1, <2>3, <2>4 DEF DataOK, OrderOK
<1>8. /\ R2 \in Seq(Fragment) /\ Knows(R2, rc2, D2, f)
      /\ \A ids : DoneOK(ids, D) => DoneOK(ids, D2)
  <2>1. Taken(R, rc, D, f, R2, rc2, D2)
    BY <1>1
  <2> QED BY <1>5, <2>1, TakenKnown
<1>9. ReadyOK(d, coming, R2, rc2, D2)
  <2>1. ASSUME NEW i \in 1 .. Len(d), IsData(d[i]) PROVE Ready(R2, rc2, D2, d[i])
    BY <1>7, <1>8, <2>1, KnowsMakesReady
  <2>2. ASSUME NEW g \in coming
        PROVE  /\ Ready(R2, rc2, D2, g)
               /\ g.fragment.part > 1 => \A i \in 1 .. Len(d) : IsData(d[i]) => Step(d[i], g)
    <3>1. g \in Data /\ g.fragment.part <= g.fragment.size
      OBVIOUS
    <3>2. g.fragment.part > 1 => Step(f, g)
      BY <1>1, <1>2, <1>4 DEF DataOK, ReadyOK
    <3>3. Ready(R2, rc2, D2, g)
      BY <1>8, <3>1, <3>2, KnowsMakesReady
    <3> QED BY <1>3, <3>3 DEF DataOK, ReadyOK
  <2> QED BY <2>1, <2>2 DEF ReadyOK
<1>10. CollectedOK(R2, D2, d, sub, u) /\ DeliveredOK(D2, d, sub, u)
  <2>1. CASE Orphaned(R, rc, f)
    <3>1. R2 = R /\ D2 = D
      BY <1>1, <2>1 DEF Taken
    <3> QED BY <1>3, <3>1 DEF DataOK
  <2>2. CASE ~Orphaned(R, rc, f)
    <3> DEFINE P == Joined(R, f)
    <3>1. /\ P \in Seq(Fragment) /\ Chain(P, sub, u) /\ P[Len(P)] = f.fragment
          /\ P[1].id = f.fragment.id /\ P[1].size = f.fragment.size
      BY <1>5, <2>2, JoinedChain
    <3> HIDE DEF P
    <3>2. CASE f.fragment.part = f.fragment.size
      <4>1. R2 = <<>> /\ D2 = Append(D, P)
        BY <1>1, <2>2, <3>2 DEF Taken, P
      <4>2. /\ Len(D) \in Nat /\ Len(D2) = Len(D) + 1 /\ D2[Len(D) + 1] = P
            /\ \A i \in 1 .. Len(D) : D2[i] = D[i]
        BY <3>1, <4>1, AppendProperties
      <4>3. PICK len \in Nat : len = Len(D)
        BY <4>2
      <4>4. ASSUME NEW i \in 1 .. Len(D2)
            PROVE  /\ Chain(D2[i], sub, u) /\ D2[i][Len(D2[i])].part = D2[i][1].size
                   /\ \A j \in 1 .. Len(d) : IsData(d[j]) => D2[i][1].id <= d[j].fragment.id
                   /\ \A j \in 1 .. (i - 1) : D2[j][1].id <= D2[i][1].id
        <5>1. CASE i \in 1 .. len
          <6>1. D2[i] = D[i] /\ i \in 1 .. Len(D)
            BY <4>2, <4>3, <5>1
          <6>2. \A j \in 1 .. (i - 1) : D2[j] = D[j]
            BY <4>2, <4>3, <5>1
          <6> QED BY <1>3, <6>1, <6>2 DEF DataOK, DeliveredOK
        <5>2. CASE i = len + 1
          <6>1. D2[i] = P
            BY <4>2, <4>3, <5>2
          <6>2. \A j \in 1 .. (i - 1) : D2[j][1].id <= f.fragment.id
            BY <1>6, <4>2, <4>3, <5>2
          <6> QED BY <1>7, <3>1, <3>2, <6>1, <6>2, SMTT(30)
        <5> QED BY <4>2, <4>3, <5>1, <5>2
      <4> QED BY <4>1, <4>4 DEF CollectedOK, DeliveredOK
    <3>3. CASE f.fragment.part # f.fragment.size
      <4>1. R2 = P /\ D2 = D
        BY <1>1, <2>2, <3>3 DEF Taken, P
      <4>2. CollectedOK(R2, D2, d, sub, u)
        BY <1>6, <1>7, <3>1, <3>3, <4>1 DEF CollectedOK
      <4> QED BY <1>3, <4>1, <4>2 DEF DataOK
    <3> QED BY <3>2, <3>3
  <2> QED BY <2>1, <2>2
<1> QED BY <1>1, <1>3, <1>8, <1>9, <1>10 DEF DataOK, d

-----------------------------------------------------------------------------
(* The steps of the system.  Two nodes, and what is known of each          *)
(* direction between them.                                                 *)
LEMMA BothDirections ==
  ASSUME NEW n \in Node
  PROVE  /\ DeliveryInv => Direction(n, Peer(n)) /\ Direction(Peer(n), n)
         /\ Direction(n, Peer(n))' /\ Direction(Peer(n), n)' => DeliveryInv'
<1>1. DeliveryInv => Direction(n, Peer(n)) /\ Direction(Peer(n), n)
  <2>1. DeliveryInv => Direction(n, Peer(n)) /\ Direction(Peer(n), Peer(Peer(n)))
    BY Peers DEF DeliveryInv
  <2> QED BY <2>1, Peers
<1>2. ASSUME Direction(n, Peer(n))', Direction(Peer(n), n)' PROVE DeliveryInv'
  <2>1. SUFFICES ASSUME NEW m \in Node PROVE Direction(m, Peer(m))'
    BY DEF DeliveryInv
  <2>2. m = n \/ m = Peer(n)
    BY DEF Node, Peer
  <2>3. Peer(Peer(n)) = n
    BY Peers
  <2> QED BY <1>2, <2>2, <2>3
<1> QED BY <1>1, <1>2

(* What a node sends with belongs to its side, what it receives with to    *)
(* the other direction.                                                    *)
SameSender(n) ==
  /\ queue'[n] = queue[n] /\ segments'[n] = segments[n] /\ current'[n] = current[n]
  /\ txSeq'[n] = txSeq[n] /\ cpduId'[n] = cpduId[n] /\ skipped'[n] = skipped[n]
  /\ submitted'[n] = submitted[n] /\ done'[n] = done[n]
SameReceiver(p) ==
  rxParts'[p] = rxParts[p] /\ rxCpdu'[p] = rxCpdu[p] /\ delivered'[p] = delivered[p]

LEMMA SenderKept ==
  ASSUME NEW n, SameSender(n), SendsOK(n)
  PROVE  SendsOK(n)' /\ Cut(n)' = Cut(n)
<1>1. Cut(n)' = Cut(n)
  BY DEF SameSender, Cut
<1> QED BY <1>1 DEF SameSender, SendsOK

LEMMA DirectionKept ==
  ASSUME NEW n, NEW p, SameSender(n), SameReceiver(p), Direction(n, p),
         chan'[n] = chan[n], chan'[p] = chan[p], pendingAck'[p] = pendingAck[p]
  PROVE  Direction(n, p)'
<1>1. SendsOK(n)' /\ Cut(n)' = Cut(n)
  BY SenderKept DEF Direction
<1>2. SegmentsOK(n, p)'
  BY <1>1 DEF Direction, SegmentsOK, SameSender, SameReceiver
<1>3. AnswersOK(n, p)'
  BY DEF Direction, AnswersOK, SameSender, SameReceiver
<1> QED BY <1>1, <1>2, <1>3 DEF Direction, SameSender, SameReceiver

(* A frame that is taken and changes nothing else, seen by the direction   *)
(* whose acknowledgements it might be of, and the one of its segments.     *)
LEMMA AckDropped ==
  ASSUME TypeOK, NEW n \in Node, NEW p, SameSender(n), SameReceiver(p), Direction(n, p),
         chan[n] # <<>>, chan'[n] = Tail(chan[n]), chan'[p] = chan[p],
         pendingAck'[p] = pendingAck[p]
  PROVE  Direction(n, p)'
<1>1. SendsOK(n)' /\ Cut(n)' = Cut(n)
  BY SenderKept DEF Direction
<1>2. SegmentsOK(n, p)'
  BY <1>1 DEF Direction, SegmentsOK, SameSender, SameReceiver
<1>3. chan[n] \in Seq(Frame)
  BY DEF TypeOK
<1>4. AcksOK(Tail(chan[n]), pendingAck[p], txSeq[n], skipped[n])
  BY <1>3, TailAcksOK DEF Direction, AnswersOK
<1>5. Answered(Tail(chan[n]), pendingAck[p], txSeq[n]) => Answered(chan[n], pendingAck[p], txSeq[n])
  BY <1>3, TailAcksOK
<1>6. AnswersOK(n, p)'
  BY <1>4, <1>5 DEF Direction, AnswersOK, SameSender, SameReceiver
<1> QED BY <1>1, <1>2, <1>6 DEF Direction, SameSender, SameReceiver

LEMMA DataDropped ==
  ASSUME TypeOK, NEW n, NEW p \in Node, SameSender(n), SameReceiver(p), Direction(n, p),
         chan[p] # <<>>, chan'[p] = Tail(chan[p]), chan'[n] = chan[n],
         pendingAck'[p] = pendingAck[p]
  PROVE  Direction(n, p)'
<1>1. SendsOK(n)' /\ Cut(n)' = Cut(n)
  BY SenderKept DEF Direction
<1>2. chan[p] \in Seq(Frame)
  BY DEF TypeOK
<1>3. DataOK(Tail(chan[p]), txSeq[n], skipped[n], current[n], Coming(current[n], segments[n]),
             submitted[n], Cut(n), rxParts[p], rxCpdu[p], delivered[p])
  BY <1>2, TailDataOK DEF Direction, SegmentsOK
<1>4. SegmentsOK(n, p)'
  BY <1>1, <1>3 DEF SegmentsOK, SameSender, SameReceiver
<1>5. Confirmed(current[n], chan[p], rxParts[p], rxCpdu[p], delivered[p]) =>
        Confirmed(current[n], Tail(chan[p]), rxParts[p], rxCpdu[p], delivered[p])
  BY <1>2, TailConfirmed
<1>6. AnswersOK(n, p)'
  BY <1>5 DEF Direction, AnswersOK, SameSender, SameReceiver
<1> QED BY <1>1, <1>4, <1>6 DEF Direction, SameSender, SameReceiver

(* A frame of node n is lost, or read for nothing.                         *)
LEMMA FrameDropped ==
  ASSUME TypeOK, DeliveryInv, NEW n \in Node, chan[n] # <<>>,
         chan' = [chan EXCEPT ![n] = Tail(chan[n])],
         UNCHANGED <<queue, segments, current, txSeq, cpduId, skipped, submitted, done,
                     rxParts, rxCpdu, delivered, pendingAck>>
  PROVE  DeliveryInv'
<1>1. PICK p \in Node : p = Peer(n) /\ p # n
  BY Peers
<1>2. Direction(n, p) /\ Direction(p, n)
  BY <1>1, BothDirections
<1>3. SameSender(n) /\ SameSender(p) /\ SameReceiver(n) /\ SameReceiver(p)
  BY DEF SameSender, SameReceiver
<1>4. chan'[n] = Tail(chan[n]) /\ chan'[p] = chan[p] /\ pendingAck' = pendingAck
  BY <1>1 DEF TypeOK
<1>5. Direction(n, p)'
  BY <1>2, <1>3, <1>4, AckDropped
<1>6. Direction(p, n)'
  BY <1>2, <1>3, <1>4, DataDropped
<1> QED BY <1>1, <1>5, <1>6, BothDirections

LEMMA LoseStep == ASSUME TypeOK, DeliveryInv, NEW n \in Node, Lose(n) PROVE DeliveryInv'
<1>1. chan[n] # <<>> /\ chan' = [chan EXCEPT ![n] = Tail(chan[n])]
  BY DEF Lose
<1>2. UNCHANGED <<queue, segments, current, txSeq, cpduId, skipped, submitted, done,
                  rxParts, rxCpdu, delivered, pendingAck>>
  BY DEF Lose, txVars, rxVars
<1> QED BY <1>1, <1>2, FrameDropped

LEMMA DamagedStep == ASSUME TypeOK, DeliveryInv, NEW n \in Node, RxDamaged(n) PROVE DeliveryInv'
<1>1. chan[n] # <<>> /\ chan' = [chan EXCEPT ![n] = Tail(chan[n])]
  BY DEF RxDamaged, Take, Arrived
<1>2. UNCHANGED <<queue, segments, current, txSeq, cpduId, skipped, submitted, done,
                  rxParts, rxCpdu, delivered, pendingAck>>
  BY DEF RxDamaged, txVars, rxVars
<1> QED BY <1>1, <1>2, FrameDropped

LEMMA AckLateStep == ASSUME TypeOK, DeliveryInv, NEW n \in Node, RxAckLate(n) PROVE DeliveryInv'
<1>1. chan[n] # <<>> /\ chan' = [chan EXCEPT ![n] = Tail(chan[n])]
  BY DEF RxAckLate, Take, Arrived
<1>2. UNCHANGED <<queue, segments, current, txSeq, cpduId, skipped, submitted, done,
                  rxParts, rxCpdu, delivered, pendingAck>>
  BY DEF RxAckLate, txVars, rxVars
<1> QED BY <1>1, <1>2, FrameDropped

(* Nothing that delivery is about changes.                                 *)
LEMMA IdleStep ==
  ASSUME DeliveryInv,
         UNCHANGED <<queue, segments, current, txSeq, cpduId, skipped, submitted, done,
                     rxParts, rxCpdu, delivered, pendingAck, chan>>
  PROVE  DeliveryInv'
<1>1. SUFFICES ASSUME NEW n \in Node PROVE Direction(n, Peer(n))'
  BY DEF DeliveryInv
<1>2. SameSender(n) /\ SameReceiver(Peer(n))
  BY DEF SameSender, SameReceiver
<1>3. Direction(n, Peer(n))
  BY DEF DeliveryInv
<1> QED BY <1>2, <1>3, DirectionKept

LEMMA Remaining == ASSUME NEW a \in Nat, NEW b \in Nat, b <= a PROVE a - b \in Nat /\ a - b <= a
OBVIOUS

LEMMA LastOut ==
  ASSUME NEW s \in Seq(Frame), NEW t \in Seq(Frame), NEW g \in Frame
  PROVE  s \o (t \o <<g>>) = Append(s \o t, g)
<1>1. <<g>> \in Seq(Frame) /\ s \o t \in Seq(Frame)
  OBVIOUS
<1>2. s \o (t \o <<g>>) = (s \o t) \o <<g>>
  BY <1>1, ConcatAssociative
<1>3. PICK w \in Seq(Frame) : w = s \o t
  BY <1>1
<1>4. Append(w, g) = w \o <<g>>
  BY AppendIsConcat
<1> QED BY <1>2, <1>3, <1>4

(* The segment the sender is at is the one after those acknowledged.       *)
LEMMA ComingFacts ==
  ASSUME TypeOK, NEW n \in Node, SendsOK(n)
  PROVE  /\ Cut(n) \in Nat /\ Cut(n) <= Len(submitted[n])
         /\ \A g \in Coming(current[n], segments[n]) :
              /\ g \in Data /\ g.seq = txSeq[n] /\ g.fragment.id = Cut(n) /\ Cut(n) >= 1
              /\ g.fragment.size = submitted[n][Cut(n)] /\ g.fragment.part <= g.fragment.size
<1>1. Len(submitted[n]) \in Nat /\ Len(queue[n]) \in Nat /\ Len(queue[n]) <= Len(submitted[n])
  <2>1. submitted[n] \in Seq(1 .. MaxFragments) /\ queue[n] \in Seq(CPdu)
    BY DEF TypeOK
  <2>2. Len(queue[n]) <= Len(submitted[n])
    BY DEF SendsOK, QueueOK
  <2> QED BY <2>1, <2>2
<1>2. Cut(n) \in Nat /\ Cut(n) <= Len(submitted[n])
  <2>1. PICK a \in Nat, b \in Nat : a = Len(submitted[n]) /\ b = Len(queue[n]) /\ b <= a
    BY <1>1
  <2>2. a - b \in Nat /\ a - b <= a
    BY <2>1, Remaining
  <2> QED BY <2>1, <2>2 DEF Cut
<1>3. ASSUME NEW g \in Coming(current[n], segments[n])
      PROVE  /\ g \in Data /\ g.seq = txSeq[n] /\ g.fragment.id = Cut(n) /\ Cut(n) >= 1
             /\ g.fragment.size = submitted[n][Cut(n)] /\ g.fragment.part <= g.fragment.size
  <2> DEFINE u == Cut(n)
             z == submitted[n][u]
  <2>1. segments[n] \in Seq(Data) /\ current[n] \in Data \cup {NoSegment}
    BY DEF TypeOK
  <2>2. PICK len \in Nat : len = Len(segments[n])
    BY <2>1
  <2>3. ASSUME u >= 1 PROVE z \in Nat
    <3>1. u \in 1 .. Len(submitted[n])
      BY <1>1, <1>2, <2>3
    <3>2. submitted[n] \in Seq(1 .. MaxFragments)
      BY DEF TypeOK
    <3> QED BY <3>1, <3>2, Sizes
  <2>4. CASE current[n] # NoSegment
    <3>1. g = current[n]
      BY <1>3, <2>4 DEF Coming
    <3>2. u >= 1 /\ current[n] = Part(u, z, z - len, cpduId[n], txSeq[n])
      BY <2>2, <2>4 DEF SendsOK, SenderOK
    <3>3. z - len <= z
      BY <2>2, <2>3, <3>2
    <3> HIDE DEF u, z
    <3>4. /\ g.seq = txSeq[n] /\ g.fragment.id = u /\ g.fragment.size = z
          /\ g.fragment.part = z - len
      BY <3>1, <3>2 DEF Part
    <3> QED BY <2>1, <2>4, <3>1, <3>2, <3>3, <3>4 DEF u, z
  <2>5. CASE current[n] = NoSegment /\ segments[n] # <<>>
    <3>1. g = segments[n][1] /\ 1 \in 1 .. len
      BY <1>3, <2>1, <2>2, <2>5 DEF Coming
    <3>2. u >= 1 /\ g.seq = txSeq[n]
      BY <2>5, <3>1 DEF SendsOK, SenderOK
    <3>3. z - len >= 1
      BY <2>2, <2>5 DEF SendsOK, SenderOK
    <3>4. g = Part(u, z, z - len + 1, cpduId[n], g.seq)
      BY <2>2, <3>1 DEF SendsOK, SenderOK
    <3>5. z - len + 1 <= z
      BY <2>2, <2>3, <3>1, <3>2
    <3> HIDE DEF u, z
    <3>6. g.fragment.id = u /\ g.fragment.size = z /\ g.fragment.part = z - len + 1
      BY <3>4 DEF Part
    <3>7. g \in Data
      BY <2>1, <2>2, <3>1
    <3> QED BY <3>2, <3>5, <3>6, <3>7 DEF u, z
  <2> QED BY <1>3, <2>4, <2>5 DEF Coming
<1> QED BY <1>2, <1>3

(* What goes out: an acknowledgement that is due, then the burst.          *)
LEMMA TransmitFacts ==
  ASSUME TypeOK, NEW n \in Node, NEW p \in Node, p = Peer(n), NEW burst, Transmit(n, burst)
  PROVE  /\ pendingAck'[n] = NoAck /\ pendingAck'[p] = pendingAck[p] /\ chan'[n] = chan[n]
         /\ \E mid \in Seq(Frame) :
              /\ \/ pendingAck[n] = NoAck /\ mid = chan[p]
                 \/ /\ pendingAck[n] \in Seqs
                    /\ mid = Append(chan[p], [type |-> "ACK", rxLwe |-> pendingAck[n]])
              /\ burst = <<>> => chan'[p] = mid
              /\ \A g \in Data : burst = <<g>> => chan'[p] = Append(mid, g)
<1> DEFINE ack == [type |-> "ACK", rxLwe |-> pendingAck[n]]
           due == IF pendingAck[n] = NoAck THEN <<>> ELSE <<ack>>
<1>1. chan[p] \in Seq(Frame) /\ pendingAck[n] \in Seqs \cup {NoAck} /\ p # n
  BY Peers DEF TypeOK
<1>2. pendingAck'[n] = NoAck /\ pendingAck'[p] = pendingAck[p] /\ chan'[n] = chan[n]
  BY <1>1 DEF Transmit, TypeOK
<1>3. chan'[p] = chan[p] \o (due \o burst)
  BY DEF Transmit, TypeOK
<1>4. pendingAck[n] # NoAck => ack \in Frame
  BY <1>1, AckIsFrame
<1> HIDE DEF ack
<1>5. due \in Seq(Frame)
  BY <1>4
<1> HIDE DEF due
<1>6. chan[p] \o due \in Seq(Frame)
  BY <1>1, <1>5
<1>7. \/ pendingAck[n] = NoAck /\ chan[p] \o due = chan[p]
      \/ pendingAck[n] \in Seqs /\ chan[p] \o due = Append(chan[p], ack)
  <2>1. CASE pendingAck[n] = NoAck
    <3>1. due = <<>>
      BY <2>1 DEF due
    <3> QED BY <1>1, <2>1, <3>1
  <2>2. CASE pendingAck[n] # NoAck
    <3>1. due = <<ack>> /\ ack \in Frame
      BY <1>4, <2>2 DEF due
    <3> QED BY <1>1, <2>2, <3>1
  <2> QED BY <2>1, <2>2
<1>8. burst = <<>> => chan'[p] = chan[p] \o due
  BY <1>1, <1>3, <1>5
<1>9. ASSUME NEW g \in Data, burst = <<g>> PROVE chan'[p] = Append(chan[p] \o due, g)
  <2>1. g \in Frame
    BY DataIsSome
  <2>2. chan[p] \o (due \o <<g>>) = Append(chan[p] \o due, g)
    BY <1>1, <1>5, <2>1, LastOut
  <2> QED BY <1>3, <1>9, <2>2
<1> QED BY <1>2, <1>6, <1>7, <1>8, <1>9 DEF ack

(* The other direction, whose acknowledgements go out.                     *)
LEMMA SentToOther ==
  ASSUME TypeOK, NEW n \in Node, NEW p \in Node, p = Peer(n), NEW burst,
         burst = <<>> \/ \E g \in Data : burst = <<g>>,
         Transmit(n, burst), SameSender(p), SameReceiver(n), Direction(p, n)
  PROVE  Direction(p, n)'
<1>1. /\ pendingAck'[n] = NoAck /\ chan'[n] = chan[n]
      /\ \E mid \in Seq(Frame) :
           /\ \/ pendingAck[n] = NoAck /\ mid = chan[p]
              \/ /\ pendingAck[n] \in Seqs
                 /\ mid = Append(chan[p], [type |-> "ACK", rxLwe |-> pendingAck[n]])
           /\ burst = <<>> => chan'[p] = mid
           /\ \A g \in Data : burst = <<g>> => chan'[p] = Append(mid, g)
  BY TransmitFacts, SMTT(30)
<1>2. PICK mid \in Seq(Frame) :
        /\ \/ pendingAck[n] = NoAck /\ mid = chan[p]
           \/ /\ pendingAck[n] \in Seqs
              /\ mid = Append(chan[p], [type |-> "ACK", rxLwe |-> pendingAck[n]])
        /\ burst = <<>> => chan'[p] = mid
        /\ \A g \in Data : burst = <<g>> => chan'[p] = Append(mid, g)
  BY <1>1
<1>3. chan[p] \in Seq(Frame) /\ txSeq[p] \in Seqs
  BY DEF TypeOK
<1>4. NoAck # Succ(txSeq[p])
  <2>1. Succ(txSeq[p]) \in Seqs
    BY <1>3, SuccOf
  <2> QED BY <2>1, Sizes DEF NoAck, Seqs
<1>5. AcksOK(chan[p], pendingAck[n], txSeq[p], skipped[p])
  BY DEF Direction, AnswersOK
<1>6. /\ AcksOK(mid, NoAck, txSeq[p], skipped[p])
      /\ Answered(mid, NoAck, txSeq[p]) => Answered(chan[p], pendingAck[n], txSeq[p])
  <2>1. CASE pendingAck[n] = NoAck /\ mid = chan[p]
    BY <1>5, <2>1
  <2>2. CASE /\ pendingAck[n] \in Seqs
             /\ mid = Append(chan[p], [type |-> "ACK", rxLwe |-> pendingAck[n]])
    <3>1. PICK due \in Seqs : due = pendingAck[n]
      BY <2>2
    <3>2. /\ AcksOK(mid, NoAck, txSeq[p], skipped[p])
          /\ Answered(mid, NoAck, txSeq[p]) => NoAck = Succ(txSeq[p]) \/ Answered(chan[p], due, txSeq[p])
      BY <1>3, <1>5, <2>2, <3>1, DueIsSent
    <3> QED BY <1>4, <3>1, <3>2
  <2> QED BY <1>2, <2>1, <2>2
<1>7. /\ AcksOK(chan'[p], NoAck, txSeq[p], skipped[p])
      /\ Answered(chan'[p], NoAck, txSeq[p]) => Answered(chan[p], pendingAck[n], txSeq[p])
  <2>1. CASE burst = <<>>
    BY <1>2, <1>6, <2>1
  <2>2. ASSUME NEW g \in Data, burst = <<g>>
        PROVE  /\ AcksOK(chan'[p], NoAck, txSeq[p], skipped[p])
               /\ Answered(chan'[p], NoAck, txSeq[p]) => Answered(chan[p], pendingAck[n], txSeq[p])
    <3>1. chan'[p] = Append(mid, g)
      BY <1>2, <2>2
    <3>2. AcksOK(Append(mid, g), NoAck, txSeq[p], skipped[p])
      BY <1>6, DataBehindAcks
    <3>3. Answered(Append(mid, g), NoAck, txSeq[p]) => Answered(mid, NoAck, txSeq[p])
      BY DataBehindAcks
    <3> QED BY <1>6, <3>1, <3>2, <3>3
  <2> QED BY <2>1, <2>2
<1>8. SendsOK(p)' /\ Cut(p)' = Cut(p)
  BY SenderKept DEF Direction
<1>9. SegmentsOK(p, n)'
  BY <1>1, <1>8 DEF Direction, SegmentsOK, SameSender, SameReceiver
<1>10. AnswersOK(p, n)'
  BY <1>1, <1>7 DEF Direction, AnswersOK, SameSender, SameReceiver
<1> QED BY <1>8, <1>9, <1>10 DEF Direction, SameSender, SameReceiver

(* The own direction up to the burst: an acknowledgement goes out.         *)
LEMMA SentAhead ==
  ASSUME TypeOK, NEW n \in Node, NEW p \in Node, p = Peer(n), NEW burst, Transmit(n, burst),
         Direction(n, p)
  PROVE  /\ pendingAck'[p] = pendingAck[p] /\ chan'[n] = chan[n]
         /\ \E mid \in Seq(Frame) :
              /\ DataOK(mid, txSeq[n], skipped[n], current[n], Coming(current[n], segments[n]),
                        submitted[n], Cut(n), rxParts[p], rxCpdu[p], delivered[p])
              /\ Confirmed(current[n], chan[p], rxParts[p], rxCpdu[p], delivered[p]) =>
                   Confirmed(current[n], mid, rxParts[p], rxCpdu[p], delivered[p])
              /\ burst = <<>> => chan'[p] = mid
              /\ \A g \in Data : burst = <<g>> => chan'[p] = Append(mid, g)
<1>1. PICK mid \in Seq(Frame) :
        /\ \/ pendingAck[n] = NoAck /\ mid = chan[p]
           \/ /\ pendingAck[n] \in Seqs
              /\ mid = Append(chan[p], [type |-> "ACK", rxLwe |-> pendingAck[n]])
        /\ burst = <<>> => chan'[p] = mid
        /\ \A g \in Data : burst = <<g>> => chan'[p] = Append(mid, g)
  BY TransmitFacts
<1>2. DataOK(chan[p], txSeq[n], skipped[n], current[n], Coming(current[n], segments[n]),
             submitted[n], Cut(n), rxParts[p], rxCpdu[p], delivered[p])
  BY DEF Direction, SegmentsOK
<1>3. CASE pendingAck[n] = NoAck /\ mid = chan[p]
  BY <1>1, <1>2, <1>3, TransmitFacts
<1>4. CASE /\ pendingAck[n] \in Seqs
           /\ mid = Append(chan[p], [type |-> "ACK", rxLwe |-> pendingAck[n]])
  <2>1. PICK a \in Frame : a = [type |-> "ACK", rxLwe |-> pendingAck[n]] /\ IsAck(a)
    BY <1>4, AckIsFrame DEF IsAck
  <2>2. chan[p] \in Seq(Frame)
    BY DEF TypeOK
  <2>3. mid = Append(chan[p], a)
    BY <1>4, <2>1
  <2>4. DataOK(Append(chan[p], a), txSeq[n], skipped[n], current[n], Coming(current[n], segments[n]),
               submitted[n], Cut(n), rxParts[p], rxCpdu[p], delivered[p])
    BY <1>2, <2>1, <2>2, AckBehindData
  <2>5. Confirmed(current[n], chan[p], rxParts[p], rxCpdu[p], delivered[p]) =>
          Confirmed(current[n], Append(chan[p], a), rxParts[p], rxCpdu[p], delivered[p])
    BY <2>1, <2>2, AckBehindData
  <2> QED BY <1>1, <2>3, <2>4, <2>5, TransmitFacts
<1> QED BY <1>1, <1>3, <1>4

-----------------------------------------------------------------------------
(* C_PDUs enter the queue at its end, with the next identity.              *)
LEMMA QueueGrows ==
  ASSUME NEW sub \in Seq(1 .. MaxFragments), NEW q \in Seq(CPdu), QueueOK(q, sub),
         NEW size \in 1 .. MaxFragments
  PROVE  LET q2 == Append(q, [id |-> Len(sub) + 1, size |-> size])
             sub2 == Append(sub, size)
         IN  /\ QueueOK(q2, sub2) /\ Len(sub2) - Len(q2) = Len(sub) - Len(q)
             /\ \A i \in 1 .. (Len(sub) - Len(q)) : sub2[i] = sub[i]
<1> DEFINE new == [id |-> Len(sub) + 1, size |-> size]
           q2 == Append(q, new)
           sub2 == Append(sub, size)
<1>1. PICK a \in Nat : a = Len(sub)
  OBVIOUS
<1>2. PICK b \in Nat : b = Len(q)
  OBVIOUS
<1>3. b <= a /\ \A k \in 1 .. b : q[k] = [id |-> a - b + k, size |-> sub[a - b + k]]
  BY <1>1, <1>2 DEF QueueOK
<1>4. Len(sub2) = a + 1 /\ sub2[a + 1] = size /\ \A i \in 1 .. a : sub2[i] = sub[i]
  BY <1>1, AppendProperties
<1>5. new \in CPdu /\ new = [id |-> a + 1, size |-> size]
  BY <1>1 DEF CPdu
<1> HIDE DEF new
<1>6. Len(q2) = b + 1 /\ q2[b + 1] = new /\ \A k \in 1 .. b : q2[k] = q[k]
  BY <1>2, <1>5, AppendProperties
<1> HIDE DEF q2, sub2
<1>7. (a + 1) - (b + 1) = a - b /\ b + 1 <= a + 1
  BY <1>3
<1>8. ASSUME NEW k \in 1 .. (b + 1)
      PROVE  q2[k] = [id |-> (a + 1) - (b + 1) + k, size |-> sub2[(a + 1) - (b + 1) + k]]
  <2>1. CASE k \in 1 .. b
    <3>1. PICK i \in 1 .. a : i = a - b + k
      BY <1>3, <2>1
    <3>2. (a + 1) - (b + 1) + k = i
      BY <3>1
    <3>3. q2[k] = [id |-> i, size |-> sub[i]] /\ sub2[i] = sub[i]
      BY <1>3, <1>4, <1>6, <2>1, <3>1
    <3> QED BY <3>2, <3>3
  <2>2. CASE k = b + 1
    <3>1. (a + 1) - (b + 1) + k = a + 1
      BY <2>2
    <3> QED BY <1>4, <1>5, <1>6, <2>2, <3>1
  <2> QED BY <2>1, <2>2
<1>9. QueueOK(q2, sub2)
  BY <1>4, <1>6, <1>7, <1>8 DEF QueueOK
<1>10. \A i \in 1 .. (a - b) : sub2[i] = sub[i]
  BY <1>3, <1>4
<1> QED BY <1>1, <1>2, <1>4, <1>6, <1>7, <1>9, <1>10 DEF new, q2, sub2

(* C_PDUs submitted later are no matter to those before.                   *)
LEMMA MoreSubmitted ==
  ASSUME NEW c, NEW t, NEW k, NEW cur, NEW coming, NEW sub, NEW sub2, NEW u, NEW R, NEW rc, NEW D,
         DataOK(c, t, k, cur, coming, sub, u, R, rc, D), \A i \in 1 .. u : sub2[i] = sub[i]
  PROVE  DataOK(c, t, k, cur, coming, sub2, u, R, rc, D)
<1>1. AirOK(c, t, k, cur, sub2, u)
  BY DEF DataOK, AirOK
<1>2. \A r : Chain(r, sub, u) => Chain(r, sub2, u)
  BY DEF Chain
<1>3. CollectedOK(R, D, c, sub2, u)
  BY <1>2 DEF DataOK, CollectedOK
<1>4. DeliveredOK(D, c, sub2, u)
  BY <1>2 DEF DataOK, DeliveredOK
<1> QED BY <1>1, <1>3, <1>4 DEF DataOK

LEMMA SubmitStep == ASSUME TypeOK, DeliveryInv, NEW n \in Node, Submit(n) PROVE DeliveryInv'
<1>1. PICK p \in Node : p = Peer(n) /\ p # n
  BY Peers
<1>2. Direction(n, p) /\ Direction(p, n)
  BY <1>1, BothDirections
<1>3. PICK size \in 1 .. MaxFragments :
        /\ submitted' = [submitted EXCEPT ![n] = Append(submitted[n], size)]
        /\ queue' = [queue EXCEPT ![n] = Append(queue[n], [id |-> Len(submitted[n]) + 1, size |-> size])]
  BY DEF Submit
<1>4. UNCHANGED <<segments, current, txSeq, cpduId, skipped, done, rxParts, rxCpdu, delivered,
                  pendingAck, chan>>
  BY DEF Submit, rxVars
<1>5. /\ submitted'[n] = Append(submitted[n], size)
      /\ queue'[n] = Append(queue[n], [id |-> Len(submitted[n]) + 1, size |-> size])
      /\ submitted'[p] = submitted[p] /\ queue'[p] = queue[p]
  BY <1>1, <1>3 DEF TypeOK
<1>6. submitted[n] \in Seq(1 .. MaxFragments) /\ queue[n] \in Seq(CPdu)
  BY DEF TypeOK
<1>7. QueueOK(queue[n], submitted[n])
  BY <1>2 DEF Direction, SendsOK
<1>8. /\ QueueOK(queue'[n], submitted'[n])
      /\ Len(submitted'[n]) - Len(queue'[n]) = Len(submitted[n]) - Len(queue[n])
      /\ \A i \in 1 .. (Len(submitted[n]) - Len(queue[n])) : submitted'[n][i] = submitted[n][i]
  <2>1. PICK sub \in Seq(1 .. MaxFragments), q \in Seq(CPdu) : sub = submitted[n] /\ q = queue[n]
    BY <1>6
  <2>2. QueueOK(q, sub)
    BY <1>7, <2>1
  <2>3. /\ QueueOK(Append(q, [id |-> Len(sub) + 1, size |-> size]), Append(sub, size))
        /\ Len(Append(sub, size)) - Len(Append(q, [id |-> Len(sub) + 1, size |-> size]))
             = Len(sub) - Len(q)
        /\ \A i \in 1 .. (Len(sub) - Len(q)) : Append(sub, size)[i] = sub[i]
    BY <2>2, QueueGrows
  <2> QED BY <1>5, <2>1, <2>3
<1>9. Cut(n)' = Cut(n) /\ \A i \in 1 .. Cut(n) : submitted'[n][i] = submitted[n][i]
  BY <1>8 DEF Cut
<1>10. Cut(n) \in Nat
  BY <1>2, ComingFacts DEF Direction
<1>11. SendsOK(n)'
  <2>1. SenderOK(current[n], segments[n], txSeq[n], cpduId[n], Cut(n), submitted'[n][Cut(n)])
    <3>1. SenderOK(current[n], segments[n], txSeq[n], cpduId[n], Cut(n), submitted[n][Cut(n)])
      BY <1>2 DEF Direction, SendsOK
    <3>2. CASE Cut(n) >= 1
      BY <1>9, <1>10, <3>1, <3>2
    <3>3. CASE ~(Cut(n) >= 1)
      <4>1. segments[n] = <<>> /\ current[n] = NoSegment
        BY <3>1, <3>3 DEF SenderOK
      <4> QED BY <4>1 DEF SenderOK
    <3> QED BY <3>2, <3>3
  <2> QED BY <1>4, <1>8, <1>9, <2>1 DEF SendsOK
<1>12. SegmentsOK(n, p)'
  <2>1. DataOK(chan[p], txSeq[n], skipped[n], current[n], Coming(current[n], segments[n]),
               submitted'[n], Cut(n), rxParts[p], rxCpdu[p], delivered[p])
    BY <1>2, <1>9, MoreSubmitted DEF Direction, SegmentsOK
  <2> QED BY <1>4, <1>9, <2>1 DEF SegmentsOK
<1>13. AnswersOK(n, p)'
  BY <1>2, <1>4 DEF Direction, AnswersOK
<1>14. Direction(n, p)'
  BY <1>2, <1>4, <1>11, <1>12, <1>13 DEF Direction
<1>15. Direction(p, n)'
  <2>1. SameSender(p) /\ SameReceiver(n)
    BY <1>4, <1>5 DEF SameSender, SameReceiver
  <2> QED BY <1>2, <1>4, <2>1, DirectionKept
<1> QED BY <1>1, <1>14, <1>15, BothDirections

LEMMA AckStep == ASSUME TypeOK, DeliveryInv, NEW n \in Node, TxAck(n) PROVE DeliveryInv'
<1>1. PICK p \in Node : p = Peer(n) /\ p # n
  BY Peers
<1>2. Direction(n, p) /\ Direction(p, n)
  BY <1>1, BothDirections
<1>3. Transmit(n, <<>>)
  BY DEF TxAck
<1>4. UNCHANGED <<queue, segments, current, txSeq, cpduId, skipped, submitted, done,
                  rxParts, rxCpdu, delivered>>
  BY DEF TxAck, txVars, rxVars
<1>5. SameSender(n) /\ SameSender(p) /\ SameReceiver(n) /\ SameReceiver(p)
  BY <1>4 DEF SameSender, SameReceiver
<1>6. Direction(p, n)'
  BY <1>1, <1>2, <1>3, <1>5, SentToOther
<1>7. /\ pendingAck'[p] = pendingAck[p] /\ chan'[n] = chan[n]
      /\ DataOK(chan'[p], txSeq[n], skipped[n], current[n], Coming(current[n], segments[n]),
                submitted[n], Cut(n), rxParts[p], rxCpdu[p], delivered[p])
      /\ Confirmed(current[n], chan[p], rxParts[p], rxCpdu[p], delivered[p]) =>
           Confirmed(current[n], chan'[p], rxParts[p], rxCpdu[p], delivered[p])
  BY <1>1, <1>2, <1>3, SentAhead
<1>8. SendsOK(n)' /\ Cut(n)' = Cut(n)
  BY <1>2, <1>5, SenderKept DEF Direction
<1>9. SegmentsOK(n, p)'
  BY <1>5, <1>7, <1>8 DEF SegmentsOK, SameSender, SameReceiver
<1>10. AnswersOK(n, p)'
  BY <1>2, <1>5, <1>7 DEF Direction, AnswersOK, SameSender, SameReceiver
<1>11. Direction(n, p)'
  BY <1>2, <1>5, <1>8, <1>9, <1>10 DEF Direction, SameSender, SameReceiver
<1> QED BY <1>1, <1>6, <1>11, BothDirections

LEMMA RetransmitStep == ASSUME TypeOK, DeliveryInv, NEW n \in Node, TxRetransmit(n) PROVE DeliveryInv'
<1>1. PICK p \in Node : p = Peer(n) /\ p # n
  BY Peers
<1>2. Direction(n, p) /\ Direction(p, n)
  BY <1>1, BothDirections
<1>0. PICK g \in Data : g = current[n] /\ Transmit(n, <<g>>)
  BY DEF TxRetransmit, TypeOK
<1>3. PICK burst : g = current[n] /\ burst = <<g>> /\ Transmit(n, burst)
  BY <1>0
<1>4. UNCHANGED <<queue, segments, current, txSeq, cpduId, skipped, submitted, done,
                  rxParts, rxCpdu, delivered>>
  BY DEF TxRetransmit, rxVars
<1>5. SameSender(n) /\ SameSender(p) /\ SameReceiver(n) /\ SameReceiver(p)
  BY <1>4 DEF SameSender, SameReceiver
<1>6. Direction(p, n)'
  BY <1>1, <1>2, <1>3, <1>5, SentToOther
<1>7. /\ pendingAck'[p] = pendingAck[p] /\ chan'[n] = chan[n]
      /\ \E mid \in Seq(Frame) :
           /\ DataOK(mid, txSeq[n], skipped[n], current[n], Coming(current[n], segments[n]),
                     submitted[n], Cut(n), rxParts[p], rxCpdu[p], delivered[p])
           /\ Confirmed(current[n], chan[p], rxParts[p], rxCpdu[p], delivered[p]) =>
                Confirmed(current[n], mid, rxParts[p], rxCpdu[p], delivered[p])
           /\ burst = <<>> => chan'[p] = mid
           /\ \A h \in Data : burst = <<h>> => chan'[p] = Append(mid, h)
  <2>1. Transmit(n, burst) /\ p = Peer(n)
    BY <1>1, <1>3
  <2> QED BY <1>2, <2>1, SentAhead, SMTT(30)
<1>8. PICK mid \in Seq(Frame) :
        /\ DataOK(mid, txSeq[n], skipped[n], g, Coming(g, segments[n]),
                  submitted[n], Cut(n), rxParts[p], rxCpdu[p], delivered[p])
        /\ Confirmed(g, chan[p], rxParts[p], rxCpdu[p], delivered[p]) =>
             Confirmed(g, mid, rxParts[p], rxCpdu[p], delivered[p])
        /\ chan'[p] = Append(mid, g)
  BY <1>3, <1>7
<1>9. Coming(g, segments[n]) = {g}
  BY DataIsSome DEF Coming
<1>10. /\ Cut(n) \in Nat /\ g.seq = txSeq[n] /\ g.fragment.id = Cut(n) /\ Cut(n) >= 1
       /\ g.fragment.size = submitted[n][Cut(n)] /\ g.fragment.part <= g.fragment.size
  BY <1>2, <1>3, <1>9, ComingFacts DEF Direction
<1>11. /\ Ready(rxParts[p], rxCpdu[p], delivered[p], g)
       /\ \A i \in 1 .. Len(mid) : IsData(mid[i]) =>
            /\ mid[i].seq = txSeq[n] => mid[i] = g
            /\ g.fragment.part > 1 => Step(mid[i], g)
  BY <1>8, <1>9 DEF DataOK, AirOK, ReadyOK
<1>12. DataOK(chan'[p], txSeq[n], skipped[n], g, {g}, submitted[n], Cut(n),
              rxParts[p], rxCpdu[p], delivered[p])
  <2>1. txSeq[n] \in Seqs /\ skipped[n] \in Nat /\ Cut(n) <= Cut(n)
    BY <1>10 DEF TypeOK
  <2> QED BY <1>8, <1>10, <1>11, <2>1, DataBehindData
<1>13. SendsOK(n)' /\ Cut(n)' = Cut(n)
  BY <1>2, <1>5, SenderKept DEF Direction
<1>14. SegmentsOK(n, p)'
  BY <1>3, <1>5, <1>9, <1>12, <1>13 DEF SegmentsOK, SameSender, SameReceiver
<1>15. Confirmed(g, mid, rxParts[p], rxCpdu[p], delivered[p]) =>
         Confirmed(g, chan'[p], rxParts[p], rxCpdu[p], delivered[p])
  BY <1>8, ConfirmedAgain
<1>16. AnswersOK(n, p)'
  BY <1>2, <1>3, <1>5, <1>7, <1>8, <1>15 DEF Direction, AnswersOK, SameSender, SameReceiver
<1>17. Direction(n, p)'
  BY <1>2, <1>5, <1>13, <1>14, <1>16 DEF Direction, SameSender, SameReceiver
<1> QED BY <1>1, <1>6, <1>17, BothDirections

-----------------------------------------------------------------------------
(* The next segment.                                                       *)
LEMMA QueueShrinks ==
  ASSUME NEW sub \in Seq(1 .. MaxFragments), NEW q \in Seq(CPdu), QueueOK(q, sub), q # <<>>
  PROVE  /\ QueueOK(Tail(q), sub) /\ Len(sub) - Len(Tail(q)) = Len(sub) - Len(q) + 1
         /\ Len(sub) - Len(q) + 1 \in 1 .. Len(sub)
         /\ Head(q) = [id |-> Len(sub) - Len(q) + 1, size |-> sub[Len(sub) - Len(q) + 1]]
<1>1. PICK a \in Nat : a = Len(sub)
  OBVIOUS
<1>2. PICK b \in Nat : b = Len(q)
  OBVIOUS
<1>3. b <= a /\ \A k \in 1 .. b : q[k] = [id |-> a - b + k, size |-> sub[a - b + k]]
  BY <1>1, <1>2 DEF QueueOK
<1>4. /\ b > 0 /\ Head(q) = q[1] /\ Len(Tail(q)) = b - 1
      /\ \A k \in 1 .. (b - 1) : Tail(q)[k] = q[k + 1]
  <2>1. b > 0 /\ Head(q) = q[1]
    BY <1>2
  <2>2. Len(Tail(q)) = b - 1
    BY <1>2, HeadTailProperties
  <2>3. \A k \in 1 .. (b - 1) : Tail(q)[k] = q[k + 1]
    BY <1>2, <2>2, HeadTailProperties
  <2> QED BY <2>1, <2>2, <2>3
<1>5. Head(q) = [id |-> a - b + 1, size |-> sub[a - b + 1]]
  <2>1. 1 \in 1 .. b
    BY <1>4
  <2> QED BY <1>3, <1>4, <2>1
<1> DEFINE r == Tail(q)
<1>6. Len(r) = b - 1 /\ \A k \in 1 .. (b - 1) : r[k] = q[k + 1]
  BY <1>4
<1> HIDE DEF r
<1>7. ASSUME NEW k \in 1 .. (b - 1)
      PROVE  r[k] = [id |-> a - (b - 1) + k, size |-> sub[a - (b - 1) + k]]
  <2>1. PICK j \in 1 .. b : j = k + 1
    OBVIOUS
  <2>2. a - b + j = a - (b - 1) + k
    BY <2>1
  <2>3. q[j] = [id |-> a - b + j, size |-> sub[a - b + j]]
    BY <1>3
  <2> QED BY <1>6, <2>1, <2>2, <2>3
<1>8. QueueOK(r, sub)
  <2>1. b - 1 <= a
    BY <1>3
  <2> QED BY <1>1, <1>6, <1>7, <2>1 DEF QueueOK
<1>9. a - (b - 1) = a - b + 1 /\ a - b + 1 \in 1 .. a
  BY <1>3, <1>4
<1> QED BY <1>1, <1>2, <1>5, <1>6, <1>8, <1>9 DEF r

LEMMA NextSegment ==
  ASSUME NEW segs \in Seq(Data), segs # <<>>, NEW t, NEW cid, NEW u, u >= 1, NEW z \in Nat,
         Len(segs) <= z, segs[1].seq = t,
         \A k \in 1 .. Len(segs) : segs[k] = Part(u, z, z - Len(segs) + k, cid, segs[k].seq),
         \A k \in 1 .. (Len(segs) - 1) : segs[k + 1].seq = Succ(segs[k].seq)
  PROVE  SenderOK(Head(segs), Tail(segs), t, cid, u, z)
<1>1. PICK len \in Nat : len = Len(segs)
  OBVIOUS
<1> DEFINE r == Tail(segs)
<1>2. /\ len > 0 /\ Head(segs) = segs[1] /\ Len(r) = len - 1
      /\ \A k \in 1 .. (len - 1) : r[k] = segs[k + 1]
  <2>1. len > 0 /\ Head(segs) = segs[1]
    BY <1>1
  <2>2. Len(r) = len - 1
    BY <1>1, HeadTailProperties
  <2>3. \A k \in 1 .. (len - 1) : r[k] = segs[k + 1]
    BY <1>1, <2>2, HeadTailProperties
  <2> QED BY <2>1, <2>2, <2>3
<1>3. r # <<>> => len - 1 > 0
  <2>1. r \in Seq(Data)
    BY <1>2
  <2> QED BY <1>2, <2>1
<1> HIDE DEF r
<1>4. /\ u >= 1 /\ segs[1].seq = t /\ len <= z
      /\ \A k \in 1 .. len : segs[k] = Part(u, z, z - len + k, cid, segs[k].seq)
      /\ \A k \in 1 .. (len - 1) : segs[k + 1].seq = Succ(segs[k].seq)
  BY <1>1
<1>5. segs[1] \in Data /\ segs[1] # NoSegment
  <2>1. segs[1] \in Data
    BY <1>1, <1>2
  <2> QED BY <2>1, DataIsSome
<1>6. z - (len - 1) >= 1 /\ segs[1] = Part(u, z, z - (len - 1), cid, t)
  <2>1. z - len + 1 = z - (len - 1) /\ 1 \in 1 .. len
    BY <1>2
  <2>2. segs[1] = Part(u, z, z - len + 1, cid, segs[1].seq)
    BY <1>4, <2>1
  <2>3. z - (len - 1) >= 1
    BY <1>4
  <2> QED BY <1>4, <2>1, <2>2, <2>3
<1>7. r # <<>> => r[1].seq = Succ(t)
  <2>1. ASSUME r # <<>> PROVE 1 \in 1 .. (len - 1) /\ 1 + 1 = 2
    BY <1>3, <2>1
  <2> QED BY <1>2, <1>4, <2>1
<1>8. ASSUME NEW k \in 1 .. (len - 1)
      PROVE  r[k] = Part(u, z, z - (len - 1) + k, cid, r[k].seq)
  <2>1. PICK j \in 1 .. len : j = k + 1
    OBVIOUS
  <2>2. z - len + j = z - (len - 1) + k
    BY <2>1
  <2>3. segs[j] = Part(u, z, z - len + j, cid, segs[j].seq)
    BY <1>4
  <2> QED BY <1>2, <2>1, <2>2, <2>3
<1>9. ASSUME NEW k \in 1 .. ((len - 1) - 1) PROVE r[k + 1].seq = Succ(r[k].seq)
  <2>1. PICK j \in 1 .. (len - 1) : j = k + 1
    OBVIOUS
  <2>2. k \in 1 .. (len - 1)
    OBVIOUS
  <2>3. r[j] = segs[j + 1] /\ r[k] = segs[j]
    BY <1>2, <2>1, <2>2
  <2>4. segs[j + 1].seq = Succ(segs[j].seq)
    BY <1>4
  <2> QED BY <2>1, <2>3, <2>4
<1>10. SenderOK(segs[1], r, t, cid, u, z)
  BY <1>2, <1>4, <1>5, <1>6, <1>7, <1>8, <1>9 DEF SenderOK
<1> QED BY <1>2, <1>10 DEF r

LEMMA PartNumber == \A u, z, k, cid, s : Part(u, z, k, cid, s).seq = s
BY DEF Part

LEMMA FirstSegment ==
  ASSUME TypeOK, NEW n \in Node, NEW c \in CPdu, c.id >= 1
  PROVE  LET ready == SegmentsOf(n, c)
         IN  SenderOK(Head(ready), Tail(ready), txSeq[n], cpduId[n], c.id, c.size)
<1> DEFINE ready == SegmentsOf(n, c)
<1>1. ready \in Seq(Data) /\ Len(ready) = c.size /\ c.size \in 1 .. MaxFragments
  BY CutType
<1>2. PICK z \in Nat : z = c.size /\ z >= 1 /\ Len(ready) = z
  BY <1>1, Sizes
<1>3. PICK t \in Seqs : t = txSeq[n] /\ t \in Nat
  BY Sizes DEF TypeOK, Seqs
<1>4. ASSUME NEW k \in 1 .. z
      PROVE  ready[k] = Part(c.id, z, k, cpduId[n], (t + k - 1) % SeqMod)
  <2>1. k \in 1 .. c.size
    BY <1>2
  <2>2. ready[k] = [type |-> "DATA", seq |-> (txSeq[n] + k - 1) % SeqMod,
                    cpdu |-> cpduId[n], fragment |-> Fragments(c)[k]]
    BY <2>1 DEF SegmentsOf
  <2>3. Fragments(c)[k] = [id |-> c.id, part |-> k, size |-> c.size]
    BY <2>1 DEF Fragments
  <2> HIDE DEF ready
  <2>4. ready[k] = Part(c.id, c.size, k, cpduId[n], (txSeq[n] + k - 1) % SeqMod)
    BY <2>2, <2>3 DEF Part
  <2>5. z = c.size /\ t = txSeq[n]
    BY <1>2, <1>3
  <2> QED BY <2>4, <2>5, Zenon
<1> HIDE DEF ready
<1>5. ASSUME NEW k \in 1 .. z PROVE ready[k].seq = (t + k - 1) % SeqMod
  <2> DEFINE s == (t + k - 1) % SeqMod
  <2>1. ready[k] = Part(c.id, z, k, cpduId[n], s)
    BY <1>4
  <2> HIDE DEF s
  <2>2. Part(c.id, z, k, cpduId[n], s).seq = s
    BY PartNumber
  <2>3. ready[k].seq = s
    BY <2>1, <2>2
  <2> QED BY <2>3 DEF s
<1>6. ready[1].seq = t
  <2>1. t % SeqMod = t
    <3>1. PICK m \in Nat : m = SeqMod /\ m > 0
      BY Sizes
    <3>2. t \in 0 .. (m - 1)
      BY <3>1 DEF Seqs
    <3>3. t % m = t
      BY <3>1, <3>2
    <3> QED BY <3>1, <3>3
  <2>2. t + 1 - 1 = t /\ 1 \in 1 .. z
    BY <1>2, <1>3
  <2> QED BY <1>5, <2>1, <2>2
<1>7. ASSUME NEW k \in 1 .. (z - 1) PROVE ready[k + 1].seq = Succ(ready[k].seq)
  <2>1. k \in 1 .. z /\ k + 1 \in 1 .. z
    BY <1>2
  <2>2. PICK x \in Nat : x = t + k - 1
    BY <1>3
  <2>3. t + (k + 1) - 1 = x + 1
    BY <1>3, <2>2
  <2> QED BY <1>5, <2>1, <2>2, <2>3, SuccMod
<1>8. \A k \in 1 .. z : ready[k] = Part(c.id, z, z - z + k, cpduId[n], ready[k].seq)
  <2>1. \A k \in 1 .. z : z - z + k = k
    BY <1>2
  <2> QED BY <1>4, <1>5, <2>1
<1>9. ready # <<>> /\ Len(ready) <= z
  BY <1>2
<1>10. SenderOK(Head(ready), Tail(ready), t, cpduId[n], c.id, z)
  BY <1>1, <1>2, <1>6, <1>7, <1>8, <1>9, NextSegment
<1> QED BY <1>2, <1>3, <1>10 DEF ready

(* The segment that a transmission starts to send.                         *)
LEMMA NextToSend ==
  ASSUME TypeOK, NEW n \in Node, SendsOK(n), TxSend(n)
  PROVE  \E g \in Data :
           /\ current'[n] = g /\ Transmit(n, <<g>>) /\ SendsOK(n)'
           /\ Cut(n)' \in Nat /\ Cut(n) <= Cut(n)' /\ Cut(n)' >= 1
           /\ g.seq = txSeq[n] /\ g.fragment.id = Cut(n)' /\ g.fragment.size = submitted[n][Cut(n)']
           /\ g.fragment.part <= g.fragment.size
           /\ g.fragment.part > 1 => g \in Coming(current[n], segments[n])
<1> DEFINE ready == IF segments[n] # <<>> THEN segments[n] ELSE SegmentsOf(n, Head(queue[n]))
<1>1. /\ current[n] = NoSegment /\ (segments[n] # <<>> \/ queue[n] # <<>>)
      /\ current' = [current EXCEPT ![n] = Head(ready)]
      /\ segments' = [segments EXCEPT ![n] = Tail(ready)]
      /\ queue' = [queue EXCEPT ![n] = IF segments[n] # <<>> THEN queue[n] ELSE Tail(queue[n])]
      /\ Transmit(n, <<Head(ready)>>)
      /\ UNCHANGED <<txSeq, cpduId, submitted>>
  BY DEF TxSend
<1>2. /\ submitted[n] \in Seq(1 .. MaxFragments) /\ queue[n] \in Seq(CPdu) /\ segments[n] \in Seq(Data)
      /\ QueueOK(queue[n], submitted[n])
      /\ SenderOK(NoSegment, segments[n], txSeq[n], cpduId[n], Cut(n), submitted[n][Cut(n)])
  BY <1>1 DEF TypeOK, SendsOK
<1>3. /\ current'[n] = Head(ready) /\ segments'[n] = Tail(ready)
      /\ queue'[n] = IF segments[n] # <<>> THEN queue[n] ELSE Tail(queue[n])
  BY <1>1 DEF TypeOK
<1>4. Cut(n) \in Nat /\ Cut(n) <= Len(submitted[n])
  BY ComingFacts
<1> DEFINE u == IF segments[n] # <<>> THEN Cut(n) ELSE Cut(n) + 1
           z == submitted[n][u]
<1>5. /\ ready \in Seq(Data) /\ ready # <<>> /\ u \in Nat /\ u >= 1 /\ Cut(n) <= u
      /\ z \in Nat /\ SenderOK(Head(ready), Tail(ready), txSeq[n], cpduId[n], u, z)
      /\ QueueOK(queue'[n], submitted[n]) /\ Cut(n)' = u
  <2>1. CASE segments[n] # <<>>
    <3>1. ready = segments[n] /\ u = Cut(n) /\ queue'[n] = queue[n]
      BY <1>3, <2>1
    <3>2. Cut(n)' = Cut(n)
      BY <1>1, <3>1 DEF Cut
    <3>3. PICK len \in Nat : len = Len(segments[n])
      BY <1>2
    <3>4. /\ Cut(n) >= 1 /\ segments[n][1].seq = txSeq[n]
          /\ submitted[n][Cut(n)] - len >= 1
          /\ \A k \in 1 .. len : segments[n][k] =
               Part(Cut(n), submitted[n][Cut(n)], submitted[n][Cut(n)] - len + k, cpduId[n],
                    segments[n][k].seq)
          /\ \A k \in 1 .. (len - 1) : segments[n][k + 1].seq = Succ(segments[n][k].seq)
      BY <1>2, <2>1, <3>3 DEF SenderOK
    <3>5. PICK size \in Nat : size = submitted[n][Cut(n)]
      <4>1. Cut(n) \in 1 .. Len(submitted[n])
        BY <1>2, <1>4, <3>4
      <4> QED BY <1>2, <4>1, Sizes
    <3>6. len <= size
      BY <3>4, <3>5
    <3>7. SenderOK(Head(segments[n]), Tail(segments[n]), txSeq[n], cpduId[n], Cut(n), size)
      BY <1>2, <2>1, <3>3, <3>4, <3>5, <3>6, NextSegment
    <3> QED BY <1>2, <1>4, <2>1, <3>1, <3>2, <3>4, <3>5, <3>7
  <2>2. CASE segments[n] = <<>>
    <3>1. queue[n] # <<>>
      BY <1>1, <2>2
    <3>2. PICK c \in CPdu : c = Head(queue[n])
      BY <1>2, <3>1
    <3>3. /\ QueueOK(Tail(queue[n]), submitted[n])
          /\ Len(submitted[n]) - Len(Tail(queue[n])) = Cut(n) + 1
          /\ Cut(n) + 1 \in 1 .. Len(submitted[n])
          /\ c = [id |-> Cut(n) + 1, size |-> submitted[n][Cut(n) + 1]]
      <4>1. /\ QueueOK(Tail(queue[n]), submitted[n])
            /\ Len(submitted[n]) - Len(Tail(queue[n])) = Len(submitted[n]) - Len(queue[n]) + 1
            /\ Len(submitted[n]) - Len(queue[n]) + 1 \in 1 .. Len(submitted[n])
            /\ Head(queue[n]) = [id |-> Len(submitted[n]) - Len(queue[n]) + 1,
                                 size |-> submitted[n][Len(submitted[n]) - Len(queue[n]) + 1]]
        BY <1>2, <3>1, QueueShrinks
      <4> QED BY <3>2, <4>1 DEF Cut
    <3>4. c.id = Cut(n) + 1 /\ c.size = submitted[n][Cut(n) + 1]
      BY <3>3
    <3>5. c.id >= 1 /\ c.size \in Nat /\ c.size # 0 /\ Cut(n) + 1 \in Nat /\ Cut(n) <= Cut(n) + 1
      BY <1>4, <3>4, Sizes DEF CPdu
    <3>6. SenderOK(Head(SegmentsOf(n, c)), Tail(SegmentsOf(n, c)), txSeq[n], cpduId[n], c.id, c.size)
      BY <3>5, FirstSegment
    <3>7. SegmentsOf(n, c) \in Seq(Data) /\ SegmentsOf(n, c) # <<>>
      <4>1. SegmentsOf(n, c) \in Seq(Data) /\ Len(SegmentsOf(n, c)) = c.size
        BY CutType
      <4> QED BY <3>5, <4>1
    <3>8. ready = SegmentsOf(n, c) /\ u = Cut(n) + 1 /\ z = c.size /\ queue'[n] = Tail(queue[n])
      BY <1>3, <2>2, <3>2, <3>4
    <3>9. Cut(n)' = Cut(n) + 1
      BY <1>1, <3>3, <3>8 DEF Cut
    <3> HIDE DEF ready, u, z
    <3> QED BY <3>3, <3>4, <3>5, <3>6, <3>7, <3>8, <3>9
  <2> QED BY <2>1, <2>2
<1>6. Head(ready).fragment.part > 1 => Head(ready) \in Coming(current[n], segments[n])
  <2>1. CASE segments[n] # <<>>
    <3>1. ready = segments[n] /\ Head(segments[n]) = segments[n][1]
      BY <1>2, <2>1
    <3> QED BY <1>1, <2>1, <3>1 DEF Coming
  <2>2. CASE segments[n] = <<>>
    <3>1. PICK c \in CPdu : c = Head(queue[n])
      BY <1>1, <1>2, <2>2
    <3>2. ready = SegmentsOf(n, c) /\ Len(ready) = c.size /\ c.size \in Nat /\ c.size >= 1
      BY <2>2, <3>1, CutType, Sizes
    <3>3. Head(ready) = ready[1] /\ ready[1].fragment = Fragments(c)[1]
      <4>1. 1 \in 1 .. c.size /\ Head(ready) = ready[1]
        BY <1>5, <3>2
      <4>2. SegmentsOf(n, c)[1].fragment = Fragments(c)[1]
        BY <4>1 DEF SegmentsOf
      <4> QED BY <3>2, <4>1, <4>2
    <3>4. Fragments(c)[1].part = 1
      BY <3>2 DEF Fragments
    <3> QED BY <3>3, <3>4
  <2> QED BY <2>1, <2>2
<1>7. Head(ready) \in Data /\ Tail(ready) \in Seq(Data)
  BY <1>5
<1> HIDE DEF ready, u, z
<1>8. PICK g \in Data : g = Head(ready) /\ g # NoSegment
  BY <1>7, DataIsSome
<1>9. PICK len \in Nat : len = Len(Tail(ready))
  BY <1>7
<1>10. g = Part(u, z, z - len, cpduId[n], txSeq[n])
  BY <1>5, <1>8, <1>9 DEF SenderOK
<1>11. /\ g.seq = txSeq[n] /\ g.fragment.id = u /\ g.fragment.size = z
       /\ g.fragment.part <= g.fragment.size
  <2>1. z - len <= z
    BY <1>5, <1>9
  <2> QED BY <1>10, <2>1 DEF Part
<1>12. SendsOK(n)'
  <2>1. SenderOK(current'[n], segments'[n], txSeq[n], cpduId[n], u, z)
    BY <1>3, <1>5
  <2> QED BY <1>1, <1>5, <2>1 DEF SendsOK, z
<1>13. z = submitted[n][Cut(n)']
  BY <1>5 DEF z
<1> QED BY <1>1, <1>3, <1>5, <1>6, <1>8, <1>11, <1>12, <1>13

LEMMA SendStep == ASSUME TypeOK, DeliveryInv, NEW n \in Node, TxSend(n) PROVE DeliveryInv'
<1>1. PICK p \in Node : p = Peer(n) /\ p # n
  BY Peers
<1>2. Direction(n, p) /\ Direction(p, n)
  BY <1>1, BothDirections
<1>3. PICK g \in Data :
        /\ current'[n] = g /\ Transmit(n, <<g>>) /\ SendsOK(n)'
        /\ Cut(n)' \in Nat /\ Cut(n) <= Cut(n)' /\ Cut(n)' >= 1
        /\ g.seq = txSeq[n] /\ g.fragment.id = Cut(n)' /\ g.fragment.size = submitted[n][Cut(n)']
        /\ g.fragment.part <= g.fragment.size
        /\ g.fragment.part > 1 => g \in Coming(current[n], segments[n])
  BY <1>2, NextToSend DEF Direction
<1>4. /\ UNCHANGED <<txSeq, cpduId, skipped, submitted, done, rxParts, rxCpdu, delivered>>
      /\ current[n] = NoSegment
  BY DEF TxSend, rxVars
<1>5. SameSender(p) /\ SameReceiver(n)
  <2>1. current'[p] = current[p] /\ segments'[p] = segments[p] /\ queue'[p] = queue[p]
    BY <1>1 DEF TxSend, TypeOK
  <2> QED BY <1>4, <2>1 DEF SameSender, SameReceiver
<1>6. PICK burst : burst = <<g>> /\ Transmit(n, burst)
  BY <1>3
<1>7. Direction(p, n)'
  <2>1. \E h \in Data : burst = <<h>>
    BY <1>6
  <2> QED BY <1>1, <1>2, <1>5, <1>6, <2>1, SentToOther
<1>8. /\ pendingAck'[p] = pendingAck[p] /\ chan'[n] = chan[n]
      /\ \E mid \in Seq(Frame) :
           /\ DataOK(mid, txSeq[n], skipped[n], current[n], Coming(current[n], segments[n]),
                     submitted[n], Cut(n), rxParts[p], rxCpdu[p], delivered[p])
           /\ Confirmed(current[n], chan[p], rxParts[p], rxCpdu[p], delivered[p]) =>
                Confirmed(current[n], mid, rxParts[p], rxCpdu[p], delivered[p])
           /\ burst = <<>> => chan'[p] = mid
           /\ \A h \in Data : burst = <<h>> => chan'[p] = Append(mid, h)
  <2>1. Transmit(n, burst) /\ p = Peer(n)
    BY <1>1, <1>6
  <2> QED BY <1>2, <2>1, SentAhead
<1>9. PICK mid \in Seq(Frame) :
        /\ DataOK(mid, txSeq[n], skipped[n], NoSegment, Coming(current[n], segments[n]),
                  submitted[n], Cut(n), rxParts[p], rxCpdu[p], delivered[p])
        /\ chan'[p] = Append(mid, g)
  BY <1>4, <1>6, <1>8
<1>10. Ready(rxParts[p], rxCpdu[p], delivered[p], g)
  <2>1. CASE g.fragment.part > 1
    BY <1>3, <1>9, <2>1 DEF DataOK, ReadyOK
  <2>2. CASE ~(g.fragment.part > 1)
    BY <2>2 DEF Ready
  <2> QED BY <2>1, <2>2
<1>11. ASSUME NEW i \in 1 .. Len(mid), IsData(mid[i])
       PROVE  /\ mid[i].seq = txSeq[n] => mid[i] = g
              /\ g.fragment.part > 1 => Step(mid[i], g)
  <2>1. mid[i].seq # txSeq[n]
    BY <1>9, <1>11 DEF DataOK, AirOK, IsData, NoSegment
  <2> QED BY <1>3, <1>9, <1>11, <2>1 DEF DataOK, ReadyOK
<1>12. DataOK(chan'[p], txSeq[n], skipped[n], g, {g}, submitted[n], Cut(n)',
              rxParts[p], rxCpdu[p], delivered[p])
  <2>1. txSeq[n] \in Seqs /\ skipped[n] \in Nat /\ Cut(n) \in Nat
    BY <1>2, ComingFacts DEF TypeOK, Direction
  <2>2. PICK u2 \in Nat : u2 = Cut(n)'
    BY <1>3
  <2>3. /\ Cut(n) <= u2 /\ g.fragment.id = u2 /\ u2 >= 1 /\ g.fragment.size = submitted[n][u2]
        /\ g.seq = txSeq[n] /\ g.fragment.part <= g.fragment.size
    BY <1>3, <2>2
  <2>4. DataOK(mid, txSeq[n], skipped[n], NoSegment, Coming(current[n], segments[n]),
               submitted[n], Cut(n), rxParts[p], rxCpdu[p], delivered[p])
    BY <1>9
  <2>5. DataOK(Append(mid, g), txSeq[n], skipped[n], g, {g}, submitted[n], u2,
               rxParts[p], rxCpdu[p], delivered[p])
    BY <1>10, <1>11, <2>1, <2>3, <2>4, DataBehindData
  <2> QED BY <1>9, <2>2, <2>5
<1>13. Coming(current'[n], segments'[n]) = {g}
  BY <1>3, DataIsSome DEF Coming
<1>14. SegmentsOK(n, p)'
  BY <1>3, <1>4, <1>12, <1>13 DEF SegmentsOK
<1>15. AnswersOK(n, p)'
  <2>1. /\ AcksOK(chan[n], pendingAck[p], txSeq[n], skipped[n])
        /\ ~Answered(chan[n], pendingAck[p], txSeq[n])
    BY <1>2, <1>4 DEF Direction, AnswersOK, Confirmed
  <2> QED BY <1>4, <1>8, <2>1 DEF AnswersOK
<1>16. Direction(n, p)'
  BY <1>2, <1>3, <1>4, <1>14, <1>15 DEF Direction
<1> QED BY <1>1, <1>7, <1>16, BothDirections

-----------------------------------------------------------------------------
(* A C_PDU is given up.                                                    *)
LEMMA NumberBefore == ASSUME NEW x \in Seqs PROVE \E s \in Seqs : x = Succ(s)
<1>1. PICK m \in Nat : m = SeqMod /\ m > 0
  BY Sizes
<1>2. CASE x = 0
  <2>1. m - 1 \in Seqs /\ (m - 1) + 1 = m
    BY <1>1 DEF Seqs
  <2> QED BY <1>1, <1>2, <2>1 DEF Succ
<1>3. CASE x # 0
  <2>1. x - 1 \in Seqs /\ (x - 1) + 1 = x /\ x # m
    BY <1>1, <1>3 DEF Seqs
  <2> QED BY <1>1, <2>1 DEF Succ
<1> QED BY <1>2, <1>3

LEMMA AckAgeShift ==
  ASSUME NEW t \in Seqs, NEW x \in Seqs, NEW j \in Nat, Age(Succ(t), x) + j < SeqMod,
         NEW t2, t2 = (t + j) % SeqMod
  PROVE  /\ t2 \in Seqs /\ Succ(t2) \in Seqs
         /\ Age(Succ(t2), x) = Age(Succ(t), x) + j
<1>1. PICK s \in Seqs : x = Succ(s)
  BY NumberBefore
<1>2. Age(Succ(t), x) = Age(t, s)
  BY <1>1, AgeOfAck
<1>3. Age(t, s) + j < SeqMod
  BY <1>2
<1>4. (t + j) % SeqMod \in Seqs /\ Age((t + j) % SeqMod, s) = Age(t, s) + j
  BY <1>3, AgeShift
<1>5. t2 \in Seqs /\ Age(t2, s) = Age(t, s) + j
  BY <1>4
<1>6. Age(Succ(t2), x) = Age(t2, s)
  BY <1>1, <1>5, AgeOfAck
<1>7. Succ(t2) \in Seqs
  BY <1>5, SuccOf
<1> QED BY <1>2, <1>5, <1>6, <1>7

LEMMA PassedOver ==
  ASSUME NEW c \in Seq(Frame), NEW t \in Seqs, NEW k \in Nat, NEW j \in Nat, j >= 1,
         k + j + 1 < SeqMod, NEW t2, t2 = (t + j) % SeqMod,
         NEW cur, NEW coming, NEW sub, NEW u, NEW R, NEW rc, NEW D,
         DataOK(c, t, k, cur, coming, sub, u, R, rc, D)
  PROVE  DataOK(c, t2, k + j, NoSegment, {}, sub, u, R, rc, D)
<1>1. ASSUME NEW i \in 1 .. Len(c), IsData(c[i])
      PROVE  Age(t2, c[i].seq) <= k + j + 1 /\ c[i].seq # t2
  <2>1. c[i] \in Frame
    OBVIOUS
  <2>2. PICK s \in Seqs : s = c[i].seq
    BY <1>1, <2>1 DEF Frame, Data, IsData
  <2>3. PICK a \in Nat : a = Age(t, s) /\ a <= k + 1
    <3>1. Age(t, s) \in Nat
      BY AgeType
    <3>2. Age(t, s) <= k + 1
      BY <1>1, <2>2 DEF DataOK, AirOK
    <3> QED BY <3>1, <3>2
  <2>4. a + j < SeqMod
    <3>1. PICK m \in Nat : m = SeqMod
      BY Sizes
    <3>2. a + j < m
      BY <2>3, <3>1
    <3> QED BY <3>1, <3>2
  <2>5. (t + j) % SeqMod \in Seqs /\ Age((t + j) % SeqMod, s) = a + j
    BY <2>3, <2>4, AgeShift
  <2>6. t2 \in Seqs /\ Age(t2, s) = a + j
    BY <2>5
  <2>7. s # t2
    <3>1. a + j # 0
      BY <2>3
    <3> QED BY <2>6, <3>1, AgeType
  <2> QED BY <2>2, <2>3, <2>6, <2>7
<1>2. AirOK(c, t2, k + j, NoSegment, sub, u)
  BY <1>1 DEF DataOK, AirOK
<1>3. OrderOK(c, t2)
  <2>1. SUFFICES ASSUME NEW i \in 1 .. Len(c), NEW h \in 1 .. (i - 1), IsData(c[i]), IsData(c[h])
                 PROVE  /\ c[h].fragment.id <= c[i].fragment.id
                        /\ c[h].seq = t2 => c[i].seq = t2
                        /\ c[i].fragment.part > 1 => Step(c[h], c[i])
    BY DEF OrderOK
  <2>2. h \in 1 .. Len(c)
    OBVIOUS
  <2>3. c[h].seq # t2
    BY <1>1, <2>1, <2>2
  <2> QED BY <2>1, <2>3 DEF DataOK, OrderOK
<1>4. ReadyOK(c, {}, R, rc, D)
  BY DEF DataOK, ReadyOK
<1> QED BY <1>2, <1>3, <1>4 DEF DataOK

LEMMA AcksPassedOver ==
  ASSUME NEW c \in Seq(Frame), NEW due \in Seqs \cup {NoAck}, NEW t \in Seqs, NEW k \in Nat,
         NEW j \in Nat, j >= 1, k + j + 1 < SeqMod, NEW t2, t2 = (t + j) % SeqMod,
         AcksOK(c, due, t, k)
  PROVE  AcksOK(c, due, t2, k + j) /\ ~Answered(c, due, t2)
<1>1. ASSUME NEW x \in Seqs, Age(Succ(t), x) <= k + 1
      PROVE  Age(Succ(t2), x) <= k + j + 1 /\ x # Succ(t2)
  <2>1. PICK a \in Nat : a = Age(Succ(t), x) /\ a <= k + 1
    BY <1>1, SuccOf, AgeType
  <2>2. a + j < SeqMod
    <3>1. PICK m \in Nat : m = SeqMod
      BY Sizes
    <3>2. a + j < m
      BY <2>1, <3>1
    <3> QED BY <3>1, <3>2
  <2>3. Succ(t2) \in Seqs /\ Age(Succ(t2), x) = a + j
    BY <2>1, <2>2, AckAgeShift
  <2>4. x # Succ(t2)
    <3>1. a + j # 0
      BY <2>1
    <3> QED BY <2>3, <3>1, AgeType
  <2> QED BY <2>1, <2>3, <2>4
<1>2. ASSUME NEW i \in 1 .. Len(c), IsAck(c[i])
      PROVE  Age(Succ(t2), c[i].rxLwe) <= k + j + 1 /\ c[i].rxLwe # Succ(t2)
  <2>1. c[i] \in Frame
    OBVIOUS
  <2>2. c[i].rxLwe \in Seqs
    BY <1>2, <2>1 DEF Frame, Data, IsAck
  <2>3. Age(Succ(t), c[i].rxLwe) <= k + 1
    BY <1>2 DEF AcksOK
  <2> QED BY <1>1, <2>2, <2>3
<1>3. ASSUME due # NoAck PROVE Age(Succ(t2), due) <= k + j + 1 /\ due # Succ(t2)
  <2>1. due \in Seqs /\ Age(Succ(t), due) <= k + 1
    BY <1>3 DEF AcksOK
  <2> QED BY <1>1, <2>1
<1>4. NoAck # Succ(t2)
  <2>1. t + j \in Nat
    BY Sizes DEF Seqs
  <2>2. (t + j) % SeqMod \in Seqs
    BY <2>1, NumbersReduce
  <2>3. t2 \in Seqs
    BY <2>2
  <2>4. Succ(t2) \in Seqs
    BY <2>3, SuccOf
  <2> QED BY <2>4, Sizes DEF NoAck, Seqs
<1> QED BY <1>2, <1>3, <1>4 DEF AcksOK, Answered

LEMMA GiveUpStep ==
  ASSUME TypeOK, DeliveryInv, NumbersSuffice', NEW n \in Node, TxGiveUp(n)
  PROVE  DeliveryInv'
<1>1. PICK p \in Node : p = Peer(n) /\ p # n
  BY Peers
<1>2. Direction(n, p) /\ Direction(p, n)
  BY <1>1, BothDirections
<1>3. PICK len \in Nat : len = Len(segments[n])
  BY DEF TypeOK
<1>4. PICK j \in Nat : j = 1 + len /\ j >= 1
  BY <1>3
<1>5. PICK t \in Seqs, k \in Nat : t = txSeq[n] /\ k = skipped[n] /\ t \in Nat
  <2>1. txSeq[n] \in Seqs /\ skipped[n] \in Nat
    BY DEF TypeOK
  <2>2. txSeq[n] \in Nat
    BY <2>1, Sizes DEF Seqs
  <2> QED BY <2>1, <2>2
<1>6. /\ txSeq'[n] = (t + j) % SeqMod
  <2>1. txSeq'[n] = (txSeq[n] + 1 + Len(segments[n])) % SeqMod
    BY DEF TxGiveUp, NumberPast, TypeOK
  <2>2. txSeq[n] + 1 + Len(segments[n]) = t + j
    BY <1>3, <1>4, <1>5, SMTT(30)
  <2> QED BY <2>1, <2>2
<1>7. skipped'[n] = k + j
  <2>1. skipped'[n] = skipped[n] + 1 + Len(segments[n])
    BY DEF TxGiveUp, TypeOK
  <2> QED BY <1>3, <1>4, <1>5, <2>1
<1>8. /\ current'[n] = NoSegment /\ segments'[n] = <<>> /\ Transmit(n, <<>>)
      /\ UNCHANGED <<queue, submitted, done, rxParts, rxCpdu, delivered>>
  BY DEF TxGiveUp, TypeOK, rxVars
<1>9. SameSender(p) /\ SameReceiver(n)
  <2>1. /\ current'[p] = current[p] /\ segments'[p] = segments[p] /\ txSeq'[p] = txSeq[p]
        /\ cpduId'[p] = cpduId[p] /\ skipped'[p] = skipped[p]
    BY <1>1 DEF TxGiveUp, TypeOK
  <2> QED BY <1>8, <2>1 DEF SameSender, SameReceiver
<1>10. Direction(p, n)'
  BY <1>1, <1>2, <1>8, <1>9, SentToOther
<1>11. k + j + 1 < SeqMod
  BY <1>7 DEF NumbersSuffice
<1>12. /\ pendingAck'[p] = pendingAck[p] /\ chan'[n] = chan[n]
       /\ DataOK(chan'[p], t, k, current[n], Coming(current[n], segments[n]),
                 submitted[n], Cut(n), rxParts[p], rxCpdu[p], delivered[p])
  BY <1>1, <1>2, <1>5, <1>8, SentAhead
<1>13. chan[n] \in Seq(Frame) /\ chan'[p] \in Seq(Frame) /\ pendingAck[p] \in Seqs \cup {NoAck}
  <2>1. chan' \in [Node -> Seq(Frame)]
    BY <1>8, NothingIsData, TransmitType
  <2> QED BY <2>1 DEF TypeOK
<1>14. DataOK(chan'[p], txSeq'[n], k + j, NoSegment, {}, submitted[n], Cut(n),
              rxParts[p], rxCpdu[p], delivered[p])
  BY <1>4, <1>6, <1>11, <1>12, <1>13, PassedOver
<1>15. AcksOK(chan[n], pendingAck[p], txSeq'[n], k + j) /\ ~Answered(chan[n], pendingAck[p], txSeq'[n])
  <2>1. AcksOK(chan[n], pendingAck[p], t, k)
    BY <1>2, <1>5 DEF Direction, AnswersOK
  <2> QED BY <1>4, <1>6, <1>11, <1>13, <2>1, AcksPassedOver
<1>16. Cut(n)' = Cut(n)
  BY <1>8 DEF Cut
<1>17. SendsOK(n)'
  <2>1. QueueOK(queue'[n], submitted'[n])
    BY <1>2, <1>8 DEF Direction, SendsOK
  <2>2. \A t2, cid, u, z : SenderOK(NoSegment, <<>>, t2, cid, u, z)
    BY DEF SenderOK
  <2> QED BY <1>8, <2>1, <2>2 DEF SendsOK
<1>18. SegmentsOK(n, p)'
  <2>1. Coming(current'[n], segments'[n]) = {}
    BY <1>8 DEF Coming
  <2> QED BY <1>7, <1>8, <1>14, <1>16, <2>1 DEF SegmentsOK
<1>19. AnswersOK(n, p)'
  BY <1>7, <1>12, <1>15 DEF AnswersOK
<1>20. Direction(n, p)'
  BY <1>2, <1>8, <1>17, <1>18, <1>19 DEF Direction
<1> QED BY <1>1, <1>10, <1>20, BothDirections

-----------------------------------------------------------------------------
(* The acknowledgement of the segment under way arrives.                   *)
LEMMA AgeNext ==
  ASSUME NEW t \in Seqs, SeqMod > 1
  PROVE  Succ(t) \in Seqs /\ Age(Succ(t), t) = 1 /\ Succ(t) # t
<1>1. PICK m \in Nat : m = SeqMod /\ m > 1
  BY Sizes
<1> QED BY <1>1 DEF Age, Succ, Seqs

LEMMA NextIsReady ==
  ASSUME NEW c \in Seq(Frame), NEW t \in Seqs, SeqMod > 1, NEW k, NEW cur \in Data, cur.seq = t,
         NEW coming, NEW next, NEW sub, NEW u, NEW R, NEW rc, NEW D,
         DataOK(c, t, k, cur, coming, sub, u, R, rc, D), Confirmed(cur, c, R, rc, D),
         \A g \in next : g \in Data /\ Step(cur, g) /\ g.fragment.part <= g.fragment.size
  PROVE  DataOK(c, Succ(t), 0, NoSegment, next, sub, u, R, rc, D)
<1>1. ASSUME NEW i \in 1 .. Len(c), IsData(c[i])
      PROVE  c[i] = cur /\ Age(Succ(t), c[i].seq) = 1 /\ c[i].seq # Succ(t)
  BY <1>1, AgeNext DEF Confirmed
<1>2. AirOK(c, Succ(t), 0, NoSegment, sub, u)
  BY <1>1 DEF DataOK, AirOK
<1>3. OrderOK(c, Succ(t))
  <2>1. SUFFICES ASSUME NEW i \in 1 .. Len(c), NEW h \in 1 .. (i - 1), IsData(c[i]), IsData(c[h])
                 PROVE  /\ c[h].fragment.id <= c[i].fragment.id
                        /\ c[h].seq = Succ(t) => c[i].seq = Succ(t)
                        /\ c[i].fragment.part > 1 => Step(c[h], c[i])
    BY DEF OrderOK
  <2>2. h \in 1 .. Len(c)
    OBVIOUS
  <2>3. c[h].seq # Succ(t)
    BY <1>1, <2>1, <2>2
  <2> QED BY <2>1, <2>3 DEF DataOK, OrderOK
<1>4. ReadyOK(c, next, R, rc, D)
  <2>1. ASSUME NEW g \in next PROVE Ready(R, rc, D, g)
    BY KnowsMakesReady DEF Confirmed
  <2> QED BY <1>1, <2>1 DEF DataOK, ReadyOK
<1> QED BY <1>2, <1>3, <1>4 DEF DataOK

LEMMA NextAnswers ==
  ASSUME NEW c \in Seq(Frame), c # <<>>, IsAck(c[1]), NEW due, NEW t \in Seqs, SeqMod > 1, NEW k,
         c[1].rxLwe = Succ(t), AcksOK(c, due, t, k)
  PROVE  AcksOK(Tail(c), due, Succ(t), 0) /\ ~Answered(Tail(c), due, Succ(t))
<1> DEFINE d == Tail(c)
<1>1. /\ Len(d) \in Nat /\ Len(c) \in Nat /\ 1 \in 1 .. Len(c)
      /\ \A i \in 1 .. Len(d) : i \in Nat /\ i + 1 \in 1 .. Len(c) /\ d[i] = c[i + 1]
  BY TailFacts
<1> HIDE DEF d
<1>2. Succ(t) \in Seqs /\ Succ(Succ(t)) \in Seqs /\ Age(Succ(Succ(t)), Succ(t)) = 1
      /\ Succ(Succ(t)) # Succ(t)
  BY AgeNext
<1>3. due \in {NoAck, Succ(t)} /\ \A i \in (1 + 1) .. Len(c) : IsAck(c[i]) => c[i].rxLwe = Succ(t)
  BY <1>1 DEF AcksOK
<1>4. ASSUME NEW i \in 1 .. Len(d), IsAck(d[i]) PROVE d[i].rxLwe = Succ(t)
  <2>1. d[i] = c[i + 1] /\ i + 1 \in (1 + 1) .. Len(c)
    BY <1>1
  <2> QED BY <1>3, <1>4, <2>1
<1>5. NoAck # Succ(Succ(t))
  BY <1>2, Sizes DEF NoAck, Seqs
<1>6. AcksOK(d, due, Succ(t), 0)
  BY <1>2, <1>3, <1>4 DEF AcksOK
<1>7. ~Answered(d, due, Succ(t))
  BY <1>2, <1>3, <1>4, <1>5 DEF Answered
<1> QED BY <1>6, <1>7 DEF d

LEMMA RxAckStep ==
  ASSUME TypeOK, DeliveryInv, NumbersSuffice, NEW n \in Node, RxAck(n)
  PROVE  DeliveryInv'
<1>1. PICK p \in Node : p = Peer(n) /\ p # n
  BY Peers
<1>2. Direction(n, p) /\ Direction(p, n)
  BY <1>1, BothDirections
<1>3. SeqMod > 1
  <2>1. PICK m \in Nat, k \in Nat : m = SeqMod /\ k = skipped[n] /\ k + 1 < m
    BY Sizes DEF NumbersSuffice, TypeOK
  <2> QED BY <2>1
<1>4. PICK t \in Seqs : t = txSeq[n]
  BY DEF TypeOK
<1>5. PICK cur \in Data : cur = current[n] /\ cur # NoSegment
  BY DEF RxAck, Answers, TypeOK
<1>6. /\ chan[n] \in Seq(Frame) /\ chan[n] # <<>> /\ IsAck(chan[n][1]) /\ chan[n][1].rxLwe = Succ(t)
      /\ chan' = [chan EXCEPT ![n] = Tail(chan[n])]
  <2>1. chan[n] \in Seq(Frame) /\ chan[n] # <<>> /\ Head(chan[n]).type = "ACK"
    BY DEF TypeOK, RxAck, Arrived
  <2>2. Head(chan[n]).rxLwe = (txSeq[n] + 1) % SeqMod
    BY DEF RxAck, Answers
  <2>3. (txSeq[n] + 1) % SeqMod = Succ(t)
    BY <1>4, SuccOf
  <2>4. Head(chan[n]) = chan[n][1]
    BY <2>1
  <2> QED BY <2>1, <2>2, <2>3, <2>4 DEF RxAck, Take, IsAck
<1>7. /\ current'[n] = NoSegment /\ skipped'[n] = 0 /\ txSeq'[n] = Succ(t)
      /\ UNCHANGED <<queue, segments, submitted, rxParts, rxCpdu, delivered, pendingAck>>
  <2>1. txSeq'[n] = (txSeq[n] + 1) % SeqMod
    BY DEF RxAck, TypeOK
  <2>2. (txSeq[n] + 1) % SeqMod = Succ(t)
    BY <1>4, SuccOf
  <2> QED BY <2>1, <2>2 DEF RxAck, TypeOK, rxVars
<1>8. chan'[n] = Tail(chan[n]) /\ chan'[p] = chan[p]
  BY <1>1, <1>6 DEF TypeOK
<1>9. Direction(p, n)'
  <2>1. SameSender(p) /\ SameReceiver(n)
    <3>1. /\ current'[p] = current[p] /\ txSeq'[p] = txSeq[p] /\ skipped'[p] = skipped[p]
      BY <1>1 DEF RxAck, TypeOK
    <3>2. cpduId'[p] = cpduId[p] /\ done'[p] = done[p]
      BY <1>1 DEF RxAck, TypeOK
    <3> QED BY <1>7, <3>1, <3>2 DEF SameSender, SameReceiver
  <2> QED BY <1>2, <1>6, <1>7, <1>8, <2>1, DataDropped
<1>10. Confirmed(cur, chan[p], rxParts[p], rxCpdu[p], delivered[p])
  <2>1. Answered(chan[n], pendingAck[p], t)
    <3>1. 1 \in 1 .. Len(chan[n])
      BY <1>6
    <3> QED BY <1>6, <3>1 DEF Answered
  <2> QED BY <1>2, <1>4, <1>5, <2>1 DEF Direction, AnswersOK
<1>11. PICK len \in Nat : len = Len(segments[n]) /\ segments[n] \in Seq(Data)
  BY DEF TypeOK
<1> DEFINE u == Cut(n)
           z == submitted[n][u]
<1>12. /\ u >= 1 /\ z - len >= 1 /\ cur = Part(u, z, z - len, cpduId[n], t)
       /\ segments[n] # <<>> => segments[n][1].seq = Succ(t)
       /\ \A i \in 1 .. len : segments[n][i] = Part(u, z, z - len + i, cpduId[n], segments[n][i].seq)
       /\ \A i \in 1 .. (len - 1) : segments[n][i + 1].seq = Succ(segments[n][i].seq)
  BY <1>2, <1>4, <1>5, <1>11 DEF Direction, SendsOK, SenderOK
<1>13. u \in Nat /\ z \in Nat
  <2>1. Cut(n) \in Nat /\ Cut(n) <= Len(submitted[n])
    BY <1>2, ComingFacts DEF Direction
  <2>2. submitted[n] \in Seq(1 .. MaxFragments)
    BY DEF TypeOK
  <2>3. Cut(n) \in 1 .. Len(submitted[n])
    BY <1>12, <2>1, <2>2
  <2> QED BY <2>1, <2>2, <2>3, Sizes
<1> HIDE DEF u, z
<1> DEFINE next == Coming(NoSegment, segments[n])
<1>14. ASSUME NEW g \in next
       PROVE  g \in Data /\ Step(cur, g) /\ g.fragment.part <= g.fragment.size
  <2>1. segments[n] # <<>> /\ g = segments[n][1]
    BY <1>14 DEF Coming
  <2>2. 1 \in 1 .. len /\ g \in Data
    BY <1>11, <2>1
  <2>3. g = Part(u, z, z - len + 1, cpduId[n], g.seq)
    BY <1>12, <2>1, <2>2
  <2>4. z - len + 1 <= z
    BY <1>13, <2>2
  <2>5. g.fragment = [id |-> u, part |-> z - len + 1, size |-> z] /\ g.cpdu = cpduId[n]
    BY <2>3 DEF Part
  <2>6. cur.fragment = [id |-> u, part |-> z - len, size |-> z] /\ cur.cpdu = cpduId[n]
    BY <1>12 DEF Part
  <2>7. Before(g) = [id |-> u, part |-> z - len, size |-> z]
    <3>1. g.fragment.id = u /\ g.fragment.part = z - len + 1 /\ g.fragment.size = z
      BY <2>5
    <3>2. (z - len + 1) - 1 = z - len
      BY <1>13
    <3>3. g.fragment.part - 1 = z - len
      BY <3>1, <3>2
    <3> QED BY <3>1, <3>3 DEF Before
  <2>8. cur.fragment = Before(g) /\ cur.cpdu = g.cpdu
    BY <2>5, <2>6, <2>7
  <2>9. g.fragment.part <= g.fragment.size
    <3>1. g.fragment.part = z - len + 1 /\ g.fragment.size = z
      BY <2>5
    <3> QED BY <2>4, <3>1
  <2>10. Step(cur, g)
    BY <2>8 DEF Step
  <2> QED BY <2>2, <2>9, <2>10
<1>15. Coming(current'[n], segments'[n]) = next
  BY <1>7 DEF Coming
<1> HIDE DEF next
<1>16. DataOK(chan[p], Succ(t), 0, NoSegment, next, submitted[n], Cut(n),
              rxParts[p], rxCpdu[p], delivered[p])
  <2>1. DataOK(chan[p], t, skipped[n], cur, Coming(current[n], segments[n]), submitted[n], Cut(n),
               rxParts[p], rxCpdu[p], delivered[p])
    BY <1>2, <1>4, <1>5 DEF Direction, SegmentsOK
  <2>2. cur.seq = t
    BY <1>12, PartNumber
  <2>3. chan[p] \in Seq(Frame)
    BY DEF TypeOK
  <2> QED BY <1>3, <1>10, <1>14, <2>1, <2>2, <2>3, NextIsReady
<1>17. /\ AcksOK(Tail(chan[n]), pendingAck[p], Succ(t), 0)
       /\ ~Answered(Tail(chan[n]), pendingAck[p], Succ(t))
  <2>1. AcksOK(chan[n], pendingAck[p], t, skipped[n])
    BY <1>2, <1>4 DEF Direction, AnswersOK
  <2> QED BY <1>3, <1>6, <2>1, NextAnswers
<1>18. Cut(n)' = Cut(n)
  BY <1>7 DEF Cut
<1>19. SendsOK(n)'
  <2>1. QueueOK(queue'[n], submitted'[n])
    BY <1>2, <1>7 DEF Direction, SendsOK
  <2>2. SenderOK(NoSegment, segments[n], Succ(t), cpduId'[n], u, z)
    <3>1. CASE segments[n] = <<>>
      BY <3>1 DEF SenderOK
    <3>2. CASE segments[n] # <<>>
      <4>1. cpduId' = cpduId
        BY <3>2 DEF RxAck
      <4> QED BY <1>11, <1>12, <3>2, <4>1 DEF SenderOK
    <3> QED BY <3>1, <3>2
  <2> QED BY <1>7, <1>18, <2>1, <2>2 DEF SendsOK, u, z
<1>20. SegmentsOK(n, p)'
  BY <1>7, <1>8, <1>15, <1>16, <1>18 DEF SegmentsOK
<1>21. AnswersOK(n, p)'
  BY <1>7, <1>8, <1>17 DEF AnswersOK
<1>22. DoneOK(done'[n], delivered'[p])
  <2>1. DoneOK(done[n], delivered[p]) /\ delivered' = delivered
    BY <1>2, <1>7 DEF Direction
  <2>2. CASE segments[n] # <<>>
    <3>1. done' = done
      BY <2>2 DEF RxAck
    <3> QED BY <2>1, <3>1
  <2>3. CASE segments[n] = <<>>
    <3>1. done'[n] = done[n] \cup {cur.fragment.id}
      BY <1>5, <2>3 DEF RxAck, TypeOK
    <3>2. len = 0 /\ z - len = z
      BY <1>11, <1>13, <2>3
    <3>3. cur.fragment.part = cur.fragment.size
      BY <1>12, <3>2 DEF Part
    <3>4. \E i \in 1 .. Len(delivered[p]) : delivered[p][i][1].id = cur.fragment.id
      BY <1>10, <3>3 DEF Confirmed, Knows
    <3> QED BY <2>1, <3>1, <3>4 DEF DoneOK
  <2> QED BY <2>2, <2>3
<1>23. Direction(n, p)'
  BY <1>19, <1>20, <1>21, <1>22 DEF Direction
<1> QED BY <1>1, <1>9, <1>23, BothDirections

-----------------------------------------------------------------------------
(* A segment arrives.                                                      *)
LEMMA TakeStep ==
  ASSUME TypeOK, DeliveryInv, NEW n \in Node, Arrived(n, "DATA"), Acknowledge(n), Take(n),
         UNCHANGED <<txVars, submitted, done>>,
         SameReceiver(Peer(n)),
         Taken(rxParts[n], rxCpdu[n], delivered[n], Head(chan[n]),
               rxParts'[n], rxCpdu'[n], delivered'[n])
  PROVE  DeliveryInv'
<1>1. PICK p \in Node : p = Peer(n) /\ p # n
  BY Peers
<1>2. Direction(n, p) /\ Direction(p, n)
  BY <1>1, BothDirections
<1>3. PICK f \in Data : f = Head(chan[n])
  BY ArrivedData
<1>4. chan[n] \in Seq(Frame) /\ chan[n] # <<>> /\ chan[n][1] = f /\ 1 \in 1 .. Len(chan[n])
  <2>1. chan[n] \in Seq(Frame) /\ chan[n] # <<>>
    BY DEF TypeOK, Arrived
  <2> QED BY <1>3, <2>1
<1>5. chan' = [chan EXCEPT ![n] = Tail(chan[n])]
  BY DEF Take
<1>6. chan'[n] = Tail(chan[n]) /\ chan'[p] = chan[p]
  BY <1>1, <1>5 DEF TypeOK
<1>7. f.seq \in Seqs
  BY DEF Data
<1>8. pendingAck'[n] = Succ(f.seq) /\ pendingAck'[p] = pendingAck[p] /\ Succ(f.seq) \in Seqs
  <2>1. pendingAck'[n] = (f.seq + 1) % SeqMod /\ pendingAck'[p] = pendingAck[p]
    BY <1>1, <1>3 DEF Acknowledge, TypeOK
  <2>2. (f.seq + 1) % SeqMod = Succ(f.seq) /\ Succ(f.seq) \in Seqs
    BY <1>7, SuccOf
  <2> QED BY <2>1, <2>2
<1>9. SameSender(n) /\ SameSender(p)
  BY DEF SameSender, txVars
<1>10. Direction(n, p)'
  BY <1>1, <1>2, <1>4, <1>6, <1>8, <1>9, AckDropped
<1>11. PICK t \in Seqs, k \in Nat : t = txSeq[p] /\ k = skipped[p]
  BY DEF TypeOK
<1> DEFINE c == chan[n]
           cur == current[p]
           coming == Coming(current[p], segments[p])
<1>12. DataOK(c, t, k, cur, coming, submitted[p], Cut(p), rxParts[n], rxCpdu[n], delivered[n])
  BY <1>2, <1>11 DEF Direction, SegmentsOK
<1>13. /\ Cut(p) \in Nat
       /\ \A g \in coming : g \in Data /\ g.fragment.part <= g.fragment.size
  BY <1>2, ComingFacts DEF Direction
<1>14. /\ rxParts[n] \in Seq(Fragment) /\ delivered[n] \in Seq(Seq(Fragment))
  BY DEF TypeOK
<1>15. Taken(rxParts[n], rxCpdu[n], delivered[n], c[1], rxParts'[n], rxCpdu'[n], delivered'[n])
  BY <1>3, <1>4
<1> HIDE DEF c, cur, coming
<1>16. /\ DataOK(Tail(c), t, k, cur, coming, submitted[p], Cut(p),
                rxParts'[n], rxCpdu'[n], delivered'[n])
       /\ Knows(rxParts'[n], rxCpdu'[n], delivered'[n], c[1])
       /\ \A ids : DoneOK(ids, delivered[n]) => DoneOK(ids, delivered'[n])
  <2>1. c \in Seq(Frame) /\ c # <<>> /\ c[1] \in Data
    BY <1>4 DEF c
  <2> QED BY <1>12, <1>13, <1>14, <1>15, <2>1, TakenDataOK
<1>17. /\ IsData(f) /\ Age(t, f.seq) <= k + 1
       /\ f.seq = t => f = cur
       /\ \A i \in 1 .. Len(c) : IsData(c[i]) /\ f.seq = t => c[i] = cur
  <2>1. IsData(f) /\ c[1] = f /\ 1 \in 1 .. Len(c) /\ Len(c) \in Nat
    BY <1>4, DataIsSome DEF c, IsData
  <2>2. Age(t, f.seq) <= k + 1 /\ (f.seq = t => f = cur)
    BY <1>12, <2>1 DEF DataOK, AirOK
  <2>3. ASSUME NEW i \in 1 .. Len(c), IsData(c[i]), f.seq = t PROVE c[i] = cur
    <3>1. CASE i = 1
      BY <2>1, <2>2, <2>3, <3>1
    <3>2. CASE i # 1
      <4>1. 1 \in 1 .. (i - 1)
        BY <2>1, <3>2
      <4>2. c[i].seq = t
        BY <1>12, <2>1, <2>3, <4>1 DEF DataOK, OrderOK
      <4> QED BY <1>12, <2>3, <4>2 DEF DataOK, AirOK
    <3> QED BY <3>1, <3>2
  <2> QED BY <2>1, <2>2, <2>3
<1>18. ASSUME f.seq = t
       PROVE  Confirmed(cur, Tail(c), rxParts'[n], rxCpdu'[n], delivered'[n])
  <2>1. f = cur /\ cur # NoSegment
    BY <1>17, <1>18, DataIsSome
  <2>2. Knows(rxParts'[n], rxCpdu'[n], delivered'[n], cur)
    BY <1>4, <1>16, <2>1 DEF c
  <2>3. \A i \in 1 .. Len(Tail(c)) : i + 1 \in 1 .. Len(c) /\ Tail(c)[i] = c[i + 1]
    BY <1>4, TailFacts DEF c
  <2>4. \A i \in 1 .. Len(Tail(c)) : IsData(Tail(c)[i]) => Tail(c)[i] = cur
    BY <1>17, <1>18, <2>3
  <2> QED BY <2>1, <2>2, <2>4 DEF Confirmed
<1>19. Answered(chan[p], pendingAck[n], t) => f.seq = t
  <2>1. SUFFICES ASSUME Answered(chan[p], pendingAck[n], t) PROVE f.seq = t
    OBVIOUS
  <2>2. cur # NoSegment /\ f = cur
    <3>1. Confirmed(cur, c, rxParts[n], rxCpdu[n], delivered[n])
      BY <1>2, <1>11, <2>1 DEF Direction, AnswersOK, c, cur
    <3>2. f = c[1] /\ 1 \in 1 .. Len(c)
      BY <1>4 DEF c
    <3> QED BY <1>17, <3>1, <3>2 DEF Confirmed
  <2>3. cur.seq = t
    <3>1. cur = Part(Cut(p), submitted[p][Cut(p)], submitted[p][Cut(p)] - Len(segments[p]),
                     cpduId[p], t)
      BY <1>2, <1>11, <2>2 DEF Direction, SendsOK, SenderOK, cur
    <3> QED BY <3>1, PartNumber
  <2> QED BY <2>2, <2>3
<1>20. AcksOK(chan[p], pendingAck[n], t, k)
  BY <1>2, <1>11 DEF Direction, AnswersOK
<1>21. AcksOK(chan[p], Succ(f.seq), t, k)
  <2>1. Age(Succ(t), Succ(f.seq)) <= k + 1
    BY <1>7, <1>17, AgeOfAck
  <2>2. ASSUME NEW i \in 1 .. Len(chan[p]), IsAck(chan[p][i]), chan[p][i].rxLwe = Succ(t)
        PROVE  f.seq = t
    BY <1>19, <2>2 DEF Answered
  <2> QED BY <1>20, <2>1, <2>2 DEF AcksOK
<1>22. Answered(chan[p], Succ(f.seq), t) =>
         Confirmed(cur, Tail(c), rxParts'[n], rxCpdu'[n], delivered'[n])
  <2>1. SUFFICES ASSUME Answered(chan[p], Succ(f.seq), t) PROVE f.seq = t
    BY <1>18
  <2>2. CASE Succ(f.seq) = Succ(t)
    BY <1>7, <2>2, AgeOfAck
  <2>3. CASE Succ(f.seq) # Succ(t)
    <3>1. Answered(chan[p], pendingAck[n], t)
      BY <2>1, <2>3 DEF Answered
    <3> QED BY <1>19, <3>1
  <2> QED BY <2>2, <2>3
<1>23. SendsOK(p)' /\ Cut(p)' = Cut(p)
  BY <1>2, <1>9, SenderKept DEF Direction
<1>24. SegmentsOK(p, n)'
  BY <1>6, <1>9, <1>11, <1>16, <1>23 DEF SegmentsOK, SameSender, c, cur, coming
<1>25. AnswersOK(p, n)'
  BY <1>6, <1>8, <1>9, <1>11, <1>21, <1>22 DEF AnswersOK, SameSender, c, cur
<1>26. DoneOK(done'[p], delivered'[n])
  BY <1>2, <1>9, <1>16 DEF Direction, SameSender
<1>27. Direction(p, n)'
  BY <1>23, <1>24, <1>25, <1>26 DEF Direction
<1> QED BY <1>1, <1>10, <1>27, BothDirections

LEMMA OrphanStep == ASSUME TypeOK, DeliveryInv, NEW n \in Node, RxOrphan(n) PROVE DeliveryInv'
<1>1. /\ Arrived(n, "DATA") /\ Acknowledge(n) /\ Take(n) /\ Orphan(n, Head(chan[n]))
      /\ UNCHANGED <<txVars, rxParts, rxCpdu, delivered, submitted, done>>
  BY DEF RxOrphan, rxVars
<1>2. SameReceiver(Peer(n))
  BY <1>1 DEF SameReceiver
<1>3. Taken(rxParts[n], rxCpdu[n], delivered[n], Head(chan[n]),
            rxParts'[n], rxCpdu'[n], delivered'[n])
  BY <1>1 DEF Orphan, Orphaned, Taken
<1> QED BY <1>1, <1>2, <1>3, TakeStep

LEMMA SegmentStep == ASSUME TypeOK, DeliveryInv, NEW n \in Node, RxSegment(n) PROVE DeliveryInv'
<1>1. PICK f : f = Head(chan[n])
  OBVIOUS
<1> DEFINE complete == f.fragment.part = f.fragment.size
<1>2. /\ Arrived(n, "DATA") /\ Acknowledge(n) /\ Take(n) /\ ~Orphan(n, f)
      /\ UNCHANGED <<txVars, submitted, done>>
  BY <1>1 DEF RxSegment
<1>3. /\ rxCpdu' = [rxCpdu EXCEPT ![n] = f.cpdu]
      /\ rxParts' = [rxParts EXCEPT ![n] = IF complete THEN <<>> ELSE PartsWith(n, f)]
      /\ delivered' = [delivered EXCEPT ![n] =
           IF complete THEN Append(delivered[n], PartsWith(n, f)) ELSE delivered[n]]
  BY <1>1 DEF RxSegment
<1> HIDE DEF complete
<1>4. /\ rxCpdu'[n] = f.cpdu
      /\ rxParts'[n] = IF complete THEN <<>> ELSE PartsWith(n, f)
      /\ delivered'[n] = IF complete THEN Append(delivered[n], PartsWith(n, f)) ELSE delivered[n]
  BY <1>3 DEF TypeOK
<1>5. SameReceiver(Peer(n))
  BY <1>3, Peers DEF TypeOK, SameReceiver
<1>6. PartsWith(n, f) = Joined(rxParts[n], f) /\ ~Orphaned(rxParts[n], rxCpdu[n], f)
  BY <1>2 DEF PartsWith, Joined, Orphan, Orphaned
<1>7. Taken(rxParts[n], rxCpdu[n], delivered[n], f, rxParts'[n], rxCpdu'[n], delivered'[n])
  BY <1>4, <1>6 DEF Taken, complete
<1> QED BY <1>1, <1>2, <1>5, <1>7, TakeStep

-----------------------------------------------------------------------------
LEMMA InitDelivery == Init => DeliveryInv
<1> SUFFICES ASSUME Init, NEW n \in Node PROVE Direction(n, Peer(n))
  BY DEF DeliveryInv
<1>1. PICK p \in Node : p = Peer(n)
  BY Peers
<1>2. /\ queue[n] = <<>> /\ segments[n] = <<>> /\ current[n] = NoSegment /\ submitted[n] = <<>>
      /\ done[n] = {} /\ rxParts[p] = <<>> /\ delivered[p] = <<>> /\ pendingAck[p] = NoAck
      /\ chan[n] = <<>> /\ chan[p] = <<>> /\ txSeq[n] = 0
  BY DEF Init
<1>3. SendsOK(n)
  BY <1>2 DEF SendsOK, QueueOK, SenderOK
<1>4. SegmentsOK(n, p)
  BY <1>2 DEF SegmentsOK, DataOK, AirOK, OrderOK, ReadyOK, CollectedOK, DeliveredOK, Coming
<1>5. AnswersOK(n, p)
  <2>1. NoAck # Succ(0)
    <3>1. 0 \in Seqs
      BY Sizes DEF Seqs
    <3>2. Succ(0) \in Seqs
      BY <3>1, SuccOf
    <3> QED BY <3>2, Sizes DEF NoAck, Seqs
  <2> QED BY <1>2, <2>1 DEF AnswersOK, AcksOK, Answered
<1>6. DoneOK(done[n], delivered[p])
  BY <1>2 DEF DoneOK
<1> QED BY <1>1, <1>3, <1>4, <1>5, <1>6 DEF Direction

LEMMA DeliveryStep ==
  ASSUME TypeOK, DeliveryInv, NumbersSuffice, NumbersSuffice', [Next]_vars
  PROVE  DeliveryInv'
<1>1. CASE UNCHANGED vars
  BY <1>1, IdleStep DEF vars, txVars, rxVars
<1>2. ASSUME NEW n \in Node, RxManagement(n) \/ TxNothing(n) PROVE DeliveryInv'
  BY <1>2, IdleStep DEF RxManagement, TxNothing, txVars, rxVars
<1>3. ASSUME NEW n \in Node,
             \/ Submit(n) \/ TxSend(n) \/ TxRetransmit(n) \/ TxGiveUp(n) \/ TxAck(n)
             \/ ProcessRx(n) \/ Lose(n)
      PROVE  DeliveryInv'
  BY <1>3, SubmitStep, SendStep, RetransmitStep, GiveUpStep, AckStep, OrphanStep, SegmentStep,
     DamagedStep, RxAckStep, AckLateStep, LoseStep DEF ProcessRx
<1> QED BY <1>1, <1>2, <1>3 DEF Next

(* As long as the numbers suffice, the two ends agree on every C_PDU:      *)
(* segments are on their way in the order of their numbers, the receiver   *)
(* holds what precedes them, and an acknowledgement of the segment under   *)
(* way exists only when the receiver has taken that segment                *)
(* (process_tx, process_rx_dpdu).                                          *)
THEOREM EndsAgree == Spec /\ []NumbersSuffice => []DeliveryInv
<1>1. TypeOK /\ DeliveryInv /\ NumbersSuffice /\ NumbersSuffice' /\ [Next]_vars => DeliveryInv'
  BY DeliveryStep
<1> QED BY <1>1, InitDelivery, TypeCorrect, PTL DEF Spec

(* A chain up to its last segment covers the C_PDU.                        *)
LEMMA ChainCovers ==
  ASSUME TypeOK, NEW n \in Node, NEW P \in Seq(Fragment), NEW u \in Nat, u <= Len(submitted[n]),
         Chain(P, submitted[n], u), P[Len(P)].part = P[1].size
  PROVE  \E id \in 1 .. Len(submitted[n]) : Covers(P, n, id)
<1>1. PICK len \in Nat : len = Len(P) /\ len >= 1
  BY DEF Chain
<1>2. PICK id \in 1 .. Len(submitted[n]) : id = P[1].id
  <2>1. submitted[n] \in Seq(1 .. MaxFragments)
    BY DEF TypeOK
  <2>2. P[1].id \in 1 .. u
    BY DEF Chain
  <2> QED BY <2>1, <2>2
<1>3. PICK z \in Nat : z = submitted[n][id] /\ z >= 1 /\ z = P[1].size
  <2>0. submitted[n] \in Seq(1 .. MaxFragments)
    BY DEF TypeOK
  <2>1. submitted[n][id] \in 1 .. MaxFragments
    BY <2>0, ElementOfSeq
  <2>2. P[1].size = submitted[n][id]
    BY <1>2 DEF Chain
  <2> QED BY <2>1, <2>2, Sizes
<1>4. \A k \in 1 .. z : Payload(n, id)[k] = [id |-> id, part |-> k, size |-> z]
  BY <1>3 DEF Payload, Fragments
<1>5. ASSUME NEW i \in 1 .. len
      PROVE  P[i] = [id |-> id, part |-> P[i].part, size |-> z]
  <2>1. P[i] \in Fragment
    BY <1>1
  <2>2. P[i].id = id /\ P[i].size = z
    BY <1>1, <1>2, <1>3 DEF Chain
  <2> QED BY <2>1, <2>2 DEF Fragment
<1>6. P[1] = Payload(n, id)[1]
  <2>1. P[1].part = 1 /\ 1 \in 1 .. len /\ 1 \in 1 .. z
    BY <1>1, <1>3 DEF Chain
  <2>2. P[1] = [id |-> id, part |-> 1, size |-> z]
    BY <1>5, <2>1
  <2>3. Payload(n, id)[1] = [id |-> id, part |-> 1, size |-> z]
    BY <1>4, <2>1
  <2> QED BY <2>2, <2>3
<1>7. P[Len(P)] = Payload(n, id)[submitted[n][id]]
  <2>1. P[len].part = z /\ len \in 1 .. len /\ z \in 1 .. z
    BY <1>1, <1>3
  <2>2. P[len] = [id |-> id, part |-> z, size |-> z]
    BY <1>5, <2>1
  <2>3. Payload(n, id)[z] = [id |-> id, part |-> z, size |-> z]
    BY <1>4, <2>1
  <2> QED BY <1>1, <1>3, <2>2, <2>3
<1>8. ASSUME NEW i \in 1 .. (Len(P) - 1)
      PROVE  P[i + 1].id = id /\ P[i + 1].part \in {P[i].part, P[i].part + 1}
  <2>1. i + 1 \in 1 .. Len(P)
    BY <1>1
  <2> QED BY <1>2, <2>1 DEF Chain
<1> QED BY <1>6, <1>7, <1>8 DEF Covers

LEMMA AgreementDelivers == TypeOK /\ DeliveryInv => NothingIsMissing /\ AckMeansDelivered
<1> SUFFICES ASSUME TypeOK, DeliveryInv PROVE NothingIsMissing /\ AckMeansDelivered
  OBVIOUS
<1>1. ASSUME NEW n \in Node
      PROVE  /\ DeliveredOK(delivered[Peer(n)], chan[Peer(n)], submitted[n], Cut(n))
             /\ DoneOK(done[n], delivered[Peer(n)])
             /\ Cut(n) \in Nat /\ Cut(n) <= Len(submitted[n])
             /\ delivered[Peer(n)] \in Seq(Seq(Fragment))
  <2>1. Direction(n, Peer(n))
    BY DEF DeliveryInv
  <2>2. delivered[Peer(n)] \in Seq(Seq(Fragment))
    BY Peers DEF TypeOK
  <2> QED BY <2>1, <2>2, ComingFacts DEF Direction, SegmentsOK, DataOK
<1>2. NothingIsMissing
  <2>1. SUFFICES ASSUME NEW n \in Node, NEW i \in 1 .. Len(delivered[Peer(n)])
                 PROVE  \E id \in 1 .. Len(submitted[n]) : Covers(delivered[Peer(n)][i], n, id)
    BY DEF NothingIsMissing
  <2>2. PICK P \in Seq(Fragment) : P = delivered[Peer(n)][i]
    BY <1>1
  <2>3. Chain(P, submitted[n], Cut(n)) /\ P[Len(P)].part = P[1].size
    BY <1>1, <2>2 DEF DeliveredOK
  <2>4. \E id \in 1 .. Len(submitted[n]) : Covers(P, n, id)
    BY <1>1, <2>3, ChainCovers
  <2> QED BY <2>2, <2>4
<1>3. AckMeansDelivered
  <2>1. SUFFICES ASSUME NEW n \in Node
                 PROVE  LET got == delivered[Peer(n)] IN
                          /\ \A id \in done[n] : \E i \in 1 .. Len(got) : got[i][1].id = id
                          /\ \A i, j \in 1 .. Len(got) : i < j => got[i][1].id <= got[j][1].id
    BY DEF AckMeansDelivered
  <2>2. PICK got \in Seq(Seq(Fragment)) : got = delivered[Peer(n)]
    BY <1>1
  <2>3. \A id \in done[n] : \E i \in 1 .. Len(got) : got[i][1].id = id
    BY <1>1, <2>2 DEF DoneOK
  <2>4. ASSUME NEW i \in 1 .. Len(got), NEW j \in 1 .. Len(got), i < j
        PROVE  got[i][1].id <= got[j][1].id
    <3>1. i \in 1 .. (j - 1)
      BY <2>4
    <3> QED BY <1>1, <2>2, <3>1 DEF DeliveredOK
  <2> QED BY <2>2, <2>3, <2>4
<1> QED BY <1>2, <1>3

(* What a node hands to its upper layer as a C_PDU has every segment of    *)
(* one that was submitted, in order and none of another, however many      *)
(* frames are lost or repeated and whatever is given up, as long as the    *)
(* numbers suffice (process_rx_dpdu).                                      *)
THEOREM NothingMissing == Spec /\ []NumbersSuffice => []NothingIsMissing
<1>1. TypeOK /\ DeliveryInv => NothingIsMissing
  BY AgreementDelivers, Zenon
<1> QED BY <1>1, TypeCorrect, EndsAgree, PTL

(* A C_PDU whose last segment was acknowledged has been delivered, and     *)
(* C_PDUs are delivered in the order of their submission, as long as the   *)
(* numbers suffice (_process_rx_ack, process_rx_dpdu).                     *)
THEOREM AcknowledgedIsDelivered == Spec /\ []NumbersSuffice => []AckMeansDelivered
<1>1. TypeOK /\ DeliveryInv => AckMeansDelivered
  BY AgreementDelivers, Zenon
<1> QED BY <1>1, TypeCorrect, EndsAgree, PTL

-----------------------------------------------------------------------------
(* A node that has few segments to send, in all, never runs out of numbers *)
(* to tell them apart.                                                     *)
FewSegments == \A n \in Node : MaxFragments * MaxSubmit[n] + 1 < SeqMod

(* The segments under way; with those skipped they are some of those cut.  *)
UnderWay(n) == Len(segments[n]) + (IF current[n] = NoSegment THEN 0 ELSE 1)
CountOK(n) ==
  /\ Len(queue[n]) <= Len(submitted[n]) /\ Len(submitted[n]) <= MaxSubmit[n]
  /\ skipped[n] + UnderWay(n) <= MaxFragments * Cut(n)

LEMMA MoreOfThem ==
  ASSUME NEW m \in Nat, NEW c \in Nat
  PROVE  m * c \in Nat /\ m * (c + 1) = m * c + m
OBVIOUS

LEMMA MoreIsMore ==
  ASSUME NEW m \in Nat, NEW c \in Nat, NEW d \in Nat, c <= d
  PROVE  m * c <= m * d
<1>1. PICK e \in Nat : d = c + e
  <2>1. d - c \in Nat /\ d = c + (d - c)
    OBVIOUS
  <2> QED BY <2>1
<1>2. m * d = m * c + m * e /\ m * e \in Nat /\ m * c \in Nat
  BY <1>1
<1> QED BY <1>2

LEMMA CountTypes ==
  ASSUME TypeOK, NEW n \in Node
  PROVE  /\ Len(queue[n]) \in Nat /\ Len(submitted[n]) \in Nat /\ Len(segments[n]) \in Nat
         /\ skipped[n] \in Nat /\ UnderWay(n) \in Nat /\ MaxSubmit[n] \in Nat
<1>1. /\ queue[n] \in Seq(CPdu) /\ submitted[n] \in Seq(1 .. MaxFragments)
      /\ segments[n] \in Seq(Data) /\ skipped[n] \in Nat
  BY DEF TypeOK
<1>2. MaxSubmit[n] \in Nat
  BY ExpeditedAssumption
<1>3. PICK len \in Nat : len = Len(segments[n])
  BY <1>1
<1>4. UnderWay(n) \in Nat
  <2>1. len + 0 \in Nat /\ len + 1 \in Nat
    OBVIOUS
  <2>2. UnderWay(n) = len + 0 \/ UnderWay(n) = len + 1
    BY <1>3 DEF UnderWay
  <2> QED BY <2>1, <2>2
<1> QED BY <1>1, <1>2, <1>4

LEMMA CountKept ==
  ASSUME NEW n \in Node, CountOK(n), queue'[n] = queue[n], submitted'[n] = submitted[n],
         segments'[n] = segments[n], current'[n] = current[n], skipped'[n] = skipped[n]
  PROVE  CountOK(n)'
BY DEF CountOK, UnderWay, Cut

LEMMA SubmitCounts ==
  ASSUME TypeOK, NEW n \in Node, Submit(n), CountOK(n)
  PROVE  CountOK(n)'
<1>1. PICK size \in 1 .. MaxFragments :
        /\ submitted' = [submitted EXCEPT ![n] = Append(submitted[n], size)]
        /\ queue' = [queue EXCEPT ![n] = Append(queue[n], [id |-> Len(submitted[n]) + 1, size |-> size])]
  BY DEF Submit
<1>2. PICK a \in Nat, b \in Nat, x \in Nat :
        /\ a = Len(submitted[n]) /\ b = Len(queue[n]) /\ x = MaxSubmit[n] /\ b <= a /\ a < x
  BY CountTypes DEF CountOK, Submit
<1>3. Len(submitted'[n]) = a + 1
  BY <1>1, <1>2 DEF TypeOK
<1>4. Len(queue'[n]) = b + 1
  BY <1>1, <1>2 DEF TypeOK
<1>5. Cut(n)' = Cut(n)
  <2>1. (a + 1) - (b + 1) = a - b
    OBVIOUS
  <2> QED BY <1>2, <1>3, <1>4, <2>1 DEF Cut
<1>6. b + 1 <= a + 1 /\ a + 1 <= x
  BY <1>2
<1>7. UnderWay(n)' = UnderWay(n) /\ skipped' = skipped
  BY DEF Submit, UnderWay
<1> QED BY <1>2, <1>3, <1>4, <1>5, <1>6, <1>7 DEF CountOK

LEMMA SendCounts ==
  ASSUME TypeOK, NEW n \in Node, TxSend(n), CountOK(n)
  PROVE  CountOK(n)'
<1>1. /\ current[n] = NoSegment
      /\ UNCHANGED <<submitted, skipped>>
  BY DEF TxSend
<1>2. CASE segments[n] # <<>>
  <2>1. /\ segments'[n] = Tail(segments[n]) /\ current'[n] = Head(segments[n]) /\ queue'[n] = queue[n]
    BY <1>2 DEF TxSend, TypeOK
  <2>2. segments[n] \in Seq(Data)
    BY DEF TypeOK
  <2>3. current'[n] # NoSegment
    BY <1>2, <2>1, <2>2, DataIsSome
  <2>4. PICK len \in Nat : len = Len(segments[n])
    BY <2>2
  <2>5. Len(segments'[n]) = len - 1
    BY <1>2, <2>1, <2>2, <2>4
  <2>6. UnderWay(n)' = UnderWay(n)
    <3>1. UnderWay(n) = len + 0
      BY <1>1, <2>4 DEF UnderWay
    <3>2. UnderWay(n)' = (len - 1) + 1
      BY <2>3, <2>5 DEF UnderWay
    <3> QED BY <3>1, <3>2
  <2>7. Cut(n)' = Cut(n)
    BY <1>1, <2>1 DEF Cut
  <2> QED BY <1>1, <2>1, <2>6, <2>7 DEF CountOK
<1>3. CASE segments[n] = <<>>
  <2>1. queue[n] \in Seq(CPdu) /\ queue[n] # <<>>
    BY <1>3 DEF TxSend, TypeOK
  <2>2. PICK c \in CPdu : c = Head(queue[n])
    BY <2>1
  <2>3. PICK ready \in Seq(Data), z \in Nat :
          ready = SegmentsOf(n, c) /\ Len(ready) = z /\ z >= 1 /\ z <= MaxFragments
    BY CutType, Sizes
  <2>4. /\ segments'[n] = Tail(ready) /\ current'[n] = Head(ready) /\ queue'[n] = Tail(queue[n])
    BY <1>3, <2>2, <2>3 DEF TxSend, TypeOK
  <2>5. current'[n] # NoSegment /\ Len(Tail(ready)) = z - 1
    <3>1. ready # <<>>
      BY <2>3
    <3>2. Head(ready) \in Data
      BY <2>3, <3>1
    <3> QED BY <2>3, <2>4, <3>1, <3>2, DataIsSome
  <2>6. UnderWay(n)' = z
    <3>1. UnderWay(n)' = (z - 1) + 1
      BY <2>4, <2>5 DEF UnderWay
    <3> QED BY <3>1
  <2>7. PICK a \in Nat, b \in Nat, k \in Nat, m \in Nat :
          a = Len(submitted[n]) /\ b = Len(queue[n]) /\ k = skipped[n] /\ b <= a /\ m = MaxFragments
    BY CountTypes, Sizes DEF CountOK
  <2>8. b > 0 /\ Len(queue'[n]) = b - 1
    BY <2>1, <2>4, <2>7
  <2>9. PICK cut \in Nat : cut = a - b
    BY <2>7, Remaining
  <2>10. Cut(n) = cut /\ Cut(n)' = cut + 1
    <3>1. a - (b - 1) = cut + 1
      BY <2>9
    <3> QED BY <1>1, <2>7, <2>8, <2>9, <3>1 DEF Cut
  <2>11. UnderWay(n) = 0
    BY <1>1, <1>3 DEF UnderWay
  <2>12. k <= m * cut
    BY <2>7, <2>10, <2>11 DEF CountOK
  <2>13. k + z <= m * (cut + 1)
    BY <2>3, <2>7, <2>12, MoreOfThem
  <2>14. b - 1 <= a
    BY <2>7
  <2> QED BY <1>1, <2>6, <2>7, <2>8, <2>10, <2>13, <2>14 DEF CountOK
<1> QED BY <1>2, <1>3

LEMMA GiveUpCounts ==
  ASSUME TypeOK, NEW n \in Node, TxGiveUp(n), CountOK(n)
  PROVE  CountOK(n)'
<1>1. PICK len \in Nat, k \in Nat : len = Len(segments[n]) /\ k = skipped[n]
  BY CountTypes
<1>2. /\ segments'[n] = <<>> /\ current'[n] = NoSegment /\ current[n] # NoSegment
      /\ skipped'[n] = k + 1 + len /\ UNCHANGED <<queue, submitted>>
  BY <1>1 DEF TxGiveUp, TypeOK
<1>3. UnderWay(n) = len + 1 /\ UnderWay(n)' = 0 + 0
  BY <1>1, <1>2 DEF UnderWay
<1>4. (k + 1 + len) + (0 + 0) = k + (len + 1)
  OBVIOUS
<1>5. Cut(n)' = Cut(n)
  BY <1>2 DEF Cut
<1> QED BY <1>1, <1>2, <1>3, <1>4, <1>5 DEF CountOK

LEMMA RxAckCounts ==
  ASSUME TypeOK, NEW n \in Node, RxAck(n), CountOK(n)
  PROVE  CountOK(n)'
<1>1. PICK len \in Nat, k \in Nat : len = Len(segments[n]) /\ k = skipped[n]
  BY CountTypes
<1>2. /\ current'[n] = NoSegment /\ current[n] # NoSegment
      /\ skipped'[n] = 0 /\ UNCHANGED <<queue, submitted, segments>>
  BY <1>1 DEF RxAck, Answers, TypeOK
<1>3. UnderWay(n) = len + 1 /\ UnderWay(n)' = len + 0
  BY <1>1, <1>2 DEF UnderWay
<1>4. PICK x \in Int : x = MaxFragments * Cut(n)
  <2>1. PICK a \in Nat, b \in Nat : a = Len(submitted[n]) /\ b = Len(queue[n])
    BY CountTypes
  <2>2. PICK c \in Int : c = a - b
    OBVIOUS
  <2>3. PICK m \in Int : m = MaxFragments
    BY Sizes
  <2>4. m * c \in Int
    OBVIOUS
  <2> QED BY <2>1, <2>2, <2>3, <2>4 DEF Cut
<1>5. 0 + (len + 0) <= x
  BY <1>1, <1>3, <1>4 DEF CountOK
<1>6. Cut(n)' = Cut(n)
  BY <1>2 DEF Cut
<1> QED BY <1>2, <1>3, <1>4, <1>5, <1>6 DEF CountOK

LEMMA InitCounts == ASSUME Init, NEW n \in Node PROVE CountOK(n)
<1>1. /\ queue[n] = <<>> /\ submitted[n] = <<>> /\ segments[n] = <<>> /\ current[n] = NoSegment
      /\ skipped[n] = 0
  BY DEF Init
<1>2. Cut(n) = 0 /\ UnderWay(n) = 0
  BY <1>1 DEF Cut, UnderWay
<1>3. MaxSubmit[n] >= 0 /\ MaxFragments * 0 = 0
  BY ExpeditedAssumption
<1> QED BY <1>1, <1>2, <1>3 DEF CountOK

LEMMA CountStep ==
  ASSUME TypeOK, \A n \in Node : CountOK(n), [Next]_vars, NEW m \in Node
  PROVE  CountOK(m)'
<1>1. CASE UNCHANGED vars
  BY <1>1, CountKept DEF vars, txVars
<1>2. ASSUME NEW n \in Node, n # m,
             \/ Submit(n) \/ TxSend(n) \/ TxGiveUp(n) \/ RxAck(n)
      PROVE  CountOK(m)'
  <2>1. /\ queue'[m] = queue[m] /\ submitted'[m] = submitted[m] /\ segments'[m] = segments[m]
        /\ current'[m] = current[m] /\ skipped'[m] = skipped[m]
    <3>1. CASE Submit(n)
      BY <1>2, <3>1 DEF Submit, TypeOK
    <3>2. CASE TxSend(n)
      BY <1>2, <3>2 DEF TxSend, TypeOK
    <3>3. CASE TxGiveUp(n)
      BY <1>2, <3>3 DEF TxGiveUp, TypeOK
    <3>4. CASE RxAck(n)
      BY <1>2, <3>4 DEF RxAck, TypeOK
    <3> QED BY <1>2, <3>1, <3>2, <3>3, <3>4
  <2> QED BY <2>1, CountKept
<1>3. ASSUME NEW n \in Node,
             \/ RxManagement(n) \/ TxRetransmit(n) \/ TxAck(n) \/ TxNothing(n)
             \/ RxOrphan(n) \/ RxSegment(n) \/ RxDamaged(n) \/ RxAckLate(n) \/ Lose(n)
      PROVE  CountOK(m)'
  <2>1. UNCHANGED <<queue, submitted, segments, current, skipped>>
    BY <1>3 DEF RxManagement, TxRetransmit, TxAck, TxNothing, RxOrphan, RxSegment, RxDamaged,
                RxAckLate, Lose, txVars
  <2> QED BY <2>1, CountKept
<1>4. ASSUME NEW n \in Node,
             \/ Submit(n) \/ RxManagement(n)
             \/ TxSend(n) \/ TxRetransmit(n) \/ TxGiveUp(n) \/ TxAck(n) \/ TxNothing(n)
             \/ ProcessRx(n) \/ Lose(n)
      PROVE  CountOK(m)'
  BY <1>2, <1>3, <1>4, SubmitCounts, SendCounts, GiveUpCounts, RxAckCounts DEF ProcessRx
<1> QED BY <1>1, <1>4 DEF Next

(* A session of few segments meets the hypothesis of the theorems above:   *)
(* segments are skipped only after they were cut (_process_tx_single).     *)
THEOREM NumbersSufficeForFew == ASSUME FewSegments PROVE Spec => []NumbersSuffice
<1> DEFINE Counts == \A n \in Node : CountOK(n)
<1>1. TypeOK /\ Counts => NumbersSuffice
  <2>1. SUFFICES ASSUME TypeOK, Counts, NEW n \in Node PROVE skipped[n] + 1 < SeqMod
    BY DEF NumbersSuffice
  <2>2. PICK a \in Nat, b \in Nat, k \in Nat, w \in Nat, x \in Nat, m \in Nat, s \in Nat :
          /\ a = Len(submitted[n]) /\ b = Len(queue[n]) /\ k = skipped[n] /\ w = UnderWay(n)
          /\ x = MaxSubmit[n] /\ m = MaxFragments /\ s = SeqMod
    BY <2>1, CountTypes, Sizes
  <2>3. b <= a /\ a <= x /\ k + w <= m * (a - b)
    BY <2>1, <2>2 DEF CountOK, Cut
  <2>4. PICK cut \in Nat : cut = a - b /\ cut <= x
    BY <2>3
  <2>5. k <= m * cut /\ m * cut <= m * x
    <3>1. m * cut <= m * x
      BY <2>4, MoreIsMore
    <3>2. k + w <= m * cut
      BY <2>3, <2>4
    <3>3. PICK y \in Nat : y = m * cut
      BY MoreOfThem
    <3> QED BY <3>1, <3>2, <3>3
  <2>6. m * x + 1 < s
    BY <2>2 DEF FewSegments
  <2>7. k + 1 < s
    <3>1. PICK y \in Nat, v \in Nat : y = m * cut /\ v = m * x
      BY MoreOfThem
    <3> QED BY <2>5, <2>6, <3>1
  <2> QED BY <2>2, <2>7
<1>2. Init => Counts
  BY InitCounts
<1>3. TypeOK /\ Counts /\ [Next]_vars => Counts'
  BY CountStep
<1> HIDE DEF Counts
<1> QED BY <1>1, <1>2, <1>3, TypeCorrect, PTL DEF Spec
=============================================================================
