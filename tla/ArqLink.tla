------------------------------- MODULE ArqLink -------------------------------
(***************************************************************************)
(* Two selective-repeat engines (arq.py, ArqEngine) joined by a radio link *)
(* that loses frames and damages payloads but keeps their order.           *)
(*                                                                         *)
(* A C_PDU is cut into fragments; all the fragments of ONE C_PDU are the   *)
(* transmit window, and the next C_PDU is cut only when every one of them  *)
(* has been acknowledged.  Fragment k of n carries PDU_START when k = 1    *)
(* and PDU_END when k = n.  Time is left out: a timer that may have run    *)
(* out is an alternative of the transmit handler.  (All unacknowledged     *)
(* frames of a window were sent in the same burst, so they expire          *)
(* together.)                                                              *)
(*                                                                         *)
(* chan[n] holds the frames travelling to n.  pendingTx[n] is the node's   *)
(* queue of reset frames (stanag_node.py, _arq_pending_tx), which goes     *)
(* before anything the engine has to send.                                 *)
(***************************************************************************)
EXTENDS ArqSeq, Sequences, FiniteSets

CONSTANTS A, B,         \* the two nodes
          Callers,      \* the nodes that open the link with a FULL RESET
          MaxRetries,   \* max_retries
          ResetReps,    \* copies sent of a FULL RESET (RESET_REPETITIONS)
          ByteBits,     \* bits to a byte of the selective acknowledgement
          CrcErrors,    \* whether the link damages payloads
          MaxFragments, \* bound: fragments of a C_PDU
          MaxSubmit,    \* bound: C_PDUs each node is given
          MaxChan       \* bound: frames travelling to a node

Node == {A, B}
Peer(n) == IF n = A THEN B ELSE A

ASSUME LinkAssumption ==
  /\ A # B
  /\ Callers \subseteq Node
  /\ MaxRetries \in Nat
  /\ ResetReps \in Nat \ {0}
  /\ ByteBits \in Nat \ {0}
  /\ CrcErrors \in BOOLEAN
  /\ MaxFragments \in 1 .. Window
  /\ MaxSubmit \in [Node -> Nat]
  /\ MaxChan \in Nat

VARIABLES
  txQueue,    \* C_PDUs accepted and not yet acknowledged; the head is in progress
  txState,    \* "IDLE" or "WAIT_ACK": the states _process_tx_single rests in
  txLwe, txCount, nextSeq,
  txWindow,   \* the slot dictionary _tx_window
  rxLwe, deliverLwe, rxWindow,
  ackDirty,   \* an acknowledgement is due
  resetPending, resetFrameId,
  pendingTx,
  chan,
  submitted,  \* history: the fragment count of every C_PDU submitted at a node
  delivered,  \* history: the C_PDUs a node handed to its upper layer
  confirmed,  \* history: the C_PDUs a node dropped as acknowledged
  failed      \* history: a node has reported the link as failed

txVars == <<txQueue, txState, txLwe, txCount, nextSeq, txWindow>>
rxVars == <<rxLwe, deliverLwe, rxWindow>>
resetVars == <<resetPending, resetFrameId>>
history == <<submitted, delivered, confirmed, failed>>
vars == <<txVars, rxVars, ackDirty, resetVars, pendingTx, chan, history>>
-----------------------------------------------------------------------------
CPdu == [id : Nat, size : 1 .. MaxFragments]
Fragment == [id : Nat, part : 1 .. MaxFragments, size : 1 .. MaxFragments]
NoFragment == [id |-> 0, part |-> 0, size |-> 0]

TxSlot == [status : {"ACKED", "NACKED", "SENT_WAIT_ACK"}, seq : Seqs,
           fragment : Fragment, retx : 0 .. MaxRetries]
NoTxSlot == [status |-> "NONE", seq |-> 0, fragment |-> NoFragment, retx |-> 0]

RxSlot == [status : {"RECEIVED"}, seq : Seqs, fragment : Fragment]
          \cup [status : {"ERROR"}, seq : Seqs, fragment : {NoFragment}]
EmptyRxSlot == [status |-> "EMPTY", seq |-> 0, fragment |-> NoFragment]

Bits == 1 .. (Window + ByteBits)
Frame == [type : {"DATA"}, seq : Seqs, fragment : Fragment]
         \cup [type : {"ACK"}, rxLwe : Seqs, bits : SUBSET Bits, acked : SUBSET Bits]
         \cup [type : {"RESET", "RESET_ACK"}, frameId : 0 .. 255]

Starts(f) == f.part = 1
Ends(f) == f.part = f.size
Fragments(c) == [k \in 1 .. c.size |-> [id |-> c.id, part |-> k, size |-> c.size]]

\* The elements of a finite set of numbers, in increasing order.
InOrder(S) == {f \in [1 .. Cardinality(S) -> S] :
                 \A i, j \in DOMAIN f : i < j => f[i] < f[j]}

TypeOK ==
  /\ txQueue \in [Node -> Seq(CPdu)]
  /\ txState \in [Node -> {"IDLE", "WAIT_ACK"}]
  /\ txLwe \in [Node -> Seqs]
  /\ txCount \in [Node -> 0 .. MaxFragments]
  /\ nextSeq \in [Node -> Seqs]
  /\ txWindow \in [Node -> [Slots -> TxSlot \cup {NoTxSlot}]]
  /\ rxLwe \in [Node -> Seqs]
  /\ deliverLwe \in [Node -> Seqs]
  /\ rxWindow \in [Node -> [Slots -> RxSlot \cup {EmptyRxSlot}]]
  /\ ackDirty \in [Node -> BOOLEAN]
  /\ resetPending \in [Node -> BOOLEAN]
  /\ resetFrameId \in [Node -> 0 .. 255]
  /\ pendingTx \in [Node -> Seq(Frame)]
  /\ chan \in [Node -> Seq(Frame)]
  /\ submitted \in [Node -> Seq(1 .. MaxFragments)]
  /\ delivered \in [Node -> Seq(Seq(Fragment))]
  /\ confirmed \in [Node -> SUBSET Nat]
  /\ failed \in [Node -> BOOLEAN]
-----------------------------------------------------------------------------
ResetFrame(id) == [type |-> "RESET", frameId |-> id]

(* A link has just been made.  Both engines are fresh (reset_full), and a  *)
(* caller has queued the first FULL RESET (start_full_reset).              *)
Init ==
  /\ txQueue = [n \in Node |-> <<>>]
  /\ txState = [n \in Node |-> "IDLE"]
  /\ txLwe = [n \in Node |-> 0]
  /\ txCount = [n \in Node |-> 0]
  /\ nextSeq = [n \in Node |-> 0]
  /\ txWindow = [n \in Node |-> [i \in Slots |-> NoTxSlot]]
  /\ rxLwe = [n \in Node |-> 0]
  /\ deliverLwe = [n \in Node |-> 0]
  /\ rxWindow = [n \in Node |-> [i \in Slots |-> EmptyRxSlot]]
  /\ ackDirty = [n \in Node |-> FALSE]
  /\ resetPending = [n \in Node |-> n \in Callers]
  /\ resetFrameId = [n \in Node |-> IF n \in Callers THEN 1 ELSE 0]
  /\ pendingTx = [n \in Node |-> IF n \in Callers THEN <<ResetFrame(1)>> ELSE <<>>]
  /\ chan = [n \in Node |-> <<>>]
  /\ submitted = [n \in Node |-> <<>>]
  /\ delivered = [n \in Node |-> <<>>]
  /\ confirmed = [n \in Node |-> {}]
  /\ failed = [n \in Node |-> FALSE]

(* _reset_windows, and reset_full, which also empties the queue.           *)
ResetWindows(n) ==
  /\ txState' = [txState EXCEPT ![n] = "IDLE"]
  /\ txLwe' = [txLwe EXCEPT ![n] = 0]
  /\ txCount' = [txCount EXCEPT ![n] = 0]
  /\ nextSeq' = [nextSeq EXCEPT ![n] = 0]
  /\ txWindow' = [txWindow EXCEPT ![n] = [i \in Slots |-> NoTxSlot]]
  /\ rxLwe' = [rxLwe EXCEPT ![n] = 0]
  /\ deliverLwe' = [deliverLwe EXCEPT ![n] = 0]
  /\ rxWindow' = [rxWindow EXCEPT ![n] = [i \in Slots |-> EmptyRxSlot]]
  /\ ackDirty' = [ackDirty EXCEPT ![n] = FALSE]
  /\ resetPending' = [resetPending EXCEPT ![n] = FALSE]

ResetFull(n) ==
  /\ txQueue' = [txQueue EXCEPT ![n] = <<>>]
  /\ ResetWindows(n)
-----------------------------------------------------------------------------
(* The upper layer submits a C_PDU.                                        *)
Submit(n) ==
  /\ Len(submitted[n]) < MaxSubmit[n]
  /\ \E size \in 1 .. MaxFragments :
       /\ submitted' = [submitted EXCEPT ![n] = Append(@, size)]
       /\ txQueue' = [txQueue EXCEPT
                        ![n] = Append(@, [id |-> Len(submitted[n]) + 1, size |-> size])]
  /\ UNCHANGED <<txState, txLwe, txCount, nextSeq, txWindow, rxVars, ackDirty,
                 resetVars, pendingTx, chan, delivered, confirmed, failed>>
-----------------------------------------------------------------------------
(* Transmission: process_tx.  An acknowledgement that is due leads the     *)
(* burst; what follows depends on the state.                               *)

Holds(n, q) == rxWindow[n][Slot(q)].seq = q
\* Mutant of Received: the slot may hold another number.
ReceivedAny(w, q) == w[Slot(q)].status = "RECEIVED"
Received(w, q) == w[Slot(q)].status = "RECEIVED" /\ w[Slot(q)].seq = q

(* The numbers beyond the receive edge that the window knows about, as     *)
(* offsets from the edge; the bitmap runs to the last one and is filled up *)
(* to whole bytes with zeros.                                              *)
Known(n) == {k \in 1 .. Window : LET q == SeqAdd(rxLwe[n], k)
                                 IN Holds(n, q) /\ rxWindow[n][Slot(q)].status # "EMPTY"}
PadToByte(k) == k + ((-k) % ByteBits)

AckFrame(n) ==
  [type  |-> "ACK",
   rxLwe |-> rxLwe[n],
   bits  |-> UNION {1 .. PadToByte(k) : k \in Known(n)},
   acked |-> {k \in Known(n) : Received(rxWindow[n], SeqAdd(rxLwe[n], k))}]

DataFrame(q, fragment) == [type |-> "DATA", seq |-> q, fragment |-> fragment]

(* Sends the acknowledgement that is due and the frames of a burst.        *)
Transmit(n, burst) ==
  LET out == (IF ackDirty[n] THEN <<AckFrame(n)>> ELSE <<>>) \o burst
  IN  /\ Len(chan[Peer(n)]) + Len(out) <= MaxChan
      /\ chan' = [chan EXCEPT ![Peer(n)] = @ \o out]

(* SEGMENT and SEND: all fragments of the C_PDU c are given slots, from    *)
(* number `first' on, and sent.                                            *)
Start(n, c, first) ==
  /\ txState' = [txState EXCEPT ![n] = "WAIT_ACK"]
  /\ txCount' = [txCount EXCEPT ![n] = c.size]
  /\ txWindow' = [txWindow EXCEPT ![n] = [i \in Slots |->
       LET k == ((i - first) % Window) + 1
       IN  IF k <= c.size
           THEN [status |-> "SENT_WAIT_ACK", seq |-> SeqAdd(first, k - 1),
                 fragment |-> Fragments(c)[k], retx |-> 0]
           ELSE @[i]]]
  /\ Transmit(n, [k \in 1 .. c.size |-> DataFrame(SeqAdd(first, k - 1), Fragments(c)[k])])

\* The node's own queue of reset frames is empty: the engine may transmit.
MayTransmit(n) == pendingTx[n] = <<>>

TxStatus(n, k) == txWindow[n][Slot(SeqAdd(txLwe[n], k))].status
\* Offsets of the window's frames that have a given status.
WithStatus(n, status) == {k \in 0 .. (txCount[n] - 1) : TxStatus(n, k) = status}

\* Mutant of TxSend: data does not wait for the reset to be answered.
TxSendEarly(n) ==
  /\ MayTransmit(n)
  /\ txState[n] = "IDLE" /\ txQueue[n] # <<>>
  /\ Start(n, Head(txQueue[n]), nextSeq[n])
  /\ ackDirty' = [ackDirty EXCEPT ![n] = FALSE]
  /\ UNCHANGED <<txQueue, txLwe, nextSeq, rxVars, resetVars, pendingTx, history>>

(* The head of the queue is cut and sent.                                  *)
TxSend(n) ==
  /\ MayTransmit(n) /\ ~resetPending[n]
  /\ txState[n] = "IDLE" /\ txQueue[n] # <<>>
  /\ Start(n, Head(txQueue[n]), nextSeq[n])
  /\ ackDirty' = [ackDirty EXCEPT ![n] = FALSE]
  /\ UNCHANGED <<txQueue, txLwe, nextSeq, rxVars, resetVars, pendingTx, history>>

(* Every frame of the window is acknowledged: the C_PDU leaves the queue   *)
(* and the next one, if any, is sent in the same burst.                    *)
TxConfirm(n) ==
  /\ MayTransmit(n) /\ ~resetPending[n]
  /\ txState[n] = "WAIT_ACK"
  /\ WithStatus(n, "ACKED") = 0 .. (txCount[n] - 1)
  /\ LET first == SeqAdd(txLwe[n], txCount[n])
     IN  /\ txLwe' = [txLwe EXCEPT ![n] = first]
         /\ nextSeq' = [nextSeq EXCEPT ![n] = first]
         /\ IF Tail(txQueue[n]) # <<>>
            THEN Start(n, Head(Tail(txQueue[n])), first)
            ELSE /\ txState' = [txState EXCEPT ![n] = "IDLE"]
                 /\ txCount' = [txCount EXCEPT ![n] = 0]
                 /\ txWindow' = [txWindow EXCEPT ![n] = [i \in Slots |->
                      IF \E k \in 0 .. (txCount[n] - 1) : i = Slot(SeqAdd(txLwe[n], k))
                      THEN NoTxSlot ELSE @[i]]]
                 /\ Transmit(n, <<>>)
  /\ txQueue' = [txQueue EXCEPT ![n] = Tail(@)]
  /\ confirmed' = [confirmed EXCEPT ![n] = @ \cup {Head(txQueue[n]).id}]
  /\ ackDirty' = [ackDirty EXCEPT ![n] = FALSE]
  /\ UNCHANGED <<rxVars, resetVars, pendingTx, submitted, delivered, failed>>

\* Mutant of TxTimeout: the timer serves only a window with no answer at all.
TxTimeoutUnanswered(n) ==
  /\ MayTransmit(n) /\ ~resetPending[n]
  /\ txState[n] = "WAIT_ACK"
  /\ WithStatus(n, "SENT_WAIT_ACK") = 0 .. (txCount[n] - 1)
  /\ WithStatus(n, "SENT_WAIT_ACK") # {}
  /\ txWindow' = [txWindow EXCEPT ![n] = [i \in Slots |->
       IF \E k \in WithStatus(n, "SENT_WAIT_ACK") : i = Slot(SeqAdd(txLwe[n], k))
       THEN [@[i] EXCEPT !.status = "NACKED"] ELSE @[i]]]
  /\ Transmit(n, <<>>)
  /\ ackDirty' = [ackDirty EXCEPT ![n] = FALSE]
  /\ UNCHANGED <<txQueue, txState, txLwe, txCount, nextSeq, rxVars, resetVars,
                 pendingTx, history>>

(* The retransmission timer of the outstanding frames has run out: they    *)
(* count as not acknowledged, and are sent again by the next call.         *)
TxTimeout(n) ==
  /\ MayTransmit(n) /\ ~resetPending[n]
  /\ txState[n] = "WAIT_ACK"
  /\ WithStatus(n, "SENT_WAIT_ACK") # {}
  /\ txWindow' = [txWindow EXCEPT ![n] = [i \in Slots |->
       IF \E k \in WithStatus(n, "SENT_WAIT_ACK") : i = Slot(SeqAdd(txLwe[n], k))
       THEN [@[i] EXCEPT !.status = "NACKED"] ELSE @[i]]]
  /\ Transmit(n, <<>>)
  /\ ackDirty' = [ackDirty EXCEPT ![n] = FALSE]
  /\ UNCHANGED <<txQueue, txState, txLwe, txCount, nextSeq, rxVars, resetVars,
                 pendingTx, history>>

\* The frames RETRANSMIT has to send, and those of them at the retry limit.
MustRetransmit(n) ==
  IF WithStatus(n, "SENT_WAIT_ACK") = {} THEN WithStatus(n, "NACKED") ELSE {}
\* Mutant of Exhausted: one retry too many.
ExhaustedLate(n) ==
  {k \in MustRetransmit(n) : txWindow[n][Slot(SeqAdd(txLwe[n], k))].retx > MaxRetries}
Exhausted(n) ==
  {k \in MustRetransmit(n) : txWindow[n][Slot(SeqAdd(txLwe[n], k))].retx >= MaxRetries}

\* The frames at the offsets f[1], f[2], ... of the window.
Resend(n, f) ==
  [i \in DOMAIN f |->
     LET q == SeqAdd(txLwe[n], f[i]) IN DataFrame(q, txWindow[n][Slot(q)].fragment)]

(* No answer is outstanding and some frames are not acknowledged: they are *)
(* sent again.                                                             *)
TxRetransmit(n) ==
  /\ MayTransmit(n) /\ ~resetPending[n]
  /\ txState[n] = "WAIT_ACK"
  /\ MustRetransmit(n) # {} /\ Exhausted(n) = {}
  /\ txWindow' = [txWindow EXCEPT ![n] = [i \in Slots |->
       IF \E k \in MustRetransmit(n) : i = Slot(SeqAdd(txLwe[n], k))
       THEN [@[i] EXCEPT !.status = "SENT_WAIT_ACK", !.retx = txWindow[n][i].retx + 1]
       ELSE @[i]]]
  /\ \E f \in InOrder(MustRetransmit(n)) : Transmit(n, Resend(n, f))
  /\ ackDirty' = [ackDirty EXCEPT ![n] = FALSE]
  /\ UNCHANGED <<txQueue, txState, txLwe, txCount, nextSeq, rxVars, resetVars,
                 pendingTx, history>>

(* A frame is at its retry limit: the frames before it are still sent, the *)
(* failure is reported and the engine is reset, its queue included.        *)
TxGiveUp(n) ==
  /\ MayTransmit(n) /\ ~resetPending[n]
  /\ txState[n] = "WAIT_ACK"
  /\ \E limit \in Exhausted(n) :
       /\ \A k \in Exhausted(n) : limit <= k
       /\ \E f \in InOrder({k \in MustRetransmit(n) : k < limit}) : Transmit(n, Resend(n, f))
  /\ ResetFull(n)
  /\ failed' = [failed EXCEPT ![n] = TRUE]
  /\ UNCHANGED <<resetFrameId, pendingTx, submitted, delivered, confirmed>>

(* Nothing but an acknowledgement to send.                                 *)
TxAck(n) ==
  /\ MayTransmit(n) /\ ackDirty[n]
  /\ \/ resetPending[n]
     \/ txState[n] = "IDLE" /\ txQueue[n] = <<>>
     \/ txState[n] = "WAIT_ACK" /\ WithStatus(n, "SENT_WAIT_ACK") # {}
  /\ Transmit(n, <<>>)
  /\ ackDirty' = [ackDirty EXCEPT ![n] = FALSE]
  /\ UNCHANGED <<txVars, rxVars, resetVars, pendingTx, history>>

\* Mutant of TxReset: the command is repeated only when data waits behind it.
TxResetForData(n) ==
  /\ MayTransmit(n) /\ resetPending[n] /\ txQueue[n] # <<>>
  /\ Transmit(n, [i \in 1 .. ResetReps |-> ResetFrame(resetFrameId[n])])
  /\ ackDirty' = [ackDirty EXCEPT ![n] = FALSE]
  /\ UNCHANGED <<txVars, rxVars, resetVars, pendingTx, history>>

(* The reset timer has run out: the FULL RESET is sent again.              *)
TxReset(n) ==
  /\ MayTransmit(n) /\ resetPending[n]
  /\ Transmit(n, [i \in 1 .. ResetReps |-> ResetFrame(resetFrameId[n])])
  /\ ackDirty' = [ackDirty EXCEPT ![n] = FALSE]
  /\ UNCHANGED <<txVars, rxVars, resetVars, pendingTx, history>>

(* The node sends the oldest of its own reset frames.                      *)
TxPending(n) ==
  /\ pendingTx[n] # <<>>
  /\ Len(chan[Peer(n)]) < MaxChan
  /\ chan' = [chan EXCEPT ![Peer(n)] = Append(@, Head(pendingTx[n]))]
  /\ pendingTx' = [pendingTx EXCEPT ![n] = Tail(@)]
  /\ UNCHANGED <<txVars, rxVars, ackDirty, resetVars, history>>
-----------------------------------------------------------------------------
(* Reception: process_rx_dpdu and process_rx_reset.                        *)

Arrived(n, type) == chan[n] # <<>> /\ Head(chan[n]).type = type
Take(n) == chan' = [chan EXCEPT ![n] = Tail(@)]

(* Radio noise: a frame is lost on the air, or its header is unreadable.   *)
Lose(n) ==
  /\ chan[n] # <<>>
  /\ Take(n)
  /\ UNCHANGED <<txVars, rxVars, ackDirty, resetVars, pendingTx, history>>

(* A fragment outside the receive window is only acknowledged again.       *)
RxOutside(n) ==
  /\ Arrived(n, "DATA")
  /\ ~InWindow(Head(chan[n]).seq, rxLwe[n], Window)
  /\ Take(n)
  /\ ackDirty' = [ackDirty EXCEPT ![n] = TRUE]
  /\ UNCHANGED <<txVars, rxVars, resetVars, pendingTx, history>>

(* A fragment whose payload is damaged marks its slot, whatever the slot   *)
(* held before.                                                            *)
RxDamaged(n) ==
  /\ CrcErrors
  /\ Arrived(n, "DATA")
  /\ LET q == Head(chan[n]).seq
     IN  /\ InWindow(q, rxLwe[n], Window)
         /\ rxWindow' = [rxWindow EXCEPT
              ![n][Slot(q)] = [status |-> "ERROR", seq |-> q, fragment |-> NoFragment]]
  /\ Take(n)
  /\ ackDirty' = [ackDirty EXCEPT ![n] = TRUE]
  /\ UNCHANGED <<txVars, rxLwe, deliverLwe, resetVars, pendingTx, history>>

\* The k numbers from `edge' on have been received, the next one has not.
IsRun(w, edge, k) ==
  /\ \A j \in 0 .. (k - 1) : Received(w, SeqAdd(edge, j))
  /\ k = Window \/ ~Received(w, SeqAdd(edge, k))

(* The slots i .. j after `from' hold one whole C_PDU.  (_try_deliver looks *)
(* for the first PDU_END, walks back to the nearest PDU_START, delivers,   *)
(* and starts over behind it: C_PDUs come out in the order of their ends.) *)
Whole(w, from, i, j) ==
  /\ \A k \in i .. j : Received(w, SeqAdd(from, k))
  /\ \A k \in i .. j : Starts(w[Slot(SeqAdd(from, k))].fragment) <=> k = i
  /\ \A k \in i .. j : Ends(w[Slot(SeqAdd(from, k))].fragment) <=> k = j

\* Mutant of CompleteAt: the search stops one number short of the edge.
CompleteAtShort(w, from, count) ==
  {j \in 0 .. (count - 2) : \E i \in 0 .. j : Whole(w, from, i, j)}
CompleteAt(w, from, count) ==
  {j \in 0 .. (count - 1) : \E i \in 0 .. j : Whole(w, from, i, j)}
FirstOf(w, from, j) == CHOOSE i \in 0 .. j : Whole(w, from, i, j)
Reassembled(w, from, j) ==
  LET i == FirstOf(w, from, j)
  IN  [k \in 1 .. (j - i + 1) |-> w[Slot(SeqAdd(from, i + k - 1))].fragment]

(* An intact fragment is stored, the receive edge moves over the numbers   *)
(* received without a gap, and every C_PDU completed by that is delivered. *)
RxData(n) ==
  /\ Arrived(n, "DATA")
  /\ LET f == Head(chan[n])
         w == [rxWindow[n] EXCEPT
                 ![Slot(f.seq)] = [status |-> "RECEIVED", seq |-> f.seq, fragment |-> f.fragment]]
         from == deliverLwe[n]
     IN  /\ InWindow(f.seq, rxLwe[n], Window)
         /\ \E run \in 0 .. Window :
              LET edge == SeqAdd(rxLwe[n], run)
                  complete == CompleteAt(w, from, SeqDist(from, edge))
              IN  /\ IsRun(w, rxLwe[n], run)
                  /\ rxLwe' = [rxLwe EXCEPT ![n] = edge]
                  /\ \E order \in InOrder(complete) :
                       /\ delivered' = [delivered EXCEPT ![n] =
                            @ \o [k \in DOMAIN order |-> Reassembled(w, from, order[k])]]
                       /\ deliverLwe' = [deliverLwe EXCEPT ![n] =
                            IF order = <<>> THEN @ ELSE SeqAdd(from, order[Len(order)] + 1)]
                  /\ rxWindow' = [rxWindow EXCEPT ![n] = [s \in Slots |->
                       IF \E j \in complete : \E k \in FirstOf(w, from, j) .. j :
                            s = Slot(SeqAdd(from, k))
                       THEN EmptyRxSlot ELSE w[s]]]
  /\ Take(n)
  /\ ackDirty' = [ackDirty EXCEPT ![n] = TRUE]
  /\ UNCHANGED <<txVars, resetVars, pendingTx, submitted, confirmed, failed>>

(* The bitmap is read from its start as far as it stays in the transmit    *)
(* window; then everything before the peer's edge counts as acknowledged.  *)
IsRead(n, f, k) ==
  \A j \in 1 .. k : j \in f.bits /\ InWindow(SeqAdd(f.rxLwe, j), txLwe[n], txCount[n])

\* Mutant of AckedStatus: the peer's edge itself counts as acknowledged.
AckedStatusPast(n, f, slot) ==
  LET advance == SeqDist(txLwe[n], f.rxLwe)
      k == SeqDist(f.rxLwe, slot.seq)
  IN  IF advance <= txCount[n] /\ SeqDist(txLwe[n], slot.seq) <= advance THEN "ACKED"
      ELSE IF k = 0 \/ ~IsRead(n, f, k) THEN slot.status
      ELSE IF k \in f.acked THEN "ACKED" ELSE "NACKED"

AckedStatus(n, f, slot) ==
  LET advance == SeqDist(txLwe[n], f.rxLwe)
      k == SeqDist(f.rxLwe, slot.seq)
  IN  IF advance <= txCount[n] /\ SeqDist(txLwe[n], slot.seq) < advance THEN "ACKED"
      ELSE IF k = 0 \/ ~IsRead(n, f, k) THEN slot.status
      ELSE IF k \in f.acked THEN "ACKED" ELSE "NACKED"

RxAck(n) ==
  /\ Arrived(n, "ACK")
  /\ LET f == Head(chan[n])
         advance == SeqDist(txLwe[n], f.rxLwe)
     IN  /\ txWindow' = [txWindow EXCEPT ![n] = [i \in Slots |->
              IF @[i] = NoTxSlot THEN NoTxSlot
              ELSE [@[i] EXCEPT !.status = AckedStatus(n, f, txWindow[n][i])]]]
         /\ IF advance <= txCount[n]
            THEN /\ txLwe' = [txLwe EXCEPT ![n] = f.rxLwe]
                 /\ txCount' = [txCount EXCEPT ![n] = @ - advance]
            ELSE UNCHANGED <<txLwe, txCount>>
  /\ Take(n)
  /\ UNCHANGED <<txQueue, txState, nextSeq, rxVars, ackDirty, resetVars, pendingTx, history>>

(* A FULL RESET empties the engine and is answered through pendingTx.      *)
RxReset(n) ==
  /\ Arrived(n, "RESET")
  /\ Len(pendingTx[n]) < MaxChan
  /\ ResetFull(n)
  /\ pendingTx' = [pendingTx EXCEPT ![n] =
       Append(@, [type |-> "RESET_ACK", frameId |-> Head(chan[n]).frameId])]
  /\ Take(n)
  /\ UNCHANGED <<resetFrameId, history>>

(* The answer to the reset under way clears the windows; any other answer  *)
(* is ignored.                                                             *)
RxResetAck(n) ==
  /\ Arrived(n, "RESET_ACK")
  /\ IF resetPending[n] /\ Head(chan[n]).frameId = resetFrameId[n]
     THEN ResetWindows(n)
     ELSE UNCHANGED <<txState, txLwe, txCount, nextSeq, txWindow, rxVars, ackDirty, resetPending>>
  /\ Take(n)
  /\ UNCHANGED <<txQueue, resetFrameId, pendingTx, history>>
-----------------------------------------------------------------------------
ProcessTx(n) == \/ TxSend(n) \/ TxConfirm(n) \/ TxTimeout(n) \/ TxRetransmit(n)
                \/ TxGiveUp(n) \/ TxAck(n) \/ TxReset(n) \/ TxPending(n)
ProcessRx(n) == \/ RxOutside(n) \/ RxDamaged(n) \/ RxData(n) \/ RxAck(n)
                \/ RxReset(n) \/ RxResetAck(n)

Next == \E n \in Node : Submit(n) \/ ProcessTx(n) \/ ProcessRx(n) \/ Lose(n)

Spec == Init /\ [][Next]_vars
-----------------------------------------------------------------------------
(* A C_PDU of n as the peer must receive it: all its fragments, in order.  *)
Payload(n, id) == Fragments([id |-> id, size |-> submitted[n][id]])

\* Neither node has reported the link as failed.
LinkUp == \A n \in Node : ~failed[n]

(* As long as the link has not failed, a node has been handed the C_PDUs   *)
(* its peer submitted, whole, in order, each once and with nothing left    *)
(* out (_try_deliver, _deliver_rx_cpdu).                                   *)
InOrderExactlyOnce ==
  LinkUp => \A n \in Node :
    LET got == delivered[Peer(n)]
    IN  /\ Len(got) <= Len(submitted[n])
        /\ \A i \in 1 .. Len(got) : got[i] = Payload(n, i)

(* A C_PDU that a node drops as acknowledged has reached the upper layer   *)
(* of its peer (TxConfirm against RxData).                                 *)
AckMeansDelivered ==
  LinkUp => \A n \in Node : \A id \in confirmed[n] :
    \E i \in 1 .. Len(delivered[Peer(n)]) : delivered[Peer(n)][i] = Payload(n, id)

(* The two edges of a direction stay in step: the sender has not passed    *)
(* the receiver, and the receiver expects nothing the sender has not       *)
(* numbered yet (the synchronisation tests of Annex C, equations 2 and 4). *)
WindowsInStep ==
  LinkUp => \A n \in Node : SeqDist(txLwe[n], rxLwe[Peer(n)]) <= txCount[n]

(* A frame the sender holds for acknowledged is in the receiver's hands:   *)
(* delivered, or stored until its C_PDU is complete (_parse_selective_ack  *)
(* against _build_selective_ack_bitmap).                                   *)
AckedIsHeld ==
  LinkUp => \A n \in Node : \A k \in WithStatus(n, "ACKED") :
    LET q == SeqAdd(txLwe[n], k)
    IN  \/ k < SeqDist(txLwe[n], rxLwe[Peer(n)])
        \/ Received(rxWindow[Peer(n)], q)

(* A fragment once stored leaves its slot only for delivery.               *)
StoredIsKept ==
  [][\A n \in Node : \A s \in Slots :
       rxWindow[n][s].status = "RECEIVED" /\ LinkUp' =>
         rxWindow'[n][s] = rxWindow[n][s] \/ delivered'[n] # delivered[n]]_vars

(* What is delivered is one C_PDU of the peer and all of it, whatever      *)
(* happened before (_try_deliver: "a complete C_PDU").                     *)
DeliveredIsWhole ==
  \A n \in Node : \A i \in 1 .. Len(delivered[Peer(n)]) :
    \E id \in 1 .. Len(submitted[n]) : delivered[Peer(n)][i] = Payload(n, id)

(* Each direction implements the reliable delivery service.                *)
Sent(n) == [id \in 1 .. Len(submitted[n]) |-> Payload(n, id)]

FromA == INSTANCE ReliableDelivery WITH
  sent <- Sent(A), received <- delivered[B], confirmed <- confirmed[A], broken <- ~LinkUp
FromB == INSTANCE ReliableDelivery WITH
  sent <- Sent(B), received <- delivered[A], confirmed <- confirmed[B], broken <- ~LinkUp

DeliversReliably == FromA!Safety /\ FromB!Safety
-----------------------------------------------------------------------------
(* A node's tick reads what has arrived and then calls process_tx, again   *)
(* and again; a timer that is awaited runs out.                            *)
Fairness == \A n \in Node : WF_vars(ProcessTx(n)) /\ WF_vars(ProcessRx(n) \/ Lose(n))

FairSpec == Spec /\ Fairness

(* A C_PDU at the head of the queue does not stay there for ever: it is    *)
(* acknowledged, or the retry limit is reached (process_tx, max_retries).  *)
EveryCpduResolved ==
  \A n \in Node : \A id \in 1 .. MaxSubmit[n] :
    Len(submitted[n]) >= id ~> id \in confirmed[n] \/ ~LinkUp

(* A radio link that lets some copy of a reset frame through if copies are *)
(* sent again and again.                                                   *)
ResetGetsThrough ==
  \A n \in Node : SF_vars(RxReset(n)) /\ SF_vars(RxResetAck(n))

HandshakeSpec == FairSpec /\ ResetGetsThrough

(* The FULL RESET that opens a link comes to an end.                       *)
HandshakeCompletes == \A n \in Node : resetPending[n] ~> ~resetPending[n]
=============================================================================
