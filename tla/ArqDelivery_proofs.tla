-------------------------- MODULE ArqDelivery_proofs --------------------------
(***************************************************************************)
(* Delivery by ArqLink for all values of its constants: as long as no      *)
(* payload is damaged and the link has not been reported as failed, every  *)
(* C_PDU comes out once, in order and whole, the two windows agree, and    *)
(* each direction implements ReliableDelivery.                             *)
(***************************************************************************)
EXTENDS ArqLink_proofs, SequenceTheorems

(* The theorems are about links that damage no payload and on which a node *)
(* whose peer opens the link with a FULL RESET submits nothing: otherwise  *)
(* a fragment already stored is lost (the run arq_damage_loses), or a      *)
(* C_PDU already in the queue is wiped by the reset.                       *)
Benign == ~CrcErrors /\ \A n \in Callers : MaxSubmit[Peer(n)] = 0
-----------------------------------------------------------------------------
(* The direction from n to its peer.  The fragments in n's window, none    *)
(* when n rests; positions count from the number the window was cut at.    *)
Cut(n) == IF txState[n] = "WAIT_ACK" THEN Fragments(Head(txQueue[n])) ELSE <<>>
Base(n) == SeqDist(nextSeq[n], txLwe[n])
Edge(n) == SeqDist(nextSeq[n], rxLwe[Peer(n)])

(* How many C_PDUs of n were submitted, wait, and have left its queue.     *)
Total(n) == Len(submitted[n])
Waiting(n) == Len(txQueue[n])
Done(n) == Total(n) - Waiting(n)

(* The queue is the end of what was submitted, the rest is confirmed.      *)
QueueOK(n) ==
  /\ Waiting(n) <= Total(n)
  /\ \A k \in 1 .. Waiting(n) :
       txQueue[n][k] = [id |-> Done(n) + k, size |-> submitted[n][Done(n) + k]]
  /\ confirmed[n] = 1 .. Done(n)

(* Each fragment of the window has its slot.                               *)
SlotsFilled(F, fr, w) ==
  \A k \in 0 .. (Len(fr) - 1) :
    /\ w[Slot(SeqAdd(F, k))].seq = SeqAdd(F, k)
    /\ w[Slot(SeqAdd(F, k))].fragment = fr[k + 1]
    /\ w[Slot(SeqAdd(F, k))].status # "NONE"

SenderOK(n) ==
  /\ Base(n) <= Len(Cut(n))
  /\ txCount[n] = Len(Cut(n)) - Base(n)
  /\ SlotsFilled(nextSeq[n], Cut(n), txWindow[n])

Stored(F, fr, k) == [status |-> "RECEIVED", seq |-> SeqAdd(F, k), fragment |-> fr[k + 1]]

(* The receiver stores fragments of the window and nothing else, all those *)
(* before its edge and not the one at it; of a delivered C_PDU, nothing.   *)
StoredOK(F, fr, edge, w) ==
  IF edge = Len(fr)
  THEN \A s \in Slots : w[s] = EmptyRxSlot
  ELSE /\ \A s \in Slots : w[s] = EmptyRxSlot \/
            \E k \in 0 .. (Len(fr) - 1) : s = Slot(SeqAdd(F, k)) /\ w[s] = Stored(F, fr, k)
       /\ \A k \in 0 .. (edge - 1) : Received(w, SeqAdd(F, k))
       /\ ~Received(w, SeqAdd(F, edge))

ReceiverOK(n) ==
  /\ Base(n) <= Edge(n) /\ Edge(n) <= Len(Cut(n))
  /\ deliverLwe[Peer(n)] = IF Edge(n) = Len(Cut(n)) THEN rxLwe[Peer(n)] ELSE nextSeq[n]
  /\ StoredOK(nextSeq[n], Cut(n), Edge(n), rxWindow[Peer(n)])

(* Handed over: the C_PDUs that left the queue, and the one in the window  *)
(* from the moment it is complete.                                         *)
Handed(n) == Done(n) + (IF Cut(n) # <<>> /\ Edge(n) = Len(Cut(n)) THEN 1 ELSE 0)

DeliveredOK(n) ==
  /\ Len(delivered[Peer(n)]) = Handed(n)
  /\ \A i \in 1 .. Len(delivered[Peer(n)]) : delivered[Peer(n)][i] = Payload(n, i)

(* What the sender takes for acknowledged and what the receiver has.       *)
AckedAt(F, fr, w) == {k \in 0 .. (Len(fr) - 1) : w[Slot(SeqAdd(F, k))].status = "ACKED"}
GotAt(F, fr, edge, w) == {k \in 0 .. (Len(fr) - 1) : k < edge \/ Received(w, SeqAdd(F, k))}
Acked(n) == AckedAt(nextSeq[n], Cut(n), txWindow[n])
Got(n) == GotAt(nextSeq[n], Cut(n), Edge(n), rxWindow[Peer(n)])

(* The frame at the lower edge of the window is not acknowledged, so the   *)
(* window is done only when its lower edge has moved to its end.           *)
HeldOK(n) ==
  /\ \A k \in Acked(n) : k >= Base(n) => k \in Got(n)
  /\ Base(n) \notin Acked(n)

(* A fragment on the way is one of the window, or a late one of an earlier *)
(* window, which the receiver recognises as such.                          *)
Current(F, fr, f) == \E k \in 0 .. (Len(fr) - 1) : f = DataFrame(SeqAdd(F, k), fr[k + 1])
Old(F, f) == \E k \in 1 .. Window : f.seq = SeqAdd(F, -k)

DataOK(c, F, fr, edge) ==
  \A i \in 1 .. Len(c) : c[i].type = "DATA" =>
    \/ Current(F, fr, c[i])
    \/ /\ edge = 0 /\ Old(F, c[i])
       /\ \A j \in 1 .. (i - 1) : c[j].type = "DATA" => Old(F, c[j])

(* An acknowledgement on the way tells no more than the receiver has and   *)
(* no less than the sender knows; a later one tells no less.               *)
AckOK(f, F, base, edge, acked, got) ==
  /\ base <= SeqDist(F, f.rxLwe) /\ SeqDist(F, f.rxLwe) <= edge
  /\ \A b \in f.acked : b \in 1 .. Window /\ SeqDist(F, f.rxLwe) + b \in got
  /\ \A k \in acked : k >= SeqDist(F, f.rxLwe) => k - SeqDist(F, f.rxLwe) \in f.acked

AckOrder(f, g, F) ==
  /\ SeqDist(F, f.rxLwe) <= SeqDist(F, g.rxLwe)
  /\ \A b \in f.acked : SeqDist(F, f.rxLwe) + b >= SeqDist(F, g.rxLwe) =>
       SeqDist(F, f.rxLwe) + b - SeqDist(F, g.rxLwe) \in g.acked

AcksOK(c, F, base, edge, acked, got) ==
  /\ \A i \in 1 .. Len(c) : c[i].type = "ACK" => AckOK(c[i], F, base, edge, acked, got)
  /\ \A i, j \in 1 .. Len(c) :
       i < j /\ c[i].type = "ACK" /\ c[j].type = "ACK" => AckOrder(c[i], c[j], F)

FramesOK(n) ==
  /\ DataOK(chan[Peer(n)], nextSeq[n], Cut(n), Edge(n))
  /\ AcksOK(chan[n], nextSeq[n], Base(n), Edge(n), Acked(n), Got(n))

(* A reset finds nothing to destroy.                                       *)
TxFresh(n) == txState[n] = "IDLE" /\ nextSeq[n] = 0 /\ txLwe[n] = 0 /\ txCount[n] = 0
RxFresh(n) == rxLwe[n] = 0 /\ deliverLwe[n] = 0 /\ \A s \in Slots : rxWindow[n][s] = EmptyRxSlot
No(type, c) == \A i \in 1 .. Len(c) : c[i].type # type
ResetsFirst(c, fresh) ==
  \A i \in 1 .. Len(c) : c[i].type = "RESET" =>
    fresh /\ \A j \in 1 .. (i - 1) : c[j].type # "DATA"

ResetsOK(n) ==
  /\ ~resetPending[Peer(n)]
  /\ No("RESET", chan[n]) /\ No("RESET", pendingTx[Peer(n)])
  /\ No("RESET_ACK", chan[Peer(n)]) /\ No("RESET_ACK", pendingTx[n])
  /\ ResetsFirst(chan[Peer(n)], RxFresh(Peer(n)))
  /\ resetPending[n] => TxFresh(n) /\ RxFresh(Peer(n)) /\ No("DATA", chan[Peer(n)])
  /\ pendingTx[n] # <<>> =>
       /\ Len(pendingTx[n]) = 1 /\ resetPending[n]
       /\ No("RESET", chan[Peer(n)])
       /\ No("RESET_ACK", chan[n]) /\ No("RESET_ACK", pendingTx[Peer(n)])

NeverUsed(n) == submitted[n] = <<>> /\ TxFresh(n) /\ RxFresh(Peer(n))

OnlyResets(c) == \A i \in 1 .. Len(c) : c[i].type \in {"RESET", "RESET_ACK"}
ResetPart(n) ==
  /\ OnlyResets(pendingTx[n])
  /\ IF MaxSubmit[n] = 0 THEN NeverUsed(n) ELSE ResetsOK(n)

CoreOK(n) == QueueOK(n) /\ SenderOK(n) /\ ReceiverOK(n) /\ DeliveredOK(n) /\ HeldOK(n)
DirectionOK(n) == CoreOK(n) /\ FramesOK(n) /\ ResetPart(n)

DeliveryInv == LinkUp => \A n \in Node : DirectionOK(n)
-----------------------------------------------------------------------------
(* What becomes of the frames on the way when the first is taken, or when  *)
(* frames are added behind them.                                           *)
LEMMA TailFacts ==
  ASSUME NEW c \in Seq(Frame), c # <<>>
  PROVE  /\ Tail(c) \in Seq(Frame) /\ Head(c) = c[1]
         /\ Len(c) \in Nat /\ Len(c) > 0 /\ Len(Tail(c)) = Len(c) - 1
         /\ \A i \in 1 .. Len(Tail(c)) : Tail(c)[i] = c[i + 1] /\ i + 1 \in 1 .. Len(c)
  BY HeadTailProperties

(* The elements of a concatenation.                                        *)
LEMMA ConcatFacts ==
  ASSUME NEW c \in Seq(Frame), NEW d \in Seq(Frame)
  PROVE  /\ c \o d \in Seq(Frame)
         /\ Len(c) \in Nat /\ Len(d) \in Nat /\ Len(c \o d) = Len(c) + Len(d)
         /\ \A i \in 1 .. Len(c) : (c \o d)[i] = c[i]
         /\ \A i \in 1 .. Len(c \o d) : i > Len(c) =>
              i - Len(c) \in 1 .. Len(d) /\ (c \o d)[i] = d[i - Len(c)]
  BY ConcatProperties

(* Taking the first frame leaves the fragments on the way in order.        *)
LEMMA DataTail ==
  ASSUME NEW c \in Seq(Frame), c # <<>>, NEW F, NEW fr, NEW edge, DataOK(c, F, fr, edge)
  PROVE  DataOK(Tail(c), F, fr, edge)
<1>1. SUFFICES ASSUME NEW i \in 1 .. Len(Tail(c)), Tail(c)[i].type = "DATA", ~Current(F, fr, Tail(c)[i])
               PROVE  /\ edge = 0 /\ Old(F, Tail(c)[i])
                      /\ \A j \in 1 .. (i - 1) : Tail(c)[j].type = "DATA" => Old(F, Tail(c)[j])
  BY DEF DataOK
<1>2. Tail(c)[i] = c[i + 1] /\ i + 1 \in 1 .. Len(c)
  BY TailFacts
<1>3. /\ edge = 0 /\ Old(F, c[i + 1])
      /\ \A j \in 1 .. i : c[j].type = "DATA" => Old(F, c[j])
  BY <1>1, <1>2 DEF DataOK
<1>4. ASSUME NEW j \in 1 .. (i - 1) PROVE Tail(c)[j] = c[j + 1] /\ j + 1 \in 1 .. i
  BY <1>1, TailFacts
<1> QED BY <1>2, <1>3, <1>4

(* Taking the first frame leaves the acknowledgements on the way in order. *)
LEMMA AcksTail ==
  ASSUME NEW c \in Seq(Frame), c # <<>>, NEW F, NEW base, NEW edge, NEW acked, NEW got,
         AcksOK(c, F, base, edge, acked, got)
  PROVE  AcksOK(Tail(c), F, base, edge, acked, got)
<1>1. \A i \in 1 .. Len(Tail(c)) : Tail(c)[i] = c[i + 1] /\ i + 1 \in 1 .. Len(c) /\ i \in Int
  BY TailFacts
<1>2. \A i, j \in Int : i < j => i + 1 < j + 1
  OBVIOUS
<1> QED BY <1>1, <1>2 DEF AcksOK

(* Taking the first frame brings no frame of a type that was not there.    *)
LEMMA NoTail ==
  ASSUME NEW c \in Seq(Frame), c # <<>>, NEW type, No(type, c)
  PROVE  No(type, Tail(c))
  BY TailFacts DEF No

(* Taking the first frame puts no fragment before a reset.                 *)
LEMMA ResetsFirstTail ==
  ASSUME NEW c \in Seq(Frame), c # <<>>, NEW fresh, ResetsFirst(c, fresh)
  PROVE  ResetsFirst(Tail(c), fresh)
<1>1. \A i \in 1 .. Len(Tail(c)) : Tail(c)[i] = c[i + 1] /\ i + 1 \in 1 .. Len(c) /\ i \in Int
  BY TailFacts
<1>2. \A i \in Int : \A j \in 1 .. (i - 1) : j + 1 \in 1 .. ((i + 1) - 1)
  OBVIOUS
<1>3. \A i \in 1 .. Len(Tail(c)) : \A j \in 1 .. (i - 1) : j \in 1 .. Len(Tail(c))
  BY TailFacts
<1> QED BY <1>1, <1>2, <1>3 DEF ResetsFirst

(* Fragments of the window may be added behind those on the way.           *)
LEMMA DataConcat ==
  ASSUME NEW c \in Seq(Frame), NEW d \in Seq(Frame), NEW F, NEW fr, NEW edge, DataOK(c, F, fr, edge),
         \A i \in 1 .. Len(d) : d[i].type = "DATA" => Current(F, fr, d[i])
  PROVE  DataOK(c \o d, F, fr, edge)
<1>1. SUFFICES ASSUME NEW i \in 1 .. Len(c \o d), (c \o d)[i].type = "DATA",
                      ~Current(F, fr, (c \o d)[i])
               PROVE  /\ edge = 0 /\ Old(F, (c \o d)[i])
                      /\ \A j \in 1 .. (i - 1) : (c \o d)[j].type = "DATA" => Old(F, (c \o d)[j])
  BY DEF DataOK
<1>2. i \in 1 .. Len(c) /\ (c \o d)[i] = c[i]
  BY <1>1, ConcatFacts
<1>3. \A j \in 1 .. (i - 1) : (c \o d)[j] = c[j]
  BY <1>2, ConcatFacts
<1> QED BY <1>1, <1>2, <1>3 DEF DataOK

(* The newest acknowledgement may be added behind those on the way.        *)
LEMMA AcksConcat ==
  ASSUME NEW c \in Seq(Frame), NEW d \in Seq(Frame),
         NEW F, NEW base, NEW edge, NEW acked, NEW got,
         AcksOK(c, F, base, edge, acked, got),
         \A i \in 1 .. Len(d) : d[i].type = "ACK" =>
           /\ i = 1 /\ AckOK(d[i], F, base, edge, acked, got)
           /\ \A j \in 1 .. Len(c) : c[j].type = "ACK" => AckOrder(c[j], d[i], F)
  PROVE  AcksOK(c \o d, F, base, edge, acked, got)
<1>1. ASSUME NEW i \in 1 .. Len(c \o d), (c \o d)[i].type = "ACK"
      PROVE  /\ AckOK((c \o d)[i], F, base, edge, acked, got)
             /\ i > Len(c) => i = Len(c) + 1
  <2>1. CASE i \in 1 .. Len(c)
    BY <1>1, <2>1, ConcatFacts DEF AcksOK
  <2>2. CASE i > Len(c)
    <3>1. i - Len(c) \in 1 .. Len(d) /\ (c \o d)[i] = d[i - Len(c)]
      BY <2>2, ConcatFacts
    <3>2. i - Len(c) = 1
      BY <1>1, <3>1
    <3> QED BY <1>1, <3>1, <3>2, ConcatFacts
  <2> QED BY <2>1, <2>2, ConcatFacts
<1>2. ASSUME NEW i \in 1 .. Len(c \o d), NEW j \in 1 .. Len(c \o d), i < j,
             (c \o d)[i].type = "ACK", (c \o d)[j].type = "ACK"
      PROVE  AckOrder((c \o d)[i], (c \o d)[j], F)
  <2>1. i \in 1 .. Len(c) /\ (c \o d)[i] = c[i]
    BY <1>1, <1>2, ConcatFacts
  <2>2. CASE j \in 1 .. Len(c)
    BY <1>2, <2>1, <2>2, ConcatFacts DEF AcksOK
  <2>3. CASE j > Len(c)
    <3>1. j - Len(c) \in 1 .. Len(d) /\ (c \o d)[j] = d[j - Len(c)]
      BY <2>3, ConcatFacts
    <3> QED BY <1>2, <2>1, <3>1
  <2> QED BY <2>2, <2>3, ConcatFacts
<1> QED BY <1>1, <1>2 DEF AcksOK

(* Two sequences without a type of frame make one without it.              *)
LEMMA NoConcat ==
  ASSUME NEW c \in Seq(Frame), NEW d \in Seq(Frame), NEW type, No(type, c), No(type, d)
  PROVE  No(type, c \o d)
<1> SUFFICES ASSUME NEW i \in 1 .. Len(c \o d) PROVE (c \o d)[i].type # type
  BY DEF No
<1>1. CASE i \in 1 .. Len(c)
  BY <1>1, ConcatFacts DEF No
<1>2. CASE i > Len(c)
  BY <1>2, ConcatFacts DEF No
<1> QED BY <1>1, <1>2, ConcatFacts

(* Resets are added only where no fragment is on the way.                  *)
LEMMA ResetsFirstConcat ==
  ASSUME NEW c \in Seq(Frame), NEW d \in Seq(Frame), NEW fresh, ResetsFirst(c, fresh),
         No("RESET", d) \/ (fresh /\ No("DATA", c) /\ No("DATA", d))
  PROVE  ResetsFirst(c \o d, fresh)
<1>1. SUFFICES ASSUME NEW i \in 1 .. Len(c \o d), (c \o d)[i].type = "RESET"
               PROVE  fresh /\ \A j \in 1 .. (i - 1) : (c \o d)[j].type # "DATA"
  BY DEF ResetsFirst
<1>2. CASE No("RESET", d)
  <2>1. i \in 1 .. Len(c) /\ (c \o d)[i] = c[i]
    BY <1>1, <1>2, ConcatFacts DEF No
  <2>2. \A j \in 1 .. (i - 1) : (c \o d)[j] = c[j]
    BY <2>1, ConcatFacts
  <2> QED BY <1>1, <2>1, <2>2 DEF ResetsFirst
<1>3. CASE fresh /\ No("DATA", c) /\ No("DATA", d)
  <2>1. No("DATA", c \o d)
    BY <1>3, NoConcat
  <2>2. \A j \in 1 .. (i - 1) : j \in 1 .. Len(c \o d)
    BY ConcatFacts
  <2> QED BY <1>3, <2>1, <2>2 DEF No
<1> QED BY <1>2, <1>3
-----------------------------------------------------------------------------
(* Numbers told apart by their offsets.                                    *)
LEMMA Sizes ==
  /\ SeqMod \in Int /\ Window \in Int /\ Window > 0 /\ 2 * Window <= SeqMod
  /\ MaxFragments \in Int /\ MaxFragments > 0 /\ MaxFragments <= Window
  /\ Seqs \subseteq Int /\ 0 \in Seqs
<1>1. MaxFragments \in 1 .. Window
  BY LinkAssumption
<1> QED BY <1>1, ModulusOK, SeqsAreInts

(* The offset of an advanced number is what it was advanced by.            *)
LEMMA OffsetOf ==
  ASSUME NEW F \in Seqs, NEW k \in Int, 0 <= k, k < SeqMod
  PROVE  SeqAdd(F, k) \in Seqs /\ SeqDist(F, SeqAdd(F, k)) = k
<1>1. F \in Int /\ SeqAdd(F, 0) = F
  BY Sizes, AddZero
<1>2. SeqDist(SeqAdd(F, 0), SeqAdd(F, k)) = k - 0
  BY <1>1, DistAhead
<1> QED BY <1>1, <1>2, AddInSeqs

(* A number is reached by its offset.                                      *)
LEMMA NumberAt ==
  ASSUME NEW F \in Seqs, NEW q \in Seqs
  PROVE  /\ SeqDist(F, q) \in 0 .. (SeqMod - 1)
         /\ SeqAdd(F, SeqDist(F, q)) = q
<1>1. F \in Int /\ q \in Int
  BY Sizes
<1> QED BY <1>1, AddDist, DistInSeqs DEF Seqs

(* Offsets within a cycle tell numbers apart.                              *)
LEMMA SameNumber ==
  ASSUME NEW F \in Seqs, NEW i \in Int, NEW j \in Int, 0 <= i, i < SeqMod, 0 <= j, j < SeqMod,
         SeqAdd(F, i) = SeqAdd(F, j)
  PROVE  i = j
  BY OffsetOf

(* Offsets within a window tell slots apart.                               *)
LEMMA SameSlot ==
  ASSUME NEW F \in Seqs, NEW i \in Int, NEW j \in Int, 0 <= i, i < Window, 0 <= j, j < Window,
         Slot(SeqAdd(F, i)) = Slot(SeqAdd(F, j))
  PROVE  i = j
<1>1. F \in Int /\ i - j < Window /\ j - i < Window
  BY Sizes
<1> QED BY <1>1, SlotUnique

(* An advanced number is a number, and has a slot.                         *)
LEMMA SlotOfNumber ==
  ASSUME NEW F \in Seqs, NEW k \in Int
  PROVE  SeqAdd(F, k) \in Seqs /\ Slot(SeqAdd(F, k)) \in Slots
  BY Sizes, AddInSeqs, SlotInSlots

(* The window of a node.                                                   *)
CutShape(fr) ==
  /\ fr \in Seq(Fragment) /\ Len(fr) \in 0 .. Window
  /\ \A k \in 1 .. Len(fr) : fr[k].part = k /\ fr[k].size = Len(fr)

(* The fragments of a C_PDU fit a window and carry their places.           *)
LEMMA FragmentsShape ==
  ASSUME NEW c \in CPdu
  PROVE  CutShape(Fragments(c)) /\ Len(Fragments(c)) = c.size /\ c.size \in 1 .. Window
<1>1. c.size \in 1 .. Window /\ c.size \in Nat
  BY Sizes DEF CPdu
<1>2. Fragments(c) \in Seq(Fragment)
  BY FragmentsType
<1>3. Len(Fragments(c)) = c.size
  BY <1>1 DEF Fragments
<1>4. \A k \in 1 .. c.size : Fragments(c)[k].part = k /\ Fragments(c)[k].size = c.size
  BY DEF Fragments
<1>5. Len(Fragments(c)) \in 0 .. Window
  BY <1>1, <1>3, Sizes
<1>6. \A k \in 1 .. Len(Fragments(c)) :
        Fragments(c)[k].part = k /\ Fragments(c)[k].size = Len(Fragments(c))
  BY <1>3, <1>4
<1> QED BY <1>1, <1>2, <1>3, <1>5, <1>6 DEF CutShape

(* No fragments at all are such a sequence too.                            *)
LEMMA EmptyShape == CutShape(<<>>) /\ Len(<<>>) = 0
<1>1. <<>> \in Seq(Fragment) /\ Len(<<>>) = 0
  OBVIOUS
<1> QED BY <1>1, Sizes DEF CutShape

(* The window holds the fragments of the head of the queue, or none.       *)
LEMMA CutType ==
  ASSUME IInv, NEW n \in Node
  PROVE  /\ CutShape(Cut(n))
         /\ txState[n] = "WAIT_ACK" =>
              /\ txQueue[n] # <<>> /\ Head(txQueue[n]) \in CPdu
              /\ Len(Cut(n)) = Head(txQueue[n]).size /\ Len(Cut(n)) > 0
         /\ txState[n] # "WAIT_ACK" => Cut(n) = <<>> /\ Len(Cut(n)) = 0
<1>1. txQueue[n] \in Seq(CPdu)
  BY DEF IInv, TypeOK
<1>2. CASE txState[n] = "WAIT_ACK"
  <2>1. txQueue[n] # <<>>
    BY <1>2 DEF IInv, BusyHasHead
  <2>2. Head(txQueue[n]) \in CPdu
    BY <1>1, <2>1
  <2>3. Cut(n) = Fragments(Head(txQueue[n]))
    BY <1>2 DEF Cut
  <2> QED BY <1>2, <2>1, <2>2, <2>3, FragmentsShape
<1>3. CASE txState[n] # "WAIT_ACK"
  <2>1. Cut(n) = <<>>
    BY <1>3 DEF Cut
  <2> QED BY <1>3, <2>1, EmptyShape
<1> QED BY <1>2, <1>3

(* Where the two edges of a direction are, as offsets from its first       *)
(* number.                                                                 *)
LEMMA PositionType ==
  ASSUME IInv, NEW n \in Node
  PROVE  /\ Peer(n) \in Node /\ Peer(Peer(n)) = n /\ Peer(n) # n
         /\ \A m \in Node : m = n \/ m = Peer(n)
         /\ nextSeq[n] \in Seqs /\ txLwe[n] \in Seqs /\ rxLwe[n] \in Seqs /\ rxLwe[Peer(n)] \in Seqs
         /\ Base(n) \in 0 .. (SeqMod - 1) /\ Edge(n) \in 0 .. (SeqMod - 1)
         /\ txLwe[n] = SeqAdd(nextSeq[n], Base(n))
         /\ rxLwe[Peer(n)] = SeqAdd(nextSeq[n], Edge(n))
         /\ chan[n] \in Seq(Frame) /\ chan[Peer(n)] \in Seq(Frame)
         /\ pendingTx[n] \in Seq(Frame) /\ pendingTx[Peer(n)] \in Seq(Frame)
         /\ nextSeq[n] \in Int
         /\ Base(n) \in Int /\ 0 <= Base(n) /\ Base(n) < SeqMod
         /\ Edge(n) \in Int /\ 0 <= Edge(n) /\ Edge(n) < SeqMod
<1>1. /\ Peer(n) \in Node /\ Peer(Peer(n)) = n /\ Peer(n) # n
      /\ \A m \in Node : m = n \/ m = Peer(n)
  BY LinkAssumption DEF Node, Peer
<1>2. /\ nextSeq[n] \in Seqs /\ txLwe[n] \in Seqs /\ rxLwe[n] \in Seqs /\ rxLwe[Peer(n)] \in Seqs
      /\ chan[n] \in Seq(Frame) /\ chan[Peer(n)] \in Seq(Frame)
      /\ pendingTx[n] \in Seq(Frame) /\ pendingTx[Peer(n)] \in Seq(Frame)
  BY <1>1 DEF IInv, TypeOK
<1>3. /\ Base(n) \in 0 .. (SeqMod - 1) /\ Edge(n) \in 0 .. (SeqMod - 1)
      /\ txLwe[n] = SeqAdd(nextSeq[n], Base(n))
      /\ rxLwe[Peer(n)] = SeqAdd(nextSeq[n], Edge(n))
  BY <1>2, NumberAt DEF Base, Edge
<1>4. nextSeq[n] \in Int
  BY <1>2, Sizes
<1>5. SeqMod \in Int
  BY Sizes
<1>6. /\ Base(n) \in Int /\ 0 <= Base(n) /\ Base(n) < SeqMod
      /\ Edge(n) \in Int /\ 0 <= Edge(n) /\ Edge(n) < SeqMod
  BY <1>3, <1>5
<1> QED BY <1>1, <1>2, <1>3, <1>4, <1>6
-----------------------------------------------------------------------------
(* What a stored number means.                                             *)
LEMMA ReceivedMeans ==
  ASSUME NEW F \in Seqs, NEW fr, CutShape(fr), NEW edge \in Int, NEW w, StoredOK(F, fr, edge, w),
         NEW j \in Int, 0 <= j, j < SeqMod, Received(w, SeqAdd(F, j))
  PROVE  edge # Len(fr) /\ j < Len(fr) /\ w[Slot(SeqAdd(F, j))] = Stored(F, fr, j)
<1>1. Slot(SeqAdd(F, j)) \in Slots
  BY SlotOfNumber
<1>2. w[Slot(SeqAdd(F, j))] # EmptyRxSlot
  BY DEF Received, EmptyRxSlot
<1>3. edge # Len(fr)
  BY <1>1, <1>2 DEF StoredOK
<1>4. PICK k \in 0 .. (Len(fr) - 1) : w[Slot(SeqAdd(F, j))] = Stored(F, fr, k)
  BY <1>1, <1>2, <1>3 DEF StoredOK
<1>5. SeqAdd(F, k) = SeqAdd(F, j)
  BY <1>4 DEF Received, Stored
<1>6. Len(fr) \in 0 .. Window
  BY DEF CutShape
<1>7. k \in Int /\ 0 <= k /\ k < Len(fr) /\ k < SeqMod
  BY <1>6, Sizes
<1>8. k = j
  BY <1>5, <1>7, SameNumber
<1> QED BY <1>3, <1>4, <1>7, <1>8

(* The fields of the frames of each type.                                  *)
LEMMA FrameFields ==
  ASSUME NEW f \in Frame
  PROVE  /\ f.type \in {"DATA", "ACK", "RESET", "RESET_ACK"}
         /\ f.type = "DATA" => f.seq \in Seqs /\ f.fragment \in Fragment
         /\ f.type = "ACK" => f.rxLwe \in Seqs /\ \A F \in Seqs : SeqDist(F, f.rxLwe) \in Int
<1>1. /\ f.type \in {"DATA", "ACK", "RESET", "RESET_ACK"}
      /\ f.type = "DATA" => f.seq \in Seqs /\ f.fragment \in Fragment
      /\ f.type = "ACK" => f.rxLwe \in Seqs
  BY DEF Frame
<1>2. ASSUME f.type = "ACK", NEW F \in Seqs PROVE SeqDist(F, f.rxLwe) \in Int
  <2>1. f.rxLwe \in Seqs
    BY <1>1, <1>2
  <2>2. SeqDist(F, f.rxLwe) \in 0 .. (SeqMod - 1)
    BY <2>1, NumberAt
  <2> QED BY <2>2, Sizes
<1> QED BY <1>1, <1>2

(* The acknowledgement a node would send now tells what it has.            *)
LEMMA OwnAck ==
  ASSUME IInv, NEW n \in Node, ReceiverOK(n), HeldOK(n), FramesOK(n)
  PROVE  /\ AckOK(AckFrame(Peer(n)), nextSeq[n], Base(n), Edge(n), Acked(n), Got(n))
         /\ \A i \in 1 .. Len(chan[n]) : chan[n][i].type = "ACK" =>
              AckOrder(chan[n][i], AckFrame(Peer(n)), nextSeq[n])
<1> DEFINE p == Peer(n)
           F == nextSeq[n]
           g == AckFrame(p)
<1>1. /\ p \in Node /\ F \in Seqs /\ rxLwe[p] = SeqAdd(F, Edge(n)) /\ SeqDist(F, rxLwe[p]) = Edge(n)
      /\ Base(n) \in Int /\ Edge(n) \in Int /\ 0 <= Base(n) /\ 0 <= Edge(n)
  BY PositionType, Sizes DEF Edge
<1>2. /\ Base(n) <= Edge(n) /\ Edge(n) <= Len(Cut(n))
      /\ StoredOK(F, Cut(n), Edge(n), rxWindow[p])
  BY DEF ReceiverOK
<1>3. CutShape(Cut(n)) /\ Len(Cut(n)) \in Int /\ Len(Cut(n)) <= Window
  BY CutType, Sizes DEF CutShape
<1>4. g.rxLwe = rxLwe[p]
  BY DEF AckFrame
<1>5. g.acked = {k \in Known(p) : Received(rxWindow[p], SeqAdd(rxLwe[p], k))}
  BY DEF AckFrame
<1>6. \A k \in Int : SeqAdd(rxLwe[p], k) = SeqAdd(F, Edge(n) + k)
  <2> TAKE k \in Int
  <2>1. F \in Int /\ Edge(n) \in Int
    BY <1>1, Sizes
  <2>2. SeqAdd(SeqAdd(F, Edge(n)), k) = SeqAdd(F, Edge(n) + k)
    BY <2>1, AddAdd
  <2> QED BY <1>1, <2>2
<1>7. ASSUME NEW k \in g.acked PROVE k \in 1 .. Window /\ Edge(n) + k \in Got(n)
  <2>1. k \in 1 .. Window /\ Received(rxWindow[p], SeqAdd(F, Edge(n) + k))
    BY <1>5, <1>6 DEF Known
  <2>2. CASE Edge(n) = Len(Cut(n))
    <3>1. Slot(SeqAdd(F, Edge(n) + k)) \in Slots
      BY <1>1, <2>1, SlotOfNumber
    <3> QED BY <1>2, <2>1, <2>2, <3>1 DEF StoredOK, Received, EmptyRxSlot
  <2>3. CASE Edge(n) # Len(Cut(n))
    <3>1. Edge(n) + k \in Int /\ 0 <= Edge(n) + k /\ Edge(n) + k < SeqMod
      BY <1>1, <1>2, <1>3, <2>1, <2>3, Sizes
    <3>2. Edge(n) + k < Len(Cut(n))
      BY <1>1, <1>2, <1>3, <2>1, <3>1, ReceivedMeans
    <3> QED BY <1>3, <2>1, <3>1, <3>2 DEF Got, GotAt
  <2> QED BY <2>2, <2>3
<1>8. ASSUME NEW k \in 1 .. Window, Edge(n) + k \in Got(n) PROVE k \in g.acked
  <2>1. Received(rxWindow[p], SeqAdd(rxLwe[p], k))
    BY <1>1, <1>6, <1>8 DEF Got, GotAt
  <2>2. k \in Known(p)
    BY <2>1 DEF Known, Holds, Received
  <2> QED BY <1>5, <2>1, <2>2
<1>9. Edge(n) \notin Got(n)
  BY <1>1, <1>2, <1>3 DEF Got, GotAt, StoredOK
<1>10. ASSUME NEW k \in Got(n), k >= Edge(n) PROVE k - Edge(n) \in g.acked
  <2>1. k \in 0 .. (Len(Cut(n)) - 1) /\ k # Edge(n)
    BY <1>9, <1>10 DEF Got, GotAt
  <2>2. k - Edge(n) \in 1 .. Window /\ Edge(n) + (k - Edge(n)) = k
    BY <1>1, <1>3, <1>10, <2>1, Sizes
  <2> QED BY <1>8, <2>2
<1> HIDE DEF p, F, g
<1>11. AckOK(g, F, Base(n), Edge(n), Acked(n), Got(n))
  <2>1. ASSUME NEW k \in Acked(n), k >= Edge(n) PROVE k - Edge(n) \in g.acked
    <3>1. k \in Int /\ k >= Base(n)
      BY <1>1, <1>2, <1>3, <2>1 DEF Acked, AckedAt
    <3>2. k \in Got(n)
      BY <3>1 DEF HeldOK
    <3> QED BY <1>10, <2>1, <3>2
  <2> QED BY <1>1, <1>2, <1>4, <1>7, <2>1 DEF AckOK
<1>12. ASSUME NEW i \in 1 .. Len(chan[n]), chan[n][i].type = "ACK"
       PROVE  AckOrder(chan[n][i], g, F)
  <2>1. AckOK(chan[n][i], F, Base(n), Edge(n), Acked(n), Got(n))
    BY <1>12 DEF FramesOK, AcksOK, F
  <2>2. SeqDist(F, g.rxLwe) = Edge(n)
    BY <1>1, <1>4
  <2>3. SeqDist(F, chan[n][i].rxLwe) <= Edge(n)
    BY <2>1 DEF AckOK
  <2>4. \A b \in chan[n][i].acked : SeqDist(F, chan[n][i].rxLwe) + b \in Got(n)
    BY <2>1 DEF AckOK
  <2>5. ASSUME NEW b \in chan[n][i].acked, SeqDist(F, chan[n][i].rxLwe) + b >= Edge(n)
        PROVE  SeqDist(F, chan[n][i].rxLwe) + b - Edge(n) \in g.acked
    <3>1. SeqDist(F, chan[n][i].rxLwe) \in Int /\ b \in Int
      BY <1>1, <1>12, <2>1, PositionType, FrameFields DEF AckOK
    <3>2. PICK k \in Got(n) : k = SeqDist(F, chan[n][i].rxLwe) + b
      BY <2>4
    <3>3. k - Edge(n) \in g.acked
      BY <1>10, <2>5, <3>2
    <3> QED BY <1>1, <3>1, <3>2, <3>3
  <2> QED BY <2>2, <2>3, <2>5 DEF AckOrder
<1> QED BY <1>11, <1>12 DEF g, F, p

(* What a transmission adds to the frames on the way: the acknowledgement  *)
(* that is due, and the burst behind it.                                   *)
LEMMA TransmitFrames ==
  ASSUME IInv, NEW m \in Node, NEW burst \in Seq(Frame), Transmit(m, burst)
  PROVE  \E out \in Seq(Frame) :
           /\ chan' = [chan EXCEPT ![Peer(m)] = @ \o out]
           /\ \A i \in 1 .. Len(out) :
                \/ i = 1 /\ out[i] = AckFrame(m)
                \/ \E j \in 1 .. Len(burst) : out[i] = burst[j]
<1> DEFINE lead == IF ackDirty[m] THEN <<AckFrame(m)>> ELSE <<>>
<1>1. AckFrame(m) \in Frame
  BY AckFrameType DEF IInv
<1>2. /\ lead \in Seq(Frame)
      /\ \A i \in 1 .. Len(lead) : i = 1 /\ lead[i] = AckFrame(m)
  BY <1>1
<1>3. chan' = [chan EXCEPT ![Peer(m)] = @ \o (lead \o burst)]
  BY DEF Transmit
<1> HIDE DEF lead
<1>4. lead \o burst \in Seq(Frame)
  BY <1>2, ConcatFacts
<1>5. ASSUME NEW i \in 1 .. Len(lead \o burst)
      PROVE  \/ i = 1 /\ (lead \o burst)[i] = AckFrame(m)
             \/ \E j \in 1 .. Len(burst) : (lead \o burst)[i] = burst[j]
  <2>1. CASE i \in 1 .. Len(lead)
    BY <1>2, <2>1, ConcatFacts
  <2>2. CASE i > Len(lead)
    BY <1>2, <2>2, ConcatFacts
  <2> QED BY <1>2, <2>1, <2>2, ConcatFacts
<1> QED BY <1>3, <1>4, <1>5
-----------------------------------------------------------------------------
(* What a step leaves alone.                                               *)
SameSender(n) ==
  /\ txQueue'[n] = txQueue[n] /\ txState'[n] = txState[n] /\ txLwe'[n] = txLwe[n]
  /\ txCount'[n] = txCount[n] /\ nextSeq'[n] = nextSeq[n]
  /\ submitted'[n] = submitted[n] /\ confirmed'[n] = confirmed[n]
SameReceiver(p) ==
  /\ rxLwe'[p] = rxLwe[p] /\ deliverLwe'[p] = deliverLwe[p] /\ rxWindow'[p] = rxWindow[p]
  /\ delivered'[p] = delivered[p]

\* The window's slots hold what they held, with an equal claim to be acknowledged.
Alike(s, t) ==
  /\ t.seq = s.seq /\ t.fragment = s.fragment /\ t.status # "NONE"
  /\ t.status = "ACKED" <=> s.status = "ACKED"
SlotsAlike(F, fr, w, v) ==
  \A k \in 0 .. (Len(fr) - 1) : Alike(w[Slot(SeqAdd(F, k))], v[Slot(SeqAdd(F, k))])

SameView(n) ==
  /\ nextSeq'[n] = nextSeq[n] /\ Cut(n)' = Cut(n) /\ Base(n)' = Base(n) /\ Edge(n)' = Edge(n)
  /\ Acked(n)' = Acked(n) /\ Got(n)' = Got(n)

(* A window that is unchanged fills the same slots.                        *)
LEMMA SameWindowIsAlike ==
  ASSUME NEW n \in Node, SenderOK(n), txWindow'[n] = txWindow[n]
  PROVE  SlotsAlike(nextSeq[n], Cut(n), txWindow[n], txWindow'[n])
  BY DEF SenderOK, SlotsFilled, SlotsAlike, Alike

(* A step that leaves sender and receiver alone keeps the core of a        *)
(* direction.                                                              *)
LEMMA CoreKept ==
  ASSUME NEW n \in Node, CoreOK(n), SameSender(n), SameReceiver(Peer(n)),
         SlotsAlike(nextSeq[n], Cut(n), txWindow[n], txWindow'[n])
  PROVE  CoreOK(n)' /\ SameView(n)
<1>1. Cut(n)' = Cut(n)
  BY DEF Cut, SameSender
<1>2. Base(n)' = Base(n) /\ Edge(n)' = Edge(n) /\ Done(n)' = Done(n)
  BY DEF Base, Edge, Done, Total, Waiting, SameSender, SameReceiver
<1>3. nextSeq'[n] = nextSeq[n]
  BY DEF SameSender
<1>4. Acked(n)' = Acked(n)
  <2>1. AckedAt(nextSeq[n], Cut(n), txWindow'[n]) = AckedAt(nextSeq[n], Cut(n), txWindow[n])
    BY DEF AckedAt, SlotsAlike, Alike
  <2> QED BY <1>1, <1>3, <2>1 DEF Acked
<1>5. Got(n)' = Got(n)
  BY <1>1, <1>2, <1>3 DEF Got, SameReceiver
<1>6. QueueOK(n)'
  BY <1>2 DEF CoreOK, QueueOK, SameSender, Total, Waiting
<1>7. SenderOK(n)'
  <2>1. SlotsFilled(nextSeq[n], Cut(n), txWindow'[n])
    BY DEF CoreOK, SenderOK, SlotsFilled, SlotsAlike, Alike
  <2> QED BY <1>1, <1>2, <1>3, <2>1 DEF CoreOK, SenderOK, SameSender
<1>8. ReceiverOK(n)'
  BY <1>1, <1>2, <1>3 DEF CoreOK, ReceiverOK, SameReceiver
<1>9. DeliveredOK(n)'
  BY <1>1, <1>2 DEF CoreOK, DeliveredOK, Handed, SameReceiver, SameSender, Payload
<1>10. HeldOK(n)'
  BY <1>2, <1>4, <1>5 DEF CoreOK, HeldOK
<1> QED BY <1>1, <1>2, <1>3, <1>4, <1>5, <1>6, <1>7, <1>8, <1>9, <1>10 DEF CoreOK, SameView

(* Such a step keeps a direction fresh that was.                           *)
LEMMA FreshKept ==
  ASSUME NEW n \in Node, SameSender(n), SameReceiver(Peer(n))
  PROVE  /\ TxFresh(n)' = TxFresh(n) /\ RxFresh(Peer(n))' = RxFresh(Peer(n))
         /\ NeverUsed(n) => NeverUsed(n)'
<1>1. TxFresh(n)' = TxFresh(n)
  BY DEF TxFresh, SameSender
<1>2. RxFresh(Peer(n))' = RxFresh(Peer(n))
  BY DEF RxFresh, SameReceiver
<1>3. submitted'[n] = submitted[n]
  BY DEF SameSender
<1> QED BY <1>1, <1>2, <1>3 DEF NeverUsed
-----------------------------------------------------------------------------
(* A frame is taken.                                                       *)
Shrinks(x) ==
  \/ chan'[x] = chan[x]
  \/ chan[x] # <<>> /\ chan'[x] = Tail(chan[x])

(* Taking or losing a frame removes the first of one direction only.       *)
LEMMA TakeShrinks ==
  ASSUME IInv, NEW m \in Node, chan[m] # <<>>, Take(m), NEW x \in Node
  PROVE  Shrinks(x)
<1>1. chan \in [Node -> Seq(Frame)]
  BY DEF IInv, TypeOK
<1>2. chan' = [chan EXCEPT ![m] = Tail(chan[m])]
  BY DEF Take
<1>3. chan'[x] = IF x = m THEN Tail(chan[m]) ELSE chan[x]
  BY <1>1, <1>2
<1> QED BY <1>3 DEF Shrinks

(* Frames may be taken: what is left on the way still fits the windows.    *)
LEMMA FramesShrink ==
  ASSUME IInv, NEW n \in Node, FramesOK(n), SameView(n), Shrinks(n), Shrinks(Peer(n))
  PROVE  FramesOK(n)'
<1>1. chan[n] \in Seq(Frame) /\ chan[Peer(n)] \in Seq(Frame)
  BY PositionType
<1>2. DataOK(chan'[Peer(n)], nextSeq[n], Cut(n), Edge(n))
  BY <1>1, DataTail DEF FramesOK, Shrinks
<1>3. AcksOK(chan'[n], nextSeq[n], Base(n), Edge(n), Acked(n), Got(n))
  BY <1>1, AcksTail DEF FramesOK, Shrinks
<1> QED BY <1>2, <1>3 DEF FramesOK, SameView

(* What is not on the way is not on the way once a frame is taken.         *)
LEMMA NoShrink ==
  ASSUME NEW x, chan[x] \in Seq(Frame), Shrinks(x), NEW type, No(type, chan[x])
  PROVE  No(type, chan'[x])
  BY NoTail DEF Shrinks

(* The reset part of the invariant when frames are taken.                 *)
LEMMA ResetsTaken ==
  ASSUME IInv, NEW n \in Node, ResetPart(n),
         TxFresh(n) => TxFresh(n)', RxFresh(Peer(n)) => RxFresh(Peer(n))',
         submitted'[n] = submitted[n],
         Shrinks(n), Shrinks(Peer(n)), UNCHANGED <<resetPending, pendingTx>>
  PROVE  ResetPart(n)'
<1>1. chan[n] \in Seq(Frame) /\ chan[Peer(n)] \in Seq(Frame)
  BY PositionType
<1>2. NeverUsed(n) => NeverUsed(n)'
  BY DEF NeverUsed
<1>3. ASSUME ResetsOK(n) PROVE ResetsOK(n)'
  <2>1. \A t : No(t, chan[n]) => No(t, chan'[n])
    BY <1>1, NoShrink
  <2>2. \A t : No(t, chan[Peer(n)]) => No(t, chan'[Peer(n)])
    BY <1>1, NoShrink
  <2>3. ResetsFirst(chan'[Peer(n)], RxFresh(Peer(n)))
    BY <1>1, <1>3, ResetsFirstTail DEF ResetsOK, Shrinks
  <2>4. ResetsFirst(chan'[Peer(n)], RxFresh(Peer(n))')
    BY <2>3 DEF ResetsFirst
  <2> QED BY <1>3, <2>1, <2>2, <2>4 DEF ResetsOK
<1> QED BY <1>2, <1>3 DEF ResetPart

(* In particular when sender and receiver are left alone.                 *)
LEMMA ResetsShrink ==
  ASSUME IInv, NEW n \in Node, ResetPart(n), SameSender(n), SameReceiver(Peer(n)),
         Shrinks(n), Shrinks(Peer(n)), UNCHANGED <<resetPending, pendingTx>>
  PROVE  ResetPart(n)'
<1>1. TxFresh(n)' = TxFresh(n) /\ RxFresh(Peer(n))' = RxFresh(Peer(n)) /\ submitted'[n] = submitted[n]
  BY FreshKept DEF SameSender
<1> QED BY <1>1, ResetsTaken
-----------------------------------------------------------------------------
(* Frames are sent.                                                        *)
Sends(m, out) == chan' = [chan EXCEPT ![Peer(m)] = @ \o out]

(* A burst goes to the peer and nowhere else.                              *)
LEMMA SendsTo ==
  ASSUME IInv, NEW m \in Node, NEW out \in Seq(Frame), Sends(m, out)
  PROVE  chan'[Peer(m)] = chan[Peer(m)] \o out /\ chan'[m] = chan[m]
<1>1. chan \in [Node -> Seq(Frame)]
  BY DEF IInv, TypeOK
<1>2. Peer(m) \in Node /\ Peer(m) # m
  BY PositionType
<1> QED BY <1>1, <1>2 DEF Sends

(* The direction against the sending: its acknowledgement is among them.   *)
LEMMA FramesSentBack ==
  ASSUME IInv, NEW n \in Node, CoreOK(n), FramesOK(n), SameView(n),
         NEW out \in Seq(Frame), Sends(Peer(n), out),
         \A i \in 1 .. Len(out) : out[i].type = "ACK" => i = 1 /\ out[i] = AckFrame(Peer(n))
  PROVE  FramesOK(n)'
<1>1. Peer(n) \in Node /\ Peer(Peer(n)) = n /\ chan[n] \in Seq(Frame)
  BY PositionType
<1>2. chan'[n] = chan[n] \o out /\ chan'[Peer(n)] = chan[Peer(n)]
  BY <1>1, SendsTo
<1>3. /\ AckOK(AckFrame(Peer(n)), nextSeq[n], Base(n), Edge(n), Acked(n), Got(n))
      /\ \A i \in 1 .. Len(chan[n]) : chan[n][i].type = "ACK" =>
           AckOrder(chan[n][i], AckFrame(Peer(n)), nextSeq[n])
  BY OwnAck DEF CoreOK
<1>4. AcksOK(chan[n], nextSeq[n], Base(n), Edge(n), Acked(n), Got(n))
  BY DEF FramesOK
<1>5. AcksOK(chan[n] \o out, nextSeq[n], Base(n), Edge(n), Acked(n), Got(n))
  BY <1>1, <1>3, <1>4, AcksConcat
<1> QED BY <1>2, <1>5 DEF FramesOK, SameView

(* The direction of the sending: the fragments are of its window.          *)
LEMMA FramesSent ==
  ASSUME IInv, NEW n \in Node, FramesOK(n), SameView(n),
         NEW out \in Seq(Frame), Sends(n, out),
         \A i \in 1 .. Len(out) : out[i].type = "DATA" => Current(nextSeq[n], Cut(n), out[i])
  PROVE  FramesOK(n)'
<1>1. chan[Peer(n)] \in Seq(Frame)
  BY PositionType
<1>2. chan'[Peer(n)] = chan[Peer(n)] \o out /\ chan'[n] = chan[n]
  BY SendsTo
<1>3. DataOK(chan[Peer(n)] \o out, nextSeq[n], Cut(n), Edge(n))
  BY <1>1, DataConcat DEF FramesOK
<1> QED BY <1>2, <1>3 DEF FramesOK, SameView

(* Resets are sent only while one is pending, and fragments only while     *)
(* none is.                                                                *)
ResetsRule(m, out) ==
  /\ No("RESET_ACK", out)
  /\ No("RESET", out) \/ resetPending[m]
  /\ No("DATA", out) \/ ~resetPending[m]
  /\ pendingTx[m] = <<>>

(* The reset part of the invariant when a burst is sent.                   *)
LEMMA ResetsSent ==
  ASSUME IInv, NEW m \in Node, NEW n \in Node, ResetsOK(n),
         NEW out \in Seq(Frame), Sends(m, out), ResetsRule(m, out),
         TxFresh(n) => TxFresh(n)' \/ ~resetPending[n], RxFresh(Peer(n))' = RxFresh(Peer(n)),
         UNCHANGED <<resetPending, pendingTx>>
  PROVE  ResetsOK(n)'
<1>1. /\ chan[n] \in Seq(Frame) /\ chan[Peer(n)] \in Seq(Frame) /\ Peer(n) # n /\ Peer(Peer(n)) = n
      /\ m = n \/ m = Peer(n)
  BY PositionType
<1>2. CASE m = n
  <2>1. chan'[Peer(n)] = chan[Peer(n)] \o out /\ chan'[n] = chan[n]
    BY <1>2, SendsTo
  <2>2. No("RESET_ACK", chan'[Peer(n)])
    BY <1>1, <2>1, NoConcat DEF ResetsOK, ResetsRule
  <2>3. ResetsFirst(chan'[Peer(n)], RxFresh(Peer(n)))
    <3>1. No("RESET", out) \/ (RxFresh(Peer(n)) /\ No("DATA", chan[Peer(n)]) /\ No("DATA", out))
      BY <1>2 DEF ResetsOK, ResetsRule
    <3> QED BY <1>1, <2>1, <3>1, ResetsFirstConcat DEF ResetsOK
  <2>4. resetPending[n] => No("DATA", chan'[Peer(n)])
    BY <1>1, <1>2, <2>1, NoConcat DEF ResetsOK, ResetsRule
  <2> QED BY <1>2, <2>1, <2>2, <2>3, <2>4 DEF ResetsOK, ResetsRule
<1>3. CASE m = Peer(n)
  <2>1. chan'[n] = chan[n] \o out /\ chan'[Peer(n)] = chan[Peer(n)]
    BY <1>1, <1>3, SendsTo
  <2>2. No("RESET", chan'[n])
    BY <1>1, <1>3, <2>1, NoConcat DEF ResetsOK, ResetsRule
  <2>3. No("RESET_ACK", chan[n]) => No("RESET_ACK", chan'[n])
    BY <1>1, <2>1, NoConcat DEF ResetsRule
  <2> QED BY <2>1, <2>2, <2>3 DEF ResetsOK
<1> QED BY <1>1, <1>2, <1>3
-----------------------------------------------------------------------------
(* Steps that only take a frame.                                           *)
LEMMA TakeOnly ==
  ASSUME IInv, NEW m \in Node, chan[m] # <<>>, Take(m),
         UNCHANGED <<txVars, rxVars, resetPending, pendingTx, history>>,
         NEW n \in Node, DirectionOK(n)
  PROVE  DirectionOK(n)'
<1>1. SameSender(n) /\ SameReceiver(Peer(n)) /\ txWindow'[n] = txWindow[n]
  BY DEF txVars, rxVars, history, SameSender, SameReceiver
<1>2. CoreOK(n) /\ FramesOK(n) /\ ResetPart(n) /\ SenderOK(n)
  BY DEF DirectionOK, CoreOK
<1>3. SlotsAlike(nextSeq[n], Cut(n), txWindow[n], txWindow'[n])
  BY <1>1, <1>2, SameWindowIsAlike
<1>4. CoreOK(n)' /\ SameView(n)
  BY <1>1, <1>2, <1>3, CoreKept
<1>5. Shrinks(n) /\ Shrinks(Peer(n))
  BY TakeShrinks, PositionType
<1>6. FramesOK(n)'
  BY <1>2, <1>4, <1>5, FramesShrink
<1>7. ResetPart(n)'
  BY <1>1, <1>2, <1>5, ResetsShrink
<1> QED BY <1>4, <1>6, <1>7 DEF DirectionOK

(* A lost frame keeps the invariant of both directions.                    *)
LEMMA LoseDelivery ==
  ASSUME IInv, NEW m \in Node, Lose(m), NEW n \in Node, DirectionOK(n)
  PROVE  DirectionOK(n)'
<1>1. chan[m] # <<>> /\ Take(m) /\ UNCHANGED <<txVars, rxVars, resetPending, pendingTx, history>>
  BY DEF Lose, resetVars
<1> QED BY <1>1, TakeOnly

(* A fragment outside the window keeps the invariant of both directions.   *)
LEMMA RxOutsideDelivery ==
  ASSUME IInv, NEW m \in Node, RxOutside(m), NEW n \in Node, DirectionOK(n)
  PROVE  DirectionOK(n)'
<1>1. chan[m] # <<>> /\ Take(m) /\ UNCHANGED <<txVars, rxVars, resetPending, pendingTx, history>>
  BY DEF RxOutside, Arrived, resetVars
<1> QED BY <1>1, TakeOnly
-----------------------------------------------------------------------------
(* Steps that only send, and at most change what the sender's slots wait   *)
(* for.                                                                    *)
BurstRule(m, burst) ==
  /\ pendingTx[m] = <<>>
  /\ \A i \in 1 .. Len(burst) :
       \/ burst[i].type = "DATA" /\ Current(nextSeq[m], Cut(m), burst[i]) /\ ~resetPending[m]
       \/ burst[i].type = "RESET" /\ resetPending[m]

(* What a node sends, with its acknowledgement in front, fits the          *)
(* direction it belongs to.                                                *)
LEMMA BurstSent ==
  ASSUME IInv, NEW m \in Node, NEW burst \in Seq(Frame), Transmit(m, burst),
         pendingTx[m] = <<>>,
         \A i \in 1 .. Len(burst) :
            \/ burst[i].type = "DATA" /\ ~resetPending[m]
            \/ burst[i].type = "RESET" /\ resetPending[m]
  PROVE  \E out \in Seq(Frame) :
           /\ Sends(m, out) /\ ResetsRule(m, out)
           /\ \A i \in 1 .. Len(out) : out[i].type = "ACK" => i = 1 /\ out[i] = AckFrame(m)
           /\ \A i \in 1 .. Len(out) : out[i].type = "DATA" =>
                \E j \in 1 .. Len(burst) : out[i] = burst[j]
<1>1. PICK out \in Seq(Frame) :
        /\ chan' = [chan EXCEPT ![Peer(m)] = @ \o out]
        /\ \A i \in 1 .. Len(out) : \/ i = 1 /\ out[i] = AckFrame(m)
                                    \/ \E j \in 1 .. Len(burst) : out[i] = burst[j]
  BY TransmitFrames
<1>2. AckFrame(m).type = "ACK"
  BY DEF AckFrame
<1>3. \A i \in 1 .. Len(out) :
        \/ i = 1 /\ out[i] = AckFrame(m) /\ out[i].type = "ACK"
        \/ /\ \E j \in 1 .. Len(burst) : out[i] = burst[j]
           /\ \/ out[i].type = "DATA" /\ ~resetPending[m]
              \/ out[i].type = "RESET" /\ resetPending[m]
  BY <1>1, <1>2
<1>4. Sends(m, out)
  BY <1>1 DEF Sends
<1>5. ResetsRule(m, out)
  BY <1>3 DEF ResetsRule, No
<1> QED BY <1>3, <1>4, <1>5

(* A step that only sends keeps the invariant of both directions.          *)
LEMMA SendOnly ==
  ASSUME IInv, NEW m \in Node, NEW burst \in Seq(Frame), Transmit(m, burst), BurstRule(m, burst),
         UNCHANGED <<txQueue, txState, txLwe, txCount, nextSeq, rxVars, resetPending, pendingTx, history>>,
         txWindow'[Peer(m)] = txWindow[Peer(m)],
         SlotsAlike(nextSeq[m], Cut(m), txWindow[m], txWindow'[m]),
         NEW n \in Node, DirectionOK(n)
  PROVE  DirectionOK(n)'
<1>1. SameSender(n) /\ SameReceiver(Peer(n))
  BY DEF rxVars, history, SameSender, SameReceiver
<1>2. CoreOK(n) /\ FramesOK(n) /\ ResetPart(n) /\ SenderOK(n)
  BY DEF DirectionOK, CoreOK
<1>3. n = m \/ (n = Peer(m) /\ m = Peer(n))
  BY PositionType
<1>4. SlotsAlike(nextSeq[n], Cut(n), txWindow[n], txWindow'[n])
  BY <1>2, <1>3, SameWindowIsAlike
<1>5. CoreOK(n)' /\ SameView(n)
  BY <1>1, <1>2, <1>4, CoreKept
<1>6. PICK out \in Seq(Frame) :
        /\ Sends(m, out) /\ ResetsRule(m, out)
        /\ \A i \in 1 .. Len(out) : out[i].type = "ACK" => i = 1 /\ out[i] = AckFrame(m)
        /\ \A i \in 1 .. Len(out) : out[i].type = "DATA" =>
             \E j \in 1 .. Len(burst) : out[i] = burst[j]
  BY BurstSent DEF BurstRule
<1>7. FramesOK(n)'
  <2>1. CASE n = m
    <3>1. \A i \in 1 .. Len(out) : out[i].type = "DATA" => Current(nextSeq[n], Cut(n), out[i])
      BY <1>6, <2>1 DEF BurstRule
    <3> QED BY <1>2, <1>5, <1>6, <2>1, <3>1, FramesSent
  <2>2. CASE m = Peer(n)
    BY <1>2, <1>5, <1>6, <2>2, FramesSentBack
  <2> QED BY <1>3, <2>1, <2>2
<1>8. TxFresh(n)' = TxFresh(n) /\ RxFresh(Peer(n))' = RxFresh(Peer(n)) /\ (NeverUsed(n) => NeverUsed(n)')
  BY <1>1, FreshKept
<1>9. ResetsOK(n) => ResetsOK(n)'
  BY <1>6, <1>8, ResetsSent
<1>10. ResetPart(n)'
  BY <1>2, <1>8, <1>9 DEF ResetPart
<1> QED BY <1>5, <1>7, <1>10 DEF DirectionOK

(* Nothing is a burst that may always be sent.                             *)
LEMMA NothingSent == ASSUME NEW m, pendingTx[m] = <<>> PROVE <<>> \in Seq(Frame) /\ BurstRule(m, <<>>)
<1>1. <<>> \in Seq(Frame) /\ Len(<<>>) = 0
  OBVIOUS
<1> QED BY <1>1 DEF BurstRule

(* Sending an acknowledgement keeps the invariant of both directions.      *)
LEMMA TxAckDelivery ==
  ASSUME IInv, NEW m \in Node, TxAck(m), NEW n \in Node, DirectionOK(n), DirectionOK(m)
  PROVE  DirectionOK(n)'
<1>1. /\ Transmit(m, <<>>) /\ pendingTx[m] = <<>> /\ txWindow' = txWindow
      /\ UNCHANGED <<txQueue, txState, txLwe, txCount, nextSeq, rxVars, resetPending, pendingTx, history>>
  BY DEF TxAck, MayTransmit, txVars, resetVars
<1>2. SlotsAlike(nextSeq[m], Cut(m), txWindow[m], txWindow'[m])
  BY <1>1, SameWindowIsAlike DEF DirectionOK, CoreOK
<1> QED BY <1>1, <1>2, NothingSent, SendOnly

(* Repeating a FULL RESET keeps the invariant of both directions.          *)
LEMMA TxResetDelivery ==
  ASSUME IInv, NEW m \in Node, TxReset(m), NEW n \in Node, DirectionOK(n), DirectionOK(m)
  PROVE  DirectionOK(n)'
<1> DEFINE burst == [i \in 1 .. ResetReps |-> ResetFrame(resetFrameId[m])]
<1>1. /\ Transmit(m, burst) /\ pendingTx[m] = <<>> /\ resetPending[m] /\ txWindow' = txWindow
      /\ UNCHANGED <<txQueue, txState, txLwe, txCount, nextSeq, rxVars, resetPending, pendingTx, history>>
  BY DEF TxReset, MayTransmit, txVars, resetVars
<1>2. ResetReps \in Nat
  BY LinkAssumption
<1>3. ResetFrame(resetFrameId[m]) \in Frame /\ ResetFrame(resetFrameId[m]).type = "RESET"
  BY DEF IInv, TypeOK, ResetFrame, Frame
<1>4. burst \in Seq(Frame) /\ \A i \in 1 .. Len(burst) : burst[i].type = "RESET"
  BY <1>2, <1>3
<1> HIDE DEF burst
<1>5. BurstRule(m, burst)
  BY <1>1, <1>4 DEF BurstRule
<1>6. SlotsAlike(nextSeq[m], Cut(m), txWindow[m], txWindow'[m])
  BY <1>1, SameWindowIsAlike DEF DirectionOK, CoreOK
<1> QED BY <1>1, <1>4, <1>5, <1>6, SendOnly
-----------------------------------------------------------------------------
(* Slots that are not acknowledged change their status.                    *)
Restated(s, t) ==
  \/ t = s
  \/ /\ t.seq = s.seq /\ t.fragment = s.fragment
     /\ t.status \notin {"ACKED", "NONE"} /\ s.status # "ACKED"

(* A change of statuses that acknowledges nothing keeps the sender's side. *)
LEMMA StatusChange ==
  ASSUME IInv, NEW m \in Node, SenderOK(m),
         \A i \in Slots : Restated(txWindow[m][i], txWindow'[m][i])
  PROVE  SlotsAlike(nextSeq[m], Cut(m), txWindow[m], txWindow'[m])
<1>1. nextSeq[m] \in Seqs
  BY DEF IInv, TypeOK
<1>2. ASSUME NEW k \in 0 .. (Len(Cut(m)) - 1)
      PROVE  Alike(txWindow[m][Slot(SeqAdd(nextSeq[m], k))], txWindow'[m][Slot(SeqAdd(nextSeq[m], k))])
  <2>1. PICK i \in Slots : i = Slot(SeqAdd(nextSeq[m], k))
    BY <1>1, SlotOfNumber
  <2>2. txWindow[m][i].status # "NONE"
    BY <2>1 DEF SenderOK, SlotsFilled
  <2>3. Alike(txWindow[m][i], txWindow'[m][i])
    BY <2>2 DEF Alike, Restated
  <2> QED BY <2>1, <2>3
<1> QED BY <1>2 DEF SlotsAlike

(* A timer that runs out keeps the invariant of both directions.           *)
LEMMA TxTimeoutDelivery ==
  ASSUME IInv, NEW m \in Node, TxTimeout(m), NEW n \in Node, DirectionOK(n), DirectionOK(m)
  PROVE  DirectionOK(n)'
<1> DEFINE S == {i \in Slots : \E k \in WithStatus(m, "SENT_WAIT_ACK") : i = Slot(SeqAdd(txLwe[m], k))}
<1>1. /\ Transmit(m, <<>>) /\ pendingTx[m] = <<>>
      /\ UNCHANGED <<txQueue, txState, txLwe, txCount, nextSeq, rxVars, resetPending, pendingTx, history>>
      /\ txWindow' = [txWindow EXCEPT ![m] = [i \in Slots |->
           IF i \in S THEN [txWindow[m][i] EXCEPT !.status = "NACKED"] ELSE txWindow[m][i]]]
  BY DEF TxTimeout, MayTransmit, resetVars
<1>2. txWindow \in [Node -> [Slots -> TxSlot \cup {NoTxSlot}]] /\ Peer(m) \in Node /\ Peer(m) # m
  BY PositionType DEF IInv, TypeOK
<1>3. \A i \in S : i \in Slots /\ txWindow[m][i].status = "SENT_WAIT_ACK"
  BY DEF WithStatus, TxStatus
<1> HIDE DEF S
<1>4. txWindow'[Peer(m)] = txWindow[Peer(m)]
  BY <1>1, <1>2
<1>5. ASSUME NEW i \in Slots PROVE Restated(txWindow[m][i], txWindow'[m][i])
  <2>1. txWindow'[m][i] = IF i \in S THEN [txWindow[m][i] EXCEPT !.status = "NACKED"] ELSE txWindow[m][i]
    BY <1>1, <1>2
  <2>2. txWindow[m][i] \in TxSlot \cup {NoTxSlot}
    BY <1>2
  <2>3. CASE i \in S
    <3>1. txWindow[m][i] \in TxSlot
      BY <1>3, <2>2, <2>3 DEF NoTxSlot
    <3> QED BY <1>3, <2>1, <2>3, <3>1 DEF TxSlot, Restated
  <2> QED BY <2>1, <2>3 DEF Restated
<1>6. SlotsAlike(nextSeq[m], Cut(m), txWindow[m], txWindow'[m])
  BY <1>5, StatusChange DEF DirectionOK, CoreOK
<1> QED BY <1>1, <1>4, <1>6, NothingSent, SendOnly

(* The frames sent again are fragments of the window.                      *)
LEMMA ResendCurrent ==
  ASSUME IInv, NEW m \in Node, CoreOK(m), NEW S \in SUBSET MustRetransmit(m), NEW f \in InOrder(S)
  PROVE  /\ Resend(m, f) \in Seq(Frame)
         /\ \A i \in 1 .. Len(Resend(m, f)) :
              Resend(m, f)[i].type = "DATA" /\ Current(nextSeq[m], Cut(m), Resend(m, f)[i])
<1>1. Resend(m, f) \in Seq(Frame)
  BY ResendType DEF IInv
<1>2. /\ nextSeq[m] \in Seqs /\ nextSeq[m] \in Int /\ Base(m) \in Int /\ 0 <= Base(m)
      /\ txLwe[m] = SeqAdd(nextSeq[m], Base(m))
  BY PositionType
<1>3. /\ txCount[m] = Len(Cut(m)) - Base(m) /\ SlotsFilled(nextSeq[m], Cut(m), txWindow[m])
      /\ Len(Cut(m)) \in Int
  BY CutType, Sizes DEF CoreOK, SenderOK, CutShape
<1>4. ASSUME NEW k \in S
      PROVE  LET q == SeqAdd(txLwe[m], k)
             IN  Current(nextSeq[m], Cut(m), DataFrame(q, txWindow[m][Slot(q)].fragment))
  <2>1. k \in 0 .. (txCount[m] - 1)
    BY DEF MustRetransmit, WithStatus
  <2>2. PICK j \in 0 .. (Len(Cut(m)) - 1) : j = Base(m) + k
    BY <1>2, <1>3, <2>1
  <2>3. SeqAdd(txLwe[m], k) = SeqAdd(nextSeq[m], j)
    <3>1. k \in Int
      BY <1>2, <1>3, <2>1
    <3>2. SeqAdd(SeqAdd(nextSeq[m], Base(m)), k) = SeqAdd(nextSeq[m], Base(m) + k)
      BY <1>2, <3>1, AddAdd
    <3> QED BY <1>2, <2>2, <3>2
  <2>4. txWindow[m][Slot(SeqAdd(nextSeq[m], j))].fragment = Cut(m)[j + 1]
    BY <1>3 DEF SlotsFilled
  <2> QED BY <2>3, <2>4 DEF Current
<1>5. ASSUME NEW i \in 1 .. Len(Resend(m, f))
      PROVE  Resend(m, f)[i].type = "DATA" /\ Current(nextSeq[m], Cut(m), Resend(m, f)[i])
  <2>1. i \in DOMAIN f /\ DOMAIN Resend(m, f) = DOMAIN f
    BY <1>1 DEF Resend
  <2>2. f[i] \in S
    BY <2>1 DEF InOrder
  <2>3. Resend(m, f)[i] =
          DataFrame(SeqAdd(txLwe[m], f[i]), txWindow[m][Slot(SeqAdd(txLwe[m], f[i]))].fragment)
    BY <2>1 DEF Resend
  <2> QED BY <1>4, <2>2, <2>3 DEF DataFrame
<1> QED BY <1>1, <1>5

(* A retransmission keeps the invariant of both directions.                *)
LEMMA TxRetransmitDelivery ==
  ASSUME IInv, NEW m \in Node, TxRetransmit(m), NEW n \in Node, DirectionOK(n), DirectionOK(m)
  PROVE  DirectionOK(n)'
<1> DEFINE S == {i \in Slots : \E k \in MustRetransmit(m) : i = Slot(SeqAdd(txLwe[m], k))}
<1>1. /\ pendingTx[m] = <<>> /\ ~resetPending[m]
      /\ UNCHANGED <<txQueue, txState, txLwe, txCount, nextSeq, rxVars, resetPending, pendingTx, history>>
      /\ txWindow' = [txWindow EXCEPT ![m] = [i \in Slots |->
           IF i \in S THEN [txWindow[m][i] EXCEPT !.status = "SENT_WAIT_ACK", !.retx = txWindow[m][i].retx + 1]
           ELSE txWindow[m][i]]]
  BY DEF TxRetransmit, MayTransmit, resetVars
<1>2. PICK f \in InOrder(MustRetransmit(m)) : Transmit(m, Resend(m, f))
  BY DEF TxRetransmit
<1>3. txWindow \in [Node -> [Slots -> TxSlot \cup {NoTxSlot}]] /\ Peer(m) \in Node /\ Peer(m) # m
  BY PositionType DEF IInv, TypeOK
<1>4. \A i \in S : i \in Slots /\ txWindow[m][i].status = "NACKED"
  BY DEF MustRetransmit, WithStatus, TxStatus
<1> HIDE DEF S
<1>5. txWindow'[Peer(m)] = txWindow[Peer(m)]
  BY <1>1, <1>3
<1>6. ASSUME NEW i \in Slots PROVE Restated(txWindow[m][i], txWindow'[m][i])
  <2>1. txWindow'[m][i] =
          IF i \in S THEN [txWindow[m][i] EXCEPT !.status = "SENT_WAIT_ACK", !.retx = txWindow[m][i].retx + 1]
          ELSE txWindow[m][i]
    BY <1>1, <1>3
  <2>2. txWindow[m][i] \in TxSlot \cup {NoTxSlot}
    BY <1>3
  <2>3. CASE i \in S
    <3>1. txWindow[m][i] \in TxSlot
      BY <1>4, <2>2, <2>3 DEF NoTxSlot
    <3> QED BY <1>4, <2>1, <2>3, <3>1 DEF TxSlot, Restated
  <2> QED BY <2>1, <2>3 DEF Restated
<1>7. CoreOK(m) /\ SenderOK(m)
  BY DEF DirectionOK, CoreOK
<1>8. SlotsAlike(nextSeq[m], Cut(m), txWindow[m], txWindow'[m])
  BY <1>6, <1>7, StatusChange
<1>9. Resend(m, f) \in Seq(Frame) /\ BurstRule(m, Resend(m, f))
  BY <1>1, <1>7, ResendCurrent DEF BurstRule
<1> QED BY <1>1, <1>2, <1>5, <1>8, <1>9, SendOnly

(* The node sends its own reset frames.                                    *)
LEMMA ResetsPending ==
  ASSUME IInv, NEW m \in Node, NEW n \in Node, ResetsOK(n), pendingTx[m] # <<>>,
         OnlyResets(pendingTx[m]), Sends(m, <<Head(pendingTx[m])>>),
         pendingTx' = [pendingTx EXCEPT ![m] = Tail(@)],
         TxFresh(n)' = TxFresh(n), RxFresh(Peer(n))' = RxFresh(Peer(n)),
         resetPending' = resetPending
  PROVE  ResetsOK(n)'
<1> DEFINE g == Head(pendingTx[m])
           out == <<g>>
<1>1. /\ chan[n] \in Seq(Frame) /\ chan[Peer(n)] \in Seq(Frame)
      /\ pendingTx[n] \in Seq(Frame) /\ pendingTx[Peer(n)] \in Seq(Frame)
      /\ Peer(n) \in Node /\ Peer(n) # n /\ Peer(Peer(n)) = n
      /\ m = n \/ m = Peer(n)
  BY PositionType
<1>2. pendingTx \in [Node -> Seq(Frame)]
  BY DEF IInv, TypeOK
<1>3. g \in Frame /\ g = pendingTx[m][1] /\ 1 \in 1 .. Len(pendingTx[m]) /\ g.type \in {"RESET", "RESET_ACK"}
  BY <1>2, TailFacts DEF OnlyResets
<1>4. out \in Seq(Frame) /\ \A t : g.type # t => No(t, out)
  BY <1>3 DEF No
<1>5. \A t : No(t, pendingTx[m]) => No(t, Tail(pendingTx[m])) /\ g.type # t
  BY <1>2, <1>3, NoTail DEF No
<1>6. No("DATA", out)
  BY <1>3, <1>4
<1>7. Sends(m, out)
  OBVIOUS
<1> HIDE DEF g, out
<1>8. CASE m = n
  <2>1. chan'[Peer(n)] = chan[Peer(n)] \o out /\ chan'[n] = chan[n]
    BY <1>4, <1>7, <1>8, SendsTo
  <2>2. pendingTx'[n] = Tail(pendingTx[n]) /\ pendingTx'[Peer(n)] = pendingTx[Peer(n)]
    BY <1>1, <1>2, <1>8
  <2>3. g.type = "RESET" /\ Len(pendingTx[n]) = 1 /\ resetPending[n]
    BY <1>3, <1>5, <1>8 DEF ResetsOK
  <2>4. pendingTx'[n] = <<>>
    <3>1. Tail(pendingTx[n]) \in Seq(Frame) /\ Len(Tail(pendingTx[n])) = 0
      BY <1>1, <1>8, <2>3, TailFacts
    <3> QED BY <2>2, <3>1, EmptySeq
  <2>5. No("RESET_ACK", chan'[Peer(n)])
    BY <1>1, <1>4, <2>1, <2>3, NoConcat DEF ResetsOK
  <2>6. ResetsFirst(chan'[Peer(n)], RxFresh(Peer(n)))
    BY <1>1, <1>4, <1>6, <2>1, <2>3, ResetsFirstConcat DEF ResetsOK
  <2>7. No("DATA", chan'[Peer(n)])
    BY <1>1, <1>4, <1>6, <2>1, <2>3, NoConcat DEF ResetsOK
  <2>8. No("RESET_ACK", pendingTx'[n])
    BY <1>5, <1>8, <2>2 DEF ResetsOK
  <2> QED BY <2>1, <2>2, <2>4, <2>5, <2>6, <2>7, <2>8 DEF ResetsOK
<1>9. CASE m = Peer(n)
  <2>1. chan'[n] = chan[n] \o out /\ chan'[Peer(n)] = chan[Peer(n)]
    BY <1>1, <1>4, <1>7, <1>9, SendsTo
  <2>2. pendingTx'[Peer(n)] = Tail(pendingTx[Peer(n)]) /\ pendingTx'[n] = pendingTx[n]
    BY <1>1, <1>2, <1>9
  <2>3. g.type # "RESET"
    BY <1>5, <1>9 DEF ResetsOK
  <2>4. No("RESET", chan'[n]) /\ No("RESET", pendingTx'[Peer(n)])
    BY <1>1, <1>4, <1>5, <1>9, <2>1, <2>2, <2>3, NoConcat DEF ResetsOK
  <2>5. No("RESET_ACK", pendingTx[Peer(n)]) /\ No("RESET_ACK", chan[n]) =>
          No("RESET_ACK", chan'[n]) /\ No("RESET_ACK", pendingTx'[Peer(n)])
    BY <1>1, <1>4, <1>5, <1>9, <2>1, <2>2, NoConcat
  <2> QED BY <2>1, <2>2, <2>4, <2>5 DEF ResetsOK
<1> QED BY <1>1, <1>8, <1>9

(* Sending a queued reset frame keeps the invariant of both directions.    *)
LEMMA TxPendingDelivery ==
  ASSUME IInv, NEW m \in Node, TxPending(m), NEW n \in Node, DirectionOK(n), DirectionOK(m)
  PROVE  DirectionOK(n)'
<1> DEFINE out == <<Head(pendingTx[m])>>
<1>1. /\ pendingTx[m] # <<>> /\ pendingTx' = [pendingTx EXCEPT ![m] = Tail(@)]
      /\ chan' = [chan EXCEPT ![Peer(m)] = Append(@, Head(pendingTx[m]))]
      /\ UNCHANGED <<txVars, rxVars, resetPending, history>>
  BY DEF TxPending, resetVars
<1>2. /\ pendingTx \in [Node -> Seq(Frame)] /\ chan \in [Node -> Seq(Frame)]
      /\ Peer(m) \in Node /\ chan[Peer(m)] \in Seq(Frame)
  BY PositionType DEF IInv, TypeOK
<1>3. OnlyResets(pendingTx[m])
  BY DEF DirectionOK, ResetPart
<1>4. /\ Head(pendingTx[m]) \in Frame /\ Head(pendingTx[m]).type \in {"RESET", "RESET_ACK"}
      /\ OnlyResets(Tail(pendingTx[m]))
  BY <1>1, <1>2, <1>3, TailFacts DEF OnlyResets
<1>5. /\ out \in Seq(Frame) /\ Len(out) = 1 /\ \A i \in 1 .. Len(out) : out[i] = Head(pendingTx[m])
  BY <1>4
<1>6. Sends(m, out)
  <2>1. Append(chan[Peer(m)], Head(pendingTx[m])) = chan[Peer(m)] \o out
    BY <1>2, <1>4, AppendIsConcat
  <2> QED BY <1>1, <1>2, <2>1 DEF Sends
<1> HIDE DEF out
<1>7. SameSender(n) /\ SameReceiver(Peer(n)) /\ txWindow'[n] = txWindow[n]
  BY <1>1 DEF txVars, rxVars, history, SameSender, SameReceiver
<1>8. CoreOK(n) /\ FramesOK(n) /\ ResetPart(n) /\ SenderOK(n)
  BY DEF DirectionOK, CoreOK
<1>9. CoreOK(n)' /\ SameView(n)
  BY <1>7, <1>8, SameWindowIsAlike, CoreKept
<1>10. FramesOK(n)'
  <2>1. \A i \in 1 .. Len(out) : out[i].type \notin {"DATA", "ACK"}
    BY <1>4, <1>5
  <2>2. CASE n = m
    BY <1>5, <1>6, <1>8, <1>9, <2>1, <2>2, FramesSent
  <2>3. CASE m = Peer(n)
    BY <1>5, <1>6, <1>8, <1>9, <2>1, <2>3, FramesSentBack
  <2> QED BY <2>2, <2>3, PositionType
<1>11. OnlyResets(pendingTx'[n])
  BY <1>1, <1>2, <1>4, <1>8 DEF ResetPart
<1>12. TxFresh(n)' = TxFresh(n) /\ RxFresh(Peer(n))' = RxFresh(Peer(n)) /\ (NeverUsed(n) => NeverUsed(n)')
  BY <1>7, FreshKept
<1>13. ResetsOK(n) => ResetsOK(n)'
  BY <1>1, <1>3, <1>6, <1>12, ResetsPending DEF out
<1>14. ResetPart(n)'
  BY <1>8, <1>11, <1>12, <1>13 DEF ResetPart
<1> QED BY <1>9, <1>10, <1>14 DEF DirectionOK
-----------------------------------------------------------------------------
(* No more is handed over than was submitted.                              *)
LEMMA HandedBound ==
  ASSUME IInv, NEW n \in Node, QueueOK(n)
  PROVE  /\ Total(n) \in Nat /\ Waiting(n) \in Nat /\ Waiting(n) <= Total(n)
         /\ Done(n) \in Nat /\ Done(n) = Total(n) - Waiting(n)
         /\ Handed(n) \in Nat /\ Done(n) <= Handed(n) /\ Handed(n) <= Total(n)
         /\ txQueue[n] # <<>> => Waiting(n) > 0
<1>1. submitted[n] \in Seq(1 .. MaxFragments) /\ txQueue[n] \in Seq(CPdu)
  BY DEF IInv, TypeOK
<1>2. Total(n) \in Nat
  BY <1>1 DEF Total
<1>3. Waiting(n) \in Nat /\ (txQueue[n] # <<>> => Waiting(n) > 0)
  BY <1>1 DEF Waiting
<1>4. Waiting(n) <= Total(n)
  BY DEF QueueOK
<1>5. Done(n) \in Nat /\ Done(n) = Total(n) - Waiting(n)
  BY <1>2, <1>3, <1>4 DEF Done
<1>6. Cut(n) # <<>> => Done(n) < Total(n)
  <2>1. Cut(n) # <<>> => txQueue[n] # <<>>
    BY DEF IInv, BusyHasHead, Cut
  <2> QED BY <1>2, <1>3, <1>5, <2>1
<1> QED BY <1>2, <1>3, <1>4, <1>5, <1>6 DEF Handed

(* A new C_PDU waits at the end of the queue.                              *)
LEMMA SubmitCore ==
  ASSUME IInv, NEW m \in Node, Submit(m), CoreOK(m)
  PROVE  CoreOK(m)' /\ SameView(m) /\ TxFresh(m)' = TxFresh(m)
<1>1. PICK size \in 1 .. MaxFragments :
        /\ submitted' = [submitted EXCEPT ![m] = Append(@, size)]
        /\ txQueue' = [txQueue EXCEPT
                         ![m] = Append(@, [id |-> Len(submitted[m]) + 1, size |-> size])]
  BY DEF Submit
<1>2. UNCHANGED <<txState, txLwe, txCount, nextSeq, txWindow, rxLwe, deliverLwe, rxWindow,
                  delivered, confirmed>>
  BY DEF Submit, rxVars
<1> DEFINE c == [id |-> Len(submitted[m]) + 1, size |-> size]
<1>3. /\ submitted \in [Node -> Seq(1 .. MaxFragments)] /\ txQueue \in [Node -> Seq(CPdu)]
      /\ submitted[m] \in Seq(1 .. MaxFragments) /\ txQueue[m] \in Seq(CPdu)
      /\ c \in CPdu
  <2>1. /\ submitted \in [Node -> Seq(1 .. MaxFragments)] /\ txQueue \in [Node -> Seq(CPdu)]
        /\ submitted[m] \in Seq(1 .. MaxFragments) /\ txQueue[m] \in Seq(CPdu)
    BY DEF IInv, TypeOK
  <2>2. c \in CPdu
    BY <2>1 DEF CPdu
  <2> HIDE DEF c
  <2> QED BY <2>1, <2>2
<1>4. submitted'[m] = Append(submitted[m], size) /\ txQueue'[m] = Append(txQueue[m], c)
  BY <1>1, <1>3
<1>5. /\ Total(m)' = Total(m) + 1 /\ Total(m) \in Nat
      /\ submitted'[m][Total(m) + 1] = size
      /\ \A i \in 1 .. Total(m) : submitted'[m][i] = submitted[m][i]
  BY <1>3, <1>4, AppendProperties DEF Total
<1>6. /\ Waiting(m)' = Waiting(m) + 1 /\ Waiting(m) \in Nat
      /\ txQueue'[m][Waiting(m) + 1] = c
      /\ \A i \in 1 .. Waiting(m) : txQueue'[m][i] = txQueue[m][i]
      /\ txQueue[m] # <<>> => Head(txQueue'[m]) = Head(txQueue[m])
  <2>1. /\ Waiting(m)' = Waiting(m) + 1 /\ Waiting(m) \in Nat
        /\ txQueue'[m][Waiting(m) + 1] = c
        /\ \A i \in 1 .. Waiting(m) : txQueue'[m][i] = txQueue[m][i]
    BY <1>3, <1>4, AppendProperties DEF Waiting
  <2>2. ASSUME txQueue[m] # <<>> PROVE Head(txQueue'[m]) = Head(txQueue[m])
    BY <1>3, <1>4, <2>2
  <2> QED BY <2>1, <2>2
<1> HIDE DEF c
<1>7. Cut(m)' = Cut(m)
  BY <1>2, <1>6 DEF IInv, BusyHasHead, Cut
<1>8. Base(m)' = Base(m) /\ Edge(m)' = Edge(m)
  BY <1>2 DEF Base, Edge
<1>9. /\ Done(m)' = Done(m) /\ Done(m) \in Nat /\ Done(m) = Total(m) - Waiting(m)
      /\ Waiting(m) <= Total(m) /\ Waiting(m)' <= Total(m)'
  <2>1. QueueOK(m)
    BY DEF CoreOK
  <2>2. Done(m) \in Nat /\ Done(m) = Total(m) - Waiting(m) /\ Waiting(m) <= Total(m)
    BY <2>1, HandedBound
  <2>3. Done(m)' = Total(m)' - Waiting(m)'
    BY DEF Done
  <2> QED BY <1>5, <1>6, <2>2, <2>3
<1>10. SameView(m)
  BY <1>2, <1>7, <1>8 DEF SameView, Acked, Got
<1>11. QueueOK(m)'
  <2>1. confirmed'[m] = 1 .. Done(m)'
    BY <1>2, <1>9 DEF CoreOK, QueueOK
  <2>2. ASSUME NEW k \in 1 .. Waiting(m)'
        PROVE  txQueue'[m][k] = [id |-> Done(m) + k, size |-> submitted'[m][Done(m) + k]]
    <3>1. CASE k \in 1 .. Waiting(m)
      <4>1. Done(m) + k \in 1 .. Total(m)
        BY <1>5, <1>6, <1>9, <3>1
      <4>2. txQueue[m][k] = [id |-> Done(m) + k, size |-> submitted[m][Done(m) + k]]
        BY <3>1 DEF CoreOK, QueueOK
      <4> QED BY <1>5, <1>6, <3>1, <4>1, <4>2
    <3>2. CASE k = Waiting(m) + 1
      <4>1. Done(m) + k = Total(m) + 1
        BY <1>5, <1>6, <1>9, <3>2
      <4>2. c = [id |-> Total(m) + 1, size |-> size]
        BY DEF c, Total
      <4> QED BY <1>5, <1>6, <3>2, <4>1, <4>2
    <3> QED BY <1>6, <3>1, <3>2
  <2> QED BY <1>9, <2>1, <2>2 DEF QueueOK
<1>12. SenderOK(m)' /\ ReceiverOK(m)' /\ HeldOK(m)'
  BY <1>2, <1>7, <1>8, <1>10 DEF CoreOK, SenderOK, ReceiverOK, HeldOK, SameView
<1>13. DeliveredOK(m)'
  <2>1. Handed(m)' = Handed(m)
    BY <1>7, <1>8, <1>9 DEF Handed
  <2>2. Handed(m) \in Nat /\ Handed(m) <= Total(m)
    BY HandedBound DEF CoreOK
  <2>3. \A i \in 1 .. Handed(m) : Payload(m, i)' = Payload(m, i)
    BY <1>5, <2>2 DEF Payload
  <2> QED BY <1>2, <2>1, <2>3 DEF CoreOK, DeliveredOK
<1>14. TxFresh(m)' = TxFresh(m)
  BY <1>2 DEF TxFresh
<1> QED BY <1>10, <1>11, <1>12, <1>13, <1>14 DEF CoreOK

(* Submitting a C_PDU keeps the invariant of both directions.              *)
LEMMA SubmitDelivery ==
  ASSUME IInv, NEW m \in Node, Submit(m), NEW n \in Node, DirectionOK(n)
  PROVE  DirectionOK(n)'
<1>1. /\ UNCHANGED <<txState, txLwe, txCount, nextSeq, txWindow, rxVars, resetPending, pendingTx,
                     chan, delivered, confirmed>>
      /\ \E size \in 1 .. MaxFragments :
           /\ submitted' = [submitted EXCEPT ![m] = Append(@, size)]
           /\ txQueue' = [txQueue EXCEPT
                            ![m] = Append(@, [id |-> Len(submitted[m]) + 1, size |-> size])]
      /\ Len(submitted[m]) < MaxSubmit[m]
  BY DEF Submit, resetVars
<1>2. CoreOK(n) /\ FramesOK(n) /\ ResetPart(n) /\ SenderOK(n)
  BY DEF DirectionOK, CoreOK
<1>3. RxFresh(Peer(n))' = RxFresh(Peer(n)) /\ Shrinks(n) /\ Shrinks(Peer(n))
  BY <1>1 DEF rxVars, RxFresh, Shrinks
<1>4. /\ CoreOK(n)' /\ SameView(n) /\ TxFresh(n)' = TxFresh(n)
      /\ NeverUsed(n) /\ MaxSubmit[n] = 0 => NeverUsed(n)'
  <2>1. CASE n = m
    <3>1. CoreOK(n)' /\ SameView(n) /\ TxFresh(n)' = TxFresh(n)
      BY <1>2, <2>1, SubmitCore
    <3>2. MaxSubmit[n] # 0
      <4>1. Len(submitted[n]) \in Nat
        BY DEF IInv, TypeOK
      <4> QED BY <1>1, <2>1, <4>1
    <3> QED BY <3>1, <3>2
  <2>2. CASE n # m
    <3>1. submitted'[n] = submitted[n] /\ txQueue'[n] = txQueue[n]
      BY <1>1, <2>2 DEF IInv, TypeOK
    <3>2. SameSender(n) /\ SameReceiver(Peer(n)) /\ txWindow'[n] = txWindow[n]
      BY <1>1, <3>1 DEF rxVars, SameSender, SameReceiver
    <3>3. SlotsAlike(nextSeq[n], Cut(n), txWindow[n], txWindow'[n])
      BY <1>2, <3>2, SameWindowIsAlike
    <3> QED BY <1>2, <3>2, <3>3, CoreKept, FreshKept
  <2> QED BY <2>1, <2>2
<1>5. FramesOK(n)'
  BY <1>2, <1>3, <1>4, FramesShrink
<1>6. ResetsOK(n) => ResetsOK(n)'
  BY <1>1, <1>3, <1>4 DEF ResetsOK
<1>7. ResetPart(n)'
  BY <1>1, <1>2, <1>4, <1>6 DEF ResetPart
<1> QED BY <1>4, <1>5, <1>7 DEF DirectionOK
-----------------------------------------------------------------------------
(* A reset of fresh windows changes nothing.                               *)
LEMMA FreshWindowsReset ==
  ASSUME IInv, NEW m \in Node, ResetWindows(m), TxFresh(m), RxFresh(m), txQueue' = txQueue,
         UNCHANGED history, NEW n \in Node, CoreOK(n)
  PROVE  /\ SameSender(n) /\ SameReceiver(Peer(n))
         /\ CoreOK(n)' /\ SameView(n)
<1>1. /\ txState \in [Node -> {"IDLE", "WAIT_ACK"}] /\ txLwe \in [Node -> Seqs]
      /\ txCount \in [Node -> 0 .. MaxFragments] /\ nextSeq \in [Node -> Seqs]
      /\ txWindow \in [Node -> [Slots -> TxSlot \cup {NoTxSlot}]]
      /\ rxLwe \in [Node -> Seqs] /\ deliverLwe \in [Node -> Seqs]
      /\ rxWindow \in [Node -> [Slots -> RxSlot \cup {EmptyRxSlot}]]
  BY DEF IInv, TypeOK
<1>2. txState' = txState /\ txLwe' = txLwe /\ txCount' = txCount /\ nextSeq' = nextSeq
  BY <1>1 DEF ResetWindows, TxFresh
<1>3. rxLwe' = rxLwe /\ deliverLwe' = deliverLwe
  BY <1>1 DEF ResetWindows, RxFresh
<1>4. rxWindow' = rxWindow
  <2>1. rxWindow[m] = [i \in Slots |-> EmptyRxSlot]
    BY <1>1 DEF RxFresh
  <2> QED BY <1>1, <2>1 DEF ResetWindows
<1>5. SameSender(n) /\ SameReceiver(Peer(n))
  BY <1>2, <1>3, <1>4 DEF SameSender, SameReceiver, history
<1>6. SlotsAlike(nextSeq[n], Cut(n), txWindow[n], txWindow'[n])
  <2>1. CASE n = m
    <3>1. Len(Cut(n)) = 0
      BY <2>1, CutType DEF TxFresh
    <3> QED BY <3>1 DEF SlotsAlike
  <2>2. CASE n # m
    <3>1. txWindow'[n] = txWindow[n]
      BY <1>1, <2>2 DEF ResetWindows
    <3> QED BY <3>1, SameWindowIsAlike DEF CoreOK
  <2> QED BY <2>1, <2>2
<1>7. CoreOK(n)' /\ SameView(n)
  BY <1>5, <1>6, CoreKept
<1> QED BY <1>5, <1>7

(* A node that was given nothing has nothing in its queue.                 *)
LEMMA QueueOfUnused ==
  ASSUME IInv, NEW n \in Node, NeverUsed(n), QueueOK(n)
  PROVE  txQueue[n] = <<>>
<1>1. Total(n) = 0
  BY DEF NeverUsed, Total
<1>2. Waiting(n) \in Nat /\ Waiting(n) <= 0 /\ (txQueue[n] # <<>> => Waiting(n) > 0)
  BY <1>1, HandedBound
<1> QED BY <1>2

(* The FULL RESET that opens a link finds a node that has sent nothing and *)
(* received nothing.                                                       *)
LEMMA ResetFindsFresh ==
  ASSUME IInv, NEW m \in Node, RxReset(m), DirectionOK(m), DirectionOK(Peer(m))
  PROVE  /\ MaxSubmit[m] = 0 /\ NeverUsed(m) /\ TxFresh(m) /\ txQueue[m] = <<>>
         /\ RxFresh(m)
<1>1. Peer(m) \in Node /\ Peer(Peer(m)) = m /\ chan[m] \in Seq(Frame)
  BY PositionType
<1>2. chan[m] # <<>> /\ Head(chan[m]).type = "RESET"
  BY DEF RxReset, Arrived
<1>3. chan[m][1].type = "RESET" /\ 1 \in 1 .. Len(chan[m])
  BY <1>1, <1>2, TailFacts
<1>4. CoreOK(m) /\ ResetPart(m) /\ ResetPart(Peer(m))
  BY DEF DirectionOK
<1>5. MaxSubmit[m] = 0 /\ NeverUsed(m)
  BY <1>3, <1>4 DEF ResetPart, ResetsOK, No
<1>6. TxFresh(m) /\ txQueue[m] = <<>>
  BY <1>4, <1>5, QueueOfUnused DEF NeverUsed, CoreOK
<1>7. RxFresh(m)
  BY <1>1, <1>3, <1>4 DEF ResetPart, NeverUsed, ResetsOK, ResetsFirst
<1> QED BY <1>5, <1>6, <1>7

(* A FULL RESET that arrives keeps the invariant of both directions.       *)
LEMMA RxResetDelivery ==
  ASSUME IInv, NEW m \in Node, RxReset(m), NEW n \in Node, DirectionOK(m), DirectionOK(Peer(m))
  PROVE  DirectionOK(n)'
<1> DEFINE q == Peer(m)
           g == [type |-> "RESET_ACK", frameId |-> Head(chan[m]).frameId]
<1>1. /\ q \in Node /\ q # m /\ Peer(q) = m /\ (n = m \/ n = q)
      /\ chan[m] \in Seq(Frame) /\ chan[q] \in Seq(Frame)
      /\ pendingTx[m] \in Seq(Frame) /\ pendingTx[q] \in Seq(Frame)
      /\ m = Peer(q)
  BY PositionType
<1>2. chan[m] # <<>> /\ Head(chan[m]).type = "RESET" /\ Take(m) /\ ResetFull(m)
  BY DEF RxReset, Arrived
<1>3. UNCHANGED history /\ pendingTx' = [pendingTx EXCEPT ![m] = Append(@, g)]
  BY DEF RxReset
<1>4. chan[m][1].type = "RESET" /\ 1 \in 1 .. Len(chan[m])
  BY <1>1, <1>2, TailFacts
<1>5. CoreOK(m) /\ CoreOK(q) /\ ResetPart(m) /\ ResetPart(q) /\ FramesOK(m) /\ FramesOK(q)
  BY DEF DirectionOK
<1>6. MaxSubmit[m] = 0 /\ NeverUsed(m)
  BY ResetFindsFresh
<1>7. TxFresh(m) /\ txQueue[m] = <<>>
  BY ResetFindsFresh
<1>8. RxFresh(m)
  BY ResetFindsFresh
<1>9. ResetWindows(m) /\ txQueue' = txQueue
  BY <1>2, <1>7 DEF ResetFull, IInv, TypeOK
<1>10. SameSender(n) /\ SameReceiver(Peer(n)) /\ CoreOK(n)' /\ SameView(n)
  BY <1>1, <1>3, <1>5, <1>7, <1>8, <1>9, FreshWindowsReset
<1>11. Shrinks(n) /\ Shrinks(Peer(n))
  BY <1>1, <1>2, TakeShrinks
<1>12. FramesOK(n)'
  BY <1>1, <1>5, <1>10, <1>11, FramesShrink
<1>13. TxFresh(n)' = TxFresh(n) /\ RxFresh(Peer(n))' = RxFresh(Peer(n)) /\ (NeverUsed(n) => NeverUsed(n)')
  BY <1>10, FreshKept
<1>14. /\ pendingTx \in [Node -> Seq(Frame)] /\ g.type = "RESET_ACK" /\ g \in Frame
       /\ resetPending \in [Node -> BOOLEAN]
       /\ resetPending' = [resetPending EXCEPT ![m] = FALSE]
  <2>1. Head(chan[m]) \in Frame
    BY <1>1, <1>4, TailFacts
  <2>2. Head(chan[m]).frameId \in 0 .. 255
    BY <1>2, <2>1 DEF Frame
  <2> QED BY <1>9, <2>2 DEF IInv, TypeOK, Frame, ResetWindows
<1> HIDE DEF g
<1>15. pendingTx'[m] = Append(pendingTx[m], g) /\ pendingTx'[q] = pendingTx[q]
  BY <1>1, <1>3, <1>14
<1>16. /\ Len(pendingTx'[m]) = Len(pendingTx[m]) + 1
       /\ \A i \in 1 .. Len(pendingTx'[m]) :
            pendingTx'[m][i] = g \/ (i \in 1 .. Len(pendingTx[m]) /\ pendingTx'[m][i] = pendingTx[m][i])
  BY <1>1, <1>14, <1>15, AppendProperties
<1>17. OnlyResets(pendingTx'[m]) /\ OnlyResets(pendingTx'[q])
  BY <1>5, <1>14, <1>15, <1>16 DEF ResetPart, OnlyResets
<1>18. ASSUME n = q, ResetsOK(q) PROVE ResetsOK(q)'
  <2>1. pendingTx[q] = <<>>
    BY <1>1, <1>4, <1>18 DEF ResetsOK, No
  <2>2. No("RESET", pendingTx'[m])
    BY <1>1, <1>14, <1>16, <1>18 DEF ResetsOK, No
  <2>3. No("RESET", chan'[q]) /\ No("RESET_ACK", chan'[m])
    BY <1>1, <1>11, <1>18, NoShrink DEF ResetsOK
  <2>4. ResetsFirst(chan'[m], RxFresh(m))
    BY <1>1, <1>11, <1>18, ResetsFirstTail DEF ResetsOK, Shrinks
  <2>5. No("DATA", chan[m]) => No("DATA", chan'[m])
    BY <1>1, <1>11, <1>18, NoShrink
  <2>6. resetPending'[q] = resetPending[q] /\ ~resetPending'[m]
    BY <1>1, <1>14
  <2> QED BY <1>1, <1>13, <1>15, <1>18, <2>1, <2>2, <2>3, <2>4, <2>5, <2>6 DEF ResetsOK
<1>19. ResetPart(n)'
  BY <1>1, <1>5, <1>6, <1>13, <1>17, <1>18 DEF ResetPart
<1> QED BY <1>10, <1>12, <1>19 DEF DirectionOK

(* The answer to a reset finds a direction in which nothing was sent yet.  *)
LEMMA AnswerFindsFresh ==
  ASSUME IInv, NEW m \in Node, DirectionOK(m), DirectionOK(Peer(m)),
         Arrived(m, "RESET_ACK"), resetPending[m]
  PROVE  /\ MaxSubmit[Peer(m)] = 0 /\ NeverUsed(Peer(m)) /\ RxFresh(m) /\ TxFresh(m)
         /\ ~No("RESET_ACK", chan[m])
<1>1. Peer(m) \in Node /\ Peer(Peer(m)) = m /\ chan[m] \in Seq(Frame)
  BY PositionType
<1>2. chan[m] # <<>> /\ Head(chan[m]).type = "RESET_ACK"
  BY DEF Arrived
<1>3. chan[m][1].type = "RESET_ACK" /\ 1 \in 1 .. Len(chan[m])
  BY <1>1, <1>2, TailFacts
<1>4. ResetPart(m) /\ ResetPart(Peer(m))
  BY DEF DirectionOK
<1>5. ~No("RESET_ACK", chan[m])
  BY <1>3 DEF No
<1>6. MaxSubmit[Peer(m)] = 0 /\ NeverUsed(Peer(m)) /\ RxFresh(m)
  BY <1>1, <1>4, <1>5 DEF ResetPart, ResetsOK, NeverUsed
<1>7. TxFresh(m)
  BY <1>4 DEF ResetPart, ResetsOK, NeverUsed
<1> QED BY <1>5, <1>6, <1>7

(* The answer to the reset that opened the link finds fresh windows.       *)
LEMMA RxResetAckDelivery ==
  ASSUME IInv, NEW m \in Node, RxResetAck(m), NEW n \in Node, DirectionOK(m), DirectionOK(Peer(m))
  PROVE  DirectionOK(n)'
<1> DEFINE q == Peer(m)
<1>1. /\ q \in Node /\ q # m /\ Peer(q) = m /\ (n = m \/ n = q)
      /\ chan[m] \in Seq(Frame) /\ chan[q] \in Seq(Frame)
      /\ m = Peer(q)
  BY PositionType
<1>2. chan[m] # <<>> /\ Head(chan[m]).type = "RESET_ACK" /\ Take(m)
  BY DEF RxResetAck, Arrived
<1>3. UNCHANGED <<txQueue, history, pendingTx>>
  BY DEF RxResetAck
<1>4. DirectionOK(n)
  BY <1>1
<1>5. CASE UNCHANGED <<txState, txLwe, txCount, nextSeq, txWindow, rxVars, ackDirty, resetPending>>
  BY <1>2, <1>3, <1>4, <1>5, TakeOnly DEF txVars
<1>6. CASE resetPending[m] /\ ResetWindows(m)
  <2>2. CoreOK(m) /\ CoreOK(q) /\ ResetPart(m) /\ ResetPart(q) /\ FramesOK(m) /\ FramesOK(q)
    BY DEF DirectionOK
  <2>3. MaxSubmit[q] = 0 /\ NeverUsed(q) /\ RxFresh(m) /\ TxFresh(m) /\ ~No("RESET_ACK", chan[m])
    BY <1>2, <1>6, AnswerFindsFresh DEF Arrived
  <2>6. SameSender(n) /\ SameReceiver(Peer(n)) /\ CoreOK(n)' /\ SameView(n)
    BY <1>1, <1>3, <1>6, <2>2, <2>3, FreshWindowsReset
  <2>7. Shrinks(n) /\ Shrinks(Peer(n))
    BY <1>1, <1>2, TakeShrinks
  <2>8. FramesOK(n)'
    BY <1>4, <2>6, <2>7, FramesShrink DEF DirectionOK
  <2>9. TxFresh(n)' = TxFresh(n) /\ RxFresh(Peer(n))' = RxFresh(Peer(n)) /\ (NeverUsed(n) => NeverUsed(n)')
    BY <2>6, FreshKept
  <2>10. resetPending'[q] = resetPending[q] /\ ~resetPending'[m]
    BY <1>1, <1>6 DEF ResetWindows, IInv, TypeOK
  <2>11. ASSUME n = m, ResetsOK(m) PROVE ResetsOK(m)'
    <3>1. pendingTx[m] = <<>>
      BY <2>3, <2>11 DEF ResetsOK
    <3>2. No("RESET", chan'[m]) /\ No("RESET_ACK", chan'[q])
      BY <1>1, <2>7, <2>11, NoShrink DEF ResetsOK
    <3>3. ResetsFirst(chan'[q], RxFresh(q))
      BY <1>1, <2>7, <2>11, ResetsFirstTail DEF ResetsOK, Shrinks
    <3> QED BY <1>3, <2>9, <2>10, <2>11, <3>1, <3>2, <3>3 DEF ResetsOK
  <2>12. ResetPart(n)'
    BY <1>1, <1>3, <2>2, <2>3, <2>9, <2>11 DEF ResetPart
  <2> QED BY <2>6, <2>8, <2>12 DEF DirectionOK
<1> QED BY <1>5, <1>6 DEF RxResetAck
-----------------------------------------------------------------------------
(* An acknowledgement moves the lower edge of the transmit window.         *)
AckEdge(m, f) == SeqDist(nextSeq[m], f.rxLwe)

(* The edge an acknowledgement reports lies between those of sender and    *)
(* receiver.                                                               *)
LEMMA AckPosition ==
  ASSUME IInv, NEW m \in Node, SenderOK(m), ReceiverOK(m), NEW f \in Frame, f.type = "ACK",
         AckOK(f, nextSeq[m], Base(m), Edge(m), Acked(m), Got(m))
  PROVE  /\ AckEdge(m, f) \in Int /\ Base(m) <= AckEdge(m, f) /\ AckEdge(m, f) <= Edge(m)
         /\ AckEdge(m, f) <= Len(Cut(m)) /\ Len(Cut(m)) \in Int /\ Len(Cut(m)) <= Window
         /\ f.rxLwe = SeqAdd(nextSeq[m], AckEdge(m, f)) /\ f.rxLwe \in Seqs
         /\ SeqDist(txLwe[m], f.rxLwe) = AckEdge(m, f) - Base(m)
         /\ SeqDist(txLwe[m], f.rxLwe) <= txCount[m]
         /\ txCount[m] - SeqDist(txLwe[m], f.rxLwe) = Len(Cut(m)) - AckEdge(m, f)
<1>1. f.rxLwe \in Seqs
  BY FrameFields
<1>2. /\ nextSeq[m] \in Seqs /\ nextSeq[m] \in Int /\ txLwe[m] = SeqAdd(nextSeq[m], Base(m))
      /\ Base(m) \in Int /\ 0 <= Base(m) /\ Base(m) < SeqMod /\ Edge(m) \in Int
  BY PositionType
<1>3. f.rxLwe = SeqAdd(nextSeq[m], AckEdge(m, f)) /\ AckEdge(m, f) \in 0 .. (SeqMod - 1)
  BY <1>1, <1>2, NumberAt DEF AckEdge
<1>4. AckEdge(m, f) \in Int /\ 0 <= AckEdge(m, f) /\ AckEdge(m, f) < SeqMod
  BY <1>3, Sizes
<1>5. Base(m) <= AckEdge(m, f) /\ AckEdge(m, f) <= Edge(m)
  BY DEF AckOK, AckEdge
<1>6. Edge(m) <= Len(Cut(m)) /\ Len(Cut(m)) \in Int /\ Len(Cut(m)) <= Window
  BY CutType, Sizes DEF ReceiverOK, CutShape
<1>7. SeqDist(txLwe[m], f.rxLwe) = AckEdge(m, f) - Base(m)
  <2>1. AckEdge(m, f) - Base(m) < SeqMod
    BY <1>2, <1>4, Sizes
  <2> QED BY <1>2, <1>3, <1>4, <1>5, <2>1, DistAhead
<1>8. txCount[m] = Len(Cut(m)) - Base(m)
  BY DEF SenderOK
<1> QED BY <1>1, <1>2, <1>3, <1>4, <1>5, <1>6, <1>7, <1>8

(* What the sender makes of a slot on an acknowledgement: only what the    *)
(* receiver has becomes ACKED.                                             *)
LEMMA AckedStatusMeans ==
  ASSUME IInv, NEW m \in Node, SenderOK(m), ReceiverOK(m), NEW f \in Frame, f.type = "ACK",
         AckOK(f, nextSeq[m], Base(m), Edge(m), Acked(m), Got(m)),
         NEW k \in 0 .. (Len(Cut(m)) - 1), NEW t, t.seq = SeqAdd(nextSeq[m], k)
  PROVE  /\ AckedStatus(m, f, t) = "ACKED" =>
              t.status = "ACKED" \/ k < AckEdge(m, f) \/ k - AckEdge(m, f) \in f.acked
         /\ k = AckEdge(m, f) => AckedStatus(m, f, t) = t.status
         /\ t.status # "NONE" => AckedStatus(m, f, t) # "NONE"
<1> DEFINE e == AckEdge(m, f)
           F == nextSeq[m]
<1>1. /\ e \in Int /\ Base(m) <= e /\ e <= Len(Cut(m))
      /\ Len(Cut(m)) \in Int /\ Len(Cut(m)) <= Window
      /\ f.rxLwe = SeqAdd(F, e) /\ SeqDist(txLwe[m], f.rxLwe) = e - Base(m)
  BY AckPosition
<1>2. /\ F \in Seqs /\ F \in Int /\ txLwe[m] = SeqAdd(F, Base(m))
      /\ Base(m) \in Int /\ 0 <= Base(m)
  BY PositionType
<1>3. k \in Int /\ 0 <= k /\ k < Len(Cut(m)) /\ k < SeqMod
  BY <1>1, Sizes
<1> HIDE DEF e, F
<1>4. k >= e => SeqDist(f.rxLwe, t.seq) = k - e /\ SeqDist(txLwe[m], t.seq) = k - Base(m)
  <2> SUFFICES ASSUME k >= e PROVE SeqDist(f.rxLwe, t.seq) = k - e /\ SeqDist(txLwe[m], t.seq) = k - Base(m)
    OBVIOUS
  <2>1. k - e < SeqMod /\ k - Base(m) < SeqMod /\ e <= k /\ Base(m) <= k
    BY <1>1, <1>2, <1>3, Sizes
  <2> QED BY <1>1, <1>2, <1>3, <2>1, DistAhead DEF F
<1>5. AckedStatus(m, f, t) = "ACKED" => t.status = "ACKED" \/ k < e \/ k - e \in f.acked
  BY <1>1, <1>2, <1>3, <1>4 DEF AckedStatus
<1>6. k = e => AckedStatus(m, f, t) = t.status
  <2> SUFFICES ASSUME k = e PROVE AckedStatus(m, f, t) = t.status
    OBVIOUS
  <2>1. SeqDist(f.rxLwe, t.seq) = 0 /\ ~(SeqDist(txLwe[m], t.seq) < SeqDist(txLwe[m], f.rxLwe))
    BY <1>1, <1>2, <1>3, <1>4
  <2> QED BY <2>1 DEF AckedStatus
<1>7. t.status # "NONE" => AckedStatus(m, f, t) # "NONE"
  BY DEF AckedStatus
<1> QED BY <1>5, <1>6, <1>7 DEF e

(* Later acknowledgements tell no less than the sender has just learnt.    *)
LEMMA LaterAcks ==
  ASSUME NEW c \in Seq(Frame), c # <<>>, c[1].type = "ACK", NEW F \in Seqs,
         NEW base, NEW edge, NEW acked, NEW got, NEW acked1,
         AcksOK(c, F, base, edge, acked, got),
         \A k \in acked1 : k \in Int /\
            (k \in acked \/ k < SeqDist(F, c[1].rxLwe) \/ k - SeqDist(F, c[1].rxLwe) \in c[1].acked)
  PROVE  AcksOK(Tail(c), F, SeqDist(F, c[1].rxLwe), edge, acked1, got)
<1> DEFINE e == SeqDist(F, c[1].rxLwe)
<1>1. 1 \in 1 .. Len(c) /\ c[1] \in Frame
  BY TailFacts
<1>2. e \in Int
  BY <1>1, FrameFields
<1>3. AcksOK(Tail(c), F, base, edge, acked, got)
  BY AcksTail
<1>4. ASSUME NEW i \in 1 .. Len(Tail(c)), Tail(c)[i].type = "ACK"
      PROVE  AckOK(Tail(c)[i], F, e, edge, acked1, got)
  <2> DEFINE g == Tail(c)[i]
  <2>1. g = c[i + 1] /\ i + 1 \in 1 .. Len(c) /\ 1 < i + 1 /\ g \in Frame
    BY TailFacts
  <2>2. AckOrder(c[1], g, F)
    BY <1>1, <1>4, <2>1 DEF AcksOK
  <2>3. AckOK(g, F, base, edge, acked, got)
    BY <1>3, <1>4 DEF AcksOK
  <2> HIDE DEF g
  <2>4. SeqDist(F, g.rxLwe) \in Int
    BY <1>4, <2>1, FrameFields DEF g
  <2>5. ASSUME NEW k \in acked1, k >= SeqDist(F, g.rxLwe) PROVE k - SeqDist(F, g.rxLwe) \in g.acked
    <3>1. k \in Int /\ (k \in acked \/ k < e \/ k - e \in c[1].acked)
      OBVIOUS
    <3>2. CASE k \in acked
      BY <2>3, <2>5, <3>2 DEF AckOK
    <3>3. CASE k < e
      BY <1>2, <2>2, <2>4, <2>5, <3>1, <3>3 DEF AckOrder
    <3>4. CASE k - e \in c[1].acked
      <4>1. e + (k - e) = k
        BY <1>2, <3>1
      <4>2. PICK b \in c[1].acked : b = k - e
        BY <3>4
      <4>3. e + b = k
        BY <4>1, <4>2
      <4>4. e + b >= SeqDist(F, g.rxLwe) => e + b - SeqDist(F, g.rxLwe) \in g.acked
        BY <2>2 DEF AckOrder
      <4>5. b \in Int
        BY <1>2, <3>1, <4>2
      <4> HIDE DEF e
      <4> QED BY <1>2, <2>4, <2>5, <3>1, <4>3, <4>4, <4>5
    <3> QED BY <3>1, <3>2, <3>3, <3>4
  <2>6. e <= SeqDist(F, g.rxLwe)
    BY <2>2 DEF AckOrder
  <2> QED BY <2>3, <2>5, <2>6 DEF AckOK, g
<1> HIDE DEF e
<1>5. AcksOK(Tail(c), F, e, edge, acked1, got)
  BY <1>3, <1>4 DEF AcksOK
<1> QED BY <1>5 DEF e

(* An acknowledgement keeps the core of the direction it is for.           *)
LEMMA RxAckCore ==
  ASSUME IInv, NEW m \in Node, RxAck(m), CoreOK(m), FramesOK(m)
  PROVE  CoreOK(m)' /\ FramesOK(m)' /\ (TxFresh(m) => TxFresh(m)')
<1> DEFINE f == Head(chan[m])
           e == AckEdge(m, f)
           F == nextSeq[m]
           L == Len(Cut(m))
<1>1. /\ chan[m] # <<>> /\ f.type = "ACK"
      /\ txWindow' = [txWindow EXCEPT ![m] = [i \in Slots |->
              IF txWindow[m][i] = NoTxSlot THEN NoTxSlot
              ELSE [txWindow[m][i] EXCEPT !.status = AckedStatus(m, f, txWindow[m][i])]]]
      /\ IF SeqDist(txLwe[m], f.rxLwe) <= txCount[m]
         THEN /\ txLwe' = [txLwe EXCEPT ![m] = f.rxLwe]
              /\ txCount' = [txCount EXCEPT ![m] = @ - SeqDist(txLwe[m], f.rxLwe)]
         ELSE UNCHANGED <<txLwe, txCount>>
      /\ chan' = [chan EXCEPT ![m] = Tail(@)]
      /\ UNCHANGED <<txQueue, txState, nextSeq, rxLwe, deliverLwe, rxWindow, submitted, delivered, confirmed>>
  BY DEF RxAck, Arrived, Take, rxVars, history
<1>2. /\ chan \in [Node -> Seq(Frame)] /\ chan[m] \in Seq(Frame)
      /\ txWindow \in [Node -> [Slots -> TxSlot \cup {NoTxSlot}]]
      /\ txLwe \in [Node -> Seqs] /\ txCount \in [Node -> 0 .. MaxFragments]
      /\ F \in Seqs /\ Peer(m) \in Node /\ Peer(m) # m
  BY PositionType DEF IInv, TypeOK
<1>3. f \in Frame /\ f = chan[m][1] /\ 1 \in 1 .. Len(chan[m])
  BY <1>1, <1>2, TailFacts
<1>4. /\ QueueOK(m) /\ SenderOK(m) /\ ReceiverOK(m) /\ DeliveredOK(m) /\ HeldOK(m)
      /\ AcksOK(chan[m], F, Base(m), Edge(m), Acked(m), Got(m))
      /\ DataOK(chan[Peer(m)], F, Cut(m), Edge(m))
  BY DEF CoreOK, FramesOK
<1>5. AckOK(f, F, Base(m), Edge(m), Acked(m), Got(m))
  BY <1>1, <1>3, <1>4 DEF AcksOK
<1> HIDE DEF f
<1>6. /\ e \in Int /\ Base(m) <= e /\ e <= Edge(m) /\ e <= L /\ L \in Int /\ L <= Window
      /\ f.rxLwe \in Seqs /\ SeqDist(txLwe[m], f.rxLwe) <= txCount[m]
      /\ txCount[m] - SeqDist(txLwe[m], f.rxLwe) = L - e
      /\ f.rxLwe = SeqAdd(F, e)
  BY <1>1, <1>3, <1>4, <1>5, AckPosition
<1>7. txLwe'[m] = f.rxLwe /\ txCount'[m] = L - e /\ nextSeq'[m] = F
  BY <1>1, <1>2, <1>6
<1>8. Cut(m)' = Cut(m) /\ Edge(m)' = Edge(m) /\ Base(m)' = e
  BY <1>1, <1>7 DEF Cut, Edge, Base, AckEdge
<1>9. Got(m)' = Got(m)
  BY <1>1, <1>8 DEF Got
<1>10. ASSUME NEW k \in 0 .. (L - 1)
       PROVE  /\ txWindow[m][Slot(SeqAdd(F, k))].seq = SeqAdd(F, k)
              /\ txWindow'[m][Slot(SeqAdd(F, k))].seq = SeqAdd(F, k)
              /\ txWindow'[m][Slot(SeqAdd(F, k))].fragment = Cut(m)[k + 1]
              /\ txWindow'[m][Slot(SeqAdd(F, k))].status =
                   AckedStatus(m, f, txWindow[m][Slot(SeqAdd(F, k))])
              /\ txWindow[m][Slot(SeqAdd(F, k))].status # "NONE"
  <2>1. PICK i \in Slots : i = Slot(SeqAdd(F, k))
    <3>1. k \in Int
      BY <1>6
    <3>2. Slot(SeqAdd(F, k)) \in Slots
      BY <1>2, <3>1, SlotOfNumber
    <3> QED BY <3>2
  <2>2. /\ txWindow[m][i].seq = SeqAdd(F, k) /\ txWindow[m][i].fragment = Cut(m)[k + 1]
        /\ txWindow[m][i].status # "NONE"
    BY <1>4, <2>1 DEF SenderOK, SlotsFilled
  <2>3. txWindow[m][i] \in TxSlot
    BY <1>2, <2>2 DEF NoTxSlot
  <2>4. txWindow[m][i] # NoTxSlot
    BY <2>2 DEF NoTxSlot
  <2>5. txWindow'[m][i] = [txWindow[m][i] EXCEPT !.status = AckedStatus(m, f, txWindow[m][i])]
    BY <1>1, <1>2, <2>4
  <2> HIDE DEF F, L
  <2>6. /\ txWindow'[m][i].seq = txWindow[m][i].seq
        /\ txWindow'[m][i].fragment = txWindow[m][i].fragment
        /\ txWindow'[m][i].status = AckedStatus(m, f, txWindow[m][i])
    BY <2>3, <2>5 DEF TxSlot
  <2> QED BY <2>1, <2>2, <2>6
<1>11. ASSUME NEW k \in Acked(m)' PROVE k \in 0 .. (L - 1) /\ k # e /\
                 (k \in Acked(m) \/ k < e \/ k - e \in f.acked)
  <2>1. k \in 0 .. (L - 1) /\ txWindow'[m][Slot(SeqAdd(F, k))].status = "ACKED"
    BY <1>7, <1>8 DEF Acked, AckedAt
  <2> DEFINE t == txWindow[m][Slot(SeqAdd(F, k))]
  <2>2. t.seq = SeqAdd(F, k) /\ AckedStatus(m, f, t) = "ACKED"
    BY <1>10, <2>1
  <2> HIDE DEF t
  <2>3. /\ t.status = "ACKED" \/ k < e \/ k - e \in f.acked
        /\ k = e => AckedStatus(m, f, t) = t.status
    BY <1>1, <1>3, <1>4, <1>5, <2>1, <2>2, AckedStatusMeans
  <2>4. t.status = "ACKED" => k \in Acked(m)
    BY <2>1 DEF Acked, AckedAt, t
  <2>5. ASSUME k = e PROVE FALSE
    <3>1. e \in Acked(m)
      BY <2>2, <2>3, <2>4, <2>5
    <3>2. e - e \in f.acked
      BY <1>5, <1>6, <3>1 DEF AckOK, AckEdge
    <3>3. e - e = 0
      BY <1>6
    <3>4. 0 \in 1 .. Window
      BY <1>5, <3>2, <3>3 DEF AckOK
    <3> QED BY <3>4, Sizes
  <2> QED BY <2>1, <2>3, <2>4, <2>5
<1>12. SenderOK(m)'
  <2>1. SlotsFilled(F, Cut(m), txWindow'[m])
    <3> SUFFICES ASSUME NEW k \in 0 .. (L - 1)
                 PROVE  /\ txWindow'[m][Slot(SeqAdd(F, k))].seq = SeqAdd(F, k)
                        /\ txWindow'[m][Slot(SeqAdd(F, k))].fragment = Cut(m)[k + 1]
                        /\ txWindow'[m][Slot(SeqAdd(F, k))].status # "NONE"
      BY DEF SlotsFilled
    <3> DEFINE t == txWindow[m][Slot(SeqAdd(F, k))]
    <3>1. t.seq = SeqAdd(F, k) /\ t.status # "NONE"
      BY <1>10
    <3> HIDE DEF t
    <3>2. AckedStatus(m, f, t) # "NONE"
      BY <1>1, <1>3, <1>4, <1>5, <3>1, AckedStatusMeans
    <3> QED BY <1>10, <3>2 DEF t
  <2> QED BY <1>6, <1>7, <1>8, <2>1 DEF SenderOK
<1>13. QueueOK(m)' /\ DeliveredOK(m)'
  <2>1. Done(m)' = Done(m)
    BY <1>1 DEF Done, Total, Waiting
  <2>2. QueueOK(m)'
    BY <1>1, <1>4, <2>1 DEF QueueOK, Total, Waiting
  <2>3. DeliveredOK(m)'
    BY <1>1, <1>4, <1>8, <2>1 DEF DeliveredOK, Handed, Payload
  <2> QED BY <2>2, <2>3
<1>14. ReceiverOK(m)'
  BY <1>1, <1>4, <1>6, <1>7, <1>8 DEF ReceiverOK
<1>15. HeldOK(m)'
  <2>1. e \notin Acked(m)'
    BY <1>11
  <2>2. ASSUME NEW k \in Acked(m)', k >= e PROVE k \in Got(m)
    <3>1. k \in Int /\ k >= Base(m) /\ ~(k < e)
      BY <1>6, <1>11, <2>2, PositionType
    <3>2. CASE k \in Acked(m)
      BY <1>4, <3>1, <3>2 DEF HeldOK
    <3>3. CASE k - e \in f.acked
      <4>1. e + (k - e) \in Got(m)
        BY <1>5, <3>3 DEF AckOK, AckEdge
      <4>2. e + (k - e) = k
        BY <1>6, <3>1
      <4> QED BY <4>1, <4>2
    <3> QED BY <1>11, <3>1, <3>2, <3>3
  <2> QED BY <1>8, <1>9, <2>1, <2>2 DEF HeldOK
<1>16. FramesOK(m)'
  <2>1. chan'[m] = Tail(chan[m]) /\ chan'[Peer(m)] = chan[Peer(m)]
    BY <1>1, <1>2
  <2>2. \A k \in Acked(m)' : k \in Int /\ (k \in Acked(m) \/ k < e \/ k - e \in f.acked)
    BY <1>11, <1>6
  <2>3. AcksOK(Tail(chan[m]), F, e, Edge(m), Acked(m)', Got(m))
    BY <1>1, <1>2, <1>3, <1>4, <2>2, LaterAcks DEF AckEdge
  <2> QED BY <1>4, <1>7, <1>8, <1>9, <2>1, <2>3 DEF FramesOK
<1>17. TxFresh(m) => TxFresh(m)'
  <2> SUFFICES ASSUME TxFresh(m) PROVE TxFresh(m)'
    OBVIOUS
  <2>1. L = 0 /\ Base(m) = 0
    <3>1. L = 0
      BY CutType DEF TxFresh
    <3> QED BY <1>4, <1>6, <3>1, PositionType DEF SenderOK, TxFresh
  <2>2. e = 0
    BY <1>6, <2>1
  <2>3. f.rxLwe = 0
    BY <1>2, <1>6, <2>2, AddZero DEF TxFresh
  <2> QED BY <1>1, <1>7, <2>1, <2>2, <2>3 DEF TxFresh
<1> QED BY <1>12, <1>13, <1>14, <1>15, <1>16, <1>17 DEF CoreOK

(* An acknowledgement that arrives keeps the invariant of both directions. *)
LEMMA RxAckDelivery ==
  ASSUME IInv, NEW m \in Node, RxAck(m), NEW n \in Node, DirectionOK(n)
  PROVE  DirectionOK(n)'
<1>1. /\ chan[m] # <<>> /\ Take(m) /\ UNCHANGED <<resetPending, pendingTx, rxVars, history>>
  BY DEF RxAck, Arrived, resetVars
<1>2. CoreOK(n) /\ FramesOK(n) /\ ResetPart(n) /\ SenderOK(n)
  BY DEF DirectionOK, CoreOK
<1>3. Shrinks(n) /\ Shrinks(Peer(n))
  BY <1>1, TakeShrinks, PositionType
<1>4. RxFresh(Peer(n))' = RxFresh(Peer(n)) /\ submitted'[n] = submitted[n]
  BY <1>1 DEF RxFresh, rxVars, history
<1>5. CoreOK(n)' /\ FramesOK(n)' /\ (TxFresh(n) => TxFresh(n)')
  <2>1. CASE n = m
    BY <1>2, <2>1, RxAckCore
  <2>2. CASE n # m
    <3>1. /\ txLwe'[n] = txLwe[n] /\ txCount'[n] = txCount[n] /\ txWindow'[n] = txWindow[n]
          /\ txQueue' = txQueue /\ txState' = txState /\ nextSeq' = nextSeq
      BY <2>2 DEF RxAck, IInv, TypeOK
    <3>2. SameSender(n) /\ SameReceiver(Peer(n))
      BY <1>1, <3>1 DEF SameSender, SameReceiver, rxVars, history
    <3>3. CoreOK(n)' /\ SameView(n)
      BY <1>2, <3>1, <3>2, SameWindowIsAlike, CoreKept
    <3> QED BY <1>2, <1>3, <3>2, <3>3, FramesShrink, FreshKept
  <2> QED BY <2>1, <2>2
<1>6. ResetPart(n)'
  BY <1>1, <1>2, <1>3, <1>4, <1>5, ResetsTaken
<1> QED BY <1>5, <1>6 DEF DirectionOK
-----------------------------------------------------------------------------
(* Between two windows nothing of the last one is left that the next could *)
(* be taken for.                                                           *)
RestAt(m, F) ==
  /\ rxLwe[Peer(m)] = F /\ deliverLwe[Peer(m)] = F
  /\ \A s \in Slots : rxWindow[Peer(m)][s] = EmptyRxSlot
  /\ \A i \in 1 .. Len(chan[Peer(m)]) : chan[Peer(m)][i].type = "DATA" => Old(F, chan[Peer(m)][i])
  /\ \A i \in 1 .. Len(chan[m]) : chan[m][i].type = "ACK" => chan[m][i].rxLwe = F /\ chan[m][i].acked = {}

(* A sender that is idle has nothing on the way that the receiver would    *)
(* take.                                                                   *)
LEMMA IdleRests ==
  ASSUME IInv, NEW m \in Node, CoreOK(m), FramesOK(m), txState[m] = "IDLE"
  PROVE  RestAt(m, nextSeq[m]) /\ txLwe[m] = nextSeq[m] /\ Cut(m) = <<>>
<1> DEFINE F == nextSeq[m]
           p == Peer(m)
<1>1. /\ F \in Seqs /\ chan[m] \in Seq(Frame) /\ chan[p] \in Seq(Frame)
      /\ txLwe[m] = SeqAdd(F, Base(m)) /\ rxLwe[p] = SeqAdd(F, Edge(m))
      /\ Base(m) \in Int /\ 0 <= Base(m) /\ Edge(m) \in Int /\ 0 <= Edge(m)
  BY PositionType
<1>2. Cut(m) = <<>> /\ Len(Cut(m)) = 0
  BY CutType
<1>3. /\ Base(m) <= Edge(m) /\ Edge(m) <= Len(Cut(m)) /\ StoredOK(F, Cut(m), Edge(m), rxWindow[p])
      /\ deliverLwe[p] = IF Edge(m) = Len(Cut(m)) THEN rxLwe[p] ELSE F
      /\ AcksOK(chan[m], F, Base(m), Edge(m), Acked(m), Got(m))
      /\ DataOK(chan[p], F, Cut(m), Edge(m))
  BY DEF CoreOK, ReceiverOK, FramesOK
<1> HIDE DEF F, p
<1>4. Base(m) = 0 /\ Edge(m) = 0
  BY <1>1, <1>2, <1>3
<1>5. txLwe[m] = F /\ rxLwe[p] = F /\ deliverLwe[p] = F
  BY <1>1, <1>2, <1>3, <1>4, AddZero
<1>6. \A s \in Slots : rxWindow[p][s] = EmptyRxSlot
  BY <1>2, <1>3, <1>4 DEF StoredOK
<1>7. ASSUME NEW i \in 1 .. Len(chan[p]), chan[p][i].type = "DATA" PROVE Old(F, chan[p][i])
  <2>1. ~Current(F, Cut(m), chan[p][i])
    BY <1>2 DEF Current
  <2> QED BY <1>3, <1>7, <2>1 DEF DataOK
<1>8. Got(m) = {}
  BY <1>2 DEF Got, GotAt
<1>9. ASSUME NEW i \in 1 .. Len(chan[m]), chan[m][i].type = "ACK"
      PROVE  chan[m][i].rxLwe = F /\ chan[m][i].acked = {}
  <2>1. AckOK(chan[m][i], F, Base(m), Edge(m), Acked(m), Got(m))
    BY <1>3, <1>9 DEF AcksOK
  <2>2. chan[m][i].rxLwe \in Seqs /\ SeqDist(F, chan[m][i].rxLwe) \in Int
    BY <1>1, <1>9, FrameFields
  <2>3. SeqDist(F, chan[m][i].rxLwe) = 0
    BY <1>4, <2>1, <2>2 DEF AckOK
  <2>4. chan[m][i].rxLwe = F
    BY <1>1, <2>2, <2>3, NumberAt, AddZero
  <2> QED BY <1>8, <2>1, <2>4 DEF AckOK
<1> QED BY <1>2, <1>5, <1>6, <1>7, <1>9 DEF RestAt, F, p

(* A window is done only when the peer has delivered its C_PDU.            *)
LEMMA AckedRests ==
  ASSUME IInv, NEW m \in Node, CoreOK(m), FramesOK(m), txState[m] = "WAIT_ACK",
         WithStatus(m, "ACKED") = 0 .. (txCount[m] - 1)
  PROVE  /\ RestAt(m, txLwe[m]) /\ txCount[m] = 0 /\ SeqAdd(txLwe[m], txCount[m]) = txLwe[m]
         /\ Cut(m) # <<>> /\ Edge(m) = Len(Cut(m))
<1> DEFINE F == nextSeq[m]
           G == txLwe[m]
           L == Len(Cut(m))
           p == Peer(m)
<1>1. /\ F \in Seqs /\ F \in Int /\ chan[m] \in Seq(Frame) /\ chan[p] \in Seq(Frame)
      /\ G \in Seqs /\ G = SeqAdd(F, Base(m)) /\ rxLwe[p] = SeqAdd(F, Edge(m))
      /\ Base(m) \in Int /\ 0 <= Base(m) /\ Edge(m) \in Int /\ 0 <= Edge(m)
  BY PositionType
<1>2. L > 0 /\ L \in Int /\ L <= Window /\ Cut(m) # <<>>
  BY CutType, Sizes, EmptyShape DEF CutShape
<1>3. /\ Base(m) <= L /\ txCount[m] = L - Base(m)
      /\ Base(m) <= Edge(m) /\ Edge(m) <= L /\ StoredOK(F, Cut(m), Edge(m), rxWindow[p])
      /\ deliverLwe[p] = IF Edge(m) = L THEN rxLwe[p] ELSE F
      /\ AcksOK(chan[m], F, Base(m), Edge(m), Acked(m), Got(m))
      /\ DataOK(chan[p], F, Cut(m), Edge(m))
      /\ Base(m) \notin Acked(m)
  BY DEF CoreOK, SenderOK, ReceiverOK, FramesOK, HeldOK
<1>4. txCount[m] = 0
  <2> SUFFICES ASSUME txCount[m] # 0 PROVE FALSE
    OBVIOUS
  <2>1. 0 \in WithStatus(m, "ACKED") /\ Base(m) \in 0 .. (L - 1)
    BY <1>1, <1>2, <1>3
  <2>2. txWindow[m][Slot(SeqAdd(G, 0))].status = "ACKED"
    BY <2>1 DEF WithStatus, TxStatus
  <2>3. SeqAdd(G, 0) = SeqAdd(F, Base(m))
    BY <1>1, AddZero
  <2> QED BY <1>3, <2>1, <2>2, <2>3 DEF Acked, AckedAt
<1>5. Base(m) = L /\ Edge(m) = L
  BY <1>1, <1>2, <1>3, <1>4
<1> HIDE DEF F, G, L, p
<1>6. G = SeqAdd(F, L) /\ rxLwe[p] = G /\ deliverLwe[p] = G /\ SeqAdd(G, 0) = G
  BY <1>1, <1>3, <1>5, AddZero
<1>7. \A s \in Slots : rxWindow[p][s] = EmptyRxSlot
  BY <1>3, <1>5 DEF StoredOK, L
<1>8. ASSUME NEW i \in 1 .. Len(chan[p]), chan[p][i].type = "DATA" PROVE Old(G, chan[p][i])
  <2>1. Current(F, Cut(m), chan[p][i])
    BY <1>2, <1>3, <1>5, <1>8 DEF DataOK
  <2>2. PICK k \in 0 .. (L - 1) : chan[p][i] = DataFrame(SeqAdd(F, k), Cut(m)[k + 1])
    BY <2>1 DEF Current, L
  <2>3. PICK j \in 1 .. Window : j = L - k
    BY <1>2, <2>2, Sizes
  <2>4. k \in Int /\ -j \in Int /\ L + (-j) = k
    BY <1>2, <2>2, <2>3
  <2>5. SeqAdd(SeqAdd(F, L), -j) = SeqAdd(F, L + (-j))
    BY <1>1, <1>2, <2>4, AddAdd
  <2>6. chan[p][i].seq = SeqAdd(G, -j)
    BY <1>6, <2>2, <2>4, <2>5 DEF DataFrame
  <2> QED BY <2>6 DEF Old
<1>9. ASSUME NEW i \in 1 .. Len(chan[m]), chan[m][i].type = "ACK"
      PROVE  chan[m][i].rxLwe = G /\ chan[m][i].acked = {}
  <2>1. AckOK(chan[m][i], F, Base(m), Edge(m), Acked(m), Got(m))
    BY <1>3, <1>9 DEF AcksOK
  <2>2. chan[m][i].rxLwe \in Seqs /\ SeqDist(F, chan[m][i].rxLwe) \in Int
    BY <1>1, <1>9, FrameFields
  <2>3. SeqDist(F, chan[m][i].rxLwe) = L
    BY <1>2, <1>5, <2>1, <2>2 DEF AckOK
  <2>4. chan[m][i].rxLwe = G
    BY <1>1, <1>6, <2>2, <2>3, NumberAt
  <2>5. ASSUME NEW b \in chan[m][i].acked PROVE FALSE
    <3>1. b \in 1 .. Window /\ L + b \in Got(m)
      BY <2>1, <2>3 DEF AckOK
    <3>2. L + b \in 0 .. (L - 1)
      BY <3>1 DEF Got, GotAt, L
    <3> QED BY <1>2, <3>1, <3>2, Sizes
  <2> QED BY <2>4, <2>5
<1> QED BY <1>2, <1>4, <1>5, <1>6, <1>7, <1>8, <1>9 DEF RestAt, G, L, p

(* A window is begun, or left empty, where the last one has come to rest.  *)
LEMMA NewWindow ==
  ASSUME IInv, NEW m \in Node, NEW F \in Seqs, RestAt(m, F),
         nextSeq'[m] = F, txLwe'[m] = F, UNCHANGED rxVars,
         NEW fr, CutShape(fr), Cut(m)' = fr, txCount'[m] = Len(fr),
         SlotsFilled(F, fr, txWindow'[m]), AckedAt(F, fr, txWindow'[m]) = {},
         NEW burst \in Seq(Frame), Transmit(m, burst), pendingTx[m] = <<>>, ~resetPending[m],
         \A i \in 1 .. Len(burst) : burst[i].type = "DATA" /\ Current(F, fr, burst[i])
  PROVE  SenderOK(m)' /\ ReceiverOK(m)' /\ HeldOK(m)' /\ FramesOK(m)' /\ Edge(m)' = 0
<1> DEFINE p == Peer(m)
<1>1. chan[m] \in Seq(Frame) /\ chan[p] \in Seq(Frame) /\ Len(fr) \in Int /\ Len(fr) >= 0
  BY PositionType, Sizes DEF CutShape
<1>2. /\ rxLwe[p] = F /\ deliverLwe[p] = F
      /\ \A s \in Slots : rxWindow[p][s] = EmptyRxSlot
      /\ \A i \in 1 .. Len(chan[p]) : chan[p][i].type = "DATA" => Old(F, chan[p][i])
      /\ \A i \in 1 .. Len(chan[m]) : chan[m][i].type = "ACK" => chan[m][i].rxLwe = F /\ chan[m][i].acked = {}
  BY DEF RestAt
<1>3. SeqAdd(F, 0) = F /\ SeqDist(F, F) = 0
  <2>1. SeqAdd(F, 0) = F
    BY AddZero
  <2> QED BY <2>1, Sizes, OffsetOf
<1>4. Base(m)' = 0 /\ Edge(m)' = 0
  BY <1>2, <1>3 DEF Base, Edge, rxVars
<1>5. Acked(m)' = {}
  BY DEF Acked
<1>6. Got(m)' = {}
  <2>1. \A k \in 0 .. (Len(fr) - 1) : ~(k < 0) /\ Slot(SeqAdd(F, k)) \in Slots
    BY <1>1, SlotOfNumber
  <2>2. \A k \in 0 .. (Len(fr) - 1) : ~Received(rxWindow[p], SeqAdd(F, k))
    BY <1>2, <2>1 DEF Received, EmptyRxSlot
  <2>3. GotAt(F, fr, 0, rxWindow[p]) = {}
    BY <2>1, <2>2 DEF GotAt
  <2> QED BY <1>4, <2>3 DEF Got, rxVars
<1>7. SenderOK(m)'
  BY <1>1, <1>4 DEF SenderOK
<1>8. ReceiverOK(m)'
  <2>1. StoredOK(F, fr, 0, rxWindow[p])
    <3>1. Slot(SeqAdd(F, 0)) \in Slots
      BY SlotOfNumber
    <3>2. ~Received(rxWindow[p], SeqAdd(F, 0))
      BY <1>2, <3>1 DEF Received, EmptyRxSlot
    <3> QED BY <1>2, <3>2 DEF StoredOK
  <2> QED BY <1>1, <1>2, <1>4, <2>1 DEF ReceiverOK, rxVars
<1>9. HeldOK(m)'
  BY <1>5 DEF HeldOK
<1>10. PICK out \in Seq(Frame) :
         /\ Sends(m, out)
         /\ \A i \in 1 .. Len(out) : out[i].type = "DATA" => \E j \in 1 .. Len(burst) : out[i] = burst[j]
  BY BurstSent
<1>11. chan'[p] = chan[p] \o out /\ chan'[m] = chan[m]
  BY <1>10, SendsTo
<1>12. DataOK(chan'[p], F, fr, 0)
  <2>1. DataOK(chan[p], F, fr, 0)
    BY <1>1, <1>2 DEF DataOK
  <2>2. \A i \in 1 .. Len(out) : out[i].type = "DATA" => Current(F, fr, out[i])
    BY <1>10
  <2> QED BY <1>1, <1>11, <2>1, <2>2, DataConcat
<1>13. AcksOK(chan[m], F, 0, 0, {}, {})
  BY <1>2, <1>3 DEF AcksOK, AckOK, AckOrder
<1>14. FramesOK(m)'
  BY <1>4, <1>5, <1>6, <1>11, <1>12, <1>13 DEF FramesOK
<1> QED BY <1>4, <1>7, <1>8, <1>9, <1>14

(* The step of a sender that begins a window or leaves one, for the two    *)
(* directions together.                                                    *)
LEMMA WindowTurned ==
  ASSUME IInv, NEW m \in Node, DirectionOK(m), pendingTx[m] = <<>>, ~resetPending[m],
         NEW burst \in Seq(Frame), Transmit(m, burst),
         \A i \in 1 .. Len(burst) : burst[i].type = "DATA",
         SameSender(Peer(m)), txWindow'[Peer(m)] = txWindow[Peer(m)],
         UNCHANGED <<rxVars, delivered, resetPending, pendingTx>>,
         CoreOK(m)', FramesOK(m)', MaxSubmit[m] # 0,
         NEW n \in Node, DirectionOK(n)
  PROVE  DirectionOK(n)'
<1>1. (n = m \/ n = Peer(m)) /\ (n # m => m = Peer(n)) /\ Peer(m) \in Node /\ Peer(m) # m
  BY PositionType
<1>2. CoreOK(n) /\ FramesOK(n) /\ ResetPart(n) /\ SenderOK(n) /\ ResetPart(m)
  BY DEF DirectionOK, CoreOK
<1>3. PICK out \in Seq(Frame) :
        /\ Sends(m, out) /\ ResetsRule(m, out)
        /\ \A i \in 1 .. Len(out) : out[i].type = "ACK" => i = 1 /\ out[i] = AckFrame(m)
  BY BurstSent
<1>4. RxFresh(Peer(n))' = RxFresh(Peer(n)) /\ SameReceiver(Peer(n))
  BY DEF RxFresh, SameReceiver, rxVars
<1>5. n # m => CoreOK(n)' /\ FramesOK(n)'
  <2> SUFFICES ASSUME n # m PROVE CoreOK(n)' /\ FramesOK(n)'
    OBVIOUS
  <2>1. SameSender(n) /\ txWindow'[n] = txWindow[n]
    BY <1>1
  <2>2. CoreOK(n)' /\ SameView(n)
    BY <1>2, <1>4, <2>1, SameWindowIsAlike, CoreKept
  <2> QED BY <1>1, <1>2, <1>3, <2>2, FramesSentBack
<1>6. TxFresh(n) => TxFresh(n)' \/ ~resetPending[n]
  BY <1>1, <1>4, FreshKept
<1>7. ResetsOK(n) => ResetsOK(n)'
  BY <1>3, <1>4, <1>6, ResetsSent
<1>8. n # m => (NeverUsed(n) => NeverUsed(n)')
  BY <1>1, <1>4, FreshKept
<1>9. ResetPart(n)'
  BY <1>1, <1>2, <1>7, <1>8 DEF ResetPart
<1> QED BY <1>1, <1>5, <1>9 DEF DirectionOK

(* The frames of a new window are its fragments, in order.                 *)
LEMMA StartFrames ==
  ASSUME IInv, NEW m \in Node, NEW F \in Seqs, NEW c \in CPdu, Start(m, c, F)
  PROVE  /\ txState'[m] = "WAIT_ACK" /\ txState'[Peer(m)] = txState[Peer(m)]
         /\ txCount'[m] = Len(Fragments(c)) /\ txCount'[Peer(m)] = txCount[Peer(m)]
         /\ txWindow'[Peer(m)] = txWindow[Peer(m)]
         /\ SlotsFilled(F, Fragments(c), txWindow'[m])
         /\ AckedAt(F, Fragments(c), txWindow'[m]) = {}
         /\ \E burst \in Seq(Frame) :
              /\ Transmit(m, burst)
              /\ \A i \in 1 .. Len(burst) :
                   burst[i].type = "DATA" /\ Current(F, Fragments(c), burst[i])
<1> DEFINE fr == Fragments(c)
           slot(k) == [status |-> "SENT_WAIT_ACK", seq |-> SeqAdd(F, k), fragment |-> fr[k + 1], retx |-> 0]
           off(i) == (i - F) % Window
           burst == [k \in 1 .. c.size |-> DataFrame(SeqAdd(F, k - 1), fr[k])]
<1>1. c.size \in 1 .. Window /\ c.size \in Int /\ Len(fr) = c.size /\ CutShape(fr) /\ F \in Int
  BY FragmentsShape, Sizes
<1>2. /\ txState \in [Node -> {"IDLE", "WAIT_ACK"}] /\ txCount \in [Node -> 0 .. MaxFragments]
      /\ txWindow \in [Node -> [Slots -> TxSlot \cup {NoTxSlot}]]
      /\ Peer(m) \in Node /\ Peer(m) # m
  BY PositionType DEF IInv, TypeOK
<1>3. /\ txState' = [txState EXCEPT ![m] = "WAIT_ACK"]
      /\ txCount' = [txCount EXCEPT ![m] = c.size]
      /\ txWindow' = [txWindow EXCEPT ![m] = [i \in Slots |->
           LET k == off(i) + 1
           IN  IF k <= c.size
               THEN [status |-> "SENT_WAIT_ACK", seq |-> SeqAdd(F, k - 1), fragment |-> fr[k], retx |-> 0]
               ELSE txWindow[m][i]]]
      /\ Transmit(m, burst)
  BY DEF Start
<1> HIDE DEF fr
<1>4. ASSUME NEW k \in 0 .. (c.size - 1)
      PROVE  txWindow'[m][Slot(SeqAdd(F, k))] = slot(k)
  <2>1. k \in Int /\ k \in 0 .. (Window - 1) /\ k + 1 <= c.size /\ (k + 1) - 1 = k
    BY <1>1, Sizes
  <2>2. PICK s \in Slots : s = Slot(SeqAdd(F, k))
    BY <2>1, SlotOfNumber
  <2>3. off(s) = k
    BY <1>1, <2>1, <2>2, SlotOffset
  <2>4. txWindow'[m][s] =
          LET j == off(s) + 1
          IN  IF j <= c.size
              THEN [status |-> "SENT_WAIT_ACK", seq |-> SeqAdd(F, j - 1), fragment |-> fr[j], retx |-> 0]
              ELSE txWindow[m][s]
    BY <1>2, <1>3
  <2> HIDE DEF off
  <2> QED BY <2>1, <2>2, <2>3, <2>4
<1>5. SlotsFilled(F, fr, txWindow'[m]) /\ AckedAt(F, fr, txWindow'[m]) = {}
  <2>1. ASSUME NEW k \in 0 .. (Len(fr) - 1)
        PROVE  /\ txWindow'[m][Slot(SeqAdd(F, k))].seq = SeqAdd(F, k)
               /\ txWindow'[m][Slot(SeqAdd(F, k))].fragment = fr[k + 1]
               /\ txWindow'[m][Slot(SeqAdd(F, k))].status = "SENT_WAIT_ACK"
    <3>1. txWindow'[m][Slot(SeqAdd(F, k))] = slot(k)
      BY <1>1, <1>4
    <3> QED BY <3>1
  <2>2. SlotsFilled(F, fr, txWindow'[m])
    BY <2>1 DEF SlotsFilled
  <2>3. \A k \in 0 .. (Len(fr) - 1) : txWindow'[m][Slot(SeqAdd(F, k))].status # "ACKED"
    BY <2>1
  <2> QED BY <2>2, <2>3 DEF AckedAt
<1>6. \E b \in Seq(Frame) :
        /\ Transmit(m, b)
        /\ \A i \in 1 .. Len(b) : b[i].type = "DATA" /\ Current(F, fr, b[i])
  <2>1. Len(burst) = c.size
    BY <1>1
  <2>2. ASSUME NEW i \in 1 .. c.size
        PROVE  /\ DataFrame(SeqAdd(F, i - 1), fr[i]) \in Frame
               /\ burst[i].type = "DATA" /\ Current(F, fr, burst[i])
    <3>1. i - 1 \in 0 .. (Len(fr) - 1) /\ (i - 1) + 1 = i /\ i - 1 \in Int /\ i \in 1 .. Len(fr)
      BY <1>1
    <3>2. SeqAdd(F, i - 1) \in Seqs /\ fr[i] \in Fragment
      BY <1>1, <3>1, SlotOfNumber DEF CutShape
    <3>3. burst[i] = DataFrame(SeqAdd(F, i - 1), fr[i])
      OBVIOUS
    <3> QED BY <3>1, <3>2, <3>3, DataFrameType DEF Current, DataFrame
  <2>3. burst \in Seq(Frame)
    <3>1. c.size \in Nat
      BY <1>1, Sizes
    <3>2. \A i \in 1 .. c.size : DataFrame(SeqAdd(F, i - 1), fr[i]) \in Frame
      BY <2>2
    <3> QED BY <3>1, <3>2
  <2> HIDE DEF burst
  <2> QED BY <1>3, <2>1, <2>2, <2>3
<1> QED BY <1>1, <1>2, <1>3, <1>5, <1>6 DEF fr

(* Cutting and sending the head of the queue keeps the invariant of both   *)
(* directions.                                                             *)
LEMMA TxSendDelivery ==
  ASSUME IInv, NEW m \in Node, TxSend(m), NEW n \in Node, DirectionOK(n), DirectionOK(m)
  PROVE  DirectionOK(n)'
<1> DEFINE c == Head(txQueue[m])
           F == nextSeq[m]
           q == Peer(m)
<1>1. /\ pendingTx[m] = <<>> /\ ~resetPending[m] /\ txState[m] = "IDLE" /\ txQueue[m] # <<>>
      /\ Start(m, c, F)
      /\ UNCHANGED <<txQueue, txLwe, nextSeq, rxVars, resetPending, pendingTx, submitted, delivered, confirmed>>
  BY DEF TxSend, MayTransmit, resetVars, history
<1>2. CoreOK(m) /\ FramesOK(m) /\ ResetPart(m) /\ QueueOK(m) /\ DeliveredOK(m)
  BY DEF DirectionOK, CoreOK
<1>3. RestAt(m, F) /\ txLwe[m] = F /\ Cut(m) = <<>>
  BY <1>1, <1>2, IdleRests
<1>4. F \in Seqs /\ c \in CPdu /\ q \in Node
  <2>1. txQueue[m] \in Seq(CPdu)
    BY DEF IInv, TypeOK
  <2>2. c \in CPdu
    BY <1>1, <2>1
  <2> QED BY <2>2, PositionType
<1>5. MaxSubmit[m] # 0
  BY <1>1, <1>2, QueueOfUnused DEF ResetPart
<1> HIDE DEF c, F
<1>6. PICK burst \in Seq(Frame) :
        /\ Transmit(m, burst)
        /\ \A i \in 1 .. Len(burst) : burst[i].type = "DATA" /\ Current(F, Fragments(c), burst[i])
  BY <1>1, <1>4, StartFrames
<1>7. /\ txState'[m] = "WAIT_ACK" /\ txState'[q] = txState[q]
      /\ txCount'[m] = Len(Fragments(c)) /\ txCount'[q] = txCount[q]
      /\ txWindow'[q] = txWindow[q]
      /\ SlotsFilled(F, Fragments(c), txWindow'[m])
      /\ AckedAt(F, Fragments(c), txWindow'[m]) = {}
  BY <1>1, <1>4, StartFrames
<1>8. Cut(m)' = Fragments(c) /\ CutShape(Fragments(c)) /\ Len(Fragments(c)) # 0
  BY <1>1, <1>4, <1>7, FragmentsShape, Sizes DEF Cut, c
<1>9. nextSeq'[m] = F /\ txLwe'[m] = F
  BY <1>1, <1>3 DEF F
<1>10. SenderOK(m)' /\ ReceiverOK(m)' /\ HeldOK(m)' /\ FramesOK(m)' /\ Edge(m)' = 0
  BY <1>1, <1>3, <1>4, <1>6, <1>7, <1>8, <1>9, NewWindow
<1>11. QueueOK(m)' /\ DeliveredOK(m)'
  <2>1. Done(m)' = Done(m) /\ Total(m)' = Total(m) /\ Waiting(m)' = Waiting(m)
    BY <1>1 DEF Done, Total, Waiting
  <2>2. QueueOK(m)'
    BY <1>1, <1>2, <2>1 DEF QueueOK
  <2>3. Handed(m)' = Handed(m)
    BY <1>3, <1>8, <1>10, <2>1 DEF Handed
  <2> QED BY <1>1, <1>2, <2>2, <2>3 DEF DeliveredOK, Payload
<1>12. CoreOK(m)' /\ FramesOK(m)'
  BY <1>10, <1>11 DEF CoreOK
<1>13. SameSender(q)
  BY <1>1, <1>7 DEF SameSender
<1> QED BY <1>1, <1>5, <1>6, <1>7, <1>12, <1>13, WindowTurned

(* A C_PDU that leaves the queue is the next to be counted.                *)
LEMMA QueueMoves ==
  ASSUME IInv, NEW m \in Node, QueueOK(m), txQueue[m] # <<>>,
         txQueue' = [txQueue EXCEPT ![m] = Tail(@)], submitted' = submitted,
         confirmed' = [confirmed EXCEPT ![m] = @ \cup {Head(txQueue[m]).id}]
  PROVE  /\ QueueOK(m)' /\ Done(m)' = Done(m) + 1 /\ Done(m) \in Nat
         /\ Head(txQueue[m]).id = Done(m) + 1
<1>1. /\ Total(m) \in Nat /\ Waiting(m) \in Nat /\ Waiting(m) <= Total(m)
      /\ Done(m) \in Nat /\ Done(m) = Total(m) - Waiting(m) /\ Waiting(m) > 0
  BY HandedBound
<1>2. txQueue \in [Node -> Seq(CPdu)] /\ txQueue[m] \in Seq(CPdu) /\ confirmed \in [Node -> SUBSET Nat]
  BY DEF IInv, TypeOK
<1>3. txQueue'[m] = Tail(txQueue[m]) /\ confirmed'[m] = confirmed[m] \cup {Head(txQueue[m]).id}
  BY <1>2
<1>4. /\ Waiting(m)' = Waiting(m) - 1
      /\ \A k \in 1 .. Waiting(m)' : txQueue'[m][k] = txQueue[m][k + 1]
      /\ Head(txQueue[m]) = txQueue[m][1]
  BY <1>2, <1>3, HeadTailProperties DEF Waiting
<1>5. Total(m)' = Total(m) /\ submitted'[m] = submitted[m]
  BY DEF Total
<1>6. Done(m)' = Done(m) + 1
  <2>1. Done(m)' = Total(m)' - Waiting(m)'
    BY DEF Done
  <2> QED BY <1>1, <1>4, <1>5, <2>1
<1>7. \A k \in 1 .. Waiting(m) :
        txQueue[m][k] = [id |-> Done(m) + k, size |-> submitted[m][Done(m) + k]]
  BY DEF QueueOK
<1>8. Head(txQueue[m]).id = Done(m) + 1
  <2>1. 1 \in 1 .. Waiting(m)
    BY <1>1
  <2>2. txQueue[m][1] = [id |-> Done(m) + 1, size |-> submitted[m][Done(m) + 1]]
    BY <1>7, <2>1
  <2>3. txQueue[m][1].id = Done(m) + 1
    BY <2>2
  <2> QED BY <1>4, <2>3
<1>9. ASSUME NEW k \in 1 .. Waiting(m)'
      PROVE  txQueue'[m][k] = [id |-> Done(m)' + k, size |-> submitted'[m][Done(m)' + k]]
  <2>1. k + 1 \in 1 .. Waiting(m) /\ Done(m) + (k + 1) = Done(m)' + k
    <3>1. PICK w \in Nat : w = Waiting(m)
      BY <1>1
    <3>2. k \in 1 .. (w - 1)
      BY <1>4, <3>1
    <3>3. k + 1 \in 1 .. w /\ k \in Int
      BY <3>2
    <3> QED BY <1>1, <1>6, <3>1, <3>3
  <2>2. txQueue[m][k + 1] = [id |-> Done(m) + (k + 1), size |-> submitted[m][Done(m) + (k + 1)]]
    BY <1>7, <2>1
  <2> QED BY <1>4, <1>5, <2>1, <2>2
<1>10. confirmed'[m] = 1 .. Done(m)'
  <2>1. confirmed[m] = 1 .. Done(m)
    BY DEF QueueOK
  <2>2. (1 .. Done(m)) \cup {Done(m) + 1} = 1 .. (Done(m) + 1)
    BY <1>1
  <2> QED BY <1>3, <1>6, <1>8, <2>1, <2>2
<1>11. Waiting(m)' <= Total(m)'
  BY <1>1, <1>4, <1>5
<1>12. QueueOK(m)'
  BY <1>9, <1>10, <1>11 DEF QueueOK
<1> QED BY <1>1, <1>6, <1>8, <1>12

(* Dropping an acknowledged C_PDU and starting the next keeps the          *)
(* invariant of both directions.                                           *)
LEMMA TxConfirmDelivery ==
  ASSUME IInv, NEW m \in Node, TxConfirm(m), NEW n \in Node, DirectionOK(n), DirectionOK(m)
  PROVE  DirectionOK(n)'
<1> DEFINE F == txLwe[m]
           q == Peer(m)
<1>1. /\ pendingTx[m] = <<>> /\ ~resetPending[m] /\ txState[m] = "WAIT_ACK"
      /\ WithStatus(m, "ACKED") = 0 .. (txCount[m] - 1)
      /\ txQueue' = [txQueue EXCEPT ![m] = Tail(@)]
      /\ confirmed' = [confirmed EXCEPT ![m] = @ \cup {Head(txQueue[m]).id}]
      /\ UNCHANGED <<rxVars, resetPending, pendingTx, submitted, delivered>>
  BY DEF TxConfirm, MayTransmit, resetVars
<1>2. /\ CoreOK(m) /\ FramesOK(m) /\ ResetPart(m) /\ QueueOK(m) /\ DeliveredOK(m)
  BY DEF DirectionOK, CoreOK
<1>3. /\ RestAt(m, F) /\ txCount[m] = 0 /\ SeqAdd(F, txCount[m]) = F
      /\ Cut(m) # <<>> /\ Edge(m) = Len(Cut(m))
  BY <1>1, <1>2, AckedRests
<1>4. /\ F \in Seqs /\ q \in Node /\ q # m /\ txQueue[m] # <<>>
      /\ txQueue \in [Node -> Seq(CPdu)] /\ txQueue[m] \in Seq(CPdu)
      /\ txLwe \in [Node -> Seqs] /\ nextSeq \in [Node -> Seqs]
      /\ txState \in [Node -> {"IDLE", "WAIT_ACK"}] /\ txCount \in [Node -> 0 .. MaxFragments]
      /\ txWindow \in [Node -> [Slots -> TxSlot \cup {NoTxSlot}]]
      /\ confirmed \in [Node -> SUBSET Nat]
  BY <1>1, PositionType DEF IInv, TypeOK, BusyHasHead
<1> HIDE DEF F
<1>5. /\ txLwe' = [txLwe EXCEPT ![m] = F] /\ nextSeq' = [nextSeq EXCEPT ![m] = F]
      /\ \/ Tail(txQueue[m]) # <<>> /\ Start(m, Head(Tail(txQueue[m])), F)
         \/ /\ Tail(txQueue[m]) = <<>> /\ Transmit(m, <<>>)
            /\ txState' = [txState EXCEPT ![m] = "IDLE"]
            /\ txCount' = [txCount EXCEPT ![m] = 0]
            /\ txWindow' = [txWindow EXCEPT ![m] = [i \in Slots |->
                 IF \E k \in 0 .. (txCount[m] - 1) : i = Slot(SeqAdd(txLwe[m], k))
                 THEN NoTxSlot ELSE txWindow[m][i]]]
  BY <1>3 DEF TxConfirm, F
<1>6. /\ nextSeq'[m] = F /\ txLwe'[m] = F /\ nextSeq'[q] = nextSeq[q] /\ txLwe'[q] = txLwe[q]
      /\ txQueue'[q] = txQueue[q] /\ txQueue'[m] = Tail(txQueue[m]) /\ confirmed'[q] = confirmed[q]
  BY <1>1, <1>4, <1>5
<1>7. MaxSubmit[m] # 0
  BY <1>1, <1>2 DEF ResetPart, NeverUsed, TxFresh
<1>8. QueueOK(m)' /\ Done(m)' = Done(m) + 1 /\ Done(m) \in Nat
  BY <1>1, <1>2, <1>4, QueueMoves
<1>9. \E fr, burst :
        /\ CutShape(fr) /\ Cut(m)' = fr /\ (fr = <<>> \/ Len(fr) # 0) /\ txCount'[m] = Len(fr)
        /\ SlotsFilled(F, fr, txWindow'[m]) /\ AckedAt(F, fr, txWindow'[m]) = {}
        /\ burst \in Seq(Frame) /\ Transmit(m, burst)
        /\ \A i \in 1 .. Len(burst) : burst[i].type = "DATA" /\ Current(F, fr, burst[i])
        /\ txState'[q] = txState[q] /\ txCount'[q] = txCount[q] /\ txWindow'[q] = txWindow[q]
  <2>1. CASE Tail(txQueue[m]) # <<>> /\ Start(m, Head(Tail(txQueue[m])), F)
    <3> DEFINE c == Head(Tail(txQueue[m]))
    <3>1. c \in CPdu
      <4>1. Tail(txQueue[m]) \in Seq(CPdu)
        BY <1>4
      <4> QED BY <2>1, <4>1
    <3>2. c = Head(txQueue'[m])
      BY <1>6
    <3>3. Start(m, c, F)
      BY <2>1
    <3>a. F \in Seqs
      BY <1>4
    <3> HIDE DEF c
    <3>4. /\ txState'[m] = "WAIT_ACK" /\ txState'[Peer(m)] = txState[Peer(m)]
          /\ txCount'[m] = Len(Fragments(c)) /\ txCount'[Peer(m)] = txCount[Peer(m)]
          /\ txWindow'[Peer(m)] = txWindow[Peer(m)]
          /\ SlotsFilled(F, Fragments(c), txWindow'[m])
          /\ AckedAt(F, Fragments(c), txWindow'[m]) = {}
          /\ \E burst \in Seq(Frame) :
               /\ Transmit(m, burst)
               /\ \A i \in 1 .. Len(burst) :
                    burst[i].type = "DATA" /\ Current(F, Fragments(c), burst[i])
      BY <3>a, <3>1, <3>3, StartFrames, ZenonT(60)
    <3>5. PICK burst \in Seq(Frame) :
            /\ Transmit(m, burst)
            /\ \A i \in 1 .. Len(burst) : burst[i].type = "DATA" /\ Current(F, Fragments(c), burst[i])
      BY <3>4
    <3>6. CutShape(Fragments(c)) /\ Len(Fragments(c)) # 0
      BY <3>1, FragmentsShape, Sizes
    <3>7. Cut(m)' = Fragments(c)
      BY <3>2, <3>4 DEF Cut
    <3> QED BY <3>4, <3>5, <3>6, <3>7
  <2>2. CASE /\ Tail(txQueue[m]) = <<>> /\ Transmit(m, <<>>)
             /\ txState' = [txState EXCEPT ![m] = "IDLE"]
             /\ txCount' = [txCount EXCEPT ![m] = 0]
             /\ txWindow' = [txWindow EXCEPT ![m] = [i \in Slots |->
                  IF \E k \in 0 .. (txCount[m] - 1) : i = Slot(SeqAdd(txLwe[m], k))
                  THEN NoTxSlot ELSE txWindow[m][i]]]
    <3>1. /\ txState'[m] = "IDLE" /\ txState'[q] = txState[q]
          /\ txCount'[m] = 0 /\ txCount'[q] = txCount[q] /\ txWindow'[q] = txWindow[q]
      BY <1>4, <2>2
    <3>2. Cut(m)' = <<>>
      BY <3>1 DEF Cut
    <3>3. CutShape(<<>>) /\ Len(<<>>) = 0 /\ <<>> \in Seq(Frame)
      BY EmptyShape
    <3>4. SlotsFilled(F, <<>>, txWindow'[m]) /\ AckedAt(F, <<>>, txWindow'[m]) = {}
      BY <3>3 DEF SlotsFilled, AckedAt
    <3>5. \A i \in 1 .. Len(<<>>) : <<>>[i].type = "DATA" /\ Current(F, <<>>, <<>>[i])
      BY <3>3
    <3> QED BY <2>2, <3>1, <3>2, <3>3, <3>4, <3>5
  <2> QED BY <1>5, <2>1, <2>2
<1>10. PICK fr, burst :
        /\ CutShape(fr) /\ Cut(m)' = fr /\ (fr = <<>> \/ Len(fr) # 0) /\ txCount'[m] = Len(fr)
        /\ SlotsFilled(F, fr, txWindow'[m]) /\ AckedAt(F, fr, txWindow'[m]) = {}
        /\ burst \in Seq(Frame) /\ Transmit(m, burst)
        /\ \A i \in 1 .. Len(burst) : burst[i].type = "DATA" /\ Current(F, fr, burst[i])
        /\ txState'[q] = txState[q] /\ txCount'[q] = txCount[q] /\ txWindow'[q] = txWindow[q]
  BY <1>9
<1>11. rxVars' = rxVars
  BY <1>1
<1>12. SenderOK(m)' /\ ReceiverOK(m)' /\ HeldOK(m)' /\ FramesOK(m)' /\ Edge(m)' = 0
  BY <1>1, <1>3, <1>4, <1>6, <1>10, <1>11, NewWindow
<1>13. DeliveredOK(m)'
  <2>1. Handed(m) = Done(m) + 1
    BY <1>3 DEF Handed
  <2>2. Handed(m)' = Done(m)'
    BY <1>8, <1>10, <1>12 DEF Handed
  <2>3. Handed(m)' = Handed(m)
    BY <1>8, <2>1, <2>2
  <2> QED BY <1>1, <1>2, <2>3 DEF DeliveredOK, Payload
<1>14. CoreOK(m)' /\ FramesOK(m)'
  BY <1>8, <1>12, <1>13 DEF CoreOK
<1>15. SameSender(q)
  BY <1>1, <1>6, <1>10 DEF SameSender
<1> QED BY <1>1, <1>7, <1>10, <1>14, <1>15, WindowTurned
-----------------------------------------------------------------------------
(* A fragment that lies in the receive window is one of the window on the  *)
(* way, at or past the edge, and not a late one.                           *)
LEMMA DataInWindow ==
  ASSUME IInv, NEW n \in Node, CoreOK(n), FramesOK(n), Arrived(Peer(n), "DATA"),
         InWindow(Head(chan[Peer(n)]).seq, rxLwe[Peer(n)], Window)
  PROVE  /\ ~Old(nextSeq[n], Head(chan[Peer(n)]))
         /\ \E k \in 0 .. (Len(Cut(n)) - 1) :
              /\ k >= Edge(n)
              /\ Head(chan[Peer(n)]) = DataFrame(SeqAdd(nextSeq[n], k), Cut(n)[k + 1])
<1> DEFINE F == nextSeq[n]
           f == Head(chan[Peer(n)])
           L == Len(Cut(n))
<1>1. /\ F \in Seqs /\ F \in Int /\ chan[Peer(n)] \in Seq(Frame)
      /\ rxLwe[Peer(n)] = SeqAdd(F, Edge(n)) /\ Edge(n) \in Int /\ 0 <= Edge(n)
  BY PositionType
<1>2. chan[Peer(n)] # <<>> /\ f.type = "DATA"
  BY DEF Arrived
<1>3. f = chan[Peer(n)][1] /\ 1 \in 1 .. Len(chan[Peer(n)])
  BY <1>1, <1>2, TailFacts
<1>4. L \in Int /\ L <= Window /\ Edge(n) <= L /\ DataOK(chan[Peer(n)], F, Cut(n), Edge(n))
  BY CutType, Sizes DEF CutShape, CoreOK, ReceiverOK, FramesOK
<1>5. SeqDist(SeqAdd(F, Edge(n)), f.seq) < Window
  BY <1>1 DEF InWindow
<1> HIDE DEF F, L
<1>6. ASSUME NEW j \in Int, j < Edge(n), Edge(n) - j <= Window PROVE f.seq # SeqAdd(F, j)
  <2>1. Edge(n) - j <= SeqMod
    BY <1>1, <1>6, Sizes
  <2>2. SeqDist(SeqAdd(F, Edge(n)), SeqAdd(F, j)) = SeqMod + j - Edge(n)
    BY <1>1, <1>6, <2>1, DistBehind
  <2>3. SeqMod + j - Edge(n) >= Window
    BY <1>1, <1>6, Sizes
  <2>4. SeqMod + j - Edge(n) \in Int /\ Window \in Int
    BY <1>1, <1>6, Sizes
  <2> QED BY <1>5, <2>2, <2>3, <2>4
<1>7. ASSUME Edge(n) = 0 PROVE ~Old(F, f)
  <2> SUFFICES ASSUME NEW k \in 1 .. Window PROVE f.seq # SeqAdd(F, -k)
    BY DEF Old
  <2>1. -k \in Int /\ -k < Edge(n) /\ Edge(n) - (-k) <= Window
    BY <1>7, Sizes
  <2> QED BY <1>6, <2>1
<1>8. Current(F, Cut(n), f)
  BY <1>2, <1>3, <1>4, <1>7 DEF DataOK
<1>9. PICK k \in 0 .. (L - 1) : f = DataFrame(SeqAdd(F, k), Cut(n)[k + 1])
  BY <1>8 DEF Current, L
<1>10. k \in Int /\ 0 <= k /\ k < L /\ f.seq = SeqAdd(F, k)
  BY <1>4, <1>9 DEF DataFrame
<1>11. k >= Edge(n)
  <2> SUFFICES ASSUME k < Edge(n) PROVE FALSE
    BY <1>1, <1>10
  <2>1. Edge(n) - k <= Window
    BY <1>1, <1>4, <1>10, Sizes
  <2> QED BY <1>6, <1>10, <2>1
<1>12. ~Old(F, f)
  <2> SUFFICES ASSUME NEW j \in 1 .. Window, f.seq = SeqAdd(F, -j) PROVE FALSE
    BY DEF Old
  <2>1. -j \in Int /\ -j < k /\ k - (-j) <= SeqMod /\ k - (-j) < SeqMod /\ j \in Int /\ 1 <= j
    BY <1>4, <1>10, Sizes
  <2>2. SeqDist(SeqAdd(F, -j), SeqAdd(F, k)) = k - (-j)
    BY <1>1, <1>10, <2>1, DistAhead
  <2>3. SeqDist(SeqAdd(F, k), SeqAdd(F, k)) = k - k
    <3>1. k - k < SeqMod
      BY <1>10, Sizes
    <3> QED BY <1>1, <1>10, <3>1, DistAhead
  <2>4. k - (-j) = k - k
    BY <1>10, <2>2, <2>3
  <2> QED BY <1>10, <2>1, <2>4
<1> QED BY <1>9, <1>11, <1>12 DEF F, L

(* The fragments of the window, each in its slot or not there.             *)
HoldsOf(F, fr, w) ==
  \A s \in Slots : w[s] = EmptyRxSlot \/
    \E k \in 0 .. (Len(fr) - 1) : s = Slot(SeqAdd(F, k)) /\ w[s] = Stored(F, fr, k)

(* A number in the receive window that the receiver holds is one of the    *)
(* sender's window.                                                        *)
LEMMA HeldMeans ==
  ASSUME NEW F \in Seqs, NEW fr, CutShape(fr), NEW w, HoldsOf(F, fr, w),
         NEW j \in Int, 0 <= j, j < SeqMod, Received(w, SeqAdd(F, j))
  PROVE  j < Len(fr) /\ w[Slot(SeqAdd(F, j))] = Stored(F, fr, j)
<1>1. Slot(SeqAdd(F, j)) \in Slots
  BY SlotOfNumber
<1>2. w[Slot(SeqAdd(F, j))] # EmptyRxSlot
  BY DEF Received, EmptyRxSlot
<1>3. PICK k \in 0 .. (Len(fr) - 1) : w[Slot(SeqAdd(F, j))] = Stored(F, fr, k)
  BY <1>1, <1>2 DEF HoldsOf
<1>4. SeqAdd(F, k) = SeqAdd(F, j)
  BY <1>3 DEF Received, Stored
<1>5. Len(fr) \in 0 .. Window
  BY DEF CutShape
<1>6. k \in Int /\ 0 <= k /\ k < Len(fr) /\ k < SeqMod
  BY <1>5, Sizes
<1>7. k = j
  BY <1>4, <1>6, SameNumber
<1> QED BY <1>3, <1>6, <1>7

(* One more fragment is stored.                                            *)
LEMMA StoreOne ==
  ASSUME NEW F \in Seqs, NEW fr, CutShape(fr), NEW edge \in Int, edge # Len(fr),
         NEW v, StoredOK(F, fr, edge, v),
         NEW k \in 0 .. (Len(fr) - 1),
         NEW w, \A s \in Slots : w[s] = IF s = Slot(SeqAdd(F, k)) THEN Stored(F, fr, k) ELSE v[s]
  PROVE  /\ HoldsOf(F, fr, w)
         /\ \A j \in 0 .. (Len(fr) - 1) : Received(v, SeqAdd(F, j)) \/ j = k => Received(w, SeqAdd(F, j))
<1>1. Len(fr) \in Int /\ Len(fr) <= Window /\ k \in Int /\ 0 <= k /\ k < Window
  BY Sizes DEF CutShape
<1>3. \A s \in Slots : w[s] = IF s = Slot(SeqAdd(F, k)) THEN Stored(F, fr, k) ELSE v[s]
  OBVIOUS
<1>4. \A s \in Slots : v[s] = EmptyRxSlot \/
        \E j \in 0 .. (Len(fr) - 1) : s = Slot(SeqAdd(F, j)) /\ v[s] = Stored(F, fr, j)
  BY DEF StoredOK
<1>5. HoldsOf(F, fr, w)
  BY <1>3, <1>4 DEF HoldsOf
<1>6. ASSUME NEW j \in 0 .. (Len(fr) - 1), Received(v, SeqAdd(F, j)) \/ j = k
      PROVE  Received(w, SeqAdd(F, j))
  <2>1. j \in Int /\ 0 <= j /\ j < Window
    BY <1>1, Sizes
  <2>2. Slot(SeqAdd(F, j)) \in Slots
    BY <2>1, SlotOfNumber
  <2>3. CASE j = k
    <3>1. w[Slot(SeqAdd(F, j))] = Stored(F, fr, k)
      BY <1>3, <2>2, <2>3
    <3> QED BY <2>3, <3>1 DEF Received, Stored
  <2>4. CASE j # k
    <3>1. Slot(SeqAdd(F, j)) # Slot(SeqAdd(F, k))
      BY <1>1, <2>1, <2>4, SameSlot
    <3>2. w[Slot(SeqAdd(F, j))] = v[Slot(SeqAdd(F, j))]
      BY <1>3, <2>2, <3>1
    <3> QED BY <1>6, <2>4, <3>2 DEF Received
  <2> QED BY <2>3, <2>4
<1> QED BY <1>5, <1>6

(* The receive edge stops at the first number missing, or at the end of    *)
(* the window.                                                             *)
LEMMA RunEnds ==
  ASSUME NEW F \in Seqs, NEW fr, CutShape(fr), NEW edge \in Int, 0 <= edge, edge < Len(fr),
         NEW w, HoldsOf(F, fr, w), \A j \in 0 .. (edge - 1) : Received(w, SeqAdd(F, j)),
         NEW run \in 0 .. Window, IsRun(w, SeqAdd(F, edge), run),
         NEW top \in Int, top = edge + run
  PROVE  /\ top <= Len(fr)
         /\ \A j \in 0 .. (top - 1) : Received(w, SeqAdd(F, j))
         /\ top # Len(fr) => ~Received(w, SeqAdd(F, top))
<1>1. /\ Len(fr) \in Int /\ Len(fr) <= Window /\ run \in Int /\ 0 <= run /\ run <= Window /\ F \in Int
  BY Sizes DEF CutShape
<1>2. \A i \in Int : SeqAdd(SeqAdd(F, edge), i) = SeqAdd(F, edge + i)
  BY <1>1, AddAdd
<1>3. ASSUME NEW j \in 0 .. (edge + run - 1) PROVE Received(w, SeqAdd(F, j))
  <2>1. j \in Int /\ 0 <= j /\ j < edge + run
    BY <1>1
  <2>2. CASE j < edge
    BY <2>1, <2>2
  <2>3. CASE j >= edge
    <3>1. PICK i \in 0 .. (run - 1) : i = j - edge
      BY <1>1, <2>1, <2>3
    <3>2. i \in Int /\ edge + i = j
      BY <1>1, <2>1, <3>1
    <3>3. Received(w, SeqAdd(SeqAdd(F, edge), i))
      BY DEF IsRun
    <3> QED BY <1>2, <3>2, <3>3
  <2> QED BY <2>1, <2>2, <2>3
<1>4. edge + run <= Len(fr)
  <2>1. CASE run = 0
    BY <1>1, <2>1
  <2>2. CASE run # 0
    <3>1. PICK j \in 0 .. (edge + run - 1) : j = edge + run - 1
      BY <1>1, <2>2
    <3>2. j \in Int /\ 0 <= j /\ j < SeqMod
      BY <1>1, <3>1, Sizes
    <3>3. j < Len(fr)
      BY <1>3, <3>2, HeldMeans
    <3> QED BY <1>1, <3>1, <3>2, <3>3
  <2> QED BY <2>1, <2>2
<1>5. ASSUME edge + run # Len(fr) PROVE ~Received(w, SeqAdd(F, edge + run))
  <2>1. run # Window
    BY <1>1, <1>4, <1>5, Sizes
  <2>2. ~Received(w, SeqAdd(SeqAdd(F, edge), run))
    BY <2>1 DEF IsRun
  <2> QED BY <1>1, <1>2, <2>2
<1>6. top - 1 = edge + run - 1
  BY <1>1
<1> QED BY <1>3, <1>4, <1>5, <1>6

(* Only the last fragment ends a C_PDU, and only the first begins one.     *)
LEMMA WholeIsAll ==
  ASSUME NEW F \in Seqs, NEW fr, CutShape(fr), NEW w, HoldsOf(F, fr, w),
         NEW top \in Int, 0 <= top, top <= Len(fr),
         \A j \in 0 .. (top - 1) : Received(w, SeqAdd(F, j)),
         NEW j \in 0 .. (top - 1), NEW i \in 0 .. j
  PROVE  Whole(w, F, i, j) <=> i = 0 /\ j = Len(fr) - 1
<1>1. /\ Len(fr) \in Int /\ Len(fr) <= Window /\ j \in Int /\ i \in Int /\ 0 <= i /\ i <= j /\ j < top
      /\ \A k \in 1 .. Len(fr) : fr[k].part = k /\ fr[k].size = Len(fr)
  BY Sizes DEF CutShape
<1>2. ASSUME NEW k \in i .. j
      PROVE  /\ k \in Int /\ 0 <= k /\ k < Len(fr)
             /\ Received(w, SeqAdd(F, k))
             /\ Starts(w[Slot(SeqAdd(F, k))].fragment) <=> k = 0
             /\ Ends(w[Slot(SeqAdd(F, k))].fragment) <=> k = Len(fr) - 1
  <2>1. k \in Int /\ 0 <= k /\ k < top /\ k < Len(fr) /\ k < SeqMod
    BY <1>1, Sizes
  <2>2. Received(w, SeqAdd(F, k))
    BY <2>1
  <2>3. w[Slot(SeqAdd(F, k))] = Stored(F, fr, k)
    BY <2>1, <2>2, HeldMeans
  <2>4. w[Slot(SeqAdd(F, k))].fragment = fr[k + 1]
    BY <2>3 DEF Stored
  <2>5. k + 1 \in 1 .. Len(fr)
    BY <1>1, <2>1
  <2>6. fr[k + 1].part = k + 1 /\ fr[k + 1].size = Len(fr)
    BY <1>1, <2>5
  <2>7. (k + 1 = 1 <=> k = 0) /\ (k + 1 = Len(fr) <=> k = Len(fr) - 1)
    BY <1>1, <2>1
  <2> QED BY <2>1, <2>2, <2>4, <2>6, <2>7 DEF Starts, Ends
<1>3. i \in i .. j /\ j \in i .. j
  BY <1>1
<1>4. ASSUME Whole(w, F, i, j) PROVE i = 0 /\ j = Len(fr) - 1
  BY <1>2, <1>3, <1>4 DEF Whole
<1>5. ASSUME i = 0, j = Len(fr) - 1 PROVE Whole(w, F, i, j)
  BY <1>2, <1>5 DEF Whole
<1> QED BY <1>4, <1>5

(* The search for whole C_PDUs finds the one of the window when its last   *)
(* number is there, and nothing before.                                    *)
LEMMA CompleteMeans ==
  ASSUME NEW F \in Seqs, NEW fr, CutShape(fr), Len(fr) > 0, NEW w, HoldsOf(F, fr, w),
         NEW top \in Int, 0 <= top, top <= Len(fr),
         \A j \in 0 .. (top - 1) : Received(w, SeqAdd(F, j))
  PROVE  /\ top # Len(fr) => CompleteAt(w, F, top) = {}
         /\ top = Len(fr) =>
              /\ CompleteAt(w, F, top) = {Len(fr) - 1}
              /\ FirstOf(w, F, Len(fr) - 1) = 0
              /\ Reassembled(w, F, Len(fr) - 1) = fr
<1> DEFINE L == Len(fr)
<1>1. L \in Int /\ L <= Window /\ L > 0 /\ fr \in Seq(Fragment) /\ F \in Int
  BY Sizes DEF CutShape
<1>2. \A j \in 0 .. (top - 1) : \A i \in 0 .. j : Whole(w, F, i, j) <=> i = 0 /\ j = L - 1
  BY WholeIsAll
<1> HIDE DEF L
<1>3. ASSUME top # L PROVE CompleteAt(w, F, top) = {}
  <2>1. \A j \in 0 .. (top - 1) : j # L - 1
    BY <1>1, <1>3 DEF L
  <2> QED BY <1>2, <2>1 DEF CompleteAt
<1>4. ASSUME top = L
      PROVE  /\ CompleteAt(w, F, top) = {L - 1} /\ FirstOf(w, F, L - 1) = 0
             /\ Reassembled(w, F, L - 1) = fr
  <2>1. L - 1 \in 0 .. (top - 1) /\ 0 \in 0 .. (L - 1)
    BY <1>1, <1>4
  <2>2. CompleteAt(w, F, top) = {L - 1}
    BY <1>2, <2>1 DEF CompleteAt
  <2>3. \A i \in 0 .. (L - 1) : Whole(w, F, i, L - 1) <=> i = 0
    BY <1>2, <2>1
  <2>4. FirstOf(w, F, L - 1) = 0
    BY <2>1, <2>3 DEF FirstOf
  <2>5. (L - 1) - 0 + 1 = L
    BY <1>1
  <2>6. Reassembled(w, F, L - 1) = [k \in 1 .. L |-> w[Slot(SeqAdd(F, 0 + k - 1))].fragment]
    BY <2>4, <2>5 DEF Reassembled
  <2>7. ASSUME NEW k \in 1 .. L PROVE w[Slot(SeqAdd(F, 0 + k - 1))].fragment = fr[k]
    <3>1. PICK j \in 0 .. (top - 1) : j = 0 + k - 1
      BY <1>1, <1>4
    <3>2. j \in Int /\ 0 <= j /\ j < SeqMod /\ j + 1 = k
      BY <1>1, <1>4, <3>1, Sizes
    <3>3. w[Slot(SeqAdd(F, j))] = Stored(F, fr, j)
      BY <3>2, HeldMeans
    <3>4. w[Slot(SeqAdd(F, j))].fragment = fr[k]
      BY <3>2, <3>3 DEF Stored
    <3> QED BY <3>1, <3>4
  <2>8. fr = [k \in 1 .. L |-> fr[k]]
    BY <1>1 DEF L
  <2> QED BY <2>2, <2>4, <2>6, <2>7, <2>8
<1> QED BY <1>3, <1>4 DEF L

(* There is one way to put one number in order.                            *)
LEMMA OrderOfOne ==
  ASSUME NEW j \in Nat, NEW f \in InOrder({j})
  PROVE  Len(f) = 1 /\ DOMAIN f = 1 .. 1 /\ f[1] = j /\ f # <<>>
<1>1. Cardinality({j}) = 1
  BY FS_Singleton
<1>2. f \in [1 .. 1 -> {j}]
  BY <1>1 DEF InOrder
<1> QED BY <1>2

(* There is one way to put nothing in order.                               *)
LEMMA OrderOfNone == ASSUME NEW f \in InOrder({}) PROVE f = <<>> /\ DOMAIN f = {}
<1>1. Cardinality({}) = 0
  BY FS_EmptySet
<1>2. f \in [1 .. 0 -> {}]
  BY <1>1 DEF InOrder
<1>3. 1 .. 0 = {}
  OBVIOUS
<1>4. DOMAIN f = {}
  BY <1>2, <1>3
<1>5. f \in Seq({}) /\ Len(f) = 0
  BY <1>2
<1>6. f = <<>>
  BY <1>5, EmptySeq
<1> QED BY <1>4, <1>6

(* What the arrival of a fragment does to the receiver.                    *)
LEMMA RxDataEffect ==
  ASSUME IInv, NEW n \in Node, CoreOK(n), FramesOK(n), RxData(Peer(n))
  PROVE  \E top \in 0 .. Len(Cut(n)) :
           /\ Edge(n) <= top /\ Edge(n) < Len(Cut(n))
           /\ rxLwe'[Peer(n)] = SeqAdd(nextSeq[n], top)
           /\ deliverLwe'[Peer(n)] = IF top = Len(Cut(n)) THEN rxLwe'[Peer(n)] ELSE nextSeq[n]
           /\ StoredOK(nextSeq[n], Cut(n), top, rxWindow'[Peer(n)])
           /\ \A j \in 0 .. (Len(Cut(n)) - 1) :
                Received(rxWindow[Peer(n)], SeqAdd(nextSeq[n], j)) =>
                  j < top \/ Received(rxWindow'[Peer(n)], SeqAdd(nextSeq[n], j))
           /\ delivered'[Peer(n)] = IF top = Len(Cut(n)) THEN Append(delivered[Peer(n)], Cut(n))
                                    ELSE delivered[Peer(n)]
           /\ top # Len(Cut(n)) => \A s \in Slots :
                rxWindow[Peer(n)][s] # EmptyRxSlot => rxWindow'[Peer(n)][s] = rxWindow[Peer(n)][s]
<1> DEFINE p == Peer(n)
           F == nextSeq[n]
           fr == Cut(n)
           f == Head(chan[p])
           v == rxWindow[p]
           w == [v EXCEPT ![Slot(f.seq)] = [status |-> "RECEIVED", seq |-> f.seq, fragment |-> f.fragment]]
           from == deliverLwe[p]
           complete(q) == CompleteAt(w, from, SeqDist(from, q))
<1>1. /\ F \in Seqs /\ F \in Int /\ p \in Node /\ rxLwe[p] = SeqAdd(F, Edge(n)) /\ rxLwe[p] \in Seqs
      /\ Edge(n) \in Int /\ 0 <= Edge(n)
  BY PositionType
<1>2. /\ rxLwe \in [Node -> Seqs] /\ deliverLwe \in [Node -> Seqs]
      /\ rxWindow \in [Node -> [Slots -> RxSlot \cup {EmptyRxSlot}]]
      /\ v \in [Slots -> RxSlot \cup {EmptyRxSlot}]
      /\ delivered \in [Node -> Seq(Seq(Fragment))] /\ delivered[p] \in Seq(Seq(Fragment))
  BY <1>1 DEF IInv, TypeOK
<1>3. CutShape(fr) /\ Len(fr) \in Int /\ Len(fr) <= Window /\ fr \in Seq(Fragment)
  BY CutType, Sizes DEF CutShape
<1>4. /\ Arrived(p, "DATA") /\ InWindow(f.seq, rxLwe[p], Window)
      /\ \E run \in 0 .. Window :
           /\ IsRun(w, rxLwe[p], run)
           /\ rxLwe' = [rxLwe EXCEPT ![p] = SeqAdd(rxLwe[p], run)]
           /\ \E order \in InOrder(complete(SeqAdd(rxLwe[p], run))) :
                /\ delivered' = [delivered EXCEPT ![p] =
                     @ \o [k \in DOMAIN order |-> Reassembled(w, from, order[k])]]
                /\ deliverLwe' = [deliverLwe EXCEPT ![p] =
                     IF order = <<>> THEN @ ELSE SeqAdd(from, order[Len(order)] + 1)]
           /\ rxWindow' = [rxWindow EXCEPT ![p] = [s \in Slots |->
                IF \E j \in complete(SeqAdd(rxLwe[p], run)) : \E k \in FirstOf(w, from, j) .. j :
                     s = Slot(SeqAdd(from, k))
                THEN EmptyRxSlot ELSE w[s]]]
  BY DEF RxData
<1>5. PICK k \in 0 .. (Len(fr) - 1) : k >= Edge(n) /\ f = DataFrame(SeqAdd(F, k), fr[k + 1])
  BY <1>4, DataInWindow
<1>6. /\ Edge(n) < Len(fr) /\ Edge(n) # Len(fr) /\ Len(fr) > 0
      /\ w = [v EXCEPT ![Slot(SeqAdd(F, k))] = Stored(F, fr, k)]
  <2>1. f.seq = SeqAdd(F, k) /\ f.fragment = fr[k + 1]
    BY <1>5 DEF DataFrame
  <2> HIDE DEF f, v
  <2> QED BY <1>1, <1>3, <1>5, <2>1 DEF Stored
<1>7. from = F /\ StoredOK(F, fr, Edge(n), v)
  BY <1>1, <1>3, <1>6 DEF CoreOK, ReceiverOK
<1> HIDE DEF p, F, fr, f, v, w, from
<1>8. /\ HoldsOf(F, fr, w)
      /\ \A j \in 0 .. (Len(fr) - 1) : Received(v, SeqAdd(F, j)) \/ j = k => Received(w, SeqAdd(F, j))
  <2>1. F \in Seqs /\ CutShape(fr) /\ Edge(n) \in Int /\ Edge(n) # Len(fr)
    BY <1>1, <1>3, <1>6
  <2>2. StoredOK(F, fr, Edge(n), v)
    BY <1>7
  <2>3. \A s \in Slots : w[s] = IF s = Slot(SeqAdd(F, k)) THEN Stored(F, fr, k) ELSE v[s]
    BY <1>2, <1>6
  <2> QED BY <2>1, <2>2, <2>3, StoreOne
<1>9. PICK run \in 0 .. Window :
        /\ IsRun(w, rxLwe[p], run)
        /\ rxLwe' = [rxLwe EXCEPT ![p] = SeqAdd(rxLwe[p], run)]
        /\ \E order \in InOrder(complete(SeqAdd(rxLwe[p], run))) :
             /\ delivered' = [delivered EXCEPT ![p] =
                  @ \o [i \in DOMAIN order |-> Reassembled(w, from, order[i])]]
             /\ deliverLwe' = [deliverLwe EXCEPT ![p] =
                  IF order = <<>> THEN @ ELSE SeqAdd(from, order[Len(order)] + 1)]
        /\ rxWindow' = [rxWindow EXCEPT ![p] = [s \in Slots |->
             IF \E j \in complete(SeqAdd(rxLwe[p], run)) : \E i \in FirstOf(w, from, j) .. j :
                  s = Slot(SeqAdd(from, i))
             THEN EmptyRxSlot ELSE w[s]]]
  BY <1>4
<1>10. \A j \in 0 .. (Edge(n) - 1) : Received(w, SeqAdd(F, j))
  <2> SUFFICES ASSUME NEW j \in 0 .. (Edge(n) - 1) PROVE Received(w, SeqAdd(F, j))
    OBVIOUS
  <2>1. j \in 0 .. (Len(fr) - 1)
    BY <1>1, <1>3, <1>6
  <2>2. Received(v, SeqAdd(F, j))
    BY <1>1, <1>6, <1>7 DEF StoredOK
  <2> QED BY <1>8, <2>1, <2>2
<1>11. PICK top \in Int : top = Edge(n) + run
  BY <1>1
<1>12. /\ top <= Len(fr) /\ \A j \in 0 .. (top - 1) : Received(w, SeqAdd(F, j))
       /\ top # Len(fr) => ~Received(w, SeqAdd(F, top))
  <2>1. IsRun(w, SeqAdd(F, Edge(n)), run)
    BY <1>1, <1>9
  <2>2. Edge(n) \in Int /\ 0 <= Edge(n) /\ Edge(n) < Len(fr) /\ CutShape(fr) /\ F \in Seqs /\ HoldsOf(F, fr, w)
    BY <1>1, <1>3, <1>6, <1>8
  <2> QED BY <1>10, <1>11, <2>1, <2>2, RunEnds
<1>13. 0 <= top /\ Edge(n) <= top /\ top < SeqMod
  BY <1>1, <1>3, <1>11, <1>12, Sizes
<1>14. SeqAdd(rxLwe[p], run) = SeqAdd(F, top) /\ SeqDist(from, SeqAdd(F, top)) = top
  <2>1. run \in Int
    BY Sizes
  <2>2. SeqAdd(SeqAdd(F, Edge(n)), run) = SeqAdd(F, top)
    BY <1>1, <1>11, <2>1, AddAdd
  <2> QED BY <1>1, <1>7, <1>13, <2>2, OffsetOf
<1>15. rxLwe'[p] = SeqAdd(F, top)
  BY <1>1, <1>2, <1>9, <1>14
<1>16. /\ top # Len(fr) => complete(SeqAdd(rxLwe[p], run)) = {}
       /\ top = Len(fr) =>
            /\ complete(SeqAdd(rxLwe[p], run)) = {Len(fr) - 1}
            /\ FirstOf(w, F, Len(fr) - 1) = 0 /\ Reassembled(w, F, Len(fr) - 1) = fr
  <2>1. complete(SeqAdd(rxLwe[p], run)) = CompleteAt(w, F, top)
    BY <1>7, <1>14
  <2> HIDE DEF complete
  <2> QED BY <1>1, <1>3, <1>6, <1>8, <1>12, <1>13, <2>1, CompleteMeans
<1> HIDE DEF complete
<1>17. CASE top # Len(fr)
  <2>1. complete(SeqAdd(rxLwe[p], run)) = {}
    BY <1>16, <1>17
  <2>2. PICK order \in InOrder({}) :
          /\ delivered' = [delivered EXCEPT ![p] =
               @ \o [i \in DOMAIN order |-> Reassembled(w, from, order[i])]]
          /\ deliverLwe' = [deliverLwe EXCEPT ![p] =
               IF order = <<>> THEN @ ELSE SeqAdd(from, order[Len(order)] + 1)]
    BY <1>9, <2>1
  <2>3. order = <<>> /\ DOMAIN order = {}
    BY OrderOfNone
  <2>4. deliverLwe'[p] = F
    BY <1>1, <1>2, <1>7, <2>2, <2>3 DEF from
  <2>5. delivered'[p] = delivered[p]
    <3>1. [i \in DOMAIN order |-> Reassembled(w, from, order[i])] = <<>>
      BY <2>3
    <3>2. delivered[p] \o <<>> = delivered[p]
      BY <1>2
    <3> QED BY <1>1, <1>2, <2>2, <3>1, <3>2
  <2>6. w \in [Slots -> RxSlot \cup {EmptyRxSlot} \cup {Stored(F, fr, k)}]
    BY <1>2, <1>6
  <2>7. rxWindow'[p] = w
    <3>1. rxWindow'[p] = [s \in Slots |-> w[s]]
      BY <1>1, <1>2, <1>9, <2>1
    <3> QED BY <2>6, <3>1
  <2>8. StoredOK(F, fr, top, rxWindow'[p])
    BY <1>8, <1>12, <1>17, <2>7 DEF StoredOK, HoldsOf
  <2>9. \A j \in 0 .. (Len(fr) - 1) : Received(v, SeqAdd(F, j)) =>
          j < top \/ Received(rxWindow'[p], SeqAdd(F, j))
    BY <1>8, <2>7
  <2>10. top \in 0 .. Len(fr)
    BY <1>3, <1>12, <1>13
  <2>11. ASSUME NEW s \in Slots, v[s] # EmptyRxSlot PROVE rxWindow'[p][s] = v[s]
    <3>1. w[s] = IF s = Slot(SeqAdd(F, k)) THEN Stored(F, fr, k) ELSE v[s]
      BY <1>2, <1>6
    <3>2. PICK j \in 0 .. (Len(fr) - 1) : s = Slot(SeqAdd(F, j)) /\ v[s] = Stored(F, fr, j)
      BY <1>6, <1>7, <2>11 DEF StoredOK
    <3>3. j \in Int /\ 0 <= j /\ j < Window /\ k \in Int /\ 0 <= k /\ k < Window
      BY <1>3, Sizes
    <3>4. s = Slot(SeqAdd(F, k)) => j = k
      BY <1>1, <3>2, <3>3, SameSlot
    <3> QED BY <2>7, <3>1, <3>2, <3>4
  <2> QED BY <1>6, <1>13, <1>15, <1>17, <2>11, <2>4, <2>5, <2>8, <2>9, <2>10 DEF p, F, fr, v
<1>18. CASE top = Len(fr)
  <2>1. /\ complete(SeqAdd(rxLwe[p], run)) = {Len(fr) - 1}
        /\ FirstOf(w, F, Len(fr) - 1) = 0 /\ Reassembled(w, F, Len(fr) - 1) = fr
    BY <1>16, <1>18
  <2>2. PICK last \in Nat : last = Len(fr) - 1
    BY <1>1, <1>3, <1>6
  <2>3. PICK order \in InOrder({last}) :
          /\ delivered' = [delivered EXCEPT ![p] =
               @ \o [i \in DOMAIN order |-> Reassembled(w, from, order[i])]]
          /\ deliverLwe' = [deliverLwe EXCEPT ![p] =
               IF order = <<>> THEN @ ELSE SeqAdd(from, order[Len(order)] + 1)]
    BY <1>9, <2>1, <2>2
  <2>4. Len(order) = 1 /\ DOMAIN order = 1 .. 1 /\ order[1] = last /\ order # <<>>
    BY OrderOfOne
  <2>5. last + 1 = top
    BY <1>3, <1>18, <2>2
  <2>6. deliverLwe'[p] = SeqAdd(F, top)
    BY <1>1, <1>2, <1>7, <2>3, <2>4, <2>5
  <2>7. delivered'[p] = Append(delivered[p], fr)
    <3> DEFINE new == [i \in DOMAIN order |-> Reassembled(w, from, order[i])]
    <3>1. new = <<fr>>
      BY <1>7, <2>1, <2>2, <2>4
    <3>2. delivered'[p] = delivered[p] \o new
      BY <1>1, <1>2, <2>3
    <3> HIDE DEF new
    <3>3. Append(delivered[p], fr) = delivered[p] \o <<fr>>
      BY <1>2, <1>3, AppendIsConcat
    <3> QED BY <3>1, <3>2, <3>3
  <2>8. ASSUME NEW s \in Slots PROVE rxWindow'[p][s] = EmptyRxSlot
    <3>1. rxWindow'[p][s] = IF \E j \in {last} : \E i \in FirstOf(w, from, j) .. j :
                                 s = Slot(SeqAdd(from, i))
                            THEN EmptyRxSlot ELSE w[s]
      BY <1>1, <1>2, <1>9, <2>1, <2>2
    <3>2. rxWindow'[p][s] = IF \E i \in 0 .. last : s = Slot(SeqAdd(F, i)) THEN EmptyRxSlot ELSE w[s]
      BY <1>7, <2>1, <2>2, <3>1
    <3>3. w[s] = EmptyRxSlot \/ \E i \in 0 .. last : s = Slot(SeqAdd(F, i))
      BY <1>8, <2>2 DEF HoldsOf
    <3> QED BY <3>2, <3>3
  <2>9. StoredOK(F, fr, top, rxWindow'[p])
    BY <1>18, <2>8 DEF StoredOK
  <2>10. \A j \in 0 .. (Len(fr) - 1) : j < top
    BY <1>3, <1>18
  <2>11. top \in 0 .. Len(fr)
    BY <1>3, <1>12, <1>13
  <2> QED BY <1>6, <1>13, <1>15, <1>18, <2>6, <2>7, <2>9, <2>10, <2>11 DEF p, F, fr
<1> QED BY <1>17, <1>18

(* Acknowledgements on the way stay true while the receiver's edge moves   *)
(* on and what it has grows.                                               *)
LEMMA AcksGrow ==
  ASSUME NEW c \in Seq(Frame), NEW F \in Seqs, NEW base, NEW edge \in Int, NEW top \in Int, edge <= top,
         NEW acked, NEW got, NEW more, got \subseteq more,
         AcksOK(c, F, base, edge, acked, got)
  PROVE  AcksOK(c, F, base, top, acked, more)
<1> SUFFICES ASSUME NEW i \in 1 .. Len(c), c[i].type = "ACK"
             PROVE  AckOK(c[i], F, base, top, acked, more)
  BY DEF AcksOK
<1>1. AckOK(c[i], F, base, edge, acked, got)
  BY DEF AcksOK
<1>2. SeqDist(F, c[i].rxLwe) \in Int
  BY FrameFields
<1>3. SeqDist(F, c[i].rxLwe) <= edge
  BY <1>1 DEF AckOK
<1>4. SeqDist(F, c[i].rxLwe) <= top
  BY <1>2, <1>3
<1> QED BY <1>1, <1>4 DEF AckOK

(* The direction of the fragment that arrives.                             *)
LEMMA RxDataCore ==
  ASSUME IInv, NEW n \in Node, RxData(Peer(n)), CoreOK(n), FramesOK(n), ResetPart(n)
  PROVE  CoreOK(n)' /\ FramesOK(n)' /\ ResetPart(n)'
<1> DEFINE p == Peer(n)
           F == nextSeq[n]
           fr == Cut(n)
           L == Len(Cut(n))
<1>1. /\ F \in Seqs /\ p \in Node /\ p # n /\ rxLwe[p] = SeqAdd(F, Edge(n))
      /\ Edge(n) \in Int /\ 0 <= Edge(n) /\ Base(n) \in Int
      /\ chan[p] \in Seq(Frame) /\ chan[n] \in Seq(Frame)
  BY PositionType
<1>2. /\ chan[p] # <<>> /\ Head(chan[p]).type = "DATA" /\ Take(p)
      /\ UNCHANGED <<txVars, resetVars, pendingTx, submitted, confirmed, failed>>
      /\ Arrived(p, "DATA") /\ InWindow(Head(chan[p]).seq, rxLwe[p], Window)
  BY DEF RxData, Arrived
<1>3. chan'[p] = Tail(chan[p]) /\ chan'[n] = chan[n] /\ Shrinks(n) /\ Shrinks(p)
  <2>1. Shrinks(n) /\ Shrinks(p)
    BY <1>1, <1>2, TakeShrinks
  <2> QED BY <1>1, <1>2, <2>1 DEF Take, IInv, TypeOK
<1>4. PICK top \in 0 .. L :
        /\ Edge(n) <= top /\ Edge(n) < L
        /\ rxLwe'[p] = SeqAdd(F, top)
        /\ deliverLwe'[p] = IF top = L THEN rxLwe'[p] ELSE F
        /\ StoredOK(F, fr, top, rxWindow'[p])
        /\ \A j \in 0 .. (L - 1) :
             Received(rxWindow[p], SeqAdd(F, j)) => j < top \/ Received(rxWindow'[p], SeqAdd(F, j))
        /\ delivered'[p] = IF top = L THEN Append(delivered[p], fr) ELSE delivered[p]
  BY RxDataEffect
<1>5. /\ CutShape(fr) /\ L \in Int /\ L <= Window /\ L > 0 /\ fr # <<>> /\ txState[n] = "WAIT_ACK"
      /\ txQueue[n] # <<>> /\ fr = Fragments(Head(txQueue[n])) /\ fr \in Seq(Fragment)
  <2>1. CutShape(fr) /\ L \in Int /\ L <= Window /\ fr \in Seq(Fragment)
    BY CutType, Sizes DEF CutShape
  <2>2. L > 0
    BY <1>1, <1>4, <2>1
  <2>3. txState[n] = "WAIT_ACK"
    BY <2>2, CutType
  <2> QED BY <2>1, <2>2, <2>3, CutType, EmptyShape DEF Cut
<1>6. Cut(n)' = fr /\ Base(n)' = Base(n) /\ nextSeq'[n] = F /\ Acked(n)' = Acked(n)
  BY <1>2 DEF Cut, Base, Acked, txVars
<1>7. Edge(n)' = top /\ top \in Int /\ 0 <= top /\ top <= L
  <2>1. top \in Int /\ 0 <= top /\ top < SeqMod /\ top <= L
    BY <1>5, Sizes
  <2>2. SeqDist(F, SeqAdd(F, top)) = top
    BY <1>1, <2>1, OffsetOf
  <2> QED BY <1>4, <1>6, <2>1, <2>2 DEF Edge
<1> HIDE DEF p, F, fr, L
<1>8. Got(n) \subseteq Got(n)'
  <2>1. Got(n) = {k \in 0 .. (L - 1) : k < Edge(n) \/ Received(rxWindow[p], SeqAdd(F, k))}
    BY DEF Got, GotAt, p, F, L
  <2>2. Got(n)' = {k \in 0 .. (L - 1) : k < top \/ Received(rxWindow'[p], SeqAdd(F, k))}
    <3>1. Got(n)' = GotAt(F, fr, top, rxWindow'[p])
      BY <1>6, <1>7 DEF Got, p
    <3> QED BY <3>1 DEF GotAt, fr, L
  <2>3. \A k \in 0 .. (L - 1) : k < Edge(n) => k < top
    BY <1>1, <1>4, <1>5, <1>7
  <2> QED BY <1>4, <2>1, <2>2, <2>3
<1>9. QueueOK(n) /\ SenderOK(n) /\ ReceiverOK(n) /\ DeliveredOK(n) /\ HeldOK(n)
  BY DEF CoreOK
<1>10. Done(n)' = Done(n) /\ Total(n)' = Total(n) /\ Waiting(n)' = Waiting(n) /\ txQueue' = txQueue
  BY <1>2 DEF Done, Total, Waiting, txVars
<1>11. QueueOK(n)'
  BY <1>2, <1>9, <1>10 DEF QueueOK
<1>12. SenderOK(n)'
  BY <1>2, <1>6, <1>9 DEF SenderOK, txVars, F, fr
<1>13. ReceiverOK(n)'
  <2>1. Base(n) <= top
    BY <1>1, <1>4, <1>7, <1>9 DEF ReceiverOK
  <2> QED BY <1>4, <1>6, <1>7, <2>1 DEF ReceiverOK, p, L, fr
<1>14. HeldOK(n)'
  BY <1>6, <1>8, <1>9 DEF HeldOK
<1>15. DeliveredOK(n)'
  <2>1. Done(n) \in Nat /\ Waiting(n) > 0 /\ Waiting(n) \in Nat
    BY <1>5, <1>9, HandedBound
  <2>2. Handed(n) = Done(n) /\ Handed(n)' = Done(n) + (IF top = L THEN 1 ELSE 0)
    <3>1. Edge(n) # L
      BY <1>1, <1>4, <1>5
    <3>2. Handed(n) = Done(n)
      BY <2>1, <3>1 DEF Handed, L
    <3> QED BY <1>5, <1>6, <1>7, <1>10, <3>2 DEF Handed, L, fr
  <2>3. Len(delivered[p]) = Done(n) /\ \A i \in 1 .. Done(n) : delivered[p][i] = Payload(n, i)
    BY <1>9, <2>2 DEF DeliveredOK, p
  <2>4. \A i : Payload(n, i)' = Payload(n, i)
    BY <1>2 DEF Payload
  <2>5. CASE top # L
    <3>1. delivered'[p] = delivered[p] /\ Handed(n)' = Done(n)
      BY <1>4, <2>1, <2>2, <2>5
    <3> QED BY <2>3, <2>4, <3>1 DEF DeliveredOK, p
  <2>6. CASE top = L
    <3>1. delivered'[p] = Append(delivered[p], fr) /\ Handed(n)' = Done(n) + 1
      BY <1>4, <2>2, <2>6
    <3>2. delivered[p] \in Seq(Seq(Fragment))
      BY <1>1 DEF IInv, TypeOK
    <3>3. /\ Len(delivered'[p]) = Done(n) + 1 /\ delivered'[p][Done(n) + 1] = fr
          /\ \A i \in 1 .. Done(n) : delivered'[p][i] = delivered[p][i]
      <4>1. /\ Len(delivered'[p]) = Len(delivered[p]) + 1
            /\ \A i \in 1 .. Len(delivered[p]) : delivered'[p][i] = delivered[p][i]
            /\ delivered'[p][Len(delivered[p]) + 1] = fr
        BY <1>5, <3>1, <3>2, AppendProperties
      <4> QED BY <2>3, <4>1
    <3>4. fr = Payload(n, Done(n) + 1)
      <4>1. 1 \in 1 .. Waiting(n)
        BY <2>1
      <4>2. txQueue[n][1] = [id |-> Done(n) + 1, size |-> submitted[n][Done(n) + 1]]
        BY <1>9, <4>1 DEF QueueOK
      <4>3. txQueue[n] \in Seq(CPdu)
        BY DEF IInv, TypeOK
      <4>4. Head(txQueue[n]) = txQueue[n][1]
        BY <1>5, <4>3, HeadTailProperties
      <4> QED BY <1>5, <4>2, <4>4 DEF Payload
    <3>5. \A i \in 1 .. (Done(n) + 1) : i \in 1 .. Done(n) \/ i = Done(n) + 1
      BY <2>1
    <3>6. \A i \in 1 .. (Done(n) + 1) : delivered'[p][i] = Payload(n, i)'
      BY <2>3, <2>4, <3>3, <3>4, <3>5
    <3> QED BY <3>1, <3>3, <3>6 DEF DeliveredOK, p
  <2> QED BY <2>5, <2>6
<1>16. FramesOK(n)'
  <2>1. AcksOK(chan[n], F, Base(n), Edge(n), Acked(n), Got(n)) /\ DataOK(chan[p], F, fr, Edge(n))
    BY DEF FramesOK, p, F, fr
  <2>2. AcksOK(chan[n], F, Base(n), top, Acked(n), Got(n)')
    BY <1>1, <1>4, <1>7, <1>8, <2>1, AcksGrow
  <2>3. DataOK(Tail(chan[p]), F, fr, Edge(n))
    BY <1>1, <1>2, <2>1, DataTail
  <2>4. ~Old(F, chan[p][1])
    <3>1. ~Old(F, Head(chan[p]))
      BY <1>2, DataInWindow DEF p, F
    <3> QED BY <1>1, <1>2, <3>1, TailFacts
  <2>5. ASSUME NEW i \in 1 .. Len(Tail(chan[p])), Tail(chan[p])[i].type = "DATA"
        PROVE  Current(F, fr, Tail(chan[p])[i])
    <3>1. Tail(chan[p])[i] = chan[p][i + 1] /\ i + 1 \in 1 .. Len(chan[p]) /\ chan[p][1].type = "DATA"
      BY <1>1, <1>2, TailFacts
    <3>2. 1 \in 1 .. ((i + 1) - 1)
      OBVIOUS
    <3> QED BY <2>1, <2>4, <2>5, <3>1, <3>2 DEF DataOK
  <2>6. DataOK(Tail(chan[p]), F, fr, top)
    BY <2>5 DEF DataOK
  <2> QED BY <1>3, <1>6, <1>7, <2>2, <2>6 DEF FramesOK, p
<1>17. ResetPart(n)'
  <2>1. ~TxFresh(n)
    BY <1>5 DEF TxFresh
  <2>2. MaxSubmit[n] # 0 /\ ResetsOK(n) /\ ~resetPending[n] /\ OnlyResets(pendingTx[n])
    BY <2>1 DEF ResetPart, NeverUsed, ResetsOK
  <2>3. No("RESET", chan[p])
    <3> SUFFICES ASSUME NEW i \in 1 .. Len(chan[p]), chan[p][i].type = "RESET" PROVE FALSE
      BY DEF No
    <3>1. chan[p][1].type = "DATA"
      BY <1>1, <1>2, TailFacts
    <3>2. i # 1
      BY <3>1
    <3>3. 1 \in 1 .. (i - 1)
      BY <3>2
    <3> QED BY <2>2, <3>1, <3>3 DEF ResetsOK, ResetsFirst, p
  <2>4. /\ No("RESET", chan'[p]) /\ No("RESET", chan'[n]) /\ No("RESET_ACK", chan'[p])
        /\ No("RESET_ACK", chan[n]) => No("RESET_ACK", chan'[n])
    BY <1>1, <1>3, <2>2, <2>3, NoShrink DEF ResetsOK, p
  <2>5. ResetsFirst(chan'[p], RxFresh(p)')
    BY <2>4 DEF No, ResetsFirst
  <2>6. resetPending' = resetPending /\ pendingTx' = pendingTx
    BY <1>2 DEF resetVars
  <2>7. ResetsOK(n)'
    BY <2>2, <2>4, <2>5, <2>6 DEF ResetsOK, p
  <2> QED BY <2>2, <2>6, <2>7 DEF ResetPart
<1> QED BY <1>11, <1>12, <1>13, <1>14, <1>15, <1>16, <1>17 DEF CoreOK

(* A fragment that arrives keeps the invariant of both directions.         *)
LEMMA RxDataDelivery ==
  ASSUME IInv, NEW m \in Node, RxData(m), NEW n \in Node, DirectionOK(n)
  PROVE  DirectionOK(n)'
<1>1. CoreOK(n) /\ FramesOK(n) /\ ResetPart(n) /\ SenderOK(n)
  BY DEF DirectionOK, CoreOK
<1>2. CASE m = Peer(n)
  BY <1>1, <1>2, RxDataCore DEF DirectionOK
<1>3. CASE m = n
  <2>1. Peer(n) # n
    BY PositionType
  <2>2. /\ UNCHANGED <<txVars, resetVars, pendingTx, submitted, confirmed>>
        /\ chan[m] # <<>> /\ Take(m)
    BY DEF RxData, Arrived
  <2>3. SameReceiver(Peer(n))
    BY <1>3, <2>1 DEF RxData, SameReceiver, IInv, TypeOK
  <2>4. SameSender(n) /\ txWindow'[n] = txWindow[n]
    BY <2>2 DEF SameSender, txVars
  <2>5. CoreOK(n)' /\ SameView(n)
    BY <1>1, <2>3, <2>4, SameWindowIsAlike, CoreKept
  <2>6. Shrinks(n) /\ Shrinks(Peer(n))
    BY <2>2, TakeShrinks, PositionType
  <2>7. FramesOK(n)'
    BY <1>1, <2>5, <2>6, FramesShrink
  <2>8. UNCHANGED <<resetPending, pendingTx>>
    BY <2>2 DEF resetVars
  <2>9. ResetPart(n)'
    BY <1>1, <2>3, <2>4, <2>6, <2>8, ResetsShrink
  <2> QED BY <2>5, <2>7, <2>9 DEF DirectionOK
<1> QED BY <1>2, <1>3, PositionType
-----------------------------------------------------------------------------
(* The steps that remain: one that needs damage, and one that breaks the   *)
(* link.                                                                   *)
LEMMA LinkStaysDown == ASSUME IInv, [Next]_vars, LinkUp' PROVE LinkUp
<1>1. \A n \in Node : failed[n] => failed'[n]
  <2>1. failed \in [Node -> BOOLEAN]
    BY DEF IInv, TypeOK
  <2>2. failed' = failed \/ \E m \in Node : failed' = [failed EXCEPT ![m] = TRUE]
    BY DEF Next, ProcessTx, ProcessRx, Submit, TxSend, TxConfirm, TxTimeout, TxRetransmit, TxGiveUp,
           TxAck, TxReset, TxPending, RxOutside, RxDamaged, RxData, RxAck, RxReset, RxResetAck, Lose,
           history, vars
  <2> QED BY <2>1, <2>2
<1> QED BY <1>1 DEF LinkUp

(* Every step of a benign link that leaves it up keeps the invariant of    *)
(* each direction.                                                         *)
LEMMA DeliveryStep ==
  ASSUME Benign, IInv, DeliveryInv, LinkUp', [Next]_vars, NEW n \in Node
  PROVE  DirectionOK(n)'
<1>1. \A x \in Node : DirectionOK(x)
  BY LinkStaysDown DEF DeliveryInv
<1>2. CASE UNCHANGED vars
  <2>1. UNCHANGED <<txQueue, txState, txLwe, txCount, nextSeq, txWindow, rxLwe, deliverLwe, rxWindow,
                    resetPending, pendingTx, chan, submitted, delivered, confirmed>>
    BY <1>2 DEF vars, txVars, rxVars, resetVars, history
  <2>2. SameSender(n) /\ SameReceiver(Peer(n)) /\ txWindow'[n] = txWindow[n]
    BY <2>1 DEF SameSender, SameReceiver
  <2>3. CoreOK(n) /\ FramesOK(n) /\ ResetPart(n) /\ SenderOK(n)
    BY <1>1 DEF DirectionOK, CoreOK
  <2>4. CoreOK(n)' /\ SameView(n)
    BY <2>2, <2>3, SameWindowIsAlike, CoreKept
  <2>5. Shrinks(n) /\ Shrinks(Peer(n))
    BY <2>1 DEF Shrinks
  <2> QED BY <2>1, <2>2, <2>3, <2>4, <2>5, FramesShrink, ResetsShrink DEF DirectionOK
<1>3. CASE Next
  <2>1. PICK m \in Node : Submit(m) \/ ProcessTx(m) \/ ProcessRx(m) \/ Lose(m)
    BY <1>3 DEF Next
  <2>2. DirectionOK(n) /\ DirectionOK(m) /\ DirectionOK(Peer(m))
    BY <1>1, PositionType
  <2>3. CASE Submit(m) \/ Lose(m)
    BY <2>2, <2>3, SubmitDelivery, LoseDelivery
  <2>4. ~TxGiveUp(m)
    <3>1. ~failed'[m]
      BY DEF LinkUp
    <3> QED BY <3>1 DEF TxGiveUp, IInv, TypeOK
  <2>5. CASE ProcessTx(m)
    BY <2>2, <2>4, <2>5, TxSendDelivery, TxConfirmDelivery, TxTimeoutDelivery, TxRetransmitDelivery,
       TxAckDelivery, TxResetDelivery, TxPendingDelivery DEF ProcessTx
  <2>6. ~RxDamaged(m)
    BY DEF RxDamaged, Benign
  <2>7. CASE ProcessRx(m)
    BY <2>2, <2>6, <2>7, RxOutsideDelivery, RxDataDelivery, RxAckDelivery, RxResetDelivery,
       RxResetAckDelivery DEF ProcessRx
  <2> QED BY <2>1, <2>3, <2>5, <2>7
<1> QED BY <1>2, <1>3

(* A new link satisfies it.                                                *)
LEMMA DeliveryInit == ASSUME Benign, Init, NEW n \in Node PROVE DirectionOK(n)
<1> DEFINE p == Peer(n)
<1>1. IInv /\ p \in Node /\ Peer(p) = n /\ p # n
  BY InitType, PositionType
<1>2. /\ nextSeq[n] = 0 /\ txLwe[n] = 0 /\ txCount[n] = 0 /\ rxLwe[p] = 0 /\ deliverLwe[p] = 0
      /\ txState[n] = "IDLE" /\ \A s \in Slots : rxWindow[p][s] = EmptyRxSlot
      /\ submitted[n] = <<>> /\ txQueue[n] = <<>> /\ confirmed[n] = {} /\ delivered[p] = <<>>
      /\ chan[n] = <<>> /\ chan[p] = <<>>
      /\ resetPending[n] = (n \in Callers) /\ resetPending[p] = (p \in Callers)
      /\ pendingTx[n] = IF n \in Callers THEN <<ResetFrame(1)>> ELSE <<>>
      /\ pendingTx[p] = IF p \in Callers THEN <<ResetFrame(1)>> ELSE <<>>
  BY <1>1 DEF Init
<1>3. Cut(n) = <<>> /\ Len(Cut(n)) = 0
  BY <1>2 DEF Cut
<1>4. Base(n) = 0 /\ Edge(n) = 0
  <2>1. 0 \in Seqs /\ SeqAdd(0, 0) = 0
    BY Sizes, AddZero
  <2>2. SeqDist(0, 0) = 0
    BY <2>1, Sizes, OffsetOf
  <2> QED BY <1>2, <2>2 DEF Base, Edge
<1>5. Total(n) = 0 /\ Waiting(n) = 0 /\ Done(n) = 0 /\ Handed(n) = 0
  <2>1. Total(n) = 0 /\ Waiting(n) = 0
    BY <1>2 DEF Total, Waiting
  <2> QED BY <1>3, <2>1 DEF Done, Handed
<1>6. QueueOK(n)
  BY <1>2, <1>5 DEF QueueOK
<1>7. SenderOK(n)
  BY <1>2, <1>3, <1>4 DEF SenderOK, SlotsFilled
<1>8. ReceiverOK(n)
  BY <1>2, <1>3, <1>4 DEF ReceiverOK, StoredOK
<1>9. DeliveredOK(n)
  BY <1>2, <1>5 DEF DeliveredOK
<1>10. HeldOK(n)
  BY <1>3 DEF HeldOK, Acked, AckedAt
<1>11. FramesOK(n)
  BY <1>2 DEF FramesOK, DataOK, AcksOK
<1>12. TxFresh(n) /\ RxFresh(p) /\ NeverUsed(n)
  BY <1>2 DEF TxFresh, RxFresh, NeverUsed
<1>13. OnlyResets(pendingTx[n])
  BY <1>2 DEF OnlyResets, ResetFrame
<1>14. MaxSubmit[n] # 0 => p \notin Callers
  BY <1>1 DEF Benign
<1>15. MaxSubmit[n] # 0 => ResetsOK(n)
  <2> SUFFICES ASSUME p \notin Callers PROVE ResetsOK(n)
    BY <1>14
  <2>1. pendingTx[p] = <<>> /\ ~resetPending[p]
    BY <1>2
  <2>2. \A t : No(t, <<>>)
    BY DEF No
  <2>3. ResetsFirst(<<>>, RxFresh(p))
    BY DEF ResetsFirst
  <2>4. No("RESET_ACK", pendingTx[n])
    BY <1>2 DEF No, ResetFrame
  <2>5. pendingTx[n] # <<>> => Len(pendingTx[n]) = 1 /\ resetPending[n]
    <3>1. pendingTx[n] # <<>> => n \in Callers
      BY <1>2
    <3>2. n \in Callers => pendingTx[n] = <<ResetFrame(1)>>
      BY <1>2
    <3>3. n \in Callers => resetPending[n]
      BY <1>2
    <3>4. Len(<<ResetFrame(1)>>) = 1
      OBVIOUS
    <3> QED BY <3>1, <3>2, <3>3, <3>4
  <2> QED BY <1>2, <1>12, <2>1, <2>2, <2>3, <2>4, <2>5 DEF ResetsOK
<1> QED BY <1>6, <1>7, <1>8, <1>9, <1>10, <1>11, <1>12, <1>13, <1>15 DEF DirectionOK, CoreOK, ResetPart

(* Every state of a benign link whose failure has not been reported        *)
(* satisfies the inductive invariant of both directions.                   *)
THEOREM DeliveryHolds == ASSUME Benign PROVE Spec => []DeliveryInv
<1>1. Init => DeliveryInv
  BY DeliveryInit DEF DeliveryInv
<1>2. IInv /\ DeliveryInv /\ [Next]_vars => DeliveryInv'
  BY DeliveryStep DEF DeliveryInv
<1> QED BY <1>1, <1>2, InvariantHolds, PTL DEF Spec
-----------------------------------------------------------------------------
(* What the invariant says of a direction.                                 *)
LEMMA HandedInOrder ==
  ASSUME IInv, NEW n \in Node, DirectionOK(n)
  PROVE  /\ Len(delivered[Peer(n)]) = Handed(n) /\ Handed(n) \in Nat
         /\ Handed(n) <= Len(submitted[n])
         /\ \A i \in 1 .. Handed(n) : delivered[Peer(n)][i] = Payload(n, i)
         /\ Done(n) \in Nat /\ Done(n) <= Handed(n) /\ confirmed[n] = 1 .. Done(n)
<1>1. DeliveredOK(n) /\ QueueOK(n)
  BY DEF DirectionOK, CoreOK
<1>2. /\ Done(n) \in Nat /\ Handed(n) \in Nat /\ Done(n) <= Handed(n)
      /\ Handed(n) <= Total(n)
  BY <1>1, HandedBound
<1>3. confirmed[n] = 1 .. Done(n)
  BY <1>1 DEF QueueOK
<1>4. Handed(n) <= Len(submitted[n])
  BY <1>2 DEF Total
<1> QED BY <1>1, <1>2, <1>3, <1>4 DEF DeliveredOK

(* The edges of a direction, as the properties compare them.               *)
LEMMA EdgesInStep ==
  ASSUME IInv, NEW n \in Node, DirectionOK(n)
  PROVE  /\ SeqDist(txLwe[n], rxLwe[Peer(n)]) = Edge(n) - Base(n)
         /\ Edge(n) - Base(n) <= txCount[n]
         /\ Len(Cut(n)) \in 0 .. Window /\ txCount[n] = Len(Cut(n)) - Base(n)
<1> DEFINE L == Len(Cut(n))
<1>1. L \in 0 .. Window
  BY CutType DEF CutShape
<1>2. Base(n) <= Edge(n) /\ Edge(n) <= L /\ txCount[n] = L - Base(n)
  BY DEF DirectionOK, CoreOK, SenderOK, ReceiverOK
<1>3. /\ Base(n) \in Int /\ 0 <= Base(n) /\ Edge(n) \in Int /\ Edge(n) < SeqMod /\ nextSeq[n] \in Int
      /\ txLwe[n] = SeqAdd(nextSeq[n], Base(n)) /\ rxLwe[Peer(n)] = SeqAdd(nextSeq[n], Edge(n))
  BY PositionType
<1> HIDE DEF L
<1>4. Edge(n) - Base(n) < SeqMod
  BY <1>2, <1>3, Sizes
<1>5. SeqDist(txLwe[n], rxLwe[Peer(n)]) = Edge(n) - Base(n)
  BY <1>2, <1>3, <1>4, DistAhead
<1>6. Edge(n) - Base(n) <= txCount[n]
  BY <1>1, <1>2, <1>3, Sizes
<1> QED BY <1>1, <1>2, <1>5, <1>6 DEF L

(* A frame that counts as acknowledged is before the receiver's edge, or   *)
(* stored.                                                                 *)
LEMMA AckedFrameHeld ==
  ASSUME IInv, NEW n \in Node, DirectionOK(n), NEW k \in WithStatus(n, "ACKED")
  PROVE  \/ k < SeqDist(txLwe[n], rxLwe[Peer(n)])
         \/ Received(rxWindow[Peer(n)], SeqAdd(txLwe[n], k))
<1> DEFINE L == Len(Cut(n))
           at == Base(n) + k
<1>1. L \in 0 .. Window /\ txCount[n] = L - Base(n)
      /\ SeqDist(txLwe[n], rxLwe[Peer(n)]) = Edge(n) - Base(n)
  BY EdgesInStep
<1>2. /\ Base(n) \in Int /\ 0 <= Base(n) /\ Edge(n) \in Int /\ nextSeq[n] \in Int
      /\ txLwe[n] = SeqAdd(nextSeq[n], Base(n))
  BY PositionType
<1>3. k \in 0 .. (txCount[n] - 1) /\ txWindow[n][Slot(SeqAdd(txLwe[n], k))].status = "ACKED"
  BY DEF WithStatus, TxStatus
<1>4. SeqAdd(txLwe[n], k) = SeqAdd(nextSeq[n], at)
  <2>1. nextSeq[n] \in Int /\ Base(n) \in Int /\ k \in Int
    BY <1>2, <1>3
  <2>2. SeqAdd(SeqAdd(nextSeq[n], Base(n)), k) = SeqAdd(nextSeq[n], Base(n) + k)
    BY <2>1, AddAdd
  <2> QED BY <1>2, <2>2
<1>5. at \in 0 .. (L - 1) /\ at >= Base(n) /\ k \in Int /\ at = Base(n) + k
  <2> HIDE DEF L
  <2> QED BY <1>1, <1>2, <1>3, Sizes
<1>6. at \in Acked(n)
  BY <1>3, <1>4, <1>5 DEF Acked, AckedAt
<1>7. at \in Got(n)
  BY <1>5, <1>6 DEF DirectionOK, CoreOK, HeldOK
<1>8. at < Edge(n) \/ Received(rxWindow[Peer(n)], SeqAdd(nextSeq[n], at))
  BY <1>7 DEF Got, GotAt
<1>9. at < Edge(n) => k < Edge(n) - Base(n)
  <2> HIDE DEF at
  <2> QED BY <1>2, <1>5
<1> QED BY <1>1, <1>4, <1>8, <1>9
-----------------------------------------------------------------------------
(* A benign link whose failure has not been reported hands over the        *)
(* C_PDUs of a node whole, in order, each once and with nothing left out,  *)
(* for every size of the windows and every number of retries.              *)
THEOREM DeliveryInOrder == ASSUME Benign PROVE Spec => []InOrderExactlyOnce
<1>1. IInv /\ DeliveryInv => InOrderExactlyOnce
  BY HandedInOrder DEF DeliveryInv, InOrderExactlyOnce
<1> QED BY <1>1, InvariantHolds, DeliveryHolds, PTL

(* On such a link the sender has never passed the receiver, and the        *)
(* receiver expects nothing the sender has not numbered yet.               *)
THEOREM EdgesStayInStep == ASSUME Benign PROVE Spec => []WindowsInStep
<1>1. IInv /\ DeliveryInv => WindowsInStep
  BY EdgesInStep DEF DeliveryInv, WindowsInStep
<1> QED BY <1>1, InvariantHolds, DeliveryHolds, PTL

(* On such a link the receiver has, stored or delivered, every fragment    *)
(* that the sender holds for acknowledged.                                 *)
THEOREM AcknowledgedIsHeld == ASSUME Benign PROVE Spec => []AckedIsHeld
<1>1. IInv /\ DeliveryInv => AckedIsHeld
  BY AckedFrameHeld DEF DeliveryInv, AckedIsHeld
<1> QED BY <1>1, InvariantHolds, DeliveryHolds, PTL

(* On such a link a C_PDU that a node drops as acknowledged has reached    *)
(* the upper layer of its peer.  (With damaged payloads it need not have:  *)
(* the run arq_damage_loses.)                                              *)
THEOREM ConfirmedIsDelivered == ASSUME Benign PROVE Spec => []AckMeansDelivered
<1>1. ASSUME IInv, NEW n \in Node, DirectionOK(n), NEW id \in confirmed[n]
      PROVE  \E i \in 1 .. Len(delivered[Peer(n)]) : delivered[Peer(n)][i] = Payload(n, id)
  <2>1. id \in 1 .. Done(n) /\ Done(n) \in Nat /\ Handed(n) \in Nat /\ Done(n) <= Handed(n)
    BY <1>1, HandedInOrder
  <2>2. id \in 1 .. Handed(n)
    BY <2>1
  <2> QED BY <1>1, <2>2, HandedInOrder
<1>2. IInv /\ DeliveryInv => AckMeansDelivered
  BY <1>1 DEF DeliveryInv, AckMeansDelivered
<1> QED BY <1>2, InvariantHolds, DeliveryHolds, PTL
-----------------------------------------------------------------------------
(* A step of a benign link that leaves it up, seen from one direction: the *)
(* slots of the receiver, and the service.                                 *)
LEMMA SlotsKeptByStep ==
  ASSUME Benign, IInv, DeliveryInv, LinkUp', [Next]_vars, NEW n \in Node, NEW s \in Slots,
         rxWindow[n][s].status = "RECEIVED"
  PROVE  rxWindow'[n][s] = rxWindow[n][s] \/ delivered'[n] # delivered[n]
<1> DEFINE p == Peer(n)
<1>1. \A x \in Node : DirectionOK(x)
  BY LinkStaysDown DEF DeliveryInv
<1>2. p \in Node /\ Peer(p) = n /\ n # p /\ \A m \in Node : m = n \/ m = p
  BY PositionType
<1>3. rxWindow[n][s] # EmptyRxSlot
  BY DEF EmptyRxSlot
<1>4. ~RxFresh(n)
  BY <1>3 DEF RxFresh
<1>5. rxWindow \in [Node -> [Slots -> RxSlot \cup {EmptyRxSlot}]]
  BY DEF IInv, TypeOK
<1>6. ASSUME NEW m \in Node, m # n, RxData(m) \/ RxReset(m) \/ RxResetAck(m)
      PROVE  rxWindow'[n] = rxWindow[n]
  BY <1>5, <1>6 DEF RxData, RxReset, RxResetAck, ResetFull, ResetWindows, rxVars
<1>7. ASSUME NEW m \in Node, RxData(m)
      PROVE  rxWindow'[n][s] = rxWindow[n][s] \/ delivered'[n] # delivered[n]
  <2>1. CASE m = n
    <3>1. CoreOK(p) /\ FramesOK(p) /\ RxData(Peer(p))
      BY <1>1, <1>2, <1>7, <2>1 DEF DirectionOK
    <3>2. PICK top \in 0 .. Len(Cut(p)) :
            /\ delivered'[n] = IF top = Len(Cut(p)) THEN Append(delivered[n], Cut(p)) ELSE delivered[n]
            /\ top # Len(Cut(p)) => \A x \in Slots :
                 rxWindow[n][x] # EmptyRxSlot => rxWindow'[n][x] = rxWindow[n][x]
      BY <1>2, <3>1, RxDataEffect
    <3>3. delivered[n] \in Seq(Seq(Fragment)) /\ Cut(p) \in Seq(Fragment)
      BY <1>2, CutType DEF IInv, TypeOK, CutShape
    <3>4. Append(delivered[n], Cut(p)) # delivered[n]
      <4>1. Len(Append(delivered[n], Cut(p))) = Len(delivered[n]) + 1 /\ Len(delivered[n]) \in Nat
        BY <3>3, AppendProperties
      <4> QED BY <4>1
    <3> QED BY <1>3, <3>2, <3>4
  <2> QED BY <1>6, <1>7, <2>1
<1>8. ASSUME NEW m \in Node, RxReset(m) PROVE rxWindow'[n] = rxWindow[n]
  <2>1. m # n
    BY <1>1, <1>2, <1>4, <1>8, ResetFindsFresh
  <2> QED BY <1>6, <1>8, <2>1
<1>9. ASSUME NEW m \in Node, RxResetAck(m) PROVE rxWindow'[n] = rxWindow[n]
  <2>1. CASE m = n /\ resetPending[m]
    BY <1>1, <1>2, <1>4, <1>9, <2>1, AnswerFindsFresh DEF RxResetAck
  <2>2. CASE m = n /\ ~resetPending[m]
    BY <1>9, <2>2 DEF RxResetAck, rxVars
  <2>3. CASE m # n
    BY <1>6, <1>9, <2>3
  <2> QED BY <2>1, <2>2, <2>3
<1>10. ASSUME NEW m \in Node, TxGiveUp(m) PROVE FALSE
  <2>1. ~failed'[m]
    BY DEF LinkUp
  <2> QED BY <1>10, <2>1 DEF TxGiveUp, IInv, TypeOK
<1>11. \A m \in Node : ~RxDamaged(m)
  BY DEF RxDamaged, Benign
<1>12. CASE UNCHANGED vars
  BY <1>12 DEF vars, rxVars
<1>13. CASE Next
  <2>1. PICK m \in Node : Submit(m) \/ ProcessTx(m) \/ ProcessRx(m) \/ Lose(m)
    BY <1>13 DEF Next
  <2>2. CASE Submit(m) \/ Lose(m)
    BY <2>2 DEF Submit, Lose, rxVars
  <2>3. CASE ProcessTx(m)
    BY <1>10, <2>3 DEF ProcessTx, TxSend, TxConfirm, TxTimeout, TxRetransmit, TxAck, TxReset,
       TxPending, rxVars
  <2>4. CASE ProcessRx(m)
    <3>1. CASE RxOutside(m) \/ RxAck(m)
      BY <3>1 DEF RxOutside, RxAck, rxVars
    <3> QED BY <1>7, <1>8, <1>9, <1>11, <2>4, <3>1 DEF ProcessRx
  <2> QED BY <2>1, <2>2, <2>3, <2>4
<1> QED BY <1>12, <1>13

(* The action StoredIsKept is about.                                       *)
StoredStep ==
  \A n \in Node : \A s \in Slots :
    rxWindow[n][s].status = "RECEIVED" /\ LinkUp' =>
      rxWindow'[n][s] = rxWindow[n][s] \/ delivered'[n] # delivered[n]

(* On a benign link whose failure has not been reported, a fragment once   *)
(* stored leaves its slot only for delivery: no reset, no late copy and no *)
(* window that starts over takes it away.                                  *)
THEOREM StoredFragmentsStay == ASSUME Benign PROVE Spec => StoredIsKept
<1>1. IInv /\ DeliveryInv /\ [Next]_vars => [StoredStep]_vars
  BY SlotsKeptByStep DEF StoredStep
<1>2. Spec => [][StoredStep]_vars
  BY <1>1, InvariantHolds, DeliveryHolds, PTL DEF Spec
<1> QED BY <1>2, PTL DEF StoredIsKept, StoredStep
-----------------------------------------------------------------------------
(* The direction from n to its peer as ReliableDelivery sees it, and the   *)
(* steps of that service.                                                  *)
AcceptStep(n) ==
  /\ Len(Sent(n)') = Len(Sent(n)) + 1 /\ SubSeq(Sent(n)', 1, Len(Sent(n))) = Sent(n)
  /\ delivered'[Peer(n)] = delivered[Peer(n)] /\ confirmed'[n] = confirmed[n] /\ failed' = failed

DeliverStep(n) ==
  /\ LinkUp
  /\ Len(delivered[Peer(n)]) < Len(Sent(n))
  /\ delivered'[Peer(n)] = Append(delivered[Peer(n)], Sent(n)[Len(delivered[Peer(n)]) + 1])
  /\ Sent(n)' = Sent(n) /\ confirmed'[n] = confirmed[n] /\ failed' = failed

ConfirmStep(n) ==
  /\ LinkUp
  /\ \E i \in 1 .. Len(delivered[Peer(n)]) : confirmed'[n] = confirmed[n] \cup {i}
  /\ Sent(n)' = Sent(n) /\ delivered'[Peer(n)] = delivered[Peer(n)] /\ failed' = failed

FailStep(n) ==
  /\ ~LinkUp'
  /\ Sent(n)' = Sent(n) /\ delivered'[Peer(n)] = delivered[Peer(n)] /\ confirmed'[n] = confirmed[n]

BrokenStep == ~LinkUp /\ ~LinkUp'

IdleStep(n) ==
  /\ Sent(n)' = Sent(n) /\ delivered'[Peer(n)] = delivered[Peer(n)]
  /\ confirmed'[n] = confirmed[n] /\ failed' = failed

ServiceStep(n) == \/ AcceptStep(n) \/ DeliverStep(n) \/ ConfirmStep(n) \/ FailStep(n)
                  \/ BrokenStep \/ IdleStep(n)

(* What was sent, as ReliableDelivery sees it.                             *)
LEMMA SentFacts ==
  ASSUME IInv, NEW n \in Node
  PROVE  /\ Len(Sent(n)) = Len(submitted[n]) /\ Len(submitted[n]) \in Nat
         /\ \A id \in 1 .. Len(submitted[n]) : Sent(n)[id] = Payload(n, id)
<1>1. submitted[n] \in Seq(1 .. MaxFragments)
  BY DEF IInv, TypeOK
<1>2. Len(submitted[n]) \in Nat
  BY <1>1
<1> QED BY <1>2 DEF Sent

(* It changes with the C_PDUs submitted only.                              *)
LEMMA SentUnchanged ==
  ASSUME NEW n \in Node, submitted'[n] = submitted[n]
  PROVE  Sent(n)' = Sent(n)
  BY DEF Sent, Payload

(* The C_PDU in the window is the one after those that left the queue.     *)
LEMMA WindowIsNext ==
  ASSUME IInv, NEW n \in Node, QueueOK(n), Cut(n) # <<>>
  PROVE  Cut(n) = Payload(n, Done(n) + 1) /\ Done(n) < Len(submitted[n])
<1>1. txState[n] = "WAIT_ACK" /\ txQueue[n] # <<>> /\ Cut(n) = Fragments(Head(txQueue[n]))
  BY CutType DEF Cut
<1>2. Waiting(n) \in Nat /\ Waiting(n) > 0 /\ Done(n) = Total(n) - Waiting(n) /\ Total(n) \in Nat
  BY <1>1, HandedBound
<1>3. 1 \in 1 .. Waiting(n)
  BY <1>2
<1>4. txQueue[n][1] = [id |-> Done(n) + 1, size |-> submitted[n][Done(n) + 1]]
  BY <1>3 DEF QueueOK
<1>5. txQueue[n] \in Seq(CPdu)
  BY DEF IInv, TypeOK
<1>6. Head(txQueue[n]) = txQueue[n][1]
  BY <1>1, <1>5, HeadTailProperties
<1>7. Done(n) < Total(n)
  BY <1>2
<1> QED BY <1>1, <1>4, <1>6, <1>7 DEF Payload, Total

(* Submit is Accept of its own direction.                                  *)
LEMMA SubmitAccepts ==
  ASSUME IInv, NEW m \in Node, Submit(m), NEW n \in Node
  PROVE  AcceptStep(n) \/ IdleStep(n)
<1>1. UNCHANGED <<delivered, confirmed, failed>>
  BY DEF Submit
<1>2. submitted \in [Node -> Seq(1 .. MaxFragments)]
  BY DEF IInv, TypeOK
<1>3. PICK size \in 1 .. MaxFragments : submitted' = [submitted EXCEPT ![m] = Append(@, size)]
  BY DEF Submit
<1>4. CASE n # m
  <2>1. submitted'[n] = submitted[n]
    BY <1>2, <1>3, <1>4
  <2> QED BY <1>1, <2>1, SentUnchanged DEF IdleStep
<1>5. CASE n = m
  <2> DEFINE T == Len(submitted[n])
  <2>1. submitted'[n] = Append(submitted[n], size) /\ submitted[n] \in Seq(1 .. MaxFragments)
    BY <1>2, <1>3, <1>5
  <2>2. T \in Nat /\ Len(submitted'[n]) = T + 1 /\ \A i \in 1 .. T : submitted'[n][i] = submitted[n][i]
    BY <2>1, AppendProperties
  <2>3. \A id \in 1 .. T : Payload(n, id)' = Payload(n, id)
    BY <2>2 DEF Payload
  <2>4. Sent(n) = [id \in 1 .. T |-> Payload(n, id)]
    BY DEF Sent
  <2>5. Sent(n)' = [id \in 1 .. (T + 1) |-> Payload(n, id)']
    BY <2>2 DEF Sent
  <2> HIDE DEF T
  <2>6. Len(Sent(n)) = T /\ Len(Sent(n)') = T + 1
    BY <2>2, <2>4, <2>5
  <2>7. SubSeq(Sent(n)', 1, T) = [id \in 1 .. T |-> Sent(n)'[id]]
    BY <2>2
  <2>8. \A id \in 1 .. T : Sent(n)'[id] = Payload(n, id)
    BY <2>2, <2>3, <2>5
  <2>9. SubSeq(Sent(n)', 1, T) = Sent(n)
    BY <2>4, <2>7, <2>8
  <2> QED BY <1>1, <2>6, <2>9 DEF AcceptStep
<1> QED BY <1>4, <1>5

(* RxData is Deliver when it completes a C_PDU, and nothing otherwise.     *)
LEMMA RxDataDelivers ==
  ASSUME IInv, LinkUp, NEW m \in Node, RxData(m), NEW n \in Node, DirectionOK(n)
  PROVE  DeliverStep(n) \/ IdleStep(n)
<1>1. UNCHANGED <<submitted, confirmed, failed>> /\ Sent(n)' = Sent(n)
  BY SentUnchanged DEF RxData
<1>2. Peer(n) \in Node /\ (m = n \/ m = Peer(n)) /\ n # Peer(n)
  BY PositionType
<1>3. delivered \in [Node -> Seq(Seq(Fragment))]
  BY DEF IInv, TypeOK
<1>4. CASE m = n
  <2>1. delivered'[Peer(n)] = delivered[Peer(n)]
    BY <1>2, <1>3, <1>4 DEF RxData
  <2> QED BY <1>1, <2>1 DEF IdleStep
<1>5. CASE m = Peer(n)
  <2>1. CoreOK(n) /\ FramesOK(n) /\ QueueOK(n) /\ DeliveredOK(n)
    BY DEF DirectionOK, CoreOK
  <2>2. PICK top \in 0 .. Len(Cut(n)) :
          /\ Edge(n) < Len(Cut(n))
          /\ delivered'[Peer(n)] = IF top = Len(Cut(n)) THEN Append(delivered[Peer(n)], Cut(n))
                                   ELSE delivered[Peer(n)]
    BY <1>5, <2>1, RxDataEffect
  <2>3. CASE top # Len(Cut(n))
    BY <1>1, <2>2, <2>3 DEF IdleStep
  <2>4. CASE top = Len(Cut(n))
    <3>1. Edge(n) \in Int /\ 0 <= Edge(n) /\ Len(Cut(n)) \in Int
      BY PositionType, CutType DEF CutShape
    <3>2. Cut(n) # <<>> /\ Edge(n) # Len(Cut(n))
      BY <2>2, <3>1, EmptyShape
    <3>3. Cut(n) = Payload(n, Done(n) + 1) /\ Done(n) < Len(submitted[n]) /\ Done(n) \in Nat
      BY <2>1, <3>2, WindowIsNext, HandedBound
    <3>4. Len(delivered[Peer(n)]) = Done(n)
      BY <2>1, <3>2, <3>3 DEF DeliveredOK, Handed
    <3>5. /\ Len(Sent(n)) = Len(submitted[n]) /\ Len(submitted[n]) \in Nat
          /\ \A id \in 1 .. Len(submitted[n]) : Sent(n)[id] = Payload(n, id)
      BY SentFacts
    <3>6. Done(n) + 1 \in 1 .. Len(submitted[n])
      BY <3>3, <3>5
    <3>7. Sent(n)[Done(n) + 1] = Cut(n)
      BY <3>3, <3>5, <3>6
    <3>8. delivered'[Peer(n)] = Append(delivered[Peer(n)], Sent(n)[Len(delivered[Peer(n)]) + 1])
      BY <2>2, <2>4, <3>4, <3>7
    <3>9. Len(delivered[Peer(n)]) < Len(Sent(n))
      BY <3>3, <3>4, <3>5
    <3> QED BY <1>1, <3>8, <3>9 DEF DeliverStep
  <2> QED BY <2>3, <2>4
<1> QED BY <1>2, <1>4, <1>5

(* TxConfirm is Confirm: the C_PDU has been handed over.                   *)
LEMMA TxConfirmConfirms ==
  ASSUME IInv, LinkUp, NEW m \in Node, TxConfirm(m), NEW n \in Node, DirectionOK(n), DirectionOK(m)
  PROVE  ConfirmStep(n) \/ IdleStep(n)
<1>1. UNCHANGED <<submitted, delivered, failed>> /\ Sent(n)' = Sent(n)
  BY SentUnchanged DEF TxConfirm
<1>2. confirmed \in [Node -> SUBSET Nat] /\ confirmed' = [confirmed EXCEPT ![m] = @ \cup {Head(txQueue[m]).id}]
  BY DEF TxConfirm, IInv, TypeOK
<1>3. CASE m # n
  <2>1. confirmed'[n] = confirmed[n]
    BY <1>2, <1>3
  <2> QED BY <1>1, <2>1 DEF IdleStep
<1>4. CASE m = n
  <2>1. CoreOK(n) /\ FramesOK(n) /\ QueueOK(n) /\ DeliveredOK(n) /\ txState[n] = "WAIT_ACK"
        /\ WithStatus(n, "ACKED") = 0 .. (txCount[n] - 1)
    BY <1>4 DEF DirectionOK, CoreOK, TxConfirm
  <2>2. Cut(n) # <<>> /\ Edge(n) = Len(Cut(n))
    BY <2>1, AckedRests
  <2>3. Done(n) \in Nat /\ Handed(n) = Done(n) + 1
    BY <2>1, <2>2, HandedBound DEF Handed
  <2>4. Len(delivered[Peer(n)]) = Done(n) + 1
    BY <2>1, <2>3 DEF DeliveredOK
  <2>5. Head(txQueue[n]).id = Done(n) + 1
    <3>1. txQueue[n] # <<>>
      BY <2>1, CutType
    <3>2. txQueue' = [txQueue EXCEPT ![n] = Tail(@)] /\ submitted' = submitted
          /\ confirmed' = [confirmed EXCEPT ![n] = @ \cup {Head(txQueue[n]).id}]
      BY <1>4 DEF TxConfirm
    <3> QED BY <2>1, <3>1, <3>2, QueueMoves
  <2>6. confirmed'[n] = confirmed[n] \cup {Done(n) + 1} /\ Done(n) + 1 \in 1 .. Len(delivered[Peer(n)])
    BY <1>2, <1>4, <2>3, <2>4, <2>5
  <2> QED BY <1>1, <2>6 DEF ConfirmStep
<1> QED BY <1>3, <1>4

(* Every step of a benign link is a step of the service, or none.          *)
LEMMA StepServes ==
  ASSUME Benign, IInv, DeliveryInv, [Next]_vars, NEW n \in Node
  PROVE  ServiceStep(n)
<1>1. CASE ~LinkUp
  <2>1. ~LinkUp'
    BY <1>1, LinkStaysDown
  <2> QED BY <1>1, <2>1 DEF ServiceStep, BrokenStep
<1>2. CASE LinkUp
  <2>1. \A x \in Node : DirectionOK(x)
    BY <1>2 DEF DeliveryInv
  <2>2. CASE UNCHANGED vars
    <3>1. UNCHANGED <<submitted, delivered, confirmed, failed>>
      BY <2>2 DEF vars, history
    <3> QED BY <3>1, SentUnchanged DEF ServiceStep, IdleStep
  <2>3. CASE Next
    <3>1. PICK m \in Node : Submit(m) \/ ProcessTx(m) \/ ProcessRx(m) \/ Lose(m)
      BY <2>3 DEF Next
    <3>2. CASE Submit(m)
      BY <3>2, SubmitAccepts DEF ServiceStep
    <3>3. CASE RxData(m)
      BY <1>2, <2>1, <3>3, RxDataDelivers DEF ServiceStep
    <3>4. CASE TxConfirm(m)
      BY <1>2, <2>1, <3>4, TxConfirmConfirms DEF ServiceStep
    <3>5. CASE TxGiveUp(m)
      <4>1. UNCHANGED <<submitted, delivered, confirmed>> /\ Sent(n)' = Sent(n)
        BY <3>5, SentUnchanged DEF TxGiveUp
      <4>2. failed'[m]
        BY <3>5 DEF TxGiveUp, IInv, TypeOK
      <4> QED BY <4>1, <4>2 DEF ServiceStep, FailStep, LinkUp
    <3>6. CASE UNCHANGED history
      <4>1. UNCHANGED <<submitted, delivered, confirmed, failed>>
        BY <3>6 DEF history
      <4> QED BY <4>1, SentUnchanged DEF ServiceStep, IdleStep
    <3>7. ASSUME ~TxConfirm(m), ~TxGiveUp(m), ProcessTx(m) PROVE UNCHANGED history
      BY <3>7 DEF ProcessTx, TxSend, TxTimeout, TxRetransmit, TxAck, TxReset, TxPending
    <3>8. ASSUME ~RxData(m), ProcessRx(m) PROVE UNCHANGED history
      BY <3>8 DEF ProcessRx, RxOutside, RxDamaged, RxAck, RxReset, RxResetAck
    <3>9. ASSUME Lose(m) PROVE UNCHANGED history
      BY <3>9 DEF Lose
    <3> QED BY <3>1, <3>2, <3>3, <3>4, <3>5, <3>6, <3>7, <3>8, <3>9
  <2> QED BY <2>2, <2>3
<1> QED BY <1>1, <1>2

(* The steps of the service in the terms of the instance for A.            *)
LEMMA ServiceStepsOfA == ASSUME ServiceStep(A), Peer(A) = B PROVE [FromA!Next]_(FromA!service)
<1>1. IdleStep(A) => UNCHANGED FromA!service
  BY DEF IdleStep, FromA!service, LinkUp
<1>2. AcceptStep(A) => FromA!Accept
  BY DEF AcceptStep, FromA!Accept, LinkUp
<1>3. DeliverStep(A) => FromA!Deliver
  BY DEF DeliverStep, FromA!Deliver, LinkUp
<1>4. ConfirmStep(A) => FromA!Confirm
  BY DEF ConfirmStep, FromA!Confirm, LinkUp
<1>5. FailStep(A) => FromA!Fail
  BY DEF FailStep, FromA!Fail
<1>6. BrokenStep => FromA!Broken
  BY DEF BrokenStep, FromA!Broken
<1> QED BY <1>1, <1>2, <1>3, <1>4, <1>5, <1>6 DEF ServiceStep, FromA!Next

(* The same for B.                                                         *)
LEMMA ServiceStepsOfB == ASSUME ServiceStep(B), Peer(B) = A PROVE [FromB!Next]_(FromB!service)
<1>1. IdleStep(B) => UNCHANGED FromB!service
  BY DEF IdleStep, FromB!service, LinkUp
<1>2. AcceptStep(B) => FromB!Accept
  BY DEF AcceptStep, FromB!Accept, LinkUp
<1>3. DeliverStep(B) => FromB!Deliver
  BY DEF DeliverStep, FromB!Deliver, LinkUp
<1>4. ConfirmStep(B) => FromB!Confirm
  BY DEF ConfirmStep, FromB!Confirm, LinkUp
<1>5. FailStep(B) => FromB!Fail
  BY DEF FailStep, FromB!Fail
<1>6. BrokenStep => FromB!Broken
  BY DEF BrokenStep, FromB!Broken
<1> QED BY <1>1, <1>2, <1>3, <1>4, <1>5, <1>6 DEF ServiceStep, FromB!Next

(* A new link is a new service in both directions.                         *)
LEMMA ServiceStarts == ASSUME Init PROVE FromA!Init /\ FromB!Init
<1>1. A \in Node /\ B \in Node /\ A # B
  BY LinkAssumption DEF Node
<1>2. \A n \in Node : submitted[n] = <<>> /\ delivered[n] = <<>> /\ confirmed[n] = {} /\ failed[n] = FALSE
  BY DEF Init
<1>3. \A n \in Node : Sent(n) = <<>>
  BY <1>2 DEF Sent
<1>4. (~LinkUp) = FALSE
  BY <1>2 DEF LinkUp
<1> QED BY <1>1, <1>2, <1>3, <1>4 DEF FromA!Init, FromB!Init

(* Each direction of a benign link implements the reliable delivery        *)
(* service: what the peer is handed is what was submitted, C_PDU by C_PDU, *)
(* and a confirmation comes after the hand-over, until the link is         *)
(* reported as failed.                                                     *)
THEOREM DeliveryRefines == ASSUME Benign PROVE Spec => DeliversReliably
<1>1. A \in Node /\ B \in Node /\ Peer(A) = B /\ Peer(B) = A
  BY LinkAssumption DEF Node, Peer
<1>2. IInv /\ DeliveryInv /\ [Next]_vars => [FromA!Next]_(FromA!service) /\ [FromB!Next]_(FromB!service)
  <2> SUFFICES ASSUME IInv, DeliveryInv, [Next]_vars
               PROVE  [FromA!Next]_(FromA!service) /\ [FromB!Next]_(FromB!service)
    OBVIOUS
  <2>1. ServiceStep(A) /\ ServiceStep(B)
    BY <1>1, StepServes
  <2> QED BY <1>1, <2>1, ServiceStepsOfA, ServiceStepsOfB
<1>3. Init => FromA!Init /\ FromB!Init
  BY ServiceStarts
<1>4. Spec => [](IInv /\ DeliveryInv)
  BY InvariantHolds, DeliveryHolds, PTL
<1>5. Spec => FromA!Init /\ [][FromA!Next]_(FromA!service) /\ FromB!Init /\ [][FromB!Next]_(FromB!service)
  BY <1>2, <1>3, <1>4, PTL DEF Spec
<1> QED BY <1>5 DEF DeliversReliably, FromA!Safety, FromB!Safety
=============================================================================
