--------------------------- MODULE ArqLink_proofs ---------------------------
(***************************************************************************)
(* Type correctness of ArqLink for all values of its constants, and the    *)
(* arithmetic that the proofs about the ARQ engine rest on.                *)
(***************************************************************************)
EXTENDS ArqLink, FiniteSetTheorems, TLAPS

-----------------------------------------------------------------------------
(***************************************************************************)
(* The arithmetic of sequence numbers and window slots: numbers are told   *)
(* apart by their offsets from a common one, and so are slots, within one  *)
(* window.                                                                 *)
(***************************************************************************)
(* A number is the modulus times the quotient and the remainder, a number  *)
(* below the modulus.                                                      *)
LEMMA ModParts ==
  ASSUME NEW m \in Int, m > 0, NEW a \in Int
  PROVE  \E q \in Int, r \in 0 .. (m - 1) : a = q * m + r /\ a % m = r
  OBVIOUS

(* Only one remainder and one quotient make up a number.                   *)
LEMMA ModUnique ==
  ASSUME NEW m \in Int, m > 0, NEW a \in Int, NEW q \in Int, NEW r \in 0 .. (m - 1), a = q * m + r
  PROVE  a % m = r
  OBVIOUS

(* Adding first and reducing afterwards is reducing twice.                 *)
LEMMA ModAdd ==
  ASSUME NEW m \in Int, m > 0, NEW a \in Int, NEW b \in Int
  PROVE  ((a % m) + b) % m = (a + b) % m
<1>1. PICK q \in Int, r \in 0 .. (m - 1) : a = q * m + r /\ a % m = r
  BY ModParts
<1>3. PICK c \in Int : c = r + b
  OBVIOUS
<1>4. PICK s \in Int, t \in 0 .. (m - 1) : c = s * m + t /\ c % m = t
  BY ModParts
<1>5. PICK u \in Int : u = q + s
  OBVIOUS
<1>6. u * m = q * m + s * m
  BY <1>5
<1>7. PICK d \in Int : d = a + b
  OBVIOUS
<1>8. d = u * m + t
  BY <1>1, <1>3, <1>4, <1>6, <1>7
<1>9. d % m = t
  BY <1>8, ModUnique
<1> QED BY <1>1, <1>3, <1>4, <1>7, <1>9

(* What the assumption on the constants says in integers.                  *)
LEMMA ModulusOK == SeqMod \in Int /\ SeqMod > 0 /\ Window \in Int /\ Window > 0 /\ 2 * Window <= SeqMod
<1>1. SeqMod \in Nat /\ Window \in Nat \ {0} /\ 2 * Window <= SeqMod
  BY SeqAssumption
<1> QED BY <1>1

(* Advancing twice is advancing by the sum.                                *)
LEMMA AddAdd ==
  ASSUME NEW q \in Int, NEW i \in Int, NEW j \in Int
  PROVE  SeqAdd(SeqAdd(q, i), j) = SeqAdd(q, i + j)
<1>1. PICK a \in Int : a = q + i
  OBVIOUS
<1>2. ((a % SeqMod) + j) % SeqMod = (a + j) % SeqMod
  BY ModulusOK, ModAdd
<1> QED BY <1>1, <1>2 DEF SeqAdd

(* A number below the modulus is its own remainder.                        *)
LEMMA ModSmall ==
  ASSUME NEW m \in Int, m > 0, NEW a \in 0 .. (m - 1)
  PROVE  a % m = a
  OBVIOUS

(* A number that is less than one modulus negative has the modulus added.  *)
LEMMA ModUnder ==
  ASSUME NEW m \in Int, m > 0, NEW a \in (-m) .. (-1)
  PROVE  a % m = a + m
  OBVIOUS

(* Reducing by a multiple of the divisor does not change the remainder.    *)
LEMMA ModDivisor ==
  ASSUME NEW m \in Int, m > 0, NEW w \in Int, w > 0, m % w = 0, NEW a \in Int
  PROVE  (a % m) % w = a % w
<1>1. PICK q \in Int, r \in 0 .. (m - 1) : a = q * m + r /\ a % m = r
  BY ModParts
<1>2. PICK c \in Int : m = c * w
  OBVIOUS
<1>3. PICK s \in Int, t \in 0 .. (w - 1) : r = s * w + t /\ r % w = t
  OBVIOUS
<1>4. PICK u \in Int : u = q * c + s
  OBVIOUS
<1>5. a = u * w + t
  <2>1. u * w = (q * c) * w + s * w
    BY <1>4
  <2>2. (q * c) * w = q * (c * w)
    OBVIOUS
  <2> QED BY <1>1, <1>2, <1>3, <2>1, <2>2
<1>6. a % w = t
  BY <1>5, ModUnique
<1> QED BY <1>1, <1>3, <1>6

(* A difference of remainders is the difference, reduced.                  *)
LEMMA ModSame ==
  ASSUME NEW m \in Int, m > 0, NEW a \in Int, NEW b \in Int
  PROVE  ((a % m) - (b % m)) % m = (a - b) % m
<1>1. PICK q \in Int, r \in 0 .. (m - 1) : a = q * m + r /\ a % m = r
  BY ModParts
<1>2. PICK s \in Int, t \in 0 .. (m - 1) : b = s * m + t /\ b % m = t
  BY ModParts
<1>3. PICK c \in Int : c = r - t
  OBVIOUS
<1>4. PICK x \in Int, y \in 0 .. (m - 1) : c = x * m + y /\ c % m = y
  OBVIOUS
<1>5. PICK u \in Int : u = q - s + x
  OBVIOUS
<1>6. u * m = q * m - s * m + x * m
  BY <1>5
<1>7. PICK d \in Int : d = a - b
  OBVIOUS
<1>8. d = u * m + y
  BY <1>1, <1>2, <1>3, <1>4, <1>6, <1>7
<1>9. d % m = y
  BY <1>8, ModUnique
<1> QED BY <1>1, <1>2, <1>3, <1>4, <1>7, <1>9

(* The distance of two advanced numbers is the difference of the offsets,  *)
(* reduced.                                                                *)
LEMMA DistMod ==
  ASSUME NEW q \in Int, NEW i \in Int, NEW j \in Int
  PROVE  SeqDist(SeqAdd(q, i), SeqAdd(q, j)) = (j - i) % SeqMod
<1>1. PICK a \in Int : a = q + i
  OBVIOUS
<1>2. PICK b \in Int : b = q + j
  OBVIOUS
<1>3. ((b % SeqMod) - (a % SeqMod)) % SeqMod = (b - a) % SeqMod
  BY ModulusOK, ModSame
<1>4. b - a = j - i
  BY <1>1, <1>2
<1> QED BY <1>1, <1>2, <1>3, <1>4 DEF SeqAdd, SeqDist

(* The distance to a number further on, less than a cycle away, is the     *)
(* difference of the offsets.                                              *)
LEMMA DistAhead ==
  ASSUME NEW q \in Int, NEW i \in Int, NEW j \in Int, i <= j, j - i < SeqMod
  PROVE  SeqDist(SeqAdd(q, i), SeqAdd(q, j)) = j - i
<1>1. PICK d \in 0 .. (SeqMod - 1) : d = j - i
  BY ModulusOK
<1>2. d % SeqMod = d
  BY ModSmall, ModulusOK
<1> QED BY <1>1, <1>2, DistMod

(* The distance to a number behind is a cycle less the difference.         *)
LEMMA DistBehind ==
  ASSUME NEW q \in Int, NEW i \in Int, NEW j \in Int, j < i, i - j <= SeqMod
  PROVE  SeqDist(SeqAdd(q, i), SeqAdd(q, j)) = SeqMod + j - i
<1>1. PICK d \in (-SeqMod) .. (-1) : d = j - i
  BY ModulusOK
<1>2. d % SeqMod = d + SeqMod
  BY ModUnder, ModulusOK
<1>3. d + SeqMod = SeqMod + j - i
  BY <1>1, ModulusOK
<1>4. SeqDist(SeqAdd(q, i), SeqAdd(q, j)) = (j - i) % SeqMod
  BY DistMod
<1> QED BY <1>1, <1>2, <1>3, <1>4

(* Advancing by nothing stays.                                             *)
LEMMA AddZero == ASSUME NEW q \in Seqs PROVE SeqAdd(q, 0) = q
<1>1. q \in 0 .. (SeqMod - 1)
  BY DEF Seqs
<1>2. q % SeqMod = q
  BY <1>1, ModulusOK, ModSmall
<1>3. q \in Int
  BY <1>1, ModulusOK
<1>4. q + 0 = q
  BY <1>3
<1> QED BY <1>2, <1>4 DEF SeqAdd

(* Advancing by the distance arrives.                                      *)
LEMMA AddDist == ASSUME NEW p \in Int, NEW q \in Seqs PROVE SeqAdd(p, SeqDist(p, q)) = q
<1>1. q \in 0 .. (SeqMod - 1) /\ q \in Int
  BY ModulusOK DEF Seqs
<1>2. PICK a \in Int : a = q - p
  BY <1>1
<1>3. ((a % SeqMod) + p) % SeqMod = (a + p) % SeqMod
  BY ModulusOK, ModAdd
<1>4. a + p = q
  BY <1>1, <1>2
<1>5. q % SeqMod = q
  BY <1>1, ModulusOK, ModSmall
<1>6. PICK d \in Int : d = a % SeqMod
  BY ModulusOK
<1>7. p + d = d + p
  OBVIOUS
<1> QED BY <1>2, <1>3, <1>4, <1>5, <1>6, <1>7 DEF SeqAdd, SeqDist

(* The slot of an advanced number, computed without the modulus of the     *)
(* numbers.                                                                *)
LEMMA SlotAdd == ASSUME NEW q \in Int, NEW k \in Int PROVE Slot(SeqAdd(q, k)) = (q + k) % Window
<1>1. PICK a \in Int : a = q + k
  OBVIOUS
<1>2. SeqMod % Window = 0
  BY SeqAssumption
<1>3. (a % SeqMod) % Window = a % Window
  BY <1>2, ModulusOK, ModDivisor
<1> QED BY <1>1, <1>3 DEF Slot, SeqAdd

(* Two numbers of one window have slots of their own, across the wrap too. *)
LEMMA SlotUnique ==
  ASSUME NEW q \in Int, NEW i \in Int, NEW j \in Int, i - j < Window, j - i < Window,
         Slot(SeqAdd(q, i)) = Slot(SeqAdd(q, j))
  PROVE  i = j
<1>1. (q + i) % Window = (q + j) % Window
  BY SlotAdd
<1>2. PICK a \in Int : a = q + i
  OBVIOUS
<1>3. PICK b \in Int : b = q + j
  OBVIOUS
<1>4. ((b % Window) - (a % Window)) % Window = (b - a) % Window
  BY ModSame, ModulusOK
<1>5. PICK c \in Int : c = a % Window
  BY ModulusOK
<1>6. c - c = 0 /\ b - a = j - i
  BY <1>2, <1>3
<1>7. 0 % Window = 0
  BY ModulusOK
<1>8. (j - i) % Window = 0
  BY <1>1, <1>2, <1>3, <1>4, <1>5, <1>6, <1>7
<1>9. PICK d \in Int : d = j - i
  OBVIOUS
<1>10. CASE d >= 0
  <2>1. d \in 0 .. (Window - 1)
    BY <1>9, <1>10, ModulusOK
  <2>2. d % Window = d
    BY <2>1, ModSmall, ModulusOK
  <2> QED BY <1>8, <1>9, <2>2
<1>11. CASE d < 0
  <2>1. d \in (-Window) .. (-1)
    BY <1>9, <1>11, ModulusOK
  <2>2. d % Window = d + Window
    BY <2>1, ModUnder, ModulusOK
  <2> QED BY <1>8, <1>9, <2>2, ModulusOK
<1> QED BY <1>10, <1>11

(* The slot of Start *)
LEMMA SlotOffset ==
  ASSUME NEW q \in Int, NEW s \in Slots
  PROVE  /\ (s - q) % Window \in 0 .. (Window - 1)
         /\ Slot(SeqAdd(q, (s - q) % Window)) = s
         /\ \A k \in 0 .. (Window - 1) : s = Slot(SeqAdd(q, k)) => (s - q) % Window = k
<1>1. s \in 0 .. (Window - 1) /\ s \in Int
  BY ModulusOK DEF Slots
<1>2. PICK a \in Int : a = s - q
  BY <1>1
<1>3. PICK k \in 0 .. (Window - 1) : k = a % Window
  BY ModulusOK
<1>4. k \in Int
  BY <1>3, ModulusOK
<1>5. Slot(SeqAdd(q, k)) = s
  <2>1. Slot(SeqAdd(q, k)) = (q + k) % Window
    BY <1>4, SlotAdd
  <2>2. q + k = k + q
    BY <1>4
  <2>3. ((a % Window) + q) % Window = (a + q) % Window
    BY ModAdd, ModulusOK
  <2>4. a + q = s
    BY <1>1, <1>2
  <2>5. s % Window = s
    BY <1>1, ModSmall, ModulusOK
  <2> QED BY <1>3, <2>1, <2>2, <2>3, <2>4, <2>5
<1>6. ASSUME NEW j \in 0 .. (Window - 1), s = Slot(SeqAdd(q, j)) PROVE k = j
  <2>1. j \in Int /\ k - j < Window /\ j - k < Window
    BY <1>3, ModulusOK
  <2> QED BY <1>4, <1>5, <1>6, <2>1, SlotUnique
<1> QED BY <1>2, <1>3, <1>5, <1>6
-----------------------------------------------------------------------------
(* A busy sender has a C_PDU in progress: without this fact the step that  *)
(* drops the head of the queue would have nothing to drop.                 *)
BusyHasHead == \A n \in Node : txState[n] = "WAIT_ACK" => txQueue[n] # <<>>

IInv == TypeOK /\ BusyHasHead

USE SeqAssumption, LinkAssumption

-----------------------------------------------------------------------------
(* Sequence arithmetic stays in range.                                     *)
LEMMA AddInSeqs == ASSUME NEW q \in Int, NEW k \in Int PROVE SeqAdd(q, k) \in Seqs
  BY DEF SeqAdd, Seqs

LEMMA DistInSeqs == ASSUME NEW p \in Int, NEW q \in Int PROVE SeqDist(p, q) \in Seqs
  BY DEF SeqDist, Seqs

LEMMA SlotInSlots == ASSUME NEW q \in Int PROVE Slot(q) \in Slots
  BY DEF Slot, Slots

LEMMA SeqsAreInts == Seqs \subseteq Int /\ Slots \subseteq Int /\ 0 \in Seqs
  BY DEF Seqs, Slots

LEMMA PeerIsNode == ASSUME NEW n \in Node PROVE Peer(n) \in Node
  BY DEF Peer, Node

LEMMA AppendIsNotEmpty ==
  ASSUME NEW S, NEW s \in Seq(S), NEW e \in S
  PROVE  Append(s, e) # <<>>
<1>1. Len(Append(s, e)) = Len(s) + 1 /\ Len(s) \in Nat
  OBVIOUS
<1> QED BY <1>1

(* Every listing of a set of numbers is a sequence over it.                *)
LEMMA InOrderIsSeq ==
  ASSUME NEW c \in Nat, NEW S \in SUBSET (0 .. c), NEW f \in InOrder(S)
  PROVE  f \in Seq(S)
<1>1. IsFiniteSet(0 .. c) BY FS_Interval
<1>2. IsFiniteSet(S) BY <1>1, FS_Subset
<1>3. Cardinality(S) \in Nat BY <1>2, FS_CardinalityType
<1> QED BY <1>3 DEF InOrder

(* The fragments of a C_PDU are fragments.                                 *)
LEMMA FragmentsType ==
  ASSUME NEW c \in CPdu
  PROVE  /\ Fragments(c) \in Seq(Fragment)
         /\ \A k \in 1 .. c.size : Fragments(c)[k] \in Fragment
<1>1. c.id \in Nat /\ c.size \in 1 .. MaxFragments /\ MaxFragments \in Nat
  BY DEF CPdu
<1>2. \A k \in 1 .. c.size : [id |-> c.id, part |-> k, size |-> c.size] \in Fragment
  BY <1>1 DEF Fragment
<1>3. c.size \in Nat
  BY <1>1
<1> QED BY <1>2, <1>3 DEF Fragments

LEMMA NoSlotIsNotASlot ==
  /\ \A s \in TxSlot \cup {NoTxSlot} : s.status # "NONE" => s \in TxSlot
  /\ \A s \in RxSlot \cup {EmptyRxSlot} : s.status = "RECEIVED" => s.fragment \in Fragment
  BY DEF TxSlot, NoTxSlot, RxSlot, EmptyRxSlot
-----------------------------------------------------------------------------
(* What an engine sends are frames.                                        *)
LEMMA DataFrameType ==
  ASSUME NEW q \in Seqs, NEW f \in Fragment
  PROVE  DataFrame(q, f) \in Frame
  BY DEF DataFrame, Frame

LEMMA AckFrameType == ASSUME TypeOK, NEW n \in Node PROVE AckFrame(n) \in Frame
<1>1. \A k \in 1 .. Window : PadToByte(k) \in 1 .. (Window + ByteBits)
  <2>1. ASSUME NEW k \in 1 .. Window PROVE (-k) % ByteBits \in 0 .. (ByteBits - 1)
    OBVIOUS
  <2> QED BY <2>1 DEF PadToByte
<1>2. Known(n) \subseteq 1 .. Window
  BY DEF Known
<1>3. UNION {1 .. PadToByte(k) : k \in Known(n)} \subseteq Bits
  BY <1>1, <1>2 DEF Bits
<1>4. {k \in Known(n) : Received(rxWindow[n], SeqAdd(rxLwe[n], k))} \subseteq Bits
  BY <1>2 DEF Bits
<1>5. rxLwe[n] \in Seqs
  BY DEF TypeOK
<1> QED BY <1>3, <1>4, <1>5 DEF AckFrame, Frame

LEMMA TransmitType ==
  ASSUME TypeOK, NEW n \in Node, NEW burst \in Seq(Frame), Transmit(n, burst)
  PROVE  chan' \in [Node -> Seq(Frame)]
<1>1. AckFrame(n) \in Frame
  BY AckFrameType
<1>2. Peer(n) \in Node
  BY PeerIsNode
<1>3. chan \in [Node -> Seq(Frame)]
  BY DEF TypeOK
<1> QED BY <1>1, <1>2, <1>3 DEF Transmit

LEMMA TransmitNothingType ==
  ASSUME TypeOK, NEW n \in Node, Transmit(n, <<>>)
  PROVE  chan' \in [Node -> Seq(Frame)]
<1>1. <<>> \in Seq(Frame)
  OBVIOUS
<1> QED BY <1>1, TransmitType

(* Cutting a C_PDU leaves a well-formed sender with its head in progress.  *)
LEMMA StartType ==
  ASSUME TypeOK, NEW n \in Node, NEW c \in CPdu, NEW first \in Seqs, Start(n, c, first)
  PROVE  /\ txState' \in [Node -> {"IDLE", "WAIT_ACK"}]
         /\ txCount' \in [Node -> 0 .. MaxFragments]
         /\ txWindow' \in [Node -> [Slots -> TxSlot \cup {NoTxSlot}]]
         /\ chan' \in [Node -> Seq(Frame)]
<1>1. c.size \in 1 .. MaxFragments /\ MaxFragments \in Nat /\ c.size \in Nat /\ first \in Int
  BY SeqsAreInts DEF CPdu
<1>2. \A k \in 1 .. c.size : Fragments(c)[k] \in Fragment
  BY FragmentsType
<1>3. \A k \in 1 .. c.size : SeqAdd(first, k - 1) \in Seqs
  BY <1>1, AddInSeqs
<1>4. txState' \in [Node -> {"IDLE", "WAIT_ACK"}] /\ txCount' \in [Node -> 0 .. MaxFragments]
  BY <1>1 DEF Start, TypeOK
<1>5. txWindow' \in [Node -> [Slots -> TxSlot \cup {NoTxSlot}]]
  <2> DEFINE k(i) == ((i - first) % Window) + 1
             new(i) == [status |-> "SENT_WAIT_ACK", seq |-> SeqAdd(first, k(i) - 1),
                        fragment |-> Fragments(c)[k(i)], retx |-> 0]
  <2>1. ASSUME NEW i \in Slots, k(i) <= c.size PROVE new(i) \in TxSlot
    <3>1. i - first \in Int
      BY <1>1, SeqsAreInts
    <3>2. k(i) \in 1 .. c.size
      BY <3>1, <2>1, <1>1
    <3> HIDE DEF k
    <3> QED BY <3>2, <1>2, <1>3 DEF TxSlot
  <2>2. txWindow' = [txWindow EXCEPT ![n] = [i \in Slots |-> IF k(i) <= c.size THEN new(i) ELSE @[i]]]
    BY DEF Start
  <2> HIDE DEF k, new
  <2> QED BY <2>1, <2>2 DEF TypeOK
<1>6. chan' \in [Node -> Seq(Frame)]
  <2> DEFINE burst == [k \in 1 .. c.size |-> DataFrame(SeqAdd(first, k - 1), Fragments(c)[k])]
  <2>0. \A k \in 1 .. c.size : DataFrame(SeqAdd(first, k - 1), Fragments(c)[k]) \in Frame
    BY <1>2, <1>3, DataFrameType
  <2>1. burst \in Seq(Frame)
    BY <1>1, <2>0
  <2>2. Transmit(n, burst)
    BY DEF Start
  <2> HIDE DEF burst
  <2> QED BY <2>1, <2>2, TransmitType
<1> QED BY <1>4, <1>5, <1>6

(* So does a reset of the engine, with its queue emptied.                  *)
ResetFieldsOK ==
  /\ txState \in [Node -> {"IDLE", "WAIT_ACK"}]
  /\ txLwe \in [Node -> Seqs]
  /\ txCount \in [Node -> 0 .. MaxFragments]
  /\ nextSeq \in [Node -> Seqs]
  /\ txWindow \in [Node -> [Slots -> TxSlot \cup {NoTxSlot}]]
  /\ rxLwe \in [Node -> Seqs]
  /\ deliverLwe \in [Node -> Seqs]
  /\ rxWindow \in [Node -> [Slots -> RxSlot \cup {EmptyRxSlot}]]
  /\ ackDirty \in [Node -> BOOLEAN]
  /\ resetPending \in [Node -> BOOLEAN]

LEMMA ResetWindowsType ==
  ASSUME TypeOK, NEW n \in Node, ResetWindows(n)
  PROVE  ResetFieldsOK'
  BY SeqsAreInts DEF ResetWindows, TypeOK, ResetFieldsOK

(* The frames of the window that are sent again.                           *)
LEMMA ResendType ==
  ASSUME TypeOK, NEW n \in Node, NEW S \in SUBSET MustRetransmit(n), NEW f \in InOrder(S)
  PROVE  Resend(n, f) \in Seq(Frame)
<1>1. S \subseteq 0 .. (txCount[n] - 1) /\ txCount[n] \in Nat
  BY DEF MustRetransmit, WithStatus, TypeOK
<1>2. \A k \in S : TxStatus(n, k) = "NACKED" /\ k \in Int
  BY <1>1 DEF MustRetransmit, WithStatus
<1>3. f \in Seq(S)
  <2>1. S \in SUBSET (0 .. txCount[n])
    BY <1>1
  <2> QED BY <1>1, <2>1, InOrderIsSeq
<1>4. \A k \in S : /\ SeqAdd(txLwe[n], k) \in Seqs
                  /\ txWindow[n][Slot(SeqAdd(txLwe[n], k))] \in TxSlot
  <2> TAKE k \in S
  <2>1. SeqAdd(txLwe[n], k) \in Seqs
    BY <1>2, AddInSeqs, SeqsAreInts DEF TypeOK
  <2>2. Slot(SeqAdd(txLwe[n], k)) \in Slots
    BY <2>1, SlotInSlots, SeqsAreInts
  <2>3. txWindow[n][Slot(SeqAdd(txLwe[n], k))] \in TxSlot \cup {NoTxSlot}
    BY <2>2 DEF TypeOK
  <2> QED BY <2>1, <2>3, <1>2, NoSlotIsNotASlot DEF TxStatus
<1>5. \A k \in S : DataFrame(SeqAdd(txLwe[n], k), txWindow[n][Slot(SeqAdd(txLwe[n], k))].fragment) \in Frame
  <2> TAKE k \in S
  <2>1. txWindow[n][Slot(SeqAdd(txLwe[n], k))].fragment \in Fragment
    BY <1>4 DEF TxSlot
  <2> QED BY <1>4, <2>1, DataFrameType
<1>6. Len(f) \in Nat /\ DOMAIN f = 1 .. Len(f) /\ \A i \in 1 .. Len(f) : f[i] \in S
  BY <1>3
<1> QED BY <1>5, <1>6 DEF Resend
-----------------------------------------------------------------------------
(* One lemma for each action that does more than move a frame.             *)
LEMMA SubmitType == ASSUME IInv, NEW n \in Node, Submit(n) PROVE IInv'
<1>1. PICK size \in 1 .. MaxFragments :
        /\ submitted' = [submitted EXCEPT ![n] = Append(@, size)]
        /\ txQueue' = [txQueue EXCEPT
                         ![n] = Append(@, [id |-> Len(submitted[n]) + 1, size |-> size])]
  BY DEF Submit
<1>2. [id |-> Len(submitted[n]) + 1, size |-> size] \in CPdu
  BY DEF CPdu, IInv, TypeOK
<1>3. TypeOK'
  <2>1. txQueue' \in [Node -> Seq(CPdu)]
    BY <1>1, <1>2 DEF IInv, TypeOK
  <2>2. submitted' \in [Node -> Seq(1 .. MaxFragments)]
    BY <1>1 DEF IInv, TypeOK
  <2> QED BY <2>1, <2>2 DEF Submit, IInv, TypeOK, rxVars, resetVars
<1>4. \A m \in Node : txQueue[m] # <<>> => txQueue'[m] # <<>>
  <2> DEFINE c == [id |-> Len(submitted[n]) + 1, size |-> size]
  <2>1. txQueue[n] \in Seq(CPdu) /\ c \in CPdu /\ txQueue \in [Node -> Seq(CPdu)]
    BY <1>2 DEF IInv, TypeOK
  <2>2. txQueue' = [txQueue EXCEPT ![n] = Append(txQueue[n], c)]
    BY <1>1
  <2> HIDE DEF c
  <2>3. Append(txQueue[n], c) # <<>>
    BY <2>1, AppendIsNotEmpty
  <2> QED BY <2>1, <2>2, <2>3
<1>5. BusyHasHead'
  BY <1>4 DEF Submit, IInv, BusyHasHead
<1> QED BY <1>3, <1>5 DEF IInv

LEMMA TxSendType == ASSUME IInv, NEW n \in Node, TxSend(n) PROVE IInv'
<1>1. TypeOK /\ BusyHasHead
  BY DEF IInv
<1>2. Head(txQueue[n]) \in CPdu /\ nextSeq[n] \in Seqs
  BY <1>1 DEF TxSend, TypeOK
<1>3. TypeOK'
  BY <1>1, <1>2, StartType DEF TxSend, TypeOK, rxVars, resetVars, history
<1>4. BusyHasHead'
  BY <1>1 DEF TxSend, Start, BusyHasHead, TypeOK
<1> QED BY <1>3, <1>4 DEF IInv

LEMMA TxConfirmType == ASSUME IInv, NEW n \in Node, TxConfirm(n) PROVE IInv'
<1>1. TypeOK /\ BusyHasHead
  BY DEF IInv
<1> DEFINE first == SeqAdd(txLwe[n], txCount[n])
<1>2. txQueue[n] # <<>> /\ txQueue[n] \in Seq(CPdu)
  BY <1>1 DEF TxConfirm, BusyHasHead, TypeOK
<1>3. Head(txQueue[n]) \in CPdu /\ Tail(txQueue[n]) \in Seq(CPdu)
  BY <1>2
<1>4. first \in Seqs
  <2>1. MaxFragments \in Nat
    OBVIOUS
  <2>2. txCount[n] \in 0 .. MaxFragments /\ txLwe[n] \in Seqs
    BY <1>1 DEF TypeOK
  <2>3. txCount[n] \in Int /\ txLwe[n] \in Int
    BY <2>1, <2>2, SeqsAreInts
  <2> QED BY <2>3, AddInSeqs
<1>5. /\ txState' \in [Node -> {"IDLE", "WAIT_ACK"}]
      /\ txCount' \in [Node -> 0 .. MaxFragments]
      /\ txWindow' \in [Node -> [Slots -> TxSlot \cup {NoTxSlot}]]
      /\ chan' \in [Node -> Seq(Frame)]
  <2>1. CASE Tail(txQueue[n]) # <<>>
    <3>1. Head(Tail(txQueue[n])) \in CPdu
      BY <1>3, <2>1
    <3>2. Start(n, Head(Tail(txQueue[n])), first)
      BY <2>1 DEF TxConfirm
    <3> HIDE DEF first
    <3> QED BY <1>1, <1>4, <3>1, <3>2, StartType
  <2>2. CASE Tail(txQueue[n]) = <<>>
    <3>1. Transmit(n, <<>>)
      BY <2>2 DEF TxConfirm
    <3>2. chan' \in [Node -> Seq(Frame)]
      BY <1>1, <3>1, TransmitNothingType
    <3>3. /\ txState' = [txState EXCEPT ![n] = "IDLE"]
          /\ txCount' = [txCount EXCEPT ![n] = 0]
      BY <2>2 DEF TxConfirm
    <3>4. txState' \in [Node -> {"IDLE", "WAIT_ACK"}] /\ txCount' \in [Node -> 0 .. MaxFragments]
      BY <1>1, <3>3 DEF TypeOK
    <3>5. \E freed \in SUBSET Slots :
            txWindow' = [txWindow EXCEPT ![n] = [i \in Slots |->
              IF i \in freed THEN NoTxSlot ELSE txWindow[n][i]]]
      <4> DEFINE freed == {i \in Slots :
                   \E k \in 0 .. (txCount[n] - 1) : i = Slot(SeqAdd(txLwe[n], k))}
      <4>1. txWindow' = [txWindow EXCEPT ![n] = [i \in Slots |->
              IF i \in freed THEN NoTxSlot ELSE txWindow[n][i]]]
        BY <2>2 DEF TxConfirm
      <4> QED BY <4>1
    <3>6. txWindow' \in [Node -> [Slots -> TxSlot \cup {NoTxSlot}]]
      BY <1>1, <3>5 DEF TypeOK
    <3> QED BY <3>2, <3>4, <3>6
  <2> QED BY <2>1, <2>2
<1>6. TypeOK'
  <2>1. txLwe' \in [Node -> Seqs] /\ nextSeq' \in [Node -> Seqs]
    BY <1>1, <1>4 DEF TxConfirm, TypeOK
  <2>2. txQueue' \in [Node -> Seq(CPdu)]
    BY <1>1, <1>3 DEF TxConfirm, TypeOK
  <2>3. confirmed' \in [Node -> SUBSET Nat] /\ ackDirty' \in [Node -> BOOLEAN]
    <3>1. /\ confirmed' = [confirmed EXCEPT ![n] = @ \cup {Head(txQueue[n]).id}]
          /\ ackDirty' = [ackDirty EXCEPT ![n] = FALSE]
      BY DEF TxConfirm
    <3>2. Head(txQueue[n]).id \in Nat
      BY <1>3 DEF CPdu
    <3>3. confirmed \in [Node -> SUBSET Nat] /\ ackDirty \in [Node -> BOOLEAN]
      BY <1>1 DEF TypeOK
    <3> QED BY <3>1, <3>2, <3>3
  <2>4. UNCHANGED <<rxLwe, deliverLwe, rxWindow, resetPending, resetFrameId, pendingTx,
                    submitted, delivered, failed>>
    BY DEF TxConfirm, rxVars, resetVars
  <2>5. /\ rxLwe' \in [Node -> Seqs] /\ deliverLwe' \in [Node -> Seqs]
        /\ rxWindow' \in [Node -> [Slots -> RxSlot \cup {EmptyRxSlot}]]
        /\ resetPending' \in [Node -> BOOLEAN] /\ resetFrameId' \in [Node -> 0 .. 255]
        /\ pendingTx' \in [Node -> Seq(Frame)]
    BY <1>1, <2>4 DEF TypeOK
  <2>6. /\ submitted' \in [Node -> Seq(1 .. MaxFragments)]
        /\ delivered' \in [Node -> Seq(Seq(Fragment))]
        /\ failed' \in [Node -> BOOLEAN]
    BY <1>1, <2>4 DEF TypeOK
  <2> QED BY <1>5, <2>1, <2>2, <2>3, <2>5, <2>6 DEF TypeOK
<1>7. BusyHasHead'
  <2>1. txQueue' = [txQueue EXCEPT ![n] = Tail(@)]
    BY DEF TxConfirm
  <2>2. Tail(txQueue[n]) = <<>> => txState' = [txState EXCEPT ![n] = "IDLE"]
    BY DEF TxConfirm
  <2>3. \A m \in Node \ {n} : txState'[m] = txState[m]
    <3>1. \/ txState' = [txState EXCEPT ![n] = "IDLE"]
          \/ txState' = [txState EXCEPT ![n] = "WAIT_ACK"]
      BY DEF TxConfirm, Start
    <3>2. txState \in [Node -> {"IDLE", "WAIT_ACK"}]
      BY <1>1 DEF TypeOK
    <3> QED BY <3>1, <3>2
  <2>4. ASSUME NEW m \in Node, txState'[m] = "WAIT_ACK" PROVE txQueue'[m] # <<>>
    <3>1. CASE m = n
      <4>1. Tail(txQueue[n]) # <<>>
        BY <1>1, <2>2, <2>4, <3>1 DEF TypeOK
      <4> QED BY <1>1, <2>1, <3>1, <4>1 DEF TypeOK
    <3>2. CASE m # n
      BY <1>1, <2>1, <2>3, <2>4, <3>2 DEF BusyHasHead, TypeOK
    <3> QED BY <3>1, <3>2
  <2> QED BY <2>4 DEF BusyHasHead
<1> QED BY <1>6, <1>7 DEF IInv

(* A step that writes the slots of one node.                               *)
LEMMA TxWindowStep ==
  ASSUME TypeOK, NEW n \in Node, NEW new \in [Slots -> TxSlot \cup {NoTxSlot}],
         txWindow' = [txWindow EXCEPT ![n] = new]
  PROVE  txWindow' \in [Node -> [Slots -> TxSlot \cup {NoTxSlot}]]
BY DEF TypeOK

LEMMA TxTimeoutType == ASSUME IInv, NEW n \in Node, TxTimeout(n) PROVE IInv'
<1>1. TypeOK /\ BusyHasHead
  BY DEF IInv
<1>2. chan' \in [Node -> Seq(Frame)]
  <2>1. Transmit(n, <<>>)
    BY DEF TxTimeout
  <2> QED BY <1>1, <2>1, TransmitNothingType
<1>3. \A k \in WithStatus(n, "SENT_WAIT_ACK") :
        [txWindow[n][Slot(SeqAdd(txLwe[n], k))] EXCEPT !.status = "NACKED"] \in TxSlot
  <2> TAKE k \in WithStatus(n, "SENT_WAIT_ACK")
  <2>1. k \in Int /\ TxStatus(n, k) = "SENT_WAIT_ACK"
    BY DEF WithStatus
  <2>2. Slot(SeqAdd(txLwe[n], k)) \in Slots
    BY <1>1, <2>1, AddInSeqs, SlotInSlots, SeqsAreInts DEF TypeOK
  <2>3. txWindow[n][Slot(SeqAdd(txLwe[n], k))] \in TxSlot
    BY <1>1, <2>1, <2>2, NoSlotIsNotASlot DEF TypeOK, TxStatus
  <2> QED BY <2>3 DEF TxSlot
<1>4. txWindow' \in [Node -> [Slots -> TxSlot \cup {NoTxSlot}]]
  <2> DEFINE new == [i \in Slots |->
               IF \E k \in WithStatus(n, "SENT_WAIT_ACK") : i = Slot(SeqAdd(txLwe[n], k))
               THEN [txWindow[n][i] EXCEPT !.status = "NACKED"] ELSE txWindow[n][i]]
  <2>1. txWindow[n] \in [Slots -> TxSlot \cup {NoTxSlot}]
    BY <1>1 DEF TypeOK
  <2>2. new \in [Slots -> TxSlot \cup {NoTxSlot}]
    BY <1>3, <2>1
  <2>3. txWindow' = [txWindow EXCEPT ![n] = new]
    BY DEF TxTimeout
  <2> HIDE DEF new
  <2> QED BY <1>1, <2>2, <2>3, TxWindowStep
<1>5. TypeOK'
  BY <1>1, <1>2, <1>4 DEF TxTimeout, TypeOK, rxVars, resetVars, history
<1>6. BusyHasHead'
  BY <1>1 DEF TxTimeout, BusyHasHead
<1> QED BY <1>5, <1>6 DEF IInv

LEMMA TxRetransmitType == ASSUME IInv, NEW n \in Node, TxRetransmit(n) PROVE IInv'
<1>1. TypeOK /\ BusyHasHead
  BY DEF IInv
<1>2. chan' \in [Node -> Seq(Frame)]
  <2>1. PICK f \in InOrder(MustRetransmit(n)) : Transmit(n, Resend(n, f))
    BY DEF TxRetransmit
  <2>2. Resend(n, f) \in Seq(Frame)
    BY <1>1, ResendType
  <2> QED BY <1>1, <2>1, <2>2, TransmitType
<1>3. \A k \in MustRetransmit(n) :
        [txWindow[n][Slot(SeqAdd(txLwe[n], k))] EXCEPT !.status = "SENT_WAIT_ACK",
             !.retx = txWindow[n][Slot(SeqAdd(txLwe[n], k))].retx + 1] \in TxSlot
  <2> TAKE k \in MustRetransmit(n)
  <2> DEFINE s == txWindow[n][Slot(SeqAdd(txLwe[n], k))]
  <2>1. k \in Int /\ TxStatus(n, k) = "NACKED"
    BY DEF MustRetransmit, WithStatus
  <2>2. Slot(SeqAdd(txLwe[n], k)) \in Slots
    BY <1>1, <2>1, AddInSeqs, SlotInSlots, SeqsAreInts DEF TypeOK
  <2>3. s \in TxSlot
    BY <1>1, <2>1, <2>2, NoSlotIsNotASlot DEF TypeOK, TxStatus
  <2>4. ~(s.retx >= MaxRetries)
    BY DEF TxRetransmit, Exhausted
  <2>5. s.retx + 1 \in 0 .. MaxRetries
    BY <2>3, <2>4 DEF TxSlot
  <2>6. [s EXCEPT !.status = "SENT_WAIT_ACK", !.retx = s.retx + 1] \in TxSlot
    <3> HIDE DEF s
    <3> QED BY <2>3, <2>5 DEF TxSlot
  <2> QED BY <2>6
<1>4. txWindow' \in [Node -> [Slots -> TxSlot \cup {NoTxSlot}]]
  <2> DEFINE new == [i \in Slots |->
               IF \E k \in MustRetransmit(n) : i = Slot(SeqAdd(txLwe[n], k))
               THEN [txWindow[n][i] EXCEPT !.status = "SENT_WAIT_ACK",
                                           !.retx = txWindow[n][i].retx + 1]
               ELSE txWindow[n][i]]
  <2>1. txWindow[n] \in [Slots -> TxSlot \cup {NoTxSlot}]
    BY <1>1 DEF TypeOK
  <2>2. new \in [Slots -> TxSlot \cup {NoTxSlot}]
    BY <1>3, <2>1
  <2>3. txWindow' = [txWindow EXCEPT ![n] = new]
    BY DEF TxRetransmit
  <2> HIDE DEF new
  <2> QED BY <1>1, <2>2, <2>3, TxWindowStep
<1>5. TypeOK'
  BY <1>1, <1>2, <1>4 DEF TxRetransmit, TypeOK, rxVars, resetVars, history
<1>6. BusyHasHead'
  BY <1>1 DEF TxRetransmit, BusyHasHead
<1> QED BY <1>5, <1>6 DEF IInv

LEMMA TxGiveUpType == ASSUME IInv, NEW n \in Node, TxGiveUp(n) PROVE IInv'
<1>1. TypeOK /\ BusyHasHead
  BY DEF IInv
<1>2. chan' \in [Node -> Seq(Frame)]
  <2>1. PICK limit \in Exhausted(n) :
          \E f \in InOrder({k \in MustRetransmit(n) : k < limit}) : Transmit(n, Resend(n, f))
    BY DEF TxGiveUp
  <2>2. PICK f \in InOrder({k \in MustRetransmit(n) : k < limit}) : Transmit(n, Resend(n, f))
    BY <2>1
  <2>3. {k \in MustRetransmit(n) : k < limit} \in SUBSET MustRetransmit(n)
    OBVIOUS
  <2>4. Resend(n, f) \in Seq(Frame)
    BY <1>1, <2>3, ResendType
  <2> QED BY <1>1, <2>2, <2>4, TransmitType
<1>3. ResetWindows(n) /\ txQueue' = [txQueue EXCEPT ![n] = <<>>]
  BY DEF TxGiveUp, ResetFull
<1>4. TypeOK'
  <2>1. txQueue' \in [Node -> Seq(CPdu)] /\ failed' \in [Node -> BOOLEAN]
    BY <1>1, <1>3 DEF TxGiveUp, TypeOK
  <2>2. UNCHANGED <<resetFrameId, pendingTx, submitted, delivered, confirmed>>
    BY DEF TxGiveUp
  <2>3. /\ resetFrameId' \in [Node -> 0 .. 255]
        /\ pendingTx' \in [Node -> Seq(Frame)]
        /\ submitted' \in [Node -> Seq(1 .. MaxFragments)]
        /\ delivered' \in [Node -> Seq(Seq(Fragment))]
        /\ confirmed' \in [Node -> SUBSET Nat]
    BY <1>1, <2>2 DEF TypeOK
  <2>4. ResetFieldsOK'
    BY <1>1, <1>3, ResetWindowsType
  <2> QED BY <1>2, <2>1, <2>3, <2>4 DEF TypeOK, ResetFieldsOK
<1>5. BusyHasHead'
  BY <1>1, <1>3 DEF ResetWindows, BusyHasHead, TypeOK
<1> QED BY <1>4, <1>5 DEF IInv

LEMMA TxRestType ==
  ASSUME IInv, NEW n \in Node, TxAck(n) \/ TxReset(n) \/ TxPending(n)
  PROVE  IInv'
<1>1. TypeOK /\ BusyHasHead
  BY DEF IInv
<1>2. CASE TxAck(n)
  <2>1. chan' \in [Node -> Seq(Frame)]
    BY <1>1, <1>2, TransmitNothingType DEF TxAck
  <2> QED BY <1>1, <1>2, <2>1
        DEF TxAck, IInv, TypeOK, BusyHasHead, txVars, rxVars, resetVars, history
<1>3. CASE TxReset(n)
  <2>1. ResetFrame(resetFrameId[n]) \in Frame
    BY <1>1 DEF ResetFrame, Frame, TypeOK
  <2>2. [i \in 1 .. ResetReps |-> ResetFrame(resetFrameId[n])] \in Seq(Frame)
    BY <2>1
  <2>3. chan' \in [Node -> Seq(Frame)]
    BY <1>1, <1>3, <2>2, TransmitType DEF TxReset
  <2> QED BY <1>1, <1>3, <2>3
        DEF TxReset, IInv, TypeOK, BusyHasHead, txVars, rxVars, resetVars, history
<1>4. CASE TxPending(n)
  <2>1. Head(pendingTx[n]) \in Frame /\ Tail(pendingTx[n]) \in Seq(Frame) /\ Peer(n) \in Node
    BY <1>1, <1>4, PeerIsNode DEF TxPending, TypeOK
  <2>2. pendingTx' \in [Node -> Seq(Frame)]
    BY <1>1, <1>4, <2>1 DEF TxPending, TypeOK
  <2>3. chan' \in [Node -> Seq(Frame)]
    <3>1. Append(chan[Peer(n)], Head(pendingTx[n])) \in Seq(Frame)
      BY <1>1, <2>1 DEF TypeOK
    <3>2. chan' = [chan EXCEPT ![Peer(n)] = Append(chan[Peer(n)], Head(pendingTx[n]))]
      BY <1>4 DEF TxPending
    <3> QED BY <1>1, <2>1, <3>1, <3>2 DEF TypeOK
  <2> QED BY <1>1, <1>4, <2>2, <2>3
        DEF TxPending, IInv, TypeOK, BusyHasHead, txVars, rxVars, resetVars, history
<1> QED BY <1>2, <1>3, <1>4

(* Taking a frame from a channel leaves a channel.                         *)
LEMMA TakeType ==
  ASSUME TypeOK, NEW n \in Node, chan[n] # <<>>, Take(n)
  PROVE  chan' \in [Node -> Seq(Frame)] /\ Head(chan[n]) \in Frame
<1>1. chan \in [Node -> Seq(Frame)] /\ chan[n] \in Seq(Frame)
  BY DEF TypeOK
<1>2. Tail(chan[n]) \in Seq(Frame) /\ Head(chan[n]) \in Frame
  BY <1>1
<1> QED BY <1>1, <1>2 DEF Take

LEMMA LoseType == ASSUME IInv, NEW n \in Node, Lose(n) PROVE IInv'
<1>1. TypeOK
  BY DEF IInv
<1>2. chan' \in [Node -> Seq(Frame)]
  BY <1>1, TakeType DEF Lose
<1> QED BY <1>2 DEF Lose, IInv, TypeOK, BusyHasHead, txVars, rxVars, resetVars, history

LEMMA RxOutsideType == ASSUME IInv, NEW n \in Node, RxOutside(n) PROVE IInv'
<1>1. TypeOK
  BY DEF IInv
<1>2. chan' \in [Node -> Seq(Frame)]
  BY <1>1, TakeType DEF RxOutside, Arrived
<1>3. ackDirty' \in [Node -> BOOLEAN]
  BY <1>1 DEF RxOutside, TypeOK
<1> QED BY <1>2, <1>3
      DEF RxOutside, IInv, TypeOK, BusyHasHead, txVars, rxVars, resetVars, history

LEMMA RxDamagedType == ASSUME IInv, NEW n \in Node, RxDamaged(n) PROVE IInv'
<1>1. TypeOK
  BY DEF IInv
<1> DEFINE q == Head(chan[n]).seq
           slot == [status |-> "ERROR", seq |-> q, fragment |-> NoFragment]
<1>2. chan' \in [Node -> Seq(Frame)] /\ Head(chan[n]) \in Frame
  BY <1>1, TakeType DEF RxDamaged, Arrived
<1>3. q \in Seqs
  BY <1>2 DEF RxDamaged, Arrived, Frame
<1>4. slot \in RxSlot /\ Slot(q) \in Slots
  BY <1>3, SlotInSlots, SeqsAreInts DEF RxSlot
<1>5. rxWindow' = [rxWindow EXCEPT ![n][Slot(q)] = slot]
  BY DEF RxDamaged
<1> HIDE DEF q, slot
<1>6. rxWindow' \in [Node -> [Slots -> RxSlot \cup {EmptyRxSlot}]]
  BY <1>1, <1>4, <1>5 DEF TypeOK
<1>7. ackDirty' \in [Node -> BOOLEAN]
  BY <1>1 DEF RxDamaged, TypeOK
<1> QED BY <1>2, <1>6, <1>7
      DEF RxDamaged, IInv, TypeOK, BusyHasHead, txVars, resetVars, history

(* Reassembly reads slots that have been received, so what it returns is a *)
(* sequence of fragments.                                                  *)
LEMMA ReassembledType ==
  ASSUME NEW w \in [Slots -> RxSlot \cup {EmptyRxSlot}], NEW from \in Seqs,
         NEW count \in Nat, NEW j \in CompleteAt(w, from, count)
  PROVE  Reassembled(w, from, j) \in Seq(Fragment)
<1> DEFINE i == FirstOf(w, from, j)
<1>1. j \in Nat /\ i \in 0 .. j /\ Whole(w, from, i, j)
  BY DEF CompleteAt, FirstOf
<1> HIDE DEF i
<1>2. \A k \in i .. j : w[Slot(SeqAdd(from, k))].fragment \in Fragment
  <2> TAKE k \in i .. j
  <2>1. SeqAdd(from, k) \in Seqs
    BY <1>1, AddInSeqs, SeqsAreInts
  <2>2. w[Slot(SeqAdd(from, k))] \in RxSlot \cup {EmptyRxSlot}
    BY <2>1, SlotInSlots, SeqsAreInts
  <2>3. w[Slot(SeqAdd(from, k))].status = "RECEIVED"
    BY <1>1 DEF Whole, Received
  <2> QED BY <2>2, <2>3, NoSlotIsNotASlot
<1>3. \A k \in 1 .. (j - i + 1) : i + k - 1 \in i .. j
  BY <1>1
<1>4. j - i + 1 \in Nat
  BY <1>1
<1>5. [k \in 1 .. (j - i + 1) |-> w[Slot(SeqAdd(from, i + k - 1))].fragment] \in Seq(Fragment)
  BY <1>2, <1>3, <1>4
<1> QED BY <1>5 DEF Reassembled, i

LEMMA RxDataType == ASSUME IInv, NEW n \in Node, RxData(n) PROVE IInv'
<1>1. TypeOK
  BY DEF IInv
<1> DEFINE f == Head(chan[n])
           w == [rxWindow[n] EXCEPT
                   ![Slot(f.seq)] = [status |-> "RECEIVED", seq |-> f.seq, fragment |-> f.fragment]]
           from == deliverLwe[n]
           Count(edge) == SeqDist(from, edge)
<1>2. chan' \in [Node -> Seq(Frame)] /\ f \in Frame
  BY <1>1, TakeType DEF RxData, Arrived
<1>3. f.seq \in Seqs /\ f.fragment \in Fragment
  BY <1>2 DEF RxData, Arrived, Frame
<1>4. w \in [Slots -> RxSlot \cup {EmptyRxSlot}]
  <2>1. [status |-> "RECEIVED", seq |-> f.seq, fragment |-> f.fragment] \in RxSlot
    BY <1>3 DEF RxSlot
  <2> QED BY <1>1, <2>1 DEF TypeOK
<1>5. from \in Seqs /\ rxLwe[n] \in Seqs
  BY <1>1 DEF TypeOK
<1>6. PICK run \in 0 .. Window :
        LET edge == SeqAdd(rxLwe[n], run)
            complete == CompleteAt(w, from, Count(edge))
        IN  /\ rxLwe' = [rxLwe EXCEPT ![n] = edge]
            /\ \E order \in InOrder(complete) :
                 /\ delivered' = [delivered EXCEPT ![n] =
                      @ \o [k \in DOMAIN order |-> Reassembled(w, from, order[k])]]
                 /\ deliverLwe' = [deliverLwe EXCEPT ![n] =
                      IF order = <<>> THEN @ ELSE SeqAdd(from, order[Len(order)] + 1)]
            /\ rxWindow' = [rxWindow EXCEPT ![n] = [s \in Slots |->
                 IF \E j \in complete : \E k \in FirstOf(w, from, j) .. j :
                      s = Slot(SeqAdd(from, k))
                 THEN EmptyRxSlot ELSE w[s]]]
  BY DEF RxData
<1> DEFINE edge == SeqAdd(rxLwe[n], run)
           count == Count(edge)
           complete == CompleteAt(w, from, count)
<1> HIDE DEF f, w, from
<1>7. edge \in Seqs
  <2>1. run \in Int
    OBVIOUS
  <2>2. rxLwe[n] \in Int
    BY <1>5, SeqsAreInts
  <2> QED BY <2>1, <2>2, AddInSeqs
<1>8. count \in Nat
  <2>1. edge \in Int /\ from \in Int
    BY <1>5, <1>7, SeqsAreInts
  <2> HIDE DEF edge
  <2>2. SeqDist(from, edge) \in Seqs
    BY <2>1, DistInSeqs
  <2> QED BY <2>2 DEF Seqs
<1>9. rxLwe' \in [Node -> Seqs]
  BY <1>1, <1>6, <1>7 DEF TypeOK
<1>10. rxWindow' \in [Node -> [Slots -> RxSlot \cup {EmptyRxSlot}]]
  BY <1>1, <1>4, <1>6 DEF TypeOK
<1>11. PICK order \in InOrder(complete) :
         /\ delivered' = [delivered EXCEPT ![n] =
              @ \o [k \in DOMAIN order |-> Reassembled(w, from, order[k])]]
         /\ deliverLwe' = [deliverLwe EXCEPT ![n] =
              IF order = <<>> THEN @ ELSE SeqAdd(from, order[Len(order)] + 1)]
  BY <1>6
<1> HIDE DEF edge, count
<1>12. order \in Seq(complete) /\ complete \subseteq Nat
  <2>1. complete \in SUBSET (0 .. count)
    BY <1>8 DEF CompleteAt
  <2> HIDE DEF complete
  <2>2. order \in Seq(complete)
    BY <1>8, <2>1, InOrderIsSeq
  <2> QED BY <1>8, <2>1, <2>2
<1>13. \A k \in DOMAIN order : order[k] \in complete
  BY <1>12
<1>14. [k \in DOMAIN order |-> Reassembled(w, from, order[k])] \in Seq(Seq(Fragment))
  <2>1. \A k \in DOMAIN order : Reassembled(w, from, order[k]) \in Seq(Fragment)
    BY <1>4, <1>5, <1>8, <1>13, ReassembledType
  <2>2. Len(order) \in Nat /\ DOMAIN order = 1 .. Len(order)
    BY <1>12
  <2> QED BY <2>1, <2>2
<1>15. delivered' \in [Node -> Seq(Seq(Fragment))]
  <2> DEFINE new == [k \in DOMAIN order |-> Reassembled(w, from, order[k])]
  <2>1. delivered[n] \in Seq(Seq(Fragment)) /\ delivered \in [Node -> Seq(Seq(Fragment))]
    BY <1>1 DEF TypeOK
  <2>2. new \in Seq(Seq(Fragment))
    BY <1>14
  <2>3. delivered' = [delivered EXCEPT ![n] = delivered[n] \o new]
    BY <1>11
  <2> HIDE DEF new
  <2>4. delivered[n] \o new \in Seq(Seq(Fragment))
    BY <2>1, <2>2
  <2> QED BY <2>1, <2>3, <2>4
<1>16. deliverLwe' \in [Node -> Seqs]
  <2>1. order # <<>> => SeqAdd(from, order[Len(order)] + 1) \in Seqs
    <3> SUFFICES ASSUME order # <<>> PROVE SeqAdd(from, order[Len(order)] + 1) \in Seqs
      OBVIOUS
    <3> HIDE DEF complete
    <3>1. Len(order) \in DOMAIN order
      BY <1>12
    <3>2. order[Len(order)] \in complete
      BY <1>13, <3>1
    <3>3. order[Len(order)] \in Nat
      BY <1>12, <3>2, Zenon
    <3>4. order[Len(order)] + 1 \in Int
      BY <3>3
    <3>5. from \in Int
      BY <1>5, SeqsAreInts
    <3> QED BY <3>4, <3>5, AddInSeqs
  <2> QED BY <1>1, <1>5, <1>11, <2>1 DEF TypeOK
<1>17. ackDirty' \in [Node -> BOOLEAN]
  BY <1>1 DEF RxData, TypeOK
<1> QED BY <1>2, <1>9, <1>10, <1>15, <1>16, <1>17
      DEF RxData, IInv, TypeOK, BusyHasHead, txVars, resetVars

LEMMA RxAckType == ASSUME IInv, NEW n \in Node, RxAck(n) PROVE IInv'
<1>1. TypeOK
  BY DEF IInv
<1> DEFINE f == Head(chan[n])
           advance == SeqDist(txLwe[n], f.rxLwe)
<1>2. chan' \in [Node -> Seq(Frame)] /\ f \in Frame
  BY <1>1, TakeType DEF RxAck, Arrived
<1>3. f.rxLwe \in Seqs
  BY <1>2 DEF RxAck, Arrived, Frame
<1>4. advance \in Nat
  <2>1. txLwe[n] \in Int /\ f.rxLwe \in Int
    BY <1>1, <1>3, SeqsAreInts DEF TypeOK
  <2>2. advance \in Seqs
    BY <2>1, DistInSeqs
  <2> QED BY <2>2 DEF Seqs
<1>5. txLwe' \in [Node -> Seqs] /\ txCount' \in [Node -> 0 .. MaxFragments]
  <2>1. CASE advance <= txCount[n]
    <3>1. /\ txLwe' = [txLwe EXCEPT ![n] = f.rxLwe]
          /\ txCount' = [txCount EXCEPT ![n] = txCount[n] - advance]
      BY <2>1 DEF RxAck
    <3>2. txCount[n] \in 0 .. MaxFragments /\ MaxFragments \in Nat
      BY <1>1 DEF TypeOK
    <3> HIDE DEF advance, f
    <3>3. txCount[n] - advance \in 0 .. MaxFragments
      BY <1>4, <2>1, <3>2
    <3> QED BY <1>1, <1>3, <3>1, <3>3 DEF TypeOK
  <2>2. CASE ~(advance <= txCount[n])
    <3>1. UNCHANGED <<txLwe, txCount>>
      BY <2>2 DEF RxAck
    <3> QED BY <1>1, <3>1 DEF TypeOK
  <2> QED BY <2>1, <2>2
<1>6. txWindow' \in [Node -> [Slots -> TxSlot \cup {NoTxSlot}]]
  <2> DEFINE new(i) == [txWindow[n][i] EXCEPT !.status = AckedStatus(n, f, txWindow[n][i])]
  <2>1. ASSUME NEW i \in Slots, txWindow[n][i] # NoTxSlot PROVE new(i) \in TxSlot
    <3> DEFINE s == txWindow[n][i]
    <3>1. s \in TxSlot
      BY <1>1, <2>1 DEF TypeOK
    <3>2. AckedStatus(n, f, s) \in {"ACKED", "NACKED", s.status}
      BY DEF AckedStatus
    <3>3. AckedStatus(n, f, s) \in {"ACKED", "NACKED", "SENT_WAIT_ACK"}
      BY <3>1, <3>2 DEF TxSlot
    <3> HIDE DEF s
    <3>4. [s EXCEPT !.status = AckedStatus(n, f, s)] \in TxSlot
      <4> DEFINE status == AckedStatus(n, f, s)
      <4> HIDE DEF status
      <4> QED BY <3>1, <3>3 DEF TxSlot, status
    <3> QED BY <3>4 DEF s
  <2>2. txWindow' = [txWindow EXCEPT ![n] = [i \in Slots |->
                       IF txWindow[n][i] = NoTxSlot THEN NoTxSlot ELSE new(i)]]
    BY <1>1 DEF RxAck, TypeOK
  <2> HIDE DEF new
  <2> QED BY <1>1, <2>1, <2>2 DEF TypeOK
<1> QED BY <1>2, <1>5, <1>6
      DEF RxAck, IInv, TypeOK, BusyHasHead, rxVars, resetVars, history

LEMMA RxResetType == ASSUME IInv, NEW n \in Node, RxReset(n) PROVE IInv'
<1>1. TypeOK /\ BusyHasHead
  BY DEF IInv
<1>2. chan' \in [Node -> Seq(Frame)] /\ Head(chan[n]) \in Frame
  BY <1>1, TakeType DEF RxReset, Arrived
<1>3. pendingTx' \in [Node -> Seq(Frame)]
  <2> DEFINE answer == [type |-> "RESET_ACK", frameId |-> Head(chan[n]).frameId]
  <2>1. answer \in Frame
    BY <1>2 DEF RxReset, Arrived, Frame
  <2>2. pendingTx' = [pendingTx EXCEPT ![n] = Append(pendingTx[n], answer)]
    BY DEF RxReset
  <2> HIDE DEF answer
  <2>3. Append(pendingTx[n], answer) \in Seq(Frame)
    BY <1>1, <2>1 DEF TypeOK
  <2> QED BY <1>1, <2>2, <2>3 DEF TypeOK
<1>4. ResetWindows(n) /\ txQueue' = [txQueue EXCEPT ![n] = <<>>]
  BY DEF RxReset, ResetFull
<1>5. TypeOK'
  <2>1. txQueue' \in [Node -> Seq(CPdu)]
    BY <1>1, <1>4 DEF TypeOK
  <2>2. UNCHANGED <<resetFrameId, submitted, delivered, confirmed, failed>>
    BY DEF RxReset, history
  <2>3. /\ resetFrameId' \in [Node -> 0 .. 255]
        /\ submitted' \in [Node -> Seq(1 .. MaxFragments)]
        /\ delivered' \in [Node -> Seq(Seq(Fragment))]
        /\ confirmed' \in [Node -> SUBSET Nat]
        /\ failed' \in [Node -> BOOLEAN]
    BY <1>1, <2>2 DEF TypeOK
  <2>4. ResetFieldsOK'
    BY <1>1, <1>4, ResetWindowsType
  <2> QED BY <1>2, <1>3, <2>1, <2>3, <2>4 DEF TypeOK, ResetFieldsOK
<1>6. BusyHasHead'
  BY <1>1, <1>4 DEF ResetWindows, BusyHasHead, TypeOK
<1> QED BY <1>5, <1>6 DEF IInv

LEMMA RxResetAckType == ASSUME IInv, NEW n \in Node, RxResetAck(n) PROVE IInv'
<1>1. TypeOK /\ BusyHasHead
  BY DEF IInv
<1>2. chan' \in [Node -> Seq(Frame)]
  BY <1>1, TakeType DEF RxResetAck, Arrived
<1>3. UNCHANGED <<txQueue, resetFrameId, pendingTx, submitted, delivered, confirmed, failed>>
  BY DEF RxResetAck, history
<1>4. CASE ResetWindows(n)
  <2>1. TypeOK'
    <3>1. /\ txQueue' \in [Node -> Seq(CPdu)] /\ resetFrameId' \in [Node -> 0 .. 255]
          /\ pendingTx' \in [Node -> Seq(Frame)]
      BY <1>1, <1>3 DEF TypeOK
    <3>2. /\ submitted' \in [Node -> Seq(1 .. MaxFragments)]
          /\ delivered' \in [Node -> Seq(Seq(Fragment))]
          /\ confirmed' \in [Node -> SUBSET Nat]
          /\ failed' \in [Node -> BOOLEAN]
      BY <1>1, <1>3 DEF TypeOK
    <3>3. ResetFieldsOK'
      BY <1>1, <1>4, ResetWindowsType
    <3> QED BY <1>2, <3>1, <3>2, <3>3 DEF TypeOK, ResetFieldsOK
  <2>2. BusyHasHead'
    BY <1>1, <1>3, <1>4 DEF ResetWindows, BusyHasHead, TypeOK
  <2> QED BY <2>1, <2>2 DEF IInv
<1>5. CASE UNCHANGED <<txState, txLwe, txCount, nextSeq, txWindow, rxVars, ackDirty, resetPending>>
  BY <1>1, <1>2, <1>3, <1>5 DEF IInv, TypeOK, BusyHasHead, rxVars
<1> QED BY <1>4, <1>5 DEF RxResetAck
-----------------------------------------------------------------------------
LEMMA InitType == ASSUME Init PROVE IInv
<1>1. MaxFragments \in Nat
  OBVIOUS
<1>2. ResetFrame(1) \in Frame
  BY DEF ResetFrame, Frame
<1>3. pendingTx \in [Node -> Seq(Frame)]
  BY <1>2 DEF Init
<1>4. TypeOK
  BY <1>1, <1>3, SeqsAreInts DEF Init, TypeOK
<1> QED BY <1>4 DEF Init, IInv, BusyHasHead

LEMMA NextType == ASSUME IInv, [Next]_vars PROVE IInv'
<1>1. CASE Next
  <2>1. PICK n \in Node : Submit(n) \/ ProcessTx(n) \/ ProcessRx(n) \/ Lose(n)
    BY <1>1 DEF Next
  <2>2. CASE Submit(n) \/ Lose(n)
    BY <2>2, SubmitType, LoseType
  <2>3. CASE ProcessTx(n)
    BY <2>3, TxSendType, TxConfirmType, TxTimeoutType, TxRetransmitType, TxGiveUpType, TxRestType
       DEF ProcessTx
  <2>4. CASE ProcessRx(n)
    BY <2>4, RxOutsideType, RxDamagedType, RxDataType, RxAckType, RxResetType, RxResetAckType
       DEF ProcessRx
  <2> QED BY <2>1, <2>2, <2>3, <2>4
<1>2. CASE UNCHANGED vars
  BY <1>2 DEF vars, txVars, rxVars, resetVars, history, IInv, TypeOK, BusyHasHead
<1> QED BY <1>1, <1>2

(* The invariant of the proof holds of every behaviour of the two engines. *)
THEOREM InvariantHolds == Spec => []IInv
  BY InitType, NextType, PTL DEF Spec

(* Every variable of both engines and of the link keeps its type in every  *)
(* behaviour, for every window, sequence space and retry limit the         *)
(* assumptions allow: no handler stores a sequence number, a slot or a     *)
(* frame out of range, whatever is lost, damaged, reset or given up.       *)
THEOREM TypeCorrect == Spec => []TypeOK
<1>1. IInv => TypeOK
  BY DEF IInv
<1> QED BY <1>1, InvariantHolds, PTL
=============================================================================
