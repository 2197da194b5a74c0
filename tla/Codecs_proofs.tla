---------------------------- MODULE Codecs_proofs ----------------------------
(***************************************************************************)
(* Proofs about the header of D_PDUs and its check, for every D_PDU that   *)
(* encode_dpdu encodes: what is sent is accepted, and a burst of up to 16  *)
(* inverted bits is not.  The registers of the two messages, the one sent  *)
(* and the one received, are followed bit by bit.                          *)
(***************************************************************************)
EXTENDS Codecs, Integers, TLAPS, WellFoundedInduction, SequenceTheorems

-----------------------------------------------------------------------------
Before == OpToRel(<, Nat)
LEMMA BeforeIs ==
  ASSUME NEW x \in Nat, NEW y \in Nat, x < y
  PROVE <<x, y>> \in Before
BY DEF Before, OpToRel

(* A set that has 0, and with each number the next, up to a bound, has all *)
(* the numbers up to it.                                                   *)
LEMMA UpTo ==
  ASSUME NEW N \in Nat, NEW Held, 0 \in Held, \A n \in 1 .. N : n - 1 \in Held => n \in Held
  PROVE 0 .. N \subseteq Held
<1> DEFINE Left == (0 .. N) \ Held
<1>1. CASE Left = {}
  BY <1>1
<1>2. CASE Left # {}
  <2>1. IsWellFoundedOn(Before, Nat)
    BY NatLessThanWellFounded DEF Before
  <2>2. Left \in SUBSET Nat
    OBVIOUS
  <2>3. PICK n \in Left : \A k \in Left : ~(<<k, n>> \in Before)
    BY <1>2, <2>1, <2>2, WFMin
  <2>4. n \in 1 .. N /\ n - 1 \in Nat /\ n - 1 < n
    BY <2>3
  <2>5. <<n - 1, n>> \in Before
    BY <2>4, BeforeIs
  <2>6. n - 1 \notin Left
    BY <2>3, <2>5
  <2>7. n - 1 \in Held
    BY <2>4, <2>6
  <2> QED BY <2>3, <2>4, <2>7
<1> QED BY <1>1, <1>2

IsRun(Elems, s, N, G, g) ==
  g \in [0 .. N -> Elems] /\ g[0] = s /\ \A n \in 1 .. N : g[n] = G[n][g[n - 1]]

(* A function is defined from each number to the next.                     *)
LEMMA RunExists ==
  ASSUME NEW Elems, NEW s \in Elems, NEW N \in Nat, NEW G \in [1 .. N -> [Elems -> Elems]]
  PROVE \E g : IsRun(Elems, s, N, G, g)
<1> DEFINE Held == {m \in 0 .. N : \E g : IsRun(Elems, s, m, G, g)}
<1>1. 0 \in Held
  <2>1. IsRun(Elems, s, 0, G, [n \in 0 .. 0 |-> s])
    BY DEF IsRun
  <2> QED BY <2>1
<1>2. ASSUME NEW m \in 1 .. N, m - 1 \in Held PROVE m \in Held
  <2>1. PICK g : IsRun(Elems, s, m - 1, G, g)
    BY <1>2
  <2> DEFINE h == [i \in 0 .. m |-> IF i = m THEN G[m][g[m - 1]] ELSE g[i]]
  <2>2. g \in [0 .. m - 1 -> Elems] /\ g[0] = s /\ \A n \in 1 .. m - 1 : g[n] = G[n][g[n - 1]]
    BY <2>1 DEF IsRun
  <2>3. G[m][g[m - 1]] \in Elems
    BY <2>2
  <2>4. h \in [0 .. m -> Elems] /\ h[0] = s
    BY <2>2, <2>3
  <2>5. ASSUME NEW n \in 1 .. m PROVE h[n] = G[n][h[n - 1]]
    <3>1. CASE n = m
      BY <3>1
    <3>2. CASE n # m
      BY <2>2, <3>2
    <3> QED BY <3>1, <3>2
  <2>6. IsRun(Elems, s, m, G, h)
    BY <2>4, <2>5 DEF IsRun
  <2> QED BY <2>6
<1>3. 0 .. N \subseteq Held
  <2> HIDE DEF Held
  <2> QED BY <1>1, <1>2, UpTo
<1> QED BY <1>3
-----------------------------------------------------------------------------
Registers == SUBSET (0 .. 15)
BitOf(octet, k) == (octet \div 2^k) % 2

LEMMA ShiftIs ==
  ASSUME NEW r \in Registers, NEW bit
  PROVE /\ Shift(r, bit, Poly16) \in Registers
        /\ \A j \in 0 .. 15 : j \in Shift(r, bit, Poly16)
             <=> ((j + 1 \in r) # (((0 \in r) # (bit = 1)) /\ j \in Poly16))
<1> DEFINE out == (0 \in r) # (bit = 1)
           moved == {i - 1 : i \in r \ {0}}
<1>1. moved \in Registers /\ \A j \in 0 .. 15 : j \in moved <=> j + 1 \in r
  <2>1. ASSUME NEW j \in 0 .. 15 PROVE j \in moved <=> j + 1 \in r
    <3>1. ASSUME j + 1 \in r PROVE j \in moved
      <4>1. (j + 1) - 1 = j /\ j + 1 # 0
        OBVIOUS
      <4> QED BY <3>1, <4>1
    <3>2. ASSUME j \in moved PROVE j + 1 \in r
      <4>1. PICK i \in r \ {0} : j = i - 1
        BY <3>2
      <4>2. j + 1 = i
        BY <4>1 DEF Registers
      <4> QED BY <4>1, <4>2
    <3> QED BY <3>1, <3>2
  <2>2. moved \in Registers
    BY DEF Registers
  <2> QED BY <2>1, <2>2
<1>2. Poly16 \in Registers
  BY DEF Poly16, Registers
<1>3. Shift(r, bit, Poly16) = IF out THEN (moved \ Poly16) \cup (Poly16 \ moved) ELSE moved
  BY DEF Shift
<1> HIDE DEF out, moved
<1>4. Shift(r, bit, Poly16) \in Registers
  BY <1>1, <1>2, <1>3 DEF Registers
<1>5. ASSUME NEW j \in 0 .. 15
      PROVE j \in Shift(r, bit, Poly16) <=> ((j + 1 \in r) # (out /\ j \in Poly16))
  <2>1. CASE out
    <3>1. j \in Shift(r, bit, Poly16) <=> ((j \in moved) # (j \in Poly16))
      BY <1>3, <2>1
    <3> QED BY <1>1, <2>1, <3>1
  <2>2. CASE ~out
    BY <1>1, <1>3, <2>2
  <2> QED BY <2>1, <2>2
<1> QED BY <1>4, <1>5 DEF out

(* The registers of two messages before bit q that differ in the places    *)
(* burst: until the first of them they are the same, and then they never   *)
(* differ in just what is left of the burst.                               *)
Apart(r, s, burst, first, q) ==
  \/ q <= first /\ r = s
  \/ q >= first /\ \E j \in 0 .. 15 : ((j \in r) # (j \in s)) # (q + j \in burst)

LEMMA ShiftApart ==
  ASSUME NEW first \in Nat, NEW burst \in SUBSET (first .. first + 15), first \in burst,
         NEW r \in Registers, NEW s \in Registers, NEW q \in Nat, NEW a, NEW b,
         Apart(r, s, burst, first, q),
         (b = 1) <=> ((a = 1) # (q \in burst))
  PROVE Apart(Shift(r, a, Poly16), Shift(s, b, Poly16), burst, first, q + 1)
<1> DEFINE rNext == Shift(r, a, Poly16)
           sNext == Shift(s, b, Poly16)
<1>1. rNext \in Registers /\ sNext \in Registers
  BY ShiftIs
<1>2. ASSUME NEW j \in 0 .. 15
      PROVE /\ j \in rNext <=> ((j + 1 \in r) # (((0 \in r) # (a = 1)) /\ j \in Poly16))
            /\ j \in sNext <=> ((j + 1 \in s) # (((0 \in s) # (b = 1)) /\ j \in Poly16))
  BY ShiftIs
<1> HIDE DEF rNext, sNext
<1>3. CASE q < first
  <2>1. r = s /\ q \notin burst
    BY <1>3 DEF Apart
  <2>2. \A j \in 0 .. 15 : j \in rNext <=> j \in sNext
    BY <1>2, <2>1
  <2>3. rNext = sNext
    BY <1>1, <2>2 DEF Registers
  <2> QED BY <1>3, <2>3 DEF Apart, rNext, sNext
<1>4. CASE q >= first
  <2>1. PICK j \in 0 .. 15 : ((j \in r) # (j \in s)) # (q + j \in burst)
    <3>1. CASE q = first /\ r = s
      <4>1. q + 0 \in burst
        BY <3>1
      <4> QED BY <3>1, <4>1
    <3>2. CASE ~(q = first /\ r = s)
      BY <1>4, <3>2 DEF Apart
    <3> QED BY <3>1, <3>2
  <2>2. SUFFICES \E i \in 0 .. 15 : ((i \in rNext) # (i \in sNext)) # ((q + 1) + i \in burst)
    BY <1>4 DEF Apart, rNext, sNext
  <2>3. CASE ((0 \in r) # (0 \in s)) # (q \in burst)
    <3>1. 15 \in Poly16 /\ 15 + 1 \notin r /\ 15 + 1 \notin s
      BY DEF Poly16, Registers
    <3>2. 15 \in rNext <=> ((0 \in r) # (a = 1))
      BY <1>2, <3>1
    <3>3. 15 \in sNext <=> ((0 \in s) # (b = 1))
      BY <1>2, <3>1
    <3>4. (q + 1) + 15 \notin burst
      BY <1>4
    <3> QED BY <2>3, <3>2, <3>3, <3>4
  <2>4. CASE ~(((0 \in r) # (0 \in s)) # (q \in burst))
    <3>1. q + 0 = q
      OBVIOUS
    <3>2. j # 0
      BY <2>1, <2>4, <3>1
    <3>3. PICK i \in 0 .. 15 : i + 1 = j
      <4>1. j - 1 \in 0 .. 15 /\ (j - 1) + 1 = j
        BY <3>2
      <4> QED BY <4>1
    <3>4. (q + 1) + i = q + j
      BY <3>3
    <3>5. i \in rNext <=> ((j \in r) # (((0 \in r) # (a = 1)) /\ i \in Poly16))
      BY <1>2, <3>3
    <3>6. i \in sNext <=> ((j \in s) # (((0 \in s) # (b = 1)) /\ i \in Poly16))
      BY <1>2, <3>3
    <3>7. ((0 \in r) # (a = 1)) <=> ((0 \in s) # (b = 1))
      BY <2>4
    <3>8. ((i \in rNext) # (i \in sNext)) <=> ((j \in r) # (j \in s))
      BY <3>5, <3>6, <3>7
    <3> QED BY <2>1, <3>4, <3>8
  <2> QED BY <2>3, <2>4
<1> QED BY <1>3, <1>4
-----------------------------------------------------------------------------
Powers == {1, 2, 4, 8, 16, 32, 64, 128}

LEMMA PowerIs ==
  ASSUME NEW k \in 0 .. 7
  PROVE 2^k \in Powers
<1>1. CASE k = 0
  BY <1>1 DEF Powers
<1>2. CASE k = 1
  BY <1>2 DEF Powers
<1>3. CASE k = 2
  BY <1>3 DEF Powers
<1>4. CASE k = 3
  BY <1>4 DEF Powers
<1>5. CASE k = 4
  BY <1>5 DEF Powers
<1>6. CASE k = 5
  BY <1>6 DEF Powers
<1>7. CASE k = 6
  BY <1>7 DEF Powers
<1>8. CASE k = 7
  BY <1>8 DEF Powers
<1> QED BY <1>1, <1>2, <1>3, <1>4, <1>5, <1>6, <1>7, <1>8

LEMMA BitIs ==
  ASSUME NEW o \in Int, NEW k \in 0 .. 7
  PROVE BitOf(o, k) \in {0, 1}
<1>2. PICK d \in Powers : d = 2^k
  BY PowerIs
<1>3. d \in Nat \ {0}
  BY <1>2 DEF Powers
<1>4. (o \div d) % 2 \in {0, 1}
  <2>1. o \div d \in Int
    BY <1>3
  <2> QED BY <2>1
<1> QED BY <1>2, <1>4 DEF BitOf

LEMMA ShiftOctetIs ==
  ASSUME NEW r \in Registers, NEW o
  PROVE \E g \in [0 .. 8 -> Registers] :
          /\ g[0] = r /\ \A k \in 1 .. 8 : g[k] = Shift(g[k - 1], BitOf(o, k - 1), Poly16)
          /\ ShiftOctet(r, o, Poly16) = g[8]
<1> DEFINE After(g) == [k \in 0 .. 8 |-> IF k = 0 THEN r ELSE Shift(g[k - 1], (o \div 2^(k - 1)) % 2, Poly16)]
           a == CHOOSE g : g = After(g)
           G == [k \in 1 .. 8 |-> [x \in Registers |-> Shift(x, BitOf(o, k - 1), Poly16)]]
<1>1. ShiftOctet(r, o, Poly16) = a[8]
  BY DEF ShiftOctet
<1>2. G \in [1 .. 8 -> [Registers -> Registers]]
  BY ShiftIs
<1>3. PICK h : IsRun(Registers, r, 8, G, h)
  <2> HIDE DEF G
  <2>1. 8 \in Nat
    OBVIOUS
  <2> QED BY <1>2, <2>1, RunExists
<1>4. h \in [0 .. 8 -> Registers] /\ h[0] = r
  BY <1>3 DEF IsRun
<1>5. h = After(h)
  <2>1. ASSUME NEW k \in 0 .. 8
        PROVE h[k] = IF k = 0 THEN r ELSE Shift(h[k - 1], (o \div 2^(k - 1)) % 2, Poly16)
    <3>1. CASE k = 0
      BY <1>4, <3>1
    <3>2. CASE k # 0
      <4>1. k \in 1 .. 8 /\ k - 1 \in 0 .. 8
        BY <3>2
      <4>2. h[k] = G[k][h[k - 1]] /\ h[k - 1] \in Registers
        BY <1>3, <1>4, <4>1 DEF IsRun
      <4>3. h[k] = Shift(h[k - 1], BitOf(o, k - 1), Poly16)
        BY <4>1, <4>2
      <4> QED BY <3>2, <4>3 DEF BitOf
    <3> QED BY <3>1, <3>2
  <2> QED BY <1>4, <2>1
<1>6. a = After(a)
  <2> HIDE DEF After
  <2> QED BY <1>5
<1> HIDE DEF a
<1>7. \A k \in 0 .. 8 : a[k] = IF k = 0 THEN r ELSE Shift(a[k - 1], (o \div 2^(k - 1)) % 2, Poly16)
  BY <1>6
<1>8. a[0] = r /\ \A k \in 1 .. 8 : a[k] = Shift(a[k - 1], BitOf(o, k - 1), Poly16)
  BY <1>7 DEF BitOf
<1>9. \A k \in 0 .. 8 : a[k] \in Registers
  <2> DEFINE Held == {k \in 0 .. 8 : a[k] \in Registers}
  <2>1. 0 \in Held
    BY <1>8
  <2>2. ASSUME NEW k \in 1 .. 8, k - 1 \in Held PROVE k \in Held
    BY <1>8, <2>2, ShiftIs
  <2>3. 0 .. 8 \subseteq Held
    <3> HIDE DEF Held
    <3> QED BY <2>1, <2>2, UpTo
  <2> QED BY <2>3
<1>10. DOMAIN a = 0 .. 8 /\ a = [k \in 0 .. 8 |-> a[k]]
  BY <1>6
<1>11. a \in [0 .. 8 -> Registers]
  BY <1>9, <1>10
<1> QED BY <1>1, <1>8, <1>11

LEMMA RegisterIs ==
  ASSUME NEW x, Len(x) \in Nat
  PROVE \E g \in [0 .. Len(x) -> Registers] :
          /\ g[0] = {} /\ \A n \in 1 .. Len(x) : g[n] = ShiftOctet(g[n - 1], x[n], Poly16)
          /\ Crc16(x) = g[Len(x)]
<1> DEFINE L == Len(x)
           After(g) ==
             [n \in 0 .. L |->
                IF n = 0 THEN {}
                ELSE [register \in SUBSET (0 .. 31) |-> ShiftOctet(register, x[n], Poly16)][g[n - 1]]]
           a == CHOOSE g : g = After(g)
           G == [n \in 1 .. L |-> [r \in Registers |-> ShiftOctet(r, x[n], Poly16)]]
<1>1. Crc16(x) = a[L]
  BY DEF Crc16, Register
<1>2. \A r \in Registers : \A o : ShiftOctet(r, o, Poly16) \in Registers
  BY ShiftOctetIs
<1>3. G \in [1 .. L -> [Registers -> Registers]]
  BY <1>2
<1> HIDE DEF L
<1>4. L \in Nat /\ {} \in Registers
  BY DEF L, Registers
<1>5. PICK h : IsRun(Registers, {}, L, G, h)
  <2> HIDE DEF G
  <2> QED BY <1>3, <1>4, RunExists
<1>6. \A r \in Registers : r \in SUBSET (0 .. 31)
  BY DEF Registers
<1>7. h \in [0 .. L -> Registers] /\ h[0] = {}
  BY <1>5 DEF IsRun
<1>8. h = After(h)
  <2>1. ASSUME NEW n \in 0 .. L
        PROVE h[n] = IF n = 0 THEN {}
                     ELSE [register \in SUBSET (0 .. 31) |-> ShiftOctet(register, x[n], Poly16)][h[n - 1]]
    <3>1. CASE n = 0
      BY <1>7, <3>1
    <3>2. CASE n # 0
      <4>1. n \in 1 .. L /\ n - 1 \in 0 .. L
        BY <1>4, <3>2
      <4>2. h[n] = G[n][h[n - 1]] /\ h[n - 1] \in Registers
        BY <1>5, <1>7, <4>1 DEF IsRun
      <4>3. h[n] = ShiftOctet(h[n - 1], x[n], Poly16) /\ h[n - 1] \in SUBSET (0 .. 31)
        BY <1>6, <4>1, <4>2
      <4> QED BY <3>2, <4>3
    <3> QED BY <3>1, <3>2
  <2> QED BY <1>7, <2>1
<1>9. a = After(a)
  <2> HIDE DEF After
  <2> QED BY <1>8
<1> HIDE DEF a
<1>10. \A n \in 0 .. L :
         a[n] = IF n = 0 THEN {}
                ELSE [register \in SUBSET (0 .. 31) |-> ShiftOctet(register, x[n], Poly16)][a[n - 1]]
  BY <1>9
<1>11. a[0] = {} /\ \A n \in 1 .. L : a[n - 1] \in Registers => a[n] = ShiftOctet(a[n - 1], x[n], Poly16)
  <2>1. 0 \in 0 .. L /\ \A n \in 1 .. L : n \in 0 .. L /\ n # 0
    BY <1>4
  <2>2. a[0] = {}
    BY <1>10, <2>1
  <2>3. ASSUME NEW n \in 1 .. L, a[n - 1] \in Registers PROVE a[n] = ShiftOctet(a[n - 1], x[n], Poly16)
    <3>1. a[n] = [register \in SUBSET (0 .. 31) |-> ShiftOctet(register, x[n], Poly16)][a[n - 1]]
      BY <1>10, <2>1
    <3>2. a[n - 1] \in SUBSET (0 .. 31)
      BY <1>6, <2>3
    <3> QED BY <3>1, <3>2
  <2> QED BY <2>2, <2>3
<1>12. \A n \in 0 .. L : a[n] \in Registers
  <2> DEFINE Held == {n \in 0 .. L : a[n] \in Registers}
  <2>1. 0 \in Held
    <3>1. 0 \in 0 .. L
      BY <1>4
    <3> QED BY <1>4, <1>11, <3>1
  <2>2. ASSUME NEW n \in 1 .. L, n - 1 \in Held PROVE n \in Held
    BY <1>2, <1>4, <1>11, <2>2
  <2>3. 0 .. L \subseteq Held
    <3> HIDE DEF Held
    <3> QED BY <1>4, <2>1, <2>2, UpTo
  <2> QED BY <2>3
<1>13. a = [n \in 0 .. L |-> a[n]]
  BY <1>9
<1>14. a \in [0 .. L -> Registers]
  BY <1>12, <1>13
<1>15. \A n \in 1 .. L : a[n] = ShiftOctet(a[n - 1], x[n], Poly16)
  BY <1>4, <1>11, <1>12
<1> QED BY <1>1, <1>11, <1>14, <1>15 DEF L

LEMMA OctetApart ==
  ASSUME NEW first \in Nat, NEW burst \in SUBSET (first .. first + 15), first \in burst,
         NEW r \in Registers, NEW s \in Registers, NEW q \in Nat, NEW a, NEW b,
         Apart(r, s, burst, first, q),
         \A k \in 0 .. 7 : (BitOf(b, k) = 1) <=> ((BitOf(a, k) = 1) # (q + k \in burst))
  PROVE Apart(ShiftOctet(r, a, Poly16), ShiftOctet(s, b, Poly16), burst, first, q + 8)
<1>1. PICK g \in [0 .. 8 -> Registers] :
        /\ g[0] = r /\ \A k \in 1 .. 8 : g[k] = Shift(g[k - 1], BitOf(a, k - 1), Poly16)
        /\ ShiftOctet(r, a, Poly16) = g[8]
  BY ShiftOctetIs
<1>2. PICK h \in [0 .. 8 -> Registers] :
        /\ h[0] = s /\ \A k \in 1 .. 8 : h[k] = Shift(h[k - 1], BitOf(b, k - 1), Poly16)
        /\ ShiftOctet(s, b, Poly16) = h[8]
  BY ShiftOctetIs
<1> DEFINE Held == {k \in 0 .. 8 : Apart(g[k], h[k], burst, first, q + k)}
<1>3. 0 \in Held
  <2>1. q + 0 = q
    OBVIOUS
  <2> QED BY <1>1, <1>2, <2>1
<1>4. ASSUME NEW k \in 1 .. 8, k - 1 \in Held PROVE k \in Held
  <2>1. PICK i \in 0 .. 7 : i = k - 1
    OBVIOUS
  <2>2. g[i] \in Registers /\ h[i] \in Registers /\ q + i \in Nat /\ (q + i) + 1 = q + k
    BY <2>1
  <2>3. Apart(g[i], h[i], burst, first, q + i)
    BY <1>4, <2>1
  <2>4. (BitOf(b, i) = 1) <=> ((BitOf(a, i) = 1) # (q + i \in burst))
    OBVIOUS
  <2>5. Apart(Shift(g[i], BitOf(a, i), Poly16), Shift(h[i], BitOf(b, i), Poly16), burst, first, (q + i) + 1)
    BY <2>2, <2>3, <2>4, ShiftApart
  <2>6. g[k] = Shift(g[i], BitOf(a, i), Poly16) /\ h[k] = Shift(h[i], BitOf(b, i), Poly16)
    BY <1>1, <1>2, <2>1
  <2>7. Apart(g[k], h[k], burst, first, q + k)
    BY <2>2, <2>5, <2>6
  <2> QED BY <2>7
<1>5. 0 .. 8 \subseteq Held
  <2> HIDE DEF Held
  <2> QED BY <1>3, <1>4, UpTo
<1> QED BY <1>1, <1>2, <1>5

(* The checks of two messages that differ by a burst.                      *)
LEMMA ChecksApart ==
  ASSUME NEW first \in Nat, NEW burst \in SUBSET (first .. first + 15), first \in burst,
         NEW x, NEW y, Len(x) \in Nat, Len(y) = Len(x),
         \A n \in 1 .. Len(x) : \A k \in 0 .. 7 :
           (BitOf(y[n], k) = 1) <=> ((BitOf(x[n], k) = 1) # (8 * (n - 1) + k \in burst))
  PROVE Apart(Crc16(x), Crc16(y), burst, first, 8 * Len(x))
<1>1. PICK g \in [0 .. Len(x) -> Registers] :
        /\ g[0] = {} /\ \A n \in 1 .. Len(x) : g[n] = ShiftOctet(g[n - 1], x[n], Poly16)
        /\ Crc16(x) = g[Len(x)]
  BY RegisterIs
<1>2. PICK h \in [0 .. Len(x) -> Registers] :
        /\ h[0] = {} /\ \A n \in 1 .. Len(x) : h[n] = ShiftOctet(h[n - 1], y[n], Poly16)
        /\ Crc16(y) = h[Len(x)]
  BY RegisterIs
<1> DEFINE Held == {n \in 0 .. Len(x) : Apart(g[n], h[n], burst, first, 8 * n)}
<1>3. 0 \in Held
  <2>1. 8 * 0 = 0 /\ 0 \in 0 .. Len(x)
    OBVIOUS
  <2>2. Apart(g[0], h[0], burst, first, 0)
    BY <1>1, <1>2 DEF Apart
  <2> QED BY <2>1, <2>2
<1>4. ASSUME NEW n \in 1 .. Len(x), n - 1 \in Held PROVE n \in Held
  <2>1. PICK i \in 0 .. Len(x) : i = n - 1
    OBVIOUS
  <2>2. PICK q \in Nat : q = 8 * i
    OBVIOUS
  <2>3. g[i] \in Registers /\ h[i] \in Registers
    BY <2>1
  <2>3a. q + 8 = 8 * n
    BY <2>1, <2>2
  <2>4. Apart(g[i], h[i], burst, first, q)
    BY <1>4, <2>1, <2>2
  <2>5. \A k \in 0 .. 7 : (BitOf(y[n], k) = 1) <=> ((BitOf(x[n], k) = 1) # (q + k \in burst))
    BY <2>1, <2>2
  <2>6. Apart(ShiftOctet(g[i], x[n], Poly16), ShiftOctet(h[i], y[n], Poly16), burst, first, q + 8)
    BY <2>3, <2>4, <2>5, OctetApart
  <2>7. Apart(g[n], h[n], burst, first, 8 * n)
    BY <1>1, <1>2, <2>1, <2>3a, <2>6
  <2> QED BY <2>7
<1>5. 0 .. Len(x) \subseteq Held
  <2> HIDE DEF Held
  <2> QED BY <1>3, <1>4, UpTo
<1>6. Len(x) \in Held
  <2> HIDE DEF Held
  <2>1. Len(x) \in 0 .. Len(x)
    OBVIOUS
  <2> QED BY <1>5, <2>1
<1> QED BY <1>1, <1>2, <1>6

-----------------------------------------------------------------------------
Binary == Seq({0, 1})

LEMMA NumberRun ==
  ASSUME NEW bits \in Binary
  PROVE \E g \in [0 .. Len(bits) -> Nat] :
          /\ g[0] = 0 /\ \A n \in 1 .. Len(bits) : g[n] = 2 * g[n - 1] + bits[n]
          /\ Number(bits) = g[Len(bits)]
<1> DEFINE L == Len(bits)
           After(g) == [n \in 0 .. L |-> IF n = 0 THEN 0 ELSE 2 * g[n - 1] + bits[n]]
           a == CHOOSE g : g = After(g)
           G == [n \in 1 .. L |-> [r \in Nat |-> 2 * r + bits[n]]]
<1>1. Number(bits) = a[L]
  BY DEF Number
<1>2. L \in Nat /\ \A n \in 1 .. L : bits[n] \in {0, 1}
  BY LenProperties, ElementOfSeq DEF Binary
<1> HIDE DEF L
<1>3. G \in [1 .. L -> [Nat -> Nat]]
  BY <1>2
<1>4. PICK h : IsRun(Nat, 0, L, G, h)
  <2> HIDE DEF G
  <2> QED BY <1>2, <1>3, RunExists
<1>5. h \in [0 .. L -> Nat] /\ h[0] = 0
  BY <1>4 DEF IsRun
<1>6. h = After(h)
  <2>1. ASSUME NEW n \in 0 .. L PROVE h[n] = IF n = 0 THEN 0 ELSE 2 * h[n - 1] + bits[n]
    <3>1. CASE n = 0
      BY <1>5, <3>1
    <3>2. CASE n # 0
      <4>1. n \in 1 .. L /\ n - 1 \in 0 .. L
        BY <1>2, <3>2
      <4>2. h[n] = G[n][h[n - 1]] /\ h[n - 1] \in Nat
        BY <1>4, <1>5, <4>1 DEF IsRun
      <4> QED BY <3>2, <4>1, <4>2
    <3> QED BY <3>1, <3>2
  <2> QED BY <1>5, <2>1
<1>7. a = After(a)
  <2> HIDE DEF After
  <2> QED BY <1>6
<1> HIDE DEF a
<1>8. \A n \in 0 .. L : a[n] = IF n = 0 THEN 0 ELSE 2 * a[n - 1] + bits[n]
  BY <1>7
<1>9. 0 \in 0 .. L /\ \A n \in 1 .. L : n \in 0 .. L /\ n # 0
  BY <1>2
<1>10. a[0] = 0 /\ \A n \in 1 .. L : a[n] = 2 * a[n - 1] + bits[n]
  BY <1>8, <1>9
<1>11. \A n \in 0 .. L : a[n] \in Nat
  <2> DEFINE Held == {n \in 0 .. L : a[n] \in Nat}
  <2>1. 0 \in Held
    BY <1>9, <1>10
  <2>2. ASSUME NEW n \in 1 .. L, n - 1 \in Held PROVE n \in Held
    BY <1>2, <1>9, <1>10, <2>2
  <2>3. 0 .. L \subseteq Held
    <3> HIDE DEF Held
    <3> QED BY <1>2, <2>1, <2>2, UpTo
  <2> QED BY <2>3
<1>12. a = [n \in 0 .. L |-> a[n]]
  BY <1>7
<1>13. a \in [0 .. L -> Nat]
  BY <1>11, <1>12
<1> QED BY <1>1, <1>10, <1>13 DEF L

(* A number is what its bits are.                                          *)
LEMMA NumberIs ==
  ASSUME NEW b \in Binary, Len(b) = 8
  PROVE /\ Number(b) \in 0 .. 255
        /\ \A k \in 1 .. 8 : BitOf(Number(b), 8 - k) = b[k]
        /\ Number(b) = 128 * b[1] + 64 * b[2] + 32 * b[3] + 16 * b[4]
                         + 8 * b[5] + 4 * b[6] + 2 * b[7] + b[8]
<1>1. PICK g \in [0 .. Len(b) -> Nat] :
        /\ g[0] = 0 /\ \A n \in 1 .. Len(b) : g[n] = 2 * g[n - 1] + b[n]
        /\ Number(b) = g[Len(b)]
  BY NumberRun
<1>2. \A n \in 1 .. 8 : b[n] \in {0, 1}
  BY ElementOfSeq DEF Binary
<1>3. /\ g[1] = b[1] /\ g[2] = 2 * g[1] + b[2] /\ g[3] = 2 * g[2] + b[3] /\ g[4] = 2 * g[3] + b[4]
      /\ g[5] = 2 * g[4] + b[5] /\ g[6] = 2 * g[5] + b[6] /\ g[7] = 2 * g[6] + b[7]
      /\ g[8] = 2 * g[7] + b[8]
  <2>1. ASSUME NEW n \in 1 .. 8 PROVE g[n] = 2 * g[n - 1] + b[n]
    BY <1>1
  <2>2. g[1] = 2 * g[0] + b[1]
    <3>1. g[1] = 2 * g[1 - 1] + b[1]
      BY <2>1
    <3> QED BY <3>1
  <2>3. /\ g[2] = 2 * g[2 - 1] + b[2] /\ g[3] = 2 * g[3 - 1] + b[3] /\ g[4] = 2 * g[4 - 1] + b[4]
        /\ g[5] = 2 * g[5 - 1] + b[5] /\ g[6] = 2 * g[6 - 1] + b[6] /\ g[7] = 2 * g[7 - 1] + b[7]
        /\ g[8] = 2 * g[8 - 1] + b[8]
    BY <2>1
  <2>4. g[1] = b[1]
    BY <1>1, <1>2, <2>2
  <2> QED BY <2>3, <2>4
<1>4. Number(b) = g[8]
  BY <1>1
<1>5. PICK b1 \in {0, 1}, b2 \in {0, 1}, b3 \in {0, 1}, b4 \in {0, 1},
           b5 \in {0, 1}, b6 \in {0, 1}, b7 \in {0, 1}, b8 \in {0, 1} :
        /\ b1 = b[1] /\ b2 = b[2] /\ b3 = b[3] /\ b4 = b[4]
        /\ b5 = b[5] /\ b6 = b[6] /\ b7 = b[7] /\ b8 = b[8]
  BY <1>2
<1>6. Number(b) = 128 * b1 + 64 * b2 + 32 * b3 + 16 * b4 + 8 * b5 + 4 * b6 + 2 * b7 + b8
  BY <1>3, <1>4, <1>5
<1>7. Number(b) \in 0 .. 255
  BY <1>6
<1>8. ASSUME NEW k \in 1 .. 8 PROVE BitOf(Number(b), 8 - k) = b[k]
  <2> DEFINE N == Number(b)
  <2>1. CASE k = 1
    <3>1. (N \div 128) % 2 = b1
      BY <1>6
    <3>2. BitOf(N, 8 - k) = (N \div 128) % 2
      BY <2>1 DEF BitOf
    <3> QED BY <1>5, <2>1, <3>1, <3>2
  <2>2. CASE k = 2
    <3>1. (N \div 64) % 2 = b2
      BY <1>6
    <3>2. BitOf(N, 8 - k) = (N \div 64) % 2
      BY <2>2 DEF BitOf
    <3> QED BY <1>5, <2>2, <3>1, <3>2
  <2>3. CASE k = 3
    <3>1. (N \div 32) % 2 = b3
      BY <1>6
    <3>2. BitOf(N, 8 - k) = (N \div 32) % 2
      BY <2>3 DEF BitOf
    <3> QED BY <1>5, <2>3, <3>1, <3>2
  <2>4. CASE k = 4
    <3>1. (N \div 16) % 2 = b4
      BY <1>6
    <3>2. BitOf(N, 8 - k) = (N \div 16) % 2
      BY <2>4 DEF BitOf
    <3> QED BY <1>5, <2>4, <3>1, <3>2
  <2>5. CASE k = 5
    <3>1. (N \div 8) % 2 = b5
      BY <1>6
    <3>2. BitOf(N, 8 - k) = (N \div 8) % 2
      BY <2>5 DEF BitOf
    <3> QED BY <1>5, <2>5, <3>1, <3>2
  <2>6. CASE k = 6
    <3>1. (N \div 4) % 2 = b6
      BY <1>6
    <3>2. BitOf(N, 8 - k) = (N \div 4) % 2
      BY <2>6 DEF BitOf
    <3> QED BY <1>5, <2>6, <3>1, <3>2
  <2>7. CASE k = 7
    <3>1. (N \div 2) % 2 = b7
      BY <1>6
    <3>2. BitOf(N, 8 - k) = (N \div 2) % 2
      BY <2>7 DEF BitOf
    <3> QED BY <1>5, <2>7, <3>1, <3>2
  <2>8. CASE k = 8
    <3>1. N % 2 = b8 /\ N \div 1 = N
      BY <1>6
    <3>2. BitOf(N, 8 - k) = (N \div 1) % 2
      BY <2>8 DEF BitOf
    <3> QED BY <1>5, <2>8, <3>1, <3>2
  <2> QED BY <2>1, <2>2, <2>3, <2>4, <2>5, <2>6, <2>7, <2>8
<1> QED BY <1>5, <1>6, <1>7, <1>8

LEMMA FunctionIsSeq ==
  ASSUME NEW Elems, NEW n \in Nat, NEW f \in [1 .. n -> Elems]
  PROVE f \in Seq(Elems) /\ Len(f) = n
OBVIOUS

LEMMA JoinedRun ==
  ASSUME NEW Elems, NEW seqs, Len(seqs) \in Nat, \A n \in 1 .. Len(seqs) : seqs[n] \in Seq(Elems)
  PROVE \E g \in [0 .. Len(seqs) -> Seq(Elems)] :
          /\ g[0] = <<>> /\ \A n \in 1 .. Len(seqs) : g[n] = g[n - 1] \o seqs[n]
          /\ Joined(seqs) = g[Len(seqs)]
<1> DEFINE L == Len(seqs)
           After(g) == [n \in 0 .. L |-> IF n = 0 THEN <<>> ELSE g[n - 1] \o seqs[n]]
           a == CHOOSE g : g = After(g)
           G == [n \in 1 .. L |-> [r \in Seq(Elems) |-> r \o seqs[n]]]
<1>1. Joined(seqs) = a[L]
  BY DEF Joined
<1>2. L \in Nat /\ (\A n \in 1 .. L : seqs[n] \in Seq(Elems)) /\ <<>> \in Seq(Elems)
  OBVIOUS
<1> HIDE DEF L
<1>3. \A n \in 1 .. L : \A r \in Seq(Elems) : r \o seqs[n] \in Seq(Elems)
  BY <1>2, ConcatProperties
<1>3a. G \in [1 .. L -> [Seq(Elems) -> Seq(Elems)]]
  BY <1>3
<1>4. PICK h : IsRun(Seq(Elems), <<>>, L, G, h)
  <2> HIDE DEF G
  <2> QED BY <1>2, <1>3a, RunExists
<1>5. h \in [0 .. L -> Seq(Elems)] /\ h[0] = <<>>
  BY <1>4 DEF IsRun
<1>6. h = After(h)
  <2>1. ASSUME NEW n \in 0 .. L PROVE h[n] = IF n = 0 THEN <<>> ELSE h[n - 1] \o seqs[n]
    <3>1. CASE n = 0
      BY <1>5, <3>1
    <3>2. CASE n # 0
      <4>1. n \in 1 .. L /\ n - 1 \in 0 .. L
        BY <1>2, <3>2
      <4>2. h[n] = G[n][h[n - 1]] /\ h[n - 1] \in Seq(Elems)
        BY <1>4, <1>5, <4>1 DEF IsRun
      <4> QED BY <3>2, <4>1, <4>2
    <3> QED BY <3>1, <3>2
  <2> QED BY <1>5, <2>1
<1>7. a = After(a)
  <2> HIDE DEF After
  <2> QED BY <1>6
<1> HIDE DEF a
<1>8. \A n \in 0 .. L : a[n] = IF n = 0 THEN <<>> ELSE a[n - 1] \o seqs[n]
  BY <1>7
<1>9. 0 \in 0 .. L /\ \A n \in 1 .. L : n \in 0 .. L /\ n # 0
  BY <1>2
<1>10. a[0] = <<>> /\ \A n \in 1 .. L : a[n] = a[n - 1] \o seqs[n]
  BY <1>8, <1>9
<1>11. \A n \in 0 .. L : a[n] \in Seq(Elems)
  <2> DEFINE Held == {n \in 0 .. L : a[n] \in Seq(Elems)}
  <2>1. 0 \in Held
    BY <1>2, <1>9, <1>10
  <2>2. ASSUME NEW n \in 1 .. L, n - 1 \in Held PROVE n \in Held
    <3>1. a[n - 1] \in Seq(Elems)
      BY <2>2
    <3> QED BY <1>3, <1>9, <1>10, <3>1
  <2>3. 0 .. L \subseteq Held
    <3> HIDE DEF Held
    <3> QED BY <1>2, <2>1, <2>2, UpTo
  <2> QED BY <2>3
<1>12. a = [n \in 0 .. L |-> a[n]]
  BY <1>7
<1>13. a \in [0 .. L -> Seq(Elems)]
  BY <1>11, <1>12
<1> QED BY <1>1, <1>10, <1>13 DEF L

LEMMA JoinedType ==
  ASSUME NEW Elems, NEW seqs, Len(seqs) \in Nat, \A n \in 1 .. Len(seqs) : seqs[n] \in Seq(Elems)
  PROVE Joined(seqs) \in Seq(Elems)
<1>1. PICK g \in [0 .. Len(seqs) -> Seq(Elems)] : Joined(seqs) = g[Len(seqs)]
  BY JoinedRun
<1>2. Len(seqs) \in 0 .. Len(seqs)
  OBVIOUS
<1> QED BY <1>1, <1>2

(* The octets of the bits of a layout.                                     *)
LEMMA OctetsAre ==
  ASSUME NEW bits \in Binary
  PROVE /\ Octets(bits) \in Seq(Nat) /\ Len(Octets(bits)) = Len(bits) \div 8
        /\ \A i \in 1 .. Len(bits) \div 8 : Octets(bits)[i] = Number(SubSeq(bits, 8 * i - 7, 8 * i))
<1>1. Len(bits) \in Nat
  BY LenProperties DEF Binary
<1>2. PICK n \in Nat : n = Len(bits) \div 8 /\ 8 * n <= Len(bits)
  BY <1>1
<1> DEFINE f == [i \in 1 .. n |-> Number(SubSeq(bits, 8 * i - 7, 8 * i))]
<1>3. ASSUME NEW i \in 1 .. n PROVE Number(SubSeq(bits, 8 * i - 7, 8 * i)) \in Nat
  <2>1. SubSeq(bits, 8 * i - 7, 8 * i) \in Binary
    BY <1>1, <1>2, SubSeqProperties DEF Binary
  <2>2. PICK s \in Binary : s = SubSeq(bits, 8 * i - 7, 8 * i)
    BY <2>1
  <2>3. Len(s) \in 0 .. Len(s)
    BY LenProperties DEF Binary
  <2>4. Number(s) \in Nat
    BY <2>3, NumberRun
  <2> QED BY <2>2, <2>4
<1>4. f \in [1 .. n -> Nat]
  BY <1>3
<1>5. f \in Seq(Nat) /\ Len(f) = n
  BY <1>4, FunctionIsSeq
<1>6. f \o <<>> = f
  BY <1>5, ConcatEmptySeq
<1>7. Octets(bits) = f
  BY <1>2, <1>6 DEF Octets, Kept
<1> QED BY <1>2, <1>5, <1>7

-----------------------------------------------------------------------------
(***************************************************************************)
(* What the layouts of D_PDUs write.                                       *)
(***************************************************************************)
LEMMA DivisorIs ==
  ASSUME NEW k \in 0 .. 31
  PROVE 2^k \in Nat \ {0}
<1>1. CASE k = 0
  BY <1>1
<1>2. CASE k = 1
  BY <1>2
<1>3. CASE k = 2
  BY <1>3
<1>4. CASE k = 3
  BY <1>4
<1>5. CASE k = 4
  BY <1>5
<1>6. CASE k = 5
  BY <1>6
<1>7. CASE k = 6
  BY <1>7
<1>8. CASE k = 7
  BY <1>8
<1>9. CASE k = 8
  BY <1>9
<1>10. CASE k = 9
  BY <1>10
<1>11. CASE k = 10
  BY <1>11
<1>12. CASE k = 11
  BY <1>12
<1>13. CASE k = 12
  BY <1>13
<1>14. CASE k = 13
  BY <1>14
<1>15. CASE k = 14
  BY <1>15
<1>16. CASE k = 15
  BY <1>16
<1>17. CASE k = 16
  BY <1>17
<1>18. CASE k = 17
  BY <1>18
<1>19. CASE k = 18
  BY <1>19
<1>20. CASE k = 19
  BY <1>20
<1>21. CASE k = 20
  BY <1>21
<1>22. CASE k = 21
  BY <1>22
<1>23. CASE k = 22
  BY <1>23
<1>24. CASE k = 23
  BY <1>24
<1>25. CASE k = 24
  BY <1>25
<1>26. CASE k = 25
  BY <1>26
<1>27. CASE k = 26
  BY <1>27
<1>28. CASE k = 27
  BY <1>28
<1>29. CASE k = 28
  BY <1>29
<1>30. CASE k = 29
  BY <1>30
<1>31. CASE k = 30
  BY <1>31
<1>32. CASE k = 31
  BY <1>32
<1> QED BY <1>1, <1>2, <1>3, <1>4, <1>5, <1>6, <1>7, <1>8, <1>9, <1>10, <1>11, <1>12, <1>13, <1>14, <1>15, <1>16, <1>17, <1>18, <1>19, <1>20, <1>21, <1>22, <1>23, <1>24, <1>25, <1>26, <1>27, <1>28, <1>29, <1>30, <1>31, <1>32

Names ==
  {"zero", "type", "eow", "eot", "addr_size", "hdr_size", "destination", "source",
   "pdu_start", "pdu_end", "deliver_in_order", "drop_pdu", "tx_uwe", "tx_lwe", "data_size",
   "tx_frame_seq", "cpdu_id", "group_address", "cpdu_size", "first_byte_position",
   "cpdu_reception_window", "rx_lwe", "full_reset_cmd", "reset_tx_win_req", "reset_rx_win_cmd",
   "reset_ack", "new_rx_lwe", "reset_frame_id", "extended", "valid_message", "message_ack",
   "management_frame_id", "received_dpdu_type", "reason"}
Pieces == [field : Names, hi : 0 .. 31, lo : 0 .. 31]

LEMMA BitsIs ==
  ASSUME NEW x \in Nat, NEW hi \in 0 .. 31, NEW lo \in 0 .. 31, lo <= hi
  PROVE Bits(x, hi, lo) \in Binary /\ Len(Bits(x, hi, lo)) = hi - lo + 1
<1>1. PICK n \in Nat : n = hi - lo + 1
  OBVIOUS
<1>2. ASSUME NEW k \in 1 .. n PROVE (x \div 2^(hi - k + 1)) % 2 \in {0, 1}
  <2>1. PICK e \in 0 .. 31 : e = hi - k + 1
    BY <1>1
  <2>2. PICK d \in Nat \ {0} : d = 2^e
    BY DivisorIs
  <2>3. x \div d \in Nat
    BY <2>2
  <2>4. (x \div d) % 2 \in {0, 1}
    BY <2>3
  <2> QED BY <2>1, <2>2, <2>4
<1>3. Bits(x, hi, lo) = [k \in 1 .. n |-> (x \div 2^(hi - k + 1)) % 2]
  BY <1>1 DEF Bits
<1>4. Bits(x, hi, lo) \in [1 .. n -> {0, 1}]
  BY <1>2, <1>3
<1> QED BY <1>1, <1>4, FunctionIsSeq DEF Binary

(* A layout: its pieces go down, and have values.                          *)
IsLayout(layout) == layout \in Seq(Pieces) /\ \A i \in 1 .. Len(layout) : layout[i].lo <= layout[i].hi

LEMMA PieceIs ==
  ASSUME NEW f \in Names, NEW hi \in 0 .. 31, NEW lo \in 0 .. 31, lo <= hi
  PROVE IsLayout(Piece(f, hi, lo))
<1>1. [field |-> f, hi |-> hi, lo |-> lo] \in Pieces
  BY DEF Pieces
<1>2. Piece(f, hi, lo) \in Seq(Pieces) /\ Len(Piece(f, hi, lo)) = 1
      /\ Piece(f, hi, lo)[1] = [field |-> f, hi |-> hi, lo |-> lo]
  BY <1>1 DEF Piece
<1> QED BY <1>2 DEF IsLayout

LEMMA FieldIs ==
  ASSUME NEW f \in Names, NEW w \in 1 .. 32
  PROVE IsLayout(Field(f, w))
<1>1. PICK hi \in 0 .. 31 : hi = w - 1
  OBVIOUS
<1>2. 0 \in 0 .. 31 /\ 0 <= hi
  OBVIOUS
<1> QED BY <1>1, <1>2, PieceIs DEF Field

LEMMA LayoutsJoin ==
  ASSUME NEW a, NEW b, IsLayout(a), IsLayout(b)
  PROVE IsLayout(a \o b)
<1>1. a \in Seq(Pieces) /\ b \in Seq(Pieces)
  BY DEF IsLayout
<1>2. a \o b \in Seq(Pieces) /\ Len(a \o b) = Len(a) + Len(b) /\ Len(a) \in Nat /\ Len(b) \in Nat
  BY <1>1, ConcatProperties, LenProperties
<1>3. ASSUME NEW i \in 1 .. Len(a) + Len(b) PROVE (a \o b)[i].lo <= (a \o b)[i].hi
  <2>1. (a \o b)[i] = IF i <= Len(a) THEN a[i] ELSE b[i - Len(a)]
    BY <1>1, ConcatProperties
  <2>2. CASE i <= Len(a)
    BY <1>2, <2>1, <2>2 DEF IsLayout
  <2>3. CASE ~(i <= Len(a))
    <3>1. i - Len(a) \in 1 .. Len(b)
      BY <1>2, <2>3
    <3> QED BY <2>1, <2>3, <3>1 DEF IsLayout
  <2> QED BY <2>2, <2>3
<1> QED BY <1>2, <1>3 DEF IsLayout

(* The flags of a header, whose names are given.                           *)
LEMMA FlagsAre ==
  ASSUME NEW names \in Seq(Names)
  PROVE IsLayout(Flags(names))
<1> DEFINE fields == [i \in DOMAIN names |-> Field(names[i], 1)]
           Elems == {p \in Pieces : p.lo <= p.hi}
<1>1. PICK n \in Nat : n = Len(names) /\ DOMAIN names = 1 .. n
  BY LenProperties
<1>2. ASSUME NEW i \in 1 .. n PROVE Field(names[i], 1) \in Seq(Elems)
  <2>1. names[i] \in Names
    BY <1>1, ElementOfSeq
  <2>2. PICK f \in Names : f = names[i]
    BY <2>1
  <2>3. [field |-> f, hi |-> 0, lo |-> 0] \in Elems
    BY DEF Pieces
  <2>4. Field(f, 1) = <<[field |-> f, hi |-> 0, lo |-> 0]>>
    BY DEF Field, Piece
  <2>5. PICK p \in Elems : Field(f, 1) = <<p>>
    <3> HIDE DEF Elems
    <3> QED BY <2>3, <2>4
  <2>6. <<p>> \in Seq(Elems)
    <3> HIDE DEF Elems
    <3> QED OBVIOUS
  <2> QED BY <2>2, <2>5, <2>6
<1>3. fields \in [1 .. n -> Seq(Elems)]
  BY <1>1, <1>2
<1>4. Len(fields) = n /\ \A i \in 1 .. n : fields[i] \in Seq(Elems)
  BY <1>3, FunctionIsSeq
<1>5. Joined(fields) \in Seq(Elems)
  <2> HIDE DEF fields, Elems
  <2> QED BY <1>1, <1>4, JoinedType
<1>6. Flags(names) \in Seq(Elems)
  BY <1>5 DEF Flags
<1>7. ASSUME NEW s \in Seq(Elems) PROVE s \in Seq(Pieces) /\ \A i \in 1 .. Len(s) : s[i].lo <= s[i].hi
  <2>1. \A i \in 1 .. Len(s) : s[i] \in Elems
    BY ElementOfSeq
  <2>2. s \in [1 .. Len(s) -> Pieces] /\ Len(s) \in Nat
    BY <2>1, LenProperties
  <2>3. s \in Seq(Pieces)
    BY <2>2, FunctionIsSeq
  <2> QED BY <2>1, <2>3
<1> QED BY <1>6, <1>7 DEF IsLayout

LEMMA HeadersAreLayouts ==
  ASSUME NEW type \in DOMAIN DpduTypes
  PROVE IsLayout(HeaderWritten[type])
<1>0. /\ "data_size" \in Names /\ "cpdu_id" \in Names /\ "zero" \in Names
      /\ "received_dpdu_type" \in Names /\ "reason" \in Names /\ "tx_frame_seq" \in Names
      /\ "rx_lwe" \in Names /\ "new_rx_lwe" \in Names /\ "reset_frame_id" \in Names
      /\ "management_frame_id" \in Names /\ "cpdu_size" \in Names
      /\ "first_byte_position" \in Names /\ "cpdu_reception_window" \in Names
  BY DEF Names
<1>1. /\ IsLayout(Piece("data_size", 9, 8)) /\ IsLayout(Piece("data_size", 7, 0))
      /\ IsLayout(Piece("cpdu_id", 11, 8)) /\ IsLayout(Piece("cpdu_id", 7, 0))
  <2>1. {0, 7, 8, 9, 11} \subseteq 0 .. 31 /\ 8 <= 9 /\ 0 <= 7 /\ 8 <= 11
    OBVIOUS
  <2>2. 0 \in 0 .. 31 /\ 7 \in 0 .. 31 /\ 8 \in 0 .. 31 /\ 9 \in 0 .. 31 /\ 11 \in 0 .. 31
    BY <2>1
  <2> QED BY <1>0, <2>1, <2>2, PieceIs
<1>2. /\ IsLayout(NotUsed(4)) /\ IsLayout(NotUsed(5)) /\ IsLayout(Field("cpdu_id", 4))
      /\ IsLayout(Field("received_dpdu_type", 4)) /\ IsLayout(Field("reason", 4))
  <2>1. 4 \in 1 .. 32 /\ 5 \in 1 .. 32
    OBVIOUS
  <2> QED BY <1>0, <2>1, FieldIs DEF NotUsed
<1>3. ASSUME NEW f \in Names PROVE IsLayout(Octet(f)) /\ IsLayout(BigEndian(f))
  <2>1. 8 \in 1 .. 32 /\ 16 \in 1 .. 32
    OBVIOUS
  <2> QED BY <2>1, FieldIs DEF Octet, BigEndian
<1>4. /\ IsLayout(Octet("tx_frame_seq")) /\ IsLayout(Octet("rx_lwe")) /\ IsLayout(Octet("new_rx_lwe"))
      /\ IsLayout(Octet("reset_frame_id")) /\ IsLayout(Octet("management_frame_id"))
      /\ IsLayout(BigEndian("cpdu_size")) /\ IsLayout(BigEndian("first_byte_position"))
      /\ IsLayout(BigEndian("cpdu_reception_window"))
  <2>1. IsLayout(Octet("tx_frame_seq"))
    BY <1>0, <1>3
  <2>2. IsLayout(Octet("rx_lwe"))
    BY <1>0, <1>3
  <2>3. IsLayout(Octet("new_rx_lwe"))
    BY <1>0, <1>3
  <2>4. IsLayout(Octet("reset_frame_id"))
    BY <1>0, <1>3
  <2>5. IsLayout(Octet("management_frame_id"))
    BY <1>0, <1>3
  <2>6. IsLayout(BigEndian("cpdu_size"))
    BY <1>0, <1>3
  <2>7. IsLayout(BigEndian("first_byte_position"))
    BY <1>0, <1>3
  <2>8. IsLayout(BigEndian("cpdu_reception_window"))
    BY <1>0, <1>3
  <2> QED BY <2>1, <2>2, <2>3, <2>4, <2>5, <2>6, <2>7, <2>8
<1>5. /\ IsLayout(Flags(<<"pdu_start", "pdu_end", "deliver_in_order", "drop_pdu", "tx_uwe", "tx_lwe">>))
      /\ IsLayout(Flags(<<"deliver_in_order", "group_address">>))
      /\ IsLayout(Flags(<<"full_reset_cmd", "reset_tx_win_req", "reset_rx_win_cmd", "reset_ack">>))
      /\ IsLayout(Flags(<<"pdu_start", "pdu_end">>))
      /\ IsLayout(Flags(<<"extended", "valid_message", "message_ack">>))
  <2>1. /\ <<"pdu_start", "pdu_end", "deliver_in_order", "drop_pdu", "tx_uwe", "tx_lwe">> \in Seq(Names)
        /\ <<"deliver_in_order", "group_address">> \in Seq(Names)
        /\ <<"full_reset_cmd", "reset_tx_win_req", "reset_rx_win_cmd", "reset_ack">> \in Seq(Names)
        /\ <<"pdu_start", "pdu_end">> \in Seq(Names)
        /\ <<"extended", "valid_message", "message_ack">> \in Seq(Names)
    <3>1. <<"pdu_start", "pdu_end", "deliver_in_order", "drop_pdu", "tx_uwe", "tx_lwe">> \in Seq(Names)
      BY DEF Names
    <3>2. <<"deliver_in_order", "group_address">> \in Seq(Names)
      BY DEF Names
    <3>3. <<"full_reset_cmd", "reset_tx_win_req", "reset_rx_win_cmd", "reset_ack">> \in Seq(Names)
      BY DEF Names
    <3>4. <<"pdu_start", "pdu_end">> \in Seq(Names)
      BY DEF Names
    <3>5. <<"extended", "valid_message", "message_ack">> \in Seq(Names)
      BY DEF Names
    <3> QED BY <3>1, <3>2, <3>3, <3>4, <3>5
  <2> QED BY <2>1, FlagsAre
<1>6. IsLayout(DataWritten)
  BY <1>1, <1>4, <1>5, LayoutsJoin DEF DataWritten
<1>7. IsLayout(NonArqWritten)
  BY <1>1, <1>4, <1>5, LayoutsJoin DEF NonArqWritten
<1>8. /\ IsLayout(DataWritten \o Octet("rx_lwe"))
      /\ IsLayout(Flags(<<"full_reset_cmd", "reset_tx_win_req", "reset_rx_win_cmd", "reset_ack">>)
                    \o NotUsed(4) \o Octet("new_rx_lwe") \o Octet("reset_frame_id"))
      /\ IsLayout(Flags(<<"pdu_start", "pdu_end">>) \o NotUsed(4) \o Piece("data_size", 9, 8)
                    \o Piece("data_size", 7, 0) \o Octet("tx_frame_seq")
                    \o NotUsed(4) \o Field("cpdu_id", 4))
      /\ IsLayout(NotUsed(5) \o Flags(<<"extended", "valid_message", "message_ack">>)
                    \o Octet("management_frame_id"))
      /\ IsLayout(Field("received_dpdu_type", 4) \o Field("reason", 4))
  BY <1>1, <1>2, <1>4, <1>5, <1>6, LayoutsJoin
<1>9. type \in {"DATA_ONLY", "ACK_ONLY", "DATA_ACK", "RESETWIN_RESYNC", "EXPEDITED_DATA_ONLY",
                "EXPEDITED_ACK_ONLY", "MANAGEMENT", "NON_ARQ", "EXPEDITED_NON_ARQ", "WARNING"}
  BY DEF DpduTypes
<1>10. CASE type \in {"DATA_ONLY", "NON_ARQ", "EXPEDITED_NON_ARQ", "ACK_ONLY", "EXPEDITED_ACK_ONLY"}
  BY <1>4, <1>6, <1>7, <1>10 DEF HeaderWritten
<1>11. CASE type = "DATA_ACK"
  <2>1. HeaderWritten[type] = DataWritten \o Octet("rx_lwe")
    BY <1>11 DEF HeaderWritten
  <2> QED BY <1>8, <2>1
<1>12. CASE type = "RESETWIN_RESYNC"
  <2>1. HeaderWritten[type] = Flags(<<"full_reset_cmd", "reset_tx_win_req", "reset_rx_win_cmd", "reset_ack">>)
                                       \o NotUsed(4) \o Octet("new_rx_lwe") \o Octet("reset_frame_id")
    BY <1>12 DEF HeaderWritten
  <2> QED BY <1>8, <2>1
<1>13. CASE type = "EXPEDITED_DATA_ONLY"
  <2>1. HeaderWritten[type] = Flags(<<"pdu_start", "pdu_end">>) \o NotUsed(4) \o Piece("data_size", 9, 8)
                                       \o Piece("data_size", 7, 0) \o Octet("tx_frame_seq")
                                       \o NotUsed(4) \o Field("cpdu_id", 4)
    BY <1>13 DEF HeaderWritten
  <2> QED BY <1>8, <2>1
<1>14. CASE type = "MANAGEMENT"
  <2>1. HeaderWritten[type] = NotUsed(5) \o Flags(<<"extended", "valid_message", "message_ack">>)
                                       \o Octet("management_frame_id")
    BY <1>14 DEF HeaderWritten
  <2> QED BY <1>8, <2>1
<1>15. CASE type = "WARNING"
  <2>1. HeaderWritten[type] = Field("received_dpdu_type", 4) \o Field("reason", 4)
    BY <1>15 DEF HeaderWritten
  <2> QED BY <1>8, <2>1
<1> QED BY <1>9, <1>10, <1>11, <1>12, <1>13, <1>14, <1>15

(* Values for the fields of a layout.                                      *)
HasValues(layout, v) == \A i \in 1 .. Len(layout) : Values(v)[layout[i].field] \in Nat

LEMMA ValuesAre ==
  ASSUME NEW layout, IsLayout(layout), NEW v, \A f \in Fields(layout) : f \in DOMAIN v /\ v[f] \in Nat
  PROVE HasValues(layout, v)
<1>1. layout \in Seq(Pieces) /\ DOMAIN layout = 1 .. Len(layout)
  BY LenProperties DEF IsLayout
<1>2. ASSUME NEW i \in 1 .. Len(layout) PROVE Values(v)[layout[i].field] \in Nat
  <2>1. PICK f : f = layout[i].field
    OBVIOUS
  <2>2. CASE f = "zero"
    BY <2>1, <2>2 DEF Values
  <2>3. CASE f # "zero"
    <3>1. f \in Fields(layout)
      BY <1>1, <2>1, <2>3 DEF Fields
    <3> QED BY <2>1, <2>3, <3>1 DEF Values
  <2> QED BY <2>2, <2>3
<1> QED BY <1>2 DEF HasValues

Written(layout, v) ==
  [i \in DOMAIN layout |-> Bits(Values(v)[layout[i].field], layout[i].hi, layout[i].lo)]

LEMMA WrittenIs ==
  ASSUME NEW layout, IsLayout(layout), NEW v, HasValues(layout, v)
  PROVE /\ Len(Written(layout, v)) = Len(layout) /\ Len(layout) \in Nat
        /\ \A i \in 1 .. Len(layout) :
             /\ Written(layout, v)[i] = Bits(Values(v)[layout[i].field], layout[i].hi, layout[i].lo)
             /\ Written(layout, v)[i] \in Binary
             /\ Len(Written(layout, v)[i]) = layout[i].hi - layout[i].lo + 1
<1>1. layout \in Seq(Pieces) /\ Len(layout) \in Nat /\ DOMAIN layout = 1 .. Len(layout)
  BY LenProperties DEF IsLayout
<1>2. ASSUME NEW i \in 1 .. Len(layout)
      PROVE /\ Bits(Values(v)[layout[i].field], layout[i].hi, layout[i].lo) \in Binary
            /\ Len(Bits(Values(v)[layout[i].field], layout[i].hi, layout[i].lo))
                 = layout[i].hi - layout[i].lo + 1
  <2>1. layout[i] \in Pieces /\ layout[i].lo <= layout[i].hi
    BY <1>1, ElementOfSeq DEF IsLayout
  <2>2. PICK hi \in 0 .. 31, lo \in 0 .. 31 : hi = layout[i].hi /\ lo = layout[i].lo
    BY <2>1 DEF Pieces
  <2>3. PICK x \in Nat : x = Values(v)[layout[i].field]
    BY DEF HasValues
  <2>4. lo <= hi
    BY <2>1, <2>2
  <2> QED BY <2>2, <2>3, <2>4, BitsIs
<1>3. Written(layout, v) = [i \in 1 .. Len(layout) |->
        Bits(Values(v)[layout[i].field], layout[i].hi, layout[i].lo)]
  BY <1>1 DEF Written
<1>4. Written(layout, v) \in [1 .. Len(layout) -> Binary]
  BY <1>2, <1>3
<1>5. Len(Written(layout, v)) = Len(layout)
  BY <1>1, <1>4, FunctionIsSeq
<1> QED BY <1>1, <1>2, <1>3, <1>5

LEMMA WriteIs ==
  ASSUME NEW layout, IsLayout(layout), NEW v, HasValues(layout, v)
  PROVE /\ Joined(Written(layout, v)) \in Binary
        /\ Write(layout, v) = Octets(Joined(Written(layout, v)))
        /\ Write(layout, v) \in Seq(Nat)
<1>1. Joined(Written(layout, v)) \in Binary
  BY WrittenIs, JoinedType DEF Binary
<1>2. Write(layout, v) = Octets(Joined(Written(layout, v)))
  BY DEF Write, Written
<1> QED BY <1>1, <1>2, OctetsAre

-----------------------------------------------------------------------------
(***************************************************************************)
(* The header of a D_PDU.                                                  *)
(***************************************************************************)
LEMMA AddressSizeIs ==
  ASSUME NEW a \in 0 .. 2^28 - 1, NEW b \in 0 .. 2^28 - 1
  PROVE AddressSize(a, b) \in 1 .. 7
<1> DEFINE Fits(n) == a < 16^n /\ b < 16^n /\ (n = 1 \/ a >= 16^(n - 1) \/ b >= 16^(n - 1))
<1>1. /\ 16^1 = 16 /\ 16^2 = 256 /\ 16^3 = 4096 /\ 16^4 = 65536 /\ 16^5 = 1048576
      /\ 16^6 = 16777216 /\ 16^7 = 268435456 /\ 2^28 = 268435456
  OBVIOUS
<1>2. a \in Nat /\ b \in Nat /\ a < 268435456 /\ b < 268435456
  BY <1>1
<1>3. /\ 2 - 1 = 1 /\ 3 - 1 = 2 /\ 4 - 1 = 3 /\ 5 - 1 = 4 /\ 6 - 1 = 5 /\ 7 - 1 = 6
  OBVIOUS
<1>100. (\E n \in 1 .. 7 : Fits(n)) => AddressSize(a, b) \in 1 .. 7
  <2>1. AddressSize(a, b) = CHOOSE n \in 1 .. 7 : Fits(n)
    BY DEF AddressSize
  <2> HIDE DEF Fits
  <2> QED BY <2>1
<1>4. CASE a < 16 /\ b < 16
  <2>1. Fits(1)
    BY <1>1, <1>4
  <2> HIDE DEF Fits
  <2>2. \E n \in 1 .. 7 : Fits(n)
    BY <2>1
  <2> QED BY <2>2, <1>100
<1>5. CASE (a >= 16 \/ b >= 16) /\ a < 256 /\ b < 256
  <2>1. Fits(2)
    BY <1>1, <1>3, <1>5
  <2> HIDE DEF Fits
  <2>2. \E n \in 1 .. 7 : Fits(n)
    BY <2>1
  <2> QED BY <2>2, <1>100
<1>6. CASE (a >= 256 \/ b >= 256) /\ a < 4096 /\ b < 4096
  <2>1. Fits(3)
    BY <1>1, <1>3, <1>6
  <2> HIDE DEF Fits
  <2>2. \E n \in 1 .. 7 : Fits(n)
    BY <2>1
  <2> QED BY <2>2, <1>100
<1>7. CASE (a >= 4096 \/ b >= 4096) /\ a < 65536 /\ b < 65536
  <2>1. Fits(4)
    BY <1>1, <1>3, <1>7
  <2> HIDE DEF Fits
  <2>2. \E n \in 1 .. 7 : Fits(n)
    BY <2>1
  <2> QED BY <2>2, <1>100
<1>8. CASE (a >= 65536 \/ b >= 65536) /\ a < 1048576 /\ b < 1048576
  <2>1. Fits(5)
    BY <1>1, <1>3, <1>8
  <2> HIDE DEF Fits
  <2>2. \E n \in 1 .. 7 : Fits(n)
    BY <2>1
  <2> QED BY <2>2, <1>100
<1>9. CASE (a >= 1048576 \/ b >= 1048576) /\ a < 16777216 /\ b < 16777216
  <2>1. Fits(6)
    BY <1>1, <1>3, <1>9
  <2> HIDE DEF Fits
  <2>2. \E n \in 1 .. 7 : Fits(n)
    BY <2>1
  <2> QED BY <2>2, <1>100
<1>10. CASE (a >= 16777216 \/ b >= 16777216) /\ a < 268435456 /\ b < 268435456
  <2>1. Fits(7)
    BY <1>1, <1>3, <1>10
  <2> HIDE DEF Fits
  <2>2. \E n \in 1 .. 7 : Fits(n)
    BY <2>1
  <2> QED BY <2>2, <1>100
<1> QED BY <1>2, <1>4, <1>5, <1>6, <1>7, <1>8, <1>9, <1>10

LEMMA SeqOfMore ==
  ASSUME NEW Elems, NEW Left, Elems \subseteq Left, NEW s \in Seq(Elems)
  PROVE s \in Seq(Left)
<1>1. s \in [1 .. Len(s) -> Elems] /\ Len(s) \in Nat
  BY LenProperties
<1>2. s \in [1 .. Len(s) -> Left]
  BY <1>1
<1> QED BY <1>1, <1>2, FunctionIsSeq

LEMMA OctetsAreNumbers ==
  ASSUME NEW s \in Seq(0 .. 255)
  PROVE s \in Seq(Nat)
<1>1. 0 .. 255 \subseteq Nat
  OBVIOUS
<1> QED BY <1>1, SeqOfMore

LEMMA TypeSpecificIs ==
  ASSUME NEW d, Encodable(d)
  PROVE TypeSpecific(d) \in Seq(Nat) /\ HeaderSize(d) \in 6 .. 31
        /\ Len(TypeSpecific(d)) = HeaderSize(d) - 6
<1> DEFINE v == [f \in DOMAIN d.v \cup DOMAIN OfData(d) |-> IF f \in DOMAIN d.v THEN d.v[f] ELSE OfData(d)[f]]
           layout == HeaderWritten[d.type]
<1>1. /\ d.type \in DOMAIN DpduTypes /\ d.sel_acks \in Seq(0 .. 255) /\ d.user_data \in Seq(0 .. 255)
      /\ (\A f \in DOMAIN d.v : d.v[f] \in Nat) /\ HeaderSize(d) <= 31
      /\ Fields(layout) \subseteq DOMAIN d.v \cup DOMAIN OfData(d)
  BY DEF Encodable
<1>2. \A f \in DOMAIN OfData(d) : OfData(d)[f] \in Nat
  <2>1. Len(d.user_data) \in Nat
    BY <1>1, LenProperties
  <2> QED BY <2>1 DEF OfData
<1>3. \A f \in Fields(layout) : f \in DOMAIN v /\ v[f] \in Nat
  <2> HIDE DEF layout
  <2> QED BY <1>1, <1>2
<1>4. IsLayout(layout)
  BY <1>1, HeadersAreLayouts
<1>5. Write(layout, v) \in Seq(Nat)
  <2> HIDE DEF layout, v
  <2> QED BY <1>3, <1>4, ValuesAre, WriteIs
<1>6. HeaderTail(d) \in Seq(Nat)
  <2>1. HeaderTail(d) \in Seq(0 .. 255)
    BY <1>1 DEF HeaderTail
  <2> QED BY <2>1, OctetsAreNumbers
<1>7. TypeSpecific(d) = Write(layout, v) \o HeaderTail(d)
  BY DEF TypeSpecific
<1> HIDE DEF layout, v
<1>8. TypeSpecific(d) \in Seq(Nat)
  BY <1>5, <1>6, <1>7, ConcatProperties
<1>9. Len(TypeSpecific(d)) \in Nat
  BY <1>8, LenProperties
<1>10. PICK n \in Nat : n = Len(TypeSpecific(d))
  BY <1>9
<1>11. HeaderSize(d) = 4 + n + 2
  BY <1>10 DEF HeaderSize
<1>12. HeaderSize(d) \in 6 .. 31 /\ n = HeaderSize(d) - 6
  BY <1>1, <1>11
<1> QED BY <1>8, <1>10, <1>12

LEMMA AppendedIs ==
  ASSUME NEW Elems, NEW s \in Seq(Elems), NEW p \in Elems, NEW n \in Nat, Len(s) = n, NEW t, t = s \o <<p>>
  PROVE t \in Seq(Elems) /\ Len(t) = n + 1 /\ (\A i \in 1 .. n : t[i] = s[i]) /\ t[n + 1] = p
<1>1. <<p>> \in Seq(Elems) /\ Len(<<p>>) = 1 /\ <<p>>[1] = p
  <2>1. <<p>> \in Seq(Elems)
    OBVIOUS
  <2>2. Len(<<p>>) = 1 /\ <<p>>[1] = p
    OBVIOUS
  <2> QED BY <2>1, <2>2
<1>2. PICK u \in Seq(Elems) : u = <<p>>
  BY <1>1
<1>3. Len(u) = 1 /\ u[1] = p
  BY <1>1, <1>2
<1>4. /\ s \o u \in Seq(Elems) /\ Len(s \o u) = Len(s) + Len(u)
      /\ \A i \in 1 .. Len(s) + Len(u) : (s \o u)[i] = IF i <= Len(s) THEN s[i] ELSE u[i - Len(s)]
  BY ConcatProperties
<1>5. t \in Seq(Elems) /\ Len(t) = n + 1 /\ \A i \in 1 .. n + 1 : t[i] = IF i <= n THEN s[i] ELSE u[i - n]
  BY <1>2, <1>3, <1>4
<1>6. \A i \in 1 .. n : t[i] = s[i]
  BY <1>5
<1>7. n + 1 \in 1 .. n + 1 /\ ~(n + 1 <= n) /\ (n + 1) - n = 1
  OBVIOUS
<1>8. t[n + 1] = p
  BY <1>3, <1>5, <1>7
<1> QED BY <1>5, <1>6, <1>8

LEMMA CommonIs ==
  ASSUME NEW size \in 1 .. 7
  PROVE /\ IsLayout(Common \o Addresses(size)) /\ Len(Common \o Addresses(size)) = 7
        /\ (Common \o Addresses(size))[1] = [field |-> "type", hi |-> 3, lo |-> 0]
        /\ (Common \o Addresses(size))[2] = [field |-> "eow", hi |-> 11, lo |-> 0]
        /\ (Common \o Addresses(size))[3] = [field |-> "eot", hi |-> 7, lo |-> 0]
        /\ (Common \o Addresses(size))[4] = [field |-> "addr_size", hi |-> 2, lo |-> 0]
        /\ (Common \o Addresses(size))[5] = [field |-> "hdr_size", hi |-> 4, lo |-> 0]
        /\ (Common \o Addresses(size))[6] = [field |-> "destination", hi |-> 4 * size - 1, lo |-> 0]
        /\ (Common \o Addresses(size))[7] = [field |-> "source", hi |-> 4 * size - 1, lo |-> 0]
<1>1. /\ Field("type", 4) = <<[field |-> "type", hi |-> 3, lo |-> 0]>>
      /\ Field("eow", 12) = <<[field |-> "eow", hi |-> 11, lo |-> 0]>>
      /\ Octet("eot") = <<[field |-> "eot", hi |-> 7, lo |-> 0]>>
      /\ Field("addr_size", 3) = <<[field |-> "addr_size", hi |-> 2, lo |-> 0]>>
      /\ Field("hdr_size", 5) = <<[field |-> "hdr_size", hi |-> 4, lo |-> 0]>>
  BY DEF Field, Piece, Octet
<1>2. /\ Field("destination", 4 * size) = <<[field |-> "destination", hi |-> 4 * size - 1, lo |-> 0]>>
      /\ Field("source", 4 * size) = <<[field |-> "source", hi |-> 4 * size - 1, lo |-> 0]>>
  BY DEF Field, Piece
<1>3. /\ "type" \in Names /\ "eow" \in Names /\ "eot" \in Names /\ "addr_size" \in Names
      /\ "hdr_size" \in Names /\ "destination" \in Names /\ "source" \in Names
  BY DEF Names
<1>4. PICK w \in 1 .. 32 : w = 4 * size
  OBVIOUS
<1>5. 3 \in 1 .. 32 /\ 4 \in 1 .. 32 /\ 5 \in 1 .. 32 /\ 8 \in 1 .. 32 /\ 12 \in 1 .. 32
  OBVIOUS
<1>6. IsLayout(Field("destination", 4 * size)) /\ IsLayout(Field("source", 4 * size))
  BY <1>3, <1>4, FieldIs
<1>7. /\ IsLayout(Field("type", 4)) /\ IsLayout(Field("eow", 12)) /\ IsLayout(Octet("eot"))
      /\ IsLayout(Field("addr_size", 3)) /\ IsLayout(Field("hdr_size", 5))
  BY <1>3, <1>5, FieldIs DEF Octet
<1>8. IsLayout(Common \o Addresses(size))
  BY <1>6, <1>7, LayoutsJoin DEF Common, Addresses
<1>9a. PICK p1 \in Pieces : p1 = [field |-> "type", hi |-> 3, lo |-> 0]
  <2>1. [field |-> "type", hi |-> 3, lo |-> 0] \in Pieces
    BY <1>3 DEF Pieces
  <2> QED BY <2>1
<1>9b. PICK p2 \in Pieces : p2 = [field |-> "eow", hi |-> 11, lo |-> 0]
  <2>1. [field |-> "eow", hi |-> 11, lo |-> 0] \in Pieces
    BY <1>3 DEF Pieces
  <2> QED BY <2>1
<1>9c. PICK p3 \in Pieces : p3 = [field |-> "eot", hi |-> 7, lo |-> 0]
  <2>1. [field |-> "eot", hi |-> 7, lo |-> 0] \in Pieces
    BY <1>3 DEF Pieces
  <2> QED BY <2>1
<1>9d. PICK p4 \in Pieces : p4 = [field |-> "addr_size", hi |-> 2, lo |-> 0]
  <2>1. [field |-> "addr_size", hi |-> 2, lo |-> 0] \in Pieces
    BY <1>3 DEF Pieces
  <2> QED BY <2>1
<1>9e. PICK p5 \in Pieces : p5 = [field |-> "hdr_size", hi |-> 4, lo |-> 0]
  <2>1. [field |-> "hdr_size", hi |-> 4, lo |-> 0] \in Pieces
    BY <1>3 DEF Pieces
  <2> QED BY <2>1
<1>9f. PICK p6 \in Pieces : p6 = [field |-> "destination", hi |-> 4 * size - 1, lo |-> 0]
  <2>1. [field |-> "destination", hi |-> 4 * size - 1, lo |-> 0] \in Pieces
    BY <1>3 DEF Pieces
  <2> QED BY <2>1
<1>9g. PICK p7 \in Pieces : p7 = [field |-> "source", hi |-> 4 * size - 1, lo |-> 0]
  <2>1. [field |-> "source", hi |-> 4 * size - 1, lo |-> 0] \in Pieces
    BY <1>3 DEF Pieces
  <2> QED BY <2>1
<1>9. /\ p1 = [field |-> "type", hi |-> 3, lo |-> 0]
      /\ p2 = [field |-> "eow", hi |-> 11, lo |-> 0]
      /\ p3 = [field |-> "eot", hi |-> 7, lo |-> 0]
      /\ p4 = [field |-> "addr_size", hi |-> 2, lo |-> 0]
      /\ p5 = [field |-> "hdr_size", hi |-> 4, lo |-> 0]
      /\ p6 = [field |-> "destination", hi |-> 4 * size - 1, lo |-> 0]
      /\ p7 = [field |-> "source", hi |-> 4 * size - 1, lo |-> 0]
  BY <1>9a, <1>9b, <1>9c, <1>9d, <1>9e, <1>9f, <1>9g
<1>10. PICK c : c = Common
  OBVIOUS
<1>11. PICK a : a = Addresses(size)
  OBVIOUS
<1>12. c = <<p1>> \o <<p2>> \o <<p3>> \o <<p4>> \o <<p5>>
  BY <1>1, <1>9, <1>10 DEF Common
<1>13. a = <<p6>> \o <<p7>>
  BY <1>2, <1>9, <1>11 DEF Addresses
<1>14. c \in Seq(Pieces) /\ Len(c) = 5 /\ c[1] = p1 /\ c[2] = p2 /\ c[3] = p3 /\ c[4] = p4 /\ c[5] = p5
  <2>1. PICK s1 : s1 = <<p1>>
    OBVIOUS
  <2>2. s1 \in Seq(Pieces) /\ Len(s1) = 1 /\ s1[1] = p1
    BY <2>1
  <2>3. PICK s2 : s2 = s1 \o <<p2>>
    OBVIOUS
  <2>4. s2 \in Seq(Pieces) /\ Len(s2) = 1 + 1 /\ (\A i \in 1 .. 1 : s2[i] = s1[i]) /\ s2[1 + 1] = p2
    <3>1. PICK m \in Nat : m = 1
      OBVIOUS
    <3>2. s1 \in Seq(Pieces) /\ Len(s1) = m
      BY <2>2, <3>1
    <3>3. s2 \in Seq(Pieces) /\ Len(s2) = m + 1 /\ (\A i \in 1 .. m : s2[i] = s1[i]) /\ s2[m + 1] = p2
      BY <2>3, <3>2, AppendedIs
    <3> QED BY <3>1, <3>3
  <2>5. s2 \in Seq(Pieces) /\ Len(s2) = 2 /\ s2[1] = p1 /\ s2[2] = p2
    BY <2>2, <2>4
  <2>6. PICK s3 : s3 = s2 \o <<p3>>
    OBVIOUS
  <2>7. s3 \in Seq(Pieces) /\ Len(s3) = 2 + 1 /\ (\A i \in 1 .. 2 : s3[i] = s2[i]) /\ s3[2 + 1] = p3
    <3>1. PICK m \in Nat : m = 2
      OBVIOUS
    <3>2. s2 \in Seq(Pieces) /\ Len(s2) = m
      BY <2>5, <3>1
    <3>3. s3 \in Seq(Pieces) /\ Len(s3) = m + 1 /\ (\A i \in 1 .. m : s3[i] = s2[i]) /\ s3[m + 1] = p3
      BY <2>6, <3>2, AppendedIs
    <3> QED BY <3>1, <3>3
  <2>8. s3 \in Seq(Pieces) /\ Len(s3) = 3 /\ s3[1] = p1 /\ s3[2] = p2 /\ s3[3] = p3
    BY <2>5, <2>7
  <2>9. PICK s4 : s4 = s3 \o <<p4>>
    OBVIOUS
  <2>10. s4 \in Seq(Pieces) /\ Len(s4) = 3 + 1 /\ (\A i \in 1 .. 3 : s4[i] = s3[i]) /\ s4[3 + 1] = p4
    <3>1. PICK m \in Nat : m = 3
      OBVIOUS
    <3>2. s3 \in Seq(Pieces) /\ Len(s3) = m
      BY <2>8, <3>1
    <3>3. s4 \in Seq(Pieces) /\ Len(s4) = m + 1 /\ (\A i \in 1 .. m : s4[i] = s3[i]) /\ s4[m + 1] = p4
      BY <2>9, <3>2, AppendedIs
    <3> QED BY <3>1, <3>3
  <2>11. s4 \in Seq(Pieces) /\ Len(s4) = 4 /\ s4[1] = p1 /\ s4[2] = p2 /\ s4[3] = p3 /\ s4[4] = p4
    BY <2>8, <2>10
  <2>12. PICK s5 : s5 = s4 \o <<p5>>
    OBVIOUS
  <2>13. s5 \in Seq(Pieces) /\ Len(s5) = 4 + 1 /\ (\A i \in 1 .. 4 : s5[i] = s4[i]) /\ s5[4 + 1] = p5
    <3>1. PICK m \in Nat : m = 4
      OBVIOUS
    <3>2. s4 \in Seq(Pieces) /\ Len(s4) = m
      BY <2>11, <3>1
    <3>3. s5 \in Seq(Pieces) /\ Len(s5) = m + 1 /\ (\A i \in 1 .. m : s5[i] = s4[i]) /\ s5[m + 1] = p5
      BY <2>12, <3>2, AppendedIs
    <3> QED BY <3>1, <3>3
  <2>14. s5 \in Seq(Pieces) /\ Len(s5) = 5 /\ s5[1] = p1 /\ s5[2] = p2 /\ s5[3] = p3 /\ s5[4] = p4 /\ s5[5] = p5
    BY <2>11, <2>13
  <2>15. c = s5
    BY <1>12, <2>1, <2>3, <2>6, <2>9, <2>12
  <2> QED BY <2>14, <2>15
<1>15. a \in Seq(Pieces) /\ Len(a) = 2 /\ a[1] = p6 /\ a[2] = p7
  <2>1. PICK s1 : s1 = <<p6>>
    OBVIOUS
  <2>2. s1 \in Seq(Pieces) /\ Len(s1) = 1 /\ s1[1] = p6
    BY <2>1
  <2>3. PICK s2 : s2 = s1 \o <<p7>>
    OBVIOUS
  <2>4. s2 \in Seq(Pieces) /\ Len(s2) = 1 + 1 /\ (\A i \in 1 .. 1 : s2[i] = s1[i]) /\ s2[1 + 1] = p7
    <3>1. PICK m \in Nat : m = 1
      OBVIOUS
    <3>2. s1 \in Seq(Pieces) /\ Len(s1) = m
      BY <2>2, <3>1
    <3>3. s2 \in Seq(Pieces) /\ Len(s2) = m + 1 /\ (\A i \in 1 .. m : s2[i] = s1[i]) /\ s2[m + 1] = p7
      BY <2>3, <3>2, AppendedIs
    <3> QED BY <3>1, <3>3
  <2>5. s2 \in Seq(Pieces) /\ Len(s2) = 2 /\ s2[1] = p6 /\ s2[2] = p7
    BY <2>2, <2>4
  <2>6. a = s2
    BY <1>13, <2>1, <2>3
  <2> QED BY <2>5, <2>6
<1>16. /\ Len(c \o a) = 7
       /\ (c \o a)[1] = p1 /\ (c \o a)[2] = p2 /\ (c \o a)[3] = p3 /\ (c \o a)[4] = p4
       /\ (c \o a)[5] = p5 /\ (c \o a)[6] = p6 /\ (c \o a)[7] = p7
  <2>0. Len(c \o a) = Len(c) + Len(a)
        /\ \A i \in 1 .. Len(c) + Len(a) : (c \o a)[i] = IF i <= Len(c) THEN c[i] ELSE a[i - Len(c)]
    BY <1>14, <1>15, ConcatProperties
  <2>1. Len(c \o a) = 7 /\ \A i \in 1 .. 7 : (c \o a)[i] = IF i <= 5 THEN c[i] ELSE a[i - 5]
    BY <1>14, <1>15, <2>0
  <2>2. 6 - 5 = 1 /\ 7 - 5 = 2
    OBVIOUS
  <2> QED BY <1>14, <1>15, <2>1, <2>2
<1> QED BY <1>8, <1>9, <1>10, <1>11, <1>16

-----------------------------------------------------------------------------
LEMMA BitsJoin ==
  ASSUME NEW a \in Binary, NEW b \in Binary, NEW c, c = a \o b, NEW n \in Nat, n = Len(a)
  PROVE /\ c \in Binary /\ Len(c) = n + Len(b) /\ Len(b) \in Nat
        /\ \A i \in 1 .. n : c[i] = a[i]
        /\ \A i \in 1 .. Len(b) : c[n + i] = b[i]
<1>1. c \in Binary /\ Len(c) = n + Len(b)
      /\ \A i \in 1 .. n + Len(b) : c[i] = IF i <= n THEN a[i] ELSE b[i - n]
  BY ConcatProperties DEF Binary
<1>2. Len(b) \in Nat
  BY LenProperties DEF Binary
<1>3. \A i \in 1 .. n : c[i] = a[i]
  BY <1>1, <1>2
<1>4. ASSUME NEW i \in 1 .. Len(b) PROVE c[n + i] = b[i]
  <2>1. n + i \in 1 .. n + Len(b) /\ ~(n + i <= n) /\ (n + i) - n = i
    BY <1>2
  <2> QED BY <1>1, <2>1
<1> QED BY <1>1, <1>2, <1>3, <1>4

LEMMA SizeBits ==
  ASSUME NEW size \in 1 .. 7
  PROVE /\ Bits(size, 2, 0)[1] = (size \div 4) % 2 /\ Bits(size, 2, 0)[2] = (size \div 2) % 2
        /\ Bits(size, 2, 0)[3] = size % 2
<1>1. Bits(size, 2, 0) = [k \in 1 .. 3 |-> (size \div 2^(2 - k + 1)) % 2]
  BY DEF Bits
<1>2. Bits(size, 2, 0)[1] = (size \div 4) % 2
  BY <1>1
<1>3. Bits(size, 2, 0)[2] = (size \div 2) % 2
  BY <1>1
<1>4. Bits(size, 2, 0)[3] = (size \div 1) % 2
  BY <1>1
<1>5. size \div 1 = size
  OBVIOUS
<1> QED BY <1>2, <1>3, <1>4, <1>5

LEMMA HeaderSizeBits ==
  ASSUME NEW hdr \in 0 .. 31
  PROVE /\ Bits(hdr, 4, 0)[1] = (hdr \div 16) % 2 /\ Bits(hdr, 4, 0)[2] = (hdr \div 8) % 2
        /\ Bits(hdr, 4, 0)[3] = (hdr \div 4) % 2 /\ Bits(hdr, 4, 0)[4] = (hdr \div 2) % 2
        /\ Bits(hdr, 4, 0)[5] = hdr % 2
<1>1. Bits(hdr, 4, 0) = [k \in 1 .. 5 |-> (hdr \div 2^(4 - k + 1)) % 2]
  BY DEF Bits
<1>2. Bits(hdr, 4, 0)[1] = (hdr \div 16) % 2
  BY <1>1
<1>3. Bits(hdr, 4, 0)[2] = (hdr \div 8) % 2
  BY <1>1
<1>4. Bits(hdr, 4, 0)[3] = (hdr \div 4) % 2
  BY <1>1
<1>5. Bits(hdr, 4, 0)[4] = (hdr \div 2) % 2
  BY <1>1
<1>6. Bits(hdr, 4, 0)[5] = (hdr \div 1) % 2
  BY <1>1
<1>7. hdr \div 1 = hdr
  OBVIOUS
<1> QED BY <1>2, <1>3, <1>4, <1>5, <1>6, <1>7

LEMMA FiveBits ==
  ASSUME NEW n \in 0 .. 31
  PROVE 16 * ((n \div 16) % 2) + 8 * ((n \div 8) % 2) + 4 * ((n \div 4) % 2) + 2 * ((n \div 2) % 2)
          + (n % 2) = n
<1>1. PICK b1 \in {0, 1}, r1 \in 0 .. 15 : n = 16 * b1 + r1
  <2>1. CASE n < 16
    BY <2>1
  <2>2. CASE ~(n < 16)
    <3>1. n - 16 \in 0 .. 15 /\ n = 16 * 1 + (n - 16)
      BY <2>2
    <3> QED BY <3>1
  <2> QED BY <2>1, <2>2
<1>2. PICK b2 \in {0, 1}, r2 \in 0 .. 7 : r1 = 8 * b2 + r2
  <2>1. CASE r1 < 8
    BY <2>1
  <2>2. CASE ~(r1 < 8)
    <3>1. r1 - 8 \in 0 .. 7 /\ r1 = 8 * 1 + (r1 - 8)
      BY <2>2
    <3> QED BY <3>1
  <2> QED BY <2>1, <2>2
<1>3. PICK b3 \in {0, 1}, r3 \in 0 .. 3 : r2 = 4 * b3 + r3
  <2>1. CASE r2 < 4
    BY <2>1
  <2>2. CASE ~(r2 < 4)
    <3>1. r2 - 4 \in 0 .. 3 /\ r2 = 4 * 1 + (r2 - 4)
      BY <2>2
    <3> QED BY <3>1
  <2> QED BY <2>1, <2>2
<1>4. PICK b4 \in {0, 1}, b5 \in {0, 1} : r3 = 2 * b4 + b5
  <2>1. CASE r3 < 2
    BY <2>1
  <2>2. CASE ~(r3 < 2)
    <3>1. r3 - 2 \in {0, 1} /\ r3 = 2 * 1 + (r3 - 2)
      BY <2>2
    <3> QED BY <3>1
  <2> QED BY <2>1, <2>2
<1>5. n = 16 * b1 + 8 * b2 + 4 * b3 + 2 * b4 + b5
  BY <1>1, <1>2, <1>3, <1>4
<1>6. (n \div 16) % 2 = b1
  BY <1>5
<1>7. (n \div 8) % 2 = b2
  BY <1>5
<1>8. (n \div 4) % 2 = b3
  BY <1>5
<1>9. (n \div 2) % 2 = b4
  BY <1>5
<1>10. n % 2 = b5
  BY <1>5
<1> QED BY <1>5, <1>6, <1>7, <1>8, <1>9, <1>10

LEMMA ThreeBits ==
  ASSUME NEW n \in 0 .. 7
  PROVE 4 * ((n \div 4) % 2) + 2 * ((n \div 2) % 2) + (n % 2) = n
<1>1. (n \div 16) % 2 = 0 /\ (n \div 8) % 2 = 0
  OBVIOUS
<1>2. PICK a \in Int, b \in Int, c \in Int : a = (n \div 4) % 2 /\ b = (n \div 2) % 2 /\ c = n % 2
  OBVIOUS
<1>3. n \in 0 .. 31
  OBVIOUS
<1>4. 16 * 0 + 8 * 0 + 4 * a + 2 * b + c = n
  BY <1>1, <1>2, <1>3, FiveBits
<1> QED BY <1>2, <1>4

IsFront(octets, size, hdr) ==
  octets \in Seq(Nat) /\ Len(octets) = 4 + size /\ octets[4] = 32 * size + hdr

LEMMA FrontIs ==
  ASSUME NEW size \in 1 .. 7, NEW hdr \in 0 .. 31, NEW v, HasValues(Common \o Addresses(size), v),
         Values(v)["addr_size"] = size, Values(v)["hdr_size"] = hdr
  PROVE IsFront(Write(Common \o Addresses(size), v), size, hdr)
<1>1. PICK L : L = Common \o Addresses(size)
  OBVIOUS
<1>2. IsLayout(L) /\ Len(L) = 7 /\ HasValues(L, v)
  BY <1>1, CommonIs
<1>2a. L[1].field = "type" /\ L[1].hi = 3 /\ L[1].lo = 0
  <2>1. L[1] = [field |-> "type", hi |-> 3, lo |-> 0]
    BY <1>1, CommonIs
  <2> QED BY <2>1
<1>2b. L[2].field = "eow" /\ L[2].hi = 11 /\ L[2].lo = 0
  <2>1. L[2] = [field |-> "eow", hi |-> 11, lo |-> 0]
    BY <1>1, CommonIs
  <2> QED BY <2>1
<1>2c. L[3].field = "eot" /\ L[3].hi = 7 /\ L[3].lo = 0
  <2>1. L[3] = [field |-> "eot", hi |-> 7, lo |-> 0]
    BY <1>1, CommonIs
  <2> QED BY <2>1
<1>2d. L[4].field = "addr_size" /\ L[4].hi = 2 /\ L[4].lo = 0
  <2>1. L[4] = [field |-> "addr_size", hi |-> 2, lo |-> 0]
    BY <1>1, CommonIs
  <2> QED BY <2>1
<1>2e. L[5].field = "hdr_size" /\ L[5].hi = 4 /\ L[5].lo = 0
  <2>1. L[5] = [field |-> "hdr_size", hi |-> 4, lo |-> 0]
    BY <1>1, CommonIs
  <2> QED BY <2>1
<1>2f. L[6].field = "destination" /\ L[6].hi = 4 * size - 1 /\ L[6].lo = 0
  <2>1. L[6] = [field |-> "destination", hi |-> 4 * size - 1, lo |-> 0]
    BY <1>1, CommonIs
  <2> QED BY <2>1
<1>2g. L[7].field = "source" /\ L[7].hi = 4 * size - 1 /\ L[7].lo = 0
  <2>1. L[7] = [field |-> "source", hi |-> 4 * size - 1, lo |-> 0]
    BY <1>1, CommonIs
  <2> QED BY <2>1
<1>3. PICK w : w = Written(L, v)
  OBVIOUS
<1>4. Len(w) = 7 /\ \A i \in 1 .. 7 : /\ w[i] = Bits(Values(v)[L[i].field], L[i].hi, L[i].lo)
                                      /\ w[i] \in Binary /\ Len(w[i]) = L[i].hi - L[i].lo + 1
  <2>1. /\ Len(w) = Len(L)
        /\ \A i \in 1 .. Len(L) : /\ w[i] = Bits(Values(v)[L[i].field], L[i].hi, L[i].lo)
                                  /\ w[i] \in Binary /\ Len(w[i]) = L[i].hi - L[i].lo + 1
    <3>1. IsLayout(L) /\ HasValues(L, v)
      BY <1>2
    <3>2. /\ Len(Written(L, v)) = Len(L) /\ Len(L) \in Nat
          /\ \A i \in 1 .. Len(L) :
               /\ Written(L, v)[i] = Bits(Values(v)[L[i].field], L[i].hi, L[i].lo)
               /\ Written(L, v)[i] \in Binary
               /\ Len(Written(L, v)[i]) = L[i].hi - L[i].lo + 1
      BY <3>1, WrittenIs
    <3> QED BY <1>3, <3>2
  <2>2. Len(L) = 7
    BY <1>2
  <2> QED BY <2>1, <2>2
<1>5. w[4] = Bits(size, 2, 0) /\ w[5] = Bits(hdr, 4, 0)
  BY <1>2d, <1>2e, <1>4
<1>6a. PICK w1 \in Binary : w1 = w[1] /\ Len(w1) = 4
  <2>1. w[1] \in Binary /\ Len(w[1]) = L[1].hi - L[1].lo + 1
    BY <1>4
  <2> QED BY <1>2a, <2>1
<1>6b. PICK w2 \in Binary : w2 = w[2] /\ Len(w2) = 12
  <2>1. w[2] \in Binary /\ Len(w[2]) = L[2].hi - L[2].lo + 1
    BY <1>4
  <2> QED BY <1>2b, <2>1
<1>6c. PICK w3 \in Binary : w3 = w[3] /\ Len(w3) = 8
  <2>1. w[3] \in Binary /\ Len(w[3]) = L[3].hi - L[3].lo + 1
    BY <1>4
  <2> QED BY <1>2c, <2>1
<1>6d. PICK w4 \in Binary : w4 = w[4] /\ Len(w4) = 3
  <2>1. w[4] \in Binary /\ Len(w[4]) = L[4].hi - L[4].lo + 1
    BY <1>4
  <2> QED BY <1>2d, <2>1
<1>6e. PICK w5 \in Binary : w5 = w[5] /\ Len(w5) = 5
  <2>1. w[5] \in Binary /\ Len(w[5]) = L[5].hi - L[5].lo + 1
    BY <1>4
  <2> QED BY <1>2e, <2>1
<1>6f. PICK w6 \in Binary : w6 = w[6] /\ Len(w6) = 4 * size
  <2>1. w[6] \in Binary /\ Len(w[6]) = L[6].hi - L[6].lo + 1
    BY <1>4
  <2> QED BY <1>2f, <2>1
<1>6g. PICK w7 \in Binary : w7 = w[7] /\ Len(w7) = 4 * size
  <2>1. w[7] \in Binary /\ Len(w[7]) = L[7].hi - L[7].lo + 1
    BY <1>4
  <2> QED BY <1>2g, <2>1
<1>7. PICK g : /\ g \in [0 .. 7 -> Seq({0, 1})] /\ g[0] = <<>> /\ \A n \in 1 .. 7 : g[n] = g[n - 1] \o w[n]
              /\ Joined(w) = g[7]
  <2>1. Len(w) \in Nat /\ \A n \in 1 .. Len(w) : w[n] \in Seq({0, 1})
    BY <1>4 DEF Binary
  <2>2. PICK g \in [0 .. Len(w) -> Seq({0, 1})] :
          /\ g[0] = <<>> /\ \A n \in 1 .. Len(w) : g[n] = g[n - 1] \o w[n]
          /\ Joined(w) = g[Len(w)]
    BY <2>1, JoinedRun
  <2> QED BY <1>4, <2>2
<1>80. PICK g0 \in Binary : g0 = g[0]
  BY <1>7 DEF Binary
<1>81. PICK g1 \in Binary : g1 = g[1]
  BY <1>7 DEF Binary
<1>82. PICK g2 \in Binary : g2 = g[2]
  BY <1>7 DEF Binary
<1>83. PICK g3 \in Binary : g3 = g[3]
  BY <1>7 DEF Binary
<1>84. PICK g4 \in Binary : g4 = g[4]
  BY <1>7 DEF Binary
<1>85. PICK g5 \in Binary : g5 = g[5]
  BY <1>7 DEF Binary
<1>86. PICK g6 \in Binary : g6 = g[6]
  BY <1>7 DEF Binary
<1>87. PICK g7 \in Binary : g7 = g[7]
  BY <1>7 DEF Binary
<1>90. PICK l0 \in Nat : l0 = 0
  OBVIOUS
<1>91. PICK l1 \in Nat : l1 = 4
  OBVIOUS
<1>92. PICK l2 \in Nat : l2 = 16
  OBVIOUS
<1>93. PICK l3 \in Nat : l3 = 24
  OBVIOUS
<1>94. PICK l4 \in Nat : l4 = 27
  OBVIOUS
<1>95. PICK l5 \in Nat : l5 = 32
  OBVIOUS
<1>96. PICK l6 \in Nat : l6 = 32 + 4 * size
  OBVIOUS
<1>97. PICK l7 \in Nat : l7 = 32 + 8 * size
  OBVIOUS
<1>100. Len(g0) = l0
  BY <1>7, <1>80, <1>90
<1>101. /\ Len(g1) = l1 /\ (\A i \in 1 .. l0 : g1[i] = g0[i])
       /\ \A i \in 1 .. Len(w1) : g1[l0 + i] = w1[i]
  <2>1. g1 = g0 \o w1
    <3>1. PICK n \in 1 .. 7 : n = 1 /\ n - 1 = 0
      OBVIOUS
    <3>2. g[n] = g[n - 1] \o w[n]
      BY <1>7
    <3> QED BY <1>6a, <1>80, <1>81, <3>1, <3>2
  <2>2. /\ Len(g1) = l0 + Len(w1) /\ (\A i \in 1 .. l0 : g1[i] = g0[i])
        /\ \A i \in 1 .. Len(w1) : g1[l0 + i] = w1[i]
    <3>1. l0 = Len(g0) /\ l0 \in Nat
      BY <1>100
    <3> QED BY <2>1, <3>1, BitsJoin
  <2>3. l1 = l0 + Len(w1)
    BY <1>6a, <1>90, <1>91
  <2> QED BY <2>2, <2>3
<1>102. /\ Len(g2) = l2 /\ (\A i \in 1 .. l1 : g2[i] = g1[i])
       /\ \A i \in 1 .. Len(w2) : g2[l1 + i] = w2[i]
  <2>1. g2 = g1 \o w2
    <3>1. PICK n \in 1 .. 7 : n = 2 /\ n - 1 = 1
      OBVIOUS
    <3>2. g[n] = g[n - 1] \o w[n]
      BY <1>7
    <3> QED BY <1>6b, <1>81, <1>82, <3>1, <3>2
  <2>2. /\ Len(g2) = l1 + Len(w2) /\ (\A i \in 1 .. l1 : g2[i] = g1[i])
        /\ \A i \in 1 .. Len(w2) : g2[l1 + i] = w2[i]
    BY <1>101, <2>1, BitsJoin
  <2>3. l2 = l1 + Len(w2)
    BY <1>6b, <1>91, <1>92
  <2> QED BY <2>2, <2>3
<1>103. /\ Len(g3) = l3 /\ (\A i \in 1 .. l2 : g3[i] = g2[i])
       /\ \A i \in 1 .. Len(w3) : g3[l2 + i] = w3[i]
  <2>1. g3 = g2 \o w3
    <3>1. PICK n \in 1 .. 7 : n = 3 /\ n - 1 = 2
      OBVIOUS
    <3>2. g[n] = g[n - 1] \o w[n]
      BY <1>7
    <3> QED BY <1>6c, <1>82, <1>83, <3>1, <3>2
  <2>2. /\ Len(g3) = l2 + Len(w3) /\ (\A i \in 1 .. l2 : g3[i] = g2[i])
        /\ \A i \in 1 .. Len(w3) : g3[l2 + i] = w3[i]
    BY <1>102, <2>1, BitsJoin
  <2>3. l3 = l2 + Len(w3)
    BY <1>6c, <1>92, <1>93
  <2> QED BY <2>2, <2>3
<1>104. /\ Len(g4) = l4 /\ (\A i \in 1 .. l3 : g4[i] = g3[i])
       /\ \A i \in 1 .. Len(w4) : g4[l3 + i] = w4[i]
  <2>1. g4 = g3 \o w4
    <3>1. PICK n \in 1 .. 7 : n = 4 /\ n - 1 = 3
      OBVIOUS
    <3>2. g[n] = g[n - 1] \o w[n]
      BY <1>7
    <3> QED BY <1>6d, <1>83, <1>84, <3>1, <3>2
  <2>2. /\ Len(g4) = l3 + Len(w4) /\ (\A i \in 1 .. l3 : g4[i] = g3[i])
        /\ \A i \in 1 .. Len(w4) : g4[l3 + i] = w4[i]
    BY <1>103, <2>1, BitsJoin
  <2>3. l4 = l3 + Len(w4)
    BY <1>6d, <1>93, <1>94
  <2> QED BY <2>2, <2>3
<1>105. /\ Len(g5) = l5 /\ (\A i \in 1 .. l4 : g5[i] = g4[i])
       /\ \A i \in 1 .. Len(w5) : g5[l4 + i] = w5[i]
  <2>1. g5 = g4 \o w5
    <3>1. PICK n \in 1 .. 7 : n = 5 /\ n - 1 = 4
      OBVIOUS
    <3>2. g[n] = g[n - 1] \o w[n]
      BY <1>7
    <3> QED BY <1>6e, <1>84, <1>85, <3>1, <3>2
  <2>2. /\ Len(g5) = l4 + Len(w5) /\ (\A i \in 1 .. l4 : g5[i] = g4[i])
        /\ \A i \in 1 .. Len(w5) : g5[l4 + i] = w5[i]
    BY <1>104, <2>1, BitsJoin
  <2>3. l5 = l4 + Len(w5)
    BY <1>6e, <1>94, <1>95
  <2> QED BY <2>2, <2>3
<1>106. /\ Len(g6) = l6 /\ (\A i \in 1 .. l5 : g6[i] = g5[i])
       /\ \A i \in 1 .. Len(w6) : g6[l5 + i] = w6[i]
  <2>1. g6 = g5 \o w6
    <3>1. PICK n \in 1 .. 7 : n = 6 /\ n - 1 = 5
      OBVIOUS
    <3>2. g[n] = g[n - 1] \o w[n]
      BY <1>7
    <3> QED BY <1>6f, <1>85, <1>86, <3>1, <3>2
  <2>2. /\ Len(g6) = l5 + Len(w6) /\ (\A i \in 1 .. l5 : g6[i] = g5[i])
        /\ \A i \in 1 .. Len(w6) : g6[l5 + i] = w6[i]
    BY <1>105, <2>1, BitsJoin
  <2>3. l6 = l5 + Len(w6)
    BY <1>6f, <1>95, <1>96
  <2> QED BY <2>2, <2>3
<1>107. /\ Len(g7) = l7 /\ (\A i \in 1 .. l6 : g7[i] = g6[i])
       /\ \A i \in 1 .. Len(w7) : g7[l6 + i] = w7[i]
  <2>1. g7 = g6 \o w7
    <3>1. PICK n \in 1 .. 7 : n = 7 /\ n - 1 = 6
      OBVIOUS
    <3>2. g[n] = g[n - 1] \o w[n]
      BY <1>7
    <3> QED BY <1>6g, <1>86, <1>87, <3>1, <3>2
  <2>2. /\ Len(g7) = l6 + Len(w7) /\ (\A i \in 1 .. l6 : g7[i] = g6[i])
        /\ \A i \in 1 .. Len(w7) : g7[l6 + i] = w7[i]
    BY <1>106, <2>1, BitsJoin
  <2>3. l7 = l6 + Len(w7)
    BY <1>6g, <1>96, <1>97
  <2> QED BY <2>2, <2>3
<1>19. PICK bits \in Binary : bits = g7
  OBVIOUS
<1>20. Len(bits) = 32 + 8 * size /\ (\A i \in 1 .. 3 : bits[24 + i] = w4[i])
       /\ \A i \in 1 .. 5 : bits[27 + i] = w5[i]
  <2>1. \A i \in 1 .. 32 : g7[i] = g6[i]
    BY <1>96, <1>107
  <2>2. \A i \in 1 .. 32 : g6[i] = g5[i]
    BY <1>95, <1>106
  <2>3. \A i \in 1 .. 27 : g5[i] = g4[i]
    BY <1>94, <1>105
  <2>4. \A i \in 1 .. 5 : g5[27 + i] = w5[i]
    BY <1>6e, <1>94, <1>105
  <2>5. \A i \in 1 .. 3 : g4[24 + i] = w4[i]
    BY <1>6d, <1>93, <1>104
  <2>6. ASSUME NEW i \in 1 .. 3 PROVE bits[24 + i] = w4[i]
    <3>1. PICK j \in 1 .. 27 : j = 24 + i
      OBVIOUS
    <3>2. j \in 1 .. 32
      OBVIOUS
    <3>3. bits[j] = g4[j]
      BY <1>19, <2>1, <2>2, <2>3, <3>2
    <3> QED BY <2>5, <3>1, <3>3
  <2>7. ASSUME NEW i \in 1 .. 5 PROVE bits[27 + i] = w5[i]
    <3>1. PICK j \in 1 .. 32 : j = 27 + i
      OBVIOUS
    <3>2. bits[j] = g5[j]
      BY <1>19, <2>1, <2>2
    <3> QED BY <2>4, <3>1, <3>2
  <2>8. Len(bits) = 32 + 8 * size
    BY <1>19, <1>97, <1>107
  <2> QED BY <2>6, <2>7, <2>8
<1>21. Write(L, v) = Octets(bits) /\ Write(L, v) \in Seq(Nat)
  <2>1. bits = Joined(Written(L, v))
    BY <1>3, <1>7, <1>87, <1>19
  <2> QED BY <1>2, <2>1, WriteIs
<1>22. PICK m \in Nat : m = Len(bits) \div 8 /\ m = 4 + size
  BY <1>20
<1>23. Len(Octets(bits)) = 4 + size /\ Octets(bits)[4] = Number(SubSeq(bits, 25, 32))
  <2>1. 4 \in 1 .. m /\ 8 * 4 - 7 = 25 /\ 8 * 4 = 32
    BY <1>22
  <2>2. Len(Octets(bits)) = m /\ \A i \in 1 .. m : Octets(bits)[i] = Number(SubSeq(bits, 8 * i - 7, 8 * i))
    BY <1>22, OctetsAre
  <2>3. Octets(bits)[4] = Number(SubSeq(bits, 8 * 4 - 7, 8 * 4))
    BY <2>1, <2>2
  <2> QED BY <1>22, <2>1, <2>2, <2>3
<1>24. PICK b : b = SubSeq(bits, 25, 32)
  OBVIOUS
<1>25. b \in Binary /\ Len(b) = 8 /\ \A k \in 1 .. 8 : b[k] = bits[24 + k]
  <2>0. PICK from \in 1 .. Len(bits) + 1 : from = 25
    BY <1>20
  <2>1. PICK to \in from - 1 .. Len(bits) : from = 25 /\ to = 32
    BY <1>20, <2>0
  <2>2. b = SubSeq(bits, from, to)
    BY <1>24, <2>1
  <2>3. b \in Seq({0, 1}) /\ Len(b) = to - from + 1 /\ \A k \in 1 .. to - from + 1 : b[k] = bits[from + k - 1]
    <3>1. \A i \in from .. to : bits[i] \in {0, 1}
      <4>1. \A i \in 1 .. Len(bits) : bits[i] \in {0, 1}
        BY ElementOfSeq DEF Binary
      <4> QED BY <2>0, <2>1, <4>1
    <3>2. from \in Int /\ to \in Int /\ from <= to
      BY <2>1
    <3> QED BY <2>2, <3>1, <3>2, SubSeqProperties
  <2>4. Len(b) = 8 /\ \A k \in 1 .. 8 : b[k] = bits[25 + k - 1]
    BY <2>1, <2>3
  <2>5. \A k \in 1 .. 8 : 25 + k - 1 = 24 + k
    OBVIOUS
  <2> QED BY <2>3, <2>4, <2>5 DEF Binary
<1>26. /\ b[1] = (size \div 4) % 2 /\ b[2] = (size \div 2) % 2 /\ b[3] = size % 2
       /\ b[4] = (hdr \div 16) % 2 /\ b[5] = (hdr \div 8) % 2 /\ b[6] = (hdr \div 4) % 2
       /\ b[7] = (hdr \div 2) % 2 /\ b[8] = hdr % 2
  <2>1. b[1] = w4[1] /\ b[2] = w4[2] /\ b[3] = w4[3]
    <3>1. ASSUME NEW i \in 1 .. 3 PROVE b[i] = w4[i]
      <4>1. i \in 1 .. 8
        OBVIOUS
      <4> QED BY <1>20, <1>25, <4>1
    <3> QED BY <3>1
  <2>2. b[4] = w5[1] /\ b[5] = w5[2] /\ b[6] = w5[3] /\ b[7] = w5[4] /\ b[8] = w5[5]
    <3>1. ASSUME NEW i \in 1 .. 5 PROVE b[3 + i] = w5[i]
      <4>1. 3 + i \in 1 .. 8 /\ 24 + (3 + i) = 27 + i
        OBVIOUS
      <4>2. b[3 + i] = bits[24 + (3 + i)]
        BY <1>25, <4>1
      <4> QED BY <1>20, <4>1, <4>2
    <3>2. b[3 + 1] = w5[1] /\ b[3 + 2] = w5[2] /\ b[3 + 3] = w5[3] /\ b[3 + 4] = w5[4] /\ b[3 + 5] = w5[5]
      BY <3>1
    <3> QED BY <3>2
  <2>3. w4 = Bits(size, 2, 0) /\ w5 = Bits(hdr, 4, 0)
    BY <1>5, <1>6d, <1>6e
  <2>4. w4[1] = (size \div 4) % 2 /\ w4[2] = (size \div 2) % 2 /\ w4[3] = size % 2
    BY <2>3, SizeBits
  <2>5. /\ w5[1] = (hdr \div 16) % 2 /\ w5[2] = (hdr \div 8) % 2 /\ w5[3] = (hdr \div 4) % 2
        /\ w5[4] = (hdr \div 2) % 2 /\ w5[5] = hdr % 2
    BY <2>3, HeaderSizeBits
  <2> QED BY <2>1, <2>2, <2>4, <2>5
<1>27. Number(b) = 128 * b[1] + 64 * b[2] + 32 * b[3] + 16 * b[4] + 8 * b[5] + 4 * b[6] + 2 * b[7] + b[8]
  BY <1>25, NumberIs
<1>28. 4 * b[1] + 2 * b[2] + b[3] = size
  <2>1. size \in 0 .. 7
    OBVIOUS
  <2> QED BY <1>26, <2>1, ThreeBits
<1>29. 16 * b[4] + 8 * b[5] + 4 * b[6] + 2 * b[7] + b[8] = hdr
  BY <1>26, FiveBits
<1>30. Number(b) = 32 * size + hdr
  <2>0. \A k \in 1 .. Len(b) : b[k] \in {0, 1}
    BY <1>25, ElementOfSeq DEF Binary
  <2>1. \A k \in 1 .. 8 : b[k] \in Int
    BY <1>25, <2>0
  <2>2. /\ b[1] \in Int /\ b[2] \in Int /\ b[3] \in Int /\ b[4] \in Int /\ b[5] \in Int /\ b[6] \in Int
        /\ b[7] \in Int /\ b[8] \in Int
    BY <2>1
  <2> QED BY <1>27, <1>28, <1>29, <2>2
<1>31. PICK octets : octets = Write(L, v)
  OBVIOUS
<1>32. octets \in Seq(Nat) /\ Len(octets) = 4 + size /\ octets[4] = 32 * size + hdr
  BY <1>21, <1>23, <1>24, <1>30, <1>31
<1>33. IsFront(octets, size, hdr)
  BY <1>32 DEF IsFront
<1> QED BY <1>1, <1>31, <1>33
(* The header of a D_PDU: its length, and the octet that says it.          *)
LEMMA HeaderIs ==
  ASSUME NEW d, Encodable(d)
  PROVE \E size \in 1 .. 7 : \E hdr \in 6 .. 31 :
          /\ Header(d) \in Seq(Nat) /\ Len(Header(d)) = hdr + size - 2
          /\ Header(d)[4] = 32 * size + hdr
<1>1. PICK size \in 1 .. 7 : size = AddressSize(d.destination, d.source)
  <2>1. d.destination \in 0 .. 2^28 - 1 /\ d.source \in 0 .. 2^28 - 1
    BY DEF Encodable
  <2> QED BY <2>1, AddressSizeIs
<1>2. PICK hdr \in 6 .. 31 : hdr = HeaderSize(d)
  BY TypeSpecificIs
<1>3. PICK t : t = TypeSpecific(d) /\ t \in Seq(Nat) /\ Len(t) = hdr - 6
  BY <1>2, TypeSpecificIs
<1> DEFINE v == [type |-> DpduTypes[d.type], eow |-> d.eow, eot |-> d.eot, addr_size |-> size,
                 hdr_size |-> hdr, destination |-> d.destination, source |-> d.source]
           layout == Common \o Addresses(size)
<1>4. Header(d) = Write(layout, v) \o t
  BY <1>1, <1>2, <1>3 DEF Header
<1>5. HasValues(layout, v)
  <2>1. DpduTypes[d.type] \in Nat
    <3>1. d.type \in DOMAIN DpduTypes
      BY DEF Encodable
    <3>2. \A type \in DOMAIN DpduTypes : DpduTypes[type] \in Nat
      BY DEF DpduTypes
    <3> QED BY <3>1, <3>2
  <2>2. d.eow \in Nat /\ d.eot \in Nat
    BY DEF Encodable
  <2>3. d.destination \in Nat /\ d.source \in Nat
    <3>1. PICK n \in Nat : n = 2^28
      <4>1. 28 \in 0 .. 31
        OBVIOUS
      <4> QED BY <4>1, DivisorIs
    <3>2. d.destination \in 0 .. n - 1 /\ d.source \in 0 .. n - 1
      BY <3>1 DEF Encodable
    <3> QED BY <3>2
  <2>4. /\ v["type"] \in Nat /\ v["eow"] \in Nat /\ v["eot"] \in Nat /\ v["addr_size"] \in Nat
        /\ v["hdr_size"] \in Nat /\ v["destination"] \in Nat /\ v["source"] \in Nat
    BY <2>1, <2>2, <2>3
  <2>5. DOMAIN v = {"type", "eow", "eot", "addr_size", "hdr_size", "destination", "source"}
    OBVIOUS
  <2> HIDE DEF v, layout
  <2>6. \A f \in DOMAIN v : Values(v)[f] \in Nat
    <3>1. "zero" \notin DOMAIN v
      BY <2>5
    <3>2. \A f \in DOMAIN v : v[f] \in Nat
      BY <2>4, <2>5
    <3> QED BY <3>1, <3>2 DEF Values
  <2>7. \A i \in 1 .. 7 : layout[i].field \in DOMAIN v
    <3>1. layout[1].field \in DOMAIN v
      <4>1. layout[1] = [field |-> "type", hi |-> 3, lo |-> 0]
        BY CommonIs DEF layout
      <4> QED BY <2>5, <4>1
    <3>2. layout[2].field \in DOMAIN v
      <4>1. layout[2] = [field |-> "eow", hi |-> 11, lo |-> 0]
        BY CommonIs DEF layout
      <4> QED BY <2>5, <4>1
    <3>3. layout[3].field \in DOMAIN v
      <4>1. layout[3] = [field |-> "eot", hi |-> 7, lo |-> 0]
        BY CommonIs DEF layout
      <4> QED BY <2>5, <4>1
    <3>4. layout[4].field \in DOMAIN v
      <4>1. layout[4] = [field |-> "addr_size", hi |-> 2, lo |-> 0]
        BY CommonIs DEF layout
      <4> QED BY <2>5, <4>1
    <3>5. layout[5].field \in DOMAIN v
      <4>1. layout[5] = [field |-> "hdr_size", hi |-> 4, lo |-> 0]
        BY CommonIs DEF layout
      <4> QED BY <2>5, <4>1
    <3>6. layout[6].field \in DOMAIN v
      <4>1. layout[6] = [field |-> "destination", hi |-> 4 * size - 1, lo |-> 0]
        BY CommonIs DEF layout
      <4> QED BY <2>5, <4>1
    <3>7. layout[7].field \in DOMAIN v
      <4>1. layout[7] = [field |-> "source", hi |-> 4 * size - 1, lo |-> 0]
        BY CommonIs DEF layout
      <4> QED BY <2>5, <4>1
    <3>8. ASSUME NEW i \in 1 .. 7 PROVE i = 1 \/ i = 2 \/ i = 3 \/ i = 4 \/ i = 5 \/ i = 6 \/ i = 7
      OBVIOUS
    <3> QED BY <3>1, <3>2, <3>3, <3>4, <3>5, <3>6, <3>7, <3>8
  <2>8. Len(layout) = 7
    BY CommonIs DEF layout
  <2> QED BY <2>6, <2>7, <2>8 DEF HasValues
<1>6. Values(v)["addr_size"] = size /\ Values(v)["hdr_size"] = hdr
  BY DEF Values
<1> HIDE DEF v
<1>7. PICK w : w = Write(layout, v)
  OBVIOUS
<1>8. w \in Seq(Nat) /\ Len(w) = 4 + size /\ w[4] = 32 * size + hdr
  <2>1. hdr \in 0 .. 31
    OBVIOUS
  <2>2. Values(v)["addr_size"] = size
    BY <1>6
  <2>3. Values(v)["hdr_size"] = hdr
    BY <1>6
  <2>4. IsFront(Write(layout, v), size, hdr)
    BY <1>5, <2>1, <2>2, <2>3, FrontIs
  <2> QED BY <1>7, <2>4 DEF IsFront
<1> HIDE DEF layout
<1>9. Header(d) = w \o t
  BY <1>4, <1>7
<1>10. Header(d) \in Seq(Nat) /\ Len(Header(d)) = Len(w) + Len(t) /\ Header(d)[4] = w[4]
  <2>1. 4 \in 1 .. Len(w)
    BY <1>8
  <2> QED BY <1>3, <1>8, <1>9, <2>1, ConcatProperties
<1>11. Len(w) + Len(t) = hdr + size - 2
  BY <1>3, <1>8
<1> QED BY <1>8, <1>10, <1>11
-----------------------------------------------------------------------------
(***************************************************************************)
(* The frame.                                                              *)
(***************************************************************************)
LEMMA SeqsJoin ==
  ASSUME NEW Elems, NEW a \in Seq(Elems), NEW b \in Seq(Elems), NEW c, c = a \o b, NEW n \in Nat, n = Len(a),
         NEW m \in Nat, m = Len(b)
  PROVE /\ c \in Seq(Elems) /\ Len(c) = n + m
        /\ \A i \in 1 .. n : c[i] = a[i]
        /\ \A i \in 1 .. m : c[n + i] = b[i]
<1>1. c \in Seq(Elems) /\ Len(c) = n + m
  BY ConcatProperties
<1>2. ASSUME NEW i \in 1 .. n PROVE c[i] = a[i]
  <2>1. i \in 1 .. Len(a)
    OBVIOUS
  <2> QED BY <2>1, ConcatProperties
<1>3. ASSUME NEW i \in 1 .. m PROVE c[n + i] = b[i]
  <2>1. PICK j \in Nat : j = n + i
    OBVIOUS
  <2>2. j \in 1 .. Len(a) + Len(b) /\ ~(j <= Len(a)) /\ j - Len(a) = i
    BY <2>1
  <2>3. c[j] = b[i]
    BY <2>2, ConcatProperties
  <2> QED BY <2>1, <2>3
<1> QED BY <1>1, <1>2, <1>3

LEMMA WireIs ==
  ASSUME NEW register, NEW n \in Nat
  PROVE /\ WireBytes(register, n) \in Seq(0 .. 255) /\ Len(WireBytes(register, n)) = n
        /\ \A i \in 1 .. n : \A k \in 0 .. 7 :
             (BitOf(WireBytes(register, n)[i], k) = 1) <=> 8 * (i - 1) + k \in register
<1>1. ASSUME NEW m \in Nat
      PROVE /\ OctetOf(register, m) \in 0 .. 255
            /\ \A k \in 0 .. 7 : (BitOf(OctetOf(register, m), k) = 1) <=> 8 * m + k \in register
  <2>1. PICK b : b = [k \in 1 .. 8 |-> IF 8 * m + 8 - k \in register THEN 1 ELSE 0]
    OBVIOUS
  <2>2. b \in Binary /\ Len(b) = 8
    <3>1. b \in [1 .. 8 -> {0, 1}]
      BY <2>1
    <3>2. PICK e \in Nat : e = 8
      OBVIOUS
    <3>3. b \in [1 .. e -> {0, 1}]
      BY <3>1, <3>2
    <3> QED BY <3>2, <3>3, FunctionIsSeq DEF Binary
  <2>3. OctetOf(register, m) = Number(b)
    BY <2>1 DEF OctetOf
  <2>4. Number(b) \in 0 .. 255 /\ \A k \in 1 .. 8 : BitOf(Number(b), 8 - k) = b[k]
    BY <2>2, NumberIs
  <2>5. ASSUME NEW k \in 0 .. 7 PROVE (BitOf(Number(b), k) = 1) <=> 8 * m + k \in register
    <3>1. PICK i \in 1 .. 8 : i = 8 - k
      OBVIOUS
    <3>2. 8 - i = k /\ 8 * m + 8 - i = 8 * m + k
      BY <3>1
    <3>3. BitOf(Number(b), k) = b[i]
      BY <2>4, <3>2
    <3>4. b[i] = IF 8 * m + k \in register THEN 1 ELSE 0
      BY <2>1, <3>2
    <3> QED BY <3>3, <3>4
  <2> QED BY <2>3, <2>4, <2>5
<1>2. WireBytes(register, n) = [i \in 1 .. n |-> OctetOf(register, i - 1)]
  BY DEF WireBytes
<1>3. WireBytes(register, n) \in [1 .. n -> 0 .. 255]
  <2>1. \A i \in 1 .. n : i - 1 \in Nat
    OBVIOUS
  <2>2. \A i \in 1 .. n : OctetOf(register, i - 1) \in 0 .. 255
    BY <1>1, <2>1
  <2> QED BY <1>2, <2>2
<1>4. WireBytes(register, n) \in Seq(0 .. 255) /\ Len(WireBytes(register, n)) = n
  BY <1>3, FunctionIsSeq
<1>5. ASSUME NEW i \in 1 .. n, NEW k \in 0 .. 7
      PROVE (BitOf(WireBytes(register, n)[i], k) = 1) <=> 8 * (i - 1) + k \in register
  <2>1. PICK m \in Nat : m = i - 1
    OBVIOUS
  <2>2. WireBytes(register, n)[i] = OctetOf(register, m)
    BY <1>2, <2>1
  <2> QED BY <1>1, <2>1, <2>2
<1> QED BY <1>4, <1>5

LEMMA FrameIs ==
  ASSUME NEW d, Encodable(d)
  PROVE \E size \in 1 .. 7 : \E hdr \in 6 .. 31 : \E h \in Nat :
          /\ h = hdr + size - 2 /\ Header(d) \in Seq(Nat) /\ Len(Header(d)) = h
          /\ EncodeDpdu(d) \in Seq(Nat) /\ Len(EncodeDpdu(d)) >= h + 4
          /\ \A i \in 1 .. h : EncodeDpdu(d)[2 + i] = Header(d)[i]
          /\ \A i \in 1 .. 2 : EncodeDpdu(d)[h + 2 + i] = WireBytes(Crc16(Header(d)), 2)[i]
          /\ EncodeDpdu(d)[6] = 32 * size + hdr
<1>1. PICK size \in 1 .. 7, hdr \in 6 .. 31 :
        /\ Header(d) \in Seq(Nat) /\ Len(Header(d)) = hdr + size - 2
        /\ Header(d)[4] = 32 * size + hdr
  BY HeaderIs
<1>2. PICK h \in Nat : h = hdr + size - 2
  OBVIOUS
<1>3. PICK H \in Seq(Nat) : H = Header(d) /\ Len(H) = h
  BY <1>1, <1>2
<1>5. PICK W \in Seq(Nat) : W = WireBytes(Crc16(H), 2) /\ Len(W) = 2
  <2>1. PICK n \in Nat : n = 2
    OBVIOUS
  <2>2. WireBytes(Crc16(H), n) \in Seq(0 .. 255) /\ Len(WireBytes(Crc16(H), n)) = n
    BY WireIs
  <2>3. WireBytes(Crc16(H), n) \in Seq(Nat)
    BY <2>2, OctetsAreNumbers
  <2> QED BY <2>1, <2>2, <2>3
<1>6. PICK X \in Seq(Nat) :
        X = IF d.type \in DataCrcTypes THEN d.user_data \o WireBytes(Crc32(d.user_data), 4) ELSE <<>>
  <2>1. d.user_data \in Seq(0 .. 255)
    BY DEF Encodable
  <2>2. PICK n \in Nat : n = 4
    OBVIOUS
  <2>3. WireBytes(Crc32(d.user_data), n) \in Seq(0 .. 255)
    BY WireIs
  <2>4. PICK u \in Seq(0 .. 255) : u = d.user_data \o WireBytes(Crc32(d.user_data), 4)
    BY <2>1, <2>2, <2>3, ConcatProperties
  <2>5. u \in Seq(Nat)
    BY OctetsAreNumbers
  <2>6. <<>> \in Seq(Nat)
    OBVIOUS
  <2> QED BY <2>4, <2>5, <2>6
<1>7. PICK Y \in Seq(Nat) : Y = Sync /\ Len(Y) = 2
  <2>1. PICK n \in Nat : n = 2
    OBVIOUS
  <2>2. Sync \in [1 .. n -> Nat]
    BY <2>1 DEF Sync
  <2> QED BY <2>1, <2>2, FunctionIsSeq
<1>8. EncodeDpdu(d) = ((Y \o H) \o W) \o X
  BY <1>3, <1>5, <1>6, <1>7 DEF EncodeDpdu
<1>9. PICK two \in Nat : two = 2
  OBVIOUS
<1>10. PICK A : A = Y \o H
  OBVIOUS
<1>11. PICK B : B = A \o W
  OBVIOUS
<1>12. PICK n \in Nat : n = two + h
  OBVIOUS
<1>13. PICK m \in Nat : m = n + two
  OBVIOUS
<1>14. PICK x \in Nat : x = Len(X)
  BY LenProperties
<1>15. /\ A \in Seq(Nat) /\ Len(A) = two + h
       /\ (\A i \in 1 .. two : A[i] = Y[i]) /\ \A i \in 1 .. h : A[two + i] = H[i]
  <2>1. two = Len(Y) /\ h = Len(H)
    BY <1>3, <1>7, <1>9
  <2> QED BY <1>10, <2>1, SeqsJoin
<1>16. /\ B \in Seq(Nat) /\ Len(B) = n + two
       /\ (\A i \in 1 .. n : B[i] = A[i]) /\ \A i \in 1 .. two : B[n + i] = W[i]
  <2>1. n = Len(A) /\ two = Len(W)
    BY <1>5, <1>9, <1>12, <1>15
  <2>2. A \in Seq(Nat)
    BY <1>15
  <2> QED BY <1>11, <2>1, <2>2, SeqsJoin
<1>17. /\ EncodeDpdu(d) \in Seq(Nat) /\ Len(EncodeDpdu(d)) = m + x
       /\ \A i \in 1 .. m : EncodeDpdu(d)[i] = B[i]
  <2>1. m = Len(B) /\ EncodeDpdu(d) = B \o X
    BY <1>8, <1>10, <1>11, <1>13, <1>16
  <2>2. B \in Seq(Nat)
    BY <1>16
  <2>3. PICK o : o = EncodeDpdu(d)
    OBVIOUS
  <2>4. o = B \o X
    BY <2>1, <2>3
  <2>5. o \in Seq(Nat) /\ Len(o) = m + x /\ \A i \in 1 .. m : o[i] = B[i]
    BY <1>14, <2>1, <2>2, <2>4, SeqsJoin
  <2> QED BY <2>3, <2>5
<1>18. Len(EncodeDpdu(d)) >= h + 4
  BY <1>9, <1>12, <1>13, <1>17
<1>19. ASSUME NEW i \in 1 .. h PROVE EncodeDpdu(d)[2 + i] = H[i]
  <2>1. PICK j \in 1 .. n : j = two + i /\ j = 2 + i
    BY <1>9, <1>12
  <2>2. j \in 1 .. m
    BY <1>9, <1>13
  <2>3. EncodeDpdu(d)[j] = A[j]
    BY <1>16, <1>17, <2>2
  <2> QED BY <1>15, <2>1, <2>3
<1>20. ASSUME NEW i \in 1 .. 2 PROVE EncodeDpdu(d)[h + 2 + i] = W[i]
  <2>1. PICK j \in 1 .. m : j = n + i /\ j = h + 2 + i
    BY <1>9, <1>12, <1>13
  <2>2. i \in 1 .. two
    BY <1>9
  <2>3. EncodeDpdu(d)[j] = W[i]
    BY <1>16, <1>17, <2>1, <2>2
  <2> QED BY <2>1, <2>3
<1>21. EncodeDpdu(d)[6] = 32 * size + hdr
  <2>1. 4 \in 1 .. h /\ 2 + 4 = 6
    BY <1>2
  <2>2. EncodeDpdu(d)[2 + 4] = H[4]
    BY <1>19, <2>1
  <2> QED BY <1>1, <1>3, <2>1, <2>2
<1>22. WireBytes(Crc16(Header(d)), 2) = W
  BY <1>3, <1>5
<1> QED BY <1>2, <1>3, <1>17, <1>18, <1>19, <1>20, <1>21, <1>22

(* An octet is known by its bits.                                          *)
Weighed(o) ==
  128 * BitOf(o, 7) + 64 * BitOf(o, 6) + 32 * BitOf(o, 5) + 16 * BitOf(o, 4) + 8 * BitOf(o, 3)
    + 4 * BitOf(o, 2) + 2 * BitOf(o, 1) + BitOf(o, 0)

LEMMA EightBits ==
  ASSUME NEW o \in 0 .. 255
  PROVE Weighed(o) = o
<1>1. PICK a \in 0 .. 7, r \in 0 .. 31 : o = 32 * a + r
  <2>1. o \div 32 \in 0 .. 7 /\ o % 32 \in 0 .. 31 /\ o = 32 * (o \div 32) + (o % 32)
    OBVIOUS
  <2> QED BY <2>1
<1>2. BitOf(o, 7) = (a \div 4) % 2
  <2>1. BitOf(o, 7) = (o \div 128) % 2
    BY DEF BitOf
  <2> QED BY <1>1, <2>1
<1>3. BitOf(o, 6) = (a \div 2) % 2
  <2>1. BitOf(o, 6) = (o \div 64) % 2
    BY DEF BitOf
  <2> QED BY <1>1, <2>1
<1>4. BitOf(o, 5) = a % 2
  <2>1. BitOf(o, 5) = (o \div 32) % 2
    BY DEF BitOf
  <2> QED BY <1>1, <2>1
<1>5. BitOf(o, 4) = (r \div 16) % 2
  <2>1. BitOf(o, 4) = (o \div 16) % 2
    BY DEF BitOf
  <2>2. o \div 16 = 2 * a + (r \div 16)
    BY <1>1
  <2> QED BY <2>1, <2>2
<1>6. BitOf(o, 3) = (r \div 8) % 2
  <2>1. BitOf(o, 3) = (o \div 8) % 2
    BY DEF BitOf
  <2>2. o \div 8 = 4 * a + (r \div 8)
    BY <1>1
  <2> QED BY <2>1, <2>2
<1>7. BitOf(o, 2) = (r \div 4) % 2
  <2>1. BitOf(o, 2) = (o \div 4) % 2
    BY DEF BitOf
  <2>2. o \div 4 = 8 * a + (r \div 4)
    BY <1>1
  <2> QED BY <2>1, <2>2
<1>8. BitOf(o, 1) = (r \div 2) % 2
  <2>1. BitOf(o, 1) = (o \div 2) % 2
    BY DEF BitOf
  <2>2. o \div 2 = 16 * a + (r \div 2)
    BY <1>1
  <2> QED BY <2>1, <2>2
<1>9. BitOf(o, 0) = r % 2
  <2>1. BitOf(o, 0) = (o \div 1) % 2
    BY DEF BitOf
  <2> QED BY <1>1, <2>1
<1>10. PICK a1 \in Int, a2 \in Int, a3 \in Int :
         a1 = (a \div 4) % 2 /\ a2 = (a \div 2) % 2 /\ a3 = a % 2
  OBVIOUS
<1>11. PICK r1 \in Int, r2 \in Int, r3 \in Int, r4 \in Int, r5 \in Int :
         /\ r1 = (r \div 16) % 2 /\ r2 = (r \div 8) % 2 /\ r3 = (r \div 4) % 2
         /\ r4 = (r \div 2) % 2 /\ r5 = r % 2
  OBVIOUS
<1>12. 4 * a1 + 2 * a2 + a3 = a
  BY <1>10, ThreeBits
<1>13. 16 * r1 + 8 * r2 + 4 * r3 + 2 * r4 + r5 = r
  BY <1>11, FiveBits
<1>14. 128 * a1 + 64 * a2 + 32 * a3 + 16 * r1 + 8 * r2 + 4 * r3 + 2 * r4 + r5 = o
  BY <1>1, <1>12, <1>13
<1> QED BY <1>2, <1>3, <1>4, <1>5, <1>6, <1>7, <1>8, <1>9, <1>10, <1>11, <1>14 DEF Weighed

(* The length of the addresses and of the header, out of their octet.      *)
LEMMA OffsetIs ==
  ASSUME NEW o, NEW size \in 1 .. 7, NEW hdr \in 6 .. 31, o[6] = 32 * size + hdr
  PROVE CrcOffset(o) = hdr + size
<1>1. ASSUME NEW p, NEW x \in Nat, x = ReadOne(o, p), p.hi - p.lo + 1 \in 0 .. 31
      PROVE Read(o, <<p>>) = x
  <2> DEFINE places == <<p>>
             After(g) == [n \in 0 .. Len(places) |->
                            IF n = 0 THEN 0
                            ELSE g[n - 1] * 2^(places[n].hi - places[n].lo + 1) + ReadOne(o, places[n])]
             a == CHOOSE g : g = After(g)
             f == [n \in 0 .. Len(places) |-> IF n = 0 THEN 0 ELSE x]
  <2>1. Read(o, places) = a[Len(places)]
    BY DEF Read
  <2>2. Len(places) = 1 /\ places[1] = p
    OBVIOUS
  <2>3. PICK e \in Nat : e = 2^(p.hi - p.lo + 1)
    BY <1>1, DivisorIs
  <2> HIDE DEF places
  <2>4. f = After(f)
    <3>1. ASSUME NEW n \in 0 .. Len(places)
          PROVE f[n] = IF n = 0 THEN 0
                       ELSE f[n - 1] * 2^(places[n].hi - places[n].lo + 1) + ReadOne(o, places[n])
      <4>1. CASE n = 0
        BY <4>1
      <4>2. CASE n # 0
        <5>1. n = 1 /\ n - 1 = 0
          BY <2>2, <4>2
        <5>2. f[0] = 0 /\ f[n] = x
          BY <2>2, <5>1
        <5>3. f[0] * e + x = x
          BY <5>2
        <5> QED BY <1>1, <2>2, <2>3, <5>1, <5>2, <5>3
      <4> QED BY <4>1, <4>2
    <3> QED BY <3>1
  <2>5. a = After(a)
    <3> HIDE DEF After
    <3> QED BY <2>4
  <2> HIDE DEF a
  <2>6. \A n \in 0 .. 1 :
          a[n] = IF n = 0 THEN 0
                 ELSE a[n - 1] * 2^(places[n].hi - places[n].lo + 1) + ReadOne(o, places[n])
    BY <2>2, <2>5
  <2>7. a[0] = 0
    BY <2>6
  <2>8. PICK one \in 0 .. 1 : one = 1 /\ one - 1 = 0
    OBVIOUS
  <2>9. a[one] = a[one - 1] * 2^(places[one].hi - places[one].lo + 1) + ReadOne(o, places[one])
    BY <2>6, <2>8
  <2>10. a[one] = 0 * e + x
    BY <1>1, <2>2, <2>3, <2>7, <2>8, <2>9
  <2> QED BY <2>1, <2>2, <2>8, <2>10 DEF places
<1>2. AddrSize(o) = size
  <2>1. PICK p : p = [at |-> 5, hi |-> 7, lo |-> 5]
    OBVIOUS
  <2>2. p.hi - p.lo + 1 = 3 /\ p.lo = 5 /\ p.at + 1 = 6
    BY <2>1
  <2>3. ReadOne(o, p) = (o[6] \div 2^5) % 2^3
    BY <2>2 DEF ReadOne
  <2>4. ReadOne(o, p) = ((32 * size + hdr) \div 32) % 8
    BY <2>3
  <2>5. ReadOne(o, p) = size
    BY <2>4
  <2>6. p.hi - p.lo + 1 \in 0 .. 31
    BY <2>2
  <2>7. Read(o, <<p>>) = size
    BY <1>1, <2>5, <2>6
  <2> QED BY <2>1, <2>7 DEF AddrSize, At
<1>3. HdrSize(o) = hdr
  <2>1. PICK p : p = [at |-> 5, hi |-> 4, lo |-> 0]
    OBVIOUS
  <2>2. p.hi - p.lo + 1 = 5 /\ p.lo = 0 /\ p.at + 1 = 6
    BY <2>1
  <2>3. ReadOne(o, p) = (o[6] \div 2^0) % 2^5
    BY <2>2 DEF ReadOne
  <2>4. ReadOne(o, p) = ((32 * size + hdr) \div 1) % 32
    BY <2>3
  <2>5. ReadOne(o, p) = hdr
    BY <2>4
  <2>6. p.hi - p.lo + 1 \in 0 .. 31
    BY <2>2
  <2>7. Read(o, <<p>>) = hdr
    BY <1>1, <2>5, <2>6
  <2> QED BY <2>1, <2>7 DEF HdrSize, At
<1> QED BY <1>2, <1>3 DEF CrcOffset

Flips(o, z, first, pattern) ==
  \A i \in 1 .. Len(o) : \A k \in 0 .. 7 :
    (BitOf(z[i], k) = 1) <=> ((BitOf(o[i], k) = 1) # (8 * (i - 1) + k - first \in pattern))

LEMMA DamagedIs ==
  ASSUME NEW o, o \in Seq(Nat), NEW first \in Nat, NEW pattern, NEW z, z = Damaged(o, first, pattern)
  PROVE z \in Seq(0 .. 255) /\ Len(z) = Len(o) /\ Flips(o, z, first, pattern)
<1> DEFINE Flipped(i) ==
             [k \in 1 .. 8 |->
                LET bit == (o[i] \div 2^(8 - k)) % 2
                IN  IF 8 * i - k - first \in pattern THEN 1 - bit ELSE bit]
           y == [i \in DOMAIN o |-> Number(Flipped(i))]
<1>1. Damaged(o, first, pattern) = y \o <<>>
  BY DEF Damaged, Kept
<1>2. PICK l \in Nat : l = Len(o) /\ DOMAIN o = 1 .. l
  BY LenProperties
<1>3. ASSUME NEW i \in 1 .. l
      PROVE /\ Number(Flipped(i)) \in 0 .. 255
            /\ \A k \in 0 .. 7 :
                 (BitOf(Number(Flipped(i)), k) = 1)
                   <=> ((BitOf(o[i], k) = 1) # (8 * (i - 1) + k - first \in pattern))
  <2>1. PICK x \in Nat : x = o[i]
    BY <1>2, ElementOfSeq
  <2>2. PICK b : b = Flipped(i)
    OBVIOUS
  <2>3. \A k \in 1 .. 8 : b[k] = IF 8 * i - k - first \in pattern THEN 1 - BitOf(x, 8 - k) ELSE BitOf(x, 8 - k)
    BY <2>1, <2>2 DEF BitOf
  <2>4. \A k \in 1 .. 8 : BitOf(x, 8 - k) \in {0, 1}
    <3>1. \A k \in 1 .. 8 : 8 - k \in 0 .. 7
      OBVIOUS
    <3> QED BY <3>1, BitIs
  <2>5. b \in Binary /\ Len(b) = 8
    <3>1. b = [k \in 1 .. 8 |-> b[k]]
      BY <2>2
    <3>2. ASSUME NEW k \in 1 .. 8 PROVE b[k] \in {0, 1}
      <4>1. PICK c \in {0, 1} : c = BitOf(x, 8 - k)
        BY <2>4
      <4>2. b[k] = IF 8 * i - k - first \in pattern THEN 1 - c ELSE c
        BY <2>3, <4>1
      <4>3. 1 - c \in {0, 1}
        OBVIOUS
      <4> QED BY <4>2, <4>3
    <3>3. PICK e \in Nat : e = 8
      OBVIOUS
    <3>4. b \in [1 .. e -> {0, 1}]
      BY <3>1, <3>2, <3>3
    <3> QED BY <3>3, <3>4, FunctionIsSeq DEF Binary
  <2>6. Number(b) \in 0 .. 255 /\ \A k \in 1 .. 8 : BitOf(Number(b), 8 - k) = b[k]
    BY <2>5, NumberIs
  <2>7. ASSUME NEW k \in 0 .. 7
        PROVE (BitOf(Number(b), k) = 1)
                <=> ((BitOf(x, k) = 1) # (8 * (i - 1) + k - first \in pattern))
    <3>1. PICK j \in 1 .. 8 : j = 8 - k
      OBVIOUS
    <3>2. 8 - j = k /\ 8 * i - j - first = 8 * (i - 1) + k - first
      BY <3>1
    <3>3. BitOf(Number(b), k) = b[j]
      BY <2>6, <3>2
    <3>4. b[j] = IF 8 * (i - 1) + k - first \in pattern THEN 1 - BitOf(x, k) ELSE BitOf(x, k)
      BY <2>3, <3>2
    <3>5. BitOf(x, k) \in {0, 1}
      BY BitIs
    <3> QED BY <3>3, <3>4, <3>5
  <2> QED BY <2>1, <2>2, <2>6, <2>7
<1> HIDE DEF Flipped
<1>4. y \in [1 .. l -> 0 .. 255]
  BY <1>2, <1>3
<1>5. y \in Seq(0 .. 255) /\ Len(y) = l
  BY <1>4, FunctionIsSeq
<1>6. y \o <<>> = y
  <2> HIDE DEF y
  <2> QED BY <1>5, ConcatEmptySeq
<1>7. \A i \in 1 .. l : y[i] = Number(Flipped(i))
  BY <1>2
<1> HIDE DEF y
<1>9. z = y
  BY <1>1, <1>6
<1>10. z \in Seq(0 .. 255) /\ Len(z) = Len(o)
  BY <1>2, <1>5, <1>9
<1>11. ASSUME NEW i \in 1 .. Len(o), NEW k \in 0 .. 7
       PROVE (BitOf(z[i], k) = 1) <=> ((BitOf(o[i], k) = 1) # (8 * (i - 1) + k - first \in pattern))
  <2>1. z[i] = Number(Flipped(i)) /\ i \in 1 .. l
    BY <1>2, <1>7, <1>9
  <2> QED BY <1>3, <2>1
<1> QED BY <1>10, <1>11 DEF Flips

-----------------------------------------------------------------------------
(* What encode_dpdu sends is accepted: the check decode_dpdu makes of the  *)
(* header it finds by the two lengths is the one that was sent.            *)
THEOREM IntactIsAccepted ==
  ASSUME NEW d, Encodable(d)
  PROVE HeaderCrcOk(EncodeDpdu(d))
<1>1. PICK size \in 1 .. 7, hdr \in 6 .. 31, h \in Nat :
        /\ h = hdr + size - 2 /\ Header(d) \in Seq(Nat) /\ Len(Header(d)) = h
        /\ EncodeDpdu(d) \in Seq(Nat) /\ Len(EncodeDpdu(d)) >= h + 4
        /\ \A i \in 1 .. h : EncodeDpdu(d)[2 + i] = Header(d)[i]
        /\ \A i \in 1 .. 2 : EncodeDpdu(d)[h + 2 + i] = WireBytes(Crc16(Header(d)), 2)[i]
        /\ EncodeDpdu(d)[6] = 32 * size + hdr
  BY FrameIs
<1>2. PICK o \in Seq(Nat) : o = EncodeDpdu(d)
  BY <1>1
<1>3. PICK x \in Seq(Nat) : x = Header(d)
  BY <1>1
<1>4. PICK w \in Seq(Nat) : w = WireBytes(Crc16(x), 2) /\ Len(w) = 2
  <2>1. PICK two \in Nat : two = 2
    OBVIOUS
  <2>2. WireBytes(Crc16(x), two) \in Seq(0 .. 255) /\ Len(WireBytes(Crc16(x), two)) = two
    BY WireIs
  <2>3. WireBytes(Crc16(x), two) \in Seq(Nat)
    BY <2>2, OctetsAreNumbers
  <2> QED BY <2>1, <2>2, <2>3
<1>5. /\ h = hdr + size - 2 /\ Len(x) = h /\ o[6] = 32 * size + hdr
      /\ (\A i \in 1 .. h : o[2 + i] = x[i]) /\ \A i \in 1 .. 2 : o[h + 2 + i] = w[i]
  BY <1>1, <1>2, <1>3, <1>4
<1>6. PICK l \in Nat : l = Len(o) /\ l >= h + 4
  <2>1. Len(o) \in Nat
    BY LenProperties
  <2> QED BY <1>1, <1>2, <2>1
<1>7. \A i \in 1 .. l : o[i] \in Nat
  BY <1>6, ElementOfSeq
<1>8. CrcOffset(o) = h + 2
  <2>1. o[6] = 32 * size + hdr /\ h = hdr + size - 2
    BY <1>5
  <2>2. CrcOffset(o) = hdr + size
    BY <2>1, OffsetIs
  <2> QED BY <2>1, <2>2
<1>9. CheckedHeader(o) = x
  <2>1. PICK from \in Int : from = 3
    OBVIOUS
  <2>2. PICK to \in Int : to = h + 2
    OBVIOUS
  <2>3. PICK z : z = SubSeq(o, from, to)
    OBVIOUS
  <2>4. \A i \in from .. to : o[i] \in Nat
    <3>1. \A i \in from .. to : i \in 1 .. l
      BY <1>6, <2>1, <2>2
    <3> QED BY <1>7, <3>1
  <2>5. /\ z \in Seq(Nat) /\ Len(z) = IF from <= to THEN to - from + 1 ELSE 0
        /\ \A i \in 1 .. to - from + 1 : z[i] = o[from + i - 1]
    BY <2>3, <2>4, SubSeqProperties
  <2>6. from <= to /\ to - from + 1 = h
    <3>1. h = hdr + size - 2
      BY <1>5
    <3> QED BY <2>1, <2>2, <3>1
  <2>7. ASSUME NEW n \in 1 .. h PROVE z[n] = x[n]
    <3>1. from + n - 1 = 2 + n
      BY <2>1
    <3>2. z[n] = o[from + n - 1]
      BY <2>5, <2>6
    <3> QED BY <1>5, <3>1, <3>2
  <2>8. Len(z) = h
    BY <2>5, <2>6
  <2>9. z = x
    BY <1>5, <2>5, <2>7, <2>8, SeqEqual
  <2> QED BY <1>8, <2>1, <2>2, <2>3, <2>9 DEF CheckedHeader
<1>10. SubSeq(o, CrcOffset(o) + 1, CrcOffset(o) + 2) = w
  <2>1. PICK from \in Int : from = h + 2 + 1
    OBVIOUS
  <2>2. PICK to \in Int : to = h + 2 + 2
    OBVIOUS
  <2>3. PICK z : z = SubSeq(o, from, to)
    OBVIOUS
  <2>4. \A i \in from .. to : o[i] \in Nat
    <3>1. \A i \in from .. to : i \in 1 .. l
      BY <1>6, <2>1, <2>2
    <3> QED BY <1>7, <3>1
  <2>5. /\ z \in Seq(Nat) /\ Len(z) = IF from <= to THEN to - from + 1 ELSE 0
        /\ \A i \in 1 .. to - from + 1 : z[i] = o[from + i - 1]
    BY <2>3, <2>4, SubSeqProperties
  <2>6. from <= to /\ to - from + 1 = 2
    BY <2>1, <2>2
  <2>7. ASSUME NEW i \in 1 .. 2 PROVE z[i] = w[i]
    <3>1. from + i - 1 = h + 2 + i
      BY <2>1
    <3>2. z[i] = o[from + i - 1]
      BY <2>5, <2>6
    <3> QED BY <1>5, <3>1, <3>2
  <2>8. Len(z) = 2
    BY <2>5, <2>6
  <2>9. z = w
    BY <1>4, <2>5, <2>7, <2>8, SeqEqual
  <2> QED BY <1>8, <2>1, <2>2, <2>3, <2>9
<1>11. HeaderCrcOk(o)
  BY <1>4, <1>9, <1>10 DEF HeaderCrcOk
<1> QED BY <1>2, <1>11

(* No burst of up to 16 bits is: whatever bits are inverted within 16 of   *)
(* the header, its addresses and its check, but for the two lengths, the   *)
(* check no longer holds (crc16_ccitt, over what decode_dpdu checks).      *)
THEOREM BurstIsSeen ==
  ASSUME NEW d, Encodable(d), NEW pattern \in SUBSET (0 .. 15), 0 \in pattern,
         NEW first \in HeaderBits(d), \A k \in pattern : first + k \in HeaderBits(d)
  PROVE ~HeaderCrcOk(Damaged(EncodeDpdu(d), first, pattern))
<1>1. PICK size \in 1 .. 7, hdr \in 6 .. 31, h \in Nat :
        /\ h = hdr + size - 2 /\ Header(d) \in Seq(Nat) /\ Len(Header(d)) = h
        /\ EncodeDpdu(d) \in Seq(Nat) /\ Len(EncodeDpdu(d)) >= h + 4
        /\ \A i \in 1 .. h : EncodeDpdu(d)[2 + i] = Header(d)[i]
        /\ \A i \in 1 .. 2 : EncodeDpdu(d)[h + 2 + i] = WireBytes(Crc16(Header(d)), 2)[i]
        /\ EncodeDpdu(d)[6] = 32 * size + hdr
  BY FrameIs
<1>2. PICK o : o = EncodeDpdu(d) /\ o \in Seq(Nat)
  BY <1>1
<1>3. PICK x : x = Header(d)
  BY <1>1
<1>4. /\ h = hdr + size - 2 /\ Len(x) = h /\ o[6] = 32 * size + hdr
      /\ (\A i \in 1 .. h : o[2 + i] = x[i])
      /\ \A i \in 1 .. 2 : o[h + 2 + i] = WireBytes(Crc16(x), 2)[i]
  BY <1>1, <1>2, <1>3
<1>5. PICK l \in Nat : l = Len(o) /\ l >= h + 4
  <2>1. Len(o) \in Nat
    BY <1>2, LenProperties
  <2> QED BY <1>1, <1>2, <2>1
<1>6. PICK B : B = HeaderBits(d)
  OBVIOUS
<1>7. B = (16 .. 39) \cup (48 .. 8 * (4 + h) - 1)
  BY <1>1, <1>6 DEF HeaderBits
<1>8. SUFFICES ASSUME HeaderCrcOk(Damaged(o, first, pattern)) PROVE FALSE
  BY <1>2
<1>9. first \in B /\ \A k \in pattern : first + k \in B
  BY <1>6
<1>10. first \in Nat /\ first >= 16
  BY <1>7, <1>9
<1>11. PICK y : y = Damaged(o, first, pattern)
  OBVIOUS
<1>12. /\ y \in Seq(0 .. 255) /\ Len(y) = l
       /\ \A i \in 1 .. l : \A k \in 0 .. 7 :
            (BitOf(y[i], k) = 1) <=> ((BitOf(o[i], k) = 1) # (8 * (i - 1) + k - first \in pattern))
  <2>1. o \in Seq(Nat) /\ first \in Nat
    BY <1>2, <1>10
  <2>2. y \in Seq(0 .. 255) /\ Len(y) = Len(o) /\ Flips(o, y, first, pattern)
    BY <1>11, <2>1, DamagedIs
  <2> QED BY <1>5, <2>2 DEF Flips
<1>13. \A i \in 1 .. l : y[i] \in 0 .. 255
  <2>1. Len(y) = l
    BY <1>12
  <2>2. \A i \in 1 .. Len(y) : y[i] \in 0 .. 255
    BY <1>12, ElementOfSeq
  <2> QED BY <2>1, <2>2
<1>14. CrcOffset(y) = h + 2
  <2>0. h = hdr + size - 2 /\ o[6] = 32 * size + hdr
    BY <1>4
  <2>1. PICK s \in 1 .. l : s = 6
    BY <1>5, <2>0
  <2>2. PICK a \in 0 .. 255 : a = o[s]
    <3>1. 32 * size + hdr \in 0 .. 255
      OBVIOUS
    <3>2. o[s] = 32 * size + hdr
      BY <2>0, <2>1
    <3> QED BY <3>1, <3>2
  <2>3. PICK b \in 0 .. 255 : b = y[s]
    BY <1>13
  <2>4. ASSUME NEW k \in 0 .. 7 PROVE BitOf(b, k) = BitOf(a, k)
    <3>1. 8 * (s - 1) + k - first \notin pattern
      <4>1. ASSUME 8 * (s - 1) + k - first \in pattern PROVE FALSE
        <5>1. PICK e \in pattern : e = 8 * (s - 1) + k - first
          BY <4>1
        <5>2. first + e = 40 + k
          BY <1>10, <2>1, <5>1
        <5>3. 40 + k \in B
          BY <1>9, <5>2
        <5> QED BY <1>7, <5>3
      <4> QED BY <4>1
    <3>2. (BitOf(b, k) = 1) <=> (BitOf(a, k) = 1)
      <4>1. (BitOf(y[s], k) = 1) <=> ((BitOf(o[s], k) = 1) # (8 * (s - 1) + k - first \in pattern))
        BY <1>12
      <4> QED BY <2>2, <2>3, <3>1, <4>1
    <3>3. BitOf(b, k) \in {0, 1} /\ BitOf(a, k) \in {0, 1}
      BY BitIs
    <3> QED BY <3>2, <3>3
  <2>5. a = b
    <3>1. Weighed(b) = Weighed(a)
      BY <2>4 DEF Weighed
    <3>2. Weighed(a) = a
      BY EightBits
    <3>3. Weighed(b) = b
      BY EightBits
    <3> QED BY <3>1, <3>2, <3>3
  <2>6. y[6] = 32 * size + hdr
    BY <1>4, <2>1, <2>2, <2>3, <2>5
  <2>7. CrcOffset(y) = hdr + size
    BY <2>6, OffsetIs
  <2> QED BY <1>4, <2>7
<1>15. PICK z : z = CheckedHeader(y)
  OBVIOUS
<1>16. Len(z) = h /\ \A n \in 1 .. h : z[n] = y[2 + n]
  <2>1. PICK from \in Int : from = 3
    OBVIOUS
  <2>2. PICK to \in Int : to = h + 2
    OBVIOUS
  <2>3. z = SubSeq(y, from, to)
    BY <1>14, <1>15, <2>1, <2>2 DEF CheckedHeader
  <2>4. \A i \in from .. to : y[i] \in 0 .. 255
    <3>1. \A i \in from .. to : i \in 1 .. l
      BY <1>5, <2>1, <2>2
    <3> QED BY <1>13, <3>1
  <2>5. /\ Len(z) = IF from <= to THEN to - from + 1 ELSE 0
        /\ \A i \in 1 .. to - from + 1 : z[i] = y[from + i - 1]
    BY <2>3, <2>4, SubSeqProperties
  <2>6. from <= to /\ to - from + 1 = h
    BY <1>4, <2>1, <2>2
  <2>7. ASSUME NEW n \in 1 .. h PROVE z[n] = y[2 + n]
    <3>1. from + n - 1 = 2 + n
      BY <2>1
    <3>2. z[n] = y[from + n - 1]
      BY <2>5, <2>6
    <3> QED BY <3>1, <3>2
  <2> QED BY <2>5, <2>6, <2>7
<1>17. PICK w : w = WireBytes(Crc16(z), 2)
  OBVIOUS
<1>18. \A i \in 1 .. 2 : y[h + 2 + i] = w[i]
  <2>1. PICK from \in Int : from = h + 2 + 1
    OBVIOUS
  <2>2. PICK to \in Int : to = h + 2 + 2
    OBVIOUS
  <2>3. w = SubSeq(y, from, to)
    BY <1>8, <1>11, <1>14, <1>15, <1>17, <2>1, <2>2 DEF HeaderCrcOk
  <2>4. \A i \in from .. to : y[i] \in 0 .. 255
    <3>1. \A i \in from .. to : i \in 1 .. l
      BY <1>5, <2>1, <2>2
    <3> QED BY <1>13, <3>1
  <2>5. \A i \in 1 .. to - from + 1 : w[i] = y[from + i - 1]
    BY <2>3, <2>4, SubSeqProperties
  <2>6. to - from + 1 = 2
    BY <2>1, <2>2
  <2>7. ASSUME NEW i \in 1 .. 2 PROVE y[h + 2 + i] = w[i]
    <3>1. from + i - 1 = h + 2 + i
      BY <2>1
    <3>2. w[i] = y[from + i - 1]
      BY <2>5, <2>6
    <3> QED BY <3>1, <3>2
  <2> QED BY <2>7
<1>19. PICK start \in Nat : start = first - 16
  BY <1>10
<1>20. PICK burst : burst = {start + e : e \in pattern}
  OBVIOUS
<1>21. burst \in SUBSET (start .. start + 15) /\ start \in burst
  <2>1. start + 0 = start
    OBVIOUS
  <2>2. start \in burst
    BY <1>20, <2>1
  <2>3. ASSUME NEW c \in burst PROVE c \in start .. start + 15
    <3>1. PICK e \in pattern : c = start + e
      BY <1>20
    <3>2. e \in 0 .. 15
      BY <1>9
    <3> QED BY <3>1, <3>2
  <2> QED BY <2>2, <2>3
<1>22. ASSUME NEW c \in Int PROVE c \in burst <=> c + 16 - first \in pattern
  <2>1. ASSUME c \in burst PROVE c + 16 - first \in pattern
    <3>1. PICK e \in pattern : c = start + e
      BY <1>20, <2>1
    <3>2. e \in 0 .. 15
      BY <1>9
    <3>3. c + 16 - first = e
      BY <1>10, <1>19, <3>1, <3>2
    <3> QED BY <3>3
  <2>2. ASSUME c + 16 - first \in pattern PROVE c \in burst
    <3>1. PICK e \in pattern : e = c + 16 - first
      BY <2>2
    <3>2. c = start + e
      BY <1>10, <1>19, <3>1
    <3> QED BY <1>20, <3>2
  <2> QED BY <2>1, <2>2
<1>23. ASSUME NEW n \in 1 .. h, NEW k \in 0 .. 7
       PROVE (BitOf(z[n], k) = 1) <=> ((BitOf(x[n], k) = 1) # (8 * (n - 1) + k \in burst))
  <2>1. PICK i \in 1 .. l : i = 2 + n
    BY <1>5
  <2>2. PICK c \in Int : c = 8 * (n - 1) + k
    OBVIOUS
  <2>3. 8 * (i - 1) + k - first = c + 16 - first
    BY <1>10, <2>1, <2>2
  <2>4. z[n] = y[i] /\ x[n] = o[i]
    BY <1>4, <1>16, <2>1
  <2>5. (BitOf(y[i], k) = 1) <=> ((BitOf(o[i], k) = 1) # (8 * (i - 1) + k - first \in pattern))
    BY <1>12
  <2>6. c \in burst <=> c + 16 - first \in pattern
    BY <1>22
  <2> QED BY <2>2, <2>3, <2>4, <2>5, <2>6
<1>24. PICK q \in Nat : q = 8 * h
  OBVIOUS
<1>25. Apart(Crc16(x), Crc16(z), burst, start, q)
  <2>1. Len(x) \in Nat /\ Len(z) = Len(x)
    BY <1>4, <1>16
  <2>2. \A n \in 1 .. Len(x) : \A k \in 0 .. 7 :
          (BitOf(z[n], k) = 1) <=> ((BitOf(x[n], k) = 1) # (8 * (n - 1) + k \in burst))
    BY <1>4, <1>23
  <2>3. Apart(Crc16(x), Crc16(z), burst, start, 8 * Len(x))
    BY <1>21, <2>1, <2>2, ChecksApart
  <2> QED BY <1>4, <1>24, <2>3
<1>26. Crc16(x) \in Registers /\ Crc16(z) \in Registers
  <2>1. ASSUME NEW s, Len(s) \in Nat PROVE Crc16(s) \in Registers
    <3>1. PICK g \in [0 .. Len(s) -> Registers] : Crc16(s) = g[Len(s)]
      BY <2>1, RegisterIs
    <3>2. Len(s) \in 0 .. Len(s)
      BY <2>1
    <3> QED BY <3>1, <3>2
  <2> QED BY <1>4, <1>16, <2>1
<1>27. \A e \in burst : e < q + 16
  <2>1. ASSUME NEW c \in burst PROVE c < q + 16
    <3>1. PICK e \in pattern : c = start + e
      BY <1>20
    <3>2. e \in 0 .. 15 /\ first + e \in B
      BY <1>9
    <3>3. first + e <= 8 * (4 + h) - 1
      BY <1>4, <1>7, <1>10, <3>2
    <3> QED BY <1>10, <1>19, <1>24, <3>1, <3>2, <3>3
  <2> QED BY <2>1
<1>28. ASSUME NEW j \in 0 .. 15
       PROVE (j \in Crc16(z)) <=> ((j \in Crc16(x)) # (q + j \in burst))
  <2>1. PICK i \in 1 .. 2, k \in 0 .. 7 : j = 8 * (i - 1) + k
    <3>1. CASE j < 8
      <4>1. j \in 0 .. 7 /\ j = 8 * (1 - 1) + j
        BY <3>1
      <4> QED BY <4>1
    <3>2. CASE ~(j < 8)
      <4>1. j - 8 \in 0 .. 7 /\ j = 8 * (2 - 1) + (j - 8)
        BY <3>2
      <4> QED BY <4>1
    <3> QED BY <3>1, <3>2
  <2>2. PICK m \in 1 .. l : m = h + 2 + i
    BY <1>5
  <2>3. PICK c \in Int : c = q + j
    BY <1>24
  <2>4. 8 * (m - 1) + k - first = c + 16 - first
    BY <1>10, <1>24, <2>1, <2>2, <2>3
  <2>5. (BitOf(y[m], k) = 1) <=> ((BitOf(o[m], k) = 1) # (8 * (m - 1) + k - first \in pattern))
    BY <1>12
  <2>6. PICK two \in Nat : two = 2
    OBVIOUS
  <2>7. ASSUME NEW r PROVE (BitOf(WireBytes(r, 2)[i], k) = 1) <=> j \in r
    <3>1. i \in 1 .. two
      BY <2>6
    <3>2. (BitOf(WireBytes(r, two)[i], k) = 1) <=> 8 * (i - 1) + k \in r
      BY <3>1, WireIs
    <3> QED BY <2>1, <2>6, <3>2
  <2>8. y[m] = WireBytes(Crc16(z), 2)[i] /\ o[m] = WireBytes(Crc16(x), 2)[i]
    BY <1>4, <1>17, <1>18, <2>2
  <2>9. (j \in Crc16(z)) <=> (BitOf(y[m], k) = 1)
    BY <2>7, <2>8
  <2>10. (j \in Crc16(x)) <=> (BitOf(o[m], k) = 1)
    BY <2>7, <2>8
  <2>11. c \in burst <=> c + 16 - first \in pattern
    BY <1>22
  <2> QED BY <2>3, <2>4, <2>5, <2>9, <2>10, <2>11
<1>29. ~ \A j \in 0 .. 15 : (j \in Crc16(z)) <=> ((j \in Crc16(x)) # (q + j \in burst))
  <2>1. PICK r \in Registers : r = Crc16(x)
    BY <1>26
  <2>2. PICK s \in Registers : s = Crc16(z)
    BY <1>26
  <2>3. Apart(r, s, burst, start, q)
    BY <1>25, <2>1, <2>2
  <2>4. ~ \A j \in 0 .. 15 : (j \in s) <=> ((j \in r) # (q + j \in burst))
    <3>1. burst \in SUBSET (start .. start + 15)
      BY <1>21
    <3>2. start \in burst
      BY <1>21
    <3>3. ASSUME \A j \in 0 .. 15 : (j \in s) <=> ((j \in r) # (q + j \in burst)) PROVE FALSE
      <4>1. q <= start /\ r = s
        <5>1. ASSUME NEW j \in 0 .. 15, ((j \in r) # (j \in s)) # (q + j \in burst) PROVE FALSE
          <6>1. (j \in s) <=> ((j \in r) # (q + j \in burst))
            BY <3>3
          <6> QED BY <5>1, <6>1
        <5>2. (q <= start /\ r = s) \/ \E j \in 0 .. 15 : ((j \in r) # (j \in s)) # (q + j \in burst)
          BY <2>3 DEF Apart
        <5> QED BY <5>1, <5>2
      <4>2. start < q + 16
        BY <1>27, <3>2
      <4>3. PICK j \in 0 .. 15 : j = start - q
        BY <4>1, <4>2
      <4>4. q + j = start
        BY <4>3
      <4> QED BY <3>2, <3>3, <4>1, <4>4
    <3> QED BY <3>3
  <2> QED BY <2>1, <2>2, <2>4
<1> QED BY <1>28, <1>29

(* The patterns tried are such bursts.                                     *)
LEMMA PatternIs ==
  ASSUME NEW pattern \in Patterns
  PROVE pattern \in SUBSET (0 .. 15) /\ 0 \in pattern
<1>1. pattern = {0} \/ pattern = {0, 1} \/ pattern = {0, 15} \/ pattern = {0, 7, 8} \/ pattern = 0 .. 15
  BY DEF Patterns
<1>2. CASE pattern = {0}
  BY <1>2
<1>3. CASE pattern = {0, 1}
  BY <1>3
<1>4. CASE pattern = {0, 15}
  BY <1>4
<1>5. CASE pattern = {0, 7, 8}
  BY <1>5
<1>6. CASE pattern = 0 .. 15
  BY <1>6
<1> QED BY <1>1, <1>2, <1>3, <1>4, <1>5, <1>6

(* So damage to a frame is seen, of whatever D_PDUs there are: the         *)
(* message of a D_PDU is one that encode_dpdu encodes.                     *)
THEOREM DamageSeen == CodecsSpec => []DamageIsSeen
<1> DEFINE Inv == Is("dpdu") => message[2] \in CoMessages["dpdu"]
<1>1. CodecsInit => Inv
  BY DEF CodecsInit, Is
<1>2. Inv /\ [CodecsNext]_message => Inv'
  <2>1. SUFFICES ASSUME Inv, [CodecsNext]_message, Is("dpdu")' PROVE (message[2] \in CoMessages["dpdu"])'
    OBVIOUS
  <2>2. CASE message' = <<>> \/ UNCHANGED message
    BY <2>1, <2>2 DEF Is
  <2>3. ASSUME NEW family \in Families, message' = <<family>> PROVE FALSE
    BY <2>1, <2>3 DEF Is
  <2>4. ASSUME NEW m \in CoMessages[message[1]], message' = <<message[1], m>>
        PROVE (message[2] \in CoMessages["dpdu"])'
    <3>1. message[1] = "dpdu" /\ message'[2] = m
      BY <2>1, <2>4 DEF Is
    <3> QED BY <2>4, <3>1
  <2> QED BY <2>1, <2>2, <2>3, <2>4 DEF CodecsNext
<1>3. Inv => DamageIsSeen
  <2>1. ASSUME NEW d \in CoMessages["dpdu"] PROVE DamageIsSeenIn(d)
    <3>1. Encodable(d)
      BY DpdusAssumption
    <3>2. ASSUME NEW pattern \in Patterns PROVE pattern \in SUBSET (0 .. 15) /\ 0 \in pattern
      BY PatternIs
    <3> QED BY <3>1, <3>2, BurstIsSeen DEF DamageIsSeenIn
  <2> QED BY <2>1 DEF DamageIsSeen
<1> QED BY <1>1, <1>2, <1>3, PTL DEF CodecsSpec
=============================================================================
