---------------------------- MODULE Streams_proofs ----------------------------
(***************************************************************************)
(* What is taken from pieces does not depend on how they come: for every   *)
(* stream however it is cut, and for every C_PDU in whatever order and     *)
(* however often its segments arrive.                                      *)
(***************************************************************************)
EXTENDS Streams, Integers, TLAPS, WellFoundedInduction, SequenceTheorems, FiniteSets,
        FiniteSetTheorems

(***************************************************************************)
(* Induction: a set of numbers that is not empty has a least one.          *)
(***************************************************************************)
Before == OpToRel(<, Nat)
LEMMA BeforeIs ==
  ASSUME NEW x \in Nat, NEW y \in Nat, x < y
  PROVE <<x, y>> \in Before
BY DEF Before, OpToRel

LEMMA LeastNumber ==
  ASSUME NEW T \in SUBSET Nat, T # {}
  PROVE \E n \in T : \A k \in T : n <= k
<1>1. IsWellFoundedOn(Before, Nat)
  BY NatLessThanWellFounded DEF Before
<1>2. PICK x \in T : \A y \in T : ~(<<y, x>> \in Before)
  BY <1>1, WFMin
<1>3. ASSUME NEW y \in T PROVE x <= y
  <2>1. CASE y < x
    BY <1>2, <2>1, BeforeIs
  <2>2. CASE ~(y < x)
    BY <2>2
  <2> QED BY <2>1, <2>2
<1> QED BY <1>3

(* A set of numbers with 0 that has with each number the next has them all.*)
LEMMA AllNumbers ==
  ASSUME NEW P \in SUBSET Nat, 0 \in P, \A n \in P : n + 1 \in P
  PROVE P = Nat
<1> DEFINE T == Nat \ P
<1>1. CASE T = {}
  BY <1>1
<1>2. CASE T # {}
  <2>1. PICK n \in T : \A k \in T : n <= k
    BY <1>2, LeastNumber
  <2>2. n \in Nat /\ n # 0
    OBVIOUS
  <2>3. n - 1 \in Nat /\ n - 1 \notin T
    BY <2>1, <2>2
  <2>4. n - 1 \in P
    BY <2>3
  <2>5. (n - 1) + 1 \in P
    BY <2>4
  <2> QED BY <2>2, <2>5
<1> QED BY <1>1, <1>2

(* A set of numbers that holds a number whenever it holds all below it.    *)
LEMMA AllBelow ==
  ASSUME NEW P \in SUBSET Nat, \A n \in Nat : (\A k \in Nat : k < n => k \in P) => n \in P
  PROVE P = Nat
<1> DEFINE T == Nat \ P
<1>1. CASE T = {}
  BY <1>1
<1>2. CASE T # {}
  <2>1. PICK n \in T : \A k \in T : n <= k
    BY <1>2, LeastNumber
  <2>2. \A k \in Nat : k < n => k \in P
    BY <2>1
  <2> QED BY <2>2
<1> QED BY <1>1, <1>2
-----------------------------------------------------------------------------
(***************************************************************************)
(* The passes of a loop, for any function that is repeated.                *)
(***************************************************************************)
IsRun(S, F, s, L, g) ==
  g \in [0 .. L -> S] /\ g[0] = s /\ \A n \in 1 .. L : g[n] = F[g[n - 1]]

(* A function can be repeated as often as one likes.                       *)
LEMMA RunExists ==
  ASSUME NEW S, NEW F \in [S -> S], NEW s \in S, NEW L \in Nat
  PROVE \E g : IsRun(S, F, s, L, g)
<1> DEFINE P == {n \in Nat : \E g : IsRun(S, F, s, n, g)}
<1>1. 0 \in P
  <2>1. IsRun(S, F, s, 0, [n \in 0 .. 0 |-> s])
    BY DEF IsRun
  <2> QED BY <2>1
<1>2. ASSUME NEW n \in P PROVE n + 1 \in P
  <2>1. PICK g : IsRun(S, F, s, n, g)
    OBVIOUS
  <2> DEFINE h == [i \in 0 .. n + 1 |-> IF i = n + 1 THEN F[g[n]] ELSE g[i]]
  <2>2. n \in Nat
    OBVIOUS
  <2>3. g \in [0 .. n -> S] /\ g[0] = s /\ \A i \in 1 .. n : g[i] = F[g[i - 1]]
    BY <2>1 DEF IsRun
  <2>4. F[g[n]] \in S
    BY <2>2, <2>3
  <2>5. h \in [0 .. n + 1 -> S]
    BY <2>2, <2>3, <2>4
  <2>6. h[0] = s
    BY <2>2, <2>3
  <2>7. ASSUME NEW i \in 1 .. n + 1 PROVE h[i] = F[h[i - 1]]
    <3>1. CASE i = n + 1
      BY <2>2, <3>1
    <3>2. CASE i # n + 1
      BY <2>2, <2>3, <3>2
    <3> QED BY <3>1, <3>2
  <2>8. IsRun(S, F, s, n + 1, h)
    BY <2>5, <2>6, <2>7 DEF IsRun
  <2> QED BY <2>2, <2>8
<1>3. P = Nat
  <2> HIDE DEF P
  <2>1. P \in SUBSET Nat
    BY DEF P
  <2> QED BY <1>1, <1>2, <2>1, AllNumbers
<1> QED BY <1>3

(* It gives the same each time.                                            *)
LEMMA RunUnique ==
  ASSUME NEW S, NEW F, NEW s, NEW L \in Nat, NEW M \in Nat, NEW g, NEW h,
         IsRun(S, F, s, L, g), IsRun(S, F, s, M, h),
         NEW n \in Nat, n <= L, n <= M
  PROVE g[n] = h[n]
<1> DEFINE P == {i \in Nat : i <= L /\ i <= M => g[i] = h[i]}
<1>1. 0 \in P
  BY DEF IsRun
<1>2. ASSUME NEW i \in P PROVE i + 1 \in P
  <2>1. SUFFICES ASSUME i + 1 <= L, i + 1 <= M PROVE g[i + 1] = h[i + 1]
    OBVIOUS
  <2>2. g[i] = h[i]
    BY <2>1
  <2>3. g[i + 1] = F[g[(i + 1) - 1]] /\ h[i + 1] = F[h[(i + 1) - 1]]
    BY <2>1 DEF IsRun
  <2>4. (i + 1) - 1 = i
    OBVIOUS
  <2> QED BY <2>2, <2>3, <2>4
<1>3. P = Nat
  <2> HIDE DEF P
  <2>1. P \in SUBSET Nat
    BY DEF P
  <2> QED BY <1>1, <1>2, <2>1, AllNumbers
<1> QED BY <1>3

(* Where it changes nothing once it changes nothing any more.              *)
LEMMA RunStays ==
  ASSUME NEW S, NEW F, NEW s, NEW L \in Nat, NEW g, IsRun(S, F, s, L, g),
         NEW n \in 0 .. L, F[g[n]] = g[n], NEW m \in n .. L
  PROVE g[m] = g[n]
<1> DEFINE P == {i \in Nat : n + i <= L => g[n + i] = g[n]}
<1>1. 0 \in P
  <2>1. n + 0 = n
    OBVIOUS
  <2> QED BY <2>1
<1>2. ASSUME NEW i \in P PROVE i + 1 \in P
  <2>1. SUFFICES ASSUME n + (i + 1) <= L PROVE g[n + (i + 1)] = g[n]
    OBVIOUS
  <2>2. g[n + i] = g[n]
    BY <2>1
  <2>3. g[n + (i + 1)] = F[g[(n + (i + 1)) - 1]]
    BY <2>1 DEF IsRun
  <2>4. (n + (i + 1)) - 1 = n + i
    OBVIOUS
  <2> QED BY <2>2, <2>3, <2>4
<1>3. P = Nat
  <2> HIDE DEF P
  <2>1. P \in SUBSET Nat
    BY DEF P
  <2> QED BY <1>1, <1>2, <2>1, AllNumbers
<1>4. m - n \in P
  <2>1. m - n \in Nat
    OBVIOUS
  <2> HIDE DEF P
  <2> QED BY <1>3, <2>1
<1>5. n + (m - n) = m
  OBVIOUS
<1> QED BY <1>4, <1>5

Shrinks(S, F, size) ==
  /\ F \in [S -> S] /\ size \in [S -> Nat]
  /\ \A x \in S : F[x] = x \/ size[F[x]] < size[x]

(* Where each step that changes something makes it smaller, it stops.      *)
LEMMA RunSettles ==
  ASSUME NEW S, NEW F \in [S -> S], NEW size \in [S -> Nat],
         \A x \in S : F[x] = x \/ size[F[x]] < size[x],
         NEW s \in S, NEW L \in Nat, size[s] <= L, NEW g, IsRun(S, F, s, L, g)
  PROVE F[g[L]] = g[L]
<1> DEFINE P == {i \in Nat : i <= L => (F[g[i]] = g[i] \/ size[g[i]] + i <= size[s])}
<1>0. \A i \in 0 .. L : g[i] \in S
  BY DEF IsRun
<1>1. 0 \in P
  BY DEF IsRun
<1>2. ASSUME NEW i \in P PROVE i + 1 \in P
  <2>1. SUFFICES ASSUME i + 1 <= L PROVE F[g[i + 1]] = g[i + 1] \/ size[g[i + 1]] + (i + 1) <= size[s]
    OBVIOUS
  <2>2. F[g[i]] = g[i] \/ size[g[i]] + i <= size[s]
    BY <2>1
  <2>3. g[i + 1] = F[g[(i + 1) - 1]]
    BY <2>1 DEF IsRun
  <2>4. (i + 1) - 1 = i
    OBVIOUS
  <2>5. g[i + 1] = F[g[i]]
    BY <2>3, <2>4
  <2>6. g[i] \in S /\ g[i + 1] \in S
    BY <1>0, <2>1
  <2>7. CASE F[g[i]] = g[i]
    BY <2>5, <2>7
  <2>8. CASE F[g[i]] # g[i]
    <3>1. size[g[i + 1]] < size[g[i]]
      BY <2>5, <2>6, <2>8
    <3>2. size[g[i + 1]] \in Nat /\ size[g[i]] \in Nat /\ size[s] \in Nat
      BY <2>6
    <3> QED BY <2>2, <2>8, <3>1, <3>2
  <2> QED BY <2>7, <2>8
<1>3. P = Nat
  <2> HIDE DEF P
  <2>1. P \in SUBSET Nat
    BY DEF P
  <2> QED BY <1>1, <1>2, <2>1, AllNumbers
<1>4. L \in P
  BY <1>3
<1>5. F[g[L]] = g[L] \/ size[g[L]] + L <= size[s]
  BY <1>4
<1>6. g[L] \in S
  BY <1>0
<1>7. size[g[L]] \in Nat /\ size[s] \in Nat /\ F[g[L]] \in S
  BY <1>6
<1>8. size[F[g[L]]] \in Nat
  BY <1>7
<1>9. F[g[L]] = g[L] \/ size[F[g[L]]] < size[g[L]]
  BY <1>6
<1> QED BY <1>5, <1>7, <1>8, <1>9

(* One step first makes no difference to where it stops.                   *)
LEMMA RunFromNext ==
  ASSUME NEW S, NEW F, NEW size, Shrinks(S, F, size),
         NEW s \in S, NEW L \in Nat, size[s] <= L, NEW g, IsRun(S, F, s, L, g),
         NEW M \in Nat, size[F[s]] <= M, NEW h, IsRun(S, F, F[s], M, h)
  PROVE g[L] = h[M]
<1> DEFINE K == L + M
<1>0. /\ F \in [S -> S] /\ size \in [S -> Nat]
      /\ \A x \in S : F[x] = x \/ size[F[x]] < size[x]
  BY DEF Shrinks
<1>1. F[s] \in S /\ K \in Nat /\ K + 1 \in Nat
  BY <1>0
<1>2. PICK a : IsRun(S, F, s, K + 1, a)
  BY <1>0, <1>1, RunExists
<1>3. PICK b : IsRun(S, F, F[s], K, b)
  BY <1>0, <1>1, RunExists
<1> DEFINE P == {i \in Nat : i <= K => a[i + 1] = b[i]}
<1>4. 0 \in P
  <2>1. a[1] = F[a[1 - 1]] /\ a[0] = s /\ b[0] = F[s]
    BY <1>2, <1>3 DEF IsRun
  <2>2. 1 - 1 = 0 /\ 0 + 1 = 1
    OBVIOUS
  <2> QED BY <2>1, <2>2
<1>5. ASSUME NEW i \in P PROVE i + 1 \in P
  <2>1. SUFFICES ASSUME i + 1 <= K PROVE a[(i + 1) + 1] = b[i + 1]
    OBVIOUS
  <2>2. a[i + 1] = b[i]
    BY <2>1
  <2>3. a[(i + 1) + 1] = F[a[((i + 1) + 1) - 1]] /\ b[i + 1] = F[b[(i + 1) - 1]]
    BY <1>2, <1>3, <2>1 DEF IsRun
  <2>4. ((i + 1) + 1) - 1 = i + 1 /\ (i + 1) - 1 = i
    OBVIOUS
  <2> QED BY <2>2, <2>3, <2>4
<1>6. P = Nat
  <2> HIDE DEF P
  <2>1. P \in SUBSET Nat
    BY DEF P
  <2> QED BY <1>4, <1>5, <2>1, AllNumbers
<1>7. a[K + 1] = b[K]
  BY <1>1, <1>6
<1>8. a[L] = g[L] /\ b[M] = h[M]
  <2>1. L <= K + 1 /\ M <= K
    OBVIOUS
  <2>2. a[L] = g[L]
    BY <1>1, <1>2, <2>1, RunUnique
  <2>3. b[M] = h[M]
    BY <1>1, <1>3, <2>1, RunUnique
  <2> QED BY <2>2, <2>3
<1>9. F[g[L]] = g[L] /\ F[h[M]] = h[M]
  BY <1>0, <1>1, RunSettles
<1>10. a[K + 1] = a[L]
  <2>1. L \in 0 .. K + 1 /\ K + 1 \in L .. K + 1 /\ F[a[L]] = a[L]
    BY <1>8, <1>9
  <2> QED BY <1>1, <1>2, <2>1, RunStays
<1>11. b[K] = b[M]
  <2>1. M \in 0 .. K /\ K \in M .. K /\ F[b[M]] = b[M]
    BY <1>8, <1>9
  <2> QED BY <1>1, <1>3, <2>1, RunStays
<1> QED BY <1>7, <1>8, <1>10, <1>11
-----------------------------------------------------------------------------
(***************************************************************************)
(* Sequences cut in two, and put together again.                           *)
(***************************************************************************)
LEMMA FromIs ==
  ASSUME NEW S, NEW b \in Seq(S), NEW i \in 1 .. Len(b) + 1
  PROVE /\ Bs!From(b, i) \in Seq(S)
        /\ Len(Bs!From(b, i)) = (Len(b) - i) + 1
        /\ \A j \in 1 .. (Len(b) - i) + 1 : Bs!From(b, i)[j] = b[(i + j) - 1]
<1>1. Len(b) \in Nat /\ i \in Int /\ Len(b) \in Int
  OBVIOUS
<1>2. \A j \in i .. Len(b) : b[j] \in S
  OBVIOUS
<1>3. /\ SubSeq(b, i, Len(b)) \in Seq(S)
      /\ Len(SubSeq(b, i, Len(b))) = IF i <= Len(b) THEN Len(b) - i + 1 ELSE 0
      /\ \A j \in 1 .. Len(b) - i + 1 : SubSeq(b, i, Len(b))[j] = b[i + j - 1]
  BY <1>1, <1>2, SubSeqProperties
<1> QED BY <1>1, <1>3 DEF Bs!From

LEMMA FromFrom ==
  ASSUME NEW S, NEW b \in Seq(S), NEW i \in 1 .. Len(b) + 1, NEW j \in 1 .. (Len(b) - i) + 2
  PROVE Bs!From(Bs!From(b, i), j) = Bs!From(b, (i + j) - 1)
<1>1. Len(b) \in Nat /\ (i + j) - 1 \in 1 .. Len(b) + 1
  OBVIOUS
<1> DEFINE x == Bs!From(b, i)
           y == Bs!From(b, (i + j) - 1)
           z == Bs!From(x, j)
<1>2. x \in Seq(S) /\ Len(x) = (Len(b) - i) + 1 /\ \A n \in 1 .. (Len(b) - i) + 1 : x[n] = b[(i + n) - 1]
  BY FromIs
<1>3. /\ y \in Seq(S) /\ Len(y) = (Len(b) - ((i + j) - 1)) + 1
      /\ \A n \in 1 .. (Len(b) - ((i + j) - 1)) + 1 : y[n] = b[(((i + j) - 1) + n) - 1]
  BY <1>1, FromIs
<1> HIDE DEF x, y
<1>4. j \in 1 .. Len(x) + 1
  BY <1>1, <1>2
<1>5. z \in Seq(S) /\ Len(z) = (Len(x) - j) + 1 /\ \A n \in 1 .. (Len(x) - j) + 1 : z[n] = x[(j + n) - 1]
  <2>1. x \in Seq(S)
    BY <1>2
  <2> QED BY <1>4, <2>1, FromIs
<1> HIDE DEF z
<1>6. Len(z) = Len(y)
  BY <1>1, <1>2, <1>3, <1>5
<1>7. ASSUME NEW n \in 1 .. Len(z) PROVE z[n] = y[n]
  <2>1. n \in 1 .. (Len(x) - j) + 1 /\ (j + n) - 1 \in 1 .. (Len(b) - i) + 1
    BY <1>1, <1>2, <1>5
  <2>2. n \in 1 .. (Len(b) - ((i + j) - 1)) + 1
    BY <1>3, <1>6
  <2>3. z[n] = b[(i + ((j + n) - 1)) - 1]
    BY <1>2, <1>5, <2>1
  <2>4. y[n] = b[(((i + j) - 1) + n) - 1]
    BY <1>3, <2>2
  <2>5. (i + ((j + n) - 1)) - 1 = (((i + j) - 1) + n) - 1
    OBVIOUS
  <2> QED BY <2>3, <2>4, <2>5
<1>8. z = y
  BY <1>3, <1>5, <1>6, <1>7, SeqEqual
<1> QED BY <1>8 DEF x, y, z

LEMMA FromConcat ==
  ASSUME NEW S, NEW b \in Seq(S), NEW y \in Seq(S), NEW i \in 1 .. Len(b) + 1
  PROVE Bs!From(b \o y, i) = Bs!From(b, i) \o y
<1>1. Len(b) \in Nat /\ Len(y) \in Nat
  OBVIOUS
<1> DEFINE c == b \o y
           f == Bs!From(b, i)
           z == Bs!From(c, i)
           w == f \o y
<1>2. c \in Seq(S) /\ Len(c) = Len(b) + Len(y)
      /\ \A n \in 1 .. Len(b) + Len(y) : c[n] = IF n <= Len(b) THEN b[n] ELSE y[n - Len(b)]
  BY ConcatProperties
<1>3. f \in Seq(S) /\ Len(f) = (Len(b) - i) + 1 /\ \A n \in 1 .. (Len(b) - i) + 1 : f[n] = b[(i + n) - 1]
  BY FromIs
<1> HIDE DEF c, f
<1>4. z \in Seq(S) /\ Len(z) = (Len(c) - i) + 1 /\ \A n \in 1 .. (Len(c) - i) + 1 : z[n] = c[(i + n) - 1]
  <2>1. i \in 1 .. Len(c) + 1
    BY <1>1, <1>2
  <2> QED BY <1>2, <2>1, FromIs
<1>5. w \in Seq(S) /\ Len(w) = Len(f) + Len(y)
      /\ \A n \in 1 .. Len(f) + Len(y) : w[n] = IF n <= Len(f) THEN f[n] ELSE y[n - Len(f)]
  BY <1>3, ConcatProperties
<1> HIDE DEF z, w
<1>6. Len(z) = Len(w)
  BY <1>1, <1>2, <1>3, <1>4, <1>5
<1>7. ASSUME NEW n \in 1 .. Len(z) PROVE z[n] = w[n]
  <2>1. z[n] = c[(i + n) - 1] /\ (i + n) - 1 \in 1 .. Len(b) + Len(y)
    BY <1>1, <1>2, <1>4
  <2>2. n \in 1 .. Len(f) + Len(y)
    BY <1>5, <1>6
  <2>3. CASE n <= Len(f)
    <3>1. (i + n) - 1 <= Len(b) /\ n \in 1 .. (Len(b) - i) + 1
      BY <1>1, <1>3, <2>3
    <3>2. c[(i + n) - 1] = b[(i + n) - 1]
      BY <1>2, <2>1, <3>1
    <3>3. w[n] = f[n] /\ f[n] = b[(i + n) - 1]
      BY <1>3, <1>5, <2>2, <2>3, <3>1
    <3> QED BY <2>1, <3>2, <3>3
  <2>4. CASE ~(n <= Len(f))
    <3>1. ~((i + n) - 1 <= Len(b))
      BY <1>1, <1>3, <2>4
    <3>2. c[(i + n) - 1] = y[((i + n) - 1) - Len(b)]
      BY <1>2, <2>1, <3>1
    <3>3. w[n] = y[n - Len(f)]
      BY <1>5, <2>2, <2>4
    <3>4. ((i + n) - 1) - Len(b) = n - Len(f)
      BY <1>1, <1>3
    <3> QED BY <2>1, <3>2, <3>3, <3>4
  <2> QED BY <2>3, <2>4
<1>8. z = w
  BY <1>4, <1>5, <1>6, <1>7, SeqEqual
<1> QED BY <1>8 DEF c, f, w, z
-----------------------------------------------------------------------------
(***************************************************************************)
(* The readers whose messages do not depend on how their stream is cut.    *)
(***************************************************************************)
Byte == {"P1", "P2", "P3", "ok", "bad", "L0", "L1", "L2", "x"}
Chunked == {"dpdu", "packet"}
St == [out : Seq(Seq(Byte)), buf : Seq(Byte)]

LEMMA LiteralsAreSeqs ==
  ASSUME NEW S, NEW a \in S, NEW b \in S, NEW c \in S
  PROVE /\ <<a, b>> \in Seq(S) /\ Len(<<a, b>>) = 2
        /\ <<a, b, c>> \in Seq(S) /\ Len(<<a, b, c>>) = 3
OBVIOUS

LEMMA ReaderFacts ==
  ASSUME NEW k \in Chunked
  PROVE /\ Bs!Preamble(k) \in Seq(Byte)
        /\ Len(Bs!Preamble(k)) \in Nat /\ Len(Bs!Preamble(k)) >= 2
        /\ Bs!Reader[k].keep = Len(Bs!Preamble(k)) - 1
        /\ Bs!HeaderSize(k) = Len(Bs!Preamble(k)) + 2
        /\ Bs!Reader[k].resyncs = Bs!Reader[k].checks
        /\ k = "dpdu" => Bs!Reader[k].checks = FALSE
<1>1. Bs!Reader["dpdu"] = [preamble |-> <<"P1", "P2">>, keep |-> 1, checks |-> FALSE, resyncs |-> FALSE]
  BY DEF Bs!Reader
<1>2. Bs!Reader["packet"] = [preamble |-> <<"P1", "P2", "P3">>, keep |-> 2, checks |-> TRUE, resyncs |-> TRUE]
  BY DEF Bs!Reader
<1>0. "P1" \in Byte /\ "P2" \in Byte /\ "P3" \in Byte
  BY DEF Byte
<1>3. <<"P1", "P2">> \in Seq(Byte) /\ Len(<<"P1", "P2">>) = 2
  BY <1>0, LiteralsAreSeqs
<1>4. <<"P1", "P2", "P3">> \in Seq(Byte) /\ Len(<<"P1", "P2", "P3">>) = 3
  BY <1>0, LiteralsAreSeqs
<1>5. CASE k = "dpdu"
  <2>1. Bs!Preamble(k) = <<"P1", "P2">> /\ Bs!Reader[k].keep = 1
        /\ Bs!Reader[k].resyncs = FALSE /\ Bs!Reader[k].checks = FALSE
    BY <1>1, <1>5 DEF Bs!Preamble
  <2>2. Bs!HeaderSize(k) = Len(Bs!Preamble(k)) + 2
    BY DEF Bs!HeaderSize
  <2>3. Bs!Preamble(k) \in Seq(Byte) /\ Len(Bs!Preamble(k)) = 2
    BY <1>3, <2>1
  <2>4. /\ Len(Bs!Preamble(k)) \in Nat /\ Len(Bs!Preamble(k)) >= 2
        /\ Bs!Reader[k].keep = Len(Bs!Preamble(k)) - 1
    BY <2>1, <2>3
  <2>5. Bs!Reader[k].resyncs = Bs!Reader[k].checks /\ (k = "dpdu" => Bs!Reader[k].checks = FALSE)
    BY <2>1
  <2> QED BY <2>2, <2>3, <2>4, <2>5
<1>6. CASE k = "packet"
  <2>1. Bs!Preamble(k) = <<"P1", "P2", "P3">> /\ Bs!Reader[k].keep = 2
        /\ Bs!Reader[k].resyncs = TRUE /\ Bs!Reader[k].checks = TRUE /\ k # "dpdu"
    BY <1>2, <1>6 DEF Bs!Preamble
  <2>2. Bs!HeaderSize(k) = Len(Bs!Preamble(k)) + 2
    BY DEF Bs!HeaderSize
  <2>3. Bs!Preamble(k) \in Seq(Byte) /\ Len(Bs!Preamble(k)) = 3
    BY <1>4, <2>1
  <2>4. /\ Len(Bs!Preamble(k)) \in Nat /\ Len(Bs!Preamble(k)) >= 2
        /\ Bs!Reader[k].keep = Len(Bs!Preamble(k)) - 1
    BY <2>1, <2>3
  <2>5. Bs!Reader[k].resyncs = Bs!Reader[k].checks /\ (k = "dpdu" => Bs!Reader[k].checks = FALSE)
    BY <2>1
  <2> QED BY <2>2, <2>3, <2>4, <2>5
<1> QED BY <1>5, <1>6 DEF Chunked

LEMMA FrameFacts ==
  ASSUME NEW k \in Chunked, NEW b
  PROVE Bs!FrameSize(k, b) \in Nat /\ Bs!FrameSize(k, b) >= Bs!HeaderSize(k)
<1>1. \A c : Bs!LengthOf(c) \in {0, 1, 2}
  <2>1. ASSUME NEW c, c = "L0" PROVE Bs!LengthOf(c) \in {0, 1, 2}
    <3>1. c # "L2"
      BY <2>1
    <3> QED BY <2>1, <3>1 DEF Bs!LengthOf
  <2>2. ASSUME NEW c, c = "L2" PROVE Bs!LengthOf(c) \in {0, 1, 2}
    <3>1. c # "L0"
      BY <2>2
    <3> QED BY <2>2, <3>1 DEF Bs!LengthOf
  <2>3. ASSUME NEW c, c # "L0", c # "L2" PROVE Bs!LengthOf(c) \in {0, 1, 2}
    BY <2>3 DEF Bs!LengthOf
  <2> QED BY <2>1, <2>2, <2>3
<1>2. Len(Bs!Preamble(k)) \in Nat /\ Bs!HeaderSize(k) = Len(Bs!Preamble(k)) + 2
  BY ReaderFacts
<1>3. Bs!HeaderSize(k) \in Nat
  BY <1>2
<1> QED BY <1>1, <1>3 DEF Bs!FrameSize

(* A preamble starts at i.                                                 *)
StartsAt(k, b, i) ==
  /\ i \in 1 .. Len(b) /\ (i + Len(Bs!Preamble(k))) - 1 <= Len(b)
  /\ \A j \in 1 .. Len(Bs!Preamble(k)) : b[(i + j) - 1] = Bs!Preamble(k)[j]

LEMMA FoundIs ==
  ASSUME NEW k \in Chunked, NEW b \in Seq(Byte), NEW i
  PROVE i \in Bs!Found(k, b) <=> StartsAt(k, b, i)
<1> DEFINE P == Bs!Preamble(k)
           n == Len(P)
           s == SubSeq(b, i, (i + n) - 1)
<1>1. P \in Seq(Byte) /\ n \in Nat /\ n >= 2
  BY ReaderFacts
<1>2. Len(b) \in Nat
  OBVIOUS
<1>3. SUFFICES ASSUME i \in 1 .. Len(b), (i + n) - 1 <= Len(b)
      PROVE s = P <=> \A j \in 1 .. n : b[(i + j) - 1] = P[j]
  BY DEF Bs!Found, StartsAt
<1>4. s \in Seq(Byte) /\ Len(s) = n /\ \A j \in 1 .. n : s[j] = b[(i + j) - 1]
  <2>1. i \in Int /\ (i + n) - 1 \in Int
    BY <1>1, <1>2, <1>3
  <2>2. \A j \in i .. (i + n) - 1 : b[j] \in Byte
    BY <1>1, <1>2, <1>3
  <2>3. /\ s \in Seq(Byte)
        /\ Len(s) = IF i <= (i + n) - 1 THEN ((i + n) - 1) - i + 1 ELSE 0
        /\ \A j \in 1 .. ((i + n) - 1) - i + 1 : s[j] = b[i + j - 1]
    BY <2>1, <2>2, SubSeqProperties
  <2>4. ((i + n) - 1) - i + 1 = n /\ i <= (i + n) - 1
    BY <1>1, <1>3
  <2> QED BY <2>3, <2>4
<1> HIDE DEF P, s, n
<1>5. ASSUME s = P PROVE \A j \in 1 .. n : b[(i + j) - 1] = P[j]
  BY <1>4, <1>5
<1>6. ASSUME \A j \in 1 .. n : b[(i + j) - 1] = P[j] PROVE s = P
  <2>1. Len(P) = n
    BY DEF n
  <2>2. \A j \in 1 .. Len(s) : s[j] = P[j]
    BY <1>4, <1>6
  <2> QED BY <1>1, <1>4, <2>1, <2>2, SeqEqual
<1> QED BY <1>5, <1>6

(* The first preamble, where there is one.                                 *)
LEMMA FirstIs ==
  ASSUME NEW k, NEW b, Bs!Found(k, b) # {}
  PROVE Bs!Min(Bs!Found(k, b)) \in Bs!Found(k, b)
        /\ \A i \in Bs!Found(k, b) : Bs!Min(Bs!Found(k, b)) <= i
<1> DEFINE T == Bs!Found(k, b)
<1>1. T \in SUBSET Nat
  <2>1. \A i \in 1 .. Len(b) : i \in Nat
    OBVIOUS
  <2> QED BY <2>1 DEF Bs!Found
<1>2. \E n \in T : \A i \in T : n <= i
  <2> HIDE DEF T
  <2>1. T # {}
    BY DEF T
  <2> QED BY <1>1, <2>1, LeastNumber
<1>3. Bs!Min(T) = CHOOSE x \in T : \A y \in T : x <= y
  BY DEF Bs!Min
<1> HIDE DEF T
<1>4. Bs!Min(T) \in T /\ \A y \in T : Bs!Min(T) <= y
  BY <1>2, <1>3
<1> QED BY <1>4 DEF T

(* Bytes before every preamble are dropped: the others stay.               *)
LEMMA FoundAfter ==
  ASSUME NEW k \in Chunked, NEW b \in Seq(Byte), NEW n \in 0 .. Len(b),
         \A i \in Bs!Found(k, b) : n < i
  PROVE \A i \in Nat : i \in Bs!Found(k, Bs!From(b, n + 1)) <=> i + n \in Bs!Found(k, b)
<1> DEFINE P == Bs!Preamble(k)
<1>0. Len(b) \in Nat /\ n + 1 \in 1 .. Len(b) + 1 /\ n \in Nat
  OBVIOUS
<1>1. PICK d : d = Bs!From(b, n + 1)
  OBVIOUS
<1>2. d \in Seq(Byte) /\ Len(d) = (Len(b) - (n + 1)) + 1
      /\ \A j \in 1 .. (Len(b) - (n + 1)) + 1 : d[j] = b[((n + 1) + j) - 1]
  BY <1>0, <1>1, FromIs
<1>3. (Len(b) - (n + 1)) + 1 = Len(b) - n /\ \A j \in Nat : ((n + 1) + j) - 1 = n + j
  BY <1>0
<1>4. Len(d) = Len(b) - n /\ \A j \in 1 .. Len(b) - n : d[j] = b[n + j]
  BY <1>2, <1>3
<1>5. Len(P) \in Nat /\ Len(P) >= 2
  BY ReaderFacts
<1> HIDE DEF P
<1>6. ASSUME NEW i \in Nat, StartsAt(k, d, i) PROVE StartsAt(k, b, i + n)
  <2>1. /\ i \in 1 .. Len(d) /\ (i + Len(P)) - 1 <= Len(d)
        /\ \A j \in 1 .. Len(P) : d[(i + j) - 1] = P[j]
    BY <1>6 DEF StartsAt, P
  <2>2. i + n \in 1 .. Len(b) /\ ((i + n) + Len(P)) - 1 <= Len(b)
    BY <1>0, <1>4, <1>5, <2>1
  <2>3. ASSUME NEW j \in 1 .. Len(P) PROVE b[((i + n) + j) - 1] = P[j]
    <3>1. (i + j) - 1 \in 1 .. Len(b) - n
      BY <1>0, <1>4, <1>5, <2>1
    <3>2. d[(i + j) - 1] = b[n + ((i + j) - 1)]
      BY <1>4, <3>1
    <3>3. n + ((i + j) - 1) = ((i + n) + j) - 1
      BY <1>0
    <3> QED BY <2>1, <3>2, <3>3
  <2> QED BY <2>2, <2>3 DEF StartsAt, P
<1>7. ASSUME NEW i \in Nat, StartsAt(k, b, i + n), n < i + n PROVE StartsAt(k, d, i)
  <2>1. /\ i + n \in 1 .. Len(b) /\ ((i + n) + Len(P)) - 1 <= Len(b)
        /\ \A j \in 1 .. Len(P) : b[((i + n) + j) - 1] = P[j]
    BY <1>7 DEF StartsAt, P
  <2>2. i \in 1 .. Len(d) /\ (i + Len(P)) - 1 <= Len(d)
    BY <1>0, <1>4, <1>5, <1>7, <2>1
  <2>3. ASSUME NEW j \in 1 .. Len(P) PROVE d[(i + j) - 1] = P[j]
    <3>1. (i + j) - 1 \in 1 .. Len(b) - n
      BY <1>0, <1>4, <1>5, <2>2
    <3>2. d[(i + j) - 1] = b[n + ((i + j) - 1)]
      BY <1>4, <3>1
    <3>3. n + ((i + j) - 1) = ((i + n) + j) - 1
      BY <1>0
    <3> QED BY <2>1, <3>2, <3>3
  <2> QED BY <2>2, <2>3 DEF StartsAt, P
<1>8. ASSUME NEW i \in Nat PROVE i \in Bs!Found(k, d) <=> i + n \in Bs!Found(k, b)
  <2>1. i \in Bs!Found(k, d) <=> StartsAt(k, d, i)
    BY <1>2, FoundIs
  <2>2. i + n \in Bs!Found(k, b) <=> StartsAt(k, b, i + n)
    BY FoundIs
  <2>3. i + n \in Bs!Found(k, b) => n < i + n
    OBVIOUS
  <2> QED BY <1>6, <1>7, <2>1, <2>2, <2>3
<1> QED BY <1>1, <1>8

LEMMA SightedAfter ==
  ASSUME NEW k \in Chunked, NEW b \in Seq(Byte), NEW n \in 0 .. Len(b),
         \A i \in Bs!Found(k, b) : n < i
  PROVE /\ Bs!Found(k, Bs!From(b, n + 1)) = {} <=> Bs!Found(k, b) = {}
        /\ Bs!Found(k, b) # {} => Bs!Sighted(k, Bs!From(b, n + 1)) = Bs!Sighted(k, b)
<1> DEFINE A == Bs!Found(k, Bs!From(b, n + 1))
           B == Bs!Found(k, b)
<1>1. \A i \in Nat : i \in A <=> i + n \in B
  BY FoundAfter
<1>2. \A i \in B : n < i /\ i \in 1 .. Len(b)
  BY DEF Bs!Found
<1>3. \A i \in A : i \in Nat
  <2>1. \A i \in 1 .. Len(Bs!From(b, n + 1)) : i \in Nat
    OBVIOUS
  <2> QED BY <2>1 DEF Bs!Found
<1> HIDE DEF A, B
<1>4. n \in Nat /\ Len(b) \in Nat
  OBVIOUS
<1>5. ASSUME NEW i \in B PROVE i - n \in Nat /\ (i - n) + n = i /\ i - n \in A
  <2>1. i - n \in Nat /\ (i - n) + n = i
    BY <1>2, <1>4
  <2>2. (i - n) + n \in B
    BY <2>1
  <2> QED BY <1>1, <2>1, <2>2
<1>6. A = {} <=> B = {}
  BY <1>1, <1>3, <1>5
<1>7. ASSUME B # {} PROVE Bs!Sighted(k, Bs!From(b, n + 1)) = Bs!Sighted(k, b)
  <2>1. A # {}
    BY <1>6, <1>7
  <2>2. PICK p : p = Bs!Min(B)
    OBVIOUS
  <2>3. PICK q : q = Bs!Min(A)
    OBVIOUS
  <2>4. p \in B /\ \A i \in B : p <= i
    BY <1>7, <2>2, FirstIs DEF B
  <2>5. q \in A /\ \A i \in A : q <= i
    BY <2>1, <2>3, FirstIs DEF A
  <2>6. p - n \in A /\ q + n \in B /\ p \in Nat /\ q \in Nat
    <3>1. p - n \in A
      BY <1>5, <2>4
    <3>2. q \in Nat
      BY <1>3, <2>5
    <3>3. q + n \in B
      BY <1>1, <2>5, <3>2
    <3>4. p \in Nat
      BY <1>2, <2>4
    <3> QED BY <3>1, <3>2, <3>3, <3>4
  <2>7. q <= p - n /\ p <= q + n
    BY <2>4, <2>5, <2>6
  <2>8. p = q + n
    BY <1>4, <2>6, <2>7
  <2>9. n + 1 \in 1 .. Len(b) + 1 /\ q \in 1 .. (Len(b) - (n + 1)) + 2 /\ ((n + 1) + q) - 1 = p
    BY <1>2, <1>4, <2>4, <2>6, <2>8
  <2>10. Bs!From(Bs!From(b, n + 1), q) = Bs!From(b, p)
    BY <2>9, FromFrom
  <2> QED BY <2>2, <2>3, <2>10 DEF Bs!Sighted, A, B
<1> QED BY <1>6, <1>7 DEF A, B

LEMMA KeptAfter ==
  ASSUME NEW k \in Chunked, NEW b \in Seq(Byte), NEW n \in 0 .. Len(b),
         n = 0 \/ n + Bs!Reader[k].keep <= Len(b)
  PROVE Bs!Kept(k, Bs!From(b, n + 1)) = Bs!Kept(k, b)
<1> DEFINE m == Bs!Reader[k].keep
<1>1. m \in Nat
  <2>1. Len(Bs!Preamble(k)) \in Nat /\ Len(Bs!Preamble(k)) >= 2 /\ m = Len(Bs!Preamble(k)) - 1
    BY ReaderFacts
  <2> QED BY <2>1
<1>2. Len(b) \in Nat /\ n \in Nat /\ n + 1 \in 1 .. Len(b) + 1
  OBVIOUS
<1>3. PICK d : d = Bs!From(b, n + 1)
  OBVIOUS
<1>4. d \in Seq(Byte) /\ Len(d) = (Len(b) - (n + 1)) + 1
  BY <1>2, <1>3, FromIs
<1>5. Len(d) = Len(b) - n
  BY <1>2, <1>4
<1> DEFINE u == 1 + (IF Len(b) > m THEN Len(b) - m ELSE 0)
           v == 1 + (IF Len(d) > m THEN Len(d) - m ELSE 0)
<1>6. Bs!Kept(k, b) = Bs!From(b, u) /\ Bs!Kept(k, d) = Bs!From(d, v)
  BY DEF Bs!Kept, Bs!LastOf
<1> HIDE DEF m
<1>7. v \in 1 .. (Len(b) - (n + 1)) + 2 /\ ((n + 1) + v) - 1 = u
  <2>1. n = 0 \/ n + m <= Len(b)
    BY DEF m
  <2>2. CASE Len(d) > m
    BY <1>1, <1>2, <1>5, <2>1, <2>2
  <2>3. CASE ~(Len(d) > m)
    BY <1>1, <1>2, <1>5, <2>1, <2>3
  <2> QED BY <2>2, <2>3
<1> HIDE DEF u, v
<1>8. Bs!From(d, v) = Bs!From(b, u)
  BY <1>2, <1>3, <1>7, FromFrom
<1> QED BY <1>3, <1>6, <1>8

(* A pass comes to the same where bytes before a preamble are dropped      *)
(* first, unless the beginning of one is dropped.                          *)
LEMMA PassAfter ==
  ASSUME NEW k \in Chunked, NEW o, NEW b \in Seq(Byte), NEW n \in 0 .. Len(b),
         \A i \in Bs!Found(k, b) : n < i,
         n = 0 \/ n + Bs!Reader[k].keep <= Len(b)
  PROVE Bs!Pass(k, [out |-> o, buf |-> Bs!From(b, n + 1)]) = Bs!Pass(k, [out |-> o, buf |-> b])
<1>1. PICK d : d = Bs!From(b, n + 1)
  OBVIOUS
<1>2. PICK s : s = [out |-> o, buf |-> d]
  OBVIOUS
<1>3. PICK r : r = [out |-> o, buf |-> b]
  OBVIOUS
<1>4. s.out = o /\ s.buf = d /\ r.out = o /\ r.buf = b
  BY <1>2, <1>3
<1>5. Bs!Found(k, d) = {} <=> Bs!Found(k, b) = {}
  BY <1>1, SightedAfter
<1>6. CASE Bs!Found(k, b) = {}
  <2>1. Bs!Kept(k, d) = Bs!Kept(k, b)
    BY <1>1, KeptAfter
  <2>2. Bs!Pass(k, s) = [out |-> o, buf |-> Bs!Kept(k, d)]
    BY <1>4, <1>5, <1>6 DEF Bs!Pass
  <2>3. Bs!Pass(k, r) = [out |-> o, buf |-> Bs!Kept(k, b)]
    BY <1>4, <1>6 DEF Bs!Pass
  <2> QED BY <1>1, <1>2, <1>3, <2>1, <2>2, <2>3
<1>7. CASE Bs!Found(k, b) # {}
  <2>1. Bs!Sighted(k, d) = Bs!Sighted(k, b)
    BY <1>1, <1>7, SightedAfter
  <2>2. Bs!Pass(k, s) = Bs!Pass(k, r)
    BY <1>4, <1>5, <1>7, <2>1 DEF Bs!Pass
  <2> QED BY <1>1, <1>2, <1>3, <2>2
<1> QED BY <1>6, <1>7

(* A pass where a preamble is at the front.                                *)
Front(k, o, f) ==
  LET left(x) == [out |-> o, buf |-> x]
      skip == left(Bs!From(f, Len(Bs!Preamble(k)) + 1))
  IN  IF Len(f) < Bs!HeaderSize(k) THEN left(f)
      ELSE IF ~Bs!GoodHeader(k, f) THEN IF Bs!Reader[k].resyncs THEN skip ELSE left(f)
      ELSE IF Len(f) < Bs!FrameSize(k, f) THEN left(f)
      ELSE IF ~Bs!GoodPayload(k, f) THEN skip
      ELSE [out |-> Append(o, SubSeq(f, 1, Bs!FrameSize(k, f))), buf |-> Bs!From(f, Bs!FrameSize(k, f) + 1)]

LEMMA PassIs ==
  ASSUME NEW k, NEW o, NEW b
  PROVE /\ Bs!Found(k, b) = {} => Bs!Pass(k, [out |-> o, buf |-> b]) = [out |-> o, buf |-> Bs!Kept(k, b)]
        /\ Bs!Found(k, b) # {} => Bs!Pass(k, [out |-> o, buf |-> b]) = Front(k, o, Bs!Sighted(k, b))
<1>1. PICK s : s = [out |-> o, buf |-> b]
  OBVIOUS
<1>2. s.out = o /\ s.buf = b
  BY <1>1
<1>3. ASSUME Bs!Found(k, b) = {} PROVE Bs!Pass(k, s) = [out |-> o, buf |-> Bs!Kept(k, b)]
  BY <1>2, <1>3 DEF Bs!Pass
<1>4. ASSUME Bs!Found(k, b) # {} PROVE Bs!Pass(k, s) = Front(k, o, Bs!Sighted(k, b))
  BY <1>2, <1>4 DEF Bs!Pass, Front
<1> QED BY <1>1, <1>3, <1>4

LEMMA SightedIs ==
  ASSUME NEW k \in Chunked, NEW b \in Seq(Byte), Bs!Found(k, b) # {},
         NEW m, m = Bs!Min(Bs!Found(k, b))
  PROVE /\ m \in 1 .. Len(b) /\ Bs!Sighted(k, b) = Bs!From(b, m)
        /\ Bs!Sighted(k, b) \in Seq(Byte) /\ Len(Bs!Sighted(k, b)) = (Len(b) - m) + 1
        /\ Len(Bs!Sighted(k, b)) >= Len(Bs!Preamble(k))
        /\ 1 \in Bs!Found(k, Bs!Sighted(k, b))
        /\ \A i \in Bs!Found(k, b) : m - 1 < i
<1>1. Len(b) \in Nat
  OBVIOUS
<1>2. m \in Bs!Found(k, b) /\ \A i \in Bs!Found(k, b) : m <= i
  BY FirstIs
<1>3. m \in 1 .. Len(b) /\ (m + Len(Bs!Preamble(k))) - 1 <= Len(b)
  BY <1>2, FoundIs DEF StartsAt
<1>4. Bs!Sighted(k, b) = Bs!From(b, m)
  BY DEF Bs!Sighted
<1>5. Bs!From(b, m) \in Seq(Byte) /\ Len(Bs!From(b, m)) = (Len(b) - m) + 1
  BY <1>1, <1>3, FromIs
<1>6. \A i \in Bs!Found(k, b) : m - 1 < i
  <2>1. \A i \in Bs!Found(k, b) : i \in Nat
    BY DEF Bs!Found
  <2> QED BY <1>2, <1>3, <2>1
<1>7. 1 \in Bs!Found(k, Bs!From(b, m))
  <2>1. m - 1 \in 0 .. Len(b) /\ (m - 1) + 1 = m /\ 1 + (m - 1) = m
    BY <1>1, <1>3
  <2>2. 1 \in Bs!Found(k, Bs!From(b, (m - 1) + 1)) <=> 1 + (m - 1) \in Bs!Found(k, b)
    BY <1>6, <2>1, FoundAfter
  <2> QED BY <1>2, <2>1, <2>2
<1>8. Len(Bs!Preamble(k)) \in Nat
  BY ReaderFacts
<1> QED BY <1>1, <1>3, <1>4, <1>5, <1>6, <1>7, <1>8

(* What is read of a frame does not change when more bytes come.           *)
LEMMA FrameMore ==
  ASSUME NEW k \in Chunked, NEW f \in Seq(Byte), NEW y \in Seq(Byte), Len(f) >= Bs!HeaderSize(k)
  PROVE /\ Bs!GoodHeader(k, f \o y) = Bs!GoodHeader(k, f)
        /\ Bs!FrameSize(k, f \o y) = Bs!FrameSize(k, f)
        /\ Bs!FrameSize(k, f) <= Len(f) =>
             /\ Bs!GoodPayload(k, f \o y) = Bs!GoodPayload(k, f)
             /\ SubSeq(f \o y, 1, Bs!FrameSize(k, f)) = SubSeq(f, 1, Bs!FrameSize(k, f))
<1> DEFINE h == Bs!HeaderSize(k)
           n == Bs!FrameSize(k, f)
<1>1. h \in Nat /\ h >= 4
  <2>1. Len(Bs!Preamble(k)) \in Nat /\ Len(Bs!Preamble(k)) >= 2 /\ h = Len(Bs!Preamble(k)) + 2
    BY ReaderFacts
  <2> QED BY <2>1
<1>2. n \in Nat /\ n >= h
  BY FrameFacts
<1>3. Len(f) \in Nat /\ Len(y) \in Nat
  OBVIOUS
<1>4. PICK c : c = f \o y
  OBVIOUS
<1>5. c \in Seq(Byte) /\ Len(c) = Len(f) + Len(y)
      /\ \A i \in 1 .. Len(f) + Len(y) : c[i] = IF i <= Len(f) THEN f[i] ELSE y[i - Len(f)]
  BY <1>4, ConcatProperties
<1> HIDE DEF h, n
<1>6. Len(f) >= h
  BY DEF h
<1>7. c[h - 1] = f[h - 1] /\ c[h] = f[h]
  <2>1. h - 1 \in 1 .. Len(f) + Len(y) /\ h - 1 <= Len(f) /\ h \in 1 .. Len(f) + Len(y) /\ h <= Len(f)
    BY <1>1, <1>3, <1>6
  <2> QED BY <1>5, <2>1
<1>8. Bs!GoodHeader(k, c) = Bs!GoodHeader(k, f)
  BY <1>7 DEF Bs!GoodHeader, h
<1>9. Bs!FrameSize(k, c) = n
  BY <1>7 DEF Bs!FrameSize, h, n
<1>10. ASSUME n <= Len(f)
       PROVE /\ SubSeq(c, h + 1, n) = SubSeq(f, h + 1, n)
             /\ SubSeq(c, 1, n) = SubSeq(f, 1, n)
  <2>1. h + 1 \in 1 .. Len(f) + 1 /\ n \in 0 .. Len(f) /\ 1 \in 1 .. Len(f) + 1 /\ n \in h + 1 - 1 .. Len(f)
    BY <1>1, <1>2, <1>3, <1>6, <1>10
  <2> QED BY <1>4, <2>1, SubSeqOfConcat1
<1>11. ASSUME n <= Len(f) PROVE Bs!GoodPayload(k, c) = Bs!GoodPayload(k, f)
  BY <1>9, <1>10, <1>11 DEF Bs!GoodPayload, h, n
<1> QED BY <1>4, <1>8, <1>9, <1>10, <1>11 DEF n

(* Where there was enough of it for a pass to take something, more bytes   *)
(* make no difference to that pass.                                        *)
LEMMA FrontMore ==
  ASSUME NEW k \in Chunked, NEW o \in Seq(Seq(Byte)), NEW f \in Seq(Byte)
  PROVE \E c \in 0 .. Len(f), p \in Seq(Seq(Byte)) :
          /\ Front(k, o, f) = [out |-> p, buf |-> Bs!From(f, c + 1)]
          /\ \/ c = 0 /\ p = o
             \/ /\ c > 0
                /\ \A y \in Seq(Byte) : Front(k, o, f \o y) = [out |-> p, buf |-> Bs!From(f, c + 1) \o y]
<1> DEFINE P == Len(Bs!Preamble(k))
           h == Bs!HeaderSize(k)
           n == Bs!FrameSize(k, f)
<1>1. P \in Nat /\ P >= 2 /\ h = P + 2
  BY ReaderFacts
<1>2. n \in Nat /\ n >= h
  BY FrameFacts
<1>3. Len(f) \in Nat
  OBVIOUS
<1>4. Bs!From(f, 0 + 1) = f
  <2>1. SubSeq(f, 1, Len(f)) = f
    BY SubSeqFull
  <2> QED BY <2>1 DEF Bs!From
<1>5. ASSUME Front(k, o, f) = [out |-> o, buf |-> f]
      PROVE \E c \in 0 .. Len(f), p \in Seq(Seq(Byte)) :
              Front(k, o, f) = [out |-> p, buf |-> Bs!From(f, c + 1)] /\ c = 0 /\ p = o
  <2>1. 0 \in 0 .. Len(f)
    BY <1>3
  <2> QED BY <1>4, <1>5, <2>1
<1>6. ASSUME NEW y \in Seq(Byte)
      PROVE Len(f \o y) >= Len(f) /\ Len(f \o y) \in Nat
  <2>1. Len(f \o y) = Len(f) + Len(y) /\ Len(y) \in Nat
    BY ConcatProperties
  <2> QED BY <1>3, <2>1
<1>7. CASE Len(f) < h
  <2>1. Front(k, o, f) = [out |-> o, buf |-> f]
    BY <1>7 DEF Front
  <2> QED BY <1>5, <2>1
<1>8. CASE ~(Len(f) < h) /\ ~Bs!GoodHeader(k, f) /\ ~Bs!Reader[k].resyncs
  <2>1. Front(k, o, f) = [out |-> o, buf |-> f]
    BY <1>8 DEF Front
  <2> QED BY <1>5, <2>1
<1>9. CASE ~(Len(f) < h) /\ ~Bs!GoodHeader(k, f) /\ Bs!Reader[k].resyncs
  <2>1. Front(k, o, f) = [out |-> o, buf |-> Bs!From(f, P + 1)]
    BY <1>9 DEF Front
  <2>2. P \in 0 .. Len(f) /\ P > 0 /\ P + 1 \in 1 .. Len(f) + 1
    BY <1>1, <1>3, <1>9
  <2>3. ASSUME NEW y \in Seq(Byte) PROVE Front(k, o, f \o y) = [out |-> o, buf |-> Bs!From(f, P + 1) \o y]
    <3>1. Bs!GoodHeader(k, f \o y) = Bs!GoodHeader(k, f)
      BY <1>1, <1>3, <1>9, FrameMore
    <3>2. ~(Len(f \o y) < h)
      BY <1>1, <1>3, <1>6, <1>9
    <3>3. Front(k, o, f \o y) = [out |-> o, buf |-> Bs!From(f \o y, P + 1)]
      BY <1>9, <3>1, <3>2 DEF Front
    <3> QED BY <2>2, <3>3, FromConcat
  <2> QED BY <2>1, <2>2, <2>3
<1>10. CASE ~(Len(f) < h) /\ Bs!GoodHeader(k, f) /\ Len(f) < n
  <2>1. Front(k, o, f) = [out |-> o, buf |-> f]
    BY <1>10 DEF Front
  <2> QED BY <1>5, <2>1
<1>11. CASE ~(Len(f) < h) /\ Bs!GoodHeader(k, f) /\ ~(Len(f) < n) /\ ~Bs!GoodPayload(k, f)
  <2>1. Front(k, o, f) = [out |-> o, buf |-> Bs!From(f, P + 1)]
    BY <1>11 DEF Front
  <2>2. P \in 0 .. Len(f) /\ P > 0 /\ P + 1 \in 1 .. Len(f) + 1
    BY <1>1, <1>3, <1>11
  <2>3. ASSUME NEW y \in Seq(Byte) PROVE Front(k, o, f \o y) = [out |-> o, buf |-> Bs!From(f, P + 1) \o y]
    <3>1. /\ Bs!GoodHeader(k, f \o y) = Bs!GoodHeader(k, f) /\ Bs!FrameSize(k, f \o y) = n
          /\ Bs!GoodPayload(k, f \o y) = Bs!GoodPayload(k, f)
      <4>1. Len(f) >= Bs!HeaderSize(k) /\ Bs!FrameSize(k, f) <= Len(f)
        BY <1>1, <1>2, <1>3, <1>11
      <4> HIDE DEF h
      <4> QED BY <4>1, FrameMore
    <3>2. ~(Len(f \o y) < h) /\ ~(Len(f \o y) < n)
      BY <1>1, <1>2, <1>3, <1>6, <1>11
    <3>3. Front(k, o, f \o y) = [out |-> o, buf |-> Bs!From(f \o y, P + 1)]
      BY <1>11, <3>1, <3>2 DEF Front
    <3> QED BY <2>2, <3>3, FromConcat
  <2> QED BY <2>1, <2>2, <2>3
<1>12. CASE ~(Len(f) < h) /\ Bs!GoodHeader(k, f) /\ ~(Len(f) < n) /\ Bs!GoodPayload(k, f)
  <2>1. PICK p : p = Append(o, SubSeq(f, 1, n))
    OBVIOUS
  <2>2. Front(k, o, f) = [out |-> p, buf |-> Bs!From(f, n + 1)]
    BY <1>12, <2>1 DEF Front
  <2>3. n \in 0 .. Len(f) /\ n > 0 /\ n + 1 \in 1 .. Len(f) + 1
    BY <1>1, <1>2, <1>3, <1>12
  <2>4. p \in Seq(Seq(Byte))
    <3>1. \A i \in 1 .. n : f[i] \in Byte
      BY <2>3
    <3>2. 1 \in Int /\ n \in Int
      BY <1>2
    <3>3. SubSeq(f, 1, n) \in Seq(Byte)
      BY <3>1, <3>2, SubSeqProperties
    <3> QED BY <2>1, <3>3, AppendProperties
  <2>5. ASSUME NEW y \in Seq(Byte) PROVE Front(k, o, f \o y) = [out |-> p, buf |-> Bs!From(f, n + 1) \o y]
    <3>1. /\ Bs!GoodHeader(k, f \o y) = Bs!GoodHeader(k, f) /\ Bs!FrameSize(k, f \o y) = n
          /\ Bs!GoodPayload(k, f \o y) = Bs!GoodPayload(k, f)
          /\ SubSeq(f \o y, 1, n) = SubSeq(f, 1, n)
      <4>1. Len(f) >= Bs!HeaderSize(k) /\ Bs!FrameSize(k, f) <= Len(f)
        BY <1>1, <1>2, <1>3, <1>12
      <4> HIDE DEF h
      <4> QED BY <4>1, FrameMore
    <3>2. ~(Len(f \o y) < h) /\ ~(Len(f \o y) < n)
      BY <1>1, <1>2, <1>3, <1>6, <1>12
    <3>3. Front(k, o, f \o y) = [out |-> p, buf |-> Bs!From(f \o y, n + 1)]
      BY <1>12, <2>1, <3>1, <3>2 DEF Front
    <3> QED BY <2>3, <3>3, FromConcat
  <2> QED BY <2>2, <2>3, <2>4, <2>5
<1> QED BY <1>7, <1>8, <1>9, <1>10, <1>11, <1>12

(* A pass leaves a buffer that is no longer, and the same only where it    *)
(* changes nothing.                                                        *)
LEMMA PassType ==
  ASSUME NEW k \in Chunked, NEW s \in St
  PROVE /\ Bs!Pass(k, s) \in St
        /\ Bs!Pass(k, s) = s \/ Len(Bs!Pass(k, s).buf) < Len(s.buf)
<1> DEFINE o == s.out
           b == s.buf
           keep == Bs!Reader[k].keep
<1>1. s = [out |-> o, buf |-> b] /\ o \in Seq(Seq(Byte)) /\ b \in Seq(Byte) /\ Len(b) \in Nat
  BY DEF St
<1>2. PICK t : t = Bs!Pass(k, s)
  OBVIOUS
<1> HIDE DEF o, b
<1>3. ASSUME NEW m \in 1 .. Len(b) + 1, NEW p \in Seq(Seq(Byte)), m = 1 => p = o,
             t = [out |-> p, buf |-> Bs!From(b, m)]
      PROVE t \in St /\ (t = s \/ Len(t.buf) < Len(s.buf))
  <2>1. PICK d : d = Bs!From(b, m)
    OBVIOUS
  <2>2. d \in Seq(Byte) /\ Len(d) = (Len(b) - m) + 1
    BY <1>1, <2>1, FromIs
  <2>3. t = [out |-> p, buf |-> d] /\ t.buf = d /\ s.buf = b
    BY <1>1, <1>3, <2>1
  <2>4. t \in St
    BY <1>3, <2>2, <2>3 DEF St
  <2>5. CASE m = 1
    <3>1. SubSeq(b, 1, Len(b)) = b
      BY <1>1, SubSeqFull
    <3>2. d = b
      BY <2>1, <2>5, <3>1 DEF Bs!From
    <3>3. t = s
      BY <1>1, <1>3, <2>3, <2>5, <3>2
    <3> QED BY <2>4, <3>3
  <2>6. CASE m # 1
    <3>1. Len(d) < Len(b)
      BY <1>1, <2>2, <2>6
    <3> QED BY <2>3, <2>4, <3>1
  <2> QED BY <2>5, <2>6
<1>4. CASE Bs!Found(k, b) = {}
  <2>1. t = [out |-> o, buf |-> Bs!Kept(k, b)]
    BY <1>1, <1>2, <1>4, PassIs
  <2> DEFINE m == 1 + (IF Len(b) > keep THEN Len(b) - keep ELSE 0)
  <2>2. Bs!Kept(k, b) = Bs!From(b, m)
    BY DEF Bs!Kept, Bs!LastOf
  <2>3. keep \in Nat
    <3>1. Len(Bs!Preamble(k)) \in Nat /\ Len(Bs!Preamble(k)) >= 2 /\ keep = Len(Bs!Preamble(k)) - 1
      BY ReaderFacts
    <3> QED BY <3>1
  <2> HIDE DEF keep
  <2>4. m \in 1 .. Len(b) + 1
    BY <1>1, <2>3
  <2> HIDE DEF m
  <2>5. t \in St /\ (t = s \/ Len(t.buf) < Len(s.buf))
    BY <1>1, <1>3, <2>1, <2>2, <2>4
  <2> QED BY <1>2, <2>5
<1>5. CASE Bs!Found(k, b) # {}
  <2>1. PICK f : f = Bs!Sighted(k, b)
    OBVIOUS
  <2>2. PICK i : i = Bs!Min(Bs!Found(k, b))
    OBVIOUS
  <2>3. /\ i \in 1 .. Len(b) /\ f = Bs!From(b, i) /\ f \in Seq(Byte) /\ Len(f) = (Len(b) - i) + 1
    BY <1>1, <1>5, <2>1, <2>2, SightedIs
  <2>4. t = Front(k, o, f)
    BY <1>1, <1>2, <1>5, <2>1, PassIs
  <2>5. PICK c \in 0 .. Len(f), p \in Seq(Seq(Byte)) :
          Front(k, o, f) = [out |-> p, buf |-> Bs!From(f, c + 1)] /\ (c = 0 => p = o)
    <3>1. f \in Seq(Byte)
      BY <2>3
    <3>2. \E c \in 0 .. Len(f), p \in Seq(Seq(Byte)) :
            /\ Front(k, o, f) = [out |-> p, buf |-> Bs!From(f, c + 1)]
            /\ \/ c = 0 /\ p = o
               \/ /\ c > 0
                  /\ \A y \in Seq(Byte) : Front(k, o, f \o y) = [out |-> p, buf |-> Bs!From(f, c + 1) \o y]
      BY <1>1, <3>1, FrontMore
    <3> QED BY <3>2
  <2>6. /\ i \in 1 .. Len(b) + 1 /\ c + 1 \in 1 .. (Len(b) - i) + 2
        /\ (i + (c + 1)) - 1 = i + c /\ i + c \in 1 .. Len(b) + 1 /\ (i + c = 1 => c = 0)
    BY <1>1, <2>3
  <2>7. Bs!From(f, c + 1) = Bs!From(b, i + c)
    <3>1. Bs!From(Bs!From(b, i), c + 1) = Bs!From(b, (i + (c + 1)) - 1)
      BY <1>1, <2>6, FromFrom
    <3> QED BY <2>3, <2>6, <3>1
  <2>8. t = [out |-> p, buf |-> Bs!From(b, i + c)] /\ (i + c = 1 => p = o)
    BY <2>4, <2>5, <2>6, <2>7
  <2>9. t \in St /\ (t = s \/ Len(t.buf) < Len(s.buf))
    BY <1>3, <2>6, <2>8
  <2> QED BY <1>2, <2>9
<1> QED BY <1>4, <1>5

(* A preamble in what is there is one when more bytes come.                *)
LEMMA StartsMore ==
  ASSUME NEW k \in Chunked, NEW b \in Seq(Byte), NEW y \in Seq(Byte), NEW i
  PROVE StartsAt(k, b, i) <=> /\ StartsAt(k, b \o y, i)
                              /\ (i + Len(Bs!Preamble(k))) - 1 <= Len(b)
<1> DEFINE P == Bs!Preamble(k)
<1>1. Len(P) \in Nat /\ Len(P) >= 2
  BY ReaderFacts
<1>2. Len(b) \in Nat /\ Len(y) \in Nat
  OBVIOUS
<1>3. PICK c : c = b \o y
  OBVIOUS
<1>4. Len(c) = Len(b) + Len(y)
      /\ \A j \in 1 .. Len(b) + Len(y) : c[j] = IF j <= Len(b) THEN b[j] ELSE y[j - Len(b)]
  BY <1>3, ConcatProperties
<1> HIDE DEF P
<1>5. ASSUME i \in Nat, i >= 1, (i + Len(P)) - 1 <= Len(b), NEW j \in 1 .. Len(P)
      PROVE c[(i + j) - 1] = b[(i + j) - 1]
  <2>1. (i + j) - 1 \in 1 .. Len(b) + Len(y) /\ (i + j) - 1 <= Len(b)
    BY <1>1, <1>2, <1>5
  <2> QED BY <1>4, <2>1
<1>6. ASSUME StartsAt(k, b, i) PROVE StartsAt(k, c, i) /\ (i + Len(P)) - 1 <= Len(b)
  <2>1. /\ i \in 1 .. Len(b) /\ (i + Len(P)) - 1 <= Len(b)
        /\ \A j \in 1 .. Len(P) : b[(i + j) - 1] = P[j]
    BY <1>6 DEF StartsAt, P
  <2>2. i \in Nat /\ i >= 1 /\ i \in 1 .. Len(c) /\ (i + Len(P)) - 1 <= Len(c)
    BY <1>1, <1>2, <1>4, <2>1
  <2>3. \A j \in 1 .. Len(P) : c[(i + j) - 1] = P[j]
    BY <1>5, <2>1, <2>2
  <2> QED BY <2>1, <2>2, <2>3 DEF StartsAt, P
<1>7. ASSUME StartsAt(k, c, i), (i + Len(P)) - 1 <= Len(b) PROVE StartsAt(k, b, i)
  <2>1. /\ i \in 1 .. Len(c)
        /\ \A j \in 1 .. Len(P) : c[(i + j) - 1] = P[j]
    BY <1>7 DEF StartsAt, P
  <2>2. i \in Nat /\ i >= 1 /\ i \in 1 .. Len(b)
    BY <1>1, <1>2, <1>4, <1>7, <2>1
  <2>3. \A j \in 1 .. Len(P) : b[(i + j) - 1] = P[j]
    BY <1>5, <1>7, <2>1, <2>2
  <2> QED BY <1>7, <2>2, <2>3 DEF StartsAt, P
<1> QED BY <1>3, <1>6, <1>7 DEF P

More(s, y) == [out |-> s.out, buf |-> s.buf \o y]

(* A pass before more bytes come does the same as one after they came, or  *)
(* leaves what the one after it would have come to.                        *)
LEMMA PassMore ==
  ASSUME NEW k \in Chunked, NEW s \in St, NEW y \in Seq(Byte), NEW t, t = Bs!Pass(k, s)
  PROVE \/ Bs!Pass(k, More(s, y)) = More(t, y)
        \/ Bs!Pass(k, More(s, y)) = Bs!Pass(k, More(t, y))
<1> DEFINE o == s.out
           b == s.buf
           keep == Bs!Reader[k].keep
           P == Len(Bs!Preamble(k))
<1>1. s = [out |-> o, buf |-> b] /\ o \in Seq(Seq(Byte)) /\ b \in Seq(Byte) /\ Len(b) \in Nat
  BY DEF St
<1>2. P \in Nat /\ P >= 2 /\ keep = P - 1
  BY ReaderFacts
<1>3. PICK c : c = b \o y
  OBVIOUS
<1> HIDE DEF o, b, keep
<1>4. c \in Seq(Byte) /\ Len(c) = Len(b) + Len(y) /\ Len(y) \in Nat
  BY <1>1, <1>3, ConcatProperties
<1>5. More(s, y) = [out |-> o, buf |-> c]
  BY <1>1, <1>3 DEF More, o, b
<1>6. \A i : i \in Bs!Found(k, c) /\ (i + P) - 1 <= Len(b) => i \in Bs!Found(k, b)
  <2>1. \A i : i \in Bs!Found(k, c) <=> StartsAt(k, c, i)
    BY <1>4, FoundIs
  <2>2. \A i : i \in Bs!Found(k, b) <=> StartsAt(k, b, i)
    BY <1>1, FoundIs
  <2>3. \A i : StartsAt(k, c, i) /\ (i + P) - 1 <= Len(b) => StartsAt(k, b, i)
    BY <1>1, <1>3, StartsMore
  <2> QED BY <2>1, <2>2, <2>3
<1>7. \A i \in Bs!Found(k, c) : i \in Nat
  BY DEF Bs!Found
<1>8. CASE Bs!Found(k, b) = {}
  <2> DEFINE n == IF Len(b) > keep THEN Len(b) - keep ELSE 0
  <2>1. n \in 0 .. Len(b) /\ 1 + n = n + 1
    BY <1>1, <1>2
  <2>2. Bs!Kept(k, b) = Bs!From(b, n + 1)
    <3>1. Bs!Kept(k, b) = Bs!From(b, 1 + n)
      BY DEF Bs!Kept, Bs!LastOf, keep
    <3> QED BY <2>1, <3>1
  <2>3. n = 0 \/ n + keep = Len(b)
    BY <1>1, <1>2
  <2> HIDE DEF n
  <2>4. ASSUME NEW i \in Bs!Found(k, c) PROVE n < i
    <3>1. CASE n = 0
      <4>1. i \in 1 .. Len(c)
        BY DEF Bs!Found
      <4>2. i >= 1
        BY <1>4, <4>1
      <4> QED BY <1>7, <3>1, <4>2
    <3>2. CASE n + keep = Len(b) /\ ~(n < i)
      <4>1. i \in Nat
        BY <1>7
      <4>2. (i + P) - 1 <= Len(b)
        BY <1>1, <1>2, <2>1, <3>2, <4>1
      <4> QED BY <1>6, <1>8, <4>2
    <3> QED BY <2>3, <3>1, <3>2
  <2>5. n \in 0 .. Len(c) /\ (n = 0 \/ n + keep <= Len(c))
    BY <1>1, <1>2, <1>4, <2>1, <2>3
  <2>6. Bs!Pass(k, [out |-> o, buf |-> Bs!From(c, n + 1)]) = Bs!Pass(k, [out |-> o, buf |-> c])
    BY <1>4, <2>4, <2>5, PassAfter DEF keep
  <2>7. Bs!From(c, n + 1) = Bs!From(b, n + 1) \o y
    <3>1. n + 1 \in 1 .. Len(b) + 1
      BY <1>1, <2>1
    <3> QED BY <1>1, <1>3, <3>1, FromConcat
  <2>8. t = [out |-> o, buf |-> Bs!From(b, n + 1)]
    <3>1. Bs!Pass(k, [out |-> o, buf |-> b]) = [out |-> o, buf |-> Bs!Kept(k, b)]
      BY <1>8, PassIs
    <3> QED BY <1>1, <2>2, <3>1
  <2>9. More(t, y) = [out |-> o, buf |-> Bs!From(b, n + 1) \o y]
    BY <2>8 DEF More
  <2> QED BY <1>5, <2>6, <2>7, <2>9
<1>9. CASE Bs!Found(k, b) # {}
  <2>1. PICK f : f = Bs!Sighted(k, b)
    OBVIOUS
  <2>2. PICK m : m = Bs!Min(Bs!Found(k, b))
    OBVIOUS
  <2>3. /\ m \in 1 .. Len(b) /\ f = Bs!From(b, m) /\ f \in Seq(Byte) /\ Len(f) = (Len(b) - m) + 1
        /\ Len(f) >= P /\ 1 \in Bs!Found(k, f) /\ \A i \in Bs!Found(k, b) : m - 1 < i
    BY <1>1, <1>9, <2>1, <2>2, SightedIs
  <2>4. t = Front(k, o, f)
    BY <1>1, <1>9, <2>1, PassIs
  <2> DEFINE n == m - 1
  <2>5. n \in 0 .. Len(b) /\ n \in 0 .. Len(c) /\ n + 1 = m /\ n + keep <= Len(c) /\ m \in 1 .. Len(b) + 1
    BY <1>1, <1>2, <1>4, <2>3
  <2>6. ASSUME NEW i \in Bs!Found(k, c) PROVE n < i
    <3>1. i \in Nat
      BY <1>7
    <3>2. CASE (i + P) - 1 <= Len(b)
      BY <1>6, <2>3, <3>2
    <3>3. CASE ~((i + P) - 1 <= Len(b))
      BY <1>1, <1>2, <2>3, <3>1, <3>3
    <3> QED BY <3>2, <3>3
  <2> HIDE DEF n
  <2>7. Bs!Pass(k, [out |-> o, buf |-> Bs!From(c, n + 1)]) = Bs!Pass(k, [out |-> o, buf |-> c])
    BY <1>4, <2>5, <2>6, PassAfter DEF keep
  <2>8. Bs!From(c, n + 1) = f \o y
    BY <1>1, <1>3, <2>3, <2>5, FromConcat
  <2>9. Bs!Pass(k, More(s, y)) = Bs!Pass(k, [out |-> o, buf |-> f \o y])
    BY <1>5, <2>7, <2>8
  <2>10. PICK d \in 0 .. Len(f), p \in Seq(Seq(Byte)) :
          /\ Front(k, o, f) = [out |-> p, buf |-> Bs!From(f, d + 1)]
          /\ \/ d = 0 /\ p = o
             \/ /\ d > 0
                /\ \A z \in Seq(Byte) : Front(k, o, f \o z) = [out |-> p, buf |-> Bs!From(f, d + 1) \o z]
    <3>1. f \in Seq(Byte)
      BY <2>3
    <3> QED BY <1>1, <3>1, FrontMore
  <2>11. More(t, y) = [out |-> p, buf |-> Bs!From(f, d + 1) \o y]
    BY <2>4, <2>10 DEF More
  <2>12. CASE d = 0 /\ p = o
    <3>1. Bs!From(f, d + 1) = f
      <4>1. SubSeq(f, 1, Len(f)) = f
        BY <2>3, SubSeqFull
      <4>2. d + 1 = 1
        BY <2>12
      <4> QED BY <4>1, <4>2 DEF Bs!From
    <3> QED BY <2>9, <2>11, <2>12, <3>1
  <2>13. CASE \A z \in Seq(Byte) : Front(k, o, f \o z) = [out |-> p, buf |-> Bs!From(f, d + 1) \o z]
    <3>1. PICK g : g = f \o y
      OBVIOUS
    <3>2. g \in Seq(Byte)
      BY <2>3, <3>1, ConcatProperties
    <3>3. 1 \in Bs!Found(k, g)
      <4>1. StartsAt(k, f, 1)
        BY <2>3, FoundIs
      <4>2. StartsAt(k, g, 1)
        BY <2>3, <3>1, <4>1, StartsMore
      <4> QED BY <3>2, <4>2, FoundIs
    <3>4. PICK q : q = Bs!Min(Bs!Found(k, g))
      OBVIOUS
    <3>5. q \in Bs!Found(k, g) /\ q <= 1
      BY <3>3, <3>4, FirstIs
    <3>6. q = 1
      <4>1. q \in 1 .. Len(g)
        BY <3>5 DEF Bs!Found
      <4> QED BY <3>5, <4>1
    <3>7. Bs!Sighted(k, g) = g
      <4>1. SubSeq(g, 1, Len(g)) = g
        BY <3>2, SubSeqFull
      <4> QED BY <3>4, <3>6, <4>1 DEF Bs!Sighted, Bs!From
    <3>8. Bs!Pass(k, [out |-> o, buf |-> g]) = Front(k, o, g)
      <4>1. Bs!Found(k, g) # {}
        BY <3>3
      <4>2. Bs!Pass(k, [out |-> o, buf |-> g]) = Front(k, o, Bs!Sighted(k, g))
        BY <4>1, PassIs
      <4> QED BY <3>7, <4>2
    <3>9. Front(k, o, g) = More(t, y)
      BY <2>11, <2>13, <3>1
    <3> QED BY <2>9, <3>1, <3>8, <3>9
  <2> QED BY <2>10, <2>12, <2>13
<1> QED BY <1>8, <1>9
-----------------------------------------------------------------------------
(***************************************************************************)
(* The loop of the reader.                                                 *)
(***************************************************************************)
Passes(k) == [x \in St |-> Bs!Pass(k, x)]
LeftOf == [x \in St |-> Len(x.buf)]
Drained(k, s) == Bs!Drain(k, s.buf, s.out)

LEMMA PassesType ==
  ASSUME NEW k \in Chunked
  PROVE /\ Passes(k) \in [St -> St] /\ LeftOf \in [St -> Nat]
        /\ \A x \in St : Passes(k)[x] = Bs!Pass(k, x) /\ LeftOf[x] = Len(x.buf)
        /\ \A x \in St : Passes(k)[x] = x \/ LeftOf[Passes(k)[x]] < LeftOf[x]
<1>1. \A x \in St : Len(x.buf) \in Nat
  BY DEF St
<1>2. LeftOf \in [St -> Nat] /\ \A x \in St : LeftOf[x] = Len(x.buf)
  BY <1>1 DEF LeftOf
<1>3. \A x \in St : Bs!Pass(k, x) \in St
  BY PassType
<1>4. Passes(k) \in [St -> St] /\ \A x \in St : Passes(k)[x] = Bs!Pass(k, x)
  BY <1>3 DEF Passes
<1>5. ASSUME NEW x \in St PROVE Passes(k)[x] = x \/ LeftOf[Passes(k)[x]] < LeftOf[x]
  <2>1. Bs!Pass(k, x) = x \/ Len(Bs!Pass(k, x).buf) < Len(x.buf)
    BY PassType
  <2>2. Passes(k)[x] = Bs!Pass(k, x) /\ Bs!Pass(k, x) \in St
    BY <1>3, <1>4
  <2>3. LeftOf[Bs!Pass(k, x)] = Len(Bs!Pass(k, x).buf) /\ LeftOf[x] = Len(x.buf)
    BY <1>2, <2>2
  <2> QED BY <2>1, <2>2, <2>3
<1> QED BY <1>2, <1>4, <1>5

LEMMA DrainRun ==
  ASSUME NEW k \in Chunked, NEW s \in St
  PROVE \E g : IsRun(St, Passes(k), s, Len(s.buf), g) /\ Drained(k, s) = g[Len(s.buf)]
<1> DEFINE L == Len(s.buf)
           After(g) == [n \in 0 .. L |-> IF n = 0 THEN [out |-> s.out, buf |-> s.buf] ELSE Bs!Pass(k, g[n - 1])]
           a == CHOOSE g : g = After(g)
<1>1. L \in Nat /\ s = [out |-> s.out, buf |-> s.buf]
  BY DEF St
<1>2. Passes(k) \in [St -> St] /\ \A x \in St : Passes(k)[x] = Bs!Pass(k, x)
  BY PassesType
<1>3. Drained(k, s) = a[L]
  BY DEF Drained, Bs!Drain
<1> HIDE DEF L
<1>4. PICK h : IsRun(St, Passes(k), s, L, h)
  BY <1>1, <1>2, RunExists
<1>5. h = After(h)
  <2>1. h \in [0 .. L -> St] /\ h[0] = s /\ \A n \in 1 .. L : h[n] = Passes(k)[h[n - 1]]
    BY <1>4 DEF IsRun
  <2>2. ASSUME NEW n \in 0 .. L
        PROVE h[n] = IF n = 0 THEN [out |-> s.out, buf |-> s.buf] ELSE Bs!Pass(k, h[n - 1])
    <3>1. CASE n = 0
      BY <1>1, <2>1, <3>1
    <3>2. CASE n # 0
      <4>1. n \in 1 .. L /\ n - 1 \in 0 .. L
        BY <1>1, <3>2
      <4>2. h[n] = Passes(k)[h[n - 1]] /\ h[n - 1] \in St
        BY <2>1, <4>1
      <4> QED BY <1>2, <3>2, <4>2
    <3> QED BY <3>1, <3>2
  <2> QED BY <2>1, <2>2
<1>6. a = After(a)
  <2>1. \E g : g = After(g)
    BY <1>5
  <2> HIDE DEF After
  <2> QED BY <2>1
<1> HIDE DEF a
<1>7. a \in [0 .. L -> {a[n] : n \in 0 .. L}] /\ a[0] = s /\ \A n \in 1 .. L : a[n] = Bs!Pass(k, a[n - 1])
  <2>1. 0 \in 0 .. L /\ \A n \in 1 .. L : n \in 0 .. L /\ n # 0
    BY <1>1
  <2>2. \A n \in 0 .. L : a[n] = IF n = 0 THEN [out |-> s.out, buf |-> s.buf] ELSE Bs!Pass(k, a[n - 1])
    BY <1>6
  <2>3. a[0] = s /\ \A n \in 1 .. L : a[n] = Bs!Pass(k, a[n - 1])
    BY <1>1, <2>1, <2>2
  <2>4. a \in [0 .. L -> {a[n] : n \in 0 .. L}]
    BY <1>6
  <2> QED BY <2>3, <2>4
<1>8. \A n \in 0 .. L : a[n] \in St
  <2> DEFINE Q == {n \in Nat : n <= L => a[n] \in St}
  <2>1. 0 \in Q
    BY <1>7
  <2>2. ASSUME NEW n \in Q PROVE n + 1 \in Q
    <3>1. SUFFICES ASSUME n + 1 <= L PROVE a[n + 1] \in St
      OBVIOUS
    <3>2. n + 1 \in 1 .. L /\ (n + 1) - 1 = n /\ a[n] \in St
      BY <1>1, <3>1
    <3>3. a[n + 1] = Bs!Pass(k, a[n])
      <4>1. a[n + 1] = Bs!Pass(k, a[(n + 1) - 1])
        BY <1>7, <3>2
      <4> QED BY <3>2, <4>1
    <3> QED BY <3>2, <3>3, PassType
  <2>3. Q = Nat
    <3> HIDE DEF Q
    <3>1. Q \in SUBSET Nat
      BY DEF Q
    <3> QED BY <2>1, <2>2, <3>1, AllNumbers
  <2> QED BY <1>1, <2>3
<1>9. IsRun(St, Passes(k), s, L, a)
  <2>1. a \in [0 .. L -> St]
    BY <1>7, <1>8
  <2>2. ASSUME NEW n \in 1 .. L PROVE a[n] = Passes(k)[a[n - 1]]
    <3>1. n - 1 \in 0 .. L
      BY <1>1
    <3>2. a[n - 1] \in St
      BY <1>8, <3>1
    <3> QED BY <1>2, <1>7, <3>2
  <2> QED BY <1>7, <2>1, <2>2 DEF IsRun
<1> QED BY <1>3, <1>9 DEF L

(* What is left when it stops; it stops at once where a pass changes       *)
(* nothing, and a pass before it makes no difference.                      *)
LEMMA DrainFacts ==
  ASSUME NEW k \in Chunked, NEW s \in St
  PROVE /\ Drained(k, s) \in St
        /\ Bs!Pass(k, s) = s => Drained(k, s) = s
        /\ Drained(k, Bs!Pass(k, s)) = Drained(k, s)
<1> DEFINE F == Passes(k)
           t == Bs!Pass(k, s)
           L == Len(s.buf)
           M == Len(t.buf)
<1>1. /\ F \in [St -> St] /\ LeftOf \in [St -> Nat]
      /\ \A x \in St : F[x] = Bs!Pass(k, x) /\ LeftOf[x] = Len(x.buf)
      /\ \A x \in St : F[x] = x \/ LeftOf[F[x]] < LeftOf[x]
  BY PassesType
<1>2. t \in St
  BY PassType
<1>3. PICK g : IsRun(St, F, s, L, g) /\ Drained(k, s) = g[L]
  BY DrainRun
<1>4. PICK h : IsRun(St, F, t, M, h) /\ Drained(k, t) = h[M]
  BY <1>2, DrainRun
<1>5. F[s] = t
  BY <1>1
<1>6. L \in Nat /\ M \in Nat /\ LeftOf[s] = L /\ LeftOf[t] = M
  BY <1>1, <1>2 DEF St
<1> HIDE DEF F, t, L, M
<1>7. LeftOf[s] <= L /\ LeftOf[F[s]] <= M /\ IsRun(St, F, F[s], M, h)
  BY <1>4, <1>5, <1>6
<1>8. g[L] = h[M]
  <2>1. Shrinks(St, F, LeftOf)
    BY <1>1 DEF Shrinks
  <2>3. LeftOf[s] <= L /\ LeftOf[F[s]] <= M
    BY <1>7
  <2>4. L \in Nat /\ M \in Nat
    BY <1>6
  <2>5. IsRun(St, F, s, L, g) /\ IsRun(St, F, F[s], M, h)
    BY <1>3, <1>7
  <2> QED BY <2>1, <2>3, <2>4, <2>5, RunFromNext
<1>9. g[L] \in St /\ g[0] = s
  BY <1>3, <1>6 DEF IsRun
<1>10. ASSUME t = s PROVE g[L] = s
  <2>1. F[g[0]] = g[0] /\ 0 \in 0 .. L /\ L \in 0 .. L
    BY <1>5, <1>6, <1>9, <1>10
  <2>2. g[L] = g[0]
    BY <1>3, <1>6, <2>1, RunStays
  <2> QED BY <1>9, <2>2
<1> QED BY <1>3, <1>4, <1>8, <1>9, <1>10 DEF t

LEMMA MoreType ==
  ASSUME NEW s \in St, NEW y \in Seq(Byte)
  PROVE More(s, y) \in St /\ More(s, y).out = s.out /\ More(s, y).buf = s.buf \o y
<1>1. s.out \in Seq(Seq(Byte)) /\ s.buf \in Seq(Byte)
  BY DEF St
<1>2. s.buf \o y \in Seq(Byte)
  BY <1>1, ConcatProperties
<1> QED BY <1>1, <1>2 DEF More, St

(* What came may be read before the rest comes: it makes no difference.    *)
LEMMA DrainMore ==
  ASSUME NEW k \in Chunked, NEW s \in St, NEW y \in Seq(Byte)
  PROVE Drained(k, More(Drained(k, s), y)) = Drained(k, More(s, y))
<1> DEFINE Same(x) == Drained(k, More(Drained(k, x), y)) = Drained(k, More(x, y))
           P == {n \in Nat : \A x \in St : Len(x.buf) = n => Same(x)}
<1>1. ASSUME NEW n \in Nat, \A m \in Nat : m < n => m \in P PROVE n \in P
  <2>1. SUFFICES ASSUME NEW x \in St, Len(x.buf) = n PROVE Same(x)
    OBVIOUS
  <2>2. PICK t : t = Bs!Pass(k, x)
    OBVIOUS
  <2>3. t \in St /\ (t = x \/ Len(t.buf) < Len(x.buf))
    BY <2>2, PassType
  <2>4. CASE t = x
    <3>1. Drained(k, x) = x
      BY <2>2, <2>4, DrainFacts
    <3> QED BY <3>1
  <2>5. CASE Len(t.buf) < Len(x.buf)
    <3>1. Len(t.buf) \in Nat
      BY <2>3 DEF St
    <3>2. Len(t.buf) \in P
      BY <1>1, <2>1, <2>5, <3>1
    <3>3. Drained(k, More(Drained(k, t), y)) = Drained(k, More(t, y))
      BY <2>3, <3>2
    <3>4. Drained(k, t) = Drained(k, x)
      BY <2>2, DrainFacts
    <3>5. More(x, y) \in St /\ More(t, y) \in St
      BY <2>3, MoreType
    <3>6. /\ Drained(k, Bs!Pass(k, More(x, y))) = Drained(k, More(x, y))
          /\ Drained(k, Bs!Pass(k, More(t, y))) = Drained(k, More(t, y))
      BY <3>5, DrainFacts
    <3>7. Bs!Pass(k, More(x, y)) = More(t, y) \/ Bs!Pass(k, More(x, y)) = Bs!Pass(k, More(t, y))
      BY <2>2, PassMore
    <3>8. Drained(k, More(t, y)) = Drained(k, More(x, y))
      BY <3>6, <3>7
    <3> QED BY <3>3, <3>4, <3>8
  <2> QED BY <2>3, <2>4, <2>5
<1>2. P = Nat
  <2> HIDE DEF P
  <2>1. P \in SUBSET Nat
    BY DEF P
  <2> QED BY <1>1, <2>1, AllBelow
<1>3. Len(s.buf) \in Nat
  BY DEF St
<1> QED BY <1>2, <1>3

(* What was read before and what the rest gives do not depend on where the *)
(* stream was cut.                                                         *)
LEMMA ReadBefore ==
  ASSUME NEW k \in Chunked, NEW o \in Seq(Seq(Byte)), NEW b \in Seq(Byte),
         NEW x \in Seq(Byte), NEW y \in Seq(Byte), NEW d, d = Bs!Drain(k, b \o x, o)
  PROVE d \in St /\ Bs!Drain(k, d.buf \o y, d.out) = Bs!Drain(k, b \o (x \o y), o)
<1>1. PICK s : s = [out |-> o, buf |-> b \o x]
  OBVIOUS
<1>2. b \o x \in Seq(Byte)
  BY ConcatProperties
<1>3. s \in St /\ s.out = o /\ s.buf = b \o x
  BY <1>1, <1>2 DEF St
<1>4. d = Drained(k, s)
  BY <1>3 DEF Drained
<1>5. d \in St
  BY <1>3, <1>4, DrainFacts
<1>6. Drained(k, More(d, y)) = Drained(k, More(s, y))
  BY <1>3, <1>4, DrainMore
<1>7. More(d, y).out = d.out /\ More(d, y).buf = d.buf \o y
  BY <1>5, MoreType
<1>8. More(s, y).out = o /\ More(s, y).buf = (b \o x) \o y
  BY <1>3, MoreType
<1>9. (b \o x) \o y = b \o (x \o y)
  BY ConcatAssociative
<1> QED BY <1>5, <1>6, <1>7, <1>8, <1>9 DEF Drained
-----------------------------------------------------------------------------
(***************************************************************************)
(* The frames of a stream that is there at once: split_stream finds those  *)
(* that the reader returns.                                                *)
(***************************************************************************)
Took(k, s) ==
  /\ Bs!Found(k, s.buf) # {}
  /\ Len(Bs!Sighted(k, s.buf)) >= Bs!HeaderSize(k)
  /\ Len(Bs!Sighted(k, s.buf)) >= Bs!FrameSize(k, Bs!Sighted(k, s.buf))

(* Where no frame is taken the second pass is the last.                    *)
LEMMA NoneTaken ==
  ASSUME NEW s \in St, NEW t, t = Bs!Pass("dpdu", s), ~Took("dpdu", s)
  PROVE t.out = s.out /\ Bs!Pass("dpdu", t) = t
<1> DEFINE k == "dpdu"
           o == s.out
           b == s.buf
           keep == Bs!Reader[k].keep
           P == Len(Bs!Preamble(k))
<1>0. k \in Chunked
  BY DEF Chunked
<1>1. s = [out |-> o, buf |-> b] /\ b \in Seq(Byte) /\ Len(b) \in Nat
  BY DEF St
<1>2. P \in Nat /\ P >= 2 /\ keep = P - 1 /\ Bs!Reader[k].checks = FALSE
  BY <1>0, ReaderFacts
<1>3. Bs!HeaderSize(k) \in Nat
  <2>1. Bs!HeaderSize(k) = P + 2
    BY <1>0, ReaderFacts
  <2> QED BY <1>2, <2>1
<1>t. ~Took(k, s) /\ t = Bs!Pass(k, s)
  OBVIOUS
<1> HIDE DEF k, o, b, keep
<1>4. CASE Bs!Found(k, b) = {}
  <2> DEFINE n == IF Len(b) > keep THEN Len(b) - keep ELSE 0
  <2>1. n \in 0 .. Len(b) /\ 1 + n = n + 1 /\ (n = 0 \/ n + keep <= Len(b))
    BY <1>1, <1>2
  <2>2. Bs!Kept(k, b) = Bs!From(b, n + 1)
    <3>1. Bs!Kept(k, b) = Bs!From(b, 1 + n)
      BY DEF Bs!Kept, Bs!LastOf, keep
    <3> QED BY <2>1, <3>1
  <2> HIDE DEF n
  <2>3. Bs!Pass(k, [out |-> o, buf |-> b]) = [out |-> o, buf |-> Bs!Kept(k, b)]
    BY <1>4, PassIs
  <2>4. t = [out |-> o, buf |-> Bs!From(b, n + 1)]
    BY <1>1, <1>t, <2>2, <2>3
  <2>5. \A i \in Bs!Found(k, b) : n < i
    BY <1>4
  <2>6. Bs!Pass(k, [out |-> o, buf |-> Bs!From(b, n + 1)]) = Bs!Pass(k, [out |-> o, buf |-> b])
    BY <1>0, <1>1, <2>1, <2>5, PassAfter DEF keep
  <2> QED BY <1>1, <1>t, <2>4, <2>6 DEF k, o
<1>5. CASE Bs!Found(k, b) # {}
  <2>1. PICK f : f = Bs!Sighted(k, b)
    OBVIOUS
  <2>2. PICK m : m = Bs!Min(Bs!Found(k, b))
    OBVIOUS
  <2>3. /\ m \in 1 .. Len(b) /\ f = Bs!From(b, m) /\ f \in Seq(Byte) /\ Len(f) = (Len(b) - m) + 1
        /\ Len(f) >= P /\ \A i \in Bs!Found(k, b) : m - 1 < i
    BY <1>0, <1>1, <1>5, <2>1, <2>2, SightedIs
  <2>4. Bs!Pass(k, [out |-> o, buf |-> b]) = Front(k, o, f)
    BY <1>5, <2>1, PassIs
  <2>5. Bs!FrameSize(k, f) \in Nat
    BY <1>0, FrameFacts
  <2>6. Len(f) < Bs!HeaderSize(k) \/ (~(Len(f) < Bs!HeaderSize(k)) /\ Len(f) < Bs!FrameSize(k, f))
    <3>1. Len(f) \in Nat
      BY <2>3
    <3>2. ~(Len(f) >= Bs!HeaderSize(k) /\ Len(f) >= Bs!FrameSize(k, f))
      BY <1>t, <1>5, <2>1 DEF Took, b
    <3> QED BY <1>3, <2>5, <3>1, <3>2
  <2>7. Bs!GoodHeader(k, f)
    BY <1>2 DEF Bs!GoodHeader
  <2>8. Front(k, o, f) = [out |-> o, buf |-> f]
    BY <2>6, <2>7 DEF Front
  <2>9. t = [out |-> o, buf |-> f]
    BY <1>1, <1>t, <2>4, <2>8
  <2> DEFINE n == m - 1
  <2>10. n \in 0 .. Len(b) /\ n + 1 = m /\ n + keep <= Len(b)
    BY <1>1, <1>2, <2>3
  <2>11. \A i \in Bs!Found(k, b) : n < i
    BY <2>3
  <2> HIDE DEF n
  <2>12. Bs!Pass(k, [out |-> o, buf |-> Bs!From(b, n + 1)]) = Bs!Pass(k, [out |-> o, buf |-> b])
    BY <1>0, <1>1, <2>10, <2>11, PassAfter DEF keep
  <2>13. Bs!Pass(k, t) = Bs!Pass(k, s)
    BY <1>1, <2>3, <2>9, <2>10, <2>12
  <2> QED BY <1>t, <2>9, <2>13 DEF k, o
<1> QED BY <1>4, <1>5

(* Where a frame is taken both take it; where none is, split_stream stops  *)
(* or goes on with less than a header.                                     *)
LEMMA SplitPassIs ==
  ASSUME NEW s \in St, NEW t, t = Bs!SplitPass("dpdu", s)
  PROVE /\ t \in St /\ (t = s \/ Len(t.buf) < Len(s.buf))
        /\ Took("dpdu", s) => t = Bs!Pass("dpdu", s)
        /\ ~Took("dpdu", s) =>
             \/ t = s
             \/ t.out = s.out /\ Len(t.buf) < Bs!HeaderSize("dpdu")
<1> DEFINE k == "dpdu"
           o == s.out
           b == s.buf
           P == Len(Bs!Preamble(k))
           f == Bs!Sighted(k, b)
<1>0. k \in Chunked
  BY DEF Chunked
<1>1. s = [out |-> o, buf |-> b] /\ o \in Seq(Seq(Byte)) /\ b \in Seq(Byte) /\ Len(b) \in Nat
  BY DEF St
<1>2. P \in Nat /\ P >= 2 /\ Bs!Reader[k].resyncs = FALSE /\ Bs!Reader[k].checks = FALSE
      /\ Bs!HeaderSize(k) = P + 2
  <2>1. P \in Nat /\ P >= 2 /\ Bs!HeaderSize(k) = P + 2
    BY <1>0, ReaderFacts
  <2>2. Bs!Reader[k].checks = FALSE /\ Bs!Reader[k].resyncs = Bs!Reader[k].checks
    BY <1>0, ReaderFacts
  <2> QED BY <2>1, <2>2
<1>3. Bs!FrameSize(k, f) \in Nat /\ Bs!FrameSize(k, f) >= Bs!HeaderSize(k)
  BY <1>0, FrameFacts
<1>t. t = Bs!SplitPass(k, s)
  OBVIOUS
<1> HIDE DEF k
<1>4. CASE Bs!Found(k, b) = {}
  <2>1. t = s
    BY <1>t, <1>4 DEF Bs!SplitPass
  <2>2. ~Took(k, s)
    BY <1>4 DEF Took
  <2> QED BY <2>1, <2>2 DEF k
<1>5. CASE Bs!Found(k, b) # {}
  <2>1. PICK m : m = Bs!Min(Bs!Found(k, b))
    OBVIOUS
  <2>2. /\ m \in 1 .. Len(b) /\ f \in Seq(Byte) /\ Len(f) = (Len(b) - m) + 1 /\ Len(f) >= P
    BY <1>0, <1>1, <1>5, <2>1, SightedIs
  <2>3. Len(f) \in Nat /\ Len(f) <= Len(b) /\ f # <<>>
    BY <1>1, <1>2, <2>2
  <2>4. CASE Len(f) < Bs!HeaderSize(k)
    <3>1. t = [out |-> o, buf |-> Tail(f)]
      BY <1>t, <1>5, <2>4 DEF Bs!SplitPass
    <3>2. Tail(f) \in Seq(Byte) /\ Len(Tail(f)) = Len(f) - 1
      BY <2>2, <2>3, HeadTailProperties
    <3>3. t.out = o /\ t.buf = Tail(f)
      BY <3>1
    <3>4. t \in St
      <4>1. PICK x : x = Tail(f)
        OBVIOUS
      <4>2. x \in Seq(Byte) /\ t = [out |-> o, buf |-> x]
        BY <3>1, <3>2, <4>1
      <4> HIDE DEF o
      <4> QED BY <1>1, <4>2 DEF St
    <3>5. Len(t.buf) < Len(s.buf) /\ Len(t.buf) < Bs!HeaderSize(k)
      BY <1>1, <1>2, <2>3, <2>4, <3>2, <3>3
    <3>6. ~Took(k, s)
      BY <1>2, <2>3, <2>4 DEF Took
    <3> QED BY <3>3, <3>4, <3>5, <3>6 DEF k
  <2>5. CASE ~(Len(f) < Bs!HeaderSize(k)) /\ Len(f) < Bs!FrameSize(k, f)
    <3>1. t = s
      BY <1>t, <1>5, <2>5 DEF Bs!SplitPass
    <3>2. ~Took(k, s)
      BY <1>3, <2>3, <2>5 DEF Took
    <3> QED BY <3>1, <3>2 DEF k
  <2>6. CASE ~(Len(f) < Bs!HeaderSize(k)) /\ ~(Len(f) < Bs!FrameSize(k, f))
    <3>1. t = [out |-> Append(o, SubSeq(f, 1, Bs!FrameSize(k, f))), buf |-> Bs!From(f, Bs!FrameSize(k, f) + 1)]
      BY <1>t, <1>5, <2>6 DEF Bs!SplitPass
    <3>2. Bs!GoodHeader(k, f) /\ Bs!GoodPayload(k, f)
      BY <1>2 DEF Bs!GoodHeader, Bs!GoodPayload
    <3>3. t = Front(k, o, f)
      BY <2>6, <3>1, <3>2 DEF Front
    <3>4. Bs!Pass(k, [out |-> o, buf |-> b]) = Front(k, o, f)
      BY <1>5, PassIs
    <3>5. t = Bs!Pass(k, s)
      BY <1>1, <3>3, <3>4
    <3>6. Took(k, s)
      BY <1>2, <1>3, <1>5, <2>3, <2>6 DEF Took
    <3>7. t \in St /\ (t = s \/ Len(t.buf) < Len(s.buf))
      BY <1>0, <3>5, PassType
    <3> QED BY <3>5, <3>6, <3>7 DEF k
  <2> QED BY <2>4, <2>5, <2>6
<1> QED BY <1>4, <1>5

Splits == [x \in St |-> Bs!SplitPass("dpdu", x)]
LEMMA SplitsType ==
  /\ Splits \in [St -> St]
  /\ \A x \in St : Splits[x] = Bs!SplitPass("dpdu", x)
  /\ \A x \in St : Splits[x] = x \/ LeftOf[Splits[x]] < LeftOf[x]
<1>1. \A x \in St : Bs!SplitPass("dpdu", x) \in St
  BY SplitPassIs
<1>2. Splits \in [St -> St] /\ \A x \in St : Splits[x] = Bs!SplitPass("dpdu", x)
  BY <1>1 DEF Splits
<1>3. \A x \in St : LeftOf[x] = Len(x.buf)
  BY DEF LeftOf
<1>4. ASSUME NEW x \in St PROVE Splits[x] = x \/ LeftOf[Splits[x]] < LeftOf[x]
  <2>1. PICK t : t = Bs!SplitPass("dpdu", x)
    OBVIOUS
  <2>2. t \in St /\ (t = x \/ Len(t.buf) < Len(x.buf)) /\ Splits[x] = t
    BY <1>2, <2>1, SplitPassIs
  <2>3. LeftOf[t] = Len(t.buf) /\ LeftOf[x] = Len(x.buf)
    BY <1>3, <2>2
  <2> QED BY <2>2, <2>3
<1> QED BY <1>2, <1>4

LEMMA SplitsFromNext ==
  ASSUME NEW x \in St, NEW M \in Nat, NEW h, NEW N \in Nat, NEW r,
         Len(x.buf) <= M /\ IsRun(St, Splits, x, M, h),
         Len(Splits[x].buf) <= N /\ IsRun(St, Splits, Splits[x], N, r)
  PROVE h[M] = r[N]
<1>1. LeftOf \in [St -> Nat] /\ \A y \in St : LeftOf[y] = Len(y.buf)
  <2>1. \A y \in St : Len(y.buf) \in Nat
    BY DEF St
  <2> QED BY <2>1 DEF LeftOf
<1>2. Shrinks(St, Splits, LeftOf)
  BY <1>1, SplitsType DEF Shrinks
<1>3. LeftOf[x] <= M /\ LeftOf[Splits[x]] <= N
  <2>1. Splits[x] \in St
    BY SplitsType
  <2> QED BY <1>1, <2>1
<1> QED BY <1>2, <1>3, RunFromNext

(* Both loops return the same, whatever was returned before.               *)
LEMMA SplitIsDrain ==
  ASSUME NEW s \in St, NEW L \in Nat, Len(s.buf) <= L, NEW g, IsRun(St, Splits, s, L, g)
  PROVE g[L].out = Drained("dpdu", s).out
<1> DEFINE k == "dpdu"
           Same(x) == \A M \in Nat : \A h : Len(x.buf) <= M /\ IsRun(St, Splits, x, M, h) =>
                                             h[M].out = Drained(k, x).out
           P == {n \in Nat : \A x \in St : Len(x.buf) = n => Same(x)}
<1>0. k \in Chunked
  BY DEF Chunked
<1>s. /\ Splits \in [St -> St] /\ LeftOf \in [St -> Nat]
      /\ \A x \in St : Splits[x] = Bs!SplitPass(k, x) /\ LeftOf[x] = Len(x.buf)
      /\ \A x \in St : Splits[x] = x \/ LeftOf[Splits[x]] < LeftOf[x]
  BY <1>0, SplitsType, PassesType
<1>1. ASSUME NEW n \in Nat, \A m \in Nat : m < n => m \in P PROVE n \in P
  <2>1. SUFFICES ASSUME NEW x \in St, Len(x.buf) = n, NEW M \in Nat, NEW h, Len(x.buf) <= M, IsRun(St, Splits, x, M, h)
        PROVE h[M].out = Drained(k, x).out
    OBVIOUS
  <2>2. PICK t : t = Bs!SplitPass(k, x)
    OBVIOUS
  <2>3. PICK u : u = Bs!Pass(k, x)
    OBVIOUS
  <2>4. /\ t \in St /\ (t = x \/ Len(t.buf) < Len(x.buf))
        /\ Took(k, x) => t = u
        /\ ~Took(k, x) => t = x \/ (t.out = x.out /\ Len(t.buf) < Bs!HeaderSize(k))
    BY <2>2, <2>3, SplitPassIs
  <2>5. u \in St /\ Drained(k, u) = Drained(k, x)
    BY <1>0, <2>3, DrainFacts, PassType
  <2>6. \A y \in St : ~Took(k, y) => Drained(k, y).out = y.out
    <3>1. SUFFICES ASSUME NEW y \in St, ~Took(k, y) PROVE Drained(k, y).out = y.out
      OBVIOUS
    <3>2. PICK v : v = Bs!Pass(k, y)
      OBVIOUS
    <3>3. v.out = y.out /\ Bs!Pass(k, v) = v
      BY <3>1, <3>2, NoneTaken
    <3>4. v \in St
      BY <1>0, <3>2, PassType
    <3>5. Drained(k, v) = v
      BY <1>0, <3>3, <3>4, DrainFacts
    <3>6. Drained(k, v) = Drained(k, y)
      BY <1>0, <3>2, DrainFacts
    <3> QED BY <3>3, <3>5, <3>6
  <2>7. CASE t = x
    <3>1. h[0] = x
      BY <2>1 DEF IsRun
    <3>2. Splits[h[0]] = h[0]
      BY <1>s, <2>2, <2>7, <3>1
    <3>3. 0 \in 0 .. M /\ M \in 0 .. M
      OBVIOUS
    <3>4. h[M] = h[0]
      BY <2>1, <3>2, <3>3, RunStays
    <3>5. CASE Took(k, x)
      <4>1. Bs!Pass(k, x) = x
        BY <2>3, <2>4, <2>7, <3>5
      <4>2. Drained(k, x) = x
        BY <1>0, <4>1, DrainFacts
      <4> QED BY <3>1, <3>4, <4>2
    <3>6. CASE ~Took(k, x)
      BY <2>6, <3>1, <3>4, <3>6
    <3> QED BY <3>5, <3>6
  <2>8. CASE Len(t.buf) < Len(x.buf)
    <3> DEFINE N == Len(t.buf)
    <3>1. N \in Nat
      BY <2>4 DEF St
    <3>2. N \in P
      BY <1>1, <2>1, <2>8, <3>1
    <3>3. Same(t)
      BY <2>4, <3>2
    <3>4. PICK r : IsRun(St, Splits, t, N, r)
      BY <1>s, <2>4, <3>1, RunExists
    <3>5. r[N].out = Drained(k, t).out
      BY <3>1, <3>3, <3>4
    <3> HIDE DEF N
    <3>6. h[M] = r[N]
      <4>1. Len(t.buf) <= N /\ t = Splits[x]
        BY <1>s, <2>2, <3>1 DEF N
      <4>2. Len(Splits[x].buf) <= N /\ IsRun(St, Splits, Splits[x], N, r)
        BY <3>4, <4>1
      <4>3. Len(x.buf) <= M /\ IsRun(St, Splits, x, M, h)
        BY <2>1
      <4> QED BY <3>1, <4>2, <4>3, SplitsFromNext
    <3>7. CASE Took(k, x)
      BY <2>4, <2>5, <3>5, <3>6, <3>7
    <3>8. CASE ~Took(k, x)
      <4>1. t.out = x.out /\ Len(t.buf) < Bs!HeaderSize(k)
        BY <2>1, <2>4, <2>8, <3>8
      <4>2. ~Took(k, t)
        <5>1. SUFFICES ASSUME Bs!Found(k, t.buf) # {}
              PROVE ~(Len(Bs!Sighted(k, t.buf)) >= Bs!HeaderSize(k))
          BY DEF Took
        <5>2. PICK m : m = Bs!Min(Bs!Found(k, t.buf))
          OBVIOUS
        <5>3. t.buf \in Seq(Byte)
          BY <2>4 DEF St
        <5>4. m \in 1 .. Len(t.buf) /\ Len(Bs!Sighted(k, t.buf)) = (Len(t.buf) - m) + 1
          BY <1>0, <5>1, <5>2, <5>3, SightedIs
        <5>5. Bs!HeaderSize(k) \in Nat
          <6>1. Len(Bs!Preamble(k)) \in Nat /\ Bs!HeaderSize(k) = Len(Bs!Preamble(k)) + 2
            BY <1>0, ReaderFacts
          <6> QED BY <6>1
        <5> HIDE DEF k
        <5> QED BY <3>1, <4>1, <5>4, <5>5 DEF N
      <4>3. Drained(k, t).out = t.out /\ Drained(k, x).out = x.out
        BY <2>4, <2>6, <3>8, <4>2
      <4> QED BY <3>5, <3>6, <4>1, <4>3
    <3> QED BY <3>7, <3>8
  <2> QED BY <2>4, <2>7, <2>8
<1>2. P = Nat
  <2> HIDE DEF P
  <2>1. P \in SUBSET Nat
    BY DEF P
  <2> QED BY <1>1, <2>1, AllBelow
<1>3. Len(s.buf) \in Nat
  BY DEF St
<1>4. Same(s)
  BY <1>2, <1>3
<1> QED BY <1>4

LEMMA SplitRun ==
  ASSUME NEW s \in St, s.out = <<>>
  PROVE \E g : IsRun(St, Splits, s, Len(s.buf), g) /\ Bs!SplitStream("dpdu", s.buf) = g[Len(s.buf)].out
<1> DEFINE L == Len(s.buf)
           After(g) == [n \in 0 .. L |-> IF n = 0 THEN [out |-> <<>>, buf |-> s.buf]
                                          ELSE Bs!SplitPass("dpdu", g[n - 1])]
           a == CHOOSE g : g = After(g)
<1>1. L \in Nat /\ s = [out |-> <<>>, buf |-> s.buf]
  BY DEF St
<1>2. Splits \in [St -> St] /\ \A x \in St : Splits[x] = Bs!SplitPass("dpdu", x)
  BY SplitsType
<1>3. Bs!SplitStream("dpdu", s.buf) = a[L].out
  BY DEF Bs!SplitStream
<1> HIDE DEF L
<1>4. PICK h : IsRun(St, Splits, s, L, h)
  BY <1>1, <1>2, RunExists
<1>5. h = After(h)
  <2>1. h \in [0 .. L -> St] /\ h[0] = s /\ \A n \in 1 .. L : h[n] = Splits[h[n - 1]]
    BY <1>4 DEF IsRun
  <2>2. ASSUME NEW n \in 0 .. L
        PROVE h[n] = IF n = 0 THEN [out |-> <<>>, buf |-> s.buf] ELSE Bs!SplitPass("dpdu", h[n - 1])
    <3>1. CASE n = 0
      BY <1>1, <2>1, <3>1
    <3>2. CASE n # 0
      <4>1. n \in 1 .. L /\ n - 1 \in 0 .. L
        BY <1>1, <3>2
      <4>2. h[n] = Splits[h[n - 1]] /\ h[n - 1] \in St
        BY <2>1, <4>1
      <4> QED BY <1>2, <3>2, <4>2
    <3> QED BY <3>1, <3>2
  <2> QED BY <2>1, <2>2
<1>6. a = After(a)
  <2>1. \E g : g = After(g)
    BY <1>5
  <2> HIDE DEF After
  <2> QED BY <2>1
<1> HIDE DEF a
<1>7. a \in [0 .. L -> {a[n] : n \in 0 .. L}] /\ a[0] = s
      /\ \A n \in 1 .. L : a[n] = Bs!SplitPass("dpdu", a[n - 1])
  <2>1. 0 \in 0 .. L /\ \A n \in 1 .. L : n \in 0 .. L /\ n # 0
    BY <1>1
  <2>2. \A n \in 0 .. L : a[n] = IF n = 0 THEN [out |-> <<>>, buf |-> s.buf]
                                  ELSE Bs!SplitPass("dpdu", a[n - 1])
    BY <1>6
  <2>3. a[0] = s /\ \A n \in 1 .. L : a[n] = Bs!SplitPass("dpdu", a[n - 1])
    BY <1>1, <2>1, <2>2
  <2>4. a \in [0 .. L -> {a[n] : n \in 0 .. L}]
    BY <1>6
  <2> QED BY <2>3, <2>4
<1>8. \A n \in 0 .. L : a[n] \in St
  <2> DEFINE Q == {n \in Nat : n <= L => a[n] \in St}
  <2>1. 0 \in Q
    BY <1>7
  <2>2. ASSUME NEW n \in Q PROVE n + 1 \in Q
    <3>1. SUFFICES ASSUME n + 1 <= L PROVE a[n + 1] \in St
      OBVIOUS
    <3>2. n + 1 \in 1 .. L /\ (n + 1) - 1 = n /\ a[n] \in St
      BY <1>1, <3>1
    <3>3. a[n + 1] = Bs!SplitPass("dpdu", a[n])
      <4>1. a[n + 1] = Bs!SplitPass("dpdu", a[(n + 1) - 1])
        BY <1>7, <3>2
      <4> QED BY <3>2, <4>1
    <3> QED BY <3>2, <3>3, SplitPassIs
  <2>3. Q = Nat
    <3> HIDE DEF Q
    <3>1. Q \in SUBSET Nat
      BY DEF Q
    <3> QED BY <2>1, <2>2, <3>1, AllNumbers
  <2> QED BY <1>1, <2>3
<1>9. IsRun(St, Splits, s, L, a)
  <2>1. a \in [0 .. L -> St]
    BY <1>7, <1>8
  <2>2. ASSUME NEW n \in 1 .. L PROVE a[n] = Splits[a[n - 1]]
    <3>1. n - 1 \in 0 .. L
      BY <1>1
    <3>2. a[n - 1] \in St
      BY <1>8, <3>1
    <3> QED BY <1>2, <1>7, <3>2
  <2> QED BY <1>7, <2>1, <2>2 DEF IsRun
<1> QED BY <1>3, <1>9 DEF L

(* split_stream and _drain find the same D_PDUs in a stream.               *)
LEMMA SplitStreamIs ==
  ASSUME NEW b \in Seq(Byte)
  PROVE Bs!SplitStream("dpdu", b) = Bs!Drain("dpdu", b, <<>>).out
<1>1. PICK s : s = [out |-> <<>>, buf |-> b]
  OBVIOUS
<1>2. s \in St /\ s.out = <<>> /\ s.buf = b /\ Len(b) \in Nat
  BY <1>1 DEF St
<1>3. PICK g : IsRun(St, Splits, s, Len(s.buf), g) /\ Bs!SplitStream("dpdu", s.buf) = g[Len(s.buf)].out
  BY <1>2, SplitRun
<1>4. Len(s.buf) \in Nat /\ Len(s.buf) <= Len(s.buf)
  BY <1>2
<1>5. g[Len(s.buf)].out = Drained("dpdu", s).out
  BY <1>2, <1>3, <1>4, SplitIsDrain
<1> QED BY <1>2, <1>3, <1>5 DEF Drained
-----------------------------------------------------------------------------
(***************************************************************************)
(* Streams are sequences of bytes.                                         *)
(***************************************************************************)
LEMMA FlattenSeqType ==
  ASSUME NEW S, NEW n \in Nat \ {0}, NEW ss \in [1 .. n -> Seq(S)]
  PROVE Bs!FlattenSeq(ss) \in Seq(S)
<1> DEFINE Flat(m, g) == g = [i \in 1 .. m |-> IF i = 1 THEN ss[i] ELSE g[i - 1] \o ss[i]]
           P == {m \in Nat : m < n => \E g : Flat(m + 1, g)}
           a == CHOOSE g : Flat(n, g)
<1>1. Len(ss) = n /\ 1 \in 1 .. n
  <2>1. ss \in Seq(Seq(S))
    OBVIOUS
  <2>2. DOMAIN ss = 1 .. Len(ss) /\ Len(ss) \in Nat
    BY <2>1, LenProperties
  <2>3. 1 .. Len(ss) = 1 .. n
    BY <2>2
  <2> QED BY <2>2, <2>3
<1>2. Bs!FlattenSeq(ss) = a[n]
  BY <1>1 DEF Bs!FlattenSeq
<1>3. 0 \in P
  <2>1. Flat(0 + 1, [i \in 1 .. 1 |-> ss[i]])
    OBVIOUS
  <2> HIDE DEF Flat
  <2> QED BY <2>1
<1>4. ASSUME NEW m \in P PROVE m + 1 \in P
  <2> HIDE DEF Flat
  <2>0. m \in Nat /\ (m < n => \E g : Flat(m + 1, g))
    OBVIOUS
  <2>1. SUFFICES ASSUME m + 1 < n PROVE \E g : Flat((m + 1) + 1, g)
    BY <2>0
  <2>2. PICK g : Flat(m + 1, g)
    BY <2>0, <2>1
  <2> DEFINE h == [i \in 1 .. (m + 1) + 1 |-> IF i = (m + 1) + 1 THEN g[m + 1] \o ss[i] ELSE g[i]]
  <2>3. \A i \in 1 .. m + 1 : g[i] = IF i = 1 THEN ss[i] ELSE g[i - 1] \o ss[i]
    BY <2>2 DEF Flat
  <2>4. ASSUME NEW i \in 1 .. (m + 1) + 1 PROVE h[i] = IF i = 1 THEN ss[i] ELSE h[i - 1] \o ss[i]
    <3>1. CASE i = (m + 1) + 1
      <4>1. i # 1 /\ i - 1 = m + 1 /\ i - 1 \in 1 .. (m + 1) + 1 /\ i - 1 # (m + 1) + 1
        BY <3>1
      <4>2. h[i] = g[m + 1] \o ss[i] /\ h[i - 1] = g[m + 1]
        BY <3>1, <4>1
      <4> QED BY <4>1, <4>2
    <3>2. CASE i # (m + 1) + 1
      <4>1. i \in 1 .. m + 1 /\ h[i] = g[i]
        BY <3>2
      <4>2. CASE i = 1
        BY <2>3, <4>1, <4>2
      <4>3. CASE i # 1
        <5>1. i - 1 \in 1 .. (m + 1) + 1 /\ i - 1 # (m + 1) + 1
          BY <4>1, <4>3
        <5>2. h[i - 1] = g[i - 1]
          BY <5>1
        <5> QED BY <2>3, <4>1, <4>3, <5>2
      <4> QED BY <4>2, <4>3
    <3> QED BY <3>1, <3>2
  <2>5. Flat((m + 1) + 1, h)
    BY <2>4 DEF Flat
  <2> QED BY <2>5
<1>5. P = Nat
  <2> HIDE DEF P
  <2>1. P \in SUBSET Nat
    BY DEF P
  <2> QED BY <1>3, <1>4, <2>1, AllNumbers
<1>6. Flat(n, a)
  <2>1. n - 1 \in P
    <3> HIDE DEF P
    <3> QED BY <1>5
  <2>2. n - 1 < n /\ (n - 1) + 1 = n
    OBVIOUS
  <2> HIDE DEF Flat
  <2> QED BY <2>1, <2>2
<1> HIDE DEF a
<1>7. \A i \in 1 .. n : a[i] = IF i = 1 THEN ss[i] ELSE a[i - 1] \o ss[i]
  BY <1>6
<1> DEFINE Q == {m \in Nat : m < n => a[m + 1] \in Seq(S)}
<1>8. 0 \in Q
  BY <1>1, <1>7
<1>9. ASSUME NEW m \in Q PROVE m + 1 \in Q
  <2>1. SUFFICES ASSUME m + 1 < n PROVE a[(m + 1) + 1] \in Seq(S)
    OBVIOUS
  <2>2. a[m + 1] \in Seq(S)
    BY <2>1
  <2>3. (m + 1) + 1 \in 1 .. n /\ (m + 1) + 1 # 1 /\ ((m + 1) + 1) - 1 = m + 1
    BY <2>1
  <2>4. a[(m + 1) + 1] = a[m + 1] \o ss[(m + 1) + 1]
    BY <1>7, <2>3
  <2>5. ss[(m + 1) + 1] \in Seq(S)
    BY <2>3
  <2> QED BY <2>2, <2>4, <2>5, ConcatProperties
<1>10. Q = Nat
  <2> HIDE DEF Q
  <2>1. Q \in SUBSET Nat
    BY DEF Q
  <2> QED BY <1>8, <1>9, <2>1, AllNumbers
<1>11. n - 1 \in Nat /\ n - 1 < n /\ (n - 1) + 1 = n
  OBVIOUS
<1>12. n - 1 \in Q
  <2> HIDE DEF Q
  <2> QED BY <1>10, <1>11
<1> QED BY <1>2, <1>11, <1>12

LEMMA ShortAreSeqs ==
  ASSUME NEW S, NEW a \in S, NEW b \in S, NEW c \in S, NEW d \in S
  PROVE <<a>> \in Seq(S) /\ <<a, b>> \in Seq(S) /\ <<a, b, c>> \in Seq(S) /\ <<a, b, c, d>> \in Seq(S)
OBVIOUS

LEMMA PiecesAreBytes ==
  ASSUME NEW k \in Chunked
  PROVE Bs!PiecesOf(k) \subseteq Seq(Byte)
<1> DEFINE Good == {<<"ok", "L0">>, <<"ok", "L1", "x">>, <<"ok", "L2", "P1", "P2">>,
                    <<"bad", "L1", "x">>, <<"ok", "L1", "bad">>}
           Noise == {<<"x">>, <<"P1">>, <<"P1", "P2">>}
<1>1. "P1" \in Byte /\ "P2" \in Byte /\ "ok" \in Byte /\ "bad" \in Byte /\ "L0" \in Byte
      /\ "L1" \in Byte /\ "L2" \in Byte /\ "x" \in Byte
  BY DEF Byte
<1>2. <<"ok", "L0">> \in Seq(Byte) /\ <<"ok", "L1", "x">> \in Seq(Byte)
  BY <1>1, ShortAreSeqs
<1>3. <<"ok", "L2", "P1", "P2">> \in Seq(Byte) /\ <<"bad", "L1", "x">> \in Seq(Byte)
  BY <1>1, ShortAreSeqs
<1>4. <<"ok", "L1", "bad">> \in Seq(Byte) /\ <<"x">> \in Seq(Byte)
  BY <1>1, ShortAreSeqs
<1>5. <<"P1">> \in Seq(Byte) /\ <<"P1", "P2">> \in Seq(Byte)
  BY <1>1, ShortAreSeqs
<1>6. Good \subseteq Seq(Byte) /\ Noise \subseteq Seq(Byte)
  BY <1>2, <1>3, <1>4, <1>5
<1>7. Bs!PiecesOf(k) = {Bs!Preamble(k) \o p : p \in Good} \cup Noise
  BY DEF Bs!PiecesOf
<1> HIDE DEF Good, Noise
<1>8. Bs!Preamble(k) \in Seq(Byte)
  BY ReaderFacts
<1>9. \A p \in Good : Bs!Preamble(k) \o p \in Seq(Byte)
  BY <1>6, <1>8, ConcatProperties
<1> QED BY <1>6, <1>7, <1>9
-----------------------------------------------------------------------------
(***************************************************************************)
(* The readers: what was returned and what the rest will give are the      *)
(* messages of the whole stream.                                           *)
(***************************************************************************)
BsInv ==
  /\ bsKind \in BsKinds \cup {"none"}
  /\ bsStream \in Seq(Byte) /\ bsRest \in Seq(Byte) /\ bsBuf \in Seq(Byte) /\ bsOut \in Seq(Seq(Byte))
  /\ bsKind = "none" => bsRest = <<>> /\ bsBuf = <<>> /\ bsOut = <<>>
  /\ bsKind # "none" => Bs!Drain(bsKind, bsBuf \o bsRest, bsOut).out = Bs!Drain(bsKind, bsStream, <<>>).out

LEMMA BsSend ==
  ASSUME BsInv, Bs!Send
  PROVE BsInv'
<1>1. bsKind = "none" /\ bsRest = <<>> /\ bsBuf = <<>> /\ bsOut = <<>>
  BY DEF BsInv, Bs!Send
<1>2. bsBuf' = <<>> /\ bsOut' = <<>> /\ bsRest' = bsStream'
  BY <1>1 DEF Bs!Send
<1>3. PICK k \in BsKinds : bsKind' = k /\ \E n \in 1 .. BsMaxPieces : \E pieces \in [1 .. n -> Bs!PiecesOf(k)] :
                             bsStream' = Bs!FlattenSeq(pieces)
  BY DEF Bs!Send
<1>4. k \in Chunked /\ k # "none"
  BY ReadersAssumption DEF Chunked
<1>5. bsStream' \in Seq(Byte)
  <2>0. PICK n \in 1 .. BsMaxPieces : \E pieces \in [1 .. n -> Bs!PiecesOf(k)] :
          bsStream' = Bs!FlattenSeq(pieces)
    BY <1>3
  <2>1. PICK pieces \in [1 .. n -> Bs!PiecesOf(k)] : bsStream' = Bs!FlattenSeq(pieces)
    BY <2>0
  <2>2. n \in Nat \ {0}
    OBVIOUS
  <2>3. pieces \in [1 .. n -> Seq(Byte)]
    BY <1>4, PiecesAreBytes
  <2> QED BY <2>1, <2>2, <2>3, FlattenSeqType
<1>6. PICK s : s = bsStream'
  OBVIOUS
<1>7. bsBuf' \o bsRest' = s
  <2>1. <<>> \o s = s
    BY <1>5, <1>6, ConcatEmptySeq
  <2> QED BY <1>2, <1>6, <2>1
<1>8. <<>> \in Seq(Byte) /\ <<>> \in Seq(Seq(Byte))
  BY EmptySeq
<1>9. Bs!Drain(bsKind', bsBuf' \o bsRest', bsOut') = Bs!Drain(bsKind', bsStream', <<>>)
  BY <1>2, <1>6, <1>7
<1> QED BY <1>2, <1>3, <1>4, <1>5, <1>8, <1>9 DEF BsInv

LEMMA BsRead ==
  ASSUME BsInv, Bs!Read
  PROVE BsInv'
<1>1. bsKind \in BsKinds /\ bsKind # "none" /\ bsKind' = bsKind /\ bsStream' = bsStream
  BY DEF BsInv, Bs!Read
<1>2. bsKind \in Chunked
  BY <1>1, ReadersAssumption DEF Chunked
<1>3. bsStream \in Seq(Byte) /\ bsRest \in Seq(Byte) /\ bsBuf \in Seq(Byte) /\ bsOut \in Seq(Seq(Byte))
      /\ Bs!Drain(bsKind, bsBuf \o bsRest, bsOut).out = Bs!Drain(bsKind, bsStream, <<>>).out
  BY <1>1 DEF BsInv
<1>4. PICK n \in DOMAIN bsRest :
        LET drained == Bs!Drain(bsKind, bsBuf \o SubSeq(bsRest, 1, n), bsOut)
        IN  bsBuf' = drained.buf /\ bsOut' = drained.out /\ bsRest' = Bs!From(bsRest, n + 1)
  BY DEF Bs!Read
<1>5. PICK x : x = SubSeq(bsRest, 1, n)
  OBVIOUS
<1>6. PICK y : y = Bs!From(bsRest, n + 1)
  OBVIOUS
<1>7. PICK d : d = Bs!Drain(bsKind, bsBuf \o x, bsOut)
  OBVIOUS
<1>8. bsBuf' = d.buf /\ bsOut' = d.out /\ bsRest' = y
  BY <1>4, <1>5, <1>6, <1>7
<1>9. Len(bsRest) \in Nat /\ n \in 1 .. Len(bsRest)
  BY <1>3, LenProperties
<1>10. x \in Seq(Byte) /\ y \in Seq(Byte)
  <2>1. \A i \in 1 .. n : bsRest[i] \in Byte
    BY <1>3, <1>9
  <2>2. 1 \in Int /\ n \in Int
    BY <1>9
  <2>3. x \in Seq(Byte)
    BY <1>5, <2>1, <2>2, SubSeqProperties
  <2>4. n + 1 \in 1 .. Len(bsRest) + 1
    BY <1>9
  <2> QED BY <1>3, <1>6, <2>3, <2>4, FromIs
<1>11. x \o y = bsRest
  <2>1. 1 \in 1 .. Len(bsRest) + 1 /\ n \in 1 - 1 .. Len(bsRest) /\ Len(bsRest) \in n .. Len(bsRest)
    BY <1>9
  <2>2. SubSeq(bsRest, 1, n) \o SubSeq(bsRest, n + 1, Len(bsRest)) = SubSeq(bsRest, 1, Len(bsRest))
    BY <1>3, <2>1, ConcatAdjacentSubSeq
  <2>3. SubSeq(bsRest, 1, Len(bsRest)) = bsRest
    BY <1>3, SubSeqFull
  <2> QED BY <1>5, <1>6, <2>2, <2>3 DEF Bs!From
<1>12. d \in St /\ Bs!Drain(bsKind, d.buf \o y, d.out) = Bs!Drain(bsKind, bsBuf \o (x \o y), bsOut)
  BY <1>2, <1>3, <1>7, <1>10, ReadBefore
<1>13. d.buf \in Seq(Byte) /\ d.out \in Seq(Seq(Byte))
  BY <1>12 DEF St
<1>14. Bs!Drain(bsKind, d.buf \o y, d.out).out = Bs!Drain(bsKind, bsStream, <<>>).out
  BY <1>3, <1>11, <1>12
<1> QED BY <1>1, <1>3, <1>8, <1>10, <1>13, <1>14 DEF BsInv

LEMMA BsNextInv == BsInv /\ [BsNext \/ NeNext \/ ServicesNext]_streamsVars => BsInv'
<1>1. ASSUME BsInv, Bs!Next PROVE BsInv'
  BY <1>1, BsSend, BsRead DEF Bs!Next
<1>2. ASSUME BsInv, UNCHANGED bsVars PROVE BsInv'
  BY <1>2 DEF BsInv, bsVars
<1>3. BsNext => Bs!Next
  BY DEF BsNext
<1>4. NeNext => UNCHANGED bsVars
  BY DEF NeNext
<1>5. ServicesNext => UNCHANGED bsVars
  BY DEF ServicesNext, bsVars
<1>6. UNCHANGED streamsVars => UNCHANGED bsVars
  BY DEF streamsVars
<1> QED BY <1>1, <1>2, <1>3, <1>4, <1>5, <1>6

LEMMA BsInitInv == StreamsInit => BsInv
<1>1. <<>> \in Seq(Byte) /\ <<>> \in Seq(Seq(Byte))
  BY EmptySeq
<1> QED BY <1>1 DEF StreamsInit, Bs!Init, BsInv

LEMMA BsInvImplies == BsInv => Bs!ChunksDoNotMatter
<1> SUFFICES ASSUME BsInv, bsKind # "none"
    PROVE Bs!Drain(bsKind, bsBuf \o bsRest, bsOut).out = Bs!Whole
  BY DEF Bs!ChunksDoNotMatter
<1>1. bsStream \in Seq(Byte)
      /\ Bs!Drain(bsKind, bsBuf \o bsRest, bsOut).out = Bs!Drain(bsKind, bsStream, <<>>).out
  BY DEF BsInv
<1>2. CASE bsKind = "dpdu"
  <2>1. Bs!SplitStream("dpdu", bsStream) = Bs!Drain("dpdu", bsStream, <<>>).out
    BY <1>1, SplitStreamIs
  <2> QED BY <1>1, <1>2, <2>1 DEF Bs!Whole
<1>3. CASE bsKind # "dpdu"
  BY <1>1, <1>3 DEF Bs!Whole
<1> QED BY <1>2, <1>3
-----------------------------------------------------------------------------
(***************************************************************************)
(* Ranges of bytes: apart from one another and in order.                   *)
(***************************************************************************)
ByteRange == {r \in Nat \X Nat : r[1] < r[2]}
Covers(r, x) == r[1] <= x /\ x < r[2]
In(R, x) == \E i \in 1 .. Len(R) : Covers(R[i], x)
Apart(R) == \A i, j \in 1 .. Len(R) : i < j => R[i][2] < R[j][1]
EndBelow(R, n) == \A i \in 1 .. Len(R) : R[i][2] < n

LEMMA RangeIs ==
  /\ \A r \in ByteRange : r[1] \in Nat /\ r[2] \in Nat /\ r[1] < r[2]
  /\ \A a, b \in Nat : a < b => <<a, b>> \in ByteRange
BY DEF ByteRange

LEMMA AppendRange ==
  ASSUME NEW R \in Seq(ByteRange), NEW r \in ByteRange
  PROVE /\ Append(R, r) \in Seq(ByteRange)
        /\ Apart(R) /\ EndBelow(R, r[1]) => Apart(Append(R, r))
        /\ \A x \in Nat : In(Append(R, r), x) <=> In(R, x) \/ Covers(r, x)
        /\ \A n \in Nat : EndBelow(Append(R, r), n) <=> EndBelow(R, n) /\ r[2] < n
<1> DEFINE A == Append(R, r)
           L == Len(R)
<1>1. A \in Seq(ByteRange) /\ Len(A) = L + 1 /\ L \in Nat
  BY AppendProperties, LenProperties
<1>2. (\A i \in 1 .. L : A[i] = R[i]) /\ A[L + 1] = r
  BY AppendProperties
<1>3. 1 .. Len(A) = (1 .. L) \cup {L + 1}
  BY <1>1
<1> HIDE DEF A, L
<1>4. ASSUME Apart(R), EndBelow(R, r[1]) PROVE Apart(A)
  <2>1. SUFFICES ASSUME NEW i \in 1 .. Len(A), NEW j \in 1 .. Len(A), i < j PROVE A[i][2] < A[j][1]
    BY DEF Apart
  <2>2. i \in 1 .. L
    BY <1>1, <2>1
  <2>3. CASE j = L + 1
    BY <1>2, <1>4, <2>2, <2>3 DEF EndBelow, L
  <2>4. CASE j \in 1 .. L
    BY <1>2, <1>4, <2>1, <2>2, <2>4 DEF Apart, L
  <2> QED BY <1>3, <2>3, <2>4
<1>5. ASSUME NEW x \in Nat PROVE In(A, x) <=> In(R, x) \/ Covers(r, x)
  BY <1>2, <1>3 DEF In, L
<1>6. ASSUME NEW n \in Nat PROVE EndBelow(A, n) <=> EndBelow(R, n) /\ r[2] < n
  BY <1>2, <1>3 DEF EndBelow, L
<1> QED BY <1>1, <1>4, <1>5, <1>6 DEF A

(* After n of the ranges: what is kept is apart and in order, below what is*)
(* still to come, and covers what the ranges met and the new one cover.    *)
Merging == [start : Nat, end : Nat, merged : Seq(ByteRange), inserted : BOOLEAN]
Kept(t, x) == In(t.merged, x) \/ (~t.inserted /\ t.start <= x /\ x < t.end)
Met(R, new, n, x) == Covers(new, x) \/ \E i \in 1 .. n : Covers(R[i], x)
MergeInv(R, new, n, t) ==
  /\ t \in Merging /\ t.start < t.end /\ Apart(t.merged)
  /\ ~t.inserted => EndBelow(t.merged, t.start)
  /\ \A x \in Nat : Kept(t, x) <=> Met(R, new, n, x)
  /\ \A j \in n + 1 .. Len(R) : EndBelow(t.merged, R[j][1]) /\ (t.inserted => t.end < R[j][1])

LEMMA MergeStepInv ==
  ASSUME NEW R \in Seq(ByteRange), Apart(R), NEW new \in ByteRange, NEW n \in Nat, n + 1 \in 1 .. Len(R),
         NEW t, MergeInv(R, new, n, t)
  PROVE MergeInv(R, new, n + 1, Ne!MergeStep(t, R[n + 1]))
<1> DEFINE r == R[n + 1]
           u == Ne!MergeStep(t, r)
<1>1. r \in ByteRange /\ r[1] \in Nat /\ r[2] \in Nat /\ r[1] < r[2]
  BY RangeIs
<1>2. t \in Merging /\ t.start < t.end /\ Apart(t.merged)
  BY DEF MergeInv
<1>3. t.start \in Nat /\ t.end \in Nat /\ t.merged \in Seq(ByteRange) /\ t.inserted \in BOOLEAN
  BY <1>2 DEF Merging
<1>4. ~t.inserted => EndBelow(t.merged, t.start)
  BY DEF MergeInv
<1>5. n + 1 \in n + 1 .. Len(R)
  BY LenProperties
<1>6. EndBelow(t.merged, r[1]) /\ (t.inserted => t.end < r[1])
  BY <1>5 DEF MergeInv
<1>7. ASSUME NEW j \in (n + 1) + 1 .. Len(R)
      PROVE R[j] \in ByteRange /\ R[j][1] \in Nat /\ r[2] < R[j][1] /\ EndBelow(t.merged, R[j][1])
            /\ (t.inserted => t.end < R[j][1])
  <2>1. j \in 1 .. Len(R) /\ n + 1 < j /\ j \in n + 1 .. Len(R)
    BY LenProperties
  <2>2. R[j] \in ByteRange
    BY <2>1
  <2> QED BY <2>1, <2>2, RangeIs DEF Apart, MergeInv
<1>8. \A x \in Nat : Kept(t, x) <=> Met(R, new, n, x)
  BY DEF MergeInv
<1>9. \A x \in Nat : Met(R, new, n + 1, x) <=> Met(R, new, n, x) \/ Covers(r, x)
  <2>1. 1 .. n + 1 = (1 .. n) \cup {n + 1}
    OBVIOUS
  <2> QED BY <2>1 DEF Met
<1> HIDE DEF r
<1>10. CASE r[2] < t.start
  <2>1. ~t.inserted
    BY <1>1, <1>2, <1>3, <1>6, <1>10
  <2>2. u = [t EXCEPT !.merged = Append(t.merged, r)]
    BY <1>10 DEF Ne!MergeStep
  <2>3. Append(t.merged, r) \in Seq(ByteRange)
    BY <1>1, <1>3, AppendRange
  <2>4. u \in Merging /\ u.start = t.start /\ u.end = t.end /\ u.merged = Append(t.merged, r) /\ ~u.inserted
    BY <1>2, <2>1, <2>2, <2>3 DEF Merging
  <2>5. Apart(u.merged) /\ EndBelow(u.merged, u.start)
    BY <1>1, <1>2, <1>3, <1>4, <1>6, <1>10, <2>1, <2>4, AppendRange
  <2>6. \A x \in Nat : Kept(u, x) <=> Kept(t, x) \/ Covers(r, x)
    BY <1>1, <1>3, <2>1, <2>4, AppendRange DEF Kept
  <2>7. \A j \in (n + 1) + 1 .. Len(R) : EndBelow(u.merged, R[j][1])
    BY <1>1, <1>3, <1>7, <2>4, AppendRange
  <2> HIDE DEF u
  <2>8. \A x \in Nat : Kept(u, x) <=> Met(R, new, n + 1, x)
    BY <1>8, <1>9, <2>6
  <2> QED BY <1>2, <2>4, <2>5, <2>7, <2>8 DEF MergeInv, u, r
<1>11. CASE ~(r[2] < t.start) /\ t.end < r[1]
  <2> DEFINE m == IF t.inserted THEN t.merged ELSE Append(t.merged, <<t.start, t.end>>)
  <2>1. u = [t EXCEPT !.merged = Append(m, r), !.inserted = TRUE]
    BY <1>11 DEF Ne!MergeStep
  <2>2. <<t.start, t.end>> \in ByteRange /\ <<t.start, t.end>>[1] = t.start /\ <<t.start, t.end>>[2] = t.end
    BY <1>2, <1>3, RangeIs
  <2>3. m \in Seq(ByteRange) /\ Apart(m) /\ EndBelow(m, r[1])
    <3>1. CASE t.inserted
      BY <1>2, <1>3, <1>6, <3>1
    <3>2. CASE ~t.inserted
      BY <1>1, <1>2, <1>3, <1>4, <1>6, <1>11, <2>2, <3>2, AppendRange
    <3> QED BY <3>1, <3>2
  <2>4. \A x \in Nat : In(m, x) <=> Kept(t, x)
    <3>1. CASE t.inserted
      BY <3>1 DEF Kept
    <3>2. CASE ~t.inserted
      BY <1>3, <2>2, <3>2, AppendRange DEF Kept, Covers
    <3> QED BY <3>1, <3>2
  <2>5. ASSUME NEW j \in (n + 1) + 1 .. Len(R) PROVE EndBelow(m, R[j][1]) /\ t.end < R[j][1]
    <3>1. t.end < R[j][1]
      BY <1>1, <1>3, <1>7, <1>11
    <3>2. CASE t.inserted
      BY <1>7, <3>1, <3>2
    <3>3. CASE ~t.inserted
      BY <1>3, <1>7, <2>2, <3>1, <3>3, AppendRange
    <3> QED BY <3>1, <3>2, <3>3
  <2> HIDE DEF m
  <2>6. Append(m, r) \in Seq(ByteRange) /\ Apart(Append(m, r))
    BY <1>1, <2>3, AppendRange
  <2>7. u \in Merging /\ u.start = t.start /\ u.end = t.end /\ u.merged = Append(m, r) /\ u.inserted
    BY <1>2, <2>1, <2>6 DEF Merging
  <2>8. \A x \in Nat : Kept(u, x) <=> Kept(t, x) \/ Covers(r, x)
    BY <1>1, <2>3, <2>4, <2>7, AppendRange DEF Kept
  <2>9. \A j \in (n + 1) + 1 .. Len(R) : EndBelow(u.merged, R[j][1]) /\ u.end < R[j][1]
    BY <1>1, <1>7, <2>3, <2>5, <2>7, AppendRange
  <2> HIDE DEF u
  <2>10. \A x \in Nat : Kept(u, x) <=> Met(R, new, n + 1, x)
    BY <1>8, <1>9, <2>8
  <2> QED BY <1>2, <2>6, <2>7, <2>9, <2>10 DEF MergeInv, u, r
<1>12. CASE ~(r[2] < t.start) /\ ~(t.end < r[1])
  <2>1. ~t.inserted
    BY <1>6, <1>12
  <2>2. u = [t EXCEPT !.start = Ne!Lesser(t.start, r[1]), !.end = Ne!Greater(t.end, r[2])]
    BY <1>12 DEF Ne!MergeStep
  <2> DEFINE a == Ne!Lesser(t.start, r[1])
             b == Ne!Greater(t.end, r[2])
  <2>3. a \in Nat /\ b \in Nat /\ a < b /\ (a = t.start \/ a = r[1])
    BY <1>1, <1>2, <1>3 DEF Ne!Lesser, Ne!Greater
  <2>4. \A x \in Nat : a <= x /\ x < b <=> (t.start <= x /\ x < t.end) \/ Covers(r, x)
    BY <1>1, <1>2, <1>3, <1>12 DEF Ne!Lesser, Ne!Greater, Covers
  <2> HIDE DEF a, b
  <2>5. u \in Merging /\ u.start = a /\ u.end = b /\ u.merged = t.merged /\ ~u.inserted
    BY <1>2, <2>1, <2>2, <2>3 DEF Merging, a, b
  <2>6. EndBelow(u.merged, u.start)
    BY <1>4, <1>6, <2>1, <2>3, <2>5
  <2>7. \A x \in Nat : Kept(u, x) <=> Kept(t, x) \/ Covers(r, x)
    BY <2>1, <2>4, <2>5 DEF Kept
  <2>8. \A j \in (n + 1) + 1 .. Len(R) : EndBelow(u.merged, R[j][1])
    BY <1>7, <2>5
  <2> HIDE DEF u
  <2>9. \A x \in Nat : Kept(u, x) <=> Met(R, new, n + 1, x)
    BY <1>8, <1>9, <2>7
  <2> QED BY <1>2, <2>3, <2>5, <2>6, <2>8, <2>9 DEF MergeInv, u, r
<1> QED BY <1>10, <1>11, <1>12

LEMMA SameLength ==
  ASSUME NEW m \in Nat, NEW n \in Nat, 1 .. m = 1 .. n
  PROVE m = n
<1>1. ~(m < n)
  <2>1. SUFFICES ASSUME m < n PROVE FALSE
    OBVIOUS
  <2>2. n \in 1 .. n /\ n \notin 1 .. m
    BY <2>1
  <2> QED BY <2>2
<1>2. ~(n < m)
  <2>1. SUFFICES ASSUME n < m PROVE FALSE
    OBVIOUS
  <2>2. m \in 1 .. m /\ m \notin 1 .. n
    BY <2>1
  <2> QED BY <2>2
<1> QED BY <1>1, <1>2

LEMMA FunctionIsSeq ==
  ASSUME NEW S, NEW n \in Nat, NEW f \in [1 .. n -> S]
  PROVE f \in Seq(S) /\ Len(f) = n
<1>1. f \in Seq(S)
  OBVIOUS
<1>2. DOMAIN f = 1 .. Len(f) /\ Len(f) \in Nat
  BY <1>1, LenProperties
<1>3. 1 .. Len(f) = 1 .. n
  BY <1>2
<1> QED BY <1>1, <1>2, <1>3, SameLength

(* Sorting ranges that are apart: any order the sort can give keeps them.  *)
LEMMA SortedApart ==
  ASSUME NEW A \in Seq(ByteRange), Apart(A)
  PROVE /\ Ne!Sorted(A) \in Seq(ByteRange) /\ Apart(Ne!Sorted(A))
        /\ \A x : In(Ne!Sorted(A), x) <=> In(A, x)
<1> DEFINE D == DOMAIN A
           Good(p) == \A i, j \in D : i < j => Ne!NotAfter(A[p[i]], A[p[j]])
           o == CHOOSE p \in Ne!Bijection(D, D) : Good(p)
           S == Ne!Sorted(A)
<1>1. D = 1 .. Len(A) /\ Len(A) \in Nat
  BY LenProperties
<1>2. \A i \in D : A[i] \in ByteRange /\ A[i][1] \in Nat /\ A[i][2] \in Nat /\ A[i][1] < A[i][2]
  BY <1>1, RangeIs
<1>3. S = [i \in D |-> A[o[i]]]
  BY DEF Ne!Sorted
<1>4. \E p \in Ne!Bijection(D, D) : Good(p)
  <2> DEFINE p == [i \in D |-> i]
  <2>1. p \in Ne!Bijection(D, D)
    BY DEF Ne!Bijection, Ne!Injection, Ne!Surjection, Ne!IsInjective
  <2>2. ASSUME NEW i \in D, NEW j \in D, i < j PROVE Ne!NotAfter(A[p[i]], A[p[j]])
    <3>1. A[i][2] < A[j][1]
      BY <1>1, <2>2 DEF Apart
    <3>2. A[i][1] < A[j][1]
      BY <1>2, <3>1
    <3> QED BY <3>2 DEF Ne!NotAfter
  <2>3. Good(p)
    BY <2>2
  <2> QED BY <2>1, <2>3
<1>5. o \in Ne!Bijection(D, D) /\ Good(o)
  <2> HIDE DEF Good
  <2> QED BY <1>4
<1> HIDE DEF o, S
<1>6. o \in [D -> D] /\ (\A i, j \in D : o[i] = o[j] => i = j) /\ (\A d \in D : \E i \in D : o[i] = d)
  BY <1>5 DEF Ne!Bijection, Ne!Injection, Ne!Surjection, Ne!IsInjective
<1>7. S \in [1 .. Len(A) -> ByteRange]
  BY <1>1, <1>2, <1>3, <1>6
<1>8. S \in Seq(ByteRange) /\ Len(S) = Len(A)
  BY <1>1, <1>7, FunctionIsSeq
<1>9. ASSUME NEW i \in D, NEW j \in D, i < j PROVE S[i][2] < S[j][1]
  <2>1. o[i] \in D /\ o[j] \in D /\ o[i] # o[j] /\ o[i] \in Nat /\ o[j] \in Nat
    <3>1. i # j
      BY <1>1, <1>9
    <3>2. o[i] \in D /\ o[j] \in D /\ o[i] # o[j]
      BY <1>6, <3>1
    <3> QED BY <1>1, <3>2
  <2>2. Ne!NotAfter(A[o[i]], A[o[j]])
    BY <1>5, <1>9
  <2>3. A[o[i]][1] <= A[o[j]][1]
    BY <1>2, <2>1, <2>2 DEF Ne!NotAfter
  <2>4. ~(o[j] < o[i])
    <3>1. SUFFICES ASSUME o[j] < o[i] PROVE FALSE
      OBVIOUS
    <3>2. A[o[j]][2] < A[o[i]][1]
      BY <1>1, <2>1, <3>1 DEF Apart
    <3> QED BY <1>2, <2>1, <2>3, <3>2
  <2>5. o[i] < o[j]
    BY <2>1, <2>4
  <2>6. A[o[i]][2] < A[o[j]][1]
    BY <1>1, <2>1, <2>5 DEF Apart
  <2> QED BY <1>3, <2>6
<1>10. Apart(S)
  BY <1>1, <1>8, <1>9 DEF Apart
<1>11. ASSUME NEW x PROVE In(S, x) <=> In(A, x)
  <2>1. ASSUME In(S, x) PROVE In(A, x)
    <3>1. PICK i \in D : Covers(S[i], x)
      BY <1>1, <1>8, <2>1 DEF In
    <3> QED BY <1>1, <1>3, <1>6, <3>1 DEF In
  <2>2. ASSUME In(A, x) PROVE In(S, x)
    <3>1. PICK d \in D : Covers(A[d], x)
      BY <1>1, <2>2 DEF In
    <3>2. PICK i \in D : o[i] = d
      BY <1>6
    <3>3. S[i] = A[d]
      BY <1>3, <3>2
    <3> QED BY <1>1, <1>8, <3>1, <3>3 DEF In
  <2> QED BY <2>1, <2>2
<1> QED BY <1>8, <1>10, <1>11 DEF S

(* _merge_ranges: apart, in order, and what the old and the new cover.     *)
LEMMA MergeFacts ==
  ASSUME NEW R \in Seq(ByteRange), Apart(R), NEW new \in ByteRange
  PROVE /\ Ne!MergeRanges(R, new) \in Seq(ByteRange) /\ Apart(Ne!MergeRanges(R, new))
        /\ \A x \in Nat : In(Ne!MergeRanges(R, new), x) <=> In(R, x) \/ Covers(new, x)
<1> DEFINE first == [start |-> new[1], end |-> new[2], merged |-> <<>>, inserted |-> FALSE]
           Up(m, g) == g = [n \in 0 .. m |-> IF n = 0 THEN first ELSE Ne!MergeStep(g[n - 1], R[n])]
           L == Len(R)
           P == {m \in Nat : \E g : Up(m, g)}
           u == CHOOSE g : Up(L, g)
           all == u[L]
           last == IF all.inserted THEN all.merged ELSE Append(all.merged, <<all.start, all.end>>)
<1>1. Ne!MergeRanges(R, new) = Ne!Sorted(last)
  BY DEF Ne!MergeRanges
<1> HIDE DEF last
<1>2. 0 \in P
  <2>1. Up(0, [n \in 0 .. 0 |-> first])
    <3> HIDE DEF first
    <3> QED OBVIOUS
  <2> HIDE DEF Up
  <2> QED BY <2>1
<1>3. ASSUME NEW m \in P PROVE m + 1 \in P
  <2> HIDE DEF Up, first
  <2>1. PICK g : m \in Nat /\ Up(m, g)
    OBVIOUS
  <2> DEFINE h == [n \in 0 .. m + 1 |-> IF n = m + 1 THEN Ne!MergeStep(g[m], R[n]) ELSE g[n]]
  <2>2. \A n \in 0 .. m : g[n] = IF n = 0 THEN first ELSE Ne!MergeStep(g[n - 1], R[n])
    BY <2>1 DEF Up
  <2>3. ASSUME NEW n \in 0 .. m + 1 PROVE h[n] = IF n = 0 THEN first ELSE Ne!MergeStep(h[n - 1], R[n])
    <3>1. CASE n = m + 1
      <4>1. n # 0 /\ n - 1 = m /\ n - 1 \in 0 .. m + 1 /\ n - 1 # m + 1
        BY <2>1, <3>1
      <4>2. h[n] = Ne!MergeStep(g[m], R[n]) /\ h[n - 1] = g[m]
        BY <3>1, <4>1
      <4> QED BY <4>1, <4>2
    <3>2. CASE n # m + 1
      <4>1. n \in 0 .. m /\ h[n] = g[n]
        BY <2>1, <3>2
      <4>2. CASE n = 0
        BY <2>2, <4>1, <4>2
      <4>3. CASE n # 0
        <5>1. n - 1 \in 0 .. m + 1 /\ n - 1 # m + 1
          BY <2>1, <4>1, <4>3
        <5>2. h[n - 1] = g[n - 1]
          BY <5>1
        <5> QED BY <2>2, <4>1, <4>3, <5>2
      <4> QED BY <4>2, <4>3
    <3> QED BY <3>1, <3>2
  <2>4. Up(m + 1, h)
    BY <2>3 DEF Up
  <2> QED BY <2>1, <2>4
<1>4. P = Nat
  <2> HIDE DEF P
  <2>1. P \in SUBSET Nat
    BY DEF P
  <2> QED BY <1>2, <1>3, <2>1, AllNumbers
<1>5. L \in Nat
  BY LenProperties
<1>6. Up(L, u)
  <2> HIDE DEF Up, L
  <2> QED BY <1>4, <1>5
<1> HIDE DEF u
<1>7. \A n \in 0 .. L : u[n] = IF n = 0 THEN first ELSE Ne!MergeStep(u[n - 1], R[n])
  BY <1>6
<1> HIDE DEF L
<1> DEFINE Q == {n \in Nat : n <= L => MergeInv(R, new, n, u[n])}
<1>8. 0 \in Q
  <2>1. u[0] = first
    <3> HIDE DEF first
    <3>1. 0 \in 0 .. L
      BY <1>5
    <3> QED BY <1>7, <3>1
  <2>2. first.start = new[1] /\ first.end = new[2] /\ first.merged = <<>> /\ ~first.inserted
    OBVIOUS
  <2>3. new[1] \in Nat /\ new[2] \in Nat /\ new[1] < new[2]
    BY RangeIs
  <2>4. first \in Merging
    BY <2>3, EmptySeq DEF Merging
  <2> HIDE DEF first
  <2>5. Len(<<>>) = 0 /\ 1 .. 0 = {}
    OBVIOUS
  <2>6. Apart(first.merged) /\ \A n : EndBelow(first.merged, n)
    BY <2>2, <2>5 DEF Apart, EndBelow
  <2>7. \A x \in Nat : Kept(first, x) <=> Met(R, new, 0, x)
    BY <2>2, <2>5 DEF Kept, Met, In, Covers
  <2>8. MergeInv(R, new, 0, first)
    BY <2>2, <2>3, <2>4, <2>6, <2>7 DEF MergeInv
  <2> QED BY <2>1, <2>8
<1>9. ASSUME NEW n \in Q PROVE n + 1 \in Q
  <2>1. SUFFICES ASSUME n + 1 <= L PROVE MergeInv(R, new, n + 1, u[n + 1])
    OBVIOUS
  <2>2. n \in Nat /\ n + 1 \in 0 .. L /\ n + 1 # 0 /\ (n + 1) - 1 = n /\ n + 1 \in 1 .. Len(R)
    BY <1>5, <2>1 DEF L
  <2>3. MergeInv(R, new, n, u[n])
    BY <1>5, <2>1
  <2>4. u[n + 1] = Ne!MergeStep(u[n], R[n + 1])
    BY <1>7, <2>2
  <2> QED BY <2>2, <2>3, <2>4, MergeStepInv
<1>10. Q = Nat
  <2> HIDE DEF Q
  <2>1. Q \in SUBSET Nat
    BY DEF Q
  <2> QED BY <1>8, <1>9, <2>1, AllNumbers
<1>11. MergeInv(R, new, L, all)
  <2> HIDE DEF MergeInv
  <2> QED BY <1>5, <1>10
<1> HIDE DEF all
<1>12. all \in Merging /\ all.start < all.end /\ Apart(all.merged)
       /\ (~all.inserted => EndBelow(all.merged, all.start))
       /\ \A x \in Nat : Kept(all, x) <=> Met(R, new, L, x)
  BY <1>11 DEF MergeInv
<1>13. all.start \in Nat /\ all.end \in Nat /\ all.merged \in Seq(ByteRange) /\ all.inserted \in BOOLEAN
  BY <1>12 DEF Merging
<1>14. <<all.start, all.end>> \in ByteRange /\ <<all.start, all.end>>[1] = all.start /\ <<all.start, all.end>>[2] = all.end
  BY <1>12, <1>13, RangeIs
<1>15. last \in Seq(ByteRange) /\ Apart(last) /\ \A x \in Nat : In(last, x) <=> Kept(all, x)
  <2>1. CASE all.inserted
    BY <1>12, <1>13, <2>1 DEF Kept, last
  <2>2. CASE ~all.inserted
    BY <1>12, <1>13, <1>14, <2>2, AppendRange DEF Kept, last, Covers
  <2> QED BY <2>1, <2>2
<1>16. \A x \in Nat : Met(R, new, L, x) <=> In(R, x) \/ Covers(new, x)
  BY DEF Met, In, L
<1> QED BY <1>1, <1>12, <1>15, <1>16, SortedApart

-----------------------------------------------------------------------------
(***************************************************************************)
(* The segments of a C_PDU, and what an entry has of it.                   *)
(***************************************************************************)
NeIds == 0 .. NeIdMod - 1
Bytes == [no : Nat, at : Nat]
Cpdus == [no : Nat, id : NeIds, size : Nat]
Segments == [id : NeIds, first : Nat, size : Nat, payload : Seq(Bytes)]
SegmentOf(s, m) ==
  /\ s \in Segments /\ s.id = m.id /\ s.size = m.size
  /\ Len(s.payload) > 0 /\ s.first + Len(s.payload) <= m.size
  /\ \A j \in 1 .. Len(s.payload) : s.payload[j] = Ne!ByteOf(m, s.first + j - 1)
Within(R, n) == \A i \in 1 .. Len(R) : R[i][2] <= n
HasOf(e, m) ==
  /\ e \in [size : {m.size}, buffer : [0 .. m.size - 1 -> Bytes \cup {<<>>}], ranges : Seq(ByteRange)]
  /\ Apart(e.ranges) /\ Within(e.ranges, m.size)
  /\ \A i \in 0 .. m.size - 1 : e.buffer[i] = IF In(e.ranges, i) THEN Ne!ByteOf(m, i) ELSE <<>>
PartOf(e, m) == HasOf(e, m) /\ \E i \in 0 .. m.size - 1 : ~In(e.ranges, i)

LEMMA ByteIs ==
  ASSUME NEW m \in Cpdus, NEW i \in Nat
  PROVE Ne!ByteOf(m, i) \in Bytes /\ Ne!ByteOf(m, i) # <<>>
BY DEF Ne!ByteOf, Bytes, Cpdus

LEMMA CpduIs ==
  ASSUME NEW m \in Cpdus
  PROVE Ne!CpduOf(m) \in Seq(Bytes) /\ Len(Ne!CpduOf(m)) = m.size
        /\ \A i \in 1 .. m.size : Ne!CpduOf(m)[i] = Ne!ByteOf(m, i - 1)
<1>1. m.size \in Nat
  BY DEF Cpdus
<1>2. \A i \in 1 .. m.size : Ne!ByteOf(m, i - 1) \in Bytes
  BY <1>1, ByteIs
<1>3. Ne!CpduOf(m) = [i \in 1 .. m.size |-> Ne!ByteOf(m, i - 1)]
  BY DEF Ne!CpduOf
<1>4. Ne!CpduOf(m) \in [1 .. m.size -> Bytes]
  BY <1>2, <1>3
<1> QED BY <1>1, <1>3, <1>4, FunctionIsSeq

(* The segment that starts after i - 1 of them does start within the C_PDU.*)
LEMMA SegmentStarts ==
  ASSUME NEW size \in Nat, NEW max \in Nat \ {0}, NEW i \in 1 .. (size + max - 1) \div max
  PROVE (i - 1) * max \in Nat /\ (i - 1) * max < size
<1> DEFINE q == (size + max - 1) \div max
<1>1. q \in Nat /\ q * max <= size + max - 1
  OBVIOUS
<1>2. i \in Nat /\ 1 <= i /\ i <= q
  BY <1>1
<1> HIDE DEF q
<1>3. i * max <= q * max
  BY <1>1, <1>2
<1>4. (i - 1) * max = i * max - max /\ i * max \in Nat /\ q * max \in Nat
  BY <1>1, <1>2
<1>5. (i - 1) * max \in Nat
  BY <1>2
<1> QED BY <1>1, <1>3, <1>4, <1>5

LEMMA SegmentsOf ==
  ASSUME NEW m \in Cpdus
  PROVE Ne!BuildSegments(m) \in Seq(Segments)
        /\ \A i \in 1 .. Len(Ne!BuildSegments(m)) : SegmentOf(Ne!BuildSegments(m)[i], m)
<1> DEFINE n == (m.size + NeMaxPayload - 1) \div NeMaxPayload
           First(i) == (i - 1) * NeMaxPayload
           Last(i) == IF First(i) + NeMaxPayload < m.size THEN First(i) + NeMaxPayload ELSE m.size
           Seg(i) == [id |-> m.id, first |-> First(i), size |-> m.size,
                      payload |-> SubSeq(Ne!CpduOf(m), First(i) + 1, Last(i))]
           B == Ne!BuildSegments(m)
<1>1. B = [i \in 1 .. n |-> Seg(i)]
  BY DEF Ne!BuildSegments
<1>2. m.size \in Nat /\ m.id \in NeIds /\ NeMaxPayload \in Nat \ {0}
  BY EndpointAssumption DEF Cpdus
<1>3. n \in Nat
  BY <1>2
<1>4. ASSUME NEW i \in 1 .. n PROVE First(i) \in Nat /\ First(i) < m.size
  BY <1>2, SegmentStarts
<1> HIDE DEF n, First
<1>5. ASSUME NEW i \in 1 .. n PROVE SegmentOf(Seg(i), m)
  <2> DEFINE f == First(i)
             l == Last(i)
             p == SubSeq(Ne!CpduOf(m), f + 1, l)
  <2>1. f \in Nat /\ l \in Nat /\ f < l /\ l <= m.size
    BY <1>2, <1>4
  <2> HIDE DEF f, l
  <2>2. Ne!CpduOf(m) \in Seq(Bytes) /\ Len(Ne!CpduOf(m)) = m.size
        /\ \A j \in 1 .. m.size : Ne!CpduOf(m)[j] = Ne!ByteOf(m, j - 1)
    BY CpduIs
  <2>3. f + 1 \in Int /\ l \in Int /\ \A j \in f + 1 .. l : Ne!CpduOf(m)[j] \in Bytes
    <3>1. \A j \in f + 1 .. l : j \in 1 .. m.size
      BY <1>2, <2>1
    <3> QED BY <2>1, <2>2, <3>1
  <2>4. p \in Seq(Bytes) /\ Len(p) = (IF f + 1 <= l THEN l - (f + 1) + 1 ELSE 0)
        /\ \A j \in 1 .. l - (f + 1) + 1 : p[j] = Ne!CpduOf(m)[(f + 1) + j - 1]
    BY <2>3, SubSeqProperties
  <2>5. Len(p) = l - f
    BY <2>1, <2>4
  <2>6. ASSUME NEW j \in 1 .. Len(p) PROVE p[j] = Ne!ByteOf(m, f + j - 1)
    <3>1. (f + 1) + j - 1 = f + j /\ f + j \in 1 .. m.size /\ j \in 1 .. l - (f + 1) + 1
      BY <1>2, <2>1, <2>5
    <3>2. p[j] = Ne!CpduOf(m)[f + j]
      BY <2>4, <3>1
    <3>3. Ne!CpduOf(m)[f + j] = Ne!ByteOf(m, (f + j) - 1)
      BY <2>2, <3>1
    <3>4. (f + j) - 1 = f + j - 1
      BY <2>1
    <3> QED BY <3>2, <3>3, <3>4
  <2> HIDE DEF p
  <2>7. Seg(i) = [id |-> m.id, first |-> f, size |-> m.size, payload |-> p]
    BY DEF f, l, p
  <2>8. [id |-> m.id, first |-> f, size |-> m.size, payload |-> p] \in Segments
    BY <1>2, <2>1, <2>4 DEF Segments
  <2> HIDE DEF Seg
  <2>9. Seg(i) \in Segments /\ Seg(i).id = m.id /\ Seg(i).first = f /\ Seg(i).size = m.size /\ Seg(i).payload = p
    BY <2>7, <2>8
  <2>10. Len(p) > 0 /\ f + Len(p) <= m.size
    BY <1>2, <2>1, <2>5
  <2> QED BY <2>6, <2>9, <2>10 DEF SegmentOf
<1>6. \A i \in 1 .. n : Seg(i) \in Segments
  BY <1>5 DEF SegmentOf
<1> HIDE DEF Seg, B
<1>7. B \in [1 .. n -> Segments]
  BY <1>1, <1>6
<1>8. B \in Seq(Segments) /\ Len(B) = n
  BY <1>3, <1>7, FunctionIsSeq
<1>9. \A i \in 1 .. n : SegmentOf(B[i], m)
  BY <1>1, <1>5
<1> QED BY <1>8, <1>9 DEF B

(* Ranges that cover all of a C_PDU are one range.                         *)
LEMMA FullIsOne ==
  ASSUME NEW n \in Nat \ {0}, NEW R \in Seq(ByteRange), Apart(R), Within(R, n), \A x \in 0 .. n - 1 : In(R, x)
  PROVE Len(R) = 1 /\ R[1][1] = 0 /\ R[1][2] >= n
<1>1. \A i \in 1 .. Len(R) : R[i][1] \in Nat /\ R[i][2] \in Nat /\ R[i][1] < R[i][2] /\ R[i][2] <= n
  BY RangeIs DEF Within
<1>2. PICK i \in 1 .. Len(R) : Covers(R[i], 0)
  <2>1. 0 \in 0 .. n - 1
    OBVIOUS
  <2> QED BY <2>1 DEF In
<1>3. R[i][1] = 0 /\ Len(R) \in Nat /\ i \in Nat
  BY <1>1, <1>2, LenProperties DEF Covers
<1>4. i = 1
  <2>1. SUFFICES ASSUME 1 < i PROVE FALSE
    BY <1>3
  <2>2. 1 \in 1 .. Len(R)
    BY <1>3, <2>1
  <2>3. R[1][2] < R[i][1]
    BY <2>1, <2>2 DEF Apart
  <2> QED BY <1>1, <1>3, <2>2, <2>3
<1>5. 1 \in 1 .. Len(R) /\ R[1][1] = 0
  BY <1>3, <1>4
<1>6. R[1][2] \in Nat /\ R[1][2] <= n
  BY <1>1, <1>5
<1>7. ~(R[1][2] < n)
  <2>1. SUFFICES ASSUME R[1][2] < n PROVE FALSE
    OBVIOUS
  <2>2. PICK k \in 1 .. Len(R) : Covers(R[k], R[1][2])
    BY <1>6, <2>1 DEF In
  <2>3. k # 1
    BY <1>6, <2>2 DEF Covers
  <2>4. 1 < k
    BY <1>3, <2>3
  <2>5. R[1][2] < R[k][1]
    BY <1>5, <2>4 DEF Apart
  <2> QED BY <1>1, <1>6, <2>2, <2>5 DEF Covers
<1>8. ~(1 < Len(R))
  <2>1. SUFFICES ASSUME 1 < Len(R) PROVE FALSE
    OBVIOUS
  <2>2. 2 \in 1 .. Len(R)
    BY <1>3, <2>1
  <2>3. R[1][2] < R[2][1]
    BY <1>5, <2>2 DEF Apart
  <2> QED BY <1>1, <1>6, <1>7, <2>2, <2>3
<1>9. Len(R) = 1
  <2>1. Len(R) \in Nat
    BY <1>3
  <2>2. 1 <= Len(R)
    BY <1>5, <2>1
  <2>3. ASSUME NEW k \in Nat, 1 <= k, ~(1 < k) PROVE k = 1
    BY <2>3
  <2> QED BY <1>8, <2>1, <2>2, <2>3
<1>10. R[1][2] >= n
  BY <1>6, <1>7
<1> QED BY <1>5, <1>9, <1>10

LEMMA WithinIs ==
  ASSUME NEW n \in Nat, NEW R \in Seq(ByteRange)
  PROVE Within(R, n) <=> \A x \in Nat : In(R, x) => x < n
<1>1. \A i \in 1 .. Len(R) : R[i][1] \in Nat /\ R[i][2] \in Nat /\ R[i][1] < R[i][2]
  BY RangeIs
<1>2. ASSUME Within(R, n), NEW x \in Nat, In(R, x) PROVE x < n
  <2>1. PICK i \in 1 .. Len(R) : R[i][1] <= x /\ x < R[i][2]
    BY <1>2 DEF In, Covers
  <2>2. R[i][2] <= n
    BY <1>2 DEF Within
  <2> QED BY <1>1, <2>1, <2>2
<1>3. ASSUME \A x \in Nat : In(R, x) => x < n, NEW i \in 1 .. Len(R) PROVE R[i][2] <= n
  <2> DEFINE x == R[i][2] - 1
  <2>1. x \in Nat /\ R[i][1] <= x /\ x < R[i][2]
    BY <1>1
  <2>2. In(R, x)
    BY <2>1 DEF In, Covers
  <2>3. x < n
    BY <1>3, <2>1, <2>2
  <2> QED BY <1>1, <2>3
<1> QED BY <1>2, <1>3 DEF Within

(* accept_segment: the entry has the segment's bytes too, or the C_PDU is  *)
(* complete and delivered as it was.                                       *)
LEMMA EntryIs ==
  ASSUME NEW m \in Cpdus, NEW s, SegmentOf(s, m),
         neEntries[s.id] = <<>> \/ PartOf(neEntries[s.id], m)
  PROVE HasOf(Ne!Entry(s), m)
<1>1. CASE neEntries[s.id] = <<>>
  <2> DEFINE e == [size |-> s.size, buffer |-> [i \in 0 .. s.size - 1 |-> <<>>], ranges |-> <<>>]
  <2>1. Ne!Entry(s) = e
    BY <1>1 DEF Ne!Entry, Ne!Nothing
  <2>2. s.size = m.size
    BY DEF SegmentOf
  <2>3. e.size = m.size /\ e.buffer = [i \in 0 .. m.size - 1 |-> <<>>] /\ e.ranges = <<>>
    BY <2>2
  <2>4. e \in [size : {m.size}, buffer : [0 .. m.size - 1 -> Bytes \cup {<<>>}], ranges : Seq(ByteRange)]
    BY <2>2, EmptySeq
  <2> HIDE DEF e
  <2>5. Len(<<>>) = 0 /\ 1 .. 0 = {}
    OBVIOUS
  <2>6. Apart(<<>>) /\ Within(<<>>, m.size) /\ \A i : ~In(<<>>, i)
    BY <2>5 DEF Apart, Within, In
  <2>7. \A i \in 0 .. m.size - 1 : e.buffer[i] = IF In(e.ranges, i) THEN Ne!ByteOf(m, i) ELSE <<>>
    BY <2>3, <2>6
  <2> QED BY <2>1, <2>3, <2>4, <2>6, <2>7 DEF HasOf
<1>2. CASE neEntries[s.id] # <<>>
  BY <1>2 DEF PartOf, Ne!Entry, Ne!Nothing
<1> QED BY <1>1, <1>2

LEMMA NewEntryIs ==
  ASSUME NEW m \in Cpdus, NEW s, SegmentOf(s, m), NEW old, HasOf(old, m), NEW end, end = s.first + Len(s.payload)
  PROVE HasOf([old EXCEPT !.buffer = [i \in DOMAIN @ |-> IF i \in s.first .. end - 1
                                                         THEN s.payload[i - s.first + 1] ELSE @[i]],
                          !.ranges = Ne!MergeRanges(@, <<s.first, end>>)], m)
<1> DEFINE D == 0 .. m.size - 1
           b == [i \in D |-> IF i \in s.first .. end - 1 THEN s.payload[i - s.first + 1] ELSE old.buffer[i]]
           R == Ne!MergeRanges(old.ranges, <<s.first, end>>)
           e == [old EXCEPT !.buffer = b, !.ranges = R]
<1>1. s \in Segments /\ Len(s.payload) > 0 /\ end <= m.size
      /\ \A j \in 1 .. Len(s.payload) : s.payload[j] = Ne!ByteOf(m, s.first + j - 1)
  BY DEF SegmentOf
<1>2. s.first \in Nat /\ s.payload \in Seq(Bytes) /\ m.size \in Nat
  BY <1>1 DEF Segments, Cpdus
<1>3. Len(s.payload) \in Nat /\ end \in Nat /\ s.first < end
  BY <1>1, <1>2, LenProperties
<1>4. old \in [size : {m.size}, buffer : [0 .. m.size - 1 -> Bytes \cup {<<>>}], ranges : Seq(ByteRange)]
      /\ Apart(old.ranges) /\ Within(old.ranges, m.size)
      /\ \A i \in D : old.buffer[i] = IF In(old.ranges, i) THEN Ne!ByteOf(m, i) ELSE <<>>
  BY DEF HasOf
<1>5. old.size = m.size /\ old.buffer \in [D -> Bytes \cup {<<>>}] /\ old.ranges \in Seq(ByteRange) /\ DOMAIN old.buffer = D
  BY <1>4
<1>6. <<s.first, end>> \in ByteRange /\ \A x : Covers(<<s.first, end>>, x) <=> s.first <= x /\ x < end
  BY <1>2, <1>3, RangeIs DEF Covers
<1>7. R \in Seq(ByteRange) /\ Apart(R) /\ \A x \in Nat : In(R, x) <=> In(old.ranges, x) \/ (s.first <= x /\ x < end)
  BY <1>4, <1>5, <1>6, MergeFacts
<1> HIDE DEF R
<1>8. Within(R, m.size)
  <2>1. ASSUME NEW x \in Nat, In(R, x) PROVE x < m.size
    <3>1. CASE In(old.ranges, x)
      BY <1>2, <1>4, <1>5, <3>1, WithinIs
    <3>2. CASE x < end
      BY <1>1, <1>2, <1>3, <3>2
    <3> QED BY <1>7, <2>1, <3>1, <3>2
  <2> QED BY <1>2, <1>7, <2>1, WithinIs
<1>9. ASSUME NEW i \in D PROVE b[i] = IF In(R, i) THEN Ne!ByteOf(m, i) ELSE <<>>
  <2>1. i \in Nat
    BY <1>2
  <2>2. CASE i \in s.first .. end - 1
    <3>1. b[i] = s.payload[i - s.first + 1]
      BY <2>2
    <3>2. PICK j \in Nat : j = (i - s.first) + 1
      BY <1>2, <1>3, <2>1, <2>2
    <3>3. j \in 1 .. Len(s.payload) /\ s.first + j - 1 = i /\ i - s.first + 1 = j
      BY <1>2, <1>3, <2>1, <2>2, <3>2
    <3>4. b[i] = Ne!ByteOf(m, i)
      BY <1>1, <3>1, <3>3
    <3>5. s.first <= i /\ i < end
      BY <1>2, <1>3, <2>1, <2>2
    <3>6. In(R, i)
      BY <1>7, <2>1, <3>5
    <3> QED BY <3>4, <3>6
  <2>3. CASE i \notin s.first .. end - 1
    <3>1. b[i] = old.buffer[i]
      BY <2>3
    <3>2. ~(s.first <= i /\ i < end)
      BY <1>2, <1>3, <2>1, <2>3
    <3>3. In(R, i) <=> In(old.ranges, i)
      BY <1>7, <2>1, <3>2
    <3> QED BY <1>4, <3>1, <3>3
  <2> QED BY <2>2, <2>3
<1>10. b \in [D -> Bytes \cup {<<>>}]
  <2>1. ASSUME NEW i \in D PROVE b[i] \in Bytes \cup {<<>>}
    <3>1. i \in Nat
      BY <1>2
    <3> QED BY <1>9, <3>1, ByteIs
  <2> QED BY <2>1
<1> HIDE DEF b
<1>11. e \in [size : {m.size}, buffer : [D -> Bytes \cup {<<>>}], ranges : Seq(ByteRange)]
       /\ e.buffer = b /\ e.ranges = R
  BY <1>4, <1>7, <1>10
<1> HIDE DEF e
<1>12. HasOf(e, m)
  BY <1>7, <1>8, <1>9, <1>11 DEF HasOf
<1> QED BY <1>5, <1>12 DEF e, b, R

LEMMA AcceptIs ==
  ASSUME NEW m \in Cpdus, NEW s, SegmentOf(s, m), Ne!AcceptSegment(s),
         neEntries[s.id] = <<>> \/ PartOf(neEntries[s.id], m)
  PROVE \/ /\ neEntries' = [neEntries EXCEPT ![s.id] = <<>>]
           /\ neDelivered' = Append(neDelivered, Ne!CpduOf(m))
        \/ /\ \E e : PartOf(e, m) /\ neEntries' = [neEntries EXCEPT ![s.id] = e]
           /\ neDelivered' = neDelivered
<1>1. PICK old : old = Ne!Entry(s)
  OBVIOUS
<1>2. PICK end : end = s.first + Len(s.payload)
  OBVIOUS
<1>3. PICK new : new = [old EXCEPT !.buffer = [i \in DOMAIN @ |-> IF i \in s.first .. end - 1
                                                                 THEN s.payload[i - s.first + 1] ELSE @[i]],
                                   !.ranges = Ne!MergeRanges(@, <<s.first, end>>)]
  OBVIOUS
<1>4. HasOf(old, m)
  BY <1>1, EntryIs
<1>5. HasOf(new, m)
  BY <1>2, <1>3, <1>4, NewEntryIs
<1>6. old.size = m.size /\ m.size \in Nat /\ end <= m.size
  BY <1>2, <1>4 DEF HasOf, SegmentOf, Cpdus
<1>7. end \in Nat /\ end > 0
  <2>1. s.first \in Nat /\ s.payload \in Seq(Bytes) /\ Len(s.payload) > 0
    BY DEF SegmentOf, Segments
  <2> QED BY <1>2, <2>1, LenProperties
<1>8. m.size \in Nat \ {0} /\ ~(end > old.size)
  BY <1>6, <1>7
<1>9. IF Len(new.ranges) = 1 /\ new.ranges[1][1] = 0 /\ new.ranges[1][2] >= new.size
      THEN /\ neEntries' = [neEntries EXCEPT ![s.id] = <<>>]
           /\ neDelivered' = Append(neDelivered, [i \in 1 .. new.size |-> new.buffer[i - 1]])
      ELSE neEntries' = [neEntries EXCEPT ![s.id] = new] /\ UNCHANGED neDelivered
  BY <1>1, <1>2, <1>3, <1>8 DEF Ne!AcceptSegment, Ne!Nothing
<1>10. new.size = m.size /\ new.ranges \in Seq(ByteRange) /\ Apart(new.ranges) /\ Within(new.ranges, m.size)
       /\ \A i \in 0 .. m.size - 1 : new.buffer[i] = IF In(new.ranges, i) THEN Ne!ByteOf(m, i) ELSE <<>>
  BY <1>5 DEF HasOf
<1>11. CASE Len(new.ranges) = 1 /\ new.ranges[1][1] = 0 /\ new.ranges[1][2] >= new.size
  <2>1. ASSUME NEW i \in 0 .. m.size - 1 PROVE In(new.ranges, i)
    <3>1. 1 \in 1 .. Len(new.ranges) /\ new.ranges[1] \in ByteRange
      BY <1>10, <1>11
    <3>2. new.ranges[1][2] \in Nat
      BY <3>1, RangeIs
    <3>3. Covers(new.ranges[1], i)
      BY <1>8, <1>10, <1>11, <3>2 DEF Covers
    <3> QED BY <3>1, <3>3 DEF In
  <2>2. ASSUME NEW i \in 1 .. m.size PROVE new.buffer[i - 1] = Ne!ByteOf(m, i - 1)
    <3>1. i - 1 \in 0 .. m.size - 1
      BY <1>8
    <3> QED BY <1>10, <2>1, <3>1
  <2>3. [i \in 1 .. new.size |-> new.buffer[i - 1]] = Ne!CpduOf(m)
    BY <1>10, <2>2 DEF Ne!CpduOf
  <2> QED BY <1>9, <1>11, <2>3
<1>12. CASE ~(Len(new.ranges) = 1 /\ new.ranges[1][1] = 0 /\ new.ranges[1][2] >= new.size)
  <2>1. \E i \in 0 .. m.size - 1 : ~In(new.ranges, i)
    BY <1>8, <1>10, <1>12, FullIsOne
  <2>2. PartOf(new, m)
    BY <1>5, <2>1 DEF PartOf
  <2> QED BY <1>9, <1>12, <2>2
<1> QED BY <1>11, <1>12

-----------------------------------------------------------------------------
(***************************************************************************)
(* The endpoint: what goes by an identifier is of one C_PDU, the one that  *)
(* has it now; its segments are parts of it wherever they are.             *)
(***************************************************************************)
Holds(id, m) ==
  /\ m.id = id
  /\ \A s \in neAir \cup Ne!ToSet(neQueue) : s.id = id => SegmentOf(s, m)
  /\ neEntries[id] = <<>> \/ PartOf(neEntries[id], m)
NeInv ==
  /\ neNext \in NeIds
  /\ neSent \subseteq Cpdus /\ IsFiniteSet(neSent)
  /\ neQueue \in Seq(Segments) /\ neAir \subseteq Segments
  /\ neEntries = [id \in NeIds |-> neEntries[id]]
  /\ neDelivered \in Seq(Seq(Bytes))
  /\ \A id \in NeIds : Ne!Unused(id) \/ \E m \in neSent : Holds(id, m)
  /\ \A i \in 1 .. Len(neDelivered) : \E m \in neSent : neDelivered[i] = Ne!CpduOf(m)

LEMMA CountIs ==
  ASSUME NEW S, IsFiniteSet(S)
  PROVE Ne!Cardinality(S) \in Nat
<1>1. Ne!Cardinality(S) = Cardinality(S)
  BY DEF Ne!Cardinality, Cardinality
<1> QED BY <1>1, FS_CardinalityType

LEMMA ToSetIs ==
  ASSUME NEW S, NEW a \in Seq(S)
  PROVE /\ Ne!ToSet(a) = {a[i] : i \in 1 .. Len(a)}
        /\ \A b \in Seq(S) : Ne!ToSet(a \o b) = Ne!ToSet(a) \cup Ne!ToSet(b)
        /\ a # <<>> => Tail(a) \in Seq(S) /\ Head(a) \in S /\ Head(a) \in Ne!ToSet(a)
                       /\ Ne!ToSet(Tail(a)) \subseteq Ne!ToSet(a)
<1>1. \A s \in Seq(S) : Ne!ToSet(s) = {s[i] : i \in 1 .. Len(s)}
  BY LenProperties DEF Ne!ToSet
<1>2. ASSUME NEW b \in Seq(S) PROVE Ne!ToSet(a \o b) = Ne!ToSet(a) \cup Ne!ToSet(b)
  <2>1. a \o b \in Seq(S) /\ Len(a \o b) = Len(a) + Len(b)
        /\ \A i \in 1 .. Len(a) + Len(b) : (a \o b)[i] = IF i <= Len(a) THEN a[i] ELSE b[i - Len(a)]
    BY ConcatProperties
  <2>2. Len(a) \in Nat /\ Len(b) \in Nat
    BY LenProperties
  <2>3. ASSUME NEW x \in Ne!ToSet(a) \cup Ne!ToSet(b) PROVE x \in Ne!ToSet(a \o b)
    <3>1. CASE x \in Ne!ToSet(a)
      <4>1. PICK i \in 1 .. Len(a) : x = a[i]
        BY <1>1, <3>1
      <4>2. i \in 1 .. Len(a) + Len(b) /\ i <= Len(a)
        BY <2>2
      <4> QED BY <1>1, <2>1, <4>1, <4>2
    <3>2. CASE x \in Ne!ToSet(b)
      <4>1. PICK j \in 1 .. Len(b) : x = b[j]
        BY <1>1, <3>2
      <4>2. PICK i \in Nat : i = Len(a) + j
        BY <2>2
      <4>3. i \in 1 .. Len(a) + Len(b) /\ ~(i <= Len(a)) /\ i - Len(a) = j
        BY <2>2, <4>2
      <4>4. (a \o b)[i] = x
        BY <2>1, <4>1, <4>3
      <4> QED BY <1>1, <2>1, <4>3, <4>4
    <3> QED BY <2>3, <3>1, <3>2
  <2>4. ASSUME NEW x \in Ne!ToSet(a \o b) PROVE x \in Ne!ToSet(a) \cup Ne!ToSet(b)
    <3>0. Ne!ToSet(a \o b) = {(a \o b)[i] : i \in 1 .. Len(a \o b)}
      BY <1>1, <2>1
    <3>1. PICK i \in 1 .. Len(a) + Len(b) : x = (a \o b)[i]
      <4>1. PICK i \in 1 .. Len(a \o b) : x = (a \o b)[i]
        BY <2>4, <3>0
      <4> QED BY <2>1, <4>1
    <3>2. CASE i <= Len(a)
      <4>1. i \in 1 .. Len(a) /\ x = a[i]
        BY <2>1, <2>2, <3>1, <3>2
      <4> QED BY <1>1, <4>1
    <3>3. CASE ~(i <= Len(a))
      <4>1. i - Len(a) \in 1 .. Len(b) /\ x = b[i - Len(a)]
        BY <2>1, <2>2, <3>1, <3>3
      <4> QED BY <1>1, <4>1
    <3> QED BY <3>2, <3>3
  <2> QED BY <2>3, <2>4
<1>3. ASSUME a # <<>>
      PROVE Tail(a) \in Seq(S) /\ Head(a) \in S /\ Head(a) \in Ne!ToSet(a) /\ Ne!ToSet(Tail(a)) \subseteq Ne!ToSet(a)
  <2>1. Tail(a) \in Seq(S) /\ Len(Tail(a)) = Len(a) - 1 /\ Head(a) = a[1]
        /\ \A i \in 1 .. Len(Tail(a)) : Tail(a)[i] = a[i + 1]
    BY <1>3, HeadTailProperties
  <2>2. Len(a) \in Nat /\ Len(a) # 0
    BY <1>3, LenProperties, EmptySeq
  <2>3. 1 \in 1 .. Len(a)
    BY <2>2
  <2>4. Head(a) \in S /\ Head(a) \in Ne!ToSet(a)
    BY <1>1, <2>1, <2>3
  <2>5. ASSUME NEW x \in Ne!ToSet(Tail(a)) PROVE x \in Ne!ToSet(a)
    <3>1. PICK i \in 1 .. Len(Tail(a)) : x = Tail(a)[i]
      BY <1>1, <2>1, <2>5
    <3>2. i + 1 \in 1 .. Len(a) /\ x = a[i + 1]
      BY <2>1, <2>2, <3>1
    <3> QED BY <1>1, <3>2
  <2> QED BY <2>1, <2>4, <2>5
<1> QED BY <1>1, <1>2, <1>3

LEMMA NeEnqueue ==
  ASSUME NeInv, NEW size \in NeSizes, Ne!EnqueueCpdu(size)
  PROVE NeInv'
<1>0. PICK m : m = [no |-> Ne!Cardinality(neSent) + 1, id |-> neNext, size |-> size]
  OBVIOUS
<1> DEFINE B == Ne!BuildSegments(m)
<1>1. /\ Ne!Unused(neNext)
      /\ neQueue' = neQueue \o B
      /\ neNext' = (neNext + (IF size = 0 THEN 2 ELSE 1)) % NeIdMod
      /\ neSent' = neSent \cup {m}
      /\ UNCHANGED <<neAir, neEntries, neDelivered, neRepeats>>
  BY <1>0 DEF Ne!EnqueueCpdu
<1>2. /\ neNext \in NeIds
      /\ neSent \subseteq Cpdus /\ IsFiniteSet(neSent)
      /\ neQueue \in Seq(Segments) /\ neAir \subseteq Segments
      /\ \A id \in NeIds : Ne!Unused(id) \/ \E k \in neSent : Holds(id, k)
      /\ \A i \in 1 .. Len(neDelivered) : \E k \in neSent : neDelivered[i] = Ne!CpduOf(k)
  BY DEF NeInv
<1>3. size \in Nat /\ NeIdMod \in Nat \ {0}
  BY EndpointAssumption
<1>4. m \in Cpdus /\ m.id = neNext
  <2>1. Ne!Cardinality(neSent) \in Nat
    BY <1>2, CountIs
  <2> QED BY <1>0, <1>2, <1>3, <2>1 DEF Cpdus
<1>5. B \in Seq(Segments) /\ \A i \in 1 .. Len(B) : SegmentOf(B[i], m)
  BY <1>4, SegmentsOf
<1> HIDE DEF B
<1>6. neNext' \in NeIds
  BY <1>1, <1>2, <1>3 DEF NeIds
<1>7. neSent' \subseteq Cpdus /\ IsFiniteSet(neSent')
  BY <1>1, <1>2, <1>4, FS_AddElement
<1>8. neQueue' \in Seq(Segments) /\ Ne!ToSet(neQueue') = Ne!ToSet(neQueue) \cup Ne!ToSet(B)
  BY <1>1, <1>2, <1>5, ConcatProperties, ToSetIs
<1>9. \A s \in Ne!ToSet(B) : SegmentOf(s, m)
  BY <1>5, ToSetIs
<1>10. ASSUME NEW id \in NeIds PROVE (Ne!Unused(id) \/ \E k \in neSent : Holds(id, k))'
  <2>1. CASE id = neNext
    <3>1. neEntries[id] = <<>> /\ \A s \in neAir \cup Ne!ToSet(neQueue) : s.id # id
      BY <1>1, <2>1 DEF Ne!Unused, Ne!Nothing
    <3>2. \A s \in neAir' \cup Ne!ToSet(neQueue') : s.id = id => SegmentOf(s, m)
      BY <1>1, <1>8, <1>9, <3>1
    <3>3. Holds(id, m)'
      BY <1>1, <1>4, <2>1, <3>1, <3>2 DEF Holds
    <3> QED BY <1>1, <3>3
  <2>2. CASE id # neNext
    <3>1. ASSUME NEW s \in neAir' \cup Ne!ToSet(neQueue'), s.id = id PROVE s \in neAir \cup Ne!ToSet(neQueue)
      BY <1>1, <1>4, <1>8, <1>9, <2>2, <3>1 DEF SegmentOf
    <3>2. CASE Ne!Unused(id)
      <4>1. Ne!Unused(id)'
        BY <1>1, <3>1, <3>2 DEF Ne!Unused
      <4> QED BY <4>1
    <3>3. ASSUME NEW k \in neSent, Holds(id, k) PROVE Holds(id, k)'
      BY <1>1, <3>1, <3>3 DEF Holds
    <3> QED BY <1>1, <1>2, <3>2, <3>3
  <2> QED BY <2>1, <2>2
<1> QED BY <1>1, <1>2, <1>6, <1>7, <1>8, <1>10 DEF NeInv

(* Fewer segments under way, the entries as they were or one of them gone. *)
LEMMA NeFewer ==
  ASSUME NeInv, neNext' = neNext, neSent' = neSent, neQueue' \in Seq(Segments), neDelivered' = neDelivered,
         neAir' \cup Ne!ToSet(neQueue') \subseteq neAir \cup Ne!ToSet(neQueue),
         neAir' \subseteq Segments,
         neEntries' = neEntries \/ \E id \in NeIds : neEntries' = [neEntries EXCEPT ![id] = <<>>]
  PROVE NeInv'
<1>1. neEntries = [id \in NeIds |-> neEntries[id]]
      /\ \A id \in NeIds : Ne!Unused(id) \/ \E k \in neSent : Holds(id, k)
  BY DEF NeInv
<1>2. neEntries' = [id \in NeIds |-> neEntries'[id]]
      /\ \A id \in NeIds : neEntries'[id] = neEntries[id] \/ neEntries'[id] = <<>>
  BY <1>1
<1>3. ASSUME NEW id \in NeIds PROVE (Ne!Unused(id) \/ \E k \in neSent : Holds(id, k))'
  <2>1. CASE Ne!Unused(id)
    <3>1. Ne!Unused(id)'
      BY <1>2, <2>1 DEF Ne!Unused, Ne!Nothing
    <3> QED BY <3>1
  <2>2. ASSUME NEW k \in neSent, Holds(id, k) PROVE Holds(id, k)'
    BY <1>2, <2>2 DEF Holds
  <2> QED BY <1>1, <2>1, <2>2
<1> QED BY <1>2, <1>3 DEF NeInv

LEMMA NeAccept ==
  ASSUME NeInv, NEW s \in neAir, Ne!AcceptSegment(s), neNext' = neNext, neSent' = neSent, neQueue' = neQueue,
         neAir' \subseteq neAir
  PROVE NeInv'
<1>1. /\ neSent \subseteq Cpdus
      /\ neAir \subseteq Segments
      /\ neEntries = [id \in NeIds |-> neEntries[id]]
      /\ neDelivered \in Seq(Seq(Bytes))
      /\ \A id \in NeIds : Ne!Unused(id) \/ \E k \in neSent : Holds(id, k)
      /\ \A i \in 1 .. Len(neDelivered) : \E k \in neSent : neDelivered[i] = Ne!CpduOf(k)
  BY DEF NeInv
<1>2. s.id \in NeIds
  BY <1>1 DEF Segments
<1>3. PICK m \in neSent : Holds(s.id, m)
  BY <1>1, <1>2 DEF Ne!Unused
<1>4. SegmentOf(s, m) /\ (neEntries[s.id] = <<>> \/ PartOf(neEntries[s.id], m)) /\ m \in Cpdus
  BY <1>1, <1>3 DEF Holds
<1>5. \/ /\ neEntries' = [neEntries EXCEPT ![s.id] = <<>>]
         /\ neDelivered' = Append(neDelivered, Ne!CpduOf(m))
      \/ /\ \E e : PartOf(e, m) /\ neEntries' = [neEntries EXCEPT ![s.id] = e]
         /\ neDelivered' = neDelivered
  BY <1>4, AcceptIs
<1>6. /\ neEntries' = [id \in NeIds |-> neEntries'[id]]
      /\ \A id \in NeIds : id # s.id => neEntries'[id] = neEntries[id]
      /\ neEntries'[s.id] = <<>> \/ PartOf(neEntries'[s.id], m)
  BY <1>1, <1>2, <1>5
<1>7. neDelivered' \in Seq(Seq(Bytes)) /\ \A i \in 1 .. Len(neDelivered') : \E k \in neSent : neDelivered'[i] = Ne!CpduOf(k)
  <2>1. CASE neDelivered' = neDelivered
    BY <1>1, <2>1
  <2>2. CASE neDelivered' = Append(neDelivered, Ne!CpduOf(m))
    <3>1. Ne!CpduOf(m) \in Seq(Bytes)
      BY <1>4, CpduIs
    <3>2. neDelivered' \in Seq(Seq(Bytes)) /\ Len(neDelivered') = Len(neDelivered) + 1
          /\ neDelivered'[Len(neDelivered) + 1] = Ne!CpduOf(m)
          /\ \A i \in 1 .. Len(neDelivered) : neDelivered'[i] = neDelivered[i]
      BY <1>1, <2>2, <3>1, AppendProperties
    <3>3. Len(neDelivered) \in Nat
      BY <1>1, LenProperties
    <3>4. 1 .. Len(neDelivered') = (1 .. Len(neDelivered)) \cup {Len(neDelivered) + 1}
      BY <3>2, <3>3
    <3> QED BY <1>1, <3>2, <3>4
  <2> QED BY <1>5, <2>1, <2>2
<1>8. ASSUME NEW id \in NeIds PROVE (Ne!Unused(id) \/ \E k \in neSent : Holds(id, k))'
  <2>1. CASE id = s.id
    <3>1. Holds(id, m)'
      BY <1>3, <1>6, <2>1 DEF Holds
    <3> QED BY <3>1
  <2>2. CASE id # s.id
    <3>1. CASE Ne!Unused(id)
      <4>1. Ne!Unused(id)'
        BY <1>6, <2>2, <3>1 DEF Ne!Unused, Ne!Nothing
      <4> QED BY <4>1
    <3>2. ASSUME NEW k \in neSent, Holds(id, k) PROVE Holds(id, k)'
      BY <1>6, <2>2, <3>2 DEF Holds
    <3> QED BY <1>1, <3>1, <3>2
  <2> QED BY <2>1, <2>2
<1> QED BY <1>1, <1>6, <1>7, <1>8 DEF NeInv

LEMMA NeStep == NeInv /\ Ne!Next => NeInv'
<1> SUFFICES ASSUME NeInv, Ne!Next PROVE NeInv'
  OBVIOUS
<1>1. neQueue \in Seq(Segments) /\ neAir \subseteq Segments
  BY DEF NeInv
<1>2. CASE \E size \in NeSizes : Ne!EnqueueCpdu(size)
  BY <1>2, NeEnqueue
<1>3. CASE Ne!PopNextSegment
  <2>1. /\ neQueue # <<>>
        /\ neAir' = neAir \cup {Head(neQueue)}
        /\ neQueue' = Tail(neQueue)
        /\ UNCHANGED <<neNext, neSent, neEntries, neDelivered, neRepeats>>
    BY <1>3 DEF Ne!PopNextSegment
  <2>2. Tail(neQueue) \in Seq(Segments) /\ Head(neQueue) \in Segments /\ Head(neQueue) \in Ne!ToSet(neQueue)
        /\ Ne!ToSet(Tail(neQueue)) \subseteq Ne!ToSet(neQueue)
    BY <1>1, <2>1, ToSetIs
  <2>3. neQueue' \in Seq(Segments) /\ neAir' \subseteq Segments
        /\ neAir' \cup Ne!ToSet(neQueue') \subseteq neAir \cup Ne!ToSet(neQueue)
    BY <1>1, <2>1, <2>2
  <2> QED BY <2>1, <2>3, NeFewer
<1>4. ASSUME NEW s \in neAir, Ne!Arrive(s) \/ Ne!Repeat(s) PROVE NeInv'
  <2>1. Ne!AcceptSegment(s) /\ neNext' = neNext /\ neSent' = neSent /\ neQueue' = neQueue /\ neAir' \subseteq neAir
    BY <1>4 DEF Ne!Arrive, Ne!Repeat
  <2> QED BY <2>1, NeAccept
<1>5. ASSUME NEW s \in neAir, Ne!Lose(s) PROVE NeInv'
  <2>1. /\ neAir' = neAir \ {s}
        /\ UNCHANGED <<neNext, neQueue, neSent, neEntries, neDelivered, neRepeats>>
    BY <1>5 DEF Ne!Lose
  <2>2. neQueue' \in Seq(Segments) /\ neAir' \subseteq Segments
        /\ neAir' \cup Ne!ToSet(neQueue') \subseteq neAir \cup Ne!ToSet(neQueue)
    BY <1>1, <2>1
  <2> QED BY <2>1, <2>2, NeFewer
<1>6. ASSUME NEW id \in Ne!Ids, Ne!PurgeExpired(id) PROVE NeInv'
  <2>1. /\ neEntries' = [neEntries EXCEPT ![id] = <<>>]
        /\ UNCHANGED <<neNext, neQueue, neSent, neAir, neDelivered, neRepeats>>
        /\ id \in NeIds
    BY <1>6 DEF Ne!PurgeExpired, Ne!Nothing, Ne!Ids, NeIds
  <2>2. neQueue' \in Seq(Segments) /\ neAir' \subseteq Segments
        /\ neAir' \cup Ne!ToSet(neQueue') \subseteq neAir \cup Ne!ToSet(neQueue)
    BY <1>1, <2>1
  <2> QED BY <2>1, <2>2, NeFewer
<1> QED BY <1>2, <1>3, <1>4, <1>5, <1>6 DEF Ne!Next

LEMMA NeInitInv == StreamsInit => NeInv
<1> SUFFICES ASSUME StreamsInit PROVE NeInv
  OBVIOUS
<1>1. /\ neNext = 0 /\ neQueue = <<>> /\ neSent = {} /\ neAir = {} /\ neDelivered = <<>>
      /\ neEntries = [id \in NeIds |-> <<>>]
  BY DEF StreamsInit, Ne!Init, Ne!Ids, Ne!Nothing, NeIds
<1>2. 0 \in NeIds
  BY EndpointAssumption DEF NeIds
<1>3. neQueue \in Seq(Segments) /\ neDelivered \in Seq(Seq(Bytes)) /\ Len(neDelivered) = 0 /\ Len(neQueue) = 0
  BY <1>1, EmptySeq
<1>4. Ne!ToSet(neQueue) = {}
  <2>1. 1 .. Len(neQueue) = {}
    BY <1>3
  <2>2. neQueue \in Seq(Segments)
    BY <1>3
  <2>3. DOMAIN neQueue = 1 .. Len(neQueue)
    BY <2>2, LenProperties
  <2> QED BY <2>1, <2>3 DEF Ne!ToSet
<1>5. \A id \in NeIds : Ne!Unused(id)
  BY <1>1, <1>4 DEF Ne!Unused, Ne!Nothing
<1>6. IsFiniteSet(neSent)
  BY <1>1, FS_EmptySet
<1> QED BY <1>1, <1>2, <1>3, <1>5, <1>6 DEF NeInv

TellsBytes(e) ==
  LET covered == UNION {e.ranges[i][1] .. e.ranges[i][2] - 1 : i \in DOMAIN e.ranges}
  IN  /\ covered = {i \in DOMAIN e.buffer : e.buffer[i] # <<>>}
      /\ covered # DOMAIN e.buffer
      /\ \A i \in 2 .. Len(e.ranges) : e.ranges[i - 1][2] < e.ranges[i][1]

LEMMA PartTells ==
  ASSUME NEW m \in Cpdus, NEW e, PartOf(e, m)
  PROVE TellsBytes(e)
<1>1. m.size \in Nat
  BY DEF Cpdus
<1> DEFINE R == e.ranges
           D == 0 .. m.size - 1
           covered == UNION {R[i][1] .. R[i][2] - 1 : i \in DOMAIN R}
<1>2. R \in Seq(ByteRange) /\ DOMAIN e.buffer = D /\ Apart(R) /\ Within(R, m.size)
      /\ (\A i \in D : e.buffer[i] = IF In(R, i) THEN Ne!ByteOf(m, i) ELSE <<>>)
      /\ \E i \in D : ~In(R, i)
  BY DEF PartOf, HasOf
<1> HIDE DEF R
<1>3. DOMAIN R = 1 .. Len(R) /\ Len(R) \in Nat
  BY <1>2, LenProperties
<1>4. \A i \in 1 .. Len(R) : R[i][1] \in Nat /\ R[i][2] \in Nat
  BY <1>2, RangeIs
<1>5. \A x : x \in covered <=> x \in Nat /\ In(R, x)
  <2>1. \A x : x \in covered <=> \E i \in 1 .. Len(R) : x \in R[i][1] .. R[i][2] - 1
    BY <1>3
  <2> HIDE DEF covered
  <2>2. \A i \in 1 .. Len(R) : \A x : x \in R[i][1] .. R[i][2] - 1 <=> x \in Nat /\ R[i][1] <= x /\ x < R[i][2]
    BY <1>4
  <2> QED BY <2>1, <2>2 DEF In, Covers
<1> HIDE DEF covered
<1>6. \A x \in Nat : In(R, x) => x \in D
  BY <1>1, <1>2, WithinIs
<1>7. D \subseteq Nat
  BY <1>1
<1> HIDE DEF D
<1>8. \A i \in D : e.buffer[i] # <<>> <=> In(R, i)
  BY <1>1, <1>2, <1>7, ByteIs
<1>9. covered = {i \in DOMAIN e.buffer : e.buffer[i] # <<>>}
  BY <1>2, <1>5, <1>6, <1>7, <1>8
<1>10. covered # DOMAIN e.buffer
  BY <1>2, <1>5
<1>11. ASSUME NEW i \in 2 .. Len(R) PROVE R[i - 1][2] < R[i][1]
  <2>1. i - 1 \in 1 .. Len(R) /\ i \in 1 .. Len(R) /\ i - 1 < i
    BY <1>3
  <2> QED BY <1>2, <2>1 DEF Apart
<1> QED BY <1>9, <1>10, <1>11 DEF covered, R, TellsBytes

LEMMA NeInvImplies == NeInv => Ne!RangesTellBytes
<1> SUFFICES ASSUME NeInv PROVE Ne!RangesTellBytes
  OBVIOUS
<1>1. /\ neSent \subseteq Cpdus
      /\ neDelivered \in Seq(Seq(Bytes))
      /\ \A id \in NeIds : Ne!Unused(id) \/ \E m \in neSent : Holds(id, m)
      /\ \A i \in 1 .. Len(neDelivered) : \E m \in neSent : neDelivered[i] = Ne!CpduOf(m)
  BY DEF NeInv
<1>2. \A i \in DOMAIN neDelivered : \E m \in neSent : neDelivered[i] = Ne!CpduOf(m)
  BY <1>1, LenProperties
<1>3. ASSUME NEW id \in NeIds, neEntries[id] # <<>> PROVE TellsBytes(neEntries[id])
  <2>1. PICK m \in neSent : PartOf(neEntries[id], m)
    BY <1>1, <1>3 DEF Ne!Unused, Ne!Nothing, Holds
  <2> QED BY <1>1, <2>1, PartTells
<1>4. \A id \in Ne!Ids : neEntries[id] # Ne!Nothing => TellsBytes(neEntries[id])
  BY <1>3 DEF Ne!Ids, Ne!Nothing, NeIds
<1> QED BY <1>2, <1>4 DEF TellsBytes, Ne!RangesTellBytes, Ne!Nothing
-----------------------------------------------------------------------------
LEMMA StreamsStep == BsInv /\ NeInv /\ [StreamsNext]_streamsVars => (BsInv /\ NeInv)'
<1>1. ASSUME NeInv, UNCHANGED neVars PROVE NeInv'
  BY <1>1 DEF NeInv, neVars, Holds, Ne!Unused
<1>2. NeNext => Ne!Next
  BY DEF NeNext
<1>3. BsNext => UNCHANGED neVars
  BY DEF BsNext
<1>4. ServicesNext => UNCHANGED neVars
  BY DEF ServicesNext, neVars
<1>5. UNCHANGED streamsVars => UNCHANGED neVars
  BY DEF streamsVars
<1>6. StreamsNext => ServicesNext \/ BsNext \/ NeNext
  BY DEF StreamsNext
<1> QED BY <1>1, <1>2, <1>3, <1>4, <1>5, <1>6, NeStep, BsNextInv

(* What the readers of D_PDUs and of packets return does not depend on how *)
(* the stream is cut into pieces: what was returned and what is still to   *)
(* come are the messages of the whole (_drain, split_stream, read).  And in*)
(* whatever order and however often the segments of C_PDUs come, the ranges*)
(* kept tell the bytes that have come, and a C_PDU is delivered as it was  *)
(* enqueued (accept_segment, _merge_ranges).                               *)
THEOREM ChunksAreOne == StreamsSpec => []ChunksDoNotMatter
<1>1. StreamsInit => BsInv /\ NeInv
  BY BsInitInv, NeInitInv
<1>2. BsInv /\ NeInv /\ [StreamsNext]_streamsVars => (BsInv /\ NeInv)'
  BY StreamsStep
<1>3. BsInv /\ NeInv => ChunksDoNotMatter
  BY BsInvImplies, NeInvImplies DEF ChunksDoNotMatter
<1> QED BY <1>1, <1>2, <1>3, PTL DEF StreamsSpec
=============================================================================
