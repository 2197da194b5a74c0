------------------------------- MODULE ArqSeq -------------------------------
(***************************************************************************)
(* Arithmetic on the frame sequence numbers of the ARQ engine: numbers     *)
(* modulo SeqMod (256 in the program), and the slot a number occupies in a *)
(* window of Window slots (128 in the program).                            *)
(***************************************************************************)
EXTENDS Integers

CONSTANTS SeqMod,   \* SEQ_MOD
          Window    \* window_size

(* A window is half of the sequence space at most, so that an old number   *)
(* is never taken for a new one, and divides it, so that the numbers of a  *)
(* window have slots of their own across the wrap.  Both hold of the       *)
(* values the node uses, 256 and 128.                                      *)
ASSUME SeqAssumption ==
  /\ SeqMod \in Nat
  /\ Window \in Nat \ {0}
  /\ 2 * Window <= SeqMod
  /\ SeqMod % Window = 0

Seqs == 0 .. (SeqMod - 1)
Slots == 0 .. (Window - 1)

SeqAdd(q, k) == (q + k) % SeqMod

\* How far ahead of p the number q is.
SeqDist(p, q) == (q - p) % SeqMod

\* Mutant of InWindow: the window is one number too wide.
InWindowWide(q, edge, count) == SeqDist(edge, q) <= count
InWindow(q, edge, count) == SeqDist(edge, q) < count

Slot(q) == q % Window
=============================================================================
