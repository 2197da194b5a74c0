----------------------------- MODULE MCCasLink -----------------------------
(***************************************************************************)
(* Instances of CasLink for TLC.                                           *)
(***************************************************************************)
EXTENDS CasLink

CONSTANTS A, B, C, AB, BA, AC   \* nodes, and the calls from A to B, B to A, A to C

MCMaxCalls == [n \in Node |-> [r \in Node |->
  CASE <<n, r>> = <<A, B>> -> AB [] <<n, r>> = <<B, A>> -> BA
    [] <<n, r>> = <<A, C>> -> AC [] OTHER -> 0]]
=============================================================================
