----------------------------- MODULE MCArqLink -----------------------------
(***************************************************************************)
(* Instances of ArqLink for TLC.                                           *)
(***************************************************************************)
EXTENDS ArqLink

CONSTANTS LoadA, LoadB   \* C_PDUs submitted at A and at B

MCMaxSubmit == [n \in Node |-> IF n = A THEN LoadA ELSE LoadB]
=============================================================================
