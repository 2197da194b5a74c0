------------------------------ MODULE MCServices ------------------------------
(***************************************************************************)
(* An instance for TLC of Services and Streams, with the components        *)
(* besides them: the data rate change and the codecs.  As there, one of    *)
(* them runs in a behaviour.                                               *)
(***************************************************************************)
EXTENDS Streams, Formats

VARIABLES
  drcState, drcRole, drcRate, drcStarted, drcNet, drcOutcome, drcCalls

drcVars == <<drcState, drcRole, drcRate, drcStarted, drcNet, drcOutcome, drcCalls>>
mcVars == <<streamsVars, drcVars, message>>

Dr == INSTANCE Drc WITH
  Node <- {"a", "b"}, Rates <- {4, 5}, MaxCalls <- 3,
  state <- drcState, role <- drcRole, rate <- drcRate, started <- drcStarted, net <- drcNet,
  outcome <- drcOutcome, calls <- drcCalls
-----------------------------------------------------------------------------
MCInit == StreamsInit /\ Dr!Init /\ CodecsInit

MCStreamsNext == StreamsNext /\ UNCHANGED <<drcVars, message>>
DrNext == Runs("drc") /\ Dr!Next /\ UNCHANGED <<vars, bsVars, neVars, message>>
CoNext == Runs("co") /\ CodecsNext /\ UNCHANGED <<vars, bsVars, neVars, drcVars>>

MCNext == MCStreamsNext \/ DrNext \/ CoNext

MCFairness ==
  /\ Fairness
  /\ \A n \in {"a", "b"} : /\ WF_drcVars(active = "drc" /\ Dr!Timeout(n))
                           /\ WF_drcVars(active = "drc" /\ Dr!Step(n))

MCSpec == MCInit /\ [][MCNext]_mcVars /\ MCFairness
-----------------------------------------------------------------------------
(* The test vector of crc32_s5066 (crc.py).                                *)
ASSUME CrcVector ==
  WireBytes(Crc32(<<240, 0, 0, 71, 5, 100, 2>>), 4) = <<149, 143, 23, 244>>

(* A node asked for a change of rate is free again in the end.             *)
SlaveIsFreed == Dr!SlaveIsFreed
=============================================================================
