-------------------------------- MODULE Streams -------------------------------
(***************************************************************************)
(* What is taken from pieces, next to Services: the readers that cut a     *)
(* stream of bytes into messages, and the Non-ARQ endpoint that puts       *)
(* C_PDUs together.  As there, one component runs in a behaviour.          *)
(***************************************************************************)
EXTENDS Services

CONSTANTS
  BsKinds, BsMaxPieces,                                    \* ByteStream
  NeIdMod, NeMaxPayload, NeSizes, NeMaxCpdus, NeMaxRepeats \* NonArqEndpoint

VARIABLES
  bsKind, bsStream, bsRest, bsBuf, bsOut,
  neNext, neQueue, neSent, neAir, neEntries, neDelivered, neRepeats

bsVars == <<bsKind, bsStream, bsRest, bsBuf, bsOut>>
neVars == <<neNext, neQueue, neSent, neAir, neEntries, neDelivered, neRepeats>>
streamsVars == <<active, vars, bsVars, neVars>>

Bs == INSTANCE ByteStream WITH
  Kinds <- BsKinds, MaxPieces <- BsMaxPieces,
  kind <- bsKind, stream <- bsStream, rest <- bsRest, buf <- bsBuf, out <- bsOut
Ne == INSTANCE NonArqEndpoint WITH
  IdMod <- NeIdMod, MaxPayload <- NeMaxPayload, Sizes <- NeSizes, MaxCpdus <- NeMaxCpdus,
  MaxRepeats <- NeMaxRepeats,
  nextId <- neNext, queue <- neQueue, sent <- neSent, air <- neAir, entries <- neEntries,
  delivered <- neDelivered, repeats <- neRepeats

(* The reader of S_PRIMITIVEs keeps nothing of a preamble that was cut in  *)
(* two: how its stream is cut does matter.                                 *)
ASSUME ReadersAssumption == BsKinds \subseteq {"dpdu", "packet"}
ASSUME EndpointAssumption ==
  NeIdMod \in Nat \ {0} /\ NeMaxPayload \in Nat \ {0} /\ NeSizes \subseteq Nat /\ NeMaxCpdus \in Nat
-----------------------------------------------------------------------------
StreamsInit == Init /\ Bs!Init /\ Ne!Init

ServicesNext == Next /\ UNCHANGED <<bsVars, neVars>>
BsNext == Runs("bs") /\ Bs!Next /\ UNCHANGED <<vars, neVars>>
NeNext == Runs("ne") /\ Ne!Next /\ UNCHANGED <<vars, bsVars>>

StreamsNext == ServicesNext \/ BsNext \/ NeNext
StreamsSpec == StreamsInit /\ [][StreamsNext]_streamsVars /\ Fairness
-----------------------------------------------------------------------------
(* How a stream is cut into pieces, and how often and in which order the   *)
(* pieces of a C_PDU come, makes no difference to what is taken from them. *)
ChunksDoNotMatter == Bs!ChunksDoNotMatter /\ Ne!RangesTellBytes
=============================================================================
