------------------------------- MODULE Services -------------------------------
(***************************************************************************)
(* Components around the link whose promises rest on the order of their    *)
(* steps: the Data Transfer Sublayer, management messages, data without    *)
(* acknowledgement, the socket server, messages in segments and the 110D   *)
(* modem adapter.  Each is a state machine of its own, on its own          *)
(* variables, and one of them runs in a behaviour.                         *)
(***************************************************************************)
EXTENDS Naturals, Sequences

CONSTANTS
  None,
  DtsNode, DtsMaxResets, DtsMaxInput,                                  \* NodeDts
  MgIdMod, MgMaxRetries, MgCopies, MgMaxMsg, MgMaxAir, MgMaxBoots,     \* Management
  NaTypes, NaIdMod, NaMaxSegments, NaMaxCpdu, NaMaxDamage, NaMode,     \* NonArq
  RsSaps, RsRanks, RsHost, RsReservedSap, RsManagementRank,            \* RawSis
  RsAllowManagement, RsNoRank, RsMaxConnections, RsMaxClients,
  SgIdMod, SgMaxSegments, SgMaxMessages, SgMaxRepeats,                 \* Segments
  TcMaxPackets, TcMaxWindows, TcMaxDrops, TcMaxStarts                  \* Tcp110d

VARIABLES
  active, \* the component that runs
  dtsPc, dtsView, dtsPrev, dtsState, dtsSaved, dtsExp, dtsResets, dtsWarned, dtsMissed, dtsInputs,
  mgQueue, mgNext, mgPending, mgRxId, mgToB, mgToA, mgBoots, mgCount, mgDelivered, mgAcked,
  naQueues, naNext, naAir, naAsm, naDelivered, naCount, naDamages, naMet,
  rsCounter, rsConns, rsClosing, rsRunning, rsBound, rsRank, rsOwner, rsNode, rsCallback,
  rsGranted,
  sgNext, sgSent, sgAir, sgBuffers, sgDelivered, sgRepeats, sgMet,
  tcConnected, tcState, tcQueue, tcWindows, tcStep, tcWindow, tcStarts, tcToModem, tcToNode,
  tcModem, tcDropped, tcRefused, tcDrops

dtsVars == <<dtsPc, dtsView, dtsPrev, dtsState, dtsSaved, dtsExp, dtsResets, dtsWarned, dtsMissed, dtsInputs>>
mgVars == <<mgQueue, mgNext, mgPending, mgRxId, mgToB, mgToA, mgBoots, mgCount, mgDelivered, mgAcked>>
naVars == <<naQueues, naNext, naAir, naAsm, naDelivered, naCount, naDamages, naMet>>
rsVars == <<rsCounter, rsConns, rsClosing, rsRunning, rsBound, rsRank, rsOwner, rsNode, rsCallback,
            rsGranted>>
sgVars == <<sgNext, sgSent, sgAir, sgBuffers, sgDelivered, sgRepeats, sgMet>>
tcVars == <<tcConnected, tcState, tcQueue, tcWindows, tcStep, tcWindow, tcStarts, tcToModem, tcToNode,
            tcModem, tcDropped, tcRefused, tcDrops>>
\* Not active: a step of a component that is not one of these changes it.
vars == <<dtsVars, mgVars, naVars, rsVars, sgVars, tcVars>>

Dts == INSTANCE NodeDts WITH
  Node <- DtsNode, MaxResets <- DtsMaxResets, MaxInput <- DtsMaxInput,
  pc <- dtsPc, view <- dtsView, prevDts <- dtsPrev, dts <- dtsState, saved <- dtsSaved, exp <- dtsExp,
  resets <- dtsResets, warned <- dtsWarned, missed <- dtsMissed, inputs <- dtsInputs
Mg == INSTANCE Management WITH
  IdMod <- MgIdMod, MaxRetries <- MgMaxRetries, Copies <- MgCopies, MaxMsg <- MgMaxMsg,
  MaxAir <- MgMaxAir, MaxBoots <- MgMaxBoots,
  txQueue <- mgQueue, nextId <- mgNext, pending <- mgPending, rxId <- mgRxId, toB <- mgToB, toA <- mgToA,
  boots <- mgBoots, count <- mgCount, delivered <- mgDelivered, acked <- mgAcked
Na == INSTANCE NonArq WITH
  Types <- NaTypes, IdMod <- NaIdMod, MaxSegments <- NaMaxSegments, MaxCpdu <- NaMaxCpdu,
  MaxDamage <- NaMaxDamage, Mode <- NaMode,
  queues <- naQueues, nextId <- naNext, air <- naAir, asm <- naAsm, delivered <- naDelivered,
  count <- naCount, damages <- naDamages, met <- naMet
Rs == INSTANCE RawSis WITH
  Saps <- RsSaps, Ranks <- RsRanks, Host <- RsHost, ReservedSap <- RsReservedSap,
  ManagementRank <- RsManagementRank, AllowManagement <- RsAllowManagement,
  NoRank <- RsNoRank, MaxConnections <- RsMaxConnections, MaxClients <- RsMaxClients,
  counter <- rsCounter, conns <- rsConns, closing <- rsClosing, running <- rsRunning, boundSap <- rsBound,
  rank <- rsRank, owner <- rsOwner, node <- rsNode, callback <- rsCallback, granted <- rsGranted
Sg == INSTANCE Segments WITH
  IdMod <- SgIdMod, MaxSegments <- SgMaxSegments, MaxMessages <- SgMaxMessages,
  MaxRepeats <- SgMaxRepeats,
  nextId <- sgNext, sent <- sgSent, air <- sgAir, buffers <- sgBuffers, delivered <- sgDelivered,
  repeats <- sgRepeats, met <- sgMet
Tc == INSTANCE Tcp110d WITH
  MaxPackets <- TcMaxPackets, MaxWindows <- TcMaxWindows, MaxDrops <- TcMaxDrops, MaxStarts <- TcMaxStarts,
  connected <- tcConnected, txState <- tcState, queue <- tcQueue, windows <- tcWindows, step <- tcStep,
  window <- tcWindow, starts <- tcStarts, toModem <- tcToModem, toNode <- tcToNode, modem <- tcModem,
  dropped <- tcDropped, refused <- tcRefused, drops <- tcDrops

(* None is no state of a link.                                             *)
ASSUME NoneIsNoState == None \notin Dts!CasState
(* Messages are numbered modulo the number of ids.                         *)
ASSUME ManagementAssumption ==
  MgIdMod \in Nat \ {0} /\ MgMaxRetries \in Nat /\ MgCopies \in Nat /\ MgMaxMsg \in Nat /\ MgMaxBoots \in Nat \ {0}
(* None is no C_PDU, no unit and no assembly.                              *)
ASSUME NonArqAssumption ==
  /\ NaIdMod \in Nat \ {0} /\ NaMaxSegments \in Nat /\ NaMaxCpdu \in Nat
  /\ None \notin Na!Unit /\ None \notin Na!Assembly
(* None is no SAP, rank or client, the reserved SAP is one, and a          *)
(* connection has not management rank to begin with.                       *)
ASSUME SisAssumption ==
  /\ None \notin RsSaps /\ None \notin RsRanks /\ None \notin Rs!Clients
  /\ RsNoRank \notin {None, RsManagementRank}
  /\ RsReservedSap \in RsSaps /\ RsMaxClients \in Nat
ASSUME SegmentsAssumption == SgIdMod \in Nat \ {0} /\ SgMaxSegments \in Nat /\ SgMaxMessages \in Nat
ASSUME ModemAssumption == TcMaxPackets \in Nat /\ TcMaxWindows \in Nat
-----------------------------------------------------------------------------
Init == active = "none" /\ Dts!Init /\ Mg!Init /\ Na!Init /\ Rs!Init /\ Sg!Init /\ Tc!Init

Runs(component) == active \in {"none", component} /\ active' = component

DtsNext == Runs("dts") /\ Dts!Next /\ UNCHANGED <<mgVars, naVars, rsVars, sgVars, tcVars>>
MgNext == Runs("mg") /\ Mg!Next /\ UNCHANGED <<dtsVars, naVars, rsVars, sgVars, tcVars>>
NaNext == Runs("na") /\ Na!Next /\ UNCHANGED <<dtsVars, mgVars, rsVars, sgVars, tcVars>>
RsNext == Runs("rs") /\ Rs!Next /\ UNCHANGED <<dtsVars, mgVars, naVars, sgVars, tcVars>>
SgNext == Runs("sg") /\ Sg!Next /\ UNCHANGED <<dtsVars, mgVars, naVars, rsVars, tcVars>>
TcNext == Runs("tc") /\ Tc!Next /\ UNCHANGED <<dtsVars, mgVars, naVars, rsVars, sgVars>>

Next == DtsNext \/ MgNext \/ NaNext \/ RsNext \/ SgNext \/ TcNext

(* The fairness of the component that runs, of no other.                   *)
Fairness ==
  /\ WF_dtsVars(active = "dts" /\ (Dts!DtsCas \/ Dts!CasTick \/ Dts!AppDone))
  /\ WF_dtsVars(active = "dts" /\ (Dts!TxReset \/ Dts!TxNonArq \/ Dts!TxExpedited \/ Dts!TxRegular))
  /\ SF_dtsVars(active = "dts" /\ Dts!TxRegular /\ ~dtsExp')
  /\ \A i \in Na!Ids : WF_naVars(active = "na" /\ Na!Expire(i))

Spec == Init /\ [][Next]_vars /\ Fairness
-----------------------------------------------------------------------------
(* The Data Transfer Sublayer takes D_PDUs of a link while it has one.     *)
ConnectedWhileMade == Dts!ConnectedWhileMade
(* An expedited exchange ends, and regular data are taken again.           *)
ExpeditedEnds == Dts!ExpeditedEnds
(* A management message is delivered once, and before it is acknowledged.  *)
ManagedOnce == Mg!ManagedOnce
(* A C_PDU delivered as complete is one that was sent, unless numbers come *)
(* round too soon.                                                         *)
CompleteIsOneCpdu == Na!CompleteIsOneCpdu
(* What stays of a C_PDU that was cut short is dropped in the end.         *)
PartsAreDropped == Na!PartsAreDropped
(* What comes for a SAP goes to the one client that is bound to it.        *)
OneOwner == Rs!OneOwner
(* A client that was accepted is known to the node, with its rank, unless  *)
(* the node refused it.                                                    *)
AcceptedIsServed == Rs!AcceptedIsServed
(* An application is given whole messages, unless identifiers come round   *)
(* too soon.                                                               *)
OnlyWholeMessages == Sg!OnlyWholeMessages
(* The last missing segment completes a message.                           *)
LastCompletes == Sg!LastCompletes
(* The modem refuses packets of windows only that it gave up itself.       *)
PacketsAreTaken == Tc!PacketsAreTaken
=============================================================================
