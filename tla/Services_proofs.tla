--------------------------- MODULE Services_proofs ----------------------------
(***************************************************************************)
(* Proofs about the components of Services, each by an invariant of its    *)
(* own variables; the steps of the others leave these alone.               *)
(***************************************************************************)
EXTENDS Services, FiniteSetTheorems, TLAPS

-----------------------------------------------------------------------------
(***************************************************************************)
(* The Data Transfer Sublayer: it is connected exactly while the node has  *)
(* seen its link made.                                                     *)
(***************************************************************************)
USE NoneIsNoState

(* The states the poll and the state machine range over.                   *)
DtsStateType ==
  /\ dtsState \in Dts!DTSState /\ dtsSaved \in Dts!DTSState \cup {None}
  /\ dtsMissed \in BOOLEAN

(* A link that was up at the first poll is seen as made ever after: the    *)
(* exception in ConnectedWhileMade ends with the link.                     *)
DtsMissedWhileMade == dtsMissed => dtsPrev = "MADE"

(* The state an expedited or a management exchange returns to is one of    *)
(* the present link.  In a data state an old one may be left, which the    *)
(* next exchange overwrites.                                               *)
DtsReturnsToThisLink == dtsSaved # None => dtsState.mode = "DATA" \/ dtsSaved.up = dtsState.up

DtsIInv == DtsStateType /\ DtsMissedWhileMade /\ DtsReturnsToThisLink /\ Dts!ConnectedWhileMade

-----------------------------------------------------------------------------
(* The operators of the state machine.                                     *)
LEMMA DtsLinkMadeState == Dts!LinkMade \in Dts!DTSState /\ Dts!LinkMade.up = TRUE /\ Dts!LinkMade.mode = "DATA"
  BY DEF Dts!DTSState, Dts!LinkMade

LEMMA DtsEnterDataKeeps ==
  ASSUME NEW d \in Dts!DTSState
  PROVE  /\ Dts!EnterData(d) \in Dts!DTSState /\ Dts!EnterData(d).up = d.up
         /\ d.mode = "DATA" => Dts!EnterData(d) = d
<1>1. CASE d = [up |-> TRUE, mode |-> "IDLE"]
  <2>1. Dts!EnterData(d) = Dts!LinkMade /\ d.up = TRUE /\ d.mode = "IDLE"
    BY <1>1 DEF Dts!EnterData
  <2> QED BY <2>1, DtsLinkMadeState
<1>2. CASE d # [up |-> TRUE, mode |-> "IDLE"]
  BY <1>2 DEF Dts!EnterData
<1> QED BY <1>1, <1>2

(* What one exchange may do to the state: the link stays, and the state to *)
(* return to is one of it.                                                 *)
DtsKept(d, s, m) ==
  /\ m.state \in Dts!DTSState /\ m.saved \in Dts!DTSState \cup {None}
  /\ m.state.up = d.up
  /\ m.saved # None => m.state.mode = "DATA" \/ m.saved.up = m.state.up

LEMMA DtsEnterKeeps ==
  ASSUME NEW d \in Dts!DTSState, NEW s \in Dts!DTSState \cup {None},
         s # None => d.mode = "DATA" \/ s.up = d.up,
         NEW mode \in {"EXPEDITED", "MANAGEMENT"}
  PROVE  /\ DtsKept(d, s, Dts!Enter(d, s, mode))
         /\ Dts!Enter(d, s, mode).state.mode = mode
BY DEF DtsKept, Dts!Enter, Dts!DTSState

LEMMA DtsExitKeeps ==
  ASSUME NEW m, NEW d, NEW s, DtsKept(d, s, m), m.state.mode # "DATA"
  PROVE  DtsKept(d, s, Dts!Exit(m.state, m.saved))
BY DEF DtsKept, Dts!Exit, Dts!DTSState

LEMMA DtsBecomesKept ==
  ASSUME DtsIInv, NEW m, DtsKept(dtsState, dtsSaved, m), Dts!Becomes(m), UNCHANGED <<dtsPrev, dtsMissed>>
  PROVE  DtsIInv'
BY DEF DtsIInv, DtsStateType, DtsMissedWhileMade, DtsReturnsToThisLink, Dts!ConnectedWhileMade, DtsKept, Dts!Becomes

LEMMA DtsSameKept ==
  ASSUME DtsIInv, Dts!SameDts, UNCHANGED <<dtsPrev, dtsMissed>>
  PROVE  DtsIInv'
BY DEF DtsIInv, DtsStateType, DtsMissedWhileMade, DtsReturnsToThisLink, Dts!ConnectedWhileMade, Dts!SameDts

-----------------------------------------------------------------------------
(* A node that is not connected has nothing to lose to a link that is      *)
(* made, and one that is has: the three cases of the poll.                 *)
LEMMA DtsDtsCasStep == ASSUME DtsIInv, Dts!DtsCas PROVE DtsIInv'
<1>1. CASE dtsView.state = "MADE" /\ dtsPrev \notin {None, "MADE"}
  <2>1. dtsState' = Dts!LinkMade /\ dtsSaved' = dtsSaved /\ dtsPrev' = "MADE"
    BY <1>1 DEF Dts!DtsCas
  <2>2. dtsMissed' = FALSE
    BY <1>1 DEF Dts!DtsCas, DtsIInv, DtsMissedWhileMade, DtsStateType
  <2> QED BY <2>1, <2>2, DtsLinkMadeState
          DEF DtsIInv, DtsStateType, DtsMissedWhileMade, DtsReturnsToThisLink, Dts!ConnectedWhileMade
<1>2. CASE dtsPrev = "MADE" /\ dtsView.state # "MADE"
  <2>1. dtsState' = [up |-> FALSE, mode |-> "IDLE"] /\ dtsSaved' = None
    BY <1>2 DEF Dts!DtsCas, Dts!Becomes, Dts!LinkBroken
  <2>2. dtsPrev' # "MADE" /\ dtsMissed' = FALSE
    BY <1>2 DEF Dts!DtsCas
  <2>3. dtsState' \in Dts!DTSState /\ dtsState'.up = FALSE
    BY <2>1 DEF Dts!DTSState
  <2> QED BY <2>1, <2>2, <2>3
          DEF DtsIInv, DtsStateType, DtsMissedWhileMade, DtsReturnsToThisLink, Dts!ConnectedWhileMade
<1>3. CASE dtsView.state = "MADE" /\ dtsPrev \in {None, "MADE"}
  <2>1. Dts!SameDts /\ dtsPrev' = "MADE"
    BY <1>3 DEF Dts!DtsCas
  <2>2. dtsMissed' = (dtsMissed \/ dtsPrev = None)
    BY <1>3 DEF Dts!DtsCas
  <2>3. CASE dtsPrev = None
    <3>1. dtsState.up = FALSE /\ dtsMissed' = TRUE
      BY <2>2, <2>3 DEF DtsIInv, DtsStateType, Dts!DTSState, Dts!ConnectedWhileMade, Dts!CasState
    <3> QED BY <2>1, <3>1
            DEF DtsIInv, DtsStateType, DtsMissedWhileMade, DtsReturnsToThisLink, Dts!ConnectedWhileMade, Dts!SameDts
  <2>4. CASE dtsPrev # None
    <3>1. dtsPrev = "MADE" /\ dtsMissed' = dtsMissed
      BY <1>3, <2>2, <2>4 DEF DtsIInv, DtsStateType
    <3> QED BY <2>1, <3>1, DtsSameKept
  <2> QED BY <2>3, <2>4
<1>4. CASE dtsView.state # "MADE" /\ dtsPrev # "MADE"
  <2>1. Dts!SameDts /\ dtsPrev' # "MADE" /\ dtsMissed' = FALSE
    BY <1>4 DEF Dts!DtsCas
  <2>2. dtsState.up = FALSE
    BY <1>4 DEF DtsIInv, DtsStateType, Dts!DTSState, Dts!ConnectedWhileMade
  <2> QED BY <2>1, <2>2
          DEF DtsIInv, DtsStateType, DtsMissedWhileMade, DtsReturnsToThisLink, Dts!ConnectedWhileMade, Dts!SameDts
<1> QED BY <1>1, <1>2, <1>3, <1>4

(* A FULL RESET is taken on a link only, and leaves it up.                 *)
LEMMA DtsRxFullResetStep == ASSUME DtsIInv, Dts!RxFullReset PROVE DtsIInv'
<1>1. dtsState.up = TRUE
  BY DEF Dts!RxFullReset, Dts!Takes, Dts!Allowed, DtsIInv, DtsStateType, Dts!DTSState
<1>2. dtsState' = Dts!LinkMade /\ UNCHANGED <<dtsSaved, dtsPrev, dtsMissed>>
  BY DEF Dts!RxFullReset, Dts!Takes, Dts!Rx
<1> QED BY <1>1, <1>2, DtsLinkMadeState
        DEF DtsIInv, DtsStateType, DtsMissedWhileMade, DtsReturnsToThisLink, Dts!ConnectedWhileMade

LEMMA DtsPresent == ASSUME DtsIInv PROVE DtsKept(dtsState, dtsSaved, [state |-> dtsState, saved |-> dtsSaved])
BY DEF DtsIInv, DtsStateType, DtsReturnsToThisLink, DtsKept

LEMMA DtsEnteredFrom ==
  ASSUME DtsIInv, NEW mode \in {"EXPEDITED", "MANAGEMENT"}
  PROVE  /\ DtsKept(dtsState, dtsSaved, Dts!Enter(dtsState, dtsSaved, mode))
         /\ Dts!Enter(dtsState, dtsSaved, mode).state.mode = mode
BY DtsEnterKeeps DEF DtsIInv, DtsStateType, DtsReturnsToThisLink

LEMMA DtsRxExpeditedStep == ASSUME DtsIInv, NEW type, Dts!RxExpedited(type) PROVE DtsIInv'
<1> DEFINE m == Dts!Enter(dtsState, dtsSaved, "EXPEDITED")
<1>1. UNCHANGED <<dtsPrev, dtsMissed>>
  BY DEF Dts!RxExpedited, Dts!Takes, Dts!Rx
<1>2. DtsKept(dtsState, dtsSaved, m) /\ m.state.mode = "EXPEDITED"
  BY DtsEnteredFrom
<1>3. DtsKept(dtsState, dtsSaved, Dts!Exit(m.state, m.saved))
  BY <1>2, DtsExitKeeps
<1>4. Dts!Becomes(m) \/ Dts!Becomes(Dts!Exit(m.state, m.saved))
  BY DEF Dts!RxExpedited
<1> QED BY <1>1, <1>2, <1>3, <1>4, DtsBecomesKept

LEMMA DtsRxManagementStep == ASSUME DtsIInv, Dts!RxManagement PROVE DtsIInv'
<1> DEFINE m == Dts!Enter(dtsState, dtsSaved, "MANAGEMENT")
<1>1. UNCHANGED <<dtsPrev, dtsMissed>> /\ Dts!Becomes(Dts!Exit(m.state, m.saved))
  BY DEF Dts!RxManagement, Dts!Takes, Dts!Rx
<1>2. DtsKept(dtsState, dtsSaved, m) /\ m.state.mode = "MANAGEMENT"
  BY DtsEnteredFrom
<1>3. DtsKept(dtsState, dtsSaved, Dts!Exit(m.state, m.saved))
  BY <1>2, DtsExitKeeps
<1> QED BY <1>1, <1>3, DtsBecomesKept

LEMMA DtsEnteredKept == ASSUME DtsIInv PROVE DtsKept(dtsState, dtsSaved, Dts!Entered)
BY DtsPresent, DtsEnteredFrom DEF Dts!Entered

LEMMA DtsTxExpeditedStep == ASSUME DtsIInv, Dts!TxExpedited PROVE DtsIInv'
<1>1. UNCHANGED <<dtsPrev, dtsMissed>> /\ Dts!Becomes(Dts!Entered)
  BY DEF Dts!TxExpedited, Dts!Transmits
<1> QED BY <1>1, DtsEnteredKept, DtsBecomesKept

LEMMA DtsTxRegularStep == ASSUME DtsIInv, Dts!TxRegular PROVE DtsIInv'
<1> DEFINE m == Dts!AfterExpedited(Dts!Entered, dtsExp')
<1>1. UNCHANGED <<dtsPrev, dtsMissed>> /\ Dts!Becomes(m)
  BY DEF Dts!TxRegular, Dts!Transmits
<1>2. DtsKept(dtsState, dtsSaved, m)
  <2>1. CASE Dts!Entered.state.mode = "EXPEDITED" /\ ~dtsExp'
    BY <2>1, DtsEnteredKept, DtsExitKeeps DEF Dts!AfterExpedited
  <2>2. CASE ~(Dts!Entered.state.mode = "EXPEDITED" /\ ~dtsExp')
    BY <2>2, DtsEnteredKept DEF Dts!AfterExpedited
  <2> QED BY <2>1, <2>2
<1> QED BY <1>1, <1>2, DtsBecomesKept

LEMMA DtsSendControlStep == ASSUME DtsIInv, Dts!SendControl PROVE DtsIInv'
<1>1. UNCHANGED <<dtsPrev, dtsMissed>> /\ Dts!Becomes(Dts!Enter(dtsState, dtsSaved, "EXPEDITED"))
  BY DEF Dts!SendControl, Dts!Call
<1> QED BY <1>1, DtsEnteredFrom, DtsBecomesKept

LEMMA DtsSendDataStep == ASSUME DtsIInv, Dts!SendData PROVE DtsIInv'
<1>1. dtsState' = Dts!EnterData(dtsState) /\ UNCHANGED <<dtsSaved, dtsPrev, dtsMissed>>
  BY DEF Dts!SendData, Dts!Call
<1>2. /\ dtsState' \in Dts!DTSState /\ dtsState'.up = dtsState.up
      /\ dtsState.mode = "DATA" => dtsState' = dtsState
  BY <1>1, DtsEnterDataKeeps DEF DtsIInv, DtsStateType
<1> QED BY <1>1, <1>2
        DEF DtsIInv, DtsStateType, DtsMissedWhileMade, DtsReturnsToThisLink, Dts!ConnectedWhileMade

(* The steps that leave the state machine alone.                           *)
LEMMA DtsQuietStep ==
  ASSUME DtsIInv,
         \/ \E type \in Dts!DpduType : Dts!RxRefused(type) \/ Dts!RxNotOurs(type) \/ Dts!RxWithoutLink(type)
         \/ Dts!RxNonArq \/ Dts!RxOtherReset \/ Dts!RxData \/ Dts!CasTick \/ Dts!TxReset \/ Dts!TxNonArq
         \/ Dts!SubmitExpedited \/ Dts!ChangeLink \/ Dts!AppDone
  PROVE  DtsIInv'
<1>1. CASE \E type \in Dts!DpduType : Dts!RxRefused(type) \/ Dts!RxNotOurs(type) \/ Dts!RxWithoutLink(type)
  BY <1>1, DtsSameKept DEF Dts!RxRefused, Dts!RxNotOurs, Dts!RxWithoutLink, Dts!Takes, Dts!Rx
<1>2. CASE Dts!RxNonArq \/ Dts!RxOtherReset \/ Dts!RxData
  BY <1>2, DtsSameKept DEF Dts!RxNonArq, Dts!RxOtherReset, Dts!RxData, Dts!Takes, Dts!Rx
<1>3. CASE Dts!CasTick \/ Dts!TxReset \/ Dts!TxNonArq
  BY <1>3, DtsSameKept DEF Dts!CasTick, Dts!TxReset, Dts!TxNonArq, Dts!Transmits
<1>4. CASE Dts!SubmitExpedited \/ Dts!ChangeLink \/ Dts!AppDone
  BY <1>4, DtsSameKept DEF Dts!SubmitExpedited, Dts!ChangeLink, Dts!AppDone, Dts!Call
<1> QED BY <1>1, <1>2, <1>3, <1>4

-----------------------------------------------------------------------------
LEMMA DtsInitCorrect == ASSUME Dts!Init PROVE DtsIInv
<1>1. dtsState \in Dts!DTSState /\ dtsState.up = FALSE /\ dtsSaved = None /\ dtsMissed = FALSE
  BY DEF Dts!Init, Dts!DTSState
<1>2. dtsPrev # "MADE"
  BY DEF Dts!Init, Dts!CasState
<1> QED BY <1>1, <1>2
        DEF DtsIInv, DtsStateType, DtsMissedWhileMade, DtsReturnsToThisLink, Dts!ConnectedWhileMade

LEMMA DtsNextCorrect == ASSUME DtsIInv, [Dts!Next]_dtsVars PROVE DtsIInv'
<1>1. CASE Dts!Next
  BY <1>1, DtsDtsCasStep, DtsRxFullResetStep, DtsRxExpeditedStep, DtsRxManagementStep, DtsTxExpeditedStep,
     DtsTxRegularStep, DtsSendControlStep, DtsSendDataStep, DtsQuietStep DEF Dts!Next
<1>2. CASE UNCHANGED dtsVars
  BY <1>2, DtsSameKept DEF dtsVars, Dts!SameDts
<1> QED BY <1>1, <1>2

(* The invariant of the sublayer's proof holds of every behaviour.         *)
THEOREM DtsInvariantHolds == Spec => []DtsIInv
<1>1. Init => DtsIInv
  BY DtsInitCorrect DEF Init
<1>2. DtsIInv /\ [Next]_vars => DtsIInv'
  <2> SUFFICES ASSUME DtsIInv, [Next]_vars PROVE DtsIInv'
    OBVIOUS
  <2>1. [Dts!Next]_dtsVars
    BY DEF Next, vars, DtsNext, MgNext, NaNext, RsNext, SgNext, TcNext
  <2> QED BY <2>1, DtsNextCorrect
<1> QED BY <1>1, <1>2, PTL DEF Spec

(* Whatever frames come in, and however often the link is made, broken and *)
(* made again between two polls, the node takes D_PDUs of a link while it  *)
(* has seen one made, and only then (_dts_cas_transitions, on_link_made,   *)
(* on_link_broken, exit_expedited, exit_management, process_rx_reset).     *)
THEOREM ConnectedHolds == Spec => []ConnectedWhileMade
<1>1. DtsIInv => ConnectedWhileMade
  BY DEF DtsIInv, ConnectedWhileMade
<1> QED BY <1>1, DtsInvariantHolds, PTL

HIDE NoneIsNoState
-----------------------------------------------------------------------------
(***************************************************************************)
(* The socket server: a client has its SAP to itself, and the node knows   *)
(* it.                                                                     *)
(***************************************************************************)
USE SisAssumption

RsTables ==
  /\ rsCounter \in Nat /\ rsConns \cup rsClosing \subseteq 1 .. rsCounter /\ rsCounter <= RsMaxClients
  /\ rsBound \in [Rs!Clients -> RsSaps \cup {None}]
  /\ rsRank \in [Rs!Clients -> RsRanks \cup {RsNoRank}]
  /\ rsOwner \in [RsSaps -> Rs!Clients \cup {None}]
  /\ rsNode \in [RsSaps -> RsRanks \cup {None}]
  /\ rsGranted \in [Rs!Clients -> Rs!Grants \cup {None}]

(* A connection that is made anew has no SAP and no rank, and none is      *)
(* served once the server has stopped: the tasks that end later find       *)
(* nobody's SAP to take.                                                   *)
RsFreshIsUnbound == \A c \in Rs!Clients : c > rsCounter => rsBound[c] = None /\ rsRank[c] = RsNoRank
RsStoppedIsEmpty == IF rsRunning THEN rsClosing = {} ELSE rsConns = {}

(* OneOwner, of the table alone.                                           *)
RsOwned == \A c \in rsConns : rsBound[c] # None => rsOwner[rsBound[c]] = c

(* AcceptedIsServed in parts: a SAP the node made for a client, one it had *)
(* already, and the rank of management.                                    *)
RsRanked == \A c \in rsConns : rsBound[c] # None /\ rsGranted[c] = "node" => rsNode[rsBound[c]] = rsRank[c]
RsKept == \A c \in rsConns : rsBound[c] # None /\ rsGranted[c] = "existing" => rsNode[rsBound[c]] # None
RsManaged ==
  \A c \in rsConns : Rs!MayManage(c) => RsAllowManagement \/ rsGranted[c] \in {"existing", "callback"}

RsIInv == RsTables /\ RsFreshIsUnbound /\ RsStoppedIsEmpty /\ RsOwned /\ RsRanked /\ RsKept /\ RsManaged
-----------------------------------------------------------------------------
LEMMA RsKnown == ASSUME RsTables PROVE rsConns \cup rsClosing \subseteq Rs!Clients
BY DEF RsTables, Rs!Clients

LEMMA RsInitCorrect == ASSUME Rs!Init PROVE RsIInv
<1>1. RsTables
  BY DEF Rs!Init, RsTables, Rs!Clients
<1>2. RsFreshIsUnbound /\ RsStoppedIsEmpty
  BY DEF Rs!Init, RsFreshIsUnbound, RsStoppedIsEmpty
<1>3. RsOwned /\ RsRanked /\ RsKept /\ RsManaged
  BY DEF Rs!Init, RsOwned, RsRanked, RsKept, RsManaged
<1> QED BY <1>1, <1>2, <1>3 DEF RsIInv

LEMMA RsConnectStep == ASSUME RsIInv, Rs!Connect PROVE RsIInv'
<1>1. RsTables'
  BY DEF RsIInv, RsTables, RsStoppedIsEmpty, Rs!Connect, Rs!Clients
<1>2. RsFreshIsUnbound' /\ RsStoppedIsEmpty'
  BY DEF RsIInv, RsTables, RsFreshIsUnbound, RsStoppedIsEmpty, Rs!Connect, Rs!Clients
<1>3. rsCounter + 1 \in Rs!Clients /\ rsBound[rsCounter + 1] = None /\ rsRank[rsCounter + 1] = RsNoRank
  BY DEF RsIInv, RsTables, RsFreshIsUnbound, Rs!Connect, Rs!Clients
<1>4. RsOwned' /\ RsRanked' /\ RsKept'
  BY <1>3 DEF RsIInv, RsOwned, RsRanked, RsKept, Rs!Connect
<1>5. RsManaged'
  BY <1>3 DEF RsIInv, RsManaged, Rs!MayManage, Rs!Connect
<1> QED BY <1>1, <1>2, <1>4, <1>5 DEF RsIInv

LEMMA RsStopStep == ASSUME RsIInv, Rs!Stop PROVE RsIInv'
<1>1. RsTables'
  BY DEF RsIInv, RsTables, Rs!Stop
<1>2. RsFreshIsUnbound' /\ RsStoppedIsEmpty'
  BY DEF RsIInv, RsFreshIsUnbound, RsStoppedIsEmpty, Rs!Stop
<1>3. RsOwned' /\ RsRanked' /\ RsKept' /\ RsManaged'
  BY DEF RsOwned, RsRanked, RsKept, RsManaged, Rs!Stop
<1> QED BY <1>1, <1>2, <1>3 DEF RsIInv

LEMMA RsHostBindStep ==
  ASSUME RsIInv, NEW s \in RsSaps, NEW r \in RsRanks, Rs!HostBind(s, r)
  PROVE  RsIInv'
<1>1. /\ rsNode' = [rsNode EXCEPT ![s] = r] /\ rsNode[s] = None
      /\ UNCHANGED <<rsCounter, rsConns, rsClosing, rsRunning, rsBound, rsRank, rsOwner, rsGranted>>
  BY DEF Rs!HostBind, Rs!NodeBinds
<1>2. RsTables'
  BY <1>1 DEF RsIInv, RsTables
<1>3. RsFreshIsUnbound' /\ RsStoppedIsEmpty' /\ RsOwned' /\ RsManaged'
  BY <1>1 DEF RsIInv, RsFreshIsUnbound, RsStoppedIsEmpty, RsOwned, RsManaged, Rs!MayManage
<1>4. \A t \in RsSaps : rsNode[t] # None => rsNode'[t] = rsNode[t]
  BY <1>1 DEF RsIInv, RsTables
<1>5. \A c \in rsConns : rsBound[c] \in RsSaps \cup {None} /\ rsRank[c] # None
  BY RsKnown DEF RsIInv, RsTables
<1>6. RsRanked' /\ RsKept'
  BY <1>1, <1>4, <1>5 DEF RsIInv, RsRanked, RsKept
<1> QED BY <1>2, <1>3, <1>6 DEF RsIInv

LEMMA RsBindStep ==
  ASSUME RsIInv, NEW c \in Rs!Clients, NEW s \in RsSaps, NEW r \in RsRanks, Rs!Bind(c, s, r)
  PROVE  RsIInv'
<1>1. /\ rsBound' = [rsBound EXCEPT ![c] = s] /\ rsOwner' = [rsOwner EXCEPT ![s] = c]
      /\ rsRank' = [rsRank EXCEPT ![c] = r]
      /\ rsNode' = [rsNode EXCEPT ![s] = IF Rs!Grant(s, r) = "node" THEN r ELSE rsNode[s]]
      /\ rsGranted' = [rsGranted EXCEPT ![c] = Rs!Grant(s, r)]
      /\ UNCHANGED <<rsCounter, rsConns, rsClosing, rsRunning>>
      /\ c \in rsConns \cup rsClosing /\ rsOwner[s] = None
  BY DEF Rs!Bind, Rs!AlreadyBound
<1>2. /\ Rs!Grant(s, r) \in Rs!Grants
      /\ Rs!Grant(s, r) = "node" => (r = RsManagementRank => RsAllowManagement)
      /\ Rs!Grant(s, r) = "existing" => rsNode[s] # None
  BY DEF Rs!Bind, Rs!Grant, Rs!Grants, Rs!NodeBinds
<1>3. RsTables'
  BY <1>1, <1>2 DEF RsIInv, RsTables
<1>4. RsFreshIsUnbound' /\ RsStoppedIsEmpty'
  BY <1>1 DEF RsIInv, RsTables, RsFreshIsUnbound, RsStoppedIsEmpty, Rs!Clients
<1>5. \A d \in rsConns : d # c /\ rsBound[d] # None => rsBound[d] # s /\ rsBound[d] \in RsSaps
  BY <1>1 DEF RsIInv, RsTables, RsOwned, Rs!Clients
<1>6. RsOwned'
  BY <1>1, <1>5 DEF RsIInv, RsTables, RsOwned, Rs!Clients
<1>7. /\ rsBound'[c] = s /\ rsRank'[c] = r /\ rsGranted'[c] = Rs!Grant(s, r)
      /\ rsNode'[s] = IF Rs!Grant(s, r) = "node" THEN r ELSE rsNode[s]
  BY <1>1 DEF RsIInv, RsTables
<1>8. \A d \in rsConns : d # c =>
        /\ rsBound'[d] = rsBound[d] /\ rsRank'[d] = rsRank[d] /\ rsGranted'[d] = rsGranted[d]
        /\ rsBound[d] # None => rsNode'[rsBound[d]] = rsNode[rsBound[d]]
  BY <1>1, <1>5, RsKnown DEF RsIInv, RsTables
<1>9. RsRanked' /\ RsKept'
  <2> SUFFICES ASSUME NEW d \in rsConns, rsBound'[d] # None
               PROVE  /\ rsGranted'[d] = "node" => rsNode'[rsBound'[d]] = rsRank'[d]
                      /\ rsGranted'[d] = "existing" => rsNode'[rsBound'[d]] # None
    BY <1>1 DEF RsRanked, RsKept
  <2>1. CASE d = c
    BY <1>2, <1>7, <2>1
  <2>2. CASE d # c
    BY <1>8, <2>2 DEF RsIInv, RsRanked, RsKept
  <2> QED BY <2>1, <2>2
<1>10. RsManaged'
  <2> SUFFICES ASSUME NEW d \in rsConns, rsRank'[d] = RsManagementRank
               PROVE  RsAllowManagement \/ rsGranted'[d] \in {"existing", "callback"}
    BY <1>1 DEF RsManaged, Rs!MayManage
  <2>1. CASE d = c
    BY <1>2, <1>7, <2>1 DEF Rs!Grants
  <2>2. CASE d # c
    BY <1>8, <2>2 DEF RsIInv, RsManaged, Rs!MayManage
  <2> QED BY <2>1, <2>2
<1> QED BY <1>3, <1>4, <1>6, <1>9, <1>10 DEF RsIInv

LEMMA RsUnbindStep == ASSUME RsIInv, NEW c \in Rs!Clients, Rs!Unbind(c) PROVE RsIInv'
<1>1. /\ rsBound' = [rsBound EXCEPT ![c] = None] /\ rsOwner' = [rsOwner EXCEPT ![rsBound[c]] = None]
      /\ UNCHANGED <<rsCounter, rsConns, rsClosing, rsRunning, rsRank, rsNode, rsGranted>>
      /\ c \in rsConns \cup rsClosing /\ rsBound[c] # None
  BY DEF Rs!Unbind, Rs!Forget
<1>2. RsTables'
  BY <1>1 DEF RsIInv, RsTables
<1>3. RsFreshIsUnbound' /\ RsStoppedIsEmpty'
  BY <1>1 DEF RsIInv, RsTables, RsFreshIsUnbound, RsStoppedIsEmpty
<1>4. RsOwned'
  <2>1. CASE c \in rsConns
    BY <1>1, <2>1 DEF RsIInv, RsTables, RsOwned, Rs!Clients
  <2>2. CASE c \in rsClosing
    BY <1>1, <2>2 DEF RsIInv, RsStoppedIsEmpty, RsOwned
  <2> QED BY <1>1, <2>1, <2>2
<1>5. RsRanked' /\ RsKept' /\ RsManaged'
  BY <1>1 DEF RsIInv, RsTables, RsRanked, RsKept, RsManaged, Rs!MayManage
<1> QED BY <1>2, <1>3, <1>4, <1>5 DEF RsIInv

LEMMA RsDisconnectStep == ASSUME RsIInv, NEW c \in Rs!Clients, Rs!Disconnect(c) PROVE RsIInv'
<1>1. /\ rsBound' = [rsBound EXCEPT ![c] = None] /\ rsRank' = [rsRank EXCEPT ![c] = RsNoRank]
      /\ rsGranted' = [rsGranted EXCEPT ![c] = None]
      /\ rsOwner' = [s \in RsSaps |-> IF s = rsBound[c] THEN None ELSE rsOwner[s]]
      /\ rsNode' = [s \in RsSaps |-> IF s = rsBound[c] THEN None ELSE rsNode[s]]
      /\ rsConns' = rsConns \ {c} /\ rsClosing' = rsClosing \ {c} /\ UNCHANGED <<rsCounter, rsRunning>>
      /\ c \in rsConns \cup rsClosing
  BY DEF Rs!Disconnect
<1>2. RsTables'
  BY <1>1 DEF RsIInv, RsTables
<1>3. RsFreshIsUnbound' /\ RsStoppedIsEmpty'
  BY <1>1 DEF RsIInv, RsTables, RsFreshIsUnbound, RsStoppedIsEmpty
<1>4. \A d \in rsConns' : /\ rsBound'[d] = rsBound[d] /\ d \in rsConns
                          /\ rsRank'[d] = rsRank[d] /\ rsGranted'[d] = rsGranted[d]
                          /\ rsBound[d] # None => rsBound[d] \in RsSaps /\ rsBound[d] # rsBound[c]
  <2>1. CASE c \in rsConns
    <3>1. \A d \in rsConns : rsBound[d] # None => rsBound[d] \in RsSaps /\ rsOwner[rsBound[d]] = d
      BY RsKnown DEF RsIInv, RsTables, RsOwned
    <3> QED BY <1>1, <2>1, <3>1, RsKnown DEF RsIInv, RsTables
  <2>2. CASE c \in rsClosing
    BY <1>1, <2>2 DEF RsIInv, RsStoppedIsEmpty
  <2> QED BY <1>1, <2>1, <2>2
<1>5. RsOwned' /\ RsRanked' /\ RsKept'
  BY <1>1, <1>4 DEF RsIInv, RsOwned, RsRanked, RsKept
<1>6. RsManaged'
  BY <1>4 DEF RsIInv, RsManaged, Rs!MayManage
<1> QED BY <1>2, <1>3, <1>5, <1>6 DEF RsIInv

LEMMA RsSameStep ==
  ASSUME RsIInv,
         UNCHANGED <<rsCounter, rsConns, rsClosing, rsRunning, rsBound, rsRank, rsOwner, rsNode, rsGranted>>
  PROVE  RsIInv'
BY DEF RsIInv, RsTables, RsFreshIsUnbound, RsStoppedIsEmpty, RsOwned, RsRanked, RsKept, RsManaged, Rs!MayManage

LEMMA RsNextCorrect == ASSUME RsIInv, [Rs!Next]_rsVars PROVE RsIInv'
<1>1. CASE Rs!Connect \/ Rs!Stop \/ Rs!HostRegister
  BY <1>1, RsConnectStep, RsStopStep, RsSameStep DEF Rs!HostRegister
<1>2. CASE \E c \in Rs!Clients : \/ Rs!Unbind(c) \/ Rs!Disconnect(c)
                                 \/ \E s \in RsSaps, r \in RsRanks : Rs!Bind(c, s, r)
  BY <1>2, RsUnbindStep, RsDisconnectStep, RsBindStep
<1>3. CASE \E s \in RsSaps, r \in RsRanks : Rs!HostBind(s, r)
  BY <1>3, RsHostBindStep
<1>4. CASE UNCHANGED rsVars
  BY <1>4, RsSameStep DEF rsVars
<1> QED BY <1>1, <1>2, <1>3, <1>4 DEF Rs!Next

(* The invariant of the server's proof holds of every behaviour.           *)
THEOREM RsInvariantHolds == Spec => []RsIInv
<1>1. Init => RsIInv
  BY RsInitCorrect DEF Init
<1>2. RsIInv /\ [Next]_vars => RsIInv'
  <2> SUFFICES ASSUME RsIInv, [Next]_vars PROVE RsIInv'
    OBVIOUS
  <2>1. [Rs!Next]_rsVars
    BY DEF Next, vars, DtsNext, MgNext, NaNext, RsNext, SgNext, TcNext
  <2> QED BY <2>1, RsNextCorrect
<1> QED BY <1>1, <1>2, PTL DEF Spec

(* What comes for a SAP goes to the one client that is bound to it,        *)
(* however clients and the host bind, unbind, rebind and leave, and also   *)
(* while the server stops (_handle_bind_request, _handle_unbind_request,   *)
(* _cleanup_client, _conn_for_sap).                                        *)
THEOREM OwnersAreUnique == Spec => []OneOwner
<1>1. RsIInv => OneOwner
  BY DEF RsIInv, RsOwned, OneOwner, Rs!OneOwner, Rs!Recipient
<1> QED BY <1>1, RsInvariantHolds, PTL

(* A client the node made a SAP for finds it there, with the rank its      *)
(* management messages are checked against, and one that was let in on a   *)
(* SAP the node had finds that, until it unbinds or leaves.  Where the node*)
(* does not allow management, only a client that was accepted although the *)
(* node refused it passes for its manager (_handle_bind_request,           *)
(* StanagNode.bind, _cleanup_client, _handle_management_msg).              *)
THEOREM AcceptedAreServed == Spec => []AcceptedIsServed
<1>1. RsIInv => AcceptedIsServed
  BY DEF RsIInv, RsRanked, RsKept, RsManaged, AcceptedIsServed, Rs!AcceptedIsServed
<1> QED BY <1>1, RsInvariantHolds, PTL

HIDE SisAssumption
-----------------------------------------------------------------------------
(***************************************************************************)
(* Management messages: what they are numbered with is enough to tell a    *)
(* repetition from the next message.                                       *)
(***************************************************************************)
MgMessages == [id : Mg!Ids, boot : Nat \ {0}, n : Nat \ {0}]

MgTypes ==
  /\ mgQueue \in Seq(MgMessages) /\ mgToB \in Seq(MgMessages) /\ mgDelivered \in Seq(MgMessages)
  /\ mgPending.msg \in MgMessages \cup {Mg!NoMessage} /\ mgAcked \subseteq MgMessages
  /\ mgToA \in Seq(Mg!Ids) /\ mgNext \in Mg!Ids
  /\ mgBoots \in Nat \ {0} /\ mgCount \in Nat

(* Every message there is.                                                 *)
MgKnown(msg) ==
  \/ \E i \in DOMAIN mgQueue : mgQueue[i] = msg
  \/ mgPending.msg = msg /\ msg # Mg!NoMessage
  \/ \E i \in DOMAIN mgToB : mgToB[i] = msg
  \/ \E i \in DOMAIN mgDelivered : mgDelivered[i] = msg
  \/ msg \in mgAcked

(* The history tells messages from each other, and as long as the sender   *)
(* runs they are numbered in turn.                                         *)
MgNumbered ==
  /\ \A x, y \in MgMessages : MgKnown(x) /\ MgKnown(y) /\ x.n = y.n => x = y
  /\ \A x \in MgMessages : MgKnown(x) => x.n <= mgCount
  /\ \A x \in MgMessages : MgKnown(x) /\ x.boot = 1 => x.id = (x.n - 1) % MgIdMod
  /\ mgBoots = 1 => mgNext = mgCount % MgIdMod
  /\ \A x \in MgMessages : MgKnown(x) => x.boot <= mgBoots

(* Messages move in the order they were sent in, the copies of one behind  *)
(* each other.                                                             *)
MgDeliveredInTurn == \A i, j \in DOMAIN mgDelivered : i < j => mgDelivered[i].n < mgDelivered[j].n
MgAirInTurn == \A i, j \in DOMAIN mgToB : i <= j => mgToB[i].n <= mgToB[j].n
MgQueueInTurn == \A i, j \in DOMAIN mgQueue : i < j => mgQueue[i].n < mgQueue[j].n
MgDeliveredFirst == \A i \in DOMAIN mgDelivered, j \in DOMAIN mgToB : mgDelivered[i].n <= mgToB[j].n
MgPendingNext ==
  Mg!IsBusy => /\ mgPending.msg.boot = mgBoots
               /\ \A i \in DOMAIN mgDelivered : mgDelivered[i].n <= mgPending.msg.n
               /\ \A i \in DOMAIN mgToB : mgToB[i].n <= mgPending.msg.n
MgQueueLast ==
  \A k \in DOMAIN mgQueue :
    /\ mgQueue[k].boot = mgBoots
    /\ \A i \in DOMAIN mgDelivered : mgDelivered[i].n < mgQueue[k].n
    /\ \A i \in DOMAIN mgToB : mgToB[i].n < mgQueue[k].n
    /\ Mg!IsBusy => mgPending.msg.n < mgQueue[k].n

(* The receiver remembers the message it delivered last.                   *)
MgRemembered == mgRxId = IF mgDelivered = <<>> THEN -1 ELSE mgDelivered[Len(mgDelivered)].id

(* An acknowledgement under way is of a message that was delivered, of     *)
(* none before one that was acknowledged already.                          *)
MgOf(w) ==
  /\ \A k \in DOMAIN mgToA : mgToA[k] = mgDelivered[w[k]].id
  /\ \A k, l \in DOMAIN mgToA : k <= l => w[k] <= w[l]
  /\ \A k \in DOMAIN mgToA : \A x \in mgAcked : x.boot = 1 => x.n <= mgDelivered[w[k]].n
MgAcksInTurn == \E w \in [DOMAIN mgToA -> DOMAIN mgDelivered] : MgOf(w)
MgAckedIsDelivered == \A x \in mgAcked : x.boot = 1 => \E i \in DOMAIN mgDelivered : mgDelivered[i] = x

MgIInv ==
  /\ MgTypes /\ MgNumbered
  /\ MgDeliveredInTurn /\ MgAirInTurn /\ MgQueueInTurn /\ MgDeliveredFirst /\ MgPendingNext /\ MgQueueLast
  /\ MgRemembered /\ MgAcksInTurn /\ MgAckedIsDelivered

(* The message a waits for has a number no unanswered one before it had.   *)
MgNumbersSuffice ==
  mgBoots = 1 /\ Mg!IsBusy => \/ mgPending.msg.n <= MgIdMod
                              \/ \E x \in mgAcked : mgPending.msg.n < x.n + MgIdMod
-----------------------------------------------------------------------------
LEMMA MgModParts ==
  ASSUME NEW m \in Int, m > 0, NEW a \in Int
  PROVE  \E q \in Int, r \in 0 .. (m - 1) : a = q * m + r /\ a % m = r
  OBVIOUS

LEMMA MgModUnique ==
  ASSUME NEW m \in Int, m > 0, NEW a \in Int, NEW q \in Int, NEW r \in 0 .. (m - 1), a = q * m + r
  PROVE  a % m = r
  OBVIOUS

(* Adding first and reducing afterwards is reducing twice.                 *)
LEMMA MgModNext ==
  ASSUME NEW m \in Int, m > 0, NEW a \in Int
  PROVE  ((a % m) + 1) % m = (a + 1) % m
<1>1. PICK q \in Int, r \in 0 .. (m - 1) : a = q * m + r /\ a % m = r
  BY MgModParts
<1>2. PICK c \in Int : c = r + 1
  OBVIOUS
<1>3. PICK s \in Int, t \in 0 .. (m - 1) : c = s * m + t /\ c % m = t
  BY MgModParts
<1>4. PICK u \in Int : u = q + s
  OBVIOUS
<1>5. u * m = q * m + s * m
  BY <1>4
<1>6. PICK d \in Int : d = a + 1
  OBVIOUS
<1>7. d = u * m + t
  BY <1>1, <1>2, <1>3, <1>5, <1>6
<1>8. d % m = t
  BY <1>7, MgModUnique
<1> QED BY <1>1, <1>2, <1>3, <1>6, <1>8

(* What the steps that only move or drop messages keep.                    *)
LEMMA MgSameNumbers ==
  ASSUME MgNumbered, UNCHANGED <<mgBoots, mgCount, mgNext>>,
         \A x \in MgMessages : MgKnown(x)' => MgKnown(x)
  PROVE  MgNumbered'
BY DEF MgNumbered

LEMMA MgTailIs ==
  ASSUME NEW S, NEW s \in Seq(S), s # <<>>
  PROVE  /\ Tail(s) \in Seq(S) /\ Len(s) \in Nat \ {0} /\ Len(Tail(s)) = Len(s) - 1
         /\ DOMAIN Tail(s) = 1 .. Len(s) - 1 /\ DOMAIN s = 1 .. Len(s)
         /\ \A i \in DOMAIN Tail(s) : i + 1 \in DOMAIN s /\ Tail(s)[i] = s[i + 1]
         /\ Head(s) = s[1] /\ 1 \in DOMAIN s /\ Head(s) \in S
OBVIOUS

LEMMA MgAppendIs ==
  ASSUME NEW S, NEW s \in Seq(S), NEW x \in S
  PROVE  /\ Append(s, x) \in Seq(S) /\ Len(s) \in Nat /\ Len(Append(s, x)) = Len(s) + 1
         /\ DOMAIN Append(s, x) = 1 .. Len(s) + 1 /\ DOMAIN s = 1 .. Len(s)
         /\ \A i \in DOMAIN s : Append(s, x)[i] = s[i]
         /\ Append(s, x)[Len(s) + 1] = x
OBVIOUS

LEMMA MgTransmitsIs ==
  ASSUME ManagementAssumption, mgToB \in Seq(MgMessages), NEW msg \in MgMessages, Mg!Transmits(msg)
  PROVE  /\ mgToB' \in Seq(MgMessages)
         /\ DOMAIN mgToB \subseteq Nat /\ DOMAIN mgToB' \subseteq Nat
         /\ \A i \in DOMAIN mgToB' : \/ i \in DOMAIN mgToB /\ mgToB'[i] = mgToB[i]
                                     \/ mgToB'[i] = msg /\ \A k \in DOMAIN mgToB : k < i
<1> DEFINE c == [k \in 1 .. MgCopies |-> msg]
<1>1. c \in Seq(MgMessages) /\ Len(c) = MgCopies
  BY DEF ManagementAssumption
<1>2. mgToB' = mgToB \o c
  BY DEF Mg!Transmits
<1>3. /\ mgToB' \in Seq(MgMessages) /\ DOMAIN mgToB = 1 .. Len(mgToB) /\ Len(mgToB) \in Nat
      /\ DOMAIN mgToB' = 1 .. Len(mgToB) + MgCopies
      /\ \A i \in DOMAIN mgToB : mgToB'[i] = mgToB[i]
  BY <1>1, <1>2 DEF ManagementAssumption
<1>4. ASSUME NEW i \in DOMAIN mgToB', i \notin DOMAIN mgToB
      PROVE  mgToB'[i] = msg /\ \A k \in DOMAIN mgToB : k < i
  <2>1. i - Len(mgToB) \in 1 .. MgCopies /\ i \in Nat
    BY <1>3, <1>4 DEF ManagementAssumption
  <2>2. mgToB'[i] = c[i - Len(mgToB)]
    BY <1>1, <1>2, <1>3, <2>1
  <2> QED BY <1>3, <1>4, <2>1, <2>2
<1> QED BY <1>3, <1>4

LEMMA MgBusy == ASSUME MgTypes PROVE Mg!IsBusy <=> mgPending.msg \in MgMessages
BY DEF MgTypes, Mg!IsBusy, MgMessages, Mg!NoMessage, Mg!Ids, ManagementAssumption

(* Nothing that the acknowledgements are about changes.                    *)
LEMMA MgSameAcks ==
  ASSUME MgAcksInTurn, MgAckedIsDelivered, UNCHANGED <<mgToA, mgDelivered, mgAcked>>
  PROVE  MgAcksInTurn' /\ MgAckedIsDelivered'
BY DEF MgAcksInTurn, MgAckedIsDelivered, MgOf

LEMMA MgAcksTailOf ==
  ASSUME DOMAIN mgToA \subseteq Nat, DOMAIN mgToA' \subseteq Nat, mgDelivered' = mgDelivered,
         \A k \in DOMAIN mgToA' : k + 1 \in DOMAIN mgToA /\ mgToA'[k] = mgToA[k + 1],
         NEW w \in [DOMAIN mgToA -> DOMAIN mgDelivered],
         \A k \in DOMAIN mgToA : mgToA[k] = mgDelivered[w[k]].id,
         \A k, l \in DOMAIN mgToA : k <= l => w[k] <= w[l],
         \A k \in DOMAIN mgToA : \A x \in mgAcked' : x.boot = 1 => x.n <= mgDelivered[w[k]].n
  PROVE  MgAcksInTurn'
<1> DEFINE v == [k \in DOMAIN mgToA' |-> w[k + 1]]
<1>1. v \in [DOMAIN mgToA' -> DOMAIN mgDelivered']
  OBVIOUS
<1>2. \A k \in DOMAIN mgToA' : v[k] = w[k + 1]
  OBVIOUS
<1>3. \A k, l \in DOMAIN mgToA' : k <= l => k + 1 <= l + 1
  OBVIOUS
<1>4. \A k, l \in DOMAIN mgToA' : k <= l => v[k] <= v[l]
  BY <1>2, <1>3
<1>5. \A k \in DOMAIN mgToA' : mgToA'[k] = mgDelivered'[v[k]].id
  BY <1>2
<1>6. \A k \in DOMAIN mgToA' : \A x \in mgAcked' : x.boot = 1 => x.n <= mgDelivered'[v[k]].n
  BY <1>2
<1> QED BY <1>1, <1>4, <1>5, <1>6 DEF MgAcksInTurn, MgOf

LEMMA MgAcksTail ==
  ASSUME MgAcksInTurn, DOMAIN mgToA \subseteq Nat, DOMAIN mgToA' \subseteq Nat,
         UNCHANGED <<mgDelivered, mgAcked>>,
         \A k \in DOMAIN mgToA' : k + 1 \in DOMAIN mgToA /\ mgToA'[k] = mgToA[k + 1]
  PROVE  MgAcksInTurn'
<1>1. PICK w \in [DOMAIN mgToA -> DOMAIN mgDelivered] : MgOf(w)
  BY DEF MgAcksInTurn
<1> QED BY <1>1, MgAcksTailOf DEF MgOf

(* Equal remainders are one number, or a modulus apart at least.           *)
LEMMA MgModApart ==
  ASSUME NEW m \in Nat \ {0}, NEW a \in Nat, NEW b \in Nat, a <= b, (a - 1) % m = (b - 1) % m
  PROVE  a = b \/ a + m <= b
<1>1. PICK q \in Int, r \in 0 .. (m - 1) : a - 1 = q * m + r /\ (a - 1) % m = r
  <2>1. PICK c \in Int : c = a - 1
    OBVIOUS
  <2> QED BY <2>1, MgModParts
<1>2. PICK s \in Int, t \in 0 .. (m - 1) : b - 1 = s * m + t /\ (b - 1) % m = t
  <2>1. PICK c \in Int : c = b - 1
    OBVIOUS
  <2> QED BY <2>1, MgModParts
<1>3. PICK u \in Int : u = s - q
  OBVIOUS
<1>4. u * m = s * m - q * m
  BY <1>3
<1>5. b - a = u * m
  BY <1>1, <1>2, <1>4
<1>6. CASE u <= 0
  BY <1>5, <1>6
<1>7. CASE u >= 1
  <2>1. u * m >= m
    BY <1>7
  <2> QED BY <1>5, <2>1
<1> QED BY <1>6, <1>7

LEMMA MgSendStep == ASSUME MgIInv, Mg!Send PROVE MgIInv'
<1> DEFINE new == [id |-> mgNext, boot |-> mgBoots, n |-> mgCount + 1]
<1>1. /\ mgQueue' = Append(mgQueue, new) /\ mgCount' = mgCount + 1 /\ mgNext' = (mgNext + 1) % MgIdMod
      /\ UNCHANGED <<mgPending, mgRxId, mgToB, mgToA, mgBoots, mgDelivered, mgAcked>>
  BY DEF Mg!Send
<1>2. new \in MgMessages /\ mgNext' \in Mg!Ids
  <2>1. mgNext \in Mg!Ids /\ mgNext \in Nat /\ mgBoots \in Nat \ {0} /\ mgCount \in Nat
    BY ManagementAssumption DEF MgIInv, MgTypes, Mg!Ids
  <2>2. new \in MgMessages
    BY <2>1 DEF MgMessages
  <2>3. (mgNext + 1) % MgIdMod \in 0 .. MgIdMod - 1
    BY <2>1, ManagementAssumption
  <2> QED BY <1>1, <2>2, <2>3 DEF Mg!Ids
<1>3. MgTypes'
  BY <1>1, <1>2 DEF MgIInv, MgTypes
<1>4. /\ DOMAIN mgQueue = 1 .. Len(mgQueue) /\ Len(mgQueue) \in Nat
      /\ DOMAIN mgQueue' = 1 .. Len(mgQueue) + 1
      /\ \A i \in DOMAIN mgQueue : mgQueue'[i] = mgQueue[i]
      /\ mgQueue'[Len(mgQueue) + 1] = new
  BY <1>1, <1>2, MgAppendIs DEF MgIInv, MgTypes
<1>5. \A x : MgKnown(x)' => MgKnown(x) \/ x = new
  BY <1>1, <1>4 DEF MgKnown
<1>6. MgNumbered'
  <2>1. \A x \in MgMessages : MgKnown(x) => x.n <= mgCount
    BY DEF MgIInv, MgNumbered
  <2>2. new.n = mgCount + 1 /\ mgCount \in Nat /\ \A x \in MgMessages : x.n \in Nat
    BY DEF MgIInv, MgTypes, MgMessages
  <2>3. \A x, y \in MgMessages : MgKnown(x)' /\ MgKnown(y)' /\ x.n = y.n => x = y
    BY <1>5, <2>1, <2>2 DEF MgIInv, MgNumbered
  <2>4. \A x \in MgMessages : MgKnown(x)' => x.n <= mgCount'
    BY <1>1, <1>5, <2>1, <2>2
  <2>5. new.boot = 1 => new.id = (new.n - 1) % MgIdMod
    BY DEF MgIInv, MgTypes, MgNumbered
  <2>6. \A x \in MgMessages : MgKnown(x)' /\ x.boot = 1 => x.id = (x.n - 1) % MgIdMod
    BY <1>5, <2>5 DEF MgIInv, MgNumbered
  <2>7. mgBoots' = 1 => mgNext' = mgCount' % MgIdMod
    <3>1. ((mgCount % MgIdMod) + 1) % MgIdMod = (mgCount + 1) % MgIdMod
      <4>1. MgIdMod \in Int /\ MgIdMod > 0 /\ mgCount \in Int
        BY <2>2, ManagementAssumption
      <4> QED BY <4>1, MgModNext
    <3> QED BY <1>1, <3>1 DEF MgIInv, MgNumbered
  <2>8. \A x \in MgMessages : MgKnown(x)' => x.boot <= mgBoots
    <3>1. mgBoots \in Nat
      BY DEF MgIInv, MgTypes
    <3> QED BY <1>5, <3>1 DEF MgIInv, MgNumbered
  <2> QED BY <1>1, <2>3, <2>4, <2>6, <2>7, <2>8 DEF MgNumbered
<1>7. /\ \A k \in DOMAIN mgQueue : MgKnown(mgQueue[k]) /\ mgQueue[k] \in MgMessages
      /\ \A k \in DOMAIN mgToB : MgKnown(mgToB[k]) /\ mgToB[k] \in MgMessages
      /\ \A k \in DOMAIN mgDelivered : MgKnown(mgDelivered[k]) /\ mgDelivered[k] \in MgMessages
      /\ Mg!IsBusy => MgKnown(mgPending.msg) /\ mgPending.msg \in MgMessages
  BY MgBusy DEF MgIInv, MgTypes, MgKnown, Mg!IsBusy
<1>8. MgQueueInTurn' /\ MgQueueLast' /\ MgPendingNext'
  <2>1. \A x \in MgMessages : MgKnown(x) => x.n < new.n
    BY DEF MgIInv, MgTypes, MgNumbered, MgMessages
  <2>2. \A k \in DOMAIN mgQueue' : k \in DOMAIN mgQueue \/ k = Len(mgQueue) + 1
    BY <1>4
  <2>3. MgQueueInTurn'
    <3> SUFFICES ASSUME NEW i \in DOMAIN mgQueue', NEW j \in DOMAIN mgQueue', i < j
                 PROVE  mgQueue'[i].n < mgQueue'[j].n
      BY DEF MgQueueInTurn
    <3>1. i \in DOMAIN mgQueue
      BY <1>4
    <3>2. CASE j \in DOMAIN mgQueue
      BY <1>4, <3>1, <3>2 DEF MgIInv, MgQueueInTurn
    <3>3. CASE j = Len(mgQueue) + 1
      BY <1>4, <1>7, <2>1, <3>1, <3>3
    <3> QED BY <2>2, <3>2, <3>3
  <2>4. MgQueueLast'
    <3> SUFFICES ASSUME NEW k \in DOMAIN mgQueue'
                 PROVE  /\ mgQueue'[k].boot = mgBoots
                        /\ \A i \in DOMAIN mgDelivered : mgDelivered[i].n < mgQueue'[k].n
                        /\ \A i \in DOMAIN mgToB : mgToB[i].n < mgQueue'[k].n
                        /\ Mg!IsBusy => mgPending.msg.n < mgQueue'[k].n
      BY <1>1 DEF MgQueueLast, Mg!IsBusy
    <3>1. CASE k \in DOMAIN mgQueue
      BY <1>4, <3>1 DEF MgIInv, MgQueueLast
    <3>2. CASE k = Len(mgQueue) + 1
      BY <1>4, <1>7, <2>1, <3>2
    <3> QED BY <2>2, <3>1, <3>2
  <2> QED BY <1>1, <2>3, <2>4 DEF MgIInv, MgPendingNext, Mg!IsBusy
<1>9. MgDeliveredInTurn' /\ MgAirInTurn' /\ MgDeliveredFirst' /\ MgRemembered'
  BY <1>1 DEF MgIInv, MgDeliveredInTurn, MgAirInTurn, MgDeliveredFirst, MgRemembered
<1> QED BY <1>1, <1>3, <1>6, <1>8, <1>9, MgSameAcks DEF MgIInv

LEMMA MgTxNextStep == ASSUME MgIInv, Mg!TxNext PROVE MgIInv'
<1> DEFINE msg == mgQueue[1]
<1>1. /\ mgPending' = [msg |-> Head(mgQueue), retx |-> 0] /\ mgQueue' = Tail(mgQueue)
      /\ Mg!Transmits(Head(mgQueue)) /\ mgQueue # <<>> /\ ~Mg!IsBusy
      /\ UNCHANGED <<mgNext, mgRxId, mgToA, mgBoots, mgCount, mgDelivered, mgAcked>>
  BY DEF Mg!TxNext
<1>2. /\ msg \in MgMessages /\ Head(mgQueue) = msg /\ Tail(mgQueue) \in Seq(MgMessages)
      /\ DOMAIN mgQueue' = 1 .. Len(mgQueue) - 1 /\ DOMAIN mgQueue = 1 .. Len(mgQueue)
      /\ Len(mgQueue) \in Nat \ {0} /\ 1 \in DOMAIN mgQueue
      /\ \A i \in DOMAIN mgQueue' : i + 1 \in DOMAIN mgQueue /\ mgQueue'[i] = mgQueue[i + 1]
  BY <1>1, MgTailIs DEF MgIInv, MgTypes
<1>3. /\ mgToB' \in Seq(MgMessages)
      /\ DOMAIN mgToB \subseteq Nat /\ DOMAIN mgToB' \subseteq Nat
      /\ \A i \in DOMAIN mgToB' : \/ i \in DOMAIN mgToB /\ mgToB'[i] = mgToB[i]
                                  \/ mgToB'[i] = msg /\ \A k \in DOMAIN mgToB : k < i
  BY <1>1, <1>2, MgTransmitsIs, ManagementAssumption DEF MgIInv, MgTypes
<1>4. MgTypes' /\ mgPending'.msg = msg /\ Mg!IsBusy'
  <2>1. MgTypes' /\ mgPending'.msg = msg
    BY <1>1, <1>2, <1>3 DEF MgIInv, MgTypes
  <2> QED BY <1>2, <2>1, MgBusy, ManagementAssumption DEF Mg!IsBusy, MgMessages, Mg!NoMessage, Mg!Ids
<1>5. MgNumbered'
  <2>1. \A x \in MgMessages : MgKnown(x)' => MgKnown(x)
    <3> SUFFICES ASSUME NEW x \in MgMessages, MgKnown(x)' PROVE MgKnown(x)
      OBVIOUS
    <3>1. CASE \E i \in DOMAIN mgQueue' : mgQueue'[i] = x
      BY <1>2, <3>1 DEF MgKnown
    <3>2. CASE x = msg
      BY <1>2, <3>2 DEF MgKnown
    <3>3. CASE \E i \in DOMAIN mgToB' : mgToB'[i] = x
      BY <1>3, <3>2, <3>3 DEF MgKnown
    <3>4. CASE (\E i \in DOMAIN mgDelivered : mgDelivered[i] = x) \/ x \in mgAcked
      BY <3>4 DEF MgKnown
    <3> QED BY <1>1, <1>4, <3>1, <3>2, <3>3, <3>4 DEF MgKnown
  <2> QED BY <1>1, <2>1, MgSameNumbers DEF MgIInv, MgNumbered
<1>6. MgQueueInTurn' /\ \A k \in DOMAIN mgQueue' : mgQueue'[k].boot = mgBoots /\ msg.n < mgQueue'[k].n
  <2>1. \A i, j \in DOMAIN mgQueue : i < j => mgQueue[i].n < mgQueue[j].n
    BY DEF MgIInv, MgQueueInTurn
  <2>2. \A i \in DOMAIN mgQueue' : i + 1 \in DOMAIN mgQueue /\ 1 < i + 1 /\ i \in Nat
    BY <1>2
  <2>3. \A i, j \in DOMAIN mgQueue' : i < j => mgQueue'[i].n < mgQueue'[j].n
    BY <1>2, <2>1, <2>2
  <2>4. \A k \in DOMAIN mgQueue' : mgQueue'[k].boot = mgBoots
    BY <1>2 DEF MgIInv, MgQueueLast
  <2> QED BY <1>2, <2>1, <2>2, <2>3, <2>4 DEF MgQueueInTurn
<1>7. /\ msg.boot = mgBoots
      /\ \A i \in DOMAIN mgDelivered : mgDelivered[i].n < msg.n /\ mgDelivered[i].n \in Nat
      /\ \A i \in DOMAIN mgToB : mgToB[i].n < msg.n /\ mgToB[i].n \in Nat
      /\ msg.n \in Nat
  <2>1. /\ \A i \in DOMAIN mgDelivered : mgDelivered[i] \in MgMessages
        /\ \A i \in DOMAIN mgToB : mgToB[i] \in MgMessages
    BY DEF MgIInv, MgTypes
  <2>2. \A m \in MgMessages : m.n \in Nat
    BY DEF MgMessages
  <2> QED BY <1>2, <2>1, <2>2 DEF MgIInv, MgQueueLast
<1>8. /\ \A i \in DOMAIN mgToB' : mgToB'[i].n <= msg.n /\ mgToB'[i].n \in Nat
      /\ \A i, j \in DOMAIN mgToB' : i <= j => mgToB'[i].n <= mgToB'[j].n
      /\ \A i \in DOMAIN mgDelivered, j \in DOMAIN mgToB' : mgDelivered[i].n <= mgToB'[j].n
  <2>1. \A i \in DOMAIN mgToB' : mgToB'[i].n <= msg.n /\ mgToB'[i].n \in Nat
    BY <1>3, <1>7
  <2>2. ASSUME NEW i \in DOMAIN mgToB', NEW j \in DOMAIN mgToB', i <= j PROVE mgToB'[i].n <= mgToB'[j].n
    <3>1. CASE j \in DOMAIN mgToB /\ mgToB'[j] = mgToB[j]
      <4>1. i \in DOMAIN mgToB /\ mgToB'[i] = mgToB[i]
        BY <1>3, <2>2, <3>1
      <4> QED BY <2>2, <3>1, <4>1 DEF MgIInv, MgAirInTurn
    <3>2. CASE mgToB'[j] = msg
      BY <2>1, <3>2
    <3> QED BY <1>3, <3>1, <3>2
  <2>3. \A i \in DOMAIN mgDelivered, j \in DOMAIN mgToB' : mgDelivered[i].n <= mgToB'[j].n
    BY <1>3, <1>7 DEF MgIInv, MgDeliveredFirst
  <2> QED BY <2>1, <2>2, <2>3
<1>9. MgAirInTurn' /\ MgDeliveredFirst' /\ MgPendingNext'
  BY <1>1, <1>4, <1>7, <1>8 DEF MgAirInTurn, MgDeliveredFirst, MgPendingNext
<1>10. MgQueueLast'
  <2>1. \A k \in DOMAIN mgQueue' : mgQueue'[k] \in MgMessages
    BY <1>4 DEF MgTypes
  <2>2. \A k \in DOMAIN mgQueue' : mgQueue'[k].n \in Nat
    BY <2>1 DEF MgMessages
  <2> QED BY <1>1, <1>4, <1>6, <1>7, <1>8, <2>2 DEF MgQueueLast
<1>11. MgDeliveredInTurn' /\ MgRemembered'
  BY <1>1 DEF MgIInv, MgDeliveredInTurn, MgRemembered
<1> QED BY <1>1, <1>4, <1>5, <1>6, <1>9, <1>10, <1>11, MgSameAcks DEF MgIInv

LEMMA MgTxAgainStep == ASSUME MgIInv, Mg!TxAgain PROVE MgIInv'
<1> DEFINE msg == mgPending.msg
<1>1. /\ mgPending' = [mgPending EXCEPT !.retx = @ + 1] /\ Mg!Transmits(msg) /\ Mg!IsBusy
      /\ UNCHANGED <<mgQueue, mgNext, mgRxId, mgToA, mgBoots, mgCount, mgDelivered, mgAcked>>
  BY DEF Mg!TxAgain
<1>2. msg \in MgMessages /\ mgPending'.msg = msg
  BY <1>1, MgBusy DEF MgIInv, Mg!TxAgain
<1>3. /\ mgToB' \in Seq(MgMessages)
      /\ DOMAIN mgToB \subseteq Nat /\ DOMAIN mgToB' \subseteq Nat
      /\ \A i \in DOMAIN mgToB' : \/ i \in DOMAIN mgToB /\ mgToB'[i] = mgToB[i]
                                  \/ mgToB'[i] = msg /\ \A k \in DOMAIN mgToB : k < i
  BY <1>1, <1>2, MgTransmitsIs, ManagementAssumption DEF MgIInv, MgTypes
<1>4. MgTypes' /\ Mg!IsBusy'
  BY <1>1, <1>2, <1>3 DEF MgIInv, MgTypes, Mg!IsBusy
<1>5. MgNumbered'
  <2>1. \A x \in MgMessages : MgKnown(x)' => MgKnown(x)
    BY <1>1, <1>2, <1>3 DEF MgKnown, Mg!IsBusy
  <2> QED BY <1>1, <2>1, MgSameNumbers DEF MgIInv, MgNumbered
<1>6. /\ \A i \in DOMAIN mgDelivered : mgDelivered[i].n <= msg.n
      /\ \A i \in DOMAIN mgToB : mgToB[i].n <= msg.n
      /\ \A k \in DOMAIN mgQueue : msg.n < mgQueue[k].n /\ mgQueue[k].boot = mgBoots
      /\ \A k \in DOMAIN mgQueue, i \in DOMAIN mgDelivered : mgDelivered[i].n < mgQueue[k].n
      /\ \A k \in DOMAIN mgQueue, i \in DOMAIN mgToB : mgToB[i].n < mgQueue[k].n
      /\ msg.n \in Nat /\ msg.boot = mgBoots
  BY <1>1, <1>2 DEF MgIInv, MgPendingNext, MgQueueLast, MgMessages
<1>7. \A i \in DOMAIN mgToB' : mgToB'[i].n <= msg.n
  BY <1>3, <1>6
<1>8. ASSUME NEW i \in DOMAIN mgToB', NEW j \in DOMAIN mgToB', i <= j PROVE mgToB'[i].n <= mgToB'[j].n
  <2>1. CASE j \in DOMAIN mgToB /\ mgToB'[j] = mgToB[j]
    <3>1. i \in DOMAIN mgToB /\ mgToB'[i] = mgToB[i]
      BY <1>3, <1>8, <2>1
    <3> QED BY <1>8, <2>1, <3>1 DEF MgIInv, MgAirInTurn
  <2>2. CASE mgToB'[j] = msg
    BY <1>7, <2>2
  <2> QED BY <1>3, <2>1, <2>2
<1>9. MgAirInTurn' /\ MgDeliveredFirst' /\ MgPendingNext' /\ MgQueueLast'
  <2>1. MgAirInTurn'
    BY <1>8 DEF MgAirInTurn
  <2>2. MgDeliveredFirst'
    BY <1>1, <1>3, <1>6 DEF MgIInv, MgDeliveredFirst
  <2>3. MgPendingNext'
    BY <1>1, <1>2, <1>6, <1>7 DEF MgPendingNext
  <2>4. MgQueueLast'
    BY <1>1, <1>2, <1>3, <1>6 DEF MgQueueLast
  <2> QED BY <2>1, <2>2, <2>3, <2>4
<1>10. MgDeliveredInTurn' /\ MgRemembered' /\ MgQueueInTurn'
  BY <1>1 DEF MgIInv, MgDeliveredInTurn, MgRemembered, MgQueueInTurn
<1> QED BY <1>1, <1>4, <1>5, <1>9, <1>10, MgSameAcks DEF MgIInv

LEMMA MgTxGiveUpStep == ASSUME MgIInv, Mg!TxGiveUp PROVE MgIInv'
<1>1. /\ mgPending' = [msg |-> Mg!NoMessage, retx |-> 0] /\ ~Mg!IsBusy'
      /\ UNCHANGED <<mgQueue, mgNext, mgRxId, mgToB, mgToA, mgBoots, mgCount, mgDelivered, mgAcked>>
  BY DEF Mg!TxGiveUp, Mg!IsBusy
<1>2. MgTypes' /\ MgNumbered'
  <2>1. \A x \in MgMessages : MgKnown(x)' => MgKnown(x)
    BY <1>1 DEF MgKnown
  <2>2. MgNumbered'
    BY <1>1, <2>1, MgSameNumbers DEF MgIInv, MgNumbered
  <2> QED BY <1>1, <2>2 DEF MgIInv, MgTypes
<1>3. /\ MgDeliveredInTurn' /\ MgAirInTurn' /\ MgQueueInTurn' /\ MgDeliveredFirst' /\ MgPendingNext'
      /\ MgQueueLast' /\ MgRemembered'
  BY <1>1 DEF MgIInv, MgDeliveredInTurn, MgAirInTurn, MgQueueInTurn, MgDeliveredFirst, MgPendingNext, MgQueueLast,
              MgRemembered
<1> QED BY <1>1, <1>2, <1>3, MgSameAcks DEF MgIInv

(* A node started again forgets what it had to send.                       *)
LEMMA MgRestartStep == ASSUME MgIInv, Mg!Restart PROVE MgIInv'
<1>1. /\ mgQueue' = <<>> /\ mgNext' = 0 /\ mgPending' = [msg |-> Mg!NoMessage, retx |-> 0] /\ ~Mg!IsBusy'
      /\ mgBoots' = mgBoots + 1
      /\ UNCHANGED <<mgRxId, mgToB, mgToA, mgCount, mgDelivered, mgAcked>>
  BY DEF Mg!Restart, Mg!IsBusy
<1>2. MgTypes'
  BY <1>1, ManagementAssumption DEF MgIInv, MgTypes, Mg!Ids
<1>3. MgNumbered'
  <2>1. \A x \in MgMessages : MgKnown(x)' => MgKnown(x)
    BY <1>1 DEF MgKnown
  <2>2. mgBoots' # 1 /\ mgBoots' \in Nat /\ mgBoots \in Nat
    BY <1>1 DEF MgIInv, MgTypes
  <2>3. \A x \in MgMessages : MgKnown(x)' => x.boot <= mgBoots'
    BY <1>1, <2>1, <2>2 DEF MgIInv, MgNumbered, MgMessages
  <2> QED BY <1>1, <2>1, <2>2, <2>3 DEF MgIInv, MgNumbered
<1>4. /\ MgDeliveredInTurn' /\ MgAirInTurn' /\ MgQueueInTurn' /\ MgDeliveredFirst' /\ MgPendingNext'
      /\ MgQueueLast' /\ MgRemembered'
  <2>1. DOMAIN mgQueue' = {}
    BY <1>1
  <2> QED BY <1>1, <2>1
          DEF MgIInv, MgDeliveredInTurn, MgAirInTurn, MgQueueInTurn, MgDeliveredFirst, MgPendingNext, MgQueueLast,
              MgRemembered
<1> QED BY <1>1, <1>2, <1>3, <1>4, MgSameAcks DEF MgIInv

(* The first D_PDU under way is no longer there.                           *)
LEMMA MgToBTail ==
  ASSUME MgIInv, mgToB # <<>>, mgToB' = Tail(mgToB)
  PROVE  /\ mgToB' \in Seq(MgMessages) /\ Head(mgToB) \in MgMessages /\ MgKnown(Head(mgToB))
         /\ \A i \in DOMAIN mgToB' : /\ i + 1 \in DOMAIN mgToB /\ mgToB'[i] = mgToB[i + 1] /\ i \in Nat
                                     /\ Head(mgToB).n <= mgToB'[i].n
         /\ \A i \in DOMAIN mgDelivered : mgDelivered[i].n <= Head(mgToB).n
         /\ 1 \in DOMAIN mgToB /\ Head(mgToB) = mgToB[1]
<1>1. /\ mgToB' \in Seq(MgMessages) /\ Len(mgToB) \in Nat \ {0} /\ DOMAIN mgToB' = 1 .. Len(mgToB) - 1
      /\ \A i \in DOMAIN mgToB' : i + 1 \in DOMAIN mgToB /\ mgToB'[i] = mgToB[i + 1]
      /\ Head(mgToB) = mgToB[1] /\ 1 \in DOMAIN mgToB /\ Head(mgToB) \in MgMessages
  BY MgTailIs DEF MgIInv, MgTypes
<1>2. \A i \in DOMAIN mgToB' : i \in Nat /\ 1 <= i + 1
  BY <1>1
<1> QED BY <1>1, <1>2 DEF MgIInv, MgAirInTurn, MgDeliveredFirst, MgKnown

LEMMA MgToBTailKeeps ==
  ASSUME MgIInv, mgToB # <<>>, mgToB' = Tail(mgToB), UNCHANGED <<mgQueue, mgPending, mgBoots>>
  PROVE  /\ MgAirInTurn' /\ MgQueueInTurn'
         /\ \A i \in DOMAIN mgDelivered, j \in DOMAIN mgToB' : mgDelivered[i].n <= mgToB'[j].n
         /\ Mg!IsBusy' => /\ mgPending'.msg.boot = mgBoots'
                          /\ \A i \in DOMAIN mgToB' : mgToB'[i].n <= mgPending'.msg.n
         /\ \A k \in DOMAIN mgQueue' :
              /\ mgQueue'[k].boot = mgBoots'
              /\ \A i \in DOMAIN mgToB' : mgToB'[i].n < mgQueue'[k].n
              /\ Mg!IsBusy' => mgPending'.msg.n < mgQueue'[k].n
         /\ Mg!IsBusy' <=> Mg!IsBusy
<1>1. /\ \A i \in DOMAIN mgToB' : i + 1 \in DOMAIN mgToB /\ mgToB'[i] = mgToB[i + 1] /\ i \in Nat
      /\ Mg!IsBusy' <=> Mg!IsBusy
  BY MgToBTail DEF Mg!IsBusy
<1>2. ASSUME NEW i \in DOMAIN mgToB', NEW j \in DOMAIN mgToB', i <= j PROVE mgToB'[i].n <= mgToB'[j].n
  <2>1. i + 1 <= j + 1
    BY <1>1, <1>2
  <2> QED BY <1>1, <2>1 DEF MgIInv, MgAirInTurn
<1> QED BY <1>1, <1>2 DEF MgIInv, MgAirInTurn, MgQueueInTurn, MgDeliveredFirst, MgPendingNext, MgQueueLast

LEMMA MgRxMessageStep == ASSUME MgIInv, Mg!RxMessage PROVE MgIInv'
<1> DEFINE msg == Head(mgToB)
<1>1. /\ mgToB # <<>> /\ mgToB' = Tail(mgToB) /\ mgRxId' = msg.id /\ mgToA' = Append(mgToA, msg.id)
      /\ mgDelivered' = IF mgRxId = msg.id THEN mgDelivered ELSE Append(mgDelivered, msg)
      /\ UNCHANGED <<mgQueue, mgNext, mgPending, mgBoots, mgCount, mgAcked>>
  BY DEF Mg!RxMessage, Mg!Duplicate
<1>2. /\ mgToB' \in Seq(MgMessages) /\ msg \in MgMessages /\ MgKnown(msg)
      /\ \A i \in DOMAIN mgToB' : i + 1 \in DOMAIN mgToB /\ mgToB'[i] = mgToB[i + 1] /\ msg.n <= mgToB'[i].n
      /\ \A i \in DOMAIN mgDelivered : mgDelivered[i].n <= msg.n
      /\ 1 \in DOMAIN mgToB /\ msg = mgToB[1]
  BY <1>1, MgToBTail
<1>3. /\ MgAirInTurn' /\ MgQueueInTurn'
      /\ \A i \in DOMAIN mgDelivered, j \in DOMAIN mgToB' : mgDelivered[i].n <= mgToB'[j].n
      /\ Mg!IsBusy' => mgPending'.msg.boot = mgBoots' /\ \A i \in DOMAIN mgToB' : mgToB'[i].n <= mgPending'.msg.n
      /\ \A k \in DOMAIN mgQueue' :
           /\ mgQueue'[k].boot = mgBoots'
           /\ \A i \in DOMAIN mgToB' : mgToB'[i].n < mgQueue'[k].n
           /\ Mg!IsBusy' => mgPending'.msg.n < mgQueue'[k].n
      /\ Mg!IsBusy' <=> Mg!IsBusy
  BY <1>1, MgToBTailKeeps
<1>4. /\ mgDelivered \in Seq(MgMessages) /\ Len(mgDelivered) \in Nat /\ DOMAIN mgDelivered = 1 .. Len(mgDelivered)
      /\ msg.id \in Mg!Ids /\ Mg!Ids \subseteq Nat
  <2>1. mgDelivered \in Seq(MgMessages)
    BY DEF MgIInv, MgTypes
  <2>2. msg.id \in Mg!Ids /\ Mg!Ids \subseteq Nat
    BY <1>2, ManagementAssumption DEF MgMessages, Mg!Ids
  <2> QED BY <2>1, <2>2
\* What is delivered now is delivered after what was before.
<1>5. /\ mgDelivered' \in Seq(MgMessages) /\ Len(mgDelivered') \in Nat \ {0}
      /\ DOMAIN mgDelivered' = 1 .. Len(mgDelivered') /\ Len(mgDelivered) <= Len(mgDelivered')
      /\ \A i \in DOMAIN mgDelivered : mgDelivered'[i] = mgDelivered[i]
      /\ \A i \in DOMAIN mgDelivered' \ DOMAIN mgDelivered :
           /\ mgDelivered'[i] = msg
           /\ \A k \in DOMAIN mgDelivered : k < i /\ mgDelivered[k].n < msg.n
      /\ mgDelivered'[Len(mgDelivered')].id = msg.id
      /\ Len(mgDelivered') <= Len(mgDelivered) + 1
  <2>1. CASE mgRxId = msg.id
    <3>1. mgDelivered # <<>> /\ mgDelivered[Len(mgDelivered)].id = msg.id
      <4>1. msg.id # -1
        BY <1>4
      <4> QED BY <2>1, <4>1 DEF MgIInv, MgRemembered
    <3>2. Len(mgDelivered) \in Nat \ {0} /\ mgDelivered' = mgDelivered
      BY <1>1, <1>4, <2>1, <3>1
    <3> QED BY <1>4, <3>1, <3>2
  <2>2. CASE mgRxId # msg.id
    <3>1. mgDelivered' = Append(mgDelivered, msg)
      BY <1>1, <2>2
    <3>2. /\ mgDelivered' \in Seq(MgMessages) /\ Len(mgDelivered') = Len(mgDelivered) + 1
          /\ DOMAIN mgDelivered' = 1 .. Len(mgDelivered) + 1
          /\ \A i \in DOMAIN mgDelivered : mgDelivered'[i] = mgDelivered[i]
          /\ mgDelivered'[Len(mgDelivered) + 1] = msg
      BY <1>2, <1>4, <3>1, MgAppendIs
    <3>3. ASSUME NEW k \in DOMAIN mgDelivered PROVE mgDelivered[k].n < msg.n
      <4> DEFINE last == mgDelivered[Len(mgDelivered)]
      <4>1. /\ Len(mgDelivered) \in DOMAIN mgDelivered /\ mgDelivered # <<>>
            /\ last \in MgMessages /\ mgDelivered[k] \in MgMessages
        BY <1>4, <3>3
      <4>2. last.id # msg.id
        BY <2>2, <4>1 DEF MgIInv, MgRemembered
      <4>3. MgKnown(last)
        BY <4>1 DEF MgKnown
      <4>4. last.n # msg.n
        BY <1>2, <4>1, <4>2, <4>3 DEF MgIInv, MgNumbered
      <4>5. k = Len(mgDelivered) \/ k < Len(mgDelivered)
        BY <1>4, <3>3
      <4>6. mgDelivered[k].n <= last.n
        BY <4>1, <4>5 DEF MgIInv, MgDeliveredInTurn, MgMessages
      <4>7. last.n <= msg.n /\ last.n \in Nat /\ msg.n \in Nat /\ mgDelivered[k].n \in Nat
        BY <1>2, <4>1 DEF MgMessages
      <4> QED BY <4>4, <4>6, <4>7
    <3> QED BY <1>4, <3>2, <3>3
  <2> QED BY <2>1, <2>2
<1>6. MgTypes'
  <2>1. mgToA' \in Seq(Mg!Ids)
    BY <1>1, <1>4 DEF MgIInv, MgTypes
  <2> QED BY <1>1, <1>2, <1>5, <2>1 DEF MgIInv, MgTypes
<1>7. MgNumbered'
  <2>1. \A x \in MgMessages : MgKnown(x)' => MgKnown(x)
    BY <1>1, <1>2, <1>5 DEF MgKnown
  <2> QED BY <1>1, <2>1, MgSameNumbers DEF MgIInv, MgNumbered
<1>8. /\ msg.n \in Nat
      /\ Mg!IsBusy => msg.n <= mgPending.msg.n
      /\ \A k \in DOMAIN mgQueue : msg.n < mgQueue[k].n
  BY <1>2 DEF MgIInv, MgPendingNext, MgQueueLast, MgMessages
<1>9. MgDeliveredInTurn'
  BY <1>4, <1>5 DEF MgIInv, MgDeliveredInTurn
<1>10. MgDeliveredFirst'
  BY <1>2, <1>3, <1>5 DEF MgDeliveredFirst
<1>11. MgPendingNext'
  BY <1>1, <1>3, <1>5, <1>8 DEF MgIInv, MgPendingNext
<1>12. MgQueueLast'
  BY <1>1, <1>3, <1>5, <1>8 DEF MgIInv, MgQueueLast
<1>13. MgRemembered'
  <2>1. mgDelivered' # <<>>
    BY <1>5
  <2> QED BY <1>1, <1>5, <2>1 DEF MgRemembered
<1>14. MgAckedIsDelivered'
  <2>1. \A i \in DOMAIN mgDelivered : i \in DOMAIN mgDelivered' /\ mgDelivered'[i] = mgDelivered[i]
    BY <1>4, <1>5
  <2>2. \A x \in mgAcked : x.boot = 1 => \E i \in DOMAIN mgDelivered : mgDelivered[i] = x
    BY DEF MgIInv, MgAckedIsDelivered
  <2> QED BY <1>1, <2>1, <2>2 DEF MgAckedIsDelivered
<1>15. MgAcksInTurn'
  <2>1. PICK w \in [DOMAIN mgToA -> DOMAIN mgDelivered] : MgOf(w)
    BY DEF MgIInv, MgAcksInTurn
  <2>2. /\ DOMAIN mgToA = 1 .. Len(mgToA) /\ DOMAIN mgToA' = 1 .. Len(mgToA) + 1 /\ Len(mgToA) \in Nat
        /\ \A k \in DOMAIN mgToA : mgToA'[k] = mgToA[k]
        /\ mgToA'[Len(mgToA) + 1] = msg.id
    BY <1>1, <1>4, MgAppendIs DEF MgIInv, MgTypes
  <2> DEFINE last == Len(mgDelivered')
             v == [k \in DOMAIN mgToA' |-> IF k \in DOMAIN mgToA THEN w[k] ELSE last]
  <2>3. v \in [DOMAIN mgToA' -> DOMAIN mgDelivered']
    BY <1>4, <1>5
  <2>4. /\ \A k \in DOMAIN mgToA : v[k] = w[k] /\ w[k] \in DOMAIN mgDelivered
        /\ v[Len(mgToA) + 1] = last
        /\ \A k \in DOMAIN mgToA' : k \in DOMAIN mgToA \/ k = Len(mgToA) + 1
    BY <2>2
  <2>5. \A k \in DOMAIN mgToA' : mgToA'[k] = mgDelivered'[v[k]].id
    BY <1>5, <2>1, <2>2, <2>4 DEF MgOf
  <2>6. \A k, l \in DOMAIN mgToA' : k <= l => v[k] <= v[l]
    <3>1. \A k \in DOMAIN mgToA : w[k] <= last /\ k < Len(mgToA) + 1
      BY <1>4, <1>5, <2>2, <2>4
    <3>2. last \in Nat
      BY <1>5
    <3> QED BY <2>1, <2>2, <2>4, <3>1, <3>2 DEF MgOf
  <2>7. \A k \in DOMAIN mgToA' : \A x \in mgAcked' : x.boot = 1 => x.n <= mgDelivered'[v[k]].n
    <3>1. \A k \in DOMAIN mgToA : \A x \in mgAcked : x.boot = 1 => x.n <= mgDelivered'[v[k]].n
      BY <1>5, <2>1, <2>4 DEF MgOf
    <3>2. ASSUME NEW x \in mgAcked, x.boot = 1 PROVE x.n <= mgDelivered'[last].n
      <4>1. PICK i \in DOMAIN mgDelivered : mgDelivered[i] = x
        BY <3>2 DEF MgIInv, MgAckedIsDelivered
      <4>2. i \in DOMAIN mgDelivered' /\ mgDelivered'[i] = x /\ i <= last /\ last \in DOMAIN mgDelivered'
        BY <1>4, <1>5, <4>1
      <4>3. x.n \in Nat
        BY <3>2 DEF MgIInv, MgTypes, MgMessages
      <4>4. CASE i = last
        BY <4>2, <4>3, <4>4
      <4>5. CASE i < last
        <5>1. mgDelivered'[i].n < mgDelivered'[last].n
          BY <1>9, <4>2, <4>5 DEF MgDeliveredInTurn
        <5>2. mgDelivered'[last].n \in Nat
          <6>1. mgDelivered'[last] \in MgMessages
            BY <1>5, <4>2
          <6> QED BY <6>1 DEF MgMessages
        <5> QED BY <4>2, <4>3, <5>1, <5>2
      <4> QED BY <1>4, <1>5, <4>2, <4>4, <4>5
    <3> QED BY <1>1, <2>4, <3>1, <3>2
  <2> QED BY <2>3, <2>5, <2>6, <2>7 DEF MgAcksInTurn, MgOf
<1> QED BY <1>3, <1>6, <1>7, <1>9, <1>10, <1>11, <1>12, <1>13, <1>14, <1>15 DEF MgIInv

LEMMA MgLoseStep == ASSUME MgIInv, Mg!Lose PROVE MgIInv'
<1>1. UNCHANGED <<mgQueue, mgNext, mgPending, mgRxId, mgBoots, mgCount, mgDelivered, mgAcked>>
  BY DEF Mg!Lose
<1>2. CASE mgToB # <<>> /\ mgToB' = Tail(mgToB) /\ UNCHANGED mgToA
  <2>1. /\ mgToB' \in Seq(MgMessages)
        /\ \A i \in DOMAIN mgToB' : i + 1 \in DOMAIN mgToB /\ mgToB'[i] = mgToB[i + 1]
    BY <1>2, MgToBTail
  <2>2. MgTypes'
    BY <1>1, <1>2, <2>1 DEF MgIInv, MgTypes
  <2>3. MgNumbered'
    <3>1. \A x \in MgMessages : MgKnown(x)' => MgKnown(x)
      BY <1>1, <2>1 DEF MgKnown
    <3> QED BY <1>1, <3>1, MgSameNumbers DEF MgIInv, MgNumbered
  <2>4. MgAirInTurn' /\ MgQueueInTurn' /\ MgDeliveredFirst' /\ MgPendingNext' /\ MgQueueLast'
    BY <1>1, <1>2, MgToBTailKeeps DEF MgIInv, MgDeliveredFirst, MgPendingNext, MgQueueLast, Mg!IsBusy
  <2>5. MgDeliveredInTurn' /\ MgRemembered'
    BY <1>1 DEF MgIInv, MgDeliveredInTurn, MgRemembered
  <2> QED BY <1>1, <1>2, <2>2, <2>3, <2>4, <2>5, MgSameAcks DEF MgIInv
<1>3. CASE mgToA # <<>> /\ mgToA' = Tail(mgToA) /\ UNCHANGED mgToB
  <2>1. /\ mgToA' \in Seq(Mg!Ids) /\ DOMAIN mgToA \subseteq Nat /\ DOMAIN mgToA' \subseteq Nat
        /\ \A k \in DOMAIN mgToA' : k + 1 \in DOMAIN mgToA /\ mgToA'[k] = mgToA[k + 1]
    BY <1>3, MgTailIs DEF MgIInv, MgTypes
  <2>2. MgTypes'
    BY <1>1, <1>3, <2>1 DEF MgIInv, MgTypes
  <2>3. MgNumbered'
    <3>1. \A x \in MgMessages : MgKnown(x)' => MgKnown(x)
      BY <1>1, <1>3 DEF MgKnown
    <3> QED BY <1>1, <3>1, MgSameNumbers DEF MgIInv, MgNumbered
  <2>4. /\ MgDeliveredInTurn' /\ MgAirInTurn' /\ MgQueueInTurn' /\ MgDeliveredFirst' /\ MgPendingNext'
        /\ MgQueueLast' /\ MgRemembered' /\ MgAckedIsDelivered'
    BY <1>1, <1>3 DEF MgIInv, MgDeliveredInTurn, MgAirInTurn, MgQueueInTurn, MgDeliveredFirst, MgPendingNext,
                     MgQueueLast, MgRemembered, MgAckedIsDelivered, Mg!IsBusy
  <2>5. MgAcksInTurn'
    BY <1>1, <2>1, MgAcksTail DEF MgIInv
  <2> QED BY <2>2, <2>3, <2>4, <2>5 DEF MgIInv
<1> QED BY <1>2, <1>3 DEF Mg!Lose

(* The acknowledgement a takes answers the message it waits for: of the    *)
(* numbers of the messages before that one, none is the same.              *)
LEMMA MgRxAckStep == ASSUME MgIInv, MgNumbersSuffice, Mg!RxAck PROVE MgIInv'
<1> DEFINE msg == mgPending.msg
<1>1. /\ mgToA # <<>> /\ mgToA' = Tail(mgToA)
      /\ UNCHANGED <<mgQueue, mgNext, mgRxId, mgToB, mgBoots, mgCount, mgDelivered>>
  BY DEF Mg!RxAck
<1>2. /\ mgToA' \in Seq(Mg!Ids) /\ DOMAIN mgToA \subseteq Nat /\ DOMAIN mgToA' \subseteq Nat
      /\ 1 \in DOMAIN mgToA /\ Head(mgToA) = mgToA[1]
      /\ \A k \in DOMAIN mgToA' : k + 1 \in DOMAIN mgToA /\ mgToA'[k] = mgToA[k + 1]
  BY <1>1, MgTailIs DEF MgIInv, MgTypes
<1>3. CASE Mg!IsBusy /\ msg.id = Head(mgToA)
  <2>1. mgAcked' = mgAcked \cup {msg} /\ mgPending' = [msg |-> Mg!NoMessage, retx |-> 0] /\ ~Mg!IsBusy'
    BY <1>3 DEF Mg!RxAck, Mg!Answers, Mg!IsBusy
  <2>2. msg \in MgMessages /\ MgKnown(msg) /\ msg.boot = mgBoots
    BY <1>3, MgBusy DEF MgIInv, MgKnown, Mg!IsBusy, MgPendingNext
  <2>3. MgTypes'
    BY <1>1, <1>2, <2>1, <2>2 DEF MgIInv, MgTypes
  <2>4. MgNumbered'
    <3>1. \A x \in MgMessages : MgKnown(x)' => MgKnown(x)
      BY <1>1, <2>1, <2>2 DEF MgKnown
    <3> QED BY <1>1, <3>1, MgSameNumbers DEF MgIInv
  <2>5. /\ MgDeliveredInTurn' /\ MgAirInTurn' /\ MgQueueInTurn' /\ MgDeliveredFirst' /\ MgPendingNext'
        /\ MgQueueLast' /\ MgRemembered'
    BY <1>1, <2>1 DEF MgIInv, MgDeliveredInTurn, MgAirInTurn, MgQueueInTurn, MgDeliveredFirst, MgPendingNext,
                     MgQueueLast, MgRemembered
  <2>6. PICK w \in [DOMAIN mgToA -> DOMAIN mgDelivered] : MgOf(w)
    BY DEF MgIInv, MgAcksInTurn
  <2> DEFINE first == mgDelivered[w[1]]
  <2>7. /\ w[1] \in DOMAIN mgDelivered /\ first.id = msg.id /\ first \in MgMessages /\ MgKnown(first)
        /\ first.n <= msg.n
    BY <1>2, <1>3, <2>6 DEF MgOf, MgIInv, MgTypes, MgKnown, MgPendingNext
  <2>8. mgBoots = 1 => first = msg
    <3> SUFFICES ASSUME mgBoots = 1 PROVE first = msg
      OBVIOUS
    <3>1. first.n \in Nat \ {0} /\ msg.n \in Nat \ {0} /\ MgIdMod \in Nat \ {0}
      BY <2>2, <2>7, ManagementAssumption DEF MgMessages
    <3>2. first.boot = 1
      <4>1. first.boot <= mgBoots
        BY <2>7 DEF MgIInv, MgNumbered
      <4> QED BY <2>7, <4>1 DEF MgMessages
    <3>3. (first.n - 1) % MgIdMod = (msg.n - 1) % MgIdMod
      BY <2>2, <2>7, <3>2 DEF MgIInv, MgNumbered
    <3>4. first.n = msg.n \/ first.n + MgIdMod <= msg.n
      BY <2>7, <3>1, <3>3, MgModApart
    <3>5. ~(first.n + MgIdMod <= msg.n)
      <4>1. CASE msg.n <= MgIdMod
        BY <3>1, <4>1
      <4>2. CASE \E x \in mgAcked : msg.n < x.n + MgIdMod
        <5>1. PICK x \in mgAcked : msg.n < x.n + MgIdMod
          BY <4>2
        <5>2. x.boot = 1 /\ x.n \in Nat
          <6>1. x \in MgMessages /\ MgKnown(x)
            BY <5>1 DEF MgIInv, MgTypes, MgKnown
          <6>2. x.boot <= mgBoots
            BY <6>1 DEF MgIInv, MgNumbered
          <6> QED BY <6>1, <6>2 DEF MgMessages
        <5>3. x.n <= first.n
          BY <1>2, <2>6, <5>1, <5>2 DEF MgOf
        <5> QED BY <3>1, <5>1, <5>2, <5>3
      <4> QED BY <1>3, <4>1, <4>2 DEF MgNumbersSuffice
    <3> QED BY <2>2, <2>7, <3>4, <3>5 DEF MgIInv, MgNumbered
  <2>9. MgAckedIsDelivered'
    BY <1>1, <2>1, <2>2, <2>7, <2>8 DEF MgIInv, MgAckedIsDelivered
  <2>10. MgAcksInTurn'
    <3>1. \A k \in DOMAIN mgToA : \A x \in mgAcked' : x.boot = 1 => x.n <= mgDelivered[w[k]].n
      <4> SUFFICES ASSUME NEW k \in DOMAIN mgToA, msg.boot = 1 PROVE msg.n <= mgDelivered[w[k]].n
        BY <2>1, <2>6 DEF MgOf
      <4>1. first = msg
        BY <2>2, <2>8
      <4>2. w[1] <= w[k] /\ w[k] \in DOMAIN mgDelivered /\ mgDelivered[w[k]] \in MgMessages
        BY <1>2, <2>6 DEF MgOf, MgIInv, MgTypes
      <4>3. w[1] \in Nat /\ w[k] \in Nat
        BY <2>7, <4>2 DEF MgIInv, MgTypes
      <4>4. CASE w[1] = w[k]
        BY <2>2, <4>1, <4>4 DEF MgMessages
      <4>5. CASE w[1] < w[k]
        BY <2>2, <2>7, <4>1, <4>2, <4>5 DEF MgIInv, MgDeliveredInTurn, MgMessages
      <4> QED BY <4>2, <4>3, <4>4, <4>5
    <3> QED BY <1>1, <1>2, <2>6, <3>1, MgAcksTailOf DEF MgOf
  <2> QED BY <2>3, <2>4, <2>5, <2>9, <2>10 DEF MgIInv
<1>4. CASE ~(Mg!IsBusy /\ msg.id = Head(mgToA))
  <2>1. UNCHANGED <<mgAcked, mgPending>>
    BY <1>4 DEF Mg!RxAck, Mg!Answers
  <2>2. MgTypes'
    BY <1>1, <1>2, <2>1 DEF MgIInv, MgTypes
  <2>3. MgNumbered'
    <3>1. \A x \in MgMessages : MgKnown(x)' => MgKnown(x)
      BY <1>1, <2>1 DEF MgKnown
    <3> QED BY <1>1, <2>1, <3>1, MgSameNumbers DEF MgIInv, MgNumbered
  <2>4. /\ MgDeliveredInTurn' /\ MgAirInTurn' /\ MgQueueInTurn' /\ MgDeliveredFirst' /\ MgPendingNext'
        /\ MgQueueLast' /\ MgRemembered' /\ MgAckedIsDelivered'
    BY <1>1, <2>1 DEF MgIInv, MgDeliveredInTurn, MgAirInTurn, MgQueueInTurn, MgDeliveredFirst, MgPendingNext,
                     MgQueueLast, MgRemembered, MgAckedIsDelivered, Mg!IsBusy
  <2>5. MgAcksInTurn'
    BY <1>1, <1>2, <2>1, MgAcksTail DEF MgIInv
  <2> QED BY <2>2, <2>3, <2>4, <2>5 DEF MgIInv
<1> QED BY <1>3, <1>4

-----------------------------------------------------------------------------
LEMMA MgInitCorrect == ASSUME Mg!Init PROVE MgIInv
<1>1. MgTypes
  BY ManagementAssumption DEF Mg!Init, MgTypes, Mg!Ids
<1>2. \A x : ~MgKnown(x)
  BY DEF Mg!Init, MgKnown
<1>3. MgNumbered
  BY <1>2, ManagementAssumption DEF Mg!Init, MgNumbered
<1>4. DOMAIN mgQueue = {} /\ DOMAIN mgToB = {} /\ DOMAIN mgDelivered = {} /\ DOMAIN mgToA = {}
  BY DEF Mg!Init
<1>5. ~Mg!IsBusy
  BY DEF Mg!Init, Mg!IsBusy
<1>6. /\ MgDeliveredInTurn /\ MgAirInTurn /\ MgQueueInTurn /\ MgDeliveredFirst /\ MgPendingNext /\ MgQueueLast
      /\ MgRemembered /\ MgAckedIsDelivered
  BY <1>4, <1>5 DEF Mg!Init, MgDeliveredInTurn, MgAirInTurn, MgQueueInTurn, MgDeliveredFirst, MgPendingNext, MgQueueLast,
     MgRemembered, MgAckedIsDelivered
<1>7. MgAcksInTurn
  <2> DEFINE w == [k \in DOMAIN mgToA |-> 0]
  <2>1. w \in [DOMAIN mgToA -> DOMAIN mgDelivered]
    BY <1>4
  <2> QED BY <1>4, <2>1 DEF MgAcksInTurn, MgOf
<1> QED BY <1>1, <1>3, <1>6, <1>7 DEF MgIInv

LEMMA MgNextCorrect == ASSUME MgIInv, MgNumbersSuffice, [Mg!Next]_mgVars PROVE MgIInv'
<1>1. CASE Mg!Next
  BY <1>1, MgSendStep, MgTxNextStep, MgTxAgainStep, MgTxGiveUpStep, MgRxMessageStep, MgRxAckStep, MgLoseStep,
     MgRestartStep DEF Mg!Next
<1>2. CASE UNCHANGED mgVars
  <2>1. UNCHANGED <<mgQueue, mgNext, mgPending, mgRxId, mgToB, mgToA, mgBoots, mgCount, mgDelivered, mgAcked>>
    BY <1>2 DEF mgVars
  <2>2. \A x : MgKnown(x)' <=> MgKnown(x)
    BY <2>1 DEF MgKnown
  <2>3. MgTypes' /\ MgNumbered'
    BY <2>1, <2>2 DEF MgIInv, MgTypes, MgNumbered
  <2> QED BY <2>1, <2>3, MgSameAcks DEF MgIInv, MgDeliveredInTurn, MgAirInTurn, MgQueueInTurn, MgDeliveredFirst,
        MgPendingNext, MgQueueLast, MgRemembered, Mg!IsBusy
<1> QED BY <1>1, <1>2

LEMMA MgImplies == ASSUME MgIInv PROVE Mg!ManagedOnce
<1>1. \A i, j \in DOMAIN mgDelivered : mgDelivered[i] = mgDelivered[j] => i = j
  <2> SUFFICES ASSUME NEW i \in DOMAIN mgDelivered, NEW j \in DOMAIN mgDelivered, mgDelivered[i] = mgDelivered[j],
                      i < j \/ j < i
               PROVE  FALSE
    BY DEF MgIInv, MgTypes
  <2>1. mgDelivered[i].n \in Nat /\ mgDelivered[j].n \in Nat
    <3>1. mgDelivered[i] \in MgMessages /\ mgDelivered[j] \in MgMessages
      BY DEF MgIInv, MgTypes
    <3> QED BY <3>1 DEF MgMessages
  <2> QED BY <2>1 DEF MgIInv, MgDeliveredInTurn
<1>2. \A msg \in mgAcked : msg.boot = 1 => msg \in Mg!Range(mgDelivered)
  BY DEF MgIInv, MgAckedIsDelivered, Mg!Range
<1> QED BY <1>1, <1>2 DEF Mg!ManagedOnce

(* A node that numbers few messages is not at its end with the numbers.    *)
LEMMA MgFewSuffice == ASSUME MgMaxMsg <= MgIdMod, MgIInv, mgCount <= MgMaxMsg PROVE MgNumbersSuffice
<1> SUFFICES ASSUME Mg!IsBusy PROVE mgPending.msg.n <= MgIdMod
  BY DEF MgNumbersSuffice
<1>1. mgPending.msg \in MgMessages /\ MgKnown(mgPending.msg)
  BY MgBusy DEF MgIInv, MgKnown, Mg!IsBusy
<1>2. mgPending.msg.n <= mgCount
  BY <1>1 DEF MgIInv, MgNumbered
<1>3. mgPending.msg.n \in Nat /\ mgCount \in Nat
  BY <1>1 DEF MgIInv, MgTypes, MgMessages
<1> QED BY <1>2, <1>3, ManagementAssumption

LEMMA MgCountStep == ASSUME mgCount <= MgMaxMsg, MgIInv, [Mg!Next]_mgVars PROVE (mgCount <= MgMaxMsg)'
<1>1. CASE Mg!Send
  BY <1>1, ManagementAssumption DEF Mg!Send, MgIInv, MgTypes
<1>2. CASE UNCHANGED mgCount
  BY <1>2
<1> QED BY <1>1, <1>2
        DEF Mg!Next, mgVars, Mg!TxNext, Mg!TxAgain, Mg!TxGiveUp, Mg!RxMessage, Mg!RxAck, Mg!Lose, Mg!Restart

(* A management message is delivered once at most, and one that was        *)
(* acknowledged has been delivered, whatever is lost, repeated or late:    *)
(* as long as, of as many messages in a row as there are numbers, not all  *)
(* are given up (process_tx, process_rx).  A message of a sender that was  *)
(* started again may be acknowledged in the place of another: neither the  *)
(* property nor the hypothesis speaks of those.                            *)
THEOREM ManagedHolds == Spec /\ []MgNumbersSuffice => []ManagedOnce
<1>1. Init => MgIInv
  BY MgInitCorrect DEF Init
<1>2. MgIInv /\ MgNumbersSuffice /\ [Next]_vars => MgIInv'
  <2> SUFFICES ASSUME MgIInv, MgNumbersSuffice, [Next]_vars PROVE MgIInv'
    OBVIOUS
  <2>1. [Mg!Next]_mgVars
    BY DEF Next, vars, DtsNext, MgNext, NaNext, RsNext, SgNext, TcNext
  <2> QED BY <2>1, MgNextCorrect
<1>3. MgIInv => ManagedOnce
  BY MgImplies DEF ManagedOnce
<1> QED BY <1>1, <1>2, <1>3, PTL DEF Spec

(* With no more messages than numbers, 256 in the code, the hypothesis     *)
(* always holds: the bounds of the run are such (_next_frame_id).          *)
THEOREM ManagedOfFew == ASSUME MgMaxMsg <= MgIdMod PROVE Spec => []ManagedOnce
<1> DEFINE Few == MgIInv /\ mgCount <= MgMaxMsg
<1>1. Init => Few
  BY MgInitCorrect, ManagementAssumption DEF Init, Mg!Init
<1>2. Few /\ [Next]_vars => Few'
  <2> SUFFICES ASSUME Few, [Next]_vars PROVE Few'
    OBVIOUS
  <2>1. [Mg!Next]_mgVars
    BY DEF Next, vars, DtsNext, MgNext, NaNext, RsNext, SgNext, TcNext
  <2> QED BY <2>1, MgNextCorrect, MgFewSuffice, MgCountStep
<1>3. Few => ManagedOnce
  BY MgImplies DEF ManagedOnce
<1> QED BY <1>1, <1>2, <1>3, PTL DEF Spec

-----------------------------------------------------------------------------
(***************************************************************************)
(* Data without acknowledgement: the pieces that are put together under    *)
(* one number are of one C_PDU, or of several that met under it.           *)
(***************************************************************************)
NaTypeOK ==
  /\ naQueues \in [NaTypes -> Seq(Na!Cpdu)] /\ naNext \in [NaTypes -> Na!Ids]
  /\ naAir \in Seq(Na!Dpdu)
  /\ naAsm \in [Na!Ids -> Na!Assembly \cup {None}]
  /\ naCount \in 0 .. NaMaxCpdu

(* The C_PDUs of which there is something: queued, on the air or in parts. *)
NaQueued(x) ==
  \E t \in NaTypes : \E i \in DOMAIN naQueues[t] :
    LET c == naQueues[t][i] IN x = [n |-> c.n, id |-> c.id, size |-> c.size]
NaOnAir(x) ==
  \E i \in DOMAIN naAir : x = [n |-> naAir[i].unit.n, id |-> naAir[i].id, size |-> naAir[i].unit.size]
NaInPart(x) ==
  \E i \in Na!Ids : /\ naAsm[i] # None
                    /\ \E p \in 0 .. naAsm[i].size - 1 :
                         /\ naAsm[i].got[p] # None
                         /\ x = [n |-> naAsm[i].got[p].n, id |-> i, size |-> naAsm[i].got[p].size]
NaAbout(x) == NaQueued(x) \/ NaOnAir(x) \/ NaInPart(x)
NaTags == [n : 1 .. NaMaxCpdu, id : Na!Ids, size : 1 .. NaMaxSegments]

(* All that is left of a C_PDU carries its number and its size.            *)
NaTold ==
  /\ \A x, y \in NaTags : NaAbout(x) /\ NaAbout(y) /\ x.n = y.n => x = y
  /\ \A x \in NaTags : NaAbout(x) => x.n <= naCount

(* Of the C_PDUs of one number there are about, all have met another.      *)
NaMeet ==
  \A x, y \in NaTags :
    NaAbout(x) /\ NaAbout(y) /\ x.id = y.id => x.n = y.n \/ (x.n \in naMet /\ y.n \in naMet)

(* A unit is kept in its place, no entry is kept for nothing, and what is  *)
(* kept under another size than its own is of a C_PDU that met another.    *)
NaPlaces ==
  /\ \A i \in DOMAIN naAir : naAir[i].unit.pos < naAir[i].unit.size
  /\ \A i \in Na!Ids : naAsm[i] # None =>
       /\ \A p \in 0 .. NaMaxSegments - 1 : naAsm[i].got[p] # None => naAsm[i].got[p].pos = p
       /\ \E p \in 0 .. naAsm[i].size - 1 : naAsm[i].got[p] # None
       /\ \A p \in 0 .. naAsm[i].size - 1 : naAsm[i].got[p] # None =>
            naAsm[i].got[p].size = naAsm[i].size \/ naAsm[i].got[p].n \in naMet

NaIInv == NaTypeOK /\ NaTold /\ NaMeet /\ NaPlaces /\ Na!CompleteIsOneCpdu
-----------------------------------------------------------------------------
LEMMA NaCardinalityIs == ASSUME NEW S PROVE Na!Cardinality(S) = Cardinality(S)
BY DEF Na!Cardinality, Cardinality

LEMMA NaUnits ==
  ASSUME NaTypeOK, NEW i \in Na!Ids, naAsm[i] # None
  PROVE  /\ naAsm[i] \in Na!Assembly /\ naAsm[i].size \in 1 .. NaMaxSegments
         /\ naAsm[i].got \in [0 .. NaMaxSegments - 1 -> Na!Unit \cup {None}]
         /\ \A p \in 0 .. naAsm[i].size - 1 : p \in 0 .. NaMaxSegments - 1
<1>1. naAsm[i] \in Na!Assembly
  BY DEF NaTypeOK
<1>2. naAsm[i].size \in 1 .. NaMaxSegments /\ naAsm[i].got \in [0 .. NaMaxSegments - 1 -> Na!Unit \cup {None}]
  BY <1>1 DEF Na!Assembly
<1> QED BY <1>1, <1>2, NonArqAssumption

LEMMA NaTailOf ==
  ASSUME NEW S, NEW s \in Seq(S), s # <<>>
  PROVE  /\ Tail(s) \in Seq(S) /\ Head(s) \in S /\ 1 \in DOMAIN s /\ Head(s) = s[1]
         /\ \A i \in DOMAIN Tail(s) : i + 1 \in DOMAIN s /\ Tail(s)[i] = s[i + 1]
OBVIOUS

LEMMA NaPrepend ==
  ASSUME NEW S, NEW d \in S, NEW s \in Seq(S), NEW r, r = <<d>> \o s
  PROVE  /\ r \in Seq(S)
         /\ \A i \in DOMAIN r : r[i] = d \/ \E j \in DOMAIN s : r[i] = s[j]
<1>1. <<d>> \in Seq(S) /\ Len(<<d>>) = 1 /\ <<d>>[1] = d
  OBVIOUS
<1>2. r \in Seq(S) /\ DOMAIN r = 1 .. 1 + Len(s) /\ Len(s) \in Nat /\ DOMAIN s = 1 .. Len(s)
  BY <1>1
<1>3. \A i \in 1 .. 1 + Len(s) : i = 1 \/ i - 1 \in 1 .. Len(s)
  BY <1>2
<1>4. r[1] = d
  BY <1>1
<1>5. \A i \in 1 .. 1 + Len(s) : i # 1 => r[i] = s[i - 1]
  BY <1>1, <1>2
<1> QED BY <1>2, <1>3, <1>4, <1>5

(* What keeps the C_PDUs there are, or makes them fewer.                   *)
LEMMA NaToldKept ==
  ASSUME NaTold, NaMeet, UNCHANGED <<naCount, naMet>>, \A x \in NaTags : NaAbout(x)' => NaAbout(x)
  PROVE  NaTold' /\ NaMeet'
BY DEF NaTold, NaMeet

LEMMA NaInitCorrect == ASSUME Na!Init PROVE NaIInv
<1>1. NaTypeOK
  BY NonArqAssumption DEF Na!Init, NaTypeOK, Na!Ids
<1>2. \A x : ~NaAbout(x)
  BY DEF Na!Init, NaAbout, NaQueued, NaOnAir, NaInPart
<1>3. NaTold /\ NaMeet /\ NaPlaces
  BY <1>2 DEF Na!Init, NaTold, NaMeet, NaPlaces
<1> QED BY <1>1, <1>3 DEF NaIInv, Na!CompleteIsOneCpdu, Na!Init

LEMMA NaQueueIs ==
  ASSUME NaIInv, NEW t \in NaTypes, NEW s \in 1 .. NaMaxSegments, Na!QueueCpdu(t, s)
  PROVE  \A x : NaAbout(x)' => NaAbout(x) \/ x = [n |-> naCount + 1, id |-> naNext[t], size |-> s]
<1> DEFINE c == [n |-> naCount + 1, type |-> t, id |-> naNext[t], size |-> s]
           tag == [n |-> naCount + 1, id |-> naNext[t], size |-> s]
<1>1. /\ naCount' = naCount + 1
      /\ naQueues' = [naQueues EXCEPT ![t] = Append(naQueues[t], c)]
      /\ UNCHANGED <<naAir, naAsm>>
  BY DEF Na!QueueCpdu
<1>2. c \in Na!Cpdu
  <2>1. naCount + 1 \in 1 .. NaMaxCpdu
    BY NonArqAssumption DEF Na!QueueCpdu, NaIInv, NaTypeOK
  <2> QED BY <2>1 DEF NaIInv, NaTypeOK, Na!Cpdu
<1>3. \A x : NaAbout(x)' => NaAbout(x) \/ x = tag
  <2>1. \A u \in NaTypes : \A i \in DOMAIN naQueues'[u] :
          \/ i \in DOMAIN naQueues[u] /\ naQueues'[u][i] = naQueues[u][i]
          \/ naQueues'[u][i] = c
    <3> SUFFICES ASSUME NEW u \in NaTypes, NEW i \in DOMAIN naQueues'[u]
                 PROVE  \/ i \in DOMAIN naQueues[u] /\ naQueues'[u][i] = naQueues[u][i]
                        \/ naQueues'[u][i] = c
      OBVIOUS
    <3>1. naQueues[u] \in Seq(Na!Cpdu)
      BY DEF NaIInv, NaTypeOK
    <3>2. naQueues'[u] = naQueues[u] \/ naQueues'[u] = Append(naQueues[u], c)
      BY <1>1 DEF NaIInv, NaTypeOK
    <3>3. CASE naQueues'[u] = naQueues[u]
      BY <3>3
    <3>4. CASE naQueues'[u] = Append(naQueues[u], c)
      BY <1>2, <3>1, <3>4
    <3> QED BY <3>2, <3>3, <3>4
  <2>2. ASSUME NEW x, NaQueued(x)' PROVE NaQueued(x) \/ x = tag
    BY <2>1, <2>2 DEF NaQueued
  <2> QED BY <1>1, <2>2 DEF NaAbout, NaOnAir, NaInPart
<1> QED BY <1>3

(* What is about under a number is what is left of it.                     *)
LEMMA NaLeftIs ==
  ASSUME NEW x \in NaTags, NaAbout(x)
  PROVE  x.n \in Na!LeftOf(x.id)
<1>1. CASE NaQueued(x)
  <2>1. PICK t \in NaTypes : \E i \in DOMAIN naQueues[t] :
          naQueues[t][i].n = x.n /\ naQueues[t][i].id = x.id
    BY <1>1 DEF NaQueued
  <2>2. PICK c : c \in Na!ToSet(naQueues[t]) /\ c.n = x.n /\ c.id = x.id
    BY <2>1 DEF Na!ToSet
  <2>3. c \in UNION {Na!ToSet(naQueues[u]) : u \in NaTypes}
    BY <2>2
  <2> QED BY <2>2, <2>3 DEF Na!LeftOf
<1>2. CASE NaOnAir(x)
  <2>1. PICK i \in DOMAIN naAir : naAir[i].unit.n = x.n /\ naAir[i].id = x.id
    BY <1>2 DEF NaOnAir
  <2>2. naAir[i] \in Na!ToSet(naAir)
    BY DEF Na!ToSet
  <2> QED BY <2>1, <2>2 DEF Na!LeftOf
<1>3. CASE NaInPart(x)
  <2>1. PICK p \in 0 .. naAsm[x.id].size - 1 :
          naAsm[x.id] # None /\ naAsm[x.id].got[p] # None /\ x.n = naAsm[x.id].got[p].n
    BY <1>3 DEF NaInPart
  <2>2. naAsm[x.id].got[p] \in Na!Got(naAsm[x.id])
    BY <2>1 DEF Na!Got
  <2> QED BY <2>1, <2>2 DEF Na!LeftOf
<1> QED BY <1>1, <1>2, <1>3 DEF NaAbout

LEMMA NaQueueStep ==
  ASSUME NaIInv, NEW t \in NaTypes, NEW s \in 1 .. NaMaxSegments, Na!QueueCpdu(t, s)
  PROVE  NaIInv'
<1> DEFINE c == [n |-> naCount + 1, type |-> t, id |-> naNext[t], size |-> s]
           tag == [n |-> naCount + 1, id |-> naNext[t], size |-> s]
<1>1. /\ naCount < NaMaxCpdu /\ naCount' = naCount + 1
      /\ naQueues' = [naQueues EXCEPT ![t] = Append(naQueues[t], c)]
      /\ naNext' = [naNext EXCEPT ![t] = (naNext[t] + 1) % NaIdMod]
      /\ naMet' = IF Na!LeftOf(naNext[t]) = {} THEN naMet
                  ELSE naMet \cup Na!LeftOf(naNext[t]) \cup {naCount + 1}
      /\ UNCHANGED <<naAir, naAsm, naDelivered, naDamages>>
  BY DEF Na!QueueCpdu, Na!NextId
<1>2. naCount' \in 1 .. NaMaxCpdu /\ c \in Na!Cpdu /\ tag \in NaTags
  BY <1>1, NonArqAssumption DEF NaIInv, NaTypeOK, Na!Cpdu, NaTags
<1>3. NaTypeOK'
  <2>1. naQueues' \in [NaTypes -> Seq(Na!Cpdu)]
    BY <1>1, <1>2 DEF NaIInv, NaTypeOK
  <2>2. naNext' \in [NaTypes -> Na!Ids]
    BY <1>1, NonArqAssumption DEF NaIInv, NaTypeOK, Na!Ids
  <2> QED BY <1>1, <1>2, <2>1, <2>2 DEF NaIInv, NaTypeOK
<1>4. \A x : NaAbout(x)' => NaAbout(x) \/ x = tag
  BY NaQueueIs
<1>5. NaTold'
  <2>1. \A x \in NaTags : NaAbout(x) => x.n < naCount + 1
    BY DEF NaIInv, NaTold, NaTypeOK, NaTags
  <2>2. \A x \in NaTags : NaAbout(x)' => x.n <= naCount'
    <3>1. naCount \in Nat /\ naCount' = naCount + 1 /\ tag.n = naCount + 1
      BY <1>1 DEF NaIInv, NaTypeOK
    <3>2. ASSUME NEW x \in NaTags, NaAbout(x)' PROVE x.n <= naCount'
      <4>1. x.n \in Nat
        BY DEF NaTags
      <4>2. x.n < naCount + 1 \/ x.n = naCount + 1
        BY <1>4, <2>1, <3>1, <3>2
      <4> QED BY <3>1, <4>1, <4>2
    <3> QED BY <3>2
  <2>3. \A x \in NaTags : NaAbout(x) => x.n # tag.n
    BY <2>1 DEF NaIInv, NaTypeOK, NaTags
  <2>4. \A x, y \in NaTags : NaAbout(x)' /\ NaAbout(y)' /\ x.n = y.n => x = y
    BY <1>4, <2>3 DEF NaIInv, NaTold
  <2> QED BY <2>2, <2>4 DEF NaTold
<1>6. naMet \subseteq naMet'
  BY <1>1
<1>7. NaMeet'
  <2>1. ASSUME NEW x \in NaTags, NaAbout(x), x.id = tag.id PROVE x.n \in naMet' /\ tag.n \in naMet'
    <3>1. x.n \in Na!LeftOf(naNext[t])
      BY <2>1, NaLeftIs
    <3> QED BY <1>1, <3>1
  <2> SUFFICES ASSUME NEW x \in NaTags, NEW y \in NaTags, NaAbout(x)', NaAbout(y)', x.id = y.id
               PROVE  x.n = y.n \/ (x.n \in naMet' /\ y.n \in naMet')
    BY DEF NaMeet
  <2>2. CASE NaAbout(x) /\ NaAbout(y)
    BY <1>6, <2>2 DEF NaIInv, NaMeet
  <2>3. CASE x = tag /\ y = tag
    BY <2>3
  <2>4. CASE NaAbout(x) /\ y = tag
    BY <2>1, <2>4
  <2>5. CASE x = tag /\ NaAbout(y)
    BY <2>1, <2>5
  <2> QED BY <1>4, <2>2, <2>3, <2>4, <2>5
<1>8. NaPlaces' /\ Na!CompleteIsOneCpdu'
  BY <1>1, <1>6 DEF NaIInv, NaPlaces, Na!CompleteIsOneCpdu
<1> QED BY <1>3, <1>5, <1>7, <1>8 DEF NaIInv

LEMMA NaProcessTxStep ==
  ASSUME NaIInv, NEW t \in NaTypes, Na!ProcessTx(t)
  PROVE  NaIInv' /\ \A x : NaAbout(x)' => NaAbout(x)
<1> DEFINE c == Head(naQueues[t])
           tag == [n |-> c.n, id |-> c.id, size |-> c.size]
           burst == Na!Burst(c)
<1>1. /\ naQueues[t] # <<>> /\ naAir' = naAir \o burst
      /\ naQueues' = [naQueues EXCEPT ![t] = Tail(naQueues[t])]
      /\ UNCHANGED <<naNext, naAsm, naDelivered, naCount, naDamages, naMet>>
  BY DEF Na!ProcessTx, Na!Waits
<1>2. naQueues[t] \in Seq(Na!Cpdu) /\ naAir \in Seq(Na!Dpdu)
  BY DEF NaIInv, NaTypeOK
<1>3. c \in Na!Cpdu /\ 1 \in DOMAIN naQueues[t] /\ c = naQueues[t][1]
  BY <1>1, <1>2
<1>4. /\ c.n \in 1 .. NaMaxCpdu /\ c.id \in Na!Ids /\ c.size \in 1 .. NaMaxSegments /\ c.type \in NaTypes
      /\ c.size \in Nat
  BY <1>3 DEF Na!Cpdu
<1>5. /\ burst \in Seq(Na!Dpdu)
      /\ \A k \in DOMAIN burst :
           /\ burst[k].unit.pos < burst[k].unit.size
           /\ [n |-> burst[k].unit.n, id |-> burst[k].id, size |-> burst[k].unit.size] = tag
  <2>1. burst = [k \in 1 .. c.size |-> [id |-> c.id, type |-> c.type,
                   unit |-> [n |-> c.n, size |-> c.size, pos |-> k - 1, ok |-> TRUE]]]
    BY DEF Na!Burst
  <2>2. \A k \in 1 .. c.size : burst[k] \in Na!Dpdu
    <3>1. \A k \in 1 .. c.size : k - 1 \in 0 .. NaMaxSegments - 1
      BY <1>4, NonArqAssumption
    <3>2. \A k \in 1 .. c.size : [n |-> c.n, size |-> c.size, pos |-> k - 1, ok |-> TRUE] \in Na!Unit
      BY <1>4, <3>1 DEF Na!Unit
    <3> QED BY <1>4, <2>1, <3>2 DEF Na!Dpdu
  <2>3. burst \in Seq(Na!Dpdu) /\ DOMAIN burst = 1 .. c.size
    BY <1>4, <2>1, <2>2
  <2>4. ASSUME NEW k \in 1 .. c.size
        PROVE  /\ burst[k].unit.pos < burst[k].unit.size
               /\ [n |-> burst[k].unit.n, id |-> burst[k].id, size |-> burst[k].unit.size] = tag
    <3>1. burst[k] = [id |-> c.id, type |-> c.type,
                      unit |-> [n |-> c.n, size |-> c.size, pos |-> k - 1, ok |-> TRUE]]
      BY <2>1
    <3>2. k - 1 < c.size
      BY <1>4
    <3> QED BY <3>1, <3>2
  <2> QED BY <2>3, <2>4
<1>6. NaTypeOK'
  <2>1. naQueues' \in [NaTypes -> Seq(Na!Cpdu)]
    BY <1>1, <1>2 DEF NaIInv, NaTypeOK
  <2>2. naAir' \in Seq(Na!Dpdu)
    BY <1>1, <1>2, <1>5
  <2> QED BY <1>1, <2>1, <2>2 DEF NaIInv, NaTypeOK
<1>7. \A i \in DOMAIN naAir' : \/ i \in DOMAIN naAir /\ naAir'[i] = naAir[i]
                               \/ \E k \in DOMAIN burst : naAir'[i] = burst[k]
  <2>1. \A i \in 1 .. Len(naAir) + Len(burst) :
          i \in 1 .. Len(naAir) \/ i - Len(naAir) \in 1 .. Len(burst)
    BY <1>2, <1>5
  <2> QED BY <1>1, <1>2, <1>5, <2>1
<1>8. \A x : NaAbout(x)' => NaAbout(x)
  <2>1. NaQueued(tag)
    BY <1>3 DEF NaQueued
  <2>2. ASSUME NEW x, NaOnAir(x)' PROVE NaOnAir(x) \/ x = tag
    BY <1>5, <1>7, <2>2 DEF NaOnAir
  <2>3. \A u \in NaTypes : \A i \in DOMAIN naQueues'[u] :
          \E j \in DOMAIN naQueues[u] : naQueues'[u][i] = naQueues[u][j]
    <3> SUFFICES ASSUME NEW u \in NaTypes, NEW i \in DOMAIN naQueues'[u]
                 PROVE  \E j \in DOMAIN naQueues[u] : naQueues'[u][i] = naQueues[u][j]
      OBVIOUS
    <3>1. CASE u = t
      <4>1. naQueues'[u] = Tail(naQueues[t])
        BY <1>1, <3>1 DEF NaIInv, NaTypeOK
      <4>2. i + 1 \in DOMAIN naQueues[t] /\ Tail(naQueues[t])[i] = naQueues[t][i + 1]
        BY <1>1, <1>2, <4>1, NaTailOf
      <4> QED BY <3>1, <4>1, <4>2
    <3>2. CASE u # t
      BY <1>1, <3>2 DEF NaIInv, NaTypeOK
    <3> QED BY <3>1, <3>2
  <2>4. ASSUME NEW x, NaQueued(x)' PROVE NaQueued(x)
    BY <2>3, <2>4 DEF NaQueued
  <2> QED BY <1>1, <2>1, <2>2, <2>4 DEF NaAbout, NaInPart
<1>9. NaPlaces'
  BY <1>1, <1>5, <1>7 DEF NaIInv, NaPlaces
<1> QED BY <1>1, <1>6, <1>8, <1>9, NaToldKept DEF NaIInv, Na!CompleteIsOneCpdu

LEMMA NaLoseStep == ASSUME NaIInv, Na!Lose PROVE NaIInv' /\ \A x : NaAbout(x)' => NaAbout(x)
<1>1. naAir # <<>> /\ naAir' = Tail(naAir) /\ UNCHANGED <<naQueues, naNext, naAsm, naDelivered, naCount, naDamages, naMet>>
  BY DEF Na!Lose
<1>2. /\ Tail(naAir) \in Seq(Na!Dpdu)
      /\ \A i \in DOMAIN naAir' : i + 1 \in DOMAIN naAir /\ naAir'[i] = naAir[i + 1]
  BY <1>1, NaTailOf DEF NaIInv, NaTypeOK
<1>3. \A x : NaAbout(x)' => NaAbout(x)
  BY <1>1, <1>2 DEF NaAbout, NaQueued, NaOnAir, NaInPart
<1>4. NaTypeOK' /\ NaPlaces'
  BY <1>1, <1>2 DEF NaIInv, NaTypeOK, NaPlaces
<1> QED BY <1>1, <1>3, <1>4, NaToldKept DEF NaIInv, Na!CompleteIsOneCpdu

LEMMA NaDamageStep == ASSUME NaIInv, Na!Damage PROVE NaIInv' /\ \A x : NaAbout(x)' => NaAbout(x)
<1> DEFINE d == [Head(naAir) EXCEPT !.unit.ok = FALSE]
<1>1. /\ naAir # <<>> /\ naAir' = <<d>> \o Tail(naAir)
      /\ UNCHANGED <<naQueues, naNext, naAsm, naDelivered, naCount, naMet>>
  BY DEF Na!Damage
<1>2. /\ Head(naAir) \in Na!Dpdu /\ Tail(naAir) \in Seq(Na!Dpdu) /\ 1 \in DOMAIN naAir /\ Head(naAir) = naAir[1]
      /\ \A i \in DOMAIN Tail(naAir) : i + 1 \in DOMAIN naAir /\ Tail(naAir)[i] = naAir[i + 1]
  BY <1>1, NaTailOf DEF NaIInv, NaTypeOK
<1>3. d \in Na!Dpdu /\ d.id = naAir[1].id /\ d.unit.size = naAir[1].unit.size
      /\ d.unit.n = naAir[1].unit.n /\ d.unit.pos = naAir[1].unit.pos
  BY <1>2 DEF Na!Dpdu, Na!Unit
<1>4. /\ naAir' \in Seq(Na!Dpdu)
      /\ \A i \in DOMAIN naAir' : naAir'[i] = d \/ \E j \in DOMAIN naAir : naAir'[i] = naAir[j]
  <2>1. PICK e : e = d
    OBVIOUS
  <2>2. PICK s : s = Tail(naAir)
    OBVIOUS
  <2>3. PICK r : r = naAir'
    OBVIOUS
  <2>4. e \in Na!Dpdu /\ s \in Seq(Na!Dpdu) /\ r = <<e>> \o s
    BY <1>1, <1>2, <1>3, <2>1, <2>2, <2>3
  <2>5. r \in Seq(Na!Dpdu) /\ \A i \in DOMAIN r : r[i] = e \/ \E j \in DOMAIN s : r[i] = s[j]
    BY <2>4, NaPrepend
  <2>6. \A j \in DOMAIN s : \E k \in DOMAIN naAir : s[j] = naAir[k]
    BY <1>2, <2>2
  <2>7. \A i \in DOMAIN r : r[i] = e \/ \E k \in DOMAIN naAir : r[i] = naAir[k]
    BY <2>5, <2>6
  <2> QED BY <2>1, <2>3, <2>5, <2>7
<1>5. \A x : NaAbout(x)' => NaAbout(x)
  <2>1. ASSUME NEW x, NaOnAir(x)' PROVE NaOnAir(x)
    <3>1. PICK i \in DOMAIN naAir' :
            x = [n |-> naAir'[i].unit.n, id |-> naAir'[i].id, size |-> naAir'[i].unit.size]
      BY <2>1 DEF NaOnAir
    <3>2. \E j \in DOMAIN naAir :
            naAir[j].unit.n = naAir'[i].unit.n /\ naAir[j].id = naAir'[i].id
            /\ naAir[j].unit.size = naAir'[i].unit.size
      BY <1>2, <1>3, <1>4
    <3> QED BY <3>1, <3>2 DEF NaOnAir
  <2> QED BY <1>1, <2>1 DEF NaAbout, NaQueued, NaInPart
<1>6. NaTypeOK' /\ NaPlaces'
  <2>1. \A i \in DOMAIN naAir' : naAir'[i].unit.pos < naAir'[i].unit.size
    BY <1>2, <1>3, <1>4 DEF NaIInv, NaPlaces
  <2> QED BY <1>1, <1>4, <2>1 DEF NaIInv, NaTypeOK, NaPlaces
<1> QED BY <1>1, <1>5, <1>6, NaToldKept DEF NaIInv, Na!CompleteIsOneCpdu

(***************************************************************************)
(* A D_PDU fits what was put together under its number: both are of one    *)
(* C_PDU, or of two that met, or there is nothing yet.                     *)
(***************************************************************************)
NaTagOf(u, id) == [n |-> u.n, id |-> id, size |-> u.size]

LEMMA NaTagIs ==
  ASSUME NEW u \in Na!Unit, NEW id \in Na!Ids
  PROVE  NaTagOf(u, id) \in NaTags /\ NaTagOf(u, id).n = u.n /\ NaTagOf(u, id).id = id
BY DEF Na!Unit, NaTags, NaTagOf

\* What an entry holds is about, in its place, and of the size of the entry.
NaHolds(a, id) ==
  /\ \A p \in 0 .. NaMaxSegments - 1 : a.got[p] # None => a.got[p].pos = p
  /\ \A p \in 0 .. a.size - 1 : a.got[p] # None =>
       NaAbout(NaTagOf(a.got[p], id)) /\ (a.got[p].size = a.size \/ a.got[p].n \in naMet)

LEMMA NaEntryIs ==
  ASSUME NaIInv, naAir # <<>>, NEW d, d = Head(naAir)
  PROVE  /\ d \in Na!Dpdu /\ d.unit \in Na!Unit /\ d.id \in Na!Ids
         /\ d.unit.pos \in Nat /\ NaAbout(NaTagOf(d.unit, d.id))
         /\ Na!Entry(d) \in Na!Assembly /\ NaHolds(Na!Entry(d), d.id)
         /\ d.unit.size = Na!Entry(d).size \/ d.unit.n \in naMet
         /\ d.unit.pos < Na!Entry(d).size \/ \E p \in 0 .. Na!Entry(d).size - 1 : Na!Entry(d).got[p] # None
<1>1. d \in Na!Dpdu /\ 1 \in DOMAIN naAir /\ d = naAir[1]
  BY NaTailOf DEF NaIInv, NaTypeOK
<1>2. d.unit \in Na!Unit /\ d.id \in Na!Ids /\ d.type \in NaTypes
  BY <1>1 DEF Na!Dpdu
<1>3. /\ d.unit.pos \in Nat /\ d.unit.pos < d.unit.size /\ d.unit.size \in 1 .. NaMaxSegments
      /\ d.unit.n \in 1 .. NaMaxCpdu
  BY <1>1, <1>2, NonArqAssumption DEF NaIInv, NaPlaces, Na!Unit
<1>4. NaAbout(NaTagOf(d.unit, d.id))
  BY <1>1 DEF NaAbout, NaOnAir, NaTagOf
<1>5. CASE naAsm[d.id] = None
  <2>1. Na!Entry(d) = [type |-> d.type, size |-> d.unit.size, got |-> [p \in 0 .. NaMaxSegments - 1 |-> None]]
    BY <1>5 DEF Na!Entry
  <2>2. Na!Entry(d) \in Na!Assembly /\ Na!Entry(d).size = d.unit.size
    BY <1>2, <1>3, <2>1 DEF Na!Assembly
  <2>3. \A p \in 0 .. Na!Entry(d).size - 1 : p \in 0 .. NaMaxSegments - 1
    BY <1>3, <2>2, NonArqAssumption
  <2>4. \A p \in 0 .. NaMaxSegments - 1 : Na!Entry(d).got[p] = None
    <3>1. PICK g : g = [p \in 0 .. NaMaxSegments - 1 |-> None]
      OBVIOUS
    <3>2. Na!Entry(d).got = g
      BY <2>1, <3>1
    <3>3. \A p \in 0 .. NaMaxSegments - 1 : g[p] = None
      BY <3>1
    <3> QED BY <3>2, <3>3
  <2>5. NaHolds(Na!Entry(d), d.id)
    BY <2>3, <2>4 DEF NaHolds
  <2> QED BY <1>1, <1>2, <1>3, <1>4, <2>2, <2>5
<1>6. CASE naAsm[d.id] # None
  <2> DEFINE a == naAsm[d.id]
  <2>1. /\ a \in Na!Assembly /\ a.size \in 1 .. NaMaxSegments
        /\ a.got \in [0 .. NaMaxSegments - 1 -> Na!Unit \cup {None}]
        /\ \A p \in 0 .. a.size - 1 : p \in 0 .. NaMaxSegments - 1
    BY <1>2, <1>6, NaUnits DEF NaIInv
  <2>2. Na!Entry(d) = a
    BY <1>6 DEF Na!Entry
  <2>3. \A p \in 0 .. a.size - 1 : a.got[p] # None => NaAbout(NaTagOf(a.got[p], d.id))
    BY <1>2, <1>6 DEF NaAbout, NaInPart, NaTagOf
  <2>4. NaHolds(a, d.id)
    BY <1>2, <1>6, <2>3 DEF NaHolds, NaIInv, NaPlaces
  <2>5. PICK p \in 0 .. a.size - 1 : a.got[p] # None
    BY <1>2, <1>6 DEF NaIInv, NaPlaces
  <2>6. d.unit.size = a.size \/ d.unit.n \in naMet
    <3> DEFINE x == NaTagOf(a.got[p], d.id)
               y == NaTagOf(d.unit, d.id)
    <3>1. a.got[p] \in Na!Unit
      BY <2>1, <2>5
    <3>2. x \in NaTags /\ y \in NaTags /\ NaAbout(x) /\ NaAbout(y) /\ x.id = y.id
      BY <1>2, <1>4, <2>3, <2>5, <3>1, NaTagIs
    <3>3. x.n = a.got[p].n /\ x.size = a.got[p].size /\ y.n = d.unit.n /\ y.size = d.unit.size
      BY DEF NaTagOf
    <3>4. a.got[p].size = a.size \/ a.got[p].n \in naMet
      BY <2>4, <2>5 DEF NaHolds
    <3>5. CASE x.n = y.n
      <4>1. x = y
        BY <3>2, <3>5 DEF NaIInv, NaTold
      <4> QED BY <3>3, <3>4, <4>1
    <3>6. CASE x.n # y.n
      BY <3>2, <3>3, <3>6 DEF NaIInv, NaMeet
    <3> QED BY <3>5, <3>6
  <2> QED BY <1>1, <1>2, <1>3, <1>4, <2>1, <2>2, <2>4, <2>5, <2>6
<1> QED BY <1>5, <1>6

(* With all units of one C_PDU there, and each in its place, what is       *)
(* delivered is that C_PDU.                                                *)
LEMMA NaWhole ==
  ASSUME NEW a, a.size \in Nat \ {0}, NEW n,
         \A p \in 0 .. a.size - 1 :
           a.got[p] # None /\ a.got[p].n = n /\ a.got[p].pos = p /\ a.got[p].size = a.size
  PROVE  /\ Na!Cardinality({u.n : u \in Na!Delivery(a, TRUE).units}) = 1
         /\ {u.pos : u \in Na!Delivery(a, TRUE).units} = 0 .. Na!Delivery(a, TRUE).size - 1
         /\ \A u \in Na!Delivery(a, TRUE).units : u.size = Na!Delivery(a, TRUE).size
<1> DEFINE units == {a.got[p] : p \in 0 .. a.size - 1}
<1>1. Na!Delivery(a, TRUE).units = units /\ Na!Delivery(a, TRUE).size = a.size
  BY DEF Na!Delivery, Na!Got
<1>2. 0 \in 0 .. a.size - 1
  OBVIOUS
<1>3. {u.n : u \in units} = {n}
  BY <1>2
<1>4. {u.pos : u \in units} = 0 .. a.size - 1 /\ \A u \in units : u.size = a.size
  OBVIOUS
<1>5. Cardinality({n}) = 1
  BY FS_Singleton
<1> QED BY <1>1, <1>3, <1>4, <1>5, NaCardinalityIs

\* The promise for one delivery.
NaGood(e) ==
  \/ /\ Na!Cardinality({u.n : u \in e.units}) = 1
     /\ {u.pos : u \in e.units} = 0 .. e.size - 1
     /\ \A u \in e.units : u.size = e.size
  \/ \E u \in e.units : u.n \in naMet

LEMMA NaCompleteIs ==
  ASSUME NaMeet, NEW a \in Na!Assembly, NEW id \in Na!Ids, NaHolds(a, id), Na!IsComplete(a)
  PROVE  NaGood(Na!Delivery(a, TRUE))
<1>1. a.size \in 1 .. NaMaxSegments /\ a.got \in [0 .. NaMaxSegments - 1 -> Na!Unit \cup {None}]
  BY DEF Na!Assembly
<1>2. a.size \in Nat \ {0} /\ \A p \in 0 .. a.size - 1 : p \in 0 .. NaMaxSegments - 1
  BY <1>1, NonArqAssumption
<1>3. \A p \in 0 .. a.size - 1 : a.got[p] # None /\ a.got[p] \in Na!Unit
  BY <1>1, <1>2 DEF Na!IsComplete
<1>4. \A p \in 0 .. a.size - 1 : a.got[p].pos = p
  BY <1>2, <1>3 DEF NaHolds
<1>5. CASE \E p \in 0 .. a.size - 1 : a.got[p].n \in naMet
  <2>1. PICK p \in 0 .. a.size - 1 : a.got[p].n \in naMet
    BY <1>5
  <2>2. a.got[p] \in Na!Delivery(a, TRUE).units
    BY <1>3 DEF Na!Delivery, Na!Got
  <2> QED BY <2>1, <2>2 DEF NaGood
<1>6. CASE \A p \in 0 .. a.size - 1 : a.got[p].n \notin naMet
  <2>1. 0 \in 0 .. a.size - 1
    BY <1>2
  <2>2. ASSUME NEW p \in 0 .. a.size - 1 PROVE a.got[p].n = a.got[0].n /\ a.got[p].size = a.size
    <3>1. a.got[p] \in Na!Unit /\ a.got[0] \in Na!Unit /\ a.got[p].n \notin naMet
      BY <1>3, <1>6, <2>1
    <3>2. NaAbout(NaTagOf(a.got[p], id)) /\ NaAbout(NaTagOf(a.got[0], id)) /\ a.got[p].size = a.size
      BY <1>3, <2>1, <3>1 DEF NaHolds
    <3> QED BY <3>1, <3>2, NaTagIs DEF NaMeet
  <2> QED BY <1>2, <1>3, <1>4, <2>2, NaWhole DEF NaGood
<1> QED BY <1>5, <1>6

(* A unit that comes into an entry is held there like the others.          *)
LEMMA NaFilledHolds ==
  ASSUME NEW e \in Na!Assembly, NEW u \in Na!Unit, NEW id \in Na!Ids, NaHolds(e, id),
         u.pos \in Nat, NaAbout(NaTagOf(u, id)), u.size = e.size \/ u.n \in naMet,
         u.pos < e.size \/ \E p \in 0 .. e.size - 1 : e.got[p] # None
  PROVE  /\ Na!Filled(e, u) \in Na!Assembly /\ NaHolds(Na!Filled(e, u), id)
         /\ \E p \in 0 .. Na!Filled(e, u).size - 1 : Na!Filled(e, u).got[p] # None
<1>1. CASE u.pos < e.size
  <2>1. PICK g : g = [e.got EXCEPT ![u.pos] = u]
    OBVIOUS
  <2>2. PICK a : a = [e EXCEPT !.got = g]
    OBVIOUS
  <2>3. Na!Filled(e, u) = a
    BY <1>1, <2>1, <2>2 DEF Na!Filled
  <2>4. e.got \in [0 .. NaMaxSegments - 1 -> Na!Unit \cup {None}] /\ e.size \in 1 .. NaMaxSegments
    BY DEF Na!Assembly
  <2>5. u.pos \in 0 .. e.size - 1 /\ u.pos \in 0 .. NaMaxSegments - 1
        /\ \A p \in 0 .. e.size - 1 : p \in 0 .. NaMaxSegments - 1
    BY <1>1, <2>4, NonArqAssumption
  <2>6. /\ g \in [0 .. NaMaxSegments - 1 -> Na!Unit \cup {None}] /\ g[u.pos] = u
        /\ \A p \in 0 .. NaMaxSegments - 1 : p # u.pos => g[p] = e.got[p]
    BY <2>1, <2>4, <2>5
  <2>7. a \in Na!Assembly /\ a.size = e.size /\ a.got = g
    BY <2>2, <2>6 DEF Na!Assembly
  <2>8. NaHolds(a, id)
    <3>1. ASSUME NEW p \in 0 .. NaMaxSegments - 1, a.got[p] # None PROVE a.got[p].pos = p
      BY <2>6, <2>7, <3>1 DEF NaHolds
    <3>2. ASSUME NEW p \in 0 .. a.size - 1, a.got[p] # None
          PROVE  NaAbout(NaTagOf(a.got[p], id)) /\ (a.got[p].size = a.size \/ a.got[p].n \in naMet)
      <4>1. CASE p = u.pos
        BY <2>6, <2>7, <4>1
      <4>2. CASE p # u.pos
        BY <2>5, <2>6, <2>7, <3>2, <4>2 DEF NaHolds
      <4> QED BY <4>1, <4>2
    <3> QED BY <3>1, <3>2 DEF NaHolds
  <2>9. u # None
    BY NonArqAssumption
  <2> QED BY <2>3, <2>5, <2>6, <2>7, <2>8, <2>9
<1>2. CASE ~(u.pos < e.size)
  BY <1>2 DEF Na!Filled
<1> QED BY <1>1, <1>2

LEMMA NaRxStep ==
  ASSUME NaIInv, Na!RxDpdu
  PROVE  NaIInv' /\ \A x : NaAbout(x)' => NaAbout(x)
<1>1. PICK d : d = Head(naAir)
  OBVIOUS
<1>2. PICK a : a = Na!Filled(Na!Entry(d), d.unit)
  OBVIOUS
<1>3. /\ naAir # <<>> /\ naAir' = Tail(naAir) /\ UNCHANGED <<naQueues, naNext, naCount, naMet>>
      /\ \/ /\ Na!IsComplete(a) /\ naDelivered' = naDelivered \cup {Na!Delivery(a, TRUE)}
            /\ naAsm' = [naAsm EXCEPT ![d.id] = None]
         \/ naAsm' = [naAsm EXCEPT ![d.id] = a] /\ naDelivered' = naDelivered
  BY <1>1, <1>2 DEF Na!RxDpdu
<1>4. d.id \in Na!Ids
  BY <1>1, <1>3, NaEntryIs
<1>5. a \in Na!Assembly /\ NaHolds(a, d.id) /\ \E p \in 0 .. a.size - 1 : a.got[p] # None
  BY <1>1, <1>2, <1>3, NaEntryIs, NaFilledHolds
<1>6. /\ Tail(naAir) \in Seq(Na!Dpdu) /\ 1 \in DOMAIN naAir /\ d = naAir[1]
      /\ \A i \in DOMAIN naAir' : i + 1 \in DOMAIN naAir /\ naAir'[i] = naAir[i + 1]
  BY <1>1, <1>3, NaTailOf DEF NaIInv, NaTypeOK
<1>7. \A i \in Na!Ids : i # d.id => naAsm'[i] = naAsm[i]
  BY <1>3 DEF NaIInv, NaTypeOK
<1>8. naAsm'[d.id] = None \/ naAsm'[d.id] = a
  BY <1>3, <1>4 DEF NaIInv, NaTypeOK
<1>9. \A x : NaAbout(x)' => NaAbout(x)
  <2>1. ASSUME NEW x, NaOnAir(x)' PROVE NaOnAir(x)
    BY <1>6, <2>1 DEF NaOnAir
  <2>2. ASSUME NEW x, NaInPart(x)' PROVE NaAbout(x)
    <3>1. PICK i \in Na!Ids : naAsm'[i] # None
                             /\ \E p \in 0 .. naAsm'[i].size - 1 :
                                  naAsm'[i].got[p] # None /\ x = NaTagOf(naAsm'[i].got[p], i)
      BY <2>2 DEF NaInPart, NaTagOf
    <3>2. PICK p \in 0 .. naAsm'[i].size - 1 :
            naAsm'[i].got[p] # None /\ x = NaTagOf(naAsm'[i].got[p], i)
      BY <3>1
    <3>3. CASE i = d.id
      BY <1>5, <1>8, <3>1, <3>2, <3>3 DEF NaHolds
    <3>4. CASE i # d.id
      BY <1>7, <3>1, <3>2, <3>4 DEF NaAbout, NaInPart, NaTagOf
    <3> QED BY <3>3, <3>4
  <2> QED BY <1>3, <2>1, <2>2 DEF NaAbout, NaQueued
<1>10. NaTypeOK'
  <2>1. naAsm' \in [Na!Ids -> Na!Assembly \cup {None}]
    BY <1>3, <1>5 DEF NaIInv, NaTypeOK
  <2> QED BY <1>3, <1>6, <2>1 DEF NaIInv, NaTypeOK
<1>11. NaPlaces'
  <2>1. \A i \in DOMAIN naAir' : naAir'[i].unit.pos < naAir'[i].unit.size
    BY <1>6 DEF NaIInv, NaPlaces
  <2>2. ASSUME NEW i \in Na!Ids, naAsm'[i] # None
        PROVE  /\ \A p \in 0 .. NaMaxSegments - 1 : naAsm'[i].got[p] # None => naAsm'[i].got[p].pos = p
               /\ \E p \in 0 .. naAsm'[i].size - 1 : naAsm'[i].got[p] # None
               /\ \A p \in 0 .. naAsm'[i].size - 1 : naAsm'[i].got[p] # None =>
                    naAsm'[i].got[p].size = naAsm'[i].size \/ naAsm'[i].got[p].n \in naMet
    <3>1. CASE i = d.id
      <4>1. naAsm'[i] = a
        BY <1>8, <2>2, <3>1
      <4> QED BY <1>5, <4>1 DEF NaHolds
    <3>2. CASE i # d.id
      BY <1>7, <2>2, <3>2 DEF NaIInv, NaPlaces
    <3> QED BY <3>1, <3>2
  <2> QED BY <1>3, <2>1, <2>2 DEF NaPlaces
<1>12. Na!CompleteIsOneCpdu'
  <2>1. CASE naDelivered' = naDelivered
    BY <1>3, <2>1 DEF NaIInv, Na!CompleteIsOneCpdu
  <2>2. CASE Na!IsComplete(a) /\ naDelivered' = naDelivered \cup {Na!Delivery(a, TRUE)}
    <3>1. NaGood(Na!Delivery(a, TRUE))
      BY <1>4, <1>5, <2>2, NaCompleteIs DEF NaIInv
    <3>2. \A e \in naDelivered : e.complete => NaGood(e)
      BY DEF NaIInv, Na!CompleteIsOneCpdu, NaGood
    <3>3. \A e \in naDelivered' : e.complete => NaGood(e)
      BY <2>2, <3>1, <3>2
    <3> QED BY <1>3, <3>3 DEF Na!CompleteIsOneCpdu, NaGood
  <2> QED BY <1>3, <2>1, <2>2
<1> QED BY <1>3, <1>9, <1>10, <1>11, <1>12, NaToldKept DEF NaIInv

LEMMA NaExpireStep ==
  ASSUME NaIInv, NEW i \in Na!Ids, Na!Expire(i)
  PROVE  NaIInv' /\ \A x : NaAbout(x)' => NaAbout(x)
<1>1. /\ naAsm' = [naAsm EXCEPT ![i] = None] /\ UNCHANGED <<naQueues, naNext, naAir, naCount, naMet>>
      /\ \A x \in naDelivered' : x \in naDelivered \/ x = Na!Delivery(naAsm[i], FALSE)
  BY DEF Na!Expire, Na!Expired
<1>2. \A j \in Na!Ids : naAsm'[j] = None \/ naAsm'[j] = naAsm[j]
  BY <1>1 DEF NaIInv, NaTypeOK
<1>3. \A x : NaAbout(x)' => NaAbout(x)
  <2>1. ASSUME NEW x, NaInPart(x)' PROVE NaInPart(x)
    BY <1>2, <2>1 DEF NaInPart
  <2> QED BY <1>1, <2>1 DEF NaAbout, NaQueued, NaOnAir
<1>4. NaTypeOK'
  BY <1>1 DEF NaIInv, NaTypeOK
<1>5. NaPlaces'
  BY <1>1, <1>2 DEF NaIInv, NaPlaces
<1>6. Na!CompleteIsOneCpdu'
  <2>1. ~Na!Delivery(naAsm[i], FALSE).complete
    BY DEF Na!Delivery
  <2> QED BY <1>1, <2>1 DEF NaIInv, Na!CompleteIsOneCpdu
<1> QED BY <1>1, <1>3, <1>4, <1>5, <1>6, NaToldKept DEF NaIInv

LEMMA NaNextCorrect == ASSUME NaIInv, [Na!Next]_naVars PROVE NaIInv'
<1>1. CASE \E t \in NaTypes, s \in 1 .. NaMaxSegments : Na!QueueCpdu(t, s)
  BY <1>1, NaQueueStep
<1>2. CASE \E t \in NaTypes : Na!ProcessTx(t)
  BY <1>2, NaProcessTxStep
<1>3. CASE Na!Lose \/ Na!Damage \/ Na!RxDpdu
  BY <1>3, NaLoseStep, NaDamageStep, NaRxStep
<1>4. CASE \E i \in Na!Ids : Na!Expire(i)
  BY <1>4, NaExpireStep
<1>5. CASE UNCHANGED naVars
  <2>1. UNCHANGED <<naQueues, naNext, naAir, naAsm, naDelivered, naCount, naMet>>
    BY <1>5 DEF naVars
  <2>2. \A x : NaAbout(x)' => NaAbout(x)
    BY <2>1 DEF NaAbout, NaQueued, NaOnAir, NaInPart
  <2>3. NaTypeOK' /\ NaPlaces' /\ Na!CompleteIsOneCpdu'
    BY <2>1 DEF NaIInv, NaTypeOK, NaPlaces, Na!CompleteIsOneCpdu
  <2>4. NaTold' /\ NaMeet'
    BY <2>1, <2>2, NaToldKept DEF NaIInv
  <2> QED BY <2>3, <2>4 DEF NaIInv
<1> QED BY <1>1, <1>2, <1>3, <1>4, <1>5 DEF Na!Next

(* A C_PDU that is delivered as complete is one C_PDU, with every unit in  *)
(* its place, whatever is lost, damaged or left over of others: or it holds*)
(* a unit of a C_PDU that had its number together with another, of the same*)
(* type or not (_process_non_arq_dpdu, _rx_assemblies, queue_cpdu).        *)
THEOREM CompleteHolds == Spec => []CompleteIsOneCpdu
<1>1. Init => NaIInv
  BY NaInitCorrect DEF Init
<1>2. NaIInv /\ [Next]_vars => NaIInv'
  <2> SUFFICES ASSUME NaIInv, [Next]_vars PROVE NaIInv'
    OBVIOUS
  <2>1. [Na!Next]_naVars
    BY DEF Next, vars, DtsNext, MgNext, NaNext, RsNext, SgNext, TcNext
  <2> QED BY <2>1, NaNextCorrect
<1>3. NaIInv => CompleteIsOneCpdu
  BY DEF NaIInv, CompleteIsOneCpdu
<1> QED BY <1>1, <1>2, <1>3, PTL DEF Spec

-----------------------------------------------------------------------------
(***************************************************************************)
(* Messages in segments: an identifier is of one message as long as a      *)
(* segment with it is under way or held, or it came round too soon.        *)
(***************************************************************************)
(* The messages sent differ in their numbers, which the history gives out  *)
(* in turn.                                                                *)
SgMessages == [no : Nat \ {0}, id : Sg!Ids, n : 1 .. SgMaxSegments, exact : BOOLEAN]
SgSentInTurn ==
  /\ sgSent \subseteq SgMessages /\ IsFiniteSet(sgSent) /\ sgNext \in Sg!Ids
  /\ \A m \in sgSent : m.no <= Cardinality(sgSent)
  /\ \A m, l \in sgSent : m.no = l.no => m = l

(* A segment is under way, or held in its place.                           *)
SgHeldIn(s, id) == \E i \in DOMAIN sgBuffers[id] : sgBuffers[id][i] = s
SgSent(s) == \E m \in sgSent : s \in Sg!SegmentsOf(m)
SgPlaces ==
  /\ sgBuffers = [id \in Sg!Ids |-> sgBuffers[id]]
  /\ \A s \in sgAir : SgSent(s)
  /\ \A id \in Sg!Ids : \A i \in DOMAIN sgBuffers[id] :
       sgBuffers[id][i].number = i /\ sgBuffers[id][i].id = id /\ SgSent(sgBuffers[id][i])

(* Of two messages with segments of one identifier, the later was sent     *)
(* when something was left of the earlier.                                 *)
SgLive(s) == s \in sgAir \/ \E id \in Sg!Ids : SgHeldIn(s, id)
SgMeet == \A s, t : SgLive(s) /\ SgLive(t) /\ s.id = t.id /\ s.no < t.no => t.no \in sgMet

SgPieces == [no : Nat, id : Sg!Ids, number : Nat, full : BOOLEAN]
SgDeliveries == sgDelivered \in Seq(Seq(SgPieces))

SgIInv == SgSentInTurn /\ SgPlaces /\ SgMeet /\ SgDeliveries /\ Sg!OnlyWholeMessages
-----------------------------------------------------------------------------
(* Cardinality as Segments takes it from FiniteSets.                       *)
LEMMA SgCardinalityIs == ASSUME NEW S PROVE Sg!Cardinality(S) = Cardinality(S)
BY DEF Sg!Cardinality, Cardinality

LEMMA SgSegmentIs ==
  ASSUME NEW m \in SgMessages, NEW s \in Sg!SegmentsOf(m)
  PROVE  /\ s.no = m.no /\ s.id = m.id /\ s.number \in 0 .. m.n - 1 /\ s.number \in Nat
         /\ ~s.full => s.number = m.n - 1
         /\ s \in SgPieces
<1>1. PICK i \in 0 .. m.n - 1 :
        s = [no |-> m.no, id |-> m.id, number |-> i, full |-> i < m.n - 1 \/ m.exact]
  BY DEF Sg!SegmentsOf
<1>2. m.no \in Nat /\ m.id \in Sg!Ids /\ m.n \in Nat /\ m.exact \in BOOLEAN
  BY DEF SgMessages
<1>3. s \in SgPieces
  BY <1>1, <1>2 DEF SgPieces
<1>4. ~s.full => s.number = m.n - 1
  <2>1. s.full = (i < m.n - 1 \/ m.exact) /\ s.number = i
    BY <1>1, Zenon
  <2>2. CASE i < m.n - 1
    <3>1. s.full
      BY <2>1, <2>2, Zenon
    <3> QED BY <3>1
  <2>3. CASE ~(i < m.n - 1)
    BY <1>2, <2>1, <2>3
  <2> QED BY <2>2, <2>3
<1> QED BY <1>1, <1>2, <1>3, <1>4

LEMMA SgSendPlaces ==
  ASSUME SgSentInTurn, SgPlaces, NEW n \in 1 .. SgMaxSegments, NEW exact \in BOOLEAN, Sg!Send(n, exact)
  PROVE  SgSentInTurn' /\ SgPlaces'
<1> DEFINE m == [no |-> Cardinality(sgSent) + 1, id |-> sgNext, n |-> n, exact |-> exact]
<1>1. /\ sgNext' = (sgNext + 1) % SgIdMod
      /\ sgSent' = sgSent \cup {m} /\ sgAir' = sgAir \cup Sg!SegmentsOf(m)
      /\ UNCHANGED <<sgBuffers, sgDelivered>>
  BY SgCardinalityIs DEF Sg!Send, Sg!NextId
<1>2. Cardinality(sgSent) \in Nat
  BY FS_CardinalityType DEF SgSentInTurn
<1>3. m \in SgMessages /\ m \notin sgSent
  BY <1>2, SegmentsAssumption DEF SgSentInTurn, SgMessages
<1>4. SgSentInTurn'
  <2>1. IsFiniteSet(sgSent') /\ Cardinality(sgSent') = Cardinality(sgSent) + 1
    BY <1>1, <1>3, FS_AddElement DEF SgSentInTurn
  <2>2. sgNext' \in Sg!Ids
    BY <1>1, SegmentsAssumption DEF SgSentInTurn, Sg!Ids
  <2>3. sgSent' \subseteq SgMessages
    BY <1>1, <1>3 DEF SgSentInTurn
  <2>4. \A l \in sgSent : l.no <= Cardinality(sgSent) /\ l.no \in Nat
    BY DEF SgSentInTurn, SgMessages
  <2>5. \A l \in sgSent' : l.no <= Cardinality(sgSent')
    BY <1>1, <1>2, <2>1, <2>4
  <2>6. \A l, k \in sgSent' : l.no = k.no => l = k
    BY <1>1, <1>2, <2>4 DEF SgSentInTurn
  <2> QED BY <2>1, <2>2, <2>3, <2>5, <2>6 DEF SgSentInTurn
<1>5. SgPlaces'
  BY <1>1 DEF SgPlaces, SgSent
<1> QED BY <1>4, <1>5

LEMMA SgLiveIsSent ==
  ASSUME SgSentInTurn, SgPlaces, NEW s, SgLive(s)
  PROVE  /\ \E m \in sgSent : s \in Sg!SegmentsOf(m)
         /\ s.no \in Nat /\ s.no <= Cardinality(sgSent)
<1>1. SgSent(s)
  BY DEF SgLive, SgHeldIn, SgPlaces
<1>2. PICK m \in sgSent : s \in Sg!SegmentsOf(m)
  BY <1>1 DEF SgSent
<1>3. m \in SgMessages /\ m.no <= Cardinality(sgSent) /\ m.no \in Nat
  BY DEF SgSentInTurn, SgMessages
<1>4. s.no = m.no
  BY <1>2, <1>3, SgSegmentIs
<1> QED BY <1>2, <1>3, <1>4

LEMMA SgSendStep ==
  ASSUME SgIInv, NEW n \in 1 .. SgMaxSegments, NEW exact \in BOOLEAN, Sg!Send(n, exact)
  PROVE  SgIInv'
<1> DEFINE m == [no |-> Cardinality(sgSent) + 1, id |-> sgNext, n |-> n, exact |-> exact]
<1>1. /\ sgSent' = sgSent \cup {m} /\ sgAir' = sgAir \cup Sg!SegmentsOf(m)
      /\ sgMet' = IF Sg!IsLeft(sgNext) THEN sgMet \cup {m.no} ELSE sgMet
      /\ UNCHANGED <<sgBuffers, sgDelivered>>
  BY SgCardinalityIs DEF Sg!Send
<1>2. Cardinality(sgSent) \in Nat
  BY FS_CardinalityType DEF SgIInv, SgSentInTurn
<1>3. m \in SgMessages
  BY <1>2, SegmentsAssumption DEF SgIInv, SgSentInTurn, SgMessages
<1>4. SgSentInTurn' /\ SgPlaces'
  BY SgSendPlaces DEF SgIInv
<1>5. sgMet \subseteq sgMet'
  BY <1>1
<1>6. SgMeet'
  <2>1. \A s : SgLive(s)' => SgLive(s) \/ s \in Sg!SegmentsOf(m)
    BY <1>1 DEF SgLive, SgHeldIn
  <2>2. \A s : SgLive(s) => s.no \in Nat /\ s.no <= Cardinality(sgSent)
    BY SgLiveIsSent DEF SgIInv
  <2>3. \A s \in Sg!SegmentsOf(m) : s.id = sgNext /\ s.no = Cardinality(sgSent) + 1
    BY <1>3, SgSegmentIs
  <2>4. ASSUME NEW s, SgLive(s), s.id = sgNext PROVE m.no \in sgMet'
    <3>1. s \in sgAir \/ \E id \in Sg!Ids : SgHeldIn(s, id)
      BY <2>4 DEF SgLive
    <3>2. CASE s \in sgAir
      BY <1>1, <2>4, <3>2 DEF Sg!IsLeft
    <3>3. ASSUME NEW id \in Sg!Ids, SgHeldIn(s, id) PROVE m.no \in sgMet'
      <4>1. id = sgNext
        BY <2>4, <3>3 DEF SgHeldIn, SgIInv, SgPlaces
      <4>2. sgBuffers[sgNext] # Sg!Nothing
        <5>1. DOMAIN sgBuffers[sgNext] # {}
          BY <3>3, <4>1 DEF SgHeldIn
        <5>2. DOMAIN Sg!Nothing = {}
          BY DEF Sg!Nothing
        <5> QED BY <5>1, <5>2
      <4> QED BY <1>1, <4>2 DEF Sg!IsLeft
    <3> QED BY <3>1, <3>2, <3>3
  <2> SUFFICES ASSUME NEW s, NEW t, SgLive(s)', SgLive(t)', s.id = t.id, s.no < t.no
               PROVE  t.no \in sgMet'
    BY DEF SgMeet
  <2>5. CASE SgLive(s) /\ SgLive(t)
    BY <1>5, <2>5 DEF SgIInv, SgMeet
  <2>6. CASE s \in Sg!SegmentsOf(m)
    BY <1>2, <2>1, <2>2, <2>3, <2>6
  <2>7. CASE SgLive(s) /\ t \in Sg!SegmentsOf(m)
    <3>1. s.id = sgNext /\ t.no = m.no
      BY <2>3, <2>7
    <3> QED BY <2>4, <2>7, <3>1
  <2> QED BY <2>1, <2>5, <2>6, <2>7
<1>7. Sg!OnlyWholeMessages'
  BY <1>1, <1>5 DEF SgIInv, Sg!OnlyWholeMessages
<1> QED BY <1>1, <1>4, <1>6, <1>7 DEF SgIInv, SgDeliveries

(* A set of numbers below n that is not empty has a greatest one.          *)
LEMMA SgGreatest ==
  ASSUME NEW n \in Nat, NEW D, D \subseteq 0 .. n - 1, D # {}
  PROVE  Sg!Max(D) \in D /\ \A y \in D : Sg!Max(D) >= y
<1> DEFINE T == {n - x : x \in D}
<1>1. T \subseteq Nat /\ T # {}
  <2>1. \A x \in D : n - x \in Nat
    OBVIOUS
  <2> QED BY <2>1
<1>2. PICK z \in T : \A y \in T : ~ (<<y, z>> \in OpToRel(<, Nat))
  BY <1>1, WFMin, NatLessThanWellFounded, Zenon
<1>3. \A y \in T : ~ (y < z)
  BY <1>1, <1>2 DEF OpToRel
<1>4. PICK x \in D : z = n - x
  OBVIOUS
<1>5. \A y \in D : x >= y
  <2> SUFFICES ASSUME NEW y \in D PROVE x >= y
    OBVIOUS
  <2>1. n - y \in T /\ x \in Int /\ y \in Int
    OBVIOUS
  <2>2. ~ (n - y < n - x)
    BY <1>3, <1>4, <2>1
  <2> QED BY <2>1, <2>2
<1>6. \E w \in D : \A y \in D : w >= y
  BY <1>5
<1> QED BY <1>6 DEF Sg!Max

(* As many segments as the greatest number says: there is none missing.    *)
LEMMA SgCompleteIsAll ==
  ASSUME NEW n \in Nat, NEW buffer, DOMAIN buffer \subseteq 0 .. n - 1, DOMAIN buffer # {}, Sg!Complete(buffer)
  PROVE  /\ Cardinality(DOMAIN buffer) \in 1 .. n
         /\ DOMAIN buffer = 0 .. Cardinality(DOMAIN buffer) - 1
<1> DEFINE D == DOMAIN buffer
<1>1. Sg!Max(D) \in 0 .. n - 1 /\ \A y \in D : Sg!Max(D) >= y
  BY SgGreatest
<1>2. Cardinality(D) = Sg!Max(D) + 1
  BY SgCardinalityIs DEF Sg!Complete
<1>3. IsFiniteSet(0 .. Sg!Max(D)) /\ Cardinality(0 .. Sg!Max(D)) = Sg!Max(D) + 1
  BY <1>1, FS_Interval
<1>4. D \subseteq 0 .. Sg!Max(D)
  BY <1>1
<1>5. D = 0 .. Sg!Max(D)
  BY <1>2, <1>3, <1>4, FS_Subset
<1> QED BY <1>1, <1>2, <1>5

(* What the application is given: one message as it was sent, or one with  *)
(* a segment of a message that met another.                                *)
SgWhole(given) ==
  \E m \in sgSent :
    /\ Len(given) = m.n
    /\ \A k \in 1 .. m.n : given[k] \in Sg!SegmentsOf(m) /\ given[k].number = k - 1
SgMixed(given) == \E k \in DOMAIN given : given[k].no \in sgMet

LEMMA SgDeliverWhole ==
  ASSUME SgIInv, UNCHANGED <<sgSent, sgMet>>, NEW given \in Seq(SgPieces),
         SgWhole(given) \/ SgMixed(given), sgDelivered' = Append(sgDelivered, given)
  PROVE  Sg!OnlyWholeMessages' /\ SgDeliveries'
<1>1. sgDelivered \in Seq(Seq(SgPieces))
  BY DEF SgIInv, SgDeliveries
<1>2. SgDeliveries'
  BY <1>1 DEF SgDeliveries
<1>3. \A i \in DOMAIN sgDelivered' : \/ i \in DOMAIN sgDelivered /\ sgDelivered'[i] = sgDelivered[i]
                                     \/ sgDelivered'[i] = given
  BY <1>1
<1>4. \A i \in DOMAIN sgDelivered : SgWhole(sgDelivered[i]) \/ SgMixed(sgDelivered[i])
  BY DEF SgIInv, Sg!OnlyWholeMessages, SgWhole, SgMixed
<1>5. ASSUME NEW i \in DOMAIN sgDelivered' PROVE SgWhole(sgDelivered'[i]) \/ SgMixed(sgDelivered'[i])
  BY <1>3, <1>4
<1>6. Sg!OnlyWholeMessages'
  BY <1>5 DEF Sg!OnlyWholeMessages, SgWhole, SgMixed
<1> QED BY <1>2, <1>6

(* A segment comes into the buffer in its place.                           *)
LEMMA SgFeedPlaces ==
  ASSUME SgSentInTurn, SgPlaces, NEW s \in sgAir, Sg!Feed(s), sgAir' \subseteq sgAir, sgSent' = sgSent
  PROVE  SgPlaces'
<1>1. PICK buffer : buffer = Sg!With(sgBuffers[s.id], s)
  OBVIOUS
<1>2. PICK m \in sgSent : s \in Sg!SegmentsOf(m)
  BY DEF SgPlaces, SgSent
<1>3. s.id \in Sg!Ids
  BY <1>2, SgSegmentIs DEF SgSentInTurn, SgMessages
<1>4. /\ DOMAIN buffer = DOMAIN sgBuffers[s.id] \cup {s.number}
      /\ buffer[s.number] = s
      /\ \A i \in DOMAIN buffer : i # s.number => buffer[i] = sgBuffers[s.id][i]
  BY <1>1 DEF Sg!With
<1>5. \/ sgBuffers' = [sgBuffers EXCEPT ![s.id] = Sg!Nothing]
      \/ sgBuffers' = [sgBuffers EXCEPT ![s.id] = buffer]
  BY <1>1 DEF Sg!Feed
<1>6. /\ \A id \in Sg!Ids : id # s.id => sgBuffers'[id] = sgBuffers[id]
      /\ DOMAIN sgBuffers'[s.id] = {} \/ sgBuffers'[s.id] = buffer
      /\ sgBuffers' = [id \in Sg!Ids |-> sgBuffers'[id]]
  BY <1>3, <1>5 DEF SgPlaces, Sg!Nothing
<1>7. \A t : SgSent(t)' <=> SgSent(t)
  BY DEF SgSent
<1>8. ASSUME NEW id \in Sg!Ids, NEW i \in DOMAIN sgBuffers'[id]
      PROVE  sgBuffers'[id][i].number = i /\ sgBuffers'[id][i].id = id /\ SgSent(sgBuffers'[id][i])
  <2>1. CASE id = s.id /\ i = s.number
    BY <1>2, <1>4, <1>6, <2>1 DEF SgSent
  <2>2. CASE id = s.id /\ i # s.number
    BY <1>3, <1>4, <1>6, <2>2 DEF SgPlaces
  <2>3. CASE id # s.id
    BY <1>6, <2>3 DEF SgPlaces
  <2> QED BY <2>1, <2>2, <2>3
<1>9. \A t \in sgAir' : SgSent(t)
  BY DEF SgPlaces
<1> QED BY <1>6, <1>7, <1>8, <1>9 DEF SgPlaces

LEMMA SgFeedStep ==
  ASSUME SgIInv, NEW s \in sgAir, Sg!Feed(s), sgAir' \subseteq sgAir, UNCHANGED <<sgSent, sgMet>>
  PROVE  SgMeet' /\ Sg!OnlyWholeMessages' /\ SgDeliveries'
<1> DEFINE buffer == Sg!With(sgBuffers[s.id], s)
<1>1. PICK m \in sgSent : s \in Sg!SegmentsOf(m)
  BY DEF SgIInv, SgPlaces, SgSent
<1>2. /\ m \in SgMessages /\ s.no = m.no /\ s.id = m.id /\ s.number \in 0 .. m.n - 1 /\ s.number \in Nat
      /\ (~s.full => s.number = m.n - 1) /\ s.id \in Sg!Ids /\ m.n \in Nat \ {0} /\ m.no \in Nat
  <2>1. m \in SgMessages
    BY DEF SgIInv, SgSentInTurn
  <2> QED BY <1>1, <2>1, SgSegmentIs DEF SgMessages
<1>3. /\ DOMAIN buffer = DOMAIN sgBuffers[s.id] \cup {s.number}
      /\ buffer[s.number] = s
      /\ \A i \in DOMAIN buffer : i # s.number => buffer[i] = sgBuffers[s.id][i]
  BY DEF Sg!With
\* All that is held of this identifier was sent, and is held in its place.
<1>4. ASSUME NEW i \in DOMAIN buffer
      PROVE  /\ SgLive(buffer[i]) /\ buffer[i].id = s.id /\ buffer[i].number = i
             /\ buffer[i] \in SgPieces /\ i \in 0 .. SgMaxSegments - 1
             /\ \E l \in sgSent : buffer[i] \in Sg!SegmentsOf(l)
  <2>1. SgLive(buffer[i]) /\ buffer[i].id = s.id /\ buffer[i].number = i
    <3>1. CASE i = s.number
      BY <1>3, <3>1 DEF SgLive
    <3>2. CASE i # s.number
      BY <1>2, <1>3, <3>2 DEF SgIInv, SgPlaces, SgLive, SgHeldIn
    <3> QED BY <3>1, <3>2
  <2>2. PICK l \in sgSent : buffer[i] \in Sg!SegmentsOf(l)
    BY <2>1, SgLiveIsSent DEF SgIInv
  <2>3. l \in SgMessages /\ l.n \in 1 .. SgMaxSegments
    BY DEF SgIInv, SgSentInTurn, SgMessages
  <2>4. buffer[i] \in SgPieces /\ buffer[i].number \in 0 .. l.n - 1
    BY <2>2, <2>3, SgSegmentIs
  <2> QED BY <2>1, <2>2, <2>3, <2>4, SegmentsAssumption
\* It is all of one message, where none of it met another.
<1>4a. ASSUME \A i \in DOMAIN buffer : buffer[i].no \notin sgMet, NEW i \in DOMAIN buffer
      PROVE  buffer[i] \in Sg!SegmentsOf(m)
  <2>1. PICK l \in sgSent : buffer[i] \in Sg!SegmentsOf(l)
    BY <1>4, <1>4a
  <2>2. l \in SgMessages /\ l.no \in Nat
    BY DEF SgIInv, SgSentInTurn, SgMessages
  <2>3. buffer[i].no = l.no
    BY <2>1, <2>2, SgSegmentIs
  <2>4. s.number \in DOMAIN buffer /\ buffer[s.number] = s /\ SgLive(s)
    BY <1>3 DEF SgLive
  <2>5. s.no \notin sgMet /\ buffer[i].no \notin sgMet
    BY <1>4a, <2>4
  <2>6. SgLive(buffer[i]) /\ buffer[i].id = s.id
    BY <1>4, <1>4a
  <2>7. ~(s.no < buffer[i].no) /\ ~(buffer[i].no < s.no)
    BY <2>4, <2>5, <2>6 DEF SgIInv, SgMeet
  <2>8. l.no = m.no
    BY <1>2, <2>2, <2>3, <2>7
  <2> QED BY <2>1, <2>8 DEF SgIInv, SgSentInTurn
<1>5. ASSUME sgBuffers' = [sgBuffers EXCEPT ![s.id] = Sg!Nothing]
      PROVE  SgMeet'
  <2>1. /\ \A id \in Sg!Ids : id # s.id => sgBuffers'[id] = sgBuffers[id]
        /\ DOMAIN sgBuffers'[s.id] = {}
    BY <1>2, <1>5 DEF SgIInv, SgPlaces, Sg!Nothing
  <2>2. \A id \in Sg!Ids : \A i \in DOMAIN sgBuffers'[id] :
          i \in DOMAIN sgBuffers[id] /\ sgBuffers'[id][i] = sgBuffers[id][i]
    BY <2>1
  <2>3. \A t : SgLive(t)' => SgLive(t)
    BY <2>2 DEF SgLive, SgHeldIn
  <2> QED BY <2>3 DEF SgIInv, SgMeet
<1>6. CASE s.number = 0 /\ ~s.full
  <2>1. sgDelivered' = Append(sgDelivered, <<s>>) /\ sgBuffers' = [sgBuffers EXCEPT ![s.id] = Sg!Nothing]
    BY <1>6 DEF Sg!Feed
  <2>2. m.n = 1
    BY <1>2, <1>6
  <2>3. SgWhole(<<s>>)
    BY <1>1, <1>6, <2>2 DEF SgWhole
  <2>4. <<s>> \in Seq(SgPieces)
    BY <1>1, <1>2, SgSegmentIs
  <2> QED BY <1>5, <2>1, <2>3, <2>4, SgDeliverWhole
<1>7. CASE ~(s.number = 0 /\ ~s.full) /\ ~s.full /\ Sg!Complete(buffer)
  <2>1. sgDelivered' = Append(sgDelivered, Sg!InOrder(buffer)) /\ sgBuffers' = [sgBuffers EXCEPT ![s.id] = Sg!Nothing]
    BY <1>7 DEF Sg!Feed
  <2>2. PICK c : c = Cardinality(DOMAIN buffer)
    OBVIOUS
  <2>3. c \in Nat \ {0} /\ DOMAIN buffer = 0 .. c - 1
    <3>1. DOMAIN buffer \subseteq 0 .. SgMaxSegments - 1 /\ DOMAIN buffer # {}
      BY <1>3, <1>4
    <3> QED BY <1>7, <2>2, <3>1, SgCompleteIsAll, SegmentsAssumption
  <2>4. /\ Sg!InOrder(buffer) = [k \in 1 .. c |-> IF k - 1 \in DOMAIN buffer THEN buffer[k - 1] ELSE Sg!Nothing]
        /\ \A k \in 1 .. c : k - 1 \in DOMAIN buffer
    <3>1. Sg!Cardinality(DOMAIN buffer) = c
      BY <2>2, SgCardinalityIs
    <3>2. \A k \in 1 .. c : k - 1 \in 0 .. c - 1
      BY <2>3
    <3>3. \A k \in 1 .. c : k - 1 \in DOMAIN buffer
      BY <2>3, <3>2
    <3>4. Sg!InOrder(buffer) = [k \in 1 .. c |-> IF k - 1 \in DOMAIN buffer THEN buffer[k - 1] ELSE Sg!Nothing]
      BY ONLY <3>1 DEF Sg!InOrder
    <3> QED BY <3>3, <3>4
  <2>5. /\ DOMAIN Sg!InOrder(buffer) = 1 .. c /\ Len(Sg!InOrder(buffer)) = c
        /\ \A k \in 1 .. c : Sg!InOrder(buffer)[k] = buffer[k - 1]
    BY <2>3, <2>4
  <2>6. SgWhole(Sg!InOrder(buffer)) \/ SgMixed(Sg!InOrder(buffer))
    <3>1. CASE \E i \in DOMAIN buffer : buffer[i].no \in sgMet
      <4>1. PICK i \in DOMAIN buffer : buffer[i].no \in sgMet
        BY <3>1
      <4>2. i + 1 \in 1 .. c /\ (i + 1) - 1 = i
        BY <2>3
      <4> QED BY <2>5, <4>1, <4>2 DEF SgMixed
    <3>2. CASE \A i \in DOMAIN buffer : buffer[i].no \notin sgMet
      <4>1. \A i \in DOMAIN buffer : buffer[i] \in Sg!SegmentsOf(m) /\ buffer[i].number = i
        BY <1>4, <1>4a, <3>2
      <4>2. s.number = m.n - 1 /\ s.number \in DOMAIN buffer
        BY <1>2, <1>3, <1>7
      <4>3. c - 1 \in DOMAIN buffer
        BY <2>3
      <4>4. buffer[c - 1].number \in 0 .. m.n - 1 /\ buffer[c - 1].number = c - 1
        BY <1>2, <4>1, <4>3, SgSegmentIs
      <4>5. c = m.n
        BY <1>2, <2>3, <4>2, <4>4
      <4>6. \A k \in 1 .. m.n : Sg!InOrder(buffer)[k] \in Sg!SegmentsOf(m) /\ Sg!InOrder(buffer)[k].number = k - 1
        BY <2>4, <2>5, <4>1, <4>5
      <4> QED BY <2>5, <4>5, <4>6 DEF SgWhole
    <3> QED BY <3>1, <3>2
  <2>7. Sg!InOrder(buffer) \in Seq(SgPieces)
    <3>1. \A k \in 1 .. c : buffer[k - 1] \in SgPieces
      BY <1>4, <2>4
    <3> QED BY <2>3, <2>4, <3>1
  <2> QED BY <1>5, <2>1, <2>6, <2>7, SgDeliverWhole
<1>8. CASE ~(s.number = 0 /\ ~s.full) /\ ~(~s.full /\ Sg!Complete(buffer))
  <2>1. sgBuffers' = [sgBuffers EXCEPT ![s.id] = buffer] /\ sgDelivered' = sgDelivered
    BY <1>8 DEF Sg!Feed
  <2>2. /\ \A id \in Sg!Ids : id # s.id => sgBuffers'[id] = sgBuffers[id]
        /\ sgBuffers'[s.id] = buffer
    BY <1>2, <2>1 DEF SgIInv, SgPlaces
  <2>3. \A i \in DOMAIN buffer : buffer[i] = s \/ (i \in DOMAIN sgBuffers[s.id] /\ buffer[i] = sgBuffers[s.id][i])
    BY <1>3
  <2>4. \A t : SgLive(t)' => SgLive(t)
    <3> SUFFICES ASSUME NEW t, NEW id \in Sg!Ids, SgHeldIn(t, id)' PROVE SgLive(t)
      BY DEF SgLive
    <3>1. CASE id = s.id
      BY <1>2, <2>2, <2>3, <3>1 DEF SgLive, SgHeldIn
    <3>2. CASE id # s.id
      BY <2>2, <3>2 DEF SgLive, SgHeldIn
    <3> QED BY <3>1, <3>2
  <2> QED BY <2>1, <2>4 DEF SgIInv, SgMeet, Sg!OnlyWholeMessages, SgDeliveries
<1> QED BY <1>6, <1>7, <1>8

LEMMA SgPlacesStep == ASSUME SgSentInTurn, SgPlaces, [Sg!Next]_sgVars PROVE SgSentInTurn' /\ SgPlaces'
<1>1. ASSUME NEW n \in 1 .. SgMaxSegments, NEW exact \in BOOLEAN, Sg!Send(n, exact) PROVE SgSentInTurn' /\ SgPlaces'
  BY <1>1, SgSendPlaces
<1>2. ASSUME NEW s \in sgAir, Sg!Arrive(s) \/ Sg!Repeat(s) PROVE SgSentInTurn' /\ SgPlaces'
  <2>1. Sg!Feed(s) /\ sgAir' \subseteq sgAir /\ sgSent' = sgSent /\ sgNext' = sgNext
    BY <1>2 DEF Sg!Arrive, Sg!Repeat
  <2> QED BY <2>1, SgFeedPlaces DEF SgSentInTurn
<1>3. ASSUME sgAir' \subseteq sgAir, UNCHANGED <<sgNext, sgSent>>,
             \/ UNCHANGED sgBuffers
             \/ \E id \in Sg!Ids : sgBuffers' = [sgBuffers EXCEPT ![id] = Sg!Nothing]
      PROVE  SgSentInTurn' /\ SgPlaces'
  <2>1. /\ sgBuffers' = [id \in Sg!Ids |-> sgBuffers'[id]]
        /\ \A id \in Sg!Ids : \A i \in DOMAIN sgBuffers'[id] :
             i \in DOMAIN sgBuffers[id] /\ sgBuffers'[id][i] = sgBuffers[id][i]
    BY <1>3 DEF SgPlaces, Sg!Nothing
  <2>2. SgPlaces'
    BY <1>3, <2>1 DEF SgPlaces, SgSent
  <2> QED BY <1>3, <2>2 DEF SgSentInTurn
<1>4. ASSUME NEW s \in sgAir, Sg!Lose(s) PROVE SgSentInTurn' /\ SgPlaces'
  BY <1>3, <1>4 DEF Sg!Lose
<1>5. ASSUME NEW id \in Sg!Ids, Sg!Purge(id) PROVE SgSentInTurn' /\ SgPlaces'
  BY <1>3, <1>5 DEF Sg!Purge
<1>6. ASSUME UNCHANGED sgVars PROVE SgSentInTurn' /\ SgPlaces'
  BY <1>3, <1>6 DEF sgVars
<1> QED BY <1>1, <1>2, <1>4, <1>5, <1>6 DEF Sg!Next

LEMMA SgNextCorrect == ASSUME SgIInv, [Sg!Next]_sgVars PROVE SgIInv'
<1>1. ASSUME NEW n \in 1 .. SgMaxSegments, NEW exact \in BOOLEAN, Sg!Send(n, exact) PROVE SgIInv'
  BY <1>1, SgSendStep
<1>2. SgSentInTurn' /\ SgPlaces'
  BY SgPlacesStep DEF SgIInv
<1>3. ASSUME NEW s \in sgAir, Sg!Arrive(s) \/ Sg!Repeat(s) PROVE SgIInv'
  <2>1. Sg!Feed(s) /\ sgAir' \subseteq sgAir /\ UNCHANGED <<sgSent, sgMet>>
    BY <1>3 DEF Sg!Arrive, Sg!Repeat
  <2> QED BY <1>2, <2>1, SgFeedStep DEF SgIInv
<1>4. ASSUME sgAir' \subseteq sgAir, UNCHANGED <<sgSent, sgDelivered, sgMet>>,
             \/ UNCHANGED sgBuffers
             \/ \E id \in Sg!Ids : sgBuffers' = [sgBuffers EXCEPT ![id] = Sg!Nothing]
      PROVE  SgIInv'
  <2>1. \A id \in Sg!Ids : \A i \in DOMAIN sgBuffers'[id] :
          i \in DOMAIN sgBuffers[id] /\ sgBuffers'[id][i] = sgBuffers[id][i]
    BY <1>4 DEF SgIInv, SgPlaces, Sg!Nothing
  <2>2. \A t : SgLive(t)' => SgLive(t)
    BY <1>4, <2>1 DEF SgLive, SgHeldIn
  <2> QED BY <1>2, <1>4, <2>2 DEF SgIInv, SgMeet, Sg!OnlyWholeMessages, SgDeliveries
<1>5. ASSUME NEW s \in sgAir, Sg!Lose(s) PROVE SgIInv'
  BY <1>4, <1>5 DEF Sg!Lose
<1>6. ASSUME NEW id \in Sg!Ids, Sg!Purge(id) PROVE SgIInv'
  BY <1>4, <1>6 DEF Sg!Purge
<1>7. ASSUME UNCHANGED sgVars PROVE SgIInv'
  BY <1>4, <1>7 DEF sgVars
<1> QED BY <1>1, <1>3, <1>5, <1>6, <1>7 DEF Sg!Next

LEMMA SgInitCorrect == ASSUME Sg!Init PROVE SgIInv
<1>1. SgSentInTurn
  BY FS_EmptySet, SegmentsAssumption DEF Sg!Init, SgSentInTurn, Sg!Ids
<1>2. /\ sgBuffers = [id \in Sg!Ids |-> sgBuffers[id]]
      /\ \A id \in Sg!Ids : DOMAIN sgBuffers[id] = {}
  BY DEF Sg!Init, Sg!Nothing
<1>3. SgPlaces /\ SgMeet
  BY <1>2 DEF Sg!Init, SgPlaces, SgMeet, SgLive, SgHeldIn
<1>4. Sg!OnlyWholeMessages
  BY DEF Sg!Init, Sg!OnlyWholeMessages
<1> QED BY <1>1, <1>3, <1>4 DEF SgIInv, Sg!Init, SgDeliveries

(* What an application is given is one message, all of it and in order,    *)
(* whatever is lost, repeated, reordered, left over or purged: or it holds *)
(* a segment of a message whose identifier came round while something was  *)
(* left of an earlier one (_RcopReassemblyContext.feed, _alloc_rcop_id).   *)
THEOREM WholeHolds == Spec => []OnlyWholeMessages
<1>1. Init => SgIInv
  BY SgInitCorrect DEF Init
<1>2. SgIInv /\ [Next]_vars => SgIInv'
  <2> SUFFICES ASSUME SgIInv, [Next]_vars PROVE SgIInv'
    OBVIOUS
  <2>1. [Sg!Next]_sgVars
    BY DEF Next, vars, DtsNext, MgNext, NaNext, RsNext, SgNext, TcNext
  <2> QED BY <2>1, SgNextCorrect
<1>3. SgIInv => OnlyWholeMessages
  BY DEF SgIInv, OnlyWholeMessages
<1> QED BY <1>1, <1>2, <1>3, PTL DEF Spec

(* With the missing segment there are all of the message, no more.         *)
LEMMA SgLastFills ==
  ASSUME SgSentInTurn, SgPlaces, NEW m \in sgSent, NEW s, Sg!Missing(m) = {s}, ~s.full,
         \A i \in DOMAIN sgBuffers[m.id] : sgBuffers[m.id][i] \in Sg!SegmentsOf(m)
  PROVE  /\ s.id = m.id /\ s.number = m.n - 1 /\ m.n \in Nat \ {0}
         /\ DOMAIN Sg!With(sgBuffers[m.id], s) = 0 .. m.n - 1
<1>1. m \in SgMessages /\ m.n \in Nat \ {0} /\ m.id \in Sg!Ids
  BY DEF SgSentInTurn, SgMessages
<1>2. s \in Sg!SegmentsOf(m)
  BY DEF Sg!Missing
<1>3. s.id = m.id /\ s.number = m.n - 1
  BY <1>1, <1>2, SgSegmentIs
<1>4. PICK b : b = sgBuffers[m.id]
  OBVIOUS
<1>5. \A i \in DOMAIN b : b[i].number = i /\ b[i] \in Sg!SegmentsOf(m)
  BY <1>1, <1>4 DEF SgPlaces
<1>6. DOMAIN b \subseteq 0 .. m.n - 1
  BY <1>1, <1>5, SgSegmentIs
<1>7. ASSUME NEW j \in 0 .. m.n - 1, j # m.n - 1 PROVE j \in DOMAIN b
  <2>1. PICK t : t = [no |-> m.no, id |-> m.id, number |-> j, full |-> j < m.n - 1 \/ m.exact]
    OBVIOUS
  <2>2. t \in Sg!SegmentsOf(m) /\ t.number = j /\ t # s
    BY <1>3, <1>7, <2>1 DEF Sg!SegmentsOf
  <2>3. t \in Sg!ToSet(Sg!InOrder(b))
    BY <1>4, <2>2 DEF Sg!Missing
  <2>4. PICK k \in 1 .. Sg!Cardinality(DOMAIN b) : t = IF k - 1 \in DOMAIN b THEN b[k - 1] ELSE Sg!Nothing
    BY <2>3 DEF Sg!ToSet, Sg!InOrder
  <2>5. t # Sg!Nothing
    <3>1. "number" \in DOMAIN t
      BY <2>1
    <3>2. DOMAIN Sg!Nothing = {}
      BY DEF Sg!Nothing
    <3> QED BY <3>1, <3>2
  <2>6. k - 1 \in DOMAIN b /\ t = b[k - 1]
    BY <2>4, <2>5
  <2> QED BY <1>5, <2>2, <2>6
<1>8. DOMAIN Sg!With(b, s) = DOMAIN b \cup {m.n - 1}
  BY <1>3 DEF Sg!With
<1>9. DOMAIN Sg!With(b, s) = 0 .. m.n - 1
  BY <1>1, <1>6, <1>7, <1>8
<1> QED BY <1>1, <1>3, <1>4, <1>9

(* What holds of the segments however soon an identifier is used again.    *)
SgInTurn == SgSentInTurn /\ SgPlaces /\ \E S : sgDelivered \in Seq(S)

SgLast ==
  \A m \in sgSent : \A s \in Sg!Missing(m) :
    (/\ Sg!Missing(m) = {s} /\ ~s.full
     /\ \A i \in DOMAIN sgBuffers[m.id] : sgBuffers[m.id][i] \in Sg!SegmentsOf(m)
     /\ s \in sgAir \ sgAir' /\ <<sgBuffers, sgDelivered>>' # <<sgBuffers, sgDelivered>>)
    => sgDelivered' # sgDelivered

LEMMA SgLastStep ==
  ASSUME SgInTurn, [Sg!Next]_sgVars, NEW m \in sgSent, NEW s, Sg!Missing(m) = {s}, ~s.full,
         \A i \in DOMAIN sgBuffers[m.id] : sgBuffers[m.id][i] \in Sg!SegmentsOf(m),
         s \in sgAir \ sgAir', <<sgBuffers, sgDelivered>>' # <<sgBuffers, sgDelivered>>
  PROVE  sgDelivered' # sgDelivered
<1>1. Sg!Feed(s)
  <2>1. ASSUME NEW t \in sgAir, Sg!Arrive(t) PROVE Sg!Feed(s)
    <3>1. t = s
      BY <2>1 DEF Sg!Arrive
    <3> QED BY <2>1, <3>1 DEF Sg!Arrive
  <2>2. ASSUME NEW t \in sgAir, Sg!Repeat(t) \/ Sg!Lose(t) PROVE FALSE
    BY <2>2 DEF Sg!Repeat, Sg!Lose
  <2>3. ASSUME NEW id \in Sg!Ids, Sg!Purge(id) PROVE FALSE
    BY <2>3 DEF Sg!Purge
  <2>4. ASSUME NEW n \in 1 .. SgMaxSegments, NEW exact \in BOOLEAN, Sg!Send(n, exact) PROVE FALSE
    BY <2>4 DEF Sg!Send
  <2>5. ~UNCHANGED sgVars
    BY DEF sgVars
  <2> QED BY <2>1, <2>2, <2>3, <2>4, <2>5 DEF Sg!Next
<1>2. PICK b : b = Sg!With(sgBuffers[s.id], s)
  OBVIOUS
<1>3. m.n \in Nat \ {0} /\ DOMAIN b = 0 .. m.n - 1
  BY <1>2, SgLastFills DEF SgInTurn
<1>4. Sg!Complete(b)
  <2>1. m.n - 1 \in DOMAIN b /\ \A y \in DOMAIN b : m.n - 1 >= y
    BY <1>3
  <2>2. Sg!Max(DOMAIN b) \in DOMAIN b /\ \A y \in DOMAIN b : Sg!Max(DOMAIN b) >= y
    BY <2>1 DEF Sg!Max
  <2>3. Sg!Max(DOMAIN b) = m.n - 1
    BY <1>3, <2>1, <2>2
  <2>4. Cardinality(DOMAIN b) = m.n
    BY <1>3, FS_Interval
  <2> QED BY <1>3, <2>3, <2>4, SgCardinalityIs DEF Sg!Complete
<1>5. \E given : sgDelivered' = Append(sgDelivered, given)
  BY <1>1, <1>2, <1>4 DEF Sg!Feed
<1>6. PICK S : sgDelivered \in Seq(S)
  BY DEF SgInTurn
<1> QED BY <1>5, <1>6

LEMMA SgInTurnStep == ASSUME SgInTurn, [Sg!Next]_sgVars PROVE SgInTurn'
<1>1. SgSentInTurn' /\ SgPlaces'
  BY SgPlacesStep DEF SgInTurn
<1>2. sgDelivered' = sgDelivered \/ \E given : sgDelivered' = Append(sgDelivered, given)
  BY DEF Sg!Next, sgVars, Sg!Send, Sg!Arrive, Sg!Repeat, Sg!Lose, Sg!Purge, Sg!Feed
<1>3. PICK S : sgDelivered \in Seq(S)
  BY DEF SgInTurn
<1>4. ASSUME NEW given, sgDelivered' = Append(sgDelivered, given) PROVE sgDelivered' \in Seq(S \cup {given})
  <2>1. sgDelivered \in Seq(S \cup {given})
    BY <1>3
  <2> QED BY <1>4, <2>1
<1> QED BY <1>1, <1>2, <1>3, <1>4 DEF SgInTurn

(* The last missing segment of a message completes it: when no segment of  *)
(* another message is held with its identifier, and the segment is the one *)
(* that is not full (_RcopReassemblyContext.feed).  Identifiers may be     *)
(* used again at any time here.                                            *)
THEOREM LastSegmentCompletes == Spec => LastCompletes
<1>1. Init => SgInTurn
  <2> SUFFICES ASSUME Init PROVE SgInTurn
    OBVIOUS
  <2>1. sgDelivered \in Seq({})
    BY DEF Init, Sg!Init
  <2>2. SgSentInTurn /\ SgPlaces
    BY SgInitCorrect DEF Init, SgIInv
  <2> QED BY <2>1, <2>2 DEF SgInTurn
<1>2. SgInTurn /\ [Next]_vars => SgInTurn' /\ [SgLast]_sgVars
  <2> SUFFICES ASSUME SgInTurn, [Next]_vars PROVE SgInTurn' /\ [SgLast]_sgVars
    OBVIOUS
  <2>1. [Sg!Next]_sgVars
    BY DEF Next, vars, DtsNext, MgNext, NaNext, RsNext, SgNext, TcNext
  <2>2. SgLast
    BY <2>1, SgLastStep DEF SgLast
  <2> QED BY <2>1, <2>2, SgInTurnStep
<1>3. LastCompletes <=> [][SgLast]_sgVars
  BY DEF LastCompletes, Sg!LastCompletes, SgLast, Sg!vars, sgVars
<1> QED BY <1>1, <1>2, <1>3, PTL DEF Spec
-----------------------------------------------------------------------------
(***************************************************************************)
(* The 110D modem adapter.  The modem refuses packets only of windows that *)
(* it gave up itself, whatever the order in which its answers and the      *)
(* adapter's packets cross.                                                *)
(***************************************************************************)
(* What is under way to the modem.                                         *)
IsFirst(p) == p.order \in {"FIRST_ONLY", "FIRST_AND_LAST"}
IsLast(p) == p.order \in {"LAST", "FIRST_AND_LAST"}
Packet == [command : {"ARM", "START", "DATA"}, no : Nat,
           order : {"none", "FIRST_AND_LAST", "FIRST_ONLY", "LAST", "CONTINUATION"}]
Windows == [no : Nat \ {0}, n : Nat \ {0}, next : Nat \ {0}]

IsArm(p) == p.command = "ARM"
\* A packet the modem will refuse, or a command that tells it nothing.
IsSpent(p) == p.command = "START" \/ (p.command = "DATA" /\ p.no \in tcDropped)
\* A part of the window no, behind its first packet.
IsPart(p, no) == p.command = "START" \/ (p.command = "DATA" /\ p.no = no /\ ~IsFirst(p))

Arms == \A i \in DOMAIN tcToModem : IsArm(tcToModem[i])
AllSpent == \A i \in DOMAIN tcToModem : IsSpent(tcToModem[i])
SpentThenArms ==
  \A i \in DOMAIN tcToModem :
    IsSpent(tcToModem[i]) \/ \A j \in DOMAIN tcToModem : i <= j => IsArm(tcToModem[j])
LastIsLast(p, i) == p.command = "DATA" /\ IsLast(p) => i = Len(tcToModem)
PartsFrom(k, no) ==
  \A i \in DOMAIN tcToModem : k <= i => IsPart(tcToModem[i], no) /\ LastIsLast(tcToModem[i], i)
OpensAt(k, no) ==
  /\ tcToModem[k].command = "DATA" /\ IsFirst(tcToModem[k]) /\ tcToModem[k].no = no
  /\ LastIsLast(tcToModem[k], k)
\* A window that begins behind the commands to arm.
ArmsThenWindow ==
  \E a \in 0 .. Len(tcToModem) :
    /\ \A i \in 1 .. a : IsArm(tcToModem[i])
    /\ a < Len(tcToModem) =>
         \E no \in 1 .. tcWindows : OpensAt(a + 1, no) /\ PartsFrom(a + 2, no)

(* What the modem has before it, in each of its states.                    *)
Inbox ==
  \/ tcModem.state = "FLUSHED" /\ tcModem.no = 0 /\ SpentThenArms
  \/ tcModem.state = "NOT_READY" /\ tcModem.no = 0 /\ Arms
  \/ tcModem.state = "READY" /\ tcModem.no = 0 /\ ArmsThenWindow
  \/ tcModem.state \in {"READY", "STARTED"} /\ tcModem.no # 0 /\ PartsFrom(1, tcModem.no)
  \/ tcModem.state \in {"DRAINING_OK", "DRAINING_FORCED"} /\ tcModem.no # 0 /\ AllSpent

-----------------------------------------------------------------------------
(* What the sender knows, what is under way to it, and the modem's state:  *)
(* the statuses from the oldest to the newest.                             *)
Last == Len(tcToNode) + 1
Chain(i) == IF i = 0 THEN tcState ELSE IF i = Last THEN tcModem.state ELSE tcToNode[i]
Rank(state) ==
  IF state = "FLUSHED" THEN 0 ELSE IF state = "NOT_READY" THEN 1 ELSE IF state = "READY" THEN 2
  ELSE IF state = "STARTED" THEN 3 ELSE 4

(* After FLUSHED the modem gets READY and no further, until the sender     *)
(* knows.                                                                  *)
Rises(h) ==
  \A i, j \in 0 .. Last : h <= i /\ i <= j => Rank(Chain(i)) <= Rank(Chain(j)) /\ Rank(Chain(j)) <= 2
AfterFlushed == \A h \in 0 .. Last : Chain(h) = "FLUSHED" => Rises(h)
Unflushed == \A i \in 0 .. Last : Chain(i) # "FLUSHED"

Streaming == tcModem.no # 0 \/ (tcModem.state = "READY" /\ ~Arms)

Statuses ==
  /\ AfterFlushed
  /\ tcStep = "wait_ready" => Rises(0)
  /\ Streaming => Unflushed /\ tcStep # "wait_ready"

(* The window the sender is in the middle of.                              *)
Sending ==
  tcStep \in {"wait_started", "rest"} =>
    IF tcWindow.no \in tcDropped
    THEN tcModem.state \in {"DRAINING_FORCED", "FLUSHED"} /\ AllSpent
    ELSE /\ tcModem.state \in {"READY", "STARTED"} /\ Unflushed
         /\ \A i \in DOMAIN tcToModem : tcToModem[i].command = "DATA" => /\ tcToModem[i].no = tcWindow.no
                                                                 /\ ~IsLast(tcToModem[i])
         /\ tcModem.no \in {0, tcWindow.no}
         /\ IF tcWindow.next = 1
            THEN tcStep = "rest" /\ tcWindow.n = 1 /\ tcModem.state = "READY" /\ tcModem.no = 0 /\ Arms
            ELSE Streaming /\ tcWindow.next <= tcWindow.n

-----------------------------------------------------------------------------
Types ==
  /\ tcConnected \in BOOLEAN /\ tcState \in Tc!States /\ tcToNode \in Seq(Tc!States)
  /\ tcModem \in [state : Tc!States, no : Nat] /\ tcWindows \in Nat
  /\ tcQueue \in Seq(Windows) /\ tcToModem \in Seq(Packet) /\ tcDropped \subseteq Nat
  /\ tcStep \in Tc!Steps /\ (tcStep # "idle" => tcWindow \in Windows)
  /\ tcStep \in {"wait_started", "rest"} => tcWindow.next <= tcWindow.n

(* A window that waits to be sent comes after all the modem has heard of.  *)
Heard(no) ==
  no \in tcDropped \/ no = tcModem.no \/ \E i \in DOMAIN tcToModem : tcToModem[i].command = "DATA" /\ tcToModem[i].no = no
Numbers ==
  /\ \A i, j \in DOMAIN tcQueue : i < j => tcQueue[i].no < tcQueue[j].no
  /\ \A i \in DOMAIN tcQueue : tcQueue[i].no <= tcWindows /\ tcQueue[i].next = 1
  /\ tcStep # "idle" => tcWindow.no <= tcWindows /\ \A i \in DOMAIN tcQueue : tcWindow.no < tcQueue[i].no
  /\ \A no \in Nat : Heard(no) => no <= tcWindows /\ \A i \in DOMAIN tcQueue : no < tcQueue[i].no
  /\ tcStep \in {"wait_flushed", "wait_ready"} => \A no \in Nat : Heard(no) => no < tcWindow.no

IInv ==
  /\ Types /\ Numbers
  /\ ~tcConnected => tcToModem = <<>>
  /\ tcConnected => Inbox /\ Statuses /\ Sending
  /\ Tc!PacketsAreTaken
-----------------------------------------------------------------------------
(* The statuses under way, as the steps change them.                       *)
LEMMA RankIs ==
  ASSUME NEW s \in Tc!States
  PROVE  Rank(s) \in Nat /\ (Rank(s) = 0 <=> s = "FLUSHED") /\ (Rank(s) = 2 <=> s = "READY")
BY DEF Rank, Tc!States

LEMMA ChainIs ==
  ASSUME Types
  PROVE  /\ Len(tcToNode) \in Nat /\ Last \in Nat \ {0}
         /\ Chain(0) = tcState /\ Chain(Last) = tcModem.state
         /\ \A i \in 0 .. Last : Chain(i) \in Tc!States /\ Rank(Chain(i)) \in Nat
         /\ \A i \in 1 .. Last - 1 : Chain(i) = tcToNode[i]
<1>1. /\ Len(tcToNode) \in Nat /\ Last \in Nat \ {0}
      /\ \A i \in 1 .. Last - 1 : tcToNode[i] \in Tc!States /\ i # 0 /\ i # Last
  BY DEF Types, Last
<1>2. \A i \in 0 .. Last : i = 0 \/ i = Last \/ i \in 1 .. Last - 1
  BY <1>1
<1>3. Last # 0 /\ tcState \in Tc!States /\ tcModem.state \in Tc!States
  BY <1>1 DEF Types
<1>4. \A i \in 0 .. Last : Chain(i) \in Tc!States
  BY <1>1, <1>2, <1>3 DEF Chain
<1> QED BY <1>1, <1>3, <1>4, RankIs DEF Chain

LEMMA ChainSame ==
  ASSUME UNCHANGED <<tcState, tcToNode>>, tcModem'.state = tcModem.state
  PROVE  /\ AfterFlushed' <=> AfterFlushed
         /\ Unflushed' <=> Unflushed
         /\ Rises(0)' <=> Rises(0)
<1>1. Last' = Last /\ \A i : Chain(i)' = Chain(i)
  BY DEF Last, Chain
<1> QED BY <1>1 DEF AfterFlushed, Unflushed, Rises

LEMMA ChainAppend ==
  ASSUME Types, NEW state \in Tc!States, tcState' = tcState, tcToNode' = Append(tcToNode, state),
         tcModem'.state = state
  PROVE  /\ tcToNode' \in Seq(Tc!States)
         /\ Last' = Last + 1
         /\ \A i \in 0 .. Last' : \/ i \in 0 .. Last - 1 /\ Chain(i)' = Chain(i)
                                  \/ i \in {Last, Last + 1} /\ Chain(i)' = state
<1>1. /\ tcToNode' \in Seq(Tc!States) /\ Len(tcToNode') = Len(tcToNode) + 1 /\ Len(tcToNode) \in Nat
      /\ \A i \in 1 .. Len(tcToNode) : tcToNode'[i] = tcToNode[i]
      /\ tcToNode'[Len(tcToNode) + 1] = state
  BY DEF Types
<1>2. Last' = Last + 1 /\ Last \in Nat /\ Last = Len(tcToNode) + 1
  BY <1>1 DEF Last
<1>3. ASSUME NEW i \in 0 .. Last'
      PROVE  \/ i \in 0 .. Last - 1 /\ Chain(i)' = Chain(i)
             \/ i \in {Last, Last + 1} /\ Chain(i)' = state
  <2>1. CASE i = 0
    BY <1>2, <2>1 DEF Chain
  <2>2. CASE i \in 1 .. Last - 1
    <3>1. i # 0 /\ i # Last /\ i # Last + 1 /\ tcToNode'[i] = tcToNode[i] /\ i \in 0 .. Last - 1
      BY <1>1, <1>2, <2>2
    <3> QED BY <1>2, <3>1 DEF Chain
  <2>3. CASE i = Last
    <3>1. i # 0 /\ i # Last + 1 /\ tcToNode'[i] = state
      BY <1>1, <1>2, <2>3
    <3> QED BY <1>2, <2>3, <3>1 DEF Chain
  <2>4. CASE i = Last + 1
    <3>1. i # 0
      BY <1>2, <2>4
    <3> QED BY <1>2, <2>4, <3>1 DEF Chain
  <2> QED BY <1>2, <2>1, <2>2, <2>3, <2>4
<1> QED BY <1>1, <1>2, <1>3

(* The modem tells its new state, which comes after the one before, if the *)
(* sender has yet to hear that it was FLUSHED.                             *)
LEMMA ChainGrows ==
  ASSUME Types, AfterFlushed, NEW state \in Tc!States, tcState' = tcState,
         tcToNode' = Append(tcToNode, state), tcModem'.state = state,
         \/ state = tcModem.state
         \/ Rank(tcModem.state) <= Rank(state) /\ Rank(state) <= 2
         \/ \A i \in 0 .. Last - 1 : Chain(i) # "FLUSHED"
  PROVE  /\ AfterFlushed'
         /\ Unflushed /\ state # "FLUSHED" => Unflushed'
         /\ Rises(0) /\ (\/ state = tcModem.state
                         \/ Rank(tcModem.state) <= Rank(state) /\ Rank(state) <= 2) => Rises(0)'
<1>1. /\ Last' = Last + 1 /\ Last \in Nat \ {0} /\ Chain(Last) = tcModem.state
      /\ \A i \in 0 .. Last' : \/ i \in 0 .. Last - 1 /\ Chain(i)' = Chain(i)
                               \/ i \in {Last, Last + 1} /\ Chain(i)' = state
      /\ \A i \in 0 .. Last : Chain(i) \in Tc!States /\ Rank(Chain(i)) \in Nat
  BY ChainAppend, ChainIs
<1>2. Rank(state) \in Nat /\ Rank(tcModem.state) \in Nat /\ (Rank(state) = 0 <=> state = "FLUSHED")
  BY RankIs DEF Types
\* What rose from h on goes on rising.
<1>3. ASSUME NEW h \in 0 .. Last - 1, Rises(h),
             state = tcModem.state \/ (Rank(tcModem.state) <= Rank(state) /\ Rank(state) <= 2)
      PROVE  Rises(h)'
  <2>1. Rank(tcModem.state) <= Rank(state) /\ Rank(state) <= 2
    BY <1>1, <1>2, <1>3 DEF Rises
  <2>2. \A i \in 0 .. Last - 1 : h <= i => Rank(Chain(i)) <= Rank(state)
    <3>1. \A i \in 0 .. Last - 1 : h <= i => Rank(Chain(i)) <= Rank(tcModem.state)
      BY <1>1, <1>3 DEF Rises
    <3> QED BY <1>1, <1>2, <2>1, <3>1
  <2> SUFFICES ASSUME NEW i \in 0 .. Last', NEW j \in 0 .. Last', h <= i, i <= j
               PROVE  Rank(Chain(i)') <= Rank(Chain(j)') /\ Rank(Chain(j)') <= 2
    BY DEF Rises, Rank
  <2>3. CASE j \in 0 .. Last - 1 /\ Chain(j)' = Chain(j)
    <3>1. i \in 0 .. Last - 1 /\ Chain(i)' = Chain(i)
      BY <1>1, <2>3
    <3> QED BY <1>1, <1>3, <2>3, <3>1 DEF Rises
  <2>4. CASE j \in {Last, Last + 1} /\ Chain(j)' = state
    BY <1>1, <1>2, <2>1, <2>2, <2>4
  <2> QED BY <1>1, <2>3, <2>4
<1>4. AfterFlushed'
  <2> SUFFICES ASSUME NEW h \in 0 .. Last', Chain(h)' = "FLUSHED" PROVE Rises(h)'
    BY DEF AfterFlushed
  <2>1. CASE h \in 0 .. Last - 1 /\ Chain(h)' = Chain(h)
    <3>1. Rises(h) /\ Chain(h) = "FLUSHED"
      BY <1>1, <2>1 DEF AfterFlushed
    <3> QED BY <1>3, <2>1, <3>1
  <2>2. CASE h \in {Last, Last + 1} /\ Chain(h)' = state
    <3>1. \A i \in 0 .. Last' : h <= i => Rank(Chain(i)') = 0
      BY <1>1, <1>2, <2>2
    <3>2. \A i \in 0 .. Last' : h <= i => Rank(Chain(i)) ' = 0
      BY <3>1 DEF Rank
    <3> QED BY <1>1, <2>2, <3>2 DEF Rises
  <2> QED BY <1>1, <2>1, <2>2
<1>5. Unflushed /\ state # "FLUSHED" => Unflushed'
  BY <1>1 DEF Unflushed
<1> QED BY <1>1, <1>3, <1>4, <1>5

(* The sender hears the oldest of them.                                    *)
LEMMA ChainHeard ==
  ASSUME Types, AfterFlushed, tcToNode # <<>>, tcState' = Head(tcToNode), tcToNode' = Tail(tcToNode),
         tcModem' = tcModem
  PROVE  /\ tcToNode' \in Seq(Tc!States) /\ tcState' \in Tc!States
         /\ AfterFlushed'
         /\ Unflushed => Unflushed'
         /\ Rises(0) => Rises(0)'
<1>1. /\ tcToNode' \in Seq(Tc!States) /\ tcState' \in Tc!States /\ Len(tcToNode') = Len(tcToNode) - 1
      /\ Len(tcToNode) \in Nat \ {0} /\ tcState' = tcToNode[1]
      /\ \A i \in 1 .. Len(tcToNode) - 1 : tcToNode'[i] = tcToNode[i + 1]
  BY DEF Types
<1>2. Last' = Last - 1 /\ Last \in Nat /\ Last >= 2 /\ Last = Len(tcToNode) + 1
  BY <1>1 DEF Last
<1>3. ASSUME NEW i \in 0 .. Last' PROVE Chain(i)' = Chain(i + 1) /\ i + 1 \in 0 .. Last
  <2>1. CASE i = 0
    <3>1. i + 1 # 0 /\ i + 1 # Last /\ tcToNode[i + 1] = tcState' /\ i + 1 \in 0 .. Last
      BY <1>1, <1>2, <2>1
    <3> QED BY <2>1, <3>1 DEF Chain
  <2>2. CASE i \in 1 .. Last - 2
    <3>1. i \in 1 .. Len(tcToNode) - 1 /\ i # 0 /\ i # Last - 1 /\ i + 1 # 0 /\ i + 1 # Last
          /\ i + 1 \in 0 .. Last
      BY <1>2, <2>2
    <3>2. tcToNode'[i] = tcToNode[i + 1]
      BY <1>1, <3>1
    <3> QED BY <1>2, <3>1, <3>2 DEF Chain
  <2>3. CASE i = Last - 1
    <3>1. i # 0 /\ i = Last' /\ i + 1 # 0 /\ i + 1 = Last /\ i + 1 \in 0 .. Last
      BY <1>2, <2>3
    <3> QED BY <3>1 DEF Chain
  <2> QED BY <1>2, <2>1, <2>2, <2>3
<1>4. ASSUME NEW h \in 0 .. Last', Rises(h + 1) PROVE Rises(h)'
  <2> SUFFICES ASSUME NEW i \in 0 .. Last', NEW j \in 0 .. Last', h <= i, i <= j
               PROVE  Rank(Chain(i)') <= Rank(Chain(j)') /\ Rank(Chain(j)') <= 2
    BY DEF Rises, Rank
  <2>1. h + 1 <= i + 1 /\ i + 1 <= j + 1
    BY <1>2
  <2> QED BY <1>3, <1>4, <2>1 DEF Rises
<1>5. AfterFlushed'
  BY <1>3, <1>4 DEF AfterFlushed
<1>6. Unflushed => Unflushed'
  BY <1>3 DEF Unflushed
<1>7. Rises(0) => Rises(0)'
  <2>1. ASSUME Rises(0) PROVE Rises(0 + 1)
    BY <1>2, <2>1 DEF Rises
  <2> QED BY <1>2, <1>4, <2>1
<1> QED BY <1>1, <1>5, <1>6, <1>7
-----------------------------------------------------------------------------
(* What is under way to the modem, as packets are taken from it and added. *)
LEMMA InboxTail ==
  ASSUME Types, tcToModem # <<>>, tcToModem' = Tail(tcToModem), tcDropped' = tcDropped, tcWindows' = tcWindows
  PROVE  /\ tcToModem' \in Seq(Packet) /\ Head(tcToModem) \in Packet
         /\ Len(tcToModem') = Len(tcToModem) - 1 /\ Len(tcToModem) \in Nat \ {0}
         /\ DOMAIN tcToModem = 1 .. Len(tcToModem) /\ DOMAIN tcToModem' = 1 .. Len(tcToModem) - 1
         /\ Head(tcToModem) = tcToModem[1]
         /\ \A i \in DOMAIN tcToModem' : i + 1 \in DOMAIN tcToModem /\ tcToModem'[i] = tcToModem[i + 1]
         /\ Arms => Arms' /\ IsArm(Head(tcToModem))
         /\ SpentThenArms => SpentThenArms' /\ (IsSpent(Head(tcToModem)) \/ Arms)
         /\ AllSpent => AllSpent' /\ IsSpent(Head(tcToModem))
<1>1. /\ tcToModem' \in Seq(Packet) /\ Head(tcToModem) \in Packet
      /\ Len(tcToModem') = Len(tcToModem) - 1 /\ Len(tcToModem) \in Nat \ {0}
      /\ DOMAIN tcToModem = 1 .. Len(tcToModem) /\ DOMAIN tcToModem' = 1 .. Len(tcToModem) - 1
      /\ Head(tcToModem) = tcToModem[1] /\ 1 \in DOMAIN tcToModem
      /\ \A i \in DOMAIN tcToModem' : i + 1 \in DOMAIN tcToModem /\ tcToModem'[i] = tcToModem[i + 1]
  BY DEF Types
<1>2. Arms => Arms' /\ IsArm(Head(tcToModem))
  BY <1>1 DEF Arms, IsArm
<1>3. AllSpent => AllSpent' /\ IsSpent(Head(tcToModem))
  BY <1>1 DEF AllSpent, IsSpent
<1>4. SpentThenArms => SpentThenArms' /\ (IsSpent(Head(tcToModem)) \/ Arms)
  <2> SUFFICES ASSUME SpentThenArms PROVE SpentThenArms' /\ (IsSpent(Head(tcToModem)) \/ Arms)
    OBVIOUS
  <2>1. IsSpent(Head(tcToModem)) \/ Arms
    BY <1>1 DEF SpentThenArms, Arms
  <2>2. ASSUME NEW i \in DOMAIN tcToModem', ~IsSpent(tcToModem[i])',
               NEW j \in DOMAIN tcToModem', i <= j
        PROVE  IsArm(tcToModem'[j])
    <3>1. /\ i + 1 \in DOMAIN tcToModem /\ j + 1 \in DOMAIN tcToModem /\ i + 1 <= j + 1
          /\ tcToModem'[i] = tcToModem[i + 1] /\ tcToModem'[j] = tcToModem[j + 1]
      BY <1>1, <2>2
    <3>2. ~IsSpent(tcToModem[i + 1])
      BY <2>2, <3>1 DEF IsSpent
    <3> QED BY <3>1, <3>2 DEF SpentThenArms
  <2> QED BY <2>1, <2>2 DEF SpentThenArms, IsArm
<1> QED BY <1>1, <1>2, <1>3, <1>4

LEMMA PartsTail ==
  ASSUME Types, tcToModem # <<>>, tcToModem' = Tail(tcToModem), tcDropped' = tcDropped, tcWindows' = tcWindows,
         NEW no
  PROVE  /\ PartsFrom(1, no) => /\ PartsFrom(1, no)' /\ IsPart(Head(tcToModem), no)
                                /\ LastIsLast(Head(tcToModem), 1)
         /\ PartsFrom(2, no) => PartsFrom(1, no)'
         /\ \A k \in Nat : PartsFrom(k + 1, no) => PartsFrom(k, no)'
<1>1. /\ Len(tcToModem') = Len(tcToModem) - 1 /\ Len(tcToModem) \in Nat \ {0}
      /\ DOMAIN tcToModem = 1 .. Len(tcToModem) /\ DOMAIN tcToModem' = 1 .. Len(tcToModem) - 1
      /\ Head(tcToModem) = tcToModem[1] /\ 1 \in DOMAIN tcToModem
      /\ \A i \in DOMAIN tcToModem' : i + 1 \in DOMAIN tcToModem /\ tcToModem'[i] = tcToModem[i + 1]
  BY InboxTail
<1>2. ASSUME NEW k \in Nat, PartsFrom(k + 1, no) PROVE PartsFrom(k, no)'
  <2> SUFFICES ASSUME NEW i \in DOMAIN tcToModem', k <= i
               PROVE  IsPart(tcToModem[i], no)' /\ LastIsLast(tcToModem[i], i)'
    BY DEF PartsFrom, IsPart, IsFirst
  <2>1. i + 1 \in DOMAIN tcToModem /\ tcToModem'[i] = tcToModem[i + 1] /\ k + 1 <= i + 1 /\ i \in Nat
    BY <1>1
  <2>2. IsPart(tcToModem[i + 1], no) /\ LastIsLast(tcToModem[i + 1], i + 1)
    BY <1>2, <2>1 DEF PartsFrom
  <2>3. i + 1 = Len(tcToModem) => i = Len(tcToModem')
    BY <1>1, <2>1
  <2> QED BY <2>1, <2>2, <2>3 DEF LastIsLast, IsLast, IsPart, IsFirst
<1>3. PartsFrom(1, no) => PartsFrom(1 + 1, no)
  BY <1>1 DEF PartsFrom
<1>4. PartsFrom(1, no) => IsPart(Head(tcToModem), no) /\ LastIsLast(Head(tcToModem), 1)
  BY <1>1 DEF PartsFrom
<1> QED BY <1>2, <1>3, <1>4

LEMMA WindowTail ==
  ASSUME Types, tcToModem # <<>>, tcToModem' = Tail(tcToModem), tcDropped' = tcDropped, tcWindows' = tcWindows,
         ArmsThenWindow
  PROVE  \/ IsArm(Head(tcToModem)) /\ ArmsThenWindow'
         \/ \E no \in 1 .. tcWindows : OpensAt(1, no) /\ PartsFrom(1, no)'
<1>1. /\ Len(tcToModem') = Len(tcToModem) - 1 /\ Len(tcToModem) \in Nat \ {0}
      /\ DOMAIN tcToModem = 1 .. Len(tcToModem) /\ DOMAIN tcToModem' = 1 .. Len(tcToModem) - 1
      /\ Head(tcToModem) = tcToModem[1] /\ 1 \in DOMAIN tcToModem
      /\ \A i \in DOMAIN tcToModem' : i + 1 \in DOMAIN tcToModem /\ tcToModem'[i] = tcToModem[i + 1]
  BY InboxTail
<1>2. PICK a \in 0 .. Len(tcToModem) :
        /\ \A i \in 1 .. a : IsArm(tcToModem[i])
        /\ a < Len(tcToModem) => \E no \in 1 .. tcWindows : OpensAt(a + 1, no) /\ PartsFrom(a + 2, no)
  BY DEF ArmsThenWindow
<1>3. CASE a = 0
  <2>1. PICK no \in 1 .. tcWindows : OpensAt(0 + 1, no) /\ PartsFrom(0 + 2, no)
    BY <1>1, <1>2, <1>3
  <2> QED BY <2>1, PartsTail
<1>4. CASE a # 0
  <2>1. IsArm(Head(tcToModem)) /\ a - 1 \in 0 .. Len(tcToModem') /\ a \in 1 .. Len(tcToModem)
    BY <1>1, <1>2, <1>4
  <2>2. \A i \in 1 .. a - 1 : IsArm(tcToModem'[i])
    <3>1. \A i \in 1 .. a - 1 : i \in DOMAIN tcToModem' /\ i + 1 \in 1 .. a
      BY <1>1, <2>1
    <3> QED BY <1>1, <1>2, <3>1
  <2>3. ASSUME a - 1 < Len(tcToModem')
        PROVE  \E no \in 1 .. tcWindows : OpensAt(a - 1 + 1, no)' /\ PartsFrom(a - 1 + 2, no)'
    <3>1. a < Len(tcToModem)
      BY <1>1, <2>1, <2>3
    <3>2. PICK no \in 1 .. tcWindows : OpensAt(a + 1, no) /\ PartsFrom(a + 2, no)
      BY <1>2, <3>1
    <3>3. /\ a \in DOMAIN tcToModem' /\ a + 1 \in DOMAIN tcToModem /\ a - 1 + 1 = a /\ a - 1 + 2 = a + 1
          /\ a + 1 = Len(tcToModem) => a = Len(tcToModem')
      <4>1. a \in Nat \ {0} /\ a < Len(tcToModem) /\ Len(tcToModem) \in Nat
        BY <1>1, <2>1, <3>1
      <4>2. a \in DOMAIN tcToModem' /\ a + 1 \in DOMAIN tcToModem
        BY <1>1, <4>1
      <4>3. a + 1 = Len(tcToModem) => a = Len(tcToModem) - 1
        BY <4>1
      <4>4. a - 1 + 1 = a /\ a - 1 + 2 = a + 1
        BY <4>1
      <4> QED BY <1>1, <4>2, <4>3, <4>4
    <3>4. OpensAt(a, no)'
      BY <1>1, <3>2, <3>3 DEF OpensAt, LastIsLast, IsLast, IsFirst
    <3>5. a + 1 \in Nat /\ (a + 1) + 1 = a + 2
      BY <2>1
    <3>6. PartsFrom(a + 1, no)'
      BY <3>2, <3>5, PartsTail
    <3> QED BY <3>3, <3>4, <3>6
  <2>4. ArmsThenWindow'
    BY <2>1, <2>2, <2>3 DEF ArmsThenWindow, IsArm
  <2> QED BY <2>1, <2>4
<1> QED BY <1>3, <1>4

LEMMA NumbersKept ==
  ASSUME Types, Numbers, UNCHANGED <<tcQueue, tcWindows>>,
         tcStep' # "idle" => tcStep # "idle" /\ tcWindow'.no = tcWindow.no,
         tcStep' \in {"wait_flushed", "wait_ready"} => tcStep \in {"wait_flushed", "wait_ready"},
         \A no \in Nat : Heard(no)' =>
           \/ Heard(no) \/ no = 0
           \/ no = tcWindow.no /\ tcStep # "idle" /\ tcStep' \notin {"wait_flushed", "wait_ready"}
  PROVE  Numbers'
<1>1. /\ \A i \in DOMAIN tcQueue : tcQueue[i] \in Windows /\ tcQueue[i].no \in Nat \ {0}
      /\ tcWindows \in Nat /\ (tcStep # "idle" => tcWindow.no \in Nat \ {0})
  <2>1. \A i \in DOMAIN tcQueue : tcQueue[i] \in Windows
    BY DEF Types
  <2>2. \A w \in Windows : w.no \in Nat \ {0}
    BY DEF Windows
  <2> QED BY <2>1, <2>2 DEF Types
<1>2. ASSUME NEW no \in Nat, Heard(no)'
      PROVE  no <= tcWindows /\ \A i \in DOMAIN tcQueue : no < tcQueue[i].no
  <2>1. CASE Heard(no)
    BY <2>1 DEF Numbers
  <2>2. CASE no = 0
    BY <1>1, <2>2
  <2>3. CASE no = tcWindow.no /\ tcStep # "idle"
    BY <2>3 DEF Numbers
  <2> QED BY <1>2, <2>1, <2>2, <2>3
<1>3. ASSUME NEW no \in Nat, Heard(no)', tcStep' \in {"wait_flushed", "wait_ready"}
      PROVE  no < tcWindow'.no
  <2>1. tcStep # "idle" /\ tcStep \in {"wait_flushed", "wait_ready"} /\ tcWindow'.no = tcWindow.no
    BY <1>3
  <2>2. Heard(no) \/ no = 0
    BY <1>3
  <2> QED BY <1>1, <2>1, <2>2 DEF Numbers
<1>4. /\ \A i, j \in DOMAIN tcQueue : i < j => tcQueue[i].no < tcQueue[j].no
      /\ \A i \in DOMAIN tcQueue : tcQueue[i].no <= tcWindows /\ tcQueue[i].next = 1
      /\ tcStep' # "idle" => tcWindow'.no <= tcWindows /\ \A i \in DOMAIN tcQueue : tcWindow'.no < tcQueue[i].no
  BY DEF Numbers
<1> QED BY <1>2, <1>3, <1>4 DEF Numbers

LEMMA ArmsOpen == ASSUME Types, Arms PROVE ArmsThenWindow
<1>1. Len(tcToModem) \in Nat /\ DOMAIN tcToModem = 1 .. Len(tcToModem)
  BY DEF Types
<1>2. Len(tcToModem) \in 0 .. Len(tcToModem) /\ ~(Len(tcToModem) < Len(tcToModem))
  BY <1>1
<1> QED BY <1>1, <1>2 DEF Arms, ArmsThenWindow

-----------------------------------------------------------------------------
(* The modem takes a packet.                                               *)
LEMMA TakesIs ==
  ASSUME IInv, Tc!Takes
  PROVE  /\ tcConnected /\ tcToModem # <<>> /\ tcToModem' = Tail(tcToModem) /\ Head(tcToModem) \in Packet
         /\ UNCHANGED <<tcConnected, tcState, tcQueue, tcWindows, tcStep, tcWindow>>
         /\ Types /\ Numbers /\ Inbox /\ Statuses /\ Sending /\ Tc!PacketsAreTaken
<1>1. /\ tcConnected /\ tcToModem # <<>> /\ tcToModem' = Tail(tcToModem)
      /\ UNCHANGED <<tcConnected, tcState, tcQueue, tcWindows, tcStep, tcWindow>>
  BY DEF Tc!Takes, Tc!sender
<1>2. Types /\ Numbers /\ Inbox /\ Statuses /\ Sending /\ Tc!PacketsAreTaken
  BY <1>1 DEF IInv
<1>3. Head(tcToModem) \in Packet
  BY <1>1, <1>2 DEF Types
<1> QED BY <1>1, <1>2, <1>3

LEMMA TakesNumbers ==
  ASSUME Types, Numbers, tcToModem # <<>>, tcToModem' = Tail(tcToModem), tcDropped' = tcDropped,
         UNCHANGED <<tcQueue, tcWindows, tcStep, tcWindow>>,
         tcModem'.no \in Nat, Heard(tcModem'.no) \/ tcModem'.no = 0
  PROVE  Numbers'
<1>1. \A i \in DOMAIN tcToModem' : i + 1 \in DOMAIN tcToModem /\ tcToModem'[i] = tcToModem[i + 1]
  BY InboxTail
<1>2. \A no \in Nat : Heard(no)' => Heard(no) \/ no = 0
  BY <1>1 DEF Heard
<1> QED BY <1>2, NumbersKept

LEMMA TakesArmStep ==
  ASSUME IInv, Tc!Takes, Head(tcToModem).command = "ARM", UNCHANGED <<tcDropped, tcRefused>>,
         IF tcModem.state = "FLUSHED" THEN \E s \in {"READY", "NOT_READY"} : Tc!ModemIs(s, 0)
         ELSE Tc!ModemIs(tcModem.state, tcModem.no)
  PROVE  IInv'
<1>1. /\ tcConnected /\ tcToModem # <<>> /\ tcToModem' = Tail(tcToModem)
      /\ UNCHANGED <<tcConnected, tcState, tcQueue, tcWindows, tcStep, tcWindow>>
      /\ Types /\ Numbers /\ Inbox /\ Statuses /\ Sending /\ Tc!PacketsAreTaken
  BY TakesIs
<1>2. /\ tcToModem' \in Seq(Packet) /\ Head(tcToModem) = tcToModem[1] /\ 1 \in DOMAIN tcToModem
      /\ DOMAIN tcToModem = 1 .. Len(tcToModem) /\ DOMAIN tcToModem' = 1 .. Len(tcToModem) - 1
      /\ Len(tcToModem) \in Nat \ {0}
      /\ \A i \in DOMAIN tcToModem' : i + 1 \in DOMAIN tcToModem /\ tcToModem'[i] = tcToModem[i + 1]
      /\ Arms => Arms'
      /\ SpentThenArms => IsSpent(Head(tcToModem)) \/ Arms
      /\ AllSpent => IsSpent(Head(tcToModem))
  BY <1>1, InboxTail
<1>3. ~IsSpent(Head(tcToModem)) /\ ~AllSpent /\ \A no : ~IsPart(Head(tcToModem), no)
  BY <1>2 DEF IsSpent, IsPart
<1>4. \A no : ~PartsFrom(1, no)
  BY <1>2, <1>3 DEF PartsFrom
<1>5. ASSUME NEW state \in Tc!States, tcModem' = [state |-> state, no |-> 0],
             tcToNode' = Append(tcToNode, state),
             tcModem.no = 0,
             \/ tcModem.state = "FLUSHED" /\ state \in {"READY", "NOT_READY"}
             \/ tcModem.state \in {"NOT_READY", "READY"} /\ state = tcModem.state,
             state = "NOT_READY" => Arms', state = "READY" => ArmsThenWindow',
             Arms' => Arms \/ tcModem.state # "READY",
             tcModem.state = "FLUSHED" => Arms'
      PROVE  IInv'
  <2>1. Types'
    BY <1>1, <1>2, <1>5, ChainAppend DEF Types
  <2>2. Numbers'
    BY <1>1, <1>5, TakesNumbers
  <2>3. Inbox'
    BY <1>5 DEF Inbox
  <2>4. state # "FLUSHED" /\ Rank(tcModem.state) <= Rank(state) /\ Rank(state) <= 2
    BY <1>5 DEF Rank
  <2>5. AfterFlushed' /\ (Unflushed => Unflushed') /\ (Rises(0) => Rises(0)')
    BY <1>1, <1>5, <2>4, ChainGrows DEF Statuses
  <2>6. Streaming' => Streaming
    BY <1>2, <1>5 DEF Streaming
  <2>7. Statuses'
    BY <1>1, <2>5, <2>6 DEF Statuses
  <2>8. Sending'
    <3> SUFFICES ASSUME tcStep \in {"wait_started", "rest"} PROVE Sending'
      BY <1>1 DEF Sending
    <3>1. /\ tcWindow.no \notin tcDropped /\ tcModem.state = "READY" /\ Unflushed
          /\ \A i \in DOMAIN tcToModem : tcToModem[i].command = "DATA" => /\ tcToModem[i].no = tcWindow.no
                                                                     /\ ~IsLast(tcToModem[i])
          /\ IF tcWindow.next = 1
             THEN tcStep = "rest" /\ tcWindow.n = 1 /\ Arms
             ELSE Streaming /\ tcWindow.next <= tcWindow.n
      BY <1>1, <1>3, <1>5 DEF Sending
    <3>2. \A i \in DOMAIN tcToModem' : tcToModem'[i].command = "DATA" => /\ tcToModem'[i].no = tcWindow.no
                                                                         /\ ~IsLast(tcToModem'[i])
      BY <1>2, <3>1
    <3>3. Streaming => Streaming'
      BY <1>5, <3>1 DEF Streaming
    <3>4. tcModem'.state = "READY" /\ tcModem'.no = 0
      BY <1>5, <3>1
    <3> QED BY <1>1, <1>2, <2>5, <3>1, <3>2, <3>3, <3>4 DEF Sending, IsLast
  <2>9. Tc!PacketsAreTaken'
    BY <1>1 DEF Tc!PacketsAreTaken
  <2> QED BY <1>1, <2>1, <2>2, <2>3, <2>7, <2>8, <2>9 DEF IInv
<1>6. CASE tcModem.state = "FLUSHED"
  <2>1. PICK s \in {"READY", "NOT_READY"} : Tc!ModemIs(s, 0)
    BY <1>6
  <2>2. Arms /\ Arms' /\ tcModem.no = 0
    BY <1>1, <1>2, <1>3, <1>6 DEF Inbox
  <2>3. s \in Tc!States /\ tcModem' = [state |-> s, no |-> 0] /\ tcToNode' = Append(tcToNode, s)
    BY <1>1, <2>1 DEF Tc!ModemIs, Tc!States
  <2>4. ArmsThenWindow'
    <3>1. Len(tcToModem') \in Nat /\ DOMAIN tcToModem' = 1 .. Len(tcToModem')
      <4>1. tcToModem' \in Seq(Packet)
        BY <1>2
      <4> QED BY <4>1
    <3>2. Len(tcToModem') \in 0 .. Len(tcToModem') /\ ~(Len(tcToModem') < Len(tcToModem'))
      BY <3>1
    <3> QED BY <2>2, <3>1, <3>2 DEF Arms, ArmsThenWindow, IsArm
  <2> QED BY <1>5, <1>6, <2>2, <2>3, <2>4
<1>7. CASE tcModem.state # "FLUSHED"
  <2>1. /\ tcModem' = [state |-> tcModem.state, no |-> tcModem.no] /\ tcToNode' = Append(tcToNode, tcModem.state)
        /\ tcModem.state \in Tc!States
    BY <1>1, <1>7 DEF Tc!ModemIs, Types
  <2>2. /\ tcModem.no = 0
        /\ \/ tcModem.state = "NOT_READY" /\ Arms
           \/ tcModem.state = "READY" /\ ArmsThenWindow
    BY <1>1, <1>3, <1>4, <1>7 DEF Inbox
  <2>3. tcModem.state = "READY" => ArmsThenWindow'
    <3> SUFFICES ASSUME ArmsThenWindow PROVE ArmsThenWindow'
      BY <2>2
    <3>1. \A no : ~OpensAt(1, no)
      BY <1>2 DEF OpensAt
    <3> QED BY <1>1, <3>1, WindowTail
  <2>4. Arms' => Arms
    <3> SUFFICES ASSUME Arms', NEW i \in DOMAIN tcToModem PROVE IsArm(tcToModem[i])
      BY DEF Arms
    <3>1. CASE i = 1
      BY <1>2, <3>1 DEF IsArm
    <3>2. CASE i # 1
      <4>1. i \in 1 .. Len(tcToModem) /\ Len(tcToModem) \in Nat
        BY <1>1 DEF Types
      <4>2. i - 1 \in 1 .. Len(tcToModem) - 1 /\ i - 1 + 1 = i
        BY <3>2, <4>1
      <4>3. i - 1 \in DOMAIN tcToModem' /\ tcToModem'[i - 1] = tcToModem[i]
        BY <1>2, <4>2
      <4> QED BY <4>3 DEF Arms, IsArm
    <3> QED BY <3>1, <3>2
  <2> QED BY <1>2, <1>5, <1>7, <2>1, <2>2, <2>3, <2>4
<1> QED BY <1>6, <1>7

LEMMA TakesStartStep ==
  ASSUME IInv, Tc!Takes, Head(tcToModem).command = "START", UNCHANGED <<tcDropped, tcRefused>>,
         Tc!ModemIs(IF tcModem.state = "READY" THEN "STARTED" ELSE tcModem.state, tcModem.no)
  PROVE  IInv'
<1> DEFINE state == IF tcModem.state = "READY" THEN "STARTED" ELSE tcModem.state
<1>1. /\ tcConnected /\ tcToModem # <<>> /\ tcToModem' = Tail(tcToModem)
      /\ UNCHANGED <<tcConnected, tcState, tcQueue, tcWindows, tcStep, tcWindow>>
      /\ Types /\ Numbers /\ Inbox /\ Statuses /\ Sending /\ Tc!PacketsAreTaken
  BY TakesIs
<1>2. /\ tcToModem' \in Seq(Packet) /\ Head(tcToModem) = tcToModem[1] /\ 1 \in DOMAIN tcToModem
      /\ \A i \in DOMAIN tcToModem' : i + 1 \in DOMAIN tcToModem /\ tcToModem'[i] = tcToModem[i + 1]
      /\ Arms => IsArm(Head(tcToModem))
      /\ SpentThenArms => SpentThenArms'
      /\ AllSpent => AllSpent'
  BY <1>1, InboxTail
<1>3. ~IsArm(Head(tcToModem)) /\ ~Arms /\ \A no : ~OpensAt(1, no)
  BY <1>2 DEF IsArm, OpensAt
<1>4. ~ArmsThenWindow
  BY <1>1, <1>3, WindowTail
<1>5. /\ tcModem' = [state |-> state, no |-> tcModem.no] /\ tcToNode' = Append(tcToNode, state)
      /\ state \in Tc!States
  BY <1>1 DEF Tc!ModemIs, Types, Tc!States
<1>6. /\ tcModem.state \in {"READY", "STARTED"} => tcModem.no # 0 /\ PartsFrom(1, tcModem.no) /\ state = "STARTED"
      /\ tcModem.state = "FLUSHED" => tcModem.no = 0 /\ SpentThenArms
      /\ tcModem.state \in {"DRAINING_OK", "DRAINING_FORCED"} => tcModem.no # 0 /\ AllSpent
      /\ tcModem.state # "NOT_READY" /\ tcModem.state \in Tc!States
  BY <1>1, <1>3, <1>4 DEF Inbox, Types
<1>7. Types'
  BY <1>1, <1>2, <1>5, ChainAppend DEF Types
<1>8. Numbers'
  <2>1. tcModem'.no \in Nat /\ Heard(tcModem'.no)
    BY <1>1, <1>5 DEF Types, Heard
  <2> QED BY <1>1, <2>1, TakesNumbers
<1>9. Inbox'
  <2>1. PICK no \in Nat : no = tcModem.no
    BY <1>1 DEF Types
  <2>2. PartsFrom(1, no) => PartsFrom(1, no)'
    BY <1>1, PartsTail
  <2>3. tcModem'.no = no /\ tcModem'.state = state
    BY <1>5, <2>1
  <2>4. CASE tcModem.state \in {"READY", "STARTED"}
    <3>1. no # 0 /\ PartsFrom(1, no)' /\ state = "STARTED"
      BY <1>6, <2>1, <2>2, <2>4
    <3>2. PartsFrom(1, tcModem.no)'
      BY <2>3, <3>1 DEF PartsFrom
    <3> QED BY <2>3, <3>1, <3>2 DEF Inbox
  <2>5. CASE tcModem.state \notin {"READY", "STARTED"}
    BY <1>2, <1>5, <1>6, <2>5 DEF Inbox, Tc!States
  <2> QED BY <2>4, <2>5
<1>10. (Streaming /\ tcModem.state # "FLUSHED") \/ (tcModem.state = "FLUSHED" /\ ~Streaming)
  BY <1>6 DEF Streaming, Tc!States
<1>11. Streaming' => Streaming /\ state # "FLUSHED"
  BY <1>5, <1>6, <1>10 DEF Streaming
<1>12. /\ AfterFlushed'
       /\ Unflushed /\ state # "FLUSHED" => Unflushed'
       /\ Rises(0) /\ state = tcModem.state => Rises(0)'
  <2>1. CASE state = tcModem.state
    BY <1>1, <1>5, <2>1, ChainGrows DEF Statuses
  <2>2. CASE state # tcModem.state
    <3>1. Unflushed
      BY <1>1, <1>6, <2>2 DEF Statuses, Streaming
    <3>2. \A i \in 0 .. Last - 1 : Chain(i) # "FLUSHED"
      <4>1. Last \in Nat
        BY <1>1, ChainIs
      <4> QED BY <3>1, <4>1 DEF Unflushed
    <3> QED BY <1>1, <1>5, <3>2, <2>2, ChainGrows DEF Statuses
  <2> QED BY <2>1, <2>2
<1>13. Statuses'
  <2>1. tcStep' = "wait_ready" => Rises(0)'
    <3>1. tcStep = "wait_ready" => ~Streaming /\ Rises(0)
      BY <1>1 DEF Statuses
    <3>2. ~Streaming => state = tcModem.state
      BY <1>10
    <3> QED BY <1>1, <1>12, <3>1, <3>2
  <2> QED BY <1>1, <1>11, <1>12, <2>1 DEF Statuses
<1>14. Sending'
  <2> SUFFICES ASSUME tcStep \in {"wait_started", "rest"} PROVE Sending'
    BY <1>1 DEF Sending
  <2>1. CASE tcWindow.no \in tcDropped
    <3>1. tcModem.state \in {"DRAINING_FORCED", "FLUSHED"} /\ AllSpent
      BY <1>1, <2>1 DEF Sending
    <3> QED BY <1>1, <1>2, <1>5, <2>1, <3>1 DEF Sending
  <2>2. CASE tcWindow.no \notin tcDropped
    <3>1. /\ tcModem.state \in {"READY", "STARTED"} /\ Unflushed /\ tcModem.no \in {0, tcWindow.no}
          /\ \A i \in DOMAIN tcToModem : tcToModem[i].command = "DATA" => /\ tcToModem[i].no = tcWindow.no
                                                                     /\ ~IsLast(tcToModem[i])
          /\ tcWindow.next # 1 /\ tcWindow.next <= tcWindow.n
      BY <1>1, <1>3, <2>2 DEF Sending
    <3>2. \A i \in DOMAIN tcToModem' : tcToModem'[i].command = "DATA" => /\ tcToModem'[i].no = tcWindow.no
                                                                         /\ ~IsLast(tcToModem'[i])
      BY <1>2, <3>1
    <3>3. tcModem'.state = "STARTED" /\ tcModem'.no = tcModem.no /\ tcModem.no # 0
      BY <1>5, <1>6, <3>1
    <3>4. Streaming' /\ Unflushed'
      BY <1>5, <1>12, <3>1, <3>3 DEF Streaming
    <3> QED BY <1>1, <2>2, <3>1, <3>2, <3>3, <3>4 DEF Sending, IsLast
  <2> QED BY <2>1, <2>2
<1>15. Tc!PacketsAreTaken'
  BY <1>1 DEF Tc!PacketsAreTaken
<1> QED BY <1>1, <1>7, <1>8, <1>9, <1>13, <1>14, <1>15 DEF IInv

LEMMA TakesDataStep ==
  ASSUME IInv, Tc!Takes, NEW p, p = Head(tcToModem), p.command = "DATA",
         IF \/ tcModem.state \notin {"READY", "STARTED"}
            \/ tcModem.no # IF IsFirst(p) THEN 0 ELSE p.no
         THEN Tc!Refuse(p)
         ELSE IF IsLast(p) THEN Tc!ModemIs("DRAINING_OK", p.no) /\ UNCHANGED <<tcDropped, tcRefused>>
         ELSE /\ tcModem' = [tcModem EXCEPT !.no = p.no]
              /\ UNCHANGED <<tcToNode, tcDropped, tcRefused>>
  PROVE  IInv'
<1>1. /\ tcConnected /\ tcToModem # <<>> /\ tcToModem' = Tail(tcToModem) /\ p \in Packet /\ p.no \in Nat
      /\ UNCHANGED <<tcConnected, tcState, tcQueue, tcWindows, tcStep, tcWindow>>
      /\ Types /\ Numbers /\ Inbox /\ Statuses /\ Sending /\ Tc!PacketsAreTaken
  <2>1. p \in Packet
    BY TakesIs
  <2> QED BY <2>1, TakesIs DEF Packet
<1>2. tcDropped' = tcDropped /\ tcModem.state \in Tc!States /\ tcModem.no \in Nat
  BY <1>1 DEF Tc!Refuse, Types
<1>3. /\ tcToModem' \in Seq(Packet) /\ p = tcToModem[1] /\ 1 \in DOMAIN tcToModem
      /\ Len(tcToModem) \in Nat \ {0}
      /\ DOMAIN tcToModem = 1 .. Len(tcToModem) /\ DOMAIN tcToModem' = 1 .. Len(tcToModem) - 1
      /\ \A i \in DOMAIN tcToModem' : i + 1 \in DOMAIN tcToModem /\ tcToModem'[i] = tcToModem[i + 1]
      /\ Arms => IsArm(p)
      /\ SpentThenArms => SpentThenArms' /\ (IsSpent(p) \/ Arms)
      /\ AllSpent => AllSpent' /\ IsSpent(p)
  BY <1>1, <1>2, InboxTail
<1>4. ~IsArm(p) /\ ~Arms
  BY <1>3 DEF IsArm
<1>5. Sending' \/ tcStep \in {"wait_started", "rest"}
  BY <1>1 DEF Sending
<1>6. PICK at \in Nat : at = tcModem.no
  BY <1>2
\* A window begins with its first packet, and goes on with its own packets.
<1>7. ASSUME tcModem.state \in {"READY", "STARTED"}
      PROVE  /\ tcModem.no = IF IsFirst(p) THEN 0 ELSE p.no
             /\ p.no # 0 /\ PartsFrom(1, p.no)' /\ LastIsLast(p, 1) /\ Streaming
  <2>1. CASE at = 0
    <3>1. tcModem.state = "READY" /\ ArmsThenWindow
      BY <1>1, <1>6, <1>7, <2>1 DEF Inbox
    <3>2. PICK no \in 1 .. tcWindows : OpensAt(1, no) /\ PartsFrom(1, no)'
      BY <1>1, <1>2, <1>4, <3>1, WindowTail
    <3>3. no = p.no /\ no # 0 /\ IsFirst(p) /\ LastIsLast(p, 1)
      BY <1>3, <3>2 DEF OpensAt
    <3> QED BY <1>4, <1>6, <2>1, <3>1, <3>2, <3>3 DEF Streaming
  <2>2. CASE at # 0
    <3>1. PartsFrom(1, at)
      BY <1>1, <1>6, <1>7, <2>2 DEF Inbox
    <3>2. PartsFrom(1, at)' /\ IsPart(p, at) /\ LastIsLast(p, 1)
      BY <1>1, <1>2, <3>1, PartsTail
    <3>3. p.no = at /\ ~IsFirst(p)
      BY <3>2 DEF IsPart
    <3> QED BY <1>6, <2>2, <3>2, <3>3 DEF Streaming
  <2> QED BY <2>1, <2>2
<1>8. CASE tcModem.state \notin {"READY", "STARTED"}
  <2>1. tcRefused' = tcRefused \cup {p.no} /\ UNCHANGED <<tcModem, tcToNode>>
    BY <1>8 DEF Tc!Refuse
  <2>2. \/ tcModem.state = "FLUSHED" /\ tcModem.no = 0 /\ SpentThenArms
        \/ tcModem.state \in {"DRAINING_OK", "DRAINING_FORCED"} /\ tcModem.no # 0 /\ AllSpent
    BY <1>1, <1>4, <1>8 DEF Inbox
  <2>3. p.no \in tcDropped
    BY <1>3, <1>4, <2>2 DEF IsSpent
  <2>4. Tc!PacketsAreTaken'
    BY <1>1, <1>2, <2>1, <2>3 DEF Tc!PacketsAreTaken
  <2>5. Inbox'
    BY <1>3, <2>1, <2>2 DEF Inbox
  <2>6. Types'
    BY <1>1, <1>2, <1>3, <2>1 DEF Types
  <2>7. Numbers'
    <3>1. tcModem'.no \in Nat /\ Heard(tcModem'.no)
      BY <1>2, <2>1 DEF Heard
    <3> QED BY <1>1, <1>2, <3>1, TakesNumbers
  <2>8. Statuses'
    <3>1. (AfterFlushed' <=> AfterFlushed) /\ (Unflushed' <=> Unflushed) /\ (Rises(0)' <=> Rises(0))
      BY <1>1, <2>1, ChainSame
    <3>2. Streaming' => Streaming
      BY <1>8, <2>1 DEF Streaming
    <3> QED BY <1>1, <3>1, <3>2 DEF Statuses
  <2>9. Sending'
    <3>1. CASE tcStep \in {"wait_started", "rest"}
      <4>1. tcWindow.no \in tcDropped /\ tcModem.state \in {"DRAINING_FORCED", "FLUSHED"} /\ AllSpent
        BY <1>1, <1>8, <3>1 DEF Sending
      <4> QED BY <1>1, <1>2, <1>3, <2>1, <4>1 DEF Sending
    <3> QED BY <1>5, <3>1
  <2> QED BY <1>1, <2>4, <2>5, <2>6, <2>7, <2>8, <2>9 DEF IInv
<1>9. CASE tcModem.state \in {"READY", "STARTED"} /\ IsLast(p)
  <2>1. /\ tcModem' = [state |-> "DRAINING_OK", no |-> p.no] /\ tcToNode' = Append(tcToNode, "DRAINING_OK")
        /\ tcRefused' = tcRefused
    BY <1>1, <1>7, <1>9 DEF Tc!ModemIs
  <2>2. Len(tcToModem) = 1
    BY <1>3, <1>7, <1>9 DEF LastIsLast
  <2>3. DOMAIN tcToModem' = {}
    BY <1>3, <2>2
  <2>4. Inbox'
    BY <1>7, <1>9, <2>1, <2>3 DEF Inbox, AllSpent
  <2>5. Types'
    <3>1. tcToNode' \in Seq(Tc!States)
      BY <1>1, <2>1 DEF Types, Tc!States
    <3> QED BY <1>1, <1>2, <1>3, <2>1, <3>1 DEF Types, Tc!States
  <2>6. Numbers'
    <3>1. tcModem'.no \in Nat /\ Heard(tcModem'.no)
      BY <1>1, <1>3, <2>1 DEF Heard
    <3> QED BY <1>1, <1>2, <3>1, TakesNumbers
  <2>7. Unflushed /\ tcStep # "wait_ready"
    BY <1>1, <1>7, <1>9 DEF Statuses
  <2>8. AfterFlushed' /\ Unflushed'
    <3>1. \A i \in 0 .. Last - 1 : Chain(i) # "FLUSHED"
      <4>1. Last \in Nat
        BY <1>1, ChainIs
      <4> QED BY <2>7, <4>1 DEF Unflushed
    <3>2. "DRAINING_OK" \in Tc!States /\ tcModem'.state = "DRAINING_OK"
      BY <2>1 DEF Tc!States
    <3> QED BY <1>1, <2>1, <2>7, <3>1, <3>2, ChainGrows DEF Statuses
  <2>9. Statuses'
    BY <1>1, <2>7, <2>8 DEF Statuses
  <2>10. Sending'
    <3>1. CASE tcStep \in {"wait_started", "rest"}
      BY <1>1, <1>3, <1>9, <3>1 DEF Sending
    <3> QED BY <1>5, <3>1
  <2>11. Tc!PacketsAreTaken'
    BY <1>1, <1>2, <2>1 DEF Tc!PacketsAreTaken
  <2> QED BY <1>1, <2>4, <2>5, <2>6, <2>9, <2>10, <2>11 DEF IInv
<1>10. CASE tcModem.state \in {"READY", "STARTED"} /\ ~IsLast(p)
  <2>1. /\ tcModem' = [tcModem EXCEPT !.no = p.no] /\ UNCHANGED <<tcToNode, tcRefused>>
    BY <1>1, <1>7, <1>10
  <2>2. tcModem'.state = tcModem.state /\ tcModem'.no = p.no
    <3>1. tcModem = [state |-> tcModem.state, no |-> tcModem.no]
      BY <1>1 DEF Types
    <3> QED BY <2>1, <3>1
  <2>3. Inbox'
    <3>1. PICK no \in Nat : no = p.no
      BY <1>1
    <3>2. no # 0 /\ PartsFrom(1, no)'
      BY <1>7, <1>10, <3>1
    <3>3. PartsFrom(1, tcModem.no)'
      BY <2>2, <3>1, <3>2 DEF PartsFrom
    <3> QED BY <1>10, <2>2, <3>1, <3>2, <3>3 DEF Inbox
  <2>5. Types'
    BY <1>1, <1>2, <1>3, <2>1, <2>2 DEF Types
  <2>6. Numbers'
    <3>1. tcModem'.no \in Nat /\ Heard(tcModem'.no)
      BY <1>1, <1>3, <2>2 DEF Heard
    <3> QED BY <1>1, <1>2, <3>1, TakesNumbers
  <2>7. /\ Unflushed /\ tcStep # "wait_ready" /\ Streaming'
    BY <1>1, <1>7, <1>10, <2>2 DEF Statuses, Streaming
  <2>8. Statuses'
    <3>1. (AfterFlushed' <=> AfterFlushed) /\ (Unflushed' <=> Unflushed)
      BY <1>1, <2>1, <2>2, ChainSame
    <3> QED BY <1>1, <2>7, <3>1 DEF Statuses
  <2>9. Sending'
    <3>1. CASE tcStep \in {"wait_started", "rest"}
      <4>1. /\ tcWindow.no \notin tcDropped /\ Unflushed
            /\ \A i \in DOMAIN tcToModem : tcToModem[i].command = "DATA" => /\ tcToModem[i].no = tcWindow.no
                                                                       /\ ~IsLast(tcToModem[i])
            /\ tcWindow.next # 1 /\ tcWindow.next <= tcWindow.n
        BY <1>1, <1>4, <1>10, <3>1 DEF Sending
      <4>2. p.no = tcWindow.no
        BY <1>3, <4>1
      <4>3. \A i \in DOMAIN tcToModem' : tcToModem'[i].command = "DATA" => /\ tcToModem'[i].no = tcWindow.no
                                                                           /\ ~IsLast(tcToModem'[i])
        BY <1>3, <4>1
      <4>4. Unflushed'
        BY <1>1, <2>1, <2>2, <4>1, ChainSame
      <4> QED BY <1>1, <1>2, <1>10, <2>2, <2>7, <4>1, <4>2, <4>3, <4>4 DEF Sending, IsLast
    <3> QED BY <1>5, <3>1
  <2>11. Tc!PacketsAreTaken'
    BY <1>1, <1>2, <2>1 DEF Tc!PacketsAreTaken
  <2> QED BY <1>1, <2>3, <2>5, <2>6, <2>8, <2>9, <2>11 DEF IInv
<1> QED BY <1>8, <1>9, <1>10

LEMMA TakesStep == ASSUME IInv, Tc!Takes PROVE IInv'
<1>1. PICK p : p = Head(tcToModem)
  OBVIOUS
<1>2. \/ /\ p.command = "ARM" /\ UNCHANGED <<tcDropped, tcRefused>>
         /\ IF tcModem.state = "FLUSHED" THEN \E s \in {"READY", "NOT_READY"} : Tc!ModemIs(s, 0)
            ELSE Tc!ModemIs(tcModem.state, tcModem.no)
      \/ /\ p.command = "START" /\ UNCHANGED <<tcDropped, tcRefused>>
         /\ Tc!ModemIs(IF tcModem.state = "READY" THEN "STARTED" ELSE tcModem.state, tcModem.no)
      \/ /\ p.command = "DATA"
         /\ IF \/ tcModem.state \notin {"READY", "STARTED"}
               \/ tcModem.no # IF IsFirst(p) THEN 0 ELSE p.no
            THEN Tc!Refuse(p)
            ELSE IF IsLast(p) THEN Tc!ModemIs("DRAINING_OK", p.no) /\ UNCHANGED <<tcDropped, tcRefused>>
            ELSE /\ tcModem' = [tcModem EXCEPT !.no = p.no]
                 /\ UNCHANGED <<tcToNode, tcDropped, tcRefused>>
  BY <1>1 DEF Tc!Takes, IsFirst, IsLast
<1> QED BY <1>1, <1>2, TakesArmStep, TakesStartStep, TakesDataStep
-----------------------------------------------------------------------------
(* The modem's own steps.                                                  *)
LEMMA OutsideIs ==
  ASSUME IInv, Tc!Outside, NEW state \in Tc!States, NEW no \in Nat, Tc!ModemIs(state, no),
         no = 0 \/ no = tcModem.no, tcDropped' \subseteq tcDropped \cup {tcModem.no}
  PROVE  /\ Types' /\ Numbers'
         /\ UNCHANGED <<tcConnected, tcState, tcQueue, tcWindows, tcStep, tcWindow, tcToModem, tcRefused>>
         /\ tcModem' = [state |-> state, no |-> no]
         /\ tcConnected => tcToNode' = Append(tcToNode, state)
         /\ Types /\ Numbers /\ Tc!PacketsAreTaken
<1>1. /\ UNCHANGED <<tcConnected, tcState, tcQueue, tcWindows, tcStep, tcWindow, tcToModem, tcRefused>>
      /\ tcModem' = [state |-> state, no |-> no]
      /\ tcToNode' = IF tcConnected THEN Append(tcToNode, state) ELSE tcToNode
      /\ Types /\ Numbers /\ Tc!PacketsAreTaken
  BY DEF Tc!Outside, Tc!sender, Tc!ModemIs, IInv
<1>2. Types'
  <2>1. tcToNode' \in Seq(Tc!States) /\ tcDropped' \subseteq Nat
    BY <1>1 DEF Types
  <2> QED BY <1>1, <2>1 DEF Types
<1>3. Numbers'
  <2>1. \A x \in Nat : Heard(x)' => Heard(x) \/ x = 0
    BY <1>1 DEF Heard
  <2> QED BY <1>1, <2>1, NumbersKept
<1> QED BY <1>1, <1>2, <1>3

LEMMA PortReadyStep == ASSUME IInv, Tc!PortReady PROVE IInv'
<1>1. /\ Types' /\ Numbers' /\ Types /\ Numbers /\ Tc!PacketsAreTaken
      /\ UNCHANGED <<tcConnected, tcState, tcQueue, tcWindows, tcStep, tcWindow, tcToModem, tcRefused, tcDropped>>
      /\ tcModem' = [state |-> "READY", no |-> 0] /\ tcModem.state = "NOT_READY"
      /\ tcConnected => tcToNode' = Append(tcToNode, "READY")
  BY OutsideIs DEF Tc!PortReady, Tc!States
<1>2. Tc!PacketsAreTaken' /\ (~tcConnected' => tcToModem' = <<>>)
  BY <1>1 DEF IInv, Tc!PacketsAreTaken
<1>3. ASSUME tcConnected PROVE Inbox' /\ Statuses' /\ Sending'
  <2>1. Arms /\ tcModem.no = 0 /\ Statuses /\ Sending
    BY <1>1, <1>3 DEF IInv, Inbox
  <2>2. Arms' /\ ArmsThenWindow'
    BY <1>1, <2>1, ArmsOpen DEF Arms, ArmsThenWindow, IsArm, OpensAt, PartsFrom, LastIsLast
  <2>3. Inbox'
    BY <1>1, <2>2 DEF Inbox
  <2>4. "READY" \in Tc!States /\ Rank(tcModem.state) <= Rank("READY") /\ Rank("READY") <= 2
    BY <1>1 DEF Tc!States, Rank
  <2>5. AfterFlushed' /\ (Rises(0) => Rises(0)')
    BY <1>1, <1>3, <2>1, <2>4, ChainGrows DEF Statuses
  <2>6. ~Streaming'
    BY <1>1, <2>2 DEF Streaming
  <2>7. Statuses'
    BY <1>1, <2>1, <2>5, <2>6 DEF Statuses
  <2>8. Sending'
    <3>1. ~(tcStep \in {"wait_started", "rest"})
      BY <1>1, <2>1 DEF Sending
    <3> QED BY <1>1, <3>1 DEF Sending
  <2> QED BY <2>3, <2>7, <2>8
<1> QED BY <1>1, <1>2, <1>3 DEF IInv

LEMMA DrainedStep == ASSUME IInv, Tc!Drained PROVE IInv'
<1>1. /\ Types' /\ Numbers' /\ Types /\ Numbers /\ Tc!PacketsAreTaken
      /\ UNCHANGED <<tcConnected, tcState, tcQueue, tcWindows, tcStep, tcWindow, tcToModem, tcRefused, tcDropped>>
      /\ tcModem' = [state |-> "FLUSHED", no |-> 0] /\ tcModem.state \in {"DRAINING_OK", "DRAINING_FORCED"}
      /\ tcConnected => tcToNode' = Append(tcToNode, "FLUSHED")
  BY OutsideIs DEF Tc!Drained, Tc!States
<1>2. Tc!PacketsAreTaken' /\ (~tcConnected' => tcToModem' = <<>>)
  BY <1>1 DEF IInv, Tc!PacketsAreTaken
<1>3. ASSUME tcConnected PROVE Inbox' /\ Statuses' /\ Sending'
  <2>1. AllSpent /\ tcModem.no # 0 /\ Statuses /\ Sending
    BY <1>1, <1>3 DEF IInv, Inbox
  <2>2. AllSpent' /\ SpentThenArms'
    BY <1>1, <2>1 DEF AllSpent, SpentThenArms, IsSpent
  <2>3. Inbox'
    BY <1>1, <2>2 DEF Inbox
  <2>4. Unflushed /\ tcStep # "wait_ready"
    BY <2>1 DEF Statuses, Streaming
  <2>5. AfterFlushed'
    <3>1. \A i \in 0 .. Last - 1 : Chain(i) # "FLUSHED"
      <4>1. Last \in Nat
        BY <1>1, ChainIs
      <4> QED BY <2>4, <4>1 DEF Unflushed
    <3>2. "FLUSHED" \in Tc!States
      BY DEF Tc!States
    <3> QED BY <1>1, <1>3, <2>1, <3>1, <3>2, ChainGrows DEF Statuses
  <2>6. ~Streaming'
    BY <1>1 DEF Streaming
  <2>7. Statuses'
    BY <1>1, <2>4, <2>5, <2>6 DEF Statuses
  <2>8. Sending'
    BY <1>1, <2>1, <2>2 DEF Sending
  <2> QED BY <2>3, <2>7, <2>8
<1> QED BY <1>1, <1>2, <1>3 DEF IInv

LEMMA UnderrunStep == ASSUME IInv, Tc!Underrun PROVE IInv'
<1>1. /\ Types' /\ Numbers' /\ Types /\ Numbers /\ Tc!PacketsAreTaken
      /\ UNCHANGED <<tcConnected, tcState, tcQueue, tcWindows, tcStep, tcWindow, tcToModem, tcRefused>>
      /\ tcDropped' = tcDropped \cup {tcModem.no}
      /\ tcModem' = [state |-> "DRAINING_FORCED", no |-> tcModem.no] /\ tcModem.state = "STARTED"
      /\ tcConnected => tcToNode' = Append(tcToNode, "DRAINING_FORCED")
  <2>1. tcModem.no \in Nat
    BY DEF IInv, Types
  <2> QED BY <2>1, OutsideIs DEF Tc!Underrun, Tc!States
<1>2. Tc!PacketsAreTaken' /\ (~tcConnected' => tcToModem' = <<>>)
  BY <1>1 DEF IInv, Tc!PacketsAreTaken
<1>3. ASSUME tcConnected PROVE Inbox' /\ Statuses' /\ Sending'
  <2>1. PartsFrom(1, tcModem.no) /\ tcModem.no # 0 /\ Statuses /\ Sending
    BY <1>1, <1>3 DEF IInv, Inbox
  <2>2. AllSpent'
    <3>1. \A i \in DOMAIN tcToModem : 1 <= i
      BY <1>1 DEF Types
    <3> QED BY <1>1, <2>1, <3>1 DEF AllSpent, IsSpent, PartsFrom, IsPart
  <2>3. Inbox'
    BY <1>1, <2>1, <2>2 DEF Inbox
  <2>4. Unflushed /\ tcStep # "wait_ready"
    BY <2>1 DEF Statuses, Streaming
  <2>5. AfterFlushed' /\ Unflushed'
    <3>1. \A i \in 0 .. Last - 1 : Chain(i) # "FLUSHED"
      <4>1. Last \in Nat
        BY <1>1, ChainIs
      <4> QED BY <2>4, <4>1 DEF Unflushed
    <3>2. "DRAINING_FORCED" \in Tc!States
      BY DEF Tc!States
    <3> QED BY <1>1, <1>3, <2>1, <2>4, <3>1, <3>2, ChainGrows DEF Statuses
  <2>7. Statuses'
    BY <1>1, <2>4, <2>5 DEF Statuses
  <2>8. Sending'
    <3>1. tcStep \in {"wait_started", "rest"} => tcWindow.no = tcModem.no
      BY <1>1, <2>1 DEF Sending
    <3> QED BY <1>1, <2>2, <3>1 DEF Sending
  <2> QED BY <2>3, <2>7, <2>8
<1> QED BY <1>1, <1>2, <1>3 DEF IInv

-----------------------------------------------------------------------------
(* The connection, and what the sender hears over it.                      *)
LEMMA ConnectStep == ASSUME IInv, Tc!Connect PROVE IInv'
<1>1. /\ tcConnected' = TRUE /\ tcStep = "idle" /\ tcModem' = [state |-> "FLUSHED", no |-> 0]
      /\ tcToNode' = <<"FLUSHED">> /\ tcToModem = <<>>
      /\ UNCHANGED <<tcState, tcQueue, tcWindows, tcStep, tcWindow, tcToModem, tcDropped, tcRefused>>
      /\ Types /\ Numbers /\ Tc!PacketsAreTaken
  BY DEF Tc!Connect, Tc!sender, Tc!NewModem, IInv
<1>2. Types'
  BY <1>1 DEF Types, Tc!States
<1>3. Numbers'
  <2>1. \A no \in Nat : Heard(no)' => Heard(no) \/ no = 0
    BY <1>1 DEF Heard
  <2> QED BY <1>1, <2>1, NumbersKept
<1>4. DOMAIN tcToModem' = {}
  BY <1>1
<1>5. Inbox' /\ ~Streaming'
  BY <1>1, <1>4 DEF Inbox, SpentThenArms, Streaming
<1>6. AfterFlushed'
  <2>1. Last' = 2
    BY <1>1 DEF Last
  <2>2. Chain(0)' = tcState /\ Chain(1)' = "FLUSHED" /\ Chain(2)' = "FLUSHED"
    BY <1>1, <2>1 DEF Chain
  <2>3. \A i \in 0 .. Last' : i = 0 \/ i = 1 \/ i = 2
    BY <2>1
  <2>4. ASSUME NEW h \in 0 .. Last', Chain(h)' = "FLUSHED",
               NEW i \in 0 .. Last', NEW j \in 0 .. Last', h <= i, i <= j
        PROVE  Rank(Chain(i))' <= Rank(Chain(j))' /\ Rank(Chain(j))' <= 2
    <3>1. Chain(i)' = "FLUSHED" /\ Chain(j)' = "FLUSHED"
      BY <2>2, <2>3, <2>4
    <3> QED BY <3>1 DEF Rank
  <2> QED BY <2>4 DEF AfterFlushed, Rises
<1>7. Statuses' /\ Sending' /\ Tc!PacketsAreTaken'
  BY <1>1, <1>5, <1>6 DEF Statuses, Sending, Tc!PacketsAreTaken
<1> QED BY <1>1, <1>2, <1>3, <1>5, <1>7 DEF IInv

LEMMA DropStep == ASSUME IInv, Tc!Drop PROVE IInv'
<1>1. /\ tcConnected' = FALSE /\ tcToModem' = <<>> /\ tcToNode' = <<>>
      /\ UNCHANGED <<tcState, tcQueue, tcWindows, tcStep, tcWindow, tcModem, tcDropped, tcRefused>>
      /\ Types /\ Numbers /\ Tc!PacketsAreTaken
  BY DEF Tc!Drop, Tc!sender, Tc!modemVars, IInv
<1>2. Types'
  <2>1. tcConnected' \in BOOLEAN
    BY <1>1
  <2>2. tcToNode' \in Seq(Tc!States) /\ tcToModem' \in Seq(Packet)
    <3>1. <<>> \in Seq(Tc!States) /\ <<>> \in Seq(Packet)
      OBVIOUS
    <3> QED BY <1>1, <3>1
  <2> QED BY <1>1, <2>1, <2>2 DEF Types
<1>3. Numbers'
  <2>1. \A no \in Nat : Heard(no)' => Heard(no) \/ no = 0
    BY <1>1 DEF Heard
  <2> QED BY <1>1, <2>1, NumbersKept
<1> QED BY <1>1, <1>2, <1>3 DEF IInv, Tc!PacketsAreTaken

(* Nothing the modem has before it changes.                                *)
LEMMA InboxSame ==
  ASSUME UNCHANGED <<tcToModem, tcModem, tcDropped>>, tcWindows <= tcWindows', tcWindows \in Nat, tcWindows' \in Nat
  PROVE  /\ Inbox => Inbox'
         /\ AllSpent' <=> AllSpent
         /\ Arms' <=> Arms
         /\ Streaming' <=> Streaming
<1>1. /\ AllSpent' <=> AllSpent
      /\ SpentThenArms' <=> SpentThenArms
      /\ Arms' <=> Arms
      /\ \A k, no : (PartsFrom(k, no)' <=> PartsFrom(k, no)) /\ (OpensAt(k, no)' <=> OpensAt(k, no))
      /\ PartsFrom(1, tcModem.no)' <=> PartsFrom(1, tcModem.no)
  BY DEF AllSpent, SpentThenArms, Arms, PartsFrom, OpensAt, IsSpent, LastIsLast
<1>2. 1 .. tcWindows \subseteq 1 .. tcWindows'
  OBVIOUS
<1>3. ArmsThenWindow => ArmsThenWindow'
  BY <1>1, <1>2 DEF ArmsThenWindow
<1> QED BY <1>1, <1>3 DEF Inbox, Streaming

LEMMA OnTxStatusStep == ASSUME IInv, Tc!OnTxStatus PROVE IInv'
<1>1. /\ tcConnected /\ tcToNode # <<>> /\ tcState' = Head(tcToNode) /\ tcToNode' = Tail(tcToNode)
      /\ UNCHANGED <<tcConnected, tcQueue, tcWindows, tcStep, tcWindow, tcToModem, tcModem, tcDropped, tcRefused>>
      /\ Types /\ Numbers /\ Tc!PacketsAreTaken /\ Inbox /\ Statuses /\ Sending
  BY DEF Tc!OnTxStatus, Tc!sender, Tc!modemVars, IInv
<1>2. /\ tcToNode' \in Seq(Tc!States) /\ tcState' \in Tc!States
      /\ AfterFlushed' /\ (Unflushed => Unflushed') /\ (Rises(0) => Rises(0)')
  BY <1>1, ChainHeard DEF Statuses
<1>3. Types'
  BY <1>1, <1>2 DEF Types
<1>4. Numbers'
  <2>1. \A no \in Nat : Heard(no)' => Heard(no) \/ no = 0
    BY <1>1 DEF Heard
  <2> QED BY <1>1, <2>1, NumbersKept
<1>5. Inbox' /\ (AllSpent' <=> AllSpent) /\ (Arms' <=> Arms) /\ (Streaming' <=> Streaming)
  <2>1. tcWindows \in Nat /\ tcWindows <= tcWindows'
    BY <1>1 DEF Types
  <2> QED BY <1>1, <2>1, InboxSame
<1>6. Statuses'
  BY <1>1, <1>2, <1>5 DEF Statuses
<1>7. Sending'
  BY <1>1, <1>2, <1>5 DEF Sending, IsLast
<1> QED BY <1>1, <1>3, <1>4, <1>5, <1>6, <1>7 DEF IInv, Tc!PacketsAreTaken
-----------------------------------------------------------------------------
(* The queue of windows.                                                   *)
LEMMA BurstStep == ASSUME IInv, NEW n \in 1 .. TcMaxPackets, Tc!Burst(n) PROVE IInv'
<1>1. /\ tcWindows' = tcWindows + 1 /\ tcWindows \in Nat
      /\ tcQueue' = Append(tcQueue, [no |-> tcWindows + 1, n |-> n, next |-> 1])
      /\ UNCHANGED <<tcConnected, tcState, tcStep, tcWindow, tcToModem, tcToNode, tcModem, tcDropped, tcRefused>>
      /\ Types /\ Numbers /\ Tc!PacketsAreTaken
  BY DEF Tc!Burst, Tc!modemVars, IInv, Types
<1>2. PICK w : w = [no |-> tcWindows + 1, n |-> n, next |-> 1]
  OBVIOUS
<1>3. w \in Windows /\ w.no = tcWindows + 1 /\ w.next = 1
  BY <1>1, <1>2, ModemAssumption DEF Windows
<1>4. /\ tcQueue' \in Seq(Windows) /\ Len(tcQueue) \in Nat
      /\ DOMAIN tcQueue = 1 .. Len(tcQueue) /\ DOMAIN tcQueue' = 1 .. Len(tcQueue) + 1
      /\ \A i \in 1 .. Len(tcQueue) : tcQueue'[i] = tcQueue[i] /\ tcQueue[i] \in Windows
      /\ tcQueue'[Len(tcQueue) + 1] = w
  <2>1. tcQueue \in Seq(Windows) /\ tcQueue' = Append(tcQueue, w)
    BY <1>1, <1>2 DEF Types
  <2> QED BY <1>3, <2>1
<1>5. Types'
  BY <1>1, <1>4 DEF Types
<1>6. \A i \in DOMAIN tcQueue' : \/ i \in DOMAIN tcQueue /\ tcQueue'[i] = tcQueue[i]
                                 \/ i = Len(tcQueue) + 1 /\ tcQueue'[i] = w
  BY <1>4
<1>7. /\ \A i \in DOMAIN tcQueue : tcQueue[i].no \in Nat /\ tcQueue[i].no < tcWindows + 1
      /\ tcStep # "idle" => tcWindow.no < tcWindows + 1
      /\ \A no \in Nat : Heard(no) => no < tcWindows + 1
  <2>1. \A x \in Windows : x.no \in Nat
    BY DEF Windows
  <2>2. \A i \in DOMAIN tcQueue : tcQueue[i].no \in Nat
    BY <1>4, <2>1
  <2>3. tcStep # "idle" => tcWindow.no \in Nat
    BY <1>1, <2>1 DEF Types
  <2> QED BY <1>1, <2>2, <2>3 DEF Numbers
<1>8. Numbers'
  <2>1. \A no \in Nat : Heard(no)' => Heard(no)
    BY <1>1 DEF Heard
  <2>2. ASSUME NEW i \in DOMAIN tcQueue', NEW j \in DOMAIN tcQueue', i < j
        PROVE  tcQueue'[i].no < tcQueue'[j].no
    <3>1. i \in DOMAIN tcQueue /\ tcQueue'[i] = tcQueue[i]
      BY <1>4, <1>6, <2>2
    <3>2. CASE j \in DOMAIN tcQueue /\ tcQueue'[j] = tcQueue[j]
      BY <1>1, <2>2, <3>1, <3>2 DEF Numbers
    <3>3. CASE tcQueue'[j] = w
      BY <1>3, <1>7, <3>1, <3>3
    <3> QED BY <1>6, <3>2, <3>3
  <2>3. ASSUME NEW i \in DOMAIN tcQueue' PROVE tcQueue'[i].no <= tcWindows' /\ tcQueue'[i].next = 1
    <3>1. CASE i \in DOMAIN tcQueue /\ tcQueue'[i] = tcQueue[i]
      BY <1>1, <1>7, <3>1 DEF Numbers
    <3>2. CASE tcQueue'[i] = w
      BY <1>1, <1>3, <3>2
    <3> QED BY <1>6, <3>1, <3>2
  <2>4. ASSUME tcStep # "idle" PROVE tcWindow.no <= tcWindows' /\ \A i \in DOMAIN tcQueue' : tcWindow.no < tcQueue'[i].no
    <3>1. tcWindow.no \in Nat
      BY <1>1, <2>4 DEF Types, Windows
    <3>2. tcWindow.no <= tcWindows'
      BY <1>1, <2>4, <3>1 DEF Numbers
    <3>3. \A i \in DOMAIN tcQueue : tcWindow.no < tcQueue[i].no
      BY <1>1, <2>4 DEF Numbers
    <3> QED BY <1>3, <1>6, <1>7, <2>4, <3>2, <3>3
  <2>5. ASSUME NEW no \in Nat, Heard(no) PROVE no <= tcWindows' /\ \A i \in DOMAIN tcQueue' : no < tcQueue'[i].no
    <3>1. no <= tcWindows /\ \A i \in DOMAIN tcQueue : no < tcQueue[i].no
      BY <1>1, <2>5 DEF Numbers
    <3>2. no <= tcWindows'
      BY <1>1, <3>1
    <3> QED BY <1>3, <1>6, <1>7, <2>5, <3>1, <3>2
  <2>6. tcStep \in {"wait_flushed", "wait_ready"} => \A no \in Nat : Heard(no) => no < tcWindow.no
    BY <1>1 DEF Numbers
  <2> QED BY <1>1, <2>1, <2>2, <2>3, <2>4, <2>5, <2>6 DEF Numbers
<1>9. ASSUME tcConnected PROVE Inbox' /\ Statuses' /\ Sending'
  <2>1. Inbox /\ Statuses /\ Sending
    BY <1>9 DEF IInv
  <2>2. Inbox' /\ (AllSpent' <=> AllSpent) /\ (Arms' <=> Arms) /\ (Streaming' <=> Streaming)
    <3>1. tcWindows \in Nat /\ tcWindows' \in Nat /\ tcWindows <= tcWindows'
      BY <1>1
    <3> QED BY <1>1, <2>1, <3>1, InboxSame
  <2>3. (AfterFlushed' <=> AfterFlushed) /\ (Unflushed' <=> Unflushed) /\ (Rises(0)' <=> Rises(0))
    BY <1>1, ChainSame
  <2>4. Statuses'
    BY <1>1, <2>1, <2>2, <2>3 DEF Statuses
  <2>5. Sending'
    BY <1>1, <2>1, <2>2, <2>3 DEF Sending, IsLast
  <2> QED BY <2>2, <2>4, <2>5
<1> QED BY <1>1, <1>5, <1>8, <1>9 DEF IInv, Tc!PacketsAreTaken

LEMMA QueueTail ==
  ASSUME Types, Numbers, tcQueue # <<>>, tcQueue' = Tail(tcQueue)
  PROVE  /\ tcQueue' \in Seq(Windows) /\ Head(tcQueue) \in Windows
         /\ Head(tcQueue).no <= tcWindows /\ Head(tcQueue).next = 1
         /\ \A i, j \in DOMAIN tcQueue' : i < j => tcQueue'[i].no < tcQueue'[j].no
         /\ \A i \in DOMAIN tcQueue' : tcQueue'[i].no <= tcWindows /\ tcQueue'[i].next = 1
         /\ \A i \in DOMAIN tcQueue' : Head(tcQueue).no < tcQueue'[i].no
         /\ \A no \in Nat : Heard(no) => /\ no <= tcWindows /\ no < Head(tcQueue).no
                                         /\ \A i \in DOMAIN tcQueue' : no < tcQueue'[i].no
<1>1. /\ tcQueue' \in Seq(Windows) /\ Head(tcQueue) \in Windows /\ Head(tcQueue) = tcQueue[1]
      /\ 1 \in DOMAIN tcQueue
      /\ DOMAIN tcQueue \subseteq Nat
      /\ \A i \in DOMAIN tcQueue' : i \in Nat \ {0} /\ i + 1 \in DOMAIN tcQueue /\ tcQueue'[i] = tcQueue[i + 1]
  BY DEF Types
<1>2. \A i, j \in DOMAIN tcQueue' : i < j => i + 1 < j + 1
  BY <1>1
<1>3. \A i \in DOMAIN tcQueue' : 1 < i + 1
  BY <1>1
<1>4. \A i, j \in DOMAIN tcQueue' : i < j => tcQueue'[i].no < tcQueue'[j].no
  <2> SUFFICES ASSUME NEW i \in DOMAIN tcQueue', NEW j \in DOMAIN tcQueue', i < j
               PROVE  tcQueue'[i].no < tcQueue'[j].no
    OBVIOUS
  <2> QED BY <1>1, <1>2 DEF Numbers
<1> QED BY <1>1, <1>3, <1>4 DEF Numbers

LEMMA TakeStep == ASSUME IInv, Tc!Take PROVE IInv'
<1>1. /\ tcStep = "idle" /\ tcQueue # <<>> /\ tcConnected /\ tcStep' = "wait_flushed" /\ tcWindow' = Head(tcQueue)
      /\ tcQueue' = Tail(tcQueue)
      /\ UNCHANGED <<tcConnected, tcState, tcWindows, tcToModem, tcToNode, tcModem, tcDropped, tcRefused>>
      /\ Types /\ Numbers /\ Inbox /\ Statuses /\ Sending /\ Tc!PacketsAreTaken
  BY DEF Tc!Take, Tc!modemVars, IInv
<1>2. Types'
  BY <1>1, QueueTail DEF Types, Tc!Steps
<1>3. Numbers'
  <2>1. \A no \in Nat : Heard(no)' => Heard(no)
    BY <1>1 DEF Heard
  <2> QED BY <1>1, <2>1, QueueTail DEF Numbers
<1>4. Inbox'
  <2>1. tcWindows \in Nat /\ tcWindows' = tcWindows /\ tcWindows <= tcWindows'
    BY <1>1 DEF Types
  <2> QED BY <1>1, <2>1, InboxSame
<1>5. Statuses'
  <2>1. (AfterFlushed' <=> AfterFlushed) /\ (Unflushed' <=> Unflushed) /\ (Rises(0)' <=> Rises(0))
    BY <1>1, ChainSame
  <2>2. Streaming' <=> Streaming
    BY <1>1 DEF Streaming, Arms, IsArm
  <2> QED BY <1>1, <2>1, <2>2 DEF Statuses
<1>6. Sending' /\ Tc!PacketsAreTaken'
  BY <1>1 DEF Sending, Tc!PacketsAreTaken
<1> QED BY <1>1, <1>2, <1>3, <1>4, <1>5, <1>6 DEF IInv

LEMMA DiscardStep == ASSUME IInv, Tc!Discard PROVE IInv'
<1>1. /\ tcStep = "idle" /\ tcQueue # <<>> /\ ~tcConnected /\ tcQueue' = Tail(tcQueue) /\ tcToModem = <<>>
      /\ UNCHANGED <<tcConnected, tcState, tcWindows, tcStep, tcWindow, tcToModem, tcToNode, tcModem, tcDropped, tcRefused>>
      /\ Types /\ Numbers /\ Tc!PacketsAreTaken
  BY DEF Tc!Discard, Tc!modemVars, IInv
<1>2. Types'
  BY <1>1, QueueTail DEF Types
<1>3. Numbers'
  <2>1. \A no \in Nat : Heard(no)' => Heard(no)
    BY <1>1 DEF Heard
  <2> QED BY <1>1, <2>1, QueueTail DEF Numbers
<1> QED BY <1>1, <1>2, <1>3 DEF IInv, Tc!PacketsAreTaken
-----------------------------------------------------------------------------
(* What the sender adds to the packets under way.                          *)
LEMMA Extend ==
  ASSUME Types, NEW c \in Seq(Packet), tcToModem' = tcToModem \o c
  PROVE  /\ tcToModem' \in Seq(Packet) /\ Len(tcToModem) \in Nat /\ Len(c) \in Nat
         /\ Len(tcToModem') = Len(tcToModem) + Len(c)
         /\ DOMAIN tcToModem = 1 .. Len(tcToModem) /\ DOMAIN tcToModem' = 1 .. Len(tcToModem')
         /\ \A i \in DOMAIN tcToModem : i \in DOMAIN tcToModem' /\ tcToModem'[i] = tcToModem[i]
         /\ \A i \in DOMAIN tcToModem' :
              \/ i \in DOMAIN tcToModem /\ tcToModem'[i] = tcToModem[i]
              \/ i - Len(tcToModem) \in 1 .. Len(c) /\ tcToModem'[i] = c[i - Len(tcToModem)]
         /\ \A k \in 1 .. Len(c) : /\ Len(tcToModem) + k \in DOMAIN tcToModem'
                                   /\ tcToModem'[Len(tcToModem) + k] = c[k]
<1>1. tcToModem \in Seq(Packet)
  BY DEF Types
<1>2. /\ tcToModem' \in Seq(Packet) /\ Len(tcToModem) \in Nat /\ Len(c) \in Nat
      /\ Len(tcToModem') = Len(tcToModem) + Len(c)
      /\ DOMAIN tcToModem = 1 .. Len(tcToModem) /\ DOMAIN tcToModem' = 1 .. Len(tcToModem')
  BY <1>1
<1>3. \A i \in 1 .. Len(tcToModem) + Len(c) :
        tcToModem'[i] = IF i <= Len(tcToModem) THEN tcToModem[i] ELSE c[i - Len(tcToModem)]
  BY <1>1
<1>4. \A i \in 1 .. Len(tcToModem) : i \in 1 .. Len(tcToModem) + Len(c) /\ i <= Len(tcToModem)
  BY <1>2
<1>5. \A i \in 1 .. Len(tcToModem) + Len(c) :
        \/ i \in 1 .. Len(tcToModem) /\ i <= Len(tcToModem)
        \/ i - Len(tcToModem) \in 1 .. Len(c) /\ ~(i <= Len(tcToModem))
  BY <1>2
<1>6. \A k \in 1 .. Len(c) : /\ Len(tcToModem) + k \in 1 .. Len(tcToModem) + Len(c)
                             /\ ~(Len(tcToModem) + k <= Len(tcToModem))
                             /\ Len(tcToModem) + k - Len(tcToModem) = k
  BY <1>2
<1>7. \A k \in 1 .. Len(c) : tcToModem'[Len(tcToModem) + k] = c[k]
  <2> SUFFICES ASSUME NEW k \in 1 .. Len(c) PROVE tcToModem'[Len(tcToModem) + k] = c[k]
    OBVIOUS
  <2>1. tcToModem'[Len(tcToModem) + k] = c[Len(tcToModem) + k - Len(tcToModem)]
    BY <1>3, <1>6
  <2> QED BY <1>6, <2>1
<1> QED BY <1>2, <1>3, <1>4, <1>5, <1>6, <1>7

LEMMA DataIs ==
  ASSUME tcWindow \in Windows, NEW from \in Nat \ {0}, NEW to \in Nat, from <= to, to <= tcWindow.n
  PROVE  /\ Tc!Data(from, to) \in Seq(Packet) /\ Len(Tc!Data(from, to)) = to - from + 1
         /\ \A k \in 1 .. to - from + 1 :
              /\ Tc!Data(from, to)[k].command = "DATA" /\ Tc!Data(from, to)[k].no = tcWindow.no
              /\ IsFirst(Tc!Data(from, to)[k]) <=> from + k - 1 = 1
              /\ IsLast(Tc!Data(from, to)[k]) <=> from + k - 1 = tcWindow.n
<1> DEFINE m == to - from + 1
<1>1. m \in Nat /\ tcWindow.n \in Nat \ {0} /\ tcWindow.no \in Nat
  BY DEF Windows
<1>2. ASSUME NEW i \in 1 .. tcWindow.n
      PROVE  /\ Tc!Order(tcWindow, i) \in {"FIRST_AND_LAST", "FIRST_ONLY", "LAST", "CONTINUATION"}
             /\ Tc!Order(tcWindow, i) \in {"FIRST_ONLY", "FIRST_AND_LAST"} <=> i = 1
             /\ Tc!Order(tcWindow, i) \in {"LAST", "FIRST_AND_LAST"} <=> i = tcWindow.n
  BY <1>1, <1>2 DEF Tc!Order
<1>3. \A k \in 1 .. m : from + k - 1 \in 1 .. tcWindow.n
  BY <1>1
<1>4. Tc!Data(from, to) = [k \in 1 .. m |->
         [command |-> "DATA", no |-> tcWindow.no, order |-> Tc!Order(tcWindow, from + k - 1)]]
  BY DEF Tc!Data
<1>5. ASSUME NEW k \in 1 .. m
      PROVE  /\ Tc!Data(from, to)[k] \in Packet
             /\ Tc!Data(from, to)[k].command = "DATA" /\ Tc!Data(from, to)[k].no = tcWindow.no
             /\ Tc!Data(from, to)[k].order = Tc!Order(tcWindow, from + k - 1)
  BY <1>1, <1>2, <1>3, <1>4 DEF Packet
<1>6. Tc!Data(from, to) \in Seq(Packet) /\ Len(Tc!Data(from, to)) = m
  <2>1. Tc!Data(from, to) \in [1 .. m -> Packet]
    BY <1>4, <1>5
  <2> HIDE DEF m
  <2> QED BY <1>1, <2>1
<1> QED BY <1>2, <1>3, <1>5, <1>6 DEF IsFirst, IsLast
-----------------------------------------------------------------------------
(* The steps of the sender: what every one of them leaves alone.           *)
LEMMA SenderKeeps ==
  ASSUME IInv, UNCHANGED <<tcConnected, tcState, tcQueue, tcWindows, tcToNode, tcModem, tcDropped, tcRefused>>,
         NEW c \in Seq(Packet), tcToModem' = tcToModem \o c, tcConnected,
         tcStep \in Tc!Steps \ {"idle"}, tcStep' \in Tc!Steps, tcWindow' \in Windows, tcWindow'.no = tcWindow.no,
         tcStep' \in {"wait_flushed", "wait_ready"} =>
           tcStep \in {"wait_flushed", "wait_ready"} /\ \A k \in 1 .. Len(c) : c[k].command # "DATA",
         tcStep' \in {"wait_started", "rest"} => tcWindow'.next <= tcWindow'.n,
         \A k \in 1 .. Len(c) : c[k].command = "DATA" => c[k].no = tcWindow.no
  PROVE  /\ Types' /\ Numbers'
         /\ (AfterFlushed' <=> AfterFlushed) /\ (Unflushed' <=> Unflushed) /\ (Rises(0)' <=> Rises(0))
         /\ Inbox' /\ Statuses' /\ Sending' => IInv'
<1>1. Types /\ Numbers /\ Tc!PacketsAreTaken
  BY DEF IInv
<1>2. Types'
  <2>1. tcToModem' \in Seq(Packet)
    BY <1>1, Extend
  <2> QED BY <1>1, <2>1 DEF Types
<1>3. Numbers'
  <2>1. ASSUME NEW no \in Nat, Heard(no)'
        PROVE  \/ Heard(no)
               \/ no = tcWindow.no /\ tcStep' \notin {"wait_flushed", "wait_ready"}
    <3>1. CASE \E i \in DOMAIN tcToModem' : tcToModem'[i].command = "DATA" /\ tcToModem'[i].no = no
      <4>1. PICK i \in DOMAIN tcToModem' : tcToModem'[i].command = "DATA" /\ tcToModem'[i].no = no
        BY <3>1
      <4>2. \/ i \in DOMAIN tcToModem /\ tcToModem'[i] = tcToModem[i]
            \/ i - Len(tcToModem) \in 1 .. Len(c) /\ tcToModem'[i] = c[i - Len(tcToModem)]
        BY <1>1, Extend
      <4>3. CASE i \in DOMAIN tcToModem /\ tcToModem'[i] = tcToModem[i]
        BY <4>1, <4>3 DEF Heard
      <4>4. CASE i - Len(tcToModem) \in 1 .. Len(c) /\ tcToModem'[i] = c[i - Len(tcToModem)]
        BY <4>1, <4>4
      <4> QED BY <4>2, <4>3, <4>4
    <3> QED BY <2>1, <3>1 DEF Heard
  <2> QED BY <1>1, <2>1, NumbersKept
<1>4. (AfterFlushed' <=> AfterFlushed) /\ (Unflushed' <=> Unflushed) /\ (Rises(0)' <=> Rises(0))
  BY ChainSame
<1> QED BY <1>1, <1>2, <1>3, <1>4 DEF IInv, Tc!PacketsAreTaken

(* A window of which the modem has, or is about to get, the first packet   *)
(* goes on.                                                                *)
LEMMA StreamGrows ==
  ASSUME Types, Inbox, UNCHANGED <<tcWindows, tcModem, tcDropped>>,
         NEW c \in Seq(Packet), tcToModem' = tcToModem \o c, NEW no \in Nat \ {0},
         tcModem.state \in {"READY", "STARTED"}, tcModem.no \in {0, no}, Streaming,
         \A i \in DOMAIN tcToModem : tcToModem[i].command = "DATA" => tcToModem[i].no = no /\ ~IsLast(tcToModem[i]),
         \A k \in 1 .. Len(c) : /\ IsPart(c[k], no)
                                /\ c[k].command = "DATA" /\ IsLast(c[k]) => k = Len(c)
  PROVE  Inbox' /\ Streaming'
<1>1. /\ Len(tcToModem) \in Nat /\ Len(c) \in Nat /\ Len(tcToModem') = Len(tcToModem) + Len(c)
      /\ DOMAIN tcToModem = 1 .. Len(tcToModem) /\ DOMAIN tcToModem' = 1 .. Len(tcToModem')
      /\ \A i \in DOMAIN tcToModem : i \in DOMAIN tcToModem' /\ tcToModem'[i] = tcToModem[i]
      /\ \A i \in DOMAIN tcToModem' :
           \/ i \in DOMAIN tcToModem /\ tcToModem'[i] = tcToModem[i]
           \/ i - Len(tcToModem) \in 1 .. Len(c) /\ tcToModem'[i] = c[i - Len(tcToModem)]
  BY Extend
<1>2. ASSUME NEW k \in Nat, PartsFrom(k, no) PROVE PartsFrom(k, no)'
  <2> SUFFICES ASSUME NEW i \in DOMAIN tcToModem', k <= i
               PROVE  IsPart(tcToModem[i], no)' /\ LastIsLast(tcToModem[i], i)'
    BY DEF PartsFrom, IsPart, IsFirst
  <2>1. CASE i \in DOMAIN tcToModem /\ tcToModem'[i] = tcToModem[i]
    <3>1. IsPart(tcToModem[i], no) /\ ~(tcToModem[i].command = "DATA" /\ IsLast(tcToModem[i]))
      BY <1>2, <2>1 DEF PartsFrom
    <3> QED BY <2>1, <3>1 DEF IsPart, IsFirst, LastIsLast, IsLast
  <2>2. CASE i - Len(tcToModem) \in 1 .. Len(c) /\ tcToModem'[i] = c[i - Len(tcToModem)]
    <3>1. PICK x \in 1 .. Len(c) : x = i - Len(tcToModem)
      BY <2>2
    <3>2. IsPart(c[x], no) /\ (c[x].command = "DATA" /\ IsLast(c[x]) => x = Len(c))
      OBVIOUS
    <3>3. x = Len(c) => i = Len(tcToModem')
      <4>1. i \in Nat
        BY <1>1
      <4> QED BY <1>1, <3>1, <4>1
    <3> QED BY <2>2, <3>1, <3>2, <3>3 DEF IsPart, IsFirst, LastIsLast, IsLast
  <2> QED BY <1>1, <2>1, <2>2
<1>3. PICK at : at = tcModem.no
  OBVIOUS
<1>4. tcModem'.no = at /\ tcModem'.state = tcModem.state
  BY <1>3
<1>5. CASE at # 0
  <2>1. at = no /\ PartsFrom(1, at)
    BY <1>3, <1>5 DEF Inbox
  <2>2. PartsFrom(1, at)'
    BY <1>2, <2>1
  <2>3. PartsFrom(1, tcModem.no)'
    BY <1>4, <2>2 DEF PartsFrom
  <2> QED BY <1>4, <1>5, <2>3 DEF Inbox, Streaming
<1>6. CASE at = 0
  <2>1. tcModem.state = "READY" /\ ArmsThenWindow /\ ~Arms
    BY <1>3, <1>6 DEF Inbox, Streaming
  <2>2. ~Arms'
    BY <1>1, <2>1 DEF Arms, IsArm
  <2>3. PICK a \in 0 .. Len(tcToModem) :
          /\ \A i \in 1 .. a : IsArm(tcToModem[i])
          /\ a < Len(tcToModem) => \E x \in 1 .. tcWindows : OpensAt(a + 1, x) /\ PartsFrom(a + 2, x)
    BY <2>1 DEF ArmsThenWindow
  <2>4. a < Len(tcToModem)
    BY <1>1, <2>1, <2>3 DEF Arms
  <2>5. PICK x \in 1 .. tcWindows : OpensAt(a + 1, x) /\ PartsFrom(a + 2, x)
    BY <2>3, <2>4
  <2>6. a + 1 \in DOMAIN tcToModem /\ a + 2 \in Nat /\ a \in Nat
    BY <1>1, <2>4
  <2>7. x = no /\ ~IsLast(tcToModem[a + 1]) /\ tcToModem'[a + 1] = tcToModem[a + 1]
    BY <1>1, <2>5, <2>6 DEF OpensAt
  <2>8. OpensAt(a + 1, x)' /\ PartsFrom(a + 2, x)'
    <3>1. OpensAt(a + 1, x)'
      BY <2>5, <2>7 DEF OpensAt, LastIsLast, IsLast, IsFirst
    <3> QED BY <1>2, <2>5, <2>6, <2>7, <3>1
  <2>9. \A i \in 1 .. a : IsArm(tcToModem[i])'
    <3>1. \A i \in 1 .. a : i \in DOMAIN tcToModem
      BY <1>1, <2>4
    <3> QED BY <1>1, <2>3, <3>1 DEF IsArm
  <2>10. a \in 0 .. Len(tcToModem')
    BY <1>1, <2>6, <2>4
  <2>11. ArmsThenWindow'
    BY <2>8, <2>9, <2>10 DEF ArmsThenWindow
  <2> QED BY <1>4, <1>6, <2>1, <2>2, <2>11 DEF Inbox, Streaming
<1> QED BY <1>5, <1>6

(* Of a window the modem gave up the rest is refused as well.              *)
LEMMA SpentGrows ==
  ASSUME Types, Inbox, UNCHANGED <<tcWindows, tcModem, tcDropped>>,
         NEW c \in Seq(Packet), tcToModem' = tcToModem \o c,
         tcModem.state \in {"DRAINING_FORCED", "FLUSHED"}, AllSpent,
         \A k \in 1 .. Len(c) : IsSpent(c[k])
  PROVE  Inbox' /\ AllSpent' /\ (Streaming' => Streaming)
<1>1. \A i \in DOMAIN tcToModem' :
           \/ i \in DOMAIN tcToModem /\ tcToModem'[i] = tcToModem[i]
           \/ i - Len(tcToModem) \in 1 .. Len(c) /\ tcToModem'[i] = c[i - Len(tcToModem)]
  BY Extend
<1>2. AllSpent'
  <2> SUFFICES ASSUME NEW i \in DOMAIN tcToModem' PROVE IsSpent(tcToModem[i])'
    BY DEF AllSpent
  <2>1. CASE i \in DOMAIN tcToModem /\ tcToModem'[i] = tcToModem[i]
    BY <2>1 DEF AllSpent, IsSpent
  <2>2. CASE i - Len(tcToModem) \in 1 .. Len(c) /\ tcToModem'[i] = c[i - Len(tcToModem)]
    <3>1. IsSpent(c[i - Len(tcToModem)])
      BY <2>2
    <3> QED BY <2>2, <3>1 DEF IsSpent
  <2> QED BY <1>1, <2>1, <2>2
<1>3. SpentThenArms'
  BY <1>2 DEF AllSpent, SpentThenArms, IsSpent
<1> QED BY <1>2, <1>3 DEF Inbox, Streaming

LEMMA ArmStep == ASSUME IInv, Tc!Arm PROVE IInv'
<1>1. /\ tcConnected /\ tcStep = "wait_flushed" /\ tcState = "FLUSHED" /\ tcStep' = "wait_ready"
      /\ tcWindow' = [tcWindow EXCEPT !.next = 1] /\ tcToModem' = tcToModem \o <<Tc!Command("ARM")>>
      /\ UNCHANGED <<tcConnected, tcState, tcQueue, tcWindows, tcToNode, tcModem, tcDropped, tcRefused>>
  BY DEF Tc!Arm, Tc!MayArm, Tc!Continue, Tc!modemVars
<1>2. Types /\ Numbers /\ Inbox /\ Statuses /\ tcWindow \in Windows
  BY <1>1 DEF IInv, Types
<1>3. PICK p : p = Tc!Command("ARM")
  OBVIOUS
<1>4. p \in Packet /\ p.command = "ARM"
  <2>1. tcWindow.no \in Nat
    BY <1>2 DEF Windows
  <2> QED BY <1>3, <2>1 DEF Tc!Command, Packet
<1>5. PICK c : c = <<p>>
  OBVIOUS
<1>6. c \in Seq(Packet) /\ Len(c) = 1 /\ \A k \in 1 .. Len(c) : c[k] = p
  BY <1>4, <1>5
<1>7. /\ Types' /\ Numbers'
      /\ (AfterFlushed' <=> AfterFlushed) /\ (Unflushed' <=> Unflushed) /\ (Rises(0)' <=> Rises(0))
      /\ Inbox' /\ Statuses' /\ Sending' => IInv'
  <2>1. tcWindow' \in Windows /\ tcWindow'.no = tcWindow.no
    BY <1>1, <1>2 DEF Windows
  <2>2. tcStep \in Tc!Steps \ {"idle"} /\ tcStep' \in Tc!Steps
    BY <1>1 DEF Tc!Steps
  <2>3. tcToModem' = tcToModem \o c
    BY <1>1, <1>3, <1>5
  <2> QED BY <1>1, <1>4, <1>6, <2>1, <2>2, <2>3, SenderKeeps
<1>8. /\ DOMAIN tcToModem = 1 .. Len(tcToModem) /\ Len(tcToModem) \in Nat
      /\ DOMAIN tcToModem' = 1 .. Len(tcToModem) + 1
      /\ \A i \in DOMAIN tcToModem : tcToModem'[i] = tcToModem[i]
      /\ tcToModem'[Len(tcToModem) + 1] = p
  <2>1. tcToModem' = tcToModem \o c
    BY <1>1, <1>3, <1>5
  <2>2. 1 \in 1 .. Len(c)
    BY <1>6
  <2> QED BY <1>2, <1>6, <2>1, <2>2, Extend
<1>9. \A i \in DOMAIN tcToModem' : \/ i \in DOMAIN tcToModem /\ tcToModem'[i] = tcToModem[i]
                                   \/ i = Len(tcToModem) + 1 /\ tcToModem'[i] = p
  BY <1>8
\* The sender has yet to hear of anything after FLUSHED.
<1>10. Rises(0) /\ ~Unflushed /\ Rank(tcModem.state) <= 2
  <2>1. 0 \in 0 .. Last /\ Last \in 0 .. Last /\ 0 <= Last /\ Chain(0) = "FLUSHED" /\ Chain(Last) = tcModem.state
    BY <1>1, <1>2, ChainIs
  <2>2. Rises(0) /\ ~Unflushed
    BY <1>2, <2>1 DEF Statuses, AfterFlushed, Unflushed
  <2>3. Rank(Chain(Last)) <= 2
    BY <2>1, <2>2 DEF Rises
  <2> QED BY <2>1, <2>2, <2>3
<1>11. /\ tcModem.no = 0 /\ tcModem.state \in {"FLUSHED", "NOT_READY", "READY"}
       /\ tcModem.state \in {"NOT_READY", "READY"} => Arms
  <2>1. ~Streaming
    BY <1>2, <1>10 DEF Statuses
  <2>2. tcModem.state \in Tc!States
    BY <1>2 DEF Types
  <2>3. tcModem.state \in {"FLUSHED", "NOT_READY", "READY"}
    BY <1>10, <2>2 DEF Rank, Tc!States
  <2> QED BY <1>2, <2>1, <2>3 DEF Streaming, Inbox
<1>12. Arms => Arms'
  BY <1>4, <1>9 DEF Arms, IsArm
<1>13. Inbox'
  <2>1. CASE tcModem.state = "FLUSHED"
    <3>1. SpentThenArms
      BY <1>2, <2>1 DEF Inbox
    <3>2. SpentThenArms'
      <4> SUFFICES ASSUME NEW i \in DOMAIN tcToModem', ~IsSpent(tcToModem[i])', NEW j \in DOMAIN tcToModem', i <= j
                   PROVE  IsArm(tcToModem[j])'
        BY DEF SpentThenArms
      <4>1. CASE j = Len(tcToModem) + 1
        BY <1>4, <1>8, <4>1 DEF IsArm
      <4>2. CASE j # Len(tcToModem) + 1
        <5>1. i \in DOMAIN tcToModem /\ j \in DOMAIN tcToModem /\ tcToModem'[i] = tcToModem[i] /\ tcToModem'[j] = tcToModem[j]
          <6>1. i \in 1 .. Len(tcToModem) /\ j \in 1 .. Len(tcToModem)
            BY <1>8, <4>2
          <6> QED BY <1>8, <6>1
        <5>2. ~IsSpent(tcToModem[i])
          BY <1>1, <5>1 DEF IsSpent
        <5> QED BY <3>1, <5>1, <5>2 DEF SpentThenArms, IsArm
      <4> QED BY <4>1, <4>2
    <3> QED BY <1>1, <1>11, <2>1, <3>2 DEF Inbox
  <2>2. CASE tcModem.state = "NOT_READY"
    BY <1>1, <1>11, <1>12, <2>2 DEF Inbox
  <2>3. CASE tcModem.state = "READY"
    <3>1. Arms'
      BY <1>11, <1>12, <2>3
    <3>2. ArmsThenWindow'
      <4>1. Len(tcToModem') \in 0 .. Len(tcToModem') /\ ~(Len(tcToModem') < Len(tcToModem'))
        <5>1. tcToModem' \in Seq(Packet)
          BY <1>7 DEF Types
        <5>2. Len(tcToModem') \in Nat
          BY <5>1
        <5> QED BY <5>2
      <4>2. DOMAIN tcToModem' = 1 .. Len(tcToModem')
        BY <1>7 DEF Types
      <4> QED BY <3>1, <4>1, <4>2 DEF Arms, ArmsThenWindow, IsArm
    <3> QED BY <1>1, <1>11, <2>3, <3>2 DEF Inbox
  <2> QED BY <1>11, <2>1, <2>2, <2>3
<1>14. ~Streaming'
  BY <1>1, <1>11, <1>12 DEF Streaming
<1>15. Statuses' /\ Sending'
  BY <1>1, <1>2, <1>7, <1>10, <1>14 DEF Statuses, Sending
<1> QED BY <1>7, <1>13, <1>15
(* What the sender knows when it has READY after FLUSHED is the truth.     *)
LEMMA ReadyIsTrue ==
  ASSUME IInv, tcConnected, tcStep = "wait_ready", tcState = "READY"
  PROVE  /\ tcModem.state = "READY" /\ tcModem.no = 0 /\ Arms /\ Unflushed
         /\ tcWindow \in Windows /\ tcWindow.no \notin tcDropped /\ tcWindow.no \in 1 .. tcWindows
<1>1. Types /\ Numbers /\ Inbox /\ Statuses /\ tcWindow \in Windows
  BY DEF IInv, Types
<1>2. /\ Chain(0) = "READY" /\ Chain(Last) = tcModem.state /\ Last \in Nat
      /\ \A i \in 0 .. Last : Chain(i) \in Tc!States /\ Rank(Chain(i)) \in Nat
  BY <1>1, ChainIs
<1>3. \A i \in 0 .. Last : Rank(Chain(i)) = 2
  <2> SUFFICES ASSUME NEW i \in 0 .. Last PROVE Rank(Chain(i)) = 2
    OBVIOUS
  <2>1. Rises(0) /\ Rank(Chain(0)) = 2
    BY <1>1, <1>2 DEF Statuses, Rank
  <2>2. 0 \in 0 .. Last /\ 0 <= i
    BY <1>2
  <2>3. Rank(Chain(0)) <= Rank(Chain(i)) /\ Rank(Chain(i)) <= 2 /\ Rank(Chain(i)) \in Nat
    BY <1>2, <2>1, <2>2 DEF Rises
  <2> QED BY <2>1, <2>3
<1>4. \A i \in 0 .. Last : Chain(i) = "READY"
  BY <1>2, <1>3, RankIs
<1>5. Unflushed /\ tcModem.state = "READY"
  <2>1. Last \in 0 .. Last
    BY <1>2
  <2> QED BY <1>2, <1>4, <2>1 DEF Unflushed
<1>6. tcModem.no = 0 /\ Arms
  BY <1>1, <1>5 DEF Statuses, Streaming
<1>7. tcWindow.no \in Nat \ {0} /\ tcWindows \in Nat
  BY <1>1 DEF Windows, Types
<1>8. tcWindow.no \notin tcDropped /\ tcWindow.no <= tcWindows
  <2>1. \A no \in Nat : Heard(no) => no < tcWindow.no
    BY <1>1 DEF Numbers
  <2>2. tcWindow.no \in tcDropped => Heard(tcWindow.no)
    BY DEF Heard
  <2>3. ~(tcWindow.no < tcWindow.no)
    BY <1>7
  <2> QED BY <1>1, <1>7, <2>1, <2>2, <2>3 DEF Numbers
<1> QED BY <1>1, <1>5, <1>6, <1>7, <1>8

LEMMA PrefillOneStep ==
  ASSUME IInv, tcStep = "wait_ready", tcState = "READY", tcWindow.n = 1, Tc!Continue("rest", 1, <<>>)
  PROVE  IInv'
<1>1. /\ tcConnected /\ tcStep' = "rest" /\ tcWindow' = [tcWindow EXCEPT !.next = 1] /\ tcToModem' = tcToModem \o <<>>
      /\ UNCHANGED <<tcConnected, tcState, tcQueue, tcWindows, tcToNode, tcModem, tcDropped, tcRefused>>
  BY DEF Tc!Continue, Tc!modemVars
<1>2. /\ tcModem.state = "READY" /\ tcModem.no = 0 /\ Arms /\ Unflushed
      /\ tcWindow \in Windows /\ tcWindow.no \notin tcDropped
  BY <1>1, ReadyIsTrue
<1>3. Types /\ Statuses
  BY <1>1 DEF IInv
<1>4. tcToModem' = tcToModem
  BY <1>1, <1>3 DEF Types
<1>5. tcWindow' \in Windows /\ tcWindow'.no = tcWindow.no /\ tcWindow'.next = 1 /\ tcWindow'.n = 1
  BY <1>1, <1>2 DEF Windows
<1>6. /\ Types' /\ Numbers'
      /\ (AfterFlushed' <=> AfterFlushed) /\ (Unflushed' <=> Unflushed)
      /\ Inbox' /\ Statuses' /\ Sending' => IInv'
  <2>6. <<>> \in Seq(Packet)
    OBVIOUS
  <2>1. PICK c \in Seq(Packet) : c = <<>>
    BY <2>6
  <2>2. tcStep \in Tc!Steps \ {"idle"} /\ tcStep' \in Tc!Steps /\ tcToModem' = tcToModem \o c
    BY <1>1, <2>1 DEF Tc!Steps
  <2>3. \A k \in 1 .. Len(c) : FALSE
    BY <2>1
  <2>4. tcStep' \in {"wait_started", "rest"} => tcWindow'.next <= tcWindow'.n
    BY <1>5
  <2>5. tcStep' \notin {"wait_flushed", "wait_ready"}
    BY <1>1
  <2> QED BY <1>1, <1>5, <2>2, <2>3, <2>4, <2>5, SenderKeeps
<1>7. Arms'
  BY <1>2, <1>4 DEF Arms, IsArm
<1>8. Inbox'
  <2>1. Inbox /\ tcWindows \in Nat /\ tcWindows' = tcWindows /\ tcWindows <= tcWindows'
    BY <1>1, <1>3 DEF IInv, Types
  <2> QED BY <1>1, <1>4, <2>1, InboxSame
<1>9. Statuses'
  BY <1>1, <1>2, <1>3, <1>6 DEF Statuses
<1>10. Sending'
  <2>1. \A i \in DOMAIN tcToModem' : tcToModem'[i].command # "DATA"
    BY <1>7 DEF Arms, IsArm
  <2> QED BY <1>1, <1>2, <1>5, <1>6, <1>7, <2>1 DEF Sending
<1> QED BY <1>6, <1>8, <1>9, <1>10

LEMMA PrefillMoreStep ==
  ASSUME IInv, tcStep = "wait_ready", tcState = "READY", tcWindow.n # 1,
         NEW n \in 1 .. tcWindow.n - 1,
         Tc!Continue("wait_started", n + 1, Tc!Data(1, n) \o <<Tc!Command("START")>>)
  PROVE  IInv'
<1>1. /\ tcConnected /\ tcStep' = "wait_started" /\ tcWindow' = [tcWindow EXCEPT !.next = n + 1]
      /\ tcToModem' = tcToModem \o (Tc!Data(1, n) \o <<Tc!Command("START")>>)
      /\ UNCHANGED <<tcConnected, tcState, tcQueue, tcWindows, tcToNode, tcModem, tcDropped, tcRefused>>
  BY DEF Tc!Continue, Tc!modemVars
<1>2. /\ tcModem.state = "READY" /\ tcModem.no = 0 /\ Arms /\ Unflushed
      /\ tcWindow \in Windows /\ tcWindow.no \notin tcDropped /\ tcWindow.no \in 1 .. tcWindows
  BY <1>1, ReadyIsTrue
<1>3. Types /\ Statuses
  BY <1>1 DEF IInv
<1>4. /\ tcWindow.n \in Nat /\ n \in Nat \ {0} /\ n < tcWindow.n /\ n <= tcWindow.n /\ tcWindow.no \in Nat
      /\ 1 \in Nat \ {0} /\ 1 <= n
  BY <1>2 DEF Windows
<1>5. tcWindow' \in Windows /\ tcWindow'.no = tcWindow.no /\ tcWindow'.next = n + 1 /\ tcWindow'.n = tcWindow.n
  <2>1. n + 1 \in Nat \ {0}
    BY <1>4
  <2> QED BY <1>1, <1>2, <2>1 DEF Windows
<1>6. PICK start : start = Tc!Command("START")
  OBVIOUS
<1>7. start \in Packet /\ start.command = "START"
  BY <1>4, <1>6 DEF Tc!Command, Packet
<1>8. PICK data : data = Tc!Data(1, n)
  OBVIOUS
<1>9. /\ data \in Seq(Packet) /\ Len(data) = n
      /\ \A k \in 1 .. n : /\ data[k].command = "DATA" /\ data[k].no = tcWindow.no
                           /\ IsFirst(data[k]) <=> k = 1
                           /\ ~IsLast(data[k])
  <2>1. /\ Tc!Data(1, n) \in Seq(Packet) /\ Len(Tc!Data(1, n)) = n - 1 + 1
        /\ \A k \in 1 .. n - 1 + 1 :
              /\ Tc!Data(1, n)[k].command = "DATA" /\ Tc!Data(1, n)[k].no = tcWindow.no
              /\ IsFirst(Tc!Data(1, n)[k]) <=> 1 + k - 1 = 1
              /\ IsLast(Tc!Data(1, n)[k]) <=> 1 + k - 1 = tcWindow.n
    <3>1. PICK from \in Nat \ {0} : from = 1
      BY <1>4
    <3>2. from <= n /\ n <= tcWindow.n /\ n \in Nat /\ tcWindow \in Windows
      BY <1>2, <1>4, <3>1
    <3>3. /\ Tc!Data(from, n) \in Seq(Packet) /\ Len(Tc!Data(from, n)) = n - from + 1
          /\ \A k \in 1 .. n - from + 1 :
              /\ Tc!Data(from, n)[k].command = "DATA" /\ Tc!Data(from, n)[k].no = tcWindow.no
              /\ IsFirst(Tc!Data(from, n)[k]) <=> from + k - 1 = 1
              /\ IsLast(Tc!Data(from, n)[k]) <=> from + k - 1 = tcWindow.n
      BY <3>2, DataIs, ZenonT(60)
    <3> QED BY <3>1, <3>3
  <2>2. n - 1 + 1 = n /\ \A k \in 1 .. n : 1 + k - 1 = k /\ k # tcWindow.n
    BY <1>4
  <2> QED BY <1>8, <2>1, <2>2
<1>10. PICK c : c = data \o <<start>>
  OBVIOUS
<1>11. /\ c \in Seq(Packet) /\ Len(c) = n + 1
       /\ \A k \in 1 .. n : c[k] = data[k]
       /\ c[n + 1] = start
       /\ \A k \in 1 .. Len(c) : k \in 1 .. n \/ k = n + 1
  <2>1. data \in Seq(Packet) /\ <<start>> \in Seq(Packet) /\ Len(<<start>>) = 1 /\ <<start>>[1] = start
    BY <1>7, <1>9
  <2>2. c \in Seq(Packet) /\ Len(c) = n + 1
    BY <1>4, <1>9, <1>10, <2>1
  <2>3. \A k \in 1 .. n + 1 : c[k] = IF k <= n THEN data[k] ELSE <<start>>[k - n]
    BY <1>4, <1>9, <1>10, <2>1
  <2>4. \A k \in 1 .. n : k \in 1 .. n + 1 /\ k <= n
    BY <1>4
  <2>5. n + 1 \in 1 .. n + 1 /\ ~(n + 1 <= n) /\ n + 1 - n = 1
    BY <1>4
  <2>6. \A k \in 1 .. n + 1 : k \in 1 .. n \/ k = n + 1
    BY <1>4
  <2>7. c[n + 1] = start
    BY <2>1, <2>3, <2>5
  <2> QED BY <2>2, <2>3, <2>4, <2>6, <2>7
<1>12. tcToModem' = tcToModem \o c
  BY <1>1, <1>6, <1>8, <1>10
<1>13. /\ Types' /\ Numbers'
       /\ (AfterFlushed' <=> AfterFlushed) /\ (Unflushed' <=> Unflushed)
       /\ Inbox' /\ Statuses' /\ Sending' => IInv'
  <2>1. tcStep \in Tc!Steps \ {"idle"} /\ tcStep' \in Tc!Steps
    BY <1>1 DEF Tc!Steps
  <2>2. \A k \in 1 .. Len(c) : c[k].command = "DATA" => c[k].no = tcWindow.no
    BY <1>7, <1>9, <1>11
  <2>3. tcStep' \in {"wait_started", "rest"} => tcWindow'.next <= tcWindow'.n
    BY <1>4, <1>5
  <2>4. tcStep' \notin {"wait_flushed", "wait_ready"}
    BY <1>1
  <2> QED BY <1>1, <1>5, <1>11, <1>12, <2>1, <2>2, <2>3, <2>4, SenderKeeps
<1>14. /\ Len(tcToModem) \in Nat /\ Len(tcToModem') = Len(tcToModem) + n + 1
       /\ DOMAIN tcToModem = 1 .. Len(tcToModem) /\ DOMAIN tcToModem' = 1 .. Len(tcToModem')
       /\ \A i \in DOMAIN tcToModem : tcToModem'[i] = tcToModem[i]
       /\ \A i \in DOMAIN tcToModem' :
            \/ i \in DOMAIN tcToModem /\ tcToModem'[i] = tcToModem[i]
            \/ i - Len(tcToModem) \in 1 .. Len(c) /\ tcToModem'[i] = c[i - Len(tcToModem)]
       /\ \A k \in 1 .. Len(c) : Len(tcToModem) + k \in DOMAIN tcToModem' /\ tcToModem'[Len(tcToModem) + k] = c[k]
  <2>1. /\ Len(tcToModem) \in Nat /\ Len(tcToModem') = Len(tcToModem) + Len(c)
        /\ DOMAIN tcToModem = 1 .. Len(tcToModem) /\ DOMAIN tcToModem' = 1 .. Len(tcToModem')
        /\ \A i \in DOMAIN tcToModem : tcToModem'[i] = tcToModem[i]
        /\ \A i \in DOMAIN tcToModem' :
             \/ i \in DOMAIN tcToModem /\ tcToModem'[i] = tcToModem[i]
             \/ i - Len(tcToModem) \in 1 .. Len(c) /\ tcToModem'[i] = c[i - Len(tcToModem)]
        /\ \A k \in 1 .. Len(c) : Len(tcToModem) + k \in DOMAIN tcToModem' /\ tcToModem'[Len(tcToModem) + k] = c[k]
    BY <1>3, <1>11, <1>12, Extend
  <2>2. Len(tcToModem') = Len(tcToModem) + n + 1
    BY <1>4, <1>11, <2>1
  <2> QED BY <2>1, <2>2
<1>15. PICK a \in Nat : a = Len(tcToModem)
  BY <1>14
<1>16. /\ tcToModem'[a + 1].command = "DATA" /\ IsFirst(tcToModem'[a + 1]) /\ tcToModem'[a + 1].no = tcWindow.no
       /\ ~IsLast(tcToModem'[a + 1]) /\ a + 1 \in DOMAIN tcToModem'
  <2>1. 1 \in 1 .. Len(c) /\ 1 \in 1 .. n
    BY <1>4, <1>11
  <2>2. tcToModem'[a + 1] = data[1] /\ a + 1 \in DOMAIN tcToModem'
    BY <1>11, <1>14, <1>15, <2>1
  <2> QED BY <1>9, <2>1, <2>2
<1>17. ASSUME NEW i \in DOMAIN tcToModem', a + 2 <= i
       PROVE  /\ tcToModem'[i].command = "START" \/ (tcToModem'[i].command = "DATA" /\ tcToModem'[i].no = tcWindow.no
                                                   /\ ~IsFirst(tcToModem'[i]))
              /\ tcToModem'[i].command = "DATA" => ~IsLast(tcToModem'[i])
  <2>1. PICK k \in 1 .. Len(c) : k = i - a
    BY <1>14, <1>15, <1>17
  <2>2. tcToModem'[i] = c[k] /\ k # 1
    <3>1. i \notin DOMAIN tcToModem /\ k # 1 /\ i \in Nat
      BY <1>14, <1>15, <1>17, <2>1
    <3> QED BY <1>14, <1>15, <2>1, <3>1
  <2>3. CASE k \in 1 .. n
    BY <1>9, <1>11, <2>2, <2>3
  <2>4. CASE k = n + 1
    BY <1>7, <1>11, <2>2, <2>4
  <2> QED BY <1>11, <2>3, <2>4
<1>18. ArmsThenWindow'
  <2>1. PICK no \in 1 .. tcWindows' : no = tcWindow.no
    BY <1>1, <1>2
  <2>2. OpensAt(a + 1, no)'
    BY <1>16, <2>1 DEF OpensAt, IsFirst, IsLast, LastIsLast
  <2>3. PartsFrom(a + 2, no)'
    BY <1>17, <2>1 DEF PartsFrom, IsPart, IsFirst, IsLast, LastIsLast
  <2>4. \A i \in 1 .. a : IsArm(tcToModem[i])'
    BY <1>2, <1>14, <1>15 DEF Arms, IsArm
  <2>5. a \in 0 .. Len(tcToModem')
    BY <1>4, <1>14, <1>15
  <2> QED BY <2>2, <2>3, <2>4, <2>5 DEF ArmsThenWindow
<1>19. Inbox'
  BY <1>1, <1>2, <1>18 DEF Inbox
<1>20. Streaming' /\ Statuses'
  <2>1. ~Arms'
    BY <1>16 DEF Arms, IsArm
  <2> QED BY <1>1, <1>2, <1>3, <1>13, <2>1 DEF Streaming, Statuses
<1>21. Sending'
  <2>1. ASSUME NEW i \in DOMAIN tcToModem', tcToModem'[i].command = "DATA"
        PROVE  tcToModem'[i].no = tcWindow.no /\ ~IsLast(tcToModem'[i])
    <3>1. CASE i \in DOMAIN tcToModem /\ tcToModem'[i] = tcToModem[i]
      BY <1>2, <2>1, <3>1 DEF Arms, IsArm
    <3>2. CASE i - a \in 1 .. Len(c)
      <4>1. i = a + 1 \/ a + 2 <= i
        <5>1. i \in Nat /\ a \in Nat /\ Len(c) \in Nat
          BY <1>14, <1>15, <1>11
        <5> QED BY <3>2, <5>1
      <4> QED BY <1>16, <1>17, <2>1, <4>1
    <3> QED BY <1>14, <1>15, <3>1, <3>2
  <2>2. n + 1 # 1 /\ n + 1 <= tcWindow.n
    BY <1>4
  <2>3. /\ tcWindow'.no \notin tcDropped' /\ tcModem'.state = "READY" /\ Unflushed' /\ tcModem'.no = 0
        /\ tcWindow'.next # 1 /\ tcWindow'.next <= tcWindow'.n /\ tcWindow'.no = tcWindow.no
    BY <1>1, <1>2, <1>5, <1>13, <2>2
  <2> QED BY <1>20, <2>1, <2>3 DEF Sending, IsLast
<1> QED BY <1>13, <1>19, <1>20, <1>21

LEMMA PrefillStep == ASSUME IInv, Tc!Prefill PROVE IInv'
<1>1. CASE tcWindow.n = 1
  BY <1>1, PrefillOneStep DEF Tc!Prefill
<1>2. CASE tcWindow.n # 1
  BY <1>2, PrefillMoreStep DEF Tc!Prefill
<1> QED BY <1>1, <1>2
(* Packets added in the middle of a window, given up by the modem or not.  *)
LEMMA MiddleStep ==
  ASSUME IInv, UNCHANGED <<tcConnected, tcState, tcQueue, tcWindows, tcToNode, tcModem, tcDropped, tcRefused>>,
         NEW c \in Seq(Packet), tcToModem' = tcToModem \o c, tcConnected,
         tcStep \in {"wait_started", "rest"}, tcStep' \in {"wait_started", "rest", "wait_drained"},
         tcWindow' \in Windows, tcWindow'.no = tcWindow.no, tcWindow'.n = tcWindow.n,
         tcWindow.next # 1 \/ tcWindow.no \in tcDropped,
         tcStep' # "wait_drained" => tcWindow'.next = tcWindow.next,
         \A k \in 1 .. Len(c) : c[k].command = "START" \/ (c[k].command = "DATA" /\ c[k].no = tcWindow.no),
         \A k \in 1 .. Len(c) : c[k].command = "DATA" /\ IsFirst(c[k]) => tcWindow.no \in tcDropped,
         \A k \in 1 .. Len(c) : c[k].command = "DATA" /\ IsLast(c[k]) => k = Len(c) /\ tcStep' = "wait_drained"
  PROVE  IInv'
<1>1. Types /\ Numbers /\ Inbox /\ Statuses /\ Sending /\ tcWindow \in Windows /\ tcWindow.no \in Nat \ {0}
      /\ tcWindow.next <= tcWindow.n
  <2>1. Types /\ Numbers /\ Inbox /\ Statuses /\ Sending /\ tcWindow \in Windows /\ tcWindow.next <= tcWindow.n
    BY DEF IInv, Types
  <2> QED BY <2>1 DEF Windows
<1>2. /\ Types' /\ Numbers'
      /\ (AfterFlushed' <=> AfterFlushed) /\ (Unflushed' <=> Unflushed)
      /\ Inbox' /\ Statuses' /\ Sending' => IInv'
  <2>1. tcStep \in Tc!Steps \ {"idle"} /\ tcStep' \in Tc!Steps /\ tcStep' \notin {"wait_flushed", "wait_ready"}
    BY DEF Tc!Steps
  <2>2. tcStep' \in {"wait_started", "rest"} => tcWindow'.next <= tcWindow'.n
    BY <1>1
  <2>3. \A k \in 1 .. Len(c) : c[k].command = "DATA" => c[k].no = tcWindow.no
    OBVIOUS
  <2> QED BY <1>1, <2>1, <2>2, <2>3, SenderKeeps
<1>3. /\ \A i \in DOMAIN tcToModem' :
           \/ i \in DOMAIN tcToModem /\ tcToModem'[i] = tcToModem[i]
           \/ i - Len(tcToModem) \in 1 .. Len(c) /\ tcToModem'[i] = c[i - Len(tcToModem)]
  BY <1>1, Extend
<1>4. CASE tcWindow.no \in tcDropped
  <2>1. tcModem.state \in {"DRAINING_FORCED", "FLUSHED"} /\ AllSpent
    BY <1>1, <1>4 DEF Sending
  <2>2. \A k \in 1 .. Len(c) : IsSpent(c[k])
    BY <1>4 DEF IsSpent
  <2>3. Inbox' /\ AllSpent' /\ (Streaming' => Streaming)
    BY <1>1, <2>1, <2>2, SpentGrows
  <2>4. Statuses'
    BY <1>1, <1>2, <2>3 DEF Statuses
  <2>5. Sending'
    BY <1>4, <2>1, <2>3 DEF Sending
  <2> QED BY <1>2, <2>3, <2>4, <2>5
<1>5. CASE tcWindow.no \notin tcDropped
  <2>1. /\ tcModem.state \in {"READY", "STARTED"} /\ Unflushed
        /\ \A i \in DOMAIN tcToModem : tcToModem[i].command = "DATA" => /\ tcToModem[i].no = tcWindow.no
                                                                /\ ~IsLast(tcToModem[i])
        /\ tcModem.no \in {0, tcWindow.no} /\ Streaming
    BY <1>1, <1>5 DEF Sending
  <2>2. Inbox' /\ Streaming'
    <3>1. PICK no \in Nat \ {0} : no = tcWindow.no
      BY <1>1
    <3>2. \A k \in 1 .. Len(c) : /\ IsPart(c[k], no)
                                 /\ c[k].command = "DATA" /\ IsLast(c[k]) => k = Len(c)
      BY <1>5, <3>1 DEF IsPart
    <3>3. \A i \in DOMAIN tcToModem : tcToModem[i].command = "DATA" => tcToModem[i].no = no /\ ~IsLast(tcToModem[i])
      BY <2>1, <3>1
    <3>4. tcModem.no \in {0, no}
      BY <2>1, <3>1
    <3> QED BY <1>1, <2>1, <3>2, <3>3, <3>4, StreamGrows
  <2>3. Statuses'
    BY <1>1, <1>2, <2>1, <2>2 DEF Statuses
  <2>4. Sending'
    <3> SUFFICES ASSUME tcStep' \in {"wait_started", "rest"} PROVE Sending'
      BY DEF Sending
    <3>1. ASSUME NEW i \in DOMAIN tcToModem', tcToModem'[i].command = "DATA"
          PROVE  tcToModem'[i].no = tcWindow.no /\ ~IsLast(tcToModem'[i])
      <4>1. CASE i \in DOMAIN tcToModem /\ tcToModem'[i] = tcToModem[i]
        BY <2>1, <3>1, <4>1
      <4>2. CASE i - Len(tcToModem) \in 1 .. Len(c) /\ tcToModem'[i] = c[i - Len(tcToModem)]
        <5>1. PICK k \in 1 .. Len(c) : tcToModem'[i] = c[k]
          BY <4>2
        <5> QED BY <3>1, <5>1
      <4> QED BY <1>3, <4>1, <4>2
    <3>2. /\ tcWindow'.no \notin tcDropped' /\ tcModem'.state \in {"READY", "STARTED"} /\ Unflushed'
          /\ tcModem'.no \in {0, tcWindow'.no} /\ tcWindow'.next # 1 /\ tcWindow'.next <= tcWindow'.n
          /\ tcWindow'.no = tcWindow.no
      BY <1>1, <1>2, <1>5, <2>1
    <3> QED BY <2>2, <3>1, <3>2 DEF Sending, IsLast
  <2> QED BY <1>2, <2>2, <2>3, <2>4
<1> QED BY <1>4, <1>5

LEMMA StartAgainStep == ASSUME IInv, Tc!StartAgain PROVE IInv'
<1>1. /\ tcConnected /\ tcStep = "wait_started" /\ tcToModem' = Append(tcToModem, Tc!Command("START"))
      /\ UNCHANGED <<tcConnected, tcState, tcQueue, tcWindows, tcStep, tcWindow, tcToNode, tcModem, tcDropped, tcRefused>>
      /\ Types /\ Sending /\ tcWindow \in Windows
  BY DEF Tc!StartAgain, Tc!modemVars, IInv, Types
<1>2. PICK start : start = Tc!Command("START")
  OBVIOUS
<1>3. start \in Packet /\ start.command = "START"
  <2>1. tcWindow.no \in Nat
    BY <1>1 DEF Windows
  <2> QED BY <1>2, <2>1 DEF Tc!Command, Packet
<1>4. PICK c : c = <<start>>
  OBVIOUS
<1>5. c \in Seq(Packet) /\ Len(c) = 1 /\ \A k \in 1 .. Len(c) : c[k] = start
  BY <1>3, <1>4
<1>6. tcToModem' = tcToModem \o c
  <2>1. tcToModem \in Seq(Packet)
    BY <1>1 DEF Types
  <2> QED BY <1>1, <1>2, <1>3, <1>4, <2>1
<1>7. \A k \in 1 .. Len(c) : c[k].command = "START"
  BY <1>3, <1>5
<1>8. tcWindow.next # 1 \/ tcWindow.no \in tcDropped
  BY <1>1 DEF Sending
<1>9. tcStep \in {"wait_started", "rest"} /\ tcStep' \in {"wait_started", "rest", "wait_drained"}
  BY <1>1
<1> QED BY <1>1, <1>5, <1>6, <1>7, <1>8, <1>9, MiddleStep

LEMMA StartedStep == ASSUME IInv, Tc!Started PROVE IInv'
<1>1. /\ tcConnected /\ tcStep = "wait_started" /\ tcStep' = "rest"
      /\ tcWindow' = [tcWindow EXCEPT !.next = tcWindow.next] /\ tcToModem' = tcToModem \o <<>>
      /\ UNCHANGED <<tcConnected, tcState, tcQueue, tcWindows, tcToNode, tcModem, tcDropped, tcRefused>>
      /\ Types /\ Sending /\ tcWindow \in Windows
  BY DEF Tc!Started, Tc!Continue, Tc!modemVars, IInv, Types
<1>2. /\ tcWindow' \in Windows /\ tcWindow'.no = tcWindow.no /\ tcWindow'.n = tcWindow.n
      /\ tcWindow'.next = tcWindow.next
  BY <1>1 DEF Windows
<1>3. <<>> \in Seq(Packet)
  OBVIOUS
<1>4. PICK c \in Seq(Packet) : c = <<>>
  BY <1>3
<1>5. tcToModem' = tcToModem \o c /\ \A k \in 1 .. Len(c) : FALSE
  BY <1>1, <1>4
<1>6. tcWindow.next # 1 \/ tcWindow.no \in tcDropped
  BY <1>1 DEF Sending
<1>7. tcStep \in {"wait_started", "rest"} /\ tcStep' \in {"wait_started", "rest", "wait_drained"}
  BY <1>1
<1> QED BY <1>1, <1>2, <1>5, <1>6, <1>7, MiddleStep

(* 5. of a window of one packet: it is the first and the last.             *)
LEMMA SendOneStep ==
  ASSUME IInv, UNCHANGED <<tcConnected, tcState, tcQueue, tcWindows, tcToNode, tcModem, tcDropped, tcRefused>>,
         NEW p \in Packet, tcToModem' = tcToModem \o <<p>>, tcConnected, tcStep = "rest", tcStep' = "wait_drained",
         tcWindow' \in Windows, tcWindow'.no = tcWindow.no, tcWindow.next = 1, tcWindow.no \notin tcDropped,
         p.command = "DATA", p.no = tcWindow.no, IsFirst(p)
  PROVE  IInv'
<1>1. Types /\ Numbers /\ Statuses /\ Sending /\ tcWindow.no \in 1 .. tcWindows
  <2>1. Types /\ Numbers /\ Statuses /\ Sending
    BY DEF IInv
  <2>2. tcWindow.no \in Nat \ {0} /\ tcWindows \in Nat
    BY <2>1 DEF Types, Windows
  <2> QED BY <2>1, <2>2 DEF Numbers
<1>2. tcModem.state = "READY" /\ tcModem.no = 0 /\ Arms /\ Unflushed
  BY <1>1 DEF Sending
<1>3. PICK c : c = <<p>>
  OBVIOUS
<1>4. c \in Seq(Packet) /\ Len(c) = 1 /\ (\A k \in 1 .. Len(c) : c[k] = p) /\ 1 \in 1 .. Len(c)
  BY <1>3
<1>5. /\ Types' /\ Numbers'
      /\ (AfterFlushed' <=> AfterFlushed) /\ (Unflushed' <=> Unflushed)
      /\ Inbox' /\ Statuses' /\ Sending' => IInv'
  <2>1. tcStep \in Tc!Steps \ {"idle"} /\ tcStep' \in Tc!Steps
    BY DEF Tc!Steps
  <2>2. tcStep' \notin {"wait_flushed", "wait_ready"} /\ tcStep' \notin {"wait_started", "rest"}
    OBVIOUS
  <2>3. \A k \in 1 .. Len(c) : c[k].command = "DATA" => c[k].no = tcWindow.no
    BY <1>4
  <2>4. tcToModem' = tcToModem \o c
    BY <1>3
  <2> QED BY <1>4, <2>1, <2>2, <2>3, <2>4, SenderKeeps
<1>6. /\ Len(tcToModem) \in Nat /\ Len(tcToModem') = Len(tcToModem) + 1
      /\ DOMAIN tcToModem = 1 .. Len(tcToModem) /\ DOMAIN tcToModem' = 1 .. Len(tcToModem')
      /\ \A i \in DOMAIN tcToModem : tcToModem'[i] = tcToModem[i]
      /\ Len(tcToModem) + 1 \in DOMAIN tcToModem' /\ tcToModem'[Len(tcToModem) + 1] = p
  <2>1. tcToModem' = tcToModem \o c
    BY <1>3
  <2> QED BY <1>1, <1>4, <2>1, Extend
<1>7. PICK a \in Nat : a = Len(tcToModem)
  BY <1>6
<1>8. ArmsThenWindow'
  <2>1. PICK no \in 1 .. tcWindows' : no = tcWindow.no
    BY <1>1
  <2>2. a + 1 = Len(tcToModem') /\ tcToModem'[a + 1] = p
    BY <1>6, <1>7
  <2>3. OpensAt(a + 1, no)'
    BY <2>1, <2>2 DEF OpensAt, IsFirst, IsLast, LastIsLast
  <2>4. \A i \in DOMAIN tcToModem' : ~(a + 2 <= i)
    BY <1>6, <1>7
  <2>5. PartsFrom(a + 2, no)'
    BY <2>4 DEF PartsFrom
  <2>6. \A i \in 1 .. a : IsArm(tcToModem[i])'
    BY <1>2, <1>6, <1>7 DEF Arms, IsArm
  <2>7. a \in 0 .. Len(tcToModem')
    BY <1>6, <1>7
  <2> QED BY <2>3, <2>5, <2>6, <2>7 DEF ArmsThenWindow
<1>9. Inbox'
  BY <1>2, <1>8 DEF Inbox
<1>10. Statuses' /\ Sending'
  BY <1>1, <1>2, <1>5 DEF Statuses, Sending
<1> QED BY <1>5, <1>9, <1>10

LEMMA SendRestStep == ASSUME IInv, Tc!SendRest PROVE IInv'
<1>1. /\ tcConnected /\ tcStep = "rest" /\ tcStep' = "wait_drained"
      /\ tcWindow' = [tcWindow EXCEPT !.next = tcWindow.n + 1]
      /\ tcToModem' = tcToModem \o Tc!Data(tcWindow.next, tcWindow.n)
      /\ UNCHANGED <<tcConnected, tcState, tcQueue, tcWindows, tcToNode, tcModem, tcDropped, tcRefused>>
      /\ Types /\ Sending /\ tcWindow \in Windows /\ tcWindow.next <= tcWindow.n
  BY DEF Tc!SendRest, Tc!Continue, Tc!modemVars, IInv, Types
<1>2. PICK from \in Nat \ {0}, n \in Nat \ {0} : from = tcWindow.next /\ n = tcWindow.n
  BY <1>1 DEF Windows
<1>3. tcWindow' \in Windows /\ tcWindow'.no = tcWindow.no /\ tcWindow'.n = tcWindow.n
  <2>1. tcWindow.n + 1 \in Nat \ {0}
    BY <1>2
  <2> QED BY <1>1, <2>1 DEF Windows
<1>4. PICK c : c = Tc!Data(from, n)
  OBVIOUS
<1>5. /\ c \in Seq(Packet) /\ Len(c) = n - from + 1
      /\ \A k \in 1 .. n - from + 1 :
            /\ c[k].command = "DATA" /\ c[k].no = tcWindow.no
            /\ IsFirst(c[k]) <=> from + k - 1 = 1
            /\ IsLast(c[k]) <=> from + k - 1 = tcWindow.n
  <2>1. tcWindow \in Windows /\ from <= n /\ n <= tcWindow.n /\ n \in Nat
    BY <1>1, <1>2
  <2>2. /\ Tc!Data(from, n) \in Seq(Packet) /\ Len(Tc!Data(from, n)) = n - from + 1
        /\ \A k \in 1 .. n - from + 1 :
              /\ Tc!Data(from, n)[k].command = "DATA" /\ Tc!Data(from, n)[k].no = tcWindow.no
              /\ IsFirst(Tc!Data(from, n)[k]) <=> from + k - 1 = 1
              /\ IsLast(Tc!Data(from, n)[k]) <=> from + k - 1 = tcWindow.n
    BY <2>1, DataIs, ZenonT(60)
  <2> QED BY <1>4, <2>2
<1>6. tcToModem' = tcToModem \o c
  BY <1>1, <1>2, <1>4
<1>7. CASE from # 1 \/ tcWindow.no \in tcDropped
  <2>1. \A k \in 1 .. Len(c) : c[k].command = "START" \/ (c[k].command = "DATA" /\ c[k].no = tcWindow.no)
    BY <1>5
  <2>2. \A k \in 1 .. Len(c) : c[k].command = "DATA" /\ IsFirst(c[k]) => tcWindow.no \in tcDropped
    <3>1. \A k \in 1 .. n - from + 1 : from + k - 1 = 1 => from = 1
      BY <1>1, <1>2
    <3> QED BY <1>5, <1>7, <3>1
  <2>3. \A k \in 1 .. Len(c) : c[k].command = "DATA" /\ IsLast(c[k]) => k = Len(c) /\ tcStep' = "wait_drained"
    <3>1. \A k \in 1 .. n - from + 1 : from + k - 1 = n => k = n - from + 1
      BY <1>1, <1>2
    <3> QED BY <1>1, <1>2, <1>5, <3>1
  <2>4. tcStep \in {"wait_started", "rest"} /\ tcStep' \in {"wait_started", "rest", "wait_drained"}
    BY <1>1
  <2>5. tcWindow.next # 1 \/ tcWindow.no \in tcDropped
    BY <1>2, <1>7
  <2> QED BY <1>1, <1>3, <1>5, <1>6, <2>1, <2>2, <2>3, <2>4, <2>5, MiddleStep
<1>8. CASE from = 1 /\ tcWindow.no \notin tcDropped
  <2>1. n = 1
    BY <1>1, <1>2, <1>8 DEF Sending
  <2>2. n - from + 1 = 1 /\ 1 \in 1 .. 1 /\ from + 1 - 1 = 1
    BY <1>8, <2>1
  <2>3. Len(c) = 1 /\ c[1].command = "DATA" /\ c[1].no = tcWindow.no /\ IsFirst(c[1])
    BY <1>5, <2>2
  <2>4. PICK p : p = c[1]
    OBVIOUS
  <2>5. p \in Packet /\ c = <<p>>
    <3>1. c \in Seq(Packet) /\ Len(c) = 1
      BY <1>5, <2>3
    <3>2. c[1] \in Packet
      BY <3>1
    <3>3. c = <<c[1]>>
      BY <3>1
    <3> QED BY <2>4, <3>2, <3>3
  <2>6. tcToModem' = tcToModem \o <<p>> /\ p.command = "DATA" /\ p.no = tcWindow.no /\ IsFirst(p)
    BY <1>6, <2>3, <2>4, <2>5
  <2> QED BY <1>1, <1>2, <1>3, <1>8, <2>5, <2>6, SendOneStep
<1> QED BY <1>7, <1>8

(* 6. and the time-outs: the sender leaves the window.                     *)
LEMMA ToIdleStep == ASSUME IInv, Tc!ToIdle, tcStep # "idle" PROVE IInv'
<1>1. /\ tcStep' = "idle"
      /\ UNCHANGED <<tcConnected, tcState, tcQueue, tcWindows, tcToModem, tcToNode, tcModem, tcDropped, tcRefused>>
      /\ Types /\ Numbers /\ Tc!PacketsAreTaken
  BY DEF Tc!ToIdle, Tc!modemVars, IInv
<1>2. Types'
  BY <1>1 DEF Types, Tc!Steps
<1>3. Numbers'
  <2>1. \A no \in Nat : Heard(no)' => Heard(no)
    BY <1>1 DEF Heard
  <2> QED BY <1>1, <2>1, NumbersKept
<1>4. ASSUME tcConnected PROVE Inbox' /\ Statuses' /\ Sending'
  <2>1. Inbox /\ Statuses
    BY <1>4 DEF IInv
  <2>2. Inbox' /\ (Streaming' <=> Streaming)
    <3>1. tcWindows \in Nat /\ tcWindows' = tcWindows /\ tcWindows <= tcWindows'
      BY <1>1 DEF Types
    <3> QED BY <1>1, <2>1, <3>1, InboxSame
  <2>3. (AfterFlushed' <=> AfterFlushed) /\ (Unflushed' <=> Unflushed)
    BY <1>1, ChainSame
  <2>4. Statuses' /\ Sending'
    BY <1>1, <2>1, <2>2, <2>3 DEF Statuses, Sending
  <2> QED BY <2>2, <2>4
<1> QED BY <1>1, <1>2, <1>3, <1>4 DEF IInv, Tc!PacketsAreTaken
-----------------------------------------------------------------------------
LEMMA InitCorrect == Tc!Init => IInv
<1> SUFFICES ASSUME Tc!Init PROVE IInv
  OBVIOUS
<1>1. <<>> \in Seq(Tc!States) /\ <<>> \in Seq(Windows) /\ <<>> \in Seq(Packet)
  OBVIOUS
<1>2. Types
  BY <1>1 DEF Tc!Init, Tc!NewModem, Types, Tc!States, Tc!Steps
<1>3. DOMAIN tcQueue = {} /\ DOMAIN tcToModem = {}
  BY DEF Tc!Init
<1>4. Numbers
  BY <1>3 DEF Tc!Init, Tc!NewModem, Numbers, Heard
<1> QED BY <1>2, <1>4 DEF Tc!Init, IInv, Tc!PacketsAreTaken

LEMMA NextCorrect == IInv /\ [Tc!Next]_tcVars => IInv'
<1> SUFFICES ASSUME IInv, [Tc!Next]_tcVars PROVE IInv'
  OBVIOUS
<1>1. CASE UNCHANGED tcVars
  BY <1>1 DEF tcVars, Tc!sender, Tc!modemVars, IInv, Types, Numbers, Heard, Inbox, SpentThenArms, Arms, IsArm,
     ArmsThenWindow, OpensAt, PartsFrom, LastIsLast, AllSpent, IsSpent, Statuses, AfterFlushed, Rises,
     Unflushed, Streaming, Chain, Last, Sending, Tc!PacketsAreTaken
<1>2. CASE Tc!Connect
  BY <1>2, ConnectStep
<1>3. CASE Tc!Drop
  BY <1>3, DropStep
<1>4. CASE Tc!OnTxStatus
  BY <1>4, OnTxStatusStep
<1>5. CASE \E n \in 1 .. TcMaxPackets : Tc!Burst(n)
  BY <1>5, BurstStep
<1>6. CASE Tc!Take
  BY <1>6, TakeStep
<1>7. CASE Tc!Discard
  BY <1>7, DiscardStep
<1>8. CASE Tc!Arm
  BY <1>8, ArmStep
<1>9. CASE Tc!Prefill
  BY <1>9, PrefillStep
<1>10. CASE Tc!StartAgain
  BY <1>10, StartAgainStep
<1>11. CASE Tc!Started
  BY <1>11, StartedStep
<1>12. CASE Tc!SendRest
  BY <1>12, SendRestStep
<1>13. CASE Tc!Done
  BY <1>13, ToIdleStep DEF Tc!Done
<1>14. CASE Tc!TimeOut
  BY <1>14, ToIdleStep DEF Tc!TimeOut
<1>15. CASE Tc!Abort
  BY <1>15, ToIdleStep DEF Tc!Abort
<1>16. CASE Tc!Takes
  BY <1>16, TakesStep
<1>17. CASE Tc!PortReady
  BY <1>17, PortReadyStep
<1>18. CASE Tc!Drained
  BY <1>18, DrainedStep
<1>19. CASE Tc!Underrun
  BY <1>19, UnderrunStep
<1> QED BY <1>1, <1>2, <1>3, <1>4, <1>5, <1>6, <1>7, <1>8, <1>9, <1>10, <1>11, <1>12, <1>13, <1>14,
           <1>15, <1>16, <1>17, <1>18, <1>19 DEF Tc!Next

(***************************************************************************)
(* The modem never refuses a packet of a window it did not give up: what   *)
(* _tx_worker sends fits the state the modem is in when it gets there      *)
(* (PacketsAreTaken).  The other components leave the modem alone.         *)
(***************************************************************************)
THEOREM PacketsTaken == Spec => []PacketsAreTaken
<1>1. Init => IInv
  BY InitCorrect DEF Init
<1>2. IInv /\ [Next]_vars => IInv'
  <2> SUFFICES ASSUME IInv, [Next]_vars PROVE IInv'
    OBVIOUS
  <2>1. [Tc!Next]_tcVars
    BY DEF Next, vars, DtsNext, MgNext, NaNext, RsNext, SgNext, TcNext
  <2> QED BY <2>1, NextCorrect
<1>3. IInv => PacketsAreTaken
  BY DEF IInv, PacketsAreTaken
<1> QED BY <1>1, <1>2, <1>3, PTL DEF Spec
=============================================================================
