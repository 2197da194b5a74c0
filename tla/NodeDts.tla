------------------------------- MODULE NodeDts -------------------------------
(***************************************************************************)
(* The Data Transfer Sublayer of one node: which D_PDUs it takes and which *)
(* it answers with a WARNING (dts_state.py), and the steps of the node's   *)
(* tick that drive it (stanag_node.py, tick 1 to 5 and what the session    *)
(* hands down in the rest).  The view of the Channel Access Sublayer       *)
(* changes as CasView says; the node polls it once a tick.                 *)
(*                                                                         *)
(* Of the engines only what the states depend on is kept: whether the      *)
(* expedited engine has something to send or to wait for, and the FULL     *)
(* RESET D_PDUs the node sends before all others.                          *)
(***************************************************************************)
EXTENDS Naturals, CasView

CONSTANTS MaxResets, \* bound: D_PDUs waiting in _arq_pending_tx
          MaxInput   \* bound: frames and calls that are not of the node itself

VARIABLES pc,      \* the step of the tick
          view,    \* CasView: cas.state and cas.remote_node_address
          prevDts, \* _prev_cas_state_dts
          dts,     \* DTSStateMachine._state
          saved,   \* DTSStateMachine._prev_state
          exp,     \* expedited_arq.has_pending_tx()
          resets,  \* length of _arq_pending_tx
          warned,  \* the last step answered a frame with a WARNING
          missed,  \* history: the link was up at the very first poll
          inputs

vars == <<pc, view, prevDts, dts, saved, exp, resets, warned, missed, inputs>>

(* The eight states of DTSState.                                           *)
DTSState == [up : BOOLEAN, mode : {"IDLE", "DATA", "EXPEDITED", "MANAGEMENT"}]
DpduType == {"DATA", "RESETWIN", "EXPEDITED_DATA", "EXPEDITED_ACK", "MANAGEMENT",
             "NON_ARQ", "WARNING"}

TypeOK ==
  /\ pc \in {"rx", "castick", "transmit", "app"}
  /\ view \in View /\ prevDts \in CasState \cup {None}
  /\ dts \in DTSState /\ saved \in DTSState \cup {None}
  /\ exp \in BOOLEAN /\ warned \in BOOLEAN /\ missed \in BOOLEAN
  /\ resets \in 0 .. MaxResets /\ inputs \in 0 .. MaxInput

Init ==
  /\ pc = "rx" /\ view = Idle /\ prevDts = None
  /\ dts = [up |-> FALSE, mode |-> "IDLE"] /\ saved = None
  /\ exp = FALSE /\ resets = 0 /\ warned = FALSE /\ missed = FALSE /\ inputs = 0
-----------------------------------------------------------------------------
(* _ALLOWED; DATA stands for the types 0, 1 and 2.                         *)
Allowed(d, type) ==
  \/ type \in {"NON_ARQ", "WARNING"}
  \/ type = "MANAGEMENT" /\ ~(d.up /\ d.mode = "IDLE")
  \/ type = "RESETWIN" /\ d.up /\ d.mode # "MANAGEMENT"
  \/ type = "DATA" /\ d.up /\ d.mode = "DATA"
  \/ type \in {"EXPEDITED_DATA", "EXPEDITED_ACK"} /\ d.up /\ d.mode \in {"DATA", "EXPEDITED"}

(* on_link_made, then enter_data.                                          *)
LinkMade == [up |-> TRUE, mode |-> "DATA"]
EnterData(d) == IF d = [up |-> TRUE, mode |-> "IDLE"] THEN LinkMade ELSE d

\* Mutant of LinkBroken: the state to return to is kept.
LinkBrokenKept(d, s) == [state |-> [up |-> FALSE, mode |-> "IDLE"], saved |-> s]
(* on_link_broken.                                                         *)
LinkBroken(d, s) == [state |-> [up |-> FALSE, mode |-> "IDLE"], saved |-> None]

(* enter_management, enter_expedited: only a data state is returned to.    *)
Enter(d, s, mode) ==
  [state |-> [d EXCEPT !.mode = mode], saved |-> IF d.mode = "DATA" THEN d ELSE s]
(* exit_management, exit_expedited.                                        *)
Exit(d, s) ==
  [state |-> IF s # None THEN s ELSE [d EXCEPT !.mode = "DATA"], saved |-> None]

Becomes(m) == dts' = m.state /\ saved' = m.saved
SameDts == UNCHANGED <<dts, saved>>
-----------------------------------------------------------------------------
(* Steps 1 and 2: the frames that came in (_dispatch_rx_frame).            *)
Input == inputs < MaxInput /\ inputs' = inputs + 1
Rx == pc = "rx" /\ pc' = pc /\ Input /\ UNCHANGED <<view, prevDts, missed>>
Takes(type) == Rx /\ Allowed(dts, type) /\ warned' = FALSE

RxRefused(type) ==
  /\ Rx /\ ~Allowed(dts, type)
  /\ warned' = TRUE
  /\ SameDts /\ UNCHANGED <<exp, resets>>

(* A C_PDU of the Channel Access Sublayer, or an S_PDU sent without a link.*)
RxNonArq ==
  /\ pc = "rx" /\ pc' = pc /\ Input
  /\ view' \in ByPeer(view) \cup {view}
  /\ warned' = FALSE
  /\ SameDts /\ UNCHANGED <<prevDts, exp, resets, missed>>

(* A RESETWIN_RESYNC is taken whomever it is addressed to and whatever the *)
(* state of the link; a FULL RESET command is acknowledged                 *)
(* (arq.process_rx_reset).                                                 *)
RxFullReset ==
  /\ Takes("RESETWIN") /\ resets < MaxResets
  /\ resets' = resets + 1
  /\ dts' = LinkMade
  /\ UNCHANGED <<saved, exp>>
RxOtherReset ==
  /\ Takes("RESETWIN")
  /\ resets' \in {resets, resets + 1} \cap (0 .. MaxResets)
  /\ SameDts /\ UNCHANGED exp

(* D_PDUs of a link: addressed to this node, or not, and with a link or    *)
(* not.                                                                    *)
RxNotOurs(type) ==
  /\ type \in {"DATA", "EXPEDITED_DATA", "EXPEDITED_ACK"}
  /\ Takes(type)
  /\ SameDts /\ UNCHANGED <<exp, resets>>
RxWithoutLink(type) ==
  /\ type \in {"DATA", "EXPEDITED_DATA", "EXPEDITED_ACK"}
  /\ Rx /\ Allowed(dts, type) /\ view.state # "MADE"
  /\ warned' = TRUE
  /\ SameDts /\ UNCHANGED <<exp, resets>>
RxData ==
  /\ Takes("DATA") /\ view.state = "MADE"
  /\ SameDts /\ UNCHANGED <<exp, resets>>
(* A data segment leaves an acknowledgement to send; an acknowledgement    *)
(* may be the last one waited for.                                         *)
RxExpedited(type) ==
  /\ type \in {"EXPEDITED_DATA", "EXPEDITED_ACK"}
  /\ Takes(type) /\ view.state = "MADE"
  /\ exp' \in {exp, type = "EXPEDITED_DATA"}
  /\ LET m == Enter(dts, saved, "EXPEDITED")
     IN  Becomes(IF exp' THEN m ELSE Exit(m.state, m.saved))
  /\ UNCHANGED resets
RxManagement ==
  /\ Takes("MANAGEMENT")
  /\ LET m == Enter(dts, saved, "MANAGEMENT") IN Becomes(Exit(m.state, m.saved))
  /\ UNCHANGED <<exp, resets>>
-----------------------------------------------------------------------------
(* Step 3, _dts_cas_transitions.                                           *)
Step(from, to) == pc = from /\ pc' = to /\ warned' = FALSE

DtsCas ==
  /\ Step("rx", "castick")
  /\ LET made == view.state = "MADE" /\ prevDts \notin {None, "MADE"}
     IN  /\ made /\ prevDts = "CALLING" => resets < MaxResets
         /\ resets' = IF made /\ prevDts = "CALLING" THEN resets + 1 ELSE resets
         /\ IF made THEN dts' = LinkMade /\ UNCHANGED saved
            ELSE IF prevDts = "MADE" /\ view.state # "MADE" THEN Becomes(LinkBroken(dts, saved))
            ELSE SameDts
  /\ prevDts' = view.state
  /\ missed' = (view.state = "MADE" /\ (missed \/ prevDts = None))
  /\ UNCHANGED <<view, exp, inputs>>

(* Step 4, cas.tick.                                                       *)
CasTick ==
  /\ Step("castick", "transmit")
  /\ view' \in ByTimer(view) \cup {view}
  /\ SameDts /\ UNCHANGED <<prevDts, exp, resets, missed, inputs>>

(* Step 5, _dts_transmit: one kind of D_PDU a tick, except that regular    *)
(* data may go out while an expedited segment waits for its answer.        *)
Transmits == Step("transmit", "app") /\ UNCHANGED <<view, prevDts, missed, inputs>>
TxReset ==
  /\ Transmits /\ resets > 0
  /\ resets' = resets - 1
  /\ SameDts /\ UNCHANGED exp
TxNonArq ==
  /\ Transmits /\ resets = 0
  /\ SameDts /\ UNCHANGED <<exp, resets>>
Entered ==
  IF exp /\ dts.mode = "DATA" THEN Enter(dts, saved, "EXPEDITED")
  ELSE [state |-> dts, saved |-> saved]
\* The acknowledgement of a segment may be all there was to send.
TxExpedited ==
  /\ Transmits /\ resets = 0 /\ exp
  /\ exp' \in BOOLEAN
  /\ Becomes(Entered)
  /\ UNCHANGED resets
\* Mutant of AfterExpedited: only an acknowledgement ends the state.
AfterExpeditedStays(m, pending) == m
AfterExpedited(m, pending) ==
  IF m.state.mode = "EXPEDITED" /\ ~pending THEN Exit(m.state, m.saved) ELSE m
\* The expedited engine waits, has nothing, or gives up.
TxRegular ==
  /\ Transmits /\ resets = 0
  /\ exp' \in {exp, FALSE}
  /\ Becomes(AfterExpedited(Entered, exp'))
  /\ UNCHANGED resets
-----------------------------------------------------------------------------
(* The rest of the tick, and the calls between two ticks.                  *)
Call == pc = "app" /\ pc' = pc /\ warned' = FALSE /\ Input /\ UNCHANGED <<prevDts, resets, missed>>

(* _send_control_expedited, to the node the link is with.                  *)
SendControl ==
  /\ Call /\ view.state = "MADE"
  /\ exp' = TRUE
  /\ Becomes(Enter(dts, saved, "EXPEDITED"))
  /\ UNCHANGED view
(* _dispatch_tx: an expedited U_PDU; send_data.                            *)
SubmitExpedited == Call /\ exp' = TRUE /\ SameDts /\ UNCHANGED view
SendData ==
  /\ Call /\ view.state = "MADE"
  /\ dts' = EnterData(dts)
  /\ UNCHANGED <<saved, exp, view>>
ChangeLink ==
  /\ Call
  /\ \/ MayCall(view) /\ \E r \in Node : view' = Calling(r)
     \/ MayBreak(view) /\ view' = Breaking(view)
  /\ SameDts /\ UNCHANGED exp
AppDone ==
  /\ Step("app", "rx")
  /\ SameDts /\ UNCHANGED <<view, prevDts, exp, resets, missed, inputs>>

Next ==
  \/ \E type \in DpduType :
       RxRefused(type) \/ RxNotOurs(type) \/ RxWithoutLink(type) \/ RxExpedited(type)
  \/ RxNonArq \/ RxFullReset \/ RxOtherReset \/ RxData \/ RxManagement
  \/ DtsCas \/ CasTick \/ TxReset \/ TxNonArq \/ TxExpedited \/ TxRegular
  \/ SendControl \/ SubmitExpedited \/ SendData \/ ChangeLink \/ AppDone

(* The loop runs on; the expedited engine gives up in the end, and does    *)
(* not always find a non-ARQ D_PDU sent before.                            *)
Fairness ==
  /\ WF_vars(DtsCas \/ CasTick \/ AppDone)
  /\ WF_vars(TxReset \/ TxNonArq \/ TxExpedited \/ TxRegular)
  /\ SF_vars(TxRegular /\ ~exp')

Spec == Init /\ [][Next]_vars /\ Fairness
-----------------------------------------------------------------------------
(* D_PDUs of a link are taken when, and only when, the node has seen the   *)
(* link made and not yet seen it gone, through every expedited and         *)
(* management exchange; a link that is up at the first poll is the         *)
(* exception, which the node never notices (_dts_cas_transitions).         *)
ConnectedWhileMade == dts.up = (prevDts = "MADE" /\ ~missed)

(* Regular data are refused during an expedited exchange, but not for      *)
(* ever: the state ends with the exchange, or with the link                *)
(* (_dts_transmit, exit_expedited).                                        *)
ExpeditedEnds == dts.mode = "EXPEDITED" ~> dts.mode # "EXPEDITED"
=============================================================================
