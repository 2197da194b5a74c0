----------------------------- MODULE NodeSession -----------------------------
(***************************************************************************)
(* The link session of one node (stanag_node.py, StanagNode): its clients' *)
(* U_PDUs, the soft link the node makes for them, and the hard links the   *)
(* clients establish, accept and terminate.                                *)
(*                                                                         *)
(* The node runs in a loop: a tick is a fixed sequence of steps, one       *)
(* action each, in the order of tick(); clients call in between two ticks. *)
(* The other nodes may send any S_PDU at any time, and the Channel Access  *)
(* Sublayer changes under the node as CasView says; the node polls it at   *)
(* two places of the tick, each with its own memory of the last state.     *)
(* A deadline that has been set passes at any tick.                        *)
(***************************************************************************)
EXTENDS Integers, Sequences, FiniteSets, SequencesExt, CasView

CONSTANTS Sap,
          Rank,        \* Rank[x]: rank of a client, or assumed of the clients of a node
          LinkKind,    \* hard link types (0, 1 and 2)
          Priority,    \* priorities of links and of U_PDUs
          Indicates,   \* a client wants to be asked about links of type 2
          OtherLinks,  \* the node may hold exclusive links it does not see
          MaxExpedited,\* max_expedited_per_client (0: no limit)
          Heard,       \* bound: the types of S_PDU the other nodes send
          MaxQueue,    \* bound: U_PDUs waiting
          MaxRx,       \* bound: S_PDUs and changes of the view in a tick
          MaxPeer,     \* bound: S_PDUs and changes of the view
          MaxApi       \* bound: calls of the clients

ASSUME SessionAssumption ==
  /\ None \notin Node /\ None \notin Sap
  /\ Rank \in [Sap \cup Node -> Nat]
  /\ LinkKind \subseteq Nat /\ 0 \in LinkKind
  /\ Priority \subseteq Nat /\ 0 \in Priority
  /\ Indicates \in BOOLEAN /\ OtherLinks \in BOOLEAN
  /\ MaxExpedited \in Nat /\ MaxQueue \in Nat
  /\ MaxRx \in Nat /\ MaxPeer \in Nat /\ MaxApi \in Nat

VARIABLES pc,        \* the step of the tick, or "idle" between two ticks
          view,      \* CasView: cas.state and cas.remote_node_address
          prevDts,   \* _prev_cas_state_dts
          prevSis,   \* _prev_cas_state_sis
          weInit,    \* _we_initiated_link
          deferred,  \* _deferred_hard_link_request
          ses,       \* _link_session
          saps,      \* _saps: the clients that are bound
          counts,    \* _expedited_counts
          queue,     \* _tx_queue
          flowOn,    \* _flow_on
          arqIn,     \* received_data_cpdus not processed yet
          nonArqIn,  \* the Non-ARQ deliveries of this tick
          sent,      \* the S_PDUs handed down by the last step
          told,      \* the primitives given to clients by the last step
          asked,     \* history: the node each client asked a hard link with, or accepted
          peers, apis, rx

vars == <<pc, view, prevDts, prevSis, weInit, deferred, ses, saps, counts, queue,
          flowOn, arqIn, nonArqIn, sent, told, asked, peers, apis, rx>>
cas == <<view, prevDts, prevSis>>
clients == <<saps, counts, queue, flowOn>>
inbox == <<arqIn, nonArqIn>>
bounds == <<peers, apis, rx>>
-----------------------------------------------------------------------------
Indication == [src : Node \cup {None}, kind : LinkKind, priority : Priority]
Session ==
  [state : {"IDLE", "ESTABLISHING", "ACTIVE", "TERMINATING"}, type : {"SOFT", "HARD"},
   remote : Node \cup {None}, rank : Nat, priority : Priority, kind : LinkKind,
   initiator : Sap \cup {None}, awaitResp : BOOLEAN, awaitTerm : BOOLEAN,
   pending : Indication \cup {None}, backlog : Seq(Indication)]
NoSession ==
  [state |-> "IDLE", type |-> "SOFT", remote |-> None, rank |-> 0, priority |-> 0,
   kind |-> 0, initiator |-> None, awaitResp |-> FALSE, awaitTerm |-> FALSE,
   pending |-> None, backlog |-> <<>>]

Spdu == [type : {"REQUEST"}, kind : LinkKind, priority : Priority, sap : Sap]
        \cup [type : {"CONFIRM", "REJECTED", "TERMINATE", "TERMINATE_CONFIRM"}]
        \cup [type : {"DATA"}, sap : Sap, confirm : BOOLEAN]
        \cup [type : {"DELIVERY_CONFIRM", "DELIVERY_FAIL"}, sap : Sap]
Upd == [sap : Sap, dest : Node, mode : {"ARQ", "EXPEDITED", "NON_ARQ"}, priority : Priority]

Event == {"established", "rejected", "terminated", "terminated_per_sap", "indication",
          "unidata", "request_confirm", "request_rejected", "unbind"}
\* What is handed down: S_PDUs that control or answer, and U_PDUs by their service.
Handed == {"REQUEST", "CONFIRM", "REJECTED", "TERMINATE", "TERMINATE_CONFIRM",
           "DELIVERY_CONFIRM", "DELIVERY_FAIL", "ARQ", "EXPEDITED", "NON_ARQ"}
Steps == {"idle", "arq", "nonarq", "dtscas", "castick", "spdus", "monitor", "deferred",
          "timeouts", "purge", "dispatch", "softlink"}

TypeOK ==
  /\ pc \in Steps
  /\ view \in View
  /\ prevDts \in CasState \cup {None} /\ prevSis \in CasState
  /\ weInit \in BOOLEAN /\ deferred \in BOOLEAN /\ flowOn \in BOOLEAN
  /\ ses \in Session
  /\ saps \subseteq Sap /\ counts \in [Sap -> Nat]
  /\ queue \in Seq(Upd) /\ Len(queue) <= MaxQueue
  /\ arqIn \in Seq(Spdu)
  /\ nonArqIn \in Seq([spdu : Spdu, src : Node])
  /\ sent \subseteq [type : Handed, to : Node \cup {None}, for : Node \cup {None}]
  /\ told \subseteq [event : Event, sap : Sap \cup {None}]
  /\ asked \in [Sap -> Node \cup {None}]
  /\ peers \in 0 .. MaxPeer /\ apis \in 0 .. MaxApi /\ rx \in 0 .. MaxRx

Init ==
  /\ pc = "idle" /\ view = Idle /\ prevDts = None /\ prevSis = "IDLE"
  /\ weInit = FALSE /\ deferred = FALSE /\ flowOn = TRUE
  /\ ses = NoSession
  /\ saps = {} /\ counts = [s \in Sap |-> 0] /\ queue = <<>>
  /\ arqIn = <<>> /\ nonArqIn = <<>> /\ sent = {} /\ told = {}
  /\ asked = [s \in Sap |-> None]
  /\ peers = 0 /\ apis = 0 /\ rx = 0
-----------------------------------------------------------------------------
Tell(event) == {[event |-> event, sap |-> None]}
TellSap(event, s) == {[event |-> event, sap |-> s]}
To(type, n) == {[type |-> type, to |-> n, for |-> n]}

\* Mutant of RankOf: a node that is not known has no rank.
RankOfUnknown(n) == IF n = None THEN -1 ELSE Rank[n]
(* _resolve_remote_rank.                                                   *)
RankOf(n) == IF n = None THEN 0 ELSE Rank[n]

(* _reset_link_session_to_idle.                                            *)
Ended(s) == [NoSession EXCEPT !.remote = s.remote]

(* The clients told that hard link s has ended, one by one                 *)
(* (_notify_hard_link_terminated_per_sap).                                 *)
TellEach(s) ==
  [event : {"terminated_per_sap"}, sap : IF s.kind = 0 THEN saps ELSE {s.initiator} \ {None}]

(* _evaluate_hard_link_precedence: ties keep the link there is.            *)
Wins(rank, priority, kind) ==
  \/ rank > ses.rank
  \/ rank = ses.rank /\ priority > ses.priority
  \/ rank = ses.rank /\ priority = ses.priority /\ kind > ses.kind

HardActive == ses.type = "HARD" /\ ses.state = "ACTIVE"

Result(s, out, news) == [ses |-> s, sent |-> out, told |-> news]

\* Mutant of Granted: the client of the link before stays its initiator.
GrantedSameOwner(s, src, req) ==
  LET ind == [src |-> src, kind |-> req.kind, priority |-> req.priority]
  IN  IF req.kind = 2 /\ Indicates
      THEN Result(IF s.pending = None THEN [s EXCEPT !.pending = ind]
                  ELSE [s EXCEPT !.backlog = Append(@, ind)], {}, Tell("indication"))
      ELSE IF req.kind = 2 /\ req.sap \notin saps
      THEN Result(s, To("REJECTED", src), {})
      ELSE Result([s EXCEPT !.state = "ACTIVE", !.type = "HARD", !.remote = src,
                            !.rank = RankOf(src), !.priority = req.priority,
                            !.kind = req.kind],
                  To("CONFIRM", src), Tell("established"))

(* _handle_hard_link_request, for a request that has not lost: s is the    *)
(* session, cleared when it held a link the request wins over.             *)
Granted(s, src, req) ==
  LET ind == [src |-> src, kind |-> req.kind, priority |-> req.priority]
  IN  IF req.kind = 2 /\ Indicates
      THEN Result(IF s.pending = None THEN [s EXCEPT !.pending = ind]
                  ELSE [s EXCEPT !.backlog = Append(@, ind)], {}, Tell("indication"))
      ELSE IF req.kind = 2 /\ req.sap \notin saps
      THEN Result(s, To("REJECTED", src), {})
      ELSE Result([s EXCEPT !.state = "ACTIVE", !.type = "HARD", !.remote = src,
                            !.rank = RankOf(src), !.priority = req.priority,
                            !.kind = req.kind, !.initiator = None],
                  To("CONFIRM", src), Tell("established"))

(* _terminate_existing_hard_link, then the request.                        *)
Displaced(src, req) ==
  LET r == Granted(Ended(ses), src, req)
  IN  Result(r.ses,
             r.sent \cup (IF ses.remote = None THEN {} ELSE To("TERMINATE", ses.remote)),
             r.told \cup TellEach(ses) \cup Tell("terminated"))

RxRequest(src, req) ==
  IF ~HardActive THEN Granted(ses, src, req)
  ELSE IF Wins(RankOf(src), req.priority, req.kind) THEN Displaced(src, req)
  ELSE Result(ses, To("REJECTED", src), {})

(* _process_spdu_control: the other hard link S_PDUs.                      *)
RxConfirm ==
  IF ses.awaitResp
  THEN Result([ses EXCEPT !.awaitResp = FALSE, !.state = "ACTIVE"], {}, Tell("established"))
  ELSE Result(ses, {}, {})
RxRejected ==
  IF ses.awaitResp
  THEN Result([ses EXCEPT !.awaitResp = FALSE, !.state = "IDLE", !.type = "SOFT"], {},
              Tell("rejected"))
  ELSE Result(ses, {}, {})
\* Mutant of RxTerminate: only the clients of the link are told.
RxTerminateEach(src) == Result(Ended(ses), To("TERMINATE_CONFIRM", src), TellEach(ses))
RxTerminate(src) ==
  Result(Ended(ses), To("TERMINATE_CONFIRM", src), TellEach(ses) \cup Tell("terminated"))
RxTerminateConfirm ==
  IF ses.awaitTerm THEN Result(Ended(ses), {}, TellEach(ses) \cup Tell("terminated"))
  ELSE Result(ses, {}, {})

(* _deliver_to_sap: the answer to a U_PDU that came over the link is sent  *)
(* over the link.                                                          *)
RxData(src, d, viaArq) ==
  LET to == IF viaArq /\ view.state = "MADE" THEN view.remote ELSE src
      type == IF d.sap \in saps THEN "DELIVERY_CONFIRM" ELSE "DELIVERY_FAIL"
  IN  Result(ses,
             IF d.confirm THEN {[type |-> type, to |-> to, for |-> src]} ELSE {},
             IF d.sap \in saps THEN TellSap("unidata", d.sap) ELSE {})

Rx(spdu, src, viaArq) ==
  CASE spdu.type = "REQUEST"           -> RxRequest(src, spdu)
    [] spdu.type = "CONFIRM"           -> RxConfirm
    [] spdu.type = "REJECTED"          -> RxRejected
    [] spdu.type = "TERMINATE"         -> RxTerminate(src)
    [] spdu.type = "TERMINATE_CONFIRM" -> RxTerminateConfirm
    [] spdu.type = "DATA"              -> RxData(src, spdu, viaArq)
    [] spdu.type = "DELIVERY_CONFIRM"  -> Result(ses, {}, TellSap("request_confirm", spdu.sap))
    [] spdu.type = "DELIVERY_FAIL"     -> Result(ses, {}, TellSap("request_rejected", spdu.sap))
-----------------------------------------------------------------------------
(* The clients, between two ticks.                                         *)
Calls(s) == pc = "idle" /\ apis < MaxApi /\ apis' = apis + 1 /\ s \in Sap

(* make_link, which raises while a call or a break is under way, or when a *)
(* nonexclusive link meets an exclusive one.                               *)
MakeLink(r, exclusive) ==
  \/ MayCall(view) /\ view' = Calling(r)
  \/ /\ ~MayCall(view) \/ (OtherLinks /\ ~exclusive)
     /\ UNCHANGED view

Bind(s) ==
  /\ Calls(s) /\ s \notin saps
  /\ saps' = saps \cup {s}
  /\ sent' = {} /\ told' = {}
  /\ UNCHANGED <<pc, cas, weInit, deferred, ses, counts, queue, flowOn, inbox, asked, peers, rx>>

Unbind(s) ==
  /\ Calls(s) /\ s \in saps
  /\ saps' = saps \ {s}
  /\ sent' = {} /\ told' = {}
  /\ UNCHANGED <<pc, cas, weInit, deferred, ses, counts, queue, flowOn, inbox, asked, peers, rx>>

\* unidata_request, once the client is known to be bound.
Enqueue(upd) ==
  IF flowOn THEN queue' = Append(queue, upd) /\ told' = {}
  ELSE told' = TellSap("request_rejected", upd.sap) /\ UNCHANGED queue

UnidataRequest(s, r, mode, priority) ==
  /\ Calls(s) /\ s \in saps /\ Len(queue) < MaxQueue
  /\ Enqueue([sap |-> s, dest |-> r, mode |-> mode, priority |-> priority])
  /\ sent' = {}
  /\ UNCHANGED <<pc, cas, weInit, deferred, ses, saps, counts, flowOn, inbox, asked, peers, rx>>

(* expedited_unidata_request: a client with too many requests is unbound.  *)
ExpeditedRequest(s, r) ==
  /\ Calls(s) /\ s \in saps /\ Len(queue) < MaxQueue
  /\ sent' = {}
  /\ IF MaxExpedited > 0 /\ counts[s] = MaxExpedited
     THEN /\ saps' = saps \ {s} /\ counts' = [counts EXCEPT ![s] = 0]
          /\ told' = TellSap("unbind", s)
          /\ UNCHANGED queue
     ELSE /\ counts' = IF MaxExpedited = 0 THEN counts ELSE [counts EXCEPT ![s] = @ + 1]
          /\ Enqueue([sap |-> s, dest |-> r, mode |-> "EXPEDITED", priority |-> 0])
          /\ UNCHANGED saps
  /\ UNCHANGED <<pc, cas, weInit, deferred, ses, flowOn, inbox, asked, peers, rx>>

(* hard_link_establish: the session is filled in before the call is made.  *)
HardLinkEstablish(s, r, kind, priority) ==
  /\ Calls(s) /\ s \in saps
  /\ ses' = [ses EXCEPT !.state = "ESTABLISHING", !.type = "HARD", !.remote = r,
                        !.rank = Rank[s], !.initiator = s, !.priority = priority,
                        !.kind = kind]
  /\ weInit' = TRUE
  /\ MakeLink(r, TRUE)
  /\ asked' = [asked EXCEPT ![s] = r]
  /\ sent' = {} /\ told' = {}
  /\ UNCHANGED <<pc, prevDts, prevSis, deferred, clients, inbox, peers, rx>>

(* hard_link_terminate: only by the client that established the link; the  *)
(* node to tell is an argument, here the one the client knows of.          *)
HardLinkTerminate(s) ==
  /\ Calls(s) /\ s \in saps
  /\ ses.type = "HARD" /\ ses.initiator = s
  /\ ses' = [ses EXCEPT !.state = "TERMINATING", !.awaitTerm = TRUE]
  /\ sent' = To("TERMINATE", asked[s]) /\ told' = {}
  /\ UNCHANGED <<pc, cas, weInit, deferred, clients, inbox, asked, peers, rx>>

\* _promote_next_pending_indication, in a session with none pending.
Promoted(s) ==
  IF s.backlog = <<>> THEN s
  ELSE [s EXCEPT !.pending = Head(s.backlog), !.backlog = Tail(@)]
TellPromoted(s) == IF s.backlog = <<>> THEN {} ELSE Tell("indication")

(* hard_link_accept: local is the client that accepts, when it says so.    *)
HardLinkAccept(local) ==
  /\ pc = "idle" /\ apis < MaxApi /\ apis' = apis + 1
  /\ ses.pending # None
  /\ local \in saps \cup {None}
  /\ LET p == ses.pending
     IN  /\ ses' = Promoted([ses EXCEPT !.state = "ACTIVE", !.type = "HARD", !.remote = p.src,
                                        !.kind = p.kind, !.priority = p.priority,
                                        !.initiator = local, !.pending = None])
         /\ sent' = To("CONFIRM", p.src)
         /\ asked' = [s \in Sap |-> IF s = local THEN p.src ELSE asked[s]]
  /\ told' = Tell("established") \cup TellPromoted(ses)
  /\ UNCHANGED <<pc, cas, weInit, deferred, clients, inbox, peers, rx>>

HardLinkReject ==
  /\ pc = "idle" /\ apis < MaxApi /\ apis' = apis + 1
  /\ ses.pending # None
  /\ ses' = Promoted([ses EXCEPT !.pending = None])
  /\ sent' = To("REJECTED", ses.pending.src)
  /\ told' = TellPromoted(ses)
  /\ UNCHANGED <<pc, cas, weInit, deferred, clients, inbox, asked, peers, rx>>

(* data_flow_on, data_flow_off.                                            *)
SetFlow ==
  /\ pc = "idle" /\ apis < MaxApi /\ apis' = apis + 1
  /\ flowOn' = ~flowOn
  /\ sent' = {} /\ told' = {}
  /\ UNCHANGED <<pc, cas, weInit, deferred, ses, saps, counts, queue, inbox, asked, peers, rx>>

(* break_link, by the user of the node.                                    *)
BreakLink ==
  /\ pc = "idle" /\ apis < MaxApi /\ apis' = apis + 1
  /\ MayBreak(view) /\ view' = Breaking(view)
  /\ sent' = {} /\ told' = {}
  /\ UNCHANGED <<pc, prevDts, prevSis, weInit, deferred, ses, clients, inbox, asked, peers, rx>>
-----------------------------------------------------------------------------
(* The steps of a tick.                                                    *)
Step(from, to) == pc = from /\ pc' = to

Quiet == sent' = {} /\ told' = {}
SameSession == UNCHANGED <<weInit, deferred, ses, asked>>

TickStart ==
  /\ Step("idle", "arq") /\ Quiet
  /\ rx' = 0
  /\ UNCHANGED <<cas, clients, inbox, peers, apis>> /\ SameSession

Receives == rx < MaxRx /\ peers < MaxPeer /\ rx' = rx + 1 /\ peers' = peers + 1

(* Step 1: an S_PDU comes over the link (_on_arq_delivery,                 *)
(* _on_expedited_delivery), which _dispatch_rx_frame requires to be up.    *)
RxArq(spdu) ==
  /\ Step("arq", "arq") /\ Receives
  /\ view.state = "MADE"
  /\ arqIn' = Append(arqIn, spdu)
  /\ Quiet
  /\ UNCHANGED <<cas, clients, nonArqIn, apis>> /\ SameSession
RxArqDone ==
  /\ Step("arq", "nonarq") /\ Quiet
  /\ UNCHANGED <<cas, clients, inbox, bounds>> /\ SameSession

(* Step 2: an S_PDU of any node comes without a link; a control C_PDU of   *)
(* the Channel Access Sublayer is processed at once (_on_non_arq_delivery).*)
RxNonArq(src, spdu) ==
  /\ Step("nonarq", "nonarq") /\ Receives
  /\ nonArqIn' = Append(nonArqIn, [spdu |-> spdu, src |-> src])
  /\ Quiet
  /\ UNCHANGED <<cas, clients, arqIn, apis>> /\ SameSession
RxControl ==
  /\ Step("nonarq", "nonarq") /\ Receives
  /\ view' \in ByPeer(view)
  /\ Quiet
  /\ UNCHANGED <<prevDts, prevSis, clients, inbox, apis>> /\ SameSession
RxNonArqDone ==
  /\ Step("nonarq", "dtscas") /\ Quiet
  /\ UNCHANGED <<cas, clients, inbox, bounds>> /\ SameSession

(* Step 3, _dts_cas_transitions: what it does to the session.              *)
DtsCas ==
  /\ Step("dtscas", "castick") /\ Quiet
  /\ weInit' = (weInit \/ (view.state = "MADE" /\ prevDts = "CALLING"))
  /\ prevDts' = view.state
  /\ UNCHANGED <<view, prevSis, deferred, ses, clients, inbox, asked, bounds>>

(* Step 4, cas.tick.                                                       *)
CasTick ==
  /\ Step("castick", "spdus") /\ Quiet
  /\ view' \in ByTimer(view) \cup {view}
  /\ UNCHANGED <<prevDts, prevSis, clients, inbox, bounds>> /\ SameSession

\* The S_PDU is processed as coming from src.
Process(spdu, src, viaArq) ==
  /\ Step("spdus", "spdus")
  /\ LET r == Rx(spdu, src, viaArq)
     IN  ses' = r.ses /\ sent' = r.sent /\ told' = r.told
  /\ UNCHANGED <<cas, weInit, deferred, clients, asked, bounds>>

(* Step 6, _process_rx: the source is taken to be the node the link is     *)
(* with by now (_get_remote_addr).                                         *)
ProcessArq ==
  /\ arqIn # <<>>
  /\ Process(Head(arqIn), view.remote, TRUE)
  /\ arqIn' = Tail(arqIn) /\ UNCHANGED nonArqIn

(* Step 7, _process_non_arq_deliveries.                                    *)
ProcessNonArq ==
  /\ arqIn = <<>> /\ nonArqIn # <<>>
  /\ Process(Head(nonArqIn).spdu, Head(nonArqIn).src, FALSE)
  /\ nonArqIn' = Tail(nonArqIn) /\ UNCHANGED arqIn
ProcessDone ==
  /\ Step("spdus", "monitor") /\ arqIn = <<>> /\ nonArqIn = <<>>
  /\ Quiet
  /\ UNCHANGED <<cas, clients, inbox, bounds>> /\ SameSession

(* Step 8, _monitor_cas_transitions.                                       *)
Watch(changed) ==
  /\ Step("monitor", "deferred")
  /\ changed
  /\ prevSis' = view.state
  /\ UNCHANGED <<view, prevDts, saps, counts, flowOn, inbox, asked, bounds>>

(* _tx_queue once only the U_PDUs at these places are left.                *)
Kept(places) ==
  [k \in 1 .. Cardinality(places) |->
     queue[CHOOSE i \in places : Cardinality({j \in places : j <= i}) = k]]

IsArq(upd) == upd.mode = "ARQ"
NotArq(upd) == upd.mode # "ARQ"
\* _reject_all_pending.
TellRejected == UNION {TellSap("request_rejected", u.sap) : u \in {v \in Range(queue) : IsArq(v)}}
\* Mutant of RejectPending: every U_PDU goes, not only those for the link.
RejectEverything == queue' = <<>>
RejectPending == queue' = Kept({i \in DOMAIN queue : NotArq(queue[i])})

LinkMade == view.state = "MADE" /\ prevSis # "MADE"
\* Mutant of LinkLost: the end of a break is not looked for.
LinkLostWhenMade == prevSis = "MADE" /\ view.state \in {"IDLE", "FAILED"}
LinkLost == prevSis \in {"MADE", "BREAKING"} /\ view.state \in {"IDLE", "FAILED"}
CallFailed == prevSis = "CALLING" /\ view.state \in {"IDLE", "FAILED"}

SeesMade ==
  /\ Watch(LinkMade)
  /\ IF ses.type = "HARD" /\ weInit
     THEN deferred' = TRUE /\ told' = {} /\ UNCHANGED ses
     ELSE /\ ses' = [ses EXCEPT !.state = "ACTIVE"]
          /\ told' = IF ses.type = "HARD" THEN Tell("established") ELSE {}
          /\ UNCHANGED deferred
  /\ sent' = {}
  /\ UNCHANGED <<weInit, queue>>

SeesLost ==
  /\ Watch(LinkLost)
  /\ ses' = [ses EXCEPT !.state = "IDLE", !.type = "SOFT", !.pending = None]
  /\ weInit' = FALSE /\ deferred' = FALSE
  /\ IF view.state = "FAILED" THEN RejectPending ELSE UNCHANGED queue
  /\ told' = (IF view.state = "FAILED" THEN TellRejected ELSE {})
             \cup (IF ses.type = "HARD" THEN Tell("terminated") ELSE {})
  /\ sent' = {}

SeesCallFailed ==
  /\ Watch(CallFailed)
  /\ IF ses.state = "ESTABLISHING"
     THEN ses' = [ses EXCEPT !.state = "IDLE"] /\ RejectPending /\ told' = TellRejected
     ELSE told' = {} /\ UNCHANGED <<ses, queue>>
  /\ sent' = {}
  /\ UNCHANGED <<weInit, deferred>>

SeesNothing ==
  /\ Watch(~LinkMade /\ ~LinkLost /\ ~CallFailed)
  /\ Quiet
  /\ UNCHANGED <<weInit, deferred, ses, queue>>

(* Step 9: the request of a hard link waits for the ARQ engine to be reset *)
(* (arq.reset_pending), which may be so at any time.                       *)
SendRequest ==
  /\ Step("deferred", "timeouts")
  /\ deferred /\ deferred' = FALSE
  /\ ses' = [ses EXCEPT !.awaitResp = TRUE]
  /\ sent' = To("REQUEST", ses.remote) /\ told' = {}
  /\ UNCHANGED <<cas, weInit, clients, inbox, asked, bounds>>
RequestWaits ==
  /\ Step("deferred", "timeouts") /\ Quiet
  /\ UNCHANGED <<cas, clients, inbox, bounds>> /\ SameSession

(* Step 10, _check_hard_link_timeouts.                                     *)
Timeout(s, event) ==
  /\ Step("timeouts", "timeouts")
  /\ ses' = [s EXCEPT !.state = "IDLE", !.type = "SOFT"]
  /\ told' = Tell(event) /\ sent' = {}
  /\ UNCHANGED <<cas, weInit, deferred, clients, inbox, asked, bounds>>
ResponseTimeout == ses.awaitResp /\ Timeout([ses EXCEPT !.awaitResp = FALSE], "rejected")
TerminateTimeout == ses.awaitTerm /\ Timeout([ses EXCEPT !.awaitTerm = FALSE], "terminated")
TimeoutsDone ==
  /\ Step("timeouts", "purge") /\ Quiet
  /\ UNCHANGED <<cas, clients, inbox, bounds>> /\ SameSession

(* Step 11, _purge_expired.                                                *)
Expire(i) ==
  /\ Step("purge", "purge")
  /\ i \in DOMAIN queue
  /\ queue' = RemoveAt(queue, i)
  /\ told' = TellSap("request_rejected", queue[i].sap) /\ sent' = {}
  /\ UNCHANGED <<cas, saps, counts, flowOn, inbox, bounds>> /\ SameSession
PurgeDone ==
  /\ Step("purge", "dispatch") /\ Quiet
  /\ UNCHANGED <<cas, clients, inbox, bounds>> /\ SameSession

(* Step 12, _dispatch_tx.  An expedited U_PDU goes to the expedited        *)
(* engine, which finds out where to send it when it does.                  *)
Before(u, v) ==
  LET rank(x) == IF x.sap \in saps THEN Rank[x.sap] ELSE 0
  IN  u.priority > v.priority \/ (u.priority = v.priority /\ rank(u) > rank(v))
\* _pick_next_tx: the first of the U_PDUs that no other comes before.
Picked(i) ==
  /\ IsArq(queue[i])
  /\ \A j \in DOMAIN queue \ {i} : IsArq(queue[j]) =>
       /\ ~Before(queue[j], queue[i])
       /\ j < i => Before(queue[i], queue[j])
DispatchArq == ses.state = "ACTIVE" /\ view.state = "MADE"
Leaves(i) ==
  \/ queue[i].mode = "NON_ARQ"
  \/ queue[i].mode = "EXPEDITED" /\ ses.state = "ACTIVE"
  \/ DispatchArq /\ Picked(i)
Sending(u) ==
  [type |-> u.mode, for |-> u.dest,
   to |-> CASE u.mode = "NON_ARQ" -> u.dest [] u.mode = "ARQ" -> view.remote [] OTHER -> None]

Dispatch ==
  /\ Step("dispatch", "softlink")
  /\ IF flowOn
     THEN LET stays == {i \in DOMAIN queue : ~Leaves(i)}
          IN  /\ queue' = Kept(stays)
              /\ sent' = {Sending(queue[i]) : i \in DOMAIN queue \ stays}
     ELSE sent' = {} /\ UNCHANGED queue
  /\ told' = {}
  /\ UNCHANGED <<cas, saps, counts, flowOn, inbox, bounds>> /\ SameSession

(* Step 13, _manage_soft_link.                                             *)
ArqPending == \E i \in DOMAIN queue : IsArq(queue[i])
NeedsLink == ArqPending /\ ses.state = "IDLE"
SoftIdle == ses.state = "ACTIVE" /\ ses.type = "SOFT" /\ weInit /\ ~ArqPending

MakeSoftLink ==
  /\ Step("softlink", "idle") /\ Quiet
  /\ NeedsLink /\ view.state \in {"IDLE", "FAILED"}
  /\ LET dest == queue[SelectInSeq(queue, IsArq)].dest
     IN  /\ ses' = [ses EXCEPT !.state = "ESTABLISHING", !.type = "SOFT", !.remote = dest]
         /\ MakeLink(dest, FALSE)
  /\ weInit' = TRUE
  /\ UNCHANGED <<prevDts, prevSis, deferred, clients, inbox, asked, bounds>>
BreakSoftLink ==
  /\ Step("softlink", "idle") /\ Quiet
  /\ SoftIdle
  /\ ses' = [ses EXCEPT !.state = "TERMINATING"]
  /\ view' = IF MayBreak(view) THEN Breaking(view) ELSE view
  /\ UNCHANGED <<prevDts, prevSis, weInit, deferred, clients, inbox, asked, bounds>>
KeepSoftLink ==
  /\ Step("softlink", "idle") /\ Quiet
  /\ ~(NeedsLink /\ view.state \in {"IDLE", "FAILED"})
  /\ UNCHANGED <<cas, clients, inbox, bounds>> /\ SameSession
-----------------------------------------------------------------------------
Client(s) ==
  \/ Bind(s) \/ Unbind(s) \/ HardLinkTerminate(s)
  \/ \E r \in Node :
       \/ \E mode \in {"ARQ", "NON_ARQ"}, p \in Priority : UnidataRequest(s, r, mode, p)
       \/ ExpeditedRequest(s, r)
       \/ \E k \in LinkKind, p \in Priority : HardLinkEstablish(s, r, k, p)

Receive ==
  \/ \E m \in {spdu \in Spdu : spdu.type \in Heard} : RxArq(m) \/ \E r \in Node : RxNonArq(r, m)
  \/ RxControl

Tick ==
  \/ TickStart \/ RxArqDone \/ RxNonArqDone \/ DtsCas \/ CasTick
  \/ ProcessArq \/ ProcessNonArq \/ ProcessDone
  \/ SeesMade \/ SeesLost \/ SeesCallFailed \/ SeesNothing
  \/ SendRequest \/ RequestWaits
  \/ ResponseTimeout \/ TerminateTimeout \/ TimeoutsDone
  \/ \E i \in 1 .. MaxQueue : Expire(i)
  \/ PurgeDone \/ Dispatch \/ MakeSoftLink \/ BreakSoftLink \/ KeepSoftLink

Next ==
  \/ \E s \in Sap : Client(s)
  \/ \E local \in Sap \cup {None} : HardLinkAccept(local)
  \/ HardLinkReject \/ SetFlow \/ BreakLink
  \/ Receive \/ Tick

Spec == Init /\ [][Next]_vars
-----------------------------------------------------------------------------
(* Only the client that asked for the hard link there is, or accepted it,  *)
(* can terminate it, through crossed requests, rejections and timeouts     *)
(* (hard_link_terminate, local_initiator_sap).                             *)
InitiatorAsked ==
  \A s \in Sap : HardActive /\ ses.initiator = s => asked[s] = ses.remote

IsUp(s) == s \in {"MADE", "BREAKING"}

(* A soft session does not outlive the link the node saw, whoever broke it *)
(* and whatever came in meanwhile: U_PDUs would be handed to a link that   *)
(* nobody will call again (_monitor_cas_transitions, _manage_soft_link).   *)
SoftLinkEnds ==
  [][IsUp(prevSis) /\ ~IsUp(prevSis') => ~(ses.state = "ACTIVE" /\ ses.type = "SOFT")']_vars

(* A U_PDU leaves the queue for an engine or with word to its client,      *)
(* whatever calls fail and links break (_dispatch_tx, _purge_expired,      *)
(* _reject_all_pending).                                                   *)
UpdusAreAccounted ==
  [][\A i \in DOMAIN queue : queue[i] \notin Range(queue') =>
       \/ [event |-> "request_rejected", sap |-> queue[i].sap] \in told'
       \/ Sending(queue[i]) \in sent']_vars

IsTold(event) == [event |-> event, sap |-> None] \in told

(* No hard link, no request and no termination goes away silently: the    *)
(* clients hear of the answer, of a timeout, or of the end of the link     *)
(* (_process_spdu_control, _monitor_cas_transitions,                       *)
(* _check_hard_link_timeouts).                                             *)
NoSilentEnd ==
  [][/\ ses.awaitResp /\ ~ses'.awaitResp =>
          (IsTold("established") \/ IsTold("rejected") \/ IsTold("terminated"))'
     /\ ses.awaitTerm /\ ~ses'.awaitTerm => IsTold("terminated")'
     /\ HardActive /\ ses'.state = "IDLE" => (IsTold("rejected") \/ IsTold("terminated"))']_vars

(* A U_PDU handed to the ARQ engine goes to the node it is addressed to    *)
(* (unidata_request, _dispatch_tx).                                        *)
GoesToItsNode == [][\A m \in sent' : m.type = "ARQ" => m.to = m.for]_vars
=============================================================================
