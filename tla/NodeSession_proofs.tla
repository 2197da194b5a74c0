-------------------------- MODULE NodeSession_proofs --------------------------
(***************************************************************************)
(* What NodeSession guarantees of the session of a node, for any set of    *)
(* nodes and clients and any bounds: the types of its state, who owns a    *)
(* hard link, that no session outlives the link it was for, that nothing   *)
(* ends silently and that no U_PDU is lost.                                *)
(***************************************************************************)
EXTENDS NodeSession, FiniteSetTheorems, SequenceTheorems, TLAPS

USE SessionAssumption

Fields == {"state", "type", "remote", "rank", "priority", "kind", "initiator", "awaitResp",
           "awaitTerm", "pending", "backlog"}
IsSession(s) == s = [f \in Fields |-> s[f]]

(* The client a hard link is for has asked for it or accepted it, whatever *)
(* the state of the link.                                                  *)
OwnerAsked ==
  /\ asked = [s \in Sap |-> asked[s]]
  /\ \A s \in Sap : ses.type = "HARD" /\ ses.initiator = s => asked[s] = ses.remote

(* From the time the monitor has looked until the tick ends, the primary   *)
(* link does not change.                                                   *)
Watched == {"deferred", "timeouts", "purge", "dispatch", "softlink"}
MonitorKnows == pc \in Watched => prevSis = view.state

(* A session that would take an answer for a link, or have one, is a hard  *)
(* one while the node calls anew before it has seen its old link go: the   *)
(* monitor, which looks for a link that is down, would not end it.         *)
Settled(s) == s.type = "HARD" \/ (s.state # "ACTIVE" /\ ~s.awaitResp)
NewCallIsHard == IsUp(prevSis) /\ view.state = "CALLING" => Settled(ses)

IInv == IsSession(ses) /\ OwnerAsked /\ MonitorKnows /\ NewCallIsHard

(* The steps SoftLinkEnds and NoSilentEnd speak of.                        *)
SoftStep == IsUp(prevSis) /\ ~IsUp(prevSis') => ~(ses.state = "ACTIVE" /\ ses.type = "SOFT")'
Tells(s, t, news) ==
  LET IsSaid(event) == [event |-> event, sap |-> None] \in news
  IN  /\ s.awaitResp /\ ~t.awaitResp =>
           IsSaid("established") \/ IsSaid("rejected") \/ IsSaid("terminated")
      /\ s.awaitTerm /\ ~t.awaitTerm => IsSaid("terminated")
      /\ s.type = "HARD" /\ s.state = "ACTIVE" /\ t.state = "IDLE" =>
           IsSaid("rejected") \/ IsSaid("terminated")

Good == IInv' /\ SoftStep /\ Tells(ses, ses', told')

(* What a session may become without a call of a client: a hard link gets  *)
(* no other owner, and a settled session stays settled.                    *)
Named(s, t) ==
  /\ IsSession(t)
  /\ \A x \in Sap : t.type = "HARD" /\ t.initiator = x =>
       s.type = "HARD" /\ s.initiator = x /\ t.remote = s.remote
Sound(s, t, news) == Named(s, t) /\ (Settled(s) => Settled(t)) /\ Tells(s, t, news)

-----------------------------------------------------------------------------
(* Two ways to a good step: one the monitor does not take part in, and the *)
(* step of the monitor.                                                    *)
LEMMA SoundStep ==
  ASSUME IInv, Sound(ses, ses', told'), UNCHANGED <<asked, prevSis>>,
         view' = view \/ view'.state # "CALLING",
         pc' \in Watched => pc \in Watched /\ view' = view
  PROVE  Good
<1>1. IsSession(ses') /\ Tells(ses, ses', told')
  BY DEF Sound, Named
<1>2. OwnerAsked'
  BY DEF IInv, OwnerAsked, Sound, Named
<1>3. MonitorKnows'
  BY DEF IInv, MonitorKnows
<1>4. NewCallIsHard'
  BY DEF IInv, NewCallIsHard, Sound
<1>5. SoftStep
  BY DEF SoftStep
<1> QED BY <1>1, <1>2, <1>3, <1>4, <1>5 DEF Good, IInv

LEMMA WatchStep ==
  ASSUME IInv, NEW changed, Watch(changed), Named(ses, ses'), Tells(ses, ses', told'),
         IsUp(prevSis) /\ ~IsUp(view.state) => ~(ses'.state = "ACTIVE" /\ ses'.type = "SOFT")
  PROVE  Good
<1>1. prevSis' = view.state /\ UNCHANGED <<view, asked>>
  BY DEF Watch
<1>2. OwnerAsked'
  BY <1>1 DEF IInv, OwnerAsked, Named
<1>3. MonitorKnows'
  BY <1>1 DEF MonitorKnows
<1>4. NewCallIsHard'
  BY <1>1 DEF NewCallIsHard, IsUp
<1>5. SoftStep
  BY <1>1 DEF SoftStep
<1> QED BY <1>2, <1>3, <1>4, <1>5 DEF Good, IInv, Named

LEMMA SameSound == ASSUME NEW s, IsSession(s), NEW news PROVE Sound(s, s, news)
BY DEF Sound, Named, Tells

LEMMA QuietStep ==
  ASSUME IInv, UNCHANGED <<ses, asked, prevSis>>,
         view' = view \/ view'.state # "CALLING",
         pc' \in Watched => pc \in Watched /\ view' = view
  PROVE  Good
<1>1. Sound(ses, ses', told')
  BY SameSound DEF IInv
<1> QED BY <1>1, SoundStep

-----------------------------------------------------------------------------
(* The handlers of S_PDUs.                                                 *)
LEMMA EndedSession ==
  ASSUME NEW s
  PROVE  /\ IsSession(Ended(s)) /\ Ended(s).type = "SOFT" /\ Ended(s).state = "IDLE"
         /\ Ended(s).awaitResp = FALSE
BY DEF IsSession, Ended, NoSession, Fields

LEMMA EndedSound ==
  ASSUME NEW s, NEW news, [event |-> "terminated", sap |-> None] \in news
  PROVE  Sound(s, Ended(s), news)
BY EndedSession DEF Sound, Named, Settled, Tells

(* A hard link granted to another node is for no client of this one.       *)
LEMMA GrantedSession ==
  ASSUME NEW s, IsSession(s), NEW src, NEW req
  PROVE  LET t == Granted(s, src, req).ses
         IN  /\ Named(s, t)
             /\ Settled(s) => Settled(t)
             /\ t.awaitResp = s.awaitResp /\ t.awaitTerm = s.awaitTerm
             /\ t.state \in {s.state, "ACTIVE"}
<1> DEFINE ind == [src |-> src, kind |-> req.kind, priority |-> req.priority]
           first == [s EXCEPT !.pending = ind]
           later == [s EXCEPT !.backlog = Append(s.backlog, ind)]
           up == [s EXCEPT !.state = "ACTIVE", !.type = "HARD", !.remote = src, !.rank = RankOf(src),
                           !.priority = req.priority, !.kind = req.kind, !.initiator = None]
           Fine(t) == /\ Named(s, t)
                      /\ Settled(s) => Settled(t)
                      /\ t.awaitResp = s.awaitResp /\ t.awaitTerm = s.awaitTerm
                      /\ t.state \in {s.state, "ACTIVE"}
<1>1. Fine(first)
  BY DEF IsSession, Fields, Named, Settled
<1>2. Fine(later)
  BY DEF IsSession, Fields, Named, Settled
<1>3. Fine(up)
  <2>1. up.initiator = None /\ up.type = "HARD" /\ up.state = "ACTIVE"
          /\ up.awaitResp = s.awaitResp /\ up.awaitTerm = s.awaitTerm /\ IsSession(up)
    BY DEF IsSession, Fields
  <2> HIDE DEF up
  <2> QED BY <2>1 DEF Named, Settled
<1>4. Fine(s)
  BY DEF Named
<1>5. Granted(s, src, req).ses \in {first, later, up, s}
  BY DEF Granted, Result
<1> HIDE DEF first, later, up
<1> QED BY <1>1, <1>2, <1>3, <1>4, <1>5

LEMMA RequestSound ==
  ASSUME IsSession(ses), NEW src, NEW req
  PROVE  Sound(ses, RxRequest(src, req).ses, RxRequest(src, req).told)
<1>1. CASE ~HardActive
  <2>1. RxRequest(src, req) = Granted(ses, src, req)
    BY <1>1 DEF RxRequest
  <2> QED BY <1>1, <2>1, GrantedSession DEF Sound, Tells, HardActive
<1>2. CASE HardActive /\ Wins(RankOf(src), req.priority, req.kind)
  <2> DEFINE t == Granted(Ended(ses), src, req).ses
  <2>1. RxRequest(src, req) = Displaced(src, req)
    BY <1>2 DEF RxRequest
  <2>2. /\ RxRequest(src, req).ses = t
        /\ [event |-> "terminated", sap |-> None] \in RxRequest(src, req).told
    BY <2>1 DEF Displaced, Result, Tell
  <2>3. Settled(Ended(ses)) /\ IsSession(Ended(ses))
    BY EndedSession DEF Settled
  <2>4. Named(Ended(ses), t) /\ Settled(t)
    BY <2>3, GrantedSession
  <2> HIDE DEF t
  <2>5. Named(ses, t)
    BY <2>4, EndedSession DEF Named
  <2> QED BY <2>2, <2>4, <2>5 DEF Sound, Tells
<1>3. CASE HardActive /\ ~Wins(RankOf(src), req.priority, req.kind)
  <2>1. RxRequest(src, req).ses = ses
    BY <1>3 DEF RxRequest, Result
  <2> QED BY <2>1, SameSound
<1> QED BY <1>1, <1>2, <1>3

LEMMA ConfirmSound == ASSUME IsSession(ses) PROVE Sound(ses, RxConfirm.ses, RxConfirm.told)
<1> DEFINE t == [ses EXCEPT !.awaitResp = FALSE, !.state = "ACTIVE"]
<1>1. CASE ses.awaitResp
  <2>1. RxConfirm.ses = t /\ [event |-> "established", sap |-> None] \in RxConfirm.told
    BY <1>1 DEF RxConfirm, Result, Tell
  <2>2. /\ IsSession(t) /\ t.awaitResp = FALSE /\ t.awaitTerm = ses.awaitTerm /\ t.state = "ACTIVE"
        /\ t.type = ses.type /\ t.initiator = ses.initiator /\ t.remote = ses.remote
    BY DEF IsSession, Fields
  <2> HIDE DEF t
  <2> QED BY <1>1, <2>1, <2>2 DEF Sound, Named, Settled, Tells
<1>2. CASE ~ses.awaitResp
  <2>1. RxConfirm.ses = ses
    BY <1>2 DEF RxConfirm, Result
  <2> QED BY <2>1, SameSound
<1> QED BY <1>1, <1>2

LEMMA RejectedSound == ASSUME IsSession(ses) PROVE Sound(ses, RxRejected.ses, RxRejected.told)
<1> DEFINE t == [ses EXCEPT !.awaitResp = FALSE, !.state = "IDLE", !.type = "SOFT"]
<1>1. CASE ses.awaitResp
  <2>1. RxRejected.ses = t /\ [event |-> "rejected", sap |-> None] \in RxRejected.told
    BY <1>1 DEF RxRejected, Result, Tell
  <2>2. /\ IsSession(t) /\ t.awaitResp = FALSE /\ t.awaitTerm = ses.awaitTerm
        /\ t.state = "IDLE" /\ t.type = "SOFT"
    BY DEF IsSession, Fields
  <2> HIDE DEF t
  <2> QED BY <2>1, <2>2 DEF Sound, Named, Settled, Tells
<1>2. CASE ~ses.awaitResp
  <2>1. RxRejected.ses = ses
    BY <1>2 DEF RxRejected, Result
  <2> QED BY <2>1, SameSound
<1> QED BY <1>1, <1>2

LEMMA RxSound ==
  ASSUME IsSession(ses), NEW spdu \in Spdu, NEW src, NEW viaArq
  PROVE  Sound(ses, Rx(spdu, src, viaArq).ses, Rx(spdu, src, viaArq).told)
<1> DEFINE r == Rx(spdu, src, viaArq)
<1>1. CASE spdu.type = "REQUEST"
  BY <1>1, RequestSound DEF Rx
<1>2. CASE spdu.type = "CONFIRM"
  BY <1>2, ConfirmSound DEF Rx
<1>3. CASE spdu.type = "REJECTED"
  BY <1>3, RejectedSound DEF Rx
<1>4. CASE spdu.type = "TERMINATE"
  <2>1. r.ses = Ended(ses) /\ [event |-> "terminated", sap |-> None] \in r.told
    BY <1>4 DEF Rx, RxTerminate, Result, Tell
  <2> QED BY <2>1, EndedSound
<1>5. CASE spdu.type = "TERMINATE_CONFIRM"
  <2>1. CASE ses.awaitTerm
    <3>1. r.ses = Ended(ses) /\ [event |-> "terminated", sap |-> None] \in r.told
      BY <1>5, <2>1 DEF Rx, RxTerminateConfirm, Result, Tell
    <3> QED BY <3>1, EndedSound
  <2>2. CASE ~ses.awaitTerm
    <3>1. r.ses = ses
      BY <1>5, <2>2 DEF Rx, RxTerminateConfirm, Result
    <3> QED BY <3>1, SameSound
  <2> QED BY <2>1, <2>2
<1>6. CASE spdu.type \in {"DATA", "DELIVERY_CONFIRM", "DELIVERY_FAIL"}
  <2>1. r.ses = ses
    BY <1>6 DEF Rx, RxData, Result
  <2> QED BY <2>1, SameSound
<1>7. spdu.type \in {"REQUEST", "CONFIRM", "REJECTED", "TERMINATE", "TERMINATE_CONFIRM", "DATA",
                     "DELIVERY_CONFIRM", "DELIVERY_FAIL"}
  BY DEF Spdu
<1> QED BY <1>1, <1>2, <1>3, <1>4, <1>5, <1>6, <1>7

(* What comes from outside: the view of the link, and what has come in and *)
(* is not processed yet.                                                   *)
InputType ==
  /\ view.state \in CasState
  /\ arqIn \in Seq(Spdu) /\ nonArqIn \in Seq([spdu : Spdu, src : Node])

-----------------------------------------------------------------------------
(* The calls of the clients.                                               *)
LEMMA SameCalls ==
  ASSUME IInv, NEW s, NEW r,
         \/ Bind(s) \/ Unbind(s) \/ ExpeditedRequest(s, r) \/ SetFlow \/ BreakLink
         \/ \E mode, priority : UnidataRequest(s, r, mode, priority)
  PROVE  Good
<1>1. UNCHANGED <<ses, asked, prevSis, pc>> /\ pc = "idle"
  BY DEF Bind, Unbind, ExpeditedRequest, SetFlow, BreakLink, UnidataRequest, Calls, cas
<1>2. view' = view \/ view'.state # "CALLING"
  <2>1. CASE BreakLink
    BY <2>1 DEF BreakLink, Breaking, Seen
  <2>2. CASE ~BreakLink
    BY <2>2 DEF Bind, Unbind, ExpeditedRequest, SetFlow, UnidataRequest, cas
  <2> QED BY <2>1, <2>2
<1> QED BY <1>1, <1>2, QuietStep DEF Watched

LEMMA HardLinkEstablishStep ==
  ASSUME IInv, NEW s \in Sap, NEW r, NEW kind, NEW priority, HardLinkEstablish(s, r, kind, priority)
  PROVE  Good
<1> DEFINE t == [ses EXCEPT !.state = "ESTABLISHING", !.type = "HARD", !.remote = r, !.rank = Rank[s],
                            !.initiator = s, !.priority = priority, !.kind = kind]
<1>1. ses' = t /\ asked' = [asked EXCEPT ![s] = r] /\ prevSis' = prevSis /\ pc' = pc /\ pc = "idle"
  BY DEF HardLinkEstablish, Calls
<1>2. /\ IsSession(t) /\ t.state = "ESTABLISHING" /\ t.type = "HARD" /\ t.remote = r /\ t.initiator = s
      /\ t.awaitResp = ses.awaitResp /\ t.awaitTerm = ses.awaitTerm
  BY DEF IInv, IsSession, Fields
<1> HIDE DEF t
<1>3. OwnerAsked'
  BY <1>1, <1>2 DEF IInv, OwnerAsked
<1>4. MonitorKnows' /\ NewCallIsHard' /\ SoftStep
  BY <1>1, <1>2 DEF MonitorKnows, Watched, NewCallIsHard, Settled, SoftStep
<1>5. Tells(ses, ses', told')
  BY <1>1, <1>2 DEF Tells
<1> QED BY <1>1, <1>2, <1>3, <1>4, <1>5 DEF Good, IInv

LEMMA HardLinkTerminateStep == ASSUME IInv, NEW s, HardLinkTerminate(s) PROVE Good
<1> DEFINE t == [ses EXCEPT !.state = "TERMINATING", !.awaitTerm = TRUE]
<1>1. ses' = t /\ UNCHANGED <<asked, prevSis, view, pc>> /\ ses.type = "HARD"
  BY DEF HardLinkTerminate, cas
<1>2. /\ IsSession(t) /\ t.state = "TERMINATING" /\ t.type = ses.type /\ t.remote = ses.remote
      /\ t.initiator = ses.initiator /\ t.awaitResp = ses.awaitResp /\ t.awaitTerm = TRUE
  BY DEF IInv, IsSession, Fields
<1> HIDE DEF t
<1>3. Sound(ses, t, told')
  BY <1>1, <1>2 DEF Sound, Named, Settled, Tells
<1> QED BY <1>1, <1>3, SoundStep

LEMMA PromotedSession ==
  ASSUME NEW s, IsSession(s)
  PROVE  /\ IsSession(Promoted(s)) /\ Promoted(s).state = s.state /\ Promoted(s).type = s.type
         /\ Promoted(s).remote = s.remote /\ Promoted(s).initiator = s.initiator
         /\ Promoted(s).awaitResp = s.awaitResp /\ Promoted(s).awaitTerm = s.awaitTerm
<1> DEFINE t == [s EXCEPT !.pending = Head(s.backlog), !.backlog = Tail(s.backlog)]
<1>1. Promoted(s) = s \/ Promoted(s) = t
  BY DEF Promoted
<1>2. /\ IsSession(t) /\ t.state = s.state /\ t.type = s.type /\ t.remote = s.remote
      /\ t.initiator = s.initiator /\ t.awaitResp = s.awaitResp /\ t.awaitTerm = s.awaitTerm
  BY DEF IsSession, Fields
<1> HIDE DEF t
<1> QED BY <1>1, <1>2

LEMMA HardLinkAcceptStep ==
  ASSUME IInv, NEW local \in Sap \cup {None}, HardLinkAccept(local) PROVE Good
<1> DEFINE p == ses.pending
           u == [ses EXCEPT !.state = "ACTIVE", !.type = "HARD", !.remote = p.src, !.kind = p.kind,
                            !.priority = p.priority, !.initiator = local, !.pending = None]
<1>1. /\ ses' = Promoted(u) /\ asked' = [s \in Sap |-> IF s = local THEN p.src ELSE asked[s]]
      /\ UNCHANGED <<prevSis, view, pc>> /\ pc = "idle"
  BY DEF HardLinkAccept, cas
<1>2. /\ IsSession(u) /\ u.state = "ACTIVE" /\ u.type = "HARD" /\ u.remote = p.src
      /\ u.initiator = local /\ u.awaitResp = ses.awaitResp /\ u.awaitTerm = ses.awaitTerm
  BY DEF IInv, IsSession, Fields
<1> HIDE DEF u, p
<1>3. /\ IsSession(ses') /\ ses'.state = "ACTIVE" /\ ses'.type = "HARD" /\ ses'.remote = p.src
      /\ ses'.initiator = local /\ ses'.awaitResp = ses.awaitResp /\ ses'.awaitTerm = ses.awaitTerm
  BY <1>1, <1>2, PromotedSession
<1>4. OwnerAsked'
  BY <1>1, <1>3 DEF OwnerAsked
<1>5. MonitorKnows' /\ NewCallIsHard' /\ SoftStep
  BY <1>1, <1>3 DEF MonitorKnows, Watched, NewCallIsHard, Settled, SoftStep
<1>6. Tells(ses, ses', told')
  BY <1>3 DEF Tells
<1> QED BY <1>3, <1>4, <1>5, <1>6 DEF Good, IInv

LEMMA HardLinkRejectStep == ASSUME IInv, HardLinkReject PROVE Good
<1> DEFINE u == [ses EXCEPT !.pending = None]
<1>1. ses' = Promoted(u) /\ UNCHANGED <<asked, prevSis, view, pc>>
  BY DEF HardLinkReject, cas
<1>2. /\ IsSession(u) /\ u.state = ses.state /\ u.type = ses.type /\ u.remote = ses.remote
      /\ u.initiator = ses.initiator /\ u.awaitResp = ses.awaitResp /\ u.awaitTerm = ses.awaitTerm
  BY DEF IInv, IsSession, Fields
<1> HIDE DEF u
<1>3. /\ IsSession(ses') /\ ses'.state = ses.state /\ ses'.type = ses.type /\ ses'.remote = ses.remote
      /\ ses'.initiator = ses.initiator /\ ses'.awaitResp = ses.awaitResp /\ ses'.awaitTerm = ses.awaitTerm
  BY <1>1, <1>2, PromotedSession
<1>4. Sound(ses, ses', told')
  BY <1>3 DEF Sound, Named, Settled, Tells
<1> QED BY <1>1, <1>4, SoundStep
-----------------------------------------------------------------------------
(* The steps of a tick.                                                    *)
LEMMA ByPeerNeverCalls == ASSUME NEW v, NEW w \in ByPeer(v) PROVE w.state # "CALLING"
BY DEF ByPeer, Seen, Idle

LEMMA ByTimerNeverCalls == ASSUME NEW v, NEW w \in ByTimer(v) PROVE w.state # "CALLING"
BY DEF ByTimer, Seen, Idle

(* Before the monitor: only the view may change.                           *)
LEMMA EarlyStep ==
  ASSUME IInv,
         \/ TickStart \/ RxArqDone \/ RxControl \/ RxNonArqDone \/ DtsCas \/ CasTick \/ ProcessDone
         \/ \E m : RxArq(m)
         \/ \E m, r : RxNonArq(r, m)
  PROVE  Good
<1>1. UNCHANGED <<ses, asked, prevSis>>
  BY DEF TickStart, RxArq, RxArqDone, RxNonArq, RxControl, RxNonArqDone, DtsCas, CasTick, ProcessDone,
         SameSession, cas
<1>2. pc' \notin Watched
  BY DEF TickStart, RxArq, RxArqDone, RxNonArq, RxControl, RxNonArqDone, DtsCas, CasTick, ProcessDone,
         Step, Watched
<1>3. view' = view \/ view'.state # "CALLING"
  <2>1. CASE RxControl
    BY <2>1, ByPeerNeverCalls DEF RxControl
  <2>2. CASE CasTick
    BY <2>2, ByTimerNeverCalls DEF CasTick
  <2>3. CASE ~RxControl /\ ~CasTick
    BY <2>3 DEF TickStart, RxArq, RxArqDone, RxNonArq, RxNonArqDone, DtsCas, ProcessDone, cas
  <2> QED BY <2>1, <2>2, <2>3
<1> QED BY <1>1, <1>2, <1>3, QuietStep

LEMMA ProcessStep ==
  ASSUME IInv, NEW spdu \in Spdu, NEW src, NEW viaArq, Process(spdu, src, viaArq)
  PROVE  Good
<1>1. /\ ses' = Rx(spdu, src, viaArq).ses /\ told' = Rx(spdu, src, viaArq).told
      /\ UNCHANGED <<asked, prevSis, view>> /\ pc' = "spdus"
  BY DEF Process, Step, cas
<1>2. Sound(ses, ses', told')
  BY <1>1, RxSound DEF IInv
<1>3. pc' \notin Watched
  BY <1>1 DEF Watched
<1> QED BY <1>1, <1>2, <1>3, SoundStep

LEMMA ProcessAnyStep == ASSUME IInv, InputType, ProcessArq \/ ProcessNonArq PROVE Good
<1>1. CASE ProcessArq
  <2>1. Head(arqIn) \in Spdu
    BY <1>1 DEF ProcessArq, InputType
  <2> QED BY <1>1, <2>1, ProcessStep DEF ProcessArq
<1>2. CASE ProcessNonArq
  <2>1. Head(nonArqIn) \in [spdu : Spdu, src : Node]
    <3> DEFINE S == [spdu : Spdu, src : Node]
    <3>1. nonArqIn \in Seq(S) /\ nonArqIn # <<>>
      BY <1>2 DEF ProcessNonArq, InputType
    <3> HIDE DEF S
    <3>2. Head(nonArqIn) \in S
      BY <3>1
    <3> QED BY <3>2 DEF S
  <2>2. Head(nonArqIn).spdu \in Spdu
    BY <2>1
  <2> QED BY <1>2, <2>2, ProcessStep DEF ProcessNonArq
<1> QED BY <1>1, <1>2

(* What the monitor sees, one lemma for each case.                         *)
LEMMA SeesMadeStep == ASSUME IInv, SeesMade PROVE Good
<1> DEFINE up == [ses EXCEPT !.state = "ACTIVE"]
<1>1. Watch(LinkMade) /\ view.state = "MADE"
  BY DEF SeesMade, Watch, LinkMade
<1>2. ses' = ses \/ ses' = up
  BY DEF SeesMade
<1>3. /\ IsSession(up) /\ up.state = "ACTIVE" /\ up.type = ses.type /\ up.remote = ses.remote
      /\ up.initiator = ses.initiator /\ up.awaitResp = ses.awaitResp /\ up.awaitTerm = ses.awaitTerm
  BY DEF IInv, IsSession, Fields
<1> HIDE DEF up
<1>4. Named(ses, ses') /\ Tells(ses, ses', told')
  BY <1>2, <1>3, SameSound DEF IInv, Named, Tells, Sound
<1> QED BY <1>1, <1>4, WatchStep DEF IsUp

LEMMA SeesLostStep == ASSUME IInv, SeesLost PROVE Good
<1> DEFINE down == [ses EXCEPT !.state = "IDLE", !.type = "SOFT", !.pending = None]
<1>1. Watch(LinkLost) /\ ses' = down
  BY DEF SeesLost
<1>2. /\ IsSession(down) /\ down.state = "IDLE" /\ down.type = "SOFT"
      /\ down.awaitResp = ses.awaitResp /\ down.awaitTerm = ses.awaitTerm
  BY DEF IInv, IsSession, Fields
<1>3. ses.type = "HARD" => [event |-> "terminated", sap |-> None] \in told'
  BY DEF SeesLost, Tell
<1> HIDE DEF down
<1>4. Named(ses, ses') /\ Tells(ses, ses', told')
  BY <1>1, <1>2, <1>3 DEF Named, Tells
<1> QED BY <1>1, <1>2, <1>4, WatchStep

LEMMA SeesCallFailedStep == ASSUME IInv, SeesCallFailed PROVE Good
<1> DEFINE down == [ses EXCEPT !.state = "IDLE"]
<1>1. Watch(CallFailed) /\ prevSis = "CALLING"
  BY DEF SeesCallFailed, Watch, CallFailed
<1>2. ses' = ses \/ (ses.state = "ESTABLISHING" /\ ses' = down)
  BY DEF SeesCallFailed
<1>3. /\ IsSession(down) /\ down.type = ses.type /\ down.remote = ses.remote
      /\ down.initiator = ses.initiator /\ down.awaitResp = ses.awaitResp /\ down.awaitTerm = ses.awaitTerm
  BY DEF IInv, IsSession, Fields
<1> HIDE DEF down
<1>4. Named(ses, ses') /\ Tells(ses, ses', told')
  BY <1>2, <1>3, SameSound DEF IInv, Named, Tells, Sound
<1> QED BY <1>1, <1>4, WatchStep DEF IsUp

(* The monitor sees nothing end: either the link it knew is still up, or a *)
(* call of its own has replaced it.                                        *)
LEMMA SeesNothingStep == ASSUME IInv, InputType, SeesNothing PROVE Good
<1>0. view.state \in CasState
  BY DEF InputType
<1>1. Watch(~LinkMade /\ ~LinkLost /\ ~CallFailed) /\ ses' = ses
  BY DEF SeesNothing
<1>2. Named(ses, ses') /\ Tells(ses, ses', told')
  BY <1>1, SameSound DEF IInv, Sound
<1>3. IsUp(prevSis) /\ ~IsUp(view.state) => view.state = "CALLING"
  BY <1>0 DEF SeesNothing, Watch, LinkLost, IsUp, CasState
<1>4. IsUp(prevSis) /\ ~IsUp(view.state) => ~(ses'.state = "ACTIVE" /\ ses'.type = "SOFT")
  BY <1>1, <1>3 DEF IInv, NewCallIsHard, Settled
<1> QED BY <1>1, <1>2, <1>4, WatchStep

(* After the monitor.                                                      *)
LEMMA LateStep ==
  ASSUME IInv,
         \/ RequestWaits \/ TimeoutsDone \/ PurgeDone \/ Dispatch \/ KeepSoftLink
         \/ \E i \in 1 .. MaxQueue : Expire(i)
  PROVE  Good
<1>1. UNCHANGED <<ses, asked, prevSis, view>>
  BY DEF RequestWaits, TimeoutsDone, Expire, PurgeDone, Dispatch, KeepSoftLink, SameSession, cas
<1>2. pc \in Watched
  BY DEF RequestWaits, TimeoutsDone, Expire, PurgeDone, Dispatch, KeepSoftLink, Step, Watched
<1> QED BY <1>1, <1>2, QuietStep

LEMMA SendRequestStep == ASSUME IInv, SendRequest PROVE Good
<1> DEFINE t == [ses EXCEPT !.awaitResp = TRUE]
<1>1. ses' = t /\ UNCHANGED <<asked, prevSis, view>> /\ prevSis = view.state
  BY DEF SendRequest, Step, cas, IInv, MonitorKnows, Watched
<1>2. /\ IsSession(t) /\ t.state = ses.state /\ t.type = ses.type /\ t.remote = ses.remote
      /\ t.initiator = ses.initiator /\ t.awaitResp = TRUE /\ t.awaitTerm = ses.awaitTerm
  BY DEF IInv, IsSession, Fields
<1> HIDE DEF t
<1>3. OwnerAsked'
  BY <1>1, <1>2 DEF IInv, OwnerAsked
<1>4. MonitorKnows' /\ NewCallIsHard' /\ SoftStep
  BY <1>1 DEF MonitorKnows, NewCallIsHard, IsUp, SoftStep
<1>5. Tells(ses, ses', told')
  BY <1>1, <1>2 DEF Tells
<1> QED BY <1>1, <1>2, <1>3, <1>4, <1>5 DEF Good, IInv

LEMMA TimeoutStep == ASSUME IInv, ResponseTimeout \/ TerminateTimeout PROVE Good
<1>1. UNCHANGED <<asked, prevSis, view>> /\ pc \in Watched
  BY DEF ResponseTimeout, TerminateTimeout, Timeout, Step, cas, Watched
<1>2. CASE ResponseTimeout
  <2> DEFINE u == [ses EXCEPT !.awaitResp = FALSE]
             t == [u EXCEPT !.state = "IDLE", !.type = "SOFT"]
  <2>1. ses' = t /\ [event |-> "rejected", sap |-> None] \in told'
    BY <1>2 DEF ResponseTimeout, Timeout, Tell
  <2>2. /\ IsSession(t) /\ t.state = "IDLE" /\ t.type = "SOFT" /\ t.awaitResp = FALSE
        /\ t.awaitTerm = ses.awaitTerm
    BY DEF IInv, IsSession, Fields
  <2> HIDE DEF t
  <2>3. Sound(ses, ses', told')
    BY <2>1, <2>2 DEF Sound, Named, Settled, Tells
  <2> QED BY <1>1, <2>3, SoundStep
<1>3. CASE TerminateTimeout
  <2> DEFINE u == [ses EXCEPT !.awaitTerm = FALSE]
             t == [u EXCEPT !.state = "IDLE", !.type = "SOFT"]
  <2>1. ses' = t /\ [event |-> "terminated", sap |-> None] \in told'
    BY <1>3 DEF TerminateTimeout, Timeout, Tell
  <2>2. /\ IsSession(t) /\ t.state = "IDLE" /\ t.type = "SOFT" /\ t.awaitResp = ses.awaitResp
    BY DEF IInv, IsSession, Fields
  <2> HIDE DEF t
  <2>3. OwnerAsked' /\ IsSession(ses')
    BY <1>1, <2>1, <2>2 DEF IInv, OwnerAsked
  <2>4. MonitorKnows' /\ NewCallIsHard' /\ SoftStep
    BY <1>1 DEF IInv, MonitorKnows, NewCallIsHard, IsUp, SoftStep
  <2>5. Tells(ses, ses', told')
    BY <2>1, <2>2 DEF Tells
  <2> QED BY <2>3, <2>4, <2>5 DEF Good, IInv
<1> QED BY <1>2, <1>3

LEMMA MakeSoftLinkStep == ASSUME IInv, MakeSoftLink PROVE Good
<1>1. PICK dest : ses' = [ses EXCEPT !.state = "ESTABLISHING", !.type = "SOFT", !.remote = dest]
  BY DEF MakeSoftLink
<1> DEFINE t == [ses EXCEPT !.state = "ESTABLISHING", !.type = "SOFT", !.remote = dest]
<1>2. /\ UNCHANGED <<asked, prevSis>> /\ prevSis = view.state /\ view.state \in {"IDLE", "FAILED"}
      /\ pc' = "idle"
  BY DEF MakeSoftLink, Step, IInv, MonitorKnows, Watched
<1>3. /\ IsSession(t) /\ t.state = "ESTABLISHING" /\ t.type = "SOFT" /\ t.awaitResp = ses.awaitResp
      /\ t.awaitTerm = ses.awaitTerm
  BY DEF IInv, IsSession, Fields
<1>4. ses' = t
  BY <1>1
<1> HIDE DEF t
<1>5. OwnerAsked'
  BY <1>2, <1>3, <1>4 DEF IInv, OwnerAsked
<1>6. MonitorKnows' /\ NewCallIsHard' /\ SoftStep
  BY <1>2 DEF MonitorKnows, NewCallIsHard, Watched, IsUp, SoftStep
<1>7. Tells(ses, ses', told')
  BY <1>3, <1>4 DEF Tells
<1> QED BY <1>3, <1>4, <1>5, <1>6, <1>7 DEF Good, IInv

LEMMA BreakSoftLinkStep == ASSUME IInv, BreakSoftLink PROVE Good
<1> DEFINE t == [ses EXCEPT !.state = "TERMINATING"]
<1>1. ses' = t /\ ses.state = "ACTIVE" /\ UNCHANGED <<asked, prevSis>> /\ pc' = "idle"
  BY DEF BreakSoftLink, SoftIdle, Step
<1>2. view' = view \/ view'.state = "BREAKING"
  BY DEF BreakSoftLink, Breaking, Seen
<1>3. /\ IsSession(t) /\ t.state = "TERMINATING" /\ t.type = ses.type /\ t.remote = ses.remote
      /\ t.initiator = ses.initiator /\ t.awaitResp = ses.awaitResp /\ t.awaitTerm = ses.awaitTerm
  BY DEF IInv, IsSession, Fields
<1> HIDE DEF t
<1>4. Sound(ses, ses', told')
  BY <1>1, <1>3 DEF Sound, Named, Settled, Tells
<1> QED BY <1>1, <1>2, <1>4, SoundStep DEF Watched
-----------------------------------------------------------------------------
(* The inputs keep their types.                                            *)
LEMMA ViewStates ==
  ASSUME NEW v, v.state \in CasState
  PROVE  /\ \A w \in ByPeer(v) \cup ByTimer(v) : w.state \in CasState
         /\ \A r : Calling(r).state \in CasState
         /\ Breaking(v).state \in CasState
<1>1. \A w \in ByPeer(v) : w.state \in CasState
  BY DEF ByPeer, Seen, Idle, CasState
<1>2. \A w \in ByTimer(v) : w.state \in CasState
  BY DEF ByTimer, Seen, Idle, CasState
<1>3. (\A r : Calling(r).state \in CasState) /\ Breaking(v).state \in CasState
  BY DEF Calling, Breaking, Seen, CasState
<1> QED BY <1>1, <1>2, <1>3

LEMMA InboxStep ==
  ASSUME InputType, view'.state \in CasState,
         \/ UNCHANGED inbox
         \/ \E m \in Spdu : arqIn' = Append(arqIn, m) /\ UNCHANGED nonArqIn
         \/ \E m \in Spdu, r \in Node :
              nonArqIn' = Append(nonArqIn, [spdu |-> m, src |-> r]) /\ UNCHANGED arqIn
         \/ arqIn # <<>> /\ arqIn' = Tail(arqIn) /\ UNCHANGED nonArqIn
         \/ nonArqIn # <<>> /\ nonArqIn' = Tail(nonArqIn) /\ UNCHANGED arqIn
  PROVE  InputType'
<1> DEFINE S == [spdu : Spdu, src : Node]
<1>1. arqIn \in Seq(Spdu) /\ nonArqIn \in Seq(S)
  BY DEF InputType
<1>2. \A m \in Spdu, r \in Node : [spdu |-> m, src |-> r] \in S
  OBVIOUS
<1> HIDE DEF S
<1>3. SUFFICES arqIn' \in Seq(Spdu) /\ nonArqIn' \in Seq(S)
  BY DEF InputType, S
<1>4. CASE UNCHANGED inbox
  BY <1>1, <1>4 DEF inbox
<1>5. CASE \E m \in Spdu : arqIn' = Append(arqIn, m) /\ UNCHANGED nonArqIn
  BY <1>1, <1>5
<1>6. CASE \E m \in Spdu, r \in Node :
             nonArqIn' = Append(nonArqIn, [spdu |-> m, src |-> r]) /\ UNCHANGED arqIn
  BY <1>1, <1>2, <1>6
<1>7. CASE arqIn # <<>> /\ arqIn' = Tail(arqIn) /\ UNCHANGED nonArqIn
  BY <1>1, <1>7
<1>8. CASE nonArqIn # <<>> /\ nonArqIn' = Tail(nonArqIn) /\ UNCHANGED arqIn
  BY <1>1, <1>8
<1> QED BY <1>4, <1>5, <1>6, <1>7, <1>8

LEMMA ClientInput == ASSUME InputType, NEW s \in Sap, Client(s) PROVE InputType'
<1>1. UNCHANGED inbox
  BY DEF Client, Bind, Unbind, HardLinkTerminate, UnidataRequest, ExpeditedRequest, HardLinkEstablish
<1>2. view' = view \/ \E r : view' = Calling(r)
  BY DEF Client, Bind, Unbind, HardLinkTerminate, UnidataRequest, ExpeditedRequest, HardLinkEstablish,
         MakeLink, cas
<1> QED BY <1>1, <1>2, InboxStep, ViewStates DEF InputType

LEMMA CallInput ==
  ASSUME InputType, HardLinkReject \/ SetFlow \/ BreakLink \/ \E local : HardLinkAccept(local)
  PROVE  InputType'
<1>1. UNCHANGED inbox
  BY DEF HardLinkAccept, HardLinkReject, SetFlow, BreakLink
<1>2. view' = view \/ view' = Breaking(view)
  BY DEF HardLinkAccept, HardLinkReject, SetFlow, BreakLink, cas
<1> QED BY <1>1, <1>2, InboxStep, ViewStates DEF InputType

LEMMA ReceiveInput == ASSUME InputType, Receive PROVE InputType'
<1>1. CASE RxControl
  <2>1. UNCHANGED inbox /\ view' \in ByPeer(view)
    BY <1>1 DEF RxControl
  <2> QED BY <2>1, InboxStep, ViewStates DEF InputType
<1>2. CASE \E m \in Spdu : RxArq(m)
  BY <1>2, InboxStep DEF RxArq, cas, InputType
<1>3. CASE \E m \in Spdu, r \in Node : RxNonArq(r, m)
  BY <1>3, InboxStep DEF RxNonArq, cas, InputType
<1> QED BY <1>1, <1>2, <1>3 DEF Receive

LEMMA TickInput == ASSUME InputType, Tick PROVE InputType'
<1>1. CASE ProcessArq
  BY <1>1, InboxStep DEF ProcessArq, Process, cas, InputType
<1>2. CASE ProcessNonArq
  BY <1>2, InboxStep DEF ProcessNonArq, Process, cas, InputType
<1>3. CASE CasTick
  <2>1. UNCHANGED inbox /\ view' \in ByTimer(view) \cup {view}
    BY <1>3 DEF CasTick
  <2> QED BY <2>1, InboxStep, ViewStates DEF InputType
<1>4. CASE MakeSoftLink
  <2>1. UNCHANGED inbox /\ (view' = view \/ \E r : view' = Calling(r))
    BY <1>4 DEF MakeSoftLink, MakeLink
  <2> QED BY <2>1, InboxStep, ViewStates DEF InputType
<1>5. CASE BreakSoftLink
  <2>1. UNCHANGED inbox /\ (view' = view \/ view' = Breaking(view))
    BY <1>5 DEF BreakSoftLink
  <2> QED BY <2>1, InboxStep, ViewStates DEF InputType
<1>6. CASE SeesMade \/ SeesLost \/ SeesCallFailed \/ SeesNothing
  BY <1>6, InboxStep DEF SeesMade, SeesLost, SeesCallFailed, SeesNothing, Watch, InputType
<1>7. CASE \/ TickStart \/ RxArqDone \/ RxNonArqDone \/ DtsCas \/ ProcessDone
           \/ SendRequest \/ RequestWaits
  BY <1>7, InboxStep DEF TickStart, RxArqDone, RxNonArqDone, DtsCas, ProcessDone, SendRequest,
     RequestWaits, cas, InputType
<1>8. CASE \/ ResponseTimeout \/ TerminateTimeout \/ TimeoutsDone
           \/ \E i \in 1 .. MaxQueue : Expire(i)
           \/ PurgeDone \/ Dispatch \/ KeepSoftLink
  BY <1>8, InboxStep DEF ResponseTimeout, TerminateTimeout, Timeout, TimeoutsDone, Expire, PurgeDone,
     Dispatch, KeepSoftLink, cas, InputType
<1> QED BY <1>1, <1>2, <1>3, <1>4, <1>5, <1>6, <1>7, <1>8 DEF Tick

LEMMA NextInput == ASSUME InputType, [Next]_vars PROVE InputType'
<1>1. CASE Next
  BY <1>1, ClientInput, CallInput, ReceiveInput, TickInput DEF Next
<1>2. CASE UNCHANGED vars
  BY <1>2 DEF vars, cas, inbox, InputType
<1> QED BY <1>1, <1>2
-----------------------------------------------------------------------------
LEMMA InitCorrect == ASSUME Init PROVE IInv /\ InputType
<1>1. IsSession(ses) /\ ses.type = "SOFT" /\ prevSis = "IDLE" /\ pc = "idle"
  BY DEF Init, IsSession, NoSession, Fields
<1>2. OwnerAsked
  BY <1>1 DEF Init, OwnerAsked
<1>3. MonitorKnows /\ NewCallIsHard
  BY <1>1 DEF MonitorKnows, NewCallIsHard, Watched, IsUp
<1>4. InputType
  BY DEF Init, InputType, Idle, CasState
<1> QED BY <1>1, <1>2, <1>3, <1>4 DEF IInv

LEMMA ClientStep == ASSUME IInv, NEW s \in Sap, Client(s) PROVE Good
BY SameCalls, HardLinkEstablishStep, HardLinkTerminateStep DEF Client

LEMMA ReceiveStep == ASSUME IInv, Receive PROVE Good
BY EarlyStep DEF Receive

LEMMA TickStep == ASSUME IInv, InputType, Tick PROVE Good
<1>1. CASE TickStart \/ RxArqDone \/ RxNonArqDone \/ DtsCas \/ CasTick \/ ProcessDone
  BY <1>1, EarlyStep
<1>2. CASE ProcessArq \/ ProcessNonArq
  BY <1>2, ProcessAnyStep
<1>3. CASE SeesMade \/ SeesLost \/ SeesCallFailed \/ SeesNothing
  BY <1>3, SeesMadeStep, SeesLostStep, SeesCallFailedStep, SeesNothingStep
<1>4. CASE SendRequest \/ ResponseTimeout \/ TerminateTimeout \/ MakeSoftLink \/ BreakSoftLink
  BY <1>4, SendRequestStep, TimeoutStep, MakeSoftLinkStep, BreakSoftLinkStep
<1>5. CASE \/ RequestWaits \/ TimeoutsDone \/ PurgeDone \/ Dispatch \/ KeepSoftLink
           \/ \E i \in 1 .. MaxQueue : Expire(i)
  BY <1>5, LateStep
<1> QED BY <1>1, <1>2, <1>3, <1>4, <1>5 DEF Tick

LEMMA NextGood == ASSUME IInv, InputType, Next PROVE Good
<1>1. CASE \E s \in Sap : Client(s)
  BY <1>1, ClientStep
<1>2. CASE \E local \in Sap \cup {None} : HardLinkAccept(local)
  BY <1>2, HardLinkAcceptStep
<1>3. CASE HardLinkReject
  BY <1>3, HardLinkRejectStep
<1>4. CASE SetFlow \/ BreakLink
  BY <1>4, SameCalls
<1>5. CASE Receive
  BY <1>5, ReceiveStep
<1>6. CASE Tick
  BY <1>6, TickStep
<1> QED BY <1>1, <1>2, <1>3, <1>4, <1>5, <1>6 DEF Next

LEMMA StutterGood == ASSUME IInv, UNCHANGED vars PROVE IInv'
BY DEF vars, cas, clients, inbox, bounds, IInv, IsSession, OwnerAsked, MonitorKnows, NewCallIsHard,
       Settled

(* The invariant of the proof holds of every behaviour of a node.          *)
THEOREM InvariantHolds == Spec => [](IInv /\ InputType)
<1>1. Init => IInv /\ InputType
  BY InitCorrect
<1>2. IInv /\ InputType /\ [Next]_vars => (IInv /\ InputType)'
  BY NextGood, StutterGood, NextInput DEF Good
<1> QED BY <1>1, <1>2, PTL DEF Spec

(* Only the client that asked for a hard link, or accepted it, owns it and *)
(* can terminate it, through crossed requests, precedence, rejections and  *)
(* timeouts, for any number of clients and nodes (hard_link_terminate,     *)
(* local_initiator_sap, _handle_hard_link_request).                        *)
THEOREM OwnershipHolds == Spec => []InitiatorAsked
<1>1. IInv => InitiatorAsked
  BY DEF IInv, OwnerAsked, InitiatorAsked, HardActive
<1> QED BY <1>1, InvariantHolds, PTL

(* A soft session does not outlive the link the node saw, however the view *)
(* of the link changes between two looks of the monitor                    *)
(* (_monitor_cas_transitions, _manage_soft_link, hard_link_establish).     *)
THEOREM SoftLinksEnd == Spec => SoftLinkEnds
<1>1. IInv /\ InputType /\ [Next]_vars => [SoftStep]_vars
  BY NextGood DEF Good
<1>2. Spec => [][SoftStep]_vars
  BY <1>1, InvariantHolds, PTL DEF Spec
<1> QED BY <1>2, PTL DEF SoftLinkEnds, SoftStep

(* NoSilentEnd of one step.                                                *)
TellsStep ==
  /\ ses.awaitResp /\ ~ses'.awaitResp =>
       (IsTold("established") \/ IsTold("rejected") \/ IsTold("terminated"))'
  /\ ses.awaitTerm /\ ~ses'.awaitTerm => IsTold("terminated")'
  /\ HardActive /\ ses'.state = "IDLE" => (IsTold("rejected") \/ IsTold("terminated"))'

(* No hard link, no request and no termination goes away without word to   *)
(* the clients (_process_spdu_control, _monitor_cas_transitions,           *)
(* _check_hard_link_timeouts, _terminate_existing_hard_link).              *)
THEOREM NothingEndsSilently == Spec => NoSilentEnd
<1>1. Tells(ses, ses', told') => TellsStep
  BY DEF Tells, TellsStep, IsTold, HardActive
<1>2. IInv /\ InputType /\ [Next]_vars => [TellsStep]_vars
  BY <1>1, NextGood DEF Good
<1>3. Spec => [][TellsStep]_vars
  BY <1>2, InvariantHolds, PTL DEF Spec
<1> QED BY <1>3, PTL DEF NoSilentEnd, TellsStep
-----------------------------------------------------------------------------
(* Places counted from the front.  Each of a set of places is the k-th for *)
(* one k, and for each k there is one.                                     *)
LEMMA Places ==
  ASSUME NEW n \in Nat, NEW S \in SUBSET (1 .. n)
  PROVE  /\ IsFiniteSet(S) /\ Cardinality(S) \in 0 .. n
         /\ \A i \in S : Cardinality({j \in S : j <= i}) \in 1 .. Cardinality(S)
         /\ \A i \in S : \A k \in S :
              Cardinality({j \in S : j <= i}) = Cardinality({j \in S : j <= k}) => i = k
         /\ \A k \in 1 .. Cardinality(S) : \E i \in S : Cardinality({j \in S : j <= i}) = k
<1> DEFINE UpTo(i) == {j \in S : j <= i}
           rank == [i \in S |-> Cardinality(UpTo(i))]
<1>1. IsFiniteSet(1 .. n) /\ Cardinality(1 .. n) = n
  BY FS_Interval
<1>2. IsFiniteSet(S) /\ Cardinality(S) \in 0 .. n
  <2>1. IsFiniteSet(S) /\ Cardinality(S) <= n
    BY <1>1, FS_Subset
  <2>2. Cardinality(S) \in Nat
    BY <2>1, FS_CardinalityType
  <2> QED BY <2>1, <2>2
<1>3. ASSUME NEW i \in S
      PROVE  IsFiniteSet(UpTo(i)) /\ Cardinality(UpTo(i)) \in 1 .. Cardinality(S)
  <2>1. UpTo(i) \in SUBSET S /\ i \in UpTo(i)
    OBVIOUS
  <2>2. IsFiniteSet(UpTo(i)) /\ Cardinality(UpTo(i)) <= Cardinality(S)
    BY <1>2, <2>1, FS_Subset
  <2>3. Cardinality(UpTo(i)) \in Nat /\ Cardinality(UpTo(i)) # 0
    BY <2>1, <2>2, FS_CardinalityType, FS_EmptySet
  <2> QED BY <1>2, <2>2, <2>3
<1>4. ASSUME NEW i \in S, NEW k \in S, i < k PROVE Cardinality(UpTo(i)) # Cardinality(UpTo(k))
  <2>1. i \in Int /\ k \in Int /\ \A j \in S : j \in Int
    OBVIOUS
  <2>2. \A j \in UpTo(i) : j \in UpTo(k)
    BY <1>4, <2>1
  <2>3. k \in UpTo(k) /\ k \notin UpTo(i)
    BY <1>4, <2>1
  <2>4. UpTo(i) \in SUBSET UpTo(k)
    BY <2>2
  <2>5. IsFiniteSet(UpTo(k)) /\ UpTo(k) # UpTo(i)
    BY <1>3, <2>3
  <2> QED BY <2>4, <2>5, FS_Subset
<1>5. ASSUME NEW i \in S, NEW k \in S, Cardinality(UpTo(i)) = Cardinality(UpTo(k)) PROVE i = k
  BY <1>4, <1>5
<1>6. rank \in Injection(S, 1 .. Cardinality(S))
  <2>1. rank \in [S -> 1 .. Cardinality(S)]
    BY <1>3
  <2>2. \A i, k \in S : rank[i] = rank[k] => i = k
    BY <1>5
  <2> QED BY <2>1, <2>2 DEF Injection, IsInjective
<1>7. rank \in Surjection(S, 1 .. Cardinality(S))
  <2>1. IsFiniteSet(1 .. Cardinality(S)) /\ Cardinality(1 .. Cardinality(S)) = Cardinality(S)
    BY <1>2, FS_Interval
  <2> QED BY <1>6, <2>1, FS_Injection
<1>8. \A k \in 1 .. Cardinality(S) : \E i \in S : rank[i] = k
  BY <1>7 DEF Surjection
<1>9. \A k \in 1 .. Cardinality(S) : \E i \in S : Cardinality(UpTo(i)) = k
  BY <1>8
<1> QED BY <1>2, <1>3, <1>5, <1>9

(* The U_PDUs that are kept are those at the places kept, and no others.   *)
LEMMA KeptFacts ==
  ASSUME NEW U, queue \in Seq(U), NEW places \in SUBSET DOMAIN queue
  PROVE  /\ Kept(places) \in Seq(U) /\ Len(Kept(places)) <= Len(queue)
         /\ \A i \in places : queue[i] \in Range(Kept(places))
<1>1. PICK n \in Nat : n = Len(queue) /\ DOMAIN queue = 1 .. n /\ queue \in [1 .. n -> U]
  BY LenProperties
<1> DEFINE Rank1(i) == Cardinality({j \in places : j <= i})
<1>2. PICK m \in 0 .. n : m = Cardinality(places)
  BY <1>1, Places
<1>3. /\ \A i \in places : Rank1(i) \in 1 .. m
      /\ \A i \in places : \A k \in places : Rank1(i) = Rank1(k) => i = k
      /\ \A k \in 1 .. m : \E i \in places : Rank1(i) = k
  <2>1. places \in SUBSET (1 .. n)
    BY <1>1
  <2>2. /\ \A i \in places : Cardinality({j \in places : j <= i}) \in 1 .. Cardinality(places)
        /\ \A i \in places : \A k \in places :
             Cardinality({j \in places : j <= i}) = Cardinality({j \in places : j <= k}) => i = k
        /\ \A k \in 1 .. Cardinality(places) :
             \E i \in places : Cardinality({j \in places : j <= i}) = k
    BY <2>1, Places, ZenonT(30)
  <2> QED BY <1>2, <2>2
<1> DEFINE at(k) == CHOOSE i \in places : Rank1(i) = k
<1>4. Kept(places) = [k \in 1 .. m |-> queue[at(k)]]
  BY <1>2 DEF Kept
<1> HIDE DEF Rank1
<1>5. \A k \in 1 .. m : at(k) \in places /\ Rank1(at(k)) = k
  BY <1>3
<1> HIDE DEF at
<1>6. \A k \in 1 .. m : queue[at(k)] \in U
  BY <1>1, <1>5
<1>7. Kept(places) \in [1 .. m -> U] /\ m \in Nat
  BY <1>2, <1>4, <1>6
<1>8. Kept(places) \in Seq(U) /\ Len(Kept(places)) = m
  BY <1>7, SeqDef, LenProperties
<1>9. ASSUME NEW i \in places PROVE queue[i] \in Range(Kept(places))
  <2>1. Rank1(i) \in 1 .. m /\ at(Rank1(i)) = i
    BY <1>3, <1>5
  <2>2. Kept(places)[Rank1(i)] = queue[i] /\ DOMAIN Kept(places) = 1 .. m
    BY <1>4, <2>1
  <2> QED BY <2>1, <2>2 DEF Range
<1> QED BY <1>1, <1>2, <1>8, <1>9

LEMMA RemovedFacts ==
  ASSUME NEW U, queue \in Seq(U), NEW i \in DOMAIN queue
  PROVE  /\ RemoveAt(queue, i) \in Seq(U) /\ Len(RemoveAt(queue, i)) <= Len(queue)
         /\ \A j \in DOMAIN queue \ {i} : queue[j] \in Range(RemoveAt(queue, i))
<1>1. PICK n \in Nat : n = Len(queue) /\ DOMAIN queue = 1 .. n /\ \A j \in 1 .. n : queue[j] \in U
  BY LenProperties, ElementOfSeq
<1> DEFINE front == SubSeq(queue, 1, i - 1)
           back == SubSeq(queue, i + 1, Len(queue))
<1>2. i \in 1 .. n
  BY <1>1
<1>3. front \in Seq(U) /\ Len(front) = i - 1 /\ \A j \in 1 .. i - 1 : front[j] = queue[j]
  <2>1. \A j \in 1 .. (i - 1) : queue[j] \in U
    BY <1>1, <1>2
  <2>2. 1 \in Int /\ i - 1 \in Int
    BY <1>2
  <2> QED BY <1>2, <2>1, <2>2, SubSeqProperties
<1>4. back \in Seq(U) /\ Len(back) = n - i /\ \A j \in 1 .. n - i : back[j] = queue[i + j]
  <2>1. \A j \in (i + 1) .. Len(queue) : queue[j] \in U
    BY <1>1, <1>2
  <2>2. i + 1 \in Int /\ Len(queue) \in Int
    BY <1>1, <1>2
  <2> QED BY <1>1, <1>2, <2>1, <2>2, SubSeqProperties
<1>5. RemoveAt(queue, i) = front \o back
  BY DEF RemoveAt
<1> HIDE DEF front, back
<1>6. /\ front \o back \in Seq(U) /\ Len(front \o back) = n - 1
      /\ DOMAIN (front \o back) = 1 .. (n - 1)
      /\ \A j \in 1 .. (n - 1) : (front \o back)[j] = IF j <= i - 1 THEN front[j] ELSE back[j - (i - 1)]
  BY <1>1, <1>2, <1>3, <1>4, ConcatProperties, LenProperties
<1>7. ASSUME NEW j \in 1 .. n, j # i PROVE queue[j] \in Range(front \o back)
  <2>1. CASE j < i
    <3>1. j \in 1 .. (n - 1) /\ j \in 1 .. i - 1 /\ j <= i - 1
      BY <1>2, <2>1
    <3>2. (front \o back)[j] = queue[j]
      BY <1>3, <1>6, <3>1
    <3> QED BY <1>6, <3>1, <3>2 DEF Range
  <2>2. CASE j > i
    <3>1. j - 1 \in 1 .. (n - 1) /\ ~(j - 1 <= i - 1) /\ (j - 1) - (i - 1) = j - i /\ j - i \in 1 .. n - i
      BY <1>2, <2>2
    <3>2. (front \o back)[j - 1] = queue[i + (j - i)] /\ i + (j - i) = j
      <4>1. (front \o back)[j - 1] = back[j - i]
        BY <1>6, <3>1
      <4>2. back[j - i] = queue[i + (j - i)]
        BY <1>4, <3>1
      <4>3. i + (j - i) = j
        BY <1>2, <3>1
      <4> QED BY <4>1, <4>2, <4>3
    <3> QED BY <1>6, <3>1, <3>2 DEF Range
  <2> QED BY <1>2, <1>7, <2>1, <2>2
<1> QED BY <1>1, <1>5, <1>6, <1>7

(* The first U_PDU for the link is one there is.                           *)
LEMMA FirstArq ==
  ASSUME NEW U, queue \in Seq(U), ArqPending
  PROVE  SelectInSeq(queue, IsArq) \in DOMAIN queue
<1>1. PICK n \in Nat : n = Len(queue) /\ DOMAIN queue = 1 .. n
  BY LenProperties
<1> DEFINE I == {i \in 1 .. n : IsArq(queue[i])}
<1>2. I \in SUBSET (1 .. n) /\ I # {}
  BY <1>1 DEF ArqPending
<1>3. SelectInSeq(queue, IsArq) = Min(I)
  BY <1>1, <1>2 DEF SelectInSeq
<1> HIDE DEF I
<1>4. IsFiniteSet(I) /\ Cardinality(I) \in 0 .. n /\ Cardinality(I) # 0
  BY <1>2, Places, FS_EmptySet
<1>5. PICK i \in I : Cardinality({j \in I : j <= i}) = 1
  <2>1. 1 \in 1 .. Cardinality(I)
    BY <1>4
  <2>2. \A k \in 1 .. Cardinality(I) : \E i \in I : Cardinality({j \in I : j <= i}) = k
    BY <1>2, Places
  <2> QED BY <2>1, <2>2
<1>6. IsFiniteSet({j \in I : j <= i}) /\ i \in {j \in I : j <= i}
  BY <1>2, <1>4, FS_Subset
<1>7. {j \in I : j <= i} = {i}
  <2> DEFINE J == {j \in I : j <= i}
  <2>1. IsFiniteSet(J) /\ Cardinality(J) = 1 /\ i \in J
    BY <1>5, <1>6
  <2> HIDE DEF J
  <2>2. \E x : J = {x}
    BY <2>1, FS_Singleton
  <2>3. J = {i}
    BY <2>1, <2>2
  <2> QED BY <2>3 DEF J
<1>8. \A j \in I : i <= j
  BY <1>2, <1>7
<1>9. Min(I) \in I
  BY <1>8 DEF Min
<1> QED BY <1>1, <1>2, <1>3, <1>9
-----------------------------------------------------------------------------
(* The types of the state.  What is sent and what is told:                 *)
Out == [type : Handed, to : Node \cup {None}, for : Node \cup {None}]
News == [event : Event, sap : Sap \cup {None}]
Typed(r) == r.ses \in Session /\ r.sent \in SUBSET Out /\ r.told \in SUBSET News

LEMMA Said ==
  /\ \A e \in Event : Tell(e) \in SUBSET News
  /\ \A e \in Event, s \in Sap : TellSap(e, s) \in SUBSET News
  /\ \A t \in Handed, n \in Node \cup {None} : To(t, n) \in SUBSET Out
BY DEF Tell, TellSap, To, News, Out

LEMMA SaidEach == ASSUME NEW s \in Session, saps \in SUBSET Sap PROVE TellEach(s) \in SUBSET News
BY DEF TellEach, News, Event, Session

LEMMA Ranks == ASSUME NEW n \in Node \cup {None} PROVE RankOf(n) \in Nat
BY DEF RankOf

LEMMA NoSessionType == NoSession \in Session
BY DEF NoSession, Session, Indication

LEMMA SessionFields ==
  ASSUME NEW s \in Session
  PROVE  /\ s.remote \in Node \cup {None} /\ s.rank \in Nat /\ s.priority \in Priority
         /\ s.kind \in LinkKind /\ s.initiator \in Sap \cup {None}
         /\ s.pending \in Indication \cup {None} /\ s.backlog \in Seq(Indication)
         /\ s.type \in {"SOFT", "HARD"}
         /\ s.state \in {"IDLE", "ESTABLISHING", "ACTIVE", "TERMINATING"}
BY DEF Session

LEMMA EndedType == ASSUME NEW s \in Session PROVE Ended(s) \in Session
BY NoSessionType DEF Ended, Session

LEMMA GrantedType ==
  ASSUME NEW s \in Session, NEW src \in Node \cup {None},
         NEW req \in [type : {"REQUEST"}, kind : LinkKind, priority : Priority, sap : Sap]
  PROVE  Typed(Granted(s, src, req))
<1> DEFINE ind == [src |-> src, kind |-> req.kind, priority |-> req.priority]
           asks == IF s.pending = None THEN [s EXCEPT !.pending = ind]
                   ELSE [s EXCEPT !.backlog = Append(@, ind)]
           up == [s EXCEPT !.state = "ACTIVE", !.type = "HARD", !.remote = src,
                           !.rank = RankOf(src), !.priority = req.priority,
                           !.kind = req.kind, !.initiator = None]
<1>1. ind \in Indication
  BY DEF Indication
<1>2. asks \in Session
  <2>1. Append(s.backlog, ind) \in Seq(Indication)
    BY <1>1, SessionFields
  <2> HIDE DEF ind
  <2>2. [s EXCEPT !.pending = ind] \in Session
    BY <1>1 DEF Session
  <2>3. [s EXCEPT !.backlog = Append(@, ind)] \in Session
    BY <2>1 DEF Session
  <2> QED BY <2>2, <2>3
<1>3. up \in Session
  BY Ranks DEF Session
<1>4. /\ Tell("indication") \in SUBSET News /\ Tell("established") \in SUBSET News
      /\ To("REJECTED", src) \in SUBSET Out /\ To("CONFIRM", src) \in SUBSET Out
  BY Said DEF Event, Handed
<1>5. Granted(s, src, req) \in {Result(asks, {}, Tell("indication")), Result(s, To("REJECTED", src), {}),
                                Result(up, To("CONFIRM", src), Tell("established"))}
  BY DEF Granted
<1> HIDE DEF asks, up
<1> QED BY <1>2, <1>3, <1>4, <1>5 DEF Typed, Result

LEMMA RequestType ==
  ASSUME ses \in Session, saps \in SUBSET Sap, NEW src \in Node \cup {None},
         NEW req \in [type : {"REQUEST"}, kind : LinkKind, priority : Priority, sap : Sap]
  PROVE  Typed(RxRequest(src, req))
<1>1. Typed(Granted(ses, src, req))
  BY GrantedType
<1>2. Typed(Displaced(src, req))
  <2>1. Typed(Granted(Ended(ses), src, req))
    BY EndedType, GrantedType
  <2>2. /\ TellEach(ses) \in SUBSET News /\ Tell("terminated") \in SUBSET News
        /\ To("TERMINATE", ses.remote) \in SUBSET Out
    BY Said, SaidEach, SessionFields DEF Event, Handed
  <2> QED BY <2>1, <2>2 DEF Displaced, Typed, Result
<1>3. Typed(Result(ses, To("REJECTED", src), {}))
  BY Said DEF Typed, Result, Handed
<1> QED BY <1>1, <1>2, <1>3 DEF RxRequest

LEMMA AnswerTypes ==
  ASSUME ses \in Session, saps \in SUBSET Sap, NEW src \in Node \cup {None}
  PROVE  /\ Typed(RxConfirm) /\ Typed(RxRejected)
         /\ Typed(RxTerminate(src)) /\ Typed(RxTerminateConfirm)
<1>1. /\ Tell("established") \in SUBSET News /\ Tell("rejected") \in SUBSET News
      /\ TellEach(ses) \cup Tell("terminated") \in SUBSET News
      /\ To("TERMINATE_CONFIRM", src) \in SUBSET Out
  BY Said, SaidEach DEF Event, Handed
<1>2. [ses EXCEPT !.awaitResp = FALSE, !.state = "ACTIVE"] \in Session
  BY DEF Session
<1>3. [ses EXCEPT !.awaitResp = FALSE, !.state = "IDLE", !.type = "SOFT"] \in Session
  BY DEF Session
<1>4. Ended(ses) \in Session
  BY EndedType
<1>5. Typed(RxConfirm)
  BY <1>1, <1>2 DEF RxConfirm, Typed, Result
<1>6. Typed(RxRejected)
  BY <1>1, <1>3 DEF RxRejected, Typed, Result
<1>7. Typed(RxTerminate(src)) /\ Typed(RxTerminateConfirm)
  BY <1>1, <1>4 DEF RxTerminate, RxTerminateConfirm, Typed, Result
<1> QED BY <1>5, <1>6, <1>7

LEMMA RxDataType ==
  ASSUME ses \in Session, view.remote \in Node \cup {None}, NEW src \in Node \cup {None},
         NEW d \in [type : {"DATA"}, sap : Sap, confirm : BOOLEAN], NEW viaArq
  PROVE  Typed(RxData(src, d, viaArq))
<1> DEFINE to == IF viaArq /\ view.state = "MADE" THEN view.remote ELSE src
           type == IF d.sap \in saps THEN "DELIVERY_CONFIRM" ELSE "DELIVERY_FAIL"
           out == IF d.confirm THEN {[type |-> type, to |-> to, for |-> src]} ELSE {}
           news == IF d.sap \in saps THEN TellSap("unidata", d.sap) ELSE {}
<1>1. to \in Node \cup {None} /\ type \in Handed
  BY DEF Handed
<1> HIDE DEF to, type
<1>2. out \in SUBSET Out
  BY <1>1 DEF Out
<1>3. news \in SUBSET News
  BY DEF TellSap, News, Event
<1> HIDE DEF out, news
<1>4. RxData(src, d, viaArq) = Result(ses, out, news)
  BY DEF RxData, out, news, to, type
<1> QED BY <1>2, <1>3, <1>4 DEF Typed, Result

LEMMA RxType ==
  ASSUME ses \in Session, saps \in SUBSET Sap, view.remote \in Node \cup {None},
         NEW spdu \in Spdu, NEW src \in Node \cup {None}, NEW viaArq
  PROVE  Typed(Rx(spdu, src, viaArq))
<1>1. CASE spdu \in [type : {"REQUEST"}, kind : LinkKind, priority : Priority, sap : Sap]
  <2>1. Rx(spdu, src, viaArq) = RxRequest(src, spdu)
    BY <1>1 DEF Rx
  <2> QED BY <1>1, <2>1, RequestType
<1>2. CASE spdu \in [type : {"CONFIRM", "REJECTED", "TERMINATE", "TERMINATE_CONFIRM"}]
  <2>1. Rx(spdu, src, viaArq) \in {RxConfirm, RxRejected, RxTerminate(src), RxTerminateConfirm}
    BY <1>2 DEF Rx
  <2> QED BY <2>1, AnswerTypes
<1>3. CASE spdu \in [type : {"DATA"}, sap : Sap, confirm : BOOLEAN]
  <2>1. Rx(spdu, src, viaArq) = RxData(src, spdu, viaArq)
    BY <1>3 DEF Rx
  <2> QED BY <1>3, <2>1, RxDataType
<1>4. CASE spdu \in [type : {"DELIVERY_CONFIRM", "DELIVERY_FAIL"}, sap : Sap]
  <2>1. Rx(spdu, src, viaArq) \in {Result(ses, {}, TellSap("request_confirm", spdu.sap)),
                                   Result(ses, {}, TellSap("request_rejected", spdu.sap))}
    BY <1>4 DEF Rx
  <2>2. \A e \in Event : TellSap(e, spdu.sap) \in SUBSET News
    BY <1>4, Said
  <2> QED BY <2>1, <2>2 DEF Typed, Result, Event
<1> QED BY <1>1, <1>2, <1>3, <1>4 DEF Spdu

LEMMA PromotedType == ASSUME NEW s \in Session PROVE Promoted(s) \in Session
<1>1. CASE s.backlog = <<>>
  BY <1>1 DEF Promoted
<1>2. CASE s.backlog # <<>>
  <2>1. Head(s.backlog) \in Indication /\ Tail(s.backlog) \in Seq(Indication)
    BY <1>2, SessionFields
  <2>2. [s EXCEPT !.pending = Head(s.backlog), !.backlog = Tail(@)] \in Session
    BY <2>1 DEF Session
  <2> QED BY <1>2, <2>2 DEF Promoted
<1> QED BY <1>1, <1>2
-----------------------------------------------------------------------------
(* The view stays a view.                                                  *)
LEMMA ViewMoves ==
  ASSUME NEW v \in View
  PROVE  /\ v.state \in CasState /\ v.remote \in Node \cup {None}
         /\ \A w \in ByPeer(v) \cup ByTimer(v) : w \in View
         /\ \A r \in Node : Calling(r) \in View
         /\ MayBreak(v) => Breaking(v) \in View
<1>1. v = Idle \/ v \in [state : CasState \ {"IDLE"}, remote : Node]
  BY DEF View
<1>2. v.state \in CasState /\ v.remote \in Node \cup {None}
  BY <1>1 DEF Idle, CasState
<1>3. v.state # "IDLE" => v.remote \in Node
  BY <1>1 DEF Idle
<1>4. \A s \in CasState \ {"IDLE"}, r \in Node : Seen(s, r) \in View
  BY DEF Seen, View
<1>5. ASSUME NEW w \in ByPeer(v) PROVE w \in View
  <2>1. Idle \in View /\ "MADE" \in CasState \ {"IDLE"} /\ "FAILED" \in CasState \ {"IDLE"}
    BY DEF View, CasState
  <2>2. CASE v.state = "IDLE"
    BY <1>4, <1>5, <2>1, <2>2 DEF ByPeer
  <2>3. CASE v.state \in {"CALLING", "FAILED"}
    <3>1. w \in {Seen("MADE", v.remote), Seen("FAILED", v.remote), Idle}
      BY <1>5, <2>3 DEF ByPeer
    <3> QED BY <1>3, <1>4, <2>1, <2>3, <3>1
  <2>4. CASE v.state \in {"MADE", "BREAKING"}
    BY <1>5, <2>1, <2>4 DEF ByPeer
  <2> QED BY <1>2, <2>2, <2>3, <2>4 DEF CasState
<1>6. ASSUME NEW w \in ByTimer(v) PROVE w \in View
  BY <1>2, <1>3, <1>4, <1>6 DEF ByTimer, View, CasState
<1>7. \A r \in Node : Calling(r) \in View
  BY <1>4 DEF Calling, CasState
<1>8. MayBreak(v) => Breaking(v) \in View
  BY <1>3, <1>4 DEF MayBreak, Breaking, CasState
<1> QED BY <1>2, <1>5, <1>6, <1>7, <1>8

LEMMA InitTypes == Init => TypeOK
<1>1. Idle \in View /\ "IDLE" \in CasState
  BY DEF View, CasState
<1>2. <<>> \in Seq(Upd) /\ <<>> \in Seq(Spdu) /\ <<>> \in Seq([spdu : Spdu, src : Node])
  OBVIOUS
<1>3. Len(<<>>) = 0 /\ 0 <= MaxQueue
  OBVIOUS
<1>4. SUFFICES ASSUME Init PROVE TypeOK
  OBVIOUS
<1>5. /\ view \in View /\ prevDts \in CasState \cup {None} /\ prevSis \in CasState
      /\ ses \in Session
  BY <1>1, <1>4, NoSessionType DEF Init
<1>6. queue \in Seq(Upd) /\ Len(queue) <= MaxQueue /\ arqIn \in Seq(Spdu)
      /\ nonArqIn \in Seq([spdu : Spdu, src : Node])
  BY <1>2, <1>3, <1>4 DEF Init
<1>7. counts \in [Sap -> Nat] /\ asked \in [Sap -> Node \cup {None}] /\ saps \in SUBSET Sap
  BY <1>4 DEF Init
<1>8. /\ pc \in Steps /\ weInit \in BOOLEAN /\ deferred \in BOOLEAN /\ flowOn \in BOOLEAN
      /\ sent = {} /\ told = {} /\ peers = 0 /\ apis = 0 /\ rx = 0
  BY <1>4 DEF Init, Steps
<1> QED BY <1>5, <1>6, <1>7, <1>8 DEF TypeOK

(* The clients.                                                            *)
LEMMA BindTypes == ASSUME TypeOK, NEW s \in Sap, Bind(s) \/ Unbind(s) PROVE TypeOK'
<1>1. apis' \in 0 .. MaxApi
  BY DEF Bind, Unbind, Calls, TypeOK
<1>2. saps' \in SUBSET Sap /\ sent' = {} /\ told' = {}
  BY DEF Bind, Unbind, TypeOK
<1>3. UNCHANGED <<pc, cas, weInit, deferred, ses, counts, queue, flowOn, inbox, asked, peers, rx>>
  BY DEF Bind, Unbind
<1> QED BY <1>1, <1>2, <1>3, SMTT(30) DEF cas, inbox, TypeOK

LEMMA EnqueueTypes ==
  ASSUME TypeOK, NEW upd \in Upd, Len(queue) < MaxQueue, Enqueue(upd)
  PROVE  queue' \in Seq(Upd) /\ Len(queue') <= MaxQueue /\ told' \in SUBSET News
<1>1. queue \in Seq(Upd) /\ Append(queue, upd) \in Seq(Upd) /\ Len(queue) \in Nat
      /\ Len(Append(queue, upd)) = Len(queue) + 1 /\ Len(queue) <= MaxQueue
  BY AppendProperties, LenProperties DEF TypeOK
<1>2. upd.sap \in Sap
  BY DEF Upd
<1>3. TellSap("request_rejected", upd.sap) \in SUBSET News
  BY <1>2, Said DEF Event
<1>4. PICK n \in Nat : n = Len(queue) /\ Len(Append(queue, upd)) = n + 1
  BY <1>1
<1>5. n + 1 <= MaxQueue /\ n <= MaxQueue
  BY <1>4
<1>6. CASE flowOn
  BY <1>1, <1>4, <1>5, <1>6 DEF Enqueue
<1>7. CASE ~flowOn
  BY <1>1, <1>3, <1>7 DEF Enqueue
<1> QED BY <1>6, <1>7

LEMMA UnidataTypes ==
  ASSUME TypeOK, NEW s \in Sap, NEW r \in Node, NEW mode \in {"ARQ", "NON_ARQ"}, NEW p \in Priority,
         UnidataRequest(s, r, mode, p)
  PROVE  TypeOK'
<1>1. apis' \in 0 .. MaxApi
  BY DEF UnidataRequest, Calls, TypeOK
<1>2. PICK upd \in Upd : Enqueue(upd)
  BY DEF UnidataRequest, Upd
<1>3. queue' \in Seq(Upd) /\ Len(queue') <= MaxQueue /\ told' \in SUBSET News
  BY <1>2, EnqueueTypes DEF UnidataRequest
<1>4. UNCHANGED <<pc, cas, weInit, deferred, ses, saps, counts, flowOn, inbox, asked, peers, rx>>
      /\ sent' = {}
  BY DEF UnidataRequest
<1> QED BY <1>1, <1>3, <1>4 DEF cas, inbox, TypeOK, News

LEMMA ExpeditedTypes ==
  ASSUME TypeOK, NEW s \in Sap, NEW r \in Node, ExpeditedRequest(s, r) PROVE TypeOK'
<1>1. apis' \in 0 .. MaxApi
  BY DEF ExpeditedRequest, Calls, TypeOK
<1>2. UNCHANGED <<pc, cas, weInit, deferred, ses, flowOn, inbox, asked, peers, rx>> /\ sent' = {}
  BY DEF ExpeditedRequest
<1>3. /\ queue' \in Seq(Upd) /\ Len(queue') <= MaxQueue /\ told' \in SUBSET News
      /\ saps' \in SUBSET Sap /\ counts' \in [Sap -> Nat]
  <2>1. CASE MaxExpedited > 0 /\ counts[s] = MaxExpedited
    <3>1. TellSap("unbind", s) \in SUBSET News
      BY Said DEF Event
    <3> QED BY <2>1, <3>1 DEF ExpeditedRequest, TypeOK
  <2>2. CASE ~(MaxExpedited > 0 /\ counts[s] = MaxExpedited)
    <3>1. PICK upd \in Upd : Enqueue(upd)
      <4>1. [sap |-> s, dest |-> r, mode |-> "EXPEDITED", priority |-> 0] \in Upd
        BY DEF Upd
      <4> QED BY <2>2, <4>1 DEF ExpeditedRequest
    <3>2. queue' \in Seq(Upd) /\ Len(queue') <= MaxQueue /\ told' \in SUBSET News
      BY <3>1, EnqueueTypes DEF ExpeditedRequest
    <3>3. saps' \in SUBSET Sap /\ counts' \in [Sap -> Nat]
      BY <2>2 DEF ExpeditedRequest, TypeOK
    <3> QED BY <3>2, <3>3
  <2> QED BY <2>1, <2>2
<1> QED BY <1>1, <1>2, <1>3 DEF cas, inbox, TypeOK, News

LEMMA MakeLinkTypes ==
  ASSUME TypeOK, NEW r \in Node, NEW exclusive, MakeLink(r, exclusive) PROVE view' \in View
<1>1. view \in View
  BY DEF TypeOK
<1> QED BY <1>1, ViewMoves DEF MakeLink

LEMMA EstablishTypes ==
  ASSUME TypeOK, NEW s \in Sap, NEW r \in Node, NEW kind \in LinkKind, NEW p \in Priority,
         HardLinkEstablish(s, r, kind, p)
  PROVE  TypeOK'
<1>1. apis' \in 0 .. MaxApi
  BY SMTT(30) DEF HardLinkEstablish, Calls, TypeOK
<1>2. view' \in View
  BY MakeLinkTypes DEF HardLinkEstablish
<1>3. ses' \in Session
  <2>1. ses \in Session /\ Rank[s] \in Nat
    BY DEF TypeOK
  <2>2. [ses EXCEPT !.state = "ESTABLISHING", !.type = "HARD", !.remote = r,
                    !.rank = Rank[s], !.initiator = s, !.priority = p, !.kind = kind] \in Session
    BY <2>1 DEF Session
  <2> QED BY <2>2 DEF HardLinkEstablish
<1>4. asked' \in [Sap -> Node \cup {None}]
  BY DEF HardLinkEstablish, TypeOK
<1>5. /\ weInit' = TRUE /\ sent' = {} /\ told' = {}
      /\ UNCHANGED <<pc, prevDts, prevSis, deferred, clients, inbox, peers, rx>>
  BY DEF HardLinkEstablish
<1> QED BY <1>1, <1>2, <1>3, <1>4, <1>5 DEF clients, inbox, TypeOK

LEMMA TerminateTypes == ASSUME TypeOK, NEW s \in Sap, HardLinkTerminate(s) PROVE TypeOK'
<1>1. apis' \in 0 .. MaxApi
  BY DEF HardLinkTerminate, Calls, TypeOK
<1>2. ses' \in Session
  BY DEF HardLinkTerminate, Session, TypeOK
<1>3. sent' \in SUBSET Out /\ told' = {}
  <2>1. asked[s] \in Node \cup {None}
    BY DEF TypeOK
  <2>2. To("TERMINATE", asked[s]) \in SUBSET Out
    BY <2>1, Said DEF Handed
  <2> QED BY <2>2 DEF HardLinkTerminate
<1>4. UNCHANGED <<pc, cas, weInit, deferred, clients, inbox, asked, peers, rx>>
  BY DEF HardLinkTerminate
<1> QED BY <1>1, <1>2, <1>3, <1>4 DEF cas, clients, inbox, TypeOK, Out

LEMMA PendingType ==
  ASSUME TypeOK, ses.pending # None
  PROVE  /\ ses \in Session /\ ses.pending \in Indication
         /\ ses.pending.src \in Node \cup {None} /\ ses.pending.kind \in LinkKind
         /\ ses.pending.priority \in Priority
         /\ TellPromoted(ses) \in SUBSET News
<1>1. ses \in Session
  BY DEF TypeOK
<1>2. ses.pending \in Indication
  BY <1>1, SessionFields
<1>3. Tell("indication") \in SUBSET News
  BY Said DEF Event
<1> QED BY <1>1, <1>2, <1>3 DEF Indication, TellPromoted

LEMMA AcceptTypes ==
  ASSUME TypeOK, NEW local \in Sap \cup {None}, HardLinkAccept(local) PROVE TypeOK'
<1> DEFINE p == ses.pending
           s == [ses EXCEPT !.state = "ACTIVE", !.type = "HARD", !.remote = p.src,
                            !.kind = p.kind, !.priority = p.priority,
                            !.initiator = local, !.pending = None]
<1>1. /\ ses \in Session /\ p.src \in Node \cup {None} /\ p.kind \in LinkKind
      /\ p.priority \in Priority /\ TellPromoted(ses) \in SUBSET News
  BY PendingType DEF HardLinkAccept
<1>2. /\ ses' = Promoted(s) /\ sent' = To("CONFIRM", p.src)
      /\ asked' = [x \in Sap |-> IF x = local THEN p.src ELSE asked[x]]
      /\ told' = Tell("established") \cup TellPromoted(ses)
      /\ UNCHANGED <<pc, cas, weInit, deferred, clients, inbox, peers, rx>>
  BY DEF HardLinkAccept
<1> HIDE DEF p
<1>3. s \in Session
  BY <1>1 DEF Session
<1> HIDE DEF s
<1>4. ses' \in Session
  BY <1>2, <1>3, PromotedType
<1>5. sent' \in SUBSET Out /\ told' \in SUBSET News
  BY <1>1, <1>2, Said DEF Event, Handed
<1>6. asked' \in [Sap -> Node \cup {None}]
  BY <1>1, <1>2 DEF TypeOK
<1>7. apis' \in 0 .. MaxApi
  BY DEF HardLinkAccept, TypeOK
<1> QED BY <1>2, <1>4, <1>5, <1>6, <1>7 DEF cas, clients, inbox, TypeOK, Out, News

LEMMA RejectTypes == ASSUME TypeOK, HardLinkReject PROVE TypeOK'
<1>1. ses \in Session /\ ses.pending.src \in Node \cup {None} /\ TellPromoted(ses) \in SUBSET News
  BY PendingType DEF HardLinkReject
<1>2. [ses EXCEPT !.pending = None] \in Session
  BY <1>1 DEF Session
<1>3. ses' \in Session
  BY <1>2, PromotedType DEF HardLinkReject
<1>4. sent' \in SUBSET Out /\ told' \in SUBSET News
  BY <1>1, Said DEF HardLinkReject, Handed
<1>5. apis' \in 0 .. MaxApi
  BY DEF HardLinkReject, TypeOK
<1>6. UNCHANGED <<pc, cas, weInit, deferred, clients, inbox, asked, peers, rx>>
  BY DEF HardLinkReject
<1> QED BY <1>3, <1>4, <1>5, <1>6 DEF cas, clients, inbox, TypeOK, Out, News

LEMMA FlowTypes == ASSUME TypeOK, SetFlow \/ BreakLink PROVE TypeOK'
<1>1. apis' \in 0 .. MaxApi /\ sent' = {} /\ told' = {}
  BY DEF SetFlow, BreakLink, TypeOK
<1>2. flowOn' \in BOOLEAN
  <2>1. flowOn \in BOOLEAN /\ flowOn' \in {flowOn, ~flowOn}
    BY DEF SetFlow, BreakLink, clients, TypeOK
  <2> QED BY <2>1
<1>3. view' \in View
  BY ViewMoves DEF SetFlow, BreakLink, cas, TypeOK
<1>4. UNCHANGED <<pc, prevDts, prevSis, weInit, deferred, ses, saps, counts, queue, inbox, asked, peers, rx>>
  BY DEF SetFlow, BreakLink, cas, clients
<1> QED BY <1>1, <1>2, <1>3, <1>4 DEF inbox, TypeOK

LEMMA ClientTypes == ASSUME TypeOK, NEW s \in Sap, Client(s) PROVE TypeOK'
BY BindTypes, TerminateTypes, UnidataTypes, ExpeditedTypes, EstablishTypes DEF Client
-----------------------------------------------------------------------------
(* What comes in, and the tick.                                            *)
LEMMA ReceiveTypes == ASSUME TypeOK, Receive PROVE TypeOK'
<1>1. rx' \in 0 .. MaxRx /\ peers' \in 0 .. MaxPeer
  <2>1. Receives
    BY DEF Receive, RxArq, RxNonArq, RxControl
  <2>2. rx \in 0 .. MaxRx /\ peers \in 0 .. MaxPeer
    BY DEF TypeOK
  <2> QED BY <2>1, <2>2 DEF Receives
<1>2. sent' = {} /\ told' = {} /\ pc' \in Steps
  BY DEF Receive, RxArq, RxNonArq, RxControl, Quiet, Step, Steps
<1>3. UNCHANGED <<prevDts, prevSis, weInit, deferred, ses, saps, counts, queue, flowOn, asked, apis>>
  BY DEF Receive, RxArq, RxNonArq, RxControl, SameSession, clients, cas
<1>4. view' \in View
  BY ViewMoves DEF Receive, RxArq, RxNonArq, RxControl, cas, TypeOK
<1>5. arqIn' \in Seq(Spdu) /\ nonArqIn' \in Seq([spdu : Spdu, src : Node])
  <2>1. InputType
    BY ViewMoves DEF InputType, TypeOK
  <2> QED BY <2>1, ReceiveInput DEF InputType
<1> QED BY <1>1, <1>2, <1>3, <1>4, <1>5 DEF TypeOK

(* The step is over and nothing else has changed, or only what is looked   *)
(* at once a tick.                                                         *)
LEMMA DoneTypes ==
  ASSUME TypeOK,
         \/ TickStart \/ RxArqDone \/ RxNonArqDone \/ DtsCas \/ CasTick \/ ProcessDone
         \/ RequestWaits \/ TimeoutsDone \/ PurgeDone \/ KeepSoftLink
  PROVE  TypeOK'
<1>1. sent' = {} /\ told' = {} /\ pc' \in Steps
  BY DEF TickStart, RxArqDone, RxNonArqDone, DtsCas, CasTick, ProcessDone, RequestWaits, TimeoutsDone,
         PurgeDone, KeepSoftLink, Quiet, Step, Steps
<1>2. UNCHANGED <<deferred, ses, saps, counts, queue, flowOn, asked, arqIn, nonArqIn, peers, apis>>
  BY DEF TickStart, RxArqDone, RxNonArqDone, DtsCas, CasTick, ProcessDone, RequestWaits, TimeoutsDone,
         PurgeDone, KeepSoftLink, SameSession, clients, inbox, bounds
<1>3. rx' \in 0 .. MaxRx
  BY DEF TickStart, RxArqDone, RxNonArqDone, DtsCas, CasTick, ProcessDone, RequestWaits, TimeoutsDone,
         PurgeDone, KeepSoftLink, bounds, TypeOK
<1>4. view' \in View /\ prevDts' \in CasState \cup {None} /\ prevSis' \in CasState
  <2>1. view \in View /\ prevDts \in CasState \cup {None} /\ prevSis \in CasState
    BY DEF TypeOK
  <2>2. CASE DtsCas
    BY <2>1, <2>2, ViewMoves DEF DtsCas
  <2>3. CASE CasTick
    BY <2>1, <2>3, ViewMoves DEF CasTick
  <2>4. CASE ~DtsCas /\ ~CasTick
    <3>1. UNCHANGED cas
      BY <2>4 DEF TickStart, RxArqDone, RxNonArqDone, ProcessDone, RequestWaits, TimeoutsDone,
         PurgeDone, KeepSoftLink
    <3> QED BY <2>1, <3>1 DEF cas
  <2> QED BY <2>2, <2>3, <2>4
<1>5. weInit' \in BOOLEAN
  BY DEF TickStart, RxArqDone, RxNonArqDone, DtsCas, CasTick, ProcessDone, RequestWaits, TimeoutsDone,
         PurgeDone, KeepSoftLink, SameSession, TypeOK
<1> QED BY <1>1, <1>2, <1>3, <1>4, <1>5 DEF TypeOK

LEMMA ProcessTypes == ASSUME TypeOK, ProcessArq \/ ProcessNonArq PROVE TypeOK'
<1>1. /\ ses \in Session /\ saps \in SUBSET Sap /\ view.remote \in Node \cup {None}
  BY ViewMoves DEF TypeOK
<1> DEFINE S == [spdu : Spdu, src : Node]
<1>6. \A m \in S : m.spdu \in Spdu /\ m.src \in Node
  OBVIOUS
<1>7. arqIn \in Seq(Spdu) /\ nonArqIn \in Seq(S)
  BY DEF TypeOK
<1> HIDE DEF S
<1>2. PICK spdu \in Spdu, src \in Node \cup {None}, viaArq \in BOOLEAN : Process(spdu, src, viaArq)
  <2>1. CASE ProcessArq
    <3>1. Head(arqIn) \in Spdu
      BY <1>7, <2>1 DEF ProcessArq
    <3> QED BY <1>1, <2>1, <3>1 DEF ProcessArq
  <2>2. CASE ProcessNonArq
    <3>1. Head(nonArqIn) \in S
      BY <1>7, <2>2 DEF ProcessNonArq
    <3>2. Head(nonArqIn).spdu \in Spdu /\ Head(nonArqIn).src \in Node
      BY <1>6, <3>1
    <3> QED BY <2>2, <3>2 DEF ProcessNonArq
  <2> QED BY <2>1, <2>2
<1>3. ses' \in Session /\ sent' \in SUBSET Out /\ told' \in SUBSET News
  <2>1. Typed(Rx(spdu, src, viaArq))
    BY <1>1, RxType
  <2> QED BY <1>2, <2>1 DEF Process, Typed
<1>4. arqIn' \in Seq(Spdu) /\ nonArqIn' \in Seq(S)
  <2>1. CASE ProcessArq
    <3>1. arqIn # <<>> /\ arqIn' = Tail(arqIn) /\ nonArqIn' = nonArqIn
      BY <2>1 DEF ProcessArq
    <3>2. arqIn' \in Seq(Spdu)
      BY <1>7, <3>1, HeadTailProperties
    <3> QED BY <1>7, <3>1, <3>2
  <2>2. CASE ProcessNonArq
    <3>1. nonArqIn # <<>> /\ nonArqIn' = Tail(nonArqIn) /\ arqIn' = arqIn
      BY <2>2 DEF ProcessNonArq
    <3>2. nonArqIn' \in Seq(S)
      BY <1>7, <3>1, HeadTailProperties
    <3> QED BY <1>7, <3>1, <3>2
  <2> QED BY <2>1, <2>2
<1>5. pc' \in Steps /\ UNCHANGED <<cas, weInit, deferred, clients, asked, bounds>>
  BY <1>2 DEF Process, Step, Steps
<1> QED BY <1>3, <1>4, <1>5 DEF cas, clients, bounds, TypeOK, Out, News, S

(* U_PDUs that leave the queue.                                            *)
LEMMA KeptTypes ==
  ASSUME TypeOK, NEW places \in SUBSET DOMAIN queue, queue' = Kept(places)
  PROVE  queue' \in Seq(Upd) /\ Len(queue') <= MaxQueue
<1>1. queue \in Seq(Upd) /\ Len(queue) <= MaxQueue /\ Len(queue) \in Nat
  BY LenProperties DEF TypeOK
<1>2. queue' \in Seq(Upd) /\ Len(queue') <= Len(queue)
  BY <1>1, KeptFacts
<1>3. Len(queue') \in Nat
  BY <1>2, LenProperties
<1> QED BY <1>1, <1>2, <1>3

LEMMA RejectedTypes ==
  ASSUME TypeOK, RejectPending
  PROVE  queue' \in Seq(Upd) /\ Len(queue') <= MaxQueue /\ TellRejected \in SUBSET News
<1>1. queue' \in Seq(Upd) /\ Len(queue') <= MaxQueue
  BY KeptTypes DEF RejectPending
<1>2. \A u \in Range(queue) : u.sap \in Sap
  <2>1. \A i \in DOMAIN queue : queue[i] \in Upd
    BY LenProperties DEF TypeOK
  <2> QED BY <2>1 DEF Range, Upd
<1>3. \A u \in Range(queue) : TellSap("request_rejected", u.sap) \in SUBSET News
  BY <1>2, Said DEF Event
<1>4. TellRejected \in SUBSET News
  BY <1>3 DEF TellRejected
<1> QED BY <1>1, <1>4

LEMMA WatchTypes ==
  ASSUME TypeOK, SeesMade \/ SeesLost \/ SeesCallFailed \/ SeesNothing PROVE TypeOK'
<1>1. PICK changed \in BOOLEAN : Watch(changed)
  BY DEF SeesMade, SeesLost, SeesCallFailed, SeesNothing, Watch
<1>2. /\ pc' \in Steps /\ prevSis' \in CasState
      /\ UNCHANGED <<view, prevDts, saps, counts, flowOn, inbox, asked, bounds>>
  BY <1>1, ViewMoves DEF Watch, Step, Steps, TypeOK
<1>3. ses' \in Session
  <2>1. ses \in Session
    BY DEF TypeOK
  <2>2. /\ [ses EXCEPT !.state = "ACTIVE"] \in Session
        /\ [ses EXCEPT !.state = "IDLE"] \in Session
        /\ [ses EXCEPT !.state = "IDLE", !.type = "SOFT", !.pending = None] \in Session
    BY <2>1 DEF Session
  <2>3. ses' \in {ses, [ses EXCEPT !.state = "ACTIVE"], [ses EXCEPT !.state = "IDLE"],
                  [ses EXCEPT !.state = "IDLE", !.type = "SOFT", !.pending = None]}
    BY DEF SeesMade, SeesLost, SeesCallFailed, SeesNothing
  <2> QED BY <2>1, <2>2, <2>3
<1>4. sent' = {} /\ weInit' \in BOOLEAN /\ deferred' \in BOOLEAN
  BY DEF SeesMade, SeesLost, SeesCallFailed, SeesNothing, Quiet, TypeOK
<1>5. queue' \in Seq(Upd) /\ Len(queue') <= MaxQueue
  <2>1. UNCHANGED queue \/ RejectPending
    BY DEF SeesMade, SeesLost, SeesCallFailed, SeesNothing
  <2>2. CASE UNCHANGED queue
    BY <2>2 DEF TypeOK
  <2> QED BY <2>1, <2>2, RejectedTypes
<1>6. told' \in SUBSET News
  <2>1. Tell("established") \in SUBSET News /\ Tell("terminated") \in SUBSET News
    BY Said DEF Event
  <2>2. CASE SeesMade
    BY <2>1, <2>2 DEF SeesMade
  <2>3. CASE SeesLost
    BY <2>1, <2>3, RejectedTypes DEF SeesLost
  <2>4. CASE SeesCallFailed
    BY <2>4, RejectedTypes DEF SeesCallFailed
  <2>5. CASE SeesNothing
    BY <2>5 DEF SeesNothing, Quiet
  <2> QED BY <2>2, <2>3, <2>4, <2>5
<1> QED BY <1>2, <1>3, <1>4, <1>5, <1>6 DEF inbox, bounds, TypeOK, News

LEMMA RequestTypes == ASSUME TypeOK, SendRequest PROVE TypeOK'
<1>1. ses \in Session /\ ses.remote \in Node \cup {None}
  BY SessionFields DEF TypeOK
<1>2. ses' \in Session
  BY <1>1 DEF SendRequest, Session
<1>3. sent' \in SUBSET Out
  BY <1>1, Said DEF SendRequest, Handed
<1>4. /\ pc' \in Steps /\ deferred' = FALSE /\ told' = {}
      /\ UNCHANGED <<cas, weInit, clients, inbox, asked, bounds>>
  BY DEF SendRequest, Step, Steps
<1> QED BY <1>2, <1>3, <1>4 DEF cas, clients, inbox, bounds, TypeOK, Out

LEMMA TimeoutTypes == ASSUME TypeOK, ResponseTimeout \/ TerminateTimeout PROVE TypeOK'
<1>1. ses \in Session /\ Tell("rejected") \in SUBSET News /\ Tell("terminated") \in SUBSET News
  BY Said DEF Event, TypeOK
<1>2. ses' \in Session
  <2>1. /\ [ses EXCEPT !.awaitResp = FALSE] \in Session
        /\ [ses EXCEPT !.awaitTerm = FALSE] \in Session
    BY <1>1 DEF Session
  <2>2. \A s \in Session : [s EXCEPT !.state = "IDLE", !.type = "SOFT"] \in Session
    BY DEF Session
  <2> QED BY <2>1, <2>2 DEF ResponseTimeout, TerminateTimeout, Timeout
<1>3. /\ told' \in SUBSET News /\ sent' = {} /\ pc' \in Steps
      /\ UNCHANGED <<cas, weInit, deferred, clients, inbox, asked, bounds>>
  BY <1>1 DEF ResponseTimeout, TerminateTimeout, Timeout, Step, Steps
<1> QED BY <1>2, <1>3 DEF cas, clients, inbox, bounds, TypeOK, News

LEMMA ExpireTypes == ASSUME TypeOK, NEW i, Expire(i) PROVE TypeOK'
<1>1. queue \in Seq(Upd) /\ Len(queue) <= MaxQueue /\ Len(queue) \in Nat /\ i \in DOMAIN queue
  BY LenProperties DEF Expire, TypeOK
<1>2. queue' \in Seq(Upd) /\ Len(queue') <= Len(queue)
  BY <1>1, RemovedFacts DEF Expire
<1>3. Len(queue') \in Nat
  BY <1>2, LenProperties
<1>4. queue[i].sap \in Sap
  <2>1. queue[i] \in Upd
    BY <1>1, LenProperties
  <2> QED BY <2>1 DEF Upd
<1>5. told' \in SUBSET News /\ sent' = {}
  BY <1>4, Said DEF Expire, Event
<1>6. pc' \in Steps /\ UNCHANGED <<cas, saps, counts, flowOn, inbox, bounds>> /\ SameSession
  BY DEF Expire, Step, Steps
<1> QED BY <1>1, <1>2, <1>3, <1>5, <1>6 DEF cas, inbox, bounds, SameSession, TypeOK, News

LEMMA SendingType == ASSUME TypeOK, NEW u \in Upd PROVE Sending(u) \in Out
<1>1. view.remote \in Node \cup {None}
  BY ViewMoves DEF TypeOK
<1>2. u.dest \in Node /\ u.mode \in {"ARQ", "EXPEDITED", "NON_ARQ"}
  BY DEF Upd
<1>3. u.mode \in Handed
  BY <1>2 DEF Handed
<1>4. PICK to \in Node \cup {None} : Sending(u) = [type |-> u.mode, for |-> u.dest, to |-> to]
  BY <1>1, <1>2 DEF Sending
<1> QED BY <1>2, <1>3, <1>4 DEF Out

LEMMA DispatchTypes == ASSUME TypeOK, Dispatch PROVE TypeOK'
<1> DEFINE stays == {i \in DOMAIN queue : ~Leaves(i)}
<1>1. ASSUME flowOn PROVE queue' \in Seq(Upd) /\ Len(queue') <= MaxQueue /\ sent' \in SUBSET Out
  <2>1. stays \in SUBSET DOMAIN queue /\ queue' = Kept(stays)
        /\ sent' = {Sending(queue[i]) : i \in DOMAIN queue \ stays}
    BY <1>1 DEF Dispatch
  <2> HIDE DEF stays
  <2>2. queue' \in Seq(Upd) /\ Len(queue') <= MaxQueue
    BY <2>1, KeptTypes
  <2>3. \A i \in DOMAIN queue : queue[i] \in Upd
    BY LenProperties DEF TypeOK
  <2>4. \A i \in DOMAIN queue : Sending(queue[i]) \in Out
    BY <2>3, SendingType
  <2> QED BY <2>1, <2>2, <2>4
<1>2. ASSUME ~flowOn PROVE queue' \in Seq(Upd) /\ Len(queue') <= MaxQueue /\ sent' \in SUBSET Out
  <2>1. queue' = queue /\ sent' = {}
    BY <1>2 DEF Dispatch
  <2> QED BY <2>1 DEF TypeOK
<1>3. /\ pc' \in Steps /\ told' = {}
      /\ UNCHANGED <<cas, saps, counts, flowOn, inbox, bounds>> /\ SameSession
  BY DEF Dispatch, Step, Steps
<1> QED BY <1>1, <1>2, <1>3 DEF cas, inbox, bounds, SameSession, TypeOK, Out

LEMMA SoftLinkTypes == ASSUME TypeOK, MakeSoftLink \/ BreakSoftLink PROVE TypeOK'
<1>1. /\ pc' \in Steps /\ sent' = {} /\ told' = {} /\ weInit' \in BOOLEAN
      /\ UNCHANGED <<prevDts, prevSis, deferred, clients, inbox, asked, bounds>>
  BY DEF MakeSoftLink, BreakSoftLink, Step, Steps, Quiet, TypeOK
<1>2. view' \in View /\ ses' \in Session
  <2>1. CASE MakeSoftLink
    <3> DEFINE dest == queue[SelectInSeq(queue, IsArq)].dest
    <3>1. queue \in Seq(Upd) /\ ArqPending
      BY <2>1 DEF MakeSoftLink, NeedsLink, TypeOK
    <3>2. queue[SelectInSeq(queue, IsArq)] \in Upd
      BY <3>1, FirstArq
    <3>3. dest \in Node
      BY <3>2 DEF Upd
    <3>4. /\ ses' = [ses EXCEPT !.state = "ESTABLISHING", !.type = "SOFT", !.remote = dest]
          /\ MakeLink(dest, FALSE)
      BY <2>1 DEF MakeSoftLink
    <3> HIDE DEF dest
    <3>5. view' \in View
      BY <3>3, <3>4, MakeLinkTypes
    <3>6. ses' \in Session
      BY <3>3, <3>4 DEF TypeOK, Session
    <3> QED BY <3>5, <3>6
  <2>2. CASE BreakSoftLink
    <3>1. view' \in View
      BY <2>2, ViewMoves DEF BreakSoftLink, TypeOK
    <3>2. ses' \in Session
      BY <2>2 DEF BreakSoftLink, TypeOK, Session
    <3> QED BY <3>1, <3>2
  <2> QED BY <2>1, <2>2
<1> QED BY <1>1, <1>2 DEF clients, inbox, bounds, TypeOK

LEMMA TickTypes == ASSUME TypeOK, Tick PROVE TypeOK'
BY DoneTypes, ProcessTypes, WatchTypes, RequestTypes, TimeoutTypes, ExpireTypes, DispatchTypes,
   SoftLinkTypes DEF Tick

LEMMA StutterTypes == ASSUME TypeOK, UNCHANGED vars PROVE TypeOK'
BY DEF vars, TypeOK

(* The session, its queues and what is sent and told keep their types, for *)
(* any clients, nodes, ranks and priorities; no more than MaxQueue U_PDUs  *)
(* wait, and the view is one CasView knows (StanagNode.tick and its calls).*)
THEOREM TypeCorrect == Spec => []TypeOK
<1>1. TypeOK /\ Next => TypeOK'
  BY ClientTypes, AcceptTypes, RejectTypes, FlowTypes, ReceiveTypes, TickTypes DEF Next
<1>2. TypeOK /\ [Next]_vars => TypeOK'
  BY <1>1, StutterTypes
<1> QED BY <1>2, InitTypes, PTL DEF Spec
-----------------------------------------------------------------------------
(* UpdusAreAccounted of one step.                                          *)
Accounted ==
  \A i \in DOMAIN queue : queue[i] \notin Range(queue') =>
    \/ [event |-> "request_rejected", sap |-> queue[i].sap] \in told'
    \/ Sending(queue[i]) \in sent'

LEMMA QueueIsKept == ASSUME UNCHANGED queue PROVE Accounted
BY DEF Accounted, Range

LEMMA EnqueueAccounts == ASSUME TypeOK, NEW upd \in Upd, Enqueue(upd) PROVE Accounted
<1>1. CASE UNCHANGED queue
  BY <1>1, QueueIsKept
<1>2. CASE queue' = Append(queue, upd)
  <2>1. PICK n \in Nat : n = Len(queue) /\ DOMAIN queue = 1 .. n
    BY LenProperties DEF TypeOK
  <2>2. /\ \A i \in 1 .. n : queue'[i] = queue[i]
        /\ DOMAIN queue' = 1 .. (n + 1)
    BY <1>2, <2>1, AppendProperties, LenProperties DEF TypeOK
  <2>3. \A i \in 1 .. n : queue[i] \in Range(queue')
    BY <2>1, <2>2 DEF Range
  <2> QED BY <2>1, <2>3 DEF Accounted
<1> QED BY <1>1, <1>2 DEF Enqueue

LEMMA ClientAccounts == ASSUME TypeOK, NEW s \in Sap, Client(s) PROVE Accounted
<1>1. ASSUME NEW r \in Node, NEW mode \in {"ARQ", "NON_ARQ"}, NEW p \in Priority,
             UnidataRequest(s, r, mode, p)
      PROVE  Accounted
  <2>1. PICK upd \in Upd : Enqueue(upd)
    BY <1>1 DEF UnidataRequest, Upd
  <2> QED BY <2>1, EnqueueAccounts
<1>2. ASSUME NEW r \in Node, ExpeditedRequest(s, r) PROVE Accounted
  <2>1. UNCHANGED queue \/ \E upd \in Upd : Enqueue(upd)
    <3>1. [sap |-> s, dest |-> r, mode |-> "EXPEDITED", priority |-> 0] \in Upd
      BY DEF Upd
    <3> QED BY <1>2, <3>1 DEF ExpeditedRequest
  <2> QED BY <2>1, EnqueueAccounts, QueueIsKept
<1>3. ASSUME Bind(s) \/ Unbind(s) \/ HardLinkTerminate(s)
             \/ \E r \in Node, k \in LinkKind, p \in Priority : HardLinkEstablish(s, r, k, p)
      PROVE  Accounted
  BY <1>3, QueueIsKept DEF Bind, Unbind, HardLinkTerminate, HardLinkEstablish, clients
<1> QED BY <1>1, <1>2, <1>3 DEF Client

LEMMA RejectAccounts ==
  ASSUME TypeOK, RejectPending, TellRejected \in SUBSET told' PROVE Accounted
<1> DEFINE places == {i \in DOMAIN queue : NotArq(queue[i])}
<1>1. queue \in Seq(Upd) /\ places \in SUBSET DOMAIN queue /\ queue' = Kept(places)
  BY DEF RejectPending, TypeOK
<1>2. \A i \in places : queue[i] \in Range(queue')
  <2> HIDE DEF places
  <2> QED BY <1>1, KeptFacts
<1>3. ASSUME NEW i \in DOMAIN queue, i \notin places
      PROVE  [event |-> "request_rejected", sap |-> queue[i].sap] \in told'
  <2>1. IsArq(queue[i]) /\ queue[i] \in Range(queue)
    BY <1>3 DEF IsArq, NotArq, Range
  <2>2. TellSap("request_rejected", queue[i].sap) \in SUBSET told'
    BY <2>1 DEF TellRejected
  <2> QED BY <2>2 DEF TellSap
<1> QED BY <1>2, <1>3 DEF Accounted

LEMMA TickAccounts == ASSUME TypeOK, Tick PROVE Accounted
<1>1. CASE SeesLost \/ SeesCallFailed
  <2>1. UNCHANGED queue \/ (RejectPending /\ TellRejected \in SUBSET told')
    BY <1>1 DEF SeesLost, SeesCallFailed
  <2> QED BY <2>1, QueueIsKept, RejectAccounts
<1>2. ASSUME NEW i, Expire(i) PROVE Accounted
  <2>1. /\ queue \in Seq(Upd) /\ i \in DOMAIN queue /\ queue' = RemoveAt(queue, i)
        /\ [event |-> "request_rejected", sap |-> queue[i].sap] \in told'
    BY <1>2 DEF Expire, TellSap, TypeOK
  <2>2. \A j \in DOMAIN queue \ {i} : queue[j] \in Range(queue')
    BY <2>1, RemovedFacts
  <2> QED BY <2>1, <2>2 DEF Accounted
<1>3. CASE Dispatch
  <2>1. CASE UNCHANGED queue
    BY <2>1, QueueIsKept
  <2>2. CASE flowOn
    <3> DEFINE stays == {i \in DOMAIN queue : ~Leaves(i)}
    <3>1. queue \in Seq(Upd) /\ stays \in SUBSET DOMAIN queue /\ queue' = Kept(stays)
          /\ sent' = {Sending(queue[i]) : i \in DOMAIN queue \ stays}
      BY <1>3, <2>2 DEF Dispatch, TypeOK
    <3> HIDE DEF stays
    <3>2. \A i \in stays : queue[i] \in Range(queue')
      BY <3>1, KeptFacts
    <3> QED BY <3>1, <3>2 DEF Accounted
  <2> QED BY <1>3, <2>1, <2>2 DEF Dispatch
<1>4. CASE \/ TickStart \/ RxArqDone \/ RxNonArqDone \/ DtsCas \/ CasTick
           \/ ProcessArq \/ ProcessNonArq \/ ProcessDone \/ SeesMade \/ SeesNothing
           \/ SendRequest \/ RequestWaits \/ ResponseTimeout \/ TerminateTimeout \/ TimeoutsDone
           \/ PurgeDone \/ MakeSoftLink \/ BreakSoftLink \/ KeepSoftLink
  <2>1. UNCHANGED queue
    BY <1>4 DEF TickStart, RxArqDone, RxNonArqDone, DtsCas, CasTick, ProcessArq, ProcessNonArq,
       Process, ProcessDone, SeesMade, SeesNothing, SendRequest, RequestWaits, ResponseTimeout,
       TerminateTimeout, Timeout, TimeoutsDone, PurgeDone, MakeSoftLink, BreakSoftLink,
       KeepSoftLink, clients
  <2> QED BY <2>1, QueueIsKept
<1> QED BY <1>1, <1>2, <1>3, <1>4 DEF Tick

(* A U_PDU leaves the queue for an engine or with word to its client, for  *)
(* any clients, priorities and length of the queue (_dispatch_tx,          *)
(* _purge_expired, _reject_all_pending).                                   *)
THEOREM NoUpduIsLost == Spec => UpdusAreAccounted
<1>1. TypeOK /\ Next => Accounted
  <2>1. ASSUME HardLinkReject \/ SetFlow \/ BreakLink \/ Receive
               \/ \E local \in Sap \cup {None} : HardLinkAccept(local)
        PROVE  UNCHANGED queue
    BY <2>1 DEF HardLinkReject, SetFlow, BreakLink, Receive, RxArq, RxNonArq, RxControl,
       HardLinkAccept, clients
  <2> QED BY <2>1, QueueIsKept, ClientAccounts, TickAccounts DEF Next
<1>2. TypeOK /\ [Next]_vars => [Accounted]_vars
  BY <1>1
<1>3. Spec => [][Accounted]_vars
  BY <1>2, TypeCorrect, PTL DEF Spec
<1> QED BY <1>3, PTL DEF UpdusAreAccounted, Accounted
=============================================================================
