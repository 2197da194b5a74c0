------------------------------- MODULE CasView -------------------------------
(***************************************************************************)
(* What the rest of a node sees of its Channel Access Sublayer: the state  *)
(* of the primary link and the node it is with (cas.py, CASEngine.state    *)
(* and CASEngine.remote_node_address).  The node polls the two; it is not  *)
(* told when they change.                                                  *)
(*                                                                         *)
(* CasLink is shown to change its nodes' views in these ways only, and     *)
(* NodeSession and NodeDts take them as what the sublayer may do.          *)
(***************************************************************************)

CONSTANTS Node, None

CasState == {"IDLE", "CALLING", "MADE", "BREAKING", "FAILED"}

ASSUME NoneIsNoState == None \notin CasState

Idle == [state |-> "IDLE", remote |-> None]
Seen(state, r) == [state |-> state, remote |-> r]

View == {Idle} \cup [state : CasState \ {"IDLE"}, remote : Node]

(* A control C_PDU of the peer (process_cpdu).                             *)
ByPeer(v) ==
  CASE v.state = "IDLE"    -> {Seen("MADE", r) : r \in Node}
    [] v.state = "CALLING" -> {Seen("MADE", v.remote), Seen("FAILED", v.remote), Idle}
    \* A node that was called does not look for its primary link again.
    [] v.state = "FAILED"  -> {Seen("MADE", v.remote), Idle}
    [] OTHER               -> {Idle}

(* A timer (tick): the last attempt of a call or of a break, or no data on *)
(* a link the node was called on.                                          *)
ByTimer(v) ==
  CASE v.state = "CALLING"               -> {Seen("FAILED", v.remote)}
    [] v.state \in {"MADE", "BREAKING"}  -> {Idle}
    [] OTHER                             -> {}

(* make_link raises while the primary link is changing.                    *)
MayCall(v) == v.state \notin {"CALLING", "BREAKING"}
Calling(r) == Seen("CALLING", r)

(* break_link raises unless the primary link is up.                        *)
MayBreak(v) == v.state = "MADE"
Breaking(v) == Seen("BREAKING", v.remote)

(* One change of the view, whoever made it.                                *)
Follows(v, w) ==
  \/ w \in ByPeer(v) \cup ByTimer(v)
  \/ MayCall(v) /\ \E r \in Node : w = Calling(r)
  \/ MayBreak(v) /\ w = Breaking(v)
=============================================================================
