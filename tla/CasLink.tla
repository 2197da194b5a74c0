------------------------------- MODULE CasLink -------------------------------
(***************************************************************************)
(* The Channel Access Sublayer (cas.py, CASEngine): the nodes of a         *)
(* subnetwork make and break physical links with one another, several at a *)
(* time, by exchanging control C_PDUs over the unconfirmed Non-ARQ         *)
(* service.                                                                *)
(*                                                                         *)
(* A node keeps one link context per remote node, and remembers one remote *)
(* as its primary link, the only one the rest of the node looks at.  The   *)
(* control C_PDUs from one node to another arrive in order or not at all.  *)
(* Time is left out: a timer that is running may run out at any moment.    *)
(* DATA C_PDUs only restart the idle timer, and are left out with it.      *)
(***************************************************************************)
EXTENDS Integers, Sequences, FiniteSets, CasView

CONSTANTS Closed,          \* nodes that take no calls (busy, or not allow_incoming_links)
          MaxRetries,      \* max_retries
          MaxNonexclusive, \* max_nonexclusive_links
          MaxExclusive,    \* the two exclusive links _handle_link_request allows
          MaxCalls,        \* bound: calls from a node to another
          MaxChan          \* bound: C_PDUs travelling from a node to another

ASSUME CasAssumption ==
  /\ None \notin Node
  /\ Closed \subseteq Node
  /\ MaxRetries \in Nat
  /\ MaxNonexclusive \in Nat
  /\ MaxExclusive \in Nat
  /\ MaxCalls \in [Node -> [Node -> Nat]]
  /\ MaxChan \in Nat

VARIABLES links,      \* _links: links[n][r] is n's link with r
          primary,    \* _primary_remote
          chan,       \* chan[n][r]: the control C_PDUs on their way from n to r
          calls,      \* bound: calls from n to r
          unheard     \* history: n may have no link with r and r not have heard

vars == <<links, primary, chan, calls, unheard>>
-----------------------------------------------------------------------------
LinkType == {"NONEXCLUSIVE", "EXCLUSIVE"}
Link == [state : {"CALLING", "MADE", "BREAKING", "FAILED"}, type : LinkType,
         called : BOOLEAN, retry : 0 .. MaxRetries]
NoLink == [state |-> "IDLE", type |-> "NONEXCLUSIVE", called |-> FALSE, retry |-> 0]

Cpdu == [type : {"REQUEST"}, link : LinkType]
        \cup [type : {"ACCEPTED", "REJECTED", "BREAK", "BREAK_CONFIRM"}]

TypeOK ==
  /\ links \in [Node -> [Node -> Link \cup {NoLink}]]
  /\ primary \in [Node -> Node \cup {None}]
  /\ chan \in [Node -> [Node -> Seq(Cpdu)]]
  /\ calls \in [Node -> [Node -> Nat]]
  /\ unheard \in [Node -> [Node -> BOOLEAN]]

Init ==
  /\ links = [n \in Node |-> [r \in Node |-> NoLink]]
  /\ primary = [n \in Node |-> None]
  /\ chan = [n \in Node |-> [r \in Node |-> <<>>]]
  /\ calls = [n \in Node |-> [r \in Node |-> 0]]
  /\ unheard = [n \in Node |-> [r \in Node |-> FALSE]]

State(n, r) == links[n][r].state
Made(n, type) == {r \in Node : State(n, r) = "MADE" /\ links[n][r].type = type}

Request(type) == [type |-> "REQUEST", link |-> type]
Accepted == [type |-> "ACCEPTED"]
Rejected == [type |-> "REJECTED"]
Break == [type |-> "BREAK"]
BreakConfirm == [type |-> "BREAK_CONFIRM"]

HasRoom(n, r) == Len(chan[n][r]) < MaxChan
Send(n, r, cpdu) == HasRoom(n, r) /\ chan' = [chan EXCEPT ![n][r] = Append(@, cpdu)]

\* Mutant of WithoutPrimary: the removed link stays the primary one.
WithoutPrimaryKept(n, r) == primary
\* The primary of n once its link with r is removed (_remove_link).
WithoutPrimary(n, r) == [primary EXCEPT ![n] = IF @ = r THEN None ELSE @]
Remove(n, r) ==
  /\ links' = [links EXCEPT ![n][r] = NoLink]
  /\ primary' = WithoutPrimary(n, r)
-----------------------------------------------------------------------------
(* The upper layer.                                                        *)

\* An exclusive link that is up or being called.
HoldsExclusive(n) ==
  \E r \in Node : links[n][r].type = "EXCLUSIVE" /\ State(n, r) \in {"CALLING", "MADE"}

\* History: a call starts while n's break of an earlier link, or r's acceptance
\* of it, is still on its way: n may take the old acceptance for an answer.
Travels(n, r, cpdu) == \E i \in DOMAIN chan[n][r] : chan[n][r][i] = cpdu
Leftover(n, r) == Travels(n, r, Break) \/ Travels(r, n, Accepted)

(* make_link: refused while the primary link is changing, and for a        *)
(* nonexclusive link while there is an exclusive one.  A failed primary    *)
(* link is forgotten; a link that is up with r is called anew.             *)
MakeLink(n, r, type) ==
  /\ n # r /\ calls[n][r] < MaxCalls[n][r]
  /\ primary[n] # None => State(n, primary[n]) \notin {"CALLING", "BREAKING"}
  /\ type = "NONEXCLUSIVE" => ~HoldsExclusive(n)
  /\ links' = [links EXCEPT ![n] = [s \in Node |->
       IF s = r THEN [state |-> "CALLING", type |-> type, called |-> FALSE, retry |-> 0]
       ELSE IF s = primary[n] /\ @[s].state = "FAILED" THEN NoLink
       ELSE @[s]]]
  /\ primary' = [primary EXCEPT ![n] = r]
  /\ calls' = [calls EXCEPT ![n][r] = @ + 1]
  /\ Send(n, r, Request(type))
  /\ unheard' = [unheard EXCEPT ![r][n] = Leftover(n, r)]

(* break_link.                                                             *)
Broken(link) == [state |-> "BREAKING", type |-> link.type, called |-> link.called, retry |-> 0]
BreakLink(n, r) ==
  /\ State(n, r) = "MADE"
  /\ links' = [links EXCEPT ![n][r] = Broken(links[n][r])]
  /\ Send(n, r, Break)
  /\ UNCHANGED <<primary, calls, unheard>>
-----------------------------------------------------------------------------
(* tick: the timers of the link of n with r.                               *)

\* Mutant of CallAgain: the attempts are not counted.
CallAgainUncounted(n, r) ==
  /\ State(n, r) = "CALLING" /\ links[n][r].retry < MaxRetries
  /\ Send(n, r, Request(links[n][r].type))
  /\ UNCHANGED <<links, primary, calls, unheard>>

\* Mutant of CallAgain: one attempt too many.
CallAgainLate(n, r) ==
  /\ State(n, r) = "CALLING" /\ links[n][r].retry <= MaxRetries
  /\ links' = [links EXCEPT ![n][r].retry = @ + 1]
  /\ Send(n, r, Request(links[n][r].type))
  /\ UNCHANGED <<primary, calls, unheard>>

CallAgain(n, r) ==
  /\ State(n, r) = "CALLING" /\ links[n][r].retry < MaxRetries
  /\ links' = [links EXCEPT ![n][r].retry = @ + 1]
  /\ Send(n, r, Request(links[n][r].type))
  /\ UNCHANGED <<primary, calls, unheard>>

CallFails(n, r) ==
  /\ State(n, r) = "CALLING" /\ links[n][r].retry = MaxRetries
  /\ links' = [links EXCEPT ![n][r].state = "FAILED"]
  /\ unheard' = [unheard EXCEPT ![n][r] = TRUE]
  /\ UNCHANGED <<primary, chan, calls>>

BreakAgain(n, r) ==
  /\ State(n, r) = "BREAKING" /\ links[n][r].retry < MaxRetries
  /\ links' = [links EXCEPT ![n][r].retry = @ + 1]
  /\ Send(n, r, Break)
  /\ UNCHANGED <<primary, calls, unheard>>

BreakEnds(n, r) ==
  /\ State(n, r) = "BREAKING" /\ links[n][r].retry = MaxRetries
  /\ Remove(n, r)
  /\ UNCHANGED <<chan, calls, unheard>>

\* Mutant of IdleTimeout: the peer is not told.
IdleTimeoutSilent(n, r) ==
  /\ State(n, r) = "MADE" /\ links[n][r].called
  /\ Remove(n, r)
  /\ UNCHANGED <<chan, calls, unheard>>

\* Mutant of IdleTimeout: the link is kept until the peer confirms.
IdleTimeoutWaiting(n, r) ==
  /\ State(n, r) = "MADE" /\ links[n][r].called
  /\ Send(n, r, Break)
  /\ UNCHANGED <<links, primary, calls, unheard>>

(* A called node gives up a link on which no data comes.                   *)
IdleTimeout(n, r) ==
  /\ State(n, r) = "MADE" /\ links[n][r].called
  /\ Remove(n, r)
  /\ Send(n, r, Break)
  /\ UNCHANGED <<calls, unheard>>

Tick(n, r) == CallAgain(n, r) \/ CallFails(n, r) \/ BreakAgain(n, r) \/ BreakEnds(n, r)
-----------------------------------------------------------------------------
(* process_cpdu: the oldest C_PDU from r reaches n.                        *)

Arrived(n, r, type) == chan[r][n] # <<>> /\ Head(chan[r][n]).type = type

Taken(n, r) == [chan EXCEPT ![r][n] = Tail(@)]
Take(n, r) == chan' = Taken(n, r)
Answer(n, r, cpdu) ==
  /\ HasRoom(n, r)
  /\ LET taken == Taken(n, r) IN chan' = [taken EXCEPT ![n][r] = Append(@, cpdu)]

(* _handle_link_request.                                                   *)
Admits(n, r, type) ==
  /\ n \notin Closed
  /\ State(n, r) \in {"IDLE", "FAILED"}
  /\ type = "NONEXCLUSIVE" =>
       ~HoldsExclusive(n) /\ Cardinality(Made(n, "NONEXCLUSIVE")) < MaxNonexclusive
  /\ type = "EXCLUSIVE" => Cardinality(Made(n, "EXCLUSIVE")) < MaxExclusive

\* The link is up already.
KnowsCall(n, r) == n \notin Closed /\ State(n, r) = "MADE"

\* The acceptance is repeated.
RxRequestAgain(n, r) ==
  /\ Arrived(n, r, "REQUEST")
  /\ KnowsCall(n, r)
  /\ Answer(n, r, Accepted)
  /\ UNCHANGED <<links, primary, calls, unheard>>

RxRequestRefused(n, r) ==
  /\ Arrived(n, r, "REQUEST")
  /\ ~KnowsCall(n, r) /\ ~Admits(n, r, Head(chan[r][n]).link)
  /\ Answer(n, r, Rejected)
  /\ UNCHANGED <<links, primary, calls, unheard>>

\* Mutant of RxRequestAdmitted: the new link always becomes the primary one.
RxRequestAdmittedFirst(n, r) ==
  /\ Arrived(n, r, "REQUEST")
  /\ Admits(n, r, Head(chan[r][n]).link)
  /\ links' = [links EXCEPT ![n][r] = [state |-> "MADE", type |-> Head(chan[r][n]).link,
                                       called |-> TRUE, retry |-> 0]]
  /\ primary' = [primary EXCEPT ![n] = r]
  /\ Answer(n, r, Accepted)
  /\ UNCHANGED <<calls, unheard>>

RxRequestAdmitted(n, r) ==
  /\ Arrived(n, r, "REQUEST")
  /\ Admits(n, r, Head(chan[r][n]).link)
  /\ links' = [links EXCEPT ![n][r] = [state |-> "MADE", type |-> Head(chan[r][n]).link,
                                       called |-> TRUE, retry |-> 0]]
  /\ primary' = [primary EXCEPT ![n] = IF @ = None THEN r ELSE @]
  /\ Answer(n, r, Accepted)
  /\ UNCHANGED <<calls, unheard>>

\* Mutant of Yielding: only the links n called are broken.
YieldingOwn(n, r) ==
  IF links[n][r].type = "EXCLUSIVE"
  THEN {s \in Made(n, "NONEXCLUSIVE") : ~links[n][s].called} ELSE {}
\* The links an accepted call to r breaks (_break_all_nonexclusive).
Yielding(n, r) ==
  IF links[n][r].type = "EXCLUSIVE" THEN Made(n, "NONEXCLUSIVE") ELSE {}

RxAccepted(n, r) ==
  /\ Arrived(n, r, "ACCEPTED")
  /\ State(n, r) = "CALLING"
  /\ \A s \in Yielding(n, r) : HasRoom(n, s)
  /\ links' = [links EXCEPT ![n] = [s \in Node |->
       IF s = r THEN [@[s] EXCEPT !.state = "MADE"]
       ELSE IF s \in Yielding(n, r) THEN Broken(@[s])
       ELSE @[s]]]
  /\ LET taken == Taken(n, r)
     IN  chan' = [taken EXCEPT ![n] = [s \in Node |->
           IF s \in Yielding(n, r) THEN Append(@[s], Break) ELSE @[s]]]
  /\ UNCHANGED <<primary, calls, unheard>>

RxRejected(n, r) ==
  /\ Arrived(n, r, "REJECTED")
  /\ State(n, r) = "CALLING"
  /\ links' = [links EXCEPT ![n][r].state = "FAILED"]
  /\ Take(n, r)
  /\ unheard' = [unheard EXCEPT ![n][r] = TRUE]
  /\ UNCHANGED <<primary, calls>>

\* Whatever the state of the link, it is gone; the break is always confirmed.
RxBreak(n, r) ==
  /\ Arrived(n, r, "BREAK")
  /\ Remove(n, r)
  /\ Answer(n, r, BreakConfirm)
  /\ UNCHANGED <<calls, unheard>>

RxBreakConfirm(n, r) ==
  /\ Arrived(n, r, "BREAK_CONFIRM")
  /\ State(n, r) = "BREAKING"
  /\ Remove(n, r)
  /\ Take(n, r)
  /\ UNCHANGED <<calls, unheard>>

\* An answer nobody is waiting for.
RxIgnored(n, r) ==
  /\ \/ Arrived(n, r, "ACCEPTED") /\ State(n, r) # "CALLING"
     \/ Arrived(n, r, "REJECTED") /\ State(n, r) # "CALLING"
     \/ Arrived(n, r, "BREAK_CONFIRM") /\ State(n, r) # "BREAKING"
  /\ Take(n, r)
  /\ UNCHANGED <<links, primary, calls, unheard>>

(* A C_PDU is lost on the air: the service does not confirm it.            *)
Lose(n, r) ==
  /\ chan[r][n] # <<>>
  /\ unheard' = [unheard EXCEPT ![r][n] = @ \/ Head(chan[r][n]) = Break]
  /\ Take(n, r)
  /\ UNCHANGED <<links, primary, calls>>
-----------------------------------------------------------------------------
ProcessCpdu(n, r) ==
  \/ RxRequestAgain(n, r) \/ RxRequestRefused(n, r) \/ RxRequestAdmitted(n, r)
  \/ RxAccepted(n, r) \/ RxRejected(n, r) \/ RxBreak(n, r) \/ RxBreakConfirm(n, r)
  \/ RxIgnored(n, r)

Next == \E n, r \in Node :
  \/ \E type \in LinkType : MakeLink(n, r, type)
  \/ BreakLink(n, r) \/ Tick(n, r) \/ IdleTimeout(n, r) \/ ProcessCpdu(n, r) \/ Lose(n, r)

Spec == Init /\ [][Next]_vars

(* tick() is called for ever and every timer that is left alone runs out;  *)
(* what is sent arrives or is lost.  A called node's idle timer is only    *)
(* sure to run out when the peer has no link on which to send data.        *)
Fairness == \A n, r \in Node :
  /\ WF_vars(Tick(n, r))
  /\ WF_vars(ProcessCpdu(n, r) \/ Lose(n, r))
  /\ WF_vars(State(r, n) # "MADE" /\ IdleTimeout(n, r))

FairSpec == Spec /\ Fairness
-----------------------------------------------------------------------------
(* A node has one call under way at most, and it is its primary link: the  *)
(* state the rest of the node sees during a call is that call's            *)
(* (make_link, _handle_link_request and _remove_link against each other).  *)
CallIsPrimary == \A n, r \in Node : State(n, r) = "CALLING" => primary[n] = r

(* A node that has called an exclusive link, and been accepted, has no     *)
(* nonexclusive link left in use, nor gets one (_break_all_nonexclusive,   *)
(* make_link, _handle_link_request).                                       *)
CalledExclusiveIsAlone == \A n, r \in Node :
  State(n, r) = "MADE" /\ links[n][r].type = "EXCLUSIVE" /\ ~links[n][r].called =>
    Made(n, "NONEXCLUSIVE") = {}

(* When nothing more comes from its peer, a caller that believes its link  *)
(* is up is right: the peer holds it, or is calling anew.  Unless the      *)
(* break that ended it was lost, the peer called back meanwhile and        *)
(* failed, or the call began before all of an earlier one had arrived      *)
(* (process_cpdu, tick).                                                   *)
GhostsAreUnheard == \A n, r \in Node :
  State(n, r) = "MADE" /\ ~links[n][r].called /\ chan[r][n] = <<>> /\ ~unheard[r][n]
  => State(r, n) \in {"CALLING", "MADE"}

(* Every call and every break comes to an end (tick, max_retries).         *)
ChangesEnd == \A n, r \in Node :
  State(n, r) \in {"CALLING", "BREAKING"} ~> State(n, r) \notin {"CALLING", "BREAKING"}

(* A link that only the called node believes in does not stay (tick, the   *)
(* idle timeout of the called node).                                       *)
HalfOpenEnds == \A n, r \in Node :
  LET HalfOpen == /\ State(n, r) = "MADE" /\ links[n][r].called
                  /\ State(r, n) \in {"IDLE", "FAILED"}
  IN  HalfOpen ~> ~HalfOpen

\* What the rest of node n sees.
ViewOf(n) == IF primary[n] = None THEN Idle ELSE Seen(State(n, primary[n]), primary[n])

(* Whatever the order of calls, answers, breaks and timeouts, what a node  *)
(* sees of its links changes in one of the ways CasView names, which is    *)
(* what NodeSession and NodeDts are built on (state, _primary_ctx).        *)
ServesView ==
  [][\A n \in Node : ViewOf(n)' # ViewOf(n) => Follows(ViewOf(n), ViewOf(n)')]_vars

(* A link that a node has just been called on is the primary one, unless   *)
(* that is an active link (_handle_link_request).                          *)
AdmittedIsVisible ==
  [][\A n, r \in Node :
       State(n, r) # "MADE" /\ State(n, r)' = "MADE" /\ links'[n][r].called =>
         primary'[n] = r \/ State(n, primary[n]) \in {"CALLING", "MADE", "BREAKING"}]_vars
=============================================================================
