--------------------------- MODULE CasLink_proofs ---------------------------
(***************************************************************************)
(* What CasLink guarantees of the links of one node, for any number of     *)
(* nodes and any limits: its types, which links a call can coexist with,   *)
(* what the rest of the node sees of them, and what two nodes that have    *)
(* heard all of one another believe of their link.                         *)
(***************************************************************************)
EXTENDS CasLink, TLAPS

(* A call for a nonexclusive link is under way only while the node holds   *)
(* no exclusive link it called itself: without this fact such a call could *)
(* be accepted next to that link.                                          *)
NonexclusiveCallIsFree == \A n, r, s \in Node :
  State(n, r) = "CALLING" /\ links[n][r].type = "NONEXCLUSIVE" =>
    ~(State(n, s) = "MADE" /\ links[n][s].type = "EXCLUSIVE" /\ ~links[n][s].called)

IInv == TypeOK /\ CallIsPrimary /\ CalledExclusiveIsAlone /\ NonexclusiveCallIsFree

-----------------------------------------------------------------------------
(* Types.                                                                  *)
LEMMA NoLinkIsNotALink == \A k \in Link \cup {NoLink} : k.state # "IDLE" => k \in Link
  BY DEF Link, NoLink

LEMMA BrokenType == \A k \in Link : Broken(k) \in Link /\ Broken(k).state = "BREAKING"
  BY CasAssumption DEF Link, Broken

LEMMA CpduTypes ==
  /\ \A type \in LinkType : Request(type) \in Cpdu
  /\ Accepted \in Cpdu /\ Rejected \in Cpdu /\ Break \in Cpdu /\ BreakConfirm \in Cpdu
  BY DEF Cpdu, Request, Accepted, Rejected, Break, BreakConfirm

LEMMA SendType ==
  ASSUME TypeOK, NEW n \in Node, NEW r \in Node, NEW cpdu \in Cpdu, Send(n, r, cpdu)
  PROVE  chan' \in [Node -> [Node -> Seq(Cpdu)]]
<1>1. Append(chan[n][r], cpdu) \in Seq(Cpdu)
  BY DEF TypeOK
<1> QED BY <1>1 DEF Send, TypeOK

LEMMA ArrivedType ==
  ASSUME TypeOK, NEW n \in Node, NEW r \in Node, chan[r][n] # <<>>
  PROVE  Head(chan[r][n]) \in Cpdu /\ Tail(chan[r][n]) \in Seq(Cpdu)
<1>1. chan[r][n] \in Seq(Cpdu)
  BY DEF TypeOK
<1> QED BY <1>1

LEMMA TakeType ==
  ASSUME TypeOK, NEW n \in Node, NEW r \in Node, chan[r][n] # <<>>, Take(n, r)
  PROVE  chan' \in [Node -> [Node -> Seq(Cpdu)]]
BY ArrivedType DEF Take, Taken, TypeOK

LEMMA AnswerType ==
  ASSUME TypeOK, NEW n \in Node, NEW r \in Node, NEW cpdu \in Cpdu,
         chan[r][n] # <<>>, Answer(n, r, cpdu)
  PROVE  chan' \in [Node -> [Node -> Seq(Cpdu)]]
<1>1. Taken(n, r) \in [Node -> [Node -> Seq(Cpdu)]]
  BY ArrivedType DEF Taken, TypeOK
<1>2. Append(Taken(n, r)[n][r], cpdu) \in Seq(Cpdu)
  BY <1>1
<1> QED BY <1>1, <1>2 DEF Answer

-----------------------------------------------------------------------------
(* The invariant, seen from one node: l are its links and p its primary.   *)
Calls(l, p) ==
  /\ \A r \in Node : l[r].state = "CALLING" => p = r
  /\ \A r, s \in Node :
       l[r].state = "MADE" /\ l[r].type = "EXCLUSIVE" /\ ~l[r].called =>
         ~(l[s].state = "MADE" /\ l[s].type = "NONEXCLUSIVE")
  /\ \A r, s \in Node :
       l[r].state = "CALLING" /\ l[r].type = "NONEXCLUSIVE" =>
         ~(l[s].state = "MADE" /\ l[s].type = "EXCLUSIVE" /\ ~l[s].called)

LEMMA CallsOfNodes ==
  CallIsPrimary /\ CalledExclusiveIsAlone /\ NonexclusiveCallIsFree
    <=> \A n \in Node : Calls(links[n], primary[n])
BY DEF CallIsPrimary, CalledExclusiveIsAlone, NonexclusiveCallIsFree, Calls, State, Made

LEMMA CallsOfNodesNext ==
  (CallIsPrimary /\ CalledExclusiveIsAlone /\ NonexclusiveCallIsFree)'
    <=> \A n \in Node : Calls(links'[n], primary'[n])
BY DEF CallIsPrimary, CalledExclusiveIsAlone, NonexclusiveCallIsFree, Calls, State, Made

(* A step of n that keeps its own part of the invariant keeps the whole.   *)
LEMMA NodeStep ==
  ASSUME IInv, TypeOK', NEW n \in Node, Calls(links'[n], primary'[n]),
         \A m \in Node \ {n} : links'[m] = links[m] /\ primary'[m] = primary[m]
  PROVE  IInv'
<1>1. \A m \in Node : Calls(links[m], primary[m])
  BY CallsOfNodes DEF IInv
<1>2. \A m \in Node : Calls(links'[m], primary'[m])
  BY <1>1
<1> QED BY <1>2, CallsOfNodesNext DEF IInv

Links == [Node -> Link \cup {NoLink}]

(* A link that ends, or changes nothing but its retries, disturbs nothing. *)
LEMMA CallsWithout ==
  ASSUME NEW l \in Links, NEW p, Calls(l, p), NEW r \in Node, NEW k, NEW q,
         k.state \notin {"CALLING", "MADE"}, q = p \/ p = r
  PROVE  Calls([l EXCEPT ![r] = k], q)
BY DEF Calls, Links

LEMMA CallsSame ==
  ASSUME NEW l \in Links, NEW p, Calls(l, p), NEW r \in Node, NEW k,
         k.state = l[r].state, k.type = l[r].type, k.called = l[r].called
  PROVE  Calls([l EXCEPT ![r] = k], p)
BY DEF Calls, Links

LEMMA NoLinkState == NoLink.state \notin {"CALLING", "MADE"} /\ NoLink \in Link \cup {NoLink}
BY DEF NoLink

(* What a step that writes one link of n, and maybe its primary, must show.*)
LEMMA OneLinkStep ==
  ASSUME IInv, NEW n \in Node, NEW r \in Node, NEW k \in Link \cup {NoLink},
         NEW q \in Node \cup {None},
         links' = [links EXCEPT ![n][r] = k], primary' = [primary EXCEPT ![n] = q],
         chan' \in [Node -> [Node -> Seq(Cpdu)]],
         calls' \in [Node -> [Node -> Nat]], unheard' \in [Node -> [Node -> BOOLEAN]],
         Calls([links[n] EXCEPT ![r] = k], q)
  PROVE  IInv'
<1>1. TypeOK
  BY DEF IInv
<1>2. links' \in [Node -> [Node -> Link \cup {NoLink}]] /\ primary' \in [Node -> Node \cup {None}]
  BY <1>1 DEF TypeOK
<1>3. TypeOK'
  BY <1>2 DEF TypeOK
<1>4. links'[n] = [links[n] EXCEPT ![r] = k] /\ primary'[n] = q
  BY <1>1 DEF TypeOK
<1>5. \A m \in Node \ {n} : links'[m] = links[m] /\ primary'[m] = primary[m]
  BY <1>1 DEF TypeOK
<1> QED BY <1>3, <1>4, <1>5, NodeStep

(* A step that touches neither.                                            *)
LEMMA QuietStep ==
  ASSUME IInv, UNCHANGED <<links, primary, calls>>, chan' \in [Node -> [Node -> Seq(Cpdu)]],
         unheard' \in [Node -> [Node -> BOOLEAN]]
  PROVE  IInv'
BY DEF IInv, TypeOK, CallIsPrimary, CalledExclusiveIsAlone, NonexclusiveCallIsFree, State, Made

LEMMA Facts ==
  ASSUME IInv, NEW n \in Node
  PROVE  /\ TypeOK /\ links[n] \in Links /\ primary[n] \in Node \cup {None}
         /\ Calls(links[n], primary[n])
         /\ primary = [primary EXCEPT ![n] = primary[n]]
         /\ calls \in [Node -> [Node -> Nat]] /\ unheard \in [Node -> [Node -> BOOLEAN]]
         /\ chan \in [Node -> [Node -> Seq(Cpdu)]]
BY CallsOfNodes DEF IInv, TypeOK, Links

(* The removal of a link.                                                  *)
LEMMA RemoveStep ==
  ASSUME IInv, NEW n \in Node, NEW r \in Node, Remove(n, r),
         chan' \in [Node -> [Node -> Seq(Cpdu)]], UNCHANGED <<calls, unheard>>
  PROVE  IInv'
<1> DEFINE q == IF primary[n] = r THEN None ELSE primary[n]
<1>1. links' = [links EXCEPT ![n][r] = NoLink] /\ primary' = [primary EXCEPT ![n] = q]
  BY DEF Remove, WithoutPrimary
<1>2. q \in Node \cup {None} /\ (q = primary[n] \/ primary[n] = r)
  BY Facts
<1> HIDE DEF q
<1>3. Calls([links[n] EXCEPT ![r] = NoLink], q)
  <2>1. links[n] \in Links /\ Calls(links[n], primary[n])
    BY Facts
  <2>2. NoLink.state \notin {"CALLING", "MADE"}
    BY NoLinkState
  <2> QED BY <1>2, <2>1, <2>2, CallsWithout
<1> QED BY <1>1, <1>2, <1>3, Facts, NoLinkState, OneLinkStep
-----------------------------------------------------------------------------
(* The actions.                                                            *)
LEMMA MakeLinkStep ==
  ASSUME IInv, NEW n \in Node, NEW r \in Node, NEW type \in LinkType, MakeLink(n, r, type)
  PROVE  IInv'
<1> DEFINE new == [state |-> "CALLING", type |-> type, called |-> FALSE, retry |-> 0]
           l == [s \in Node |->
                  IF s = r THEN new
                  ELSE IF s = primary[n] /\ links[n][s].state = "FAILED" THEN NoLink
                  ELSE links[n][s]]
<1>1. links' = [links EXCEPT ![n] = l] /\ primary' = [primary EXCEPT ![n] = r]
  BY DEF MakeLink
<1>2. new \in Link
  BY CasAssumption DEF Link
<1>3. l \in Links
  <2>1. links[n] \in Links
    BY Facts
  <2> HIDE DEF new
  <2> QED BY <1>2, <2>1, NoLinkState DEF Links
<1>4. Calls(l, r)
  <2>1. \A s \in Node : links[n][s].state # "CALLING"
    BY CasAssumption, Facts DEF MakeLink, State, Calls
  <2>2. \A s \in Node : s # r => l[s].state # "CALLING"
    BY <2>1, NoLinkState
  <2>3. \A s \in Node : l[s].state = "MADE" => s # r /\ l[s] = links[n][s]
    BY NoLinkState
  <2>4. type = "NONEXCLUSIVE" => \A s \in Node : ~(l[s].state = "MADE" /\ l[s].type = "EXCLUSIVE")
    BY <2>3 DEF MakeLink, HoldsExclusive, State
  <2>5. l[r].type = type /\ l[r].state = "CALLING"
    OBVIOUS
  <2>6. \A s, t \in Node :
          l[s].state = "MADE" /\ l[s].type = "EXCLUSIVE" /\ ~l[s].called =>
            ~(l[t].state = "MADE" /\ l[t].type = "NONEXCLUSIVE")
    <3>1. Calls(links[n], primary[n])
      BY Facts
    <3> HIDE DEF l
    <3> QED BY <2>3, <3>1 DEF Calls
  <2>7. \A s, t \in Node :
          l[s].state = "CALLING" /\ l[s].type = "NONEXCLUSIVE" =>
            ~(l[t].state = "MADE" /\ l[t].type = "EXCLUSIVE" /\ ~l[t].called)
    <3> SUFFICES ASSUME NEW s \in Node, NEW t \in Node, l[s].state = "CALLING",
                        l[s].type = "NONEXCLUSIVE", l[t].state = "MADE", l[t].type = "EXCLUSIVE"
                 PROVE  FALSE
      OBVIOUS
    <3> HIDE DEF l
    <3>1. s = r
      BY <2>2
    <3> QED BY <2>4, <2>5, <3>1
  <2> HIDE DEF l
  <2> QED BY <2>2, <2>6, <2>7 DEF Calls
<1> HIDE DEF l
<1>5. chan' \in [Node -> [Node -> Seq(Cpdu)]]
  BY Facts, CpduTypes, SendType DEF MakeLink
<1>6. calls' \in [Node -> [Node -> Nat]] /\ unheard' \in [Node -> [Node -> BOOLEAN]]
  <2>1. calls[n][r] + 1 \in Nat
    <3>1. calls[n] \in [Node -> Nat]
      BY Facts
    <3> QED BY <3>1
  <2>2. calls' = [calls EXCEPT ![n][r] = calls[n][r] + 1]
        /\ unheard' = [unheard EXCEPT ![r][n] = Leftover(n, r)]
    BY DEF MakeLink
  <2>3. Leftover(n, r) \in BOOLEAN
    BY DEF Leftover, Travels
  <2> HIDE DEF l
  <2> QED BY <2>1, <2>2, <2>3, Facts
<1>7. TypeOK'
  BY <1>1, <1>3, <1>5, <1>6, Facts DEF TypeOK, Links
<1>8. links'[n] = l /\ primary'[n] = r
  BY <1>1, Facts DEF TypeOK
<1>9. \A m \in Node \ {n} : links'[m] = links[m] /\ primary'[m] = primary[m]
  BY <1>1, Facts DEF TypeOK
<1> QED BY <1>4, <1>7, <1>8, <1>9, NodeStep

LEMMA BreakLinkStep == ASSUME IInv, NEW n \in Node, NEW r \in Node, BreakLink(n, r) PROVE IInv'
<1> DEFINE k == Broken(links[n][r])
<1>1. links' = [links EXCEPT ![n][r] = k] /\ UNCHANGED <<primary, calls, unheard>>
  BY DEF BreakLink
<1>2. links[n][r] \in Link
  <2>1. links[n] \in Links
    BY Facts
  <2>2. links[n][r].state = "MADE"
    BY DEF BreakLink, State
  <2> QED BY <2>1, <2>2, NoLinkIsNotALink DEF Links
<1>3. k \in Link /\ k.state = "BREAKING"
  BY <1>2, BrokenType
<1> HIDE DEF k
<1>4. Calls([links[n] EXCEPT ![r] = k], primary[n])
  BY <1>3, Facts, CallsWithout
<1>5. chan' \in [Node -> [Node -> Seq(Cpdu)]]
  BY Facts, CpduTypes, SendType DEF BreakLink
<1> QED BY <1>1, <1>3, <1>4, <1>5, Facts, OneLinkStep

LEMMA TickStep == ASSUME IInv, NEW n \in Node, NEW r \in Node, Tick(n, r) PROVE IInv'
<1> DEFINE again == [links[n][r] EXCEPT !.retry = links[n][r].retry + 1]
           down == [links[n][r] EXCEPT !.state = "FAILED"]
<1>1. CASE CallAgain(n, r) \/ BreakAgain(n, r)
  <2>1. links' = [links EXCEPT ![n][r] = again] /\ UNCHANGED <<primary, calls, unheard>>
    BY <1>1, Facts DEF CallAgain, BreakAgain, Links, TypeOK
  <2>2. links[n][r] \in Link /\ links[n][r].retry < MaxRetries
    BY <1>1, Facts, NoLinkIsNotALink DEF CallAgain, BreakAgain, State, Links
  <2>3. links[n][r].retry + 1 \in 0 .. MaxRetries
    BY CasAssumption, <2>2 DEF Link
  <2>4. again \in Link /\ again.state = links[n][r].state /\ again.type = links[n][r].type
          /\ again.called = links[n][r].called
    BY <2>2, <2>3 DEF Link
  <2>5. Request(links[n][r].type) \in Cpdu
    BY <2>2, CpduTypes DEF Link
  <2> HIDE DEF again
  <2>6. chan' \in [Node -> [Node -> Seq(Cpdu)]]
    BY <1>1, <2>5, Facts, CpduTypes, SendType DEF CallAgain, BreakAgain
  <2>7. Calls([links[n] EXCEPT ![r] = again], primary[n])
    BY <2>4, Facts, CallsSame
  <2> QED BY <2>1, <2>4, <2>6, <2>7, Facts, OneLinkStep
<1>2. CASE CallFails(n, r)
  <2>1. links' = [links EXCEPT ![n][r] = down] /\ UNCHANGED <<primary, chan, calls>>
    BY <1>2, Facts DEF CallFails, Links, TypeOK
  <2>2. links[n][r] \in Link
    <3>1. links[n][r] \in Link \cup {NoLink}
      BY Facts DEF Links
    <3>2. links[n][r].state = "CALLING"
      BY <1>2 DEF CallFails, State
    <3> QED BY <3>1, <3>2, NoLinkIsNotALink
  <2>3. down \in Link /\ down.state = "FAILED"
    BY <2>2 DEF Link
  <2> HIDE DEF down
  <2>4. Calls([links[n] EXCEPT ![r] = down], primary[n])
    BY <2>3, Facts, CallsWithout
  <2>5. unheard' \in [Node -> [Node -> BOOLEAN]]
    BY <1>2, Facts DEF CallFails
  <2> QED BY <2>1, <2>3, <2>4, <2>5, Facts, OneLinkStep
<1>3. CASE BreakEnds(n, r)
  BY <1>3, Facts, RemoveStep DEF BreakEnds
<1> QED BY <1>1, <1>2, <1>3 DEF Tick

LEMMA IdleTimeoutStep == ASSUME IInv, NEW n \in Node, NEW r \in Node, IdleTimeout(n, r) PROVE IInv'
<1>1. chan' \in [Node -> [Node -> Seq(Cpdu)]]
  BY Facts, CpduTypes, SendType DEF IdleTimeout
<1> QED BY <1>1, RemoveStep DEF IdleTimeout

LEMMA AnswerStep ==
  ASSUME IInv, NEW n \in Node, NEW r \in Node,
         RxRequestAgain(n, r) \/ RxRequestRefused(n, r) \/ RxIgnored(n, r) \/ Lose(n, r)
  PROVE  IInv'
<1>1. chan' \in [Node -> [Node -> Seq(Cpdu)]]
  BY Facts, CpduTypes, AnswerType, TakeType
     DEF RxRequestAgain, RxRequestRefused, RxIgnored, Lose, Arrived
<1>2. unheard' \in [Node -> [Node -> BOOLEAN]]
  <2>1. CASE UNCHANGED unheard
    BY <2>1, Facts
  <2>2. CASE Lose(n, r)
    <3>1. (unheard[r][n] \/ Head(chan[r][n]) = Break) \in BOOLEAN
      OBVIOUS
    <3>2. unheard' = [unheard EXCEPT ![r][n] = unheard[r][n] \/ Head(chan[r][n]) = Break]
      BY <2>2 DEF Lose
    <3> QED BY <3>1, <3>2, Facts
  <2> QED BY <2>1, <2>2 DEF RxRequestAgain, RxRequestRefused, RxIgnored
<1> QED BY <1>1, <1>2, QuietStep DEF RxRequestAgain, RxRequestRefused, RxIgnored, Lose

LEMMA RxRequestAdmittedStep ==
  ASSUME IInv, NEW n \in Node, NEW r \in Node, RxRequestAdmitted(n, r) PROVE IInv'
<1> DEFINE type == Head(chan[r][n]).link
           k == [state |-> "MADE", type |-> type, called |-> TRUE, retry |-> 0]
           q == IF primary[n] = None THEN r ELSE primary[n]
<1>1. Head(chan[r][n]) \in Cpdu /\ type \in LinkType
  BY Facts, ArrivedType DEF RxRequestAdmitted, Arrived, Cpdu
<1>2. k \in Link /\ k.state = "MADE" /\ k.called /\ k.type = type
  BY CasAssumption, <1>1 DEF Link
<1>3. links' = [links EXCEPT ![n][r] = k] /\ UNCHANGED <<calls, unheard>>
  BY DEF RxRequestAdmitted
<1>4. primary' = [primary EXCEPT ![n] = q]
  BY DEF RxRequestAdmitted
<1>5. q \in Node \cup {None}
  BY Facts
<1>6. chan' \in [Node -> [Node -> Seq(Cpdu)]]
  BY Facts, CpduTypes, AnswerType DEF RxRequestAdmitted, Arrived
<1>7. Calls([links[n] EXCEPT ![r] = k], q)
  <2>1. type = "NONEXCLUSIVE" => \A s \in Node :
          ~(links[n][s].type = "EXCLUSIVE" /\ links[n][s].state \in {"CALLING", "MADE"})
    BY DEF RxRequestAdmitted, Admits, HoldsExclusive, State
  <2>0. Calls(links[n], primary[n])
    BY Facts
  <2>2. \A s \in Node : links[n][s].state = "CALLING" => q = s
    BY CasAssumption, Facts DEF Calls
  <2> DEFINE l == [links[n] EXCEPT ![r] = k]
  <2>3. l[r] = k /\ \A s \in Node : s # r => l[s] = links[n][s]
    BY Facts DEF Links
  <2> HIDE DEF k, q, type, l
  <2>4. \A s \in Node : l[s].state = "CALLING" => s # r /\ l[s] = links[n][s]
    BY <1>2, <2>3
  <2>5. \A s \in Node : l[s].state = "MADE" /\ ~l[s].called => s # r /\ l[s] = links[n][s]
    BY <1>2, <2>3
  <2>6. \A s \in Node : l[s].state = "CALLING" => q = s
    BY <2>2, <2>4
  <2>7. \A s, t \in Node :
          l[s].state = "MADE" /\ l[s].type = "EXCLUSIVE" /\ ~l[s].called =>
            ~(l[t].state = "MADE" /\ l[t].type = "NONEXCLUSIVE")
    <3> SUFFICES ASSUME NEW s \in Node, NEW t \in Node, l[s].state = "MADE",
                        l[s].type = "EXCLUSIVE", ~l[s].called,
                        l[t].state = "MADE", l[t].type = "NONEXCLUSIVE"
                 PROVE  FALSE
      OBVIOUS
    <3>1. s # r /\ l[s] = links[n][s]
      BY <2>5
    <3>2. CASE t = r
      BY <1>2, <2>1, <2>3, <3>1, <3>2
    <3>3. CASE t # r
      <4>1. l[t] = links[n][t]
        BY <2>3, <3>3
      <4> QED BY <3>1, <4>1, <2>0 DEF Calls
    <3> QED BY <3>2, <3>3
  <2>8. \A s, t \in Node :
          l[s].state = "CALLING" /\ l[s].type = "NONEXCLUSIVE" =>
            ~(l[t].state = "MADE" /\ l[t].type = "EXCLUSIVE" /\ ~l[t].called)
    BY <2>4, <2>5, <2>0 DEF Calls
  <2>9. Calls(l, q)
    BY <2>6, <2>7, <2>8 DEF Calls
  <2> QED BY <2>9 DEF l
<1> HIDE DEF k, q
<1> QED BY <1>2, <1>3, <1>4, <1>5, <1>6, <1>7, Facts, OneLinkStep

LEMMA RxAcceptedStep == ASSUME IInv, NEW n \in Node, NEW r \in Node, RxAccepted(n, r) PROVE IInv'
<1> DEFINE up == [links[n][r] EXCEPT !.state = "MADE"]
           l == [s \in Node |-> IF s = r THEN up
                                ELSE IF s \in Yielding(n, r) THEN Broken(links[n][s])
                                ELSE links[n][s]]
<1>1. links' = [links EXCEPT ![n] = l] /\ UNCHANGED <<primary, calls, unheard>>
  BY DEF RxAccepted
<1>2. \A s \in Node : links[n][s] \in Link \cup {NoLink}
  <2>1. links[n] \in Links
    BY Facts
  <2> QED BY <2>1 DEF Links
<1>3. links[n][r] \in Link /\ links[n][r].state = "CALLING"
  <2>1. links[n][r].state = "CALLING"
    BY DEF RxAccepted, State
  <2> QED BY <1>2, <2>1, NoLinkIsNotALink
<1>4. up \in Link /\ up.state = "MADE" /\ up.type = links[n][r].type /\ up.called = links[n][r].called
  BY <1>3 DEF Link
<1>5. ASSUME NEW s \in Yielding(n, r) PROVE Broken(links[n][s]) \in Link /\ Broken(links[n][s]).state = "BREAKING"
  <2>1. s \in Node /\ links[n][s].state = "MADE"
    BY DEF Yielding, Made, State
  <2>2. links[n][s] \in Link
    BY <1>2, <2>1, NoLinkIsNotALink
  <2> QED BY <2>2, BrokenType
<1> HIDE DEF up
<1>6. l \in Links
  BY <1>2, <1>4, <1>5 DEF Links
<1>7. Calls(l, primary[n])
  <2>1. \A s \in Node : links[n][s].state = "CALLING" => s = r
    BY <1>3, Facts DEF Calls
  <2>2. \A s \in Node : l[s].state # "CALLING"
    BY <1>4, <1>5, <2>1
  <2>3. links[n][r].type = "EXCLUSIVE" => \A s \in Node : s # r =>
          ~(l[s].state = "MADE" /\ l[s].type = "NONEXCLUSIVE")
    BY <1>5 DEF Yielding, Made, State
  <2>4. links[n][r].type = "NONEXCLUSIVE" => \A s \in Node :
          ~(links[n][s].state = "MADE" /\ links[n][s].type = "EXCLUSIVE" /\ ~links[n][s].called)
    BY <1>3, Facts DEF Calls
  <2>5. links[n][r].type \in LinkType
    BY <1>3 DEF Link
  <2>6. \A s \in Node : s # r /\ l[s].state = "MADE" => l[s] = links[n][s]
    BY <1>5
  <2>7. l[r] = up
    OBVIOUS
  <2> HIDE DEF l
  <2> QED BY <1>4, <2>2, <2>3, <2>4, <2>5, <2>6, <2>7, Facts DEF Calls, LinkType
<1> HIDE DEF l
<1>8. chan' \in [Node -> [Node -> Seq(Cpdu)]]
  <2>1. Taken(n, r) \in [Node -> [Node -> Seq(Cpdu)]]
    BY Facts, ArrivedType DEF Taken, RxAccepted, Arrived
  <2>2. \A s \in Node : Append(Taken(n, r)[n][s], Break) \in Seq(Cpdu)
    BY <2>1, CpduTypes
  <2> QED BY <2>1, <2>2 DEF RxAccepted
<1>9. TypeOK'
  BY <1>1, <1>6, <1>8, Facts DEF TypeOK, Links
<1>10. links'[n] = l /\ primary'[n] = primary[n]
  BY <1>1, Facts DEF TypeOK
<1>11. \A m \in Node \ {n} : links'[m] = links[m] /\ primary'[m] = primary[m]
  BY <1>1, Facts DEF TypeOK
<1> QED BY <1>7, <1>9, <1>10, <1>11, NodeStep

LEMMA RxRejectedStep == ASSUME IInv, NEW n \in Node, NEW r \in Node, RxRejected(n, r) PROVE IInv'
<1> DEFINE down == [links[n][r] EXCEPT !.state = "FAILED"]
<1>1. links' = [links EXCEPT ![n][r] = down] /\ UNCHANGED <<primary, calls>>
  BY Facts DEF RxRejected, Links, TypeOK
<1>2. links[n][r] \in Link
  BY Facts, NoLinkIsNotALink DEF RxRejected, State, Links
<1>3. down \in Link /\ down.state = "FAILED"
  BY <1>2 DEF Link
<1> HIDE DEF down
<1>4. Calls([links[n] EXCEPT ![r] = down], primary[n])
  BY <1>3, Facts, CallsWithout
<1>5. chan' \in [Node -> [Node -> Seq(Cpdu)]]
  BY Facts, TakeType DEF RxRejected, Arrived
<1>6. unheard' \in [Node -> [Node -> BOOLEAN]]
  BY Facts DEF RxRejected
<1> QED BY <1>1, <1>3, <1>4, <1>5, <1>6, Facts, OneLinkStep

LEMMA RxBreakStep ==
  ASSUME IInv, NEW n \in Node, NEW r \in Node, RxBreak(n, r) \/ RxBreakConfirm(n, r)
  PROVE  IInv'
<1>1. chan' \in [Node -> [Node -> Seq(Cpdu)]]
  BY Facts, CpduTypes, AnswerType, TakeType DEF RxBreak, RxBreakConfirm, Arrived
<1> QED BY <1>1, RemoveStep DEF RxBreak, RxBreakConfirm
-----------------------------------------------------------------------------
LEMMA InitCorrect == ASSUME Init PROVE IInv
<1>1. TypeOK
  BY NoLinkState DEF Init, TypeOK
<1> QED BY <1>1, NoLinkState
        DEF Init, IInv, CallIsPrimary, CalledExclusiveIsAlone, NonexclusiveCallIsFree, State, Made

LEMMA NextCorrect == ASSUME IInv, [Next]_vars PROVE IInv'
<1>1. CASE Next
  <2>1. PICK n \in Node, r \in Node :
          \/ \E type \in LinkType : MakeLink(n, r, type)
          \/ BreakLink(n, r) \/ Tick(n, r) \/ IdleTimeout(n, r) \/ ProcessCpdu(n, r) \/ Lose(n, r)
    BY <1>1 DEF Next
  <2>2. CASE ProcessCpdu(n, r)
    BY <2>2, AnswerStep, RxRequestAdmittedStep, RxAcceptedStep, RxRejectedStep, RxBreakStep
       DEF ProcessCpdu
  <2> QED BY <2>1, <2>2, MakeLinkStep, BreakLinkStep, TickStep, IdleTimeoutStep, AnswerStep
<1>2. CASE UNCHANGED vars
  <2>1. chan' \in [Node -> [Node -> Seq(Cpdu)]] /\ unheard' \in [Node -> [Node -> BOOLEAN]]
    BY <1>2 DEF vars, IInv, TypeOK
  <2> QED BY <1>2, <2>1, QuietStep DEF vars
<1> QED BY <1>1, <1>2

(* The invariant of the proof holds of every behaviour of the subnetwork.  *)
THEOREM InvariantHolds == Spec => []IInv
  BY InitCorrect, NextCorrect, PTL DEF Spec

(* Every variable of every node keeps its type: no handler stores a link,  *)
(* a retry count or a primary link out of range.                           *)
THEOREM TypeCorrect == Spec => []TypeOK
<1>1. IInv => TypeOK
  BY DEF IInv
<1> QED BY <1>1, InvariantHolds, PTL

(* However many nodes call, break, time out and lose C_PDUs, a node has at *)
(* most one call under way and sees that call as its primary link          *)
(* (make_link, _handle_link_request, _remove_link).                        *)
THEOREM OneCallAtATime == Spec => []CallIsPrimary
<1>1. IInv => CallIsPrimary
  BY DEF IInv
<1> QED BY <1>1, InvariantHolds, PTL

(* A node that called an exclusive link and was accepted has no            *)
(* nonexclusive link in use (_break_all_nonexclusive), and gets none       *)
(* (make_link, _handle_link_request).                                      *)
THEOREM ExclusiveCallsAreAlone == Spec => []CalledExclusiveIsAlone
<1>1. IInv => CalledExclusiveIsAlone
  BY DEF IInv
<1> QED BY <1>1, InvariantHolds, PTL
-----------------------------------------------------------------------------
(* The Channel Access Sublayer keeps the promise CasView states, on which  *)
(* the session and the Data Transfer Sublayer of a node are built: what a  *)
(* node sees of its primary link changes in the ways Follows names and in  *)
(* no other.                                                               *)
(* The primary link of a node is a link it has: without this a call from   *)
(* the node's forgotten primary would make the view jump.                  *)
PrimaryIsLink == \A n \in Node : primary[n] # None => State(n, primary[n]) # "IDLE"

VInv == IInv /\ PrimaryIsLink

(* The step ServesView speaks of.                                          *)
ServesStep == \A n \in Node : ViewOf(n)' # ViewOf(n) => Follows(ViewOf(n), ViewOf(n)')

(* The two, seen from one node: l are its links and p its primary.         *)
Shown(l, p) == IF p = None THEN Idle ELSE Seen(l[p].state, p)
Stands(l, p) == p # None => l[p].state # "IDLE"
Serves(l, p, k, q) ==
  /\ Stands(k, q)
  /\ Shown(k, q) = Shown(l, p) \/ Follows(Shown(l, p), Shown(k, q))

LEMMA NodeServes ==
  ASSUME VInv, TypeOK', NEW n \in Node, Serves(links[n], primary[n], links'[n], primary'[n]),
         \A m \in Node \ {n} : links'[m] = links[m] /\ primary'[m] = primary[m]
  PROVE  PrimaryIsLink' /\ ServesStep
<1>1. \A m \in Node : Serves(links[m], primary[m], links'[m], primary'[m])
  <2>1. \A m \in Node : Stands(links[m], primary[m])
    BY DEF VInv, PrimaryIsLink, Stands, State
  <2> QED BY <2>1 DEF Serves, Shown, Stands
<1>2. PrimaryIsLink'
  BY <1>1 DEF PrimaryIsLink, Serves, Stands, State
<1>3. \A m \in Node : /\ ViewOf(m) = Shown(links[m], primary[m])
                      /\ ViewOf(m)' = Shown(links'[m], primary'[m])
  BY DEF ViewOf, Shown, State, Idle, Seen
<1>4. ServesStep
  BY <1>1, <1>3 DEF ServesStep, Serves
<1> QED BY <1>2, <1>4

-----------------------------------------------------------------------------
(* What may become of a view.                                              *)
LEMMA IdleFollows == ASSUME NEW r, NEW state \in CasState \ {"IDLE"} PROVE Follows(Seen(state, r), Idle)
BY DEF Follows, ByPeer, ByTimer, Seen, CasState

LEMMA CallFollows ==
  ASSUME NEW v, NEW r \in Node, v.state \notin {"CALLING", "BREAKING"}
  PROVE  Follows(v, Seen("CALLING", r))
BY DEF Follows, MayCall, Calling

LEMMA AnswerFollows ==
  ASSUME NEW r \in Node
  PROVE  /\ Follows(Idle, Seen("MADE", r))
         /\ Follows(Seen("CALLING", r), Seen("MADE", r))
         /\ Follows(Seen("CALLING", r), Seen("FAILED", r))
         /\ Follows(Seen("FAILED", r), Seen("MADE", r))
         /\ Follows(Seen("MADE", r), Seen("BREAKING", r))
<1>1. Follows(Idle, Seen("MADE", r))
  BY DEF Follows, ByPeer, Seen, Idle
<1>2. Follows(Seen("CALLING", r), Seen("MADE", r)) /\ Follows(Seen("CALLING", r), Seen("FAILED", r))
  BY DEF Follows, ByPeer, Seen
<1>3. Follows(Seen("FAILED", r), Seen("MADE", r))
  BY DEF Follows, ByPeer, Seen
<1>4. Follows(Seen("MADE", r), Seen("BREAKING", r))
  <2> DEFINE v == Seen("MADE", r)
  <2>1. v.state = "MADE" /\ v.remote = r
    BY DEF Seen
  <2> HIDE DEF v
  <2>2. MayBreak(v) /\ Breaking(v) = Seen("BREAKING", r)
    BY <2>1 DEF MayBreak, Breaking
  <2>3. Follows(v, Seen("BREAKING", r))
    BY <2>2 DEF Follows
  <2> QED BY <2>3 DEF v
<1> QED BY <1>1, <1>2, <1>3, <1>4

LEMMA Standing ==
  ASSUME VInv, NEW n \in Node
  PROVE  /\ Stands(links[n], primary[n])
         /\ primary[n] # None => links[n][primary[n]].state \in CasState \ {"IDLE"}
<1>1. Stands(links[n], primary[n])
  BY DEF VInv, PrimaryIsLink, Stands, State
<1>2. \A r \in Node : links[n][r].state \in CasState
  BY Facts DEF VInv, Links, Link, NoLink, CasState
<1>3. primary[n] \in Node \cup {None}
  BY Facts DEF VInv
<1> QED BY <1>1, <1>2, <1>3 DEF Stands

(* A step that writes one link of n and leaves its primary.                *)
LEMMA OneLinkServes ==
  ASSUME VInv, IInv', NEW n \in Node, NEW r \in Node, NEW k,
         links' = [links EXCEPT ![n][r] = k], UNCHANGED primary,
         primary[n] = r =>
           /\ k.state # "IDLE"
           /\ k.state = links[n][r].state \/ Follows(Seen(links[n][r].state, r), Seen(k.state, r))
  PROVE  PrimaryIsLink' /\ ServesStep
<1>1. TypeOK /\ TypeOK' /\ links[n] \in Links /\ primary[n] \in Node \cup {None}
  BY Facts DEF VInv, IInv
<1>2. links'[n] = [links[n] EXCEPT ![r] = k] /\ primary'[n] = primary[n]
  BY <1>1 DEF TypeOK
<1>3. \A m \in Node \ {n} : links'[m] = links[m] /\ primary'[m] = primary[m]
  BY <1>1 DEF TypeOK
<1>4. CASE primary[n] = r
  <2>1. links'[n][r] = k
    BY <1>1, <1>2 DEF Links
  <2>2. Shown(links[n], primary[n]) = Seen(links[n][r].state, r)
    BY CasAssumption, NoneIsNoState, <1>4 DEF Shown
  <2>3. Shown(links'[n], primary'[n]) = Seen(k.state, r)
    BY CasAssumption, NoneIsNoState, <1>2, <1>4, <2>1 DEF Shown
  <2>4. Serves(links[n], primary[n], links'[n], primary'[n])
    BY <1>2, <1>4, <2>1, <2>2, <2>3 DEF Serves, Stands
  <2> QED BY <1>1, <1>3, <2>4, NodeServes
<1>5. CASE primary[n] # r
  <2>1. primary[n] # None => links'[n][primary[n]] = links[n][primary[n]]
    BY <1>1, <1>2, <1>5 DEF Links
  <2>2. Serves(links[n], primary[n], links'[n], primary'[n])
    BY <1>2, <2>1, Standing DEF Serves, Stands, Shown
  <2> QED BY <1>1, <1>3, <2>2, NodeServes
<1> QED BY <1>4, <1>5

LEMMA QuietServes ==
  ASSUME VInv, UNCHANGED <<links, primary>>
  PROVE  PrimaryIsLink' /\ ServesStep
BY DEF VInv, PrimaryIsLink, ServesStep, ViewOf, State, Idle, Seen

LEMMA RemoveServes ==
  ASSUME VInv, IInv', NEW n \in Node, NEW r \in Node, Remove(n, r)
  PROVE  PrimaryIsLink' /\ ServesStep
<1>1. TypeOK /\ TypeOK' /\ links[n] \in Links /\ primary[n] \in Node \cup {None}
  BY Facts DEF VInv, IInv
<1>2. links'[n] = [links[n] EXCEPT ![r] = NoLink]
  BY <1>1 DEF Remove, TypeOK
<1>3. primary'[n] = IF primary[n] = r THEN None ELSE primary[n]
  BY <1>1 DEF Remove, WithoutPrimary, TypeOK
<1>4. \A m \in Node \ {n} : links'[m] = links[m] /\ primary'[m] = primary[m]
  BY <1>1 DEF Remove, WithoutPrimary, TypeOK
<1>5. CASE primary[n] = r
  <2>1. Shown(links'[n], primary'[n]) = Idle /\ Stands(links'[n], primary'[n])
    BY <1>3, <1>5 DEF Shown, Stands
  <2>2. Shown(links[n], primary[n]) = Seen(links[n][r].state, r)
    BY CasAssumption, NoneIsNoState, <1>5 DEF Shown
  <2>3. Follows(Seen(links[n][r].state, r), Idle)
    BY CasAssumption, NoneIsNoState, <1>5, Standing, IdleFollows
  <2>4. Serves(links[n], primary[n], links'[n], primary'[n])
    BY <2>1, <2>2, <2>3 DEF Serves
  <2> QED BY <1>1, <1>4, <2>4, NodeServes
<1>6. CASE primary[n] # r
  <2>1. primary[n] # None => links'[n][primary[n]] = links[n][primary[n]]
    BY <1>1, <1>2, <1>6 DEF Links
  <2>2. Serves(links[n], primary[n], links'[n], primary'[n])
    BY <1>3, <1>6, <2>1, Standing DEF Serves, Stands, Shown
  <2> QED BY <1>1, <1>4, <2>2, NodeServes
<1> QED BY <1>5, <1>6
-----------------------------------------------------------------------------
(* The actions.                                                            *)
LEMMA MakeLinkServes ==
  ASSUME VInv, IInv', NEW n \in Node, NEW r \in Node, NEW type \in LinkType, MakeLink(n, r, type)
  PROVE  PrimaryIsLink' /\ ServesStep
<1>1. TypeOK /\ TypeOK' /\ primary[n] \in Node \cup {None}
  BY Facts DEF VInv, IInv
<1>2. primary'[n] = r /\ links'[n][r].state = "CALLING"
  BY <1>1 DEF MakeLink, TypeOK
<1>3. \A m \in Node \ {n} : links'[m] = links[m] /\ primary'[m] = primary[m]
  BY <1>1 DEF MakeLink, TypeOK
<1>4. Shown(links[n], primary[n]).state \notin {"CALLING", "BREAKING"}
  BY DEF MakeLink, Shown, State, Idle, Seen
<1>5. Shown(links'[n], primary'[n]) = Seen("CALLING", r)
  BY CasAssumption, NoneIsNoState, <1>2 DEF Shown
<1>6. Serves(links[n], primary[n], links'[n], primary'[n])
  BY <1>2, <1>4, <1>5, CallFollows DEF Serves, Stands
<1> QED BY <1>1, <1>3, <1>6, NodeServes

LEMMA BreakLinkServes ==
  ASSUME VInv, IInv', NEW n \in Node, NEW r \in Node, BreakLink(n, r)
  PROVE  PrimaryIsLink' /\ ServesStep
<1>1. links[n][r].state = "MADE" /\ Broken(links[n][r]).state = "BREAKING"
  BY DEF BreakLink, State, Broken
<1> QED BY <1>1, OneLinkServes, AnswerFollows DEF BreakLink

LEMMA TickServes ==
  ASSUME VInv, IInv', NEW n \in Node, NEW r \in Node, Tick(n, r)
  PROVE  PrimaryIsLink' /\ ServesStep
<1> DEFINE again == [links[n][r] EXCEPT !.retry = links[n][r].retry + 1]
           down == [links[n][r] EXCEPT !.state = "FAILED"]
<1>0. links[n] \in Links /\ TypeOK
  BY Facts DEF VInv
<1>1. CASE CallAgain(n, r) \/ BreakAgain(n, r)
  <2>1. links' = [links EXCEPT ![n][r] = again] /\ UNCHANGED primary
    BY <1>0, <1>1 DEF CallAgain, BreakAgain, Links, TypeOK
  <2>2. links[n][r] \in Link /\ links[n][r].state # "IDLE"
    BY <1>0, <1>1, NoLinkIsNotALink DEF CallAgain, BreakAgain, State, Links
  <2>3. again.state = links[n][r].state
    BY <2>2 DEF Link
  <2> HIDE DEF again
  <2> QED BY <2>1, <2>2, <2>3, OneLinkServes
<1>2. CASE CallFails(n, r)
  <2>1. links' = [links EXCEPT ![n][r] = down] /\ UNCHANGED primary
    BY <1>0, <1>2 DEF CallFails, Links, TypeOK
  <2>2. links[n][r] \in Link /\ links[n][r].state = "CALLING"
    BY <1>0, <1>2, NoLinkIsNotALink DEF CallFails, State, Links
  <2>3. down.state = "FAILED"
    BY <2>2 DEF Link
  <2> HIDE DEF down
  <2> QED BY <2>1, <2>2, <2>3, OneLinkServes, AnswerFollows
<1>3. CASE BreakEnds(n, r)
  BY <1>3, RemoveServes DEF BreakEnds
<1> QED BY <1>1, <1>2, <1>3 DEF Tick

LEMMA RxRequestAdmittedServes ==
  ASSUME VInv, IInv', NEW n \in Node, NEW r \in Node, RxRequestAdmitted(n, r)
  PROVE  PrimaryIsLink' /\ ServesStep
<1> DEFINE k == [state |-> "MADE", type |-> Head(chan[r][n]).link, called |-> TRUE, retry |-> 0]
<1>1. TypeOK /\ TypeOK' /\ links[n] \in Links /\ primary[n] \in Node \cup {None}
  BY Facts DEF VInv, IInv
<1>2. links' = [links EXCEPT ![n][r] = k]
  BY DEF RxRequestAdmitted
<1>3. primary' = [primary EXCEPT ![n] = IF primary[n] = None THEN r ELSE primary[n]]
  BY DEF RxRequestAdmitted
<1>4. k.state = "MADE"
  OBVIOUS
<1>5. State(n, r) \in {"IDLE", "FAILED"}
  BY DEF RxRequestAdmitted, Admits
<1> HIDE DEF k
<1>6. CASE primary[n] = None
  <2>1. links'[n][r] = k /\ primary'[n] = r
    BY <1>1, <1>2, <1>3, <1>6 DEF TypeOK, Links
  <2>2. \A m \in Node \ {n} : links'[m] = links[m] /\ primary'[m] = primary[m]
    BY <1>1, <1>2, <1>3 DEF TypeOK
  <2>3. Shown(links[n], primary[n]) = Idle /\ Shown(links'[n], primary'[n]) = Seen("MADE", r)
    BY CasAssumption, NoneIsNoState, <1>4, <1>6, <2>1 DEF Shown
  <2>4. Serves(links[n], primary[n], links'[n], primary'[n])
    BY <1>4, <2>1, <2>3, AnswerFollows DEF Serves, Stands
  <2> QED BY <1>1, <2>2, <2>4, NodeServes
<1>7. CASE primary[n] # None
  <2>1. UNCHANGED primary
    BY <1>1, <1>3, <1>7 DEF TypeOK
  <2>2. primary[n] = r => links[n][r].state = "FAILED"
    BY <1>5, <1>7, Standing DEF State
  <2> QED BY <1>2, <1>4, <2>1, <2>2, OneLinkServes, AnswerFollows
<1> QED BY <1>6, <1>7

LEMMA RxAcceptedServes ==
  ASSUME VInv, IInv', NEW n \in Node, NEW r \in Node, RxAccepted(n, r)
  PROVE  PrimaryIsLink' /\ ServesStep
<1> DEFINE up == [links[n][r] EXCEPT !.state = "MADE"]
<1>1. TypeOK /\ TypeOK' /\ links[n] \in Links
  BY Facts DEF VInv, IInv
<1>2. links[n][r].state = "CALLING" /\ links[n][r] \in Link
  BY <1>1, NoLinkIsNotALink DEF RxAccepted, State, Links
<1>3. primary[n] = r /\ primary'[n] = r
  BY <1>2 DEF VInv, IInv, CallIsPrimary, State, RxAccepted
<1>4. up.state = "MADE"
  BY <1>2 DEF Link
<1>5. links'[n][r] = up
  BY <1>1 DEF RxAccepted, TypeOK
<1>6. \A m \in Node \ {n} : links'[m] = links[m] /\ primary'[m] = primary[m]
  BY <1>1 DEF RxAccepted, TypeOK
<1> HIDE DEF up
<1>7. Shown(links[n], primary[n]) = Seen("CALLING", r) /\ Shown(links'[n], primary'[n]) = Seen("MADE", r)
  BY CasAssumption, NoneIsNoState, <1>2, <1>3, <1>4, <1>5 DEF Shown
<1>8. Serves(links[n], primary[n], links'[n], primary'[n])
  BY <1>3, <1>4, <1>5, <1>7, AnswerFollows DEF Serves, Stands
<1> QED BY <1>1, <1>6, <1>8, NodeServes

LEMMA RxRejectedServes ==
  ASSUME VInv, IInv', NEW n \in Node, NEW r \in Node, RxRejected(n, r)
  PROVE  PrimaryIsLink' /\ ServesStep
<1> DEFINE down == [links[n][r] EXCEPT !.state = "FAILED"]
<1>0. links[n] \in Links /\ TypeOK
  BY Facts DEF VInv
<1>1. links' = [links EXCEPT ![n][r] = down] /\ UNCHANGED primary
  BY <1>0 DEF RxRejected, Links, TypeOK
<1>2. links[n][r] \in Link /\ links[n][r].state = "CALLING"
  BY <1>0, NoLinkIsNotALink DEF RxRejected, State, Links
<1>3. down.state = "FAILED"
  BY <1>2 DEF Link
<1> HIDE DEF down
<1> QED BY <1>1, <1>2, <1>3, OneLinkServes, AnswerFollows

LEMMA ProcessCpduServes ==
  ASSUME VInv, IInv', NEW n \in Node, NEW r \in Node, ProcessCpdu(n, r)
  PROVE  PrimaryIsLink' /\ ServesStep
<1>1. CASE RxRequestAgain(n, r) \/ RxRequestRefused(n, r) \/ RxIgnored(n, r)
  BY <1>1, QuietServes DEF RxRequestAgain, RxRequestRefused, RxIgnored
<1>2. CASE RxBreak(n, r) \/ RxBreakConfirm(n, r)
  BY <1>2, RemoveServes DEF RxBreak, RxBreakConfirm
<1> QED BY <1>1, <1>2, RxRequestAdmittedServes, RxAcceptedServes, RxRejectedServes DEF ProcessCpdu
-----------------------------------------------------------------------------
LEMMA InitServes == ASSUME Init PROVE VInv
<1>1. PrimaryIsLink
  BY DEF Init, PrimaryIsLink
<1> QED BY <1>1, InitCorrect DEF VInv

LEMMA NextServes == ASSUME VInv, [Next]_vars PROVE VInv' /\ ServesStep
<1>0. IInv'
  BY NextCorrect DEF VInv
<1>1. CASE Next
  <2> SUFFICES ASSUME NEW n \in Node, NEW r \in Node,
                      \/ \E type \in LinkType : MakeLink(n, r, type)
                      \/ BreakLink(n, r) \/ Tick(n, r) \/ IdleTimeout(n, r)
                      \/ ProcessCpdu(n, r) \/ Lose(n, r)
               PROVE  PrimaryIsLink' /\ ServesStep
    BY <1>0, <1>1 DEF Next, VInv
  <2>1. CASE ProcessCpdu(n, r)
    BY <1>0, <2>1, ProcessCpduServes
  <2>2. CASE IdleTimeout(n, r)
    BY <1>0, <2>2, RemoveServes DEF IdleTimeout
  <2>3. CASE Lose(n, r)
    BY <2>3, QuietServes DEF Lose
  <2> QED BY <1>0, <2>1, <2>2, <2>3, MakeLinkServes, BreakLinkServes, TickServes
<1>2. CASE UNCHANGED vars
  BY <1>0, <1>2, QuietServes DEF vars, VInv
<1> QED BY <1>1, <1>2

(* Whatever the order of calls, answers, breaks, timeouts and losses, what *)
(* a node sees of its primary link changes in the ways CasView names       *)
(* (CASEngine.state, remote_node_address, _primary_ctx).                   *)
THEOREM ViewIsServed == Spec => ServesView
<1>1. Init => VInv
  BY InitServes
<1>2. VInv /\ [Next]_vars => VInv' /\ [ServesStep]_vars
  BY NextServes
<1>3. Spec => [][ServesStep]_vars
  BY <1>1, <1>2, PTL DEF Spec
<1> QED BY <1>3, PTL DEF ServesView, ServesStep
-----------------------------------------------------------------------------
(* What two nodes believe of their link.  Seen from the caller of a pair,  *)
(* l is its link and k that of its peer, out and in are the C_PDUs going   *)
(* there and coming back.                                                  *)

(* An acceptance that is the i-th C_PDU to come is still true when it is   *)
(* read, or a break comes behind it.                                       *)
Backed(k, in, i) ==
  \/ k.state \in {"CALLING", "MADE"}
  \/ \E j \in DOMAIN in : j > i /\ in[j] = Break

Claims(l) == l.state = "CALLING" \/ (l.state = "MADE" /\ ~l.called)

(* A node that calls, or has called, has sent no break that its peer would *)
(* take for the end of this link, and what comes from the peer backs it.   *)
Trusts(l, k, out, in) ==
  /\ Claims(l) => \A i \in DOMAIN out : out[i] # Break
  /\ l.state = "CALLING" => \A i \in DOMAIN in : in[i] = Accepted => Backed(k, in, i)
  /\ l.state = "MADE" /\ ~l.called => Backed(k, in, 0)

Trust(n, r) == unheard[r][n] = FALSE => Trusts(links[n][r], links[r][n], chan[n][r], chan[r][n])
CallersTrust == \A n \in Node : \A r \in Node \ {n} : Trust(n, r)

GInv == IInv /\ CallersTrust

(* The C_PDUs are told apart by their kind.                                *)
LEMMA KindsDiffer ==
  /\ Break # Accepted /\ Break # Rejected /\ Break # BreakConfirm
  /\ Accepted # Rejected /\ Accepted # BreakConfirm
  /\ \A type \in LinkType : Request(type) # Break /\ Request(type) # Accepted
<1>1. Break.type = "BREAK" /\ Accepted.type = "ACCEPTED" /\ Rejected.type = "REJECTED"
      /\ BreakConfirm.type = "BREAK_CONFIRM"
  BY DEF Break, Accepted, Rejected, BreakConfirm
<1>2. \A type \in LinkType : Request(type).type = "REQUEST"
  BY DEF Request
<1>3. "BREAK" # "ACCEPTED" /\ "BREAK" # "REJECTED" /\ "BREAK" # "BREAK_CONFIRM"
      /\ "ACCEPTED" # "REJECTED" /\ "ACCEPTED" # "BREAK_CONFIRM"
      /\ "REQUEST" # "BREAK" /\ "REQUEST" # "ACCEPTED"
  OBVIOUS
<1> QED BY <1>1, <1>2, <1>3

(* Queues of C_PDUs.                                                       *)
LEMMA Appended ==
  ASSUME NEW s \in Seq(Cpdu), NEW c \in Cpdu
  PROVE  /\ DOMAIN s \subseteq DOMAIN Append(s, c)
         /\ \A i \in DOMAIN s : Append(s, c)[i] = s[i]
         /\ \A i \in DOMAIN Append(s, c) : i \in DOMAIN s \/ i = Len(s) + 1
         /\ Len(s) + 1 \in DOMAIN Append(s, c) /\ Append(s, c)[Len(s) + 1] = c
         /\ Len(s) + 1 > 0 /\ \A i \in DOMAIN s : Len(s) + 1 > i
  OBVIOUS

(* A queue whose head is read: what is left moves up by one.               *)
LEMMA Shifted ==
  ASSUME NEW s \in Seq(Cpdu), s # <<>>
  PROVE  /\ \A i \in DOMAIN Tail(s) : i + 1 \in DOMAIN s /\ Tail(s)[i] = s[i + 1]
         /\ \A j \in DOMAIN s : j > 1 => j - 1 \in DOMAIN Tail(s) /\ Tail(s)[j - 1] = s[j]
         /\ DOMAIN s \subseteq Int /\ DOMAIN Tail(s) \subseteq Int /\ s[1] = Head(s)
         /\ \A j \in DOMAIN s : j >= 1
<1>1. /\ DOMAIN s = 1 .. Len(s) /\ Len(s) \in Nat /\ Len(s) > 0 /\ s[1] = Head(s)
      /\ Len(Tail(s)) = Len(s) - 1 /\ Tail(s) \in Seq(Cpdu)
  OBVIOUS
<1>2. DOMAIN Tail(s) = 1 .. Len(s) - 1
  BY <1>1
<1>3. \A i \in DOMAIN Tail(s) : Tail(s)[i] = s[i + 1]
  OBVIOUS
<1>4. PICK m \in Nat : m = Len(s)
  BY <1>1
<1>5. DOMAIN s = 1 .. m /\ DOMAIN Tail(s) = 1 .. m - 1 /\ s[1] = Head(s)
  BY <1>1, <1>2, <1>4
<1>6. \A i \in 1 .. m - 1 : i + 1 \in 1 .. m
  OBVIOUS
<1>7. \A j \in 1 .. m : j > 1 => j - 1 \in 1 .. m - 1 /\ (j - 1) + 1 = j
  OBVIOUS
<1> QED BY <1>3, <1>5, <1>6, <1>7

(* A step of the peer: it may answer, and read what has come.              *)
LEMMA FarStep ==
  ASSUME NEW l, NEW k, NEW k2, NEW out \in Seq(Cpdu), NEW in \in Seq(Cpdu), NEW out2, NEW in2,
         NEW c \in Cpdu,
         Trusts(l, k, out, in),
         out2 = out \/ (out # <<>> /\ out2 = Tail(out)),
         in2 = in \/ in2 = Append(in, c),
         in2 # in /\ c = Accepted => k2.state \in {"CALLING", "MADE"},
         k.state \in {"CALLING", "MADE"} =>
           \/ k2.state \in {"CALLING", "MADE"}
           \/ in2 = Append(in, c) /\ c = Break
           \/ out # <<>> /\ Head(out) = Break
  PROVE  Trusts(l, k2, out2, in2)
<1>1. Claims(l) => \A i \in DOMAIN out2 : out2[i] # Break
  <2>1. CASE out2 = out
    BY <2>1 DEF Trusts
  <2>2. CASE out # <<>> /\ out2 = Tail(out)
    <3>1. \A i \in DOMAIN out2 : i + 1 \in DOMAIN out /\ out2[i] = out[i + 1]
      BY <2>2, Shifted
    <3> QED BY <3>1 DEF Trusts
  <2> QED BY <2>1, <2>2
<1>2. SUFFICES ASSUME Claims(l)
               PROVE  /\ l.state = "CALLING" => \A i \in DOMAIN in2 : in2[i] = Accepted => Backed(k2, in2, i)
                      /\ l.state = "MADE" /\ ~l.called => Backed(k2, in2, 0)
  BY <1>1 DEF Trusts, Claims, Backed
<1>3. k.state \in {"CALLING", "MADE"} =>
        k2.state \in {"CALLING", "MADE"} \/ (in2 = Append(in, c) /\ c = Break)
  <2>1. out # <<>> => Head(out) = out[1] /\ 1 \in DOMAIN out
    OBVIOUS
  <2> QED BY <1>2, <2>1 DEF Trusts
<1>4. \A i \in DOMAIN in \cup {0} : Backed(k, in, i) => Backed(k2, in2, i)
  <2> SUFFICES ASSUME NEW i \in DOMAIN in \cup {0}, Backed(k, in, i)
               PROVE  Backed(k2, in2, i)
    OBVIOUS
  <2>1. CASE k.state \in {"CALLING", "MADE"}
    <3>1. in2 = Append(in, c) /\ c = Break => Backed(k2, in2, i)
      BY Appended DEF Backed
    <3> QED BY <1>3, <2>1, <3>1 DEF Backed
  <2>2. CASE \E j \in DOMAIN in : j > i /\ in[j] = Break
    BY <2>2, Appended DEF Backed
  <2> QED BY <1>2, <2>1, <2>2 DEF Backed
<1>5. ASSUME l.state = "CALLING", NEW i \in DOMAIN in2, in2[i] = Accepted PROVE Backed(k2, in2, i)
  <2>1. CASE i \in DOMAIN in
    BY <1>4, <1>5, <2>1, Appended DEF Trusts
  <2>2. CASE i \notin DOMAIN in
    BY <1>5, <2>2, Appended DEF Backed
  <2> QED BY <2>1, <2>2
<1> QED BY <1>4, <1>5 DEF Trusts

(* A step of the node itself that leaves it neither calling nor a caller.  *)
LEMMA PassiveStep ==
  ASSUME NEW l, NEW k, NEW out, NEW in, ~Claims(l)
  PROVE  Trusts(l, k, out, in)
BY DEF Trusts, Claims

(* A step of the node itself that leaves its link: it may send anything    *)
(* but a break and read anything but one, or lose one.                     *)
LEMMA NearStep ==
  ASSUME NEW l, NEW l2, NEW k, NEW out \in Seq(Cpdu), NEW in \in Seq(Cpdu), NEW out2, NEW in2,
         NEW c \in Cpdu,
         Trusts(l, k, out, in),
         l2.state = l.state, l2.called = l.called,
         out2 = out \/ (out2 = Append(out, c) /\ c # Break),
         in2 = in \/ (in # <<>> /\ in2 = Tail(in) /\ Head(in) # Break)
  PROVE  Trusts(l2, k, out2, in2)
<1>1. Claims(l2) => \A i \in DOMAIN out2 : out2[i] # Break
  <2>1. \A i \in DOMAIN Append(out, c) : (i \in DOMAIN out /\ Append(out, c)[i] = out[i]) \/ Append(out, c)[i] = c
    BY Appended
  <2> QED BY <2>1 DEF Trusts, Claims
<1> SUFFICES /\ l.state = "CALLING" => \A i \in DOMAIN in2 : in2[i] = Accepted => Backed(k, in2, i)
             /\ l.state = "MADE" /\ ~l.called => Backed(k, in2, 0)
  BY <1>1 DEF Trusts, Claims, Backed
<1>2. CASE in2 = in
  BY <1>2 DEF Trusts, Backed
<1>3. CASE in # <<>> /\ in2 = Tail(in) /\ Head(in) # Break
  <2>1. Backed(k, in, 0) => Backed(k, in2, 0)
    <3> SUFFICES ASSUME NEW j \in DOMAIN in, j > 0, in[j] = Break
                 PROVE  Backed(k, in2, 0)
      BY DEF Backed
    <3>1. j \in Int /\ j # 1 /\ j > 1
      BY <1>3, Shifted
    <3>2. j - 1 \in DOMAIN in2 /\ in2[j - 1] = Break
      BY <1>3, <3>1, Shifted
    <3>3. j - 1 > 0
      BY <3>1
    <3> QED BY <3>2, <3>3 DEF Backed
  <2>2. ASSUME NEW i \in DOMAIN in2, Backed(k, in, i + 1) PROVE Backed(k, in2, i)
    <3> SUFFICES ASSUME NEW j \in DOMAIN in, j > i + 1, in[j] = Break
                 PROVE  Backed(k, in2, i)
      BY <2>2 DEF Backed
    <3>1. j \in Int /\ i \in Int /\ j >= 1
      BY <1>3, Shifted
    <3>2. j # 1
      BY <1>3, Shifted
    <3>3. j - 1 \in DOMAIN in2 /\ in2[j - 1] = Break
      BY <1>3, <3>1, <3>2, Shifted
    <3>4. j - 1 > i
      BY <3>1
    <3> QED BY <3>3, <3>4 DEF Backed
  <2>3. ASSUME l.state = "CALLING", NEW i \in DOMAIN in2, in2[i] = Accepted PROVE Backed(k, in2, i)
    <3>1. i + 1 \in DOMAIN in /\ in[i + 1] = Accepted
      BY <1>3, <2>3, Shifted
    <3> QED BY <2>2, <2>3, <3>1 DEF Trusts
  <2> QED BY <2>1, <2>3 DEF Trusts
<1> QED BY <1>2, <1>3

(* The same, for a step that only sends.                                   *)
LEMMA NearSend ==
  ASSUME NEW l, NEW l2, NEW k, NEW out \in Seq(Cpdu), NEW in \in Seq(Cpdu),
         NEW c \in Cpdu, c # Break,
         Trusts(l, k, out, in), l2.state = l.state, l2.called = l.called
  PROVE  Trusts(l2, k, out, in) /\ Trusts(l2, k, Append(out, c), in)
<1>1. Trusts(l2, k, out, in)
  BY DEF Trusts, Claims
<1>2. \A i \in DOMAIN Append(out, c) : i \in DOMAIN out \/ Append(out, c)[i] = c
  BY Appended
<1>3. \A i \in DOMAIN out : Append(out, c)[i] = out[i]
  BY Appended
<1> QED BY <1>1, <1>2, <1>3 DEF Trusts, Claims

(* A step of the peer that only sends.                                     *)
LEMMA FarSend ==
  ASSUME NEW l, NEW k, NEW k2, NEW out \in Seq(Cpdu), NEW in \in Seq(Cpdu),
         NEW c \in Cpdu, c # Accepted,
         Trusts(l, k, out, in),
         k.state \in {"CALLING", "MADE"} => k2.state \in {"CALLING", "MADE"} \/ c = Break
  PROVE  Trusts(l, k2, out, Append(in, c))
<1>1. PICK in2 : in2 = Append(in, c)
  OBVIOUS
<1>2. PICK out2 : out2 = out
  OBVIOUS
<1>3. k.state \in {"CALLING", "MADE"} =>
        \/ k2.state \in {"CALLING", "MADE"}
        \/ in2 = Append(in, c) /\ c = Break
        \/ out # <<>> /\ Head(out) = Break
  BY <1>1
<1>4. (out2 = out \/ (out # <<>> /\ out2 = Tail(out))) /\ (in2 = in \/ in2 = Append(in, c))
      /\ (in2 # in /\ c = Accepted => k2.state \in {"CALLING", "MADE"})
  BY <1>1, <1>2
<1>5. Trusts(l, k2, out2, in2)
  BY <1>3, <1>4, FarStep
<1> QED BY <1>1, <1>2, <1>5

(* A step of the node itself that reads, and may answer.                   *)
LEMMA NearRead ==
  ASSUME NEW l, NEW l2, NEW k, NEW out \in Seq(Cpdu), NEW in \in Seq(Cpdu), NEW c \in Cpdu,
         c # Break, in # <<>>, Head(in) # Break,
         Trusts(l, k, out, in), l2.state = l.state, l2.called = l.called
  PROVE  Trusts(l2, k, out, Tail(in)) /\ Trusts(l2, k, Append(out, c), Tail(in))
<1>1. PICK in2 : in2 = Tail(in)
  OBVIOUS
<1>2. PICK out2 : out2 = Append(out, c)
  OBVIOUS
<1>3. Trusts(l2, k, out2, in2)
  BY <1>1, <1>2, NearStep
<1>4. Trusts(l2, k, out, in2)
  BY <1>1, <1>3, <1>2, Appended DEF Trusts, Claims
<1> QED BY <1>1, <1>2, <1>3, <1>4

(* A step of the peer that reads, and may answer.                          *)
LEMMA FarRead ==
  ASSUME NEW l, NEW k, NEW k2, NEW out \in Seq(Cpdu), NEW in \in Seq(Cpdu), NEW c \in Cpdu,
         out # <<>>, Trusts(l, k, out, in), c = Accepted => k2.state \in {"CALLING", "MADE"},
         k.state \in {"CALLING", "MADE"} => k2.state \in {"CALLING", "MADE"} \/ Head(out) = Break
  PROVE  Trusts(l, k2, Tail(out), in) /\ Trusts(l, k2, Tail(out), Append(in, c))
<1>1. PICK in2 : in2 = Append(in, c)
  OBVIOUS
<1>2. PICK out2 : out2 = Tail(out)
  OBVIOUS
<1>3. PICK in3 : in3 = in
  OBVIOUS
<1>4. k.state \in {"CALLING", "MADE"} =>
        k2.state \in {"CALLING", "MADE"} \/ (out # <<>> /\ Head(out) = Break)
  OBVIOUS
<1>5. Trusts(l, k2, out2, in2)
  BY <1>1, <1>2, <1>4, FarStep
<1>6. Trusts(l, k2, out2, in3)
  BY <1>2, <1>3, <1>4, FarStep
<1> QED BY <1>1, <1>2, <1>3, <1>5, <1>6

(* The acceptance that makes a call a link.                                *)
LEMMA AcceptedStep ==
  ASSUME NEW l, NEW l2, NEW k, NEW out \in Seq(Cpdu), NEW in \in Seq(Cpdu),
         Trusts(l, k, out, in), l.state = "CALLING", l2.state = "MADE",
         in # <<>>, Head(in) = Accepted
  PROVE  Trusts(l2, k, out, Tail(in))
<1>1. Backed(k, in, 1)
  <2>1. 1 \in DOMAIN in /\ in[1] = Accepted
    OBVIOUS
  <2> QED BY <2>1 DEF Trusts
<1>2. Backed(k, Tail(in), 0)
  <2> SUFFICES ASSUME NEW j \in DOMAIN in, j > 1, in[j] = Break
               PROVE  Backed(k, Tail(in), 0)
    BY <1>1 DEF Backed
  <2>1. j \in Int /\ j - 1 \in DOMAIN Tail(in) /\ Tail(in)[j - 1] = Break
    BY Shifted
  <2>2. j - 1 > 0
    BY <2>1
  <2> QED BY <2>1, <2>2 DEF Backed
<1> QED BY <1>2 DEF Trusts, Claims

(* A call that starts with nothing left over.                              *)
LEMMA CallStep ==
  ASSUME NEW l, NEW k, NEW out \in Seq(Cpdu), NEW in \in Seq(Cpdu), NEW c \in Cpdu, c # Break,
         l.state = "CALLING",
         \A i \in DOMAIN out : out[i] # Break, \A i \in DOMAIN in : in[i] # Accepted
  PROVE  Trusts(l, k, Append(out, c), in)
<1>1. \A i \in DOMAIN Append(out, c) : Append(out, c)[i] # Break
  BY Appended
<1> QED BY <1>1 DEF Trusts, Backed
-----------------------------------------------------------------------------
(* Who is concerned by a step of n.                                        *)
Same(x, y) ==
  links'[x][y] = links[x][y] /\ chan'[x][y] = chan[x][y] /\ unheard'[x][y] = unheard[x][y]

(* A step of n: the pairs that n is in are to be shown, the others stay.   *)
LEMMA ByActor ==
  ASSUME CallersTrust, NEW n \in Node,
         \A x \in Node \ {n} : Trust(n, x)' /\ Trust(x, n)',
         \A x, y \in Node \ {n} : Same(x, y)
  PROVE  CallersTrust'
<1> SUFFICES ASSUME NEW x \in Node, NEW y \in Node \ {x} PROVE Trust(x, y)'
  BY DEF CallersTrust
<1>1. CASE x # n /\ y # n
  <2>1. Same(x, y) /\ Same(y, x) /\ Trust(x, y)
    BY <1>1 DEF CallersTrust
  <2> QED BY <2>1 DEF Trust, Same
<1> QED BY <1>1

(* A step that concerns n and r only.                                      *)
LEMMA OnePeer ==
  ASSUME CallersTrust, NEW n \in Node, NEW r \in Node,
         n # r => Trust(n, r)' /\ Trust(r, n)',
         \A x, y \in Node : ~(x = n /\ y = r) /\ ~(x = r /\ y = n) => Same(x, y)
  PROVE  CallersTrust'
<1> SUFFICES ASSUME NEW x \in Node, NEW y \in Node \ {x} PROVE Trust(x, y)'
  BY DEF CallersTrust
<1>1. CASE ~(x = n /\ y = r) /\ ~(x = r /\ y = n)
  <2>1. Same(x, y) /\ Same(y, x) /\ Trust(x, y)
    BY <1>1 DEF CallersTrust
  <2> QED BY <2>1 DEF Trust, Same
<1> QED BY <1>1

(* What the invariant says of the types.                                   *)
LEMMA Typed ==
  ASSUME GInv
  PROVE  /\ IInv /\ CallersTrust
         /\ links \in [Node -> [Node -> Link \cup {NoLink}]]
         /\ chan \in [Node -> [Node -> Seq(Cpdu)]]
         /\ unheard \in [Node -> [Node -> BOOLEAN]]
         /\ \A n, r \in Node : links[n][r] \in Link \cup {NoLink} /\ chan[n][r] \in Seq(Cpdu)
                                 /\ unheard[n][r] \in BOOLEAN
BY DEF GInv, IInv, TypeOK

(* What Send, Taken and Answer do to the queues of a pair.                 *)
LEMMA Sent ==
  ASSUME GInv, NEW n \in Node, NEW r \in Node, NEW c, Send(n, r, c)
  PROVE  /\ chan'[n][r] = Append(chan[n][r], c)
         /\ \A x, y \in Node : ~(x = n /\ y = r) => chan'[x][y] = chan[x][y]
BY Typed DEF Send

LEMMA TakenIs ==
  ASSUME GInv, NEW n \in Node, NEW r \in Node
  PROVE  /\ Taken(n, r)[r][n] = Tail(chan[r][n])
         /\ \A x, y \in Node : ~(x = r /\ y = n) => Taken(n, r)[x][y] = chan[x][y]
         /\ DOMAIN Taken(n, r) = Node /\ \A x \in Node : DOMAIN Taken(n, r)[x] = Node
BY Typed DEF Taken

LEMMA Answered ==
  ASSUME GInv, NEW n \in Node, NEW r \in Node, NEW c, Answer(n, r, c)
  PROVE  /\ n # r => chan'[r][n] = Tail(chan[r][n]) /\ chan'[n][r] = Append(chan[n][r], c)
         /\ \A x, y \in Node : ~(x = n /\ y = r) /\ ~(x = r /\ y = n) => chan'[x][y] = chan[x][y]
<1> DEFINE taken == Taken(n, r)
<1>1. chan' = [taken EXCEPT ![n][r] = Append(taken[n][r], c)]
  BY DEF Answer
<1>2. DOMAIN taken = Node /\ (\A x \in Node : DOMAIN taken[x] = Node)
  BY TakenIs
<1>3. taken[r][n] = Tail(chan[r][n]) /\ \A x, y \in Node : ~(x = r /\ y = n) => taken[x][y] = chan[x][y]
  BY TakenIs
<1> HIDE DEF taken
<1> QED BY <1>1, <1>2, <1>3

(* A step that writes one link.                                            *)
LEMMA Linked ==
  ASSUME GInv, NEW n \in Node, NEW r \in Node, NEW k, links' = [links EXCEPT ![n][r] = k]
  PROVE  links'[n][r] = k /\ \A x, y \in Node : ~(x = n /\ y = r) => links'[x][y] = links[x][y]
BY Typed

(* The head of a queue, by its kind.                                       *)
LEMMA Heads ==
  ASSUME GInv, NEW n \in Node, NEW r \in Node, chan[r][n] # <<>>
  PROVE  /\ Head(chan[r][n]) \in Cpdu
         /\ Head(chan[r][n]).type = "BREAK" => Head(chan[r][n]) = Break
         /\ Head(chan[r][n]).type = "ACCEPTED" => Head(chan[r][n]) = Accepted
         /\ Head(chan[r][n]) = Break => Head(chan[r][n]).type = "BREAK"
<1>1. chan[r][n] \in Seq(Cpdu)
  BY Typed
<1>2. Head(chan[r][n]) \in Cpdu
  BY <1>1
<1>3. \A c \in Cpdu : (c.type = "BREAK" <=> c = Break) /\ (c.type = "ACCEPTED" => c = Accepted)
  BY DEF Cpdu, Break, Accepted
<1> QED BY <1>2, <1>3

(* The invariant for a pair, from either end.                              *)
LEMMA PairTrust ==
  ASSUME GInv, NEW n \in Node, NEW r \in Node, n # r
  PROVE  Trust(n, r) /\ Trust(r, n)
BY Typed DEF CallersTrust

(* A step of n that changes its link with r and tells r something.         *)
LEMMA TellStep ==
  ASSUME GInv, NEW n \in Node, NEW r \in Node, NEW k, NEW c \in Cpdu,
         links' = [links EXCEPT ![n][r] = k], UNCHANGED unheard,
         chan' = chan \/ Send(n, r, c), c # Accepted,
         \/ ~Claims(k)
         \/ k.state = links[n][r].state /\ k.called = links[n][r].called /\ c # Break,
         links[n][r].state \in {"CALLING", "MADE"} =>
           k.state \in {"CALLING", "MADE"} \/ (Send(n, r, c) /\ c = Break)
  PROVE  CallersTrust'
<1>1. links'[n][r] = k /\ \A x, y \in Node : ~(x = n /\ y = r) => links'[x][y] = links[x][y]
  BY Linked
<1>2. \A x, y \in Node : ~(x = n /\ y = r) => chan'[x][y] = chan[x][y]
  BY Sent
<1>3. chan'[n][r] = chan[n][r] \/ chan'[n][r] = Append(chan[n][r], c)
  BY Sent
<1>4. Send(n, r, c) => chan'[n][r] = Append(chan[n][r], c)
  BY Sent
<1>5. ASSUME n # r PROVE Trust(n, r)' /\ Trust(r, n)'
  <2>1. links'[r][n] = links[r][n] /\ chan'[r][n] = chan[r][n]
    BY <1>1, <1>2, <1>5
  <2>2. chan[n][r] \in Seq(Cpdu) /\ chan[r][n] \in Seq(Cpdu)
    BY Typed
  <2>3. ASSUME unheard[r][n] = FALSE PROVE Trusts(k, links[r][n], chan'[n][r], chan[r][n])
    <3>1. CASE ~Claims(k)
      BY <3>1, PassiveStep
    <3>2. CASE k.state = links[n][r].state /\ k.called = links[n][r].called /\ c # Break
      <4>1. Trusts(links[n][r], links[r][n], chan[n][r], chan[r][n])
        BY <1>5, <2>3, PairTrust DEF Trust
      <4> QED BY <1>3, <2>2, <3>2, <4>1, NearSend
    <3> QED BY <3>1, <3>2
  <2>4. ASSUME unheard[n][r] = FALSE PROVE Trusts(links[r][n], k, chan[r][n], chan'[n][r])
    <3>1. Trusts(links[r][n], links[n][r], chan[r][n], chan[n][r])
      BY <1>5, <2>4, PairTrust DEF Trust
    <3> QED BY <1>3, <1>4, <2>2, <3>1, FarStep
  <2> QED BY <1>1, <2>1, <2>3, <2>4 DEF Trust
<1>6. \A x, y \in Node : ~(x = n /\ y = r) /\ ~(x = r /\ y = n) => Same(x, y)
  BY <1>1, <1>2 DEF Same
<1> QED BY <1>5, <1>6, OnePeer, Typed
-----------------------------------------------------------------------------
(* The actions.                                                            *)
LEMMA BreakLinkTrust ==
  ASSUME GInv, NEW n \in Node, NEW r \in Node, BreakLink(n, r)
  PROVE  CallersTrust'
<1>1. Broken(links[n][r]).state = "BREAKING"
  BY DEF Broken
<1>2. ~Claims(Broken(links[n][r]))
  BY <1>1 DEF Claims
<1>3. Break \in Cpdu /\ Break # Accepted
  BY CpduTypes, KindsDiffer
<1>4. links' = [links EXCEPT ![n][r] = Broken(links[n][r])] /\ Send(n, r, Break) /\ UNCHANGED unheard
  BY DEF BreakLink
<1> QED BY <1>2, <1>3, <1>4, TellStep

LEMMA TimerTrust ==
  ASSUME GInv, NEW n \in Node, NEW r \in Node, CallAgain(n, r) \/ BreakAgain(n, r)
  PROVE  CallersTrust'
<1> DEFINE k == [links[n][r] EXCEPT !.retry = links[n][r].retry + 1]
<1>1. links' = [links EXCEPT ![n][r] = k] /\ UNCHANGED unheard
  BY Typed DEF CallAgain, BreakAgain
<1>2. links[n][r] \in Link
  BY Typed, NoLinkIsNotALink DEF CallAgain, BreakAgain, State
<1>3. k.state = links[n][r].state /\ k.called = links[n][r].called
  BY <1>2 DEF Link
<1> HIDE DEF k
<1>4. CASE CallAgain(n, r)
  <2>1. Request(links[n][r].type) \in Cpdu /\ Request(links[n][r].type) # Break
        /\ Request(links[n][r].type) # Accepted
    BY <1>2, CpduTypes, KindsDiffer DEF Link
  <2>2. Send(n, r, Request(links[n][r].type))
    BY <1>4 DEF CallAgain
  <2> QED BY <1>1, <1>3, <2>1, <2>2, TellStep
<1>5. CASE BreakAgain(n, r)
  <2>1. links[n][r].state = "BREAKING" /\ Send(n, r, Break)
    BY <1>5 DEF BreakAgain, State
  <2>2. ~Claims(k)
    BY <1>3, <2>1 DEF Claims
  <2>3. Break \in Cpdu /\ Break # Accepted
    BY CpduTypes, KindsDiffer
  <2> QED BY <1>1, <2>1, <2>2, <2>3, TellStep
<1> QED BY <1>4, <1>5

LEMMA BreakEndsTrust ==
  ASSUME GInv, NEW n \in Node, NEW r \in Node, BreakEnds(n, r)
  PROVE  CallersTrust'
<1>1. links[n][r].state = "BREAKING" /\ links' = [links EXCEPT ![n][r] = NoLink]
      /\ UNCHANGED <<chan, unheard>>
  BY DEF BreakEnds, Remove, State
<1>2. ~Claims(NoLink)
  BY DEF Claims, NoLink
<1>3. BreakConfirm \in Cpdu /\ BreakConfirm # Accepted
  BY CpduTypes, KindsDiffer
<1> QED BY <1>1, <1>2, <1>3, TellStep

LEMMA IdleTimeoutTrust ==
  ASSUME GInv, NEW n \in Node, NEW r \in Node, IdleTimeout(n, r)
  PROVE  CallersTrust'
<1>1. links' = [links EXCEPT ![n][r] = NoLink] /\ Send(n, r, Break) /\ UNCHANGED unheard
  BY DEF IdleTimeout, Remove
<1>2. ~Claims(NoLink)
  BY DEF Claims, NoLink
<1>3. Break \in Cpdu /\ Break # Accepted
  BY CpduTypes, KindsDiffer
<1> QED BY <1>1, <1>2, <1>3, TellStep

LEMMA MakeLinkTrust ==
  ASSUME GInv, NEW n \in Node, NEW r \in Node, NEW type \in LinkType, MakeLink(n, r, type)
  PROVE  CallersTrust'
<1> DEFINE new == [state |-> "CALLING", type |-> type, called |-> FALSE, retry |-> 0]
           Forgotten(s) == s = primary[n] /\ links[n][s].state = "FAILED"
           l == [s \in Node |-> IF s = r THEN new ELSE IF Forgotten(s) THEN NoLink ELSE links[n][s]]
<1>0. new.state = "CALLING"
  OBVIOUS
<1> HIDE DEF new
<1>1. links' = [links EXCEPT ![n] = l] /\ n # r /\ Send(n, r, Request(type))
      /\ unheard' = [unheard EXCEPT ![r][n] = Leftover(n, r)]
  BY DEF MakeLink, new
<1>2. links'[n] = l /\ \A x, y \in Node : x # n => links'[x][y] = links[x][y]
  BY <1>1, Typed
<1>3. links'[n][r] = new /\ \A s \in Node \ {r} : links'[n][s] = links[n][s]
                              \/ (Forgotten(s) /\ links'[n][s] = NoLink)
  BY <1>2
<1> HIDE DEF l
<1>4. chan'[n][r] = Append(chan[n][r], Request(type))
      /\ \A x, y \in Node : ~(x = n /\ y = r) => chan'[x][y] = chan[x][y]
  BY <1>1, Sent
<1>5. unheard'[r][n] = Leftover(n, r) /\ \A x, y \in Node : ~(x = r /\ y = n) => unheard'[x][y] = unheard[x][y]
  BY <1>1, Typed
<1>6. Request(type) \in Cpdu /\ Request(type) # Break /\ Request(type) # Accepted
  BY CpduTypes, KindsDiffer
<1>7. ~Claims(NoLink) /\ NoLink.state = "IDLE"
  BY DEF Claims, NoLink
<1>8. ASSUME NEW x \in Node \ {n} PROVE Trust(n, x)' /\ Trust(x, n)'
  <2>1. chan[n][x] \in Seq(Cpdu) /\ chan[x][n] \in Seq(Cpdu)
    BY Typed
  <2>2. links'[x][n] = links[x][n] /\ chan'[x][n] = chan[x][n] /\ unheard'[n][x] = unheard[n][x]
    BY <1>1, <1>2, <1>4, <1>5
  <2>3. /\ unheard[x][n] = FALSE => Trusts(links[n][x], links[x][n], chan[n][x], chan[x][n])
        /\ unheard[n][x] = FALSE => Trusts(links[x][n], links[n][x], chan[x][n], chan[n][x])
    BY PairTrust DEF Trust
  <2>4. CASE x = r
    <3>1. ASSUME ~Leftover(n, r)
          PROVE  Trusts(new, links[r][n], Append(chan[n][r], Request(type)), chan[r][n])
      <4>1. \A i \in DOMAIN chan[n][r] : chan[n][r][i] # Break
        BY <3>1 DEF Leftover, Travels
      <4>2. \A i \in DOMAIN chan[r][n] : chan[r][n][i] # Accepted
        BY <3>1 DEF Leftover, Travels
      <4> QED BY <1>0, <1>6, <2>1, <2>4, <4>1, <4>2, CallStep
    <3>2. ASSUME unheard[n][r] = FALSE
          PROVE  Trusts(links[r][n], new, chan[r][n], Append(chan[n][r], Request(type)))
      <4>1. links[n][r].state \in {"CALLING", "MADE"} => new.state \in {"CALLING", "MADE"}
        BY <1>0
      <4>2. /\ chan[n][r] \in Seq(Cpdu) /\ chan[r][n] \in Seq(Cpdu)
            /\ Trusts(links[r][n], links[n][r], chan[r][n], chan[n][r])
        BY <2>1, <2>3, <2>4, <3>2
      <4> QED BY <1>6, <4>1, <4>2, FarSend
    <3>3. Trust(n, r)'
      BY <1>3, <1>4, <1>5, <2>2, <2>4, <3>1 DEF Trust
    <3>4. Trust(r, n)'
      BY <1>3, <1>4, <2>2, <2>4, <3>2 DEF Trust
    <3> QED BY <2>4, <3>3, <3>4
  <2>5. CASE x # r
    <3>1. chan'[n][x] = chan[n][x] /\ unheard'[x][n] = unheard[x][n]
      BY <1>4, <1>5, <2>5
    <3>2. CASE links'[n][x] = links[n][x]
      BY <2>2, <2>3, <3>1, <3>2 DEF Trust
    <3>3. CASE links[n][x].state = "FAILED" /\ links'[n][x] = NoLink
      <4>1. Trusts(NoLink, links[x][n], chan[n][x], chan[x][n])
        BY <1>7, PassiveStep
      <4>2. ASSUME unheard[n][x] = FALSE PROVE Trusts(links[x][n], NoLink, chan[x][n], chan[n][x])
        BY <1>6, <2>1, <2>3, <3>3, <4>2, FarStep
      <4> QED BY <2>2, <3>1, <3>3, <4>1, <4>2 DEF Trust
    <3> QED BY <1>3, <2>5, <3>2, <3>3
  <2> QED BY <2>4, <2>5
<1>9. \A x, y \in Node \ {n} : Same(x, y)
  BY <1>2, <1>4, <1>5 DEF Same
<1> QED BY <1>8, <1>9, ByActor, Typed

(* What a node does on reading h: l and k are its link before and after.   *)
StaysTrue(l, k, h, answers) ==
  \/ ~Claims(k)
  \/ k.state = l.state /\ k.called = l.called /\ h # Break
  \/ l.state = "CALLING" /\ k.state = "MADE" /\ h = Accepted /\ ~answers
StaysUp(l, k, h, heard) ==
  l.state \in {"CALLING", "MADE"} /\ heard => k.state \in {"CALLING", "MADE"} \/ h = Break

LEMMA ReadStep ==
  ASSUME GInv, NEW n \in Node, NEW r \in Node, NEW k, NEW c \in Cpdu, chan[r][n] # <<>>,
         links' = [links EXCEPT ![n][r] = k],
         Answer(n, r, c) \/ Take(n, r), c # Break,
         \A x, y \in Node : ~(x = n /\ y = r) => unheard'[x][y] = unheard[x][y],
         unheard'[n][r] = FALSE => unheard[n][r] = FALSE,
         StaysTrue(links[n][r], k, Head(chan[r][n]), ~Take(n, r)),
         StaysUp(links[n][r], k, Head(chan[r][n]), unheard'[n][r] = FALSE),
         c = Accepted => k.state \in {"CALLING", "MADE"}
  PROVE  CallersTrust'
<1>1. links'[n][r] = k /\ \A x, y \in Node : ~(x = n /\ y = r) => links'[x][y] = links[x][y]
  BY Linked, ZenonT(60)
<1>2. \A x, y \in Node : ~(x = n /\ y = r) /\ ~(x = r /\ y = n) => chan'[x][y] = chan[x][y]
  <2>1. CASE Answer(n, r, c)
    BY <2>1, Answered
  <2>2. CASE Take(n, r)
    BY <2>2, TakenIs DEF Take
  <2> QED BY <2>1, <2>2
<1>3. ASSUME n # r PROVE Trust(n, r)' /\ Trust(r, n)'
  <2>1. links'[r][n] = links[r][n] /\ unheard'[r][n] = unheard[r][n]
    BY <1>1, <1>3
  <2>2. chan[n][r] \in Seq(Cpdu) /\ chan[r][n] \in Seq(Cpdu)
    BY Typed
  <2>3. /\ unheard[r][n] = FALSE => Trusts(links[n][r], links[r][n], chan[n][r], chan[r][n])
        /\ unheard[n][r] = FALSE => Trusts(links[r][n], links[n][r], chan[r][n], chan[n][r])
    BY <1>3, PairTrust DEF Trust
  <2>4. chan'[r][n] = Tail(chan[r][n])
    BY <1>3, Answered, TakenIs DEF Take
  <2>5. /\ Answer(n, r, c) => chan'[n][r] = Append(chan[n][r], c)
        /\ Take(n, r) => chan'[n][r] = chan[n][r]
    BY <1>3, Answered, TakenIs DEF Take
  <2> DEFINE out == chan[n][r]
             in == chan[r][n]
  <2>6. PICK out2, pop : out2 = chan'[n][r] /\ pop = Tail(in)
    OBVIOUS
  <2>7. ASSUME unheard[r][n] = FALSE PROVE Trusts(k, links[r][n], out2, pop)
    <3>1. CASE ~Claims(k)
      BY <3>1, PassiveStep
    <3>2. CASE /\ k.state = links[n][r].state /\ k.called = links[n][r].called
               /\ Head(chan[r][n]) # Break
      <4>1. Trusts(links[n][r], links[r][n], out, in)
        BY <2>3, <2>7
      <4>2. Trusts(k, links[r][n], out, pop) /\ Trusts(k, links[r][n], Append(out, c), pop)
        BY <2>2, <2>6, <3>2, <4>1, NearRead
      <4> QED BY <2>5, <2>6, <4>2
    <3>3. CASE /\ links[n][r].state = "CALLING" /\ k.state = "MADE"
               /\ Head(chan[r][n]) = Accepted /\ Take(n, r)
      BY <2>2, <2>3, <2>5, <2>6, <2>7, <3>3, AcceptedStep
    <3> QED BY <3>1, <3>2, <3>3 DEF StaysTrue
  <2>8. ASSUME unheard'[n][r] = FALSE PROVE Trusts(links[r][n], k, pop, out2)
    <3>1. links[n][r].state \in {"CALLING", "MADE"} => k.state \in {"CALLING", "MADE"} \/ Head(in) = Break
      BY <2>8 DEF StaysUp
    <3>2. Trusts(links[r][n], links[n][r], in, out)
      BY <2>3, <2>8
    <3>3. Trusts(links[r][n], k, pop, out) /\ Trusts(links[r][n], k, pop, Append(out, c))
      BY <2>2, <2>6, <3>1, <3>2, FarRead
    <3> QED BY <2>5, <2>6, <3>3
  <2>9. Trust(n, r)'
    BY <1>1, <2>1, <2>4, <2>6, <2>7 DEF Trust
  <2>10. Trust(r, n)'
    BY <1>1, <2>1, <2>4, <2>6, <2>8 DEF Trust
  <2> QED BY <2>9, <2>10
<1>4. \A x, y \in Node : ~(x = n /\ y = r) /\ ~(x = r /\ y = n) => Same(x, y)
  BY <1>1, <1>2 DEF Same
<1> QED BY <1>3, <1>4, OnePeer, Typed

LEMMA AnswerTrust ==
  ASSUME GInv, NEW n \in Node, NEW r \in Node,
         RxRequestAgain(n, r) \/ RxRequestRefused(n, r) \/ RxIgnored(n, r)
  PROVE  CallersTrust'
<1>1. chan[r][n] # <<>> /\ Head(chan[r][n]).type # "BREAK" /\ UNCHANGED <<links, unheard>>
  BY DEF RxRequestAgain, RxRequestRefused, RxIgnored, Arrived
<1>2. Head(chan[r][n]) # Break
  BY <1>1, Heads
<1>0. PICK k : k = links[n][r]
  OBVIOUS
<1>3. links' = [links EXCEPT ![n][r] = k]
  BY <1>0, <1>1, Typed
<1>4. StaysTrue(links[n][r], k, Head(chan[r][n]), ~Take(n, r))
  BY <1>0, <1>2 DEF StaysTrue
<1>5. StaysUp(links[n][r], k, Head(chan[r][n]), unheard'[n][r] = FALSE)
  BY <1>0 DEF StaysUp
<1>6. \A x, y \in Node : ~(x = n /\ y = r) => unheard'[x][y] = unheard[x][y]
  BY <1>1
<1>7. unheard'[n][r] = FALSE => unheard[n][r] = FALSE
  BY <1>1
<1>8. PICK c \in Cpdu : /\ Answer(n, r, c) \/ Take(n, r)
                        /\ c # Break
                        /\ c = Accepted => k.state \in {"CALLING", "MADE"}
  <2>1. CASE RxRequestAgain(n, r)
    <3>1. Answer(n, r, Accepted) /\ links[n][r].state = "MADE"
      BY <2>1 DEF RxRequestAgain, KnowsCall, State
    <3> QED BY <1>0, <3>1, CpduTypes, KindsDiffer
  <2>2. CASE RxRequestRefused(n, r) \/ RxIgnored(n, r)
    <3>1. Answer(n, r, Rejected) \/ Take(n, r)
      BY <2>2 DEF RxRequestRefused, RxIgnored
    <3> QED BY <3>1, CpduTypes, KindsDiffer
  <2> QED BY <2>1, <2>2
<1>9. chan[r][n] # <<>>
  BY <1>1
<1>10. c \in Cpdu /\ (Answer(n, r, c) \/ Take(n, r)) /\ c # Break /\ (c = Accepted => k.state \in {"CALLING", "MADE"})
  BY <1>8
<1> QED BY <1>3, <1>4, <1>5, <1>6, <1>7, <1>9, <1>10, ReadStep

LEMMA RxRequestAdmittedTrust ==
  ASSUME GInv, NEW n \in Node, NEW r \in Node, RxRequestAdmitted(n, r)
  PROVE  CallersTrust'
<1> DEFINE k == [state |-> "MADE", type |-> Head(chan[r][n]).link, called |-> TRUE, retry |-> 0]
<1>1. chan[r][n] # <<>> /\ links' = [links EXCEPT ![n][r] = k] /\ UNCHANGED unheard
      /\ Answer(n, r, Accepted)
  BY DEF RxRequestAdmitted, Arrived
<1>2. k.state = "MADE" /\ ~Claims(k)
  BY DEF Claims
<1> HIDE DEF k
<1>3. StaysTrue(links[n][r], k, Head(chan[r][n]), ~Take(n, r))
  BY <1>2 DEF StaysTrue
<1>4. StaysUp(links[n][r], k, Head(chan[r][n]), unheard'[n][r] = FALSE)
  BY <1>2 DEF StaysUp
<1>5. /\ \A x, y \in Node : ~(x = n /\ y = r) => unheard'[x][y] = unheard[x][y]
      /\ unheard'[n][r] = FALSE => unheard[n][r] = FALSE
  BY <1>1
<1>6. Accepted \in Cpdu /\ Accepted # Break
  BY CpduTypes, KindsDiffer
<1> QED BY <1>1, <1>2, <1>3, <1>4, <1>5, <1>6, ReadStep

LEMMA RxRejectedTrust ==
  ASSUME GInv, NEW n \in Node, NEW r \in Node, RxRejected(n, r)
  PROVE  CallersTrust'
<1> DEFINE k == [links[n][r] EXCEPT !.state = "FAILED"]
<1>1. chan[r][n] # <<>> /\ links' = [links EXCEPT ![n][r] = k] /\ Take(n, r)
      /\ unheard' = [unheard EXCEPT ![n][r] = TRUE]
  <2>1. links' = [links EXCEPT ![n][r].state = "FAILED"]
    BY DEF RxRejected
  <2>2. links' = [links EXCEPT ![n][r] = k]
    BY <2>1, Typed
  <2> QED BY <2>2 DEF RxRejected, Arrived
<1>2. links[n][r] \in Link
  BY Typed, NoLinkIsNotALink DEF RxRejected, State
<1>3. ~Claims(k)
  BY <1>2 DEF Claims, Link
<1> HIDE DEF k
<1>4. unheard'[n][r] = TRUE
      /\ \A x, y \in Node : ~(x = n /\ y = r) => unheard'[x][y] = unheard[x][y]
  BY <1>1, Typed
<1>5. StaysTrue(links[n][r], k, Head(chan[r][n]), ~Take(n, r))
  BY <1>3 DEF StaysTrue
<1>6. StaysUp(links[n][r], k, Head(chan[r][n]), unheard'[n][r] = FALSE)
  BY <1>4 DEF StaysUp
<1>7. BreakConfirm \in Cpdu /\ BreakConfirm # Accepted /\ BreakConfirm # Break
  BY CpduTypes, KindsDiffer
<1> QED BY <1>1, <1>4, <1>5, <1>6, <1>7, ReadStep

LEMMA RxBreakTrust ==
  ASSUME GInv, NEW n \in Node, NEW r \in Node, RxBreak(n, r) \/ RxBreakConfirm(n, r)
  PROVE  CallersTrust'
<1>1. chan[r][n] # <<>> /\ links' = [links EXCEPT ![n][r] = NoLink] /\ UNCHANGED unheard
      /\ (Answer(n, r, BreakConfirm) \/ Take(n, r))
  BY DEF RxBreak, RxBreakConfirm, Arrived, Remove
<1>2. links[n][r].state \in {"CALLING", "MADE"} => Head(chan[r][n]) = Break
  BY <1>1, Heads DEF RxBreak, RxBreakConfirm, State, Arrived
<1>3. StaysTrue(links[n][r], NoLink, Head(chan[r][n]), ~Take(n, r))
  BY DEF StaysTrue, Claims, NoLink
<1>4. StaysUp(links[n][r], NoLink, Head(chan[r][n]), unheard'[n][r] = FALSE)
  BY <1>2 DEF StaysUp
<1>5. /\ \A x, y \in Node : ~(x = n /\ y = r) => unheard'[x][y] = unheard[x][y]
      /\ unheard'[n][r] = FALSE => unheard[n][r] = FALSE
  BY <1>1
<1>6. BreakConfirm \in Cpdu /\ BreakConfirm # Accepted /\ BreakConfirm # Break
  BY CpduTypes, KindsDiffer
<1> QED BY <1>1, <1>3, <1>4, <1>5, <1>6, ReadStep

(* A C_PDU of r lost: the caller that does not hear a break is excused.    *)
LEMMA LoseTrust ==
  ASSUME GInv, NEW n \in Node, NEW r \in Node, Lose(n, r)
  PROVE  CallersTrust'
<1>1. chan[r][n] # <<>> /\ UNCHANGED links
      /\ unheard' = [unheard EXCEPT ![r][n] = unheard[r][n] \/ Head(chan[r][n]) = Break]
      /\ chan' = Taken(n, r)
  BY DEF Lose, Take
<1>2. /\ chan'[r][n] = Tail(chan[r][n])
      /\ \A x, y \in Node : ~(x = r /\ y = n) => chan'[x][y] = chan[x][y]
  BY <1>1, TakenIs
<1>3. /\ unheard'[r][n] = FALSE => unheard[r][n] = FALSE /\ Head(chan[r][n]) # Break
      /\ \A x, y \in Node : ~(x = r /\ y = n) => unheard'[x][y] = unheard[x][y]
  BY <1>1, Typed
<1>4. ASSUME n # r PROVE Trust(n, r)' /\ Trust(r, n)'
  <2>1. chan[n][r] \in Seq(Cpdu) /\ chan[r][n] \in Seq(Cpdu)
    BY Typed
  <2>2. chan'[n][r] = chan[n][r] /\ unheard'[n][r] = unheard[n][r]
    BY <1>2, <1>3, <1>4
  <2>3. PICK c \in Cpdu : c # Break /\ c # Accepted
    BY CpduTypes, KindsDiffer
  <2>4. ASSUME unheard'[r][n] = FALSE
        PROVE  Trusts(links[n][r], links[r][n], chan[n][r], Tail(chan[r][n]))
    <3>1. Trusts(links[n][r], links[r][n], chan[n][r], chan[r][n]) /\ Head(chan[r][n]) # Break
      BY <1>3, <1>4, <2>4, PairTrust DEF Trust
    <3> QED BY <1>1, <2>1, <2>3, <3>1, NearRead
  <2>5. ASSUME unheard[n][r] = FALSE
        PROVE  Trusts(links[r][n], links[n][r], Tail(chan[r][n]), chan[n][r])
    <3>1. Trusts(links[r][n], links[n][r], chan[r][n], chan[n][r])
      BY <1>4, <2>5, PairTrust DEF Trust
    <3> QED BY <1>1, <2>1, <2>3, <3>1, FarRead
  <2>6. Trust(n, r)'
    BY <1>1, <1>2, <2>2, <2>4 DEF Trust
  <2>7. Trust(r, n)'
    BY <1>1, <1>2, <2>2, <2>5 DEF Trust
  <2> QED BY <2>6, <2>7
<1>5. \A x, y \in Node : ~(x = n /\ y = r) /\ ~(x = r /\ y = n) => Same(x, y)
  BY <1>1, <1>2, <1>3 DEF Same
<1> QED BY <1>4, <1>5, OnePeer, Typed

LEMMA CallFailsTrust ==
  ASSUME GInv, NEW n \in Node, NEW r \in Node, CallFails(n, r)
  PROVE  CallersTrust'
<1> DEFINE k == [links[n][r] EXCEPT !.state = "FAILED"]
<1>1. links' = [links EXCEPT ![n][r] = k] /\ UNCHANGED chan
      /\ unheard' = [unheard EXCEPT ![n][r] = TRUE]
  BY Typed DEF CallFails
<1>2. links[n][r] \in Link
  BY Typed, NoLinkIsNotALink DEF CallFails, State
<1>3. ~Claims(k)
  BY <1>2 DEF Claims, Link
<1> HIDE DEF k
<1>4. /\ unheard'[n][r] = TRUE
      /\ \A x, y \in Node : ~(x = n /\ y = r) => unheard'[x][y] = unheard[x][y]
  BY <1>1, Typed
<1>5. links'[n][r] = k /\ \A x, y \in Node : ~(x = n /\ y = r) => links'[x][y] = links[x][y]
  BY <1>1, Linked, ZenonT(60)
<1>6. Trust(n, r)'
  <2>1. Trusts(k, links'[r][n], chan[n][r], chan[r][n])
    BY <1>3, PassiveStep
  <2> QED BY <1>1, <1>5, <2>1 DEF Trust
<1>7. Trust(r, n)'
  BY <1>4 DEF Trust
<1>8. \A x, y \in Node : ~(x = n /\ y = r) /\ ~(x = r /\ y = n) => Same(x, y)
  BY <1>1, <1>4, <1>5 DEF Same
<1> QED BY <1>6, <1>7, <1>8, OnePeer, Typed

LEMMA RxAcceptedTrust ==
  ASSUME GInv, NEW n \in Node, NEW r \in Node, RxAccepted(n, r)
  PROVE  CallersTrust'
<1> DEFINE up == [links[n][r] EXCEPT !.state = "MADE"]
           Y == Yielding(n, r)
           taken == Taken(n, r)
<1>1. chan[r][n] # <<>> /\ Head(chan[r][n]) = Accepted /\ links[n][r].state = "CALLING"
      /\ UNCHANGED unheard
  BY Heads DEF RxAccepted, Arrived, State
<1>2. links[n][r] \in Link
  BY <1>1, Typed, NoLinkIsNotALink
<1>3. up.state = "MADE"
  BY <1>2 DEF Link
<1>4. /\ links'[n][r] = up
      /\ \A s \in Node \ {r} : links'[n][s] = IF s \in Y THEN Broken(links[n][s]) ELSE links[n][s]
      /\ \A x, y \in Node : x # n => links'[x][y] = links[x][y]
  BY Typed DEF RxAccepted
<1>5. chan' = [taken EXCEPT ![n] = [s \in Node |->
                 IF s \in Y THEN Append(taken[n][s], Break) ELSE taken[n][s]]]
  BY DEF RxAccepted
<1>6. DOMAIN taken = Node /\ taken[r][n] = Tail(chan[r][n])
      /\ \A x, y \in Node : ~(x = r /\ y = n) => taken[x][y] = chan[x][y]
  BY TakenIs
<1>7. r \notin Y
  BY <1>1 DEF Yielding, Made, State
<1> HIDE DEF up, taken
<1>8. /\ n # r => chan'[r][n] = Tail(chan[r][n])
      /\ \A s \in Node \ {n} : chan'[n][s] = IF s \in Y THEN Append(chan[n][s], Break) ELSE chan[n][s]
      /\ \A x, y \in Node : x # n /\ ~(x = r /\ y = n) => chan'[x][y] = chan[x][y]
  BY <1>5, <1>6
<1>9. PICK c \in Cpdu : c # Break /\ c # Accepted
  BY CpduTypes, KindsDiffer
<1> HIDE DEF Y
<1>10. ASSUME NEW x \in Node \ {n} PROVE Trust(n, x)' /\ Trust(x, n)'
  <2>1. chan[n][x] \in Seq(Cpdu) /\ chan[x][n] \in Seq(Cpdu)
    BY Typed
  <2>2. /\ unheard[x][n] = FALSE => Trusts(links[n][x], links[x][n], chan[n][x], chan[x][n])
        /\ unheard[n][x] = FALSE => Trusts(links[x][n], links[n][x], chan[x][n], chan[n][x])
    BY PairTrust DEF Trust
  <2>3. links'[x][n] = links[x][n]
    BY <1>4
  <2>4. CASE x = r
    <3>1. chan'[r][n] = Tail(chan[r][n]) /\ chan'[n][r] = chan[n][r]
      BY <1>7, <1>8, <2>4
    <3>2. ASSUME unheard[r][n] = FALSE
          PROVE  Trusts(up, links[r][n], chan[n][r], Tail(chan[r][n]))
      BY <1>1, <1>3, <2>1, <2>2, <2>4, <3>2, AcceptedStep
    <3>3. ASSUME unheard[n][r] = FALSE
          PROVE  Trusts(links[r][n], up, Tail(chan[r][n]), chan[n][r])
      <4>1. Trusts(links[r][n], links[n][r], chan[r][n], chan[n][r])
        BY <2>2, <2>4, <3>3
      <4>2. links[n][r].state \in {"CALLING", "MADE"} =>
              up.state \in {"CALLING", "MADE"} \/ Head(chan[r][n]) = Break
        BY <1>3
      <4>3. chan[n][r] \in Seq(Cpdu) /\ chan[r][n] \in Seq(Cpdu)
        BY <2>1, <2>4
      <4> QED BY <1>1, <1>9, <4>1, <4>2, <4>3, FarRead
    <3>4. Trust(n, r)'
      BY <1>1, <1>4, <2>3, <2>4, <3>1, <3>2 DEF Trust
    <3>5. Trust(r, n)'
      BY <1>1, <1>4, <2>3, <2>4, <3>1, <3>3 DEF Trust
    <3> QED BY <2>4, <3>4, <3>5
  <2>5. CASE x # r /\ x \in Y
    <3>1. links'[n][x] = Broken(links[n][x]) /\ chan'[n][x] = Append(chan[n][x], Break)
          /\ chan'[x][n] = chan[x][n]
      BY <1>4, <1>8, <2>5
    <3>2. ~Claims(Broken(links[n][x]))
      BY DEF Claims, Broken
    <3>3. Trusts(Broken(links[n][x]), links[x][n], Append(chan[n][x], Break), chan[x][n])
      BY <3>2, PassiveStep
    <3>4. ASSUME unheard[n][x] = FALSE
          PROVE  Trusts(links[x][n], Broken(links[n][x]), chan[x][n], Append(chan[n][x], Break))
      <4>1. Trusts(links[x][n], links[n][x], chan[x][n], chan[n][x])
        BY <2>2, <3>4
      <4>2. Break \in Cpdu /\ Break # Accepted
        BY CpduTypes, KindsDiffer
      <4> QED BY <2>1, <4>1, <4>2, FarSend
    <3>5. Trust(n, x)'
      BY <2>3, <3>1, <3>3 DEF Trust
    <3>6. Trust(x, n)'
      BY <1>1, <2>3, <3>1, <3>4 DEF Trust
    <3> QED BY <3>5, <3>6
  <2>6. CASE x # r /\ x \notin Y
    <3>1. links'[n][x] = links[n][x] /\ chan'[n][x] = chan[n][x] /\ chan'[x][n] = chan[x][n]
      BY <1>4, <1>8, <2>6
    <3> QED BY <1>1, <2>2, <2>3, <3>1 DEF Trust
  <2> QED BY <2>4, <2>5, <2>6
<1>11. \A x, y \in Node \ {n} : Same(x, y)
  BY <1>1, <1>4, <1>8 DEF Same
<1> QED BY <1>10, <1>11, ByActor, Typed
-----------------------------------------------------------------------------
LEMMA InitTrusts == ASSUME Init PROVE GInv
<1>1. \A n, r \in Node : ~Claims(links[n][r])
  BY DEF Init, Claims, NoLink
<1>2. CallersTrust
  <2> SUFFICES ASSUME NEW n \in Node, NEW r \in Node PROVE Trust(n, r)
    BY DEF CallersTrust
  <2>1. Trusts(links[n][r], links[r][n], chan[n][r], chan[r][n])
    BY <1>1, PassiveStep
  <2> QED BY <2>1 DEF Trust
<1> QED BY <1>2, InitCorrect DEF GInv

LEMMA NextTrusts == ASSUME GInv, [Next]_vars PROVE GInv'
<1>0. IInv'
  BY NextCorrect DEF GInv
<1>1. CASE Next
  <2> SUFFICES ASSUME NEW n \in Node, NEW r \in Node,
                      \/ \E type \in LinkType : MakeLink(n, r, type)
                      \/ BreakLink(n, r) \/ Tick(n, r) \/ IdleTimeout(n, r)
                      \/ ProcessCpdu(n, r) \/ Lose(n, r)
               PROVE  CallersTrust'
    BY <1>0, <1>1 DEF Next, GInv
  <2>1. CASE ProcessCpdu(n, r)
    BY <2>1, AnswerTrust, RxRequestAdmittedTrust, RxAcceptedTrust, RxRejectedTrust, RxBreakTrust
       DEF ProcessCpdu
  <2>2. CASE Tick(n, r)
    BY <2>2, TimerTrust, CallFailsTrust, BreakEndsTrust DEF Tick
  <2> QED BY <2>1, <2>2, MakeLinkTrust, BreakLinkTrust, IdleTimeoutTrust, LoseTrust
<1>2. CASE UNCHANGED vars
  BY <1>0, <1>2 DEF vars, GInv, CallersTrust, Trust
<1> QED BY <1>1, <1>2

(* What the calls, answers and breaks travelling between two nodes say     *)
(* about a caller's link, in every state (process_cpdu, tick, make_link).  *)
THEOREM CallersTrustTheirLinks == Spec => []GInv
  BY InitTrusts, NextTrusts, PTL DEF Spec

(* A caller that has heard everything is right to believe in its link: the *)
(* exceptions are a lost break, a call of its peer that failed and a call  *)
(* begun before all of an earlier one had arrived (process_cpdu, tick).    *)
THEOREM CallersAreRight == Spec => []GhostsAreUnheard
<1>1. GInv => GhostsAreUnheard
  <2> SUFFICES ASSUME GInv, NEW n \in Node, NEW r \in Node,
                      State(n, r) = "MADE", ~links[n][r].called,
                      chan[r][n] = <<>>, unheard[r][n] = FALSE
               PROVE  State(r, n) \in {"CALLING", "MADE"}
    BY Typed DEF GhostsAreUnheard
  <2>1. CASE n = r
    BY <2>1
  <2>2. CASE n # r
    <3>1. Trusts(links[n][r], links[r][n], chan[n][r], chan[r][n])
      BY <2>2, PairTrust DEF Trust
    <3>2. DOMAIN chan[r][n] = {}
      OBVIOUS
    <3>3. links[r][n].state \in {"CALLING", "MADE"}
      BY <3>1, <3>2 DEF Trusts, Backed, State
    <3> QED BY <3>3 DEF State
  <2> QED BY <2>1, <2>2
<1> QED BY <1>1, CallersTrustTheirLinks, PTL
=============================================================================
