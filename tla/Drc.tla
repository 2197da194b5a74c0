--------------------------------- MODULE Drc ---------------------------------
(***************************************************************************)
(* The negotiation of a data rate between two nodes (drc.py, DRCProtocol). *)
(* Its messages are the orderwire fields of Management D_PDUs, which       *)
(* arrive in order and once, or are given up.  The program holds the       *)
(* protocol but does not call it yet; the environment here is the one its  *)
(* interface describes.                                                    *)
(***************************************************************************)
EXTENDS Eow, Sequences

CONSTANTS Node, None,
          Rates,   \* data rate codes the clients ask for
          MaxCalls \* bound: calls of initiate

VARIABLES state, role, rate,
          started, \* _start_time_ms > 0
          net,     \* net[n]: orderwire fields under way to n
          outcome, \* history: what n's callbacks were last told
          calls

vars == <<state, role, rate, started, net, outcome, calls>>

Other(n) == CHOOSE m \in Node : m # n

Init ==
  /\ state = [n \in Node |-> "IDLE"] /\ role = [n \in Node |-> None]
  /\ rate = [n \in Node |-> 0] /\ started = [n \in Node |-> FALSE]
  /\ net = [n \in Node |-> <<>>] /\ outcome = [n \in Node |-> None]
  /\ calls = 0
-----------------------------------------------------------------------------
Becomes(n, s, r) == state' = [state EXCEPT ![n] = s] /\ role' = [role EXCEPT ![n] = r]
Ends(n, result) == Becomes(n, "IDLE", None) /\ outcome' = [outcome EXCEPT ![n] = result]

(* initiate: whatever is under way, and the time of the start is not taken.*)
Initiate(n, r) ==
  /\ calls < MaxCalls /\ calls' = calls + 1
  /\ Becomes(n, "DRC_INITIATE", "MASTER")
  /\ rate' = [rate EXCEPT ![n] = r]
  /\ net' = [net EXCEPT ![Other(n)] = Append(@, BuildDrc(r, InterleaveMode.SHORT))]
  /\ outcome' = [outcome EXCEPT ![n] = None]
  /\ UNCHANGED started

Lose(n) ==
  /\ net[n] # <<>>
  /\ net' = [net EXCEPT ![n] = Tail(@)]
  /\ UNCHANGED <<state, role, rate, started, outcome, calls>>

(* on_rx_eow.                                                              *)
Receives(n) == net[n] # <<>> /\ UNCHANGED calls
Taken(n) == [net EXCEPT ![n] = Tail(@)]
Answer(n, eow) == net' = [Taken(n) EXCEPT ![Other(n)] = Append(@, eow)]
Is(n, type) == ParseEow(Head(net[n])).type = EowType[type]
Says(n, response) ==
  Is(n, "DRC_RESPONSE") /\ ParseEow(Head(net[n])).response = DrcResponse[response]

\* Mutant of Starts: the slave forgets the time as the master does.
StartsLate(n) == UNCHANGED started
Starts(n) == started' = [started EXCEPT ![n] = TRUE]
RxRequest(n) ==
  /\ Receives(n) /\ Is(n, "DRC_REQUEST") /\ state[n] = "IDLE"
  /\ Becomes(n, "DRC_WAIT_ACK", "SLAVE")
  /\ rate' = [rate EXCEPT ![n] = ParseEow(Head(net[n])).rate]
  /\ Starts(n)
  /\ outcome' = [outcome EXCEPT ![n] = None]
  /\ Answer(n, BuildDrcResponse(DrcResponse.ACCEPT, 0))
RxRequestBusy(n) ==
  /\ Receives(n) /\ Is(n, "DRC_REQUEST") /\ state[n] # "IDLE"
  /\ Answer(n, BuildDrcResponse(DrcResponse.REFUSE, Busy))
  /\ UNCHANGED <<state, role, rate, started, outcome>>

Initiated(n) == role[n] = "MASTER" /\ state[n] = "DRC_INITIATE"
RxAccept(n) ==
  /\ Receives(n) /\ Says(n, "ACCEPT") /\ Initiated(n)
  /\ Becomes(n, "DRC_CONFIRM", "MASTER")
  /\ Answer(n, BuildDrcResponse(DrcResponse.CONFIRM, 0))
  /\ UNCHANGED <<rate, started, outcome>>
RxRefuse(n) ==
  /\ Receives(n) /\ (Says(n, "REFUSE") \/ Says(n, "CANCEL")) /\ Initiated(n)
  /\ Ends(n, "failed")
  /\ net' = Taken(n)
  /\ UNCHANGED <<rate, started>>
RxConfirm(n) ==
  /\ Receives(n) /\ Says(n, "CONFIRM")
  /\ Initiated(n) \/ (role[n] = "SLAVE" /\ state[n] = "DRC_WAIT_ACK")
  /\ Ends(n, "complete")
  /\ net' = Taken(n)
  /\ UNCHANGED <<rate, started>>
RxIgnored(n) ==
  /\ Receives(n) /\ Is(n, "DRC_RESPONSE")
  /\ ~Initiated(n) /\ ~(Says(n, "CONFIRM") /\ role[n] = "SLAVE" /\ state[n] = "DRC_WAIT_ACK")
  /\ net' = Taken(n)
  /\ UNCHANGED <<state, role, rate, started, outcome>>

(* check_timeout: the time is that of the last exchange the node was the   *)
(* slave of.                                                               *)
Timeout(n) ==
  /\ state[n] # "IDLE" /\ started[n]
  /\ Ends(n, "timeout")
  /\ UNCHANGED <<rate, started, net, calls>>

Step(n) ==
  \/ RxRequest(n) \/ RxRequestBusy(n) \/ RxAccept(n) \/ RxRefuse(n) \/ RxConfirm(n)
  \/ RxIgnored(n)

Next == \E n \in Node : Lose(n) \/ Step(n) \/ Timeout(n) \/ \E r \in Rates : Initiate(n, r)

Spec == Init /\ [][Next]_vars /\ \A n \in Node : WF_vars(Timeout(n)) /\ WF_vars(Step(n))
-----------------------------------------------------------------------------
(* A node that was asked for a change of rate is free again in the end and *)
(* its callbacks have been told how it ended, whatever is lost and         *)
(* whichever of the two asks again meanwhile (check_timeout, _complete).   *)
(* Nothing of the kind can be said of the node that asks: it does not take *)
(* the time of its start.                                                  *)
SlaveIsFreed ==
  \A n \in Node : role[n] = "SLAVE" ~> (state[n] = "IDLE" /\ outcome[n] # None)
=============================================================================
