----------------------------- MODULE Management ------------------------------
(***************************************************************************)
(* Management D_PDUs between two nodes (management.py, ManagementEngine):  *)
(* stop-and-wait by the 8-bit number of the message, each D_PDU sent       *)
(* several times at low data rates.  Node a sends, and may be restarted    *)
(* (nothing is stored); node b answers (stanag_node.py, the MANAGEMENT     *)
(* branch of _dispatch_rx_frame).                                          *)
(***************************************************************************)
EXTENDS Integers, Sequences, SequencesExt

CONSTANTS IdMod,     \* numbers of messages (256 in the code)
          MaxRetries,\* max_retries
          Copies,    \* repetition_count_for_rate: 1 to 10
          MaxMsg,    \* bound: messages sent
          MaxAir,    \* bound: D_PDUs under way in one direction
          MaxBoots   \* bound: starts of node a

VARIABLES txQueue, nextId, pending,  \* a: _tx_queue, _next_frame_id, _pending
          rxId,                      \* b: _rx_management_frame_id, -1 for None
          toB, toA,                  \* D_PDUs and acknowledgements under way
          boots, count,              \* bounds: starts of a, messages so far
          delivered,                 \* history: messages b's callback was given
          acked                      \* history: messages a saw acknowledged

vars == <<txQueue, nextId, pending, rxId, toB, toA, boots, count, delivered, acked>>

Ids == 0 .. IdMod - 1
\* A message is told from the others by the history only: boot and count.
Message == [id : Ids, boot : 1 .. MaxBoots, n : 1 .. MaxMsg]
NoMessage == [id |-> -1]

Init ==
  /\ txQueue = <<>> /\ nextId = 0 /\ pending = [msg |-> NoMessage, retx |-> 0]
  /\ rxId = -1
  /\ toB = <<>> /\ toA = <<>>
  /\ boots = 1 /\ count = 0
  /\ delivered = <<>> /\ acked = {}

IsBusy == pending.msg # NoMessage
-----------------------------------------------------------------------------
Send ==
  /\ count < MaxMsg /\ count' = count + 1
  /\ txQueue' = Append(txQueue, [id |-> nextId, boot |-> boots, n |-> count'])
  /\ nextId' = (nextId + 1) % IdMod
  /\ UNCHANGED <<pending, rxId, toB, toA, boots, delivered, acked>>

Transmits(msg) ==
  /\ Len(toB) + Copies <= MaxAir
  /\ toB' = toB \o [k \in 1 .. Copies |-> msg]

(* process_tx: the next message, a repetition, or giving the message up.   *)
TxNext ==
  /\ ~IsBusy /\ txQueue # <<>>
  /\ pending' = [msg |-> Head(txQueue), retx |-> 0]
  /\ txQueue' = Tail(txQueue)
  /\ Transmits(Head(txQueue))
  /\ UNCHANGED <<nextId, rxId, toA, boots, count, delivered, acked>>
TxAgain ==
  /\ IsBusy /\ pending.retx < MaxRetries
  /\ pending' = [pending EXCEPT !.retx = @ + 1]
  /\ Transmits(pending.msg)
  /\ UNCHANGED <<txQueue, nextId, rxId, toA, boots, count, delivered, acked>>
TxGiveUp ==
  /\ IsBusy /\ pending.retx = MaxRetries
  /\ pending' = [msg |-> NoMessage, retx |-> 0]
  /\ UNCHANGED <<txQueue, nextId, rxId, toB, toA, boots, count, delivered, acked>>

(* process_rx at b: a number that was the last one is acknowledged only.   *)
Duplicate(msg) == rxId = msg.id
RxMessage ==
  /\ toB # <<>> /\ Len(toA) < MaxAir
  /\ LET msg == Head(toB)
     IN  /\ rxId' = msg.id
         /\ delivered' = IF Duplicate(msg) THEN delivered ELSE Append(delivered, msg)
         /\ toA' = Append(toA, msg.id)
  /\ toB' = Tail(toB)
  /\ UNCHANGED <<txQueue, nextId, pending, boots, count, acked>>

\* Mutant of Answers: the number of the acknowledgement is not looked at.
AnswersAny(id) == IsBusy
Answers(id) == IsBusy /\ pending.msg.id = id
(* process_rx at a: an acknowledgement.                                    *)
RxAck ==
  /\ toA # <<>>
  /\ toA' = Tail(toA)
  /\ IF Answers(Head(toA))
     THEN acked' = acked \cup {pending.msg} /\ pending' = [msg |-> NoMessage, retx |-> 0]
     ELSE UNCHANGED <<acked, pending>>
  /\ UNCHANGED <<txQueue, nextId, rxId, toB, boots, count, delivered>>

Lose ==
  /\ \/ toB # <<>> /\ toB' = Tail(toB) /\ UNCHANGED toA
     \/ toA # <<>> /\ toA' = Tail(toA) /\ UNCHANGED toB
  /\ UNCHANGED <<txQueue, nextId, pending, rxId, boots, count, delivered, acked>>

(* Node a is started again: a new engine, with the numbers from 0.         *)
Restart ==
  /\ boots < MaxBoots /\ boots' = boots + 1
  /\ txQueue' = <<>> /\ nextId' = 0 /\ pending' = [msg |-> NoMessage, retx |-> 0]
  /\ UNCHANGED <<rxId, toB, toA, count, delivered, acked>>

Next == Send \/ TxNext \/ TxAgain \/ TxGiveUp \/ RxMessage \/ RxAck \/ Lose \/ Restart

Spec == Init /\ [][Next]_vars
-----------------------------------------------------------------------------
(* A message is delivered at most once, and one that was acknowledged has  *)
(* been delivered, unless the sender has been started again: through lost, *)
(* repeated and late D_PDUs and messages given up (process_tx, process_rx).*)
(* A sender started again numbers its messages from 0, so that they may be *)
(* taken for the last one of the time before; and so may a message after   *)
(* IdMod - 1 others were given up in a row, which the bounds leave out.    *)
ManagedOnce ==
  /\ \A i, j \in DOMAIN delivered : delivered[i] = delivered[j] => i = j
  /\ \A msg \in acked : msg.boot = 1 => msg \in Range(delivered)
=============================================================================
