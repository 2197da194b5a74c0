------------------------------- MODULE NonArq --------------------------------
(***************************************************************************)
(* C_PDUs sent without acknowledgement (non_arq.py, NonArqEngine): one     *)
(* engine sends each C_PDU as a burst of D_PDUs, another puts them         *)
(* together again by their source and the 12-bit number of the C_PDU.      *)
(* D_PDUs are lost or damaged on the air; a C_PDU that stays incomplete    *)
(* for its reception window is given up.                                   *)
(***************************************************************************)
EXTENDS Integers, Sequences, FiniteSets, SequencesExt

CONSTANTS None,
          Types,       \* "NON_ARQ" (type 7), "EXPEDITED_NON_ARQ" (type 8)
          IdMod,       \* numbers of C_PDUs (4096 in the code)
          MaxSegments, \* bound: D_PDUs of a C_PDU
          MaxCpdu,     \* bound: C_PDUs
          MaxDamage,   \* bound: D_PDUs damaged
          Mode         \* delivery_mode: "ERROR_FREE" or "DELIVER_W_ERRORS"

VARIABLES queues,    \* _tx_queue_expedited, _tx_queue_normal
          nextId,    \* _next_cpdu_id_type7, _next_cpdu_id_type8
          air,       \* D_PDUs under way
          asm,       \* _rx_assemblies of one source
          delivered, \* history: what the delivery handler was given
          count, damages,
          met        \* history: C_PDUs that had a number at one time, the later
                     \* given it while something was left of the earlier

vars == <<queues, nextId, air, asm, delivered, count, damages, met>>

Ids == 0 .. IdMod - 1
\* n tells a C_PDU from all others.
Cpdu == [n : 1 .. MaxCpdu, type : Types, id : Ids, size : 1 .. MaxSegments]
\* One unit of data: the C_PDU it is of and how large that is, the place it
\* was sent for, and whether it came through unharmed (data_crc_ok).
Unit == [n : 1 .. MaxCpdu, size : 1 .. MaxSegments, pos : 0 .. MaxSegments - 1, ok : BOOLEAN]
Dpdu == [id : Ids, type : Types, unit : Unit]
Assembly == [type : Types, size : 1 .. MaxSegments,
             got : [0 .. MaxSegments - 1 -> Unit \cup {None}]]

Init ==
  /\ queues = [t \in Types |-> <<>>] /\ nextId = [t \in Types |-> 0]
  /\ air = <<>> /\ asm = [i \in Ids |-> None]
  /\ delivered = {}
  /\ count = 0 /\ damages = 0 /\ met = {}
-----------------------------------------------------------------------------
NextId(id) == (id + 1) % IdMod

\* What was received of the C_PDU a number is of.
Got(a) == {a.got[p] : p \in 0 .. a.size - 1} \ {None}
\* The C_PDUs with a number of which something is left: queued, of either
\* type, on the air, or received in part.
LeftOf(id) ==
  {c.n : c \in {c \in UNION {ToSet(queues[t]) : t \in Types} : c.id = id}}
    \cup {d.unit.n : d \in {d \in ToSet(air) : d.id = id}}
    \cup (IF asm[id] = None THEN {} ELSE {u.n : u \in Got(asm[id])})

(* queue_cpdu: each type counts its own numbers, whatever is left of the   *)
(* C_PDU that had the number before.                                       *)
QueueCpdu(type, size) ==
  /\ count < MaxCpdu /\ count' = count + 1
  /\ queues' = [queues EXCEPT ![type] =
                  Append(@, [n |-> count', type |-> type, id |-> nextId[type], size |-> size])]
  /\ nextId' = [nextId EXCEPT ![type] = NextId(@)]
  /\ met' = IF LeftOf(nextId[type]) = {} THEN met
            ELSE met \cup LeftOf(nextId[type]) \cup {count'}
  /\ UNCHANGED <<air, asm, delivered, damages>>

(* process_tx: one C_PDU in one burst, the expedited ones first; when the  *)
(* other node is known to transmit, later.                                 *)
Burst(c) ==
  [k \in 1 .. c.size |-> [id |-> c.id, type |-> c.type,
                          unit |-> [n |-> c.n, size |-> c.size, pos |-> k - 1, ok |-> TRUE]]]
Waits(type) == queues[type] # <<>>
ProcessTx(type) ==
  /\ Waits(type)
  /\ type = "NON_ARQ" /\ "EXPEDITED_NON_ARQ" \in Types => ~Waits("EXPEDITED_NON_ARQ")
  /\ air' = air \o Burst(Head(queues[type]))
  /\ queues' = [queues EXCEPT ![type] = Tail(@)]
  /\ UNCHANGED <<nextId, asm, delivered, count, damages, met>>

Lose ==
  /\ air # <<>> /\ air' = Tail(air)
  /\ UNCHANGED <<queues, nextId, asm, delivered, count, damages, met>>
Damage ==
  /\ air # <<>> /\ Head(air).unit.ok
  /\ damages < MaxDamage /\ damages' = damages + 1
  /\ air' = <<[Head(air) EXCEPT !.unit.ok = FALSE]>> \o Tail(air)
  /\ UNCHANGED <<queues, nextId, asm, delivered, count, met>>

\* The entry for a number: the type and the size are those of the first
\* D_PDU that came for it.
Entry(d) ==
  IF asm[d.id] # None THEN asm[d.id]
  ELSE [type |-> d.type, size |-> d.unit.size, got |-> [p \in 0 .. MaxSegments - 1 |-> None]]
Filled(a, unit) ==
  IF unit.pos < a.size THEN [a EXCEPT !.got = [@ EXCEPT ![unit.pos] = unit]] ELSE a
\* Mutant of IsComplete: the end of the C_PDU is taken for all of it.
IsCompleteAtEnd(a) == a.got[a.size - 1] # None
IsComplete(a) == \A p \in 0 .. a.size - 1 : a.got[p] # None
Delivery(a, complete) ==
  [complete |-> complete, size |-> a.size, units |-> Got(a)]

(* _process_non_arq_dpdu: the entry is that of the number, whatever the    *)
(* type, and the check of the data is not looked at.                       *)
RxDpdu ==
  /\ air # <<>> /\ air' = Tail(air)
  /\ LET d == Head(air)
         a == Filled(Entry(d), d.unit)
     IN  IF IsComplete(a)
         THEN /\ delivered' = delivered \cup {Delivery(a, TRUE)}
              /\ asm' = [asm EXCEPT ![d.id] = None]
         ELSE /\ asm' = [asm EXCEPT ![d.id] = a]
              /\ UNCHANGED delivered
  /\ UNCHANGED <<queues, nextId, count, damages, met>>

\* Mutant of Expired: the entry stays after the part has been delivered.
ExpiredKept(i) == asm
Expired(i) == [asm EXCEPT ![i] = None]
(* _expire_partial_reassemblies.                                           *)
Expire(i) ==
  /\ asm[i] # None
  /\ asm' = Expired(i)
  /\ delivered' = IF Mode = "ERROR_FREE" THEN delivered
                  ELSE delivered \cup {Delivery(asm[i], FALSE)}
  /\ UNCHANGED <<queues, nextId, air, count, damages, met>>

Next ==
  \/ \E t \in Types, s \in 1 .. MaxSegments : QueueCpdu(t, s)
  \/ \E t \in Types : ProcessTx(t)
  \/ Lose \/ Damage \/ RxDpdu
  \/ \E i \in Ids : Expire(i)

Spec == Init /\ [][Next]_vars /\ \A i \in Ids : WF_vars(Expire(i))
-----------------------------------------------------------------------------
(* A C_PDU delivered as complete is one that was sent, all of it and       *)
(* nothing of another, whatever of it and of others was lost or given up   *)
(* and however the numbers of the two types come round -- unless it holds a*)
(* unit of a C_PDU that had its number together with another               *)
(* (_rx_assemblies, queue_cpdu).  Its units may be damaged: that is not    *)
(* looked at.                                                              *)
CompleteIsOneCpdu ==
  \A d \in delivered : d.complete =>
    \/ /\ Cardinality({u.n : u \in d.units}) = 1
       /\ {u.pos : u \in d.units} = 0 .. d.size - 1
       /\ \A u \in d.units : u.size = d.size
    \/ \E u \in d.units : u.n \in met

(* What stays of a C_PDU that was cut short is dropped in the end, so that *)
(* nothing old is left when its number comes round                         *)
(* (_expire_partial_reassemblies).                                         *)
PartsAreDropped == \A i \in Ids : asm[i] # None ~> asm[i] = None
=============================================================================
