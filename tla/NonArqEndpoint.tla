---------------------------- MODULE NonArqEndpoint ---------------------------
(***************************************************************************)
(* The non-ARQ endpoint the package offers next to the engine of the node  *)
(* (NonArqEndpoint, NonArqSegmenter and NonArqReassembler of non_arq.py):  *)
(* C_PDUs are cut into segments that say where they belong; the receiver   *)
(* keeps the ranges of bytes it has.  Segments are lost, repeated and      *)
(* overtaken.                                                              *)
(***************************************************************************)
EXTENDS Naturals, Sequences, FiniteSets, SequencesExt

CONSTANTS
  IdMod,      \* the identifiers wrap here (4096)
  MaxPayload, \* bytes of a segment
  Sizes,      \* the sizes of the C_PDUs
  MaxCpdus,   \* bound: C_PDUs enqueued
  MaxRepeats  \* bound: segments that come twice

VARIABLES
  nextId,    \* _next_cpdu_id
  queue,     \* _tx_queue
  sent,      \* the C_PDUs enqueued: [no, id, size]
  air,       \* segments under way
  entries,   \* _entries: by identifier <<>> or [size, buffer, ranges]
  delivered, \* the C_PDUs completed, each the sequence of its bytes
  repeats
vars == <<nextId, queue, sent, air, entries, delivered, repeats>>

Ids == 0 .. IdMod - 1
Nothing == <<>>

Init ==
  /\ nextId = 0 /\ queue = <<>> /\ sent = {} /\ air = {} /\ delivered = <<>> /\ repeats = 0
  /\ entries = [id \in Ids |-> Nothing]
-----------------------------------------------------------------------------
\* A byte remembers the C_PDU it is of and its place there.
ByteOf(m, at) == [no |-> m.no, at |-> at]
CpduOf(m) == [i \in 1 .. m.size |-> ByteOf(m, i - 1)]

(* build_segments.                                                         *)
BuildSegments(m) ==
  [i \in 1 .. (m.size + MaxPayload - 1) \div MaxPayload |->
     LET first == (i - 1) * MaxPayload
         last == IF first + MaxPayload < m.size THEN first + MaxPayload ELSE m.size
     IN  [id |-> m.id, first |-> first, size |-> m.size, payload |-> SubSeq(CpduOf(m), first + 1, last)]]

\* An identifier comes round again when nothing is left of the C_PDU that
\* had it: 4096 of them do not go by within the reception window.
Unused(id) ==
  /\ entries[id] = Nothing
  /\ \A s \in air \cup ToSet(queue) : s.id # id

(* enqueue_cpdu: an empty C_PDU has no segments and takes two identifiers. *)
EnqueueCpdu(size) ==
  LET m == [no |-> Cardinality(sent) + 1, id |-> nextId, size |-> size]
  IN  /\ Cardinality(sent) < MaxCpdus
      /\ Unused(nextId)
      /\ queue' = queue \o BuildSegments(m)
      /\ nextId' = (nextId + (IF size = 0 THEN 2 ELSE 1)) % IdMod
      /\ sent' = sent \cup {m}
      /\ UNCHANGED <<air, entries, delivered, repeats>>

(* pop_next_segment.                                                       *)
PopNextSegment ==
  /\ queue # <<>>
  /\ air' = air \cup {Head(queue)}
  /\ queue' = Tail(queue)
  /\ UNCHANGED <<nextId, sent, entries, delivered, repeats>>

Lesser(x, y) == IF x < y THEN x ELSE y
Greater(x, y) == IF x < y THEN y ELSE x
\* The order of tuples in Python, and list.sort.
NotAfter(x, y) == x[1] < y[1] \/ (x[1] = y[1] /\ x[2] <= y[2])
Sorted(ranges) ==
  LET places == DOMAIN ranges
      order == CHOOSE p \in Bijection(places, places) :
                 \A i, j \in places : i < j => NotAfter(ranges[p[i]], ranges[p[j]])
  IN  [i \in places |-> ranges[order[i]]]

(* _merge_ranges: one pass over the ranges, in order.                      *)
MergeStep(t, r) ==
  IF r[2] < t.start THEN [t EXCEPT !.merged = Append(@, r)]
  ELSE IF t.end < r[1]
  THEN [t EXCEPT !.merged = Append(IF t.inserted THEN @ ELSE Append(@, <<t.start, t.end>>), r),
                 !.inserted = TRUE]
  ELSE [t EXCEPT !.start = Lesser(@, r[1]), !.end = Greater(@, r[2])]
MergeRanges(ranges, new) ==
  LET upTo[n \in 0 .. Len(ranges)] ==
        IF n = 0 THEN [start |-> new[1], end |-> new[2], merged |-> <<>>, inserted |-> FALSE]
        ELSE MergeStep(upTo[n - 1], ranges[n])
      all == upTo[Len(ranges)]
  IN  Sorted(IF all.inserted THEN all.merged ELSE Append(all.merged, <<all.start, all.end>>))

(* _get_entry, accept_segment: the size is that of the first segment seen. *)
Entry(s) ==
  IF entries[s.id] = Nothing THEN [size |-> s.size, buffer |-> [i \in 0 .. s.size - 1 |-> Nothing], ranges |-> <<>>]
  ELSE entries[s.id]
AcceptSegment(s) ==
  LET old == Entry(s)
      end == s.first + Len(s.payload)
      new == [old EXCEPT !.buffer = [i \in DOMAIN @ |-> IF i \in s.first .. end - 1
                                                        THEN s.payload[i - s.first + 1] ELSE @[i]],
                         !.ranges = MergeRanges(@, <<s.first, end>>)]
  IN  IF end > old.size
      THEN entries' = [entries EXCEPT ![s.id] = old] /\ UNCHANGED delivered
      ELSE IF Len(new.ranges) = 1 /\ new.ranges[1][1] = 0 /\ new.ranges[1][2] >= new.size
      THEN /\ entries' = [entries EXCEPT ![s.id] = Nothing]
           /\ delivered' = Append(delivered, [i \in 1 .. new.size |-> new.buffer[i - 1]])
      ELSE entries' = [entries EXCEPT ![s.id] = new] /\ UNCHANGED delivered

Arrive(s) == AcceptSegment(s) /\ air' = air \ {s} /\ UNCHANGED <<nextId, queue, sent, repeats>>
Repeat(s) ==
  /\ repeats < MaxRepeats
  /\ AcceptSegment(s) /\ repeats' = repeats + 1
  /\ UNCHANGED <<nextId, queue, sent, air>>
Lose(s) == air' = air \ {s} /\ UNCHANGED <<nextId, queue, sent, entries, delivered, repeats>>

(* purge_expired, called by tick.                                          *)
PurgeExpired(id) ==
  /\ entries[id] # Nothing
  /\ entries' = [entries EXCEPT ![id] = Nothing]
  /\ UNCHANGED <<nextId, queue, sent, air, delivered, repeats>>

Next ==
  \/ \E size \in Sizes : EnqueueCpdu(size)
  \/ PopNextSegment
  \/ \E s \in air : Arrive(s) \/ Repeat(s) \/ Lose(s)
  \/ \E id \in Ids : PurgeExpired(id)
Spec == Init /\ [][Next]_vars
-----------------------------------------------------------------------------
(* The ranges say exactly which bytes have come, apart from one another and*)
(* in order, whatever order the segments came in and however often; an     *)
(* entry that has every byte is not kept; and what is delivered is a C_PDU *)
(* as it was enqueued (_merge_ranges, accept_segment).                     *)
RangesTellBytes ==
  /\ \A id \in Ids : entries[id] # Nothing =>
       LET e == entries[id]
           covered == UNION {e.ranges[i][1] .. e.ranges[i][2] - 1 : i \in DOMAIN e.ranges}
       IN  /\ covered = {i \in DOMAIN e.buffer : e.buffer[i] # Nothing}
           /\ covered # DOMAIN e.buffer
           /\ \A i \in 2 .. Len(e.ranges) : e.ranges[i - 1][2] < e.ranges[i][1]
  /\ \A i \in DOMAIN delivered : \E m \in sent : delivered[i] = CpduOf(m)
=============================================================================
