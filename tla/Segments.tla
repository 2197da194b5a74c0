------------------------------- MODULE Segments -------------------------------
(***************************************************************************)
(* Messages longer than a U_PDU (annex_f/rcop.py; updu.py does the same    *)
(* with other limits): RcopClient and UdopClient cut a message into        *)
(* segments, _RcopReassemblyContext joins them.  Nothing in a segment says *)
(* that it is the last one but that it is not full.  RCOP segments come    *)
(* through the ARQ service, UDOP segments may be lost, repeated or         *)
(* overtaken on their way.                                                 *)
(***************************************************************************)
EXTENDS Naturals, Sequences, FiniteSets, FiniteSetsExt, SequencesExt

CONSTANTS
  IdMod,        \* the identifiers wrap here (256)
  MaxSegments,  \* bound: segments of a message
  MaxMessages,  \* bound: messages sent
  MaxRepeats    \* bound: segments that come twice

VARIABLES
  nextId,    \* _rcop_updu_id
  sent,      \* the messages sent: [no, id, n, exact]
  air,       \* segments under way
  buffers,   \* _buffers: by identifier the segments held, by number
  delivered, \* what the handler was given, each a sequence of segments
  repeats,
  met        \* history: messages whose identifier came round too soon: of an
             \* earlier message that had it something was left
vars == <<nextId, sent, air, buffers, delivered, repeats, met>>

Ids == 0 .. IdMod - 1
Nothing == <<>>

TypeOK ==
  /\ nextId \in Ids /\ repeats \in 0 .. MaxRepeats
  /\ \A id \in Ids : DOMAIN buffers[id] \subseteq 0 .. MaxSegments - 1

Init ==
  /\ nextId = 0 /\ sent = {} /\ air = {} /\ repeats = 0 /\ met = {}
  /\ buffers = [id \in Ids |-> Nothing] /\ delivered = <<>>
-----------------------------------------------------------------------------
(* _build_segments: every segment is full but the last, which is full too  *)
(* when the message is an exact multiple.  A segment remembers whose it is.*)
SegmentsOf(m) ==
  {[no |-> m.no, id |-> m.id, number |-> i, full |-> i < m.n - 1 \/ m.exact] : i \in 0 .. m.n - 1}

\* Something is left of an earlier message with this identifier, under way
\* or in the buffer of the receiver.
IsLeft(id) == buffers[id] # Nothing \/ \E s \in air : s.id = id

(* _alloc_rcop_id.                                                         *)
NextId(id) == (id + 1) % IdMod

(* send: an identifier is used again whatever is left of the last message. *)
Send(n, exact) ==
  LET m == [no |-> Cardinality(sent) + 1, id |-> nextId, n |-> n, exact |-> exact]
  IN  /\ Cardinality(sent) < MaxMessages
      /\ nextId' = NextId(nextId)
      /\ sent' = sent \cup {m}
      /\ air' = air \cup SegmentsOf(m)
      /\ met' = IF IsLeft(nextId) THEN met \cup {m.no} ELSE met
      /\ UNCHANGED <<buffers, delivered, repeats>>

\* Mutant of With: segments are kept in the order they come in.
WithAsTheyCome(buffer, s) ==
  LET next == Cardinality(DOMAIN buffer)
  IN  [i \in DOMAIN buffer \cup {next} |-> IF i = next THEN s ELSE buffer[i]]
With(buffer, s) ==
  [i \in DOMAIN buffer \cup {s.number} |-> IF i = s.number THEN s ELSE buffer[i]]
\* Mutant of Complete: the first segment is not counted.
CompleteButFirst(buffer) == Cardinality(DOMAIN buffer) = Max(DOMAIN buffer)
(* feed: all numbers up to the greatest are there.                         *)
Complete(buffer) == Cardinality(DOMAIN buffer) = Max(DOMAIN buffer) + 1
InOrder(buffer) ==
  [k \in 1 .. Cardinality(DOMAIN buffer) |-> IF k - 1 \in DOMAIN buffer THEN buffer[k - 1] ELSE Nothing]

(* feed, on_unidata_indication.                                            *)
Feed(s) ==
  LET buffer == With(buffers[s.id], s)
  IN  IF s.number = 0 /\ ~s.full
      THEN /\ delivered' = Append(delivered, <<s>>)
           /\ buffers' = [buffers EXCEPT ![s.id] = Nothing]
      ELSE IF ~s.full /\ Complete(buffer)
      THEN /\ delivered' = Append(delivered, InOrder(buffer))
           /\ buffers' = [buffers EXCEPT ![s.id] = Nothing]
      ELSE /\ buffers' = [buffers EXCEPT ![s.id] = buffer]
           /\ UNCHANGED delivered

Arrive(s) == s \in air /\ Feed(s) /\ air' = air \ {s} /\ UNCHANGED <<nextId, sent, repeats, met>>
Repeat(s) ==
  /\ s \in air /\ repeats < MaxRepeats
  /\ Feed(s) /\ repeats' = repeats + 1
  /\ UNCHANGED <<nextId, sent, air, met>>
Lose(s) == s \in air /\ air' = air \ {s} /\ UNCHANGED <<nextId, sent, buffers, delivered, repeats, met>>

(* purge_expired, which purge_stale_reassemblies offers to the application:*)
(* nothing in the program calls it, so it may never happen.                *)
Purge(id) ==
  /\ buffers[id] # Nothing
  /\ buffers' = [buffers EXCEPT ![id] = Nothing]
  /\ UNCHANGED <<nextId, sent, air, delivered, repeats, met>>

Next ==
  \/ \E n \in 1 .. MaxSegments, exact \in BOOLEAN : Send(n, exact)
  \/ \E s \in air : Arrive(s) \/ Repeat(s) \/ Lose(s)
  \/ \E id \in Ids : Purge(id)
Spec == Init /\ [][Next]_vars
-----------------------------------------------------------------------------
(* What an application is given is one message as it was sent, every       *)
(* segment of it in its place, whatever was lost, overtaken or repeated and*)
(* whichever partial messages were left over or purged -- unless it holds a*)
(* segment of a message that was sent under an identifier something was    *)
(* still left of (_RcopReassemblyContext.feed, _alloc_rcop_id).            *)
OnlyWholeMessages ==
  \A i \in DOMAIN delivered :
    \/ \E m \in sent :
         /\ Len(delivered[i]) = m.n
         /\ \A k \in 1 .. m.n : delivered[i][k] \in SegmentsOf(m) /\ delivered[i][k].number = k - 1
    \/ \E k \in DOMAIN delivered[i] : delivered[i][k].no \in met

(* A message that is not an exact multiple is delivered with its last      *)
(* segment when that is the one that was missing; it is not kept waiting   *)
(* for a segment nobody sent (feed).  A last segment that comes before     *)
(* another one completes nothing: that is as far as the promise goes.      *)
Missing(m) == SegmentsOf(m) \ ToSet(InOrder(buffers[m.id]))
LastCompletes ==
  [][\A m \in sent : \A s \in Missing(m) :
       (/\ Missing(m) = {s} /\ ~s.full
        /\ \A i \in DOMAIN buffers[m.id] : buffers[m.id][i] \in SegmentsOf(m)
        /\ s \in air \ air' /\ <<buffers, delivered>>' # <<buffers, delivered>>)
       => delivered' # delivered]_vars
=============================================================================
