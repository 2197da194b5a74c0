# Verification of the STANAG 5066 node

TLA+ models of the protocol engines in `src/src/`, checked with TLC on small
instances and, where it matters most, proved with TLAPS for every value of the
constants. Every definition is translated from the Python source;
`PROJECT.json` ("map") gives the lines each one stands for.

## The system

A STANAG 5066 node carries user data between radio stations over an HF modem.
It is one process in which an orchestrator, `StanagNode`, owns one engine per
protocol and drives them from a periodic `tick(now)`: queued input is handed to
the engines, their timers are looked at, one engine at a time is asked for the
frame to send. The engines are sequential; concurrency is *between nodes*
(frames in flight, timers of both ends) and, inside a node, between the clock,
the upper layer's calls and the callbacks of one engine into another. Real
threads exist only in the modem adapters and the client socket server.

| Component | Source | State | Operations | Talks to | What makes it correct | Status |
|---|---|---|---|---|---|---|
| ARQ engine | `arq.py` | C_PDU queue, transmit window of slots (`_tx_lwe`, `_tx_count`, `_next_seq`, status and retry count of each slot), receive window (`_rx_lwe`, `_deliver_lwe`, slots), reset handshake (`_reset_pending`, `_reset_frame_id`) | `submit_cpdu`, `process_tx`, `process_rx_dpdu`, `process_rx_reset`, `start_full_reset`, `reset_full` | peer's engine; node (delivery and transmit callbacks) | in order, once, nothing dropped that was not delivered; both windows agree; a C_PDU is resolved in the end | partly: `ArqLink` |
| Channel Access Sublayer | `cas.py` | one link context per remote (state, type, called, retries, deadline), the primary remote | `make_link`, `break_link`, `process_cpdu`, `tick` | peers' CAS by control C_PDUs over the Non-ARQ service; polled by the node (`state`, `remote`) | one call at a time, exclusivity rules, no half-open link for ever | modelled: `CasLink`, `CasView` |
| Expedited ARQ | `expedited_arq.py` | queue, segment under way, retry count, receive parts | submit, process_tx, process_rx | peer; DTS state | stop-and-wait without loss; C_PDUs whole | partly: `ExpeditedLink` |
| DTS state | `dts_state.py` | one of eight states, one remembered state | enter/exit of expedited and management, link made/broken | node, which asks what D_PDU type is allowed | connected while there is a link; returns to where it came from | modelled: `NodeDts` |
| StanagNode | `stanag_node.py` | link session (soft/hard, IDLE/ESTABLISHING/ACTIVE/TERMINATING), SAP bindings, U_PDU queue, `_arq_pending_tx`, two remembered CAS states | `tick` (13 steps), unidata and hard-link requests, D_PDU and S_PDU dispatch | everything | the session ends with its link; only the owner of a hard link ends it; clients hear what became of what they asked | partly: `NodeSession`, `NodeDts` |
| Management and DRC | `management.py`, `drc.py` | frame ids, outstanding message, DRC phase | stop-and-wait messages; data rate change master and slave | peer; modem rate | a message once, before its acknowledgement; the exchange ends | modelled: `Management`, `Drc` |
| Non-ARQ | `non_arq.py` | reassembly buffers by (source, C_PDU id), expiry | submit, process_tx, process_rx, purge | peer, CAS, node | no mixed or stale C_PDU delivered as complete | partly: `NonArq`, `NonArqEndpoint` |
| D_PDU, EOW, S_PDU, primitive codecs | `dpdu_frame.py`, `eow.py`, `crc.py`, `bitbuffer.py`, `sis.py`, `s_primitive_codec.py`, `stypes.py` | none | encode and decode | all | what is written reads back; damage is seen | modelled but for `bitbuffer.py` |
| Raw SIS socket | `raw_sis_socket.py` | connections, SAP to connection table | bind, unbind, disconnect, requests, stop | clients, node | its table agrees with the node's bindings | partly: `RawSis`, `ByteStream` |
| RCOP/UDOP | `annex_f/rcop.py` | message ids, reassembly contexts | send, feed, purge | peers' clients over RCOP/UDOP U_PDUs | whole messages only | modelled: `Segments` |
| Other Annex F clients | `annex_f/` | COSS buffer; otherwise formats | encode, decode, answer | node | formats agree at both ends | partly: `AnnexF`, `Coss`, `IpClient`, `TextMail` |
| 110D modem adapter | `modem/tcp_110d_adapter.py`, `dpdu_framing.py`, `appendix_a_codec.py` | connection, transmit state last reported, queue, two threads | connect, receive, arm, start, send, finish | modem, node | the modem is sent what it expects when it expects it | partly: `Tcp110d`, `ByteStream`, `AppendixA` |
| Other modem adapters | `modem/`, `modem_if.py` | sockets, threads | move frames | air, node | - | not modelled |
| User interfaces, tunnel, logs | `interface/`, `tun_bridge.py`, `flow_log.py` | presentation | - | node | - | not modelled |

Behaviours that are hard here: both ends act on timers of their own while
frames are lost, damaged, late or repeated; resets restart the numbering while
old numbers are still on the air; the node learns of CAS changes by *polling*,
at two places of the tick and with a memory for each, so two changes between two
looks are one; several engines share one remembered state; and messages are
recognised in streams and reassembled from pieces by numbers that wrap.
`PROJECT.json` ("hazards") lists each place with the properties that watch it, or
why none does.

## Modules

| Module | What it is |
|---|---|
| `ArqSeq` | sequence numbers modulo `SeqMod`, windows, slots (`_seq_add`, `_seq_dist`, `_in_window`) |
| `ArqLink` | two `ArqEngine`s and the radio link between them, with the node's reset queue |
| `ReliableDelivery` | the service the ARQ promises, one direction: accept, deliver in order, confirm after delivery, fail |
| `CasLink` | the `CASEngine`s of a subnetwork and the control C_PDUs between them |
| `CasView` | the abstract CAS: how the state of the primary link, all the rest of a node polls, may change; `CasLink` implements it, `NodeSession` and `NodeDts` are built on it |
| `ExpeditedLink` | two `ExpeditedArqEngine`s with the DTS state of each node, and the radio link between them |
| `NodeSession` | the tick of one node: clients, U_PDU queue, soft and hard link session, above `CasView` |
| `NodeDts` | the DTS of one node under its D_PDU dispatch and its transmission choice, above `CasView` |
| `Management`, `Drc`, `Eow` | management messages between two engines; the data rate change of two nodes; the orderwire fields it speaks in |
| `NonArq`, `NonArqEndpoint` | the Non-ARQ engine of the node; the endpoint exported beside it |
| `RawSis`, `ByteStream` | the socket server's SAP table; messages found in a stream of bytes |
| `Segments` | RCOP/UDOP messages cut, lost, repeated, overtaken and joined |
| `Tcp110d` | the two threads of the 110D adapter and the modem |
| `Layout` | what a codec is: the pieces an encoder writes, the places a decoder reads |
| `SPrimitive`, `SPdu`, `DpduFrame`, `Crc`, `AppendixA` | primitives, S_PDUs, D_PDUs, checks, 110D packets |
| `AnnexF`, `Coss`, `IpClient`, `TextMail` | formats of the Annex F clients and what the other end makes of them |
| `Codecs` | one message of a family of formats, encoded, perhaps damaged, decoded; the families are a constant |
| `Formats` | `Codecs` with all of these formats side by side |
| `Services` | the components around the link that theorems are about: an instance each of `NodeDts`, `Management`, `NonArq`, `RawSis`, `Segments` and `Tcp110d` with constants of their own |
| `Streams` | `Services` with the readers of streams and the Non-ARQ endpoint beside them: an instance each of `ByteStream` and `NonArqEndpoint` |
| `MCArqLink`, `MCCasLink`, `MCExpeditedLink`, `MCNodeSession`, `MCServices` | instances for TLC; `MCServices` extends `Streams` and `Formats`, with `Drc` beside them |
| `ArqLink_proofs`, `ArqDelivery_proofs` | theorems about the ARQ: the arithmetic of the numbers and types; delivery |
| `CasLink_proofs`, `ExpeditedLink_proofs`, `NodeSession_proofs` | theorems about the Channel Access Sublayer, the Expedited ARQ and the node |
| `Services_proofs` | theorems about the components of `Services` |
| `Streams_proofs` | theorems about the readers and the Non-ARQ endpoint |
| `Codecs_proofs` | theorems about the header of D_PDUs and its check |

### ArqLink

State: `txQueue`, `txLwe`, `txCount`, `nextSeq`, `txWindow` are the sender's
fields; `rxLwe`, `deliverLwe`, `rxWindow`, `ackDirty` the receiver's;
`resetPending`, `resetFrameId` the reset handshake; `pendingTx` is
`StanagNode._arq_pending_tx`; `chan[n]` the frames on their way to `n`. The rest
is history.

One call of `process_tx` is one of `TxSend` (cut the next C_PDU into fragments
and send them all), `TxConfirm` (everything acknowledged: drop the C_PDU and
go on with the next), `TxTimeout`, `TxRetransmit`, `TxGiveUp`, `TxAck`,
`TxReset`; `TxPending` is the node sending from its own queue, which goes first.
Reception is `RxOutside`, `RxDamaged`, `RxData`, `RxAck` (`process_rx_dpdu`),
`RxReset` and `RxResetAck` (`process_rx_reset`). `Lose` is the radio.

What is abstracted, and why it is sound:

- Time: a timer that is running may run out at any step. All the frames of a
  window that wait for an answer were sent by one call and carry one send
  time, so they expire together.
- `_process_tx_single` walks through SEGMENT, SEND and the rest within one call;
  only IDLE and WAIT_ACK survive a call, as does no slot in state PENDING.
- A C_PDU is an identity and a number of fragments. The payload of a fragment
  is (identity, part, size), so that a mixed reassembly shows.
- The selective acknowledgement is the set of its bit positions and the set of
  those that are 1, filled up to whole bytes (`ByteBits`) as the code does.
- A slot reads as empty whatever its leftover fields: no code path looks at them.
- A frame is lost whole (header unreadable) or, with `CrcErrors`, arrives with a
  damaged payload. Order is kept: the modem is a stream.
- The first copies of a FULL RESET pass through the node's queue once
  (`start_full_reset`); a retransmission is `ResetReps` copies.

Not modelled: `RESET_RX_WIN_CMND`/`RESET_TX_WIN_RQST` (answered, never sent by
this program), DROP_PDU and DATA_ACK (never produced), C_PDUs of more fragments
than the window. `SeqAssumption` asks that the window divide the sequence space
and be half of it at most: the node uses 128 and 256.

### CasLink

State: `links[n][r]` is the context `_links[r]` at `n` (or none), `primary[n]` is
`_primary_remote`, `chan[n][r]` the control C_PDUs from `n` to `r`. `unheard` is
history: `n` may have no link with `r` and `r` not have heard of it. That is so after a
break that was lost, a call back that failed, an idle time-out, and when `r` calls while a
break to it, or an acceptance of an earlier call, is still on its way (`Leftover`).

`MakeLink` and `BreakLink` are the API; `CallAgain`, `CallFails`, `BreakAgain`,
`BreakEnds` and `IdleTimeout` are the timers of `tick`; the `Rx...` actions
are `process_cpdu` and `_handle_link_request`, one for each outcome. A link
accepted for an exclusive call breaks every nonexclusive one in the same step, as
`_break_all_nonexclusive` does. `Closed` stands for `busy` and for
`allow_incoming_links = False`. Reasons, events, `last_failure_reason` and the
DATA C_PDUs (they restart the idle timer, which here may run out at any time)
are left out; `reset()` is never called. Control C_PDUs arrive in order or not
at all, as the Non-ARQ service with one modem stream gives them.

### ExpeditedLink

State: `queue`, `segments`, `current`, `retx`, `txSeq`, `cpduId` are the sending
fields (`current` is `_current_encoded`, present exactly when `_waiting_ack`);
`rxParts`, `rxCpdu`, `pendingAck` the receiving ones; `dts` is the state of the
node's `DTSStateMachine`. `submitted`, `delivered`, `done`, `dropped` and `skipped` (the
numbers given up since one was acknowledged) are history.

The expedited part of a tick's `_dts_transmit` is one of `TxSend` (cut the next
C_PDU if none is under way, send its next segment), `TxRetransmit`, `TxGiveUp`,
`TxAck` (only the acknowledgement that is due) and `TxNothing`; `Transmit` puts an
acknowledgement first, as `_process_tx_single` does, in every one of them.
Reception is `RxOrphan`, `RxSegment`, `RxDamaged` (`process_rx_dpdu` on type 4),
`RxAck` and `RxAckLate` (type 5), each with the entering and leaving of EXPEDITED
that `_dispatch_rx_frame` wraps around the call. `RxManagement` is the effect a
management D_PDU has on the DTS.

What is abstracted, and why it is sound:

- The link is up throughout, so the DTS rests in DATA or in EXPEDITED only: a
  handler that enters MANAGEMENT leaves it before it returns, to DATA, because
  DATA is the only state that is ever remembered.
- The timer of a segment may run out at any step. A segment whose timer has not
  run out is `TxNothing` or `TxAck`.
- `_rx_frame_seq` is written and never read; `reset()` is never called. Both are
  left out.
- A damaged payload is ignored (`data_crc_ok`), a damaged header loses the frame.
- Regular and Non-ARQ frames take their own way and are not in this module; a
  tick in which they go first does not reach the expedited engine.

### CasView

`view` is the pair `StanagNode` reads: `cas.state` and `cas.remote_node_address`.
`ByPeer` and `ByTimer` say where it may go on a control C_PDU and on a timer,
`Calling` and `Breaking` what the node's own calls do, and when `make_link` and
`break_link` refuse. A node is never told: it finds the new pair when it polls.
`ServesView` (in `CasLink`) is the refinement: each node's primary link, taken
from `links` and `primary`, changes in these ways only.

### NodeSession

State: `ses` is `_link_session`, `prevDts` and `prevSis` the two memories of the
CAS state, `weInit` `_we_initiated_link`, `deferred` `_deferred_hard_link_request`,
`saps`, `counts`, `queue`, `flowOn` the tables of the clients, `arqIn` and
`nonArqIn` what was received and not yet processed, `sent` and `told` what the
last step handed down and told the clients. `asked` is history. `pc` is the step
of the tick.

The tick is one action per step (or per item of a step that loops), in the
order of `tick`: `RxArq`, `RxNonArq`, `RxControl` (steps 1 and 2), `DtsCas`,
`CasTick`, `ProcessArq` and `ProcessNonArq` (the S_PDUs, handled by `Rx`), the
monitor (`SeesMade`, `SeesLost`, `SeesCallFailed`, `SeesNothing`), `SendRequest`
(the deferred hard link request), the two time-outs, `Expire`, `Dispatch`, and
`MakeSoftLink`, `BreakSoftLink` or `KeepSoftLink`. Between two ticks the clients
call. The S_PDUs the last steps of a tick see are those of the tick; the view
changes in `RxControl`, in `CasTick` and by the node's own calls.

What is abstracted, and why it is sound:

- The other nodes send any S_PDU at any time: their sessions are not constrained,
  so every order of answers, crossings and late messages is there.
- Time: a deadline that is set may pass at any tick; a U_PDU may expire at any tick.
- A U_PDU is the SAP, the destination, the service and the priority it was given,
  and the client's rank through the SAP; its payload is left out.
- `_arq.reset_pending` may hold the deferred request back for any number of ticks.
- `make_link` may raise for a reason the view does not show (`OtherLinks`: an
  exclusive link that is not the primary one).

### NodeDts

State: `dts` is the state as (connected or not, mode), `saved` the state
remembered, `exp` whether the expedited engine is busy, `resets` the FULL RESET
D_PDUs that go first, `warned` the D_PDUs refused last; `missed` is history: the
link was up at the first poll already, so the DTS was never told. The actions are
the reception of each kind of D_PDU (`_dispatch_rx_frame`), `DtsCas`, `CasTick`,
the submissions, and the one transmission of the tick (`_dts_transmit`).

### The components around the link

`Services`, `Streams`, which extends it, and `MCServices`, which extends that, hold an
instance of each of the modules
below. They share no variable, so `active` chooses one of them for the whole behaviour:
their states add up and do not multiply, and the properties of one are checked on its own
behaviours. `Services` and `Streams` hold those the theorems are about, their specifications
are `Spec` and `StreamsSpec`;
`MCServices` adds the others, and its configuration gives the constants of all.
`vars` leaves `active` out, so that a step of a component that is added is a
stuttering step of `Services`, and likewise above it: `MCSpec` implies `StreamsSpec`, which
implies `Spec`, and what is proved of the one holds of what TLC checks.

- **Management**: node `a` submits, sends copies, waits, retries, gives up and
  may restart with nothing stored; node `b` answers. Air in both directions loses.
- **Drc**: requester and answerer of a rate change with `_start_time_ms` as a
  flag (set or not) and the time-out of `tick`. The program holds the protocol and
  does not call it; the network is what its interface describes: in order, once or lost.
- **NonArq**: one queue per D_PDU type, ids taken as they come, a burst per
  C_PDU, loss and damage, reassembly by (source, id) and expiry, which may come
  at any time while something is incomplete. `met` is history: the C_PDUs that had a number
  at one time, because it came round, or was taken by both types, while something was left of
  the earlier. The code joins what such C_PDUs have left, so `CompleteIsOneCpdu` excepts what holds a unit of one. **NonArqEndpoint**: segments by byte
  range, merged; repeats and overtaking.
- **RawSis**: connections with the SAP and the rank they believe they have, `_sap_to_conn`, the
  SAPs of the node with theirs; binds, unbinds, disconnects, the host's own binds, its `bind_rejected` callback and
  the stop of the server. One handler is one action: the event loop runs it to its end. `Grant` is what comes
  of `node.bind`: made, or refused and accepted all the same, because the node has the SAP (`"existing"`) or because
  the refusal went to the callback (`"callback"`); `granted` remembers which. Assumed: the host unbinds no SAP,
  and the limit of expedited requests (`track_expedited_request`, which can take a client's SAP away) is off, as it is by default.
  Other requests leave the tables alone and are left out.
- **ByteStream**: `DpduReassembler` and `PacketReader` on a stream of symbols (of
  preamble, good or bad headers, payloads) handed over in pieces of any size.
- **Segments**: identifiers, segments of full or short size, contexts, purge. The
  context completes when a short segment has come and no number is missing below
  the highest. An identifier is used again whatever is left of the message that had it, and a purge
  may never come, for nothing in the program calls it; `met` is history: the messages to which that happened.
- **Tcp110d**: the receiving thread (connect, status, loss of the connection) and
  the sending thread (arm, prefill, start, the rest, the end, time-outs) as
  separate actions over the shared transmit state, and the modem of MIL-STD-188-110D
  as the repository's mock plays it (external).
- **Codecs** (`Formats`: `SPrimitive`, `SPdu`, `DpduFrame`, `Eow`, `AppendixA`, `AnnexF`, `Coss`,
  `IpClient`, `TextMail`): what an encoder writes and what a decoder reads are
  translated apart, from the two functions, as a `Layout`; fields are at their least
  and greatest values. The CRCs are computed; `Crc` is checked against the test
  vector `crc.py` quotes (`CrcVector`). The messages are the constant `CoMessages` of `Codecs`, so that what
  is proved of damage is of any D_PDUs; the configuration gives it `Messages` of `Formats`.

## Runs

| Run | Specification | Expected | Properties |
|---|---|---|---|
| `arq_data` | `Spec` | pass | `TypeOK`, `InOrderExactlyOnce`, `WindowsInStep`, `AckedIsHeld`, `StoredIsKept`, `DeliversReliably` |
| `arq_handshake` | `HandshakeSpec` | pass | `InOrderExactlyOnce`, `HandshakeCompletes`, `EveryCpduResolved` |
| `arq_damage_loses` | `Spec` | violation | `AckMeansDelivered` |
| `arq_giveup_mixes` | `Spec` | violation | `DeliveredIsWhole` |
| `cas_pair` | `FairSpec` | pass | `GhostsAreUnheard`, `ChangesEnd`, `HalfOpenEnds` |
| `cas_subnet` | `Spec` | pass | `TypeOK`, `CallIsPrimary`, `CalledExclusiveIsAlone`, `ServesView` |
| `cas_hidden` | `Spec` | violation | `AdmittedIsVisible` |
| `expedited` | `FairSpec` | pass | `TypeOK`, `NothingIsMissing`, `AckMeansDelivered`, `EveryCpduResolved`, `RegularResumes` |
| `expedited_repeats` | `Spec` | violation | `DeliveredIsWhole` |
| `session` | `Spec` | pass | `TypeOK`, `InitiatorAsked`, `SoftLinkEnds`, `UpdusAreAccounted`, `NoSilentEnd` |
| `session_misaddressed` | `Spec` | violation | `GoesToItsNode` |
| `services` | `MCSpec` | pass | `ConnectedWhileMade`, `ExpeditedEnds`, `ManagedOnce`, `SlaveIsFreed`, `CompleteIsOneCpdu`, `PartsAreDropped`, `OneOwner`, `AcceptedIsServed`, `ChunksDoNotMatter`, `OnlyWholeMessages`, `LastCompletes`, `PacketsAreTaken`, `MessagesReadBack`, `DamageIsSeen` |

**arq_data.** Losses, timeouts, retransmissions and give-up, one direction, on
links that do not damage payloads. Until a node reports the link as failed,
delivery is in order and exactly once, the windows stay in step, whatever the
sender holds for acknowledged the receiver holds too, and each direction
implements `ReliableDelivery`. Three C_PDUs of up to two fragments with
`SeqMod = 4` and `Window = 2` send up to six numbers through four: the numbers
wrap and an old copy can meet its number again. `MaxRetries = 1` is enough for a
retransmission and for a give-up.

**arq_handshake.** The caller opens with a FULL RESET and has two C_PDUs, of up to two
fragments, on a link that loses and damages: the handshake ends, what is delivered is in
order and once, and every C_PDU is confirmed or the link is reported as failed. The reset
is sent several times (`ResetReps = 2`, and again when its answer is lost). A copy that
reached the called engine after a fragment of the caller would have a C_PDU delivered
twice; that none does rests on the engine holding its data back until the reset is
answered (`arq.py:428`), on a channel that keeps order. The mutant `TxSendEarly` drops
the first, and TLC finds the C_PDU delivered twice after the answer was lost and the reset
repeated. One retry lets a window be sent twice, or given up; `MaxChan = 3` holds a
window and the acknowledgement before it. Only the caller submits data in this run: the called engine has no
such guard, and its own data is not safe from a second copy of the reset (see "Observations").

**cas_pair.** Two nodes, calls of either type, two from A to B and one from B to A,
breaks and time-outs, with one retry. Calls and breaks end; a link that only the called
node believes in ends; and a caller believes in a dead link only when one of the
cases of `unheard` has come about. Two C_PDUs in flight each way let a
late answer cross a new request; the second call is what lets the answer to an earlier
call be taken for the answer to a later one.

**cas_subnet.** Three nodes, calls from A to B and to C and from B to A, of both
types: one call at a time, after an accepted exclusive call no nonexclusive
link in use, and every node's view of its primary link within `CasView`. One call of each kind is what it takes for a link to come up, or be
called, under an exclusive call.

**expedited.** Two C_PDUs of up to three segments in one direction, with one
retry, on a link that loses and damages. What is delivered has every segment of
one C_PDU in order and nothing of another, also after a give-up in the middle of
the first; a C_PDU acknowledged to the end was delivered, in the order of
submission; each C_PDU is acknowledged or given up; EXPEDITED is always left.
`SeqMod = 4` makes the numbers wrap within the second C_PDU and `IdMod = 2` makes
the ids wrap after it; three segments are what it takes for a first, a
repeated middle and a last one. Two frames on the air let an acknowledgement
arrive after a retransmission. The properties allow a segment to be delivered twice:
`expedited_repeats` shows that it is. With a sequence space this small the run
does not ask what a very old acknowledgement does after several give-ups: in the
program 256 numbers would have to be skipped while it is on the air. Only one node
sends data, so an acknowledgement and a segment never share a burst in this run.

**session.** One node, one client, two other nodes that send any S_PDU, links
of kind 0 and 2 (the client wants to be asked about kind 2), three client calls,
three things heard. Only a client that asked for the hard link, or accepted it, is
its owner; a soft session ends when the monitor sees its link gone; a U_PDU leaves
the queue, which holds two (`NoUpduIsLost` is about any length), for an engine or with word to its client; no hard link, request or
termination ends in silence. Three calls are what it takes to queue a U_PDU, ask for a
hard link and terminate it; three things heard bring a link up, cross the client's request
with a request of a node of greater rank, and answer or lose it. One thing
heard per tick: two of them give the same orders over two ticks, except that the
view may change twice between two looks, which a control C_PDU and a CAS timer of one
tick already do.

**services.** Each component on its own, see above. `NodeDts`: six received,
submitted or polled inputs and two FULL RESETs nest the three kinds of exchange in every
order. `Management`: three messages, one retry, two copies, two boots, ids
modulo 4. `Drc`: three calls of two nodes: crossed requests and a new one after a
time-out. `NonArq`: three C_PDUs of up to two segments and of either type, one damage; ids
modulo 2, so that both types use one number, and the third C_PDU has that of the first, whatever is left of it. `NonArqEndpoint`: C_PDUs of 0, 1 and 5 bytes with 2 in a segment: none, one
and three of them, the last one short; that its ranges tell the bytes is a part of
`ChunksDoNotMatter`. `RawSis`: three SAPs, one of them reserved, two ranks, one of them that of management, which the node does not allow;
three clients, two connections at a time, and a host that may bind SAPs and register a callback. `ByteStream`: three pieces (frames good and bad,
noise, half a preamble) in cuts of any size. `Segments`: two messages of up to three
segments with one id, one repeat; the second may be sent while anything is left of the first. `Tcp110d`: three windows of up to three
packets, one lost connection. The codecs have one message each.

Deadlock is not checked: the number of C_PDUs and calls is bounded, and the
system stops when they are used up.

### What the violations show

- **arq_damage_loses** (`arq.py:683`): a damaged copy of a fragment already
  received and acknowledged overwrites its slot with ERROR. The sender may have
  dropped its slot as ACKED and never sends it again; it drops the C_PDU, which is
  never delivered.
- **arq_giveup_mixes** (`arq.py:522`): at the retry limit the sender goes back to
  number 0 by itself; the receiver keeps its window and joins fragments of the
  old and of the next C_PDU.
- **cas_hidden** (`cas.py:605`): a failed call keeps its context and stays the
  primary link, so a link accepted later from another node is up and the rest
  of the node, which reads the primary's state only, does not see it.

- **expedited_repeats** (`expedited_arq.py:258`): the receiver appends every
  segment with the id of the C_PDU under way and ignores its number; a middle
  segment sent again after its acknowledgement was lost is in the delivered C_PDU
  twice. A single-segment C_PDU is delivered twice for the same reason.
- **session_misaddressed** (`stanag_node.py:1478`): `_dispatch_tx` hands the U_PDU
  of highest priority to the ARQ engine, whatever node the link is with; `send_data`
  takes no address. A node with U_PDUs for two others sends both to the one it is
  linked with.

### Observations

Met while modelling and not made runs, because nothing in the repository promises
otherwise, or because the model avoids them by a stated bound:

- A caller that has not yet had its FULL RESET acknowledged still acknowledges DATA
  numbered before it; read after the reset, that acknowledgement may confirm a C_PDU
  that was not delivered (`arq.py:747`). And a second copy of the reset that finds the called
  engine with data of its own empties its queue and starts its numbers again, which the caller, once it
  has the first answer, does not do (`arq.py:818-833`). `arq_handshake` lets the caller only submit data.
- `segment_updu` refuses exactly 256 segments although 256 numbers exist.
- The node that *asks* for a rate change waits for ever when the answer is lost:
  `_start_time_ms` is not set there (`drc.py:150`). `SlaveIsFreed` is about the
  other one.
- An RCOP message of an exact multiple of the segment size never completes:
  completion waits for a segment that is not full (`annex_f/rcop.py:150`); `LastCompletes` is
  about the others. Such a message stays in its context, for nothing calls `purge_stale_reassemblies`, and is joined to the
  message that has its identifier 256 messages later (`annex_f/rcop.py:222-287`). `OnlyWholeMessages` excepts what
  holds a segment of that message.
- D_PDUs of types 7 and 8 count their C_PDUs apart and are kept under one key (`non_arq.py:492`): two
  C_PDUs that have one number at one time may be joined and delivered as complete. `CompleteIsOneCpdu` excepts them.
- A C_PDU is delivered as complete and free of errors when all its units have come, whatever the check
  of their data says (`non_arq.py:488-525`); in Error-Free mode `docs/STANAG_5066_v3_ANEXO_C.md:1590-1602` asks that no unit have errors.
- The socket server gives a connection the rank it asked for even where the node refused it, if the host has bound the
  SAP already (`raw_sis_socket.py:398-414`), and that rank is all its management messages are checked for (`:532`).
- With a `bind_rejected` callback `node.bind` returns -1 and does not raise (`stanag_node.py:324-367`):
  the server accepts a SAP that the node may not have. `AcceptedIsServed` says what holds of each kind of bind.
- A client that binds a second SAP leaves its entry for the first in `_sap_to_conn`: nobody can bind that SAP
  until the server stops, and what comes for it goes to a connection that holds another. `OneOwner` is about the SAPs clients hold.
- The departure of a client unbinds its SAP in the node also when the host had bound it (`raw_sis_socket.py:576`).
- Cutting an IPv4 datagram that is itself a fragment with more to come clears its MF
  bit, and an MTU that leaves fewer than 8 octets after the header is cut for ever
  (`annex_f/ip_client.py:160`). Both are outside `IpClient`'s datagrams.
- The first management message after a restart may carry the number of the last one
  before it and be taken for a copy (`management.py:196`); `ManagedOnce` promises
  nothing about it.
- An acceptance names no call (`cas.py:402`): one that was on its way when its call failed is
  taken for the answer to the next call, and the caller uses a link of which its peer
  may know nothing. The proof of `GhostsAreUnheard` found it; with one call per node the
  run could not show it. The property counts it among the ways to a dead link.
- `hard_link_establish` and `_manage_soft_link` fill in the session before `make_link`,
  which may raise; the session then stays ESTABLISHING. The step is in `NodeSession`.

### Fairness

`ArqLink`: a node's tick reads what has arrived and calls `process_tx` for ever
(`StanagNode.tick`), so `ProcessTx(n)`, and `ProcessRx(n)` or the loss of the
frame, are weakly fair. Nothing says that a frame is *not* lost for ever: without
it `EveryCpduResolved` holds through give-up. The FULL RESET has no limit of
retries, so `HandshakeCompletes` assumes in addition that copies sent again and
again get through once (`SF` on `RxReset` and `RxResetAck`).

`CasLink`: `tick` is called for ever, so the retry and failure timers are weakly
fair; what is sent arrives or is lost. The idle timer of a called node is only
sure to run out when the peer has no link on which to send data, hence the
condition in its fairness.

`ExpeditedLink`: the tick calls `process_tx` for ever and time advances, so a
segment ready is sent, a timer that runs is acted on (retransmission or give-up)
and a tick with nothing to send comes; what is sent is read or lost. No frame is
assumed to get through, so `EveryCpduResolved` and `RegularResumes` rest on the retry
limit.

`NodeDts`: the node's tick comes again and polls, and transmits; a tick in which the
expedited engine has given up or been acknowledged, so that regular data go, comes
again and again (the engine's retry limit, shown by `RegularResumes` in `ExpeditedLink`):
strong fairness of `TxRegular` with the expedited engine idle after it.
`Drc`: `check_timeout` is called for ever and messages are received or lost, as the interface asks. `NonArq`: purge is called
for ever, so what is incomplete expires. In `Services`, `Streams` and `MCServices` each of these holds
of the component that runs. `NodeSession` has safety and action properties only: nothing in the
code bounds how long peers and clients go on.

## Proofs

All theorems hold for every value of the constants that satisfies the named
assumptions of the module: `SeqAssumption` and `LinkAssumption`, `CasAssumption` and
`NoneIsNoState`, `ExpeditedAssumption`, `SessionAssumption`; of `Services` also
`ManagementAssumption`, `NonArqAssumption`, `SisAssumption`, `SegmentsAssumption` and
`ModemAssumption`, of `Streams` `EndpointAssumption`, which say that bounds are numbers and that
`None` is no value, and `ReadersAssumption`, which says which readers there are; of `Codecs`
`DpdusAssumption`, which says that the D_PDUs are ones that `encode_dpdu` encodes. What a
theorem needs beyond these is a hypothesis of its own, named here.

`ArqLink_proofs`: `TypeCorrect`, that is `Spec => []TypeOK`. The types alone are
not inductive: `TxConfirm` removes the head of the queue, which must exist, and
`TxRetransmit` increments a retry count, which must be below the limit. The first
is a fact about the states: `BusyHasHead`, an engine in WAIT_ACK has the C_PDU in
progress at the head of its queue. `IInv == TypeOK /\ BusyHasHead` is inductive;
the proof has a lemma for each action, resting on lemmas on the sequence
arithmetic, on `Transmit`, `Start`, `Resend` and on reassembly. Its first part is addition,
distance, window membership and slots modulo `SeqMod`, as the
other proofs need them: the distance of a sum, positions of one window that are told apart
by their numbers and by their slots, numbers before a window that are not in it.

`ArqDelivery_proofs`: on links that are `Benign`, `DeliveryInOrder`
(`[]InOrderExactlyOnce`), `EdgesStayInStep` (`[]WindowsInStep`), `AcknowledgedIsHeld`
(`[]AckedIsHeld`), `ConfirmedIsDelivered` (`[]AckMeansDelivered`), `StoredFragmentsStay`
(`StoredIsKept`) and `DeliveryRefines`: each direction implements `ReliableDelivery`.
`Benign` says that no payload is damaged and that a node whose peer opens with a FULL RESET
submits nothing. Both are needed: `arq_damage_loses` shows what damage does, and a FULL
RESET wipes the queue of the node that is called. `arq_data` is an instance that
satisfies it, as is a caller alone with data on a link that only loses. Losses,
time-outs, retransmissions and give-up are all in; after a reported failure nothing is promised.

The inductive invariant is `DeliveryInv` on top of `IInv`: as long as the link is up, for
each direction, with positions counted from the first number of the window in progress,

- `QueueOK`: the queue is the end of what was submitted, the rest is confirmed;
- `SenderOK`, `ReceiverOK`: the slots hold the fragments of the window, the receiver's
  edge lies between the sender's lower edge and the end of the window, and of a C_PDU
  handed over nothing is left in the receiver's window;
- `DeliveredOK`: handed over are the C_PDUs that left the queue and, from the moment it is
  complete, the one in progress;
- `HeldOK`: what is acknowledged at the sender, the receiver has;
- `DataOK`: a fragment on its way belongs to the window, or it is an old one, and then the
  receiver is still at the beginning of the window, only old ones come before it, and its
  number is one of the `Window` numbers before the window, which the receiver refuses; this is
  where `SeqMod >= 2 * Window` is used;
- `AcksOK`: an acknowledgement on its way says no more than the receiver has and no less than
  the sender knows, and a later one says no less than an earlier one;
- `ResetsOK`: a reset on its way finds engines not yet used.

One lemma per action carries each part over, by the direction in which the acting node
sends and the one in which it receives.

`CasLink_proofs`: `TypeCorrect`, `OneCallAtATime` (`[]CallIsPrimary`) and
`ExclusiveCallsAreAlone` (`[]CalledExclusiveIsAlone`). The second is not
inductive: an accepted nonexclusive call would break it if an exclusive link
that was called had come up meanwhile. `NonexclusiveCallIsFree` says it cannot:
while a nonexclusive call is under way the node has no such link, because
`make_link` refuses the call while there is one and a second call cannot start
before the first ends (`CallIsPrimary`). `IInv` is the conjunction of `TypeOK`,
the two properties and `NonexclusiveCallIsFree`.

`ViewIsServed` (`Spec => ServesView`) is the refinement of `CasView`. A step of `CasLink` concerns a link that may or may not be the primary one, and the
argument is that a link that goes away or changes state and is not primary does not
show. It needs `PrimaryIsLink`: the primary remote, when there is one, is a link the node
has (else a call of a forgotten primary would make the view jump); and it uses
`CallIsPrimary` for the timers of a call. One lemma per action, each by cases on whether the link is primary.

`CallersAreRight` (`[]GhostsAreUnheard`) is about two nodes and what is in the air between
them. Its invariant `CallersTrust` says of every pair whose `unheard` is not set (`Trusts`):
a node that calls, or has called, has no break of its own on its way, which the peer
would take for the end of the new link; an acceptance on its way to a node that calls is
backed, that is the peer calls or has the link, or a break comes behind the acceptance; and so is a
link the node has called. When nothing comes from the peer any more, backed means that
the peer has the link or is calling.

`ExpeditedLink_proofs`, with data in both directions at once: `TypeCorrect`,
`NothingMissing` (`[]NothingIsMissing`) and `AcknowledgedIsDelivered` (`[]AckMeansDelivered`).
The last two hold as long as `NumbersSuffice`: the numbers a sender has given up since
one of its segments was acknowledged are fewer than the numbers there are. It is needed.
An acknowledgement names the next number only; when the numbers given up come round while
an old acknowledgement is on the air, that acknowledgement confirms a segment the receiver
never had. With three numbers, giving up one C_PDU of three segments is enough; in the
program it takes 255 segments. `NumbersSufficeForFew` shows that the hypothesis is met whenever
the segments of a session are fewer than the numbers (`FewSegments`); `expedited` is within it
by what its sender can give up. The inductive invariant is `DeliveryInv`, for each direction:

- `QueueOK`, `SenderOK`: the queue is the end of what was submitted, and the segment under way and
  those after it are the last ones of the C_PDU before it;
- `AirOK`, `OrderOK`: segments on their way belong to numbers not after the one under way, and
  each one is the last one again or the next in its C_PDU;
- `ReadyOK`: the receiver has what comes before the first segment on its way, or has begun with
  nothing, so that it will refuse it;
- `CollectedOK`, `DeliveredOK`: what is collected, and each C_PDU delivered, runs from a first
  segment without a gap, a segment perhaps twice;
- `AcksOK` and `Answered => Confirmed`: no acknowledgement names a number after the one
  under way, and one that names the next number exists only when the receiver has taken
  the segment under way, or delivered its C_PDU;
- `DoneOK`: what was acknowledged to the end was delivered.

`NodeSession_proofs`: `OwnershipHolds` (`[]InitiatorAsked`), `SoftLinksEnd` and
`NothingEndsSilently` (action properties). For the first, `OwnerAsked` drops the condition
that the link is active: the client a hard session names has asked for the node it names,
also while it is being established or terminated. For the second, what a poll may miss
matters: `NewCallIsHard` says that a call under way before the old link was seen to go
is of a hard link (a soft one is made at the end of a tick only, when the link the monitor
saw is the link there is), `MonitorKnows` that the view does not change after the monitor
has looked. The S_PDU
handlers are shown to give no hard link another owner (`Named`), to keep a settled session
settled and to tell the clients what they end (`Tells`); one lemma per handler and
per client call. `InputType` types the view and the two queues of S_PDUs. `TypeCorrect`
(`[]TypeOK`) and `NoUpduIsLost` (`UpdusAreAccounted`) are about the rest of the state. The
first types what every S_PDU handler and every call leaves, hands down and tells. The
second rests on what `Kept` keeps: the U_PDUs at the places that stay, each of them once;
places are counted by an injection of a finite set into `1 .. n`, so that no induction over the queue is
needed.

`Services_proofs`, by component:

- *DTS*. `ConnectedHolds` (`[]ConnectedWhileMade`): connected exactly while the
  last poll saw the link made, but for a link that was up at the first poll. Exchanges nest
  through one remembered state, so the invariant needs `ReturnsToThisLink`: what is
  remembered is as connected as the state there is; and `MissedWhileMade`: the exception
  ends with its link.
- *Management*. `ManagedHolds` (`[]ManagedOnce`) as long as `MgNumbersSuffice`: since a message
  was acknowledged, fewer messages in a row were given up than there are numbers. It
  is needed: an acknowledgement names a number only, and one that is late confirms the message that
  has that number by then. `ManagedOfFew`: it holds whenever the
  messages of a run are no more than the numbers, as in `services`. The
  invariant `MgIInv` says that messages are numbered in turn while the sender runs, that the queue, the
  air and what is delivered are in the order of submission, copies behind each other
  (`MgQueueInTurn`, `MgAirInTurn`, `MgDeliveredInTurn`, `MgDeliveredFirst`), that the receiver remembers the
  message delivered last (`MgRemembered`), and that the acknowledgements on their way are of
  delivered messages, each no earlier than the one before and than any message acknowledged
  (`MgAcksInTurn`, with a witness for each).
- *Non-ARQ*. `CompleteHolds` (`[]CompleteIsOneCpdu`), however soon a number comes round and with both
  types of D_PDU. The invariant says that all that is left of a C_PDU, queued, on the air or in parts,
  carries its number and size (`NaTold`); that two C_PDUs of which something is left under one number
  are both in `met` (`NaMeet`); and that a unit is kept in its place, that no entry is kept with nothing in it, and
  that what is kept under another size than its own is of a C_PDU in `met` (`NaPlaces`): the
  first unit fixes the size, and every other one is of the same C_PDU or of one that met it.
- *Socket server*. `OwnersAreUnique` (`[]OneOwner`) and `AcceptedAreServed`
  (`[]AcceptedIsServed`): what the three kinds of `granted` give a client (`RsRanked`, `RsKept`,
  `RsManaged`). A node that does not allow management binds no SAP with that rank, so that a client
  that passes for management was accepted over a refusal. A client that leaves clears its SAP in the server's table and in the
  node, and nothing in the code asks whether the SAP is still its own; it is, because
  `RsFreshIsUnbound` and `RsOwned` leave no stale SAP in a connection, and because after `stop`,
  which empties the table under connections that still end later, nobody else is served
  (`RsStoppedIsEmpty`).
- *Segments*. `WholeHolds` (`[]OnlyWholeMessages`), however soon an identifier is used again. A
  segment says nothing of its message but the identifier, so messages that meet under one are
  joined; the property excepts those, and the invariant says which: messages sent
  differ in their numbers (`SgSentInTurn`), a segment is held in its place (`SgPlaces`), and of two
  messages with segments under way or held with one identifier the later is in `met` (`SgMeet`).
  So what is held with a message that is not in `met` is of it alone. With as
  many segments as the number of the short one says, none is missing: a set
  of that size in that interval is the interval. `LastSegmentCompletes` (`LastCompletes`,
  an action property) needs only the first two parts, and that
  deliveries are a sequence.
- *110D modem*. `PacketsTaken` (`[]PacketsAreTaken`), for any number of windows, packets and lost
  connections. What the sender knows of the modem is the oldest of a row of statuses, the
  newest of which is the modem's own state. The invariant says

  - `Inbox`: for each state of the modem, what is on its way to it: before it is armed only
    commands to arm, or spent packets before them; armed, commands and then the beginning of one
    window; in a window, the rest of it; at the end, only what is spent;
  - `Statuses`: behind a FLUSHED in the row there is nothing beyond READY until the sender
    knows of it, and in a window there is no FLUSHED in the row: so a sender that waits for READY and sees it sees
    the READY of its own command;
  - `Sending`: a sender in the middle of a window is in the one the modem is in, or in one that the
    modem gave up;
  - `Numbers`: a window that waits is after all the modem has heard of.

`Streams_proofs`: `ChunksAreOne` (`[]ChunksDoNotMatter`), for streams of any length, C_PDUs of any
size and any number of pieces and repeats. It is about two components.

- *Readers*. What has been taken out and what is still in the buffer are what one pass over all that has come
  gives (`BsInv`). It rests on what one pass does with a stream and a piece appended to it: a
  message that is found stays found (`DpduReassembler`, `PacketReader` look at nothing behind
  the end of a message), and what a pass keeps, it finds again from the same place when more has
  come. The reader of S_PRIMITIVEs (`"primitive"`) keeps nothing of a preamble cut in two: how its stream
  is cut does matter, and it is not among the kinds of `ReadersAssumption`.
- *Endpoint*. `NeInv`: the segments under way are pieces of the C_PDU that has their number; the ranges of
  an entry are in order, apart from each other and not adjacent, and tell exactly the bytes of
  the segments received; an entry whose ranges cover its size is one range. The merge is a loop
  over the ranges in order; `MergeStepInv` is its invariant: what is merged so far ends
  before what comes, and tells the same bytes.

`Codecs_proofs`: `DamageSeen` (`CodecsSpec => []DamageIsSeen`), and the theorem it rests
on and the one that gives it its weight, of every D_PDU that is `Encodable`: addresses of 28 bits and a header
length of at most 31, as `Address` and `_header_without_crc` enforce, and octets for data.

- `IntactIsAccepted`: what `encode_dpdu` sends passes the check `decode_dpdu` makes. The octets of a
  header are those of its layout: every piece of the ten types, the addresses of any size and
  the acknowledgements or the message behind them fill octets, so that `decode_dpdu` finds the
  check where `encode_dpdu` put it, and the bits of the check read back.
- `BurstIsSeen`: any pattern of at most 16 bits in a row, inverted anywhere in the header, the
  addresses or the check but for the two lengths, makes the check fail; TLC tries five patterns, on one
  D_PDU of each type. The registers over the message sent and over the message received are followed
  bit by bit. They are equal up to the first inverted bit; from there on they are `Apart`: what they
  differ in is never just what is left of the burst. A shift keeps that: when the bit shifted out differs
  by the burst only, what differed elsewhere has moved on, and when it differs otherwise, the
  polynomial, which has the top bit, shows it at a place behind the burst. Where the header ends,
  the check received is the register of what was sent but for what is left of the burst, and so it
  is not the register of what was received. A burst within the check is the case of equal registers.

The provers have no induction over data by the library's theorems, for these take an operator as a
parameter. What is needed here is had from the least number instead: of a set of
numbers that has an element there is a least one (`LeastNumber`, from the well-foundedness of
the order of numbers, whose statement is about sets), so a set that has 0, and with every
number the next, has them all (`AllNumbers`; `UpTo` in `Codecs_proofs`, up to a bound). The recursive definitions these proofs are about are recursive functions over
numbers.

Only model-checked:

- Liveness: `HandshakeCompletes`, `EveryCpduResolved`, `ChangesEnd`, `HalfOpenEnds`,
  `RegularResumes`, `ExpeditedEnds`, `SlaveIsFreed`, `PartsAreDropped`. They rest on
  fairness, whose proof needs ENABLED, which the provers do not handle.
- `MessagesReadBack`, that thirteen formats read back. For each it takes the places of all fields in all
  layouts, what a decoder reads of every one of them, and divisions by powers of two of the
  values that straddle octets: what is proved in `Codecs_proofs` of the header of D_PDUs up to its length, for
  each field of each format anew. CRC-32, which guards user data, is in it as well: `DamageIsSeen` is
  about the header.
- `InOrderExactlyOnce` in `arq_handshake` on a link that damages: `DeliveryInOrder` has the opening FULL RESET
  and any load of the caller, but is about `Benign` links.

## Plan

Done: the engines (`ArqLink`, `CasLink`, `ExpeditedLink`), the node above them (`CasView`,
`NodeSession`, `NodeDts`), the components around the link, and the proofs above.

All safety invariants and action properties of the passing runs are proved, but for
`MessagesReadBack`, and those of the ARQ on links that damage payloads. Next to prove: that a caller's opening FULL RESET keeps the order of
delivery without the condition that its peer submits nothing, with the messages
that the reset throws away accounted for; what `NumbersSuffice` asks for, from the
retry limits and the greatest delay on the air.

Next to model: two whole sessions against each other, for late answers to a hard link request;
the ARQ and expedited engines across a change of the link's peer; data in both directions
across the opening FULL RESET; HF-POP3.

## Not modelled

- User interfaces, the tunnel, logging: input and output only.
- The UDP and HF modem adapters: they move whole frames; the models take the air as a
  queue that may lose.
- HF-POP3 and its mailbox: a client and a server over text lines, of the kind of HMTP
  (`TextMail`), with files behind it; not done yet.
- `subnet_mgmt`, `orderwire`, `fab`, `unack_message` and the dispatcher of Annex F: they
  pass data on and keep no state worth a property.
- The classes of `bitbuffer.py`: a `Layout` says directly which bit goes where. The text
  dump of D_PDUs: wording.
- In the ARQ: commands this program answers and never sends, frame types it never
  produces, C_PDUs of more fragments than the window. In the node: management ranks of
  messages, several CAS links at once, the peer's session. In the socket server: the content
  of requests. In the 110D adapter: keep-alives, carrier detect, received data,
  configuration. `PROJECT.json` ("components") says it for each component.

## Running

    tlc -config arq_data.cfg MCArqLink      # and likewise the other runs
    tlapm ArqLink_proofs.tla               # and likewise the other *_proofs modules
