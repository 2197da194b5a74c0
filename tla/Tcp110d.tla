------------------------------- MODULE Tcp110d --------------------------------
(***************************************************************************)
(* The adapter to a 110D modem over TCP (tcp_110d_adapter.py): one thread  *)
(* connects and receives, one sends the windows of the node, and what the  *)
(* sender knows of the modem is the last Tx_Status that was received,      *)
(* which is not reset between connections.  The modem is the one of        *)
(* MIL-STD-188-110D, Annex A, as tests/mock_110d_modem.py plays it.        *)
(*                                                                         *)
(* After a connection is lost the next one is at least half a second away  *)
(* (reconnect_backoff_initial), so the sender has noticed by then.         *)
(***************************************************************************)
EXTENDS Naturals, Sequences

CONSTANTS
  MaxPackets,  \* bound: packets of one window
  MaxWindows,  \* bound: windows the node sends
  MaxDrops,    \* bound: connections lost
  MaxStarts    \* bound: TRANSMIT_STARTs repeated (start_retries)

VARIABLES
  connected,        \* _connected
  txState,          \* _tx_state
  queue, windows,   \* _tx_queue, and the windows ever put into it
  step, window,     \* where _transmit_window is, and with which window
  starts,
  toModem, toNode,  \* the two directions of the connection
  modem,            \* the modem: its state, and the window it has packets of
  dropped, refused, \* windows the modem gave up, windows it refused a packet of
  drops
sender == <<queue, windows, step, window, starts>>
modemVars == <<modem, dropped, refused>>
vars == <<connected, txState, sender, toModem, toNode, modemVars, drops>>

States == {"FLUSHED", "NOT_READY", "READY", "STARTED", "DRAINING_OK", "DRAINING_FORCED"}
Steps == {"idle", "wait_flushed", "wait_ready", "wait_started", "rest", "wait_drained"}
NewModem == [state |-> "FLUSHED", no |-> 0]
NoWindow == [no |-> 0, n |-> 0, next |-> 0]

TypeOK ==
  /\ connected \in BOOLEAN /\ txState \in States /\ step \in Steps
  /\ modem.state \in States /\ modem.no \in 0 .. MaxWindows
  /\ windows \in 0 .. MaxWindows /\ drops \in 0 .. MaxDrops /\ starts \in 0 .. MaxStarts

Init ==
  /\ connected = FALSE /\ txState = "FLUSHED"
  /\ queue = <<>> /\ windows = 0 /\ step = "idle" /\ window = NoWindow /\ starts = 0
  /\ toModem = <<>> /\ toNode = <<>>
  /\ modem = NewModem /\ dropped = {} /\ refused = {}
  /\ drops = 0
-----------------------------------------------------------------------------
(* The connection.  _do_handshake, and what the modem sends after it: it   *)
(* is FLUSHED at every new connection.                                     *)
Connect ==
  /\ ~connected /\ step = "idle"
  /\ connected' = TRUE
  /\ modem' = NewModem
  /\ toNode' = <<"FLUSHED">>
  /\ UNCHANGED <<txState, sender, toModem, dropped, refused, drops>>

(* _run_rx_loop ends: the socket fails, an ERROR came, or the keep-alive   *)
(* thread gave up (_run_keepalive, _force_disconnect).                     *)
Drop ==
  /\ connected /\ drops < MaxDrops
  /\ connected' = FALSE /\ drops' = drops + 1
  /\ toModem' = <<>> /\ toNode' = <<>>
  /\ UNCHANGED <<txState, sender, modemVars>>

(* _dispatch_packet, _on_tx_status.                                        *)
OnTxStatus ==
  /\ connected /\ toNode # <<>>
  /\ txState' = Head(toNode) /\ toNode' = Tail(toNode)
  /\ UNCHANGED <<connected, sender, toModem, modemVars, drops>>
-----------------------------------------------------------------------------
(* modem_tx_burst.                                                         *)
Burst(n) ==
  /\ windows < MaxWindows
  /\ windows' = windows + 1
  /\ queue' = Append(queue, [no |-> windows + 1, n |-> n, next |-> 1])
  /\ UNCHANGED <<connected, txState, step, window, starts, toModem, toNode, modemVars, drops>>

(* _run_tx_worker: a window is dropped when no connection comes up in time.*)
Take ==
  /\ step = "idle" /\ queue # <<>> /\ connected
  /\ step' = "wait_flushed" /\ window' = Head(queue) /\ queue' = Tail(queue) /\ starts' = 0
  /\ UNCHANGED <<connected, txState, windows, toModem, toNode, modemVars, drops>>
Discard ==
  /\ step = "idle" /\ queue # <<>> /\ ~connected
  /\ queue' = Tail(queue)
  /\ UNCHANGED <<connected, txState, windows, step, window, starts, toModem, toNode, modemVars, drops>>

(* orders of _transmit_window.                                             *)
Order(w, i) ==
  CASE w.n = 1 -> "FIRST_AND_LAST"
    [] w.n # 1 /\ i = 1 -> "FIRST_ONLY"
    [] w.n # 1 /\ i = w.n -> "LAST"
    [] OTHER -> "CONTINUATION"
Command(name) == [command |-> name, no |-> window.no, order |-> "none"]
Data(from, to) ==
  [k \in 1 .. to - from + 1 |->
     [command |-> "DATA", no |-> window.no, order |-> Order(window, from + k - 1)]]
Continue(next, sent, packets) ==
  /\ connected
  /\ step' = next
  /\ window' = [window EXCEPT !.next = sent]
  /\ toModem' = toModem \o packets
  /\ UNCHANGED <<connected, txState, queue, windows, starts, toNode, modemVars, drops>>

\* Mutant of MayArm: what the modem does is not asked.
MayArmAlways == TRUE
(* 1. FLUSHED, 2. ARM.                                                     *)
MayArm == txState = "FLUSHED"
Arm ==
  /\ step = "wait_flushed" /\ MayArm
  /\ Continue("wait_ready", 1, <<Command("ARM")>>)

(* 3. PORT_READY, the packets before START, as many as fill three blocks,  *)
(* never the last one, and 4. START.                                       *)
Prefill ==
  /\ step = "wait_ready" /\ txState = "READY"
  /\ IF window.n = 1 THEN Continue("rest", 1, <<>>)
     ELSE \E k \in 1 .. window.n - 1 :
            Continue("wait_started", k + 1, Data(1, k) \o <<Command("START")>>)

(* _wait_started: repeated, and after the last time given up.              *)
StartAgain ==
  /\ step = "wait_started" /\ starts < MaxStarts /\ connected
  /\ starts' = starts + 1
  /\ toModem' = Append(toModem, Command("START"))
  /\ UNCHANGED <<connected, txState, queue, windows, step, window, toNode, modemVars, drops>>
Started ==
  /\ step = "wait_started"
  /\ txState \in {"STARTED", "DRAINING_OK", "DRAINING_FORCED", "FLUSHED"} \/ starts = MaxStarts
  /\ Continue("rest", window.next, <<>>)

(* 5. The rest.                                                            *)
SendRest ==
  /\ step = "rest"
  /\ Continue("wait_drained", window.n + 1, Data(window.next, window.n))

ToIdle ==
  /\ step' = "idle" /\ window' = NoWindow
  /\ UNCHANGED <<connected, txState, queue, windows, starts, toModem, toNode, modemVars, drops>>
(* 6. FLUSHED again, or one of the time-outs of _wait_for.                 *)
Done == step = "wait_drained" /\ txState = "FLUSHED" /\ ToIdle
TimeOut == step \in {"wait_flushed", "wait_ready", "wait_drained"} /\ connected /\ ToIdle
(* _wait_for finds no connection, or _send raises: there is none any more, *)
(* or sendall timed out on one that stays.  The packets a step sends go out*)
(* together or not at all.                                                 *)
Abort == step # "idle" /\ ToIdle
-----------------------------------------------------------------------------
(* The modem.                                                              *)
ModemIs(state, no) ==
  /\ modem' = [state |-> state, no |-> no]
  /\ toNode' = IF connected THEN Append(toNode, state) ELSE toNode
Refuse(p) ==
  /\ refused' = refused \cup {p.no}
  /\ UNCHANGED <<modem, toNode, dropped>>
Takes ==
  /\ connected /\ toModem # <<>>
  /\ toModem' = Tail(toModem)
  /\ LET p == Head(toModem)
         isFirst == p.order \in {"FIRST_ONLY", "FIRST_AND_LAST"}
         isLast == p.order \in {"LAST", "FIRST_AND_LAST"}
     IN  \/ /\ p.command = "ARM"
            /\ IF modem.state = "FLUSHED" THEN \E s \in {"READY", "NOT_READY"} : ModemIs(s, 0)
               ELSE ModemIs(modem.state, modem.no)
            /\ UNCHANGED <<dropped, refused>>
         \/ /\ p.command = "START"
            /\ ModemIs(IF modem.state = "READY" THEN "STARTED" ELSE modem.state, modem.no)
            /\ UNCHANGED <<dropped, refused>>
         \/ /\ p.command = "DATA"
            \* Not armed, a first packet missing, or a second one.
            /\ IF \/ modem.state \notin {"READY", "STARTED"}
                  \/ modem.no # IF isFirst THEN 0 ELSE p.no
               THEN Refuse(p)
               ELSE IF isLast THEN ModemIs("DRAINING_OK", p.no) /\ UNCHANGED <<dropped, refused>>
               ELSE /\ modem' = [modem EXCEPT !.no = p.no]
                    /\ UNCHANGED <<toNode, dropped, refused>>
  /\ UNCHANGED <<connected, txState, sender, drops>>

Outside == UNCHANGED <<connected, txState, sender, toModem, refused, drops>>
PortReady == modem.state = "NOT_READY" /\ ModemIs("READY", 0) /\ Outside /\ UNCHANGED dropped
Drained ==
  /\ modem.state \in {"DRAINING_OK", "DRAINING_FORCED"}
  /\ ModemIs("FLUSHED", 0) /\ Outside /\ UNCHANGED dropped
\* It runs dry before the last packet of the window.
Underrun ==
  /\ modem.state = "STARTED"
  /\ ModemIs("DRAINING_FORCED", modem.no)
  /\ dropped' = dropped \cup {modem.no} /\ Outside

Next ==
  \/ Connect \/ Drop \/ OnTxStatus
  \/ (\E n \in 1 .. MaxPackets : Burst(n)) \/ Take \/ Discard
  \/ Arm \/ Prefill \/ StartAgain \/ Started \/ SendRest \/ Done \/ TimeOut \/ Abort
  \/ Takes \/ PortReady \/ Drained \/ Underrun
Spec == Init /\ [][Next]_vars
-----------------------------------------------------------------------------
(* What the sender believes of the modem is old by the time it acts on it, *)
(* and may be of an earlier connection; yet the modem refuses a packet     *)
(* (not armed, first packet missing, first packet twice) only of a window  *)
(* it gave up itself, whichever time-outs ran out before                   *)
(* (_transmit_window, _wait_for, _on_tx_status).                           *)
PacketsAreTaken == refused \subseteq dropped
=============================================================================
