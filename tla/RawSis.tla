-------------------------------- MODULE RawSis --------------------------------
(***************************************************************************)
(* The socket server of a node (raw_sis_socket.py): clients connect over   *)
(* TCP, bind a SAP and are served under it.  Three tables must agree: the  *)
(* SAP a connection believes it has, _sap_to_conn that indications are     *)
(* routed by, and the SAPs of the node itself.  The event loop runs each   *)
(* handler to its end.  Requests other than bind and unbind leave the      *)
(* tables alone.  The host unbinds no SAP, and the limit of expedited      *)
(* requests, which can cost a client its SAP, is off (the default).        *)
(***************************************************************************)
EXTENDS Naturals, FiniteSets

CONSTANTS
  Saps, Ranks,
  None,
  Host,            \* the application the node belongs to
  ReservedSap, ManagementRank,
  AllowManagement, \* the node's allow_management_rank
  NoRank,          \* the rank of a connection that has not bound a SAP yet (0)
  MaxConnections,
  MaxClients       \* bound: connections ever made

VARIABLES
  counter,     \* _conn_counter
  conns,       \* the keys of _connections
  closing,     \* connections whose task has not ended after stop
  running,     \* the server accepts connections
  boundSap,    \* bound_sap of each connection
  rank,        \* rank of each connection
  owner,       \* _sap_to_conn
  node,        \* node._saps: the rank a SAP is bound with
  callback,    \* the host has registered a bind_rejected callback
  granted      \* history: what the last bind of a connection rests on
vars == <<counter, conns, closing, running, boundSap, rank, owner, node, callback, granted>>

Clients == 1 .. MaxClients
(* A bind that is accepted was made by the node; or the node refused it    *)
(* but has the SAP already; or it told the callback and nobody else.       *)
Grants == {"node", "existing", "callback"}
TypeOK ==
  /\ counter \in 0 .. MaxClients
  /\ conns \subseteq 1 .. counter /\ closing \subseteq 1 .. counter /\ running \in BOOLEAN
  /\ boundSap \in [Clients -> Saps \cup {None}]
  /\ rank \in [Clients -> Ranks \cup {NoRank}]
  /\ owner \in [Saps -> Clients \cup {None}]
  /\ node \in [Saps -> Ranks \cup {None}]
  /\ callback \in BOOLEAN
  /\ granted \in [Clients -> Grants \cup {None}]

Init ==
  /\ counter = 0 /\ conns = {} /\ closing = {} /\ running = TRUE
  /\ boundSap = [c \in Clients |-> None]
  /\ owner = [s \in Saps |-> None]
  /\ node = [s \in Saps |-> None]
  /\ rank = [c \in Clients |-> NoRank]
  /\ callback = FALSE
  /\ granted = [c \in Clients |-> None]
-----------------------------------------------------------------------------
(* _handle_client, up to its loop: one too many is closed at once.         *)
Connect ==
  /\ running /\ counter < MaxClients
  /\ Cardinality(conns) < MaxConnections
  /\ counter' = counter + 1
  /\ conns' = conns \cup {counter + 1}
  /\ UNCHANGED <<closing, running, boundSap, rank, owner, node, callback, granted>>

\* Mutant of AlreadyBound: it is left to the node to refuse a second client.
AlreadyBoundNever(s) == FALSE
(* _handle_bind_request: the SAP belongs to a connection.                  *)
AlreadyBound(s) == owner[s] # None

(* StanagNode.bind: what is refused otherwise is told to the bind_rejected *)
(* callback, and -1 is returned; without a callback it raises.             *)
NodeBinds(s, r) ==
  /\ node[s] = None
  /\ r = ManagementRank => AllowManagement
  /\ s = ReservedSap => AllowManagement

\* The host binds a SAP of its own.
HostBind(s, r) ==
  /\ NodeBinds(s, r)
  /\ node' = [node EXCEPT ![s] = r]
  /\ UNCHANGED <<counter, conns, closing, running, boundSap, rank, owner, callback, granted>>

\* register_callbacks.
HostRegister ==
  /\ callback' = TRUE
  /\ UNCHANGED <<counter, conns, closing, running, boundSap, rank, owner, node, granted>>

\* Mutant of Grant: the node is not asked about a SAP it has nothing against.
GrantAnyRank(s, r) == IF node[s] = None THEN "node" ELSE "existing"
(* What node.bind leads to: a refusal that raises is overridden for a SAP  *)
(* the node has already, and one that does not raise goes unnoticed.       *)
Grant(s, r) ==
  IF NodeBinds(s, r) THEN "node"
  ELSE IF callback THEN "callback"
  ELSE IF node[s] # None THEN "existing" ELSE "refused"

(* _handle_bind_request: the connection has the rank it asked for, be it   *)
(* that of the SAP or not.                                                 *)
Bind(c, s, r) ==
  /\ c \in conns \cup closing
  /\ ~AlreadyBound(s)
  /\ Grant(s, r) # "refused"
  /\ boundSap' = [boundSap EXCEPT ![c] = s]
  /\ rank' = [rank EXCEPT ![c] = r]
  /\ owner' = [owner EXCEPT ![s] = c]
  /\ node' = [node EXCEPT ![s] = IF Grant(s, r) = "node" THEN r ELSE @]
  /\ granted' = [granted EXCEPT ![c] = Grant(s, r)]
  /\ UNCHANGED <<counter, conns, closing, running, callback>>

Forget(c) == boundSap' = [boundSap EXCEPT ![c] = None]
(* _handle_unbind_request: the node keeps the SAP, the connection its rank.*)
Unbind(c) ==
  /\ c \in conns \cup closing /\ boundSap[c] # None
  /\ owner' = [owner EXCEPT ![boundSap[c]] = None]
  /\ Forget(c)
  /\ UNCHANGED <<counter, conns, closing, running, rank, node, callback, granted>>

\* _handle_management_msg, which asks for the rank alone.
MayManage(c) == rank[c] = ManagementRank

(* _cleanup_client, at the end of the connection's task: the connection is *)
(* forgotten with all that it has.                                         *)
Disconnect(c) ==
  /\ c \in conns \cup closing
  /\ owner' = [s \in Saps |-> IF s = boundSap[c] THEN None ELSE owner[s]]
  /\ node' = [s \in Saps |-> IF s = boundSap[c] THEN None ELSE node[s]]
  /\ conns' = conns \ {c} /\ closing' = closing \ {c}
  /\ boundSap' = [boundSap EXCEPT ![c] = None]
  /\ rank' = [rank EXCEPT ![c] = NoRank] /\ granted' = [granted EXCEPT ![c] = None]
  /\ UNCHANGED <<counter, running, callback>>

(* stop: the tables are cleared, the tasks of the connections end later.   *)
Stop ==
  /\ running /\ running' = FALSE
  /\ closing' = conns /\ conns' = {}
  /\ owner' = [s \in Saps |-> None]
  /\ UNCHANGED <<counter, boundSap, rank, node, callback, granted>>

Next ==
  \/ Connect \/ Stop \/ HostRegister
  \/ \E c \in Clients : \/ Unbind(c) \/ Disconnect(c)
                        \/ \E s \in Saps, r \in Ranks : Bind(c, s, r)
  \/ \E s \in Saps, r \in Ranks : HostBind(s, r)
Spec == Init /\ [][Next]_vars
-----------------------------------------------------------------------------
(* _conn_for_sap, and the host where there is no connection.               *)
Recipient(s) == IF owner[s] \in conns THEN owner[s] ELSE Host

(* A client that binds a SAP gets what comes for it until it unbinds or    *)
(* leaves, whatever other clients bind, unbind, rebind or leave meanwhile: *)
(* no two clients are on one SAP and nothing for it goes to another client *)
(* or the host (_handle_bind_request, _conn_for_sap).                      *)
OneOwner == \A c \in conns : boundSap[c] # None => Recipient(boundSap[c]) = c

(* While a client holds a SAP the node made for it, the node has that SAP  *)
(* with the rank its management messages are checked against; while it     *)
(* holds one the node had already, the node still has it: no departure of  *)
(* another client, earlier or later, takes it away.  And where management  *)
(* is not allowed, whoever passes for it was accepted over a refusal of    *)
(* the node (_handle_bind_request, _cleanup_client,                        *)
(* _handle_management_msg).                                                *)
AcceptedIsServed ==
  \A c \in conns :
    /\ boundSap[c] # None /\ granted[c] = "node" => node[boundSap[c]] = rank[c]
    /\ boundSap[c] # None /\ granted[c] = "existing" => node[boundSap[c]] # None
    /\ MayManage(c) => AllowManagement \/ granted[c] \in {"existing", "callback"}
=============================================================================
