---------------------------- MODULE NodeLifecycle ----------------------------
(***************************************************************************)
(* A node as an application of the simulator (model/blockchain-node.cc):   *)
(* it is configured by setters, started, stopped and disposed of, in       *)
(* between it announces blocks to its peers, and events it has scheduled   *)
(* come due.  Nothing keeps the setters before the start.                  *)
(***************************************************************************)
EXTENDS Integers, Sequences, SequencesExt, FiniteSets

CONSTANTS
  PeerLists,      \* the lists SetPeersAddresses may be given
  NoPeer,         \* the address 0.0.0.0: a block of the node's own
  InvKeys,        \* keys of announced blocks
  MaxAdverts,     \* bound on the calls of AdvertiseNewBlock
  MaxTransactions \* bound on the transactions a client creates

Peers == UNION {Range(list) : list \in PeerLists}

ASSUME LifecycleAssumption ==
  /\ NoPeer \notin Peers
  /\ PeerLists \subseteq Seq(Peers)
  /\ MaxTransactions \in Nat

CommitterTypes == {"COMMITTER", "ENDORSER", "CLIENT", "ORDER"}
ProtocolTypes == {"STANDARD_PROTOCOL", "SENDHEADERS"}
Factories == {"UdpSocketFactory", "TcpSocketFactory"}

VARIABLES
  phase,            \* "created", "started", "stopped" or "disposed"
  failed,           \* the program has died
  m_peersAddresses,
  m_peersSockets,   \* for each peer "none", "open" or "closed"
  m_socket,         \* "none", "listening" or "closed"
  recvCallback,     \* whether m_socket calls HandleRead
  m_nodeStats,      \* "unset" or "set"
  m_protocolType, m_committerType,
  m_local,          \* attribute Local: "multicast", or any other address
  m_tid,            \* attribute Protocol: what makes m_socket
  events,           \* the events the node has scheduled
  transactions,     \* history: number of transactions created
  adverts,          \* history: the announcements made before the stop
  sent,             \* history: for each peer, what was sent to it
  startPeers        \* history: the peers at the start

attributes == <<m_local, m_tid>>
config == <<m_nodeStats, m_protocolType, m_committerType, attributes>>
sockets == <<m_peersSockets, m_socket, recvCallback>>
history == <<adverts, sent, startPeers>>
vars == <<phase, failed, m_peersAddresses, sockets, config, events, transactions, history>>

\* The events a node schedules.
NextTransaction == <<"m_nextTransaction">>
InvTimeout(key) == <<"m_invTimeouts", key>>

Alive == ~failed /\ phase # "disposed"

-----------------------------------------------------------------------------
(* Configuration.                                                          *)

\* No constructor sets m_nodeStats, m_protocolType and m_committerType: the
\* last two hold some value of their types, or read as one.  The attributes are
\* given by the simulation's script.
Init ==
  /\ phase = "created"
  /\ failed = FALSE
  /\ m_peersAddresses = <<>>
  /\ m_peersSockets = [p \in Peers |-> "none"]
  /\ m_socket = "none"
  /\ recvCallback = FALSE
  /\ m_nodeStats = "unset"
  /\ m_protocolType \in ProtocolTypes
  /\ m_committerType \in CommitterTypes
  /\ m_local \in {"multicast", "other"}
  /\ m_tid \in Factories
  /\ events = {}
  /\ transactions = 0
  /\ adverts = <<>>
  /\ sent = [p \in Peers |-> <<>>]
  /\ startPeers = {}

SetPeersAddresses(peers) ==
  /\ Alive
  /\ m_peersAddresses' = peers
  /\ UNCHANGED <<phase, failed, sockets, config, events, transactions, history>>

SetNodeStats ==
  /\ Alive
  /\ m_nodeStats' = "set"
  /\ UNCHANGED <<phase, failed, m_peersAddresses, sockets, m_protocolType, m_committerType,
                 attributes, events, transactions, history>>

SetProtocolType(type) ==
  /\ Alive
  /\ m_protocolType' = type
  /\ UNCHANGED <<phase, failed, m_peersAddresses, sockets, m_nodeStats, m_committerType,
                 attributes, events, transactions, history>>

SetCommitterType(type) ==
  /\ Alive
  /\ m_committerType' = type
  /\ UNCHANGED <<phase, failed, m_peersAddresses, sockets, m_nodeStats, m_protocolType,
                 attributes, events, transactions, history>>

\* A write through m_nodeStats when it is not set goes anywhere: it may end the
\* program or pass unnoticed.
WritesStats == failed' \in (IF m_nodeStats = "unset" THEN BOOLEAN ELSE {FALSE})

-----------------------------------------------------------------------------
(* Start, stop and disposal.                                               *)

\* The socket that listens is to join a multicast group, and is not of UDP.
CannotJoin == m_local = "multicast" /\ m_tid # "UdpSocketFactory"

\* The rest of the start: the callback, one connection per peer, the statistics;
\* a client creates its first transaction, which schedules the next.
Connect(peers) ==
  /\ recvCallback' = TRUE
  /\ m_peersSockets' = [p \in Peers |-> IF p \in peers THEN "open" ELSE m_peersSockets[p]]
  /\ WritesStats
  /\ IF m_committerType = "CLIENT" /\ transactions < MaxTransactions
     THEN events' = events \cup {NextTransaction} /\ transactions' = transactions + 1
     ELSE UNCHANGED <<events, transactions>>
  /\ startPeers' = Range(m_peersAddresses)

\* Variant: only the first peer is connected to.
StartUnconnected ==
  /\ Alive /\ phase = "created"
  /\ phase' = "started"
  /\ m_socket' = "listening"
  /\ IF CannotJoin
     THEN failed' = TRUE /\ UNCHANGED <<recvCallback, m_peersSockets, events, transactions, startPeers>>
     ELSE Connect({Head(Append(m_peersAddresses, NoPeer))})
  /\ UNCHANGED <<m_peersAddresses, config, adverts, sent>>

\* The listening socket, where NS_FATAL_ERROR ends the program if it cannot join
\* its group, and then the rest.
StartApplication ==
  /\ Alive /\ phase = "created"
  /\ phase' = "started"
  /\ m_socket' = "listening"
  /\ IF CannotJoin
     THEN failed' = TRUE /\ UNCHANGED <<recvCallback, m_peersSockets, events, transactions, startPeers>>
     ELSE Connect(Range(m_peersAddresses))
  /\ UNCHANGED <<m_peersAddresses, config, adverts, sent>>

\* operator[] makes a null pointer for a peer without a socket.
HasNullSocket(peers) == \E p \in Range(peers) : m_peersSockets[p] = "none"

\* Variant: the next transaction stays scheduled.
StopKeepsTransaction ==
  /\ Alive /\ phase = "started"
  /\ phase' = "stopped"
  /\ IF HasNullSocket(m_peersAddresses)
     THEN failed' = TRUE /\ UNCHANGED <<sockets, events>>
     ELSE /\ m_peersSockets' = [p \in Peers |->
               IF p \in Range(m_peersAddresses) THEN "closed" ELSE m_peersSockets[p]]
          /\ m_socket' = "closed"
          /\ recvCallback' = FALSE
          /\ UNCHANGED events
          /\ WritesStats
  /\ UNCHANGED <<m_peersAddresses, config, transactions, history>>

\* Variant: the callback stays set.
StopKeepsCallback ==
  /\ Alive /\ phase = "started"
  /\ phase' = "stopped"
  /\ IF HasNullSocket(m_peersAddresses)
     THEN failed' = TRUE /\ UNCHANGED <<sockets, events>>
     ELSE /\ m_peersSockets' = [p \in Peers |->
               IF p \in Range(m_peersAddresses) THEN "closed" ELSE m_peersSockets[p]]
          /\ m_socket' = "closed"
          /\ UNCHANGED recvCallback
          /\ events' = events \ {NextTransaction}
          /\ WritesStats
  /\ UNCHANGED <<m_peersAddresses, config, transactions, history>>

\* Closes the sockets of the peers there are now, and the listening one, and
\* cancels the next transaction.  The INV timers go on.
StopApplication ==
  /\ Alive /\ phase = "started"
  /\ phase' = "stopped"
  /\ IF HasNullSocket(m_peersAddresses)
     THEN failed' = TRUE /\ UNCHANGED <<sockets, events>>
     ELSE /\ m_peersSockets' = [p \in Peers |->
               IF p \in Range(m_peersAddresses) THEN "closed" ELSE m_peersSockets[p]]
          /\ m_socket' = "closed"
          /\ recvCallback' = FALSE
          /\ events' = events \ {NextTransaction}
          /\ WritesStats
  /\ UNCHANGED <<m_peersAddresses, config, transactions, history>>

DoDispose ==
  /\ Alive
  /\ phase' = "disposed"
  /\ m_socket' = "none"
  /\ UNCHANGED <<failed, m_peersAddresses, m_peersSockets, recvCallback, config, events,
                 transactions, history>>

-----------------------------------------------------------------------------
(* Between start and stop, and after.                                      *)

\* Variant: the announcement also goes to the peer the block came from.
TargetsAll(source) == DOMAIN m_peersAddresses

\* The positions of the peers an announcement of a block from that source goes to.
Targets(source) == {i \in DOMAIN m_peersAddresses : m_peersAddresses[i] # source}

\* Those before the first one without a socket.
Reached(targets) ==
  {i \in targets : \A j \in targets : j <= i => m_peersSockets[m_peersAddresses[j]] # "none"}

\* Announcement n, sent so many times: the text and the delimiter, by two calls of
\* Send.
Copies(n, times) == [m \in 1 .. 2 * times |-> <<n, IF m % 2 = 1 THEN "text" ELSE "#">>]

\* Variant: a peer is told once, however often it is listed.
TimesOnce(p, places) == Cardinality({p} \cap {m_peersAddresses[i] : i \in places})

\* How many of these places of the list are peer p's.
Times(p, places) == Cardinality({i \in places : m_peersAddresses[i] = p})

\* Once for each place of the list; a closed socket takes nothing.  Announcing by
\* the standard protocol also counts the bytes in the statistics.
AdvertiseNewBlock(source) ==
  /\ Alive
  /\ Len(adverts) < MaxAdverts
  /\ LET reached == Reached(Targets(source))
         number  == Len(adverts) + 1
     IN  /\ adverts' = Append(adverts,
              [source |-> source, peers |-> m_peersAddresses, stopped |-> phase = "stopped"])
         /\ sent' = [p \in Peers |->
              IF m_peersSockets[p] = "open" THEN sent[p] \o Copies(number, Times(p, reached))
              ELSE sent[p]]
         /\ IF reached # Targets(source)
            THEN failed' = TRUE
            ELSE IF m_protocolType = "STANDARD_PROTOCOL" /\ reached # {}
                 THEN WritesStats
                 ELSE UNCHANGED failed
  /\ UNCHANGED <<phase, m_peersAddresses, sockets, config, events, transactions, startPeers>>

\* HandleRead has asked for a block and sets a timer.
SetInvTimeout(key) ==
  /\ Alive /\ recvCallback
  /\ events' = events \cup {InvTimeout(key)}
  /\ UNCHANGED <<phase, failed, m_peersAddresses, sockets, config, transactions, history>>

\* A scheduled event comes due: a client creates a transaction and schedules the
\* next, an INV timer calls InvTimeoutExpired.
Due(event) ==
  /\ Alive
  /\ event \in events
  /\ IF event = NextTransaction /\ transactions < MaxTransactions
     THEN transactions' = transactions + 1 /\ UNCHANGED events
     ELSE events' = events \ {event} /\ UNCHANGED transactions
  /\ UNCHANGED <<phase, failed, m_peersAddresses, sockets, config, history>>

Next ==
  \/ \E peers \in PeerLists : SetPeersAddresses(peers)
  \/ \E type \in ProtocolTypes : SetProtocolType(type)
  \/ \E type \in CommitterTypes : SetCommitterType(type)
  \/ SetNodeStats \/ StartApplication \/ StopApplication \/ DoDispose
  \/ \E source \in Peers \cup {NoPeer} : AdvertiseNewBlock(source)
  \/ \E key \in InvKeys : SetInvTimeout(key)
  \/ \E event \in events : Due(event)

Spec == Init /\ [][Next]_vars

-----------------------------------------------------------------------------
(* Properties.                                                             *)

\* Every variable has its type, and HandleRead is called by a listening socket
\* only (blockchain-node.h:98-147).
TypeOK ==
  /\ phase \in {"created", "started", "stopped", "disposed"}
  /\ failed \in BOOLEAN
  /\ Range(m_peersAddresses) \subseteq Peers
  /\ m_peersSockets \in [Peers -> {"none", "open", "closed"}]
  /\ m_socket \in {"none", "listening", "closed"}
  /\ m_tid \in Factories
  /\ events \subseteq {NextTransaction} \cup {InvTimeout(key) : key \in InvKeys}
  /\ transactions \in 0 .. MaxTransactions
  /\ recvCallback => m_socket = "listening" \/ phase = "disposed"

\* A node dies in one of three ways only, whatever else is set in whatever order:
\* its statistics were not set before they were written, it has a peer now that it
\* had not when it was started, or it was started to listen to a multicast group by
\* anything but UDP (blockchain-node.cc:156-163, 181, 227, 507).
FailsOnlyWhenMisconfigured ==
  failed =>
    \/ m_nodeStats = "unset"
    \/ ~ Range(m_peersAddresses) \subseteq startPeers
    \/ phase = "started" /\ CannotJoin

\* The places, as <<announcement, position>>, at which peer p is on the list of an
\* announcement that is not of a block that came from it.
Heard(p) ==
  UNION {{i} \X {j \in DOMAIN adverts[i].peers : adverts[i].peers[j] = p} :
           i \in {k \in DOMAIN adverts : adverts[k].source # p}}

\* Those up to place q.
UpTo(places, q) == {r \in places : r[1] < q[1] \/ (r[1] = q[1] /\ r[2] <= q[2])}

\* Each peer hears of a block, unless it is the one the block came from, once for
\* each place it has on the list of the time, in whole messages and in the order of
\* the announcements: nobody is left out or told more often, though lists change and
\* may name a peer twice (blockchain-node.cc:504-516).
EveryPeerButTheSource ==
  ~failed /\ (\A i \in DOMAIN adverts : ~adverts[i].stopped) =>
    \A p \in Peers :
      LET heard == Heard(p)
      IN  /\ Len(sent[p]) = 2 * Cardinality(heard)
          /\ \A q \in heard :
               LET k == 2 * Cardinality(UpTo(heard, q))
               IN  sent[p][k - 1] = <<q[1], "text">> /\ sent[p][k] = <<q[1], "#">>

\* A stopped node is quiet but for its INV timers: nothing calls HandleRead, the peers it
\* had at the stop are not connected and are sent nothing, although AdvertiseNewBlock may
\* still be called, no transaction is created, and no event of it is left but the timers.
\* A peer taken off the list before the stop stays connected
\* (blockchain-node.cc:223-236, 504-508).
OnlyTimersOutliveStop ==
  [][phase' = "stopped" /\ ~failed' =>
       /\ m_socket' = "closed" /\ ~recvCallback'
       /\ events' \subseteq {InvTimeout(key) : key \in InvKeys}
       /\ transactions' = transactions
       /\ \A p \in Peers : m_peersSockets'[p] # "open" => sent'[p] = sent[p]]_vars

=============================================================================
