--------------------------- MODULE LifecycleProofs ---------------------------
(***************************************************************************)
(* Theorems about the life of a node, for every choice of peers and of     *)
(* lists of them, and every order of setters, start, stop, announcements   *)
(* and events.                                                             *)
(*                                                                         *)
(* A null socket can be met only through a peer that is on the list now    *)
(* and was not when the node was started (Connected); a stopped node is    *)
(* deaf because the stop has cancelled the one event and the one callback  *)
(* by which it would go on (Quiet).  What each peer is sent is counted     *)
(* with the places it has on the lists of the announcements it is to hear  *)
(* of (AdvertInv): no socket closes before the stop, so that nobody on a   *)
(* list is passed over.                                                    *)
(***************************************************************************)
EXTENDS NodeLifecycle, TLAPS, SequenceTheorems, FiniteSetTheorems

\* The events that outlive a stop.
Timers == {InvTimeout(key) : key \in InvKeys}

\* A peer of the start keeps a socket, open or closed.
Connected ==
  /\ startPeers \subseteq Peers
  /\ \A p \in startPeers : m_peersSockets[p] # "none"

\* What a stop leaves behind, unless the program died in it.
Quiet ==
  phase = "stopped" /\ ~failed =>
    m_socket = "closed" /\ ~recvCallback /\ events \subseteq Timers

LifeInv == TypeOK /\ Connected /\ FailsOnlyWhenMisconfigured /\ Quiet

\* A node as its constructor leaves it.
LEMMA InitLifeInv == Init => LifeInv
<1> SUFFICES ASSUME Init PROVE LifeInv
  OBVIOUS
<1>1. Range(m_peersAddresses) = {}
  BY DEF Init, Range
<1>2. TypeOK
  <2>1. 0 \in 0 .. MaxTransactions
    BY LifecycleAssumption
  <2>2. m_peersSockets \in [Peers -> {"none", "open", "closed"}]
    BY DEF Init
  <2> QED
    BY <1>1, <2>1, <2>2, Zenon DEF Init, TypeOK
<1> QED
  BY <1>2 DEF Init, LifeInv, Connected, FailsOnlyWhenMisconfigured, Quiet

\* The setters: a list of peers is one of those it may be, and only the
\* statistics have a say in what is true of them.
LEMMA SettersLifeInv ==
  ASSUME LifeInv,
         \/ \E peers \in PeerLists : SetPeersAddresses(peers)
         \/ \E type \in ProtocolTypes : SetProtocolType(type)
         \/ \E type \in CommitterTypes : SetCommitterType(type)
         \/ SetNodeStats
  PROVE  LifeInv'
<1>1. ~failed /\ failed' = failed /\ UNCHANGED <<phase, sockets, events, transactions, history>>
  BY DEF SetPeersAddresses, SetProtocolType, SetCommitterType, SetNodeStats, Alive
<1>2. Range(m_peersAddresses') \subseteq Peers
  <2>1. CASE \E peers \in PeerLists : SetPeersAddresses(peers)
    BY <2>1 DEF SetPeersAddresses, Peers
  <2>2. CASE m_peersAddresses' = m_peersAddresses
    BY <2>2 DEF LifeInv, TypeOK
  <2> QED
    BY <2>1, <2>2 DEF SetProtocolType, SetCommitterType, SetNodeStats
<1>3. TypeOK'
  <2>1. m_tid' = m_tid
    BY DEF SetPeersAddresses, SetProtocolType, SetCommitterType, SetNodeStats, config, attributes
  <2> QED
    BY <1>1, <1>2, <2>1 DEF LifeInv, TypeOK, sockets
<1> QED
  BY <1>1, <1>3 DEF LifeInv, Connected, FailsOnlyWhenMisconfigured, Quiet, sockets, history

\* A write through m_nodeStats fails only if nobody has set it.
LEMMA StatsFailLate ==
  ASSUME WritesStats, failed'
  PROVE  m_nodeStats = "unset"
BY DEF WritesStats

\* The start connects to every peer of the list, unless it ends at the listening
\* socket (blockchain-node.cc:150-201).
LEMMA StartLifeInv ==
  ASSUME LifeInv, StartApplication
  PROVE  LifeInv'
<1>1. /\ phase' = "started" /\ m_socket' = "listening"
      /\ UNCHANGED <<m_peersAddresses, m_nodeStats, m_local, m_tid>>
  BY DEF StartApplication, config, attributes
<1>2. CASE CannotJoin
  <2>1. failed' = TRUE /\ UNCHANGED <<recvCallback, m_peersSockets, events, transactions, startPeers>>
    BY <1>2 DEF StartApplication
  <2>2. CannotJoin'
    BY <1>1, <1>2 DEF CannotJoin
  <2>3. TypeOK' /\ Connected'
    BY <1>1, <2>1 DEF LifeInv, TypeOK, Connected
  <2> QED
    BY <1>1, <2>1, <2>2, <2>3 DEF LifeInv, FailsOnlyWhenMisconfigured, Quiet
<1>3. CASE ~CannotJoin
  <2>1. Connect(Range(m_peersAddresses))
    BY <1>3 DEF StartApplication
  <2>2. /\ recvCallback' /\ WritesStats
        /\ startPeers' = Range(m_peersAddresses)
        /\ m_peersSockets' = [p \in Peers |->
             IF p \in Range(m_peersAddresses) THEN "open" ELSE m_peersSockets[p]]
    BY <2>1 DEF Connect
  <2>3. failed' \in BOOLEAN
    BY <2>2 DEF WritesStats
  <2>4. events' \subseteq {NextTransaction} \cup Timers
    BY <2>1 DEF Connect, LifeInv, TypeOK, Timers
  <2>5. transactions' \in 0 .. MaxTransactions
    BY <2>1, LifecycleAssumption DEF Connect, LifeInv, TypeOK
  <2>6. TypeOK'
    BY <1>1, <2>2, <2>3, <2>4, <2>5 DEF LifeInv, TypeOK, Timers
  <2>7. Connected'
    BY <1>1, <2>2 DEF LifeInv, TypeOK, Connected
  <2>8. FailsOnlyWhenMisconfigured'
    BY <1>1, <2>2, StatsFailLate DEF FailsOnlyWhenMisconfigured
  <2> QED
    BY <1>1, <2>6, <2>7, <2>8 DEF LifeInv, Quiet
<1> QED
  BY <1>2, <1>3

\* The stop meets a null socket only at a peer that came late
\* (blockchain-node.cc:223-236).
LEMMA StopLifeInv ==
  ASSUME LifeInv, StopApplication
  PROVE  LifeInv'
<1>1. /\ phase = "started" /\ phase' = "stopped"
      /\ UNCHANGED <<m_peersAddresses, m_nodeStats, m_tid, transactions, startPeers>>
  BY DEF StopApplication, config, attributes, history
<1>2. CASE HasNullSocket(m_peersAddresses)
  <2>1. failed' = TRUE /\ UNCHANGED <<sockets, events>>
    BY <1>2 DEF StopApplication
  <2>2. ~ Range(m_peersAddresses) \subseteq startPeers
    BY <1>2 DEF HasNullSocket, LifeInv, Connected
  <2>3. TypeOK' /\ Connected'
    BY <1>1, <2>1 DEF LifeInv, TypeOK, Connected, sockets
  <2> QED
    BY <1>1, <2>1, <2>2, <2>3 DEF LifeInv, FailsOnlyWhenMisconfigured, Quiet
<1>3. CASE ~HasNullSocket(m_peersAddresses)
  <2>1. /\ m_peersSockets' = [p \in Peers |->
             IF p \in Range(m_peersAddresses) THEN "closed" ELSE m_peersSockets[p]]
        /\ m_socket' = "closed"
        /\ recvCallback' = FALSE
        /\ events' = events \ {NextTransaction}
        /\ WritesStats
    BY <1>3 DEF StopApplication
  <2>2. events' \subseteq Timers
    BY <2>1 DEF LifeInv, TypeOK, Timers
  <2>3. failed' \in BOOLEAN
    BY <2>1 DEF WritesStats
  <2>4. TypeOK' /\ Connected'
    BY <1>1, <2>1, <2>2, <2>3 DEF LifeInv, TypeOK, Connected, Timers
  <2>5. FailsOnlyWhenMisconfigured'
    BY <1>1, <2>1, StatsFailLate DEF FailsOnlyWhenMisconfigured
  <2> QED
    BY <2>1, <2>2, <2>4, <2>5 DEF LifeInv, Quiet
<1> QED
  BY <1>2, <1>3

\* An announcement meets a null socket only at a peer that came late
\* (blockchain-node.cc:504-508).
LEMMA AdvertiseLifeInv ==
  ASSUME LifeInv, NEW source \in Peers \cup {NoPeer}, AdvertiseNewBlock(source)
  PROVE  LifeInv'
<1> DEFINE targets == Targets(source)
           reached == Reached(targets)
<1>1. /\ UNCHANGED <<phase, m_peersAddresses, m_nodeStats, sockets, events, transactions,
                     startPeers>>
      /\ ~failed
  BY DEF AdvertiseNewBlock, config, Alive
<1>0. m_tid' = m_tid
  BY DEF AdvertiseNewBlock, config, attributes
<1>2. CASE reached # targets
  <2>1. failed' = TRUE
    BY <1>2 DEF AdvertiseNewBlock
  <2>2. PICK i \in targets : m_peersSockets[m_peersAddresses[i]] = "none"
    BY <1>2 DEF Reached
  <2>3. m_peersAddresses[i] \in Range(m_peersAddresses)
    BY <2>2 DEF Targets, Range
  <2>4. ~ Range(m_peersAddresses) \subseteq startPeers
    BY <2>2, <2>3 DEF LifeInv, Connected
  <2> QED
    BY <1>0, <1>1, <2>1, <2>4 DEF LifeInv, TypeOK, Connected, FailsOnlyWhenMisconfigured, Quiet, sockets
<1>3. CASE reached = targets
  <2>1. failed' = failed \/ WritesStats
    BY <1>3 DEF AdvertiseNewBlock
  <2>2. failed' \in BOOLEAN
    BY <2>1 DEF WritesStats, LifeInv, TypeOK
  <2>3. failed' => m_nodeStats = "unset"
    BY <1>1, <2>1, StatsFailLate
  <2> QED
    BY <1>0, <1>1, <2>2, <2>3 DEF LifeInv, TypeOK, Connected, FailsOnlyWhenMisconfigured, Quiet,
                                  sockets
<1> QED
  BY <1>2, <1>3

\* Disposal and events.
LEMMA OthersLifeInv ==
  ASSUME LifeInv,
         DoDispose \/ (\E key \in InvKeys : SetInvTimeout(key)) \/ (\E event \in events : Due(event))
  PROVE  LifeInv'
<1>1. CASE DoDispose
  <2>1. ~failed /\ ~failed' /\ m_tid' = m_tid
    BY <1>1 DEF DoDispose, Alive, config, attributes
  <2> QED
    BY <1>1, <2>1 DEF DoDispose, LifeInv, TypeOK, Connected, FailsOnlyWhenMisconfigured, Quiet,
                      history
<1>2. ASSUME NEW key \in InvKeys, SetInvTimeout(key)
      PROVE  LifeInv'
  <2>1. events' \subseteq {NextTransaction} \cup Timers
    BY <1>2 DEF SetInvTimeout, LifeInv, TypeOK, Timers
  <2> QED
    BY <1>2, <2>1 DEF SetInvTimeout, LifeInv, TypeOK, Connected, FailsOnlyWhenMisconfigured, Quiet,
                      config, attributes, sockets, history, Timers, Alive
<1>3. ASSUME NEW event \in events, Due(event)
      PROVE  LifeInv'
  <2>1. events' \subseteq events /\ transactions' \in 0 .. MaxTransactions
    BY <1>3, LifecycleAssumption DEF Due, LifeInv, TypeOK
  <2> QED
    BY <1>3, <2>1 DEF Due, LifeInv, TypeOK, Connected, FailsOnlyWhenMisconfigured, Quiet,
                      config, attributes, sockets, history, Alive
<1> QED
  BY <1>1, <1>2, <1>3

\* Every step keeps the invariant.
LEMMA NextLifeInv == LifeInv /\ [Next]_vars => LifeInv'
<1> SUFFICES ASSUME LifeInv, [Next]_vars PROVE LifeInv'
  OBVIOUS
<1>1. CASE Next
  BY <1>1, SettersLifeInv, StartLifeInv, StopLifeInv, AdvertiseLifeInv, OthersLifeInv DEF Next
<1>2. CASE UNCHANGED vars
  BY <1>2 DEF vars, LifeInv, TypeOK, Connected, FailsOnlyWhenMisconfigured, Quiet,
              CannotJoin, config, attributes, sockets, history
<1> QED
  BY <1>1, <1>2

\* The variables have their types, and only a listening socket, or one that was
\* disposed of with the node, calls HandleRead (blockchain-node.h:98-147).
THEOREM LifecycleTypeCorrect == Spec => []TypeOK
<1>1. LifeInv => TypeOK
  BY DEF LifeInv
<1> QED
  BY <1>1, InitLifeInv, NextLifeInv, PTL DEF Spec

\* Statistics that were not set, peers that came late, and a multicast group that
\* cannot be joined are the only ways to die, in every order of calls
\* (blockchain-node.cc:156-163, 181, 227, 507).
THEOREM DiesOnlyWhenMisconfigured == Spec => []FailsOnlyWhenMisconfigured
<1>1. LifeInv => FailsOnlyWhenMisconfigured
  BY DEF LifeInv
<1> QED
  BY <1>1, InitLifeInv, NextLifeInv, PTL DEF Spec

\* A stopped node only lets its INV timers run out, in every order of calls
\* (blockchain-node.cc:223-236, 504-508).
THEOREM StoppedNodeIsQuiet == Spec => OnlyTimersOutliveStop
<1> DEFINE A == phase' = "stopped" /\ ~failed' =>
                  /\ m_socket' = "closed" /\ ~recvCallback'
                  /\ events' \subseteq {InvTimeout(key) : key \in InvKeys}
                  /\ transactions' = transactions
                  /\ \A p \in Peers : m_peersSockets'[p] # "open" => sent'[p] = sent[p]
<1>1. ASSUME LifeInv, [Next]_vars
      PROVE  [A]_vars
  <2> SUFFICES ASSUME Next, phase' = "stopped", ~failed'
               PROVE  /\ m_socket' = "closed" /\ ~recvCallback'
                      /\ events' \subseteq {InvTimeout(key) : key \in InvKeys}
                      /\ transactions' = transactions
                      /\ \A p \in Peers : m_peersSockets'[p] # "open" => sent'[p] = sent[p]
    BY <1>1
  <2>1. m_socket' = "closed" /\ ~recvCallback' /\ events' \subseteq Timers
    BY <1>1, NextLifeInv DEF LifeInv, Quiet
  <2>2. transactions' = transactions
    <3>1. CASE StartApplication
      <4>1. phase' = "started"
        BY <3>1 DEF StartApplication
      <4> QED
        BY <4>1
    <3>2. ASSUME NEW event \in events, Due(event)
          PROVE  transactions' = transactions
      <4>1. phase = "stopped" /\ ~failed
        BY <3>2 DEF Due, Alive
      <4>2. event \in Timers
        BY <1>1, <3>2, <4>1 DEF LifeInv, Quiet
      <4>3. event # NextTransaction
        BY <4>2 DEF Timers, InvTimeout, NextTransaction
      <4> QED
        BY <3>2, <4>3 DEF Due
    <3> QED
      BY <3>1, <3>2 DEF Next, SetPeersAddresses, SetProtocolType, SetCommitterType, SetNodeStats,
                        StopApplication, DoDispose, AdvertiseNewBlock, SetInvTimeout
  <2>3. ASSUME NEW p \in Peers, m_peersSockets'[p] # "open"
        PROVE  sent'[p] = sent[p]
    <3>1. ASSUME NEW source \in Peers \cup {NoPeer}, AdvertiseNewBlock(source)
          PROVE  sent'[p] = sent[p]
      <4>1. m_peersSockets'[p] = m_peersSockets[p]
        BY <3>1 DEF AdvertiseNewBlock, sockets
      <4> QED
        BY <2>3, <3>1, <4>1 DEF AdvertiseNewBlock
    <3> QED
      BY <3>1 DEF Next, SetPeersAddresses, SetProtocolType, SetCommitterType, SetNodeStats,
                  StartApplication, StopApplication, DoDispose, SetInvTimeout, Due, history
  <2> QED
    BY <2>1, <2>2, <2>3 DEF Timers
<1> QED
  BY <1>1, InitLifeInv, NextLifeInv, PTL DEF Spec, OnlyTimersOutliveStop

-----------------------------------------------------------------------------
(* Announcements.                                                          *)

AdvertType == [source: Peers \cup {NoPeer}, peers: Seq(Peers), stopped: BOOLEAN]
Sending == Nat \X {"text", "#"}

\* Sockets are closed by the stop, and not before.
ClosedByStop ==
  phase \in {"created", "started"} => \A p \in Peers : m_peersSockets[p] # "closed"

AdvertInv ==
  /\ m_peersAddresses \in Seq(Peers)
  /\ adverts \in Seq(AdvertType)
  /\ sent \in [Peers -> Seq(Sending)]
  /\ ClosedByStop
  /\ \A p \in Peers : IsFiniteSet(Heard(p))
  /\ EveryPeerButTheSource

\* What was sent in s are the announcements at the places in H, each in whole.
Told(s, H) ==
  /\ Len(s) = 2 * Cardinality(H)
  /\ \A q \in H : LET k == 2 * Cardinality(UpTo(H, q))
                 IN  s[k - 1] = <<q[1], "text">> /\ s[k] = <<q[1], "#">>

\* Copies are texts and delimiters in turn.
LEMMA CopiesAre ==
  ASSUME NEW n \in Nat, NEW c \in Nat
  PROVE  /\ Copies(n, c) \in Seq(Sending)
         /\ Len(Copies(n, c)) = 2 * c
         /\ \A k \in 1 .. c : Copies(n, c)[2 * k - 1] = <<n, "text">> /\ Copies(n, c)[2 * k] = <<n, "#">>
<1>1. Copies(n, c) \in [1 .. 2 * c -> Sending]
  BY DEF Copies, Sending
<1>2. Copies(n, c) \in Seq(Sending) /\ Len(Copies(n, c)) = 2 * c
  <2>1. 2 * c \in Nat
    OBVIOUS
  <2> QED
    BY <1>1, <2>1
<1>3. ASSUME NEW k \in 1 .. c
      PROVE  Copies(n, c)[2 * k - 1] = <<n, "text">> /\ Copies(n, c)[2 * k] = <<n, "#">>
  <2>1. 2 * k - 1 \in 1 .. 2 * c /\ 2 * k \in 1 .. 2 * c
    OBVIOUS
  <2>2. (2 * k - 1) % 2 = 1 /\ (2 * k) % 2 = 0
    OBVIOUS
  <2> QED
    BY <2>1, <2>2 DEF Copies
<1> QED
  BY <1>2, <1>3

\* They are put behind what was sent.
LEMMA SendCopies ==
  ASSUME NEW s \in Seq(Sending), NEW n \in Nat, NEW c \in Nat
  PROVE  LET t == s \o Copies(n, c) IN
         /\ t \in Seq(Sending)
         /\ Len(t) = Len(s) + 2 * c
         /\ \A i \in 1 .. Len(s) : t[i] = s[i]
         /\ \A k \in 1 .. c : t[Len(s) + 2 * k - 1] = <<n, "text">> /\ t[Len(s) + 2 * k] = <<n, "#">>
<1>1. /\ Copies(n, c) \in Seq(Sending)
      /\ Len(Copies(n, c)) = 2 * c
      /\ \A k \in 1 .. c : Copies(n, c)[2 * k - 1] = <<n, "text">> /\ Copies(n, c)[2 * k] = <<n, "#">>
  BY CopiesAre
<1>2. Len(s) \in Nat
  BY LenProperties
<1> DEFINE r == Copies(n, c)
<1> HIDE DEF r
<1>3. /\ s \o r \in Seq(Sending)
      /\ Len(s \o r) = Len(s) + Len(r)
      /\ \A i \in 1 .. Len(s) + Len(r) :
           (s \o r)[i] = IF i <= Len(s) THEN s[i] ELSE r[i - Len(s)]
  BY <1>1, ConcatProperties DEF r
<1>4. /\ Len(s \o r) = Len(s) + 2 * c
      /\ \A i \in 1 .. Len(s) : (s \o r)[i] = s[i]
  BY <1>1, <1>2, <1>3 DEF r
<1>5. ASSUME NEW k \in 1 .. c
      PROVE  /\ (s \o r)[Len(s) + 2 * k - 1] = r[2 * k - 1]
             /\ (s \o r)[Len(s) + 2 * k] = r[2 * k]
  <2>0. Len(r) = 2 * c
    BY <1>1 DEF r
  <2>1. /\ Len(s) + 2 * k - 1 \in 1 .. Len(s) + Len(r) /\ ~(Len(s) + 2 * k - 1 <= Len(s))
        /\ Len(s) + 2 * k - 1 - Len(s) = 2 * k - 1
        /\ Len(s) + 2 * k \in 1 .. Len(s) + Len(r) /\ ~(Len(s) + 2 * k <= Len(s))
        /\ Len(s) + 2 * k - Len(s) = 2 * k
    BY <1>2, <2>0
  <2> QED
    BY <1>3, <2>1
<1>6. \A k \in 1 .. c : (s \o r)[Len(s) + 2 * k - 1] = <<n, "text">> /\ (s \o r)[Len(s) + 2 * k] = <<n, "#">>
  BY <1>1, <1>5 DEF r
<1> QED
  BY <1>3, <1>4, <1>6 DEF r

\* The places of an announcement are counted behind those of the earlier ones.
LEMMA PlacesAdd ==
  ASSUME NEW n \in Nat, NEW H \in SUBSET ((1 .. n) \X Nat), IsFiniteSet(H),
         NEW Q \in SUBSET Nat, IsFiniteSet(Q)
  PROVE  /\ IsFiniteSet(H \cup ({n + 1} \X Q))
         /\ Cardinality(H \cup ({n + 1} \X Q)) = Cardinality(H) + Cardinality(Q)
         /\ Cardinality(H) \in Nat /\ Cardinality(Q) \in Nat
<1> DEFINE F == {n + 1} \X Q
<1>1. IsFiniteSet({n + 1}) /\ Cardinality({n + 1}) = 1
  BY FS_Singleton
<1>2. IsFiniteSet(F) /\ Cardinality(F) = Cardinality({n + 1}) * Cardinality(Q)
  BY <1>1, FS_Product
<1>3. Cardinality(H) \in Nat /\ Cardinality(Q) \in Nat
  BY FS_CardinalityType
<1>4. H \cap F = {}
  OBVIOUS
<1> HIDE DEF F
<1>5. Cardinality(H \cap F) = 0
  BY <1>4, FS_EmptySet
<1>6. Cardinality(F) = Cardinality(Q)
  BY <1>1, <1>2, <1>3
<1>7. /\ IsFiniteSet(H \cup F)
      /\ Cardinality(H \cup F) = Cardinality(H) + Cardinality(F) - Cardinality(H \cap F)
  BY <1>2, FS_Union
<1>8. Cardinality(H \cup F) = Cardinality(H) + Cardinality(Q)
  BY <1>3, <1>5, <1>6, <1>7
<1> QED
  BY <1>3, <1>7, <1>8 DEF F

\* Peer p hears of announcement n + 1 once for each place in P, and what it has
\* heard before keeps its place.
LEMMA HearOneMore ==
  ASSUME NEW n \in Nat, NEW H \in SUBSET ((1 .. n) \X Nat), IsFiniteSet(H),
         NEW P \in SUBSET Nat, IsFiniteSet(P), NEW s \in Seq(Sending), Told(s, H)
  PROVE  Told(s \o Copies(n + 1, Cardinality(P)), H \cup ({n + 1} \X P))
<1> DEFINE t == s \o Copies(n + 1, Cardinality(P))
           G == H \cup ({n + 1} \X P)
<1>1. Cardinality(G) = Cardinality(H) + Cardinality(P) /\ Cardinality(H) \in Nat /\ Cardinality(P) \in Nat
  BY PlacesAdd
<1>2. /\ t \in Seq(Sending)
      /\ Len(t) = Len(s) + 2 * Cardinality(P)
      /\ \A i \in 1 .. Len(s) : t[i] = s[i]
      /\ \A k \in 1 .. Cardinality(P) :
           t[Len(s) + 2 * k - 1] = <<n + 1, "text">> /\ t[Len(s) + 2 * k] = <<n + 1, "#">>
  <2>1. n + 1 \in Nat
    OBVIOUS
  <2> QED
    BY <1>1, <2>1, SendCopies
<1>3. /\ Len(s) = 2 * Cardinality(H)
      /\ \A q \in H : LET k == 2 * Cardinality(UpTo(H, q))
                     IN  s[k - 1] = <<q[1], "text">> /\ s[k] = <<q[1], "#">>
  BY DEF Told
<1>4. ASSUME NEW q \in H
      PROVE  LET k == 2 * Cardinality(UpTo(G, q))
             IN  t[k - 1] = <<q[1], "text">> /\ t[k] = <<q[1], "#">>
  <2>0. q[1] \in 1 .. n /\ q[2] \in Nat
    OBVIOUS
  <2>1. UpTo(G, q) = UpTo(H, q)
    BY <2>0 DEF UpTo
  <2>2. UpTo(H, q) \subseteq H /\ q \in UpTo(H, q)
    BY <2>0 DEF UpTo
  <2> DEFINE c == Cardinality(UpTo(H, q))
  <2>3. c \in Nat /\ c <= Cardinality(H) /\ c # 0
    <3>1. IsFiniteSet(UpTo(H, q)) /\ c <= Cardinality(H)
      BY <2>2, FS_Subset
    <3> QED
      BY <2>2, <3>1, FS_CardinalityType, FS_EmptySet
  <2>4. s[2 * c - 1] = <<q[1], "text">> /\ s[2 * c] = <<q[1], "#">>
    BY <1>3
  <2>6. Cardinality(UpTo(G, q)) = c
    BY <2>1
  <2> HIDE DEF c, t, G
  <2>5. 2 * c - 1 \in 1 .. Len(s) /\ 2 * c \in 1 .. Len(s)
    BY <1>1, <1>3, <2>3
  <2> QED
    BY <1>2, <2>4, <2>5, <2>6
<1>5. ASSUME NEW j \in P
      PROVE  LET k == 2 * Cardinality(UpTo(G, <<n + 1, j>>))
             IN  t[k - 1] = <<n + 1, "text">> /\ t[k] = <<n + 1, "#">>
  <2> DEFINE Q == {i \in P : i <= j}
             c == Cardinality(Q)
  <2>1. UpTo(G, <<n + 1, j>>) = H \cup ({n + 1} \X Q)
    BY DEF UpTo
  <2>2. Q \subseteq P /\ j \in Q
    OBVIOUS
  <2> HIDE DEF Q
  <2>3. IsFiniteSet(Q) /\ c <= Cardinality(P)
    BY <2>2, FS_Subset
  <2>4. c \in Nat /\ c # 0
    BY <2>2, <2>3, FS_CardinalityType, FS_EmptySet
  <2>5. Q \in SUBSET Nat
    BY <2>2
  <2>6. Cardinality(H \cup ({n + 1} \X Q)) = Cardinality(H) + Cardinality(Q)
    BY <2>3, <2>5, PlacesAdd
  <2>9. Cardinality(UpTo(G, <<n + 1, j>>)) = Cardinality(H) + c
    BY <2>1, <2>6
  <2> HIDE DEF c, t, G
  <2>7. c \in 1 .. Cardinality(P)
    BY <1>1, <2>3, <2>4
  <2>8. /\ 2 * Cardinality(UpTo(G, <<n + 1, j>>)) = Len(s) + 2 * c
        /\ 2 * Cardinality(UpTo(G, <<n + 1, j>>)) - 1 = Len(s) + 2 * c - 1
    BY <1>1, <1>3, <2>4, <2>9
  <2> QED
    BY <1>2, <2>7, <2>8
<1>6. ASSUME NEW q \in G
      PROVE  LET k == 2 * Cardinality(UpTo(G, q))
             IN  t[k - 1] = <<q[1], "text">> /\ t[k] = <<q[1], "#">>
  <2> HIDE DEF t
  <2>1. CASE q \in H
    BY <1>4, <2>1
  <2>2. CASE q \in {n + 1} \X P
    <3>1. q = <<n + 1, q[2]>> /\ q[1] = n + 1 /\ q[2] \in P
      BY <2>2
    <3>2. LET k == 2 * Cardinality(UpTo(G, <<n + 1, q[2]>>))
          IN  t[k - 1] = <<n + 1, "text">> /\ t[k] = <<n + 1, "#">>
      BY <1>5, <3>1
    <3>3. UpTo(G, q) = UpTo(G, <<n + 1, q[2]>>)
      BY <3>1
    <3> HIDE DEF G
    <3> QED
      BY <3>1, <3>2, <3>3
  <2> QED
    BY <2>1, <2>2
<1>7. Len(t) = 2 * Cardinality(G)
  <2> HIDE DEF t, G
  <2> QED
    BY <1>1, <1>2, <1>3
<1> QED
  BY <1>6, <1>7 DEF Told

\* Nobody has been told of anything, and nothing is closed.
LEMMA InitAdvertInv == Init => AdvertInv
<1> SUFFICES ASSUME Init PROVE AdvertInv
  OBVIOUS
<1>1. adverts = <<>> /\ Len(adverts) = 0 /\ m_peersAddresses = <<>>
  BY DEF Init
<1>2. m_peersAddresses \in Seq(Peers) /\ adverts \in Seq(AdvertType)
  BY <1>1
<1>3. sent \in [Peers -> Seq(Sending)] /\ \A p \in Peers : sent[p] = <<>>
  BY DEF Init
<1>4. ClosedByStop
  BY DEF Init, ClosedByStop
<1>5. ASSUME NEW p
      PROVE  Heard(p) = {}
  BY <1>1 DEF Heard
<1>6. Cardinality({}) = 0 /\ IsFiniteSet({})
  BY FS_EmptySet
<1>7. EveryPeerButTheSource
  <2>1. Len(<<>>) = 0 /\ 2 * 0 = 0
    BY EmptySeq
  <2> SUFFICES ASSUME NEW p \in Peers
               PROVE  /\ Len(sent[p]) = 2 * Cardinality(Heard(p))
                      /\ Heard(p) = {}
    BY DEF EveryPeerButTheSource
  <2> QED
    BY <1>3, <1>5, <1>6, <2>1
<1>8. \A p \in Peers : IsFiniteSet(Heard(p))
  BY <1>5, <1>6
<1> QED
  BY <1>2, <1>3, <1>4, <1>7, <1>8 DEF AdvertInv

\* A place is one of an announcement that was made.
LEMMA HeardArePlaces ==
  ASSUME adverts \in Seq(AdvertType), NEW p
  PROVE  Heard(p) \in SUBSET ((1 .. Len(adverts)) \X Nat)
<1>1. DOMAIN adverts = 1 .. Len(adverts) /\ Len(adverts) \in Nat
  BY LenProperties
<1>2. \A i \in 1 .. Len(adverts) : DOMAIN adverts[i].peers \subseteq Nat
  <2> SUFFICES ASSUME NEW i \in 1 .. Len(adverts)
               PROVE  DOMAIN adverts[i].peers \subseteq Nat
    OBVIOUS
  <2>1. adverts[i] \in AdvertType
    BY ElementOfSeq
  <2>2. adverts[i].peers \in Seq(Peers)
    BY <2>1 DEF AdvertType
  <2> QED
    BY <2>2, LenProperties
<1> QED
  BY <1>1, <1>2 DEF Heard

\* An announcement is numbered behind the earlier ones, and what it adds for
\* each peer are the peer's places on its list.
LEMMA AdvertNumbers ==
  ASSUME adverts \in Seq(AdvertType), NEW advert \in AdvertType,
         adverts' = Append(adverts, advert), NEW p
  PROVE  Heard(p)' = Heard(p) \cup
           ({Len(adverts) + 1} \X {j \in DOMAIN advert.peers : advert.peers[j] = p /\ p # advert.source})
<1> DEFINE n == Len(adverts)
           P == {j \in DOMAIN advert.peers : advert.peers[j] = p /\ p # advert.source}
           places(i) == {j \in DOMAIN adverts[i].peers : adverts[i].peers[j] = p}
<1>1. /\ n \in Nat
      /\ DOMAIN adverts = 1 .. n
      /\ DOMAIN adverts' = 1 .. n + 1
      /\ \A i \in 1 .. n : adverts'[i] = adverts[i]
      /\ adverts'[n + 1] = advert
  BY LenProperties, AppendProperties
<1>2. DOMAIN adverts' = DOMAIN adverts \cup {n + 1}
  BY <1>1
<1>3. ASSUME NEW r
      PROVE  r \in Heard(p)' <=>
               \E i \in DOMAIN adverts' : adverts'[i].source # p /\
                 r \in {i} \X {j \in DOMAIN adverts'[i].peers : adverts'[i].peers[j] = p}
  BY DEF Heard
<1>4. ASSUME NEW r
      PROVE  r \in Heard(p) <=>
               \E i \in DOMAIN adverts : adverts[i].source # p /\ r \in {i} \X places(i)
  BY DEF Heard
<1>5. ASSUME NEW r
      PROVE  r \in {n + 1} \X P <=> advert.source # p /\
               r \in {n + 1} \X {j \in DOMAIN advert.peers : advert.peers[j] = p}
  OBVIOUS
<1> HIDE DEF n, P
<1>6. ASSUME NEW r
      PROVE  r \in Heard(p)' <=> r \in Heard(p) \cup ({n + 1} \X P)
  BY <1>1, <1>2, <1>3, <1>4, <1>5
<1>7. Heard(p)' = Heard(p) \cup ({n + 1} \X P)
  BY <1>6
<1> QED
  BY <1>7 DEF n, P

\* A living node that was not stopped reaches every peer it means to
\* (blockchain-node.cc:504-508).
LEMMA AllAreOpen ==
  ASSUME TypeOK, m_peersAddresses \in Seq(Peers), ClosedByStop, phase \in {"created", "started"},
         NEW source, Reached(Targets(source)) = Targets(source),
         NEW i \in Targets(source)
  PROVE  m_peersSockets[m_peersAddresses[i]] = "open"
<1>1. i \in 1 .. Len(m_peersAddresses)
  BY LenProperties DEF Targets
<1>2. m_peersAddresses[i] \in Peers
  BY <1>1, ElementOfSeq
<1>3. i <= i
  BY <1>1
<1>4. i \in Reached(Targets(source))
  OBVIOUS
<1>5. m_peersSockets[m_peersAddresses[i]] # "none"
  BY <1>3, <1>4 DEF Reached
<1> QED
  BY <1>2, <1>5 DEF ClosedByStop, TypeOK

\* An announcement reaches whom it means to reach, and nobody else
\* (blockchain-node.cc:504-516).
LEMMA AdvertiseAdvertInv ==
  ASSUME LifeInv, AdvertInv, NEW source \in Peers \cup {NoPeer}, AdvertiseNewBlock(source)
  PROVE  AdvertInv'
<1> DEFINE n == Len(adverts)
           advert == [source |-> source, peers |-> m_peersAddresses, stopped |-> phase = "stopped"]
           reached == Reached(Targets(source))
           P(p) == {j \in DOMAIN m_peersAddresses : m_peersAddresses[j] = p /\ p # source}
<1>1. /\ Alive
      /\ UNCHANGED <<phase, m_peersAddresses, m_peersSockets>>
      /\ adverts' = Append(adverts, advert)
      /\ sent' = [p \in Peers |->
           IF m_peersSockets[p] = "open" THEN sent[p] \o Copies(n + 1, Times(p, reached)) ELSE sent[p]]
      /\ reached # Targets(source) => failed'
  BY DEF AdvertiseNewBlock, sockets
<1>2. advert \in AdvertType
  BY DEF AdvertInv, AdvertType
<1>3. /\ n \in Nat
      /\ adverts' \in Seq(AdvertType)
      /\ DOMAIN adverts' = 1 .. n + 1
      /\ \A i \in 1 .. n : adverts'[i] = adverts[i]
      /\ adverts'[n + 1] = advert
  BY <1>1, <1>2, LenProperties, AppendProperties DEF AdvertInv
<1>4. /\ DOMAIN m_peersAddresses \in SUBSET Nat
      /\ IsFiniteSet(DOMAIN m_peersAddresses)
  <2>1. DOMAIN m_peersAddresses = 1 .. Len(m_peersAddresses) /\ Len(m_peersAddresses) \in Nat
    BY LenProperties DEF AdvertInv
  <2> QED
    BY <2>1, FS_Interval
<1>5. sent' \in [Peers -> Seq(Sending)]
  <2>1. ASSUME NEW p \in Peers
        PROVE  sent[p] \o Copies(n + 1, Times(p, reached)) \in Seq(Sending)
    <3>1. {i \in reached : m_peersAddresses[i] = p} \subseteq DOMAIN m_peersAddresses
      BY DEF Reached, Targets
    <3>2. IsFiniteSet({i \in reached : m_peersAddresses[i] = p})
      BY <1>4, <3>1, FS_Subset
    <3>3. Times(p, reached) \in Nat
      BY <3>2, FS_CardinalityType DEF Times
    <3>4. sent[p] \in Seq(Sending) /\ n + 1 \in Nat
      BY <1>3 DEF AdvertInv
    <3> HIDE DEF n, reached
    <3> QED
      BY <3>3, <3>4, SendCopies
  <2> QED
    BY <1>1, <2>1 DEF AdvertInv
<1>6. ClosedByStop'
  BY <1>1 DEF AdvertInv, ClosedByStop
<1>7. ASSUME NEW p \in Peers
      PROVE  /\ Heard(p)' = Heard(p) \cup ({n + 1} \X P(p))
             /\ Heard(p) \in SUBSET ((1 .. n) \X Nat)
             /\ IsFiniteSet(Heard(p))
             /\ P(p) \in SUBSET Nat
             /\ IsFiniteSet(P(p))
  <2>1. Heard(p)' = Heard(p) \cup
          ({n + 1} \X {j \in DOMAIN advert.peers : advert.peers[j] = p /\ p # advert.source})
    <3>1. adverts \in Seq(AdvertType)
      BY DEF AdvertInv
    <3> HIDE DEF advert
    <3> QED
      BY <1>1, <1>2, <3>1, AdvertNumbers
  <2>2. advert.peers = m_peersAddresses /\ advert.source = source
    OBVIOUS
  <2>3. P(p) \subseteq DOMAIN m_peersAddresses
    OBVIOUS
  <2>4. IsFiniteSet(P(p)) /\ P(p) \in SUBSET Nat
    BY <1>4, <2>3, FS_Subset
  <2>5. Heard(p) \in SUBSET ((1 .. n) \X Nat)
    BY HeardArePlaces DEF AdvertInv
  <2> QED
    BY <2>1, <2>2, <2>4, <2>5 DEF AdvertInv
<1> HIDE DEF P
<1>8. ASSUME NEW p \in Peers
      PROVE  IsFiniteSet(Heard(p)')
  <2> HIDE DEF n
  <2>1. IsFiniteSet(Heard(p) \cup ({n + 1} \X P(p)))
    BY <1>3, <1>7, PlacesAdd
  <2> QED
    BY <1>7, <2>1
<1>9. EveryPeerButTheSource'
  <2> SUFFICES ASSUME ~failed', \A i \in DOMAIN adverts' : ~adverts'[i].stopped,
                      NEW p \in Peers
               PROVE  Told(sent'[p], Heard(p)')
    BY DEF EveryPeerButTheSource, Told
  <2>1. Told(sent[p], Heard(p))
    <3>1. ~failed
      BY <1>1 DEF Alive
    <3>2. \A i \in DOMAIN adverts : ~adverts[i].stopped
      <4>1. DOMAIN adverts = 1 .. n
        BY LenProperties DEF AdvertInv
      <4>2. \A i \in DOMAIN adverts : i \in DOMAIN adverts' /\ adverts'[i] = adverts[i]
        BY <1>3, <4>1
      <4> QED
        BY <4>2
    <3> QED
      BY <3>1, <3>2 DEF AdvertInv, EveryPeerButTheSource, Told
  <2>2. phase \in {"created", "started"}
    <3>1. n + 1 \in DOMAIN adverts'
      BY <1>3
    <3>2. ~advert.stopped
      BY <1>3, <3>1
    <3>3. advert.stopped = (phase = "stopped")
      BY Zenon
    <3> QED
      BY <1>1, <3>2, <3>3 DEF Alive, LifeInv, TypeOK
  <2>3. reached = Targets(source)
    BY <1>1
  <2>4. Times(p, reached) = Cardinality(P(p))
    <3>1. {i \in Targets(source) : m_peersAddresses[i] = p} = P(p)
      BY DEF Targets, P
    <3> QED
      BY <2>3, <3>1 DEF Times
  <2>5. Told(sent[p] \o Copies(n + 1, Cardinality(P(p))), Heard(p)')
    <3>1. sent[p] \in Seq(Sending)
      BY DEF AdvertInv
    <3> HIDE DEF n
    <3>2. Told(sent[p] \o Copies(n + 1, Cardinality(P(p))), Heard(p) \cup ({n + 1} \X P(p)))
      BY <1>3, <1>7, <2>1, <3>1, HearOneMore
    <3> QED
      BY <1>7, <3>2
  <2>6. CASE m_peersSockets[p] = "open"
    BY <1>1, <2>4, <2>5, <2>6
  <2>7. CASE m_peersSockets[p] # "open"
    <3>1. P(p) = {}
      <4>1. ASSUME NEW i \in P(p)
            PROVE  FALSE
        <5>1. i \in Targets(source) /\ m_peersAddresses[i] = p
          BY DEF P, Targets
        <5>2. m_peersSockets[m_peersAddresses[i]] = "open"
          BY <2>2, <2>3, <5>1, AllAreOpen DEF AdvertInv, LifeInv
        <5> QED
          BY <2>7, <5>1, <5>2
      <4> QED
        BY <4>1
    <3>2. Heard(p)' = Heard(p)
      BY <1>7, <3>1
    <3> QED
      BY <1>1, <2>1, <2>7, <3>2
  <2> QED
    BY <2>6, <2>7
<1> QED
  BY <1>1, <1>3, <1>5, <1>6, <1>8, <1>9 DEF AdvertInv

\* Nothing else announces, and sockets close at the stop only.
LEMMA OthersAdvertInv ==
  ASSUME LifeInv, AdvertInv, [Next]_vars,
         ~ \E source \in Peers \cup {NoPeer} : AdvertiseNewBlock(source)
  PROVE  AdvertInv'
<1>1. UNCHANGED <<adverts, sent>> /\ (failed => failed')
  BY DEF Next, vars, history, SetPeersAddresses, SetProtocolType, SetCommitterType, SetNodeStats,
         StartApplication, StopApplication, DoDispose, SetInvTimeout, Due, Alive
<1>2. m_peersAddresses' \in Seq(Peers)
  <2>1. CASE \E peers \in PeerLists : SetPeersAddresses(peers)
    BY <2>1, LifecycleAssumption DEF SetPeersAddresses
  <2>2. CASE m_peersAddresses' = m_peersAddresses
    BY <2>2 DEF AdvertInv
  <2> QED
    BY <2>1, <2>2 DEF Next, vars, SetProtocolType, SetCommitterType, SetNodeStats,
         StartApplication, StopApplication, DoDispose, SetInvTimeout, Due
<1>3. ClosedByStop'
  <2>1. CASE StartApplication
    BY <2>1 DEF StartApplication, Connect, AdvertInv, ClosedByStop
  <2>2. CASE StopApplication \/ DoDispose
    BY <2>2 DEF StopApplication, DoDispose, ClosedByStop
  <2>3. CASE UNCHANGED <<phase, m_peersSockets>>
    BY <2>3 DEF AdvertInv, ClosedByStop
  <2> QED
    BY <2>1, <2>2, <2>3 DEF Next, vars, sockets, SetPeersAddresses, SetProtocolType,
         SetCommitterType, SetNodeStats, SetInvTimeout, Due
<1>4. EveryPeerButTheSource'
  <2>1. \A p \in Peers : Heard(p)' = Heard(p)
    BY <1>1 DEF Heard
  <2>2. CASE failed'
    BY <2>2 DEF EveryPeerButTheSource
  <2>3. CASE ~failed'
    BY <1>1, <2>1, <2>3 DEF AdvertInv, EveryPeerButTheSource
  <2> QED
    BY <2>2, <2>3
<1>5. \A p \in Peers : IsFiniteSet(Heard(p)')
  BY <1>1 DEF AdvertInv, Heard
<1> QED
  BY <1>1, <1>2, <1>3, <1>4, <1>5 DEF AdvertInv

\* In every order of calls, with any lists of peers, each peer hears of each
\* block once for each place it has on the list of the time, in whole messages and
\* in the order of the announcements, unless it is the one the block came from
\* (blockchain-node.cc:504-516).
THEOREM EveryPeerHearsOnce == Spec => []EveryPeerButTheSource
<1>1. LifeInv /\ AdvertInv /\ [Next]_vars => LifeInv' /\ AdvertInv'
  BY NextLifeInv, AdvertiseAdvertInv, OthersAdvertInv
<1>2. AdvertInv => EveryPeerButTheSource
  BY DEF AdvertInv
<1> QED
  BY <1>1, <1>2, InitLifeInv, InitAdvertInv, PTL DEF Spec

=============================================================================
