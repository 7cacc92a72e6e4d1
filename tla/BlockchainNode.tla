---------------------------- MODULE BlockchainNode ----------------------------
(***************************************************************************)
(* One node and what its peers send it (model/blockchain-node.h,           *)
(* model/blockchain-node.cc): the read handler, the messages it answers    *)
(* and the block announcement that makes one of them.                      *)
(*                                                                         *)
(* The simulator runs one event at a time: while HandleRead of this node   *)
(* runs, nobody sends, no timer fires and no other event happens.  pc says *)
(* where in HandleRead the node is.                                        *)
(***************************************************************************)
EXTENDS Transaction, Wire, FiniteSets

CONSTANTS
  NodeId,          \* GetNode()->GetId()
  Peers,           \* addresses of the peers
  ProtocolOf,      \* for each peer, its m_protocolType
  Invs,            \* lists of block keys an INV may carry
  Requests,        \* lists of transactions a REQUEST_TRANS or REPLY_TRANS may carry
  Blocks,          \* blocks the node may hold already, or as orphans
  MaxBlocks,       \* bound on the blocks of m_blockchain
  MaxOrphans,      \* bound on its orphans
  MaxSent,         \* bound on the messages sent
  MaxQueue         \* bound on the length of one m_queueInv entry

CommitterTypes == {"COMMITTER", "ENDORSER", "CLIENT", "ORDER"}

VARIABLES
  m_committerType,
  m_blocks, m_orphans, m_totalBlocks,   \* m_blockchain
  m_invTimeouts,       \* the keys that have a timer
  m_queueInv,          \* for each key, the peers that announced it, in order
  m_transaction,       \* the transactions received
  m_totalEndorsement,
  pc,                  \* "idle", or where in HandleRead
  from,                \* the peer HandleRead reads from
  totalReceivedData,   \* what it has read and not yet erased
  stream,              \* for each peer, what it sent and the node has not read
  numSent,             \* number of messages sent
  asked,               \* history: for each key, the peers asked for the block
  executed,            \* history: the transactions passed to ExecuteTransaction
  handled              \* history: the <<peer, message>> pairs handled

store == <<m_blocks, m_orphans, m_totalBlocks>>
protocol == <<m_invTimeouts, m_queueInv, m_transaction, m_totalEndorsement,
              asked, executed>>
wire == <<stream, numSent>>
vars == <<m_committerType, store, protocol, pc, from, totalReceivedData, wire, handled>>

m_blockchain == INSTANCE Blockchain

ASSUME NodeAssumption ==
  /\ NodeId \in Nat
  /\ ProtocolOf \in [Peers -> {"STANDARD_PROTOCOL", "SENDHEADERS"}]
  /\ Invs \subseteq Seq(Nat \X Int)
  /\ Requests \subseteq Seq([nodeId: Int, transId: Int])
  /\ Blocks \subseteq m_blockchain!BlockType
  /\ MaxBlocks \in Nat
  /\ MaxOrphans \in Nat
  /\ MaxSent \in Nat
  /\ MaxQueue \in Nat \ {0}

\* "height/minerId" is the key of a block.
BlockKeys == UNION {Range(inv) : inv \in Invs}

-----------------------------------------------------------------------------
(* Messages.                                                               *)

Inv(keys) == [message |-> "INV", inv |-> keys]
RequestTrans(transactions) == [message |-> "REQUEST_TRANS", transactions |-> transactions]
ReplyTrans(transactions) == [message |-> "REPLY_TRANS", transactions |-> transactions]
OtherMessage == [message |-> "GET_DATA"]

\* What AdvertiseNewBlock sends when the protocol is not STANDARD_PROTOCOL.
BareAdvertisement == [type |-> "blocks"]

\* The messages of nodes whose code is not in this repository.
Messages ==
  {Inv(keys) : keys \in Invs}
    \cup {RequestTrans(ts) : ts \in Requests}
    \cup {ReplyTrans(ts) : ts \in Requests}
    \cup {OtherMessage}

-----------------------------------------------------------------------------
(* What happens between two runs of HandleRead.                            *)

Init ==
  /\ m_committerType \in CommitterTypes
  /\ m_blockchain!Init
  /\ m_invTimeouts = {}
  /\ m_queueInv = [key \in BlockKeys |-> <<>>]
  /\ m_transaction = <<>>
  /\ m_totalEndorsement = 0
  /\ pc = "idle"
  /\ from = CHOOSE p \in Peers : TRUE
  /\ totalReceivedData = <<>>
  /\ stream = [p \in Peers |-> <<>>]
  /\ numSent = 0
  /\ asked = [key \in BlockKeys |-> <<>>]
  /\ executed = <<>>
  /\ handled = {}

\* Peer p sends this node message m: the text, then the delimiter.
Send(p, m) ==
  /\ pc = "idle"
  /\ numSent < MaxSent
  /\ stream' = [stream EXCEPT ![p] = @ \o Frame(m)]
  /\ numSent' = numSent + 1
  /\ UNCHANGED <<m_committerType, store, protocol, pc, from, totalReceivedData, handled>>

\* Peer p announces a block; only the standard protocol says which.
AdvertiseNewBlock(p, key) ==
  IF ProtocolOf[p] = "STANDARD_PROTOCOL"
  THEN Send(p, Inv(<<key>>))
  ELSE Send(p, BareAdvertisement)

\* The block handlers, which this repository only declares, add to m_blockchain.
ReceiveBlock(b) ==
  /\ pc = "idle"
  /\ m_blockchain!AddBlock(b) \/ m_blockchain!AddOrphan(b)
  /\ UNCHANGED <<m_committerType, protocol, pc, from, totalReceivedData, wire, handled>>

-----------------------------------------------------------------------------
(* HandleRead.                                                             *)

\* Moves of the handler that leave everything but its own place alone.
OnlyMoves ==
  UNCHANGED <<m_committerType, store, protocol, wire, handled>>

\* The socket of peer p calls HandleRead.
HandleRead(p) ==
  /\ pc = "idle"
  /\ stream[p] # <<>>
  /\ pc' = "receive"
  /\ from' = p
  /\ UNCHANGED totalReceivedData
  /\ OnlyMoves

\* RecvFrom returns some of what has arrived.  m_bufferedData[from], to be put
\* before it, is always empty: nothing stores into it.
RecvFrom ==
  /\ pc = "receive"
  /\ \E n \in DOMAIN stream[from] :
       /\ totalReceivedData' = SubSeq(stream[from], 1, n)
       /\ stream' = [stream EXCEPT ![from] = SubSeq(@, n + 1, Len(@))]
  /\ pc' = "parse"
  /\ UNCHANGED <<m_committerType, store, protocol, from, numSent, handled>>

\* RecvFrom returns no packet, and HandleRead returns.
Return ==
  /\ pc = "receive"
  /\ stream[from] = <<>>
  /\ pc' = "idle"
  /\ UNCHANGED <<from, totalReceivedData>>
  /\ OnlyMoves

\* No delimiter is left: what is left of the data goes out of scope.
DropRemainder ==
  /\ pc = "parse"
  /\ DelimiterPosition(totalReceivedData) = 0
  /\ pc' = "receive"
  /\ totalReceivedData' = <<>>
  /\ UNCHANGED from
  /\ OnlyMoves

\* Variant: a corrupted packet stays where it is.
KeepCorrupted ==
  /\ pc = "parse"
  /\ DelimiterPosition(totalReceivedData) # 0
  /\ Documents(ParsedPacket(totalReceivedData)) = {}
  /\ UNCHANGED <<pc, from, totalReceivedData>>
  /\ OnlyMoves

\* "Corrupted packet": erased with its delimiter.
EraseCorrupted ==
  /\ pc = "parse"
  /\ DelimiterPosition(totalReceivedData) # 0
  /\ Documents(ParsedPacket(totalReceivedData)) = {}
  /\ totalReceivedData' =
       SubSeq(totalReceivedData, DelimiterPosition(totalReceivedData) + 1,
              Len(totalReceivedData))
  /\ UNCHANGED <<pc, from>>
  /\ OnlyMoves

\* The packet is an object.
Parse ==
  /\ pc = "parse"
  /\ DelimiterPosition(totalReceivedData) # 0
  /\ Documents(ParsedPacket(totalReceivedData)) # {}
  /\ pc' = "dispatch"
  /\ UNCHANGED <<from, totalReceivedData>>
  /\ OnlyMoves

\* The object that is being handled.
document ==
  CHOOSE m \in Documents(ParsedPacket(totalReceivedData)) : TRUE

\* The switch is entered and left.  The packet is not erased: the loop finds
\* it again.
Dispatch ==
  /\ pc = "dispatch"
  /\ pc' = "parse"
  /\ handled' = handled \cup {<<from, document>>}
  /\ UNCHANGED <<m_committerType, store, from, totalReceivedData, wire>>

\* The switch is at the case of that name.
Case(name) ==
  pc = "dispatch" /\ "message" \in DOMAIN document /\ document.message = name

-----------------------------------------------------------------------------
(* INV.                                                                    *)

\* Variant: any block of that height is taken for the one announced.
AlreadyReceivedByHeight(key) ==
  \E i \in DOMAIN m_blocks : \E j \in DOMAIN m_blocks[i] : m_blocks[i][j].blockHeight = key[1]

\* ReceivedButNotValidated is FALSE: no code of the repository fills
\* m_receivedNotValidated.
AlreadyReceived(key) ==
  m_blockchain!HasBlock(key[1], key[2]) \/ m_blockchain!isOrphan(key[1], key[2])

\* The keys of the message the node has no block for.
WantedKeys == {key \in Range(document.inv) : ~AlreadyReceived(key)}

\* Those of them it has not asked for.
requestBlocks == WantedKeys \ m_invTimeouts

\* The message may name a key several times.
TimesNamed(key) == Cardinality({i \in DOMAIN document.inv : document.inv[i] = key})

\* A queue after that many push_backs of peer p, up to the bound MaxQueue.
PushPeer(queue, p, times) ==
  LET all == queue \o [i \in 1 .. times |-> p]
  IN  SubSeq(all, 1, Min({Len(all), MaxQueue}))

\* m_queueInv after one push_back of the sender each time the message names one
\* of these keys.
Queued(keys) ==
  [key \in BlockKeys |->
     PushPeer(m_queueInv[key], from, IF key \in keys THEN TimesNamed(key) ELSE 0)]

\* GET_HEADERS and GET_DATA with the keys to ask for go to the sender.
AskFor(keys) ==
  asked' = [key \in BlockKeys |->
              IF key \in keys THEN Append(asked[key], from) ELSE asked[key]]

\* Variant: a key that is asked for gets no timer.
HandleInvUntimed ==
  /\ Case("INV")
  /\ m_committerType # "CLIENT"
  /\ m_queueInv' = Queued(WantedKeys)
  /\ AskFor(requestBlocks)
  /\ UNCHANGED <<m_invTimeouts, m_transaction, m_totalEndorsement, executed>>
  /\ Dispatch

\* Variant: the sender is queued only for keys that others were asked for.
HandleInvQueueLater ==
  /\ Case("INV")
  /\ m_committerType # "CLIENT"
  /\ m_queueInv' = Queued(WantedKeys \ requestBlocks)
  /\ m_invTimeouts' = m_invTimeouts \cup requestBlocks
  /\ AskFor(requestBlocks)
  /\ UNCHANGED <<m_transaction, m_totalEndorsement, executed>>
  /\ Dispatch

HandleInv ==
  /\ Case("INV")
  /\ m_committerType # "CLIENT"
  /\ m_queueInv' = Queued(WantedKeys)
  /\ m_invTimeouts' = m_invTimeouts \cup requestBlocks
  /\ AskFor(requestBlocks)
  /\ UNCHANGED <<m_transaction, m_totalEndorsement, executed>>
  /\ Dispatch

-----------------------------------------------------------------------------
(* REQUEST_TRANS and REPLY_TRANS.                                          *)

HasTransactionIn(transactions, t) ==
  \E i \in DOMAIN transactions : IsTransaction(transactions[i], t.nodeId, t.transId)

\* Variant: no search before the new transaction is stored.
StoreAlways(transactions, t) ==
  Append(transactions, NewTransaction(t.nodeId, t.transId))

\* A transaction the node has not is stored as it came: its executor is set on
\* the local copy only, after the push_back.
StoreIfNew(transactions, t) ==
  IF HasTransactionIn(transactions, t)
  THEN transactions
  ELSE Append(transactions, NewTransaction(t.nodeId, t.transId))

\* m_transaction after n of the message's transactions.
Stored[n \in 0 .. Len(document.transactions)] ==
  IF n = 0 THEN m_transaction ELSE StoreIfNew(Stored[n - 1], document.transactions[n])

\* m_transaction after the loop over the message's transactions.
TransactionsAfter == Stored[Len(document.transactions)]

NewTransactions ==
  SubSeq(TransactionsAfter, Len(m_transaction) + 1, Len(TransactionsAfter))

\* An endorser counts each new transaction and executes it.
EndorseTransactions ==
  /\ Case("REQUEST_TRANS")
  /\ m_committerType = "ENDORSER"
  /\ m_transaction' = TransactionsAfter
  /\ m_totalEndorsement' = m_totalEndorsement + Len(NewTransactions)
  /\ executed' = executed \o
       [i \in DOMAIN NewTransactions |-> SetExecution(NewTransactions[i], NodeId)]
  /\ UNCHANGED <<m_invTimeouts, m_queueInv, asked>>
  /\ Dispatch

\* A committer or orderer calls AdvertiseNewTransaction, whose body is empty.
StoreTransactions ==
  /\ Case("REQUEST_TRANS")
  /\ m_committerType \in {"COMMITTER", "ORDER"}
  /\ m_transaction' = TransactionsAfter
  /\ UNCHANGED <<m_invTimeouts, m_queueInv, m_totalEndorsement, asked, executed>>
  /\ Dispatch

\* A client counts no INV and no REQUEST_TRANS in.
ClientIgnores ==
  /\ m_committerType = "CLIENT"
  /\ Case("INV") \/ Case("REQUEST_TRANS")
  /\ UNCHANGED protocol
  /\ Dispatch

\* Each reply is put into a local copy, which is dropped: m_replyTransaction
\* stays empty.  The case falls through to the default one.
HandleReplyTrans ==
  /\ Case("REPLY_TRANS")
  /\ UNCHANGED protocol
  /\ Dispatch

HandleDefault ==
  /\ Case("GET_DATA")
  /\ UNCHANGED protocol
  /\ Dispatch

\* document["message"] of an object without that member: RAPIDJSON_ASSERT
\* stops the program; where assertions are compiled out, the null value reads
\* as 0, which is INV, and its "inv" as an empty list.
MessageMissing ==
  /\ pc = "dispatch"
  /\ "message" \notin DOMAIN document
  /\ UNCHANGED protocol
  /\ \/ /\ pc' = "aborted"
        /\ UNCHANGED <<m_committerType, store, from, totalReceivedData, wire, handled>>
     \/ Dispatch

-----------------------------------------------------------------------------
(* The specification.                                                      *)

Handler ==
  \/ RecvFrom \/ Return \/ DropRemainder \/ EraseCorrupted \/ Parse
  \/ HandleInv \/ EndorseTransactions \/ StoreTransactions \/ ClientIgnores
  \/ HandleReplyTrans \/ HandleDefault \/ MessageMissing

Next ==
  \/ \E p \in Peers, key \in BlockKeys : AdvertiseNewBlock(p, key)
  \/ \E p \in Peers, m \in Messages : Send(p, m)
  \/ \E b \in Blocks : ReceiveBlock(b)
  \/ \E p \in Peers : HandleRead(p)
  \/ Handler

\* The processor runs the handler on, and the simulator runs every event that
\* is due: a socket with data calls its receive callback.
Fairness == WF_vars(Handler) /\ \A p \in Peers : WF_vars(HandleRead(p))

Spec == Init /\ [][Next]_vars /\ Fairness

-----------------------------------------------------------------------------
(* Properties.                                                             *)

\* Every variable has its type (blockchain-node.h:98-147).
TypeOK ==
  /\ m_committerType \in CommitterTypes
  /\ m_blockchain!TypeOK
  /\ m_invTimeouts \subseteq BlockKeys
  /\ m_queueInv \in [BlockKeys -> Seq(Peers)]
  /\ m_transaction \in Seq(TransactionType)
  /\ m_totalEndorsement \in Nat
  /\ pc \in {"idle", "receive", "parse", "dispatch", "aborted"}
  /\ pc # "idle" => from \in Peers
  /\ DOMAIN stream = Peers
  /\ numSent \in 0 .. MaxSent
  /\ asked \in [BlockKeys -> Seq(Peers)]
  /\ executed \in Seq(TransactionType)

\* However often an INV is handled, and whatever it repeats, a block is asked
\* for once, and exactly the blocks asked for have a timer
\* (blockchain-node.cc:335-349).
OneRequestPerBlock ==
  \A key \in BlockKeys :
    /\ Len(asked[key]) <= 1
    /\ key \in m_invTimeouts <=> asked[key] # <<>>

\* The peers to turn to when a timer expires are those who announced the block,
\* the one asked already in front: no timer without a queue, and no queue
\* without a timer (blockchain-node.cc:339-349).
AskedPeerHeadsQueue ==
  \A key \in BlockKeys :
    /\ key \in m_invTimeouts <=> m_queueInv[key] # <<>>
    /\ key \in m_invTimeouts => Head(m_queueInv[key]) = Head(asked[key])

\* A transaction is stored once, and an endorser counts and executes exactly
\* those it stored, in their order, over repeated transactions and repeated
\* handling; nobody else executes any (blockchain-node.cc:397-420).
EndorsedOnce ==
  /\ \A i, j \in DOMAIN m_transaction :
       IsTransaction(m_transaction[i], m_transaction[j].nodeId, m_transaction[j].transId)
         => i = j
  /\ m_totalEndorsement = IF m_committerType = "ENDORSER" THEN Len(m_transaction) ELSE 0
  /\ executed = [i \in 1 .. m_totalEndorsement |-> SetExecution(m_transaction[i], NodeId)]

\* Peer p announced the block in an INV that was handled.
Announced(p, key) ==
  \E h \in handled : h[1] = p /\ "inv" \in DOMAIN h[2] /\ key \in Range(h[2].inv)

\* The node has a block of that key, in the chain or as an orphan.
Received(key) ==
  \/ \E r \in DOMAIN m_blocks : \E i \in DOMAIN m_blocks[r] : m_blockchain!Key(m_blocks[r][i]) = key
  \/ \E i \in DOMAIN m_orphans : m_blockchain!Key(m_orphans[i]) = key

\* A node that loses a block's first peer can turn to those in its queue: each of
\* them announced that very block, and whoever announced it to a node that takes
\* part is there, unless the block itself has come, before the INV is handled or
\* between two handlings of it (blockchain-node.cc:323-349).
QueuesHoldTheAnnouncers ==
  \A key \in BlockKeys :
    /\ \A p \in Range(m_queueInv[key]) : Announced(p, key)
    /\ m_committerType # "CLIENT" =>
         \A p \in Peers : Announced(p, key) => p \in Range(m_queueInv[key]) \/ Received(key)

\* Corrupted packets, texts cut in two and remainders do not stop the handler:
\* it reads all that a peer sent, unless a message it has to handle is found
\* (blockchain-node.cc:265-290).
DataIsReadUntilAMessage ==
  \A p \in Peers :
    stream[p] # <<>> ~> stream[p] = <<>> \/ handled # {} \/ pc = "aborted"

-----------------------------------------------------------------------------
(* What declarations, documentation and assertions say, and the code does  *)
(* not do.                                                                 *)

\* blockchain-node.h:138, blockchain-node.cc:277: what was received from an
\* address before is put in front of the next packet, so that when all is read
\* and the handler has returned, what the peers sent was handled.
BufferedDataCompletesMessages ==
  pc = "idle" /\ numSent > 0 /\ (\A p \in Peers : stream[p] = <<>>) => handled # {}

\* rapidjson/document.h:1111-1113, 1139: a member that may be missing is not
\* asked for by name, the assertion on it never fails.
NoAssertionFails == pc # "aborted"

\* blockchain-node.cc:41: "The timeout of inv messages in minutes": when a timer
\* is set, the handler returns and the simulator gets to the time of it.
InvTimeoutsAreReached ==
  \A key \in BlockKeys : key \in m_invTimeouts ~> pc = "idle"

=============================================================================
