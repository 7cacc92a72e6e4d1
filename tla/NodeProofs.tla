------------------------------ MODULE NodeProofs ------------------------------
(***************************************************************************)
(* Theorems about a node, for every set of peers, of lists of keys and of  *)
(* transactions, and every store.                                          *)
(*                                                                         *)
(* What the wire carries is typed first (WireInv): the searches of         *)
(* HandleRead and the list of an INV are then finite.  That only one       *)
(* message is ever handled (FirstInv) needs no more than that no step      *)
(* erases a packet that parses.  The requests (RequestInv) need that the   *)
(* three books a node keeps of a key are opened in the same step: the      *)
(* timer, the request and the queue of peers to turn to next.  The         *)
(* transactions (TransactionInv) need that one is executed in the step     *)
(* that stores it.  That the store in a node is one follows from the       *)
(* invariant of BlockchainProofs, of which StoreProofs is an instance.     *)
(* The queues (QueuesHoldTheAnnouncers) need all of these: the sender of   *)
(* the one message is at the head of the queue of each key it names,       *)
(* unless the store has the block, and the store loses none.               *)
(***************************************************************************)
EXTENDS BlockchainNode, TLAPS, SequenceTheorems, FiniteSetTheorems

-----------------------------------------------------------------------------
(* The store in a node, and the lemmas about it and about positions of     *)
(* sequences.  Nobody outside the node keeps what the store hands out, so  *)
(* that the caller BlockchainProofs speaks of has nothing to ask.          *)

StoreProofs == INSTANCE BlockchainProofs WITH
  Asked <- {}, Indefinite <- {}, Headers <- {},
  held <- {}, rowCapacity <- {}, orphansCapacity <- 0, local <- {}, lastCall <- {}

\* The store of a node is a store as BlockchainProofs has it.
LEMMA SameStore ==
  /\ m_blockchain!BlockType = StoreProofs!BlockType
  /\ m_blockchain!GenesisBlock = StoreProofs!GenesisBlock
  /\ m_blockchain!GetBlockchainHeight = StoreProofs!GetBlockchainHeight
  /\ \A v, b : m_blockchain!PushBack(v, b) = StoreProofs!PushBack(v, b)
  /\ \A height : m_blockchain!DummyRows(height) = StoreProofs!DummyRows(height)
<1>1. m_blockchain!BlockType = StoreProofs!BlockType
  BY DEF m_blockchain!BlockType, StoreProofs!BlockType,
         m_blockchain!TransactionType, StoreProofs!TransactionType
<1>2. m_blockchain!GenesisBlock = StoreProofs!GenesisBlock
  BY DEF m_blockchain!GenesisBlock, StoreProofs!GenesisBlock,
         m_blockchain!NewBlock, StoreProofs!NewBlock
<1>3. m_blockchain!GetBlockchainHeight = StoreProofs!GetBlockchainHeight
  BY DEF m_blockchain!GetBlockchainHeight, StoreProofs!GetBlockchainHeight,
         m_blockchain!GetCurrentTopBlock, StoreProofs!GetCurrentTopBlock
<1>4. \A v, b : m_blockchain!PushBack(v, b) = StoreProofs!PushBack(v, b)
  BY DEF m_blockchain!PushBack, StoreProofs!PushBack,
         m_blockchain!CopyConstruct, StoreProofs!CopyConstruct
<1>5. \A height : m_blockchain!DummyRows(height) = StoreProofs!DummyRows(height)
  BY <1>3 DEF m_blockchain!DummyRows, StoreProofs!DummyRows
<1> QED
  BY <1>1, <1>2, <1>3, <1>4, <1>5

\* What BlockchainProofs assumes of its constants.
LEMMA StoreAssumption == StoreProofs!BlocksAssumption /\ StoreProofs!ReaderAssumption
BY NodeAssumption, SameStore DEF StoreProofs!BlocksAssumption, StoreProofs!ReaderAssumption

-----------------------------------------------------------------------------
(* What the wire carries.                                                  *)

\* All that nodes send, and the delimiter.
Payloads ==
  Messages \cup {Inv(<<key>>) : key \in BlockKeys}
           \cup {BareAdvertisement, [type |-> "delimiter"]}

Halves == [of: Payloads, half: {0, 1, 2}]

WireInv ==
  /\ stream \in [Peers -> Seq(Halves)]
  /\ totalReceivedData \in Seq(Halves)
  /\ pc # "idle" => from \in Peers
  /\ pc = "dispatch" => /\ DelimiterPosition(totalReceivedData) # 0
                        /\ Documents(ParsedPacket(totalReceivedData)) # {}

\* A message as it is sent.
LEMMA FrameType ==
  ASSUME NEW m \in Payloads
  PROVE  Frame(m) \in Seq(Halves)
<1>1. Half(m, 1) \in Halves /\ Half(m, 2) \in Halves
  BY DEF Half, Halves
<1>2. Delimiter \in Halves
  BY DEF Delimiter, Half, Halves, Payloads
<1> QED
  BY <1>1, <1>2 DEF Frame

\* Any part of what a sequence holds is a sequence of the same things.
LEMMA PartType ==
  ASSUME NEW S, NEW s \in Seq(S), NEW k \in 0 .. Len(s), NEW n \in 1 .. Len(s) + 1
  PROVE  /\ SubSeq(s, 1, k) \in Seq(S)
         /\ SubSeq(s, n, Len(s)) \in Seq(S)
<1>1. Len(s) \in Nat /\ \A i \in 1 .. Len(s) : s[i] \in S
  BY LenProperties, ElementOfSeq
<1>2. SubSeq(s, 1, k) \in Seq(S)
  <2>1. \A i \in 1 .. k : s[i] \in S
    BY <1>1
  <2> QED
    BY <1>1, <2>1, SubSeqProperties
<1>3. SubSeq(s, n, Len(s)) \in Seq(S)
  <2>1. \A i \in n .. Len(s) : s[i] \in S
    BY <1>1
  <2> QED
    BY <1>1, <2>1, SubSeqProperties
<1> QED
  BY <1>2, <1>3

\* The delimiter HandleRead finds is a position of the data
\* (blockchain-node.cc:280).
LEMMA DelimiterPositionType ==
  ASSUME NEW data \in Seq(Halves), DelimiterPosition(data) # 0
  PROVE  DelimiterPosition(data) \in 1 .. Len(data)
<1> DEFINE I == {i \in 1 .. Len(data) : IsDelimiter(data[i])}
<1>1. DelimiterPosition(data) = IF I # {} THEN Min(I) ELSE 0
  BY DEF DelimiterPosition, SelectInSeq
<1>2. I \subseteq Nat \ {0}
  OBVIOUS
<1>3. DelimiterPosition(data) \in I
  <2> HIDE DEF I
  <2> QED
    BY <1>1, <1>2, StoreAssumption, StoreProofs!FirstPosition
       DEF Min, StoreProofs!Min
<1> QED
  BY <1>3

\* What HandleRead takes for a message is one that was sent
\* (blockchain-node.cc:284-285).
LEMMA DocumentType ==
  ASSUME WireInv, Documents(ParsedPacket(totalReceivedData)) # {},
         DelimiterPosition(totalReceivedData) # 0
  PROVE  document \in Payloads
<1> DEFINE text == ParsedPacket(totalReceivedData)
<1>1. text \in Seq(Halves)
  <2>1. /\ totalReceivedData \in Seq(Halves)
        /\ DelimiterPosition(totalReceivedData) \in 1 .. Len(totalReceivedData)
        /\ Len(totalReceivedData) \in Nat
    BY DelimiterPositionType, LenProperties DEF WireInv
  <2>2. /\ DelimiterPosition(totalReceivedData) - 1 \in 0 .. Len(totalReceivedData)
        /\ 1 \in 1 .. Len(totalReceivedData) + 1
    BY <2>1
  <2> QED
    BY <2>1, <2>2, PartType DEF ParsedPacket
<1>2. document \in Documents(text)
  BY DEF document
<1> HIDE DEF text
<1>3. PICK i \in DOMAIN text : document = text[i].of
  BY <1>2 DEF Documents
<1>4. text[i] \in Halves
  BY <1>1, ElementOfSeq, LenProperties
<1> QED
  BY <1>3, <1>4 DEF Halves

-----------------------------------------------------------------------------
(* Steps.                                                                  *)

\* The steps of the switch.
Handle ==
  \/ HandleInv \/ EndorseTransactions \/ StoreTransactions \/ ClientIgnores
  \/ HandleReplyTrans \/ HandleDefault \/ MessageMissing

\* An assertion stops the program, and all stays as it is.
Abort ==
  /\ pc' = "aborted"
  /\ UNCHANGED <<from, totalReceivedData, stream, handled>>

\* A step of the switch comes to its end or to a failed assertion.
LEMMA HandleCases == Handle => pc = "dispatch" /\ (Dispatch \/ Abort)
BY DEF Handle, HandleInv, EndorseTransactions, StoreTransactions, ClientIgnores,
       HandleReplyTrans, HandleDefault, MessageMissing, Case, Dispatch, Abort, wire

\* The steps that are not part of the handler leave alone what it reads.
Outside ==
  /\ pc = "idle"
  /\ totalReceivedData' = totalReceivedData
  /\ handled' = handled
  /\ \/ /\ pc' = "idle"
        /\ \/ stream' = stream
           \/ \E p \in Peers, m \in Payloads : stream' = [stream EXCEPT ![p] = @ \o Frame(m)]
     \/ /\ pc' = "receive"
        /\ from' \in Peers
        /\ stream' = stream

\* Which these are.
LEMMA OutsideCases ==
  ASSUME \/ \E p \in Peers, key \in BlockKeys : AdvertiseNewBlock(p, key)
         \/ \E p \in Peers, m \in Messages : Send(p, m)
         \/ \E b \in Blocks : ReceiveBlock(b)
         \/ \E p \in Peers : HandleRead(p)
  PROVE  Outside /\ UNCHANGED protocol
<1>1. ASSUME NEW p \in Peers, NEW m \in Payloads, Send(p, m)
      PROVE  Outside /\ UNCHANGED protocol
  BY <1>1 DEF Send, Outside
<1>2. ASSUME NEW p \in Peers, NEW key \in BlockKeys, AdvertiseNewBlock(p, key)
      PROVE  Outside /\ UNCHANGED protocol
  <2>1. Inv(<<key>>) \in Payloads /\ BareAdvertisement \in Payloads
    BY DEF Payloads
  <2> QED
    BY <1>1, <1>2, <2>1 DEF AdvertiseNewBlock
<1>3. Messages \subseteq Payloads
  BY DEF Payloads
<1>4. ASSUME NEW b \in Blocks, ReceiveBlock(b)
      PROVE  Outside /\ UNCHANGED protocol
  BY <1>4 DEF ReceiveBlock, Outside, wire
<1>5. ASSUME NEW p \in Peers, HandleRead(p)
      PROVE  Outside /\ UNCHANGED protocol
  BY <1>5 DEF HandleRead, Outside, OnlyMoves, wire
<1> QED
  BY <1>1, <1>2, <1>3, <1>4, <1>5

\* Every step is one of these.
LEMMA NextCases ==
  ASSUME [Next]_vars
  PROVE  \/ Outside /\ UNCHANGED protocol
         \/ (RecvFrom \/ Return \/ DropRemainder \/ EraseCorrupted \/ Parse)
              /\ UNCHANGED protocol
         \/ Handle
         \/ UNCHANGED vars
<1>1. CASE RecvFrom \/ Return \/ DropRemainder \/ EraseCorrupted \/ Parse
  BY <1>1 DEF RecvFrom, Return, DropRemainder, EraseCorrupted, Parse, OnlyMoves
<1>2. CASE Handle
  BY <1>2
<1>3. CASE UNCHANGED vars
  BY <1>3
<1> QED
  BY <1>1, <1>2, <1>3, OutsideCases DEF Next, Handler, Handle

\* What is on the wire stays what was sent, cut anywhere.
LEMMA WireInductive ==
  /\ Init => WireInv
  /\ WireInv /\ [Next]_vars => WireInv'
<1>1. ASSUME Init PROVE WireInv
  <2>1. <<>> \in Seq(Halves)
    BY EmptySeq
  <2> QED
    BY <1>1, <2>1 DEF Init, WireInv
<1>2. ASSUME WireInv, [Next]_vars PROVE WireInv'
  <2>1. CASE Outside
    <3>1. stream' \in [Peers -> Seq(Halves)]
      <4>1. ASSUME NEW p \in Peers, NEW m \in Payloads,
                   stream' = [stream EXCEPT ![p] = @ \o Frame(m)]
            PROVE  stream' \in [Peers -> Seq(Halves)]
        <5>1. stream[p] \o Frame(m) \in Seq(Halves)
          BY <1>2, FrameType, ConcatProperties DEF WireInv
        <5> QED
          BY <1>2, <4>1, <5>1 DEF WireInv
      <4> QED
        BY <1>2, <2>1, <4>1 DEF Outside, WireInv
    <3> QED
      BY <1>2, <2>1, <3>1 DEF Outside, WireInv
  <2>2. CASE RecvFrom
    <3>1. from \in Peers /\ stream[from] \in Seq(Halves)
      BY <1>2, <2>2 DEF RecvFrom, WireInv
    <3>2. PICK n \in DOMAIN stream[from] :
            /\ totalReceivedData' = SubSeq(stream[from], 1, n)
            /\ stream' = [stream EXCEPT ![from] = SubSeq(@, n + 1, Len(@))]
      BY <2>2 DEF RecvFrom
    <3>3. n \in 0 .. Len(stream[from]) /\ n + 1 \in 1 .. Len(stream[from]) + 1
      BY <3>1, <3>2, LenProperties
    <3>4. /\ SubSeq(stream[from], 1, n) \in Seq(Halves)
          /\ SubSeq(stream[from], n + 1, Len(stream[from])) \in Seq(Halves)
      BY <3>1, <3>3, PartType
    <3> QED
      BY <1>2, <2>2, <3>1, <3>2, <3>4 DEF RecvFrom, WireInv
  <2>3. CASE Return
    BY <1>2, <2>3 DEF Return, OnlyMoves, wire, WireInv
  <2>4. CASE DropRemainder
    BY <1>2, <2>4, EmptySeq DEF DropRemainder, OnlyMoves, wire, WireInv
  <2>5. CASE EraseCorrupted
    <3> DEFINE k == DelimiterPosition(totalReceivedData)
    <3>1. k \in 1 .. Len(totalReceivedData) /\ Len(totalReceivedData) \in Nat
      BY <1>2, <2>5, DelimiterPositionType, LenProperties DEF EraseCorrupted, WireInv
    <3>2. k + 1 \in 1 .. Len(totalReceivedData) + 1 /\ 0 \in 0 .. Len(totalReceivedData)
      BY <3>1
    <3>3. SubSeq(totalReceivedData, k + 1, Len(totalReceivedData)) \in Seq(Halves)
      <4> HIDE DEF k
      <4> QED
        BY <1>2, <3>2, PartType DEF WireInv
    <3> QED
      BY <1>2, <2>5, <3>3 DEF EraseCorrupted, OnlyMoves, wire, WireInv
  <2>6. CASE Parse
    BY <1>2, <2>6 DEF Parse, OnlyMoves, wire, WireInv
  <2>7. CASE Handle
    BY <1>2, <2>7, HandleCases DEF Dispatch, Abort, wire, WireInv
  <2>8. CASE UNCHANGED vars
    BY <1>2, <2>8 DEF vars, wire, WireInv
  <2> QED
    BY <1>2, <2>1, <2>2, <2>3, <2>4, <2>5, <2>6, <2>7, <2>8, NextCases
<1> QED
  BY <1>1, <1>2

-----------------------------------------------------------------------------
(* The first message.                                                      *)

\* Once a message has been handled the node is in the loop, at the same packet.
FirstInv ==
  \/ handled = {}
  \/ /\ pc \in {"parse", "dispatch", "aborted"}
     /\ DelimiterPosition(totalReceivedData) # 0
     /\ Documents(ParsedPacket(totalReceivedData)) # {}
     /\ handled = {<<from, document>>}

\* No step erases a packet that parses (blockchain-node.cc:280-470).
LEMMA FirstInductive ==
  /\ Init => FirstInv
  /\ WireInv /\ FirstInv /\ [Next]_vars => FirstInv'
<1>1. Init => FirstInv
  BY DEF Init, FirstInv
<1>2. ASSUME WireInv, FirstInv, [Next]_vars PROVE FirstInv'
  <2>1. CASE Outside
    BY <1>2, <2>1 DEF Outside, FirstInv
  <2>2. CASE RecvFrom \/ Return
    BY <1>2, <2>2 DEF RecvFrom, Return, OnlyMoves, FirstInv
  <2>3. CASE DropRemainder \/ EraseCorrupted
    BY <1>2, <2>3 DEF DropRemainder, EraseCorrupted, OnlyMoves, FirstInv
  <2>4. CASE Parse
    BY <1>2, <2>4 DEF Parse, OnlyMoves, FirstInv, document
  <2>5. CASE Handle
    <3>1. /\ from' = from
          /\ totalReceivedData' = totalReceivedData
          /\ pc' \in {"parse", "aborted"}
          /\ handled' = handled \/ handled' = handled \cup {<<from, document>>}
      BY <2>5, HandleCases DEF Dispatch, Abort
    <3>2. document' = document
      BY <3>1 DEF document
    <3>3. /\ DelimiterPosition(totalReceivedData) # 0
          /\ Documents(ParsedPacket(totalReceivedData)) # {}
      BY <1>2, <2>5, HandleCases DEF WireInv
    <3>4. handled \subseteq {<<from, document>>}
      BY <1>2 DEF FirstInv
    <3>5. handled' = {} \/ handled' = {<<from, document>>}
      BY <3>1, <3>4
    <3> QED
      BY <3>1, <3>2, <3>3, <3>5 DEF FirstInv
  <2>6. CASE UNCHANGED vars
    BY <1>2, <2>6 DEF vars, FirstInv, document
  <2> QED
    BY <1>2, <2>1, <2>2, <2>3, <2>4, <2>5, <2>6, NextCases
<1> QED
  BY <1>1, <1>2

-----------------------------------------------------------------------------
(* Requests for blocks.                                                    *)

RequestInv ==
  /\ asked \in [BlockKeys -> Seq(Peers)]
  /\ m_queueInv \in [BlockKeys -> Seq(Peers)]
  /\ OneRequestPerBlock
  /\ AskedPeerHeadsQueue

\* The list of an INV is one of those a node may send.
LEMMA InvListType ==
  ASSUME WireInv, Case("INV")
  PROVE  document.inv \in Seq(Nat \X Int)
<1>1. document \in Payloads
  BY DocumentType DEF Case, WireInv
<1>2. /\ "message" \in DOMAIN document
      /\ document.message = "INV"
  BY DEF Case
<1>3. PICK keys : document = Inv(keys) /\ (keys \in Invs \/ \E key \in BlockKeys : keys = <<key>>)
  BY <1>1, <1>2 DEF Payloads, Messages, Inv, RequestTrans, ReplyTrans, OtherMessage,
                    BareAdvertisement
<1>4. \A key \in BlockKeys : key \in Nat \X Int
  <2>1. ASSUME NEW inv \in Invs PROVE Range(inv) \subseteq Nat \X Int
    BY NodeAssumption, RangeOfSeq
  <2> QED
    BY <2>1 DEF BlockKeys
<1>5. keys \in Seq(Nat \X Int)
  <2>1. CASE keys \in Invs
    BY <2>1, NodeAssumption
  <2>2. ASSUME NEW key \in BlockKeys, keys = <<key>> PROVE keys \in Seq(Nat \X Int)
    BY <1>4, <2>2
  <2> QED
    BY <1>3, <2>1, <2>2
<1> QED
  BY <1>3, <1>5 DEF Inv

\* A wanted key is named at least once by the message.
LEMMA WantedKeysAreNamed ==
  ASSUME WireInv, Case("INV"), NEW key
  PROVE  /\ TimesNamed(key) \in Nat
         /\ key \in WantedKeys => TimesNamed(key) # 0
<1> DEFINE places == {i \in DOMAIN document.inv : document.inv[i] = key}
<1>1. DOMAIN document.inv = 1 .. Len(document.inv) /\ Len(document.inv) \in Nat
  BY InvListType, LenProperties
<1>2. IsFiniteSet(places)
  <2>1. IsFiniteSet(1 .. Len(document.inv))
    BY <1>1, FS_Interval
  <2>2. places \subseteq 1 .. Len(document.inv)
    BY <1>1
  <2> HIDE DEF places
  <2> QED
    BY <2>1, <2>2, FS_Subset
<1>3. key \in WantedKeys => places # {}
  BY DEF WantedKeys, Range
<1>4. TimesNamed(key) = Cardinality(places)
  BY DEF TimesNamed
<1> HIDE DEF places
<1> QED
  BY <1>2, <1>3, <1>4, FS_CardinalityType, FS_EmptySet

\* What push_backs of a peer, up to the bound MaxQueue, make of a queue
\* (blockchain-node.cc:349).
LEMMA QueueAfterPush ==
  ASSUME NEW q \in Seq(Peers), NEW times \in Nat, NEW p \in Peers
  PROVE  /\ PushPeer(q, p, times) \in Seq(Peers)
         /\ Range(PushPeer(q, p, times)) \subseteq Range(q) \cup {p}
         /\ times = 0 => Range(PushPeer(q, p, times)) \subseteq Range(q)
         /\ PushPeer(q, p, times) = <<>> <=> q = <<>> /\ times = 0
         /\ q # <<>> => Head(PushPeer(q, p, times)) = Head(q)
<1> DEFINE more == [i \in 1 .. times |-> p]
           all == q \o more
           n == Min({Len(all), MaxQueue})
           r == SubSeq(all, 1, n)
<1>1. /\ more \in Seq(Peers)
      /\ Len(more) = times
      /\ \A i \in 1 .. times : more[i] = p
  <2>1. more \in [1 .. times -> Peers]
    OBVIOUS
  <2>2. more \in Seq(Peers)
    BY <2>1, SeqDef
  <2>3. DOMAIN more = 1 .. times
    OBVIOUS
  <2> HIDE DEF more
  <2>4. Len(more) = times
    BY <2>2, <2>3, LenProperties
  <2> QED
    BY <2>2, <2>4 DEF more
<1> HIDE DEF more
<1>2. /\ all \in Seq(Peers)
      /\ Len(all) = Len(q) + times
      /\ \A i \in 1 .. Len(q) + times : all[i] = IF i <= Len(q) THEN q[i] ELSE more[i - Len(q)]
  BY <1>1, ConcatProperties
<1>3. Len(q) \in Nat /\ MaxQueue \in Nat \ {0}
  BY NodeAssumption, LenProperties
<1> HIDE DEF all
<1>4. n \in 0 .. Len(all) /\ (Len(all) # 0 => n >= 1)
  <2>1. {Len(all), MaxQueue} \subseteq Nat /\ {Len(all), MaxQueue} # {}
    BY <1>2, <1>3
  <2>2. n \in {Len(all), MaxQueue} /\ n <= Len(all)
    BY <2>1, StoreAssumption, StoreProofs!LeastNat DEF Min, StoreProofs!Min
  <2> QED
    BY <1>2, <1>3, <2>2
<1> HIDE DEF n
<1>5. /\ r \in Seq(Peers)
      /\ Len(r) = n
      /\ n >= 1 => r[1] = all[1]
      /\ \A i \in 1 .. n : r[i] = all[i]
  <2>1. \A i \in 1 .. n : all[i] \in Peers
    BY <1>2, <1>3, <1>4, ElementOfSeq
  <2> QED
    BY <1>2, <1>3, <1>4, <2>1, SubSeqProperties
<1> HIDE DEF r
<1>6. r = <<>> <=> n = 0
  BY <1>5, EmptySeq
<1>7. q = <<>> <=> Len(q) = 0
  BY EmptySeq
<1>8. /\ r # <<>> => Head(r) = r[1]
      /\ q # <<>> => Head(q) = q[1]
  BY <1>5, HeadTailProperties
<1>9. q # <<>> => all[1] = q[1]
  BY <1>1, <1>2, <1>3, <1>7
<1>10. ASSUME NEW i \in 1 .. n
       PROVE  /\ r[i] \in Range(q) \cup {p}
              /\ times = 0 => r[i] \in Range(q)
  <2>1. r[i] = all[i] /\ i \in 1 .. Len(q) + times
    BY <1>2, <1>3, <1>4, <1>5, <1>10
  <2>2. CASE i <= Len(q)
    <3>1. i \in DOMAIN q
      BY <1>3, <1>4, <1>10, <2>2, LenProperties
    <3> QED
      BY <1>2, <2>1, <2>2, <3>1 DEF Range
  <2>3. CASE i > Len(q)
    <3>1. i - Len(q) \in 1 .. times
      BY <1>3, <2>1, <2>3
    <3> QED
      BY <1>1, <1>2, <1>3, <2>1, <2>3, <3>1
  <2> QED
    BY <1>3, <2>1, <2>2, <2>3
<1>11. /\ Range(r) \subseteq Range(q) \cup {p}
       /\ times = 0 => Range(r) \subseteq Range(q)
  <2>1. DOMAIN r = 1 .. n
    BY <1>5, LenProperties
  <2> QED
    BY <1>10, <2>1 DEF Range
<1>12. /\ r \in Seq(Peers)
       /\ r = <<>> <=> q = <<>> /\ times = 0
       /\ q # <<>> => Head(r) = Head(q)
  BY <1>2, <1>3, <1>4, <1>5, <1>6, <1>7, <1>8, <1>9
<1> QED
  BY <1>11, <1>12 DEF r, n, all, more, PushPeer

\* Peers that join a queue join it behind those that are there, and the bound
\* MaxQueue never keeps the first one out (blockchain-node.cc:349).
LEMMA QueueKeepsHead ==
  ASSUME NEW q \in Seq(Peers), NEW times \in Nat, NEW p \in Peers
  PROVE  /\ PushPeer(q, p, times) \in Seq(Peers)
         /\ PushPeer(q, p, times) = <<>> <=> q = <<>> /\ times = 0
         /\ q # <<>> => Head(PushPeer(q, p, times)) = Head(q)
         /\ q = <<>> /\ times # 0 => Head(PushPeer(q, p, times)) = p
<1>1. PushPeer(q, p, times) \in Seq(Peers)
  BY QueueAfterPush
<1>2. PushPeer(q, p, times) = <<>> <=> q = <<>> /\ times = 0
  BY QueueAfterPush
<1>3. q # <<>> => Head(PushPeer(q, p, times)) = Head(q)
  BY QueueAfterPush
<1>4. ASSUME q = <<>>, times # 0
      PROVE  Head(PushPeer(q, p, times)) = p
  <2> DEFINE r == PushPeer(q, p, times)
  <2>1. r \in Seq(Peers) /\ r # <<>>
    BY <1>1, <1>2, <1>4
  <2>2. Range(r) \subseteq Range(q) \cup {p}
    BY QueueAfterPush
  <2>3. Range(q) = {}
    BY <1>4 DEF Range
  <2> HIDE DEF r
  <2>4. 1 \in DOMAIN r /\ Head(r) = r[1]
    BY <2>1, LenProperties, EmptySeq, HeadTailProperties
  <2>5. r[1] \in Range(r)
    BY <2>4 DEF Range
  <2>6. Head(r) = p
    BY <2>2, <2>3, <2>4, <2>5
  <2> QED
    BY <2>6 DEF r
<1> QED
  BY <1>1, <1>2, <1>3, <1>4

\* A queue gains nobody but the peer that is pushed.
LEMMA QueueGainsSender ==
  ASSUME NEW q \in Seq(Peers), NEW times \in Nat, NEW p \in Peers
  PROVE  /\ Range(PushPeer(q, p, times)) \subseteq Range(q) \cup {p}
         /\ times = 0 => Range(PushPeer(q, p, times)) \subseteq Range(q)
BY QueueAfterPush

\* One INV opens or leaves the three books of each key together
\* (blockchain-node.cc:335-349).
LEMMA HandleInvRequests ==
  ASSUME WireInv, RequestInv, HandleInv
  PROVE  RequestInv'
<1> DEFINE times(key) == IF key \in WantedKeys THEN TimesNamed(key) ELSE 0
           r(key) == PushPeer(m_queueInv[key], from, times(key))
<1>1. /\ Case("INV")
      /\ from \in Peers
      /\ m_queueInv' = [key \in BlockKeys |-> r(key)]
      /\ m_invTimeouts' = m_invTimeouts \cup (WantedKeys \ m_invTimeouts)
      /\ asked' = [key \in BlockKeys |->
                     IF key \in WantedKeys \ m_invTimeouts THEN Append(asked[key], from)
                     ELSE asked[key]]
  BY DEF HandleInv, Queued, requestBlocks, AskFor, Case, WireInv
<1>2. ASSUME NEW key \in BlockKeys
      PROVE  /\ m_queueInv[key] \in Seq(Peers)
             /\ asked[key] \in Seq(Peers)
             /\ times(key) \in Nat
             /\ key \in WantedKeys <=> times(key) # 0
  BY <1>1, <1>2, WantedKeysAreNamed DEF RequestInv
<1> HIDE DEF times
<1>3. ASSUME NEW key \in BlockKeys
      PROVE  /\ r(key) \in Seq(Peers)
             /\ r(key) = <<>> <=> m_queueInv[key] = <<>> /\ key \notin WantedKeys
             /\ m_queueInv[key] # <<>> => Head(r(key)) = Head(m_queueInv[key])
             /\ m_queueInv[key] = <<>> /\ key \in WantedKeys => Head(r(key)) = from
  BY <1>1, <1>2, QueueKeepsHead
<1> HIDE DEF r
<1>4. ASSUME NEW key \in BlockKeys
      PROVE  /\ asked'[key] \in Seq(Peers)
             /\ m_queueInv'[key] \in Seq(Peers)
             /\ Len(asked'[key]) <= 1
             /\ key \in m_invTimeouts' <=> asked'[key] # <<>>
             /\ key \in m_invTimeouts' <=> m_queueInv'[key] # <<>>
             /\ key \in m_invTimeouts' => Head(m_queueInv'[key]) = Head(asked'[key])
  <2>1. /\ Len(asked[key]) <= 1
        /\ key \in m_invTimeouts <=> asked[key] # <<>>
        /\ key \in m_invTimeouts <=> m_queueInv[key] # <<>>
        /\ key \in m_invTimeouts => Head(m_queueInv[key]) = Head(asked[key])
    BY <1>4 DEF RequestInv, OneRequestPerBlock, AskedPeerHeadsQueue
  <2>2. m_queueInv'[key] = r(key)
    BY <1>1, <1>4
  <2>3. CASE key \in WantedKeys \ m_invTimeouts
    <3>1. asked[key] = <<>> /\ m_queueInv[key] = <<>>
      BY <2>1, <2>3
    <3>2. asked'[key] = <<from>>
      <4>1. asked'[key] = Append(asked[key], from)
        BY <1>1, <1>4, <2>3
      <4>2. Append(<<>>, from) = <<from>>
        OBVIOUS
      <4> QED
        BY <3>1, <4>1, <4>2
    <3>3. key \in m_invTimeouts' /\ r(key) # <<>> /\ Head(r(key)) = from
      BY <1>1, <1>3, <1>4, <2>3, <3>1
    <3>4. <<from>> \in Seq(Peers) /\ Len(<<from>>) = 1 /\ <<from>> # <<>> /\ Head(<<from>>) = from
      BY <1>1
    <3> QED
      BY <1>3, <1>4, <2>2, <3>2, <3>3, <3>4
  <2>4. CASE key \notin WantedKeys \ m_invTimeouts
    <3>1. asked'[key] = asked[key] /\ (key \in m_invTimeouts' <=> key \in m_invTimeouts)
      BY <1>1, <1>4, <2>4
    <3> QED
      BY <1>2, <1>3, <1>4, <2>1, <2>2, <2>4, <3>1
  <2> QED
    BY <2>3, <2>4
<1>5. asked' \in [BlockKeys -> Seq(Peers)] /\ m_queueInv' \in [BlockKeys -> Seq(Peers)]
  BY <1>1, <1>4
<1> QED
  BY <1>4, <1>5 DEF RequestInv, OneRequestPerBlock, AskedPeerHeadsQueue

\* No other step touches a timer, a queue or a request.
LEMMA RequestInductive ==
  /\ Init => RequestInv
  /\ WireInv /\ RequestInv /\ [Next]_vars => RequestInv'
<1>1. Init => RequestInv
  <2>1. <<>> \in Seq(Peers) /\ Len(<<>>) = 0
    BY EmptySeq
  <2> QED
    BY <2>1 DEF Init, RequestInv, OneRequestPerBlock, AskedPeerHeadsQueue
<1>2. ASSUME WireInv, RequestInv, [Next]_vars PROVE RequestInv'
  <2>1. CASE UNCHANGED <<m_invTimeouts, m_queueInv, asked>>
    BY <1>2, <2>1 DEF RequestInv, OneRequestPerBlock, AskedPeerHeadsQueue
  <2>2. CASE HandleInv
    BY <1>2, <2>2, HandleInvRequests
  <2>3. CASE Handle /\ ~HandleInv
    BY <2>1, <2>3 DEF Handle, EndorseTransactions, StoreTransactions, ClientIgnores,
                      HandleReplyTrans, HandleDefault, MessageMissing, protocol
  <2>4. CASE UNCHANGED protocol
    BY <2>1, <2>4 DEF protocol
  <2>5. CASE UNCHANGED vars
    BY <2>4, <2>5 DEF vars
  <2> QED
    BY <1>2, <2>2, <2>3, <2>4, <2>5, NextCases
<1> QED
  BY <1>1, <1>2

\* A block is asked for once, and the blocks asked for are those with a timer,
\* however often an INV is handled and whatever it repeats
\* (blockchain-node.cc:335-349).
THEOREM BlocksAskedForOnce == Spec => []OneRequestPerBlock
<1>1. RequestInv => OneRequestPerBlock
  BY DEF RequestInv
<1> QED
  BY <1>1, WireInductive, RequestInductive, PTL DEF Spec

\* A key has a timer exactly if it has a queue, and the peer that was asked is
\* the first in it (blockchain-node.cc:339-349).
THEOREM QueueStartsWithAsked == Spec => []AskedPeerHeadsQueue
<1>1. RequestInv => AskedPeerHeadsQueue
  BY DEF RequestInv
<1> QED
  BY <1>1, WireInductive, RequestInductive, PTL DEF Spec

-----------------------------------------------------------------------------
(* Transactions.                                                           *)

\* No two are the same transaction.
Distinct(transactions) ==
  \A i, j \in DOMAIN transactions :
    IsTransaction(transactions[i], transactions[j].nodeId, transactions[j].transId) => i = j

\* Transactions that begin with others, and repeat none.
Extends(after, before) ==
  /\ after \in Seq(TransactionType)
  /\ Distinct(after)
  /\ Len(before) <= Len(after)
  /\ \A i \in 1 .. Len(before) : after[i] = before[i]

TransactionInv ==
  /\ m_transaction \in Seq(TransactionType)
  /\ executed \in Seq(TransactionType)
  /\ EndorsedOnce

\* A transaction is stored behind the others, unless it is there
\* (blockchain-node.cc:391-407).
LEMMA StoreOne ==
  ASSUME NEW before, NEW after, Extends(after, before), Len(before) \in Nat,
         NEW t \in [nodeId: Int, transId: Int]
  PROVE  Extends(StoreIfNew(after, t), before)
<1> DEFINE new == NewTransaction(t.nodeId, t.transId)
           longer == Append(after, new)
<1>1. CASE HasTransactionIn(after, t)
  BY <1>1 DEF StoreIfNew
<1>2. CASE ~HasTransactionIn(after, t)
  <2>1. new \in TransactionType
    BY DEF NewTransaction, TransactionType
  <2>2. new.nodeId = t.nodeId /\ new.transId = t.transId
    BY DEF NewTransaction
  <2> HIDE DEF new
  <2>3. after \in Seq(TransactionType) /\ Len(after) \in Nat
    BY LenProperties DEF Extends
  <2>4. /\ longer \in Seq(TransactionType)
        /\ Len(longer) = Len(after) + 1
        /\ \A i \in 1 .. Len(after) : longer[i] = after[i]
        /\ longer[Len(after) + 1] = new
    BY <2>1, <2>3, AppendProperties
  <2> HIDE DEF longer
  <2>5. DOMAIN longer = 1 .. Len(after) + 1 /\ DOMAIN after = 1 .. Len(after)
    BY <2>3, <2>4, LenProperties
  <2>6. \A i \in 1 .. Len(after) : ~IsTransaction(after[i], t.nodeId, t.transId)
    BY <1>2, <2>5 DEF HasTransactionIn
  <2>7. ASSUME NEW i \in 1 .. Len(after) + 1, NEW j \in 1 .. Len(after) + 1,
               longer[i].nodeId = longer[j].nodeId, longer[i].transId = longer[j].transId
        PROVE  i = j
    <3>1. CASE i # Len(after) + 1 /\ j # Len(after) + 1
      <4>1. i \in 1 .. Len(after) /\ j \in 1 .. Len(after)
        BY <2>3, <3>1
      <4> QED
        BY <2>4, <2>5, <2>7, <4>1 DEF Extends, Distinct, IsTransaction
    <3>2. CASE i = Len(after) + 1 /\ j # Len(after) + 1
      <4>1. j \in 1 .. Len(after)
        BY <2>3, <3>2
      <4> QED
        BY <2>2, <2>4, <2>6, <2>7, <3>2, <4>1 DEF IsTransaction
    <3>3. CASE i # Len(after) + 1 /\ j = Len(after) + 1
      <4>1. i \in 1 .. Len(after)
        BY <2>3, <3>3
      <4> QED
        BY <2>2, <2>4, <2>6, <2>7, <3>3, <4>1 DEF IsTransaction
    <3> QED
      BY <3>1, <3>2, <3>3
  <2>8. Distinct(longer)
    BY <2>5, <2>7 DEF Distinct, IsTransaction
  <2>9. Len(before) <= Len(longer) /\ \A i \in 1 .. Len(before) : longer[i] = before[i]
    BY <2>3, <2>4 DEF Extends
  <2>10. StoreIfNew(after, t) = longer
    BY <1>2 DEF StoreIfNew, longer, new
  <2> QED
    BY <2>4, <2>8, <2>9, <2>10 DEF Extends
<1> QED
  BY <1>1, <1>2

\* The function f is the loop over transactions ts that starts with first.
AreStored(f, first, n, ts) ==
  f = [i \in 0 .. n |-> IF i = 0 THEN first ELSE StoreIfNew(f[i - 1], ts[i])]

\* The loop over the transactions of a message has its values.
LEMMA StoredExists ==
  ASSUME NEW S, NEW first \in S, NEW n \in Nat, NEW ts,
         \A s \in S, i \in 1 .. n : StoreIfNew(s, ts[i]) \in S
  PROVE  \E f : AreStored(f, first, n, ts)
<1> DEFINE next == [x \in S \X (1 .. n) |-> StoreIfNew(x[1], ts[x[2]])]
<1>1. StoreProofs!IsStep(next, S, n)
  BY DEF StoreProofs!IsStep
<1>2. \A s \in S, i \in 1 .. n : next[<<s, i>>] = StoreIfNew(s, ts[i])
  OBVIOUS
<1> HIDE DEF next
<1>3. PICK f : StoreProofs!IsLoop(f, S, first, n, next)
  BY <1>1, StoreAssumption, StoreProofs!LoopExists
<1>4. ASSUME NEW i \in 0 .. n
      PROVE  f[i] = IF i = 0 THEN first ELSE StoreIfNew(f[i - 1], ts[i])
  <2>1. CASE i # 0
    <3>1. i - 1 \in 0 .. n /\ i \in 1 .. n
      BY <2>1
    <3> QED
      BY <1>2, <1>3, <2>1, <3>1 DEF StoreProofs!IsLoop
  <2> QED
    BY <1>3, <2>1 DEF StoreProofs!IsLoop
<1>5. f = [i \in 0 .. n |-> f[i]]
  BY <1>3 DEF StoreProofs!IsLoop
<1> QED
  BY <1>4, <1>5 DEF AreStored

\* The loop over the transactions of a message stores them one behind the other
\* (blockchain-node.cc:389-423).
LEMMA StoreAll ==
  ASSUME m_transaction \in Seq(TransactionType), Distinct(m_transaction),
         document.transactions \in Seq([nodeId: Int, transId: Int])
  PROVE  Extends(TransactionsAfter, m_transaction)
<1> DEFINE ts == document.transactions
           n == Len(ts)
<1>1. n \in Nat /\ Len(m_transaction) \in Nat
      /\ \A i \in 1 .. n : ts[i] \in [nodeId: Int, transId: Int]
  BY LenProperties, ElementOfSeq
<1>2. Stored = [i \in 0 .. n |-> IF i = 0 THEN m_transaction
                                 ELSE StoreIfNew(Stored[i - 1], ts[i])]
  <2>1. \E f : AreStored(f, m_transaction, n, ts)
    <3>1. PICK S : S = Seq(TransactionType)
      OBVIOUS
    <3>2. ASSUME NEW s \in S, NEW i \in 1 .. n
          PROVE  StoreIfNew(s, ts[i]) \in S
      <4>1. NewTransaction(ts[i].nodeId, ts[i].transId) \in TransactionType
        BY <1>1 DEF NewTransaction, TransactionType
      <4> QED
        BY <3>1, <3>2, <4>1, AppendProperties DEF StoreIfNew
    <3> HIDE DEF n, ts
    <3>3. m_transaction \in S /\ n \in Nat
      BY <1>1, <3>1
    <3> QED
      BY <3>2, <3>3, StoredExists
  <2> QED
    BY <2>1 DEF AreStored, Stored
<1>3. \A i \in 0 .. n : Stored[i] = IF i = 0 THEN m_transaction
                                     ELSE StoreIfNew(Stored[i - 1], ts[i])
  BY <1>2
<1> HIDE DEF n
<1> DEFINE I == {i \in 0 .. n : Extends(Stored[i], m_transaction)}
<1>4. 0 \in I
  BY <1>1, <1>3 DEF Extends
<1>5. ASSUME NEW i \in 1 .. n, i - 1 \in I PROVE i \in I
  <2>1. i \in 0 .. n /\ i # 0
    BY <1>1
  <2>2. Stored[i] = StoreIfNew(Stored[i - 1], ts[i])
    BY <1>3, <2>1
  <2>3. ts[i] \in [nodeId: Int, transId: Int]
    BY <1>1
  <2>4. Extends(Stored[i], m_transaction)
    BY <1>1, <1>5, <2>2, <2>3, StoreOne
  <2> QED
    BY <2>1, <2>4
<1>6. n \in I
  <2> HIDE DEF I
  <2>1. 0 .. n \subseteq I
    BY <1>1, <1>4, <1>5, StoreAssumption, StoreProofs!UpTo
  <2> QED
    BY <1>1, <2>1
<1> QED
  BY <1>6 DEF TransactionsAfter, n

\* The transactions of a message are those of a list that may be sent.
LEMMA RequestListType ==
  ASSUME WireInv, Case("REQUEST_TRANS")
  PROVE  document.transactions \in Seq([nodeId: Int, transId: Int])
<1>1. document \in Payloads
  BY DocumentType DEF Case, WireInv
<1>2. /\ "message" \in DOMAIN document
      /\ document.message = "REQUEST_TRANS"
  BY DEF Case
<1>3. PICK ts \in Requests : document = RequestTrans(ts)
  BY <1>1, <1>2 DEF Payloads, Messages, Inv, RequestTrans, ReplyTrans, OtherMessage,
                    BareAdvertisement
<1>4. ts \in Seq([nodeId: Int, transId: Int])
  BY NodeAssumption
<1> QED
  BY <1>3, <1>4 DEF RequestTrans

\* An endorser counts and executes what it stores, in order
\* (blockchain-node.cc:389-423).
LEMMA EndorseExecutes ==
  ASSUME NEW before \in Seq(TransactionType), NEW after, Extends(after, before), NEW done,
         done = [i \in 1 .. Len(before) |-> SetExecution(before[i], NodeId)],
         done \in Seq(TransactionType)
  PROVE  LET new  == SubSeq(after, Len(before) + 1, Len(after))
             more == [i \in DOMAIN new |-> SetExecution(new[i], NodeId)]
         IN  /\ Len(before) + Len(new) = Len(after)
             /\ done \o more = [i \in 1 .. Len(after) |-> SetExecution(after[i], NodeId)]
             /\ done \o more \in Seq(TransactionType)
<1> DEFINE n == Len(before)
           m == Len(after)
           new  == SubSeq(after, n + 1, m)
           more == [i \in DOMAIN new |-> SetExecution(new[i], NodeId)]
<1>1. /\ after \in Seq(TransactionType)
      /\ n \in Nat /\ m \in Nat /\ n <= m
      /\ \A i \in 1 .. n : after[i] = before[i]
  BY LenProperties DEF Extends
<1>2. \A i \in 1 .. m : after[i] \in TransactionType
  BY <1>1, ElementOfSeq
<1>3. /\ new \in Seq(TransactionType)
      /\ Len(new) = m - n
      /\ \A i \in 1 .. m - n : new[i] = after[n + i]
  <2>1. \A i \in n + 1 .. m : after[i] \in TransactionType
    BY <1>1, <1>2
  <2> HIDE DEF n, m
  <2>2. n + 1 \in Int /\ m \in Int
    BY <1>1
  <2>3. /\ SubSeq(after, n + 1, m) \in Seq(TransactionType)
        /\ Len(SubSeq(after, n + 1, m)) = IF n + 1 <= m THEN m - (n + 1) + 1 ELSE 0
        /\ \A i \in 1 .. m - (n + 1) + 1 : SubSeq(after, n + 1, m)[i] = after[n + 1 + i - 1]
    BY <2>1, <2>2, SubSeqProperties
  <2> QED
    BY <1>1, <2>3
<1> HIDE DEF new
<1>4. DOMAIN new = 1 .. m - n
  BY <1>1, <1>3, LenProperties
<1>5. \A t \in TransactionType : SetExecution(t, NodeId) \in TransactionType
  BY NodeAssumption DEF SetExecution, TransactionType
<1>6. more \in Seq(TransactionType) /\ Len(more) = m - n
  <2>1. \A i \in 1 .. m - n : new[i] \in TransactionType
    BY <1>3, ElementOfSeq
  <2>2. more \in [1 .. m - n -> TransactionType]
    BY <1>4, <1>5, <2>1
  <2>3. m - n \in Nat
    BY <1>1
  <2> HIDE DEF more, n, m
  <2>4. more \in Seq(TransactionType)
    BY <2>2, <2>3, SeqDef
  <2> QED
    BY <2>2, <2>3, <2>4, LenProperties
<1>7. Len(done) = n
  BY <1>1, LenProperties
<1>8. /\ done \o more \in Seq(TransactionType)
      /\ Len(done \o more) = m
      /\ \A i \in 1 .. m : (done \o more)[i] = IF i <= n THEN done[i] ELSE more[i - n]
  <2> HIDE DEF more, n, m
  <2>1. /\ done \o more \in Seq(TransactionType)
        /\ Len(done \o more) = Len(done) + Len(more)
        /\ \A i \in 1 .. Len(done) + Len(more) :
             (done \o more)[i] = IF i <= Len(done) THEN done[i] ELSE more[i - Len(done)]
    BY <1>6, ConcatProperties
  <2>2. n + (m - n) = m
    BY <1>1
  <2>3. Len(done) + Len(more) = m
    BY <1>6, <1>7, <2>2, Zenon
  <2> QED
    BY <1>7, <2>1, <2>3
<1>9. ASSUME NEW i \in 1 .. m
      PROVE  (done \o more)[i] = SetExecution(after[i], NodeId)
  <2>1. CASE i <= n
    BY <1>1, <1>8, <2>1
  <2>2. CASE ~(i <= n)
    <3>1. i - n \in 1 .. m - n /\ n + (i - n) = i
      BY <1>1, <2>2
    <3>2. more[i - n] = SetExecution(after[i], NodeId)
      BY <1>3, <1>4, <3>1
    <3> QED
      BY <1>8, <2>2, <3>2
  <2> QED
    BY <2>1, <2>2
<1>10. DOMAIN (done \o more) = 1 .. m
  BY <1>8, LenProperties
<1>11. done \o more = [i \in 1 .. m |-> SetExecution(after[i], NodeId)]
  <2>1. done \o more = [i \in 1 .. m |-> (done \o more)[i]]
    BY <1>8, <1>10
  <2> HIDE DEF more
  <2> QED
    BY <1>9, <2>1
<1>12. n + Len(new) = m
  BY <1>1, <1>3
<1> QED
  BY <1>8, <1>11, <1>12 DEF new

\* A message of transactions is stored, and executed by an endorser.
LEMMA HandleTransactions ==
  ASSUME WireInv, TransactionInv, EndorseTransactions \/ StoreTransactions
  PROVE  TransactionInv'
<1>1. /\ m_transaction \in Seq(TransactionType)
      /\ Distinct(m_transaction)
      /\ executed \in Seq(TransactionType)
      /\ m_totalEndorsement = IF m_committerType = "ENDORSER" THEN Len(m_transaction) ELSE 0
      /\ executed = [i \in 1 .. m_totalEndorsement |-> SetExecution(m_transaction[i], NodeId)]
  BY DEF TransactionInv, EndorsedOnce, Distinct
<1>2. Case("REQUEST_TRANS")
  BY DEF EndorseTransactions, StoreTransactions
<1>3. Extends(TransactionsAfter, m_transaction)
  BY <1>1, <1>2, RequestListType, StoreAll
<1>4. /\ m_transaction' = TransactionsAfter
      /\ m_committerType' = m_committerType
  BY DEF EndorseTransactions, StoreTransactions, Dispatch
<1>5. m_transaction' \in Seq(TransactionType) /\ Distinct(m_transaction')
  BY <1>3, <1>4 DEF Extends
<1>6. CASE EndorseTransactions
  <2>1. m_committerType = "ENDORSER"
    BY <1>6 DEF EndorseTransactions
  <2>2. m_totalEndorsement = Len(m_transaction)
    BY <1>1, <2>1
  <2>3. executed = [i \in 1 .. Len(m_transaction) |-> SetExecution(m_transaction[i], NodeId)]
    BY <1>1, <2>2
  <2> DEFINE new == SubSeq(TransactionsAfter, Len(m_transaction) + 1, Len(TransactionsAfter))
             more == [i \in DOMAIN new |-> SetExecution(new[i], NodeId)]
  <2>4. /\ Len(m_transaction) + Len(new) = Len(TransactionsAfter)
        /\ executed \o more
             = [i \in 1 .. Len(TransactionsAfter) |-> SetExecution(TransactionsAfter[i], NodeId)]
        /\ executed \o more \in Seq(TransactionType)
    BY <1>1, <1>3, <2>3, EndorseExecutes
  <2>5. /\ m_totalEndorsement' = m_totalEndorsement + Len(new)
        /\ executed' = executed \o more
    BY <1>6 DEF EndorseTransactions, NewTransactions
  <2> HIDE DEF new, more
  <2>6. /\ m_totalEndorsement' = Len(TransactionsAfter)
        /\ executed' = [i \in 1 .. Len(TransactionsAfter) |-> SetExecution(TransactionsAfter[i], NodeId)]
        /\ executed' \in Seq(TransactionType)
    BY <2>2, <2>4, <2>5
  <2> QED
    BY <1>4, <1>5, <2>1, <2>6 DEF TransactionInv, EndorsedOnce, Distinct
<1>7. CASE StoreTransactions
  <2>1. m_totalEndorsement' = m_totalEndorsement /\ executed' = executed
    BY <1>7 DEF StoreTransactions
  <2>2. m_committerType # "ENDORSER"
    BY <1>7 DEF StoreTransactions
  <2>3. m_totalEndorsement = 0
    BY <1>1, <2>2
  <2>4. executed' = [i \in 1 .. m_totalEndorsement' |-> SetExecution(m_transaction'[i], NodeId)]
    <3>1. 1 .. 0 = {}
      OBVIOUS
    <3> QED
      BY <1>1, <2>1, <2>3, <3>1
  <2>5. executed' \in Seq(TransactionType)
    BY <1>1, <2>1
  <2>6. m_totalEndorsement' = IF m_committerType' = "ENDORSER" THEN Len(m_transaction') ELSE 0
    BY <1>4, <2>1, <2>2, <2>3
  <2> QED
    BY <1>5, <2>4, <2>5, <2>6 DEF TransactionInv, EndorsedOnce, Distinct
<1> QED
  BY <1>6, <1>7

\* No other step stores, counts or executes a transaction.
LEMMA TransactionInductive ==
  /\ Init => TransactionInv
  /\ WireInv /\ TransactionInv /\ [Next]_vars => TransactionInv'
<1>1. ASSUME Init PROVE TransactionInv
  <2>1. /\ m_transaction = <<>> /\ executed = <<>> /\ m_totalEndorsement = 0
    BY <1>1 DEF Init
  <2>2. <<>> \in Seq(TransactionType) /\ Len(<<>>) = 0 /\ DOMAIN <<>> = {}
    BY EmptySeq
  <2>3. executed = [i \in 1 .. 0 |-> SetExecution(m_transaction[i], NodeId)]
    BY <2>1
  <2> QED
    BY <2>1, <2>2, <2>3 DEF TransactionInv, EndorsedOnce
<1>2. ASSUME WireInv, TransactionInv, [Next]_vars PROVE TransactionInv'
  <2>1. CASE UNCHANGED <<m_transaction, executed, m_totalEndorsement, m_committerType>>
    BY <1>2, <2>1 DEF TransactionInv, EndorsedOnce
  <2>2. CASE EndorseTransactions \/ StoreTransactions
    BY <1>2, <2>2, HandleTransactions
  <2>3. [Next]_vars => m_committerType' = m_committerType
    BY DEF Next, Handler, vars, AdvertiseNewBlock, Send, ReceiveBlock, HandleRead, RecvFrom,
           Return, DropRemainder, EraseCorrupted, Parse, OnlyMoves, HandleInv,
           EndorseTransactions, StoreTransactions, ClientIgnores, HandleReplyTrans,
           HandleDefault, MessageMissing, Dispatch
  <2>4. CASE Handle /\ ~(EndorseTransactions \/ StoreTransactions)
    BY <1>2, <2>1, <2>3, <2>4 DEF Handle, HandleInv, ClientIgnores, HandleReplyTrans,
                                  HandleDefault, MessageMissing, protocol
  <2>5. CASE UNCHANGED protocol
    BY <1>2, <2>1, <2>3, <2>5 DEF protocol
  <2>6. CASE UNCHANGED vars
    BY <2>5, <2>6 DEF vars
  <2> QED
    BY <1>2, <2>2, <2>4, <2>5, <2>6, NextCases
<1> QED
  BY <1>1, <1>2

\* No transaction is stored twice, and an endorser counts and executes those it
\* stored, in their order, however often a message is handled and whatever it
\* repeats (blockchain-node.cc:397-420).
THEOREM TransactionsEndorsedOnce == Spec => []EndorsedOnce
<1>1. TransactionInv => EndorsedOnce
  BY DEF TransactionInv
<1> QED
  BY <1>1, WireInductive, TransactionInductive, PTL DEF Spec

-----------------------------------------------------------------------------
(* The types, those of the store included, whose theorems are used here.   *)

\* What a node does with its store are steps of the store.
LEMMA StoreInductive ==
  /\ Init => StoreProofs!StoreInv
  /\ StoreProofs!StoreInv /\ [Next]_vars => StoreProofs!StoreInv'
<1>1. ASSUME Init PROVE StoreProofs!StoreInv
  <2>1. m_blockchain!Init
    BY <1>1 DEF Init
  <2>2. StoreProofs!Init
    BY <2>1, SameStore DEF m_blockchain!Init, StoreProofs!Init
  <2> QED
    BY <2>2, NodeAssumption, SameStore, StoreProofs!InitStoreInv
       DEF StoreProofs!BlocksAssumption
<1>2. ASSUME StoreProofs!StoreInv, [Next]_vars PROVE StoreProofs!StoreInv'
  <2>1. [StoreProofs!Next]_store
    <3>1. ASSUME NEW b \in Blocks, ReceiveBlock(b)
          PROVE  StoreProofs!Next
      <4>1. m_blockchain!AddBlock(b) \/ m_blockchain!AddOrphan(b)
        BY <3>1 DEF ReceiveBlock
      <4>2. StoreProofs!AddBlock(b) \/ StoreProofs!AddOrphan(b)
        BY <4>1, SameStore DEF m_blockchain!AddBlock, StoreProofs!AddBlock,
                               m_blockchain!AddOrphan, StoreProofs!AddOrphan
      <4> QED
        BY <4>2 DEF StoreProofs!Next
    <3>2. CASE ~ \E b \in Blocks : ReceiveBlock(b)
      BY <1>2, <3>2 DEF Next, Handler, vars, AdvertiseNewBlock, Send, HandleRead, RecvFrom,
             Return, DropRemainder, EraseCorrupted, Parse, OnlyMoves, HandleInv,
             EndorseTransactions, StoreTransactions, ClientIgnores, HandleReplyTrans,
             HandleDefault, MessageMissing, Dispatch
    <3> QED
      BY <3>1, <3>2
  <2>2. [StoreProofs!Next]_StoreProofs!vars
    BY <2>1 DEF store, StoreProofs!vars
  <2> QED
    BY <1>2, <2>2, NodeAssumption, SameStore, StoreProofs!NextStoreInv
       DEF StoreProofs!BlocksAssumption
<1> QED
  BY <1>1, <1>2

\* The types of what the other invariants leave out.
PlaceInv ==
  /\ m_committerType \in CommitterTypes
  /\ m_invTimeouts \subseteq BlockKeys
  /\ pc \in {"idle", "receive", "parse", "dispatch", "aborted"}
  /\ numSent \in 0 .. MaxSent

\* The keys of an INV are keys of blocks.
LEMMA WantedKeysType ==
  ASSUME WireInv, Case("INV")
  PROVE  WantedKeys \subseteq BlockKeys
<1>1. document \in Payloads
  BY DocumentType DEF Case, WireInv
<1>2. /\ "message" \in DOMAIN document
      /\ document.message = "INV"
  BY DEF Case
<1>3. PICK keys : document = Inv(keys) /\ (keys \in Invs \/ \E key \in BlockKeys : keys = <<key>>)
  BY <1>1, <1>2 DEF Payloads, Messages, Inv, RequestTrans, ReplyTrans, OtherMessage,
                    BareAdvertisement
<1>4. document.inv = keys
  BY <1>3 DEF Inv
<1>5. CASE keys \in Invs
  BY <1>4, <1>5 DEF BlockKeys, WantedKeys
<1>6. ASSUME NEW key \in BlockKeys, keys = <<key>>
      PROVE  WantedKeys \subseteq BlockKeys
  <2>1. Range(<<key>>) = {key}
    BY DEF Range
  <2> QED
    BY <1>4, <1>6, <2>1 DEF WantedKeys
<1> QED
  BY <1>3, <1>5, <1>6

\* Every step keeps these types.
LEMMA PlaceInductive ==
  /\ Init => PlaceInv
  /\ WireInv /\ PlaceInv /\ [Next]_vars => PlaceInv'
<1>1. Init => PlaceInv
  BY NodeAssumption DEF Init, PlaceInv
<1>2. ASSUME WireInv, PlaceInv, [Next]_vars PROVE PlaceInv'
  <2>1. ASSUME NEW p \in Peers, NEW m, Send(p, m) PROVE PlaceInv'
    BY <1>2, <2>1, NodeAssumption DEF PlaceInv, Send, protocol
  <2>2. ASSUME NEW p \in Peers, NEW key, AdvertiseNewBlock(p, key) PROVE PlaceInv'
    BY <2>1, <2>2 DEF AdvertiseNewBlock
  <2>3. ASSUME NEW b \in Blocks, ReceiveBlock(b) PROVE PlaceInv'
    BY <1>2, <2>3 DEF PlaceInv, ReceiveBlock, protocol, wire
  <2>4. ASSUME NEW p \in Peers, HandleRead(p) PROVE PlaceInv'
    BY <1>2, <2>4 DEF PlaceInv, HandleRead, OnlyMoves, protocol, wire
  <2>5. CASE RecvFrom \/ Return \/ DropRemainder \/ EraseCorrupted \/ Parse
    BY <1>2, <2>5 DEF PlaceInv, RecvFrom, Return, DropRemainder, EraseCorrupted, Parse,
                      OnlyMoves, protocol, wire
  <2>6. CASE HandleInv
    <3>1. WantedKeys \subseteq BlockKeys
      BY <1>2, <2>6, WantedKeysType DEF HandleInv
    <3> QED
      BY <1>2, <2>6, <3>1 DEF PlaceInv, HandleInv, requestBlocks, Dispatch, wire
  <2>7. CASE Handle /\ ~HandleInv
    BY <1>2, <2>7 DEF Handle, PlaceInv, EndorseTransactions, StoreTransactions, ClientIgnores,
                      HandleReplyTrans, HandleDefault, MessageMissing, Dispatch, protocol, wire
  <2>8. CASE UNCHANGED vars
    BY <1>2, <2>8 DEF PlaceInv, vars, protocol, wire
  <2> QED
    BY <1>2, <2>1, <2>2, <2>3, <2>4, <2>5, <2>6, <2>7, <2>8 DEF Next, Handler, Handle
<1> QED
  BY <1>1, <1>2

\* The variables of a node have their types in every state
\* (blockchain-node.h:98-147).
THEOREM NodeTypeCorrect == Spec => []TypeOK
<1>1. ASSUME WireInv, RequestInv, TransactionInv, StoreProofs!StoreInv, PlaceInv
      PROVE  TypeOK
  <2>1. m_blockchain!TypeOK
    BY <1>1, SameStore DEF StoreProofs!StoreInv, StoreProofs!TypeOK, m_blockchain!TypeOK
  <2>2. m_totalEndorsement \in Nat
    <3>1. Len(m_transaction) \in Nat
      BY <1>1, LenProperties DEF TransactionInv
    <3> QED
      BY <1>1, <3>1 DEF TransactionInv, EndorsedOnce
  <2> QED
    BY <1>1, <2>1, <2>2 DEF TypeOK, WireInv, RequestInv, TransactionInv, PlaceInv
<1> QED
  BY <1>1, WireInductive, RequestInductive, TransactionInductive, StoreInductive,
     PlaceInductive, PTL DEF Spec

-----------------------------------------------------------------------------
(* The announcers in the queues.                                           *)

\* A block that has come stays (blockchain.cc:169-195).
LEMMA ReceivedStays ==
  ASSUME StoreProofs!StoreInv, [Next]_vars, NEW key, Received(key)
  PROVE  Received(key)'
<1>1. CASE UNCHANGED store
  BY <1>1 DEF store, Received
<1>2. ASSUME NEW b \in Blocks, m_blockchain!AddBlock(b)
      PROVE  Received(key)'
  <2>1. m_orphans' = m_orphans
    BY <1>2 DEF m_blockchain!AddBlock
  <2>2. StoreProofs!AddBlock(b)
    BY <1>2, SameStore DEF m_blockchain!AddBlock, StoreProofs!AddBlock
  <2>3. ASSUME NEW r \in DOMAIN m_blocks, NEW i \in DOMAIN m_blocks[r]
        PROVE  r \in DOMAIN m_blocks' /\ i \in DOMAIN m_blocks'[r] /\ m_blocks'[r][i] = m_blocks[r][i]
    <3>1. /\ r \in DOMAIN m_blocks'
          /\ m_blocks[r] \in Seq(StoreProofs!BlockType)
          /\ m_blocks'[r] \in Seq(StoreProofs!BlockType)
          /\ Len(m_blocks[r]) <= Len(m_blocks'[r])
          /\ \A k \in 1 .. Len(m_blocks[r]) : m_blocks'[r][k] = m_blocks[r][k]
      BY <2>2, StoreAssumption, StoreProofs!AddBlockExtendsRows
    <3>2. /\ DOMAIN m_blocks[r] = 1 .. Len(m_blocks[r]) /\ Len(m_blocks[r]) \in Nat
          /\ DOMAIN m_blocks'[r] = 1 .. Len(m_blocks'[r]) /\ Len(m_blocks'[r]) \in Nat
      BY <3>1, LenProperties
    <3> QED
      BY <3>1, <3>2
  <2> QED
    BY <2>1, <2>3 DEF Received
<1>3. ASSUME NEW b \in Blocks, m_blockchain!AddOrphan(b)
      PROVE  Received(key)'
  <2>1. m_blocks' = m_blocks /\ m_orphans' = StoreProofs!PushBack(m_orphans, b)
    BY <1>3, SameStore DEF m_blockchain!AddOrphan
  <2>2. m_orphans \in Seq(StoreProofs!BlockType) /\ b \in StoreProofs!BlockType
    BY NodeAssumption, SameStore DEF StoreProofs!StoreInv, StoreProofs!TypeOK
  <2>3. /\ m_orphans' \in Seq(StoreProofs!BlockType)
        /\ Len(m_orphans') = Len(m_orphans) + 1
        /\ \A i \in 1 .. Len(m_orphans) : m_orphans'[i] = m_orphans[i]
    BY <2>1, <2>2, StoreAssumption, StoreProofs!PushBackProperties
  <2>4. \A i \in DOMAIN m_orphans : i \in DOMAIN m_orphans' /\ m_orphans'[i] = m_orphans[i]
    BY <2>2, <2>3, LenProperties
  <2> QED
    BY <2>1, <2>4 DEF Received
<1>4. CASE \A b \in Blocks : ~ ReceiveBlock(b)
  <2>1. UNCHANGED store
    BY <1>4 DEF Next, Handler, vars, AdvertiseNewBlock, Send, HandleRead, RecvFrom, Return,
                DropRemainder, EraseCorrupted, Parse, OnlyMoves, HandleInv,
                EndorseTransactions, StoreTransactions, ClientIgnores, HandleReplyTrans,
                HandleDefault, MessageMissing, Dispatch
  <2> QED
    BY <1>1, <2>1
<1> QED
  BY <1>2, <1>3, <1>4 DEF ReceiveBlock

\* What HasBlock and isOrphan find has come (blockchain.cc:44-56, 89-96).
LEMMA FoundIsReceived ==
  ASSUME StoreProofs!StoreInv, NEW key \in Nat \X Int, AlreadyReceived(key)
  PROVE  Received(key)
<1>1. key = <<key[1], key[2]>> /\ key[1] \in Nat
  OBVIOUS
<1>2. ASSUME m_blockchain!HasBlock(key[1], key[2]) PROVE Received(key)
  <2>1. key[1] + 1 \in DOMAIN m_blocks
    <3>1. /\ Len(m_blocks) \in Nat
          /\ DOMAIN m_blocks = 1 .. Len(m_blocks)
          /\ StoreProofs!GetBlockchainHeight = Len(m_blocks) - 1
      BY StoreAssumption, StoreProofs!RowsInReach
    <3>2. key[1] <= StoreProofs!GetBlockchainHeight
      BY <1>2, SameStore DEF m_blockchain!HasBlock
    <3> QED
      BY <1>1, <3>1, <3>2
  <2>2. PICK i \in DOMAIN m_blocks[key[1] + 1] :
          /\ m_blocks[key[1] + 1][i].blockHeight = key[1]
          /\ m_blocks[key[1] + 1][i].minerId = key[2]
    BY <1>2 DEF m_blockchain!HasBlock, m_blockchain!Row
  <2>3. m_blockchain!Key(m_blocks[key[1] + 1][i]) = key
    BY <1>1, <2>2 DEF m_blockchain!Key
  <2> QED
    BY <2>1, <2>2, <2>3 DEF Received
<1>3. ASSUME m_blockchain!isOrphan(key[1], key[2]) PROVE Received(key)
  BY <1>1, <1>3 DEF m_blockchain!isOrphan, m_blockchain!Key, Received
<1> QED
  BY <1>2, <1>3 DEF AlreadyReceived

\* Only an INV has a list of keys.
LEMMA OnlyAnInvHasKeys ==
  ASSUME WireInv, pc = "dispatch"
  PROVE  "inv" \in DOMAIN document <=> Case("INV")
<1>1. document \in Payloads
  BY DocumentType DEF WireInv
<1> QED
  BY <1>1 DEF Case, Payloads, Messages, Inv, RequestTrans, ReplyTrans, OtherMessage,
              BareAdvertisement

\* One INV puts its sender, and nobody else, into the queue of each key it names
\* whose block has not come (blockchain-node.cc:323-349).
LEMMA HandleInvQueues ==
  ASSUME WireInv, FirstInv, RequestInv, StoreProofs!StoreInv, QueuesHoldTheAnnouncers, HandleInv
  PROVE  QueuesHoldTheAnnouncers'
<1> DEFINE times(key) == IF key \in WantedKeys THEN TimesNamed(key) ELSE 0
           r(key) == PushPeer(m_queueInv[key], from, times(key))
           named == Range(document.inv)
<1>1. /\ Case("INV")
      /\ from \in Peers
      /\ m_queueInv' = [key \in BlockKeys |-> r(key)]
      /\ UNCHANGED store
  BY DEF HandleInv, Queued, Case, WireInv, Dispatch
<1>2. "inv" \in DOMAIN document
  BY <1>1, OnlyAnInvHasKeys DEF Case
<1>3. handled' = {<<from, document>>} /\ handled \subseteq {<<from, document>>}
  BY DEF FirstInv, HandleInv, Dispatch
<1>4. \A p, key : Announced(p, key)' <=> p = from /\ key \in named
  BY <1>2, <1>3 DEF Announced
<1>5. \A p, key : Announced(p, key) => p = from /\ key \in named
  BY <1>3 DEF Announced
<1>6. WantedKeys \subseteq named /\ \A key \in named \ WantedKeys : AlreadyReceived(key)
  BY DEF WantedKeys
<1>7. named \subseteq Nat \X Int
  BY <1>1, InvListType, RangeOfSeq
<1> HIDE DEF named
<1>8. ASSUME NEW key \in BlockKeys
      PROVE  /\ m_queueInv[key] \in Seq(Peers)
             /\ times(key) \in Nat
             /\ key \in WantedKeys <=> times(key) # 0
  BY <1>1, <1>8, WantedKeysAreNamed DEF RequestInv
<1> HIDE DEF times
<1>9. ASSUME NEW key \in BlockKeys
      PROVE  /\ r(key) \in Seq(Peers)
             /\ Range(r(key)) \subseteq Range(m_queueInv[key]) \cup {from}
             /\ key \notin WantedKeys => Range(r(key)) \subseteq Range(m_queueInv[key])
             /\ key \in WantedKeys => r(key) # <<>>
  BY <1>1, <1>8, <1>9, QueueKeepsHead, QueueGainsSender
<1> HIDE DEF r
<1>10. ASSUME NEW key \in BlockKeys
       PROVE  Range(m_queueInv[key]) \subseteq {from}
              /\ (Range(m_queueInv[key]) # {} => key \in named)
  BY <1>5, <1>10 DEF QueuesHoldTheAnnouncers
<1>11. ASSUME NEW key \in BlockKeys, NEW p \in Range(m_queueInv'[key])
       PROVE  Announced(p, key)'
  <2>1. p \in Range(r(key))
    BY <1>1, <1>11
  <2>2. p = from /\ key \in named
    BY <1>6, <1>9, <1>10, <1>11, <2>1
  <2> QED
    BY <1>4, <2>2
<1>12. ASSUME NEW key \in BlockKeys, NEW p \in Peers, Announced(p, key)'
       PROVE  p \in Range(m_queueInv'[key]) \/ Received(key)'
  <2>1. p = from /\ key \in named
    BY <1>4, <1>12
  <2>2. CASE key \in WantedKeys
    <3>1. r(key) \in Seq(Peers) /\ r(key) # <<>>
      BY <1>9, <1>12, <2>2
    <3>2. 1 \in DOMAIN r(key)
      BY <3>1, LenProperties, EmptySeq
    <3>3. r(key)[1] \in Range(r(key))
      BY <3>2 DEF Range
    <3>4. r(key)[1] = from
      BY <1>9, <1>10, <1>12, <3>3
    <3> QED
      BY <1>1, <1>12, <2>1, <3>3, <3>4
  <2>3. CASE key \notin WantedKeys
    <3>1. Received(key)
      BY <1>6, <1>7, <2>1, <2>3, FoundIsReceived
    <3> QED
      BY <1>1, <3>1 DEF store, Received
  <2> QED
    BY <2>2, <2>3
<1> QED
  BY <1>11, <1>12 DEF QueuesHoldTheAnnouncers

\* No other step touches a queue or handles an INV of a node that takes part.
LEMMA QueuesInductive ==
  /\ Init => QueuesHoldTheAnnouncers
  /\ WireInv /\ FirstInv /\ RequestInv /\ StoreProofs!StoreInv /\ QueuesHoldTheAnnouncers
       /\ [Next]_vars => QueuesHoldTheAnnouncers'
<1>1. ASSUME Init PROVE QueuesHoldTheAnnouncers
  <2>1. Range(<<>>) = {}
    BY DEF Range
  <2> QED
    BY <1>1, <2>1 DEF Init, QueuesHoldTheAnnouncers, Announced
<1>2. ASSUME WireInv, FirstInv, RequestInv, StoreProofs!StoreInv, QueuesHoldTheAnnouncers,
             [Next]_vars
      PROVE  QueuesHoldTheAnnouncers'
  <2>1. \A key : Received(key) => Received(key)'
    BY <1>2, ReceivedStays
  <2>2. ASSUME m_queueInv' = m_queueInv, m_committerType' = m_committerType, handled' = handled
        PROVE  QueuesHoldTheAnnouncers'
    <3>1. \A p, key : Announced(p, key)' <=> Announced(p, key)
      BY <2>2 DEF Announced
    <3> QED
      BY <1>2, <2>1, <2>2, <3>1 DEF QueuesHoldTheAnnouncers
  <2>3. CASE HandleInv
    BY <1>2, <2>3, HandleInvQueues
  <2>4. CASE Handle /\ ~ HandleInv
    <3>1. m_queueInv' = m_queueInv /\ m_committerType' = m_committerType
      BY <2>4 DEF Handle, EndorseTransactions, StoreTransactions, ClientIgnores,
                  HandleReplyTrans, HandleDefault, MessageMissing, protocol, Dispatch
    <3>2. pc = "dispatch" /\ (handled' = handled \/ handled' = handled \cup {<<from, document>>})
      BY <2>4, HandleCases DEF Dispatch, Abort
    <3>3. \A p, key : Announced(p, key) => Announced(p, key)'
      BY <3>2 DEF Announced
    <3>4. CASE m_committerType = "CLIENT"
      BY <1>2, <3>1, <3>3, <3>4 DEF QueuesHoldTheAnnouncers
    <3>5. CASE m_committerType # "CLIENT"
      <4>1. ~ Case("INV")
        BY <2>4, <3>5 DEF Handle, EndorseTransactions, StoreTransactions, ClientIgnores,
                          HandleReplyTrans, HandleDefault, MessageMissing, Case
      <4>2. "inv" \notin DOMAIN document
        BY <1>2, <3>2, <4>1, OnlyAnInvHasKeys
      <4>3. \A p, key : Announced(p, key)' <=> Announced(p, key)
        BY <3>2, <4>2 DEF Announced
      <4> QED
        BY <1>2, <2>1, <3>1, <4>3 DEF QueuesHoldTheAnnouncers
    <3> QED
      BY <3>4, <3>5
  <2>5. CASE Outside /\ UNCHANGED protocol
    <3>1. m_committerType' = m_committerType
      BY <1>2 DEF Next, Handler, vars, AdvertiseNewBlock, Send, ReceiveBlock, HandleRead, RecvFrom,
             Return, DropRemainder, EraseCorrupted, Parse, OnlyMoves, HandleInv,
             EndorseTransactions, StoreTransactions, ClientIgnores, HandleReplyTrans,
             HandleDefault, MessageMissing, Dispatch
    <3> QED
      BY <2>2, <2>5, <3>1 DEF Outside, protocol
  <2>6. CASE (RecvFrom \/ Return \/ DropRemainder \/ EraseCorrupted \/ Parse)
              /\ UNCHANGED protocol
    BY <2>2, <2>6 DEF RecvFrom, Return, DropRemainder, EraseCorrupted, Parse, OnlyMoves, protocol
  <2>7. CASE UNCHANGED vars
    BY <2>2, <2>7 DEF vars, protocol
  <2> QED
    BY <1>2, <2>3, <2>4, <2>5, <2>6, <2>7, NextCases
<1>3. WireInv /\ FirstInv /\ RequestInv /\ StoreProofs!StoreInv /\ QueuesHoldTheAnnouncers
        /\ [Next]_vars => QueuesHoldTheAnnouncers'
  BY <1>2
<1> QED
  BY <1>1, <1>3

\* Whom a node can turn to for a block are those who announced it, and it forgets
\* none of those whose INV it handled, until the block comes
\* (blockchain-node.cc:323-349).
THEOREM AnnouncersAreQueued == Spec => []QueuesHoldTheAnnouncers
BY WireInductive, FirstInductive, RequestInductive, StoreInductive, QueuesInductive, PTL DEF Spec

=============================================================================
