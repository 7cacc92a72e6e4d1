SPECIFICATION Spec
CONSTANTS
  p1 = p1
  p2 = p2
  NodeId = 7
  Peers <- TwoPeers
  ProtocolOf <- Protocols
  Invs <- InvLists
  Requests <- TransLists
  Blocks <- HeldBlocks
  MaxBlocks = 2
  MaxOrphans = 1
  MaxSent = 2
  MaxQueue = 3
INVARIANTS
  TypeOK
  OneRequestPerBlock
  AskedPeerHeadsQueue
  EndorsedOnce
  QueuesHoldTheAnnouncers
PROPERTY
  DataIsReadUntilAMessage
CHECK_DEADLOCK FALSE
