SPECIFICATION Spec
CONSTANTS
  p1 = p1
  p2 = p2
  NoPeer = NoPeer
  PeerLists <- Lists
  InvKeys = {"1/1"}
  MaxAdverts = 2
  MaxTransactions = 2
INVARIANTS
  TypeOK
  FailsOnlyWhenMisconfigured
  EveryPeerButTheSource
PROPERTIES
  OnlyTimersOutliveStop
CHECK_DEADLOCK FALSE
