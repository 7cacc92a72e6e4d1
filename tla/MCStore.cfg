SPECIFICATION MCSpec
CONSTANTS
  Blocks <- AllBlocks
  MaxBlocks = 5
  MaxOrphans = 3
  Asked <- MCAsked
  Indefinite = {0, 1}
  Headers <- FewBlocks
INVARIANTS
  TypeOK
  HeightNamesLastRow
  BlocksLieInTheirRow
  TotalCountsPlaces
  LookupsSeeEveryBlock
  ParentsAndChildrenAgree
PROPERTIES
  TopChangesOnlyUpwards
  RowsOnlyGrow
  ImplementsLedger
  EachCallActsOnItsKey
  CallersReadWhatIsStored
CHECK_DEADLOCK FALSE
