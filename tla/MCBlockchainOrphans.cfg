SPECIFICATION Spec
CONSTANTS
  Blocks <- AllBlocks
  MaxBlocks = 4
  MaxOrphans = 3
INVARIANT
  OrphansKeepTheirTransactions
