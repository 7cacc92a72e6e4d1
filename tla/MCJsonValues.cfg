SPECIFICATION MCSpec
CONSTANTS
  Documents = {1, 2}
  MaxPools = 3
  MaxEvents = 4
  Slots = {"p", "q", "r"}
  MaxTokens = 2
  MaxCalls = 5
INVARIANTS
  PoolsOutliveValues
  StackHoldsWhatIsOpen
  ValuesOwnTheirMemory
  EqualIsSame
  PointersOwnTheirMemory
  SchemasAreMeant
PROPERTIES
  BuiltGivesTheSame
  ValuesAreTrees
  PointersActWhereTheyPoint
CHECK_DEADLOCK FALSE
