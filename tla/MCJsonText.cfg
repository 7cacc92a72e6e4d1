SPECIFICATION MCSpec
CONSTANTS
  Chars <- MCChars
  Texts <- MCTexts
  MaxText = 7
  FlagSets <- MCFlagSets
  Stops = {0, 2, 4}
  NumberChars <- MCNumberChars
  MaxTaken = 8
  Narrow = 5
  Wide = 7
  FastBits = 5
  MaxDigits = 2
  MaxExponent = 9
  MaxDouble = 1797
  IntLimit = 119
  Modes <- MCModes
  Parsers = {"IterativeParse", "IterativeParseNext"}
  Stacks = {1, 2}
  MaxPush = 2
  MaxSize = 3
  Alignment = 2
  Header = 2
  chunk_capacity_ = 4
  UserBuffer = 4
  InitialCapacity = 1
  MemorySize = 24
INVARIANTS
  ReaderKeepsItsPlace
  ReadersAgree
  OutputReadsBack
  NumbersAreExact
  StacksShareThePool
PROPERTIES
  RoundsAdvance
CHECK_DEADLOCK FALSE
