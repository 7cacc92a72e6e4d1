SPECIFICATION MCSpec
CONSTANTS
  Width = 3
  MaxLength = 9
  MaxGap = 2
INVARIANTS
  ScansAgree
  TextsReadBack
  SearchIsLanguage
PROPERTIES
  LoopsEnd
CHECK_DEADLOCK FALSE
