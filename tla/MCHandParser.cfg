CONSTANTS
  Tokens <- MCTokens
  MaxCalls = 8
CHECK_DEADLOCK FALSE
SPECIFICATION Spec
INVARIANTS SameLanguage SameTree
PROPERTY EveryTokenDecided
