CONSTANTS
  Texts <- MCTexts
  Keywords <- MCKeywords
  MaxCalls = 3
CHECK_DEADLOCK FALSE
SPECIFICATION Spec
INVARIANTS TypeOK PositionsTrue AgreesWithFlex
PROPERTIES CallsReturn IsTokenStream
