\* Every tree of at most 4 nodes.
CONSTANTS
  MaxNodes = 4
SPECIFICATION Spec
INVARIANTS
  TypeOK
  TerminatorLast
  AllFinished
  EdgesMatchUnlessSplit
  ReachableIffLive
PROPERTY
  BlocksAreLedgered
