CONSTANTS
  Root = Root
  Names = {Root, A, B}
  Builtins = {SYSTEM}
  MaxImports = 2
  A = A
  B = B
  SYSTEM = SYSTEM
SPECIFICATION Spec
INVARIANTS TypeOK CacheIndexesLoaded NoReentry NothingLost ImportersFirst
PROPERTY ImplementsSearch
