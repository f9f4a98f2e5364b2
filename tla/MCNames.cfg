SPECIFICATION Spec
CONSTANTS
  x = x
  y = y
  Names = {x, y}
  Order <- MCOrder
  ImportLists <- MCImports
  Signatures <- MCSignatures
  MaxDecls = 3
SYMMETRY Symmetric
CHECK_DEADLOCK FALSE
INVARIANTS TypeOK SemaExact DirectFinds IRFinds CallsReach FunctionAtHand
