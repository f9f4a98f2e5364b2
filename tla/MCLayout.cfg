SPECIFICATION Spec
CONSTANTS
  R = R
  S = S
  TypeNames = {R, S}
  Dimensions <- MCDimensions
  MaxParts = 4
  MaxPath = 4
SYMMETRY Symmetric
CHECK_DEADLOCK FALSE
INVARIANTS DirectApart IRApart
