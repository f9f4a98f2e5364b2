CONSTANTS
  MaxNodes = 4
  Literals = {0, 2}
  Inputs <- MCInputs
  BinaryOps = {"Add", "Mul"}
  UnaryOps = {"Neg"}
SPECIFICATION Spec
INVARIANT SameBehaviour
