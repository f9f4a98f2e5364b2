\* Every body of at most 4 nodes, with all operators.
CONSTANTS
  MaxNodes = 4
  Literals = {0, 2}
  Inputs <- MCInputs
  BinaryOps = {"Add", "Sub", "Mul", "Div", "Mod", "Eq", "Neq", "Lt", "Le", "Gt", "Ge"}
  UnaryOps = {"Neg", "Not"}
SPECIFICATION Spec
INVARIANTS TypeOK NeverStuck
PROPERTIES FoldingPreserves PropagationPreserves EliminationPreserves
