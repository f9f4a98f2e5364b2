\* Statements with at most 4 nodes that are no leaves, calls of up to 4 arguments.
CONSTANTS
  MaxNodes = 4
  ArgRegs = 3
  MaxArgs = 4
SPECIFICATION Spec
INVARIANTS TypeOK StackReturns KeptOnStack KeptInRegister
