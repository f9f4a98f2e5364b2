\* Up to two parameters (of two instructions each), four instructions in all.
CONSTANTS
  MaxParams = 2
  MaxCode = 4
  MaxOperands = 2
  Sizes = {0, 1, 4, 6}
SPECIFICATION Spec
INVARIANTS TypeOK Apart InFrame
