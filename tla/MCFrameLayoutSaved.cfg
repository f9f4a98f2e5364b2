CONSTANTS
  MaxParams = 1
  MaxCode = 4
  MaxOperands = 1
  Sizes = {4}
SPECIFICATION Spec
INVARIANT SlotsInFrame
