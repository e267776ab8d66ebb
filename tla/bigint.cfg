SPECIFICATION Spec
CONSTANTS
  left = left
  right = right
  Regs <- TwoRegs
  Bits = 2
  MaxDigits = 3
  MaxMsds = 2
  MaxLoad = 2
  MaxPower = 3
  Operands <- MCOperands
SYMMETRY Symmetry
INVARIANT TypeOK
INVARIANT KeepsPromise
INVARIANT QueriesAnswer
