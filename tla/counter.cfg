SPECIFICATION Spec
CONSTANTS
  Last = 7
  Block = 2
  MaxText = 11
  IntMax = 5
INVARIANT TypeOK
INVARIANT NoBlockTwice
INVARIANT ReservedUntouched
INVARIANT DecryptsSent
INVARIANT StaysInBuffers
