SPECIFICATION Spec
CONSTANTS
  Keys = {"k"}
  Nonces = {"n1", "n2"}
  Texts <- MCTexts
  Stream <- MCStream
  MacBlock = 2
  Heaps = {"h1", "h2"}
  MaxText = 3
  MaxSent = 1
  MaxReleased = 2
  MaxExtra = 1
INVARIANT TypeOK
INVARIANT OpensToMessage
PROPERTY ImplementsAead
PROPERTY WritesOnlyVerified
