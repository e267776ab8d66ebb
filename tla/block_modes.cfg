SPECIFICATION Spec
CONSTANTS
  ByteRange = 4
  BlockSize = 2
  MaxBytes = 15
  IntMax = 7
  encrypt <- MCencrypt
  decrypt <- MCdecrypt
  xor <- MCxor
  Iv <- MCIv
  Requests <- MCRequests
  Rooms = {0, 1, 2, 3, 4, 5, 6, 7, 10, 15}
INVARIANTS
  TypeOK
  OkayMeansEncrypted
  OpensToText
  StaysInBuffer
  FindsLength
  KeysCleared
