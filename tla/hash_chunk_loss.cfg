SPECIFICATION Spec
CONSTANTS
  BlockLen = 18
  UIntMod = 4096
  CountMod = 1440
  Families = {"md5"}
  Chunks <- AnyChunks
  MaxFed = 30
PROPERTY KeepsBufferedBytes
