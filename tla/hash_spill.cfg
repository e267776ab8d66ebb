SPECIFICATION BlockwiseSpec
CONSTANTS
  BlockLen = 64
  UIntMod = 4096
  CountMod = 8192
  Families = {"sha1"}
  Chunks <- Lengths64
  MaxFed = 183
INVARIANT SpillsOnlyWithoutRoom
