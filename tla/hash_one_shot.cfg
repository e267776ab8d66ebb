SPECIFICATION BlockwiseSpec
CONSTANTS
  BlockLen = 64
  UIntMod = 4096
  CountMod = 8192
  Families = {"md5", "sha1", "sha256", "sha512"}
  Chunks <- Lengths64
  MaxFed = 183
INVARIANT HoldsMessage
INVARIANT DigestIsStandard
