SPECIFICATION Spec
CONSTANTS
  BlockLen = 18
  UIntMod = 4096
  CountMod = 144
  Families = {"md5", "sha1", "sha256", "sha512"}
  Chunks <- AnyChunks
  MaxFed = 20
INVARIANT TypeOK
INVARIANT CountsEveryByte
INVARIANT NoJunkInDigest
