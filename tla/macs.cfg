SPECIFICATION Spec
CONSTANTS
  ShortBlock = 16
  LongBlock = 32
  DigestLen <- MCDigestLen
  UIntMod = 4096
  CountMod = 8192
  Keys <- MCKeys
  Texts <- MCTexts
  MaxMacs = 2
  Bits = 3
  PolyKeys <- MCPolyKeys
  FullBlocks <- MCFullBlocks
  Tails <- MCTails
  MaxBlocks = 3
  FieldBits = 16
  ByteBits = 4
  Taps = {0, 2, 3, 5}
  HashKeys <- MCHashKeys
  AadTexts <- MCAadTexts
  CipherTexts <- MCCipherTexts
INVARIANT HmacTypeOK
INVARIANT MacIsHmac
INVARIANT MacsBind
INVARIANT TagIsPoly1305
INVARIANT GhashIsPolynomial
