SPECIFICATION Spec
CONSTANTS
  ByteBits = 8
  Poly <- MCPoly
  sbox <- MCsbox
  inv_sbox <- MCinv_sbox
  Rcon <- MCRcon
  KeyWords <- MCKeyWords
  NumRounds <- MCNumRounds
  RevertWords <- MCRevertWords
  MaxWords = 60
  AesJobs <- MCAesJobs
  AesVectors <- MCAesVectors
  IP <- MCIP
  IP_1 <- MCIP_1
  E <- MCE
  P <- MCP
  PC1 <- MCPC1
  PC2 <- MCPC2
  S_BOX <- MCS_BOX
  shift_amounts <- MCshift_amounts
  DesJobs <- MCDesJobs
  DesVectors <- MCDesVectors
  md5_AC <- MCmd5_AC
  md5_shifts <- MCmd5_shifts
  sha1_K <- MCsha1_K
  sha256_K <- MCsha256_K
  sha512_K <- MCsha512_K
  H <- MCH
  sigma <- MCsigma
  UIntMod = 1073741824
  CountMod = 1073741824
  Requests <- MCRequests
INVARIANTS
  AesTypeOK
  RetracesRounds
  AesRoundTrip
  DesTypeOK
  RetracesSteps
  DesRoundTrip
  MeetsTestVectors
  HostsAgree
