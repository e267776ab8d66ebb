-------------------------------- MODULE Sha2 --------------------------------
(***************************************************************************)
(* sha224_256_process_block of sha256.c and sha384_512_process_block of    *)
(* sha512.c: the same schedule and rounds over words of 32 and of 64 bits. *)
(***************************************************************************)
EXTENDS Words

CONSTANTS
  K,                \* the round constants, one to a round
  SIGMA0, SIGMA1,   \* what the macros rotate by, three times each
  sigma0, sigma1    \* what they rotate by twice, then shift by

BigSigma(x, by) == Exor([k \in 1 .. 3 |-> RotateRight(x, by[k])])

SmallSigma(x, by) ==
  Exor(<<RotateRight(x, by[1]), RotateRight(x, by[2]), ShiftRight(x, by[3])>>)

CH(x, y, z) == SymDiff(x \cap y, Not(x) \cap z)
MAJ(x, y, z) == Exor(<<x \cap y, x \cap z, y \cap z>>)

\* The words W of a block, from the first 16 on.
Schedule(block, host) ==
  LET first == [t \in 1 .. 16 |-> ToBigEndian(Load(block, t - 1, host), host)]
      W[n \in 16 .. Len(K)] ==
        IF n = 16 THEN first
        ELSE LET w == W[n - 1]
             IN  Append(w, Sum(<<SmallSigma(w[n - 2], sigma1), w[n - 7],
                                 SmallSigma(w[n - 15], sigma0), w[n - 16]>>))
  IN  W[Len(K)]

\* Round n, from 1, over the working variables A to H.
Round(v, W, n) ==
  LET tmp1 == Sum(<<v[8], BigSigma(v[5], SIGMA1), CH(v[5], v[6], v[7]),
                    K[n], W[n]>>)
      tmp2 == Plus(BigSigma(v[1], SIGMA0), MAJ(v[1], v[2], v[3]))
  IN  <<Plus(tmp1, tmp2), v[1], v[2], v[3], Plus(v[4], tmp1), v[5], v[6], v[7]>>
=============================================================================
