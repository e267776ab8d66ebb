----------------------------- MODULE Compression -----------------------------
(***************************************************************************)
(* The compression functions of the four hashes, on hosts of both byte     *)
(* orders: md5_transformation, sha1_process_buffer and, as two instances   *)
(* of Sha2, those of SHA-2.  A block is 64 or 128 bytes counted from 0, a  *)
(* chaining value a sequence of words.                                     *)
(***************************************************************************)
EXTENDS Integers, Sequences

CONSTANTS
  md5_AC,             \* the 64 constants of md5_transformation
  md5_shifts,         \* S11 .. S44, four to a round
  sha1_K,             \* K1 .. K4
  sha256_K, sha512_K  \* the tables K

W32 == INSTANCE Words WITH Width <- 32
W64 == INSTANCE Words WITH Width <- 64

S256 == INSTANCE Sha2 WITH Width <- 32, K <- sha256_K,
  SIGMA0 <- <<2, 13, 22>>, SIGMA1 <- <<6, 11, 25>>,
  sigma0 <- <<7, 18, 3>>, sigma1 <- <<17, 19, 10>>

S512 == INSTANCE Sha2 WITH Width <- 64, K <- sha512_K,
  SIGMA0 <- <<28, 34, 39>>, SIGMA1 <- <<14, 18, 41>>,
  sigma0 <- <<1, 8, 7>>, sigma1 <- <<19, 61, 6>>

Parity(x, y, z) == W32!Exor(<<x, y, z>>)
Choose(x, y, z) == (x \cap y) \cup (W32!Not(x) \cap z)
Majority(x, y, z) == (x \cap y) \cup (x \cap z) \cup (y \cap z)

-----------------------------------------------------------------------------
(* MD5 *)

\* The functions F, G, H and I of rounds 0 to 3.
md5_function(r, x, y, z) ==
  CASE r = 0 -> Choose(x, y, z)
    [] r = 1 -> Choose(z, x, y)
    [] r = 2 -> Parity(x, y, z)
    [] r = 3 -> W32!SymDiff(y, x \cup W32!Not(z))

\* Which word of the block step n takes, from 0.
md5_word(n) ==
  LET r == n \div 16
  IN  (<<0, 1, 5, 0>>[r + 1] + <<1, 5, 3, 7>>[r + 1] * (n % 16)) % 16

\* The words that memcpy makes of the block: no byte is swapped.
md5_Words(block, host) == [t \in 1 .. 16 |-> W32!Load(block, t - 1, host)]

\* Step n, from 1: FF, GG, HH or II on the variables in their turn.
md5_Round(v, x, n) ==
  LET r == (n - 1) \div 16
      sum == W32!Sum(<<v[1], md5_function(r, v[2], v[3], v[4]),
                       x[md5_word(n - 1) + 1], md5_AC[n]>>)
      turned == W32!RotateLeft(sum, md5_shifts[r + 1][((n - 1) % 4) + 1])
  IN  <<v[4], W32!Plus(turned, v[2]), v[2], v[3]>>

-----------------------------------------------------------------------------
(* SHA-1 *)

sha1_Schedule(block, host) ==
  LET first == [t \in 1 .. 16 |->
                  W32!ToBigEndian(W32!Load(block, t - 1, host), host)]
      W[n \in 16 .. 80] ==
        IF n = 16 THEN first
        ELSE LET w == W[n - 1]
             IN  Append(w, W32!RotateLeft(
                   W32!Exor(<<w[n - 3], w[n - 8], w[n - 14], w[n - 16]>>), 1))
  IN  W[80]

sha1_function(r, x, y, z) ==
  CASE r = 0 -> Choose(x, y, z)
    [] r = 2 -> Majority(x, y, z)
    [] r \in {1, 3} -> Parity(x, y, z)

\* Round n, from 1, over the word buffers A to E.
sha1_Round(v, W, n) ==
  LET r == (n - 1) \div 20
      tmp == W32!Sum(<<W32!RotateLeft(v[1], 5), sha1_function(r, v[2], v[3], v[4]),
                       v[5], W[n], sha1_K[r + 1]>>)
  IN  <<tmp, v[1], W32!RotateLeft(v[2], 30), v[3], v[4]>>
==============================================================================
