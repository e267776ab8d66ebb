-------------------------------- MODULE Words --------------------------------
(***************************************************************************)
(* Unsigned words of Width bits: uint32_t and uint64_t as md5.c, sha1.c,   *)
(* sha256.c, sha512.c and chacha20.c compute with them, and as a host of   *)
(* either byte order keeps them in memory.  A word is the set of its one   *)
(* bits, bit 0 the lowest, and so is a byte; exclusive or is SymDiff.      *)
(***************************************************************************)
EXTENDS Integers, Sequences, FiniteSetsExt, SequencesExt

CONSTANT Width   \* 32 or 64

Hosts == {"little", "big"}

Positions == 0 .. Width - 1
NumBytes == Width \div 8

Not(x) == Positions \ x

RotateLeft(x, n) == {(b + n) % Width : b \in x}
RotateRight(x, n) == RotateLeft(x, Width - n)
ShiftRight(x, n) == {b - n : b \in {c \in x : c >= n}}

\* x + y modulo 2^Width: the carries, moved up, are added again.
RECURSIVE Plus(_, _)
Plus(x, y) ==
  IF y = {} THEN x
  ELSE Plus(SymDiff(x, y), {b + 1 : b \in (x \cap y) \ {Width - 1}})

Sum(words) == FoldLeft(Plus, {}, words)

Exor(words) == FoldLeft(SymDiff, {}, words)

\* The word of a number below 2^31.
OfNumber(n) == {b \in 0 .. Min({Width - 1, 30}) : (n \div 2 ^ b) % 2 = 1}

-----------------------------------------------------------------------------
(* Memory *)

\* How many bytes above the lowest one a word's k-th byte in memory belongs.
Place(k, host) == IF host = "little" THEN k ELSE NumBytes - 1 - k

\* ((uint32_t *)mem)[n], of memory that counts bytes from 0.
Load(mem, n, host) ==
  UNION {{8 * Place(k, host) + b : b \in mem[NumBytes * n + k]} :
           k \in 0 .. NumBytes - 1}

\* The bytes of a word in memory, as a sequence.
Stored(x, host) ==
  [k \in 1 .. NumBytes |-> {b \in 0 .. 7 : 8 * Place(k - 1, host) + b \in x}]

Swapped(x) == {8 * (NumBytes - 1 - (b \div 8)) + (b % 8) : b \in x}

\* Mutant: the bytes are swapped whatever the host.
ToBigEndianAlways(x, host) == Swapped(x)

\* LE32TOBE32, LE64TOBE64: nothing happens on a big-endian host.
ToBigEndian(x, host) == IF host = "little" THEN Swapped(x) ELSE x

\* BE32TOLE32, BE64TOLE64: nothing happens on a little-endian host.
ToLittleEndian(x, host) == IF host = "big" THEN Swapped(x) ELSE x
=============================================================================
