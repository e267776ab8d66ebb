------------------------------- MODULE Ghash -------------------------------
(***************************************************************************)
(* gcm.c: GHASH over associated data and ciphertext, a block after the     *)
(* other, and its multiplication in GF(2^128), a bit after the other.      *)
(* Field elements are bits, the leftmost bit of the block first: it is the *)
(* coefficient of 1.  The two 64-bit words of the code are one row of bits *)
(* here; texts are sequences of bytes, which may have less than 8 bits.    *)
(***************************************************************************)
EXTENDS Integers, Sequences, FiniteSetsExt

CONSTANTS
  FieldBits,  \* 128
  ByteBits,   \* 8
  Taps,       \* the bits of GCM_R: x^FieldBits is the sum of these powers of x
  HashKeys,   \* hash subkeys H
  AadTexts, CipherTexts   \* what is hashed

Bits128 == 0 .. FieldBits - 1
BlockBytes == FieldBits \div ByteBits
Elements == [Bits128 -> 0 .. 1]

\* Each half of the last block holds the length of a text in bits.
ASSUME GhashAssumption ==
  /\ FieldBits \in Nat \ {0} /\ ByteBits \in Nat \ {0}
  /\ FieldBits % (2 * ByteBits) = 0
  /\ Taps \subseteq Bits128 /\ HashKeys \subseteq Elements
  /\ \A t \in AadTexts \cup CipherTexts :
       /\ t \in Seq(0 .. 2 ^ ByteBits - 1)
       /\ Len(t) * ByteBits < 2 ^ (FieldBits \div 2)

VARIABLES
  H,       \* the hash subkey
  aad, ciphertext,
  Y,       \* the state block
  index,   \* i: bytes of the text absorbed
  stage    \* "aad", "ciphertext", "lengths", "done"

ghashVars == <<H, aad, ciphertext, Y, index, stage>>

-----------------------------------------------------------------------------
Zero128 == [i \in Bits128 |-> 0]

xor_blocks(x, y) == [i \in Bits128 |-> (x[i] + y[i]) % 2]

\* Mutant: the bit that is shifted out is looked at after the shift.
TimesXLate(v) ==
  LET shifted == [i \in Bits128 |-> IF i = 0 THEN 0 ELSE v[i - 1]]
  IN  [i \in Bits128 |->
         (shifted[i] + (IF i \in Taps THEN shifted[FieldBits - 1] ELSE 0)) % 2]

\* V >>= 1, and the bit shifted out comes back at the taps.
TimesX(v) ==
  [i \in Bits128 |-> ((IF i = 0 THEN 0 ELSE v[i - 1])
                       + (IF i \in Taps THEN v[FieldBits - 1] ELSE 0)) % 2]

GF_mul_blocks(x, y) ==
  LET after[n \in 0 .. FieldBits] ==
        IF n = 0 THEN [z |-> Zero128, v |-> y]
        ELSE LET prev == after[n - 1]
             IN  [z |-> IF x[n - 1] = 1 THEN xor_blocks(prev.z, prev.v) ELSE prev.z,
                  v |-> TimesX(prev.v)]
  IN  after[FieldBits].z

\* Bits of bytes, most significant first.
Row(bytes) ==
  [i \in Bits128 |->
     (bytes[i \div ByteBits + 1] \div 2 ^ (ByteBits - 1 - (i % ByteBits))) % 2]

\* partial_block: up to a block of the text from byte i on, zero-padded.
PartialBlock(text, i) ==
  Row([j \in 1 .. BlockBytes |-> IF i + j <= Len(text) THEN text[i + j] ELSE 0])

\* len_block: both lengths in bits.
LenBlock(a, c) ==
  LET half == FieldBits \div 2
      bit(n, i) == (n \div 2 ^ (half - 1 - i)) % 2
  IN  [i \in Bits128 |-> IF i < half THEN bit(Len(a) * ByteBits, i)
                                     ELSE bit(Len(c) * ByteBits, i - half)]

-----------------------------------------------------------------------------
GhashCall(h, a, c) ==
  /\ stage = "done"
  /\ H' = h /\ aad' = a /\ ciphertext' = c
  /\ Y' = Zero128 /\ index' = 0 /\ stage' = "aad"

AbsorbBlock(block) == Y' = GF_mul_blocks(xor_blocks(block, Y), H)

\* A round of the loop over one text, or its end.
AbsorbText(name, text, next) ==
  /\ stage = name
  /\ IF index < Len(text)
       THEN /\ AbsorbBlock(PartialBlock(text, index))
            /\ index' = index + Min({BlockBytes, Len(text) - index})
            /\ UNCHANGED stage
       ELSE /\ index' = 0 /\ stage' = next
            /\ UNCHANGED Y
  /\ UNCHANGED <<H, aad, ciphertext>>

AbsorbLengths ==
  /\ stage = "lengths"
  /\ AbsorbBlock(LenBlock(aad, ciphertext))
  /\ stage' = "done"
  /\ UNCHANGED <<H, aad, ciphertext, index>>

GhashStart ==
  /\ H = Zero128 /\ aad = <<>> /\ ciphertext = <<>>
  /\ Y = Zero128 /\ index = 0 /\ stage = "done"

GhashNext ==
  \/ \E h \in HashKeys, a \in AadTexts, c \in CipherTexts : GhashCall(h, a, c)
  \/ AbsorbText("aad", aad, "ciphertext")
  \/ AbsorbText("ciphertext", ciphertext, "lengths")
  \/ AbsorbLengths

-----------------------------------------------------------------------------
(***************************************************************************)
(* The reference, NIST SP 800-38D: polynomials over GF(2) as the sets of   *)
(* their exponents, multiplied without carry and reduced from the top.     *)
(***************************************************************************)
Poly(e) == {i \in Bits128 : e[i] = 1}
Element(p) == [i \in Bits128 |-> IF i \in p THEN 1 ELSE 0]

Product(p, q) ==
  {k \in 0 .. 2 * FieldBits :
     Cardinality({i \in p : k - i \in q}) % 2 = 1}

Reduction(p) ==
  LET from[k \in FieldBits - 1 .. 2 * FieldBits] ==   \* degrees above k are gone
        IF k = 2 * FieldBits THEN p
        ELSE LET prev == from[k + 1]
             IN  IF k + 1 \in prev
                   THEN SymDiff(prev \ {k + 1}, {k + 1 - FieldBits + t : t \in Taps})
                   ELSE prev
  IN  from[FieldBits - 1]

\* The blocks of a text, and all that is hashed, as rows of bits.
StdBlocksOf(text) ==
  LET blocks == (Len(text) + BlockBytes - 1) \div BlockBytes
      padded == text \o [j \in 1 .. BlockBytes |-> 0]
  IN  [k \in 1 .. blocks |->
         Row(SubSeq(padded, (k - 1) * BlockBytes + 1, k * BlockBytes))]

StdInput(a, c) == StdBlocksOf(a) \o StdBlocksOf(c) \o <<LenBlock(a, c)>>

\* The sum of the blocks, each times the power of H that its place calls for.
StdGhash(h, a, c) ==
  LET input == StdInput(a, c)
      n == Len(input)
      power[k \in 0 .. n] ==
        IF k = 0 THEN {0} ELSE Reduction(Product(power[k - 1], Poly(h)))
      sum[k \in 0 .. n] ==
        IF k = 0 THEN {}
        ELSE SymDiff(sum[k - 1],
                     Reduction(Product(Poly(input[k]), power[n + 1 - k])))
  IN  Element(sum[n])

\* GHASH is the value of one polynomial in H, over the zero-padded texts and
\* their lengths: the bitwise multiplication is the field's, no block is taken
\* twice or left out at the boundary between the texts, and nothing of one
\* call is left for the next.
GhashIsPolynomial ==
  stage = "done" => Y = StdGhash(H, aad, ciphertext)
=============================================================================
