----------------------------- MODULE MdContext -----------------------------
(***************************************************************************)
(* The buffered hash context that md5.c, sha1.c, sha256.c and sha512.c all *)
(* keep: a 64-bit bit counter, a block buffer and a chaining value.        *)
(*                                                                         *)
(* What is abstracted is the compression function.  The chaining value is  *)
(* the list of blocks compressed so far, from the initial value `iv': two  *)
(* contexts have the same value here iff they compressed the same blocks   *)
(* from the same start, whatever the rounds compute.  A byte is what it is *)
(* made of: the i-th byte of the message, the 0x80 marker, a zero, the     *)
(* j-th byte of a length field, or what was on the stack before.           *)
(***************************************************************************)
EXTENDS Integers, Sequences

CONSTANTS
  BlockLen,   \* block size in bytes: 64 (MD5, SHA-1, SHA-256), 128 (SHA-512)
  UIntMod,    \* 2^32: input_len << 3 is computed in an unsigned int
  CountMod    \* 2^64: bit_count is a uint64_t

\* The length field takes the last 8 bytes of a block, so the block is longer.
ASSUME BlockAssumption == BlockLen \in Nat /\ BlockLen > 8

\* All three are powers of two in the program, where 2^64 bits are a whole
\* number of blocks: the counter goes around between two blocks.
ASSUME WidthAssumption ==
  /\ UIntMod \in Nat /\ UIntMod > 0
  /\ CountMod \in Nat /\ CountMod > 0
  /\ CountMod % (8 * BlockLen) = 0

Byte == {"msg", "one", "zero", "len", "junk"} \X Nat \X Nat

MsgByte(i)    == <<"msg", i, 0>>    \* the i-th byte of the message, from 1
One           == <<"one", 0, 0>>    \* 0x80
Zero          == <<"zero", 0, 0>>
Junk          == <<"junk", 0, 0>>   \* a byte nobody wrote
LenByte(c, j) == <<"len", c, j>>    \* byte j of the 64-bit encoding of c

Cells == 0 .. BlockLen - 1

\* The first byte of the 64-bit length field: 56, or 120 in sha512.c.
LengthAt == BlockLen - 8

(***************************************************************************)
(* memcpy(&buf[at], &input[from], n) and memset(&buf[at], 0, upto - at).   *)
(* A write past the end of the buffer would widen its domain, and so break *)
(* every statement that the buffer is a function on Cells.                 *)
(***************************************************************************)
Copy(buf, at, input, from, n) ==
  [j \in DOMAIN buf \cup at .. at + n - 1 |->
     IF j \in at .. at + n - 1 THEN input[from + 1 + j - at] ELSE buf[j]]

\* Mutant: memset one byte too long.
ZeroFillInclusive(buf, at, upto) ==
  [j \in DOMAIN buf \cup at .. upto |->
     IF j \in at .. upto THEN Zero ELSE buf[j]]

ZeroFill(buf, at, upto) ==
  [j \in DOMAIN buf \cup at .. upto - 1 |->
     IF j \in at .. upto - 1 THEN Zero ELSE buf[j]]

\* memcpy(&buf[56], &bit_count_be, 8)
PutLength(buf, count) ==
  [j \in DOMAIN buf \cup LengthAt .. LengthAt + 7 |->
     IF j \in LengthAt .. LengthAt + 7
       THEN LenByte(count, j - LengthAt) ELSE buf[j]]

-----------------------------------------------------------------------------
\* Mutant: bit_count & (BlockLen - 1), the shift forgotten.
IndexOfBits(c) == c.bit_count % BlockLen

\* Number of bytes waiting in the buffer: (bit_count >> 3) & (BlockLen - 1).
Index(c) == (c.bit_count \div 8) % BlockLen

Blank == [j \in Cells |-> Zero]

\* *_init: `iv' names the initial chaining value.
Opened(iv, buf) ==
  [iv |-> iv, blocks |-> <<>>, bit_count |-> 0, buffer |-> buf]

\* The context after memset_s(ctx, 0, sizeof(*ctx)).
Wiped == Opened("zeros", Blank)

\* The BlockLen bytes of `input' that start at offset `from'.
BlockAt(input, from) == [j \in Cells |-> input[from + 1 + j]]

(***************************************************************************)
(* *_update(ctx, input, Len(input)).  A call that reaches the end of the   *)
(* block fills the buffer and compresses it, then compresses whole blocks  *)
(* straight from the input; what is left goes to the START of the buffer.  *)
(***************************************************************************)
Updated(c, input) ==
  LET len     == Len(input)
      index   == Index(c)
      partial == BlockLen - index
      full    == len >= partial
      whole   == IF full THEN (len - partial) \div BlockLen ELSE 0
      used    == IF full THEN partial + whole * BlockLen ELSE 0
      filled  == IF full THEN Copy(c.buffer, index, input, 0, partial)
                         ELSE c.buffer
  IN  [c EXCEPT
         !.bit_count = (@ + ((8 * len) % UIntMod)) % CountMod,
         !.blocks = IF full
                      THEN @ \o [k \in 1 .. whole + 1 |->
                                   IF k = 1 THEN filled
                                   ELSE BlockAt(input, partial + (k - 2) * BlockLen)]
                      ELSE @,
         !.buffer = Copy(filled, 0, input, used, len - used)]

(***************************************************************************)
(* The padding of *_finish: the marker, an extra block when fewer than     *)
(* 8 bytes are left by the test `index >= 56' (120), zeros, the length.    *)
(***************************************************************************)
Marked(c) == [c.buffer EXCEPT ![Index(c)] = One]

Spills(c) == Index(c) + 1 >= LengthAt

\* Mutant: the extra block is not cleared before the length is written.
FinishedUncleared(c) ==
  LET tail == ZeroFill(Marked(c), Index(c) + 1,
                       IF Spills(c) THEN BlockLen ELSE LengthAt)
  IN  c.blocks \o (IF Spills(c) THEN <<tail>> ELSE <<>>)
               \o <<PutLength(tail, c.bit_count)>>

Finished(c) ==
  LET tail == IF Spills(c)
                THEN ZeroFill(Marked(c), Index(c) + 1, BlockLen)
                ELSE ZeroFill(Marked(c), Index(c) + 1, LengthAt)
      last == IF Spills(c) THEN ZeroFill(tail, 0, LengthAt) ELSE tail
  IN  c.blocks \o (IF Spills(c) THEN <<tail>> ELSE <<>>)
               \o <<PutLength(last, c.bit_count)>>
=============================================================================
