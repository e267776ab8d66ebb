----------------------------- MODULE BlockModes -----------------------------
(***************************************************************************)
(* ECB and CBC: crypt_DES_*, crypt_TDES_* and crypt_AES_* of crypto_api.c, *)
(* with the functions of des.c and aes.c behind them.  A caller encrypts a *)
(* text, into another buffer or in place, then may decrypt the ciphertext  *)
(* with a length and a buffer of its choice.                               *)
(*                                                                         *)
(* The three families share one block size and one block cipher, any       *)
(* permutation of blocks.  Buffers are longer than the lengths that the    *)
(* caller states: what is beyond is memory of something else.  Both gates  *)
(* of AES for a key or IV of the wrong length are one flag.  No request is *)
(* for AES in CTR, which encrypts: CounterMode has it, with its checks.    *)
(***************************************************************************)
EXTENDS Integers, Sequences

CONSTANTS
  ByteRange,        \* number of values of a byte
  BlockSize,        \* DES_BLOCK_SIZE_BYTES, AES_BLOCK_SIZE_BYTES
  MaxBytes,         \* bytes of memory in and behind each buffer
  encrypt, decrypt, \* [Block -> Block]
  xor,              \* the operator ^ on bytes
  Iv,
  IntMax,           \* the largest int: 2^31 - 1
  Requests,         \* [family, mode, padding, text, room, in_place, valid]
  Rooms             \* sizes of the buffer that receives the decrypted text

Byte == 0 .. ByteRange - 1
Block == [1 .. BlockSize -> Byte]
Old == -1           \* a byte that nothing has written
Memory == [0 .. MaxBytes - 1 -> Byte \cup {Old}]

ASSUME BlockModesAssumption ==
  /\ ByteRange \in Nat /\ MaxBytes \in Nat
  /\ BlockSize \in Nat \ {0} /\ BlockSize < ByteRange
  /\ encrypt \in [Block -> Block] /\ decrypt \in [Block -> Block]
  /\ \A b \in Block : decrypt[encrypt[b]] = b
  /\ xor \in [Byte \X Byte -> Byte]
  /\ \A a, b \in Byte : xor[xor[a, b], a] = b
  /\ Iv \in Block
  /\ IntMax \in Nat /\ BlockSize <= IntMax /\ MaxBytes <= (2 * IntMax) + 1
  /\ \A r \in Requests : r.family = "AES" => r.mode # "CTR"
  /\ \A r \in Requests : /\ r.text \in Seq(Byte) /\ Len(r.text) <= MaxBytes
                         /\ r.room \in 0 .. MaxBytes
  /\ Rooms \subseteq 0 .. MaxBytes

VARIABLES
  request,  \* the call of crypt_*_encrypt
  side,     \* "encrypt", "decrypt"
  pc,       \* "gate", "begin", "blocks", "returned"; "undefined" after the
            \* overflow of an int
  from, to, \* the two buffers
  in_len, room,
  padded,   \* plaintext_padded, or the input itself
  n,        \* the block that is next
  chain,    \* xor_block
  context,  \* "zero" or "keys": what the context on the stack holds
  retried,  \* malloc failed, and CRYPT_CHECK_OKAY made the call once more
  reach,    \* how far the call wrote
  sent,     \* the length of the ciphertext: the reach of encryption
  length,   \* decryption's own copy of plaintext_len
  status

vars == <<request, side, pc, from, to, in_len, room, padded, n, chain, context,
          retried, reach, sent, length, status>>

Family == request.family
Mode == request.mode
NoPad == request.padding = "NO_PAD"
Encrypting == side = "encrypt"
InPlace == Encrypting /\ request.in_place
Partial(len) == len % BlockSize # 0
Larger(a, b) == IF a < b THEN b ELSE a

\* An unsigned int; lengths are, and what is computed from them wraps.
Unsigned(k) == k % (2 * (IntMax + 1))

-----------------------------------------------------------------------------
Init ==
  /\ request \in Requests
  /\ side = "encrypt" /\ pc = "gate"
  /\ from = [k \in 0 .. MaxBytes - 1 |->
               IF k < Len(request.text) THEN request.text[k + 1] ELSE Old]
  /\ to = IF request.in_place THEN from ELSE [k \in 0 .. MaxBytes - 1 |-> Old]
  /\ in_len = Len(request.text) /\ room = request.room
  /\ padded = from /\ n = 0 /\ chain = Iv
  /\ context = "zero" /\ retried = FALSE
  /\ reach = 0 /\ sent = 0 /\ length = 0 /\ status = "CRYPT_OKAY"

(* What the API refuses before it prepares a context. *)

\* Mutant: a text need not be whole blocks.
AnyLength ==
  IF Mode = "ECB" /\ request.padding \notin {"NO_PAD", "PKCS7"}
    THEN "CRYPT_INVALID_PADDING" ELSE "CRYPT_OKAY"

\* crypt_DES_* and crypt_TDES_*: the third checks the room for the length.
DesRefusal ==
  LET checked == IF Family = "TDES" /\ Encrypting THEN room ELSE in_len
  IN  IF Mode = "ECB" /\ (IF NoPad THEN Partial(checked)
                                   ELSE request.padding # "PKCS7")
        THEN "CRYPT_INVALID_PADDING" ELSE "CRYPT_OKAY"

AesRefusal ==
  IF ~ request.valid THEN "CRYPT_BAD_KEY"
  ELSE IF \/ Mode = "ECB" /\ NoPad /\ (Partial(in_len) \/ room < in_len)
          \/ Mode = "ECB" /\ ~ Encrypting /\ room < in_len
          \/ Mode # "ECB" /\ Encrypting
               /\ room < Unsigned(in_len + BlockSize - (in_len % BlockSize))
    THEN "CRYPT_BAD_BUFFER_LEN"
  ELSE IF request.padding \notin {"NO_PAD", "PKCS7"} THEN "CRYPT_INVALID_PADDING"
  ELSE "CRYPT_OKAY"

Refusal == IF Family = "AES" THEN AesRefusal ELSE DesRefusal

\* Modes without a case return CRYPT_OKAY at once.  The others load the keys.
Gate ==
  /\ pc = "gate"
  /\ status' = Refusal
  /\ LET runs == Refusal = "CRYPT_OKAY" /\ Mode \in {"ECB", "CBC"}
     IN  /\ pc' = IF runs THEN "begin" ELSE "returned"
         /\ context' = IF runs THEN "keys" ELSE "zero"
  /\ UNCHANGED <<request, side, from, to, in_len, room, padded, n, chain,
                 retried, reach, sent, length>>

-----------------------------------------------------------------------------
\* Mutant: whole blocks only.
WholeBlocks == in_len \div BlockSize

\* num_blocks: CBC of DES always has a block for the padding.
NumBlocks ==
  IF Encrypting /\ Mode = "CBC" /\ (Family # "AES" \/ Partial(in_len))
    THEN (in_len \div BlockSize) + 1
    ELSE in_len \div BlockSize

\* Mutant: no room for the padding.
SmallerThanText ==
  /\ Family # "AES"
  /\ IF Encrypting \/ Mode = "ECB" THEN room < in_len
     ELSE room < Unsigned(in_len - BlockSize)

\* num_blocks * BlockSize is a product of ints, made before anything is checked.
PaddedOverflows ==
  Encrypting /\ Mode = "CBC" /\ NumBlocks * BlockSize > IntMax

\* So is the position of a block in the ECB loops of AES.
IndexOverflows ==
  Family = "AES" /\ Mode = "ECB" /\ n < NumBlocks /\ n * BlockSize > IntMax

\* Nothing is said of what the program does then.
Overflow ==
  /\ (pc = "begin" /\ PaddedOverflows) \/ (pc = "blocks" /\ IndexOverflows)
  /\ pc' = "undefined"
  /\ UNCHANGED <<request, side, from, to, in_len, room, padded, n, chain,
                 context, retried, reach, sent, length, status>>

Undefined == pc = "undefined" /\ UNCHANGED vars

\* The checks of des.c.  That of CBC decryption subtracts unsigned numbers: a
\* ciphertext of less than a block is longer than almost any buffer.
TooSmall ==
  /\ Family # "AES"
  /\ IF Mode = "ECB" THEN room < in_len
     ELSE IF Encrypting THEN room < NumBlocks * BlockSize
     ELSE room < Unsigned(in_len - BlockSize)

\* Refused by des.c, or ECB with padding, which it leaves for later.
LeaveEarly ==
  /\ pc = "begin" /\ ~ PaddedOverflows
  /\ TooSmall \/ (Family # "AES" /\ Mode = "ECB" /\ ~ NoPad)
  /\ status' = IF TooSmall THEN "CRYPT_BAD_BUFFER_LEN" ELSE "CRYPT_OKAY"
  /\ context' = IF TooSmall THEN context ELSE "zero"
  /\ pc' = "returned"
  /\ UNCHANGED <<request, side, from, to, in_len, room, padded, n, chain,
                 retried, reach, sent, length>>

\* The whole of the output becomes 0, and the input with it if they share
\* their memory.
Wipe ==
  /\ to' = [k \in 0 .. MaxBytes - 1 |-> IF k < room THEN 0 ELSE to[k]]
  /\ from' = IF InPlace THEN to' ELSE from

MayBegin ==
  /\ pc = "begin" /\ ~ PaddedOverflows /\ ~ TooSmall
  /\ Family = "AES" \/ Mode = "CBC" \/ NoPad

\* malloc fails.  CRYPT_CHECK_OKAY evaluates the call again to return it.
OutOfMemory ==
  /\ MayBegin /\ Encrypting /\ Mode = "CBC"
  /\ Wipe
  /\ IF retried
       THEN status' = "CRYPT_FAILURE" /\ pc' = "returned" /\ UNCHANGED retried
       ELSE retried' = TRUE /\ UNCHANGED <<status, pc>>
  /\ UNCHANGED <<request, side, in_len, room, padded, n, chain, context, reach,
                 sent, length>>

\* Up to the loop over the blocks
Begin ==
  /\ MayBegin
  /\ Wipe
  /\ padded' = [k \in 0 .. MaxBytes - 1 |->
                  IF Encrypting /\ Mode = "CBC" /\ k >= in_len
                    THEN BlockSize - (in_len % BlockSize) ELSE from'[k]]
  /\ n' = 0 /\ chain' = Iv /\ reach' = 0
  /\ pc' = "blocks"
  /\ UNCHANGED <<request, side, in_len, room, context, retried, sent, length,
                 status>>

BlockAt(memory) == [j \in 1 .. BlockSize |-> memory[n * BlockSize + j - 1]]
BlockXor(a, b) == [j \in 1 .. BlockSize |-> xor[a[j], b[j]]]

\* Writes block n of the output, which may be outside its buffer.
Write(b) ==
  /\ to' = [k \in 0 .. MaxBytes - 1 |->
              IF k \div BlockSize = n THEN b[k - (n * BlockSize) + 1] ELSE to[k]]
  /\ from' = IF InPlace THEN to' ELSE from
  /\ reach' = Larger(reach, (n + 1) * BlockSize)
  /\ n' = n + 1

EncryptBlock ==
  /\ pc = "blocks" /\ Encrypting /\ n < NumBlocks /\ ~ IndexOverflows
  /\ LET b == BlockAt(IF Mode = "CBC" THEN padded ELSE from)
         c == encrypt[IF Mode = "CBC" THEN BlockXor(chain, b) ELSE b]
     IN  /\ Write(c)
         /\ chain' = c
  /\ UNCHANGED <<request, side, pc, in_len, room, padded, context, retried,
                 sent, length, status>>

DecryptBlock ==
  /\ pc = "blocks" /\ ~ Encrypting /\ n < NumBlocks /\ ~ IndexOverflows
  /\ LET b == BlockAt(from)
         p == decrypt[b]
         t == IF Mode = "CBC" THEN BlockXor(p, chain) ELSE p
     IN  Write(t) /\ chain' = b
  /\ UNCHANGED <<request, side, pc, in_len, room, padded, context, retried,
                 sent, length, status>>

\* What is read as the length of the padding: with no room, a byte that is
\* 2^32 - 1 behind the buffer.
PadBytes == IF room = 0 THEN Byte ELSE {to[room - 1]}

\* Mutant: a padding as long as a block counts as text.
RemoveShortPadding(pad) ==
  IF pad > 0 /\ pad < BlockSize THEN room - pad ELSE room

\* Mutant: any last byte is the length of the padding.
RemoveAnyPadding(pad) == room - pad

\* room - pad is unsigned in the code, where a buffer shorter than its padding
\* would have a length near 2^32; no one reads it.
RemovePadding(pad) ==
  IF pad > 0 /\ pad <= BlockSize THEN room - pad ELSE room

\* Mutant: no cleanup.
KeepContext == context

\* Not after the call that CRYPT_CHECK_OKAY makes in order to return its result.
Cleanup == IF retried THEN "keys" ELSE "zero"

\* The end of the mode, then of the API function
Return ==
  /\ pc = "blocks" /\ n = NumBlocks
  /\ \E pad \in PadBytes :
       length' = IF Mode = "CBC" /\ ~ Encrypting THEN RemovePadding(pad) ELSE room
  /\ context' = Cleanup
  /\ pc' = "returned"
  /\ UNCHANGED <<request, side, from, to, in_len, room, padded, n, chain,
                 retried, reach, sent, status>>

\* The caller passes on the blocks that were written, or the whole buffer.
CallDecrypt ==
  /\ pc = "returned" /\ Encrypting /\ status = "CRYPT_OKAY"
  /\ side' = "decrypt" /\ pc' = "gate"
  /\ in_len' \in {reach, room}
  /\ room' \in Rooms
  /\ from' = to /\ to' = [k \in 0 .. MaxBytes - 1 |-> Old]
  /\ context' = "zero" /\ retried' = FALSE
  /\ n' = 0 /\ reach' = 0 /\ sent' = reach
  /\ UNCHANGED <<request, padded, chain, length, status>>

\* The program ends.
Done == pc = "returned" /\ UNCHANGED vars

Next ==
  \/ Gate \/ LeaveEarly \/ OutOfMemory \/ Begin
  \/ EncryptBlock \/ DecryptBlock \/ Return \/ Overflow \/ Undefined
  \/ CallDecrypt \/ Done

Spec == Init /\ [][Next]_vars

-----------------------------------------------------------------------------
(***************************************************************************)
(* Properties                                                              *)
(***************************************************************************)

\* The loop ends with its last block, and the length that decryption computes
\* is at most a block below the size of the buffer.
TypeOK ==
  /\ side \in {"encrypt", "decrypt"}
  /\ pc \in {"gate", "begin", "blocks", "returned", "undefined"}
  /\ from \in Memory /\ to \in Memory /\ padded \in Memory
  /\ in_len \in 0 .. MaxBytes /\ room \in 0 .. MaxBytes
  /\ n \in 0 .. NumBlocks /\ chain \in Block
  /\ context \in {"zero", "keys"} /\ retried \in BOOLEAN
  /\ reach \in 0 .. MaxBytes /\ sent \in 0 .. MaxBytes
  /\ length \in (0 - BlockSize) .. MaxBytes

Returned(call) == pc = "returned" /\ side = call /\ status = "CRYPT_OKAY"

\* Encryptions that return CRYPT_OKAY and leave part of the text, or all of it.
Dropped ==
  LET len == Len(request.text)
  IN  \/ len > 0 /\ Mode \notin {"ECB", "CBC"}
      \/ len > 0 /\ Mode = "ECB" /\ ~ NoPad /\ Family # "AES"
      \/ Partial(len) /\ Mode = "ECB" /\ (Family = "TDES" \/ ~ NoPad)

\* CRYPT_OKAY from an encryption means that the whole text is in the output,
\* but for modes without a case (GCM, and CTR of DES and 3DES), padded ECB, of
\* which DES writes nothing and AES the whole blocks, and 3DES in ECB, whose gate
\* looks at the wrong length.
OkayMeansEncrypted ==
  Returned("encrypt") => (reach >= Len(request.text) <=> ~ Dropped)

\* What was encrypted comes back when all of it and no more is decrypted, though
\* malloc failed once or the buffers are short; in place, the stated room was
\* wiped first and comes back as zeros.
OpensToText ==
  (Returned("decrypt") /\ in_len = sent /\ ~ Dropped) =>
    \A k \in 0 .. Len(request.text) - 1 :
      to[k] = IF request.in_place /\ k < request.room THEN 0
              ELSE request.text[k + 1]

\* No call writes behind its output, but for padded ECB of AES, which does not
\* look at the room; CBC decryption, where DES lets the last block hang over and
\* AES does not look at the room at all; and calls that overflow an int: CBC
\* encryption of more than INT_MAX bytes with the padding, and ECB of AES of a
\* block more than INT_MAX.  AES in CBC gets there with less room than text only
\* where the room that the API asks for wraps.
StaysInBuffer ==
  IF pc # "undefined"
  THEN reach > room =>
         \/ Encrypting /\ Family = "AES" /\ Mode = "ECB" /\ ~ NoPad
         \/ /\ ~ Encrypting /\ Mode = "CBC" /\ room < in_len
            /\ Family = "AES" \/ in_len - room <= BlockSize
  ELSE \/ Family = "AES" /\ Mode = "ECB" /\ in_len > IntMax + BlockSize
       \/ /\ Encrypting /\ Mode = "CBC" /\ in_len + BlockSize > IntMax
          /\ Family = "AES" =>
               room > in_len \/ in_len + BlockSize > (2 * IntMax) + 1

\* Where a ciphertext of CBC is decrypted to a buffer of its size, the padding
\* that is taken off is the padding that was put on: always with DES, and with
\* AES if there was any, or if the text does not happen to end like one.
FindsLength ==
  (Returned("decrypt") /\ Mode = "CBC" /\ in_len = sent /\ room = in_len
     /\ room > 0 /\ ~ request.in_place) =>
    LET len == Len(request.text)
        ends == Family = "AES" /\ ~ Partial(len)
                  /\ request.text[len] \in 1 .. BlockSize
    IN  length = len <=> ~ ends

\* A call that succeeds leaves no subkeys behind on its stack, but for one whose
\* allocation failed and that CRYPT_CHECK_OKAY made again to return its result.
KeysCleared ==
  (pc = "returned" /\ status = "CRYPT_OKAY") => (context = "keys" <=> retried)
=============================================================================
