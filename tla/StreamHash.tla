----------------------------- MODULE StreamHash -----------------------------
(***************************************************************************)
(* One hash context driven through init / update / finish by its caller:   *)
(* md5.c, sha1.c, sha256.c (SHA-224, SHA-256) and sha512.c (SHA-384,       *)
(* SHA-512, SHA-512/224, SHA-512/256).  The message is whatever the caller *)
(* has passed to update since init; `fed' counts its bytes.                *)
(***************************************************************************)
EXTENDS MdContext

CONSTANTS
  Families,    \* the files whose contexts are used, of AllFamilies
  Chunks,      \* the lengths a caller may pass to update
  MaxFed       \* bound on the length of a message

AllFamilies == {"md5", "sha1", "sha256", "sha512"}

ASSUME CallAssumption ==
  Families \subseteq AllFamilies /\ Chunks \subseteq Nat /\ MaxFed \in Nat

\* A block is longer than the length field of any of the standards.
ASSUME FieldAssumption == BlockLen > 16

VARIABLES
  family,   \* which file's context this is; it never changes
  ctx,      \* md5_ctx, sha1_ctx, sha224_256_ctx or sha384_512_ctx
  sha,      \* the algorithm the caller opened the context with, or "none"
  fed,      \* bytes passed to update since init
  status,   \* what the last call returned
  digest    \* what finish wrote: the chaining value, cut for `alg'

vars == <<family, ctx, sha, fed, status, digest>>

NoDigest == [alg |-> "none", iv |-> "none", blocks |-> <<>>]

Variants ==
  CASE family = "md5"    -> {"MD5"}
    [] family = "sha1"   -> {"SHA1"}
    [] family = "sha256" -> {"SHA224", "SHA256"}
    [] family = "sha512" -> {"SHA384", "SHA512", "SHA512_224", "SHA512_256"}

\* A value of the SHA2 enum that belongs to another file.
Foreign == "other"

Statuses == {"CRYPT_OKAY", "CRYPT_BAD_BUFFER_LEN", "CRYPT_UNSUPPORTED_ALGO"}

-----------------------------------------------------------------------------
Refuse(code) == status' = code /\ UNCHANGED <<family, ctx, sha, fed, digest>>

\* Mutant: init does not reset bit_count.
OpenKeepingCount(alg, buf) ==
  /\ ctx' = [Opened(alg, buf) EXCEPT !.bit_count = ctx.bit_count]
  /\ sha' = alg
  /\ fed' = 0
  /\ digest' = NoDigest
  /\ status' = "CRYPT_OKAY"
  /\ UNCHANGED family

Open(alg, buf) ==
  /\ ctx' = Opened(alg, buf)
  /\ sha' = alg
  /\ fed' = 0
  /\ digest' = NoDigest
  /\ status' = "CRYPT_OKAY"
  /\ UNCHANGED family

Md5Init == family = "md5" /\ Open("MD5", Blank)

\* sha1_init leaves ctx->buffer as it found it.
Sha1Init == family = "sha1" /\ Open("SHA1", ctx.buffer)

\* Mutant: leaves the buffer as sha1_init does.
Sha256InitDirty(alg) ==
  /\ family = "sha256"
  /\ IF alg \in Variants THEN Open(alg, ctx.buffer)
                         ELSE Refuse("CRYPT_UNSUPPORTED_ALGO")

Sha256Init(alg) ==
  /\ family = "sha256"
  /\ IF alg \in Variants THEN Open(alg, Blank)
                         ELSE Refuse("CRYPT_UNSUPPORTED_ALGO")

Sha512Init(alg) ==
  /\ family = "sha512"
  /\ IF alg \in Variants THEN Open(alg, Blank)
                         ELSE Refuse("CRYPT_UNSUPPORTED_ALGO")

-----------------------------------------------------------------------------
Absorb(n) ==
  /\ sha # "none"
  /\ fed + n <= MaxFed
  /\ ctx' = IF n = 0 THEN ctx
            ELSE Updated(ctx, [i \in 1 .. n |-> MsgByte(fed + i)])
  /\ fed' = fed + n
  /\ status' = "CRYPT_OKAY"
  /\ UNCHANGED <<family, sha, digest>>

Md5Update(n)    == family = "md5"    /\ Absorb(n)
Sha1Update(n)   == family = "sha1"   /\ Absorb(n)
Sha256Update(n) == family = "sha256" /\ Absorb(n)
Sha512Update(n) == family = "sha512" /\ Absorb(n)

-----------------------------------------------------------------------------
\* The common end of *_finish: pad, compress, write the digest, wipe.
Emit(alg) ==
  /\ digest' = [alg |-> alg, iv |-> ctx.iv, blocks |-> Finished(ctx)]
  /\ ctx' = Wiped
  /\ sha' = "none"
  /\ status' = "CRYPT_OKAY"
  /\ UNCHANGED <<family, fed>>

Md5Finish == family = "md5" /\ sha # "none" /\ Emit("MD5")

\* `room': digest_len is at least the digest length of the algorithm.
Sha1Finish(room) ==
  /\ family = "sha1" /\ sha # "none"
  /\ IF room THEN Emit("SHA1") ELSE Refuse("CRYPT_BAD_BUFFER_LEN")

Sha256Finish(alg, room) ==
  /\ family = "sha256" /\ sha # "none"
  /\ IF alg \notin Variants THEN Refuse("CRYPT_UNSUPPORTED_ALGO")
     ELSE IF room THEN Emit(alg)
     ELSE Refuse("CRYPT_BAD_BUFFER_LEN")

\* sha384_512_finish has no last else: another algorithm gets CRYPT_OKAY, a
\* wiped context and no digest.
Sha512Finish(alg, room) ==
  /\ family = "sha512" /\ sha # "none"
  /\ IF alg \notin Variants
       THEN /\ ctx' = Wiped
            /\ sha' = "none"
            /\ status' = "CRYPT_OKAY"
            /\ UNCHANGED <<family, fed, digest>>
     ELSE IF room THEN Emit(alg)
     ELSE Refuse("CRYPT_BAD_BUFFER_LEN")

-----------------------------------------------------------------------------
\* A declared context: the caller's stack, or {0} as crypto_api.c has it.
Init ==
  /\ family \in Families
  /\ ctx \in {Opened("zeros", [j \in Cells |-> b]) : b \in {Zero, Junk}}
  /\ sha = "none"
  /\ fed = 0
  /\ status = "CRYPT_OKAY"
  /\ digest = NoDigest

Inits ==
  \/ Md5Init
  \/ Sha1Init
  \/ \E alg \in Variants \cup {Foreign} : Sha256Init(alg)
  \/ \E alg \in Variants \cup {Foreign} : Sha512Init(alg)

Updates(n) ==
  \/ Md5Update(n)
  \/ Sha1Update(n)
  \/ Sha256Update(n)
  \/ Sha512Update(n)

Finishes(alg, room) ==
  \/ Md5Finish
  \/ Sha1Finish(room)
  \/ Sha256Finish(alg, room)
  \/ Sha512Finish(alg, room)

\* Any call, in any order that opens a context before it is used.
Next ==
  \/ Inits
  \/ \E n \in Chunks : Updates(n)
  \/ \E alg \in Variants \cup {Foreign}, room \in BOOLEAN : Finishes(alg, room)

Spec == Init /\ [][Next]_vars

-----------------------------------------------------------------------------
(***************************************************************************)
(* The calls of crypto_api.c and hmac.c, a little more generally: update   *)
(* starts on an empty buffer or reaches the end of the block, as a single  *)
(* update after init always does; the length of a call in bits fits an     *)
(* unsigned int, that of the message fits bit_count; finish names the      *)
(* algorithm that init did.                                                *)
(***************************************************************************)
Blockwise(n) ==
  /\ Index(ctx) = 0 \/ n >= BlockLen - Index(ctx)
  /\ 8 * n < UIntMod
  /\ 8 * (fed + n) < CountMod

BlockwiseNext ==
  \/ Inits
  \/ \E n \in Chunks : Blockwise(n) /\ Updates(n)
  \/ \E room \in BOOLEAN : Finishes(sha, room)

BlockwiseSpec == Init /\ [][BlockwiseNext]_vars

-----------------------------------------------------------------------------
(***************************************************************************)
(* The reference: RFC 1321 3.1-3.2 and FIPS 180-4 5.1.  A message of n     *)
(* bytes is followed by 0x80, as few zeros as make whole blocks, and its   *)
(* length in the last bytes; `field' is the size of the length field, of   *)
(* which messages shorter than 2^64 bits use the last 8 bytes.             *)
(***************************************************************************)
\* Bytes of the length field in the standard.
StdLenField == IF family = "sha512" THEN 16 ELSE 8

PaddedBlocks(n, field) == (n + field + BlockLen) \div BlockLen

Standard(n, field) ==
  LET total == PaddedBlocks(n, field) * BlockLen
      ByteAt(p) == IF p < n THEN MsgByte(p + 1)
                   ELSE IF p = n THEN One
                   ELSE IF p >= total - 8 THEN LenByte(8 * n, p - (total - 8))
                   ELSE Zero
  IN  [k \in 1 .. PaddedBlocks(n, field) |->
         [j \in Cells |-> ByteAt((k - 1) * BlockLen + j)]]

\* Message lengths modulo BlockLen whose padding is not the standard one:
\* the length field just fits and finish spills all the same, or the field
\* is longer than 8 bytes and finish finds room for it where there is none.
OddTails ==
  {t \in Cells : t + 1 + StdLenField > BlockLen /\ t + 1 < LengthAt}
    \cup {t \in Cells : t + 1 + StdLenField = BlockLen /\ t + 1 = LengthAt}

-----------------------------------------------------------------------------
(***************************************************************************)
(* Properties                                                              *)
(***************************************************************************)

\* The context keeps its shape whatever lengths the caller passes: no memcpy
\* or memset of update and finish writes outside the block buffer, and every
\* block compressed was completely written.
TypeOK ==
  /\ family \in Families
  /\ ctx \in [iv : Variants \cup {"zeros"}, blocks : Seq([Cells -> Byte]),
              bit_count : 0 .. CountMod - 1, buffer : [Cells -> Byte]]
  /\ sha \in Variants \cup {"none"}
  /\ fed \in 0 .. MaxFed
  /\ status \in Statuses
  /\ digest \in [alg : Variants \cup {"none"},
                 iv : Variants \cup {"none", "zeros"},
                 blocks : Seq([Cells -> Byte])]

\* While a context is open, the blocks compressed and the first Index(ctx)
\* bytes of the buffer are, in order, exactly the bytes fed since init, and
\* the counter is their number of bits: nothing lost, repeated or left over
\* from an abandoned session, wherever the calls cut the message.
HoldsMessage ==
  sha # "none" =>
    /\ ctx.iv = sha
    /\ ctx.bit_count = 8 * fed
    /\ fed = Len(ctx.blocks) * BlockLen + Index(ctx)
    /\ \A k \in 1 .. Len(ctx.blocks), j \in Cells :
         ctx.blocks[k][j] = MsgByte((k - 1) * BlockLen + j + 1)
    /\ \A j \in 0 .. Index(ctx) - 1 :
         ctx.buffer[j] = MsgByte(Len(ctx.blocks) * BlockLen + j + 1)

\* A digest that finish returned is the one the standard defines for the
\* message and the algorithm of this session, precisely when the message
\* length is not one of the odd tails.
DigestIsStandard ==
  digest # NoDigest =>
    /\ digest.alg = digest.iv
    /\ (digest.blocks = Standard(fed, StdLenField))
         <=> (fed % BlockLen \notin OddTails)

\* However the caller cuts the message, the counter is the number of bits fed
\* and one block is compressed for every BlockLen bytes: even where update
\* misplaces bytes, finish pads and encodes the length of the whole message.
CountsEveryByte ==
  sha # "none" /\ (\A n \in Chunks : 8 * n < UIntMod) =>
    /\ ctx.bit_count = (8 * fed) % CountMod
    /\ Len(ctx.blocks) = fed \div BlockLen

\* However the caller cuts the message, no digest depends on memory nobody
\* wrote, although a chunked update leaves parts of the buffer behind: the
\* init functions that clear ctx->buffer, all but sha1_init, guarantee it.
NoJunkInDigest ==
  family # "sha1" =>
  \A k \in 1 .. Len(digest.blocks), j \in Cells :
    digest.blocks[k][j] # Junk

-----------------------------------------------------------------------------
(***************************************************************************)
(* What comments of the sources say, and the code does not do.             *)
(***************************************************************************)

\* md5.c:200 "using partial_len in case there are already things in the
\* context buffer": an update that does not complete the block keeps what
\* earlier updates put there.
KeepsBufferedBytes ==
  [][fed' > fed /\ ctx'.blocks = ctx.blocks =>
       \A j \in 0 .. Index(ctx) - 1 : ctx'.buffer[j] = ctx.buffer[j]]_vars

\* sha1.c:176 "if there is no more room for appending the length, we pad it
\* with 0 and then process it": a block is added only when the marker leaves
\* fewer than 8 bytes.
SpillsOnlyWithoutRoom ==
  digest # NoDigest => Len(digest.blocks) = PaddedBlocks(fed, 8)
=============================================================================
