-------------------------------- MODULE Hmac --------------------------------
(***************************************************************************)
(* hmac.c over the hashes of sha256.c and sha512.c: a context its caller   *)
(* initialises with a key, computes any number of MACs with, and wipes;    *)
(* and crypt_hmac, which does all three.  The two block sizes are two      *)
(* instances of MdContext.  Bytes of keys and texts are 0 or 1; an inner   *)
(* hash is bytes that only its digest and their place determine.           *)
(***************************************************************************)
EXTENDS Integers, Sequences, FiniteSets

CONSTANTS
  ShortBlock,   \* 64: the block of SHA-256
  LongBlock,    \* 128: the block of SHA-384, SHA-512, and HMAC_PADDED_KEY_LEN
  DigestLen,    \* [Algs -> bytes of a digest]
  UIntMod, CountMod,   \* the widths of MdContext
  Keys, Texts,  \* sequences over 0 .. 1
  MaxMacs       \* bound on the number of MACs computed

Algs == {"SHA256", "SHA384", "SHA512"}

\* A value of the SHA2 enum that hmac.c has no function for.
Foreign == "SHA224"

\* A key longer than the whole context would be written behind it.
ASSUME HmacAssumption ==
  /\ ShortBlock \in Nat /\ LongBlock \in Nat
  /\ 8 < ShortBlock /\ 16 < LongBlock /\ ShortBlock < LongBlock
  /\ DigestLen \in [Algs -> Nat] /\ MaxMacs \in Nat
  /\ Keys \cup Texts \subseteq Seq(0 .. 1)
  /\ \A k \in Keys : Len(k) <= 3 * LongBlock

\* A text, and the block before it, have fewer bits than an unsigned int
\* counts, and 2^64 bits are a whole number of blocks.
ASSUME LengthAssumption ==
  /\ UIntMod \in Nat /\ CountMod \in Nat
  /\ \A block \in {ShortBlock, LongBlock} : CountMod % (8 * block) = 0
  /\ \A n \in {LongBlock} \cup {Len(t) : t \in Texts} :
       8 * (LongBlock + n) < UIntMod /\ 8 * (LongBlock + n) < CountMod

\* A digest shares its block with all of its padding, in the code and in the
\* standard, whose length field is 8 bytes long, or 16.
ASSUME DigestAssumption ==
  /\ \A alg \in Algs : DigestLen[alg] > 0
  /\ DigestLen["SHA256"] + 9 < ShortBlock
  /\ \A alg \in {"SHA384", "SHA512"} : DigestLen[alg] + 16 < LongBlock

Short == INSTANCE MdContext WITH BlockLen <- ShortBlock
Long == INSTANCE MdContext WITH BlockLen <- LongBlock

VARIABLES
  ctx,      \* hmac_ctx: padded_key, inner_pad and outer_pad, one after the other
  opened,   \* the key and the block size hmac_init was called with, if it was
  macs,     \* what the caller took for MACs, with what it asked for
  buffer    \* the caller's buffer for MACs, which it does not clear

hmacVars == <<ctx, opened, macs, buffer>>

Nothing == [alg |-> "none", blocks |-> <<>>]
Unopened == [key |-> <<>>, block |-> -1]

BlockOf(alg) == IF alg = "SHA256" THEN ShortBlock ELSE LongBlock

Bytes(text) ==
  [i \in 1 .. Len(text) |->
     IF text[i] = 0 THEN Short!Zero ELSE <<"byte", text[i], 0>>]

-----------------------------------------------------------------------------
IPAD == 54
OPAD == 92

Offsets == 0 .. 3 * LongBlock - 1

\* Mutant: the outer pad ends one byte too late.
InitialisedInclusive(key, block) ==
  [i \in Offsets \cup {2 * LongBlock + block} |->
     IF i \in LongBlock .. LongBlock + block - 1 THEN IPAD
     ELSE IF i \in 2 * LongBlock .. 2 * LongBlock + block THEN OPAD
     ELSE IF i < Len(key) THEN key[i + 1] ELSE 0]

\* Mutant: padded_key is not cleared before the key is copied.
InitialisedUncleared(key, block) ==
  [i \in Offsets |->
     IF i \in LongBlock .. LongBlock + block - 1 THEN IPAD
     ELSE IF i \in 2 * LongBlock .. 2 * LongBlock + block - 1 THEN OPAD
     ELSE IF i < Len(key) THEN key[i + 1] ELSE ctx[i]]

\* Everything cleared, then the key, which may run into inner_pad and on,
\* then the pads for one block.
Initialised(key, block) ==
  [i \in Offsets |->
     IF i \in LongBlock .. LongBlock + block - 1 THEN IPAD
     ELSE IF i \in 2 * LongBlock .. 2 * LongBlock + block - 1 THEN OPAD
     ELSE IF i < Len(key) THEN key[i + 1] ELSE 0]

\* Exclusive or of a byte below 2 and any byte.
Xor(a, b) == 2 * (b \div 2) + ((a + b) % 2)

\* A block of padded_key ^ inner_pad (n = 1) or padded_key ^ outer_pad (n = 2).
KeyBlock(c, n, len) ==
  Bytes([i \in 1 .. len |-> Xor(c[i - 1], c[n * LongBlock + i - 1])])

-----------------------------------------------------------------------------
\* init, one update, finish.
Hash(alg, data) ==
  [alg |-> alg,
   blocks |-> IF alg = "SHA256"
                THEN Short!Finished(Short!Updated(Short!Opened(alg, Short!Blank), data))
                ELSE Long!Finished(Long!Updated(Long!Opened(alg, Long!Blank), data))]

\* The bytes of a digest.
Bytewise(digest) ==
  [i \in 1 .. DigestLen[digest.alg] |-> <<"hash", digest, i>>]

\* Mutant: the inner hash is taken over the outer pad, too.
MacOfOnePad(c, alg, text) ==
  LET inner == Hash(alg, KeyBlock(c, 2, BlockOf(alg)) \o Bytes(text))
  IN  Hash(alg, KeyBlock(c, 2, BlockOf(alg)) \o Bytewise(inner))

\* hmac_sha256_compute_mac, hmac_sha384_compute_mac, hmac_sha512_compute_mac
MacOf(c, alg, text) ==
  LET inner == Hash(alg, KeyBlock(c, 1, BlockOf(alg)) \o Bytes(text))
  IN  Hash(alg, KeyBlock(c, 2, BlockOf(alg)) \o Bytewise(inner))

\* What the caller takes for a MAC is what its buffer holds then.
Take(alg, key, block, text, room, mac) ==
  /\ Cardinality(macs) < MaxMacs
  /\ buffer' = mac
  /\ macs' = macs \cup {[alg |-> alg, key |-> key, block |-> block,
                         text |-> text, room |-> room, mac |-> mac]}

-----------------------------------------------------------------------------
HmacInit(key, block) ==
  /\ Cardinality(macs) < MaxMacs
  /\ ctx' = Initialised(key, block)
  /\ opened' = [key |-> key, block |-> block]
  /\ UNCHANGED <<macs, buffer>>

\* mac_len only reaches *_finish, which refuses a short one, to no avail.
ComputeMac(alg, text, room) ==
  /\ opened # Unopened
  /\ Take(alg, opened.key, opened.block, text, room,
          IF room THEN MacOf(ctx, alg, text) ELSE buffer)
  /\ UNCHANGED <<ctx, opened>>

\* A key of zeros and pads of no byte.
HmacCleanup ==
  /\ ctx' = [i \in Offsets |-> 0]
  /\ opened' = [key |-> <<>>, block |-> 0]
  /\ UNCHANGED <<macs, buffer>>

\* crypt_hmac with the right mac_len: without, it returns before it touches
\* anything.  Its context is its own; it returns CRYPT_OKAY, MAC or not.
CryptHmac(key, alg, text) ==
  /\ IF alg \in Algs
       THEN Take(alg, key, BlockOf(alg), text, TRUE,
                 MacOf(Initialised(key, BlockOf(alg)), alg, text))
       ELSE Take(alg, key, 0, text, TRUE, buffer)
  /\ UNCHANGED <<ctx, opened>>

-----------------------------------------------------------------------------
\* The context is on the caller's stack.
HmacStart ==
  /\ ctx \in {[i \in Offsets |-> b] : b \in 0 .. 1}
  /\ opened = Unopened
  /\ macs = {}
  /\ buffer = Nothing

HmacNext ==
  \/ \E key \in Keys, block \in {ShortBlock, LongBlock} : HmacInit(key, block)
  \/ \E alg \in Algs, text \in Texts, room \in BOOLEAN : ComputeMac(alg, text, room)
  \/ HmacCleanup
  \/ \E key \in Keys, alg \in Algs \cup {Foreign}, text \in Texts :
       CryptHmac(key, alg, text)

-----------------------------------------------------------------------------
(***************************************************************************)
(* The reference: FIPS 198-1 over FIPS 180-4.                              *)
(***************************************************************************)
StdField(alg) == IF alg = "SHA256" THEN 8 ELSE 16

\* Blocks of a message of n bytes: marker and length field fit in the last.
StdBlocks(alg, n) == (n + StdField(alg) + BlockOf(alg)) \div BlockOf(alg)

StdHash(alg, data) ==
  LET n == Len(data)
      total == StdBlocks(alg, n) * BlockOf(alg)
      padded == data \o <<Short!One>> \o [i \in 1 .. total - n - 9 |-> Short!Zero]
                  \o [j \in 1 .. 8 |-> Short!LenByte(8 * n, j - 1)]
  IN  [alg |-> alg,
       blocks |-> [k \in 1 .. StdBlocks(alg, n) |->
                     [j \in 0 .. BlockOf(alg) - 1 |->
                        padded[(k - 1) * BlockOf(alg) + j + 1]]]]

\* A key of at most a block, with zeros behind it.
Padded(key, block) ==
  [i \in 1 .. block |-> IF i <= Len(key) THEN key[i] ELSE 0]

StdHmac(alg, key, text) ==
  LET block == BlockOf(alg)
      \* the hash of a longer key is not made of bytes below 2
      With(pad) ==
        IF Len(key) <= block
          THEN Bytes([i \in 1 .. block |-> Xor(Padded(key, block)[i], pad)])
          ELSE [i \in 1 .. block |->
                  <<"xor", IF i <= DigestLen[alg]
                             THEN <<StdHash(alg, Bytes(key)), i>> ELSE <<>>, pad>>]
  IN  StdHash(alg, With(OPAD) \o
        Bytewise(StdHash(alg, With(IPAD) \o Bytes(text))))

\* Text lengths modulo the block after which finish pads as no standard does
\* (StreamHash's odd tails).
OddTail(alg, n) ==
  LET t == n % BlockOf(alg) IN
  \/ t + 1 + StdField(alg) > BlockOf(alg) /\ t + 1 < BlockOf(alg) - 8
  \/ t + 1 + StdField(alg) = BlockOf(alg) /\ t + 1 = BlockOf(alg) - 8

-----------------------------------------------------------------------------
(***************************************************************************)
(* Properties                                                              *)
(***************************************************************************)

\* hmac_init, with keys up to the size of the context, writes no byte outside
\* it, and leaves nothing there but bytes of the key and of the pads.
HmacTypeOK ==
  /\ ctx \in [Offsets -> {0, 1, IPAD, OPAD}]
  /\ opened.key \in Keys \cup {<<>>}
  /\ opened.block \in {-1, 0, ShortBlock, LongBlock}
  /\ \A m \in macs : m.alg \in Algs \cup {Foreign} /\ m.text \in Texts

\* No MAC is written for these, and no status says so.
Unwritten(m) == ~ m.room \/ m.alg = Foreign

\* Whatever the context was used for before, a MAC that was written is the
\* standard's precisely when the key fits a block, the context was opened for
\* a block at least as long as the algorithm's and not wiped since, and the
\* text does not end where the hash pads in its own way.
MacIsHmac ==
  \A m \in macs :
    ~ Unwritten(m) =>
      (m.mac = StdHmac(m.alg, m.key, m.text)
         <=> /\ Len(m.key) <= BlockOf(m.alg)
             /\ m.block >= BlockOf(m.alg)
             /\ ~ OddTail(m.alg, Len(m.text)))

\* A MAC binds algorithm and text and as much of the key as fits a block: two
\* MACs are equal iff these agree, from a context used again, wiped between or
\* used for the first time.  A caller that gets one MAC for two texts from a
\* context that fits was left with the old MAC by a call that did nothing: one
\* with a short mac_len, or an algorithm crypt_hmac has no case for.
MacsBind ==
  LET SameInput(m, n) ==
        /\ m.alg = n.alg /\ m.text = n.text
        /\ Padded(m.key, BlockOf(m.alg)) = Padded(n.key, BlockOf(n.alg))
      Fits(m) == m.block >= BlockOf(m.alg)
  IN  \A m, n \in macs :
        /\ \/ Unwritten(m) \/ Unwritten(n) \/ ~ Fits(m) \/ ~ Fits(n)
           \/ SameInput(m, n) <=> m.mac = n.mac
        /\ Unwritten(m) => m.mac \in {Nothing} \cup {x.mac : x \in macs \ {m}}
=============================================================================
