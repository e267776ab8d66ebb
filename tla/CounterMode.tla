---------------------------- MODULE CounterMode ----------------------------
(***************************************************************************)
(* The four stream ciphers: chacha20_crypt as crypt_chacha20_encrypt and   *)
(* the ChaCha20-Poly1305 packet use it, AES-CTR, and the counter mode      *)
(* inside AES-GCM.  A key stream block is the value of the 32-bit counter  *)
(* it was made from: key and nonce are fixed while a text is encrypted and *)
(* decrypted again.  Of a buffer only its length is kept.                  *)
(***************************************************************************)
EXTENDS Integers, Sequences

CONSTANTS
  Last,     \* the largest value of the counter: 2^32 - 1 in the code
  Block,    \* bytes of a key stream block: 16 or 64
  MaxText,  \* the largest length a caller can pass: 2^32 - 1
  IntMax    \* the largest int: 2^31 - 1

\* A 32-bit length has fewer blocks than there are counters but two, and 2^31
\* is whole blocks.
ASSUME CounterAssumption ==
  /\ Last \in Nat \ {0} /\ Block \in Nat \ {0} /\ MaxText \in Nat
  /\ MaxText <= Block * (Last - 1)
  /\ IntMax \in Nat /\ Block <= IntMax
  /\ \E k \in 0 .. IntMax + 1 : IntMax + 1 = Block * k

VARIABLES
  pc,     \* "idle", "crypt" inside a call, "undefined" after an overflow
  call,   \* what the call was given
  ctr,    \* state[12], iv_32[3], the last word of J
  done,   \* bytes of text behind the loop
  taken,  \* the counters the text's key stream was made from, so far
  sent    \* the last text encrypted, and its key stream

vars == <<pc, call, ctr, done, taken, sent>>

Counters == 0 .. Last
Lengths == 0 .. MaxText
Engines == {"chacha20", "packet", "aes_ctr", "gcm"}

NoText == [engine |-> "none"]
NoCall == [engine |-> "none"]

\* Counters that something else than the text is masked with: the Poly1305
\* key, the hash subkey and the tag of GCM.
Reserved(engine) ==
  CASE engine = "packet" -> {0}
    [] engine = "gcm" -> {0, 1}
    [] OTHER -> {}

-----------------------------------------------------------------------------
\* An unsigned int.
Wrap(n) == n % (MaxText + 1)

\* Mutants: a counter that is never cut to its width; one that is a bit
\* narrower than its word.
IncUncut(c) == c + 1
IncNarrow(c) == IF c = Last \div 2 THEN 0 ELSE c + 1

\* ++ of a uint32_t: inc32, state[12]++, iv_32[3]++
Inc(c) == IF c = Last THEN 0 ELSE c + 1

\* AES_encrypt_CTR sends its initial vector in front of the text.
Prefix(engine) == IF engine = "aes_ctr" THEN Block ELSE 0

InPos == done + (IF call.decrypt THEN Prefix(call.engine) ELSE 0)
OutPos == done + (IF call.decrypt THEN 0 ELSE Prefix(call.engine))

\* A call that passed its checks; `len' is the number of bytes its loop runs
\* over, `in' and `out' are the lengths of the caller's buffers.
Call(engine, decrypt, first, len, in, out) ==
  /\ pc = "idle"
  /\ pc' = "crypt"
  /\ call' = [engine |-> engine, decrypt |-> decrypt, first |-> first,
              len |-> len, in |-> in, out |-> out]
  /\ ctr' = first
  /\ done' = 0
  /\ taken' = <<>>
  /\ sent' = IF decrypt THEN sent ELSE NoText

-----------------------------------------------------------------------------
(* Encryption *)

\* Mutant: the length of the output is not checked.
ChachaEncryptUnchecked ==
  \E counter \in Counters, len, out \in Lengths :
    Call("chacha20", FALSE, counter, len, len, out)

ChachaEncrypt ==
  \E counter \in Counters, len, out \in Lengths :
    /\ out >= len
    /\ Call("chacha20", FALSE, counter, len, len, out)

\* Mutant: the text starts at the block of the Poly1305 key.
PacketEncryptFromZero ==
  \E len, out \in Lengths :
    out >= len /\ Call("packet", FALSE, 0, len, len, out)

\* chacha20_poly1305_encrypt, from CHACHA20_INIT_COUNTER
PacketEncrypt ==
  \E len, out \in Lengths :
    out >= len /\ Call("packet", FALSE, 1, len, len, out)

\* The last word of the initial vector is the counter.
AesCtrEncrypt ==
  \E counter \in Counters, len, out \in Lengths :
    /\ out >= Wrap(len + (Block - (len % Block)))
    /\ Call("aes_ctr", FALSE, counter, len, len, out)

\* From J0, whose last word is 1.
GcmEncrypt ==
  \E len, out \in Lengths :
    out >= len /\ Call("gcm", FALSE, 1, len, len, out)

-----------------------------------------------------------------------------
(* Decryption of the text sent *)

ChachaDecrypt ==
  /\ sent.engine = "chacha20"
  /\ \E out \in Lengths :
       out >= sent.len /\ Call("chacha20", TRUE, sent.first, sent.len, sent.len, out)

\* The whole ciphertext buffer was sent, whatever the text filled of it.
PacketDecrypt ==
  /\ sent.engine = "packet"
  /\ \E out \in Lengths :
       out >= sent.out /\ Call("packet", TRUE, 1, sent.out, sent.out, out)

\* The initial vector is read from the ciphertext; the loop runs over the
\* length of the output, not of the text.
AesCtrDecrypt ==
  /\ sent.engine = "aes_ctr"
  /\ sent.len + Block <= MaxText
  /\ \E out \in Lengths :
       /\ out >= sent.len
       /\ Call("aes_ctr", TRUE, sent.first, out, sent.len + Block, out)

\* Mutant: the counter is incremented before the loop that increments it.
GcmDecryptFromNext ==
  /\ sent.engine = "gcm"
  /\ \E out \in Lengths :
       out >= sent.len /\ Call("gcm", TRUE, Inc(1), sent.len, sent.len, out)

GcmDecrypt ==
  /\ sent.engine = "gcm"
  /\ \E out \in Lengths :
       out >= sent.len /\ Call("gcm", TRUE, 1, sent.len, sent.len, out)

-----------------------------------------------------------------------------
(* The loops *)

\* GCM increments before it encrypts the counter, the others after.
Taken == IF call.engine = "gcm" THEN Inc(ctr) ELSE ctr

\* The largest value that the int current_index and the sums made from it take
\* while AES-CTR masks the next `bytes' bytes.  Encryption adds a whole block
\* after the last one, too.
LargestIndex(bytes) ==
  IF ~ call.decrypt /\ bytes = Block
    THEN done + Block + bytes ELSE done + Block + bytes - 1

\* chacha20_crypt and GCM count in unsigned numbers.
Overflows(bytes) == call.engine = "aes_ctr" /\ LargestIndex(bytes) > IntMax

\* An overflow of an int: nothing is said of what the program does after.
IndexOverflow ==
  /\ pc = "crypt"
  /\ \/ call.len - done >= Block /\ Overflows(Block)
     \/ call.len - done \in 1 .. Block - 1 /\ Overflows(call.len - done)
  /\ pc' = "undefined"
  /\ UNCHANGED <<call, ctr, done, taken, sent>>

Undefined == pc = "undefined" /\ UNCHANGED vars

FullBlock ==
  /\ pc = "crypt"
  /\ call.len - done >= Block /\ ~ Overflows(Block)
  /\ taken' = Append(taken, Taken)
  /\ ctr' = Inc(ctr)
  /\ done' = done + Block
  /\ UNCHANGED <<pc, call, sent>>

PartialBlock ==
  /\ pc = "crypt"
  /\ call.len - done \in 1 .. Block - 1 /\ ~ Overflows(call.len - done)
  /\ taken' = Append(taken, Taken)
  /\ ctr' = IF call.engine = "gcm" THEN Inc(ctr) ELSE ctr
  /\ done' = call.len
  /\ UNCHANGED <<pc, call, sent>>

Return ==
  /\ pc = "crypt"
  /\ done = call.len
  /\ pc' = "idle"
  /\ sent' = IF call.decrypt THEN sent
             ELSE [engine |-> call.engine, first |-> call.first,
                   len |-> call.len, out |-> call.out, stream |-> taken]
  /\ UNCHANGED <<call, ctr, done, taken>>

-----------------------------------------------------------------------------
Init ==
  /\ pc = "idle"
  /\ call = NoCall
  /\ ctr = 0
  /\ done = 0
  /\ taken = <<>>
  /\ sent = NoText

Next ==
  \/ ChachaEncrypt \/ PacketEncrypt \/ AesCtrEncrypt \/ GcmEncrypt
  \/ ChachaDecrypt \/ PacketDecrypt \/ AesCtrDecrypt \/ GcmDecrypt
  \/ FullBlock \/ PartialBlock \/ IndexOverflow \/ Undefined \/ Return

Spec == Init /\ [][Next]_vars

-----------------------------------------------------------------------------
(***************************************************************************)
(* Properties                                                              *)
(***************************************************************************)

CallRecords ==
  [engine : Engines, decrypt : BOOLEAN, first : Counters,
   len : Lengths, in : Lengths, out : Lengths]

\* The counter never leaves its 32 bits, the loop never passes the text.
TypeOK ==
  /\ pc \in {"idle", "crypt", "undefined"}
  /\ call \in CallRecords \cup {NoCall}
  /\ call = NoCall => pc = "idle" /\ taken = <<>>
  /\ ctr \in Counters
  /\ done \in Nat
  /\ pc = "crypt" => done <= call.len
  /\ taken \in Seq(Counters)
  /\ \/ sent = NoText
     \/ /\ sent.engine \in Engines
        /\ sent.first \in Counters
        /\ sent.len \in Lengths /\ sent.out \in Lengths
        /\ sent.stream \in Seq(Counters)

\* chacha20_crypt, AES_encrypt_CTR, AES_encrypt_GCM and their inverses never
\* mask two blocks of one text with the same counter, wherever the counter
\* starts and although it wraps: no text is long enough to come around.
NoBlockTwice ==
  \A i, j \in 1 .. Len(taken) : i # j => taken[i] # taken[j]

\* Nor do they mask text with the block that made the Poly1305 key, GCM's
\* hash subkey, or the mask of GCM's tag.
ReservedUntouched ==
  \A i \in 1 .. Len(taken) : taken[i] \notin Reserved(call.engine)

\* Decryption makes the key stream that encryption made, block by block, and
\* at least as much of it: the two loops of each cipher, which are written
\* twice, agree; so that XOR gives the text back.
DecryptsSent ==
  (call # NoCall /\ call.decrypt) =>
    /\ \A i \in 1 .. Len(taken) :
         i <= Len(sent.stream) => taken[i] = sent.stream[i]
    /\ done = call.len => Len(taken) >= Len(sent.stream)

\* A call that passes its checks stays inside the caller's buffers, except
\* AES-CTR: encryption when there is no room for the initial vector (asked
\* for only up to the next block boundary), decryption into a buffer longer
\* than the text (which the loop then reads beyond the ciphertext), and both
\* of texts whose positions, the vector included, overflow an int.
StaysInBuffers ==
  (call # NoCall /\ (done = call.len \/ pc = "undefined")) =>
    ((pc # "undefined" /\ OutPos <= call.out /\ InPos <= call.in) <=>
       (call.engine = "aes_ctr" =>
          IF call.decrypt
            THEN call.len = sent.len /\ call.len + Block <= IntMax + 1
            ELSE call.out >= call.len + Block /\ call.len + Block <= IntMax))
=============================================================================
