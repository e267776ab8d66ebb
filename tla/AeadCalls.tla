----------------------------- MODULE AeadCalls -----------------------------
(***************************************************************************)
(* The two AEAD constructions behind crypto_api.c as their callers see     *)
(* them: chacha20_poly1305.c and AES-GCM (aes.c, gcm.c).  One action per   *)
(* API call, with every refusal in the order of the code.                  *)
(*                                                                         *)
(* Abstracted: the ciphers, to a key stream the constant `Stream' gives;   *)
(* and the two MACs, to tags that are equal iff key, nonce and MAC'd data  *)
(* are.  Not abstracted: which bytes are MAC'd.                            *)
(* malloc fails, if at all, in the bigint_init calls of poly1305.c: what   *)
(* a failure inside bigint arithmetic does to a tag is not modelled here.  *)
(***************************************************************************)
EXTENDS Integers, Sequences, FiniteSets

CONSTANTS
  Keys, Nonces,
  Texts,      \* byte strings, over 0 .. 1: messages and associated data
  Stream,     \* [Keys \X Nonces -> key stream, a sequence over 0 .. 1]
  MacBlock,   \* 16, the block of Poly1305 and of GHASH
  Heaps,      \* what malloc may hand out: names of leftover contents
  MaxText,    \* bound on the length of a text
  MaxSent,    \* bound on the number of sealed packets
  MaxReleased,\* bound on the number of messages released
  MaxExtra    \* bound on the room a caller leaves behind a message

ASSUME AeadAssumption ==
  /\ MacBlock \in Nat /\ MacBlock > 1
  /\ MaxText \in Nat /\ MaxSent \in Nat /\ MaxReleased \in Nat
  /\ MaxExtra \in Nat
  /\ \A t \in Texts : t \in Seq(0 .. 1) /\ Len(t) <= MaxText
  /\ Heaps # {}
  /\ \A kn \in Keys \X Nonces, i \in 1 .. MaxText + MaxExtra :
       Stream[kn][i] \in 0 .. 1

VARIABLES
  sent,       \* the packets sealed so far, with what they were sealed from
  plaintext,  \* the caller's output buffer of decrypt
  released,   \* what decrypt returned with CRYPT_OKAY
  call        \* how the last call went

vars == <<sent, plaintext, released, call>>

Engines == {"chacha20_poly1305", "AES_GCM"}

Refusals == {"CRYPT_BAD_IV", "CRYPT_BAD_KEY", "CRYPT_BAD_NONCE",
             "CRYPT_BAD_BUFFER_LEN", "CRYPT_COMPUTATION_ERROR",
             "CRYPT_DECRYPT_FAILURE"}

-----------------------------------------------------------------------------
(***************************************************************************)
(* Bytes under a MAC: of a text, zero padding, of a length field, or what  *)
(* malloc left there.                                                      *)
(***************************************************************************)
Data(text) == [i \in 1 .. Len(text) |-> <<"byte", text[i]>>]
Zeros(n) == [i \in 1 .. n |-> <<"byte", 0>>]
Lengths(a, c) ==
  [i \in 1 .. MacBlock |->
     <<"len", IF 2 * i <= MacBlock THEN Len(a) ELSE Len(c)>>]
Uninitialised(heap, n) == [i \in 1 .. n |-> <<"junk", heap>>]

\* Bytes to the next block boundary, a whole block at a boundary.
Gap(n) == MacBlock - (n % MacBlock)

(***************************************************************************)
(* mac_data of chacha20_poly1305.c: the buffer malloc gave, of the length  *)
(* the callers compute, over which form_mac_data writes.  padding_len is   *)
(* reset only when it equals 0 for the aad, which it never does, and when  *)
(* it equals 16 for the ciphertext, for which the length keeps 16 bytes.   *)
(***************************************************************************)
\* Mutant: the length of the ciphertext stands in both fields.
MacDataOneLength(aad, ct, heap) ==
  Data(aad) \o Zeros(Gap(Len(aad))) \o Data(ct)
    \o Zeros(Gap(Len(ct)) % MacBlock) \o Lengths(ct, ct)

\* Mutant: the padding behind the ciphertext is skipped, not zeroed.
MacDataUnwiped(aad, ct, heap) ==
  Data(aad) \o Zeros(Gap(Len(aad))) \o Data(ct)
    \o Uninitialised(heap, Gap(Len(ct))) \o Lengths(aad, ct)

MacData(aad, ct, heap) ==
  LET padding2 == IF Gap(Len(ct)) = MacBlock THEN 0 ELSE Gap(Len(ct))
      written  == Data(aad) \o Zeros(Gap(Len(aad)))
                    \o Data(ct) \o Zeros(padding2) \o Lengths(aad, ct)
      mac_data_len == Len(aad) + Gap(Len(aad)) + Len(ct) + Gap(Len(ct)) + MacBlock
  IN  written \o Uninitialised(heap, mac_data_len - Len(written))

\* The blocks GHASH runs over: each text zero-padded to a whole block, then
\* the two lengths.
GhashData(aad, ct) ==
  Data(aad) \o Zeros(Gap(Len(aad)) % MacBlock)
    \o Data(ct) \o Zeros(Gap(Len(ct)) % MacBlock) \o Lengths(aad, ct)

Tag(engine, key, nonce, aad, ct, heap) ==
  [engine |-> engine, key |-> key, nonce |-> nonce,
   data |-> IF engine = "AES_GCM" THEN GhashData(aad, ct)
                                  ELSE MacData(aad, ct, heap)]

\* Mutant: the key stream is added to the text, not xored.
CryptAdding(key, nonce, text) ==
  [i \in 1 .. Len(text) |-> text[i] + Stream[<<key, nonce>>][i]]

\* chacha20_crypt and the counter loop of AES_*_GCM: both directions.
Crypt(key, nonce, text) ==
  [i \in 1 .. Len(text) |-> (text[i] + Stream[<<key, nonce>>][i]) % 2]

-----------------------------------------------------------------------------
(***************************************************************************)
(* An evaluation of an inner function returns [status, out, writes]; here  *)
(* are the sets of what it may return.  CRYPT_CHECK_OKAY(a) evaluates `a'  *)
(* a second time when it failed and returns what that says: with outcomes  *)
(* that do not depend on the first evaluation, the same set.               *)
(***************************************************************************)
Okay(end) == end.status = "CRYPT_OKAY"

Refused(code) == {[status |-> code, out |-> <<>>, writes |-> FALSE]}
Done(out) == {[status |-> "CRYPT_OKAY", out |-> out, writes |-> TRUE]}

-----------------------------------------------------------------------------
(***************************************************************************)
(* Calls.  `bad' names the one argument the caller gets wrong, if any.     *)
(***************************************************************************)
Last(engine, op, status) == [engine |-> engine, op |-> op, status |-> status]

\* The API's own checks, made before it reads any text.
Reject(engine, op, code) ==
  /\ call' = Last(engine, op, code)
  /\ UNCHANGED <<sent, plaintext, released>>

Sealed(engine, key, nonce, aad, text, ct, tag) ==
  [engine |-> engine, key |-> key, nonce |-> nonce, aad |-> aad,
   text |-> text, ct |-> ct, tag |-> tag]

\* The end of an encrypt call.
Seal(engine, key, nonce, aad, text, end) ==
  /\ call' = Last(engine, "encrypt", end.status)
  /\ sent' = IF Okay(end)
               THEN sent \cup {Sealed(engine, key, nonce, aad, text,
                                      end.out.ct, end.out.tag)}
               ELSE sent
  /\ UNCHANGED <<plaintext, released>>

(***************************************************************************)
(* crypt_chacha20_poly1305_encrypt.  The ciphertext buffer may be longer   *)
(* than the message: its last `extra' bytes, `stale', are then MAC'd and   *)
(* sent as they are.                                                       *)
(***************************************************************************)
ChachaSealOnce(key, nonce, aad, text, extra, stale, bad) ==
  LET ct == Crypt(key, nonce, text) \o [i \in 1 .. extra |-> stale]
  IN  IF bad = "constant_len" THEN Refused("CRYPT_BAD_NONCE")
      ELSE IF bad = "aead_output_len" THEN Refused("CRYPT_BAD_BUFFER_LEN")
      ELSE Refused("CRYPT_COMPUTATION_ERROR") \cup
           UNION {Done([ct |-> ct,
                        tag |-> Tag("chacha20_poly1305", key, nonce, aad, ct, h)]) :
                    h \in Heaps}

ChachaEncrypt(key, nonce, aad, text, extra, stale, bad) ==
  LET reject(code) == Reject("chacha20_poly1305", "encrypt", code)
  IN  /\ Cardinality(sent) < MaxSent
      /\ \/ bad = "iv_len" /\ reject("CRYPT_BAD_IV")
         \/ bad = "key_len" /\ reject("CRYPT_BAD_KEY")
         \/ bad = "ciphertext_len" /\ reject("CRYPT_BAD_BUFFER_LEN")
         \/ /\ bad \in {"none", "constant_len", "aead_output_len"}
            /\ \E end \in ChachaSealOnce(key, nonce, aad, text, extra, stale, bad) :
                 Seal("chacha20_poly1305", key, nonce, aad, text, end)

\* crypt_AES_GCM_encrypt: the ciphertext is as long as the message.
GcmEncrypt(key, nonce, aad, text, bad) ==
  LET ct == Crypt(key, nonce, text)
      done == Done([ct |-> ct,
                    tag |-> Tag("AES_GCM", key, nonce, aad, ct, "none")])
      reject(code) == Reject("AES_GCM", "encrypt", code)
  IN  /\ Cardinality(sent) < MaxSent
      /\ \/ bad = "key_len" /\ reject("CRYPT_BAD_KEY")
         \/ bad = "iv_len" /\ reject("CRYPT_BAD_IV")
         \/ bad = "ciphertext_len" /\ reject("CRYPT_BAD_BUFFER_LEN")
         \/ /\ bad = "none"
            /\ \E end \in done : Seal("AES_GCM", key, nonce, aad, text, end)

-----------------------------------------------------------------------------
\* The end of a decrypt call on a packet (ct, tag).
Open(engine, key, nonce, aad, end) ==
  /\ call' = Last(engine, "decrypt", end.status)
  /\ plaintext' = IF end.writes THEN end.out ELSE plaintext
  /\ released' = IF Okay(end)
                   THEN released \cup {[engine |-> engine, key |-> key,
                                        nonce |-> nonce, aad |-> aad,
                                        text |-> end.out]}
                   ELSE released
  /\ UNCHANGED sent

(***************************************************************************)
(* chacha20_poly1305_decrypt.  A constant_len that does not make a nonce   *)
(* sets res, which the result of compute_mac then overwrites: the call     *)
(* goes on, with the first 4 bytes of the constant.                        *)
(***************************************************************************)
ChachaOpenOnce(key, nonce, aad, ct, tag) ==
  Refused("CRYPT_COMPUTATION_ERROR") \cup
  UNION {IF Tag("chacha20_poly1305", key, nonce, aad, ct, h) = tag
           THEN Done(Crypt(key, nonce, ct))
           ELSE Refused("CRYPT_DECRYPT_FAILURE") : h \in Heaps}

ChachaDecrypt(key, nonce, aad, ct, tag, bad) ==
  LET reject(code) == Reject("chacha20_poly1305", "decrypt", code)
  IN  \/ bad = "iv_len" /\ reject("CRYPT_BAD_IV")
      \/ bad = "key_len" /\ reject("CRYPT_BAD_KEY")
      \/ bad \in {"plaintext_len", "truncated"} /\ reject("CRYPT_BAD_BUFFER_LEN")
      \/ /\ bad \in {"none", "constant_len"}
         /\ \E end \in ChachaOpenOnce(key, nonce, aad, ct, tag) :
              Open("chacha20_poly1305", key, nonce, aad, end)

\* Mutant: writes the text before it looks at the tag.
GcmOpenEarly(key, nonce, aad, ct, tag) ==
  IF Tag("AES_GCM", key, nonce, aad, ct, "none") = tag
    THEN Done(Crypt(key, nonce, ct))
    ELSE {[status |-> "CRYPT_DECRYPT_FAILURE", out |-> Crypt(key, nonce, ct),
           writes |-> TRUE]}

GcmOpenOnce(key, nonce, aad, ct, tag) ==
  IF Tag("AES_GCM", key, nonce, aad, ct, "none") = tag
    THEN Done(Crypt(key, nonce, ct))
    ELSE Refused("CRYPT_DECRYPT_FAILURE")

GcmDecrypt(key, nonce, aad, ct, tag, bad) ==
  LET reject(code) == Reject("AES_GCM", "decrypt", code)
  IN  \/ bad = "key_len" /\ reject("CRYPT_BAD_KEY")
      \/ bad = "iv_len" /\ reject("CRYPT_BAD_IV")
      \/ bad = "plaintext_len" /\ reject("CRYPT_BAD_BUFFER_LEN")
      \/ /\ bad = "none"
         /\ \E end \in GcmOpenOnce(key, nonce, aad, ct, tag) :
              Open("AES_GCM", key, nonce, aad, end)

-----------------------------------------------------------------------------
Init ==
  /\ sent = {}
  /\ plaintext = <<>>
  /\ released = {}
  /\ call = Last("none", "none", "none")

BadSeal == {"none", "iv_len", "key_len", "constant_len", "ciphertext_len",
            "aead_output_len"}
BadOpen == {"none", "iv_len", "key_len", "constant_len", "plaintext_len",
            "truncated"}

Encrypt ==
  \E key \in Keys, nonce \in Nonces, aad \in Texts, text \in Texts,
     bad \in BadSeal :
    \/ \E extra \in 0 .. MaxExtra, stale \in 0 .. 1 :
         ChachaEncrypt(key, nonce, aad, text, extra, stale, bad)
    \/ GcmEncrypt(key, nonce, aad, text, bad)

\* What arrives: any text under any tag that was ever on the wire, presented
\* with any nonce and associated data.
Decrypt ==
  /\ Cardinality(released) < MaxReleased
  /\ \E s \in sent, key \in Keys, nonce \in Nonces, aad \in Texts,
        ct \in Texts \cup {x.ct : x \in sent}, bad \in BadOpen :
       \/ ChachaDecrypt(key, nonce, aad, ct, s.tag, bad)
       \/ GcmDecrypt(key, nonce, aad, ct, s.tag, bad)

Next == Encrypt \/ Decrypt

Spec == Init /\ [][Next]_vars

-----------------------------------------------------------------------------
(***************************************************************************)
(* Properties                                                              *)
(***************************************************************************)
ByteString == Seq(0 .. 1)

\* Every call ends with a status of the API, and only bytes go out.
TypeOK ==
  /\ \A s \in sent : /\ s.engine \in Engines /\ s.key \in Keys
                      /\ s.nonce \in Nonces /\ s.aad \in Texts
                      /\ s.text \in Texts /\ s.ct \in ByteString
  /\ \A m \in released : m.engine \in Engines /\ m.text \in ByteString
  /\ plaintext \in ByteString
  /\ call.status \in Refusals \cup {"none", "CRYPT_OKAY"}

\* The message a sealed packet stands for: what its ciphertext decrypts to,
\* bytes left in the caller's buffer included.
Stands(s) == [engine |-> s.engine, key |-> s.key, nonce |-> s.nonce,
              aad |-> s.aad, text |-> Crypt(s.key, s.nonce, s.ct)]

\* The two constructions keep the promise of authenticated encryption: with
\* tags as unforgeable as a tag can be, nothing is released that was not
\* sealed, though texts and associated data are cut and recombined at will.
\* What it takes is that the MAC'd bytes determine both texts.
Abstract == INSTANCE Aead WITH
  Message <- [engine : Engines, key : Keys, nonce : Nonces, aad : Texts,
              text : ByteString],
  sealed <- {Stands(s) : s \in sent},
  released <- released

ImplementsAead == Abstract!Spec

\* A packet of AES-GCM, or of ChaCha20-Poly1305 unless its ciphertext fills
\* its last MAC block, has a tag that every later computation reproduces, and
\* it decrypts to the sender's message, whatever is in the heap by then.
OpensToMessage ==
  \A s \in sent :
    /\ s.engine = "AES_GCM" \/ Len(s.ct) % MacBlock # 0 =>
         \A h \in Heaps :
           Tag(s.engine, s.key, s.nonce, s.aad, s.ct, h) = s.tag
    /\ SubSeq(Crypt(s.key, s.nonce, s.ct), 1, Len(s.text)) = s.text

\* The caller's plaintext buffer changes only in a call that returns OKAY: no
\* byte of a text that is not yet verified is written, in either evaluation.
WritesOnlyVerified ==
  [][plaintext' # plaintext => call'.status = "CRYPT_OKAY"]_vars

-----------------------------------------------------------------------------
\* chacha20_poly1305.c:91-92 "mac will be computed based on the string that
\* is concatenated from the following: aad + padding1 + ciphertext + padding2
\* + aad_len (64-bit value) + ciphertext_len (64-bit value)": no other byte.
MacsOnlyTheMessage ==
  \A s \in sent :
    \A i \in 1 .. Len(s.tag.data) : s.tag.data[i][1] # "junk"
=============================================================================
