------------------------------ MODULE HostCalls ------------------------------
(***************************************************************************)
(* One call of a one-shot function of crypto_api.c, crypt_md5, crypt_sha1, *)
(* crypt_sha256, crypt_sha512, or crypt_chacha20_encrypt, whose twin       *)
(* crypt_chacha20_decrypt has the same body, or of poly1305_keygen: on the *)
(* bytes themselves, on a host of either byte order.                       *)
(*                                                                         *)
(* init, update and finish are those of MdContext, whose cells are filled  *)
(* in here; Compression and ChaCha20 are the functions behind them.        *)
(* Pointers are not null.                                                  *)
(***************************************************************************)
EXTENDS Compression, ChaCha20

LOCAL INSTANCE SequencesExt

CONSTANTS
  H,                 \* [algorithm -> initial chaining value]
  UIntMod, CountMod, \* the widths of MdContext
  Requests           \* records: fn, room, and what the function takes

VARIABLES
  request,
  host,       \* the byte order of the machine
  stage,      \* "call", "blocks", "rounds", "stream", "mixing", "done"
  chain,      \* the chaining value, or the state of ChaCha20
  words,      \* the word sequence of the block
  working,    \* the working variables of the rounds
  rounds,     \* the rounds done
  pending,    \* blocks to be compressed, or text to be masked
  status,     \* what the call returned
  written     \* the caller's output buffer, `room' bytes

hostVars == <<request, host, stage, chain, words, working, rounds, pending, status,
              written>>

Short == INSTANCE MdContext WITH BlockLen <- 64
Long == INSTANCE MdContext WITH BlockLen <- 128

HashFunctions == {"crypt_md5", "crypt_sha1", "crypt_sha256", "crypt_sha512"}

\* The cases of the switch in crypt_sha256 and crypt_sha512.
Offered(fn) ==
  CASE fn = "crypt_md5" -> {"MD5"}
    [] fn = "crypt_sha1" -> {"SHA1"}
    [] fn = "crypt_sha256" -> {"SHA224", "SHA256"}
    [] fn = "crypt_sha512" -> {"SHA384", "SHA512", "SHA512_224", "SHA512_256"}

DigestLen(alg) ==
  CASE alg = "MD5" -> 16 [] alg = "SHA1" -> 20
    [] alg \in {"SHA224", "SHA512_224"} -> 28
    [] alg \in {"SHA256", "SHA512_256"} -> 32
    [] alg = "SHA384" -> 48 [] alg = "SHA512" -> 64

\* What no byte is, which has bits 0 to 7.
Untouched == {8}

\* buffer with bytes copied over it from offset `at' on.
Written(buffer, at, bytes) ==
  [n \in 1 .. Len(buffer) |->
     IF n - at \in 1 .. Len(bytes) THEN bytes[n - at] ELSE buffer[n]]

-----------------------------------------------------------------------------
(* Refusals *)

HashRefusal(r) ==
  IF r.alg \notin Offered(r.fn) THEN "CRYPT_UNSUPPORTED_ALGO"
  ELSE IF r.room < DigestLen(r.alg) THEN "CRYPT_BAD_BUFFER_LEN"
  ELSE "CRYPT_OKAY"

StreamRefusal(r) ==
  IF Len(r.key) # 32 THEN "CRYPT_BAD_KEY"
  ELSE IF Len(r.nonce) # 12 THEN "CRYPT_BAD_NONCE"
  ELSE IF r.room < Len(r.text) THEN "CRYPT_BAD_BUFFER_LEN"
  ELSE "CRYPT_OKAY"

Refusal(r) ==
  CASE r.fn \in HashFunctions -> HashRefusal(r)
    [] r.fn = "crypt_chacha20" -> StreamRefusal(r)
    [] r.fn = "poly1305_keygen" -> "CRYPT_OKAY"

Return(s) == status' = s /\ stage' = "done"

Refuse ==
  /\ stage = "call" /\ Refusal(request) # "CRYPT_OKAY"
  /\ Return(Refusal(request))
  /\ UNCHANGED <<request, host, chain, words, working, rounds, pending, written>>

-----------------------------------------------------------------------------
(* Hashes *)

\* Byte j of the length field, whose bytes MD5 stores in the other order.
LengthByte(count, j) ==
  LET field == W64!OfNumber(count)
  IN  W64!Stored(IF request.fn = "crypt_md5" THEN W64!ToLittleEndian(field, host)
                                             ELSE W64!ToBigEndian(field, host),
                 host)[j + 1]

\* A cell of MdContext as a byte.
ByteOf(cell) ==
  CASE cell[1] = "msg" -> request.text[cell[2]]
    [] cell[1] = "one" -> {7}
    [] cell[1] = "zero" -> {}
    [] cell[1] = "len" -> LengthByte(cell[2], cell[3])

\* The blocks that init, one update and finish compress; the context is
\* cleared before.
Padded ==
  LET text == [n \in 1 .. Len(request.text) |-> Short!MsgByte(n)]
      blocks == IF request.fn = "crypt_sha512"
                  THEN Long!Finished(Long!Updated(Long!Opened(0, Long!Blank), text))
                  ELSE Short!Finished(Short!Updated(Short!Opened(0, Short!Blank), text))
  IN  [k \in 1 .. Len(blocks) |->
         [j \in DOMAIN blocks[k] |-> ByteOf(blocks[k][j])]]

OpenHash ==
  /\ stage = "call" /\ Refusal(request) = "CRYPT_OKAY"
  /\ request.fn \in HashFunctions
  /\ chain' = H[request.alg]
  /\ pending' = Padded
  /\ stage' = "blocks"
  /\ UNCHANGED <<request, host, words, working, rounds, status, written>>

Schedule(b) ==
  CASE request.fn = "crypt_md5" -> md5_Words(b, host)
    [] request.fn = "crypt_sha1" -> sha1_Schedule(b, host)
    [] request.fn = "crypt_sha256" -> S256!Schedule(b, host)
    [] request.fn = "crypt_sha512" -> S512!Schedule(b, host)

StartBlock ==
  /\ stage = "blocks" /\ pending # <<>>
  /\ words' = Schedule(Head(pending))
  /\ working' = chain
  /\ rounds' = 0
  /\ stage' = "rounds"
  /\ UNCHANGED <<request, host, chain, pending, status, written>>

Rounds == IF request.fn \in {"crypt_sha1", "crypt_sha512"} THEN 80 ELSE 64

RunRound ==
  /\ stage = "rounds" /\ rounds < Rounds
  /\ rounds' = rounds + 1
  /\ working' =
       CASE request.fn = "crypt_md5" -> md5_Round(working, words, rounds + 1)
         [] request.fn = "crypt_sha1" -> sha1_Round(working, words, rounds + 1)
         [] request.fn = "crypt_sha256" -> S256!Round(working, words, rounds + 1)
         [] request.fn = "crypt_sha512" -> S512!Round(working, words, rounds + 1)
  /\ UNCHANGED <<request, host, stage, chain, words, pending, status, written>>

AddBack ==
  /\ stage = "rounds" /\ rounds = Rounds
  /\ chain' = [k \in DOMAIN chain |->
                 IF request.fn = "crypt_sha512"
                   THEN W64!Plus(chain[k], working[k])
                   ELSE W32!Plus(chain[k], working[k])]
  /\ words' = <<>> /\ working' = <<>>
  /\ pending' = Tail(pending)
  /\ stage' = "blocks"
  /\ UNCHANGED <<request, host, rounds, status, written>>

\* The chaining value as the bytes that memcpy takes the digest from.
DigestBytes ==
  FlattenSeq([k \in 1 .. Len(chain) |->
    CASE request.fn = "crypt_md5" ->
           W32!Stored(W32!ToLittleEndian(chain[k], host), host)
      [] request.fn \in {"crypt_sha1", "crypt_sha256"} ->
           W32!Stored(W32!ToBigEndian(chain[k], host), host)
      [] request.fn = "crypt_sha512" ->
           W64!Stored(W64!ToBigEndian(chain[k], host), host)])

WriteDigest ==
  /\ stage = "blocks" /\ pending = <<>>
  /\ written' = Written(written, 0, SubSeq(DigestBytes, 1, DigestLen(request.alg)))
  /\ chain' = <<>>
  /\ Return("CRYPT_OKAY")
  /\ UNCHANGED <<request, host, words, working, rounds, pending>>

-----------------------------------------------------------------------------
(* ChaCha20 *)

OpenStream ==
  /\ stage = "call" /\ Refusal(request) = "CRYPT_OKAY"
  /\ request.fn = "crypt_chacha20"
  /\ chain' = chacha20_state(request.key, request.counter, request.nonce, host)
  /\ pending' = request.text
  /\ stage' = "stream"
  /\ UNCHANGED <<request, host, words, working, rounds, status, written>>

\* The context of poly1305_keygen, whose key is the stream over 32 zeros.
OpenKeygen ==
  /\ stage = "call" /\ request.fn = "poly1305_keygen"
  /\ chain' = chacha20_state(request.key, {}, request.nonce, host)
  /\ pending' = [k \in 1 .. 32 |-> {}]
  /\ stage' = "stream"
  /\ UNCHANGED <<request, host, words, working, rounds, status, written>>

\* chacha20_block, up to its loop
StartMixing ==
  /\ stage = "stream" /\ pending # <<>>
  /\ working' = chain
  /\ rounds' = 0
  /\ stage' = "mixing"
  /\ UNCHANGED <<request, host, chain, words, pending, status, written>>

Mix ==
  /\ stage = "mixing" /\ rounds < 10
  /\ working' = inner_block(working)
  /\ rounds' = rounds + 1
  /\ UNCHANGED <<request, host, stage, chain, words, pending, status, written>>

\* The rest of chacha20_block, and of the loop over whole blocks or of what
\* follows it.
MaskBlock ==
  /\ stage = "mixing" /\ rounds = 10
  /\ LET keystream == Serialized(chain, working, host)
         n == IF Len(pending) < 64 THEN Len(pending) ELSE 64
         at == IF request.fn = "poly1305_keygen" THEN 0
               ELSE Len(request.text) - Len(pending)
     IN  /\ written' = Written(written, at,
                               [k \in 1 .. n |->
                                  W32!SymDiff(pending[k], keystream[k])])
         /\ pending' = SubSeq(pending, n + 1, Len(pending))
         /\ chain' = IF n = 64 THEN Incremented(chain) ELSE chain
  /\ working' = <<>>
  /\ stage' = "stream"
  /\ UNCHANGED <<request, host, words, rounds, status>>

CloseStream ==
  /\ stage = "stream" /\ pending = <<>>
  /\ chain' = <<>>
  /\ Return("CRYPT_OKAY")
  /\ UNCHANGED <<request, host, words, working, rounds, pending, written>>

-----------------------------------------------------------------------------
HostInit ==
  /\ request \in Requests
  /\ host \in W32!Hosts
  /\ stage = "call" /\ rounds = 0
  /\ chain = <<>> /\ words = <<>> /\ working = <<>> /\ pending = <<>>
  /\ status = "none"
  /\ written = [n \in 1 .. request.room |-> Untouched]

\* The program ends.
HostDone == stage = "done" /\ UNCHANGED hostVars

HostNext ==
  \/ Refuse
  \/ OpenHash \/ StartBlock \/ RunRound \/ AddBack \/ WriteDigest
  \/ OpenStream \/ OpenKeygen \/ StartMixing \/ Mix \/ MaskBlock \/ CloseStream
  \/ HostDone

-----------------------------------------------------------------------------
(***************************************************************************)
(* Property                                                                *)
(***************************************************************************)

\* Messages whose padding is not the standard's: the length just fits the last
\* block, or SHA-512's does not, whose field should have 16 bytes.
OddlyPadded(r) ==
  LET used == Len(r.text) + 1
  IN  CASE r.fn \in HashFunctions \ {"crypt_sha512"} -> used % 64 = 56
        [] r.fn = "crypt_sha512" -> used % 128 \in 113 .. 119
        [] OTHER -> FALSE

\* Whatever the byte order of the host, a call that succeeds leaves the digest
\* or the ciphertext of the standard in the first bytes of the buffer and the
\* others alone, and one that fails leaves all alone.  There are exactly two
\* exceptions: the odd paddings, and MD5 on a big-endian host, which swaps the
\* bytes of the length and of the digest but not those of the message.
HostsAgree ==
  stage = "done" =>
    LET blank == [n \in 1 .. request.room |-> Untouched]
    IN  IF status # "CRYPT_OKAY" THEN written = blank
        ELSE (written = Written(blank, 0, request.standard))
               <=> ~ (OddlyPadded(request)
                      \/ (request.fn = "crypt_md5" /\ host = "big"))
=============================================================================
