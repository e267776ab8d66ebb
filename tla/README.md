# A verification of my_crypto_library

TLA+ models of a small C library of cryptographic primitives, the TLC
configurations that check them on small instances, and theorems about them that
TLAPS proves for every value of the constants. Paths below are those of the
repository under `src/`.

## The system

The library (`lib/`, about 5700 lines of C) is sequential: no threads, no
callbacks, no files. Callers own every context and every buffer, and pass
lengths beside them. `crypto_api.c` is a layer of one-shot functions over the
algorithms; the algorithms' own headers are public too. What is hard here is
therefore not concurrency: it is the state a context carries from call to call,
the order and the lengths of calls, boundaries of blocks and of machine words,
partial failure, and memory that holds something else than a function assumes.

| Component | State | Operations | Depends on |
|---|---|---|---|
| Hashes: `md5.c`, `sha1.c`, `sha256.c`, `sha512.c` | context: bit counter, block buffer, chaining value | init, update, finish | - |
| One-shot hashes and HMAC: `crypto_api.c`, `hmac.c` | a hash context per call; padded key | `crypt_md5` ..., `crypt_hmac` | hashes |
| ChaCha20: `chacha20.c` | 16 words, one a block counter | init, block, crypt, cleanup | - |
| Poly1305: `poly1305.c` | r, s and the accumulator, bigints | keygen, mac | bigint, ChaCha20 block 0 |
| ChaCha20-Poly1305: `chacha20_poly1305.c` | both contexts, a `malloc`ed MAC buffer | encrypt, decrypt | ChaCha20, Poly1305 |
| AES: `aes.c`, `gcm.c` | round keys; counter block; GHASH state | ECB, CBC, CTR, GCM both ways | - |
| DES, TDES: `des.c` | subkeys | ECB, CBC both ways | - |
| Integers: `bigint.c` | digits, number allocated, MSD | about forty functions, results often over operands | `malloc` |
| API gate: `crypto_api.c` | none | argument checks, dispatch on mode and padding | all |
| Tools: `util/tools.c` | none | hex, base 64, printing, `memset_s`, random | - |
| Echo server and client: `util/*.rs` | a TCP stream | echo | - |
| Tests, driver, build | none | known-answer vectors | all |

What makes each of them correct:

- a hash: the digest is that of the whole message wherever the calls cut it, of
  this session only, with the padding of the standard;
- an AEAD: nothing is released that was not sealed; nothing unverified is
  written; what is sealed opens;
- a stream cipher: no key stream block used twice or for two purposes;
  decryption inverts encryption; buffers are respected;
- a MAC: it is the standard's, and binds algorithm, key and text;
- a block cipher or a compression function: the test vectors come out, on hosts of
  either byte order, and decryption retraces encryption;
- integers: each result is the one `bigint.h` states, whatever is aliased and
  whatever lies above the MSD; no digit is written that is not allocated;
- the block modes and the API: `CRYPT_OKAY` means that the output was produced,
  and decryption inverts encryption.

Everything checked is safety. A call of this library ends because its loops are
bounded by its arguments; no property depends on a scheduler, no specification
states fairness, and no liveness is claimed. One call does not end, `bigint_div` with a
result over its divisor; the models do not make it.

## The modules

| Modules | Model | Runs |
|---|---|---|
| `MdContext`, `StreamHash`, `MCStreamHash` | the four hash contexts | `hash_*` |
| `Aead`, `AeadCalls`, `MCAeadCalls` | authenticated encryption, and its abstract specification | `aead*` |
| `Bigint`, `BigintMath`, `BigintCalls`, `MCBigintCalls` | integer arithmetic | `bigint` |
| `CounterMode` | counters and buffers of the stream ciphers | `counter` |
| `Hmac`, `Poly1305`, `Ghash`, `Macs`, `MCMacs` | the three MACs | `macs` |
| `Words`, `Sha2`, `Compression`, `ChaCha20`, `HostCalls`, `AesBlock`, `DesBlock`, `Primitives`, `MCPrimitives`, `MCHashTables` | compression functions, ChaCha20, AES, DES on their real tables; the one-shot calls | `primitives`, `tdes_key_order` |
| `BlockModes`, `MCBlockModes` | ECB and CBC, and the API in front of them | `block_modes` |
| `StreamHash_proofs`, `MdContext_proofs`, `Hmac_proofs`, `CounterMode_proofs`, `AeadCalls_proofs`, `BlockCiphers_proofs`, `BlockModes_proofs`, `FieldMacs_proofs` | theorems | |

A function is abstract where a property does not depend on it, and in full in one
place: hashes are lists of blocks in `StreamHash` and `Hmac` and real in
`HostCalls`; MACs are ideal in `AeadCalls` and real in `Macs`; ciphers are a key stream
or a permutation in `AeadCalls`, `CounterMode` and `BlockModes`, and real in
`Primitives`.

### MdContext, StreamHash: the four hash contexts

`MdContext` is what the four files share, written four times in C:
`Updated` is `*_update` (fill the buffer, compress it, compress whole blocks from
the input, keep the rest), `Finished` the padding of `*_finish`, `Index` the
number of bytes waiting. The compression function is abstracted to the list of
blocks it was given, so that two chaining values are equal iff they come from the
same blocks. A byte is a cell that remembers what it is: byte *i* of the message,
the 0x80 marker, a zero, byte *j* of a length, or what was on the stack.
`input_len << 3` is cut to an unsigned int (`UIntMod`), the counter to 64 bits
(`CountMod`). Writing past a buffer widens its domain, which `TypeOK` refuses.

`StreamHash` drives one context by any sequence of calls, with one action per
`*_init`, `*_update` and `*_finish`, and the differences between the files:
`sha1_init` does not clear the buffer, `md5_finish` has no length to check,
`sha384_512_finish` accepts a foreign algorithm and returns OKAY with no digest.
Two next-state relations: `Next` lets callers pass any lengths, `BlockwiseNext`
only those with which `update` starts on an empty buffer or reaches the end of a
block. All callers in the library pass a message in such a way.

The reference is `Standard`, the padding of RFC 1321 and FIPS 180-4.

| Run | Instance | Shows |
|---|---|---|
| `hash_one_shot` | real block of 64 bytes, all families, lengths at all boundaries, up to three blocks | `HoldsMessage`: the context is exactly the bytes fed. `DigestIsStandard`: the digest is the standard's, *iff* the length is not one of `OddTails` |
| `hash_any_chunks` | block of 18 bytes, any chunks, a counter that wraps every 18 bytes | `CountsEveryByte`: counter and number of blocks are right even where bytes are not; `NoJunkInDigest` |
| `hash_chunk_loss` | MD5 | violated `KeepsBufferedBytes`: `update` copies what is left to the *start* of the buffer, over what waits there |
| `hash_spill` | SHA-1 | violated `SpillsOnlyWithoutRoom`: with exactly 8 bytes left, a needless block is added |

`OddTails` says for which lengths modulo the block the padding is not the
standard's: those of `hash_spill`, and in SHA-512 those that fit with the 8-byte
length field of the code and not with the 16 bytes of the standard. Bounds: 18
bytes is the smallest block that has room on both sides of an 8-byte and of a
16-byte length field; three blocks make every branch of `update` happen, and an
extra block of padding with and without data before it. In `hash_any_chunks` the 64-bit
counter is one block wide (`CountMod` = 8 * 18; like 2^64, a whole number of blocks, as
`WidthAssumption` asks), so that it wraps within the 20 bytes fed; in the other runs it
does not.

### Aead, AeadCalls: authenticated encryption

`Aead` is the abstract promise: messages are sealed, and released only if sealed.
`AeadCalls` is ChaCha20-Poly1305 and AES-GCM as called through `crypto_api.c`, one
action per function, with their refusals in order. Kept: which bytes are MACed and
how `form_mac_data` lays them out in memory that `malloc` does not clear, which
buffers are written when, the result overwritten at `chacha20_poly1305.c:182`,
ciphertext buffers longer than the text, whose old tail is sealed with it.
Abstracted: the key stream is a constant, tags are equal iff key, nonce and MACed
data are. So what is shown does not rest on how strong a MAC is, but on the
code's choice of what to MAC. Each packet carries the tag as it was computed; what
arrives is any text under any tag ever made.

Leftover memory is a value of its own (`"junk"`), different from every byte and
length. Real leftover bytes may by chance equal the zeros of a later call, in
which case a packet opens; the model has the instance in which they do not. The
padding rule of the code, a whole block of zeros behind an aad that needs none,
is in `MacData`.
`malloc` is taken to fail only in `bigint_init`, the calls whose results
`poly1305.c` returns. Contexts wiped or not wiped at the end of a call are local
and not modelled.

| Run | Shows |
|---|---|
| `aead` | `ImplementsAead`: `AeadCalls` implements `Aead`, with the packets mapped to the messages they decrypt to. `OpensToMessage`: what is sealed opens, unless a ChaCha20 ciphertext fills its last MAC block. `WritesOnlyVerified`: no plaintext byte before the tag is verified |
| `aead_uninit_tail` | violated `MacsOnlyTheMessage`: a ciphertext that is a multiple of 16 bytes leaves the last 16 bytes of `mac_data` unwritten, and they are MACed |

Bounds: one sealed packet, two releases. With ideal tags, a release depends on one
sealed packet and on the call alone, so a second packet adds only another tag to
present. Texts of 0 to 3 bytes over MAC blocks of 2 have every residue, and pairs
that agree when concatenated or zero-padded.

### Bigint, BigintMath, BigintCalls: multiple precision integers

`Bigint` and `BigintMath` have the functions of `bigint.c` as operators on a record of
digits, `num` digits allocated and `msd`, with `Bits` bits to a digit; `BigintMath` holds
those that are built on the others, among them Karatsuba's method, inverses, powers,
`lcm` and the bitwise functions. Digits above the MSD keep what was there, results may
be over operands, and sums that C computes in 32 bits before it stores them in 64 are
cut. Loops that count are recursive functions over digits and bits; those that run until
a condition holds (division, gcd, inverses) are `RECURSIVE` operators, all of them in
`BigintMath`, so that `Bigint` can be proved about.

`BigintCalls` is a program with two bigints. It makes any number of the usual calls on
small numbers, or one call of any function on operands of any shape (`calls`).
`promised` remembers what `bigint.h` says the last call computed, as a number;
`excuse` says whether the call is one that is known to break its promise (`"wrong"`),
may break it (`"any"`), or must keep it (`"none"`). `KeepsPromise` demands exactly that,
so each exception is where its action names it, and nowhere else:

- `bigint_add` and `bigint_sub` drop a carry or borrow that has to pass the second
  digit above the shorter operand, because `digit + carry` wraps in 32 bits before it
  is widened (`bigint.c:691`, `:798`). Division, reduction, gcd and powers never meet
  one; inverses, Karatsuba's method and `lcm` do. `AddIsSum` and `SubIsDifference` prove
  by how much such a result is off, for digits of any width.
- Karatsuba's method, and `lcm` with it, has no result for operands of one digit.
- `bigint_sub` of a smaller by a bigger number is not `|a - b|`, as `bigint.h:102` has it.
- `bigint_inc` adds one to every digit; `bigint_swap` exchanges nothing;
  `bigint_random` keeps its last digit only; `bigint_not` raises the MSD by one over
  whatever is there.
- `bigint_right_shift` of one digit makes the MSD `0 - 1`;
  `bigint_right_shift_digits` stops short.
- The bitwise functions write behind the result when the smaller operand has leading
  zeros.
- `bigint_div` with the quotient over the dividend, and `bigint_square_mod` over its
  modulus, clear what they are to read. `bigint_lcm` over an operand takes the gcd of
  numbers that the product has replaced (`bigint.c:1396`): it is wrong unless the
  other operand divides the one it replaces, and over both unless that is 0 or 1. An
  inverse modulo 1 is not reduced.

`QueriesAnswer` says what the functions that only ask return, and when they read stale
digits (`bigint_is_bit_set`) or digits that are not there (`bigint_cmp_noCT`), and that
`bigint_to_bytes` fills its buffer from the left.

Bounds: digits of 2 bits. Any sequence of calls: up to 3 digits allocated, the sum of
both MSDs at most 2 before a call (`MaxMsds`), numbers loaded of up to 2 digits
(`MaxLoad`): operands with two digits against one, carries through one and two digits,
growth by one digit, leading zeros, stale digits. Single calls: all one digit numbers,
and operands of up to five digits in the shapes of `MCOperands`, in which a carry has
three digits to pass and Karatsuba's halves are unequal. The two bigints are
exchangeable, which is the symmetry used. Left out: a failing `malloc` and
`CHECK_OKAY` evaluating its argument twice; reads behind a digit array that are not in
the bitwise functions; a NULL quotient; `bigint_expt_mod` over its inputs; and
`bigint_div` with a result over the divisor, which has no result to promise: a quotient
there, or a remainder when the divisor is the dividend too, makes the divisor 0, which
the loop at `bigint.c:1082` doubles for ever.

### CounterMode: counters and buffers of the stream ciphers

Four users of a 32-bit block counter: `chacha20_crypt` from the counter its caller
chooses, the packet from block 1 (block 0 makes the Poly1305 key), `AES_encrypt_CTR`
from the last word of the vector, GCM from `inc32(J0)`. A key stream block is the
counter it was made from; a text is a length; `taken` lists the counters used.
Calls are the checks of `crypto_api.c`; `FullBlock` and `PartialBlock` are the
bodies of the loops, `Return` the end. Encryption leaves `sent`, which a later
decryption, with its own loop and its own checks, opens.

`counter` checks every length, buffer and starting counter of a counter of 8
values, blocks of 2 bytes, ints of up to 5 and texts of up to 11 bytes: six blocks,
the most that the limit named by `CounterAssumption` allows. In the code the
limit is `2^32 - 1 <= 16 * (2^32 - 2)`: lengths are 32 bits wide, so a text has
fewer blocks than there are counters but two.

- `NoBlockTwice`, `ReservedUntouched`: although the counter wraps, no block masks
  two blocks of a text, nor what something else was masked with.
- `DecryptsSent`: the loops of encryption and decryption, written twice and
  differently, make the same key stream.
- `StaysInBuffers`: accesses stay inside the caller's buffers, *iff* the call is not
  one of three of AES-CTR. When encrypting, the check asks for the room of padding,
  and the vector is written besides; when decrypting, the loop runs over the length
  of the plaintext buffer, which may be longer than the text; in both directions,
  `current_index` (`aes.c:425`, `:700`) is a signed int, which texts of about 2^31
  bytes overflow. Encryption adds a block after the last one too, so that it overflows
  one byte earlier.

`Overflows` looks at the largest value that the ints of the next turn of the loop take.
C says nothing of what follows such an overflow, and neither does the model: the state
is `"undefined"`, and stays so.

### Hmac, Poly1305, Ghash, Macs: the MACs

`Macs` runs one of the three (`family`); run `macs` checks them all.

`Hmac` composes two instances of `MdContext`, for the two block sizes, and so has
the buffering and padding of the real hashes. `ctx` is the `hmac_ctx`, its three
arrays one after the other as in memory, so that a long key runs from one into the
next; `HmacInit`, `ComputeMac` and `HmacCleanup` are the functions of `hmac.h`, which
a program may call in any order once it has a context, `CryptHmac` is the one-shot
function. The caller's buffer is not cleared between calls; `macs` remembers what
callers took from it for MACs.

- `MacIsHmac`: a MAC is the one of FIPS 198-1 over FIPS 180-4 *iff* the key fits a
  block (longer ones are cut, not hashed), the context was opened for a block that is
  long enough and not wiped since, and the length of the text is not an odd tail.
- `MacsBind`: two MACs are equal *iff* algorithm, text and the key up to a block are,
  unless a call did nothing: with a short buffer (`hmac.c:68` drops the result of
  `finish`) or an algorithm that `crypt_hmac` does not know (`crypto_api.c:721` returns
  `CRYPT_OKAY`), what the caller takes is what was in its buffer before.

Blocks are 16 and 32 bytes, which keeps their ratio and puts digests where their
padding is standard, as with the real sizes. Keys reach one byte beyond
`padded_key`; those longer than the context, which are copied behind it, are excluded
by `HmacAssumption`. `LengthAssumption` keeps texts to what an unsigned int counts in
bits, and `DigestAssumption` says that a digest ends in the same block as its padding; the
real sizes satisfy both. `malloc`, which `hmac.c` does not check, gives memory.

`Poly1305` runs `poly1305_compute_mac` block by block on the operators of `Bigint`, one
digit to a digit of the code. `TagIsPoly1305`: the tag is RFC 8439's unless an addition
dropped a carry, as the accumulator has as many digits as its value needs; the last
addition goes wrong iff the accumulator is that short. Digits have 3 bits, and the
prime is `4 * 8^4 - 5`, which has the form of `2^130 - 5`; messages have up to three
blocks and a tail; one key multiplies so that short accumulators occur.

`Ghash` runs GHASH block by block and its multiplication bit by bit.
`GhashIsPolynomial` compares it with a carry-less product that is reduced afterwards,
over the input that SP 800-38D defines. The field is GF(2^16) with bytes of 4 bits: the
algorithm is the same at every width, and the bit that passes between the two words of
the code is a bit inside a row here.

### Primitives: the fixed functions on real data

One thing runs at a time (`family`): a block through AES, a block through DES or
3DES, or one call of `HostCalls`. Tables, constants and texts are the real ones
(`MCPrimitives`, `MCHashTables`): these functions have no small instance that means
anything. A byte or a word is the set of its one bits.

`AesBlock` goes from key expansion through the round keys that `AES_init` turns round
in memory to the last round of decryption, for three key lengths and four modes.
`RetracesRounds`: decryption passes through the states of encryption backwards, from
round to round. `DesBlock` does the same for DES and for the three passes of 3DES;
`permute` stores 64 bits through a pointer to 32 (`des.c:232`), so each run has one of
three stack layouts that decide what lies there. `RetracesSteps` and `DesRoundTrip` hold
when key 1 equals key 3; `tdes_key_order` shows what happens when it does not
(`DecryptionReturnsText`, violated). `MeetsTestVectors` has the vectors of
`test/cipher_test.c`. AES and DES are modelled on a little-endian host.

`HostCalls` is one call of a one-shot hash, of `crypt_chacha20_encrypt` (whose twin for
decryption has the same body), or of `poly1305_keygen`: refusals, the padding of
`MdContext` with its cells filled in, every round of `Compression` or `ChaCha20`, the
digest. The host is little- or big-endian, as in the `#if`s of `common.h:22-62`.
`HostsAgree`: the output is the standard's on both, *iff* the length is not an odd tail
and it is not MD5 on a big-endian host, where `md5_transformation` takes the words of
the block as `memcpy` leaves them (`md5.c:83`) while length and digest are converted.
Requests: every algorithm, lengths that end before, in and after the room for the
length field, refused calls, a ChaCha20 text of more than a block, its decryption, and
one whose counter wraps. The expected outputs are those of the standards, their test
vectors and other implementations of them. Message lengths stay far below
`UIntMod` and `CountMod`, which are 2^30 here because TLC's integers have 32 bits.

### BlockModes: ECB, CBC and the API in front of them

The caller encrypts a text, into another buffer or in place, then may decrypt the
ciphertext with a length and a buffer of its choice. `Gate` is the refusals of
`crypt_DES_*`, `crypt_TDES_*` and `crypt_AES_*`; `LeaveEarly`, `OutOfMemory` and `Begin`
the start of the functions in `des.c` and `aes.c` (output wiped, plaintext copied and
padded, IV loaded); `EncryptBlock` and `DecryptBlock` one turn of their loops; `Return`
the end, with the second call that `CRYPT_CHECK_OKAY` makes of a call that failed.
Buffers are longer than the lengths the caller states, so that what is written behind
them shows (`reach`). The block cipher is any permutation of blocks, which 3DES is for
one direction only if key 1 equals key 3. Exclusive or is a constant, since the module
`Bitwise` would bar proofs: `BlockModesAssumption` asks that it undoes itself, and `MCxor`
is the real one.

No request is for AES in CTR (`BlockModesAssumption`): it has a case that encrypts
(`crypto_api.c:520`, `:636`), and `CounterMode` has it, with its checks of lengths. The modes
without a case are GCM, for all three, and CTR of DES and 3DES.

Lengths are unsigned, and the sum at `crypto_api.c:496` and the differences in `des.c` wrap
(`Unsigned`). `num_blocks` is an int, and so is its product with the block size in CBC
encryption (`des.c:349`, `aes.c:388`) and the index of a block in ECB of AES (`aes.c:370`,
`:655`). Where they exceed `IntMax`, `Overflow` leads to the state `"undefined"`, as in
`CounterMode`. The product is made before it is cut to the unsigned `padded_len`, so that no
`padded_len` that has wrapped is ever compared with the room.

| Property | Says |
|---|---|
| `OkayMeansEncrypted` | `CRYPT_OKAY` means that the whole text is in the output, *iff* the call is not `Dropped`: modes without a case, padded ECB, partial blocks of 3DES in ECB |
| `OpensToText` | what was encrypted comes back when all of it is decrypted; in place, as much as the caller gave room for was wiped first, and comes back as zeros |
| `StaysInBuffer` | nothing is written behind the output but by padded ECB of AES, CBC decryption, and calls whose text overflows an int; AES in CBC gets there with too little room only where the sum at `crypto_api.c:496` wraps |
| `FindsLength` | the padding taken off is the one put on, *iff* AES was not given whole blocks that end like padding; `aes.c:7-9` says PKCS#7, which pads those too |
| `KeysCleared` | a call that succeeds leaves subkeys on the stack *iff* it was made again after `malloc` failed |

Bounds: blocks of 2 bytes with 4 values, texts of up to two blocks and a byte, every
size of buffer up to 7, one failure of `malloc`. Two blocks are what chaining needs; two
bytes are what partial blocks and both lengths of padding need. Ints go up to 7 and
lengths to 15, their unsigned range: texts of 6 to 15 bytes, with four sizes of buffer,
lie on both sides of where the product, the index and the sum overflow or wrap.

## The proofs

`StreamHash_proofs`, for every block longer than 16 bytes, every width of the
counters, every set of chunks and every bound on messages:

- `TypeCorrect`: `Spec => []TypeOK`, with any chunks, so that no copy leaves the
  buffer. The lemmas state what `Copy`, `ZeroFill`, `PutLength` and `Updated` do to
  the shape of a context.
- `MessageHeld`: `BlockwiseSpec => []HoldsMessage`. `TypeOK /\ HoldsMessage` is
  inductive; the work is in `UpdatedShort` and `UpdatedLong`, which give every cell
  of every block `Updated` appends, through `Quotient`, `Division` and `Distribute`.
- `DigestCorrect`: `BlockwiseSpec => []DigestIsStandard`. It adds that an open
  context has no digest yet, and a comparison of `Finished` with `Standard`, block by
  block and for each side of the boundary that makes a tail odd.

`CounterMode_proofs`, for every width, block size and limit that
`CounterAssumption` admits: `TypeCorrect`, `NoRepetition`, `ReservedKept`,
`RoundTrip` and `BuffersRespected`, which are all the properties of the run. None is
inductive: `NoBlockTwice` says nothing of the block that comes next. The invariant
`IInv` says in closed form what `taken` is (`LoopInv`: the *i*-th is
`Nth(start, i)`, and `done` lies between two multiples of the block), how the call's
arguments relate (`CallInv`) and what of a finished call is left in `sent`
(`SentInv`). `IndexInv` says how far the loop of AES-CTR comes without an overflow; that 2^31 is
whole blocks makes the exception an *iff*. That `Nth` has no repetition below `Last + 1` is `NthInjective`; that a
text in progress has room for one more counter is `RoomForOne`, which is where the
limit on lengths is used, by cancelling the block size (`Cancel`).

`AeadCalls_proofs`, for every MAC block longer than one byte, all keys, nonces, texts
and heaps and any number of packets: `TypeCorrect`, `Opens`, `Verified` and `Implements`,
again all the properties of the run. `AeadAssumption` asks only that the texts are
short enough and that the key stream covers them. `Implements` is the refinement:
- `ReadsWritten` lays out what `form_mac_data` and the GHASH loop put in memory, and
  `Determined` reads it back: where the lengths begin is where the bytes end, and the
  lengths say where the texts do, so that two packets with the same MACed data are the
  same packet, whatever `malloc` left behind them. `TagDetermines` follows.
- The promise alone is not inductive. `IInv` adds that every packet on the wire is
  `Genuine`: its ciphertext begins with its text under the key stream, the stream is long
  enough for it, and its tag is its own `Tag` for some heap; and that what was released is
  among what packets stand for (`Sealings`). A tag that verifies then is the tag of a
  `Genuine` packet, and of that packet only (`Verifies`).
- Every call ends in a refusal, a `Seal` or an `Open` (`EncryptEnds`, `DecryptEnds`),
  which map to a stutter, a `Seal` or a `Release` of `Aead`.
- `Opens` uses that the leftover of the heap is empty unless the ciphertext fills its
  last block (`MacDataReads`), and that xor is its own inverse (`Twice`).

`StreamHash_proofs` also has the properties of callers that cut a message as they like,
where bytes are lost but must still be counted:
- `EveryByteCounted`: `Spec => []CountsEveryByte`. The bit counter is the length fed modulo
  `CountMod`, `Index` is the length modulo a block, and there is one block for every
  `BlockLen` bytes. A counter that wraps keeps `Index` right because `CountMod` is a whole
  number of blocks (`AddAround`, `IndexAround`).
- `DigestIsWritten`: `Spec => []NoJunkInDigest`. A buffer that was cleared stays free of
  bytes nobody wrote, in whatever order `update` fills it (`UpdatedClean`,
  `FinishedClean`); `sha1_init` alone leaves one that was not cleared.

`Hmac_proofs`, for all keys up to the size of the context, all texts and sizes of blocks and
digests that the assumptions admit, any number of MACs: `TypeCorrect`, `WrittenIsHmac` and
`Binding`, which are all the properties of `Hmac`. They are stated for `HmacSpec`, the
behaviours of `Hmac` alone, and carried over to those of `Macs` by `MacsRunsEach`, below.
- `MdContext_proofs` gives the closed form of a hash, `CompressedIs`: a context that is
  opened, updated once and finished has compressed the message, the marker, zeros and the
  length, cell by cell. `Hmac_proofs` takes it twice, for the two block sizes.
- `HashBinds` and `HashIsStandard`: the blocks determine the message they were made of, and
  they are those of the standard iff it ends in no odd tail (`FormsDiffer`, `Counts`).
  `CodedBinds` and `CodedIsStd` apply this to the inner and to the outer hash; a block in
  front does not make a tail odd, nor is a digest one (`OddBehindBlock`, `DigestEven`).
- `KeyBlockIs` and `StdKeyIs` compare the block of key and pad: equal where the pads cover
  it and the key fits; different in its last byte where a pad is too short, and in its first
  where the standard hashes the key. The pads leave a key legible, so equal blocks are
  equal padded keys (`KeyBytesBind`).
- The properties speak of MACs that were taken and say nothing of the context, so they are
  not inductive. `HmacInv` adds that the context is what the last call of `hmac_init` makes
  of its arguments, a wipe being a key and pads of no byte (`OpenedAs`, `WipedIs`), that
  each MAC which was written is `MacOf` such a context (`MacsKnown`), and where the
  buffer's content comes from (`Kept`).

`BlockCiphers_proofs`, about `AesBlock` and `DesBlock`, for every key, every text, every S-box and key
schedule table that the modules' assumptions admit, and every number of AES rounds: type
correctness, that decryption retraces encryption and that the text comes back. `Primitives`
reaches the `RECURSIVE` operators of `Words`, so the theorems are about `AesSpec` and
`DesSpec`, the same actions without the other families.
- The invariants turn the history (`trail`, `seen`) into an equation for each round,
  `Encrypted` and `Stepped`, so that no induction over rounds is needed: a step of
  decryption undoes the one equation it meets.
- AES: `XtimeXor` and `MultiplyXor`, that `xtime` and what is built of it are linear, then
  `MixBack`, that the two matrices of `aes.c` are inverse for every byte width and every
  reduction polynomial; `ShiftSubBack`; and `AddReverted`, that the *r*-th round key, as
  `AES_init` turned them round in memory, is the *r*-th from the end.
- DES: a round is undone by the same round on swapped halves (`RoundBack`), whatever the
  function inside it; `Mirrored` carries that over the passes of 3DES. The invariant
  speaks of no word that the 64 bit store of `permute` may hit, whatever the layout.

`BlockModes_proofs`, for every permutation of blocks, every block length, every set of
requests and sizes of buffers: `TypeCorrect`, `Encrypted`, `Opens`, `Stays`, `Finds` and
`Cleared`, all the properties of the run. The invariant has four parts besides `TypeOK`:
`Control` (which calls reach which place, how far the loop has written, and which ints have not
overflowed or did), `Source` (what
the loop has still to read, in place or not, retried or not), `Sealing` (the blocks written
are the ciphertext of the plaintext, chained) and `Opening` (what was sealed lies unchanged
in the buffer that decryption reads, and comes back block by block). `SealedEnough` and
`NumBlocksIs` do the arithmetic of padding; `NoWrap` shows that a sum that is near an int
does not wrap, and `OverflowIs` which lengths overflow one.

`FieldMacs_proofs` is about the two MACs that evaluate a polynomial in a field, and the
arithmetic below them. `MacsRunsEach` says that the program of `Macs`, which run `macs`
checks, is at any time a program of each of the three MACs: `Spec => HmacSpec /\ PolySpec /\
GhashSpec`. So `TagInMacs` and `HashInMacs` are about the specification that TLC checks.

The loops are recursive functions over bits, digits and blocks, and the induction theorems
of the library take an operator, which no installed prover can instantiate. A *set* in its
place can be: `Least` gets the least element of a set of numbers from the library's `WFMin`
for the order of the natural numbers, `Induct` and `InductTo` follow, and a property is
inducted over as the set of the numbers that have it. `RunExists` shows with them that a
recursive function is what its definition says, so that nothing rests on a `CHOOSE` without
a value. Exponents are reached without induction: `2 ^ n` is the number of subsets of
`1 .. n` (`PowersOfTwo`, `PowerDouble`).

GHASH, for every width of the field and of a byte that divides it, every polynomial that
defines the field (`Taps`, irreducible or not), all hash keys and all texts:
`HashIsPolynomial`, and on the way `MultiplicationOfTheField` and
`MultiplicationIsBilinear`.
- A field element is the set of the exponents in its polynomial. `Times` is the loop of
  `GF_mul_blocks` on such sets. It is linear in both factors, X may be moved from one
  factor to the other (`TimesXLeft`, `TimesXRight`; the case in which the taps come back is
  `TapsTimes`), and so it may be grouped in any way (`TimesOrder`).
- The reduction of the standard works from the top degree down. It is linear
  (`ReductionXor`), leaves the field alone (`ReductionSmall`) and commutes with X
  (`ReductionShift`); by induction over the terms of a factor, the carry-less product
  reduced is `Times` (`ProductTimes`).
- `HornerIsSum`: adding a block and multiplying, over and over, gives the sum of all
  blocks, each times a power of the hash key.
- The invariant `GhashInv` says that `Y` is the value of Horner's rule for the blocks that
  were absorbed; `Place` ties their number to the byte index of the loop (`PlaceNext`,
  `PlaceEnd`), and `BlockIs` the padded block of the code to that of the standard. TLC
  found it true of the states of `macs` before it was proved.

`bigint.c`, for digits of any width, operands of any length with any leading zeros and any
stale digits, whatever is allocated, and outputs that are operands:
- `CmpIsOrder`: `bigint_cmp` is the order of the numbers. The first digit that differs from
  the top decides (`NumberLess`); digits above a MSD count as zeros (`ValueSame`).
- `AddIsSum`: `bigint_add` gives the sum and writes no digit that is not allocated. When
  `DropsCarry` holds, and only then, the sum lacks one unit of the second digit above the
  shorter operand. Digits and carries are summed at their weights (`AddSum`), and above the
  shorter operand at most one digit changes (`NumberTail`, `NumberChange`).
- `SubIsDifference`: the same for `bigint_sub` and `DropsBorrow`, for operands in order and
  without leading zeros. Run `bigint` has what the code does without these hypotheses
  (`SubAnyOrder`).
- `MulIsProduct`: the product, always. `RowsSoFar` says what the rows are before any digit
  product, carry included, and `MulDigits` that two digits hold a product, a digit and a
  carry.
- `ModIsRemainder`: the remainder, for every modulus but zero. What is left after *n* bits
  of the dividend is the remainder of these bits (`ModStep`, `BitIs`). It is below twice the
  modulus when the modulus is subtracted, so that a longer one has 1 for its MSD, no zero:
  no borrow is dropped.

Poly1305 over these operators, for every key, any number of blocks and digits of three bits
or more: `TagIsRfc`, that accumulator and tag are those of RFC 8439 unless an addition
dropped its carry. The property is not inductive, as it does not say what `bigint_mod`
needs or when `bigint_add` drops a carry. `PolyInv` adds that r, s and the accumulator are
well-formed and s has four digits, that the accumulator is below the prime, has five digits
at most and no leading zeros (but the five zeros `poly1305_init` starts from), and what the
tag is at the end. `AbsorbIs` is a block, through three of the theorems above; `FinishIs` the
last addition, which drops a carry only from an accumulator of at most three digits, and cuts
the error off when it has three. TLC found `PolyInv` true of the states of `macs` before it was
proved.

Only checked by TLC: the properties of `BigintCalls` (`TypeOK`, `KeepsPromise`,
`QueriesAnswer`), as `BigintMath`, on which it stands, has `RECURSIVE` operators and uses the
module `Bitwise`, which both keep a module out of the prover's reach; what is proved of
`Bigint` covers its calls of comparison, addition, subtraction, multiplication and remainder,
not those of division, gcd, Karatsuba's method, inverses or the bitwise functions. And
`HostsAgree` and `MeetsTestVectors`, which compare real tables with real outputs, where there
is no constant to prove them for; `Words`, below them, adds with a `RECURSIVE` operator.
There is no liveness to prove.

Models, configurations and theorems all use the same definitions; what a module
assumes of its constants is evaluated by the runs that extend it.

## Findings

Each is the counterexample of a run named above and contradicts a comment or a test,
which `PROJECT.json` quotes: the loss of buffered bytes in the four `update`s
(`hash_chunk_loss`), the needless padding block (`hash_spill`), the unwritten tail of
`mac_data` (`aead_uninit_tail`), and the key order of 3DES decryption
(`tdes_key_order`). The other places in which the code differs from a standard or from
its header are the exceptions that the properties of passing runs name: they hold with
*iff*, so that the exception is shown to occur as well.

## Mutants

Beside several definitions stands a changed form, marked `Mutant` in its comment: a
plausible slip, such as a forgotten reset or an unchecked length. For every
checked property there is one that breaks it; `PROJECT.json` pairs them. No
specification uses them.

## Plan

Done, in this order: the hash contexts (the state that lives longest), the AEADs
with their abstract specification, integer arithmetic, counter modes, HMAC, the block
modes and the API gate, block ciphers, Poly1305 and GHASH, the rest of `bigint.c`, the
compression functions and the one-shot calls. Left:

1. Allocation failures in `bigint.c` and the second evaluation in `CHECK_OKAY`
   (`bigint.h:17`).
2. Proofs: every property of a run whose module the provers can read is a theorem. What is
   left are the functions of `BigintMath`, whose loops would have to be written as functions
   with a bound that the prover is shown to suffice.

## Not modelled

- `sha3.c` and `sha3.h`, which are empty.
- `util/tools.c`: printing, hex and base 64, which no function of the library calls.
  `memset_s` is part of the actions that call it.
- `util/server.rs` and `util/client.rs`, a demonstration that echoes packets and opens
  none; the client does not compile as it is.
- Tests, driver, benchmarks and scripts, which keep no state of the library; their
  vectors are used.
- Null pointers, each of which is refused on the first line of a function; buffers that
  overlap other than by being the same; casts of unaligned pointers to words.
- Timing: which functions are constant-time is not a property of states.
