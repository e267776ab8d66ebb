------------------------------ MODULE AesBlock ------------------------------
(***************************************************************************)
(* One block through aes.c: AES_init for the side that encrypts and for    *)
(* the side that decrypts, AES_encrypt_block, then what the mode does to   *)
(* the result on the other side: AES_decrypt_block in ECB and CBC, and in  *)
(* CTR and GCM AES_encrypt_block again, over the same counter.             *)
(*                                                                         *)
(* A byte is the set of its one bits, so that xor is SymDiff.  A word of   *)
(* round_keys is its four bytes in the order of memory, and LE32TOBE32     *)
(* turns them round.  Both contexts run key_expansion over the same key;   *)
(* it is modelled once, revert_round_key_order after it per context.       *)
(* The S-box is any permutation of bytes with inv_sbox its inverse.        *)
(***************************************************************************)
EXTENDS Integers, FiniteSetsExt

CONSTANTS
  ByteBits,       \* 8
  Poly,           \* 0x1B, what xtime adds when the high bit falls out
  sbox, inv_sbox, \* [Byte -> Byte]
  Rcon,           \* [0 .. 10 -> Byte]
  KeyWords,       \* [AES_key_length -> words of a key]
  NumRounds,      \* [AES_key_length -> AES_*_NUM_ROUNDS]
  RevertWords,    \* [AES_key_length -> words that AES_init reverts]
  MaxWords,       \* words of ctx->round_keys
  AesJobs         \* [key_len, key, text, mode]: what is run

Byte == SUBSET (0 .. ByteBits - 1)
Word == [0 .. 3 -> Byte]
Block == [0 .. 15 -> Byte]
Modes == {"ECB", "CBC", "CTR", "GCM"}

ASSUME AesAssumption ==
  /\ ByteBits \in Nat \ {0} /\ Poly \in Byte
  /\ sbox \in [Byte -> Byte] /\ inv_sbox \in [Byte -> Byte]
  /\ \A b \in Byte : inv_sbox[sbox[b]] = b
  /\ Rcon \in [0 .. 10 -> Byte]
  /\ \A a \in AesJobs :
       LET l == a.key_len
       IN  /\ KeyWords[l] \in Nat \ {0} /\ NumRounds[l] \in Nat \ {0}
           /\ KeyWords[l] <= 4 * (NumRounds[l] + 1)
           /\ 4 * (NumRounds[l] + 1) <= 12 * KeyWords[l] \* Rcon is long enough
           /\ 4 * (NumRounds[l] + 1) <= MaxWords
           /\ RevertWords[l] = 4 * (NumRounds[l] + 1)
           /\ a.key \in [0 .. KeyWords[l] - 1 -> Word]
           /\ a.text \in Block /\ a.mode \in Modes
  /\ MaxWords \in Nat

VARIABLES
  job,
  pc,             \* where the program is
  i,              \* the word key_expansion computes next
  round_keys,     \* of the encrypting context
  inv_round_keys, \* of the decrypting context
  receiving,      \* whether the second context is at work
  state,          \* ctx->state
  index,          \* current_round_key_index
  round,          \* the loop variable
  cipher,         \* the block that the first side put out
  output,         \* the block that the second side put out
  trail           \* history: state after the n-th round key, first side

aesVars == <<job, pc, i, round_keys, inv_round_keys, receiving, state, index,
             round, cipher, output, trail>>

Nr == NumRounds[job.key_len]
Nk == KeyWords[job.key_len]

ZeroWord == [j \in 0 .. 3 |-> {}]
ZeroBlock == [j \in 0 .. 15 |-> {}]

-----------------------------------------------------------------------------
(* GF(2^ByteBits) *)

\* Mutant: the high bit stays when it is reduced.
XtimeKeepsHighBit(x) ==
  SymDiff({b + 1 : b \in x}, IF ByteBits - 1 \in x THEN Poly ELSE {})

xtime(x) ==
  SymDiff({b + 1 : b \in x \ {ByteBits - 1}},
          IF ByteBits - 1 \in x THEN Poly ELSE {})

xtime_GF3(x) == SymDiff(xtime(x), x)

\* x times the sum of the powers of two in y: 0x0e is {1, 2, 3}.
multiply_GF(x, y) ==
  LET masked(v, p) == IF p \in y THEN v ELSE {}
      x2 == xtime(x)
      x4 == xtime(x2)
  IN  SymDiff(SymDiff(masked(x, 0), masked(x2, 1)),
              SymDiff(masked(x4, 2), masked(xtime(x4), 3)))

-----------------------------------------------------------------------------
(* The steps of a round.  Byte r + 4 * c is row r of column c. *)

subBytes(s) == [n \in 0 .. 15 |-> sbox[s[n]]]
invSubBytes(s) == [n \in 0 .. 15 |-> inv_sbox[s[n]]]

shiftRows(s) == [n \in 0 .. 15 |-> s[(n + 4 * (n % 4)) % 16]]
invShiftRows(s) == [n \in 0 .. 15 |-> s[(n - 4 * (n % 4)) % 16]]

\* Byte k below byte n in its column, from the top again after the last.
Below(s, n, k) == s[n - (n % 4) + ((n + k) % 4)]

mixColumn(s) ==
  [n \in 0 .. 15 |->
     SymDiff(SymDiff(xtime(Below(s, n, 0)), xtime_GF3(Below(s, n, 1))),
             SymDiff(Below(s, n, 2), Below(s, n, 3)))]

invMixColumn(s) ==
  [n \in 0 .. 15 |->
     SymDiff(SymDiff(multiply_GF(Below(s, n, 0), {1, 2, 3}),
                     multiply_GF(Below(s, n, 1), {0, 1, 3})),
             SymDiff(multiply_GF(Below(s, n, 2), {0, 2, 3}),
                     multiply_GF(Below(s, n, 3), {0, 3})))]

\* Byte n of round_keys.
KeyByte(words, n) == words[n \div 4][n % 4]

addRoundKey(s, words, at) ==
  [n \in 0 .. 15 |-> SymDiff(s[n], KeyByte(words, at + n))]

-----------------------------------------------------------------------------
(* Key expansion *)

LE32TOBE32(w) == [j \in 0 .. 3 |-> w[3 - j]]

rotWord(w) ==
  LET be == LE32TOBE32(w)
  IN  LE32TOBE32([j \in 0 .. 3 |-> be[(j + 1) % 4]])

subWord(w) == [j \in 0 .. 3 |-> sbox[w[j]]]

\* An entry of Rcon as the word that key_expansion xors in.
RconWord(n) == [ZeroWord EXCEPT ![0] = Rcon[n]]

WordXor(v, w) == [j \in 0 .. 3 |-> SymDiff(v[j], w[j])]

\* Mutant: the second subWord of AES-256 happens for all keys.
NextWordAlwaysSub(words, n) ==
  LET prev == words[n - 1]
      tmp == IF n % Nk = 0
               THEN WordXor(subWord(rotWord(prev)),
                            LE32TOBE32(RconWord(n \div Nk - 1)))
             ELSE IF n % Nk = 4 THEN subWord(prev)
             ELSE prev
  IN  WordXor(words[n - Nk], tmp)

\* The body of the loop of key_expansion.
NextWord(words, n) ==
  LET prev == words[n - 1]
      tmp == IF n % Nk = 0
               THEN WordXor(subWord(rotWord(prev)),
                            LE32TOBE32(RconWord(n \div Nk - 1)))
             ELSE IF Nk > 6 /\ n % Nk = 4 THEN subWord(prev)
             ELSE prev
  IN  WordXor(words[n - Nk], tmp)

\* Mutant: the round keys come out in order, their words do not.
RevertedWordsOnly(words, len) ==
  [w \in 0 .. MaxWords - 1 |->
     IF w < len THEN words[len - 1 - w] ELSE words[w]]

(***************************************************************************)
(* revert_round_key_order: reverse_byte_order over the first len words,    *)
(* then, in each group of four, the words in their former order and the    *)
(* bytes of each in theirs.                                                *)
(***************************************************************************)
Reverted(words, len) ==
  LET turned == [w \in 0 .. MaxWords - 1 |->
                   IF w < len THEN LE32TOBE32(words[len - 1 - w]) ELSE words[w]]
  IN  [w \in 0 .. MaxWords - 1 |->
         IF w < len THEN LE32TOBE32(turned[4 * (w \div 4) + 3 - (w % 4)])
                    ELSE words[w]]

-----------------------------------------------------------------------------
AesInit ==
  /\ job \in AesJobs
  /\ pc = "key" /\ i = 0
  /\ round_keys = [w \in 0 .. MaxWords - 1 |-> ZeroWord]
  /\ inv_round_keys = round_keys
  /\ receiving = FALSE
  /\ state = ZeroBlock /\ index = 0 /\ round = 0
  /\ cipher = ZeroBlock /\ output = ZeroBlock
  /\ trail = [n \in 0 .. Nr |-> ZeroBlock]

\* key_expansion up to its loop
LoadKey ==
  /\ pc = "key"
  /\ round_keys' = [w \in 0 .. MaxWords - 1 |->
                      IF w < Nk THEN LE32TOBE32(job.key[w]) ELSE round_keys[w]]
  /\ i' = Nk
  /\ pc' = "expand"
  /\ UNCHANGED <<job, inv_round_keys, receiving, state, index, round, cipher,
                 output, trail>>

ExpandWord ==
  /\ pc = "expand" /\ i < 4 * (Nr + 1)
  /\ round_keys' = [round_keys EXCEPT ![i] = NextWord(round_keys, i)]
  /\ i' = i + 1
  /\ UNCHANGED <<job, pc, inv_round_keys, receiving, state, index, round,
                 cipher, output, trail>>

\* The end of key_expansion, and of AES_init on both sides.
FinishKeys ==
  /\ pc = "expand" /\ i = 4 * (Nr + 1)
  /\ LET words == [w \in 0 .. MaxWords - 1 |-> LE32TOBE32(round_keys[w])]
     IN  /\ round_keys' = words
         /\ inv_round_keys' = IF job.mode \in {"CBC", "ECB"}
                                THEN Reverted(words, RevertWords[job.key_len])
                                ELSE words
  /\ pc' = "block"
  /\ UNCHANGED <<job, i, receiving, state, index, round, cipher, output, trail>>

-----------------------------------------------------------------------------
(* AES_encrypt_block, and AES_decrypt_block *)

Inverting == receiving /\ job.mode \in {"CBC", "ECB"}
Keys == IF receiving THEN inv_round_keys ELSE round_keys

\* Remembers the states that the first side goes through.
Remember(n) ==
  trail' = IF receiving THEN trail ELSE [trail EXCEPT ![n] = state']

StartEncrypt ==
  /\ pc = "block" /\ ~ Inverting
  /\ state' = addRoundKey(job.text, Keys, 0)
  /\ index' = 16 /\ round' = 0
  /\ pc' = "encrypting"
  /\ Remember(0)
  /\ UNCHANGED <<job, i, round_keys, inv_round_keys, receiving, cipher, output>>

EncryptRound ==
  /\ pc = "encrypting" /\ round < Nr - 1
  /\ state' = addRoundKey(mixColumn(shiftRows(subBytes(state))), Keys, index)
  /\ index' = index + 16 /\ round' = round + 1
  /\ Remember(round + 1)
  /\ UNCHANGED <<job, pc, i, round_keys, inv_round_keys, receiving, cipher,
                 output>>

EncryptLast ==
  /\ pc = "encrypting" /\ round >= Nr - 1
  /\ state' = addRoundKey(shiftRows(subBytes(state)), Keys, index)
  /\ Remember(Nr)
  /\ IF receiving THEN output' = state' /\ pc' = "done" /\ UNCHANGED cipher
                  ELSE cipher' = state' /\ pc' = "block" /\ UNCHANGED output
  /\ receiving' = TRUE
  /\ UNCHANGED <<job, i, round_keys, inv_round_keys, index, round>>

StartDecrypt ==
  /\ pc = "block" /\ Inverting
  /\ state' = addRoundKey(cipher, Keys, 0)
  /\ index' = 16 /\ round' = Nr
  /\ pc' = "decrypting"
  /\ UNCHANGED <<job, i, round_keys, inv_round_keys, receiving, cipher, output,
                 trail>>

\* Mutant: the round key is added after the columns are unmixed.
DecryptRoundMixFirst ==
  /\ pc = "decrypting" /\ round >= 2
  /\ state' = addRoundKey(invMixColumn(invSubBytes(invShiftRows(state))), Keys,
                          index)
  /\ index' = index + 16 /\ round' = round - 1
  /\ UNCHANGED <<job, pc, i, round_keys, inv_round_keys, receiving, cipher,
                 output, trail>>

DecryptRound ==
  /\ pc = "decrypting" /\ round >= 2
  /\ state' = invMixColumn(addRoundKey(invSubBytes(invShiftRows(state)), Keys,
                                       index))
  /\ index' = index + 16 /\ round' = round - 1
  /\ UNCHANGED <<job, pc, i, round_keys, inv_round_keys, receiving, cipher,
                 output, trail>>

DecryptLast ==
  /\ pc = "decrypting" /\ round < 2
  /\ state' = addRoundKey(invSubBytes(invShiftRows(state)), Keys, index)
  /\ output' = state'
  /\ pc' = "done"
  /\ UNCHANGED <<job, i, round_keys, inv_round_keys, receiving, index, round,
                 cipher, trail>>

\* The program ends.
AesDone == pc = "done" /\ UNCHANGED aesVars

AesNext ==
  \/ LoadKey \/ ExpandWord \/ FinishKeys
  \/ StartEncrypt \/ EncryptRound \/ EncryptLast
  \/ StartDecrypt \/ DecryptRound \/ DecryptLast
  \/ AesDone

-----------------------------------------------------------------------------
(***************************************************************************)
(* Properties                                                              *)
(***************************************************************************)

\* Every byte stays a byte, and no step leaves the words that key_expansion
\* filled: the round key in use ends where the schedule ends, at the latest.
AesTypeOK ==
  /\ pc \in {"key", "expand", "block", "encrypting", "decrypting", "done"}
  /\ job \in AesJobs /\ receiving \in BOOLEAN
  /\ round_keys \in [0 .. MaxWords - 1 -> Word]
  /\ inv_round_keys \in [0 .. MaxWords - 1 -> Word]
  /\ i \in 0 .. 4 * (Nr + 1) /\ round \in 0 .. Nr
  /\ index \in 0 .. 16 * Nr
  /\ state \in Block /\ cipher \in Block /\ output \in Block
  /\ trail \in [0 .. Nr -> Block]

\* While a block is decrypted, the state after n of its round keys is the one
\* that encryption had before it added its n-th key from the end: the key
\* order that AES_init reverts, the order of the four steps inside a round
\* and the inverse columns of aes.c all undo those of encryption.
RetracesRounds ==
  pc = "decrypting" =>
    state = shiftRows(subBytes(trail[Nr - index \div 16]))

\* Whatever the key and the number of rounds, in ECB and CBC the second side
\* puts out the block that went in; in CTR and GCM, whose keys must not be
\* reverted, both sides make the same key stream block.
AesRoundTrip ==
  pc = "done" =>
    output = IF job.mode \in {"CBC", "ECB"} THEN job.text ELSE cipher
=============================================================================
