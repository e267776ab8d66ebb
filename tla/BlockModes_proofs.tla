------------------------- MODULE BlockModes_proofs -------------------------
(***************************************************************************)
(* Proofs about BlockModes, for every block cipher, block size, text and   *)
(* size of buffer.                                                         *)
(***************************************************************************)
EXTENDS BlockModes, TLAPS

(***************************************************************************)
(* Arithmetic of blocks and cells.                                         *)
(***************************************************************************)

LEMMA Quotient ==
  ASSUME NEW q \in Nat, NEW r \in Nat, NEW b \in Nat, r < b
  PROVE  /\ (q * b + r) % b = r
         /\ (q * b + r) \div b = q
OBVIOUS

LEMMA Division ==
  ASSUME NEW n0 \in Nat, NEW b \in Nat, b > 0
  PROVE  /\ n0 % b \in 0 .. b - 1
         /\ n0 \div b \in Nat
         /\ n0 = (n0 \div b) * b + (n0 % b)
OBVIOUS

LEMMA Product ==
  ASSUME NEW a \in Nat, NEW b \in Nat, NEW m \in Nat, a <= b
  PROVE  /\ a * m \in Nat /\ b * m \in Nat
         /\ a * m <= b * m
         /\ (a + 1) * m = a * m + m
OBVIOUS

LEMMA Sizes ==
  /\ BlockSize \in Nat /\ BlockSize > 0 /\ BlockSize < ByteRange
  /\ ByteRange \in Nat /\ MaxBytes \in Nat
<1>1. /\ BlockSize \in Nat \ {0} /\ BlockSize < ByteRange
      /\ ByteRange \in Nat /\ MaxBytes \in Nat
  BY ONLY BlockModesAssumption, Zenon DEF BlockModesAssumption
<1>2. QED
  BY ONLY <1>1

LEMMA Size == BlockSize \in Nat /\ BlockSize > 0
BY Sizes

\* An int that is not negative is an unsigned int, and so is a length.
LEMMA IntSizes ==
  IntMax \in Nat /\ BlockSize <= IntMax /\ MaxBytes <= (2 * IntMax) + 1
BY ONLY BlockModesAssumption, Zenon DEF BlockModesAssumption

LEMMA NoWrap ==
  ASSUME NEW k \in Nat, k < 2 * (IntMax + 1)
  PROVE  Unsigned(k) = k
<1> DEFINE w == 2 * (IntMax + 1)
<1>1. w \in Nat /\ k < w
  BY IntSizes
<1> HIDE DEF w
<1>2. 0 * w + k = k
  BY <1>1
<1>3. (0 * w + k) % w = k
  BY <1>1, Quotient
<1>4. QED
  BY <1>2, <1>3 DEF Unsigned, w

\* The whole blocks of a text, and the block that padding adds.
LEMMA WholeBlocksOf ==
  ASSUME NEW len \in Nat
  PROVE  /\ len \div BlockSize \in Nat
         /\ len % BlockSize \in 0 .. BlockSize - 1
         /\ (len \div BlockSize) * BlockSize = len - (len % BlockSize)
         /\ ((len \div BlockSize) + 1) * BlockSize
              = len - (len % BlockSize) + BlockSize
<1> DEFINE q == len \div BlockSize
           r == len % BlockSize
<1>1. q \in Nat /\ r \in 0 .. BlockSize - 1 /\ len = q * BlockSize + r
  BY Size, Division
<1> HIDE DEF q, r
<1>2. q * BlockSize \in Nat /\ (q + 1) * BlockSize = q * BlockSize + BlockSize
  BY <1>1, Size, Product
<1>3. q * BlockSize = len - r
  BY <1>1, <1>2
<1>4. QED
  BY <1>1, <1>2, <1>3 DEF q, r

\* Cell j of block i.
LEMMA CellOf ==
  ASSUME NEW i \in Nat, NEW j \in 1 .. BlockSize
  PROVE  /\ i * BlockSize \in Nat
         /\ i * BlockSize + j - 1 \in Nat
         /\ (i * BlockSize + j - 1) \div BlockSize = i
         /\ (i + 1) * BlockSize = i * BlockSize + BlockSize
<1>1. /\ i * BlockSize \in Nat /\ j - 1 \in Nat /\ j - 1 < BlockSize
      /\ (i + 1) * BlockSize = i * BlockSize + BlockSize
  BY Size, Product
<1>2. (i * BlockSize + (j - 1)) \div BlockSize = i
  BY <1>1, Size, Quotient
<1> DEFINE p == i * BlockSize
<1>3. p \in Nat /\ p + (j - 1) = p + j - 1 /\ p + j - 1 \in Nat
  BY <1>1
<1>4. QED
  BY <1>1, <1>2, <1>3

\* The block that a cell is in.
LEMMA BlockWith ==
  ASSUME NEW k \in Nat
  PROVE  /\ k \div BlockSize \in Nat
         /\ (k \div BlockSize) * BlockSize \in Nat
         /\ (k \div BlockSize) * BlockSize <= k
         /\ k - ((k \div BlockSize) * BlockSize) + 1 \in 1 .. BlockSize
<1> DEFINE i == k \div BlockSize
           r == k % BlockSize
<1>1. i \in Nat /\ r \in 0 .. BlockSize - 1 /\ k = i * BlockSize + r
  BY Size, Division
<1> HIDE DEF i, r
<1>2. i * BlockSize \in Nat
  BY <1>1, Size, Product
<1> DEFINE p == i * BlockSize
<1>3. p \in Nat /\ k = p + r
  BY <1>1, <1>2
<1> HIDE DEF p
<1>4. p <= k /\ k - p + 1 \in 1 .. BlockSize
  BY <1>1, <1>3, Size
<1>5. QED
  BY <1>1, <1>3, <1>4 DEF i, p

\* A cell before block i is in an earlier block, one behind it in a later one.
LEMMA OutsideBlock ==
  ASSUME NEW i \in Nat, NEW k \in Nat
  PROVE  k \div BlockSize = i <=> i * BlockSize <= k /\ k < (i + 1) * BlockSize
<1> DEFINE q == k \div BlockSize
           r == k % BlockSize
<1>1. q \in Nat /\ r \in 0 .. BlockSize - 1 /\ k = q * BlockSize + r
  BY Size, Division
<1>2. /\ i * BlockSize \in Nat
      /\ (i + 1) * BlockSize = i * BlockSize + BlockSize
  BY Size, Product
<1> HIDE DEF q, r
<1>3. q * BlockSize \in Nat
  BY <1>1, Size, Product
<1>4. CASE q < i
  <2>1. (q + 1) * BlockSize <= i * BlockSize
        /\ (q + 1) * BlockSize = q * BlockSize + BlockSize
    BY <1>1, <1>4, Size, Product
  <2> QED  BY <1>1, <1>2, <1>3, <1>4, <2>1, Size DEF q
<1>5. CASE q > i
  <2>1. (i + 1) * BlockSize <= q * BlockSize
    BY <1>1, <1>5, Size, Product
  <2> QED  BY <1>1, <1>2, <1>3, <1>5, <2>1, Size DEF q
<1>6. CASE q = i
  BY <1>1, <1>2, <1>3, <1>6, Size DEF q
<1>7. QED
  BY <1>1, <1>4, <1>5, <1>6

-----------------------------------------------------------------------------
(***************************************************************************)
(* What the inductive invariant speaks of.                                 *)
(***************************************************************************)

\* Requests whose encryption and decryption read and write blocks.
Reads == Mode = "CBC" \/ (Mode = "ECB" /\ (Family = "AES" \/ NoPad))

TextLen == Len(request.text)

\* NumBlocks of the encryption, after in_len has become another.
Sealed ==
  IF Mode = "CBC" /\ (Family # "AES" \/ Partial(TextLen))
    THEN (TextLen \div BlockSize) + 1 ELSE TextLen \div BlockSize

\* Byte k of what the loop of the encryption reads.
Plain(k) ==
  IF k < TextLen
    THEN IF request.in_place /\ k < request.room THEN 0 ELSE request.text[k + 1]
    ELSE BlockSize - (TextLen % BlockSize)

BlockOf(memory, i) == [j \in 1 .. BlockSize |-> memory[i * BlockSize + j - 1]]
PlainBlock(i) == [j \in 1 .. BlockSize |-> Plain(i * BlockSize + j - 1)]

Before(memory, i) == IF i = 0 THEN Iv ELSE BlockOf(memory, i - 1)

\* The first m blocks of a memory are the ciphertext of the plaintext.
IsSealed(memory, m) ==
  \A i \in Nat : i < m =>
    /\ BlockOf(memory, i) \in Block
    /\ BlockOf(memory, i) =
         encrypt[IF Mode = "CBC" THEN BlockXor(Before(memory, i), PlainBlock(i))
                                 ELSE PlainBlock(i)]

\* Every byte below a bound was written.
Written(memory, bound) ==
  \A k \in 0 .. MaxBytes - 1 : k < bound => memory[k] \in Byte

Okay == pc = "returned" /\ status = "CRYPT_OKAY"

Control ==
  /\ request \in Requests
  /\ pc # "returned" => status = "CRYPT_OKAY"
  /\ Encrypting => in_len = TextLen /\ room = request.room
  /\ ~ Encrypting => in_len \in {sent, request.room}
  /\ pc = "gate" => ~ retried
  /\ pc = "begin" => /\ Mode \in {"ECB", "CBC"} /\ Refusal = "CRYPT_OKAY"
                     /\ retried => ~ TooSmall /\ Mode = "CBC"
  /\ pc = "blocks" => /\ Reads /\ Refusal = "CRYPT_OKAY"
                      /\ ~ TooSmall /\ ~ PaddedOverflows
  /\ pc # "undefined" =>
       reach = IF pc = "blocks" \/ (Okay /\ Reads) THEN n * BlockSize ELSE 0
  /\ Okay => /\ Refusal = "CRYPT_OKAY"
             /\ Reads => n = NumBlocks /\ ~ TooSmall /\ ~ PaddedOverflows
  /\ pc = "undefined" => /\ Refusal = "CRYPT_OKAY"
                         /\ PaddedOverflows \/ IndexOverflows

\* Where the text is before the loop, and what the loop still has to read.
Source ==
  Encrypting =>
    /\ request.in_place => from = to
    /\ pc \in {"gate", "begin"} =>
         \A k \in 0 .. MaxBytes - 1 : k < TextLen =>
           \/ from[k] = request.text[k + 1]
           \/ request.in_place /\ k < request.room /\ from[k] = 0
    /\ pc = "blocks" /\ Mode = "CBC" =>
         \A k \in 0 .. MaxBytes - 1 : k < NumBlocks * BlockSize => padded[k] = Plain(k)
    /\ pc = "blocks" /\ Mode = "ECB" =>
         \A k \in 0 .. MaxBytes - 1 :
           n * BlockSize <= k /\ k < NumBlocks * BlockSize => from[k] = Plain(k)

Sealing ==
  Encrypting /\ Reads /\ (pc = "blocks" \/ Okay) =>
    /\ IsSealed(to, n)
    /\ chain = Before(to, n)
    /\ Written(to, room)
    /\ Written(to, n * BlockSize)

Opening ==
  ~ Encrypting =>
    /\ sent >= TextLen <=> ~ Dropped
    /\ Reads => /\ sent = Sealed * BlockSize
                /\ IsSealed(from, Sealed)
                /\ Written(from, in_len)
    /\ pc = "blocks" => Written(to, room) /\ chain = Before(from, n)
    /\ Reads /\ (pc = "blocks" \/ Okay) /\ in_len = sent =>
         \A i \in Nat : i < n => BlockOf(to, i) = PlainBlock(i)

-----------------------------------------------------------------------------
(***************************************************************************)
(* Blocks.                                                                 *)
(***************************************************************************)

LEMMA Ciphers ==
  /\ encrypt \in [Block -> Block] /\ decrypt \in [Block -> Block]
  /\ \A b \in Block : decrypt[encrypt[b]] = b
  /\ xor \in [Byte \X Byte -> Byte]
  /\ \A a, b \in Byte : xor[xor[a, b], a] = b
  /\ Iv \in Block
BY ONLY BlockModesAssumption, Zenon DEF BlockModesAssumption

LEMMA RequestFields ==
  ASSUME request \in Requests
  PROVE  /\ request.text \in Seq(Byte) /\ TextLen \in 0 .. MaxBytes
         /\ request.room \in 0 .. MaxBytes
<1>1. /\ request.text \in Seq(Byte) /\ Len(request.text) <= MaxBytes
      /\ request.room \in 0 .. MaxBytes
  BY ONLY BlockModesAssumption, request \in Requests, Zenon
     DEF BlockModesAssumption
<1>2. QED
  BY ONLY <1>1, Sizes DEF TextLen

\* xor is a permutation of blocks that undoes itself.
LEMMA XorBack ==
  ASSUME NEW a \in Block, NEW b \in Block
  PROVE  /\ BlockXor(a, b) \in Block
         /\ BlockXor(BlockXor(a, b), a) = b
<1>1. \A j \in 1 .. BlockSize :
        /\ a[j] \in Byte /\ b[j] \in Byte
        /\ xor[a[j], b[j]] \in Byte
        /\ xor[xor[a[j], b[j]], a[j]] = b[j]
  BY Ciphers DEF Block
<1>2. b = [j \in 1 .. BlockSize |-> b[j]]
  BY DEF Block
<1>3. QED
  BY <1>1, <1>2 DEF BlockXor, Block

LEMMA PlainType ==
  ASSUME request \in Requests
  PROVE  /\ \A k \in Nat : Plain(k) \in Byte
         /\ \A i \in Nat : PlainBlock(i) \in Block
<1>1. /\ request.text \in Seq(Byte) /\ TextLen \in Nat
      /\ \A k \in 1 .. TextLen : request.text[k] \in Byte
  BY RequestFields, Sizes DEF TextLen
<1>2. TextLen % BlockSize \in 0 .. BlockSize - 1
  BY <1>1, WholeBlocksOf
<1>3. 0 \in Byte /\ BlockSize - (TextLen % BlockSize) \in Byte
  BY <1>2, Sizes DEF Byte
<1>4. \A k \in Nat : Plain(k) \in Byte
  <2> SUFFICES ASSUME NEW k \in Nat PROVE Plain(k) \in Byte
    OBVIOUS
  <2>1. k < TextLen => k + 1 \in 1 .. TextLen
    BY <1>1
  <2> QED  BY <1>1, <1>3, <2>1 DEF Plain
<1>5. \A i \in Nat, j \in 1 .. BlockSize : i * BlockSize + j - 1 \in Nat
  BY CellOf
<1>6. QED
  BY <1>4, <1>5 DEF PlainBlock, Block

\* A block of written bytes.
LEMMA BlockIn ==
  ASSUME NEW memory, NEW bound \in 0 .. MaxBytes, Written(memory, bound),
         NEW i \in Nat, (i + 1) * BlockSize <= bound
  PROVE  BlockOf(memory, i) \in Block
<1> SUFFICES ASSUME NEW j \in 1 .. BlockSize
             PROVE  memory[i * BlockSize + j - 1] \in Byte
  BY DEF BlockOf, Block
<1> DEFINE p == i * BlockSize
<1>1. p \in Nat /\ (i + 1) * BlockSize = p + BlockSize
  BY CellOf
<1> HIDE DEF p
<1>2. p + j - 1 \in 0 .. MaxBytes - 1 /\ p + j - 1 < bound
  BY <1>1, Sizes
<1>3. QED
  BY <1>2 DEF Written, p

\* What writing block i does to a memory.
Overwritten(memory, i, b) ==
  [k \in 0 .. MaxBytes - 1 |->
     IF k \div BlockSize = i THEN b[k - (i * BlockSize) + 1] ELSE memory[k]]

LEMMA WriteBlock ==
  ASSUME NEW memory \in Memory, NEW i \in Nat, NEW b \in Block,
         (i + 1) * BlockSize <= MaxBytes
  PROVE  LET after == Overwritten(memory, i, b) IN
         /\ after \in Memory
         /\ BlockOf(after, i) = b
         /\ \A h \in Nat : h < i => BlockOf(after, h) = BlockOf(memory, h)
         /\ \A k \in 0 .. MaxBytes - 1 :
              (i + 1) * BlockSize <= k => after[k] = memory[k]
         /\ \A bound : Written(memory, bound) => Written(after, bound)
         /\ Written(memory, i * BlockSize) => Written(after, (i + 1) * BlockSize)
<1> DEFINE after == Overwritten(memory, i, b)
<1>1. ASSUME NEW k \in 0 .. MaxBytes - 1
      PROVE  after[k] = IF k \div BlockSize = i THEN b[k - (i * BlockSize) + 1]
                        ELSE memory[k]
  BY DEF Overwritten
<1>2. ASSUME NEW k \in 0 .. MaxBytes - 1, k \div BlockSize = i
      PROVE  after[k] \in Byte
  <2>1. k \in Nat
    BY Sizes
  <2>2. k - (i * BlockSize) + 1 \in 1 .. BlockSize
    BY <1>2, <2>1, BlockWith
  <2> QED  BY <1>1, <1>2, <2>2 DEF Block
<1>3. after \in Memory
  <2>1. \A k \in 0 .. MaxBytes - 1 : after[k] \in Byte \cup {Old}
    BY <1>1, <1>2 DEF Memory
  <2> QED  BY <2>1 DEF Overwritten, Memory
<1> HIDE DEF after
<1>4. BlockOf(after, i) = b
  <2>1. ASSUME NEW j \in 1 .. BlockSize
        PROVE  after[i * BlockSize + j - 1] = b[j]
    <3> DEFINE p == i * BlockSize
               c == p + j - 1
    <3>1. p \in Nat /\ c \div BlockSize = i /\ (i + 1) * BlockSize = p + BlockSize
      BY CellOf
    <3> HIDE DEF p
    <3>2. c \in 0 .. MaxBytes - 1 /\ c - p + 1 = j
      BY <3>1, Sizes
    <3> HIDE DEF c
    <3>3. after[c] = b[c - p + 1]
      BY <1>1, <3>1, <3>2 DEF p
    <3> QED  BY <3>2, <3>3 DEF c, p
  <2>2. b = [j \in 1 .. BlockSize |-> b[j]]
    BY DEF Block
  <2> QED  BY <2>1, <2>2 DEF BlockOf
<1>5. ASSUME NEW h \in Nat, h < i
      PROVE  BlockOf(after, h) = BlockOf(memory, h)
  <2> SUFFICES ASSUME NEW j \in 1 .. BlockSize
               PROVE  after[h * BlockSize + j - 1] = memory[h * BlockSize + j - 1]
    BY DEF BlockOf
  <2> DEFINE p == h * BlockSize
             c == p + j - 1
             top == (i + 1) * BlockSize
  <2>1. /\ p \in Nat /\ c \in Nat /\ c \div BlockSize = h
        /\ (h + 1) * BlockSize = p + BlockSize
    BY CellOf
  <2>2. (h + 1) * BlockSize <= top /\ top \in Nat
    BY <1>5, Size, Product
  <2> HIDE DEF p, top
  <2>3. c \in 0 .. MaxBytes - 1
    BY <2>1, <2>2, Sizes DEF top
  <2> HIDE DEF c
  <2>4. after[c] = memory[c]
    BY <1>1, <1>5, <2>1, <2>3
  <2> QED  BY <2>4 DEF c, p
<1>6. ASSUME NEW k \in 0 .. MaxBytes - 1, (i + 1) * BlockSize <= k
      PROVE  after[k] = memory[k]
  <2>1. k \in Nat /\ (i + 1) * BlockSize \in Nat
    BY Sizes, Size, Product
  <2>2. k \div BlockSize # i
    BY <1>6, <2>1, OutsideBlock
  <2> QED  BY <1>1, <2>2
<1>7. ASSUME NEW bound, Written(memory, bound)
      PROVE  Written(after, bound)
  BY <1>1, <1>2, <1>7 DEF Written
<1>8. ASSUME Written(memory, i * BlockSize)
      PROVE  Written(after, (i + 1) * BlockSize)
  <2> SUFFICES ASSUME NEW k \in 0 .. MaxBytes - 1, k < (i + 1) * BlockSize
               PROVE  after[k] \in Byte
    BY DEF Written
  <2>1. k \in Nat /\ i * BlockSize \in Nat
    BY Sizes, Size, Product
  <2>2. k \div BlockSize = i \/ k < i * BlockSize
    BY <2>1, OutsideBlock
  <2> QED  BY <1>1, <1>2, <1>8, <2>2 DEF Written
<1>9. QED
  BY <1>3, <1>4, <1>5, <1>6, <1>7, <1>8 DEF after

\* Whatever comes before a block can be its chaining value.
LEMMA BeforeType ==
  ASSUME NEW memory, NEW m \in Nat, IsSealed(memory, m), NEW i \in Nat, i <= m
  PROVE  Before(memory, i) \in Block
<1>1. CASE i = 0
  BY <1>1, Ciphers DEF Before
<1>2. CASE i # 0
  <2>1. i - 1 \in Nat /\ i - 1 < m
    BY <1>2
  <2> QED  BY <1>2, <2>1 DEF Before, IsSealed
<1>3. QED
  BY <1>1, <1>2

\* One block more is encrypted.
LEMMA SealMore ==
  ASSUME NEW memory, NEW after, NEW m \in Nat, IsSealed(memory, m),
         \A h \in Nat : h < m => BlockOf(after, h) = BlockOf(memory, h),
         BlockOf(after, m) \in Block,
         BlockOf(after, m) =
           encrypt[IF Mode = "CBC" THEN BlockXor(Before(memory, m), PlainBlock(m))
                                   ELSE PlainBlock(m)]
  PROVE  IsSealed(after, m + 1) /\ Before(after, m + 1) = BlockOf(after, m)
<1>1. \A i \in Nat : i <= m => Before(after, i) = Before(memory, i)
  <2> SUFFICES ASSUME NEW i \in Nat, i <= m
               PROVE  Before(after, i) = Before(memory, i)
    OBVIOUS
  <2>1. i # 0 => i - 1 \in Nat /\ i - 1 < m
    OBVIOUS
  <2> QED  BY <2>1 DEF Before
<1>2. ASSUME NEW i \in Nat, i < m + 1 PROVE i < m \/ i = m
  BY <1>2
<1>3. IsSealed(after, m + 1)
  BY <1>1, <1>2 DEF IsSealed
<1>4. m + 1 # 0 /\ (m + 1) - 1 = m
  OBVIOUS
<1>5. QED
  BY <1>3, <1>4 DEF Before

\* Decryption of a block that encryption wrote gives the plaintext.
LEMMA Unseal ==
  ASSUME request \in Requests, NEW memory, NEW m \in Nat, IsSealed(memory, m),
         NEW i \in Nat, i < m
  PROVE  LET p == decrypt[BlockOf(memory, i)] IN
         PlainBlock(i) = IF Mode = "CBC" THEN BlockXor(p, Before(memory, i)) ELSE p
<1> DEFINE prev == Before(memory, i)
           b == PlainBlock(i)
<1>1. prev \in Block /\ b \in Block
  BY BeforeType, PlainType
<1>2. BlockOf(memory, i) = encrypt[IF Mode = "CBC" THEN BlockXor(prev, b) ELSE b]
  BY DEF IsSealed
<1> HIDE DEF prev, b
<1>3. CASE Mode = "CBC"
  <2>1. BlockXor(prev, b) \in Block /\ BlockXor(BlockXor(prev, b), prev) = b
    BY <1>1, XorBack
  <2>2. decrypt[BlockOf(memory, i)] = BlockXor(prev, b)
    BY <1>2, <1>3, <2>1, Ciphers
  <2> QED  BY <1>3, <2>1, <2>2 DEF prev, b
<1>4. CASE Mode # "CBC"
  BY <1>1, <1>2, <1>4, Ciphers DEF prev, b
<1>5. QED
  BY <1>3, <1>4

-----------------------------------------------------------------------------
(***************************************************************************)
(* The loop over the blocks fits the memory behind the buffers.            *)
(***************************************************************************)

\* num_blocks * BlockSize, without a product.
LEMMA NumBlocksIs ==
  ASSUME in_len \in Nat
  PROVE  /\ NumBlocks \in Nat
         /\ in_len % BlockSize \in 0 .. BlockSize - 1
         /\ NumBlocks * BlockSize =
              IF Encrypting /\ Mode = "CBC" /\ (Family # "AES" \/ Partial(in_len))
                THEN in_len - (in_len % BlockSize) + BlockSize
                ELSE in_len - (in_len % BlockSize)
BY WholeBlocksOf DEF NumBlocks

LEMMA SealedIs ==
  ASSUME TextLen \in Nat
  PROVE  /\ Sealed \in Nat
         /\ TextLen % BlockSize \in 0 .. BlockSize - 1
         /\ Sealed * BlockSize =
              IF Mode = "CBC" /\ (Family # "AES" \/ Partial(TextLen))
                THEN TextLen - (TextLen % BlockSize) + BlockSize
                ELSE TextLen - (TextLen % BlockSize)
BY WholeBlocksOf DEF Sealed

Fits ==
  /\ in_len \in 0 .. MaxBytes /\ room \in 0 .. MaxBytes
  /\ Refusal = "CRYPT_OKAY" /\ ~ TooSmall /\ ~ PaddedOverflows /\ Reads

\* How far the loop writes: to the end of the buffer, but for the calls that
\* StaysInBuffer names.
LEMMA LoopStays ==
  ASSUME Fits
  PROVE  \/ NumBlocks * BlockSize <= room
         \/ Encrypting /\ Family = "AES" /\ Mode = "ECB" /\ ~ NoPad
         \/ /\ ~ Encrypting /\ Mode = "CBC" /\ room < in_len
            /\ Family = "AES" \/ in_len - room <= BlockSize
<1>1. /\ in_len \in Nat /\ room \in Nat
      /\ BlockSize \in Nat /\ BlockSize > 0
  BY Sizes DEF Fits
<1>2. /\ NumBlocks * BlockSize =
           IF Encrypting /\ Mode = "CBC" /\ (Family # "AES" \/ Partial(in_len))
             THEN in_len - (in_len % BlockSize) + BlockSize
             ELSE in_len - (in_len % BlockSize)
      /\ in_len % BlockSize \in 0 .. BlockSize - 1
  BY <1>1, NumBlocksIs
<1> DEFINE top == NumBlocks * BlockSize
           r == in_len % BlockSize
<1> HIDE DEF top, r
<1>3. CASE Family = "AES"
  <2>1. AesRefusal = "CRYPT_OKAY"
    BY <1>3 DEF Fits, Refusal
  <2>2. CASE Mode = "CBC" /\ Encrypting
    <3>1. ~ (room < Unsigned(in_len + BlockSize - r))
      BY <2>1, <2>2 DEF AesRefusal, r
    <3>2. top \in Nat /\ top <= IntMax /\ IntMax \in Nat /\ BlockSize <= IntMax
      BY <1>1, <1>2, <2>2, IntSizes DEF Fits, PaddedOverflows, top, r
    <3>3. /\ in_len + BlockSize - r \in Nat
          /\ in_len + BlockSize - r < 2 * (IntMax + 1)
      BY <1>1, <1>2, <3>2 DEF top, r
    <3>4. room >= in_len + BlockSize - r
      BY <1>1, <3>1, <3>3, NoWrap
    <3> QED  BY <1>1, <1>2, <2>2, <3>4 DEF r, top
  <2>3. CASE Mode = "CBC" /\ ~ Encrypting
    BY <1>1, <1>2, <1>3, <2>3 DEF r, top
  <2>4. CASE Mode = "ECB"
    <3>1. room >= in_len \/ (Encrypting /\ ~ NoPad)
      BY <1>1, <2>1, <2>4 DEF AesRefusal
    <3> QED  BY <1>1, <1>2, <1>3, <2>4, <3>1 DEF r, top
  <2> QED  BY <2>2, <2>3, <2>4 DEF Fits, Reads
<1>4. CASE Family # "AES"
  <2>1. CASE Mode = "ECB"
    <3>1. room >= in_len
      BY <1>1, <1>4, <2>1 DEF Fits, TooSmall
    <3> QED  BY <1>1, <1>2, <2>1, <3>1 DEF r, top
  <2>2. CASE Mode = "CBC" /\ Encrypting
    <3>1. top \in Nat
      BY <1>1, <1>2 DEF top, r
    <3>2. room >= top
      BY <1>1, <1>4, <2>2, <3>1 DEF Fits, TooSmall, top
    <3> QED  BY <3>2 DEF top
  <2>3. CASE Mode = "CBC" /\ ~ Encrypting
    <3>1. ~ (room < Unsigned(in_len - BlockSize))
      BY <1>4, <2>3 DEF Fits, TooSmall
    <3>2. top = in_len - r /\ r \in 0 .. BlockSize - 1
      BY <1>2, <2>3 DEF top, r
    <3>3. CASE in_len >= BlockSize
      <4>1. in_len - BlockSize \in Nat /\ in_len - BlockSize < 2 * (IntMax + 1)
        BY <1>1, <3>3, Sizes, IntSizes DEF Fits
      <4>2. room >= in_len - BlockSize
        BY <1>1, <3>1, <4>1, NoWrap
      <4> QED  BY <1>1, <1>4, <2>3, <3>2, <4>2 DEF top
    <3>4. CASE in_len < BlockSize
      <4>1. 0 * BlockSize + in_len = in_len
        BY <1>1
      <4>2. r = in_len
        BY <1>1, <3>4, <4>1, Quotient DEF r
      <4>3. top <= room
        BY <1>1, <3>2, <4>2
      <4> QED  BY <4>3 DEF top
    <3> QED  BY <1>1, <3>3, <3>4
  <2> QED  BY <2>1, <2>2, <2>3 DEF Fits, Reads
<1>5. QED
  BY <1>3, <1>4

LEMMA LoopFits ==
  ASSUME Fits
  PROVE  /\ NumBlocks \in Nat
         /\ NumBlocks * BlockSize \in 0 .. MaxBytes
<1>1. /\ in_len \in Nat /\ in_len <= MaxBytes /\ room \in Nat /\ room <= MaxBytes
      /\ BlockSize \in Nat /\ BlockSize > 0 /\ MaxBytes \in Nat
  BY Sizes DEF Fits
<1>2. /\ NumBlocks * BlockSize =
           IF Encrypting /\ Mode = "CBC" /\ (Family # "AES" \/ Partial(in_len))
             THEN in_len - (in_len % BlockSize) + BlockSize
             ELSE in_len - (in_len % BlockSize)
      /\ in_len % BlockSize \in 0 .. BlockSize - 1
      /\ NumBlocks \in Nat
  BY <1>1, NumBlocksIs
<1> DEFINE top == NumBlocks * BlockSize
           r == in_len % BlockSize
<1> HIDE DEF top, r
<1>3. CASE Encrypting /\ Mode = "CBC"
  <2>1. top <= room
    BY <1>3, LoopStays DEF top
  <2> QED  BY <1>1, <1>2, <2>1 DEF top, r
<1>4. CASE ~ (Encrypting /\ Mode = "CBC")
  BY <1>1, <1>2, <1>4 DEF top, r
<1>5. QED
  BY <1>2, <1>3, <1>4

\* A block that the loop is to read or write is inside.
LEMMA NextBlockFits ==
  ASSUME Fits, n \in Nat, n < NumBlocks
  PROVE  /\ n * BlockSize \in Nat
         /\ (n + 1) * BlockSize = n * BlockSize + BlockSize
         /\ (n + 1) * BlockSize <= NumBlocks * BlockSize
         /\ (n + 1) * BlockSize \in 0 .. MaxBytes
<1>1. NumBlocks \in Nat /\ NumBlocks * BlockSize \in 0 .. MaxBytes
  BY LoopFits
<1>2. n + 1 \in Nat /\ n + 1 <= NumBlocks
  BY <1>1
<1>3. (n + 1) * BlockSize <= NumBlocks * BlockSize /\ (n + 1) * BlockSize \in Nat
  BY <1>1, <1>2, Size, Product
<1>4. n * BlockSize \in Nat /\ (n + 1) * BlockSize = n * BlockSize + BlockSize
  BY Size, Product
<1>5. QED
  BY <1>1, <1>3, <1>4, Sizes

-----------------------------------------------------------------------------
(***************************************************************************)
(* What an encryption that returns CRYPT_OKAY has written.                 *)
(***************************************************************************)

Inv == TypeOK /\ Control /\ Source /\ Sealing /\ Opening

LEMMA SealedEnough ==
  ASSUME TypeOK, Control, Returned("encrypt")
  PROVE  /\ reach >= TextLen <=> ~ Dropped
         /\ Reads => n = Sealed /\ reach = Sealed * BlockSize
<1>1. /\ Encrypting /\ Okay /\ in_len = TextLen /\ room \in Nat
      /\ Refusal = "CRYPT_OKAY"
      /\ Reads => n = NumBlocks
      /\ reach = IF Reads THEN n * BlockSize ELSE 0
  BY Sizes DEF Control, Returned, Okay, Encrypting, TypeOK
<1>2. TextLen \in Nat /\ BlockSize \in Nat /\ BlockSize > 0
  BY RequestFields, Sizes DEF Control
<1>3. NumBlocks = Sealed
  BY <1>1 DEF NumBlocks, Sealed
<1>4. /\ Sealed * BlockSize =
           IF Mode = "CBC" /\ (Family # "AES" \/ Partial(TextLen))
             THEN TextLen - (TextLen % BlockSize) + BlockSize
             ELSE TextLen - (TextLen % BlockSize)
      /\ TextLen % BlockSize \in 0 .. BlockSize - 1
  BY <1>2, SealedIs
<1> DEFINE r == TextLen % BlockSize
<1>5. Partial(TextLen) <=> r # 0
  BY DEF Partial
<1>6. Dropped <=> \/ TextLen > 0 /\ Mode \notin {"ECB", "CBC"}
                  \/ TextLen > 0 /\ Mode = "ECB" /\ ~ NoPad /\ Family # "AES"
                  \/ r # 0 /\ Mode = "ECB" /\ (Family = "TDES" \/ ~ NoPad)
  BY <1>5 DEF Dropped, TextLen
<1> HIDE DEF r
<1> DEFINE top == Sealed * BlockSize
<1>11. Reads => reach = top /\ n = Sealed
  BY <1>1, <1>3
<1>12. /\ r \in 0 .. BlockSize - 1
       /\ top = IF Mode = "CBC" /\ (Family # "AES" \/ r # 0)
                  THEN TextLen - r + BlockSize ELSE TextLen - r
  BY <1>4, <1>5 DEF r
<1> HIDE DEF top
<1>7. CASE ~ Reads
  <2>1. reach = 0
    BY <1>1, <1>7
  <2>2. \/ Mode \notin {"ECB", "CBC"}
        \/ Mode = "ECB" /\ ~ NoPad /\ Family # "AES"
    BY <1>7 DEF Reads
  <2>3. TextLen = 0 => r = 0
    BY <1>2 DEF r
  <2> QED  BY <1>2, <1>6, <1>7, <2>1, <2>2, <2>3
<1>8. CASE Reads /\ Mode = "CBC"
  <2>1. top >= TextLen
    BY <1>2, <1>8, <1>12
  <2>2. ~ Dropped
    BY <1>6, <1>8
  <2> QED  BY <1>8, <1>11, <2>1, <2>2 DEF top
<1>9. CASE Reads /\ Mode = "ECB"
  <2>1. top >= TextLen <=> r = 0
    BY <1>2, <1>9, <1>12
  <2>2. NoPad \/ Family = "AES"
    BY <1>9 DEF Reads
  <2>3. (Family = "TDES" \/ ~ NoPad) \/ r = 0
    <3>1. CASE Family = "AES"
      <4>1. AesRefusal = "CRYPT_OKAY"
        BY <1>1, <3>1 DEF Refusal
      <4>2. ~ (NoPad /\ Partial(in_len))
        BY <1>9, <4>1 DEF AesRefusal
      <4> QED  BY <1>1, <1>5, <4>2
    <3>2. CASE Family # "AES"
      <4>1. DesRefusal = "CRYPT_OKAY"
        BY <1>1, <3>2 DEF Refusal
      <4>2. Family = "TDES" \/ ~ Partial(in_len)
        BY <1>9, <2>2, <3>2, <4>1 DEF DesRefusal
      <4> QED  BY <1>1, <1>5, <4>2
    <3> QED  BY <3>1, <3>2
  <2>4. Dropped <=> r # 0
    BY <1>2, <1>6, <1>9, <2>2, <2>3
  <2> QED  BY <1>9, <1>11, <2>1, <2>4 DEF top
<1>10. QED
  BY <1>7, <1>8, <1>9 DEF Reads

-----------------------------------------------------------------------------
(***************************************************************************)
(* What a step leaves alone.                                               *)
(***************************************************************************)

\* The request never changes, nor what depends on it alone.
LEMMA SameRequest ==
  ASSUME request' = request
  PROVE  /\ Mode' = Mode /\ Family' = Family /\ (NoPad <=> NoPad')
         /\ TextLen' = TextLen /\ Sealed' = Sealed
         /\ (Reads <=> Reads') /\ (Dropped <=> Dropped')
         /\ \A k : Plain(k)' = Plain(k)
         /\ \A i : PlainBlock(i)' = PlainBlock(i)
BY DEF Mode, Family, NoPad, TextLen, Sealed, Reads, Dropped, Plain, PlainBlock

LEMMA SameCall ==
  ASSUME request' = request, side' = side, in_len' = in_len, room' = room
  PROVE  /\ Refusal' = Refusal /\ (TooSmall <=> TooSmall')
         /\ NumBlocks' = NumBlocks
         /\ (PaddedOverflows <=> PaddedOverflows')
         /\ n' = n => (IndexOverflows <=> IndexOverflows')
         /\ (Encrypting <=> Encrypting') /\ (InPlace <=> InPlace')
BY DEF Refusal, AesRefusal, DesRefusal, TooSmall, NumBlocks, Encrypting, InPlace,
       PaddedOverflows, IndexOverflows, Unsigned, Mode, Family, NoPad

LEMMA SealedTo ==
  ASSUME request' = request, IsSealed(to', n')
  PROVE  IsSealed(to, n)'
BY DEF IsSealed, BlockOf, PlainBlock, Plain, Before, BlockXor, Mode, TextLen

LEMMA SealedFrom ==
  ASSUME request' = request, IsSealed(from', Sealed)
  PROVE  IsSealed(from, Sealed)'
BY SameRequest
   DEF IsSealed, BlockOf, PlainBlock, Plain, Before, BlockXor, Mode, TextLen

LEMMA SourceKept ==
  ASSUME Source, UNCHANGED <<request, side, in_len, room, from, to, padded, n>>,
         pc' \in {"gate", "begin"} => pc \in {"gate", "begin"},
         pc' = "blocks" => pc = "blocks"
  PROVE  Source'
BY SameRequest, SameCall DEF Source

LEMMA SealingKept ==
  ASSUME Sealing, UNCHANGED <<request, side, in_len, room, to, chain, n>>,
         Reads /\ (pc' = "blocks" \/ Okay') => pc = "blocks" \/ Okay
  PROVE  Sealing'
<1> SUFFICES ASSUME Encrypting', Reads', pc' = "blocks" \/ Okay'
             PROVE  (/\ IsSealed(to, n)
                     /\ chain = Before(to, n)
                     /\ Written(to, room)
                     /\ Written(to, n * BlockSize))'
  BY DEF Sealing
<1>1. /\ IsSealed(to, n) /\ chain = Before(to, n)
      /\ Written(to, room) /\ Written(to, n * BlockSize)
  BY SameRequest, SameCall DEF Sealing
<1>2. IsSealed(to', n')
  BY <1>1
<1>3. QED
  BY <1>1, <1>2, SealedTo DEF Before, BlockOf, Written

LEMMA OpeningKept ==
  ASSUME Opening, UNCHANGED <<request, side, in_len, room, from, to, chain, n, sent>>,
         pc' = "blocks" => pc = "blocks",
         Reads /\ (pc' = "blocks" \/ Okay') => pc = "blocks" \/ Okay
  PROVE  Opening'
<1> SUFFICES ASSUME ~ Encrypting'
             PROVE  (/\ sent >= TextLen <=> ~ Dropped
                     /\ Reads => /\ sent = Sealed * BlockSize
                                 /\ IsSealed(from, Sealed)
                                 /\ Written(from, in_len)
                     /\ pc = "blocks" => Written(to, room) /\ chain = Before(from, n)
                     /\ Reads /\ (pc = "blocks" \/ Okay) /\ in_len = sent =>
                          \A i \in Nat : i < n => BlockOf(to, i) = PlainBlock(i))'
  BY DEF Opening
<1>1. ~ Encrypting
  BY SameCall
<1>2. (sent >= TextLen <=> ~ Dropped)'
  BY <1>1, SameRequest DEF Opening
<1>3. (Reads => /\ sent = Sealed * BlockSize
                /\ IsSealed(from, Sealed)
                /\ Written(from, in_len))'
  <2> SUFFICES ASSUME Reads'
               PROVE  (/\ sent = Sealed * BlockSize
                       /\ IsSealed(from, Sealed)
                       /\ Written(from, in_len))'
    OBVIOUS
  <2>1. /\ sent = Sealed * BlockSize /\ IsSealed(from, Sealed)
        /\ Written(from, in_len)
    BY <1>1, SameRequest DEF Opening
  <2>2. IsSealed(from', Sealed)
    BY <2>1
  <2> QED  BY <2>1, <2>2, SealedFrom, SameRequest DEF Written
<1>4. (pc = "blocks" => Written(to, room) /\ chain = Before(from, n))'
  BY <1>1 DEF Opening, Written, Before, BlockOf
<1>5. (Reads /\ (pc = "blocks" \/ Okay) /\ in_len = sent =>
        \A i \in Nat : i < n => BlockOf(to, i) = PlainBlock(i))'
  BY <1>1, SameRequest DEF Opening, BlockOf
<1>6. QED
  BY <1>2, <1>3, <1>4, <1>5

-----------------------------------------------------------------------------
(***************************************************************************)
(* The steps that leave the memory alone.                                  *)
(***************************************************************************)

LEMMA InitInv == Init => Inv
<1> SUFFICES ASSUME Init PROVE Inv
  OBVIOUS
<1>1. /\ request \in Requests /\ request.text \in Seq(Byte)
      /\ TextLen \in 0 .. MaxBytes /\ request.room \in 0 .. MaxBytes
      /\ \A k \in 1 .. TextLen : request.text[k] \in Byte
  BY RequestFields DEF Init, TextLen
<1>2. Encrypting /\ pc = "gate" /\ ~ Okay
  BY DEF Init, Encrypting, Okay
<1>3. from \in Memory
  <2>1. \A k \in 0 .. MaxBytes - 1 : k < TextLen => k + 1 \in 1 .. TextLen
    BY <1>1, Sizes
  <2> QED  BY <1>1, <2>1 DEF Init, Memory, TextLen
<1>4. to \in Memory
  BY <1>3 DEF Init, Memory
<1>5. NumBlocks \in Nat
  BY <1>1, NumBlocksIs DEF Init, TextLen
<1>6. TypeOK
  <2>1. in_len \in 0 .. MaxBytes /\ room \in 0 .. MaxBytes /\ padded \in Memory
    BY <1>1, <1>3 DEF Init, TextLen
  <2>2. n \in 0 .. NumBlocks /\ chain \in Block
    <3>1. n = 0 /\ chain = Iv
      BY DEF Init
    <3>2. Iv \in Block
      BY Ciphers
    <3> QED  BY ONLY <1>5, <3>1, <3>2
  <2>3. /\ reach \in 0 .. MaxBytes /\ sent \in 0 .. MaxBytes
        /\ length \in (0 - BlockSize) .. MaxBytes
    BY Sizes DEF Init
  <2> QED  BY <1>3, <1>4, <2>1, <2>2, <2>3 DEF Init, TypeOK
<1>7. Control
  BY <1>1, <1>2 DEF Init, Control, TextLen
<1>8. Source
  BY <1>1, <1>2 DEF Init, Source, TextLen
<1>9. QED
  BY <1>2, <1>6, <1>7, <1>8 DEF Inv, Sealing, Opening

LEMMA GateInv == ASSUME Inv, Gate PROVE Inv'
<1>1. /\ UNCHANGED <<request, side, from, to, in_len, room, padded, n, chain,
                     retried, reach, sent, length>>
      /\ pc = "gate" /\ status' = Refusal
      /\ pc' \in {"begin", "returned"} /\ context' \in {"zero", "keys"}
      /\ pc' = "begin" <=> Refusal = "CRYPT_OKAY" /\ Mode \in {"ECB", "CBC"}
  BY DEF Gate
<1>2. /\ Refusal' = Refusal /\ NumBlocks' = NumBlocks
      /\ Mode' = Mode /\ (Encrypting <=> Encrypting') /\ (Reads <=> Reads')
      /\ TextLen' = TextLen
  BY <1>1, SameRequest, SameCall
<1>3. Reads /\ (pc' = "blocks" \/ Okay') => FALSE
  BY <1>1 DEF Okay, Reads
<1>4. TypeOK'
  BY <1>1, <1>2 DEF Inv, TypeOK
<1>5. Control'
  BY <1>1, <1>2, <1>3 DEF Inv, Control, Okay
<1>6. QED
  BY <1>1, <1>3, <1>4, <1>5, SourceKept, SealingKept, OpeningKept DEF Inv

LEMMA LeaveEarlyInv == ASSUME Inv, LeaveEarly PROVE Inv'
<1>1. /\ UNCHANGED <<request, side, from, to, in_len, room, padded, n, chain,
                     retried, reach, sent, length>>
      /\ pc = "begin" /\ pc' = "returned" /\ context' \in {"zero", context}
      /\ TooSmall \/ (Family # "AES" /\ Mode = "ECB" /\ ~ NoPad)
      /\ status' = IF TooSmall THEN "CRYPT_BAD_BUFFER_LEN" ELSE "CRYPT_OKAY"
  BY DEF LeaveEarly
<1>2. /\ Refusal' = Refusal /\ NumBlocks' = NumBlocks
      /\ Mode' = Mode /\ (Encrypting <=> Encrypting') /\ (Reads <=> Reads')
      /\ TextLen' = TextLen
  BY <1>1, SameRequest, SameCall
<1>3. Reads /\ (pc' = "blocks" \/ Okay') => FALSE
  BY <1>1 DEF Okay, Reads
<1>4. TypeOK'
  BY <1>1, <1>2 DEF Inv, TypeOK
<1>5. Control'
  BY <1>1, <1>2, <1>3 DEF Inv, Control, Okay
<1>6. QED
  BY <1>1, <1>3, <1>4, <1>5, SourceKept, SealingKept, OpeningKept DEF Inv

LEMMA OverflowInv == ASSUME Inv, Overflow PROVE Inv'
<1>1. /\ UNCHANGED <<request, side, from, to, in_len, room, padded, n, chain,
                     context, retried, reach, sent, length, status>>
      /\ pc \in {"begin", "blocks"} /\ pc' = "undefined"
      /\ PaddedOverflows \/ IndexOverflows
  BY DEF Overflow
<1>2. /\ Refusal' = Refusal /\ NumBlocks' = NumBlocks
      /\ (PaddedOverflows <=> PaddedOverflows')
      /\ (IndexOverflows <=> IndexOverflows')
      /\ (Encrypting <=> Encrypting') /\ TextLen' = TextLen
  BY <1>1, SameRequest, SameCall
<1>3. ~ Okay'
  BY <1>1 DEF Okay
<1>4. TypeOK'
  BY <1>1, <1>2 DEF Inv, TypeOK
<1>5. Control'
  BY <1>1, <1>2, <1>3 DEF Inv, Control
<1>6. QED
  BY <1>1, <1>3, <1>4, <1>5, SourceKept, SealingKept, OpeningKept DEF Inv

LEMMA StutterInv == ASSUME Inv, UNCHANGED vars PROVE Inv'
<1>1. /\ UNCHANGED <<request, side, from, to, in_len, room, padded, n, chain,
                     retried, reach, sent, length>>
      /\ pc' = pc /\ context' = context /\ status' = status
  BY DEF vars
<1>2. /\ Refusal' = Refusal /\ NumBlocks' = NumBlocks /\ (TooSmall <=> TooSmall')
      /\ Mode' = Mode /\ (Encrypting <=> Encrypting') /\ (Reads <=> Reads')
      /\ TextLen' = TextLen /\ (Okay <=> Okay')
      /\ (PaddedOverflows <=> PaddedOverflows')
      /\ (IndexOverflows <=> IndexOverflows')
  BY <1>1, SameRequest, SameCall DEF Okay
<1>3. TypeOK'
  BY <1>1, <1>2 DEF Inv, TypeOK
<1>4. Control'
  BY <1>1, <1>2 DEF Inv, Control
<1>5. QED
  BY <1>1, <1>2, <1>3, <1>4, SourceKept, SealingKept, OpeningKept DEF Inv

-----------------------------------------------------------------------------
(***************************************************************************)
(* The steps that write memory.                                            *)
(***************************************************************************)

LEMMA InvTypes ==
  ASSUME Inv
  PROVE  /\ request \in Requests
         /\ in_len \in 0 .. MaxBytes /\ room \in 0 .. MaxBytes
         /\ from \in Memory /\ to \in Memory /\ padded \in Memory
         /\ n \in Nat /\ chain \in Block /\ NumBlocks \in Nat
         /\ TextLen \in 0 .. MaxBytes /\ request.room \in 0 .. MaxBytes
<1>1. /\ request \in Requests
      /\ in_len \in 0 .. MaxBytes /\ room \in 0 .. MaxBytes
      /\ from \in Memory /\ to \in Memory /\ padded \in Memory
      /\ n \in 0 .. NumBlocks /\ chain \in Block
  BY DEF Inv, TypeOK, Control
<1>2. NumBlocks \in Nat
  BY <1>1, Sizes, NumBlocksIs
<1>3. n \in Nat
  BY ONLY <1>1, <1>2
<1>4. QED
  BY <1>1, <1>2, <1>3, RequestFields

\* memset keeps a memory a memory and writes the room.
LEMMA WipeType ==
  ASSUME Inv, Wipe
  PROVE  /\ to' \in Memory /\ from' \in Memory
         /\ \A k \in 0 .. MaxBytes - 1 :
              to'[k] = IF k < room THEN 0 ELSE to[k]
         /\ from' = IF InPlace THEN to' ELSE from
<1>1. 0 \in Byte
  BY Sizes DEF Byte
<1>2. to \in Memory /\ from \in Memory
  BY InvTypes
<1>3. /\ to' = [k \in 0 .. MaxBytes - 1 |-> IF k < room THEN 0 ELSE to[k]]
      /\ from' = IF InPlace THEN to' ELSE from
  BY DEF Wipe
<1>4. to' \in Memory
  BY <1>1, <1>2, <1>3 DEF Memory
<1>5. QED
  BY <1>2, <1>3, <1>4

\* The text after memset: what was in the room is gone if it shared it.
LEMMA WipedText ==
  ASSUME Inv, pc = "begin", Encrypting, Wipe
  PROVE  /\ request.in_place => from' = to'
         /\ \A k \in 0 .. MaxBytes - 1 : k < TextLen =>
              from'[k] = IF request.in_place /\ k < request.room THEN 0
                         ELSE request.text[k + 1]
<1>1. /\ \A k \in 0 .. MaxBytes - 1 : to'[k] = IF k < room THEN 0 ELSE to[k]
      /\ from' = IF request.in_place THEN to' ELSE from
  BY WipeType DEF InPlace
<1>2. /\ request.in_place => from = to
      /\ \A k \in 0 .. MaxBytes - 1 : k < TextLen =>
           \/ from[k] = request.text[k + 1]
           \/ request.in_place /\ k < request.room /\ from[k] = 0
      /\ room = request.room
  BY DEF Inv, Source, Control
<1>3. QED
  BY <1>1, <1>2

LEMMA OutOfMemoryInv == ASSUME Inv, OutOfMemory PROVE Inv'
<1>1. /\ UNCHANGED <<request, side, in_len, room, padded, n, chain, context, reach,
                     sent, length>>
      /\ pc = "begin" /\ Encrypting /\ Mode = "CBC" /\ ~ TooSmall /\ Wipe
      /\ \/ /\ status' = "CRYPT_FAILURE" /\ pc' = "returned"
            /\ retried' = retried
         \/ retried' = TRUE /\ status' = status /\ pc' = pc
  BY DEF OutOfMemory, MayBegin
<1>2. /\ Refusal' = Refusal /\ NumBlocks' = NumBlocks
      /\ Mode' = Mode /\ (Encrypting <=> Encrypting') /\ (Reads <=> Reads')
      /\ TextLen' = TextLen /\ (TooSmall <=> TooSmall')
      /\ (PaddedOverflows <=> PaddedOverflows')
  BY <1>1, SameRequest, SameCall
<1>3. ~ Okay' /\ pc' # "blocks"
  BY <1>1 DEF Okay
<1>4. to' \in Memory /\ from' \in Memory
  BY <1>1, WipeType
<1>5. TypeOK'
  BY <1>1, <1>2, <1>4 DEF Inv, TypeOK
<1>6. Control'
  BY <1>1, <1>2, <1>3 DEF Inv, Control, Okay
<1>7. Source'
  BY <1>1, <1>2, <1>3, WipedText DEF Source
<1>8. Sealing' /\ Opening'
  BY <1>1, <1>2, <1>3 DEF Sealing, Opening
<1>9. QED
  BY <1>5, <1>6, <1>7, <1>8 DEF Inv

LEMMA BeginInv == ASSUME Inv, Begin PROVE Inv'
<1>1. /\ UNCHANGED <<request, side, in_len, room, context, retried, sent, length,
                     status>>
      /\ pc = "begin" /\ ~ TooSmall /\ ~ PaddedOverflows /\ Wipe
      /\ Family = "AES" \/ Mode = "CBC" \/ NoPad
      /\ padded' = [k \in 0 .. MaxBytes - 1 |->
                     IF Encrypting /\ Mode = "CBC" /\ k >= in_len
                       THEN BlockSize - (in_len % BlockSize) ELSE from'[k]]
      /\ n' = 0 /\ chain' = Iv /\ reach' = 0 /\ pc' = "blocks"
  BY DEF Begin, MayBegin
<1>2. /\ Refusal' = Refusal /\ NumBlocks' = NumBlocks
      /\ Mode' = Mode /\ (Encrypting <=> Encrypting') /\ (Reads <=> Reads')
      /\ TextLen' = TextLen /\ (TooSmall <=> TooSmall') /\ Sealed' = Sealed
      /\ (PaddedOverflows <=> PaddedOverflows')
      /\ \A k : Plain(k)' = Plain(k)
  BY <1>1, SameRequest, SameCall
<1>3. ~ Okay' /\ Refusal = "CRYPT_OKAY" /\ Mode \in {"ECB", "CBC"} /\ Reads
  BY <1>1 DEF Okay, Inv, Control, Reads
<1>4. /\ to' \in Memory /\ from' \in Memory
      /\ \A k \in 0 .. MaxBytes - 1 : to'[k] = IF k < room THEN 0 ELSE to[k]
      /\ from' = IF InPlace THEN to' ELSE from
  BY <1>1, WipeType
<1>5. /\ BlockSize - (in_len % BlockSize) \in Byte /\ 0 \in Byte
      /\ in_len \in Nat /\ BlockSize \in Nat
  <2>1. in_len \in Nat /\ BlockSize \in Nat /\ BlockSize < ByteRange /\ ByteRange \in Nat
    BY InvTypes, Sizes
  <2>2. in_len % BlockSize \in 0 .. BlockSize - 1
    BY <2>1, WholeBlocksOf
  <2> QED  BY <2>1, <2>2 DEF Byte
<1>6. TypeOK'
  <2>1. padded' \in Memory
    BY <1>1, <1>4, <1>5 DEF Memory
  <2>2. NumBlocks \in Nat /\ Iv \in Block
    BY InvTypes, Ciphers
  <2>3. n' \in 0 .. NumBlocks' /\ reach' \in 0 .. MaxBytes
    BY ONLY <1>1, <1>2, <2>2, Sizes
  <2> QED  BY <1>1, <1>4, <2>1, <2>2, <2>3 DEF Inv, TypeOK
<1>7. Control'
  <2>1. 0 * BlockSize = 0
    BY Size
  <2> QED  BY <1>1, <1>2, <1>3, <2>1 DEF Inv, Control, Okay
<1>8. Source'
  <2> SUFFICES ASSUME Encrypting
               PROVE  /\ request.in_place => from' = to'
                      /\ Mode = "CBC" =>
                           \A k \in 0 .. MaxBytes - 1 :
                             k < NumBlocks * BlockSize => padded'[k] = Plain(k)
                      /\ Mode = "ECB" =>
                           \A k \in 0 .. MaxBytes - 1 :
                             0 * BlockSize <= k /\ k < NumBlocks * BlockSize
                               => from'[k] = Plain(k)
    BY <1>1, <1>2 DEF Source
  <2>1. /\ request.in_place => from' = to'
        /\ \A k \in 0 .. MaxBytes - 1 : k < TextLen => from'[k] = Plain(k)
    BY <1>1, WipedText DEF Plain
  <2>2. in_len = TextLen
    BY DEF Inv, Control
  <2>3. ASSUME Mode = "CBC", NEW k \in 0 .. MaxBytes - 1
        PROVE  padded'[k] = Plain(k)
    <3>1. padded'[k] = IF k >= in_len THEN BlockSize - (in_len % BlockSize)
                       ELSE from'[k]
      BY <1>1, <2>3
    <3>2. CASE k < TextLen
      BY <1>5, <2>1, <2>2, <3>1, <3>2, Sizes
    <3>3. CASE ~ (k < TextLen)
      <4>1. k >= in_len
        BY <1>5, <2>2, <3>3, Sizes
      <4> QED  BY <2>2, <3>1, <3>3, <4>1 DEF Plain
    <3> QED  BY <3>2, <3>3
  <2>4. Mode = "ECB" => NumBlocks * BlockSize <= TextLen
    BY <1>5, <2>2, NumBlocksIs
  <2>5. NumBlocks * BlockSize \in Nat
    BY InvTypes, Size, Product
  <2>6. ASSUME Mode = "ECB", NEW k \in 0 .. MaxBytes - 1, k < NumBlocks * BlockSize
        PROVE  from'[k] = Plain(k)
    BY <1>5, <2>1, <2>2, <2>4, <2>5, <2>6, Sizes
  <2> QED  BY <2>1, <2>3, <2>6
<1>9. Written(to', room)
  BY <1>4, <1>5 DEF Written
<1>10. Sealing'
  <2>1. IsSealed(to', n')
    BY <1>1 DEF IsSealed
  <2>2. Written(to', n' * BlockSize)
    <3>1. n' * BlockSize = 0
      BY <1>1, Size
    <3> QED  BY <3>1, Sizes DEF Written
  <2>3. IsSealed(to, n)'
    BY <1>1, <2>1, SealedTo
  <2> QED  BY <1>1, <1>9, <2>2, <2>3 DEF Sealing, Before, Written
<1>11. Opening'
  <2> SUFFICES ASSUME ~ Encrypting PROVE Opening'
    BY <1>2 DEF Opening
  <2>1. from' = from
    BY <1>4 DEF InPlace
  <2>2. /\ sent >= TextLen <=> ~ Dropped
        /\ sent = Sealed * BlockSize
        /\ IsSealed(from, Sealed) /\ Written(from, in_len)
    BY <1>3 DEF Inv, Opening
  <2>3. (sent >= TextLen <=> ~ Dropped)'
    BY <1>1, <2>2, SameRequest
  <2>4. IsSealed(from, Sealed)'
    BY <1>1, <2>1, <2>2, SealedFrom
  <2>5. (sent = Sealed * BlockSize)' /\ Written(from, in_len)'
    BY <1>1, <1>2, <2>1, <2>2 DEF Written
  <2>6. (Written(to, room) /\ chain = Before(from, n))'
    BY <1>1, <1>9 DEF Written, Before
  <2>7. \A i \in Nat : ~ (i < n')
    BY <1>1
  <2> QED  BY <2>3, <2>4, <2>5, <2>6, <2>7 DEF Opening
<1>12. QED
  BY <1>6, <1>7, <1>8, <1>10, <1>11 DEF Inv

\* Writing block n: what is common to both directions.
LEMMA WriteStep ==
  ASSUME Inv, pc = "blocks", n < NumBlocks, NEW b \in Block, Write(b)
  PROVE  /\ to' = Overwritten(to, n, b) /\ to' \in Memory
         /\ from' = IF InPlace THEN to' ELSE from
         /\ n' = n + 1 /\ n' \in Nat /\ n' <= NumBlocks
         /\ reach' = (n + 1) * BlockSize /\ reach' \in 0 .. MaxBytes
         /\ BlockOf(to', n) = b
         /\ \A h \in Nat : h < n => BlockOf(to', h) = BlockOf(to, h)
         /\ \A k \in 0 .. MaxBytes - 1 :
              (n + 1) * BlockSize <= k => to'[k] = to[k]
         /\ \A bound : Written(to, bound) => Written(to', bound)
         /\ Written(to, n * BlockSize) => Written(to', (n + 1) * BlockSize)
<1>1. to \in Memory /\ n \in Nat /\ NumBlocks \in Nat
  BY InvTypes
<1>2. Fits
  BY InvTypes DEF Inv, Control, Fits
<1>3. /\ n * BlockSize \in Nat
      /\ (n + 1) * BlockSize = n * BlockSize + BlockSize
      /\ (n + 1) * BlockSize \in 0 .. MaxBytes
  BY <1>1, <1>2, NextBlockFits
<1>4. /\ to' = Overwritten(to, n, b) /\ n' = n + 1
      /\ from' = IF InPlace THEN to' ELSE from
      /\ reach' = Larger(reach, (n + 1) * BlockSize)
  BY DEF Write, Overwritten
<1>5. reach = n * BlockSize
  BY DEF Inv, Control
<1>6. reach' = (n + 1) * BlockSize
  BY <1>3, <1>4, <1>5, Sizes DEF Larger
<1>7. (n + 1) * BlockSize <= MaxBytes
  BY <1>3, Sizes
<1>8. /\ to' \in Memory /\ BlockOf(to', n) = b
      /\ \A h \in Nat : h < n => BlockOf(to', h) = BlockOf(to, h)
      /\ \A k \in 0 .. MaxBytes - 1 :
           (n + 1) * BlockSize <= k => to'[k] = to[k]
      /\ \A bound : Written(to, bound) => Written(to', bound)
      /\ Written(to, n * BlockSize) => Written(to', (n + 1) * BlockSize)
  BY <1>1, <1>4, <1>7, WriteBlock
<1>9. n' \in Nat /\ n' <= NumBlocks
  BY ONLY <1>1, <1>4, n < NumBlocks
<1>10. QED
  BY <1>3, <1>4, <1>6, <1>8, <1>9

\* Its part of the invariant.
LEMMA WriteControl ==
  ASSUME Inv, pc = "blocks", n < NumBlocks, NEW b \in Block, Write(b),
         UNCHANGED <<request, side, pc, in_len, room, padded, context, retried,
                     sent, length, status>>,
         chain' \in Block
  PROVE  TypeOK' /\ Control'
<1>1. /\ Refusal' = Refusal /\ NumBlocks' = NumBlocks
      /\ Mode' = Mode /\ (Encrypting <=> Encrypting') /\ (Reads <=> Reads')
      /\ TextLen' = TextLen /\ (TooSmall <=> TooSmall')
      /\ (PaddedOverflows <=> PaddedOverflows')
  BY SameRequest, SameCall
<1>2. /\ to' \in Memory /\ from' = IF InPlace THEN to' ELSE from
      /\ n' = n + 1 /\ n' \in Nat /\ n' <= NumBlocks
      /\ reach' = (n + 1) * BlockSize /\ reach' \in 0 .. MaxBytes
  BY WriteStep
<1>3. from' \in Memory /\ n' \in 0 .. NumBlocks
  BY <1>2, InvTypes
<1>4. TypeOK'
  BY <1>1, <1>2, <1>3 DEF Inv, TypeOK
<1>5. ~ Okay'
  BY DEF Okay
<1>6. Control'
  BY <1>1, <1>2, <1>5 DEF Inv, Control
<1>7. QED
  BY <1>4, <1>6

LEMMA EncryptBlockInv == ASSUME Inv, EncryptBlock PROVE Inv'
<1> DEFINE b == BlockAt(IF Mode = "CBC" THEN padded ELSE from)
           c == encrypt[IF Mode = "CBC" THEN BlockXor(chain, b) ELSE b]
<1>1. /\ UNCHANGED <<request, side, pc, in_len, room, padded, context, retried,
                     sent, length, status>>
      /\ pc = "blocks" /\ Encrypting /\ n < NumBlocks
      /\ Write(c) /\ chain' = c
  BY DEF EncryptBlock
<1>2. /\ n \in Nat /\ NumBlocks \in Nat /\ chain \in Block /\ request \in Requests
      /\ Fits /\ Reads
  BY <1>1, InvTypes DEF Inv, Control, Fits
<1>3. /\ n * BlockSize \in Nat
      /\ (n + 1) * BlockSize = n * BlockSize + BlockSize
      /\ (n + 1) * BlockSize <= NumBlocks * BlockSize
      /\ (n + 1) * BlockSize \in 0 .. MaxBytes
  BY <1>1, <1>2, NextBlockFits
<1>4. b = PlainBlock(n)
  <2> SUFFICES ASSUME NEW j \in 1 .. BlockSize
               PROVE  (IF Mode = "CBC" THEN padded ELSE from)[n * BlockSize + j - 1]
                        = Plain(n * BlockSize + j - 1)
    BY DEF BlockAt, PlainBlock
  <2> DEFINE p == n * BlockSize
             top == NumBlocks * BlockSize
             k == p + j - 1
  <2>1. /\ Mode = "CBC" => \A h \in 0 .. MaxBytes - 1 : h < top => padded[h] = Plain(h)
        /\ Mode = "ECB" => \A h \in 0 .. MaxBytes - 1 :
                             p <= h /\ h < top => from[h] = Plain(h)
    BY <1>1 DEF Inv, Source
  <2>2. /\ p \in Nat /\ p + BlockSize <= top /\ p + BlockSize \in 0 .. MaxBytes
        /\ top \in Nat
    BY <1>2, <1>3, LoopFits
  <2> HIDE DEF p, top
  <2>3. k \in 0 .. MaxBytes - 1 /\ p <= k /\ k < top
    BY <2>2, Sizes
  <2> HIDE DEF k
  <2>4. (IF Mode = "CBC" THEN padded ELSE from)[k] = Plain(k)
    BY <1>2, <2>1, <2>3 DEF Reads
  <2> QED  BY <2>4 DEF k, p
<1>5. PlainBlock(n) \in Block /\ BlockXor(chain, PlainBlock(n)) \in Block
  BY <1>2, PlainType, XorBack
<1>6. c = encrypt[IF Mode = "CBC" THEN BlockXor(chain, PlainBlock(n))
                  ELSE PlainBlock(n)]
  BY <1>4
<1> HIDE DEF b, c
<1>7. c \in Block
  BY <1>5, <1>6, Ciphers
<1>8. /\ from' = IF InPlace THEN to' ELSE from
      /\ n' = n + 1 /\ BlockOf(to', n) = c
      /\ \A h \in Nat : h < n => BlockOf(to', h) = BlockOf(to, h)
      /\ \A k \in 0 .. MaxBytes - 1 :
           (n + 1) * BlockSize <= k => to'[k] = to[k]
      /\ \A bound : Written(to, bound) => Written(to', bound)
      /\ Written(to, n * BlockSize) => Written(to', (n + 1) * BlockSize)
  BY <1>1, <1>7, WriteStep
<1>9. /\ NumBlocks' = NumBlocks /\ Mode' = Mode /\ (Encrypting <=> Encrypting')
      /\ \A k : Plain(k)' = Plain(k)
      /\ InPlace <=> request.in_place
  BY <1>1, SameRequest, SameCall DEF InPlace
<1>10. TypeOK' /\ Control'
  BY <1>1, <1>7, WriteControl
<1>11. IsSealed(to, n) /\ chain = Before(to, n) /\ Written(to, room)
       /\ Written(to, n * BlockSize)
  BY <1>1, <1>2 DEF Inv, Sealing
<1>12. IsSealed(to', n + 1) /\ Before(to', n + 1) = c
  BY <1>2, <1>6, <1>7, <1>8, <1>11, SealMore
<1>13. Sealing'
  <2>1. IsSealed(to, n)'
    BY <1>1, <1>8, <1>12, SealedTo
  <2>2. (chain = Before(to, n))'
    BY <1>1, <1>8, <1>12 DEF Before, BlockOf
  <2>3. Written(to, room)' /\ Written(to, n * BlockSize)'
    BY <1>1, <1>8, <1>11 DEF Written
  <2> QED  BY <2>1, <2>2, <2>3 DEF Sealing
<1>14. Source'
  <2> SUFFICES ASSUME Mode = "ECB", NEW k \in 0 .. MaxBytes - 1,
                      (n + 1) * BlockSize <= k, k < NumBlocks * BlockSize
               PROVE  from'[k] = Plain(k)
    <3>1. request.in_place => from' = to'
      BY <1>8, <1>9
    <3>2. Mode = "CBC" => \A k \in 0 .. MaxBytes - 1 :
                            k < NumBlocks * BlockSize => padded'[k] = Plain(k)
      BY <1>1 DEF Inv, Source
    <3> QED  BY <1>1, <1>8, <1>9, <3>1, <3>2 DEF Source
  <2> DEFINE p == n * BlockSize
  <2>1. p <= k
    <3>1. p \in Nat /\ p + BlockSize <= k
      BY <1>3
    <3> HIDE DEF p
    <3> QED  BY <3>1, Sizes
  <2>2. from[k] = Plain(k) /\ (request.in_place => from = to)
    BY <1>1, <2>1 DEF Inv, Source
  <2>3. from'[k] = from[k]
    BY <1>8, <1>9, <2>2
  <2> QED  BY <2>2, <2>3
<1>15. Opening'
  BY <1>1, <1>9 DEF Opening
<1>16. QED
  BY <1>10, <1>13, <1>14, <1>15 DEF Inv

LEMMA DecryptBlockInv == ASSUME Inv, DecryptBlock PROVE Inv'
<1> DEFINE b == BlockAt(from)
           p == decrypt[b]
           t == IF Mode = "CBC" THEN BlockXor(p, chain) ELSE p
<1>1. /\ UNCHANGED <<request, side, pc, in_len, room, padded, context, retried,
                     sent, length, status>>
      /\ pc = "blocks" /\ ~ Encrypting /\ n < NumBlocks
      /\ Write(t) /\ chain' = b
  BY DEF DecryptBlock
<1>2. /\ n \in Nat /\ NumBlocks \in Nat /\ chain \in Block /\ request \in Requests
      /\ Fits /\ Reads /\ in_len \in 0 .. MaxBytes /\ TextLen \in 0 .. MaxBytes
  BY <1>1, InvTypes DEF Inv, Control, Fits
<1>3. /\ n * BlockSize \in Nat
      /\ (n + 1) * BlockSize = n * BlockSize + BlockSize
      /\ (n + 1) * BlockSize <= NumBlocks * BlockSize
      /\ (n + 1) * BlockSize \in 0 .. MaxBytes
  BY <1>1, <1>2, NextBlockFits
<1>4. /\ sent = Sealed * BlockSize /\ IsSealed(from, Sealed) /\ Written(from, in_len)
      /\ Written(to, room) /\ chain = Before(from, n)
      /\ in_len = sent => \A i \in Nat : i < n => BlockOf(to, i) = PlainBlock(i)
      /\ (sent >= TextLen <=> ~ Dropped)
  BY <1>1, <1>2 DEF Inv, Opening
<1>5. b = BlockOf(from, n)
  BY DEF BlockAt, BlockOf
<1>6. b \in Block
  <2>1. /\ NumBlocks * BlockSize = in_len - (in_len % BlockSize)
        /\ in_len % BlockSize \in 0 .. BlockSize - 1 /\ in_len \in Nat
    BY <1>1, <1>2, Sizes, NumBlocksIs
  <2> DEFINE top == NumBlocks * BlockSize
             next == (n + 1) * BlockSize
  <2>2. next <= top /\ next \in 0 .. MaxBytes /\ top = in_len - (in_len % BlockSize)
    BY <1>3, <2>1
  <2> HIDE DEF top, next
  <2>3. next <= in_len
    BY <2>1, <2>2, Sizes
  <2> QED  BY <1>2, <1>4, <1>5, <2>3, BlockIn DEF next
<1>7. p \in Block
  BY <1>6, Ciphers
<1> HIDE DEF p
<1>8. t \in Block
  BY <1>2, <1>7, XorBack
<1>9. in_len = sent => t = PlainBlock(n)
  <2> SUFFICES ASSUME in_len = sent PROVE t = PlainBlock(n)
    OBVIOUS
  <2>1. Sealed \in Nat
    BY <1>2, Sizes, SealedIs
  <2>2. NumBlocks = Sealed
    <3>1. (Sealed * BlockSize + 0) \div BlockSize = Sealed
      BY <2>1, Sizes, Quotient
    <3>2. Sealed * BlockSize + 0 = Sealed * BlockSize
      BY <2>1, Size, Product
    <3> QED  BY <1>1, <1>4, <3>1, <3>2 DEF NumBlocks
  <2>3. PlainBlock(n) = IF Mode = "CBC" THEN BlockXor(decrypt[BlockOf(from, n)],
                                                      Before(from, n))
                        ELSE decrypt[BlockOf(from, n)]
    BY <1>1, <1>2, <1>4, <2>1, <2>2, Unseal
  <2> QED  BY <1>4, <1>5, <2>3 DEF p
<1> HIDE DEF b, t
<1>10. /\ from' = IF InPlace THEN to' ELSE from
       /\ n' = n + 1 /\ BlockOf(to', n) = t
       /\ \A h \in Nat : h < n => BlockOf(to', h) = BlockOf(to, h)
       /\ \A bound : Written(to, bound) => Written(to', bound)
  BY <1>1, <1>8, WriteStep
<1>11. from' = from
  BY <1>1, <1>10 DEF InPlace
<1>12. TypeOK' /\ Control'
  BY <1>1, <1>6, <1>8, WriteControl
<1>13. /\ (Encrypting <=> Encrypting') /\ (Reads <=> Reads')
       /\ TextLen' = TextLen /\ Sealed' = Sealed /\ (Dropped <=> Dropped')
       /\ \A i : PlainBlock(i)' = PlainBlock(i)
  BY <1>1, SameRequest, SameCall
<1>14. Source' /\ Sealing'
  BY <1>1, <1>13 DEF Source, Sealing
<1>15. Opening'
  <2>1. IsSealed(from, Sealed)' /\ Written(from, in_len)'
    BY <1>1, <1>4, <1>11, SealedFrom DEF Written
  <2>2. Written(to, room)'
    BY <1>1, <1>4, <1>10 DEF Written
  <2>3. (chain = Before(from, n))'
    <3>1. n + 1 # 0 /\ (n + 1) - 1 = n
      BY <1>2
    <3> QED  BY <1>1, <1>5, <1>10, <1>11, <3>1 DEF Before, BlockOf
  <2>4. ASSUME in_len = sent, NEW i \in Nat, i < n'
        PROVE  BlockOf(to', i) = PlainBlock(i)
    <3>1. i < n \/ i = n
      BY <1>2, <1>10, <2>4
    <3> QED  BY <1>4, <1>9, <1>10, <2>4, <3>1
  <2>5. (in_len = sent => \A i \in Nat : i < n => BlockOf(to, i) = PlainBlock(i))'
    BY <1>1, <1>13, <2>4
  <2> QED  BY <1>1, <1>4, <1>13, <2>1, <2>2, <2>3, <2>5 DEF Opening
<1>16. QED
  BY <1>12, <1>14, <1>15 DEF Inv

LEMMA ReturnInv == ASSUME Inv, Return PROVE Inv'
<1>1. /\ UNCHANGED <<request, side, from, to, in_len, room, padded, n, chain,
                     retried, reach, sent, status>>
      /\ pc = "blocks" /\ n = NumBlocks /\ pc' = "returned"
      /\ context' \in {"zero", "keys"}
      /\ \E pad \in PadBytes : length' = room \/ length' = RemovePadding(pad)
  BY DEF Return, Cleanup
<1>2. /\ Refusal' = Refusal /\ NumBlocks' = NumBlocks
      /\ Mode' = Mode /\ (Encrypting <=> Encrypting') /\ (Reads <=> Reads')
      /\ TextLen' = TextLen /\ (TooSmall <=> TooSmall')
      /\ (PaddedOverflows <=> PaddedOverflows')
  BY <1>1, SameRequest, SameCall
<1>3. room \in 0 .. MaxBytes /\ to \in Memory
  BY InvTypes
<1>4. length' \in (0 - BlockSize) .. MaxBytes
  <2>1. PICK pad \in PadBytes : length' = room \/ length' = RemovePadding(pad)
    BY <1>1
  <2>2. pad \in Int
    <3>1. CASE room = 0
      BY <2>1, <3>1, Sizes DEF PadBytes, Byte
    <3>2. CASE room # 0
      <4>1. room - 1 \in 0 .. MaxBytes - 1
        BY <1>3, <3>2, Sizes
      <4>2. to[room - 1] \in Byte \cup {Old}
        BY <1>3, <4>1 DEF Memory
      <4> QED  BY <2>1, <3>2, <4>2, Sizes DEF PadBytes, Byte, Old
    <3> QED  BY <3>1, <3>2
  <2> QED  BY <1>3, <2>1, <2>2, Sizes DEF RemovePadding
<1>5. TypeOK'
  BY <1>1, <1>2, <1>4 DEF Inv, TypeOK
<1>6. Control'
  BY <1>1, <1>2 DEF Inv, Control, Okay
<1>7. QED
  BY <1>1, <1>5, <1>6, SourceKept, SealingKept, OpeningKept DEF Inv

LEMMA CallDecryptInv == ASSUME Inv, CallDecrypt PROVE Inv'
<1>1. /\ UNCHANGED <<request, padded, chain, length, status>>
      /\ pc = "returned" /\ side = "encrypt" /\ status = "CRYPT_OKAY"
      /\ side' = "decrypt" /\ pc' = "gate"
      /\ in_len' \in {reach, room} /\ room' \in Rooms
      /\ from' = to /\ to' = [k \in 0 .. MaxBytes - 1 |-> Old]
      /\ context' = "zero" /\ retried' = FALSE
      /\ n' = 0 /\ reach' = 0 /\ sent' = reach
  BY DEF CallDecrypt, Encrypting
<1>2. Returned("encrypt") /\ Encrypting /\ Okay
  BY <1>1 DEF Returned, Encrypting, Okay
<1>3. /\ reach >= TextLen <=> ~ Dropped
      /\ Reads => n = Sealed /\ reach = Sealed * BlockSize
  BY <1>2, SealedEnough DEF Inv
<1>4. /\ Mode' = Mode /\ (Reads <=> Reads') /\ TextLen' = TextLen
      /\ Sealed' = Sealed /\ (Dropped <=> Dropped')
  BY <1>1, SameRequest
<1>5. ~ Encrypting' /\ ~ Okay' /\ pc' # "blocks"
  BY <1>1 DEF Encrypting, Okay
<1>6. TypeOK'
  <2>1. room' \in 0 .. MaxBytes
    <3>1. Rooms \subseteq 0 .. MaxBytes
      BY ONLY BlockModesAssumption, Zenon DEF BlockModesAssumption
    <3> QED  BY ONLY <1>1, <3>1
  <2>2. reach \in 0 .. MaxBytes /\ room \in 0 .. MaxBytes
    BY DEF Inv, TypeOK
  <2>3. in_len' \in 0 .. MaxBytes /\ sent' \in 0 .. MaxBytes
    BY ONLY <1>1, <2>2
  <2>4. n' \in 0 .. NumBlocks'
    <3>1. NumBlocks' = in_len' \div BlockSize
      BY <1>5 DEF NumBlocks
    <3> DEFINE len == in_len'
    <3>3. len \in Nat
      BY <2>3, Sizes
    <3> HIDE DEF len
    <3>4. len \div BlockSize \in Nat
      BY <3>3, WholeBlocksOf
    <3>2. NumBlocks' \in Nat
      BY ONLY <3>1, <3>4 DEF len
    <3> QED  BY ONLY <1>1, <3>2
  <2>5. to' \in Memory /\ reach' \in 0 .. MaxBytes
    BY <1>1, Sizes DEF Memory
  <2>6. to \in Memory /\ padded \in Memory /\ chain \in Block
    BY InvTypes
  <2> QED  BY <1>1, <2>1, <2>3, <2>4, <2>5, <2>6 DEF Inv, TypeOK
<1>7. Control'
  BY <1>1, <1>2, <1>4, <1>5 DEF Inv, Control
<1>8. Source' /\ Sealing'
  BY <1>5 DEF Source, Sealing
<1>9. Opening'
  <2>1. (sent >= TextLen <=> ~ Dropped)'
    BY <1>1, <1>3, <1>4
  <2>2. ASSUME Reads
        PROVE  (/\ sent = Sealed * BlockSize
                /\ IsSealed(from, Sealed)
                /\ Written(from, in_len))'
    <3>1. /\ IsSealed(to, n) /\ Written(to, room) /\ Written(to, n * BlockSize)
          /\ n = Sealed /\ reach = Sealed * BlockSize
      BY <1>2, <1>3, <2>2 DEF Inv, Sealing
    <3>2. IsSealed(from', Sealed)
      BY <1>1, <3>1
    <3>3. Written(from', in_len')
      BY <1>1, <3>1
    <3> QED  BY <1>1, <1>4, <3>1, <3>2, <3>3, SealedFrom DEF Written
  <2> QED  BY <1>4, <1>5, <2>1, <2>2 DEF Opening
<1>10. QED
  BY <1>6, <1>7, <1>8, <1>9 DEF Inv

LEMMA NextInv == Inv /\ [Next]_vars => Inv'
BY GateInv, LeaveEarlyInv, OutOfMemoryInv, BeginInv, EncryptBlockInv,
   DecryptBlockInv, ReturnInv, CallDecryptInv, OverflowInv, StutterInv
   DEF Next, Done, Undefined

-----------------------------------------------------------------------------
(***************************************************************************)
(* The theorems.                                                           *)
(***************************************************************************)

THEOREM Invariance == Spec => []Inv
BY InitInv, NextInv, PTL DEF Spec

\* For every block cipher and every size of text and buffer: the loop ends with
\* its last block, and the writes that leave the stated buffer stay within the
\* room that the last block needs.
THEOREM TypeCorrect == Spec => []TypeOK
<1>1. Inv => TypeOK
  BY DEF Inv
<1>2. QED
  BY <1>1, Invariance, PTL

\* CRYPT_OKAY from an encryption means that all of the text was read and
\* written, exactly but for the calls that Dropped names.
THEOREM Encrypted == Spec => []OkayMeansEncrypted
<1>1. Inv => OkayMeansEncrypted
  BY SealedEnough DEF Inv, OkayMeansEncrypted, TextLen
<1>2. QED
  BY <1>1, Invariance, PTL

\* Where an int overflows: a text of CBC that fills all of an int with its
\* padding, or a text of ECB with a block behind it.
LEMMA OverflowIs ==
  ASSUME Inv, pc = "undefined"
  PROVE  \/ Family = "AES" /\ Mode = "ECB" /\ in_len > IntMax + BlockSize
         \/ /\ Encrypting /\ Mode = "CBC" /\ in_len + BlockSize > IntMax
            /\ Family = "AES" =>
                 room > in_len \/ in_len + BlockSize > (2 * IntMax) + 1
<1>1. /\ in_len \in Nat /\ room \in Nat /\ n \in Nat /\ NumBlocks \in Nat
      /\ BlockSize \in Nat /\ BlockSize > 0 /\ IntMax \in Nat
      /\ Refusal = "CRYPT_OKAY"
      /\ PaddedOverflows \/ IndexOverflows
  BY InvTypes, Sizes, IntSizes DEF Inv, Control
<1> DEFINE top == NumBlocks * BlockSize
           r == in_len % BlockSize
<1>2. /\ top = IF Encrypting /\ Mode = "CBC" /\ (Family # "AES" \/ Partial(in_len))
                 THEN in_len - r + BlockSize ELSE in_len - r
      /\ r \in 0 .. BlockSize - 1
  BY <1>1, NumBlocksIs
<1> HIDE DEF r
<1>3. CASE PaddedOverflows
  <2>1. Encrypting /\ Mode = "CBC" /\ top > IntMax
    BY <1>3 DEF PaddedOverflows
  <2> HIDE DEF top
  <2>2. in_len + BlockSize > IntMax
    BY <1>1, <1>2, <2>1
  <2>3. ASSUME Family = "AES", in_len + BlockSize <= (2 * IntMax) + 1
        PROVE  room > in_len
    <3>1. /\ in_len + BlockSize - r \in Nat
          /\ in_len + BlockSize - r < 2 * (IntMax + 1)
      BY <1>1, <1>2, <2>3
    <3>2. AesRefusal = "CRYPT_OKAY"
      BY <1>1, <2>3 DEF Refusal
    <3>3. ~ (room < Unsigned(in_len + BlockSize - r))
      BY <2>1, <3>2 DEF AesRefusal, r
    <3>4. room >= in_len + BlockSize - r
      BY <1>1, <3>1, <3>3, NoWrap
    <3> QED  BY <1>1, <1>2, <3>4
  <2> QED  BY <1>1, <2>1, <2>2, <2>3
<1>4. CASE IndexOverflows
  <2>1. Family = "AES" /\ Mode = "ECB" /\ n < NumBlocks /\ n * BlockSize > IntMax
    BY <1>4 DEF IndexOverflows
  <2>2. n + 1 \in Nat /\ n + 1 <= NumBlocks
    BY <1>1, <2>1
  <2>3. /\ n * BlockSize \in Nat /\ top \in Nat
        /\ (n + 1) * BlockSize = n * BlockSize + BlockSize
        /\ (n + 1) * BlockSize <= top
    BY <1>1, <2>2, Product
  <2> DEFINE at == n * BlockSize
  <2>4. at \in Nat /\ at > IntMax /\ at + BlockSize <= top
    BY <2>1, <2>3
  <2> HIDE DEF at, top
  <2>5. in_len > IntMax + BlockSize
    BY <1>1, <1>2, <2>1, <2>3, <2>4
  <2> QED  BY <2>1, <2>5
<1>5. QED
  BY <1>1, <1>3, <1>4

\* Which calls write behind their output, and how far, and which overflow.
THEOREM Stays == Spec => []StaysInBuffer
<1>1. Inv => StaysInBuffer
  <2> SUFFICES ASSUME Inv, pc # "undefined", reach > room
               PROVE  \/ Encrypting /\ Family = "AES" /\ Mode = "ECB" /\ ~ NoPad
                      \/ /\ ~ Encrypting /\ Mode = "CBC" /\ room < in_len
                         /\ Family = "AES" \/ in_len - room <= BlockSize
    BY OverflowIs DEF StaysInBuffer
  <2>1. room \in Nat /\ n \in 0 .. NumBlocks /\ NumBlocks \in Nat /\ n \in Nat
    BY InvTypes, Sizes DEF Inv, TypeOK
  <2>2. (pc = "blocks" \/ (Okay /\ Reads)) /\ reach = n * BlockSize
    BY <2>1 DEF Inv, Control
  <2>3. Fits
    BY <2>2, InvTypes DEF Inv, Control, Fits
  <2>4. n * BlockSize <= NumBlocks * BlockSize /\ n * BlockSize \in Nat
        /\ NumBlocks * BlockSize \in Nat
    BY <2>1, Size, Product
  <2> DEFINE at == n * BlockSize
             top == NumBlocks * BlockSize
  <2>5. at <= top /\ at \in Nat /\ top \in Nat /\ at > room
    BY <2>2, <2>4
  <2>6. \/ top <= room
        \/ Encrypting /\ Family = "AES" /\ Mode = "ECB" /\ ~ NoPad
        \/ /\ ~ Encrypting /\ Mode = "CBC" /\ room < in_len
           /\ Family = "AES" \/ in_len - room <= BlockSize
    BY <2>3, LoopStays
  <2> HIDE DEF at, top
  <2>7. ~ (top <= room)
    BY <2>1, <2>5
  <2> QED  BY <2>6, <2>7
<1>2. QED
  BY <1>1, Invariance, PTL

\* A call that returns CRYPT_OKAY leaves no subkeys on its stack, unless
\* CRYPT_CHECK_OKAY made it twice.
THEOREM Cleared == Spec => []KeysCleared
<1>1. Init => KeysCleared
  BY DEF Init, KeysCleared
<1>2. Inv /\ KeysCleared /\ [Next]_vars => KeysCleared'
  <2> SUFFICES ASSUME Inv, KeysCleared, [Next]_vars, pc' = "returned",
                      status' = "CRYPT_OKAY"
               PROVE  context' = "keys" <=> retried'
    BY DEF KeysCleared
  <2>1. CASE Gate
    BY <2>1 DEF Gate, Inv, Control
  <2>2. CASE LeaveEarly
    <3>1. ~ TooSmall /\ Mode = "ECB" /\ context' = "zero" /\ retried' = retried
          /\ pc = "begin"
      BY <2>2 DEF LeaveEarly
    <3> QED  BY <3>1 DEF Inv, Control
  <2>3. CASE OutOfMemory
    BY <2>3 DEF OutOfMemory, MayBegin
  <2>4. CASE Begin
    BY <2>4 DEF Begin
  <2>5. CASE EncryptBlock \/ DecryptBlock
    BY <2>5 DEF EncryptBlock, DecryptBlock
  <2>6. CASE Return
    BY <2>6 DEF Return, Cleanup
  <2>7. CASE CallDecrypt
    BY <2>7 DEF CallDecrypt
  <2>8. CASE UNCHANGED vars
    BY <2>8 DEF vars, KeysCleared
  <2>9. CASE Overflow
    BY <2>9 DEF Overflow
  <2> QED
    BY <2>1, <2>2, <2>3, <2>4, <2>5, <2>6, <2>7, <2>8, <2>9
       DEF Next, Done, Undefined
<1>3. QED
  BY <1>1, <1>2, Invariance, PTL DEF Spec

\* The bytes of the whole blocks that decryption wrote.
LEMMA OpenedBytes ==
  ASSUME Inv, ~ Encrypting, Reads, pc = "blocks" \/ Okay, in_len = sent,
         pc = "blocks" => n = NumBlocks
  PROVE  /\ Sealed \in Nat /\ sent = Sealed * BlockSize
         /\ \A k \in 0 .. MaxBytes - 1 : k < sent => to[k] = Plain(k)
<1>1. /\ sent = Sealed * BlockSize /\ n = NumBlocks
      /\ \A i \in Nat : i < n => BlockOf(to, i) = PlainBlock(i)
  BY DEF Inv, Opening, Control
<1>2. Sealed \in Nat
  BY InvTypes, Sizes, SealedIs
<1>3. NumBlocks = Sealed
  <2>1. (Sealed * BlockSize + 0) \div BlockSize = Sealed
    BY <1>2, Sizes, Quotient
  <2>2. Sealed * BlockSize + 0 = Sealed * BlockSize
    BY <1>2, Size, Product
  <2> QED  BY <1>1, <2>1, <2>2 DEF NumBlocks
<1>4. ASSUME NEW k \in 0 .. MaxBytes - 1, k < Sealed * BlockSize
      PROVE  to[k] = Plain(k)
  <2> DEFINE i == k \div BlockSize
             p == i * BlockSize
             j == k - p + 1
  <2>1. k \in Nat
    BY Sizes
  <2>2. i \in Nat /\ p \in Nat /\ p <= k /\ j \in 1 .. BlockSize
    BY <2>1, BlockWith
  <2>3. i < Sealed
    <3> SUFFICES ASSUME Sealed <= i PROVE FALSE
      BY <1>2, <2>2
    <3>1. Sealed * BlockSize <= p /\ Sealed * BlockSize \in Nat
      BY <1>2, <2>2, Size, Product
    <3> DEFINE top == Sealed * BlockSize
    <3>2. top <= p /\ top \in Nat /\ k < top
      BY <1>4, <3>1
    <3> HIDE DEF top, i, p
    <3> QED  BY <2>1, <2>2, <3>2
  <2>4. BlockOf(to, i) = PlainBlock(i)
    BY <1>1, <1>3, <2>2, <2>3
  <2> HIDE DEF i, j
  <2>5. BlockOf(to, i)[j] = to[p + j - 1] /\ PlainBlock(i)[j] = Plain(p + j - 1)
    BY <2>2 DEF BlockOf, PlainBlock
  <2> HIDE DEF p
  <2>6. p + j - 1 = k
    BY <2>1, <2>2 DEF j
  <2> QED  BY <2>4, <2>5, <2>6
<1>5. QED
  BY <1>1, <1>2, <1>4

\* Whatever was encrypted comes back when all of it is decrypted, wherever malloc
\* failed and however short the buffers are.
THEOREM Opens == Spec => []OpensToText
<1>1. Inv => OpensToText
  <2> SUFFICES ASSUME Inv, Returned("decrypt"), in_len = sent, ~ Dropped,
                      NEW k \in 0 .. TextLen - 1
               PROVE  to[k] = IF request.in_place /\ k < request.room THEN 0
                              ELSE request.text[k + 1]
    BY DEF OpensToText, TextLen
  <2>1. ~ Encrypting /\ Okay
    BY DEF Returned, Encrypting, Okay
  <2>2. TextLen \in 0 .. MaxBytes /\ TextLen > 0 /\ TextLen = Len(request.text)
    BY InvTypes, Sizes DEF TextLen
  <2>3. Reads
    <3>1. ~ (TextLen > 0 /\ Mode \notin {"ECB", "CBC"})
          /\ ~ (TextLen > 0 /\ Mode = "ECB" /\ ~ NoPad /\ Family # "AES")
      BY <2>2 DEF Dropped
    <3> QED  BY <2>2, <3>1 DEF Reads
  <2>4. \A h \in 0 .. MaxBytes - 1 : h < sent => to[h] = Plain(h)
    BY <2>1, <2>3, OpenedBytes DEF Okay
  <2>5. sent >= TextLen /\ sent \in 0 .. MaxBytes
    BY <2>1 DEF Inv, Opening, TypeOK
  <2>6. k \in 0 .. MaxBytes - 1 /\ k < sent /\ k < TextLen
    BY <2>2, <2>5, Sizes
  <2> QED  BY <2>4, <2>6 DEF Plain
<1>2. QED
  BY <1>1, Invariance, PTL

\* The padding that CBC decryption takes off is the padding that encryption put
\* on, except for texts of whole blocks that AES does not pad and that end like
\* a padding.
THEOREM Finds == Spec => []FindsLength
<1>1. Init => FindsLength
  BY DEF Init, FindsLength, Returned
<1>2. Inv /\ FindsLength /\ [Next]_vars => FindsLength'
  <2> SUFFICES ASSUME Inv, FindsLength, [Next]_vars, Returned("decrypt")',
                      Mode' = "CBC", in_len' = sent', room' = in_len', room' > 0,
                      ~ request'.in_place
               PROVE  (LET len == Len(request.text)
                           ends == Family = "AES" /\ ~Partial(len)
                                     /\ request.text[len] \in 1 .. BlockSize
                       IN  length = len <=> ~ ends)'
    BY DEF FindsLength
  <2>1. CASE Return
    <3>1. /\ UNCHANGED <<request, side, in_len, room, sent>>
          /\ pc = "blocks" /\ n = NumBlocks
          /\ \E pad \in PadBytes :
               length' = IF Mode = "CBC" /\ ~ Encrypting THEN RemovePadding(pad)
                         ELSE room
      BY <2>1 DEF Return
    <3>2. ~ Encrypting /\ Mode = "CBC" /\ in_len = sent /\ room = in_len /\ room > 0
          /\ ~ request.in_place
      BY <3>1, SameRequest DEF Returned, Encrypting
    <3>3. Reads /\ room \in 0 .. MaxBytes /\ TextLen \in 0 .. MaxBytes
          /\ request \in Requests
      BY <3>2, InvTypes DEF Reads
    <3>4. /\ Sealed \in Nat /\ sent = Sealed * BlockSize
          /\ \A k \in 0 .. MaxBytes - 1 : k < sent => to[k] = Plain(k)
      BY <3>1, <3>2, <3>3, OpenedBytes
    <3>5. to[room - 1] = Plain(room - 1)
      <4>1. room - 1 \in 0 .. MaxBytes - 1 /\ room - 1 < sent
        BY <3>2, <3>3, Sizes
      <4> QED  BY <3>4, <4>1
    <3>6. length' = RemovePadding(Plain(room - 1))
      <4>1. PICK pad \in PadBytes : length' = RemovePadding(pad)
        BY <3>1, <3>2
      <4>2. pad = to[room - 1]
        BY <3>2, <3>3, <4>1, Sizes DEF PadBytes
      <4> QED  BY <3>5, <4>1, <4>2
    <3> DEFINE r == TextLen % BlockSize
    <3>7. /\ room = IF Family # "AES" \/ r # 0
                      THEN TextLen - r + BlockSize ELSE TextLen - r
          /\ r \in 0 .. BlockSize - 1
      BY <3>2, <3>3, <3>4, Sizes, SealedIs DEF Partial
    <3> HIDE DEF r
    <3>8. Partial(TextLen) <=> r # 0
      BY DEF Partial, r
    <3>9. CASE Family # "AES" \/ r # 0
      <4>1. ~ (room - 1 < TextLen)
        BY <3>3, <3>7, <3>9, Sizes
      <4>2. Plain(room - 1) = BlockSize - r
        BY <4>1 DEF Plain, r
      <4>3. length' = TextLen
        BY <3>3, <3>6, <3>7, <3>9, <4>2, Sizes DEF RemovePadding
      <4> QED  BY <3>1, <3>8, <3>9, <4>3, SameRequest DEF TextLen, Partial, Family
    <3>10. CASE Family = "AES" /\ r = 0
      <4>1. room = TextLen
        BY <3>3, <3>7, <3>10, Sizes
      <4>2. Plain(room - 1) = request.text[TextLen]
        <5>1. room - 1 < TextLen /\ (room - 1) + 1 = TextLen
          BY <3>3, <4>1, Sizes
        <5> QED  BY <3>2, <5>1 DEF Plain
      <4>3. request.text[TextLen] \in Int
        <5>1. TextLen \in 1 .. TextLen
          BY <3>2, <3>3, <4>1, Sizes
        <5>2. request.text \in Seq(Byte)
          BY <3>3, RequestFields
        <5>3. request.text[TextLen] \in Byte
          BY <5>1, <5>2 DEF TextLen
        <5> QED  BY <5>3, Sizes DEF Byte
      <4>4. length' = TextLen <=> request.text[TextLen] \notin 1 .. BlockSize
        BY <3>3, <3>6, <4>1, <4>2, <4>3, Sizes DEF RemovePadding
      <4> QED  BY <3>1, <3>8, <3>10, <4>4, SameRequest DEF TextLen, Partial, Family
    <3> QED  BY <3>9, <3>10
  <2>2. CASE UNCHANGED vars
    <3>1. UNCHANGED <<request, side, pc, status, in_len, room, sent, length>>
      BY <2>2 DEF vars
    <3> QED  BY <3>1 DEF FindsLength, Returned, Mode, Family, Partial
  <2>3. CASE Gate
    <3>1. request' = request /\ pc' = "returned" /\ status' = Refusal
          /\ status' = "CRYPT_OKAY"
      BY <2>3 DEF Gate, Returned
    <3>2. Mode \notin {"ECB", "CBC"}
      BY <2>3, <3>1 DEF Gate
    <3> QED  BY <3>1, <3>2, SameRequest
  <2>4. CASE LeaveEarly
    <3>1. request' = request /\ Mode = "ECB"
      BY <2>4 DEF LeaveEarly, Returned
    <3> QED  BY <3>1, SameRequest
  <2>5. CASE \/ OutOfMemory \/ Begin \/ EncryptBlock \/ DecryptBlock
             \/ CallDecrypt \/ Overflow
    BY <2>5 DEF OutOfMemory, MayBegin, Begin, EncryptBlock, DecryptBlock,
                CallDecrypt, Overflow, Returned
  <2> QED
    BY <2>1, <2>2, <2>3, <2>4, <2>5 DEF Next, Done, Undefined
<1>3. QED
  BY <1>1, <1>2, Invariance, PTL DEF Spec
=============================================================================
