------------------------- MODULE StreamHash_proofs -------------------------
(***************************************************************************)
(* Proofs about StreamHash, for every block length, every set of chunk     *)
(* lengths and every family.                                               *)
(***************************************************************************)
EXTENDS StreamHash, TLAPS

(***************************************************************************)
(* Arithmetic of blocks and bytes.                                         *)
(***************************************************************************)

\* A quotient and a remainder are determined by the number they make: what
\* lets `bit_count >> 3' and its low bits be read back as blocks and a tail.
LEMMA Quotient ==
  ASSUME NEW q \in Nat, NEW r \in Nat, NEW b \in Nat, r < b
  PROVE  /\ (q * b + r) % b = r
         /\ (q * b + r) \div b = q
OBVIOUS

\* Division with remainder.
LEMMA Division ==
  ASSUME NEW n \in Nat, NEW b \in Nat, b > 0
  PROVE  /\ n % b \in 0 .. b - 1
         /\ n \div b \in Nat
         /\ n = (n \div b) * b + (n % b)
OBVIOUS

\* bit_count >> 3 gives the number of bytes back.
LEMMA BytesOfBits ==
  ASSUME NEW n \in Nat
  PROVE  (8 * n) \div 8 = n
OBVIOUS

(***************************************************************************)
(* Types of the buffer operations.                                         *)
(***************************************************************************)

LEMMA ByteTypes ==
  /\ One \in Byte /\ Zero \in Byte /\ Junk \in Byte
  /\ \A i \in Nat : MsgByte(i) \in Byte
  /\ \A c, j \in Nat : LenByte(c, j) \in Byte
BY DEF Byte, One, Zero, Junk, MsgByte, LenByte

\* A memcpy that ends inside the buffer keeps it a buffer.
LEMMA CopyType ==
  ASSUME NEW buf \in [Cells -> Byte], NEW at \in Nat, NEW n \in Nat,
         NEW from \in Nat, NEW input, at + n <= BlockLen,
         \A i \in from + 1 .. from + n : input[i] \in Byte
  PROVE  Copy(buf, at, input, from, n) \in [Cells -> Byte]
<1>1. DOMAIN buf \cup at .. at + n - 1 = Cells
  BY BlockAssumption DEF Cells
<1>2. ASSUME NEW j \in at .. at + n - 1
      PROVE  from + 1 + j - at \in from + 1 .. from + n
  BY <1>2
<1>3. ASSUME NEW j \in at .. at + n - 1
      PROVE  input[from + 1 + j - at] \in Byte
  BY <1>2, <1>3
<1>4. QED
  BY <1>1, <1>3 DEF Copy

\* A memset that ends inside the buffer keeps it a buffer.
LEMMA ZeroFillType ==
  ASSUME NEW buf \in [Cells -> Byte], NEW at \in Nat, NEW upto \in Nat,
         upto <= BlockLen
  PROVE  ZeroFill(buf, at, upto) \in [Cells -> Byte]
<1>1. DOMAIN buf \cup at .. upto - 1 = Cells
  BY BlockAssumption DEF Cells
<1>2. QED
  BY <1>1, ByteTypes DEF ZeroFill

LEMMA PutLengthType ==
  ASSUME NEW buf \in [Cells -> Byte], NEW count \in Nat
  PROVE  PutLength(buf, count) \in [Cells -> Byte]
<1>1. DOMAIN buf \cup LengthAt .. LengthAt + 7 = Cells
  BY BlockAssumption DEF Cells, LengthAt
<1>2. \A j \in LengthAt .. LengthAt + 7 : LenByte(count, j - LengthAt) \in Byte
  BY ByteTypes, BlockAssumption DEF LengthAt
<1>3. QED
  BY <1>1, <1>2 DEF PutLength

Context(ivs) ==
  [iv : ivs, blocks : Seq([Cells -> Byte]),
   bit_count : 0 .. CountMod - 1, buffer : [Cells -> Byte]]

LEMMA IndexType ==
  ASSUME NEW ivs, NEW c \in Context(ivs)
  PROVE  Index(c) \in Cells /\ Index(c) \in Nat /\ Index(c) < BlockLen
BY BlockAssumption, WidthAssumption DEF Context, Index, Cells

LEMMA OpenedType ==
  ASSUME NEW ivs, NEW iv \in ivs, NEW buf \in [Cells -> Byte]
  PROVE  Opened(iv, buf) \in Context(ivs)
BY WidthAssumption DEF Opened, Context

(***************************************************************************)
(* What update does, case by case.                                         *)
(***************************************************************************)

Input(start, n) == [i \in 1 .. n |-> MsgByte(start + i)]

LEMMA InputProps ==
  ASSUME NEW start \in Nat, NEW n \in Nat
  PROVE  /\ Input(start, n) \in Seq(Byte)
         /\ Len(Input(start, n)) = n
         /\ \A i \in 1 .. n : Input(start, n)[i] = MsgByte(start + i)
         /\ \A i \in 1 .. n : Input(start, n)[i] \in Byte
<1>1. \A i \in 1 .. n : MsgByte(start + i) \in Byte
  BY ByteTypes
<1>2. QED
  BY <1>1 DEF Input

\* An update that stays inside the block only writes the buffer, at its start.
LEMMA UpdatedShort ==
  ASSUME NEW ivs, NEW c \in Context(ivs), NEW start \in Nat, NEW n \in Nat,
         n < BlockLen - Index(c)
  PROVE  LET u == Updated(c, Input(start, n)) IN
         /\ u \in Context(ivs)
         /\ u.iv = c.iv
         /\ u.bit_count = (c.bit_count + ((8 * n) % UIntMod)) % CountMod
         /\ u.blocks = c.blocks
         /\ \A j \in 0 .. n - 1 : u.buffer[j] = MsgByte(start + 1 + j)
<1> DEFINE input == Input(start, n)
           u == Updated(c, input)
<1>1. /\ Index(c) \in Nat /\ Index(c) < BlockLen
      /\ Len(input) = n /\ ~ (n >= BlockLen - Index(c))
  <2>1. Index(c) \in Nat /\ Index(c) < BlockLen
    BY IndexType
  <2>2. Len(input) = n
    BY InputProps
  <2>3. QED
    BY <2>1, <2>2, BlockAssumption
<1>2. u = [c EXCEPT !.bit_count = (@ + ((8 * n) % UIntMod)) % CountMod,
                    !.blocks = @,
                    !.buffer = Copy(c.buffer, 0, input, 0, n - 0)]
  BY <1>1 DEF Updated
<1>3. Copy(c.buffer, 0, input, 0, n - 0) \in [Cells -> Byte]
  <2>1. c.buffer \in [Cells -> Byte] /\ 0 + (n - 0) <= BlockLen
    BY <1>1, BlockAssumption DEF Context
  <2>2. \A i \in 0 + 1 .. 0 + (n - 0) : input[i] \in Byte
    BY InputProps
  <2>3. QED
    BY <2>1, <2>2, CopyType
<1>4. \A j \in 0 .. n - 1 :
         Copy(c.buffer, 0, input, 0, n - 0)[j] = MsgByte(start + 1 + j)
  <2>1. SUFFICES ASSUME NEW j \in 0 .. n - 1
                 PROVE  Copy(c.buffer, 0, input, 0, n - 0)[j]
                          = MsgByte(start + 1 + j)
    OBVIOUS
  <2>2. Copy(c.buffer, 0, input, 0, n - 0)[j] = input[0 + 1 + j - 0]
    BY DEF Copy
  <2>3. input[j + 1] = MsgByte(start + (j + 1))
    BY InputProps
  <2>4. QED
    BY <2>2, <2>3
<1>5. (c.bit_count + ((8 * n) % UIntMod)) % CountMod \in 0 .. CountMod - 1
  BY WidthAssumption DEF Context
<1>6. QED
  BY <1>2, <1>3, <1>4, <1>5 DEF Context

\* The blocks an update appends when it reaches the end of the block: the
\* filled buffer, then whole blocks of the input.
Appended(c, input, whole) ==
  [k \in 1 .. whole + 1 |->
     IF k = 1 THEN Copy(c.buffer, Index(c), input, 0, BlockLen - Index(c))
     ELSE BlockAt(input, (BlockLen - Index(c)) + (k - 2) * BlockLen)]

LEMMA Product ==
  ASSUME NEW a \in Nat, NEW b \in Nat, NEW m \in Nat, a <= b
  PROVE  /\ a * m \in Nat /\ b * m \in Nat
         /\ a * m <= b * m
         /\ (a + 1) * m = a * m + m
OBVIOUS

LEMMA Distribute ==
  ASSUME NEW a \in Nat, NEW b \in Nat, NEW m \in Nat
  PROVE  /\ (a + b) * m = a * m + b * m
         /\ (a + b + 1) * m = a * m + b * m + m
OBVIOUS

\* The cells of the appended blocks, and that every one was written: the
\* first from the buffer and the input, the others from the input alone.
LEMMA AppendedCells ==
  ASSUME NEW ivs, NEW c \in Context(ivs), NEW start \in Nat, NEW n \in Nat,
         NEW whole \in Nat,
         (BlockLen - Index(c)) + whole * BlockLen <= n
  PROVE  LET a == Appended(c, Input(start, n), whole) IN
         /\ a \in Seq([Cells -> Byte])
         /\ Len(a) = whole + 1
         /\ \A j \in Cells :
              a[1][j] = IF j < Index(c) THEN c.buffer[j]
                        ELSE MsgByte(start + 1 + j - Index(c))
         /\ \A k \in 1 .. whole, j \in Cells :
              a[k + 1][j] = MsgByte(start + (BlockLen - Index(c))
                                      + (k - 1) * BlockLen + 1 + j)
<1> DEFINE input == Input(start, n)
           a == Appended(c, input, whole)
           partial == BlockLen - Index(c)
           first == Copy(c.buffer, Index(c), input, 0, partial)
<1> HIDE DEF input
<1>1. /\ Index(c) \in Nat /\ Index(c) < BlockLen /\ BlockLen \in Nat
      /\ partial \in Nat /\ partial >= 1
  BY IndexType, BlockAssumption
<1>2. /\ Len(input) = n
      /\ \A i \in 1 .. n : input[i] = MsgByte(start + i) /\ input[i] \in Byte
  BY InputProps DEF input
<1>3. whole * BlockLen \in Nat /\ partial <= n
  BY <1>1, Product
<1>4. first \in [Cells -> Byte]
  <2>1. \A i \in 0 + 1 .. 0 + partial : input[i] \in Byte
    BY <1>1, <1>2, <1>3
  <2>2. c.buffer \in [Cells -> Byte] /\ Index(c) + partial <= BlockLen
    BY <1>1 DEF Context
  <2>3. QED
    BY <1>1, <2>1, <2>2, CopyType
<1>5. \A j \in Cells : first[j] = IF j < Index(c) THEN c.buffer[j]
                                  ELSE MsgByte(start + 1 + j - Index(c))
  <2>1. SUFFICES ASSUME NEW j \in Cells
                 PROVE  first[j] = IF j < Index(c) THEN c.buffer[j]
                                   ELSE MsgByte(start + 1 + j - Index(c))
    OBVIOUS
  <2>2. /\ DOMAIN c.buffer = Cells
        /\ Index(c) + partial - 1 = BlockLen - 1
    BY <1>1 DEF Context
  <2>3. first[j] = IF j \in Index(c) .. BlockLen - 1
                     THEN input[0 + 1 + j - Index(c)] ELSE c.buffer[j]
    BY <2>2 DEF Copy
  <2>4. CASE j < Index(c)
    BY <2>3, <2>4, <1>1 DEF Cells
  <2>5. CASE ~ (j < Index(c))
    <3>1. 1 + j - Index(c) \in 1 .. n
      BY <2>5, <1>1, <1>3 DEF Cells
    <3>2. input[1 + j - Index(c)] = MsgByte(start + (1 + j - Index(c)))
      BY <3>1, <1>2
    <3>3. j \in Index(c) .. BlockLen - 1
      BY <2>5, <1>1 DEF Cells
    <3>4. start + (1 + j - Index(c)) = start + 1 + j - Index(c)
      BY <1>1 DEF Cells
    <3>5. QED
      BY <2>3, <2>5, <3>2, <3>3, <3>4, <1>1 DEF Cells
  <2>6. QED
    BY <2>4, <2>5
<1>6. ASSUME NEW k \in 1 .. whole, NEW j \in Cells
      PROVE  /\ partial + (k - 1) * BlockLen + 1 + j \in 1 .. n
             /\ a[k + 1] = BlockAt(input, partial + (k - 1) * BlockLen)
             /\ a[k + 1][j] = MsgByte(start + partial + (k - 1) * BlockLen + 1 + j)
             /\ a[k + 1][j] \in Byte
  <2> DEFINE off == (k - 1) * BlockLen
  <2>1. off \in Nat /\ off + BlockLen <= whole * BlockLen
    <3>1. k - 1 \in Nat /\ k \in Nat /\ k <= whole /\ k - 1 <= k /\ (k - 1) + 1 = k
      OBVIOUS
    <3>2. ((k - 1) + 1) * BlockLen = (k - 1) * BlockLen + BlockLen
      BY <3>1, <1>1, Product
    <3>3. k * BlockLen <= whole * BlockLen
      BY <3>1, <1>1, Product
    <3>4. (k - 1) * BlockLen \in Nat
      BY <3>1, <1>1, Product
    <3>5. QED
      BY <3>1, <3>2, <3>3, <3>4
  <2>2. a[k + 1] = BlockAt(input, partial + off)
    <3>1. k + 1 \in 1 .. whole + 1 /\ k + 1 # 1 /\ (k + 1) - 2 = k - 1
      OBVIOUS
    <3>2. QED
      BY <3>1 DEF Appended
  <2> HIDE DEF off, a, partial
  <2>3. partial + off + 1 + j \in 1 .. n
    BY <1>1, <1>3, <2>1 DEF Cells, partial
  <2>4. a[k + 1][j] = input[(partial + off) + 1 + j]
    BY <2>2 DEF BlockAt
  <2>5. input[(partial + off) + 1 + j] = MsgByte(start + ((partial + off) + 1 + j))
    BY <2>3, <1>2
  <2>6. /\ (partial + off) + 1 + j = partial + off + 1 + j
        /\ start + ((partial + off) + 1 + j) = start + partial + off + 1 + j
    BY <1>1, <2>1 DEF Cells
  <2>7. input[(partial + off) + 1 + j] \in Byte
    BY <2>3, <1>2
  <2>8. QED
    BY <2>2, <2>3, <2>4, <2>5, <2>6, <2>7 DEF off
<1>7. a[1] = first
  BY DEF Appended
<1>8. \A k \in 1 .. whole + 1 : a[k] \in [Cells -> Byte]
  <2>1. SUFFICES ASSUME NEW k \in 1 .. whole + 1
                 PROVE  a[k] \in [Cells -> Byte]
    OBVIOUS
  <2>2. CASE k = 1
    BY <2>2, <1>4, <1>7
  <2>3. CASE k # 1
    <3>1. k - 1 \in 1 .. whole /\ (k - 1) + 1 = k
      BY <2>3
    <3>2. a[k] = BlockAt(input, partial + ((k - 1) - 1) * BlockLen)
      <4>1. PICK j \in Cells : TRUE
        BY BlockAssumption DEF Cells
      <4>2. QED
        BY <3>1, <4>1, <1>6
    <3>3. \A j \in Cells : a[k][j] \in Byte
      BY <3>1, <1>6
    <3>4. QED
      BY <3>2, <3>3 DEF BlockAt
  <2>4. QED
    BY <2>2, <2>3
<1>9. a \in Seq([Cells -> Byte]) /\ Len(a) = whole + 1
  BY <1>8 DEF Appended
<1>10. QED
  BY <1>5, <1>6, <1>7, <1>9 DEF input

\* The bytes an update consumes when it reaches the end of the block, and
\* the rest, which is shorter than a block.
Whole(c, n) == (n - (BlockLen - Index(c))) \div BlockLen
Used(c, n)  == (BlockLen - Index(c)) + Whole(c, n) * BlockLen

LEMMA UsedBounds ==
  ASSUME NEW ivs, NEW c \in Context(ivs), NEW n \in Nat,
         n >= BlockLen - Index(c)
  PROVE  /\ Whole(c, n) \in Nat
         /\ Used(c, n) \in Nat /\ Used(c, n) <= n
         /\ n - Used(c, n) < BlockLen
<1>1. Index(c) \in Nat /\ Index(c) < BlockLen /\ BlockLen \in Nat /\ BlockLen > 0
  BY IndexType, BlockAssumption
<1> DEFINE m == n - (BlockLen - Index(c))
<1>2. m \in Nat
  BY <1>1
<1>3. /\ m % BlockLen \in 0 .. BlockLen - 1
      /\ m \div BlockLen \in Nat
      /\ m = (m \div BlockLen) * BlockLen + (m % BlockLen)
  BY <1>1, <1>2, Division
<1>4. (m \div BlockLen) * BlockLen \in Nat
  BY <1>1, <1>3, Product
<1>5. /\ Whole(c, n) = m \div BlockLen
      /\ Used(c, n) = (BlockLen - Index(c)) + (m \div BlockLen) * BlockLen
      /\ n = m + (BlockLen - Index(c))
  BY <1>1 DEF Whole, Used
<1> DEFINE w == m \div BlockLen
           p == w * BlockLen
<1> HIDE DEF m, w, p
<1>6. /\ Whole(c, n) = w /\ Used(c, n) = (BlockLen - Index(c)) + p
      /\ w \in Nat /\ p \in Nat /\ m = p + (m % BlockLen)
  BY <1>3, <1>4, <1>5 DEF w, p
<1>7. QED
  BY <1>1, <1>2, <1>3, <1>5, <1>6

\* An update that reaches the end of the block.
LEMMA UpdatedLong ==
  ASSUME NEW ivs, NEW c \in Context(ivs), NEW start \in Nat, NEW n \in Nat,
         n >= BlockLen - Index(c)
  PROVE  LET u == Updated(c, Input(start, n)) IN
         /\ u \in Context(ivs)
         /\ u.iv = c.iv
         /\ u.bit_count = (c.bit_count + ((8 * n) % UIntMod)) % CountMod
         /\ u.blocks = c.blocks \o Appended(c, Input(start, n), Whole(c, n))
         /\ \A j \in 0 .. n - Used(c, n) - 1 :
              u.buffer[j] = MsgByte(start + Used(c, n) + 1 + j)
<1> DEFINE input == Input(start, n)
           u == Updated(c, input)
           rest == n - Used(c, n)
           first == Copy(c.buffer, Index(c), input, 0, BlockLen - Index(c))
           last == Copy(first, 0, input, Used(c, n), rest)
<1>1. Index(c) \in Nat /\ Index(c) < BlockLen /\ BlockLen \in Nat
  BY IndexType, BlockAssumption
<1>2. /\ Len(input) = n
      /\ \A i \in 1 .. n : input[i] = MsgByte(start + i) /\ input[i] \in Byte
  BY InputProps
<1>3. /\ Whole(c, n) \in Nat
      /\ Used(c, n) \in Nat /\ Used(c, n) <= n
      /\ rest \in Nat /\ rest < BlockLen
  BY UsedBounds
<1>4. u = [c EXCEPT !.bit_count = (@ + ((8 * n) % UIntMod)) % CountMod,
                    !.blocks = @ \o Appended(c, input, Whole(c, n)),
                    !.buffer = last]
  BY <1>2 DEF Updated, Appended, Used, Whole
<1> HIDE DEF input
<1>5. first \in [Cells -> Byte]
  <2>1. \A i \in 0 + 1 .. 0 + (BlockLen - Index(c)) : input[i] \in Byte
    BY <1>1, <1>2
  <2>2. /\ c.buffer \in [Cells -> Byte]
        /\ BlockLen - Index(c) \in Nat
        /\ Index(c) + (BlockLen - Index(c)) <= BlockLen
    BY <1>1 DEF Context
  <2>3. QED
    BY <1>1, <2>1, <2>2, CopyType
<1> HIDE DEF first
<1>6. last \in [Cells -> Byte]
  <2>1. \A i \in Used(c, n) + 1 .. Used(c, n) + rest : input[i] \in Byte
    BY <1>2, <1>3
  <2>2. 0 + rest <= BlockLen
    BY <1>1, <1>3
  <2>3. QED
    BY <1>3, <1>5, <2>1, <2>2, CopyType
<1>7. \A j \in 0 .. rest - 1 : last[j] = MsgByte(start + Used(c, n) + 1 + j)
  <2>1. SUFFICES ASSUME NEW j \in 0 .. rest - 1
                 PROVE  last[j] = MsgByte(start + Used(c, n) + 1 + j)
    OBVIOUS
  <2>2. j \in 0 .. 0 + rest - 1 /\ j \in Nat
    BY <1>3
  <2>3. last[j] = input[Used(c, n) + 1 + j - 0]
    BY <2>2 DEF Copy
  <2>4. Used(c, n) + 1 + j - 0 \in 1 .. n
    BY <1>3
  <2>5. input[Used(c, n) + 1 + j - 0] = MsgByte(start + (Used(c, n) + 1 + j - 0))
    BY <2>4, <1>2
  <2>6. start + (Used(c, n) + 1 + j - 0) = start + Used(c, n) + 1 + j
    BY <1>3
  <2>7. QED
    BY <2>3, <2>5, <2>6
<1>8. Appended(c, input, Whole(c, n)) \in Seq([Cells -> Byte])
  BY <1>3, AppendedCells DEF Used, input
<1>9. (c.bit_count + ((8 * n) % UIntMod)) % CountMod \in 0 .. CountMod - 1
  BY WidthAssumption DEF Context
<1>10. c.blocks \o Appended(c, input, Whole(c, n)) \in Seq([Cells -> Byte])
  BY <1>8 DEF Context
<1> HIDE DEF last, u, rest
<1>11. u \in Context(ivs)
  BY <1>4, <1>6, <1>9, <1>10 DEF Context
<1>12. QED
  BY <1>4, <1>7, <1>11 DEF input, u, rest, Context

(***************************************************************************)
(* What finish compresses.                                                 *)
(***************************************************************************)

Padding(c) ==
  IF Spills(c) THEN ZeroFill(Marked(c), Index(c) + 1, BlockLen)
               ELSE ZeroFill(Marked(c), Index(c) + 1, LengthAt)

LastBlock(c) ==
  PutLength(IF Spills(c) THEN ZeroFill(Padding(c), 0, LengthAt) ELSE Padding(c),
            c.bit_count)

\* Finish never writes outside the buffer, spill or no spill.
LEMMA FinishedType ==
  ASSUME NEW ivs, NEW c \in Context(ivs)
  PROVE  /\ Padding(c) \in [Cells -> Byte]
         /\ LastBlock(c) \in [Cells -> Byte]
         /\ Finished(c) = c.blocks \o (IF Spills(c) THEN <<Padding(c)>> ELSE <<>>)
                                   \o <<LastBlock(c)>>
         /\ Finished(c) \in Seq([Cells -> Byte])
<1>1. /\ Index(c) \in Cells /\ Index(c) \in Nat /\ Index(c) < BlockLen
      /\ LengthAt \in Nat /\ LengthAt <= BlockLen /\ BlockLen \in Nat
  BY IndexType, BlockAssumption DEF LengthAt
<1>2. Marked(c) \in [Cells -> Byte]
  BY <1>1, ByteTypes DEF Marked, Context
<1>3. Padding(c) \in [Cells -> Byte]
  BY <1>1, <1>2, ZeroFillType DEF Padding
<1>4. ZeroFill(Padding(c), 0, LengthAt) \in [Cells -> Byte]
  BY <1>1, <1>3, ZeroFillType
<1>5. LastBlock(c) \in [Cells -> Byte]
  BY <1>3, <1>4, PutLengthType DEF LastBlock, Context
<1>6. Finished(c) = c.blocks \o (IF Spills(c) THEN <<Padding(c)>> ELSE <<>>)
                             \o <<LastBlock(c)>>
  BY DEF Finished, Padding, LastBlock
<1>7. c.blocks \in Seq([Cells -> Byte])
  BY DEF Context
<1>8. <<LastBlock(c)>> \in Seq([Cells -> Byte])
  BY <1>5
<1>9. (IF Spills(c) THEN <<Padding(c)>> ELSE <<>>) \in Seq([Cells -> Byte])
  BY <1>3
<1>10. Finished(c) \in Seq([Cells -> Byte])
  BY <1>6, <1>7, <1>8, <1>9
<1>11. QED
  BY <1>3, <1>5, <1>6, <1>10

(***************************************************************************)
(* Type correctness, for any chunking.                                     *)
(***************************************************************************)

Ivs == Variants \cup {"zeros"}

Digests == [alg : Variants \cup {"none"}, iv : Variants \cup {"none", "zeros"},
            blocks : Seq([Cells -> Byte])]

LEMMA TypeOKIs ==
  TypeOK <=> /\ family \in Families
             /\ ctx \in Context(Ivs)
             /\ sha \in Variants \cup {"none"}
             /\ fed \in 0 .. MaxFed
             /\ status \in Statuses
             /\ digest \in Digests
BY DEF TypeOK, Context, Ivs, Digests

\* The family never changes, nor what depends on it alone.
LEMMA SameFamily ==
  ASSUME family' = family
  PROVE  /\ Variants' = Variants /\ Ivs' = Ivs /\ Digests' = Digests
         /\ StdLenField' = StdLenField /\ OddTails' = OddTails
<1>1. Variants' = Variants
  BY DEF Variants
<1>2. StdLenField' = StdLenField
  BY DEF StdLenField
<1>3. QED
  BY <1>1, <1>2 DEF Ivs, Digests, OddTails

LEMMA TypeOKNext ==
  ASSUME TypeOK, family' = family, ctx' \in Context(Ivs),
         sha' \in Variants \cup {"none"}, fed' \in 0 .. MaxFed,
         status' \in Statuses, digest' \in Digests
  PROVE  TypeOK'
<1>1. /\ ctx' \in Context(Ivs') /\ sha' \in Variants' \cup {"none"}
      /\ digest' \in Digests' /\ family' \in Families
  BY SameFamily DEF TypeOK
<1>2. QED
  BY <1>1 DEF TypeOK, Context, Ivs, Digests

LEMMA BlankType == Blank \in [Cells -> Byte]
BY ByteTypes DEF Blank

LEMMA NoDigestType == NoDigest \in Digests
BY DEF NoDigest, Digests

LEMMA InitType == Init => TypeOK
<1>1. ASSUME NEW b \in {Zero, Junk}
      PROVE  [j \in Cells |-> b] \in [Cells -> Byte]
  BY ByteTypes
<1>2. ASSUME NEW b \in {Zero, Junk}
      PROVE  Opened("zeros", [j \in Cells |-> b]) \in Context(Ivs)
  BY <1>1, OpenedType DEF Ivs
<1>3. QED
  BY <1>2, NoDigestType, CallAssumption, TypeOKIs DEF Init, Statuses

LEMMA RefuseType ==
  ASSUME TypeOK, NEW code \in Statuses, Refuse(code)
  PROVE  TypeOK'
<1>1. /\ family' = family /\ ctx' = ctx /\ sha' = sha /\ fed' = fed
      /\ digest' = digest /\ status' = code
  BY DEF Refuse
<1>2. QED
  BY <1>1, TypeOKIs, TypeOKNext

LEMMA OpenType ==
  ASSUME TypeOK, NEW alg \in Variants, NEW buf \in [Cells -> Byte],
         Open(alg, buf)
  PROVE  TypeOK'
<1>1. ctx' \in Context(Ivs)
  BY OpenedType DEF Open, Ivs
<1>2. digest' \in Digests
  BY NoDigestType DEF Open
<1>3. fed' \in 0 .. MaxFed /\ sha' \in Variants \cup {"none"}
      /\ status' \in Statuses
  BY CallAssumption DEF Open, Statuses
<1>4. family' = family
  BY DEF Open
<1>5. QED
  BY <1>1, <1>2, <1>3, <1>4, TypeOKNext

LEMMA AbsorbType ==
  ASSUME TypeOK, NEW n \in Chunks, Absorb(n)
  PROVE  TypeOK'
<1>1. n \in Nat /\ fed \in Nat /\ ctx \in Context(Ivs)
  BY CallAssumption, TypeOKIs
<1>2. Index(ctx) \in Nat /\ Index(ctx) < BlockLen /\ BlockLen \in Nat
  BY <1>1, IndexType, BlockAssumption
<1>3. Updated(ctx, Input(fed, n)) \in Context(Ivs)
  <2>1. CASE n < BlockLen - Index(ctx)
    BY <1>1, <2>1, UpdatedShort
  <2>2. CASE n >= BlockLen - Index(ctx)
    BY <1>1, <2>2, UpdatedLong
  <2>3. QED
    BY <1>1, <1>2, <2>1, <2>2
<1>4. ctx' \in Context(Ivs)
  BY <1>1, <1>3 DEF Absorb, Input
<1>5. fed' \in 0 .. MaxFed
  BY <1>1, CallAssumption DEF Absorb
<1>6. /\ family' = family /\ sha' = sha /\ digest' = digest
      /\ status' \in Statuses
  BY DEF Absorb, Statuses
<1>7. QED
  BY <1>4, <1>5, <1>6, TypeOKIs, TypeOKNext

LEMMA WipedType == Wiped \in Context(Ivs)
BY BlankType, OpenedType DEF Wiped, Ivs

LEMMA EmitType ==
  ASSUME TypeOK, NEW alg \in Variants, Emit(alg)
  PROVE  TypeOK'
<1>1. ctx \in Context(Ivs)
  BY TypeOKIs
<1>2. Finished(ctx) \in Seq([Cells -> Byte]) /\ ctx.iv \in Ivs
  BY <1>1, FinishedType DEF Context
<1>3. digest' \in Digests
  BY <1>2 DEF Emit, Digests, Ivs
<1>4. ctx' \in Context(Ivs)
  BY WipedType DEF Emit
<1>5. /\ family' = family /\ sha' = "none" /\ fed' = fed
      /\ status' \in Statuses
  BY DEF Emit, Statuses
<1>6. QED
  BY <1>3, <1>4, <1>5, TypeOKIs, TypeOKNext

LEMMA InitsType == ASSUME TypeOK, Inits PROVE TypeOK'
<1>1. CASE Md5Init
  BY <1>1, BlankType, OpenType DEF Md5Init, Variants
<1>2. CASE Sha1Init
  <2>1. ctx.buffer \in [Cells -> Byte]
    BY DEF TypeOK
  <2>2. QED
    BY <1>2, <2>1, OpenType DEF Sha1Init, Variants
<1>3. ASSUME NEW alg, Sha256Init(alg) \/ Sha512Init(alg)
      PROVE  TypeOK'
  <2>1. CASE alg \in Variants
    BY <1>3, <2>1, BlankType, OpenType DEF Sha256Init, Sha512Init
  <2>2. CASE alg \notin Variants
    BY <1>3, <2>2, RefuseType DEF Sha256Init, Sha512Init, Statuses
  <2>3. QED
    BY <2>1, <2>2
<1>4. QED
  BY <1>1, <1>2, <1>3 DEF Inits

LEMMA UpdatesType ==
  ASSUME TypeOK, NEW n \in Chunks, Updates(n)
  PROVE  TypeOK'
BY AbsorbType DEF Updates, Md5Update, Sha1Update, Sha256Update, Sha512Update

LEMMA FinishesType ==
  ASSUME TypeOK, NEW alg, NEW room \in BOOLEAN, Finishes(alg, room)
  PROVE  TypeOK'
<1>1. CASE Md5Finish
  BY <1>1, EmitType DEF Md5Finish, Variants
<1>2. CASE Sha1Finish(room)
  BY <1>2, EmitType, RefuseType DEF Sha1Finish, Variants, Statuses
<1>3. CASE Sha256Finish(alg, room)
  BY <1>3, EmitType, RefuseType DEF Sha256Finish, Statuses
<1>4. CASE Sha512Finish(alg, room)
  <2>1. CASE alg \notin Variants
    <3>1. /\ family' = family /\ ctx' = Wiped /\ sha' = "none"
          /\ fed' = fed /\ digest' = digest /\ status' \in Statuses
      BY <1>4, <2>1 DEF Sha512Finish, Statuses
    <3>2. QED
      BY <3>1, WipedType, TypeOKIs, TypeOKNext
  <2>2. CASE alg \in Variants
    BY <1>4, <2>2, EmitType, RefuseType DEF Sha512Finish, Statuses
  <2>3. QED
    BY <2>1, <2>2
<1>5. QED
  BY <1>1, <1>2, <1>3, <1>4 DEF Finishes

LEMMA NextType == TypeOK /\ [Next]_vars => TypeOK'
<1> SUFFICES ASSUME TypeOK, [Next]_vars PROVE TypeOK'
  OBVIOUS
<1>1. CASE Inits
  BY <1>1, InitsType
<1>2. ASSUME NEW n \in Chunks, Updates(n) PROVE TypeOK'
  BY <1>2, UpdatesType
<1>3. ASSUME NEW alg, NEW room \in BOOLEAN, Finishes(alg, room) PROVE TypeOK'
  BY <1>3, FinishesType
<1>4. CASE UNCHANGED vars
  <2>1. /\ family' = family /\ ctx' = ctx /\ sha' = sha /\ fed' = fed
        /\ status' = status /\ digest' = digest
    BY <1>4 DEF vars
  <2>2. QED
    BY <2>1, TypeOKIs, TypeOKNext
<1>5. QED
  BY <1>1, <1>2, <1>3, <1>4 DEF Next

\* However a caller chunks the message and whatever it passes to init and
\* finish, no write of update or finish leaves the block buffer, and no block
\* is compressed that was not completely there (md5.c:181-263 and its three
\* copies).
THEOREM TypeCorrect == Spec => []TypeOK
<1>1. QED
  BY InitType, NextType, PTL DEF Spec

(***************************************************************************)
(* The message is held, for block-wise callers.  HoldsMessage is inductive *)
(* with TypeOK: it says what the counter, the blocks and the buffer are in *)
(* terms of `fed' alone.                                                   *)
(***************************************************************************)

\* HoldsMessage of a context and a number of bytes, so that it can be stated
\* of the context an update returns.
Holds(c, n) ==
  /\ c.bit_count = 8 * n
  /\ n = Len(c.blocks) * BlockLen + Index(c)
  /\ \A k \in 1 .. Len(c.blocks), j \in Cells :
       c.blocks[k][j] = MsgByte((k - 1) * BlockLen + j + 1)
  /\ \A j \in 0 .. Index(c) - 1 :
       c.buffer[j] = MsgByte(Len(c.blocks) * BlockLen + j + 1)

LEMMA HoldsMessageIs ==
  HoldsMessage <=> (sha # "none" => ctx.iv = sha /\ Holds(ctx, fed))
BY DEF HoldsMessage, Holds

\* Reading Index off the counter.
LEMMA IndexOfCount ==
  ASSUME NEW c, NEW q \in Nat, NEW r \in Nat, r < BlockLen,
         c.bit_count = 8 * (q * BlockLen + r)
  PROVE  Index(c) = r
<1>1. q * BlockLen \in Nat
  BY BlockAssumption, Product
<1>2. (8 * (q * BlockLen + r)) \div 8 = q * BlockLen + r
  BY <1>1, BytesOfBits
<1>3. (q * BlockLen + r) % BlockLen = r
  BY BlockAssumption, Quotient
<1>4. QED
  BY <1>2, <1>3 DEF Index

LEMMA CountExact ==
  ASSUME NEW a \in Nat, NEW n \in Nat, 8 * n < UIntMod, 8 * (a + n) < CountMod
  PROVE  (8 * a + ((8 * n) % UIntMod)) % CountMod = 8 * (a + n)
<1>1. (8 * n) % UIntMod = 8 * n
  BY WidthAssumption
<1>2. (8 * a + 8 * n) % CountMod = 8 * (a + n)
  BY WidthAssumption
<1>3. QED
  BY <1>1, <1>2

LEMMA Concat ==
  ASSUME NEW S, NEW s \in Seq(S), NEW t \in Seq(S)
  PROVE  /\ s \o t \in Seq(S)
         /\ Len(s \o t) = Len(s) + Len(t)
         /\ \A k \in 1 .. Len(s) : (s \o t)[k] = s[k]
         /\ \A k \in 1 .. Len(t) : (s \o t)[Len(s) + k] = t[k]
OBVIOUS

\* A new context holds the empty message.
LEMMA OpenedHolds ==
  ASSUME NEW iv, NEW buf
  PROVE  Holds(Opened(iv, buf), 0)
<1> DEFINE c == Opened(iv, buf)
<1>1. c.bit_count = 0 /\ c.blocks = <<>> /\ Len(c.blocks) = 0
  BY DEF Opened
<1> HIDE DEF c
<1>2. 0 * BlockLen = 0 /\ 0 < BlockLen
  BY BlockAssumption
<1>3. c.bit_count = 8 * (0 * BlockLen + 0)
  BY <1>1, <1>2
<1>4. Index(c) = 0
  BY <1>2, <1>3, IndexOfCount
<1>5. Holds(c, 0)
  BY <1>1, <1>2, <1>4 DEF Holds
<1>6. QED
  BY <1>5 DEF c

\* An update that stays inside the block keeps the message when it starts on
\* an empty buffer (the discipline Blockwise asks for).
LEMMA ShortHolds ==
  ASSUME NEW ivs, NEW c \in Context(ivs), NEW m \in Nat, NEW n \in Nat,
         Holds(c, m), Index(c) = 0, n < BlockLen,
         8 * n < UIntMod, 8 * (m + n) < CountMod
  PROVE  Holds(Updated(c, Input(m, n)), m + n)
<1> DEFINE u == Updated(c, Input(m, n))
           q == Len(c.blocks)
<1>1. /\ u.blocks = c.blocks
      /\ u.bit_count = (c.bit_count + ((8 * n) % UIntMod)) % CountMod
      /\ \A j \in 0 .. n - 1 : u.buffer[j] = MsgByte(m + 1 + j)
  <2>1. n < BlockLen - Index(c)
    BY BlockAssumption
  <2>2. QED
    BY <2>1, UpdatedShort, SMTT(30)
<1>2. q \in Nat /\ q * BlockLen \in Nat /\ m = q * BlockLen
  <2>1. q \in Nat
    BY DEF Context
  <2>2. q * BlockLen \in Nat
    BY <2>1, BlockAssumption, Product
  <2>3. m = Len(c.blocks) * BlockLen + Index(c) /\ Index(c) = 0
    BY DEF Holds
  <2> HIDE DEF q
  <2>4. m = q * BlockLen + 0
    BY <2>3 DEF q
  <2>5. QED
    BY <2>1, <2>2, <2>4
<1>3. u.bit_count = 8 * (m + n)
  BY <1>1, CountExact DEF Holds
<1> HIDE DEF u
<1>4. Index(u) = n
  BY <1>2, <1>3, IndexOfCount DEF q
<1>5. \A j \in 0 .. n - 1 : u.buffer[j] = MsgByte(q * BlockLen + j + 1)
  <2>1. \A j \in 0 .. n - 1 : m + 1 + j = q * BlockLen + j + 1
    BY <1>2
  <2>2. QED
    BY <1>1, <2>1
<1>6. Len(u.blocks) = q
  BY <1>1
<1>7. m + n = Len(u.blocks) * BlockLen + Index(u)
  BY <1>2, <1>4, <1>6
<1>8. \A k \in 1 .. Len(u.blocks), j \in Cells :
        u.blocks[k][j] = MsgByte((k - 1) * BlockLen + j + 1)
  BY <1>1 DEF Holds
<1>9. \A j \in 0 .. Index(u) - 1 :
        u.buffer[j] = MsgByte(Len(u.blocks) * BlockLen + j + 1)
  BY <1>4, <1>5, <1>6
<1>10. Holds(u, m + n)
  BY <1>3, <1>7, <1>8, <1>9 DEF Holds
<1>11. QED
  BY <1>10 DEF u

\* An update that reaches the end of the block always keeps the message.
LEMMA LongHolds ==
  ASSUME NEW ivs, NEW c \in Context(ivs), NEW m \in Nat, NEW n \in Nat,
         Holds(c, m), n >= BlockLen - Index(c),
         8 * n < UIntMod, 8 * (m + n) < CountMod
  PROVE  Holds(Updated(c, Input(m, n)), m + n)
<1> DEFINE u == Updated(c, Input(m, n))
           q == Len(c.blocks)
           w == Whole(c, n)
           r == Index(c)
           rest == n - Used(c, n)
           a == Appended(c, Input(m, n), w)
<1>1. /\ r \in Nat /\ r < BlockLen /\ BlockLen \in Nat
      /\ w \in Nat /\ Used(c, n) \in Nat
      /\ rest \in Nat /\ rest < BlockLen
  BY IndexType, UsedBounds, BlockAssumption
<1>2. /\ u.blocks = c.blocks \o a
      /\ u.bit_count = (c.bit_count + ((8 * n) % UIntMod)) % CountMod
      /\ \A j \in 0 .. rest - 1 : u.buffer[j] = MsgByte(m + Used(c, n) + 1 + j)
  <2>1. u.blocks = c.blocks \o a
    BY UpdatedLong
  <2>2. u.bit_count = (c.bit_count + ((8 * n) % UIntMod)) % CountMod
    BY UpdatedLong
  <2>3. \A j \in 0 .. rest - 1 : u.buffer[j] = MsgByte(m + Used(c, n) + 1 + j)
    BY UpdatedLong
  <2>4. QED
    BY <2>1, <2>2, <2>3
<1>4. /\ Used(c, n) = (BlockLen - r) + w * BlockLen
      /\ (BlockLen - r) + w * BlockLen <= n
  BY UsedBounds DEF Used
<1> HIDE DEF w
<1>3. /\ a \in Seq([Cells -> Byte]) /\ Len(a) = w + 1
      /\ \A j \in Cells : a[1][j] = IF j < r THEN c.buffer[j]
                                    ELSE MsgByte(m + 1 + j - r)
      /\ \A k \in 1 .. w, j \in Cells :
           a[k + 1][j] = MsgByte(m + (BlockLen - r) + (k - 1) * BlockLen + 1 + j)
  <2>1. (BlockLen - Index(c)) + w * BlockLen <= n
    BY <1>4
  <2>2. a \in Seq([Cells -> Byte]) /\ Len(a) = w + 1
    BY <1>1, <2>1, AppendedCells, SMTT(30)
  <2>3. \A j \in Cells : a[1][j] = IF j < r THEN c.buffer[j]
                                  ELSE MsgByte(m + 1 + j - r)
    BY <1>1, <2>1, AppendedCells
  <2>4. \A k \in 1 .. w, j \in Cells :
          a[k + 1][j] = MsgByte(m + (BlockLen - r) + (k - 1) * BlockLen + 1 + j)
    BY <1>1, <2>1, AppendedCells, SMTT(30)
  <2>5. QED
    BY <2>2, <2>3, <2>4
<1>5. /\ q \in Nat /\ q * BlockLen \in Nat /\ m = q * BlockLen + r
      /\ c.blocks \in Seq([Cells -> Byte])
  <2>1. q \in Nat /\ c.blocks \in Seq([Cells -> Byte])
    BY DEF Context
  <2>2. q * BlockLen \in Nat
    BY <2>1, BlockAssumption, Product
  <2>3. QED
    BY <2>1, <2>2 DEF Holds
<1>6. u.bit_count = 8 * (m + n)
  BY <1>2, CountExact DEF Holds
<1>7. /\ \A k \in 1 .. q, j \in Cells :
           c.blocks[k][j] = MsgByte((k - 1) * BlockLen + j + 1)
      /\ \A j \in 0 .. r - 1 : c.buffer[j] = MsgByte(q * BlockLen + j + 1)
  BY DEF Holds
<1> HIDE DEF u, q, r, rest, a
<1>8. /\ w * BlockLen \in Nat
      /\ (q + w + 1) * BlockLen = q * BlockLen + w * BlockLen + BlockLen
  BY <1>1, <1>5, Distribute, Product
<1>9. m + n = (q + w + 1) * BlockLen + rest
  BY <1>1, <1>4, <1>5, <1>8 DEF rest
<1>10. Index(u) = rest
  <2>1. q + w + 1 \in Nat
    BY <1>1, <1>5
  <2>2. u.bit_count = 8 * ((q + w + 1) * BlockLen + rest)
    BY <1>6, <1>9
  <2>3. QED
    BY <1>1, <2>1, <2>2, IndexOfCount
<1>11. /\ Len(u.blocks) = q + w + 1
       /\ \A k \in 1 .. q : u.blocks[k] = c.blocks[k]
       /\ \A k \in 1 .. w + 1 : u.blocks[q + k] = a[k]
  <2> DEFINE b == c.blocks
  <2>1. /\ b \in Seq([Cells -> Byte]) /\ a \in Seq([Cells -> Byte])
        /\ Len(b) = q /\ Len(a) = w + 1
    BY <1>3, <1>5 DEF q
  <2>2. u.blocks = b \o a
    BY <1>2
  <2> HIDE DEF b
  <2>3. /\ Len(b \o a) = Len(b) + Len(a)
        /\ \A k \in 1 .. Len(b) : (b \o a)[k] = b[k]
        /\ \A k \in 1 .. Len(a) : (b \o a)[Len(b) + k] = a[k]
    <3>1. Len(b \o a) = Len(b) + Len(a)
      BY <2>1, Concat
    <3>2. \A k \in 1 .. Len(b) : (b \o a)[k] = b[k]
      BY <2>1, Concat
    <3>3. \A k \in 1 .. Len(a) : (b \o a)[Len(b) + k] = a[k]
      BY <2>1, Concat
    <3>4. QED
      BY <3>1, <3>2, <3>3
  <2>4. Len(u.blocks) = q + (w + 1) /\ q + (w + 1) = q + w + 1
    BY <2>1, <2>2, <2>3, <1>1, <1>5, SMTT(30)
  <2>5. /\ \A k \in 1 .. q : u.blocks[k] = b[k]
        /\ \A k \in 1 .. w + 1 : u.blocks[q + k] = a[k]
    BY <2>1, <2>2, <2>3
  <2>6. QED
    BY <2>4, <2>5 DEF b
<1>12. ASSUME NEW j \in Cells
       PROVE  a[1][j] = MsgByte(q * BlockLen + j + 1)
  <2>1. CASE j < r
    <3>1. j \in 0 .. r - 1
      BY <2>1, <1>1 DEF Cells
    <3>2. QED
      BY <2>1, <3>1, <1>3, <1>7
  <2>2. CASE ~ (j < r)
    <3>1. m + 1 + j - r = q * BlockLen + j + 1
      BY <1>1, <1>5 DEF Cells
    <3>2. QED
      BY <2>2, <3>1, <1>3
  <2>3. QED
    BY <2>1, <2>2
<1>13. ASSUME NEW k \in 1 .. w, NEW j \in Cells
       PROVE  a[k + 1][j] = MsgByte((q + k) * BlockLen + j + 1)
  <2>1. /\ k - 1 \in Nat /\ (k - 1) + 1 = k
        /\ (k - 1) * BlockLen \in Nat
        /\ ((k - 1) + 1) * BlockLen = (k - 1) * BlockLen + BlockLen
    BY <1>1, Product
  <2>2. (q + k) * BlockLen = q * BlockLen + k * BlockLen
    BY <1>1, <1>5
  <2>3. m + (BlockLen - r) + (k - 1) * BlockLen + 1 + j
          = (q + k) * BlockLen + j + 1
    BY <2>1, <2>2, <1>1, <1>5 DEF Cells
  <2>4. QED
    BY <2>3, <1>3
<1>14. ASSUME NEW k \in 1 .. Len(u.blocks), NEW j \in Cells
       PROVE  u.blocks[k][j] = MsgByte((k - 1) * BlockLen + j + 1)
  <2>1. k \in 1 .. q + w + 1
    BY <1>11
  <2>2. CASE k <= q
    <3>1. k \in 1 .. q
      BY <2>1, <2>2, <1>5
    <3>2. QED
      BY <3>1, <1>7, <1>11
  <2>3. CASE k = q + 1
    <3>1. u.blocks[k] = a[1] /\ k - 1 = q
      BY <2>3, <1>1, <1>5, <1>11
    <3>2. QED
      BY <3>1, <1>12
  <2>4. CASE k > q + 1
    <3>1. PICK i \in 1 .. w : k = q + (i + 1)
      <4>1. k - q - 1 \in 1 .. w /\ k = q + ((k - q - 1) + 1)
        BY <2>1, <2>4, <1>1, <1>5
      <4>2. QED
        BY <4>1
    <3>2. u.blocks[k] = a[i + 1]
      BY <3>1, <1>1, <1>11
    <3>3. k - 1 = q + i
      BY <3>1, <1>5
    <3>4. QED
      BY <3>2, <3>3, <1>13
  <2>5. QED
    BY <2>1, <2>2, <2>3, <2>4, <1>1, <1>5
<1>15. ASSUME NEW j \in 0 .. rest - 1
       PROVE  u.buffer[j] = MsgByte((q + w + 1) * BlockLen + j + 1)
  <2>1. m + Used(c, n) + 1 + j = (q + w + 1) * BlockLen + j + 1
    BY <1>1, <1>4, <1>5, <1>8
  <2>2. QED
    BY <2>1, <1>2
<1>16. Holds(u, m + n)
  BY <1>6, <1>9, <1>10, <1>11, <1>14, <1>15 DEF Holds
<1>17. QED
  BY <1>16 DEF u

LEMMA BlockwiseType == TypeOK /\ [BlockwiseNext]_vars => TypeOK'
<1> SUFFICES ASSUME TypeOK, [BlockwiseNext]_vars PROVE TypeOK'
  OBVIOUS
<1>1. CASE Inits
  BY <1>1, InitsType
<1>2. ASSUME NEW n \in Chunks, Blockwise(n), Updates(n) PROVE TypeOK'
  BY <1>2, UpdatesType
<1>3. ASSUME NEW room \in BOOLEAN, Finishes(sha, room) PROVE TypeOK'
  BY <1>3, FinishesType
<1>4. CASE UNCHANGED vars
  <2>1. /\ family' = family /\ ctx' = ctx /\ sha' = sha /\ fed' = fed
        /\ status' = status /\ digest' = digest
    BY <1>4 DEF vars
  <2>2. QED
    BY <2>1, TypeOKIs, TypeOKNext
<1>5. QED
  BY <1>1, <1>2, <1>3, <1>4 DEF BlockwiseNext

LEMMA RefuseHolds ==
  ASSUME HoldsMessage, NEW code, Refuse(code)
  PROVE  HoldsMessage'
<1>1. sha' = sha /\ ctx' = ctx /\ fed' = fed
  BY DEF Refuse
<1>2. QED
  BY <1>1 DEF HoldsMessage, Index

LEMMA OpenHolds ==
  ASSUME NEW alg, NEW buf, Open(alg, buf)
  PROVE  HoldsMessage'
<1>1. ctx' = Opened(alg, buf) /\ fed' = 0 /\ sha' = alg
  BY DEF Open
<1>2. Holds(ctx', fed')
  BY <1>1, OpenedHolds
<1>3. ctx'.iv = sha'
  BY <1>1 DEF Opened
<1>4. QED
  BY <1>2, <1>3 DEF HoldsMessage, Holds, Index

LEMMA AbsorbHolds ==
  ASSUME TypeOK, HoldsMessage, NEW n \in Chunks, Blockwise(n), Absorb(n)
  PROVE  HoldsMessage'
<1>1. /\ n \in Nat /\ fed \in Nat /\ ctx \in Context(Ivs)
      /\ sha # "none" /\ sha' = sha /\ fed' = fed + n
  BY CallAssumption, TypeOKIs DEF Absorb
<1>2. ctx.iv = sha /\ Holds(ctx, fed)
  BY <1>1, HoldsMessageIs
<1>3. CASE n = 0
  <2>1. ctx' = ctx /\ fed' = fed
    BY <1>1, <1>3 DEF Absorb
  <2>2. QED
    BY <1>1, <2>1 DEF HoldsMessage, Index
<1>4. CASE n # 0
  <2>1. ctx' = Updated(ctx, Input(fed, n))
    BY <1>4 DEF Absorb, Input
  <2>2. 8 * n < UIntMod /\ 8 * (fed + n) < CountMod
    BY DEF Blockwise
  <2>3. Index(ctx) \in Nat /\ Index(ctx) < BlockLen
    BY <1>1, IndexType
  <2>4. CASE n >= BlockLen - Index(ctx)
    <3>1. Holds(Updated(ctx, Input(fed, n)), fed + n)
      BY <1>1, <1>2, <2>2, <2>4, LongHolds
    <3>2. Updated(ctx, Input(fed, n)).iv = ctx.iv
      BY <1>1, <2>4, UpdatedLong
    <3>3. QED
      BY <1>1, <1>2, <2>1, <3>1, <3>2 DEF HoldsMessage, Holds, Index
  <2>5. CASE n < BlockLen - Index(ctx)
    <3>1. Index(ctx) = 0 /\ n < BlockLen
      BY <1>1, <2>3, <2>5, BlockAssumption DEF Blockwise
    <3>2. Holds(Updated(ctx, Input(fed, n)), fed + n)
      BY <1>1, <1>2, <2>2, <3>1, ShortHolds
    <3>3. Updated(ctx, Input(fed, n)).iv = ctx.iv
      BY <1>1, <2>5, UpdatedShort
    <3>4. QED
      BY <1>1, <1>2, <2>1, <3>2, <3>3 DEF HoldsMessage, Holds, Index
  <2>6. QED
    BY <1>1, <2>3, <2>4, <2>5, BlockAssumption
<1>5. QED
  BY <1>3, <1>4

LEMMA HoldsMessageStep ==
  TypeOK /\ HoldsMessage /\ [BlockwiseNext]_vars => HoldsMessage'
<1> SUFFICES ASSUME TypeOK, HoldsMessage, [BlockwiseNext]_vars
             PROVE  HoldsMessage'
  OBVIOUS
<1>1. CASE Inits
  <2>1. ASSUME NEW alg, NEW buf, Open(alg, buf) PROVE HoldsMessage'
    BY <2>1, OpenHolds
  <2>2. ASSUME NEW code, Refuse(code) PROVE HoldsMessage'
    BY <2>2, RefuseHolds
  <2>3. QED
    BY <1>1, <2>1, <2>2 DEF Inits, Md5Init, Sha1Init, Sha256Init, Sha512Init
<1>2. ASSUME NEW n \in Chunks, Blockwise(n), Updates(n) PROVE HoldsMessage'
  BY <1>2, AbsorbHolds
     DEF Updates, Md5Update, Sha1Update, Sha256Update, Sha512Update
<1>3. ASSUME NEW room \in BOOLEAN, Finishes(sha, room) PROVE HoldsMessage'
  <2>1. CASE sha' = "none"
    BY <2>1 DEF HoldsMessage
  <2>2. CASE sha' # "none"
    <3>1. \E code : Refuse(code)
      BY <1>3, <2>2 DEF Finishes, Md5Finish, Sha1Finish, Sha256Finish,
                        Sha512Finish, Emit
    <3>2. QED
      BY <3>1, RefuseHolds
  <2>3. QED
    BY <2>1, <2>2
<1>4. CASE UNCHANGED vars
  BY <1>4 DEF vars, HoldsMessage, Index
<1>5. QED
  BY <1>1, <1>2, <1>3, <1>4 DEF BlockwiseNext

LEMMA HoldsMessageInit == Init => HoldsMessage
BY DEF Init, HoldsMessage

\* For every block length and every block-wise caller - crypto_api.c and
\* hmac.c, which update once, among them - the context holds exactly the
\* message fed since init, whatever sessions were abandoned before.
THEOREM MessageHeld == BlockwiseSpec => [](TypeOK /\ HoldsMessage)
<1>1. Init => TypeOK /\ HoldsMessage
  BY InitType, HoldsMessageInit
<1>2. TypeOK /\ HoldsMessage /\ [BlockwiseNext]_vars => (TypeOK /\ HoldsMessage)'
  BY BlockwiseType, HoldsMessageStep
<1>3. QED
  BY <1>1, <1>2, PTL DEF BlockwiseSpec

(***************************************************************************)
(* The digest.                                                             *)
(***************************************************************************)

\* The first padded block, cell by cell; without a spill its last 8 cells are
\* still to be overwritten by the length.
LEMMA PaddingCells ==
  ASSUME NEW ivs, NEW c \in Context(ivs), NEW j \in Cells,
         Spills(c) \/ j < LengthAt
  PROVE  Padding(c)[j] = IF j < Index(c) THEN c.buffer[j]
                         ELSE IF j = Index(c) THEN One ELSE Zero
<1>1. /\ Index(c) \in Cells /\ Index(c) \in Nat /\ Index(c) < BlockLen
      /\ LengthAt \in Nat /\ LengthAt <= BlockLen /\ BlockLen \in Nat
  BY IndexType, BlockAssumption DEF LengthAt
<1>2. /\ Marked(c) \in [Cells -> Byte]
      /\ Marked(c)[j] = IF j = Index(c) THEN One ELSE c.buffer[j]
  BY <1>1, ByteTypes DEF Marked, Context
<1>3. ASSUME NEW upto \in Nat, upto <= BlockLen, j < upto
      PROVE  ZeroFill(Marked(c), Index(c) + 1, upto)[j]
               = IF j > Index(c) THEN Zero ELSE Marked(c)[j]
  <2>1. j \in DOMAIN Marked(c)
    BY <1>2
  <2>2. j \in Index(c) + 1 .. upto - 1 <=> j > Index(c)
    BY <1>1, <1>3 DEF Cells
  <2>3. QED
    BY <2>1, <2>2 DEF ZeroFill
<1>4. CASE Spills(c)
  <2>1. Padding(c)[j] = IF j > Index(c) THEN Zero ELSE Marked(c)[j]
    BY <1>1, <1>3, <1>4 DEF Padding, Cells
  <2>2. QED
    BY <1>1, <1>2, <2>1 DEF Cells
<1>5. CASE ~ Spills(c)
  <2>1. Padding(c)[j] = IF j > Index(c) THEN Zero ELSE Marked(c)[j]
    BY <1>1, <1>3, <1>5 DEF Padding
  <2>2. QED
    BY <1>1, <1>2, <2>1 DEF Cells
<1>6. QED
  BY <1>4, <1>5

\* The block with the length, cell by cell.
LEMMA LastBlockCells ==
  ASSUME NEW ivs, NEW c \in Context(ivs), NEW j \in Cells
  PROVE  LastBlock(c)[j] = IF j >= LengthAt THEN LenByte(c.bit_count, j - LengthAt)
                           ELSE IF Spills(c) THEN Zero ELSE Padding(c)[j]
<1>1. LengthAt \in Nat /\ LengthAt + 8 = BlockLen /\ BlockLen \in Nat
  BY BlockAssumption DEF LengthAt
<1>2. Padding(c) \in [Cells -> Byte]
  BY FinishedType
<1>3. j \in LengthAt .. LengthAt + 7 <=> j >= LengthAt
  BY <1>1 DEF Cells
<1>4. ASSUME NEW buf, DOMAIN buf = Cells
      PROVE  PutLength(buf, c.bit_count)[j]
               = IF j >= LengthAt THEN LenByte(c.bit_count, j - LengthAt) ELSE buf[j]
  BY <1>3, <1>4 DEF PutLength
<1>5. CASE Spills(c)
  <2>1. /\ DOMAIN ZeroFill(Padding(c), 0, LengthAt) = Cells
        /\ j < LengthAt => ZeroFill(Padding(c), 0, LengthAt)[j] = Zero
    BY <1>1, <1>2 DEF ZeroFill, Cells
  <2>2. LastBlock(c) = PutLength(ZeroFill(Padding(c), 0, LengthAt), c.bit_count)
    BY <1>5 DEF LastBlock
  <2>3. QED
    BY <1>1, <1>4, <1>5, <2>1, <2>2 DEF Cells
<1>6. CASE ~ Spills(c)
  <2>1. LastBlock(c) = PutLength(Padding(c), c.bit_count)
    BY <1>6 DEF LastBlock
  <2>2. QED
    BY <1>2, <1>4, <1>6, <2>1
<1>7. QED
  BY <1>5, <1>6

\* The number of blocks finish compresses in all.
LEMMA FinishedLength ==
  ASSUME NEW ivs, NEW c \in Context(ivs)
  PROVE  /\ Len(Finished(c)) = Len(c.blocks) + (IF Spills(c) THEN 2 ELSE 1)
         /\ \A k \in 1 .. Len(c.blocks) : Finished(c)[k] = c.blocks[k]
         /\ Spills(c) => /\ Finished(c)[Len(c.blocks) + 1] = Padding(c)
                         /\ Finished(c)[Len(c.blocks) + 2] = LastBlock(c)
         /\ ~ Spills(c) => Finished(c)[Len(c.blocks) + 1] = LastBlock(c)
<1> DEFINE b == c.blocks
           S == [Cells -> Byte]
           p == Padding(c)
           l == LastBlock(c)
<1>1. b \in Seq(S) /\ p \in S /\ l \in S
  BY FinishedType DEF Context
<1>2. Finished(c) = (b \o (IF Spills(c) THEN <<p>> ELSE <<>>)) \o <<l>>
  BY FinishedType
<1> HIDE DEF b, S, p, l
<1>3. CASE Spills(c)
  <2>1. Finished(c) = (b \o <<p>>) \o <<l>>
    BY <1>2, <1>3
  <2>2. /\ Len((b \o <<p>>) \o <<l>>) = Len(b) + 2
        /\ \A k \in 1 .. Len(b) : ((b \o <<p>>) \o <<l>>)[k] = b[k]
        /\ ((b \o <<p>>) \o <<l>>)[Len(b) + 1] = p
        /\ ((b \o <<p>>) \o <<l>>)[Len(b) + 2] = l
    BY <1>1
  <2>3. QED
    BY <1>3, <2>1, <2>2 DEF b, p, l
<1>4. CASE ~ Spills(c)
  <2>1. Finished(c) = b \o <<l>>
    BY <1>1, <1>2, <1>4
  <2>2. /\ Len(b \o <<l>>) = Len(b) + 1
        /\ \A k \in 1 .. Len(b) : (b \o <<l>>)[k] = b[k]
        /\ (b \o <<l>>)[Len(b) + 1] = l
    BY <1>1
  <2>3. QED
    BY <1>4, <2>1, <2>2 DEF b, p, l
<1>5. QED
  BY <1>3, <1>4

\* The standard's length field fits a block.
LEMMA FieldFits ==
  StdLenField \in Nat /\ 8 <= StdLenField /\ StdLenField < BlockLen
BY BlockAssumption, FieldAssumption DEF StdLenField

\* The number of blocks of the standard padding, from quotient and remainder.
LEMMA PaddedBlocksIs ==
  ASSUME NEW q \in Nat, NEW r \in Nat, r < BlockLen
  PROVE  PaddedBlocks(q * BlockLen + r, StdLenField)
           = IF r + StdLenField < BlockLen THEN q + 1 ELSE q + 2
<1> DEFINE n == q * BlockLen + r
           f == StdLenField
<1>1. q * BlockLen \in Nat /\ BlockLen \in Nat /\ f \in Nat /\ f < BlockLen
  BY BlockAssumption, FieldFits, Product
<1>2. /\ (q + 1) * BlockLen = q * BlockLen + BlockLen
      /\ (q + 2) * BlockLen = q * BlockLen + 2 * BlockLen
  BY <1>1
<1>3. CASE r + f < BlockLen
  <2>1. (n + f) + BlockLen = (q + 1) * BlockLen + (r + f)
    BY <1>1, <1>2
  <2>2. ((q + 1) * BlockLen + (r + f)) \div BlockLen = q + 1
    BY <1>1, <1>3, Quotient
  <2>3. QED
    BY <1>3, <2>1, <2>2 DEF PaddedBlocks
<1>4. CASE ~ (r + f < BlockLen)
  <2>1. (n + f) + BlockLen = (q + 2) * BlockLen + (r + f - BlockLen)
    BY <1>1, <1>2
  <2>2. r + f - BlockLen \in Nat /\ r + f - BlockLen < BlockLen
    BY <1>1, <1>4
  <2>3. ((q + 2) * BlockLen + (r + f - BlockLen)) \div BlockLen = q + 2
    BY <1>1, <2>2, Quotient
  <2>4. QED
    BY <1>4, <2>1, <2>3 DEF PaddedBlocks
<1>5. QED
  BY <1>3, <1>4

\* s has the cells of the standard padding, in N blocks, of a message of q
\* blocks and r bytes.
Layout(s, q, r, N) ==
  /\ Len(s) = N
  /\ \A k \in 1 .. q, j \in Cells :
       s[k][j] = MsgByte((k - 1) * BlockLen + j + 1)
  /\ \A j \in Cells :
       s[q + 1][j] = IF j < r THEN MsgByte(q * BlockLen + j + 1)
                     ELSE IF j = r THEN One
                     ELSE IF N = q + 1 /\ j >= LengthAt
                            THEN LenByte(8 * (q * BlockLen + r), j - LengthAt)
                            ELSE Zero
  /\ N = q + 2 => \A j \in Cells :
       s[q + 2][j] = IF j >= LengthAt
                       THEN LenByte(8 * (q * BlockLen + r), j - LengthAt)
                       ELSE Zero

\* The standard's blocks are laid out so.
LEMMA StandardCells ==
  ASSUME NEW q \in Nat, NEW r \in Nat, r < BlockLen,
         NEW N \in {q + 1, q + 2},
         N = PaddedBlocks(q * BlockLen + r, StdLenField)
  PROVE  Layout(Standard(q * BlockLen + r, StdLenField), q, r, N)
<1> DEFINE n == q * BlockLen + r
           s == Standard(n, StdLenField)
           total == N * BlockLen
           cell(p) == IF p < n THEN MsgByte(p + 1)
                      ELSE IF p = n THEN One
                      ELSE IF p >= total - 8 THEN LenByte(8 * n, p - (total - 8))
                      ELSE Zero
<1>1. /\ q * BlockLen \in Nat /\ BlockLen \in Nat /\ BlockLen > 8
      /\ (q + 1) * BlockLen = q * BlockLen + BlockLen
      /\ (q + 2) * BlockLen = q * BlockLen + 2 * BlockLen
      /\ LengthAt = BlockLen - 8
  BY BlockAssumption, Product DEF LengthAt
<1>2. s = [k \in 1 .. N |-> [j \in Cells |-> cell((k - 1) * BlockLen + j)]]
  BY DEF Standard
<1> HIDE DEF s, cell
<1>3. Len(s) = N
  BY <1>2
<1>4. \A k \in 1 .. N : s[k] = [j \in Cells |-> cell((k - 1) * BlockLen + j)]
  BY <1>2
<1>5. \A k \in 1 .. N, j \in Cells : s[k][j] = cell((k - 1) * BlockLen + j)
  BY <1>4, ZenonT(40)
<1>6. ASSUME NEW k \in 1 .. q, NEW j \in Cells
      PROVE  s[k][j] = MsgByte((k - 1) * BlockLen + j + 1)
  <2>1. /\ k - 1 \in Nat /\ (k - 1) * BlockLen \in Nat
        /\ ((k - 1) + 1) * BlockLen = (k - 1) * BlockLen + BlockLen
        /\ (k - 1) + 1 = k /\ k * BlockLen <= q * BlockLen
    BY <1>1, Product
  <2>2. (k - 1) * BlockLen + j < n
    BY <1>1, <2>1 DEF Cells
  <2>3. k \in 1 .. N
    OBVIOUS
  <2>4. QED
    BY <1>5, <2>2, <2>3 DEF cell
<1>7. ASSUME NEW j \in Cells
      PROVE  s[q + 1][j] = IF j < r THEN MsgByte(q * BlockLen + j + 1)
                           ELSE IF j = r THEN One
                           ELSE IF N = q + 1 /\ j >= LengthAt
                                  THEN LenByte(8 * n, j - LengthAt)
                                  ELSE Zero
  <2>1. q + 1 \in 1 .. N /\ (q + 1) - 1 = q
    OBVIOUS
  <2>2. PICK p \in Nat : p = q * BlockLen + j
    BY <1>1 DEF Cells
  <2>3. s[q + 1][j] = cell(p)
    BY <1>5, <2>1, <2>2
  <2>4. p < n <=> j < r
    BY <1>1, <2>2 DEF Cells
  <2>5. p = n <=> j = r
    BY <1>1, <2>2 DEF Cells
  <2>6. MsgByte(p + 1) = MsgByte(q * BlockLen + j + 1)
    BY <2>2
  <2>7. CASE N = q + 1
    <3>1. total = q * BlockLen + BlockLen
      BY <1>1, <2>7
    <3>2. p >= total - 8 <=> j >= LengthAt
      BY <1>1, <2>2, <3>1 DEF Cells
    <3>3. p - (total - 8) = j - LengthAt
      BY <1>1, <2>2, <3>1 DEF Cells
    <3> HIDE DEF n, total
    <3>4. QED
      BY <2>3, <2>4, <2>5, <2>6, <2>7, <3>2, <3>3 DEF cell
  <2>8. CASE N = q + 2
    <3>1. total = q * BlockLen + 2 * BlockLen
      BY <1>1, <2>8
    <3>2. ~ (p >= total - 8) /\ N # q + 1
      BY <1>1, <2>2, <2>8, <3>1 DEF Cells
    <3> HIDE DEF n, total
    <3>3. QED
      BY <2>3, <2>4, <2>5, <2>6, <3>2 DEF cell
  <2>9. QED
    BY <2>7, <2>8
<1>8. ASSUME N = q + 2, NEW j \in Cells
      PROVE  s[q + 2][j] = IF j >= LengthAt THEN LenByte(8 * n, j - LengthAt)
                           ELSE Zero
  <2>1. q + 2 \in 1 .. N /\ (q + 2) - 1 = q + 1
    BY <1>8
  <2>2. PICK p \in Nat : p = q * BlockLen + BlockLen + j
    BY <1>1 DEF Cells
  <2>3. s[q + 2][j] = cell(p)
    BY <1>1, <1>5, <2>1, <2>2
  <2>4. total = q * BlockLen + 2 * BlockLen
    BY <1>1, <1>8
  <2>5. ~ (p < n) /\ p # n
    BY <1>1, <2>2 DEF Cells
  <2>6. p >= total - 8 <=> j >= LengthAt
    BY <1>1, <2>2, <2>4 DEF Cells
  <2>7. p - (total - 8) = j - LengthAt
    BY <1>1, <2>2, <2>4 DEF Cells
  <2> HIDE DEF n, total
  <2>8. QED
    BY <2>3, <2>5, <2>6, <2>7 DEF cell
<1>9. QED
  BY <1>3, <1>6, <1>7, <1>8 DEF s, Layout

\* Which way finish pads, against the standard: the tail of the message says
\* how many blocks each needs.
LEMMA TailCases ==
  ASSUME NEW r \in Nat, r < BlockLen
  PROVE  r \notin OddTails <=> (r + 1 >= LengthAt <=> r + StdLenField >= BlockLen)
BY BlockAssumption, FieldFits DEF OddTails, LengthAt, Cells

\* The heart of the matter: on a context that holds n bytes, finish compresses
\* the standard's padded message iff the tail of the message is not odd.
LEMMA FinishedStandard ==
  ASSUME NEW ivs, NEW c \in Context(ivs), NEW n \in Nat, Holds(c, n)
  PROVE  Finished(c) = Standard(n, StdLenField) <=> n % BlockLen \notin OddTails
<1> DEFINE q == Len(c.blocks)
           r == Index(c)
           F == Finished(c)
           T == Standard(n, StdLenField)
           N == PaddedBlocks(n, StdLenField)
<1>1. /\ q \in Nat /\ r \in Nat /\ r < BlockLen /\ BlockLen \in Nat
      /\ n = q * BlockLen + r /\ c.bit_count = 8 * n
      /\ LengthAt = BlockLen - 8 /\ BlockLen > 8
  BY IndexType, BlockAssumption DEF Context, Holds, LengthAt
<1>2. n % BlockLen = r
  BY <1>1, Quotient
<1>3. N = IF r + StdLenField < BlockLen THEN q + 1 ELSE q + 2
  BY <1>1, PaddedBlocksIs
<1>4. Spills(c) <=> r + 1 >= LengthAt
  BY DEF Spills
<1>5. r \notin OddTails <=> (Spills(c) <=> N = q + 2)
  BY <1>1, <1>3, <1>4, TailCases, FieldFits
<1>6. Len(F) = q + (IF Spills(c) THEN 2 ELSE 1)
  BY FinishedLength
<1>7. /\ Len(T) = N
      /\ \A k \in 1 .. q, j \in Cells : T[k][j] = MsgByte((k - 1) * BlockLen + j + 1)
      /\ \A j \in Cells :
           T[q + 1][j] = IF j < r THEN MsgByte(q * BlockLen + j + 1)
                         ELSE IF j = r THEN One
                         ELSE IF N = q + 1 /\ j >= LengthAt
                                THEN LenByte(8 * n, j - LengthAt)
                                ELSE Zero
      /\ N = q + 2 => \A j \in Cells :
           T[q + 2][j] = IF j >= LengthAt THEN LenByte(8 * n, j - LengthAt)
                         ELSE Zero
  <2> HIDE DEF q, r, T, N
  <2>1. /\ N \in {q + 1, q + 2}
        /\ N = PaddedBlocks(q * BlockLen + r, StdLenField)
        /\ T = Standard(q * BlockLen + r, StdLenField)
    BY <1>1, <1>3 DEF N, T
  <2>2. Layout(Standard(q * BlockLen + r, StdLenField), q, r, N)
    BY <1>1, <2>1, StandardCells
  <2>3. Layout(T, q, r, N)
    BY <2>1, <2>2
  <2>4. 8 * (q * BlockLen + r) = 8 * n
    BY <1>1
  <2>5. QED
    BY <2>3, <2>4 DEF Layout
<1>8. CASE r \in OddTails
  <2>1. CASE Spills(c)
    <3>1. N = q + 1 /\ Len(F) = q + 2
      BY <2>1, <1>3, <1>5, <1>6, <1>8
    <3>2. Len(F) # Len(T)
      BY <3>1, <1>1, <1>7
    <3>3. QED
      BY <3>2, <1>2, <1>8
  <2>2. CASE ~ Spills(c)
    <3>1. N = q + 2 /\ Len(F) = q + 1
      BY <2>2, <1>3, <1>5, <1>6, <1>8
    <3>2. Len(F) # Len(T)
      BY <3>1, <1>1, <1>7
    <3>3. QED
      BY <3>2, <1>2, <1>8
  <2>3. QED
    BY <2>1, <2>2
<1>9. CASE r \notin OddTails
  <2>1. /\ Len(F) = N /\ N \in {q + 1, q + 2}
        /\ Spills(c) <=> N = q + 2
    BY <1>1, <1>3, <1>5, <1>6, <1>9
  <2>2. F = [k \in 1 .. N |-> [j \in Cells |-> F[k][j]]]
    <3>1. F \in Seq([Cells -> Byte])
      BY FinishedType
    <3>2. F = [k \in 1 .. N |-> F[k]]
      BY <2>1, <3>1
    <3>3. \A k \in 1 .. N : F[k] = [j \in Cells |-> F[k][j]]
      BY <2>1, <3>1
    <3>4. QED
      BY <3>2, <3>3
  <2>3. T = [k \in 1 .. N |-> [j \in Cells |-> T[k][j]]]
    <3>1. /\ T = [k \in 1 .. N |-> T[k]]
          /\ \A k \in 1 .. N : T[k] = [j \in Cells |-> T[k][j]]
      BY DEF Standard
    <3> HIDE DEF T, N
    <3>2. QED
      BY <3>1
  <2>4. ASSUME NEW k \in 1 .. q, NEW j \in Cells
        PROVE  F[k][j] = T[k][j]
    <3>1. F[k] = c.blocks[k]
      BY FinishedLength
    <3>2. c.blocks[k][j] = MsgByte((k - 1) * BlockLen + j + 1)
      BY DEF Holds
    <3>3. T[k][j] = MsgByte((k - 1) * BlockLen + j + 1)
      BY <1>7
    <3>4. QED
      BY <3>1, <3>2, <3>3
  <2>5. ASSUME NEW j \in Cells
        PROVE  T[q + 1][j] = IF j < r THEN MsgByte(q * BlockLen + j + 1)
                             ELSE IF j = r THEN One
                             ELSE IF N = q + 1 /\ j >= LengthAt
                                    THEN LenByte(8 * n, j - LengthAt)
                                    ELSE Zero
    BY <1>7
  <2>6. ASSUME NEW j \in Cells, Spills(c) \/ j < LengthAt
        PROVE  Padding(c)[j] = IF j < r THEN MsgByte(q * BlockLen + j + 1)
                               ELSE IF j = r THEN One ELSE Zero
    <3>1. Padding(c)[j] = IF j < r THEN c.buffer[j]
                          ELSE IF j = r THEN One ELSE Zero
      BY <2>6, PaddingCells
    <3>2. j < r => c.buffer[j] = MsgByte(q * BlockLen + j + 1)
      BY <1>1 DEF Holds, Cells
    <3>3. QED
      BY <3>1, <3>2
  <2>7. ASSUME NEW j \in Cells
        PROVE  LastBlock(c)[j] = IF j >= LengthAt THEN LenByte(8 * n, j - LengthAt)
                                 ELSE IF Spills(c) THEN Zero ELSE Padding(c)[j]
    BY <1>1, LastBlockCells
  <2>8. ASSUME NEW j \in Cells
        PROVE  F[q + 1][j] = T[q + 1][j]
    <3>1. CASE Spills(c)
      <4>1. F[q + 1] = Padding(c)
        BY <3>1, FinishedLength
      <4>2. N # q + 1
        <5> HIDE DEF N, q
        <5>1. QED
          BY <3>1, <1>1, <2>1
      <4>3. QED
        BY <3>1, <4>1, <4>2, <2>5, <2>6
    <3>2. CASE ~ Spills(c)
      <4>1. F[q + 1] = LastBlock(c) /\ N = q + 1
        BY <3>2, <2>1, FinishedLength
      <4>2. r < LengthAt
        BY <3>2, <1>1, <1>4
      <4>3. CASE j >= LengthAt
        <5>1. ~ (j < r) /\ j # r
          BY <4>2, <4>3, <1>1 DEF Cells
        <5>2. F[q + 1][j] = LenByte(8 * n, j - LengthAt)
          BY <4>1, <4>3, <2>7
        <5>3. T[q + 1][j] = LenByte(8 * n, j - LengthAt)
          BY <4>1, <4>3, <5>1, <2>5
        <5>4. QED
          BY <5>2, <5>3
      <4>4. CASE ~ (j >= LengthAt)
        <5>1. j < LengthAt
          BY <4>4, <1>1 DEF Cells
        <5>2. F[q + 1][j] = Padding(c)[j]
          BY <3>2, <4>1, <4>4, <2>7
        <5>3. QED
          BY <5>1, <5>2, <4>4, <2>5, <2>6
      <4>5. QED
        BY <4>3, <4>4
    <3>3. QED
      BY <3>1, <3>2
  <2>9. ASSUME N = q + 2, NEW j \in Cells
        PROVE  F[q + 2][j] = T[q + 2][j]
    <3>1. Spills(c)
      BY <2>1, <2>9
    <3>2. F[q + 2] = LastBlock(c)
      BY <3>1, FinishedLength
    <3>3. T[q + 2][j] = IF j >= LengthAt THEN LenByte(8 * n, j - LengthAt)
                        ELSE Zero
      BY <1>7, <2>9
    <3>4. QED
      BY <3>1, <3>2, <3>3, <2>7
  <2> HIDE DEF F, T, N, q, r
  <2>10. ASSUME NEW k \in 1 .. N, NEW j \in Cells
         PROVE  F[k][j] = T[k][j]
    <3>1. k \in 1 .. q \/ k = q + 1 \/ (k = q + 2 /\ N = q + 2)
      BY <1>1, <2>1
    <3>2. QED
      BY <3>1, <2>4, <2>8, <2>9
  <2>11. \A k \in 1 .. N : [j \in Cells |-> F[k][j]] = [j \in Cells |-> T[k][j]]
    BY <2>10
  <2>12. F = T
    BY <2>2, <2>3, <2>11
  <2>13. QED
    BY <2>12, <1>2, <1>9 DEF F, T
<1>10. QED
  BY <1>8, <1>9

-----------------------------------------------------------------------------
(***************************************************************************)
(* The digest.  An open context has no digest yet, so that a step which    *)
(* opens or feeds one says nothing of an earlier message.                  *)
(***************************************************************************)
OpenHasNoDigest == sha # "none" => digest = NoDigest

DigestInv == TypeOK /\ HoldsMessage /\ OpenHasNoDigest /\ DigestIsStandard

\* finish writes the digest of the message the context holds, and so the
\* standard's, up to odd tails.
LEMMA EmitDigest ==
  ASSUME DigestInv, sha # "none", Emit(sha)
  PROVE  OpenHasNoDigest' /\ DigestIsStandard'
<1>1. /\ digest' = [alg |-> sha, iv |-> ctx.iv, blocks |-> Finished(ctx)]
      /\ sha' = "none" /\ fed' = fed
  BY DEF Emit
<1>2. /\ ctx \in Context(Variants \cup {"zeros"}) /\ fed \in Nat
      /\ Holds(ctx, fed) /\ ctx.iv = sha
  BY CallAssumption, HoldsMessageIs DEF DigestInv, TypeOK, Context
<1>3. Finished(ctx) = Standard(fed, StdLenField)
        <=> fed % BlockLen \notin OddTails
  BY <1>2, FinishedStandard
<1>4. /\ digest'.alg = sha /\ digest'.iv = sha
      /\ digest'.blocks = Finished(ctx)
  BY <1>1, <1>2
<1>5. family' = family
  BY DEF Emit
<1>6. QED
  BY <1>1, <1>3, <1>4, <1>5, SameFamily DEF OpenHasNoDigest, DigestIsStandard

LEMMA OpenDigest ==
  ASSUME NEW alg, NEW buf, Open(alg, buf)
  PROVE  OpenHasNoDigest' /\ DigestIsStandard'
BY DEF Open, OpenHasNoDigest, DigestIsStandard

LEMMA RefuseDigest ==
  ASSUME DigestInv, NEW code, Refuse(code)
  PROVE  OpenHasNoDigest' /\ DigestIsStandard'
<1>1. sha' = sha /\ digest' = digest /\ fed' = fed /\ family' = family
  BY DEF Refuse
<1>2. QED
  BY <1>1, SameFamily DEF DigestInv, OpenHasNoDigest, DigestIsStandard

LEMMA DigestStep ==
  ASSUME DigestInv, [BlockwiseNext]_vars
  PROVE  OpenHasNoDigest' /\ DigestIsStandard'
<1>1. ASSUME NEW alg, NEW buf, Open(alg, buf)
      PROVE  OpenHasNoDigest' /\ DigestIsStandard'
  BY <1>1, OpenDigest
<1>2. ASSUME NEW code, Refuse(code)
      PROVE  OpenHasNoDigest' /\ DigestIsStandard'
  BY <1>2, RefuseDigest
<1>3. CASE Inits
  BY <1>1, <1>2, <1>3 DEF Inits, Md5Init, Sha1Init, Sha256Init, Sha512Init
<1>4. ASSUME NEW n \in Chunks, Updates(n)
      PROVE  OpenHasNoDigest' /\ DigestIsStandard'
  <2>1. Absorb(n)
    BY <1>4 DEF Updates, Md5Update, Sha1Update, Sha256Update, Sha512Update
  <2>2. sha # "none" /\ digest' = digest
    BY <2>1 DEF Absorb
  <2>3. digest' = NoDigest
    BY <2>2 DEF DigestInv, OpenHasNoDigest
  <2>4. QED
    BY <2>3 DEF OpenHasNoDigest, DigestIsStandard
<1>5. ASSUME NEW room \in BOOLEAN, Finishes(sha, room)
      PROVE  OpenHasNoDigest' /\ DigestIsStandard'
  <2>1. CASE Md5Finish
    <3>1. sha = "MD5"
      BY <2>1 DEF Md5Finish, DigestInv, TypeOK, Variants
    <3>2. QED
      BY <2>1, <3>1, EmitDigest DEF Md5Finish
  <2>2. CASE Sha1Finish(room)
    <3>1. sha = "SHA1"
      BY <2>2 DEF Sha1Finish, DigestInv, TypeOK, Variants
    <3>2. QED
      BY <1>2, <2>2, <3>1, EmitDigest DEF Sha1Finish
  <2>3. CASE Sha256Finish(sha, room)
    BY <1>2, <2>3, EmitDigest DEF Sha256Finish
  <2>4. CASE Sha512Finish(sha, room)
    <3>1. sha \in Variants
      BY <2>4 DEF Sha512Finish, DigestInv, TypeOK
    <3>2. QED
      BY <1>2, <2>4, <3>1, EmitDigest DEF Sha512Finish
  <2>5. QED
    BY <1>5, <2>1, <2>2, <2>3, <2>4 DEF Finishes
<1>6. CASE UNCHANGED vars
  <2>1. sha' = sha /\ digest' = digest /\ fed' = fed /\ family' = family
    BY <1>6 DEF vars
  <2>2. QED
    BY <2>1, SameFamily DEF DigestInv, OpenHasNoDigest, DigestIsStandard
<1>7. QED
  BY <1>3, <1>4, <1>5, <1>6 DEF BlockwiseNext

LEMMA DigestInit == Init => OpenHasNoDigest /\ DigestIsStandard
BY DEF Init, OpenHasNoDigest, DigestIsStandard

\* For every block length, length field and block-wise caller, a digest that
\* finish returns is the standard's for the message fed, except exactly on the
\* odd tails, where *_finish spills one byte early (md5.c:237) or, in
\* sha512.c, writes 8 bytes of a 16-byte length field.
THEOREM DigestCorrect == BlockwiseSpec => []DigestIsStandard
<1>1. Init => DigestInv
  BY InitType, HoldsMessageInit, DigestInit DEF DigestInv
<1>2. DigestInv /\ [BlockwiseNext]_vars => DigestInv'
  BY BlockwiseType, HoldsMessageStep, DigestStep DEF DigestInv
<1>3. DigestInv => DigestIsStandard
  BY DEF DigestInv
<1>4. QED
  BY <1>1, <1>2, <1>3, PTL DEF BlockwiseSpec

-----------------------------------------------------------------------------
(***************************************************************************)
(* Any chunking: what is true of the counter and of the buffer even where  *)
(* update misplaces bytes.                                                 *)
(***************************************************************************)

\* The 64-bit counter goes around between two blocks.
LEMMA Rounds ==
  /\ CountMod = (CountMod \div (8 * BlockLen)) * (8 * BlockLen)
  /\ CountMod \div (8 * BlockLen) \in Nat
<1>1. CountMod \in Nat /\ 8 * BlockLen \in Nat /\ 8 * BlockLen > 0
  BY BlockAssumption, WidthAssumption
<1>2. CountMod % (8 * BlockLen) = 0
  BY WidthAssumption
<1> DEFINE b == 8 * BlockLen
<1> HIDE DEF b
<1>3. CountMod = (CountMod \div b) * b + (CountMod % b) /\ CountMod \div b \in Nat
  BY <1>1, Division DEF b
<1>4. (CountMod \div b) * b \in Nat
  BY <1>1, <1>3, Product DEF b
<1>5. QED
  BY <1>2, <1>3, <1>4 DEF b

LEMMA RemainderIs ==
  ASSUME NEW n \in Nat, NEW q \in Nat, NEW r \in Nat, NEW b \in Nat, r < b,
         n = q * b + r
  PROVE  n % b = r
BY Quotient

\* Adding before or after the counter goes around is the same.
LEMMA AddAround ==
  ASSUME NEW a \in Nat, NEW b \in Nat, NEW m \in Nat, m > 0
  PROVE  ((a % m) + b) % m = (a + b) % m
<1> DEFINE x == a \div m
           r == a % m
           y == (r + b) \div m
           z == (r + b) % m
<1>1. /\ x \in Nat /\ r \in Nat /\ a = x * m + r
  BY Division
<1>2. r + b \in Nat
  BY <1>1
<1>3. /\ y \in Nat /\ z \in Nat /\ z < m /\ r + b = y * m + z
  <2> HIDE DEF r
  <2>1. /\ (r + b) % m \in 0 .. m - 1 /\ (r + b) \div m \in Nat
        /\ r + b = ((r + b) \div m) * m + ((r + b) % m)
    BY <1>2, Division
  <2> QED  BY <2>1
<1> HIDE DEF x, r, y, z
<1>4. x * m \in Nat /\ y * m \in Nat /\ (x + y) * m = x * m + y * m
  BY <1>1, <1>3, Product, Distribute
<1>5. a + b = (x + y) * m + z /\ x + y \in Nat
  BY <1>1, <1>3, <1>4
<1>6. (a + b) % m = z
  <2> DEFINE s == a + b
             t == x + y
  <2>1. s \in Nat /\ t \in Nat /\ s = t * m + z
    BY <1>5
  <2> HIDE DEF s, t
  <2>2. s % m = z
    BY <1>3, <2>1, RemainderIs
  <2> QED  BY <2>2 DEF s
<1>7. QED
  BY <1>6 DEF r, z

\* The counter tells the place in the block even after it has gone around.
LEMMA IndexAround ==
  ASSUME NEW n \in Nat
  PROVE  (((8 * n) % CountMod) \div 8) % BlockLen = n % BlockLen
<1> DEFINE w == CountMod \div (8 * BlockLen)
           q == (8 * n) \div CountMod
           r == (8 * n) % CountMod
<1>1. /\ BlockLen \in Nat /\ BlockLen > 0 /\ CountMod \in Nat /\ CountMod > 0
      /\ w \in Nat /\ CountMod = w * (8 * BlockLen)
  BY BlockAssumption, WidthAssumption, Rounds
<1>2. /\ q \in Nat /\ r \in Nat /\ 8 * n = q * CountMod + r
  <2>1. 8 * n \in Nat
    OBVIOUS
  <2> QED  BY <1>1, <2>1, Division
<1> HIDE DEF w, q, r
<1> DEFINE rest == n - q * (w * BlockLen)
<1>3. /\ w * BlockLen \in Nat /\ CountMod = 8 * (w * BlockLen)
      /\ q * (w * BlockLen) \in Nat
      /\ q * CountMod = 8 * (q * (w * BlockLen))
  <2>1. w * BlockLen \in Nat /\ w * (8 * BlockLen) = 8 * (w * BlockLen)
    BY <1>1
  <2> DEFINE v == w * BlockLen
  <2>2. v \in Nat /\ CountMod = 8 * v
    BY <1>1, <2>1
  <2> HIDE DEF v
  <2>3. q * v \in Nat /\ q * (8 * v) = 8 * (q * v)
    BY <1>2, <2>2
  <2> QED  BY <2>2, <2>3 DEF v
<1>4. r = 8 * rest /\ rest \in Nat
  <2> DEFINE p == q * (w * BlockLen)
  <2>1. p \in Nat /\ 8 * n = 8 * p + r /\ rest = n - p
    BY <1>2, <1>3
  <2> HIDE DEF p, rest
  <2> QED  BY <1>2, <2>1
<1> DEFINE y == rest \div BlockLen
           z == rest % BlockLen
<1>5. /\ y \in Nat /\ z \in Nat /\ z < BlockLen /\ rest = y * BlockLen + z
  <2> HIDE DEF rest
  <2>1. /\ rest % BlockLen \in 0 .. BlockLen - 1 /\ rest \div BlockLen \in Nat
        /\ rest = (rest \div BlockLen) * BlockLen + (rest % BlockLen)
    BY <1>1, <1>4, Division
  <2> QED  BY <1>1, <2>1
<1>6. n % BlockLen = z
  <2>1. n = q * (w * BlockLen) + rest
    BY <1>2, <1>3
  <2> HIDE DEF rest, y, z
  <2>2. q * (w * BlockLen) = (q * w) * BlockLen /\ q * w \in Nat
    BY <1>1, <1>2
  <2>3. (q * w) * BlockLen \in Nat /\ y * BlockLen \in Nat
        /\ (q * w + y) * BlockLen = (q * w) * BlockLen + y * BlockLen
    BY <1>1, <1>5, <2>2, Product, Distribute
  <2>4. n = (q * w + y) * BlockLen + z /\ q * w + y \in Nat
    BY <1>5, <2>1, <2>2, <2>3
  <2> QED  BY <1>1, <1>5, <2>4, Quotient
<1>7. r \div 8 = rest
  <2> HIDE DEF rest
  <2> QED  BY <1>4
<1>8. QED
  BY <1>6, <1>7 DEF r

\* CountsEveryByte of a context and a number of bytes.
Counts(c, n) ==
  /\ c.bit_count = (8 * n) % CountMod
  /\ n = Len(c.blocks) * BlockLen + Index(c)

LEMMA CountsOne ==
  ASSUME NEW ivs, NEW c \in Context(ivs), NEW m \in Nat, NEW n \in Nat,
         Counts(c, m), 8 * n < UIntMod
  PROVE  Counts(Updated(c, Input(m, n)), m + n)
<1> DEFINE u == Updated(c, Input(m, n))
           q == Len(c.blocks)
           r == Index(c)
<1>1. /\ r \in Nat /\ r < BlockLen /\ BlockLen \in Nat /\ q \in Nat
      /\ c.bit_count = (8 * m) % CountMod /\ m = q * BlockLen + r
      /\ CountMod \in Nat /\ CountMod > 0 /\ UIntMod \in Nat
  BY IndexType, BlockAssumption, WidthAssumption DEF Counts, Context
<1>2. u.bit_count = (c.bit_count + ((8 * n) % UIntMod)) % CountMod
  <2>1. CASE n >= BlockLen - r
    BY <2>1, UpdatedLong
  <2>2. CASE n < BlockLen - r
    BY <2>2, UpdatedShort
  <2> QED  BY <1>1, <2>1, <2>2
<1>3. u.bit_count = (8 * (m + n)) % CountMod
  <2> DEFINE a == 8 * m
             b == 8 * n
  <2>1. a \in Nat /\ b \in Nat /\ b < UIntMod
    OBVIOUS
  <2>2. 8 * (m + n) = a + b
    OBVIOUS
  <2>3. c.bit_count = a % CountMod
    BY <1>1
  <2>4. u.bit_count = (c.bit_count + (b % UIntMod)) % CountMod
    BY <1>2
  <2>5. CountMod \in Nat /\ CountMod > 0 /\ UIntMod \in Nat
    BY WidthAssumption
  <2> HIDE DEF u, q, r, a, b
  <2>6. b % UIntMod = b
    BY <2>1, <2>5
  <2>7. ((a % CountMod) + b) % CountMod = (a + b) % CountMod
    BY <2>1, <2>5, AddAround
  <2> QED  BY <2>2, <2>3, <2>4, <2>6, <2>7
<1>4. Index(u) = (m + n) % BlockLen
  <2> HIDE DEF u
  <2> QED  BY <1>3, IndexAround DEF Index
<1>5. q * BlockLen \in Nat
  BY <1>1, Product
<1>6. CASE n < BlockLen - r
  <2>1. Len(u.blocks) = q
    BY <1>6, UpdatedShort
  <2> HIDE DEF q, r, u
  <2>2. m + n = q * BlockLen + (r + n) /\ r + n \in Nat /\ r + n < BlockLen
    BY <1>1, <1>5, <1>6
  <2> DEFINE s == m + n
             t == r + n
  <2>3. s \in Nat /\ t \in Nat /\ t < BlockLen /\ s = q * BlockLen + t
    BY <2>2
  <2> HIDE DEF s, t
  <2>4. s % BlockLen = t
    BY <1>1, <2>3, RemainderIs
  <2> QED  BY <1>3, <1>4, <2>1, <2>2, <2>4 DEF Counts, u, s, t
<1>7. CASE n >= BlockLen - r
  <2> DEFINE w == Whole(c, n)
             a == Appended(c, Input(m, n), w)
             rest == n - Used(c, n)
  <2>1. /\ w \in Nat /\ rest \in Nat /\ rest < BlockLen
        /\ (BlockLen - r) + w * BlockLen <= n
        /\ rest = n - ((BlockLen - r) + w * BlockLen)
    BY <1>7, UsedBounds DEF Used
  <2>2. u.blocks = c.blocks \o a
    BY <1>7, UpdatedLong
  <2> HIDE DEF w
  <2>3. a \in Seq([Cells -> Byte]) /\ Len(a) = w + 1
    BY <2>1, AppendedCells
  <2>4. Len(u.blocks) = q + w + 1
    <3>1. c.blocks \in Seq([Cells -> Byte])
      BY DEF Context
    <3> HIDE DEF a, u
    <3>2. Len(c.blocks \o a) = Len(c.blocks) + Len(a)
      BY <2>3, <3>1, Concat
    <3>3. q = Len(c.blocks)
      OBVIOUS
    <3>4. q \in Nat /\ w \in Nat /\ Len(a) = w + 1
      BY <1>1, <2>1, <2>3
    <3> HIDE DEF q
    <3>5. Len(u.blocks) = q + Len(a)
      BY <2>2, <3>2, <3>3
    <3> QED  BY <3>4, <3>5
  <2> HIDE DEF q, r, u, rest
  <2>5. w * BlockLen \in Nat
        /\ (q + w + 1) * BlockLen = q * BlockLen + w * BlockLen + BlockLen
    BY <1>1, <2>1, Product, Distribute
  <2>6. m + n = (q + w + 1) * BlockLen + rest /\ q + w + 1 \in Nat
    BY <1>1, <1>5, <2>1, <2>5
  <2> DEFINE s == m + n
             t == q + w + 1
  <2>7. s % BlockLen = rest
    <3>1. s \in Nat /\ t \in Nat /\ s = t * BlockLen + rest
      BY <2>6
    <3> HIDE DEF s, t
    <3> QED  BY <1>1, <2>1, <3>1, RemainderIs
  <2> QED  BY <1>3, <1>4, <2>4, <2>6, <2>7 DEF Counts, u, s
<1>8. QED
  BY <1>1, <1>6, <1>7

OpenCounts ==
  sha # "none" /\ (\A n \in Chunks : 8 * n < UIntMod) => Counts(ctx, fed)

LEMMA OpenCountsStep == TypeOK /\ OpenCounts /\ [Next]_vars => OpenCounts'
<1> SUFFICES ASSUME TypeOK, OpenCounts, [Next]_vars,
                    \A n \in Chunks : 8 * n < UIntMod, sha' # "none"
             PROVE  Counts(ctx, fed)'
  BY DEF OpenCounts
<1>1. ASSUME NEW alg, NEW buf, Open(alg, buf) PROVE Counts(ctx, fed)'
  <2>1. /\ fed' = 0 /\ ctx'.bit_count = 0 /\ ctx'.blocks = <<>>
    BY <1>1 DEF Open, Opened
  <2>2. BlockLen \in Nat /\ BlockLen > 0 /\ CountMod \in Nat /\ CountMod > 0
    BY BlockAssumption, WidthAssumption
  <2>3. /\ (8 * 0) % CountMod = 0 /\ (0 \div 8) % BlockLen = 0
        /\ Len(<<>>) * BlockLen = 0
    BY <2>2
  <2> QED  BY <2>1, <2>3 DEF Counts, Index
<1>2. ASSUME sha' = sha, ctx' = ctx, fed' = fed PROVE Counts(ctx, fed)'
  BY <1>2 DEF OpenCounts, Counts, Index
<1>3. ASSUME NEW code, Refuse(code) PROVE Counts(ctx, fed)'
  BY <1>2, <1>3 DEF Refuse
<1>4. CASE Inits
  BY <1>1, <1>3, <1>4 DEF Inits, Md5Init, Sha1Init, Sha256Init, Sha512Init
<1>5. ASSUME NEW n \in Chunks, Updates(n) PROVE Counts(ctx, fed)'
  <2>1. Absorb(n)
    BY <1>5 DEF Updates, Md5Update, Sha1Update, Sha256Update, Sha512Update
  <2>2. /\ n \in Nat /\ fed \in Nat /\ ctx \in Context(Ivs) /\ sha # "none"
        /\ sha' = sha /\ fed' = fed + n /\ Counts(ctx, fed)
    BY <2>1, CallAssumption, TypeOKIs DEF Absorb, OpenCounts
  <2>3. CASE n = 0
    BY <1>2, <2>1, <2>2, <2>3 DEF Absorb
  <2>4. CASE n # 0
    <3>1. ctx' = Updated(ctx, Input(fed, n))
      BY <2>1, <2>4 DEF Absorb, Input
    <3>2. Counts(Updated(ctx, Input(fed, n)), fed + n)
      BY <2>2, CountsOne
    <3> QED  BY <2>2, <3>1, <3>2 DEF Counts, Index
  <2> QED  BY <2>3, <2>4
<1>6. ASSUME NEW alg \in Variants \cup {Foreign}, NEW room \in BOOLEAN,
             Finishes(alg, room)
      PROVE  Counts(ctx, fed)'
  <2>1. \E code : Refuse(code)
    BY <1>6 DEF Finishes, Md5Finish, Sha1Finish, Sha256Finish, Sha512Finish, Emit
  <2> QED  BY <1>3, <2>1
<1>7. CASE UNCHANGED vars
  BY <1>2, <1>7 DEF vars
<1>8. QED
  BY <1>4, <1>5, <1>6, <1>7 DEF Next

\* However the caller cuts the message, over any number of calls and past the
\* end of the 64-bit counter: bit_count is the length fed, and one block is
\* compressed for every BlockLen bytes, though update may fill it with others.
THEOREM EveryByteCounted == Spec => []CountsEveryByte
<1>1. Init => TypeOK /\ OpenCounts
  BY InitType DEF Init, OpenCounts
<1>2. TypeOK /\ OpenCounts /\ [Next]_vars => (TypeOK /\ OpenCounts)'
  BY NextType, OpenCountsStep
<1>3. TypeOK /\ OpenCounts => CountsEveryByte
  <2> SUFFICES ASSUME TypeOK, Counts(ctx, fed)
               PROVE  /\ ctx.bit_count = (8 * fed) % CountMod
                      /\ Len(ctx.blocks) = fed \div BlockLen
    BY DEF OpenCounts, CountsEveryByte
  <2>1. ctx \in Context(Ivs) /\ ctx.blocks \in Seq([Cells -> Byte])
    BY TypeOKIs DEF Context
  <2>2. /\ Index(ctx) \in Nat /\ Index(ctx) < BlockLen /\ BlockLen \in Nat
        /\ Len(ctx.blocks) \in Nat
    BY <2>1, IndexType, BlockAssumption
  <2> QED  BY <2>2, Quotient DEF Counts
<1>4. QED
  BY <1>1, <1>2, <1>3, PTL DEF Spec

-----------------------------------------------------------------------------
(***************************************************************************)
(* Any chunking: no byte of the digest comes from memory nobody wrote.     *)
(***************************************************************************)

Clean(f) == \A j \in Cells : f[j] # Junk

\* Neither the buffer nor a block compressed so far holds such a byte.
CleanContext(c) ==
  Clean(c.buffer) /\ \A k \in 1 .. Len(c.blocks) : Clean(c.blocks[k])

LEMMA WrittenBytes ==
  /\ One # Junk /\ Zero # Junk
  /\ \A i : MsgByte(i) # Junk
  /\ \A n, j : LenByte(n, j) # Junk
BY DEF One, Zero, Junk, MsgByte, LenByte

LEMMA CopyClean ==
  ASSUME NEW buf \in [Cells -> Byte], NEW at \in Nat, NEW n \in Nat,
         NEW from \in Nat, NEW input, at + n <= BlockLen, Clean(buf),
         \A i \in from + 1 .. from + n : input[i] # Junk
  PROVE  Clean(Copy(buf, at, input, from, n))
<1> SUFFICES ASSUME NEW j \in Cells
             PROVE  Copy(buf, at, input, from, n)[j] # Junk
  BY DEF Clean
<1>1. j \in DOMAIN buf \cup at .. at + n - 1
  OBVIOUS
<1>2. CASE j \in at .. at + n - 1
  <2>1. from + 1 + j - at \in from + 1 .. from + n
    BY <1>2
  <2> QED  BY <1>1, <1>2, <2>1 DEF Copy
<1>3. CASE j \notin at .. at + n - 1
  BY <1>1, <1>3 DEF Copy, Clean
<1>4. QED
  BY <1>2, <1>3

LEMMA JoinClean ==
  ASSUME NEW S, NEW s \in Seq(S), NEW t \in Seq(S),
         \A k \in 1 .. Len(s) : Clean(s[k]), \A k \in 1 .. Len(t) : Clean(t[k])
  PROVE  \A k \in 1 .. Len(s \o t) : Clean((s \o t)[k])
<1> SUFFICES ASSUME NEW k \in 1 .. Len(s \o t) PROVE Clean((s \o t)[k])
  OBVIOUS
<1>1. Len(s) \in Nat /\ Len(t) \in Nat /\ Len(s \o t) = Len(s) + Len(t)
  OBVIOUS
<1>2. CASE k <= Len(s)
  BY <1>1, <1>2, Concat
<1>3. CASE k > Len(s)
  <2>1. k - Len(s) \in 1 .. Len(t)
    BY <1>1, <1>3
  <2>2. (s \o t)[Len(s) + (k - Len(s))] = t[k - Len(s)]
    BY <2>1, Concat
  <2>3. Len(s) + (k - Len(s)) = k
    BY <1>1
  <2> QED  BY <2>1, <2>2, <2>3
<1>4. QED
  BY <1>1, <1>2, <1>3

\* Update writes bytes of the message only: into the buffer and into blocks.
LEMMA UpdatedClean ==
  ASSUME NEW ivs, NEW c \in Context(ivs), NEW start \in Nat, NEW n \in Nat,
         CleanContext(c)
  PROVE  CleanContext(Updated(c, Input(start, n)))
<1> DEFINE input == Input(start, n)
           u == Updated(c, input)
<1>1. /\ Index(c) \in Nat /\ Index(c) < BlockLen /\ BlockLen \in Nat
      /\ c.buffer \in [Cells -> Byte] /\ c.blocks \in Seq([Cells -> Byte])
      /\ Clean(c.buffer) /\ \A k \in 1 .. Len(c.blocks) : Clean(c.blocks[k])
  BY IndexType, BlockAssumption DEF Context, CleanContext
<1>2. Len(input) = n /\ \A i \in 1 .. n : input[i] \in Byte /\ input[i] # Junk
  BY InputProps, WrittenBytes
<1>3. CASE n < BlockLen - Index(c)
  <2>1. u.blocks = c.blocks
    BY <1>3, UpdatedShort
  <2>2. u.buffer = Copy(c.buffer, 0, input, 0, n)
    BY <1>1, <1>2, <1>3 DEF Updated, Context
  <2>3. \A i \in 0 + 1 .. 0 + n : input[i] # Junk
    BY <1>2
  <2>4. 0 + n <= BlockLen
    BY <1>1, <1>3
  <2> HIDE DEF input
  <2>5. Clean(Copy(c.buffer, 0, input, 0, n))
    BY <1>1, <2>3, <2>4, CopyClean
  <2> HIDE DEF u
  <2> QED  BY <1>1, <2>1, <2>2, <2>5 DEF CleanContext, u, input
<1>4. CASE n >= BlockLen - Index(c)
  <2> DEFINE w == Whole(c, n)
             a == Appended(c, input, w)
             used == Used(c, n)
             rest == n - used
             first == Copy(c.buffer, Index(c), input, 0, BlockLen - Index(c))
             last == Copy(first, 0, input, used, rest)
  <2>1. /\ w \in Nat /\ used \in Nat /\ used <= n
        /\ rest \in Nat /\ rest < BlockLen
        /\ (BlockLen - Index(c)) + w * BlockLen <= n
    BY <1>4, UsedBounds DEF Used
  <2>2. u.blocks = c.blocks \o a
    BY <1>4, UpdatedLong
  <2>3. u.buffer = last
    BY <1>1, <1>2, <1>4 DEF Updated, Used, Whole, Context
  <2> HIDE DEF w, used
  <2>4. /\ a \in Seq([Cells -> Byte]) /\ Len(a) = w + 1
        /\ \A j \in Cells :
             a[1][j] = IF j < Index(c) THEN c.buffer[j]
                       ELSE MsgByte(start + 1 + j - Index(c))
        /\ \A k \in 1 .. w, j \in Cells :
             a[k + 1][j] = MsgByte(start + (BlockLen - Index(c))
                                     + (k - 1) * BlockLen + 1 + j)
    BY <2>1, AppendedCells
  <2> HIDE DEF a, input
  <2>5. \A k \in 1 .. Len(a) : Clean(a[k])
    <3>1. Clean(a[1])
      BY <1>1, <2>4, WrittenBytes DEF Clean
    <3>2. ASSUME NEW k \in 1 .. w PROVE Clean(a[k + 1])
      BY <2>4, <3>2, WrittenBytes DEF Clean
    <3>3. ASSUME NEW k \in 1 .. Len(a) PROVE k = 1 \/ k - 1 \in 1 .. w
      BY <2>1, <2>4, <3>3
    <3> SUFFICES ASSUME NEW k \in 1 .. Len(a) PROVE Clean(a[k])
      OBVIOUS
    <3>4. CASE k - 1 \in 1 .. w
      <4>1. Clean(a[(k - 1) + 1])
        BY <3>2, <3>4
      <4> QED  BY <4>1
    <3> QED  BY <3>1, <3>3, <3>4
  <2>6. first \in [Cells -> Byte] /\ Clean(first)
    <3>1. /\ \A i \in 0 + 1 .. 0 + (BlockLen - Index(c)) :
               input[i] \in Byte /\ input[i] # Junk
          /\ BlockLen - Index(c) \in Nat
          /\ Index(c) + (BlockLen - Index(c)) <= BlockLen
      BY <1>1, <1>2, <1>4
    <3> QED  BY <1>1, <3>1, CopyType, CopyClean
  <2> HIDE DEF first
  <2>7. Clean(last)
    <3>1. \A i \in used + 1 .. used + rest : input[i] # Junk
      BY <1>2, <2>1
    <3>2. 0 + rest <= BlockLen
      BY <1>1, <2>1
    <3> HIDE DEF rest
    <3> QED  BY <2>1, <2>6, <3>1, <3>2, CopyClean
  <2> HIDE DEF last, u
  <2>8. \A k \in 1 .. Len(u.blocks) : Clean(u.blocks[k])
    <3> DEFINE b == c.blocks
    <3>1. /\ b \in Seq([Cells -> Byte]) /\ u.blocks = b \o a
          /\ \A k \in 1 .. Len(b) : Clean(b[k])
      BY <1>1, <2>2
    <3> HIDE DEF b
    <3> QED  BY <2>4, <2>5, <3>1, JoinClean
  <2> QED  BY <2>3, <2>7, <2>8 DEF CleanContext, u, input
<1>5. QED
  BY <1>1, <1>3, <1>4

\* So does finish, which adds the marker, zeros and the length.
LEMMA FinishedClean ==
  ASSUME NEW ivs, NEW c \in Context(ivs), CleanContext(c)
  PROVE  \A k \in 1 .. Len(Finished(c)) : Clean(Finished(c)[k])
<1>1. Spills(c) => Clean(Padding(c))
  BY PaddingCells, WrittenBytes DEF Clean, CleanContext
<1>2. Clean(LastBlock(c))
  <2> SUFFICES ASSUME NEW j \in Cells PROVE LastBlock(c)[j] # Junk
    BY DEF Clean
  <2>1. j \in Nat /\ LengthAt \in Nat
    BY BlockAssumption DEF LengthAt, Cells
  <2>2. CASE j >= LengthAt \/ Spills(c)
    BY <2>2, LastBlockCells, WrittenBytes
  <2>3. CASE j < LengthAt /\ ~ Spills(c)
    <3>1. Padding(c)[j] # Junk
      BY <2>3, PaddingCells, WrittenBytes DEF Clean, CleanContext
    <3> QED  BY <2>1, <2>3, <3>1, LastBlockCells
  <2> QED  BY <2>1, <2>2, <2>3
<1>3. Len(c.blocks) \in Nat
  BY DEF Context
<1> SUFFICES ASSUME NEW k \in 1 .. Len(Finished(c))
             PROVE  Clean(Finished(c)[k])
  OBVIOUS
<1>4. CASE k \in 1 .. Len(c.blocks)
  BY <1>4, FinishedLength DEF CleanContext
<1>5. CASE k \notin 1 .. Len(c.blocks)
  <2>1. CASE Spills(c)
    <3>1. k = Len(c.blocks) + 1 \/ k = Len(c.blocks) + 2
      <4> DEFINE m == Len(c.blocks)
                 f == Len(Finished(c))
      <4>1. m \in Nat /\ f = m + 2 /\ k \in 1 .. f /\ k \notin 1 .. m
        BY <1>3, <1>5, <2>1, FinishedLength
      <4> HIDE DEF m, f
      <4>2. k \in Int
        BY <4>1
      <4>3. k = m + 1 \/ k = m + 2
        BY <4>1, <4>2
      <4> QED  BY <4>3 DEF m
    <3> QED  BY <1>1, <1>2, <2>1, <3>1, FinishedLength
  <2>2. CASE ~ Spills(c)
    <3>1. k = Len(c.blocks) + 1
      <4> DEFINE m == Len(c.blocks)
                 f == Len(Finished(c))
      <4>1. m \in Nat /\ f = m + 1 /\ k \in 1 .. f /\ k \notin 1 .. m
        BY <1>3, <1>5, <2>2, FinishedLength
      <4> HIDE DEF m, f
      <4>2. k \in Int
        BY <4>1
      <4>3. k = m + 1
        BY <4>1, <4>2
      <4> QED  BY <4>3 DEF m
    <3> QED  BY <1>2, <2>2, <3>1, FinishedLength
  <2> QED  BY <2>1, <2>2
<1>6. QED
  BY <1>4, <1>5

\* Only sha1_init opens a context on a buffer that it did not clear.
OpenIsClean ==
  family # "sha1" =>
    /\ sha # "none" => CleanContext(ctx)
    /\ \A k \in 1 .. Len(digest.blocks) : Clean(digest.blocks[k])

LEMMA OpenIsCleanStep == TypeOK /\ OpenIsClean /\ [Next]_vars => OpenIsClean'
<1> SUFFICES ASSUME TypeOK, OpenIsClean, [Next]_vars, family' # "sha1"
             PROVE  /\ sha' # "none" => CleanContext(ctx')
                    /\ \A k \in 1 .. Len(digest'.blocks) : Clean(digest'.blocks[k])
  BY DEF OpenIsClean, CleanContext, Clean
<1> DEFINE Kept == /\ sha' # "none" => CleanContext(ctx')
                   /\ \A k \in 1 .. Len(digest'.blocks) : Clean(digest'.blocks[k])
<1>1. ASSUME NEW alg, Open(alg, Blank) PROVE Kept
  <2>1. ctx' = Opened(alg, Blank) /\ digest' = NoDigest
    BY <1>1 DEF Open
  <2>2. Clean(Blank)
    BY WrittenBytes DEF Clean, Blank
  <2> QED  BY <2>1, <2>2 DEF CleanContext, Opened, NoDigest
<1>2. ASSUME sha' = sha, ctx' = ctx, family' = family, digest' = digest
      PROVE  Kept
  BY <1>2 DEF OpenIsClean
<1>3. ASSUME NEW code, Refuse(code) PROVE Kept
  BY <1>2, <1>3 DEF Refuse
<1>4. CASE Inits
  <2>1. CASE Sha1Init
    BY <2>1 DEF Sha1Init, Open
  <2> QED
    BY <1>1, <1>3, <1>4, <2>1 DEF Inits, Md5Init, Sha256Init, Sha512Init
<1>5. ASSUME NEW n \in Chunks, Updates(n) PROVE Kept
  <2>1. Absorb(n)
    BY <1>5 DEF Updates, Md5Update, Sha1Update, Sha256Update, Sha512Update
  <2>2. /\ n \in Nat /\ fed \in Nat /\ ctx \in Context(Ivs)
        /\ sha' = sha /\ family' = family /\ digest' = digest
        /\ CleanContext(ctx)
        /\ \A k \in 1 .. Len(digest.blocks) : Clean(digest.blocks[k])
    BY <2>1, CallAssumption, TypeOKIs DEF Absorb, OpenIsClean
  <2>3. ctx' = ctx \/ ctx' = Updated(ctx, Input(fed, n))
    BY <2>1 DEF Absorb, Input
  <2>4. CleanContext(Updated(ctx, Input(fed, n)))
    BY <2>2, UpdatedClean
  <2> QED  BY <2>2, <2>3, <2>4
<1>6. ASSUME NEW alg \in Variants \cup {Foreign}, NEW room \in BOOLEAN,
             Finishes(alg, room)
      PROVE  Kept
  <2>1. ASSUME NEW a, Emit(a), sha # "none" PROVE Kept
    <3>1. /\ digest'.blocks = Finished(ctx) /\ sha' = "none"
          /\ ctx \in Context(Ivs) /\ CleanContext(ctx)
      BY <2>1, TypeOKIs DEF Emit, OpenIsClean
    <3>2. \A k \in 1 .. Len(Finished(ctx)) : Clean(Finished(ctx)[k])
      BY <3>1, FinishedClean
    <3> QED  BY <3>1, <3>2
  <2>2. ASSUME sha' = "none", family' = family, digest' = digest PROVE Kept
    BY <2>2 DEF OpenIsClean
  <2> QED
    BY <1>3, <1>6, <2>1, <2>2
    DEF Finishes, Md5Finish, Sha1Finish, Sha256Finish, Sha512Finish
<1>7. CASE UNCHANGED vars
  BY <1>2, <1>7 DEF vars
<1>8. QED
  BY <1>4, <1>5, <1>6, <1>7 DEF Next

\* However the caller cuts the message, a digest of any family but SHA-1's,
\* whose init leaves the buffer alone, depends on no byte that nobody wrote.
THEOREM DigestIsWritten == Spec => []NoJunkInDigest
<1>1. Init => TypeOK /\ OpenIsClean
  BY InitType DEF Init, OpenIsClean, NoDigest
<1>2. TypeOK /\ OpenIsClean /\ [Next]_vars => (TypeOK /\ OpenIsClean)'
  BY NextType, OpenIsCleanStep
<1>3. OpenIsClean => NoJunkInDigest
  BY DEF OpenIsClean, NoJunkInDigest, Clean
<1>4. QED
  BY <1>1, <1>2, <1>3, PTL DEF Spec
=============================================================================
