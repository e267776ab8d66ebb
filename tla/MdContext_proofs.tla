------------------------- MODULE MdContext_proofs -------------------------
(***************************************************************************)
(* What a hash context compresses of a message that one update is given:   *)
(* a closed form of init, update and finish, for every block length and    *)
(* whatever the bytes of the message are.                                  *)
(***************************************************************************)
EXTENDS MdContext, TLAPS

(***************************************************************************)
(* Arithmetic.                                                             *)
(***************************************************************************)

\* A quotient and a remainder are determined by the number they make: what
\* lets `bit_count >> 3' and its low bits be read back as blocks and a tail.
LEMMA Quotient ==
  ASSUME NEW q \in Nat, NEW r \in Nat, NEW b \in Nat, r < b
  PROVE  /\ (q * b + r) % b = r
         /\ (q * b + r) \div b = q
OBVIOUS

\* Division with remainder.
LEMMA Division ==
  ASSUME NEW n \in Nat, NEW b \in Nat, b > 0
  PROVE  /\ n % b \in 0 .. b - 1
         /\ n \div b \in Nat
         /\ n = (n \div b) * b + (n % b)
OBVIOUS

\* bit_count >> 3 gives the number of bytes back.
LEMMA BytesOfBits ==
  ASSUME NEW n \in Nat
  PROVE  (8 * n) \div 8 = n
OBVIOUS

LEMMA Product ==
  ASSUME NEW a \in Nat, NEW b \in Nat, NEW m \in Nat, a <= b
  PROVE  /\ a * m \in Nat /\ b * m \in Nat
         /\ a * m <= b * m
         /\ (a + 1) * m = a * m + m
OBVIOUS

LEMMA Concat ==
  ASSUME NEW S, NEW s \in Seq(S), NEW t \in Seq(S)
  PROVE  /\ s \o t \in Seq(S)
         /\ Len(s \o t) = Len(s) + Len(t)
         /\ \A k \in 1 .. Len(s) : (s \o t)[k] = s[k]
         /\ \A k \in 1 .. Len(t) : (s \o t)[Len(s) + k] = t[k]
OBVIOUS

(***************************************************************************)
(* The message in blocks: q full ones and a tail of t bytes, the marker    *)
(* behind it, zeros, and the length at the end of the last of m blocks.    *)
(***************************************************************************)

Cell(d, m, k, j) ==
  LET at == (k - 1) * BlockLen + j IN
  IF at < Len(d) THEN d[at + 1]
  ELSE IF at = Len(d) THEN One
  ELSE IF k = m /\ j >= LengthAt THEN LenByte(8 * Len(d), j - LengthAt)
  ELSE Zero

Layout(d, m) == [k \in 1 .. m |-> [j \in Cells |-> Cell(d, m, k, j)]]

\* The number of blocks of a message of n bytes.
Blocks(n) ==
  (n \div BlockLen) + (IF (n % BlockLen) + 1 >= LengthAt THEN 2 ELSE 1)

Compressed(iv, d) == Finished(Updated(Opened(iv, Blank), d))

-----------------------------------------------------------------------------
LEMMA Sizes ==
  /\ BlockLen \in Nat /\ BlockLen > 8 /\ LengthAt \in Nat
  /\ LengthAt = BlockLen - 8 /\ LengthAt > 0
BY BlockAssumption DEF LengthAt

\* The context after the update.
LEMMA UpdatedIs ==
  ASSUME NEW S, NEW d \in Seq(S), NEW iv,
         8 * Len(d) < UIntMod, 8 * Len(d) < CountMod
  PROVE  LET u == Updated(Opened(iv, Blank), d)
             q == Len(d) \div BlockLen
             t == Len(d) % BlockLen
         IN  /\ u.bit_count = 8 * Len(d)
             /\ Index(u) = t
             /\ u.blocks = [k \in 1 .. q |-> BlockAt(d, (k - 1) * BlockLen)]
             /\ DOMAIN u.buffer = Cells
             /\ \A j \in 0 .. t - 1 : u.buffer[j] = d[q * BlockLen + j + 1]
<1> DEFINE n == Len(d)
           q == n \div BlockLen
           t == n % BlockLen
           c == Opened(iv, Blank)
           u == Updated(c, d)
           p == q * BlockLen
<1>1. /\ n \in Nat /\ q \in Nat /\ t \in 0 .. BlockLen - 1 /\ n = p + t
      /\ p \in Nat
  <2>1. n \in Nat
    OBVIOUS
  <2> HIDE DEF n
  <2>2. q \in Nat /\ t \in 0 .. BlockLen - 1 /\ n = q * BlockLen + t
    BY <2>1, Sizes, Division
  <2> HIDE DEF q, t
  <2>3. q * BlockLen \in Nat
    BY <2>2, Sizes, Product
  <2> QED  BY <2>1, <2>2, <2>3
<1>2. c.bit_count = 0 /\ c.blocks = <<>> /\ c.buffer = Blank
  BY DEF Opened
<1>3. Index(c) = 0
  BY <1>2, Sizes DEF Index
<1>4. u.bit_count = 8 * n
  <2>1. u.bit_count = (0 + ((8 * n) % UIntMod)) % CountMod
    BY <1>2 DEF Updated, Opened
  <2>2. (8 * n) % UIntMod = 8 * n
    BY <1>1, WidthAssumption
  <2>3. (8 * n) % CountMod = 8 * n
    BY <1>1, WidthAssumption
  <2> QED  BY <1>1, <2>1, <2>2, <2>3
<1>5. Index(u) = t
  <2>1. (8 * n) \div 8 = n
    BY <1>1, BytesOfBits
  <2> QED  BY <1>4, <2>1 DEF Index
<1> DEFINE full == n >= BlockLen
           whole == IF full THEN (n - BlockLen) \div BlockLen ELSE 0
           used == IF full THEN BlockLen + whole * BlockLen ELSE 0
           filled == IF full THEN Copy(Blank, 0, d, 0, BlockLen) ELSE Blank
           head == [k \in 1 .. whole + 1 |->
                      IF k = 1 THEN filled
                      ELSE BlockAt(d, BlockLen + (k - 2) * BlockLen)]
<1>6. /\ u.blocks = IF full THEN <<>> \o head ELSE <<>>
      /\ u.buffer = Copy(filled, 0, d, used, n - used)
  <2>1. BlockLen - 0 = BlockLen
    BY Sizes
  <2>2. u = [c EXCEPT
               !.bit_count = (@ + ((8 * n) % UIntMod)) % CountMod,
               !.blocks = IF full THEN @ \o head ELSE @,
               !.buffer = Copy(filled, 0, d, used, n - used)]
    BY <1>2, <1>3, <2>1 DEF Updated
  <2> QED  BY <1>2, <2>2, Zenon DEF Opened
<1>7. used = p /\ (full => whole + 1 = q) /\ (~ full => q = 0)
  <2>1. CASE full
    <3> DEFINE r == q - 1
    <3>1. q # 0
      BY <1>1, <2>1, Sizes
    <3>2. r \in Nat /\ q = r + 1
      BY <1>1, <3>1
    <3> HIDE DEF q, t, n, r
    <3>3. (r + 1) * BlockLen = r * BlockLen + BlockLen /\ r * BlockLen \in Nat
      BY <3>2, Sizes, Product
    <3>4. p = r * BlockLen + BlockLen
      BY <3>2, <3>3
    <3>5. (r * BlockLen + t) \div BlockLen = r
      BY <1>1, <3>2, Sizes, Quotient
    <3> HIDE DEF p
    <3>6. n - BlockLen = r * BlockLen + t
      BY <1>1, <3>3, <3>4, Sizes
    <3>7. whole = r
      BY <2>1, <3>5, <3>6
    <3>8. used = p
      BY <2>1, <3>3, <3>4, <3>7, Sizes
    <3> QED  BY <2>1, <3>2, <3>7, <3>8
  <2>2. CASE ~ full
    <3>1. 0 * BlockLen + n = n /\ (0 * BlockLen + n) \div BlockLen = 0
      BY <1>1, <2>2, Sizes, Quotient
    <3>2. q = 0
      BY <3>1
    <3>3. p = 0
      BY <3>2, Sizes
    <3> QED  BY <2>2, <3>2, <3>3
  <2> QED  BY <2>1, <2>2
<1>8. DOMAIN filled = Cells
  <2>1. Cells \cup 0 .. 0 + BlockLen - 1 = Cells
    BY Sizes DEF Cells
  <2> QED  BY <2>1 DEF Copy, Blank
<1>9. full => filled = BlockAt(d, 0)
  <2>1. Cells \cup 0 .. 0 + BlockLen - 1 = Cells /\ 0 .. 0 + BlockLen - 1 = Cells
    BY Sizes DEF Cells
  <2>2. \A j \in Cells : 0 + 1 + j - 0 = 0 + 1 + j
    BY Sizes DEF Cells
  <2>3. full => filled = [j \in Cells |-> d[0 + 1 + j - 0]]
    BY <2>1 DEF Copy, Blank
  <2> QED  BY <2>2, <2>3 DEF BlockAt
<1>10. u.blocks = [k \in 1 .. q |-> BlockAt(d, (k - 1) * BlockLen)]
  <2>1. CASE full
    <3>1. \A k \in 1 .. q : head[k] = BlockAt(d, (k - 1) * BlockLen)
      <4> SUFFICES ASSUME NEW k \in 1 .. q
                   PROVE  head[k] = BlockAt(d, (k - 1) * BlockLen)
        OBVIOUS
      <4>1. CASE k = 1
        <5>1. (k - 1) * BlockLen = 0
          BY <4>1, Sizes
        <5>2. head[k] = filled
          BY <1>7, <2>1, <4>1
        <5> QED  BY <1>9, <2>1, <5>1, <5>2
      <4>2. CASE k # 1
        <5>1. k - 2 \in Nat
          BY <1>1, <4>2
        <5>2. ((k - 2) + 1) * BlockLen = (k - 2) * BlockLen + BlockLen
          BY <5>1, Sizes, Product
        <5>3. (k - 2) + 1 = k - 1 /\ (k - 2) * BlockLen \in Nat
          BY <5>1, Sizes, Product
        <5>4. BlockLen + (k - 2) * BlockLen = (k - 1) * BlockLen
          BY <5>2, <5>3, Sizes
        <5>5. head[k] = BlockAt(d, BlockLen + (k - 2) * BlockLen)
          BY <1>7, <2>1, <4>2
        <5> QED  BY <5>4, <5>5
      <4> QED  BY <4>1, <4>2
    <3>2. head = [k \in 1 .. q |-> head[k]]
      BY <1>7, <2>1
    <3> HIDE DEF head, q
    <3>3. head \in Seq({head[k] : k \in 1 .. q})
      BY <1>1, <3>2
    <3>4. <<>> \o head = head
      BY <3>3
    <3> QED  BY <1>6, <2>1, <3>1, <3>2, <3>4
  <2>2. CASE ~ full
    BY <1>6, <1>7, <2>2
  <2> QED  BY <2>1, <2>2
<1>11. /\ DOMAIN u.buffer = Cells
       /\ \A j \in 0 .. t - 1 : u.buffer[j] = d[p + j + 1]
  <2>1. n - used = t
    BY <1>1, <1>7
  <2>2. Cells \cup 0 .. 0 + t - 1 = Cells
    BY <1>1, Sizes DEF Cells
  <2> HIDE DEF filled, used, p, t, n
  <2>3. u.buffer = [j \in Cells |-> IF j \in 0 .. 0 + t - 1
                                      THEN d[p + 1 + j - 0] ELSE filled[j]]
    BY <1>6, <1>7, <1>8, <2>1, <2>2 DEF Copy
  <2>4. \A j \in 0 .. t - 1 :
          p + 1 + j - 0 = p + j + 1 /\ j \in Cells /\ j \in 0 .. 0 + t - 1
    BY <1>1, <2>2, Sizes
  <2> QED  BY <2>3, <2>4
<1> QED
  BY <1>4, <1>5, <1>10, <1>11

\* The block with the marker, and the block with the length; without a spill
\* the two are one.
TailBlock(u, t) ==
  [j \in Cells |-> IF j < t THEN u.buffer[j] ELSE IF j = t THEN One ELSE Zero]

LengthBlock(u) ==
  [j \in Cells |-> IF j >= LengthAt THEN LenByte(u.bit_count, j - LengthAt)
                   ELSE Zero]

OneBlock(u, t) ==
  [j \in Cells |-> IF j < t THEN u.buffer[j] ELSE IF j = t THEN One
                   ELSE IF j >= LengthAt THEN LenByte(u.bit_count, j - LengthAt)
                   ELSE Zero]

LEMMA FillIs ==
  ASSUME NEW at \in Nat, NEW upto \in Nat, NEW b,
         upto <= BlockLen, DOMAIN b = Cells
  PROVE  ZeroFill(b, at, upto) =
           [j \in Cells |-> IF j >= at /\ j < upto THEN Zero ELSE b[j]]
<1>1. Cells \cup at .. upto - 1 = Cells
  BY Sizes DEF Cells
<1>2. \A j \in Cells : j \in at .. upto - 1 <=> j >= at /\ j < upto
  BY Sizes DEF Cells
<1> QED  BY <1>1, <1>2 DEF ZeroFill

LEMMA PutIs ==
  ASSUME NEW b, NEW count, DOMAIN b = Cells
  PROVE  PutLength(b, count) =
           [j \in Cells |-> IF j >= LengthAt THEN LenByte(count, j - LengthAt)
                            ELSE b[j]]
<1>1. Cells \cup LengthAt .. LengthAt + 7 = Cells
  BY Sizes DEF Cells
<1>2. \A j \in Cells : j \in LengthAt .. LengthAt + 7 <=> j >= LengthAt
  BY Sizes DEF Cells
<1> QED  BY <1>1, <1>2 DEF PutLength

LEMMA FinishedIs ==
  ASSUME NEW u, NEW t \in Cells, Index(u) = t, DOMAIN u.buffer = Cells
  PROVE  /\ t + 1 >= LengthAt =>
              Finished(u) = u.blocks \o <<TailBlock(u, t)>> \o <<LengthBlock(u)>>
         /\ t + 1 < LengthAt =>
              Finished(u) = u.blocks \o <<>> \o <<OneBlock(u, t)>>
<1>1. /\ t \in Nat /\ t < BlockLen
      /\ \A j \in Cells : j \in Nat /\ j < BlockLen
  BY Sizes DEF Cells
<1> DEFINE m == [j \in Cells |-> IF j = t THEN One ELSE u.buffer[j]]
<1>2. Marked(u) = m /\ DOMAIN m = Cells
  BY DEF Marked
<1>3. Spills(u) <=> t + 1 >= LengthAt
  BY DEF Spills
<1>4. CASE t + 1 >= LengthAt
  <2> DEFINE b == ZeroFill(m, t + 1, BlockLen)
             l == PutLength(ZeroFill(b, 0, LengthAt), u.bit_count)
  <2>1. Finished(u) = u.blocks \o <<b>> \o <<l>>
    BY <1>2, <1>3, <1>4 DEF Finished
  <2>2. b = [j \in Cells |-> IF j >= t + 1 /\ j < BlockLen THEN Zero ELSE m[j]]
    <3> HIDE DEF m
    <3>1. t + 1 \in Nat /\ BlockLen \in Nat /\ BlockLen <= BlockLen
      BY <1>1, Sizes
    <3> QED  BY <1>2, <3>1, FillIs
  <2>3. b = TailBlock(u, t)
    <3>1. \A j \in Cells : /\ j >= t + 1 /\ j < BlockLen <=> ~ (j < t) /\ j # t
                           /\ m[j] = IF j = t THEN One ELSE u.buffer[j]
      BY <1>1, Sizes
    <3> HIDE DEF b, m
    <3> QED  BY <1>1, <2>2, <3>1 DEF TailBlock
  <2>4. DOMAIN b = Cells
    BY <2>3 DEF TailBlock
  <2> HIDE DEF b, m
  <2>5. ZeroFill(b, 0, LengthAt) =
          [j \in Cells |-> IF j >= 0 /\ j < LengthAt THEN Zero ELSE b[j]]
    BY <2>4, FillIs, Sizes
  <2> DEFINE z == ZeroFill(b, 0, LengthAt)
  <2>6. DOMAIN z = Cells /\ \A j \in Cells : j < LengthAt => z[j] = Zero
    BY <1>1, <2>5
  <2> HIDE DEF z
  <2>7. PutLength(z, u.bit_count) =
          [j \in Cells |-> IF j >= LengthAt THEN LenByte(u.bit_count, j - LengthAt)
                           ELSE z[j]]
    BY <2>6, PutIs
  <2>8. PutLength(z, u.bit_count) = LengthBlock(u)
    <3>1. \A j \in Cells : ~ (j >= LengthAt) => z[j] = Zero
      BY <1>1, <2>6, Sizes
    <3> QED  BY <2>7, <3>1 DEF LengthBlock
  <2>9. l = LengthBlock(u)
    BY <2>8 DEF z
  <2> HIDE DEF l
  <2> QED  BY <1>1, <1>4, <2>1, <2>3, <2>9, Sizes
<1>5. CASE t + 1 < LengthAt
  <2> DEFINE b == ZeroFill(m, t + 1, LengthAt)
  <2>1. ~ Spills(u)
    BY <1>1, <1>3, <1>5, Sizes
  <2>2. Finished(u) = u.blocks \o <<>> \o <<PutLength(b, u.bit_count)>>
    BY <1>2, <2>1 DEF Finished
  <2>3. b = [j \in Cells |-> IF j >= t + 1 /\ j < LengthAt THEN Zero ELSE m[j]]
    <3> HIDE DEF m
    <3>1. t + 1 \in Nat /\ LengthAt \in Nat /\ LengthAt <= BlockLen
      BY <1>1, Sizes
    <3> QED  BY <1>2, <3>1, FillIs
  <2>4. DOMAIN b = Cells
    BY <2>3
  <2>5. \A j \in Cells :
          j < LengthAt => b[j] = IF j < t THEN u.buffer[j] ELSE IF j = t THEN One
                                 ELSE Zero
    <3>1. \A j \in Cells : m[j] = IF j = t THEN One ELSE u.buffer[j]
      OBVIOUS
    <3>2. \A j \in Cells : j >= t + 1 <=> ~ (j < t) /\ j # t
      BY <1>1
    <3> HIDE DEF b, m
    <3> QED  BY <1>1, <2>3, <3>1, <3>2
  <2> HIDE DEF b, m
  <2>6. PutLength(b, u.bit_count) =
          [j \in Cells |-> IF j >= LengthAt THEN LenByte(u.bit_count, j - LengthAt)
                           ELSE b[j]]
    BY <2>4, PutIs
  <2>7. PutLength(b, u.bit_count) = OneBlock(u, t)
    <3>1. \A j \in Cells : /\ ~ (j >= LengthAt) <=> j < LengthAt
                           /\ j >= LengthAt => ~ (j < t) /\ j # t
      BY <1>1, <1>5, Sizes
    <3> QED  BY <2>5, <2>6, <3>1 DEF OneBlock
  <2> QED  BY <1>1, <1>5, <2>2, <2>7, Sizes
<1> QED
  BY <1>1, <1>4, <1>5, Sizes

\* Init, one update and finish compress the message, the marker, zeros and the
\* length, in as many blocks as finish thinks it needs.
LEMMA CompressedIs ==
  ASSUME NEW S, NEW d \in Seq(S), NEW iv,
         8 * Len(d) < UIntMod, 8 * Len(d) < CountMod
  PROVE  Compressed(iv, d) = Layout(d, Blocks(Len(d)))
<1> DEFINE n == Len(d)
           q == n \div BlockLen
           t == n % BlockLen
           u == Updated(Opened(iv, Blank), d)
           m == Blocks(n)
           f == Finished(u)
<1>1. /\ u.bit_count = 8 * n /\ Index(u) = t
      /\ u.blocks = [k \in 1 .. q |-> BlockAt(d, (k - 1) * BlockLen)]
      /\ DOMAIN u.buffer = Cells
      /\ \A j \in 0 .. t - 1 : u.buffer[j] = d[q * BlockLen + j + 1]
  BY UpdatedIs
<1>2. n \in Nat
  OBVIOUS
<1>3. Compressed(iv, d) = f
  BY DEF Compressed
<1>4. m = q + (IF t + 1 >= LengthAt THEN 2 ELSE 1)
  BY DEF Blocks
<1> HIDE DEF n
<1>5. q \in Nat /\ t \in 0 .. BlockLen - 1 /\ n = q * BlockLen + t
  BY <1>2, Sizes, Division
<1> HIDE DEF q, t, u, m, f
<1>6. t \in Cells
  BY <1>5 DEF Cells
<1> DEFINE p == q * BlockLen
           Full(k) == [j \in Cells |-> Cell(d, m, k, j)]
<1>7. p \in Nat /\ (q + 1) * BlockLen = p + BlockLen
  BY <1>5, Sizes, Product
<1>8. \A k \in 1 .. q : BlockAt(d, (k - 1) * BlockLen) = Full(k)
  <2> SUFFICES ASSUME NEW k \in 1 .. q
               PROVE  BlockAt(d, (k - 1) * BlockLen) = Full(k)
    OBVIOUS
  <2>1. k - 1 \in Nat /\ (k - 1) + 1 = k /\ k \in Nat /\ k <= q
    BY <1>5
  <2> DEFINE a == (k - 1) * BlockLen
  <2>2. a \in Nat /\ k * BlockLen = a + BlockLen /\ k * BlockLen <= p
    <3>1. ((k - 1) + 1) * BlockLen = (k - 1) * BlockLen + BlockLen /\ a \in Nat
      BY <2>1, Sizes, Product
    <3>2. k * BlockLen <= q * BlockLen
      BY <1>5, <2>1, Sizes, Product
    <3> QED  BY <2>1, <3>1, <3>2
  <2> HIDE DEF p
  <2>3. \A j \in Cells : a + j < n /\ a + j + 1 = a + 1 + j
    <3> HIDE DEF a
    <3> QED  BY <1>5, <1>7, <2>2, Sizes DEF Cells, p
  <2>4. \A j \in Cells : Cell(d, m, k, j) = d[a + 1 + j]
    BY <2>3 DEF Cell, n
  <2> QED  BY <2>4 DEF BlockAt
<1>9. \A j \in Cells :
        /\ p + j < n <=> j < t
        /\ p + j = n <=> j = t
        /\ j < t => u.buffer[j] = d[p + j + 1]
        /\ ((q + 1) - 1) * BlockLen + j = p + j
  <2>1. (q + 1) - 1 = q
    BY <1>5
  <2> HIDE DEF p
  <2>2. n = p + t
    BY <1>5 DEF p
  <2>3. \A j \in Cells : /\ p + j < n <=> j < t
                         /\ p + j = n <=> j = t
                         /\ j < t => j \in 0 .. t - 1
    BY <1>5, <1>7, <2>2, Sizes DEF Cells
  <2> QED  BY <1>1, <2>1, <2>3 DEF p
<1> HIDE DEF p
<1>10. CASE t + 1 >= LengthAt
  <2>1. m = q + 2
    BY <1>4, <1>10
  <2>2. f = u.blocks \o <<TailBlock(u, t)>> \o <<LengthBlock(u)>>
    BY <1>1, <1>6, <1>10, FinishedIs DEF f
  <2>3. TailBlock(u, t) = Full(q + 1)
    <3>1. q + 1 # m
      BY <1>5, <2>1
    <3>2. \A j \in Cells : Cell(d, m, q + 1, j) =
            IF j < t THEN u.buffer[j] ELSE IF j = t THEN One ELSE Zero
      BY <1>9, <3>1 DEF Cell, n
    <3> QED  BY <3>2 DEF TailBlock
  <2>4. LengthBlock(u) = Full(q + 2)
    <3>1. (q + 2) - 1 = q + 1
      BY <1>5
    <3>2. \A j \in Cells : ~ (p + BlockLen + j < n) /\ p + BlockLen + j # n
      BY <1>5, <1>7, Sizes DEF Cells, p
    <3>3. \A j \in Cells : Cell(d, m, q + 2, j) =
            IF j >= LengthAt THEN LenByte(8 * n, j - LengthAt) ELSE Zero
      BY <1>7, <2>1, <3>1, <3>2 DEF Cell, n
    <3> QED  BY <1>1, <3>3 DEF LengthBlock
  <2> DEFINE S1 == {Full(k) : k \in 1 .. m}
  <2> HIDE DEF Full
  <2>5. u.blocks = [k \in 1 .. q |-> Full(k)]
    BY <1>1, <1>8
  <2>6. \A k \in 1 .. q : k \in 1 .. m
    BY <1>5, <2>1
  <2>7. u.blocks \in Seq(S1) /\ Len(u.blocks) = q
    BY <1>5, <2>5, <2>6
  <2>8. q + 1 \in 1 .. m /\ q + 2 \in 1 .. m
    BY <1>5, <2>1
  <2>9. f = u.blocks \o <<Full(q + 1)>> \o <<Full(q + 2)>>
    BY <2>2, <2>3, <2>4
  <2> HIDE DEF S1
  <2>10. Full(q + 1) \in S1 /\ Full(q + 2) \in S1
    BY <2>8 DEF S1
  <2>11. f = [k \in 1 .. m |-> Full(k)]
    BY <1>5, <2>1, <2>5, <2>7, <2>9, <2>10
  <2> QED  BY <1>3, <2>11 DEF Layout, Full, m, n
<1>11. CASE ~ (t + 1 >= LengthAt)
  <2>1. m = q + 1 /\ t + 1 < LengthAt
    BY <1>4, <1>5, <1>11, Sizes
  <2>2. f = u.blocks \o <<>> \o <<OneBlock(u, t)>>
    BY <1>1, <1>6, <2>1, FinishedIs DEF f
  <2>3. OneBlock(u, t) = Full(q + 1)
    <3>1. \A j \in Cells : Cell(d, m, q + 1, j) =
            IF j < t THEN u.buffer[j] ELSE IF j = t THEN One
            ELSE IF j >= LengthAt THEN LenByte(8 * n, j - LengthAt) ELSE Zero
      BY <1>9, <2>1 DEF Cell, n
    <3> QED  BY <1>1, <3>1 DEF OneBlock
  <2> DEFINE S1 == {Full(k) : k \in 1 .. m}
  <2> HIDE DEF Full
  <2>4. u.blocks = [k \in 1 .. q |-> Full(k)]
    BY <1>1, <1>8
  <2>5. \A k \in 1 .. q : k \in 1 .. m
    BY <1>5, <2>1
  <2>6. u.blocks \in Seq(S1) /\ Len(u.blocks) = q
    BY <1>5, <2>4, <2>5
  <2>7. q + 1 \in 1 .. m
    BY <1>5, <2>1
  <2>8. f = u.blocks \o <<>> \o <<Full(q + 1)>>
    BY <2>2, <2>3
  <2> HIDE DEF S1
  <2>9. Full(q + 1) \in S1
    BY <2>7 DEF S1
  <2>10. f = [k \in 1 .. m |-> Full(k)]
    BY <1>5, <2>1, <2>4, <2>6, <2>8, <2>9
  <2> QED  BY <1>3, <2>10 DEF Layout, Full, m, n
<1> QED
  BY <1>10, <1>11
=============================================================================
