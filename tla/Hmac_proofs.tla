---------------------------- MODULE Hmac_proofs ----------------------------
(***************************************************************************)
(* Proofs about Hmac, for all keys up to the size of the context, all      *)
(* texts that the counters can count, every length of blocks and digests   *)
(* and any calls on a context: which MACs are HMACs, and that they bind.   *)
(***************************************************************************)
EXTENDS Hmac, TLAPS

ShortProofs == INSTANCE MdContext_proofs WITH BlockLen <- ShortBlock
LongProofs == INSTANCE MdContext_proofs WITH BlockLen <- LongBlock

HmacSpec == HmacStart /\ [][HmacNext]_hmacVars

(***************************************************************************)
(* Hashes as lists of blocks: message, marker, zeros, length.              *)
(***************************************************************************)

LEMMA Widths ==
  /\ ShortBlock \in Nat /\ ShortBlock > 8
  /\ LongBlock \in Nat /\ LongBlock > 16 /\ LongBlock > 8
  /\ ShortBlock < LongBlock
  /\ UIntMod \in Nat /\ UIntMod > 0
  /\ CountMod \in Nat /\ CountMod > 0
  /\ CountMod % (8 * ShortBlock) = 0 /\ CountMod % (8 * LongBlock) = 0
BY HmacAssumption, LengthAssumption

\* A hash counts so many bytes.
Countable(n) == n \in Nat /\ 8 * n < UIntMod /\ 8 * n < CountMod

Cell(b, d, m, k, j) ==
  LET at == (k - 1) * b + j IN
  IF at < Len(d) THEN d[at + 1]
  ELSE IF at = Len(d) THEN Short!One
  ELSE IF k = m /\ j >= b - 8 THEN Short!LenByte(8 * Len(d), j - (b - 8))
  ELSE Short!Zero

Form(b, d, m) == [k \in 1 .. m |-> [j \in 0 .. b - 1 |-> Cell(b, d, m, k, j)]]

\* The number of blocks that finish makes of n bytes.
CodeBlocks(alg, n) ==
  LET b == BlockOf(alg)
  IN  (n \div b) + (IF (n % b) + 1 >= b - 8 THEN 2 ELSE 1)

LEMMA BlockFacts ==
  ASSUME NEW alg \in Algs
  PROVE  /\ BlockOf(alg) \in Nat /\ StdField(alg) \in Nat
         /\ BlockOf(alg) > StdField(alg) /\ StdField(alg) >= 8
         /\ BlockOf(alg) \in {ShortBlock, LongBlock}
         /\ BlockOf(alg) <= LongBlock
BY Widths DEF BlockOf, StdField, Algs

\* The two instances compute what their proofs are about.
LEMMA ShortHash ==
  ASSUME NEW S, NEW d \in Seq(S), NEW iv, Countable(Len(d))
  PROVE  Short!Finished(Short!Updated(Short!Opened(iv, Short!Blank), d))
           = ShortProofs!Layout(d, ShortProofs!Blocks(Len(d)))
<1>1. ShortProofs!Compressed(iv, d) = ShortProofs!Layout(d, ShortProofs!Blocks(Len(d)))
  BY Widths, ShortProofs!CompressedIs DEF Countable
<1>2. ShortProofs!Compressed(iv, d)
        = Short!Finished(Short!Updated(Short!Opened(iv, Short!Blank), d))
  BY DEF ShortProofs!Compressed,
    ShortProofs!Finished, ShortProofs!Updated, ShortProofs!Opened, ShortProofs!Blank,
    ShortProofs!Marked, ShortProofs!Spills, ShortProofs!ZeroFill,
    ShortProofs!PutLength, ShortProofs!Copy, ShortProofs!BlockAt, ShortProofs!Index,
    ShortProofs!Cells, ShortProofs!LengthAt, ShortProofs!LenByte,
    ShortProofs!One, ShortProofs!Zero,
    Short!Finished, Short!Updated, Short!Opened, Short!Blank, Short!Marked,
    Short!Spills, Short!ZeroFill, Short!PutLength, Short!Copy, Short!BlockAt,
    Short!Index, Short!Cells, Short!LengthAt, Short!LenByte, Short!One, Short!Zero
<1> QED  BY <1>1, <1>2

LEMMA LongHash ==
  ASSUME NEW S, NEW d \in Seq(S), NEW iv, Countable(Len(d))
  PROVE  Long!Finished(Long!Updated(Long!Opened(iv, Long!Blank), d))
           = LongProofs!Layout(d, LongProofs!Blocks(Len(d)))
<1>1. LongProofs!Compressed(iv, d) = LongProofs!Layout(d, LongProofs!Blocks(Len(d)))
  BY Widths, LongProofs!CompressedIs DEF Countable
<1>2. LongProofs!Compressed(iv, d)
        = Long!Finished(Long!Updated(Long!Opened(iv, Long!Blank), d))
  BY DEF LongProofs!Compressed,
    LongProofs!Finished, LongProofs!Updated, LongProofs!Opened, LongProofs!Blank,
    LongProofs!Marked, LongProofs!Spills, LongProofs!ZeroFill,
    LongProofs!PutLength, LongProofs!Copy, LongProofs!BlockAt, LongProofs!Index,
    LongProofs!Cells, LongProofs!LengthAt, LongProofs!LenByte,
    LongProofs!One, LongProofs!Zero,
    Long!Finished, Long!Updated, Long!Opened, Long!Blank, Long!Marked,
    Long!Spills, Long!ZeroFill, Long!PutLength, Long!Copy, Long!BlockAt,
    Long!Index, Long!Cells, Long!LengthAt, Long!LenByte, Long!One, Long!Zero
<1> QED  BY <1>1, <1>2

LEMMA HashIs ==
  ASSUME NEW S, NEW d \in Seq(S), NEW alg \in Algs, Countable(Len(d))
  PROVE  Hash(alg, d)
           = [alg |-> alg, blocks |-> Form(BlockOf(alg), d, CodeBlocks(alg, Len(d)))]
<1>1. CASE alg = "SHA256"
  <2>1. ShortProofs!Layout(d, ShortProofs!Blocks(Len(d)))
          = Form(ShortBlock, d, CodeBlocks(alg, Len(d)))
    BY <1>1 DEF ShortProofs!Layout, ShortProofs!Blocks, ShortProofs!Cell,
      ShortProofs!Cells, ShortProofs!LengthAt, ShortProofs!One, ShortProofs!Zero,
      ShortProofs!LenByte, Form, Cell, CodeBlocks, BlockOf,
      Short!One, Short!Zero, Short!LenByte
  <2> QED  BY <1>1, <2>1, ShortHash DEF Hash, BlockOf
<1>2. CASE alg # "SHA256"
  <2>1. LongProofs!Layout(d, LongProofs!Blocks(Len(d)))
          = Form(LongBlock, d, CodeBlocks(alg, Len(d)))
    BY <1>2 DEF LongProofs!Layout, LongProofs!Blocks, LongProofs!Cell,
      LongProofs!Cells, LongProofs!LengthAt, LongProofs!One, LongProofs!Zero,
      LongProofs!LenByte, Form, Cell, CodeBlocks, BlockOf,
      Short!One, Short!Zero, Short!LenByte
  <2> QED  BY <1>2, <2>1, LongHash DEF Hash, BlockOf
<1> QED  BY <1>1, <1>2

\* Division with remainder, and back.
LEMMA Division ==
  ASSUME NEW x \in Nat, NEW b \in Nat, b > 0
  PROVE  /\ x % b \in 0 .. b - 1
         /\ x \div b \in Nat
         /\ x = (x \div b) * b + (x % b)
OBVIOUS

LEMMA Quotient ==
  ASSUME NEW q \in Nat, NEW r \in Nat, NEW b \in Nat, r < b
  PROVE  /\ (q * b + r) % b = r
         /\ (q * b + r) \div b = q
OBVIOUS

LEMMA Product ==
  ASSUME NEW p \in Nat, NEW q \in Nat, NEW b \in Nat, p <= q
  PROVE  /\ p * b \in Nat /\ q * b \in Nat
         /\ p * b <= q * b
         /\ (p + 1) * b = p * b + b
         /\ (p + 2) * b = p * b + b + b
OBVIOUS

\* How many blocks the standard takes, next to the code; in both cases marker
\* and length fit behind the message.
LEMMA Counts ==
  ASSUME NEW alg \in Algs, NEW n \in Nat
  PROVE  LET b == BlockOf(alg)
             q == n \div b
             t == n % b
         IN  /\ StdBlocks(alg, n) = q + (IF t + StdField(alg) >= b THEN 2 ELSE 1)
             /\ CodeBlocks(alg, n) \in Nat /\ StdBlocks(alg, n) \in Nat
             /\ n + 9 <= CodeBlocks(alg, n) * b
             /\ n + 9 <= StdBlocks(alg, n) * b
             /\ CodeBlocks(alg, n) = StdBlocks(alg, n) <=> ~ OddTail(alg, n)
<1> DEFINE b == BlockOf(alg)
           f == StdField(alg)
           q == n \div b
           t == n % b
           w == n + f + b
<1>1. b \in Nat /\ f \in Nat /\ b > f /\ f >= 8 /\ b > 8 /\ b > 0
  BY BlockFacts
<1>2. StdBlocks(alg, n) = w \div b
  BY DEF StdBlocks
<1>3. CodeBlocks(alg, n) = q + (IF t + 1 >= b - 8 THEN 2 ELSE 1)
  BY DEF CodeBlocks
<1>4. OddTail(alg, n) <=> \/ t + 1 + f > b /\ t + 1 < b - 8
                          \/ t + 1 + f = b /\ t + 1 = b - 8
  BY DEF OddTail
<1> HIDE DEF b, f
<1>5. q \in Nat /\ t \in 0 .. b - 1 /\ n = q * b + t
  BY <1>1, Division
<1> HIDE DEF q, t
<1> DEFINE p == q * b
<1>6. /\ p \in Nat /\ (q + 1) * b = p + b /\ (q + 2) * b = p + b + b
      /\ q + 1 \in Nat /\ q + 2 \in Nat
  BY <1>1, <1>5, Product
<1>7. w \div b = q + (IF t + f >= b THEN 2 ELSE 1)
  <2>1. CASE t + f >= b
    <3>1. t + f - b \in Nat /\ t + f - b < b
      BY <1>1, <1>5, <2>1
    <3>2. ((q + 2) * b + (t + f - b)) \div b = q + 2
      BY <1>1, <1>6, <3>1, Quotient
    <3>3. w = (q + 2) * b + (t + f - b)
      <4> HIDE DEF p
      <4>1. n = p + t
        BY <1>5 DEF p
      <4> QED  BY <1>1, <1>5, <1>6, <4>1
    <3> QED  BY <2>1, <3>2, <3>3
  <2>2. CASE ~ (t + f >= b)
    <3>1. t + f \in Nat /\ t + f < b
      BY <1>1, <1>5, <2>2
    <3>2. ((q + 1) * b + (t + f)) \div b = q + 1
      BY <1>1, <1>6, <3>1, Quotient
    <3>3. w = (q + 1) * b + (t + f)
      <4> HIDE DEF p
      <4>1. n = p + t
        BY <1>5 DEF p
      <4> QED  BY <1>1, <1>5, <1>6, <4>1
    <3> QED  BY <2>2, <3>2, <3>3
  <2> QED  BY <2>1, <2>2
<1> HIDE DEF w
<1>8. n = p + t
  BY <1>5
<1> HIDE DEF p
<1>9. n + 9 <= CodeBlocks(alg, n) * b
  <2>1. CASE t + 1 >= b - 8
    BY <1>1, <1>3, <1>5, <1>6, <1>8, <2>1
  <2>2. CASE ~ (t + 1 >= b - 8)
    BY <1>1, <1>3, <1>5, <1>6, <1>8, <2>2
  <2> QED  BY <2>1, <2>2
<1>10. n + 9 <= StdBlocks(alg, n) * b
  <2>1. CASE t + f >= b
    BY <1>1, <1>2, <1>5, <1>6, <1>7, <1>8, <2>1
  <2>2. CASE ~ (t + f >= b)
    BY <1>1, <1>2, <1>5, <1>6, <1>7, <1>8, <2>2
  <2> QED  BY <2>1, <2>2
<1>11. CodeBlocks(alg, n) = StdBlocks(alg, n) <=> ~ OddTail(alg, n)
  BY <1>1, <1>2, <1>3, <1>4, <1>5, <1>7
<1>12. CodeBlocks(alg, n) \in Nat /\ StdBlocks(alg, n) \in Nat
  BY <1>2, <1>3, <1>6, <1>7
<1> QED
  BY <1>2, <1>7, <1>9, <1>10, <1>11, <1>12 DEF b, f, q, t

LEMMA Concat ==
  ASSUME NEW S, NEW s \in Seq(S), NEW t \in Seq(S)
  PROVE  /\ s \o t \in Seq(S)
         /\ Len(s \o t) = Len(s) + Len(t)
         /\ \A i \in 1 .. Len(s) + Len(t) :
              (s \o t)[i] = IF i <= Len(s) THEN s[i] ELSE t[i - Len(s)]
OBVIOUS

\* The padding of the standard in the same form.
LEMMA StdHashIs ==
  ASSUME NEW S, NEW d \in Seq(S), NEW alg \in Algs
  PROVE  StdHash(alg, d)
           = [alg |-> alg, blocks |-> Form(BlockOf(alg), d, StdBlocks(alg, Len(d)))]
<1> DEFINE n == Len(d)
           b == BlockOf(alg)
           m == StdBlocks(alg, n)
           total == m * b
           zeros == [i \in 1 .. total - n - 9 |-> Short!Zero]
           field == [j \in 1 .. 8 |-> Short!LenByte(8 * n, j - 1)]
           padded == d \o <<Short!One>> \o zeros \o field
<1>1. /\ b \in Nat /\ b > 8 /\ n \in Nat /\ m \in Nat /\ total \in Nat
      /\ n + 9 <= total
  <2>1. b \in Nat /\ b > 8 /\ n \in Nat
    BY BlockFacts
  <2> HIDE DEF n
  <2>2. m \in Nat /\ n + 9 <= m * b
    BY <2>1, Counts
  <2> HIDE DEF m, b
  <2>3. m * b \in Nat
    BY <2>1, <2>2, Product
  <2> QED  BY <2>1, <2>2, <2>3
<1>2. StdHash(alg, d) =
        [alg |-> alg,
         blocks |-> [k \in 1 .. m |-> [j \in 0 .. b - 1 |-> padded[(k - 1) * b + j + 1]]]]
  BY DEF StdHash
<1>3. \A at \in 0 .. total - 1 :
        padded[at + 1] = IF at < n THEN d[at + 1]
                         ELSE IF at = n THEN Short!One
                         ELSE IF at >= total - 8
                           THEN Short!LenByte(8 * n, at - (total - 8))
                         ELSE Short!Zero
  <2> HIDE DEF total, m, b
  <2> DEFINE U == S \cup {Short!One, Short!Zero}
                    \cup {Short!LenByte(8 * n, j - 1) : j \in 1 .. 8}
  <2>1. /\ d \in Seq(U) /\ <<Short!One>> \in Seq(U)
        /\ zeros \in Seq(U) /\ Len(zeros) = total - n - 9
        /\ field \in Seq(U) /\ Len(field) = 8
    BY <1>1
  <2>2. \A i \in 1 .. total - n - 9 : zeros[i] = Short!Zero
    OBVIOUS
  <2>3. \A i \in 1 .. 8 : field[i] = Short!LenByte(8 * n, i - 1)
    OBVIOUS
  <2> DEFINE one == <<Short!One>>
  <2>4. one \in Seq(U) /\ Len(one) = 1 /\ one[1] = Short!One
    BY <2>1
  <2> HIDE DEF U, zeros, field, n, one
  <2>5. \A at \in 0 .. total - 1 :
          (d \o one \o zeros \o field)[at + 1] =
                         IF at < n THEN d[at + 1]
                         ELSE IF at = n THEN one[1]
                         ELSE IF at >= total - 8 THEN field[at - (total - 8) + 1]
                         ELSE zeros[at - n]
    <3> DEFINE s2 == d \o one
               s3 == s2 \o zeros
               s4 == s3 \o field
    <3>1. Len(d) = n
      BY DEF n
    <3>2. /\ s2 \in Seq(U) /\ Len(s2) = n + 1
          /\ \A i \in 1 .. n + 1 : s2[i] = IF i <= n THEN d[i] ELSE one[i - n]
      <4>1. /\ s2 \in Seq(U) /\ Len(s2) = Len(d) + Len(one)
            /\ \A i \in 1 .. Len(d) + Len(one) :
                 s2[i] = IF i <= Len(d) THEN d[i] ELSE one[i - Len(d)]
        BY <2>1, <2>4, Concat
      <4> HIDE DEF s2
      <4> QED  BY <2>4, <3>1, <4>1
    <3> HIDE DEF s2
    <3>3. /\ s3 \in Seq(U) /\ Len(s3) = total - 8
          /\ \A i \in 1 .. total - 8 :
               s3[i] = IF i <= n + 1 THEN s2[i] ELSE zeros[i - (n + 1)]
      <4>1. (n + 1) + (total - n - 9) = total - 8
        BY <1>1
      <4>2. /\ s3 \in Seq(U) /\ Len(s3) = Len(s2) + Len(zeros)
            /\ \A i \in 1 .. Len(s2) + Len(zeros) :
                 s3[i] = IF i <= Len(s2) THEN s2[i] ELSE zeros[i - Len(s2)]
        BY <2>1, <3>2, Concat
      <4> HIDE DEF s3
      <4> QED  BY <2>1, <3>2, <4>1, <4>2
    <3> HIDE DEF s3
    <3>4. \A i \in 1 .. total :
            s4[i] = IF i <= total - 8 THEN s3[i] ELSE field[i - (total - 8)]
      <4>1. (total - 8) + 8 = total
        BY <1>1
      <4>2. \A i \in 1 .. Len(s3) + Len(field) :
              s4[i] = IF i <= Len(s3) THEN s3[i] ELSE field[i - Len(s3)]
        BY <2>1, <3>3, Concat
      <4> HIDE DEF s4
      <4> QED  BY <2>1, <3>3, <4>1, <4>2
    <3> HIDE DEF s4
    <3>5. \A at \in 0 .. total - 1 :
            s4[at + 1] = IF at < n THEN d[at + 1]
                         ELSE IF at = n THEN one[1]
                         ELSE IF at >= total - 8 THEN field[at - (total - 8) + 1]
                         ELSE zeros[at - n]
      <4> SUFFICES ASSUME NEW at \in 0 .. total - 1
                   PROVE  s4[at + 1] =
                            IF at < n THEN d[at + 1]
                            ELSE IF at = n THEN one[1]
                            ELSE IF at >= total - 8 THEN field[at - (total - 8) + 1]
                            ELSE zeros[at - n]
        OBVIOUS
      <4>1. at \in Nat /\ at + 1 \in 1 .. total
        BY <1>1
      <4>2. CASE at >= total - 8
        <5>1. /\ ~ (at + 1 <= total - 8) /\ ~ (at < n) /\ at # n
              /\ (at + 1) - (total - 8) = at - (total - 8) + 1
          BY <1>1, <4>1, <4>2
        <5> QED  BY <3>4, <4>1, <4>2, <5>1
      <4>3. CASE ~ (at >= total - 8)
        <5>1. /\ at + 1 <= total - 8 /\ at + 1 \in 1 .. total - 8
              /\ at <= n => at + 1 <= n + 1 /\ at + 1 \in 1 .. n + 1
              /\ at < n => at + 1 <= n
              /\ at = n => ~ (at + 1 <= n) /\ (at + 1) - n = 1
              /\ at <= n <=> at < n \/ at = n
              /\ ~ (at <= n) => ~ (at + 1 <= n + 1) /\ (at + 1) - (n + 1) = at - n
          BY <1>1, <4>1, <4>3
        <5>2. s4[at + 1] = s3[at + 1]
          BY <3>4, <4>1, <5>1
        <5>3. s3[at + 1] = IF at <= n THEN s2[at + 1] ELSE zeros[at - n]
          BY <3>3, <5>1
        <5>4. at <= n => s2[at + 1] = IF at < n THEN d[at + 1] ELSE one[1]
          BY <3>2, <5>1
        <5> QED  BY <4>3, <5>1, <5>2, <5>3, <5>4, Zenon
      <4> QED  BY <4>2, <4>3
    <3> QED  BY <3>5 DEF s4, s3, s2
  <2>6. \A at \in 0 .. total - 1 :
          /\ at >= total - 8 => /\ at - (total - 8) + 1 \in 1 .. 8
                                /\ (at - (total - 8) + 1) - 1 = at - (total - 8)
          /\ at > n /\ ~ (at >= total - 8) => at - n \in 1 .. total - n - 9
          /\ ~ (at < n) /\ at # n => at > n
    BY <1>1
  <2> QED  BY <2>2, <2>3, <2>4, <2>5, <2>6 DEF one
<1> HIDE DEF padded
<1>4. \A k \in 1 .. m, j \in 0 .. b - 1 :
        padded[(k - 1) * b + j + 1] = Cell(b, d, m, k, j)
  <2> SUFFICES ASSUME NEW k \in 1 .. m, NEW j \in 0 .. b - 1
               PROVE  padded[(k - 1) * b + j + 1] = Cell(b, d, m, k, j)
    OBVIOUS
  <2> DEFINE a == (k - 1) * b
  <2> HIDE DEF m, b
  <2>1. k - 1 \in Nat /\ (k - 1) + 1 = k /\ k \in Nat /\ k <= m
    BY <1>1
  <2>2. a \in Nat /\ k * b = a + b /\ k * b <= total
    <3>1. a \in Nat /\ ((k - 1) + 1) * b = a + b
      BY <1>1, <2>1, Product
    <3>2. k * b <= m * b
      BY <1>1, <2>1, Product
    <3> QED  BY <2>1, <3>1, <3>2
  <2>3. k = m => total = a + b
    BY <2>2
  <2>4. k # m => a + b + b <= total
    <3>1. k # m => k + 1 \in Nat /\ k + 1 <= m
      BY <1>1, <2>1
    <3>2. k # m => (k + 1) * b <= m * b
      BY <1>1, <3>1, Product
    <3>3. (k + 1) * b = k * b + b
      BY <1>1, <2>1, Product
    <3> QED  BY <2>2, <3>2, <3>3
  <2> HIDE DEF a, total
  <2>5. /\ a + j \in 0 .. total - 1
        /\ a + j >= total - 8 <=> k = m /\ j >= b - 8
        /\ k = m => (a + j) - (total - 8) = j - (b - 8)
    <3>1. CASE k = m
      BY <1>1, <2>2, <2>3, <3>1
    <3>2. CASE k # m
      BY <1>1, <2>2, <2>4, <3>2
    <3> QED  BY <3>1, <3>2
  <2>6. padded[a + j + 1] = IF a + j < n THEN d[a + j + 1]
                            ELSE IF a + j = n THEN Short!One
                            ELSE IF a + j >= total - 8
                              THEN Short!LenByte(8 * n, (a + j) - (total - 8))
                            ELSE Short!Zero
    <3> DEFINE x == a + j
    <3>1. x \in 0 .. total - 1
      BY <2>5
    <3> HIDE DEF x
    <3>2. padded[x + 1] = IF x < n THEN d[x + 1]
                          ELSE IF x = n THEN Short!One
                          ELSE IF x >= total - 8
                            THEN Short!LenByte(8 * n, x - (total - 8))
                          ELSE Short!Zero
      BY <1>3, <3>1
    <3> QED  BY <3>2, Zenon DEF x
  <2> QED  BY <2>5, <2>6 DEF Cell, a
<1> QED
  BY <1>2, <1>4 DEF Form

(***************************************************************************)
(* Blocks determine the message they were made of.                         *)
(***************************************************************************)

LEMMA SameSeq ==
  ASSUME NEW S, NEW d \in Seq(S), NEW T, NEW e \in Seq(T), Len(d) = Len(e),
         \A i \in 1 .. Len(d) : d[i] = e[i]
  PROVE  d = e
OBVIOUS

LEMMA FormsDiffer ==
  ASSUME NEW S, NEW d \in Seq(S), NEW T, NEW e \in Seq(T),
         NEW b \in Nat, NEW m1 \in Nat, NEW m2 \in Nat, b > 8,
         Len(d) + 9 <= m1 * b, Len(e) + 9 <= m2 * b,
         Form(b, d, m1) = Form(b, e, m2)
  PROVE  m1 = m2 /\ d = e
<1> DEFINE n == Len(d)
           l == Len(e)
<1>1. n \in Nat /\ l \in Nat
  OBVIOUS
<1>2. m1 = m2
  <2>1. DOMAIN Form(b, d, m1) = 1 .. m1 /\ DOMAIN Form(b, e, m2) = 1 .. m2
    BY DEF Form
  <2>2. 1 .. m1 = 1 .. m2
    BY <2>1
  <2> QED  BY <2>2
<1>3. \A k \in 1 .. m1, j \in 0 .. b - 1 : Cell(b, d, m1, k, j) = Cell(b, e, m1, k, j)
  <2> SUFFICES ASSUME NEW k \in 1 .. m1, NEW j \in 0 .. b - 1
               PROVE  Cell(b, d, m1, k, j) = Cell(b, e, m1, k, j)
    OBVIOUS
  <2>1. /\ Form(b, d, m1)[k][j] = Cell(b, d, m1, k, j)
        /\ Form(b, e, m1)[k][j] = Cell(b, e, m1, k, j)
    BY DEF Form
  <2> QED  BY <1>2, <2>1
<1>4. n = l
  <2> DEFINE p == (m1 - 1) * b
             j == b - 1
  <2>1. m1 # 0
    <3>1. 0 * b = 0
      BY Product
    <3> HIDE DEF n
    <3>2. n + 9 > 0
      BY <1>1
    <3> QED  BY <3>1, <3>2 DEF n
  <2>2. m1 - 1 \in Nat /\ (m1 - 1) + 1 = m1 /\ m1 \in 1 .. m1
    BY <2>1
  <2>3. m1 * b = p + b /\ p \in Nat
    <3>1. ((m1 - 1) + 1) * b = p + b /\ p \in Nat
      BY <2>2, Product
    <3> QED  BY <2>2, <3>1
  <2>4. n + 9 <= p + b /\ l + 9 <= p + b
    BY <1>2, <2>3
  <2> HIDE DEF p, n, l
  <2>5. /\ ~ (p + j < n) /\ p + j # n /\ ~ (p + j < l) /\ p + j # l
        /\ j \in 0 .. b - 1 /\ j >= b - 8
    BY <1>1, <2>3, <2>4
  <2> HIDE DEF j
  <2>6. /\ Cell(b, d, m1, m1, j) = Short!LenByte(8 * n, j - (b - 8))
        /\ Cell(b, e, m1, m1, j) = Short!LenByte(8 * l, j - (b - 8))
    BY <2>5, Zenon DEF Cell, p, n, l
  <2>7. Cell(b, d, m1, m1, j) = Cell(b, e, m1, m1, j)
    BY <1>3, <2>2, <2>5
  <2>8. 8 * n = 8 * l
    BY <2>6, <2>7 DEF Short!LenByte
  <2> QED  BY <1>1, <2>8
<1>5. ASSUME NEW i \in 1 .. n PROVE d[i] = e[i]
  <2> DEFINE q == (i - 1) \div b
             r == (i - 1) % b
             p == q * b
  <2>1. i - 1 \in Nat /\ i - 1 < n /\ (i - 1) + 1 = i
    BY <1>1
  <2>2. q \in Nat /\ r \in 0 .. b - 1 /\ i - 1 = p + r
    BY <2>1, Division
  <2> HIDE DEF q, r
  <2>3. p \in Nat /\ (q + 1) - 1 = q /\ q + 1 \in Nat
    BY <2>2, Product
  <2>4. q + 1 \in 1 .. m1
    <3>1. CASE q >= m1
      <4>1. m1 * b <= p
        BY <2>2, <3>1, Product
      <4>2. n + 9 <= m1 * b /\ m1 * b \in Nat
        BY Product
      <4> HIDE DEF p, n
      <4> QED  BY <1>1, <2>1, <2>2, <2>3, <4>1, <4>2
    <3> QED  BY <2>2, <2>3, <3>1
  <2>5. Cell(b, d, m1, q + 1, r) = Cell(b, e, m1, q + 1, r)
    BY <1>3, <2>2, <2>4
  <2>6. ((q + 1) - 1) * b + r = i - 1
    BY <2>2, <2>3
  <2>7. Cell(b, d, m1, q + 1, r) = d[i] /\ Cell(b, e, m1, q + 1, r) = e[i]
    <3>1. Cell(b, d, m1, q + 1, r) = d[(i - 1) + 1]
      BY <2>1, <2>6, Zenon DEF Cell
    <3>2. Cell(b, e, m1, q + 1, r) = e[(i - 1) + 1]
      BY <1>4, <2>1, <2>6, Zenon DEF Cell
    <3> QED  BY <2>1, <3>1, <3>2
  <2> QED  BY <2>5, <2>7
<1>6. d = e
  BY <1>4, <1>5, SameSeq
<1> QED
  BY <1>2, <1>6

LEMMA HashBinds ==
  ASSUME NEW S, NEW d \in Seq(S), NEW T, NEW e \in Seq(T), NEW alg \in Algs,
         Countable(Len(d)), Countable(Len(e))
  PROVE  Hash(alg, d) = Hash(alg, e) <=> d = e
<1> DEFINE b == BlockOf(alg)
           m1 == CodeBlocks(alg, Len(d))
           m2 == CodeBlocks(alg, Len(e))
<1>1. /\ b \in Nat /\ b > 8 /\ m1 \in Nat /\ m2 \in Nat
      /\ Len(d) + 9 <= m1 * b /\ Len(e) + 9 <= m2 * b
  BY BlockFacts, Counts DEF Countable
<1>2. /\ Hash(alg, d).blocks = Form(b, d, m1)
      /\ Hash(alg, e).blocks = Form(b, e, m2)
  BY HashIs
<1> HIDE DEF b, m1, m2
<1>3. Form(b, d, m1) = Form(b, e, m2) => d = e
  BY <1>1, FormsDiffer
<1> QED
  BY <1>2, <1>3

\* The hash of the code is the standard's precisely for the same message,
\* unless the message ends in an odd tail.
LEMMA HashIsStandard ==
  ASSUME NEW S, NEW d \in Seq(S), NEW T, NEW e \in Seq(T), NEW alg \in Algs,
         Countable(Len(d)), Countable(Len(e))
  PROVE  Hash(alg, d) = StdHash(alg, e) <=> d = e /\ ~ OddTail(alg, Len(d))
<1> DEFINE b == BlockOf(alg)
           m1 == CodeBlocks(alg, Len(d))
           m2 == StdBlocks(alg, Len(e))
<1>1. /\ b \in Nat /\ b > 8 /\ m1 \in Nat /\ m2 \in Nat
      /\ Len(d) + 9 <= m1 * b /\ Len(e) + 9 <= m2 * b
      /\ m1 = StdBlocks(alg, Len(d)) <=> ~ OddTail(alg, Len(d))
  BY BlockFacts, Counts DEF Countable
<1>2. /\ Hash(alg, d) = [alg |-> alg, blocks |-> Form(b, d, m1)]
      /\ StdHash(alg, e) = [alg |-> alg, blocks |-> Form(b, e, m2)]
  BY HashIs, StdHashIs
<1>3. d = e => m2 = StdBlocks(alg, Len(d))
  OBVIOUS
<1> HIDE DEF b, m1, m2
<1>4. Form(b, d, m1) = Form(b, e, m2) => m1 = m2 /\ d = e
  BY <1>1, FormsDiffer
<1>5. Hash(alg, d) = StdHash(alg, e) <=> Form(b, d, m1) = Form(b, e, m2)
  BY <1>2
<1> QED
  BY <1>1, <1>3, <1>4, <1>5

(***************************************************************************)
(* A hash of a block and of a hash of another block and a text.            *)
(***************************************************************************)

LEMMA Wider ==
  ASSUME NEW S, NEW T, NEW s \in Seq(S), S \subseteq T
  PROVE  s \in Seq(T)
OBVIOUS

LEMMA JoinType ==
  ASSUME NEW S, NEW k \in Seq(S), NEW t \in Seq(S)
  PROVE  k \o t \in Seq(S) /\ Len(k \o t) = Len(k) + Len(t)
OBVIOUS

Joined(k, t) == k \o t

LEMMA JoinBinds ==
  ASSUME NEW S, NEW k \in Seq(S), NEW l \in Seq(S), NEW t \in Seq(S),
         NEW u \in Seq(S), Len(k) = Len(l)
  PROVE  Joined(k, t) = Joined(l, u) <=> k = l /\ t = u
<1> DEFINE v == k \o t
           w == l \o u
<1>1. /\ Len(v) = Len(k) + Len(t)
      /\ \A i \in 1 .. Len(k) + Len(t) : v[i] = IF i <= Len(k) THEN k[i] ELSE t[i - Len(k)]
  BY Concat
<1>2. /\ Len(w) = Len(l) + Len(u)
      /\ \A i \in 1 .. Len(l) + Len(u) : w[i] = IF i <= Len(l) THEN l[i] ELSE u[i - Len(l)]
  BY Concat
<1>3. v = w => k = l /\ t = u
  <2> SUFFICES ASSUME v = w PROVE k = l /\ t = u
    OBVIOUS
  <2> HIDE DEF v, w
  <2>1. Len(t) = Len(u)
    BY <1>1, <1>2
  <2>2. \A i \in 1 .. Len(k) : k[i] = l[i]
    BY <1>1, <1>2
  <2>3. \A i \in 1 .. Len(t) : t[i] = u[i]
    <3> SUFFICES ASSUME NEW i \in 1 .. Len(t) PROVE t[i] = u[i]
      OBVIOUS
    <3> DEFINE j == Len(k) + i
    <3>1. j \in 1 .. Len(k) + Len(t) /\ ~ (j <= Len(k)) /\ j - Len(k) = i
      OBVIOUS
    <3> HIDE DEF j
    <3> QED  BY <1>1, <1>2, <2>1, <3>1
  <2>4. k = l
    BY <2>2, SameSeq
  <2>5. t = u
    BY <2>1, <2>3, SameSeq
  <2> QED  BY <2>4, <2>5
<1> QED
  BY <1>3 DEF Joined

LEMMA BytewiseIs ==
  ASSUME NEW alg \in Algs, NEW x, NEW y, x.alg = alg, y.alg = alg
  PROVE  /\ Bytewise(x) \in Seq({"hash"} \X {x} \X Nat)
         /\ Len(Bytewise(x)) = DigestLen[alg]
         /\ Bytewise(x) = Bytewise(y) <=> x = y
<1>1. DigestLen[alg] \in Nat /\ 1 \in 1 .. DigestLen[alg]
  BY HmacAssumption, DigestAssumption
<1>2. \A i \in 1 .. DigestLen[alg] : <<"hash", x, i>> \in {"hash"} \X {x} \X Nat
  OBVIOUS
<1>3. Bytewise(x) = [i \in 1 .. DigestLen[alg] |-> <<"hash", x, i>>]
  BY DEF Bytewise
<1>4. Bytewise(x) \in Seq({"hash"} \X {x} \X Nat) /\ Len(Bytewise(x)) = DigestLen[alg]
  BY <1>1, <1>2, <1>3
<1>5. Bytewise(x)[1] = <<"hash", x, 1>> /\ Bytewise(y)[1] = <<"hash", y, 1>>
  BY <1>1 DEF Bytewise
<1>6. Bytewise(x) = Bytewise(y) => x = y
  BY <1>5
<1> QED
  BY <1>4, <1>6

\* A block in front does not change where a message ends in a block.
LEMMA OddBehindBlock ==
  ASSUME NEW alg \in Algs, NEW n \in Nat
  PROVE  OddTail(alg, BlockOf(alg) + n) <=> OddTail(alg, n)
<1> DEFINE b == BlockOf(alg)
           q == n \div b
           t == n % b
<1>1. b \in Nat /\ b > 0
  BY BlockFacts
<1> HIDE DEF b
<1>2. q \in Nat /\ t \in 0 .. b - 1 /\ n = q * b + t
  BY <1>1, Division
<1> HIDE DEF q, t
<1>3. (q + 1) * b = q * b + b /\ q * b \in Nat /\ q + 1 \in Nat
  BY <1>1, <1>2, Product
<1>4. b + n = (q + 1) * b + t
  <2> DEFINE p == q * b
  <2> HIDE DEF p
  <2>1. n = p + t /\ (q + 1) * b = p + b /\ p \in Nat
    BY <1>2, <1>3 DEF p
  <2> QED  BY <1>1, <1>2, <2>1
<1>5. ((q + 1) * b + t) % b = t
  BY <1>1, <1>2, <1>3, Quotient
<1>6. (b + n) % b = n % b
  BY <1>4, <1>5 DEF t
<1> QED
  BY <1>6 DEF OddTail, b

\* A digest ends in no odd tail.
LEMMA DigestEven ==
  ASSUME NEW alg \in Algs
  PROVE  ~ OddTail(alg, DigestLen[alg])
<1> DEFINE n == DigestLen[alg]
           b == BlockOf(alg)
           f == StdField(alg)
<1>1. n \in Nat /\ b \in Nat
  BY HmacAssumption, BlockFacts
<1>2. n + f < b /\ n + 9 < b
  <2>1. CASE alg = "SHA256"
    BY <1>1, <2>1, DigestAssumption, Widths DEF BlockOf, StdField
  <2>2. CASE alg # "SHA256"
    <3>1. DigestLen[alg] + 16 < LongBlock
      BY <2>2, DigestAssumption DEF Algs
    <3> QED  BY <1>1, <2>2, <3>1, Widths DEF BlockOf, StdField
  <2> QED  BY <2>1, <2>2
<1>3. f \in {8, 16}
  BY DEF StdField
<1> HIDE DEF n, b, f
<1>4. n % b = n
  BY <1>1, <1>2
<1> QED
  BY <1>1, <1>2, <1>3, <1>4 DEF OddTail, n, b, f

\* A MAC from the two key blocks, with the hash of the code and the standard's.
Coded(alg, k1, k2, t) == Hash(alg, k2 \o Bytewise(Hash(alg, k1 \o t)))
Std(alg, k1, k2, t) == StdHash(alg, k2 \o Bytewise(StdHash(alg, k1 \o t)))

LEMMA Algorithm ==
  ASSUME NEW alg, NEW d
  PROVE  Hash(alg, d).alg = alg /\ StdHash(alg, d).alg = alg
BY DEF Hash, StdHash

\* What both hashes of a MAC are taken of can be counted.
LEMMA BothCountable ==
  ASSUME NEW alg \in Algs, NEW text \in Texts
  PROVE  /\ Len(text) \in Nat
         /\ Countable(BlockOf(alg) + Len(text))
         /\ Countable(BlockOf(alg) + DigestLen[alg])
<1>1. /\ LongBlock \in Nat /\ BlockOf(alg) \in Nat /\ BlockOf(alg) <= LongBlock
      /\ UIntMod \in Nat /\ CountMod \in Nat
  BY Widths, BlockFacts
<1>2. Len(text) \in Nat
  BY HmacAssumption
<1>3. DigestLen[alg] \in Nat /\ DigestLen[alg] <= LongBlock
  <2>1. CASE alg = "SHA256"
    BY <1>1, <2>1, Widths, HmacAssumption, DigestAssumption
  <2>2. CASE alg # "SHA256"
    <3>1. DigestLen[alg] + 16 < LongBlock /\ DigestLen[alg] \in Nat
      BY <2>2, HmacAssumption, DigestAssumption DEF Algs
    <3> QED  BY <1>1, <3>1
  <2> QED  BY <2>1, <2>2
<1>4. /\ 8 * (LongBlock + Len(text)) < UIntMod /\ 8 * (LongBlock + Len(text)) < CountMod
      /\ 8 * (LongBlock + LongBlock) < UIntMod /\ 8 * (LongBlock + LongBlock) < CountMod
  BY LengthAssumption
<1> QED
  BY <1>1, <1>2, <1>3, <1>4 DEF Countable

\* One hash of a key block and what is behind it.
LEMMA KeyedIsStd ==
  ASSUME NEW alg \in Algs, NEW S, NEW k \in Seq(S), NEW l \in Seq(S),
         NEW t \in Seq(S), NEW u \in Seq(S),
         Len(k) = BlockOf(alg), Len(l) = BlockOf(alg),
         Countable(BlockOf(alg) + Len(t)), Countable(BlockOf(alg) + Len(u))
  PROVE  Hash(alg, k \o t) = StdHash(alg, l \o u)
           <=> k = l /\ t = u /\ ~ OddTail(alg, Len(t))
<1> DEFINE b == BlockOf(alg)
           p == k \o t
           r == l \o u
<1>1. p \in Seq(S) /\ Len(p) = b + Len(t)
  BY JoinType
<1>2. r \in Seq(S) /\ Len(r) = b + Len(u)
  BY JoinType
<1>3. p = r <=> k = l /\ t = u
  <2>1. Len(k) = Len(l)
    OBVIOUS
  <2>2. Joined(k, t) = Joined(l, u) <=> k = l /\ t = u
    BY <2>1, JoinBinds
  <2> QED  BY <2>2, Zenon DEF Joined
<1>4. b \in Nat /\ Len(t) \in Nat
  BY BlockFacts
<1> HIDE DEF p, r
<1>5. Hash(alg, p) = StdHash(alg, r) <=> p = r /\ ~ OddTail(alg, Len(p))
  BY <1>1, <1>2, HashIsStandard
<1>6. OddTail(alg, b + Len(t)) <=> OddTail(alg, Len(t))
  BY <1>4, OddBehindBlock
<1> QED
  BY <1>1, <1>3, <1>5, <1>6 DEF p, r

LEMMA KeyedBinds ==
  ASSUME NEW alg \in Algs, NEW S, NEW k \in Seq(S), NEW l \in Seq(S),
         NEW t \in Seq(S), NEW u \in Seq(S),
         Len(k) = BlockOf(alg), Len(l) = BlockOf(alg),
         Countable(BlockOf(alg) + Len(t)), Countable(BlockOf(alg) + Len(u))
  PROVE  Hash(alg, k \o t) = Hash(alg, l \o u) <=> k = l /\ t = u
<1> DEFINE b == BlockOf(alg)
           p == k \o t
           r == l \o u
<1>1. p \in Seq(S) /\ Len(p) = b + Len(t)
  BY JoinType
<1>2. r \in Seq(S) /\ Len(r) = b + Len(u)
  BY JoinType
<1>3. p = r <=> k = l /\ t = u
  <2>1. Len(k) = Len(l)
    OBVIOUS
  <2>2. Joined(k, t) = Joined(l, u) <=> k = l /\ t = u
    BY <2>1, JoinBinds
  <2> QED  BY <2>2, Zenon DEF Joined
<1> HIDE DEF p, r
<1>4. Hash(alg, p) = Hash(alg, r) <=> p = r
  BY <1>1, <1>2, HashBinds
<1> QED
  BY <1>3, <1>4 DEF p, r

\* Key blocks and digests as sequences over one set.
LEMMA OuterType ==
  ASSUME NEW alg \in Algs, NEW x, NEW y, NEW S, NEW k \in Seq(S), NEW l \in Seq(S),
         x.alg = alg, y.alg = alg
  PROVE  LET U == S \cup ({"hash"} \X {x, y} \X Nat)
         IN  /\ k \in Seq(U) /\ l \in Seq(U)
             /\ Bytewise(x) \in Seq(U) /\ Len(Bytewise(x)) = DigestLen[alg]
             /\ Bytewise(y) \in Seq(U) /\ Len(Bytewise(y)) = DigestLen[alg]
<1> DEFINE U == S \cup ({"hash"} \X {x, y} \X Nat)
           X == {"hash"} \X {x} \X Nat
           Y == {"hash"} \X {y} \X Nat
<1>1. S \subseteq U /\ X \subseteq U /\ Y \subseteq U
  OBVIOUS
<1>2. /\ Bytewise(x) \in Seq(X) /\ Len(Bytewise(x)) = DigestLen[alg]
      /\ Bytewise(y) \in Seq(Y) /\ Len(Bytewise(y)) = DigestLen[alg]
  BY BytewiseIs
<1> HIDE DEF U, X, Y
<1>3. k \in Seq(U) /\ l \in Seq(U) /\ Bytewise(x) \in Seq(U) /\ Bytewise(y) \in Seq(U)
  BY <1>1, <1>2, Wider
<1> QED
  BY <1>2, <1>3 DEF U

LEMMA CodedIsStd ==
  ASSUME NEW alg \in Algs, NEW text \in Texts, NEW S, NEW k1 \in Seq(S),
         NEW k2 \in Seq(S), NEW l1 \in Seq(S), NEW l2 \in Seq(S), NEW t \in Seq(S),
         Len(k1) = BlockOf(alg), Len(k2) = BlockOf(alg),
         Len(l1) = BlockOf(alg), Len(l2) = BlockOf(alg), Len(t) = Len(text)
  PROVE  Coded(alg, k1, k2, t) = Std(alg, l1, l2, t)
           <=> k1 = l1 /\ k2 = l2 /\ ~ OddTail(alg, Len(text))
<1> DEFINE x == Hash(alg, k1 \o t)
           y == StdHash(alg, l1 \o t)
           U == S \cup ({"hash"} \X {x, y} \X Nat)
           v == Bytewise(x)
           w == Bytewise(y)
<1>1. Countable(BlockOf(alg) + Len(t)) /\ Countable(BlockOf(alg) + DigestLen[alg])
  BY BothCountable
<1>2. x = y <=> k1 = l1 /\ ~ OddTail(alg, Len(text))
  BY <1>1, KeyedIsStd
<1>3. x.alg = alg /\ y.alg = alg
  BY Algorithm
<1> HIDE DEF x, y
<1>4. /\ k2 \in Seq(U) /\ l2 \in Seq(U)
      /\ v \in Seq(U) /\ Len(v) = DigestLen[alg]
      /\ w \in Seq(U) /\ Len(w) = DigestLen[alg]
  BY <1>3, OuterType
<1>5. v = w <=> x = y
  BY <1>3, BytewiseIs
<1> HIDE DEF U, v, w
<1>6. Hash(alg, k2 \o v) = StdHash(alg, l2 \o w)
        <=> k2 = l2 /\ v = w /\ ~ OddTail(alg, DigestLen[alg])
  BY <1>1, <1>4, KeyedIsStd
<1>7. /\ Coded(alg, k1, k2, t) = Hash(alg, k2 \o v)
      /\ Std(alg, l1, l2, t) = StdHash(alg, l2 \o w)
  BY Zenon DEF Coded, Std, v, w, x, y
<1> QED
  BY <1>2, <1>5, <1>6, <1>7, DigestEven

LEMMA CodedBinds ==
  ASSUME NEW alg \in Algs, NEW text \in Texts, NEW other \in Texts, NEW S,
         NEW k1 \in Seq(S), NEW k2 \in Seq(S), NEW l1 \in Seq(S), NEW l2 \in Seq(S),
         NEW t \in Seq(S), NEW u \in Seq(S),
         Len(k1) = BlockOf(alg), Len(k2) = BlockOf(alg),
         Len(l1) = BlockOf(alg), Len(l2) = BlockOf(alg),
         Len(t) = Len(text), Len(u) = Len(other)
  PROVE  Coded(alg, k1, k2, t) = Coded(alg, l1, l2, u)
           <=> k1 = l1 /\ k2 = l2 /\ t = u
<1> DEFINE x == Hash(alg, k1 \o t)
           y == Hash(alg, l1 \o u)
           U == S \cup ({"hash"} \X {x, y} \X Nat)
           v == Bytewise(x)
           w == Bytewise(y)
<1>1. /\ Countable(BlockOf(alg) + Len(t)) /\ Countable(BlockOf(alg) + Len(u))
      /\ Countable(BlockOf(alg) + DigestLen[alg])
  BY BothCountable
<1>2. x = y <=> k1 = l1 /\ t = u
  BY <1>1, KeyedBinds
<1>3. x.alg = alg /\ y.alg = alg
  BY Algorithm
<1> HIDE DEF x, y
<1>4. /\ k2 \in Seq(U) /\ l2 \in Seq(U)
      /\ v \in Seq(U) /\ Len(v) = DigestLen[alg]
      /\ w \in Seq(U) /\ Len(w) = DigestLen[alg]
  BY <1>3, OuterType
<1>5. v = w <=> x = y
  BY <1>3, BytewiseIs
<1> HIDE DEF U, v, w
<1>6. Hash(alg, k2 \o v) = Hash(alg, l2 \o w) <=> k2 = l2 /\ v = w
  BY <1>1, <1>4, KeyedBinds
<1>7. /\ Coded(alg, k1, k2, t) = Hash(alg, k2 \o v)
      /\ Coded(alg, l1, l2, u) = Hash(alg, l2 \o w)
  BY Zenon DEF Coded, v, w, x, y
<1> QED
  BY <1>2, <1>5, <1>6, <1>7

(***************************************************************************)
(* The blocks made of key and pads.                                        *)
(***************************************************************************)
Plain == {"zero", "byte"} \X (0 .. 255) \X {0}

\* A byte of a key, a text or a pad.
ByteOf(v) == IF v = 0 THEN Short!Zero ELSE <<"byte", v, 0>>

LEMMA ByteOfBinds ==
  ASSUME NEW v \in 0 .. 255, NEW w \in 0 .. 255
  PROVE  ByteOf(v) \in Plain /\ (ByteOf(v) = ByteOf(w) => v = w)
BY DEF ByteOf, Plain, Short!Zero

LEMMA Element ==
  ASSUME NEW S, NEW s \in Seq(S), NEW i \in 1 .. Len(s)
  PROVE  s[i] \in S
OBVIOUS

LEMMA AsSequence ==
  ASSUME NEW S, NEW b \in Nat, NEW s, s = [i \in 1 .. b |-> s[i]],
         \A i \in 1 .. b : s[i] \in S
  PROVE  s \in Seq(S) /\ Len(s) = b
OBVIOUS

KeyBytes(key, b, pad) == Bytes([i \in 1 .. b |-> Xor(Padded(key, b)[i], pad)])

\* What the standard takes the two hashes over.
StdKey(alg, key, pad) ==
  IF Len(key) <= BlockOf(alg) THEN KeyBytes(key, BlockOf(alg), pad)
  ELSE [i \in 1 .. BlockOf(alg) |->
          <<"xor", IF i <= DigestLen[alg]
                     THEN <<StdHash(alg, Bytes(key)), i>> ELSE <<>>, pad>>]

LEMMA BytesType ==
  ASSUME NEW text \in Seq(0 .. 255)
  PROVE  /\ Bytes(text) \in Seq(Plain)
         /\ Len(Bytes(text)) = Len(text)
         /\ \A i \in 1 .. Len(text) : Bytes(text)[i] = ByteOf(text[i])
<1>1. \A i \in 1 .. Len(text) : Bytes(text)[i] = ByteOf(text[i])
  BY DEF Bytes, ByteOf
<1>2. \A i \in 1 .. Len(text) :
        Bytes(text)[i] = ByteOf(text[i]) /\ Bytes(text)[i] \in Plain
  <2>1. \A i \in 1 .. Len(text) : text[i] \in 0 .. 255
    BY Element, Zenon
  <2> QED  BY <1>1, <2>1, ByteOfBinds
<1>3. Bytes(text) = [i \in 1 .. Len(text) |-> Bytes(text)[i]] /\ Len(text) \in Nat
  BY DEF Bytes
<1> DEFINE s == Bytes(text)
<1> HIDE DEF s
<1>4. s \in Seq(Plain) /\ Len(s) = Len(text)
  BY <1>2, <1>3, AsSequence DEF s
<1> QED
  BY <1>2, <1>4 DEF s

LEMMA BytesBind ==
  ASSUME NEW text \in Seq(0 .. 255), NEW other \in Seq(0 .. 255)
  PROVE  Bytes(text) = Bytes(other) <=> text = other
<1> SUFFICES ASSUME Bytes(text) = Bytes(other) PROVE text = other
  OBVIOUS
<1>1. Len(text) = Len(other)
  BY BytesType
<1>2. ASSUME NEW i \in 1 .. Len(text) PROVE text[i] = other[i]
  <2>1. ByteOf(text[i]) = ByteOf(other[i])
    BY <1>1, BytesType
  <2>2. text[i] \in 0 .. 255 /\ other[i] \in 0 .. 255
    <3>1. i \in 1 .. Len(other)
      BY <1>1, Zenon
    <3> QED  BY <3>1, Element, Zenon
  <2> QED  BY <2>1, <2>2, ByteOfBinds
<1> QED
  BY <1>1, <1>2, SameSeq

\* The pads leave a byte of the key legible.
LEMMA XorIs ==
  ASSUME NEW a \in 0 .. 1
  PROVE  /\ Xor(a, IPAD) = IPAD + a /\ Xor(a, OPAD) = OPAD + a
         /\ \A p \in 0 .. 1 : Xor(a, p) \in 0 .. 1
<1>1. a = 0 \/ a = 1
  OBVIOUS
<1>2. CASE a = 0
  BY <1>2 DEF Xor, IPAD, OPAD
<1>3. CASE a = 1
  BY <1>3 DEF Xor, IPAD, OPAD
<1> QED
  BY <1>1, <1>2, <1>3

LEMMA PaddedIs ==
  ASSUME NEW key \in Seq(0 .. 1), NEW b \in Nat
  PROVE  /\ Padded(key, b) \in Seq(0 .. 1) /\ Len(Padded(key, b)) = b
         /\ \A i \in 1 .. b :
              /\ Padded(key, b)[i] = IF i <= Len(key) THEN key[i] ELSE 0
              /\ Padded(key, b)[i] \in 0 .. 1
<1>1. \A i \in 1 .. b :
        /\ Padded(key, b)[i] = IF i <= Len(key) THEN key[i] ELSE 0
        /\ Padded(key, b)[i] \in 0 .. 1
  BY DEF Padded
<1>2. Padded(key, b) = [i \in 1 .. b |-> Padded(key, b)[i]]
  BY DEF Padded
<1> DEFINE s == Padded(key, b)
<1> HIDE DEF s
<1> QED
  BY <1>1, <1>2 DEF s

LEMMA KeyBytesIs ==
  ASSUME NEW key \in Seq(0 .. 1), NEW b \in Nat, NEW pad \in {IPAD, OPAD}
  PROVE  /\ KeyBytes(key, b, pad) \in Seq(Plain) /\ Len(KeyBytes(key, b, pad)) = b
         /\ \A i \in 1 .. b :
              KeyBytes(key, b, pad)[i] = ByteOf(pad + Padded(key, b)[i])
<1> DEFINE s == [i \in 1 .. b |-> Xor(Padded(key, b)[i], pad)]
<1>1. \A i \in 1 .. b : s[i] = pad + Padded(key, b)[i] /\ s[i] \in 0 .. 255
  <2> SUFFICES ASSUME NEW i \in 1 .. b
               PROVE  s[i] = pad + Padded(key, b)[i] /\ s[i] \in 0 .. 255
    OBVIOUS
  <2> DEFINE a == Padded(key, b)[i]
  <2>1. a \in 0 .. 1
    BY PaddedIs
  <2>2. s[i] = Xor(a, pad)
    OBVIOUS
  <2> HIDE DEF a
  <2>3. Xor(a, pad) = pad + a
    BY <2>1, XorIs
  <2>4. pad \in 54 .. 92
    BY DEF IPAD, OPAD
  <2>5. pad + a \in 0 .. 255
    BY <2>1, <2>4
  <2> QED  BY <2>2, <2>3, <2>5 DEF a
<1>2. s = [i \in 1 .. b |-> s[i]]
  OBVIOUS
<1>3. KeyBytes(key, b, pad) = Bytes(s)
  BY DEF KeyBytes
<1> HIDE DEF s
<1>4. s \in Seq(0 .. 255) /\ Len(s) = b
  <2> DEFINE B == 0 .. 255
  <2>1. \A i \in 1 .. b : s[i] \in B
    BY <1>1, Zenon
  <2> HIDE DEF B
  <2>2. s \in Seq(B) /\ Len(s) = b
    BY <1>2, <2>1, AsSequence
  <2> QED  BY <2>2 DEF B
<1> QED
  BY <1>1, <1>3, <1>4, BytesType

LEMMA KeyBytesBind ==
  ASSUME NEW key \in Seq(0 .. 1), NEW other \in Seq(0 .. 1), NEW b \in Nat,
         NEW pad \in {IPAD, OPAD}
  PROVE  KeyBytes(key, b, pad) = KeyBytes(other, b, pad)
           <=> Padded(key, b) = Padded(other, b)
<1>1. Padded(key, b) = Padded(other, b) => KeyBytes(key, b, pad) = KeyBytes(other, b, pad)
  BY DEF KeyBytes
<1>2. ASSUME KeyBytes(key, b, pad) = KeyBytes(other, b, pad)
      PROVE  Padded(key, b) = Padded(other, b)
  <2> DEFINE p == Padded(key, b)
             q == Padded(other, b)
  <2>1. /\ p \in Seq(0 .. 1) /\ Len(p) = b /\ q \in Seq(0 .. 1) /\ Len(q) = b
        /\ \A i \in 1 .. b : p[i] \in 0 .. 1 /\ q[i] \in 0 .. 1
    BY PaddedIs
  <2>2. \A i \in 1 .. b : ByteOf(pad + p[i]) = ByteOf(pad + q[i])
    <3> DEFINE f == KeyBytes(key, b, pad)
               g == KeyBytes(other, b, pad)
    <3>1. /\ \A i \in 1 .. b : f[i] = ByteOf(pad + p[i])
          /\ \A i \in 1 .. b : g[i] = ByteOf(pad + q[i])
      BY KeyBytesIs
    <3>2. f = g
      BY <1>2
    <3> HIDE DEF f, g, p, q
    <3> QED  BY <3>1, <3>2
  <2> HIDE DEF p, q
  <2>3. pad \in 54 .. 92
    BY DEF IPAD, OPAD
  <2>4. ASSUME NEW i \in 1 .. b PROVE p[i] = q[i]
    <3>1. p[i] \in 0 .. 1 /\ q[i] \in 0 .. 1
      BY <2>1
    <3>2. pad + p[i] \in 0 .. 255 /\ pad + q[i] \in 0 .. 255
      <4>1. \A v \in 0 .. 1 : pad + v \in 0 .. 255
        BY <2>3
      <4> QED  BY <3>1, <4>1, Zenon
    <3>3. pad + p[i] = pad + q[i]
      BY <2>2, <3>2, ByteOfBinds
    <3> QED  BY <2>3, <3>1, <3>3
  <2>5. p = q
    BY <2>1, <2>4, SameSeq
  <2> QED  BY <2>5 DEF p, q
<1> QED
  BY <1>1, <1>2

LEMMA KeysAndTexts ==
  /\ <<>> \in Seq(0 .. 1) /\ Len(<<>>) <= 3 * LongBlock
  /\ \A key \in Keys : key \in Seq(0 .. 1) /\ Len(key) <= 3 * LongBlock
  /\ \A text \in Texts : text \in Seq(0 .. 255)
<1>1. <<>> \in Seq(0 .. 1) /\ Len(<<>>) = 0 /\ LongBlock \in Nat
  BY Widths
<1>2. 0 .. 1 \subseteq 0 .. 255
  OBVIOUS
<1> DEFINE B == 0 .. 255
           C == 0 .. 1
<1>3. \A text \in Texts : text \in Seq(C)
  BY HmacAssumption
<1> HIDE DEF B, C
<1>4. \A text \in Texts : text \in Seq(B)
  BY <1>2, <1>3, Wider DEF B, C
<1>5. \A key \in Keys : key \in Seq(0 .. 1) /\ Len(key) <= 3 * LongBlock
  BY HmacAssumption
<1> QED
  BY <1>1, <1>4, <1>5 DEF B

\* The bytes of padded_key and of the two pads.
LEMMA InitialisedIs ==
  ASSUME NEW key \in Seq(0 .. 1), NEW block \in 0 .. LongBlock, NEW j \in 0 .. LongBlock - 1,
         Len(key) <= 3 * LongBlock
  PROVE  LET c == Initialised(key, block)
         IN  /\ c[j] = IF j < Len(key) THEN key[j + 1] ELSE 0
             /\ j < block => c[LongBlock + j] = IPAD /\ c[2 * LongBlock + j] = OPAD
             /\ ~ (j < block) => c[LongBlock + j] \in 0 .. 1 /\ c[2 * LongBlock + j] \in 0 .. 1
<1> DEFINE c == Initialised(key, block)
<1>1. LongBlock \in Nat /\ LongBlock > 0 /\ block \in Nat /\ block <= LongBlock /\ j \in Nat
  BY Widths
<1>2. \A i \in 0 .. 3 * LongBlock - 1 :
        c[i] = IF i \in LongBlock .. LongBlock + block - 1 THEN IPAD
               ELSE IF i \in 2 * LongBlock .. 2 * LongBlock + block - 1 THEN OPAD
               ELSE IF i < Len(key) THEN key[i + 1] ELSE 0
  BY DEF Initialised, Offsets
<1>3. \A i \in Nat : i < Len(key) => key[i + 1] \in 0 .. 1
  BY Element
<1> HIDE DEF c
<1>4. c[j] = IF j < Len(key) THEN key[j + 1] ELSE 0
  <2>1. /\ j \in 0 .. 3 * LongBlock - 1
        /\ j \notin LongBlock .. LongBlock + block - 1
        /\ j \notin 2 * LongBlock .. 2 * LongBlock + block - 1
    BY <1>1
  <2> QED  BY <1>2, <2>1
<1>5. /\ j < block => c[LongBlock + j] = IPAD
      /\ ~ (j < block) => c[LongBlock + j] \in 0 .. 1
  <2> DEFINE i == LongBlock + j
  <2>1. /\ i \in 0 .. 3 * LongBlock - 1 /\ i \in Nat
        /\ i \in LongBlock .. LongBlock + block - 1 <=> j < block
        /\ i \notin 2 * LongBlock .. 2 * LongBlock + block - 1
    BY <1>1
  <2> HIDE DEF i
  <2>2. /\ j < block => c[i] = IPAD
        /\ ~ (j < block) => c[i] = IF i < Len(key) THEN key[i + 1] ELSE 0
    BY <1>2, <2>1, Zenon
  <2>3. 0 \in 0 .. 1
    OBVIOUS
  <2>4. ~ (j < block) => c[i] \in 0 .. 1
    BY <1>3, <2>1, <2>2, <2>3, Zenon
  <2> QED  BY <2>2, <2>4 DEF i
<1>6. /\ j < block => c[2 * LongBlock + j] = OPAD
      /\ ~ (j < block) => c[2 * LongBlock + j] \in 0 .. 1
  <2> DEFINE i == 2 * LongBlock + j
  <2>1. /\ i \in 0 .. 3 * LongBlock - 1 /\ i \in Nat
        /\ i \notin LongBlock .. LongBlock + block - 1
        /\ i \in 2 * LongBlock .. 2 * LongBlock + block - 1 <=> j < block
    BY <1>1
  <2> HIDE DEF i
  <2>2. /\ j < block => c[i] = OPAD
        /\ ~ (j < block) => c[i] = IF i < Len(key) THEN key[i + 1] ELSE 0
    BY <1>2, <2>1, Zenon
  <2>3. 0 \in 0 .. 1
    OBVIOUS
  <2>4. ~ (j < block) => c[i] \in 0 .. 1
    BY <1>3, <2>1, <2>2, <2>3, Zenon
  <2> QED  BY <2>2, <2>4 DEF i
<1> QED
  BY <1>4, <1>5, <1>6 DEF c

\* Pads that were written give the standard's block; where they were not, and
\* block is too short for the algorithm, the last byte of the key is bare.
LEMMA KeyBlockIs ==
  ASSUME NEW key \in Seq(0 .. 1), NEW block \in 0 .. LongBlock, NEW alg \in Algs,
         Len(key) <= 3 * LongBlock
  PROVE  LET c == Initialised(key, block)
             b == BlockOf(alg)
         IN  /\ KeyBlock(c, 1, b) \in Seq(Plain) /\ Len(KeyBlock(c, 1, b)) = b
             /\ KeyBlock(c, 2, b) \in Seq(Plain) /\ Len(KeyBlock(c, 2, b)) = b
             /\ block >= b => /\ KeyBlock(c, 1, b) = KeyBytes(key, b, IPAD)
                              /\ KeyBlock(c, 2, b) = KeyBytes(key, b, OPAD)
             /\ block < b => KeyBlock(c, 1, b)[b] \in {ByteOf(0), ByteOf(1)}
<1> DEFINE c == Initialised(key, block)
           b == BlockOf(alg)
           p == Padded(key, b)
           s == [i \in 1 .. b |-> Xor(c[i - 1], c[1 * LongBlock + i - 1])]
           t == [i \in 1 .. b |-> Xor(c[i - 1], c[2 * LongBlock + i - 1])]
<1>1. b \in Nat /\ b > 0 /\ b <= LongBlock /\ LongBlock \in Nat /\ block \in Nat
  BY BlockFacts, Widths
<1>2. KeyBlock(c, 1, b) = Bytes(s) /\ KeyBlock(c, 2, b) = Bytes(t)
  BY DEF KeyBlock
<1>3. ASSUME NEW i \in 1 .. b
      PROVE  /\ p[i] \in 0 .. 1
             /\ i <= block => s[i] = Xor(p[i], IPAD) /\ t[i] = Xor(p[i], OPAD)
             /\ ~ (i <= block) => /\ s[i] \in 0 .. 1 /\ t[i] \in 0 .. 1
  <2> DEFINE j == i - 1
  <2>1. /\ j \in 0 .. LongBlock - 1 /\ j + 1 = i
        /\ j < Len(key) <=> i <= Len(key)
        /\ j < block <=> i <= block
        /\ 1 * LongBlock + i - 1 = LongBlock + j
        /\ 2 * LongBlock + i - 1 = 2 * LongBlock + j
    BY <1>1
  <2> HIDE DEF j
  <2>2. /\ c[j] = IF j < Len(key) THEN key[j + 1] ELSE 0
        /\ j < block => c[LongBlock + j] = IPAD /\ c[2 * LongBlock + j] = OPAD
        /\ ~ (j < block) => c[LongBlock + j] \in 0 .. 1 /\ c[2 * LongBlock + j] \in 0 .. 1
    BY <2>1, InitialisedIs
  <2>3. p[i] = (IF i <= Len(key) THEN key[i] ELSE 0) /\ p[i] \in 0 .. 1
    BY <1>1, PaddedIs
  <2> HIDE DEF c, p
  <2>4. c[j] = p[i]
    BY <2>1, <2>2, <2>3
  <2>5. s[i] = Xor(p[i], c[LongBlock + j]) /\ t[i] = Xor(p[i], c[2 * LongBlock + j])
    <3>1. /\ s[i] = Xor(c[i - 1], c[1 * LongBlock + i - 1])
          /\ t[i] = Xor(c[i - 1], c[2 * LongBlock + i - 1])
      OBVIOUS
    <3> HIDE DEF s, t
    <3> QED  BY <2>1, <2>4, <3>1 DEF j
  <2> HIDE DEF s, t
  <2>6. i <= block => s[i] = Xor(p[i], IPAD) /\ t[i] = Xor(p[i], OPAD)
    BY <2>1, <2>2, <2>5, Zenon
  <2>7. ~ (i <= block) => s[i] \in 0 .. 1 /\ t[i] \in 0 .. 1
    BY <2>1, <2>2, <2>3, <2>5, XorIs, Zenon
  <2> QED  BY <2>3, <2>6, <2>7
<1>4. p = [i \in 1 .. b |-> p[i]] /\ s = [i \in 1 .. b |-> s[i]] /\ t = [i \in 1 .. b |-> t[i]]
  BY DEF Padded
<1>5. /\ KeyBytes(key, b, IPAD) = Bytes([i \in 1 .. b |-> Xor(p[i], IPAD)])
      /\ KeyBytes(key, b, OPAD) = Bytes([i \in 1 .. b |-> Xor(p[i], OPAD)])
  BY DEF KeyBytes
<1> HIDE DEF c, p, s, t, b
<1>6. s \in Seq(0 .. 255) /\ Len(s) = b /\ t \in Seq(0 .. 255) /\ Len(t) = b
  <2> DEFINE B == 0 .. 255
  <2>1. \A i \in 1 .. b : s[i] \in B /\ t[i] \in B
    <3> SUFFICES ASSUME NEW i \in 1 .. b PROVE s[i] \in B /\ t[i] \in B
      OBVIOUS
    <3>1. p[i] \in 0 .. 1
      BY <1>3
    <3>2. Xor(p[i], IPAD) \in 0 .. 255 /\ Xor(p[i], OPAD) \in 0 .. 255
      <4>1. \A v \in 0 .. 1 : IPAD + v \in 0 .. 255 /\ OPAD + v \in 0 .. 255
        BY DEF IPAD, OPAD
      <4> QED  BY <3>1, <4>1, XorIs, Zenon
    <3>3. \A v \in 0 .. 1 : v \in 0 .. 255
      OBVIOUS
    <3> QED  BY <1>3, <3>2, <3>3, Zenon
  <2> HIDE DEF B
  <2>2. s \in Seq(B) /\ Len(s) = b /\ t \in Seq(B) /\ Len(t) = b
    BY <1>1, <1>4, <2>1, AsSequence
  <2> QED  BY <2>2 DEF B
<1>7. /\ Bytes(s) \in Seq(Plain) /\ Len(Bytes(s)) = b
      /\ Bytes(t) \in Seq(Plain) /\ Len(Bytes(t)) = b
      /\ \A i \in 1 .. b : Bytes(s)[i] = ByteOf(s[i])
  BY <1>6, BytesType
<1>8. ASSUME block >= b
      PROVE  /\ s = [i \in 1 .. b |-> Xor(p[i], IPAD)]
             /\ t = [i \in 1 .. b |-> Xor(p[i], OPAD)]
  <2>1. \A i \in 1 .. b : i <= block
    BY <1>1, <1>8
  <2>2. \A i \in 1 .. b : s[i] = Xor(p[i], IPAD) /\ t[i] = Xor(p[i], OPAD)
    BY <1>3, <2>1
  <2> QED  BY <1>4, <2>2
<1>9. ASSUME block < b PROVE Bytes(s)[b] \in {ByteOf(0), ByteOf(1)}
  <2>1. b \in 1 .. b /\ ~ (b <= block)
    BY <1>1, <1>9
  <2>2. s[b] \in 0 .. 1
    BY <1>3, <2>1
  <2>3. s[b] = 0 \/ s[b] = 1
    BY <2>2
  <2> QED  BY <1>7, <2>1, <2>3
<1> QED
  BY <1>2, <1>5, <1>7, <1>8, <1>9 DEF c, b

\* A key that fits is padded; the hash of a longer one is unlike any bytes.
LEMMA StdKeyIs ==
  ASSUME NEW key \in Seq(0 .. 1), NEW alg \in Algs, NEW pad \in {IPAD, OPAD}
  PROVE  LET k == StdKey(alg, key, pad)
             b == BlockOf(alg)
         IN  /\ k \in Seq(Plain \cup {k[i] : i \in 1 .. b}) /\ Len(k) = b
             /\ Len(key) <= b => k = KeyBytes(key, b, pad)
             /\ ~ (Len(key) <= b) => k[1] \notin Plain
<1> DEFINE k == StdKey(alg, key, pad)
           b == BlockOf(alg)
           T == Plain \cup {k[i] : i \in 1 .. b}
<1>1. b \in Nat /\ 1 \in 1 .. b
  BY BlockFacts
<1>2. CASE Len(key) <= b
  <2>1. k = KeyBytes(key, b, pad)
    BY <1>2 DEF StdKey
  <2>2. k \in Seq(Plain) /\ Len(k) = b
    BY <1>1, <2>1, KeyBytesIs
  <2>3. Plain \subseteq T
    OBVIOUS
  <2> HIDE DEF k, T
  <2>4. k \in Seq(T)
    BY <2>2, <2>3, Wider
  <2> QED  BY <1>2, <2>1, <2>2, <2>4 DEF k, T
<1>3. CASE ~ (Len(key) <= b)
  <2>1. k = [i \in 1 .. b |-> <<"xor", IF i <= DigestLen[alg]
                                         THEN <<StdHash(alg, Bytes(key)), i>>
                                         ELSE <<>>, pad>>]
    BY <1>3 DEF StdKey
  <2> DEFINE w == IF 1 <= DigestLen[alg] THEN <<StdHash(alg, Bytes(key)), 1>> ELSE <<>>
  <2>2. k[1] = <<"xor", w, pad>>
    BY <1>1, <2>1
  <2> HIDE DEF w
  <2>3. k[1] \notin Plain
    BY <2>2 DEF Plain
  <2>4. k = [i \in 1 .. b |-> k[i]]
    BY <2>1
  <2>5. \A i \in 1 .. b : k[i] \in T
    OBVIOUS
  <2> HIDE DEF k, T
  <2>6. k \in Seq(T) /\ Len(k) = b
    BY <1>1, <2>4, <2>5, AsSequence
  <2> QED  BY <1>3, <2>3, <2>6 DEF k, T
<1> QED
  BY <1>2, <1>3

(***************************************************************************)
(* MACs.                                                                   *)
(***************************************************************************)

LEMMA MacIsCoded ==
  ASSUME NEW alg \in Algs, NEW key, NEW block, NEW text
  PROVE  LET c == Initialised(key, block)
             b == BlockOf(alg)
         IN  /\ MacOf(c, alg, text)
                  = Coded(alg, KeyBlock(c, 1, b), KeyBlock(c, 2, b), Bytes(text))
             /\ MacOf(c, alg, text).alg = alg
<1> DEFINE c == Initialised(key, block)
           b == BlockOf(alg)
<1>1. MacOf(c, alg, text) = Coded(alg, KeyBlock(c, 1, b), KeyBlock(c, 2, b), Bytes(text))
  BY Zenon DEF MacOf, Coded
<1>2. Coded(alg, KeyBlock(c, 1, b), KeyBlock(c, 2, b), Bytes(text)).alg = alg
  BY Algorithm DEF Coded
<1> QED
  BY <1>1, <1>2

LEMMA StdHmacIsStd ==
  ASSUME NEW alg \in Algs, NEW key, NEW text
  PROVE  StdHmac(alg, key, text)
           = Std(alg, StdKey(alg, key, IPAD), StdKey(alg, key, OPAD), Bytes(text))
BY Zenon DEF StdHmac, Std, StdKey, KeyBytes

\* A MAC is the standard's where key, block and text are as MacIsHmac says.
LEMMA MacIsStandard ==
  ASSUME NEW key \in Keys \cup {<<>>}, NEW block \in {0, ShortBlock, LongBlock},
         NEW alg \in Algs, NEW text \in Texts
  PROVE  MacOf(Initialised(key, block), alg, text) = StdHmac(alg, key, text)
           <=> /\ Len(key) <= BlockOf(alg)
               /\ block >= BlockOf(alg)
               /\ ~ OddTail(alg, Len(text))
<1> DEFINE c == Initialised(key, block)
           b == BlockOf(alg)
           k1 == KeyBlock(c, 1, b)
           k2 == KeyBlock(c, 2, b)
           l1 == StdKey(alg, key, IPAD)
           l2 == StdKey(alg, key, OPAD)
           t == Bytes(text)
           S == Plain \cup {l1[i] : i \in 1 .. b} \cup {l2[i] : i \in 1 .. b}
<1>1. /\ b \in Nat /\ b > 0 /\ 1 \in 1 .. b /\ b \in 1 .. b
      /\ block \in 0 .. LongBlock /\ block \in Nat
  BY BlockFacts, Widths
<1>2. key \in Seq(0 .. 1) /\ Len(key) <= 3 * LongBlock
  BY KeysAndTexts
<1>3. t \in Seq(Plain) /\ Len(t) = Len(text)
  BY KeysAndTexts, BytesType
<1>4. /\ k1 \in Seq(Plain) /\ Len(k1) = b /\ k2 \in Seq(Plain) /\ Len(k2) = b
      /\ block >= b => k1 = KeyBytes(key, b, IPAD) /\ k2 = KeyBytes(key, b, OPAD)
      /\ block < b => k1[b] \in {ByteOf(0), ByteOf(1)}
  BY <1>1, <1>2, KeyBlockIs
<1>5. /\ l1 \in Seq(Plain \cup {l1[i] : i \in 1 .. b}) /\ Len(l1) = b
      /\ Len(key) <= b => l1 = KeyBytes(key, b, IPAD)
      /\ ~ (Len(key) <= b) => l1[1] \notin Plain
  BY <1>2, StdKeyIs
<1>6. /\ l2 \in Seq(Plain \cup {l2[i] : i \in 1 .. b}) /\ Len(l2) = b
      /\ Len(key) <= b => l2 = KeyBytes(key, b, OPAD)
  BY <1>2, StdKeyIs
<1>7. /\ KeyBytes(key, b, IPAD)[b] = ByteOf(IPAD + Padded(key, b)[b])
      /\ Padded(key, b)[b] \in 0 .. 1
  BY <1>1, <1>2, KeyBytesIs, PaddedIs
<1>8. ByteOf(IPAD + Padded(key, b)[b]) \notin {ByteOf(0), ByteOf(1)}
  <2>1. \A v \in 0 .. 1 : /\ IPAD + v \in 0 .. 255
                          /\ IPAD + v # 0 /\ IPAD + v # 1
    BY DEF IPAD
  <2>2. 0 \in 0 .. 255 /\ 1 \in 0 .. 255
    OBVIOUS
  <2> QED  BY <1>7, <2>1, <2>2, ByteOfBinds
<1>9. Len(key) \in Nat
  BY <1>2
<1>10. /\ MacOf(c, alg, text) = Coded(alg, k1, k2, t)
       /\ StdHmac(alg, key, text) = Std(alg, l1, l2, t)
  BY MacIsCoded, StdHmacIsStd
<1>11. /\ Plain \subseteq S
       /\ Plain \cup {l1[i] : i \in 1 .. b} \subseteq S
       /\ Plain \cup {l2[i] : i \in 1 .. b} \subseteq S
  OBVIOUS
<1> HIDE DEF c, k1, k2, l1, l2, t, S, b
<1>12. /\ k1 \in Seq(S) /\ k2 \in Seq(S) /\ t \in Seq(S)
       /\ l1 \in Seq(S) /\ l2 \in Seq(S)
  BY <1>3, <1>4, <1>5, <1>6, <1>11, Wider
<1>13. Coded(alg, k1, k2, t) = Std(alg, l1, l2, t)
         <=> k1 = l1 /\ k2 = l2 /\ ~ OddTail(alg, Len(text))
  BY <1>3, <1>4, <1>5, <1>6, <1>12, CodedIsStd DEF b
<1>14. k1 = l1 => Len(key) <= b
  <2>1. k1[1] \in Plain
    BY <1>1, <1>4, Element
  <2> QED  BY <1>5, <2>1
<1>15. k1 = l1 /\ Len(key) <= b => block >= b
  BY <1>1, <1>4, <1>5, <1>7, <1>8
<1>16. Len(key) <= b /\ block >= b => k1 = l1 /\ k2 = l2
  BY <1>4, <1>5, <1>6
<1> QED
  BY <1>10, <1>13, <1>14, <1>15, <1>16 DEF b, c

\* Two MACs of one algorithm, from contexts that fit it.
LEMMA MacsDiffer ==
  ASSUME NEW key \in Keys \cup {<<>>}, NEW other \in Keys \cup {<<>>},
         NEW block \in {0, ShortBlock, LongBlock}, NEW space \in {0, ShortBlock, LongBlock},
         NEW alg \in Algs, NEW text \in Texts, NEW writing \in Texts,
         block >= BlockOf(alg), space >= BlockOf(alg)
  PROVE  MacOf(Initialised(key, block), alg, text)
           = MacOf(Initialised(other, space), alg, writing)
         <=> /\ text = writing
             /\ Padded(key, BlockOf(alg)) = Padded(other, BlockOf(alg))
<1> DEFINE b == BlockOf(alg)
           c == Initialised(key, block)
           d == Initialised(other, space)
           k1 == KeyBlock(c, 1, b)
           k2 == KeyBlock(c, 2, b)
           l1 == KeyBlock(d, 1, b)
           l2 == KeyBlock(d, 2, b)
           t == Bytes(text)
           u == Bytes(writing)
<1>1. /\ b \in Nat /\ block \in 0 .. LongBlock /\ space \in 0 .. LongBlock
  BY BlockFacts, Widths
<1>2. /\ key \in Seq(0 .. 1) /\ Len(key) <= 3 * LongBlock
      /\ other \in Seq(0 .. 1) /\ Len(other) <= 3 * LongBlock
  BY KeysAndTexts
<1>3. /\ t \in Seq(Plain) /\ Len(t) = Len(text)
      /\ u \in Seq(Plain) /\ Len(u) = Len(writing)
      /\ t = u <=> text = writing
  BY KeysAndTexts, BytesType, BytesBind
<1>4. /\ k1 \in Seq(Plain) /\ Len(k1) = b /\ k2 \in Seq(Plain) /\ Len(k2) = b
      /\ k1 = KeyBytes(key, b, IPAD) /\ k2 = KeyBytes(key, b, OPAD)
  BY <1>1, <1>2, KeyBlockIs
<1>5. /\ l1 \in Seq(Plain) /\ Len(l1) = b /\ l2 \in Seq(Plain) /\ Len(l2) = b
      /\ l1 = KeyBytes(other, b, IPAD) /\ l2 = KeyBytes(other, b, OPAD)
  BY <1>1, <1>2, KeyBlockIs
<1>6. /\ KeyBytes(key, b, IPAD) = KeyBytes(other, b, IPAD)
           <=> Padded(key, b) = Padded(other, b)
      /\ KeyBytes(key, b, OPAD) = KeyBytes(other, b, OPAD)
           <=> Padded(key, b) = Padded(other, b)
  BY <1>1, <1>2, KeyBytesBind
<1>7. /\ MacOf(c, alg, text) = Coded(alg, k1, k2, t)
      /\ MacOf(d, alg, writing) = Coded(alg, l1, l2, u)
  BY MacIsCoded
<1> HIDE DEF c, d, k1, k2, l1, l2, t, u, b
<1>8. Coded(alg, k1, k2, t) = Coded(alg, l1, l2, u) <=> k1 = l1 /\ k2 = l2 /\ t = u
  BY <1>3, <1>4, <1>5, CodedBinds DEF b
<1> QED
  BY <1>3, <1>4, <1>5, <1>6, <1>7, <1>8 DEF b, c, d

(***************************************************************************)
(* The inductive invariant.                                                *)
(***************************************************************************)
Blocks == {0, ShortBlock, LongBlock}

\* The context is what the last call of hmac_init, or a wipe, made of it.
OpenedAs ==
  opened # Unopened =>
    /\ opened.key \in Keys \cup {<<>>} /\ opened.block \in Blocks
    /\ ctx = Initialised(opened.key, opened.block)

\* A MAC that was written is computed from a context so made.
Computed(m) ==
  ~ Unwritten(m) => m.mac = MacOf(Initialised(m.key, m.block), m.alg, m.text)

MacsKnown ==
  \A m \in macs :
    /\ m.alg \in Algs \cup {Foreign} /\ m.text \in Texts
    /\ m.key \in Keys \cup {<<>>} /\ m.block \in Blocks
    /\ Computed(m)

\* The buffer holds the last MAC, and so does one that was not written.
Kept ==
  /\ buffer \in {Nothing} \cup {x.mac : x \in macs}
  /\ \A m \in macs :
       Unwritten(m) => m.mac \in {Nothing} \cup {x.mac : x \in macs \ {m}}

HmacInv == HmacTypeOK /\ OpenedAs /\ MacsKnown /\ Kept

LEMMA InitialisedType ==
  ASSUME NEW key \in Keys \cup {<<>>}, NEW block \in Blocks
  PROVE  Initialised(key, block) \in [Offsets -> {0, 1, IPAD, OPAD}]
<1>1. key \in Seq(0 .. 1)
  BY KeysAndTexts
<1>2. \A i \in Offsets : i \in Nat /\ (i < Len(key) => i + 1 \in 1 .. Len(key))
  BY <1>1, Widths DEF Offsets
<1>3. \A i \in Offsets : i < Len(key) => key[i + 1] \in 0 .. 1
  BY <1>1, <1>2, Element, Zenon
<1>4. \A i \in Offsets : i < Len(key) => key[i + 1] = 0 \/ key[i + 1] = 1
  BY <1>3
<1> QED
  BY <1>4 DEF Initialised

\* A wipe leaves what initialising with no key for no block would leave.
LEMMA WipedIs == [i \in Offsets |-> 0] = Initialised(<<>>, 0)
<1>1. \A i \in Offsets : /\ i \notin LongBlock .. LongBlock + 0 - 1
                         /\ i \notin 2 * LongBlock .. 2 * LongBlock + 0 - 1
                         /\ ~ (i < Len(<<>>))
  BY Widths DEF Offsets
<1> QED
  BY <1>1 DEF Initialised

LEMMA BlocksAre ==
  /\ \A alg \in Algs : BlockOf(alg) \in Blocks
  /\ ShortBlock \in Blocks /\ LongBlock \in Blocks /\ 0 \in Blocks
  /\ -1 \notin Blocks /\ Foreign \notin Algs
BY Widths DEF Blocks, BlockOf, Foreign, Algs

LEMMA StartInv == HmacStart => HmacInv
<1> SUFFICES ASSUME HmacStart PROVE HmacInv
  OBVIOUS
<1>1. HmacTypeOK
  <2>1. ctx \in [Offsets -> {0, 1, IPAD, OPAD}]
    BY DEF HmacStart
  <2>2. opened.key = <<>> /\ opened.block = -1 /\ macs = {}
    BY DEF HmacStart, Unopened
  <2> QED  BY <2>1, <2>2 DEF HmacTypeOK
<1>2. OpenedAs /\ MacsKnown /\ Kept
  BY DEF HmacStart, OpenedAs, MacsKnown, Kept
<1> QED
  BY <1>1, <1>2 DEF HmacInv

\* What a caller takes for a MAC is known, and where nothing was written it is
\* what the buffer held.
LEMMA TakeInv ==
  ASSUME HmacInv,
         NEW alg \in Algs \cup {Foreign}, NEW key \in Keys \cup {<<>>},
         NEW block \in Blocks, NEW text \in Texts, NEW room, NEW mac,
         Take(alg, key, block, text, room, mac),
         ~ room \/ alg = Foreign => mac = buffer,
         ~ (~ room \/ alg = Foreign) => mac = MacOf(Initialised(key, block), alg, text)
  PROVE  MacsKnown' /\ Kept' /\ \A m \in macs' : m.alg \in Algs \cup {Foreign} /\ m.text \in Texts
<1> DEFINE new == [alg |-> alg, key |-> key, block |-> block,
                   text |-> text, room |-> room, mac |-> mac]
<1>1. buffer' = mac /\ macs' = macs \cup {new}
  BY DEF Take
<1>2. /\ new.alg = alg /\ new.key = key /\ new.block = block /\ new.text = text
      /\ new.room = room /\ new.mac = mac
  OBVIOUS
<1> HIDE DEF new
<1>3. Computed(new)
  BY <1>2 DEF Computed, Unwritten
<1>4. MacsKnown'
  <2>1. \A m \in macs : /\ m.alg \in Algs \cup {Foreign} /\ m.text \in Texts
                        /\ m.key \in Keys \cup {<<>>} /\ m.block \in Blocks
                        /\ Computed(m)
    BY DEF HmacInv, MacsKnown
  <2>2. \A m \in macs' : /\ m.alg \in Algs \cup {Foreign} /\ m.text \in Texts
                         /\ m.key \in Keys \cup {<<>>} /\ m.block \in Blocks
                         /\ Computed(m)
    BY <1>1, <1>2, <1>3, <2>1
  <2> QED  BY <2>2 DEF MacsKnown, Computed, Unwritten, MacOf
<1>5. Kept'
  <2>1. buffer' \in {Nothing} \cup {x.mac : x \in macs'}
    BY <1>1, <1>2
  <2>2. ASSUME NEW m \in macs', Unwritten(m)
        PROVE  m.mac \in {Nothing} \cup {x.mac : x \in macs' \ {m}}
    <3>1. CASE m \in macs
      <4>1. m.mac \in {Nothing} \cup {x.mac : x \in macs \ {m}}
        BY <2>2, <3>1 DEF HmacInv, Kept
      <4>2. macs \ {m} \subseteq macs' \ {m}
        BY <1>1
      <4> QED  BY <4>1, <4>2
    <3>2. CASE m \notin macs
      <4>1. m = new /\ macs \subseteq macs' \ {m}
        BY <1>1, <3>2
      <4>2. m.mac = buffer
        BY <1>2, <2>2, <4>1 DEF Unwritten
      <4>3. buffer \in {Nothing} \cup {x.mac : x \in macs}
        BY DEF HmacInv, Kept
      <4> QED  BY <4>1, <4>2, <4>3
    <3> QED  BY <3>1, <3>2
  <2>3. \A m \in macs' :
          Unwritten(m) => m.mac \in {Nothing} \cup {x.mac : x \in macs' \ {m}}
    BY <2>2
  <2> QED  BY <2>1, <2>3 DEF Kept, Unwritten
<1>6. \A m \in macs' : m.alg \in Algs \cup {Foreign} /\ m.text \in Texts
  BY <1>4 DEF MacsKnown
<1> QED
  BY <1>4, <1>5, <1>6

\* Calls that open or wipe the context leave the MACs alone.
LEMMA ReopenInv ==
  ASSUME HmacInv, NEW key \in Keys \cup {<<>>}, NEW block \in Blocks,
         ctx' = Initialised(key, block), opened' = [key |-> key, block |-> block],
         UNCHANGED <<macs, buffer>>
  PROVE  HmacInv'
<1>1. opened'.key = key /\ opened'.block = block
  OBVIOUS
<1>2. HmacTypeOK'
  <2>1. ctx' \in [Offsets -> {0, 1, IPAD, OPAD}]
    BY InitialisedType
  <2> QED  BY <1>1, <2>1 DEF HmacInv, HmacTypeOK, Blocks
<1>3. OpenedAs'
  BY <1>1 DEF OpenedAs
<1>4. MacsKnown' /\ Kept'
  BY DEF HmacInv, MacsKnown, Kept, Computed, Unwritten, MacOf
<1> QED
  BY <1>2, <1>3, <1>4 DEF HmacInv

LEMMA StepInv == HmacInv /\ [HmacNext]_hmacVars => HmacInv'
<1> SUFFICES ASSUME HmacInv, [HmacNext]_hmacVars PROVE HmacInv'
  OBVIOUS
<1>1. ASSUME NEW key \in Keys, NEW block \in {ShortBlock, LongBlock}, HmacInit(key, block)
      PROVE  HmacInv'
  BY <1>1, ReopenInv DEF HmacInit, Blocks
<1>2. ASSUME NEW alg \in Algs, NEW text \in Texts, NEW room \in BOOLEAN,
             ComputeMac(alg, text, room)
      PROVE  HmacInv'
  <2> DEFINE mac == IF room THEN MacOf(ctx, alg, text) ELSE buffer
  <2>1. opened # Unopened /\ UNCHANGED <<ctx, opened>>
    BY <1>2 DEF ComputeMac
  <2>2. /\ opened.key \in Keys \cup {<<>>} /\ opened.block \in Blocks
        /\ ctx = Initialised(opened.key, opened.block)
    BY <2>1 DEF HmacInv, OpenedAs
  <2>3. Take(alg, opened.key, opened.block, text, room, mac)
    BY <1>2 DEF ComputeMac
  <2>4. /\ ~ room \/ alg = Foreign => mac = buffer
        /\ ~ (~ room \/ alg = Foreign)
             => mac = MacOf(Initialised(opened.key, opened.block), alg, text)
    BY <2>2, BlocksAre
  <2> HIDE DEF mac
  <2>5. /\ MacsKnown' /\ Kept'
        /\ \A m \in macs' : m.alg \in Algs \cup {Foreign} /\ m.text \in Texts
    BY <2>2, <2>3, <2>4, TakeInv
  <2>6. HmacTypeOK'
    BY <2>1, <2>5 DEF HmacInv, HmacTypeOK
  <2>7. OpenedAs'
    BY <2>1, <2>2 DEF OpenedAs
  <2> QED  BY <2>5, <2>6, <2>7 DEF HmacInv
<1>3. ASSUME HmacCleanup PROVE HmacInv'
  <2>1. /\ ctx' = Initialised(<<>>, 0) /\ opened' = [key |-> <<>>, block |-> 0]
        /\ UNCHANGED <<macs, buffer>>
    BY <1>3, WipedIs DEF HmacCleanup
  <2> QED  BY <2>1, BlocksAre, ReopenInv
<1>4. ASSUME NEW key \in Keys, NEW alg \in Algs \cup {Foreign}, NEW text \in Texts,
             CryptHmac(key, alg, text)
      PROVE  HmacInv'
  <2>1. UNCHANGED <<ctx, opened>>
    BY <1>4 DEF CryptHmac
  <2>2. /\ MacsKnown' /\ Kept'
        /\ \A m \in macs' : m.alg \in Algs \cup {Foreign} /\ m.text \in Texts
    <3>1. CASE alg \in Algs
      <4> DEFINE block == BlockOf(alg)
                 mac == MacOf(Initialised(key, block), alg, text)
      <4>1. Take(alg, key, block, text, TRUE, mac) /\ block \in Blocks /\ alg # Foreign
        BY <1>4, <3>1, BlocksAre DEF CryptHmac
      <4> HIDE DEF mac
      <4>2. ~ (~ TRUE \/ alg = Foreign) => mac = MacOf(Initialised(key, block), alg, text)
        BY DEF mac
      <4> HIDE DEF block
      <4> QED  BY <4>1, <4>2, TakeInv
    <3>2. CASE alg \notin Algs
      <4>1. Take(alg, key, 0, text, TRUE, buffer) /\ 0 \in Blocks /\ alg = Foreign
        BY <1>4, <3>2, BlocksAre DEF CryptHmac
      <4> QED  BY <4>1, TakeInv
    <3> QED  BY <3>1, <3>2
  <2>3. HmacTypeOK'
    BY <2>1, <2>2 DEF HmacInv, HmacTypeOK
  <2>4. OpenedAs'
    BY <2>1 DEF HmacInv, OpenedAs
  <2> QED  BY <2>2, <2>3, <2>4 DEF HmacInv
<1>5. ASSUME UNCHANGED hmacVars PROVE HmacInv'
  BY <1>5 DEF hmacVars, HmacInv, HmacTypeOK, OpenedAs, MacsKnown, Kept, Computed,
     Unwritten, MacOf
<1> QED
  BY <1>1, <1>2, <1>3, <1>4, <1>5 DEF HmacNext

LEMMA Invariance == HmacSpec => []HmacInv
<1> QED
  BY StartInv, StepInv, PTL DEF HmacSpec

\* No call writes outside the context, whatever the keys, and none leaves
\* anything there but bytes of a key and of the pads.
THEOREM TypeCorrect == HmacSpec => []HmacTypeOK
<1>1. HmacInv => HmacTypeOK
  BY DEF HmacInv
<1> QED
  BY <1>1, Invariance, PTL

\* Which MACs are HMACs: those of keys of at most a block, from a context
\* opened for a block long enough, of texts that end in no odd tail.
THEOREM WrittenIsHmac == HmacSpec => []MacIsHmac
<1>1. HmacInv => MacIsHmac
  <2> SUFFICES ASSUME HmacInv, NEW m \in macs, ~ Unwritten(m)
               PROVE  m.mac = StdHmac(m.alg, m.key, m.text)
                        <=> /\ Len(m.key) <= BlockOf(m.alg)
                            /\ m.block >= BlockOf(m.alg)
                            /\ ~ OddTail(m.alg, Len(m.text))
    BY DEF MacIsHmac
  <2>1. /\ m.alg \in Algs /\ m.text \in Texts
        /\ m.key \in Keys \cup {<<>>} /\ m.block \in {0, ShortBlock, LongBlock}
        /\ m.mac = MacOf(Initialised(m.key, m.block), m.alg, m.text)
    BY DEF HmacInv, MacsKnown, Computed, Unwritten, Blocks
  <2> QED  BY <2>1, MacIsStandard
<1> QED
  BY <1>1, Invariance, PTL

\* Equal MACs have the same algorithm and text, and keys that padding makes
\* equal; a call that computes none leaves the caller with an old one.
THEOREM Binding == HmacSpec => []MacsBind
<1>1. ASSUME HmacInv, NEW m \in macs, NEW n \in macs, ~ Unwritten(m), ~ Unwritten(n),
             m.block >= BlockOf(m.alg), n.block >= BlockOf(n.alg)
      PROVE  m.mac = n.mac
               <=> /\ m.alg = n.alg /\ m.text = n.text
                   /\ Padded(m.key, BlockOf(m.alg)) = Padded(n.key, BlockOf(n.alg))
  <2>1. /\ m.alg \in Algs /\ m.text \in Texts
        /\ m.key \in Keys \cup {<<>>} /\ m.block \in {0, ShortBlock, LongBlock}
        /\ m.mac = MacOf(Initialised(m.key, m.block), m.alg, m.text)
    BY <1>1 DEF HmacInv, MacsKnown, Computed, Unwritten, Blocks
  <2>2. /\ n.alg \in Algs /\ n.text \in Texts
        /\ n.key \in Keys \cup {<<>>} /\ n.block \in {0, ShortBlock, LongBlock}
        /\ n.mac = MacOf(Initialised(n.key, n.block), n.alg, n.text)
    BY <1>1 DEF HmacInv, MacsKnown, Computed, Unwritten, Blocks
  <2>3. m.mac.alg = m.alg /\ n.mac.alg = n.alg
    BY <2>1, <2>2, MacIsCoded
  <2>4. CASE m.alg # n.alg
    BY <2>3, <2>4
  <2>5. CASE m.alg = n.alg
    <3>1. MacOf(Initialised(m.key, m.block), m.alg, m.text)
            = MacOf(Initialised(n.key, n.block), m.alg, n.text)
          <=> /\ m.text = n.text
              /\ Padded(m.key, BlockOf(m.alg)) = Padded(n.key, BlockOf(m.alg))
      BY <1>1, <2>1, <2>2, <2>5, MacsDiffer
    <3> QED  BY <2>1, <2>2, <2>5, <3>1
  <2> QED  BY <2>4, <2>5
<1>2. HmacInv => MacsBind
  BY <1>1 DEF HmacInv, Kept, MacsBind
<1> QED
  BY <1>2, Invariance, PTL
=============================================================================
