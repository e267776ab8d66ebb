------------------------ MODULE BlockCiphers_proofs ------------------------
(***************************************************************************)
(* Proofs about the block ciphers.  AesBlock: for every permutation of     *)
(* bytes in place of the S-box, every width and polynomial of the field,   *)
(* every number of rounds and length of a key, all keys and all blocks,    *)
(* the rounds that decrypt go back through those that encrypted.           *)
(* DesBlock: for every S-box, every table of the round function and of the *)
(* key schedule, all keys and all blocks, the network of des.c undoes      *)
(* itself, though feistel writes behind its halves.                        *)
(***************************************************************************)
EXTENDS AesBlock, DesBlock, TLAPS

(***************************************************************************)
(* AES.                                                                    *)
(***************************************************************************)

AesSpec == AesInit /\ [][AesNext]_aesVars

(***************************************************************************)
(* Exclusive or.                                                           *)
(***************************************************************************)

LEMMA XorBit ==
  ASSUME NEW x, NEW y, NEW n
  PROVE  n \in SymDiff(x, y) <=> ((n \in x) # (n \in y))
BY DEF SymDiff

LEMMA XorType ==
  ASSUME NEW x \in Byte, NEW y \in Byte
  PROVE  SymDiff(x, y) \in Byte
BY DEF SymDiff, Byte

LEMMA XorTwice ==
  ASSUME NEW x, NEW y
  PROVE  SymDiff(SymDiff(x, y), y) = x
BY DEF SymDiff

LEMMA XorEmpty ==
  ASSUME NEW x
  PROVE  SymDiff({}, x) = x /\ SymDiff(x, {}) = x /\ SymDiff(x, x) = {}
BY DEF SymDiff

\* Sums may be paired in any way.
LEMMA XorSwap ==
  ASSUME NEW p, NEW q, NEW r, NEW s
  PROVE  SymDiff(SymDiff(p, q), SymDiff(r, s))
           = SymDiff(SymDiff(p, r), SymDiff(q, s))
BY DEF SymDiff

Sum4(p, q, r, s) == SymDiff(SymDiff(p, q), SymDiff(r, s))

LEMMA Sum4Type ==
  ASSUME NEW p \in Byte, NEW q \in Byte, NEW r \in Byte, NEW s \in Byte
  PROVE  Sum4(p, q, r, s) \in Byte
BY XorType DEF Sum4

LEMMA Sum4Turn ==
  ASSUME NEW p, NEW q, NEW r, NEW s
  PROVE  Sum4(p, q, r, s) = Sum4(s, p, q, r)
BY DEF Sum4, SymDiff

LEMMA Sum4Xor ==
  ASSUME NEW p, NEW q, NEW r, NEW s, NEW p1, NEW q1, NEW r1, NEW s1
  PROVE  SymDiff(Sum4(p, q, r, s), Sum4(p1, q1, r1, s1))
           = Sum4(SymDiff(p, p1), SymDiff(q, q1), SymDiff(r, r1), SymDiff(s, s1))
<1> DEFINE a == SymDiff(p, q)
           b == SymDiff(r, s)
           a1 == SymDiff(p1, q1)
           b1 == SymDiff(r1, s1)
<1>1. SymDiff(SymDiff(a, b), SymDiff(a1, b1))
        = SymDiff(SymDiff(a, a1), SymDiff(b, b1))
  BY XorSwap
<1>2. /\ SymDiff(a, a1) = SymDiff(SymDiff(p, p1), SymDiff(q, q1))
      /\ SymDiff(b, b1) = SymDiff(SymDiff(r, r1), SymDiff(s, s1))
  BY XorSwap
<1>3. QED
  BY <1>1, <1>2 DEF Sum4

\* The sum of four rows is the sum of the sums of the columns.
LEMMA Sum4Transpose ==
  ASSUME NEW p0, NEW q0, NEW r0, NEW s0, NEW p1, NEW q1, NEW r1, NEW s1,
         NEW p2, NEW q2, NEW r2, NEW s2, NEW p3, NEW q3, NEW r3, NEW s3
  PROVE  Sum4(Sum4(p0, q0, r0, s0), Sum4(p1, q1, r1, s1),
              Sum4(p2, q2, r2, s2), Sum4(p3, q3, r3, s3))
           = Sum4(Sum4(p0, p1, p2, p3), Sum4(q0, q1, q2, q3),
                  Sum4(r0, r1, r2, r3), Sum4(s0, s1, s2, s3))
<1> DEFINE row01 == SymDiff(Sum4(p0, q0, r0, s0), Sum4(p1, q1, r1, s1))
           row23 == SymDiff(Sum4(p2, q2, r2, s2), Sum4(p3, q3, r3, s3))
<1>1. /\ row01 = Sum4(SymDiff(p0, p1), SymDiff(q0, q1), SymDiff(r0, r1), SymDiff(s0, s1))
      /\ row23 = Sum4(SymDiff(p2, p3), SymDiff(q2, q3), SymDiff(r2, r3), SymDiff(s2, s3))
  BY Sum4Xor
<1> HIDE DEF row01, row23
<1>2. SymDiff(row01, row23)
        = Sum4(SymDiff(SymDiff(p0, p1), SymDiff(p2, p3)),
               SymDiff(SymDiff(q0, q1), SymDiff(q2, q3)),
               SymDiff(SymDiff(r0, r1), SymDiff(r2, r3)),
               SymDiff(SymDiff(s0, s1), SymDiff(s2, s3)))
  BY <1>1, Sum4Xor
<1>3. QED
  BY <1>2 DEF row01, row23, Sum4

(***************************************************************************)
(* The field.                                                              *)
(***************************************************************************)

LEMMA BitsAre ==
  /\ ByteBits \in Nat /\ ByteBits >= 1 /\ Poly \in Byte /\ {} \in Byte
BY AesAssumption DEF Byte

LEMMA XtimeType ==
  ASSUME NEW x \in Byte
  PROVE  xtime(x) \in Byte
<1>1. {b + 1 : b \in x \ {ByteBits - 1}} \in Byte
  BY BitsAre DEF Byte
<1>2. (IF ByteBits - 1 \in x THEN Poly ELSE {}) \in Byte
  BY BitsAre
<1>3. QED
  BY <1>1, <1>2, XorType DEF xtime

\* xtime multiplies by a constant: it is linear.
LEMMA XtimeXor ==
  ASSUME NEW x \in Byte, NEW y \in Byte
  PROVE  xtime(SymDiff(x, y)) = SymDiff(xtime(x), xtime(y))
<1> DEFINE Shifted(z) == {b + 1 : b \in z \ {ByteBits - 1}}
           Reduced(z) == IF ByteBits - 1 \in z THEN Poly ELSE {}
<1>1. Shifted(SymDiff(x, y)) = SymDiff(Shifted(x), Shifted(y))
  <2>1. ASSUME NEW z \in Byte, NEW n
        PROVE  n \in Shifted(z) <=> \E b \in 0 .. ByteBits - 2 : n = b + 1 /\ b \in z
    BY BitsAre DEF Byte
  <2>2. SymDiff(x, y) \in Byte
    BY XorType
  <2>3. ASSUME NEW n
        PROVE  n \in Shifted(SymDiff(x, y)) <=> (n \in Shifted(x)) # (n \in Shifted(y))
    <3>1. CASE \E b \in 0 .. ByteBits - 2 : n = b + 1
      <4>1. PICK b \in 0 .. ByteBits - 2 : n = b + 1
        BY <3>1
      <4>2. \A c \in 0 .. ByteBits - 2 : n = c + 1 => c = b
        BY <4>1
      <4>3. \A z \in Byte : n \in Shifted(z) <=> b \in z
        BY <2>1, <4>1, <4>2
      <4> HIDE DEF Shifted
      <4> QED  BY <2>2, <4>3, XorBit
    <3>2. CASE ~ \E b \in 0 .. ByteBits - 2 : n = b + 1
      BY <2>1, <2>2, <3>2
    <3> QED  BY <3>1, <3>2
  <2> HIDE DEF Shifted
  <2>4. \A n : n \in Shifted(SymDiff(x, y)) <=> n \in SymDiff(Shifted(x), Shifted(y))
    BY <2>3, XorBit
  <2> DEFINE left == Shifted(SymDiff(x, y))
             right == SymDiff(Shifted(x), Shifted(y))
  <2>5. \A n : n \in left <=> n \in right
    BY <2>4
  <2> HIDE DEF left, right
  <2>6. left = right
    BY <2>5
  <2> QED  BY <2>6 DEF left, right
<1>2. Reduced(SymDiff(x, y)) = SymDiff(Reduced(x), Reduced(y))
  <2>1. ByteBits - 1 \in SymDiff(x, y) <=> (ByteBits - 1 \in x) # (ByteBits - 1 \in y)
    BY XorBit
  <2> QED  BY <2>1, XorEmpty
<1>3. \A z : xtime(z) = SymDiff(Shifted(z), Reduced(z))
  BY DEF xtime
<1> HIDE DEF Shifted, Reduced
<1>4. QED
  BY <1>1, <1>2, <1>3, XorSwap

LEMMA MultiplyType ==
  ASSUME NEW x \in Byte, NEW y
  PROVE  multiply_GF(x, y) \in Byte /\ xtime_GF3(x) \in Byte
<1>1. /\ xtime(x) \in Byte /\ xtime(xtime(x)) \in Byte
      /\ xtime(xtime(xtime(x))) \in Byte /\ {} \in Byte
  BY BitsAre, XtimeType
<1>2. xtime_GF3(x) \in Byte
  BY <1>1, XorType DEF xtime_GF3
<1>3. multiply_GF(x, y) \in Byte
  <2> DEFINE Masked(v, p) == IF p \in y THEN v ELSE {}
  <2>1. \A v \in Byte : \A p : Masked(v, p) \in Byte
    BY BitsAre
  <2>2. multiply_GF(x, y) =
          Sum4(Masked(x, 0), Masked(xtime(x), 1), Masked(xtime(xtime(x)), 2),
               Masked(xtime(xtime(xtime(x))), 3))
    BY DEF multiply_GF, Sum4
  <2> HIDE DEF Masked
  <2> QED  BY <1>1, <2>1, <2>2, Sum4Type
<1>4. QED
  BY <1>2, <1>3

LEMMA MultiplyXor ==
  ASSUME NEW x \in Byte, NEW z \in Byte, NEW y
  PROVE  multiply_GF(SymDiff(x, z), y)
           = SymDiff(multiply_GF(x, y), multiply_GF(z, y))
<1> DEFINE Masked(v, p) == IF p \in y THEN v ELSE {}
<1>1. ASSUME NEW v, NEW w, NEW p
      PROVE  Masked(SymDiff(v, w), p) = SymDiff(Masked(v, p), Masked(w, p))
  BY XorEmpty
<1>2. \A v : multiply_GF(v, y) =
              Sum4(Masked(v, 0), Masked(xtime(v), 1), Masked(xtime(xtime(v)), 2),
                   Masked(xtime(xtime(xtime(v))), 3))
  BY DEF multiply_GF, Sum4
<1> HIDE DEF Masked
<1>3. /\ xtime(SymDiff(x, z)) = SymDiff(xtime(x), xtime(z))
      /\ xtime(xtime(SymDiff(x, z))) = SymDiff(xtime(xtime(x)), xtime(xtime(z)))
      /\ xtime(xtime(xtime(SymDiff(x, z))))
           = SymDiff(xtime(xtime(xtime(x))), xtime(xtime(xtime(z))))
  BY XtimeXor, XtimeType
<1>4. multiply_GF(SymDiff(x, z), y) =
        Sum4(SymDiff(Masked(x, 0), Masked(z, 0)),
             SymDiff(Masked(xtime(x), 1), Masked(xtime(z), 1)),
             SymDiff(Masked(xtime(xtime(x)), 2), Masked(xtime(xtime(z)), 2)),
             SymDiff(Masked(xtime(xtime(xtime(x))), 3),
                     Masked(xtime(xtime(xtime(z))), 3)))
  BY <1>1, <1>2, <1>3
<1>5. QED
  BY <1>2, <1>4, Sum4Xor

LEMMA MultiplySum4 ==
  ASSUME NEW p \in Byte, NEW q \in Byte, NEW r \in Byte, NEW s \in Byte, NEW y
  PROVE  multiply_GF(Sum4(p, q, r, s), y)
           = Sum4(multiply_GF(p, y), multiply_GF(q, y),
                  multiply_GF(r, y), multiply_GF(s, y))
<1>1. SymDiff(p, q) \in Byte /\ SymDiff(r, s) \in Byte
  BY XorType
<1>2. QED
  BY <1>1, MultiplyXor DEF Sum4

\* 0e times 2, 0b, 0d and 09 times 3 add up to 1, and the same factors in any
\* other place against 2, 3, 1, 1 to 0: as polynomials, before any reduction.
LEMMA Columns ==
  ASSUME NEW v \in Byte
  PROVE  LET by_e(x) == multiply_GF(x, {1, 2, 3})
             by_b(x) == multiply_GF(x, {0, 1, 3})
             by_d(x) == multiply_GF(x, {0, 2, 3})
             by_9(x) == multiply_GF(x, {0, 3})
         IN  /\ Sum4(by_e(xtime(v)), by_b(v), by_d(v), by_9(xtime_GF3(v))) = v
             /\ Sum4(by_e(xtime_GF3(v)), by_b(xtime(v)), by_d(v), by_9(v)) = {}
             /\ Sum4(by_e(v), by_b(xtime_GF3(v)), by_d(xtime(v)), by_9(v)) = {}
             /\ Sum4(by_e(v), by_b(v), by_d(xtime_GF3(v)), by_9(xtime(v))) = {}
<1> DEFINE x1 == xtime(v)
           x2 == xtime(x1)
           x3 == xtime(x2)
           x4 == xtime(x3)
<1>1. /\ x1 \in Byte /\ x2 \in Byte /\ x3 \in Byte
  BY XtimeType
<1>2. \A x : /\ multiply_GF(x, {1, 2, 3})
                  = Sum4({}, xtime(x), xtime(xtime(x)), xtime(xtime(xtime(x))))
             /\ multiply_GF(x, {0, 1, 3})
                  = Sum4(x, xtime(x), {}, xtime(xtime(xtime(x))))
             /\ multiply_GF(x, {0, 2, 3})
                  = Sum4(x, {}, xtime(xtime(x)), xtime(xtime(xtime(x))))
             /\ multiply_GF(x, {0, 3})
                  = Sum4(x, {}, {}, xtime(xtime(xtime(x))))
  BY DEF multiply_GF, Sum4
<1>3. /\ xtime_GF3(v) = SymDiff(x1, v)
      /\ xtime(xtime_GF3(v)) = SymDiff(x2, x1)
      /\ xtime(xtime(xtime_GF3(v))) = SymDiff(x3, x2)
      /\ xtime(xtime(xtime(xtime_GF3(v)))) = SymDiff(x4, x3)
  BY <1>1, XtimeXor DEF xtime_GF3
<1>4. /\ multiply_GF(v, {1, 2, 3}) = Sum4({}, x1, x2, x3)
      /\ multiply_GF(v, {0, 1, 3}) = Sum4(v, x1, {}, x3)
      /\ multiply_GF(v, {0, 2, 3}) = Sum4(v, {}, x2, x3)
      /\ multiply_GF(v, {0, 3}) = Sum4(v, {}, {}, x3)
  BY <1>2
<1>5. /\ multiply_GF(x1, {1, 2, 3}) = Sum4({}, x2, x3, x4)
      /\ multiply_GF(x1, {0, 1, 3}) = Sum4(x1, x2, {}, x4)
      /\ multiply_GF(x1, {0, 2, 3}) = Sum4(x1, {}, x3, x4)
      /\ multiply_GF(x1, {0, 3}) = Sum4(x1, {}, {}, x4)
  BY <1>2
<1> DEFINE y == xtime_GF3(v)
<1>6. /\ multiply_GF(y, {1, 2, 3})
           = Sum4({}, SymDiff(x2, x1), SymDiff(x3, x2), SymDiff(x4, x3))
      /\ multiply_GF(y, {0, 1, 3})
           = Sum4(SymDiff(x1, v), SymDiff(x2, x1), {}, SymDiff(x4, x3))
      /\ multiply_GF(y, {0, 2, 3})
           = Sum4(SymDiff(x1, v), {}, SymDiff(x3, x2), SymDiff(x4, x3))
      /\ multiply_GF(y, {0, 3})
           = Sum4(SymDiff(x1, v), {}, {}, SymDiff(x4, x3))
  BY <1>2, <1>3
<1> HIDE DEF x1, x2, x3, x4, y
<1>7. /\ Sum4(Sum4({}, x2, x3, x4), Sum4(v, x1, {}, x3), Sum4(v, {}, x2, x3),
              Sum4(SymDiff(x1, v), {}, {}, SymDiff(x4, x3))) = v
      /\ Sum4(Sum4({}, SymDiff(x2, x1), SymDiff(x3, x2), SymDiff(x4, x3)),
              Sum4(x1, x2, {}, x4), Sum4(v, {}, x2, x3), Sum4(v, {}, {}, x3)) = {}
      /\ Sum4(Sum4({}, x1, x2, x3),
              Sum4(SymDiff(x1, v), SymDiff(x2, x1), {}, SymDiff(x4, x3)),
              Sum4(x1, {}, x3, x4), Sum4(v, {}, {}, x3)) = {}
      /\ Sum4(Sum4({}, x1, x2, x3), Sum4(v, x1, {}, x3),
              Sum4(SymDiff(x1, v), {}, SymDiff(x3, x2), SymDiff(x4, x3)),
              Sum4(x1, {}, {}, x4)) = {}
  BY DEF Sum4, SymDiff
<1>8. QED
  BY <1>4, <1>5, <1>6, <1>7 DEF x1, y

(***************************************************************************)
(* The steps of a round, and their inverses.                               *)
(***************************************************************************)

\* Going down k bytes in a column and then j more.
LEMMA BelowBelow ==
  ASSUME NEW n \in 0 .. 15, NEW k \in 0 .. 3, NEW j \in 0 .. 3, NEW s
  PROVE  LET m == n - (n % 4) + ((n + k) % 4)
         IN  /\ m \in 0 .. 15
             /\ Below(s, m, j) = Below(s, n, (k + j) % 4)
             /\ Below(s, n, 0) = s[n]
<1> DEFINE m == n - (n % 4) + ((n + k) % 4)
<1>1. n - (n % 4) \in {0, 4, 8, 12} /\ (n + k) % 4 \in 0 .. 3
  OBVIOUS
<1>2. m \in 0 .. 15 /\ m - (m % 4) = n - (n % 4) /\ m % 4 = (n + k) % 4
  BY <1>1
<1>3. (m + j) % 4 = (n + ((k + j) % 4)) % 4
  BY <1>1, <1>2
<1>4. n - (n % 4) + ((n + 0) % 4) = n
  OBVIOUS
<1> HIDE DEF m
<1>5. Below(s, m, j) = Below(s, n, (k + j) % 4)
  BY <1>2, <1>3 DEF Below
<1>6. QED
  BY <1>2, <1>4, <1>5 DEF Below, m

LEMMA BelowType ==
  ASSUME NEW s \in Block, NEW n \in 0 .. 15, NEW k \in 0 .. 3
  PROVE  Below(s, n, k) \in Byte
<1>1. n - (n % 4) + ((n + k) % 4) \in 0 .. 15
  BY BelowBelow
<1>2. QED
  BY <1>1 DEF Below, Block

LEMMA MixType ==
  ASSUME NEW s \in Block
  PROVE  mixColumn(s) \in Block /\ invMixColumn(s) \in Block
<1>1. \A n \in 0 .. 15 : mixColumn(s)[n] \in Byte
  <2> SUFFICES ASSUME NEW n \in 0 .. 15 PROVE mixColumn(s)[n] \in Byte
    OBVIOUS
  <2>1. mixColumn(s)[n] = Sum4(xtime(Below(s, n, 0)), xtime_GF3(Below(s, n, 1)),
                               Below(s, n, 2), Below(s, n, 3))
    BY DEF mixColumn, Sum4
  <2>2. \A k \in 0 .. 3 : Below(s, n, k) \in Byte
    BY BelowType
  <2>3. 0 \in 0 .. 3 /\ 1 \in 0 .. 3 /\ 2 \in 0 .. 3 /\ 3 \in 0 .. 3
    OBVIOUS
  <2>4. /\ Below(s, n, 0) \in Byte /\ Below(s, n, 1) \in Byte
        /\ Below(s, n, 2) \in Byte /\ Below(s, n, 3) \in Byte
    BY <2>2, <2>3
  <2>5. xtime(Below(s, n, 0)) \in Byte /\ xtime_GF3(Below(s, n, 1)) \in Byte
    BY <2>4, XtimeType, MultiplyType
  <2> QED  BY <2>1, <2>4, <2>5, Sum4Type
<1>2. \A n \in 0 .. 15 : invMixColumn(s)[n] \in Byte
  <2> SUFFICES ASSUME NEW n \in 0 .. 15 PROVE invMixColumn(s)[n] \in Byte
    OBVIOUS
  <2>1. invMixColumn(s)[n] = Sum4(multiply_GF(Below(s, n, 0), {1, 2, 3}),
                                  multiply_GF(Below(s, n, 1), {0, 1, 3}),
                                  multiply_GF(Below(s, n, 2), {0, 2, 3}),
                                  multiply_GF(Below(s, n, 3), {0, 3}))
    BY DEF invMixColumn, Sum4
  <2>2. \A k \in 0 .. 3 : Below(s, n, k) \in Byte
    BY BelowType
  <2>3. 0 \in 0 .. 3 /\ 1 \in 0 .. 3 /\ 2 \in 0 .. 3 /\ 3 \in 0 .. 3
    OBVIOUS
  <2>4. /\ Below(s, n, 0) \in Byte /\ Below(s, n, 1) \in Byte
        /\ Below(s, n, 2) \in Byte /\ Below(s, n, 3) \in Byte
    BY <2>2, <2>3
  <2>5. /\ multiply_GF(Below(s, n, 0), {1, 2, 3}) \in Byte
        /\ multiply_GF(Below(s, n, 1), {0, 1, 3}) \in Byte
        /\ multiply_GF(Below(s, n, 2), {0, 2, 3}) \in Byte
        /\ multiply_GF(Below(s, n, 3), {0, 3}) \in Byte
    BY <2>4, MultiplyType
  <2> QED  BY <2>1, <2>5, Sum4Type
<1>3. QED
  BY <1>1, <1>2 DEF mixColumn, invMixColumn, Block

\* The inverse columns of aes.c undo the columns.
LEMMA MixBack ==
  ASSUME NEW s \in Block
  PROVE  invMixColumn(mixColumn(s)) = s
<1> DEFINE t == mixColumn(s)
<1>1. ASSUME NEW n \in 0 .. 15
      PROVE  invMixColumn(t)[n] = s[n]
  <2> DEFINE a == Below(s, n, 0)
             b == Below(s, n, 1)
             c == Below(s, n, 2)
             d == Below(s, n, 3)
             by_e(x) == multiply_GF(x, {1, 2, 3})
             by_b(x) == multiply_GF(x, {0, 1, 3})
             by_d(x) == multiply_GF(x, {0, 2, 3})
             by_9(x) == multiply_GF(x, {0, 3})
  <2>1. /\ a \in Byte /\ b \in Byte /\ c \in Byte /\ d \in Byte /\ a = s[n]
        /\ 0 \in 0 .. 3 /\ 1 \in 0 .. 3 /\ 2 \in 0 .. 3 /\ 3 \in 0 .. 3
    BY BelowType, BelowBelow
  <2>2. ASSUME NEW k \in 0 .. 3
        PROVE  Below(t, n, k) =
                 Sum4(xtime(Below(s, n, k)), xtime_GF3(Below(s, n, (k + 1) % 4)),
                      Below(s, n, (k + 2) % 4), Below(s, n, (k + 3) % 4))
    <3> DEFINE m == n - (n % 4) + ((n + k) % 4)
    <3>1. /\ m \in 0 .. 15 /\ Below(s, m, 0) = Below(s, n, (k + 0) % 4)
          /\ Below(s, m, 1) = Below(s, n, (k + 1) % 4)
          /\ Below(s, m, 2) = Below(s, n, (k + 2) % 4)
          /\ Below(s, m, 3) = Below(s, n, (k + 3) % 4)
      BY <2>1, BelowBelow
    <3>2. (k + 0) % 4 = k
      OBVIOUS
    <3>3. Below(t, n, k) = t[m]
      BY DEF Below
    <3> HIDE DEF m
    <3>4. t[m] = Sum4(xtime(Below(s, m, 0)), xtime_GF3(Below(s, m, 1)),
                      Below(s, m, 2), Below(s, m, 3))
      BY <3>1 DEF mixColumn, Sum4
    <3> QED  BY <3>1, <3>2, <3>3, <3>4
  <2>3. /\ Below(t, n, 0) = Sum4(xtime(a), xtime_GF3(b), c, d)
        /\ Below(t, n, 1) = Sum4(xtime(b), xtime_GF3(c), d, a)
        /\ Below(t, n, 2) = Sum4(xtime(c), xtime_GF3(d), a, b)
        /\ Below(t, n, 3) = Sum4(xtime(d), xtime_GF3(a), b, c)
    <3>1. /\ (0 + 1) % 4 = 1 /\ (0 + 2) % 4 = 2 /\ (0 + 3) % 4 = 3
          /\ (1 + 1) % 4 = 2 /\ (1 + 2) % 4 = 3 /\ (1 + 3) % 4 = 0
          /\ (2 + 1) % 4 = 3 /\ (2 + 2) % 4 = 0 /\ (2 + 3) % 4 = 1
          /\ (3 + 1) % 4 = 0 /\ (3 + 2) % 4 = 1 /\ (3 + 3) % 4 = 2
      OBVIOUS
    <3>2. \A k \in 0 .. 3 :
            Below(t, n, k) =
              Sum4(xtime(Below(s, n, k)), xtime_GF3(Below(s, n, (k + 1) % 4)),
                   Below(s, n, (k + 2) % 4), Below(s, n, (k + 3) % 4))
      BY <2>2
    <3> HIDE DEF t
    <3>3. /\ Below(t, n, 0) = Sum4(xtime(a), xtime_GF3(b), c, d)
          /\ Below(t, n, 1) = Sum4(xtime(b), xtime_GF3(c), d, a)
      BY <2>1, <3>1, <3>2
    <3>4. /\ Below(t, n, 2) = Sum4(xtime(c), xtime_GF3(d), a, b)
          /\ Below(t, n, 3) = Sum4(xtime(d), xtime_GF3(a), b, c)
      BY <2>1, <3>1, <3>2
    <3> QED  BY <3>3, <3>4
  <2>4. invMixColumn(t)[n] =
          Sum4(by_e(Below(t, n, 0)), by_b(Below(t, n, 1)),
               by_d(Below(t, n, 2)), by_9(Below(t, n, 3)))
    BY DEF invMixColumn, Sum4
  <2> HIDE DEF a, b, c, d, t
  <2> DEFINE a2 == xtime(a)
             a3 == xtime_GF3(a)
             b2 == xtime(b)
             b3 == xtime_GF3(b)
             c2 == xtime(c)
             c3 == xtime_GF3(c)
             d2 == xtime(d)
             d3 == xtime_GF3(d)
  <2>5. /\ Below(t, n, 0) = Sum4(a2, b3, c, d)
        /\ Below(t, n, 1) = Sum4(a, b2, c3, d)
        /\ Below(t, n, 2) = Sum4(a, b, c2, d3)
        /\ Below(t, n, 3) = Sum4(a3, b, c, d2)
    BY <2>3, Sum4Turn
  <2>6. /\ a2 \in Byte /\ b2 \in Byte /\ c2 \in Byte /\ d2 \in Byte
        /\ a3 \in Byte /\ b3 \in Byte /\ c3 \in Byte /\ d3 \in Byte
    BY <2>1, XtimeType, MultiplyType
  <2>7. /\ Sum4(by_e(a2), by_b(a), by_d(a), by_9(a3)) = a
        /\ Sum4(by_e(b3), by_b(b2), by_d(b), by_9(b)) = {}
        /\ Sum4(by_e(c), by_b(c3), by_d(c2), by_9(c)) = {}
        /\ Sum4(by_e(d), by_b(d), by_d(d3), by_9(d2)) = {}
    BY <2>1, Columns
  <2> HIDE DEF a2, a3, b2, b3, c2, c3, d2, d3
  <2>8. /\ by_e(Sum4(a2, b3, c, d)) = Sum4(by_e(a2), by_e(b3), by_e(c), by_e(d))
        /\ by_b(Sum4(a, b2, c3, d)) = Sum4(by_b(a), by_b(b2), by_b(c3), by_b(d))
        /\ by_d(Sum4(a, b, c2, d3)) = Sum4(by_d(a), by_d(b), by_d(c2), by_d(d3))
        /\ by_9(Sum4(a3, b, c, d2)) = Sum4(by_9(a3), by_9(b), by_9(c), by_9(d2))
    <3>1. by_e(Sum4(a2, b3, c, d)) = Sum4(by_e(a2), by_e(b3), by_e(c), by_e(d))
      BY <2>1, <2>6, MultiplySum4
    <3>2. by_b(Sum4(a, b2, c3, d)) = Sum4(by_b(a), by_b(b2), by_b(c3), by_b(d))
      BY <2>1, <2>6, MultiplySum4
    <3>3. by_d(Sum4(a, b, c2, d3)) = Sum4(by_d(a), by_d(b), by_d(c2), by_d(d3))
      BY <2>1, <2>6, MultiplySum4
    <3>4. by_9(Sum4(a3, b, c, d2)) = Sum4(by_9(a3), by_9(b), by_9(c), by_9(d2))
      BY <2>1, <2>6, MultiplySum4
    <3> QED  BY <3>1, <3>2, <3>3, <3>4
  <2> HIDE DEF by_e, by_b, by_d, by_9
  <2>9. invMixColumn(t)[n] =
          Sum4(Sum4(by_e(a2), by_e(b3), by_e(c), by_e(d)),
               Sum4(by_b(a), by_b(b2), by_b(c3), by_b(d)),
               Sum4(by_d(a), by_d(b), by_d(c2), by_d(d3)),
               Sum4(by_9(a3), by_9(b), by_9(c), by_9(d2)))
    BY <2>4, <2>5, <2>8
  <2>10. invMixColumn(t)[n] = Sum4(a, {}, {}, {})
    <3>1. invMixColumn(t)[n] =
            Sum4(Sum4(by_e(a2), by_b(a), by_d(a), by_9(a3)),
                 Sum4(by_e(b3), by_b(b2), by_d(b), by_9(b)),
                 Sum4(by_e(c), by_b(c3), by_d(c2), by_9(c)),
                 Sum4(by_e(d), by_b(d), by_d(d3), by_9(d2)))
      BY <2>9, Sum4Transpose
    <3> QED  BY <2>7, <3>1
  <2>11. Sum4(a, {}, {}, {}) = a
    BY XorEmpty DEF Sum4
  <2> QED  BY <2>1, <2>10, <2>11
<1>2. QED
  <2>1. invMixColumn(t) = [n \in 0 .. 15 |-> invMixColumn(t)[n]]
    BY DEF invMixColumn
  <2>2. s = [n \in 0 .. 15 |-> s[n]]
    BY DEF Block
  <2> HIDE DEF t
  <2>3. invMixColumn(t) = s
    BY <1>1, <2>1, <2>2
  <2> QED  BY <2>3 DEF t

LEMMA ShiftBack ==
  ASSUME NEW s \in Block
  PROVE  /\ shiftRows(s) \in Block /\ invShiftRows(s) \in Block
         /\ invShiftRows(shiftRows(s)) = s
<1>1. ASSUME NEW n \in 0 .. 15
      PROVE  /\ (n + 4 * (n % 4)) % 16 \in 0 .. 15
             /\ (n - 4 * (n % 4)) % 16 \in 0 .. 15
             /\ LET m == (n - 4 * (n % 4)) % 16 IN (m + 4 * (m % 4)) % 16 = n
  OBVIOUS
<1>2. shiftRows(s) \in Block /\ invShiftRows(s) \in Block
  BY <1>1 DEF shiftRows, invShiftRows, Block
<1>3. \A n \in 0 .. 15 : invShiftRows(shiftRows(s))[n] = s[n]
  BY <1>1 DEF shiftRows, invShiftRows
<1>4. QED
  <2>1. invShiftRows(shiftRows(s)) \in [0 .. 15 -> Byte]
    BY <1>1, <1>2 DEF invShiftRows, Block
  <2> QED  BY <1>2, <1>3, <2>1 DEF Block

LEMMA SubBack ==
  ASSUME NEW s \in Block
  PROVE  /\ subBytes(s) \in Block /\ invSubBytes(s) \in Block
         /\ invSubBytes(subBytes(s)) = s
<1>1. /\ \A b \in Byte : sbox[b] \in Byte /\ inv_sbox[b] \in Byte
      /\ \A b \in Byte : inv_sbox[sbox[b]] = b
  BY AesAssumption
<1>2. QED
  BY <1>1 DEF subBytes, invSubBytes, Block

\* Rows and bytes undone together.
LEMMA ShiftSubBack ==
  ASSUME NEW s \in Block
  PROVE  /\ shiftRows(subBytes(s)) \in Block
         /\ invSubBytes(invShiftRows(shiftRows(subBytes(s)))) = s
BY ShiftBack, SubBack

(***************************************************************************)
(* Round keys.                                                             *)
(***************************************************************************)
Schedule == [0 .. MaxWords - 1 -> Word]

LEMMA JobFacts ==
  ASSUME job \in AesJobs
  PROVE  /\ Nr \in Nat /\ Nr >= 1 /\ Nk \in Nat /\ Nk >= 1
         /\ Nk <= 4 * (Nr + 1) /\ 4 * (Nr + 1) <= MaxWords
         /\ 4 * (Nr + 1) <= 12 * Nk
         /\ RevertWords[job.key_len] = 4 * (Nr + 1) /\ MaxWords \in Nat
         /\ job.key \in [0 .. Nk - 1 -> Word]
         /\ job.text \in Block /\ job.mode \in Modes
<1>1. /\ Nk \in Nat \ {0} /\ Nr \in Nat \ {0}
      /\ Nk <= 4 * (Nr + 1) /\ 4 * (Nr + 1) <= MaxWords
      /\ 4 * (Nr + 1) <= 12 * Nk
      /\ RevertWords[job.key_len] = 4 * (Nr + 1) /\ MaxWords \in Nat
      /\ job.key \in [0 .. Nk - 1 -> Word]
      /\ job.text \in Block /\ job.mode \in Modes
  BY AesAssumption DEF Nk, Nr
<1>2. QED
  BY <1>1

LEMMA LittleEndian ==
  ASSUME NEW w \in Word
  PROVE  LE32TOBE32(w) \in Word /\ LE32TOBE32(LE32TOBE32(w)) = w
<1>1. \A j \in 0 .. 3 : 3 - j \in 0 .. 3 /\ 3 - (3 - j) = j
  OBVIOUS
<1>2. QED
  BY <1>1 DEF LE32TOBE32, Word

LEMMA WordXorType ==
  ASSUME NEW v \in Word, NEW w \in Word
  PROVE  WordXor(v, w) \in Word
<1>1. \A j \in 0 .. 3 : SymDiff(v[j], w[j]) \in Byte
  BY XorType DEF Word
<1>2. QED
  BY <1>1 DEF WordXor, Word

LEMMA SubRotType ==
  ASSUME NEW w \in Word
  PROVE  subWord(w) \in Word /\ rotWord(w) \in Word
<1>1. \A b \in Byte : sbox[b] \in Byte
  BY AesAssumption
<1>2. subWord(w) \in Word
  BY <1>1 DEF subWord, Word
<1>3. rotWord(w) \in Word
  <2> DEFINE be == LE32TOBE32(w)
             turned == [j \in 0 .. 3 |-> be[(j + 1) % 4]]
  <2>1. be \in Word
    BY LittleEndian
  <2> HIDE DEF be
  <2>2. turned \in Word
    BY <2>1 DEF Word
  <2>3. rotWord(w) = LE32TOBE32(turned)
    BY DEF rotWord, be
  <2> QED  BY <2>2, <2>3, LittleEndian
<1>4. QED
  BY <1>2, <1>3

\* Every index that key_expansion takes into Rcon is one of the table.
LEMMA RconIndex ==
  ASSUME NEW k \in Nat, NEW n \in Nat, k >= 1, n >= k, n < 12 * k
  PROVE  n \div k - 1 \in 0 .. 10
<1>1. n \div k \in Nat
  OBVIOUS
<1>2. /\ n = k * (n \div k) + (n % k) /\ n % k \in 0 .. k - 1
  OBVIOUS
<1> DEFINE q == n \div k
<1>3. q # 0
  BY <1>2
<1> HIDE DEF q
<1>4. q < 12
  <2> SUFFICES ASSUME q >= 12 PROVE FALSE
    BY <1>1 DEF q
  <2>1. k * q >= k * 12
    BY <1>1 DEF q
  <2> QED  BY <1>1, <1>2, <2>1 DEF q
<1>5. QED
  BY <1>1, <1>3, <1>4 DEF q

LEMMA NextWordType ==
  ASSUME job \in AesJobs, NEW words \in Schedule,
         NEW n \in Nat, Nk <= n, n < 4 * (Nr + 1)
  PROVE  NextWord(words, n) \in Word
<1>1. /\ Nr \in Nat /\ Nk \in Nat /\ Nk >= 1 /\ MaxWords \in Nat
      /\ 4 * (Nr + 1) <= MaxWords /\ 4 * (Nr + 1) <= 12 * Nk
  BY JobFacts
<1>2. n - 1 \in 0 .. MaxWords - 1 /\ n - Nk \in 0 .. MaxWords - 1
  BY <1>1
<1>3. words[n - 1] \in Word /\ words[n - Nk] \in Word
  BY <1>2 DEF Schedule
<1>4. LE32TOBE32(RconWord(n \div Nk - 1)) \in Word
  <2>1. n \div Nk - 1 \in 0 .. 10
    BY <1>1, RconIndex
  <2>2. Rcon[n \div Nk - 1] \in Byte
    BY <2>1, AesAssumption
  <2>3. RconWord(n \div Nk - 1) \in Word
    BY <2>2, BitsAre DEF RconWord, ZeroWord, Word
  <2> QED  BY <2>3, LittleEndian
<1>5. WordXor(subWord(rotWord(words[n - 1])), LE32TOBE32(RconWord(n \div Nk - 1)))
        \in Word
  BY <1>3, <1>4, SubRotType, WordXorType
<1>6. subWord(words[n - 1]) \in Word
  BY <1>3, SubRotType
<1> DEFINE tmp == IF n % Nk = 0
                    THEN WordXor(subWord(rotWord(words[n - 1])),
                                 LE32TOBE32(RconWord(n \div Nk - 1)))
                  ELSE IF Nk > 6 /\ n % Nk = 4 THEN subWord(words[n - 1])
                  ELSE words[n - 1]
<1>7. tmp \in Word
  BY <1>3, <1>5, <1>6
<1>8. NextWord(words, n) = WordXor(words[n - Nk], tmp)
  BY DEF NextWord
<1> HIDE DEF tmp
<1>9. QED
  BY <1>3, <1>7, <1>8, WordXorType

\* Byte n of the round key at index `at`.
LEMMA KeyByteType ==
  ASSUME job \in AesJobs, NEW words \in Schedule,
         NEW r \in 0 .. Nr, NEW n \in 0 .. 15
  PROVE  /\ KeyByte(words, 16 * r + n) = words[4 * r + (n \div 4)][n % 4]
         /\ 4 * r + (n \div 4) \in 0 .. 4 * (Nr + 1) - 1
         /\ KeyByte(words, 16 * r + n) \in Byte
<1>1. Nr \in Nat /\ MaxWords \in Nat /\ 4 * (Nr + 1) <= MaxWords
  BY JobFacts
<1>2. /\ (16 * r + n) \div 4 = 4 * r + (n \div 4) /\ (16 * r + n) % 4 = n % 4
      /\ n \div 4 \in 0 .. 3 /\ n % 4 \in 0 .. 3
  BY <1>1
<1>3. 4 * r + (n \div 4) \in 0 .. 4 * (Nr + 1) - 1
  BY <1>1, <1>2
<1>4. 4 * r + (n \div 4) \in 0 .. MaxWords - 1
  BY <1>1, <1>3
<1>5. words[4 * r + (n \div 4)][n % 4] \in Byte
  BY <1>2, <1>4 DEF Schedule, Word
<1>6. QED
  BY <1>2, <1>3, <1>5 DEF KeyByte

LEMMA AddType ==
  ASSUME job \in AesJobs, NEW words \in Schedule, NEW r \in 0 .. Nr, NEW s \in Block
  PROVE  addRoundKey(s, words, 16 * r) \in Block
<1>1. \A n \in 0 .. 15 : SymDiff(s[n], KeyByte(words, 16 * r + n)) \in Byte
  BY KeyByteType, XorType DEF Block
<1>2. QED
  BY <1>1 DEF addRoundKey, Block

\* A round key added a second time is gone.
LEMMA AddTwice ==
  ASSUME NEW words, NEW at, NEW s \in Block
  PROVE  addRoundKey(addRoundKey(s, words, at), words, at) = s
<1>1. \A n \in 0 .. 15 :
        SymDiff(SymDiff(s[n], KeyByte(words, at + n)), KeyByte(words, at + n)) = s[n]
  BY XorTwice
<1>2. s = [n \in 0 .. 15 |-> s[n]]
  BY DEF Block
<1>3. addRoundKey(addRoundKey(s, words, at), words, at) = [n \in 0 .. 15 |-> s[n]]
  BY <1>1 DEF addRoundKey
<1>4. QED
  BY <1>2, <1>3

\* What revert_round_key_order leaves is the round keys from the last to the
\* first, each with its words and bytes in their order.
LEMMA RevertedWords ==
  ASSUME job \in AesJobs, NEW words \in Schedule
  PROVE  /\ Reverted(words, 4 * (Nr + 1)) \in Schedule
         /\ \A r \in 0 .. Nr, c \in 0 .. 3 :
              Reverted(words, 4 * (Nr + 1))[4 * r + c] = words[4 * (Nr - r) + c]
<1>1. Nr \in Nat /\ MaxWords \in Nat /\ 4 * (Nr + 1) <= MaxWords
  BY JobFacts
<1> DEFINE len == 4 * (Nr + 1)
           turned == [w \in 0 .. MaxWords - 1 |->
                        IF w < len THEN LE32TOBE32(words[len - 1 - w]) ELSE words[w]]
<1>2. Reverted(words, len) =
        [w \in 0 .. MaxWords - 1 |->
           IF w < len THEN LE32TOBE32(turned[4 * (w \div 4) + 3 - (w % 4)])
                      ELSE words[w]]
  BY DEF Reverted
<1>3. ASSUME NEW w \in 0 .. MaxWords - 1, w < len
      PROVE  Reverted(words, len)[w] = words[4 * (Nr - (w \div 4)) + (w % 4)]
             /\ Reverted(words, len)[w] \in Word
  <2> DEFINE v == 4 * (w \div 4) + 3 - (w % 4)
  <2>1. /\ v \in 0 .. MaxWords - 1 /\ v < len
        /\ len - 1 - v = 4 * (Nr - (w \div 4)) + (w % 4)
        /\ len - 1 - v \in 0 .. MaxWords - 1
    BY <1>1, <1>3
  <2>2. Reverted(words, len)[w] = LE32TOBE32(turned[v])
    BY <1>2, <1>3
  <2> HIDE DEF v
  <2>3. turned[v] = LE32TOBE32(words[len - 1 - v])
    BY <2>1
  <2>4. words[len - 1 - v] \in Word
    BY <2>1 DEF Schedule
  <2>5. LE32TOBE32(turned[v]) = words[len - 1 - v]
    BY <2>3, <2>4, LittleEndian
  <2> QED  BY <2>1, <2>2, <2>4, <2>5
<1> HIDE DEF turned
<1>4. Reverted(words, len) \in Schedule
  BY <1>2, <1>3 DEF Schedule
<1>5. ASSUME NEW r \in 0 .. Nr, NEW c \in 0 .. 3
      PROVE  Reverted(words, len)[4 * r + c] = words[4 * (Nr - r) + c]
  <2>1. /\ 4 * r + c \in 0 .. MaxWords - 1 /\ 4 * r + c < len
        /\ (4 * r + c) \div 4 = r /\ (4 * r + c) % 4 = c
    BY <1>1
  <2> QED  BY <1>3, <2>1
<1>6. QED
  BY <1>4, <1>5

\* A reverted schedule has at index 16 * r the key that the schedule has as
\* many round keys before its end.
LEMMA AddReverted ==
  ASSUME job \in AesJobs, NEW words \in Schedule, NEW r \in 0 .. Nr, NEW s
  PROVE  addRoundKey(s, Reverted(words, 4 * (Nr + 1)), 16 * r)
           = addRoundKey(s, words, 16 * (Nr - r))
<1> DEFINE inv == Reverted(words, 4 * (Nr + 1))
<1>1. /\ Nr \in Nat /\ Nr - r \in 0 .. Nr /\ inv \in Schedule
  BY JobFacts, RevertedWords
<1>2. ASSUME NEW n \in 0 .. 15
      PROVE  KeyByte(inv, 16 * r + n) = KeyByte(words, 16 * (Nr - r) + n)
  <2>1. KeyByte(words, 16 * (Nr - r) + n) = words[4 * (Nr - r) + (n \div 4)][n % 4]
    BY <1>1, KeyByteType
  <2>2. n \div 4 \in 0 .. 3
    OBVIOUS
  <2>3. inv[4 * r + (n \div 4)] = words[4 * (Nr - r) + (n \div 4)]
    BY <2>2, RevertedWords
  <2> HIDE DEF inv
  <2>4. KeyByte(inv, 16 * r + n) = inv[4 * r + (n \div 4)][n % 4]
    BY <1>1, KeyByteType
  <2> QED  BY <2>1, <2>3, <2>4
<1>3. QED
  BY <1>2 DEF addRoundKey

(***************************************************************************)
(* The invariant.                                                          *)
(***************************************************************************)
\* What the first side has remembered: all of it once the other side is at work.
AesRecorded(n) == receiving \/ (pc = "encrypting" /\ n <= round)

\* Encryption, round key by round key.
After(n) ==
  IF n = 0 THEN addRoundKey(job.text, round_keys, 0)
  ELSE LET mixed == shiftRows(subBytes(trail[n - 1]))
       IN  addRoundKey(IF n = Nr THEN mixed ELSE mixColumn(mixed), round_keys, 16 * n)

Encrypted == \A n \in 0 .. Nr : AesRecorded(n) => trail[n] = After(n)

\* The second context has the keys of the first, or the same reverted.
KeysReady ==
  /\ pc \in {"key", "expand"} => ~ receiving
  /\ pc = "expand" => i >= Nk
  /\ pc \notin {"key", "expand"} =>
       inv_round_keys = IF job.mode \in {"CBC", "ECB"}
                          THEN Reverted(round_keys, 4 * (Nr + 1))
                          ELSE round_keys

\* Where each loop is, and in which state of the first side.
InStep ==
  /\ receiving => cipher = trail[Nr]
  /\ pc = "encrypting" => /\ ~ Inverting /\ round <= Nr - 1
                          /\ index = 16 * (round + 1) /\ state = trail[round]
  /\ pc = "decrypting" => /\ Inverting /\ round >= 1
                          /\ index = 16 * (Nr + 1 - round)
                          /\ state = shiftRows(subBytes(trail[round - 1]))
  /\ pc = "done" =>
       /\ receiving
       /\ output = IF job.mode \in {"CBC", "ECB"} THEN job.text ELSE cipher

AInv == AesTypeOK /\ KeysReady /\ Encrypted /\ InStep

-----------------------------------------------------------------------------
LEMMA EmptyTypes ==
  /\ ZeroWord \in Word /\ ZeroBlock \in Block
  /\ [w \in 0 .. MaxWords - 1 |-> ZeroWord] \in Schedule
BY BitsAre DEF ZeroWord, ZeroBlock, Word, Block, Schedule

LEMMA AInvInit == AesInit => AInv
<1> SUFFICES ASSUME AesInit PROVE AInv
  OBVIOUS
<1>1. /\ job \in AesJobs /\ pc = "key" /\ i = 0 /\ receiving = FALSE
      /\ index = 0 /\ round = 0 /\ state = ZeroBlock /\ cipher = ZeroBlock
      /\ output = ZeroBlock /\ trail = [n \in 0 .. Nr |-> ZeroBlock]
      /\ round_keys = [w \in 0 .. MaxWords - 1 |-> ZeroWord]
      /\ inv_round_keys = round_keys
  BY DEF AesInit
<1>2. Nr \in Nat
  BY <1>1, JobFacts
<1>3. AesTypeOK
  <2>1. 0 \in 0 .. 4 * (Nr + 1) /\ 0 \in 0 .. Nr /\ 0 \in 0 .. 16 * Nr
    BY <1>2
  <2>2. trail \in [0 .. Nr -> Block]
    BY <1>1, EmptyTypes
  <2>3. round_keys \in Schedule /\ inv_round_keys \in Schedule
    BY <1>1, EmptyTypes
  <2> QED  BY <1>1, <2>1, <2>2, <2>3, EmptyTypes DEF AesTypeOK, Schedule
<1>4. KeysReady /\ Encrypted /\ InStep
  BY <1>1 DEF KeysReady, Encrypted, AesRecorded, InStep
<1>5. QED
  BY <1>3, <1>4 DEF AInv

LEMMA LoadKeyKeep == AInv /\ LoadKey => AInv'
<1> SUFFICES ASSUME AInv, LoadKey PROVE AInv'
  OBVIOUS
<1>1. /\ pc = "key" /\ pc' = "expand" /\ i' = Nk /\ job' = job
      /\ inv_round_keys' = inv_round_keys /\ receiving' = receiving
      /\ state' = state /\ index' = index /\ round' = round /\ cipher' = cipher
      /\ output' = output /\ trail' = trail
      /\ round_keys' = [w \in 0 .. MaxWords - 1 |->
                          IF w < Nk THEN LE32TOBE32(job.key[w]) ELSE round_keys[w]]
  BY DEF LoadKey
<1>2. AesTypeOK /\ ~ receiving /\ Nr' = Nr /\ Nk' = Nk
  BY <1>1 DEF AInv, KeysReady, Nr, Nk
<1>3. /\ Nr \in Nat /\ Nk \in Nat /\ Nk <= 4 * (Nr + 1)
      /\ job.key \in [0 .. Nk - 1 -> Word]
  BY <1>2, JobFacts DEF AesTypeOK
<1>4. round_keys' \in Schedule
  <2>1. ASSUME NEW w \in 0 .. MaxWords - 1, w < Nk
        PROVE  LE32TOBE32(job.key[w]) \in Word
    <3>1. w \in 0 .. Nk - 1
      BY <1>3, <2>1
    <3> QED  BY <1>3, <3>1, LittleEndian
  <2>2. \A w \in 0 .. MaxWords - 1 : round_keys[w] \in Word
    BY <1>2 DEF AesTypeOK
  <2> QED  BY <1>1, <2>1, <2>2 DEF Schedule
<1>5. AesTypeOK'
  BY <1>1, <1>2, <1>3, <1>4 DEF AesTypeOK, Schedule
<1>6. (KeysReady /\ Encrypted /\ InStep)'
  BY <1>1, <1>2, <1>3 DEF KeysReady, Encrypted, AesRecorded, InStep
<1>7. QED
  BY <1>5, <1>6 DEF AInv

LEMMA ExpandWordKeep == AInv /\ ExpandWord => AInv'
<1> SUFFICES ASSUME AInv, ExpandWord PROVE AInv'
  OBVIOUS
<1>1. /\ pc = "expand" /\ i < 4 * (Nr + 1) /\ i' = i + 1
      /\ pc' = pc /\ job' = job
      /\ inv_round_keys' = inv_round_keys /\ receiving' = receiving
      /\ state' = state /\ index' = index /\ round' = round /\ cipher' = cipher
      /\ output' = output /\ trail' = trail
      /\ round_keys' = [round_keys EXCEPT ![i] = NextWord(round_keys, i)]
  BY DEF ExpandWord
<1>2. AesTypeOK /\ ~ receiving /\ i >= Nk /\ Nr' = Nr /\ Nk' = Nk
  BY <1>1 DEF AInv, KeysReady, Nr, Nk
<1>3. Nr \in Nat /\ Nk \in Nat
  BY <1>2, JobFacts DEF AesTypeOK
<1>4. i \in Nat /\ i + 1 \in 0 .. 4 * (Nr + 1) /\ round_keys \in Schedule
  BY <1>1, <1>2, <1>3 DEF AesTypeOK, Schedule
<1>5. NextWord(round_keys, i) \in Word
  BY <1>1, <1>2, <1>4, NextWordType DEF AesTypeOK
<1>6. round_keys' \in Schedule
  BY <1>1, <1>4, <1>5 DEF Schedule
<1>7. AesTypeOK'
  BY <1>1, <1>2, <1>4, <1>6 DEF AesTypeOK, Schedule
<1>8. (KeysReady /\ Encrypted /\ InStep)'
  BY <1>1, <1>2, <1>3, <1>4 DEF KeysReady, Encrypted, AesRecorded, InStep
<1>9. QED
  BY <1>7, <1>8 DEF AInv

LEMMA FinishKeysKeep == AInv /\ FinishKeys => AInv'
<1> SUFFICES ASSUME AInv, FinishKeys PROVE AInv'
  OBVIOUS
<1> DEFINE words == [w \in 0 .. MaxWords - 1 |-> LE32TOBE32(round_keys[w])]
<1>1. /\ pc = "expand" /\ pc' = "block" /\ i' = i /\ job' = job
      /\ receiving' = receiving
      /\ state' = state /\ index' = index /\ round' = round /\ cipher' = cipher
      /\ output' = output /\ trail' = trail
      /\ round_keys' = words
      /\ inv_round_keys' = IF job.mode \in {"CBC", "ECB"}
                             THEN Reverted(words, RevertWords[job.key_len])
                             ELSE words
  BY DEF FinishKeys
<1>2. AesTypeOK /\ ~ receiving /\ Nr' = Nr /\ Nk' = Nk
  BY <1>1 DEF AInv, KeysReady, Nr, Nk
<1>3. words \in Schedule
  BY <1>2, LittleEndian DEF AesTypeOK, Schedule
<1> HIDE DEF words
<1>4. /\ RevertWords[job.key_len] = 4 * (Nr + 1)
      /\ Reverted(words, 4 * (Nr + 1)) \in Schedule
  BY <1>2, <1>3, JobFacts, RevertedWords DEF AesTypeOK
<1>5. AesTypeOK'
  BY <1>1, <1>2, <1>3, <1>4 DEF AesTypeOK, Schedule
<1>6. (KeysReady /\ Encrypted /\ InStep)'
  BY <1>1, <1>2, <1>4 DEF KeysReady, Encrypted, AesRecorded, InStep
<1>7. QED
  BY <1>5, <1>6 DEF AInv

-----------------------------------------------------------------------------
\* The words that a side uses, in terms of the first side's.
LEMMA AesKeysAre ==
  ASSUME AInv, pc \in {"block", "encrypting", "decrypting"}
  PROVE  /\ round_keys \in Schedule
         /\ ~ Inverting => Keys = round_keys
         /\ Inverting => receiving /\ Keys = Reverted(round_keys, 4 * (Nr + 1))
BY DEF AInv, KeysReady, AesTypeOK, Schedule, Inverting, Keys

\* What the steps of AES_encrypt_block have in common: they remember the state
\* after the k-th round key, or pass through it a second time.
LEMMA EncryptStep ==
  ASSUME AInv, NEW k \in 0 .. Nr, state' \in Block, state' = After(k),
         Remember(k), job' = job, round_keys' = round_keys,
         receiving => receiving', \A n \in 0 .. Nr : n < k => AesRecorded(n),
         \A n \in 0 .. Nr : AesRecorded(n)' => receiving \/ n <= k
  PROVE  /\ trail' \in [0 .. Nr -> Block] /\ Encrypted'
         /\ trail'[k] = state'
         /\ receiving => trail' = trail
<1>1. /\ AesTypeOK /\ Encrypted /\ Nr' = Nr /\ trail \in [0 .. Nr -> Block]
      /\ Nr \in Nat
  BY JobFacts DEF AInv, AesTypeOK, Nr
<1>2. CASE receiving
  <2>1. trail' = trail
    BY <1>2 DEF Remember
  <2>2. \A n : After(n)' = After(n)
    BY <1>1, <2>1 DEF After
  <2>3. \A n \in 0 .. Nr : trail[n] = After(n)
    BY <1>1, <1>2 DEF Encrypted, AesRecorded
  <2> QED  BY <1>1, <2>1, <2>2, <2>3 DEF Encrypted
<1>3. CASE ~ receiving
  <2>1. trail' = [trail EXCEPT ![k] = state']
    BY <1>3 DEF Remember
  <2>2. /\ trail' \in [0 .. Nr -> Block] /\ trail'[k] = state'
        /\ \A n \in 0 .. Nr : n # k => trail'[n] = trail[n]
    BY <1>1, <2>1
  <2>3. ASSUME NEW n \in 0 .. Nr, n <= k
        PROVE  trail'[n] = After(n)'
    <3>1. n # 0 => n - 1 \in 0 .. Nr /\ n - 1 # k
      BY <1>1, <2>3
    <3>2. After(n)' = After(n)
      BY <1>1, <2>2, <3>1 DEF After
    <3>3. CASE n = k
      BY <2>2, <3>2, <3>3
    <3>4. CASE n # k
      <4>1. trail[n] = After(n)
        BY <1>1, <2>3, <3>4 DEF Encrypted
      <4> QED  BY <2>2, <3>2, <3>4, <4>1
    <3> QED  BY <3>3, <3>4
  <2> QED  BY <1>1, <1>3, <2>2, <2>3 DEF Encrypted
<1>4. QED
  BY <1>2, <1>3

LEMMA StartEncryptKeep == AInv /\ StartEncrypt => AInv'
<1> SUFFICES ASSUME AInv, StartEncrypt PROVE AInv'
  OBVIOUS
<1>1. /\ pc = "block" /\ pc' = "encrypting" /\ ~ Inverting
      /\ state' = addRoundKey(job.text, Keys, 0) /\ index' = 16 /\ round' = 0
      /\ job' = job /\ i' = i /\ round_keys' = round_keys
      /\ inv_round_keys' = inv_round_keys /\ receiving' = receiving
      /\ cipher' = cipher /\ output' = output
      /\ Remember(0)
  BY DEF StartEncrypt
<1>2. /\ AesTypeOK /\ KeysReady /\ InStep /\ Nr' = Nr /\ Nk' = Nk
      /\ Inverting' = Inverting
  BY <1>1 DEF AInv, Nr, Nk, Inverting
<1>3. /\ Nr \in Nat /\ Nr >= 1 /\ 0 \in 0 .. Nr /\ 16 \in 0 .. 16 * Nr
      /\ job.text \in Block
  BY <1>2, JobFacts DEF AesTypeOK
<1>4. state' = After(0)
  BY <1>1, AesKeysAre DEF After
<1>5. state' \in Block
  <2>1. 16 * 0 = 0
    OBVIOUS
  <2> QED  BY <1>1, <1>2, <1>3, <2>1, AesKeysAre, AddType DEF AesTypeOK
<1>6. \A n \in 0 .. Nr : ~ (n < 0)
  BY <1>3
<1>7. \A n \in 0 .. Nr : AesRecorded(n)' => receiving \/ n <= 0
  BY <1>1 DEF AesRecorded
<1>8. /\ trail' \in [0 .. Nr -> Block] /\ Encrypted' /\ trail'[0] = state'
      /\ receiving => trail' = trail
  BY <1>1, <1>3, <1>4, <1>5, <1>6, <1>7, EncryptStep
<1>9. AesTypeOK'
  BY <1>1, <1>2, <1>3, <1>5, <1>8 DEF AesTypeOK
<1>10. KeysReady'
  BY <1>1, <1>2 DEF KeysReady
<1>11. InStep'
  BY <1>1, <1>2, <1>3, <1>8 DEF InStep
<1>12. QED
  BY <1>8, <1>9, <1>10, <1>11 DEF AInv

LEMMA EncryptRoundKeep == AInv /\ EncryptRound => AInv'
<1> SUFFICES ASSUME AInv, EncryptRound PROVE AInv'
  OBVIOUS
<1>1. /\ pc = "encrypting" /\ pc' = pc /\ round < Nr - 1
      /\ state' = addRoundKey(mixColumn(shiftRows(subBytes(state))), Keys, index)
      /\ index' = index + 16 /\ round' = round + 1
      /\ job' = job /\ i' = i /\ round_keys' = round_keys
      /\ inv_round_keys' = inv_round_keys /\ receiving' = receiving
      /\ cipher' = cipher /\ output' = output
      /\ Remember(round + 1)
  BY DEF EncryptRound
<1>2. /\ AesTypeOK /\ KeysReady /\ InStep /\ Nr' = Nr /\ Nk' = Nk
      /\ Inverting' = Inverting
  BY <1>1 DEF AInv, Nr, Nk, Inverting
<1>3. /\ Nr \in Nat /\ Nr >= 1 /\ round \in 0 .. Nr
  BY <1>2, JobFacts DEF AesTypeOK
<1>4. /\ ~ Inverting /\ index = 16 * (round + 1) /\ state = trail[round]
      /\ state \in Block /\ Keys = round_keys /\ round_keys \in Schedule
  BY <1>1, <1>2, AesKeysAre DEF InStep, AesTypeOK
<1>5. /\ round + 1 \in 0 .. Nr /\ round + 1 # 0 /\ round + 1 # Nr
      /\ (round + 1) - 1 = round /\ round + 1 <= Nr - 1
      /\ index + 16 = 16 * ((round + 1) + 1) /\ index + 16 \in 0 .. 16 * Nr
  BY <1>1, <1>3, <1>4
<1>6. state' = After(round + 1)
  BY <1>1, <1>4, <1>5 DEF After
<1>7. state' \in Block
  <2>1. mixColumn(shiftRows(subBytes(state))) \in Block
    BY <1>4, ShiftSubBack, MixType
  <2> QED  BY <1>1, <1>2, <1>4, <1>5, <2>1, AddType DEF AesTypeOK
<1>8. \A n \in 0 .. Nr : n < round + 1 => AesRecorded(n)
  BY <1>1, <1>3 DEF AesRecorded
<1>9. \A n \in 0 .. Nr : AesRecorded(n)' => receiving \/ n <= round + 1
  BY <1>1 DEF AesRecorded
<1>10. /\ trail' \in [0 .. Nr -> Block] /\ Encrypted' /\ trail'[round + 1] = state'
       /\ receiving => trail' = trail
  BY <1>1, <1>5, <1>6, <1>7, <1>8, <1>9, EncryptStep
<1>11. AesTypeOK'
  BY <1>1, <1>2, <1>5, <1>7, <1>10 DEF AesTypeOK
<1>12. KeysReady'
  BY <1>1, <1>2 DEF KeysReady
<1>13. InStep'
  BY <1>1, <1>2, <1>4, <1>5, <1>10 DEF InStep
<1>14. QED
  BY <1>10, <1>11, <1>12, <1>13 DEF AInv

LEMMA EncryptLastKeep == AInv /\ EncryptLast => AInv'
<1> SUFFICES ASSUME AInv, EncryptLast PROVE AInv'
  OBVIOUS
<1>1. /\ pc = "encrypting" /\ round >= Nr - 1
      /\ state' = addRoundKey(shiftRows(subBytes(state)), Keys, index)
      /\ index' = index /\ round' = round
      /\ job' = job /\ i' = i /\ round_keys' = round_keys
      /\ inv_round_keys' = inv_round_keys /\ receiving' = TRUE
      /\ receiving => output' = state' /\ pc' = "done" /\ cipher' = cipher
      /\ ~ receiving => cipher' = state' /\ pc' = "block" /\ output' = output
      /\ Remember(Nr)
  BY DEF EncryptLast
<1>2. /\ AesTypeOK /\ KeysReady /\ InStep /\ Nr' = Nr /\ Nk' = Nk
  BY <1>1 DEF AInv, Nr, Nk
<1>3. /\ Nr \in Nat /\ Nr >= 1 /\ round \in 0 .. Nr
  BY <1>2, JobFacts DEF AesTypeOK
<1>4. /\ ~ Inverting /\ index = 16 * (round + 1) /\ state = trail[round]
      /\ round <= Nr - 1
      /\ state \in Block /\ Keys = round_keys /\ round_keys \in Schedule
  BY <1>1, <1>2, AesKeysAre DEF InStep, AesTypeOK
<1>5. round = Nr - 1 /\ Nr \in 0 .. Nr /\ Nr # 0 /\ index = 16 * Nr
  BY <1>1, <1>3, <1>4
<1>6. state' = After(Nr)
  BY <1>1, <1>4, <1>5 DEF After
<1>7. state' \in Block
  <2>1. shiftRows(subBytes(state)) \in Block
    BY <1>4, ShiftSubBack
  <2> QED  BY <1>1, <1>2, <1>4, <1>5, <2>1, AddType DEF AesTypeOK
<1>8. \A n \in 0 .. Nr : n < Nr => AesRecorded(n)
  BY <1>1, <1>3, <1>5 DEF AesRecorded
<1>9. \A n \in 0 .. Nr : n <= Nr
  BY <1>3
<1>10. /\ trail' \in [0 .. Nr -> Block] /\ Encrypted' /\ trail'[Nr] = state'
       /\ receiving => trail' = trail
  BY <1>1, <1>5, <1>6, <1>7, <1>8, <1>9, EncryptStep
<1>11. CASE receiving
  <2>1. /\ cipher = trail[Nr] /\ job.mode \notin {"CBC", "ECB"}
        /\ output' = cipher' /\ trail' = trail /\ pc' = "done" /\ cipher' = cipher
    BY <1>1, <1>2, <1>4, <1>10, <1>11 DEF InStep, Inverting
  <2>2. AesTypeOK'
    BY <1>1, <1>2, <1>7, <1>10, <1>11 DEF AesTypeOK
  <2>3. KeysReady'
    BY <1>1, <1>2, <2>1 DEF KeysReady
  <2>4. InStep'
    BY <1>1, <1>2, <2>1 DEF InStep
  <2> QED  BY <1>10, <2>2, <2>3, <2>4 DEF AInv
<1>12. CASE ~ receiving
  <2>1. AesTypeOK'
    BY <1>1, <1>2, <1>7, <1>10, <1>12 DEF AesTypeOK
  <2>2. KeysReady'
    BY <1>1, <1>2, <1>12 DEF KeysReady
  <2>3. InStep'
    BY <1>1, <1>2, <1>10, <1>12 DEF InStep
  <2> QED  BY <1>10, <2>1, <2>2, <2>3 DEF AInv
<1>13. QED
  BY <1>11, <1>12

-----------------------------------------------------------------------------
\* The steps of AES_decrypt_block leave what the first side remembered.
LEMMA DecryptStep ==
  ASSUME AInv, Inverting, job' = job, round_keys' = round_keys,
         receiving' = receiving, trail' = trail
  PROVE  /\ Encrypted' /\ Inverting'
         /\ Nr' = Nr /\ Nk' = Nk /\ Nr \in Nat /\ Nr >= 1 /\ job \in AesJobs
         /\ trail \in [0 .. Nr -> Block] /\ cipher = trail[Nr]
         /\ \A n \in 0 .. Nr : trail[n] = After(n)
<1>1. AesTypeOK /\ Encrypted /\ InStep /\ receiving /\ Nr' = Nr /\ Nk' = Nk
  BY DEF AInv, Nr, Nk, Inverting
<1>2. \A n \in 0 .. Nr : trail[n] = After(n)
  BY <1>1 DEF Encrypted, AesRecorded
<1>3. \A n : After(n)' = After(n)
  BY <1>1 DEF After
<1>4. Encrypted'
  BY <1>1, <1>2, <1>3 DEF Encrypted
<1>5. QED
  BY <1>1, <1>2, <1>4, JobFacts DEF AesTypeOK, InStep, Inverting

LEMMA StartDecryptKeep == AInv /\ StartDecrypt => AInv'
<1> SUFFICES ASSUME AInv, StartDecrypt PROVE AInv'
  OBVIOUS
<1>1. /\ pc = "block" /\ pc' = "decrypting" /\ Inverting
      /\ state' = addRoundKey(cipher, Keys, 0) /\ index' = 16 /\ round' = Nr
      /\ job' = job /\ i' = i /\ round_keys' = round_keys
      /\ inv_round_keys' = inv_round_keys /\ receiving' = receiving
      /\ cipher' = cipher /\ output' = output /\ trail' = trail
  BY DEF StartDecrypt
<1>2. /\ Encrypted' /\ Inverting'
      /\ Nr' = Nr /\ Nk' = Nk /\ Nr \in Nat /\ Nr >= 1 /\ job \in AesJobs
      /\ trail \in [0 .. Nr -> Block] /\ cipher = trail[Nr]
      /\ \A n \in 0 .. Nr : trail[n] = After(n)
  BY <1>1, DecryptStep
<1>3. AesTypeOK /\ KeysReady /\ InStep
  BY DEF AInv
<1>4. /\ Nr \in 0 .. Nr /\ Nr # 0 /\ Nr - 1 \in 0 .. Nr /\ 0 \in 0 .. Nr
      /\ 16 * 0 = 0 /\ Nr - 0 = Nr /\ Nr + 1 - Nr = 1 /\ 16 * 1 = 16
      /\ 16 \in 0 .. 16 * Nr
  BY <1>2
<1> DEFINE x == shiftRows(subBytes(trail[Nr - 1]))
<1>5. x \in Block
  BY <1>2, <1>4, ShiftSubBack
<1>6. cipher = addRoundKey(x, round_keys, 16 * Nr)
  BY <1>2, <1>4 DEF After
<1>7. state' = x
  <2>1. state' = addRoundKey(cipher, round_keys, 16 * Nr)
    BY <1>1, <1>2, <1>4, AesKeysAre, AddReverted
  <2> HIDE DEF x
  <2> QED  BY <1>5, <1>6, <2>1, AddTwice
<1>8. AesTypeOK'
  BY <1>1, <1>2, <1>3, <1>4, <1>5, <1>7 DEF AesTypeOK
<1>9. KeysReady'
  BY <1>1, <1>2, <1>3 DEF KeysReady
<1>10. InStep'
  BY <1>1, <1>2, <1>4, <1>7 DEF InStep
<1>11. QED
  BY <1>2, <1>8, <1>9, <1>10 DEF AInv

LEMMA DecryptRoundKeep == AInv /\ DecryptRound => AInv'
<1> SUFFICES ASSUME AInv, DecryptRound PROVE AInv'
  OBVIOUS
<1>1. /\ pc = "decrypting" /\ pc' = pc /\ round >= 2
      /\ state' = invMixColumn(addRoundKey(invSubBytes(invShiftRows(state)), Keys,
                                           index))
      /\ index' = index + 16 /\ round' = round - 1
      /\ job' = job /\ i' = i /\ round_keys' = round_keys
      /\ inv_round_keys' = inv_round_keys /\ receiving' = receiving
      /\ cipher' = cipher /\ output' = output /\ trail' = trail
  BY DEF DecryptRound
<1>2. /\ AesTypeOK /\ KeysReady /\ InStep /\ Inverting
      /\ index = 16 * (Nr + 1 - round)
      /\ state = shiftRows(subBytes(trail[round - 1]))
  BY <1>1 DEF AInv, InStep
<1>3. /\ Encrypted' /\ Inverting'
      /\ Nr' = Nr /\ Nk' = Nk /\ Nr \in Nat /\ Nr >= 1 /\ job \in AesJobs
      /\ trail \in [0 .. Nr -> Block] /\ cipher = trail[Nr]
      /\ \A n \in 0 .. Nr : trail[n] = After(n)
  BY <1>1, <1>2, DecryptStep
<1>4. round \in 0 .. Nr
  BY <1>2 DEF AesTypeOK
<1> DEFINE k == round - 1
           x == shiftRows(subBytes(trail[k - 1]))
<1>5. /\ k \in 0 .. Nr /\ k # 0 /\ k # Nr /\ k - 1 \in 0 .. Nr /\ k >= 1
      /\ Nr + 1 - round \in 0 .. Nr /\ Nr - (Nr + 1 - round) = k
      /\ index + 16 = 16 * (Nr + 1 - k) /\ index + 16 \in 0 .. 16 * Nr
  BY <1>1, <1>2, <1>3, <1>4
<1> HIDE DEF k
<1>6. x \in Block /\ mixColumn(x) \in Block
  BY <1>3, <1>5, ShiftSubBack, MixType
<1>7. invSubBytes(invShiftRows(state)) = addRoundKey(mixColumn(x), round_keys, 16 * k)
  <2>1. invSubBytes(invShiftRows(state)) = trail[k]
    BY <1>2, <1>3, <1>5, ShiftSubBack DEF k
  <2> QED  BY <1>3, <1>5, <2>1 DEF After
<1> HIDE DEF x
<1>8. state' = x
  <2>1. \A s : addRoundKey(s, Keys, index) = addRoundKey(s, round_keys, 16 * k)
    BY <1>1, <1>2, <1>3, <1>5, AesKeysAre, AddReverted
  <2>2. state' = invMixColumn(mixColumn(x))
    BY <1>1, <1>6, <1>7, <2>1, AddTwice
  <2> QED  BY <1>6, <2>2, MixBack
<1>9. AesTypeOK'
  BY <1>1, <1>2, <1>3, <1>5, <1>6, <1>8 DEF AesTypeOK, k
<1>10. KeysReady'
  BY <1>1, <1>2, <1>3 DEF KeysReady
<1>11. InStep'
  BY <1>1, <1>2, <1>3, <1>5, <1>8 DEF InStep, k, x
<1>12. QED
  BY <1>3, <1>9, <1>10, <1>11 DEF AInv

LEMMA DecryptLastKeep == AInv /\ DecryptLast => AInv'
<1> SUFFICES ASSUME AInv, DecryptLast PROVE AInv'
  OBVIOUS
<1>1. /\ pc = "decrypting" /\ pc' = "done" /\ round < 2
      /\ state' = addRoundKey(invSubBytes(invShiftRows(state)), Keys, index)
      /\ output' = state' /\ index' = index /\ round' = round
      /\ job' = job /\ i' = i /\ round_keys' = round_keys
      /\ inv_round_keys' = inv_round_keys /\ receiving' = receiving
      /\ cipher' = cipher /\ trail' = trail
  BY DEF DecryptLast
<1>2. /\ AesTypeOK /\ KeysReady /\ InStep /\ Inverting /\ round >= 1
      /\ index = 16 * (Nr + 1 - round)
      /\ state = shiftRows(subBytes(trail[round - 1]))
  BY <1>1 DEF AInv, InStep
<1>3. /\ Encrypted' /\ Inverting'
      /\ Nr' = Nr /\ Nk' = Nk /\ Nr \in Nat /\ Nr >= 1 /\ job \in AesJobs
      /\ trail \in [0 .. Nr -> Block] /\ cipher = trail[Nr]
      /\ \A n \in 0 .. Nr : trail[n] = After(n)
  BY <1>1, <1>2, DecryptStep
<1>4. round \in 0 .. Nr
  BY <1>2 DEF AesTypeOK
<1>5. /\ round - 1 = 0 /\ index = 16 * Nr /\ Nr - Nr = 0 /\ 16 * 0 = 0
      /\ 0 \in 0 .. Nr /\ Nr \in 0 .. Nr
  BY <1>1, <1>2, <1>3, <1>4
<1>6. job.text \in Block
  BY <1>3, JobFacts
<1>7. invSubBytes(invShiftRows(state)) = addRoundKey(job.text, round_keys, 0)
  <2>1. invSubBytes(invShiftRows(state)) = trail[0]
    BY <1>2, <1>3, <1>5, ShiftSubBack
  <2> QED  BY <1>3, <1>5, <2>1 DEF After
<1>8. state' = job.text
  <2>1. \A s : addRoundKey(s, Keys, index) = addRoundKey(s, round_keys, 0)
    BY <1>1, <1>2, <1>3, <1>5, AesKeysAre, AddReverted
  <2> QED  BY <1>1, <1>6, <1>7, <2>1, AddTwice
<1>9. AesTypeOK'
  BY <1>1, <1>2, <1>3, <1>6, <1>8 DEF AesTypeOK
<1>10. KeysReady'
  BY <1>1, <1>2, <1>3 DEF KeysReady
<1>11. InStep'
  BY <1>1, <1>2, <1>3, <1>8 DEF InStep, Inverting
<1>12. QED
  BY <1>3, <1>9, <1>10, <1>11 DEF AInv

LEMMA AesStutterKeep == AInv /\ UNCHANGED aesVars => AInv'
<1> SUFFICES ASSUME AInv, UNCHANGED aesVars PROVE AInv'
  OBVIOUS
<1>1. /\ job' = job /\ pc' = pc /\ i' = i /\ round_keys' = round_keys
      /\ inv_round_keys' = inv_round_keys /\ receiving' = receiving
      /\ state' = state /\ index' = index /\ round' = round
      /\ cipher' = cipher /\ output' = output /\ trail' = trail
  BY DEF aesVars
<1>2. /\ Nr' = Nr /\ Nk' = Nk /\ Inverting' = Inverting
      /\ \A n : AesRecorded(n)' = AesRecorded(n)
  BY <1>1 DEF Nr, Nk, Inverting, AesRecorded
<1>3. \A n : After(n)' = After(n)
  BY <1>1, <1>2 DEF After
<1>4. AesTypeOK'
  BY <1>1, <1>2 DEF AInv, AesTypeOK
<1>5. KeysReady'
  BY <1>1, <1>2 DEF AInv, KeysReady
<1>6. Encrypted'
  BY <1>1, <1>2, <1>3 DEF AInv, Encrypted
<1>7. InStep'
  BY <1>1, <1>2 DEF AInv, InStep
<1>8. QED
  BY <1>4, <1>5, <1>6, <1>7 DEF AInv

LEMMA AesInvariant == AesSpec => []AInv
<1>1. AInv /\ [AesNext]_aesVars => AInv'
  BY LoadKeyKeep, ExpandWordKeep, FinishKeysKeep, StartEncryptKeep,
     EncryptRoundKeep, EncryptLastKeep, StartDecryptKeep, DecryptRoundKeep,
     DecryptLastKeep, AesStutterKeep DEF AesNext, AesDone
<1> QED
  BY <1>1, AInvInit, PTL DEF AesSpec

-----------------------------------------------------------------------------
\* Bytes stay bytes through both sides, every index into Rcon and into
\* round_keys is one that exists, and the round key in use ends where the
\* schedule does: for every number of rounds and every length of a key.
THEOREM AesTypeCorrect == AesSpec => []AesTypeOK
<1>1. AInv => AesTypeOK
  BY DEF AInv
<1> QED
  BY <1>1, AesInvariant, PTL

\* AES_decrypt_block, over the round keys that AES_init has turned round, goes
\* back through the states of AES_encrypt_block, one by one.
THEOREM AesRetraces == AesSpec => []RetracesRounds
<1>1. ASSUME AInv PROVE RetracesRounds
  <2> SUFFICES ASSUME pc = "decrypting"
               PROVE  state = shiftRows(subBytes(trail[Nr - index \div 16]))
    BY DEF RetracesRounds
  <2>1. /\ index = 16 * (Nr + 1 - round)
        /\ state = shiftRows(subBytes(trail[round - 1]))
        /\ AesTypeOK
    BY <1>1 DEF AInv, InStep
  <2>2. Nr \in Nat /\ round \in 0 .. Nr
    BY <2>1, JobFacts DEF AesTypeOK
  <2>3. Nr - index \div 16 = round - 1
    BY <2>1, <2>2
  <2> QED  BY <2>1, <2>3
<1> QED
  BY <1>1, AesInvariant, PTL

\* What the second side puts out is the text in ECB and CBC, and the first
\* side's block in CTR and GCM: for every key, text, S-box and number of rounds.
THEOREM AesGivesBack == AesSpec => []AesRoundTrip
<1>1. AInv => AesRoundTrip
  BY DEF AInv, InStep, AesRoundTrip
<1> QED
  BY <1>1, AesInvariant, PTL

-----------------------------------------------------------------------------
(***************************************************************************)
(* DES and triple DES.                                                     *)
(***************************************************************************)

DesSpec == DesInit /\ [][DesNext]_desVars

(***************************************************************************)
(* Bits.                                                                   *)
(***************************************************************************)

\* Where a bit of the number in memory stands in the number of the standard.
Place(n) == 8 * (7 - ((n - 1) \div 8)) + ((n - 1) % 8) + 1

LEMMA PlaceTwice ==
  ASSUME NEW n \in 1 .. 64
  PROVE  Place(n) \in 1 .. 64 /\ Place(Place(n)) = n
BY DEF Place

LEMMA SwapTwice ==
  ASSUME NEW x \in DesBlocks
  PROVE  SwapBytes(x) \in DesBlocks /\ SwapBytes(SwapBytes(x)) = x
<1>1. \A y : SwapBytes(y) = {n \in 1 .. 64 : Place(n) \in y}
  BY DEF SwapBytes, Place
<1>2. SwapBytes(x) \in DesBlocks
  BY <1>1 DEF DesBlocks
<1>3. \A n \in 1 .. 64 : n \in SwapBytes(SwapBytes(x)) <=> n \in x
  BY <1>1, PlaceTwice
<1>4. SwapBytes(SwapBytes(x)) \in DesBlocks
  BY <1>1 DEF DesBlocks
<1>5. QED
  BY <1>2, <1>3, <1>4 DEF DesBlocks

\* The initial permutation and the final one undo each other.
LEMMA PermuteBack ==
  ASSUME NEW x \in DesBlocks
  PROVE  /\ permute(x, IP) \in DesBlocks /\ permute(x, IP_1) \in DesBlocks
         /\ permute(permute(x, IP), IP_1) = x
         /\ permute(permute(x, IP_1), IP) = x
<1>1. /\ DOMAIN IP = 1 .. 64 /\ DOMAIN IP_1 = 1 .. 64
      /\ \A n \in 1 .. 64 : IP[n] \in 1 .. 64 /\ IP_1[n] \in 1 .. 64
      /\ \A n \in 1 .. 64 : IP[IP_1[n]] = n /\ IP_1[IP[n]] = n
  BY DesAssumption
<1>2. QED
  BY <1>1 DEF permute, DesBlocks

LEMMA HalvesType ==
  ASSUME NEW x
  PROVE  HighHalf(x) \in Half /\ LowHalf(x) \in Half
BY DEF HighHalf, LowHalf, Half

\* A block is its two halves.
LEMMA JoinHalves ==
  ASSUME NEW x \in DesBlocks
  PROVE  Joined(HighHalf(x), LowHalf(x)) = x
<1>1. ASSUME NEW n \in 1 .. 64
      PROVE  n \in Joined(HighHalf(x), LowHalf(x)) <=> n \in x
  <2>1. CASE n <= 32
    BY <2>1 DEF Joined, HighHalf
  <2>2. CASE ~ (n <= 32)
    <3>1. n - 32 \in 1 .. 32 /\ (n - 32) + 32 = n
      BY <2>2
    <3> QED  BY <2>2, <3>1 DEF Joined, LowHalf
  <2> QED  BY <2>1, <2>2
<1>2. QED
  BY <1>1 DEF Joined, DesBlocks

LEMMA HalvesJoined ==
  ASSUME NEW h \in Half, NEW l \in Half
  PROVE  /\ Joined(h, l) \in DesBlocks
         /\ HighHalf(Joined(h, l)) = h /\ LowHalf(Joined(h, l)) = l
<1>1. Joined(h, l) \in DesBlocks
  BY DEF Joined, DesBlocks
<1>2. ASSUME NEW n \in 1 .. 32
      PROVE  /\ n \in Joined(h, l) <=> n \in h
             /\ n + 32 \in Joined(h, l) <=> n \in l
  <2>1. n \in 1 .. 64 /\ n <= 32 /\ n + 32 \in 1 .. 64 /\ ~ (n + 32 <= 32)
        /\ (n + 32) - 32 = n
    OBVIOUS
  <2> QED  BY <2>1 DEF Joined
<1>3. QED
  BY <1>1, <1>2 DEF HighHalf, LowHalf, Half

\* Whatever the tables, what feistel puts out is a half.
LEMMA FeistelType ==
  ASSUME NEW x, NEW key
  PROVE  feistel(x, key) \in Half
<1>1. DOMAIN P = 1 .. 32
  BY DesAssumption
<1>2. \A y : permute(y, P) \in Half
  BY <1>1 DEF permute, Half
<1>3. QED
  BY <1>2 DEF feistel

(***************************************************************************)
(* The network, on pairs of halves: the one that is mixed, the one that is *)
(* fed to feistel.                                                         *)
(***************************************************************************)
Turned(pair) == <<pair[2], pair[1]>>
Round(pair, key) == <<pair[2], SymDiff(pair[1], feistel(pair[2], key))>>

\* What a call of DES_*_block makes of a block before its rounds, and of the
\* halves after them.
Taken(b) ==
  <<HighHalf(permute(SwapBytes(b), IP)), LowHalf(permute(SwapBytes(b), IP))>>
Stored(pair) == SwapBytes(permute(Joined(pair[2], pair[1]), IP_1))

LEMMA RoundType ==
  ASSUME NEW pair \in Half \X Half, NEW key
  PROVE  Round(pair, key) \in Half \X Half /\ Turned(pair) \in Half \X Half
<1>1. pair[1] \in Half /\ pair[2] \in Half
  OBVIOUS
<1>2. SymDiff(pair[1], feistel(pair[2], key)) \in Half
  <2> DEFINE out == feistel(pair[2], key)
  <2>1. out \in Half
    BY FeistelType
  <2> HIDE DEF out
  <2>2. SymDiff(pair[1], out) \in Half
    BY <1>1, <2>1 DEF SymDiff, Half
  <2> QED  BY <2>2 DEF out
<1>3. QED
  BY <1>1, <1>2 DEF Round, Turned

\* A round turned over, with the same key, goes back.
LEMMA RoundBack ==
  ASSUME NEW pair \in Half \X Half, NEW key
  PROVE  Round(Turned(Round(pair, key)), key) = Turned(pair)
<1>1. Turned(Round(pair, key))
        = <<SymDiff(pair[1], feistel(pair[2], key)), pair[2]>>
  BY DEF Turned, Round
<1>2. SymDiff(SymDiff(pair[1], feistel(pair[2], key)), feistel(pair[2], key))
        = pair[1]
  BY XorTwice
<1>3. QED
  BY <1>1, <1>2 DEF Round, Turned

LEMMA TakenType ==
  ASSUME NEW b
  PROVE  Taken(b) \in Half \X Half
BY HalvesType DEF Taken

LEMMA StoredType ==
  ASSUME NEW pair \in Half \X Half
  PROVE  Stored(pair) \in DesBlocks
BY HalvesJoined, PermuteBack, SwapTwice DEF Stored

\* The halves swap between one call and the next.
LEMMA TakenStored ==
  ASSUME NEW pair \in Half \X Half
  PROVE  Taken(Stored(pair)) = Turned(pair)
<1> DEFINE joined == Joined(pair[2], pair[1])
<1>1. /\ joined \in DesBlocks
      /\ HighHalf(joined) = pair[2] /\ LowHalf(joined) = pair[1]
  BY HalvesJoined
<1>2. SwapBytes(Stored(pair)) = permute(joined, IP_1)
  BY <1>1, PermuteBack, SwapTwice DEF Stored
<1>3. permute(SwapBytes(Stored(pair)), IP) = joined
  BY <1>1, <1>2, PermuteBack
<1>4. QED
  BY <1>1, <1>3 DEF Taken, Turned

LEMMA StoredTaken ==
  ASSUME NEW b \in DesBlocks
  PROVE  Stored(Turned(Taken(b))) = b
<1> DEFINE x == permute(SwapBytes(b), IP)
<1>1. SwapBytes(b) \in DesBlocks /\ x \in DesBlocks
  BY SwapTwice, PermuteBack
<1>2. Turned(Taken(b)) = <<LowHalf(x), HighHalf(x)>>
  BY DEF Turned, Taken
<1>3. Joined(HighHalf(x), LowHalf(x)) = x
  BY <1>1, JoinHalves
<1>4. permute(x, IP_1) = SwapBytes(b)
  BY <1>1, PermuteBack
<1>5. Stored(<<LowHalf(x), HighHalf(x)>>) = SwapBytes(SwapBytes(b))
  BY <1>3, <1>4 DEF Stored
<1>6. QED
  BY <1>2, <1>5, SwapTwice

(***************************************************************************)
(* The invariant, about the history of all passes.                         *)
(***************************************************************************)
Passes == 1 .. Len(Calls)
Mirror(p) == Len(Calls) + 1 - p

\* The key of round n of pass p.
KeyAt(p, n) == subkeys[Calls[p].key][IF Calls[p].op = "E" THEN n ELSE 15 - n]

\* Pass p has gone through n rounds.
DesRecorded(p, n) ==
  p < pass \/ (p = pass /\ (phase = "done" \/ (phase = "rounds" /\ n <= step)))

\* Each pass starts where the last one stored, and does its rounds.
Chained ==
  \A p \in Passes :
    DesRecorded(p, 0) =>
      seen[p][0] = IF p = 1 THEN Taken(task.text)
                            ELSE Turned(seen[p - 1][NumSteps])

Stepped ==
  \A p \in Passes, n \in 0 .. NumSteps - 1 :
    DesRecorded(p, n + 1) => seen[p][n + 1] = Round(seen[p][n], KeyAt(p, n))

\* A decrypting pass goes through what its encrypting pass did, backwards.
Mirrored ==
  KeysMirror =>
    \A p \in Passes, n \in 0 .. NumSteps :
      Mirror(p) < p /\ DesRecorded(p, n) =>
        seen[p][n] = Turned(seen[Mirror(p)][NumSteps - n])

\* The arrays hold the step that was recorded last, and the block what the
\* last pass stored.
Current ==
  /\ phase = "rounds" => /\ Halves[1][step] = seen[pass][step][1]
                         /\ Halves[2][step] = seen[pass][step][2]
  /\ phase \in {"init", "in"} =>
       block = IF pass = 1 THEN task.text ELSE Stored(seen[pass - 1][NumSteps])
  /\ phase = "done" =>
       pass = Len(Calls) /\ block = Stored(seen[pass][NumSteps])
  /\ phase = "init" => pass = 1
  /\ KeysMirror /\ Len(task.keys) = 3 => subkeys[1] = subkeys[3]

DInv == DesTypeOK /\ Chained /\ Stepped /\ Mirrored /\ Current

-----------------------------------------------------------------------------
\* The calls of either cipher, and that the mirrored call has the other
\* direction and the same key.
LEMMA CallsAre ==
  ASSUME NEW t \in DesJobs, task = t
  PROVE  /\ Len(Calls) \in {2, 6}
         /\ \A p \in Passes :
              /\ Calls[p].op \in {"E", "D"}
              /\ Mirror(p) < p =>
                   /\ Mirror(p) \in Passes
                   /\ Calls[p].op = "E" <=> Calls[Mirror(p)].op = "D"
                   /\ \/ Calls[p].key = Calls[Mirror(p)].key
                      \/ /\ Len(task.keys) = 3
                         /\ {Calls[p].key, Calls[Mirror(p)].key} = {1, 3}
<1>1. CASE Len(task.keys) = 1
  <2>1. Calls = <<Call("E", 1), Call("D", 1)>>
    BY <1>1 DEF Calls
  <2>2. Len(Calls) = 2
    BY <2>1
  <2>3. \A p \in Passes : p = 1 \/ p = 2
    BY <2>2 DEF Passes
  <2>4. Mirror(1) = 2 /\ Mirror(2) = 1
    BY <2>2 DEF Mirror
  <2> QED  BY <2>1, <2>2, <2>3, <2>4 DEF Call, Passes
<1>2. CASE Len(task.keys) # 1
  <2>1. Calls = <<Call("E", 1), Call("D", 2), Call("E", 3),
                  Call("D", 1), Call("E", 2), Call("D", 3)>>
    BY <1>2 DEF Calls
  <2>2. Len(Calls) = 6
    BY <2>1
  <2>3. \A p \in Passes : p \in {1, 2, 3, 4, 5, 6}
    BY <2>2 DEF Passes
  <2>4. /\ Mirror(1) = 6 /\ Mirror(2) = 5 /\ Mirror(3) = 4
        /\ Mirror(4) = 3 /\ Mirror(5) = 2 /\ Mirror(6) = 1
    BY <2>2 DEF Mirror
  <2>5. Len(task.keys) = 3
    BY <1>2, DesAssumption
  <2>6. /\ Calls[1] = [op |-> "E", key |-> 1] /\ Calls[2] = [op |-> "D", key |-> 2]
        /\ Calls[3] = [op |-> "E", key |-> 3] /\ Calls[4] = [op |-> "D", key |-> 1]
        /\ Calls[5] = [op |-> "E", key |-> 2] /\ Calls[6] = [op |-> "D", key |-> 3]
    BY <2>1 DEF Call
  <2> HIDE DEF Mirror
  <2>7. \A p \in {1, 2, 3, 4, 5, 6} :
              /\ Calls[p].op \in {"E", "D"}
              /\ Mirror(p) < p =>
                   /\ Mirror(p) \in 1 .. 6
                   /\ Calls[p].op = "E" <=> Calls[Mirror(p)].op = "D"
                   /\ \/ Calls[p].key = Calls[Mirror(p)].key
                      \/ {Calls[p].key, Calls[Mirror(p)].key} = {1, 3}
    BY <2>4, <2>6
  <2> QED  BY <2>2, <2>3, <2>5, <2>7 DEF Passes
<1>3. QED
  BY <1>1, <1>2

\* With keys that read the same backwards, round n of a pass has the key of
\* the n-th round from the end of its mirror.
LEMMA SameKey ==
  ASSUME DesTypeOK, Current, KeysMirror, NEW p \in Passes, Mirror(p) < p,
         NEW n \in 0 .. 15
  PROVE  KeyAt(p, n) = KeyAt(Mirror(p), 15 - n)
<1> DEFINE m == Mirror(p)
<1>1. /\ Calls[p].op \in {"E", "D"} /\ m \in Passes
      /\ Calls[p].op = "E" <=> Calls[m].op = "D"
      /\ \/ Calls[p].key = Calls[m].key
         \/ Len(task.keys) = 3 /\ {Calls[p].key, Calls[m].key} = {1, 3}
  BY CallsAre DEF DesTypeOK
<1>2. Calls[m].op \in {"E", "D"}
  BY <1>1, CallsAre DEF DesTypeOK
<1>3. subkeys[Calls[p].key] = subkeys[Calls[m].key]
  <2>1. CASE Len(task.keys) = 3 /\ {Calls[p].key, Calls[m].key} = {1, 3}
    <3>1. subkeys[1] = subkeys[3]
      BY <2>1 DEF Current
    <3>2. /\ Calls[p].key = 1 \/ Calls[p].key = 3
          /\ Calls[m].key = 1 \/ Calls[m].key = 3
      BY <2>1
    <3> QED  BY <3>1, <3>2
  <2> QED  BY <1>1, <2>1
<1>4. 15 - (15 - n) = n
  OBVIOUS
<1> HIDE DEF m
<1>5. KeyAt(p, n) = KeyAt(m, 15 - n)
  BY <1>1, <1>2, <1>3, <1>4 DEF KeyAt
<1>6. QED
  BY <1>5 DEF m

\* What a step that leaves the job alone leaves alone with it.
LEMMA SameTask ==
  ASSUME task' = task
  PROVE  /\ Calls' = Calls /\ Passes' = Passes /\ KeysMirror' = KeysMirror
         /\ \A p : Mirror(p)' = Mirror(p)
BY DEF Calls, Passes, KeysMirror, Mirror

LEMMA PassFacts ==
  ASSUME DesTypeOK
  PROVE  /\ Len(Calls) \in {2, 6} /\ pass \in Passes /\ pass \in Nat
         /\ \A p \in Passes : p \in 1 .. 6 /\ (Calls[p].op = "E" \/ Calls[p].op = "D")
         /\ \A p \in Passes, n \in 0 .. NumSteps :
              /\ seen[p][n] \in Half \X Half
              /\ seen[p][n][1] \in Half /\ seen[p][n][2] \in Half
<1>1. /\ Len(Calls) \in {2, 6} /\ pass \in Passes
      /\ \A p \in Passes : Calls[p].op = "E" \/ Calls[p].op = "D"
  BY CallsAre DEF DesTypeOK, Passes
<1>2. \A p \in Passes : p \in 1 .. 6
  BY <1>1 DEF Passes
<1>3. \A p \in Passes, n \in 0 .. NumSteps : seen[p][n] \in Half \X Half
  BY <1>2 DEF DesTypeOK
<1>4. QED
  BY <1>1, <1>2, <1>3

LEMMA TurnedTwice ==
  ASSUME NEW pair \in Half \X Half
  PROVE  Turned(Turned(pair)) = pair
BY DEF Turned

\* One key, or three.
LEMMA DesKeysAre ==
  ASSUME NEW t \in DesJobs
  PROVE  /\ t.text \in DesBlocks /\ DOMAIN t.keys = 1 .. Len(t.keys)
         /\ Len(t.keys) = 3 => 1 \in DOMAIN t.keys /\ 3 \in DOMAIN t.keys
<1>1. /\ t.text \in DesBlocks /\ t.keys \in Seq(DesBlocks)
      /\ Len(t.keys) \in {1, 3}
  BY DesAssumption
<1>2. DOMAIN t.keys = 1 .. Len(t.keys)
  BY <1>1
<1>3. QED
  BY <1>1, <1>2

LEMMA DInvInit == DesInit => DInv
<1> SUFFICES ASSUME DesInit PROVE DInv
  OBVIOUS
<1>1. /\ {} \in Half /\ {} \in DesBlocks
      /\ Zeros \in [0 .. NumSteps -> Half]
  BY DEF Half, DesBlocks, Zeros
<1>2. task \in DesJobs /\ task.text \in DesBlocks
  BY DesKeysAre DEF DesInit
<1>3. Len(Calls) \in {2, 6}
  BY <1>2, CallsAre
<1>4. DesTypeOK
  <2>1. seen \in [1 .. 6 -> [0 .. NumSteps -> Half \X Half]]
    BY <1>1 DEF DesInit
  <2>2. pass = 1 /\ step = 0
    BY DEF DesInit
  <2>3. pass \in 1 .. Len(Calls) /\ step \in 0 .. NumSteps
    <3>1. CASE Len(Calls) = 2
      BY <2>2, <3>1 DEF NumSteps
    <3>2. CASE Len(Calls) = 6
      BY <2>2, <3>2 DEF NumSteps
    <3> QED  BY <1>3, <3>1, <3>2
  <2> QED  BY <1>1, <1>2, <2>1, <2>3 DEF DesInit, DesTypeOK
<1>5. \A p \in Passes : \A n : ~ DesRecorded(p, n)
  <2>1. \A p \in Passes : ~ (p < pass)
    <3>1. pass = 1
      BY DEF DesInit
    <3>2. \A p \in Passes : p \in Nat /\ 1 <= p
      BY <1>3 DEF Passes
    <3> QED  BY <3>1, <3>2
  <2> QED  BY <2>1 DEF DesInit, DesRecorded
<1>6. subkeys[1] = subkeys[3] \/ Len(task.keys) # 3
  <2>1. Len(task.keys) = 3 => 1 \in DOMAIN task.keys /\ 3 \in DOMAIN task.keys
    BY <1>2, DesKeysAre
  <2> QED  BY <2>1 DEF DesInit
<1>7. Current
  BY <1>6 DEF DesInit, Current
<1>8. QED
  BY <1>4, <1>5, <1>7 DEF DInv, Chained, Stepped, Mirrored, NumSteps

LEMMA ExpandKeep == DInv /\ ExpandKeys => DInv'
<1> SUFFICES ASSUME DInv, ExpandKeys PROVE DInv'
  OBVIOUS
<1>1. /\ task' = task /\ pass = 1 /\ pass' = pass /\ phase' = "in" /\ seen' = seen
      /\ block' = block /\ step' = step
  BY DEF ExpandKeys, DInv, Current
<1>2. DesTypeOK'
  BY <1>1, SameTask DEF DInv, DesTypeOK, ExpandKeys
<1>3. \A p \in Passes' : \A n : ~ DesRecorded(p, n)'
  BY <1>1, <1>2, PassFacts, SameTask DEF DesRecorded, Passes
<1>4. KeysMirror /\ Len(task.keys) = 3 => subkeys'[1] = subkeys'[3]
  <2> SUFFICES ASSUME KeysMirror, Len(task.keys) = 3
               PROVE  subkeys'[1] = subkeys'[3]
    OBVIOUS
  <2>1. /\ 1 \in DOMAIN task.keys /\ 3 \in DOMAIN task.keys
        /\ task.keys[1] = task.keys[3]
    BY DesKeysAre DEF KeysMirror, DInv, DesTypeOK
  <2>2. \A k \in DOMAIN task.keys : subkeys'[k] = key_expansion(task.keys[k])
    BY DEF ExpandKeys
  <2>3. /\ subkeys'[1] = key_expansion(task.keys[1])
        /\ subkeys'[3] = key_expansion(task.keys[3])
    BY <2>1, <2>2
  <2> QED  BY <2>1, <2>3
<1>5. Current'
  <2>1. block' = task'.text
    BY <1>1 DEF DInv, Current, ExpandKeys
  <2> QED  BY <1>1, <1>4, <2>1, SameTask DEF Current
<1>6. QED
  BY <1>2, <1>3, <1>5 DEF DInv, Chained, Stepped, Mirrored, NumSteps

\* What has been recorded is not touched by a step that records more.
LEMMA KeepRecord ==
  ASSUME DInv, task' = task, subkeys' = subkeys, pass' = pass,
         \A p \in Passes : p # pass => seen'[p] = seen[p],
         DesTypeOK',
         NEW last \in 0 .. NumSteps,
         phase' = "rounds", step' = last,
         \A n \in 0 .. NumSteps :
           n < last => DesRecorded(pass, n) /\ seen'[pass][n] = seen[pass][n],
         \* and what it records is right
         seen'[pass][last] =
           IF last = 0 THEN (IF pass = 1 THEN Taken(task.text)
                                         ELSE Turned(seen[pass - 1][NumSteps]))
                       ELSE Round(seen[pass][last - 1], KeyAt(pass, last - 1))
  PROVE  Chained' /\ Stepped' /\ Mirrored'
<1>1. /\ Calls' = Calls /\ Passes' = Passes /\ KeysMirror' = KeysMirror
      /\ \A p : Mirror(p)' = Mirror(p)
      /\ \A p, n : KeyAt(p, n)' = KeyAt(p, n)
  BY SameTask DEF KeyAt
<1>2. DesTypeOK /\ Chained /\ Stepped /\ Mirrored /\ Current
  BY DEF DInv
<1>3. /\ Len(Calls) \in {2, 6} /\ pass \in Passes /\ pass \in Nat
      /\ last \in Nat /\ Len(Calls) \in Nat
      /\ \A p \in Passes : p \in 1 .. 6 /\ p \in Nat
      /\ \A p \in Passes, n \in 0 .. NumSteps : seen[p][n] \in Half \X Half
  BY <1>2, PassFacts DEF NumSteps
<1>4. \A p \in Passes, n \in 0 .. NumSteps :
        DesRecorded(p, n)' <=> p < pass \/ (p = pass /\ n <= last)
  BY DEF DesRecorded
<1>5. \A p \in Passes, n \in 0 .. NumSteps : p < pass => DesRecorded(p, n)
  BY DEF DesRecorded
<1>6. Chained'
  <2> SUFFICES ASSUME NEW p \in Passes, DesRecorded(p, 0)'
               PROVE  seen'[p][0] = IF p = 1 THEN Taken(task.text)
                                    ELSE Turned(seen'[p - 1][NumSteps])
    BY <1>1 DEF Chained
  <2>1. p <= pass
    <3>1. 0 \in 0 .. NumSteps
      BY DEF NumSteps
    <3>2. p < pass \/ p = pass
      BY <1>4, <3>1, Zenon
    <3>3. p \in Nat /\ pass \in Nat
      BY <1>3
    <3> QED  BY ONLY <3>2, <3>3
  <2>2. p # 1 => p - 1 \in Passes /\ p - 1 # pass
    BY <1>3, <2>1 DEF Passes
  <2>3. p # 1 => seen'[p - 1][NumSteps] = seen[p - 1][NumSteps]
    BY <2>2
  <2>4. CASE p < pass \/ last # 0
    <3>1. DesRecorded(p, 0) /\ seen'[p][0] = seen[p][0]
      <4>1. 0 \in 0 .. NumSteps /\ (last # 0 => 0 < last)
        BY <1>3 DEF NumSteps
      <4>2. CASE p < pass
        BY <1>3, <1>5, <4>1, <4>2
      <4>3. CASE p = pass
        BY <1>3, <2>4, <4>1, <4>3
      <4> QED  BY <1>3, <2>1, <4>2, <4>3
    <3>2. seen[p][0] = IF p = 1 THEN Taken(task.text)
                                ELSE Turned(seen[p - 1][NumSteps])
      BY <1>2, <3>1 DEF Chained
    <3> QED  BY <2>3, <3>1, <3>2
  <2>5. CASE p = pass /\ last = 0
    <3>1. CASE p = 1
      BY <2>5, <3>1
    <3>2. CASE p # 1
      BY <2>3, <2>5, <3>2
    <3> QED  BY <3>1, <3>2
  <2>6. p < pass \/ p = pass
    <3>1. p \in Nat /\ pass \in Nat
      BY <1>3
    <3> QED  BY <2>1, <3>1
  <2> QED  BY <2>4, <2>5, <2>6
<1>7. Stepped'
  <2> SUFFICES ASSUME NEW p \in Passes, NEW n \in 0 .. NumSteps - 1,
                      DesRecorded(p, n + 1)'
               PROVE  seen'[p][n + 1] = Round(seen'[p][n], KeyAt(p, n))
    BY <1>1 DEF Stepped
  <2>1. n \in 0 .. NumSteps /\ n + 1 \in 0 .. NumSteps /\ n \in Nat
    BY DEF NumSteps
  <2>2. p < pass \/ (p = pass /\ n + 1 <= last)
    BY <1>4, <2>1
  <2>3. CASE p < pass \/ n + 1 < last
    <3>1. DesRecorded(p, n + 1) /\ seen'[p][n + 1] = seen[p][n + 1]
      <4>1. CASE p < pass
        <5>1. p # pass
          BY <1>3, <4>1
        <5> QED  BY <1>5, <2>1, <4>1, <5>1
      <4>2. CASE p = pass /\ n + 1 < last
        BY <2>1, <4>2
      <4> QED  BY <1>3, <2>2, <2>3, <4>1, <4>2
    <3>2. seen'[p][n] = seen[p][n]
      BY <1>3, <2>1, <2>2, <2>3
    <3> QED  BY <1>2, <3>1, <3>2 DEF Stepped
  <2>4. CASE p = pass /\ n + 1 = last
    <3>1. last # 0 /\ last - 1 = n /\ n < last
      BY <2>1, <2>4
    <3>2. seen'[p][n] = seen[p][n]
      BY <2>1, <2>4, <3>1
    <3> QED  BY <2>4, <3>1, <3>2
  <2> QED  BY <1>3, <2>1, <2>2, <2>3, <2>4
<1>8. Mirrored'
  <2> SUFFICES ASSUME KeysMirror, NEW p \in Passes, NEW n \in 0 .. NumSteps,
                      Mirror(p) < p, DesRecorded(p, n)'
               PROVE  seen'[p][n] = Turned(seen'[Mirror(p)][NumSteps - n])
    BY <1>1 DEF Mirrored
  <2> DEFINE m == Mirror(p)
  <2>1. m \in Passes /\ m \in Nat /\ p \in Nat /\ m = Len(Calls) + 1 - p
    BY <1>2, <1>3, CallsAre DEF DesTypeOK, Mirror, Passes
  <2>2. p < pass \/ (p = pass /\ n <= last)
    BY <1>4
  <2>3. m # pass /\ m < pass
    BY <1>3, <2>1, <2>2
  <2>4. seen'[m][NumSteps - n] = seen[m][NumSteps - n]
    BY <2>1, <2>3
  <2>5. CASE p < pass \/ n < last
    <3>1. DesRecorded(p, n) /\ seen'[p][n] = seen[p][n]
      <4>1. CASE p < pass
        BY <1>3, <1>5, <4>1
      <4>2. CASE p = pass
        BY <1>3, <2>5, <4>2
      <4> QED  BY <2>2, <4>1, <4>2
    <3>2. seen[p][n] = Turned(seen[m][NumSteps - n])
      BY <1>2, <3>1 DEF Mirrored
    <3> QED  BY <2>4, <3>1, <3>2
  <2>6. CASE p = pass /\ n = last /\ last = 0
    <3>1. p # 1 /\ p - 1 \in Passes /\ p - 1 < pass
      BY <1>3, <2>1, <2>6 DEF Passes
    <3>2. seen'[p][n] = Turned(seen[p - 1][NumSteps])
      BY <2>6, <3>1
    <3>3. CASE m = p - 1
      BY <2>4, <2>6, <3>2, <3>3 DEF NumSteps
    <3>4. CASE m # p - 1
      <4> DEFINE q == p - 1
      <4>1. /\ Mirror(q) = m + 1 /\ m + 1 < q /\ m + 1 \in Passes
            /\ m + 1 # 1 /\ (m + 1) - 1 = m /\ m + 1 < pass
        <5>1. m + 1 # p
          BY <2>1, <3>4
        <5>2. m < p /\ m + 1 < p /\ m + 1 # p - 1
          <6>1. CASE Len(Calls) = 2
            BY <2>1, <3>4, <5>1, <6>1
          <6>2. CASE Len(Calls) = 6
            BY <2>1, <3>4, <5>1, <6>2
          <6> QED  BY <1>3, <6>1, <6>2
        <5> HIDE DEF m
        <5>3. /\ m + 1 < p - 1 /\ m + 1 \in Nat /\ m + 1 # 1 /\ (m + 1) - 1 = m
              /\ m >= 1 /\ m + 1 < pass
          BY <1>3, <2>1, <2>6, <5>2 DEF Passes
        <5>4. m + 1 \in Passes
          BY <1>3, <2>1, <5>3 DEF Passes
        <5>5. Mirror(q) = m + 1
          BY <1>3, <2>1 DEF Mirror
        <5> QED  BY <5>3, <5>4, <5>5
      <4>2. seen[q][NumSteps] = Turned(seen[m + 1][NumSteps - NumSteps])
        <5>1. NumSteps \in 0 .. NumSteps
          BY DEF NumSteps
        <5> QED  BY <1>2, <1>5, <3>1, <4>1, <5>1 DEF Mirrored
      <4>3. seen[m + 1][0] = Turned(seen[m][NumSteps])
        <5>1. 0 \in 0 .. NumSteps
          BY DEF NumSteps
        <5> QED  BY <1>2, <1>5, <4>1, <5>1 DEF Chained
      <4>4. seen[m][NumSteps] \in Half \X Half
        BY <1>3, <2>1 DEF NumSteps
      <4>5. NumSteps - NumSteps = 0 /\ NumSteps - 0 = NumSteps
        BY DEF NumSteps
      <4>6. seen[q][NumSteps] = seen[m][NumSteps]
        BY <4>2, <4>3, <4>4, <4>5, TurnedTwice
      <4> QED  BY <2>4, <2>6, <3>2, <4>5, <4>6
    <3> QED  BY <3>3, <3>4
  <2>7. CASE p = pass /\ n = last /\ last # 0
    <3> DEFINE k == NumSteps - n
    <3>1. /\ n - 1 \in 0 .. NumSteps /\ n - 1 < last /\ n - 1 \in 0 .. 15
          /\ k \in 0 .. NumSteps - 1 /\ k + 1 = NumSteps - (n - 1)
          /\ k + 1 \in 0 .. NumSteps /\ k \in 0 .. NumSteps /\ 15 - (n - 1) = k
      BY <2>7 DEF NumSteps
    <3>2. seen'[p][n] = Round(seen[p][n - 1], KeyAt(p, n - 1))
      BY <2>7
    <3>3. seen[p][n - 1] = Turned(seen[m][k + 1])
      <4>1. DesRecorded(p, n - 1)
        BY <2>7, <3>1
      <4> QED  BY <1>2, <3>1, <4>1 DEF Mirrored
    <3>4. seen[m][k + 1] = Round(seen[m][k], KeyAt(m, k))
      <4>1. DesRecorded(m, k + 1)
        BY <1>5, <2>1, <2>3, <3>1
      <4> QED  BY <1>2, <2>1, <3>1, <4>1 DEF Stepped
    <3>5. KeyAt(p, n - 1) = KeyAt(m, k)
      BY <1>2, <3>1, SameKey
    <3>6. seen[m][k] \in Half \X Half
      BY <1>3, <2>1, <3>1
    <3> HIDE DEF k, m
    <3>7. seen'[p][n] = Turned(seen[m][k])
      BY <3>2, <3>3, <3>4, <3>5, <3>6, RoundBack
    <3> QED  BY <2>4, <3>7 DEF k, m
  <2> QED  BY <1>3, <2>2, <2>5, <2>6, <2>7
<1>9. QED
  BY <1>6, <1>7, <1>8

\* LoadBlock records where a pass begins.
LEMMA LoadKeep == DInv /\ LoadBlock => DInv'
<1> SUFFICES ASSUME DInv, LoadBlock PROVE DInv'
  OBVIOUS
<1> DEFINE high == [Zeros EXCEPT ![0] = HighHalf(permute(SwapBytes(block), IP))]
           low == [Zeros EXCEPT ![0] = LowHalf(permute(SwapBytes(block), IP))]
<1>1. /\ phase = "in" /\ phase' = "rounds" /\ step' = 0
      /\ task' = task /\ subkeys' = subkeys /\ pass' = pass /\ block' = block
      /\ ciphertext' = ciphertext
      /\ left_half' = IF Op = "E" THEN high ELSE low
      /\ right_half' = IF Op = "E" THEN low ELSE high
      /\ seen' = [seen EXCEPT ![pass] = [@ EXCEPT ![0] = <<high[0], low[0]>>]]
  BY DEF LoadBlock
<1>2. /\ high \in [0 .. NumSteps -> Half] /\ low \in [0 .. NumSteps -> Half]
      /\ <<high[0], low[0]>> = Taken(block)
  BY HalvesType DEF Zeros, Half, NumSteps, Taken
<1> HIDE DEF high, low
<1>3. /\ DesTypeOK /\ Current
      /\ Len(Calls) \in {2, 6} /\ pass \in Passes /\ pass \in Nat /\ pass \in 1 .. 6
      /\ \A p \in Passes : p \in 1 .. 6
      /\ 0 \in 0 .. NumSteps
  BY PassFacts DEF DInv, NumSteps
<1>4. seen[pass] \in [0 .. NumSteps -> Half \X Half]
  BY <1>3 DEF DesTypeOK
<1>5. /\ seen' \in [1 .. 6 -> [0 .. NumSteps -> Half \X Half]]
      /\ seen'[pass][0] = Taken(block)
      /\ \A p \in Passes : p # pass => seen'[p] = seen[p]
  <2> DEFINE row == [seen[pass] EXCEPT ![0] = Taken(block)]
  <2>1. row \in [0 .. NumSteps -> Half \X Half] /\ row[0] = Taken(block)
    BY <1>3, <1>4, TakenType
  <2>2. seen' = [seen EXCEPT ![pass] = row]
    BY <1>1, <1>2
  <2> HIDE DEF row
  <2>3. seen \in [1 .. 6 -> [0 .. NumSteps -> Half \X Half]]
    BY <1>3 DEF DesTypeOK
  <2> QED  BY <1>3, <2>1, <2>2, <2>3
<1>6. DesTypeOK'
  <2>1. left_half' \in [0 .. NumSteps -> Half] /\ right_half' \in [0 .. NumSteps -> Half]
    BY <1>1, <1>2
  <2>2. Calls' = Calls
    BY <1>1, SameTask
  <2> QED  BY <1>1, <1>3, <1>5, <2>1, <2>2 DEF DesTypeOK
<1>7. Taken(block) = IF pass = 1 THEN Taken(task.text)
                                 ELSE Turned(seen[pass - 1][NumSteps])
  <2>1. CASE pass = 1
    BY <1>1, <1>3, <2>1 DEF Current
  <2>2. CASE pass # 1
    <3>1. pass - 1 \in Passes /\ NumSteps \in 0 .. NumSteps
      BY <1>3, <2>2 DEF Passes, NumSteps
    <3>2. seen[pass - 1][NumSteps] \in Half \X Half
      BY <1>3, <3>1, PassFacts
    <3>3. block = Stored(seen[pass - 1][NumSteps])
      BY <1>1, <1>3, <2>2 DEF Current
    <3> QED  BY <2>2, <3>2, <3>3, TakenStored
  <2> QED  BY <2>1, <2>2
<1>8. Chained' /\ Stepped' /\ Mirrored'
  <2>1. \A n \in 0 .. NumSteps : ~ (n < 0)
    BY DEF NumSteps
  <2> QED  BY <1>1, <1>3, <1>5, <1>6, <1>7, <2>1, KeepRecord
<1>9. Current'
  <2>1. seen'[pass][0] = <<high[0], low[0]>>
    BY <1>2, <1>5
  <2>2. Calls' = Calls /\ KeysMirror' = KeysMirror
    BY <1>1, SameTask
  <2>3. Halves'[1][0] = high[0] /\ Halves'[2][0] = low[0]
    <3>1. Op' = Op
      BY <1>1, <2>2 DEF Op
    <3>2. CASE Op = "E"
      BY <1>1, <3>1, <3>2 DEF Halves
    <3>3. CASE Op # "E"
      BY <1>1, <3>1, <3>3 DEF Halves
    <3> QED  BY <3>2, <3>3
  <2>4. KeysMirror' /\ Len(task'.keys) = 3 => subkeys'[1] = subkeys'[3]
    BY <1>1, <1>3, <2>2 DEF Current
  <2> QED  BY <1>1, <2>1, <2>3, <2>4 DEF Current
<1>10. QED
  BY <1>6, <1>8, <1>9 DEF DInv

\* A round records what Round makes of the step before: the words that feistel
\* clears behind its array are not among those that are read again.
LEMMA TransformKeep == DInv /\ DES_transform => DInv'
<1> SUFFICES ASSUME DInv, DES_transform PROVE DInv'
  OBVIOUS
<1> DEFINE mixed == Halves[1]
           fed == Halves[2]
           out == SymDiff(mixed[step], feistel(fed[step], RoundKey))
           kept == [n \in 0 .. NumSteps |->
                      IF n = step + 1 THEN fed[step]
                      ELSE IF n = 0 /\ Overruns THEN {} ELSE mixed[n]]
           written == [n \in 0 .. NumSteps |->
                         IF n = step + 1 THEN out
                         ELSE IF n = step + 2 THEN {} ELSE fed[n]]
<1>1. /\ phase = "rounds" /\ phase' = "rounds" /\ step < NumSteps
      /\ step' = step + 1
      /\ task' = task /\ subkeys' = subkeys /\ pass' = pass /\ block' = block
      /\ ciphertext' = ciphertext
      /\ left_half' = IF Op = "E" THEN kept ELSE written
      /\ right_half' = IF Op = "E" THEN written ELSE kept
      /\ seen' = [seen EXCEPT ![pass] = [@ EXCEPT ![step + 1] = <<fed[step], out>>]]
  BY DEF DES_transform
<1>2. /\ DesTypeOK /\ Current
      /\ Len(Calls) \in {2, 6} /\ pass \in Passes /\ pass \in Nat /\ pass \in 1 .. 6
      /\ step \in 0 .. NumSteps /\ step + 1 \in 0 .. NumSteps /\ step \in Nat
      /\ step + 1 # 0 /\ (step + 1) - 1 = step
  <2>1. /\ DesTypeOK /\ Current /\ step \in 0 .. NumSteps
    BY DEF DInv, DesTypeOK
  <2>2. /\ step + 1 \in 0 .. NumSteps /\ step \in Nat
        /\ step + 1 # 0 /\ (step + 1) - 1 = step
    BY <1>1, <2>1 DEF NumSteps
  <2>3. /\ Len(Calls) \in {2, 6} /\ pass \in Passes /\ pass \in Nat
        /\ pass \in 1 .. 6
    BY <2>1, PassFacts
  <2> QED  BY <2>1, <2>2, <2>3
<1>3. /\ mixed \in [0 .. NumSteps -> Half] /\ fed \in [0 .. NumSteps -> Half]
      /\ mixed[step] = seen[pass][step][1] /\ fed[step] = seen[pass][step][2]
  BY <1>1, <1>2 DEF DesTypeOK, Current, Halves
<1>4. /\ seen[pass][step] \in Half \X Half
      /\ seen[pass] \in [0 .. NumSteps -> Half \X Half]
  BY <1>2 DEF DesTypeOK
<1>5. <<fed[step], out>> = Round(seen[pass][step], KeyAt(pass, step))
  <2>1. RoundKey = KeyAt(pass, step)
    BY DEF RoundKey, KeyAt, Op
  <2> HIDE DEF mixed, fed
  <2> QED  BY <1>3, <2>1 DEF Round
<1>6. /\ <<fed[step], out>> \in Half \X Half /\ out \in Half
  <2>1. Round(seen[pass][step], KeyAt(pass, step)) \in Half \X Half
    BY <1>4, RoundType
  <2> HIDE DEF mixed, fed, out
  <2> QED  BY <1>5, <2>1
<1>7. /\ kept \in [0 .. NumSteps -> Half] /\ written \in [0 .. NumSteps -> Half]
      /\ kept[step + 1] = fed[step] /\ written[step + 1] = out
  <2>1. {} \in Half /\ fed[step] \in Half
    BY <1>2, <1>3 DEF Half
  <2> HIDE DEF mixed, fed, out
  <2> QED  BY <1>2, <1>3, <1>6, <2>1
<1> HIDE DEF mixed, fed, out, kept, written
<1>8. /\ seen' \in [1 .. 6 -> [0 .. NumSteps -> Half \X Half]]
      /\ seen'[pass][step + 1] = <<fed[step], out>>
      /\ \A n \in 0 .. NumSteps : n # step + 1 => seen'[pass][n] = seen[pass][n]
      /\ \A p \in Passes : p # pass => seen'[p] = seen[p]
  <2> DEFINE row == [seen[pass] EXCEPT ![step + 1] = <<fed[step], out>>]
  <2>1. /\ row \in [0 .. NumSteps -> Half \X Half]
        /\ row[step + 1] = <<fed[step], out>>
        /\ \A n \in 0 .. NumSteps : n # step + 1 => row[n] = seen[pass][n]
    BY <1>2, <1>4, <1>6
  <2>2. seen' = [seen EXCEPT ![pass] = row]
    BY <1>1
  <2> HIDE DEF row
  <2>3. seen \in [1 .. 6 -> [0 .. NumSteps -> Half \X Half]]
    BY <1>2 DEF DesTypeOK
  <2>4. \A p \in Passes : p \in 1 .. 6
    BY <1>2, PassFacts
  <2> QED  BY <1>2, <2>1, <2>2, <2>3, <2>4
<1>9. DesTypeOK'
  <2>1. left_half' \in [0 .. NumSteps -> Half] /\ right_half' \in [0 .. NumSteps -> Half]
    BY <1>1, <1>7
  <2>2. Calls' = Calls
    BY <1>1, SameTask
  <2> QED  BY <1>1, <1>2, <1>8, <2>1, <2>2 DEF DesTypeOK
<1>10. Chained' /\ Stepped' /\ Mirrored'
  <2>1. \A n \in 0 .. NumSteps :
          n < step + 1 => DesRecorded(pass, n) /\ seen'[pass][n] = seen[pass][n]
    BY <1>1, <1>2, <1>8 DEF DesRecorded
  <2> QED  BY <1>1, <1>2, <1>5, <1>8, <1>9, <2>1, KeepRecord
<1>11. Current'
  <2>1. Calls' = Calls /\ KeysMirror' = KeysMirror
    BY <1>1, SameTask
  <2>2. Halves'[1][step + 1] = fed[step] /\ Halves'[2][step + 1] = out
    <3>1. Op' = Op
      BY <1>1, <2>1 DEF Op
    <3>2. CASE Op = "E"
      BY <1>1, <1>7, <3>1, <3>2 DEF Halves
    <3>3. CASE Op # "E"
      BY <1>1, <1>7, <3>1, <3>3 DEF Halves
    <3> QED  BY <3>2, <3>3
  <2>3. KeysMirror' /\ Len(task'.keys) = 3 => subkeys'[1] = subkeys'[3]
    BY <1>1, <1>2, <2>1 DEF Current
  <2> QED  BY <1>1, <1>8, <2>2, <2>3 DEF Current
<1>12. QED
  BY <1>9, <1>10, <1>11 DEF DInv

\* StoreBlock ends a pass, with no change to what has been recorded.
LEMMA StoreKeep == DInv /\ StoreBlock => DInv'
<1> SUFFICES ASSUME DInv, StoreBlock PROVE DInv'
  OBVIOUS
<1>1. /\ phase = "rounds" /\ step = NumSteps /\ step' = step
      /\ task' = task /\ subkeys' = subkeys /\ seen' = seen
      /\ left_half' = left_half /\ right_half' = right_half
      /\ ciphertext' = IF 2 * pass = Len(Calls) THEN block' ELSE ciphertext
      /\ \/ pass = Len(Calls) /\ phase' = "done" /\ pass' = pass
         \/ pass # Len(Calls) /\ phase' = "in" /\ pass' = pass + 1
  BY DEF StoreBlock
<1>2. /\ DesTypeOK /\ Chained /\ Stepped /\ Mirrored /\ Current
      /\ Len(Calls) \in {2, 6} /\ pass \in Passes /\ pass \in Nat
      /\ step \in 0 .. NumSteps
      /\ \A p \in Passes : p \in 1 .. 6 /\ p \in Nat
  BY PassFacts DEF DInv, DesTypeOK
<1>3. /\ Calls' = Calls /\ Passes' = Passes /\ KeysMirror' = KeysMirror
      /\ \A p : Mirror(p)' = Mirror(p)
      /\ \A p, n : KeyAt(p, n)' = KeyAt(p, n)
  BY <1>1, SameTask DEF KeyAt
<1>4. block' = Stored(seen[pass][NumSteps]) /\ block' \in DesBlocks
  <2>1. block' = Stored(<<Halves[1][NumSteps], Halves[2][NumSteps]>>)
    BY DEF StoreBlock, Stored
  <2>2. seen[pass][NumSteps] \in Half \X Half
    BY <1>1, <1>2, PassFacts
  <2>3. <<Halves[1][NumSteps], Halves[2][NumSteps]>> = seen[pass][NumSteps]
    BY <1>1, <1>2, <2>2 DEF Current
  <2> QED  BY <2>1, <2>2, <2>3, StoredType
<1>5. DesTypeOK'
  <2>1. pass' \in 1 .. Len(Calls)
    BY <1>1, <1>2 DEF Passes
  <2>2. ciphertext' \in DesBlocks /\ phase' \in {"init", "in", "rounds", "done"}
    BY <1>1, <1>2, <1>4 DEF DesTypeOK
  <2> QED  BY <1>1, <1>2, <1>3, <1>4, <2>1, <2>2 DEF DesTypeOK
<1>6. \A p \in Passes, n \in 0 .. NumSteps : DesRecorded(p, n)' <=> DesRecorded(p, n)
  <2> SUFFICES ASSUME NEW p \in Passes, NEW n \in 0 .. NumSteps
               PROVE  DesRecorded(p, n)' <=> DesRecorded(p, n)
    OBVIOUS
  <2>1. p \in Nat /\ n <= step
    BY <1>1, <1>2 DEF NumSteps
  <2>2. CASE phase' = "done"
    BY <1>1, <2>1, <2>2 DEF DesRecorded
  <2>3. CASE phase' = "in"
    BY <1>1, <1>2, <2>1, <2>3 DEF DesRecorded
  <2> QED  BY <1>1, <2>2, <2>3
<1>7. 0 \in 0 .. NumSteps /\ \A n \in 0 .. NumSteps - 1 : n + 1 \in 0 .. NumSteps
  BY DEF NumSteps
<1>8. Chained'
  BY <1>1, <1>2, <1>3, <1>6, <1>7 DEF Chained
<1>9. Stepped'
  BY <1>1, <1>2, <1>3, <1>6, <1>7 DEF Stepped
<1>10. Mirrored'
  BY <1>1, <1>2, <1>3, <1>6 DEF Mirrored
<1>11. Current'
  <2>1. KeysMirror' /\ Len(task'.keys) = 3 => subkeys'[1] = subkeys'[3]
    BY <1>1, <1>2, <1>3 DEF Current
  <2>2. CASE phase' = "done"
    BY <1>1, <1>3, <1>4, <2>1, <2>2 DEF Current
  <2>3. CASE phase' = "in"
    <3>1. pass' # 1 /\ pass' - 1 = pass
      BY <1>1, <1>2, <2>3 DEF Passes
    <3> QED  BY <1>1, <1>4, <2>1, <2>3, <3>1 DEF Current
  <2> QED  BY <1>1, <2>2, <2>3
<1>12. QED
  BY <1>5, <1>8, <1>9, <1>10, <1>11 DEF DInv

LEMMA DesStutterKeep == DInv /\ UNCHANGED desVars => DInv'
<1> SUFFICES ASSUME DInv, UNCHANGED desVars PROVE DInv'
  OBVIOUS
<1>1. /\ task' = task /\ phase' = phase /\ subkeys' = subkeys /\ pass' = pass
      /\ step' = step /\ left_half' = left_half /\ right_half' = right_half
      /\ block' = block /\ ciphertext' = ciphertext /\ seen' = seen
  BY DEF desVars
<1>2. /\ Calls' = Calls /\ Passes' = Passes /\ KeysMirror' = KeysMirror
      /\ Halves' = Halves
      /\ \A p : Mirror(p)' = Mirror(p)
      /\ \A p, n : KeyAt(p, n)' = KeyAt(p, n) /\ DesRecorded(p, n)' = DesRecorded(p, n)
  BY <1>1, SameTask DEF KeyAt, DesRecorded, Halves, Op
<1>3. DesTypeOK'
  BY <1>1, <1>2 DEF DInv, DesTypeOK
<1>4. Chained' /\ Stepped' /\ Mirrored'
  BY <1>1, <1>2 DEF DInv, Chained, Stepped, Mirrored
<1>5. Current'
  BY <1>1, <1>2 DEF DInv, Current
<1>6. QED
  BY <1>3, <1>4, <1>5 DEF DInv

LEMMA DesInvariant == DesSpec => []DInv
<1>1. DInv /\ [DesNext]_desVars => DInv'
  BY ExpandKeep, LoadKeep, TransformKeep, StoreKeep, DesStutterKeep
     DEF DesNext, DesDone
<1> QED
  BY <1>1, DInvInit, PTL DEF DesSpec

-----------------------------------------------------------------------------
\* The arrays of halves stay arrays of 32 bit halves, the loop of rounds and
\* the calls of DES_*_block stay within their bounds: for every key and text.
THEOREM DesTypeCorrect == DesSpec => []DesTypeOK
<1>1. DInv => DesTypeOK
  BY DEF DInv
<1> QED
  BY <1>1, DesInvariant, PTL

\* Decryption goes back through the halves of encryption, one by one and
\* swapped, wherever the stack has the word that feistel clears: for every
\* S-box, table and key that TDES_decrypt_block can undo.
THEOREM DesRetraces == DesSpec => []RetracesSteps
<1>1. ASSUME DInv PROVE RetracesSteps
  <2> DEFINE m == Len(Calls) + 1 - pass
  <2> SUFFICES ASSUME KeysMirror, phase = "rounds", m < pass
               PROVE  /\ Halves[1][step] = seen[m][NumSteps - step][2]
                      /\ Halves[2][step] = seen[m][NumSteps - step][1]
    BY DEF RetracesSteps
  <2>1. /\ DesTypeOK /\ Mirrored /\ Current /\ pass \in Passes
        /\ step \in 0 .. NumSteps /\ step <= step
    BY <1>1, PassFacts DEF DInv, DesTypeOK, NumSteps
  <2>2. Mirror(pass) = m /\ DesRecorded(pass, step)
    BY <2>1 DEF Mirror, DesRecorded
  <2>3. seen[pass][step] = Turned(seen[m][NumSteps - step])
    BY <2>1, <2>2 DEF Mirrored
  <2> QED  BY <2>1, <2>3 DEF Current, Turned
<1> QED
  BY <1>1, DesInvariant, PTL

\* What DES_decrypt_block or TDES_decrypt_block makes of a ciphertext is the
\* text, for every text and every key that is the same backwards.
THEOREM DesGivesBack == DesSpec => []DesRoundTrip
<1>1. ASSUME DInv PROVE DesRoundTrip
  <2> SUFFICES ASSUME phase = "done", KeysMirror PROVE block = task.text
    BY DEF DesRoundTrip
  <2>1. /\ DesTypeOK /\ Chained /\ Mirrored /\ Current
        /\ Len(Calls) \in {2, 6} /\ pass \in Passes /\ pass \in Nat
        /\ pass = Len(Calls) /\ block = Stored(seen[pass][NumSteps])
        /\ 0 \in 0 .. NumSteps /\ NumSteps \in 0 .. NumSteps
        /\ NumSteps - NumSteps = 0
    BY <1>1, PassFacts DEF DInv, Current, NumSteps
  <2>2. /\ Mirror(pass) = 1 /\ 1 < pass /\ 1 \in Passes
    <3>1. CASE Len(Calls) = 2
      BY <2>1, <3>1 DEF Mirror, Passes
    <3>2. CASE Len(Calls) = 6
      BY <2>1, <3>2 DEF Mirror, Passes
    <3> QED  BY <2>1, <3>1, <3>2
  <2>3. DesRecorded(pass, NumSteps) /\ DesRecorded(1, 0)
    BY <2>2 DEF DesRecorded
  <2>4. seen[pass][NumSteps] = Turned(seen[1][0])
    BY <2>1, <2>2, <2>3 DEF Mirrored
  <2>5. seen[1][0] = Taken(task.text)
    BY <2>1, <2>2, <2>3 DEF Chained
  <2>6. task.text \in DesBlocks
    BY <2>1, DesKeysAre DEF DesTypeOK
  <2> QED  BY <2>1, <2>4, <2>5, <2>6, StoredTaken
<1> QED
  BY <1>1, DesInvariant, PTL
=============================================================================
