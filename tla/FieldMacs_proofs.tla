-------------------------- MODULE FieldMacs_proofs --------------------------
(***************************************************************************)
(* Proofs about the two authentication codes that evaluate a polynomial in *)
(* a field, and the arithmetic both are made of.                           *)
(*                                                                         *)
(* Ghash, for every width of the field and of a byte, every polynomial     *)
(* that defines the field, every hash key and every two texts: the bitwise *)
(* multiplication of gcm.c is the product of polynomials over GF(2),       *)
(* reduced, and GHASH, which adds a block and multiplies, a block after    *)
(* the other, ends with the polynomial of SP 800-38D in the hash key.      *)
(*                                                                         *)
(* Bigint, for every width of a digit, every length of the operands and    *)
(* whatever the output held: comparison, addition, subtraction,            *)
(* multiplication and remainder of bigint.c do what they say, but for the  *)
(* carry and the borrow that addition and subtraction drop.                *)
(*                                                                         *)
(* Poly1305, over Bigint, for every key and message: the tag is the one of *)
(* RFC 8439, unless such a carry was dropped.                              *)
(***************************************************************************)
EXTENDS Macs, FiniteSetTheorems, WellFoundedInduction,
        SequenceTheorems, TLAPS

HmacSpec == HmacStart /\ [][HmacNext]_hmacVars

GhashSpec == GhashStart /\ [][GhashNext]_ghashVars

PolySpec == PolyStart /\ [][PolyNext]_polyVars

(***************************************************************************)
(* Induction, over sets: a property of numbers is the set of the numbers   *)
(* that have it, and the least number that has it not is where it fails.   *)
(***************************************************************************)

\* A set of numbers has a least one.
LEMMA Least ==
  ASSUME NEW S \in SUBSET Nat, S # {}
  PROVE  \E m \in S : \A k \in S : m <= k
<1> DEFINE R == OpToRel(<, Nat)
<1>1. IsWellFoundedOn(R, Nat)
  BY NatLessThanWellFounded, Zenon
<1>2. \A x, y \in Nat : x < y => <<x, y>> \in R
  BY DEF OpToRel
<1> HIDE DEF R
<1>3. PICK x \in S : \A y \in S : ~ (<<y, x>> \in R)
  BY <1>1, WFMin, Zenon
<1>4. ASSUME NEW y \in S PROVE x <= y
  <2>1. x \in Nat /\ y \in Nat
    OBVIOUS
  <2>2. ~ (y < x)
    BY <1>2, <1>3, <2>1, Zenon
  <2> QED BY <2>1, <2>2
<1> QED BY <1>4, Zenon

\* What holds of 0, and of a number when of the one before, holds of all,
LEMMA Induct ==
  ASSUME NEW S, 0 \in S, \A n \in Nat : n \in S => n + 1 \in S
  PROVE  Nat \subseteq S
<1> SUFFICES ASSUME Nat \ S # {} PROVE FALSE
  OBVIOUS
<1>1. PICK m \in Nat \ S : \A k \in Nat \ S : m <= k
  BY Least, Zenon
<1> QED BY <1>1

\* or of all up to a bound.
LEMMA InductTo ==
  ASSUME NEW N \in Nat, NEW S, 0 \in S, \A n \in 0 .. N - 1 : n \in S => n + 1 \in S
  PROVE  \A n \in 0 .. N : n \in S
<1> DEFINE T == {n \in Nat : n <= N => n \in S}
<1>1. Nat \subseteq T
  <2>1. 0 \in T /\ \A n \in Nat : n \in T => n + 1 \in T
    OBVIOUS
  <2> QED BY <2>1, Induct
<1> QED BY <1>1

\* A function that starts somewhere and takes a step at every number.
IsStep(Step, N, T) == Step \in [T \X (1 .. N) -> T]

IsRun(g, N, T, start, Step) ==
  /\ g \in [0 .. N -> T]
  /\ g[0] = start
  /\ \A n \in 1 .. N : g[n] = Step[<<g[n - 1], n>>]

\* There is one for every step.
LEMMA RunExists ==
  ASSUME NEW N \in Nat, NEW T, NEW start \in T, NEW Step, IsStep(Step, N, T)
  PROVE  \E g : IsRun(g, N, T, start, Step)
<1> USE DEF IsStep
<1> DEFINE Good(g, m) == g[0] = start /\ \A n \in 1 .. m : g[n] = Step[<<g[n - 1], n>>]
           S == {m \in 0 .. N : \E g \in [0 .. m -> T] : Good(g, m)}
<1>1. 0 \in S
  <2> DEFINE g == [i \in 0 .. 0 |-> start]
  <2>1. g \in [0 .. 0 -> T] /\ Good(g, 0)
    OBVIOUS
  <2> HIDE DEF g, Good
  <2> QED BY <2>1
<1>2. ASSUME NEW m \in 0 .. N - 1, m \in S
      PROVE  m + 1 \in S
  <2>1. PICK g \in [0 .. m -> T] : Good(g, m)
    BY <1>2
  <2>5. g[m] \in T /\ m + 1 \in 1 .. N /\ \A i \in 0 .. m : g[i] \in T
    OBVIOUS
  <2> DEFINE next == Step[<<g[m], m + 1>>]
             h == [i \in 0 .. m + 1 |-> IF i = m + 1 THEN next ELSE g[i]]
  <2>4. next \in T
    <3>1. <<g[m], m + 1>> \in T \X (1 .. N)
      BY <2>5
    <3> QED BY <3>1
  <2>2. h \in [0 .. m + 1 -> T]
    <3> HIDE DEF next
    <3> QED BY <2>4, <2>5
  <2>3. Good(h, m + 1)
    <3>1. h[0] = start BY <2>1
    <3>2. ASSUME NEW n \in 1 .. m + 1 PROVE h[n] = Step[<<h[n - 1], n>>]
      <4>1. CASE n = m + 1
        <5>1. h[n] = next /\ h[n - 1] = g[m] BY <4>1
        <5> QED BY <4>1, <5>1
      <4>2. CASE n # m + 1 
        <5>1. h[n] = g[n] /\ h[n-1] = g[n-1] BY <4>2
        <5>2. n \in 1 .. m BY <4>2
        <5> QED BY <5>1, <5>2, <2>1
      <4> QED BY <4>1, <4>2
    <3> QED BY <3>1, <3>2
  <2> HIDE DEF h, Good
  <2> QED BY <2>2, <2>3
<1>3. N \in S
  <2> HIDE DEF S
  <2>1. \A n \in 0 .. N : n \in S
    BY <1>1, <1>2, InductTo
  <2> QED BY <2>1
<1>4. PICK g \in [0 .. N -> T] : Good(g, N)
  BY <1>3
<1>5. IsRun(g, N, T, start, Step)
  BY <1>4 DEF IsRun
<1> QED BY <1>5

-----------------------------------------------------------------------------
(***************************************************************************)
(* Polynomials over GF(2) as sets of exponents, and their sums.            *)
(***************************************************************************)

\* A bit of an exclusive or.
LEMMA XorBit ==
  ASSUME NEW x, NEW y, NEW n
  PROVE  n \in SymDiff(x, y) <=> ((n \in x) # (n \in y))
BY DEF SymDiff

\* Nothing, and the same twice.
LEMMA XorEmpty ==
  ASSUME NEW x
  PROVE  SymDiff({}, x) = x /\ SymDiff(x, {}) = x /\ SymDiff(x, x) = {}
BY DEF SymDiff

\* Sums of four may be paired in any way.
LEMMA XorSwap ==
  ASSUME NEW p, NEW q, NEW r, NEW s
  PROVE  SymDiff(SymDiff(p, q), SymDiff(r, s))
           = SymDiff(SymDiff(p, r), SymDiff(q, s))
BY DEF SymDiff

\* Order and pairing do not matter.
LEMMA XorOrder ==
  ASSUME NEW p, NEW q, NEW r
  PROVE  /\ SymDiff(p, q) = SymDiff(q, p)
         /\ SymDiff(SymDiff(p, q), r) = SymDiff(p, SymDiff(q, r))
BY DEF SymDiff

LEMMA XorType ==
  ASSUME NEW S, NEW x \in SUBSET S, NEW y \in SUBSET S
  PROVE  SymDiff(x, y) \in SUBSET S
BY DEF SymDiff

Polys == SUBSET Bits128

\* What the assumption on the constants says of the field.
LEMMA FieldIs ==
  /\ FieldBits \in Nat /\ FieldBits > 0
  /\ Taps \in Polys /\ {} \in Polys
BY GhashAssumption DEF Polys

Shift(p) == {i + 1 : i \in p}

TimesXOf(p) ==
  SymDiff(Shift(p \ {FieldBits - 1}), IF FieldBits - 1 \in p THEN Taps ELSE {})

LEMMA ShiftBit ==
  ASSUME NEW p \in SUBSET Int, NEW n \in Int
  PROVE  n \in Shift(p) <=> n - 1 \in p
<1>1. n \in Shift(p) => n - 1 \in p
  <2> SUFFICES ASSUME NEW i \in p, n = i + 1 PROVE n - 1 \in p
    BY DEF Shift
  <2> i \in Int OBVIOUS
  <2> QED OBVIOUS
<1>2. n - 1 \in p => n = (n - 1) + 1
  OBVIOUS
<1> QED  BY <1>1, <1>2 DEF Shift

LEMMA ShiftInt ==
  ASSUME NEW p \in SUBSET Int
  PROVE  Shift(p) \in SUBSET Int
BY DEF Shift

\* A shift goes through an exclusive or.
LEMMA ShiftXor ==
  ASSUME NEW p \in SUBSET Int, NEW q \in SUBSET Int
  PROVE  Shift(SymDiff(p, q)) = SymDiff(Shift(p), Shift(q))
<1> DEFINE l == Shift(SymDiff(p, q))
           r == SymDiff(Shift(p), Shift(q))
<1>1. SymDiff(p, q) \in SUBSET Int BY XorType
<1>2. l \in SUBSET Int /\ r \in SUBSET Int
  BY <1>1, ShiftInt, XorType
<1>3. \A n \in Int : n \in l <=> n \in r
  BY <1>1, ShiftBit, XorBit
<1> HIDE DEF l, r
<1> l = r BY <1>2, <1>3
<1> QED BY DEF l, r

LEMMA PolysAre ==
  ASSUME NEW p \in Polys
  PROVE  p \in SUBSET Int /\ \A n \in p : n \in 0 .. FieldBits - 1
BY FieldIs DEF Polys, Bits128

\* X of a polynomial, bit by bit
LEMMA TimesXBit ==
  ASSUME NEW p \in Polys, NEW n \in Int
  PROVE  n \in TimesXOf(p)
           <=> (n \in 1 .. FieldBits - 1 /\ n - 1 \in p) # (FieldBits - 1 \in p /\ n \in Taps)
<1>1. p \ {FieldBits - 1} \in SUBSET Int
  BY PolysAre
<1>2. n \in Shift(p \ {FieldBits - 1}) <=> n - 1 \in p \ {FieldBits - 1}
  BY <1>1, ShiftBit
<1>3. n - 1 \in p \ {FieldBits - 1} <=> n \in 1 .. FieldBits - 1 /\ n - 1 \in p
  BY FieldIs DEF Polys, Bits128
<1> QED BY <1>2, <1>3, XorBit DEF TimesXOf

LEMMA TimesXType ==
  ASSUME NEW p \in Polys
  PROVE  TimesXOf(p) \in Polys
<1>1. Shift(p \ {FieldBits - 1}) \in Polys
  BY FieldIs DEF Polys, Shift, Bits128
<1> QED BY <1>1, FieldIs, XorType DEF TimesXOf, Polys

\* X times a sum is the sum of X times its terms.
LEMMA TimesXXor ==
  ASSUME NEW p \in Polys, NEW q \in Polys
  PROVE  TimesXOf(SymDiff(p, q)) = SymDiff(TimesXOf(p), TimesXOf(q))
<1> DEFINE l == TimesXOf(SymDiff(p, q))
           r == SymDiff(TimesXOf(p), TimesXOf(q))
<1>1. SymDiff(p, q) \in Polys
  BY XorType DEF Polys
<1>2. l \in Polys /\ r \in Polys
  BY <1>1, TimesXType, XorType DEF Polys
<1>3. \A n \in Int : n \in l <=> n \in r
  BY <1>1, TimesXBit, XorBit
<1> HIDE DEF l, r
<1> l = r BY <1>2, <1>3, PolysAre
<1> QED BY DEF l, r

-----------------------------------------------------------------------------
(***************************************************************************)
(* Products.                                                               *)
(***************************************************************************)

IsChain(q, v) ==
  v[0] = q /\ \A n \in 1 .. FieldBits : v[n] = TimesXOf(v[n - 1])

Chain(q) == CHOOSE v \in [0 .. FieldBits -> Polys] : IsChain(q, v)

\* The chain of the products X^n q exists and is what it says.
LEMMA ChainIs ==
  ASSUME NEW q \in Polys
  PROVE  /\ Chain(q) \in [0 .. FieldBits -> Polys]
         /\ Chain(q)[0] = q
         /\ \A n \in 1 .. FieldBits : Chain(q)[n] = TimesXOf(Chain(q)[n - 1])
<1> DEFINE Step == [t \in Polys \X (1 .. FieldBits) |-> TimesXOf(t[1])]
<1>1. IsStep(Step, FieldBits, Polys)
  BY TimesXType DEF IsStep
<1>2. \A p \in Polys, n \in 1 .. FieldBits : Step[<<p, n>>] = TimesXOf(p)
  OBVIOUS
<1> HIDE DEF Step
<1>3. PICK v : IsRun(v, FieldBits, Polys, q, Step)
  <2>1. FieldBits \in Nat
    BY FieldIs
  <2> QED BY <1>1, <2>1, RunExists
<1>4. v \in [0 .. FieldBits -> Polys] /\ IsChain(q, v)
  <2>1. \A n \in 1 .. FieldBits : v[n - 1] \in Polys
    BY <1>3, FieldIs DEF IsRun
  <2> QED BY <1>2, <1>3, <2>1 DEF IsChain, IsRun
<1>5. Chain(q) \in [0 .. FieldBits -> Polys] /\ IsChain(q, Chain(q))
  BY <1>4, Zenon DEF Chain
<1> QED BY <1>5 DEF IsChain

\* The same, one step at a time.
LEMMA ChainStep ==
  ASSUME NEW q \in Polys
  PROVE  /\ Chain(q)[0] = q
         /\ \A i \in 0 .. FieldBits : Chain(q)[i] \in Polys
         /\ \A i \in 0 .. FieldBits - 1 : Chain(q)[i + 1] = TimesXOf(Chain(q)[i])
<1>1. Chain(q)[0] = q /\ \A i \in 0 .. FieldBits : Chain(q)[i] \in Polys
  BY ChainIs
<1>2. ASSUME NEW i \in 0 .. FieldBits - 1
      PROVE  Chain(q)[i + 1] = TimesXOf(Chain(q)[i])
  <2>1. i + 1 \in 1 .. FieldBits /\ (i + 1) - 1 = i
    BY FieldIs
  <2>2. Chain(q)[i + 1] = TimesXOf(Chain(q)[(i + 1) - 1])
    BY <2>1, ChainIs
  <2> QED BY <2>1, <2>2
<1> QED BY <1>1, <1>2

\* Induction over the bits of a field element.
LEMMA InductBits ==
  ASSUME NEW S, 0 \in S, \A i \in 0 .. FieldBits - 1 : i \in S => i + 1 \in S
  PROVE  \A i \in 0 .. FieldBits : i \in S
BY FieldIs, InductTo

LEMMA BitRange ==
  /\ 0 \in 0 .. FieldBits /\ FieldBits \in 0 .. FieldBits
  /\ FieldBits - 1 \in 0 .. FieldBits - 1 /\ 0 \in 0 .. FieldBits - 1
  /\ \A i \in 0 .. FieldBits - 1 : i \in 0 .. FieldBits /\ i + 1 \in 0 .. FieldBits
BY FieldIs

LEMMA PolyXor ==
  ASSUME NEW p \in Polys, NEW q \in Polys
  PROVE  SymDiff(p, q) \in Polys
BY XorType DEF Polys

\* Every product X^n q is linear in q,
LEMMA ChainXor ==
  ASSUME NEW p \in Polys, NEW q \in Polys
  PROVE  \A n \in 0 .. FieldBits :
           Chain(SymDiff(p, q))[n] = SymDiff(Chain(p)[n], Chain(q)[n])
<1> DEFINE r == SymDiff(p, q)
           Is(i) == Chain(r)[i] = SymDiff(Chain(p)[i], Chain(q)[i])
           S == {i \in 0 .. FieldBits : Is(i)}
<1>1. r \in Polys
  BY PolyXor
<1>2. Is(0)
  BY <1>1, ChainStep
<1>3. ASSUME NEW i \in 0 .. FieldBits - 1, Is(i)
      PROVE  Is(i + 1)
  <2>1. \A s \in Polys : Chain(s)[i + 1] = TimesXOf(Chain(s)[i]) /\ Chain(s)[i] \in Polys
    BY ChainStep, BitRange
  <2> HIDE DEF r
  <2> QED BY <1>1, <1>3, <2>1, TimesXXor
<1> HIDE DEF Is
<1>4. \A n \in 0 .. FieldBits : n \in S
  <2>1. 0 \in S /\ \A i \in 0 .. FieldBits - 1 : i \in S => i + 1 \in S
    BY <1>2, <1>3, BitRange
  <2> HIDE DEF S
  <2> QED BY <2>1, InductBits
<1> QED BY <1>4 DEF Is

\* and X of it is X^n of X q.
LEMMA ChainShift ==
  ASSUME NEW q \in Polys
  PROVE  \A n \in 0 .. FieldBits : Chain(TimesXOf(q))[n] = TimesXOf(Chain(q)[n])
<1> DEFINE r == TimesXOf(q)
           Is(i) == Chain(r)[i] = TimesXOf(Chain(q)[i])
           S == {i \in 0 .. FieldBits : Is(i)}
<1>1. r \in Polys
  BY TimesXType
<1>2. Is(0)
  BY <1>1, ChainStep
<1>3. ASSUME NEW i \in 0 .. FieldBits - 1, Is(i)
      PROVE  Is(i + 1)
  <2>1. \A s \in Polys : Chain(s)[i + 1] = TimesXOf(Chain(s)[i]) /\ Chain(s)[i] \in Polys
    BY ChainStep, BitRange
  <2> HIDE DEF r
  <2> QED BY <1>1, <1>3, <2>1
<1> HIDE DEF Is
<1>4. \A n \in 0 .. FieldBits : n \in S
  <2>1. 0 \in S /\ \A i \in 0 .. FieldBits - 1 : i \in S => i + 1 \in S
    BY <1>2, <1>3, BitRange
  <2> HIDE DEF S
  <2> QED BY <2>1, InductBits
<1> QED BY <1>4 DEF Is

\* The sum of the first terms of a product.
IsPartial(p, q, z) ==
  /\ z[0] = {}
  /\ \A n \in 1 .. FieldBits :
       z[n] = IF n - 1 \in p THEN SymDiff(z[n - 1], Chain(q)[n - 1]) ELSE z[n - 1]

Partial(p, q) == CHOOSE z \in [0 .. FieldBits -> Polys] : IsPartial(p, q, z)

Times(p, q) == Partial(p, q)[FieldBits]

\* The partial sums exist and are what they say.
LEMMA PartialIs ==
  ASSUME NEW p \in Polys, NEW q \in Polys
  PROVE  /\ Partial(p, q) \in [0 .. FieldBits -> Polys]
         /\ Partial(p, q)[0] = {}
         /\ \A n \in 1 .. FieldBits :
              Partial(p, q)[n] = IF n - 1 \in p
                                   THEN SymDiff(Partial(p, q)[n - 1], Chain(q)[n - 1])
                                   ELSE Partial(p, q)[n - 1]
         /\ Times(p, q) \in Polys
<1> DEFINE Next1(z, n) == IF n - 1 \in p THEN SymDiff(z, Chain(q)[n - 1]) ELSE z
           Step == [t \in Polys \X (1 .. FieldBits) |-> Next1(t[1], t[2])]
<1>1. \A z \in Polys, n \in 1 .. FieldBits : Next1(z, n) \in Polys
  <2>1. \A n \in 1 .. FieldBits : Chain(q)[n - 1] \in Polys
    BY ChainIs, FieldIs
  <2> QED BY <2>1, XorType DEF Polys
<1> HIDE DEF Next1
<1>2. IsStep(Step, FieldBits, Polys)
  BY <1>1 DEF IsStep
<1>3. \A z \in Polys, n \in 1 .. FieldBits : Step[<<z, n>>] = Next1(z, n)
  OBVIOUS
<1> HIDE DEF Step
<1>4. PICK z : IsRun(z, FieldBits, Polys, {}, Step)
  <2>1. FieldBits \in Nat /\ {} \in Polys
    BY FieldIs
  <2> QED BY <1>2, <2>1, RunExists
<1>5. z \in [0 .. FieldBits -> Polys] /\ IsPartial(p, q, z)
  <2>1. \A n \in 1 .. FieldBits : z[n - 1] \in Polys
    BY <1>4, FieldIs DEF IsRun
  <2>2. \A n \in 1 .. FieldBits : z[n] = Next1(z[n - 1], n)
    BY <1>3, <1>4, <2>1 DEF IsRun
  <2> QED BY <1>4, <2>2 DEF IsPartial, Next1, IsRun
<1>6. Partial(p, q) \in [0 .. FieldBits -> Polys] /\ IsPartial(p, q, Partial(p, q))
  BY <1>5, Zenon DEF Partial
<1> QED BY <1>6, FieldIs DEF IsPartial, Times

LEMMA PartialStep ==
  ASSUME NEW p \in Polys, NEW q \in Polys
  PROVE  /\ Partial(p, q)[0] = {}
         /\ \A i \in 0 .. FieldBits : Partial(p, q)[i] \in Polys
         /\ \A i \in 0 .. FieldBits - 1 :
              Partial(p, q)[i + 1] = IF i \in p
                                       THEN SymDiff(Partial(p, q)[i], Chain(q)[i])
                                       ELSE Partial(p, q)[i]
         /\ Times(p, q) \in Polys
<1>1. Partial(p, q)[0] = {} /\ \A i \in 0 .. FieldBits : Partial(p, q)[i] \in Polys
  <2>1. Partial(p, q) \in [0 .. FieldBits -> Polys] /\ Partial(p, q)[0] = {}
    BY PartialIs
  <2> QED BY <2>1
<1>2. ASSUME NEW i \in 0 .. FieldBits - 1
      PROVE  Partial(p, q)[i + 1] = IF i \in p
                                      THEN SymDiff(Partial(p, q)[i], Chain(q)[i])
                                      ELSE Partial(p, q)[i]
  <2> DEFINE n == i + 1
  <2>1. n \in 1 .. FieldBits /\ n - 1 = i
    BY FieldIs
  <2>2. Partial(p, q)[n] = IF n - 1 \in p
                             THEN SymDiff(Partial(p, q)[n - 1], Chain(q)[n - 1])
                             ELSE Partial(p, q)[n - 1]
    <3> HIDE DEF n
    <3> QED BY <2>1, PartialIs
  <2> QED BY <2>1, <2>2
<1> QED BY <1>1, <1>2, PartialIs

\* A product is linear in its first factor,
LEMMA TimesXorLeft ==
  ASSUME NEW p \in Polys, NEW r \in Polys, NEW q \in Polys
  PROVE  Times(SymDiff(p, r), q) = SymDiff(Times(p, q), Times(r, q))
<1> DEFINE s == SymDiff(p, r)
           Is(i) == Partial(s, q)[i] = SymDiff(Partial(p, q)[i], Partial(r, q)[i])
           S == {i \in 0 .. FieldBits : Is(i)}
<1>1. s \in Polys
  BY PolyXor
<1>2. Is(0)
  BY <1>1, PartialStep, XorEmpty
<1>3. ASSUME NEW i \in 0 .. FieldBits - 1, Is(i)
      PROVE  Is(i + 1)
  <2>1. i \in s <=> ((i \in p) # (i \in r))
    BY XorBit
  <2> DEFINE c == Chain(q)[i]
  <2>2. \A x \in Polys : Partial(x, q)[i + 1] =
                            IF i \in x THEN SymDiff(Partial(x, q)[i], c) ELSE Partial(x, q)[i]
    BY PartialStep
  <2> DEFINE x == Partial(p, q)[i]
             y == Partial(r, q)[i]
  <2>3. /\ SymDiff(SymDiff(x, c), SymDiff(y, c)) = SymDiff(x, y)
        /\ SymDiff(SymDiff(x, y), c) = SymDiff(SymDiff(x, c), y)
        /\ SymDiff(SymDiff(x, y), c) = SymDiff(x, SymDiff(y, c))
    <3> HIDE DEF x, y, c
    <3> QED BY DEF SymDiff
  <2>4. Partial(s, q)[i] = SymDiff(x, y)
    BY <1>3
  <2> HIDE DEF s, c, x, y
  <2>5. /\ Partial(p, q)[i + 1] = IF i \in p THEN SymDiff(x, c) ELSE x
        /\ Partial(r, q)[i + 1] = IF i \in r THEN SymDiff(y, c) ELSE y
        /\ Partial(s, q)[i + 1] = IF i \in s THEN SymDiff(SymDiff(x, y), c) ELSE SymDiff(x, y)
    BY <1>1, <2>2, <2>4 DEF x, y
  <2>6. CASE i \in p
    <3>1. CASE i \in r
      BY <2>1, <2>3, <2>5, <2>6, <3>1
    <3>2. CASE ~ (i \in r)
      BY <2>1, <2>3, <2>5, <2>6, <3>2
    <3> QED BY <3>1, <3>2
  <2>7. CASE ~ (i \in p)
    <3>1. CASE i \in r
      BY <2>1, <2>3, <2>5, <2>7, <3>1
    <3>2. CASE ~ (i \in r)
      BY <2>1, <2>3, <2>5, <2>7, <3>2
    <3> QED BY <3>1, <3>2
  <2> QED BY <2>6, <2>7
<1> HIDE DEF Is
<1>4. \A n \in 0 .. FieldBits : n \in S
  <2>1. 0 \in S /\ \A i \in 0 .. FieldBits - 1 : i \in S => i + 1 \in S
    BY <1>2, <1>3, BitRange
  <2> HIDE DEF S
  <2> QED BY <2>1, InductBits
<1>5. Is(FieldBits)
  BY <1>4, BitRange
<1> QED BY <1>5 DEF Is, Times

\* and in its second.
LEMMA TimesXorRight ==
  ASSUME NEW p \in Polys, NEW q \in Polys, NEW r \in Polys
  PROVE  Times(p, SymDiff(q, r)) = SymDiff(Times(p, q), Times(p, r))
<1> DEFINE s == SymDiff(q, r)
           Is(i) == Partial(p, s)[i] = SymDiff(Partial(p, q)[i], Partial(p, r)[i])
           S == {i \in 0 .. FieldBits : Is(i)}
<1>1. s \in Polys
  BY PolyXor
<1>2. Is(0)
  BY <1>1, PartialStep, XorEmpty
<1>3. ASSUME NEW i \in 0 .. FieldBits - 1, Is(i)
      PROVE  Is(i + 1)
  <2>1. Chain(s)[i] = SymDiff(Chain(q)[i], Chain(r)[i])
    BY ChainXor, BitRange
  <2>2. \A x \in Polys : Partial(p, x)[i + 1] =
                            IF i \in p THEN SymDiff(Partial(p, x)[i], Chain(x)[i])
                                       ELSE Partial(p, x)[i]
    BY PartialStep
  <2> HIDE DEF s
  <2>3. CASE i \in p
    <3>1. \A x \in Polys : Partial(p, x)[i + 1] = SymDiff(Partial(p, x)[i], Chain(x)[i])
      BY <2>2, <2>3
    <3> QED BY <1>1, <1>3, <2>1, <3>1, XorSwap
  <2>4. CASE ~ (i \in p)
    <3>1. \A x \in Polys : Partial(p, x)[i + 1] = Partial(p, x)[i]
      BY <2>2, <2>4
    <3> QED BY <1>1, <1>3, <3>1
  <2> QED BY <2>3, <2>4
<1> HIDE DEF Is
<1>4. \A n \in 0 .. FieldBits : n \in S
  <2>1. 0 \in S /\ \A i \in 0 .. FieldBits - 1 : i \in S => i + 1 \in S
    BY <1>2, <1>3, BitRange
  <2> HIDE DEF S
  <2> QED BY <2>1, InductBits
<1>5. Is(FieldBits)
  BY <1>4, BitRange
<1> QED BY <1>5 DEF Is, Times

LEMMA TimesXEmpty == TimesXOf({}) = {}
<1>1. {} \in Polys
  BY FieldIs
<1> QED BY <1>1, TimesXXor, XorEmpty, TimesXType

\* X times the second factor is X times the product.
LEMMA TimesXRight ==
  ASSUME NEW p \in Polys, NEW q \in Polys
  PROVE  Times(p, TimesXOf(q)) = TimesXOf(Times(p, q))
<1> DEFINE s == TimesXOf(q)
           Is(i) == Partial(p, s)[i] = TimesXOf(Partial(p, q)[i])
           S == {i \in 0 .. FieldBits : Is(i)}
<1>1. s \in Polys
  BY TimesXType
<1>2. Is(0)
  BY <1>1, PartialStep, TimesXEmpty
<1>3. ASSUME NEW i \in 0 .. FieldBits - 1, Is(i)
      PROVE  Is(i + 1)
  <2>1. Chain(s)[i] = TimesXOf(Chain(q)[i]) /\ Chain(q)[i] \in Polys
    BY ChainShift, ChainStep, BitRange
  <2>2. \A x \in Polys : Partial(p, x)[i] \in Polys /\ Partial(p, x)[i + 1] =
                            IF i \in p THEN SymDiff(Partial(p, x)[i], Chain(x)[i])
                                       ELSE Partial(p, x)[i]
    BY PartialStep, BitRange
  <2> HIDE DEF s
  <2> QED BY <1>1, <1>3, <2>1, <2>2, TimesXXor
<1> HIDE DEF Is
<1>4. \A n \in 0 .. FieldBits : n \in S
  <2>1. 0 \in S /\ \A i \in 0 .. FieldBits - 1 : i \in S => i + 1 \in S
    BY <1>2, <1>3, BitRange
  <2> HIDE DEF S
  <2> QED BY <2>1, InductBits
<1>5. Is(FieldBits)
  BY <1>4, BitRange
<1> QED BY <1>5 DEF Is, Times

LEMMA TimesEmpty ==
  ASSUME NEW p \in Polys
  PROVE  Times({}, p) = {} /\ Times(p, {}) = {}
<1>1. {} \in Polys /\ SymDiff({}, {}) = {}
  BY FieldIs, XorEmpty
<1>2. Times({}, p) = SymDiff(Times({}, p), Times({}, p))
  BY <1>1, TimesXorLeft
<1>3. Times(p, {}) = SymDiff(Times(p, {}), Times(p, {}))
  BY <1>1, TimesXorRight
<1> QED BY <1>2, <1>3, XorEmpty

LEMMA SingleBits ==
  \A i \in 0 .. FieldBits - 1 : {i} \in Polys
BY DEF Polys, Bits128

\* X times a power of X is the next power, until the taps come in.
LEMMA TimesXOfBit ==
  /\ \A i \in 0 .. FieldBits - 2 : TimesXOf({i}) = {i + 1}
  /\ TimesXOf({FieldBits - 1}) = Taps
<1>1. ASSUME NEW i \in 0 .. FieldBits - 2
      PROVE  TimesXOf({i}) = {i + 1}
  <2>1. {i} \in Polys /\ {i + 1} \in Polys /\ TimesXOf({i}) \in Polys
    BY SingleBits, TimesXType, FieldIs
  <2>2. \A n \in Int : n \in TimesXOf({i}) <=> n = i + 1
    BY <2>1, TimesXBit, FieldIs
  <2> QED BY <2>1, <2>2, PolysAre
<1>2. TimesXOf({FieldBits - 1}) = Taps
  <2>1. {FieldBits - 1} \in Polys /\ Taps \in Polys /\ TimesXOf({FieldBits - 1}) \in Polys
    BY SingleBits, TimesXType, FieldIs, BitRange
  <2>2. \A n \in Int : n \in TimesXOf({FieldBits - 1}) <=> n \in Taps
    BY <2>1, TimesXBit, FieldIs
  <2> QED BY <2>1, <2>2, PolysAre
<1> QED BY <1>1, <1>2

\* The powers of X below FieldBits are single bits.
LEMMA ChainOfOne ==
  /\ \A n \in 0 .. FieldBits - 1 : Chain({0})[n] = {n}
  /\ Chain({0})[FieldBits] = Taps
<1> DEFINE Is(i) == Chain({0})[i] = IF i = FieldBits THEN Taps ELSE {i}
           S == {i \in 0 .. FieldBits : Is(i)}
<1>0. {0} \in Polys
  BY SingleBits, BitRange
<1>1. Is(0)
  BY <1>0, ChainStep, FieldIs
<1>2. ASSUME NEW i \in 0 .. FieldBits - 1, Is(i)
      PROVE  Is(i + 1)
  <2>1. Chain({0})[i + 1] = TimesXOf({i})
    BY <1>0, <1>2, ChainStep, FieldIs
  <2>2. CASE i = FieldBits - 1
    <3>1. i + 1 = FieldBits
      BY <2>2, FieldIs
    <3> QED BY <2>1, <2>2, <3>1, TimesXOfBit
  <2>3. CASE i # FieldBits - 1
    <3>1. i \in 0 .. FieldBits - 2 /\ i + 1 # FieldBits
      BY <2>3, FieldIs
    <3> QED BY <2>1, <3>1, TimesXOfBit
  <2> QED BY <2>2, <2>3
<1> HIDE DEF Is
<1>3. \A n \in 0 .. FieldBits : n \in S
  <2>1. 0 \in S /\ \A i \in 0 .. FieldBits - 1 : i \in S => i + 1 \in S
    BY <1>1, <1>2, BitRange
  <2> HIDE DEF S
  <2> QED BY <2>1, InductBits
<1>4. \A n \in 0 .. FieldBits : Is(n)
  BY <1>3
<1>5. ASSUME NEW n \in 0 .. FieldBits - 1
      PROVE  Chain({0})[n] = {n}
  <2>1. n \in 0 .. FieldBits /\ n # FieldBits
    BY FieldIs
  <2> QED BY <1>4, <2>1 DEF Is
<1>6. Chain({0})[FieldBits] = Taps
  BY <1>4, BitRange DEF Is
<1> QED BY <1>5, <1>6

\* A single term: the power of X that it stands for.
LEMMA TimesBit ==
  ASSUME NEW q \in Polys, NEW b \in 0 .. FieldBits - 1
  PROVE  Times({b}, q) = Chain(q)[b]
<1> DEFINE Is(i) == Partial({b}, q)[i] = IF i <= b THEN {} ELSE Chain(q)[b]
           S == {i \in 0 .. FieldBits : Is(i)}
<1>0. {b} \in Polys
  BY SingleBits
<1>1. Is(0)
  BY <1>0, PartialStep
<1>2. ASSUME NEW i \in 0 .. FieldBits - 1, Is(i)
      PROVE  Is(i + 1)
  <2>1. Partial({b}, q)[i + 1] = IF i = b THEN SymDiff(Partial({b}, q)[i], Chain(q)[i])
                                          ELSE Partial({b}, q)[i]
    BY <1>0, PartialStep
  <2>2. CASE i = b
    <3>1. Partial({b}, q)[i + 1] = SymDiff({}, Chain(q)[b])
      BY <1>2, <2>1, <2>2
    <3> QED BY <3>1, <2>2, XorEmpty
  <2>3. CASE i # b
    BY <1>2, <2>1, <2>3
  <2> QED BY <2>2, <2>3
<1> HIDE DEF Is
<1>3. \A n \in 0 .. FieldBits : n \in S
  <2>1. 0 \in S /\ \A i \in 0 .. FieldBits - 1 : i \in S => i + 1 \in S
    BY <1>1, <1>2, BitRange
  <2> HIDE DEF S
  <2> QED BY <2>1, InductBits
<1>4. Is(FieldBits)
  BY <1>3, BitRange
<1> QED BY <1>4, FieldIs DEF Is, Times

\* One more term of those below a degree.
LEMMA LowXor ==
  ASSUME NEW p, \A j \in p : j \in 0 .. FieldBits - 1, NEW i \in p
  PROVE  SymDiff({j \in p : j < i}, {i}) = {j \in p : j < i + 1}
<1> DEFINE l == SymDiff({j \in p : j < i}, {i})
           r == {j \in p : j < i + 1}
<1>1. ASSUME NEW j
      PROVE  j \in l <=> j \in p /\ (j < i \/ j = i)
  <2>1. j \in l <=> ((j \in {k \in p : k < i}) # (j \in {i}))
    BY DEF SymDiff
  <2>2. i \in Int
    BY FieldIs
  <2>3. CASE j = i
    BY <2>1, <2>2, <2>3
  <2>4. CASE j # i
    <3> HIDE DEF l
    <3>1. ~ (j \in {i})
      BY <2>4
    <3>2. j \in {k \in p : k < i} <=> j \in p /\ j < i
      OBVIOUS
    <3> QED BY <2>1, <2>4, <3>1, <3>2
  <2> QED BY <2>3, <2>4
<1>2. \A j \in p : j < i + 1 <=> (j < i \/ j = i)
  BY FieldIs
<1>3. \A j : j \in r <=> j \in p /\ j < i + 1
  OBVIOUS
<1> HIDE DEF l, r
<1>4. l = r
  BY <1>1, <1>2, <1>3
<1> QED BY <1>4 DEF l, r

\* 1 is the one of the field, on both sides.
LEMMA TimesOne ==
  ASSUME NEW p \in Polys
  PROVE  Times(p, {0}) = p /\ Times({0}, p) = p
<1> DEFINE Is(i) == Partial(p, {0})[i] = {j \in p : j < i}
           S == {i \in 0 .. FieldBits : Is(i)}
<1>0. {0} \in Polys /\ \A j \in p : j \in 0 .. FieldBits - 1
  BY SingleBits, BitRange, PolysAre
<1>1. Is(0)
  <2>1. {j \in p : j < 0} = {}
    BY <1>0
  <2> QED BY <1>0, <2>1, PartialStep
<1>2. ASSUME NEW i \in 0 .. FieldBits - 1, Is(i)
      PROVE  Is(i + 1)
  <2>1. Partial(p, {0})[i + 1] = IF i \in p THEN SymDiff(Partial(p, {0})[i], {i})
                                             ELSE Partial(p, {0})[i]
    <3>1. Chain({0})[i] = {i}
      BY ChainOfOne
    <3>2. Partial(p, {0})[i + 1] = IF i \in p
                                     THEN SymDiff(Partial(p, {0})[i], Chain({0})[i])
                                     ELSE Partial(p, {0})[i]
      <4>1. {0} \in Polys
        BY <1>0
      <4> QED BY <4>1, PartialStep
    <3> QED BY <3>1, <3>2
  <2>2. CASE i \in p
    <3>1. SymDiff({j \in p : j < i}, {i}) = {j \in p : j < i + 1}
      BY <1>0, <2>2, LowXor
    <3> QED BY <1>2, <2>1, <2>2, <3>1
  <2>3. CASE ~ (i \in p)
    <3>1. {j \in p : j < i} = {j \in p : j < i + 1}
      BY <1>0, <2>3
    <3> QED BY <1>2, <2>1, <2>3, <3>1
  <2> QED BY <2>2, <2>3
<1> HIDE DEF Is
<1>3. \A n \in 0 .. FieldBits : n \in S
  <2>1. 0 \in S /\ \A i \in 0 .. FieldBits - 1 : i \in S => i + 1 \in S
    BY <1>1, <1>2, BitRange
  <2> HIDE DEF S
  <2> QED BY <2>1, InductBits
<1>4. Is(FieldBits)
  BY <1>3, BitRange
<1>5. {j \in p : j < FieldBits} = p
  BY <1>0, FieldIs
<1>6. Times({0}, p) = p
  BY TimesBit, BitRange, ChainStep
<1> QED BY <1>4, <1>5, <1>6 DEF Is, Times

\* Every polynomial is a sum of powers of X: what holds of those, of sums and
\* of nothing at all holds of all of them.
LEMMA PolyInduction ==
  ASSUME NEW P, {} \in P, \A i \in 0 .. FieldBits - 1 : {i} \in P,
         \A p, q \in Polys : p \in P /\ q \in P => SymDiff(p, q) \in P
  PROVE  Polys \subseteq P
<1> SUFFICES ASSUME NEW p \in Polys PROVE p \in P
  OBVIOUS
<1> DEFINE Low(i) == {j \in p : j < i}
           S == {i \in 0 .. FieldBits : Low(i) \in P}
<1>0. \A j \in p : j \in 0 .. FieldBits - 1
  BY PolysAre
<1>1. 0 \in S
  <2>1. Low(0) = {}
    BY <1>0
  <2> QED BY <2>1, BitRange
<1>2. ASSUME NEW i \in 0 .. FieldBits - 1, i \in S
      PROVE  i + 1 \in S
  <2>1. CASE i \in p
    <3>1. Low(i + 1) = SymDiff(Low(i), {i})
      BY <1>0, <2>1, LowXor
    <3>2. Low(i) \in Polys /\ {i} \in Polys
      BY SingleBits DEF Polys
    <3> QED BY <1>2, <3>1, <3>2, BitRange
  <2>2. CASE ~ (i \in p)
    <3>1. Low(i + 1) = Low(i)
      BY <1>0, <2>2
    <3> QED BY <1>2, <3>1, BitRange
  <2> QED BY <2>1, <2>2
<1>3. FieldBits \in S
  <2> HIDE DEF S
  <2> QED BY <1>1, <1>2, InductBits, BitRange
<1>4. Low(FieldBits) = p
  BY <1>0, FieldIs
<1> QED BY <1>3, <1>4

\* The taps are what X^FieldBits is.
LEMMA TapsTimes ==
  ASSUME NEW q \in Polys
  PROVE  Times(Taps, q) = Chain(q)[FieldBits]
<1> DEFINE P == {s \in Polys : Times(Taps, s) = Chain(s)[FieldBits]}
<1>0. Taps \in Polys /\ {} \in Polys /\ {0} \in Polys /\ FieldBits \in 0 .. FieldBits
  BY FieldIs, SingleBits, BitRange
<1>1. ASSUME NEW p \in Polys, NEW s \in Polys, p \in P, s \in P
      PROVE  SymDiff(p, s) \in P
  <2>1. Times(Taps, p) = Chain(p)[FieldBits] /\ Times(Taps, s) = Chain(s)[FieldBits]
    BY <1>1
  <2>2. Times(Taps, SymDiff(p, s)) = SymDiff(Times(Taps, p), Times(Taps, s))
    BY <1>0, TimesXorRight
  <2>3. Chain(SymDiff(p, s))[FieldBits] = SymDiff(Chain(p)[FieldBits], Chain(s)[FieldBits])
    BY <1>0, ChainXor
  <2> QED BY <2>1, <2>2, <2>3, PolyXor
<1>2. \A i \in 0 .. FieldBits - 1 : {i} \in P
  <2> DEFINE S == {i \in 0 .. FieldBits : i < FieldBits => {i} \in P}
  <2>1. 0 \in S
    <3>1. Times(Taps, {0}) = Taps
      BY <1>0, TimesOne
    <3> QED BY <1>0, <3>1, ChainOfOne, BitRange
  <2>2. ASSUME NEW i \in 0 .. FieldBits - 1, i \in S
        PROVE  i + 1 \in S
    <3>1. {i} \in P
      <4>1. i < FieldBits
        BY FieldIs
      <4> HIDE DEF P
      <4> QED BY <2>2, <4>1
    <3>2. ASSUME i + 1 < FieldBits PROVE {i + 1} \in P
      <4>1. TimesXOf({i}) = {i + 1}
        BY <3>2, TimesXOfBit, FieldIs
      <4>2. Times(Taps, {i + 1}) = TimesXOf(Times(Taps, {i}))
        BY <1>0, <3>1, <4>1, TimesXRight
      <4>3. Chain({i + 1})[FieldBits] = TimesXOf(Chain({i})[FieldBits])
        BY <1>0, <3>1, <4>1, ChainShift
      <4>4. {i + 1} \in Polys
        BY <3>2, SingleBits, FieldIs
      <4> QED BY <3>1, <4>2, <4>3, <4>4
    <3> HIDE DEF P
    <3> QED BY <3>2, BitRange
  <2> HIDE DEF S
  <2>3. \A i \in 0 .. FieldBits : i \in S
    BY <2>1, <2>2, InductBits
  <2> QED BY <2>3, BitRange, FieldIs DEF S
<1>3. {} \in P
  <2>1. SymDiff({0}, {0}) = {}
    BY XorEmpty
  <2>2. {0} \in P
    BY <1>2, BitRange
  <2> QED BY <1>0, <1>1, <2>1, <2>2
<1> HIDE DEF P
<1>4. Polys \subseteq P
  BY <1>1, <1>2, <1>3, PolyInduction
<1> QED BY <1>4 DEF P

\* X times a first factor of lower degree is X times the product.
LEMMA ShiftTimes ==
  ASSUME NEW p \in Polys, NEW q \in Polys, ~ (FieldBits - 1 \in p)
  PROVE  Shift(p) \in Polys /\ Times(Shift(p), q) = TimesXOf(Times(p, q))
<1> DEFINE s == Shift(p)
           Is(i) == Partial(s, q)[i + 1] = TimesXOf(Partial(p, q)[i])
           S == {i \in 0 .. FieldBits - 1 : Is(i)}
<1>0. \A j \in p : j \in 0 .. FieldBits - 1
  BY PolysAre
<1>1. s \in Polys
  <2>1. \A j \in p : j + 1 \in 0 .. FieldBits - 1
    BY <1>0, FieldIs
  <2> QED BY <2>1 DEF Polys, Shift, Bits128
<1>2. \A j \in Int : j \in s <=> j - 1 \in p
  BY PolysAre, ShiftBit
<1> HIDE DEF s
<1>3. Is(0)
  <2>1. ~ (0 \in s)
    BY <1>0, <1>2
  <2>2. Partial(s, q)[0 + 1] = Partial(s, q)[0]
    BY <1>1, <2>1, PartialStep, BitRange
  <2> QED BY <1>1, <2>2, PartialStep, TimesXEmpty
<1>4. ASSUME NEW i \in 0 .. (FieldBits - 1) - 1, Is(i)
      PROVE  Is(i + 1)
  <2>1. i + 1 \in s <=> i \in p
    BY <1>2, FieldIs
  <2>2. i \in 0 .. FieldBits - 1 /\ i + 1 \in 0 .. FieldBits - 1 /\ i \in 0 .. FieldBits
    BY FieldIs
  <2> DEFINE c == Chain(q)[i]
             x == Partial(p, q)[i]
  <2>3. /\ c \in Polys /\ x \in Polys
        /\ Chain(q)[i + 1] = TimesXOf(c)
    BY <2>2, ChainStep, PartialStep
  <2>4. Partial(p, q)[i + 1] = IF i \in p THEN SymDiff(x, c) ELSE x
    BY <2>2, PartialStep
  <2>5. Partial(s, q)[(i + 1) + 1] = IF i + 1 \in s
                                       THEN SymDiff(Partial(s, q)[i + 1], Chain(q)[i + 1])
                                       ELSE Partial(s, q)[i + 1]
    BY <1>1, <2>2, PartialStep
  <2>6. Partial(s, q)[i + 1] = TimesXOf(x)
    BY <1>4
  <2> HIDE DEF c, x
  <2>7. CASE i \in p
    <3>1. Partial(s, q)[(i + 1) + 1] = SymDiff(TimesXOf(x), TimesXOf(c))
      BY <2>1, <2>3, <2>5, <2>6, <2>7
    <3> QED BY <2>3, <2>4, <2>7, <3>1, TimesXXor
  <2>8. CASE ~ (i \in p)
    BY <2>1, <2>4, <2>5, <2>6, <2>8
  <2> QED BY <2>7, <2>8
<1> HIDE DEF Is
<1>5. Is(FieldBits - 1)
  <2>1. 0 \in S /\ \A i \in 0 .. (FieldBits - 1) - 1 : i \in S => i + 1 \in S
    BY <1>3, <1>4, FieldIs
  <2>2. FieldBits - 1 \in Nat
    BY FieldIs
  <2> HIDE DEF S
  <2>3. \A i \in 0 .. FieldBits - 1 : i \in S
    BY <2>1, <2>2, InductTo
  <2> QED BY <2>2, <2>3 DEF S
<1>6. Times(s, q) = TimesXOf(Partial(p, q)[FieldBits - 1])
  <2>1. (FieldBits - 1) + 1 = FieldBits
    BY FieldIs
  <2> QED BY <1>5, <2>1 DEF Is, Times
<1>7. Times(p, q) = Partial(p, q)[FieldBits - 1]
  <2> DEFINE i == FieldBits - 1
  <2>1. i \in 0 .. FieldBits - 1 /\ i + 1 = FieldBits /\ ~ (i \in p)
    BY FieldIs
  <2> HIDE DEF i
  <2>2. Partial(p, q)[i + 1] = Partial(p, q)[i]
    BY <2>1, PartialStep
  <2>3. Times(p, q) = Partial(p, q)[i]
    BY <2>1, <2>2 DEF Times
  <2> QED BY <2>3 DEF i
<1> QED BY <1>1, <1>6, <1>7 DEF s

\* X times the first factor is X times the product.
LEMMA TimesXLeft ==
  ASSUME NEW p \in Polys, NEW q \in Polys
  PROVE  Times(TimesXOf(p), q) = TimesXOf(Times(p, q))
<1>1. CASE ~ (FieldBits - 1 \in p)
  <2>1. p \ {FieldBits - 1} = p
    BY <1>1
  <2>2. TimesXOf(p) = Shift(p)
    BY <1>1, <2>1, XorEmpty DEF TimesXOf
  <2> QED BY <1>1, <2>2, ShiftTimes
<1>2. CASE FieldBits - 1 \in p
  <2> DEFINE top == {FieldBits - 1}
             r == p \ top
  <2>1. /\ r \in Polys /\ top \in Polys /\ Taps \in Polys
        /\ ~ (FieldBits - 1 \in r) /\ SymDiff(r, top) = p
    <3>1. SymDiff(r, top) = p
      BY <1>2 DEF SymDiff
    <3> QED BY <3>1, SingleBits, BitRange, FieldIs DEF Polys
  <2>2. TimesXOf(p) = SymDiff(Shift(r), Taps)
    BY <1>2 DEF TimesXOf
  <2>3. Times(top, q) = Chain(q)[FieldBits - 1]
    BY TimesBit, BitRange
  <2> HIDE DEF r, top
  <2>4. Shift(r) \in Polys /\ Times(Shift(r), q) = TimesXOf(Times(r, q))
    BY <2>1, ShiftTimes
  <2>5. Times(TimesXOf(p), q) = SymDiff(TimesXOf(Times(r, q)), Chain(q)[FieldBits])
    BY <2>1, <2>2, <2>4, TimesXorLeft, TapsTimes
  <2>6. Times(p, q) = SymDiff(Times(r, q), Chain(q)[FieldBits - 1])
    BY <2>1, <2>3, TimesXorLeft
  <2>7. Times(r, q) \in Polys /\ Chain(q)[FieldBits - 1] \in Polys
    BY <2>1, PartialStep, ChainStep, BitRange
  <2>8. TimesXOf(Chain(q)[FieldBits - 1]) = Chain(q)[FieldBits]
    BY ChainIs, FieldIs
  <2> QED BY <2>5, <2>6, <2>7, <2>8, TimesXXor
<1> QED BY <1>1, <1>2

\* X^n times the first factor is X^n times the product.
LEMMA TimesChainLeft ==
  ASSUME NEW p \in Polys, NEW q \in Polys
  PROVE  \A n \in 0 .. FieldBits : Times(Chain(p)[n], q) = Chain(Times(p, q))[n]
<1> DEFINE r == Times(p, q)
           Is(i) == Times(Chain(p)[i], q) = Chain(r)[i]
           S == {i \in 0 .. FieldBits : Is(i)}
<1>1. r \in Polys
  BY PartialStep
<1>2. Is(0)
  BY <1>1, ChainStep
<1>3. ASSUME NEW i \in 0 .. FieldBits - 1, Is(i)
      PROVE  Is(i + 1)
  <2>1. \A s \in Polys : Chain(s)[i + 1] = TimesXOf(Chain(s)[i]) /\ Chain(s)[i] \in Polys
    BY ChainStep, BitRange
  <2> HIDE DEF r
  <2> QED BY <1>1, <1>3, <2>1, TimesXLeft
<1> HIDE DEF Is
<1>4. \A n \in 0 .. FieldBits : n \in S
  <2>1. 0 \in S /\ \A i \in 0 .. FieldBits - 1 : i \in S => i + 1 \in S
    BY <1>2, <1>3, BitRange
  <2> HIDE DEF S
  <2> QED BY <2>1, InductBits
<1> QED BY <1>4 DEF Is

\* Multiplication in the field is associative.
LEMMA TimesOrder ==
  ASSUME NEW b \in Polys, NEW p \in Polys, NEW h \in Polys
  PROVE  Times(Times(b, p), h) = Times(b, Times(p, h))
<1> DEFINE r == Times(p, h)
           Is(i) == Times(Partial(b, p)[i], h) = Partial(b, r)[i]
           S == {i \in 0 .. FieldBits : Is(i)}
<1>1. r \in Polys
  BY PartialStep
<1>2. Is(0)
  <2>1. Partial(b, p)[0] = {} /\ Partial(b, r)[0] = {}
    BY <1>1, PartialStep
  <2> QED BY <2>1, TimesEmpty
<1>3. ASSUME NEW i \in 0 .. FieldBits - 1, Is(i)
      PROVE  Is(i + 1)
  <2> DEFINE c == Chain(p)[i]
             x == Partial(b, p)[i]
  <2>1. c \in Polys /\ x \in Polys
    BY PartialStep, ChainStep, BitRange
  <2>2. Times(c, h) = Chain(r)[i]
    BY TimesChainLeft, BitRange
  <2>3. Partial(b, p)[i + 1] = IF i \in b THEN SymDiff(x, c) ELSE x
    BY PartialStep
  <2> HIDE DEF r
  <2>4. Partial(b, r)[i + 1] = IF i \in b THEN SymDiff(Partial(b, r)[i], Chain(r)[i])
                                          ELSE Partial(b, r)[i]
    BY <1>1, PartialStep
  <2>5. Times(x, h) = Partial(b, r)[i]
    BY <1>3
  <2> HIDE DEF c, x
  <2>6. CASE i \in b
    BY <2>1, <2>2, <2>3, <2>4, <2>5, <2>6, TimesXorLeft
  <2>7. CASE ~ (i \in b)
    BY <2>3, <2>4, <2>5, <2>7
  <2> QED BY <2>6, <2>7
<1> HIDE DEF Is
<1>4. \A n \in 0 .. FieldBits : n \in S
  <2>1. 0 \in S /\ \A i \in 0 .. FieldBits - 1 : i \in S => i + 1 \in S
    BY <1>2, <1>3, BitRange
  <2> HIDE DEF S
  <2> QED BY <2>1, InductBits
<1>5. Is(FieldBits)
  BY <1>4, BitRange
<1> QED BY <1>5 DEF Is, Times

-----------------------------------------------------------------------------
(***************************************************************************)
(* Reduction from the top.                                                 *)
(***************************************************************************)
Wide == SUBSET (0 .. 2 * FieldBits)

\* The term of degree k comes back at the taps.
FoldBit(p, k) ==
  IF k \in p THEN SymDiff(p \ {k}, {k - FieldBits + t : t \in Taps}) ELSE p

LEMMA FoldType ==
  ASSUME NEW p \in Wide, NEW k \in FieldBits .. 2 * FieldBits
  PROVE  FoldBit(p, k) \in Wide
<1>1. \A t \in Taps : k - FieldBits + t \in 0 .. 2 * FieldBits
  BY FieldIs, PolysAre
<1>2. {k - FieldBits + t : t \in Taps} \in Wide
  BY <1>1 DEF Wide
<1>3. p \ {k} \in Wide
  BY DEF Wide
<1> QED BY <1>2, <1>3, XorType DEF FoldBit, Wide

IsFolding(p, g) ==
  /\ g \in [0 .. FieldBits + 1 -> Wide]
  /\ g[0] = p
  /\ \A m \in 0 .. FieldBits : g[m + 1] = FoldBit(g[m], 2 * FieldBits - m)

\* Folding one degree after the other, from the top down.
LEMMA FoldingExists ==
  ASSUME NEW p \in Wide
  PROVE  \E g : IsFolding(p, g)
<1> DEFINE N == FieldBits + 1
           Step == [t \in Wide \X (1 .. N) |-> FoldBit(t[1], 2 * FieldBits + 1 - t[2])]
<1>1. \A x \in Wide, n \in 1 .. N : FoldBit(x, 2 * FieldBits + 1 - n) \in Wide
  <2>1. \A n \in 1 .. N : 2 * FieldBits + 1 - n \in FieldBits .. 2 * FieldBits
    BY FieldIs
  <2> QED BY <2>1, FoldType
<1>2. IsStep(Step, N, Wide)
  BY <1>1 DEF IsStep
<1>3. \A x \in Wide, n \in 1 .. N : Step[<<x, n>>] = FoldBit(x, 2 * FieldBits + 1 - n)
  OBVIOUS
<1> HIDE DEF Step
<1>4. N \in Nat
  BY FieldIs
<1> HIDE DEF N
<1>5. PICK g : IsRun(g, N, Wide, p, Step)
  BY <1>2, <1>4, RunExists
<1>6. g \in [0 .. N -> Wide] /\ g[0] = p /\ \A n \in 1 .. N : g[n] = Step[<<g[n - 1], n>>]
  BY <1>5 DEF IsRun
<1>7. ASSUME NEW m \in 0 .. FieldBits
      PROVE  g[m + 1] = FoldBit(g[m], 2 * FieldBits - m)
  <2> DEFINE n == m + 1
  <2>1. n \in 1 .. N /\ n - 1 = m /\ 2 * FieldBits + 1 - n = 2 * FieldBits - m /\ m \in 0 .. N
    BY FieldIs DEF N
  <2> HIDE DEF n
  <2>2. g[m] \in Wide
    BY <1>6, <2>1
  <2>3. g[n] = FoldBit(g[m], 2 * FieldBits - m)
    BY <1>3, <1>6, <2>1, <2>2
  <2> QED BY <2>3 DEF n
<1> QED BY <1>6, <1>7 DEF IsFolding, N

\* The reduction is the last polynomial of a folding.
LEMMA ReductionIs ==
  ASSUME NEW p \in Wide, NEW g, IsFolding(p, g)
  PROVE  Reduction(p) = g[FieldBits + 1]
<1> DEFINE S == FieldBits - 1 .. 2 * FieldBits
           F(from) == [k \in S |->
                         IF k = 2 * FieldBits THEN p
                         ELSE LET prev == from[k + 1]
                              IN  IF k + 1 \in prev
                                    THEN SymDiff(prev \ {k + 1},
                                                 {k + 1 - FieldBits + t : t \in Taps})
                                    ELSE prev]
           C == CHOOSE from : from = F(from)
<1>1. Reduction(p) = C[FieldBits - 1]
  BY DEF Reduction
<1>2. \A from : F(from) = [k \in S |-> IF k = 2 * FieldBits THEN p
                                       ELSE FoldBit(from[k + 1], k + 1)]
  <2> SUFFICES ASSUME NEW from
               PROVE  F(from) = [k \in S |-> IF k = 2 * FieldBits THEN p
                                            ELSE FoldBit(from[k + 1], k + 1)]
    OBVIOUS
  <2> DEFINE Rest(k) == IF k + 1 \in from[k + 1]
                          THEN SymDiff(from[k + 1] \ {k + 1},
                                       {k + 1 - FieldBits + t : t \in Taps})
                          ELSE from[k + 1]
  <2>1. F(from) = [k \in S |-> IF k = 2 * FieldBits THEN p ELSE Rest(k)]
    OBVIOUS
  <2>2. ASSUME NEW k \in S PROVE Rest(k) = FoldBit(from[k + 1], k + 1)
    <3>1. \A t \in Taps : k + 1 - FieldBits + t = (k + 1) - FieldBits + t
      BY FieldIs, PolysAre
    <3>2. {k + 1 - FieldBits + t : t \in Taps} = {(k + 1) - FieldBits + t : t \in Taps}
      BY <3>1
    <3> QED BY <3>2 DEF FoldBit
  <2> HIDE DEF Rest
  <2> QED BY <2>1, <2>2
<1> HIDE DEF F
<1>3. C = F(C)
  <2> DEFINE f == [k \in S |-> g[2 * FieldBits - k]]
  <2>1. ASSUME NEW k \in S
        PROVE  f[k] = IF k = 2 * FieldBits THEN p ELSE FoldBit(f[k + 1], k + 1)
    <3>1. CASE k = 2 * FieldBits
      <4>1. f[k] = g[0]
        BY <3>1, FieldIs
      <4> QED BY <3>1, <4>1 DEF IsFolding
    <3>2. CASE k # 2 * FieldBits
      <4> DEFINE m == 2 * FieldBits - (k + 1)
      <4>1. /\ k + 1 \in S /\ m \in 0 .. FieldBits /\ 2 * FieldBits - k = m + 1
            /\ 2 * FieldBits - m = k + 1
        BY <3>2, FieldIs
      <4>2. f[k] = g[m + 1] /\ f[k + 1] = g[m]
        <5>1. f[k] = g[2 * FieldBits - k] /\ f[k + 1] = g[2 * FieldBits - (k + 1)]
          BY <4>1
        <5> QED BY <4>1, <5>1
      <4> HIDE DEF f, m
      <4>3. g[m + 1] = FoldBit(g[m], 2 * FieldBits - m)
        BY <4>1 DEF IsFolding
      <4> QED BY <3>2, <4>1, <4>2, <4>3
    <3> QED BY <3>1, <3>2
  <2>2. f = [k \in S |-> f[k]]
    OBVIOUS
  <2> HIDE DEF f
  <2>3. f = F(f)
    BY <1>2, <2>1, <2>2
  <2> QED BY <2>3
<1>4. \A k \in S : C[k] = IF k = 2 * FieldBits THEN p ELSE FoldBit(C[k + 1], k + 1)
  BY <1>2, <1>3
<1> HIDE DEF C
<1> DEFINE Is(m) == C[2 * FieldBits - m] = g[m]
           T == {m \in 0 .. FieldBits + 1 : Is(m)}
<1>5. Is(0)
  <2>1. 2 * FieldBits - 0 = 2 * FieldBits /\ 2 * FieldBits \in S
    BY FieldIs
  <2> QED BY <1>4, <2>1 DEF IsFolding
<1>6. ASSUME NEW m \in 0 .. (FieldBits + 1) - 1, Is(m)
      PROVE  Is(m + 1)
  <2> DEFINE k == 2 * FieldBits - (m + 1)
  <2>1. k \in S /\ k # 2 * FieldBits /\ k + 1 = 2 * FieldBits - m /\ m \in 0 .. FieldBits
    BY FieldIs
  <2> HIDE DEF k
  <2>2. C[k] = FoldBit(C[k + 1], k + 1)
    BY <1>4, <2>1
  <2>3. C[k] = g[m + 1]
    BY <1>6, <2>1, <2>2 DEF IsFolding
  <2> QED BY <2>3 DEF k
<1> HIDE DEF Is
<1>7. Is(FieldBits + 1)
  <2>1. 0 \in T /\ \A m \in 0 .. (FieldBits + 1) - 1 : m \in T => m + 1 \in T
    BY <1>5, <1>6, FieldIs
  <2>2. FieldBits + 1 \in Nat /\ FieldBits + 1 \in 0 .. FieldBits + 1
    BY FieldIs
  <2> HIDE DEF T
  <2>3. \A m \in 0 .. FieldBits + 1 : m \in T
    BY <2>1, <2>2, InductTo
  <2> QED BY <2>2, <2>3 DEF T
<1>8. 2 * FieldBits - (FieldBits + 1) = FieldBits - 1
  BY FieldIs
<1> QED BY <1>1, <1>7, <1>8 DEF Is

LEMMA WideAre ==
  /\ \A p \in Wide : p \in SUBSET Int
  /\ \A p \in Polys : p \in Wide
  /\ \A p, q \in Wide : SymDiff(p, q) \in Wide
<1>1. \A p \in Wide : p \in SUBSET Int
  BY DEF Wide
<1>2. \A p \in Polys : p \in Wide
  BY FieldIs DEF Wide, Polys, Bits128
<1>3. \A p, q \in Wide : SymDiff(p, q) \in Wide
  BY XorType DEF Wide
<1> QED BY <1>1, <1>2, <1>3

\* Folding is linear,
LEMMA FoldXor ==
  ASSUME NEW p \in Wide, NEW q \in Wide, NEW k
  PROVE  FoldBit(SymDiff(p, q), k) = SymDiff(FoldBit(p, k), FoldBit(q, k))
<1> DEFINE taps == {k - FieldBits + t : t \in Taps}
<1>1. FoldBit(SymDiff(p, q), k) = IF k \in SymDiff(p, q)
                                    THEN SymDiff(SymDiff(p, q) \ {k}, taps)
                                    ELSE SymDiff(p, q)
  BY DEF FoldBit
<1>2. /\ FoldBit(p, k) = IF k \in p THEN SymDiff(p \ {k}, taps) ELSE p
      /\ FoldBit(q, k) = IF k \in q THEN SymDiff(q \ {k}, taps) ELSE q
  BY DEF FoldBit
<1>3. k \in SymDiff(p, q) <=> ((k \in p) # (k \in q))
  BY XorBit
<1> HIDE DEF taps
<1>4. CASE k \in p /\ k \in q
  <2>1. SymDiff(SymDiff(p \ {k}, taps), SymDiff(q \ {k}, taps)) = SymDiff(p, q)
    BY <1>4 DEF SymDiff
  <2> QED BY <1>1, <1>2, <1>3, <1>4, <2>1
<1>5. CASE k \in p /\ ~ (k \in q)
  <2>1. SymDiff(SymDiff(p \ {k}, taps), q) = SymDiff(SymDiff(p, q) \ {k}, taps)
    BY <1>5 DEF SymDiff
  <2> QED BY <1>1, <1>2, <1>3, <1>5, <2>1
<1>6. CASE ~ (k \in p) /\ k \in q
  <2>1. SymDiff(p, SymDiff(q \ {k}, taps)) = SymDiff(SymDiff(p, q) \ {k}, taps)
    BY <1>6 DEF SymDiff
  <2> QED BY <1>1, <1>2, <1>3, <1>6, <2>1
<1>7. CASE ~ (k \in p) /\ ~ (k \in q)
  BY <1>1, <1>2, <1>3, <1>7
<1> QED BY <1>4, <1>5, <1>6, <1>7

\* and so is the reduction.
LEMMA ReductionXor ==
  ASSUME NEW p \in Wide, NEW q \in Wide
  PROVE  Reduction(SymDiff(p, q)) = SymDiff(Reduction(p), Reduction(q))
<1> DEFINE r == SymDiff(p, q)
<1>1. r \in Wide
  BY WideAre
<1>2. r = SymDiff(p, q)
  OBVIOUS
<1> HIDE DEF r
<1>3. PICK f : IsFolding(p, f)
  BY FoldingExists
<1>4. PICK g : IsFolding(q, g)
  BY FoldingExists
<1>5. PICK h : IsFolding(r, h)
  BY <1>1, FoldingExists
<1> DEFINE Is(m) == h[m] = SymDiff(f[m], g[m])
           T == {m \in 0 .. FieldBits + 1 : Is(m)}
<1>6. Is(0)
  BY <1>2, <1>3, <1>4, <1>5 DEF IsFolding
<1>7. ASSUME NEW m \in 0 .. (FieldBits + 1) - 1, Is(m)
      PROVE  Is(m + 1)
  <2> DEFINE k == 2 * FieldBits - m
  <2>1. m \in 0 .. FieldBits /\ m \in 0 .. FieldBits + 1
    BY FieldIs
  <2>2. f[m] \in Wide /\ g[m] \in Wide
    BY <1>3, <1>4, <2>1 DEF IsFolding
  <2>3. f[m + 1] = FoldBit(f[m], k) /\ g[m + 1] = FoldBit(g[m], k) /\ h[m + 1] = FoldBit(h[m], k)
    BY <1>3, <1>4, <1>5, <2>1 DEF IsFolding
  <2> HIDE DEF k
  <2> QED BY <1>7, <2>2, <2>3, FoldXor
<1> HIDE DEF Is
<1>8. Is(FieldBits + 1)
  <2>1. 0 \in T /\ \A m \in 0 .. (FieldBits + 1) - 1 : m \in T => m + 1 \in T
    BY <1>6, <1>7, FieldIs
  <2>2. FieldBits + 1 \in Nat /\ FieldBits + 1 \in 0 .. FieldBits + 1
    BY FieldIs
  <2> HIDE DEF T
  <2>3. \A m \in 0 .. FieldBits + 1 : m \in T
    BY <2>1, <2>2, InductTo
  <2> QED BY <2>2, <2>3 DEF T
<1>9. Reduction(p) = f[FieldBits + 1] /\ Reduction(q) = g[FieldBits + 1]
  BY <1>3, <1>4, ReductionIs
<1>10. Reduction(r) = h[FieldBits + 1]
  BY <1>1, <1>5, ReductionIs
<1> QED BY <1>2, <1>8, <1>9, <1>10 DEF Is

\* Nothing above the degree that was folded last is left.
LEMMA FoldingLow ==
  ASSUME NEW p \in Wide, NEW g, IsFolding(p, g)
  PROVE  /\ \A m \in 0 .. FieldBits + 1 : g[m] \in SUBSET (0 .. 2 * FieldBits - m)
         /\ g[FieldBits + 1] \in Polys
<1> DEFINE Is(m) == g[m] \in SUBSET (0 .. 2 * FieldBits - m)
           T == {m \in 0 .. FieldBits + 1 : Is(m)}
<1>1. Is(0)
  BY FieldIs DEF IsFolding, Wide
<1>2. ASSUME NEW m \in 0 .. (FieldBits + 1) - 1, Is(m)
      PROVE  Is(m + 1)
  <2> DEFINE k == 2 * FieldBits - m
             taps == {k - FieldBits + t : t \in Taps}
             low == 0 .. 2 * FieldBits - (m + 1)
  <2>1. m \in 0 .. FieldBits /\ k \in Int /\ k >= FieldBits /\ 2 * FieldBits - (m + 1) = k - 1
    BY FieldIs
  <2>2. g[m + 1] = FoldBit(g[m], k)
    BY <2>1 DEF IsFolding
  <2>3. \A t \in Taps : k - FieldBits + t \in low
    BY <2>1, FieldIs, PolysAre
  <2>4. taps \in SUBSET low
    BY <2>3
  <2>5. \A i \in g[m] : i \in 0 .. k
    BY <1>2
  <2>6. g[m] \ {k} \in SUBSET low
    BY <2>1, <2>5
  <2>7. ~ (k \in g[m]) => g[m] \in SUBSET low
    BY <2>6
  <2> HIDE DEF low
  <2>8. SymDiff(g[m] \ {k}, taps) \in SUBSET low
    BY <2>4, <2>6, XorType
  <2>9. FoldBit(g[m], k) \in SUBSET low
    BY <2>7, <2>8 DEF FoldBit
  <2> QED BY <2>2, <2>9 DEF low
<1> HIDE DEF Is
<1>3. \A m \in 0 .. FieldBits + 1 : m \in T
  <2>1. 0 \in T /\ \A m \in 0 .. (FieldBits + 1) - 1 : m \in T => m + 1 \in T
    BY <1>1, <1>2, FieldIs
  <2>2. FieldBits + 1 \in Nat
    BY FieldIs
  <2> HIDE DEF T
  <2> QED BY <2>1, <2>2, InductTo
<1>4. \A m \in 0 .. FieldBits + 1 : Is(m)
  BY <1>3
<1>5. FieldBits + 1 \in 0 .. FieldBits + 1 /\ 2 * FieldBits - (FieldBits + 1) = FieldBits - 1
  BY FieldIs
<1>6. Is(FieldBits + 1)
  BY <1>4, <1>5
<1> QED BY <1>4, <1>5, <1>6 DEF Is, Polys, Bits128

LEMMA ReductionType ==
  ASSUME NEW p \in Wide
  PROVE  Reduction(p) \in Polys
<1>1. PICK g : IsFolding(p, g)
  BY FoldingExists
<1> QED BY <1>1, FoldingLow, ReductionIs

\* A polynomial of the field is its own reduction.
LEMMA ReductionSmall ==
  ASSUME NEW p \in Polys
  PROVE  Reduction(p) = p
<1>0. p \in Wide
  BY WideAre
<1>1. PICK g : IsFolding(p, g)
  BY <1>0, FoldingExists
<1> DEFINE T == {m \in 0 .. FieldBits + 1 : g[m] = p}
<1>2. 0 \in T
  BY <1>1, FieldIs DEF IsFolding
<1>3. ASSUME NEW m \in 0 .. (FieldBits + 1) - 1, m \in T
      PROVE  m + 1 \in T
  <2>1. m \in 0 .. FieldBits /\ m + 1 \in 0 .. FieldBits + 1
    BY FieldIs
  <2>2. g[m + 1] = FoldBit(p, 2 * FieldBits - m)
    BY <1>1, <1>3, <2>1 DEF IsFolding
  <2>3. ~ (2 * FieldBits - m \in p)
    BY <2>1, FieldIs, PolysAre
  <2> QED BY <2>1, <2>2, <2>3 DEF FoldBit
<1>4. FieldBits + 1 \in Nat /\ FieldBits + 1 \in 0 .. FieldBits + 1
  BY FieldIs
<1> HIDE DEF T
<1>5. FieldBits + 1 \in T
  BY <1>2, <1>3, <1>4, InductTo
<1> QED BY <1>0, <1>1, <1>5, ReductionIs DEF T

LEMMA ShiftMinus ==
  ASSUME NEW p \in SUBSET Int, NEW k \in Int
  PROVE  Shift(p \ {k}) = Shift(p) \ {k + 1}
<1> DEFINE r == p \ {k}
<1>1. \A n \in Int : (n \in Shift(r) <=> n - 1 \in r) /\ (n \in Shift(p) <=> n - 1 \in p)
  BY ShiftBit
<1>2. Shift(r) \in SUBSET Int /\ Shift(p) \in SUBSET Int
  BY ShiftInt
<1>3. \A n \in Int : n \in Shift(r) <=> n \in Shift(p) /\ n # k + 1
  BY <1>1
<1> HIDE DEF r
<1>4. Shift(r) = Shift(p) \ {k + 1}
  BY <1>2, <1>3
<1> QED BY <1>4 DEF r

\* Folding a degree higher is the same, a degree higher.
LEMMA FoldShift ==
  ASSUME NEW p \in Wide, NEW k \in FieldBits .. 2 * FieldBits
  PROVE  FoldBit(Shift(p), k + 1) = Shift(FoldBit(p, k))
<1> DEFINE taps == {k - FieldBits + t : t \in Taps}
           above == {(k + 1) - FieldBits + t : t \in Taps}
<1>0. p \in SUBSET Int /\ k \in Int /\ k + 1 \in Int /\ FieldBits \in Int /\ \A t \in Taps : t \in Int
  BY WideAre, FieldIs, PolysAre
<1>1. k + 1 \in Shift(p) <=> k \in p
  <2>1. (k + 1) - 1 = k
    BY <1>0
  <2> QED BY <1>0, <2>1, ShiftBit
<1>2. Shift(taps) = above
  <2>1. taps \in SUBSET Int /\ above \in SUBSET Int
    BY <1>0
  <2>2. \A t \in Taps : (k + 1) - FieldBits + t = (k - FieldBits + t) + 1
    BY <1>0
  <2>3. \A n : n \in above <=> \E t \in Taps : n = (k - FieldBits + t) + 1
    BY <2>2
  <2>4. \A n : n \in Shift(taps) <=> \E t \in Taps : n = (k - FieldBits + t) + 1
    BY DEF Shift
  <2> HIDE DEF taps, above
  <2> QED BY <2>3, <2>4
<1>3. taps \in SUBSET Int /\ p \ {k} \in SUBSET Int
  BY <1>0
<1>4. FoldBit(p, k) = IF k \in p THEN SymDiff(p \ {k}, taps) ELSE p
  BY DEF FoldBit
<1>5. FoldBit(Shift(p), k + 1) = IF k + 1 \in Shift(p)
                                   THEN SymDiff(Shift(p) \ {k + 1}, above)
                                   ELSE Shift(p)
  BY DEF FoldBit
<1> HIDE DEF taps, above
<1>6. Shift(SymDiff(p \ {k}, taps)) = SymDiff(Shift(p) \ {k + 1}, above)
  BY <1>0, <1>2, <1>3, ShiftXor, ShiftMinus
<1> QED BY <1>1, <1>4, <1>5, <1>6

\* X times a polynomial reduces to X times its reduction,
LEMMA ReductionShift ==
  ASSUME NEW p \in SUBSET (0 .. 2 * FieldBits - 1)
  PROVE  /\ p \in Wide /\ Shift(p) \in Wide
         /\ Reduction(Shift(p)) = TimesXOf(Reduction(p))
<1> DEFINE s == Shift(p)
<1>0. p \in Wide /\ s \in Wide
  <2>1. \A i \in p : i \in 0 .. 2 * FieldBits /\ i + 1 \in 0 .. 2 * FieldBits
    BY FieldIs
  <2> QED BY <2>1 DEF Wide, Shift
<1>1. PICK g : IsFolding(p, g)
  BY <1>0, FoldingExists
<1>2. PICK h : IsFolding(s, h)
  BY <1>0, FoldingExists
<1> DEFINE Is(m) == h[m] = Shift(g[m + 1])
           T == {m \in 0 .. FieldBits : Is(m)}
<1>3. Is(0)
  <2>1. ~ (2 * FieldBits \in p) /\ 2 * FieldBits - 0 = 2 * FieldBits
    BY FieldIs
  <2>2. g[0 + 1] = FoldBit(g[0], 2 * FieldBits - 0)
    BY <1>1, BitRange DEF IsFolding
  <2>3. g[0 + 1] = p
    BY <1>1, <2>1, <2>2 DEF IsFolding, FoldBit
  <2> QED BY <1>2, <2>3 DEF IsFolding
<1>4. ASSUME NEW m \in 0 .. FieldBits - 1, Is(m)
      PROVE  Is(m + 1)
  <2> DEFINE k == 2 * FieldBits - (m + 1)
             x == g[m + 1]
  <2>1. /\ m \in 0 .. FieldBits /\ m + 1 \in 0 .. FieldBits /\ m + 1 \in 0 .. FieldBits + 1
        /\ k \in FieldBits .. 2 * FieldBits /\ 2 * FieldBits - m = k + 1
    BY FieldIs
  <2>2. g[(m + 1) + 1] = FoldBit(g[m + 1], 2 * FieldBits - (m + 1))
    BY <1>1, <2>1 DEF IsFolding
  <2>3. h[m + 1] = FoldBit(h[m], 2 * FieldBits - m)
    BY <1>2, <2>1 DEF IsFolding
  <2>4. x \in Wide
    BY <1>1, <2>1 DEF IsFolding
  <2>5. g[(m + 1) + 1] = FoldBit(x, k) /\ h[m + 1] = FoldBit(Shift(x), k + 1)
    BY <1>4, <2>1, <2>2, <2>3
  <2> HIDE DEF k, x
  <2> QED BY <2>1, <2>4, <2>5, FoldShift
<1> HIDE DEF Is
<1>5. Is(FieldBits)
  <2>1. 0 \in T /\ \A m \in 0 .. FieldBits - 1 : m \in T => m + 1 \in T
    BY <1>3, <1>4, BitRange
  <2> HIDE DEF T
  <2>2. \A m \in 0 .. FieldBits : m \in T
    BY <2>1, InductBits
  <2> QED BY <2>2, BitRange DEF T
<1> DEFINE r == g[FieldBits + 1]
<1>6. r \in Polys
  BY <1>0, <1>1, FoldingLow
<1>7. h[FieldBits + 1] = FoldBit(Shift(r), FieldBits)
  <2>1. 2 * FieldBits - FieldBits = FieldBits
    BY FieldIs
  <2> QED BY <1>2, <1>5, <2>1, BitRange DEF IsFolding, Is
<1>8. Reduction(p) = r /\ Reduction(s) = h[FieldBits + 1]
  BY <1>0, <1>1, <1>2, ReductionIs
<1> HIDE DEF r
<1>9. FoldBit(Shift(r), FieldBits) = TimesXOf(r)
  <2> DEFINE taps == {FieldBits - FieldBits + t : t \in Taps}
  <2>1. taps = Taps
    <3>1. \A t \in Taps : FieldBits - FieldBits + t = t
      BY FieldIs, PolysAre
    <3> QED BY <3>1
  <2>2. r \in SUBSET Int /\ FieldBits \in Int /\ (FieldBits - 1) + 1 = FieldBits
    BY <1>6, PolysAre, FieldIs
  <2>3. FieldBits \in Shift(r) <=> FieldBits - 1 \in r
    BY <2>2, ShiftBit
  <2>4. Shift(r \ {FieldBits - 1}) = Shift(r) \ {FieldBits}
    BY <2>2, ShiftMinus
  <2>5. FoldBit(Shift(r), FieldBits) = IF FieldBits \in Shift(r)
                                         THEN SymDiff(Shift(r) \ {FieldBits}, taps)
                                         ELSE Shift(r)
    BY DEF FoldBit
  <2> HIDE DEF taps
  <2>6. CASE FieldBits - 1 \in r
    BY <2>1, <2>3, <2>4, <2>5, <2>6 DEF TimesXOf
  <2>7. CASE ~ (FieldBits - 1 \in r)
    <3>1. r \ {FieldBits - 1} = r
      BY <2>7
    <3> QED BY <2>3, <2>5, <2>7, <3>1, XorEmpty DEF TimesXOf
  <2> QED BY <2>6, <2>7
<1> QED BY <1>0, <1>7, <1>8, <1>9

-----------------------------------------------------------------------------
(***************************************************************************)
(* The product of the standard, reduced, is the product bit by bit.        *)
(***************************************************************************)
ShiftBy(q, n) == {i + n : i \in q}

\* and so does every power of X.
LEMMA ReductionShiftBy ==
  ASSUME NEW q \in Polys
  PROVE  \A n \in 0 .. FieldBits :
           ShiftBy(q, n) \in Wide /\ Reduction(ShiftBy(q, n)) = Chain(q)[n]
<1> DEFINE Is(n) == Reduction(ShiftBy(q, n)) = Chain(q)[n]
           T == {n \in 0 .. FieldBits : Is(n)}
<1>0. \A j \in q : j \in 0 .. FieldBits - 1
  BY PolysAre
<1>1. ASSUME NEW n \in 0 .. FieldBits
      PROVE  ShiftBy(q, n) \in SUBSET (0 .. 2 * FieldBits - 1)
  <2>1. \A j \in q : j + n \in 0 .. 2 * FieldBits - 1
    BY <1>0, FieldIs
  <2> QED BY <2>1 DEF ShiftBy
<1>2. Is(0)
  <2>1. \A j \in q : j + 0 = j
    BY <1>0, FieldIs
  <2>2. ShiftBy(q, 0) = q
    BY <2>1 DEF ShiftBy
  <2> QED BY <2>2, ReductionSmall, ChainStep
<1>3. ASSUME NEW n \in 0 .. FieldBits - 1, Is(n)
      PROVE  Is(n + 1)
  <2>1. \A j \in q : j + (n + 1) = (j + n) + 1
    BY <1>0, FieldIs
  <2>2. ShiftBy(q, n + 1) = {(j + n) + 1 : j \in q}
    BY <2>1 DEF ShiftBy
  <2>3. Shift(ShiftBy(q, n)) = {(j + n) + 1 : j \in q}
    BY DEF Shift, ShiftBy
  <2>4. ShiftBy(q, n + 1) = Shift(ShiftBy(q, n))
    BY <2>2, <2>3
  <2>5. Reduction(ShiftBy(q, n + 1)) = TimesXOf(Reduction(ShiftBy(q, n)))
    BY <1>1, <2>4, BitRange, ReductionShift
  <2> QED BY <1>3, <2>5, ChainStep
<1>4. \A n \in 0 .. FieldBits : n \in T
  <2> HIDE DEF Is
  <2>1. 0 \in T /\ \A i \in 0 .. FieldBits - 1 : i \in T => i + 1 \in T
    BY <1>2, <1>3, BitRange
  <2> HIDE DEF T
  <2> QED BY <2>1, InductBits
<1>5. \A n \in 0 .. FieldBits : ShiftBy(q, n) \in Wide
  BY <1>1, ReductionShift
<1> QED BY <1>4, <1>5

LEMMA ProductType ==
  ASSUME NEW p, NEW q
  PROVE  Product(p, q) \in Wide
BY DEF Product, Wide

\* One more term of the first factor.
LEMMA ProductStep ==
  ASSUME NEW p \in Polys, NEW q \in Polys, NEW i \in 0 .. FieldBits - 1, ~ (i \in p)
  PROVE  Product(p \cup {i}, q) = SymDiff(Product(p, q), ShiftBy(q, i))
<1> DEFINE A(k) == {j \in p : k - j \in q}
           B(k) == {j \in p \cup {i} : k - j \in q}
           l == Product(p \cup {i}, q)
           r == SymDiff(Product(p, q), ShiftBy(q, i))
<1>1. ASSUME NEW k \in 0 .. 2 * FieldBits
      PROVE  k \in l <=> k \in r
  <2>1. IsFiniteSet(p)
    <3>1. IsFiniteSet(0 .. FieldBits - 1)
      BY FieldIs, FS_Interval
    <3> QED BY <3>1, FS_Subset DEF Polys, Bits128
  <2>2. IsFiniteSet(A(k)) /\ Cardinality(A(k)) \in Nat
    BY <2>1, FS_Subset, FS_CardinalityType
  <2>3. k - i \in q => B(k) = A(k) \cup {i} /\ Cardinality(B(k)) = Cardinality(A(k)) + 1
    <3> SUFFICES ASSUME k - i \in q
                 PROVE  B(k) = A(k) \cup {i} /\ Cardinality(B(k)) = Cardinality(A(k)) + 1
      OBVIOUS
    <3>1. B(k) = A(k) \cup {i} /\ ~ (i \in A(k))
      OBVIOUS
    <3> HIDE DEF A, B
    <3> QED BY <2>2, <3>1, FS_AddElement
  <2>4. ~ (k - i \in q) => B(k) = A(k)
    OBVIOUS
  <2>5. (k \in l <=> Cardinality(B(k)) % 2 = 1) /\ (k \in Product(p, q) <=> Cardinality(A(k)) % 2 = 1)
    BY DEF Product
  <2>6. k \in ShiftBy(q, i) <=> k - i \in q
    <3>1. k \in ShiftBy(q, i) => k - i \in q
      <4> SUFFICES ASSUME NEW j \in q, k = j + i PROVE k - i \in q
        BY DEF ShiftBy
      <4>1. k - i = j
        BY PolysAre, FieldIs
      <4> QED BY <4>1
    <3>2. k - i \in q => k \in ShiftBy(q, i)
      <4>1. k = (k - i) + i
        BY FieldIs
      <4> QED BY <4>1 DEF ShiftBy
    <3> QED BY <3>1, <3>2
  <2>7. k \in r <=> ((k \in Product(p, q)) # (k \in ShiftBy(q, i)))
    BY XorBit
  <2> DEFINE a == Cardinality(A(k))
             b == Cardinality(B(k))
  <2>8. a \in Nat /\ (k - i \in q => b = a + 1) /\ (~ (k - i \in q) => b = a)
    BY <2>2, <2>3, <2>4
  <2> HIDE DEF a, b
  <2>9. k - i \in q => (b % 2 = 1 <=> ~ (a % 2 = 1))
    BY <2>8
  <2>10. ~ (k - i \in q) => (b % 2 = 1 <=> a % 2 = 1)
    BY <2>8
  <2>11. (k \in l <=> b % 2 = 1) /\ (k \in Product(p, q) <=> a % 2 = 1)
    BY <2>5 DEF a, b
  <2> HIDE DEF l, r
  <2> QED BY <2>6, <2>7, <2>9, <2>10, <2>11
<1>2. l \in Wide /\ r \in Wide
  <2>1. ShiftBy(q, i) \in Wide
    BY ReductionShiftBy, BitRange
  <2> QED BY <2>1, ProductType, WideAre
<1> HIDE DEF l, r
<1>3. l = r
  BY <1>1, <1>2 DEF Wide
<1> QED BY <1>3 DEF l, r

\* The carry-less product, reduced, is the product term by term.
LEMMA ProductTimes ==
  ASSUME NEW p \in Polys, NEW q \in Polys
  PROVE  Reduction(Product(p, q)) = Times(p, q)
<1> DEFINE Low(i) == {j \in p : j < i}
           Is(i) == Reduction(Product(Low(i), q)) = Partial(p, q)[i]
           T == {i \in 0 .. FieldBits : Is(i)}
<1>0. \A j \in p : j \in 0 .. FieldBits - 1
  BY PolysAre
<1>1. Is(0)
  <2>1. Low(0) = {}
    BY <1>0
  <2>2. Product({}, q) = {}
    <3>1. \A k : {i \in {} : k - i \in q} = {}
      OBVIOUS
    <3>2. Cardinality({}) = 0
      BY FS_EmptySet
    <3> QED BY <3>1, <3>2 DEF Product
  <2>3. Reduction({}) = {}
    BY FieldIs, ReductionSmall
  <2> QED BY <2>1, <2>2, <2>3, PartialStep
<1>2. ASSUME NEW i \in 0 .. FieldBits - 1, Is(i)
      PROVE  Is(i + 1)
  <2>1. CASE i \in p
    <3>1. Low(i + 1) = Low(i) \cup {i} /\ ~ (i \in Low(i)) /\ Low(i) \in Polys
      <4>1. \A j \in p : j < i + 1 <=> j < i \/ j = i
        BY <1>0, FieldIs
      <4>2. ~ (i < i)
        BY FieldIs
      <4> QED BY <2>1, <4>1, <4>2 DEF Polys
    <3> HIDE DEF Low
    <3>2. Product(Low(i + 1), q) = SymDiff(Product(Low(i), q), ShiftBy(q, i))
      BY <3>1, ProductStep
    <3>3. ShiftBy(q, i) \in Wide /\ Reduction(ShiftBy(q, i)) = Chain(q)[i]
      BY ReductionShiftBy, BitRange
    <3>4. Reduction(Product(Low(i + 1), q)) = SymDiff(Partial(p, q)[i], Chain(q)[i])
      BY <1>2, <3>2, <3>3, ProductType, ReductionXor
    <3> QED BY <2>1, <3>4, PartialStep
  <2>2. CASE ~ (i \in p)
    <3>1. Low(i + 1) = Low(i)
      BY <1>0, <2>2
    <3> HIDE DEF Low
    <3> QED BY <1>2, <2>2, <3>1, PartialStep
  <2> QED BY <2>1, <2>2
<1> HIDE DEF Is
<1>3. Is(FieldBits)
  <2>1. 0 \in T /\ \A i \in 0 .. FieldBits - 1 : i \in T => i + 1 \in T
    BY <1>1, <1>2, BitRange
  <2> HIDE DEF T
  <2>2. \A i \in 0 .. FieldBits : i \in T
    BY <2>1, InductBits
  <2> QED BY <2>2, BitRange DEF T
<1>4. Low(FieldBits) = p
  BY <1>0, FieldIs
<1> QED BY <1>3, <1>4 DEF Is, Times

-----------------------------------------------------------------------------
(***************************************************************************)
(* Blocks and polynomials.                                                 *)
(***************************************************************************)
LEMMA ElementIs ==
  ASSUME NEW e \in Elements
  PROVE  /\ Element(Poly(e)) = e
         /\ \A i \in Bits128 : e[i] = 0 \/ e[i] = 1
<1>1. e \in [Bits128 -> 0 .. 1]
  BY DEF Elements
<1>2. \A i \in Bits128 : e[i] = 0 \/ e[i] = 1
  BY <1>1
<1>3. \A i \in Bits128 : e[i] = IF i \in Poly(e) THEN 1 ELSE 0
  BY <1>2 DEF Poly
<1> QED BY <1>1, <1>2, <1>3 DEF Element

LEMMA PolyType ==
  ASSUME NEW e
  PROVE  Poly(e) \in Polys
BY DEF Poly, Polys

LEMMA PolyOfZero == Zero128 \in Elements /\ Poly(Zero128) = {}
BY DEF Zero128, Elements, Poly

\* xor_blocks adds polynomials,
LEMMA PolyOfXor ==
  ASSUME NEW x \in Elements, NEW y \in Elements
  PROVE  /\ xor_blocks(x, y) \in Elements
         /\ Poly(xor_blocks(x, y)) = SymDiff(Poly(x), Poly(y))
<1> DEFINE z == xor_blocks(x, y)
           r == SymDiff(Poly(x), Poly(y))
<1>1. \A i \in Bits128 : (x[i] = 0 \/ x[i] = 1) /\ (y[i] = 0 \/ y[i] = 1) /\ z[i] = (x[i] + y[i]) % 2
  BY ElementIs DEF xor_blocks
<1>2. \A i \in Bits128 : z[i] \in 0 .. 1 /\ (z[i] = 1 <=> (x[i] = 1) # (y[i] = 1))
  BY <1>1
<1>3. z \in Elements
  BY <1>2 DEF Elements, xor_blocks
<1>4. r \in SUBSET Bits128 /\ Poly(z) \in SUBSET Bits128
  BY XorType DEF Poly
<1>5. \A i \in Bits128 : i \in Poly(z) <=> i \in r
  <2>1. \A i \in Bits128 : (i \in Poly(x) <=> x[i] = 1) /\ (i \in Poly(y) <=> y[i] = 1)
                            /\ (i \in Poly(z) <=> z[i] = 1)
    BY DEF Poly
  <2>2. \A i \in Bits128 : i \in r <=> ((i \in Poly(x)) # (i \in Poly(y)))
    BY XorBit
  <2> HIDE DEF z, r
  <2> QED BY <1>2, <2>1, <2>2
<1> HIDE DEF z, r
<1>6. Poly(z) = r
  BY <1>4, <1>5
<1> QED BY <1>3, <1>6 DEF z, r

\* and a shift with the taps coming back multiplies by X.
LEMMA PolyOfTimesX ==
  ASSUME NEW v \in Elements
  PROVE  TimesX(v) \in Elements /\ Poly(TimesX(v)) = TimesXOf(Poly(v))
<1> DEFINE z == TimesX(v)
           r == TimesXOf(Poly(v))
           low(i) == IF i = 0 THEN 0 ELSE v[i - 1]
           back(i) == IF i \in Taps THEN v[FieldBits - 1] ELSE 0
<1>1. \A i \in Bits128 : z[i] = (low(i) + back(i)) % 2
  BY DEF TimesX
<1>2. \A i \in Bits128 : low(i) = 0 \/ low(i) = 1
  <2>1. \A i \in Bits128 : i # 0 => i - 1 \in Bits128
    BY FieldIs DEF Bits128
  <2> QED BY <2>1, ElementIs
<1>3. \A i \in Bits128 : back(i) = 0 \/ back(i) = 1
  <2>1. FieldBits - 1 \in Bits128
    BY FieldIs DEF Bits128
  <2> QED BY <2>1, ElementIs
<1>4. \A i \in Bits128 : (low(i) = 1 <=> i \in 1 .. FieldBits - 1 /\ i - 1 \in Poly(v))
  BY FieldIs DEF Poly, Bits128
<1>5. \A i \in Bits128 : (back(i) = 1 <=> FieldBits - 1 \in Poly(v) /\ i \in Taps)
  BY FieldIs DEF Poly, Bits128
<1> HIDE DEF low, back
<1>6. \A i \in Bits128 : z[i] \in 0 .. 1 /\ (z[i] = 1 <=> (low(i) = 1) # (back(i) = 1))
  <2> HIDE DEF z
  <2> QED BY <1>1, <1>2, <1>3
<1>7. z \in Elements
  BY <1>6 DEF Elements, TimesX
<1>8. r \in Polys /\ Poly(z) \in Polys
  BY PolyType, TimesXType
<1>9. \A i \in Bits128 : i \in Poly(z) <=> i \in r
  <2>1. \A i \in Bits128 : i \in Poly(z) <=> z[i] = 1
    BY DEF Poly
  <2>2. \A i \in Bits128 : i \in r <=> (i \in 1 .. FieldBits - 1 /\ i - 1 \in Poly(v))
                                         # (FieldBits - 1 \in Poly(v) /\ i \in Taps)
    BY PolyType, TimesXBit, FieldIs DEF Bits128
  <2> HIDE DEF z, r
  <2> QED BY <1>4, <1>5, <1>6, <2>1, <2>2
<1> HIDE DEF z, r
<1>10. Poly(z) = r
  BY <1>8, <1>9 DEF Polys
<1> QED BY <1>7, <1>10 DEF z, r

\* The multiplication of the code is the field's.
LEMMA MulIsTimes ==
  ASSUME NEW x \in Elements, NEW y \in Elements
  PROVE  /\ GF_mul_blocks(x, y) \in Elements
         /\ Poly(GF_mul_blocks(x, y)) = Times(Poly(x), Poly(y))
<1> DEFINE State == [z : Elements, v : Elements]
           Round(prev, n) == [z |-> IF x[n - 1] = 1 THEN xor_blocks(prev.z, prev.v) ELSE prev.z,
                              v |-> TimesX(prev.v)]
           first == [z |-> Zero128, v |-> y]
           F(after) == [n \in 0 .. FieldBits |->
                          IF n = 0 THEN first ELSE Round(after[n - 1], n)]
           C == CHOOSE after : after = F(after)
<1>1. GF_mul_blocks(x, y) = C[FieldBits].z
  BY DEF GF_mul_blocks
<1>2. first \in State
  BY PolyOfZero
<1>3. \A s \in State, n \in 1 .. FieldBits : Round(s, n) \in State
  BY PolyOfXor, PolyOfTimesX
<1> HIDE DEF State, Round, first
<1>4. C = F(C)
  <2> DEFINE Step == [t \in State \X (1 .. FieldBits) |-> Round(t[1], t[2])]
  <2>1. IsStep(Step, FieldBits, State)
    BY <1>3 DEF IsStep
  <2>2. \A s \in State, n \in 1 .. FieldBits : Step[<<s, n>>] = Round(s, n)
    OBVIOUS
  <2> HIDE DEF Step
  <2>3. FieldBits \in Nat
    BY FieldIs
  <2>4. PICK f : IsRun(f, FieldBits, State, first, Step)
    BY <1>2, <2>1, <2>3, RunExists
  <2>5. f \in [0 .. FieldBits -> State] /\ f[0] = first
        /\ \A n \in 1 .. FieldBits : f[n] = Step[<<f[n - 1], n>>]
    BY <2>4 DEF IsRun
  <2>6. \A n \in 1 .. FieldBits : f[n] = Round(f[n - 1], n)
    <3>1. \A n \in 1 .. FieldBits : f[n - 1] \in State
      BY <2>5, FieldIs
    <3> QED BY <2>2, <2>5, <3>1
  <2>7. \A n \in 0 .. FieldBits : f[n] = IF n = 0 THEN first ELSE Round(f[n - 1], n)
    BY <2>5, <2>6, FieldIs
  <2>8. f = F(f)
    BY <2>5, <2>7
  <2> QED BY <2>8
<1>5. C[0] = first /\ \A i \in 0 .. FieldBits - 1 : C[i + 1] = Round(C[i], i + 1)
  <2>1. \A n \in 0 .. FieldBits : C[n] = IF n = 0 THEN first ELSE Round(C[n - 1], n)
    BY <1>4
  <2> HIDE DEF C
  <2>2. \A i \in 0 .. FieldBits - 1 : i + 1 \in 0 .. FieldBits /\ i + 1 # 0 /\ (i + 1) - 1 = i
    BY FieldIs
  <2> QED BY <2>1, <2>2, BitRange
<1> HIDE DEF C
<1> DEFINE p == Poly(x)
           q == Poly(y)
           Is(i) == C[i] \in State /\ Poly(C[i].v) = Chain(q)[i] /\ Poly(C[i].z) = Partial(p, q)[i]
           T == {i \in 0 .. FieldBits : Is(i)}
<1>6. p \in Polys /\ q \in Polys
  BY PolyType
<1>7. Is(0)
  <2>1. C[0].z = Zero128 /\ C[0].v = y /\ C[0] \in State
    BY <1>2, <1>5 DEF first
  <2>2. Chain(q)[0] = q /\ Partial(p, q)[0] = {}
    <3> HIDE DEF p, q
    <3> QED BY <1>6, ChainStep, PartialStep
  <2> QED BY <2>1, <2>2, PolyOfZero
<1>8. ASSUME NEW i \in 0 .. FieldBits - 1, Is(i)
      PROVE  Is(i + 1)
  <2> DEFINE s == C[i]
  <2>1. s.z \in Elements /\ s.v \in Elements
    BY <1>8 DEF State
  <2>2. i + 1 \in 1 .. FieldBits /\ (i + 1) - 1 = i /\ i \in Bits128
    BY FieldIs DEF Bits128
  <2>3. C[i + 1] = Round(s, i + 1) /\ C[i + 1] \in State
    BY <1>3, <1>5, <1>8, <2>2
  <2>4. C[i + 1].v = TimesX(s.v)
        /\ C[i + 1].z = IF x[i] = 1 THEN xor_blocks(s.z, s.v) ELSE s.z
    BY <2>2, <2>3 DEF Round
  <2>5. x[i] = 1 <=> i \in p
    BY <2>2 DEF Poly
  <2>6. Poly(s.v) = Chain(q)[i] /\ Poly(s.z) = Partial(p, q)[i]
    BY <1>8
  <2> HIDE DEF s, p, q
  <2>7. Poly(C[i + 1].v) = Chain(q)[i + 1]
    BY <1>6, <2>1, <2>4, <2>6, PolyOfTimesX, ChainStep
  <2>8. Poly(C[i + 1].z) = Partial(p, q)[i + 1]
    <3>1. Partial(p, q)[i + 1] = IF i \in p THEN SymDiff(Partial(p, q)[i], Chain(q)[i])
                                            ELSE Partial(p, q)[i]
      BY <1>6, PartialStep
    <3>2. Poly(xor_blocks(s.z, s.v)) = SymDiff(Poly(s.z), Poly(s.v))
      BY <2>1, PolyOfXor
    <3> QED BY <2>4, <2>5, <2>6, <3>1, <3>2
  <2> QED BY <2>3, <2>7, <2>8
<1> HIDE DEF Is
<1>9. Is(FieldBits)
  <2>1. 0 \in T /\ \A i \in 0 .. FieldBits - 1 : i \in T => i + 1 \in T
    BY <1>7, <1>8, BitRange
  <2> HIDE DEF T
  <2>2. \A i \in 0 .. FieldBits : i \in T
    BY <2>1, InductBits
  <2> QED BY <2>2, BitRange DEF T
<1> QED BY <1>1, <1>9 DEF Is, State, Times

-----------------------------------------------------------------------------
(***************************************************************************)
(* Horner's rule.                                                          *)
(***************************************************************************)
IsHorner(h, input, g) ==
  /\ g \in [0 .. Len(input) -> Elements]
  /\ g[0] = Zero128
  /\ \A k \in 0 .. Len(input) - 1 :
       g[k + 1] = GF_mul_blocks(xor_blocks(input[k + 1], g[k]), h)

Horner(h, input) == CHOOSE g : IsHorner(h, input, g)

\* Horner's rule has a value for every number of blocks.
LEMMA HornerIs ==
  ASSUME NEW h \in Elements, NEW input \in Seq(Elements)
  PROVE  IsHorner(h, input, Horner(h, input))
<1> DEFINE N == Len(input)
           Next1(e, n) == GF_mul_blocks(xor_blocks(input[n], e), h)
           Step == [t \in Elements \X (1 .. N) |-> Next1(t[1], t[2])]
<1>1. N \in Nat /\ \A n \in 1 .. N : input[n] \in Elements
  OBVIOUS
<1>2. \A e \in Elements, n \in 1 .. N : Next1(e, n) \in Elements
  BY <1>1, PolyOfXor, MulIsTimes
<1> HIDE DEF Next1
<1>3. IsStep(Step, N, Elements)
  BY <1>2 DEF IsStep
<1>4. \A e \in Elements, n \in 1 .. N : Step[<<e, n>>] = Next1(e, n)
  OBVIOUS
<1> HIDE DEF Step, N
<1>5. PICK g : IsRun(g, N, Elements, Zero128, Step)
  BY <1>1, <1>3, PolyOfZero, RunExists
<1>6. g \in [0 .. N -> Elements] /\ g[0] = Zero128 /\ \A n \in 1 .. N : g[n] = Step[<<g[n - 1], n>>]
  BY <1>5 DEF IsRun
<1>7. ASSUME NEW k \in 0 .. N - 1
      PROVE  g[k + 1] = Next1(g[k], k + 1)
  <2> DEFINE n == k + 1
  <2>1. n \in 1 .. N /\ n - 1 = k /\ k \in 0 .. N
    BY <1>1
  <2> HIDE DEF n
  <2>2. g[n] = Next1(g[k], n)
    BY <1>4, <1>6, <2>1
  <2> QED BY <2>2 DEF n
<1>8. IsHorner(h, input, g)
  BY <1>6, <1>7 DEF IsHorner, N, Next1
<1> QED BY <1>8 DEF Horner

\* What the standard sums up, for any blocks.
Powers(p, N) ==
  LET power[k \in 0 .. N] ==
        IF k = 0 THEN {0} ELSE Reduction(Product(power[k - 1], p))
  IN  power

\* The powers of the hash key, as the standard forms them.
LEMMA PowersAre ==
  ASSUME NEW p \in Polys, NEW N \in Nat
  PROVE  /\ Powers(p, N)[0] = {0}
         /\ \A k \in 0 .. N : Powers(p, N)[k] \in Polys
         /\ \A k \in 0 .. N - 1 : Powers(p, N)[k + 1] = Times(Powers(p, N)[k], p)
<1> DEFINE F(f) == [k \in 0 .. N |-> IF k = 0 THEN {0} ELSE Reduction(Product(f[k - 1], p))]
           C == CHOOSE f : f = F(f)
<1>1. Powers(p, N) = C
  BY DEF Powers
<1>2. {0} \in Polys
  BY SingleBits, BitRange
<1>3. \A x \in Polys : Reduction(Product(x, p)) = Times(x, p) /\ Times(x, p) \in Polys
  BY ProductTimes, PartialStep
<1>4. C = F(C)
  <2> DEFINE Step == [t \in Polys \X (1 .. N) |-> Times(t[1], p)]
  <2>1. IsStep(Step, N, Polys)
    BY <1>3 DEF IsStep
  <2>2. \A x \in Polys, n \in 1 .. N : Step[<<x, n>>] = Times(x, p)
    OBVIOUS
  <2> HIDE DEF Step
  <2>3. PICK f : IsRun(f, N, Polys, {0}, Step)
    BY <1>2, <2>1, RunExists
  <2>4. f \in [0 .. N -> Polys] /\ f[0] = {0} /\ \A n \in 1 .. N : f[n] = Step[<<f[n - 1], n>>]
    BY <2>3 DEF IsRun
  <2>5. \A n \in 1 .. N : f[n - 1] \in Polys
    BY <2>4
  <2>6. \A n \in 1 .. N : f[n] = Reduction(Product(f[n - 1], p))
    BY <1>3, <2>2, <2>4, <2>5
  <2>7. \A n \in 0 .. N : f[n] = IF n = 0 THEN {0} ELSE Reduction(Product(f[n - 1], p))
    BY <2>4, <2>6
  <2>8. f = F(f)
    BY <2>4, <2>7
  <2> QED BY <2>8
<1>5. \A n \in 0 .. N : C[n] = IF n = 0 THEN {0} ELSE Reduction(Product(C[n - 1], p))
  BY <1>4
<1> HIDE DEF C
<1> DEFINE S == {k \in 0 .. N : C[k] \in Polys}
<1>6. 0 \in S
  BY <1>2, <1>5
<1>7. ASSUME NEW k \in 0 .. N - 1
      PROVE  C[k + 1] = Reduction(Product(C[k], p))
  <2>1. k + 1 \in 0 .. N /\ k + 1 # 0 /\ (k + 1) - 1 = k
    OBVIOUS
  <2> QED BY <1>5, <2>1
<1>8. ASSUME NEW k \in 0 .. N - 1, k \in S
      PROVE  k + 1 \in S
  <2>1. k + 1 \in 0 .. N /\ C[k] \in Polys
    BY <1>8
  <2> QED BY <1>3, <1>7, <2>1
<1>9. \A k \in 0 .. N : k \in S
  <2> HIDE DEF S
  <2> QED BY <1>6, <1>8, InductTo
<1>10. \A k \in 0 .. N - 1 : C[k + 1] = Times(C[k], p)
  <2>1. \A k \in 0 .. N - 1 : C[k] \in Polys
    BY <1>9
  <2> QED BY <1>3, <1>7, <2>1
<1> QED BY <1>1, <1>5, <1>9, <1>10

\* Powers of one polynomial commute with it.
LEMMA PowersCommute ==
  ASSUME NEW p \in Polys, NEW N \in Nat
  PROVE  \A k \in 0 .. N - 1 : Times(p, Powers(p, N)[k]) = Powers(p, N)[k + 1]
<1>2. SUFFICES ASSUME N > 0
               PROVE  \A k \in 0 .. N - 1 : Times(p, Powers(p, N)[k]) = Powers(p, N)[k + 1]
  OBVIOUS
<1> DEFINE w == Powers(p, N)
           S == {k \in 0 .. N - 1 : Times(p, w[k]) = w[k + 1]}
<1>1. /\ w[0] = {0}
      /\ \A k \in 0 .. N : w[k] \in Polys
      /\ \A k \in 0 .. N - 1 : w[k + 1] = Times(w[k], p)
  BY PowersAre
<1> HIDE DEF w
<1>3. 0 \in S
  <2>1. 0 \in 0 .. N - 1
    BY <1>2
  <2>2. w[0 + 1] = p
    BY <1>1, <2>1, TimesOne
  <2>3. Times(p, w[0]) = p
    BY <1>1, TimesOne
  <2> QED BY <2>1, <2>2, <2>3
<1>4. ASSUME NEW k \in 0 .. (N - 1) - 1, k \in S
      PROVE  k + 1 \in S
  <2>1. k \in 0 .. N - 1 /\ k + 1 \in 0 .. N - 1 /\ k \in 0 .. N
    BY <1>2
  <2>2. Times(p, w[k + 1]) = Times(Times(p, w[k]), p)
    BY <1>1, <2>1, TimesOrder
  <2>3. Times(p, w[k]) = w[k + 1]
    BY <1>4
  <2>4. w[(k + 1) + 1] = Times(w[k + 1], p)
    BY <1>1, <2>1
  <2> QED BY <2>1, <2>2, <2>3, <2>4
<1>5. N - 1 \in Nat
  BY <1>2
<1>6. \A k \in 0 .. N - 1 : k \in S
  <2> HIDE DEF S
  <2> QED BY <1>3, <1>4, <1>5, InductTo
<1> QED BY <1>6 DEF w

Sums(input, w, n) ==
  LET sum[k \in 0 .. n] ==
        IF k = 0 THEN {}
        ELSE SymDiff(sum[k - 1], Reduction(Product(Poly(input[k]), w[n + 1 - k])))
  IN  sum

\* The sums of the standard, block by block.
LEMMA SumsAre ==
  ASSUME NEW n \in Nat, NEW input, NEW w, \A k \in 0 .. n : w[k] \in Polys
  PROVE  /\ Sums(input, w, n)[0] = {}
         /\ \A k \in 0 .. n - 1 :
              Sums(input, w, n)[k + 1] =
                SymDiff(Sums(input, w, n)[k], Times(Poly(input[k + 1]), w[n - k]))
<1> DEFINE Term(k) == Reduction(Product(Poly(input[k]), w[n + 1 - k]))
           F(f) == [k \in 0 .. n |-> IF k = 0 THEN {} ELSE SymDiff(f[k - 1], Term(k))]
           C == CHOOSE f : f = F(f)
<1>1. Sums(input, w, n) = C
  BY DEF Sums
<1>2. ASSUME NEW k \in 1 .. n
      PROVE  Term(k) = Times(Poly(input[k]), w[n + 1 - k]) /\ Term(k) \in Polys
  <2>1. n + 1 - k \in 0 .. n
    OBVIOUS
  <2> DEFINE x == Poly(input[k])
             y == w[n + 1 - k]
  <2>2. x \in Polys /\ y \in Polys
    BY <2>1, PolyType
  <2>3. Term(k) = Reduction(Product(x, y))
    OBVIOUS
  <2>4. Times(Poly(input[k]), w[n + 1 - k]) = Times(x, y)
    OBVIOUS
  <2> HIDE DEF x, y, Term
  <2> QED BY <2>2, <2>3, <2>4, ProductTimes, PartialStep
<1> HIDE DEF Term
<1>3. C = F(C)
  <2> DEFINE Step == [t \in Polys \X (1 .. n) |-> SymDiff(t[1], Term(t[2]))]
  <2>1. IsStep(Step, n, Polys)
    BY <1>2, PolyXor DEF IsStep
  <2>2. \A x \in Polys, k \in 1 .. n : Step[<<x, k>>] = SymDiff(x, Term(k))
    OBVIOUS
  <2> HIDE DEF Step
  <2>3. {} \in Polys
    BY FieldIs
  <2>4. PICK f : IsRun(f, n, Polys, {}, Step)
    BY <2>1, <2>3, RunExists
  <2>5. f \in [0 .. n -> Polys] /\ f[0] = {} /\ \A k \in 1 .. n : f[k] = Step[<<f[k - 1], k>>]
    BY <2>4 DEF IsRun
  <2>6. \A k \in 1 .. n : f[k - 1] \in Polys
    BY <2>5
  <2>7. \A k \in 1 .. n : f[k] = SymDiff(f[k - 1], Term(k))
    BY <2>2, <2>5, <2>6
  <2>8. \A k \in 0 .. n : f[k] = IF k = 0 THEN {} ELSE SymDiff(f[k - 1], Term(k))
    BY <2>5, <2>7
  <2>9. f = F(f)
    BY <2>5, <2>8
  <2> QED BY <2>9
<1>4. \A k \in 0 .. n : C[k] = IF k = 0 THEN {} ELSE SymDiff(C[k - 1], Term(k))
  BY <1>3
<1> HIDE DEF C
<1>5. ASSUME NEW k \in 0 .. n - 1
      PROVE  C[k + 1] = SymDiff(C[k], Times(Poly(input[k + 1]), w[n - k]))
  <2> DEFINE m == k + 1
  <2>1. m \in 1 .. n /\ m \in 0 .. n /\ m # 0 /\ m - 1 = k /\ n + 1 - m = n - k
    OBVIOUS
  <2> HIDE DEF m
  <2>2. C[m] = SymDiff(C[k], Term(m))
    BY <1>4, <2>1
  <2>3. Term(m) = Times(Poly(input[m]), w[n - k])
    BY <1>2, <2>1
  <2> QED BY <2>2, <2>3 DEF m
<1>6. C[0] = {}
  BY <1>4
<1> QED BY <1>1, <1>5, <1>6

\* Horner's rule has the sum of the standard: multiplying what is there by
\* the hash key raises every power by one.
LEMMA HornerIsSum ==
  ASSUME NEW h \in Elements, NEW input \in Seq(Elements)
  PROVE  Poly(Horner(h, input)[Len(input)])
           = Sums(input, Powers(Poly(h), Len(input)), Len(input))[Len(input)]
<1> DEFINE n == Len(input)
           p == Poly(h)
           w == Powers(p, n)
           g == Horner(h, input)
           s == Sums(input, w, n)
           Is(k) == s[k] = Times(Poly(g[k]), w[n - k])
           T == {k \in 0 .. n : Is(k)}
<1>1. n \in Nat /\ p \in Polys /\ \A k \in 1 .. n : input[k] \in Elements
  BY PolyType
<1>2. /\ \A k \in 0 .. n : g[k] \in Elements
      /\ g[0] = Zero128
      /\ \A k \in 0 .. n - 1 : g[k + 1] = GF_mul_blocks(xor_blocks(input[k + 1], g[k]), h)
  BY HornerIs DEF IsHorner
<1> HIDE DEF n, p, g
<1>3. /\ w[0] = {0}
      /\ \A k \in 0 .. n : w[k] \in Polys
      /\ \A k \in 0 .. n - 1 : Times(p, w[k]) = w[k + 1]
  BY <1>1, PowersAre, PowersCommute
<1> HIDE DEF w
<1>4. s[0] = {} /\ \A k \in 0 .. n - 1 : s[k + 1] = SymDiff(s[k], Times(Poly(input[k + 1]), w[n - k]))
  BY <1>1, <1>3, SumsAre
<1> HIDE DEF s
<1>5. Is(0)
  <2>1. n - 0 = n /\ w[n] \in Polys
    BY <1>1, <1>3
  <2> QED BY <1>2, <1>4, <2>1, PolyOfZero, TimesEmpty
<1>6. ASSUME NEW k \in 0 .. n - 1, Is(k)
      PROVE  Is(k + 1)
  <2> DEFINE m == n - (k + 1)
             b == input[k + 1]
             x == g[k]
             z == xor_blocks(b, x)
  <2>1. m \in 0 .. n - 1 /\ m \in 0 .. n /\ m + 1 = n - k /\ k \in 0 .. n /\ k + 1 \in 1 .. n
    BY <1>1
  <2>2. b \in Elements /\ x \in Elements
    BY <1>1, <1>2, <2>1
  <2>3. g[k + 1] = GF_mul_blocks(z, h)
    BY <1>2
  <2>4. s[k + 1] = SymDiff(Times(Poly(x), w[m + 1]), Times(Poly(b), w[m + 1]))
    BY <1>4, <1>6, <2>1
  <2>5. w[m] \in Polys /\ w[m + 1] = Times(p, w[m]) /\ w[m + 1] \in Polys
    <3>1. m + 1 \in 0 .. n
      BY <1>1, <2>1
    <3> HIDE DEF m
    <3> QED BY <1>3, <2>1, <3>1
  <2> HIDE DEF b, x, m
  <2>6. z \in Elements /\ Poly(z) = SymDiff(Poly(b), Poly(x)) /\ Poly(z) = SymDiff(Poly(x), Poly(b))
    BY <2>2, PolyOfXor, XorOrder
  <2> HIDE DEF z
  <2>7. Poly(g[k + 1]) = Times(Poly(z), p)
    BY <2>3, <2>6, MulIsTimes DEF p
  <2>8. Poly(x) \in Polys /\ Poly(b) \in Polys /\ Poly(z) \in Polys
    BY PolyType
  <2>9. s[k + 1] = Times(Poly(z), w[m + 1])
    BY <2>4, <2>5, <2>6, <2>8, TimesXorLeft
  <2>10. s[k + 1] = Times(Times(Poly(z), p), w[m])
    BY <1>1, <2>5, <2>8, <2>9, TimesOrder
  <2> QED BY <2>7, <2>10 DEF m
<1> HIDE DEF Is
<1>7. Is(n)
  <2>1. 0 \in T /\ \A k \in 0 .. n - 1 : k \in T => k + 1 \in T
    BY <1>1, <1>5, <1>6
  <2> HIDE DEF T
  <2>2. \A k \in 0 .. n : k \in T
    BY <1>1, <2>1, InductTo
  <2> QED BY <1>1, <2>2 DEF T
<1>8. s[n] = Poly(g[n])
  <2>1. n - n = 0 /\ Poly(g[n]) \in Polys
    BY <1>1, PolyType
  <2> QED BY <1>3, <1>7, <2>1, TimesOne DEF Is
<1> QED BY <1>8 DEF g, s, w, n, p

\* The hash of the standard is the last value of Horner's rule.
LEMMA StdGhashIsHorner ==
  ASSUME NEW h \in Elements, NEW a, NEW c, StdInput(a, c) \in Seq(Elements)
  PROVE  StdGhash(h, a, c) = Horner(h, StdInput(a, c))[Len(StdInput(a, c))]
<1> DEFINE input == StdInput(a, c)
           n == Len(input)
           g == Horner(h, input)
<1>1. StdGhash(h, a, c) = Element(Sums(input, Powers(Poly(h), n), n)[n])
  BY DEF StdGhash, Sums, Powers
<1>2. Poly(g[n]) = Sums(input, Powers(Poly(h), n), n)[n]
  <2> HIDE DEF input
  <2> QED BY HornerIsSum DEF input
<1>3. g[n] \in Elements
  <2>1. IsHorner(h, input, g)
    BY HornerIs
  <2>2. n \in 0 .. n
    OBVIOUS
  <2> HIDE DEF input, g
  <2> QED BY <2>1, <2>2 DEF IsHorner
<1> QED BY <1>1, <1>2, <1>3, ElementIs

-----------------------------------------------------------------------------
(***************************************************************************)
(* Texts, their blocks and their places.                                   *)
(***************************************************************************)
\* Powers of two are positive: 2^n is the number of subsets of 1 .. n.
LEMMA PowersOfTwo ==
  ASSUME NEW n \in Nat
  PROVE  2 ^ n \in Nat /\ 2 ^ n > 0
<1> DEFINE S == 1 .. n
<1>1. IsFiniteSet(S) /\ Cardinality(S) = n
  BY FS_Interval
<1> HIDE DEF S
<1>2. IsFiniteSet(SUBSET S) /\ Cardinality(SUBSET S) = 2 ^ n
  BY <1>1, FS_SUBSET
<1>3. Cardinality(SUBSET S) \in Nat
  BY <1>2, FS_CardinalityType
<1>4. Cardinality(SUBSET S) # 0
  <2>1. SUBSET S # {}
    OBVIOUS
  <2> QED BY <1>2, <2>1, FS_EmptySet
<1> QED BY <1>2, <1>3, <1>4

\* Bytes of a block, and bits of half a block.
LEMMA Sizes ==
  /\ ByteBits \in Nat /\ ByteBits > 0
  /\ BlockBytes \in Nat /\ BlockBytes > 0 /\ FieldBits = ByteBits * BlockBytes
  /\ FieldBits \div 2 \in Nat /\ FieldBits = 2 * (FieldBits \div 2)
<1> DEFINE w == 2 * ByteBits
           q == FieldBits \div w
<1>1. ByteBits \in Nat /\ ByteBits > 0 /\ FieldBits % w = 0 /\ w \in Nat /\ w > 0
  BY GhashAssumption
<1>2. FieldBits = w * q /\ q \in Nat
  BY <1>1, FieldIs
<1> HIDE DEF q
<1>3. FieldBits = ByteBits * (2 * q) /\ FieldBits = 2 * (ByteBits * q) /\ ByteBits * q \in Nat /\ 2 * q \in Nat
  BY <1>1, <1>2
<1>4. BlockBytes = 2 * q
  BY <1>1, <1>3 DEF BlockBytes
<1>5. FieldBits \div 2 = ByteBits * q
  BY <1>3
<1>6. 2 * q > 0
  BY <1>2, <1>3, FieldIs
<1> QED BY <1>1, <1>3, <1>4, <1>5, <1>6

Hashed == AadTexts \cup CipherTexts \cup {<<>>}

LEMMA HashedAre ==
  ASSUME NEW t \in Hashed
  PROVE  t \in Seq(Nat) /\ Len(t) \in Nat /\ \A i \in 1 .. Len(t) : t[i] \in Nat
<1>1. t \in Seq(Nat)
  <2>1. CASE t = <<>>
    BY <2>1
  <2>2. CASE t \in AadTexts \cup CipherTexts
    <3>1. t \in Seq(0 .. 2 ^ ByteBits - 1)
      BY <2>2, GhashAssumption
    <3>2. 2 ^ ByteBits \in Nat
      BY Sizes, PowersOfTwo
    <3> DEFINE top == 2 ^ ByteBits
    <3> HIDE DEF top
    <3>3. t \in Seq(0 .. top - 1) /\ top \in Nat
      BY <3>1, <3>2 DEF top
    <3>4. 0 .. top - 1 \subseteq Nat
      BY <3>3
    <3> QED BY <3>3, <3>4
  <2> QED BY <2>1, <2>2 DEF Hashed
<1> QED BY <1>1

LEMMA BitOf ==
  ASSUME NEW n \in Nat, NEW e \in Nat
  PROVE  (n \div 2 ^ e) % 2 \in 0 .. 1
<1> DEFINE d == 2 ^ e
<1>1. d \in Nat /\ d > 0
  BY PowersOfTwo
<1> HIDE DEF d
<1>2. n \div d \in Int
  BY <1>1
<1>3. (n \div d) % 2 \in 0 .. 1
  BY <1>2
<1> QED BY <1>3 DEF d

\* Bytes make a field element,
LEMMA RowType ==
  ASSUME NEW bytes, \A j \in 1 .. BlockBytes : bytes[j] \in Nat
  PROVE  Row(bytes) \in Elements
<1>1. ASSUME NEW i \in Bits128
      PROVE  (bytes[i \div ByteBits + 1] \div 2 ^ (ByteBits - 1 - (i % ByteBits))) % 2 \in 0 .. 1
  <2> DEFINE q == i \div ByteBits
             e == ByteBits - 1 - (i % ByteBits)
  <2>1. i \in Nat /\ i < ByteBits * BlockBytes
    BY Sizes, FieldIs DEF Bits128
  <2>2. q \in Nat /\ i >= ByteBits * q /\ i % ByteBits \in 0 .. ByteBits - 1
    BY <2>1, Sizes
  <2>3. e \in Nat
    BY <2>2, Sizes
  <2> HIDE DEF q, e
  <2>4. q < BlockBytes
    <3> SUFFICES ASSUME q >= BlockBytes PROVE FALSE
      BY <2>2, Sizes
    <3>1. ByteBits * q >= ByteBits * BlockBytes
      BY <2>2, Sizes
    <3>2. ByteBits * q \in Nat /\ ByteBits * BlockBytes \in Nat
      BY <2>2, Sizes
    <3> QED BY <2>1, <2>2, <3>1, <3>2
  <2>5. q + 1 \in 1 .. BlockBytes
    BY <2>2, <2>4, Sizes
  <2>6. (bytes[q + 1] \div 2 ^ e) % 2 \in 0 .. 1
    BY <2>3, <2>5, BitOf
  <2> QED BY <2>6 DEF q, e
<1> QED BY <1>1 DEF Row, Elements

\* and so do the two lengths.
LEMMA LenBlockType ==
  ASSUME NEW a \in Hashed, NEW c \in Hashed
  PROVE  LenBlock(a, c) \in Elements
<1> DEFINE half == FieldBits \div 2
           x == Len(a) * ByteBits
           y == Len(c) * ByteBits
<1>1. x \in Nat /\ y \in Nat
  BY Sizes, HashedAre
<1>2. half \in Nat /\ FieldBits = 2 * half
  BY Sizes
<1> DEFINE bit(n, i) == (n \div 2 ^ (half - 1 - i)) % 2
<1>3. LenBlock(a, c) = [i \in Bits128 |-> IF i < half THEN bit(x, i) ELSE bit(y, i - half)]
  BY DEF LenBlock
<1> HIDE DEF half, x, y
<1>4. \A i \in Bits128 : /\ i < half => half - 1 - i \in Nat
                         /\ ~ (i < half) => half - 1 - (i - half) \in Nat
  BY <1>2, FieldIs DEF Bits128
<1>5. \A i \in Bits128 : /\ i < half => bit(x, i) \in 0 .. 1
                         /\ ~ (i < half) => bit(y, i - half) \in 0 .. 1
  BY <1>1, <1>4, BitOf
<1> HIDE DEF bit
<1> QED BY <1>3, <1>5 DEF Elements

Blocks(text) == (Len(text) + BlockBytes - 1) \div BlockBytes

\* How many blocks a text has.
LEMMA BlocksAre ==
  ASSUME NEW text \in Hashed
  PROVE  /\ Blocks(text) \in Nat
         /\ Blocks(text) * BlockBytes >= Len(text)
         /\ \A k \in 0 .. Blocks(text) - 1 :
              /\ k * BlockBytes \in Nat /\ k * BlockBytes < Len(text)
              /\ (k + 1) * BlockBytes = k * BlockBytes + BlockBytes
<1> DEFINE b == BlockBytes
           len == Len(text)
           n == Blocks(text)
<1>1. b \in Nat /\ b > 0 /\ len \in Nat
  BY Sizes, HashedAre
<1>2. n = (len + b - 1) \div b
  BY DEF Blocks
<1> HIDE DEF b, len, n
<1>3. /\ n \in Nat
      /\ len + b - 1 = n * b + ((len + b - 1) % b)
      /\ (len + b - 1) % b \in 0 .. b - 1
  BY <1>1, <1>2
<1>4. n * b \in Nat /\ n * b >= len /\ n * b < len + b
  BY <1>1, <1>3
<1>5. ASSUME NEW k \in 0 .. n - 1
      PROVE  k * b \in Nat /\ k * b < len /\ (k + 1) * b = k * b + b
  <2>1. k \in Nat /\ n - 1 - k \in Nat
    BY <1>3
  <2>2. k * b \in Nat /\ (k + 1) * b = k * b + b /\ (n - 1 - k) * b \in Nat
    BY <1>1, <2>1
  <2>3. n * b = (k + 1) * b + (n - 1 - k) * b
    BY <1>1, <1>3, <2>1
  <2> QED BY <1>1, <1>4, <2>2, <2>3
<1> QED BY <1>3, <1>4, <1>5 DEF b, len, n

\* After k blocks, byte i of the text comes next.
Place(text, i, k) ==
  /\ k \in 0 .. Blocks(text)
  /\ i = IF k < Blocks(text) THEN k * BlockBytes ELSE Len(text)

\* The first byte, the next one, and the end of the text.
LEMMA PlaceStart ==
  ASSUME NEW text \in Hashed
  PROVE  Place(text, 0, 0)
<1>1. 0 < Blocks(text) => 0 * BlockBytes = 0
  BY Sizes
<1>2. ~ (0 < Blocks(text)) => Len(text) = 0
  <2> SUFFICES ASSUME ~ (0 < Blocks(text)) PROVE Len(text) = 0
    OBVIOUS
  <2>1. Blocks(text) = 0
    BY BlocksAre
  <2>2. 0 * BlockBytes = 0
    BY Sizes
  <2> QED BY <2>1, <2>2, BlocksAre, HashedAre
<1> QED BY <1>1, <1>2, BlocksAre DEF Place

LEMMA PlaceNext ==
  ASSUME NEW text \in Hashed, NEW i, NEW k, Place(text, i, k), i < Len(text)
  PROVE  /\ k \in 0 .. Blocks(text) - 1 /\ i \in Nat /\ i = k * BlockBytes
         /\ Place(text, i + Min({BlockBytes, Len(text) - i}), k + 1)
<1> DEFINE b == BlockBytes
           len == Len(text)
           n == Blocks(text)
           m == Min({b, len - i})
<1>1. b \in Nat /\ b > 0 /\ len \in Nat /\ n \in Nat /\ n * b >= len
  BY Sizes, HashedAre, BlocksAre
<1>2. /\ \A j \in 0 .. n - 1 : j * b \in Nat /\ j * b < len /\ (j + 1) * b = j * b + b
  BY BlocksAre
<1>3. k \in 0 .. n /\ i = (IF k < n THEN k * b ELSE len) /\ i < len
  BY DEF Place
<1>4. Place(text, i + m, k + 1) <=> /\ k + 1 \in 0 .. n
                                    /\ i + m = IF k + 1 < n THEN (k + 1) * b ELSE len
  BY DEF Place
<1> HIDE DEF b, len, n
<1>5. k \in 0 .. n - 1 /\ i = k * b /\ i \in Nat
  BY <1>1, <1>2, <1>3
<1>6. m = IF b <= len - i THEN b ELSE len - i
  <2> DEFINE r == len - i
  <2>1. b \in Int /\ r \in Int
    BY <1>1, <1>5
  <2> HIDE DEF r
  <2>2. Min({b, r}) = IF b <= r THEN b ELSE r
    <3>1. Min({b, r}) = CHOOSE x \in {b, r} : \A y \in {b, r} : x <= y
      BY DEF Min
    <3> QED BY <2>1, <3>1
  <2> QED BY <2>2 DEF r
<1> HIDE DEF m
<1>7. CASE k + 1 < n
  <2>1. k + 1 \in 0 .. n - 1 /\ k + 1 \in 0 .. n
    BY <1>1, <1>5, <1>7
  <2>2. (k + 1) * b < len /\ (k + 1) * b = i + b
    BY <1>2, <1>5, <2>1
  <2>3. m = b
    BY <1>1, <1>5, <1>6, <2>2
  <2> QED BY <1>4, <1>5, <1>7, <2>1, <2>2, <2>3 DEF b, len, n, m
<1>8. CASE ~ (k + 1 < n)
  <2>1. k + 1 = n
    BY <1>1, <1>5, <1>8
  <2>2. i + b >= len
    BY <1>1, <1>2, <1>5, <2>1
  <2>3. i + m = len
    BY <1>1, <1>5, <1>6, <2>2
  <2> QED BY <1>1, <1>4, <1>5, <1>8, <2>1, <2>3 DEF b, len, n, m
<1> QED BY <1>7, <1>8

LEMMA PlaceEnd ==
  ASSUME NEW text \in Hashed, NEW i, NEW k, Place(text, i, k), ~ (i < Len(text))
  PROVE  k = Blocks(text)
<1>1. CASE k < Blocks(text)
  <2>1. k \in 0 .. Blocks(text) - 1
    BY <1>1, BlocksAre DEF Place
  <2> QED BY <1>1, <2>1, BlocksAre DEF Place
<1> QED BY <1>1, BlocksAre DEF Place

\* A round of the loop absorbs the block that the standard has at its place.
LEMMA BlockIs ==
  ASSUME NEW text \in Hashed, NEW k \in 0 .. Blocks(text) - 1
  PROVE  /\ PartialBlock(text, k * BlockBytes) \in Elements
         /\ PartialBlock(text, k * BlockBytes)
              = Row(SubSeq(text \o [j \in 1 .. BlockBytes |-> 0],
                           k * BlockBytes + 1, (k + 1) * BlockBytes))
<1> DEFINE b == BlockBytes
           len == Len(text)
           from == k * b
           zeros == [j \in 1 .. b |-> 0]
           padded == text \o zeros
           cut == SubSeq(padded, from + 1, from + b)
           bytes == [j \in 1 .. b |-> IF from + j <= len THEN text[from + j] ELSE 0]
<1>1. /\ b \in Nat /\ b > 0 /\ len \in Nat /\ text \in Seq(Nat)
      /\ from \in Nat /\ from < len /\ (k + 1) * b = from + b
      /\ \A j \in 1 .. len : text[j] \in Nat
  BY Sizes, HashedAre, BlocksAre
<1>2. PartialBlock(text, from) = Row(bytes)
  BY DEF PartialBlock
<1> HIDE DEF b, from
<1>3. zeros \in Seq(Nat) /\ Len(zeros) = b
  BY <1>1
<1>4. /\ padded \in Seq(Nat) /\ Len(padded) = len + b
      /\ \A j \in 1 .. len : padded[j] = text[j]
      /\ \A j \in len + 1 .. len + b : padded[j] = 0
  <2>1. \A j \in len + 1 .. len + b : j - len \in 1 .. b
    BY <1>1
  <2> QED BY <1>1, <1>3, <2>1
<1> HIDE DEF padded
<1>5. cut = [j \in 1 .. b |-> padded[from + j]]
  <2>1. cut = [j \in 1 .. ((from + b) - (from + 1) + 1) |-> padded[(from + 1) + j - 1]]
    BY <1>1, <1>4
  <2>2. (from + b) - (from + 1) + 1 = b
    BY <1>1
  <2>3. \A j \in 1 .. b : (from + 1) + j - 1 = from + j
    BY <1>1
  <2> HIDE DEF cut
  <2> QED BY <2>1, <2>2, <2>3
<1>6. \A j \in 1 .. b : padded[from + j] = IF from + j <= len THEN text[from + j] ELSE 0
  BY <1>1, <1>4
<1>7. cut = bytes
  BY <1>5, <1>6
<1>8. \A j \in 1 .. b : bytes[j] \in Nat
  BY <1>1
<1>9. Row(bytes) \in Elements
  <2> HIDE DEF bytes
  <2> QED BY <1>8, RowType DEF b
<1>10. PartialBlock(text, from) = Row(cut)
  BY <1>2, <1>7
<1> HIDE DEF bytes, cut
<1>11. PartialBlock(text, from) \in Elements /\ PartialBlock(text, from) = Row(SubSeq(padded, from + 1, (k + 1) * b))
  <2>1. cut = SubSeq(padded, from + 1, (k + 1) * b)
    BY <1>1 DEF cut
  <2> QED BY <1>2, <1>9, <1>10, <2>1
<1> QED BY <1>11 DEF from, padded, b

\* The blocks of the standard, one by one.
LEMMA StdBlocksAre ==
  ASSUME NEW text \in Hashed
  PROVE  /\ StdBlocksOf(text) \in Seq(Elements)
         /\ Len(StdBlocksOf(text)) = Blocks(text)
         /\ \A k \in 0 .. Blocks(text) - 1 :
              StdBlocksOf(text)[k + 1] = PartialBlock(text, k * BlockBytes)
<1> DEFINE n == Blocks(text)
           e(k) == Row(SubSeq(text \o [j \in 1 .. BlockBytes |-> 0],
                              (k - 1) * BlockBytes + 1, k * BlockBytes))
<1>1. StdBlocksOf(text) = [k \in 1 .. n |-> e(k)]
  BY DEF StdBlocksOf, Blocks
<1>2. n \in Nat
  BY BlocksAre
<1>3. ASSUME NEW k \in 0 .. n - 1
      PROVE  e(k + 1) = PartialBlock(text, k * BlockBytes)
             /\ e(k + 1) \in Elements
  <2>1. (k + 1) - 1 = k
    BY <1>2
  <2>2. e(k + 1) = Row(SubSeq(text \o [j \in 1 .. BlockBytes |-> 0],
                              k * BlockBytes + 1, (k + 1) * BlockBytes))
    BY <2>1
  <2> HIDE DEF e
  <2> QED BY <2>2, BlockIs
<1> HIDE DEF e, n
<1>4. \A k \in 1 .. n : e(k) \in Elements
  <2> SUFFICES ASSUME NEW k \in 1 .. n PROVE e(k) \in Elements
    OBVIOUS
  <2>1. k - 1 \in 0 .. n - 1 /\ (k - 1) + 1 = k
    BY <1>2
  <2>2. e((k - 1) + 1) \in Elements
    BY <1>3, <2>1
  <2> QED BY <2>1, <2>2
<1>5. \A k \in 0 .. n - 1 : k + 1 \in 1 .. n
  BY <1>2
<1>6. StdBlocksOf(text) \in Seq(Elements) /\ Len(StdBlocksOf(text)) = n
  BY <1>1, <1>2, <1>4
<1>7. \A k \in 0 .. n - 1 : StdBlocksOf(text)[k + 1] = PartialBlock(text, k * BlockBytes)
  BY <1>1, <1>3, <1>5
<1> QED BY <1>6, <1>7 DEF n

\* What is hashed: the blocks of both texts, and the lengths.
LEMMA InputIs ==
  ASSUME NEW a \in Hashed, NEW c \in Hashed
  PROVE  /\ StdInput(a, c) \in Seq(Elements)
         /\ Len(StdInput(a, c)) = Blocks(a) + Blocks(c) + 1
         /\ \A k \in 0 .. Blocks(a) - 1 :
              StdInput(a, c)[k + 1] = PartialBlock(a, k * BlockBytes)
         /\ \A k \in 0 .. Blocks(c) - 1 :
              StdInput(a, c)[(Blocks(a) + k) + 1] = PartialBlock(c, k * BlockBytes)
         /\ StdInput(a, c)[(Blocks(a) + Blocks(c)) + 1] = LenBlock(a, c)
<1> DEFINE s == StdBlocksOf(a)
           t == StdBlocksOf(c)
           l == LenBlock(a, c)
           m == Blocks(a)
           n == Blocks(c)
           input == s \o t \o <<l>>
<1>1. StdInput(a, c) = input
  BY DEF StdInput
<1>2. /\ s \in Seq(Elements) /\ Len(s) = m /\ m \in Nat
      /\ t \in Seq(Elements) /\ Len(t) = n /\ n \in Nat
      /\ l \in Elements
  BY StdBlocksAre, BlocksAre, LenBlockType
<1>3. /\ \A k \in 0 .. m - 1 : s[k + 1] = PartialBlock(a, k * BlockBytes)
      /\ \A k \in 0 .. n - 1 : t[k + 1] = PartialBlock(c, k * BlockBytes)
  BY StdBlocksAre
<1> HIDE DEF s, t, l, m, n
<1>4. input \in Seq(Elements) /\ Len(input) = m + n + 1
  BY <1>2
<1>5. \A k \in 0 .. m - 1 : input[k + 1] = s[k + 1]
  BY <1>2
<1>6. \A k \in 0 .. n - 1 : input[(m + k) + 1] = t[k + 1]
  <2> SUFFICES ASSUME NEW k \in 0 .. n - 1
               PROVE  input[(m + k) + 1] = t[k + 1]
    OBVIOUS
  <2> DEFINE i == (m + k) + 1
  <2>1. i \in Len(s) + 1 .. Len(s) + Len(t) /\ i - Len(s) = k + 1 /\ i \in Int
    BY <1>2
  <2> HIDE DEF i
  <2>2. (s \o t)[i] = t[i - Len(s)]
    BY <1>2, <2>1
  <2>3. input[i] = (s \o t)[i]
    BY <1>2, <2>1
  <2>4. input[i] = t[k + 1]
    BY <2>1, <2>2, <2>3
  <2> QED BY <2>4 DEF i
<1>7. input[(m + n) + 1] = l
  BY <1>2
<1> HIDE DEF input
<1>8. \A k \in 0 .. m - 1 : input[k + 1] = PartialBlock(a, k * BlockBytes)
  BY <1>3, <1>5
<1>9. \A k \in 0 .. n - 1 : input[(m + k) + 1] = PartialBlock(c, k * BlockBytes)
  BY <1>3, <1>6
<1> QED BY <1>1, <1>4, <1>7, <1>8, <1>9 DEF m, n, l

-----------------------------------------------------------------------------
(***************************************************************************)
(* The invariant: Y is the value of Horner's rule for the blocks absorbed. *)
(***************************************************************************)
HornerValue(k) == Horner(H, StdInput(aad, ciphertext))[k]

GhashInv ==
  /\ H \in Elements /\ aad \in Hashed /\ ciphertext \in Hashed
  /\ stage = "aad" => \E k : Place(aad, index, k) /\ Y = HornerValue(k)
  /\ stage = "ciphertext" =>
       \E k : Place(ciphertext, index, k) /\ Y = HornerValue(Blocks(aad) + k)
  /\ stage = "lengths" => Y = HornerValue(Blocks(aad) + Blocks(ciphertext))
  /\ stage = "done" => Y = HornerValue(Blocks(aad) + Blocks(ciphertext) + 1)

\* A block more.
LEMMA ValueStep ==
  ASSUME NEW h \in Elements, NEW a \in Hashed, NEW c \in Hashed,
         NEW k \in 0 .. Blocks(a) + Blocks(c)
  PROVE  Horner(h, StdInput(a, c))[k + 1]
           = GF_mul_blocks(xor_blocks(StdInput(a, c)[k + 1], Horner(h, StdInput(a, c))[k]), h)
<1> DEFINE input == StdInput(a, c)
           n == Len(input)
           g == Horner(h, input)
<1>1. input \in Seq(Elements) /\ n = Blocks(a) + Blocks(c) + 1
  BY InputIs
<1>2. k \in 0 .. n - 1
  BY <1>1, BlocksAre
<1> HIDE DEF input
<1>3. IsHorner(h, input, g)
  BY <1>1, HornerIs
<1> HIDE DEF g
<1>4. g[k + 1] = GF_mul_blocks(xor_blocks(input[k + 1], g[k]), h)
  BY <1>2, <1>3 DEF IsHorner
<1> QED BY <1>4 DEF g, input

LEMMA ValueStart ==
  ASSUME NEW h \in Elements, NEW a \in Hashed, NEW c \in Hashed
  PROVE  Horner(h, StdInput(a, c))[0] = Zero128
BY InputIs, HornerIs DEF IsHorner

\* No call yet: the hash of nothing has been asked for by nobody.
LEMMA GhashStartInv == GhashStart => GhashInv
<1> SUFFICES ASSUME GhashStart PROVE GhashInv
  OBVIOUS
<1>1. H = Zero128 /\ aad = <<>> /\ ciphertext = <<>> /\ Y = Zero128 /\ stage = "done"
  BY DEF GhashStart
<1>2. H \in Elements /\ aad \in Hashed /\ ciphertext \in Hashed
  BY <1>1, PolyOfZero DEF Hashed
<1> DEFINE n == Blocks(aad) + Blocks(ciphertext)
           x == HornerValue(n)
           b == StdInput(aad, ciphertext)[n + 1]
<1>3. n \in Nat
  BY <1>2, BlocksAre
<1>4. HornerValue(n + 1) = GF_mul_blocks(xor_blocks(b, x), H)
  BY <1>2, <1>3, ValueStep DEF HornerValue
<1>5. b \in Elements /\ x \in Elements
  <2>1. b = LenBlock(aad, ciphertext)
    BY <1>2, InputIs
  <2>2. IsHorner(H, StdInput(aad, ciphertext), Horner(H, StdInput(aad, ciphertext)))
    BY <1>2, InputIs, HornerIs
  <2>3. n \in 0 .. Len(StdInput(aad, ciphertext))
    BY <1>2, <1>3, InputIs
  <2> QED BY <1>2, <2>1, <2>2, <2>3, LenBlockType DEF IsHorner, HornerValue
<1> HIDE DEF b, x, n
<1> DEFINE y == GF_mul_blocks(xor_blocks(b, x), H)
<1>6. y \in Elements /\ Poly(y) = Times(Poly(xor_blocks(b, x)), Poly(H))
  BY <1>2, <1>5, PolyOfXor, MulIsTimes
<1>7. Poly(y) = {}
  BY <1>1, <1>6, PolyOfZero, PolyType, TimesEmpty
<1>8. y = Zero128
  BY <1>6, <1>7, ElementIs, PolyOfZero
<1> QED BY <1>1, <1>2, <1>4, <1>8 DEF GhashInv, n

\* A call finds its texts, and none of their blocks are absorbed.
LEMMA CallInv ==
  ASSUME GhashInv, NEW h \in HashKeys, NEW a \in AadTexts, NEW c \in CipherTexts,
         GhashCall(h, a, c)
  PROVE  GhashInv'
<1>1. H' = h /\ aad' = a /\ ciphertext' = c /\ Y' = Zero128 /\ index' = 0 /\ stage' = "aad"
  BY DEF GhashCall
<1>2. h \in Elements /\ a \in Hashed /\ c \in Hashed
  BY GhashAssumption DEF Hashed
<1>3. Place(a, 0, 0)
  BY <1>2, PlaceStart
<1>4. HornerValue(0)' = Zero128
  BY <1>1, <1>2, ValueStart DEF HornerValue
<1> QED BY <1>1, <1>2, <1>3, <1>4 DEF GhashInv

\* A block that is absorbed is the next one of Horner's rule.
LEMMA Absorbed ==
  ASSUME GhashInv, NEW k \in 0 .. Blocks(aad) + Blocks(ciphertext), Y = HornerValue(k),
         NEW block, block = StdInput(aad, ciphertext)[k + 1], AbsorbBlock(block),
         UNCHANGED <<H, aad, ciphertext>>
  PROVE  Y' = HornerValue(k + 1)'
<1>1. H \in Elements /\ aad \in Hashed /\ ciphertext \in Hashed
  BY DEF GhashInv
<1>2. HornerValue(k + 1)' = HornerValue(k + 1)
  BY DEF HornerValue
<1>3. HornerValue(k + 1) = GF_mul_blocks(xor_blocks(block, Y), H)
  BY <1>1, ValueStep DEF HornerValue
<1> QED BY <1>2, <1>3 DEF AbsorbBlock

\* A round of the loop over the associated data, or its end.
LEMMA AadInv ==
  ASSUME GhashInv, AbsorbText("aad", aad, "ciphertext")
  PROVE  GhashInv'
<1>1. /\ stage = "aad" /\ UNCHANGED <<H, aad, ciphertext>>
      /\ H \in Elements /\ aad \in Hashed /\ ciphertext \in Hashed
  BY DEF AbsorbText, GhashInv
<1>2. PICK k : Place(aad, index, k) /\ Y = HornerValue(k)
  BY <1>1 DEF GhashInv
<1>3. CASE index < Len(aad)
  <2>1. /\ AbsorbBlock(PartialBlock(aad, index))
        /\ index' = index + Min({BlockBytes, Len(aad) - index}) /\ stage' = "aad"
    BY <1>1, <1>3 DEF AbsorbText
  <2>2. /\ k \in 0 .. Blocks(aad) - 1 /\ index = k * BlockBytes
        /\ Place(aad, index', k + 1)
    BY <1>1, <1>2, <1>3, <2>1, PlaceNext
  <2>3. StdInput(aad, ciphertext)[k + 1] = PartialBlock(aad, index)
    BY <1>1, <2>2, InputIs
  <2>4. k \in 0 .. Blocks(aad) + Blocks(ciphertext)
    BY <1>1, <2>2, BlocksAre
  <2>5. Y' = HornerValue(k + 1)'
    BY <1>1, <1>2, <2>1, <2>3, <2>4, Absorbed
  <2>6. Place(aad, index, k + 1)'
    BY <1>1, <2>2 DEF Place, Blocks
  <2> QED BY <1>1, <2>1, <2>5, <2>6 DEF GhashInv
<1>4. CASE ~ (index < Len(aad))
  <2>1. index' = 0 /\ stage' = "ciphertext" /\ Y' = Y
    BY <1>1, <1>4 DEF AbsorbText
  <2>2. k = Blocks(aad) /\ Blocks(aad) \in Nat
    BY <1>1, <1>2, <1>4, PlaceEnd, BlocksAre
  <2>3. Place(ciphertext, 0, 0)
    BY <1>1, PlaceStart
  <2>4. Place(ciphertext', index', 0)
    BY <1>1, <2>1, <2>3
  <2>5. Y' = HornerValue(Blocks(aad) + 0)'
    <3>1. Blocks(aad) + 0 = k
      BY <2>2
    <3> QED BY <1>1, <1>2, <2>1, <3>1 DEF HornerValue, Blocks
  <2> QED BY <1>1, <2>1, <2>4, <2>5 DEF GhashInv
<1> QED BY <1>3, <1>4

\* A round of the loop over the ciphertext, or its end.
LEMMA CiphertextInv ==
  ASSUME GhashInv, AbsorbText("ciphertext", ciphertext, "lengths")
  PROVE  GhashInv'
<1>1. /\ stage = "ciphertext" /\ UNCHANGED <<H, aad, ciphertext>>
      /\ H \in Elements /\ aad \in Hashed /\ ciphertext \in Hashed
  BY DEF AbsorbText, GhashInv
<1>2. PICK k : Place(ciphertext, index, k) /\ Y = HornerValue(Blocks(aad) + k)
  BY <1>1 DEF GhashInv
<1>0. Blocks(aad) \in Nat /\ Blocks(ciphertext) \in Nat
  BY <1>1, BlocksAre
<1>3. CASE index < Len(ciphertext)
  <2>1. /\ AbsorbBlock(PartialBlock(ciphertext, index))
        /\ index' = index + Min({BlockBytes, Len(ciphertext) - index})
        /\ stage' = "ciphertext"
    BY <1>1, <1>3 DEF AbsorbText
  <2>2. /\ k \in 0 .. Blocks(ciphertext) - 1 /\ index = k * BlockBytes
        /\ Place(ciphertext, index', k + 1)
    BY <1>1, <1>2, <1>3, <2>1, PlaceNext
  <2>0. PICK i : i = Blocks(aad) + k
    OBVIOUS
  <2>3. StdInput(aad, ciphertext)[i + 1] = PartialBlock(ciphertext, index)
    BY <1>1, <2>0, <2>2, InputIs
  <2>4. i \in 0 .. Blocks(aad) + Blocks(ciphertext) /\ i + 1 = Blocks(aad) + (k + 1)
    BY <1>0, <2>0, <2>2
  <2>5. Y = HornerValue(i)
    BY <1>2, <2>0
  <2>6. Y' = HornerValue(i + 1)'
    BY <1>1, <2>1, <2>3, <2>4, <2>5, Absorbed
  <2>7. Y' = HornerValue(Blocks(aad) + (k + 1))'
    BY <1>1, <2>4, <2>6 DEF HornerValue, Blocks
  <2>8. Place(ciphertext, index, k + 1)'
    BY <1>1, <2>2 DEF Place, Blocks
  <2> QED BY <1>1, <2>1, <2>7, <2>8 DEF GhashInv
<1>4. CASE ~ (index < Len(ciphertext))
  <2>1. stage' = "lengths" /\ Y' = Y
    BY <1>1, <1>4 DEF AbsorbText
  <2>2. k = Blocks(ciphertext)
    BY <1>1, <1>2, <1>4, PlaceEnd
  <2>3. Y' = HornerValue(Blocks(aad) + Blocks(ciphertext))'
    BY <1>1, <1>2, <2>1, <2>2 DEF HornerValue, Blocks
  <2> QED BY <1>1, <2>1, <2>3 DEF GhashInv
<1> QED BY <1>3, <1>4

\* The last block.
LEMMA LengthsInv ==
  ASSUME GhashInv, AbsorbLengths
  PROVE  GhashInv'
<1>1. /\ stage = "lengths" /\ stage' = "done" /\ UNCHANGED <<H, aad, ciphertext>>
      /\ AbsorbBlock(LenBlock(aad, ciphertext))
      /\ H \in Elements /\ aad \in Hashed /\ ciphertext \in Hashed
  BY DEF AbsorbLengths, GhashInv
<1>0. PICK n : n = Blocks(aad) + Blocks(ciphertext)
  OBVIOUS
<1>2. n \in 0 .. Blocks(aad) + Blocks(ciphertext)
  BY <1>0, <1>1, BlocksAre
<1>3. StdInput(aad, ciphertext)[n + 1] = LenBlock(aad, ciphertext)
  BY <1>0, <1>1, InputIs
<1>4. Y = HornerValue(n)
  BY <1>0, <1>1 DEF GhashInv
<1>5. Y' = HornerValue(n + 1)'
  BY <1>1, <1>2, <1>3, <1>4, Absorbed
<1>6. Y' = HornerValue(Blocks(aad) + Blocks(ciphertext) + 1)'
  BY <1>0, <1>1, <1>5 DEF HornerValue, Blocks
<1> QED BY <1>1, <1>6 DEF GhashInv

\* Every step keeps the invariant.
LEMMA GhashStepInv == GhashInv /\ [GhashNext]_ghashVars => GhashInv'
<1> SUFFICES ASSUME GhashInv, [GhashNext]_ghashVars PROVE GhashInv'
  OBVIOUS
<1>1. CASE \E h \in HashKeys, a \in AadTexts, c \in CipherTexts : GhashCall(h, a, c)
  BY <1>1, CallInv
<1>2. CASE AbsorbText("aad", aad, "ciphertext")
  BY <1>2, AadInv
<1>3. CASE AbsorbText("ciphertext", ciphertext, "lengths")
  BY <1>3, CiphertextInv
<1>4. CASE AbsorbLengths
  BY <1>4, LengthsInv
<1>5. CASE UNCHANGED ghashVars
  <2>1. UNCHANGED <<H, aad, ciphertext, Y, index, stage>>
    BY <1>5 DEF ghashVars
  <2> QED BY <2>1 DEF GhashInv, HornerValue, Place, Blocks
<1> QED BY <1>1, <1>2, <1>3, <1>4, <1>5 DEF GhashNext

-----------------------------------------------------------------------------
\* GF_mul_blocks, which looks at the bits of one block and shifts the other,
\* multiplies in the field: it is the carry-less product, reduced from the
\* top, for every two blocks.
THEOREM MultiplicationOfTheField ==
  \A x, y \in Elements :
    Poly(GF_mul_blocks(x, y)) = Reduction(Product(Poly(x), Poly(y)))
BY MulIsTimes, PolyType, ProductTimes

\* GF_mul_blocks multiplies in any grouping and distributes over xor_blocks
\* on both sides, though it treats its two blocks differently: what lets a
\* block after the other stand for a polynomial in the hash key.
THEOREM MultiplicationIsBilinear ==
  \A x, y, z \in Elements :
    /\ GF_mul_blocks(GF_mul_blocks(x, y), z) = GF_mul_blocks(x, GF_mul_blocks(y, z))
    /\ GF_mul_blocks(xor_blocks(x, y), z)
         = xor_blocks(GF_mul_blocks(x, z), GF_mul_blocks(y, z))
    /\ GF_mul_blocks(z, xor_blocks(x, y))
         = xor_blocks(GF_mul_blocks(z, x), GF_mul_blocks(z, y))
<1> SUFFICES ASSUME NEW x \in Elements, NEW y \in Elements, NEW z \in Elements
             PROVE  /\ GF_mul_blocks(GF_mul_blocks(x, y), z)
                         = GF_mul_blocks(x, GF_mul_blocks(y, z))
                    /\ GF_mul_blocks(xor_blocks(x, y), z)
                         = xor_blocks(GF_mul_blocks(x, z), GF_mul_blocks(y, z))
                    /\ GF_mul_blocks(z, xor_blocks(x, y))
                         = xor_blocks(GF_mul_blocks(z, x), GF_mul_blocks(z, y))
  OBVIOUS
<1>1. \A u, v \in Elements :
        /\ GF_mul_blocks(u, v) \in Elements
        /\ Poly(GF_mul_blocks(u, v)) = Times(Poly(u), Poly(v))
        /\ xor_blocks(u, v) \in Elements
        /\ Poly(xor_blocks(u, v)) = SymDiff(Poly(u), Poly(v))
  BY MulIsTimes, PolyOfXor
<1>2. \A u \in Elements : Poly(u) \in Polys
  BY PolyType
<1>3. \A u, v \in Elements : Poly(u) = Poly(v) => u = v
  BY ElementIs
<1>4. GF_mul_blocks(GF_mul_blocks(x, y), z) = GF_mul_blocks(x, GF_mul_blocks(y, z))
  BY <1>1, <1>2, <1>3, TimesOrder
<1>5. GF_mul_blocks(xor_blocks(x, y), z)
        = xor_blocks(GF_mul_blocks(x, z), GF_mul_blocks(y, z))
  BY <1>1, <1>2, <1>3, TimesXorLeft
<1>6. GF_mul_blocks(z, xor_blocks(x, y))
        = xor_blocks(GF_mul_blocks(z, x), GF_mul_blocks(z, y))
  BY <1>1, <1>2, <1>3, TimesXorRight
<1> QED BY <1>4, <1>5, <1>6

\* GHASH ends with the polynomial of the standard: no block is taken
\* twice or left out where one text ends and the other begins, the padding
\* and the lengths have their places, and nothing of one call is left for
\* the next.
THEOREM HashIsPolynomial == GhashSpec => []GhashIsPolynomial
<1>1. GhashInv => GhashIsPolynomial
  <2> SUFFICES ASSUME GhashInv, stage = "done"
               PROVE  Y = StdGhash(H, aad, ciphertext)
    BY DEF GhashIsPolynomial
  <2>1. /\ H \in Elements /\ aad \in Hashed /\ ciphertext \in Hashed
        /\ Y = HornerValue(Blocks(aad) + Blocks(ciphertext) + 1)
    BY DEF GhashInv
  <2>2. /\ StdInput(aad, ciphertext) \in Seq(Elements)
        /\ Len(StdInput(aad, ciphertext)) = Blocks(aad) + Blocks(ciphertext) + 1
    BY <2>1, InputIs
  <2> QED BY <2>1, <2>2, StdGhashIsHorner DEF HornerValue
<1> QED BY <1>1, GhashStartInv, GhashStepInv, PTL DEF GhashSpec

-----------------------------------------------------------------------------
(***************************************************************************)
(* Numbers digit by digit: bigint.c                                        *)
(*                                                                         *)
(* Powers, and what a digit is worth                                       *)
(***************************************************************************)

\* Half of the subsets of 1 .. n + 1 have n + 1 in them.
LEMMA PowerDouble ==
  ASSUME NEW n \in Nat
  PROVE  2 ^ (n + 1) = 2 * 2 ^ n
<1> DEFINE S == 1 .. n
           T == 1 .. n + 1
           with == {x \cup {n + 1} : x \in SUBSET S}
           f == [x \in SUBSET S |-> x \cup {n + 1}]
<1>1. /\ IsFiniteSet(S) /\ Cardinality(S) = n
      /\ IsFiniteSet(T) /\ Cardinality(T) = n + 1
  BY FS_Interval
<1>2. /\ IsFiniteSet(SUBSET S) /\ Cardinality(SUBSET S) = 2 ^ n
      /\ Cardinality(SUBSET T) = 2 ^ (n + 1)
  <2> HIDE DEF S, T
  <2> QED BY <1>1, FS_SUBSET
<1>3. ~ (n + 1 \in S) /\ T = S \cup {n + 1}
  OBVIOUS
<1>4. SUBSET T = (SUBSET S) \cup with
  <2>1. ASSUME NEW y \in SUBSET T
        PROVE  y \in (SUBSET S) \cup with
    <3>1. CASE n + 1 \in y
      <4>1. y \ {n + 1} \in SUBSET S /\ y = (y \ {n + 1}) \cup {n + 1}
        <5> HIDE DEF S, T
        <5> QED BY <1>3, <3>1
      <4> QED BY <4>1
    <3>2. CASE ~ (n + 1 \in y)
      <4> HIDE DEF S, T
      <4> QED BY <1>3, <3>2
    <3> QED BY <3>1, <3>2
  <2>2. SUBSET S \subseteq SUBSET T /\ with \subseteq SUBSET T
    <3> HIDE DEF S, T
    <3> QED BY <1>3
  <2> HIDE DEF S, T, with
  <2> QED BY <2>1, <2>2
<1>5. (SUBSET S) \cap with = {}
  <2> HIDE DEF S
  <2> QED BY <1>3
<1>6. IsFiniteSet(with) /\ Cardinality(with) = 2 ^ n
  <2>1. f \in Bijection(SUBSET S, with)
    <3>1. f \in [SUBSET S -> with]
      OBVIOUS
    <3>2. \A x, y \in SUBSET S : f[x] = f[y] => x = y
      <4> HIDE DEF S
      <4> QED BY <1>3
    <3>3. \A w \in with : \E x \in SUBSET S : f[x] = w
      OBVIOUS
    <3> HIDE DEF f, S, with
    <3> QED BY <3>1, <3>2, <3>3 DEF Bijection, Injection, Surjection, IsInjective
  <2> HIDE DEF S, with, f
  <2> QED BY <1>2, <2>1, FS_Bijection DEF ExistsBijection
<1>7. Cardinality((SUBSET S) \cup with) = 2 ^ n + 2 ^ n
  <2>1. Cardinality({}) = 0
    BY FS_EmptySet
  <2>2. 2 ^ n \in Nat
    BY PowersOfTwo
  <2> HIDE DEF S, with
  <2>3. Cardinality((SUBSET S) \cup with)
          = Cardinality(SUBSET S) + Cardinality(with) - Cardinality((SUBSET S) \cap with)
    BY <1>2, <1>6, FS_Union
  <2>4. PICK p \in Nat : p = 2 ^ n
    BY <2>2
  <2>5. /\ Cardinality(SUBSET S) = p /\ Cardinality(with) = p
        /\ Cardinality((SUBSET S) \cap with) = 0
    BY <1>2, <1>5, <1>6, <2>1, <2>4
  <2> QED BY <2>3, <2>4, <2>5
<1>8. 2 ^ n \in Nat
  BY PowersOfTwo
<1> HIDE DEF S, T, with
<1> QED BY <1>2, <1>4, <1>7, <1>8

\* There is one subset of nothing.
LEMMA PowerZero == 2 ^ 0 = 1
<1>1. IsFiniteSet({}) /\ Cardinality({}) = 0
  BY FS_EmptySet
<1>2. Cardinality(SUBSET {}) = 2 ^ 0
  BY <1>1, FS_SUBSET
<1>3. SUBSET {} = {{}}
  OBVIOUS
<1>4. Cardinality({{}}) = 1
  BY FS_Singleton
<1> QED BY <1>2, <1>3, <1>4

\* Exponents add, by induction over the second.
LEMMA PowerSum ==
  ASSUME NEW m \in Nat, NEW n \in Nat
  PROVE  2 ^ (m + n) = 2 ^ m * 2 ^ n
<1> DEFINE Is(i) == 2 ^ (m + i) = 2 ^ m * 2 ^ i
           S == {i \in Nat : Is(i)}
<1>1. Is(0)
  <2>1. m + 0 = m /\ 2 ^ m \in Nat
    BY PowersOfTwo
  <2> QED BY <2>1, PowerZero
<1>2. ASSUME NEW i \in Nat, Is(i)
      PROVE  Is(i + 1)
  <2>1. 2 ^ (i + 1) = 2 * 2 ^ i
    BY PowerDouble
  <2>2. 2 ^ (m + (i + 1)) = 2 * 2 ^ (m + i)
    <3>1. m + i \in Nat /\ m + (i + 1) = (m + i) + 1
      OBVIOUS
    <3> QED BY <3>1, PowerDouble
  <2>3. 2 ^ i \in Nat /\ 2 ^ m \in Nat
    BY PowersOfTwo
  <2>4. \A x, y \in Nat : 2 * (x * y) = x * (2 * y)
    OBVIOUS
  <2> QED BY <1>2, <2>1, <2>2, <2>3, <2>4
<1> HIDE DEF Is
<1>3. 0 \in S /\ \A i \in Nat : i \in S => i + 1 \in S
  BY <1>1, <1>2
<1>4. Nat \subseteq S
  <2> HIDE DEF S
  <2> QED BY <1>3, Induct
<1> QED BY <1>4 DEF Is

\* A digit, and digits below n.
Digit == 0 .. Base - 1
IsDigits(d, n) == \A i \in 0 .. n - 1 : d[i] \in Digit

\* Digits have at least one bit.
LEMMA BaseIs ==
  /\ Bits \in Nat /\ Bits > 0
  /\ Base \in Nat /\ Base >= 2
  /\ 0 \in Digit /\ 1 \in Digit /\ \A x \in Digit : x \in Nat /\ x < Base
<1>1. Bits \in Nat /\ Bits > 0
  BY BitsAssumption
<1>2. Bits - 1 \in Nat /\ (Bits - 1) + 1 = Bits
  BY <1>1
<1>3. 2 ^ Bits = 2 * 2 ^ (Bits - 1)
  <2>1. PICK m \in Nat : m = Bits - 1
    BY <1>2
  <2>2. 2 ^ (m + 1) = 2 * 2 ^ m
    BY PowerDouble
  <2> QED BY <1>2, <2>1, <2>2
<1>4. 2 ^ (Bits - 1) \in Nat /\ 2 ^ (Bits - 1) > 0
  BY <1>2, PowersOfTwo
<1>5. Base \in Nat /\ Base >= 2
  BY <1>3, <1>4 DEF Base
<1> QED BY <1>1, <1>5 DEF Digit

\* Twice half the base is the base.
LEMMA HalfBase ==
  /\ Base \div 2 \in Nat /\ Base \div 2 > 0 /\ Base = 2 * (Base \div 2)
<1>1. Bits - 1 \in Nat /\ (Bits - 1) + 1 = Bits
  BY BaseIs
<1>2. PICK m \in Nat : m = Bits - 1
  BY <1>1
<1>3. 2 ^ (m + 1) = 2 * 2 ^ m
  BY PowerDouble
<1>4. PICK h \in Nat : h = 2 ^ m /\ h > 0
  BY PowersOfTwo
<1>5. Base = 2 * h
  BY <1>1, <1>2, <1>3, <1>4 DEF Base
<1>6. (2 * h) \div 2 = h
  OBVIOUS
<1> QED BY <1>4, <1>5, <1>6

\* Weights multiply where places add.
LEMMA WeightSum ==
  ASSUME NEW i \in Nat, NEW j \in Nat
  PROVE  Weight(i + j) = Weight(i) * Weight(j)
<1>1. Bits * i \in Nat /\ Bits * j \in Nat /\ Bits * (i + j) = Bits * i + Bits * j
  BY BaseIs
<1> QED BY <1>1, PowerSum DEF Weight

\* The weights, place after place,
LEMMA WeightsAre ==
  /\ Weight(0) = 1
  /\ \A i \in Nat : /\ Weight(i) \in Nat /\ Weight(i) > 0
                    /\ Weight(i + 1) = Base * Weight(i)
                    /\ Weight(i + 1) >= 2 * Weight(i)
<1>1. Bits * 0 = 0 /\ Bits * 1 = Bits
  BY BaseIs
<1>2. Weight(0) = 1 /\ Weight(1) = Base
  BY <1>1, PowerZero DEF Weight, Base
<1>3. ASSUME NEW i \in Nat
      PROVE  Weight(i) \in Nat /\ Weight(i) > 0
  <2>1. Bits * i \in Nat
    BY BaseIs
  <2> QED BY <2>1, PowersOfTwo DEF Weight
<1>4. ASSUME NEW i \in Nat
      PROVE  Weight(i + 1) = Base * Weight(i) /\ Weight(i + 1) >= 2 * Weight(i)
  <2>1. Weight(i + 1) = Weight(i) * Weight(1)
    BY WeightSum
  <2>2. PICK w \in Nat : w = Weight(i)
    BY <1>3
  <2>3. PICK b \in Nat : b = Base /\ b >= 2
    BY BaseIs
  <2>4. w * b = b * w /\ b * w >= 2 * w
    BY <2>3
  <2> QED BY <1>2, <2>1, <2>2, <2>3, <2>4
<1> QED BY <1>2, <1>3, <1>4

\* and any two of them.
LEMMA WeightsGrow ==
  ASSUME NEW i \in Nat, NEW j \in Nat, i <= j
  PROVE  Weight(i) <= Weight(j)
<1>1. j - i \in Nat /\ i + (j - i) = j
  OBVIOUS
<1>2. Weight(j) = Weight(i) * Weight(j - i)
  BY <1>1, WeightSum
<1>3. PICK v \in Nat, w \in Nat : v = Weight(i) /\ w = Weight(j - i) /\ w > 0
  BY <1>1, WeightsAre
<1>4. v * w >= v
  BY <1>3
<1> QED BY <1>2, <1>3, <1>4

(***************************************************************************)
(* Numbers                                                                 *)
(***************************************************************************)
\* g adds the digits of d up, from the lowest on.
IsSum(d, n, g) ==
  /\ g \in [0 .. n -> Nat] /\ g[0] = 0
  /\ \A i \in 0 .. n - 1 : g[i + 1] = g[i] + d[i] * Weight(i)

\* The sum over digits depends on the digits only.
LEMMA SumUnique ==
  ASSUME NEW n \in Nat, NEW m \in Nat, NEW k \in Nat, k <= n, k <= m,
         NEW d, NEW e, NEW g, NEW h, IsSum(d, n, g), IsSum(e, m, h),
         \A i \in 0 .. k - 1 : d[i] = e[i]
  PROVE  g[k] = h[k]
<1> DEFINE S == {i \in 0 .. k : g[i] = h[i]}
<1>1. 0 \in S
  BY DEF IsSum
<1>2. ASSUME NEW i \in 0 .. k - 1, i \in S
      PROVE  i + 1 \in S
  <2>1. /\ g[i + 1] = g[i] + d[i] * Weight(i) /\ h[i + 1] = h[i] + e[i] * Weight(i)
        /\ d[i] = e[i]
    BY DEF IsSum
  <2> QED BY <1>2, <2>1
<1>3. \A i \in 0 .. k : i \in S
  <2> HIDE DEF S
  <2> QED BY <1>1, <1>2, InductTo
<1> QED BY <1>3

\* A digit at its weight.
LEMMA TermType ==
  ASSUME NEW x \in Digit, NEW i \in Nat
  PROVE  x * Weight(i) \in Nat
<1>1. PICK w \in Nat : w = Weight(i)
  BY WeightsAre
<1>2. x \in Nat
  BY BaseIs
<1> QED BY <1>1, <1>2

\* NumberOf is such a sum.
LEMMA SumIs ==
  ASSUME NEW n \in Nat, NEW d, IsDigits(d, n)
  PROVE  \E g : IsSum(d, n, g) /\ NumberOf(d, n) = g[n]
<1> DEFINE Term(x, i) == x + d[i - 1] * Weight(i - 1)
           Step == [t \in Nat \X (1 .. n) |-> Term(t[1], t[2])]
           F(sum) == [i \in 0 .. n |-> IF i = 0 THEN 0 ELSE sum[i - 1] + d[i - 1] * Weight(i - 1)]
           C == CHOOSE sum : sum = F(sum)
<1>1. NumberOf(d, n) = C[n]
  BY DEF NumberOf
<1>2. \A x \in Nat, i \in 1 .. n : Term(x, i) \in Nat
  <2> SUFFICES ASSUME NEW x \in Nat, NEW i \in 1 .. n PROVE Term(x, i) \in Nat
    OBVIOUS
  <2>1. i - 1 \in 0 .. n - 1 /\ i - 1 \in Nat
    OBVIOUS
  <2>2. d[i - 1] \in Digit
    BY <2>1 DEF IsDigits
  <2>3. d[i - 1] * Weight(i - 1) \in Nat
    BY <2>1, <2>2, TermType
  <2> QED BY <2>3
<1>3. IsStep(Step, n, Nat)
  <2> HIDE DEF Term
  <2> QED BY <1>2 DEF IsStep
<1>4. \A x \in Nat, i \in 1 .. n : Step[<<x, i>>] = Term(x, i)
  <2> HIDE DEF Term
  <2> QED OBVIOUS
<1> HIDE DEF Step
<1>5. PICK g : IsRun(g, n, Nat, 0, Step)
  BY <1>3, RunExists
<1>6. /\ g \in [0 .. n -> Nat] /\ g[0] = 0
      /\ \A i \in 1 .. n : g[i] = g[i - 1] + d[i - 1] * Weight(i - 1)
  <2>1. g \in [0 .. n -> Nat] /\ g[0] = 0 /\ \A i \in 1 .. n : g[i] = Step[<<g[i - 1], i>>]
    BY <1>5 DEF IsRun
  <2>2. ASSUME NEW i \in 1 .. n PROVE g[i] = Term(g[i - 1], i)
    <3>1. g[i - 1] \in Nat
      BY <2>1
    <3> HIDE DEF Term
    <3> QED BY <1>4, <2>1, <3>1
  <2> QED BY <2>1, <2>2
<1>7. g = F(g)
  BY <1>6
<1>8. C = F(C)
  <2> HIDE DEF F
  <2> QED BY <1>7
<1>9. IsSum(d, n, C)
  <2> DEFINE c == C
  <2> HIDE DEF C
  <2>1. C[0] = 0
    BY <1>8
  <2>2. DOMAIN C = 0 .. n /\ C = [i \in 0 .. n |-> C[i]]
    BY <1>8
  <2>3. \A i \in 0 .. n - 1 : C[i + 1] = C[i] + d[i] * Weight(i)
    <3> SUFFICES ASSUME NEW i \in 0 .. n - 1 PROVE C[i + 1] = C[i] + d[i] * Weight(i)
      OBVIOUS
    <3>1. i + 1 \in 0 .. n /\ i + 1 # 0 /\ (i + 1) - 1 = i
      OBVIOUS
    <3>2. F(C)[i + 1] = C[(i + 1) - 1] + d[(i + 1) - 1] * Weight((i + 1) - 1)
      BY <3>1
    <3> HIDE DEF F
    <3> QED BY <1>8, <3>1, <3>2
  <2>4. \A i \in 0 .. n : C[i] \in Nat
    <3> DEFINE S == {i \in 0 .. n : C[i] \in Nat}
    <3>1. 0 \in S
      BY <2>1
    <3>2. ASSUME NEW i \in 0 .. n - 1, i \in S
          PROVE  i + 1 \in S
      <4>1. d[i] * Weight(i) \in Nat
        BY TermType DEF IsDigits
      <4> QED BY <2>3, <3>2, <4>1
    <3>3. \A i \in 0 .. n : i \in S
      <4> HIDE DEF S
      <4> QED BY <3>1, <3>2, InductTo
    <3> QED BY <3>3
  <2>5. C \in [0 .. n -> Nat]
    BY <2>2, <2>4
  <2> QED BY <2>1, <2>3, <2>5 DEF IsSum
<1> HIDE DEF C
<1> QED BY <1>1, <1>9

\* The number of no digits, and of one digit more: what the proofs use of it.
LEMMA NumberStep ==
  /\ \A d : NumberOf(d, 0) = 0
  /\ \A n \in Nat : \A d : IsDigits(d, n + 1) =>
       /\ IsDigits(d, n)
       /\ NumberOf(d, n + 1) = NumberOf(d, n) + d[n] * Weight(n)
<1>1. ASSUME NEW d PROVE NumberOf(d, 0) = 0
  <2>1. IsDigits(d, 0)
    BY DEF IsDigits
  <2> QED BY <2>1, SumIs DEF IsSum
<1>2. ASSUME NEW n \in Nat, NEW d, IsDigits(d, n + 1)
      PROVE  /\ IsDigits(d, n)
             /\ NumberOf(d, n + 1) = NumberOf(d, n) + d[n] * Weight(n)
  <2>1. IsDigits(d, n)
    BY <1>2 DEF IsDigits
  <2>2. PICK g : IsSum(d, n, g) /\ NumberOf(d, n) = g[n]
    BY <2>1, SumIs
  <2>3. PICK h : IsSum(d, n + 1, h) /\ NumberOf(d, n + 1) = h[n + 1]
    BY <1>2, SumIs
  <2>4. g[n] = h[n]
    BY <2>2, <2>3, SumUnique
  <2>5. h[n + 1] = h[n] + d[n] * Weight(n)
    BY <2>3 DEF IsSum
  <2> QED BY <2>1, <2>2, <2>3, <2>4, <2>5
<1> QED BY <1>1, <1>2

\* Numbers of n digits are below the weight of the next.
LEMMA NumberRange ==
  ASSUME NEW n \in Nat, NEW d, IsDigits(d, n)
  PROVE  NumberOf(d, n) \in Nat /\ NumberOf(d, n) < Weight(n)
<1> DEFINE Is(i) == NumberOf(d, i) \in Nat /\ NumberOf(d, i) < Weight(i)
           S == {i \in 0 .. n : Is(i)}
<1>1. Is(0)
  BY NumberStep, WeightsAre
<1>2. ASSUME NEW i \in 0 .. n - 1, Is(i)
      PROVE  Is(i + 1)
  <2>1. IsDigits(d, i + 1) /\ d[i] \in Digit
    BY DEF IsDigits
  <2>2. NumberOf(d, i + 1) = NumberOf(d, i) + d[i] * Weight(i)
    BY <2>1, NumberStep
  <2>3. PICK x \in Nat : x = d[i] /\ x <= Base - 1
    BY <2>1, BaseIs
  <2>4. PICK w \in Nat : w = Weight(i) /\ w > 0 /\ Weight(i + 1) = Base * w
    BY WeightsAre
  <2>5. PICK b \in Nat : b = Base
    BY BaseIs
  <2>6. x * w \in Nat /\ x * w <= (b - 1) * w /\ (b - 1) * w = b * w - w
    BY <2>3, <2>5
  <2> QED BY <1>2, <2>2, <2>3, <2>4, <2>5, <2>6
<1> HIDE DEF Is
<1>3. \A i \in 0 .. n : i \in S
  <2>1. 0 \in S /\ \A i \in 0 .. n - 1 : i \in S => i + 1 \in S
    BY <1>1, <1>2
  <2> HIDE DEF S
  <2> QED BY <2>1, InductTo
<1> QED BY <1>3 DEF Is

\* The same digits are the same number.
LEMMA NumberSame ==
  ASSUME NEW n \in Nat, NEW d, NEW e, IsDigits(d, n), \A i \in 0 .. n - 1 : e[i] = d[i]
  PROVE  NumberOf(e, n) = NumberOf(d, n) /\ IsDigits(e, n)
<1>1. IsDigits(e, n)
  BY DEF IsDigits
<1>2. PICK g : IsSum(d, n, g) /\ NumberOf(d, n) = g[n]
  BY SumIs
<1>3. PICK h : IsSum(e, n, h) /\ NumberOf(e, n) = h[n]
  BY <1>1, SumIs
<1> QED BY <1>1, <1>2, <1>3, SumUnique

\* A number is that of its lower digits and a multiple of their weight.
LEMMA NumberSplit ==
  ASSUME NEW m \in Nat, NEW n \in Nat, m <= n, NEW d, IsDigits(d, n)
  PROVE  \E q \in Nat : /\ NumberOf(d, n) = NumberOf(d, m) + Weight(m) * q
                        /\ (\A i \in m .. n - 1 : d[i] = 0) => q = 0
                        /\ (\E i \in m .. n - 1 : d[i] # 0) => q > 0
<1> DEFINE Is(i, q) == /\ NumberOf(d, m + i) = NumberOf(d, m) + Weight(m) * q
                       /\ (\A j \in m .. m + i - 1 : d[j] = 0) => q = 0
                       /\ (\E j \in m .. m + i - 1 : d[j] # 0) => q > 0
           S == {i \in 0 .. n - m : \E q \in Nat : Is(i, q)}
<1>0. n - m \in Nat
  OBVIOUS
<1>d. \A i \in 0 .. n : IsDigits(d, i)
  BY DEF IsDigits
<1>1. Is(0, 0)
  <2>1. NumberOf(d, m) \in Nat /\ Weight(m) \in Nat
    BY <1>d, NumberRange, WeightsAre
  <2> QED BY <2>1
<1>2. ASSUME NEW i \in 0 .. n - m - 1, NEW q \in Nat, Is(i, q)
      PROVE  \E p \in Nat : Is(i + 1, p)
  <2>1. PICK k \in Nat : k = m + i
    OBVIOUS
  <2>2. k + 1 \in 0 .. n /\ k \in 0 .. n - 1 /\ m + (i + 1) = k + 1
    BY <2>1
  <2>3. NumberOf(d, k + 1) = NumberOf(d, k) + d[k] * Weight(k)
    BY <1>d, <2>2, NumberStep
  <2>4. Weight(k) = Weight(m) * Weight(i)
    BY <2>1, WeightSum
  <2>5. PICK w \in Nat, v \in Nat : w = Weight(m) /\ v = Weight(i) /\ v > 0
    BY WeightsAre
  <2>6. PICK x \in Nat : x = d[k]
    BY <2>2, BaseIs DEF IsDigits
  <2>7. PICK p \in Nat : p = x * v /\ (x = 0 => p = 0) /\ (x > 0 => p > 0)
    BY <2>5, <2>6
  <2>8. PICK a \in Nat : a = NumberOf(d, m)
    BY <1>d, NumberRange
  <2>9. NumberOf(d, k + 1) = a + w * (q + p)
    <3>1. x * (w * v) = w * (x * v)
      BY <2>5, <2>6
    <3>2. w * (q + p) = w * q + w * p
      BY <2>5, <2>7
    <3>3. w * q \in Nat /\ w * p \in Nat
      BY <2>5, <2>7
    <3>4. NumberOf(d, k) = a + w * q
      BY <1>2, <2>1, <2>5, <2>8
    <3>5. NumberOf(d, k + 1) = (a + w * q) + w * p
      BY <2>3, <2>4, <2>5, <2>6, <2>7, <3>1, <3>4
    <3> QED BY <2>8, <3>2, <3>3, <3>5
  <2>10. /\ (\A j \in m .. k : d[j] = 0) => q + p = 0
         /\ (\E j \in m .. k : d[j] # 0) => q + p > 0
    <3>1. \A j : j \in m .. k <=> j \in m .. k - 1 \/ j = k
      BY <2>1
    <3>2. /\ (\A j \in m .. k - 1 : d[j] = 0) => q = 0
          /\ (\E j \in m .. k - 1 : d[j] # 0) => q > 0
      BY <1>2, <2>1
    <3>3. (\A j \in m .. k : d[j] = 0) => q + p = 0
      <4> SUFFICES ASSUME \A j \in m .. k : d[j] = 0 PROVE q = 0 /\ p = 0
        OBVIOUS
      <4>1. d[k] = 0 /\ \A j \in m .. k - 1 : d[j] = 0
        BY <2>1, <3>1
      <4> QED BY <2>6, <2>7, <3>2, <4>1
    <3>4. (\E j \in m .. k : d[j] # 0) => q + p > 0
      <4> SUFFICES ASSUME NEW j \in m .. k, d[j] # 0 PROVE q > 0 \/ p > 0
        BY <2>7
      <4>1. CASE j = k
        BY <2>6, <2>7, <4>1
      <4>2. CASE j \in m .. k - 1
        BY <3>2, <4>2
      <4> QED BY <3>1, <4>1, <4>2
    <3> QED BY <3>3, <3>4
  <2>11. q + p \in Nat /\ m + (i + 1) - 1 = k
    BY <2>1, <2>7
  <2> QED BY <2>2, <2>5, <2>8, <2>9, <2>10, <2>11
<1> HIDE DEF Is
<1>3. \A i \in 0 .. n - m : i \in S
  <2>1. 0 \in S /\ \A i \in 0 .. n - m - 1 : i \in S => i + 1 \in S
    BY <1>0, <1>1, <1>2
  <2> HIDE DEF S
  <2> QED BY <1>0, <2>1, InductTo
<1>4. PICK q \in Nat : Is(n - m, q)
  BY <1>0, <1>3
<1>5. m + (n - m) = n
  OBVIOUS
<1> QED BY <1>4, <1>5 DEF Is

\* Zeros above change nothing,
LEMMA NumberZeros ==
  ASSUME NEW m \in Nat, NEW n \in Nat, m <= n, NEW d, IsDigits(d, n),
         \A i \in m .. n - 1 : d[i] = 0
  PROVE  NumberOf(d, n) = NumberOf(d, m)
<1>1. PICK q \in Nat : NumberOf(d, n) = NumberOf(d, m) + Weight(m) * q /\ q = 0
  BY NumberSplit
<1>2. NumberOf(d, m) \in Nat /\ Weight(m) \in Nat
  <2>1. IsDigits(d, m)
    BY DEF IsDigits
  <2> QED BY <2>1, NumberRange, WeightsAre
<1> QED BY <1>1, <1>2

\* and anything else there is more than the digits below can be.
LEMMA NumberAbove ==
  ASSUME NEW m \in Nat, NEW n \in Nat, m <= n, NEW d, IsDigits(d, n),
         NEW i \in m .. n - 1, d[i] # 0
  PROVE  NumberOf(d, n) >= Weight(m)
<1>1. PICK q \in Nat : NumberOf(d, n) = NumberOf(d, m) + Weight(m) * q /\ q > 0
  BY NumberSplit
<1>2. PICK a \in Nat, w \in Nat : a = NumberOf(d, m) /\ w = Weight(m)
  <2>1. IsDigits(d, m)
    BY DEF IsDigits
  <2> QED BY <2>1, NumberRange, WeightsAre
<1>3. w * q >= w
  BY <1>1
<1> QED BY <1>1, <1>2, <1>3

\* The first digit that differs, from the top, decides.
LEMMA NumberLess ==
  ASSUME NEW n \in Nat, NEW d, NEW e, IsDigits(d, n), IsDigits(e, n),
         NEW k \in 0 .. n - 1, d[k] < e[k],
         \A i \in k + 1 .. n - 1 : d[i] = e[i]
  PROVE  NumberOf(d, n) < NumberOf(e, n)
<1> DEFINE Is(i) == NumberOf(d, k + 1 + i) < NumberOf(e, k + 1 + i)
           S == {i \in 0 .. n - (k + 1) : Is(i)}
<1>0. n - (k + 1) \in Nat
  OBVIOUS
<1>d. \A i \in 0 .. n : /\ IsDigits(d, i) /\ IsDigits(e, i)
                        /\ NumberOf(d, i) \in Nat /\ NumberOf(e, i) \in Nat
                        /\ NumberOf(d, i) < Weight(i)
  <2>1. \A i \in 0 .. n : IsDigits(d, i) /\ IsDigits(e, i)
    BY DEF IsDigits
  <2> QED BY <2>1, NumberRange
<1>1. Is(0)
  <2>1. PICK w \in Nat : w = Weight(k)
    BY WeightsAre
  <2>2. PICK x \in Nat, y \in Nat : x = d[k] /\ y = e[k] /\ x + 1 <= y
    BY BaseIs DEF IsDigits
  <2>3. k + 1 \in 0 .. n /\ k \in 0 .. n
    OBVIOUS
  <2>4. /\ NumberOf(d, k + 1) = NumberOf(d, k) + x * w
        /\ NumberOf(e, k + 1) = NumberOf(e, k) + y * w
    BY <1>d, <2>1, <2>2, <2>3, NumberStep
  <2>5. (x + 1) * w <= y * w /\ (x + 1) * w = x * w + w /\ x * w \in Nat /\ y * w \in Nat
    BY <2>1, <2>2
  <2>6. NumberOf(d, k) \in Nat /\ NumberOf(e, k) \in Nat /\ NumberOf(d, k) < w
    BY <1>d, <2>1, <2>3
  <2>7. k + 1 + 0 = k + 1
    OBVIOUS
  <2> QED BY <2>4, <2>5, <2>6, <2>7
<1>2. ASSUME NEW i \in 0 .. n - (k + 1) - 1, Is(i)
      PROVE  Is(i + 1)
  <2>1. PICK j \in Nat : j = k + 1 + i /\ j \in k + 1 .. n - 1 /\ k + 1 + (i + 1) = j + 1 /\ j + 1 \in 0 .. n
    OBVIOUS
  <2>2. d[j] = e[j] /\ d[j] \in Digit
    BY <2>1 DEF IsDigits
  <2>3. PICK t \in Nat : t = d[j] * Weight(j)
    BY <2>2, TermType
  <2>4. /\ NumberOf(d, j + 1) = NumberOf(d, j) + t
        /\ NumberOf(e, j + 1) = NumberOf(e, j) + t
    BY <1>d, <2>1, <2>2, <2>3, NumberStep
  <2>5. NumberOf(d, j) \in Nat /\ NumberOf(e, j) \in Nat /\ NumberOf(d, j) < NumberOf(e, j)
    BY <1>2, <1>d, <2>1
  <2> QED BY <2>1, <2>4, <2>5
<1> HIDE DEF Is
<1>3. \A i \in 0 .. n - (k + 1) : i \in S
  <2>1. 0 \in S /\ \A i \in 0 .. n - (k + 1) - 1 : i \in S => i + 1 \in S
    BY <1>0, <1>1, <1>2
  <2> HIDE DEF S
  <2> QED BY <1>0, <2>1, InductTo
<1>4. Is(n - (k + 1))
  BY <1>0, <1>3
<1>5. k + 1 + (n - (k + 1)) = n
  OBVIOUS
<1> QED BY <1>4, <1>5 DEF Is

\* One digit changed.
LEMMA NumberChange ==
  ASSUME NEW n \in Nat, NEW d, NEW e, IsDigits(d, n), IsDigits(e, n),
         NEW k \in 0 .. n - 1, \A i \in 0 .. n - 1 : i # k => e[i] = d[i]
  PROVE  NumberOf(e, n) + d[k] * Weight(k) = NumberOf(d, n) + e[k] * Weight(k)
<1> DEFINE Is(i) == NumberOf(e, k + 1 + i) + d[k] * Weight(k) = NumberOf(d, k + 1 + i) + e[k] * Weight(k)
           S == {i \in 0 .. n - (k + 1) : Is(i)}
<1>0. n - (k + 1) \in Nat
  OBVIOUS
<1>d. \A i \in 0 .. n : /\ IsDigits(d, i) /\ IsDigits(e, i)
                        /\ NumberOf(d, i) \in Nat /\ NumberOf(e, i) \in Nat
  <2>1. \A i \in 0 .. n : IsDigits(d, i) /\ IsDigits(e, i)
    BY DEF IsDigits
  <2> QED BY <2>1, NumberRange
<1>k. d[k] * Weight(k) \in Nat /\ e[k] * Weight(k) \in Nat
  BY TermType DEF IsDigits
<1>1. Is(0)
  <2>1. k + 1 \in 0 .. n /\ k \in 0 .. n /\ k + 1 + 0 = k + 1
    OBVIOUS
  <2>2. /\ NumberOf(d, k + 1) = NumberOf(d, k) + d[k] * Weight(k)
        /\ NumberOf(e, k + 1) = NumberOf(e, k) + e[k] * Weight(k)
    BY <1>d, <2>1, NumberStep
  <2>3. NumberOf(e, k) = NumberOf(d, k)
    BY <1>d, <2>1, NumberSame
  <2>4. NumberOf(d, k) \in Nat
    BY <1>d, <2>1
  <2> QED BY <1>k, <2>1, <2>2, <2>3, <2>4
<1>2. ASSUME NEW i \in 0 .. n - (k + 1) - 1, Is(i)
      PROVE  Is(i + 1)
  <2>1. PICK j \in Nat : j = k + 1 + i /\ j \in k + 1 .. n - 1 /\ k + 1 + (i + 1) = j + 1 /\ j + 1 \in 0 .. n
    OBVIOUS
  <2>2. d[j] = e[j] /\ d[j] \in Digit
    BY <2>1 DEF IsDigits
  <2>3. PICK t \in Nat : t = d[j] * Weight(j)
    BY <2>2, TermType
  <2>4. /\ NumberOf(d, j + 1) = NumberOf(d, j) + t
        /\ NumberOf(e, j + 1) = NumberOf(e, j) + t
    BY <1>d, <2>1, <2>2, <2>3, NumberStep
  <2>5. NumberOf(d, j) \in Nat /\ NumberOf(e, j) \in Nat
    BY <1>d, <2>1
  <2>6. NumberOf(e, j) + d[k] * Weight(k) = NumberOf(d, j) + e[k] * Weight(k)
    BY <1>2, <2>1
  <2> QED BY <1>k, <2>1, <2>4, <2>5, <2>6
<1> HIDE DEF Is
<1>3. \A i \in 0 .. n - (k + 1) : i \in S
  <2>1. 0 \in S /\ \A i \in 0 .. n - (k + 1) - 1 : i \in S => i + 1 \in S
    BY <1>0, <1>1, <1>2
  <2> HIDE DEF S
  <2> QED BY <1>0, <2>1, InductTo
<1>4. Is(n - (k + 1))
  BY <1>0, <1>3
<1>5. k + 1 + (n - (k + 1)) = n
  OBVIOUS
<1> QED BY <1>4, <1>5 DEF Is

(***************************************************************************)
(* Bigints                                                                 *)
(***************************************************************************)
\* A bigint, well-formed: its MSD within its digits, and these of Bits bits.
IsBig(x) == x.num \in Nat /\ x = Bigint(x.num, x.digits, x.msd) /\ WellFormed(x)

\* What a well-formed bigint is.
LEMMA BigIs ==
  ASSUME NEW x, IsBig(x)
  PROVE  /\ x.num \in Nat /\ x.msd \in Nat /\ x.msd < x.num /\ x.msd + 1 \in Nat
         /\ DOMAIN x.digits = 0 .. x.num - 1
         /\ \A i \in 0 .. x.num - 1 : x.digits[i] \in Digit
         /\ \A n \in 0 .. x.num : IsDigits(x.digits, n)
         /\ IsDigits(x.digits, x.msd + 1)
         /\ Value(x) \in Nat /\ Value(x) < Weight(x.msd + 1)
<1>1. x.num \in Nat /\ x.msd \in 0 .. x.num - 1 /\ x.digits \in [0 .. x.num - 1 -> Digit]
  BY DEF IsBig, WellFormed, Digit
<1>2. \A i \in 0 .. x.num - 1 : x.digits[i] \in Digit
  BY <1>1
<1>3. \A n \in 0 .. x.num : IsDigits(x.digits, n)
  BY <1>1, <1>2 DEF IsDigits
<1>4. x.msd + 1 \in 0 .. x.num
  BY <1>1
<1> QED BY <1>1, <1>2, <1>3, <1>4, NumberRange DEF Value

\* and how one is made.
LEMMA MadeBig ==
  ASSUME NEW num \in Nat, NEW digits \in [0 .. num - 1 -> Digit], NEW msd \in 0 .. num - 1
  PROVE  /\ IsBig(Bigint(num, digits, msd))
         /\ Bigint(num, digits, msd).num = num
         /\ Bigint(num, digits, msd).digits = digits
         /\ Bigint(num, digits, msd).msd = msd
BY DEF IsBig, Bigint, WellFormed, Digit

\* The same digits up to the MSD, and nothing in those that one has more.
LEMMA ValueSame ==
  ASSUME NEW x, NEW n \in Nat, NEW d, IsBig(x), x.msd < n, IsDigits(d, n),
         \A i \in 0 .. n - 1 : d[i] = IF i <= x.msd THEN x.digits[i] ELSE 0
  PROVE  NumberOf(d, n) = Value(x)
<1>1. PICK m : m = x.msd + 1 /\ m \in Nat /\ m <= n /\ IsDigits(x.digits, m)
  BY BigIs
<1>2. NumberOf(d, n) = NumberOf(d, m)
  <2>1. \A i \in m .. n - 1 : d[i] = 0
    BY <1>1, BigIs
  <2> QED BY <1>1, <2>1, NumberZeros
<1>3. NumberOf(d, m) = NumberOf(x.digits, m)
  <2>1. \A i \in 0 .. m - 1 : d[i] = x.digits[i]
    BY <1>1, BigIs
  <2> QED BY <1>1, <2>1, NumberSame
<1> QED BY <1>1, <1>2, <1>3 DEF Value

\* Writing digits and an MSD within the digits allocated keeps a bigint one.
LEMMA StoreIs ==
  ASSUME NEW x, IsBig(x), NEW f, DOMAIN f \subseteq 0 .. x.num - 1,
         \A i \in DOMAIN f : f[i] \in Digit, NEW msd \in 0 .. x.num - 1
  PROVE  /\ IsBig(Store(x, f, msd))
         /\ Store(x, f, msd).num = x.num /\ Store(x, f, msd).msd = msd
         /\ \A i \in 0 .. x.num - 1 :
              Store(x, f, msd).digits[i] = IF i \in DOMAIN f THEN f[i] ELSE x.digits[i]
<1> DEFINE d == Over(f, x.digits)
<1>1. DOMAIN x.digits = 0 .. x.num - 1 /\ x.num \in Nat
      /\ \A i \in 0 .. x.num - 1 : x.digits[i] \in Digit
  BY BigIs
<1>2. DOMAIN f \cup DOMAIN x.digits = 0 .. x.num - 1
  BY <1>1
<1>3. d = [i \in 0 .. x.num - 1 |-> IF i \in DOMAIN f THEN f[i] ELSE x.digits[i]]
  BY <1>2 DEF Over
<1>4. d \in [0 .. x.num - 1 -> Digit]
  BY <1>1, <1>3
<1>5. Store(x, f, msd) = Bigint(x.num, d, msd)
  BY DEF Store
<1> HIDE DEF d
<1>6. /\ IsBig(Store(x, f, msd)) /\ Store(x, f, msd).num = x.num
      /\ Store(x, f, msd).msd = msd /\ Store(x, f, msd).digits = d
  BY <1>1, <1>4, <1>5, MadeBig
<1>7. \A i \in 0 .. x.num - 1 : d[i] = IF i \in DOMAIN f THEN f[i] ELSE x.digits[i]
  BY <1>3
<1> QED BY <1>6, <1>7

\* bigint_init makes a zero,
LEMMA FreshIs ==
  ASSUME NEW num \in Nat, num > 0
  PROVE  /\ IsBig(Fresh(num)) /\ Fresh(num).num = num /\ Fresh(num).msd = 0
         /\ \A i \in 0 .. num - 1 : Fresh(num).digits[i] = 0
         /\ DOMAIN Fresh(num).digits = 0 .. num - 1
         /\ Value(Fresh(num)) = 0
<1> DEFINE d == [i \in 0 .. num - 1 |-> 0]
<1>1. d \in [0 .. num - 1 -> Digit] /\ Fresh(num) = Bigint(num, d, 0) /\ 0 \in 0 .. num - 1
  BY BaseIs DEF Fresh
<1>2. IsBig(Fresh(num)) /\ Fresh(num).num = num /\ Fresh(num).msd = 0 /\ Fresh(num).digits = d
  BY <1>1, MadeBig
<1>3. Value(Fresh(num)) = 0
  <2>1. Value(Fresh(num)) = NumberOf(d, 1)
    BY <1>2 DEF Value
  <2>2. IsDigits(d, 1)
    BY BaseIs DEF IsDigits
  <2>3. NumberOf(d, 1) = NumberOf(d, 0)
    BY <2>2, NumberZeros
  <2> QED BY <2>1, <2>3, NumberStep
<1> QED BY <1>2, <1>3

\* bigint_expand keeps the number and adds zeros,
LEMMA ExpandIs ==
  ASSUME NEW x, IsBig(x), NEW num \in Nat
  PROVE  /\ IsBig(Expand(x, num))
         /\ Expand(x, num).num = IF x.num >= num THEN x.num ELSE num
         /\ Expand(x, num).msd = x.msd
         /\ \A i \in 0 .. x.num - 1 : Expand(x, num).digits[i] = x.digits[i]
         /\ Value(Expand(x, num)) = Value(x)
<1>1. CASE x.num >= num
  BY <1>1 DEF Expand
<1>2. CASE x.num < num
  <2> DEFINE d == Over(x.digits, Fresh(num).digits)
  <2>1. /\ x.num \in Nat /\ x.msd \in 0 .. x.num - 1 /\ DOMAIN x.digits = 0 .. x.num - 1
        /\ \A i \in 0 .. x.num - 1 : x.digits[i] \in Digit
    BY BigIs
  <2>2. DOMAIN Fresh(num).digits = 0 .. num - 1 /\ \A i \in 0 .. num - 1 : Fresh(num).digits[i] \in Digit
    <3>1. num \in Nat /\ num > 0
      BY <1>2, <2>1
    <3>2. DOMAIN Fresh(num).digits = 0 .. num - 1 /\ \A i \in 0 .. num - 1 : Fresh(num).digits[i] = 0
      BY <3>1, FreshIs, Zenon
    <3> QED BY <3>2, BaseIs, Zenon
  <2>3. DOMAIN x.digits \cup DOMAIN Fresh(num).digits = 0 .. num - 1
    BY <1>2, <2>1, <2>2
  <2>4. d = [i \in 0 .. num - 1 |-> IF i \in 0 .. x.num - 1 THEN x.digits[i] ELSE Fresh(num).digits[i]]
    BY <2>1, <2>3 DEF Over
  <2>5. d \in [0 .. num - 1 -> Digit] /\ \A i \in 0 .. x.num - 1 : d[i] = x.digits[i]
    BY <1>2, <2>1, <2>2, <2>4
  <2>6. Expand(x, num) = Bigint(num, d, x.msd)
    BY <1>2, <2>1 DEF Expand
  <2> HIDE DEF d
  <2>7. x.msd \in 0 .. num - 1
    BY <1>2, <2>1
  <2>8. /\ IsBig(Expand(x, num)) /\ Expand(x, num).num = num
        /\ Expand(x, num).msd = x.msd /\ Expand(x, num).digits = d
    BY <2>5, <2>6, <2>7, MadeBig
  <2>9. NumberOf(d, x.msd + 1) = NumberOf(x.digits, x.msd + 1)
    BY <2>1, <2>5, BigIs, NumberSame
  <2> QED BY <1>2, <2>1, <2>5, <2>8, <2>9 DEF Value
<1> QED BY <1>1, <1>2, BigIs

\* bigint_copy copies the number, and not what is above it,
LEMMA CopyIs ==
  ASSUME NEW src, NEW dest, IsBig(src), IsBig(dest)
  PROVE  /\ IsBig(Copy(src, dest))
         /\ Copy(src, dest).num = IF dest.num >= src.msd + 1 THEN dest.num ELSE src.msd + 1
         /\ Copy(src, dest).msd = src.msd
         /\ \A i \in 0 .. src.msd : Copy(src, dest).digits[i] = src.digits[i]
         /\ \A i \in src.msd + 1 .. dest.num - 1 : Copy(src, dest).digits[i] = dest.digits[i]
         /\ Value(Copy(src, dest)) = Value(src)
<1> DEFINE room == Expand(dest, src.msd + 1)
           f == [i \in 0 .. src.msd |-> src.digits[i]]
<1>1. /\ src.msd \in Nat /\ src.num \in Nat /\ src.msd < src.num
      /\ dest.num \in Nat /\ \A i \in 0 .. src.num - 1 : src.digits[i] \in Digit
  BY BigIs
<1>2. /\ IsBig(room) /\ room.num = IF dest.num >= src.msd + 1 THEN dest.num ELSE src.msd + 1
      /\ \A i \in 0 .. dest.num - 1 : room.digits[i] = dest.digits[i]
  <2>1. src.msd + 1 \in Nat
    BY <1>1
  <2> QED BY <2>1, ExpandIs
<1> HIDE DEF room
<1>3. /\ room.num \in Nat /\ src.msd \in 0 .. room.num - 1
      /\ dest.num <= room.num
  BY <1>1, <1>2
<1>4. /\ DOMAIN f = 0 .. src.msd /\ DOMAIN f \subseteq 0 .. room.num - 1
      /\ \A i \in DOMAIN f : f[i] \in Digit
  BY <1>1, <1>3
<1>5. Copy(src, dest) = Store(room, f, src.msd)
  BY DEF Copy, room
<1>6. /\ IsBig(Copy(src, dest)) /\ Copy(src, dest).num = room.num
      /\ Copy(src, dest).msd = src.msd
      /\ \A i \in 0 .. room.num - 1 :
              Copy(src, dest).digits[i] = IF i \in 0 .. src.msd THEN f[i] ELSE room.digits[i]
  <2> HIDE DEF f
  <2> QED BY <1>2, <1>3, <1>4, <1>5, StoreIs
<1>7. ASSUME NEW i \in 0 .. src.msd
      PROVE  Copy(src, dest).digits[i] = src.digits[i]
  <2>1. i \in 0 .. room.num - 1 /\ f[i] = src.digits[i]
    BY <1>1, <1>3
  <2> HIDE DEF f
  <2> QED BY <1>6, <2>1
<1>8. ASSUME NEW i \in src.msd + 1 .. dest.num - 1
      PROVE  Copy(src, dest).digits[i] = dest.digits[i]
  <2>1. i \in 0 .. room.num - 1 /\ ~ (i \in 0 .. src.msd) /\ i \in 0 .. dest.num - 1
    BY <1>1, <1>3
  <2> HIDE DEF f
  <2> QED BY <1>2, <1>6, <2>1
<1>9. Value(Copy(src, dest)) = Value(src)
  <2>1. IsDigits(src.digits, src.msd + 1)
    BY BigIs
  <2> QED BY <1>1, <1>6, <1>7, <2>1, NumberSame DEF Value
<1> QED BY <1>2, <1>6, <1>7, <1>8, <1>9

\* and bigint_from_small_int leaves zeros above the digit.
LEMMA SmallIntIs ==
  ASSUME NEW x, IsBig(x), NEW d \in Digit
  PROVE  /\ IsBig(SmallInt(x, d)) /\ SmallInt(x, d).num = x.num /\ SmallInt(x, d).msd = 0
         /\ SmallInt(x, d).digits[0] = d
         /\ \A i \in 1 .. x.num - 1 : SmallInt(x, d).digits[i] = 0
<1> DEFINE f == [i \in {0} |-> d]
<1>1. x.num \in Nat /\ x.num > 0
  BY BigIs
<1>2. /\ IsBig(Fresh(x.num)) /\ Fresh(x.num).num = x.num
      /\ \A i \in 0 .. x.num - 1 : Fresh(x.num).digits[i] = 0
  BY <1>1, FreshIs
<1>3. DOMAIN f = {0} /\ f[0] = d /\ DOMAIN f \subseteq 0 .. x.num - 1 /\ \A i \in DOMAIN f : f[i] \in Digit
  BY <1>1
<1>4. SmallInt(x, d) = Store(Fresh(x.num), f, 0) /\ 0 \in 0 .. x.num - 1
  BY <1>1 DEF SmallInt
<1> HIDE DEF f
<1>5. /\ IsBig(SmallInt(x, d)) /\ SmallInt(x, d).num = x.num /\ SmallInt(x, d).msd = 0
      /\ \A i \in 0 .. x.num - 1 :
           SmallInt(x, d).digits[i] = IF i \in DOMAIN f THEN f[i] ELSE Fresh(x.num).digits[i]
  BY <1>2, <1>3, <1>4, StoreIs
<1> QED BY <1>1, <1>2, <1>3, <1>5

(***************************************************************************)
(* Maxima                                                                  *)
(***************************************************************************)

\* A bounded set of numbers has a greatest one.
LEMMA MaxIs ==
  ASSUME NEW S \in SUBSET Nat, S # {}, NEW n \in Nat, \A s \in S : s <= n
  PROVE  Max(S) \in S /\ \A s \in S : s <= Max(S)
<1> DEFINE U == {m \in Nat : \A s \in S : s <= m}
<1>1. PICK m \in U : \A k \in U : m <= k
  <2>1. U \in SUBSET Nat /\ U # {}
    OBVIOUS
  <2> HIDE DEF U
  <2> QED BY <2>1, Least
<1>2. m \in S
  <2> SUFFICES ASSUME ~ (m \in S) PROVE FALSE
    OBVIOUS
  <2>1. \A s \in S : s <= m - 1
    BY <1>1
  <2>2. m - 1 \in Nat
    <3>1. PICK s \in S : TRUE
      OBVIOUS
    <3>2. s \in Nat /\ s <= m - 1
      BY <2>1
    <3> QED BY <3>2
  <2>3. m - 1 \in U
    BY <2>1, <2>2
  <2> QED BY <1>1, <2>3
<1>3. m \in S /\ \A y \in S : m >= y
  BY <1>1, <1>2
<1>4. Max(S) \in S /\ \A y \in S : Max(S) >= y
  BY <1>3, Zenon DEF Max
<1> QED BY <1>4

\* The greater and the less of two.
LEMMA MaxTwo ==
  ASSUME NEW m \in Nat, NEW n \in Nat
  PROVE  /\ Max({m, n}) = IF m > n THEN m ELSE n
         /\ Min({m, n}) = IF m > n THEN n ELSE m
<1>1. Max({m, n}) = CHOOSE x \in {m, n} : \A y \in {m, n} : x >= y
  BY DEF Max
<1>2. Min({m, n}) = CHOOSE x \in {m, n} : \A y \in {m, n} : x =< y
  BY DEF Min
<1>3. CASE m > n
  BY <1>1, <1>2, <1>3
<1>4. CASE m <= n
  BY <1>1, <1>2, <1>4
<1> QED BY <1>3, <1>4

(***************************************************************************)
(* Clamping and comparing                                                  *)
(***************************************************************************)

\* No leading zeros, but for zero itself.
Trimmed(x) == x.msd = 0 \/ x.digits[x.msd] # 0

\* bigint_clamp takes the leading zeros off and keeps the number.
LEMMA ClampIs ==
  ASSUME NEW x, IsBig(x)
  PROVE  /\ IsBig(Clamp(x)) /\ Clamp(x).num = x.num /\ Clamp(x).digits = x.digits
         /\ Clamp(x).msd <= x.msd /\ Trimmed(Clamp(x))
         /\ Value(Clamp(x)) = Value(x)
<1> DEFINE S == {0} \cup {i \in 0 .. x.msd : x.digits[i] # 0}
           m == Max(S)
<1>1. /\ x.num \in Nat /\ x.msd \in Nat /\ x.msd < x.num
      /\ x.digits \in [0 .. x.num - 1 -> Digit] /\ x = Bigint(x.num, x.digits, x.msd)
      /\ IsDigits(x.digits, x.msd + 1)
  <2>1. x.digits \in [0 .. x.num - 1 -> Digit] /\ x = Bigint(x.num, x.digits, x.msd)
    BY DEF IsBig, WellFormed, Digit
  <2> QED BY <2>1, BigIs
<1>2. m \in S /\ \A s \in S : s <= m
  <2>1. S \in SUBSET Nat /\ S # {} /\ \A s \in S : s <= x.msd
    BY <1>1
  <2> HIDE DEF S
  <2> QED BY <1>1, <2>1, MaxIs
<1>3. Clamp(x) = Bigint(x.num, x.digits, m)
  <2>1. Clamp(x) = [x EXCEPT !.msd = m]
    BY DEF Clamp
  <2> HIDE DEF m
  <2> QED BY <1>1, <2>1 DEF Bigint
<1>4. m \in 0 .. x.num - 1 /\ m <= x.msd /\ m \in Nat
  <2> HIDE DEF m
  <2> QED BY <1>1, <1>2
<1>5. m = 0 \/ x.digits[m] # 0
  <2> HIDE DEF m
  <2> QED BY <1>2
<1>6. \A i \in m + 1 .. x.msd : x.digits[i] = 0
  <2> HIDE DEF m
  <2> QED BY <1>1, <1>2, <1>4
<1> HIDE DEF m
<1>7. NumberOf(x.digits, x.msd + 1) = NumberOf(x.digits, m + 1)
  BY <1>1, <1>4, <1>6, NumberZeros
<1>8. /\ IsBig(Clamp(x)) /\ Clamp(x).num = x.num /\ Clamp(x).digits = x.digits
      /\ Clamp(x).msd = m
  BY <1>1, <1>3, <1>4, MadeBig
<1> QED BY <1>4, <1>5, <1>7, <1>8 DEF Trimmed, Value

\* bigint_cmp is the order of numbers, whatever leading zeros and allocated
\* digits its operands have.
THEOREM CmpIsOrder ==
  ASSUME NEW a, NEW b, IsBig(a), IsBig(b)
  PROVE  /\ Cmp(a, b) = 0 <=> Value(a) = Value(b)
         /\ Cmp(a, b) = -1 <=> Value(a) < Value(b)
<1> DEFINE digit(x, i) == IF i <= x.msd THEN x.digits[i] ELSE 0
           M == IF a.msd > b.msd THEN a.msd ELSE b.msd
           differ == {i \in 0 .. M : digit(a, i) # digit(b, i)}
           A == [i \in 0 .. M |-> digit(a, i)]
           B == [i \in 0 .. M |-> digit(b, i)]
           top == Max(differ)
<1>1. /\ a.msd \in Nat /\ b.msd \in Nat /\ a.msd < a.num /\ b.msd < b.num /\ a.num \in Nat /\ b.num \in Nat
      /\ \A i \in 0 .. a.num - 1 : a.digits[i] \in Digit
      /\ \A i \in 0 .. b.num - 1 : b.digits[i] \in Digit
      /\ Value(a) \in Nat /\ Value(b) \in Nat
  BY BigIs
<1>2. M \in Nat /\ a.msd <= M /\ b.msd <= M /\ Max({a.msd, b.msd}) = M
  BY <1>1, MaxTwo
<1>3. Cmp(a, b) = IF differ = {} THEN 0 ELSE IF digit(a, top) < digit(b, top) THEN -1 ELSE 1
  BY <1>2 DEF Cmp
<1> HIDE DEF M
<1>4. /\ IsDigits(A, M + 1) /\ IsDigits(B, M + 1)
      /\ \A i \in 0 .. M : /\ A[i] \in Digit /\ B[i] \in Digit
                           /\ A[i] = digit(a, i) /\ B[i] = digit(b, i)
  <2>1. \A i \in 0 .. M : digit(a, i) \in Digit /\ digit(b, i) \in Digit
    BY <1>1, <1>2, BaseIs
  <2>2. \A i \in 0 .. M : A[i] = digit(a, i) /\ B[i] = digit(b, i)
    OBVIOUS
  <2>3. \A i : i \in 0 .. (M + 1) - 1 <=> i \in 0 .. M
    BY <1>2
  <2> HIDE DEF A, B
  <2> QED BY <2>1, <2>2, <2>3 DEF IsDigits
<1>5. NumberOf(A, M + 1) = Value(a) /\ NumberOf(B, M + 1) = Value(b)
  <2>1. /\ \A i \in 0 .. (M + 1) - 1 : A[i] = IF i <= a.msd THEN a.digits[i] ELSE 0
        /\ \A i \in 0 .. (M + 1) - 1 : B[i] = IF i <= b.msd THEN b.digits[i] ELSE 0
    BY <1>2
  <2>2. M + 1 \in Nat /\ a.msd < M + 1 /\ b.msd < M + 1
    BY <1>1, <1>2
  <2> HIDE DEF A, B
  <2> QED BY <1>4, <2>1, <2>2, ValueSame
<1>6. CASE differ = {}
  <2>1. \A i \in 0 .. (M + 1) - 1 : A[i] = B[i]
    BY <1>2, <1>6
  <2>2. NumberOf(A, M + 1) = NumberOf(B, M + 1)
    <3> HIDE DEF A, B
    <3> QED BY <1>2, <1>4, <2>1, NumberSame
  <2>3. Cmp(a, b) = 0
    BY <1>3, <1>6
  <2> QED BY <1>1, <1>5, <2>2, <2>3
<1>7. CASE differ # {}
  <2>1. top \in differ /\ \A s \in differ : s <= top
    <3>1. differ \in SUBSET Nat /\ \A s \in differ : s <= M
      BY <1>2
    <3> HIDE DEF differ
    <3> QED BY <1>2, <1>7, <3>1, MaxIs
  <2> HIDE DEF top
  <2>2. top \in 0 .. M /\ A[top] # B[top] /\ \A i \in top + 1 .. M : A[i] = B[i]
    <3>1. top \in 0 .. M /\ digit(a, top) # digit(b, top)
      BY <2>1
    <3>2. \A i \in top + 1 .. M : digit(a, i) = digit(b, i)
      BY <1>2, <2>1, <3>1
    <3> QED BY <1>2, <1>4, <3>1, <3>2
  <2>3. /\ top \in 0 .. (M + 1) - 1 /\ \A i \in top + 1 .. (M + 1) - 1 : A[i] = B[i] /\ B[i] = A[i]
        /\ M + 1 \in Nat
    <3> HIDE DEF A, B
    <3> QED BY <1>2, <2>2
  <2>4. A[top] \in Nat /\ B[top] \in Nat
    BY <1>4, <2>2, BaseIs
  <2>5. CASE A[top] < B[top]
    <3>1. NumberOf(A, M + 1) < NumberOf(B, M + 1)
      <4> HIDE DEF A, B
      <4> QED BY <1>4, <2>3, <2>5, NumberLess
    <3>2. Cmp(a, b) = -1
      BY <1>3, <1>4, <1>7, <2>2, <2>5
    <3> QED BY <1>1, <1>5, <3>1, <3>2
  <2>6. CASE B[top] < A[top]
    <3>1. NumberOf(B, M + 1) < NumberOf(A, M + 1)
      <4> HIDE DEF A, B
      <4> QED BY <1>4, <2>3, <2>6, NumberLess
    <3>2. ~ (A[top] < B[top])
      BY <2>4, <2>6
    <3>3. Cmp(a, b) = 1
      BY <1>3, <1>4, <1>7, <2>2, <3>2
    <3> QED BY <1>1, <1>5, <3>1, <3>3
  <2> QED BY <2>2, <2>4, <2>5, <2>6
<1> QED BY <1>6, <1>7

\* Bigints with the same digits are the same.
LEMMA BigEqual ==
  ASSUME NEW x, NEW y, IsBig(x), IsBig(y), x.num = y.num, x.msd = y.msd,
         \A i \in 0 .. x.num - 1 : x.digits[i] = y.digits[i]
  PROVE  x = y
<1>1. /\ x.digits \in [0 .. x.num - 1 -> Digit] /\ y.digits \in [0 .. x.num - 1 -> Digit]
      /\ x = Bigint(x.num, x.digits, x.msd) /\ y = Bigint(x.num, y.digits, x.msd)
  BY DEF IsBig, WellFormed, Digit
<1>2. x.digits = y.digits
  <2>1. PICK f \in [0 .. x.num - 1 -> Digit] : f = x.digits
    BY <1>1
  <2>2. PICK g \in [0 .. x.num - 1 -> Digit] : g = y.digits
    BY <1>1
  <2>3. \A i \in 0 .. x.num - 1 : f[i] = g[i]
    BY <2>1, <2>2
  <2>4. f = g
    <3> DEFINE S == 0 .. x.num - 1
    <3>1. f \in [S -> Digit] /\ g \in [S -> Digit] /\ \A i \in S : f[i] = g[i]
      BY <2>3
    <3> HIDE DEF S
    <3>2. f = [i \in S |-> f[i]] /\ g = [i \in S |-> g[i]]
      BY <3>1
    <3> QED BY <3>1, <3>2, Zenon
  <2> QED BY <2>1, <2>2, <2>4
<1> QED BY <1>1, <1>2

\* bigint_left_shift, where there is room: every digit one place up.
LEMMA LeftShiftIs ==
  ASSUME NEW x, IsBig(x), x.msd + 1 < x.num
  PROVE  /\ IsBig(LeftShift(x)) /\ LeftShift(x).num = x.num /\ LeftShift(x).msd = x.msd + 1
         /\ LeftShift(x).digits[0] = 0
         /\ \A i \in 1 .. x.msd + 1 : LeftShift(x).digits[i] = x.digits[i - 1]
         /\ \A i \in x.msd + 2 .. x.num - 1 : LeftShift(x).digits[i] = x.digits[i]
<1> DEFINE f == [i \in 0 .. x.msd + 1 |-> IF i = 0 THEN 0 ELSE x.digits[i - 1]]
<1>1. x.num \in Nat /\ x.msd \in Nat /\ \A i \in 0 .. x.num - 1 : x.digits[i] \in Digit
  BY BigIs
<1>2. LeftShift(x) = Store(x, f, x.msd + 1)
  BY <1>1 DEF LeftShift
<1>3. /\ DOMAIN f = 0 .. x.msd + 1
      /\ \A i \in 0 .. x.msd + 1 : f[i] = IF i = 0 THEN 0 ELSE x.digits[i - 1]
  OBVIOUS
<1> HIDE DEF f
<1>4. /\ DOMAIN f \subseteq 0 .. x.num - 1 /\ x.msd + 1 \in 0 .. x.num - 1
      /\ \A i \in DOMAIN f : f[i] \in Digit
  <2>1. DOMAIN f \subseteq 0 .. x.num - 1 /\ x.msd + 1 \in 0 .. x.num - 1
    BY <1>1, <1>3
  <2>2. ASSUME NEW i \in 0 .. x.msd + 1 PROVE f[i] \in Digit
    <3>1. CASE i = 0
      BY <1>3, <3>1, BaseIs
    <3>2. CASE i # 0
      <4>1. i - 1 \in 0 .. x.num - 1
        BY <1>1, <3>2
      <4>2. f[i] = x.digits[i - 1]
        BY <1>3, <3>2
      <4> QED BY <1>1, <4>1, <4>2
    <3> QED BY <3>1, <3>2
  <2> QED BY <1>3, <2>1, <2>2, Zenon
<1>5. /\ IsBig(LeftShift(x)) /\ LeftShift(x).num = x.num /\ LeftShift(x).msd = x.msd + 1
      /\ \A i \in 0 .. x.num - 1 :
           LeftShift(x).digits[i] = IF i \in DOMAIN f THEN f[i] ELSE x.digits[i]
  BY <1>2, <1>4, StoreIs
<1> QED BY <1>1, <1>3, <1>5

\* bigint_from_bytes puts the last digit read lowest, and the MSD at the first
\* one read, a zero or not.
LEMMA FromBytesIs ==
  ASSUME NEW N \in Nat, NEW ds \in Seq(Digit), Len(ds) \in 1 .. N
  PROVE  /\ IsBig(FromBytes(Fresh(N), ds)) /\ FromBytes(Fresh(N), ds).num = N
         /\ FromBytes(Fresh(N), ds).msd = Len(ds) - 1
         /\ \A i \in 0 .. Len(ds) - 1 : FromBytes(Fresh(N), ds).digits[i] = ds[Len(ds) - i]
         /\ \A i \in Len(ds) .. N - 1 : FromBytes(Fresh(N), ds).digits[i] = 0
<1> DEFINE x == Fresh(N)
           L == Len(ds)
           First(n) == [i \in {0} |-> ds[n]]
           F(shifted) == [n \in 0 .. L |->
             IF n = 0 THEN SmallInt(x, 0)
             ELSE Store(IF n = 1 THEN shifted[0] ELSE LeftShift(shifted[n - 1]), First(n), n - 1)]
           C == CHOOSE shifted : shifted = F(shifted)
           D(n) == [i \in 0 .. N - 1 |-> IF i < n THEN ds[n - i] ELSE 0]
           M(n) == IF n = 0 THEN 0 ELSE n - 1
           g == [n \in 0 .. L |-> Bigint(N, D(n), M(n))]
<1>1. FromBytes(x, ds) = C[L]
  BY DEF FromBytes
<1>2. L \in Nat /\ L \in 1 .. N /\ N > 0 /\ 0 \in 0 .. L /\ L \in 0 .. L /\ \A n \in 1 .. L : ds[n] \in Digit
  OBVIOUS
<1>3. IsBig(x) /\ x.num = N
  BY <1>2, FreshIs
<1> HIDE DEF x, L
<1>4. ASSUME NEW n \in 0 .. L
      PROVE  /\ IsBig(g[n]) /\ g[n].num = N /\ g[n].msd = M(n)
             /\ \A i \in 0 .. N - 1 : g[n].digits[i] = IF i < n THEN ds[n - i] ELSE 0
  <2>1. \A i \in 0 .. N - 1 : i < n => n - i \in 1 .. L
    BY <1>2
  <2>2. D(n) \in [0 .. N - 1 -> Digit]
    BY <1>2, <2>1, BaseIs
  <2>3. M(n) \in 0 .. N - 1
    BY <1>2
  <2>4. g[n] = Bigint(N, D(n), M(n))
    OBVIOUS
  <2>5. \A i \in 0 .. N - 1 : D(n)[i] = IF i < n THEN ds[n - i] ELSE 0
    OBVIOUS
  <2> HIDE DEF D, M, g
  <2> QED BY <2>2, <2>3, <2>4, <2>5, MadeBig
<1> HIDE DEF g
<1>5. ASSUME NEW n \in 0 .. L
      PROVE  g[n] = IF n = 0 THEN SmallInt(x, 0)
                    ELSE Store(IF n = 1 THEN g[0] ELSE LeftShift(g[n - 1]), First(n), n - 1)
  <2>1. CASE n = 0
    <3>1. \A i \in 0 .. N - 1 : g[0].digits[i] = 0
      BY <1>4, <2>1
    <3>2. IsBig(g[0]) /\ g[0].num = N /\ g[0].msd = 0
      BY <1>4, <2>1
    <3>3. /\ IsBig(SmallInt(x, 0)) /\ SmallInt(x, 0).num = N /\ SmallInt(x, 0).msd = 0
          /\ SmallInt(x, 0).digits[0] = 0
          /\ \A i \in 1 .. N - 1 : SmallInt(x, 0).digits[i] = 0
      BY <1>3, SmallIntIs, BaseIs
    <3>4. \A i \in 0 .. N - 1 : SmallInt(x, 0).digits[i] = 0
      BY <3>3
    <3>5. g[0] = SmallInt(x, 0)
      BY <3>1, <3>2, <3>3, <3>4, BigEqual
    <3> QED BY <2>1, <3>5
  <2>2. CASE n # 0
    <3> DEFINE prev == IF n = 1 THEN g[0] ELSE LeftShift(g[n - 1])
               r == Store(prev, First(n), n - 1)
    <3>1. /\ IsBig(prev) /\ prev.num = N
          /\ \A i \in 1 .. N - 1 : prev.digits[i] = IF i < n THEN ds[n - i] ELSE 0
      <4>1. CASE n = 1
        <5>1. IsBig(g[0]) /\ g[0].num = N /\ \A i \in 0 .. N - 1 : g[0].digits[i] = 0
          BY <1>2, <1>4
        <5>2. prev = g[0]
          BY <4>1
        <5> HIDE DEF prev
        <5> QED BY <4>1, <5>1, <5>2
      <4>2. CASE n # 1
        <5>1. PICK p \in 0 .. L : p = n - 1 /\ p > 0 /\ p < N
          BY <1>2, <2>2, <4>2
        <5>2. /\ IsBig(g[p]) /\ g[p].num = N /\ g[p].msd = p - 1
              /\ \A i \in 0 .. N - 1 : g[p].digits[i] = IF i < p THEN ds[p - i] ELSE 0
          BY <1>4, <5>1
        <5>3. prev = LeftShift(g[p]) /\ g[p].msd + 1 < g[p].num /\ g[p].msd + 1 = p /\ g[p].msd + 2 = n
          BY <4>2, <5>1, <5>2
        <5> HIDE DEF prev
        <5>4. /\ IsBig(prev) /\ prev.num = N
              /\ \A i \in 1 .. p : prev.digits[i] = g[p].digits[i - 1]
              /\ \A i \in n .. N - 1 : prev.digits[i] = g[p].digits[i]
          BY <5>2, <5>3, LeftShiftIs
        <5>5. ASSUME NEW i \in 1 .. N - 1
              PROVE  prev.digits[i] = IF i < n THEN ds[n - i] ELSE 0
          <6>1. CASE i < n
            <7>1. i \in 1 .. p /\ i - 1 \in 0 .. N - 1 /\ i - 1 < p /\ p - (i - 1) = n - i
              BY <5>1, <6>1
            <7> QED BY <5>2, <5>4, <6>1, <7>1
          <6>2. CASE i >= n
            <7>1. i \in n .. N - 1 /\ i \in 0 .. N - 1 /\ ~ (i < p) /\ ~ (i < n)
              BY <5>1, <6>2
            <7> QED BY <5>2, <5>4, <7>1
          <6> QED BY <6>1, <6>2
        <5> QED BY <5>4, <5>5
      <4> QED BY <4>1, <4>2
    <3> HIDE DEF prev
    <3>2. /\ DOMAIN First(n) = {0} /\ First(n)[0] = ds[n] /\ 0 \in 0 .. prev.num - 1
          /\ DOMAIN First(n) \subseteq 0 .. prev.num - 1
          /\ \A i \in DOMAIN First(n) : First(n)[i] \in Digit
          /\ n - 1 \in 0 .. prev.num - 1
      BY <1>2, <2>2, <3>1
    <3> HIDE DEF First
    <3>3. /\ IsBig(r) /\ r.num = N /\ r.msd = n - 1
          /\ \A i \in 0 .. N - 1 : r.digits[i] = IF i \in {0} THEN ds[n] ELSE prev.digits[i]
      BY <3>1, <3>2, StoreIs
    <3> HIDE DEF r
    <3>4. \A i \in 0 .. N - 1 : r.digits[i] = IF i < n THEN ds[n - i] ELSE 0
      <4> SUFFICES ASSUME NEW i \in 0 .. N - 1 PROVE r.digits[i] = IF i < n THEN ds[n - i] ELSE 0
        OBVIOUS
      <4>1. CASE i = 0
        <5>1. i < n /\ n - i = n
          BY <2>2, <4>1
        <5> QED BY <3>3, <4>1, <5>1
      <4>2. CASE i # 0
        <5>1. i \in 1 .. N - 1
          BY <4>2
        <5> QED BY <3>1, <3>3, <4>2, <5>1
      <4> QED BY <4>1, <4>2
    <3>5. /\ IsBig(g[n]) /\ g[n].num = N /\ g[n].msd = n - 1
          /\ \A i \in 0 .. N - 1 : g[n].digits[i] = IF i < n THEN ds[n - i] ELSE 0
      BY <1>4, <2>2
    <3>6. g[n] = r
      <4>1. \A i \in 0 .. N - 1 : g[n].digits[i] = r.digits[i]
        BY <3>4, <3>5
      <4> QED BY <3>3, <3>5, <4>1, BigEqual
    <3> QED BY <2>2, <3>6 DEF r, prev
  <2> QED BY <2>1, <2>2
<1>6. g = F(g)
  <2>1. DOMAIN g = 0 .. L /\ g = [n \in 0 .. L |-> g[n]]
    BY DEF g
  <2> HIDE DEF First
  <2> QED BY <1>5, <2>1
<1>7. C = F(C)
  <2> HIDE DEF F
  <2> QED BY <1>6
<1> HIDE DEF C, First
<1>8. \A n \in 0 .. L : C[n] = g[n]
  <2> DEFINE S == {n \in 0 .. L : C[n] = g[n]}
  <2>1. 0 \in S
    <3>1. F(C)[0] = SmallInt(x, 0) /\ F(g)[0] = SmallInt(x, 0)
      BY <1>2
    <3> HIDE DEF F
    <3> QED BY <1>2, <1>6, <1>7, <3>1
  <2>2. ASSUME NEW m \in 0 .. L - 1, m \in S
        PROVE  m + 1 \in S
    <3>1. PICK n \in 0 .. L : n = m + 1 /\ n # 0 /\ n - 1 = m
      BY <1>2
    <3>2. C[0] = g[0] /\ C[n - 1] = g[n - 1]
      BY <2>1, <2>2, <3>1
    <3>3. F(C)[n] = Store(IF n = 1 THEN C[0] ELSE LeftShift(C[n - 1]), First(n), n - 1)
      BY <3>1
    <3>4. F(g)[n] = Store(IF n = 1 THEN g[0] ELSE LeftShift(g[n - 1]), First(n), n - 1)
      BY <3>1
    <3> HIDE DEF F
    <3>5. C[n] = g[n]
      BY <1>6, <1>7, <3>2, <3>3, <3>4
    <3> QED BY <3>1, <3>5
  <2>3. \A n \in 0 .. L : n \in S
    <3> HIDE DEF S
    <3> QED BY <1>2, <2>1, <2>2, InductTo
  <2> QED BY <2>3
<1>9. /\ IsBig(g[L]) /\ g[L].num = N /\ g[L].msd = L - 1
      /\ \A i \in 0 .. N - 1 : g[L].digits[i] = IF i < L THEN ds[L - i] ELSE 0
  BY <1>2, <1>4
<1>10. /\ \A i \in 0 .. L - 1 : g[L].digits[i] = ds[L - i]
       /\ \A i \in L .. N - 1 : g[L].digits[i] = 0
  <2> HIDE DEF L
  <2>1. ASSUME NEW i \in 0 .. L - 1 PROVE g[L].digits[i] = ds[L - i]
    <3>1. i \in 0 .. N - 1 /\ i < L
      BY <1>2
    <3> QED BY <1>9, <3>1, Zenon
  <2>2. ASSUME NEW i \in L .. N - 1 PROVE g[L].digits[i] = 0
    <3>1. i \in 0 .. N - 1 /\ ~ (i < L)
      BY <1>2
    <3> QED BY <1>9, <3>1, Zenon
  <2> QED BY <2>1, <2>2
<1> QED BY <1>1, <1>2, <1>8, <1>9, <1>10 DEF x, L

(***************************************************************************)
(* Doubling                                                                *)
(***************************************************************************)

\* A digit doubled, with the carry into it and out of it.
LEMMA DoubleDigit ==
  ASSUME NEW x \in Digit, NEW c \in 0 .. 1
  PROVE  /\ x \div (Base \div 2) \in 0 .. 1
         /\ (2 * x + c) % Base \in Digit
         /\ (2 * x + c) % Base = 2 * x + c - Base * (x \div (Base \div 2))
         /\ x \div (Base \div 2) = 0 => x <= (2 * x + c) % Base
<1>1. PICK h \in Nat : h = Base \div 2 /\ h > 0 /\ Base = 2 * h
  BY HalfBase
<1>2. x \in Nat /\ x < 2 * h
  BY <1>1, BaseIs
<1>3. CASE x < h
  <2>1. x \div h = 0
    BY <1>1, <1>2, <1>3
  <2>2. (2 * x + c) % (2 * h) = 2 * x + c
    BY <1>1, <1>2, <1>3
  <2>3. 2 * x + c \in 0 .. 2 * h - 1
    BY <1>1, <1>2, <1>3
  <2> QED BY <1>1, <1>2, <2>1, <2>2, <2>3 DEF Digit
<1>4. CASE x >= h
  <2>1. x \div h = 1
    BY <1>1, <1>2, <1>4
  <2>2. 2 * x + c - 2 * h \in 0 .. 2 * h - 1
    BY <1>1, <1>2, <1>4
  <2>3. (2 * x + c) % (2 * h) = 2 * x + c - 2 * h
    <3>1. PICK r \in 0 .. 2 * h - 1 : r = 2 * x + c - 2 * h
      BY <2>2
    <3>2. 2 * x + c = 2 * h + r
      BY <1>2, <3>1
    <3>3. (2 * h + r) % (2 * h) = r
      BY <1>1
    <3> QED BY <3>1, <3>2, <3>3
  <2> QED BY <1>1, <1>2, <2>1, <2>2, <2>3 DEF Digit
<1> QED BY <1>2, <1>3, <1>4

\* A digit, with what carries into it and out of it, at its weight.
LEMMA CarryWeighed ==
  ASSUME NEW s \in Nat, NEW t \in Nat, NEW c \in 0 .. 1, NEW e \in 0 .. 1,
         NEW w \in Nat, s + Base * e = t + c
  PROVE  s * w + e * (Base * w) = t * w + c * w
<1>1. PICK b \in Nat : b = Base
  BY BaseIs
<1>2. (s + b * e) * w = s * w + (b * e) * w /\ (t + c) * w = t * w + c * w
  BY <1>1
<1>3. (b * e) * w = e * (b * w)
  BY <1>1
<1> QED BY <1>1, <1>2, <1>3

\* The sums of digits, and the carry out of the last, are the sum,
LEMMA AddSum ==
  ASSUME NEW n \in Nat, NEW d, NEW e, NEW s, NEW carry,
         IsDigits(d, n), IsDigits(e, n), IsDigits(s, n),
         carry[0] = 0, \A i \in 0 .. n : carry[i] \in 0 .. 1,
         \A i \in 0 .. n - 1 : s[i] + Base * carry[i + 1] = d[i] + e[i] + carry[i]
  PROVE  NumberOf(s, n) + carry[n] * Weight(n) = NumberOf(d, n) + NumberOf(e, n)
<1> DEFINE Is(i) == NumberOf(s, i) + carry[i] * Weight(i) = NumberOf(d, i) + NumberOf(e, i)
           S == {i \in 0 .. n : Is(i)}
<1>d. \A i \in 0 .. n : /\ IsDigits(d, i) /\ IsDigits(e, i) /\ IsDigits(s, i)
                        /\ NumberOf(d, i) \in Nat /\ NumberOf(e, i) \in Nat
                        /\ NumberOf(s, i) \in Nat
  <2>1. \A i \in 0 .. n : IsDigits(d, i) /\ IsDigits(e, i) /\ IsDigits(s, i)
    BY DEF IsDigits
  <2> QED BY <2>1, NumberRange
<1>1. Is(0)
  <2>1. 0 * Weight(0) = 0
    BY WeightsAre
  <2> QED BY <2>1, NumberStep
<1>2. ASSUME NEW i \in 0 .. n - 1, Is(i)
      PROVE  Is(i + 1)
  <2>1. PICK x \in Nat, y \in Nat, z \in Nat : x = d[i] /\ y = e[i] /\ z = s[i]
    BY BaseIs DEF IsDigits
  <2>2. PICK w \in Nat : w = Weight(i) /\ Weight(i + 1) = Base * w
    BY WeightsAre
  <2>3. PICK c \in 0 .. 1, o \in 0 .. 1 : c = carry[i] /\ o = carry[i + 1]
    OBVIOUS
  <2>4. z + Base * o = (x + y) + c
    BY <2>1, <2>3
  <2>5. x + y \in Nat
    BY <2>1
  <2>6. z * w + o * (Base * w) = (x + y) * w + c * w
    BY <2>4, <2>5, CarryWeighed
  <2>7. i \in Nat /\ i + 1 \in 0 .. n /\ i \in 0 .. n
    OBVIOUS
  <2>8. /\ NumberOf(d, i + 1) = NumberOf(d, i) + x * w
        /\ NumberOf(e, i + 1) = NumberOf(e, i) + y * w
        /\ NumberOf(s, i + 1) = NumberOf(s, i) + z * w
    BY <1>d, <2>1, <2>2, <2>7, NumberStep
  <2>9. PICK xw \in Nat, yw \in Nat, zw \in Nat, cw \in Nat, ow \in Nat :
          xw = x * w /\ yw = y * w /\ zw = z * w /\ cw = c * w /\ ow = o * (Base * w)
    BY BaseIs
  <2>10. (x + y) * w = xw + yw
    BY <2>1, <2>2, <2>9
  <2>11. NumberOf(s, i) + cw = NumberOf(d, i) + NumberOf(e, i)
    BY <1>2, <2>2, <2>3, <2>9
  <2>12. zw + ow = xw + yw + cw
    BY <2>6, <2>9, <2>10
  <2>13. NumberOf(s, i) \in Nat /\ NumberOf(d, i) \in Nat /\ NumberOf(e, i) \in Nat
    BY <1>d, <2>7
  <2>14. (NumberOf(s, i) + zw) + ow = (NumberOf(d, i) + xw) + (NumberOf(e, i) + yw)
    BY <2>9, <2>11, <2>12, <2>13
  <2> QED BY <2>2, <2>3, <2>8, <2>9, <2>14
<1> HIDE DEF Is
<1>3. \A i \in 0 .. n : i \in S
  <2>1. 0 \in S /\ \A i \in 0 .. n - 1 : i \in S => i + 1 \in S
    BY <1>1, <1>2
  <2> HIDE DEF S
  <2> QED BY <2>1, InductTo
<1>4. Is(n)
  BY <1>3
<1> QED BY <1>4 DEF Is

\* and the double of one number.
LEMMA DoubleSum ==
  ASSUME NEW n \in Nat, NEW d, NEW s, NEW carry, IsDigits(d, n), IsDigits(s, n),
         carry[0] = 0, \A i \in 0 .. n : carry[i] \in 0 .. 1,
         \A i \in 0 .. n - 1 : s[i] + Base * carry[i + 1] = 2 * d[i] + carry[i]
  PROVE  NumberOf(s, n) + carry[n] * Weight(n) = 2 * NumberOf(d, n)
<1>1. \A i \in 0 .. n - 1 : s[i] + Base * carry[i + 1] = d[i] + d[i] + carry[i]
  <2>1. \A i \in 0 .. n - 1 : d[i] \in Nat
    BY BaseIs DEF IsDigits
  <2> QED BY <2>1
<1>2. NumberOf(s, n) + carry[n] * Weight(n) = NumberOf(d, n) + NumberOf(d, n)
  BY <1>1, AddSum
<1>3. NumberOf(d, n) \in Nat
  BY NumberRange
<1> QED BY <1>2, <1>3

\* bigint_left_bit_shift into itself doubles, and its last bit is zero.
LEMMA LeftBitShiftIs ==
  ASSUME NEW a, IsBig(a)
  PROVE  /\ IsBig(LeftBitShift(a, a))
         /\ LeftBitShift(a, a).num = IF a.num >= a.msd + 2 THEN a.num ELSE a.msd + 2
         /\ LeftBitShift(a, a).msd \in {a.msd, a.msd + 1}
         /\ Trimmed(a) => Trimmed(LeftBitShift(a, a))
         /\ Value(LeftBitShift(a, a)) = 2 * Value(a)
         /\ LeftBitShift(a, a).digits[0] % 2 = 0
<1> DEFINE carry(i) == IF i = 0 THEN 0 ELSE a.digits[i - 1] \div (Base \div 2)
           shifted == [i \in 0 .. a.msd |-> (2 * a.digits[i] + carry(i)) % Base]
           room == Expand(a, a.msd + 2)
           C == LeftBitShift(a, a)
           n == a.msd + 1
           one == [i \in {n} |-> 1]
           f == IF carry(n) = 0 THEN shifted ELSE Over(shifted, one)
           top == IF carry(n) = 0 THEN a.msd ELSE n
           cf == [i \in 0 .. n |-> carry(i)]
<1>1. /\ a.num \in Nat /\ a.msd \in Nat /\ a.msd < a.num /\ n \in Nat
      /\ \A i \in 0 .. a.msd : a.digits[i] \in Digit
      /\ IsDigits(a.digits, n) /\ Value(a) = NumberOf(a.digits, n) /\ Value(a) \in Nat
  BY BigIs DEF Value
<1>2. C = Store(room, f, top)
  BY DEF LeftBitShift
<1>3. /\ IsBig(room) /\ room.num = IF a.num >= a.msd + 2 THEN a.num ELSE a.msd + 2
      /\ room.num \in Nat /\ n < room.num
  <2>1. a.msd + 2 \in Nat
    BY <1>1
  <2>2. IsBig(room) /\ room.num = IF a.num >= a.msd + 2 THEN a.num ELSE a.msd + 2
    BY <2>1, ExpandIs
  <2> QED BY <1>1, <2>2
<1>4. \A i \in 0 .. n : carry(i) \in 0 .. 1
  <2> SUFFICES ASSUME NEW i \in 0 .. n PROVE carry(i) \in 0 .. 1
    OBVIOUS
  <2>1. CASE i = 0
    BY <2>1
  <2>2. CASE i # 0
    <3>1. i - 1 \in 0 .. a.msd
      BY <1>1, <2>2
    <3>2. a.digits[i - 1] \div (Base \div 2) \in 0 .. 1
      BY <1>1, <3>1, DoubleDigit
    <3> QED BY <2>2, <3>2
  <2> QED BY <2>1, <2>2
<1>5. \A i \in 0 .. a.msd : /\ shifted[i] \in Digit
                            /\ shifted[i] + Base * carry(i + 1) = 2 * a.digits[i] + carry(i)
                            /\ carry(i + 1) = 0 => a.digits[i] <= shifted[i]
  <2> SUFFICES ASSUME NEW i \in 0 .. a.msd
               PROVE  /\ shifted[i] \in Digit
                      /\ shifted[i] + Base * carry(i + 1) = 2 * a.digits[i] + carry(i)
                      /\ carry(i + 1) = 0 => a.digits[i] <= shifted[i]
    OBVIOUS
  <2>1. PICK x \in Digit, c \in 0 .. 1 : x = a.digits[i] /\ c = carry(i)
    <3> HIDE DEF carry
    <3>1. i \in 0 .. n /\ a.digits[i] \in Digit
      BY <1>1
    <3>2. carry(i) \in 0 .. 1
      BY <1>4, <3>1, Zenon
    <3> QED BY <3>1, <3>2, Zenon
  <2>2. shifted[i] = (2 * x + c) % Base
    BY <2>1
  <2>3. i + 1 # 0 /\ (i + 1) - 1 = i
    BY <1>1
  <2>4. carry(i + 1) = x \div (Base \div 2)
    BY <2>1, <2>3
  <2> HIDE DEF shifted, carry
  <2>5. PICK e \in 0 .. 1 : e = carry(i + 1)
    BY <2>1, <2>4, DoubleDigit
  <2>6. /\ shifted[i] \in Digit /\ shifted[i] = 2 * x + c - Base * e
        /\ e = 0 => x <= shifted[i]
    BY <2>1, <2>2, <2>4, <2>5, DoubleDigit
  <2>7. x \in Nat /\ Base * e \in Nat
    BY BaseIs
  <2>8. shifted[i] + Base * e = 2 * x + c
    BY <2>6, <2>7
  <2> QED BY <2>1, <2>5, <2>6, <2>8
<1>6. DOMAIN shifted = 0 .. a.msd /\ carry(0) = 0 /\ \A i \in 0 .. n : cf[i] = carry(i)
  OBVIOUS
<1>7. shifted[0] % 2 = 0
  <2>1. 0 \in 0 .. a.msd
    BY <1>1
  <2>2. PICK y \in Nat, x \in Nat, h \in Nat, e \in 0 .. 1 :
          /\ y = shifted[0] /\ x = a.digits[0] /\ e = carry(1) /\ Base = 2 * h
    <3> HIDE DEF shifted, carry
    <3>1. 1 \in 0 .. n
      BY <1>1
    <3> QED BY <1>1, <1>4, <1>5, <2>1, <3>1, BaseIs, HalfBase
  <2>3. y + (2 * h) * e = 2 * x
    <3>1. shifted[0] + Base * carry(0 + 1) = 2 * a.digits[0] + carry(0)
      BY <1>5, <2>1
    <3> HIDE DEF shifted, carry
    <3>2. carry(0 + 1) = e /\ carry(0) = 0
      BY <1>6, <2>2
    <3>3. y + Base * e = 2 * x + 0
      BY <2>2, <3>1, <3>2, Zenon
    <3>4. Base = 2 * h
      BY <2>2
    <3>5. 2 * x + 0 = 2 * x
      BY <2>2
    <3> QED BY <3>3, <3>4, <3>5, Zenon
  <2>4. y % 2 = 0
    <3>1. CASE e = 0
      BY <2>3, <3>1
    <3>2. CASE e = 1
      <4>1. y + 2 * h = 2 * x
        BY <2>3, <3>2
      <4> QED BY <4>1
    <3> QED BY <3>1, <3>2
  <2> QED BY <2>2, <2>4
<1> HIDE DEF carry, shifted
<1>8. NumberOf(shifted, n) + carry(n) * Weight(n) = 2 * Value(a)
  <2>1. IsDigits(shifted, n)
    <3>1. \A i \in 0 .. n - 1 : i \in 0 .. a.msd
      BY <1>1
    <3> QED BY <1>5, <3>1 DEF IsDigits
  <2>2. cf[0] = 0 /\ \A i \in 0 .. n : cf[i] \in 0 .. 1
    BY <1>1, <1>4, <1>6
  <2>3. \A i \in 0 .. n - 1 : shifted[i] + Base * cf[i + 1] = 2 * a.digits[i] + cf[i]
    <3> SUFFICES ASSUME NEW i \in 0 .. n - 1
                 PROVE  shifted[i] + Base * cf[i + 1] = 2 * a.digits[i] + cf[i]
      OBVIOUS
    <3>1. i \in 0 .. a.msd /\ i \in 0 .. n /\ i + 1 \in 0 .. n
      BY <1>1
    <3> QED BY <1>5, <1>6, <3>1
  <2>4. n \in 0 .. n
    BY <1>1
  <2> HIDE DEF cf, n
  <2>5. NumberOf(shifted, n) + cf[n] * Weight(n) = 2 * NumberOf(a.digits, n)
    BY <1>1, <2>1, <2>2, <2>3, DoubleSum
  <2> QED BY <1>1, <1>6, <2>4, <2>5
<1>9. /\ DOMAIN f = IF carry(n) = 0 THEN 0 .. a.msd ELSE 0 .. n
      /\ \A i \in 0 .. a.msd : f[i] = shifted[i]
      /\ carry(n) # 0 => f[n] = 1
  <2>1. CASE carry(n) = 0
    BY <1>6, <2>1
  <2>2. CASE carry(n) # 0
    <3>1. f = Over(shifted, one)
      BY <2>2
    <3>2. DOMAIN shifted \cup DOMAIN one = 0 .. n /\ DOMAIN one = {n} /\ one[n] = 1
      BY <1>1, <1>6
    <3>3. Over(shifted, one) = [i \in 0 .. n |-> IF i \in 0 .. a.msd THEN shifted[i] ELSE one[i]]
      BY <1>6, <3>2 DEF Over
    <3>4. ~ (n \in 0 .. a.msd) /\ n \in 0 .. n /\ \A i \in 0 .. a.msd : i \in 0 .. n
      BY <1>1
    <3> HIDE DEF one, f, n
    <3> QED BY <2>2, <3>1, <3>2, <3>3, <3>4
  <2> QED BY <2>1, <2>2
<1> HIDE DEF f, C, room
<1>10. top \in 0 .. room.num - 1 /\ DOMAIN f = 0 .. top /\ \A i \in 0 .. top : f[i] \in Digit
  <2>1. CASE carry(n) = 0
    <3>1. top = a.msd
      BY <2>1
    <3> HIDE DEF top
    <3> QED BY <1>1, <1>3, <1>5, <1>9, <2>1, <3>1
  <2>2. CASE carry(n) # 0
    <3>1. top = n
      BY <2>2
    <3> HIDE DEF top
    <3>2. \A i \in 0 .. n : i \in 0 .. a.msd \/ i = n
      BY <1>1
    <3>3. \A i \in 0 .. n : f[i] \in Digit
      BY <1>5, <1>9, <2>2, <3>2, BaseIs
    <3> QED BY <1>1, <1>3, <1>9, <2>2, <3>1, <3>3
  <2> QED BY <2>1, <2>2
<1>11. /\ IsBig(C) /\ C.num = room.num /\ C.msd = top
       /\ \A i \in 0 .. top : C.digits[i] = f[i]
  <2>1. DOMAIN f \subseteq 0 .. room.num - 1
    BY <1>3, <1>10
  <2> HIDE DEF top
  <2>2. /\ IsBig(C) /\ C.num = room.num /\ C.msd = top
        /\ \A i \in 0 .. room.num - 1 : C.digits[i] = IF i \in DOMAIN f THEN f[i] ELSE room.digits[i]
    BY <1>2, <1>3, <1>10, <2>1, StoreIs
  <2> QED BY <1>10, <2>1, <2>2
<1>12. Value(C) = 2 * Value(a)
  <2>1. IsDigits(C.digits, top + 1) /\ Value(C) = NumberOf(C.digits, top + 1)
    BY <1>11, BigIs DEF Value
  <2>2. \A i \in 0 .. a.msd : C.digits[i] = shifted[i]
    <3>1. \A i \in 0 .. a.msd : i \in 0 .. top
      BY <1>1
    <3> QED BY <1>9, <1>11, <3>1
  <2>3. NumberOf(C.digits, n) = NumberOf(shifted, n) /\ IsDigits(shifted, n)
    <3>1. \A i \in 0 .. n - 1 : i \in 0 .. a.msd
      BY <1>1
    <3>2. IsDigits(shifted, n)
      BY <1>5, <3>1 DEF IsDigits
    <3> HIDE DEF n
    <3> QED BY <1>1, <2>2, <3>1, <3>2, NumberSame
  <2>4. CASE carry(n) = 0
    <3>1. top + 1 = n
      BY <2>4
    <3>2. 0 * Weight(n) = 0 /\ NumberOf(shifted, n) \in Nat
      BY <1>1, <2>3, WeightsAre, NumberRange
    <3> HIDE DEF n
    <3>3. NumberOf(shifted, n) + 0 = 2 * Value(a)
      BY <1>8, <2>4, <3>2
    <3> QED BY <2>1, <2>3, <3>1, <3>2, <3>3
  <2>5. CASE carry(n) # 0
    <3>1. top = n /\ n \in 0 .. n
      BY <1>1, <2>5
    <3> HIDE DEF top
    <3>2. C.digits[n] = 1
      BY <1>9, <1>11, <2>5, <3>1
    <3>3. carry(n) = 1
      BY <1>4, <2>5, <3>1
    <3> HIDE DEF n
    <3>4. NumberOf(C.digits, n + 1) = NumberOf(C.digits, n) + C.digits[n] * Weight(n)
      BY <1>1, <2>1, <3>1, NumberStep
    <3> QED BY <1>8, <2>1, <2>3, <3>1, <3>2, <3>3, <3>4
  <2> QED BY <2>4, <2>5
<1>13. Trimmed(a) => Trimmed(C)
  <2>1. CASE carry(n) = 0
    <3>1. top = a.msd /\ a.msd \in 0 .. a.msd
      BY <1>1, <2>1
    <3>2. C.msd = a.msd /\ C.digits[a.msd] = shifted[a.msd]
      <4> HIDE DEF top
      <4> QED BY <1>9, <1>11, <3>1
    <3>3. a.digits[a.msd] <= shifted[a.msd] /\ a.digits[a.msd] \in Nat /\ shifted[a.msd] \in Nat
      BY <1>1, <1>5, <2>1, <3>1, BaseIs
    <3> HIDE DEF top, n
    <3> QED BY <3>2, <3>3 DEF Trimmed
  <2>2. CASE carry(n) # 0
    <3>1. top = n /\ n \in 0 .. n
      BY <1>1, <2>2
    <3> HIDE DEF top
    <3>2. C.msd = n /\ C.digits[n] = 1
      BY <1>9, <1>11, <2>2, <3>1
    <3> HIDE DEF n
    <3> QED BY <3>2 DEF Trimmed
  <2> QED BY <2>1, <2>2
<1>14. C.digits[0] % 2 = 0
  <2>1. 0 \in 0 .. top /\ 0 \in 0 .. a.msd
    BY <1>1
  <2> HIDE DEF top
  <2> QED BY <1>7, <1>9, <1>11, <2>1
<1>15. C.msd \in {a.msd, a.msd + 1}
  <2>1. top \in {a.msd, a.msd + 1}
    OBVIOUS
  <2> HIDE DEF top
  <2> QED BY <1>11, <2>1
<1> QED BY <1>3, <1>11, <1>12, <1>13, <1>14, <1>15 DEF C

\* The same digits above k.
LEMMA NumberTail ==
  ASSUME NEW n \in Nat, NEW k \in 0 .. n, NEW d, NEW e, IsDigits(d, n), IsDigits(e, n),
         \A i \in k .. n - 1 : e[i] = d[i]
  PROVE  NumberOf(e, n) + NumberOf(d, k) = NumberOf(d, n) + NumberOf(e, k)
<1> DEFINE Is(i) == NumberOf(e, k + i) + NumberOf(d, k) = NumberOf(d, k + i) + NumberOf(e, k)
           S == {i \in 0 .. n - k : Is(i)}
<1>0. n - k \in Nat /\ k \in 0 .. n
  OBVIOUS
<1>d. \A i \in 0 .. n : /\ IsDigits(d, i) /\ IsDigits(e, i)
                        /\ NumberOf(d, i) \in Nat /\ NumberOf(e, i) \in Nat
  <2>1. \A i \in 0 .. n : IsDigits(d, i) /\ IsDigits(e, i)
    BY DEF IsDigits
  <2> QED BY <2>1, NumberRange
<1>1. Is(0)
  <2>1. NumberOf(d, k) \in Nat /\ NumberOf(e, k) \in Nat
    BY <1>d
  <2> QED BY <2>1
<1>2. ASSUME NEW i \in 0 .. n - k - 1, Is(i)
      PROVE  Is(i + 1)
  <2>1. PICK j \in Nat : j = k + i /\ j \in k .. n - 1 /\ k + (i + 1) = j + 1 /\ j + 1 \in 0 .. n
    OBVIOUS
  <2>2. d[j] = e[j] /\ d[j] \in Digit
    BY <2>1 DEF IsDigits
  <2>3. PICK t \in Nat : t = d[j] * Weight(j)
    BY <2>2, TermType
  <2>4. /\ NumberOf(d, j + 1) = NumberOf(d, j) + t
        /\ NumberOf(e, j + 1) = NumberOf(e, j) + t
    BY <1>d, <2>1, <2>2, <2>3, NumberStep
  <2>5. /\ NumberOf(d, j) \in Nat /\ NumberOf(e, j) \in Nat
        /\ NumberOf(d, k) \in Nat /\ NumberOf(e, k) \in Nat
    BY <1>d, <2>1
  <2> QED BY <1>2, <2>1, <2>4, <2>5
<1> HIDE DEF Is
<1>3. \A i \in 0 .. n - k : i \in S
  <2>1. 0 \in S /\ \A i \in 0 .. n - k - 1 : i \in S => i + 1 \in S
    BY <1>0, <1>1, <1>2
  <2> HIDE DEF S
  <2> QED BY <1>0, <2>1, InductTo
<1>4. Is(n - k)
  BY <1>0, <1>3
<1>5. k + (n - k) = n
  OBVIOUS
<1> QED BY <1>4, <1>5 DEF Is

(***************************************************************************)
(* Adding                                                                  *)
(***************************************************************************)

\* Two digits and a carry make a digit and a carry.
LEMMA AddDigits ==
  ASSUME NEW x \in Digit, NEW y \in Digit, NEW c \in 0 .. 1
  PROVE  /\ (x + y + c) \div Base \in 0 .. 1
         /\ (x + y + c) % Base \in Digit
         /\ ((x + y + c) % Base) + Base * ((x + y + c) \div Base) = x + y + c
<1>1. PICK b \in Nat : b = Base /\ b >= 2
  BY BaseIs
<1>2. x \in Nat /\ y \in Nat /\ x < b /\ y < b
  BY <1>1, BaseIs
<1>3. PICK t \in Nat : t = x + y + c /\ t < 2 * b
  BY <1>2
<1>4. CASE t < b
  <2>1. t \div b = 0 /\ t % b = t
    BY <1>1, <1>3, <1>4
  <2> QED BY <1>1, <1>3, <1>4, <2>1 DEF Digit
<1>5. CASE t >= b
  <2>1. PICK r \in 0 .. b - 1 : t = b + r
    <3>1. t - b \in 0 .. b - 1 /\ t = b + (t - b)
      BY <1>1, <1>3, <1>5
    <3> QED BY <3>1
  <2>2. (b + r) \div b = 1 /\ (b + r) % b = r
    BY <1>1
  <2> QED BY <1>1, <1>3, <2>1, <2>2 DEF Digit
<1> QED BY <1>1, <1>3, <1>4, <1>5

\* The operands by their MSDs, as bigint_add takes them.
Shorter(a, b) == IF a.msd > b.msd THEN b ELSE a
Longer(a, b) == IF a.msd > b.msd THEN a ELSE b

\* Which operand bigint_add takes for the shorter one.
LEMMA ShorterIs ==
  ASSUME NEW a, NEW b, IsBig(a), IsBig(b)
  PROVE  /\ Shorter(a, b).msd \in Nat /\ Longer(a, b).msd \in Nat
         /\ Shorter(a, b).msd = Min({a.msd, b.msd}) /\ Longer(a, b).msd = Max({a.msd, b.msd})
         /\ Shorter(a, b).msd <= a.msd /\ Shorter(a, b).msd <= b.msd
         /\ Longer(a, b).msd >= a.msd /\ Longer(a, b).msd >= b.msd
         /\ IsBig(Shorter(a, b)) /\ IsBig(Longer(a, b))
<1>1. a.msd \in Nat /\ b.msd \in Nat
  BY BigIs
<1>2. CASE a.msd > b.msd
  <2>1. Shorter(a, b) = b /\ Longer(a, b) = a
    BY <1>2 DEF Shorter, Longer
  <2> QED BY <1>1, <1>2, <2>1, MaxTwo
<1>3. CASE ~ (a.msd > b.msd)
  <2>1. Shorter(a, b) = a /\ Longer(a, b) = b
    BY <1>3 DEF Shorter, Longer
  <2> QED BY <1>1, <1>3, <2>1, MaxTwo
<1> QED BY <1>2, <1>3

\* The carries of bigint_add.
LEMMA CarryIs ==
  ASSUME NEW a, NEW b, IsBig(a), IsBig(b)
  PROVE  /\ CarryOut(a, b)[0] = 0
         /\ \A i \in 0 .. Shorter(a, b).msd + 1 : CarryOut(a, b)[i] \in 0 .. 1
         /\ \A i \in 0 .. Shorter(a, b).msd :
              CarryOut(a, b)[i + 1]
                = (a.digits[i] + b.digits[i] + CarryOut(a, b)[i]) \div Base
<1> DEFINE n == Shorter(a, b).msd + 1
           Term(c, i) == (a.digits[i - 1] + b.digits[i - 1] + c) \div Base
           Step == [t \in (0 .. 1) \X (1 .. n) |-> Term(t[1], t[2])]
           F(carry) == [i \in 0 .. n |-> IF i = 0 THEN 0
                                         ELSE (a.digits[i - 1] + b.digits[i - 1] + carry[i - 1]) \div Base]
           C == CHOOSE carry : carry = F(carry)
<1>1. a.msd \in Nat /\ b.msd \in Nat /\ a.num \in Nat /\ b.num \in Nat /\ a.msd < a.num /\ b.msd < b.num
  BY BigIs
<1>2. n = Min({a.msd, b.msd}) + 1 /\ n \in Nat /\ n <= a.num /\ n <= b.num
  BY <1>1, ShorterIs
<1>3. CarryOut(a, b) = C
  BY <1>2 DEF CarryOut
<1> HIDE DEF n
<1>4. \A i \in 0 .. n - 1 : a.digits[i] \in Digit /\ b.digits[i] \in Digit
  <2>1. \A i \in 0 .. n - 1 : i \in 0 .. a.num - 1 /\ i \in 0 .. b.num - 1
    BY <1>1, <1>2
  <2> QED BY <2>1, BigIs
<1>5. \A c \in 0 .. 1, i \in 1 .. n : Term(c, i) \in 0 .. 1
  <2> SUFFICES ASSUME NEW c \in 0 .. 1, NEW i \in 1 .. n PROVE Term(c, i) \in 0 .. 1
    OBVIOUS
  <2>1. i - 1 \in 0 .. n - 1
    BY <1>2
  <2> QED BY <1>4, <2>1, AddDigits
<1>6. IsStep(Step, n, 0 .. 1) /\ \A c \in 0 .. 1, i \in 1 .. n : Step[<<c, i>>] = Term(c, i)
  <2> HIDE DEF Term
  <2> QED BY <1>5 DEF IsStep
<1> HIDE DEF Step
<1>7. PICK g : IsRun(g, n, 0 .. 1, 0, Step)
  BY <1>2, <1>6, RunExists
<1>8. /\ g \in [0 .. n -> 0 .. 1] /\ g[0] = 0
      /\ \A i \in 1 .. n : g[i] = Term(g[i - 1], i)
  <2>1. g \in [0 .. n -> 0 .. 1] /\ g[0] = 0 /\ \A i \in 1 .. n : g[i] = Step[<<g[i - 1], i>>]
    BY <1>7 DEF IsRun
  <2>2. ASSUME NEW i \in 1 .. n PROVE g[i] = Term(g[i - 1], i)
    <3>1. i - 1 \in 0 .. n
      BY <1>2
    <3>2. g[i - 1] \in 0 .. 1
      BY <2>1, <3>1
    <3> HIDE DEF Term
    <3> QED BY <1>6, <2>1, <3>2
  <2> HIDE DEF Term
  <2> QED BY <2>1, <2>2
<1>9. g = F(g)
  <2>1. g = [i \in 0 .. n |-> g[i]]
    BY <1>8
  <2>2. \A i \in 0 .. n : i # 0 => i \in 1 .. n
    BY <1>2
  <2>3. \A i \in 0 .. n : g[i] = IF i = 0 THEN 0
                               ELSE (a.digits[i - 1] + b.digits[i - 1] + g[i - 1]) \div Base
    BY <1>8, <2>2
  <2>4. [i \in 0 .. n |-> g[i]] = F(g)
    BY <2>3
  <2> QED BY <2>1, <2>4
<1>10. C = F(C)
  <2> HIDE DEF F
  <2> QED BY <1>9
<1>11. /\ C[0] = 0
       /\ \A i \in 0 .. n - 1 : C[i + 1] = (a.digits[i] + b.digits[i] + C[i]) \div Base
  <2> HIDE DEF C
  <2>1. F(C)[0] = 0
    BY <1>2
  <2>2. \A i \in 0 .. n - 1 : F(C)[i + 1] = (a.digits[i] + b.digits[i] + C[i]) \div Base
    <3> SUFFICES ASSUME NEW i \in 0 .. n - 1
                 PROVE  F(C)[i + 1] = (a.digits[i] + b.digits[i] + C[i]) \div Base
      OBVIOUS
    <3>1. i + 1 \in 0 .. n /\ i + 1 # 0 /\ (i + 1) - 1 = i
      BY <1>2
    <3>2. F(C)[i + 1] = (a.digits[(i + 1) - 1] + b.digits[(i + 1) - 1] + C[(i + 1) - 1]) \div Base
      BY <3>1
    <3> HIDE DEF F
    <3> QED BY <3>1, <3>2
  <2> HIDE DEF F
  <2> QED BY <1>10, <2>1, <2>2
<1> HIDE DEF C
<1>12. \A i \in 0 .. n : C[i] \in 0 .. 1
  <2> DEFINE S == {i \in 0 .. n : C[i] \in 0 .. 1}
  <2>1. 0 \in S
    BY <1>2, <1>11
  <2>2. ASSUME NEW i \in 0 .. n - 1, i \in S
        PROVE  i + 1 \in S
    <3>1. (a.digits[i] + b.digits[i] + C[i]) \div Base \in 0 .. 1
      BY <1>4, <2>2, AddDigits
    <3>2. i + 1 \in 0 .. n
      BY <1>2
    <3> QED BY <1>11, <3>1, <3>2
  <2>3. \A i \in 0 .. n : i \in S
    <3> HIDE DEF S
    <3> QED BY <1>2, <2>1, <2>2, InductTo
  <2> QED BY <2>3
<1>13. n = Shorter(a, b).msd + 1 /\ \A i \in 0 .. Shorter(a, b).msd : i \in 0 .. n - 1
  BY <1>1 DEF n, Shorter
<1> QED BY <1>3, <1>11, <1>12, <1>13

\* One more in a digit's own width.
LEMMA Bump ==
  ASSUME NEW x \in Digit, NEW k \in 0 .. 1
  PROVE  /\ (x + k) % Base \in Digit
         /\ k = 0 \/ x # Base - 1 => (x + k) % Base = x + k
         /\ k = 1 /\ x = Base - 1 => (x + k) % Base = 0
<1>1. PICK b \in Nat : b = Base /\ b >= 2
  BY BaseIs
<1>2. x \in Nat /\ x < b
  BY <1>1, BaseIs
<1>3. CASE x + k < b
  <2>1. (x + k) % b = x + k
    BY <1>1, <1>2, <1>3
  <2> QED BY <1>1, <1>2, <1>3, <2>1 DEF Digit
<1>4. CASE x + k >= b
  <2>1. x + k = b /\ b % b = 0
    BY <1>1, <1>2, <1>4
  <2> QED BY <1>1, <1>2, <1>4, <2>1 DEF Digit
<1> QED BY <1>1, <1>2, <1>3, <1>4

\* When the carry is dropped: the digit above the shorter operand is full.
LEMMA DropsCarryIs ==
  ASSUME NEW a, NEW b, IsBig(a), IsBig(b)
  PROVE  DropsCarry(a, b) <=> /\ Longer(a, b).msd > Shorter(a, b).msd
                              /\ CarryOut(a, b)[Shorter(a, b).msd + 1] = 1
                              /\ Longer(a, b).digits[Shorter(a, b).msd + 1] = Base - 1
<1>1. Shorter(a, b).msd = Min({a.msd, b.msd}) /\ Longer(a, b) = IF a.msd > b.msd THEN a ELSE b
  BY ShorterIs DEF Longer
<1> QED BY <1>1 DEF DropsCarry

\* bigint_add: the sum, for all operands and whatever its output held, or, when
\* the carry is dropped, exactly one unit of the second digit above the shorter
\* operand less.
THEOREM AddIsSum ==
  ASSUME NEW a, NEW b, NEW c, IsBig(a), IsBig(b), IsBig(c)
  PROVE  /\ IsBig(Add(a, b, c))
         /\ Add(a, b, c).msd \in Longer(a, b).msd .. Longer(a, b).msd + 1
         /\ ~ DropsCarry(a, b) => Value(Add(a, b, c)) = Value(a) + Value(b)
         /\ DropsCarry(a, b) =>
              Value(Add(a, b, c)) + Weight(Shorter(a, b).msd + 2) = Value(a) + Value(b)
<1> DEFINE longer == Longer(a, b)
           shorter == Shorter(a, b)
           carry == CarryOut(a, b)
           C == Add(a, b, c)
<1>0. /\ shorter.msd \in Nat /\ longer.msd \in Nat /\ IsBig(longer) /\ IsBig(shorter)
      /\ shorter.msd <= a.msd /\ shorter.msd <= b.msd /\ a.msd <= longer.msd /\ b.msd <= longer.msd
      /\ a.msd \in Nat /\ b.msd \in Nat /\ longer.msd < longer.num /\ longer.num \in Nat
      /\ shorter.msd = Min({a.msd, b.msd}) /\ longer.msd = Max({a.msd, b.msd})
      /\ a.msd < a.num /\ b.msd < b.num /\ a.num \in Nat /\ b.num \in Nat
  <2>1. /\ shorter.msd \in Nat /\ longer.msd \in Nat /\ IsBig(longer) /\ IsBig(shorter)
        /\ shorter.msd <= a.msd /\ shorter.msd <= b.msd /\ a.msd <= longer.msd /\ b.msd <= longer.msd
        /\ shorter.msd = Min({a.msd, b.msd}) /\ longer.msd = Max({a.msd, b.msd})
    BY ShorterIs
  <2> HIDE DEF shorter, longer
  <2> QED BY <2>1, BigIs
<1>c. /\ carry[0] = 0 /\ \A i \in 0 .. shorter.msd + 1 : carry[i] \in 0 .. 1
      /\ \A i \in 0 .. shorter.msd : carry[i + 1] = (a.digits[i] + b.digits[i] + carry[i]) \div Base
  BY CarryIs
<1>d. C = Plus(longer, a, b, shorter.msd, carry, Expand(c, longer.msd + 2))
  <2>1. C = Plus(IF a.msd > b.msd THEN a ELSE b, a, b, Min({a.msd, b.msd}), CarryOut(a, b),
                 Expand(c, Max({a.msd, b.msd}) + 2))
    BY DEF Add
  <2>2. longer = IF a.msd > b.msd THEN a ELSE b
    BY DEF Longer
  <2> HIDE DEF longer, shorter, C
  <2> QED BY <1>0, <2>1, <2>2
<1>e. DropsCarry(a, b) <=> /\ longer.msd > shorter.msd /\ carry[shorter.msd + 1] = 1
                           /\ longer.digits[shorter.msd + 1] = Base - 1
  BY DropsCarryIs
<1>f. (shorter = b /\ longer = a) \/ (shorter = a /\ longer = b)
  BY DEF Shorter, Longer
<1>g. ASSUME /\ IsBig(C)
             /\ C.msd \in longer.msd .. longer.msd + 1
             /\ ~ DropsCarry(a, b) => Value(C) = Value(a) + Value(b)
             /\ DropsCarry(a, b) => Value(C) + Weight(shorter.msd + 2) = Value(a) + Value(b)
      PROVE  /\ IsBig(Add(a, b, c))
             /\ Add(a, b, c).msd \in Longer(a, b).msd .. Longer(a, b).msd + 1
             /\ ~ DropsCarry(a, b) => Value(Add(a, b, c)) = Value(a) + Value(b)
             /\ DropsCarry(a, b) =>
                  Value(Add(a, b, c)) + Weight(Shorter(a, b).msd + 2) = Value(a) + Value(b)
  BY <1>g
<1> HIDE DEF longer, shorter, carry, C
<1> SUFFICES /\ IsBig(C)
             /\ C.msd \in longer.msd .. longer.msd + 1
             /\ ~ DropsCarry(a, b) => Value(C) = Value(a) + Value(b)
             /\ DropsCarry(a, b) => Value(C) + Weight(shorter.msd + 2) = Value(a) + Value(b)
  BY <1>g
<1>1. PICK min \in Nat, max \in Nat, n \in Nat :
        /\ min = shorter.msd /\ max = longer.msd /\ n = min + 1 /\ min <= max
        /\ min <= a.msd /\ min <= b.msd /\ a.msd <= max /\ b.msd <= max
        /\ max < longer.num /\ longer.num \in Nat
        /\ a.msd \in Nat /\ b.msd \in Nat
  BY <1>0
<1>2. /\ carry[0] = 0 /\ \A i \in 0 .. n : carry[i] \in 0 .. 1
      /\ \A i \in 0 .. min : carry[i + 1] = (a.digits[i] + b.digits[i] + carry[i]) \div Base
  BY <1>c, <1>1
<1>3. PICK room : room = Expand(c, max + 2)
  OBVIOUS
<1> DEFINE kept(i) == IF i = n THEN carry[i] ELSE 0
           sum == [i \in 0 .. max |->
                     IF i <= min THEN (a.digits[i] + b.digits[i] + carry[i]) % Base
                                 ELSE (longer.digits[i] + kept(i)) % Base]
           one == [i \in {n} |-> 1]
<1>4. IsBig(room) /\ room.num \in Nat /\ room.num >= max + 2
  <2>1. max + 2 \in Nat
    BY <1>1
  <2>2. IsBig(room) /\ room.num = IF c.num >= max + 2 THEN c.num ELSE max + 2
    BY <1>3, <2>1, ExpandIs
  <2>3. c.num \in Nat
    BY BigIs
  <2> QED BY <2>1, <2>2, <2>3
<1>5. C = IF max = min /\ carry[n] = 1
            THEN Store(room, Over(sum, one), n)
            ELSE Store(room, sum, max)
  BY <1>d, <1>1, <1>3 DEF Plus
<1>6. \A i \in 0 .. min : a.digits[i] \in Digit /\ b.digits[i] \in Digit
  <2>1. \A i \in 0 .. min : i \in 0 .. a.num - 1 /\ i \in 0 .. b.num - 1
    BY <1>0, <1>1
  <2> QED BY <2>1, BigIs
<1>7. \A i \in 0 .. max : longer.digits[i] \in Digit
  <2>1. \A i \in 0 .. max : i \in 0 .. longer.num - 1
    BY <1>1
  <2> QED BY <1>0, <2>1, BigIs
<1>8. ASSUME NEW i \in 0 .. min
      PROVE  sum[i] \in Digit /\ sum[i] + Base * carry[i + 1] = a.digits[i] + b.digits[i] + carry[i]
  <2>1. sum[i] = (a.digits[i] + b.digits[i] + carry[i]) % Base
    <3>1. i \in 0 .. max /\ i <= min
      BY <1>1
    <3> QED BY <3>1
  <2>2. carry[i] \in 0 .. 1
    <3>1. i \in 0 .. n
      BY <1>1
    <3> QED BY <1>2, <3>1
  <2>3. PICK x \in Digit, y \in Digit, k \in 0 .. 1 : x = a.digits[i] /\ y = b.digits[i] /\ k = carry[i]
    BY <1>6, <2>2
  <2>4. carry[i + 1] = (x + y + k) \div Base
    BY <1>2, <2>3
  <2>5. /\ (x + y + k) % Base \in Digit
        /\ ((x + y + k) % Base) + Base * ((x + y + k) \div Base) = x + y + k
    BY AddDigits
  <2> HIDE DEF sum
  <2> QED BY <2>1, <2>3, <2>4, <2>5
<1>9. ASSUME NEW i \in n .. max
      PROVE  /\ sum[i] \in Digit
             /\ i # n => sum[i] = longer.digits[i]
             /\ i = n => sum[i] = (longer.digits[i] + carry[n]) % Base
  <2>1. i \in 0 .. max /\ ~ (i <= min)
    BY <1>1
  <2>2. sum[i] = (longer.digits[i] + kept(i)) % Base
    BY <2>1
  <2>3. kept(i) \in 0 .. 1 /\ (i # n => kept(i) = 0) /\ (i = n => kept(i) = carry[n])
    <3>1. carry[n] \in 0 .. 1
      BY <1>1, <1>2
    <3> QED BY <3>1
  <2>4. PICK k \in 0 .. 1 : k = kept(i)
    BY <2>3
  <2> HIDE DEF sum, kept
  <2>5. /\ (longer.digits[i] + k) % Base \in Digit
        /\ k = 0 => (longer.digits[i] + k) % Base = longer.digits[i] + k
    BY <1>7, <2>1, Bump
  <2>6. longer.digits[i] \in Nat
    BY <1>7, <2>1, BaseIs
  <2> QED BY <2>2, <2>3, <2>4, <2>5, <2>6
<1>10. DOMAIN sum = 0 .. max
  OBVIOUS
<1> HIDE DEF sum, kept
<1>11. IsDigits(a.digits, n) /\ IsDigits(b.digits, n) /\ IsDigits(sum, n) /\ IsDigits(sum, max + 1)
  <2>1. \A i \in 0 .. n - 1 : i \in 0 .. min
    BY <1>1
  <2>2. \A i \in 0 .. max + 1 - 1 : i \in 0 .. min \/ i \in n .. max
    BY <1>1
  <2>3. \A i \in 0 .. max + 1 - 1 : sum[i] \in Digit
    BY <1>8, <1>9, <2>2
  <2> QED BY <1>6, <1>8, <2>1, <2>3 DEF IsDigits
<1>12. NumberOf(sum, n) + carry[n] * Weight(n) = NumberOf(a.digits, n) + NumberOf(b.digits, n)
  <2>1. \A i \in 0 .. n - 1 : sum[i] + Base * carry[i + 1] = a.digits[i] + b.digits[i] + carry[i]
    <3>1. \A i \in 0 .. n - 1 : i \in 0 .. min
      BY <1>1
    <3> QED BY <1>8, <3>1
  <2>2. n \in Nat /\ carry[0] = 0 /\ \A i \in 0 .. n : carry[i] \in 0 .. 1
    BY <1>1, <1>2
  <2> QED BY <1>11, <2>1, <2>2, AddSum
<1>13. PICK A \in Nat, B \in Nat, s \in Nat, w \in Nat, k \in 0 .. 1 :
         /\ A = NumberOf(a.digits, n) /\ B = NumberOf(b.digits, n) /\ s = NumberOf(sum, n)
         /\ w = Weight(n) /\ k = carry[n] /\ w > 0 /\ s + k * w = A + B
  <2>1. n \in 0 .. n
    BY <1>1
  <2>2. n \in Nat /\ carry[n] \in 0 .. 1
    BY <1>1, <1>2, <2>1
  <2>3. Weight(n) \in Nat /\ Weight(n) > 0
    BY <2>2, WeightsAre
  <2>4. NumberOf(a.digits, n) \in Nat /\ NumberOf(b.digits, n) \in Nat /\ NumberOf(sum, n) \in Nat
    BY <1>11, <2>2, NumberRange
  <2> QED BY <1>12, <2>2, <2>3, <2>4
<1>14. CASE max = min
  <2>1. a.msd = min /\ b.msd = min
    BY <1>1, <1>14
  <2>2. Value(a) = A /\ Value(b) = B
    BY <1>1, <1>13, <2>1 DEF Value
  <2>3. ~ DropsCarry(a, b)
    BY <1>e, <1>1, <1>14
  <2>4. CASE k = 1
    <3> DEFINE f == Over(sum, one)
    <3>1. C = Store(room, f, n)
      BY <1>5, <1>13, <1>14, <2>4
    <3>2. DOMAIN sum \cup DOMAIN one = 0 .. n /\ one[n] = 1 /\ ~ (n \in 0 .. max)
      BY <1>1, <1>10, <1>14
    <3>3. f = [i \in 0 .. n |-> IF i \in 0 .. max THEN sum[i] ELSE one[i]]
      BY <1>10, <3>2 DEF Over
    <3>4. DOMAIN f = 0 .. n /\ f[n] = 1 /\ \A i \in 0 .. min : f[i] = sum[i]
      <4>1. n \in 0 .. n /\ \A i \in 0 .. min : i \in 0 .. n /\ i \in 0 .. max
        BY <1>1, <1>14
      <4> HIDE DEF f, one
      <4> QED BY <3>2, <3>3, <4>1
    <3> HIDE DEF f
    <3>5. \A i \in 0 .. n : f[i] \in Digit
      <4>1. \A i \in 0 .. n : i \in 0 .. min \/ i = n
        BY <1>1
      <4> QED BY <1>8, <3>4, <4>1, BaseIs
    <3>6. DOMAIN f \subseteq 0 .. room.num - 1 /\ n \in 0 .. room.num - 1
      BY <1>1, <1>4, <1>14, <3>4
    <3>7. /\ IsBig(C) /\ C.msd = n
          /\ \A i \in 0 .. room.num - 1 : C.digits[i] = IF i \in DOMAIN f THEN f[i] ELSE room.digits[i]
      <4> QED BY <1>4, <3>1, <3>4, <3>5, <3>6, StoreIs
    <3>8. \A i \in 0 .. n : C.digits[i] = f[i]
      BY <3>4, <3>6, <3>7
    <3>9. IsDigits(C.digits, n + 1) /\ Value(C) = NumberOf(C.digits, n + 1)
      BY <3>7, BigIs DEF Value
    <3>10. NumberOf(C.digits, n) = s
      <4>1. \A i \in 0 .. n - 1 : C.digits[i] = sum[i]
        <5>1. \A i \in 0 .. n - 1 : i \in 0 .. min /\ i \in 0 .. n
          BY <1>1
        <5> QED BY <3>4, <3>8, <5>1
      <4> QED BY <1>1, <1>11, <1>13, <4>1, NumberSame
    <3>11. C.digits[n] = 1
      BY <1>1, <3>4, <3>8
    <3>12. NumberOf(C.digits, n + 1) = NumberOf(C.digits, n) + C.digits[n] * Weight(n)
      <4> QED BY <1>1, <3>9, NumberStep
    <3>13. Value(C) = s + w
      BY <1>13, <3>9, <3>10, <3>11, <3>12
    <3>14. C.msd \in max .. max + 1
      BY <1>1, <1>14, <3>7
    <3>15. s + w = A + B
      BY <1>13, <2>4
    <3> QED BY <1>1, <2>2, <2>3, <3>7, <3>13, <3>14, <3>15
  <2>5. CASE k = 0
    <3>1. C = Store(room, sum, max)
      BY <1>5, <1>13, <2>5
    <3>2. DOMAIN sum \subseteq 0 .. room.num - 1 /\ max \in 0 .. room.num - 1
      BY <1>1, <1>4, <1>10
    <3>3. \A i \in DOMAIN sum : sum[i] \in Digit
      BY <1>8, <1>10, <1>14
    <3>4. /\ IsBig(C) /\ C.msd = max
          /\ \A i \in 0 .. room.num - 1 : C.digits[i] = IF i \in DOMAIN sum THEN sum[i] ELSE room.digits[i]
      BY <1>4, <3>1, <3>2, <3>3, StoreIs
    <3>5. NumberOf(C.digits, n) = s
      <4>1. \A i \in 0 .. n - 1 : C.digits[i] = sum[i]
        <5>1. \A i \in 0 .. n - 1 : i \in DOMAIN sum /\ i \in 0 .. room.num - 1
          BY <1>1, <1>10, <1>14, <3>2
        <5> QED BY <3>4, <5>1
      <4> QED BY <1>1, <1>11, <1>13, <4>1, NumberSame
    <3>6. Value(C) = s /\ C.msd \in max .. max + 1
      BY <1>1, <1>14, <3>4, <3>5 DEF Value
    <3>7. s = A + B
      BY <1>13, <2>5
    <3> QED BY <1>1, <2>2, <2>3, <3>4, <3>6, <3>7
  <2> QED BY <2>4, <2>5
<1>15. CASE max > min
  <2>1. C = Store(room, sum, max)
    BY <1>1, <1>5, <1>15
  <2>2. DOMAIN sum \subseteq 0 .. room.num - 1 /\ max \in 0 .. room.num - 1
    BY <1>1, <1>4, <1>10
  <2>3. \A i \in DOMAIN sum : sum[i] \in Digit
    <3>1. \A i \in 0 .. max : i \in 0 .. min \/ i \in n .. max
      BY <1>1
    <3> QED BY <1>8, <1>9, <1>10, <3>1
  <2>4. /\ IsBig(C) /\ C.msd = max
        /\ \A i \in 0 .. room.num - 1 : C.digits[i] = IF i \in DOMAIN sum THEN sum[i] ELSE room.digits[i]
    BY <1>4, <2>1, <2>2, <2>3, StoreIs
  <2>5. Value(C) = NumberOf(sum, max + 1) /\ C.msd \in max .. max + 1
    <3>1. \A i \in 0 .. max + 1 - 1 : C.digits[i] = sum[i]
      <4>1. \A i \in 0 .. max + 1 - 1 : i \in DOMAIN sum /\ i \in 0 .. room.num - 1
        BY <1>1, <1>10, <2>2
      <4> QED BY <2>4, <4>1
    <3>2. max + 1 \in Nat /\ IsDigits(sum, max + 1)
      BY <1>1, <1>11
    <3>3. NumberOf(C.digits, max + 1) = NumberOf(sum, max + 1)
      <4> HIDE DEF C, sum
      <4> QED BY <3>1, <3>2, NumberSame
    <3>4. C.msd = max
      BY <2>4
    <3>5. Value(C) = NumberOf(C.digits, max + 1)
      BY <3>4 DEF Value
    <3>6. C.msd \in max .. max + 1
      BY <1>1, <3>4
    <3> QED BY <3>3, <3>5, <3>6
  <2>6. IsDigits(longer.digits, max + 1) /\ Value(longer) = NumberOf(longer.digits, max + 1)
    BY <1>0, <1>1, BigIs DEF Value
  <2>7. n + 1 \in 0 .. max + 1 /\ n \in n .. max /\ n \in 0 .. max /\ n + 1 \in Nat
    BY <1>1, <1>15
  <2>8. IsDigits(sum, n + 1) /\ IsDigits(longer.digits, n + 1) /\ IsDigits(longer.digits, n)
    <3>1. \A i \in 0 .. n + 1 - 1 : i \in 0 .. max + 1 - 1
      BY <1>1, <2>7
    <3>2. \A i \in 0 .. n - 1 : i \in 0 .. max + 1 - 1
      BY <1>1, <2>7
    <3> QED BY <1>11, <2>6, <3>1, <3>2 DEF IsDigits
  <2>9. NumberOf(sum, max + 1) + NumberOf(longer.digits, n + 1)
          = NumberOf(longer.digits, max + 1) + NumberOf(sum, n + 1)
    <3>1. \A i \in n + 1 .. max + 1 - 1 : sum[i] = longer.digits[i]
      <4>1. \A i \in n + 1 .. max + 1 - 1 : i \in n .. max /\ i # n
        BY <1>1
      <4> QED BY <1>9, <4>1
    <3>2. max + 1 \in Nat
      BY <1>1
    <3> QED BY <1>11, <2>6, <2>7, <3>1, <3>2, NumberTail
  <2>10. PICK x \in Nat, y \in Digit : /\ x \in Digit /\ x = longer.digits[n] /\ y = sum[n] /\ y \in Nat
                                       /\ y = (x + k) % Base
    BY <1>7, <1>9, <1>13, <2>7, BaseIs
  <2>11. /\ NumberOf(sum, n + 1) = s + y * w
         /\ NumberOf(longer.digits, n + 1) = NumberOf(longer.digits, n) + x * w
    <3>1. n \in Nat
      BY <1>1
    <3>2. /\ NumberOf(sum, n + 1) = NumberOf(sum, n) + sum[n] * Weight(n)
          /\ NumberOf(longer.digits, n + 1)
               = NumberOf(longer.digits, n) + longer.digits[n] * Weight(n)
      BY <2>8, <3>1, NumberStep
    <3> QED BY <1>13, <2>10, <3>2
  <2>12. PICK L \in Nat, V \in Nat, R \in Nat :
           L = NumberOf(longer.digits, n) /\ V = Value(longer) /\ R = Value(C)
    <3> QED BY <1>0, <1>1, <2>4, <2>8, BigIs, NumberRange
  <2>13. PICK xw \in Nat, yw \in Nat, kw \in Nat : xw = x * w /\ yw = y * w /\ kw = k * w
    <3>1. x * w \in Nat /\ y * w \in Nat
      BY <2>10
    <3>2. k * w \in Nat
      OBVIOUS
    <3> QED BY <3>1, <3>2, Zenon
  <2>14. R + (L + xw) = V + (s + yw)
    BY <2>5, <2>6, <2>9, <2>11, <2>12, <2>13
  <2>15. PICK U \in Nat : U = Value(shorter)
    BY <1>0, BigIs
  <2>16. L + U = A + B /\ V + U = Value(a) + Value(b)
    <3>1. shorter.msd + 1 = n
      BY <1>1
    <3>2. U = NumberOf(shorter.digits, n)
      BY <2>15, <3>1 DEF Value
    <3>3. Value(a) \in Nat /\ Value(b) \in Nat
      BY BigIs
    <3>4. CASE shorter = b /\ longer = a
      <4>1. L = A /\ U = B /\ V = Value(a) /\ U = Value(b)
        BY <1>13, <2>12, <2>15, <3>2, <3>4
      <4> QED BY <4>1
    <3>5. CASE shorter = a /\ longer = b
      <4>1. L = B /\ U = A /\ V = Value(b) /\ U = Value(a)
        BY <1>13, <2>12, <2>15, <3>2, <3>5
      <4> QED BY <3>3, <4>1
    <3> QED BY <1>f, <3>4, <3>5
  <2>17. DropsCarry(a, b) <=> k = 1 /\ x = Base - 1
    BY <1>e, <1>1, <1>13, <1>15, <2>10
  <2>18. Weight(n + 1) = Base * w /\ n + 1 = min + 2
    <3>1. n + 1 = min + 2
      BY <1>1
    <3> QED BY <1>1, <1>13, <3>1, WeightsAre
  <2>19. CASE DropsCarry(a, b)
    <3>1. k = 1 /\ x = Base - 1 /\ y = 0
      BY <2>10, <2>17, <2>19, Bump
    <3>2. xw = Base * w - w /\ kw = w /\ yw = 0
      <4>1. PICK b1 \in Nat : b1 = Base
        BY BaseIs
      <4>2. (b1 - 1) * w = b1 * w - w /\ 0 * w = 0 /\ 1 * w = w
        BY <4>1
      <4> QED BY <2>13, <3>1, <4>1, <4>2
    <3>3. PICK v \in Nat : v = Base * w
      BY BaseIs
    <3>4. s + w = A + B /\ xw = v - w
      BY <1>13, <2>13, <3>2, <3>3
    <3>5. R + v = V + U
      BY <2>14, <2>16, <3>2, <3>4
    <3> QED BY <1>1, <2>4, <2>5, <2>12, <2>16, <2>18, <2>19, <3>3, <3>5
  <2>20. CASE ~ DropsCarry(a, b)
    <3>1. y = x + k
      <4>1. k = 0 \/ x # Base - 1
        BY <2>17, <2>20
      <4> QED BY <2>10, <4>1, Bump
    <3>2. yw = xw + kw
      <4>1. (x + k) * w = x * w + k * w
        BY <2>10
      <4> QED BY <2>13, <3>1, <4>1
    <3>3. s + kw = A + B
      BY <1>13, <2>13
    <3>4. R = V + U
      BY <2>14, <2>16, <3>2, <3>3
    <3> QED BY <1>1, <2>4, <2>5, <2>12, <2>16, <2>20, <3>4
  <2> QED BY <2>19, <2>20
<1> QED BY <1>1, <1>14, <1>15

(***************************************************************************)
(* Subtracting                                                             *)
(***************************************************************************)

\* A digit less a digit and a borrow make a digit and a borrow.
LEMMA SubDigits ==
  ASSUME NEW x \in Digit, NEW y \in Digit, NEW c \in 0 .. 1
  PROVE  /\ (x - y - c) % Base \in Digit
         /\ x + Base * (IF x - y - c < 0 THEN 1 ELSE 0) = ((x - y - c) % Base) + y + c
<1>1. PICK b \in Nat : b = Base /\ b >= 2
  BY BaseIs
<1>2. x \in Nat /\ y \in Nat /\ x < b /\ y < b
  BY <1>1, BaseIs
<1>3. PICK t \in Int : t = x - y - c /\ t < b /\ t >= -b
  BY <1>2
<1>4. CASE t >= 0
  <2>1. t % b = t
    BY <1>1, <1>3, <1>4
  <2> QED BY <1>1, <1>2, <1>3, <1>4, <2>1 DEF Digit
<1>5. CASE t < 0
  <2>1. t % b = t + b
    <3>1. PICK r \in 0 .. b - 1 : r = t + b
      BY <1>1, <1>3, <1>5
    <3>2. t = b * (-1) + r
      BY <1>1, <1>3, <3>1
    <3>3. (b * (-1) + r) % b = r
      BY <1>1
    <3> QED BY <3>1, <3>2, <3>3
  <2> QED BY <1>1, <1>2, <1>3, <1>5, <2>1 DEF Digit
<1> QED BY <1>1, <1>3, <1>4, <1>5

\* Below a smaller number there is a borrow left.
LEMMA BorrowIs ==
  ASSUME NEW x, NEW y, NEW top \in Nat, IsDigits(x.digits, top + 1), IsDigits(y.digits, top + 1)
  PROVE  /\ Borrow(x, y, top)[0] = 0
         /\ \A i \in 0 .. top + 1 : Borrow(x, y, top)[i] \in 0 .. 1
         /\ \A i \in 0 .. top :
              Borrow(x, y, top)[i + 1]
                = IF x.digits[i] - y.digits[i] - Borrow(x, y, top)[i] < 0 THEN 1 ELSE 0
         /\ Borrow(x, y, top)[top + 1] = 1
              <=> NumberOf(x.digits, top + 1) < NumberOf(y.digits, top + 1)
<1>1. PICK n \in Nat : n = top + 1
  OBVIOUS
<1> DEFINE Term(c, i) == IF x.digits[i - 1] - y.digits[i - 1] - c < 0 THEN 1 ELSE 0
           Step == [t \in (0 .. 1) \X (1 .. n) |-> Term(t[1], t[2])]
           F(borrow) == [i \in 0 .. n |->
                           IF i = 0 THEN 0
                           ELSE IF x.digits[i - 1] - y.digits[i - 1] - borrow[i - 1] < 0 THEN 1
                           ELSE 0]
           C == CHOOSE borrow : borrow = F(borrow)
<1>2. Borrow(x, y, top) = C
  BY <1>1 DEF Borrow
<1>3. \A i \in 0 .. n - 1 : x.digits[i] \in Digit /\ y.digits[i] \in Digit
  BY <1>1 DEF IsDigits
<1>4. IsStep(Step, n, 0 .. 1) /\ \A c \in 0 .. 1, i \in 1 .. n : Step[<<c, i>>] = Term(c, i)
  <2>1. \A c \in 0 .. 1, i \in 1 .. n : Term(c, i) \in 0 .. 1
    OBVIOUS
  <2> HIDE DEF Term
  <2> QED BY <2>1 DEF IsStep
<1> HIDE DEF Step
<1>5. PICK g : IsRun(g, n, 0 .. 1, 0, Step)
  BY <1>4, RunExists
<1>6. /\ g \in [0 .. n -> 0 .. 1] /\ g[0] = 0
      /\ \A i \in 1 .. n : g[i] = Term(g[i - 1], i)
  <2>1. g \in [0 .. n -> 0 .. 1] /\ g[0] = 0 /\ \A i \in 1 .. n : g[i] = Step[<<g[i - 1], i>>]
    BY <1>5 DEF IsRun
  <2>2. ASSUME NEW i \in 1 .. n PROVE g[i] = Term(g[i - 1], i)
    <3>1. i - 1 \in 0 .. n
      OBVIOUS
    <3>2. g[i - 1] \in 0 .. 1
      BY <2>1, <3>1
    <3> HIDE DEF Term
    <3> QED BY <1>4, <2>1, <3>2
  <2> HIDE DEF Term
  <2> QED BY <2>1, <2>2
<1>7. g = F(g)
  <2>1. g = [i \in 0 .. n |-> g[i]]
    BY <1>6
  <2>2. \A i \in 0 .. n : i # 0 => i \in 1 .. n
    OBVIOUS
  <2>3. \A i \in 0 .. n : g[i] = IF i = 0 THEN 0
                               ELSE IF x.digits[i - 1] - y.digits[i - 1] - g[i - 1] < 0 THEN 1
                               ELSE 0
    BY <1>6, <2>2
  <2>4. [i \in 0 .. n |-> g[i]] = F(g)
    BY <2>3
  <2> QED BY <2>1, <2>4
<1>8. C = F(C)
  <2> HIDE DEF F
  <2> QED BY <1>7
<1>9. /\ C[0] = 0
      /\ \A i \in 0 .. n - 1 : C[i + 1] = IF x.digits[i] - y.digits[i] - C[i] < 0 THEN 1 ELSE 0
  <2> HIDE DEF C
  <2>1. F(C)[0] = 0
    OBVIOUS
  <2>2. \A i \in 0 .. n - 1 : F(C)[i + 1] = IF x.digits[i] - y.digits[i] - C[i] < 0 THEN 1 ELSE 0
    <3> SUFFICES ASSUME NEW i \in 0 .. n - 1
                 PROVE  F(C)[i + 1] = IF x.digits[i] - y.digits[i] - C[i] < 0 THEN 1 ELSE 0
      OBVIOUS
    <3>1. i + 1 \in 0 .. n /\ i + 1 # 0 /\ (i + 1) - 1 = i
      OBVIOUS
    <3>2. F(C)[i + 1] = IF x.digits[(i + 1) - 1] - y.digits[(i + 1) - 1] - C[(i + 1) - 1] < 0 THEN 1 ELSE 0
      BY <3>1
    <3> HIDE DEF F
    <3> QED BY <3>1, <3>2
  <2> HIDE DEF F
  <2> QED BY <1>8, <2>1, <2>2
<1> HIDE DEF C
<1>10. \A i \in 0 .. n : C[i] \in 0 .. 1
  <2> SUFFICES ASSUME NEW i \in 0 .. n PROVE C[i] \in 0 .. 1
    OBVIOUS
  <2>1. CASE i = 0
    BY <1>9, <2>1
  <2>2. CASE i # 0
    <3>1. PICK j \in 0 .. n - 1 : i = j + 1
      <4>1. i - 1 \in 0 .. n - 1 /\ i = (i - 1) + 1
        BY <2>2
      <4> QED BY <4>1
    <3> QED BY <1>9, <3>1
  <2> QED BY <2>1, <2>2
<1>11. C[n] = 1 <=> NumberOf(x.digits, n) < NumberOf(y.digits, n)
  <2> DEFINE d == [i \in 0 .. n - 1 |-> (x.digits[i] - y.digits[i] - C[i]) % Base]
  <2>1. \A i \in 0 .. n - 1 : /\ d[i] \in Digit
                              /\ x.digits[i] + Base * C[i + 1] = d[i] + y.digits[i] + C[i]
    <3> SUFFICES ASSUME NEW i \in 0 .. n - 1
                 PROVE  /\ d[i] \in Digit
                        /\ x.digits[i] + Base * C[i + 1] = d[i] + y.digits[i] + C[i]
      OBVIOUS
    <3>1. PICK u \in Digit, v \in Digit, c \in 0 .. 1 : u = x.digits[i] /\ v = y.digits[i] /\ c = C[i]
      BY <1>3, <1>10
    <3>2. d[i] = (u - v - c) % Base
      BY <3>1
    <3>3. C[i + 1] = IF u - v - c < 0 THEN 1 ELSE 0
      BY <1>9, <3>1
    <3>4. /\ (u - v - c) % Base \in Digit
          /\ u + Base * (IF u - v - c < 0 THEN 1 ELSE 0) = ((u - v - c) % Base) + v + c
      BY SubDigits
    <3> HIDE DEF d
    <3> QED BY <3>1, <3>2, <3>3, <3>4
  <2> HIDE DEF d
  <2>2. IsDigits(d, n) /\ IsDigits(x.digits, n) /\ IsDigits(y.digits, n)
    BY <1>1, <2>1 DEF IsDigits
  <2>3. NumberOf(x.digits, n) + C[n] * Weight(n) = NumberOf(d, n) + NumberOf(y.digits, n)
    BY <1>9, <1>10, <2>1, <2>2, AddSum
  <2>4. PICK X \in Nat, Ys \in Nat, D \in Nat, w \in Nat, c \in 0 .. 1 :
          /\ X = NumberOf(x.digits, n) /\ Ys = NumberOf(y.digits, n) /\ D = NumberOf(d, n)
          /\ w = Weight(n) /\ c = C[n] /\ D < w
    <3>1. C[n] \in 0 .. 1
      BY <1>10
    <3>2. Weight(n) \in Nat
      BY WeightsAre
    <3> QED BY <2>2, <3>1, <3>2, NumberRange
  <2>5. CASE c = 0
    <3>1. X = D + Ys
      BY <2>3, <2>4, <2>5
    <3> QED BY <2>4, <2>5, <3>1
  <2>6. CASE c = 1
    <3>1. X + w = D + Ys
      BY <2>3, <2>4, <2>6
    <3> QED BY <2>4, <2>6, <3>1
  <2> QED BY <2>4, <2>5, <2>6
<1>12. \A i \in 0 .. top : i \in 0 .. n - 1
  BY <1>1
<1> QED BY <1>1, <1>2, <1>9, <1>10, <1>11, <1>12

\* One less in a digit's own width.
LEMMA Drop ==
  ASSUME NEW x \in Digit, NEW k \in 0 .. 1
  PROVE  /\ (x - k) % Base \in Digit
         /\ k = 0 \/ x # 0 => (x - k) % Base = x - k
         /\ k = 1 /\ x = 0 => (x - k) % Base = Base - 1
<1>1. PICK b \in Nat : b = Base /\ b >= 2
  BY BaseIs
<1>2. x \in Nat /\ x < b
  BY <1>1, BaseIs
<1>3. CASE x >= k
  <2>1. (x - k) % b = x - k
    BY <1>1, <1>2, <1>3
  <2> QED BY <1>1, <1>2, <1>3, <2>1 DEF Digit
<1>4. CASE x < k
  <2>1. x - k = -1
    BY <1>2, <1>4
  <2>2. (-1) % b = b - 1
    BY <1>1
  <2> QED BY <1>1, <1>2, <1>4, <2>1, <2>2 DEF Digit
<1> QED BY <1>1, <1>2, <1>3, <1>4

\* The subtraction of the smaller from the bigger: the copies made of both and
\* what the output held do not matter.
LEMMA CopiesIs ==
  ASSUME NEW x, NEW y, NEW c, IsBig(x), IsBig(y), IsBig(c), y.msd <= x.msd, Value(y) <= Value(x)
  PROVE  /\ IsBig(Copies(x, y, c)) /\ Trimmed(Copies(x, y, c))
         /\ Copies(x, y, c).num = IF c.num >= x.msd + 1 THEN c.num ELSE x.msd + 1
         /\ Copies(x, y, c).msd <= x.msd
         /\ ~ DropsBorrow(x, y) => Value(Copies(x, y, c)) + Value(y) = Value(x)
         /\ DropsBorrow(x, y) => Value(Copies(x, y, c)) + Value(y) = Value(x) + Weight(y.msd + 2)
<1>1. PICK min \in Nat, top \in Nat, n \in Nat :
        /\ min = y.msd /\ top = x.msd /\ n = min + 1 /\ min <= top
        /\ x.num \in Nat /\ y.num \in Nat /\ min < y.num /\ top < x.num
  BY BigIs
<1> DEFINE borrow == Borrow(x, y, min)
           room == Expand(c, top + 1)
           kept(i) == IF i = n THEN borrow[i] ELSE 0
           diff == [i \in 0 .. top |->
                      IF i <= min THEN (x.digits[i] - y.digits[i] - borrow[i]) % Base
                                  ELSE (x.digits[i] - kept(i)) % Base]
           behind == IF top + 1 < room.num THEN room.digits[top + 1] ELSE 0
           f == IF top = min /\ borrow[top + 1] = 1
                  THEN Over(diff, [i \in {top + 1} |-> (behind - 1) % Base]) ELSE diff
           C == Copies(x, y, c)
           s == Store(room, f, top)
<1>2. C = Clamp(s)
  <2>1. Max({x.msd, y.msd}) = top
    BY <1>1, MaxTwo
  <2>2. C = Minus(x, y, borrow, top, room)
    BY <1>1, <2>1 DEF Copies
  <2> HIDE DEF C, borrow, room
  <2> QED BY <1>1, <2>2 DEF Minus
<1>3. IsBig(room) /\ room.num = (IF c.num >= top + 1 THEN c.num ELSE top + 1) /\ top < room.num /\ room.num \in Nat
  <2>1. top + 1 \in Nat /\ c.num \in Nat
    BY BigIs
  <2>2. IsBig(room) /\ room.num = IF c.num >= top + 1 THEN c.num ELSE top + 1
    BY <2>1, ExpandIs
  <2> HIDE DEF room
  <2> QED BY <2>1, <2>2
<1>4. /\ \A i \in 0 .. top : x.digits[i] \in Digit
      /\ \A i \in 0 .. min : y.digits[i] \in Digit
      /\ IsDigits(x.digits, n) /\ IsDigits(y.digits, n) /\ IsDigits(x.digits, top + 1)
  <2>1. \A i \in 0 .. top : i \in 0 .. x.num - 1
    BY <1>1
  <2>2. \A i \in 0 .. min : i \in 0 .. y.num - 1
    BY <1>1
  <2>3. n \in 0 .. x.num /\ n \in 0 .. y.num /\ top + 1 \in 0 .. x.num
    BY <1>1
  <2> QED BY <2>1, <2>2, <2>3, BigIs
<1>5. /\ borrow[0] = 0 /\ \A i \in 0 .. n : borrow[i] \in 0 .. 1
      /\ \A i \in 0 .. min :
           borrow[i + 1] = IF x.digits[i] - y.digits[i] - borrow[i] < 0 THEN 1 ELSE 0
      /\ borrow[n] = 1 <=> NumberOf(x.digits, n) < NumberOf(y.digits, n)
  BY <1>1, <1>4, BorrowIs
<1> HIDE DEF borrow, room, C
<1>6. ASSUME NEW i \in 0 .. min
      PROVE  diff[i] \in Digit /\ x.digits[i] + Base * borrow[i + 1] = diff[i] + y.digits[i] + borrow[i]
  <2>1. diff[i] = (x.digits[i] - y.digits[i] - borrow[i]) % Base
    <3>1. i \in 0 .. top /\ i <= min
      BY <1>1
    <3> QED BY <3>1
  <2>2. borrow[i] \in 0 .. 1
    <3>1. i \in 0 .. n
      BY <1>1
    <3> QED BY <1>5, <3>1
  <2>3. x.digits[i] \in Digit /\ y.digits[i] \in Digit
    <3>1. i \in 0 .. top
      BY <1>1
    <3> QED BY <1>4, <3>1
  <2>4. PICK u \in Digit, v \in Digit, k \in 0 .. 1 : u = x.digits[i] /\ v = y.digits[i] /\ k = borrow[i]
    BY <2>2, <2>3
  <2>5. borrow[i + 1] = IF u - v - k < 0 THEN 1 ELSE 0
    BY <1>5, <2>4
  <2>6. /\ (u - v - k) % Base \in Digit
        /\ u + Base * (IF u - v - k < 0 THEN 1 ELSE 0) = ((u - v - k) % Base) + v + k
    BY SubDigits
  <2> HIDE DEF diff
  <2> QED BY <2>1, <2>4, <2>5, <2>6
<1>7. ASSUME NEW i \in n .. top
      PROVE  /\ diff[i] \in Digit
             /\ i # n => diff[i] = x.digits[i]
             /\ i = n => diff[i] = (x.digits[i] - borrow[n]) % Base
  <2>1. i \in 0 .. top /\ ~ (i <= min)
    BY <1>1
  <2>2. diff[i] = (x.digits[i] - kept(i)) % Base
    BY <2>1
  <2>3. kept(i) \in 0 .. 1 /\ (i # n => kept(i) = 0) /\ (i = n => kept(i) = borrow[n])
    <3>1. borrow[n] \in 0 .. 1
      BY <1>1, <1>5
    <3> QED BY <3>1
  <2>4. PICK k \in 0 .. 1 : k = kept(i)
    BY <2>3
  <2> HIDE DEF diff, kept
  <2>5. /\ (x.digits[i] - k) % Base \in Digit
        /\ k = 0 => (x.digits[i] - k) % Base = x.digits[i] - k
    BY <1>4, <2>1, Drop
  <2>6. x.digits[i] \in Nat
    BY <1>4, <2>1, BaseIs
  <2> QED BY <2>2, <2>3, <2>4, <2>5, <2>6
<1>8. DOMAIN diff = 0 .. top
  OBVIOUS
<1> HIDE DEF diff, kept, behind
<1>9. IsDigits(diff, n) /\ IsDigits(diff, top + 1) /\ \A i \in 0 .. top : diff[i] \in Digit
  <2>1. \A i \in 0 .. n - 1 : i \in 0 .. min
    BY <1>1
  <2>2. \A i \in 0 .. top : i \in 0 .. min \/ i \in n .. top
    BY <1>1
  <2>3. \A i \in 0 .. top : diff[i] \in Digit
    BY <1>6, <1>7, <2>2
  <2>4. \A i \in 0 .. top + 1 - 1 : i \in 0 .. top
    OBVIOUS
  <2> QED BY <1>6, <2>1, <2>3, <2>4 DEF IsDigits
<1>10. NumberOf(x.digits, n) + borrow[n] * Weight(n) = NumberOf(diff, n) + NumberOf(y.digits, n)
  <2>1. \A i \in 0 .. n - 1 : x.digits[i] + Base * borrow[i + 1] = diff[i] + y.digits[i] + borrow[i]
    <3>1. \A i \in 0 .. n - 1 : i \in 0 .. min
      BY <1>1
    <3> QED BY <1>6, <3>1
  <2>2. borrow[0] = 0 /\ \A i \in 0 .. n : borrow[i] \in 0 .. 1
    BY <1>5
  <2> QED BY <1>4, <1>9, <2>1, <2>2, AddSum
<1>11. PICK X \in Nat, Ys \in Nat, D \in Nat, w \in Nat, k \in 0 .. 1 :
         /\ X = NumberOf(x.digits, n) /\ Ys = NumberOf(y.digits, n) /\ D = NumberOf(diff, n)
         /\ w = Weight(n) /\ k = borrow[n] /\ w > 0 /\ X + k * w = D + Ys
         /\ Ys = Value(y)
  <2>1. n \in 0 .. n
    BY <1>1
  <2>2. borrow[n] \in 0 .. 1
    BY <1>5, <2>1
  <2>3. Weight(n) \in Nat /\ Weight(n) > 0
    BY WeightsAre
  <2>4. NumberOf(x.digits, n) \in Nat /\ NumberOf(y.digits, n) \in Nat /\ NumberOf(diff, n) \in Nat
    BY <1>4, <1>9, NumberRange
  <2>5. Value(y) = NumberOf(y.digits, n)
    BY <1>1 DEF Value
  <2> QED BY <1>10, <2>2, <2>3, <2>4, <2>5
<1>12. PICK V \in Nat : V = Value(x) /\ V = NumberOf(x.digits, top + 1)
  <2>1. Value(x) \in Nat
    BY BigIs
  <2>2. Value(x) = NumberOf(x.digits, top + 1)
    BY <1>1 DEF Value
  <2> QED BY <2>1, <2>2
<1>13. top = min => k = 0 /\ V = X
  <2> SUFFICES ASSUME top = min PROVE k = 0 /\ V = X
    OBVIOUS
  <2>1. V = X
    BY <1>1, <1>11, <1>12
  <2>2. Ys <= X
    BY <1>11, <1>12, <2>1
  <2>3. k # 1
    BY <1>5, <1>11, <2>2
  <2> QED BY <2>1, <2>3
<1>14. s = Store(room, diff, top)
  <2>1. ~ (top = min /\ borrow[top + 1] = 1)
    <3>1. top = min => top + 1 = n
      BY <1>1
    <3>2. top = min => borrow[n] # 1
      BY <1>11, <1>13
    <3> QED BY <3>1, <3>2
  <2> QED BY <2>1
<1> HIDE DEF s
<1>15. /\ IsBig(s) /\ s.num = room.num /\ s.msd = top
       /\ \A i \in 0 .. top : s.digits[i] = diff[i]
  <2>1. top \in 0 .. room.num - 1 /\ DOMAIN diff \subseteq 0 .. room.num - 1
    BY <1>3, <1>8
  <2>2. /\ IsBig(s) /\ s.num = room.num /\ s.msd = top
        /\ \A i \in 0 .. room.num - 1 : s.digits[i] = IF i \in DOMAIN diff THEN diff[i] ELSE room.digits[i]
    BY <1>3, <1>8, <1>9, <1>14, <2>1, StoreIs
  <2>3. \A i \in 0 .. top : i \in 0 .. room.num - 1
    BY <1>3
  <2> QED BY <1>8, <2>2, <2>3
<1>16. Value(s) = NumberOf(diff, top + 1)
  <2>1. \A i \in 0 .. top + 1 - 1 : s.digits[i] = diff[i]
    BY <1>15
  <2> QED BY <1>9, <1>15, <2>1, NumberSame DEF Value
<1>17. /\ IsBig(C) /\ Trimmed(C) /\ C.num = room.num /\ C.msd <= top /\ Value(C) = Value(s)
  BY <1>2, <1>15, ClampIs
<1>18. DropsBorrow(x, y) <=> top > min /\ k = 1 /\ x.digits[n] = 0
  BY <1>1, <1>11 DEF DropsBorrow, borrow
<1> SUFFICES /\ ~ DropsBorrow(x, y) => Value(C) + Ys = V
             /\ DropsBorrow(x, y) => Value(C) + Ys = V + Weight(n + 1)
  <2>1. Weight(n + 1) = Weight(y.msd + 2)
    <3>1. n + 1 = y.msd + 2
      BY <1>1
    <3> QED BY <3>1
  <2> QED BY <1>1, <1>3, <1>11, <1>12, <1>17, <2>1 DEF C
<1>19. PICK R \in Nat : R = Value(C) /\ R = NumberOf(diff, top + 1)
  <2>1. Value(C) \in Nat
    BY <1>17, BigIs
  <2> QED BY <1>16, <1>17, <2>1
<1>20. CASE top = min
  <2>1. R = D
    BY <1>1, <1>11, <1>19, <1>20
  <2>2. X = D + Ys
    BY <1>11, <1>13, <1>20
  <2> QED BY <1>1, <1>13, <1>18, <1>19, <1>20, <2>1, <2>2
<1>21. CASE top > min
  <2>1. n + 1 \in 0 .. top + 1 /\ n \in n .. top /\ n \in 0 .. top /\ n + 1 \in Nat
    BY <1>1, <1>21
  <2>2. IsDigits(diff, n + 1) /\ IsDigits(x.digits, n + 1)
    <3>1. \A i \in 0 .. n + 1 - 1 : i \in 0 .. top
      BY <1>1, <2>1
    <3> QED BY <1>4, <1>9, <3>1 DEF IsDigits
  <2>3. R + NumberOf(x.digits, n + 1) = V + NumberOf(diff, n + 1)
    <3>1. \A i \in n + 1 .. top + 1 - 1 : diff[i] = x.digits[i]
      <4>1. \A i \in n + 1 .. top + 1 - 1 : i \in n .. top /\ i # n
        BY <1>1
      <4> QED BY <1>7, <4>1
    <3>2. NumberOf(diff, top + 1) + NumberOf(x.digits, n + 1)
            = NumberOf(x.digits, top + 1) + NumberOf(diff, n + 1)
      BY <1>4, <1>9, <2>1, <3>1, NumberTail
    <3> QED BY <1>12, <1>19, <3>2
  <2>4. PICK u \in Nat, z \in Nat : /\ u \in Digit /\ u = x.digits[n] /\ z = diff[n]
                                    /\ z = (u - k) % Base
    <3>1. diff[n] \in Digit /\ diff[n] = (x.digits[n] - borrow[n]) % Base
      BY <1>7, <2>1
    <3> QED BY <1>4, <1>11, <2>1, <3>1, BaseIs
  <2>5. NumberOf(diff, n + 1) = D + z * w /\ NumberOf(x.digits, n + 1) = X + u * w
    <3>1. /\ NumberOf(diff, n + 1) = NumberOf(diff, n) + diff[n] * Weight(n)
          /\ NumberOf(x.digits, n + 1) = NumberOf(x.digits, n) + x.digits[n] * Weight(n)
      BY <2>2, NumberStep
    <3> QED BY <1>11, <2>4, <3>1
  <2>6. PICK uw \in Nat, zw \in Nat, kw \in Nat : uw = u * w /\ zw = z * w /\ kw = k * w
    BY <2>4
  <2>7. R + (X + uw) = V + (D + zw) /\ X + kw = D + Ys
    BY <1>11, <2>3, <2>5, <2>6
  <2>8. DropsBorrow(x, y) <=> k = 1 /\ u = 0
    BY <1>18, <1>21, <2>4
  <2>9. CASE DropsBorrow(x, y)
    <3>1. k = 1 /\ u = 0 /\ z = Base - 1
      BY <2>4, <2>8, <2>9, Drop
    <3>2. PICK b \in Nat : b = Base
      BY BaseIs
    <3>3. PICK bw \in Nat : bw = b * w
      OBVIOUS
    <3>4. uw = 0 /\ kw = w /\ zw = bw - w
      <4>1. (b - 1) * w = b * w - w /\ 0 * w = 0 /\ 1 * w = w
        OBVIOUS
      <4> QED BY <2>6, <3>1, <3>2, <3>3, <4>1
    <3>5. R + Ys = V + bw
      BY <2>7, <3>4
    <3>6. Weight(n + 1) = bw
      BY <1>11, <3>2, <3>3, WeightsAre
    <3> QED BY <1>19, <2>9, <3>5, <3>6
  <2>10. CASE ~ DropsBorrow(x, y)
    <3>1. z = u - k
      <4>1. k = 0 \/ u # 0
        BY <2>8, <2>10
      <4> QED BY <2>4, <4>1, Drop
    <3>2. zw + kw = uw
      <4>1. u = z + k
        BY <2>4, <3>1
      <4>2. (z + k) * w = z * w + k * w
        BY <2>4
      <4> QED BY <2>6, <4>1, <4>2
    <3>3. R + Ys = V
      BY <2>7, <3>2
    <3> QED BY <1>19, <2>10, <3>3
  <2> QED BY <2>9, <2>10
<1> QED BY <1>1, <1>20, <1>21

\* Numbers without leading zeros have as many digits as they need.
LEMMA TrimmedAbove ==
  ASSUME NEW x, IsBig(x), Trimmed(x), x.msd > 0
  PROVE  Value(x) >= Weight(x.msd)
<1>1. x.msd \in Nat /\ x.msd + 1 \in Nat /\ IsDigits(x.digits, x.msd + 1)
  BY BigIs
<1>2. x.digits[x.msd] # 0 /\ x.msd \in x.msd .. x.msd + 1 - 1
  BY <1>1 DEF Trimmed
<1>3. NumberOf(x.digits, x.msd + 1) >= Weight(x.msd)
  BY <1>1, <1>2, NumberAbove
<1> QED BY <1>3 DEF Value

\* A number without leading zeros has no digit where it is too small for one,
LEMMA TrimmedBelow ==
  ASSUME NEW x, IsBig(x), Trimmed(x), NEW n \in Nat, n > 0, Value(x) < Weight(n)
  PROVE  x.msd < n
<1> SUFFICES ASSUME x.msd >= n PROVE FALSE
  BY BigIs
<1>1. x.msd \in Nat /\ x.msd > 0
  BY BigIs
<1>2. Value(x) >= Weight(x.msd) /\ Weight(x.msd) >= Weight(n)
  BY <1>1, TrimmedAbove, WeightsGrow
<1>3. Value(x) \in Nat /\ Weight(x.msd) \in Nat /\ Weight(n) \in Nat
  BY <1>1, BigIs, WeightsAre
<1> QED BY <1>2, <1>3

\* and no more digits than a greater number.
LEMMA TrimmedOrder ==
  ASSUME NEW x, NEW y, IsBig(x), IsBig(y), Trimmed(x), Value(x) <= Value(y)
  PROVE  x.msd <= y.msd
<1>1. x.msd \in Nat /\ y.msd \in Nat /\ y.msd + 1 \in Nat /\ y.msd + 1 > 0
  BY BigIs
<1>2. Value(x) \in Nat /\ Value(y) \in Nat /\ Value(y) < Weight(y.msd + 1)
  BY BigIs
<1>3. Weight(y.msd + 1) \in Nat
  BY <1>1, WeightsAre
<1>4. Value(x) < Weight(y.msd + 1)
  BY <1>2, <1>3
<1>5. x.msd < y.msd + 1
  BY <1>1, <1>4, TrimmedBelow
<1> QED BY <1>1, <1>5

\* bigint_sub: the difference, for all operands without leading zeros, or, when
\* the borrow is dropped, exactly one unit of the second digit above the smaller
\* operand more.
THEOREM SubIsDifference ==
  ASSUME NEW a, NEW b, NEW c, IsBig(a), IsBig(b), IsBig(c), Trimmed(a), Trimmed(b),
         Value(b) <= Value(a)
  PROVE  /\ IsBig(Sub(a, b, c)) /\ Trimmed(Sub(a, b, c))
         /\ Sub(a, b, c).num = IF c.num >= a.msd + 1 THEN c.num ELSE a.msd + 1
         /\ Sub(a, b, c).msd <= a.msd
         /\ ~ DropsBorrow(a, b) => Value(Sub(a, b, c)) = Value(a) - Value(b)
         /\ DropsBorrow(a, b) => Value(Sub(a, b, c)) = Value(a) - Value(b) + Weight(b.msd + 2)
<1> DEFINE x == Copy(a, Fresh(a.num))
           y == Copy(b, Fresh(b.num))
<1>1. /\ a.num \in Nat /\ a.num > 0 /\ a.msd \in Nat /\ b.num \in Nat /\ b.num > 0 /\ b.msd \in Nat
      /\ a.msd < a.num /\ b.msd < b.num /\ b.msd <= a.msd
      /\ Value(a) \in Nat /\ Value(b) \in Nat
  BY BigIs, TrimmedOrder
<1>2. /\ IsBig(x) /\ x.msd = a.msd /\ Value(x) = Value(a)
      /\ \A i \in 0 .. a.msd : x.digits[i] = a.digits[i]
      /\ IsBig(y) /\ y.msd = b.msd /\ Value(y) = Value(b)
      /\ \A i \in 0 .. b.msd : y.digits[i] = b.digits[i]
  <2>1. IsBig(Fresh(a.num)) /\ IsBig(Fresh(b.num))
    BY <1>1, FreshIs
  <2> QED BY <2>1, CopyIs
<1> HIDE DEF x, y
<1>3. CASE Cmp(a, b) # 0
  <2>1. Sub(a, b, c) = Copies(x, y, c)
    BY <1>3 DEF Sub, x, y
  <2>2. DropsBorrow(x, y) <=> DropsBorrow(a, b)
    <3>1. PICK m \in Nat : m = b.msd + 1
      BY <1>1
    <3>2. \A i \in 0 .. m - 1 : x.digits[i] = a.digits[i] /\ y.digits[i] = b.digits[i]
      BY <1>1, <1>2, <3>1
    <3>3. IsDigits(a.digits, m) /\ IsDigits(b.digits, m)
      <4>1. m \in 0 .. a.num /\ m \in 0 .. b.num
        BY <1>1, <3>1
      <4> QED BY <4>1, BigIs
    <3>4. /\ NumberOf(x.digits, m) = NumberOf(a.digits, m) /\ IsDigits(x.digits, m)
          /\ NumberOf(y.digits, m) = NumberOf(b.digits, m) /\ IsDigits(y.digits, m)
      BY <3>2, <3>3, NumberSame
    <3>5. Borrow(x, y, b.msd)[b.msd + 1] = 1 <=> Borrow(a, b, b.msd)[b.msd + 1] = 1
      BY <1>1, <3>1, <3>3, <3>4, BorrowIs
    <3>6. a.msd > b.msd => x.digits[b.msd + 1] = a.digits[b.msd + 1]
      BY <1>1, <1>2
    <3> QED BY <1>2, <3>5, <3>6 DEF DropsBorrow
  <2>3. y.msd <= x.msd /\ Value(y) <= Value(x)
    BY <1>1, <1>2
  <2>4. /\ IsBig(Copies(x, y, c)) /\ Trimmed(Copies(x, y, c))
        /\ Copies(x, y, c).num = IF c.num >= x.msd + 1 THEN c.num ELSE x.msd + 1
        /\ Copies(x, y, c).msd <= x.msd
        /\ ~ DropsBorrow(x, y) => Value(Copies(x, y, c)) + Value(y) = Value(x)
        /\ DropsBorrow(x, y) => Value(Copies(x, y, c)) + Value(y) = Value(x) + Weight(y.msd + 2)
    BY <1>2, <2>3, CopiesIs
  <2>5. Value(Copies(x, y, c)) \in Nat /\ Weight(b.msd + 2) \in Nat
    <3>1. b.msd + 2 \in Nat
      BY <1>1
    <3> QED BY <2>4, <3>1, BigIs, WeightsAre
  <2> QED BY <1>1, <1>2, <2>1, <2>2, <2>4, <2>5
<1>4. CASE Cmp(a, b) = 0
  <2>1. Sub(a, b, c) = Copies(y, x, c)
    BY <1>4 DEF Sub, x, y
  <2>2. Value(a) = Value(b)
    BY <1>4, CmpIsOrder
  <2>3. a.msd = b.msd
    <3>1. Value(a) <= Value(b)
      BY <1>1, <2>2
    <3>2. a.msd <= b.msd
      BY <3>1, TrimmedOrder
    <3> QED BY <1>1, <3>2
  <2>4. ~ DropsBorrow(y, x) /\ ~ DropsBorrow(a, b)
    BY <1>1, <1>2, <2>3 DEF DropsBorrow
  <2>5. x.msd <= y.msd /\ Value(x) <= Value(y)
    BY <1>1, <1>2, <2>2, <2>3
  <2>6. /\ IsBig(Copies(y, x, c)) /\ Trimmed(Copies(y, x, c))
        /\ Copies(y, x, c).num = IF c.num >= y.msd + 1 THEN c.num ELSE y.msd + 1
        /\ Copies(y, x, c).msd <= y.msd
        /\ Value(Copies(y, x, c)) + Value(x) = Value(y)
    BY <1>2, <2>4, <2>5, CopiesIs
  <2>7. Value(Copies(y, x, c)) \in Nat
    BY <2>6, BigIs
  <2> QED BY <1>1, <1>2, <2>1, <2>2, <2>3, <2>4, <2>6, <2>7
<1> QED BY <1>3, <1>4

\* Quotient and remainder make the number again,
LEMMA DivMod ==
  ASSUME NEW m \in Nat, NEW b \in Nat, b > 0
  PROVE  /\ m \div b \in Nat /\ m % b \in 0 .. b - 1
         /\ m = b * (m \div b) + (m % b)
OBVIOUS

\* and are determined by it.
LEMMA DivUnique ==
  ASSUME NEW b \in Nat, b > 0, NEW i \in Nat, NEW j \in 0 .. b - 1
  PROVE  (b * i + j) \div b = i /\ (b * i + j) % b = j
<1>1. b * i + j \in Nat
  <2>1. PICK p \in Nat : p = b * i
    OBVIOUS
  <2> QED BY <2>1
<1>2. PICK q \in Nat, r \in 0 .. b - 1 :
        /\ q = (b * i + j) \div b /\ r = (b * i + j) % b
        /\ b * i + j = b * q + r
  BY <1>1, DivMod
<1>3. q = i
  <2>1. CASE q > i
    <3>1. PICK d \in Nat : q = i + 1 + d
      <4>1. q - i - 1 \in Nat /\ q = i + 1 + (q - i - 1)
        BY <2>1
      <4> QED BY <4>1
    <3>2. b * q = b * i + b + b * d
      BY <3>1
    <3>3. PICK p \in Nat, u \in Nat : p = b * i /\ u = b * d
      OBVIOUS
    <3>4. p + j = p + b + u + r
      BY <1>2, <3>2, <3>3
    <3> QED BY <3>4
  <2>2. CASE q < i
    <3>1. PICK d \in Nat : i = q + 1 + d
      <4>1. i - q - 1 \in Nat /\ i = q + 1 + (i - q - 1)
        BY <2>2
      <4> QED BY <4>1
    <3>2. b * i = b * q + b + b * d
      BY <3>1
    <3>3. PICK p \in Nat, u \in Nat : p = b * q /\ u = b * d
      OBVIOUS
    <3>4. p + r = p + b + u + j
      BY <1>2, <3>2, <3>3
    <3> QED BY <3>4
  <2> QED BY <2>1, <2>2
<1>4. r = j
  <2>1. PICK p \in Nat : p = b * i
    OBVIOUS
  <2>2. p + j = p + r
    BY <1>2, <1>3, <2>1
  <2> QED BY <2>1, <2>2
<1> QED BY <1>2, <1>3, <1>4

(***************************************************************************)
(* Multiplying                                                             *)
(***************************************************************************)

\* A product of digits, a digit and a carry fit two digits.
LEMMA MulDigits ==
  ASSUME NEW x \in Digit, NEW y \in Digit, NEW z \in Digit, NEW c \in Digit
  PROVE  /\ x * y + z + c \in Nat
         /\ (x * y + z + c) \div Base \in Digit /\ (x * y + z + c) % Base \in Digit
         /\ ((x * y + z + c) % Base) + Base * ((x * y + z + c) \div Base) = x * y + z + c
<1>1. PICK b \in Nat : b = Base /\ b >= 2
  BY BaseIs
<1>2. x \in 0 .. b - 1 /\ y \in 0 .. b - 1 /\ z \in 0 .. b - 1 /\ c \in 0 .. b - 1
  BY <1>1 DEF Digit
<1>3. PICK p \in Nat : p = x * y /\ p <= (b - 1) * (b - 1)
  <2>1. x * y \in Nat /\ x * y <= (b - 1) * y /\ (b - 1) * y <= (b - 1) * (b - 1)
    BY <1>1, <1>2
  <2>2. (b - 1) * y \in Nat /\ (b - 1) * (b - 1) \in Nat
    BY <1>1, <1>2
  <2> QED BY <2>1, <2>2
<1>4. PICK t \in Nat : t = x * y + z + c /\ t = p + z + c
  BY <1>2, <1>3
<1>5. PICK s \in Nat : s = b * b
  OBVIOUS
<1>6. t < s
  <2>1. (b - 1) * (b - 1) = s - 2 * b + 1
    BY <1>5
  <2> QED BY <1>2, <1>3, <1>4, <1>5, <2>1
<1>7. PICK q \in Nat, r \in 0 .. b - 1 : q = t \div b /\ r = t % b /\ t = b * q + r
  BY <1>1, DivMod
<1>8. q < b
  <2> SUFFICES ASSUME q >= b PROVE FALSE
    OBVIOUS
  <2>1. b * q >= b * b
    OBVIOUS
  <2>2. PICK u \in Nat : u = b * q
    OBVIOUS
  <2> QED BY <1>5, <1>6, <1>7, <2>1, <2>2
<1>9. r + b * q = t
  <2>1. PICK u \in Nat : u = b * q
    OBVIOUS
  <2> QED BY <1>7, <2>1
<1> QED BY <1>1, <1>4, <1>7, <1>8, <1>9 DEF Digit

\* One digit of the result written.
Put(res, k, x) == [res EXCEPT ![k] = x]

\* Its number changes by the difference, at the weight of the digit.
LEMMA NumberWrite ==
  ASSUME NEW num \in Nat, NEW res \in [0 .. num - 1 -> Digit], NEW k \in 0 .. num - 1,
         NEW x \in Digit
  PROVE  /\ Put(res, k, x) \in [0 .. num - 1 -> Digit] /\ Put(res, k, x)[k] = x
         /\ \A i \in 0 .. num - 1 : i # k => Put(res, k, x)[i] = res[i]
         /\ IsDigits(res, num) /\ IsDigits(Put(res, k, x), num)
         /\ NumberOf(Put(res, k, x), num) + res[k] * Weight(k)
              = NumberOf(res, num) + x * Weight(k)
<1> DEFINE new == Put(res, k, x)
<1>1. /\ new \in [0 .. num - 1 -> Digit] /\ new[k] = x
      /\ \A i \in 0 .. num - 1 : i # k => new[i] = res[i]
  BY DEF Put
<1> HIDE DEF new
<1>2. IsDigits(res, num) /\ IsDigits(new, num)
  BY <1>1 DEF IsDigits
<1>3. \A d, e : IsDigits(d, num) /\ IsDigits(e, num) /\ (\A i \in 0 .. num - 1 : i # k => e[i] = d[i])
        => NumberOf(e, num) + d[k] * Weight(k) = NumberOf(d, num) + e[k] * Weight(k)
  BY NumberChange
<1>4. NumberOf(new, num) + res[k] * Weight(k) = NumberOf(res, num) + new[k] * Weight(k)
  BY <1>1, <1>2, <1>3, Zenon
<1> QED BY <1>1, <1>2, <1>4 DEF new

\* The product of one digit with one more digit of the other operand,
MulStepAt(num, nb, i, j, d, e, res, c, t) ==
  ( /\ t = d[i] * e[j] + res[i + j] + c
    /\ NumberOf(res, num) + c * Weight(i + j)
         = NumberOf(d, i) * NumberOf(e, nb) + (d[i] * Weight(i)) * NumberOf(e, j) )
  => ( /\ t \div Base \in Digit /\ t % Base \in Digit
       /\ NumberOf(Put(res, i + j, t % Base), num) + (t \div Base) * Weight(i + (j + 1))
            = NumberOf(d, i) * NumberOf(e, nb) + (d[i] * Weight(i)) * NumberOf(e, j + 1) )

\* keeps the sum of the rows.
LEMMA MulStep ==
  ASSUME NEW num \in Nat, NEW nb \in Nat, NEW i \in Nat, NEW j \in 0 .. nb - 1, i + nb < num,
         NEW d, IsDigits(d, i + 1), NEW e, IsDigits(e, nb),
         NEW res \in [0 .. num - 1 -> Digit], NEW c \in Digit, NEW t
  PROVE  MulStepAt(num, nb, i, j, d, e, res, c, t)
<1> SUFFICES ASSUME t = d[i] * e[j] + res[i + j] + c,
                    NumberOf(res, num) + c * Weight(i + j)
                      = NumberOf(d, i) * NumberOf(e, nb) + (d[i] * Weight(i)) * NumberOf(e, j)
             PROVE  /\ t \div Base \in Digit /\ t % Base \in Digit
                    /\ NumberOf(Put(res, i + j, t % Base), num) + (t \div Base) * Weight(i + (j + 1))
                         = NumberOf(d, i) * NumberOf(e, nb) + (d[i] * Weight(i)) * NumberOf(e, j + 1)
  BY DEF MulStepAt
<1>1. PICK k \in Nat : k = i + j /\ k \in 0 .. num - 1 /\ i + (j + 1) = k + 1 /\ j \in Nat
  OBVIOUS
<1>2. PICK x \in Digit, y \in Digit, z \in Digit : x = d[i] /\ y = e[j] /\ z = res[k]
  BY <1>1 DEF IsDigits
<1>3. x \in Nat /\ y \in Nat /\ z \in Nat /\ c \in Nat
  BY BaseIs
<1>4. /\ t = x * y + z + c /\ t \in Nat /\ t \div Base \in Digit /\ t % Base \in Digit
      /\ (t % Base) + Base * (t \div Base) = x * y + z + c
  <2>1. t = x * y + z + c
    BY <1>1, <1>2
  <2> QED BY <2>1, MulDigits
<1>5. PICK q \in Nat, r \in Nat, b \in Nat :
        /\ q = t \div Base /\ r = t % Base /\ b = Base /\ r \in Digit /\ q \in Digit
        /\ r + b * q = x * y + z + c
  BY <1>4, BaseIs
<1>6. PICK R \in Nat, N \in Nat : R = NumberOf(Put(res, k, r), num) /\ N = NumberOf(res, num)
                                  /\ R + z * Weight(k) = N + r * Weight(k)
  <2>1. /\ IsDigits(res, num) /\ IsDigits(Put(res, k, r), num)
        /\ NumberOf(Put(res, k, r), num) + res[k] * Weight(k)
             = NumberOf(res, num) + r * Weight(k)
    <3>1. r \in Digit /\ k \in 0 .. num - 1
      BY <1>1, <1>5
    <3> QED BY <3>1, NumberWrite
  <2>2. NumberOf(res, num) \in Nat /\ NumberOf(Put(res, k, r), num) \in Nat
    BY <2>1, NumberRange
  <2> QED BY <1>2, <2>1, <2>2
<1>7. PICK w \in Nat, u \in Nat, v \in Nat :
        /\ w = Weight(k) /\ u = Weight(i) /\ v = Weight(j) /\ w = u * v /\ Weight(k + 1) = b * w
  <2>1. Weight(k) = Weight(i) * Weight(j)
    BY <1>1, WeightSum
  <2>2. Weight(k) \in Nat /\ Weight(i) \in Nat /\ Weight(j) \in Nat /\ Weight(k + 1) = Base * Weight(k)
    BY <1>1, WeightsAre
  <2> QED BY <1>5, <2>1, <2>2
<1>8. PICK A \in Nat, E \in Nat, F \in Nat :
        /\ A = NumberOf(d, i) * NumberOf(e, nb) /\ E = NumberOf(e, j) /\ F = NumberOf(e, j + 1)
        /\ F = E + y * v
  <2>1. IsDigits(d, i) /\ IsDigits(e, j) /\ IsDigits(e, j + 1)
    BY DEF IsDigits
  <2>2. /\ NumberOf(d, i) \in Nat /\ NumberOf(e, nb) \in Nat /\ NumberOf(e, j) \in Nat
        /\ NumberOf(e, j + 1) \in Nat
    BY <1>1, <2>1, NumberRange
  <2>3. NumberOf(e, j + 1) = NumberOf(e, j) + e[j] * Weight(j)
    BY <1>1, <2>1, NumberStep
  <2>4. NumberOf(d, i) * NumberOf(e, nb) \in Nat
    BY <2>2
  <2> QED BY <1>2, <1>7, <2>2, <2>3, <2>4
<1>9. N + c * w = A + (x * u) * E
  BY <1>1, <1>2, <1>6, <1>7, <1>8
<1>10. PICK zw \in Nat, rw \in Nat, cw \in Nat, qw \in Nat, m \in Nat, g \in Nat :
         /\ zw = z * w /\ rw = r * w /\ cw = c * w /\ qw = q * (b * w) /\ m = (x * y) * w
         /\ g = (x * u) * E
  BY <1>3
<1>11. rw + qw = m + zw + cw
  <2>1. (r + b * q) * w = r * w + (b * q) * w /\ (b * q) * w = q * (b * w)
    OBVIOUS
  <2>2. (x * y + z + c) * w = (x * y) * w + z * w + c * w
    <3>1. PICK p \in Nat : p = x * y
      BY <1>3
    <3>2. (p + z + c) * w = p * w + z * w + c * w
      BY <1>3
    <3> QED BY <3>1, <3>2
  <2> QED BY <1>5, <1>10, <2>1, <2>2
<1>12. (x * u) * F = g + m
  <2>1. PICK a1 \in Nat, a2 \in Nat : a1 = x * u /\ a2 = y * v
    BY <1>3
  <2>2. a1 * (E + a2) = a1 * E + a1 * a2
    OBVIOUS
  <2>3. a1 * a2 = (x * y) * (u * v)
    BY <1>3, <2>1
  <2> QED BY <1>7, <1>8, <1>10, <2>1, <2>2, <2>3
<1>13. R + qw = A + (g + m)
  <2>1. R + zw = N + rw /\ N + cw = A + g
    BY <1>6, <1>7, <1>9, <1>10
  <2> QED BY <1>11, <2>1
<1>14. NumberOf(Put(res, i + j, t % Base), num) + (t \div Base) * Weight(i + (j + 1))
         = R + qw
  BY <1>1, <1>5, <1>6, <1>7, <1>10
<1>15. NumberOf(d, i) * NumberOf(e, nb) + (d[i] * Weight(i)) * NumberOf(e, j + 1) = A + (x * u) * F
  BY <1>2, <1>7, <1>8
<1> QED BY <1>4, <1>12, <1>13, <1>14, <1>15

\* and with its last.
LEMMA MulRowEnd ==
  ASSUME NEW num \in Nat, NEW nb \in Nat, NEW i \in Nat, i + nb < num,
         NEW d, IsDigits(d, i + 1), NEW e, IsDigits(e, nb),
         NEW res \in [0 .. num - 1 -> Digit], NEW c \in Digit, res[i + nb] = 0,
         NumberOf(res, num) + c * Weight(i + nb)
           = NumberOf(d, i) * NumberOf(e, nb) + (d[i] * Weight(i)) * NumberOf(e, nb)
  PROVE  NumberOf(Put(res, i + nb, c), num) = NumberOf(d, i + 1) * NumberOf(e, nb)
<1>1. PICK k \in Nat : k = i + nb /\ k \in 0 .. num - 1
  OBVIOUS
<1>2. PICK R \in Nat, N \in Nat, x \in Nat, w \in Nat, v \in Nat :
        /\ R = NumberOf(Put(res, k, c), num) /\ N = NumberOf(res, num)
        /\ x = d[i] /\ w = Weight(k) /\ v = Weight(i)
        /\ R + 0 * w = N + c * w
  <2>1. /\ IsDigits(res, num) /\ IsDigits(Put(res, k, c), num)
        /\ NumberOf(Put(res, k, c), num) + res[k] * Weight(k) = NumberOf(res, num) + c * Weight(k)
    BY <1>1, NumberWrite
  <2>2. NumberOf(res, num) \in Nat /\ NumberOf(Put(res, k, c), num) \in Nat
    BY <2>1, NumberRange
  <2>3. d[i] \in Nat /\ Weight(k) \in Nat /\ Weight(i) \in Nat
    <3>1. d[i] \in Digit
      BY DEF IsDigits
    <3> QED BY <1>1, <3>1, BaseIs, WeightsAre
  <2> QED BY <1>1, <2>1, <2>2, <2>3
<1>3. PICK D \in Nat, E \in Nat : D = NumberOf(d, i) /\ E = NumberOf(e, nb) /\ NumberOf(d, i + 1) = D + x * v
  <2>1. IsDigits(d, i)
    BY DEF IsDigits
  <2>2. NumberOf(d, i + 1) = NumberOf(d, i) + d[i] * Weight(i)
    BY NumberStep
  <2> QED BY <1>2, <2>1, <2>2, NumberRange
<1>4. PICK cw \in Nat : cw = c * w
  BY BaseIs
<1>5. R = N + cw
  BY <1>2, <1>4
<1>6. (D + x * v) * E = D * E + (x * v) * E
  <2>1. PICK p \in Nat : p = x * v
    OBVIOUS
  <2>2. (D + p) * E = D * E + p * E
    OBVIOUS
  <2> QED BY <2>1, <2>2
<1>7. N + cw = D * E + (x * v) * E
  BY <1>1, <1>2, <1>3, <1>4
<1> QED BY <1>1, <1>2, <1>3, <1>5, <1>6, <1>7

\* One digit product of bigint_mul.
Cell(a, b, s, i, j) ==
  LET t == a.digits[i] * b.digits[j] + s.res[i + j] + (IF j = 0 THEN 0 ELSE s.carry)
      res == Put(s.res, i + j, t % Base)
  IN  [res |-> IF j = b.msd THEN Put(res, i + b.msd + 1, t \div Base) ELSE res,
       carry |-> t \div Base]

\* The result and the carry.
Rows(num) == [res : [0 .. num - 1 -> Digit], carry : Digit]

\* The rows before digit i of a, and the digits of its row before digit j of b.
RowsSoFar(a, b, num, s, i, j) ==
  /\ NumberOf(s.res, num) + (IF j = 0 THEN 0 ELSE s.carry) * Weight(i + j)
       = NumberOf(a.digits, i) * Value(b)
           + (IF j = 0 THEN 0 ELSE (a.digits[i] * Weight(i)) * NumberOf(b.digits, j))
  /\ \A k \in i + b.msd + 1 .. num - 1 : s.res[k] = 0

\* The digits after a write.
LEMMA PutIs ==
  ASSUME NEW num \in Nat, NEW res \in [0 .. num - 1 -> Digit], NEW k \in 0 .. num - 1,
         NEW x \in Digit
  PROVE  /\ Put(res, k, x) \in [0 .. num - 1 -> Digit] /\ Put(res, k, x)[k] = x
         /\ \A n \in 0 .. num - 1 : n # k => Put(res, k, x)[n] = res[n]
BY DEF Put

\* Every digit product keeps what the rows are, from column to column and from
\* the last column to the next row.
LEMMA CellIs ==
  ASSUME NEW a, NEW b, IsBig(a), IsBig(b), NEW num \in Nat, a.msd + b.msd + 2 <= num,
         NEW s \in Rows(num), NEW i \in 0 .. a.msd, NEW j \in 0 .. b.msd
  PROVE  /\ Cell(a, b, s, i, j) \in Rows(num)
         /\ RowsSoFar(a, b, num, s, i, j) =>
              IF j = b.msd THEN RowsSoFar(a, b, num, Cell(a, b, s, i, j), i + 1, 0)
                           ELSE RowsSoFar(a, b, num, Cell(a, b, s, i, j), i, j + 1)
<1>p. PICK nb \in Nat : nb = b.msd + 1 /\ b.msd \in Nat /\ a.msd \in Nat /\ b.msd = nb - 1
  BY BigIs
<1>q. /\ i \in Nat /\ j \in Nat /\ j \in 0 .. nb - 1 /\ i + nb < num
      /\ i + nb \in 0 .. num - 1 /\ i + nb # i + j /\ i + j \in 0 .. num - 1
      /\ i + nb \in i + nb .. num - 1 /\ i + b.msd + 1 = i + nb
  BY <1>p
<1>r. /\ \A k \in i + nb .. num - 1 : k \in 0 .. num - 1 /\ k # i + j
      /\ i + 1 + b.msd + 1 = i + nb + 1
      /\ \A k \in i + nb + 1 .. num - 1 : k \in i + nb .. num - 1 /\ k # i + nb
  <2>1. \A k \in i + nb .. num - 1 : k \in 0 .. num - 1 /\ k # i + j
    BY <1>q
  <2>2. i + 1 + b.msd + 1 = i + nb + 1
    BY <1>p, <1>q
  <2>3. \A k \in i + nb + 1 .. num - 1 : k \in i + nb .. num - 1 /\ k # i + nb
    BY <1>q
  <2> QED BY <2>1, <2>2, <2>3
<1>1. PICK res \in [0 .. num - 1 -> Digit], carry \in Digit, c \in Digit :
        res = s.res /\ carry = s.carry /\ c = (IF j = 0 THEN 0 ELSE carry)
  <2>1. s.res \in [0 .. num - 1 -> Digit] /\ s.carry \in Digit
    BY DEF Rows
  <2>2. (IF j = 0 THEN 0 ELSE s.carry) \in Digit
    BY <2>1, BaseIs
  <2> QED BY <2>1, <2>2
<1>2. PICK d, e : d = a.digits /\ e = b.digits
  OBVIOUS
<1>3. IsDigits(d, i + 1) /\ IsDigits(d, i) /\ IsDigits(e, nb) /\ Value(b) = NumberOf(e, nb)
  <2>1. a.msd < a.num /\ a.num \in Nat
    BY BigIs
  <2>2. i + 1 \in 0 .. a.num /\ i \in 0 .. a.num
    BY <1>p, <2>1
  <2> QED BY <1>p, <1>2, <2>2, BigIs DEF Value
<1>4. PICK t : t = d[i] * e[j] + res[i + j] + c
  OBVIOUS
<1>5. /\ t \in Nat /\ t \div Base \in Digit /\ t % Base \in Digit
  <2>1. PICK x \in Digit, y \in Digit, z \in Digit : x = d[i] /\ y = e[j] /\ z = res[i + j]
    <3>1. i \in 0 .. i + 1 - 1
      BY <1>q
    <3>2. d[i] \in Digit /\ e[j] \in Digit
      BY <1>q, <1>3, <3>1 DEF IsDigits
    <3>3. res[i + j] \in Digit
      BY <1>q
    <3> QED BY <3>2, <3>3
  <2>2. t = x * y + z + c
    BY <1>4, <2>1
  <2> QED BY <2>2, MulDigits
<1>6. PICK q \in Digit, r \in Digit : q = t \div Base /\ r = t % Base
  BY <1>5
<1>7. PICK mid : mid = Put(res, i + j, r)
  OBVIOUS
<1>8. /\ mid \in [0 .. num - 1 -> Digit]
      /\ \A k \in 0 .. num - 1 : k # i + j => mid[k] = res[k]
  <2>1. PICK k : k = i + j /\ k \in 0 .. num - 1
    BY <1>q
  <2>2. r \in Digit /\ res \in [0 .. num - 1 -> Digit]
    OBVIOUS
  <2>3. /\ Put(res, k, r) \in [0 .. num - 1 -> Digit]
        /\ \A n \in 0 .. num - 1 : n # k => Put(res, k, r)[n] = res[n]
    <3>1. \A p \in 0 .. num - 1 : \A x \in Digit :
            /\ Put(res, p, x) \in [0 .. num - 1 -> Digit]
            /\ \A n \in 0 .. num - 1 : n # p => Put(res, p, x)[n] = res[n]
      BY PutIs
    <3> QED BY <2>1, <3>1, Zenon
  <2> QED BY <1>7, <2>1, <2>3
<1>9. PICK new : new = IF j = b.msd THEN Put(mid, i + nb, q) ELSE mid
  OBVIOUS
<1>10. Cell(a, b, s, i, j) = [res |-> new, carry |-> q]
  <2>1. a.digits[i] * b.digits[j] + s.res[i + j] + (IF j = 0 THEN 0 ELSE s.carry) = t
    BY <1>1, <1>2, <1>4
  <2>2. Cell(a, b, s, i, j)
          = [res |-> IF j = b.msd THEN Put(Put(s.res, i + j, t % Base), i + b.msd + 1, t \div Base)
                     ELSE Put(s.res, i + j, t % Base), carry |-> t \div Base]
    BY <2>1 DEF Cell
  <2>3. Put(s.res, i + j, t % Base) = mid
    BY <1>1, <1>6, <1>7
  <2> QED BY <1>q, <1>6, <1>9, <2>2, <2>3
<1>11. i + nb \in 0 .. num - 1 /\ i + nb # i + j
  BY <1>q
<1>12. new \in [0 .. num - 1 -> Digit]
  <2>1. Put(mid, i + nb, q) \in [0 .. num - 1 -> Digit]
    BY <1>8, <1>11, NumberWrite
  <2> QED BY <1>8, <1>9, <2>1
<1>13. Cell(a, b, s, i, j) \in Rows(num)
  BY <1>10, <1>12 DEF Rows
<1> SUFFICES ASSUME RowsSoFar(a, b, num, s, i, j)
             PROVE  IF j = b.msd THEN RowsSoFar(a, b, num, Cell(a, b, s, i, j), i + 1, 0)
                                 ELSE RowsSoFar(a, b, num, Cell(a, b, s, i, j), i, j + 1)
  BY <1>13
<1>14. \A k \in i + nb .. num - 1 : res[k] = 0
  BY <1>q, <1>1 DEF RowsSoFar
<1>15. /\ d[i] * Weight(i) \in Nat
       /\ NumberOf(d, i) * NumberOf(e, nb) \in Nat
  <2>1. d[i] \in Digit
    <3>1. i \in 0 .. i + 1 - 1
      BY <1>q
    <3> QED BY <1>3, <3>1 DEF IsDigits
  <2>2. d[i] * Weight(i) \in Nat
    BY <1>q, <2>1, TermType
  <2>3. NumberOf(d, i) \in Nat /\ NumberOf(e, nb) \in Nat
    BY <1>q, <1>3, NumberRange
  <2> QED BY <2>2, <2>3
<1>16. NumberOf(res, num) + c * Weight(i + j)
         = NumberOf(d, i) * NumberOf(e, nb) + (d[i] * Weight(i)) * NumberOf(e, j)
  <2>1. NumberOf(res, num) + c * Weight(i + j)
         = NumberOf(d, i) * NumberOf(e, nb)
             + (IF j = 0 THEN 0 ELSE (d[i] * Weight(i)) * NumberOf(e, j))
    BY <1>1, <1>2, <1>3 DEF RowsSoFar
  <2>2. j = 0 => (d[i] * Weight(i)) * NumberOf(e, j) = 0
    <3>1. j = 0 => NumberOf(e, j) = 0
      BY NumberStep
    <3> QED BY <1>15, <3>1
  <2> QED BY <2>1, <2>2
<1>17. NumberOf(mid, num) + q * Weight(i + (j + 1))
         = NumberOf(d, i) * NumberOf(e, nb) + (d[i] * Weight(i)) * NumberOf(e, j + 1)
  <2>1. /\ t \div Base \in Digit /\ t % Base \in Digit
        /\ NumberOf(Put(res, i + j, t % Base), num) + (t \div Base) * Weight(i + (j + 1))
             = NumberOf(d, i) * NumberOf(e, nb) + (d[i] * Weight(i)) * NumberOf(e, j + 1)
    <3>1. \A y : \A z \in Digit : y = d[i] * e[j] + res[i + j] + z
            => ( NumberOf(res, num) + z * Weight(i + j)
                   = NumberOf(d, i) * NumberOf(e, nb) + (d[i] * Weight(i)) * NumberOf(e, j)
                 => ( /\ y \div Base \in Digit /\ y % Base \in Digit
                     /\ NumberOf(Put(res, i + j, y % Base), num) + (y \div Base) * Weight(i + (j + 1))
                          = NumberOf(d, i) * NumberOf(e, nb) + (d[i] * Weight(i)) * NumberOf(e, j + 1) ))
      <4> SUFFICES ASSUME NEW y, NEW z \in Digit, y = d[i] * e[j] + res[i + j] + z,
                    NumberOf(res, num) + z * Weight(i + j)
                      = NumberOf(d, i) * NumberOf(e, nb) + (d[i] * Weight(i)) * NumberOf(e, j)
               PROVE  /\ y \div Base \in Digit /\ y % Base \in Digit
                      /\ NumberOf(Put(res, i + j, y % Base), num) + (y \div Base) * Weight(i + (j + 1))
                          = NumberOf(d, i) * NumberOf(e, nb) + (d[i] * Weight(i)) * NumberOf(e, j + 1)
        OBVIOUS
      <4>1. num \in Nat /\ nb \in Nat /\ i \in Nat /\ j \in 0 .. nb - 1 /\ i + nb < num
        BY <1>q
      <4>2. IsDigits(d, i + 1) /\ IsDigits(e, nb)
        BY <1>3
      <4>3. \A f \in [0 .. num - 1 -> Digit] : \A w \in Digit : \A v :
              ( /\ v = d[i] * e[j] + f[i + j] + w
                /\ NumberOf(f, num) + w * Weight(i + j)
                     = NumberOf(d, i) * NumberOf(e, nb) + (d[i] * Weight(i)) * NumberOf(e, j) )
              => ( /\ v \div Base \in Digit /\ v % Base \in Digit
                   /\ NumberOf(Put(f, i + j, v % Base), num) + (v \div Base) * Weight(i + (j + 1))
                        = NumberOf(d, i) * NumberOf(e, nb) + (d[i] * Weight(i)) * NumberOf(e, j + 1) )
        <5>1. \A g, h, f, w, v : ( /\ IsDigits(g, i + 1) /\ IsDigits(h, nb)
                   /\ f \in [0 .. num - 1 -> Digit] /\ w \in Digit )
              => MulStepAt(num, nb, i, j, g, h, f, w, v)
          BY <4>1, MulStep, Zenon
        <5>2. \A f, w, v : f \in [0 .. num - 1 -> Digit] /\ w \in Digit
              => MulStepAt(num, nb, i, j, d, e, f, w, v)
          BY <4>2, <5>1, Zenon
        <5> QED BY <5>2 DEF MulStepAt
      <4> QED BY <4>3
    <3> QED BY <1>4, <1>16, <3>1, Zenon
  <2> QED BY <1>6, <1>7, <2>1
<1>18. CASE j # b.msd
  <2>1. new = mid /\ j + 1 # 0
    BY <1>q, <1>9, <1>18
  <2>2. \A k \in i + b.msd + 1 .. num - 1 : new[k] = 0
    <3> QED BY <1>q, <1>r, <1>8, <1>14, <2>1
  <2>3. /\ Cell(a, b, s, i, j).res = new /\ Cell(a, b, s, i, j).carry = q
    BY <1>10
  <2>4. RowsSoFar(a, b, num, Cell(a, b, s, i, j), i, j + 1)
    BY <1>2, <1>3, <1>17, <2>1, <2>2, <2>3 DEF RowsSoFar
  <2> QED BY <1>18, <2>4
<1>19. CASE j = b.msd
  <2>1. new = Put(mid, i + nb, q) /\ j + 1 = nb /\ mid[i + nb] = 0 /\ i + (j + 1) = i + nb
    <3>2. j + 1 = nb
      BY <1>p, <1>19
    <3> QED BY <1>q, <1>8, <1>9, <1>11, <1>14, <1>19, <3>2
  <2>2. NumberOf(mid, num) + q * Weight(i + nb)
         = NumberOf(d, i) * NumberOf(e, nb) + (d[i] * Weight(i)) * NumberOf(e, nb)
    BY <1>17, <2>1
  <2>3. NumberOf(new, num) = NumberOf(d, i + 1) * NumberOf(e, nb)
    BY <1>q, <1>3, <1>8, <2>1, <2>2, MulRowEnd
  <2>4. \A k \in i + 1 + b.msd + 1 .. num - 1 : new[k] = 0
    <3>1. mid \in [0 .. num - 1 -> Digit] /\ i + nb \in 0 .. num - 1
      BY <1>8, <1>11
    <3>2. \A k \in 0 .. num - 1 : k # i + nb => Put(mid, i + nb, q)[k] = mid[k]
      <4>1. PICK k : k = i + nb /\ k \in 0 .. num - 1
        BY <3>1
      <4>2. \A n \in 0 .. num - 1 : n # k => Put(mid, k, q)[n] = mid[n]
        <5>1. \A p \in 0 .. num - 1 : \A x \in Digit :
                \A n \in 0 .. num - 1 : n # p => Put(mid, p, x)[n] = mid[n]
          BY <3>1 DEF Put
        <5> QED BY <4>1, <5>1, Zenon
      <4> QED BY <4>1, <4>2
    <3> QED BY <1>r, <1>8, <1>14, <2>1, <3>2
  <2>5. Cell(a, b, s, i, j).res = new
    BY <1>10
  <2>6. /\ NumberOf(new, num) + 0 * Weight(i + 1 + 0) = NumberOf(new, num)
        /\ NumberOf(d, i + 1) * NumberOf(e, nb) + 0 = NumberOf(d, i + 1) * NumberOf(e, nb)
    <3>1. i + 1 + 0 \in Nat
      BY <1>q
    <3>2. Weight(i + 1 + 0) \in Nat
      BY <3>1, WeightsAre
    <3>3. IsDigits(new, num)
      BY <1>12 DEF IsDigits
    <3>4. NumberOf(new, num) \in Nat
      BY <3>3, NumberRange
    <3> QED BY <2>3, <3>2, <3>4
  <2>7. RowsSoFar(a, b, num, Cell(a, b, s, i, j), i + 1, 0)
    BY <1>2, <1>3, <2>3, <2>4, <2>5, <2>6 DEF RowsSoFar
  <2> QED BY <1>19, <2>7
<1> QED BY <1>18, <1>19

\* The n-th step of bigint_mul.
Turn(a, b, s, n) ==
  LET nb == b.msd + 1
      i == (n - 1) \div nb
      j == (n - 1) % nb
      prev == s
      t == a.digits[i] * b.digits[j] + prev.res[i + j]
             + (IF j = 0 THEN 0 ELSE prev.carry)
      res == [prev.res EXCEPT ![i + j] = t % Base]
  IN  [res |-> IF j = nb - 1
                 THEN [res EXCEPT ![i + nb] = t \div Base] ELSE res,
       carry |-> t \div Base]

\* The n-th step of bigint_mul is the digit product of its row and column.
LEMMA TurnIs ==
  ASSUME NEW a, NEW b, IsBig(b), NEW s, NEW n \in Nat, n > 0
  PROVE  Turn(a, b, s, n) = Cell(a, b, s, (n - 1) \div (b.msd + 1), (n - 1) % (b.msd + 1))
<1>1. PICK nb \in Nat : nb = b.msd + 1 /\ b.msd = nb - 1 /\ nb > 0
  BY BigIs
<1>2. PICK i \in Nat, j \in Nat : i = (n - 1) \div nb /\ j = (n - 1) % nb
  BY <1>1, DivMod
<1>3. PICK t : t = a.digits[i] * b.digits[j] + s.res[i + j] + (IF j = 0 THEN 0 ELSE s.carry)
  OBVIOUS
<1>4. PICK q, r, f : q = t \div Base /\ r = t % Base /\ f = s.res
  OBVIOUS
<1>5. Turn(a, b, s, n)
        = [res |-> IF j = nb - 1 THEN [[f EXCEPT ![i + j] = r] EXCEPT ![i + nb] = q]
                   ELSE [f EXCEPT ![i + j] = r], carry |-> q]
  BY <1>1, <1>2, <1>3, <1>4 DEF Turn
<1>6. i + nb = i + b.msd + 1
  BY <1>1
<1>7. Cell(a, b, s, i, j)
        = [res |-> IF j = nb - 1 THEN [[f EXCEPT ![i + j] = r] EXCEPT ![i + nb] = q]
                   ELSE [f EXCEPT ![i + j] = r], carry |-> q]
  BY <1>1, <1>3, <1>4, <1>6 DEF Cell, Put
<1> QED BY <1>1, <1>2, <1>5, <1>7

\* Which digits the n-th step multiplies.
LEMMA Places ==
  ASSUME NEW na \in Nat, NEW nb \in Nat, nb > 0, NEW m \in Nat, m < na * nb
  PROVE  m \div nb \in 0 .. na - 1 /\ m % nb \in 0 .. nb - 1 /\ m = nb * (m \div nb) + (m % nb)
<1>1. PICK i \in Nat, j \in 0 .. nb - 1 : i = m \div nb /\ j = m % nb /\ m = nb * i + j
  BY DivMod
<1>2. i < na
  <2> SUFFICES ASSUME i >= na PROVE FALSE
    OBVIOUS
  <2>1. PICK d \in Nat : i = na + d
    <3>1. i - na \in Nat /\ i = na + (i - na)
      OBVIOUS
    <3> QED BY <3>1
  <2>2. nb * i = na * nb + nb * d
    BY <2>1
  <2>3. PICK p \in Nat, q \in Nat, r \in Nat : p = na * nb /\ q = nb * d /\ r = nb * i
    OBVIOUS
  <2> QED BY <1>1, <2>2, <2>3
<1> QED BY <1>1, <1>2

\* The rows of bigint_mul end with the product.
LEMMA MulRowsIs ==
  ASSUME NEW a, NEW b, IsBig(a), IsBig(b), NEW num \in Nat, a.msd + b.msd + 2 <= num
  PROVE  /\ MulRows(a, b, num) \in [0 .. num - 1 -> Digit]
         /\ NumberOf(MulRows(a, b, num), num) = Value(a) * Value(b)
         /\ \A k \in a.msd + b.msd + 2 .. num - 1 : MulRows(a, b, num)[k] = 0
<1>p. PICK na \in Nat, nb \in Nat :
        /\ na = a.msd + 1 /\ nb = b.msd + 1 /\ b.msd = nb - 1 /\ a.msd = na - 1
        /\ na > 0 /\ nb > 0 /\ b.msd \in Nat /\ num > 0
        /\ na + b.msd + 1 = a.msd + b.msd + 2
  <2>1. a.msd \in Nat /\ b.msd \in Nat
    BY BigIs
  <2>2. PICK na \in Nat, nb \in Nat : na = a.msd + 1 /\ nb = b.msd + 1
    BY <2>1
  <2> QED BY <2>1, <2>2
<1>m. PICK M \in Nat : M = na * nb /\ M = nb * na + 0
  <2>1. na * nb \in Nat /\ na * nb = nb * na /\ nb * na \in Nat
    OBVIOUS
  <2> QED BY <2>1
<1>d. \A i \in Nat : \A j \in 0 .. nb - 1 : (nb * i + j) \div nb = i /\ (nb * i + j) % nb = j
  BY <1>p, DivUnique
<1> DEFINE start == [res |-> Fresh(num).digits, carry |-> 0]
           F(row) == [n \in 0 .. M |-> IF n = 0 THEN start ELSE Turn(a, b, row[n - 1], n)]
           C == CHOOSE row : row = F(row)
           Step == [t \in Rows(num) \X (1 .. M) |-> Turn(a, b, t[1], t[2])]
<1>1. MulRows(a, b, num) = C[M].res
  BY <1>p, <1>m, Zenon DEF MulRows, Turn
<1>2. start \in Rows(num)
  <2>1. IsBig(Fresh(num)) /\ Fresh(num).num = num
    BY <1>p, FreshIs
  <2>2. Fresh(num).digits \in [0 .. num - 1 -> Digit]
    BY <2>1 DEF IsBig, WellFormed, Digit
  <2> QED BY <2>2, BaseIs DEF Rows
<1>3. \A n \in 1 .. M : /\ (n - 1) \div nb \in 0 .. na - 1 /\ (n - 1) % nb \in 0 .. nb - 1
                        /\ n - 1 = nb * ((n - 1) \div nb) + ((n - 1) % nb)
  <2> TAKE n \in 1 .. M
  <2>1. PICK m \in Nat : m = n - 1 /\ m < na * nb
    BY <1>m
  <2> QED BY <1>p, <2>1, Places
<1>4. \A s, n : n \in 1 .. M => Turn(a, b, s, n) = Cell(a, b, s, (n - 1) \div nb, (n - 1) % nb)
  <2>1. \A n : n \in 1 .. M => n \in Nat /\ n > 0
    OBVIOUS
  <2>2. \A s : \A n \in Nat : n > 0 => Turn(a, b, s, n) = Cell(a, b, s, (n - 1) \div nb, (n - 1) % nb)
    BY <1>p, TurnIs
  <2> QED BY <2>1, <2>2, Zenon
<1>5. \A s \in Rows(num) : \A n \in 1 .. M : Turn(a, b, s, n) \in Rows(num)
  <2> TAKE s \in Rows(num)
  <2> TAKE n \in 1 .. M
  <2>1. PICK i \in 0 .. a.msd, j \in 0 .. b.msd : i = (n - 1) \div nb /\ j = (n - 1) % nb
    BY <1>p, <1>3
  <2>2. Cell(a, b, s, i, j) \in Rows(num)
    BY CellIs
  <2> QED BY <1>4, <2>1, <2>2
<1>6. PICK g : IsRun(g, M, Rows(num), start, Step)
  <2> HIDE DEF start
  <2>1. IsStep(Step, M, Rows(num))
    BY <1>5 DEF IsStep
  <2> HIDE DEF Step
  <2> QED BY <1>2, <2>1, RunExists
<1>7. /\ g \in [0 .. M -> Rows(num)] /\ g[0] = start
      /\ \A n \in 1 .. M : g[n] = Turn(a, b, g[n - 1], n)
  <2>1. /\ g \in [0 .. M -> Rows(num)] /\ g[0] = start
        /\ \A n \in 1 .. M : g[n] = Step[<<g[n - 1], n>>]
    BY <1>6 DEF IsRun
  <2>2. \A n \in 1 .. M : g[n - 1] \in Rows(num)
    <3> HIDE DEF start, Step
    <3>1. \A n \in 1 .. M : n - 1 \in 0 .. M
      OBVIOUS
    <3> QED BY <2>1, <3>1
  <2> HIDE DEF start
  <2> QED BY <2>1, <2>2
<1> HIDE DEF start, Step
<1>8. g = F(g)
  <2>1. DOMAIN g = 0 .. M /\ g = [n \in 0 .. M |-> g[n]]
    BY <1>7
  <2>2. \A n \in 0 .. M : g[n] = IF n = 0 THEN start ELSE Turn(a, b, g[n - 1], n)
    <3>1. \A n \in 0 .. M : n = 0 \/ n \in 1 .. M
      OBVIOUS
    <3> QED BY <1>7, <3>1
  <2> QED BY <2>1, <2>2
<1>9. C = F(C)
  <2> HIDE DEF F
  <2> QED BY <1>8
<1>10. \A n \in 0 .. M : C[n] = g[n]
  <2>1. C[0] = start
    <3> HIDE DEF C
    <3>1. 0 \in 0 .. M
      OBVIOUS
    <3> QED BY <1>9, <3>1
  <2>2. \A n \in 0 .. M - 1 : C[n + 1] = Turn(a, b, C[n], n + 1)
    <3> HIDE DEF C
    <3>1. \A n \in 0 .. M - 1 : n + 1 \in 0 .. M /\ n + 1 # 0 /\ n + 1 - 1 = n
      OBVIOUS
    <3> QED BY <1>9, <3>1
  <2>3. \A n \in 0 .. M - 1 : g[n + 1] = Turn(a, b, g[n], n + 1)
    <3>1. \A n \in 0 .. M - 1 : n + 1 \in 1 .. M /\ n + 1 - 1 = n
      OBVIOUS
    <3> QED BY <1>7, <3>1
  <2> DEFINE S == {n \in 0 .. M : C[n] = g[n]}
  <2>4. 0 \in S /\ \A n \in 0 .. M - 1 : n \in S => n + 1 \in S
    <3> HIDE DEF C
    <3>1. 0 \in S
      BY <1>7, <2>1
    <3>2. \A n \in 0 .. M - 1 : n + 1 \in 0 .. M
      OBVIOUS
    <3> QED BY <2>2, <2>3, <3>1, <3>2
  <2>5. \A n \in S : C[n] = g[n]
    OBVIOUS
  <2> HIDE DEF S
  <2> QED BY <2>4, <2>5, InductTo
<1> HIDE DEF C, F
<1> DEFINE Is(n) == \E i \in 0 .. na : \E j \in 0 .. nb - 1 :
                      n = nb * i + j /\ RowsSoFar(a, b, num, g[n], i, j)
           S == {n \in 0 .. M : Is(n)}
<1>11. Is(0)
  <2>1. NumberOf(Fresh(num).digits, num) = 0 /\ \A k \in 0 .. num - 1 : Fresh(num).digits[k] = 0
    <3>1. /\ IsBig(Fresh(num)) /\ Fresh(num).num = num
          /\ \A k \in 0 .. num - 1 : Fresh(num).digits[k] = 0
      BY <1>p, FreshIs
    <3>2. IsDigits(Fresh(num).digits, num)
      BY <3>1, BaseIs DEF IsDigits
    <3>3. NumberOf(Fresh(num).digits, num) = NumberOf(Fresh(num).digits, 0)
      BY <3>1, <3>2, NumberZeros
    <3> QED BY <3>1, <3>3, NumberStep
  <2>2. g[0].res = Fresh(num).digits
    BY <1>7 DEF start
  <2>3. NumberOf(a.digits, 0) = 0 /\ Value(b) \in Nat /\ Weight(0 + 0) = 1
    BY NumberStep, BigIs, WeightsAre
  <2>4. NumberOf(g[0].res, num) + 0 * Weight(0 + 0) = NumberOf(a.digits, 0) * Value(b) + 0
    BY <2>1, <2>2, <2>3
  <2>5. \A k \in 0 + b.msd + 1 .. num - 1 : g[0].res[k] = 0
    BY <1>p, <2>1, <2>2
  <2>6. RowsSoFar(a, b, num, g[0], 0, 0)
    BY <2>4, <2>5 DEF RowsSoFar
  <2>7. 0 \in 0 .. na /\ 0 \in 0 .. nb - 1 /\ 0 = nb * 0 + 0
    BY <1>p
  <2> QED BY <2>6, <2>7
<1>12. ASSUME NEW n \in 0 .. M - 1, Is(n) PROVE Is(n + 1)
  <2>1. PICK i \in 0 .. na, j \in 0 .. nb - 1 : n = nb * i + j /\ RowsSoFar(a, b, num, g[n], i, j)
    BY <1>12
  <2>2. PICK m \in Nat : m = n + 1 /\ m \in 1 .. M /\ m - 1 = n
    OBVIOUS
  <2>3. i = n \div nb /\ j = n % nb /\ i \in 0 .. a.msd /\ j \in 0 .. b.msd
    <3>1. i = n \div nb /\ j = n % nb
      BY <1>d, <2>1
    <3>2. n \div nb \in 0 .. na - 1
      BY <1>3, <2>2
    <3> QED BY <1>p, <3>1, <3>2
  <2>4. g[n + 1] = Cell(a, b, g[n], i, j) /\ g[n] \in Rows(num)
    <3>1. n \in 0 .. M /\ g[m] = Turn(a, b, g[m - 1], m)
      BY <1>7, <2>2
    <3>2. \A s : Turn(a, b, s, m) = Cell(a, b, s, (m - 1) \div nb, (m - 1) % nb)
      BY <1>4, <2>2
    <3> QED BY <1>7, <2>2, <2>3, <3>1, <3>2
  <2>5. IF j = b.msd THEN RowsSoFar(a, b, num, g[n + 1], i + 1, 0)
                     ELSE RowsSoFar(a, b, num, g[n + 1], i, j + 1)
    <3>1. \A s \in Rows(num) : RowsSoFar(a, b, num, s, i, j) =>
              IF j = b.msd THEN RowsSoFar(a, b, num, Cell(a, b, s, i, j), i + 1, 0)
                           ELSE RowsSoFar(a, b, num, Cell(a, b, s, i, j), i, j + 1)
      BY <2>3, CellIs
    <3> QED BY <2>1, <2>4, <3>1
  <2>6. CASE j = b.msd
    <3>1. i + 1 \in 0 .. na /\ 0 \in 0 .. nb - 1
      BY <1>p, <2>3
    <3>2. n + 1 = nb * (i + 1) + 0
      <4>1. nb * (i + 1) = nb * i + nb
        OBVIOUS
      <4>2. PICK p \in Nat, u \in Nat : p = nb * i /\ u = nb * (i + 1)
        OBVIOUS
      <4>3. n = p + j /\ u = p + nb /\ j = nb - 1
        BY <1>p, <2>1, <2>6, <4>1, <4>2
      <4>4. n + 1 = u + 0
        BY <4>3
      <4> QED BY <4>2, <4>4
    <3> QED BY <2>5, <2>6, <3>1, <3>2
  <2>7. CASE j # b.msd
    <3>1. j + 1 \in 0 .. nb - 1
      BY <1>p, <2>3, <2>7
    <3>2. n + 1 = nb * i + (j + 1)
      <4>1. PICK p \in Nat : p = nb * i
        OBVIOUS
      <4> QED BY <2>1, <4>1
    <3> QED BY <2>5, <2>7, <3>1, <3>2
  <2> QED BY <2>6, <2>7
<1> HIDE DEF Is
<1>13. 0 \in S /\ \A n \in 0 .. M - 1 : n \in S => n + 1 \in S
  <2>1. \A n \in 0 .. M - 1 : n + 1 \in 0 .. M
    OBVIOUS
  <2> QED BY <1>11, <1>12, <2>1
<1>14. \A n \in S : Is(n)
  OBVIOUS
<1> HIDE DEF S
<1>15. M \in 0 .. M /\ Is(M)
  BY <1>13, <1>14, InductTo
<1>16. PICK i \in 0 .. na, j \in 0 .. nb - 1 : M = nb * i + j /\ RowsSoFar(a, b, num, g[M], i, j)
  BY <1>15 DEF Is
<1>17. i = na /\ j = 0
  <2>1. M = nb * na + 0 /\ 0 \in 0 .. nb - 1
    <3>1. 0 \in 0 .. nb - 1
      BY <1>p
    <3> QED BY <1>m, <3>1
  <2>2. M \div nb = na /\ M % nb = 0
    BY <1>d, <2>1
  <2>3. M \div nb = i /\ M % nb = j
    BY <1>d, <1>16
  <2> QED BY <2>2, <2>3
<1>18. g[M] \in Rows(num) /\ MulRows(a, b, num) = g[M].res
  BY <1>1, <1>7, <1>10, <1>15
<1>19. /\ NumberOf(g[M].res, num) + 0 * Weight(na + 0) = NumberOf(a.digits, na) * Value(b) + 0
       /\ \A k \in na + b.msd + 1 .. num - 1 : g[M].res[k] = 0
  BY <1>16, <1>17 DEF RowsSoFar
<1>20. NumberOf(g[M].res, num) = Value(a) * Value(b)
  <2>1. NumberOf(a.digits, na) = Value(a) /\ Value(a) \in Nat /\ Value(b) \in Nat
    BY <1>p, BigIs DEF Value
  <2>2. Value(a) * Value(b) \in Nat
    BY <2>1
  <2>3. IsDigits(g[M].res, num)
    BY <1>18 DEF Rows, IsDigits
  <2>4. NumberOf(g[M].res, num) \in Nat
    BY <2>3, NumberRange
  <2>5. na + 0 \in Nat
    OBVIOUS
  <2>6. Weight(na + 0) \in Nat
    BY <2>5, WeightsAre
  <2> QED BY <1>19, <2>1, <2>2, <2>4, <2>6
<1> QED BY <1>p, <1>18, <1>19, <1>20 DEF Rows

\* bigint_mul: the product without leading zeros, for all operands, whatever its
\* output held, and when the output is an operand.
THEOREM MulIsProduct ==
  ASSUME NEW a, NEW b, NEW c, IsBig(a), IsBig(b), IsBig(c)
  PROVE  /\ IsBig(Mul(a, b, c)) /\ Trimmed(Mul(a, b, c))
         /\ Value(Mul(a, b, c)) = Value(a) * Value(b)
<1> DEFINE room == Expand(c, a.msd + b.msd + 2)
           rows == MulRows(a, b, room.num)
           full == Bigint(room.num, rows, a.msd + b.msd + 1)
<1>1. PICK n \in Nat : n = a.msd + b.msd + 2 /\ n > 0 /\ n - 1 \in Nat
  <2>1. a.msd \in Nat /\ b.msd \in Nat
    BY BigIs
  <2> QED BY <2>1
<1>2. PICK num \in Nat : /\ IsBig(room) /\ room.num = num /\ n <= num
  <2>1. IsBig(room) /\ room.num = IF c.num >= n THEN c.num ELSE n
    BY <1>1, ExpandIs
  <2>2. c.num \in Nat
    BY BigIs
  <2> QED BY <2>1, <2>2
<1> HIDE DEF room
<1>3. a.msd + b.msd + 1 = n - 1 /\ n - 1 \in 0 .. num - 1
  <2>1. a.msd \in Nat /\ b.msd \in Nat
    BY BigIs
  <2> QED BY <1>1, <1>2, <2>1
<1>4. /\ rows \in [0 .. num - 1 -> Digit] /\ NumberOf(rows, num) = Value(a) * Value(b)
      /\ \A k \in n .. num - 1 : rows[k] = 0
  BY <1>1, <1>2, MulRowsIs
<1> HIDE DEF rows
<1>5. /\ IsBig(full) /\ full.num = num /\ full.digits = rows /\ full.msd = n - 1
  BY <1>2, <1>3, <1>4, MadeBig
<1> HIDE DEF full
<1>6. Value(full) = Value(a) * Value(b)
  <2>1. IsDigits(rows, num)
    BY <1>4 DEF IsDigits
  <2>2. NumberOf(rows, num) = NumberOf(rows, n)
    BY <1>1, <1>2, <1>4, <2>1, NumberZeros
  <2>3. full.msd + 1 = n
    BY <1>1, <1>5
  <2> QED BY <1>4, <1>5, <2>2, <2>3 DEF Value
<1>7. PICK cut : cut = Clamp(full)
  OBVIOUS
<1>8. /\ IsBig(cut) /\ Trimmed(cut) /\ Value(cut) = Value(full)
  BY <1>5, <1>7, ClampIs
<1>9. Mul(a, b, c) = Copy(cut, room)
  BY <1>7 DEF Mul, room, rows, full
<1>10. /\ IsBig(Copy(cut, room)) /\ Copy(cut, room).msd = cut.msd
       /\ \A i \in 0 .. cut.msd : Copy(cut, room).digits[i] = cut.digits[i]
       /\ Value(Copy(cut, room)) = Value(cut)
  BY <1>2, <1>8, CopyIs
<1>11. Trimmed(Copy(cut, room))
  <2>1. cut.msd \in 0 .. cut.msd
    BY <1>8, BigIs
  <2> QED BY <1>8, <1>10, <2>1 DEF Trimmed
<1> QED BY <1>6, <1>8, <1>9, <1>10, <1>11

(***************************************************************************)
(* Dividing: bigint_mod                                                    *)
(***************************************************************************)

\* The next bit of the dividend below what is left of it.
LEMMA ShiftInIs ==
  ASSUME NEW x, IsBig(x), Trimmed(x), NEW bit \in 0 .. 1
  PROVE  /\ IsBig(ShiftIn(x, bit)) /\ Trimmed(ShiftIn(x, bit))
         /\ ShiftIn(x, bit).num = IF x.num >= x.msd + 2 THEN x.num ELSE x.msd + 2
         /\ ShiftIn(x, bit).msd \in {x.msd, x.msd + 1}
         /\ Value(ShiftIn(x, bit)) = 2 * Value(x) + bit
<1> DEFINE y == LeftBitShift(x, x)
<1>1. /\ IsBig(y) /\ Trimmed(y) /\ y.num = (IF x.num >= x.msd + 2 THEN x.num ELSE x.msd + 2)
      /\ y.msd \in {x.msd, x.msd + 1} /\ Value(y) = 2 * Value(x) /\ y.digits[0] % 2 = 0
  BY LeftBitShiftIs
<1>2. ShiftIn(x, bit) = [y EXCEPT !.digits[0] = @ - (@ % 2) + bit]
  BY DEF ShiftIn
<1> HIDE DEF y
<1>n. PICK num \in Nat, msd \in Nat : num = y.num /\ msd = y.msd
  BY <1>1 DEF IsBig, WellFormed
<1>3. PICK d \in [0 .. num - 1 -> Digit] :
        /\ num = y.num /\ msd = y.msd /\ d = y.digits /\ y = Bigint(num, d, msd) /\ msd < num
        /\ 0 \in 0 .. num - 1
  BY <1>1, <1>n DEF IsBig, WellFormed, Digit
<1>4. d[0] \in Digit /\ d[0] + bit \in Digit /\ d[0] - (d[0] % 2) + bit = d[0] + bit
  <2>1. PICK h \in Nat, z \in Nat : Base = 2 * h /\ z = d[0] /\ z < Base /\ z % 2 = 0
    <3>1. d[0] \in Digit
      BY <1>3
    <3> QED BY <1>1, <1>3, <3>1, HalfBase, BaseIs
  <2>2. z + bit \in 0 .. 2 * h - 1
    BY <2>1
  <2> QED BY <2>1, <2>2 DEF Digit
<1>5. PICK e : e = Put(d, 0, d[0] + bit)
  OBVIOUS
<1>6. ShiftIn(x, bit) = Bigint(num, e, msd)
  <2>1. [y EXCEPT !.digits[0] = @ - (@ % 2) + bit]
          = [y EXCEPT !.digits = [d EXCEPT ![0] = d[0] - (d[0] % 2) + bit]]
    BY <1>3 DEF Bigint
  <2>2. [y EXCEPT !.digits = e] = Bigint(num, e, msd)
    BY <1>3 DEF Bigint
  <2> QED BY <1>2, <1>4, <1>5, <2>1, <2>2 DEF Put
<1>7. /\ e \in [0 .. num - 1 -> Digit] /\ e[0] = d[0] + bit
      /\ \A i \in 0 .. num - 1 : i # 0 => e[i] = d[i]
  <2>1. \A z \in Digit : /\ Put(d, 0, z) \in [0 .. num - 1 -> Digit] /\ Put(d, 0, z)[0] = z
                         /\ \A i \in 0 .. num - 1 : i # 0 => Put(d, 0, z)[i] = d[i]
    BY <1>3, PutIs
  <2> QED BY <1>4, <1>5, <2>1
<1>8. /\ IsBig(Bigint(num, e, msd)) /\ Bigint(num, e, msd).num = num
      /\ Bigint(num, e, msd).digits = e /\ Bigint(num, e, msd).msd = msd
  <2>1. msd \in 0 .. num - 1
    BY <1>3
  <2>2. \A f \in [0 .. num - 1 -> Digit] : \A m \in 0 .. num - 1 :
          /\ IsBig(Bigint(num, f, m)) /\ Bigint(num, f, m).num = num
          /\ Bigint(num, f, m).digits = f /\ Bigint(num, f, m).msd = m
    BY MadeBig
  <2> QED BY <1>7, <2>1, <2>2
<1>9. Trimmed(Bigint(num, e, msd))
  <2>1. msd = 0 \/ d[msd] # 0
    BY <1>1, <1>3 DEF Trimmed
  <2>2. msd # 0 => e[msd] = d[msd]
    BY <1>3, <1>7
  <2> QED BY <1>8, <2>1, <2>2 DEF Trimmed
<1>10. NumberOf(e, msd + 1) = NumberOf(d, msd + 1) + bit
  <2>1. IsDigits(d, msd + 1) /\ IsDigits(e, msd + 1)
    <3>1. \A i \in 0 .. msd + 1 - 1 : i \in 0 .. num - 1
      BY <1>3
    <3>2. \A i \in 0 .. num - 1 : d[i] \in Digit /\ e[i] \in Digit
      BY <1>3, <1>7
    <3> QED BY <3>1, <3>2 DEF IsDigits
  <2>2. 0 \in 0 .. msd + 1 - 1 /\ msd + 1 \in Nat /\ \A i \in 0 .. msd + 1 - 1 : i # 0 => e[i] = d[i]
    BY <1>3, <1>7
  <2>3. NumberOf(e, msd + 1) + d[0] * Weight(0) = NumberOf(d, msd + 1) + e[0] * Weight(0)
    BY <2>1, <2>2, NumberChange
  <2>4. PICK p \in Nat, q \in Nat, z \in Nat :
          p = NumberOf(e, msd + 1) /\ q = NumberOf(d, msd + 1) /\ z = d[0]
    BY <1>4, <2>1, <2>2, NumberRange, BaseIs
  <2>5. p + z * 1 = q + (z + bit) * 1
    BY <1>7, <2>3, <2>4, WeightsAre
  <2> QED BY <2>4, <2>5
<1>11. Value(Bigint(num, e, msd)) = 2 * Value(x) + bit
  <2>1. Value(y) = NumberOf(d, msd + 1)
    BY <1>3 DEF Value
  <2> QED BY <1>1, <1>8, <1>10, <2>1 DEF Value
<1> QED BY <1>1, <1>3, <1>6, <1>8, <1>9, <1>11

\* current and tmp_sub of bigint_mod
Remains(s, mod) ==
  /\ s = [current |-> s.current, tmp_sub |-> s.tmp_sub]
  /\ IsBig(s.current) /\ IsBig(s.tmp_sub) /\ Trimmed(s.current)
  /\ s.current.num = mod.msd + 2 /\ s.tmp_sub.num = mod.msd + 2
  /\ Value(s.current) < Value(mod)

\* One bit of the dividend taken down.
TakeBit(s, mod, bit) == Reduced([s EXCEPT !.current = ShiftIn(@, bit)], mod)

\* A bit taken down, and the modulus taken off when it fits.
LEMMA TakeBitIs ==
  ASSUME NEW s, NEW mod, IsBig(mod), Trimmed(mod), Remains(s, mod), NEW bit \in 0 .. 1
  PROVE  /\ Remains(TakeBit(s, mod, bit), mod)
         /\ Value(TakeBit(s, mod, bit).current)
              = LET v == 2 * Value(s.current) + bit
                IN  IF v < Value(mod) THEN v ELSE v - Value(mod)
<1>1. PICK cur, sub : /\ cur = s.current /\ sub = s.tmp_sub /\ s = [current |-> cur, tmp_sub |-> sub]
                      /\ IsBig(cur) /\ IsBig(sub) /\ Trimmed(cur)
                      /\ cur.num = mod.msd + 2 /\ sub.num = mod.msd + 2 /\ Value(cur) < Value(mod)
  BY DEF Remains
<1>2. PICK M \in Nat, v \in Nat, top \in Nat :
        M = Value(mod) /\ v = Value(cur) /\ top = mod.msd /\ v < M
  BY <1>1, BigIs
<1>3. cur.msd \in Nat /\ cur.msd <= top
  BY <1>1, <1>2, TrimmedOrder, BigIs
<1>4. PICK new : new = ShiftIn(cur, bit)
  OBVIOUS
<1>5. /\ IsBig(new) /\ Trimmed(new) /\ new.num = top + 2 /\ new.msd \in Nat /\ new.msd <= top + 1
      /\ Value(new) = 2 * v + bit
  <2>1. /\ IsBig(new) /\ Trimmed(new)
        /\ new.num = (IF cur.num >= cur.msd + 2 THEN cur.num ELSE cur.msd + 2)
        /\ new.msd \in {cur.msd, cur.msd + 1} /\ Value(new) = 2 * v + bit
    BY <1>1, <1>2, <1>4, ShiftInIs
  <2>2. cur.num = top + 2
    BY <1>1, <1>2
  <2> QED BY <1>3, <2>1, <2>2
<1>6. PICK w \in Nat : w = 2 * v + bit /\ w = Value(new) /\ w < 2 * M
  BY <1>2, <1>5
<1>7. [s EXCEPT !.current = ShiftIn(@, bit)] = [current |-> new, tmp_sub |-> sub]
  BY <1>1, <1>4
<1>8. TakeBit(s, mod, bit) = Reduced([current |-> new, tmp_sub |-> sub], mod)
  BY <1>7 DEF TakeBit
<1>9. Cmp(new, mod) = -1 <=> w < M
  BY <1>2, <1>5, <1>6, CmpIsOrder
<1>10. CASE w < M
  <2>1. TakeBit(s, mod, bit) = [current |-> new, tmp_sub |-> sub]
    BY <1>8, <1>9, <1>10 DEF Reduced
  <2>2. Remains([current |-> new, tmp_sub |-> sub], mod)
    BY <1>1, <1>2, <1>5, <1>6, <1>10 DEF Remains
  <2> QED BY <1>2, <1>1, <1>6, <1>10, <2>1, <2>2
<1>11. CASE w >= M
  <2>1. PICK dif : dif = Sub(new, mod, sub)
    OBVIOUS
  <2>2. ~ DropsBorrow(new, mod)
    <3> SUFFICES ASSUME DropsBorrow(new, mod) PROVE FALSE
      OBVIOUS
    <3>1. new.msd > mod.msd /\ new.digits[mod.msd + 1] = 0
      BY DEF DropsBorrow
    <3>2. new.msd = mod.msd + 1 /\ new.msd # 0
      BY <1>2, <1>5, <3>1
    <3> QED BY <1>5, <3>1, <3>2 DEF Trimmed
  <2>3. Value(mod) <= Value(new)
    BY <1>2, <1>6, <1>11
  <2>4. /\ IsBig(dif) /\ Trimmed(dif) /\ dif.msd <= new.msd
        /\ dif.num = (IF sub.num >= new.msd + 1 THEN sub.num ELSE new.msd + 1)
        /\ Value(dif) = w - M
    BY <1>1, <1>2, <1>5, <1>6, <2>1, <2>2, <2>3, SubIsDifference
  <2>5. dif.num = top + 2 /\ dif.msd \in Nat /\ dif.msd + 1 <= top + 2
    <3>1. dif.msd \in Nat /\ sub.num = top + 2
      BY <1>1, <1>2, <2>4, BigIs
    <3> QED BY <1>5, <2>4, <3>1
  <2>6. PICK rest : rest = Copy(dif, new)
    OBVIOUS
  <2>7. /\ IsBig(rest) /\ rest.num = top + 2 /\ rest.msd = dif.msd
        /\ rest.digits[dif.msd] = dif.digits[dif.msd] /\ Value(rest) = w - M
    <3>1. /\ IsBig(rest) /\ rest.num = (IF new.num >= dif.msd + 1 THEN new.num ELSE dif.msd + 1)
          /\ rest.msd = dif.msd /\ \A i \in 0 .. dif.msd : rest.digits[i] = dif.digits[i]
          /\ Value(rest) = Value(dif)
      BY <1>5, <2>4, <2>6, CopyIs
    <3>2. dif.msd \in 0 .. dif.msd
      BY <2>5
    <3> QED BY <1>5, <2>4, <2>5, <3>1, <3>2
  <2>8. Trimmed(rest)
    BY <2>4, <2>7 DEF Trimmed
  <2>9. TakeBit(s, mod, bit) = [current |-> rest, tmp_sub |-> dif]
    <3>1. ~ (Cmp(new, mod) = -1)
      BY <1>2, <1>6, <1>9, <1>11
    <3> QED BY <1>8, <2>1, <2>6, <3>1 DEF Reduced
  <2>10. w - M < M /\ ~ (w < M)
    BY <1>2, <1>6, <1>11
  <2>11. Remains([current |-> rest, tmp_sub |-> dif], mod)
    BY <1>2, <2>4, <2>5, <2>7, <2>8, <2>10 DEF Remains
  <2> QED BY <1>1, <1>2, <1>6, <2>7, <2>9, <2>10, <2>11
<1> QED BY <1>2, <1>6, <1>10, <1>11

\* A bit of a digit is a bit of the number.
LEMMA BitIs ==
  ASSUME NEW na \in Nat, NEW d, IsDigits(d, na), NEW e \in Nat, e < na * Bits
  PROVE  \E X \in Nat : \E bit \in 0 .. 1 :
           /\ X = NumberOf(d, na) \div 2 ^ (e + 1)
           /\ NumberOf(d, na) \div 2 ^ e = 2 * X + bit
           /\ bit = (d[e \div Bits] \div 2 ^ (e % Bits)) % 2
<1>1. PICK nb \in Nat : nb = Bits /\ nb > 0
  BY BaseIs
<1>2. PICK i \in Nat, k \in Nat : /\ i = e \div nb /\ k = e % nb /\ e = nb * i + k
                                  /\ i \in 0 .. na - 1 /\ i + 1 <= na /\ k < nb
  <2>1. e \div nb \in 0 .. na - 1 /\ e % nb \in 0 .. nb - 1 /\ e = nb * (e \div nb) + (e % nb)
    BY <1>1, Places
  <2> QED BY <1>1, <2>1
<1>3. PICK W \in Nat, P \in Nat, D \in Nat :
        W = Weight(i) /\ P = 2 ^ k /\ D = W * P /\ W > 0 /\ P > 0 /\ D > 0 /\ 2 ^ e = D
  <2>1. Weight(i) \in Nat /\ Weight(i) > 0
    BY <1>2, WeightsAre
  <2>2. 2 ^ k \in Nat /\ 2 ^ k > 0
    BY <1>2, PowersOfTwo
  <2>3. 2 ^ (nb * i + k) = 2 ^ (nb * i) * 2 ^ k
    <3>1. nb * i \in Nat
      OBVIOUS
    <3> QED BY <3>1, PowerSum
  <2>4. Weight(i) = 2 ^ (nb * i)
    BY <1>1 DEF Weight
  <2>5. PICK W \in Nat, P \in Nat : W = Weight(i) /\ P = 2 ^ k /\ W > 0 /\ P > 0
    BY <2>1, <2>2
  <2>6. W * P \in Nat /\ W * P > 0
    BY <2>5
  <2>7. 2 ^ e = W * P
    BY <1>2, <2>3, <2>4, <2>5
  <2> QED BY <2>5, <2>6, <2>7
<1>4. 2 ^ (e + 1) = 2 * D
  BY <1>3, PowerDouble
<1>5. PICK R \in Nat : Base = P * (2 * R)
  <2>1. PICK r \in Nat : r = nb - 1 - k /\ nb = k + (r + 1)
    BY <1>2
  <2>2. 2 ^ nb = 2 ^ k * 2 ^ (r + 1) /\ 2 ^ (r + 1) = 2 * 2 ^ r
    <3>1. r + 1 \in Nat
      OBVIOUS
    <3> QED BY <2>1, <3>1, PowerSum, PowerDouble
  <2>3. 2 ^ r \in Nat /\ Base = 2 ^ nb
    BY <1>1, PowersOfTwo DEF Base
  <2> QED BY <1>3, <2>2, <2>3
<1>6. PICK A \in Nat, L \in Nat, High \in Nat, x \in Nat :
        /\ A = NumberOf(d, na) /\ x = d[i] /\ L < W
        /\ A = (L + x * W) + (Base * W) * High
  <2>1. IsDigits(d, i + 1) /\ IsDigits(d, i) /\ d[i] \in Digit
    <3>1. \A j \in 0 .. i : j \in 0 .. na - 1
      BY <1>2
    <3> QED BY <1>2, <3>1 DEF IsDigits
  <2>2. PICK High \in Nat : NumberOf(d, na) = NumberOf(d, i + 1) + Weight(i + 1) * High
    BY <1>2, <2>1, NumberSplit
  <2>3. NumberOf(d, i + 1) = NumberOf(d, i) + d[i] * Weight(i)
    BY <1>2, <2>1, NumberStep
  <2>4. NumberOf(d, i) \in Nat /\ NumberOf(d, i) < Weight(i) /\ NumberOf(d, na) \in Nat
    BY <1>2, <2>1, NumberRange
  <2>5. Weight(i + 1) = Base * Weight(i)
    BY <1>2, WeightsAre
  <2>6. d[i] \in Nat
    BY <2>1, BaseIs
  <2> QED BY <1>3, <2>2, <2>3, <2>4, <2>5, <2>6
<1>7. PICK q \in Nat, l \in Nat : q = x \div P /\ x = P * q + l /\ l < P
  BY <1>3, DivMod
<1>8. PICK h \in Nat, bit \in 0 .. 1 : bit = q % 2 /\ q = 2 * h + bit
  <2>1. q \div 2 \in Nat /\ q % 2 \in 0 .. 1 /\ q = 2 * (q \div 2) + (q % 2)
    OBVIOUS
  <2> QED BY <2>1
<1>9. PICK X \in Nat : X = h + R * High
  OBVIOUS
<1>10. PICK T \in Nat : T = L + l * W /\ T < D
  <2>1. l + 1 <= P
    BY <1>7
  <2>2. (l + 1) * W <= P * W
    BY <2>1
  <2>3. (l + 1) * W = l * W + W /\ P * W = D
    BY <1>3
  <2>4. PICK u \in Nat : u = l * W
    OBVIOUS
  <2> QED BY <1>3, <1>6, <2>2, <2>3, <2>4
<1>11. A = D * (2 * X + bit) + T
  <2>1. PICK u \in Nat, v \in Nat : u = l * W /\ v = D * q
    OBVIOUS
  <2>2. x * W = v + u
    <3>1. (P * q + l) * W = (P * q) * W + l * W
      <4>1. PICK z \in Nat : z = P * q
        OBVIOUS
      <4>2. (z + l) * W = z * W + l * W
        OBVIOUS
      <4> QED BY <4>1, <4>2
    <3>2. (P * q) * W = (W * P) * q
      OBVIOUS
    <3> QED BY <1>3, <1>7, <2>1, <3>1, <3>2
  <2>3. PICK z \in Nat : z = R * High
    OBVIOUS
  <2>4. (Base * W) * High = D * (2 * z)
    <3>1. ((P * (2 * R)) * W) * High = (W * P) * (2 * (R * High))
      OBVIOUS
    <3> QED BY <1>3, <1>5, <2>3, <3>1
  <2>5. D * (2 * X + bit) = D * q + D * (2 * z)
    <3>1. 2 * X + bit = q + 2 * z
      BY <1>8, <1>9, <2>3
    <3>2. D * (q + 2 * z) = D * q + D * (2 * z)
      OBVIOUS
    <3> QED BY <3>1, <3>2
  <2>6. PICK y \in Nat : y = D * (2 * z)
    OBVIOUS
  <2>7. A = (L + (v + u)) + y /\ D * (2 * X + bit) = v + y /\ T = L + u
    BY <1>6, <1>10, <2>1, <2>2, <2>4, <2>5, <2>6
  <2>8. (L + (v + u)) + y = (v + y) + (L + u)
    OBVIOUS
  <2> QED BY <2>7, <2>8
<1>12. A \div D = 2 * X + bit
  <2>1. 2 * X + bit \in Nat /\ T \in 0 .. D - 1
    BY <1>10
  <2> QED BY <1>3, <1>11, <2>1, DivUnique
<1>13. A \div (2 * D) = X
  <2>1. PICK b \in Nat, j \in Nat : b = 2 * D /\ b > 0 /\ j = D * bit + T /\ j \in 0 .. b - 1
    <3>1. bit = 0 \/ bit = 1
      OBVIOUS
    <3>2. D * 0 = 0 /\ D * 1 = D
      OBVIOUS
    <3>3. PICK c \in Nat : c = D * bit /\ c <= D
      BY <3>1, <3>2
    <3>4. 2 * D \in Nat /\ 2 * D > 0 /\ c + T \in Nat /\ c + T < 2 * D
      <4>1. D > 0 /\ T < D /\ c <= D
        BY <1>3, <1>10, <3>3
      <4> QED BY <4>1
    <3>5. PICK b \in Nat, j \in Nat : b = 2 * D /\ b > 0 /\ j = c + T /\ j < b
      BY <3>4
    <3> QED BY <3>3, <3>5
  <2>2. A = b * X + j
    <3>1. D * (2 * X + bit) = (2 * D) * X + D * bit
      OBVIOUS
    <3>2. PICK u \in Nat, v \in Nat : u = (2 * D) * X /\ v = D * bit
      OBVIOUS
    <3>3. A = (u + v) + T /\ b * X = u /\ j = v + T
      BY <1>11, <2>1, <3>1, <3>2
    <3> QED BY <3>3
  <2> QED BY <2>1, <2>2, DivUnique
<1>14. bit = (d[e \div Bits] \div 2 ^ (e % Bits)) % 2
  BY <1>1, <1>2, <1>3, <1>6, <1>7, <1>8
<1> QED BY <1>3, <1>4, <1>6, <1>12, <1>13, <1>14

\* The remainder of twice a number and a bit.
LEMMA ModStep ==
  ASSUME NEW M \in Nat, M > 0, NEW X \in Nat, NEW bit \in 0 .. 1, NEW v \in Nat, v = X % M
  PROVE  v < M /\ (2 * X + bit) % M
           = (IF 2 * v + bit < M THEN 2 * v + bit ELSE 2 * v + bit - M)
<1>1. PICK q \in Nat : X = M * q + v /\ v < M
  <2>1. X \div M \in Nat /\ X % M \in 0 .. M - 1 /\ X = M * (X \div M) + (X % M)
    BY DivMod
  <2> QED BY <2>1
<1>2. PICK c \in Nat : c = M * q
  OBVIOUS
<1>3. CASE 2 * v + bit < M
  <2>1. 2 * q \in Nat /\ 2 * v + bit \in 0 .. M - 1
    BY <1>3
  <2>2. M * (2 * q) = 2 * (M * q)
    OBVIOUS
  <2>3. 2 * X + bit = M * (2 * q) + (2 * v + bit)
    BY <1>1, <1>2, <2>2
  <2>4. (M * (2 * q) + (2 * v + bit)) % M = 2 * v + bit
    BY <2>1, DivUnique
  <2> QED BY <1>1, <1>3, <2>3, <2>4
<1>4. CASE ~ (2 * v + bit < M)
  <2>1. 2 * q + 1 \in Nat /\ 2 * v + bit - M \in 0 .. M - 1
    BY <1>1, <1>4
  <2>2. M * (2 * q + 1) = 2 * (M * q) + M
    OBVIOUS
  <2>3. 2 * X + bit = M * (2 * q + 1) + (2 * v + bit - M)
    BY <1>1, <1>2, <2>2
  <2>4. (M * (2 * q + 1) + (2 * v + bit - M)) % M = 2 * v + bit - M
    BY <2>1, DivUnique
  <2> QED BY <1>1, <1>4, <2>3, <2>4
<1> QED BY <1>3, <1>4

\* bigint_mod: the remainder without leading zeros, for every number and every
\* modulus but zero, also into the number itself.
THEOREM ModIsRemainder ==
  ASSUME NEW a, NEW mod, NEW r, IsBig(a), IsBig(mod), IsBig(r), Trimmed(mod), Value(mod) > 0
  PROVE  /\ IsBig(Mod(a, mod, r)) /\ Trimmed(Mod(a, mod, r))
         /\ Mod(a, mod, r).msd <= mod.msd
         /\ Mod(a, mod, r).num = (IF r.num >= Mod(a, mod, r).msd + 1 THEN r.num
                                  ELSE Mod(a, mod, r).msd + 1)
         /\ Value(Mod(a, mod, r)) = Value(a) % Value(mod)
<1>p. PICK na \in Nat, nb \in Nat, A \in Nat, M \in Nat, top \in Nat :
        /\ na = a.msd + 1 /\ nb = Bits /\ nb > 0 /\ A = Value(a) /\ M = Value(mod) /\ M > 0
        /\ top = mod.msd
  BY BaseIs, BigIs
<1>m. PICK N \in Nat : N = (a.msd + 1) * Bits /\ N = na * nb /\ N = nb * na
  <2>1. na * nb \in Nat /\ na * nb = nb * na
    OBVIOUS
  <2> QED BY <1>p, <2>1
<1> DEFINE bit(n) == (a.digits[(N - n) \div Bits] \div 2 ^ ((N - n) % Bits)) % 2
           zero == Fresh(mod.msd + 2)
           start == [current |-> zero, tmp_sub |-> zero]
           F(after) == [n \in 0 .. N |-> IF n = 0 THEN start ELSE TakeBit(after[n - 1], mod, bit(n))]
           C == CHOOSE after : after = F(after)
           B == [num : {top + 2}, digits : [0 .. top + 1 -> Digit], msd : 0 .. top + 1]
           T == {s \in [current : B, tmp_sub : B] : Remains(s, mod)}
           Step == [t \in T \X (1 .. N) |-> TakeBit(t[1], mod, bit(t[2]))]
<1>1. Mod(a, mod, r) = Copy(C[N].current, r)
  BY <1>m, Zenon DEF Mod, TakeBit
<1>2. \A s : Remains(s, mod) => s \in T
  <2> TAKE s
  <2> HAVE Remains(s, mod)
  <2>1. \A x : IsBig(x) /\ x.num = mod.msd + 2 => x \in B
    <3> TAKE x
    <3> HAVE IsBig(x) /\ x.num = mod.msd + 2
    <3>1. x = [num |-> x.num, digits |-> x.digits, msd |-> x.msd]
      BY DEF IsBig, Bigint
    <3>2. x.num = top + 2 /\ top + 2 - 1 = top + 1
      BY <1>p
    <3>3. x.digits \in [0 .. top + 1 -> Digit] /\ x.msd \in 0 .. top + 1
      <4>1. x.digits \in [0 .. x.num - 1 -> Digit] /\ x.msd \in 0 .. x.num - 1
        BY DEF IsBig, WellFormed, Digit
      <4>2. x.num - 1 = top + 1
        BY <3>2
      <4> QED BY <4>1, <4>2
    <3> QED BY <3>1, <3>2, <3>3
  <2>2. s = [current |-> s.current, tmp_sub |-> s.tmp_sub] /\ s.current \in B /\ s.tmp_sub \in B
    BY <2>1 DEF Remains
  <2> HIDE DEF B
  <2> QED BY <2>2
<1>3. \A s \in T : Remains(s, mod)
  OBVIOUS
<1> HIDE DEF T, B
<1>4. \A n \in 1 .. N : \E X \in Nat :
        /\ bit(n) \in 0 .. 1 /\ X = A \div 2 ^ (N - n + 1) /\ A \div 2 ^ (N - n) = 2 * X + bit(n)
  <2> TAKE n \in 1 .. N
  <2>1. PICK e \in Nat : e = N - n /\ e < N
    OBVIOUS
  <2>2. IsDigits(a.digits, na) /\ NumberOf(a.digits, na) = A /\ e < na * Bits
    BY <1>p, <1>m, <2>1, BigIs DEF Value
  <2>3. \E X \in Nat : \E b \in 0 .. 1 :
          /\ X = NumberOf(a.digits, na) \div 2 ^ (e + 1)
          /\ NumberOf(a.digits, na) \div 2 ^ e = 2 * X + b
          /\ b = (a.digits[e \div Bits] \div 2 ^ (e % Bits)) % 2
    BY <2>2, BitIs
  <2> QED BY <2>1, <2>2, <2>3
<1> HIDE DEF bit
<1>5. Remains(start, mod) /\ Value(zero) = 0
  <2>1. mod.msd + 2 \in Nat /\ mod.msd + 2 > 0
    BY BigIs
  <2>2. /\ IsBig(zero) /\ zero.num = mod.msd + 2 /\ zero.msd = 0 /\ Value(zero) = 0
    BY <2>1, FreshIs
  <2> HIDE DEF zero
  <2> QED BY <1>p, <2>2 DEF Remains, Trimmed
<1>6. \A s \in T : \A n \in 1 .. N :
        /\ TakeBit(s, mod, bit(n)) \in T
        /\ Value(TakeBit(s, mod, bit(n)).current)
             = LET v == 2 * Value(s.current) + bit(n)
               IN  IF v < Value(mod) THEN v ELSE v - Value(mod)
  <2> TAKE s \in T
  <2> TAKE n \in 1 .. N
  <2>1. Remains(s, mod) /\ bit(n) \in 0 .. 1
    BY <1>3, <1>4
  <2>2. PICK b \in 0 .. 1 : b = bit(n)
    BY <2>1
  <2>3. /\ Remains(TakeBit(s, mod, b), mod)
        /\ Value(TakeBit(s, mod, b).current)
             = LET v == 2 * Value(s.current) + b
               IN  IF v < Value(mod) THEN v ELSE v - Value(mod)
    BY <2>1, TakeBitIs
  <2> QED BY <1>2, <2>2, <2>3
<1>7. PICK g : IsRun(g, N, T, start, Step)
  <2>1. IsStep(Step, N, T)
    BY <1>6 DEF IsStep
  <2>2. start \in T
    BY <1>2, <1>5
  <2> HIDE DEF Step, start
  <2> QED BY <2>1, <2>2, RunExists
<1>8. /\ g \in [0 .. N -> T] /\ g[0] = start
      /\ \A n \in 1 .. N : g[n] = TakeBit(g[n - 1], mod, bit(n))
  <2>1. /\ g \in [0 .. N -> T] /\ g[0] = start
        /\ \A n \in 1 .. N : g[n] = Step[<<g[n - 1], n>>]
    BY <1>7 DEF IsRun
  <2>2. \A n \in 1 .. N : g[n - 1] \in T
    <3> HIDE DEF start, Step
    <3>1. \A n \in 1 .. N : n - 1 \in 0 .. N
      OBVIOUS
    <3> QED BY <2>1, <3>1
  <2> HIDE DEF start
  <2> QED BY <2>1, <2>2
<1> HIDE DEF start, Step
<1>9. g = F(g)
  <2>1. DOMAIN g = 0 .. N /\ g = [n \in 0 .. N |-> g[n]]
    BY <1>8
  <2>2. \A n \in 0 .. N : g[n] = IF n = 0 THEN start ELSE TakeBit(g[n - 1], mod, bit(n))
    <3>1. \A n \in 0 .. N : n = 0 \/ n \in 1 .. N
      OBVIOUS
    <3> QED BY <1>8, <3>1
  <2> QED BY <2>1, <2>2
<1>10. C = F(C)
  <2> HIDE DEF F
  <2> QED BY <1>9
<1> HIDE DEF C
<1>11. \A n \in 0 .. N : C[n] = g[n]
  <2>1. C[0] = start
    <3>1. 0 \in 0 .. N
      OBVIOUS
    <3> QED BY <1>10, <3>1
  <2>2. \A n \in 0 .. N - 1 : C[n + 1] = TakeBit(C[n], mod, bit(n + 1))
    <3>1. \A n \in 0 .. N - 1 : n + 1 \in 0 .. N /\ n + 1 # 0 /\ n + 1 - 1 = n
      OBVIOUS
    <3> QED BY <1>10, <3>1
  <2>3. \A n \in 0 .. N - 1 : g[n + 1] = TakeBit(g[n], mod, bit(n + 1))
    <3>1. \A n \in 0 .. N - 1 : n + 1 \in 1 .. N /\ n + 1 - 1 = n
      OBVIOUS
    <3> QED BY <1>8, <3>1
  <2> DEFINE S == {n \in 0 .. N : C[n] = g[n]}
  <2>4. 0 \in S /\ \A n \in 0 .. N - 1 : n \in S => n + 1 \in S
    <3>1. 0 \in S
      BY <1>8, <2>1
    <3>2. \A n \in 0 .. N - 1 : n + 1 \in 0 .. N
      OBVIOUS
    <3> QED BY <2>2, <2>3, <3>1, <3>2
  <2>5. \A n \in S : C[n] = g[n]
    OBVIOUS
  <2> HIDE DEF S
  <2> QED BY <2>4, <2>5, InductTo
<1> HIDE DEF F
<1> DEFINE Is(n) == Value(g[n].current) = (A \div 2 ^ (N - n)) % M
           S == {n \in 0 .. N : Is(n)}
<1>12. Is(0)
  <2>1. 2 ^ N \in Nat /\ 2 ^ N > 0 /\ A < 2 ^ N
    <3>1. A < Weight(na) /\ Weight(na) = 2 ^ N
      BY <1>p, <1>m, BigIs DEF Weight
    <3> QED BY <3>1, PowersOfTwo
  <2>2. PICK D \in Nat : D = 2 ^ N /\ D > 0 /\ A \in 0 .. D - 1 /\ A = D * 0 + A
    BY <2>1
  <2>3. A \div D = 0
    BY <2>2, DivUnique
  <2>4. 0 % M = 0
    <3>1. 0 = M * 0 + 0 /\ 0 \in 0 .. M - 1
      BY <1>p
    <3>2. (M * 0 + 0) % M = 0
      BY <1>p, <3>1, DivUnique
    <3> QED BY <3>1, <3>2
  <2>5. N - 0 = N /\ Value(g[0].current) = 0
    BY <1>5, <1>8 DEF start
  <2> QED BY <2>2, <2>3, <2>4, <2>5
<1>13. ASSUME NEW n \in 0 .. N - 1, Is(n) PROVE Is(n + 1)
  <2>1. PICK m \in 1 .. N : m = n + 1 /\ m - 1 = n /\ N - m + 1 = N - n /\ n \in 0 .. N
    OBVIOUS
  <2>2. PICK X \in Nat, b \in 0 .. 1, v \in Nat :
          /\ b = bit(m) /\ X = A \div 2 ^ (N - n) /\ A \div 2 ^ (N - m) = 2 * X + b
          /\ v = Value(g[n].current)
    <3>1. Value(g[n].current) \in Nat
      BY <1>3, <1>8, <2>1, BigIs DEF Remains
    <3> QED BY <1>4, <2>1, <3>1
  <2>3. g[m] = TakeBit(g[n], mod, b) /\ g[n] \in T
    BY <1>8, <2>1, <2>2
  <2>4. Value(g[m].current) = (IF 2 * v + b < M THEN 2 * v + b ELSE 2 * v + b - M)
    <3>1. Value(TakeBit(g[n], mod, b).current)
            = LET w == 2 * Value(g[n].current) + b
              IN  IF w < Value(mod) THEN w ELSE w - Value(mod)
      BY <1>6, <2>2, <2>3
    <3> QED BY <1>p, <2>2, <2>3, <3>1
  <2>5. v = X % M
    BY <1>13, <2>2
  <2>6. (2 * X + b) % M = (IF 2 * v + b < M THEN 2 * v + b ELSE 2 * v + b - M)
    BY <1>p, <2>5, ModStep
  <2> QED BY <2>1, <2>2, <2>4, <2>6
<1>14. 0 \in S /\ \A n \in 0 .. N - 1 : n \in S => n + 1 \in S
  <2> HIDE DEF Is
  <2>1. \A n \in 0 .. N - 1 : n + 1 \in 0 .. N
    OBVIOUS
  <2> QED BY <1>12, <1>13, <2>1
<1>15. \A n \in S : Is(n)
  OBVIOUS
<1> HIDE DEF S
<1>16. N \in 0 .. N /\ Is(N)
  <2>1. N \in 0 .. N
    OBVIOUS
  <2>2. \A n \in 0 .. N : n \in S
    <3> HIDE DEF Is
    <3> QED BY <1>14, InductTo
  <2> HIDE DEF Is
  <2> QED BY <1>15, <2>1, <2>2
<1>17. PICK cur : cur = g[N].current /\ Value(cur) = A % M
  <2>1. A \div 1 = A
    <3>1. A = 1 * A + 0 /\ 0 \in 0 .. 1 - 1
      OBVIOUS
    <3>2. (1 * A + 0) \div 1 = A
      BY <3>1, DivUnique
    <3> QED BY <3>1, <3>2
  <2>2. N - N = 0 /\ 2 ^ 0 = 1
    BY PowerZero
  <2> QED BY <1>16, <2>1, <2>2
<1>18. IsBig(cur) /\ Trimmed(cur) /\ Value(cur) < Value(mod) /\ cur.msd \in Nat
  <2>1. g[N] \in T
    BY <1>8, <1>16
  <2> QED BY <1>3, <1>17, <2>1, BigIs DEF Remains
<1>19. cur.msd <= mod.msd
  <2>1. Value(cur) <= Value(mod)
    BY <1>18, BigIs
  <2> QED BY <1>18, <2>1, TrimmedOrder
<1>20. Mod(a, mod, r) = Copy(cur, r)
  BY <1>1, <1>11, <1>16, <1>17
<1>21. /\ IsBig(Copy(cur, r)) /\ Copy(cur, r).msd = cur.msd
       /\ Copy(cur, r).num = (IF r.num >= cur.msd + 1 THEN r.num ELSE cur.msd + 1)
       /\ Copy(cur, r).digits[cur.msd] = cur.digits[cur.msd]
       /\ Value(Copy(cur, r)) = Value(cur)
  <2>1. /\ IsBig(Copy(cur, r)) /\ Copy(cur, r).msd = cur.msd
        /\ Copy(cur, r).num = (IF r.num >= cur.msd + 1 THEN r.num ELSE cur.msd + 1)
        /\ \A i \in 0 .. cur.msd : Copy(cur, r).digits[i] = cur.digits[i]
        /\ Value(Copy(cur, r)) = Value(cur)
    BY <1>18, CopyIs
  <2>2. cur.msd \in 0 .. cur.msd
    BY <1>18
  <2> QED BY <2>1, <2>2
<1> QED BY <1>p, <1>17, <1>18, <1>19, <1>20, <1>21 DEF Trimmed

-----------------------------------------------------------------------------
(***************************************************************************)
(* Poly1305: poly1305.c over bigint.c                                      *)
(*                                                                         *)
(* The numbers of blocks and the prime                                     *)
(***************************************************************************)

\* A digit of poly1305.c has three bits at least: 2^130 - 5 is positive.
LEMMA EightBase == Base >= 8
<1>1. PICK k \in Nat : Bits = 3 + k
  <2>1. Bits \in Nat /\ Bits >= 3
    BY PolyAssumption, BaseIs
  <2>2. Bits - 3 \in Nat /\ Bits = 3 + (Bits - 3)
    BY <2>1
  <2> QED BY <2>2
<1>2. 2 ^ 3 = 8
  <2>1. 2 ^ (0 + 1) = 2 * 2 ^ 0 /\ 2 ^ (1 + 1) = 2 * 2 ^ 1 /\ 2 ^ (2 + 1) = 2 * 2 ^ 2
    BY PowerDouble
  <2>2. 0 + 1 = 1 /\ 1 + 1 = 2 /\ 2 + 1 = 3
    OBVIOUS
  <2> QED BY <2>1, <2>2, PowerZero
<1>3. PICK p \in Nat : p = 2 ^ k /\ p > 0
  BY PowersOfTwo
<1>4. Base = 8 * p
  <2>1. 2 ^ (3 + k) = 2 ^ 3 * 2 ^ k
    BY PowerSum
  <2> QED BY <1>1, <1>2, <1>3, <2>1 DEF Base
<1> QED BY <1>3, <1>4

\* What a sequence of digits stands for, read by bigint_from_bytes.
LEMMA BytesIs ==
  ASSUME NEW n \in Nat, n > 0, NEW ds \in [1 .. n -> Digit]
  PROVE  LET x == FromBytes(Fresh(n), Reversed(ds))
         IN  /\ IsBig(x) /\ x.num = n /\ x.msd = n - 1 /\ Value(x) = Number(ds)
             /\ \A i \in 0 .. n - 1 : x.digits[i] = ds[i + 1]
<1>1. Len(ds) = n
  OBVIOUS
<1>2. PICK rs : /\ rs = Reversed(ds) /\ rs \in Seq(Digit) /\ Len(rs) = n
                /\ \A i \in 1 .. n : rs[i] = ds[n + 1 - i]
  <2>1. Reversed(ds) = [i \in 1 .. n |-> ds[n + 1 - i]]
    BY <1>1 DEF Reversed
  <2>2. \A i \in 1 .. n : ds[n + 1 - i] \in Digit
    OBVIOUS
  <2>3. Reversed(ds) \in [1 .. n -> Digit]
    BY <2>1, <2>2
  <2> QED BY <2>1, <2>3
<1>3. PICK x : x = FromBytes(Fresh(n), rs)
  OBVIOUS
<1>4. /\ IsBig(x) /\ x.num = n /\ x.msd = n - 1
      /\ \A i \in 0 .. n - 1 : x.digits[i] = rs[n - i]
  <2>1. Len(rs) \in 1 .. n
    BY <1>2
  <2>2. rs \in Seq(Digit)
    BY <1>2
  <2>3. /\ IsBig(x) /\ x.num = n /\ x.msd = Len(rs) - 1
        /\ \A i \in 0 .. Len(rs) - 1 : x.digits[i] = rs[Len(rs) - i]
    BY <1>3, <2>1, <2>2, FromBytesIs, Zenon
  <2>4. Len(rs) = n
    BY <1>2
  <2> QED BY <2>3, <2>4, Zenon
<1>5. \A i \in 0 .. n - 1 : x.digits[i] = ds[i + 1]
  <2> TAKE i \in 0 .. n - 1
  <2>1. n - i \in 1 .. n /\ n + 1 - (n - i) = i + 1
    OBVIOUS
  <2> QED BY <1>2, <1>4, <2>1
<1>6. Value(x) = Number(ds)
  <2> DEFINE d == [i \in 0 .. n - 1 |-> ds[i + 1]]
  <2>1. Number(ds) = NumberOf(d, n)
    BY <1>1 DEF Number
  <2>2. \A i \in 0 .. n - 1 : d[i] = x.digits[i]
    BY <1>5
  <2> HIDE DEF d
  <2>3. IsDigits(x.digits, n) /\ x.msd + 1 = n
    BY <1>4, BigIs
  <2>4. NumberOf(d, n) = NumberOf(x.digits, n)
    BY <2>2, <2>3, NumberSame
  <2> QED BY <2>1, <2>3, <2>4 DEF Value
<1> QED BY <1>2, <1>3, <1>4, <1>5, <1>6

\* 2^130 - 5
LEMMA PrimeIs ==
  /\ IsBig(Prime) /\ Trimmed(Prime) /\ Prime.msd = 4
  /\ Value(Prime) = 4 * Weight(4) - 5
  /\ Weight(4) \in Nat /\ Weight(4) >= 8 /\ Value(Prime) > 0
<1>1. PICK b \in Nat : b = Base /\ b >= 8
  BY BaseIs, EightBase
<1>2. PICK ds : ds = <<3, b - 1, b - 1, b - 1, b - 5>>
  OBVIOUS
<1>3. ds \in Seq(Digit) /\ Len(ds) = 5
  <2>1. 3 \in Digit /\ b - 1 \in Digit /\ b - 5 \in Digit
    BY <1>1 DEF Digit
  <2> QED BY <1>2, <2>1
<1>4. PICK x : x = Prime
  OBVIOUS
<1>5. /\ IsBig(x) /\ x.num = 5 /\ x.msd = 4
      /\ \A i \in 0 .. 4 : x.digits[i] = ds[5 - i]
  <2>1. Prime = FromBytes(Fresh(5), ds)
    BY <1>1, <1>2 DEF Prime
  <2>2. Len(ds) \in 1 .. 5 /\ 5 \in Nat
    BY <1>3
  <2>3. /\ IsBig(FromBytes(Fresh(5), ds)) /\ FromBytes(Fresh(5), ds).num = 5
        /\ FromBytes(Fresh(5), ds).msd = Len(ds) - 1
        /\ \A i \in 0 .. Len(ds) - 1 : FromBytes(Fresh(5), ds).digits[i] = ds[Len(ds) - i]
    BY <1>3, <2>2, FromBytesIs
  <2> QED BY <1>3, <1>4, <2>1, <2>3
<1>6. PICK d : d = x.digits
  OBVIOUS
<1>7. d[0] = b - 5 /\ d[1] = b - 1 /\ d[2] = b - 1 /\ d[3] = b - 1 /\ d[4] = 3
  BY <1>2, <1>5, <1>6
<1>8. PICK w1 \in Nat, w2 \in Nat, w3 \in Nat, w4 \in Nat :
        /\ w1 = Weight(1) /\ w2 = Weight(2) /\ w3 = Weight(3) /\ w4 = Weight(4) /\ Weight(0) = 1
        /\ w1 = b * 1 /\ w2 = b * w1 /\ w3 = b * w2 /\ w4 = b * w3 /\ w4 >= 8
  <2>1. /\ \A i \in Nat : Weight(i) \in Nat /\ Weight(i) > 0 /\ Weight(i + 1) = b * Weight(i)
        /\ Weight(0) = 1
    BY <1>1, WeightsAre
  <2>2. Weight(0 + 1) = b * Weight(0) /\ Weight(1 + 1) = b * Weight(1)
        /\ Weight(2 + 1) = b * Weight(2) /\ Weight(3 + 1) = b * Weight(3)
    BY <2>1
  <2>3. 0 + 1 = 1 /\ 1 + 1 = 2 /\ 2 + 1 = 3 /\ 3 + 1 = 4
    OBVIOUS
  <2>4. Weight(4) >= Weight(1)
    BY WeightsGrow
  <2>5. PICK w1 \in Nat, w2 \in Nat, w3 \in Nat, w4 \in Nat :
          w1 = Weight(1) /\ w2 = Weight(2) /\ w3 = Weight(3) /\ w4 = Weight(4)
    BY <2>1
  <2>6. w1 = b * 1 /\ w2 = b * w1 /\ w3 = b * w2 /\ w4 = b * w3 /\ Weight(0) = 1
    BY <2>1, <2>2, <2>3, <2>5
  <2>7. w4 >= 8
    BY <1>1, <2>4, <2>5, <2>6
  <2> QED BY <2>5, <2>6, <2>7
<1>9. NumberOf(d, 5) = (b - 5) * 1 + (b - 1) * w1 + (b - 1) * w2 + (b - 1) * w3 + 3 * w4
  <2>1. \A n \in 0 .. 5 : IsDigits(d, n)
    BY <1>5, <1>6, BigIs
  <2>2. \A n \in 0 .. 4 : NumberOf(d, n + 1) = NumberOf(d, n) + d[n] * Weight(n)
    <3> TAKE n \in 0 .. 4
    <3>1. n \in Nat /\ n + 1 \in 0 .. 5
      OBVIOUS
    <3> QED BY <2>1, <3>1, NumberStep
  <2>3. \A n \in 0 .. 5 : NumberOf(d, n) \in Nat
    <3> TAKE n \in 0 .. 5
    <3>1. n \in Nat
      OBVIOUS
    <3> QED BY <2>1, <3>1, NumberRange
  <2>4. /\ NumberOf(d, 0 + 1) = NumberOf(d, 0) + d[0] * Weight(0)
        /\ NumberOf(d, 1 + 1) = NumberOf(d, 1) + d[1] * Weight(1)
        /\ NumberOf(d, 2 + 1) = NumberOf(d, 2) + d[2] * Weight(2)
        /\ NumberOf(d, 3 + 1) = NumberOf(d, 3) + d[3] * Weight(3)
        /\ NumberOf(d, 4 + 1) = NumberOf(d, 4) + d[4] * Weight(4)
    BY <2>2
  <2>5. PICK n1 \in Nat, n2 \in Nat, n3 \in Nat, n4 \in Nat, n5 \in Nat :
          /\ n1 = NumberOf(d, 1) /\ n2 = NumberOf(d, 2) /\ n3 = NumberOf(d, 3)
          /\ n4 = NumberOf(d, 4) /\ n5 = NumberOf(d, 5)
    BY <2>3
  <2>6. 0 + 1 = 1 /\ 1 + 1 = 2 /\ 2 + 1 = 3 /\ 3 + 1 = 4 /\ 4 + 1 = 5
    OBVIOUS
  <2>7. /\ n1 = 0 + (b - 5) * 1 /\ n2 = n1 + (b - 1) * w1 /\ n3 = n2 + (b - 1) * w2
        /\ n4 = n3 + (b - 1) * w3 /\ n5 = n4 + 3 * w4
    BY <1>7, <1>8, <2>4, <2>5, <2>6, NumberStep
  <2>8. PICK y1 \in Nat, y2 \in Nat, y3 \in Nat, y4 \in Nat :
          /\ y1 = (b - 1) * w1 /\ y2 = (b - 1) * w2 /\ y3 = (b - 1) * w3 /\ y4 = 3 * w4
    <3>1. b - 1 \in Nat
      BY <1>1
    <3>2. (b - 1) * w1 \in Nat /\ (b - 1) * w2 \in Nat /\ (b - 1) * w3 \in Nat /\ 3 * w4 \in Nat
      BY <3>1
    <3> QED BY <3>2
  <2>9. PICK y0 \in Nat : y0 = (b - 5) * 1
    BY <1>1
  <2>10. n5 = y0 + y1 + y2 + y3 + y4
    BY <2>7, <2>8, <2>9
  <2> QED BY <2>5, <2>8, <2>9, <2>10
<1>10. NumberOf(d, 5) = 4 * w4 - 5
  <2>1. (b - 1) * w1 = w2 - w1 /\ (b - 1) * w2 = w3 - w2 /\ (b - 1) * w3 = w4 - w3
        /\ (b - 5) * 1 = w1 - 5
    <3>1. (b - 1) * w1 = b * w1 - w1 /\ (b - 1) * w2 = b * w2 - w2 /\ (b - 1) * w3 = b * w3 - w3
      OBVIOUS
    <3> QED BY <1>8, <3>1
  <2>2. NumberOf(d, 5) = (w1 - 5) + (w2 - w1) + (w3 - w2) + (w4 - w3) + 3 * w4
    BY <1>9, <2>1
  <2> QED BY <2>2
<1>11. Value(x) = 4 * w4 - 5
  <2>1. x.msd + 1 = 5
    BY <1>5
  <2> QED BY <1>6, <1>10, <2>1 DEF Value
<1>12. Trimmed(x)
  <2>1. x.digits[x.msd] = 3
    BY <1>5, <1>6, <1>7
  <2> QED BY <2>1 DEF Trimmed
<1> QED BY <1>4, <1>5, <1>8, <1>11, <1>12

(***************************************************************************)
(* The accumulator of RFC 8439                                             *)
(***************************************************************************)

\* The numbers of blocks: 16 bytes and the byte 0x01.
Five == [1 .. 5 -> Digit]

\* A block is a number.
LEMMA NumberType ==
  ASSUME NEW ds \in Five
  PROVE  Number(ds) \in Nat
<1>1. PICK x : IsBig(x) /\ Value(x) = Number(ds)
  <2>1. 5 \in Nat /\ 5 > 0 /\ ds \in [1 .. 5 -> Digit]
    BY DEF Five
  <2>2. IsBig(FromBytes(Fresh(5), Reversed(ds))) /\ Value(FromBytes(Fresh(5), Reversed(ds))) = Number(ds)
    BY <2>1, BytesIs
  <2> QED BY <2>2
<1> QED BY <1>1, BigIs

\* One block of RFC 8439.
StdBlock(v, ds, r) == ((v + Number(ds)) * r) % (4 * Weight(4) - 5)

\* and so is the accumulator.
LEMMA StdBlockType ==
  ASSUME NEW v \in Nat, NEW ds \in Five, NEW r \in Nat
  PROVE  StdBlock(v, ds, r) \in Nat
<1>1. PICK n \in Nat : n = (v + Number(ds)) * r
  <2>1. v + Number(ds) \in Nat
    BY NumberType
  <2> QED BY <2>1
<1>2. PICK p \in Nat : p = 4 * Weight(4) - 5 /\ p > 0
  BY PrimeIs
<1>3. n % p \in Nat
  BY <1>2, DivMod
<1> QED BY <1>1, <1>2, <1>3 DEF StdBlock

\* g are the accumulators of the standard after every block.
IsAcc(r, ns, g) ==
  /\ g \in [0 .. Len(ns) -> Nat] /\ g[0] = 0
  /\ \A n \in 0 .. Len(ns) - 1 : g[n + 1] = StdBlock(g[n], ns[n + 1], r)

\* The accumulators of the standard exist.
LEMMA AccIs ==
  ASSUME NEW r \in Nat, NEW ns \in Seq(Five)
  PROVE  \E g : IsAcc(r, ns, g) /\ StdAcc(r, ns) = g[Len(ns)]
<1>n. PICK N \in Nat : N = Len(ns)
  OBVIOUS
<1>f. \A n \in 1 .. N : ns[n] \in Five
  BY <1>n
<1> DEFINE Step == [t \in Nat \X (1 .. N) |-> StdBlock(t[1], ns[t[2]], r)]
           F(after) == [n \in 0 .. N |-> IF n = 0 THEN 0 ELSE StdBlock(after[n - 1], ns[n], r)]
           C == CHOOSE after : after = F(after)
<1>1. StdAcc(r, ns) = C[N]
  BY <1>n, Zenon DEF StdAcc, StdBlock
<1>2. IsStep(Step, N, Nat)
  BY <1>f, StdBlockType DEF IsStep
<1>3. \A x \in Nat, i \in 1 .. N : Step[<<x, i>>] = StdBlock(x, ns[i], r)
  OBVIOUS
<1> HIDE DEF Step
<1>4. PICK g : IsRun(g, N, Nat, 0, Step)
  BY <1>2, RunExists
<1>5. /\ g \in [0 .. N -> Nat] /\ g[0] = 0
      /\ \A n \in 1 .. N : g[n] = StdBlock(g[n - 1], ns[n], r)
  <2>1. g \in [0 .. N -> Nat] /\ g[0] = 0 /\ \A i \in 1 .. N : g[i] = Step[<<g[i - 1], i>>]
    BY <1>4 DEF IsRun
  <2>2. \A i \in 1 .. N : g[i - 1] \in Nat
    BY <2>1
  <2> QED BY <1>3, <2>1, <2>2
<1>6. g = F(g)
  <2>1. DOMAIN g = 0 .. N /\ g = [n \in 0 .. N |-> g[n]]
    BY <1>5
  <2>2. \A n \in 0 .. N : g[n] = IF n = 0 THEN 0 ELSE StdBlock(g[n - 1], ns[n], r)
    <3>1. \A n \in 0 .. N : n = 0 \/ n \in 1 .. N
      OBVIOUS
    <3> QED BY <1>5, <3>1
  <2> QED BY <2>1, <2>2
<1>7. C = F(C)
  <2> HIDE DEF F
  <2> QED BY <1>6
<1> HIDE DEF C
<1>8. /\ C[0] = 0 /\ DOMAIN C = 0 .. N /\ C = [n \in 0 .. N |-> C[n]]
      /\ \A n \in 0 .. N - 1 : C[n + 1] = StdBlock(C[n], ns[n + 1], r)
  <2>1. C[0] = 0 /\ DOMAIN C = 0 .. N /\ C = [n \in 0 .. N |-> C[n]]
    BY <1>7
  <2>2. \A n \in 0 .. N - 1 : C[n + 1] = StdBlock(C[n], ns[n + 1], r)
    <3>1. \A n \in 0 .. N - 1 : n + 1 \in 0 .. N /\ n + 1 # 0 /\ n + 1 - 1 = n
      OBVIOUS
    <3> QED BY <1>7, <3>1
  <2> QED BY <2>1, <2>2
<1> HIDE DEF F
<1>9. C \in [0 .. N -> Nat]
  <2> DEFINE S == {n \in 0 .. N : C[n] \in Nat}
  <2>1. 0 \in S
    BY <1>8
  <2>2. ASSUME NEW n \in 0 .. N - 1, n \in S
        PROVE  n + 1 \in S
    <3>1. C[n] \in Nat /\ n + 1 \in 1 .. N /\ n + 1 \in 0 .. N
      BY <2>2
    <3>2. StdBlock(C[n], ns[n + 1], r) \in Nat
      BY <1>f, <3>1, StdBlockType
    <3> QED BY <1>8, <3>1, <3>2
  <2>3. \A n \in 0 .. N : n \in S
    <3> HIDE DEF S
    <3> QED BY <2>1, <2>2, InductTo
  <2> QED BY <1>8, <2>3
<1> QED BY <1>n, <1>1, <1>8, <1>9 DEF IsAcc

\* The accumulator after one block more,
LEMMA StdAccStep ==
  ASSUME NEW r \in Nat, NEW ns \in Seq(Five), NEW ds \in Five
  PROVE  /\ StdAcc(r, ns) \in Nat
         /\ StdAcc(r, Append(ns, ds)) = StdBlock(StdAcc(r, ns), ds, r)
<1>1. PICK ms : ms = Append(ns, ds)
  OBVIOUS
<1>2. PICK N \in Nat : /\ N = Len(ns) /\ Len(ms) = N + 1 /\ ms \in Seq(Five) /\ ms[N + 1] = ds
                       /\ \A i \in 1 .. N : ms[i] = ns[i]
  BY <1>1
<1>3. PICK g : IsAcc(r, ns, g) /\ StdAcc(r, ns) = g[N]
  BY <1>2, AccIs
<1>4. PICK h : IsAcc(r, ms, h) /\ StdAcc(r, ms) = h[N + 1]
  BY <1>2, AccIs
<1>5. g[0] = 0 /\ h[0] = 0 /\ g \in [0 .. N -> Nat]
  BY <1>2, <1>3, <1>4 DEF IsAcc
<1>6. \A n \in 0 .. N - 1 : g[n + 1] = StdBlock(g[n], ns[n + 1], r)
  BY <1>2, <1>3 DEF IsAcc
<1>7. \A n \in 0 .. N : h[n + 1] = StdBlock(h[n], ms[n + 1], r)
  <2>1. N + 1 - 1 = N
    OBVIOUS
  <2> QED BY <1>2, <1>4, <2>1 DEF IsAcc
<1> DEFINE S == {n \in 0 .. N : g[n] = h[n]}
<1>8. 0 \in S
  BY <1>5
<1>9. ASSUME NEW n \in 0 .. N - 1, n \in S
      PROVE  n + 1 \in S
  <2>1. n \in 0 .. N /\ n + 1 \in 1 .. N /\ n + 1 \in 0 .. N
    OBVIOUS
  <2> QED BY <1>2, <1>6, <1>7, <1>9, <2>1
<1>10. N \in 0 .. N /\ \A n \in 0 .. N : n \in S
  <2> HIDE DEF S
  <2> QED BY <1>8, <1>9, InductTo
<1>11. g[N] = h[N]
  BY <1>10
<1> QED BY <1>1, <1>2, <1>3, <1>4, <1>5, <1>7, <1>10, <1>11

\* and before the first.
LEMMA StdAccEmpty ==
  ASSUME NEW r \in Nat
  PROVE  StdAcc(r, <<>>) = 0
<1>1. <<>> \in Seq(Five) /\ Len(<<>>) = 0
  OBVIOUS
<1>2. PICK g : IsAcc(r, <<>>, g) /\ StdAcc(r, <<>>) = g[0]
  BY <1>1, AccIs
<1> QED BY <1>2 DEF IsAcc

(***************************************************************************)
(* A block, and the end                                                    *)
(***************************************************************************)

\* (a + n) * r mod p as coded: below the prime, and the accumulator of the
\* standard unless the addition dropped its carry.
LEMMA AbsorbIs ==
  ASSUME NEW a, NEW r, NEW ds \in Five, IsBig(a), IsBig(r)
  PROVE  LET n == FromBytes(Fresh(5), Reversed(ds))
             x == Reduce(Mul(Add(a, n, a), r, Add(a, n, a)))
         IN  /\ IsBig(x) /\ x.msd <= 4 /\ Trimmed(x) /\ Value(x) < Value(Prime)
             /\ ~ DropsCarry(a, n) => Value(x) = StdBlock(Value(a), ds, Value(r))
<1>1. PICK n : /\ n = FromBytes(Fresh(5), Reversed(ds)) /\ IsBig(n) /\ Value(n) = Number(ds)
  <2>1. 5 \in Nat /\ 5 > 0 /\ ds \in [1 .. 5 -> Digit]
    BY DEF Five
  <2>2. IsBig(FromBytes(Fresh(5), Reversed(ds))) /\ Value(FromBytes(Fresh(5), Reversed(ds))) = Number(ds)
    BY <2>1, BytesIs
  <2> QED BY <2>2
<1>2. PICK sum : /\ sum = Add(a, n, a) /\ IsBig(sum)
                 /\ ~ DropsCarry(a, n) => Value(sum) = Value(a) + Value(n)
  <2>1. IsBig(Add(a, n, a)) /\ (~ DropsCarry(a, n) => Value(Add(a, n, a)) = Value(a) + Value(n))
    BY <1>1, AddIsSum
  <2> QED BY <2>1
<1>3. PICK product : /\ product = Mul(sum, r, sum) /\ IsBig(product)
                     /\ Value(product) = Value(sum) * Value(r)
  <2>1. IsBig(Mul(sum, r, sum)) /\ Value(Mul(sum, r, sum)) = Value(sum) * Value(r)
    BY <1>2, MulIsProduct
  <2> QED BY <2>1
<1>4. PICK x : /\ x = Reduce(product) /\ IsBig(x) /\ Trimmed(x) /\ x.msd <= Prime.msd
               /\ Value(x) = Value(product) % Value(Prime)
  <2>1. /\ IsBig(Mod(product, Prime, product)) /\ Trimmed(Mod(product, Prime, product))
        /\ Mod(product, Prime, product).msd <= Prime.msd
        /\ Value(Mod(product, Prime, product)) = Value(product) % Value(Prime)
    BY <1>3, PrimeIs, ModIsRemainder
  <2> QED BY <2>1 DEF Reduce
<1>5. Value(x) < Value(Prime)
  <2>1. PICK m \in Nat, p \in Nat : m = Value(product) /\ p = Value(Prime) /\ p > 0
    BY <1>3, BigIs, PrimeIs
  <2>2. m % p \in 0 .. p - 1
    BY <2>1, DivMod
  <2> QED BY <1>4, <2>1, <2>2
<1>6. ~ DropsCarry(a, n) => Value(x) = StdBlock(Value(a), ds, Value(r))
  BY <1>1, <1>2, <1>3, <1>4, PrimeIs DEF StdBlock
<1> QED BY <1>1, <1>2, <1>3, <1>4, <1>5, <1>6, PrimeIs

\* The lower half of a number.
LEMMA LowHalf ==
  ASSUME NEW x, IsBig(x), x.msd >= 3
  PROVE  /\ IsBig(LowDigits(x)) /\ LowDigits(x).msd = 3
         /\ Reversed(ToBytes(LowDigits(x), 4)) \in [1 .. 4 -> Digit]
         /\ Number(Reversed(ToBytes(LowDigits(x), 4))) = Value(x) % Weight(4)
<1>1. PICK num \in Nat, msd \in Nat : num = x.num /\ msd = x.msd /\ msd < num /\ 3 \in 0 .. num - 1
                                      /\ 4 <= msd + 1
  BY BigIs
<1>2. PICK d \in [0 .. num - 1 -> Digit] : d = x.digits /\ x = Bigint(num, d, msd)
  BY <1>1 DEF IsBig, WellFormed, Digit
<1>3. LowDigits(x) = Bigint(num, d, 3)
  <2>1. Min({msd, 3}) = 3
    <3>1. Min({msd, 3}) = (IF msd > 3 THEN 3 ELSE msd)
      BY MaxTwo
    <3> QED BY <1>1, <3>1
  <2> QED BY <1>1, <1>2, <2>1 DEF LowDigits, Bigint
<1>4. /\ IsBig(Bigint(num, d, 3)) /\ Bigint(num, d, 3).digits = d /\ Bigint(num, d, 3).msd = 3
  <2>1. \A m \in 0 .. num - 1 : IsBig(Bigint(num, d, m)) /\ Bigint(num, d, m).digits = d /\ Bigint(num, d, m).msd = m
    BY MadeBig
  <2> QED BY <1>1, <2>1
<1>5. PICK low : low = ToBytes(LowDigits(x), 4)
  OBVIOUS
<1>6. low = [i \in 1 .. 4 |-> d[4 - i]]
  <2>1. ToBytes(Bigint(num, d, 3), 4) = [i \in 1 .. 4 |-> IF i <= 3 + 1 THEN d[3 + 1 - i] ELSE 0]
    <3>1. PICK y : y = Bigint(num, d, 3) /\ y.digits = d /\ y.msd = 3
      BY <1>4
    <3>2. ~ (3 + 1 > 4)
      OBVIOUS
    <3>3. ToBytes(y, 4) = [i \in 1 .. 4 |-> IF i <= 3 + 1 THEN d[3 + 1 - i] ELSE 0]
      BY <3>1, <3>2 DEF ToBytes
    <3> QED BY <3>1, <3>3
  <2>2. \A i \in 1 .. 4 : (IF i <= 3 + 1 THEN d[3 + 1 - i] ELSE 0) = d[4 - i]
    OBVIOUS
  <2> QED BY <1>3, <1>5, <2>1, <2>2
<1>7. PICK ds : ds = Reversed(low)
  OBVIOUS
<1>8. ds = [i \in 1 .. 4 |-> d[i - 1]]
  <2>1. Len(low) = 4
    BY <1>6
  <2>2. Reversed(low) = [i \in 1 .. 4 |-> low[4 + 1 - i]]
    BY <2>1 DEF Reversed
  <2>3. \A i \in 1 .. 4 : low[4 + 1 - i] = d[i - 1]
    <3> TAKE i \in 1 .. 4
    <3>1. 4 + 1 - i \in 1 .. 4 /\ 4 - (4 + 1 - i) = i - 1
      OBVIOUS
    <3> QED BY <1>6, <3>1
  <2> QED BY <1>7, <2>2, <2>3
<1>9. ds \in [1 .. 4 -> Digit] /\ Len(ds) = 4
  <2>1. \A i \in 1 .. 4 : i - 1 \in 0 .. num - 1
    BY <1>1
  <2> QED BY <1>8, <2>1
<1>10. IsDigits(d, 4) /\ IsDigits(d, msd + 1)
  <2>1. \A i \in 0 .. msd : i \in 0 .. num - 1
    BY <1>1
  <2>2. \A i \in 0 .. 4 - 1 : i \in 0 .. num - 1
    BY <1>1
  <2> QED BY <2>1, <2>2 DEF IsDigits
<1>11. Number(ds) = NumberOf(d, 4)
  <2> DEFINE e == [i \in 0 .. 4 - 1 |-> ds[i + 1]]
  <2>1. Number(ds) = NumberOf(e, 4)
    BY <1>9 DEF Number
  <2>2. \A i \in 0 .. 4 - 1 : e[i] = d[i]
    BY <1>8
  <2> HIDE DEF e
  <2>3. NumberOf(e, 4) = NumberOf(d, 4)
    BY <1>10, <2>2, NumberSame
  <2> QED BY <2>1, <2>3
<1>12. NumberOf(d, 4) = Value(x) % Weight(4)
  <2>1. PICK q \in Nat : NumberOf(d, msd + 1) = NumberOf(d, 4) + Weight(4) * q
    BY <1>1, <1>10, NumberSplit
  <2>2. NumberOf(d, 4) \in Nat /\ NumberOf(d, 4) < Weight(4)
    BY <1>10, NumberRange
  <2>3. PICK w \in Nat, n \in Nat : w = Weight(4) /\ n = NumberOf(d, 4) /\ w > 0 /\ n \in 0 .. w - 1
    BY <2>2, PrimeIs
  <2>4. Value(x) = w * q + n
    <3>1. PICK u \in Nat : u = w * q
      OBVIOUS
    <3>2. Value(x) = n + w * q
      BY <1>1, <1>2, <2>1, <2>3 DEF Value
    <3> QED BY <3>1, <3>2
  <2>5. (w * q + n) % w = n
    BY <2>3, DivUnique
  <2> QED BY <2>3, <2>4, <2>5
<1> QED BY <1>3, <1>4, <1>5, <1>7, <1>9, <1>11, <1>12

\* Modulo w, w more is the same, and less than w more is not.
LEMMA Around ==
  ASSUME NEW w \in Nat, w > 0, NEW x \in Nat
  PROVE  (x + w) % w = x % w
<1>1. PICK q \in Nat, j \in 0 .. w - 1 : q = x \div w /\ j = x % w /\ x = w * q + j
  BY DivMod
<1>2. PICK u \in Nat : u = w * q /\ w * (q + 1) = u + w
  <2>1. w * q \in Nat /\ w * (q + 1) = w * q + w
    OBVIOUS
  <2> QED BY <2>1
<1>3. x + w = w * (q + 1) + j
  BY <1>1, <1>2
<1>4. q + 1 \in Nat
  OBVIOUS
<1>5. (w * (q + 1) + j) % w = j
  BY <1>4, DivUnique
<1> QED BY <1>1, <1>3, <1>5

\* but less than w more is not.
LEMMA Apart ==
  ASSUME NEW w \in Nat, w > 0, NEW x \in Nat, NEW y \in Nat, 0 < y, y < w
  PROVE  (x + y) % w # x % w
<1>1. PICK q \in Nat, j \in 0 .. w - 1 : q = x \div w /\ j = x % w /\ x = w * q + j
  BY DivMod
<1>2. PICK u \in Nat : u = w * q /\ w * (q + 1) = u + w
  <2>1. w * q \in Nat /\ w * (q + 1) = w * q + w
    OBVIOUS
  <2> QED BY <2>1
<1>3. CASE j + y < w
  <2>1. PICK k \in 0 .. w - 1 : k = j + y /\ k # j
    BY <1>3
  <2>2. x + y = w * q + k
    BY <1>1, <1>2, <2>1
  <2>3. (w * q + k) % w = k
    BY DivUnique
  <2> QED BY <1>1, <2>1, <2>2, <2>3
<1>4. CASE j + y >= w
  <2>1. PICK k \in 0 .. w - 1 : k = j + y - w /\ k # j
    <3>1. j + y - w \in 0 .. w - 1 /\ j + y - w # j
      BY <1>4
    <3> QED BY <3>1
  <2>2. x + y = w * (q + 1) + k
    BY <1>1, <1>2, <2>1
  <2>3. q + 1 \in Nat
    OBVIOUS
  <2>4. (w * (q + 1) + k) % w = k
    BY <2>3, DivUnique
  <2> QED BY <1>1, <2>1, <2>2, <2>4
<1> QED BY <1>3, <1>4

\* The end of the MAC: what the last addition does.
LEMMA FinishIs ==
  ASSUME NEW a, NEW s, IsBig(a), IsBig(s), s.msd = 3, a.msd <= 4, a.msd = 4 \/ Trimmed(a),
         Value(a) < Value(Prime)
  PROVE  LET low == LowDigits(Add(a, s, a))
             mac == Reversed(ToBytes(low, 4))
             right == Number(mac) = (Value(a) + Value(s)) % Weight(4)
         IN  /\ IsBig(low) /\ mac # NoTag
             /\ ~ DropsCarry(a, s) => right
             /\ DropsCarry(a, s) => Value(a) < Weight(3) /\ (right <=> ~ (Value(a) < Weight(2)))
<1>1. PICK m \in Nat, A \in Nat, S \in Nat, w \in Nat :
        /\ m = a.msd /\ m <= 4 /\ A = Value(a) /\ S = Value(s) /\ w = Weight(4) /\ w > 0
        /\ A < 4 * w - 5
  BY PrimeIs, BigIs
<1>a. PICK sum : sum = Add(a, s, a)
  OBVIOUS
<1>2. PICK V \in Nat :
        /\ IsBig(sum) /\ sum.msd >= 3 /\ V = Value(sum)
        /\ ~ DropsCarry(a, s) => V = A + S
        /\ DropsCarry(a, s) => V + Weight(Shorter(a, s).msd + 2) = A + S
  <2>1. /\ IsBig(Add(a, s, a))
        /\ Add(a, s, a).msd \in Longer(a, s).msd .. Longer(a, s).msd + 1
        /\ ~ DropsCarry(a, s) => Value(Add(a, s, a)) = Value(a) + Value(s)
        /\ DropsCarry(a, s) =>
             Value(Add(a, s, a)) + Weight(Shorter(a, s).msd + 2) = Value(a) + Value(s)
    BY AddIsSum
  <2>2. Longer(a, s).msd \in Nat /\ Longer(a, s).msd >= 3
    BY ShorterIs
  <2>3. Add(a, s, a).msd >= 3 /\ Value(Add(a, s, a)) \in Nat
    <3>1. \A l, k : l \in Nat /\ l >= 3 /\ k \in l .. l + 1 => k >= 3
      OBVIOUS
    <3> QED BY <2>1, <2>2, <3>1, BigIs
  <2> QED BY <1>1, <1>a, <2>1, <2>3
<1>3. PICK low, mac : low = LowDigits(sum) /\ mac = Reversed(ToBytes(low, 4))
  OBVIOUS
<1>4. IsBig(low) /\ mac \in [1 .. 4 -> Digit] /\ Number(mac) = V % w
  BY <1>1, <1>2, <1>3, LowHalf
<1>5. mac # NoTag
  <2>1. Len(mac) = 4 /\ Len(NoTag) = 0
    BY <1>4 DEF NoTag
  <2> QED BY <2>1
<1>6. ~ DropsCarry(a, s) => Number(mac) = (A + S) % w
  BY <1>2, <1>4
<1>7. ASSUME DropsCarry(a, s)
      PROVE  A < Weight(3) /\ (Number(mac) = (A + S) % w <=> ~ (A < Weight(2)))
  <2>1. /\ Longer(a, s).msd > Shorter(a, s).msd
        /\ Longer(a, s).digits[Shorter(a, s).msd + 1] = Base - 1
    BY <1>7, DropsCarryIs
  <2>2. m < 3
    <3> SUFFICES ASSUME m >= 3 PROVE FALSE
      BY <1>1
    <3>1. CASE m = 3
      <4>1. Longer(a, s) = s /\ Shorter(a, s) = a
        BY <1>1, <3>1 DEF Longer, Shorter
      <4>2. a.msd = 3 /\ s.msd = 3 /\ s.msd > a.msd
        BY <1>1, <2>1, <3>1, <4>1
      <4> QED BY <4>2
    <3>2. CASE m = 4
      <4>1. Longer(a, s) = a /\ Shorter(a, s) = s
        BY <1>1, <3>2 DEF Longer, Shorter
      <4>2. a.digits[4] = Base - 1
        BY <2>1, <4>1
      <4>3. PICK b \in Nat : b = Base /\ b >= 8
        BY BaseIs, EightBase
      <4>4. IsDigits(a.digits, 5) /\ IsDigits(a.digits, 4)
        <5>a. a.num \in Nat /\ a.msd < a.num
          BY BigIs
        <5>b. a.msd = 4
          BY <1>1, <3>2
        <5>1. PICK n \in Nat : n = a.num /\ 4 < n
          BY <5>a, <5>b
        <5>2. 4 \in 0 .. a.num /\ 5 \in 0 .. a.num
          BY <5>1
        <5> QED BY <5>2, BigIs
      <4>5. PICK n \in Nat : n = NumberOf(a.digits, 4)
        BY <4>4, NumberRange
      <4>6. NumberOf(a.digits, 4 + 1) = NumberOf(a.digits, 4) + a.digits[4] * Weight(4)
        <5>1. 4 \in Nat /\ 4 + 1 = 5
          OBVIOUS
        <5> QED BY <4>4, <5>1, NumberStep
      <4>7. A = n + (b - 1) * w
        <5>1. a.msd + 1 = 4 + 1
          BY <1>1, <3>2
        <5> QED BY <1>1, <4>2, <4>3, <4>5, <4>6, <5>1 DEF Value
      <4>8. (b - 1) * w >= 7 * w
        BY <4>3
      <4>9. PICK u \in Nat : u = (b - 1) * w
        BY <4>3
      <4> QED BY <1>1, <4>7, <4>8, <4>9
    <3> QED BY <1>1, <3>1, <3>2
  <2>3. Longer(a, s) = s /\ Shorter(a, s) = a /\ Trimmed(a)
    BY <1>1, <2>2 DEF Longer, Shorter
  <2>4. V + Weight(m + 2) = A + S
    BY <1>1, <1>2, <1>7, <2>3
  <2>5. A < Weight(m + 1) /\ (m > 0 => A >= Weight(m))
    BY <1>1, <2>3, BigIs, TrimmedAbove
  <2>6. PICK w1 \in Nat, w2 \in Nat, w3 \in Nat :
          /\ w1 = Weight(1) /\ w2 = Weight(2) /\ w3 = Weight(3)
          /\ w1 <= w2 /\ w2 <= w3 /\ w3 < w /\ 0 < w2 /\ 0 < w3
    <3>1. /\ \A i \in Nat : Weight(i) \in Nat /\ Weight(i) > 0 /\ Weight(i + 1) >= 2 * Weight(i)
      BY WeightsAre
    <3>2. Weight(1 + 1) >= 2 * Weight(1) /\ Weight(2 + 1) >= 2 * Weight(2)
          /\ Weight(3 + 1) >= 2 * Weight(3)
      BY <3>1
    <3>3. 1 + 1 = 2 /\ 2 + 1 = 3 /\ 3 + 1 = 4
      OBVIOUS
    <3>4. PICK w1 \in Nat, w2 \in Nat, w3 \in Nat :
            w1 = Weight(1) /\ w2 = Weight(2) /\ w3 = Weight(3) /\ w1 > 0 /\ w2 > 0 /\ w3 > 0
      BY <3>1
    <3>5. w2 >= 2 * w1 /\ w3 >= 2 * w2 /\ w >= 2 * w3
      BY <1>1, <3>2, <3>3, <3>4
    <3> QED BY <3>4, <3>5
  <2>7. CASE m = 2
    <3>1. V + w = A + S /\ A < w3 /\ A >= w2
      <4>1. m + 2 = 4 /\ m + 1 = 3 /\ m > 0
        BY <2>7
      <4> QED BY <1>1, <2>4, <2>5, <2>6, <2>7, <4>1
    <3>2. PICK z \in Nat : z = A + S
      OBVIOUS
    <3>3. V % w = z % w
      <4>1. (V + w) % w = V % w
        BY <1>1, Around
      <4> QED BY <3>1, <3>2, <4>1
    <3> QED BY <1>4, <2>6, <3>1, <3>2, <3>3
  <2>8. CASE m < 2
    <3>1. PICK x \in Nat : x = Weight(m + 2) /\ 0 < x /\ x < w /\ A < w2
      <4>1. m = 0 \/ m = 1
        BY <2>8
      <4>2. CASE m = 0
        <5>1. m + 2 = 2 /\ m + 1 = 1
          BY <4>2
        <5> QED BY <2>5, <2>6, <5>1
      <4>3. CASE m = 1
        <5>1. m + 2 = 3 /\ m + 1 = 2
          BY <4>3
        <5> QED BY <2>5, <2>6, <5>1
      <4> QED BY <4>1, <4>2, <4>3
    <3>2. PICK z \in Nat : z = A + S /\ V + x = z
      BY <2>4, <3>1
    <3>3. V % w # z % w
      <4>1. (V + x) % w # V % w
        BY <1>1, <3>1, Apart
      <4> QED BY <3>2, <4>1
    <3>4. A < w3
      BY <2>6, <3>1
    <3> QED BY <1>4, <2>6, <3>1, <3>2, <3>3, <3>4
  <2> QED BY <2>2, <2>7, <2>8
<1> QED BY <1>1, <1>a, <1>2, <1>3, <1>4, <1>5, <1>6, <1>7

(***************************************************************************)
(* The invariant                                                           *)
(***************************************************************************)

\* While blocks come in, the accumulator is below the prime and, unless a
\* carry was dropped, the standard's.  It has no leading zeros but after
\* poly1305_init, which sets five of them: what DropsCarry depends on.
Ready ==
  /\ acc.msd <= 4 /\ (acc.msd = 4 \/ Trimmed(acc)) /\ Value(acc) < Value(Prime)
  /\ lost # "end"
  /\ lost = "never" => Value(acc) = StdAcc(Value(mackey.r), fed)

\* TagIsPoly1305 of a tag
Ended ==
  LET sum == StdAcc(Value(mackey.r), fed) + Value(mackey.s)
      right == Number(tag) = sum % Weight(4)
      short(n) == StdAcc(Value(mackey.r), fed) < Weight(n)
  IN  /\ lost = "never" => right
      /\ lost = "end" => short(3) /\ (right <=> ~ short(2))

\* The inductive invariant
PolyInv ==
  /\ fed \in Seq(Five)
  /\ IsBig(mackey.r) /\ IsBig(mackey.s) /\ mackey.s.msd = 3 /\ IsBig(acc)
  /\ tag = NoTag => Ready
  /\ tag # NoTag => Ended

\* A clamped half of the key has four digits,
LEMMA ClampedIs ==
  ASSUME NEW ds \in [1 .. 4 -> Digit]
  PROVE  PolyClamp(ds) \in [1 .. 4 -> Digit]
<1>1. PICK b \in Nat, h \in Nat : b = Base /\ h = Base \div 2 /\ b = 2 * h /\ h > 0
  BY BaseIs, HalfBase
<1>2. \A x \in Digit : x % h \in Digit /\ ((x % h) \div 2) * 2 \in Digit
  <2> TAKE x \in Digit
  <2>1. x \in Nat
    BY BaseIs
  <2>2. PICK y \in Nat : y = x % h /\ y < h
    <3>1. x % h \in 0 .. h - 1
      BY <1>1, <2>1, DivMod
    <3> QED BY <3>1
  <2>3. (y \div 2) * 2 \in Nat /\ (y \div 2) * 2 <= y
    OBVIOUS
  <2> QED BY <1>1, <2>2, <2>3 DEF Digit
<1>3. PolyClamp(ds) = [i \in 1 .. 4 |-> IF i = 1 THEN ds[i] % h ELSE ((ds[i] % h) \div 2) * 2]
  BY <1>1 DEF PolyClamp
<1>4. \A i \in 1 .. 4 : (IF i = 1 THEN ds[i] % h ELSE ((ds[i] % h) \div 2) * 2) \in Digit
  BY <1>2
<1> QED BY <1>3, <1>4

\* and four digits make a bigint of that size.
LEMMA KeyIs ==
  ASSUME NEW ds \in [1 .. 4 -> Digit]
  PROVE  IsBig(FromBytes(Fresh(4), Reversed(ds))) /\ FromBytes(Fresh(4), Reversed(ds)).msd = 3
<1>1. 4 \in Nat /\ 4 > 0 /\ 4 - 1 = 3
  OBVIOUS
<1> QED BY <1>1, BytesIs

\* The zeros that a context starts from.
LEMMA ZerosAre ==
  /\ IsBig(FromBytes(Fresh(4), <<0, 0, 0, 0>>)) /\ FromBytes(Fresh(4), <<0, 0, 0, 0>>).msd = 3
  /\ IsBig(FromBytes(Fresh(5), <<0, 0, 0, 0, 0>>)) /\ FromBytes(Fresh(5), <<0, 0, 0, 0, 0>>).msd = 4
  /\ Value(FromBytes(Fresh(5), <<0, 0, 0, 0, 0>>)) = 0
<1>1. 0 \in Digit
  BY BaseIs
<1>2. /\ IsBig(FromBytes(Fresh(4), <<0, 0, 0, 0>>)) /\ FromBytes(Fresh(4), <<0, 0, 0, 0>>).msd = 3
  <2>1. PICK ds : ds = <<0, 0, 0, 0>> /\ ds \in Seq(Digit) /\ Len(ds) = 4
    <3>1. <<0, 0, 0, 0>> \in Seq(Digit) /\ Len(<<0, 0, 0, 0>>) = 4
      BY <1>1
    <3> QED BY <3>1
  <2>2. 4 \in Nat /\ Len(ds) \in 1 .. 4 /\ 4 - 1 = 3
    BY <2>1
  <2> QED BY <2>1, <2>2, FromBytesIs
<1>3. PICK ds : /\ ds = <<0, 0, 0, 0, 0>> /\ ds \in Seq(Digit) /\ Len(ds) = 5
                /\ \A i \in 1 .. 5 : ds[i] = 0
  <2>1. <<0, 0, 0, 0, 0>> \in Seq(Digit) /\ Len(<<0, 0, 0, 0, 0>>) = 5
    BY <1>1
  <2>2. \A i \in 1 .. 5 : <<0, 0, 0, 0, 0>>[i] = 0
    OBVIOUS
  <2> QED BY <2>1, <2>2
<1>4. PICK x : x = FromBytes(Fresh(5), ds)
  OBVIOUS
<1>5. /\ IsBig(x) /\ x.msd = 4 /\ \A i \in 0 .. 4 : x.digits[i] = ds[5 - i]
  <2>1. 5 \in Nat /\ Len(ds) \in 1 .. 5 /\ Len(ds) - 1 = 4
    BY <1>3
  <2>2. /\ IsBig(x) /\ x.msd = Len(ds) - 1 /\ \A i \in 0 .. Len(ds) - 1 : x.digits[i] = ds[Len(ds) - i]
    BY <1>3, <1>4, <2>1, FromBytesIs
  <2> QED BY <1>3, <2>1, <2>2
<1>6. \A i \in 0 .. 4 : x.digits[i] = 0
  <2>1. \A i \in 0 .. 4 : 5 - i \in 1 .. 5
    OBVIOUS
  <2> QED BY <1>3, <1>5, <2>1
<1>7. Value(x) = 0
  <2>1. IsDigits(x.digits, 5) /\ x.msd + 1 = 5
    <3>1. x.msd + 1 = 5
      BY <1>5
    <3> QED BY <1>5, <3>1, BigIs
  <2>2. NumberOf(x.digits, 5) = NumberOf(x.digits, 0)
    BY <1>6, <2>1, NumberZeros
  <2> QED BY <2>1, <2>2, NumberStep DEF Value
<1> QED BY <1>2, <1>3, <1>4, <1>5, <1>7

\* A MAC that starts.
LEMMA StartReady ==
  ASSUME IsBig(mackey.r), IsBig(mackey.s), mackey.s.msd = 3,
         acc = FromBytes(Fresh(5), <<0, 0, 0, 0, 0>>), fed = <<>>, lost = "never", tag = NoTag
  PROVE  PolyInv
<1>1. IsBig(acc) /\ acc.msd = 4 /\ Value(acc) = 0
  BY ZerosAre
<1>2. Value(mackey.r) \in Nat
  BY BigIs
<1>3. StdAcc(Value(mackey.r), fed) = 0
  BY <1>2, StdAccEmpty
<1>4. 0 < Value(Prime) /\ 4 <= 4
  BY PrimeIs
<1>5. Ready
  BY <1>1, <1>3, <1>4 DEF Ready
<1>6. fed \in Seq(Five)
  OBVIOUS
<1> QED BY <1>1, <1>5, <1>6 DEF PolyInv

\* Nothing is computed before a key is set.
LEMMA PolyStartInv ==
  PolyStart => PolyInv
<1> SUFFICES ASSUME PolyStart PROVE PolyInv
  OBVIOUS
<1>1. IsBig(mackey.r) /\ IsBig(mackey.s) /\ mackey.s.msd = 3
  BY ZerosAre DEF PolyStart
<1> QED BY <1>1, StartReady DEF PolyStart

\* poly1305_init keeps the invariant.
LEMMA InitInv ==
  ASSUME PolyInv, NEW key \in PolyKeys, PolyInit(key)
  PROVE  PolyInv'
<1>1. key.r \in [1 .. 4 -> Digit] /\ key.s \in [1 .. 4 -> Digit]
  BY PolyAssumption DEF Digit
<1>2. PICK x, y : /\ mackey' = [r |-> x, s |-> y] /\ IsBig(x) /\ IsBig(y) /\ y.msd = 3
  <2>1. PolyClamp(key.r) \in [1 .. 4 -> Digit]
    BY <1>1, ClampedIs
  <2>2. PICK x : x = FromBytes(Fresh(4), Reversed(PolyClamp(key.r))) /\ IsBig(x)
    BY <2>1, KeyIs
  <2>3. PICK y : y = FromBytes(Fresh(4), Reversed(key.s)) /\ IsBig(y) /\ y.msd = 3
    BY <1>1, KeyIs
  <2> QED BY <2>2, <2>3 DEF PolyInit
<1>3. PICK z : acc' = z /\ z = FromBytes(Fresh(5), <<0, 0, 0, 0, 0>>)
  BY DEF PolyInit
<1>4. fed' = <<>> /\ lost' = "never" /\ tag' = NoTag
  BY DEF PolyInit
<1>5. IsBig(z) /\ z.msd = 4 /\ Value(z) = 0
  BY <1>3, ZerosAre
<1>6. StdAcc(Value(x), <<>>) = 0
  <2>1. Value(x) \in Nat
    BY <1>2, BigIs
  <2> QED BY <2>1, StdAccEmpty
<1>7. Ready'
  <2>1. PICK p \in Nat : p = Value(Prime) /\ 0 < p
    BY PrimeIs, BigIs
  <2>2. (Value(Prime))' = Value(Prime)
    BY DEF Value, Prime
  <2>3. acc'.msd <= 4 /\ acc'.msd = 4
    BY <1>3, <1>5
  <2>4. Value(acc') = 0 /\ Value(mackey'.r) = Value(x) /\ StdAcc(Value(mackey'.r), fed') = 0
    BY <1>2, <1>3, <1>4, <1>5, <1>6
  <2> QED BY <1>4, <2>1, <2>3, <2>4 DEF Ready
<1>8. fed' \in Seq(Five)
  BY <1>4
<1> QED BY <1>2, <1>3, <1>4, <1>5, <1>7, <1>8 DEF PolyInv

\* A block more.
LEMMA MoreFed ==
  ASSUME NEW ns \in Seq(Five), NEW ds \in Five
  PROVE  Append(ns, ds) \in Seq(Five)
OBVIOUS

\* Digits in a row are a sequence.
LEMMA IsSequence ==
  ASSUME NEW n \in Nat, NEW f \in [1 .. n -> Digit]
  PROVE  f \in Seq(Digit) /\ Len(f) = n
OBVIOUS

\* A full block and the byte 0x01 behind it.
LEMMA Marked ==
  ASSUME NEW blk \in [1 .. 4 -> Digit]
  PROVE  blk \o <<1>> \in Five
<1>1. blk \in Seq(Digit) /\ Len(blk) = 4
  <2>1. 4 \in Nat
    OBVIOUS
  <2> QED BY <2>1, IsSequence
<1>2. PICK one : one = <<1>> /\ one \in Seq(Digit) /\ Len(one) = 1
  <2>1. <<1>> \in Seq(Digit) /\ Len(<<1>>) = 1
    BY BaseIs
  <2> QED BY <2>1
<1>3. PICK ds : ds = blk \o one /\ ds \in Seq(Digit) /\ Len(ds) = 4 + 1
  <2>1. blk \o one \in Seq(Digit) /\ Len(blk \o one) = Len(blk) + Len(one)
    BY <1>1, <1>2, ConcatProperties
  <2> QED BY <1>1, <1>2, <2>1
<1>4. ds \in [1 .. 5 -> Digit]
  <2>1. 4 + 1 = 5
    OBVIOUS
  <2>2. ds \in [1 .. Len(ds) -> Digit]
    BY <1>3, LenProperties
  <2> QED BY <1>3, <2>1, <2>2
<1> QED BY <1>2, <1>3, <1>4 DEF Five

\* poly1305_process_block keeps the invariant,
LEMMA BlockInv ==
  ASSUME PolyInv, NEW ds \in Five, Block(ds)
  PROVE  PolyInv'
<1>1. PICK a, r, ns : a = acc /\ r = mackey.r /\ ns = fed
  OBVIOUS
<1>2. tag = NoTag /\ Ready /\ IsBig(a) /\ IsBig(r) /\ ns \in Seq(Five)
  BY <1>1 DEF PolyInv, Block
<1>3. PICK n : n = FromBytes(Fresh(5), Reversed(ds))
  OBVIOUS
<1>4. PICK x : x = Reduce(Mul(Add(a, n, a), r, Add(a, n, a)))
  OBVIOUS
<1>5. /\ IsBig(x) /\ x.msd <= 4 /\ Trimmed(x) /\ Value(x) < Value(Prime)
      /\ ~ DropsCarry(a, n) => Value(x) = StdBlock(Value(a), ds, Value(r))
  BY <1>2, <1>3, <1>4, AbsorbIs
<1>6. acc' = x /\ lost' = (IF DropsCarry(a, n) THEN "block" ELSE lost)
  BY <1>1, <1>3, <1>4 DEF Block, AbsorbNumber, Multiplied
<1>7. fed' = Append(ns, ds) /\ mackey' = mackey /\ tag' = tag
  BY <1>1 DEF Block
<1>8. PICK ms : ms = Append(ns, ds) /\ ms \in Seq(Five)
  BY <1>2, MoreFed
<1>9. lost' = "never" => Value(x) = StdAcc(Value(r), ms)
  <2>1. Value(r) \in Nat
    BY <1>2, BigIs
  <2>2. StdAcc(Value(r), ms) = StdBlock(StdAcc(Value(r), ns), ds, Value(r))
    BY <1>2, <1>8, <2>1, StdAccStep
  <2>3. lost = "never" => Value(a) = StdAcc(Value(r), ns)
    BY <1>1, <1>2 DEF Ready
  <2> QED BY <1>5, <1>6, <2>2, <2>3
<1>10. Ready'
  <2>1. lost' # "end"
    BY <1>2, <1>6 DEF Ready
  <2> QED BY <1>1, <1>5, <1>6, <1>7, <1>8, <1>9, <2>1 DEF Ready
<1> QED BY <1>2, <1>5, <1>6, <1>7, <1>8, <1>10 DEF PolyInv

\* for full blocks
LEMMA FullInv ==
  ASSUME PolyInv, NEW blk \in FullBlocks, FullBlock(blk)
  PROVE  PolyInv'
<1>1. blk \in [1 .. 4 -> Digit]
  BY PolyAssumption DEF Digit
<1>2. PICK ds : ds = blk \o <<1>> /\ ds \in Five
  BY <1>1, Marked
<1>3. Block(ds)
  BY <1>2 DEF FullBlock
<1> QED BY <1>2, <1>3, BlockInv

\* and for the last one.
LEMMA LastInv ==
  ASSUME PolyInv, NEW tail \in Tails, LastBlock(tail)
  PROVE  PolyInv'
<1>1. PICK n \in 1 .. 3 : n = Len(tail) /\ tail \in [1 .. n -> Digit]
  BY PolyAssumption DEF Digit
<1>2. PICK ds : /\ ds = [i \in 1 .. 5 |-> IF i <= Len(tail) THEN tail[i]
                                          ELSE IF i = Len(tail) + 1 THEN 1 ELSE 0]
                /\ ds \in Five
  <2>1. \A i \in 1 .. 5 : i <= n => i \in 1 .. n
    OBVIOUS
  <2>2. \A i \in 1 .. 5 : i <= n => tail[i] \in Digit
    BY <1>1, <2>1
  <2>3. 0 \in Digit /\ 1 \in Digit
    BY BaseIs
  <2>4. \A i \in 1 .. 5 : (IF i <= n THEN tail[i] ELSE IF i = n + 1 THEN 1 ELSE 0) \in Digit
    BY <2>2, <2>3
  <2>5. [i \in 1 .. 5 |-> IF i <= n THEN tail[i] ELSE IF i = n + 1 THEN 1 ELSE 0] \in Five
    BY <2>4 DEF Five
  <2> QED BY <1>1, <2>5
<1>3. Block(ds)
  BY <1>2 DEF LastBlock
<1> QED BY <1>2, <1>3, BlockInv

\* The end: the key is added, and the lower half is the tag.
LEMMA FinishInv ==
  ASSUME PolyInv, PolyFinish
  PROVE  PolyInv'
<1>1. PICK a, s, r, ns : a = acc /\ s = mackey.s /\ r = mackey.r /\ ns = fed
  OBVIOUS
<1>2. /\ tag = NoTag /\ IsBig(a) /\ IsBig(r) /\ IsBig(s) /\ s.msd = 3 /\ ns \in Seq(Five)
      /\ a.msd <= 4 /\ (a.msd = 4 \/ Trimmed(a)) /\ Value(a) < Value(Prime) /\ lost # "end"
      /\ lost = "never" => Value(a) = StdAcc(Value(r), ns)
  BY <1>1 DEF PolyInv, PolyFinish, Ready
<1>3. PICK low, mac : low = LowDigits(Add(a, s, a)) /\ mac = Reversed(ToBytes(low, 4))
  OBVIOUS
<1>4. PICK right : right <=> (Number(mac) = (Value(a) + Value(s)) % Weight(4))
  <2>1. \E right \in BOOLEAN : right <=> (Number(mac) = (Value(a) + Value(s)) % Weight(4))
    OBVIOUS
  <2> QED BY <2>1
<1>5. /\ IsBig(low) /\ mac # NoTag
      /\ ~ DropsCarry(a, s) => Number(mac) = (Value(a) + Value(s)) % Weight(4)
      /\ DropsCarry(a, s) => /\ Value(a) < Weight(3)
                             /\ (Number(mac) = (Value(a) + Value(s)) % Weight(4)
                                   <=> ~ (Value(a) < Weight(2)))
  BY <1>2, <1>3, FinishIs
<1>6. /\ acc' = low /\ tag' = mac /\ mackey' = mackey /\ fed' = fed
      /\ lost' = (IF lost = "never" /\ DropsCarry(a, s) THEN "end" ELSE lost)
  BY <1>1, <1>3 DEF PolyFinish
<1>7. lost' = "never" => lost = "never" /\ ~ DropsCarry(a, s)
  BY <1>6
<1>8. lost' = "end" => lost = "never" /\ DropsCarry(a, s)
  BY <1>2, <1>6
<1>9. Ended'
  BY <1>1, <1>2, <1>5, <1>6, <1>7, <1>8 DEF Ended
<1> QED BY <1>1, <1>2, <1>5, <1>6, <1>9 DEF PolyInv

\* Every step keeps the invariant.
LEMMA PolyStepInv ==
  PolyInv /\ [PolyNext]_polyVars => PolyInv'
<1> SUFFICES ASSUME PolyInv, [PolyNext]_polyVars PROVE PolyInv'
  OBVIOUS
<1>1. CASE \E key \in PolyKeys : PolyInit(key)
  BY <1>1, InitInv
<1>2. CASE \E blk \in FullBlocks : FullBlock(blk)
  BY <1>2, FullInv
<1>3. CASE \E tail \in Tails : LastBlock(tail)
  BY <1>3, LastInv
<1>4. CASE PolyFinish
  BY <1>4, FinishInv
<1>5. CASE UNCHANGED polyVars
  BY <1>5 DEF polyVars, PolyInv, Ready, Ended
<1> QED BY <1>1, <1>2, <1>3, <1>4, <1>5 DEF PolyNext

\* What the invariant says of the tag.
LEMMA PolyInvTag ==
  PolyInv => TagIsPoly1305
<1> SUFFICES ASSUME PolyInv PROVE TagIsPoly1305
  OBVIOUS
<1>1. WellFormed(acc)
  BY DEF PolyInv, IsBig
<1> QED BY <1>1 DEF PolyInv, Ready, Ended, TagIsPoly1305

\* The tag is the one of RFC 8439, but for a dropped carry.
THEOREM TagIsRfc == PolySpec => []TagIsPoly1305
<1>1. PolyInv => TagIsPoly1305
  BY PolyInvTag
<1> QED BY <1>1, PolyStartInv, PolyStepInv, PTL DEF PolySpec

-----------------------------------------------------------------------------
(***************************************************************************)
(* The program of Macs                                                     *)
(***************************************************************************)

\* A caller of one of the three codes leaves the variables of the others
\* alone, so that what is proved of each holds of the program that picks one.
THEOREM MacsRunsEach == Spec => HmacSpec /\ PolySpec /\ GhashSpec
<1>1. Init => HmacStart /\ PolyStart /\ GhashStart
  BY DEF Init
<1>2. [Next]_vars => [HmacNext]_hmacVars
  BY DEF Next, vars, RunHmac, RunPoly, RunGhash
<1>3. [Next]_vars => [PolyNext]_polyVars
  BY DEF Next, vars, RunHmac, RunPoly, RunGhash
<1>4. [Next]_vars => [GhashNext]_ghashVars
  BY DEF Next, vars, RunHmac, RunPoly, RunGhash
<1> QED BY <1>1, <1>2, <1>3, <1>4, PTL DEF Spec, HmacSpec, PolySpec, GhashSpec

\* poly1305_compute_mac in the program that run macs checks
THEOREM TagInMacs == Spec => []TagIsPoly1305
BY MacsRunsEach, TagIsRfc, PTL

\* and GHASH.
THEOREM HashInMacs == Spec => []GhashIsPolynomial
BY MacsRunsEach, HashIsPolynomial, PTL
=============================================================================
