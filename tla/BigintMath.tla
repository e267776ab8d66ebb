----------------------------- MODULE BigintMath -----------------------------
(***************************************************************************)
(* The rest of bigint.c: what it builds on the operators of Bigint.  As    *)
(* there, every operator returns the bigint its output argument points to  *)
(* afterwards, and malloc does not fail.  A digit read behind the          *)
(* allocated ones is `junk', any digit.                                    *)
(***************************************************************************)
EXTENDS Bigint, Bitwise, TLC

\* 0 - 1 in an unsigned MSD: 2^32 - 1, the index of no digit; plus 1 it is 0.
Wrapped == -1

-----------------------------------------------------------------------------
(* Division: loops until a condition, where those of Bigint count *)

\* The inner loops of bigint_div: [t, count] when they end.
RECURSIVE DoubleUntilAbove(_, _, _)
DoubleUntilAbove(t, r, count) ==
  IF Cmp(r, t) = -1 THEN [t |-> t, count |-> count]
  ELSE DoubleUntilAbove(LeftBitShift(t, t), r, count + 1)

RECURSIVE HalveWhileAbove(_, _, _)
HalveWhileAbove(t, r, count) ==
  IF Cmp(r, t) # -1 THEN [t |-> t, count |-> count]
  ELSE HalveWhileAbove(RightBitShift(t, t), r, count - 1)

\* One round: t, the largest b * 2^count not above r, goes from r, and 2^count
\* to q; tmp_b and tmp_q are kept for the next.
Round(q, r, t, power) ==
  [q |-> Add(q, power, q), r |-> Sub(Clamp(r), t, Clamp(r)),
   tmp_b |-> t, tmp_q |-> SmallInt(power, 0)]

Halved(q, r, tmp_q, down) ==
  Round(q, r, Clamp(down.t), MulPow2(SmallInt(tmp_q, 1), down.count))

\* The outer loop: while r >= b.
RECURSIVE DivLoop(_, _)
DivLoop(b, s) ==
  IF Cmp(s.r, b) = -1 THEN s
  ELSE LET up == DoubleUntilAbove(Copy(b, s.tmp_b), s.r, 0)
       IN  DivLoop(b, Halved(s.q, s.r, s.tmp_q,
                             HalveWhileAbove(up.t, s.r, up.count)))

\* bigint_div, of b # 0: quotient and remainder.
Div(a, b, q, r) ==
  LET q0 == IF q.num <= a.msd + 1 THEN Expand(q, a.msd + 1) ELSE q
      r0 == IF r.num <= a.msd + 1 THEN Expand(r, a.msd + 1) ELSE r
  IN  DivLoop(b, [q |-> SmallInt(q0, 0), r |-> Copy(a, r0),
                  tmp_b |-> Fresh(b.num + 1), tmp_q |-> Fresh(q0.num + 1)])

\* bigint_gcd, Euclid's: bigints of its own, allocated like the operands.
RECURSIVE GcdLoop(_, _, _)
GcdLoop(a, b, r) ==
  IF IsZero(b) THEN a
  ELSE LET rem == Mod(a, b, r) IN GcdLoop(Copy(b, a), Copy(rem, b), rem)

Gcd(a, b, c) ==
  Copy(GcdLoop(Copy(a, Fresh(a.num)), Copy(b, Fresh(b.num)), Fresh(a.num)),
       Expand(c, a.msd + 1))

-----------------------------------------------------------------------------
(* Questions *)

\* bigint_cmp_noCT: the loop starts at the MSD a had before it was clamped.
CmpNoCT(a, b, junk) ==
  LET x == Clamp(Copy(a, Fresh(a.num)))
      y == Clamp(Copy(b, Fresh(b.num)))
      digit(i) == IF i < y.num THEN y.digits[i] ELSE junk
      differ == {i \in 0 .. a.msd : x.digits[i] # digit(i)}
      Sign(n, m) == IF n < m THEN -1 ELSE IF n > m THEN 1 ELSE 0
  IN  IF x.msd # y.msd THEN Sign(x.msd, y.msd)
      ELSE IF differ = {} THEN 0
      ELSE Sign(x.digits[Max(differ)], digit(Max(differ)))

\* Mutant: the MSD itself is counted as a full digit.
BitsCountWhole(x) ==
  IF x.digits[x.msd] = 0 THEN x.msd * Bits ELSE (x.msd + 1) * Bits

\* bigint_bits_count
BitsCount(x) ==
  x.msd * Bits + Cardinality({k \in 0 .. Bits - 1 : x.digits[x.msd] >= 2 ^ k})

\* bigint_is_bit_set, of a bit of the allocated digits
BitAt(x, n) == (x.digits[n \div Bits] \div 2 ^ (n % Bits)) % 2

-----------------------------------------------------------------------------
(* Padding and shifts to the right *)

\* bigint_pad_zero
PadZero(x, msd) ==
  IF x.msd > msd THEN x
  ELSE Store(Expand(x, msd + 1), [i \in x.msd + 1 .. msd |-> 0], msd)

\* bigint_right_shift: by one digit, in place.
RightShift(x) ==
  Store(x, [i \in 0 .. x.msd |-> IF i = x.msd THEN 0 ELSE x.digits[i + 1]],
        IF x.msd = 0 THEN Wrapped ELSE x.msd - 1)

\* bigint_right_shift_digits compares with the MSD that the shifts left.
RightShiftDigits(x, b) ==
  LET steps == Min({b, x.msd + 1})
      moved[n \in 0 .. steps] == IF n = 0 THEN x ELSE RightShift(moved[n - 1])
  IN  IF steps > moved[steps].msd + 1
        THEN [moved[steps] EXCEPT !.msd = 0] ELSE moved[steps]

\* bigint_right_shift_bits, by fewer than `Bits' bits
RightShiftBits(x, b) ==
  LET low(i) == IF i = x.msd THEN 0 ELSE x.digits[i + 1] % 2 ^ b
  IN  Store(x, [i \in 0 .. x.msd |-> x.digits[i] \div 2 ^ b
                                       + low(i) * 2 ^ (Bits - b)], x.msd)

\* bigint_div_pow_2
DivPow2(a, b, c) ==
  LET moved == RightShiftDigits(Copy(a, c), b \div Bits)
  IN  Clamp(IF b % Bits = 0 THEN moved ELSE RightShiftBits(moved, b % Bits))

\* bigint_mod_pow_2
ModPow2(a, b, c) ==
  LET whole == b \div Bits
  IN  IF b >= (a.msd + 1) * Bits THEN Copy(a, c)
      ELSE Store(Expand(c, whole + 1),
                 [i \in 0 .. whole |-> IF i < whole THEN a.digits[i]
                                       ELSE a.digits[i] % 2 ^ (b % Bits)], whole)

-----------------------------------------------------------------------------
(* Order *)

\* bigint_reverse_digit, in place
ReverseDigit(x) ==
  Store(x, [i \in 0 .. x.msd |-> x.digits[x.msd - i]], x.msd)

\* bigint_swap exchanges its own copies of the two pointers.
Swap(a, b) == [a |-> a, b |-> b]

-----------------------------------------------------------------------------
(* Single digits *)

OneDigit(d) == SmallInt(Fresh(1), d)

\* bigint_inc adds one to every digit.
Inc(x) ==
  LET carry[i \in 0 .. x.msd + 1] ==
        IF i = 0 THEN 0 ELSE (x.digits[i - 1] + 1 + carry[i - 1]) \div Base
      sum == [i \in 0 .. x.msd |-> (x.digits[i] + 1 + carry[i]) % Base]
      room == Expand(x, x.msd + 2)
  IN  IF carry[x.msd + 1] = 0
        THEN Store(room, sum, x.msd)
        ELSE Store(room, Over(sum, [i \in {x.msd + 1} |-> 1]), x.msd + 1)

\* bigint_div_digit_helper, of d # 0: long division from the MSD down.
DivDigit(a, d, q) ==
  LET rem[n \in 0 .. a.msd + 1] ==
        IF n = 0 THEN 0
        ELSE (rem[n - 1] * Base + a.digits[a.msd + 1 - n]) % d
      digit(i) == (rem[a.msd - i] * Base + a.digits[i]) \div d
  IN  [q |-> Clamp(Store(SmallInt(Expand(q, a.msd + 1), 0),
                         [i \in 0 .. a.msd |-> digit(i)], a.msd)),
       rem |-> rem[a.msd + 1]]

\* bigint_random, of the numbers rand() returns: shifted away one by one.
Random(x, ds) ==
  LET drawn[n \in 1 .. Len(ds)] ==
        IF n = 1 THEN Add(SmallInt(x, 0), OneDigit(ds[1]), SmallInt(x, 0))
        ELSE LET shifted == RightShiftDigits(drawn[n - 1], 1)
             IN  Add(shifted, OneDigit(ds[n]), shifted)
  IN  drawn[Len(ds)]

-----------------------------------------------------------------------------
(* bigint_mul_karatsuba *)

\* The halves of an operand: the lower one is clamped, the upper one is not.
Split(x, half) ==
  [low |-> Clamp(Bigint(half, [i \in 0 .. half - 1 |-> x.digits[i]], half - 1)),
   high |-> Bigint(x.msd + 1 - half,
                   [i \in 0 .. x.msd - half |-> x.digits[half + i]], x.msd - half)]

\* The bigints it computes one after the other: s, with those that follow.
WithProducts(x, y, half) ==
  [x |-> x, y |-> y,
   x0y0 |-> Mul(x.low, y.low, Fresh(2 * half)),
   x1y1 |-> Mul(x.high, y.high, Fresh(2 * half)),
   cross |-> Mul(Add(y.high, y.low, Fresh(half + 1)),
                 Add(x.high, x.low, Fresh(half + 1)), Fresh(2 * half))]
WithLess(s) == s @@ [less |-> Sub(s.cross, s.x0y0, s.cross)]
WithMiddle(s, half) ==
  s @@ [middle |-> LeftShiftDigits(Sub(s.less, s.x1y1, s.less), half),
        top |-> LeftShiftDigits(s.x1y1, 2 * half)]
WithSum(s) == s @@ [sum |-> Add(s.middle, s.x0y0, s.middle)]

\* Of operands of two digits at least
KaratsubaSteps(a, b, half) ==
  WithSum(WithMiddle(WithLess(WithProducts(Split(a, half), Split(b, half), half)), half))

Half(a, b) == Min({a.msd + 1, b.msd + 1}) \div 2

KaratsubaSum(s, c) == Add(s.sum, s.top, c)

\* Of a single digit, half is no digit: an MSD of 0 - 1, from which clamp
\* reads down.  There is no result then.
MulKaratsuba(a, b, c) ==
  IF Half(a, b) = 0
    THEN [c EXCEPT !.msd = Wrapped]
    ELSE KaratsubaSum(KaratsubaSteps(a, b, Half(a, b)), c)

\* One of these additions or subtractions drops its carry or borrow.
StepsDrop(s) ==
  \/ DropsCarry(s.x.high, s.x.low) \/ DropsCarry(s.y.high, s.y.low)
  \/ DropsBorrow(s.cross, s.x0y0) \/ DropsBorrow(s.less, s.x1y1)
  \/ DropsCarry(s.middle, s.x0y0) \/ DropsCarry(s.sum, s.top)

KaratsubaDrops(a, b) == StepsDrop(KaratsubaSteps(a, b, Half(a, b)))

-----------------------------------------------------------------------------
(* Modular arithmetic *)

\* bigint_mul_mod
MulMod(a, b, m, c) == Mod(Mul(a, b, Fresh(a.num + b.num)), m, c)

\* bigint_square_mod squares into c, which may be the modulus.
SquareMod(a, m, c, overModulus) ==
  LET reduced(square) == Mod(square, IF overModulus THEN square ELSE m, square)
  IN  reduced(Mul(a, a, c))

\* bigint_expt_mod: a square for every bit of exp, a product for every 1.
ExptMod(base, exp, mod, r) ==
  LET bits == BitsCount(exp)
      times(x, y) == Mod(Mul(x, y, Fresh((mod.msd + 1) * 2 + 1)), mod, x)
      power(b_mod) ==
        LET after[n \in 0 .. bits] ==
              IF n = 0 THEN Mod(SmallInt(r, 1), mod, SmallInt(r, 1))
              ELSE LET prev == after[n - 1]
                       squared == times(prev, prev)
                   IN  IF BitAt(exp, bits - n) = 1 THEN times(squared, b_mod) ELSE squared
        IN  after[bits]
  IN  power(Mod(base, mod, Fresh(mod.msd + 2)))

\* bigint_lcm, of operands that are not both zero.  `over' names the operands
\* that c is: the product has replaced them when the gcd is taken.  A gcd of 0
\* is refused by bigint_div.
Lcm(a, b, c, over) ==
  LET room == Expand(c, a.num + b.num)
      then(x, name, y) == IF name \in over THEN y ELSE x
      size(x, name) == then(x, name, room).num
      gcd(product) == Gcd(then(a, "a", product), then(b, "b", product),
                          Fresh(size(a, "a")))
      divided(product, by) ==
        IF IsZero(by) THEN product
        ELSE Copy(Div(product, by, Fresh(size(a, "a")), Fresh(size(b, "b"))).q,
                  product)
      reduced(product) ==
        IF product.msd = Wrapped THEN product
        ELSE divided(product, gcd(product))
  IN  reduced(MulKaratsuba(a, b, room))

(***************************************************************************)
(* The loop of bigint_inverse_mod.  x0 and x1 carry a sign beside the      *)
(* bigint, TRUE for negative; `drops' is no variable of the code: whether  *)
(* an addition or subtraction dropped a carry or borrow.                   *)
(***************************************************************************)
NextFactor(x0, x1, qx0) ==
  IF x0.sign # x1.sign
    THEN [bi |-> Add(x1.bi, qx0, x0.bi), sign |-> x1.sign, drops |-> DropsCarry(x1.bi, qx0)]
  ELSE IF Cmp(x1.bi, qx0) = 1
    THEN [bi |-> Sub(x1.bi, qx0, x0.bi), sign |-> x1.sign, drops |-> DropsBorrow(x1.bi, qx0)]
  ELSE [bi |-> Sub(qx0, x1.bi, x0.bi), sign |-> ~ x1.sign, drops |-> DropsBorrow(qx0, x1.bi)]

RECURSIVE InverseLoop(_, _, _, _, _)
InverseLoop(tmp_a, tmp_m, x0, x1, drops) ==
  IF Cmp(tmp_a, OneDigit(1)) # 1 THEN [x1 |-> x1, drops |-> drops]
  ELSE LET res == Div(tmp_a, tmp_m, Fresh(tmp_a.num), Fresh(tmp_m.num))
       IN  InverseLoop(Copy(tmp_m, tmp_a), Copy(res.r, tmp_m),
                       NextFactor(x0, x1, Mul(res.q, x0.bi, Fresh(tmp_m.num))),
                       x0, drops \/ x0.drops)

InverseSteps(a, m) ==
  InverseLoop(Copy(a, Fresh(a.num)), Copy(m, Fresh(m.num)),
              [bi |-> OneDigit(0), sign |-> FALSE, drops |-> FALSE],
              [bi |-> OneDigit(1), sign |-> FALSE, drops |-> FALSE], FALSE)

HasInverse(a, m) == Cmp(Gcd(a, m, Fresh(1)), OneDigit(1)) = 0

\* bigint_inverse_mod; without an inverse, only room is made in c.
InverseMod(a, m, c) ==
  LET room == IF c.num # a.num THEN Expand(c, m.num) ELSE c
      from(x1) == IF x1.sign THEN Sub(m, x1.bi, room) ELSE Copy(x1.bi, room)
  IN  IF HasInverse(a, m) THEN from(InverseSteps(a, m).x1) ELSE room

InverseDrops(a, m) ==
  LET from(s) == s.drops \/ (s.x1.sign /\ DropsBorrow(m, s.x1.bi))
  IN  HasInverse(a, m) /\ from(InverseSteps(a, m))

-----------------------------------------------------------------------------
(* Bits *)

(***************************************************************************)
(* bigint_and, bigint_or, bigint_xor.  Bigger is the operand of the bigger *)
(* value; where the other has leading zeros, the loop runs over the digits *)
(* of both, beyond what was allocated for bigger and for c.  op is a table *)
(* over two digits.                                                        *)
(***************************************************************************)
Logic(op, a, b, c, junk) ==
  LET bigger == IF Cmp(a, b) = -1 THEN b ELSE a
      smaller == IF Cmp(a, b) = -1 THEN a ELSE b
      digit(x, i) == IF i <= x.msd THEN x.digits[i] ELSE 0
      big(i) == IF i < bigger.num THEN digit(bigger, i) ELSE junk
  IN  Store(Expand(c, bigger.num),
            [i \in 0 .. Max({bigger.msd, smaller.msd}) |->
               op[big(i), digit(smaller, i)]],
            bigger.msd)

AndOf(a, b, c, junk) == Logic([x, y \in 0 .. Base - 1 |-> x & y], a, b, c, junk)
OrOf(a, b, c, junk) == Logic([x, y \in 0 .. Base - 1 |-> x | y], a, b, c, junk)
XorOf(a, b, c, junk) == Logic([x, y \in 0 .. Base - 1 |-> x ^^ y], a, b, c, junk)

\* bigint_not: the MSD ends up one above the digits written.
Complement(a, c) ==
  Store(Expand(c, a.msd + 1), [i \in 0 .. a.msd |-> Base - 1 - a.digits[i]],
        a.msd + 1)
=============================================================================
